------------------------------- MODULE Lease -------------------------------
(***************************************************************************)
(* The execution queue: apps/api/src/boobs_api/leases.py, the two          *)
(* handlers of worker_routes.py and the worker loop that calls them.       *)
(*                                                                         *)
(* The queue is the executions table itself.  Every POST /v1/worker/lease  *)
(* is one READ COMMITTED transaction that reads the expired claims, writes *)
(* them back one row at a time, takes the oldest queued row with FOR       *)
(* UPDATE SKIP LOCKED and commits.  A report is two transactions with      *)
(* object storage and the verifier between them.                           *)
(*                                                                         *)
(* A row therefore has two versions here: row[e] is what is committed, and *)
(* newest[e] what the transaction holding lock[e] has written over it.     *)
(***************************************************************************)
EXTENDS Naturals, FiniteSets

CONSTANTS
  NumExecutions,  \* rows the instance may create
  Workers,        \* worker ids, the value of BOOBS_WORKER_ID or node-pid
  NoWorker,       \* NULL in leased_by, and an unlocked row
  Keys,           \* worker API keys
  KeyOf,          \* the API key each worker authenticates with
  StableIds,      \* workers whose id survives a restart of their process
  Verdicts,       \* the terminal statuses a worker may report
  MaxAttempts     \* leases.MAX_ATTEMPTS

ASSUME LeaseAssumption ==
  /\ NumExecutions \in Nat
  /\ NoWorker \notin Workers
  /\ KeyOf \in [Workers -> Keys]
  /\ StableIds \subseteq Workers
  /\ Verdicts \subseteq {"SUCCEEDED", "FAILED", "TIMEOUT", "REJECTED"}
  /\ MaxAttempts \in Nat \ {0}

\* Ids are numbered in created_at order.
Executions == 1..NumExecutions

VARIABLES
  row,        \* the committed executions table
  newest,     \* its newest row versions, uncommitted writes included
  lock,       \* the lease transaction holding each row lock
  phase,      \* what each worker is doing; its lease request included
  stale,      \* attempts of the expired rows a lease request has read, or 0
  job,        \* the claim a worker is working on
  reports,    \* report_result handlers between their two transactions
  stored,     \* the attempt whose logs and outputs object storage holds
  completed,  \* attempts with an EXECUTION_COMPLETED event and a verdict
  answer      \* how the worker's latest report was answered

vars == <<row, newest, lock, phase, stale, job, reports, stored, completed, answer>>

-----------------------------------------------------------------------------
(* The executions table.                                                   *)

Terminal == {"SUCCEEDED", "FAILED", "TIMEOUT", "REJECTED"}
Statuses == {"absent", "QUEUED", "RUNNING"} \cup Terminal

\* The columns the queue reads and writes. result is the attempt whose
\* output_key, logs_key and exit_code the row carries, 0 for NULL.
Row == [status: Statuses, leased_by: Workers \cup {NoWorker},
        lease: {"none", "live", "expired"}, attempts: Nat, result: Nat]

AbsentRow == [status |-> "absent", leased_by |-> NoWorker,
              lease |-> "none", attempts |-> 0, result |-> 0]

Requeued(r) == [r EXCEPT !.status = "QUEUED", !.leased_by = NoWorker, !.lease = "none"]

\* leased_by and lease_expires_at stay as they were.
Abandoned(r) == [r EXCEPT !.status = "FAILED"]

\* Variant: a claim that is not counted as an attempt.
ClaimedByUncounted(r, w) ==
  [r EXCEPT !.status = "RUNNING", !.leased_by = w, !.lease = "live"]

ClaimedBy(r, w) ==
  [r EXCEPT !.status = "RUNNING", !.leased_by = w, !.lease = "live", !.attempts = @ + 1]

\* leased_by keeps naming the worker whose result this is.
Reported(r, status, attempt) ==
  [r EXCEPT !.status = status, !.lease = "none", !.result = attempt]

-----------------------------------------------------------------------------
(* Workers and their lease transactions.                                   *)

InLeaseTx == {"flushing", "claiming", "committing"}
Phases == {"idle", "running", "reporting", "gone"} \cup InLeaseTx

Jobs == [exec: Executions, attempt: Nat \ {0}]
NoJob == [exec |-> 0, attempt |-> 0]

Handlers == [worker: Workers, exec: Executions, attempt: Nat \ {0},
             status: Verdicts, uploaded: BOOLEAN]

NothingStale == [e \in Executions |-> 0]

\* get_principal stamps last_used_at, and the first statement of the handler
\* flushes that UPDATE: the key's row stays locked until the commit, so two
\* lease requests with one API key never overlap.
KeyFree(w) == \A v \in Workers : KeyOf[v] = KeyOf[w] => phase[v] \notin InLeaseTx

Rollback(w) ==
  /\ newest' = [e \in Executions |-> IF lock[e] = w THEN row[e] ELSE newest[e]]
  /\ lock' = [e \in Executions |-> IF lock[e] = w THEN NoWorker ELSE lock[e]]
  /\ stale' = [stale EXCEPT ![w] = NothingStale]
  /\ job' = [job EXCEPT ![w] = NoJob]
  /\ phase' = [phase EXCEPT ![w] = "idle"]
  /\ UNCHANGED row

-----------------------------------------------------------------------------

Init ==
  /\ row = [e \in Executions |-> AbsentRow]
  /\ newest = row
  /\ lock = [e \in Executions |-> NoWorker]
  /\ phase = [w \in Workers |-> "idle"]
  /\ stale = [w \in Workers |-> NothingStale]
  /\ job = [w \in Workers |-> NoJob]
  /\ reports = {}
  /\ stored = [e \in Executions |-> 0]
  /\ completed = [e \in Executions |-> {}]
  /\ answer = [w \in Workers |-> "none"]

\* _enqueue commits the new row before anything else may see it.
Enqueue(e) ==
  /\ row[e].status = "absent"
  /\ row' = [row EXCEPT ![e].status = "QUEUED"]
  /\ newest' = [newest EXCEPT ![e].status = "QUEUED"]
  /\ UNCHANGED <<lock, phase, stale, job, reports, stored, completed, answer>>

\* Time passes lease_expires_at of a committed claim.
Expire(e) ==
  /\ row[e].status = "RUNNING" /\ row[e].lease = "live"
  /\ row' = [row EXCEPT ![e].lease = "expired"]
  /\ newest' = [newest EXCEPT ![e] = IF lock[e] = NoWorker THEN row'[e] ELSE @]
  /\ UNCHANGED <<lock, phase, stale, job, reports, stored, completed, answer>>

\* Variant: the SELECT without its comparison with the clock.
LeaseScanAnyRunning(w) ==
  /\ phase[w] = "idle"
  /\ KeyFree(w)
  /\ stale' = [stale EXCEPT ![w] = [e \in Executions |->
       IF row[e].status = "RUNNING" THEN row[e].attempts ELSE 0]]
  /\ phase' = [phase EXCEPT ![w] = "flushing"]
  /\ answer' = [answer EXCEPT ![w] = "none"]
  /\ UNCHANGED <<row, newest, lock, job, reports, stored, completed>>

\* Variant: one that leaves out the rows that have used up their attempts.
LeaseScanRetriable(w) ==
  /\ phase[w] = "idle"
  /\ KeyFree(w)
  /\ stale' = [stale EXCEPT ![w] = [e \in Executions |->
       IF row[e].lease = "expired" /\ row[e].attempts < MaxAttempts THEN row[e].attempts ELSE 0]]
  /\ phase' = [phase EXCEPT ![w] = "flushing"]
  /\ answer' = [answer EXCEPT ![w] = "none"]
  /\ UNCHANGED <<row, newest, lock, job, reports, stored, completed>>

\* reclaim_expired's SELECT: committed rows, no lock, kept in memory.
LeaseScan(w) ==
  /\ phase[w] = "idle"
  /\ KeyFree(w)
  /\ stale' = [stale EXCEPT ![w] = [e \in Executions |->
       IF row[e].status = "RUNNING" /\ row[e].lease = "expired" THEN row[e].attempts ELSE 0]]
  /\ phase' = [phase EXCEPT ![w] = "flushing"]
  /\ answer' = [answer EXCEPT ![w] = "none"]
  /\ UNCHANGED <<row, newest, lock, job, reports, stored, completed>>

\* The next stale row to be flushed: the unit of work writes in key order.
NextStale(w, e) ==
  /\ stale[w][e] # 0
  /\ \A f \in Executions : stale[w][f] # 0 => e <= f

\* Variant: attempts compared with > instead of >=.
FlushRowOneMore(w, e) ==
  /\ phase[w] = "flushing"
  /\ NextStale(w, e)
  /\ lock[e] = NoWorker
  /\ newest[e].status \notin Terminal
  /\ newest' = [newest EXCEPT ![e] =
       IF stale[w][e] > MaxAttempts THEN Abandoned(@) ELSE Requeued(@)]
  /\ lock' = [lock EXCEPT ![e] = w]
  /\ stale' = [stale EXCEPT ![w][e] = 0]
  /\ UNCHANGED <<row, phase, job, reports, stored, completed, answer>>

\* Variant: no executions_guard trigger.
FlushRowUnguarded(w, e) ==
  /\ phase[w] = "flushing"
  /\ NextStale(w, e)
  /\ lock[e] = NoWorker
  /\ newest' = [newest EXCEPT ![e] =
       IF stale[w][e] >= MaxAttempts THEN Abandoned(@) ELSE Requeued(@)]
  /\ lock' = [lock EXCEPT ![e] = w]
  /\ stale' = [stale EXCEPT ![w][e] = 0]
  /\ UNCHANGED <<row, phase, job, reports, stored, completed, answer>>

\* The autoflush writes one stale row back by primary key alone, waiting for
\* its lock. What it writes was decided by the row as LeaseScan read it.
FlushRow(w, e) ==
  /\ phase[w] = "flushing"
  /\ NextStale(w, e)
  /\ lock[e] = NoWorker
  /\ newest[e].status \notin Terminal
  /\ newest' = [newest EXCEPT ![e] =
       IF stale[w][e] >= MaxAttempts THEN Abandoned(@) ELSE Requeued(@)]
  /\ lock' = [lock EXCEPT ![e] = w]
  /\ stale' = [stale EXCEPT ![w][e] = 0]
  /\ UNCHANGED <<row, phase, job, reports, stored, completed, answer>>

\* boobs_execution_guard refuses to update a terminal row: the request is
\* answered 500, and the worker sleeps and polls again.
FlushRefused(w, e) ==
  /\ phase[w] = "flushing"
  /\ NextStale(w, e)
  /\ lock[e] = NoWorker
  /\ newest[e].status \in Terminal
  /\ Rollback(w)
  /\ UNCHANGED <<reports, stored, completed, answer>>

FlushDone(w) ==
  /\ phase[w] = "flushing"
  /\ stale[w] = NothingStale
  /\ phase' = [phase EXCEPT ![w] = "claiming"]
  /\ UNCHANGED <<row, newest, lock, stale, job, reports, stored, completed, answer>>

\* Queued rows this transaction may lock: its own requeued ones included,
\* those another transaction holds stepped over.
Claimable(w) ==
  {e \in Executions : newest[e].status = "QUEUED" /\ lock[e] \in {NoWorker, w}}

\* FOR UPDATE SKIP LOCKED LIMIT 1 in created_at order, and the claim itself.
Claim(w, e) ==
  /\ phase[w] = "claiming"
  /\ e \in Claimable(w)
  /\ \A f \in Claimable(w) : e <= f
  /\ newest' = [newest EXCEPT ![e] = ClaimedBy(@, w)]
  /\ lock' = [lock EXCEPT ![e] = w]
  /\ job' = [job EXCEPT ![w] = [exec |-> e, attempt |-> newest[e].attempts + 1]]
  /\ phase' = [phase EXCEPT ![w] = "committing"]
  /\ UNCHANGED <<row, stale, reports, stored, completed, answer>>

ClaimNothing(w) ==
  /\ phase[w] = "claiming"
  /\ Claimable(w) = {}
  /\ phase' = [phase EXCEPT ![w] = "committing"]
  /\ UNCHANGED <<row, newest, lock, stale, job, reports, stored, completed, answer>>

\* The commit, and the response. When the response is lost the worker polls
\* again, knowing nothing of the claim it was granted.
LeaseCommit(w, delivered) ==
  /\ phase[w] = "committing"
  /\ row' = [e \in Executions |-> IF lock[e] = w THEN newest[e] ELSE row[e]]
  /\ lock' = [e \in Executions |-> IF lock[e] = w THEN NoWorker ELSE lock[e]]
  /\ IF delivered /\ job[w] # NoJob
     THEN phase' = [phase EXCEPT ![w] = "running"] /\ UNCHANGED job
     ELSE phase' = [phase EXCEPT ![w] = "idle"] /\ job' = [job EXCEPT ![w] = NoJob]
  /\ UNCHANGED <<newest, stale, reports, stored, completed, answer>>

\* The API process or its connection dies with the transaction open.
LeaseAbort(w) ==
  /\ phase[w] \in InLeaseTx
  /\ Rollback(w)
  /\ UNCHANGED <<reports, stored, completed, answer>>

-----------------------------------------------------------------------------
(* Running and reporting.                                                  *)

BackTo(w, next) ==
  /\ phase' = [phase EXCEPT ![w] = next]
  /\ job' = [job EXCEPT ![w] = NoJob]

\* RuntimeUnavailable: report nothing and leave the job to its lease.
Abandon(w) ==
  /\ phase[w] = "running"
  /\ BackTo(w, "idle")
  /\ UNCHANGED <<row, newest, lock, stale, reports, stored, completed, answer>>

\* The worker process ends: killed, or by an exception out of report(). A
\* restarted one has the same id only when BOOBS_WORKER_ID names it; its
\* handler in the API, if there is one, carries on.
Crash(w) ==
  /\ phase[w] \in {"idle", "running", "reporting"}
  /\ BackTo(w, IF w \in StableIds THEN "idle" ELSE "gone")
  /\ UNCHANGED <<row, newest, lock, stale, reports, stored, completed, answer>>

\* report_result up to its first release: the three ways out, in order.
ReportCheck(w, status) ==
  LET j == job[w]
  IN  /\ phase[w] = "running"
      /\ KeyFree(w)
      /\ \/ /\ row[j.exec].status # "RUNNING"
            /\ answer' = [answer EXCEPT ![w] = "discarded"]
            /\ BackTo(w, "idle")
            /\ UNCHANGED reports
         \/ /\ row[j.exec].status = "RUNNING"
            /\ row[j.exec].leased_by # w
            /\ answer' = [answer EXCEPT ![w] = "refused"]
            /\ BackTo(w, "idle")
            /\ UNCHANGED reports
         \/ /\ row[j.exec].status = "RUNNING"
            /\ row[j.exec].leased_by = w
            /\ reports' = reports \cup {[worker |-> w, exec |-> j.exec, attempt |-> j.attempt,
                                         status |-> status, uploaded |-> FALSE]}
            /\ phase' = [phase EXCEPT ![w] = "reporting"]
            /\ UNCHANGED <<job, answer>>
      /\ UNCHANGED <<row, newest, lock, stale, stored, completed>>

\* put_json under a key made of the execution id, then the verifier: no
\* transaction is open and no claim is held.
ReportUpload(h) ==
  /\ ~h.uploaded
  /\ stored' = [stored EXCEPT ![h.exec] = h.attempt]
  /\ reports' = (reports \ {h}) \cup {[h EXCEPT !.uploaded = TRUE]}
  /\ UNCHANGED <<row, newest, lock, phase, stale, job, completed, answer>>

\* The worker still waiting for this handler gets its answer.
Answered(h, reply) ==
  IF phase[h.worker] = "reporting" /\ job[h.worker] = [exec |-> h.exec, attempt |-> h.attempt]
  THEN BackTo(h.worker, "idle") /\ answer' = [answer EXCEPT ![h.worker] = reply]
  ELSE UNCHANGED <<phase, job, answer>>

\* Variant: a WHERE clause that does not name the worker.
StillRunning(h) == newest[h.exec].status = "RUNNING"

\* The WHERE clause of the guarded UPDATE.
StillOurs(h) == newest[h.exec].leased_by = h.worker /\ newest[h.exec].status = "RUNNING"

\* Variant: the record written before the upload.
ReportRecordFirst(h) ==
  /\ ~h.uploaded
  /\ lock[h.exec] = NoWorker
  /\ StillOurs(h)
  /\ row' = [row EXCEPT ![h.exec] = Reported(@, h.status, h.attempt)]
  /\ newest' = [newest EXCEPT ![h.exec] = row'[h.exec]]
  /\ completed' = [completed EXCEPT ![h.exec] = @ \cup {h.attempt}]
  /\ reports' = reports \ {h}
  /\ Answered(h, "accepted")
  /\ UNCHANGED <<lock, stale, stored>>

\* The guarded UPDATE matched: row, event and verdict commit together.
ReportRecord(h) ==
  /\ h.uploaded
  /\ lock[h.exec] = NoWorker
  /\ StillOurs(h)
  /\ row' = [row EXCEPT ![h.exec] = Reported(@, h.status, h.attempt)]
  /\ newest' = [newest EXCEPT ![h.exec] = row'[h.exec]]
  /\ completed' = [completed EXCEPT ![h.exec] = @ \cup {h.attempt}]
  /\ reports' = reports \ {h}
  /\ Answered(h, "accepted")
  /\ UNCHANGED <<lock, stale, stored>>

\* Variant: the discard answered with ResultResponse's default, accepted.
ReportDiscardUnsaid(h) ==
  /\ h.uploaded
  /\ lock[h.exec] = NoWorker
  /\ ~StillOurs(h)
  /\ reports' = reports \ {h}
  /\ Answered(h, "accepted")
  /\ UNCHANGED <<row, newest, lock, stale, stored, completed>>

\* It matched no row: _discard.
ReportDiscard(h) ==
  /\ h.uploaded
  /\ lock[h.exec] = NoWorker
  /\ ~StillOurs(h)
  /\ reports' = reports \ {h}
  /\ Answered(h, "discarded")
  /\ UNCHANGED <<row, newest, lock, stale, stored, completed>>

\* The handler dies with the API process; report() raises in the worker,
\* which nothing catches.
HandlerCrash(h) ==
  /\ reports' = reports \ {h}
  /\ IF phase[h.worker] = "reporting" /\ job[h.worker] = [exec |-> h.exec, attempt |-> h.attempt]
     THEN BackTo(h.worker, IF h.worker \in StableIds THEN "idle" ELSE "gone")
     ELSE UNCHANGED <<phase, job>>
  /\ UNCHANGED <<row, newest, lock, stale, stored, completed, answer>>

-----------------------------------------------------------------------------

LeaseNext(w) ==
  \/ LeaseScan(w)
  \/ \E e \in Executions : FlushRow(w, e) \/ FlushRefused(w, e) \/ Claim(w, e)
  \/ FlushDone(w)
  \/ ClaimNothing(w)
  \/ \E delivered \in BOOLEAN : LeaseCommit(w, delivered)
  \/ LeaseAbort(w)

WorkerNext(w) ==
  \/ Abandon(w)
  \/ Crash(w)
  \/ \E status \in Verdicts : ReportCheck(w, status)

ReportNext(h) ==
  \/ ReportUpload(h)
  \/ ReportRecord(h)
  \/ ReportDiscard(h)
  \/ HandlerCrash(h)

Next ==
  \/ \E e \in Executions : Enqueue(e) \/ Expire(e)
  \/ \E w \in Workers : LeaseNext(w) \/ WorkerNext(w)
  \/ \E h \in reports : ReportNext(h)

Spec == Init /\ [][Next]_vars
-----------------------------------------------------------------------------
(* Properties.                                                             *)

\* Every variable has the type its column, header or dictionary gives it.
TypeOK ==
  /\ row \in [Executions -> Row]
  /\ newest \in [Executions -> Row]
  /\ lock \in [Executions -> Workers \cup {NoWorker}]
  /\ phase \in [Workers -> Phases]
  /\ stale \in [Workers -> [Executions -> Nat]]
  /\ job \in [Workers -> Jobs \cup {NoJob}]
  /\ \A w \in Workers : phase[w] \in {"running", "reporting"} => job[w] # NoJob
  /\ reports \subseteq Handlers
  /\ stored \in [Executions -> Nat]
  /\ completed \in [Executions -> SUBSET Nat]
  /\ answer \in [Workers -> {"none", "accepted", "discarded", "refused"}]

\* An unlocked row has one version; a locked one is locked by an open lease
\* transaction and was not settled when it was locked.
LockInv ==
  \A e \in Executions :
    IF lock[e] = NoWorker THEN newest[e] = row[e]
    ELSE phase[lock[e]] \in InLeaseTx /\ row[e].status \notin Terminal

\* One key minted for every worker of a deployment.
OneKey == \A v, w \in Workers : KeyOf[v] = KeyOf[w]

\* With one API key there is one lease transaction at a time, and what it has
\* read is still so when it writes, or settled; it only ever locks a row that
\* nobody holds under a running lease.
OneAtATime ==
  \A v, w \in Workers : phase[v] \in InLeaseTx /\ phase[w] \in InLeaseTx => v = w

StaleInv ==
  \A w \in Workers, e \in Executions :
    stale[w][e] # 0 =>
      /\ phase[w] = "flushing" /\ lock[e] = NoWorker
      /\ \/ row[e].status \in Terminal
         \/ /\ row[e].status = "RUNNING" /\ row[e].lease = "expired"
            /\ stale[w][e] = row[e].attempts

LeaseColumn(r) ==
  /\ r.lease = "live" => r.status = "RUNNING"
  /\ r.status = "RUNNING" => r.lease # "none"

LockedInv ==
  \A e \in Executions :
    /\ LeaseColumn(row[e]) /\ LeaseColumn(newest[e])
    /\ lock[e] # NoWorker =>
         row[e].status = "QUEUED" \/ (row[e].status = "RUNNING" /\ row[e].lease = "expired")

AttemptsColumn(r) ==
  /\ r.attempts <= MaxAttempts
  /\ r.status \in {"absent", "QUEUED"} => r.attempts < MaxAttempts

AttemptsInv ==
  \A e \in Executions : AttemptsColumn(row[e]) /\ AttemptsColumn(newest[e])

ExclusiveInv == TypeOK /\ LockInv /\ OneAtATime /\ StaleInv /\ LockedInv /\ AttemptsInv

\* A result is recorded once, over bytes that its handler has uploaded.
RecordInv ==
  /\ \A e \in Executions :
       /\ newest[e].result = row[e].result
       /\ row[e].result # 0 => row[e].status \in Terminal /\ stored[e] # 0
  /\ \A h \in reports : h.uploaded => stored[h.exec] # 0

\* Where ids die with their process: a worker remembers a claim from the commit
\* that grants it, its handlers outlive it but nobody answers for it again, and
\* as long as the row still names it, it is on that claim.
Holds(w, e, attempt) ==
  \A r \in {row[e], newest[e]} :
    r.status = "RUNNING" /\ r.leased_by = w => r.attempts = attempt

WorkerInv ==
  \A w \in Workers :
    /\ job[w] # NoJob => phase[w] \in {"committing", "running", "reporting"}
    /\ phase[w] = "committing" /\ job[w] # NoJob =>
         lock[job[w].exec] = w /\ newest[job[w].exec].attempts = job[w].attempt
    /\ phase[w] \in {"running", "reporting"} => Holds(w, job[w].exec, job[w].attempt)

HandlerInv ==
  \A h \in reports :
    /\ \A g \in reports : g.worker = h.worker => g = h
    /\ \/ phase[h.worker] = "gone"
       \/ phase[h.worker] = "reporting" /\ job[h.worker] = [exec |-> h.exec, attempt |-> h.attempt]
    /\ Holds(h.worker, h.exec, h.attempt)

\* "A result that arrives after the lease moved on must not land": a recorded
\* result is the one of the claim the row was on, and the append-only event
\* and verdict are that attempt's alone.
ResultIsOfTheClaim ==
  \A e \in Executions :
    /\ completed[e] = IF row[e].result = 0 THEN {} ELSE {row[e].result}
    /\ row[e].result # 0 => row[e].result = row[e].attempts

MortalInv == ResultIsOfTheClaim /\ WorkerInv /\ HandlerInv

\* What an open lease request has written over a committed row is one step of
\* the queue away from it, and at most one of those steps is a claim.
WrittenBy(w, e) ==
  \/ row[e].attempts < MaxAttempts /\ newest[e] = Requeued(row[e])
  \/ row[e].attempts >= MaxAttempts /\ row[e].status = "RUNNING" /\ newest[e] = Abandoned(row[e])
  \/ /\ row[e].attempts < MaxAttempts /\ newest[e] = ClaimedBy(row[e], w)
     /\ phase[w] = "committing" /\ job[w].exec = e

WrittenInv ==
  \A e \in Executions :
    /\ row[e].status = "absent" => row[e] = AbsentRow
    /\ lock[e] # NoWorker => WrittenBy(lock[e], e)

\* leases.py: a job claimed MAX_ATTEMPTS times without a result is failed, so
\* no execution is ever claimed more often than that.
AttemptsBounded == \A e \in Executions : row[e].attempts <= MaxAttempts

\* report_result writes object storage before the row, so that output_key
\* never points at bytes that do not exist.
NoDanglingResult == \A e \in Executions : row[e].result # 0 => stored[e] # 0

\* ... and so that what a reader of the execution downloads is what was judged:
\* "a discarded result must leave no trace at all".
StoredIsTheResult ==
  \A e \in Executions : row[e].result # 0 => stored[e] = row[e].result

\* A worker that is told "accepted" was still the holder of a running row, and
\* its own attempt's result is what the row has recorded.
AcceptedIsRecorded ==
  [][\A w \in Workers : answer[w] # "accepted" /\ answer'[w] = "accepted" =>
       /\ row[job[w].exec].status = "RUNNING"
       /\ row'[job[w].exec].result = job[w].attempt]_vars

\* Nobody but its holder ends a claim whose lease is running: it lapses, or
\* the holder's own result settles it. "Exactly one worker claims each row".
LiveLeaseRespected ==
  [][\A e \in Executions :
       row[e].lease = "live" /\ row'[e].lease # "live" =>
         \/ row'[e] = [row[e] EXCEPT !.lease = "expired"]
         \/ row'[e].result # 0 /\ row'[e].leased_by = row[e].leased_by]_vars

\* The row of a settled execution never changes again: not when a lease
\* request that saw it running writes it back, nor when a late report lands.
SettledIsFinal ==
  [][\A e \in Executions : row[e].status \in Terminal => row'[e] = row[e]]_vars

\* The transactions above are an implementation of the atomic queue.
Queue == INSTANCE ClaimQueue WITH claims <- row
QueueSpec == Queue!Spec

LeaseStep(w) ==
  \/ \E e \in Executions : FlushRow(w, e) \/ FlushRefused(w, e) \/ Claim(w, e)
  \/ FlushDone(w) \/ ClaimNothing(w)
  \/ \E delivered \in BOOLEAN : LeaseCommit(w, delivered)

\* Here a commit and a rollback are one and the same step.
CommittingNothing(w) == phase[w] = "committing" /\ \A e \in Executions : lock[e] # w

\* Some worker keeps polling, transactions and runs end, report() gives up
\* after the client's 120 seconds, the clock moves on, and at some point the
\* API stops failing mid-request. Responses may be lost for ever, workers may
\* crash for ever and no report need ever be recorded.
Fairness ==
  /\ WF_vars(\E w \in Workers : LeaseScan(w))
  /\ \A w \in Workers :
       /\ WF_vars(LeaseStep(w))
       /\ WF_vars(Abandon(w) \/ \E status \in Verdicts : ReportCheck(w, status))
       /\ WF_vars(phase[w] = "reporting" /\ Crash(w))
  /\ \A e \in Executions : WF_vars(Expire(e))
  /\ <>[][\A w \in Workers : LeaseAbort(w) => CommittingNothing(w)]_vars

FairSpec == Spec /\ Fairness

\* Every execution that is enqueued is eventually settled: neither a worker
\* that dies on it nor a lost response wedges the queue.
EventuallySettled ==
  \A e \in Executions : row[e].status = "QUEUED" ~> row[e].status \in Terminal
=============================================================================
