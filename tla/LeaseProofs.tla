---------------------------- MODULE LeaseProofs ----------------------------
(***************************************************************************)
(* Proofs about Lease for any number of workers, executions and attempts:  *)
(* exclusion and what it is good for, what a recorded result is worth, and *)
(* that the transactions of the queue implement ClaimQueue.                *)
(***************************************************************************)
EXTENDS Lease, TLAPS

-----------------------------------------------------------------------------
(* Type correctness.                                                       *)

\* What each statement writes over a row is again a row.
LEMMA RowUpdates ==
  ASSUME NEW r \in Row
  PROVE  /\ [r EXCEPT !.status = "QUEUED"] \in Row
         /\ [r EXCEPT !.lease = "expired"] \in Row
         /\ Requeued(r) \in Row
         /\ Abandoned(r) \in Row
<1>1. [r EXCEPT !.status = "QUEUED"] \in Row
  BY DEF Row, Statuses
<1>2. [r EXCEPT !.lease = "expired"] \in Row
  BY DEF Row
<1>3. Requeued(r) \in Row
  BY DEF Row, Statuses, Requeued
<1>4. Abandoned(r) \in Row
  BY DEF Row, Statuses, Terminal, Abandoned
<1> QED
  BY <1>1, <1>2, <1>3, <1>4

\* So is a row claimed by a worker,
LEMMA ClaimedRow == \A r \in Row, w \in Workers : ClaimedBy(r, w) \in Row
<1> TAKE r \in Row, w \in Workers
<1>1. r.attempts + 1 \in Nat
  BY DEF Row
<1> DEFINE n == r.attempts + 1
<1>2. [r EXCEPT !.status = "RUNNING", !.leased_by = w, !.lease = "live",
                !.attempts = n] \in Row
  <2> HIDE DEF n
  <2> QED
    BY <1>1 DEF Row, Statuses, n
<1> QED
  BY <1>2 DEF ClaimedBy

\* and one that carries a reported result.
LEMMA ReportedRow ==
  \A r \in Row, status \in Verdicts, a \in Nat : Reported(r, status, a) \in Row
  BY LeaseAssumption DEF Row, Statuses, Terminal, Reported

\* The answer to a report changes only what the worker it answers is doing.
LEMMA AnswerTypes ==
  ASSUME NEW h, NEW reply \in {"none", "accepted", "discarded", "refused"},
         phase \in [Workers -> Phases], job \in [Workers -> Jobs \cup {NoJob}],
         answer \in [Workers -> {"none", "accepted", "discarded", "refused"}],
         \A w \in Workers : phase[w] \in {"running", "reporting"} => job[w] # NoJob,
         Answered(h, reply)
  PROVE  /\ phase' \in [Workers -> Phases]
         /\ job' \in [Workers -> Jobs \cup {NoJob}]
         /\ answer' \in [Workers -> {"none", "accepted", "discarded", "refused"}]
         /\ \A w \in Workers : phase'[w] \in {"running", "reporting"} => job'[w] # NoJob
<1>1. CASE UNCHANGED <<phase, job, answer>>
  BY <1>1
<1>2. CASE BackTo(h.worker, "idle") /\ answer' = [answer EXCEPT ![h.worker] = reply]
  BY <1>2 DEF BackTo, Phases
<1> QED
  BY <1>1, <1>2 DEF Answered

\* Every step keeps every variable of the queue within its type.
LEMMA TypeStep == TypeOK /\ [Next]_vars => TypeOK'
<1> SUFFICES ASSUME TypeOK, [Next]_vars PROVE TypeOK'
  OBVIOUS
<1> USE DEF TypeOK, Phases, InLeaseTx
<1>1. CASE UNCHANGED vars
  BY <1>1 DEF vars
<1>2. ASSUME NEW e \in Executions, Enqueue(e) PROVE TypeOK'
  <2>1. /\ [row[e] EXCEPT !.status = "QUEUED"] \in Row
        /\ [newest[e] EXCEPT !.status = "QUEUED"] \in Row
    BY <1>2, RowUpdates
  <2> QED
    BY <1>2, <2>1 DEF Enqueue
<1>3. ASSUME NEW e \in Executions, Expire(e) PROVE TypeOK'
  <2>1. [row[e] EXCEPT !.lease = "expired"] \in Row
    BY RowUpdates
  <2>2. row' \in [Executions -> Row] /\ row'[e] \in Row
    BY <1>3, <2>1 DEF Expire
  <2>3. newest' \in [Executions -> Row]
    BY <1>3, <2>2 DEF Expire
  <2> QED
    BY <1>3, <2>2, <2>3 DEF Expire
<1>4. ASSUME NEW w \in Workers, LeaseScan(w) PROVE TypeOK'
  <2>1. \A e \in Executions : row[e].attempts \in Nat
    BY DEF Row
  <2>2. stale' \in [Workers -> [Executions -> Nat]]
    BY <1>4, <2>1 DEF LeaseScan
  <2> QED
    BY <1>4, <2>2 DEF LeaseScan
<1>5. ASSUME NEW w \in Workers, NEW e \in Executions, FlushRow(w, e) PROVE TypeOK'
  <2>1. Abandoned(newest[e]) \in Row /\ Requeued(newest[e]) \in Row
    BY RowUpdates
  <2>2. stale[w] \in [Executions -> Nat]
    OBVIOUS
  <2>3. [stale[w] EXCEPT ![e] = 0] \in [Executions -> Nat]
    BY <2>2
  <2> QED
    BY <1>5, <2>1, <2>3 DEF FlushRow
<1>6. ASSUME NEW w \in Workers, Rollback(w),
             UNCHANGED <<reports, stored, completed, answer>>
      PROVE  TypeOK'
  BY <1>6 DEF Rollback, NothingStale
<1>7. ASSUME NEW w \in Workers, NEW e \in Executions, Claim(w, e) PROVE TypeOK'
  <2>1. newest[e] \in Row /\ newest[e].attempts \in Nat
    BY DEF Row
  <2>2. ClaimedBy(newest[e], w) \in Row
    BY <2>1, ClaimedRow
  <2>3. [exec |-> e, attempt |-> newest[e].attempts + 1] \in Jobs
    BY <2>1 DEF Jobs
  <2> QED
    BY <1>7, <2>2, <2>3 DEF Claim
<1>8. ASSUME NEW w \in Workers, FlushDone(w) \/ ClaimNothing(w) PROVE TypeOK'
  BY <1>8 DEF FlushDone, ClaimNothing
<1>9. ASSUME NEW w \in Workers, NEW delivered \in BOOLEAN, LeaseCommit(w, delivered)
      PROVE  TypeOK'
  BY <1>9 DEF LeaseCommit
<1>10. ASSUME NEW w \in Workers, Abandon(w) \/ Crash(w) PROVE TypeOK'
  BY <1>10 DEF Abandon, Crash, BackTo
<1>11. ASSUME NEW w \in Workers, NEW status \in Verdicts, ReportCheck(w, status)
       PROVE  TypeOK'
  <2>1. job[w] \in Jobs
    BY <1>11 DEF ReportCheck
  <2>2. [worker |-> w, exec |-> job[w].exec, attempt |-> job[w].attempt,
         status |-> status, uploaded |-> FALSE] \in Handlers
    BY <2>1 DEF Handlers, Jobs
  <2> QED
    BY <1>11, <2>2 DEF ReportCheck, BackTo
<1>12. ASSUME NEW h \in reports, ReportUpload(h) PROVE TypeOK'
  BY <1>12 DEF ReportUpload, Handlers
<1>13. ASSUME NEW h \in reports, ReportRecord(h) PROVE TypeOK'
  <2>1. h \in Handlers /\ row[h.exec] \in Row /\ h.exec \in Executions
    BY DEF Handlers
  <2>2. Reported(row[h.exec], h.status, h.attempt) \in Row
    BY <2>1, ReportedRow DEF Handlers
  <2>3. row' \in [Executions -> Row] /\ newest' \in [Executions -> Row]
    BY <1>13, <2>1, <2>2 DEF ReportRecord
  <2>4. completed' \in [Executions -> SUBSET Nat] /\ reports' \subseteq Handlers
    BY <1>13, <2>1 DEF ReportRecord, Handlers
  <2>5. Answered(h, "accepted") /\ UNCHANGED <<lock, stale, stored>>
    BY <1>13 DEF ReportRecord
  <2> QED
    BY <2>3, <2>4, <2>5, AnswerTypes
<1>14. ASSUME NEW h \in reports, ReportDiscard(h) PROVE TypeOK'
  <2>1. /\ Answered(h, "discarded") /\ reports' \subseteq Handlers
        /\ UNCHANGED <<row, newest, lock, stale, stored, completed>>
    BY <1>14 DEF ReportDiscard
  <2> QED
    BY <2>1, AnswerTypes
<1>15. ASSUME NEW h \in reports, HandlerCrash(h) PROVE TypeOK'
  BY <1>15 DEF HandlerCrash, BackTo
<1> QED
  BY <1>1, <1>2, <1>3, <1>4, <1>5, <1>6, <1>7, <1>8, <1>9, <1>10, <1>11, <1>12,
     <1>13, <1>14, <1>15
  DEF Next, LeaseNext, WorkerNext, ReportNext, FlushRefused, LeaseAbort

\* The queue's variables keep their types in every behaviour.
THEOREM TypeCorrect == Spec => []TypeOK
<1>1. Init => TypeOK
  BY LeaseAssumption DEF Init, TypeOK, Row, Statuses, Terminal, Phases, AbsentRow, NothingStale,
     Handlers
<1> QED
  BY <1>1, TypeStep, PTL DEF Spec

-----------------------------------------------------------------------------
(* A settled execution stays settled.                                      *)

\* Giving back every lock a worker holds leaves the others as they were.
LEMMA Unlocking ==
  ASSUME TypeOK, LockInv, NEW w \in Workers, phase'[w] \notin InLeaseTx,
         \A v \in Workers \ {w} : phase'[v] = phase[v],
         lock' = [e \in Executions |-> IF lock[e] = w THEN NoWorker ELSE lock[e]],
         \A e \in Executions : lock[e] = w => newest'[e] = row'[e],
         \A e \in Executions : lock[e] # w => newest'[e] = newest[e] /\ row'[e] = row[e]
  PROVE  LockInv'
  BY LeaseAssumption DEF TypeOK, LockInv

\* What no request but a lease request touches is safe from every other step.
LEMMA LockStep == TypeOK /\ LockInv /\ [Next]_vars => LockInv'
<1> SUFFICES ASSUME TypeOK, LockInv, [Next]_vars PROVE LockInv'
  OBVIOUS
<1>1. CASE UNCHANGED vars
  BY <1>1 DEF vars, LockInv
<1>2. ASSUME NEW e \in Executions, Enqueue(e) PROVE LockInv'
  <2>1. ASSUME NEW f \in Executions, lock[f] = NoWorker PROVE newest'[f] = row'[f]
    BY <1>2, <2>1 DEF Enqueue, LockInv, TypeOK
  <2>2. ASSUME NEW f \in Executions PROVE row[f].status \notin Terminal => row'[f].status \notin Terminal
    BY <1>2 DEF Enqueue, TypeOK, Row, Terminal
  <2> QED
    BY <1>2, <2>1, <2>2 DEF Enqueue, LockInv
<1>3. ASSUME NEW e \in Executions, Expire(e) PROVE LockInv'
  <2>1. ASSUME NEW f \in Executions, lock[f] = NoWorker PROVE newest'[f] = row'[f]
    BY <1>3, <2>1 DEF Expire, LockInv, TypeOK
  <2>2. ASSUME NEW f \in Executions PROVE row'[f].status = row[f].status
    BY <1>3 DEF Expire, TypeOK, Row
  <2> QED
    BY <1>3, <2>1, <2>2 DEF Expire, LockInv
<1>4. ASSUME NEW w \in Workers, LeaseScan(w) PROVE LockInv'
  BY <1>4 DEF LeaseScan, LockInv, TypeOK, InLeaseTx
<1>5. ASSUME NEW w \in Workers, NEW e \in Executions, FlushRow(w, e) PROVE LockInv'
  <2>1. row[e].status \notin Terminal /\ phase[w] \in InLeaseTx
    BY <1>5 DEF FlushRow, LockInv, InLeaseTx
  <2> QED
    BY <1>5, <2>1, LeaseAssumption DEF FlushRow, LockInv, TypeOK
<1>6. ASSUME NEW w \in Workers, Rollback(w) PROVE LockInv'
  <2>1. phase'[w] \notin InLeaseTx /\ \A v \in Workers \ {w} : phase'[v] = phase[v]
    BY <1>6 DEF Rollback, TypeOK, InLeaseTx
  <2> QED
    BY <1>6, <2>1, Unlocking DEF Rollback
<1>7. ASSUME NEW w \in Workers, NEW e \in Executions, Claim(w, e) PROVE LockInv'
  <2>1. lock[e] = NoWorker \/ lock[e] = w
    BY <1>7 DEF Claim, Claimable
  <2>2. row[e].status \notin Terminal
    BY <1>7, <2>1, LeaseAssumption DEF Claim, Claimable, LockInv, Terminal
  <2>3. /\ phase'[w] \in InLeaseTx
        /\ \A v \in Workers : phase[v] \in InLeaseTx => phase'[v] \in InLeaseTx
    BY <1>7 DEF Claim, TypeOK, InLeaseTx
  <2> QED
    BY <1>7, <2>2, <2>3, LeaseAssumption DEF Claim, LockInv, TypeOK
<1>8. ASSUME NEW w \in Workers, FlushDone(w) \/ ClaimNothing(w) PROVE LockInv'
  BY <1>8, LeaseAssumption, SMTT(30) DEF FlushDone, ClaimNothing, LockInv, TypeOK, InLeaseTx
<1>9. ASSUME NEW w \in Workers, NEW delivered \in BOOLEAN, LeaseCommit(w, delivered)
      PROVE  LockInv'
  <2>1. phase'[w] \notin InLeaseTx /\ \A v \in Workers \ {w} : phase'[v] = phase[v]
    BY <1>9 DEF LeaseCommit, TypeOK, InLeaseTx
  <2> QED
    BY <1>9, <2>1, Unlocking DEF LeaseCommit
<1>10. ASSUME NEW w \in Workers, Abandon(w) \/ Crash(w) PROVE LockInv'
  BY <1>10, LeaseAssumption, SMTT(30) DEF Abandon, Crash, BackTo, LockInv, TypeOK, InLeaseTx
<1>11. ASSUME NEW w \in Workers, NEW status \in Verdicts, ReportCheck(w, status)
       PROVE  LockInv'
  BY <1>11, LeaseAssumption DEF ReportCheck, BackTo, LockInv, TypeOK, InLeaseTx
<1>12. ASSUME NEW h \in reports, ReportUpload(h) PROVE LockInv'
  BY <1>12 DEF ReportUpload, LockInv
<1>13. ASSUME NEW h \in reports, ReportRecord(h) PROVE LockInv'
  <2>1. h.exec \in Executions /\ h.worker \in Workers
    BY DEF TypeOK, Handlers
  <2>2. \A v \in Workers : phase[v] \in InLeaseTx => phase'[v] = phase[v]
    BY <1>13, <2>1 DEF ReportRecord, Answered, BackTo, TypeOK, InLeaseTx
  <2>3. \A e \in Executions \ {h.exec} : row'[e] = row[e] /\ newest'[e] = newest[e]
    BY <1>13 DEF ReportRecord, TypeOK
  <2>4. newest'[h.exec] = row'[h.exec] /\ lock[h.exec] = NoWorker
    BY <1>13, <2>1 DEF ReportRecord, TypeOK
  <2> QED
    BY <1>13, <2>2, <2>3, <2>4, LeaseAssumption DEF ReportRecord, LockInv, TypeOK
<1>14. ASSUME NEW h \in reports, ReportDiscard(h) \/ HandlerCrash(h) PROVE LockInv'
  <2>1. h.exec \in Executions /\ h.worker \in Workers
    BY DEF TypeOK, Handlers
  <2>2. \A v \in Workers : phase[v] \in InLeaseTx => phase'[v] = phase[v]
    BY <1>14, <2>1 DEF ReportDiscard, HandlerCrash, Answered, BackTo, TypeOK, InLeaseTx
  <2> QED
    BY <1>14, <2>2, LeaseAssumption DEF ReportDiscard, HandlerCrash, LockInv, TypeOK
<1> QED
  BY <1>1, <1>2, <1>3, <1>4, <1>5, <1>6, <1>7, <1>8, <1>9, <1>10, <1>11, <1>12,
     <1>13, <1>14
  DEF Next, LeaseNext, WorkerNext, ReportNext, FlushRefused, LeaseAbort

\* One step never changes the row of a settled execution.
LEMMA SettledStep ==
  ASSUME TypeOK, LockInv, [Next]_vars, NEW e \in Executions, row[e].status \in Terminal
  PROVE  row'[e] = row[e]
<1>1. ASSUME NEW f \in Executions, Enqueue(f) \/ Expire(f) PROVE row'[e] = row[e]
  BY <1>1 DEF Enqueue, Expire, TypeOK, Terminal
<1>2. ASSUME NEW w \in Workers, NEW delivered \in BOOLEAN, LeaseCommit(w, delivered)
      PROVE  row'[e] = row[e]
  BY <1>2, LeaseAssumption DEF LeaseCommit, LockInv
<1>3. ASSUME NEW h \in reports, ReportRecord(h) PROVE row'[e] = row[e]
  BY <1>3 DEF ReportRecord, StillOurs, LockInv, TypeOK, Handlers, Terminal
<1>4. ASSUME NEW w \in Workers, LeaseNext(w) \/ WorkerNext(w) PROVE row'[e] = row[e]
  BY <1>2, <1>4
  DEF LeaseNext, WorkerNext, LeaseScan, FlushRow, FlushRefused, FlushDone, Claim,
      ClaimNothing, LeaseAbort, Rollback, Abandon, Crash, ReportCheck
<1>5. ASSUME NEW h \in reports, ReportNext(h) PROVE row'[e] = row[e]
  BY <1>3, <1>5 DEF ReportNext, ReportUpload, ReportDiscard, HandlerCrash
<1> QED
  BY <1>1, <1>4, <1>5 DEF Next, vars

\* SettledIsFinal for any number of workers, however many API keys they share
\* and whatever crashes: the trigger and the guarded UPDATE suffice.
THEOREM SettledForGood == Spec => SettledIsFinal
<1>1. Init => LockInv
  BY DEF Init, LockInv
<1>2. TypeOK /\ LockInv /\ [Next]_vars =>
        [\A e \in Executions : row[e].status \in Terminal => row'[e] = row[e]]_vars
  BY SettledStep
<1> QED
  BY <1>1, <1>2, LockStep, TypeCorrect, PTL DEF Spec, SettledIsFinal

-----------------------------------------------------------------------------
(* Workers that share an API key.                                          *)

\* While a worker's lease transaction is open no other worker has one, so
\* nobody else holds rows read but not yet written back.
LEMMA NobodyElse ==
  ASSUME TypeOK, LockInv, OneAtATime, StaleInv, NEW w \in Workers, phase[w] \in InLeaseTx,
         NEW v \in Workers \ {w}, NEW e \in Executions
  PROVE  stale[v][e] = 0 /\ phase[v] \notin InLeaseTx /\ lock[e] # v
  BY LeaseAssumption DEF TypeOK, LockInv, OneAtATime, StaleInv, InLeaseTx

\* Steps that take no part in a lease transaction and touch no row.
LEMMA ElsewhereStep ==
  ASSUME ExclusiveInv, TypeOK', LockInv', UNCHANGED <<row, newest, lock, stale>>,
         \A v \in Workers : phase'[v] = phase[v] \/
            (phase[v] \notin InLeaseTx /\ phase'[v] \notin InLeaseTx)
  PROVE  ExclusiveInv'
<1>1. OneAtATime' /\ LockedInv' /\ AttemptsInv'
  BY DEF ExclusiveInv, OneAtATime, LockedInv, AttemptsInv
<1>2. StaleInv'
  BY DEF ExclusiveInv, StaleInv, InLeaseTx
<1> QED
  BY <1>1, <1>2 DEF ExclusiveInv

\* Steps that end a lease transaction: w's locks are returned and nothing w
\* read stays in memory.
LEMMA EndOfTx ==
  ASSUME ExclusiveInv, TypeOK', LockInv', NEW w \in Workers, phase[w] \in InLeaseTx,
         phase'[w] \notin InLeaseTx, \A v \in Workers \ {w} : phase'[v] = phase[v],
         stale' = [stale EXCEPT ![w] = NothingStale],
         lock' = [e \in Executions |-> IF lock[e] = w THEN NoWorker ELSE lock[e]],
         \A e \in Executions : row'[e] \in {row[e], newest[e]} /\ newest'[e] \in {row[e], newest[e]}
  PROVE  ExclusiveInv'
<1> USE DEF ExclusiveInv
<1>1. OneAtATime'
  BY DEF OneAtATime, InLeaseTx
<1>2. \A v \in Workers, e \in Executions : stale'[v][e] = 0 /\ lock'[e] = NoWorker
  BY NobodyElse, LeaseAssumption DEF TypeOK, NothingStale
<1>3. StaleInv' /\ LockedInv'
  BY <1>2 DEF StaleInv, LockedInv
<1>4. AttemptsInv'
  BY DEF AttemptsInv
<1> QED
  BY <1>1, <1>3, <1>4

\* With one API key, every step preserves the exclusivity invariant.
LEMMA ExclusiveStep == OneKey /\ ExclusiveInv /\ [Next]_vars => ExclusiveInv'
<1> SUFFICES ASSUME OneKey, ExclusiveInv, [Next]_vars PROVE ExclusiveInv'
  OBVIOUS
<1>0. TypeOK' /\ LockInv' /\ TypeOK /\ LockInv
  BY TypeStep, LockStep DEF ExclusiveInv
<1>1. CASE UNCHANGED vars
  BY <1>0, <1>1, ElsewhereStep DEF vars
<1>2. ASSUME NEW e \in Executions, Enqueue(e) PROVE ExclusiveInv'
  <2>1. lock[e] = NoWorker /\ newest[e] = row[e]
    BY <1>0, <1>2 DEF Enqueue, ExclusiveInv, LockInv, LockedInv
  <2>2. /\ row'[e] = [row[e] EXCEPT !.status = "QUEUED"] /\ newest'[e] = row'[e]
        /\ \A f \in Executions \ {e} : row'[f] = row[f] /\ newest'[f] = newest[f]
    BY <1>0, <1>2, <2>1 DEF Enqueue, TypeOK
  <2>3. row[e] \in Row /\ row[e].status = "absent"
    BY <1>0, <1>2 DEF Enqueue, TypeOK
  <2>4. /\ row'[e].status = "QUEUED" /\ row'[e].lease = row[e].lease
        /\ row'[e].attempts = row[e].attempts
    BY <2>2, <2>3 DEF Row
  <2>5. newest'[e] = row'[e]
    BY <2>2
  <2>6. \A f \in Executions : f # e => row'[f] = row[f] /\ newest'[f] = newest[f]
    BY <2>2
  <2>7. LockedInv'
    BY <1>2, <2>1, <2>3, <2>4, <2>5, <2>6 DEF Enqueue, ExclusiveInv, LockedInv, LeaseColumn
  <2>8. StaleInv'
    <3> SUFFICES ASSUME NEW w \in Workers, NEW f \in Executions, stale[w][f] # 0
                 PROVE  /\ phase[w] = "flushing" /\ lock[f] = NoWorker
                        /\ \/ row'[f].status \in Terminal
                           \/ /\ row'[f].status = "RUNNING" /\ row'[f].lease = "expired"
                              /\ stale[w][f] = row'[f].attempts
      BY <1>2 DEF Enqueue, StaleInv
    <3>1. CASE f = e
      BY <2>3, <2>4, <3>1 DEF ExclusiveInv, StaleInv, Terminal
    <3>2. CASE f # e
      BY <2>6, <3>2 DEF ExclusiveInv, StaleInv
    <3> QED
      BY <3>1, <3>2
  <2>9. AttemptsInv'
    <3>1. AttemptsColumn(row'[e])
      BY <2>3, <2>4 DEF ExclusiveInv, AttemptsInv, AttemptsColumn
    <3> QED
      BY <2>5, <2>6, <3>1 DEF ExclusiveInv, AttemptsInv, AttemptsColumn
  <2> QED
    BY <1>0, <1>2, <2>7, <2>8, <2>9 DEF Enqueue, ExclusiveInv, OneAtATime
<1>3. ASSUME NEW e \in Executions, Expire(e) PROVE ExclusiveInv'
  <2>1. lock[e] = NoWorker /\ newest[e] = row[e]
    BY <1>0, <1>3 DEF Expire, ExclusiveInv, LockInv, LockedInv
  <2>2. /\ row'[e] = [row[e] EXCEPT !.lease = "expired"] /\ newest'[e] = row'[e]
        /\ \A f \in Executions \ {e} : row'[f] = row[f] /\ newest'[f] = newest[f]
    BY <1>0, <1>3, <2>1 DEF Expire, TypeOK
  <2>3. row[e] \in Row /\ row[e].status = "RUNNING" /\ row[e].lease = "live"
    BY <1>0, <1>3 DEF Expire, TypeOK
  <2>4. /\ row'[e].status = "RUNNING" /\ row'[e].lease = "expired"
        /\ row'[e].attempts = row[e].attempts
    BY <2>2, <2>3 DEF Row
  <2>5. LockedInv'
    BY <1>3, <2>1, <2>2, <2>4 DEF Expire, ExclusiveInv, LockedInv, LeaseColumn
  <2>6. StaleInv'
    <3> SUFFICES ASSUME NEW w \in Workers, NEW f \in Executions, stale[w][f] # 0
                 PROVE  /\ phase[w] = "flushing" /\ lock[f] = NoWorker
                        /\ \/ row'[f].status \in Terminal
                           \/ /\ row'[f].status = "RUNNING" /\ row'[f].lease = "expired"
                              /\ stale[w][f] = row'[f].attempts
      BY <1>3 DEF Expire, StaleInv
    <3> QED
      BY <2>2, <2>3, <2>4 DEF ExclusiveInv, StaleInv, Terminal
  <2>7. AttemptsInv'
    BY <2>2, <2>4 DEF ExclusiveInv, AttemptsInv, AttemptsColumn
  <2> QED
    BY <1>0, <1>3, <2>5, <2>6, <2>7 DEF Expire, ExclusiveInv, OneAtATime
<1>4. ASSUME NEW w \in Workers, LeaseScan(w) PROVE ExclusiveInv'
  <2>1. \A v \in Workers : phase[v] \notin InLeaseTx
    BY <1>4 DEF LeaseScan, KeyFree, OneKey
  <2>2. \A e \in Executions : lock[e] = NoWorker
    BY <1>0, <2>1, LeaseAssumption DEF LockInv, TypeOK
  <2>3. /\ phase'[w] = "flushing" /\ \A v \in Workers \ {w} : phase'[v] = phase[v]
        /\ \A v \in Workers \ {w} : stale'[v] = stale[v]
        /\ \A e \in Executions : stale'[w][e] # 0 =>
             /\ row[e].status = "RUNNING" /\ row[e].lease = "expired"
             /\ stale'[w][e] = row[e].attempts
    BY <1>0, <1>4 DEF LeaseScan, TypeOK
  <2>4. OneAtATime'
    BY <2>1, <2>3 DEF OneAtATime
  <2>5. StaleInv'
    <3> SUFFICES ASSUME NEW v \in Workers, NEW e \in Executions, stale'[v][e] # 0
                 PROVE  /\ phase'[v] = "flushing" /\ lock'[e] = NoWorker
                        /\ \/ row'[e].status \in Terminal
                           \/ /\ row'[e].status = "RUNNING" /\ row'[e].lease = "expired"
                              /\ stale'[v][e] = row'[e].attempts
      BY DEF StaleInv
    <3>1. v = w
      BY <2>1, <2>3 DEF ExclusiveInv, StaleInv, InLeaseTx
    <3> QED
      BY <1>4, <2>2, <2>3, <3>1 DEF LeaseScan
  <2> QED
    BY <1>0, <1>4, <2>4, <2>5 DEF LeaseScan, ExclusiveInv, LockedInv, AttemptsInv
<1>5. ASSUME NEW w \in Workers, NEW e \in Executions, FlushRow(w, e) PROVE ExclusiveInv'
  <2>1. newest[e] = row[e] /\ row[e] \in Row /\ row[e].status \notin Terminal
    BY <1>0, <1>5 DEF FlushRow, LockInv, TypeOK
  <2>2. /\ row[e].status = "RUNNING" /\ row[e].lease = "expired"
        /\ stale[w][e] = row[e].attempts /\ stale[w][e] # 0
    BY <1>5, <2>1 DEF FlushRow, NextStale, ExclusiveInv, StaleInv
  <2>3. row[e].attempts \in Nat /\ MaxAttempts \in Nat
    BY <2>1, LeaseAssumption DEF Row
  <2>4. /\ \A f \in Executions \ {e} : newest'[f] = newest[f] /\ lock'[f] = lock[f]
        /\ row' = row /\ phase' = phase
        /\ newest'[e] = IF row[e].attempts >= MaxAttempts THEN Abandoned(row[e]) ELSE Requeued(row[e])
        /\ stale'[w][e] = 0
        /\ \A v \in Workers, f \in Executions : stale'[v][f] # 0 => stale'[v][f] = stale[v][f]
    BY <1>0, <1>5, <2>1, <2>2 DEF FlushRow, TypeOK
  <2>5. phase[w] \in InLeaseTx
    BY <1>5 DEF FlushRow, InLeaseTx
  <2>6. OneAtATime'
    BY <2>4 DEF ExclusiveInv, OneAtATime
  <2>7. StaleInv'
    <3> SUFFICES ASSUME NEW v \in Workers, NEW f \in Executions, stale'[v][f] # 0
                 PROVE  /\ phase'[v] = "flushing" /\ lock'[f] = NoWorker
                        /\ \/ row'[f].status \in Terminal
                           \/ /\ row'[f].status = "RUNNING" /\ row'[f].lease = "expired"
                              /\ stale'[v][f] = row'[f].attempts
      BY DEF StaleInv
    <3>1. v = w /\ f # e
      BY <1>0, <2>4, <2>5, NobodyElse DEF ExclusiveInv
    <3> QED
      BY <2>4, <3>1 DEF ExclusiveInv, StaleInv
  <2>8. \A f \in Executions : f # e => newest'[f] = newest[f] /\ lock'[f] = lock[f]
    BY <2>4
  <2>9. ASSUME LeaseColumn(newest'[e]), AttemptsColumn(newest'[e])
         PROVE  LockedInv' /\ AttemptsInv'
    <3>1. LockedInv'
      BY <2>2, <2>4, <2>8, <2>9 DEF ExclusiveInv, LockedInv
    <3> QED
      BY <2>4, <2>8, <2>9, <3>1 DEF ExclusiveInv, AttemptsInv
  <2>10. CASE row[e].attempts >= MaxAttempts
    <3>1. newest'[e].status = "FAILED" /\ newest'[e].lease = "expired"
          /\ newest'[e].attempts = row[e].attempts
      BY <2>1, <2>2, <2>4, <2>10 DEF Abandoned, Row
    <3> QED
      BY <1>0, <2>6, <2>7, <2>9, <3>1 DEF ExclusiveInv, LeaseColumn, AttemptsColumn, AttemptsInv
  <2>11. CASE row[e].attempts < MaxAttempts
    <3>1. newest'[e].status = "QUEUED" /\ newest'[e].lease = "none"
          /\ newest'[e].attempts = row[e].attempts
      BY <2>1, <2>2, <2>4, <2>11, LeaseAssumption DEF Requeued, Row
    <3> QED
      BY <1>0, <2>3, <2>6, <2>7, <2>9, <2>11, <3>1 DEF ExclusiveInv, LeaseColumn, AttemptsColumn
  <2> QED
    BY <2>3, <2>10, <2>11
<1>6. ASSUME NEW w \in Workers, Rollback(w), phase[w] \in InLeaseTx PROVE ExclusiveInv'
  BY <1>0, <1>6, EndOfTx DEF Rollback, TypeOK, InLeaseTx
<1>7. ASSUME NEW w \in Workers, NEW e \in Executions, Claim(w, e) PROVE ExclusiveInv'
  <2>1. newest[e] \in Row /\ newest[e].status = "QUEUED" /\ newest[e].attempts < MaxAttempts
    BY <1>0, <1>7 DEF Claim, Claimable, TypeOK, ExclusiveInv, AttemptsInv, AttemptsColumn
  <2>2. /\ newest'[e].status = "RUNNING" /\ newest'[e].lease = "live"
        /\ newest'[e].attempts = newest[e].attempts + 1
    BY <1>0, <1>7, <2>1 DEF Claim, ClaimedBy, TypeOK, Row
  <2>3. newest'[e].attempts <= MaxAttempts
    BY <2>1, <2>2, LeaseAssumption DEF Row
  <2>4. row[e].status = "QUEUED" \/ (row[e].status = "RUNNING" /\ row[e].lease = "expired")
    BY <1>0, <1>7, <2>1, LeaseAssumption DEF Claim, Claimable, ExclusiveInv, LockInv, LockedInv
  <2>5. /\ \A f \in Executions \ {e} : newest'[f] = newest[f] /\ lock'[f] = lock[f]
        /\ row' = row /\ stale' = stale /\ phase'[w] = "committing"
        /\ \A v \in Workers \ {w} : phase'[v] = phase[v]
    BY <1>0, <1>7 DEF Claim, TypeOK
  <2>6. OneAtATime'
    BY <1>7, <2>5 DEF Claim, ExclusiveInv, OneAtATime, InLeaseTx
  <2>7. StaleInv'
    <3>1. phase[w] \in InLeaseTx /\ phase[w] # "flushing"
      BY <1>7 DEF Claim, InLeaseTx
    <3>2. \A v \in Workers, f \in Executions : stale[v][f] = 0
      BY <3>1, NobodyElse DEF ExclusiveInv, StaleInv
    <3> QED
      BY <2>5, <3>2 DEF StaleInv
  <2>8. LockedInv' /\ AttemptsInv'
    BY <2>2, <2>3, <2>4, <2>5
    DEF ExclusiveInv, LockedInv, AttemptsInv, LeaseColumn, AttemptsColumn
  <2> QED
    BY <1>0, <2>6, <2>7, <2>8 DEF ExclusiveInv
<1>8. ASSUME NEW w \in Workers, FlushDone(w) \/ ClaimNothing(w) PROVE ExclusiveInv'
  <2>1. /\ UNCHANGED <<row, newest, lock, stale>>
        /\ phase[w] \in InLeaseTx /\ phase'[w] \in InLeaseTx
        /\ \A v \in Workers \ {w} : phase'[v] = phase[v]
        /\ phase[w] = "flushing" => stale[w] = NothingStale
    BY <1>0, <1>8 DEF FlushDone, ClaimNothing, TypeOK, InLeaseTx
  <2>2. OneAtATime'
    BY <2>1 DEF ExclusiveInv, OneAtATime
  <2>3. \A e \in Executions : stale[w][e] = 0
    BY <2>1 DEF ExclusiveInv, StaleInv, NothingStale
  <2>4. StaleInv'
    BY <2>1, <2>3, NobodyElse DEF ExclusiveInv, StaleInv
  <2> QED
    BY <1>0, <2>1, <2>2, <2>4 DEF ExclusiveInv, LockedInv, AttemptsInv
<1>9. ASSUME NEW w \in Workers, NEW delivered \in BOOLEAN, LeaseCommit(w, delivered)
      PROVE  ExclusiveInv'
  <2>1. phase[w] \in InLeaseTx /\ phase[w] # "flushing"
    BY <1>9 DEF LeaseCommit, InLeaseTx
  <2>2. \A e \in Executions : stale[w][e] = 0
    BY <2>1 DEF ExclusiveInv, StaleInv
  <2>3. stale' = [stale EXCEPT ![w] = NothingStale]
    BY <1>0, <1>9, <2>2 DEF LeaseCommit, TypeOK, NothingStale
  <2>4. phase'[w] \notin InLeaseTx /\ \A v \in Workers \ {w} : phase'[v] = phase[v]
    BY <1>0, <1>9 DEF LeaseCommit, TypeOK, InLeaseTx
  <2> QED
    BY <1>0, <1>9, <2>1, <2>3, <2>4, EndOfTx DEF LeaseCommit
<1>10. ASSUME NEW w \in Workers, WorkerNext(w) PROVE ExclusiveInv'
  <2>1. UNCHANGED <<row, newest, lock, stale>>
    BY <1>10 DEF WorkerNext, Abandon, Crash, ReportCheck
  <2>2. \A v \in Workers : phase'[v] = phase[v] \/
            (phase[v] \notin InLeaseTx /\ phase'[v] \notin InLeaseTx)
    BY <1>0, <1>10 DEF WorkerNext, Abandon, Crash, ReportCheck, BackTo, TypeOK, InLeaseTx
  <2> QED
    BY <1>0, <2>1, <2>2, ElsewhereStep
<1>11. ASSUME NEW h \in reports, ReportUpload(h) \/ ReportDiscard(h) \/ HandlerCrash(h)
       PROVE  ExclusiveInv'
  <2>1. UNCHANGED <<row, newest, lock, stale>>
    BY <1>11 DEF ReportUpload, ReportDiscard, HandlerCrash
  <2>2. \A v \in Workers : phase'[v] = phase[v] \/
            (phase[v] \notin InLeaseTx /\ phase'[v] \notin InLeaseTx)
    BY <1>0, <1>11
    DEF ReportUpload, ReportDiscard, HandlerCrash, Answered, BackTo, TypeOK, InLeaseTx
  <2> QED
    BY <1>0, <2>1, <2>2, ElsewhereStep
<1>12. ASSUME NEW h \in reports, ReportRecord(h) PROVE ExclusiveInv'
  <2>1. h.exec \in Executions /\ h.status \in Terminal /\ row[h.exec] \in Row
    BY <1>0, LeaseAssumption DEF TypeOK, Handlers, Terminal
  <2>2. /\ row'[h.exec] = Reported(row[h.exec], h.status, h.attempt)
        /\ newest'[h.exec] = row'[h.exec] /\ lock' = lock /\ lock[h.exec] = NoWorker
        /\ stale' = stale
        /\ \A e \in Executions \ {h.exec} : row'[e] = row[e] /\ newest'[e] = newest[e]
    BY <1>0, <1>12, <2>1 DEF ReportRecord, TypeOK
  <2>3. /\ row'[h.exec].status \in Terminal /\ row'[h.exec].lease = "none"
        /\ row'[h.exec].attempts = row[h.exec].attempts
    BY <2>1, <2>2 DEF Reported, Row
  <2>4. \A v \in Workers : phase'[v] = phase[v] \/
            (phase[v] \notin InLeaseTx /\ phase'[v] \notin InLeaseTx)
    BY <1>0, <1>12 DEF ReportRecord, Answered, BackTo, TypeOK, InLeaseTx
  <2>5. OneAtATime'
    BY <2>4 DEF ExclusiveInv, OneAtATime
  <2>6. StaleInv'
    <3> SUFFICES ASSUME NEW v \in Workers, NEW e \in Executions, stale[v][e] # 0
                 PROVE  /\ phase'[v] = "flushing" /\ lock[e] = NoWorker
                        /\ \/ row'[e].status \in Terminal
                           \/ /\ row'[e].status = "RUNNING" /\ row'[e].lease = "expired"
                              /\ stale[v][e] = row'[e].attempts
      BY <2>2 DEF StaleInv
    <3> QED
      BY <2>2, <2>3, <2>4 DEF ExclusiveInv, StaleInv, InLeaseTx
  <2>7. LockedInv'
    BY <2>2, <2>3 DEF ExclusiveInv, LockedInv, LeaseColumn, Terminal
  <2>8. AttemptsInv'
    BY <2>2, <2>3 DEF ExclusiveInv, AttemptsInv, AttemptsColumn, Terminal
  <2> QED
    BY <1>0, <2>5, <2>6, <2>7, <2>8 DEF ExclusiveInv
<1>13. ASSUME NEW w \in Workers, NEW e \in Executions, FlushRefused(w, e) PROVE ExclusiveInv'
  BY <1>6, <1>13 DEF FlushRefused, InLeaseTx
<1>14. ASSUME NEW w \in Workers, LeaseNext(w) PROVE ExclusiveInv'
  BY <1>4, <1>5, <1>6, <1>7, <1>8, <1>9, <1>13, <1>14 DEF LeaseNext, LeaseAbort
<1> QED
  BY <1>1, <1>2, <1>3, <1>10, <1>11, <1>12, <1>14 DEF Next, ReportNext

\* The exclusivity invariant holds in every behaviour of one API key.
THEOREM ExclusiveCorrect == OneKey => (Spec => []ExclusiveInv)
<1>1. Init => ExclusiveInv
  <2> SUFFICES ASSUME Init PROVE ExclusiveInv
    OBVIOUS
  <2>1. TypeOK
    BY LeaseAssumption
    DEF Init, TypeOK, Row, Statuses, Terminal, Phases, AbsentRow, NothingStale, Handlers
  <2>2. LockInv /\ OneAtATime /\ StaleInv
    BY DEF Init, LockInv, OneAtATime, StaleInv, NothingStale, InLeaseTx
  <2>3. LockedInv /\ AttemptsInv
    BY LeaseAssumption
    DEF Init, LockedInv, AttemptsInv, LeaseColumn, AttemptsColumn, AbsentRow
  <2> QED
    BY <2>1, <2>2, <2>3 DEF ExclusiveInv
<1> SUFFICES ASSUME OneKey PROVE Spec => []ExclusiveInv
  OBVIOUS
<1>2. ExclusiveInv /\ [Next]_vars => ExclusiveInv'
  BY ExclusiveStep
<1> QED
  BY <1>1, <1>2, PTL DEF Spec

\* AttemptsBounded: with one API key no execution is claimed more than
\* MaxAttempts times, whatever crashes and whatever responses are lost.
THEOREM BoundedRetries == OneKey => (Spec => []AttemptsBounded)
<1>1. ExclusiveInv => AttemptsBounded
  BY DEF ExclusiveInv, AttemptsInv, AttemptsColumn, AttemptsBounded
<1> SUFFICES ASSUME OneKey PROVE Spec => []AttemptsBounded
  OBVIOUS
<1>2. Spec => []ExclusiveInv
  BY ExclusiveCorrect
<1> QED
  BY <1>1, <1>2, PTL

\* One step ends a running lease only by the clock or by its holder's result.
LEMMA LiveLeaseStep ==
  ASSUME ExclusiveInv, [Next]_vars, NEW e \in Executions,
         row[e].lease = "live", row'[e].lease # "live"
  PROVE  \/ row'[e] = [row[e] EXCEPT !.lease = "expired"]
         \/ row'[e].result # 0 /\ row'[e].leased_by = row[e].leased_by
<1>0. TypeOK /\ LockInv /\ row[e] \in Row /\ lock[e] = NoWorker
  <2>1. TypeOK /\ LockInv /\ row[e] \in Row
    BY DEF ExclusiveInv, TypeOK
  <2>2. lock[e] = NoWorker
    BY DEF ExclusiveInv, LockedInv, LeaseColumn
  <2> QED
    BY <2>1, <2>2
<1>1. ASSUME NEW f \in Executions, Enqueue(f) PROVE FALSE
  <2>1. row'[e].lease = row[e].lease
    BY <1>0, <1>1 DEF Enqueue, TypeOK, Row
  <2> QED
    BY <2>1
<1>2. ASSUME NEW f \in Executions, Expire(f)
      PROVE  row'[e] = [row[e] EXCEPT !.lease = "expired"]
  BY <1>0, <1>2 DEF Expire, TypeOK
<1>3. ASSUME NEW w \in Workers, NEW delivered \in BOOLEAN, LeaseCommit(w, delivered)
      PROVE  FALSE
  BY <1>0, <1>3, LeaseAssumption DEF LeaseCommit
<1>4. ASSUME NEW h \in reports, ReportRecord(h)
      PROVE  row'[e].result # 0 /\ row'[e].leased_by = row[e].leased_by
  <2>1. h.exec = e /\ h.attempt \in Nat \ {0}
    BY <1>0, <1>4 DEF ReportRecord, TypeOK, Handlers
  <2>2. row'[e] = Reported(row[e], h.status, h.attempt)
    BY <1>0, <1>4, <2>1 DEF ReportRecord, TypeOK
  <2>3. row'[e].result = h.attempt /\ row'[e].leased_by = row[e].leased_by
    BY <1>0, <2>2 DEF Reported, Row
  <2> QED
    BY <2>1, <2>3
<1>5. ASSUME NEW w \in Workers, LeaseNext(w) \/ WorkerNext(w) PROVE FALSE
  BY <1>3, <1>5
  DEF LeaseNext, WorkerNext, LeaseScan, FlushRow, FlushRefused, FlushDone, Claim,
      ClaimNothing, LeaseAbort, Rollback, Abandon, Crash, ReportCheck
<1>6. ASSUME NEW h \in reports, ReportNext(h)
      PROVE  row'[e].result # 0 /\ row'[e].leased_by = row[e].leased_by
  BY <1>4, <1>6 DEF ReportNext, ReportUpload, ReportDiscard, HandlerCrash
<1> QED
  BY <1>1, <1>2, <1>5, <1>6 DEF Next, vars

\* LiveLeaseRespected: with one API key no request takes an execution away
\* from a worker whose lease is running.
THEOREM LiveLeases == OneKey => (Spec => LiveLeaseRespected)
<1> SUFFICES ASSUME OneKey PROVE Spec => LiveLeaseRespected
  OBVIOUS
<1>1. Spec => []ExclusiveInv
  BY ExclusiveCorrect
<1>2. ExclusiveInv /\ [Next]_vars =>
        [\A e \in Executions :
           row[e].lease = "live" /\ row'[e].lease # "live" =>
             \/ row'[e] = [row[e] EXCEPT !.lease = "expired"]
             \/ row'[e].result # 0 /\ row'[e].leased_by = row[e].leased_by]_vars
  BY LiveLeaseStep
<1> QED
  BY <1>1, <1>2, PTL DEF Spec, LiveLeaseRespected

-----------------------------------------------------------------------------
(* What becomes of the rows.                                               *)

\* A row that has not been claimed or settled in going from q to r.
Keeps(q, r) ==
  /\ r.result = q.result
  /\ r.status = "RUNNING" => /\ q.status = "RUNNING" /\ q.leased_by = r.leased_by
                             /\ q.attempts = r.attempts

RowsKept ==
  \A e \in Executions : \A r \in {row'[e], newest'[e]} : \E q \in {row[e], newest[e]} : Keeps(q, r)

\* What the queue writes over a row keeps it in that sense.
LEMMA KeepingRow ==
  ASSUME NEW q \in Row
  PROVE  /\ Keeps(q, q)
         /\ Keeps(q, [q EXCEPT !.status = "QUEUED"])
         /\ Keeps(q, [q EXCEPT !.lease = "expired"])
         /\ Keeps(q, Requeued(q)) /\ Keeps(q, Abandoned(q))
BY DEF Keeps, Row, Requeued, Abandoned

\* Rows that only change places are kept.
LEMMA Moved ==
  ASSUME TypeOK, \A e \in Executions : /\ row'[e] \in {row[e], newest[e]}
                                       /\ newest'[e] \in {row[e], newest[e]}
  PROVE  RowsKept
BY KeepingRow DEF TypeOK, RowsKept

\* A claim writes one row, and not yet the committed table.
LEMMA ClaimEffect ==
  ASSUME TypeOK, NEW w \in Workers, NEW e \in Executions, Claim(w, e)
  PROVE  /\ UNCHANGED row
         /\ \A f \in Executions : f # e => newest'[f] = newest[f]
         /\ newest'[e] = ClaimedBy(newest[e], w)
         /\ newest'[e].status = "RUNNING" /\ newest'[e].leased_by = w
         /\ newest'[e].attempts = newest[e].attempts + 1
         /\ newest'[e].result = newest[e].result
<1>1. newest' = [newest EXCEPT ![e] = ClaimedBy(newest[e], w)] /\ UNCHANGED row
  BY DEF Claim
<1>2. newest[e] \in Row /\ newest \in [Executions -> Row]
  BY DEF TypeOK
<1>3. LET r == ClaimedBy(newest[e], w)
      IN  /\ r.status = "RUNNING" /\ r.leased_by = w
          /\ r.attempts = newest[e].attempts + 1 /\ r.result = newest[e].result
  BY <1>2 DEF ClaimedBy, Row
<1> QED
  BY <1>1, <1>2, <1>3

\* A recorded report settles one row, in both of its versions.
LEMMA RecordEffect ==
  ASSUME TypeOK, LockInv, NEW h \in reports, ReportRecord(h)
  PROVE  /\ h.exec \in Executions /\ h.worker \in Workers /\ h.attempt \in Nat \ {0}
         /\ row[h.exec].status = "RUNNING" /\ row[h.exec].leased_by = h.worker
         /\ \A f \in Executions : f # h.exec => row'[f] = row[f] /\ newest'[f] = newest[f]
         /\ row'[h.exec] = Reported(row[h.exec], h.status, h.attempt)
         /\ newest'[h.exec] = row'[h.exec]
         /\ row'[h.exec].status = h.status /\ h.status \in Verdicts /\ h.status \in Terminal
         /\ row'[h.exec].result = h.attempt
         /\ row'[h.exec].attempts = row[h.exec].attempts
         /\ lock[h.exec] = NoWorker
<1>1. /\ h.exec \in Executions /\ h.worker \in Workers /\ h.attempt \in Nat \ {0}
      /\ h.status \in Verdicts
  BY DEF TypeOK, Handlers
<1>2. /\ row[h.exec].status = "RUNNING" /\ row[h.exec].leased_by = h.worker
      /\ lock[h.exec] = NoWorker
  BY <1>1 DEF ReportRecord, StillOurs, LockInv
<1>3. /\ row' = [row EXCEPT ![h.exec] = Reported(row[h.exec], h.status, h.attempt)]
      /\ newest' = [newest EXCEPT ![h.exec] = row'[h.exec]]
  BY DEF ReportRecord
<1>4. row[h.exec] \in Row /\ row \in [Executions -> Row] /\ newest \in [Executions -> Row]
  BY <1>1 DEF TypeOK
<1>5. LET r == Reported(row[h.exec], h.status, h.attempt)
      IN  r.status = h.status /\ r.result = h.attempt /\ r.attempts = row[h.exec].attempts
  BY <1>4 DEF Reported, Row
<1>6. h.status \in Terminal
  BY <1>1, LeaseAssumption DEF Terminal
<1>7. /\ row'[h.exec] = Reported(row[h.exec], h.status, h.attempt)
      /\ newest'[h.exec] = row'[h.exec]
      /\ \A f \in Executions : f # h.exec => row'[f] = row[f] /\ newest'[f] = newest[f]
  BY <1>1, <1>3, <1>4
<1> QED
  BY <1>1, <1>2, <1>5, <1>6, <1>7

\* Every step keeps the rows, claims one or settles one.
LEMMA RowSteps ==
  ASSUME TypeOK, LockInv, [Next]_vars
  PROVE  \/ RowsKept
         \/ \E w \in Workers, e \in Executions : Claim(w, e)
         \/ \E h \in reports : ReportRecord(h)
<1>0. row \in [Executions -> Row] /\ newest \in [Executions -> Row]
  BY DEF TypeOK
<1>1. ASSUME UNCHANGED <<row, newest>> PROVE RowsKept
  BY <1>1, Moved
<1>2. ASSUME NEW e \in Executions, Enqueue(e) PROVE RowsKept
  <2>1. \A f \in Executions :
          /\ row'[f] = IF f = e THEN [row[f] EXCEPT !.status = "QUEUED"] ELSE row[f]
          /\ newest'[f] = IF f = e THEN [newest[f] EXCEPT !.status = "QUEUED"] ELSE newest[f]
    BY <1>0, <1>2 DEF Enqueue
  <2>2. ASSUME NEW f \in Executions
        PROVE  Keeps(row[f], row'[f]) /\ Keeps(newest[f], newest'[f])
    <3>1. ASSUME NEW q \in Row PROVE Keeps(q, q) /\ Keeps(q, [q EXCEPT !.status = "QUEUED"])
      BY KeepingRow
    <3>2. row[f] \in Row /\ newest[f] \in Row
      BY <1>0
    <3>3. CASE f = e
      BY <2>1, <3>1, <3>2, <3>3
    <3>4. CASE f # e
      BY <2>1, <3>1, <3>2, <3>4
    <3> QED
      BY <3>3, <3>4
  <2> QED
    BY <2>2 DEF RowsKept
<1>3. ASSUME NEW e \in Executions, Expire(e) PROVE RowsKept
  <2> DEFINE lapsed == [row[e] EXCEPT !.lease = "expired"]
  <2>1. row' = [row EXCEPT ![e] = lapsed] /\ row'[e] = lapsed
    BY <1>0, <1>3 DEF Expire
  <2>2. newest' = [newest EXCEPT ![e] = IF lock[e] = NoWorker THEN row'[e] ELSE newest[e]]
    BY <1>3 DEF Expire
  <2> HIDE DEF lapsed
  <2>3. \A f \in Executions :
          /\ row'[f] = IF f = e THEN lapsed ELSE row[f]
          /\ newest'[f] = newest[f] \/ newest'[f] = row'[f]
    BY <1>0, <2>1, <2>2
  <2>4. \A f \in Executions : Keeps(row[f], row'[f]) /\ Keeps(newest[f], newest[f])
    BY <1>0, <2>3, KeepingRow DEF lapsed
  <2> QED
    BY <2>3, <2>4 DEF RowsKept
<1>4. ASSUME NEW w \in Workers, NEW e \in Executions, FlushRow(w, e) PROVE RowsKept
  <2>1. \A f \in Executions :
          /\ row'[f] = row[f]
          /\ newest'[f] \in {newest[f], Requeued(newest[f]), Abandoned(newest[f])}
    BY <1>0, <1>4 DEF FlushRow
  <2>2. \A f \in Executions : Keeps(row[f], row'[f]) /\ Keeps(newest[f], newest'[f])
    BY <1>0, <2>1, KeepingRow
  <2> QED
    BY <2>2 DEF RowsKept
<1>5. ASSUME NEW w \in Workers, Rollback(w) PROVE RowsKept
  BY <1>0, <1>5, Moved DEF Rollback
<1>6. ASSUME NEW w \in Workers, NEW delivered \in BOOLEAN, LeaseCommit(w, delivered)
      PROVE  RowsKept
  BY <1>0, <1>6, Moved DEF LeaseCommit
<1>7. ASSUME NEW w \in Workers, LeaseNext(w) \/ WorkerNext(w)
      PROVE  RowsKept \/ \E e \in Executions : Claim(w, e)
  BY <1>1, <1>4, <1>5, <1>6, <1>7
  DEF LeaseNext, WorkerNext, LeaseScan, FlushRefused, FlushDone, ClaimNothing, LeaseAbort,
      Abandon, Crash, ReportCheck
<1>8. ASSUME NEW h \in reports, ReportNext(h) PROVE RowsKept \/ ReportRecord(h)
  BY <1>1, <1>8 DEF ReportNext, ReportUpload, ReportDiscard, HandlerCrash
<1> QED
  BY <1>1, <1>2, <1>3, <1>7, <1>8 DEF Next, vars

-----------------------------------------------------------------------------
(* A recorded result has bytes behind it.                                  *)

\* Where the handlers of the next state come from.
LEMMA HandlerSteps ==
  ASSUME TypeOK, [Next]_vars, NEW h \in reports'
  PROVE  \/ h \in reports
         \/ \E g \in reports : ReportUpload(g) /\ h = [g EXCEPT !.uploaded = TRUE]
         \/ \E w \in Workers, status \in Verdicts :
              /\ ReportCheck(w, status) /\ reports' = reports \cup {h} /\ phase'[w] = "reporting"
              /\ UNCHANGED job
              /\ h.worker = w /\ h.exec = job[w].exec /\ h.attempt = job[w].attempt
              /\ ~h.uploaded
<1> SUFFICES ASSUME h \notin reports
             PROVE  \/ \E g \in reports : ReportUpload(g) /\ h = [g EXCEPT !.uploaded = TRUE]
                    \/ \E w \in Workers, status \in Verdicts :
                         /\ ReportCheck(w, status) /\ reports' = reports \cup {h}
                         /\ phase'[w] = "reporting" /\ UNCHANGED job
                         /\ h.worker = w /\ h.exec = job[w].exec /\ h.attempt = job[w].attempt
                         /\ ~h.uploaded
  OBVIOUS
<1>1. ASSUME NEW w \in Workers, NEW status \in Verdicts, ReportCheck(w, status)
      PROVE  /\ reports' = reports \cup {h} /\ phase'[w] = "reporting" /\ UNCHANGED job
             /\ h.worker = w /\ h.exec = job[w].exec /\ h.attempt = job[w].attempt
             /\ ~h.uploaded
  <2> DEFINE new == [worker |-> w, exec |-> job[w].exec, attempt |-> job[w].attempt,
                     status |-> status, uploaded |-> FALSE]
  <2>1. /\ reports' = reports \cup {new}
        /\ phase' = [phase EXCEPT ![w] = "reporting"] /\ UNCHANGED job
    BY <1>1 DEF ReportCheck
  <2>2. h = new
    BY <2>1
  <2> QED
    BY <2>1, <2>2 DEF TypeOK
<1>2. ASSUME NEW g \in reports, ReportUpload(g) PROVE h = [g EXCEPT !.uploaded = TRUE]
  BY <1>2 DEF ReportUpload
<1>3. ASSUME NEW w \in Workers, LeaseNext(w) \/ Abandon(w) \/ Crash(w) PROVE FALSE
  BY <1>3 DEF LeaseNext, LeaseScan, FlushRow, FlushRefused, FlushDone, Claim, ClaimNothing,
     LeaseCommit, LeaseAbort, Abandon, Crash
<1>4. ASSUME NEW g \in reports, ReportRecord(g) \/ ReportDiscard(g) \/ HandlerCrash(g) PROVE FALSE
  BY <1>4 DEF ReportRecord, ReportDiscard, HandlerCrash
<1>5. ASSUME NEW e \in Executions, Enqueue(e) \/ Expire(e) PROVE FALSE
  BY <1>5 DEF Enqueue, Expire
<1>6. CASE UNCHANGED vars
  BY <1>6 DEF vars
<1> QED
  BY <1>1, <1>2, <1>3, <1>4, <1>5, <1>6 DEF Next, WorkerNext, ReportNext

\* Storage is only ever overwritten.
LEMMA StoredSteps ==
  ASSUME TypeOK, [Next]_vars
  PROVE  /\ \A e \in Executions : stored[e] # 0 => stored'[e] # 0
         /\ \A g \in reports : ReportUpload(g) => stored'[g.exec] # 0
<1>1. ASSUME NEW g \in reports, ReportUpload(g)
      PROVE  stored'[g.exec] # 0 /\ \A e \in Executions : stored[e] # 0 => stored'[e] # 0
  BY <1>1 DEF ReportUpload, TypeOK, Handlers
<1>2. UNCHANGED stored \/ \E g \in reports : ReportUpload(g)
  BY DEF Next, LeaseNext, WorkerNext, ReportNext, Enqueue, Expire, LeaseScan, FlushRow,
     FlushRefused, FlushDone, Claim, ClaimNothing, LeaseCommit, LeaseAbort, Abandon, Crash,
     ReportCheck, ReportRecord, ReportDiscard, HandlerCrash, vars
<1> QED
  BY <1>1, <1>2

\* A result is recorded by a handler that has uploaded, and stays.
LEMMA RecordStep == TypeOK /\ LockInv /\ RecordInv /\ [Next]_vars => RecordInv'
<1> SUFFICES ASSUME TypeOK, LockInv, RecordInv, [Next]_vars PROVE RecordInv'
  OBVIOUS
<1>1. \A h \in reports' : h.uploaded => stored'[h.exec] # 0
  <2> SUFFICES ASSUME NEW h \in reports', h.uploaded PROVE stored'[h.exec] # 0
    OBVIOUS
  <2>1. CASE h \in reports
    BY <2>1, StoredSteps DEF RecordInv, TypeOK, Handlers
  <2>2. ASSUME NEW g \in reports, ReportUpload(g), h = [g EXCEPT !.uploaded = TRUE]
        PROVE  stored'[h.exec] # 0
    <3>1. h.exec = g.exec
      BY <2>2 DEF TypeOK, Handlers
    <3> QED
      BY <2>2, <3>1, StoredSteps
  <2> QED
    BY <2>1, <2>2, HandlerSteps
<1>2. ASSUME NEW e \in Executions
      PROVE  /\ newest'[e].result = row'[e].result
             /\ row'[e].result # 0 => row'[e].status \in Terminal /\ stored'[e] # 0
  <2>1. CASE row[e].result # 0
    <3>1. row[e].status \in Terminal /\ row'[e] = row[e] /\ stored'[e] # 0
      BY <2>1, SettledStep, StoredSteps DEF RecordInv
    <3>2. newest'[e] = row'[e]
      BY <3>1, LockStep DEF LockInv
    <3> QED
      BY <3>1, <3>2
  <2>2. CASE row[e].result = 0
    <3>1. newest[e].result = 0
      BY <2>2 DEF RecordInv
    <3>2. CASE RowsKept
      BY <2>2, <3>1, <3>2 DEF RowsKept, Keeps
    <3>3. ASSUME NEW w \in Workers, NEW f \in Executions, Claim(w, f)
          PROVE  newest'[e].result = 0 /\ row'[e].result = 0
      BY <2>2, <3>1, <3>3, ClaimEffect
    <3>4. ASSUME NEW h \in reports, ReportRecord(h)
          PROVE  /\ newest'[e].result = row'[e].result
                 /\ row'[e].result # 0 => row'[e].status \in Terminal /\ stored'[e] # 0
      <4>1. h.uploaded /\ UNCHANGED stored
        BY <3>4 DEF ReportRecord
      <4> QED
        BY <2>2, <3>1, <3>4, <4>1, RecordEffect DEF RecordInv
    <3> QED
      BY <3>2, <3>3, <3>4, RowSteps
  <2> QED
    BY <2>1, <2>2
<1> QED
  BY <1>1, <1>2 DEF RecordInv

\* Whatever the keys, ids and crashes, a row that carries a result points at
\* bytes that exist.
THEOREM BytesExist == Spec => []NoDanglingResult
<1>1. Init => LockInv /\ RecordInv
  BY DEF Init, LockInv, RecordInv, AbsentRow
<1>2. RecordInv => NoDanglingResult
  BY DEF RecordInv, NoDanglingResult
<1> QED
  BY <1>1, <1>2, LockStep, RecordStep, TypeCorrect, PTL DEF Spec

\* Whatever the keys, ids and crashes, "accepted" is said of a row that was
\* running, and whose result is then the attempt of the worker that hears it.
THEOREM AcceptedMeansRecorded == Spec => AcceptedIsRecorded
<1>1. ASSUME TypeOK, LockInv, [Next]_vars, NEW w \in Workers,
             answer[w] # "accepted", answer'[w] = "accepted"
      PROVE  row[job[w].exec].status = "RUNNING" /\ row'[job[w].exec].result = job[w].attempt
  <2>1. PICK h \in reports : ReportRecord(h)
    <3>1. ASSUME NEW v \in Workers, NEW reply \in {"none", "discarded", "refused"},
                 answer' = [answer EXCEPT ![v] = reply]
          PROVE  FALSE
      BY <1>1, <3>1 DEF TypeOK
    <3>2. ASSUME NEW h \in reports, ReportDiscard(h) PROVE FALSE
      <4>1. h.worker \in Workers
        BY <1>1 DEF TypeOK, Handlers
      <4> QED
        BY <1>1, <3>1, <3>2, <4>1 DEF ReportDiscard, Answered
    <3>3. ASSUME NEW v \in Workers, NEW status \in Verdicts, ReportCheck(v, status) PROVE FALSE
      BY <1>1, <3>1, <3>3 DEF ReportCheck
    <3>4. ASSUME NEW v \in Workers, LeaseScan(v) PROVE FALSE
      BY <1>1, <3>1, <3>4 DEF LeaseScan
    <3>5. CASE UNCHANGED answer
      BY <1>1, <3>5
    <3> QED
      BY <1>1, <3>2, <3>3, <3>4, <3>5
      DEF Next, LeaseNext, WorkerNext, ReportNext, Enqueue, Expire, FlushRow, FlushRefused,
          FlushDone, Claim, ClaimNothing, LeaseCommit, LeaseAbort, Abandon, Crash, ReportUpload,
          HandlerCrash, vars
  <2>2. h.worker = w /\ job[w] = [exec |-> h.exec, attempt |-> h.attempt]
    BY <1>1, <2>1 DEF ReportRecord, Answered, TypeOK, Handlers
  <2>3. job[w].exec = h.exec /\ job[w].attempt = h.attempt
    BY <2>2
  <2> QED
    BY <1>1, <2>1, <2>3, RecordEffect
<1>2. TypeOK /\ LockInv /\ [Next]_vars =>
        [\A w \in Workers : answer[w] # "accepted" /\ answer'[w] = "accepted" =>
           /\ row[job[w].exec].status = "RUNNING"
           /\ row'[job[w].exec].result = job[w].attempt]_vars
  BY <1>1
<1>3. Init => LockInv
  BY DEF Init, LockInv
<1> QED
  BY <1>2, <1>3, LockStep, TypeCorrect, PTL DEF Spec, AcceptedIsRecorded

-----------------------------------------------------------------------------
(* Workers whose id dies with their process.                               *)

Mortal == StableIds = {}

\* Whoever may not claim an execution next is on the claim it was on.
LEMMA HoldsStep ==
  ASSUME TypeOK, LockInv, [Next]_vars, NEW w \in Workers, phase[w] # "claiming",
         NEW e \in Executions, NEW attempt, Holds(w, e, attempt)
  PROVE  Holds(w, e, attempt)'
<1> SUFFICES ASSUME NEW r \in {row'[e], newest'[e]}, r.status = "RUNNING", r.leased_by = w
             PROVE  r.attempts = attempt
  BY DEF Holds
<1>1. CASE RowsKept
  BY <1>1 DEF RowsKept, Keeps, Holds
<1>2. ASSUME NEW v \in Workers, NEW f \in Executions, Claim(v, f) PROVE r.attempts = attempt
  <2>1. v # w
    BY <1>2 DEF Claim
  <2>2. r \in {row[e], newest[e]}
    BY <1>2, <2>1, ClaimEffect
  <2> QED
    BY <2>2 DEF Holds
<1>3. ASSUME NEW h \in reports, ReportRecord(h) PROVE r.attempts = attempt
  <2>1. "RUNNING" \notin Terminal
    BY DEF Terminal
  <2>2. r \in {row[e], newest[e]}
    BY <1>3, <2>1, RecordEffect
  <2> QED
    BY <2>2 DEF Holds
<1> QED
  BY <1>1, <1>2, <1>3, RowSteps

\* A row that an open lease request has locked is not written by anybody else.
LEMMA LockedStep ==
  ASSUME TypeOK, LockInv, [Next]_vars, NEW w \in Workers, NEW e \in Executions, lock[e] = w,
         phase[w] = "committing", phase'[w] = "committing"
  PROVE  lock'[e] = w /\ newest'[e].attempts = newest[e].attempts
<1>0. w # NoWorker /\ newest \in [Executions -> Row] /\ newest[e] \in Row
  BY LeaseAssumption DEF TypeOK
<1>1. ASSUME UNCHANGED <<newest, lock>> PROVE lock'[e] = w /\ newest'[e].attempts = newest[e].attempts
  BY <1>1
<1>2. ASSUME NEW f \in Executions, Enqueue(f)
      PROVE  lock'[e] = w /\ newest'[e].attempts = newest[e].attempts
  BY <1>0, <1>2 DEF Enqueue, Row
<1>3. ASSUME NEW f \in Executions, Expire(f)
      PROVE  lock'[e] = w /\ newest'[e].attempts = newest[e].attempts
  BY <1>0, <1>3 DEF Expire
<1>4. ASSUME NEW v \in Workers, NEW f \in Executions, FlushRow(v, f) \/ Claim(v, f)
      PROVE  lock'[e] = w /\ newest'[e].attempts = newest[e].attempts
  <2>1. f # e
    BY <1>0, <1>4 DEF FlushRow, Claim, Claimable
  <2> QED
    BY <1>0, <1>4, <2>1 DEF FlushRow, Claim, TypeOK
<1>5. ASSUME NEW v \in Workers, Rollback(v)
      PROVE  lock'[e] = w /\ newest'[e].attempts = newest[e].attempts
  <2>1. v # w
    BY <1>5 DEF Rollback, TypeOK
  <2> QED
    BY <1>5, <2>1 DEF Rollback
<1>6. ASSUME NEW v \in Workers, NEW delivered \in BOOLEAN, LeaseCommit(v, delivered)
      PROVE  lock'[e] = w /\ newest'[e].attempts = newest[e].attempts
  <2>1. v # w
    BY <1>6 DEF LeaseCommit, TypeOK
  <2> QED
    BY <1>6, <2>1 DEF LeaseCommit
<1>7. ASSUME NEW h \in reports, ReportRecord(h)
      PROVE  lock'[e] = w /\ newest'[e].attempts = newest[e].attempts
  <2>1. UNCHANGED lock /\ h.exec # e
    BY <1>0, <1>7, RecordEffect DEF ReportRecord
  <2> QED
    BY <1>7, <2>1, RecordEffect
<1>8. ASSUME NEW v \in Workers, LeaseNext(v) \/ WorkerNext(v)
      PROVE  lock'[e] = w /\ newest'[e].attempts = newest[e].attempts
  BY <1>1, <1>4, <1>5, <1>6, <1>8
  DEF LeaseNext, WorkerNext, LeaseScan, FlushRefused, FlushDone, ClaimNothing, LeaseAbort,
      Abandon, Crash, ReportCheck
<1>9. ASSUME NEW h \in reports, ReportNext(h)
      PROVE  lock'[e] = w /\ newest'[e].attempts = newest[e].attempts
  BY <1>1, <1>7, <1>9 DEF ReportNext, ReportUpload, ReportDiscard, HandlerCrash
<1> QED
  BY <1>1, <1>2, <1>3, <1>8, <1>9 DEF Next, vars

\* What a worker may go through in one step.
WorkerSteps(w) ==
  \/ phase'[w] = phase[w] /\ job'[w] = job[w]
  \/ /\ phase[w] \in {"idle", "flushing", "claiming"} /\ phase'[w] \in InLeaseTx
     /\ job'[w] = job[w]
  \/ \E e \in Executions : Claim(w, e)
  \/ LeaseCommit(w, TRUE) /\ job[w] # NoJob /\ job'[w] = job[w] /\ phase'[w] = "running"
  \/ phase[w] = "running" /\ phase'[w] = "reporting" /\ job'[w] = job[w]
  \/ /\ phase[w] # "gone" /\ job'[w] = NoJob
     /\ \/ phase'[w] = "gone"
        \/ phase'[w] = "idle" /\ phase[w] # "reporting"
        \/ phase'[w] = "idle" /\ \E h \in reports : h.worker = w /\ reports' = reports \ {h}

\* And it goes through nothing else.
LEMMA WorkersStep ==
  ASSUME Mortal, TypeOK, [Next]_vars, NEW w \in Workers
  PROVE  WorkerSteps(w)
<1>0. phase \in [Workers -> Phases] /\ job \in [Workers -> Jobs \cup {NoJob}]
  BY DEF TypeOK
<1>1. ASSUME UNCHANGED <<phase, job>> PROVE WorkerSteps(w)
  BY <1>1 DEF WorkerSteps
<1>2. ASSUME NEW v \in Workers, LeaseScan(v) \/ FlushDone(v) \/ ClaimNothing(v)
      PROVE  WorkerSteps(w)
  BY <1>0, <1>2 DEF LeaseScan, FlushDone, ClaimNothing, WorkerSteps, InLeaseTx
<1>3. ASSUME NEW v \in Workers, NEW e \in Executions, Claim(v, e) PROVE WorkerSteps(w)
  <2>1. v # w => phase'[w] = phase[w] /\ job'[w] = job[w]
    BY <1>0, <1>3 DEF Claim
  <2> QED
    BY <1>3, <2>1 DEF WorkerSteps
<1>4. ASSUME NEW v \in Workers, Rollback(v), phase[v] \in InLeaseTx PROVE WorkerSteps(w)
  BY <1>0, <1>4 DEF Rollback, WorkerSteps, InLeaseTx
<1>5. ASSUME NEW v \in Workers, NEW delivered \in BOOLEAN, LeaseCommit(v, delivered)
      PROVE  WorkerSteps(w)
  <2>1. CASE v # w
    BY <1>0, <1>5, <2>1 DEF LeaseCommit, WorkerSteps
  <2>2. CASE v = w /\ delivered /\ job[w] # NoJob
    <3>1. LeaseCommit(w, TRUE) /\ phase'[w] = "running" /\ job'[w] = job[w]
      BY <1>0, <1>5, <2>2 DEF LeaseCommit
    <3> QED
      BY <2>2, <3>1 DEF WorkerSteps
  <2>3. CASE v = w /\ ~(delivered /\ job[w] # NoJob)
    <3>1. phase[w] = "committing" /\ phase'[w] = "idle" /\ job'[w] = NoJob
      BY <1>0, <1>5, <2>3 DEF LeaseCommit
    <3> QED
      BY <3>1 DEF WorkerSteps
  <2> QED
    BY <2>1, <2>2, <2>3
<1>6. ASSUME NEW v \in Workers, Abandon(v) \/ Crash(v) PROVE WorkerSteps(w)
  BY <1>0, <1>6 DEF Abandon, Crash, BackTo, WorkerSteps, Mortal
<1>7. ASSUME NEW v \in Workers, NEW status \in Verdicts, ReportCheck(v, status)
      PROVE  WorkerSteps(w)
  BY <1>0, <1>7 DEF ReportCheck, BackTo, WorkerSteps
<1>8. ASSUME NEW h \in reports, NEW next \in {"idle", "gone"}, reports' = reports \ {h},
             phase[h.worker] = "reporting", BackTo(h.worker, next)
      PROVE  WorkerSteps(w)
  <2>1. h.worker \in Workers
    BY DEF TypeOK, Handlers
  <2> QED
    BY <1>0, <1>8, <2>1 DEF BackTo, WorkerSteps
<1>9. ASSUME NEW h \in reports, ReportNext(h) PROVE WorkerSteps(w)
  BY <1>1, <1>8, <1>9
  DEF ReportNext, ReportUpload, ReportRecord, ReportDiscard, HandlerCrash, Answered
<1>10. ASSUME NEW e \in Executions, Enqueue(e) \/ Expire(e) PROVE WorkerSteps(w)
  BY <1>1, <1>10 DEF Enqueue, Expire
<1>11. ASSUME NEW v \in Workers, LeaseNext(v) PROVE WorkerSteps(w)
  BY <1>1, <1>2, <1>3, <1>4, <1>5, <1>11
  DEF LeaseNext, FlushRow, FlushRefused, LeaseAbort, InLeaseTx
<1>12. ASSUME NEW v \in Workers, WorkerNext(v) PROVE WorkerSteps(w)
  BY <1>6, <1>7, <1>12 DEF WorkerNext
<1> QED
  BY <1>1, <1>9, <1>10, <1>11, <1>12 DEF Next, vars

\* What a worker remembers of its claim.
LEMMA WorkerStep ==
  Mortal /\ TypeOK /\ LockInv /\ WorkerInv /\ [Next]_vars => WorkerInv'
<1> SUFFICES ASSUME Mortal, TypeOK, LockInv, WorkerInv, [Next]_vars, NEW w \in Workers
             PROVE  /\ job'[w] # NoJob => phase'[w] \in {"committing", "running", "reporting"}
                    /\ phase'[w] = "committing" /\ job'[w] # NoJob =>
                         /\ lock'[job'[w].exec] = w
                         /\ newest'[job'[w].exec].attempts = job'[w].attempt
                    /\ phase'[w] \in {"running", "reporting"} =>
                         Holds(w, job[w].exec, job[w].attempt)'
  BY DEF WorkerInv
<1>p. PICK e, k : e = job[w].exec /\ k = job[w].attempt
  OBVIOUS
<1>0. job[w] # NoJob => e \in Executions /\ k \in Nat
  BY <1>p DEF TypeOK, Jobs
<1>1. job[w] # NoJob <=> phase[w] \in {"running", "reporting"} \/ (phase[w] = "committing" /\ job[w] # NoJob)
  BY DEF WorkerInv, TypeOK
<1>2. phase[w] = "committing" /\ job[w] # NoJob => lock[e] = w /\ newest[e].attempts = k
  BY <1>p DEF WorkerInv
<1>3. phase[w] \in {"running", "reporting"} => Holds(w, e, k)'
  BY <1>p, <1>0, <1>1, HoldsStep DEF WorkerInv
<1>4. CASE phase'[w] = phase[w] /\ job'[w] = job[w]
  BY <1>p, <1>0, <1>1, <1>2, <1>3, <1>4, LockedStep
<1>5. CASE /\ phase[w] \in {"idle", "flushing", "claiming"} /\ phase'[w] \in InLeaseTx
           /\ job'[w] = job[w]
  BY <1>1, <1>5 DEF InLeaseTx
<1>6. ASSUME NEW f \in Executions, Claim(w, f)
      PROVE  /\ phase'[w] = "committing" /\ job'[w].exec = f /\ lock'[f] = w
             /\ newest'[f].attempts = job'[w].attempt
  <2>1. /\ phase'[w] = "committing" /\ job'[w] = [exec |-> f, attempt |-> newest[f].attempts + 1]
        /\ lock'[f] = w
    BY <1>6 DEF Claim, TypeOK
  <2> QED
    BY <1>6, <2>1, ClaimEffect
<1>7. CASE LeaseCommit(w, TRUE) /\ job[w] # NoJob /\ job'[w] = job[w] /\ phase'[w] = "running"
  <2>1. lock[e] = w /\ newest[e].attempts = k /\ e \in Executions
    BY <1>0, <1>2, <1>7 DEF LeaseCommit
  <2>2. row'[e] = newest[e] /\ newest'[e] = newest[e]
    BY <1>7, <2>1 DEF LeaseCommit
  <2>3. Holds(w, e, k)'
    BY <2>1, <2>2 DEF Holds
  <2> QED
    BY <1>p, <1>7, <2>3
<1>8. CASE phase[w] = "running" /\ phase'[w] = "reporting" /\ job'[w] = job[w]
  BY <1>p, <1>3, <1>8
<1>9. CASE job'[w] = NoJob /\ phase'[w] \in {"idle", "gone"}
  BY <1>9
<1> QED
  BY <1>4, <1>5, <1>6, <1>7, <1>8, <1>9, WorkersStep DEF WorkerSteps

\* How the handlers in flight change.
LEMMA ReportsSteps ==
  ASSUME TypeOK, [Next]_vars
  PROVE  \/ reports' \subseteq reports
         \/ \E g \in reports : ReportUpload(g)
         \/ \E w \in Workers, status \in Verdicts :
              ReportCheck(w, status) /\ phase[w] = "running" /\ ~(reports' \subseteq reports)
<1>1. ASSUME NEW w \in Workers, LeaseNext(w) \/ Abandon(w) \/ Crash(w) PROVE reports' = reports
  BY <1>1 DEF LeaseNext, LeaseScan, FlushRow, FlushRefused, FlushDone, Claim, ClaimNothing,
     LeaseCommit, LeaseAbort, Abandon, Crash
<1>2. ASSUME NEW g \in reports, ReportRecord(g) \/ ReportDiscard(g) \/ HandlerCrash(g)
      PROVE  reports' \subseteq reports
  BY <1>2 DEF ReportRecord, ReportDiscard, HandlerCrash
<1>3. ASSUME NEW e \in Executions, Enqueue(e) \/ Expire(e) PROVE reports' = reports
  BY <1>3 DEF Enqueue, Expire
<1>4. ASSUME NEW w \in Workers, NEW status \in Verdicts, ReportCheck(w, status)
      PROVE  phase[w] = "running"
  BY <1>4 DEF ReportCheck
<1> QED
  BY <1>1, <1>2, <1>3, <1>4 DEF Next, WorkerNext, ReportNext, vars

\* Each handler answers for one claim of a worker that waits for it or is gone.
LEMMA HandlerStep ==
  Mortal /\ TypeOK /\ LockInv /\ WorkerInv /\ HandlerInv /\ [Next]_vars => HandlerInv'
<1> SUFFICES ASSUME Mortal, TypeOK, LockInv, WorkerInv, HandlerInv, [Next]_vars PROVE HandlerInv'
  OBVIOUS
<1>0. \A h \in reports : h.worker \in Workers /\ h.exec \in Executions
  BY DEF TypeOK, Handlers
<1>1. \A h \in reports : Holds(h.worker, h.exec, h.attempt)'
  BY <1>0, HoldsStep DEF HandlerInv
<1>2. ASSUME NEW h \in reports, ~(\E g \in reports : g.worker = h.worker /\ reports' = reports \ {g})
      PROVE  \/ phase'[h.worker] = "gone"
             \/ /\ phase'[h.worker] = "reporting"
                /\ job'[h.worker] = [exec |-> h.exec, attempt |-> h.attempt]
  <2>1. \/ phase[h.worker] = "gone"
        \/ /\ phase[h.worker] = "reporting"
           /\ job[h.worker] = [exec |-> h.exec, attempt |-> h.attempt]
    BY DEF HandlerInv
  <2>2. WorkerSteps(h.worker)
    BY <1>0, WorkersStep
  <2> QED
    BY <1>2, <2>1, <2>2 DEF WorkerSteps, Claim, LeaseCommit
<1>3. CASE reports' \subseteq reports
  <2> SUFFICES ASSUME NEW h \in reports'
               PROVE  /\ \A g \in reports' : g.worker = h.worker => g = h
                      /\ \/ phase'[h.worker] = "gone"
                         \/ /\ phase'[h.worker] = "reporting"
                            /\ job'[h.worker] = [exec |-> h.exec, attempt |-> h.attempt]
                      /\ Holds(h.worker, h.exec, h.attempt)'
    BY DEF HandlerInv
  <2>1. \A g \in reports : g.worker = h.worker => g = h
    BY <1>3 DEF HandlerInv
  <2> QED
    BY <1>1, <1>2, <1>3, <2>1
<1>4. ASSUME NEW u \in reports, ReportUpload(u) PROVE HandlerInv'
  <2> DEFINE new == [u EXCEPT !.uploaded = TRUE]
  <2>1. /\ reports' = (reports \ {u}) \cup {new} /\ ~u.uploaded /\ UNCHANGED <<phase, job, row, newest>>
        /\ new.worker = u.worker /\ new.exec = u.exec /\ new.attempt = u.attempt
    BY <1>4 DEF ReportUpload, TypeOK, Handlers
  <2> HIDE DEF new
  <2>2. \A h \in reports' : \E g \in reports :
          /\ g.worker = h.worker /\ g.exec = h.exec /\ g.attempt = h.attempt
          /\ h = IF g = u THEN new ELSE g
    BY <2>1
  <2>3. \A h \in reports' :
          /\ \/ phase[h.worker] = "gone"
             \/ /\ phase[h.worker] = "reporting"
                /\ job[h.worker] = [exec |-> h.exec, attempt |-> h.attempt]
          /\ Holds(h.worker, h.exec, h.attempt)
    <3> TAKE h \in reports'
    <3>1. PICK g \in reports : g.worker = h.worker /\ g.exec = h.exec /\ g.attempt = h.attempt
      BY <2>2
    <3> QED
      BY <3>1 DEF HandlerInv
  <2>4. \A g, h \in reports' : g.worker = h.worker => g = h
    <3> SUFFICES ASSUME NEW g \in reports', NEW h \in reports', g.worker = h.worker PROVE g = h
      OBVIOUS
    <3>0. \A p, q \in reports : p.worker = q.worker => p = q
      BY DEF HandlerInv
    <3>1. PICK p \in reports : p.worker = g.worker /\ g = IF p = u THEN new ELSE p
      BY <2>2
    <3>2. PICK q \in reports : q.worker = h.worker /\ h = IF q = u THEN new ELSE q
      BY <2>2
    <3>3. p = q
      BY <3>0, <3>1, <3>2
    <3> QED
      BY <3>1, <3>2, <3>3
  <2> QED
    BY <2>1, <2>3, <2>4 DEF HandlerInv, Holds
<1>5. ASSUME NEW w \in Workers, NEW status \in Verdicts, ReportCheck(w, status),
             phase[w] = "running", ~(reports' \subseteq reports)
      PROVE  HandlerInv'
  <2> DEFINE new == [worker |-> w, exec |-> job[w].exec, attempt |-> job[w].attempt,
                     status |-> status, uploaded |-> FALSE]
  <2>1. /\ reports' = reports \cup {new} /\ phase' = [phase EXCEPT ![w] = "reporting"]
        /\ UNCHANGED <<job, row, newest>>
    BY <1>5 DEF ReportCheck
  <2>2. new.worker = w /\ new.exec = job[w].exec /\ new.attempt = job[w].attempt
    OBVIOUS
  <2>3. job[w] = [exec |-> new.exec, attempt |-> new.attempt]
    BY <1>5, <2>2 DEF TypeOK, Jobs
  <2>4. \A h \in reports : h.worker # w
    BY <1>5 DEF HandlerInv
  <2>5. Holds(w, new.exec, new.attempt)
    BY <1>5, <2>2 DEF WorkerInv
  <2>6. \A v \in Workers : phase'[v] = IF v = w THEN "reporting" ELSE phase[v]
    BY <2>1 DEF TypeOK
  <2> HIDE DEF new
  <2>7. ASSUME NEW h \in reports'
        PROVE  /\ \A g \in reports' : g.worker = h.worker => g = h
               /\ \/ phase'[h.worker] = "gone"
                  \/ /\ phase'[h.worker] = "reporting"
                     /\ job'[h.worker] = [exec |-> h.exec, attempt |-> h.attempt]
               /\ Holds(h.worker, h.exec, h.attempt)'
    <3>1. CASE h = new
      <4>1. \A g \in reports' : g.worker = h.worker => g = h
        BY <2>1, <2>2, <2>4, <3>1
      <4>2. phase'[h.worker] = "reporting" /\ job'[h.worker] = [exec |-> h.exec, attempt |-> h.attempt]
        BY <2>1, <2>2, <2>3, <2>6, <3>1
      <4>3. Holds(h.worker, h.exec, h.attempt)'
        BY <2>1, <2>2, <2>5, <3>1 DEF Holds
      <4> QED
        BY <4>1, <4>2, <4>3
    <3>2. CASE h # new
      <4>1. h \in reports /\ h.worker # w /\ h.worker \in Workers
        BY <1>0, <2>1, <2>4, <3>2
      <4>2. \A g \in reports' : g.worker = h.worker => g = h
        BY <2>1, <2>2, <4>1 DEF HandlerInv
      <4>3. phase'[h.worker] = phase[h.worker] /\ job'[h.worker] = job[h.worker]
        BY <2>1, <2>6, <4>1
      <4> QED
        BY <1>1, <4>1, <4>2, <4>3 DEF HandlerInv
    <3> QED
      BY <3>1, <3>2
  <2> QED
    BY <2>7 DEF HandlerInv
<1> QED
  BY <1>3, <1>4, <1>5, ReportsSteps

\* Only a recorded report leaves an event and a verdict.
LEMMA CompletedStep ==
  ASSUME [Next]_vars PROVE UNCHANGED completed \/ \E h \in reports : ReportRecord(h)
BY DEF Next, LeaseNext, WorkerNext, ReportNext, Enqueue, Expire, LeaseScan, FlushRow,
   FlushRefused, FlushDone, Claim, ClaimNothing, LeaseCommit, LeaseAbort, Abandon, Crash,
   ReportCheck, ReportUpload, ReportDiscard, HandlerCrash, vars

\* A report that lands is the one of the claim its row is on.
LEMMA ResultStep ==
  TypeOK /\ LockInv /\ RecordInv /\ HandlerInv /\ ResultIsOfTheClaim /\ [Next]_vars
    => ResultIsOfTheClaim'
<1> SUFFICES ASSUME TypeOK, LockInv, RecordInv, HandlerInv, ResultIsOfTheClaim, [Next]_vars,
                    NEW e \in Executions
             PROVE  /\ completed'[e] = IF row'[e].result = 0 THEN {} ELSE {row'[e].result}
                    /\ row'[e].result # 0 => row'[e].result = row'[e].attempts
  BY DEF ResultIsOfTheClaim
<1>1. ASSUME NEW h \in reports, ReportRecord(h), h.exec = e
      PROVE  /\ completed'[e] = IF row'[e].result = 0 THEN {} ELSE {row'[e].result}
             /\ row'[e].result # 0 => row'[e].result = row'[e].attempts
  <2>1. /\ row[e].status = "RUNNING" /\ row[e].leased_by = h.worker /\ h.attempt \in Nat \ {0}
        /\ row'[e].result = h.attempt /\ row'[e].attempts = row[e].attempts
    BY <1>1, RecordEffect
  <2>2. row[e].attempts = h.attempt
    BY <1>1, <2>1 DEF HandlerInv, Holds
  <2>3. row[e].result = 0
    BY <2>1 DEF RecordInv, Terminal
  <2>4. completed'[e] = {h.attempt}
    BY <1>1, <2>3 DEF ReportRecord, ResultIsOfTheClaim, TypeOK
  <2> QED
    BY <2>1, <2>2, <2>4
<1>2. ASSUME NEW h \in reports, ReportRecord(h), h.exec # e
      PROVE  row'[e] = row[e] /\ completed'[e] = completed[e]
  BY <1>2, RecordEffect DEF ReportRecord, TypeOK
<1>3. CASE ~\E h \in reports : ReportRecord(h)
  <2>1. completed'[e] = completed[e]
    BY <1>3, CompletedStep
  <2>2. CASE row[e].result # 0
    BY <2>1, <2>2, SettledStep DEF RecordInv, ResultIsOfTheClaim
  <2>3. CASE row[e].result = 0
    <3>1. newest[e].result = 0
      BY <2>3 DEF RecordInv
    <3>2. CASE RowsKept
      BY <2>1, <2>3, <3>1, <3>2 DEF RowsKept, Keeps, ResultIsOfTheClaim
    <3>3. ASSUME NEW w \in Workers, NEW f \in Executions, Claim(w, f) PROVE row'[e] = row[e]
      BY <3>3 DEF Claim
    <3> QED
      BY <1>3, <2>1, <2>3, <3>2, <3>3, RowSteps DEF ResultIsOfTheClaim
  <2> QED
    BY <2>2, <2>3
<1> QED
  BY <1>1, <1>2, <1>3 DEF ResultIsOfTheClaim

\* Where ids die with their process, what workers and handlers remember of
\* their claims is true of the rows that still name them, whatever the keys.
THEOREM MortalCorrect == Mortal => (Spec => [](TypeOK /\ LockInv /\ RecordInv /\ MortalInv))
<1>1. Init => LockInv /\ RecordInv /\ MortalInv
  BY DEF Init, LockInv, RecordInv, MortalInv, ResultIsOfTheClaim, WorkerInv, HandlerInv, AbsentRow
<1> SUFFICES ASSUME Mortal PROVE Spec => [](TypeOK /\ LockInv /\ RecordInv /\ MortalInv)
  OBVIOUS
<1>2. TypeOK /\ LockInv /\ RecordInv /\ MortalInv /\ [Next]_vars
        => LockInv' /\ RecordInv' /\ MortalInv'
  BY LockStep, RecordStep, WorkerStep, HandlerStep, ResultStep DEF MortalInv
<1> QED
  BY <1>1, <1>2, TypeCorrect, PTL DEF Spec

\* ResultIsOfTheClaim for workers whose id dies with their process: no result
\* lands once the lease has moved on, however many keys there are.
THEOREM NoLateResult == Mortal => (Spec => []ResultIsOfTheClaim)
<1> SUFFICES ASSUME Mortal PROVE Spec => []ResultIsOfTheClaim
  OBVIOUS
<1>1. Spec => [](TypeOK /\ LockInv /\ RecordInv /\ MortalInv)
  BY MortalCorrect
<1>2. MortalInv => ResultIsOfTheClaim
  BY DEF MortalInv
<1> QED
  BY <1>1, <1>2, PTL

-----------------------------------------------------------------------------
(* The transactions implement the atomic queue.                            *)

\* Whether it was given back first makes no difference to a claimed row.
LEMMA ClaimOfRequeued ==
  ASSUME NEW r \in Row, NEW w \in Workers
  PROVE  ClaimedBy(Requeued(r), w) = ClaimedBy(r, w)
BY DEF ClaimedBy, Requeued, Row

\* What an open request has written stays one step away while nobody touches
\* the row or the request.
LEMMA WrittenSame ==
  ASSUME WrittenInv, NEW e \in Executions, row'[e] = row[e], newest'[e] = newest[e],
         lock'[e] # NoWorker => /\ lock'[e] = lock[e]
                                /\ phase[lock[e]] = "committing" =>
                                     phase'[lock[e]] = "committing" /\ job'[lock[e]] = job[lock[e]]
  PROVE  /\ row'[e].status = "absent" => row'[e] = AbsentRow
         /\ lock'[e] # NoWorker => WrittenBy(lock[e], e)'
<1>1. row'[e].status = "absent" => row'[e] = AbsentRow
  BY DEF WrittenInv
<1>2. ASSUME lock'[e] # NoWorker PROVE WrittenBy(lock[e], e)'
  <2>1. PICK w : w = lock[e] /\ w = lock'[e]
    BY <1>2
  <2>2. WrittenBy(w, e)
    BY <1>2, <2>1 DEF WrittenInv
  <2>3. WrittenBy(w, e)'
    BY <1>2, <2>1, <2>2 DEF WrittenBy
  <2> QED
    BY <2>1, <2>3
<1> QED
  BY <1>1, <1>2

\* With one API key every lease request writes only such steps.
LEMMA WrittenStep == ExclusiveInv /\ WrittenInv /\ [Next]_vars => WrittenInv'
<1> SUFFICES ASSUME ExclusiveInv, WrittenInv, [Next]_vars PROVE WrittenInv'
  OBVIOUS
<1> DEFINE Good(e) == /\ row[e].status = "absent" => row[e] = AbsentRow
                      /\ lock[e] # NoWorker => WrittenBy(lock[e], e)
<1>0. /\ TypeOK /\ LockInv /\ row \in [Executions -> Row] /\ newest \in [Executions -> Row]
      /\ lock \in [Executions -> Workers \cup {NoWorker}] /\ NoWorker \notin Workers
      /\ phase \in [Workers -> Phases] /\ job \in [Workers -> Jobs \cup {NoJob}]
  BY LeaseAssumption DEF ExclusiveInv, TypeOK
<1>1. \A e \in Executions : lock[e] = NoWorker => newest[e] = row[e]
  BY <1>0 DEF LockInv
<1>2. \A e \in Executions : lock[e] # NoWorker => lock[e] \in Workers /\ phase[lock[e]] \in InLeaseTx
  BY <1>0 DEF LockInv
<1>3. ASSUME UNCHANGED <<row, newest, lock>>,
             \A v \in Workers : phase[v] = "committing" => phase'[v] = phase[v] /\ job'[v] = job[v]
      PROVE  WrittenInv'
  BY <1>2, <1>3, WrittenSame DEF WrittenInv
<1>4. ASSUME NEW f \in Executions, Enqueue(f) \/ Expire(f) PROVE WrittenInv'
  <2>1. lock[f] = NoWorker
    BY <1>4 DEF Enqueue, Expire, ExclusiveInv, LockedInv, LeaseColumn
  <2>2. /\ row'[f].status # "absent" /\ UNCHANGED <<lock, phase, job>>
        /\ \A e \in Executions : e # f => row'[e] = row[e] /\ newest'[e] = newest[e]
    <3>1. CASE Enqueue(f)
      BY <1>0, <3>1 DEF Enqueue, Row
    <3>2. CASE Expire(f)
      BY <1>0, <3>2 DEF Expire, Row
    <3> QED
      BY <1>4, <3>1, <3>2
  <2>3. ASSUME NEW e \in Executions PROVE Good(e)'
    <3>1. CASE e = f
      BY <2>1, <2>2, <3>1
    <3>2. CASE e # f
      BY <2>2, <3>2, WrittenSame
    <3> QED
      BY <3>1, <3>2
  <2> QED
    BY <2>3 DEF WrittenInv
<1>5. ASSUME NEW w \in Workers, NEW f \in Executions, FlushRow(w, f) PROVE WrittenInv'
  <2>1. /\ stale[w][f] # 0 /\ lock[f] = NoWorker /\ newest[f].status \notin Terminal
        /\ newest' = [newest EXCEPT ![f] =
             IF stale[w][f] >= MaxAttempts THEN Abandoned(newest[f]) ELSE Requeued(newest[f])]
        /\ lock' = [lock EXCEPT ![f] = w] /\ UNCHANGED <<row, phase, job>>
    BY <1>5 DEF FlushRow, NextStale
  <2>2. /\ row[f].status = "RUNNING" /\ stale[w][f] = row[f].attempts /\ newest[f] = row[f]
        /\ row[f].attempts \in Nat /\ MaxAttempts \in Nat
    BY <1>0, <1>1, <2>1, LeaseAssumption DEF ExclusiveInv, StaleInv, Row
  <2>3. /\ lock'[f] = w /\ row'[f] = row[f]
        /\ newest'[f] = IF row[f].attempts >= MaxAttempts THEN Abandoned(row[f])
                        ELSE Requeued(row[f])
    BY <1>0, <2>1, <2>2
  <2>4. WrittenBy(w, f)'
    <3>1. CASE row[f].attempts >= MaxAttempts
      BY <2>2, <2>3, <3>1 DEF WrittenBy
    <3>2. CASE row[f].attempts < MaxAttempts
      BY <2>2, <2>3, <3>2 DEF WrittenBy
    <3> QED
      BY <2>2, <3>1, <3>2
  <2>5. ASSUME NEW e \in Executions PROVE Good(e)'
    <3>1. CASE e = f
      BY <2>2, <2>3, <2>4, <3>1
    <3>2. CASE e # f
      BY <1>0, <2>1, <3>2, WrittenSame
    <3> QED
      BY <3>1, <3>2
  <2> QED
    BY <2>5 DEF WrittenInv
<1>6. ASSUME NEW w \in Workers, NEW f \in Executions, Claim(w, f) PROVE WrittenInv'
  <2>1. /\ phase[w] = "claiming" /\ newest[f].status = "QUEUED" /\ lock[f] \in {NoWorker, w}
        /\ lock' = [lock EXCEPT ![f] = w] /\ phase' = [phase EXCEPT ![w] = "committing"]
        /\ job' = [job EXCEPT ![w] = [exec |-> f, attempt |-> newest[f].attempts + 1]]
    BY <1>6 DEF Claim, Claimable
  <2>2. row[f].attempts < MaxAttempts /\ ClaimedBy(newest[f], w) = ClaimedBy(row[f], w)
    <3>1. CASE lock[f] = NoWorker
      BY <1>1, <2>1, <3>1 DEF ExclusiveInv, AttemptsInv, AttemptsColumn
    <3>2. CASE lock[f] = w
      <4>1. WrittenBy(w, f)
        BY <1>0, <3>2 DEF WrittenInv
      <4>2. row[f] \in Row
        BY <1>0
      <4>3. Abandoned(row[f]).status = "FAILED"
        BY <4>2 DEF Abandoned, Row
      <4>4. newest[f] = Requeued(row[f]) /\ row[f].attempts < MaxAttempts
        BY <2>1, <4>1, <4>3 DEF WrittenBy
      <4> QED
        BY <4>2, <4>4, ClaimOfRequeued
    <3> QED
      BY <2>1, <3>1, <3>2
  <2>3. /\ row' = row /\ newest'[f] = ClaimedBy(row[f], w)
        /\ \A e \in Executions : e # f => newest'[e] = newest[e]
    BY <1>0, <1>6, <2>2, ClaimEffect
  <2>4. WrittenBy(w, f)' /\ lock'[f] = w
    <3>1. phase'[w] = "committing" /\ job'[w].exec = f /\ lock'[f] = w
      BY <1>0, <2>1
    <3> QED
      BY <2>2, <2>3, <3>1 DEF WrittenBy
  <2>5. ASSUME NEW e \in Executions PROVE Good(e)'
    <3>1. CASE e = f
      <4>1. row[f].status # "absent" \/ row[f] = AbsentRow
        BY DEF WrittenInv
      <4> QED
        BY <2>3, <2>4, <3>1, <4>1
    <3>2. CASE e # f
      <4>1. \A v \in Workers : phase[v] = "committing" => phase'[v] = phase[v] /\ job'[v] = job[v]
        BY <1>0, <2>1
      <4>2. lock'[e] = lock[e]
        BY <1>0, <2>1, <3>2
      <4> QED
        BY <1>2, <2>3, <3>2, <4>1, <4>2, WrittenSame
    <3> QED
      BY <3>1, <3>2
  <2> QED
    BY <2>5 DEF WrittenInv
<1>7. ASSUME NEW w \in Workers, Rollback(w) PROVE WrittenInv'
  <2>1. /\ row' = row
        /\ \A e \in Executions : lock'[e] # NoWorker => lock'[e] = lock[e] /\ lock[e] # w
        /\ \A e \in Executions : newest'[e] = IF lock[e] = w THEN row[e] ELSE newest[e]
        /\ \A v \in Workers : v # w => phase'[v] = phase[v] /\ job'[v] = job[v]
    BY <1>0, <1>7 DEF Rollback
  <2>2. ASSUME NEW e \in Executions PROVE Good(e)'
    <3>1. CASE lock[e] = w
      BY <2>1, <3>1 DEF WrittenInv
    <3>2. CASE lock[e] # w
      BY <1>2, <2>1, <3>2, WrittenSame
    <3> QED
      BY <3>1, <3>2
  <2> QED
    BY <2>2 DEF WrittenInv
<1>8. ASSUME NEW w \in Workers, NEW delivered \in BOOLEAN, LeaseCommit(w, delivered)
      PROVE  WrittenInv'
  <2>1. /\ newest' = newest
        /\ \A e \in Executions : lock'[e] # NoWorker => lock'[e] = lock[e] /\ lock[e] # w
        /\ \A e \in Executions : row'[e] = IF lock[e] = w THEN newest[e] ELSE row[e]
        /\ \A e \in Executions : lock[e] = w => lock'[e] = NoWorker
        /\ \A v \in Workers : v # w => phase'[v] = phase[v] /\ job'[v] = job[v]
    BY <1>0, <1>8 DEF LeaseCommit
  <2>2. ASSUME NEW e \in Executions PROVE Good(e)'
    <3>1. CASE lock[e] = w
      <4>1. WrittenBy(w, e) /\ row[e] \in Row
        BY <1>0, <3>1 DEF WrittenInv
      <4>2. /\ Requeued(row[e]).status = "QUEUED" /\ Abandoned(row[e]).status = "FAILED"
            /\ ClaimedBy(row[e], w).status = "RUNNING"
        BY <4>1 DEF Requeued, Abandoned, ClaimedBy, Row
      <4>3. newest[e].status # "absent"
        BY <4>1, <4>2 DEF WrittenBy
      <4> QED
        BY <2>1, <3>1, <4>3
    <3>2. CASE lock[e] # w
      BY <1>2, <2>1, <3>2, WrittenSame
    <3> QED
      BY <3>1, <3>2
  <2> QED
    BY <2>2 DEF WrittenInv
<1>9. ASSUME NEW h \in reports, ReportRecord(h) PROVE WrittenInv'
  <2>1. /\ h.exec \in Executions /\ row'[h.exec].status # "absent" /\ lock[h.exec] = NoWorker
        /\ \A e \in Executions : e # h.exec => row'[e] = row[e] /\ newest'[e] = newest[e]
    BY <1>0, <1>9, RecordEffect DEF Terminal
  <2>2. lock' = lock /\ \A v \in Workers : phase[v] = "committing" => phase'[v] = phase[v] /\ job'[v] = job[v]
    BY <1>0, <1>9 DEF ReportRecord, Answered, BackTo
  <2>3. ASSUME NEW e \in Executions PROVE Good(e)'
    <3>1. CASE e = h.exec
      BY <2>1, <2>2, <3>1
    <3>2. CASE e # h.exec
      BY <1>2, <2>1, <2>2, <3>2, WrittenSame
    <3> QED
      BY <3>1, <3>2
  <2> QED
    BY <2>3 DEF WrittenInv
<1>10. ASSUME NEW w \in Workers, WorkerNext(w) PROVE WrittenInv'
  <2>1. /\ UNCHANGED <<row, newest, lock>>
        /\ \A v \in Workers : phase[v] = "committing" => phase'[v] = phase[v] /\ job'[v] = job[v]
    BY <1>0, <1>10 DEF WorkerNext, Abandon, Crash, ReportCheck, BackTo
  <2> QED
    BY <1>3, <2>1
<1>11. ASSUME NEW w \in Workers, LeaseScan(w) \/ FlushDone(w) \/ ClaimNothing(w) PROVE WrittenInv'
  <2>1. /\ UNCHANGED <<row, newest, lock>>
        /\ \A v \in Workers : phase[v] = "committing" => phase'[v] = phase[v] /\ job'[v] = job[v]
    BY <1>0, <1>11 DEF LeaseScan, FlushDone, ClaimNothing
  <2> QED
    BY <1>3, <2>1
<1>12. ASSUME NEW h \in reports, ReportUpload(h) \/ ReportDiscard(h) \/ HandlerCrash(h)
       PROVE  WrittenInv'
  <2>1. /\ UNCHANGED <<row, newest, lock>>
        /\ \A v \in Workers : phase[v] = "committing" => phase'[v] = phase[v] /\ job'[v] = job[v]
    BY <1>0, <1>12 DEF ReportUpload, ReportDiscard, HandlerCrash, Answered, BackTo
  <2> QED
    BY <1>3, <2>1
<1>13. CASE UNCHANGED vars
  BY <1>3, <1>13 DEF vars
<1>14. ASSUME NEW w \in Workers, LeaseNext(w) PROVE WrittenInv'
  BY <1>5, <1>6, <1>7, <1>8, <1>11, <1>14 DEF LeaseNext, FlushRefused, LeaseAbort
<1> QED
  BY <1>4, <1>9, <1>10, <1>12, <1>13, <1>14 DEF Next, ReportNext

\* Every step of the transactions is a step of the atomic queue, or none.
LEMMA QueueStep ==
  ASSUME TypeOK', ExclusiveInv, HandlerInv, WrittenInv, [Next]_vars
  PROVE  [Queue!Next]_row
<1>0. /\ TypeOK /\ LockInv /\ row \in [Executions -> Row]
      /\ row' \in [Executions -> {row'[e] : e \in Executions}]
  BY DEF ExclusiveInv, TypeOK
<1>1. ASSUME NEW f \in Executions, Queue!Step(f),
             \A e \in Executions : e # f => row'[e] = row[e]
      PROVE  Queue!Next
  BY <1>0, <1>1 DEF Queue!Next
<1>2. ASSUME NEW f \in Executions, Enqueue(f) PROVE Queue!Next
  <2>1. row[f] = AbsentRow
    BY <1>2 DEF Enqueue, WrittenInv
  <2>2. row'[f] = [row[f] EXCEPT !.status = "QUEUED"] /\ \A e \in Executions : e # f => row'[e] = row[e]
    BY <1>0, <1>2 DEF Enqueue
  <2>3. Queue!Submit(f)
    BY <2>1, <2>2 DEF Queue!Submit, Queue!Unclaimed, AbsentRow
  <2> QED
    BY <1>1, <2>2, <2>3 DEF Queue!Step
<1>3. ASSUME NEW f \in Executions, Expire(f) PROVE Queue!Next
  <2>1. /\ row'[f] = [row[f] EXCEPT !.lease = "expired"]
        /\ \A e \in Executions : e # f => row'[e] = row[e]
    BY <1>0, <1>3 DEF Expire
  <2>2. Queue!Lapse(f)
    BY <1>3, <2>1 DEF Queue!Lapse, Expire
  <2> QED
    BY <1>1, <2>1, <2>2 DEF Queue!Step
<1>4. ASSUME NEW h \in reports, ReportRecord(h) PROVE Queue!Next
  <2>1. /\ h.exec \in Executions /\ row[h.exec].status = "RUNNING"
        /\ row[h.exec].leased_by = h.worker /\ h.status \in Verdicts
        /\ row'[h.exec] = Reported(row[h.exec], h.status, h.attempt)
        /\ \A e \in Executions : e # h.exec => row'[e] = row[e]
    BY <1>0, <1>4, RecordEffect
  <2>2. row[h.exec].attempts = h.attempt
    BY <2>1 DEF HandlerInv, Holds
  <2>3. Queue!Settle(h.exec)
    BY <2>1, <2>2 DEF Queue!Settle, Reported
  <2> QED
    BY <1>1, <2>1, <2>3 DEF Queue!Step
<1>5. ASSUME NEW w \in Workers, NEW delivered \in BOOLEAN, LeaseCommit(w, delivered)
      PROVE  Queue!Next
  <2>1. \A e \in Executions : row'[e] = IF lock[e] = w THEN newest[e] ELSE row[e]
    BY <1>5 DEF LeaseCommit
  <2>2. \A e \in Executions : lock[e] = w => WrittenBy(w, e) /\ Queue!Free(row[e])
    BY LeaseAssumption DEF WrittenInv, ExclusiveInv, LockedInv, Queue!Free
  <2>3. ASSUME NEW e \in Executions, lock[e] = w
        PROVE  \/ Queue!GiveBack(e) \/ Queue!GiveUp(e)
               \/ Queue!Take(w, e) /\ job[w].exec = e
    <3>1. row'[e] = newest[e] /\ WrittenBy(w, e) /\ Queue!Free(row[e])
      BY <2>1, <2>2, <2>3
    <3>2. CASE row[e].attempts < MaxAttempts /\ newest[e] = Requeued(row[e])
      BY <3>1, <3>2 DEF Queue!GiveBack, Requeued
    <3>3. CASE row[e].attempts >= MaxAttempts /\ row[e].status = "RUNNING" /\ newest[e] = Abandoned(row[e])
      BY <3>1, <3>3 DEF Queue!GiveUp, Queue!Free, Abandoned
    <3>4. CASE row[e].attempts < MaxAttempts /\ newest[e] = ClaimedBy(row[e], w) /\ job[w].exec = e
      BY <3>1, <3>4 DEF Queue!Take, ClaimedBy
    <3> QED
      BY <3>1, <3>2, <3>3, <3>4 DEF WrittenBy
  <2>4. CASE \E x \in Executions : Queue!Take(w, x) /\ job[w].exec = x
    <3>1. PICK x \in Executions : Queue!Take(w, x) /\ job[w].exec = x
      BY <2>4
    <3>2. \A e \in Executions \ {x} : Queue!GiveBack(e) \/ Queue!GiveUp(e) \/ row'[e] = row[e]
      BY <2>1, <2>3, <3>1
    <3> QED
      BY <1>0, <3>1, <3>2 DEF Queue!Next
  <2>5. CASE ~\E x \in Executions : Queue!Take(w, x) /\ job[w].exec = x
    <3>1. \A e \in Executions : Queue!GiveBack(e) \/ Queue!GiveUp(e) \/ row'[e] = row[e]
      BY <2>1, <2>3, <2>5
    <3> QED
      BY <1>0, <3>1 DEF Queue!Next, Queue!Step
  <2> QED
    BY <2>4, <2>5
<1>6. ASSUME NEW w \in Workers, LeaseNext(w) \/ WorkerNext(w) PROVE [Queue!Next]_row
  BY <1>5, <1>6
  DEF LeaseNext, WorkerNext, LeaseScan, FlushRow, FlushRefused, FlushDone, Claim,
      ClaimNothing, LeaseAbort, Rollback, Abandon, Crash, ReportCheck
<1>7. ASSUME NEW h \in reports, ReportNext(h) PROVE [Queue!Next]_row
  BY <1>4, <1>7 DEF ReportNext, ReportUpload, ReportDiscard, HandlerCrash
<1> QED
  BY <1>2, <1>3, <1>6, <1>7 DEF Next, vars

\* QueueSpec, for one API key and ids that die with their process: every
\* behaviour of the transactions is one of the atomic queue.
THEOREM ImplementsQueue == OneKey /\ Mortal => (Spec => QueueSpec)
<1>1. Init => Queue!Init /\ WrittenInv
  BY DEF Init, Queue!Init, Queue!Unclaimed, AbsentRow, WrittenInv
<1> SUFFICES ASSUME OneKey, Mortal PROVE Spec => QueueSpec
  OBVIOUS
<1>2. Spec => []ExclusiveInv
  BY ExclusiveCorrect
<1>3. Spec => [](TypeOK /\ LockInv /\ RecordInv /\ MortalInv)
  BY MortalCorrect
<1>4. ExclusiveInv /\ WrittenInv /\ [Next]_vars => WrittenInv'
  BY WrittenStep
<1>5. TypeOK' /\ ExclusiveInv /\ MortalInv /\ WrittenInv /\ [Next]_vars => [Queue!Next]_row
  BY QueueStep DEF MortalInv
<1> QED
  BY <1>1, <1>2, <1>3, <1>4, <1>5, PTL DEF Spec, QueueSpec, Queue!Spec

=============================================================================
