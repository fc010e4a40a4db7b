------------------------------ MODULE Runtime ------------------------------
(***************************************************************************)
(* What happens between a claim and its report: the worker's loop, the     *)
(* result cache and the two sandbox runtimes, docker_oci and e2b.          *)
(*                                                                         *)
(* Each docker command is one step, which succeeds, fails with a status of *)
(* its own, or hangs until its time is up. What a failure means depends on *)
(* where it happens and on the runtime: the worker cannot run the artifact *)
(* (RuntimeUnavailable, nothing is reported), the artifact failed (any     *)
(* other exception), or it does not matter. The workers share a host: its  *)
(* containers, whose names are those of the executions, and its firewall.  *)
(***************************************************************************)
EXTENDS Naturals, Sequences, FiniteSets, SequencesExt

CONSTANTS
  NumJobs,      \* executions
  Keys,         \* computations, told apart by cache_key
  Networked,    \* those of an Experience that declares that it needs the network
  Workers,
  Nobody,
  Caching,      \* the workers started with BOOBS_EXEC_CACHE=1
  Capacity,     \* of their caches
  NumRules,     \* how many egress_rules() there are
  MaxAttempts,  \* leases.MAX_ATTEMPTS
  MaxStrikes,   \* MAX_RUNTIME_FAILURES
  MaxFaults     \* bound on everything that goes wrong

ASSUME RuntimeAssumption ==
  /\ Networked \subseteq Keys /\ Caching \subseteq Workers
  /\ Nobody \notin Workers /\ NumJobs \in Nat /\ NumRules \in Nat \ {0}
  /\ Capacity \in Nat \ {0} /\ MaxAttempts \in Nat \ {0} /\ MaxStrikes \in Nat \ {0}
  /\ MaxFaults \in Nat

\* In created_at order.
Jobs == 1..NumJobs
Rules == 1..NumRules

VARIABLES
  kind,     \* BOOBS_RUNTIME of each worker
  key,      \* what each execution computes
  job,      \* what the API knows of each execution
  phase,    \* where each worker is in its loop
  task,     \* the execution it is working on, and which attempt at it
  result,   \* what has come of it
  hung,     \* whether the command it is waiting for will never end
  strikes,  \* consecutive_failures
  entries,  \* the cache, least recently used first
  todo,     \* the first rule it has still to check, or 0
  boxes,    \* the sandboxes that exist
  rules,    \* the rules that are installed
  flushed,  \* (auxiliary) rules removed since each worker began to check them
  seen,     \* (auxiliary) what became of each attempt at a job
  orphans,  \* (auxiliary) the sandboxes whose removal was prevented
  faults    \* (auxiliary) how much has gone wrong

api == <<kind, key, job>>
loop == <<phase, task, result, hung, strikes>>
host == <<boxes, rules, flushed, todo>>
history == <<seen, orphans, faults>>
vars == <<api, loop, entries, host, history>>

-----------------------------------------------------------------------------

NoTask == [job |-> 0, attempt |-> 0]
Tasks == [job: Jobs, attempt: 1..MaxAttempts]

\* A SandboxResult, or the exception in its place. code stands for exit_code.
Result(status, code) == [status |-> status, code |-> code, cached |-> FALSE]
NoResult == Result("none", "none")
Unavailable == Result("unavailable", "none")
Failure == Result("FAILED", "none")
Results == [status: {"none", "unavailable", "SUCCEEDED", "FAILED", "TIMEOUT"},
            code: {"none", "zero", "nonzero"}, cached: BOOLEAN]

JobRows == [status: {"queued", "leased", "settled", "abandoned"}, attempts: 0..MaxAttempts,
            holder: Workers \cup {Nobody}, result: Results]

Before == {"pull", "network", "filter", "template", "create"}
Inside == {"copyin", "run", "kill", "copyout"}
Phases == {"idle", "lookup", "clean", "over", "gone"} \cup Before \cup Inside

ApiTypeOK == kind \in [Workers -> {"docker", "e2b"}] /\ key \in [Jobs -> Keys] /\ job \in [Jobs -> JobRows]

LoopTypeOK ==
  /\ phase \in [Workers -> Phases] /\ task \in [Workers -> Tasks \cup {NoTask}]
  /\ result \in [Workers -> Results] /\ hung \in [Workers -> BOOLEAN]
  /\ strikes \in [Workers -> 0..MaxStrikes]

CacheTypeOK == entries \in [Workers -> Seq(Keys)] /\ \A w \in Workers : Len(entries[w]) <= Capacity

HostTypeOK ==
  /\ boxes \subseteq Tasks /\ todo \in [Workers -> Rules \cup {0}]
  /\ rules \subseteq Rules /\ flushed \in [Workers -> SUBSET Rules]

HistoryTypeOK ==
  /\ seen \subseteq Tasks \X {"zero", "nonzero", "timeout", "trouble"}
  /\ orphans \subseteq Tasks /\ faults \in 0..MaxFaults

TypeOK == ApiTypeOK /\ LoopTypeOK /\ CacheTypeOK /\ HostTypeOK /\ HistoryTypeOK

Init ==
  /\ kind \in [Workers -> {"docker", "e2b"}] /\ key \in [Jobs -> Keys]
  /\ job = [j \in Jobs |-> [status |-> "queued", attempts |-> 0, holder |-> Nobody, result |-> NoResult]]
  /\ phase = [w \in Workers |-> "idle"] /\ task = [w \in Workers |-> NoTask]
  /\ result = [w \in Workers |-> NoResult] /\ hung = [w \in Workers |-> FALSE]
  /\ strikes = [w \in Workers |-> 0] /\ entries = [w \in Workers |-> <<>>]
  /\ todo = [w \in Workers |-> 0] /\ boxes = {} /\ rules = {}
  /\ flushed = [w \in Workers |-> {}] /\ seen = {} /\ orphans = {} /\ faults = 0

At(w, p) == phase[w] = p /\ ~hung[w]
Goes(w, p) == phase' = [phase EXCEPT ![w] = p]
Becomes(w, r) == result' = [result EXCEPT ![w] = r]
MayFail == faults < MaxFaults /\ faults' = faults + 1
Noted(w, what) == seen' = seen \cup {<<task[w], what>>}

-----------------------------------------------------------------------------
(* The queue, as a worker meets it. Lease has it in detail.                *)

\* POST /worker/lease: the oldest first.
Lease(w, j) ==
  /\ At(w, "idle") /\ job[j].status = "queued"
  /\ \A i \in Jobs : job[i].status = "queued" => j <= i
  /\ job' = [job EXCEPT ![j].status = "leased", ![j].holder = w, ![j].attempts = @ + 1]
  /\ task' = [task EXCEPT ![w] = [job |-> j, attempt |-> job[j].attempts + 1]]
  /\ Becomes(w, NoResult) /\ Goes(w, "lookup")
  /\ UNCHANGED <<kind, key, hung, strikes, entries, host, history>>

\* A lease runs out: of a job nobody works on any more, or under a worker's feet.
Lapse(j) ==
  /\ job[j].status = "leased"
  /\ IF task[job[j].holder] = [job |-> j, attempt |-> job[j].attempts]
     THEN MayFail ELSE UNCHANGED faults
  /\ \E w \in Workers : phase[w] = "idle"  \* only a lease request reclaims
  /\ job' = [job EXCEPT ![j].holder = Nobody,
                        ![j].status = IF job[j].attempts >= MaxAttempts THEN "abandoned" ELSE "queued"]
  /\ UNCHANGED <<kind, key, loop, entries, host, seen, orphans>>

-----------------------------------------------------------------------------
(* CachingRuntime.                                                         *)

Without(s, k) == IF k \in Range(s) THEN RemoveAt(s, CHOOSE i \in DOMAIN s : s[i] = k) ELSE s
Touched(s, k) == Append(Without(s, k), k)

\* Where the runtime that was chosen starts.
FirstPhase(w) == IF kind[w] = "docker" THEN "pull" ELSE "template"

Hit(w) == w \in Caching /\ key[task[w].job] \in Range(entries[w])

LookUp(w) ==
  /\ At(w, "lookup")
  /\ IF Hit(w)
     THEN /\ entries' = [entries EXCEPT ![w] = Touched(@, key[task[w].job])]
          /\ Becomes(w, [Result("SUCCEEDED", "zero") EXCEPT !.cached = TRUE])
          /\ Goes(w, "over")
     ELSE Goes(w, FirstPhase(w)) /\ UNCHANGED <<entries, result>>
  /\ UNCHANGED <<api, task, hung, strikes, host, history>>

\* Variant: a cache that takes whatever the runtime returned.
RememberedAnything(w, r) ==
  IF w \in Caching /\ r.status # "unavailable"
  THEN LET longer == Touched(entries[w], key[task[w].job])
       IN  IF Len(longer) > Capacity THEN Tail(longer) ELSE longer
  ELSE entries[w]

\* Only a success is remembered, and the least recently used goes first.
Remembered(w, r) ==
  IF w \in Caching /\ r.status = "SUCCEEDED"
  THEN LET longer == Touched(entries[w], key[task[w].job])
       IN  IF Len(longer) > Capacity THEN Tail(longer) ELSE longer
  ELSE entries[w]

-----------------------------------------------------------------------------
(* The sandbox, when nothing goes wrong.                                   *)

Docker(w) == kind[w] = "docker"
Network(w) == key[task[w].job] \in Networked

Pull(w) ==
  /\ At(w, "pull")
  /\ Goes(w, IF Network(w) THEN "network" ELSE "create")
  /\ UNCHANGED <<api, task, result, hung, strikes, entries, host, history>>

\* Inspected before every networked run, and created when it is not there.
EnsureNetwork(w) ==
  /\ At(w, "network")
  /\ todo' = [todo EXCEPT ![w] = 1]
  /\ flushed' = [flushed EXCEPT ![w] = {}]
  /\ Goes(w, "filter")
  /\ UNCHANGED <<api, task, result, hung, strikes, entries, boxes, rules, history>>

\* Variant: the first rule found means that all of them are there.
EnsureFilterByOne(w) ==
  /\ At(w, "filter")
  /\ rules' = rules \cup (IF 1 \in rules THEN {} ELSE Rules)
  /\ todo' = [todo EXCEPT ![w] = 0]
  /\ Goes(w, "create")
  /\ UNCHANGED <<api, task, result, hung, strikes, entries, boxes, flushed, history>>

\* Each rule is looked for, and inserted when it is missing.
EnsureFilter(w) ==
  /\ At(w, "filter")
  /\ rules' = rules \cup {todo[w]}
  /\ todo' = [todo EXCEPT ![w] = IF @ = NumRules THEN 0 ELSE @ + 1]
  /\ Goes(w, IF todo[w] = NumRules THEN "create" ELSE "filter")
  /\ UNCHANGED <<api, task, result, hung, strikes, entries, boxes, flushed, history>>

\* E2B cannot keep an artifact off the network; it refuses those that must be.
Template(w) ==
  /\ At(w, "template")
  /\ IF Network(w) THEN Goes(w, "create") /\ UNCHANGED result
                   ELSE Goes(w, "over") /\ Becomes(w, Unavailable)
  /\ UNCHANGED <<api, task, hung, strikes, entries, host, history>>

\* A container's name is its execution's: docker refuses a second one.
NameTaken(w) == Docker(w) /\ \E b \in boxes : b.job = task[w].job

Create(w) ==
  /\ At(w, "create")
  /\ IF NameTaken(w)
     THEN Goes(w, "over") /\ Becomes(w, Unavailable) /\ UNCHANGED boxes
     ELSE Goes(w, "copyin") /\ boxes' = boxes \cup {task[w]} /\ UNCHANGED result
  /\ UNCHANGED <<api, task, hung, strikes, entries, rules, flushed, todo, history>>

CopyIn(w) ==
  /\ At(w, "copyin")
  /\ Goes(w, "run")
  /\ UNCHANGED <<api, task, result, hung, strikes, entries, host, history>>

\* The artifact ends, or its time is up. Docker has to kill it.
Run(w, exit) ==
  /\ At(w, "run")
  /\ Noted(w, exit)
  /\ \/ exit = "zero" /\ Goes(w, "copyout") /\ Becomes(w, Result("SUCCEEDED", "zero"))
     \/ exit = "nonzero" /\ Goes(w, "clean") /\ Becomes(w, Result("FAILED", "nonzero"))
     \/ exit = "timeout" /\ Goes(w, IF Docker(w) THEN "kill" ELSE "clean")
                         /\ Becomes(w, Result("TIMEOUT", "none"))
  /\ flushed' = [flushed EXCEPT ![w] = {}]
  /\ UNCHANGED <<api, task, hung, strikes, entries, boxes, rules, todo, orphans, faults>>

Kill(w) ==
  /\ At(w, "kill")
  /\ Goes(w, "clean")
  /\ UNCHANGED <<api, task, result, hung, strikes, entries, host, history>>

CopyOut(w) ==
  /\ At(w, "copyout")
  /\ Goes(w, "clean")
  /\ UNCHANGED <<api, task, result, hung, strikes, entries, host, history>>

\* The finally clause, and what the cache makes of a result that came through.
Clean(w) ==
  /\ At(w, "clean")
  /\ boxes' = boxes \ {task[w]}
  /\ entries' = [entries EXCEPT ![w] = Remembered(w, result[w])]
  /\ Goes(w, "over")
  /\ UNCHANGED <<api, task, result, hung, strikes, rules, flushed, todo, history>>

-----------------------------------------------------------------------------
(* The sandbox, when something does.                                       *)

\* Variant: the try block that begins after the inputs are in.
RaisedToUntried(p) == IF p \in Before \cup {"copyin"} THEN "over" ELSE "clean"

\* What an exception passes on its way out: the finally clause, or nothing.
RaisedTo(p) == IF p \in Before THEN "over" ELSE "clean"

\* docker reports a failure: RuntimeUnavailable, but a container that does not
\* start has an exit status too, and nobody minds kill, cp - and rm failing.
\* E2B's exceptions are nobody's: only a missing credential is Unavailable.
MadeOfFailure(w) ==
  IF Docker(w)
  THEN CASE phase[w] \in Before \cup {"copyin"} -> {Unavailable}
         [] phase[w] = "run" -> {Result("FAILED", "nonzero")}
         [] OTHER -> {result[w]}
  ELSE IF phase[w] \in Before THEN {Unavailable, Failure} ELSE {Failure}

\* What the code cannot tell from a failure of the artifact.
Mistaken(w, r) == r.status = "FAILED" /\ (Docker(w) => phase[w] = "run")

\* A command ends with an error, before the artifact has run or after.
Fails(w) ==
  /\ phase[w] \in Before \cup Inside /\ ~hung[w]
  /\ MayFail
  /\ \E r \in MadeOfFailure(w) : /\ Becomes(w, r)
                                 /\ IF Mistaken(w, r) THEN Noted(w, "trouble") ELSE UNCHANGED seen
  /\ Goes(w, RaisedTo(phase[w]))
  /\ UNCHANGED <<api, task, hung, strikes, entries, host, orphans>>

\* rm fails, or E2B's kill does: the result stands, and so does the sandbox.
CleanFails(w) ==
  /\ At(w, "clean") /\ MayFail
  /\ orphans' = orphans \cup {task[w]}
  /\ entries' = [entries EXCEPT ![w] = Remembered(w, result[w])]
  /\ Goes(w, "over")
  /\ UNCHANGED <<api, task, result, hung, strikes, host, seen>>

\* A docker command that does not answer. iptables has its own way out.
Hangs(w) ==
  /\ Docker(w) /\ ~hung[w]
  /\ phase[w] \in (Before \ {"filter"}) \cup (Inside \ {"run"}) \cup {"clean"}
  /\ MayFail
  /\ hung' = [hung EXCEPT ![w] = TRUE]
  /\ UNCHANGED <<api, phase, task, result, strikes, entries, host, seen, orphans>>

\* Variant: copying the inputs has no time limit.
TimesOutButCopies(w) ==
  /\ hung[w] /\ phase[w] # "copyin"
  /\ hung' = [hung EXCEPT ![w] = FALSE]
  /\ Becomes(w, Failure) /\ Noted(w, "trouble")
  /\ orphans' = orphans \cup (IF phase[w] \in {"create", "clean"} THEN {task[w]} ELSE {})
  /\ \/ UNCHANGED boxes
     \/ phase[w] = "create" /\ ~NameTaken(w) /\ boxes' = boxes \cup {task[w]}
     \/ phase[w] = "clean" /\ boxes' = boxes \ {task[w]}
  /\ Goes(w, IF phase[w] = "clean" THEN "over" ELSE RaisedTo(phase[w]))
  /\ UNCHANGED <<api, task, strikes, entries, rules, flushed, todo, faults>>

\* The client is killed and TimeoutError raised, in the finally clause in the
\* place of whatever was on its way. The daemon may have done the work.
TimesOut(w) ==
  /\ hung[w]
  /\ hung' = [hung EXCEPT ![w] = FALSE]
  /\ Becomes(w, Failure) /\ Noted(w, "trouble")
  /\ orphans' = orphans \cup (IF phase[w] \in {"create", "clean"} THEN {task[w]} ELSE {})
  /\ \/ UNCHANGED boxes
     \/ phase[w] = "create" /\ ~NameTaken(w) /\ boxes' = boxes \cup {task[w]}
     \/ phase[w] = "clean" /\ boxes' = boxes \ {task[w]}
  /\ Goes(w, IF phase[w] = "clean" THEN "over" ELSE RaisedTo(phase[w]))
  /\ UNCHANGED <<api, task, strikes, entries, rules, flushed, todo, faults>>

\* The process ends, in a report that cannot be sent or anywhere, and is
\* started again: with an empty cache, and whatever it ran still there.
Dies(w) ==
  /\ phase[w] \notin {"idle", "gone"} /\ MayFail
  /\ orphans' = orphans \cup ({task[w]} \cap boxes)
  /\ Goes(w, "idle") /\ Becomes(w, NoResult)
  /\ task' = [task EXCEPT ![w] = NoTask] /\ hung' = [hung EXCEPT ![w] = FALSE]
  /\ strikes' = [strikes EXCEPT ![w] = 0] /\ entries' = [entries EXCEPT ![w] = <<>>]
  /\ todo' = [todo EXCEPT ![w] = 0] /\ flushed' = [flushed EXCEPT ![w] = {}]
  /\ UNCHANGED <<api, boxes, rules, seen>>

Filtering(w) == phase[w] \in {"filter", "create", "copyin", "run"} /\ Docker(w) /\ Network(w)

\* Something on the host removes a rule.
Flush(r) ==
  /\ r \in rules /\ MayFail
  /\ rules' = rules \ {r}
  /\ flushed' = [w \in Workers |-> IF Filtering(w) THEN flushed[w] \cup {r} ELSE {}]
  /\ UNCHANGED <<api, loop, entries, boxes, todo, seen, orphans>>

-----------------------------------------------------------------------------
(* The worker's loop, after the run.                                       *)

Done(w, next) ==
  /\ Goes(w, next) /\ Becomes(w, NoResult)
  /\ task' = [task EXCEPT ![w] = NoTask]
  /\ todo' = [todo EXCEPT ![w] = 0] /\ flushed' = [flushed EXCEPT ![w] = {}]
  /\ UNCHANGED <<kind, key, hung, entries, boxes, rules, history>>

\* Report nothing; the third time in a row, leave the pool.
Abandon(w) ==
  /\ At(w, "over") /\ result[w].status = "unavailable"
  /\ strikes' = [strikes EXCEPT ![w] = @ + 1]
  /\ Done(w, IF strikes[w] + 1 >= MaxStrikes THEN "gone" ELSE "idle")
  /\ UNCHANGED job

\* The API takes the report of the holder of a running job, and no other.
Report(w) ==
  /\ At(w, "over") /\ result[w].status # "unavailable"
  /\ LET j == task[w].job
     IN  IF job[j].status = "leased" /\ job[j].holder = w
         THEN job' = [job EXCEPT ![j].status = "settled", ![j].result = result[w]]
         ELSE UNCHANGED job
  /\ strikes' = [strikes EXCEPT ![w] = 0]
  /\ Done(w, "idle")

-----------------------------------------------------------------------------

Works(w) ==
  \/ LookUp(w) \/ Pull(w) \/ EnsureNetwork(w) \/ EnsureFilter(w) \/ Template(w) \/ Create(w)
  \/ CopyIn(w) \/ (\E exit \in {"zero", "nonzero", "timeout"} : Run(w, exit))
  \/ Kill(w) \/ CopyOut(w) \/ Clean(w) \/ TimesOut(w) \/ Abandon(w) \/ Report(w)

Trouble(w) == Fails(w) \/ CleanFails(w) \/ Hangs(w) \/ Dies(w)

Next ==
  \/ \E w \in Workers : Works(w) \/ Trouble(w) \/ (\E j \in Jobs : Lease(w, j))
  \/ \E j \in Jobs : Lapse(j)
  \/ \E r \in Rules : Flush(r)

\* Workers poll and go on, and leases run out. Nothing has to go wrong.
Fairness ==
  /\ \A w \in Workers : WF_vars(Works(w))
  /\ WF_vars(\E w \in Workers, j \in Jobs : Lease(w, j))
  /\ \A j \in Jobs : WF_vars(Lapse(j))

Spec == Init /\ [][Next]_vars /\ Fairness

-----------------------------------------------------------------------------
(* What holds at every step, and the properties below rest on.             *)

Attempt(j) == [job |-> j, attempt |-> job[j].attempts]

\* A worker has a task while it is in its loop, and waits only for commands.
LoopInv ==
  \A w \in Workers :
    /\ task[w] = NoTask <=> phase[w] \in {"idle", "gone"}
    /\ phase[w] # "gone" => strikes[w] < MaxStrikes
    /\ hung[w] => phase[w] \in Before \cup Inside \cup {"clean"}
    /\ phase[w] = "filter" => todo[w] \in Rules

\* No task is two workers', or of an attempt that has not been made, and
\* nothing has been seen of one; and a job that a worker holds and works on is
\* the attempt it works on.
AttemptInv ==
  /\ \A w \in Workers : task[w] # NoTask => task[w].attempt <= job[task[w].job].attempts
  /\ \A v, w \in Workers : task[v] = task[w] /\ v # w => task[w] = NoTask
  /\ \A s \in seen : s[1].attempt <= job[s[1].job].attempts
  /\ \A j \in Jobs :
       /\ job[j].status = "queued" => job[j].attempts < MaxAttempts
       /\ job[j].status = "leased" =>
            /\ job[j].holder \in Workers
            /\ task[job[j].holder].job = j => task[job[j].holder] = Attempt(j)

TaskInv == LoopInv /\ AttemptInv

\* What was looked for is there, or was removed since.
FilterInv ==
  \A w \in Workers : task[w] # NoTask /\ Docker(w) /\ Network(w) =>
    /\ phase[w] # "template"
    /\ phase[w] = "filter" => \A r \in Rules : r < todo[w] => r \in rules \cup flushed[w]
    /\ phase[w] \in {"create", "copyin", "run"} => Rules \subseteq rules \cup flushed[w]

\* What a result says of the attempt it is about, in a worker or on record.
Earned(r, t) ==
  /\ r.status = "SUCCEEDED" /\ ~r.cached => <<t, "zero">> \in seen
  /\ r.status = "TIMEOUT" => <<t, "timeout">> \in seen
  /\ r.status = "FAILED" => <<t, "nonzero">> \in seen \/ <<t, "trouble">> \in seen
  /\ r.cached => \E s \in seen : s[1] # t /\ key[s[1].job] = key[t.job] /\ s[2] = "zero"

\* Results are earned, on the way and on record; what is in a cache has run;
\* and nothing of an attempt has been seen that is still to be looked up.
ResultInv ==
  /\ \A w \in Workers :
       /\ task[w] # NoTask => Earned(result[w], task[w])
       /\ phase[w] \notin {"kill", "copyout", "clean", "over"} => result[w].status = "none" /\ ~result[w].cached
       /\ phase[w] \in {"kill", "copyout", "clean"} => ~result[w].cached
       /\ phase[w] = "lookup" => \A s \in seen : s[1] # task[w]
       /\ \A k \in Range(entries[w]) : \E s \in seen : key[s[1].job] = k /\ s[2] = "zero"
  /\ \A j \in Jobs : IF job[j].status = "settled" THEN Earned(job[j].result, Attempt(j))
                                                 ELSE ~job[j].result.cached

-----------------------------------------------------------------------------
(* Properties.                                                             *)

Settled(j, status) == job[j].status = "settled" /\ job[j].result.status = status

\* A success or a time-out on record is what the artifact did on the attempt
\* it is recorded for, and a replay is the success of an earlier run of the
\* same computation: no cache, no clean-up and no attempt that came before or
\* is still going on elsewhere stands in for it. A worker that cannot run an
\* artifact never has that recorded against it: a failure on record is an exit
\* status the artifact returned, or one of the three exceptions the code makes
\* of it without having asked: a container that did not start, a docker command
\* that timed out, an error of E2B.
ReportedAsItRan ==
  \A j \in Jobs :
    /\ Settled(j, "SUCCEEDED") /\ ~job[j].result.cached => <<Attempt(j), "zero">> \in seen
    /\ Settled(j, "TIMEOUT") => <<Attempt(j), "timeout">> \in seen
    /\ job[j].result.cached =>
         \E s \in seen : s[1] # Attempt(j) /\ key[s[1].job] = key[j] /\ s[2] = "zero"
    /\ Settled(j, "FAILED") =>
         <<Attempt(j), "nonzero">> \in seen \/ <<Attempt(j), "trouble">> \in seen

\* Every sandbox is somebody's, or one whose removal was prevented: whatever
\* is raised inside, the finally clause is on its way.
NothingLeftBehind ==
  \A b \in boxes \ orphans : \E w \in Workers : task[w] = b /\ phase[w] \in Inside \cup {"clean"}

\* An artifact that asked for the network never starts on a host without the
\* filter, except for rules removed after the worker set out to check them.
NetworkedOnlyFiltered ==
  \A w \in Workers : phase[w] = "run" /\ Docker(w) /\ Network(w) => Rules \subseteq rules \cup flushed[w]

\* Whatever hangs, fails or dies, every job is settled or given up in the end,
\* unless nobody is left in the pool.
EverythingEnds ==
  <>[](\/ \A j \in Jobs : job[j].status \in {"settled", "abandoned"}
       \/ \A w \in Workers : phase[w] = "gone")

=============================================================================
