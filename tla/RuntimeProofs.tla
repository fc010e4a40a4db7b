--------------------------- MODULE RuntimeProofs ---------------------------
(***************************************************************************)
(* Proofs about Runtime for any number of workers, jobs, computations,     *)
(* rules, attempts and faults.                                             *)
(***************************************************************************)
EXTENDS Runtime, SequenceTheorems, TLAPS

-----------------------------------------------------------------------------
(* The cache.                                                              *)

\* Taking the i-th entry out of a sequence leaves the others.
LEMMA OneOut ==
  ASSUME NEW s \in Seq(Keys), NEW i \in 1..Len(s)
  PROVE  /\ RemoveAt(s, i) \in Seq(Keys) /\ Len(RemoveAt(s, i)) = Len(s) - 1
         /\ Range(RemoveAt(s, i)) \subseteq Range(s)
<1> DEFINE a == SubSeq(s, 1, i - 1)
           b == SubSeq(s, i + 1, Len(s))
<1>1. a \in Seq(Keys) /\ Len(a) = i - 1
  OBVIOUS
<1>2. b \in Seq(Keys) /\ Len(b) = Len(s) - i
  OBVIOUS
<1>3. Range(a) \subseteq Range(s)
  BY DEF Range
<1>4. Range(b) \subseteq Range(s)
  BY DEF Range
<1>5. RemoveAt(s, i) = a \o b
  BY DEF RemoveAt
<1> HIDE DEF a, b
<1>6. a \o b \in Seq(Keys) /\ Len(a \o b) = Len(s) - 1
  BY <1>1, <1>2
<1>7. Range(a \o b) = Range(a) \cup Range(b)
  BY <1>1, <1>2, RangeConcatenation
<1> QED
  BY <1>3, <1>4, <1>5, <1>6, <1>7

\* Without k, a cache is a cache, and one entry shorter when it had k.
LEMMA WithoutOne ==
  ASSUME NEW s \in Seq(Keys), NEW k \in Keys
  PROVE  /\ Without(s, k) \in Seq(Keys)
         /\ Range(Without(s, k)) \subseteq Range(s)
         /\ Len(Without(s, k)) = IF k \in Range(s) THEN Len(s) - 1 ELSE Len(s)
<1>1. CASE k \notin Range(s)
  BY <1>1 DEF Without
<1>2. CASE k \in Range(s)
  <2> DEFINE i == CHOOSE i \in DOMAIN s : s[i] = k
  <2>1. i \in 1..Len(s)
    BY <1>2 DEF Range
  <2>2. Without(s, k) = RemoveAt(s, i)
    BY <1>2 DEF Without
  <2> HIDE DEF i
  <2> QED
    BY <1>2, <2>1, <2>2, OneOut
<1> QED
  BY <1>1, <1>2

\* Touching k makes it the last entry; the cache grows by one when it was new.
LEMMA TouchedOne ==
  ASSUME NEW s \in Seq(Keys), NEW k \in Keys
  PROVE  /\ Touched(s, k) \in Seq(Keys)
         /\ Range(Touched(s, k)) \subseteq Range(s) \cup {k}
         /\ Len(Touched(s, k)) = IF k \in Range(s) THEN Len(s) ELSE Len(s) + 1
<1> DEFINE a == Without(s, k)
<1>1. a \in Seq(Keys) /\ Range(a) \subseteq Range(s) /\ Len(a) = IF k \in Range(s) THEN Len(s) - 1 ELSE Len(s)
  BY WithoutOne
<1>2. Touched(s, k) = Append(a, k)
  BY DEF Touched
<1> HIDE DEF a
<1>3. Append(a, k) \in Seq(Keys) /\ Len(Append(a, k)) = Len(a) + 1
  BY <1>1
<1>4. ASSUME NEW n \in 1..Len(Append(a, k)) PROVE Append(a, k)[n] \in Range(a) \cup {k}
  BY <1>1, <1>3 DEF Range
<1>5. Range(Append(a, k)) \subseteq Range(a) \cup {k}
  BY <1>3, <1>4 DEF Range
<1> QED
  BY <1>1, <1>2, <1>3, <1>5

\* What a clean-up leaves in a cache is what was there, and what has just
\* succeeded; and never more than it holds.
LEMMA RememberedOne ==
  ASSUME TypeOK, NEW w \in Workers, NEW r \in Results, task[w] \in Tasks
  PROVE  /\ Remembered(w, r) \in Seq(Keys) /\ Len(Remembered(w, r)) <= Capacity
         /\ \A k \in Range(Remembered(w, r)) :
              k \in Range(entries[w]) \/ (k = key[task[w].job] /\ r.status = "SUCCEEDED")
<1>1. entries[w] \in Seq(Keys) /\ Len(entries[w]) <= Capacity /\ Capacity \in Nat \ {0}
  BY RuntimeAssumption DEF TypeOK, CacheTypeOK
<1>2. CASE ~(w \in Caching /\ r.status = "SUCCEEDED")
  BY <1>1, <1>2 DEF Remembered
<1>3. CASE w \in Caching /\ r.status = "SUCCEEDED"
  <2> DEFINE s == entries[w]
             k == key[task[w].job]
             a == Touched(s, k)
  <2>1. key[task[w].job] \in Keys
    BY DEF TypeOK, ApiTypeOK, Tasks
  <2>2. Remembered(w, r) = IF Len(a) > Capacity THEN Tail(a) ELSE a
    BY <1>3 DEF Remembered
  <2>3. s \in Seq(Keys) /\ k \in Keys /\ Len(s) \in Nat /\ Len(s) <= Capacity
    BY <1>1, <2>1
  <2> HIDE DEF s, k
  <2>4. a \in Seq(Keys) /\ Range(a) \subseteq Range(s) \cup {k} /\ Len(a) <= Len(s) + 1
    BY <2>3, TouchedOne
  <2> HIDE DEF a
  <2>5. Len(a) > Capacity =>
          Tail(a) \in Seq(Keys) /\ Len(Tail(a)) = Len(a) - 1 /\ Range(Tail(a)) \subseteq Range(a)
    <3> SUFFICES ASSUME Len(a) > Capacity
                 PROVE  Tail(a) \in Seq(Keys) /\ Len(Tail(a)) = Len(a) - 1 /\ Range(Tail(a)) \subseteq Range(a)
      OBVIOUS
    <3>1. a \in Seq(Keys) /\ a # <<>>
      BY <1>1, <2>4
    <3> QED
      BY <3>1 DEF Range
  <2>6. /\ Remembered(w, r) \in Seq(Keys) /\ Len(Remembered(w, r)) <= Capacity
        /\ Range(Remembered(w, r)) \subseteq Range(s) \cup {k}
    BY <1>1, <2>2, <2>3, <2>4, <2>5
  <2> QED
    BY <1>3, <2>6 DEF s, k
<1> QED
  BY <1>2, <1>3

-----------------------------------------------------------------------------
(* Type correctness, and who has which task.                               *)

\* Whatever the runtimes return is a result.
LEMMA ResultTypes ==
  /\ NoResult \in Results /\ Unavailable \in Results /\ Failure \in Results
  /\ \A status \in {"SUCCEEDED", "FAILED", "TIMEOUT"}, code \in {"none", "zero", "nonzero"} :
       Result(status, code) \in Results
  /\ [Result("SUCCEEDED", "zero") EXCEPT !.cached = TRUE] \in Results
  BY DEF NoResult, Unavailable, Failure, Result, Results

\* A worker that is in its loop has a task.
LEMMA Working ==
  ASSUME TypeOK, TaskInv, NEW w \in Workers, phase[w] \notin {"idle", "gone"}
  PROVE  task[w] \in Tasks /\ task[w].job \in Jobs /\ key[task[w].job] \in Keys /\ strikes[w] < MaxStrikes
BY DEF TypeOK, ApiTypeOK, LoopTypeOK, TaskInv, LoopInv, AttemptInv, Tasks

\* What the queue writes over a row is again a row.
LEMMA RowTypes ==
  ASSUME NEW row \in JobRows
  PROVE  /\ \A w \in Workers : row.attempts < MaxAttempts =>
              [row EXCEPT !.status = "leased", !.holder = w, !.attempts = @ + 1] \in JobRows
         /\ \A to \in {"queued", "abandoned"} : [row EXCEPT !.holder = Nobody, !.status = to] \in JobRows
         /\ \A r \in Results : [row EXCEPT !.status = "settled", !.result = r] \in JobRows
<1>1. ASSUME NEW w \in Workers, row.attempts < MaxAttempts
      PROVE  [row EXCEPT !.status = "leased", !.holder = w, !.attempts = @ + 1] \in JobRows
  <2> DEFINE n == row.attempts + 1
  <2>1. n \in 0..MaxAttempts
    BY <1>1, RuntimeAssumption DEF JobRows
  <2> HIDE DEF n
  <2>2. [row EXCEPT !.status = "leased", !.holder = w, !.attempts = n] \in JobRows
    BY <2>1 DEF JobRows
  <2> QED
    BY <2>2 DEF n
<1>2. \A to \in {"queued", "abandoned"} : [row EXCEPT !.holder = Nobody, !.status = to] \in JobRows
  BY DEF JobRows
<1>3. \A r \in Results : [row EXCEPT !.status = "settled", !.result = r] \in JobRows
  BY DEF JobRows
<1> QED
  BY <1>1, <1>2, <1>3

\* A new state of one cache leaves all of them caches.
LEMMA EntriesTypes ==
  ASSUME TypeOK, NEW w \in Workers, NEW s \in Seq(Keys), Len(s) <= Capacity,
         entries' = [entries EXCEPT ![w] = s]
  PROVE  entries' \in [Workers -> Seq(Keys)] /\ \A v \in Workers : Len(entries'[v]) <= Capacity
BY DEF TypeOK, CacheTypeOK

\* A worker notes what came of its own task.
LEMMA NotedTypes ==
  ASSUME TypeOK, NEW w \in Workers, task[w] \in Tasks,
         NEW what \in {"zero", "nonzero", "timeout", "trouble"}, Noted(w, what)
  PROVE  seen' \subseteq Tasks \X {"zero", "nonzero", "timeout", "trouble"}
BY DEF TypeOK, HistoryTypeOK, Noted

\* What a failure makes of the result is a result, and it leads on.
LEMMA FailureTypes ==
  ASSUME TypeOK, NEW w \in Workers, phase[w] \in Before \cup Inside
  PROVE  MadeOfFailure(w) \subseteq Results /\ RaisedTo(phase[w]) \in {"over", "clean"}
<1>1. MadeOfFailure(w) \subseteq {Unavailable, Failure, Result("FAILED", "nonzero"), result[w]}
  BY DEF MadeOfFailure
<1> QED
  BY <1>1, ResultTypes DEF TypeOK, LoopTypeOK, RaisedTo

\* The queue's types.
LEMMA ApiStep == TypeOK /\ TaskInv /\ [Next]_vars => ApiTypeOK'
<1> SUFFICES ASSUME TypeOK, TaskInv, [Next]_vars PROVE ApiTypeOK'
  OBVIOUS
<1> USE DEF ApiTypeOK
<1>1. CASE UNCHANGED api
  BY <1>1 DEF api, TypeOK
<1>2. ASSUME NEW w \in Workers, NEW j \in Jobs, Lease(w, j) PROVE ApiTypeOK'
  <2>1. job[j] \in JobRows /\ job[j].attempts < MaxAttempts
    BY <1>2 DEF TypeOK, Lease, TaskInv, LoopInv, AttemptInv
  <2>2. [job[j] EXCEPT !.status = "leased", !.holder = w, !.attempts = @ + 1] \in JobRows
    BY <2>1, RowTypes
  <2> QED
    BY <1>2, <2>2 DEF TypeOK, Lease
<1>3. ASSUME NEW j \in Jobs, Lapse(j) PROVE ApiTypeOK'
  <2> DEFINE to == IF job[j].attempts >= MaxAttempts THEN "abandoned" ELSE "queued"
  <2>1. job[j] \in JobRows /\ to \in {"queued", "abandoned"}
    BY DEF TypeOK
  <2>2. job' = [job EXCEPT ![j] = [job[j] EXCEPT !.holder = Nobody, !.status = to]]
    BY <1>3 DEF Lapse, TypeOK
  <2> HIDE DEF to
  <2>3. [job[j] EXCEPT !.holder = Nobody, !.status = to] \in JobRows
    BY <2>1, RowTypes
  <2> QED
    BY <1>3, <2>2, <2>3, ZenonT(30) DEF TypeOK, Lapse
<1>4. ASSUME NEW w \in Workers, Report(w) PROVE ApiTypeOK'
  <2>1. task[w].job \in Jobs /\ job[task[w].job] \in JobRows /\ result[w] \in Results
    BY <1>4, Working DEF TypeOK, LoopTypeOK, Report, At
  <2>2. [job[task[w].job] EXCEPT !.status = "settled", !.result = result[w]] \in JobRows
    BY <2>1, RowTypes
  <2> QED
    BY <1>4, <2>1, <2>2 DEF TypeOK, Report, Done
<1>5. ASSUME NEW w \in Workers, Abandon(w) PROVE ApiTypeOK'
  BY <1>5 DEF TypeOK, Abandon, Done
<1> QED
  BY <1>1, <1>2, <1>3, <1>4, <1>5
  DEF Next, Works, Trouble, LookUp, Pull, EnsureNetwork, EnsureFilter, Template, Create, CopyIn, Run,
      Kill, CopyOut, Clean, TimesOut, Fails, CleanFails, Hangs, Dies, Flush, vars

\* The workers' types: each step moves one worker, if any.
LEMMA LoopStep == TypeOK /\ TaskInv /\ [Next]_vars => LoopTypeOK'
<1> SUFFICES ASSUME TypeOK, TaskInv, [Next]_vars PROVE LoopTypeOK'
  OBVIOUS
<1> USE RuntimeAssumption, ResultTypes DEF LoopTypeOK, At, Goes, Becomes
<1>1. CASE UNCHANGED loop
  BY <1>1 DEF loop, TypeOK
<1>2. ASSUME NEW w \in Workers, NEW j \in Jobs, Lease(w, j) PROVE LoopTypeOK'
  <2>1. job[j] \in JobRows /\ job[j].attempts < MaxAttempts
    BY <1>2 DEF TypeOK, ApiTypeOK, Lease, TaskInv, LoopInv, AttemptInv
  <2> DEFINE n == job[j].attempts + 1
  <2>2. [job |-> j, attempt |-> n] \in Tasks
    BY <2>1 DEF Tasks, JobRows
  <2>3. task' \in [Workers -> Tasks \cup {NoTask}]
    BY <1>2, <2>2 DEF TypeOK, Lease
  <2> QED
    BY <1>2, <2>3 DEF TypeOK, Lease, Phases
<1>3. ASSUME NEW w \in Workers, NEW p \in Phases, NEW r \in Results,
             Goes(w, p), Becomes(w, r), UNCHANGED <<task, hung, strikes>>
      PROVE  LoopTypeOK'
  BY <1>3 DEF TypeOK
<1>4. ASSUME NEW w \in Workers, NEW p \in Phases, Goes(w, p), UNCHANGED <<task, result, hung, strikes>>
      PROVE  LoopTypeOK'
  BY <1>4 DEF TypeOK
<1>5. ASSUME NEW w \in Workers, LookUp(w) \/ Template(w) \/ Create(w) PROVE LoopTypeOK'
  <2>1. "over" \in Phases /\ FirstPhase(w) \in Phases /\ "create" \in Phases /\ "copyin" \in Phases
    BY DEF Phases, FirstPhase, Before, Inside
  <2> QED
    BY <1>3, <1>4, <1>5, <2>1 DEF LookUp, Template, Create
<1>6. ASSUME NEW w \in Workers, Pull(w) \/ EnsureNetwork(w) \/ EnsureFilter(w) PROVE LoopTypeOK'
  <2>1. "network" \in Phases /\ "filter" \in Phases /\ "create" \in Phases
    BY DEF Phases, Before
  <2> QED
    BY <1>4, <1>6, <2>1 DEF Pull, EnsureNetwork, EnsureFilter
<1>7. ASSUME NEW w \in Workers, CopyIn(w) \/ Kill(w) \/ CopyOut(w) \/ Clean(w) \/ CleanFails(w) PROVE LoopTypeOK'
  <2>1. "run" \in Phases /\ "clean" \in Phases /\ "over" \in Phases
    BY DEF Phases, Inside
  <2> QED
    BY <1>4, <1>7, <2>1 DEF CopyIn, Kill, CopyOut, Clean, CleanFails
<1>8. ASSUME NEW w \in Workers, NEW exit \in {"zero", "nonzero", "timeout"}, Run(w, exit) PROVE LoopTypeOK'
  <2>1. {"copyout", "clean", "kill"} \subseteq Phases
    BY DEF Phases, Inside
  <2> QED
    BY <1>3, <1>8, <2>1 DEF Run
<1>9. ASSUME NEW w \in Workers, Fails(w) PROVE LoopTypeOK'
  <2>1. MadeOfFailure(w) \subseteq Results /\ RaisedTo(phase[w]) \in Phases
    BY <1>9, FailureTypes DEF Fails, Phases
  <2> QED
    BY <1>3, <1>9, <2>1 DEF Fails
<1>10. ASSUME NEW w \in Workers, Hangs(w) PROVE LoopTypeOK'
  BY <1>10 DEF Hangs, TypeOK
<1>11. ASSUME NEW w \in Workers, TimesOut(w) PROVE LoopTypeOK'
  <2> DEFINE p == IF phase[w] = "clean" THEN "over" ELSE RaisedTo(phase[w])
  <2>1. p \in Phases
    BY DEF RaisedTo, Phases
  <2>2. phase' = [phase EXCEPT ![w] = p]
    BY <1>11 DEF TimesOut
  <2> HIDE DEF p
  <2> QED
    BY <1>11, <2>1, <2>2 DEF TimesOut, TypeOK
<1>12. ASSUME NEW w \in Workers, Dies(w) PROVE LoopTypeOK'
  BY <1>12 DEF Dies, TypeOK, Phases
<1>13. ASSUME NEW w \in Workers, Abandon(w) PROVE LoopTypeOK'
  <2> DEFINE n == strikes[w] + 1
  <2>1. n \in 0..MaxStrikes
    BY <1>13, Working DEF Abandon, TypeOK
  <2>2. strikes' = [strikes EXCEPT ![w] = n]
    BY <1>13 DEF Abandon
  <2> HIDE DEF n
  <2>3. strikes' \in [Workers -> 0..MaxStrikes]
    BY <2>1, <2>2 DEF TypeOK
  <2>4. phase' \in [Workers -> Phases]
    BY <1>13 DEF Abandon, Done, TypeOK, Phases
  <2> QED
    BY <1>13, <2>3, <2>4 DEF Abandon, Done, TypeOK
<1>14. ASSUME NEW w \in Workers, Report(w) PROVE LoopTypeOK'
  BY <1>14 DEF Report, Done, TypeOK, Phases
<1>15. ASSUME NEW j \in Jobs, Lapse(j) PROVE LoopTypeOK'
  BY <1>1, <1>15 DEF Lapse
<1>16. ASSUME NEW r \in Rules, Flush(r) PROVE LoopTypeOK'
  BY <1>1, <1>16 DEF Flush
<1>17. CASE UNCHANGED vars
  BY <1>1, <1>17 DEF vars
<1> HIDE DEF LoopTypeOK, At, Goes, Becomes
<1> QED
  BY <1>2, <1>5, <1>6, <1>7, <1>8, <1>9, <1>10, <1>11, <1>12, <1>13, <1>14, <1>15, <1>16, <1>17
  DEF Next, Works, Trouble

\* The caches' types: they never hold more than they may.
LEMMA CacheStep == TypeOK /\ TaskInv /\ [Next]_vars => CacheTypeOK'
<1> SUFFICES ASSUME TypeOK, TaskInv, [Next]_vars PROVE CacheTypeOK'
  OBVIOUS
<1>1. CASE UNCHANGED entries
  BY <1>1 DEF CacheTypeOK, TypeOK
<1>2. ASSUME NEW w \in Workers, NEW s \in Seq(Keys), Len(s) <= Capacity, entries' = [entries EXCEPT ![w] = s]
      PROVE  CacheTypeOK'
  BY <1>2, EntriesTypes DEF CacheTypeOK
<1>3. ASSUME NEW w \in Workers, LookUp(w) PROVE CacheTypeOK'
  <2>1. CASE Hit(w)
    <3>1. entries[w] \in Seq(Keys) /\ Len(entries[w]) <= Capacity /\ key[task[w].job] \in Range(entries[w])
      BY <2>1 DEF Hit, TypeOK, CacheTypeOK
    <3>2. key[task[w].job] \in Keys
      BY <1>3, Working DEF LookUp, At
    <3>3. Touched(entries[w], key[task[w].job]) \in Seq(Keys)
      BY <3>1, <3>2, TouchedOne
    <3>4. Len(Touched(entries[w], key[task[w].job])) = Len(entries[w])
      BY <3>1, <3>2, TouchedOne
    <3> QED
      BY <1>2, <1>3, <2>1, <3>1, <3>3, <3>4 DEF LookUp
  <2>2. CASE ~Hit(w)
    BY <1>1, <1>3, <2>2 DEF LookUp
  <2> QED
    BY <2>1, <2>2
<1>4. ASSUME NEW w \in Workers, Clean(w) \/ CleanFails(w) PROVE CacheTypeOK'
  <2>1. task[w] \in Tasks /\ result[w] \in Results
    BY <1>4, Working DEF Clean, CleanFails, At, TypeOK, LoopTypeOK
  <2>2. Remembered(w, result[w]) \in Seq(Keys) /\ Len(Remembered(w, result[w])) <= Capacity
    BY <2>1, RememberedOne
  <2> QED
    BY <1>2, <1>4, <2>2 DEF Clean, CleanFails
<1>5. ASSUME NEW w \in Workers, Dies(w) PROVE CacheTypeOK'
  <2>1. <<>> \in Seq(Keys) /\ Len(<<>>) <= Capacity
    BY RuntimeAssumption
  <2> QED
    BY <1>2, <1>5, <2>1 DEF Dies
<1> QED
  BY <1>1, <1>3, <1>4, <1>5
  DEF Next, Works, Trouble, Lease, Lapse, Pull, EnsureNetwork, EnsureFilter, Template, Create, CopyIn, Run,
      Kill, CopyOut, TimesOut, Fails, Hangs, Flush, Abandon, Report, Done, vars

\* The host's types.
LEMMA HostStep == TypeOK /\ TaskInv /\ [Next]_vars => HostTypeOK'
<1> SUFFICES ASSUME TypeOK, TaskInv, [Next]_vars PROVE HostTypeOK'
  OBVIOUS
<1> USE RuntimeAssumption DEF HostTypeOK
<1>1. CASE UNCHANGED host
  BY <1>1 DEF host, TypeOK
<1>2. ASSUME NEW w \in Workers, EnsureNetwork(w) PROVE HostTypeOK'
  BY <1>2 DEF EnsureNetwork, Rules, TypeOK
<1>3. ASSUME NEW w \in Workers, EnsureFilter(w) PROVE HostTypeOK'
  <2>1. todo[w] \in Rules
    BY <1>3 DEF EnsureFilter, At, TaskInv, LoopInv, AttemptInv
  <2> DEFINE n == IF todo[w] = NumRules THEN 0 ELSE todo[w] + 1
  <2>2. n \in Rules \cup {0}
    BY <2>1 DEF Rules
  <2>3. todo' = [todo EXCEPT ![w] = n]
    BY <1>3 DEF EnsureFilter
  <2> HIDE DEF n
  <2> QED
    BY <1>3, <2>1, <2>2, <2>3 DEF EnsureFilter, TypeOK
<1>4. ASSUME NEW w \in Workers, Create(w) \/ TimesOut(w) PROVE HostTypeOK'
  <2>1. task[w] \in Tasks
    BY <1>4, Working DEF Create, TimesOut, At, TaskInv, LoopInv, AttemptInv, Before, Inside
  <2> QED
    BY <1>4, <2>1 DEF Create, TimesOut, TypeOK
<1>5. ASSUME NEW w \in Workers, (\E exit \in {"zero", "nonzero", "timeout"} : Run(w, exit)) \/ Clean(w) \/ Dies(w)
      PROVE  HostTypeOK'
  BY <1>5 DEF Run, Clean, Dies, TypeOK
<1>6. ASSUME NEW r \in Rules, Flush(r) PROVE HostTypeOK'
  BY <1>6 DEF Flush, TypeOK
<1>7. ASSUME NEW w \in Workers, Abandon(w) \/ Report(w) PROVE HostTypeOK'
  BY <1>7 DEF Abandon, Report, Done, TypeOK
<1> HIDE DEF HostTypeOK
<1> QED
  BY <1>1, <1>2, <1>3, <1>4, <1>5, <1>6, <1>7
  DEF Next, Works, Trouble, Lease, Lapse, LookUp, Pull, Template, CopyIn, Kill, CopyOut, Fails, CleanFails,
      Hangs, vars

\* The history's types.
LEMMA HistoryStep == TypeOK /\ TaskInv /\ [Next]_vars => HistoryTypeOK'
<1> SUFFICES ASSUME TypeOK, TaskInv, [Next]_vars PROVE HistoryTypeOK'
  OBVIOUS
<1> USE RuntimeAssumption DEF HistoryTypeOK
<1>1. CASE UNCHANGED history
  BY <1>1 DEF history, TypeOK
<1>2. ASSUME MayFail PROVE faults' \in 0..MaxFaults
  BY <1>2 DEF MayFail, TypeOK
<1>3. ASSUME NEW j \in Jobs, Lapse(j) PROVE HistoryTypeOK'
  BY <1>2, <1>3 DEF Lapse, TypeOK
<1>4. ASSUME NEW w \in Workers, NEW exit \in {"zero", "nonzero", "timeout"}, Run(w, exit) PROVE HistoryTypeOK'
  <2>1. task[w] \in Tasks
    BY <1>4, Working DEF Run, At
  <2> QED
    BY <1>4, <2>1, NotedTypes DEF Run, TypeOK
<1>5. ASSUME NEW w \in Workers, Fails(w) PROVE HistoryTypeOK'
  <2>1. task[w] \in Tasks
    BY <1>5, Working DEF Fails, Before, Inside
  <2>2. seen' \subseteq Tasks \X {"zero", "nonzero", "timeout", "trouble"}
    BY <1>5, <2>1, NotedTypes DEF Fails, TypeOK
  <2> QED
    BY <1>2, <1>5, <2>2 DEF Fails, TypeOK
<1>6. ASSUME NEW w \in Workers, CleanFails(w) \/ Hangs(w) PROVE HistoryTypeOK'
  <2>1. task[w] \in Tasks
    BY <1>6, Working DEF CleanFails, Hangs, At, Before, Inside
  <2> QED
    BY <1>2, <1>6, <2>1 DEF CleanFails, Hangs, TypeOK
<1>7. ASSUME NEW w \in Workers, TimesOut(w) PROVE HistoryTypeOK'
  <2>1. task[w] \in Tasks
    BY <1>7, Working DEF TimesOut, TaskInv, LoopInv, AttemptInv, Before, Inside
  <2> QED
    BY <1>7, <2>1, NotedTypes DEF TimesOut, TypeOK
<1>8. ASSUME NEW w \in Workers, Dies(w) PROVE HistoryTypeOK'
  <2>1. task[w] \in Tasks
    BY <1>8, Working DEF Dies
  <2> QED
    BY <1>2, <1>8, <2>1 DEF Dies, TypeOK
<1>9. ASSUME NEW r \in Rules, Flush(r) PROVE HistoryTypeOK'
  BY <1>2, <1>9 DEF Flush, TypeOK
<1> HIDE DEF HistoryTypeOK
<1> QED
  BY <1>1, <1>3, <1>4, <1>5, <1>6, <1>7, <1>8, <1>9
  DEF Next, Works, Trouble, Lease, LookUp, Pull, EnsureNetwork, EnsureFilter, Template, Create, CopyIn,
      Kill, CopyOut, Clean, Abandon, Report, Done, vars

\* Every action keeps the types.
LEMMA TypeStep == TypeOK /\ TaskInv /\ [Next]_vars => TypeOK'
BY ApiStep, LoopStep, CacheStep, HostStep, HistoryStep DEF TypeOK

\* A worker that goes on with its task, hanging or not, or noting nothing.
LEMMA LoopInvStep == TypeOK /\ TaskInv /\ [Next]_vars => LoopInv'
<1> SUFFICES ASSUME TypeOK, TaskInv, [Next]_vars PROVE LoopInv'
  OBVIOUS
<1> USE DEF LoopInv, At, Goes, TypeOK, LoopTypeOK
<1>1. CASE UNCHANGED <<loop, todo>>
  BY <1>1 DEF loop, TaskInv
<1>2. ASSUME NEW w \in Workers, NEW j \in Jobs, Lease(w, j) PROVE LoopInv'
  BY <1>2 DEF Lease, TaskInv, NoTask, Jobs, host
<1>3. ASSUME NEW w \in Workers, NEW p \in {"pull", "network", "template", "create", "copyin", "run", "kill",
                                          "copyout", "clean", "over"},
             ~hung[w], phase[w] \notin {"idle", "gone"}, phase' = [phase EXCEPT ![w] = p],
             UNCHANGED <<task, hung, strikes>>, \A v \in Workers \ {w} : todo'[v] = todo[v]
      PROVE  LoopInv'
  BY <1>3 DEF TaskInv
<1>4. ASSUME NEW w \in Workers, LookUp(w) \/ Pull(w) \/ Template(w) \/ Create(w) \/ CopyIn(w) \/ Kill(w)
                                \/ CopyOut(w) \/ Clean(w) \/ CleanFails(w)
      PROVE  LoopInv'
  <2>1. /\ ~hung[w] /\ phase[w] \notin {"idle", "gone"} /\ UNCHANGED <<task, hung, strikes, todo>>
        /\ \E p \in {"pull", "network", "template", "create", "copyin", "run", "kill", "copyout", "clean", "over"} :
             phase' = [phase EXCEPT ![w] = p]
    BY <1>4 DEF LookUp, FirstPhase, Pull, Template, Create, CopyIn, Kill, CopyOut, Clean, CleanFails, host
  <2> QED
    BY <1>3, <2>1
<1>5. ASSUME NEW w \in Workers, EnsureNetwork(w) PROVE LoopInv'
  BY <1>5, RuntimeAssumption DEF EnsureNetwork, TaskInv, Rules, HostTypeOK, Before
<1>6. ASSUME NEW w \in Workers, EnsureFilter(w) PROVE LoopInv'
  <2>1. CASE todo[w] = NumRules
    BY <1>3, <1>6, <2>1 DEF EnsureFilter, HostTypeOK
  <2>2. CASE todo[w] # NumRules
    <3>1. phase' = phase
      BY <1>6, <2>2 DEF EnsureFilter
    <3>2. todo[w] + 1 \in Rules
      BY <1>6, <2>2, RuntimeAssumption DEF EnsureFilter, TaskInv, Rules
    <3>3. todo'[w] \in Rules /\ \A v \in Workers \ {w} : todo'[v] = todo[v]
      BY <1>6, <2>2, <3>2 DEF EnsureFilter, HostTypeOK
    <3> QED
      BY <1>6, <3>1, <3>3 DEF EnsureFilter, TaskInv
  <2> QED
    BY <2>1, <2>2
<1>7. ASSUME NEW w \in Workers, NEW exit \in {"zero", "nonzero", "timeout"}, Run(w, exit) PROVE LoopInv'
  <2>1. /\ ~hung[w] /\ phase[w] \notin {"idle", "gone"} /\ UNCHANGED <<task, hung, strikes, todo>>
        /\ \E p \in {"kill", "copyout", "clean"} : phase' = [phase EXCEPT ![w] = p]
    BY <1>7 DEF Run
  <2> QED
    BY <1>3, <2>1
<1>8. ASSUME NEW w \in Workers, Fails(w) PROVE LoopInv'
  <2>1. RaisedTo(phase[w]) \in {"clean", "over"} /\ phase[w] \notin {"idle", "gone"}
    BY <1>8 DEF Fails, RaisedTo, Before, Inside
  <2> QED
    BY <1>3, <1>8, <2>1 DEF Fails, host
<1>9. ASSUME NEW w \in Workers, Hangs(w) PROVE LoopInv'
  BY <1>9 DEF Hangs, TaskInv, host
<1>10. ASSUME NEW w \in Workers, TimesOut(w) PROVE LoopInv'
  <2> DEFINE p == IF phase[w] = "clean" THEN "over" ELSE RaisedTo(phase[w])
  <2>1. p \in {"clean", "over"}
    BY DEF RaisedTo
  <2>2. phase' = [phase EXCEPT ![w] = p]
    BY <1>10 DEF TimesOut
  <2>3. phase[w] \notin {"idle", "gone"}
    BY <1>10 DEF TimesOut, TaskInv, Before, Inside
  <2> HIDE DEF p
  <2> QED
    BY <1>10, <2>1, <2>2, <2>3 DEF TimesOut, TaskInv
<1>11. ASSUME NEW w \in Workers, Dies(w) PROVE LoopInv'
  BY <1>11, RuntimeAssumption DEF Dies, TaskInv, HostTypeOK
<1>12. ASSUME NEW w \in Workers, Abandon(w) \/ Report(w) PROVE LoopInv'
  <2>1. ~hung[w] /\ UNCHANGED hung /\ task' = [task EXCEPT ![w] = NoTask] /\ todo' = [todo EXCEPT ![w] = 0]
    BY <1>12 DEF Abandon, Report, Done
  <2>2. phase' = [phase EXCEPT ![w] = "idle"] \/ phase' = [phase EXCEPT ![w] = "gone"]
    BY <1>12 DEF Abandon, Report, Done
  <2>3. phase'[w] # "gone" => strikes'[w] < MaxStrikes
    BY <1>12, RuntimeAssumption DEF Abandon, Report, Done
  <2>4. \A v \in Workers \ {w} : strikes'[v] = strikes[v] /\ todo'[v] = todo[v]
    BY <1>12, <2>1 DEF Abandon, Report, HostTypeOK
  <2> QED
    BY <2>1, <2>2, <2>3, <2>4 DEF TaskInv
<1>13. ASSUME NEW j \in Jobs, Lapse(j) PROVE LoopInv'
  BY <1>1, <1>13 DEF Lapse, host
<1>14. ASSUME NEW r \in Rules, Flush(r) PROVE LoopInv'
  BY <1>1, <1>14 DEF Flush
<1>15. CASE UNCHANGED vars
  BY <1>1, <1>15 DEF vars, host
<1> HIDE DEF LoopInv, At, Goes, TypeOK, LoopTypeOK
<1> QED
  BY <1>2, <1>4, <1>5, <1>6, <1>7, <1>8, <1>9, <1>10, <1>11, <1>12, <1>13, <1>14, <1>15
  DEF Next, Works, Trouble

\* While the queue stays as it is, workers may only go on with their tasks or
\* drop them, and note what came of them.
LEMMA AttemptKept ==
  ASSUME TypeOK, AttemptInv, UNCHANGED job,
         \A v \in Workers : task'[v] = task[v] \/ task'[v] = NoTask,
         \A s \in seen' : s \in seen \/ \E v \in Workers : s[1] = task[v] /\ task[v] # NoTask
  PROVE  AttemptInv'
<1>1. \A w \in Workers : task'[w] # NoTask => task'[w].attempt <= job'[task'[w].job].attempts
  BY DEF AttemptInv
<1>2. \A v, w \in Workers : task'[v] = task'[w] /\ v # w => task'[w] = NoTask
  BY DEF AttemptInv
<1>3. \A s \in seen' : s[1].attempt <= job'[s[1].job].attempts
  BY DEF AttemptInv
<1>4. ASSUME NEW j \in Jobs, job'[j].status = "leased"
      PROVE  /\ job'[j].holder \in Workers
             /\ task'[job'[j].holder].job = j => task'[job'[j].holder] = Attempt(j)'
  BY <1>4 DEF AttemptInv, Attempt, NoTask, Jobs
<1>5. \A j \in Jobs : job'[j].status = "queued" => job'[j].attempts < MaxAttempts
  BY DEF AttemptInv
<1> QED
  BY <1>1, <1>2, <1>3, <1>4, <1>5 DEF AttemptInv

\* No attempt is had twice, nor taken from the worker that has it.
LEMMA AttemptInvStep == TypeOK /\ TaskInv /\ [Next]_vars => AttemptInv'
<1> SUFFICES ASSUME TypeOK, TaskInv, [Next]_vars PROVE AttemptInv'
  OBVIOUS
<1>0. AttemptInv
  BY DEF TaskInv
<1>1. CASE UNCHANGED <<job, task, seen>>
  BY <1>0, <1>1, AttemptKept
<1>2. ASSUME NEW w \in Workers, NEW j \in Jobs, Lease(w, j) PROVE AttemptInv'
  <2> DEFINE n == job[j].attempts + 1
             t == [job |-> j, attempt |-> n]
  <2>1. /\ job[j] \in JobRows /\ job[j].attempts \in Nat /\ job[j].attempts < MaxAttempts
        /\ job[j].status = "queued" /\ task[w] = NoTask
    BY <1>0, <1>2 DEF TypeOK, ApiTypeOK, JobRows, Lease, At, AttemptInv, TaskInv, LoopInv
  <2>2. task' = [task EXCEPT ![w] = t] /\ task \in [Workers -> Tasks \cup {NoTask}] /\ seen' = seen
    BY <1>2 DEF Lease, TypeOK, LoopTypeOK, history
  <2>3. /\ \A i \in Jobs \ {j} : job'[i] = job[i]
        /\ job'[j].status = "leased" /\ job'[j].holder = w /\ job'[j].attempts = n
    BY <1>2, <2>1 DEF Lease, TypeOK, ApiTypeOK, JobRows
  <2>4. n \in Nat /\ n > job[j].attempts /\ t.attempt = n /\ t.job = j /\ t # NoTask
    BY <2>1 DEF NoTask, Jobs
  <2>5. \A v \in Workers : task[v] # t
    BY <1>0, <2>1, <2>4 DEF AttemptInv
  <2>6. \A i \in Jobs : job[i].attempts \in Nat
    BY DEF TypeOK, ApiTypeOK, JobRows
  <2> HIDE DEF t, n
  <2>7. \A v \in Workers : task'[v] # NoTask => task'[v].attempt <= job'[task'[v].job].attempts
    <3> SUFFICES ASSUME NEW v \in Workers, task'[v] # NoTask PROVE task'[v].attempt <= job'[task'[v].job].attempts
      OBVIOUS
    <3>1. CASE v = w
      BY <2>2, <2>3, <2>4, <3>1
    <3>2. CASE v # w
      <4>1. task'[v] = task[v] /\ task[v] \in Tasks /\ task[v].attempt <= job[task[v].job].attempts
        BY <1>0, <2>2, <3>2 DEF AttemptInv
      <4> QED
        BY <2>3, <2>4, <2>6, <4>1 DEF Tasks
    <3> QED
      BY <3>1, <3>2
  <2>8. \A u, v \in Workers : task'[u] = task'[v] /\ u # v => task'[v] = NoTask
    BY <1>0, <2>2, <2>5 DEF AttemptInv
  <2>9. \A s \in seen' : s[1].attempt <= job'[s[1].job].attempts
    <3> SUFFICES ASSUME NEW s \in seen PROVE s[1].attempt <= job'[s[1].job].attempts
      BY <2>2
    <3>1. s[1] \in Tasks /\ s[1].attempt <= job[s[1].job].attempts
      BY <1>0 DEF AttemptInv, TypeOK, HistoryTypeOK
    <3> QED
      BY <2>3, <2>4, <2>6, <3>1 DEF Tasks
  <2>10. \A i \in Jobs : job'[i].status = "queued" => job'[i].attempts < MaxAttempts
    BY <1>0, <2>3 DEF AttemptInv
  <2>11. ASSUME NEW i \in Jobs, job'[i].status = "leased"
         PROVE  /\ job'[i].holder \in Workers
                /\ task'[job'[i].holder].job = i => task'[job'[i].holder] = Attempt(i)'
    <3>1. CASE i = j
      BY <2>2, <2>3, <3>1 DEF Attempt, t
    <3>2. CASE i # j
      <4>1. job'[i] = job[i] /\ job[i].holder \in Workers /\ task[job[i].holder].job = i => task[job[i].holder] = Attempt(i)
        BY <1>0, <2>3, <2>11, <3>2 DEF AttemptInv
      <4>2. job'[i] = job[i] /\ job[i].holder \in Workers
        BY <1>0, <2>3, <2>11, <3>2 DEF AttemptInv
      <4>3. CASE job[i].holder = w
        BY <2>2, <2>4, <3>2, <4>2, <4>3
      <4>4. CASE job[i].holder # w
        BY <2>2, <4>1, <4>2, <4>4 DEF Attempt
      <4> QED
        BY <4>3, <4>4
    <3> QED
      BY <3>1, <3>2
  <2> QED
    BY <2>7, <2>8, <2>9, <2>10, <2>11 DEF AttemptInv
<1>3. ASSUME UNCHANGED seen, \A v \in Workers : task'[v] = task[v] \/ task'[v] = NoTask, NEW j \in Jobs, NEW to \in {"queued", "abandoned", "settled"},
             \A i \in Jobs \ {j} : job'[i] = job[i],
             job'[j].attempts = job[j].attempts, job'[j].status = to,
             to = "queued" => job[j].attempts < MaxAttempts
      PROVE  AttemptInv'
  <2>1. \A i \in Jobs : job'[i].attempts = job[i].attempts
    BY <1>3
  <2>2. \A v \in Workers : task'[v] # NoTask => task'[v].attempt <= job'[task'[v].job].attempts
    BY <1>0, <1>3, <2>1 DEF AttemptInv, TypeOK, LoopTypeOK, Tasks
  <2>3. \A s \in seen' : s[1].attempt <= job'[s[1].job].attempts
    BY <1>0, <1>3, <2>1 DEF AttemptInv, TypeOK, HistoryTypeOK, Tasks
  <2>4. \A i \in Jobs : job'[i].status = "queued" => job'[i].attempts < MaxAttempts
    BY <1>0, <1>3 DEF AttemptInv
  <2>5. ASSUME NEW i \in Jobs, job'[i].status = "leased"
        PROVE  /\ job'[i].holder \in Workers
               /\ task'[job'[i].holder].job = i => task'[job'[i].holder] = Attempt(i)'
    BY <1>0, <1>3, <2>5 DEF AttemptInv, Attempt, NoTask, Jobs
  <2>6. \A u, v \in Workers : task'[u] = task'[v] /\ u # v => task'[v] = NoTask
    BY <1>0, <1>3 DEF AttemptInv
  <2> QED
    BY <2>2, <2>3, <2>4, <2>5, <2>6 DEF AttemptInv
<1>4. ASSUME NEW j \in Jobs, Lapse(j) PROVE AttemptInv'
  <2> DEFINE to == IF job[j].attempts >= MaxAttempts THEN "abandoned" ELSE "queued"
  <2>1. job[j] \in JobRows /\ (to = "queued" => job[j].attempts < MaxAttempts)
    BY RuntimeAssumption DEF TypeOK, ApiTypeOK, JobRows
  <2>2. job' = [job EXCEPT ![j] = [job[j] EXCEPT !.holder = Nobody, !.status = to]]
    BY <1>4 DEF Lapse, TypeOK, ApiTypeOK
  <2>3. to \in {"queued", "abandoned"}
    OBVIOUS
  <2> HIDE DEF to
  <2>4. job'[j].attempts = job[j].attempts /\ job'[j].status = to /\ \A i \in Jobs \ {j} : job'[i] = job[i]
    BY <2>1, <2>2 DEF TypeOK, ApiTypeOK, JobRows
  <2>5. UNCHANGED <<task, seen>>
    BY <1>4 DEF Lapse, loop
  <2> QED
    BY <1>3, <2>1, <2>3, <2>4, <2>5
<1>5. ASSUME NEW w \in Workers, NEW what \in {"zero", "nonzero", "timeout", "trouble"},
             phase[w] \notin {"idle", "gone"}, Noted(w, what), UNCHANGED <<job, task>>
      PROVE  AttemptInv'
  <2>1. task[w] # NoTask
    BY <1>5 DEF TaskInv, LoopInv
  <2> QED
    BY <1>0, <1>5, <2>1, AttemptKept DEF Noted
<1>6. ASSUME NEW w \in Workers, NEW exit \in {"zero", "nonzero", "timeout"}, Run(w, exit) PROVE AttemptInv'
  BY <1>5, <1>6 DEF Run, At, api
<1>7. ASSUME NEW w \in Workers, Fails(w) PROVE AttemptInv'
  <2>1. phase[w] \notin {"idle", "gone"} /\ UNCHANGED <<job, task>>
    BY <1>7 DEF Fails, Before, Inside, api
  <2> QED
    BY <1>1, <1>5, <1>7, <2>1 DEF Fails
<1>8. ASSUME NEW w \in Workers, TimesOut(w) PROVE AttemptInv'
  <2>1. phase[w] \notin {"idle", "gone"} /\ UNCHANGED <<job, task>>
    BY <1>8 DEF TimesOut, Before, Inside, api, TaskInv, LoopInv
  <2> QED
    BY <1>5, <1>8, <2>1 DEF TimesOut
<1>9. ASSUME NEW w \in Workers, Dies(w) \/ Abandon(w) PROVE AttemptInv'
  <2>1. UNCHANGED <<job, seen>> /\ task' = [task EXCEPT ![w] = NoTask]
    BY <1>9 DEF Dies, Abandon, Done, api, history
  <2>2. \A v \in Workers : task'[v] = task[v] \/ task'[v] = NoTask
    BY <2>1 DEF TypeOK, LoopTypeOK
  <2> QED
    BY <1>0, <2>1, <2>2, AttemptKept
<1>10. ASSUME NEW w \in Workers, Report(w) PROVE AttemptInv'
  <2>1. UNCHANGED seen /\ task' = [task EXCEPT ![w] = NoTask]
    BY <1>10 DEF Report, Done, history
  <2>2. \A v \in Workers : task'[v] = task[v] \/ task'[v] = NoTask
    BY <2>1 DEF TypeOK, LoopTypeOK
  <2>3. CASE UNCHANGED job
    BY <1>0, <2>1, <2>2, <2>3, AttemptKept
  <2>4. CASE job' # job
    <3> DEFINE j == task[w].job
    <3>1. j \in Jobs
      BY <1>10, Working DEF Report, At
    <3>2. job' = [job EXCEPT ![j].status = "settled", ![j].result = result[w]]
      BY <1>10, <2>4 DEF Report
    <3> HIDE DEF j
    <3>3. job'[j].attempts = job[j].attempts /\ job'[j].status = "settled" /\ \A i \in Jobs \ {j} : job'[i] = job[i]
      BY <3>1, <3>2 DEF TypeOK, ApiTypeOK, JobRows
    <3> QED
      BY <1>3, <2>1, <2>2, <3>1, <3>3
  <2> QED
    BY <2>3, <2>4
<1> QED
  BY <1>1, <1>2, <1>4, <1>6, <1>7, <1>8, <1>9, <1>10
  DEF Next, Works, Trouble, LookUp, Pull, EnsureNetwork, EnsureFilter, Template, Create, CopyIn, Kill, CopyOut,
      Clean, CleanFails, Hangs, Flush, vars, api, loop, history

\* Types and tasks are right in every reachable state.
THEOREM RuntimeCorrect == Spec => [](TypeOK /\ TaskInv)
<1>1. Init => TypeOK /\ TaskInv
  <2> SUFFICES ASSUME Init PROVE TypeOK /\ TaskInv
    OBVIOUS
  <2>1. TypeOK
    BY RuntimeAssumption, ResultTypes DEF Init, TypeOK, ApiTypeOK, JobRows, LoopTypeOK, Phases, CacheTypeOK,
       HostTypeOK, HistoryTypeOK
  <2>2. LoopInv
    BY RuntimeAssumption DEF Init, LoopInv
  <2>3. AttemptInv
    BY RuntimeAssumption DEF Init, AttemptInv, NoTask
  <2> QED
    BY <2>1, <2>2, <2>3 DEF TaskInv
<1>2. TypeOK /\ TaskInv /\ [Next]_vars => (TypeOK /\ TaskInv)'
  BY TypeStep, LoopInvStep, AttemptInvStep DEF TaskInv
<1> QED
  BY <1>1, <1>2, PTL DEF Spec

-----------------------------------------------------------------------------
(* Nothing is left behind.                                                 *)

\* A sandbox stays somebody's while its worker goes on inside it, or is left
\* behind on record.
LEMMA SandboxStep == TypeOK /\ TaskInv /\ NothingLeftBehind /\ [Next]_vars => NothingLeftBehind'
<1> SUFFICES ASSUME TypeOK, TaskInv, NothingLeftBehind, [Next]_vars PROVE NothingLeftBehind'
  OBVIOUS
<1> DEFINE In == Inside \cup {"clean"}
<1>1. ASSUME boxes' \ orphans' \subseteq boxes \ orphans,
             \A v \in Workers : phase[v] \in In => task'[v] = task[v] /\ phase'[v] \in In
      PROVE  NothingLeftBehind'
  BY <1>1 DEF NothingLeftBehind
<1>2. ASSUME NEW w \in Workers, boxes' \ orphans' \subseteq (boxes \ orphans) \ {task[w]},
             \A v \in Workers \ {w} : task'[v] = task[v] /\ phase'[v] = phase[v]
      PROVE  NothingLeftBehind'
  BY <1>2 DEF NothingLeftBehind
<1>3. ASSUME NEW w \in Workers, phase[w] \notin In, UNCHANGED boxes, orphans \subseteq orphans',
             \A v \in Workers \ {w} : task'[v] = task[v] /\ phase'[v] = phase[v]
      PROVE  NothingLeftBehind'
  BY <1>3 DEF NothingLeftBehind
<1> HIDE DEF In
<1>4. CASE UNCHANGED <<boxes, orphans, phase, task>>
  BY <1>1, <1>4
<1>5. ASSUME NEW w \in Workers, NEW j \in Jobs, Lease(w, j) PROVE NothingLeftBehind'
  BY <1>3, <1>5 DEF Lease, At, Goes, In, Inside, TypeOK, LoopTypeOK, host, history
<1>6. ASSUME NEW w \in Workers,
             LookUp(w) \/ Pull(w) \/ EnsureNetwork(w) \/ EnsureFilter(w) \/ Template(w) \/ Abandon(w) \/ Report(w)
      PROVE  NothingLeftBehind'
  BY <1>3, <1>6 DEF LookUp, Pull, EnsureNetwork, EnsureFilter, Template, Abandon, Report, Done, At, Goes, In, Inside,
     TypeOK, LoopTypeOK, host, history
<1>7. ASSUME NEW w \in Workers, Create(w) PROVE NothingLeftBehind'
  <2>1. CASE NameTaken(w)
    BY <1>3, <1>7, <2>1 DEF Create, At, Goes, In, Inside, TypeOK, LoopTypeOK, history
  <2>2. CASE ~NameTaken(w)
    <3>1. /\ boxes' = boxes \cup {task[w]} /\ phase' = [phase EXCEPT ![w] = "copyin"]
          /\ UNCHANGED <<task, orphans>> /\ phase[w] = "create"
      BY <1>7, <2>2 DEF Create, At, Goes, history
    <3> QED
      BY <3>1 DEF NothingLeftBehind, Inside, TypeOK, LoopTypeOK
  <2> QED
    BY <2>1, <2>2
<1>8. ASSUME NEW w \in Workers,
             CopyIn(w) \/ Kill(w) \/ CopyOut(w) \/ (\E exit \in {"zero", "nonzero", "timeout"} : Run(w, exit))
      PROVE  NothingLeftBehind'
  BY <1>1, <1>8 DEF CopyIn, Kill, CopyOut, Run, At, Goes, In, Inside, TypeOK, LoopTypeOK, host, history
<1>9. ASSUME NEW w \in Workers, Clean(w) \/ CleanFails(w) PROVE NothingLeftBehind'
  <2>1. boxes' \ orphans' \subseteq (boxes \ orphans) \ {task[w]}
    BY <1>9 DEF Clean, CleanFails, host, history
  <2>2. \A v \in Workers \ {w} : task'[v] = task[v] /\ phase'[v] = phase[v]
    BY <1>9 DEF Clean, CleanFails, Goes, TypeOK, LoopTypeOK
  <2> QED
    BY <1>2, <2>1, <2>2
<1>10. ASSUME NEW w \in Workers, Fails(w) PROVE NothingLeftBehind'
  <2>1. CASE phase[w] \in Before
    BY <1>3, <1>10, <2>1 DEF Fails, Goes, In, Before, Inside, TypeOK, LoopTypeOK, host
  <2>2. CASE phase[w] \notin Before
    BY <1>1, <1>10, <2>2 DEF Fails, RaisedTo, Goes, In, TypeOK, LoopTypeOK, host
  <2> QED
    BY <2>1, <2>2
<1>11. ASSUME NEW w \in Workers, TimesOut(w) PROVE NothingLeftBehind'
  <2>1. /\ UNCHANGED task /\ hung[w] /\ task[w] \in Tasks
        /\ \A v \in Workers \ {w} : task'[v] = task[v] /\ phase'[v] = phase[v]
        /\ phase[w] \in Before \cup Inside \cup {"clean"}
    BY <1>11, Working DEF TimesOut, Goes, TypeOK, LoopTypeOK, TaskInv, LoopInv, Before, Inside
  <2>2. CASE phase[w] = "clean"
    <3>1. boxes' \ orphans' \subseteq (boxes \ orphans) \ {task[w]}
      BY <1>11, <2>2 DEF TimesOut
    <3> QED
      BY <1>2, <2>1, <3>1
  <2>3. CASE phase[w] = "create"
    <3>1. boxes' \ orphans' \subseteq (boxes \ orphans) \ {task[w]}
      BY <1>11, <2>3 DEF TimesOut
    <3> QED
      BY <1>2, <2>1, <3>1
  <2>4. CASE phase[w] \in Before \ {"create"}
    BY <1>3, <1>11, <2>1, <2>4 DEF TimesOut, In, Before, Inside
  <2>5. CASE phase[w] \in Inside
    <3>1. phase'[w] = "clean" /\ UNCHANGED <<boxes, orphans>>
      BY <1>11, <2>5 DEF TimesOut, Goes, RaisedTo, Inside, Before, TypeOK, LoopTypeOK
    <3> QED
      BY <1>1, <2>1, <3>1 DEF In
  <2> QED
    BY <2>1, <2>2, <2>3, <2>4, <2>5
<1>12. ASSUME NEW w \in Workers, Dies(w) PROVE NothingLeftBehind'
  <2>1. boxes' \ orphans' \subseteq (boxes \ orphans) \ {task[w]}
    BY <1>12 DEF Dies
  <2>2. \A v \in Workers \ {w} : task'[v] = task[v] /\ phase'[v] = phase[v]
    BY <1>12 DEF Dies, Goes, TypeOK, LoopTypeOK
  <2> QED
    BY <1>2, <2>1, <2>2
<1> QED
  BY <1>4, <1>5, <1>6, <1>7, <1>8, <1>9, <1>10, <1>11, <1>12
  DEF Next, Works, Trouble, Lapse, Flush, Hangs, vars, loop, host, history

\* However a run ends - a failure, a command that hangs, the death of its
\* worker - its sandbox is removed or its removal was prevented.
THEOREM SandboxesGo == Spec => []NothingLeftBehind
<1>1. Init => NothingLeftBehind
  BY DEF Init, NothingLeftBehind
<1> QED
  BY <1>1, RuntimeCorrect, SandboxStep, PTL DEF Spec

-----------------------------------------------------------------------------
(* The egress filter.                                                      *)

\* What one worker has checked, while it is on its way to a networked run.
Checked(w) ==
  task[w] # NoTask /\ Docker(w) /\ Network(w) =>
    /\ phase[w] # "template"
    /\ phase[w] = "filter" => \A r \in Rules : r < todo[w] => r \in rules \cup flushed[w]
    /\ phase[w] \in {"create", "copyin", "run"} => Rules \subseteq rules \cup flushed[w]

\* What a worker has checked stays so until somebody flushes it.
LEMMA FilterStep == TypeOK /\ TaskInv /\ FilterInv /\ [Next]_vars => FilterInv'
<1> SUFFICES ASSUME TypeOK, TaskInv, FilterInv, [Next]_vars PROVE FilterInv'
  OBVIOUS
<1>0. \A w \in Workers : Checked(w)
  BY DEF FilterInv, Checked
<1> SUFFICES ASSUME NEW w \in Workers PROVE Checked(w)'
  BY DEF FilterInv, Checked
<1>1. ASSUME UNCHANGED <<kind, key, todo, flushed>>, rules \subseteq rules', task'[w] = task[w], phase'[w] = phase[w]
      PROVE  Checked(w)'
  BY <1>0, <1>1 DEF Checked, Docker, Network
<1>2. ASSUME phase'[w] \notin {"template", "filter", "create", "copyin", "run"} PROVE Checked(w)'
  BY <1>2 DEF Checked
<1>3. ASSUME NEW v \in Workers, UNCHANGED <<kind, key>>, v # w, rules \subseteq rules',
             task'[w] = task[w], phase'[w] = phase[w], todo'[w] = todo[w], flushed'[w] = flushed[w]
      PROVE  Checked(w)'
  BY <1>0, <1>3 DEF Checked, Docker, Network
<1> HIDE DEF Checked
<1>4. ASSUME NEW v \in Workers, v # w, UNCHANGED <<kind, key>>, rules \subseteq rules',
             \/ UNCHANGED <<phase, task>>
             \/ \E p : Goes(v, p) /\ UNCHANGED task
             \/ \E p, t : Goes(v, p) /\ task' = [task EXCEPT ![v] = t],
             UNCHANGED todo \/ \E n : todo' = [todo EXCEPT ![v] = n],
             UNCHANGED flushed \/ \E f : flushed' = [flushed EXCEPT ![v] = f]
      PROVE  Checked(w)'
  BY <1>3, <1>4 DEF Goes, TypeOK, LoopTypeOK, HostTypeOK
<1>5. ASSUME NEW v \in Workers, v # w,
             (\E j \in Jobs : Lease(v, j)) \/ LookUp(v) \/ Pull(v) \/ EnsureNetwork(v) \/ EnsureFilter(v) \/ Template(v)
             \/ Create(v) \/ CopyIn(v) \/ (\E exit \in {"zero", "nonzero", "timeout"} : Run(v, exit)) \/ Kill(v)
      PROVE  Checked(w)'
  BY <1>4, <1>5 DEF Lease, LookUp, Pull, EnsureNetwork, EnsureFilter, Template, Create, CopyIn, Run, Kill, api, host
<1>6. ASSUME NEW v \in Workers, v # w,
             CopyOut(v) \/ Clean(v) \/ TimesOut(v) \/ Abandon(v) \/ Report(v) \/ Fails(v) \/ CleanFails(v)
             \/ Hangs(v) \/ Dies(v)
      PROVE  Checked(w)'
  BY <1>4, <1>6 DEF CopyOut, Clean, TimesOut, Abandon, Report, Done, Fails, CleanFails, Hangs, Dies, api, host
<1>7. ASSUME \/ (\E j \in Jobs : Lease(w, j)) \/ (\E exit \in {"zero", "nonzero", "timeout"} : Run(w, exit))
             \/ Kill(w) \/ CopyOut(w) \/ Clean(w) \/ TimesOut(w) \/ Abandon(w) \/ Report(w) \/ Fails(w) \/ CleanFails(w)
             \/ Dies(w)
      PROVE  Checked(w)'
  <2>1. phase'[w] \in {"idle", "gone", "lookup", "over", "clean", "kill", "copyout"}
    BY <1>7 DEF Lease, Run, Kill, CopyOut, Clean, TimesOut, Abandon, Report, Done, Fails,
       CleanFails, Dies, RaisedTo, Goes, TypeOK, LoopTypeOK
  <2> QED
    BY <1>2, <2>1
<1>8. ASSUME Pull(w) PROVE Checked(w)'
  <2>1. CASE Network(w)
    <3>1. phase'[w] = "network"
      BY <1>8, <2>1 DEF Pull, Goes, TypeOK, LoopTypeOK
    <3> QED
      BY <1>2, <3>1
  <2>2. CASE ~Network(w)
    BY <1>8, <2>2 DEF Pull, Checked, Network, api
  <2> QED
    BY <2>1, <2>2
<1>9. ASSUME EnsureNetwork(w) PROVE Checked(w)'
  BY <1>9 DEF EnsureNetwork, Checked, Goes, TypeOK, LoopTypeOK, HostTypeOK, Rules
<1>10. ASSUME EnsureFilter(w) PROVE Checked(w)'
  <2>1. /\ todo[w] \in Rules /\ rules' = rules \cup {todo[w]} /\ phase[w] = "filter"
        /\ UNCHANGED <<kind, key, task, flushed>>
    BY <1>10 DEF EnsureFilter, At, TaskInv, LoopInv, api
  <2>2. Docker(w) /\ Network(w) /\ task[w] # NoTask => \A r \in Rules : r < todo[w] => r \in rules \cup flushed[w]
    BY <1>0, <2>1 DEF Checked
  <2>3. CASE todo[w] = NumRules
    <3>1. \A r \in Rules : r < todo[w] \/ r = todo[w]
      BY <2>3, RuntimeAssumption DEF Rules
    <3>2. phase'[w] = "create"
      BY <1>10, <2>3 DEF EnsureFilter, Goes, TypeOK, LoopTypeOK
    <3> QED
      BY <2>1, <2>2, <3>1, <3>2 DEF Checked, Docker, Network
  <2>4. CASE todo[w] # NumRules
    <3>1. phase'[w] = "filter" /\ todo'[w] = todo[w] + 1
      BY <1>10, <2>4 DEF EnsureFilter, Goes, TypeOK, LoopTypeOK, HostTypeOK
    <3>2. \A r \in Rules : r < todo[w] + 1 => r < todo[w] \/ r = todo[w]
      BY <2>1, RuntimeAssumption DEF Rules
    <3> QED
      BY <2>1, <2>2, <3>1, <3>2 DEF Checked, Docker, Network
  <2> QED
    BY <2>3, <2>4
<1>11. ASSUME Template(w) PROVE Checked(w)'
  BY <1>0, <1>11 DEF Template, Checked, At, Goes, Docker, Network, TypeOK, LoopTypeOK, api, host
<1>12. ASSUME Create(w) \/ CopyIn(w) PROVE Checked(w)'
  BY <1>0, <1>12 DEF Create, CopyIn, Checked, At, Goes, Docker, Network, TypeOK, LoopTypeOK, api, host
<1>13. ASSUME Hangs(w) PROVE Checked(w)'
  BY <1>1, <1>13 DEF Hangs, api, host
<1>14. ASSUME NEW r \in Rules, Flush(r) PROVE Checked(w)'
  <2>1. UNCHANGED <<kind, key, task, phase, todo>> /\ rules' = rules \ {r}
    BY <1>14 DEF Flush, api, loop
  <2>2. flushed'[w] = IF Filtering(w) THEN flushed[w] \cup {r} ELSE {}
    BY <1>14 DEF Flush
  <2>3. CASE Filtering(w)
    BY <1>0, <2>1, <2>2, <2>3 DEF Checked, Docker, Network
  <2>4. CASE ~Filtering(w)
    BY <1>0, <2>1, <2>4 DEF Checked, Filtering, Docker, Network
  <2> QED
    BY <2>3, <2>4
<1>15. ASSUME NEW j \in Jobs, Lapse(j) PROVE Checked(w)'
  BY <1>1, <1>15 DEF Lapse, loop, host
<1>16. CASE UNCHANGED vars
  BY <1>1, <1>16 DEF vars, api, loop, host
<1>17. ASSUME LookUp(w) PROVE Checked(w)'
  <2>1. phase'[w] \in {"over", "pull"} \/ (phase'[w] = "template" /\ ~Docker(w)')
    BY <1>17 DEF LookUp, FirstPhase, Docker, Goes, TypeOK, LoopTypeOK, ApiTypeOK, api
  <2>2. CASE phase'[w] \in {"over", "pull"}
    BY <1>2, <2>2
  <2>3. CASE ~Docker(w)'
    BY <2>3 DEF Checked, Docker
  <2> QED
    BY <2>1, <2>2, <2>3
<1> QED
  BY <1>5, <1>6, <1>7, <1>8, <1>9, <1>10, <1>11, <1>12, <1>13, <1>14, <1>15, <1>16,
     <1>17 DEF Next, Works, Trouble

\* An artifact with network runs behind every rule, but for those removed
\* after its worker set out to check them.
THEOREM Filtered == Spec => []NetworkedOnlyFiltered
<1>1. Init => FilterInv
  BY DEF Init, FilterInv
<1>2. TypeOK /\ TaskInv /\ FilterInv => NetworkedOnlyFiltered
  BY DEF FilterInv, NetworkedOnlyFiltered, TaskInv, LoopInv
<1> QED
  BY <1>1, <1>2, RuntimeCorrect, FilterStep, PTL DEF Spec

-----------------------------------------------------------------------------
(* Results are earned.                                                     *)

\* What was seen stays seen, so what was earned stays earned.
LEMMA EarnedStays ==
  ASSUME NEW r, NEW t, Earned(r, t), seen \subseteq seen', UNCHANGED key
  PROVE  Earned(r, t)'
BY DEF Earned

\* The results that claim nothing are always earned.
LEMMA NothingClaimed ==
  ASSUME NEW r \in Results, r.status \in {"none", "unavailable"}, ~r.cached, NEW t
  PROVE  Earned(r, t) /\ Earned(r, t)'
BY DEF Earned

\* What ResultInv says of one worker.
WorkerEarns(w) ==
  /\ task[w] # NoTask => Earned(result[w], task[w])
  /\ phase[w] \notin {"kill", "copyout", "clean", "over"} => result[w].status = "none" /\ ~result[w].cached
  /\ phase[w] \in {"kill", "copyout", "clean"} => ~result[w].cached
  /\ phase[w] = "lookup" => \A s \in seen : s[1] # task[w]

\* And of a cache: what is in it has run.
HasRun(k) == \E s \in seen : key[s[1].job] = k /\ s[2] = "zero"
CacheEarned(s) == \A k \in Range(s) : HasRun(k)

\* A run that has happened has happened for good.
LEMMA CachesEarn ==
  ASSUME NEW s, CacheEarned(s), UNCHANGED key, seen \subseteq seen'
  PROVE  CacheEarned(s)'
BY DEF CacheEarned, HasRun

\* Only Run, Fails and TimesOut note anything, each of the task it is about.
LEMMA SeenGrows ==
  ASSUME TypeOK, TaskInv, [Next]_vars
  PROVE  /\ UNCHANGED <<kind, key>> /\ seen \subseteq seen'
         /\ \/ UNCHANGED seen
            \/ \E w \in Workers : /\ phase[w] \notin {"idle", "gone", "lookup"}
                                  /\ \A s \in seen' : s \in seen \/ s[1] = task[w]
                                  /\ \A v \in Workers \ {w} : /\ task'[v] = task[v] /\ phase'[v] = phase[v]
                                                              /\ result'[v] = result[v]
<1>1. ASSUME NEW w \in Workers, NEW exit \in {"zero", "nonzero", "timeout"}, Run(w, exit)
      PROVE  /\ phase[w] = "run" /\ seen' = seen \cup {<<task[w], exit>>} /\ UNCHANGED task
             /\ \A v \in Workers \ {w} : phase'[v] = phase[v] /\ result'[v] = result[v]
  BY <1>1 DEF Run, At, Noted, Goes, Becomes, TypeOK, LoopTypeOK
<1>2. ASSUME NEW w \in Workers, Fails(w)
      PROVE  /\ phase[w] \notin {"idle", "gone", "lookup"} /\ UNCHANGED task
             /\ UNCHANGED seen \/ seen' = seen \cup {<<task[w], "trouble">>}
             /\ \A v \in Workers \ {w} : phase'[v] = phase[v] /\ result'[v] = result[v]
  BY <1>2 DEF Fails, Before, Inside, Noted, Goes, Becomes, TypeOK, LoopTypeOK
<1>3. ASSUME NEW w \in Workers, TimesOut(w)
      PROVE  /\ phase[w] \notin {"idle", "gone", "lookup"} /\ UNCHANGED task
             /\ seen' = seen \cup {<<task[w], "trouble">>}
             /\ \A v \in Workers \ {w} : phase'[v] = phase[v] /\ result'[v] = result[v]
  BY <1>3 DEF TimesOut, Before, Inside, Noted, Goes, Becomes, TypeOK, LoopTypeOK, TaskInv, LoopInv
<1>4. UNCHANGED <<kind, key>>
  BY ZenonT(30) DEF Next, Works, Trouble, Lease, Lapse, LookUp, Pull, EnsureNetwork, EnsureFilter, Template, Create, CopyIn,
     Run, Kill, CopyOut, Clean, TimesOut, Abandon, Report, Done, Fails, CleanFails, Hangs, Dies, Flush, vars, api
<1>5. UNCHANGED seen \/ (\E w \in Workers : Fails(w) \/ TimesOut(w)
                                            \/ \E exit \in {"zero", "nonzero", "timeout"} : Run(w, exit))
  BY DEF Next, Works, Trouble, Lease, Lapse, LookUp, Pull, EnsureNetwork, EnsureFilter, Template, Create, CopyIn,
     Kill, CopyOut, Clean, Abandon, Report, Done, CleanFails, Hangs, Dies, Flush, vars, history
<1> QED
  BY <1>1, <1>2, <1>3, <1>4, <1>5

\* A worker that does not move keeps what it has: what is noted is of the
\* worker that moves.
LEMMA RestingEarns ==
  ASSUME TypeOK, TaskInv, [Next]_vars, NEW w \in Workers, WorkerEarns(w),
         task'[w] = task[w], phase'[w] = phase[w], result'[w] = result[w]
  PROVE  WorkerEarns(w)'
<1>1. UNCHANGED key /\ seen \subseteq seen'
  BY SeenGrows
<1>2. ASSUME phase[w] = "lookup", NEW s \in seen' PROVE s[1] # task[w]
  <2>1. task[w] # NoTask
    BY <1>2 DEF TaskInv, LoopInv
  <2>2. CASE s \in seen
    BY <1>2, <2>2 DEF WorkerEarns
  <2>3. CASE s \notin seen
    <3>1. PICK v \in Workers : phase[v] \notin {"idle", "gone", "lookup"} /\ s[1] = task[v]
      BY <2>3, SeenGrows
    <3> QED
      BY <1>2, <2>1, <3>1 DEF TaskInv, AttemptInv
  <2> QED
    BY <2>2, <2>3
<1> QED
  BY <1>1, <1>2, EarnedStays DEF WorkerEarns

\* A worker that moves ends with a result it has earned.
LEMMA MovingEarns ==
  ASSUME TypeOK, TaskInv, [Next]_vars, NEW w \in Workers, WorkerEarns(w), CacheEarned(entries[w]),
         Works(w) \/ Trouble(w) \/ \E j \in Jobs : Lease(w, j)
  PROVE  WorkerEarns(w)'
<1>0. UNCHANGED key /\ seen \subseteq seen'
  BY SeenGrows
<1> USE DEF At, Goes, Becomes, TypeOK, LoopTypeOK
<1>1. ASSUME task'[w] = NoTask, phase'[w] \in {"idle", "gone"}, result'[w] = NoResult PROVE WorkerEarns(w)'
  BY <1>1 DEF WorkerEarns, NoResult, Result
<1>2. ASSUME phase'[w] = "over", Earned(result[w], task[w])' PROVE WorkerEarns(w)'
  BY <1>2 DEF WorkerEarns
<1>3. ASSUME phase'[w] \in {"kill", "copyout", "clean"}, ~result'[w].cached, Earned(result[w], task[w])'
      PROVE  WorkerEarns(w)'
  BY <1>3 DEF WorkerEarns
<1>4. ASSUME phase'[w] \in Before \cup {"copyin", "run"}, result'[w].status = "none", ~result'[w].cached
      PROVE  WorkerEarns(w)'
  BY <1>4 DEF WorkerEarns, Earned, Before, Results
<1>5. Earned(NoResult, task[w])' /\ Earned(Unavailable, task[w])'
  BY DEF Earned, NoResult, Unavailable, Result
<1>6. ASSUME task[w] # NoTask, task'[w] = task[w], result'[w] = result[w] PROVE Earned(result[w], task[w])'
  BY <1>0, <1>6 DEF WorkerEarns, Earned
<1>7. phase[w] \notin {"idle", "gone"} => task[w] # NoTask
  BY DEF TaskInv, LoopInv
<1>8. CASE \E j \in Jobs : Lease(w, j)
  <2> PICK j \in Jobs : Lease(w, j)
    BY <1>8
  <2> DEFINE t == [job |-> j, attempt |-> job[j].attempts + 1]
  <2>1. /\ phase'[w] = "lookup" /\ result'[w] = NoResult /\ task'[w] = t
        /\ UNCHANGED seen
    BY DEF Lease, history
  <2>2. \A s \in seen : s[1] # t
    <3> SUFFICES ASSUME NEW s \in seen, s[1] = t PROVE FALSE
      OBVIOUS
    <3>1. t.attempt <= job[t.job].attempts
      BY DEF TaskInv, AttemptInv
    <3>2. job[j].attempts \in Nat
      BY DEF ApiTypeOK, JobRows
    <3> QED
      BY <3>1, <3>2
  <2> HIDE DEF t
  <2> QED
    BY <2>1, <2>2 DEF WorkerEarns, NoResult, Result, Earned
<1>9. CASE LookUp(w)
  <2>1. CASE Hit(w)
    <3> DEFINE r == [Result("SUCCEEDED", "zero") EXCEPT !.cached = TRUE]
    <3>1. phase[w] = "lookup" /\ UNCHANGED <<task, seen>> /\ phase'[w] = "over" /\ result'[w] = r
      BY <1>9, <2>1 DEF LookUp, history
    <3>2. PICK s \in seen : key[s[1].job] = key[task[w].job] /\ s[2] = "zero"
      BY <2>1 DEF Hit, CacheEarned, HasRun
    <3>3. s[1] # task[w]
      BY <3>1 DEF WorkerEarns
    <3>4. r.cached /\ r.status = "SUCCEEDED"
      BY DEF Result
    <3> HIDE DEF r
    <3>5. Earned(r, task[w])'
      BY <1>0, <3>1, <3>2, <3>3, <3>4 DEF Earned
    <3> QED
      BY <1>2, <3>1, <3>5
  <2>2. CASE ~Hit(w)
    <3>1. phase[w] = "lookup" /\ phase'[w] \in Before /\ UNCHANGED result
      BY <1>9, <2>2 DEF LookUp, FirstPhase, Before
    <3> QED
      BY <1>4, <3>1 DEF WorkerEarns
  <2> QED
    BY <2>1, <2>2
<1>10. ASSUME phase[w] \in Before \cup {"copyin"}, phase'[w] \in Before \cup {"copyin", "run"}, UNCHANGED result
       PROVE  WorkerEarns(w)'
  BY <1>4, <1>10 DEF WorkerEarns, Before
<1>11. CASE Pull(w) \/ EnsureNetwork(w) \/ EnsureFilter(w) \/ CopyIn(w)
  BY <1>10, <1>11 DEF Pull, EnsureNetwork, EnsureFilter, CopyIn, Before
<1>12. CASE Template(w) \/ Create(w)
  <2>1. CASE UNCHANGED result /\ phase'[w] # "over"
    BY <1>10, <1>12, <2>1 DEF Template, Create, Before
  <2>2. CASE phase'[w] = "over" /\ result'[w] = Unavailable
    <3>1. UNCHANGED task
      BY <1>12 DEF Template, Create
    <3> QED
      BY <1>2, <1>5, <2>2, <3>1
  <2>3. \/ UNCHANGED result /\ phase'[w] # "over"
        \/ phase'[w] = "over" /\ result'[w] = Unavailable
    BY <1>12 DEF Template, Create
  <2> QED
    BY <2>1, <2>2, <2>3
<1>13. ASSUME NEW exit \in {"zero", "nonzero", "timeout"}, Run(w, exit) PROVE WorkerEarns(w)'
  <2>1. UNCHANGED task /\ <<task[w], exit>> \in seen'
    BY <1>13 DEF Run, Noted
  <2>2. ~result'[w].cached /\ phase'[w] \in {"kill", "copyout", "clean"}
    BY <1>13 DEF Run, Result
  <2>3. Earned(result[w], task[w])'
    BY <1>13, <2>1 DEF Run, Result, Earned
  <2> QED
    BY <1>3, <2>1, <2>2, <2>3
<1>14. CASE Kill(w) \/ CopyOut(w) \/ Clean(w) \/ CleanFails(w)
  <2>1. /\ phase[w] \in {"kill", "copyout", "clean"} /\ UNCHANGED <<task, result>>
        /\ phase'[w] \in {"clean", "over"}
    BY <1>14 DEF Kill, CopyOut, Clean, CleanFails
  <2> QED
    BY <1>2, <1>3, <1>6, <1>7, <2>1 DEF WorkerEarns
<1>15. CASE Fails(w)
  <2>1. PICK r \in MadeOfFailure(w) : /\ result' = [result EXCEPT ![w] = r]
                                      /\ IF Mistaken(w, r) THEN Noted(w, "trouble") ELSE UNCHANGED seen
    BY <1>15 DEF Fails
  <2>2. UNCHANGED task /\ phase'[w] \in {"over", "clean"} /\ phase[w] \in Before \cup Inside
    BY <1>15 DEF Fails, RaisedTo
  <2>3. result'[w] = r
    BY <2>1
  <2>4. CASE Mistaken(w, r)
    <3>1. <<task[w], "trouble">> \in seen'
      BY <2>1, <2>4 DEF Noted
    <3>2. r \in {Unavailable, Failure, Result("FAILED", "nonzero")} \/ r = result[w]
      BY <2>1 DEF MadeOfFailure
    <3>3. r.status = "FAILED"
      BY <2>4 DEF Mistaken
    <3>4. ~r.cached
      BY <2>2, <3>2 DEF Unavailable, Failure, Result, WorkerEarns, Before, Inside
    <3> QED
      BY <1>2, <1>3, <2>2, <2>3, <3>1, <3>3, <3>4 DEF Earned
  <2>5. CASE ~Mistaken(w, r)
    <3>1. r = Unavailable \/ r = result[w]
      BY <2>1, <2>2, <2>5 DEF MadeOfFailure, Mistaken, Docker, Failure, Result, Before, Inside
    <3>2. ~r.cached
      BY <2>2, <3>1 DEF Unavailable, Result, WorkerEarns, Before, Inside
    <3>3. task[w] # NoTask
      BY <1>7, <2>2 DEF Before, Inside
    <3> QED
      BY <1>2, <1>3, <1>5, <1>6, <2>2, <2>3, <3>1, <3>2, <3>3
  <2> QED
    BY <2>4, <2>5
<1>16. CASE TimesOut(w)
  <2>1. /\ UNCHANGED task /\ <<task[w], "trouble">> \in seen' /\ result'[w] = Failure
        /\ phase'[w] \in {"over", "clean"}
    BY <1>16 DEF TimesOut, Noted, RaisedTo
  <2> QED
    BY <1>2, <1>3, <2>1 DEF Failure, Result, Earned
<1>17. CASE Hangs(w)
  BY <1>17, RestingEarns DEF Hangs
<1>18. CASE Dies(w) \/ Abandon(w) \/ Report(w)
  <2>1. task'[w] = NoTask /\ phase'[w] \in {"idle", "gone"} /\ result'[w] = NoResult
    BY <1>18 DEF Dies, Abandon, Report, Done
  <2> QED
    BY <1>1, <2>1
<1> HIDE DEF At, Goes, Becomes, TypeOK, LoopTypeOK
<1> QED
  BY <1>8, <1>9, <1>11, <1>12, <1>13, <1>14, <1>15, <1>16, <1>17, <1>18 DEF Works, Trouble

\* A cache only ever holds what has run.
LEMMA CacheEarns ==
  ASSUME TypeOK, TaskInv, [Next]_vars, NEW w \in Workers, WorkerEarns(w), CacheEarned(entries[w])
  PROVE  CacheEarned(entries[w])'
<1>0. UNCHANGED key /\ seen \subseteq seen'
  BY SeenGrows
<1> DEFINE Kept == CacheEarned(entries'[w])
<1>1. ASSUME Kept PROVE CacheEarned(entries[w])'
  <2> DEFINE s == entries'[w]
  <2>1. CacheEarned(s)
    BY <1>1
  <2> HIDE DEF s
  <2>2. \A k \in Range(s) : HasRun(k)'
    BY <1>0, <2>1 DEF CacheEarned, HasRun
  <2> QED
    BY <2>2 DEF CacheEarned, s
<1>2. ASSUME entries'[w] = entries[w] PROVE Kept
  BY <1>2
<1>3. ASSUME NEW v \in Workers, v # w, NEW s, entries' = [entries EXCEPT ![v] = s] PROVE Kept
  BY <1>2, <1>3 DEF TypeOK, CacheTypeOK
<1> HIDE DEF Kept
<1>4. ASSUME NEW v \in Workers, LookUp(v) PROVE Kept
  <2>1. CASE Hit(v) /\ v = w
    <3>1. entries[w] \in Seq(Keys) /\ key[task[w].job] \in Range(entries[w]) /\ key[task[w].job] \in Keys
      BY <1>4, <2>1, Working DEF Hit, LookUp, At, TypeOK, CacheTypeOK
    <3>2. Range(Touched(entries[w], key[task[w].job])) \subseteq Range(entries[w])
      BY <3>1, TouchedOne
    <3>3. entries'[w] = Touched(entries[w], key[task[w].job])
      BY <1>4, <2>1 DEF LookUp, TypeOK, CacheTypeOK
    <3> QED
      BY <3>2, <3>3 DEF Kept, CacheEarned
  <2>2. CASE Hit(v) /\ v # w
    BY <1>3, <1>4, <2>2 DEF LookUp
  <2>3. CASE ~Hit(v)
    BY <1>2, <1>4, <2>3 DEF LookUp
  <2> QED
    BY <2>1, <2>2, <2>3
<1>5. ASSUME NEW v \in Workers, Clean(v) \/ CleanFails(v) PROVE Kept
  <2>1. CASE v = w
    <3>1. phase[w] = "clean" /\ entries'[w] = Remembered(w, result[w]) /\ result[w] \in Results
      BY <1>5, <2>1 DEF Clean, CleanFails, At, TypeOK, LoopTypeOK, CacheTypeOK
    <3>2. task[w] \in Tasks /\ task[w] # NoTask
      BY <3>1, Working DEF TaskInv, LoopInv
    <3>3. result[w].status = "SUCCEEDED" => HasRun(key[task[w].job])
      BY <3>1, <3>2 DEF WorkerEarns, Earned, HasRun
    <3>4. \A k \in Range(Remembered(w, result[w])) :
            k \in Range(entries[w]) \/ (k = key[task[w].job] /\ result[w].status = "SUCCEEDED")
      BY <3>1, <3>2, RememberedOne
    <3> QED
      BY <3>1, <3>3, <3>4 DEF Kept, CacheEarned
  <2>2. CASE v # w
    BY <1>3, <1>5, <2>2 DEF Clean, CleanFails
  <2> QED
    BY <2>1, <2>2
<1>6. ASSUME NEW v \in Workers, Dies(v) PROVE Kept
  <2>1. CASE v = w
    <3>1. entries'[w] = <<>>
      BY <1>6, <2>1 DEF Dies, TypeOK, CacheTypeOK
    <3>2. Range(<<>>) = {}
      BY DEF Range
    <3> QED
      BY <3>1, <3>2 DEF Kept, CacheEarned
  <2>2. CASE v # w
    BY <1>3, <1>6, <2>2 DEF Dies
  <2> QED
    BY <2>1, <2>2
<1>7. ASSUME UNCHANGED entries PROVE Kept
  BY <1>2, <1>7
<1>8. UNCHANGED entries \/ \E v \in Workers : LookUp(v) \/ Clean(v) \/ CleanFails(v) \/ Dies(v)
  BY DEF Next, Works, Trouble, Lease, Lapse, Pull, EnsureNetwork, EnsureFilter, Template, Create, CopyIn, Run,
      Kill, CopyOut, TimesOut, Fails, Hangs, Flush, Abandon, Report, Done, vars
<1>9. Kept
  BY <1>4, <1>5, <1>6, <1>7, <1>8
<1> QED
  BY <1>1, <1>9

\* What a worker has earned is what the API records, of the attempt it holds.
LEMMA JobEarns ==
  ASSUME TypeOK, TaskInv, [Next]_vars, ResultInv, NEW j \in Jobs, job'[j].status = "settled"
  PROVE  Earned(job[j].result, Attempt(j))'
<1>0. UNCHANGED key /\ seen \subseteq seen'
  BY SeenGrows
<1>1. ASSUME job'[j] = job[j] PROVE Earned(job[j].result, Attempt(j))'
  <2>1. Earned(job[j].result, Attempt(j))
    BY <1>1 DEF ResultInv
  <2> QED
    BY <1>0, <1>1, <2>1 DEF Earned, Attempt
<1>2. ASSUME NEW w \in Workers, Report(w), job' # job PROVE Earned(job[j].result, Attempt(j))'
  <2> DEFINE i == task[w].job
  <2>1. i \in Jobs /\ job[i].status = "leased" /\ job[i].holder = w /\ task[w] # NoTask
    BY <1>2, Working DEF Report, At, TaskInv, LoopInv
  <2>2. task[w] = Attempt(i)
    BY <2>1 DEF TaskInv, AttemptInv
  <2>3. job' = [job EXCEPT ![i].status = "settled", ![i].result = result[w]]
    BY <1>2 DEF Report
  <2>4. Earned(result[w], Attempt(i))
    BY <2>1, <2>2 DEF ResultInv
  <2> HIDE DEF i
  <2>5. job'[i].result = result[w] /\ job'[i].attempts = job[i].attempts /\ (j # i => job'[j] = job[j])
    BY <2>1, <2>3 DEF TypeOK, ApiTypeOK, JobRows
  <2>6. CASE j = i
    BY <1>0, <2>4, <2>5, <2>6 DEF Earned, Attempt
  <2>7. CASE j # i
    BY <1>1, <2>5, <2>7
  <2> QED
    BY <2>6, <2>7
<1>3. ASSUME NEW w \in Workers, NEW i \in Jobs, Lease(w, i) PROVE job'[j] = job[j]
  BY <1>3 DEF Lease, TypeOK, ApiTypeOK, JobRows
<1>4. ASSUME NEW i \in Jobs, Lapse(i) PROVE job'[j] = job[j]
  <2>1. job' = [job EXCEPT ![i].holder = Nobody,
                           ![i].status = IF job[i].attempts >= MaxAttempts THEN "abandoned" ELSE "queued"]
    BY <1>4 DEF Lapse
  <2> QED
    BY <2>1 DEF TypeOK, ApiTypeOK, JobRows
<1>5. CASE UNCHANGED job
  BY <1>1, <1>5
<1> QED
  BY <1>1, <1>2, <1>3, <1>4, <1>5
  DEF Next, Works, Trouble, LookUp, Pull, EnsureNetwork, EnsureFilter, Template, Create, CopyIn, Run,
      Kill, CopyOut, Clean, TimesOut, Fails, CleanFails, Hangs, Dies, Flush, Abandon, vars, api

\* Until it is settled, nothing is on record of an execution.
LEMMA NotYetCached ==
  ASSUME TypeOK, [Next]_vars, ResultInv, NEW j \in Jobs, job'[j].status # "settled"
  PROVE  ~job'[j].result.cached
<1>1. \/ job'[j].status = "settled"
      \/ job[j].status # "settled" /\ job'[j].result = job[j].result
      \/ job'[j] = job[j]
  <2>1. CASE UNCHANGED job
    BY <2>1
  <2>2. ASSUME NEW w \in Workers, NEW i \in Jobs, Lease(w, i)
        PROVE  job'[j] = job[j] \/ (job[j].status # "settled" /\ job'[j].result = job[j].result)
    BY <2>2 DEF Lease, TypeOK, ApiTypeOK, JobRows
  <2>3. ASSUME NEW i \in Jobs, Lapse(i)
        PROVE  job'[j] = job[j] \/ (job[j].status # "settled" /\ job'[j].result = job[j].result)
    <3>1. job' = [job EXCEPT ![i].holder = Nobody,
                             ![i].status = IF job[i].attempts >= MaxAttempts THEN "abandoned" ELSE "queued"]
          /\ job[i].status = "leased"
      BY <2>3 DEF Lapse
    <3> QED
      BY <3>1 DEF TypeOK, ApiTypeOK, JobRows
  <2>4. ASSUME NEW w \in Workers, Report(w) PROVE job'[j].status = "settled" \/ job'[j] = job[j]
    BY <2>4 DEF Report, TypeOK, ApiTypeOK, JobRows
  <2> QED
    BY <2>1, <2>2, <2>3, <2>4
    DEF Next, Works, Trouble, LookUp, Pull, EnsureNetwork, EnsureFilter, Template, Create, CopyIn, Run,
        Kill, CopyOut, Clean, TimesOut, Fails, CleanFails, Hangs, Dies, Flush, Abandon, vars, api
<1> QED
  BY <1>1 DEF ResultInv

\* Workers, caches and the record: every result is earned.
LEMMA ResultStep == TypeOK /\ TaskInv /\ ResultInv /\ [Next]_vars => ResultInv'
<1> SUFFICES ASSUME TypeOK, TaskInv, ResultInv, [Next]_vars PROVE ResultInv'
  OBVIOUS
<1>1. ASSUME NEW w \in Workers PROVE WorkerEarns(w) /\ CacheEarned(entries[w])
  BY DEF ResultInv, WorkerEarns, CacheEarned, HasRun
<1>2. ASSUME NEW w \in Workers PROVE CacheEarned(entries[w])'
  BY <1>1, CacheEarns
<1>3. ASSUME NEW w \in Workers, task'[w] = task[w], phase'[w] = phase[w], result'[w] = result[w]
      PROVE  WorkerEarns(w)'
  BY <1>1, <1>3, RestingEarns
<1>4. ASSUME NEW w \in Workers, NEW v \in Workers, Works(v) \/ Trouble(v) \/ \E j \in Jobs : Lease(v, j)
      PROVE  WorkerEarns(w)'
  <2>1. CASE v = w
    BY <1>1, <1>4, <2>1, MovingEarns
  <2>2. CASE v # w
    <3>1. task'[w] = task[w]
      BY <1>4, <2>2 DEF Works, Trouble, Lease, LookUp, Pull, EnsureNetwork, EnsureFilter, Template, Create,
         CopyIn, Run, Kill, CopyOut, Clean, TimesOut, Fails, CleanFails, Hangs, Dies, Abandon, Report, Done,
         TypeOK, LoopTypeOK
    <3>2. phase'[w] = phase[w]
      BY <1>4, <2>2 DEF Works, Trouble, Lease, LookUp, Pull, EnsureNetwork, EnsureFilter, Template, Create,
         CopyIn, Run, Kill, CopyOut, Clean, TimesOut, Fails, CleanFails, Hangs, Dies, Abandon, Report, Done,
         Goes, TypeOK, LoopTypeOK
    <3>3. result'[w] = result[w]
      BY <1>4, <2>2 DEF Works, Trouble, Lease, LookUp, Pull, EnsureNetwork, EnsureFilter, Template, Create,
         CopyIn, Run, Kill, CopyOut, Clean, TimesOut, Fails, CleanFails, Hangs, Dies, Abandon, Report, Done,
         Becomes, TypeOK, LoopTypeOK
    <3> QED
      BY <1>3, <3>1, <3>2, <3>3
  <2> QED
    BY <2>1, <2>2
<1>5. ASSUME NEW w \in Workers PROVE WorkerEarns(w)'
  BY <1>3, <1>4 DEF Next, Lapse, Flush, vars, loop
<1>6. ASSUME NEW j \in Jobs
      PROVE  IF job'[j].status = "settled" THEN Earned(job[j].result, Attempt(j))' ELSE ~job'[j].result.cached
  BY JobEarns, NotYetCached
<1> QED
  BY <1>2, <1>5, <1>6 DEF ResultInv, WorkerEarns, CacheEarned, HasRun

\* Whatever is on record of an execution is what its own attempt did, or a
\* flagged replay of an earlier success of the same computation.
THEOREM EarnedOnRecord == Spec => []ReportedAsItRan
<1>1. Init => ResultInv
  BY DEF Init, ResultInv, Earned, NoResult, Result, Range
<1>2. ResultInv => ReportedAsItRan
  <2> SUFFICES ASSUME ResultInv, NEW j \in Jobs
               PROVE  /\ Settled(j, "SUCCEEDED") /\ ~job[j].result.cached => <<Attempt(j), "zero">> \in seen
                      /\ Settled(j, "TIMEOUT") => <<Attempt(j), "timeout">> \in seen
                      /\ job[j].result.cached =>
                           \E s \in seen : s[1] # Attempt(j) /\ key[s[1].job] = key[j] /\ s[2] = "zero"
                      /\ Settled(j, "FAILED") =>
                           <<Attempt(j), "nonzero">> \in seen \/ <<Attempt(j), "trouble">> \in seen
    BY DEF ReportedAsItRan
  <2>1. Attempt(j).job = j
    BY DEF Attempt
  <2>2. CASE job[j].status = "settled"
    <3>1. Earned(job[j].result, Attempt(j))
      BY <2>2 DEF ResultInv
    <3> QED
      BY <2>1, <2>2, <3>1 DEF Earned, Settled
  <2>3. CASE job[j].status # "settled"
    BY <2>3 DEF ResultInv, Settled
  <2> QED
    BY <2>2, <2>3
<1> QED
  BY <1>1, <1>2, RuntimeCorrect, ResultStep, PTL DEF Spec
=============================================================================
