------------------------------- MODULE Demand -------------------------------
(***************************************************************************)
(* The keyless side of recall: the hits counted against a caller before    *)
(* the handler runs, and the miss that is written after its response.      *)
(*                                                                         *)
(* A hit is one upsert on the row of its window, committed before anything *)
(* else and without waiting for the disk, so that a crash of the database  *)
(* takes the latest hits back. A miss is one upsert on the row of its      *)
(* need, in a task of its own that stamps the time before it gets a        *)
(* connection. Any check may be the one that sweeps expired windows (the   *)
(* thousandth of its process), any miss sweeps the misses nobody has asked *)
(* for lately, and so does a scheduled job. Requests have no identity:     *)
(* what matters is how many came to what, and when.                        *)
(***************************************************************************)
EXTENDS Integers, FiniteSets, FiniteSetsExt

CONSTANTS
  MaxRequests, \* bound on the requests
  Buckets,     \* "<what>:<client address>"
  Limit,       \* of each bucket: hits per window
  Seconds,     \* of each bucket: the length of its window
  Recalling,   \* the buckets whose requests are recalls
  Needs,       \* fingerprints
  Longest,     \* _LONGEST_WINDOW
  Retention,   \* how long a miss nobody repeats is kept
  Delay,       \* bound on how long a miss waits for its connection
  MaxTime,     \* bound on the clock
  MaxCrashes   \* bound on the crashes of the database

ASSUME DemandAssumption ==
  /\ Limit \in [Buckets -> Nat \ {0}] /\ Seconds \in [Buckets -> Nat \ {0}]
  /\ Recalling \subseteq Buckets
  /\ \A b \in Buckets : Seconds[b] <= Longest
  /\ Longest \in Nat /\ Delay \in Nat /\ Retention \in Nat
  /\ MaxTime \in Nat /\ MaxCrashes \in Nat /\ MaxRequests \in Nat
  /\ Delay < Retention
  /\ IsFiniteSet(Needs)

VARIABLES
  clock,
  hits,      \* rate_limits: the count of each row, 0 for none
  durable,   \* rate_limits as it is on disk
  misses,    \* recall_misses
  pending,   \* how many misses of each kind wait to be written
  came,      \* (auxiliary) how many requests came to each bucket at each time
  let,       \* (auxiliary) how many of them were let through
  seen,      \* (auxiliary) the writes that made each row of misses
  crashes    \* (auxiliary) how often the database has crashed

limiter == <<hits, durable, came, let, crashes>>
telemetry == <<misses, seen>>
vars == <<clock, limiter, telemetry, pending>>

-----------------------------------------------------------------------------

Times == 0..MaxTime
Scores == 0..1

\* A miss on its way: what was asked for, how close the corpus came, and when.
Kinds == [need: Needs, score: Scores, stamp: Times]

NoMiss == [occurrences |-> 0, best |-> 0, first |-> 0, last |-> 0]

\* bucket: the window a hit belongs to.
WindowStart(b, t) == (t \div Seconds[b]) * Seconds[b]

Total(count) == MapThenSumSet(LAMBDA i : count[i], DOMAIN count)

Init ==
  /\ clock = 0 /\ crashes = 0
  /\ hits = [b \in Buckets |-> [w \in Times |-> 0]]
  /\ durable = hits /\ came = hits /\ let = hits
  /\ misses = [n \in Needs |-> NoMiss]
  /\ pending = [k \in Kinds |-> 0]
  /\ seen = [n \in Needs |-> [k \in Kinds |-> 0]]

Swept(rows, cutoff) == [b \in Buckets |-> [w \in Times |-> IF w < cutoff THEN 0 ELSE rows[b][w]]]

\* What the sweep of expired windows leaves.
SweptAt(rows, t) == Swept(rows, t - Longest)

\* Variant: a refused hit is rolled back with the request.
CheckRollsBack(b, sweep) ==
  LET w == WindowStart(b, clock)
      admitted == hits[b][w] + 1 <= Limit[b]
      counted == IF admitted THEN [hits EXCEPT ![b][w] = @ + 1] ELSE hits
  IN  /\ hits' = IF sweep THEN SweptAt(counted, clock) ELSE counted
      /\ came' = [came EXCEPT ![b][clock] = @ + 1]
      /\ let' = IF admitted THEN [let EXCEPT ![b][clock] = @ + 1] ELSE let
      /\ UNCHANGED <<durable, crashes>>

\* Variant: the request that finds the window full is let through.
CheckOffByOne(b, sweep) ==
  LET w == WindowStart(b, clock)
      admitted == hits[b][w] <= Limit[b]
      counted == [hits EXCEPT ![b][w] = @ + 1]
  IN  /\ hits' = IF sweep THEN SweptAt(counted, clock) ELSE counted
      /\ came' = [came EXCEPT ![b][clock] = @ + 1]
      /\ let' = IF admitted THEN [let EXCEPT ![b][clock] = @ + 1] ELSE let
      /\ UNCHANGED <<durable, crashes>>

\* check: this hit is counted whatever becomes of the request, which is
\* refused if the window was already full.
Check(b, sweep) ==
  LET w == WindowStart(b, clock)
      admitted == hits[b][w] + 1 <= Limit[b]
      counted == [hits EXCEPT ![b][w] = @ + 1]
  IN  /\ hits' = IF sweep THEN SweptAt(counted, clock) ELSE counted
      /\ came' = [came EXCEPT ![b][clock] = @ + 1]
      /\ let' = IF admitted THEN [let EXCEPT ![b][clock] = @ + 1] ELSE let
      /\ UNCHANGED <<durable, crashes>>

MoreToCome == Total([b \in Buckets |-> Total(came[b])]) < MaxRequests

\* A request that is refused, or whose handler has nothing to add here.
Request(b, sweep) ==
  /\ MoreToCome
  /\ Check(b, sweep)
  /\ UNCHANGED <<clock, telemetry, pending>>

\* A recall that is let through, and answered with no match: it leaves a task
\* behind, for the demand it stands for.
RecallMisses(b, sweep, need, score) ==
  /\ MoreToCome /\ b \in Recalling
  /\ Check(b, sweep)
  /\ let' # let
  /\ pending' = [pending EXCEPT ![[need |-> need, score |-> score, stamp |-> clock]] = @ + 1]
  /\ UNCHANGED <<clock, telemetry>>

\* The statement of record: a new row, or one more occurrence of the need.
Upserted(row, k) ==
  IF row.occurrences = 0
  THEN [occurrences |-> 1, best |-> k.score, first |-> k.stamp, last |-> k.stamp]
  ELSE [row EXCEPT !.occurrences = @ + 1, !.best = Max({@, k.score}), !.last = k.stamp]

\* sweep: nobody has asked for it since then.
Forgotten(row, t) == row.occurrences > 0 /\ row.last < t - Retention

\* Variant: a need that was asked for again is kept for good.
KeptRepeated(rows, t) ==
  [n \in Needs |-> IF Forgotten(rows[n], t) /\ rows[n].occurrences = 1 THEN NoMiss ELSE rows[n]]

\* The rows a sweep leaves, and the account of what made them.
Kept(rows, t) == [n \in Needs |-> IF Forgotten(rows[n], t) THEN NoMiss ELSE rows[n]]
Account(log) == [n \in Needs |-> IF misses'[n] = NoMiss THEN [k \in Kinds |-> 0] ELSE log[n]]

\* One transaction: the upsert, and the sweep unless it has been switched off.
MissRecorded(k, sweep) ==
  LET rows == [misses EXCEPT ![k.need] = Upserted(@, k)]
  IN  /\ pending[k] > 0
      /\ pending' = [pending EXCEPT ![k] = @ - 1]
      /\ misses' = IF sweep THEN Kept(rows, clock) ELSE rows
      /\ seen' = Account([seen EXCEPT ![k.need][k] = @ + 1])
      /\ UNCHANGED <<clock, limiter>>

\* The task raises, or dies with its process: one line in a log.
MissLost(k) ==
  /\ pending[k] > 0
  /\ pending' = [pending EXCEPT ![k] = @ - 1]
  /\ UNCHANGED <<clock, limiter, telemetry>>

\* The scheduled job. Two at once delete the same rows once.
RetentionSweeps ==
  /\ misses' = Kept(misses, clock)
  /\ seen' = Account(seen)
  /\ UNCHANGED <<clock, limiter, pending>>

\* The database crashes: what was committed without waiting for the disk is gone.
Crash ==
  /\ crashes < MaxCrashes
  /\ crashes' = crashes + 1
  /\ hits' = durable
  /\ UNCHANGED <<clock, durable, came, let, telemetry, pending>>

\* A second or more goes by: the database has flushed its log meanwhile.
Tick ==
  /\ clock < MaxTime
  /\ \A k \in Kinds : pending[k] > 0 => clock < k.stamp + Delay
  /\ clock' = clock + 1
  /\ durable' = hits
  /\ UNCHANGED <<hits, came, let, crashes, telemetry, pending>>

Next ==
  \/ \E b \in Buckets, sweep \in BOOLEAN : Request(b, sweep)
  \/ \E b \in Buckets, sweep \in BOOLEAN, n \in Needs, s \in Scores : RecallMisses(b, sweep, n, s)
  \/ \E k \in Kinds, sweep \in BOOLEAN : MissRecorded(k, sweep)
  \/ \E k \in Kinds : MissLost(k)
  \/ RetentionSweeps \/ Crash \/ Tick

\* The cron fires again and again.
Spec == Init /\ [][Next]_vars /\ WF_vars(RetentionSweeps)

-----------------------------------------------------------------------------

TypeOK ==
  /\ clock \in Times /\ crashes \in 0..MaxCrashes
  /\ \A table \in {hits, durable, came, let} : table \in [Buckets -> [Times -> Nat]]
  /\ pending \in [Kinds -> Nat] /\ seen \in [Needs -> [Kinds -> Nat]]
  /\ misses \in [Needs -> [occurrences: Nat, best: Scores, first: Times, last: Times]]

\* How many a table of moments counts in the stretch of t that begins at from.
Within(count, from, length) == Total([t \in Times \cap from..(from + length - 1) |-> count[t]])

\* No stretch of time as long as a window, wherever it begins, lets through
\* more than two windows' worth, and none that is a window more than one; each
\* crash of the database forgives one window's worth at most.
LimitIsKept ==
  \A b \in Buckets, t \in Times :
    Within(let[b], t, Seconds[b]) <= (crashes + (IF t = WindowStart(b, t) THEN 1 ELSE 2)) * Limit[b]

\* Until a crash, the row of a window that is still open counts every request
\* of the window, the refused ones included: nobody tries again for free, and
\* no sweep gives a caller a fresh window.
EveryHitIsCounted ==
  crashes = 0 =>
    \A b \in Buckets :
      hits[b][WindowStart(b, clock)] = Within(came[b], WindowStart(b, clock), Seconds[b])

\* A row of misses adds up the writes that made it: how many they were, and the
\* closest that any of them came.
MissesAddUp ==
  \A n \in Needs :
    LET writes == {k \in Kinds : seen[n][k] > 0}
    IN  /\ misses[n].occurrences = Total(seen[n])
        /\ writes # {} => misses[n].best = Max({k.score : k \in writes})

\* Neither table loses count, whatever is refused, swept or written late.
CountsAddUp == EveryHitIsCounted /\ MissesAddUp

\* No row is of a time that has not come.
NothingYet ==
  \A b \in Buckets, t \in Times : t > clock =>
    hits[b][t] = 0 /\ durable[b][t] = 0 /\ came[b][t] = 0 /\ let[b][t] = 0

\* What a window has let through,
Spent(b, w) == Within(let[b], w, Seconds[b])

\* and what it may have, if nothing was ever taken back: nothing before it
\* opens, what its row says while it is open, all of the limit afterwards.
Allowed(b, w) ==
  IF w > clock THEN 0
  ELSE IF WindowStart(b, clock) = w THEN Min({hits[b][w], Limit[b]}) ELSE Limit[b]

\* A crash gives back what the window that is open has used, and that once for
\* two windows next to each other: only one of them is open.
SpentInv ==
  \A b \in Buckets, w \in Times : w = WindowStart(b, w) =>
    LET next == w + Seconds[b]
    IN  /\ Spent(b, w) <= crashes * Limit[b] + Allowed(b, w)
        /\ Spent(b, w) + Spent(b, next) <= crashes * Limit[b] + Allowed(b, w) + Allowed(b, next)

DemandInv == TypeOK /\ NothingYet /\ SpentInv /\ CountsAddUp

\* What nobody asks for any more is gone in the end, if only the job's cron
\* fires: a row that is too old is deleted or asked for again.
ForgottenInTheEnd ==
  \A n \in Needs : Forgotten(misses[n], clock) ~> ~Forgotten(misses[n], clock)
=============================================================================
