------------------------------ MODULE Evidence ------------------------------
(***************************************************************************)
(* The evidence of one version: recompute and rebuild of                   *)
(* packages/reputation/src/boobs_reputation/evidence.py, called by         *)
(* report_result, by verify_execution and by the scheduler.                *)
(*                                                                         *)
(* Each caller is one READ COMMITTED transaction. It may insert rows,      *)
(* reads the stored checkpoint, reads the runs and then the verifications  *)
(* that came since, and upserts what it made of them. Its statements see   *)
(* its own rows and whatever is committed when each of them begins.        *)
(***************************************************************************)
EXTENDS Naturals, FiniteSets

CONSTANTS
  Runs,           \* runs of the version; each is also the transaction that reports it
  Verifiers,      \* requests to verify a recorded run again
  Sweeps,         \* scheduler processes running the evidence job
  Nobody,         \* no transaction
  Outcomes,       \* outcomes the instance considers
  BoundaryLimit,  \* evidence.BOUNDARY_LIMIT
  MaxTime         \* bound on the clock

Txs == Runs \cup Verifiers \cup Sweeps

\* proven: succeeded, and its verifier passed; unproven: succeeded, and it did
\* not; broken: any other terminal status; replayed: cached, never verified.
AllOutcomes == {"proven", "unproven", "broken", "replayed"}

ASSUME EvidenceAssumption ==
  /\ IsFiniteSet(Runs) /\ IsFiniteSet(Verifiers)
  /\ Runs \cap Verifiers = {} /\ Runs \cap Sweeps = {} /\ Verifiers \cap Sweeps = {}
  /\ Nobody \notin Txs
  /\ Outcomes \subseteq AllOutcomes
  /\ BoundaryLimit \in Nat /\ MaxTime \in Nat \ {0}

VARIABLES
  clock,      \* now()
  execution,  \* the row each report writes
  verdict,    \* the verifications row each report or verifier writes
  committed,  \* transactions whose rows are committed
  stat,       \* the committed execution_stats row and its checkpoint
  lock,       \* the transaction that holds the row lock of stat
  phase,      \* how far each transaction has come
  draft,      \* what each transaction holds in memory
  alone,      \* transactions that have been the only one since they began
  suspect     \* transactions have overlapped since a sweep last ran alone

vars == <<clock, execution, verdict, committed, stat, lock, phase, draft, alone, suspect>>

-----------------------------------------------------------------------------

Time == 0..MaxTime

\* What the numbers are made of. Every count, organization, duration and
\* failure mode of a run is added when the run is counted, and is a function
\* of how often it was counted as what; proven holds the runs whose verifier's
\* level was taken over.
Numbers == [worked: [Runs -> Nat], failed: [Runs -> Nat], proven: SUBSET Runs]
Checkpoints == [numbers: Numbers, cursor: Time, seen: SUBSET Runs,
                verifiedCursor: Time, verifiedSeen: SUBSET (Runs \cup Verifiers)]

Zero == [worked |-> [r \in Runs |-> 0], failed |-> [r \in Runs |-> 0], proven |-> {}]
Nothing == [numbers |-> Zero, cursor |-> 0, seen |-> {}, verifiedCursor |-> 0, verifiedSeen |-> {}]

Drafts == [base: Checkpoints, rescan: BOOLEAN, fresh: SUBSET Runs, good: SUBSET Runs]
NoDraft == [base |-> Nothing, rescan |-> FALSE, fresh |-> {}, good |-> {}]

NoRow == [outcome |-> "none", at |-> 0]
NoVerdict == [run |-> Nobody, passed |-> FALSE, at |-> 0]

Phases == {"idle", "recorded", "written", "restored", "read", "folded", "upserted", "done"}

Visible(t) == committed \cup {t}

\* A run counts as successful only if the sandbox succeeded and a verifier passed.
Worked(r, visible) ==
  /\ execution[r].outcome \in {"proven", "unproven"}
  /\ \E v \in (Runs \cup Verifiers) \cap visible : verdict[v].run = r /\ verdict[v].passed

Observed(visible) == {r \in Runs \cap visible : execution[r].outcome # "replayed"}

Judged(visible) == {v \in (Runs \cup Verifiers) \cap visible : verdict[v].run # Nobody}

\* What the immutable rows say.
TheNumbers(visible) ==
  [worked |-> [r \in Runs |-> IF r \in Observed(visible) /\ Worked(r, visible) THEN 1 ELSE 0],
   failed |-> [r \in Runs |-> IF r \in Observed(visible) /\ ~Worked(r, visible) THEN 1 ELSE 0],
   proven |-> {r \in Observed(visible) : Worked(r, visible)}]

Later(m, times) == CHOOSE x \in times \cup {m} : \A y \in times \cup {m} : y <= x

\* _absorb: a batch of runs, those of them that worked, and of verifications.
Absorbed(s, fresh, good, verdicts) ==
  LET cursor == Later(s.cursor, {execution[r].at : r \in fresh})
      verified == Later(s.verifiedCursor, {verdict[v].at : v \in verdicts})
  IN  [numbers |->
         [worked |-> [r \in Runs |-> s.numbers.worked[r] + (IF r \in good THEN 1 ELSE 0)],
          failed |-> [r \in Runs |->
                        s.numbers.failed[r] + (IF r \in fresh \ good THEN 1 ELSE 0)],
          proven |-> s.numbers.proven \cup
                       {r \in good : \E v \in verdicts : verdict[v].run = r /\ verdict[v].passed}],
       cursor |-> cursor,
       seen |-> {r \in fresh : execution[r].at = cursor}
                  \cup (IF s.cursor = cursor THEN s.seen ELSE {}),
       verifiedCursor |-> verified,
       verifiedSeen |-> {v \in verdicts : verdict[v].at = verified}
                          \cup (IF s.verifiedCursor = verified THEN s.verifiedSeen ELSE {})]

-----------------------------------------------------------------------------

Init ==
  /\ clock = 1
  /\ execution = [r \in Runs |-> NoRow]
  /\ verdict = [v \in Runs \cup Verifiers |-> NoVerdict]
  /\ committed = {}
  /\ stat = Nothing
  /\ lock = Nobody
  /\ phase = [t \in Txs |-> "idle"]
  /\ draft = [t \in Txs |-> NoDraft]
  /\ alone = {}
  /\ suspect = FALSE

Open == {t \in Txs : phase[t] \notin {"idle", "done"}}

Begin(t, next) ==
  /\ phase[t] = "idle"
  /\ phase' = [phase EXCEPT ![t] = next]
  /\ alone' = IF Open = {} THEN {t} ELSE {}
  /\ suspect' = (suspect \/ Open # {})

Tick ==
  /\ clock < MaxTime
  /\ clock' = clock + 1
  /\ UNCHANGED <<execution, verdict, committed, stat, lock, phase, draft, alone, suspect>>

\* report_result's guarded UPDATE, with completed_at = now().
Record(r, outcome) ==
  /\ Begin(r, IF outcome = "replayed" THEN "written" ELSE "recorded")
  /\ execution' = [execution EXCEPT ![r] = [outcome |-> outcome, at |-> clock]]
  /\ UNCHANGED <<clock, verdict, committed, stat, lock, draft>>

\* report_result's verdict, a little later.
Judge(r) ==
  /\ r \in Runs /\ phase[r] = "recorded"
  /\ verdict' = [verdict EXCEPT ![r] =
       [run |-> r, passed |-> execution[r].outcome = "proven", at |-> clock]]
  /\ phase' = [phase EXCEPT ![r] = "written"]
  /\ UNCHANGED <<clock, execution, committed, stat, lock, draft, alone, suspect>>

\* verify_execution, on a run somebody else has recorded.
VerifyAgain(v, r, passed) ==
  /\ r \in Runs \cap committed
  /\ Begin(v, "written")
  /\ verdict' = [verdict EXCEPT ![v] = [run |-> r, passed |-> passed, at |-> clock]]
  /\ UNCHANGED <<clock, execution, committed, stat, lock, draft>>

\* Variant: a sweep that recomputes without discarding the checkpoint.
SweepFolding(t) ==
  /\ t \in Sweeps
  /\ Runs \cap committed # {}
  /\ lock = Nobody
  /\ Begin(t, "written")
  /\ lock' = t
  /\ UNCHANGED <<clock, execution, verdict, committed, stat, draft>>

\* rebuild's UPDATE checkpoint = NULL, which takes the row lock.
Sweep(t) ==
  /\ t \in Sweeps
  /\ Runs \cap committed # {}
  /\ lock = Nobody
  /\ Begin(t, "written")
  /\ lock' = t
  /\ draft' = [draft EXCEPT ![t].rescan = TRUE]
  /\ UNCHANGED <<clock, execution, verdict, committed, stat>>

\* _restore: a checkpoint that is missing or remembers too much is not used.
Usable(t) ==
  /\ ~draft[t].rescan
  /\ Runs \cap committed # {}
  /\ Cardinality(stat.seen) <= BoundaryLimit
  /\ Cardinality(stat.verifiedSeen) <= BoundaryLimit

ReadStat(t) ==
  /\ phase[t] = "written"
  /\ draft' = [draft EXCEPT ![t].base = IF Usable(t) THEN stat ELSE Nothing,
                            ![t].rescan = ~Usable(t)]
  /\ phase' = [phase EXCEPT ![t] = "restored"]
  /\ UNCHANGED <<clock, execution, verdict, committed, stat, lock, alone, suspect>>

\* Variant: the runs already folded at the cursor's instant are not taken out.
SinceAgain(t) ==
  {r \in Observed(Visible(t)) : execution[r].at >= draft[t].base.cursor}

\* Variant: replays are read with the rest.
SinceReplayed(t) ==
  {r \in Runs \cap Visible(t) :
     execution[r].at >= draft[t].base.cursor /\ r \notin draft[t].base.seen}

\* Everything at or after the cursor, except what was folded at that instant.
Since(t) ==
  {r \in Observed(Visible(t)) :
     execution[r].at >= draft[t].base.cursor /\ r \notin draft[t].base.seen}

ReadRuns(t) ==
  /\ phase[t] = "restored"
  /\ draft' = [draft EXCEPT ![t].fresh = Since(t),
                            ![t].good = {r \in Since(t) : Worked(r, Visible(t))}]
  /\ phase' = [phase EXCEPT ![t] = "read"]
  /\ UNCHANGED <<clock, execution, verdict, committed, stat, lock, alone, suspect>>

VerdictsSince(t) ==
  {v \in Judged(Visible(t)) :
     verdict[v].at >= draft[t].base.verifiedCursor /\ v \notin draft[t].base.verifiedSeen}

\* Variant: a fold that never falls back to a rebuild.
LateVerdictNever(t) == FALSE

\* A run that was already counted has just been verified.
LateVerdict(t) ==
  /\ ~draft[t].rescan
  /\ \E v \in VerdictsSince(t) : verdict[v].passed /\ verdict[v].run \notin draft[t].fresh

\* _extend answers False: from zero again.
FallBack(t) ==
  /\ phase[t] = "read"
  /\ LateVerdict(t)
  /\ draft' = [draft EXCEPT ![t] = [NoDraft EXCEPT !.rescan = TRUE]]
  /\ phase' = [phase EXCEPT ![t] = "restored"]
  /\ UNCHANGED <<clock, execution, verdict, committed, stat, lock, alone, suspect>>

Fold(t) ==
  /\ phase[t] = "read"
  /\ ~LateVerdict(t)
  /\ draft' = [draft EXCEPT ![t] = [NoDraft EXCEPT !.base =
       Absorbed(draft[t].base, draft[t].fresh, draft[t].good, VerdictsSince(t))]]
  /\ phase' = [phase EXCEPT ![t] = "folded"]
  /\ UNCHANGED <<clock, execution, verdict, committed, stat, lock, alone, suspect>>

\* The upsert waits for the row, and writes what was computed before the wait.
Upsert(t) ==
  /\ phase[t] = "folded"
  /\ lock \in {Nobody, t}
  /\ lock' = t
  /\ phase' = [phase EXCEPT ![t] = "upserted"]
  /\ UNCHANGED <<clock, execution, verdict, committed, stat, draft, alone, suspect>>

\* The rows and the numbers become visible together.
Commit(t) ==
  /\ phase[t] = "upserted"
  /\ committed' = IF t \in Sweeps THEN committed ELSE committed \cup {t}
  /\ stat' = draft[t].base
  /\ lock' = Nobody
  /\ phase' = [phase EXCEPT ![t] = IF t \in Sweeps THEN "idle" ELSE "done"]
  /\ draft' = [draft EXCEPT ![t] = NoDraft]
  /\ alone' = alone \ {t}
  /\ suspect' = (suspect /\ ~(t \in Sweeps /\ t \in alone))
  /\ UNCHANGED <<clock, execution, verdict>>

\* The process or its connection dies: nothing of the transaction stays.
Abort(t) ==
  /\ t \in Open
  /\ execution' = [r \in Runs |-> IF r = t THEN NoRow ELSE execution[r]]
  /\ verdict' = [v \in Runs \cup Verifiers |-> IF v = t THEN NoVerdict ELSE verdict[v]]
  /\ lock' = IF lock = t THEN Nobody ELSE lock
  /\ phase' = [phase EXCEPT ![t] = "idle"]
  /\ draft' = [draft EXCEPT ![t] = NoDraft]
  /\ alone' = alone \ {t}
  /\ UNCHANGED <<clock, committed, stat, suspect>>

Step(t) ==
  Judge(t) \/ ReadStat(t) \/ ReadRuns(t) \/ FallBack(t) \/ Fold(t) \/ Upsert(t) \/ Commit(t)

Next ==
  \/ Tick
  \/ \E r \in Runs, outcome \in Outcomes : Record(r, outcome)
  \/ \E v \in Verifiers, r \in Runs, passed \in BOOLEAN : VerifyAgain(v, r, passed)
  \/ \E t \in Sweeps : Sweep(t)
  \/ \E t \in Txs : Step(t) \/ Abort(t)

Spec == Init /\ [][Next]_vars

\* Whoever holds the row lock lets it go: it has only to commit. The job runs on
\* a schedule, gets the lock when it comes round, and may die, but not every
\* time. Of the others nothing is asked.
Fairness ==
  /\ \A t \in Txs : WF_vars(Commit(t))
  /\ \A t \in Sweeps : /\ SF_vars(Sweep(t))
                       /\ WF_vars(Step(t))
                       /\ []<><<Sweep(t)>>_vars => []<><<Commit(t)>>_vars

FairSpec == Spec /\ Fairness

-----------------------------------------------------------------------------
(* Properties.                                                             *)

\* Every variable has the type of its column, or of what a handler holds.
TypeOK ==
  /\ clock \in Time
  /\ execution \in [Runs -> [outcome: Outcomes \cup {"none"}, at: Time]]
  /\ verdict \in [Runs \cup Verifiers -> [run: Runs \cup {Nobody}, passed: BOOLEAN, at: Time]]
  /\ committed \subseteq Runs \cup Verifiers
  /\ stat \in Checkpoints
  /\ lock \in Txs \cup {Nobody}
  /\ phase \in [Txs -> Phases]
  /\ draft \in [Txs -> Drafts]
  /\ alone \subseteq Open
  /\ suspect \in BOOLEAN

CountedOnce(n) == \A r \in Runs : n.worked[r] + n.failed[r] <= 1

\* However reports, verifications and sweeps interleave, and however many runs
\* end in one instant, no run is ever counted twice: the >= of _extend and the
\* ids it subtracts make up for each other.
NeverCountedTwice == CountedOnce(stat.numbers)

\* The stored numbers are never ahead of the immutable rows: whatever they
\* count is a committed run that was observed, and a success is one whose
\* verifier is on record as having passed. Replays, aborted reports and
\* verifications that died with their transaction count for nothing.
NothingInvented ==
  \A r \in Runs :
    /\ stat.numbers.worked[r] + stat.numbers.failed[r] > 0 => r \in Observed(committed)
    /\ stat.numbers.worked[r] > 0 \/ r \in stat.numbers.proven => Worked(r, committed)

Exact == stat.numbers = TheNumbers(committed)

\* "Either way the answer is the same answer; only the cost differs": fold or
\* rebuild, the stored numbers are those of the committed rows, as long as no
\* two transactions have overlapped since the scheduler last had the version
\* to itself.
ExactUnlessOverlapped == ~suspect => Exact

\* "If a checkpoint ever diverged it is corrected": whatever overlaps and
\* crashes have done, the numbers end up being those of the rows and stay so.
EventuallyExact == <>[]Exact

-----------------------------------------------------------------------------
(* Why the safety properties hold.                                         *)

\* Phases in which a transaction holds numbers.
Counting == {"restored", "read", "folded", "upserted"}

\* A transaction writes rows of its own, once, and before it counts; a
\* verification is of its own run or of a committed one.
RowInv ==
  /\ \A t \in committed : phase[t] = "done"
  /\ \A v \in Runs \cup Verifiers :
       /\ phase[v] \in {"idle", "recorded"} => verdict[v].run = Nobody
       /\ v \in Runs => verdict[v].run \in {v, Nobody}
       /\ verdict[v].run \in {v, Nobody} \cup committed
  /\ \A t \in Txs :
       /\ phase[t] \notin Counting => draft[t].base = Nothing
       /\ phase[t] # "read" => draft[t].fresh = {} /\ draft[t].good = {}

\* The cursor stands at the latest run that was folded, and the ids beside it
\* are those of its instant: what has been counted is not read again.
Behind(r, s) ==
  \/ execution[r].at < s.cursor
  \/ execution[r].at = s.cursor /\ r \in s.seen

\* What may be believed of a checkpoint made of these rows.
Sound(s, visible) ==
  /\ s.seen \subseteq visible /\ s.verifiedSeen \subseteq visible
  /\ s.cursor <= clock /\ s.verifiedCursor <= clock
  /\ CountedOnce(s.numbers)
  /\ \A r \in Runs :
       /\ s.numbers.worked[r] + s.numbers.failed[r] > 0 => r \in Observed(visible) /\ Behind(r, s)
       /\ s.numbers.worked[r] > 0 \/ r \in s.numbers.proven => r \in visible /\ Worked(r, visible)

\* What a transaction has read since the checkpoint is not in it.
FreshInv(t) ==
  /\ \A r \in draft[t].fresh : r \in Observed(Visible(t)) /\ ~Behind(r, draft[t].base)
  /\ \A r \in draft[t].fresh : execution[r].at >= draft[t].base.cursor
  /\ \A r \in draft[t].good : r \in draft[t].fresh /\ Worked(r, Visible(t))

CountInv ==
  /\ \A r \in Runs : execution[r].at <= clock
  /\ \A v \in Runs \cup Verifiers : verdict[v].at <= clock
  /\ Sound(stat, committed)
  /\ \A t \in Txs : Sound(draft[t].base, Visible(t)) /\ FreshInv(t)

\* A transaction that has the version to itself works on what it found, and
\* its own rows are later than all of that; a sweep starts from zero.
AloneInv ==
  \A t \in alone :
    /\ Open = {t}
    /\ t \in Runs => execution[t].at >= stat.cursor
    /\ t \in Runs \cup Verifiers /\ verdict[t].run # Nobody => verdict[t].at >= stat.verifiedCursor
    /\ phase[t] \in {"restored", "read"} =>
         draft[t].base = IF draft[t].rescan THEN Nothing ELSE stat
    /\ phase[t] = "read" =>
         draft[t].fresh = Since(t) /\ draft[t].good = {r \in Since(t) : Worked(r, Visible(t))}
    /\ t \in Sweeps /\ phase[t] \in {"written", "restored", "read"} => draft[t].rescan
    /\ (t \in Sweeps \/ ~suspect) /\ phase[t] \in {"folded", "upserted"} =>
         draft[t].base.numbers = TheNumbers(Visible(t))

\* While nothing has overlapped, the numbers are those of the rows.
ExactInv == ~suspect => Exact /\ Open \subseteq alone

EvidenceInv == TypeOK /\ RowInv /\ CountInv

=============================================================================
