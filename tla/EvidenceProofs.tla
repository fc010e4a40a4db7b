--------------------------- MODULE EvidenceProofs ---------------------------
(***************************************************************************)
(* Proofs about Evidence, for any number of reports, verifiers and sweeps, *)
(* any limit and any clock. EvidenceInv says what a checkpoint may be      *)
(* trusted with; AloneInv and ExactInv, on top of it, when it is exact.    *)
(***************************************************************************)
EXTENDS Evidence, FiniteSetTheorems, NaturalsInduction, WellFoundedInduction, TLAPS

\* A set of instants has a latest one.
LEMMA Latest ==
  ASSUME NEW m \in Time, NEW S \in SUBSET Time
  PROVE  Later(m, S) \in S \cup {m} /\ \A y \in S \cup {m} : y <= Later(m, S)
<1> DEFINE T == {MaxTime - x : x \in S \cup {m}}
<1>1. MaxTime \in Nat
  BY EvidenceAssumption
<1>2. T \in SUBSET Nat /\ T # {}
  <2>1. \A x \in S \cup {m} : MaxTime - x \in Nat
    BY <1>1 DEF Time
  <2> QED
    BY <2>1
<1>3. PICK t \in T : \A u \in T : <<u, t>> \notin OpToRel(<, Nat)
  BY <1>2, NatLessThanWellFounded, WFMin
<1>4. PICK x \in S \cup {m} : t = MaxTime - x
  BY <1>3
<1>5. ASSUME NEW y \in S \cup {m} PROVE y <= x
  <2>1. x \in Nat /\ y \in Nat /\ x <= MaxTime /\ y <= MaxTime
    BY <1>1 DEF Time
  <2>2. MaxTime - y \in T
    OBVIOUS
  <2>3. ~(MaxTime - y < MaxTime - x)
    <3> SUFFICES ASSUME MaxTime - y < MaxTime - x PROVE FALSE
      OBVIOUS
    <3>1. MaxTime - y \in Nat /\ MaxTime - x \in Nat
      BY <1>1, <2>1
    <3>2. <<MaxTime - y, MaxTime - x>> \in OpToRel(<, Nat)
      BY <3>1 DEF OpToRel
    <3> QED
      BY <1>3, <1>4, <2>2, <3>2
  <2> QED
    BY <1>1, <2>1, <2>3
<1> QED
  BY <1>5 DEF Later

-----------------------------------------------------------------------------
(* The types.                                                              *)

\* What _absorb makes of a checkpoint is a checkpoint.
LEMMA AbsorbedType ==
  ASSUME TypeOK, NEW s \in Checkpoints, NEW fresh \in SUBSET Runs, NEW good \in SUBSET Runs,
         NEW verdicts \in SUBSET (Runs \cup Verifiers)
  PROVE  Absorbed(s, fresh, good, verdicts) \in Checkpoints
<1> DEFINE cursor == Later(s.cursor, {execution[r].at : r \in fresh})
           verified == Later(s.verifiedCursor, {verdict[v].at : v \in verdicts})
<1>1. cursor \in Time /\ verified \in Time
  <2>1. s.cursor \in Time /\ s.verifiedCursor \in Time
    BY DEF Checkpoints
  <2>2. {execution[r].at : r \in fresh} \in SUBSET Time
    BY DEF TypeOK
  <2>3. {verdict[v].at : v \in verdicts} \in SUBSET Time
    BY DEF TypeOK
  <2> QED
    BY <2>1, <2>2, <2>3, Latest
<1>2. s.numbers \in Numbers /\ s.seen \in SUBSET Runs /\ s.verifiedSeen \in SUBSET (Runs \cup Verifiers)
  BY DEF Checkpoints
<1>3. [worked |-> [r \in Runs |-> s.numbers.worked[r] + (IF r \in good THEN 1 ELSE 0)],
       failed |-> [r \in Runs |-> s.numbers.failed[r] + (IF r \in fresh \ good THEN 1 ELSE 0)],
       proven |-> s.numbers.proven \cup
                    {r \in good : \E v \in verdicts : verdict[v].run = r /\ verdict[v].passed}]
        \in Numbers
  <2>1. [r \in Runs |-> s.numbers.worked[r] + (IF r \in good THEN 1 ELSE 0)] \in [Runs -> Nat]
    BY <1>2 DEF Numbers
  <2>2. [r \in Runs |-> s.numbers.failed[r] + (IF r \in fresh \ good THEN 1 ELSE 0)] \in [Runs -> Nat]
    BY <1>2 DEF Numbers
  <2>3. s.numbers.proven \cup
          {r \in good : \E v \in verdicts : verdict[v].run = r /\ verdict[v].passed} \in SUBSET Runs
    BY <1>2 DEF Numbers
  <2> QED
    BY <2>1, <2>2, <2>3 DEF Numbers
<1>4. {r \in fresh : execution[r].at = cursor} \cup (IF s.cursor = cursor THEN s.seen ELSE {})
        \in SUBSET Runs
  BY <1>2
<1>5. {v \in verdicts : verdict[v].at = verified}
        \cup (IF s.verifiedCursor = verified THEN s.verifiedSeen ELSE {})
        \in SUBSET (Runs \cup Verifiers)
  BY <1>2
<1> HIDE DEF cursor, verified
<1>6. [numbers |->
         [worked |-> [r \in Runs |-> s.numbers.worked[r] + (IF r \in good THEN 1 ELSE 0)],
          failed |-> [r \in Runs |-> s.numbers.failed[r] + (IF r \in fresh \ good THEN 1 ELSE 0)],
          proven |-> s.numbers.proven \cup
                       {r \in good : \E v \in verdicts : verdict[v].run = r /\ verdict[v].passed}],
       cursor |-> cursor,
       seen |-> {r \in fresh : execution[r].at = cursor}
                  \cup (IF s.cursor = cursor THEN s.seen ELSE {}),
       verifiedCursor |-> verified,
       verifiedSeen |-> {v \in verdicts : verdict[v].at = verified}
                          \cup (IF s.verifiedCursor = verified THEN s.verifiedSeen ELSE {})]
        \in Checkpoints
  BY <1>1, <1>3, <1>4, <1>5 DEF Checkpoints
<1> QED
  BY <1>6 DEF Absorbed, cursor, verified

\* What a transaction reads are runs, and verifications.
LEMMA ReadsType ==
  ASSUME NEW t \in Txs
  PROVE  Since(t) \in SUBSET Runs /\ VerdictsSince(t) \in SUBSET (Runs \cup Verifiers)
  BY DEF Since, Observed, VerdictsSince, Judged

\* An empty draft and an empty checkpoint are ones.
LEMMA NoDraftType == NoDraft \in Drafts /\ Nothing \in Checkpoints
<1>1. 0 \in Time
  BY EvidenceAssumption DEF Time
<1>2. Zero \in Numbers
  BY DEF Zero, Numbers
<1> QED
  BY <1>1, <1>2 DEF NoDraft, Nothing, Drafts, Checkpoints

\* What becomes of a transaction, and of the draft it holds, in one step.
Moves(t) ==
  \/ /\ draft'[t] = draft[t]
     /\ \/ phase'[t] = phase[t]
        \/ phase[t] = "folded" /\ phase'[t] = "upserted"
        \/ /\ t \notin Sweeps
           /\ <<phase[t], phase'[t]>> \in
                {<<"idle", "recorded">>, <<"idle", "written">>, <<"recorded", "written">>}
  \/ draft'[t] = NoDraft /\ phase'[t] \in {"idle", "done"}
  \/ /\ phase[t] = "idle" /\ phase'[t] = "written"
     /\ draft'[t] = [draft[t] EXCEPT !.rescan = TRUE]
  \/ /\ phase[t] = "written" /\ phase'[t] = "restored"
     /\ draft'[t] = [draft[t] EXCEPT !.base = IF Usable(t) THEN stat ELSE Nothing,
                                     !.rescan = ~Usable(t)]
  \/ /\ phase[t] = "restored" /\ phase'[t] = "read"
     /\ draft'[t] = [draft[t] EXCEPT !.fresh = Since(t),
                                     !.good = {r \in Since(t) : Worked(r, Visible(t))}]
  \/ /\ phase[t] = "read" /\ phase'[t] = "restored"
     /\ draft'[t] = [NoDraft EXCEPT !.rescan = TRUE]
  \/ /\ phase[t] = "read" /\ phase'[t] = "folded" /\ ~LateVerdict(t)
     /\ draft'[t] = [NoDraft EXCEPT !.base =
                       Absorbed(draft[t].base, draft[t].fresh, draft[t].good, VerdictsSince(t))]

\* A transaction makes no other move, whoever acts.
LEMMA MovesStep == TypeOK /\ [Next]_vars => \A t \in Txs : Moves(t)
<1> SUFFICES ASSUME TypeOK, [Next]_vars, NEW t \in Txs PROVE Moves(t)
  OBVIOUS
<1>1. CASE UNCHANGED <<phase, draft>>
  BY <1>1 DEF Moves
<1>2. ASSUME NEW u \in Txs, NEW to, NEW d, phase' = [phase EXCEPT ![u] = to],
             draft' = [draft EXCEPT ![u] = d]
      PROVE  /\ t # u => Moves(t)
             /\ phase'[u] = to /\ draft'[u] = d
  BY <1>2 DEF TypeOK, Moves
<1>3. ASSUME NEW u \in Txs, NEW to, phase' = [phase EXCEPT ![u] = to], UNCHANGED draft
      PROVE  /\ t # u => Moves(t)
             /\ phase'[u] = to /\ draft'[u] = draft[u]
  BY <1>3 DEF TypeOK, Moves
<1>4. ASSUME NEW r \in Runs, NEW outcome \in Outcomes, Record(r, outcome) PROVE Moves(t)
  <2>1. r \in Txs /\ phase[r] = "idle" /\ UNCHANGED draft
    BY <1>4 DEF Record, Begin, Txs
  <2>2. PICK to \in {"recorded", "written"} : phase' = [phase EXCEPT ![r] = to]
    BY <1>4 DEF Record, Begin
  <2>3. r \notin Sweeps
    BY EvidenceAssumption
  <2> QED
    BY <2>1, <2>2, <2>3, <1>3 DEF Moves
<1>5. ASSUME Judge(t) \/ Upsert(t) PROVE Moves(t)
  BY <1>5, EvidenceAssumption DEF Judge, Upsert, Moves, TypeOK
<1>6. ASSUME NEW u \in Txs, Judge(u) \/ Upsert(u), u # t PROVE Moves(t)
  BY <1>6 DEF Judge, Upsert, Moves, TypeOK
<1>7. ASSUME NEW v \in Verifiers, NEW r \in Runs, NEW passed \in BOOLEAN, VerifyAgain(v, r, passed)
      PROVE  Moves(t)
  <2>1. v \in Txs /\ phase[v] = "idle" /\ UNCHANGED draft /\ phase' = [phase EXCEPT ![v] = "written"]
        /\ v \notin Sweeps
    BY <1>7, EvidenceAssumption DEF VerifyAgain, Begin, Txs
  <2> QED
    BY <2>1, <1>3 DEF Moves
<1>8. ASSUME NEW u \in Sweeps, Sweep(u) PROVE Moves(t)
  <2>1. u \in Txs /\ phase[u] = "idle" /\ phase' = [phase EXCEPT ![u] = "written"]
    BY <1>8 DEF Sweep, Begin, Txs
  <2>2. draft' = [draft EXCEPT ![u] = [draft[u] EXCEPT !.rescan = TRUE]]
    BY <1>8 DEF Sweep
  <2> QED
    BY <2>1, <2>2, <1>2, ZenonT(30) DEF Moves
<1>9. ASSUME NEW u \in Txs, ReadStat(u) PROVE Moves(t)
  <2> DEFINE d == [draft[u] EXCEPT !.base = IF Usable(u) THEN stat ELSE Nothing, !.rescan = ~Usable(u)]
  <2>1. phase[u] = "written" /\ phase' = [phase EXCEPT ![u] = "restored"]
    BY <1>9 DEF ReadStat
  <2>2. draft' = [draft EXCEPT ![u] = d]
    BY <1>9 DEF ReadStat, TypeOK, Drafts
  <2>3. t # u => Moves(t)
    BY <2>1, <2>2, <1>2
  <2>4. phase'[u] = "restored" /\ draft'[u] = d
    BY <2>1, <2>2, <1>2
  <2> QED
    BY <2>1, <2>3, <2>4 DEF Moves
<1>10. ASSUME NEW u \in Txs, ReadRuns(u) PROVE Moves(t)
  <2> DEFINE d == [draft[u] EXCEPT !.fresh = Since(u), !.good = {r \in Since(u) : Worked(r, Visible(u))}]
  <2>1. phase[u] = "restored" /\ phase' = [phase EXCEPT ![u] = "read"]
    BY <1>10 DEF ReadRuns
  <2>2. draft' = [draft EXCEPT ![u] = d]
    BY <1>10 DEF ReadRuns, TypeOK, Drafts
  <2>3. t # u => Moves(t)
    BY <2>1, <2>2, <1>2
  <2>4. phase'[u] = "read" /\ draft'[u] = d
    BY <2>1, <2>2, <1>2
  <2> QED
    BY <2>1, <2>3, <2>4 DEF Moves
<1>11. ASSUME NEW u \in Txs, FallBack(u) PROVE Moves(t)
  <2>1. phase[u] = "read" /\ phase' = [phase EXCEPT ![u] = "restored"]
    BY <1>11 DEF FallBack
  <2>2. draft' = [draft EXCEPT ![u] = [NoDraft EXCEPT !.rescan = TRUE]]
    BY <1>11 DEF FallBack
  <2> QED
    BY <2>1, <2>2, <1>2 DEF Moves
<1>12. ASSUME NEW u \in Txs, Fold(u) PROVE Moves(t)
  <2> DEFINE d == [NoDraft EXCEPT !.base =
                     Absorbed(draft[u].base, draft[u].fresh, draft[u].good, VerdictsSince(u))]
  <2>1. phase[u] = "read" /\ ~LateVerdict(u) /\ phase' = [phase EXCEPT ![u] = "folded"]
    BY <1>12 DEF Fold
  <2>2. draft' = [draft EXCEPT ![u] = d]
    BY <1>12 DEF Fold
  <2>3. t # u => Moves(t)
    BY <2>1, <2>2, <1>2
  <2>4. phase'[u] = "folded" /\ draft'[u] = d
    BY <2>1, <2>2, <1>2
  <2> QED
    BY <2>1, <2>3, <2>4 DEF Moves
<1>13. ASSUME NEW u \in Txs, Commit(u) \/ Abort(u) PROVE Moves(t)
  <2>1. draft' = [draft EXCEPT ![u] = NoDraft]
    BY <1>13 DEF Commit, Abort
  <2>2. PICK to \in {"idle", "done"} : phase' = [phase EXCEPT ![u] = to]
    BY <1>13 DEF Commit, Abort
  <2> QED
    BY <2>1, <2>2, <1>2 DEF Moves
<1> QED
  BY <1>1, <1>4, <1>5, <1>6, <1>7, <1>8, <1>9, <1>10, <1>11, <1>12, <1>13
  DEF Next, Step, vars, Tick

\* A report's row is written when it begins, and goes if it dies.
RunMoves(r) ==
  \/ execution'[r] = execution[r] /\ (phase[r] = "idle" => phase'[r] = "idle")
  \/ /\ phase[r] = "idle" /\ phase'[r] \in {"recorded", "written"}
     /\ execution'[r] \in [outcome: Outcomes, at: {clock}]
  \/ /\ phase[r] \notin {"idle", "done"} /\ phase'[r] = "idle"
     /\ execution'[r] = NoRow

\* So is a verification, by a report a little later.
VerdictMoves(v) ==
  \/ verdict'[v] = verdict[v] /\ (phase'[v] \in {"idle", "recorded"} => phase[v] = "idle" \/ phase'[v] = phase[v])
  \/ /\ v \in Runs /\ phase[v] = "recorded" /\ phase'[v] = "written"
     /\ verdict'[v] \in [run: {v}, passed: BOOLEAN, at: {clock}]
  \/ /\ v \in Verifiers /\ phase[v] = "idle" /\ phase'[v] = "written"
     /\ verdict'[v] \in [run: Runs \cap committed, passed: BOOLEAN, at: {clock}]
  \/ /\ phase[v] \notin {"idle", "done"} /\ phase'[v] = "idle"
     /\ verdict'[v] = NoVerdict

\* A transaction commits all of it, or none.
CommitMoves ==
  \/ UNCHANGED <<committed, stat>> /\ \A t \in committed : phase[t] = "done" => phase'[t] = "done"
  \/ \E t \in Txs :
       /\ phase[t] = "upserted" /\ stat' = draft[t].base
       /\ \/ t \in Sweeps /\ committed' = committed /\ phase' = [phase EXCEPT ![t] = "idle"]
          \/ t \notin Sweeps /\ committed' = committed \cup {t} /\ phase' = [phase EXCEPT ![t] = "done"]

\* Rows are written by the transaction they belong to and by nobody else.
LEMMA RowMoves ==
  ASSUME TypeOK, [Next]_vars
  PROVE  /\ \A r \in Runs : RunMoves(r)
         /\ \A v \in Runs \cup Verifiers : VerdictMoves(v)
<1> DEFINE Rows == /\ \A r \in Runs : RunMoves(r)
                   /\ \A v \in Runs \cup Verifiers : VerdictMoves(v)
<1>0. Runs \subseteq Txs /\ Verifiers \subseteq Txs /\ Runs \cap Verifiers = {} /\ Runs \cap Sweeps = {}
      /\ Verifiers \cap Sweeps = {}
  BY EvidenceAssumption DEF Txs
<1>1. ASSUME UNCHANGED <<phase, execution, verdict>> PROVE Rows
  BY <1>1 DEF RunMoves, VerdictMoves
<1>2. ASSUME NEW u \in Txs, NEW to \in Phases \ {"idle", "recorded"}, phase' = [phase EXCEPT ![u] = to],
             u \in Sweeps \/ phase[u] # "idle", UNCHANGED <<execution, verdict>>
      PROVE  Rows
  <2>1. \A x \in Txs : phase'[x] = IF x = u THEN to ELSE phase[x]
    BY <1>2 DEF TypeOK
  <2> QED
    BY <1>0, <1>2, <2>1 DEF RunMoves, VerdictMoves
<1>3. ASSUME NEW q \in Runs, NEW outcome \in Outcomes, Record(q, outcome) PROVE Rows
  <2>1. PICK to \in {"recorded", "written"} : phase' = [phase EXCEPT ![q] = to]
    BY <1>3 DEF Record, Begin
  <2>2. \A x \in Txs : phase'[x] = IF x = q THEN to ELSE phase[x]
    BY <1>0, <2>1 DEF TypeOK
  <2>3. \A x \in Runs : execution'[x] = IF x = q THEN [outcome |-> outcome, at |-> clock] ELSE execution[x]
    BY <1>3 DEF Record, TypeOK
  <2>4. UNCHANGED verdict /\ phase[q] = "idle"
    BY <1>3 DEF Record, Begin
  <2> QED
    BY <1>0, <2>1, <2>2, <2>3, <2>4 DEF RunMoves, VerdictMoves
<1>4. ASSUME NEW q \in Txs, Judge(q) PROVE Rows
  <2>1. \A x \in Txs : phase'[x] = IF x = q THEN "written" ELSE phase[x]
    BY <1>4 DEF Judge, TypeOK
  <2>2. q \in Runs /\ phase[q] = "recorded" /\ UNCHANGED execution
    BY <1>4 DEF Judge
  <2>3. PICK passed \in BOOLEAN : passed = (execution[q].outcome = "proven")
    OBVIOUS
  <2>4. \A x \in Runs \cup Verifiers :
          verdict'[x] = IF x = q THEN [run |-> q, passed |-> passed, at |-> clock] ELSE verdict[x]
    BY <1>4, <2>2, <2>3 DEF Judge, TypeOK
  <2> QED
    BY <1>0, <2>1, <2>2, <2>4 DEF RunMoves, VerdictMoves
<1>5. ASSUME NEW v \in Verifiers, NEW r \in Runs, NEW passed \in BOOLEAN, VerifyAgain(v, r, passed)
      PROVE  Rows
  <2>1. \A x \in Txs : phase'[x] = IF x = v THEN "written" ELSE phase[x]
    BY <1>0, <1>5 DEF VerifyAgain, Begin, TypeOK
  <2>2. phase[v] = "idle" /\ UNCHANGED execution /\ r \in Runs \cap committed
    BY <1>5 DEF VerifyAgain, Begin
  <2>3. \A x \in Runs \cup Verifiers :
          verdict'[x] = IF x = v THEN [run |-> r, passed |-> passed, at |-> clock] ELSE verdict[x]
    BY <1>5 DEF VerifyAgain, TypeOK
  <2> QED
    BY <1>0, <2>1, <2>2, <2>3 DEF RunMoves, VerdictMoves
<1>6. ASSUME NEW u \in Txs, Abort(u) PROVE Rows
  <2>1. \A x \in Txs : phase'[x] = IF x = u THEN "idle" ELSE phase[x]
    BY <1>6 DEF Abort, TypeOK
  <2>2. phase[u] \notin {"idle", "done"}
    BY <1>6 DEF Abort, Open
  <2>3. \A x \in Runs : execution'[x] = IF x = u THEN NoRow ELSE execution[x]
    BY <1>6 DEF Abort
  <2>4. \A x \in Runs \cup Verifiers : verdict'[x] = IF x = u THEN NoVerdict ELSE verdict[x]
    BY <1>6 DEF Abort
  <2> QED
    BY <1>0, <2>1, <2>2, <2>3, <2>4 DEF RunMoves, VerdictMoves
<1>7. ASSUME NEW u \in Txs, ReadStat(u) \/ ReadRuns(u) \/ FallBack(u) \/ Fold(u) \/ Upsert(u) \/ Sweep(u)
      PROVE  /\ UNCHANGED <<execution, verdict>> /\ (u \in Sweeps \/ phase[u] # "idle")
             /\ \E to \in Phases \ {"idle", "recorded"} : phase' = [phase EXCEPT ![u] = to]
  BY <1>7 DEF ReadStat, ReadRuns, FallBack, Fold, Upsert, Sweep, Begin, Phases
<1>8. ASSUME NEW u \in Txs, Commit(u) PROVE Rows
  <2>1. CASE u \in Sweeps
    <3>1. \A x \in Txs : phase'[x] = IF x = u THEN "idle" ELSE phase[x]
      BY <1>8, <2>1 DEF Commit, TypeOK
    <3> QED
      BY <1>0, <1>8, <2>1, <3>1 DEF Commit, RunMoves, VerdictMoves
  <2>2. CASE u \notin Sweeps
    BY <1>2, <1>8, <2>2 DEF Commit, Phases
  <2> QED
    BY <2>1, <2>2
<1> HIDE DEF Rows
<1>9. Rows
  BY <1>0, <1>1, <1>2, <1>3, <1>4, <1>5, <1>6, <1>7, <1>8
  DEF Next, Step, vars, Tick, Txs
<1> QED
  BY <1>9 DEF Rows

\* Only a commit changes what is stored or who is committed.
LEMMA CommitStep == TypeOK /\ [Next]_vars => CommitMoves
<1> SUFFICES ASSUME TypeOK, [Next]_vars PROVE CommitMoves
  OBVIOUS
<1>1. ASSUME UNCHANGED <<committed, stat>>, NEW u \in Txs, phase[u] # "done", NEW to,
             phase' = [phase EXCEPT ![u] = to]
      PROVE  CommitMoves
  <2>1. \A t \in committed : phase[t] = "done" => phase'[t] = "done"
    BY <1>1 DEF TypeOK, Txs
  <2> QED
    BY <1>1, <2>1 DEF CommitMoves
<1>2. ASSUME UNCHANGED <<committed, stat, phase>> PROVE CommitMoves
  BY <1>2 DEF CommitMoves
<1>3. ASSUME NEW u \in Txs, Commit(u) PROVE CommitMoves
  BY <1>3 DEF Commit, CommitMoves
<1>4. ASSUME NEW r \in Runs, NEW outcome \in Outcomes, Record(r, outcome)
      PROVE  UNCHANGED <<committed, stat>> /\ phase[r] # "done" /\ \E to : phase' = [phase EXCEPT ![r] = to]
  BY <1>4 DEF Record, Begin
<1>5. ASSUME NEW v \in Verifiers, NEW r \in Runs, NEW passed \in BOOLEAN, VerifyAgain(v, r, passed)
      PROVE  UNCHANGED <<committed, stat>> /\ phase[v] # "done" /\ \E to : phase' = [phase EXCEPT ![v] = to]
  BY <1>5 DEF VerifyAgain, Begin
<1>6. ASSUME NEW u \in Txs, Sweep(u) \/ Judge(u) \/ ReadStat(u) \/ ReadRuns(u) \/ FallBack(u) \/ Fold(u)
                            \/ Upsert(u) \/ Abort(u)
      PROVE  UNCHANGED <<committed, stat>> /\ phase[u] # "done" /\ \E to : phase' = [phase EXCEPT ![u] = to]
  BY <1>6 DEF Sweep, Begin, Judge, ReadStat, ReadRuns, FallBack, Fold, Upsert, Abort, Open
<1> QED
  BY <1>1, <1>2, <1>3, <1>4, <1>5, <1>6 DEF Next, Step, vars, Tick, Txs

\* Who is at work, whether somebody has it to himself, and what he leaves.
AloneMoves ==
  \/ Open' = Open /\ UNCHANGED <<alone, suspect, committed, stat>>
  \/ \E t \in Txs :
       /\ phase[t] = "idle" /\ Open' = Open \cup {t}
       /\ alone' = IF Open = {} THEN {t} ELSE {}
       /\ suspect' = (suspect \/ Open # {})
       /\ UNCHANGED <<committed, stat>>
  \/ \E t \in Open :
       /\ Open' = Open \ {t}
       /\ alone' = alone \ {t}
       /\ \/ UNCHANGED <<suspect, committed, stat>>
          \/ /\ phase[t] = "upserted" /\ stat' = draft[t].base
             /\ suspect' = (suspect /\ ~(t \in Sweeps /\ t \in alone))
             /\ \/ t \in Sweeps /\ committed' = committed
                \/ t \notin Sweeps /\ committed' = committed \cup {t} /\ phase'[t] = "done"

\* A step lets one begin, lets one end, or does neither.
LEMMA AloneMovesStep == TypeOK /\ [Next]_vars => AloneMoves
<1> SUFFICES ASSUME TypeOK, [Next]_vars PROVE AloneMoves
  OBVIOUS
<1>1. CASE UNCHANGED <<phase, alone, suspect, committed, stat>>
  BY <1>1 DEF AloneMoves, Open
<1>2. ASSUME NEW t \in Txs, NEW next \in Phases \ {"idle", "done"}, Begin(t, next),
             UNCHANGED <<committed, stat>>
      PROVE  AloneMoves
  <2>1. phase[t] = "idle" /\ \A x \in Txs : phase'[x] = IF x = t THEN next ELSE phase[x]
    BY <1>2 DEF Begin, TypeOK
  <2>2. Open' = Open \cup {t}
    BY <1>2, <2>1 DEF Open
  <2> QED
    BY <1>2, <2>1, <2>2 DEF Begin, AloneMoves
<1>3. ASSUME NEW t \in Txs, Commit(t) \/ Abort(t) PROVE AloneMoves
  <2>1. PICK to \in {"idle", "done"} : phase' = [phase EXCEPT ![t] = to]
    BY <1>3 DEF Commit, Abort
  <2>2. \A x \in Txs : phase'[x] = IF x = t THEN to ELSE phase[x]
    BY <2>1 DEF TypeOK
  <2>3. t \in Open /\ Open' = Open \ {t}
    BY <1>3, <2>2 DEF Open, Commit, Abort
  <2>4. CASE Abort(t)
    BY <2>3, <2>4 DEF AloneMoves, Abort
  <2>5. CASE Commit(t)
    <3>1. t \notin Sweeps => phase'[t] = "done"
      BY <2>5 DEF Commit, TypeOK
    <3> QED
      BY <2>3, <2>5, <3>1 DEF AloneMoves, Commit
  <2> QED
    BY <1>3, <2>4, <2>5
<1>4. ASSUME NEW t \in Txs, Judge(t) \/ ReadStat(t) \/ ReadRuns(t) \/ FallBack(t) \/ Fold(t) \/ Upsert(t)
      PROVE  AloneMoves
  <2>1. /\ phase[t] \in Phases \ {"idle", "done"} /\ UNCHANGED <<alone, suspect, committed, stat>>
        /\ \E to \in Phases \ {"idle", "done"} : phase' = [phase EXCEPT ![t] = to]
    BY <1>4 DEF Judge, ReadStat, ReadRuns, FallBack, Fold, Upsert, Phases
  <2>2. Open' = Open
    BY <2>1 DEF Open, TypeOK
  <2> QED
    BY <2>1, <2>2 DEF AloneMoves
<1>5. ASSUME NEW r \in Runs, NEW outcome \in Outcomes, Record(r, outcome)
      PROVE  /\ r \in Txs /\ \E next \in Phases \ {"idle", "done"} : Begin(r, next)
             /\ UNCHANGED <<committed, stat>>
  BY <1>5 DEF Record, Phases, Txs
<1>6. ASSUME NEW v \in Verifiers, NEW r \in Runs, NEW passed \in BOOLEAN, VerifyAgain(v, r, passed)
      PROVE  /\ v \in Txs /\ \E next \in Phases \ {"idle", "done"} : Begin(v, next)
             /\ UNCHANGED <<committed, stat>>
  BY <1>6 DEF VerifyAgain, Phases, Txs
<1>7. ASSUME NEW t \in Sweeps, Sweep(t)
      PROVE  /\ t \in Txs /\ \E next \in Phases \ {"idle", "done"} : Begin(t, next)
             /\ UNCHANGED <<committed, stat>>
  BY <1>7 DEF Sweep, Phases, Txs
<1> QED
  BY <1>1, <1>2, <1>3, <1>4, <1>5, <1>6, <1>7 DEF Next, Step, vars, Tick

\* The clock does not run back, nor past its bound.
LEMMA ClockStep == TypeOK /\ [Next]_vars => clock' \in Time /\ clock <= clock'
<1> SUFFICES ASSUME TypeOK, [Next]_vars PROVE clock' \in Time /\ clock <= clock'
  OBVIOUS
<1>1. clock \in Nat /\ MaxTime \in Nat /\ clock \in Time
  BY EvidenceAssumption DEF TypeOK, Time
<1>2. CASE Tick
  BY <1>1, <1>2 DEF Tick, Time
<1>3. ASSUME UNCHANGED clock PROVE clock' \in Time /\ clock <= clock'
  BY <1>1, <1>3
<1> QED
  BY <1>2, <1>3
  DEF Next, Step, vars, Record, VerifyAgain, Sweep, Judge, ReadStat, ReadRuns, FallBack, Fold, Upsert,
      Commit, Abort

\* A draft that changes is still a draft.
LEMMA DraftType ==
  ASSUME TypeOK, [Next]_vars, NEW t \in Txs
  PROVE  draft'[t] \in Drafts
<1>1. draft[t] \in Drafts /\ draft[t].base \in Checkpoints /\ draft[t].fresh \in SUBSET Runs
      /\ draft[t].good \in SUBSET Runs /\ stat \in Checkpoints
  BY DEF TypeOK, Drafts
<1>2. NoDraft \in Drafts /\ Nothing \in Checkpoints
  BY NoDraftType
<1>3. Usable(t) \in BOOLEAN
  BY DEF Usable
<1>4. Since(t) \in SUBSET Runs /\ {r \in Since(t) : Worked(r, Visible(t))} \in SUBSET Runs
      /\ VerdictsSince(t) \in SUBSET (Runs \cup Verifiers)
  BY ReadsType
<1>5. Absorbed(draft[t].base, draft[t].fresh, draft[t].good, VerdictsSince(t)) \in Checkpoints
  BY <1>1, <1>4, AbsorbedType
<1>6. \A d \in Drafts : [d EXCEPT !.rescan = TRUE] \in Drafts
  BY DEF Drafts
<1>7. \A d \in Drafts, c \in Checkpoints : [d EXCEPT !.base = c] \in Drafts
  BY DEF Drafts
<1>8. \A d \in Drafts, c \in Checkpoints, b \in BOOLEAN : [d EXCEPT !.base = c, !.rescan = b] \in Drafts
  BY DEF Drafts
<1>9. \A d \in Drafts, f \in SUBSET Runs, g \in SUBSET Runs : [d EXCEPT !.fresh = f, !.good = g] \in Drafts
  BY DEF Drafts
<1>10. (IF Usable(t) THEN stat ELSE Nothing) \in Checkpoints /\ (~Usable(t)) \in BOOLEAN
  <2>1. CASE Usable(t)
    BY <1>1, <2>1
  <2>2. CASE ~Usable(t)
    BY <1>2, <2>2
  <2> QED
    BY <2>1, <2>2
<1>11. [draft[t] EXCEPT !.base = IF Usable(t) THEN stat ELSE Nothing, !.rescan = ~Usable(t)] \in Drafts
  BY <1>1, <1>8, <1>10
<1>12. [draft[t] EXCEPT !.fresh = Since(t), !.good = {r \in Since(t) : Worked(r, Visible(t))}] \in Drafts
  BY <1>1, <1>4, <1>9
<1>13. [NoDraft EXCEPT !.base =
         Absorbed(draft[t].base, draft[t].fresh, draft[t].good, VerdictsSince(t))] \in Drafts
  BY <1>2, <1>5, <1>7
<1>14. [draft[t] EXCEPT !.rescan = TRUE] \in Drafts /\ [NoDraft EXCEPT !.rescan = TRUE] \in Drafts
  BY <1>1, <1>2, <1>6
<1> QED
  BY <1>1, <1>2, <1>11, <1>12, <1>13, <1>14, MovesStep DEF Moves

\* Every action keeps the types.
LEMMA TypeStep == TypeOK /\ [Next]_vars => TypeOK'
<1> SUFFICES ASSUME TypeOK, [Next]_vars PROVE TypeOK'
  OBVIOUS
<1>0. 0 \in Time /\ clock \in Time /\ Nobody \notin Txs
  BY EvidenceAssumption DEF TypeOK, Time
<1>1. clock' \in Time
  BY ClockStep
<1>2. execution' \in [Runs -> [outcome: Outcomes \cup {"none"}, at: Time]]
  <2>1. DOMAIN execution' = Runs /\ execution' = [r \in Runs |-> execution'[r]]
    BY DEF TypeOK, Next, Step, vars, Tick, Record, VerifyAgain, Sweep, Judge, ReadStat, ReadRuns,
       FallBack, Fold, Upsert, Commit, Abort
  <2>2. ASSUME NEW r \in Runs PROVE execution'[r] \in [outcome: Outcomes \cup {"none"}, at: Time]
    BY <1>0, RowMoves DEF RunMoves, TypeOK, NoRow
  <2> QED
    BY <2>1, <2>2
<1>3. verdict' \in [Runs \cup Verifiers -> [run: Runs \cup {Nobody}, passed: BOOLEAN, at: Time]]
  <2>1. verdict' = [v \in Runs \cup Verifiers |-> verdict'[v]]
    BY DEF TypeOK, Next, Step, vars, Tick, Record, VerifyAgain, Sweep, Judge, ReadStat, ReadRuns,
       FallBack, Fold, Upsert, Commit, Abort
  <2>2. ASSUME NEW v \in Runs \cup Verifiers
        PROVE  verdict'[v] \in [run: Runs \cup {Nobody}, passed: BOOLEAN, at: Time]
    <3>1. /\ verdict[v] \in [run: Runs \cup {Nobody}, passed: BOOLEAN, at: Time]
          /\ NoVerdict \in [run: Runs \cup {Nobody}, passed: BOOLEAN, at: Time]
      BY <1>0 DEF TypeOK, NoVerdict
    <3>2. ASSUME NEW run \in SUBSET Runs, verdict'[v] \in [run: run, passed: BOOLEAN, at: {clock}]
          PROVE  verdict'[v] \in [run: Runs \cup {Nobody}, passed: BOOLEAN, at: Time]
      BY <1>0, <3>2
    <3>3. v \in Runs => {v} \in SUBSET Runs
      OBVIOUS
    <3>4. Runs \cap committed \in SUBSET Runs
      OBVIOUS
    <3> QED
      BY <3>1, <3>2, <3>3, <3>4, RowMoves DEF VerdictMoves
  <2> QED
    BY <2>1, <2>2
<1>4. committed' \subseteq Runs \cup Verifiers /\ stat' \in Checkpoints
  BY CommitStep DEF CommitMoves, TypeOK, Txs, Drafts
<1>5. lock' \in Txs \cup {Nobody}
  BY DEF TypeOK, Next, Step, vars, Tick, Record, VerifyAgain, Sweep, Judge, ReadStat, ReadRuns,
     FallBack, Fold, Upsert, Commit, Abort, Txs
<1>6. phase' \in [Txs -> Phases]
  BY DEF TypeOK, Next, Step, vars, Tick, Record, VerifyAgain, Sweep, Judge, ReadStat, ReadRuns,
     FallBack, Fold, Upsert, Commit, Abort, Begin, Phases
<1>7. draft' \in [Txs -> Drafts]
  <2>1. draft' = [t \in Txs |-> draft'[t]]
    BY DEF TypeOK, Next, Step, vars, Tick, Record, VerifyAgain, Sweep, Judge, ReadStat, ReadRuns,
       FallBack, Fold, Upsert, Commit, Abort
  <2> QED
    BY <2>1, DraftType
<1>8. alone' \subseteq Open' /\ suspect' \in BOOLEAN
  BY AloneMovesStep DEF AloneMoves, TypeOK
<1> QED
  BY <1>1, <1>2, <1>3, <1>4, <1>5, <1>6, <1>7, <1>8 DEF TypeOK

-----------------------------------------------------------------------------
(* What a transaction may count on while it counts.                        *)

\* A transaction writes before it counts, and what is committed is done.
LEMMA RowInvStep == TypeOK /\ RowInv /\ [Next]_vars => RowInv'
<1> SUFFICES ASSUME TypeOK, RowInv, [Next]_vars PROVE RowInv'
  OBVIOUS
<1>1. \A t \in committed' : phase'[t] = "done"
  BY CommitStep DEF CommitMoves, TypeOK, RowInv, Txs
<1>2. committed \subseteq committed'
  BY CommitStep DEF CommitMoves
<1>3. ASSUME NEW v \in Runs \cup Verifiers
      PROVE  /\ phase'[v] \in {"idle", "recorded"} => verdict'[v].run = Nobody
             /\ v \in Runs => verdict'[v].run \in {v, Nobody}
             /\ verdict'[v].run \in {v, Nobody} \cup committed'
  <2>1. v \in Runs => v \notin Verifiers
    BY EvidenceAssumption
  <2> QED
    BY <1>2, <2>1, RowMoves DEF VerdictMoves, RowInv, NoVerdict
<1>4. ASSUME NEW t \in Txs
      PROVE  /\ phase'[t] \notin Counting => draft'[t].base = Nothing
             /\ phase'[t] # "read" => draft'[t].fresh = {} /\ draft'[t].good = {}
  <2>1. draft[t] \in Drafts
    BY DEF TypeOK
  <2>2. NoDraft.base = Nothing /\ NoDraft.fresh = {} /\ NoDraft.good = {}
    BY DEF NoDraft
  <2>3. /\ phase[t] \notin Counting => draft[t].base = Nothing
        /\ phase[t] # "read" => draft[t].fresh = {} /\ draft[t].good = {}
    BY DEF RowInv
  <2> QED
    BY <2>1, <2>2, <2>3, MovesStep, ZenonT(30) DEF Moves, Counting, Drafts, NoDraft
<1> QED
  BY <1>1, <1>3, <1>4 DEF RowInv

\* Rows that a step leaves alone.
Kept(visible) ==
  /\ \A r \in Runs \cap visible : execution'[r] = execution[r]
  /\ \A v \in (Runs \cup Verifiers) \cap visible : verdict'[v] = verdict[v]

\* Committed rows are never touched, nor are the rows of a transaction that is
\* counting, unless it dies.
LEMMA RowsKept ==
  ASSUME TypeOK, RowInv, [Next]_vars
  PROVE  /\ Kept(committed) /\ committed \subseteq committed'
         /\ \A t \in Txs : phase[t] \in Counting /\ phase'[t] # "idle" => Kept(Visible(t))
<1>1. Runs \subseteq Txs /\ Verifiers \subseteq Txs
  BY DEF Txs
<1>2. \A x \in committed : phase[x] = "done"
  BY DEF RowInv
<1>3. \A r \in Runs : phase[r] = "done" => execution'[r] = execution[r]
  BY RowMoves DEF RunMoves
<1>4. \A v \in Runs \cup Verifiers : phase[v] = "done" => verdict'[v] = verdict[v]
  BY RowMoves DEF VerdictMoves
<1>5. \A r \in Runs : phase[r] \in Counting /\ phase'[r] # "idle" => execution'[r] = execution[r]
  BY RowMoves DEF RunMoves, Counting
<1>6. \A v \in Runs \cup Verifiers :
        phase[v] \in Counting /\ phase'[v] # "idle" => verdict'[v] = verdict[v]
  BY RowMoves DEF VerdictMoves, Counting
<1>7. committed \subseteq committed'
  BY CommitStep DEF CommitMoves
<1> QED
  BY <1>2, <1>3, <1>4, <1>5, <1>6, <1>7 DEF Kept, Visible

\* What was sound stays sound, of the same rows and of more.
LEMMA SoundKept ==
  ASSUME TypeOK, NEW s \in Checkpoints, NEW visible, NEW later, Sound(s, visible), Kept(visible),
         visible \cap (Runs \cup Verifiers) \subseteq later, clock' \in Time, clock <= clock'
  PROVE  Sound(s, later)'
<1>1. s.seen \subseteq later /\ s.verifiedSeen \subseteq later
  BY DEF Sound, Checkpoints
<1>2. s.cursor <= clock' /\ s.verifiedCursor <= clock'
  <2>1. s.cursor \in Nat /\ s.verifiedCursor \in Nat /\ clock \in Nat /\ clock' \in Nat
    BY EvidenceAssumption DEF Checkpoints, Time, TypeOK
  <2> QED
    BY <2>1 DEF Sound
<1>3. CountedOnce(s.numbers)'
  BY DEF Sound, CountedOnce
<1>4. ASSUME NEW r \in Runs, r \in Observed(visible), Behind(r, s)
      PROVE  r \in Observed(later)' /\ Behind(r, s)'
  BY <1>4 DEF Observed, Behind, Kept
<1>5. ASSUME NEW r \in Runs, r \in visible, Worked(r, visible) PROVE Worked(r, later)'
  <2>1. PICK v \in (Runs \cup Verifiers) \cap visible : verdict[v].run = r /\ verdict[v].passed
    BY <1>5 DEF Worked
  <2>2. verdict'[v] = verdict[v] /\ v \in (Runs \cup Verifiers) \cap later
    BY <2>1 DEF Kept
  <2>3. execution'[r].outcome \in {"proven", "unproven"}
    BY <1>5 DEF Worked, Kept
  <2> QED
    BY <2>1, <2>2, <2>3 DEF Worked
<1> QED
  BY <1>1, <1>2, <1>3, <1>4, <1>5 DEF Sound

\* An empty checkpoint can be trusted.
LEMMA NothingSound ==
  ASSUME TypeOK, NEW visible
  PROVE  Sound(Nothing, visible)
<1>1. clock \in Nat
  BY EvidenceAssumption DEF TypeOK, Time
<1>2. /\ Nothing.seen = {} /\ Nothing.verifiedSeen = {} /\ Nothing.cursor = 0 /\ Nothing.verifiedCursor = 0
      /\ Nothing.numbers.proven = {}
      /\ \A r \in Runs : Nothing.numbers.worked[r] = 0 /\ Nothing.numbers.failed[r] = 0
  BY DEF Nothing, Zero
<1> QED
  BY <1>1, <1>2 DEF Sound, CountedOnce

\* Folding in what has come since keeps a checkpoint sound.
LEMMA FoldSound ==
  ASSUME TypeOK, CountInv, NEW t \in Txs
  PROVE  Sound(Absorbed(draft[t].base, draft[t].fresh, draft[t].good, VerdictsSince(t)), Visible(t))
<1>1. PICK s : s = draft[t].base
  OBVIOUS
<1>2. PICK fresh : fresh = draft[t].fresh
  OBVIOUS
<1>3. PICK good : good = draft[t].good
  OBVIOUS
<1>4. PICK verdicts : verdicts = VerdictsSince(t)
  OBVIOUS
<1>5. PICK visible : visible = Visible(t)
  OBVIOUS
<1>6. PICK a : a = Absorbed(s, fresh, good, verdicts)
  OBVIOUS
<1>7. /\ s \in Checkpoints /\ fresh \in SUBSET Runs /\ good \in SUBSET Runs
      /\ verdicts \in SUBSET (Runs \cup Verifiers)
  BY <1>1, <1>2, <1>3, <1>4, ReadsType DEF TypeOK, Drafts
<1>8. a \in Checkpoints
  BY <1>6, <1>7, AbsorbedType
<1>9. /\ Sound(s, visible)
      /\ \A r \in fresh : r \in Observed(visible) /\ ~Behind(r, s) /\ execution[r].at >= s.cursor
      /\ \A r \in good : r \in fresh /\ Worked(r, visible)
  BY <1>1, <1>2, <1>3, <1>5 DEF CountInv, FreshInv
<1>10. \A v \in verdicts : v \in visible
  BY <1>4, <1>5 DEF VerdictsSince, Judged
<1>11. /\ clock \in Nat /\ \A r \in Runs : execution[r].at \in Nat
       /\ \A r \in Runs : execution[r].at <= clock
       /\ \A v \in Runs \cup Verifiers : verdict[v].at <= clock
  BY EvidenceAssumption DEF TypeOK, Time, CountInv
<1>12. /\ a.cursor \in {s.cursor} \cup {execution[r].at : r \in fresh}
       /\ s.cursor <= a.cursor /\ \A r \in fresh : execution[r].at <= a.cursor
  <2>1. {execution[r].at : r \in fresh} \in SUBSET Time /\ s.cursor \in Time
    BY <1>7 DEF TypeOK, Checkpoints
  <2>2. a.cursor = Later(s.cursor, {execution[r].at : r \in fresh})
    BY <1>6 DEF Absorbed
  <2> QED
    BY <2>1, <2>2, Latest
<1>13. a.verifiedCursor \in {s.verifiedCursor} \cup {verdict[v].at : v \in verdicts}
  <2>1. {verdict[v].at : v \in verdicts} \in SUBSET Time /\ s.verifiedCursor \in Time
    BY <1>7 DEF TypeOK, Checkpoints
  <2>2. a.verifiedCursor = Later(s.verifiedCursor, {verdict[v].at : v \in verdicts})
    BY <1>6 DEF Absorbed
  <2> QED
    BY <2>1, <2>2, Latest
<1>14. a.cursor \in Nat /\ s.cursor \in Nat
  BY <1>7, <1>8, EvidenceAssumption DEF Checkpoints, Time
<1>15. /\ a.seen = {r \in fresh : execution[r].at = a.cursor}
                     \cup (IF s.cursor = a.cursor THEN s.seen ELSE {})
       /\ a.verifiedSeen = {v \in verdicts : verdict[v].at = a.verifiedCursor}
                             \cup (IF s.verifiedCursor = a.verifiedCursor THEN s.verifiedSeen ELSE {})
  BY <1>6 DEF Absorbed
<1>16. a.seen \subseteq visible /\ a.verifiedSeen \subseteq visible
  BY <1>9, <1>10, <1>15 DEF Sound, Observed
<1>17. a.cursor <= clock /\ a.verifiedCursor <= clock
  BY <1>7, <1>9, <1>11, <1>12, <1>13 DEF Sound
<1>18. ASSUME NEW r \in Runs
       PROVE  /\ a.numbers.worked[r] + a.numbers.failed[r] <= 1
              /\ a.numbers.worked[r] + a.numbers.failed[r] > 0 => r \in Observed(visible) /\ Behind(r, a)
              /\ a.numbers.worked[r] > 0 \/ r \in a.numbers.proven => r \in visible /\ Worked(r, visible)
  <2>1. /\ s.numbers.worked[r] \in Nat /\ s.numbers.failed[r] \in Nat
    BY <1>7 DEF Checkpoints, Numbers
  <2>2. /\ a.numbers.worked[r] = s.numbers.worked[r] + (IF r \in good THEN 1 ELSE 0)
        /\ a.numbers.failed[r] = s.numbers.failed[r] + (IF r \in fresh \ good THEN 1 ELSE 0)
        /\ r \in a.numbers.proven => r \in s.numbers.proven \/ r \in good
    BY <1>6 DEF Absorbed
  <2>3. s.numbers.worked[r] + s.numbers.failed[r] <= 1
    BY <1>9 DEF Sound, CountedOnce
  <2>4. s.numbers.worked[r] + s.numbers.failed[r] > 0 => r \in Observed(visible) /\ Behind(r, s)
    BY <1>9 DEF Sound
  <2>5. s.numbers.worked[r] > 0 \/ r \in s.numbers.proven => r \in visible /\ Worked(r, visible)
    BY <1>9 DEF Sound
  <2>6. Behind(r, s) => Behind(r, a)
    BY <1>11, <1>12, <1>14, <1>15 DEF Behind
  <2>7. r \in fresh => Behind(r, a)
    BY <1>11, <1>12, <1>14, <1>15 DEF Behind
  <2>8. r \in fresh => s.numbers.worked[r] = 0 /\ s.numbers.failed[r] = 0
    <3>1. r \in fresh => ~Behind(r, s)
      BY <1>9
    <3>2. r \in fresh => ~(s.numbers.worked[r] + s.numbers.failed[r] > 0)
      BY <2>4, <3>1
    <3> QED
      BY <2>1, <3>2
  <2>9. r \in good => r \in fresh /\ r \in visible
    BY <1>9 DEF Observed
  <2> QED
    BY <1>9, <2>1, <2>2, <2>3, <2>4, <2>5, <2>6, <2>7, <2>8, <2>9
<1>19. Sound(a, visible)
  BY <1>16, <1>17, <1>18 DEF Sound, CountedOnce
<1> QED
  BY <1>1, <1>2, <1>3, <1>4, <1>5, <1>6, <1>19

\* What a draft of these parts, made of these rows, is worth.
Held(s, fresh, good, visible) ==
  /\ s \in Checkpoints /\ fresh \in SUBSET Runs /\ good \in SUBSET Runs
  /\ Sound(s, visible)
  /\ \A r \in fresh : r \in Observed(visible) /\ ~Behind(r, s) /\ execution[r].at >= s.cursor
  /\ \A r \in good : r \in fresh /\ Worked(r, visible)

\* What a draft was worth it is still worth, of the same rows and of more.
LEMMA HeldKept ==
  ASSUME TypeOK, NEW s, NEW fresh, NEW good, NEW visible, NEW later, Held(s, fresh, good, visible),
         Kept(visible), visible \cap (Runs \cup Verifiers) \subseteq later,
         clock' \in Time, clock <= clock'
  PROVE  Held(s, fresh, good, later)'
<1>1. s \in Checkpoints /\ fresh \in SUBSET Runs /\ good \in SUBSET Runs /\ Sound(s, visible)
  BY DEF Held
<1>2. Sound(s, later)'
  BY <1>1, SoundKept
<1>3. ASSUME NEW r \in fresh
      PROVE  r \in Observed(later)' /\ ~Behind(r, s)' /\ execution'[r].at >= s.cursor
  BY <1>1, <1>3 DEF Held, Observed, Behind, Kept
<1>4. ASSUME NEW r \in good PROVE r \in fresh /\ Worked(r, later)'
  <2>1. r \in fresh /\ Worked(r, visible) /\ r \in Runs \cap visible
    BY <1>1 DEF Held, Observed
  <2>2. PICK v \in (Runs \cup Verifiers) \cap visible : verdict[v].run = r /\ verdict[v].passed
    BY <2>1 DEF Worked
  <2>3. verdict'[v] = verdict[v] /\ v \in (Runs \cup Verifiers) \cap later
    BY <2>2 DEF Kept
  <2>4. execution'[r].outcome \in {"proven", "unproven"}
    BY <2>1 DEF Worked, Kept
  <2> QED
    BY <2>1, <2>2, <2>3, <2>4 DEF Worked
<1> QED
  BY <1>1, <1>2, <1>3, <1>4 DEF Held

\* Every draft, after a step, is made of rows that the step has left alone.
LEMMA DraftHeld ==
  ASSUME TypeOK, RowInv, CountInv, [Next]_vars, NEW t \in Txs
  PROVE  \E visible :
           /\ Held(draft'[t].base, draft'[t].fresh, draft'[t].good, visible)
           /\ Kept(visible) /\ visible \cap (Runs \cup Verifiers) \subseteq Visible(t)'
<1>1. draft[t] \in Drafts /\ stat \in Checkpoints /\ Nothing \in Checkpoints
  BY NoDraftType DEF TypeOK
<1>2. NoDraft = [base |-> Nothing, rescan |-> FALSE, fresh |-> {}, good |-> {}]
  BY DEF NoDraft
<1>3. committed \subseteq Visible(t)' /\ Visible(t) \subseteq Visible(t)' /\ Kept(committed)
  BY RowsKept DEF Visible
<1>4. ASSUME draft'[t].base = Nothing, draft'[t].fresh = {}, draft'[t].good = {}
      PROVE  \E visible :
               /\ Held(draft'[t].base, draft'[t].fresh, draft'[t].good, visible)
               /\ Kept(visible) /\ visible \cap (Runs \cup Verifiers) \subseteq Visible(t)'
  <2>1. Held(Nothing, {}, {}, {})
    BY <1>1, NothingSound DEF Held
  <2> QED
    BY <1>4, <2>1 DEF Kept
<1>5. ASSUME phase[t] \in Counting, phase'[t] \in Counting,
             Held(draft'[t].base, draft'[t].fresh, draft'[t].good, Visible(t))
      PROVE  \E visible :
               /\ Held(draft'[t].base, draft'[t].fresh, draft'[t].good, visible)
               /\ Kept(visible) /\ visible \cap (Runs \cup Verifiers) \subseteq Visible(t)'
  <2>1. Kept(Visible(t))
    BY <1>5, RowsKept DEF Counting
  <2> QED
    BY <1>3, <1>5, <2>1
<1>6. CASE draft'[t] = draft[t] /\ phase[t] \notin Counting
  <2>1. draft[t].base = Nothing /\ draft[t].fresh = {} /\ draft[t].good = {}
    BY <1>6 DEF RowInv, Counting
  <2> QED
    BY <1>4, <1>6, <2>1
<1>7. CASE draft'[t] = draft[t] /\ phase[t] \in Counting /\ phase'[t] \in Counting
  <2>1. Held(draft[t].base, draft[t].fresh, draft[t].good, Visible(t))
    BY <1>1 DEF CountInv, FreshInv, Held, Drafts
  <2> QED
    BY <1>5, <1>7, <2>1
<1>8. CASE draft'[t] = NoDraft \/ draft'[t] = [NoDraft EXCEPT !.rescan = TRUE]
  BY <1>2, <1>4, <1>8
<1>9. CASE phase[t] = "idle" /\ draft'[t] = [draft[t] EXCEPT !.rescan = TRUE]
  <2>1. draft[t].base = Nothing /\ draft[t].fresh = {} /\ draft[t].good = {}
    BY <1>9 DEF RowInv, Counting
  <2>2. draft'[t].base = draft[t].base /\ draft'[t].fresh = draft[t].fresh /\ draft'[t].good = draft[t].good
    BY <1>1, <1>9 DEF Drafts
  <2> QED
    BY <1>4, <2>1, <2>2
<1>10. CASE /\ phase[t] = "written"
            /\ draft'[t] = [draft[t] EXCEPT !.base = IF Usable(t) THEN stat ELSE Nothing,
                                            !.rescan = ~Usable(t)]
  <2>1. draft'[t].fresh = {} /\ draft'[t].good = {} /\ draft'[t].base \in {stat, Nothing}
    BY <1>1, <1>10 DEF RowInv, Drafts
  <2>2. CASE draft'[t].base = Nothing
    BY <1>4, <2>1, <2>2
  <2>3. CASE draft'[t].base = stat
    <3>1. Held(stat, {}, {}, committed)
      BY <1>1 DEF Held, CountInv
    <3> QED
      BY <1>3, <2>1, <2>3, <3>1
  <2> QED
    BY <2>1, <2>2, <2>3
<1>11. CASE /\ phase[t] = "restored" /\ phase'[t] = "read"
            /\ draft'[t] = [draft[t] EXCEPT !.fresh = Since(t),
                                            !.good = {r \in Since(t) : Worked(r, Visible(t))}]
  <2>1. /\ draft'[t].base = draft[t].base /\ draft'[t].fresh = Since(t)
        /\ draft'[t].good = {r \in Since(t) : Worked(r, Visible(t))}
    BY <1>1, <1>11 DEF Drafts
  <2>2. PICK s \in Checkpoints : s = draft[t].base
    BY <1>1 DEF Drafts
  <2>3. PICK visible : visible = Visible(t)
    OBVIOUS
  <2>4. Since(t) = {r \in Observed(visible) : execution[r].at >= s.cursor /\ r \notin s.seen}
    BY <2>2, <2>3 DEF Since
  <2>5. ASSUME NEW r \in Since(t)
        PROVE  r \in Observed(visible) /\ ~Behind(r, s) /\ execution[r].at >= s.cursor
    <3>1. execution[r].at \in Nat /\ s.cursor \in Nat /\ r \in Runs
      BY <2>4, EvidenceAssumption DEF Observed, TypeOK, Time, Checkpoints
    <3> QED
      BY <2>4, <3>1 DEF Behind
  <2>6. Sound(s, visible)
    BY <2>2, <2>3 DEF CountInv
  <2>7. Since(t) \in SUBSET Runs
    BY ReadsType
  <2>8. Held(s, Since(t), {r \in Since(t) : Worked(r, Visible(t))}, visible)
    BY <2>3, <2>5, <2>6, <2>7 DEF Held
  <2> QED
    BY <1>5, <1>11, <2>1, <2>2, <2>3, <2>8 DEF Counting
<1>12. CASE /\ phase[t] = "read" /\ phase'[t] = "folded"
            /\ draft'[t] = [NoDraft EXCEPT !.base =
                 Absorbed(draft[t].base, draft[t].fresh, draft[t].good, VerdictsSince(t))]
  <2> DEFINE a == Absorbed(draft[t].base, draft[t].fresh, draft[t].good, VerdictsSince(t))
  <2>1. a \in Checkpoints
    BY <1>1, ReadsType, AbsorbedType DEF Drafts
  <2>2. Sound(a, Visible(t))
    BY FoldSound
  <2> HIDE DEF a
  <2>3. draft'[t].base = a /\ draft'[t].fresh = {} /\ draft'[t].good = {}
    BY <1>2, <1>12 DEF a
  <2>4. Held(a, {}, {}, Visible(t))
    BY <2>1, <2>2 DEF Held
  <2> QED
    BY <1>5, <1>12, <2>3, <2>4 DEF Counting
<1> QED
  BY <1>6, <1>7, <1>8, <1>9, <1>10, <1>11, <1>12, MovesStep DEF Moves, Counting

\* So every checkpoint stays one of rows behind its cursor.
LEMMA CountStep == TypeOK /\ RowInv /\ CountInv /\ [Next]_vars => CountInv'
<1> SUFFICES ASSUME TypeOK, RowInv, CountInv, [Next]_vars PROVE CountInv'
  OBVIOUS
<1>1. clock' \in Time /\ clock <= clock' /\ clock \in Nat /\ clock' \in Nat
  BY ClockStep, EvidenceAssumption DEF TypeOK, Time
<1>2. ASSUME NEW r \in Runs PROVE execution'[r].at <= clock'
  <2>1. execution[r].at \in Nat /\ execution[r].at <= clock
    BY EvidenceAssumption DEF TypeOK, Time, CountInv
  <2> QED
    BY <1>1, <2>1, RowMoves DEF RunMoves, NoRow
<1>3. ASSUME NEW v \in Runs \cup Verifiers PROVE verdict'[v].at <= clock'
  <2>1. verdict[v].at \in Nat /\ verdict[v].at <= clock
    BY EvidenceAssumption DEF TypeOK, Time, CountInv
  <2> QED
    BY <1>1, <2>1, RowMoves DEF VerdictMoves, NoVerdict
<1>4. ASSUME NEW t \in Txs PROVE Sound(draft[t].base, Visible(t))' /\ FreshInv(t)'
  <2>1. PICK visible :
          /\ Held(draft'[t].base, draft'[t].fresh, draft'[t].good, visible)
          /\ Kept(visible) /\ visible \cap (Runs \cup Verifiers) \subseteq Visible(t)'
    BY DraftHeld
  <2>2. PICK s : s = draft'[t].base
    OBVIOUS
  <2>3. PICK fresh : fresh = draft'[t].fresh
    OBVIOUS
  <2>4. PICK good : good = draft'[t].good
    OBVIOUS
  <2>5. PICK later : later = Visible(t)'
    OBVIOUS
  <2>6. Held(s, fresh, good, later)'
    <3>1. Held(s, fresh, good, visible)
      BY <2>1, <2>2, <2>3, <2>4
    <3> QED
      BY <1>1, <2>1, <2>5, <3>1, HeldKept
  <2>7. Sound(draft[t].base, Visible(t))'
    BY <2>2, <2>5, <2>6 DEF Held, Sound, CountedOnce, Behind
  <2> QED
    BY <2>2, <2>3, <2>4, <2>5, <2>6, <2>7 DEF Held, FreshInv, Behind
<1>5. Sound(stat, committed)'
  <2>1. CASE UNCHANGED <<stat, committed>>
    <3>1. PICK s : s = stat
      OBVIOUS
    <3>2. PICK visible : visible = committed
      OBVIOUS
    <3>3. s \in Checkpoints /\ Sound(s, visible) /\ Kept(visible)
      BY <3>1, <3>2, RowsKept DEF TypeOK, CountInv
    <3>4. Sound(s, visible)'
      BY <1>1, <3>3, SoundKept
    <3> QED
      BY <2>1, <3>1, <3>2, <3>4
  <2>2. ASSUME NEW t \in Txs, phase[t] = "upserted", stat' = draft[t].base, phase'[t] # "idle" \/ t \in Sweeps,
               Visible(t) \cap (Runs \cup Verifiers) \subseteq committed'
        PROVE  Sound(stat, committed)'
    <3>1. PICK s : s = draft[t].base
      OBVIOUS
    <3>2. PICK visible : visible = Visible(t) \cap (Runs \cup Verifiers)
      OBVIOUS
    <3>3. PICK later : later = committed'
      OBVIOUS
    <3>4. Sound(s, Visible(t)) /\ s \in Checkpoints
      BY <3>1 DEF CountInv, TypeOK, Drafts
    <3>5. Sound(s, visible)
      BY <3>2, <3>4 DEF Sound, Observed, Worked, Checkpoints
    <3>6. Kept(visible)
      <4>1. CASE phase'[t] # "idle"
        BY <2>2, <3>2, <4>1, RowsKept DEF Counting, Kept
      <4>2. CASE t \in Sweeps
        BY <3>2, <4>2, RowsKept, EvidenceAssumption DEF Kept, Visible
      <4> QED
        BY <2>2, <4>1, <4>2
    <3>7. Sound(s, later)'
      BY <1>1, <2>2, <3>2, <3>3, <3>4, <3>5, <3>6, SoundKept
    <3> QED
      BY <2>2, <3>1, <3>3, <3>7 DEF Sound, CountedOnce, Behind
  <2>3. ASSUME NEW t \in Sweeps, committed' = committed
        PROVE  Visible(t) \cap (Runs \cup Verifiers) \subseteq committed'
    BY <2>3, EvidenceAssumption DEF Visible
  <2>4. ASSUME NEW t \in Txs, committed' = committed \cup {t}
        PROVE  Visible(t) \cap (Runs \cup Verifiers) \subseteq committed'
    BY <2>4 DEF Visible
  <2> QED
    BY <2>1, <2>2, <2>3, <2>4, CommitStep DEF CommitMoves, TypeOK
<1> QED
  BY <1>2, <1>3, <1>4, <1>5 DEF CountInv

-----------------------------------------------------------------------------
(* When the numbers are exact.                                             *)

\* A sweep, or a fold that gave up, counts everything from zero.
LEMMA RescanExact ==
  ASSUME TypeOK, NEW t \in Txs, draft[t].base = Nothing, draft[t].fresh = Since(t),
         draft[t].good = {r \in Since(t) : Worked(r, Visible(t))}
  PROVE  Absorbed(draft[t].base, draft[t].fresh, draft[t].good, VerdictsSince(t)).numbers
           = TheNumbers(Visible(t))
<1>1. PICK visible : visible = Visible(t)
  OBVIOUS
<1>2. /\ Nothing.cursor = 0 /\ Nothing.seen = {} /\ Nothing.verifiedCursor = 0 /\ Nothing.verifiedSeen = {}
      /\ Nothing.numbers.proven = {}
      /\ \A r \in Runs : Nothing.numbers.worked[r] = 0 /\ Nothing.numbers.failed[r] = 0
  BY DEF Nothing, Zero
<1>3. /\ \A r \in Runs : execution[r].at \in Nat
      /\ \A v \in Runs \cup Verifiers : verdict[v].at \in Nat
  BY EvidenceAssumption DEF TypeOK, Time
<1>4. Since(t) = Observed(visible)
  BY <1>1, <1>2, <1>3 DEF Since, Observed
<1>5. VerdictsSince(t) = Judged(visible)
  BY <1>1, <1>2, <1>3 DEF VerdictsSince, Judged
<1>6. PICK observed : observed = Observed(visible)
  OBVIOUS
<1>7. PICK good : good = {r \in observed : Worked(r, visible)}
  OBVIOUS
<1>8. PICK verdicts : verdicts = Judged(visible)
  OBVIOUS
<1>9. observed \subseteq Runs
  BY <1>6 DEF Observed
<1>10. \A r \in good : \E v \in verdicts : verdict[v].run = r /\ verdict[v].passed
  BY <1>7, <1>8, <1>9, EvidenceAssumption DEF Worked, Judged, Txs
<1>11. [r \in Runs |-> Nothing.numbers.worked[r] + (IF r \in good THEN 1 ELSE 0)]
         = [r \in Runs |-> IF r \in observed /\ Worked(r, visible) THEN 1 ELSE 0]
  BY <1>2, <1>7
<1>12. [r \in Runs |-> Nothing.numbers.failed[r] + (IF r \in observed \ good THEN 1 ELSE 0)]
         = [r \in Runs |-> IF r \in observed /\ ~Worked(r, visible) THEN 1 ELSE 0]
  BY <1>2, <1>7
<1>13. Nothing.numbers.proven \cup
         {r \in good : \E v \in verdicts : verdict[v].run = r /\ verdict[v].passed}
         = {r \in observed : Worked(r, visible)}
  BY <1>2, <1>7, <1>10
<1>14. Absorbed(Nothing, observed, good, verdicts).numbers
         = [worked |-> [r \in Runs |-> Nothing.numbers.worked[r] + (IF r \in good THEN 1 ELSE 0)],
            failed |-> [r \in Runs |-> Nothing.numbers.failed[r] + (IF r \in observed \ good THEN 1 ELSE 0)],
            proven |-> Nothing.numbers.proven \cup
                         {r \in good : \E v \in verdicts : verdict[v].run = r /\ verdict[v].passed}]
  BY DEF Absorbed
<1>15. TheNumbers(visible)
         = [worked |-> [r \in Runs |-> IF r \in observed /\ Worked(r, visible) THEN 1 ELSE 0],
            failed |-> [r \in Runs |-> IF r \in observed /\ ~Worked(r, visible) THEN 1 ELSE 0],
            proven |-> {r \in observed : Worked(r, visible)}]
  BY <1>6 DEF TheNumbers
<1>16. Absorbed(Nothing, observed, good, verdicts).numbers = TheNumbers(visible)
  BY <1>11, <1>12, <1>13, <1>14, <1>15
<1> QED
  BY <1>1, <1>4, <1>5, <1>6, <1>7, <1>8, <1>16

\* What a lone fold adds to exact numbers: its own run, if it is one, and no
\* verification of anybody else's, or it would have given up.
LEMMA LoneNews ==
  ASSUME TypeOK, RowInv, CountInv, AloneInv, NEW t \in alone, Exact, draft[t].base = stat,
         draft[t].fresh = Since(t), phase[t] = "read", ~draft[t].rescan, ~LateVerdict(t)
  PROVE  /\ Since(t) = Observed(Visible(t)) \cap {t}
         /\ \A r \in Runs \cap committed : Worked(r, Visible(t)) <=> Worked(r, committed)
         /\ \A r \in Since(t) : Worked(r, Visible(t)) =>
              \E v \in VerdictsSince(t) : verdict[v].run = r /\ verdict[v].passed
<1>1. t \in Txs /\ t \notin committed
  BY DEF TypeOK, Open, RowInv
<1>2. /\ t \in Runs => execution[t].at >= stat.cursor
      /\ t \in Runs \cup Verifiers /\ verdict[t].run # Nobody => verdict[t].at >= stat.verifiedCursor
      /\ t \notin stat.seen /\ t \notin stat.verifiedSeen
  BY <1>1 DEF AloneInv, CountInv, Sound
<1>3. ASSUME NEW r \in Observed(committed) PROVE r \notin Since(t)
  <2>1. r \in Runs /\ stat.numbers.worked[r] + stat.numbers.failed[r] = 1
    BY <1>3 DEF Exact, TheNumbers, Observed
  <2>2. Behind(r, stat)
    BY <2>1 DEF CountInv, Sound
  <2>3. execution[r].at \in Nat /\ stat.cursor \in Nat
    BY <2>1, EvidenceAssumption DEF TypeOK, Time, Checkpoints
  <2> QED
    BY <2>2, <2>3 DEF Since, Behind
<1>4. Since(t) = Observed(Visible(t)) \cap {t}
  <2>1. Since(t) \subseteq Observed(Visible(t)) \cap {t}
    BY <1>3 DEF Since, Observed, Visible
  <2>2. t \in Observed(Visible(t)) => t \in Since(t)
    BY <1>2 DEF Since, Observed
  <2> QED
    BY <2>1, <2>2
<1>5. ASSUME t \in Runs \cup Verifiers, verdict[t].run \in Runs, verdict[t].passed
      PROVE  t \in VerdictsSince(t) /\ verdict[t].run \in Since(t)
  <2>1. verdict[t].run # Nobody
    BY <1>5, EvidenceAssumption DEF Txs
  <2>2. t \in VerdictsSince(t)
    BY <1>2, <1>5, <2>1 DEF VerdictsSince, Judged, Visible
  <2> QED
    BY <1>5, <2>2 DEF LateVerdict
<1>6. ASSUME NEW r \in Runs, r \in committed, Worked(r, Visible(t)) PROVE Worked(r, committed)
  <2>1. PICK v \in (Runs \cup Verifiers) \cap Visible(t) : verdict[v].run = r /\ verdict[v].passed
    BY <1>6 DEF Worked
  <2>2. v # t
    BY <1>1, <1>4, <1>5, <1>6, <2>1
  <2> QED
    BY <1>6, <2>1, <2>2 DEF Worked, Visible
<1>7. \A r \in Runs : Worked(r, committed) => Worked(r, Visible(t))
  BY DEF Worked, Visible
<1>8. ASSUME NEW r \in Since(t), Worked(r, Visible(t))
      PROVE  \E v \in VerdictsSince(t) : verdict[v].run = r /\ verdict[v].passed
  <2>1. r = t /\ r \in Runs
    BY <1>4 DEF Observed
  <2>2. PICK v \in (Runs \cup Verifiers) \cap Visible(t) : verdict[v].run = r /\ verdict[v].passed
    BY <1>8 DEF Worked
  <2>3. v = t
    <3> SUFFICES ASSUME v # t PROVE FALSE
      OBVIOUS
    <3>1. v \in committed /\ verdict[v].run = t
      BY <2>1, <2>2 DEF Visible
    <3>2. t \in {v, Nobody} \cup committed
      BY <2>2, <3>1 DEF RowInv
    <3> QED
      BY <1>1, <2>1, <3>2, EvidenceAssumption DEF Txs
  <2> QED
    BY <1>5, <2>1, <2>2, <2>3
<1> QED
  BY <1>4, <1>6, <1>7, <1>8

\* A lone fold of exact numbers is exact.
LEMMA FoldExact ==
  ASSUME TypeOK, RowInv, CountInv, AloneInv, NEW t \in alone, Exact, draft[t].base = stat,
         draft[t].fresh = Since(t), draft[t].good = {r \in Since(t) : Worked(r, Visible(t))},
         phase[t] = "read", ~draft[t].rescan, ~LateVerdict(t)
  PROVE  Absorbed(draft[t].base, draft[t].fresh, draft[t].good, VerdictsSince(t)).numbers
           = TheNumbers(Visible(t))
<1>1. PICK visible : visible = Visible(t)
  OBVIOUS
<1>2. PICK fresh : fresh = Since(t)
  OBVIOUS
<1>3. PICK good : good = {r \in fresh : Worked(r, visible)}
  OBVIOUS
<1>4. PICK verdicts : verdicts = VerdictsSince(t)
  OBVIOUS
<1>5. t \notin committed /\ visible = committed \cup {t}
  BY <1>1 DEF TypeOK, Open, RowInv, Visible
<1>6. fresh = Observed(visible) \cap {t}
  BY <1>1, <1>2, LoneNews
<1>7. \A r \in Runs \cap committed : Worked(r, visible) <=> Worked(r, committed)
  BY <1>1, LoneNews
<1>8. \A r \in good : \E v \in verdicts : verdict[v].run = r /\ verdict[v].passed
  BY <1>1, <1>2, <1>3, <1>4, LoneNews
<1>9. Observed(visible) = Observed(committed) \cup fresh /\ t \notin Observed(committed)
  BY <1>5, <1>6 DEF Observed
<1>10. /\ stat.numbers.worked = [r \in Runs |-> IF r \in Observed(committed) /\ Worked(r, committed) THEN 1 ELSE 0]
       /\ stat.numbers.failed = [r \in Runs |-> IF r \in Observed(committed) /\ ~Worked(r, committed) THEN 1 ELSE 0]
       /\ stat.numbers.proven = {r \in Observed(committed) : Worked(r, committed)}
  BY DEF Exact, TheNumbers
<1>11. \A r \in Observed(committed) : r \in Runs \cap committed /\ r \notin fresh
  BY <1>6, <1>9 DEF Observed
<1>12. [r \in Runs |-> stat.numbers.worked[r] + (IF r \in good THEN 1 ELSE 0)]
         = [r \in Runs |-> IF r \in Observed(visible) /\ Worked(r, visible) THEN 1 ELSE 0]
  BY <1>3, <1>7, <1>9, <1>10, <1>11
<1>13. [r \in Runs |-> stat.numbers.failed[r] + (IF r \in fresh \ good THEN 1 ELSE 0)]
         = [r \in Runs |-> IF r \in Observed(visible) /\ ~Worked(r, visible) THEN 1 ELSE 0]
  BY <1>3, <1>7, <1>9, <1>10, <1>11
<1>14. stat.numbers.proven \cup
         {r \in good : \E v \in verdicts : verdict[v].run = r /\ verdict[v].passed}
         = {r \in Observed(visible) : Worked(r, visible)}
  BY <1>3, <1>7, <1>8, <1>9, <1>10, <1>11
<1>15. Absorbed(stat, fresh, good, verdicts).numbers
         = [worked |-> [r \in Runs |-> stat.numbers.worked[r] + (IF r \in good THEN 1 ELSE 0)],
            failed |-> [r \in Runs |-> stat.numbers.failed[r] + (IF r \in fresh \ good THEN 1 ELSE 0)],
            proven |-> stat.numbers.proven \cup
                         {r \in good : \E v \in verdicts : verdict[v].run = r /\ verdict[v].passed}]
  BY DEF Absorbed
<1>16. Absorbed(stat, fresh, good, verdicts).numbers = TheNumbers(visible)
  BY <1>12, <1>13, <1>14, <1>15 DEF TheNumbers
<1> QED
  BY <1>1, <1>2, <1>3, <1>4, <1>16

\* The same rows say the same.
LEMMA NumbersKept ==
  ASSUME TypeOK, NEW visible, NEW later, Kept(visible),
         visible \cap (Runs \cup Verifiers) = later \cap (Runs \cup Verifiers)
  PROVE  TheNumbers(later)' = TheNumbers(visible)
<1>1. Observed(later)' = Observed(visible)
  BY DEF Observed, Kept
<1>2. \A r \in Observed(visible) : Worked(r, later)' <=> Worked(r, visible)
  BY DEF Observed, Worked, Kept
<1>3. PICK observed \in SUBSET Runs : observed = Observed(visible)
  BY DEF Observed
<1>4. TheNumbers(later)' =
        [worked |-> [r \in Runs |-> IF r \in observed /\ Worked(r, later)' THEN 1 ELSE 0],
         failed |-> [r \in Runs |-> IF r \in observed /\ ~Worked(r, later)' THEN 1 ELSE 0],
         proven |-> {r \in observed : Worked(r, later)'}]
  BY <1>1, <1>3 DEF TheNumbers
<1>5. TheNumbers(visible) =
        [worked |-> [r \in Runs |-> IF r \in observed /\ Worked(r, visible) THEN 1 ELSE 0],
         failed |-> [r \in Runs |-> IF r \in observed /\ ~Worked(r, visible) THEN 1 ELSE 0],
         proven |-> {r \in observed : Worked(r, visible)}]
  BY <1>3 DEF TheNumbers
<1>6. \A r \in observed : Worked(r, later)' <=> Worked(r, visible)
  BY <1>2, <1>3
<1>7. /\ [r \in Runs |-> IF r \in observed /\ Worked(r, later)' THEN 1 ELSE 0]
           = [r \in Runs |-> IF r \in observed /\ Worked(r, visible) THEN 1 ELSE 0]
      /\ [r \in Runs |-> IF r \in observed /\ ~Worked(r, later)' THEN 1 ELSE 0]
           = [r \in Runs |-> IF r \in observed /\ ~Worked(r, visible) THEN 1 ELSE 0]
      /\ {r \in observed : Worked(r, later)'} = {r \in observed : Worked(r, visible)}
  BY <1>6
<1> QED
  BY <1>4, <1>5, <1>7

\* One who has it to himself, in a step that neither begins nor ends anything.
LEMMA AloneGoesOn ==
  ASSUME TypeOK, RowInv, CountInv, AloneInv, ExactInv, [Next]_vars,
         Open' = Open, UNCHANGED <<alone, suspect, committed, stat>>, NEW t \in alone
  PROVE  /\ t \in Runs => execution'[t].at >= stat'.cursor
         /\ t \in Runs \cup Verifiers /\ verdict'[t].run # Nobody => verdict'[t].at >= stat'.verifiedCursor
         /\ phase'[t] \in {"restored", "read"} =>
              draft'[t].base = IF draft'[t].rescan THEN Nothing ELSE stat'
         /\ phase'[t] = "read" =>
              /\ draft'[t].fresh = Since(t)'
              /\ draft'[t].good = {r \in Since(t)' : Worked(r, Visible(t))'}
         /\ t \in Sweeps /\ phase'[t] \in {"written", "restored", "read"} => draft'[t].rescan
         /\ (t \in Sweeps \/ ~suspect') /\ phase'[t] \in {"folded", "upserted"} =>
              draft'[t].base.numbers = TheNumbers(Visible(t))'
<1>1. /\ t \in Txs /\ phase[t] \notin {"idle", "done"} /\ phase'[t] \notin {"idle", "done"}
      /\ draft[t] \in Drafts /\ stat \in Checkpoints /\ Nothing \in Checkpoints
  BY NoDraftType DEF TypeOK, Open
<1>2. /\ t \in Runs => execution[t].at >= stat.cursor
      /\ t \in Runs \cup Verifiers /\ verdict[t].run # Nobody => verdict[t].at >= stat.verifiedCursor
      /\ phase[t] \in {"restored", "read"} =>
           draft[t].base = IF draft[t].rescan THEN Nothing ELSE stat
      /\ phase[t] = "read" =>
           draft[t].fresh = Since(t) /\ draft[t].good = {r \in Since(t) : Worked(r, Visible(t))}
      /\ t \in Sweeps /\ phase[t] \in {"written", "restored", "read"} => draft[t].rescan
      /\ (t \in Sweeps \/ ~suspect) /\ phase[t] \in {"folded", "upserted"} =>
           draft[t].base.numbers = TheNumbers(Visible(t))
  BY DEF AloneInv
<1>3. t \in Runs => execution'[t].at >= stat'.cursor
  BY <1>1, <1>2, RowMoves DEF RunMoves
<1>4. t \in Runs \cup Verifiers /\ verdict'[t].run # Nobody => verdict'[t].at >= stat'.verifiedCursor
  <2>1. clock >= stat.verifiedCursor
    BY <1>1, EvidenceAssumption DEF CountInv, Sound, Checkpoints, TypeOK, Time
  <2> QED
    BY <1>1, <1>2, <2>1, RowMoves DEF VerdictMoves
<1>5. phase[t] \in Counting => Kept(Visible(t))
  BY <1>1, RowsKept
<1>6. PICK visible : visible = Visible(t)
  OBVIOUS
<1>7. Visible(t)' = visible
  BY <1>6 DEF Visible
<1>8. phase[t] \in Counting => TheNumbers(Visible(t))' = TheNumbers(Visible(t))
  <2>1. phase[t] \in Counting => TheNumbers(visible)' = TheNumbers(visible)
    BY <1>5, <1>6, NumbersKept
  <2> QED
    BY <1>6, <1>7, <2>1 DEF TheNumbers, Observed, Worked
<1>9. ASSUME phase[t] \in Counting, draft'[t].base = draft[t].base
      PROVE  /\ Since(t)' = Since(t)
             /\ {r \in Since(t)' : Worked(r, Visible(t))'} = {r \in Since(t) : Worked(r, Visible(t))}
  <2>1. Kept(visible)
    BY <1>5, <1>6, <1>9
  <2>2. Observed(visible)' = Observed(visible)
    BY <2>1 DEF Observed, Kept
  <2>3. \A r \in Observed(visible) : execution'[r] = execution[r] /\ (Worked(r, visible)' <=> Worked(r, visible))
    BY <2>1 DEF Observed, Worked, Kept
  <2>4. Since(t) = {r \in Observed(visible) :
                      execution[r].at >= draft[t].base.cursor /\ r \notin draft[t].base.seen}
    BY <1>6 DEF Since
  <2>5. Since(t)' = {r \in Observed(visible)' :
                       execution'[r].at >= draft'[t].base.cursor /\ r \notin draft'[t].base.seen}
    BY <1>7 DEF Since, Observed
  <2>6. Since(t)' = Since(t)
    BY <1>9, <2>2, <2>3, <2>4, <2>5
  <2>7. \A r \in Since(t) : Worked(r, Visible(t))' <=> Worked(r, visible)
    BY <1>7, <2>3, <2>4 DEF Worked
  <2> QED
    BY <1>6, <2>6, <2>7
<1>10. CASE draft'[t] = draft[t] /\ phase'[t] = phase[t]
  <2>1. phase[t] = "read" => /\ draft'[t].fresh = Since(t)'
                             /\ draft'[t].good = {r \in Since(t)' : Worked(r, Visible(t))'}
    BY <1>2, <1>9, <1>10 DEF Counting
  <2>2. (t \in Sweeps \/ ~suspect') /\ phase'[t] \in {"folded", "upserted"} =>
          draft'[t].base.numbers = TheNumbers(Visible(t))'
    BY <1>2, <1>8, <1>10 DEF Counting
  <2> QED
    BY <1>2, <1>3, <1>4, <1>10, <2>1, <2>2
<1>11. CASE draft'[t] = draft[t] /\ phase[t] = "folded" /\ phase'[t] = "upserted"
  BY <1>2, <1>3, <1>4, <1>8, <1>11 DEF Counting
<1>12. CASE draft'[t] = draft[t] /\ t \notin Sweeps /\ phase'[t] \in {"recorded", "written"}
  BY <1>3, <1>4, <1>12
<1>13. CASE /\ phase[t] = "written" /\ phase'[t] = "restored"
            /\ draft'[t] = [draft[t] EXCEPT !.base = IF Usable(t) THEN stat ELSE Nothing,
                                            !.rescan = ~Usable(t)]
  <2>1. draft'[t].base = IF Usable(t) THEN stat ELSE Nothing
    BY <1>1, <1>13 DEF Drafts
  <2>2. draft'[t].rescan = ~Usable(t)
    BY <1>1, <1>13 DEF Drafts
  <2>3. t \in Sweeps => ~Usable(t)
    BY <1>2, <1>13 DEF Usable
  <2> QED
    BY <1>3, <1>4, <1>13, <2>1, <2>2, <2>3
<1>14. CASE /\ phase[t] = "restored" /\ phase'[t] = "read"
            /\ draft'[t] = [draft[t] EXCEPT !.fresh = Since(t),
                                            !.good = {r \in Since(t) : Worked(r, Visible(t))}]
  <2>1. /\ draft'[t].base = draft[t].base /\ draft'[t].rescan = draft[t].rescan
        /\ draft'[t].fresh = Since(t) /\ draft'[t].good = {r \in Since(t) : Worked(r, Visible(t))}
    BY <1>1, <1>14 DEF Drafts
  <2>2. /\ Since(t)' = Since(t)
        /\ {r \in Since(t)' : Worked(r, Visible(t))'} = {r \in Since(t) : Worked(r, Visible(t))}
    BY <1>9, <1>14, <2>1 DEF Counting
  <2> QED
    BY <1>2, <1>3, <1>4, <1>14, <2>1, <2>2
<1>15. CASE phase[t] = "read" /\ phase'[t] = "restored" /\ draft'[t] = [NoDraft EXCEPT !.rescan = TRUE]
  <2>1. draft'[t].base = Nothing /\ draft'[t].rescan
    BY <1>15 DEF NoDraft
  <2> QED
    BY <1>3, <1>4, <1>15, <2>1
<1>16. CASE /\ phase[t] = "read" /\ phase'[t] = "folded" /\ ~LateVerdict(t)
            /\ draft'[t] = [NoDraft EXCEPT !.base =
                 Absorbed(draft[t].base, draft[t].fresh, draft[t].good, VerdictsSince(t))]
  <2>1. draft'[t].base = Absorbed(draft[t].base, draft[t].fresh, draft[t].good, VerdictsSince(t))
    BY <1>16 DEF NoDraft
  <2>2. draft[t].fresh = Since(t) /\ draft[t].good = {r \in Since(t) : Worked(r, Visible(t))}
    BY <1>2, <1>16
  <2>3. CASE draft[t].rescan
    <3>1. draft[t].base = Nothing
      BY <1>2, <1>16, <2>3
    <3>2. draft'[t].base.numbers = TheNumbers(Visible(t))
      BY <1>1, <2>1, <2>2, <3>1, RescanExact
    <3> QED
      BY <1>3, <1>4, <1>8, <1>16, <3>2 DEF Counting
  <2>4. CASE ~draft[t].rescan /\ ~suspect
    <3>1. draft[t].base = stat /\ Exact
      BY <1>2, <1>16, <2>4 DEF ExactInv
    <3>2. draft'[t].base.numbers = TheNumbers(Visible(t))
      BY <1>16, <2>1, <2>2, <2>4, <3>1, FoldExact
    <3> QED
      BY <1>3, <1>4, <1>8, <1>16, <3>2 DEF Counting
  <2>5. CASE ~draft[t].rescan /\ suspect
    BY <1>2, <1>3, <1>4, <1>16, <2>5
  <2> QED
    BY <2>3, <2>4, <2>5
<1> QED
  BY <1>1, <1>10, <1>11, <1>12, <1>13, <1>14, <1>15, <1>16, MovesStep DEF Moves

\* One who begins while nobody is there has it to himself.
LEMMA AloneBegins ==
  ASSUME TypeOK, RowInv, CountInv, [Next]_vars, NEW t \in Txs, phase[t] = "idle", Open = {},
         Open' = {t}, UNCHANGED <<committed, stat>>
  PROVE  /\ t \in Runs => execution'[t].at >= stat'.cursor
         /\ t \in Runs \cup Verifiers /\ verdict'[t].run # Nobody => verdict'[t].at >= stat'.verifiedCursor
         /\ phase'[t] \in {"recorded", "written"}
         /\ t \in Sweeps => draft'[t].rescan
<1>1. phase'[t] \notin {"idle", "done"} /\ draft[t] \in Drafts
  BY DEF Open, TypeOK
<1>2. clock >= stat.verifiedCursor /\ clock >= stat.cursor
  BY EvidenceAssumption DEF CountInv, Sound, Checkpoints, TypeOK, Time
<1>3. t \in Runs => execution'[t].at >= stat'.cursor
  BY <1>1, <1>2, RowMoves DEF RunMoves
<1>4. t \in Runs \cup Verifiers /\ verdict'[t].run # Nobody => verdict'[t].at >= stat'.verifiedCursor
  <2>1. t \in Runs \cup Verifiers => verdict[t].run = Nobody
    BY DEF RowInv
  <2> QED
    BY <1>2, <2>1, RowMoves DEF VerdictMoves, NoVerdict
<1> QED
  BY <1>1, <1>3, <1>4, MovesStep DEF Moves, Drafts

\* Having the version to oneself means all of that, from the first step to the last.
LEMMA AloneStep == TypeOK /\ RowInv /\ CountInv /\ AloneInv /\ ExactInv /\ [Next]_vars => AloneInv'
<1> SUFFICES ASSUME TypeOK, RowInv, CountInv, AloneInv, ExactInv, [Next]_vars PROVE AloneInv'
  OBVIOUS
<1>1. alone \subseteq Open /\ \A t \in alone : Open = {t}
  BY DEF TypeOK, AloneInv
<1>2. CASE Open' = Open /\ UNCHANGED <<alone, suspect, committed, stat>>
  <2> SUFFICES ASSUME NEW t \in alone'
               PROVE  /\ Open' = {t}
                      /\ t \in Runs => execution'[t].at >= stat'.cursor
                      /\ t \in Runs \cup Verifiers /\ verdict'[t].run # Nobody =>
                           verdict'[t].at >= stat'.verifiedCursor
                      /\ phase'[t] \in {"restored", "read"} =>
                           draft'[t].base = IF draft'[t].rescan THEN Nothing ELSE stat'
                      /\ phase'[t] = "read" =>
                           /\ draft'[t].fresh = Since(t)'
                           /\ draft'[t].good = {r \in Since(t)' : Worked(r, Visible(t))'}
                      /\ t \in Sweeps /\ phase'[t] \in {"written", "restored", "read"} => draft'[t].rescan
                      /\ (t \in Sweeps \/ ~suspect') /\ phase'[t] \in {"folded", "upserted"} =>
                           draft'[t].base.numbers = TheNumbers(Visible(t))'
    BY DEF AloneInv
  <2>1. t \in alone /\ Open' = {t}
    BY <1>1, <1>2
  <2> QED
    BY <1>2, <2>1, AloneGoesOn
<1>3. ASSUME NEW u \in Txs, phase[u] = "idle", Open' = Open \cup {u},
             alone' = IF Open = {} THEN {u} ELSE {}, UNCHANGED <<committed, stat>>
      PROVE  AloneInv'
  <2>1. CASE Open # {}
    BY <1>3, <2>1 DEF AloneInv
  <2>2. CASE Open = {}
    <3>1. alone' = {u} /\ Open' = {u}
      BY <1>3, <2>2
    <3>2. /\ u \in Runs => execution'[u].at >= stat'.cursor
          /\ u \in Runs \cup Verifiers /\ verdict'[u].run # Nobody => verdict'[u].at >= stat'.verifiedCursor
          /\ phase'[u] \in {"recorded", "written"}
          /\ u \in Sweeps => draft'[u].rescan
      BY <1>3, <2>2, <3>1, AloneBegins
    <3> QED
      BY <3>1, <3>2 DEF AloneInv
  <2> QED
    BY <2>1, <2>2
<1>4. ASSUME NEW u \in Open, alone' = alone \ {u} PROVE AloneInv'
  <2>1. alone' = {}
    BY <1>1, <1>4
  <2> QED
    BY <2>1 DEF AloneInv
<1> QED
  BY <1>2, <1>3, <1>4, AloneMovesStep DEF AloneMoves

\* The numbers are replaced only by the commit of one who had the version to itself.
LEMMA ExactStep == TypeOK /\ RowInv /\ CountInv /\ AloneInv /\ ExactInv /\ [Next]_vars => ExactInv'
<1> SUFFICES ASSUME TypeOK, RowInv, CountInv, AloneInv, ExactInv, [Next]_vars, ~suspect'
             PROVE  Exact' /\ Open' \subseteq alone'
  BY DEF ExactInv
<1>1. alone \subseteq Open /\ \A t \in alone : Open = {t}
  BY DEF TypeOK, AloneInv
<1>2. ASSUME Exact, UNCHANGED <<committed, stat>> PROVE Exact'
  <2>1. PICK visible : visible = committed
    OBVIOUS
  <2>2. Kept(visible)
    BY <2>1, RowsKept
  <2>3. TheNumbers(visible)' = TheNumbers(visible)
    BY <2>2, NumbersKept
  <2>4. TheNumbers(committed)' = TheNumbers(visible)'
    BY <1>2, <2>1 DEF TheNumbers, Observed, Worked
  <2> QED
    BY <1>2, <2>1, <2>3, <2>4 DEF Exact
<1>3. CASE Open' = Open /\ UNCHANGED <<alone, suspect, committed, stat>>
  BY <1>2, <1>3 DEF ExactInv
<1>4. ASSUME NEW u \in Txs, Open' = Open \cup {u}, alone' = IF Open = {} THEN {u} ELSE {},
             suspect' = (suspect \/ Open # {}), UNCHANGED <<committed, stat>>
      PROVE  Exact' /\ Open' \subseteq alone'
  BY <1>2, <1>4 DEF ExactInv
<1>5. ASSUME NEW u \in Open, Open' = Open \ {u}, alone' = alone \ {u}, UNCHANGED <<suspect, committed, stat>>
      PROVE  Exact' /\ Open' \subseteq alone'
  BY <1>2, <1>5 DEF ExactInv
<1>6. ASSUME NEW u \in Open, Open' = Open \ {u}, alone' = alone \ {u}, phase[u] = "upserted",
             stat' = draft[u].base, suspect' = (suspect /\ ~(u \in Sweeps /\ u \in alone)),
             \/ u \in Sweeps /\ committed' = committed
             \/ u \notin Sweeps /\ committed' = committed \cup {u} /\ phase'[u] = "done"
      PROVE  Exact' /\ Open' \subseteq alone'
  <2>1. u \in alone /\ (u \in Sweeps \/ ~suspect)
    BY <1>6 DEF ExactInv
  <2>2. Open' = {}
    BY <1>1, <1>6, <2>1
  <2>3. draft[u].base.numbers = TheNumbers(Visible(u))
    BY <1>6, <2>1 DEF AloneInv
  <2>4. PICK visible : visible = Visible(u)
    OBVIOUS
  <2>5. PICK later : later = committed'
    OBVIOUS
  <2>6. u \in Txs /\ (u \in Sweeps => u \notin Runs \cup Verifiers)
    BY EvidenceAssumption DEF Open
  <2>7. visible \cap (Runs \cup Verifiers) = later \cap (Runs \cup Verifiers)
    BY <1>6, <2>4, <2>5, <2>6 DEF Visible
  <2>8. Kept(visible)
    <3>1. CASE u \in Sweeps
      BY <2>4, <2>6, <3>1, RowsKept DEF Kept, Visible
    <3>2. CASE u \notin Sweeps
      BY <1>6, <2>4, <2>6, <3>2, RowsKept DEF Counting
    <3> QED
      BY <3>1, <3>2
  <2>9. TheNumbers(later)' = TheNumbers(visible)
    BY <2>7, <2>8, NumbersKept
  <2>10. TheNumbers(committed)' = TheNumbers(later)'
    BY <2>5 DEF TheNumbers, Observed, Worked
  <2> QED
    BY <1>6, <2>2, <2>3, <2>4, <2>9, <2>10 DEF Exact
<1> QED
  BY <1>3, <1>4, <1>5, <1>6, AloneMovesStep DEF AloneMoves

-----------------------------------------------------------------------------
(* The theorems.                                                           *)

\* The inductive invariant: the rows a transaction has seen do not change under
\* it, and every checkpoint, stored or in memory, counts only what is behind
\* its cursor.
THEOREM EvidenceCorrect == Spec => []EvidenceInv
<1>1. Init => EvidenceInv
  <2> SUFFICES ASSUME Init PROVE EvidenceInv
    OBVIOUS
  <2>1. TypeOK
    <3>1. 0 \in Time /\ 1 \in Time
      BY EvidenceAssumption DEF Time
    <3>2. NoRow \in [outcome: Outcomes \cup {"none"}, at: Time]
      BY <3>1 DEF NoRow
    <3>3. NoVerdict \in [run: Runs \cup {Nobody}, passed: BOOLEAN, at: Time]
      BY <3>1 DEF NoVerdict
    <3>4. NoDraft \in Drafts /\ Nothing \in Checkpoints
      BY NoDraftType
    <3>5. \A t \in Txs : phase[t] \in Phases
      BY DEF Init, Phases
    <3> QED
      BY <3>1, <3>2, <3>3, <3>4, <3>5 DEF Init, TypeOK
  <2>2. RowInv
    BY DEF Init, RowInv, NoVerdict, NoDraft, Counting
  <2>3. \A visible : Sound(Nothing, visible)
    BY <2>1, NothingSound
  <2>4. CountInv
    BY <2>3 DEF Init, CountInv, FreshInv, NoRow, NoVerdict, NoDraft
  <2> QED
    BY <2>1, <2>2, <2>4 DEF EvidenceInv
<1>2. EvidenceInv /\ [Next]_vars => EvidenceInv'
  BY TypeStep, RowInvStep, CountStep DEF EvidenceInv
<1> QED
  BY <1>1, <1>2, PTL DEF Spec

\* Replays, dead reports and verifications that were never committed leave no
\* trace in the stored numbers, whatever else goes on.
THEOREM NoInvention == Spec => []NothingInvented
<1>1. EvidenceInv => NothingInvented
  BY DEF EvidenceInv, CountInv, Sound, NothingInvented
<1> QED
  BY <1>1, EvidenceCorrect, PTL

\* However many runs end in one instant and whoever folds them, each is counted
\* at most once.
THEOREM CountedAtMostOnce == Spec => []NeverCountedTwice
<1>1. EvidenceInv => NeverCountedTwice
  BY DEF EvidenceInv, CountInv, Sound, NeverCountedTwice
<1> QED
  BY <1>1, EvidenceCorrect, PTL

\* Fold, fall back or rebuild: as long as nothing has overlapped since a sweep
\* ran alone, the stored numbers are those of the committed rows.
THEOREM SameAnswerEitherWay == Spec => []ExactUnlessOverlapped
<1>1. Init => AloneInv /\ ExactInv
  <2> SUFFICES ASSUME Init PROVE ExactInv /\ AloneInv
    OBVIOUS
  <2>1. Observed(committed) = {}
    BY DEF Init, Observed
  <2>2. stat.numbers = Zero
    BY DEF Init, Nothing
  <2>3. TheNumbers(committed) = Zero
    BY <2>1 DEF TheNumbers, Zero
  <2>4. Open = {}
    BY DEF Init, Open
  <2> QED
    BY <2>2, <2>3, <2>4 DEF ExactInv, Exact, AloneInv, Init
<1>2. EvidenceInv /\ AloneInv /\ ExactInv /\ [Next]_vars => (AloneInv /\ ExactInv)'
  BY AloneStep, ExactStep DEF EvidenceInv
<1>3. ExactInv => ExactUnlessOverlapped
  BY DEF ExactInv, ExactUnlessOverlapped
<1> QED
  BY <1>1, <1>2, <1>3, EvidenceCorrect, PTL DEF Spec

=============================================================================
