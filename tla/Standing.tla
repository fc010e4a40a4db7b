------------------------------ MODULE Standing ------------------------------
(***************************************************************************)
(* The standing of one Experience: candidate, verified or quarantined.     *)
(*                                                                         *)
(* Three writers share its row. _grade, at the end of every recompute,     *)
(* moves the status to match what the runs of a version say; the operator  *)
(* quarantines and releases by hand; and recording a new version moves     *)
(* latest_version. Each is a READ COMMITTED transaction that reads the row *)
(* without a lock and flushes later only the columns it has changed.       *)
(*                                                                         *)
(* What the runs of a version say is an input: see Evidence.               *)
(***************************************************************************)
EXTENDS Naturals, FiniteSets

CONSTANTS
  Graders,      \* transactions that recompute: reports, verifications, scheduler
  Admins,       \* requests of operators
  Recorders,    \* requests that record a version of the Experience
  MaxVersion,   \* bound on latest_version
  Nobody        \* no transaction

Txs == Graders \cup Admins \cup Recorders

ASSUME StandingAssumption ==
  /\ MaxVersion \in Nat \ {0}
  /\ Nobody \notin Txs
  /\ Graders \cap Admins = {} /\ Graders \cap Recorders = {} /\ Admins \cap Recorders = {}

VARIABLES
  experience,  \* the committed row
  newest,      \* its newest version, uncommitted writes included
  lock,        \* the transaction that holds the row lock
  tx,          \* what each transaction has read and means to write
  recorded,    \* how many recordings were accepted for each version number
  decree,      \* what operators were last told
  raced        \* who has overlapped: an operator with anyone, or two gradings

vars == <<experience, newest, lock, tx, recorded, decree, raced>>

-----------------------------------------------------------------------------

Statuses == {"CANDIDATE", "VERIFIED", "QUARANTINED"}
Columns == {"status", "quarantine", "latest"}

\* quarantine: NULL, imposed by the evidence, or with manual set.
Experiences == [status: Statuses, quarantine: {"none", "auto", "manual"}, latest: 1..MaxVersion]

Fresh == [status |-> "CANDIDATE", quarantine |-> "none", latest |-> 1]

\* What a version's runs say: the last twenty (rotten: at least five, four
\* fifths failed, freshly; recovered: at least five, a fifth failed at most)
\* and whether two independent organizations have proven it.
Evidence == [window: {"rotten", "mixed", "recovered"}, corroborated: BOOLEAN]

\* An open transaction: the version it grades or records, whether that was the
\* version on offer, whether it found grounds to release, and the columns its
\* UPDATE will set, to their values in row.
Transactions == [phase: {"idle", "read", "written"}, version: 0..MaxVersion,
                 current: BOOLEAN, recovery: BOOLEAN,
                 columns: SUBSET Columns, row: Experiences]

Idle == [phase |-> "idle", version |-> 0, current |-> FALSE, recovery |-> FALSE,
         columns |-> {}, row |-> Fresh]

Promoted(x) == IF x.status = "QUARANTINED" THEN x ELSE [x EXCEPT !.status = "VERIFIED"]

Withdrawn(x) == IF x.status = "VERIFIED" THEN [x EXCEPT !.status = "CANDIDATE"] ELSE x

Quarantined(x, by) == [x EXCEPT !.status = "QUARANTINED", !.quarantine = by]
Released(x) == [x EXCEPT !.status = "CANDIDATE", !.quarantine = "none"]

MayRelease(x, ev) ==
  x.status = "QUARANTINED" /\ x.quarantine # "manual" /\ ev.window = "recovered"

\* Variant: a recovery lifts any quarantine.
GradedForgetful(x, version, ev) ==
  LET current == version = x.latest
      y == IF current /\ x.status = "QUARANTINED" /\ ev.window = "recovered" THEN Released(x) ELSE x
  IN  IF current /\ x.status # "QUARANTINED" /\ ev.window = "rotten" THEN Quarantined(x, "auto")
      ELSE IF ev.corroborated THEN Promoted(y) ELSE Withdrawn(y)

\* Variant: a quarantine without hysteresis, lifted as soon as it is not rot.
GradedEager(x, version, ev) ==
  LET current == version = x.latest
      y == IF current /\ x.status = "QUARANTINED" /\ x.quarantine # "manual"
                      /\ ev.window # "rotten" THEN Released(x) ELSE x
  IN  IF current /\ x.status # "QUARANTINED" /\ ev.window = "rotten" THEN Quarantined(x, "auto")
      ELSE IF ev.corroborated THEN Promoted(y) ELSE Withdrawn(y)

\* _grade, for one version and what its runs say.
Graded(x, version, ev) ==
  LET current == version = x.latest
      y == IF current /\ MayRelease(x, ev) THEN Released(x) ELSE x
  IN  IF current /\ x.status # "QUARANTINED" /\ ev.window = "rotten" THEN Quarantined(x, "auto")
      ELSE IF ev.corroborated THEN Promoted(y) ELSE Withdrawn(y)

\* The unit of work's UPDATE names the columns whose value has changed.
Changes(x, y) == {c \in Columns : x[c] # y[c]}

\* The row after that UPDATE.
Updated(x, columns, y) ==
  [status |-> IF "status" \in columns THEN y.status ELSE x.status,
   quarantine |-> IF "quarantine" \in columns THEN y.quarantine ELSE x.quarantine,
   latest |-> IF "latest" \in columns THEN y.latest ELSE x.latest]

-----------------------------------------------------------------------------

Init ==
  /\ experience = Fresh
  /\ newest = Fresh
  /\ lock = Nobody
  /\ tx = [t \in Txs |-> Idle]
  /\ recorded = [n \in 1..MaxVersion |-> IF n = 1 THEN 1 ELSE 0]
  /\ decree = "none"
  /\ raced = {}

Overlaps(t) ==
  LET others == {u \in Txs : tx[u].phase # "idle"}
  IN  (IF others # {} /\ (t \in Admins \/ others \cap Admins # {}) THEN {"operator"} ELSE {})
        \cup (IF t \in Graders /\ others \cap Graders # {} THEN {"gradings"} ELSE {})

Begin(t, version, recovery, columns, y) ==
  /\ tx[t].phase = "idle"
  /\ tx' = [tx EXCEPT ![t] = [phase |-> "read", version |-> version,
                              current |-> version = experience.latest,
                              recovery |-> recovery,
                              columns |-> columns, row |-> Updated(Fresh, columns, y)]]
  /\ raced' = raced \cup Overlaps(t)
  /\ UNCHANGED <<experience, newest, lock, recorded, decree>>

\* recompute has upserted the version's stat row, whose lock keeps any other
\* recompute of that version out, and _grade reads the Experience. A quarantine
\* carries its time: imposing one always changes that column.
GradeRead(t, version, ev) ==
  /\ version \in 1..experience.latest
  /\ \A u \in Graders : tx[u].phase # "idle" => tx[u].version # version
  /\ LET y == Graded(experience, version, ev)
         imposed == IF y.status = "QUARANTINED" /\ y # experience THEN {"quarantine"} ELSE {}
     IN  Begin(t, version, MayRelease(experience, ev), Changes(experience, y) \cup imposed, y)

\* set_quarantine, {"quarantined": true}.
QuarantineRead(t) ==
  LET y == Quarantined(experience, "manual")
  IN  Begin(t, 0, FALSE, Changes(experience, y) \cup {"quarantine"}, y)

\* set_quarantine, {"quarantined": false}.
ReleaseRead(t) ==
  LET y == Released(experience)
  IN  Begin(t, 0, FALSE, Changes(experience, y), y)

\* ExperienceRepository.create on an existing Experience: the next number.
RecordRead(t) ==
  /\ experience.latest < MaxVersion
  /\ LET y == [experience EXCEPT !.latest = @ + 1]
     IN  Begin(t, y.latest, FALSE, Changes(experience, y), y)

\* Variant: no unique constraint on the version number.
ConflictsNever(t) == FALSE

\* uq_experience_version: another recording won the race.
Conflicts(t) == t \in Recorders /\ newest.latest >= tx[t].version

\* The flush: waits for the row lock and keeps it.
Write(t) ==
  /\ tx[t].phase = "read"
  /\ tx[t].columns # {}
  /\ lock = Nobody
  /\ ~Conflicts(t)
  /\ newest' = Updated(newest, tx[t].columns, tx[t].row)
  /\ lock' = t
  /\ tx' = [tx EXCEPT ![t].phase = "written"]
  /\ UNCHANGED <<experience, recorded, decree, raced>>

Answered(t) ==
  IF "quarantine" \in tx[t].columns /\ tx[t].row.quarantine = "manual"
  THEN "quarantined" ELSE "released"

\* A transaction with nothing to write commits without waiting.
Commit(t) ==
  /\ tx[t].phase = (IF tx[t].columns = {} THEN "read" ELSE "written")
  /\ experience' = IF lock = t THEN newest ELSE experience
  /\ lock' = IF lock = t THEN Nobody ELSE lock
  /\ tx' = [tx EXCEPT ![t] = Idle]
  /\ recorded' = IF t \in Recorders THEN [recorded EXCEPT ![tx[t].version] = @ + 1] ELSE recorded
  /\ decree' = IF t \in Admins THEN Answered(t) ELSE decree
  /\ UNCHANGED <<newest, raced>>

\* A Conflict answered 409, or a request that dies.
Abort(t) ==
  /\ tx[t].phase # "idle"
  /\ newest' = IF lock = t THEN experience ELSE newest
  /\ lock' = IF lock = t THEN Nobody ELSE lock
  /\ tx' = [tx EXCEPT ![t] = Idle]
  /\ UNCHANGED <<experience, recorded, decree, raced>>

Next ==
  \/ \E t \in Graders, version \in 1..MaxVersion, ev \in Evidence : GradeRead(t, version, ev)
  \/ \E t \in Admins : QuarantineRead(t) \/ ReleaseRead(t)
  \/ \E t \in Recorders : RecordRead(t)
  \/ \E t \in Txs : Write(t) \/ Commit(t) \/ Abort(t)

Spec == Init /\ [][Next]_vars

-----------------------------------------------------------------------------
(* The invariant.                                                          *)

\* "An operator's quarantine is never lifted by a run of luck": once an
\* operator has been told an Experience is withdrawn, it stays so until one
\* releases it.
OperatorsWordStands ==
  decree = "quarantined" =>
    experience.status = "QUARANTINED" /\ experience.quarantine = "manual"

IsOpen(t) == tx[t].phase # "idle"

\* The row lock: whoever holds it is the only one whose UPDATE is out.
LockInv ==
  /\ lock = Nobody => newest = experience
  /\ \A t \in Txs :
       /\ lock = t => newest = Updated(experience, tx[t].columns, tx[t].row)
       /\ lock = t <=> tx[t].phase = "written"
       /\ ~IsOpen(t) => tx[t].columns = {}

\* Only recordings move latest_version, by one, and whoever has the lock to do
\* so has found its number still free.
VersionInv ==
  /\ \A t \in Txs \ Recorders : "latest" \notin tx[t].columns
  /\ \A t \in Recorders : IsOpen(t) =>
       /\ tx[t].columns = {"latest"} /\ tx[t].row.latest = tx[t].version
       /\ tx[t].version \in 1..experience.latest + 1
       /\ tx[t].phase = "written" => tx[t].version = experience.latest + 1

\* Undisturbed, an operator's request ends as it was meant when it read, and no
\* grading that is open has read anything but what the operator has decided.
DecreeInv ==
  "operator" \notin raced =>
    /\ \A a \in Admins, t \in Txs : IsOpen(a) /\ IsOpen(t) => t = a
    /\ \A a \in Admins : IsOpen(a) /\ Answered(a) = "quarantined" =>
         Updated(experience, tx[a].columns, tx[a].row).status = "QUARANTINED"
    /\ \A g \in Graders :
         decree = "quarantined" /\ IsOpen(g) => tx[g].columns = {}
    /\ OperatorsWordStands

\* A grading that nobody overlapped releases only what it found recovered, on
\* the version it found on offer.
ReleaseInv ==
  raced = {} =>
    /\ \A t, u \in Graders : IsOpen(t) /\ IsOpen(u) => t = u
    /\ \A t \in Graders :
         /\ "status" \in tx[t].columns /\ experience.status = "QUARANTINED"
         /\ tx[t].row.status # "QUARANTINED"
         => tx[t].current /\ tx[t].recovery

StandingInv == LockInv /\ VersionInv /\ DecreeInv /\ ReleaseInv

-----------------------------------------------------------------------------
(* Properties.                                                             *)

\* Every variable has the type of its column or of its request.
TypeOK ==
  /\ experience \in Experiences
  /\ newest \in Experiences
  /\ lock \in Txs \cup {Nobody}
  /\ tx \in [Txs -> Transactions]
  /\ recorded \in [1..MaxVersion -> Nat]
  /\ decree \in {"none", "quarantined", "released"}
  /\ raced \subseteq {"operator", "gradings"}

\* What does hold of set_quarantine and _grade: the operator's word stands,
\* however gradings and recordings race each other, as long as none of them
\* was open while an operator's request was.
OperatorsWordStandsAlone == "operator" \notin raced => OperatorsWordStands

\* The hysteresis of rotten and recovered: what takes an Experience out of
\* quarantine is an operator, or a window of at most one failure in five on
\* the version that was on offer when it was read, whoever records meanwhile.
OnlyRecoveryReleases ==
  [][raced = {} /\ experience.status = "QUARANTINED" /\ experience'.status # "QUARANTINED" =>
       \E t \in Admins \cup Graders :
         Commit(t) /\ (t \in Graders => tx[t].current /\ tx[t].recovery)]_vars

\* Recordings race for the next number and one of them wins: every number up
\* to latest_version was given out once, and none beyond it.
VersionsAreGivenOutOnce ==
  \A n \in 1..MaxVersion : recorded[n] = IF n <= experience.latest THEN 1 ELSE 0

=============================================================================
