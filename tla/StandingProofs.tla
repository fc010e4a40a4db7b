--------------------------- MODULE StandingProofs ---------------------------
(***************************************************************************)
(* Proofs about Standing, for any number of gradings, operators and        *)
(* recordings and any number of versions. StandingInv is inductive; the    *)
(* safety properties follow from it.                                       *)
(*                                                                         *)
(* Then about Rules, one rule after the other and for all that each may be *)
(* asked: the walk of Lineage on every graph, the answer of Recall for     *)
(* every registry and query, the dates and clocks of Calendar, the sums    *)
(* and amounts of Money, the label of Intent for every task, the levels of *)
(* Verdicts for every run. The last section puts them together: RulesSpec  *)
(* satisfies the four invariants of Rules, whatever questions there are.   *)
(***************************************************************************)
EXTENDS Standing, Rules, FiniteSetTheorems, SequenceTheorems,
        NaturalsInduction, WellFoundedInduction, TLAPS

-----------------------------------------------------------------------------
(* The row.                                                                *)

\* An UPDATE of a row is a row.
LEMMA UpdatedIsRow ==
  ASSUME NEW x \in Experiences, NEW y \in Experiences, NEW columns
  PROVE  /\ Updated(x, columns, y) \in Experiences
         /\ Updated(x, columns, y).status = IF "status" \in columns THEN y.status ELSE x.status
         /\ Updated(x, columns, y).quarantine =
              IF "quarantine" \in columns THEN y.quarantine ELSE x.quarantine
         /\ Updated(x, columns, y).latest = IF "latest" \in columns THEN y.latest ELSE x.latest
BY DEF Updated, Experiences

\* Which columns an UPDATE names.
LEMMA Named ==
  ASSUME NEW x \in Experiences, NEW y \in Experiences
  PROVE  /\ Changes(x, y) \in SUBSET Columns
         /\ "status" \in Changes(x, y) <=> x.status # y.status
         /\ "quarantine" \in Changes(x, y) <=> x.quarantine # y.quarantine
         /\ "latest" \in Changes(x, y) <=> x.latest # y.latest
BY DEF Changes, Columns, Experiences

\* The first row of the Experience is one.
LEMMA FreshIsRow == Fresh \in Experiences
BY StandingAssumption DEF Fresh, Experiences, Statuses

\* What imposing and lifting a quarantine make of a row.
LEMMA HandRows ==
  ASSUME NEW x \in Experiences, NEW by \in {"none", "auto", "manual"}
  PROVE  /\ Quarantined(x, by) \in Experiences /\ Released(x) \in Experiences
         /\ Quarantined(x, by).status = "QUARANTINED" /\ Quarantined(x, by).quarantine = by
         /\ Quarantined(x, by).latest = x.latest /\ Released(x).latest = x.latest
         /\ Released(x).status = "CANDIDATE" /\ Released(x).quarantine = "none"
BY DEF Quarantined, Released, Experiences, Statuses

\* What _grade makes of one: it leaves an operator's quarantine alone, and
\* lifts another only on a recovery of the version on offer.
LEMMA GradedRow ==
  ASSUME NEW x \in Experiences, NEW version, NEW ev \in Evidence
  PROVE  LET y == Graded(x, version, ev)
         IN  /\ y \in Experiences
             /\ y.latest = x.latest
             /\ x.status = "QUARANTINED" /\ x.quarantine = "manual" => y = x
             /\ x.status = "QUARANTINED" /\ y.status # "QUARANTINED" =>
                  version = x.latest /\ MayRelease(x, ev)
<1> DEFINE base == IF version = x.latest /\ MayRelease(x, ev) THEN Released(x) ELSE x
           rot == version = x.latest /\ x.status # "QUARANTINED" /\ ev.window = "rotten"
<1>1. Graded(x, version, ev) =
        IF rot THEN Quarantined(x, "auto")
        ELSE IF ev.corroborated THEN Promoted(base) ELSE Withdrawn(base)
  BY DEF Graded
<1>2. /\ base \in Experiences /\ base.latest = x.latest
      /\ x.quarantine = "manual" => base = x
      /\ ~(version = x.latest /\ MayRelease(x, ev)) => base = x
  BY HandRows DEF MayRelease
<1>3. ASSUME NEW z \in Experiences
      PROVE  /\ Promoted(z) \in Experiences /\ Withdrawn(z) \in Experiences
             /\ Promoted(z).latest = z.latest /\ Withdrawn(z).latest = z.latest
             /\ z.status = "QUARANTINED" => Promoted(z) = z /\ Withdrawn(z) = z
  BY DEF Promoted, Withdrawn, Experiences, Statuses
<1>4. CASE rot
  BY <1>1, <1>4, HandRows
<1>5. CASE ~rot
  <2> HIDE DEF base, rot
  <2> QED
    BY <1>1, <1>2, <1>3, <1>5
<1> QED
  BY <1>4, <1>5

\* The row after _grade: what it is to the columns its UPDATE names.
LEMMA GradedColumns ==
  ASSUME NEW x \in Experiences, NEW version, NEW ev \in Evidence
  PROVE  LET y == Graded(x, version, ev)
             imposed == IF y.status = "QUARANTINED" /\ y # x THEN {"quarantine"} ELSE {}
             columns == Changes(x, y) \cup imposed
         IN  /\ y \in Experiences
             /\ columns \in SUBSET Columns
             /\ "latest" \notin columns
             /\ x.status = "QUARANTINED" /\ x.quarantine = "manual" => columns = {}
             /\ x.status = "QUARANTINED" /\ "status" \in columns =>
                  version = x.latest /\ MayRelease(x, ev)
<1> DEFINE y == Graded(x, version, ev)
<1>1. /\ y \in Experiences
      /\ y.latest = x.latest
      /\ x.status = "QUARANTINED" /\ x.quarantine = "manual" => y = x
      /\ x.status = "QUARANTINED" /\ y.status # "QUARANTINED" =>
           version = x.latest /\ MayRelease(x, ev)
  BY GradedRow
<1> HIDE DEF y
<1>2. /\ Changes(x, y) \in SUBSET Columns
      /\ "status" \in Changes(x, y) <=> x.status # y.status
      /\ "latest" \in Changes(x, y) <=> x.latest # y.latest
  BY <1>1, Named
<1>3. y = x => Changes(x, y) = {}
  BY DEF Changes
<1>4. "quarantine" \in Columns
  BY DEF Columns
<1>5. LET imposed == IF y.status = "QUARANTINED" /\ y # x THEN {"quarantine"} ELSE {}
          columns == Changes(x, y) \cup imposed
      IN  /\ y \in Experiences
          /\ columns \in SUBSET Columns
          /\ "latest" \notin columns
          /\ x.status = "QUARANTINED" /\ x.quarantine = "manual" => columns = {}
          /\ x.status = "QUARANTINED" /\ "status" \in columns =>
               version = x.latest /\ MayRelease(x, ev)
  BY <1>1, <1>2, <1>3, <1>4
<1> QED
  BY <1>5 DEF y

-----------------------------------------------------------------------------
(* The steps.                                                              *)

\* What the four reads have in common, and what each of them means to write.
ReadStep ==
  \E t \in Txs, version \in 0..MaxVersion, recovery \in BOOLEAN,
     columns \in SUBSET Columns, y \in Experiences :
    /\ Begin(t, version, recovery, columns, y)
    /\ t \in Recorders <=> "latest" \in columns
    /\ t \in Recorders => /\ columns = {"latest"} /\ y.latest = version
                          /\ version = experience.latest + 1
    /\ t \in Admins => (y.quarantine = "manual" => y = Quarantined(experience, "manual"))
    /\ t \in Admins => (experience.status # y.status => "status" \in columns)
    /\ t \in Graders =>
         /\ experience.status = "QUARANTINED" /\ experience.quarantine = "manual" => columns = {}
         /\ experience.status = "QUARANTINED" /\ "status" \in columns =>
              version = experience.latest /\ recovery

\* The four reads are such steps.
LEMMA Reads ==
  ASSUME TypeOK,
         \/ \E t \in Graders, version \in 1..MaxVersion, ev \in Evidence :
              GradeRead(t, version, ev)
         \/ \E t \in Admins : QuarantineRead(t) \/ ReleaseRead(t)
         \/ \E t \in Recorders : RecordRead(t)
  PROVE  ReadStep
<1>0. experience \in Experiences /\ experience.latest \in 1..MaxVersion /\ MaxVersion \in Nat
  BY StandingAssumption DEF TypeOK, Experiences
<1>1. ASSUME NEW t \in Graders, NEW version \in 1..MaxVersion, NEW ev \in Evidence,
             GradeRead(t, version, ev)
      PROVE  ReadStep
  <2> DEFINE y == Graded(experience, version, ev)
             imposed == IF y.status = "QUARANTINED" /\ y # experience THEN {"quarantine"} ELSE {}
             columns == Changes(experience, y) \cup imposed
             recovery == MayRelease(experience, ev)
  <2>1. /\ y \in Experiences /\ columns \in SUBSET Columns /\ "latest" \notin columns
        /\ experience.status = "QUARANTINED" /\ experience.quarantine = "manual" => columns = {}
        /\ experience.status = "QUARANTINED" /\ "status" \in columns =>
             version = experience.latest /\ recovery
    BY <1>0, GradedColumns
  <2>2. Begin(t, version, recovery, columns, y)
    BY <1>1 DEF GradeRead
  <2>3. recovery \in BOOLEAN
    BY DEF MayRelease
  <2>4. t \in Txs /\ t \notin Recorders /\ t \notin Admins /\ version \in 0..MaxVersion
    BY <1>0, StandingAssumption DEF Txs
  <2> HIDE DEF y, columns, recovery
  <2> QED
    BY <2>1, <2>2, <2>3, <2>4 DEF ReadStep
<1>2. ASSUME NEW t \in Admins, NEW y \in Experiences, NEW columns \in SUBSET Columns,
             Begin(t, 0, FALSE, columns, y), "latest" \notin columns,
             y.quarantine = "manual" => y = Quarantined(experience, "manual"),
             experience.status # y.status => "status" \in columns
      PROVE  ReadStep
  <2>1. t \in Txs /\ t \notin Recorders /\ t \notin Graders /\ 0 \in 0..MaxVersion
    BY <1>0, StandingAssumption DEF Txs
  <2> QED
    BY <1>2, <2>1 DEF ReadStep
<1>3. ASSUME NEW t \in Admins, QuarantineRead(t) PROVE ReadStep
  <2> DEFINE y == Quarantined(experience, "manual")
             columns == Changes(experience, y) \cup {"quarantine"}
  <2>1. y \in Experiences /\ y.latest = experience.latest
    BY <1>0, HandRows
  <2>2. /\ columns \in SUBSET Columns /\ "latest" \notin columns
        /\ experience.status # y.status => "status" \in columns
    BY <1>0, <2>1, Named DEF Columns
  <2>3. Begin(t, 0, FALSE, columns, y)
    BY <1>3 DEF QuarantineRead
  <2> HIDE DEF columns
  <2> QED
    BY <1>2, <2>1, <2>2, <2>3
<1>4. ASSUME NEW t \in Admins, ReleaseRead(t) PROVE ReadStep
  <2> DEFINE y == Released(experience)
             columns == Changes(experience, y)
  <2>1. y \in Experiences /\ y.latest = experience.latest /\ y.quarantine = "none"
    BY <1>0, HandRows
  <2>2. /\ columns \in SUBSET Columns /\ "latest" \notin columns
        /\ experience.status # y.status => "status" \in columns
    BY <1>0, <2>1, Named
  <2>3. Begin(t, 0, FALSE, columns, y)
    BY <1>4 DEF ReleaseRead
  <2> HIDE DEF columns, y
  <2> QED
    BY <1>2, <2>1, <2>2, <2>3
<1>5. ASSUME NEW t \in Recorders, RecordRead(t) PROVE ReadStep
  <2> DEFINE y == [experience EXCEPT !.latest = @ + 1]
             columns == Changes(experience, y)
  <2>1. /\ y \in Experiences /\ y.latest = experience.latest + 1
        /\ y.status = experience.status /\ y.quarantine = experience.quarantine
        /\ y.latest \in 0..MaxVersion
    BY <1>0, <1>5 DEF Experiences, RecordRead
  <2>2. Begin(t, y.latest, FALSE, columns, y)
    BY <1>5 DEF RecordRead
  <2> HIDE DEF y
  <2>3. /\ columns \in SUBSET Columns /\ "latest" \in columns
        /\ "status" \notin columns /\ "quarantine" \notin columns
    BY <1>0, <2>1, Named
  <2> HIDE DEF columns
  <2>4. columns = {"latest"}
    BY <2>3 DEF Columns
  <2>5. t \in Txs /\ t \notin Admins /\ t \notin Graders
    BY StandingAssumption DEF Txs
  <2> QED
    BY <2>1, <2>2, <2>3, <2>4, <2>5 DEF ReadStep
<1>6. CASE \E t \in Graders, version \in 1..MaxVersion, ev \in Evidence :
             GradeRead(t, version, ev)
  BY <1>1, <1>6
<1>7. CASE \E t \in Admins : QuarantineRead(t) \/ ReleaseRead(t)
  BY <1>3, <1>4, <1>7
<1>8. CASE \E t \in Recorders : RecordRead(t)
  BY <1>5, <1>8
<1> QED
  BY <1>6, <1>7, <1>8

\* The fields of the transactions after one of them has begun.
Begun(t, version, recovery, columns, y) ==
  /\ tx' \in [Txs -> Transactions]
  /\ \A u \in Txs : u # t => tx'[u] = tx[u]
  /\ tx[t].phase = "idle" /\ tx'[t].phase = "read"
  /\ tx'[t].version = version /\ tx'[t].recovery = recovery
  /\ tx'[t].current = (version = experience.latest)
  /\ tx'[t].columns = columns /\ tx'[t].row = Updated(Fresh, columns, y)

\* That is what beginning does.
LEMMA BeginFields ==
  ASSUME TypeOK, NEW t \in Txs, NEW version \in 0..MaxVersion, NEW recovery \in BOOLEAN,
         NEW columns \in SUBSET Columns, NEW y \in Experiences,
         Begin(t, version, recovery, columns, y)
  PROVE  Begun(t, version, recovery, columns, y)
<1>1. Updated(Fresh, columns, y) \in Experiences
  BY FreshIsRow, UpdatedIsRow
<1> QED
  BY <1>1 DEF Begin, Begun, TypeOK, Transactions

\* The fields after one has written, and after one has ended.
LEMMA WriteFields ==
  ASSUME TypeOK, NEW t \in Txs, Write(t)
  PROVE  /\ tx' \in [Txs -> Transactions]
         /\ \A u \in Txs : u # t => tx'[u] = tx[u]
         /\ tx[t].phase = "read" /\ tx'[t].phase = "written"
         /\ tx'[t].version = tx[t].version /\ tx'[t].recovery = tx[t].recovery
         /\ tx'[t].current = tx[t].current
         /\ tx'[t].columns = tx[t].columns /\ tx'[t].row = tx[t].row
<1>1. tx[t] \in Transactions
  BY DEF TypeOK
<1>2. [tx[t] EXCEPT !.phase = "written"] \in Transactions
  BY <1>1 DEF Transactions
<1>3. tx' = [tx EXCEPT ![t] = [tx[t] EXCEPT !.phase = "written"]]
  BY DEF Write, TypeOK
<1> QED
  BY <1>1, <1>2, <1>3 DEF Write, TypeOK, Transactions

\* The fields after one has committed or died.
LEMMA EndFields ==
  ASSUME TypeOK, NEW t \in Txs, Commit(t) \/ Abort(t)
  PROVE  /\ tx' \in [Txs -> Transactions]
         /\ \A u \in Txs : u # t => tx'[u] = tx[u]
         /\ tx[t].phase # "idle"
         /\ tx'[t] = Idle /\ tx'[t].phase = "idle" /\ tx'[t].columns = {}
<1>1. Idle \in Transactions /\ Idle.phase = "idle" /\ Idle.columns = {}
  BY FreshIsRow, StandingAssumption DEF Idle, Transactions
<1>2. tx' = [tx EXCEPT ![t] = Idle]
  BY DEF Commit, Abort
<1>3. tx[t].phase # "idle"
  BY DEF Commit, Abort
<1> QED
  BY <1>1, <1>2, <1>3 DEF TypeOK

\* The four kinds of step.
Steps == ReadStep \/ (\E t \in Txs : Write(t) \/ Commit(t) \/ Abort(t))

\* Every step is one of the four.
LEMMA Kinds == ASSUME TypeOK, Next PROVE Steps
BY Reads DEF Next, Steps

-----------------------------------------------------------------------------
(* Types.                                                                  *)

\* Everything starts well typed.
LEMMA TypeInit == Init => TypeOK
<1> SUFFICES ASSUME Init PROVE TypeOK
  OBVIOUS
<1>1. Idle \in Transactions
  BY FreshIsRow, StandingAssumption DEF Idle, Transactions
<1>2. recorded \in [1..MaxVersion -> Nat]
  BY DEF Init
<1> QED
  BY <1>1, <1>2, FreshIsRow DEF Init, TypeOK

\* The lock and the numbers are typed; what a request has read is a row.
LEMMA TypeStep == ASSUME TypeOK, Steps PROVE TypeOK'
<1>1. ASSUME NEW t \in Txs, NEW version \in 0..MaxVersion, NEW recovery \in BOOLEAN,
             NEW columns \in SUBSET Columns, NEW y \in Experiences,
             Begin(t, version, recovery, columns, y)
      PROVE  TypeOK'
  <2>1. Begun(t, version, recovery, columns, y)
    BY <1>1, BeginFields
  <2> QED
    BY <1>1, <2>1 DEF TypeOK, Begin, Begun, Overlaps
<1>2. ASSUME NEW t \in Txs, Write(t) PROVE TypeOK'
  <2>1. Updated(newest, tx[t].columns, tx[t].row) \in Experiences
    BY UpdatedIsRow DEF TypeOK, Transactions
  <2> QED
    BY <1>2, <2>1, WriteFields DEF TypeOK, Write
<1>3. ASSUME NEW t \in Txs, Commit(t) PROVE TypeOK'
  <2>1. recorded' \in [1..MaxVersion -> Nat]
    <3> DEFINE v == tx[t].version
    <3>1. recorded \in [1..MaxVersion -> Nat] /\ \A n \in 1..MaxVersion : recorded[n] + 1 \in Nat
      BY DEF TypeOK
    <3>2. recorded' = IF t \in Recorders THEN [recorded EXCEPT ![v] = recorded[v] + 1] ELSE recorded
      BY <1>3 DEF Commit
    <3> HIDE DEF v
    <3> QED
      BY <3>1, <3>2
  <2>2. decree' \in {"none", "quarantined", "released"}
    BY <1>3 DEF TypeOK, Commit, Answered
  <2> QED
    BY <1>3, <2>1, <2>2, EndFields DEF TypeOK, Commit
<1>4. ASSUME NEW t \in Txs, Abort(t) PROVE TypeOK'
  BY <1>4, EndFields DEF TypeOK, Abort
<1> QED
  BY <1>1, <1>2, <1>3, <1>4 DEF Steps, ReadStep

-----------------------------------------------------------------------------
(* The row lock.                                                           *)

\* Whoever begins has nothing out; whoever writes takes the lock; whoever ends
\* gives it back, with the row as it wrote it or as it was.
LEMMA LockStep == ASSUME TypeOK, LockInv, Steps PROVE LockInv'
<1>0. Nobody \notin Txs
  BY StandingAssumption
<1>1. ASSUME NEW t \in Txs, NEW version \in 0..MaxVersion, NEW recovery \in BOOLEAN,
             NEW columns \in SUBSET Columns, NEW y \in Experiences,
             Begin(t, version, recovery, columns, y)
      PROVE  LockInv'
  <2>0. Begun(t, version, recovery, columns, y)
    BY <1>1, BeginFields
  <2>1. UNCHANGED <<experience, newest, lock>> /\ lock # t
    BY <1>1, <2>0 DEF Begin, Begun, LockInv
  <2> QED
    BY <2>0, <2>1 DEF LockInv, IsOpen, Begun
<1>2. ASSUME NEW t \in Txs, Write(t) PROVE LockInv'
  <2>1. /\ UNCHANGED experience /\ lock = Nobody /\ lock' = t /\ newest = experience
        /\ newest' = Updated(experience, tx[t].columns, tx[t].row)
    BY <1>2 DEF Write, LockInv
  <2>2. \A u \in Txs : tx[u].phase # "written"
    BY <1>0, <2>1 DEF LockInv
  <2> QED
    <3>1. /\ tx'[t].phase = "written" /\ tx'[t].columns = tx[t].columns
          /\ tx'[t].row = tx[t].row /\ \A u \in Txs : u # t => tx'[u] = tx[u]
      BY <1>2, WriteFields
    <3>2. \A u \in Txs : tx'[u].phase = "idle" => tx'[u].columns = {}
      BY <3>1 DEF LockInv, IsOpen
    <3>3. newest' = Updated(experience', tx'[t].columns, tx'[t].row)
      BY <2>1, <3>1
    <3> QED
      BY <1>0, <2>1, <2>2, <3>1, <3>2, <3>3 DEF LockInv, IsOpen
<1>3. ASSUME NEW t \in Txs, Commit(t) \/ Abort(t) PROVE LockInv'
  <2>1. /\ tx'[t].phase = "idle" /\ tx'[t].columns = {}
        /\ \A u \in Txs : u # t => tx'[u] = tx[u]
    BY <1>3, EndFields
  <2>2. CASE lock = t
    <3>1. lock' = Nobody /\ newest' = experience'
      BY <1>3, <2>2 DEF Commit, Abort
    <3> QED
      BY <1>0, <2>1, <2>2, <3>1 DEF LockInv, IsOpen
  <2>3. CASE lock # t
    <3>1. UNCHANGED <<lock, newest, experience>>
      BY <1>3, <2>3 DEF Commit, Abort
    <3> QED
      BY <1>0, <2>1, <2>3, <3>1 DEF LockInv, IsOpen
  <2> QED
    BY <2>2, <2>3
<1> QED
  BY <1>1, <1>2, <1>3 DEF Steps, ReadStep

\* What a commit makes of the row: nothing, unless it holds the lock.
LEMMA Committed ==
  ASSUME TypeOK, LockInv, NEW t \in Txs, Commit(t)
  PROVE  /\ experience' = IF tx[t].columns = {} THEN experience
                          ELSE Updated(experience, tx[t].columns, tx[t].row)
         /\ tx[t].columns # {} => tx[t].phase = "written" /\ lock = t
BY DEF LockInv, Commit

-----------------------------------------------------------------------------
(* Version numbers.                                                        *)

\* The lock is held by one, which found its number free; so the number is the
\* next one, and is given out with the row that says so.
LEMMA VersionStep ==
  ASSUME TypeOK, LockInv, VersionInv, VersionsAreGivenOutOnce, Steps
  PROVE  VersionInv' /\ VersionsAreGivenOutOnce'
<1>0. /\ experience \in Experiences /\ experience.latest \in 1..MaxVersion
      /\ MaxVersion \in Nat
      /\ \A t \in Txs : /\ tx[t] \in Transactions /\ tx[t].row \in Experiences
                        /\ tx[t].version \in 0..MaxVersion
  BY StandingAssumption DEF TypeOK, Experiences, Transactions
<1>1. ASSUME NEW t \in Txs, NEW version \in 0..MaxVersion, NEW recovery \in BOOLEAN,
             NEW columns \in SUBSET Columns, NEW y \in Experiences,
             Begin(t, version, recovery, columns, y),
             t \in Recorders <=> "latest" \in columns,
             t \in Recorders => /\ columns = {"latest"} /\ y.latest = version
                               /\ version = experience.latest + 1
      PROVE  VersionInv' /\ VersionsAreGivenOutOnce'
  <2>0. Begun(t, version, recovery, columns, y)
    BY <1>1, BeginFields
  <2>1. UNCHANGED <<experience, recorded>>
    BY <1>1 DEF Begin
  <2>2. "latest" \in columns => Updated(Fresh, columns, y).latest = y.latest
    BY <1>1, FreshIsRow, UpdatedIsRow
  <2>3. t \in Recorders => tx'[t].row.latest = version
    <3>1. tx'[t].row = Updated(Fresh, columns, y)
      BY <2>0 DEF Begun
    <3> QED
      BY <1>1, <2>2, <3>1
  <2>4. /\ tx'[t].phase = "read" /\ tx'[t].version = version /\ tx'[t].columns = columns
        /\ \A u \in Txs : u # t => tx'[u] = tx[u]
    BY <2>0 DEF Begun
  <2>5. VersionInv'
    <3>1. \A u \in Txs \ Recorders : "latest" \notin tx'[u].columns
      BY <1>1, <2>4 DEF VersionInv
    <3>2. \A u \in Recorders : tx'[u].phase # "idle" =>
             /\ tx'[u].columns = {"latest"} /\ tx'[u].row.latest = tx'[u].version
             /\ tx'[u].version \in 1..experience.latest + 1
             /\ tx'[u].phase = "written" => tx'[u].version = experience.latest + 1
      BY <1>0, <1>1, <2>3, <2>4 DEF VersionInv, IsOpen, Txs
    <3> QED
      BY <2>1, <3>1, <3>2 DEF VersionInv, IsOpen
  <2> QED
    BY <2>1, <2>5 DEF VersionsAreGivenOutOnce
<1>2. ASSUME NEW t \in Txs, Write(t) PROVE VersionInv' /\ VersionsAreGivenOutOnce'
  <2>1. UNCHANGED <<experience, recorded>> /\ newest = experience
    BY <1>2 DEF Write, LockInv
  <2>2. t \in Recorders => tx[t].version = experience.latest + 1
    BY <1>0, <1>2, <2>1 DEF Write, Conflicts, VersionInv, IsOpen
  <2>3. VersionInv'
    BY <1>0, <1>2, <2>1, <2>2, WriteFields DEF VersionInv, IsOpen, Txs
  <2> QED
    BY <2>1, <2>3 DEF VersionsAreGivenOutOnce
<1>3. ASSUME NEW t \in Txs, Commit(t) PROVE VersionInv' /\ VersionsAreGivenOutOnce'
  <2>1. CASE t \in Recorders
    <3>1. /\ tx[t].phase = "written" /\ lock = t
          /\ tx[t].columns = {"latest"} /\ tx[t].row.latest = experience.latest + 1
          /\ tx[t].version = experience.latest + 1
      BY <1>3, <2>1, Committed, EndFields DEF VersionInv, IsOpen
    <3>2. experience' = Updated(experience, tx[t].columns, tx[t].row)
      BY <1>3, <3>1, Committed
    <3>3. experience'.latest = experience.latest + 1
      BY <1>0, <3>1, <3>2, UpdatedIsRow
    <3>4. \A u \in Txs : tx'[u].phase # "written"
      BY <1>3, <3>1, EndFields DEF LockInv
    <3>5. VersionInv'
      BY <1>0, <1>3, <3>3, <3>4, EndFields DEF VersionInv, IsOpen, Txs
    <3>6. recorded' = [recorded EXCEPT ![experience.latest + 1] =
                        recorded[experience.latest + 1] + 1]
      BY <1>3, <2>1, <3>1 DEF Commit
    <3>7. VersionsAreGivenOutOnce'
      BY <1>0, <3>3, <3>6 DEF VersionsAreGivenOutOnce, TypeOK
    <3> QED
      BY <3>5, <3>7
  <2>2. CASE t \notin Recorders
    <3>1. experience'.latest = experience.latest
      BY <1>0, <1>3, <2>2, Committed, UpdatedIsRow DEF VersionInv
    <3>2. UNCHANGED recorded
      BY <1>3, <2>2 DEF Commit
    <3>3. VersionInv'
      BY <1>0, <1>3, <3>1, EndFields DEF VersionInv, IsOpen, Txs
    <3> QED
      BY <3>1, <3>2, <3>3 DEF VersionsAreGivenOutOnce
  <2> QED
    BY <2>1, <2>2
<1>4. ASSUME NEW t \in Txs, Abort(t) PROVE VersionInv' /\ VersionsAreGivenOutOnce'
  <2>1. UNCHANGED <<experience, recorded>>
    BY <1>4 DEF Abort
  <2> QED
    BY <1>4, <2>1, EndFields DEF VersionInv, VersionsAreGivenOutOnce, IsOpen, Txs
<1> QED
  BY <1>1, <1>2, <1>3, <1>4 DEF Steps, ReadStep

-----------------------------------------------------------------------------
(* What races leave standing.                                              *)

\* Who is open when somebody begins, as raced tells.
LEMMA Overlapped ==
  ASSUME TypeOK, NEW t \in Txs, NEW version, NEW recovery, NEW columns, NEW y,
         Begin(t, version, recovery, columns, y)
  PROVE  /\ raced \subseteq raced'
         /\ "operator" \notin raced' =>
              /\ t \in Admins => \A u \in Txs : ~IsOpen(u)
              /\ \A a \in Admins : ~IsOpen(a)
         /\ "gradings" \notin raced' => (t \in Graders => \A u \in Graders : ~IsOpen(u))
<1> DEFINE others == {u \in Txs : IsOpen(u)}
<1>1. raced' = raced \cup
        ((IF others # {} /\ (t \in Admins \/ others \cap Admins # {}) THEN {"operator"} ELSE {})
           \cup (IF t \in Graders /\ others \cap Graders # {} THEN {"gradings"} ELSE {}))
  BY DEF Begin, Overlaps, IsOpen
<1>2. \A u \in Txs : u \in others <=> IsOpen(u)
  OBVIOUS
<1>3. Admins \subseteq Txs /\ Graders \subseteq Txs
  BY DEF Txs
<1> HIDE DEF others
<1> QED
  BY <1>1, <1>2, <1>3

\* The operator's word, step by step.
LEMMA DecreeStep ==
  ASSUME TypeOK, LockInv, VersionInv, DecreeInv, Steps
  PROVE  DecreeInv'
<1> SUFFICES ASSUME "operator" \notin raced'
             PROVE  /\ \A a \in Admins, t \in Txs : IsOpen(a)' /\ IsOpen(t)' => t = a
                    /\ \A a \in Admins : IsOpen(a)' /\ Answered(a)' = "quarantined" =>
                         Updated(experience, tx[a].columns, tx[a].row).status' = "QUARANTINED"
                    /\ \A g \in Graders :
                         decree' = "quarantined" /\ IsOpen(g)' => tx'[g].columns = {}
                    /\ OperatorsWordStands'
  BY DEF DecreeInv
<1> DEFINE Meant(a) == Updated(experience, tx[a].columns, tx[a].row)
<1>0. /\ experience \in Experiences
      /\ \A t \in Txs : tx[t] \in Transactions /\ tx[t].row \in Experiences
      /\ Admins \subseteq Txs /\ Graders \subseteq Txs /\ Recorders \subseteq Txs
      /\ \A t \in Txs : t \in Admins \/ t \in Graders \/ t \in Recorders
      /\ \A a \in Admins : a \notin Graders /\ a \notin Recorders
      /\ \A g \in Graders : g \notin Recorders
  BY StandingAssumption DEF TypeOK, Transactions, Txs
<1>a. raced \subseteq raced' => "operator" \notin raced
  OBVIOUS
<1>1. ASSUME NEW t \in Txs, NEW version \in 0..MaxVersion, NEW recovery \in BOOLEAN,
             NEW columns \in SUBSET Columns, NEW y \in Experiences,
             Begin(t, version, recovery, columns, y),
             t \in Admins => (y.quarantine = "manual" => y = Quarantined(experience, "manual")),
             t \in Graders => (experience.status = "QUARANTINED" /\ experience.quarantine = "manual"
                               => columns = {}),
             t \in Admins => (experience.status # y.status => "status" \in columns)
      PROVE  DecreeInv'
  <2>0. Begun(t, version, recovery, columns, y)
    BY <1>1, BeginFields
  <2>1. /\ "operator" \notin raced
        /\ t \in Admins => \A u \in Txs : ~IsOpen(u)
        /\ \A a \in Admins : ~IsOpen(a)
    BY <1>1, <1>a, Overlapped
  <2>2. UNCHANGED <<experience, decree>>
    BY <1>1 DEF Begin
  <2>3. \A a \in Admins, u \in Txs : tx'[a].phase # "idle" /\ tx'[u].phase # "idle" => u = a
    BY <1>0, <2>0, <2>1 DEF Begun, IsOpen
  <2>4. \A a \in Admins : tx'[a].phase # "idle" => a = t
    BY <1>0, <2>0, <2>1 DEF Begun, IsOpen
  <2>5. ASSUME t \in Admins, "quarantine" \in tx'[t].columns, tx'[t].row.quarantine = "manual"
        PROVE  Updated(experience, tx'[t].columns, tx'[t].row).status = "QUARANTINED"
    <3> DEFINE stored == Updated(Fresh, columns, y)
    <3>1. /\ stored \in Experiences
          /\ "quarantine" \in columns => stored.quarantine = y.quarantine
          /\ "status" \in columns => stored.status = y.status
      BY FreshIsRow, UpdatedIsRow
    <3>2. tx'[t].columns = columns /\ tx'[t].row = stored
      BY <2>0 DEF Begun
    <3> HIDE DEF stored
    <3>3. y = Quarantined(experience, "manual")
      BY <1>1, <2>5, <3>1, <3>2
    <3>4. y.status = "QUARANTINED"
      BY <1>0, <3>3, HandRows
    <3>5. Updated(experience, columns, stored).status =
            IF "status" \in columns THEN stored.status ELSE experience.status
      BY <1>0, <3>1, UpdatedIsRow
    <3> QED
      BY <1>1, <2>5, <3>1, <3>2, <3>4, <3>5
  <2>6. \A a \in Admins : tx'[a].phase # "idle" /\ Answered(a)' = "quarantined" =>
           Updated(experience', tx'[a].columns, tx'[a].row).status = "QUARANTINED"
    BY <2>2, <2>4, <2>5 DEF Answered
  <2>7. OperatorsWordStands'
    BY <2>1, <2>2 DEF DecreeInv, OperatorsWordStands
  <2>8. \A g \in Graders : decree' = "quarantined" /\ tx'[g].phase # "idle" => tx'[g].columns = {}
    BY <1>0, <1>1, <2>0, <2>1, <2>2 DEF Begun, DecreeInv, OperatorsWordStands, IsOpen
  <2> QED
    BY <2>3, <2>6, <2>7, <2>8 DEF IsOpen, DecreeInv
<1>2. ASSUME NEW t \in Txs, Write(t) PROVE DecreeInv'
  <2>1. UNCHANGED <<experience, decree, raced>>
    BY <1>2 DEF Write
  <2>2. /\ \A u \in Txs : tx'[u].columns = tx[u].columns /\ tx'[u].row = tx[u].row
        /\ \A u \in Txs : tx'[u].phase # "idle" <=> tx[u].phase # "idle"
    BY <1>2, WriteFields
  <2> QED
    BY <1>0, <2>1, <2>2 DEF DecreeInv, OperatorsWordStands, Answered, IsOpen
<1>3. ASSUME NEW t \in Txs, Commit(t) PROVE DecreeInv'
  <2>0. UNCHANGED raced /\ "operator" \notin raced
    BY <1>3 DEF Commit
  <2>1. /\ tx[t].phase # "idle" /\ tx'[t].phase = "idle"
        /\ \A u \in Txs : u # t => tx'[u] = tx[u]
    BY <1>3, EndFields
  <2>2. /\ experience' = IF tx[t].columns = {} THEN experience ELSE Meant(t)
        /\ Meant(t).status = IF "status" \in tx[t].columns THEN tx[t].row.status
                             ELSE experience.status
        /\ Meant(t).quarantine = IF "quarantine" \in tx[t].columns THEN tx[t].row.quarantine
                                 ELSE experience.quarantine
    BY <1>0, <1>3, Committed, UpdatedIsRow
  <2> HIDE DEF Meant
  <2>3. CASE t \in Admins
    <3>1. \A u \in Txs : tx'[u].phase = "idle"
      BY <1>0, <2>0, <2>1, <2>3 DEF DecreeInv, IsOpen
    <3>2. decree' = Answered(t)
      BY <1>3, <2>3 DEF Commit
    <3>3. Answered(t) = "quarantined" =>
            /\ "quarantine" \in tx[t].columns /\ tx[t].row.quarantine = "manual"
            /\ Meant(t).status = "QUARANTINED"
      BY <2>0, <2>1, <2>3 DEF DecreeInv, IsOpen, Answered, Meant
    <3>4. OperatorsWordStands'
      BY <2>2, <3>2, <3>3 DEF OperatorsWordStands
    <3> QED
      BY <1>0, <3>1, <3>4 DEF DecreeInv, IsOpen
  <2>4. CASE t \notin Admins
    <3>1. UNCHANGED decree
      BY <1>3, <2>4 DEF Commit
    <3>2. \A a \in Admins : tx'[a].phase = "idle"
      BY <1>0, <2>0, <2>1, <2>4 DEF DecreeInv, IsOpen
    <3>3. decree = "quarantined" =>
            experience'.status = experience.status /\ experience'.quarantine = experience.quarantine
      <4>1. t \in Recorders => tx[t].columns = {"latest"}
        BY <2>1 DEF VersionInv, IsOpen
      <4>2. t \in Graders /\ decree = "quarantined" => tx[t].columns = {}
        BY <2>0, <2>1 DEF DecreeInv, IsOpen
      <4> QED
        BY <1>0, <2>2, <2>4, <4>1, <4>2
    <3>4. OperatorsWordStands'
      BY <2>0, <3>1, <3>3 DEF OperatorsWordStands, DecreeInv
    <3>5. \A g \in Graders : decree' = "quarantined" /\ tx'[g].phase # "idle" => tx'[g].columns = {}
      BY <1>0, <2>0, <2>1, <3>1 DEF DecreeInv, IsOpen
    <3> QED
      BY <3>2, <3>4, <3>5 DEF DecreeInv, IsOpen
  <2> QED
    BY <2>3, <2>4
<1>4. ASSUME NEW t \in Txs, Abort(t) PROVE DecreeInv'
  <2>1. UNCHANGED <<experience, decree, raced>>
    BY <1>4 DEF Abort
  <2>2. /\ tx'[t].phase = "idle" /\ \A u \in Txs : u # t => tx'[u] = tx[u]
    BY <1>4, EndFields
  <2> QED
    BY <1>0, <2>1, <2>2 DEF DecreeInv, OperatorsWordStands, Answered, IsOpen
<1> QED
  BY <1>1, <1>2, <1>3, <1>4 DEF Steps, ReadStep, DecreeInv

\* Gradings that nobody overlapped, step by step.
LEMMA ReleaseStep ==
  ASSUME TypeOK, LockInv, VersionInv, DecreeInv, ReleaseInv, Steps
  PROVE  ReleaseInv'
<1> DEFINE Grounds(t) ==
             "status" \in tx[t].columns /\ experience.status = "QUARANTINED"
               /\ tx[t].row.status # "QUARANTINED" => tx[t].current /\ tx[t].recovery
<1> SUFFICES ASSUME raced' = {} PROVE ReleaseInv'
  BY DEF ReleaseInv
<1>0. /\ experience \in Experiences
      /\ \A t \in Txs : tx[t] \in Transactions /\ tx[t].row \in Experiences
      /\ Admins \subseteq Txs /\ Graders \subseteq Txs /\ Recorders \subseteq Txs
      /\ \A t \in Txs : t \in Admins \/ t \in Graders \/ t \in Recorders
  BY DEF TypeOK, Transactions, Txs
<1>1. ASSUME NEW t \in Txs, NEW version \in 0..MaxVersion, NEW recovery \in BOOLEAN,
             NEW columns \in SUBSET Columns, NEW y \in Experiences,
             Begin(t, version, recovery, columns, y),
             t \in Graders => (experience.status = "QUARANTINED" /\ "status" \in columns
                               => version = experience.latest /\ recovery)
      PROVE  ReleaseInv'
  <2>0. Begun(t, version, recovery, columns, y)
    BY <1>1, BeginFields
  <2>1. raced = {} /\ (t \in Graders => \A u \in Graders : ~IsOpen(u))
    BY <1>1, Overlapped
  <2>2. UNCHANGED experience
    BY <1>1 DEF Begin
  <2>3. \A u \in Txs : u # t => tx'[u] = tx[u]
    BY <2>0 DEF Begun
  <2>4. \A u, v \in Graders : tx'[u].phase # "idle" /\ tx'[v].phase # "idle" => u = v
    BY <1>0, <2>1, <2>3 DEF ReleaseInv, IsOpen
  <2>5. t \in Graders => Grounds(t)'
    BY <1>1, <2>0, <2>2 DEF Begun
  <2>6. \A u \in Graders : u # t => Grounds(u)'
    BY <1>0, <2>1, <2>2, <2>3 DEF ReleaseInv
  <2> QED
    BY <2>4, <2>5, <2>6 DEF ReleaseInv, IsOpen
<1>2. ASSUME NEW t \in Txs, Write(t) PROVE ReleaseInv'
  <2>1. UNCHANGED <<experience, raced>>
    BY <1>2 DEF Write
  <2>2. \A u \in Txs : /\ tx'[u].columns = tx[u].columns /\ tx'[u].row = tx[u].row
                       /\ tx'[u].current = tx[u].current /\ tx'[u].recovery = tx[u].recovery
                       /\ tx'[u].phase # "idle" <=> tx[u].phase # "idle"
    BY <1>2, WriteFields
  <2> QED
    BY <1>0, <2>1, <2>2 DEF ReleaseInv, IsOpen
<1>3. ASSUME NEW t \in Txs, Commit(t) \/ Abort(t) PROVE ReleaseInv'
  <2>1. /\ UNCHANGED raced /\ raced = {} /\ tx[t].phase # "idle"
        /\ tx'[t].phase = "idle" /\ tx'[t].columns = {}
        /\ \A u \in Txs : u # t => tx'[u] = tx[u]
    BY <1>3, EndFields DEF Commit, Abort
  <2>2. \A u, v \in Graders : tx'[u].phase # "idle" /\ tx'[v].phase # "idle" => u = v
    BY <1>0, <2>1 DEF ReleaseInv, IsOpen
  <2>3. CASE experience'.status = experience.status
    BY <1>0, <2>1, <2>2, <2>3 DEF ReleaseInv, IsOpen
  <2>4. CASE experience'.status # experience.status
    <3>1. Commit(t) /\ "status" \in tx[t].columns
      BY <1>0, <1>3, <2>4, Committed, UpdatedIsRow DEF Abort
    <3>2. t \notin Recorders
      BY <2>1, <3>1 DEF VersionInv, IsOpen
    <3>3. \A u \in Graders : u # t => tx[u].phase = "idle"
      BY <1>0, <2>1, <3>2 DEF ReleaseInv, DecreeInv, IsOpen
    <3>4. \A u \in Graders : tx'[u].columns = {}
      BY <1>0, <2>1, <3>3 DEF LockInv, IsOpen
    <3> QED
      BY <2>2, <3>4 DEF ReleaseInv, IsOpen
  <2> QED
    BY <2>3, <2>4
<1> QED
  BY <1>1, <1>2, <1>3 DEF Steps, ReadStep

-----------------------------------------------------------------------------
(* The theorems.                                                           *)

\* The invariant holds before anything has begun.
LEMMA InvInit == Init => StandingInv /\ VersionsAreGivenOutOnce
<1> SUFFICES ASSUME Init PROVE StandingInv /\ VersionsAreGivenOutOnce
  OBVIOUS
<1>1. /\ \A t \in Txs : tx[t].phase = "idle" /\ tx[t].columns = {}
      /\ lock \notin Txs /\ newest = experience /\ decree = "none"
      /\ Admins \subseteq Txs /\ Graders \subseteq Txs /\ Recorders \subseteq Txs
  BY StandingAssumption DEF Init, Idle, Txs
<1>2. LockInv
  BY <1>1 DEF LockInv, IsOpen
<1>3. VersionInv
  BY <1>1 DEF VersionInv, IsOpen
<1>4. DecreeInv
  BY <1>1 DEF DecreeInv, OperatorsWordStands, IsOpen
<1>5. ReleaseInv
  BY <1>1 DEF ReleaseInv, IsOpen
<1>6. VersionsAreGivenOutOnce
  BY StandingAssumption DEF VersionsAreGivenOutOnce, Init, Fresh
<1> QED
  BY <1>2, <1>3, <1>4, <1>5, <1>6 DEF StandingInv

\* Who holds the row, what everybody open means to write and what the committed
\* row owes to whom, in every reachable state.
THEOREM StandingCorrect == Spec => [](TypeOK /\ StandingInv /\ VersionsAreGivenOutOnce)
<1>1. Init => TypeOK /\ StandingInv /\ VersionsAreGivenOutOnce
  BY TypeInit, InvInit
<1>2. ASSUME TypeOK, StandingInv, VersionsAreGivenOutOnce, [Next]_vars
      PROVE  TypeOK' /\ StandingInv' /\ VersionsAreGivenOutOnce'
  <2>1. CASE Next
    <3>1. Steps
      BY <1>2, <2>1, Kinds
    <3> QED
      BY <1>2, <3>1, TypeStep, LockStep, VersionStep, DecreeStep, ReleaseStep DEF StandingInv
  <2>2. CASE UNCHANGED vars
    BY <1>2, <2>2 DEF vars, TypeOK, StandingInv, LockInv, VersionInv, DecreeInv, ReleaseInv,
       IsOpen, Answered, OperatorsWordStands, VersionsAreGivenOutOnce
  <2> QED
    BY <1>2, <2>1, <2>2
<1> QED
  BY <1>1, <1>2, PTL DEF Spec

\* Recordings race for the next number, and each number up to latest_version is
\* given out to one of them.
THEOREM NumberedOnce == Spec => []VersionsAreGivenOutOnce
BY StandingCorrect, PTL

\* However gradings and recordings race each other, what an operator was told
\* stays true while nobody else was open with an operator.
THEOREM OperatorsWord == Spec => []OperatorsWordStandsAlone
<1>1. StandingInv => OperatorsWordStandsAlone
  BY DEF StandingInv, DecreeInv, OperatorsWordStandsAlone
<1> QED
  BY <1>1, StandingCorrect, PTL

\* Without overlapping gradings and operators, only an operator or a recovery
\* of the version on offer takes an Experience out of quarantine.
THEOREM Hysteresis == Spec => OnlyRecoveryReleases
<1>1. ASSUME TypeOK, StandingInv, [Next]_vars,
             raced = {}, experience.status = "QUARANTINED", experience'.status # "QUARANTINED"
      PROVE  \E t \in Admins \cup Graders :
               Commit(t) /\ (t \in Graders => tx[t].current /\ tx[t].recovery)
  <2>1. PICK t \in Txs : Commit(t)
    <3>1. Next
      BY <1>1 DEF vars
    <3>2. Steps
      BY <1>1, <3>1, Kinds
    <3>3. experience' # experience
      BY <1>1
    <3> QED
      BY <3>2, <3>3 DEF Steps, ReadStep, Begin, Write, Abort
  <2>2. /\ experience \in Experiences /\ tx[t].row \in Experiences /\ tx[t].phase # "idle"
        /\ t \in Admins \/ t \in Graders \/ t \in Recorders
    BY <1>1, <2>1, EndFields DEF TypeOK, Transactions, Txs
  <2>3. "status" \in tx[t].columns /\ tx[t].row.status # "QUARANTINED"
    BY <1>1, <2>1, <2>2, Committed, UpdatedIsRow DEF StandingInv
  <2>4. t \notin Recorders
    BY <1>1, <2>2, <2>3 DEF StandingInv, VersionInv, IsOpen
  <2>5. t \in Graders => tx[t].current /\ tx[t].recovery
    BY <1>1, <2>3 DEF StandingInv, ReleaseInv
  <2> QED
    BY <2>1, <2>2, <2>4, <2>5
<1>2. TypeOK /\ StandingInv /\ [Next]_vars =>
        [raced = {} /\ experience.status = "QUARANTINED" /\ experience'.status # "QUARANTINED" =>
           \E t \in Admins \cup Graders :
             Commit(t) /\ (t \in Graders => tx[t].current /\ tx[t].recovery)]_vars
  BY <1>1
<1> QED
  BY <1>2, StandingCorrect, PTL DEF Spec, OnlyRecoveryReleases

-----------------------------------------------------------------------------
(* Folds.                                                                  *)

\* A set of numbers that has zero, and the next one of each, has them all.
LEMMA EachNatural ==
  ASSUME NEW P, 0 \in P, \A n \in Nat : n \in P => n + 1 \in P
  PROVE  \A n \in Nat : n \in P
<1> DEFINE Bad == {n \in Nat : n \notin P}
<1>1. SUFFICES ASSUME Bad # {} PROVE FALSE
  OBVIOUS
<1>2. PICK n \in Bad : \A m \in Bad : <<m, n>> \notin OpToRel(<, Nat)
  <2>1. Bad \subseteq Nat
    OBVIOUS
  <2> QED
    BY <1>1, <2>1, NatLessThanWellFounded, WFMin
<1>3. n \in Nat /\ n # 0 /\ n \notin P
  OBVIOUS
<1>4. n - 1 \in Nat /\ n - 1 < n /\ (n - 1) + 1 = n
  BY <1>3
<1>5. n - 1 \notin P
  BY <1>3, <1>4
<1>6. <<n - 1, n>> \in OpToRel(<, Nat)
  BY <1>3, <1>4 DEF OpToRel
<1> QED
  BY <1>2, <1>4, <1>5, <1>6

\* A set of naturals below a bound, when it is not empty, has a largest.
LEMMA LargestOf ==
  ASSUME NEW m \in Nat, NEW S \in SUBSET Nat, S # {}, \A x \in S : x <= m
  PROVE  Max(S) \in S /\ \A y \in S : Max(S) >= y
<1> DEFINE U == {u \in Nat : \A x \in S : x <= u}
<1>1. U \in SUBSET Nat /\ U # {}
  OBVIOUS
<1>2. PICK u \in U : \A v \in U : <<v, u>> \notin OpToRel(<, Nat)
  BY <1>1, NatLessThanWellFounded, WFMin
<1>3. u \in Nat /\ \A x \in S : x <= u
  BY <1>2
<1>4. u \in S
  <2> SUFFICES ASSUME u \notin S PROVE FALSE
    OBVIOUS
  <2>1. \A x \in S : x < u
    BY <1>3
  <2>2. PICK y \in S : y \in Nat /\ y < u
    BY <2>1
  <2>3. u > 0 /\ u - 1 \in Nat /\ u - 1 < u /\ \A x \in S : x <= u - 1
    <3>1. u > 0 /\ u - 1 \in Nat /\ u - 1 < u
      BY <1>3, <2>2
    <3>2. \A x \in S : x \in Nat
      OBVIOUS
    <3> QED
      BY <1>3, <2>1, <3>1, <3>2
  <2>4. u - 1 \in U
    BY <2>3
  <2>5. <<u - 1, u>> \in OpToRel(<, Nat)
    BY <1>3, <2>3 DEF OpToRel
  <2> QED
    BY <1>2, <2>4, <2>5
<1>5. \A y \in S : u >= y
  BY <1>3
<1> QED
  BY <1>4, <1>5 DEF Max

\* A set of places of a list, when it is not empty, has a last one.
LEMMA LastOne ==
  ASSUME NEW n \in Nat, NEW S \in SUBSET (1..n), S # {}
  PROVE  Max(S) \in S /\ \A y \in S : Max(S) >= y
<1>1. S \in SUBSET Nat /\ \A x \in S : x <= n
  OBVIOUS
<1> QED
  BY <1>1, LargestOf

\* What is left of a set without its last one is a set of earlier ones.
LEMMA UpTo ==
  ASSUME NEW n \in Nat, NEW s \in SUBSET (1..(n + 1))
  PROVE  /\ n + 1 \notin s => s \in SUBSET (1..n)
         /\ n + 1 \in s => s \ {n + 1} \in SUBSET (1..n) /\ Max(s) = n + 1
         /\ 1..(n + 1) # {} /\ Max(1..(n + 1)) = n + 1 /\ (1..(n + 1)) \ {n + 1} = 1..n
<1>1. ASSUME NEW u \in SUBSET (1..(n + 1)), n + 1 \in u PROVE Max(u) = n + 1
  <2>1. Max(u) \in u /\ \A y \in u : Max(u) >= y
    <3>1. n + 1 \in Nat /\ u # {}
      BY <1>1
    <3> QED
      BY <3>1, LastOne
  <2>2. Max(u) \in 1..(n + 1) /\ Max(u) >= n + 1
    BY <1>1, <2>1
  <2> QED
    BY <2>2
<1>2. n + 1 \in 1..(n + 1)
  OBVIOUS
<1>3. Max(1..(n + 1)) = n + 1
  BY <1>1, <1>2
<1>4. (1..(n + 1)) \ {n + 1} = 1..n
  OBVIOUS
<1>5. n + 1 \notin s => s \in SUBSET (1..n)
  BY <1>4
<1>6. n + 1 \in s => s \ {n + 1} \in SUBSET (1..n) /\ Max(s) = n + 1
  BY <1>1, <1>4
<1> QED
  BY <1>2, <1>3, <1>4, <1>5, <1>6

\* A function on the sets of places 1..n that goes by the last place of each.
IsFold(g, S, base, n, F) ==
  /\ g \in [SUBSET (1..n) -> S]
  /\ g[{}] = base
  /\ \A s \in SUBSET (1..n) : s # {} => g[s] = F[<<g[s \ {Max(s)}], Max(s)>>]

\* What comes of F, from base, one place of 1..n after the other.
IsSteps(v, S, base, n, F) ==
  v \in [0..n -> S] /\ v[0] = base /\ \A k \in 1..n : v[k] = F[<<v[k - 1], k>>]

\* They come to x in the end.
LeadsTo(v, S, base, n, F, x) == IsSteps(v, S, base, n, F) /\ v[n] = x

\* A function on the sets of places that goes by F as far as it stays in S.
GoesBy(h, S, base, n, F) ==
  /\ h[{}] = base
  /\ \A s \in SUBSET (1..n) : s # {} /\ h[s \ {Max(s)}] \in S => h[s] = F[<<h[s \ {Max(s)}], Max(s)>>]

\* Two functions on the sets of places that are the same on a set when they are
\* the same on what comes before its last place.
Follow(g, h, n) ==
  /\ g[{}] = h[{}]
  /\ \A s \in SUBSET (1..n) : s # {} /\ g[s \ {Max(s)}] = h[s \ {Max(s)}] => g[s] = h[s]

\* A fold over the places of a list exists, from any beginning and for any step
\* that stays within a set.
LEMMA FoldExists ==
  ASSUME NEW S, NEW base \in S, NEW n \in Nat, NEW F \in [S \X (1..n) -> S]
  PROVE  \E g : IsFold(g, S, base, n, F)
<1> DEFINE Is(g, k) == /\ g \in [SUBSET (1..k) -> S]
                       /\ g[{}] = base
                       /\ \A s \in SUBSET (1..k) : s # {} => g[s] = F[<<g[s \ {Max(s)}], Max(s)>>]
           P == {k \in Nat : k <= n => \E g : Is(g, k)}
<1>1. 0 \in P
  <2> DEFINE g == [s \in SUBSET (1..0) |-> base]
  <2>1. SUBSET (1..0) = {{}}
    OBVIOUS
  <2>2. Is(g, 0)
    BY <2>1
  <2> QED
    BY <2>2
<1>2. ASSUME NEW k \in Nat, k \in P PROVE k + 1 \in P
  <2>1. SUFFICES ASSUME k + 1 <= n PROVE \E g : Is(g, k + 1)
    <3> HIDE DEF Is
    <3> QED
      OBVIOUS
  <2>2. PICK h : Is(h, k)
    <3> HIDE DEF Is
    <3>1. k <= n
      BY <2>1
    <3> QED
      BY <1>2, <3>1
  <2> DEFINE g == [s \in SUBSET (1..(k + 1)) |-> IF k + 1 \in s THEN F[<<h[s \ {k + 1}], k + 1>>] ELSE h[s]]
  <2>3. ASSUME NEW s \in SUBSET (1..(k + 1)) PROVE g[s] \in S
    <3>1. k + 1 \in 1..n
      BY <2>1
    <3> QED
      BY <2>2, <3>1, UpTo
  <2>4. ASSUME NEW s \in SUBSET (1..k) PROVE s \in SUBSET (1..(k + 1)) /\ k + 1 \notin s /\ g[s] = h[s]
    <3>1. s \in SUBSET (1..(k + 1)) /\ k + 1 \notin s
      OBVIOUS
    <3> QED
      BY <3>1
  <2>5. ASSUME NEW s \in SUBSET (1..(k + 1)), s # {} PROVE g[s] = F[<<g[s \ {Max(s)}], Max(s)>>]
    <3>1. CASE k + 1 \in s
      <4>1. s \ {k + 1} \in SUBSET (1..k) /\ Max(s) = k + 1
        BY <3>1, UpTo
      <4>2. g[s] = F[<<h[s \ {k + 1}], k + 1>>] /\ g[s \ {k + 1}] = h[s \ {k + 1}]
        BY <2>4, <3>1, <4>1
      <4> QED
        BY <4>1, <4>2
    <3>2. CASE k + 1 \notin s
      <4>1. s \in SUBSET (1..k) /\ s \ {Max(s)} \in SUBSET (1..k)
        BY <3>2, UpTo
      <4>2. g[s] = h[s] /\ g[s \ {Max(s)}] = h[s \ {Max(s)}]
        BY <2>4, <4>1
      <4> QED
        BY <2>2, <2>5, <4>1, <4>2
    <3> QED
      BY <3>1, <3>2
  <2>6. g[{}] = base
    BY <2>2, <2>4
  <2>7. Is(g, k + 1)
    BY <2>3, <2>5, <2>6
  <2> QED
    BY <2>7
<1> HIDE DEF P
<1>3. n \in P
  BY <1>1, <1>2, EachNatural
<1>4. \E g : Is(g, n)
  <2> HIDE DEF Is
  <2> QED
    BY <1>3 DEF P
<1> QED
  BY <1>4 DEF IsFold

\* Two folds that agree on each list if they agree on what comes before its last
\* place are the same.
LEMMA FoldsAgree ==
  ASSUME NEW n \in Nat, NEW g, NEW h, Follow(g, h, n)
  PROVE  \A s \in SUBSET (1..n) : g[s] = h[s]
<1> DEFINE P == {k \in Nat : k <= n => \A s \in SUBSET (1..k) : g[s] = h[s]}
<1>1. 0 \in P
  <2>1. SUBSET (1..0) = {{}}
    OBVIOUS
  <2> QED
    BY <2>1 DEF Follow
<1>2. ASSUME NEW k \in Nat, k \in P PROVE k + 1 \in P
  <2> SUFFICES ASSUME k + 1 <= n, NEW s \in SUBSET (1..(k + 1)) PROVE g[s] = h[s]
    OBVIOUS
  <2>1. \A u \in SUBSET (1..k) : g[u] = h[u]
    BY <1>2
  <2>2. s \in SUBSET (1..n)
    OBVIOUS
  <2>3. CASE k + 1 \in s
    BY <2>1, <2>2, <2>3, UpTo DEF Follow
  <2>4. CASE k + 1 \notin s
    BY <2>1, <2>4, UpTo
  <2> QED
    BY <2>3, <2>4
<1> HIDE DEF P
<1>3. n \in P
  BY <1>1, <1>2, EachNatural
<1> QED
  BY <1>3 DEF P

\* What comes of a fold, one place of the list after the other.
LEMMA StepsExist ==
  ASSUME NEW S, NEW base \in S, NEW n \in Nat, NEW F \in [S \X (1..n) -> S]
  PROVE  \E v : IsSteps(v, S, base, n, F)
<1>0. PICK g : IsFold(g, S, base, n, F)
  BY FoldExists
<1>1. /\ g \in [SUBSET (1..n) -> S]
      /\ g[{}] = base
      /\ \A s \in SUBSET (1..n) : s # {} => g[s] = F[<<g[s \ {Max(s)}], Max(s)>>]
  BY <1>0 DEF IsFold
<1> DEFINE v == [k \in 0..n |-> g[1..k]]
<1>2. ASSUME NEW k \in 1..n PROVE v[k] = F[<<v[k - 1], k>>]
  <2>1. k - 1 \in Nat /\ (k - 1) + 1 = k /\ k - 1 \in 0..n /\ k \in 0..n /\ 1..k \in SUBSET (1..n)
    OBVIOUS
  <2>2. 1..k # {} /\ Max(1..k) = k /\ (1..k) \ {k} = 1..(k - 1)
    <3>1. PICK j \in Nat : j = k - 1 /\ j + 1 = k
      BY <2>1
    <3>2. 1..(j + 1) # {} /\ Max(1..(j + 1)) = j + 1 /\ (1..(j + 1)) \ {j + 1} = 1..j
      BY UpTo
    <3> QED
      BY <3>1, <3>2
  <2>3. g[1..k] = F[<<g[1..(k - 1)], k>>]
    BY <1>1, <2>1, <2>2
  <2> QED
    BY <2>1, <2>3
<1>3. v[0] = base
  <2>1. 1..0 = {} /\ 0 \in 0..n
    OBVIOUS
  <2> QED
    BY <1>1, <2>1
<1>4. v \in [0..n -> S]
  <2>1. ASSUME NEW k \in 0..n PROVE g[1..k] \in S
    <3>1. 1..k \in SUBSET (1..n)
      OBVIOUS
    <3> QED
      BY <1>1, <3>1
  <2> QED
    BY <2>1
<1> QED
  BY <1>2, <1>3, <1>4 DEF IsSteps

\* A fold that goes by its definition is what comes of those steps.
LEMMA StepsOf ==
  ASSUME NEW S, NEW base \in S, NEW n \in Nat, NEW F \in [S \X (1..n) -> S],
         NEW h, GoesBy(h, S, base, n, F)
  PROVE  \E v : LeadsTo(v, S, base, n, F, h[1..n])
<1>0. PICK g : IsFold(g, S, base, n, F)
  BY FoldExists
<1>1. /\ g \in [SUBSET (1..n) -> S]
      /\ g[{}] = base
      /\ \A s \in SUBSET (1..n) : s # {} => g[s] = F[<<g[s \ {Max(s)}], Max(s)>>]
  BY <1>0 DEF IsFold
<1>2. \A s \in SUBSET (1..n) : g[s] = h[s]
  <2>1. ASSUME NEW s \in SUBSET (1..n), s # {}, g[s \ {Max(s)}] = h[s \ {Max(s)}] PROVE g[s] = h[s]
    BY <1>1, <2>1 DEF GoesBy
  <2>2. Follow(g, h, n)
    BY <1>1, <2>1 DEF Follow, GoesBy
  <2> QED
    BY <2>2, FoldsAgree
<1> DEFINE v == [k \in 0..n |-> g[1..k]]
<1>3. ASSUME NEW k \in 1..n PROVE v[k] = F[<<v[k - 1], k>>]
  <2>1. k - 1 \in Nat /\ (k - 1) + 1 = k /\ k - 1 \in 0..n /\ k \in 0..n /\ 1..k \in SUBSET (1..n)
    OBVIOUS
  <2>2. 1..k # {} /\ Max(1..k) = k /\ (1..k) \ {k} = 1..(k - 1)
    <3>1. PICK j \in Nat : j = k - 1 /\ j + 1 = k
      BY <2>1
    <3>2. 1..(j + 1) # {} /\ Max(1..(j + 1)) = j + 1 /\ (1..(j + 1)) \ {j + 1} = 1..j
      BY UpTo
    <3> QED
      BY <3>1, <3>2
  <2>3. g[1..k] = F[<<g[1..(k - 1)], k>>]
    BY <1>1, <2>1, <2>2
  <2> QED
    BY <2>1, <2>3
<1>4. v[0] = base /\ v[n] = h[1..n]
  <2>1. 1..0 = {} /\ 0 \in 0..n /\ n \in 0..n
    OBVIOUS
  <2> QED
    BY <1>1, <1>2, <2>1
<1>5. v \in [0..n -> S]
  <2>1. ASSUME NEW k \in 0..n PROVE g[1..k] \in S
    <3>1. 1..k \in SUBSET (1..n)
      OBVIOUS
    <3> QED
      BY <1>1, <3>1
  <2> QED
    BY <2>1
<1> QED
  BY <1>3, <1>4, <1>5 DEF IsSteps, LeadsTo

-----------------------------------------------------------------------------
(* The pieces of a walk.                                                   *)

\* Edges, the nodes and the walks of such graphs.
EdgesOver(E, T) == [from : E, to : T]

NodesOver(E, T) == [from : E, id : T, depth : Nat, resolved : BOOLEAN]

WalksOver(E, T) == [nodes : Seq(NodesOver(E, T)), seen : SUBSET T, next : Seq(E), truncated : BOOLEAN]

\* Lists one after the other are a list of what is in any of them.
LEMMA Flattened ==
  ASSUME NEW S, NEW seqs \in Seq(Seq(S))
  PROVE  /\ FlattenSeq(seqs) \in Seq(S)
         /\ Range(FlattenSeq(seqs)) = UNION {Range(seqs[i]) : i \in DOMAIN seqs}
<1> DEFINE n == Len(seqs)
<1>1. n \in Nat /\ n = Len(seqs) /\ DOMAIN seqs = 1..n /\ \A i \in 1..n : seqs[i] \in Seq(S)
  OBVIOUS
<1> HIDE DEF n
<1>2. CASE n = 0
  <2>1. FlattenSeq(seqs) = seqs /\ seqs = <<>> /\ DOMAIN seqs = {}
    BY <1>1, <1>2 DEF FlattenSeq
  <2> QED
    BY <2>1 DEF Range
<1>3. CASE n # 0
  <2> DEFINE F == [p \in Seq(S) \X (1..n) |-> p[1] \o seqs[p[2]]]
             flatten[i \in 1..n] == IF i = 1 THEN seqs[i] ELSE flatten[i - 1] \o seqs[i]
  <2>1. F \in [Seq(S) \X (1..n) -> Seq(S)]
    BY <1>1
  <2>2. <<>> \in Seq(S)
    OBVIOUS
  <2>0. PICK v : IsSteps(v, Seq(S), <<>>, n, F)
    <3> HIDE DEF F
    <3>1. n \in Nat
      BY <1>1
    <3> QED
      BY <2>1, <2>2, <3>1, StepsExist
  <2>3. v \in [0..n -> Seq(S)] /\ v[0] = <<>> /\ \A k \in 1..n : v[k] = F[<<v[k - 1], k>>]
    BY <2>0 DEF IsSteps
  <2>4. ASSUME NEW k \in 1..n PROVE v[k] = v[k - 1] \o seqs[k] /\ k - 1 \in 0..n /\ v[k - 1] \in Seq(S)
    <3>1. k - 1 \in 0..n /\ k \in 1..n
      BY <1>1
    <3>2. v[k - 1] \in Seq(S) /\ v[k] = F[<<v[k - 1], k>>]
      BY <2>3, <3>1
    <3> QED
      BY <3>1, <3>2
  <2>5. flatten = [i \in 1..n |-> IF i = 1 THEN seqs[i] ELSE flatten[i - 1] \o seqs[i]]
    <3> DEFINE w == [i \in 1..n |-> v[i]]
    <3>1. ASSUME NEW i \in 1..n PROVE w[i] = IF i = 1 THEN seqs[i] ELSE w[i - 1] \o seqs[i]
      <4>1. CASE i = 1
        <5>0. i - 1 = 0
          BY <4>1
        <5>1. v[i] = <<>> \o seqs[i] /\ seqs[i] \in Seq(S)
          <6>1. v[i] = v[i - 1] \o seqs[i] /\ v[i - 1] = <<>>
            BY <2>3, <2>4, <5>0
          <6> QED
            BY <1>1, <6>1
        <5> QED
          BY <4>1, <5>1
      <4>2. CASE i # 1
        <5>1. i - 1 \in 1..n
          BY <1>1, <4>2
        <5> QED
          BY <2>4, <4>2, <5>1
      <4> QED
        BY <4>1, <4>2
    <3>2. w = [i \in 1..n |-> IF i = 1 THEN seqs[i] ELSE w[i - 1] \o seqs[i]]
      BY <3>1
    <3> HIDE DEF w
    <3> QED
      BY <3>2
  <2>6. \A i \in 1..n : flatten[i] = v[i]
    <3> HIDE DEF flatten
    <3> DEFINE P == {k \in Nat : k \in 1..n => flatten[k] = v[k]}
    <3>1. 0 \in P
      OBVIOUS
    <3>2. ASSUME NEW k \in Nat, k \in P PROVE k + 1 \in P
      <4> SUFFICES ASSUME k + 1 \in 1..n PROVE flatten[k + 1] = v[k + 1]
        OBVIOUS
      <4>1. v[k + 1] = v[k] \o seqs[k + 1] /\ seqs[k + 1] \in Seq(S)
        <5>1. (k + 1) - 1 = k
          OBVIOUS
        <5> QED
          BY <1>1, <2>4, <5>1
      <4>2. CASE k = 0
        <5>1. k + 1 = 1 /\ flatten[k + 1] = seqs[k + 1]
          BY <2>5, <4>2
        <5>2. <<>> \o seqs[k + 1] = seqs[k + 1]
          BY <4>1
        <5> QED
          BY <2>3, <4>1, <4>2, <5>1, <5>2
      <4>3. CASE k # 0
        <5>1. k \in 1..n /\ k + 1 # 1 /\ (k + 1) - 1 = k
          BY <1>1, <4>3
        <5>2. flatten[k] = v[k]
          BY <3>2, <5>1
        <5> QED
          BY <2>5, <4>1, <5>1, <5>2
      <4> QED
        BY <4>2, <4>3
    <3> HIDE DEF P
    <3>3. \A k \in Nat : k \in P
      BY <3>1, <3>2, EachNatural
    <3> QED
      BY <1>1, <3>3 DEF P
  <2>7. FlattenSeq(seqs) = v[n]
    <3>1. FlattenSeq(seqs) = flatten[n]
      BY <1>1, <1>3 DEF FlattenSeq
    <3> HIDE DEF flatten
    <3> QED
      BY <1>1, <1>3, <2>6, <3>1
  <2>8. Range(v[n]) = UNION {Range(seqs[i]) : i \in 1..n}
    <3> HIDE DEF flatten, F
    <3> DEFINE P == {k \in Nat : k \in 0..n => Range(v[k]) = UNION {Range(seqs[i]) : i \in 1..k}}
    <3>1. 0 \in P
      BY <2>3 DEF Range
    <3>2. ASSUME NEW k \in Nat, k \in P PROVE k + 1 \in P
      <4> SUFFICES ASSUME k + 1 \in 0..n PROVE Range(v[k + 1]) = UNION {Range(seqs[i]) : i \in 1..(k + 1)}
        OBVIOUS
      <4>1. v[k + 1] = v[k] \o seqs[k + 1] /\ seqs[k + 1] \in Seq(S) /\ v[k] \in Seq(S)
        <5>1. (k + 1) - 1 = k /\ k + 1 \in 1..n
          BY <1>1
        <5> QED
          BY <1>1, <2>4, <5>1
      <4>2. Range(v[k] \o seqs[k + 1]) = Range(v[k]) \cup Range(seqs[k + 1])
        BY <4>1, RangeConcatenation
      <4>3. 1..(k + 1) = (1..k) \cup {k + 1}
        OBVIOUS
      <4>4. Range(v[k]) = UNION {Range(seqs[i]) : i \in 1..k}
        BY <1>1, <3>2
      <4> QED
        BY <4>1, <4>2, <4>3, <4>4
    <3> HIDE DEF P
    <3>3. \A k \in Nat : k \in P
      BY <3>1, <3>2, EachNatural
    <3>4. n \in P /\ n \in 0..n
      BY <1>1, <3>3
    <3> QED
      BY <3>4 DEF P
  <2>9. v[n] \in Seq(S)
    <3>1. n \in 0..n
      BY <1>1
    <3> QED
      BY <2>3, <3>1
  <2> QED
    BY <1>1, <2>7, <2>8, <2>9
<1> QED
  BY <1>1, <1>2, <1>3

\* The edges of a level are those of what is walked on from.
LEMMA EdgesAre ==
  ASSUME NEW E, NEW T, NEW graph, IsGraph(graph, E, T), NEW frontier \in Seq(E)
  PROVE  LET edges == LineageEdges(graph, frontier)
         IN  /\ edges \in Seq(EdgesOver(E, T))
             /\ \A i \in DOMAIN edges :
                  edges[i].from \in Range(frontier) /\ edges[i].to \in Range(graph.edges[edges[i].from])
             /\ {edges[i].to : i \in DOMAIN edges} = UNION {Range(graph.edges[e]) : e \in Range(frontier)}
<1> DEFINE of(e) == [j \in DOMAIN graph.edges[e] |-> [from |-> e, to |-> graph.edges[e][j]]]
           seqs == [i \in DOMAIN frontier |-> of(frontier[i])]
           edges == LineageEdges(graph, frontier)
<1>1. edges = FlattenSeq(seqs)
  BY DEF LineageEdges
<1>2. ASSUME NEW e \in E
      PROVE  /\ of(e) \in Seq(EdgesOver(E, T))
             /\ \A x \in Range(of(e)) : x.from = e /\ x.to \in Range(graph.edges[e])
             /\ {x.to : x \in Range(of(e))} = Range(graph.edges[e])
  <2>1. graph.edges[e] \in Seq(T)
    BY DEF IsGraph
  <2>2. \A j \in DOMAIN graph.edges[e] : graph.edges[e][j] \in T
    BY <2>1
  <2>3. of(e) \in Seq(EdgesOver(E, T))
    <3>1. PICK m \in Nat : DOMAIN graph.edges[e] = 1..m
      BY <2>1
    <3>2. of(e) \in [1..m -> EdgesOver(E, T)]
      BY <2>2, <3>1 DEF EdgesOver
    <3> QED
      BY <3>1, <3>2
  <2> QED
    BY <2>3 DEF Range
<1>3. seqs \in Seq(Seq(EdgesOver(E, T)))
  <2> HIDE DEF of
  <2>1. \A i \in DOMAIN frontier : of(frontier[i]) \in Seq(EdgesOver(E, T))
    BY <1>2
  <2> QED
    BY <2>1
<1>4. edges \in Seq(EdgesOver(E, T)) /\ Range(edges) = UNION {Range(seqs[i]) : i \in DOMAIN seqs}
  <2> HIDE DEF seqs, edges
  <2> QED
    BY <1>1, <1>3, Flattened
<1>5. Range(edges) = UNION {Range(of(e)) : e \in Range(frontier)}
  <2> HIDE DEF of, edges
  <2>1. DOMAIN seqs = DOMAIN frontier /\ \A i \in DOMAIN frontier : seqs[i] = of(frontier[i])
    OBVIOUS
  <2>2. UNION {Range(seqs[i]) : i \in DOMAIN seqs} = UNION {Range(of(frontier[i])) : i \in DOMAIN frontier}
    BY <2>1
  <2>3. Range(frontier) = {frontier[i] : i \in DOMAIN frontier}
    BY DEF Range
  <2> HIDE DEF seqs
  <2> QED
    BY <1>4, <2>2, <2>3
<1>6. Range(frontier) \subseteq E
  BY DEF Range
<1> HIDE DEF of, edges
<1>7. ASSUME NEW i \in DOMAIN edges
      PROVE  edges[i].from \in Range(frontier) /\ edges[i].to \in Range(graph.edges[edges[i].from])
  <2>1. edges[i] \in Range(edges)
    BY DEF Range
  <2> QED
    BY <1>2, <1>5, <1>6, <2>1
<1>8. {edges[i].to : i \in DOMAIN edges} = {x.to : x \in Range(edges)}
  BY DEF Range
<1>9. {x.to : x \in Range(edges)} = UNION {Range(graph.edges[e]) : e \in Range(frontier)}
  <2>1. ASSUME NEW x \in Range(edges) PROVE x.to \in UNION {Range(graph.edges[e]) : e \in Range(frontier)}
    <3>1. PICK e \in Range(frontier) : x \in Range(of(e))
      BY <1>5
    <3>2. x.to \in Range(graph.edges[e])
      BY <1>2, <1>6, <3>1
    <3> QED
      BY <3>2
  <2>2. ASSUME NEW e \in Range(frontier), NEW t \in Range(graph.edges[e])
        PROVE  t \in {x.to : x \in Range(edges)}
    <3>0. e \in E
      BY <1>6
    <3>1. PICK x \in Range(of(e)) : t = x.to
      <4>1. Range(graph.edges[e]) = {x.to : x \in Range(of(e))}
        BY <1>2, <3>0
      <4> QED
        BY <2>2, <4>1
    <3>2. x \in Range(edges)
      BY <1>5
    <3> QED
      BY <3>1, <3>2
  <2> QED
    BY <2>1, <2>2
<1> QED
  BY <1>4, <1>7, <1>8, <1>9 DEF edges

\* An edge that is taken leaves a walk.
LEMMA TakeType ==
  ASSUME NEW E, NEW T, E \subseteq T, NEW rows \in SUBSET E, NEW level \in Nat,
         NEW walk \in WalksOver(E, T), NEW edge \in EdgesOver(E, T)
  PROVE  Take(rows, level, walk, edge) \in WalksOver(E, T)
<1>1. LineageNode(edge, level, rows) \in NodesOver(E, T)
  BY DEF LineageNode, NodesOver, EdgesOver
<1>2. Append(walk.nodes, LineageNode(edge, level, rows)) \in Seq(NodesOver(E, T))
  BY <1>1 DEF WalksOver
<1>3. (IF edge.to \in rows THEN Append(walk.next, edge.to) ELSE walk.next) \in Seq(E)
  BY DEF WalksOver
<1>4. walk.seen \cup {edge.to} \in SUBSET T
  BY DEF WalksOver, EdgesOver
<1> QED
  BY <1>2, <1>3, <1>4 DEF Take, WalksOver

\* Edges taken one after the other, from base, that come to last.
TakenInTurn(v, E, T, rows, level, base, edges, last) ==
  /\ v \in [0..Len(edges) -> WalksOver(E, T)]
  /\ v[0] = base
  /\ \A k \in 1..Len(edges) : v[k] = Take(rows, level, v[k - 1], edges[k])
  /\ v[Len(edges)] = last

\* The fold of Level.
TakeEach(rows, level, base, edges) == FoldLeft(LAMBDA w, edge : Take(rows, level, w, edge), base, edges)

\* A fold of edges takes one after the other.
LEMMA LevelSteps ==
  ASSUME NEW E, NEW T, E \subseteq T, NEW rows \in SUBSET E, NEW level \in Nat,
         NEW base \in WalksOver(E, T), NEW edges \in Seq(EdgesOver(E, T))
  PROVE  \E v : TakenInTurn(v, E, T, rows, level, base, edges, TakeEach(rows, level, base, edges))
<1> DEFINE n == Len(edges)
           S == WalksOver(E, T)
           F == [p \in S \X (1..n) |-> Take(rows, level, p[1], edges[p[2]])]
           iter[s \in SUBSET (DOMAIN edges)] ==
             IF s = {} THEN base ELSE Take(rows, level, iter[s \ {Max(s)}], edges[Max(s)])
<1>1. n \in Nat /\ n = Len(edges) /\ DOMAIN edges = 1..n
  OBVIOUS
<1>2. TakeEach(rows, level, base, edges) = iter[DOMAIN edges]
  BY DEF TakeEach, FoldLeft, MapThenFoldSet
<1> HIDE DEF n
<1>3. F \in [S \X (1..n) -> S]
  BY <1>1, TakeType
<1>4. iter = [s \in SUBSET (1..n) |-> IF s = {} THEN base ELSE Take(rows, level, iter[s \ {Max(s)}], edges[Max(s)])]
  <2>1. PICK g : IsFold(g, S, base, n, F)
    <3> HIDE DEF F, S
    <3>1. base \in S
      BY DEF S
    <3> QED
      BY <1>1, <1>3, <3>1, FoldExists
  <2>2. ASSUME NEW s \in SUBSET (1..n), s # {}
        PROVE  g[s] = Take(rows, level, g[s \ {Max(s)}], edges[Max(s)])
    <3>1. Max(s) \in 1..n
      BY <1>1, <2>2, LastOne
    <3>2. g[s \ {Max(s)}] \in S
      BY <2>1 DEF IsFold
    <3> QED
      BY <2>1, <2>2, <3>1, <3>2 DEF IsFold
  <2>3. g = [s \in SUBSET (1..n) |-> IF s = {} THEN base ELSE Take(rows, level, g[s \ {Max(s)}], edges[Max(s)])]
    BY <2>1, <2>2 DEF IsFold
  <2> QED
    BY <1>1, <2>3
<1> HIDE DEF iter
<1>5. PICK v : LeadsTo(v, S, base, n, F, iter[1..n])
  <2>1. iter[{}] = base
    BY <1>4
  <2>2. ASSUME NEW s \in SUBSET (1..n), s # {}, iter[s \ {Max(s)}] \in S
        PROVE  iter[s] = F[<<iter[s \ {Max(s)}], Max(s)>>]
    <3>1. Max(s) \in 1..n
      BY <1>1, <2>2, LastOne
    <3> QED
      BY <1>4, <2>2, <3>1
  <2> HIDE DEF F, S
  <2>3. base \in S /\ n \in Nat
    BY <1>1 DEF S
  <2>4. GoesBy(iter, S, base, n, F)
    BY <2>1, <2>2 DEF GoesBy
  <2> QED
    BY <1>3, <2>3, <2>4, StepsOf
<1>6. ASSUME NEW k \in 1..n PROVE v[k] = Take(rows, level, v[k - 1], edges[k])
  <2>1. k - 1 \in 0..n
    BY <1>1
  <2>2. v[k - 1] \in S /\ v[k] = F[<<v[k - 1], k>>]
    BY <1>5, <2>1 DEF LeadsTo, IsSteps
  <2> QED
    BY <2>2
<1> QED
  BY <1>1, <1>2, <1>5, <1>6 DEF LeadsTo, IsSteps, TakenInTurn

-----------------------------------------------------------------------------
(* How far an id is.                                                       *)

\* What is one edge further than the ids in near.
Further(graph, root, near) ==
  near \cup UNION {Range(graph.edges[e]) : e \in near \cap ({root} \cup graph.visible)}

\* The same, as the step of a fold over n places.
Furthers(graph, root, T, n) == [p \in (SUBSET T) \X (1..n) |-> Further(graph, root, p[1])]

\* Within is the one list of sets that goes one edge further each time.
LEMMA NearestIs ==
  ASSUME NEW E, NEW T, NEW graph, IsGraph(graph, E, T), NEW root \in E, NEW n \in Nat, NEW v,
         IsSteps(v, SUBSET T, {root}, n, Furthers(graph, root, T, n)), NEW m \in 0..n
  PROVE  Within(graph, root, m) = v[m]
<1> DEFINE near[k \in 0..m] ==
             IF k = 0 THEN {root}
             ELSE near[k - 1] \cup UNION {Range(graph.edges[e]) : e \in near[k - 1] \cap ({root} \cup graph.visible)}
<1>1. m \in Nat /\ m <= n
  OBVIOUS
<1>2. Within(graph, root, m) = near[m]
  BY DEF Within
<1>3. ASSUME NEW k \in 1..n
      PROVE  /\ k - 1 \in 0..n
             /\ v[k] = v[k - 1] \cup UNION {Range(graph.edges[e]) : e \in v[k - 1] \cap ({root} \cup graph.visible)}
  <2>1. k - 1 \in 0..n
    OBVIOUS
  <2>2. v[k - 1] \in SUBSET T /\ v[k] = Furthers(graph, root, T, n)[<<v[k - 1], k>>]
    BY <2>1 DEF IsSteps
  <2> QED
    BY <2>1, <2>2 DEF Further, Furthers
<1>4. near = [k \in 0..m |-> IF k = 0 THEN {root}
             ELSE near[k - 1] \cup UNION {Range(graph.edges[e]) : e \in near[k - 1] \cap ({root} \cup graph.visible)}]
  <2> DEFINE w == [k \in 0..m |-> v[k]]
  <2>1. ASSUME NEW k \in 0..m
        PROVE  w[k] = IF k = 0 THEN {root}
                      ELSE w[k - 1] \cup UNION {Range(graph.edges[e]) : e \in w[k - 1] \cap ({root} \cup graph.visible)}
    <3>1. CASE k = 0
      BY <3>1 DEF IsSteps
    <3>2. CASE k # 0
      <4>1. k \in 1..n /\ k - 1 \in 0..m
        BY <1>1, <3>2
      <4>2. w[k - 1] = v[k - 1] /\ w[k] = v[k]
        BY <4>1
      <4> HIDE DEF w
      <4> QED
        BY <1>3, <3>2, <4>1, <4>2
    <3> QED
      BY <3>1, <3>2
  <2>2. w = [k \in 0..m |-> IF k = 0 THEN {root}
             ELSE w[k - 1] \cup UNION {Range(graph.edges[e]) : e \in w[k - 1] \cap ({root} \cup graph.visible)}]
    BY <2>1
  <2> HIDE DEF w
  <2> QED
    BY <2>2
<1> HIDE DEF near
<1> DEFINE P == {k \in Nat : k <= m => near[k] = v[k]}
<1>5. 0 \in P
  BY <1>1, <1>4 DEF IsSteps
<1>6. ASSUME NEW k \in Nat, k \in P PROVE k + 1 \in P
  <2> SUFFICES ASSUME k + 1 <= m PROVE near[k + 1] = v[k + 1]
    OBVIOUS
  <2>1. k + 1 \in 1..n /\ k + 1 \in 0..m /\ k + 1 # 0 /\ (k + 1) - 1 = k
    BY <1>1
  <2>2. near[k] = v[k]
    BY <1>1, <1>6
  <2>3. near[k + 1] = near[k] \cup UNION {Range(graph.edges[e]) : e \in near[k] \cap ({root} \cup graph.visible)}
    BY <1>4, <2>1
  <2>4. v[k + 1] = v[k] \cup UNION {Range(graph.edges[e]) : e \in v[k] \cap ({root} \cup graph.visible)}
    BY <1>3, <2>1
  <2> QED
    BY <2>2, <2>3, <2>4
<1> HIDE DEF P
<1>7. m \in P
  BY <1>1, <1>5, <1>6, EachNatural
<1> QED
  BY <1>1, <1>2, <1>7 DEF P

\* One more step reaches what one more edge does.
LEMMA WithinOneMore ==
  ASSUME NEW E, NEW T, NEW graph, IsGraph(graph, E, T), NEW root \in E, NEW n \in Nat
  PROVE  /\ Within(graph, root, 0) = {root}
         /\ Within(graph, root, n + 1) = Further(graph, root, Within(graph, root, n))
<1> DEFINE F == Furthers(graph, root, T, n + 1)
<1>1. F \in [(SUBSET T) \X (1..(n + 1)) -> SUBSET T]
  <2>1. ASSUME NEW near \in SUBSET T PROVE Further(graph, root, near) \in SUBSET T
    <3>1. ASSUME NEW e \in near \cap ({root} \cup graph.visible) PROVE Range(graph.edges[e]) \subseteq T
      <4>1. graph.edges[e] \in Seq(T)
        BY DEF IsGraph
      <4> QED
        BY <4>1 DEF Range
    <3> QED
      BY <3>1 DEF Further
  <2> QED
    BY <2>1 DEF Furthers
<1>2. n + 1 \in Nat /\ {root} \in SUBSET T
  BY DEF IsGraph
<1>3. PICK v : IsSteps(v, SUBSET T, {root}, n + 1, F)
  <2> HIDE DEF F
  <2> QED
    BY <1>1, <1>2, StepsExist
<1>4. \A m \in 0..(n + 1) : Within(graph, root, m) = v[m]
  BY <1>2, <1>3, NearestIs
<1>5. 0 \in 0..(n + 1) /\ n \in 0..(n + 1) /\ n + 1 \in 0..(n + 1) /\ n + 1 \in 1..(n + 1) /\ (n + 1) - 1 = n
  OBVIOUS
<1>6. v[0] = {root} /\ v[n] \in SUBSET T /\ v[n + 1] = F[<<v[n], n + 1>>]
  <2> HIDE DEF F
  <2> QED
    BY <1>3, <1>5 DEF IsSteps
<1>7. v[n + 1] = Further(graph, root, v[n])
  BY <1>5, <1>6 DEF Furthers
<1> QED
  BY <1>4, <1>5, <1>6, <1>7

-----------------------------------------------------------------------------
(* What a level adds.                                                      *)

\* A list with one more has what it had, and that.
LEMMA Appended ==
  ASSUME NEW S, NEW s \in Seq(S), NEW x \in S
  PROVE  /\ Append(s, x) \in Seq(S)
         /\ Len(s) \in Nat /\ Len(Append(s, x)) = Len(s) + 1
         /\ DOMAIN Append(s, x) = DOMAIN s \cup {Len(s) + 1} /\ Len(s) + 1 \notin DOMAIN s
         /\ Append(s, x)[Len(s) + 1] = x
         /\ \A i \in DOMAIN s : Append(s, x)[i] = s[i]
         /\ Range(Append(s, x)) = Range(s) \cup {x}
<1>1. /\ Append(s, x) \in Seq(S)
      /\ Len(s) \in Nat /\ Len(Append(s, x)) = Len(s) + 1
      /\ Append(s, x)[Len(s) + 1] = x
      /\ \A i \in DOMAIN s : Append(s, x)[i] = s[i]
  OBVIOUS
<1>2. DOMAIN Append(s, x) = DOMAIN s \cup {Len(s) + 1} /\ Len(s) + 1 \notin DOMAIN s
  BY <1>1
<1>3. Range(Append(s, x)) = Range(s) \cup {x}
  <2> HIDE DEF Range
  <2>1. Range(Append(s, x)) = {Append(s, x)[i] : i \in DOMAIN s \cup {Len(s) + 1}}
    BY <1>2 DEF Range
  <2>2. Range(s) = {s[i] : i \in DOMAIN s}
    BY DEF Range
  <2> QED
    BY <1>1, <1>2, <2>1, <2>2
<1> QED
  BY <1>1, <1>2, <1>3

\* The ids of a walk's nodes.
IdsOf(w) == {w.nodes[i].id : i \in DOMAIN w.nodes}

\* Everything seen but the root is listed, once, within the budget.
Listed(root, w) ==
  /\ root \in w.seen /\ root \notin IdsOf(w)
  /\ w.seen = {root} \cup IdsOf(w)
  /\ \A i, j \in DOMAIN w.nodes : w.nodes[i].id = w.nodes[j].id => i = j
  /\ Len(w.nodes) <= MaxLineageNodes

\* A node that a level adds to a walk.
NewNode(graph, walk, n, node) ==
  /\ node.depth = n /\ node.id \notin walk.seen
  /\ node.from \in Range(walk.next) /\ node.id \in Range(graph.edges[node.from])

\* How far a level has come that started at walk and took edges to targets.
OnLevel(graph, walk, n, rows, targets, w) ==
  /\ \A i \in DOMAIN w.nodes : w.nodes[i] \in Range(walk.nodes) \/ NewNode(graph, walk, n, w.nodes[i])
  /\ walk.seen \subseteq w.seen /\ w.seen \subseteq walk.seen \cup targets
  /\ Range(w.next) = (w.seen \ walk.seen) \cap rows
  /\ w.truncated \/ w.seen = walk.seen \cup targets
  /\ w.truncated => \E t \in targets : t \notin w.seen

\* An edge that is taken keeps a level what it is.
LEMMA TakeKeeps ==
  ASSUME NEW E, NEW T, E \subseteq T, NEW graph, NEW root, NEW rows \in SUBSET E, NEW n \in Nat,
         NEW walk, NEW w \in WalksOver(E, T), NEW targets, NEW edge \in EdgesOver(E, T),
         edge.from \in Range(walk.next), edge.to \in Range(graph.edges[edge.from]),
         Listed(root, w), OnLevel(graph, walk, n, rows, targets, w)
  PROVE  /\ Listed(root, Take(rows, n, w, edge))
         /\ OnLevel(graph, walk, n, rows, targets \cup {edge.to}, Take(rows, n, w, edge))
<1> DEFINE x == edge.to
           node == LineageNode(edge, n, rows)
           t == Take(rows, n, w, edge)
<1>1. CASE w.truncated \/ x \in w.seen
  <2>1. t = w
    BY <1>1 DEF Take
  <2>2. OnLevel(graph, walk, n, rows, targets \cup {x}, w)
    <3> HIDE DEF x
    <3> QED
      BY <1>1 DEF OnLevel
  <2> QED
    BY <2>1, <2>2
<1>2. CASE ~w.truncated /\ x \notin w.seen /\ Len(w.nodes) >= MaxLineageNodes
  <2>1. t = [w EXCEPT !.truncated = TRUE]
    BY <1>2 DEF Take
  <2>2. t.nodes = w.nodes /\ t.seen = w.seen /\ t.next = w.next /\ t.truncated = TRUE
    BY <2>1 DEF WalksOver
  <2> HIDE DEF t, x
  <2>3. Listed(root, t)
    BY <2>2 DEF Listed, IdsOf
  <2>4. OnLevel(graph, walk, n, rows, targets \cup {x}, t)
    BY <1>2, <2>2 DEF OnLevel
  <2> QED
    BY <2>3, <2>4 DEF t, x
<1>3. CASE ~w.truncated /\ x \notin w.seen /\ ~(Len(w.nodes) >= MaxLineageNodes)
  <2>1. /\ t.seen = w.seen \cup {x} /\ t.nodes = Append(w.nodes, node)
        /\ t.next = (IF x \in rows THEN Append(w.next, x) ELSE w.next) /\ ~t.truncated
    BY <1>3 DEF Take, WalksOver
  <2>2. node \in NodesOver(E, T) /\ node.id = x /\ node.depth = n /\ node.from = edge.from
    BY DEF LineageNode, NodesOver, EdgesOver
  <2>3. w.nodes \in Seq(NodesOver(E, T)) /\ w.next \in Seq(E)
    BY DEF WalksOver
  <2> HIDE DEF t, x, node
  <2>4. /\ Len(w.nodes) \in Nat /\ Len(t.nodes) = Len(w.nodes) + 1
        /\ DOMAIN t.nodes = DOMAIN w.nodes \cup {Len(w.nodes) + 1} /\ Len(w.nodes) + 1 \notin DOMAIN w.nodes
        /\ t.nodes[Len(w.nodes) + 1] = node
        /\ \A i \in DOMAIN w.nodes : t.nodes[i] = w.nodes[i]
    BY <2>1, <2>2, <2>3, Appended
  <2>5. IdsOf(t) = IdsOf(w) \cup {x}
    BY <2>2, <2>4 DEF IdsOf
  <2>6. \A i \in DOMAIN w.nodes : w.nodes[i].id # x
    BY <1>3 DEF Listed, IdsOf
  <2>7. Len(t.nodes) <= MaxLineageNodes
    BY <1>3, <2>4, LineageAssumption
  <2>8. Listed(root, t)
    <3>1. \A i, j \in DOMAIN t.nodes : t.nodes[i].id = t.nodes[j].id => i = j
      BY <2>2, <2>4, <2>6 DEF Listed
    <3>2. t.seen = {root} \cup IdsOf(t) /\ root \in t.seen /\ root \notin IdsOf(t)
      BY <1>3, <2>1, <2>5 DEF Listed
    <3> QED
      BY <2>7, <3>1, <3>2 DEF Listed
  <2>9. Range(t.next) = (t.seen \ walk.seen) \cap rows
    <3>1. Range(w.next) = (w.seen \ walk.seen) \cap rows /\ x \notin walk.seen
      BY <1>3 DEF OnLevel
    <3>2. CASE x \in rows
      <4>1. x \in E /\ t.next = Append(w.next, x)
        BY <2>1, <3>2
      <4>2. Range(t.next) = Range(w.next) \cup {x}
        BY <2>3, <4>1, Appended
      <4> QED
        BY <2>1, <3>1, <3>2, <4>2
    <3>3. CASE x \notin rows
      BY <2>1, <3>1, <3>3
    <3> QED
      BY <3>2, <3>3
  <2>10. \A i \in DOMAIN t.nodes : t.nodes[i] \in Range(walk.nodes) \/ NewNode(graph, walk, n, t.nodes[i])
    <3>1. NewNode(graph, walk, n, node)
      <4>1. x \notin walk.seen /\ x \in Range(graph.edges[edge.from])
        BY <1>3 DEF OnLevel, x
      <4> QED
        BY <2>2, <4>1 DEF NewNode
    <3> QED
      BY <2>4, <3>1 DEF OnLevel
  <2>11. OnLevel(graph, walk, n, rows, targets \cup {x}, t)
    <3>1. w.seen = walk.seen \cup targets
      BY <1>3 DEF OnLevel
    <3>2. t.seen = walk.seen \cup targets \cup {x}
      BY <2>1, <3>1
    <3> QED
      BY <2>1, <2>9, <2>10, <3>2 DEF OnLevel
  <2> QED
    BY <2>8, <2>11 DEF t, x
<1> QED
  BY <1>1, <1>2, <1>3

\* What may be seen of what a level's edges name, and is new.
NewRows(graph, walk, targets) == VisibleExperiences(graph, targets \ walk.seen)

\* What the edges of a level name.
TargetsOf(graph, walk) == UNION {Range(graph.edges[e]) : e \in Range(walk.next)}

\* A level of any walk is a walk, reached edge by edge.
LEMMA LevelIs ==
  ASSUME NEW E, NEW T, NEW graph, IsGraph(graph, E, T), NEW n \in Nat,
         NEW walk \in WalksOver(E, T), ~walk.truncated
  PROVE  LET edges == LineageEdges(graph, walk.next)
             rows == NewRows(graph, walk, TargetsOf(graph, walk))
         IN  /\ edges \in Seq(EdgesOver(E, T)) /\ rows \in SUBSET E
             /\ \E v : TakenInTurn(v, E, T, rows, n, [walk EXCEPT !.next = <<>>], edges, Level(graph, walk, n))
<1> DEFINE edges == LineageEdges(graph, walk.next)
           rows == NewRows(graph, walk, TargetsOf(graph, walk))
           base == [walk EXCEPT !.next = <<>>]
<1>1. walk.next \in Seq(E) /\ base \in WalksOver(E, T) /\ E \subseteq T
  <2>1. base \in WalksOver(E, T)
    <3>1. <<>> \in Seq(E)
      OBVIOUS
    <3> QED
      BY <3>1 DEF WalksOver
  <2> QED
    BY <2>1 DEF WalksOver, IsGraph
<1>2. edges \in Seq(EdgesOver(E, T)) /\ {edges[i].to : i \in DOMAIN edges} = TargetsOf(graph, walk)
  <2> HIDE DEF edges
  <2> QED
    BY <1>1, EdgesAre DEF edges, TargetsOf
<1>3. rows \in SUBSET E
  BY DEF NewRows, VisibleExperiences, IsGraph
<1>4. Level(graph, walk, n) = TakeEach(rows, n, base, edges)
  <2>1. rows = VisibleExperiences(graph, {edges[i].to : i \in DOMAIN edges} \ walk.seen)
    BY <1>2 DEF NewRows
  <2> QED
    BY <2>1 DEF Level, TakeEach
<1> HIDE DEF edges, rows, base
<1>5. PICK v : TakenInTurn(v, E, T, rows, n, base, edges, TakeEach(rows, n, base, edges))
  BY <1>1, <1>2, <1>3, LevelSteps
<1> QED
  BY <1>2, <1>3, <1>4, <1>5 DEF edges, rows, base

\* A level of any walk is a walk.
LEMMA LevelType ==
  ASSUME NEW E, NEW T, NEW graph, IsGraph(graph, E, T), NEW n \in Nat, NEW walk \in WalksOver(E, T)
  PROVE  Level(graph, walk, n) \in WalksOver(E, T)
<1> DEFINE edges == LineageEdges(graph, walk.next)
<1>1. CASE walk.truncated
  BY <1>1 DEF Level
<1>2. CASE ~walk.truncated
  <2>1. PICK v : TakenInTurn(v, E, T, NewRows(graph, walk, TargetsOf(graph, walk)), n,
                             [walk EXCEPT !.next = <<>>], edges, Level(graph, walk, n))
    BY <1>2, LevelIs
  <2>2. Len(edges) \in Nat
    BY <1>2, LevelIs
  <2> HIDE DEF edges
  <2>3. Len(edges) \in 0..Len(edges)
    BY <2>2
  <2> QED
    BY <2>1, <2>3 DEF TakenInTurn
<1> QED
  BY <1>1, <1>2

\* A level lists what its edges name, as far as the budget goes.
LEMMA LevelKeeps ==
  ASSUME NEW E, NEW T, NEW graph, IsGraph(graph, E, T), NEW root, NEW n \in Nat,
         NEW walk \in WalksOver(E, T), ~walk.truncated, Listed(root, walk)
  PROVE  /\ Listed(root, Level(graph, walk, n))
         /\ OnLevel(graph, walk, n, NewRows(graph, walk, TargetsOf(graph, walk)), TargetsOf(graph, walk),
                    Level(graph, walk, n))
<1> DEFINE edges == LineageEdges(graph, walk.next)
           rows == NewRows(graph, walk, TargetsOf(graph, walk))
           m == Len(edges)
           upto(k) == {edges[i].to : i \in 1..k}
<1>1. edges \in Seq(EdgesOver(E, T)) /\ rows \in SUBSET E
  BY LevelIs
<1>2. PICK v : TakenInTurn(v, E, T, rows, n, [walk EXCEPT !.next = <<>>], edges, Level(graph, walk, n))
  BY LevelIs
<1>3. /\ \A i \in DOMAIN edges :
           edges[i].from \in Range(walk.next) /\ edges[i].to \in Range(graph.edges[edges[i].from])
      /\ {edges[i].to : i \in DOMAIN edges} = TargetsOf(graph, walk)
  <2>1. walk.next \in Seq(E)
    BY DEF WalksOver
  <2> QED
    BY <2>1, EdgesAre DEF TargetsOf
<1>4. m \in Nat /\ DOMAIN edges = 1..m /\ \A k \in 1..m : edges[k] \in EdgesOver(E, T)
  BY <1>1
<1>5. E \subseteq T
  BY DEF IsGraph
<1> HIDE DEF edges, rows, m
<1> DEFINE P == {k \in Nat : k <= m => Listed(root, v[k]) /\ OnLevel(graph, walk, n, rows, upto(k), v[k])}
<1>6. 0 \in P
  <2>1. v[0].nodes = walk.nodes /\ v[0].seen = walk.seen /\ v[0].next = <<>> /\ ~v[0].truncated
    BY <1>2 DEF WalksOver, TakenInTurn
  <2>2. upto(0) = {}
    OBVIOUS
  <2>3. Listed(root, v[0])
    BY <2>1 DEF Listed, IdsOf
  <2>4. OnLevel(graph, walk, n, rows, {}, v[0])
    BY <2>1 DEF OnLevel, Range
  <2> QED
    BY <2>2, <2>3, <2>4
<1>7. ASSUME NEW k \in Nat, k \in P PROVE k + 1 \in P
  <2> SUFFICES ASSUME k + 1 <= m
               PROVE  Listed(root, v[k + 1]) /\ OnLevel(graph, walk, n, rows, upto(k + 1), v[k + 1])
    OBVIOUS
  <2>1. k + 1 \in 1..m /\ k \in 0..m /\ (k + 1) - 1 = k
    BY <1>4
  <2>2. v[k + 1] = Take(rows, n, v[k], edges[k + 1]) /\ v[k] \in WalksOver(E, T)
    BY <1>2, <2>1 DEF TakenInTurn, m
  <2>3. Listed(root, v[k]) /\ OnLevel(graph, walk, n, rows, upto(k), v[k])
    BY <1>4, <1>7
  <2>4. upto(k + 1) = upto(k) \cup {edges[k + 1].to}
    <3>1. 1..(k + 1) = (1..k) \cup {k + 1}
      OBVIOUS
    <3> QED
      BY <3>1
  <2>5. /\ edges[k + 1] \in EdgesOver(E, T)
        /\ edges[k + 1].from \in Range(walk.next) /\ edges[k + 1].to \in Range(graph.edges[edges[k + 1].from])
    BY <1>3, <1>4, <2>1
  <2> HIDE DEF upto
  <2>6. /\ Listed(root, Take(rows, n, v[k], edges[k + 1]))
        /\ OnLevel(graph, walk, n, rows, upto(k) \cup {edges[k + 1].to}, Take(rows, n, v[k], edges[k + 1]))
    BY <1>1, <1>5, <2>2, <2>3, <2>5, TakeKeeps
  <2> QED
    BY <2>2, <2>4, <2>6
<1> HIDE DEF P
<1>8. m \in P
  BY <1>4, <1>6, <1>7, EachNatural
<1>9. Listed(root, v[m]) /\ OnLevel(graph, walk, n, rows, upto(m), v[m])
  BY <1>4, <1>8 DEF P
<1>10. upto(m) = TargetsOf(graph, walk)
  BY <1>3, <1>4
<1> QED
  BY <1>2, <1>9, <1>10 DEF rows, m, TakenInTurn

-----------------------------------------------------------------------------
(* The whole walk.                                                         *)

\* What a walk starts as.
Started(root) == [nodes |-> <<>>, seen |-> {root}, next |-> <<root>>, truncated |-> FALSE]

\* Levels one after the other.
WalkedInTurn(v, E, T, graph, root, depth) ==
  /\ v \in [0..depth -> WalksOver(E, T)]
  /\ v[0] = Started(root)
  /\ \A k \in 1..depth : v[k] = Level(graph, v[k - 1], k)
  /\ Walk(graph, root, depth) = [nodes |-> v[depth].nodes, truncated |-> v[depth].truncated]

\* A walk is its levels, one after the other.
LEMMA WalkIs ==
  ASSUME NEW E, NEW T, NEW graph, IsGraph(graph, E, T), NEW root \in E, NEW depth \in Nat
  PROVE  \E v : WalkedInTurn(v, E, T, graph, root, depth)
<1> DEFINE n == depth
           S == WalksOver(E, T)
           base == Started(root)
           seq == [i \in 1..n |-> i]
           F == [p \in S \X (1..n) |-> Level(graph, p[1], p[2])]
           iter[s \in SUBSET (DOMAIN seq)] ==
             IF s = {} THEN base ELSE Level(graph, iter[s \ {Max(s)}], seq[Max(s)])
<1>1. n \in Nat /\ DOMAIN seq = 1..n
  OBVIOUS
<1>2. Walk(graph, root, depth) = [nodes |-> iter[DOMAIN seq].nodes, truncated |-> iter[DOMAIN seq].truncated]
  BY DEF Walk, FoldLeft, MapThenFoldSet, Started
<1>3. F \in [S \X (1..n) -> S]
  BY <1>1, LevelType
<1>4. iter = [s \in SUBSET (1..n) |-> IF s = {} THEN base ELSE Level(graph, iter[s \ {Max(s)}], seq[Max(s)])]
  <2>0. base \in S
    <3>1. <<>> \in Seq(NodesOver(E, T)) /\ <<root>> \in Seq(E) /\ {root} \in SUBSET T
      BY DEF IsGraph
    <3> QED
      BY <3>1 DEF WalksOver, Started
  <2>1. PICK g : IsFold(g, S, base, n, F)
    <3> HIDE DEF F, S, base
    <3> QED
      BY <1>1, <1>3, <2>0, FoldExists
  <2>2. ASSUME NEW s \in SUBSET (1..n), s # {}
        PROVE  g[s] = Level(graph, g[s \ {Max(s)}], seq[Max(s)])
    <3>1. Max(s) \in 1..n
      BY <1>1, <2>2, LastOne
    <3>2. g[s \ {Max(s)}] \in S
      BY <2>1 DEF IsFold
    <3> QED
      BY <2>1, <2>2, <3>1, <3>2 DEF IsFold
  <2>3. g = [s \in SUBSET (1..n) |-> IF s = {} THEN base ELSE Level(graph, g[s \ {Max(s)}], seq[Max(s)])]
    BY <2>1, <2>2 DEF IsFold
  <2> QED
    BY <1>1, <2>3
<1> HIDE DEF iter
<1>5. PICK v : LeadsTo(v, S, base, n, F, iter[1..n])
  <2>1. iter[{}] = base
    BY <1>4
  <2>2. ASSUME NEW s \in SUBSET (1..n), s # {}, iter[s \ {Max(s)}] \in S
        PROVE  iter[s] = F[<<iter[s \ {Max(s)}], Max(s)>>]
    <3>1. Max(s) \in 1..n
      BY <1>1, <2>2, LastOne
    <3> QED
      BY <1>4, <2>2, <3>1
  <2>3. base \in S
    <3>1. <<>> \in Seq(NodesOver(E, T)) /\ <<root>> \in Seq(E) /\ {root} \in SUBSET T
      BY DEF IsGraph
    <3> QED
      BY <3>1 DEF WalksOver, Started
  <2> HIDE DEF F, S, base
  <2>4. GoesBy(iter, S, base, n, F)
    BY <2>1, <2>2 DEF GoesBy
  <2> QED
    BY <1>1, <1>3, <2>3, <2>4, StepsOf
<1>6. ASSUME NEW k \in 1..n PROVE v[k] = Level(graph, v[k - 1], k)
  <2>1. k - 1 \in 0..n
    BY <1>1
  <2>2. v[k - 1] \in S /\ v[k] = F[<<v[k - 1], k>>]
    BY <1>5, <2>1 DEF LeadsTo, IsSteps
  <2> QED
    BY <2>2
<1>7. v \in [0..depth -> WalksOver(E, T)] /\ v[0] = Started(root) /\ v[depth] = iter[DOMAIN seq]
  BY <1>1, <1>5 DEF LeadsTo, IsSteps
<1> QED
  BY <1>2, <1>6, <1>7 DEF WalkedInTurn

\* Where a walk is after m levels.
Walked(graph, root, w, m) ==
  /\ Listed(root, w)
  /\ \A i \in DOMAIN w.nodes :
       LET node == w.nodes[i]
       IN  /\ node.depth \in 1..m
           /\ node.id \in Within(graph, root, node.depth) \ Within(graph, root, node.depth - 1)
           /\ node.from \in Within(graph, root, node.depth - 1)
  /\ w.seen \subseteq Within(graph, root, m)
  /\ w.truncated => w.seen # Within(graph, root, m)
  /\ ~w.truncated =>
       /\ w.seen = Within(graph, root, m)
       /\ Range(w.next) \subseteq Within(graph, root, m) \cap ({root} \cup graph.visible)
       /\ \A e \in Within(graph, root, m) \cap ({root} \cup graph.visible) :
            e \in Range(w.next) \/ Range(graph.edges[e]) \subseteq Within(graph, root, m)

\* One level brings it one further.
LEMMA WalkedOneMore ==
  ASSUME NEW E, NEW T, NEW graph, IsGraph(graph, E, T), NEW root \in E, NEW m \in Nat,
         NEW w \in WalksOver(E, T), Walked(graph, root, w, m)
  PROVE  Walked(graph, root, Level(graph, w, m + 1), m + 1)
<1> DEFINE near == Within(graph, root, m)
           far == Within(graph, root, m + 1)
           targets == TargetsOf(graph, w)
           rows == NewRows(graph, w, targets)
           t == Level(graph, w, m + 1)
<1>1. far = near \cup UNION {Range(graph.edges[e]) : e \in near \cap ({root} \cup graph.visible)}
  BY WithinOneMore DEF Further
<1>2. m + 1 \in Nat /\ (m + 1) - 1 = m /\ m + 1 \in 1..(m + 1) /\ \A d \in 1..m : d \in 1..(m + 1)
  OBVIOUS
<1>3. CASE w.truncated
  <2>1. t = w
    BY <1>3 DEF Level
  <2>2. w.seen \subseteq near /\ w.seen # near
    BY <1>3 DEF Walked
  <2>3. w.seen \subseteq far /\ w.seen # far
    BY <1>1, <2>2
  <2> QED
    BY <1>2, <1>3, <2>1, <2>3 DEF Walked
<1>4. CASE ~w.truncated
  <2>1. Listed(root, t) /\ OnLevel(graph, w, m + 1, rows, targets, t)
    BY <1>2, <1>4, LevelKeeps DEF Walked
  <2>2. /\ w.seen = near /\ Range(w.next) \subseteq near \cap ({root} \cup graph.visible)
        /\ \A e \in near \cap ({root} \cup graph.visible) : e \in Range(w.next) \/ Range(graph.edges[e]) \subseteq near
    BY <1>4 DEF Walked
  <2>3. far = near \cup targets
    BY <1>1, <2>2 DEF TargetsOf
  <2> HIDE DEF near, far, targets, rows, t
  <2>4. ASSUME NEW i \in DOMAIN t.nodes
        PROVE  LET node == t.nodes[i]
               IN  /\ node.depth \in 1..(m + 1)
                   /\ node.id \in Within(graph, root, node.depth) \ Within(graph, root, node.depth - 1)
                   /\ node.from \in Within(graph, root, node.depth - 1)
    <3>1. CASE t.nodes[i] \in Range(w.nodes)
      BY <1>2, <3>1 DEF Walked, Range
    <3>2. CASE NewNode(graph, w, m + 1, t.nodes[i])
      <4>1. /\ t.nodes[i].depth = m + 1 /\ t.nodes[i].id \notin near
            /\ t.nodes[i].from \in Range(w.next) /\ t.nodes[i].id \in targets
        BY <2>2, <3>2 DEF NewNode, targets, TargetsOf
      <4> QED
        BY <1>2, <2>2, <2>3, <4>1 DEF near, far
    <3> QED
      BY <2>1, <3>1, <3>2 DEF OnLevel
  <2>5. t.seen \subseteq far /\ (t.truncated => t.seen # far) /\ (~t.truncated => t.seen = far)
    BY <2>1, <2>2, <2>3 DEF OnLevel
  <2>6. ASSUME ~t.truncated
        PROVE  /\ Range(t.next) \subseteq far \cap ({root} \cup graph.visible)
               /\ \A e \in far \cap ({root} \cup graph.visible) :
                    e \in Range(t.next) \/ Range(graph.edges[e]) \subseteq far
    <3>1. Range(t.next) = (far \ near) \cap rows
      BY <2>1, <2>2, <2>5, <2>6 DEF OnLevel
    <3>2. rows = (targets \ near) \cap graph.visible
      BY <2>2 DEF rows, NewRows, VisibleExperiences
    <3>3. ASSUME NEW e \in near \cap ({root} \cup graph.visible) PROVE Range(graph.edges[e]) \subseteq far
      BY <1>1 DEF near, far
    <3>4. root \in near
      BY <2>2 DEF Walked, Listed
    <3> QED
      BY <2>3, <3>1, <3>2, <3>3, <3>4
  <2> QED
    BY <2>1, <2>4, <2>5, <2>6 DEF Walked, t, far
<1> QED
  BY <1>3, <1>4

\* A list without repetitions has as many ids as places.
LEMMA OncePerPlace ==
  ASSUME NEW E, NEW T, NEW w \in WalksOver(E, T), NEW root, Listed(root, w)
  PROVE  Cardinality(IdsOf(w)) = Len(w.nodes)
<1> DEFINE n == Len(w.nodes)
           f == [i \in 1..n |-> w.nodes[i].id]
<1>1. n \in Nat /\ DOMAIN w.nodes = 1..n
  BY DEF WalksOver
<1> HIDE DEF n
<1>2. f \in Bijection(1..n, IdsOf(w))
  <2>1. f \in [1..n -> IdsOf(w)]
    BY <1>1 DEF IdsOf
  <2>2. \A i, j \in 1..n : f[i] = f[j] => i = j
    BY <1>1 DEF Listed
  <2>3. \A x \in IdsOf(w) : \E i \in 1..n : f[i] = x
    BY <1>1 DEF IdsOf
  <2> HIDE DEF f
  <2> QED
    BY <2>1, <2>2, <2>3 DEF Bijection, Injection, Surjection, IsInjective
<1>3. ExistsBijection(1..n, IdsOf(w))
  BY <1>2 DEF ExistsBijection
<1>4. IsFiniteSet(1..n) /\ Cardinality(1..n) = n
  BY <1>1, FS_Interval
<1> QED
  BY <1>3, <1>4, FS_Bijection DEF n

\* What a caller asked for is found: everything within reach, once, at its
\* distance and through an edge from one level up, unless the budget ran out and
\* the answer says so, on every graph, cycles and diamonds included.
THEOREM EveryWalkIsShortest ==
  ASSUME NEW E, NEW T, NEW graph, IsGraph(graph, E, T), NEW root \in E, NEW depth \in Nat
  PROVE  ByTheShortestPath(graph, root, depth)
<1>1. PICK v : WalkedInTurn(v, E, T, graph, root, depth)
  BY WalkIs
<1> DEFINE P == {k \in Nat : k <= depth => Walked(graph, root, v[k], k)}
<1>2. 0 \in P
  <2>1. v[0].nodes = <<>> /\ v[0].seen = {root} /\ v[0].next = <<root>> /\ ~v[0].truncated
    BY <1>1 DEF WalkedInTurn, Started
  <2>2. Within(graph, root, 0) = {root}
    BY WithinOneMore
  <2>3. Listed(root, v[0])
    BY <2>1, LineageAssumption DEF Listed, IdsOf
  <2>4. Range(v[0].next) = {root}
    BY <2>1 DEF Range
  <2>5. DOMAIN v[0].nodes = {}
    BY <2>1
  <2>6. Walked(graph, root, v[0], 0)
    BY <2>1, <2>2, <2>3, <2>4, <2>5 DEF Walked
  <2> QED
    BY <2>6
<1>3. ASSUME NEW k \in Nat, k \in P PROVE k + 1 \in P
  <2> SUFFICES ASSUME k + 1 <= depth PROVE Walked(graph, root, v[k + 1], k + 1)
    OBVIOUS
  <2>1. k + 1 \in 1..depth /\ k \in 0..depth /\ (k + 1) - 1 = k
    OBVIOUS
  <2>2. v[k + 1] = Level(graph, v[k], k + 1) /\ v[k] \in WalksOver(E, T)
    BY <1>1, <2>1 DEF WalkedInTurn
  <2>3. Walked(graph, root, v[k], k)
    BY <1>3, <2>1
  <2> QED
    BY <2>2, <2>3, WalkedOneMore
<1> HIDE DEF P
<1>4. depth \in P
  BY <1>2, <1>3, EachNatural
<1> DEFINE w == v[depth]
           answer == Walk(graph, root, depth)
<1>5. Walked(graph, root, w, depth) /\ w \in WalksOver(E, T)
  <2>1. depth \in 0..depth /\ depth <= depth
    OBVIOUS
  <2> QED
    BY <1>1, <1>4, <2>1 DEF P, WalkedInTurn
<1>6. answer.nodes = w.nodes /\ answer.truncated = w.truncated
  BY <1>1 DEF WalkedInTurn
<1> HIDE DEF w, answer
<1> DEFINE ids == {answer.nodes[i].id : i \in DOMAIN answer.nodes}
<1>7. ids = IdsOf(w)
  BY <1>6 DEF IdsOf
<1>8. Cardinality(ids) = Len(answer.nodes) /\ root \notin ids /\ Len(answer.nodes) <= MaxLineageNodes
  <2>1. Listed(root, w)
    BY <1>5 DEF Walked
  <2> QED
    BY <1>5, <1>6, <1>7, <2>1, OncePerPlace DEF Listed
<1>9. answer.truncated <=> ids # Within(graph, root, depth) \ {root}
  <2>1. w.seen = {root} \cup ids /\ root \notin ids
    BY <1>5, <1>7 DEF Walked, Listed
  <2>2. w.seen \subseteq Within(graph, root, depth) /\ (w.truncated <=> w.seen # Within(graph, root, depth))
    BY <1>5 DEF Walked, WalksOver
  <2> HIDE DEF ids
  <2> QED
    BY <1>6, <2>1, <2>2
<1>10. \A i \in DOMAIN answer.nodes :
         LET node == answer.nodes[i]
         IN  /\ node.id \in Within(graph, root, node.depth) \ Within(graph, root, node.depth - 1)
             /\ node.from \in Within(graph, root, node.depth - 1)
  BY <1>5, <1>6 DEF Walked
<1> HIDE DEF ids
<1> QED
  BY <1>8, <1>9, <1>10 DEF ByTheShortestPath, answer, ids

\* Two graphs are the same as far as E is walked from.
SameFrom(E, graph, other) == graph.visible = other.visible /\ \A e \in E : graph.edges[e] = other.edges[e]

\* A level of graphs that are the same where one may look is the same level.
LEMMA SameLevel ==
  ASSUME NEW E, NEW T, NEW graph, NEW other, SameFrom(E, graph, other),
         NEW walk \in WalksOver(E, T), NEW n \in Nat
  PROVE  Level(graph, walk, n) = Level(other, walk, n)
<1>1. \A i \in DOMAIN walk.next : walk.next[i] \in E
  BY DEF WalksOver
<1>2. LineageEdges(graph, walk.next) = LineageEdges(other, walk.next)
  BY <1>1 DEF LineageEdges, SameFrom
<1> QED
  BY <1>2 DEF Level, VisibleExperiences, SameFrom

\* An answer tells a stranger's Experience from one that was never recorded on
\* no graph: it is a function of what the caller may see.
THEOREM NoWalkTells ==
  ASSUME NEW E, NEW T, NEW graph, IsGraph(graph, E, T), NEW root \in E, NEW other, NEW depth \in Nat
  PROVE  TellsNothing(graph, other, root, depth)
<1> DEFINE Seen == {root} \cup graph.visible
<1> SUFFICES ASSUME SameFrom(Seen, graph, other) PROVE Walk(graph, root, depth) = Walk(other, root, depth)
  BY DEF TellsNothing, SameFrom
<1>1. IsGraph(graph, Seen, T) /\ IsGraph(other, Seen, T) /\ root \in Seen
  BY DEF IsGraph, SameFrom
<1> HIDE DEF Seen
<1>2. PICK v : WalkedInTurn(v, Seen, T, graph, root, depth)
  BY <1>1, WalkIs
<1>3. PICK u : WalkedInTurn(u, Seen, T, other, root, depth)
  BY <1>1, WalkIs
<1> DEFINE P == {k \in Nat : k <= depth => v[k] = u[k]}
<1>4. 0 \in P
  BY <1>2, <1>3 DEF WalkedInTurn
<1>5. ASSUME NEW k \in Nat, k \in P PROVE k + 1 \in P
  <2> SUFFICES ASSUME k + 1 <= depth PROVE v[k + 1] = u[k + 1]
    OBVIOUS
  <2>1. k + 1 \in 1..depth /\ k \in 0..depth /\ (k + 1) - 1 = k /\ k + 1 \in Nat
    OBVIOUS
  <2>2. /\ v[k + 1] = Level(graph, v[k], k + 1) /\ v[k] \in WalksOver(Seen, T)
        /\ u[k + 1] = Level(other, u[k], k + 1)
    BY <1>2, <1>3, <2>1 DEF WalkedInTurn
  <2>3. v[k] = u[k]
    BY <1>5, <2>1
  <2>4. Level(graph, v[k], k + 1) = Level(other, v[k], k + 1)
    BY <2>1, <2>2, SameLevel
  <2> QED
    BY <2>2, <2>3, <2>4
<1> HIDE DEF P
<1>6. depth \in P
  BY <1>4, <1>5, EachNatural
<1>7. v[depth] = u[depth]
  BY <1>6 DEF P
<1> QED
  BY <1>2, <1>3, <1>7 DEF WalkedInTurn

-----------------------------------------------------------------------------
(* Sorting.                                                                *)

\* A set of pairs that puts S in a total order.
Orders(S, before) ==
  /\ \A x \in S : <<x, x>> \notin before
  /\ \A x, y \in S : x # y => <<x, y>> \in before \/ <<y, x>> \in before
  /\ \A x, y, z \in S : <<x, y>> \in before /\ <<y, z>> \in before => <<x, z>> \in before

\* How many come before x.
Ahead(S, before, x) == {y \in S : <<y, x>> \in before}

\* What comes before another has fewer before it.
LEMMA FewerAhead ==
  ASSUME NEW S, IsFiniteSet(S), NEW before, Orders(S, before)
  PROVE  \A x \in S : /\ Cardinality(Ahead(S, before, x)) \in 0..(Cardinality(S) - 1)
                      /\ \A y \in S : <<x, y>> \in before =>
                           Cardinality(Ahead(S, before, x)) < Cardinality(Ahead(S, before, y))
<1>1. \A x \in S : IsFiniteSet(Ahead(S, before, x)) /\ Cardinality(Ahead(S, before, x)) \in Nat
  <2> SUFFICES ASSUME NEW x \in S PROVE IsFiniteSet(Ahead(S, before, x)) /\ Cardinality(Ahead(S, before, x)) \in Nat
    OBVIOUS
  <2>1. Ahead(S, before, x) \subseteq S
    BY DEF Ahead
  <2> QED
    BY <2>1, FS_Subset, FS_CardinalityType
<1>2. ASSUME NEW x \in S PROVE Cardinality(Ahead(S, before, x)) \in 0..(Cardinality(S) - 1)
  <2>1. Ahead(S, before, x) \subseteq S /\ Ahead(S, before, x) # S
    BY DEF Ahead, Orders
  <2>2. Cardinality(Ahead(S, before, x)) < Cardinality(S) /\ Cardinality(S) \in Nat
    BY <2>1, FS_Subset, FS_CardinalityType
  <2> QED
    BY <1>1, <2>2
<1>3. ASSUME NEW x \in S, NEW y \in S, <<x, y>> \in before
      PROVE  Cardinality(Ahead(S, before, x)) < Cardinality(Ahead(S, before, y))
  <2>1. Ahead(S, before, x) \subseteq Ahead(S, before, y)
    BY <1>3 DEF Ahead, Orders
  <2>2. x \in Ahead(S, before, y) /\ x \notin Ahead(S, before, x)
    BY <1>3 DEF Ahead, Orders
  <2> QED
    BY <1>1, <2>1, <2>2, FS_Subset
<1> QED
  BY <1>2, <1>3

\* Sorted lists every member once, each before what it comes before and in the
\* place that the number of those ahead of it says.
LEMMA SortedIs ==
  ASSUME NEW S, IsFiniteSet(S), NEW before, Orders(S, before)
  PROVE  /\ Cardinality(S) \in Nat
         /\ Sorted(S, before) \in [1..Cardinality(S) -> S]
         /\ Range(Sorted(S, before)) = S
         /\ \A p, q \in 1..Cardinality(S) : p < q => <<Sorted(S, before)[p], Sorted(S, before)[q]>> \in before
         /\ \A p \in 1..Cardinality(S) : Cardinality(Ahead(S, before, Sorted(S, before)[p])) = p - 1
<1> DEFINE n == Cardinality(S)
           ahead(x) == Cardinality(Ahead(S, before, x))
           s == Sorted(S, before)
           f == [x \in S |-> ahead(x)]
<1>1. n \in Nat
  BY FS_CardinalityType
<1> HIDE DEF n
<1>2. /\ \A x \in S : ahead(x) \in 0..(n - 1)
      /\ \A x, y \in S : <<x, y>> \in before => ahead(x) < ahead(y)
  BY FewerAhead DEF n
<1> HIDE DEF ahead
<1>3. \A x, y \in S : ahead(x) = ahead(y) => x = y
  <2> SUFFICES ASSUME NEW x \in S, NEW y \in S, ahead(x) = ahead(y), x # y PROVE FALSE
    OBVIOUS
  <2>1. ahead(x) < ahead(y) \/ ahead(y) < ahead(x)
    BY <1>2 DEF Orders
  <2>2. ahead(x) \in Int /\ ahead(y) \in Int
    BY <1>2
  <2> QED
    BY <2>1, <2>2
<1>4. \A k \in 0..(n - 1) : \E x \in S : ahead(x) = k
  <2>1. f \in Injection(S, 0..(n - 1))
    BY <1>2, <1>3 DEF Injection, IsInjective
  <2>2. IsFiniteSet(0..(n - 1)) /\ Cardinality(0..(n - 1)) = n
    <3>1. 0 \in Int /\ n - 1 \in Int
      BY <1>1
    <3>2. IsFiniteSet(0..(n - 1)) /\ Cardinality(0..(n - 1)) = IF 0 > n - 1 THEN 0 ELSE (n - 1) - 0 + 1
      BY <3>1, FS_Interval
    <3> QED
      BY <1>1, <3>2
  <2>3. f \in Surjection(S, 0..(n - 1))
    <3> HIDE DEF f
    <3> QED
      BY <2>1, <2>2, FS_Injection DEF n
  <2> QED
    BY <2>3 DEF Surjection
<1>5. s = [p \in 1..n |-> CHOOSE x \in S : ahead(x) = p - 1]
  BY DEF Sorted, Ahead, ahead, n
<1>6. ASSUME NEW p \in 1..n PROVE s[p] \in S /\ ahead(s[p]) = p - 1
  <2>1. p - 1 \in 0..(n - 1)
    BY <1>1
  <2>2. \E x \in S : ahead(x) = p - 1
    BY <1>4, <2>1
  <2> HIDE DEF s
  <2> QED
    BY <1>5, <2>2
<1>7. Range(s) = S
  <2>1. ASSUME NEW x \in S PROVE x \in Range(s)
    <3>1. ahead(x) + 1 \in 1..n /\ (ahead(x) + 1) - 1 = ahead(x)
      BY <1>1, <1>2
    <3>2. s[ahead(x) + 1] = x
      BY <1>3, <1>6, <3>1
    <3> HIDE DEF s
    <3> QED
      BY <1>5, <3>1, <3>2 DEF Range
  <2> HIDE DEF s
  <2> QED
    BY <1>5, <1>6, <2>1 DEF Range
<1>8. ASSUME NEW p \in 1..n, NEW q \in 1..n, p < q PROVE <<s[p], s[q]>> \in before
  <2> HIDE DEF s
  <2>1. s[p] \in S /\ s[q] \in S /\ ahead(s[p]) < ahead(s[q])
    BY <1>6, <1>8
  <2>2. s[p] # s[q] /\ <<s[q], s[p]>> \notin before
    <3>1. ahead(s[p]) \in Int /\ ahead(s[q]) \in Int
      BY <1>2, <2>1
    <3>2. <<s[q], s[p]>> \in before => ahead(s[q]) < ahead(s[p])
      BY <1>2, <2>1
    <3> QED
      BY <2>1, <3>1, <3>2
  <2> QED
    BY <2>1, <2>2 DEF Orders
<1>9. s \in [1..n -> S]
  <2> HIDE DEF s
  <2> QED
    BY <1>5, <1>6
<1> QED
  BY <1>1, <1>6, <1>7, <1>8, <1>9 DEF n, ahead

\* A list of S in that order is Sorted.
LEMMA SortedOnly ==
  ASSUME NEW S, NEW before, Orders(S, before), NEW n \in Nat, NEW t \in [1..n -> S], Range(t) = S,
         \A p, q \in 1..n : p < q => <<t[p], t[q]>> \in before
  PROVE  IsFiniteSet(S) /\ Cardinality(S) = n /\ t = Sorted(S, before)
<1>1. \A p, q \in 1..n : t[p] = t[q] => p = q
  <2> SUFFICES ASSUME NEW p \in 1..n, NEW q \in 1..n, t[p] = t[q], p # q PROVE FALSE
    OBVIOUS
  <2>1. <<t[p], t[q]>> \in before \/ <<t[q], t[p]>> \in before
    <3>1. p < q \/ q < p
      OBVIOUS
    <3> QED
      BY <3>1
  <2> QED
    BY <2>1 DEF Orders
<1>2. ASSUME NEW m \in 0..n
      PROVE  /\ IsFiniteSet({t[i] : i \in 1..m}) /\ Cardinality({t[i] : i \in 1..m}) = m
  <2> DEFINE U == {t[i] : i \in 1..m}
             f == [i \in 1..m |-> t[i]]
  <2>1. f \in Bijection(1..m, U)
    <3>1. f \in [1..m -> U] /\ \A x \in U : \E i \in 1..m : f[i] = x
      OBVIOUS
    <3>2. \A i, j \in 1..m : f[i] = f[j] => i = j
      BY <1>1
    <3> HIDE DEF f, U
    <3> QED
      BY <3>1, <3>2 DEF Bijection, Injection, Surjection, IsInjective
  <2>2. ExistsBijection(1..m, U)
    BY <2>1 DEF ExistsBijection
  <2>3. IsFiniteSet(1..m) /\ Cardinality(1..m) = m
    <3>1. 1 \in Int /\ m \in Int /\ m \in Nat
      OBVIOUS
    <3>2. IsFiniteSet(1..m) /\ Cardinality(1..m) = IF 1 > m THEN 0 ELSE m - 1 + 1
      BY <3>1, FS_Interval
    <3> QED
      BY <3>1, <3>2
  <2> HIDE DEF U
  <2>4. IsFiniteSet(U) /\ Cardinality(U) = m
    BY <2>2, <2>3, FS_Bijection
  <2> QED
    BY <2>4 DEF U
<1>3. S = {t[i] : i \in 1..n} /\ n \in 0..n
  BY DEF Range
<1>4. IsFiniteSet(S) /\ Cardinality(S) = n
  BY <1>2, <1>3
<1>5. ASSUME NEW p \in 1..n PROVE Cardinality(Ahead(S, before, t[p])) = p - 1
  <2>1. Ahead(S, before, t[p]) = {t[i] : i \in 1..(p - 1)}
    <3>1. ASSUME NEW i \in 1..n PROVE <<t[i], t[p]>> \in before <=> i \in 1..(p - 1)
      <4>1. CASE i < p
        BY <4>1
      <4>2. CASE i = p
        BY <4>2 DEF Orders
      <4>3. CASE p < i
        <5>1. <<t[p], t[i]>> \in before /\ t[p] \in S /\ t[i] \in S
          BY <4>3
        <5>2. <<t[i], t[p]>> \notin before
          BY <5>1 DEF Orders
        <5> QED
          BY <4>3, <5>2
      <4> QED
        BY <4>1, <4>2, <4>3
    <3>2. \A i \in 1..(p - 1) : i \in 1..n
      OBVIOUS
    <3> QED
      BY <1>3, <3>1, <3>2 DEF Ahead
  <2>2. p - 1 \in 0..n
    OBVIOUS
  <2> QED
    BY <1>2, <2>1, <2>2
<1>6. ASSUME NEW p \in 1..n, NEW x \in S, Cardinality(Ahead(S, before, x)) = p - 1 PROVE x = t[p]
  <2>1. PICK q \in 1..n : x = t[q]
    BY <1>3
  <2>2. q - 1 = p - 1
    BY <1>5, <1>6, <2>1
  <2>3. q = p
    BY <2>2
  <2> QED
    BY <2>1, <2>3
<1>7. Sorted(S, before) = [p \in 1..n |-> CHOOSE x \in S : Cardinality(Ahead(S, before, x)) = p - 1]
  BY <1>4 DEF Sorted, Ahead
<1>8. ASSUME NEW p \in 1..n PROVE Sorted(S, before)[p] = t[p]
  <2>1. t[p] \in S /\ Cardinality(Ahead(S, before, t[p])) = p - 1
    BY <1>5
  <2> QED
    BY <1>6, <1>7, <2>1
<1> QED
  BY <1>4, <1>7, <1>8

-----------------------------------------------------------------------------
(* Scores.                                                                 *)

\* Relevance counts twice: what is less than two thirds as relevant as another
\* that is worth offering scores less, whatever the evidence.
LEMMA RelevanceCountsTwice ==
  ASSUME NEW r \in Nat, r <= 100, NEW s \in Nat, s <= 100, NEW q \in Nat, q <= 10000, NEW u \in Nat, u <= 10000
  PROVE  /\ ScoreOf(r, q) \in Nat /\ ScoreOf(r, q) <= 10000
         /\ ScoreOf(r, q) >= ScoreOf(s, u) /\ ScoreOf(s, u) >= MinScore => 3 * r >= 2 * s
<1> DEFINE w(z) == 100 * 45 + (55 * z) \div 100
           a == r * r
           b == s * s
<1>1. ASSUME NEW z \in Nat, z <= 10000 PROVE w(z) \in Nat /\ 4500 <= w(z) /\ w(z) <= 10000
  <2>1. PICK y \in Nat : y = 55 * z /\ y <= 5500 * 100
    BY <1>1
  <2>2. y \div 100 \in Nat /\ y \div 100 <= 5500
    BY <2>1
  <2> QED
    BY <2>1, <2>2
<1>2. a \in Nat /\ a <= 10000 /\ b \in Nat /\ b <= 10000
  <2>1. \A x \in Nat, y \in Nat : x <= y => x * x \in Nat /\ x * x <= y * y
    OBVIOUS
  <2>2. 100 * 100 = 10000 /\ 100 \in Nat
    OBVIOUS
  <2> QED
    BY <2>1, <2>2
<1>3. ScoreOf(r, q) = (a * w(q)) \div 10000 /\ ScoreOf(s, u) = (b * w(u)) \div 10000
  BY DEF ScoreOf, RelevanceFloor
<1>4. /\ (3 * r) * (3 * r) = 9 * a /\ (2 * s - 1) * (2 * s - 1) = 4 * b - 4 * s + 1
  OBVIOUS
<1>5. w(q) \in Nat /\ w(q) <= 10000 /\ w(u) \in Nat /\ w(u) <= 10000 /\ 4500 <= w(u)
  <2> HIDE DEF w
  <2> QED
    BY <1>1
<1> HIDE DEF a, b, w
<1>6. \A x \in Nat, y \in Nat, z \in Nat : y <= z => x * y <= x * z /\ x * y \in Nat
  OBVIOUS
<1>7. PICK x \in Nat : x = a * w(q) /\ x <= a * 10000
  <2>1. a * w(q) <= a * 10000 /\ a * w(q) \in Nat
    BY <1>2, <1>5, <1>6
  <2> QED
    BY <2>1
<1>8. PICK y \in Nat : y = b * w(u) /\ b * 4500 <= y /\ y <= b * 10000
  <2>1. b * 4500 <= b * w(u) /\ b * w(u) <= b * 10000 /\ b * w(u) \in Nat
    BY <1>2, <1>5, <1>6
  <2> QED
    BY <2>1
<1>9. /\ x \div 10000 \in Nat /\ x \div 10000 <= a
      /\ y \div 10000 \in Nat /\ y \div 10000 <= b /\ 10000 * (y \div 10000) + 10000 > y
  BY <1>2, <1>7, <1>8
<1>10. PICK m \in Nat : m = ScoreOf(r, q) /\ m <= a
  BY <1>3, <1>7, <1>9
<1>11. PICK n \in Nat : n = ScoreOf(s, u) /\ n <= b /\ 10000 * n + 10000 > b * 4500
  BY <1>2, <1>3, <1>8, <1>9
<1>12. ASSUME m >= n, n >= 3000 PROVE 3 * r >= 2 * s
  <2> SUFFICES ASSUME 3 * r < 2 * s PROVE FALSE
    OBVIOUS
  <2>1. 9 * a <= 4 * b - 4 * s + 1
    <3>1. 3 * r \in Nat /\ 2 * s - 1 \in Nat /\ 3 * r <= 2 * s - 1
      OBVIOUS
    <3>2. \A i \in Nat, j \in Nat : i <= j => i * i <= j * j
      OBVIOUS
    <3>3. (3 * r) * (3 * r) <= (2 * s - 1) * (2 * s - 1)
      BY <3>1, <3>2
    <3> QED
      BY <1>4, <3>3
  <2>2. b >= 3000 /\ 4500 * b < 10000 * a + 10000
    BY <1>2, <1>10, <1>11, <1>12
  <2> QED
    BY <1>2, <2>1, <2>2
<1>13. ScoreOf(r, q) \in Nat /\ ScoreOf(r, q) <= 10000
  BY <1>2, <1>10
<1>14. ASSUME ScoreOf(r, q) >= ScoreOf(s, u), ScoreOf(s, u) >= MinScore PROVE 3 * r >= 2 * s
  <2>1. m >= n /\ n >= 3000
    BY <1>10, <1>11, <1>14 DEF MinScore
  <2> QED
    BY <1>12, <2>1
<1> QED
  BY <1>13, <1>14

\* A quotient is below what it is of, and below what its denominator fits in.
LEMMA Quotient ==
  ASSUME NEW n \in Int, NEW d \in Nat, d # 0, NEW k \in Nat, n < (k + 1) * d
  PROVE  n \div d \in Int /\ n \div d <= k /\ (n >= 0 => n \div d >= 0)
<1>1. PICK m \in Int : m = n \div d /\ m * d <= n
  OBVIOUS
<1>2. m <= k
  <2> SUFFICES ASSUME m >= k + 1 PROVE FALSE
    OBVIOUS
  <2>1. (k + 1) * d <= m * d
    BY <1>1
  <2>2. (k + 1) * d \in Int /\ m * d \in Int
    OBVIOUS
  <2> QED
    BY <1>1, <2>1, <2>2
<1>3. n >= 0 => m >= 0
  BY <1>1
<1> QED
  BY <1>1, <1>2, <1>3

\* A root is a natural.
LEMMA RootType == ASSUME NEW x \in Nat PROVE Root(x) \in Nat
<1> DEFINE bits == <<16384, 8192, 4096, 2048, 1024, 512, 256, 128, 64, 32, 16, 8, 4, 2, 1>>
           Add(r, b) == IF (r + b) * (r + b) <= x THEN r + b ELSE r
           F == [p \in Nat \X (1..15) |-> Add(p[1], bits[p[2]])]
           iter[s \in SUBSET (DOMAIN bits)] ==
             IF s = {} THEN 0 ELSE Add(iter[s \ {Max(s)}], bits[Max(s)])
<1>1. DOMAIN bits = 1..15 /\ \A i \in 1..15 : bits[i] \in Nat
  OBVIOUS
<1>2. Root(x) = iter[DOMAIN bits]
  BY DEF Root, FoldLeft, MapThenFoldSet
<1> HIDE DEF bits
<1>3. ASSUME NEW r \in Nat, NEW b \in Nat PROVE Add(r, b) \in Nat
  OBVIOUS
<1> HIDE DEF Add
<1>4. F \in [Nat \X (1..15) -> Nat]
  BY <1>1, <1>3
<1>5. iter = [s \in SUBSET (1..15) |-> IF s = {} THEN 0 ELSE Add(iter[s \ {Max(s)}], bits[Max(s)])]
  <2>1. PICK g : IsFold(g, Nat, 0, 15, F)
    <3> HIDE DEF F
    <3> QED
      BY <1>4, FoldExists
  <2>2. ASSUME NEW s \in SUBSET (1..15), s # {} PROVE g[s] = Add(g[s \ {Max(s)}], bits[Max(s)])
    <3>1. Max(s) \in 1..15
      BY <2>2, LastOne
    <3>2. g[s \ {Max(s)}] \in Nat
      BY <2>1 DEF IsFold
    <3> QED
      BY <2>1, <2>2, <3>1, <3>2 DEF IsFold
  <2>3. g = [s \in SUBSET (1..15) |-> IF s = {} THEN 0 ELSE Add(g[s \ {Max(s)}], bits[Max(s)])]
    BY <2>1, <2>2 DEF IsFold
  <2> QED
    BY <1>1, <2>3
<1> HIDE DEF iter
<1>6. PICK v : LeadsTo(v, Nat, 0, 15, F, iter[1..15])
  <2>1. iter[{}] = 0
    BY <1>5
  <2>2. ASSUME NEW s \in SUBSET (1..15), s # {}, iter[s \ {Max(s)}] \in Nat
        PROVE  iter[s] = F[<<iter[s \ {Max(s)}], Max(s)>>]
    <3>1. Max(s) \in 1..15
      BY <2>2, LastOne
    <3> QED
      BY <1>5, <2>2, <3>1
  <2> HIDE DEF F
  <2>3. GoesBy(iter, Nat, 0, 15, F)
    BY <2>1, <2>2 DEF GoesBy
  <2> QED
    BY <1>4, <2>3, StepsOf
<1> QED
  BY <1>1, <1>2, <1>6 DEF LeadsTo, IsSteps

\* The lower bound of a share of successes is a share.
LEMMA WilsonType == ASSUME NEW s \in Nat, NEW f \in Nat PROVE Wilson(s, f) \in 0..100
<1>1. CASE s + f = 0
  BY <1>1 DEF Wilson
<1>2. CASE s + f # 0
  <2>1. PICK n \in Nat : n = s + f /\ n # 0
    BY <1>2
  <2>2. (1000 * s * f) \div n \in Nat
    <3>1. PICK m \in Nat : m = 1000 * s * f
      <4>1. 1000 * s \in Nat
        OBVIOUS
      <4>2. \A i \in Nat, j \in Nat : i * j \in Nat
        OBVIOUS
      <4> QED
        BY <4>1, <4>2
    <3> QED
      BY <2>1, <3>1
  <2> DEFINE y == (1000 * s * f) \div n
  <2> HIDE DEF y
  <2>3. PICK x \in Nat : x = (196 * Root(1000 * y + 960400)) \div 10
    <3>1. 1000 * y + 960400 \in Nat
      BY <2>2 DEF y
    <3>2. Root(1000 * y + 960400) \in Nat
      BY <3>1, RootType
    <3> QED
      BY <3>2
  <2>4. Wilson(s, f) = Most(0, (10000 * s + 19208 - x) \div (100 * n + 384))
    BY <1>2, <2>1, <2>3 DEF Wilson, y
  <2>5. PICK a \in Int, d \in Nat : a = 10000 * s + 19208 - x /\ d = 100 * n + 384 /\ d # 0 /\ a < (100 + 1) * d
    BY <2>1
  <2>6. a \div d \in Int /\ a \div d <= 100
    BY <2>5, Quotient
  <2> QED
    BY <2>4, <2>5, <2>6 DEF Most
<1> QED
  BY <1>1, <1>2

\* Every signal is a percentage, and so is what they come to, in hundredths.
LEMMA QualityType ==
  ASSUME NEW query, NEW row, IsVersion(row)
  PROVE  Quality(query, row) \in Nat /\ Quality(query, row) <= 10000
<1> DEFINE stat == row.stat
<1>1. /\ stat.good \in Nat /\ stat.bad \in Nat /\ stat.orgs \in Nat
      /\ stat.level \in {"unverified", "claimed", "proven"}
      /\ stat.age \in Nat \cup {-1} /\ stat.median \in Nat \cup {-1}
  BY DEF IsVersion, Stats
<1>2. Compatibility(query, row) \in 0..100
  BY DEF Compatibility
<1>3. Confidence(stat) \in 0..100
  <2>1. CorroboratedSuccesses(stat) \in Nat
    <3>1. Most(stat.orgs, 1) * RunsPerOrganizationCap \in Nat
      BY <1>1 DEF Most, RunsPerOrganizationCap
    <3> QED
      BY <1>1, <3>1 DEF CorroboratedSuccesses, Least
  <2>2. Wilson(CorroboratedSuccesses(stat), stat.bad) \in 0..100
    BY <1>1, <2>1, WilsonType
  <2>3. PICK k \in {0, 60, 100} : k = VerificationStrength[stat.level]
    BY <1>1 DEF VerificationStrength
  <2>4. \A w \in 0..100 : (w * k) \div 100 \in 0..100
    <3>1. \A w \in 0..100 : (w * 0) \div 100 \in 0..100
      OBVIOUS
    <3>2. \A w \in 0..100 : (w * 60) \div 100 \in 0..100
      OBVIOUS
    <3>3. \A w \in 0..100 : (w * 100) \div 100 \in 0..100
      OBVIOUS
    <3> QED
      BY <3>1, <3>2, <3>3
  <2> QED
    BY <2>2, <2>3, <2>4 DEF Confidence
<1>4. Usage(stat.good) \in 0..100
  <2>1. stat.good = 0 \/ stat.good \in 1..8 \/ stat.good \in 9..98 \/ stat.good > 98
    BY <1>1
  <2> QED
    BY <1>1, <2>1 DEF Usage
<1>5. Corroboration(stat.orgs) \in 0..100
  <2>1. (100 * stat.orgs) \div CorroborationSaturation \in Nat
    BY <1>1 DEF CorroborationSaturation
  <2> QED
    BY <2>1 DEF Corroboration, Least
<1>6. Recency(stat.age) \in 0..100
  <2>1. CASE stat.age = -1 \/ stat.age <= FreshHours
    BY <2>1 DEF Recency
  <2>2. CASE stat.age # -1 /\ ~(stat.age <= FreshHours)
    <3>1. PICK a \in Nat : a = stat.age - FreshHours
      BY <1>1, <2>2 DEF FreshHours
    <3>2. (100 * a) \div (StaleAfterDays * 24) \in Nat
      <4>1. StaleAfterDays * 24 = 2160
        BY DEF StaleAfterDays
      <4>2. (100 * a) \div 2160 \in Nat
        OBVIOUS
      <4> QED
        BY <4>1, <4>2
    <3> QED
      BY <2>2, <3>1, <3>2 DEF Recency, Most
  <2> QED
    BY <2>1, <2>2
<1>7. Latency(stat.median) \in 0..100
  <2>1. CASE stat.median = -1
    BY <2>1 DEF Latency
  <2>2. CASE stat.median # -1
    <3>1. PICK d \in Nat : d = 5000 + stat.median /\ d # 0 /\ 500000 < (100 + 1) * d
      BY <1>1, <2>2
    <3>2. 500000 \div d \in Int /\ 500000 \div d <= 100 /\ 500000 \div d >= 0
      <4>1. PICK n \in Int : n = 500000 /\ n >= 0 /\ n < (100 + 1) * d
        BY <3>1
      <4> QED
        BY <3>1, <4>1, Quotient
    <3> QED
      BY <2>2, <3>1, <3>2 DEF Latency
  <2> QED
    BY <2>1, <2>2
<1>8. Safety(row) \in 0..100
  <2>1. Cardinality(row.capabilities) \in Nat
    BY FS_CardinalityType DEF IsVersion
  <2>2. PICK c \in Nat : c = (IF row.network THEN 60 ELSE 0) + Least(40, 10 * Cardinality(row.capabilities))
    <3>1. Least(40, 10 * Cardinality(row.capabilities)) \in Nat
      BY <2>1 DEF Least
    <3> QED
      BY <3>1
  <2> QED
    BY <2>2 DEF Safety, Least
<1> HIDE DEF stat
<1>9. PICK a \in 0..100, b \in 0..100, c \in 0..100, d \in 0..100, e \in 0..100, f \in 0..100, g \in 0..100 :
        /\ a = Compatibility(query, row) /\ b = Confidence(stat) /\ c = Usage(stat.good)
        /\ d = Corroboration(stat.orgs) /\ e = Recency(stat.age) /\ f = Latency(stat.median) /\ g = Safety(row)
  BY <1>2, <1>3, <1>4, <1>5, <1>6, <1>7, <1>8
<1>10. Quality(query, row) =
         30 * Compatibility(query, row) + 34 * Confidence(stat) + 10 * Usage(stat.good)
           + 7 * Corroboration(stat.orgs) + 12 * Recency(stat.age) + 5 * Latency(stat.median) + 2 * Safety(row)
  BY DEF Quality, QualityWeights, stat
<1>11. Quality(query, row) = 30 * a + 34 * b + 10 * c + 7 * d + 12 * e + 5 * f + 2 * g
  BY <1>9, <1>10
<1> QED
  BY <1>11

\* Relevance is a percentage too.
LEMMA RelevanceType ==
  ASSUME NEW lexical \in Nat, NEW cosine \in 0..100, NEW top \in Nat, NEW wanted, NEW label
  PROVE  IntentRelevance(RelevanceOf(lexical, cosine, top), wanted, label) \in 0..100
<1>1. PICK d \in Nat : d = Most(LexicalScale, top) /\ d # 0
  BY DEF Most, LexicalScale
<1>2. (100 * lexical) \div d \in Nat
  <2>1. PICK n \in Nat : n = 100 * lexical
    OBVIOUS
  <2> QED
    BY <1>1, <2>1
<1>3. PICK r \in 0..100 : r = RelevanceOf(lexical, cosine, top)
  BY <1>1, <1>2 DEF RelevanceOf, Least, Most
<1>4. Least(100, r + IntentMatchBonus) \in 0..100
  BY DEF Least, IntentMatchBonus
<1>5. (r * IntentMismatchFactor) \div 100 \in 0..100
  BY DEF IntentMismatchFactor
<1> DEFINE same == wanted = label /\ wanted # UNKNOWN
           other == wanted # label /\ Produces(wanted) # {} /\ Produces(label) # {} /\ Produces(wanted) # Produces(label)
<1>6. IntentRelevance(r, wanted, label) =
        CASE same -> Least(100, r + IntentMatchBonus) [] other -> (r * IntentMismatchFactor) \div 100 [] OTHER -> r
  BY DEF IntentRelevance
<1>7. ~(same /\ other)
  OBVIOUS
<1> HIDE DEF same, other
<1>8. CASE same
  BY <1>4, <1>6, <1>7, <1>8, <1>3
<1>9. CASE other
  BY <1>5, <1>6, <1>7, <1>9, <1>3
<1>10. CASE ~same /\ ~other
  BY <1>6, <1>10, <1>3
<1> QED
  BY <1>8, <1>9, <1>10

-----------------------------------------------------------------------------
(* What is retrieved.                                                      *)

\* The pairs of ids in the order of their scores.
ByScore(ids, score) ==
  {e \in ids \X ids : \/ score[e[1]] > score[e[2]]
                      \/ score[e[1]] = score[e[2]] /\ e[1] < e[2]}

\* It is a total order.
LEMMA ScoreOrders ==
  ASSUME NEW n \in Nat, NEW ids \in SUBSET (1..n), NEW score, \A i \in ids : score[i] \in Int
  PROVE  Orders(ids, ByScore(ids, score)) /\ IsFiniteSet(ids)
<1> DEFINE before == ByScore(ids, score)
<1>1. IsFiniteSet(ids)
  <2>1. IsFiniteSet(1..n)
    BY FS_Interval
  <2> QED
    BY <2>1, FS_Subset
<1>2. \A x, y \in ids : <<x, y>> \in before <=> score[x] > score[y] \/ (score[x] = score[y] /\ x < y)
  BY DEF ByScore
<1> HIDE DEF before
<1>3. \A x \in ids : x \in Int /\ score[x] \in Int
  OBVIOUS
<1>4. \A x \in ids : <<x, x>> \notin before
  BY <1>2, <1>3
<1>5. ASSUME NEW x \in ids, NEW y \in ids, x # y PROVE <<x, y>> \in before \/ <<y, x>> \in before
  <2>1. PICK a \in Int, b \in Int : a = score[x] /\ b = score[y]
    BY <1>3
  <2>2. a > b \/ (a = b /\ x < y) \/ b > a \/ (b = a /\ y < x)
    BY <1>3, <1>5
  <2>3. /\ <<x, y>> \in before <=> a > b \/ (a = b /\ x < y)
        /\ <<y, x>> \in before <=> b > a \/ (b = a /\ y < x)
    BY <1>2, <2>1
  <2> QED
    BY <2>2, <2>3
<1>6. ASSUME NEW x \in ids, NEW y \in ids, NEW z \in ids, <<x, y>> \in before, <<y, z>> \in before
      PROVE  <<x, z>> \in before
  <2>1. score[x] > score[y] \/ (score[x] = score[y] /\ x < y)
    BY <1>2, <1>6
  <2>2. score[y] > score[z] \/ (score[y] = score[z] /\ y < z)
    BY <1>2, <1>6
  <2>3. score[x] > score[z] \/ (score[x] = score[z] /\ x < z)
    BY <1>3, <2>1, <2>2
  <2> QED
    BY <1>2, <2>3
<1> QED
  BY <1>1, <1>4, <1>5, <1>6 DEF Orders, before

\* A cut of ids with scores is a list of some of them.
LEMMA CutIs ==
  ASSUME NEW n \in Nat, NEW ids \in SUBSET (1..n), NEW score, \A i \in ids : score[i] \in Int
  PROVE  Cut(ids, score) \in Seq(ids)
<1> DEFINE best == Sorted(ids, ByScore(ids, score))
<1>1. PICK c \in Nat : best \in [1..c -> ids]
  BY ScoreOrders, SortedIs
<1>2. best \in Seq(ids) /\ Len(best) = c
  BY <1>1
<1>3. Cut(ids, score) = SubSeq(best, 1, Least(CandidatePool, Len(best)))
  BY DEF Cut, ByScore
<1> HIDE DEF best
<1>4. Least(CandidatePool, c) \in 0..c
  BY RecallAssumption DEF Least
<1> QED
  BY <1>2, <1>3, <1>4

\* Those that fit at a moment.
Fitting(query, corpus) == {i \in DOMAIN corpus : Fits(query, corpus[i])}

\* Both halves retrieve what fits.
LEMMA Retrieved ==
  ASSUME NEW query, NEW n \in Nat, NEW seen, IsRegistry(seen, n)
  PROVE  /\ Lexical(query, seen[1]) \in Seq(Fitting(query, seen[1]))
         /\ Vector(query, seen[2]) \in Seq(Fitting(query, seen[2]))
         /\ Fitting(query, seen[1]) \subseteq 1..n /\ Fitting(query, seen[2]) \subseteq 1..n
<1> DEFINE words == {i \in DOMAIN seen[1] : Fits(query, seen[1][i]) /\ seen[1][i].lexical # 0}
           close == {i \in DOMAIN seen[2] : Fits(query, seen[2][i]) /\ seen[2][i].cosine # 0}
           rank == [i \in DOMAIN seen[1] |-> seen[1][i].lexical]
           near == [i \in DOMAIN seen[2] |-> seen[2][i].cosine]
<1>1. 1 \in 1..3 /\ 2 \in 1..3
  OBVIOUS
<1>2. DOMAIN seen[1] = 1..n /\ DOMAIN seen[2] = 1..n
  BY <1>1 DEF IsRegistry
<1>3. \A i \in 1..n : seen[1][i].lexical \in Nat /\ seen[2][i].cosine \in 0..100
  BY <1>1 DEF IsRegistry, IsVersion
<1>4. /\ words \in SUBSET (1..n) /\ \A i \in words : rank[i] \in Int
      /\ close \in SUBSET (1..n) /\ \A i \in close : near[i] \in Int
  <2>1. words \subseteq 1..n /\ close \subseteq 1..n
    BY <1>2
  <2>2. \A i \in 1..n : rank[i] = seen[1][i].lexical /\ near[i] = seen[2][i].cosine
    BY <1>2
  <2> HIDE DEF words, close, rank, near
  <2> QED
    BY <1>3, <2>1, <2>2
<1>5. words \subseteq Fitting(query, seen[1]) /\ close \subseteq Fitting(query, seen[2])
  BY DEF Fitting
<1>6. Lexical(query, seen[1]) = Cut(words, rank) /\ Vector(query, seen[2]) = Cut(close, near)
  BY DEF Lexical, Vector
<1> HIDE DEF words, close, rank, near
<1>7. Cut(words, rank) \in Seq(words) /\ Cut(close, near) \in Seq(close)
  BY <1>4, CutIs
<1>8. Seq(words) \subseteq Seq(Fitting(query, seen[1])) /\ Seq(close) \subseteq Seq(Fitting(query, seen[2]))
  BY <1>5
<1>9. Fitting(query, seen[1]) \subseteq 1..n /\ Fitting(query, seen[2]) \subseteq 1..n
  BY <1>2 DEF Fitting
<1> QED
  BY <1>6, <1>7, <1>8, <1>9

\* What is considered was retrieved by one half or the other.
LEMMA Considered ==
  ASSUME NEW n \in Nat, NEW lexical \in Seq(1..n), NEW vector \in Seq(1..n)
  PROVE  Candidates(lexical, vector) \subseteq Range(lexical) \cup Range(vector)
<1> DEFINE ids == Range(lexical) \cup Range(vector)
           score == [i \in ids |-> Fusion(lexical, vector, i)]
           share(ranking, i) == IF i \in Range(ranking)
                                THEN 1000000 \div (60 + (CHOOSE p \in DOMAIN ranking : ranking[p] = i)) ELSE 0
<1>1. ids \in SUBSET (1..n)
  BY DEF Range
<1>2. ASSUME NEW ranking \in Seq(1..n), NEW i PROVE share(ranking, i) \in Int
  <2>1. CASE i \in Range(ranking)
    <3>1. \E p \in DOMAIN ranking : ranking[p] = i
      BY <2>1 DEF Range
    <3>2. PICK p \in DOMAIN ranking : p = CHOOSE j \in DOMAIN ranking : ranking[j] = i
      BY <3>1
    <3>3. PICK d \in Nat : d = 60 + p /\ d # 0
      OBVIOUS
    <3>4. \A m \in Nat : m \div d \in Int
      BY <3>3
    <3>5. share(ranking, i) = 1000000 \div d
      BY <2>1, <3>2, <3>3
    <3> HIDE DEF share
    <3> QED
      BY <3>4, <3>5
  <2>2. CASE i \notin Range(ranking)
    BY <2>2
  <2> QED
    BY <2>1, <2>2
<1>3. \A i \in ids : score[i] = share(lexical, i) + share(vector, i)
  BY DEF Fusion
<1> HIDE DEF share
<1>4. \A i \in ids : score[i] \in Int
  <2> HIDE DEF score, ids
  <2> QED
    BY <1>2, <1>3
<1>5. Candidates(lexical, vector) = Range(Cut(ids, score))
  BY DEF Candidates
<1> HIDE DEF score, ids
<1>6. Cut(ids, score) \in Seq(ids)
  BY <1>1, <1>4, CutIs
<1>7. Range(Cut(ids, score)) \subseteq ids
  BY <1>6 DEF Range
<1> QED
  BY <1>5, <1>7 DEF ids

-----------------------------------------------------------------------------
(* The answer.                                                             *)

\* The candidate of an id.
Candidate(query, seen, i) ==
  Scored(query, Lexical(query, seen[1]), Vector(query, seen[2]), seen, seen[3], i)

\* What there is to say of it.
LEMMA CandidateIs ==
  ASSUME NEW query, NEW n \in Nat, NEW seen, IsRegistry(seen, n), NEW i \in 1..n
  PROVE  LET c == Candidate(query, seen, i)
         IN  /\ c.id = i /\ c.good \in Nat /\ c.relevance \in 0..100
             /\ \E q \in Nat : q <= 10000 /\ c.final = ScoreOf(c.relevance, q)
             /\ c.final \in Nat /\ c.final <= 10000
             /\ c.recommendation = "use" => seen[3][i].stat.orgs >= MinOrganizations
<1> DEFINE lexical == Lexical(query, seen[1])
           vector == Vector(query, seen[2])
           row == seen[3][i]
           top == IF lexical = <<>> THEN 0 ELSE seen[1][lexical[1]].lexical
           had(ranking, score) == IF i \in Range(ranking) THEN score ELSE 0
           words == had(lexical, seen[1][i].lexical)
           close == had(vector, seen[2][i].cosine)
           r == IntentRelevance(RelevanceOf(words, close, top), query.intent, row.intent)
           q == Quality(query, row)
           c == Candidate(query, seen, i)
<1>1. 1 \in 1..3 /\ 2 \in 1..3 /\ 3 \in 1..3
  OBVIOUS
<1>2. \A j \in 1..n : IsVersion(seen[1][j]) /\ IsVersion(seen[2][j]) /\ IsVersion(seen[3][j])
  BY <1>1 DEF IsRegistry
<1>3. top \in Nat
  <2>1. CASE lexical = <<>>
    BY <2>1
  <2>2. CASE lexical # <<>>
    <3>1. lexical \in Seq(1..n)
      <4>1. lexical \in Seq(Fitting(query, seen[1])) /\ Fitting(query, seen[1]) \subseteq 1..n
        BY Retrieved
      <4> HIDE DEF lexical
      <4> QED
        BY <4>1
    <3> HIDE DEF lexical
    <3>2. lexical[1] \in 1..n
      BY <2>2, <3>1
    <3> QED
      BY <1>2, <2>2, <3>2 DEF IsVersion
  <2> QED
    BY <2>1, <2>2
<1>4. words \in Nat /\ close \in 0..100
  <2> HIDE DEF lexical, vector
  <2> QED
    BY <1>2 DEF IsVersion
<1> HIDE DEF words, close, top
<1>5. r \in 0..100
  BY <1>3, <1>4, RelevanceType
<1>6. q \in Nat /\ q <= 10000
  BY <1>2, QualityType
<1>7. c = [id |-> i, final |-> ScoreOf(r, q), good |-> row.stat.good, relevance |-> r,
           recommendation |-> Recommend(ScoreOf(r, q), Compatibility(query, row), row.stat.orgs)]
  BY DEF Candidate, Scored, words, close, top
<1> HIDE DEF r, q, c, row
<1>8. c.id = i /\ c.final = ScoreOf(r, q) /\ c.good = row.stat.good /\ c.relevance = r
      /\ c.recommendation = Recommend(ScoreOf(r, q), Compatibility(query, row), row.stat.orgs)
  BY <1>7
<1>9. row.stat.good \in Nat
  BY <1>2 DEF row, IsVersion, Stats
<1>10. ScoreOf(r, q) \in Nat /\ ScoreOf(r, q) <= 10000
  <2>1. r \in Nat /\ r <= 100
    BY <1>5
  <2> QED
    BY <1>6, <2>1, RelevanceCountsTwice
<1>11. c.recommendation = "use" => row.stat.orgs >= MinOrganizations
  <2> DEFINE f == ScoreOf(r, q)
             k == Compatibility(query, row)
             o == row.stat.orgs
  <2> HIDE DEF f, k, o
  <2>1. Recommend(f, k, o) = "use" => o >= MinOrganizations
    BY DEF Recommend
  <2> QED
    BY <1>8, <2>1 DEF f, k, o
<1> QED
  BY <1>5, <1>6, <1>8, <1>9, <1>10, <1>11 DEF c, row

\* The pairs of S in the order of the ranking.
ByRank(S) == {e \in S \X S : Ranked(e[1], e[2])}

\* What the ranking can compare: no two of them have one id.
Rankable(S) ==
  /\ \A a \in S : a.final \in Int /\ a.good \in Int /\ a.id \in Int
  /\ \A a, b \in S : a.id = b.id => a = b

\* Then it is a total order.
LEMMA RankedOrder ==
  ASSUME NEW S, Rankable(S)
  PROVE  Orders(S, ByRank(S))
<1>1. \A x, y \in S : <<x, y>> \in ByRank(S) <=> Ranked(x, y)
  BY DEF ByRank
<1>2. ASSUME NEW x \in S PROVE ~Ranked(x, x)
  BY DEF Rankable, Ranked
<1>3. ASSUME NEW x \in S, NEW y \in S, x # y PROVE Ranked(x, y) \/ Ranked(y, x)
  <2>1. x.id # y.id
    BY <1>3 DEF Rankable
  <2> QED
    BY <2>1 DEF Rankable, Ranked
<1>4. ASSUME NEW x \in S, NEW y \in S, NEW z \in S, Ranked(x, y), Ranked(y, z) PROVE Ranked(x, z)
  BY <1>4 DEF Rankable, Ranked
<1> QED
  BY <1>1, <1>2, <1>3, <1>4 DEF Orders

\* What is at some places of a list, no two of them the same.
At(rows, places) == {rows[p] : p \in places}
AllDiffer(rows, places) == \A p, q \in places : rows[p] = rows[q] => p = q

\* Sorting places of a list is sorting what is at them, in the one order there
\* is: how the list was ordered before leaves no trace.
LEMMA StablySortedIs ==
  ASSUME NEW c \in Nat, NEW rows, NEW places \in SUBSET (1..c),
         Rankable(At(rows, places)), AllDiffer(rows, places)
  PROVE  StablySorted(rows, places) = Sorted(At(rows, places), ByRank(At(rows, places)))
<1> DEFINE S == At(rows, places)
           before == {e \in places \X places : \/ Ranked(rows[e[1]], rows[e[2]])
                                               \/ ~Ranked(rows[e[2]], rows[e[1]]) /\ e[1] < e[2]}
           sorted == Sorted(places, before)
           k == Cardinality(places)
           t == [p \in DOMAIN sorted |-> rows[sorted[p]]]
<1>1. IsFiniteSet(places)
  <2>1. IsFiniteSet(1..c)
    BY FS_Interval
  <2> QED
    BY <2>1, FS_Subset
<1>2. \A p \in places : rows[p] \in S
  BY DEF At
<1>3. Orders(S, ByRank(S))
  BY RankedOrder
<1>4. \A x, y \in S : <<x, y>> \in ByRank(S) <=> Ranked(x, y)
  BY DEF ByRank
<1>5. ASSUME NEW p \in places, NEW q \in places
      PROVE  <<p, q>> \in before <=> Ranked(rows[p], rows[q]) \/ (~Ranked(rows[q], rows[p]) /\ p < q)
  <2>1. <<p, q>> \in places \X places /\ <<p, q>>[1] = p /\ <<p, q>>[2] = q
    OBVIOUS
  <2> QED
    BY <2>1
<1>6. S = {rows[p] : p \in places}
  BY DEF At
<1> HIDE DEF S, before
<1>7. \A p, q \in places : <<p, q>> \in before <=> <<rows[p], rows[q]>> \in ByRank(S)
  <2> SUFFICES ASSUME NEW p \in places, NEW q \in places
               PROVE  <<p, q>> \in before <=> <<rows[p], rows[q]>> \in ByRank(S)
    OBVIOUS
  <2>1. rows[p] \in S /\ rows[q] \in S
    BY <1>2
  <2>2. CASE p = q
    <3>1. ~(p < q)
      <4>1. p \in Int
        OBVIOUS
      <4> QED
        BY <2>2, <4>1
    <3>2. ~Ranked(rows[p], rows[q])
      BY <1>3, <1>4, <2>1, <2>2 DEF Orders
    <3> QED
      BY <1>4, <1>5, <2>1, <2>2, <3>1, <3>2
  <2>3. CASE p # q
    <3>1. Ranked(rows[p], rows[q]) \/ Ranked(rows[q], rows[p])
      <4>1. rows[p] # rows[q]
        BY <2>3 DEF AllDiffer
      <4>2. <<rows[p], rows[q]>> \in ByRank(S) \/ <<rows[q], rows[p]>> \in ByRank(S)
        BY <1>3, <2>1, <4>1 DEF Orders
      <4> QED
        BY <1>4, <2>1, <4>2
    <3> QED
      BY <1>4, <1>5, <2>1, <3>1
  <2> QED
    BY <2>2, <2>3
<1>8. Orders(places, before)
  <2>1. \A p \in places : <<p, p>> \notin before
    BY <1>2, <1>3, <1>7 DEF Orders
  <2>2. ASSUME NEW p \in places, NEW q \in places, p # q PROVE <<p, q>> \in before \/ <<q, p>> \in before
    <3>1. rows[p] \in S /\ rows[q] \in S /\ rows[p] # rows[q]
      BY <1>2, <2>2 DEF AllDiffer
    <3> QED
      BY <1>3, <1>7, <3>1 DEF Orders
  <2>3. ASSUME NEW p \in places, NEW q \in places, NEW r \in places, <<p, q>> \in before, <<q, r>> \in before
        PROVE  <<p, r>> \in before
    <3>1. rows[p] \in S /\ rows[q] \in S /\ rows[r] \in S
      BY <1>2
    <3>2. <<rows[p], rows[q]>> \in ByRank(S) /\ <<rows[q], rows[r]>> \in ByRank(S)
      BY <1>7, <2>3
    <3>3. <<rows[p], rows[r]>> \in ByRank(S)
      BY <1>3, <3>1, <3>2 DEF Orders
    <3> QED
      BY <1>7, <3>3
  <2> QED
    BY <2>1, <2>2, <2>3 DEF Orders
<1>9. /\ k \in Nat /\ sorted \in [1..k -> places] /\ Range(sorted) = places
      /\ \A p, q \in 1..k : p < q => <<sorted[p], sorted[q]>> \in before
  BY <1>1, <1>8, SortedIs
<1>10. StablySorted(rows, places) = t
  BY DEF StablySorted, before
<1> HIDE DEF sorted, k
<1>11. t = [p \in 1..k |-> rows[sorted[p]]]
  BY <1>9
<1> HIDE DEF t
<1>12. t \in [1..k -> S] /\ \A p \in 1..k : t[p] = rows[sorted[p]]
  BY <1>2, <1>9, <1>11
<1>13. Range(t) = S
  <2>1. \A p \in places : \E i \in 1..k : sorted[i] = p
    BY <1>9 DEF Range
  <2>2. \A x \in S : \E i \in 1..k : t[i] = x
    BY <1>6, <1>12, <2>1
  <2> QED
    BY <1>12, <2>2 DEF Range
<1>14. \A p, q \in 1..k : p < q => <<t[p], t[q]>> \in ByRank(S)
  <2> SUFFICES ASSUME NEW p \in 1..k, NEW q \in 1..k, p < q PROVE <<t[p], t[q]>> \in ByRank(S)
    OBVIOUS
  <2>1. sorted[p] \in places /\ sorted[q] \in places /\ <<sorted[p], sorted[q]>> \in before
    BY <1>9
  <2> QED
    BY <1>7, <1>12, <2>1
<1>15. t = Sorted(S, ByRank(S))
  BY <1>3, <1>9, <1>12, <1>13, <1>14, SortedOnly
<1> QED
  BY <1>10, <1>15 DEF S

\* The candidates of a recall, those among them that are good enough, and the
\* answer, of which the order of the rows is no part.
Ids(query, seen) == Candidates(Lexical(query, seen[1]), Vector(query, seen[2]))
Kept(query, seen) == {Candidate(query, seen, i) : i \in {j \in Ids(query, seen) : Candidate(query, seen, j).final >= MinScore}}
Finals(query, seen) == {Candidate(query, seen, i).final : i \in Ids(query, seen)}
Answer(query, seen) ==
  LET full == Sorted(Kept(query, seen), ByRank(Kept(query, seen)))
  IN  [matches |-> SubSeq(full, 1, Least(query.limit, Len(full))),
       considered |-> Cardinality(Ids(query, seen)), cleared |-> Len(full),
       best |-> Max({0} \cup Finals(query, seen))]

\* What is considered fits at one moment or the other.
LEMMA IdsFit ==
  ASSUME NEW query, NEW n \in Nat, NEW seen, IsRegistry(seen, n)
  PROVE  /\ Ids(query, seen) \subseteq 1..n /\ IsFiniteSet(Ids(query, seen))
         /\ \A i \in Ids(query, seen) : \E moment \in 1..2 : Fits(query, seen[moment][i])
<1> DEFINE lexical == Lexical(query, seen[1])
           vector == Vector(query, seen[2])
<1>1. /\ lexical \in Seq(Fitting(query, seen[1])) /\ vector \in Seq(Fitting(query, seen[2]))
      /\ Fitting(query, seen[1]) \subseteq 1..n /\ Fitting(query, seen[2]) \subseteq 1..n
  BY Retrieved
<1>2. Ids(query, seen) = Candidates(lexical, vector)
  BY DEF Ids
<1> HIDE DEF lexical, vector
<1>3. lexical \in Seq(1..n) /\ vector \in Seq(1..n)
  BY <1>1
<1>4. Ids(query, seen) \subseteq Range(lexical) \cup Range(vector)
  BY <1>2, <1>3, Considered
<1>5. Range(lexical) \subseteq Fitting(query, seen[1]) /\ Range(vector) \subseteq Fitting(query, seen[2])
  BY <1>1 DEF Range
<1>6. Ids(query, seen) \subseteq 1..n
  BY <1>1, <1>4, <1>5
<1>7. IsFiniteSet(1..n)
  BY FS_Interval
<1>8. \A i \in Ids(query, seen) : Fits(query, seen[1][i]) \/ Fits(query, seen[2][i])
  BY <1>4, <1>5 DEF Fitting
<1> QED
  BY <1>6, <1>7, <1>8, FS_Subset

\* What is kept can be ranked.
LEMMA KeptIs ==
  ASSUME NEW query, NEW n \in Nat, NEW seen, IsRegistry(seen, n)
  PROVE  Rankable(Kept(query, seen)) /\ IsFiniteSet(Kept(query, seen))
<1> DEFINE good == {j \in Ids(query, seen) : Candidate(query, seen, j).final >= MinScore}
<1>1. good \subseteq 1..n /\ IsFiniteSet(good)
  <2>1. good \subseteq Ids(query, seen)
    OBVIOUS
  <2> HIDE DEF good
  <2> QED
    BY <2>1, IdsFit, FS_Subset
<1>2. Kept(query, seen) = {Candidate(query, seen, i) : i \in good}
  BY DEF Kept
<1> HIDE DEF good
<1>3. ASSUME NEW i \in good
      PROVE  /\ Candidate(query, seen, i).id = i /\ i \in Int
             /\ Candidate(query, seen, i).final \in Int /\ Candidate(query, seen, i).good \in Int
  <2>1. i \in 1..n
    BY <1>1
  <2> QED
    BY <2>1, CandidateIs
<1>4. Rankable({Candidate(query, seen, i) : i \in good})
  <2> DEFINE S == {Candidate(query, seen, i) : i \in good}
  <2>1. ASSUME NEW a \in S PROVE \E i \in good : a = Candidate(query, seen, i)
    OBVIOUS
  <2> HIDE DEF S
  <2> QED
    BY <1>3, <2>1 DEF Rankable, S
<1>5. IsFiniteSet({Candidate(query, seen, i) : i \in good})
  <2> DEFINE f == [i \in good |-> Candidate(query, seen, i)]
             S == {Candidate(query, seen, i) : i \in good}
  <2>1. f \in Surjection(good, S)
    <3>1. f \in [good -> S] /\ \A x \in S : \E i \in good : f[i] = x
      OBVIOUS
    <3> HIDE DEF f, S
    <3> QED
      BY <3>1 DEF Surjection
  <2> HIDE DEF f, S
  <2>2. IsFiniteSet(S)
    BY <1>1, <2>1, FS_Surjection
  <2> QED
    BY <2>2 DEF S
<1> QED
  BY <1>2, <1>4, <1>5

\* One order of the rows or the other, the outcome is the answer.
LEMMA OutcomeIs ==
  ASSUME NEW query, NEW n \in Nat, NEW seen, IsRegistry(seen, n), NEW upwards \in BOOLEAN
  PROVE  Outcome(query, seen, upwards) = Answer(query, seen)
<1> DEFINE ids == Ids(query, seen)
           order == {e \in ids \X ids : IF upwards THEN e[1] < e[2] ELSE e[1] > e[2]}
           rows == Sorted(ids, order)
           candidate(i) == Candidate(query, seen, i)
           scored == [p \in DOMAIN rows |-> candidate(rows[p])]
           places == {p \in DOMAIN scored : scored[p].final >= MinScore}
           sorted == StablySorted(scored, places)
           k == Cardinality(ids)
<1>1. Outcome(query, seen, upwards) =
        [matches |-> SubSeq(sorted, 1, Least(query.limit, Len(sorted))),
         considered |-> Len(rows), cleared |-> Len(sorted),
         best |-> Max({0} \cup {scored[p].final : p \in DOMAIN scored})]
  BY DEF Outcome, Ids, Candidate
<1>2. ids \subseteq 1..n /\ IsFiniteSet(ids)
  BY IdsFit
<1> HIDE DEF ids
<1>3. Orders(ids, order)
  <2>1. \A x \in ids : x \in Int
    BY <1>2
  <2>2. \A x, y \in ids : <<x, y>> \in order <=> IF upwards THEN x < y ELSE x > y
    OBVIOUS
  <2> HIDE DEF order
  <2>3. CASE upwards
    BY <2>1, <2>2, <2>3 DEF Orders
  <2>4. CASE ~upwards
    BY <2>1, <2>2, <2>4 DEF Orders
  <2> QED
    BY <2>3, <2>4
<1> HIDE DEF order
<1>4. /\ k \in Nat /\ rows \in [1..k -> ids] /\ Range(rows) = ids
      /\ \A p, q \in 1..k : p < q => <<rows[p], rows[q]>> \in order
  BY <1>2, <1>3, SortedIs
<1> HIDE DEF rows, k
<1>5. \A p, q \in 1..k : rows[p] = rows[q] => p = q
  <2> SUFFICES ASSUME NEW p \in 1..k, NEW q \in 1..k, rows[p] = rows[q], p # q PROVE FALSE
    OBVIOUS
  <2>1. p < q \/ q < p
    BY <1>4
  <2>2. <<rows[p], rows[q]>> \in order \/ <<rows[q], rows[p]>> \in order
    BY <1>4, <2>1
  <2> QED
    BY <1>3, <1>4, <2>2 DEF Orders
<1>6. DOMAIN rows = 1..k /\ \A p \in 1..k : rows[p] \in ids
  BY <1>4
<1>7. \A i \in ids : \E p \in 1..k : rows[p] = i
  BY <1>4, <1>6 DEF Range
<1>8. \A i \in ids : candidate(i).id = i
  <2> SUFFICES ASSUME NEW i \in ids PROVE candidate(i).id = i
    OBVIOUS
  <2>1. i \in 1..n
    BY <1>2
  <2> QED
    BY <2>1, CandidateIs
<1>9. Kept(query, seen) = {candidate(i) : i \in {j \in ids : candidate(j).final >= MinScore}}
      /\ Finals(query, seen) = {candidate(i).final : i \in ids}
  BY DEF Kept, Finals, ids
<1> HIDE DEF candidate
<1>10. DOMAIN scored = 1..k /\ \A p \in 1..k : scored[p] = candidate(rows[p])
  BY <1>6
<1> HIDE DEF scored
<1>11. places \in SUBSET (1..k) /\ \A p \in places : scored[p] = candidate(rows[p]) /\ rows[p] \in ids
  BY <1>6, <1>10
<1>12. At(scored, places) = Kept(query, seen)
  <2>1. ASSUME NEW p \in places PROVE scored[p] \in Kept(query, seen)
    BY <1>9, <1>11
  <2>2. ASSUME NEW i \in ids, candidate(i).final >= MinScore PROVE candidate(i) \in At(scored, places)
    <3>1. PICK p \in 1..k : rows[p] = i
      BY <1>7
    <3>2. p \in places /\ scored[p] = candidate(i)
      BY <1>10, <2>2, <3>1
    <3> QED
      BY <3>2 DEF At
  <2> QED
    BY <1>9, <2>1, <2>2 DEF At
<1>13. {scored[p].final : p \in DOMAIN scored} = Finals(query, seen)
  BY <1>6, <1>7, <1>9, <1>10
<1> HIDE DEF places
<1>14. AllDiffer(scored, places)
  <2> SUFFICES ASSUME NEW p \in places, NEW q \in places, scored[p] = scored[q] PROVE p = q
    BY DEF AllDiffer
  <2>1. rows[p] = rows[q]
    BY <1>8, <1>11
  <2> QED
    BY <1>5, <1>11, <2>1
<1>15. sorted = Sorted(Kept(query, seen), ByRank(Kept(query, seen)))
  <2>1. Rankable(At(scored, places))
    BY <1>12, KeptIs
  <2>2. k \in Nat /\ places \in SUBSET (1..k)
    BY <1>4, <1>11
  <2>3. sorted = Sorted(At(scored, places), ByRank(At(scored, places)))
    BY <1>14, <2>1, <2>2, StablySortedIs
  <2> QED
    BY <1>12, <2>3
<1>16. Len(rows) = Cardinality(Ids(query, seen))
  <2>1. rows \in Seq(ids) /\ Len(rows) = k
    BY <1>4
  <2> QED
    BY <2>1 DEF k, ids
<1> HIDE DEF sorted
<1> QED
  BY <1>1, <1>13, <1>15, <1>16 DEF Answer

\* What is offered are the first of those kept, each before those it outranks.
LEMMA MatchesAre ==
  ASSUME NEW query, NEW n \in Nat, NEW seen, IsRegistry(seen, n), query.limit \in Nat \ {0}
  PROVE  LET answer == Answer(query, seen)
         IN  /\ answer.cleared \in Nat
             /\ \A p \in DOMAIN answer.matches : answer.matches[p] \in Kept(query, seen)
             /\ \A p, q \in DOMAIN answer.matches : p < q => Ranked(answer.matches[p], answer.matches[q])
             /\ answer.matches = <<>> <=> answer.cleared = 0
             /\ answer.cleared = 0 <=> Kept(query, seen) = {}
<1> DEFINE S == Kept(query, seen)
           full == Sorted(S, ByRank(S))
           k == Cardinality(S)
           matches == Answer(query, seen).matches
<1>1. Rankable(S) /\ IsFiniteSet(S)
  BY KeptIs
<1>2. /\ matches = SubSeq(full, 1, Least(query.limit, Len(full)))
      /\ Answer(query, seen).cleared = Len(full)
  BY DEF Answer
<1>3. \A x, y \in S : <<x, y>> \in ByRank(S) => Ranked(x, y)
  BY DEF ByRank
<1> HIDE DEF S
<1>4. Orders(S, ByRank(S))
  BY <1>1, RankedOrder
<1>5. /\ k \in Nat /\ full \in [1..k -> S] /\ Range(full) = S
      /\ \A p, q \in 1..k : p < q => <<full[p], full[q]>> \in ByRank(S)
  BY <1>1, <1>4, SortedIs
<1>6. k = 0 <=> S = {}
  BY <1>1, FS_EmptySet
<1> HIDE DEF full, k, matches
<1>7. full \in Seq(S) /\ Len(full) = k
  BY <1>5
<1>8. PICK l \in Nat : l = Least(query.limit, k) /\ l <= k /\ (l = 0 <=> k = 0)
  BY <1>5 DEF Least
<1>9. matches = SubSeq(full, 1, l)
  BY <1>2, <1>7, <1>8
<1>10. matches \in Seq(S) /\ Len(matches) = l /\ \A p \in 1..l : matches[p] = full[p]
  BY <1>5, <1>7, <1>8, <1>9
<1>11. DOMAIN matches = 1..l /\ (matches = <<>> <=> l = 0)
  BY <1>10
<1>12. ASSUME NEW p \in 1..l, NEW q \in 1..l, p < q PROVE Ranked(matches[p], matches[q])
  <2>1. p \in 1..k /\ q \in 1..k
    BY <1>5, <1>8
  <2>2. full[p] \in S /\ full[q] \in S /\ <<full[p], full[q]>> \in ByRank(S)
    BY <1>5, <1>12, <2>1
  <2> QED
    BY <1>3, <1>10, <2>2
<1>13. \A p \in 1..l : matches[p] \in S
  BY <1>10
<1> QED
  BY <1>2, <1>5, <1>6, <1>7, <1>8, <1>11, <1>12, <1>13 DEF S, matches

\* What is kept, and what is known of it.
LEMMA OfKept ==
  ASSUME NEW query, NEW n \in Nat, NEW seen, IsRegistry(seen, n), NEW m \in Kept(query, seen)
  PROVE  \E i \in Ids(query, seen) : /\ m = Candidate(query, seen, i) /\ m.final >= MinScore
                                     /\ i \in 1..n /\ m.id = i
BY IdsFit, CandidateIs DEF Kept

\* For every registry, whoever asks and whatever for: the same question gets
\* the same answer in whatever order the database returns the rows; what is
\* offered passed the hard filters when it was looked for, and can be read by
\* whoever asked; nothing less than two thirds as relevant comes before what
\* is offered after it; and what is reported as a miss was one.
THEOREM EveryRecallIsSound ==
  ASSUME NEW query, NEW n \in Nat, NEW seen, IsRegistry(seen, n), query.limit \in Nat \ {0}
  PROVE  /\ SameAnswer(query, seen) /\ OnlyTheFit(query, seen)
         /\ RelevanceWins(query, seen) /\ MissesAreMisses(query, seen)
<1> DEFINE answer == Answer(query, seen)
           matches == answer.matches
<1>1. Outcome(query, seen, TRUE) = answer /\ Outcome(query, seen, FALSE) = answer
  BY OutcomeIs
<1>2. /\ answer.cleared \in Nat
      /\ \A p \in DOMAIN matches : matches[p] \in Kept(query, seen)
      /\ \A p, q \in DOMAIN matches : p < q => Ranked(matches[p], matches[q])
      /\ matches = <<>> <=> answer.cleared = 0
      /\ answer.cleared = 0 <=> Kept(query, seen) = {}
  BY MatchesAre
<1>3. answer.best = Max({0} \cup Finals(query, seen))
  BY DEF Answer
<1> HIDE DEF answer
<1>4. SameAnswer(query, seen)
  BY <1>1 DEF SameAnswer
<1>5. OnlyTheFit(query, seen)
  <2> SUFFICES ASSUME NEW m \in Range(matches)
               PROVE  /\ \E moment \in 1..2 : Fits(query, seen[moment][m.id])
                      /\ Get(query.who, {seen[3][m.id]}) = "found"
                      /\ m.recommendation = "use" => seen[3][m.id].stat.orgs >= MinOrganizations
    BY <1>1 DEF OnlyTheFit
  <2>1. m \in Kept(query, seen)
    BY <1>2 DEF Range
  <2>2. PICK i \in Ids(query, seen) : m = Candidate(query, seen, i) /\ i \in 1..n /\ m.id = i
    BY <2>1, OfKept
  <2>3. PICK moment \in 1..2 : Fits(query, seen[moment][i])
    BY IdsFit
  <2>4. VisibleTo(query.who, seen[3][i])
    <3>1. VisibilityClause(query.who, seen[moment][i])
      BY <2>3 DEF Fits
    <3>2. moment \in 1..3 /\ 3 \in 1..3
      OBVIOUS
    <3>3. /\ seen[moment][i].visibility = seen[3][i].visibility
          /\ seen[moment][i].org = seen[3][i].org /\ seen[moment][i].author = seen[3][i].author
      BY <2>2, <3>2 DEF IsRegistry
    <3>4. VisibilityClause(query.who, seen[3][i])
      BY <3>1, <3>3 DEF VisibilityClause
    <3> QED
      BY <3>4 DEF VisibilityClause, VisibleTo
  <2>5. Get(query.who, {seen[3][i]}) = "found"
    BY <2>4 DEF Get
  <2>6. m.recommendation = "use" => seen[3][i].stat.orgs >= MinOrganizations
    BY <2>2, CandidateIs
  <2> QED
    BY <2>2, <2>3, <2>5, <2>6
<1>6. RelevanceWins(query, seen)
  <2> SUFFICES ASSUME NEW p \in DOMAIN matches, NEW q \in DOMAIN matches, p < q
               PROVE  3 * matches[p].relevance >= 2 * matches[q].relevance
    BY <1>1 DEF RelevanceWins
  <2>1. PICK i \in Ids(query, seen) : matches[p] = Candidate(query, seen, i) /\ i \in 1..n
    BY <1>2, OfKept
  <2>2. PICK j \in Ids(query, seen) :
          matches[q] = Candidate(query, seen, j) /\ j \in 1..n /\ matches[q].final >= MinScore
    BY <1>2, OfKept
  <2> DEFINE a == matches[p]
             b == matches[q]
  <2>3. Ranked(a, b)
    BY <1>2
  <2>4. PICK r \in Nat, u \in Nat : /\ r = a.relevance /\ r <= 100 /\ u <= 10000 /\ a.final = ScoreOf(r, u)
                                    /\ a.final \in Int
    <3>1. a.relevance \in 0..100 /\ a.final \in Nat /\ \E w \in Nat : w <= 10000 /\ a.final = ScoreOf(a.relevance, w)
      BY <2>1, CandidateIs
    <3> HIDE DEF a
    <3>2. a.relevance \in Nat /\ a.relevance <= 100
      BY <3>1
    <3> QED
      BY <3>1, <3>2
  <2>5. PICK s \in Nat, v \in Nat : /\ s = b.relevance /\ s <= 100 /\ v <= 10000 /\ b.final = ScoreOf(s, v)
                                    /\ b.final \in Int
    <3>1. b.relevance \in 0..100 /\ b.final \in Nat /\ \E w \in Nat : w <= 10000 /\ b.final = ScoreOf(b.relevance, w)
      BY <2>2, CandidateIs
    <3> HIDE DEF b
    <3>2. b.relevance \in Nat /\ b.relevance <= 100
      BY <3>1
    <3> QED
      BY <3>1, <3>2
  <2>6. b.final >= MinScore
    BY <2>2
  <2> HIDE DEF a, b
  <2>7. a.final >= b.final
    BY <2>3, <2>4, <2>5 DEF Ranked
  <2>8. 3 * r >= 2 * s
    <3>1. ScoreOf(r, u) >= ScoreOf(s, v) /\ ScoreOf(s, v) >= MinScore
      BY <2>4, <2>5, <2>6, <2>7
    <3>2. r \in Nat /\ r <= 100 /\ s \in Nat /\ s <= 100 /\ u \in Nat /\ u <= 10000 /\ v \in Nat /\ v <= 10000
      BY <2>4, <2>5
    <3> QED
      BY <3>1, <3>2, RelevanceCountsTwice
  <2>9. r = matches[p].relevance /\ s = matches[q].relevance
    BY <2>4, <2>5 DEF a, b
  <2> QED
    BY <2>8, <2>9
<1>7. MissesAreMisses(query, seen)
  <2>1. ASSUME Kept(query, seen) = {} PROVE answer.best < MinScore
    <3> DEFINE S == {0} \cup Finals(query, seen)
    <3>1. ASSUME NEW i \in Ids(query, seen)
          PROVE  /\ Candidate(query, seen, i).final \in Nat /\ ~(Candidate(query, seen, i).final >= MinScore)
      <4>1. Candidate(query, seen, i).final \in Nat
        BY IdsFit, CandidateIs
      <4> QED
        BY <2>1, <4>1 DEF Kept
    <3>2. ASSUME NEW x \in S PROVE x \in Nat /\ x < 3000
      <4>1. CASE x = 0
        BY <4>1
      <4>2. CASE x \in Finals(query, seen)
        BY <3>1, <4>2 DEF Finals, MinScore
      <4> QED
        BY <4>1, <4>2
    <3>3. S # {}
      OBVIOUS
    <3> HIDE DEF S
    <3>4. PICK m \in Nat : m = 3000
      OBVIOUS
    <3>5. S \in SUBSET Nat /\ \A x \in S : x <= m
      BY <3>2, <3>4
    <3>6. Max(S) \in S
      BY <3>3, <3>5, LargestOf
    <3>7. answer.best = Max(S)
      BY <1>3 DEF S
    <3>8. Max(S) < 3000
      BY <3>2, <3>6
    <3> QED
      BY <3>7, <3>8 DEF MinScore
  <2> QED
    BY <1>1, <1>2, <2>1 DEF MissesAreMisses
<1> QED
  BY <1>4, <1>5, <1>6, <1>7

-----------------------------------------------------------------------------
(* The calendar capabilities.                                              *)

\* Some months on, the day is the anchor's or the last of the month.
LEMMA AddMonthsIs ==
  ASSUME NEW start, IsDay(start), NEW k \in Nat
  PROVE  LET date == AddMonths(start, k)
         IN  /\ date.year * 12 + date.month = start.year * 12 + start.month + k
             /\ date.day \in 1..31 /\ date.day <= start.day
             /\ date.day = start.day \/ date.day = DaysIn(date.year, date.month)
<1> DEFINE total == start.year * 12 + (start.month - 1) + k
           days == DaysIn(total \div 12, (total % 12) + 1)
           date == AddMonths(start, k)
<1>1. start.year \in Nat /\ start.month \in 1..12 /\ start.day \in 1..31
  BY DEF IsDay
<1>2. PICK t \in Nat : t = total
  BY <1>1
<1>3. (t \div 12) * 12 + (t % 12) = t /\ t \div 12 \in Nat /\ t % 12 \in 0..11
  OBVIOUS
<1>4. days \in 28..31
  BY DEF DaysIn
<1>5. date = [year |-> total \div 12, month |-> (total % 12) + 1, day |-> Min({start.day, days})]
  BY DEF AddMonths
<1> HIDE DEF total, days, date
<1>6. Min({start.day, days}) = IF start.day <= days THEN start.day ELSE days
  BY <1>1, <1>4 DEF Min
<1>7. date.year = t \div 12 /\ date.month = (t % 12) + 1 /\ date.day = IF start.day <= days THEN start.day ELSE days
  BY <1>2, <1>5, <1>6
<1>8. t + 1 = start.year * 12 + start.month + k
  BY <1>1, <1>2 DEF total
<1>9. date.year * 12 + date.month = start.year * 12 + start.month + k
  BY <1>3, <1>7, <1>8
<1>10. days = DaysIn(date.year, date.month)
  BY <1>2, <1>7 DEF days
<1>11. date.day \in 1..31 /\ date.day <= start.day /\ (date.day = start.day \/ date.day = days)
  BY <1>1, <1>4, <1>7
<1> QED
  BY <1>9, <1>10, <1>11 DEF date

\* From whatever day, however often and however far apart: the day of the month
\* survives a short month, and the dates go forward.
THEOREM EveryAnchorSurvives ==
  ASSUME NEW start, IsDay(start), NEW interval \in Nat \ {0}, NEW count \in Nat
  PROVE  AnchorSurvives(start, interval, count)
<1> DEFINE dates == Occurrences(start, interval, count)
           order(d) == (d.year * 12 + d.month) * 31 + d.day
<1> SUFFICES ASSUME NEW i \in 2..count
             PROVE  /\ order(dates[i - 1]) < order(dates[i])
                    /\ dates[i].day = start.day \/ dates[i].day = DaysIn(dates[i].year, dates[i].month)
                    /\ dates[i].day <= start.day
  BY DEF AnchorSurvives
<1>1. PICK k \in Nat, l \in Nat : k = interval * (i - 1) /\ l = interval * ((i - 1) - 1) /\ l < k
  <2>1. \A n \in Nat : interval * n \in Nat /\ interval * (n + 1) = interval * n + interval
    OBVIOUS
  <2>2. i - 1 \in Nat /\ (i - 1) - 1 \in Nat /\ ((i - 1) - 1) + 1 = i - 1
    OBVIOUS
  <2>3. interval * (i - 1) = interval * ((i - 1) - 1) + interval
    BY <2>1, <2>2
  <2> QED
    BY <2>1, <2>2, <2>3
<1>2. dates[i] = AddMonths(start, k) /\ dates[i - 1] = AddMonths(start, l)
  <2>1. i \in 1..count /\ i - 1 \in 1..count
    OBVIOUS
  <2> QED
    BY <1>1, <2>1 DEF Occurrences
<1> HIDE DEF dates
<1>3. PICK m \in Nat : m = start.year * 12 + start.month
  BY DEF IsDay
<1>4. /\ dates[i].year * 12 + dates[i].month = m + k
      /\ dates[i].day \in 1..31 /\ dates[i].day <= start.day
      /\ dates[i].day = start.day \/ dates[i].day = DaysIn(dates[i].year, dates[i].month)
  BY <1>2, <1>3, AddMonthsIs
<1>5. dates[i - 1].year * 12 + dates[i - 1].month = m + l /\ dates[i - 1].day \in 1..31
  BY <1>2, <1>3, AddMonthsIs
<1>6. order(dates[i]) = (m + k) * 31 + dates[i].day /\ order(dates[i - 1]) = (m + l) * 31 + dates[i - 1].day
  BY <1>4, <1>5
<1> HIDE DEF order
<1>7. order(dates[i - 1]) < order(dates[i])
  BY <1>1, <1>4, <1>5, <1>6
<1> QED
  BY <1>4, <1>7

-----------------------------------------------------------------------------
(* What a date of numbers means.                                           *)

\* What is answered of a value.
AnswerOf(value, iso, ambiguous) ==
  [iso |-> iso, ambiguous |-> ambiguous, timed |-> ReadingsOf(value) # <<>> /\ value.rest = "time"]

\* What interpret makes of one reading, of two, and of none.
LEMMA NoReading ==
  ASSUME NEW value, NEW prefer, ReadingsOf(value) = <<>>
  PROVE  Interpret(value, prefer) = AnswerOf(value, <<>>, FALSE)
BY DEF Interpret, AnswerOf

\* One reading is the date, whatever is preferred.
LEMMA OneReading ==
  ASSUME NEW value, NEW prefer, NEW o, NEW d, ReadingsOf(value) = <<[order |-> o, date |-> d]>>
  PROVE  Interpret(value, prefer) = AnswerOf(value, d, FALSE)
<1> DEFINE r == <<[order |-> o, date |-> d]>>
<1>1. r # <<>> /\ Len(r) = 1 /\ r[1].date = d
  OBVIOUS
<1>2. ReadingsOf(value) = r
  OBVIOUS
<1> HIDE DEF r
<1>3. PICK one : one = ReadingsOf(value)[1].date
  OBVIOUS
<1>4. ReadingsOf(value) # <<>> /\ Len(ReadingsOf(value)) = 1
  BY <1>1, <1>2
<1>5. Interpret(value, prefer) = AnswerOf(value, one, FALSE)
  BY <1>3, <1>4 DEF Interpret, AnswerOf
<1> QED
  BY <1>1, <1>2, <1>3, <1>5

\* The two readings of a date of numbers.
Both(d, e) == <<[order |-> "dmy", date |-> d], [order |-> "mdy", date |-> e]>>

\* Of two readings one is the date only if it is preferred.
LEMMA TwoReadings ==
  ASSUME NEW value, NEW d, NEW e, ReadingsOf(value) = Both(d, e)
  PROVE  /\ Interpret(value, "none") = AnswerOf(value, <<>>, TRUE)
         /\ Interpret(value, "dmy") = AnswerOf(value, d, FALSE)
         /\ Interpret(value, "mdy") = AnswerOf(value, e, FALSE)
<1> DEFINE x == [order |-> "dmy", date |-> d]
           y == [order |-> "mdy", date |-> e]
           r == <<x, y>>
           chosen(prefer) == {reading \in Range(r) : reading.order = prefer}
<1>1. r # <<>> /\ Len(r) = 2 /\ Range(r) = {x, y}
  BY DEF Range
<1>2. ReadingsOf(value) = r
  BY DEF Both
<1>3. x.order = "dmy" /\ y.order = "mdy" /\ x.date = d /\ y.date = e
  OBVIOUS
<1> HIDE DEF x, y
<1>4. chosen("none") = {} /\ chosen("dmy") = {x} /\ chosen("mdy") = {y}
  BY <1>1, <1>3
<1> HIDE DEF r
<1>5. (CHOOSE reading \in {x} : TRUE) = x /\ (CHOOSE reading \in {y} : TRUE) = y
  OBVIOUS
<1>6. ASSUME NEW prefer, NEW z, chosen(prefer) = {z}, (CHOOSE reading \in {z} : TRUE) = z
      PROVE  Interpret(value, prefer) = AnswerOf(value, z.date, FALSE)
  <2>1. (CHOOSE reading \in chosen(prefer) : TRUE) = z
    BY <1>6
  <2>2. Len(r) # 1 /\ Len(r) = 2 /\ chosen(prefer) # {}
    BY <1>1, <1>6
  <2> DEFINE w == CHOOSE reading \in chosen(prefer) : TRUE
  <2>3. Interpret(value, prefer) = AnswerOf(value, w.date, FALSE)
    BY <1>1, <1>2, <2>2 DEF Interpret, AnswerOf
  <2> QED
    BY <2>1, <2>3
<1>7. Interpret(value, "none") = AnswerOf(value, <<>>, TRUE)
  BY <1>1, <1>2, <1>4 DEF Interpret, AnswerOf
<1> HIDE DEF chosen
<1> QED
  BY <1>3, <1>4, <1>5, <1>6, <1>7

\* Day and month exchanged name a day as well, unless the day exceeds twelve.
LEMMA Exchanged ==
  ASSUME NEW year \in Nat, NEW a \in Nat, NEW b \in Nat,
         Build(year, b, a) # <<>>, Build(year, a, b) = <<>>
  PROVE  a > 12
<1>1. year \in 1..9999 /\ b \in 1..12 /\ a \in 1..31
  BY DEF Build
<1>2. DaysIn(year, a) >= 28 /\ DaysIn(year, a) \in Nat
  BY DEF DaysIn
<1>3. CASE a <= 12
  <2>1. a \in 1..12 /\ b \in 1..31 /\ b <= DaysIn(year, a)
    BY <1>1, <1>2, <1>3
  <2> QED
    BY <1>1, <2>1 DEF Build
<1> QED
  BY <1>1, <1>3

\* The days a value names, and the value with its first two numbers exchanged.
DaysOf(value) ==
  CASE value.form = "ymd" -> {Build(value.a, value.b, value.c)}
    [] value.form = "numeric" -> {Build(ExpandYear(value.c, value.short), value.a, value.b),
                                  Build(ExpandYear(value.c, value.short), value.b, value.a)}
    [] value.form = "textual" -> {Build(value.c, value.b, value.a)}
NamedBy(value) == IF value.rest = "other" THEN {} ELSE DaysOf(value) \ {<<>>}
Mirrored(value) == [value EXCEPT !.a = value.b, !.b = value.a]

\* No day, one day or two days are named by a value, by as many readings.
NoDay(value) == ReadingsOf(value) = <<>> /\ NamedBy(value) = {}
OneDay(value, o, d) ==
  /\ ReadingsOf(value) = <<[order |-> o, date |-> d]>> /\ NamedBy(value) = {d} /\ d # <<>>
  /\ o = "dmy" => value.a > 12
  /\ o = "mdy" => value.b > 12
TwoDays(value, d, e) ==
  /\ ReadingsOf(value) = Both(d, e) /\ NamedBy(value) = {d, e} /\ d # e /\ d # <<>> /\ e # <<>>
  /\ ReadingsOf(Mirrored(value)) = Both(e, d) /\ Mirrored(value).rest = value.rest

\* A date with the year first or the month by its name has one reading.
LEMMA OneOrder ==
  ASSUME NEW value, IsDate(value), value.rest # "other", NEW o \in {"ymd", "textual"}, NEW d,
         ReadingsOf(value) = IfRead([order |-> o, date |-> d]), DaysOf(value) = {d}
  PROVE  NoDay(value) \/ OneDay(value, o, d)
<1>1. CASE d = <<>>
  BY <1>1 DEF IfRead, NoDay, NamedBy
<1>2. CASE d # <<>>
  <2>1. NamedBy(value) = {d}
    BY <1>2 DEF NamedBy
  <2>2. ReadingsOf(value) = <<[order |-> o, date |-> d]>>
    BY <1>2 DEF IfRead
  <2> QED
    BY <1>2, <2>1, <2>2 DEF OneDay
<1> QED
  BY <1>1, <1>2

\* One reading and another are two, and one and none is one.
LEMMA Joined ==
  ASSUME NEW p, NEW q
  PROVE  <<p>> \o <<q>> = <<p, q>> /\ <<p>> \o <<>> = <<p>>
<1>1. <<p>> \o <<q>> = <<p, q>>
  <2> DEFINE r == <<p>> \o <<q>>
  <2>1. <<p>> \in Seq({p, q}) /\ <<q>> \in Seq({p, q})
    OBVIOUS
  <2>2. r \in Seq({p, q}) /\ Len(r) = 2 /\ r[1] = p /\ r[2] = q
    BY <2>1
  <2> HIDE DEF r
  <2>3. r = <<p, q>>
    BY <2>2
  <2> QED
    BY <2>3 DEF r
<1>2. <<p>> \in Seq({p})
  OBVIOUS
<1> QED
  BY <1>1, <1>2, ConcatEmptySeq

\* Two orders of numbers have the readings that name a day, once for each day.
LEMMA TwoOrders ==
  ASSUME NEW value, IsDate(value), value.rest # "other", value.form = "numeric"
  PROVE  \/ NoDay(value)
         \/ \E o, d : OneDay(value, o, d)
         \/ \E d, e : TwoDays(value, d, e)
<1> DEFINE year == ExpandYear(value.c, value.short)
           d == Build(year, value.b, value.a)
           e == Build(year, value.a, value.b)
           x == [order |-> "dmy", date |-> d]
           y == [order |-> "mdy", date |-> e]
           w == [order |-> "either", date |-> d]
           v == Mirrored(value)
<1>1. year \in Nat /\ value.a \in Nat /\ value.b \in Nat
  <2>1. value.c \in Nat /\ value.a \in Nat /\ value.b \in Nat /\ value.short \in BOOLEAN
    BY DEF IsDate
  <2>2. CASE value.short
    BY <2>1, <2>2 DEF ExpandYear
  <2>3. CASE ~value.short
    BY <2>1, <2>3 DEF ExpandYear
  <2> QED
    BY <2>1, <2>2, <2>3
<1>2. ReadingsOf(value) = IF d = e THEN IfRead(w) ELSE IfRead(x) \o IfRead(y)
  BY DEF ReadingsOf, NumericReadings
<1>3. /\ v.form = "numeric" /\ v.rest = value.rest /\ v.a = value.b /\ v.b = value.a
      /\ v.c = value.c /\ v.short = value.short
  <2>1. PICK f, a, b, c, s, r : value = [form |-> f, a |-> a, b |-> b, c |-> c, short |-> s, rest |-> r]
    BY DEF IsDate
  <2>2. v = [form |-> f, a |-> b, b |-> a, c |-> c, short |-> s, rest |-> r]
    <3>1. value.a = a /\ value.b = b
      BY <2>1
    <3>2. v = [value EXCEPT !.a = b, !.b = a]
      BY <3>1 DEF Mirrored
    <3> HIDE DEF v
    <3> QED
      BY <2>1, <3>2
  <2> HIDE DEF v
  <2> QED
    BY <2>1, <2>2
<1>4. d # e => ReadingsOf(v) = IfRead([order |-> "dmy", date |-> e]) \o IfRead([order |-> "mdy", date |-> d])
  <2> HIDE DEF v
  <2> QED
    BY <1>3 DEF ReadingsOf, NumericReadings
<1>5. NamedBy(value) = {d, e} \ {<<>>}
  BY DEF NamedBy, DaysOf
<1>6. /\ d # <<>> /\ e = <<>> => value.a > 12
      /\ e # <<>> /\ d = <<>> => value.b > 12
  <2> HIDE DEF year
  <2> QED
    BY <1>1, Exchanged
<1> HIDE DEF d, e, v
<1>7. CASE d = e /\ d = <<>>
  BY <1>2, <1>5, <1>7 DEF NoDay, IfRead
<1>8. CASE d = e /\ d # <<>>
  <2>1. OneDay(value, "either", d)
    BY <1>2, <1>5, <1>8 DEF OneDay, IfRead
  <2> QED
    BY <2>1
<1>9. CASE d # e /\ e = <<>>
  <2>1. IfRead(x) = <<x>> /\ IfRead(y) = <<>>
    BY <1>9 DEF IfRead
  <2>2. OneDay(value, "dmy", d)
    <3>1. ReadingsOf(value) = <<x>>
      BY <1>2, <1>9, Joined, <2>1
    <3> QED
      BY <1>5, <1>6, <1>9, <3>1 DEF OneDay
  <2> QED
    BY <2>2
<1>10. CASE d # e /\ d = <<>>
  <2>1. IfRead(x) = <<>> /\ IfRead(y) = <<y>>
    BY <1>10 DEF IfRead
  <2>2. OneDay(value, "mdy", e)
    BY <1>2, <1>5, <1>6, <1>10, <2>1, SMTT(30) DEF OneDay
  <2> QED
    BY <2>2
<1>11. CASE d # e /\ d # <<>> /\ e # <<>>
  <2>1. IfRead(x) = <<x>> /\ IfRead(y) = <<y>>
    BY <1>11 DEF IfRead
  <2>2. ReadingsOf(value) = Both(d, e)
    BY <1>2, <1>11, Joined, <2>1 DEF Both
  <2>3. ReadingsOf(v) = Both(e, d)
    BY <1>4, <1>11, Joined DEF Both, IfRead
  <2>4. NamedBy(value) = {d, e}
    BY <1>5, <1>11
  <2>5. TwoDays(value, d, e)
    BY <1>3, <1>11, <2>2, <2>3, <2>4 DEF TwoDays, v
  <2> QED
    BY <2>5
<1> QED
  BY <1>7, <1>8, <1>9, <1>10, <1>11

\* Any value names no day, one or two.
LEMMA DaysAreRead ==
  ASSUME NEW value, IsDate(value)
  PROVE  \/ NoDay(value)
         \/ \E o, d : OneDay(value, o, d)
         \/ \E d, e : TwoDays(value, d, e)
<1>1. CASE value.rest = "other"
  BY <1>1 DEF NoDay, NamedBy, ReadingsOf
<1>2. CASE value.rest # "other" /\ value.form = "ymd"
  <2> DEFINE d == Build(value.a, value.b, value.c)
  <2>1. ReadingsOf(value) = IfRead([order |-> "ymd", date |-> d]) /\ DaysOf(value) = {d}
    BY <1>2 DEF ReadingsOf, NumericReadings, DaysOf
  <2> HIDE DEF d
  <2>2. NoDay(value) \/ OneDay(value, "ymd", d)
    BY <1>2, <2>1, OneOrder
  <2> QED
    BY <2>2
<1>3. CASE value.rest # "other" /\ value.form = "textual"
  <2> DEFINE d == Build(value.c, value.b, value.a)
  <2>1. ReadingsOf(value) = IfRead([order |-> "textual", date |-> d]) /\ DaysOf(value) = {d}
    BY <1>3 DEF ReadingsOf, TextualReadings, DaysOf
  <2> HIDE DEF d
  <2>2. NoDay(value) \/ OneDay(value, "textual", d)
    BY <1>3, <2>1, OneOrder
  <2> QED
    BY <2>2
<1>4. CASE value.rest # "other" /\ value.form = "numeric"
  BY <1>4, TwoOrders
<1> QED
  BY <1>1, <1>2, <1>3, <1>4 DEF IsDate

\* Any value date_parse reads: a date is given just when every reading that
\* names a day names that one, and a preference decides only between two.
THEOREM EveryDateIsRead ==
  ASSUME NEW value, IsDate(value)
  PROVE  DatesAreNotGuessed(value)
<1> DEFINE none == Interpret(value, "none")
           named == NamedBy(value)
           count == Cardinality(named)
           readings == ReadingsOf(value)
           Decides == /\ IF count = 1 THEN {none.iso} = named ELSE none.iso = <<>>
                      /\ none.ambiguous <=> count = 2
                      /\ ~none.ambiguous => \A prefer \in {"dmy", "mdy"} : Interpret(value, prefer) = none
                      /\ none.ambiguous =>
                           /\ {Interpret(value, prefer).iso : prefer \in {"dmy", "mdy"}} = named
                           /\ Interpret(value, "dmy") = Interpret(Mirrored(value), "mdy")
                      /\ none.timed => named # {}
           Alone == \A i \in DOMAIN readings :
                      Len(readings) = 1 /\ readings[i].order \in {"dmy", "mdy"} =>
                        (IF readings[i].order = "dmy" THEN value.a ELSE value.b) > 12
<1>1. ASSUME NoDay(value) PROVE Decides /\ Alone
  <2>1. named = {} /\ count = 0 /\ readings = <<>>
    BY <1>1, FS_EmptySet DEF NoDay
  <2>2. \A prefer : Interpret(value, prefer) = AnswerOf(value, <<>>, FALSE)
    BY <2>1, NoReading
  <2>3. none.iso = <<>> /\ ~none.ambiguous /\ ~none.timed
    <3>1. none = AnswerOf(value, <<>>, FALSE)
      BY <2>2
    <3>2. AnswerOf(value, <<>>, FALSE).timed = (ReadingsOf(value) # <<>> /\ value.rest = "time")
      BY DEF AnswerOf
    <3>3. ~AnswerOf(value, <<>>, FALSE).timed
      BY <2>1, <3>2
    <3>4. AnswerOf(value, <<>>, FALSE).iso = <<>> /\ ~AnswerOf(value, <<>>, FALSE).ambiguous
      BY DEF AnswerOf
    <3> HIDE DEF none
    <3> QED
      BY <3>1, <3>3, <3>4
  <2>4. \A prefer : Interpret(value, prefer) = none
    BY <2>2
  <2> HIDE DEF none, named, count
  <2>5. Decides
    BY <2>1, <2>3, <2>4
  <2>6. Alone
    BY <2>1
  <2> HIDE DEF Decides, Alone
  <2> QED
    BY <2>5, <2>6
<1>2. ASSUME NEW o, NEW d, OneDay(value, o, d) PROVE Decides /\ Alone
  <2>1. named = {d} /\ count = 1 /\ readings = <<[order |-> o, date |-> d]>> /\ d # <<>>
    BY <1>2, FS_Singleton DEF OneDay
  <2>2. \A prefer : Interpret(value, prefer) = AnswerOf(value, d, FALSE)
    BY <2>1, OneReading
  <2>3. none.iso = d /\ ~none.ambiguous
    BY <2>2 DEF AnswerOf
  <2>4. \A prefer : Interpret(value, prefer) = none
    BY <2>2
  <2>5. DOMAIN readings = {1} /\ readings[1].order = o
    BY <2>1
  <2> HIDE DEF none, named, count, readings
  <2>6. Decides
    BY <2>1, <2>3, <2>4
  <2>7. Alone
    BY <1>2, <2>5 DEF OneDay
  <2> HIDE DEF Decides, Alone
  <2> QED
    BY <2>6, <2>7
<1>3. ASSUME NEW d, NEW e, TwoDays(value, d, e) PROVE Decides /\ Alone
  <2>1. named = {d, e} /\ d # e /\ readings = Both(d, e) /\ Len(readings) = 2
    BY <1>3 DEF TwoDays, Both
  <2>2. count = 2
    <3>1. IsFiniteSet({e}) /\ Cardinality({e}) = 1
      BY FS_Singleton
    <3>2. d \notin {e} /\ named = {e} \cup {d}
      BY <2>1
    <3> QED
      BY <3>1, <3>2, FS_AddElement
  <2>3. /\ none = AnswerOf(value, <<>>, TRUE)
        /\ Interpret(value, "dmy") = AnswerOf(value, d, FALSE)
        /\ Interpret(value, "mdy") = AnswerOf(value, e, FALSE)
    BY <2>1, TwoReadings
  <2>4. ReadingsOf(Mirrored(value)) = Both(e, d) /\ Mirrored(value).rest = value.rest
    BY <1>3 DEF TwoDays
  <2>5. Interpret(Mirrored(value), "mdy") = AnswerOf(Mirrored(value), d, FALSE)
    BY <2>4, TwoReadings
  <2>6. AnswerOf(Mirrored(value), d, FALSE) = AnswerOf(value, d, FALSE)
    <3>1. ReadingsOf(Mirrored(value)) # <<>> /\ ReadingsOf(value) # <<>>
      BY <2>1, <2>4 DEF Both
    <3> QED
      BY <2>4, <3>1 DEF AnswerOf
  <2>7. none.iso = <<>> /\ none.ambiguous
    BY <2>3 DEF AnswerOf
  <2>8. Interpret(value, "dmy").iso = d /\ Interpret(value, "mdy").iso = e
    BY <2>3 DEF AnswerOf
  <2>9. Interpret(value, "dmy") = Interpret(Mirrored(value), "mdy")
    BY <2>3, <2>5, <2>6
  <2>10. {Interpret(value, prefer).iso : prefer \in {"dmy", "mdy"}} = {d, e}
    BY <2>8
  <2> HIDE DEF none, named, count, readings
  <2>11. Decides
    BY <2>1, <2>2, <2>7, <2>9, <2>10, SMTT(30)
  <2>12. Alone
    BY <2>1
  <2> HIDE DEF Decides, Alone
  <2> QED
    BY <2>11, <2>12
<1>4. Decides /\ Alone
  <2> HIDE DEF Decides, Alone
  <2> QED
    BY <1>1, <1>2, <1>3, DaysAreRead
<1>5. (Decides /\ Alone) = DatesAreNotGuessed(value)
  BY DEF DatesAreNotGuessed, NamedBy, DaysOf, Mirrored
<1> HIDE DEF Decides, Alone
<1> QED
  BY <1>4, <1>5

-----------------------------------------------------------------------------
(* Zones and clocks.                                                       *)

\* A rising list of times, and how many of them are past at a time.
IsRising(T, n) == T \in [1..n -> Int] /\ \A i \in 1..(n - 1) : T[i] < T[i + 1]
Between(T, n, t, k) == /\ k \in 0..n
                       /\ k > 0 => T[k] <= t
                       /\ k < n => t < T[k + 1]

\* So many of a rising list are past, and these are the first ones.
LEMMA SomePast ==
  ASSUME NEW n \in Nat, NEW T, IsRising(T, n), NEW t \in Int
  PROVE  \E k \in 0..n : Between(T, n, t, k)
<1> DEFINE Some == {m \in Nat : m <= n => \E k \in 0..m : Between(T, m, t, k)}
<1>1. 0 \in Some
  <2>1. 0 \in 0..0 /\ Between(T, 0, t, 0)
    BY DEF Between
  <2> QED
    BY <2>1
<1>2. ASSUME NEW m \in Nat, m \in Some PROVE m + 1 \in Some
  <2> SUFFICES ASSUME m + 1 <= n PROVE \E k \in 0..(m + 1) : Between(T, m + 1, t, k)
    OBVIOUS
  <2>1. PICK k \in 0..m : Between(T, m, t, k)
    BY <1>2
  <2>2. T[m + 1] \in Int /\ (m > 0 => T[m] \in Int /\ T[m] < T[m + 1])
    BY DEF IsRising
  <2>3. CASE k < m
    <3>1. k + 1 \in 1..m /\ t < T[k + 1]
      BY <2>1, <2>3 DEF Between
    <3>2. Between(T, m + 1, t, k)
      BY <2>1, <2>3 DEF Between
    <3> QED
      BY <3>2
  <2>4. CASE k = m /\ T[m + 1] <= t
    <3>1. Between(T, m + 1, t, m + 1)
      BY <2>4 DEF Between
    <3> QED
      BY <3>1
  <2>5. CASE k = m /\ t < T[m + 1]
    <3>1. Between(T, m + 1, t, m)
      BY <2>1, <2>5 DEF Between
    <3> QED
      BY <3>1
  <2> QED
    BY <2>2, <2>3, <2>4, <2>5
<1> HIDE DEF Some
<1>3. n \in Some
  BY <1>1, <1>2, EachNatural
<1> QED
  BY <1>3 DEF Some

\* What is past of a rising list is its beginning.
LEMMA PastIs ==
  ASSUME NEW n \in Nat, NEW T, IsRising(T, n), NEW t \in Int, NEW k, Between(T, n, t, k)
  PROVE  \A i \in 1..n : T[i] <= t <=> i <= k
<1>1. k \in 0..n
  BY DEF Between
<1> DEFINE Low == {m \in Nat : m < k => T[k - m] <= t}
           High == {m \in Nat : k + 1 + m <= n => t < T[k + 1 + m]}
<1>2. \A m \in Nat : m \in Low
  <2>1. 0 \in Low
    BY <1>1 DEF Between
  <2>2. ASSUME NEW m \in Nat, m \in Low PROVE m + 1 \in Low
    <3> SUFFICES ASSUME m + 1 < k PROVE T[k - (m + 1)] <= t
      OBVIOUS
    <3>1. T[k - m] <= t
      BY <1>1, <2>2
    <3>2. PICK i \in 1..(n - 1) : i = k - (m + 1)
      BY <1>1
    <3>3. T[i] < T[i + 1] /\ T[i] \in Int /\ T[i + 1] \in Int /\ i + 1 = k - m
      BY <1>1, <3>2 DEF IsRising
    <3> QED
      BY <3>1, <3>2, <3>3
  <2> HIDE DEF Low
  <2> QED
    BY <2>1, <2>2, EachNatural
<1>3. \A m \in Nat : m \in High
  <2>1. 0 \in High
    BY <1>1 DEF Between
  <2>2. ASSUME NEW m \in Nat, m \in High PROVE m + 1 \in High
    <3> SUFFICES ASSUME k + 1 + (m + 1) <= n PROVE t < T[k + 1 + (m + 1)]
      OBVIOUS
    <3>1. t < T[k + 1 + m]
      BY <1>1, <2>2
    <3>2. PICK i \in 1..(n - 1) : i = k + 1 + m
      BY <1>1
    <3>3. T[i] < T[i + 1] /\ T[i] \in Int /\ T[i + 1] \in Int /\ i + 1 = k + 1 + (m + 1)
      BY <1>1, <3>2 DEF IsRising
    <3> QED
      BY <3>1, <3>2, <3>3
  <2> HIDE DEF High
  <2> QED
    BY <2>1, <2>2, EachNatural
<1>4. ASSUME NEW i \in 1..n PROVE T[i] <= t <=> i <= k
  <2>1. T[i] \in Int
    BY DEF IsRising
  <2>2. CASE i <= k
    <3>1. PICK m \in Nat : m = k - i
      BY <1>1, <2>2
    <3>2. m < k /\ k - m = i
      BY <1>1, <3>1
    <3> QED
      BY <1>2, <2>2, <3>2
  <2>3. CASE i > k
    <3>1. PICK m \in Nat : m = i - (k + 1)
      BY <1>1, <2>3
    <3>2. k + 1 + m <= n /\ k + 1 + m = i
      BY <1>1, <3>1
    <3>3. t < T[i]
      BY <1>3, <3>2
    <3> QED
      BY <1>1, <2>1, <2>3, <3>3
  <2> QED
    BY <1>1, <2>2, <2>3
<1> QED
  BY <1>4

\* The offset that goes with it.
LEMMA LastIs ==
  ASSUME NEW n \in Nat, NEW zone, IsZone(zone, n), NEW T, IsRising(T, n), NEW t \in Int,
         NEW k, Between(T, n, t, k)
  PROVE  LastOf(zone, {i \in 1..n : T[i] <= t}) = OffsetAfter(zone, k)
<1> DEFINE past == {i \in 1..n : T[i] <= t}
<1>1. k \in 0..n
  BY DEF Between
<1>2. past \in SUBSET (1..n) /\ \A i \in 1..n : i \in past <=> i <= k
  BY PastIs
<1> HIDE DEF past
<1>3. CASE k = 0
  <2>1. past = {}
    BY <1>2, <1>3
  <2> QED
    BY <1>3, <2>1 DEF LastOf, OffsetAfter, past
<1>4. CASE k > 0
  <2>1. k \in past /\ past # {}
    BY <1>1, <1>2, <1>4
  <2>2. Max(past) \in past /\ \A y \in past : Max(past) >= y
    BY <1>2, <2>1, LastOne
  <2>3. PICK x \in 1..n : x = Max(past) /\ x \in past /\ x >= k
    BY <1>2, <2>1, <2>2
  <2>4. x <= k
    BY <1>2, <2>3
  <2>5. Max(past) = k
    BY <1>1, <2>3, <2>4
  <2> QED
    BY <1>4, <2>1, <2>5 DEF LastOf, OffsetAfter, past
<1> QED
  BY <1>1, <1>3, <1>4

\* When the transitions happen, and from which clock reading on they count for
\* the first or for the second time that a clock shows an hour.
Ats(zone, n) == [i \in 1..n |-> zone.changes[i].at]
Turns(zone, n, fold) ==
  [i \in 1..n |-> zone.changes[i].at +
     (IF (OffsetAfter(zone, i - 1) < OffsetAfter(zone, i)) = (fold = 0)
      THEN OffsetAfter(zone, i) ELSE OffsetAfter(zone, i - 1))]

\* Offsets are numbers, and a jump is no less than what it moves.
LEMMA Offsets ==
  ASSUME NEW n, NEW zone, IsZone(zone, n)
  PROVE  /\ n \in Nat
         /\ \A k \in 0..n : OffsetAfter(zone, k) \in Int
         /\ \A i \in 1..n : zone.changes[i].at \in Int
         /\ \A i \in 1..n : /\ Jump(zone, i) \in Nat
                            /\ OffsetAfter(zone, i) - OffsetAfter(zone, i - 1) <= Jump(zone, i)
                            /\ OffsetAfter(zone, i - 1) - OffsetAfter(zone, i) <= Jump(zone, i)
         /\ \A i \in 1..(n - 1) :
              zone.changes[i].at + Jump(zone, i) + Jump(zone, i + 1) < zone.changes[i + 1].at
<1>1. n \in Nat /\ \A i \in 1..n : zone.changes[i].at \in Int
  BY DEF IsZone
<1>2. \A k \in 0..n : OffsetAfter(zone, k) \in Int
  BY DEF IsZone, OffsetAfter
<1>3. ASSUME NEW i \in 1..n
      PROVE  /\ Jump(zone, i) \in Nat
             /\ OffsetAfter(zone, i) - OffsetAfter(zone, i - 1) <= Jump(zone, i)
             /\ OffsetAfter(zone, i - 1) - OffsetAfter(zone, i) <= Jump(zone, i)
  <2>1. i - 1 \in 0..n /\ i \in 0..n
    BY <1>1
  <2>2. PICK x \in Int, y \in Int : x = OffsetAfter(zone, i) /\ y = OffsetAfter(zone, i - 1)
    BY <1>2, <2>1
  <2>3. Jump(zone, i) = Magnitude(x - y)
    BY <2>2 DEF Jump
  <2>4. Magnitude(x - y) \in Nat /\ x - y <= Magnitude(x - y) /\ y - x <= Magnitude(x - y)
    BY DEF Magnitude
  <2> QED
    BY <2>2, <2>3, <2>4
<1>4. \A i \in 1..(n - 1) :
        zone.changes[i].at + Jump(zone, i) + Jump(zone, i + 1) < zone.changes[i + 1].at
  BY DEF IsZone
<1> QED
  BY <1>1, <1>2, <1>3, <1>4

\* One transition and the next one, in numbers: when they happen, how far they
\* jump, and the offsets before, between and after them.
Jumps(zone, i, p, q, g, h, a, b, c) ==
  /\ p = zone.changes[i].at /\ q = zone.changes[i + 1].at /\ p + g + h < q
  /\ a = OffsetAfter(zone, i - 1) /\ b = OffsetAfter(zone, i) /\ c = OffsetAfter(zone, i + 1)
  /\ b - a <= g /\ a - b <= g /\ c - b <= h /\ b - c <= h

\* There are such numbers.
LEMMA TwoJumps ==
  ASSUME NEW n, NEW zone, IsZone(zone, n), NEW i \in 1..(n - 1)
  PROVE  \E p \in Int, q \in Int, g \in Nat, h \in Nat, a \in Int, b \in Int, c \in Int :
           Jumps(zone, i, p, q, g, h, a, b, c)
<1>1. n \in Nat
  BY Offsets
<1>2. i \in 1..n /\ i + 1 \in 1..n /\ i - 1 \in 0..n /\ i \in 0..n /\ i + 1 \in 0..n /\ (i + 1) - 1 = i
  BY <1>1
<1>3. PICK p \in Int, q \in Int : p = zone.changes[i].at /\ q = zone.changes[i + 1].at
  BY <1>2, Offsets
<1>4. PICK a \in Int, b \in Int, c \in Int :
        a = OffsetAfter(zone, i - 1) /\ b = OffsetAfter(zone, i) /\ c = OffsetAfter(zone, i + 1)
  BY <1>2, Offsets
<1>5. PICK g \in Nat : g = Jump(zone, i) /\ b - a <= g /\ a - b <= g
  BY <1>2, <1>4, Offsets
<1>6. PICK h \in Nat : h = Jump(zone, i + 1) /\ c - b <= h /\ b - c <= h
  <2>1. /\ Jump(zone, i + 1) \in Nat
        /\ OffsetAfter(zone, i + 1) - OffsetAfter(zone, (i + 1) - 1) <= Jump(zone, i + 1)
        /\ OffsetAfter(zone, (i + 1) - 1) - OffsetAfter(zone, i + 1) <= Jump(zone, i + 1)
    BY <1>2, Offsets
  <2> QED
    BY <1>2, <1>4, <2>1
<1>7. p + g + h < q
  BY <1>3, <1>5, <1>6, Offsets
<1>8. Jumps(zone, i, p, q, g, h, a, b, c)
  BY <1>3, <1>4, <1>5, <1>6, <1>7 DEF Jumps
<1> QED
  BY <1>8

\* Both lists rise.
LEMMA TheyRise ==
  ASSUME NEW n, NEW zone, IsZone(zone, n)
  PROVE  IsRising(Ats(zone, n), n) /\ \A fold \in {0, 1} : IsRising(Turns(zone, n, fold), n)
<1>1. n \in Nat
  BY Offsets
<1>2. Ats(zone, n) \in [1..n -> Int]
  BY Offsets DEF Ats
<1>3. ASSUME NEW fold \in {0, 1} PROVE Turns(zone, n, fold) \in [1..n -> Int]
  <2>1. ASSUME NEW i \in 1..n
        PROVE  zone.changes[i].at + (IF (OffsetAfter(zone, i - 1) < OffsetAfter(zone, i)) = (fold = 0)
                                     THEN OffsetAfter(zone, i) ELSE OffsetAfter(zone, i - 1)) \in Int
    <3>1. i - 1 \in 0..n /\ i \in 0..n
      BY <1>1
    <3>2. zone.changes[i].at \in Int /\ OffsetAfter(zone, i) \in Int /\ OffsetAfter(zone, i - 1) \in Int
      BY <3>1, Offsets
    <3> QED
      BY <3>2
  <2> QED
    BY <2>1 DEF Turns
<1>4. ASSUME NEW i \in 1..(n - 1)
      PROVE  /\ Ats(zone, n)[i] < Ats(zone, n)[i + 1]
             /\ \A fold \in {0, 1} : Turns(zone, n, fold)[i] < Turns(zone, n, fold)[i + 1]
  <2>1. PICK p \in Int, q \in Int, g \in Nat, h \in Nat, a \in Int, b \in Int, c \in Int :
           Jumps(zone, i, p, q, g, h, a, b, c)
    BY TwoJumps
  <2>2. i \in 1..n /\ i + 1 \in 1..n /\ (i + 1) - 1 = i
    BY <1>1
  <2>3. Ats(zone, n)[i] = p /\ Ats(zone, n)[i + 1] = q
    BY <2>1, <2>2 DEF Ats, Jumps
  <2>4. ASSUME NEW fold \in {0, 1} PROVE Turns(zone, n, fold)[i] < Turns(zone, n, fold)[i + 1]
    <3>1. /\ Turns(zone, n, fold)[i] = p + (IF (a < b) = (fold = 0) THEN b ELSE a)
          /\ Turns(zone, n, fold)[i + 1] = q + (IF (b < c) = (fold = 0) THEN c ELSE b)
      BY <2>1, <2>2 DEF Turns, Jumps
    <3>2. PICK x \in Int, y \in Int : /\ x = IF (a < b) = (fold = 0) THEN b ELSE a
                                      /\ y = IF (b < c) = (fold = 0) THEN c ELSE b
      OBVIOUS
    <3>3. p + x < q + y
      BY <2>1, <3>2 DEF Jumps
    <3> QED
      BY <3>1, <3>2, <3>3
  <2> QED
    BY <2>1, <2>3, <2>4 DEF Jumps
<1> QED
  BY <1>2, <1>3, <1>4 DEF IsRising

\* The offset of an instant is that of the transitions that are past, ...
LEMMA OffsetAtIs ==
  ASSUME NEW n, NEW zone, IsZone(zone, n), NEW utc \in Int, NEW k, Between(Ats(zone, n), n, utc, k)
  PROVE  OffsetAt(zone, utc) = OffsetAfter(zone, k)
<1>1. n \in Nat /\ DOMAIN zone.changes = 1..n /\ IsRising(Ats(zone, n), n)
  BY Offsets, TheyRise DEF IsZone
<1>2. {i \in DOMAIN zone.changes : zone.changes[i].at <= utc} = {i \in 1..n : Ats(zone, n)[i] <= utc}
  BY <1>1 DEF Ats
<1>3. LastOf(zone, {i \in 1..n : Ats(zone, n)[i] <= utc}) = OffsetAfter(zone, k)
  BY <1>1, LastIs
<1> QED
  BY <1>2, <1>3 DEF OffsetAt

\* ... and that of a clock reading the one of the turns that are past.
LEMMA UtcOffsetIs ==
  ASSUME NEW n, NEW zone, IsZone(zone, n), NEW clock \in Int, NEW fold \in {0, 1},
         NEW k, Between(Turns(zone, n, fold), n, clock, k)
  PROVE  UtcOffset(zone, clock, fold) = OffsetAfter(zone, k)
<1> DEFINE both(i) == {OffsetBefore(zone, i), zone.changes[i].offset}
           turn(i) == zone.changes[i].at + (IF fold = 0 THEN Max(both(i)) ELSE Min(both(i)))
<1>1. n \in Nat /\ DOMAIN zone.changes = 1..n /\ IsRising(Turns(zone, n, fold), n)
  BY Offsets, TheyRise DEF IsZone
<1>2. ASSUME NEW i \in 1..n PROVE turn(i) = Turns(zone, n, fold)[i]
  <2>1. i - 1 \in 0..n /\ i \in 0..n /\ (i = 1 <=> i - 1 = 0) /\ i # 0
    BY <1>1
  <2>2. PICK a \in Int, b \in Int : a = OffsetAfter(zone, i - 1) /\ b = OffsetAfter(zone, i)
    BY <2>1, Offsets
  <2>3. OffsetBefore(zone, i) = a /\ zone.changes[i].offset = b
    BY <2>1, <2>2 DEF OffsetBefore, OffsetAfter
  <2>4. Max({a, b}) = (IF a < b THEN b ELSE a) /\ Min({a, b}) = (IF a < b THEN a ELSE b)
    BY DEF Max, Min
  <2>5. Turns(zone, n, fold)[i] = zone.changes[i].at + (IF (a < b) = (fold = 0) THEN b ELSE a)
    BY <2>2 DEF Turns
  <2>6. both(i) = {a, b}
    BY <2>3
  <2> HIDE DEF both
  <2>7. (IF fold = 0 THEN Max(both(i)) ELSE Min(both(i))) = (IF (a < b) = (fold = 0) THEN b ELSE a)
    <3>1. CASE a < b
      BY <2>4, <2>6, <3>1
    <3>2. CASE ~(a < b)
      BY <2>4, <2>6, <3>2
    <3> QED
      BY <3>1, <3>2
  <2> QED
    BY <2>5, <2>7
<1> HIDE DEF turn
<1>3. {i \in DOMAIN zone.changes : turn(i) <= clock} = {i \in 1..n : Turns(zone, n, fold)[i] <= clock}
  BY <1>1, <1>2
<1>4. UtcOffset(zone, clock, fold) = LastOf(zone, {i \in DOMAIN zone.changes : turn(i) <= clock})
  BY DEF UtcOffset, turn
<1> QED
  BY <1>1, <1>3, <1>4, LastIs

\* What is past for the first time that an hour is shown is past for the second.
LEMMA Reached ==
  ASSUME NEW n, NEW zone, IsZone(zone, n), NEW clock \in Int, NEW k \in 1..n,
         Turns(zone, n, 0)[k] <= clock
  PROVE  zone.changes[k].at + OffsetAfter(zone, k) <= clock /\ Turns(zone, n, 1)[k] <= clock
<1>1. n \in Nat
  BY Offsets
<1>2. k - 1 \in 0..n /\ k \in 0..n
  BY <1>1
<1>3. PICK a \in Int, b \in Int, p \in Int :
        a = OffsetAfter(zone, k - 1) /\ b = OffsetAfter(zone, k) /\ p = zone.changes[k].at
  BY <1>2, Offsets
<1>4. Turns(zone, n, 0)[k] = p + (IF a < b THEN b ELSE a) /\ Turns(zone, n, 1)[k] = p + (IF a < b THEN a ELSE b)
  BY <1>3 DEF Turns
<1> QED
  BY <1>3, <1>4

\* The next transition is further away than this one moves the clock.
LEMMA NotYet ==
  ASSUME NEW n, NEW zone, IsZone(zone, n), NEW i \in 1..(n - 1), NEW fold \in {0, 1}
  PROVE  /\ zone.changes[i].at + Jump(zone, i) < zone.changes[i + 1].at
         /\ zone.changes[i].at + Jump(zone, i) + OffsetAfter(zone, i) < Turns(zone, n, fold)[i + 1]
<1>1. n \in Nat
  BY Offsets
<1>2. i \in 1..n /\ i + 1 \in 1..n /\ i \in 0..n /\ i + 1 \in 0..n /\ (i + 1) - 1 = i
  BY <1>1
<1>3. PICK p \in Int, q \in Int, b \in Int, c \in Int, g \in Nat, h \in Nat :
        /\ p = zone.changes[i].at /\ q = zone.changes[i + 1].at
        /\ b = OffsetAfter(zone, i) /\ c = OffsetAfter(zone, i + 1)
        /\ g = Jump(zone, i) /\ h = Jump(zone, i + 1)
  BY <1>2, Offsets
<1>4. /\ OffsetAfter(zone, i + 1) - OffsetAfter(zone, (i + 1) - 1) <= Jump(zone, i + 1)
      /\ OffsetAfter(zone, (i + 1) - 1) - OffsetAfter(zone, i + 1) <= Jump(zone, i + 1)
  BY <1>2, Offsets
<1>5. p + g + h < q /\ c - b <= h /\ b - c <= h
  BY <1>2, <1>3, <1>4, Offsets
<1>6. Turns(zone, n, fold)[i + 1] = q + (IF (b < c) = (fold = 0) THEN c ELSE b)
  BY <1>2, <1>3 DEF Turns
<1>7. PICK x \in Int : x = IF (b < c) = (fold = 0) THEN c ELSE b
  OBVIOUS
<1>8. p + g < q /\ p + g + b < q + x
  BY <1>5, <1>7
<1> QED
  BY <1>3, <1>6, <1>7, <1>8

\* A reading is shown once, or twice, when the first time is the earlier, or
\* never, when the reading that is moved forward is shown once.
ShownAt(zone, clock, a, b) ==
  /\ UtcOffset(zone, clock, 0) = a /\ UtcOffset(zone, clock, 1) = b
  /\ \/ OffsetAt(zone, clock - a) = a /\ b <= a
     \/ a < b /\ OffsetAt(zone, clock - a) = b /\ UtcOffset(zone, clock + (b - a), 0) = b

\* So every reading is.
LEMMA EachReading ==
  ASSUME NEW n, NEW zone, IsZone(zone, n), NEW clock \in Int
  PROVE  \E a \in Int, b \in Int : ShownAt(zone, clock, a, b)
<1>1. /\ n \in Nat /\ IsRising(Turns(zone, n, 0), n) /\ IsRising(Ats(zone, n), n)
      /\ \A fold \in {0, 1} : Turns(zone, n, fold) \in [1..n -> Int]
      /\ \A i \in 1..n : zone.changes[i].at \in Int /\ Ats(zone, n)[i] = zone.changes[i].at
  BY Offsets, TheyRise DEF IsRising, Ats
<1>2. PICK k \in 0..n : Between(Turns(zone, n, 0), n, clock, k)
  BY <1>1, SomePast
<1>3. PICK a \in Int : a = OffsetAfter(zone, k)
  BY Offsets
<1>4. UtcOffset(zone, clock, 0) = a
  BY <1>2, <1>3, UtcOffsetIs
<1>5. k > 0 => /\ k \in 1..n
               /\ zone.changes[k].at + a <= clock
               /\ zone.changes[k].at <= clock - a
               /\ Turns(zone, n, 1)[k] <= clock
  <2> SUFFICES ASSUME k > 0 PROVE /\ k \in 1..n
                                  /\ zone.changes[k].at + a <= clock
                                  /\ zone.changes[k].at <= clock - a
                                  /\ Turns(zone, n, 1)[k] <= clock
    OBVIOUS
  <2>1. k \in 1..n
    BY <1>1
  <2>2. zone.changes[k].at + a <= clock /\ Turns(zone, n, 1)[k] <= clock
    BY <1>2, <1>3, <2>1, Reached DEF Between
  <2>3. zone.changes[k].at \in Int
    BY <1>1, <2>1
  <2> QED
    BY <2>1, <2>2, <2>3
<1>6. CASE k = n
  <2>1. Between(Turns(zone, n, 1), n, clock, n) /\ Between(Ats(zone, n), n, clock - a, n)
    BY <1>1, <1>5, <1>6 DEF Between
  <2>2. UtcOffset(zone, clock, 1) = a /\ OffsetAt(zone, clock - a) = a
    BY <1>3, <1>6, <2>1, UtcOffsetIs, OffsetAtIs
  <2>3. ShownAt(zone, clock, a, a)
    BY <1>4, <2>2 DEF ShownAt
  <2> QED
    BY <2>3
<1>7. CASE k < n
  <2>1. k + 1 \in 1..n /\ k + 1 \in 0..n /\ (k + 1) - 1 = k
    BY <1>1, <1>7
  <2>2. PICK p \in Int, b \in Int, g \in Nat :
          p = zone.changes[k + 1].at /\ b = OffsetAfter(zone, k + 1) /\ g = Jump(zone, k + 1)
    BY <2>1, Offsets
  <2>3. b - a <= g /\ a - b <= g
    <3>1. /\ OffsetAfter(zone, k + 1) - OffsetAfter(zone, (k + 1) - 1) <= Jump(zone, k + 1)
          /\ OffsetAfter(zone, (k + 1) - 1) - OffsetAfter(zone, k + 1) <= Jump(zone, k + 1)
      BY <2>1, Offsets
    <3> QED
      BY <1>3, <2>1, <2>2, <3>1
  <2>4. /\ Turns(zone, n, 0)[k + 1] = p + (IF a < b THEN b ELSE a)
        /\ Turns(zone, n, 1)[k + 1] = p + (IF a < b THEN a ELSE b)
        /\ Ats(zone, n)[k + 1] = p
    BY <1>1, <1>3, <2>1, <2>2 DEF Turns
  <2>5. clock < p + (IF a < b THEN b ELSE a)
    BY <1>2, <1>7, <2>4 DEF Between
  <2>6. k + 1 < n => /\ p + g < Ats(zone, n)[k + 2]
                     /\ p + g + b < Turns(zone, n, 0)[k + 2]
                     /\ p + g + b < Turns(zone, n, 1)[k + 2]
    <3> SUFFICES ASSUME k + 1 < n PROVE /\ p + g < Ats(zone, n)[k + 2]
                                        /\ p + g + b < Turns(zone, n, 0)[k + 2]
                                        /\ p + g + b < Turns(zone, n, 1)[k + 2]
      OBVIOUS
    <3>1. k + 1 \in 1..(n - 1) /\ (k + 1) + 1 = k + 2 /\ k + 2 \in 1..n
      BY <1>1, <2>1
    <3>2. \A fold \in {0, 1} :
            /\ zone.changes[k + 1].at + Jump(zone, k + 1) < zone.changes[(k + 1) + 1].at
            /\ zone.changes[k + 1].at + Jump(zone, k + 1) + OffsetAfter(zone, k + 1) < Turns(zone, n, fold)[(k + 1) + 1]
      BY <3>1, NotYet
    <3> QED
      BY <1>1, <2>2, <3>1, <3>2
  <2>7. CASE clock < p + (IF a < b THEN a ELSE b)
    <3>1. clock - a < p
      BY <2>7
    <3>2. Between(Turns(zone, n, 1), n, clock, k) /\ Between(Ats(zone, n), n, clock - a, k)
      BY <1>1, <1>5, <2>4, <2>7, <3>1 DEF Between
    <3>3. UtcOffset(zone, clock, 1) = a /\ OffsetAt(zone, clock - a) = a
      BY <1>3, <3>2, UtcOffsetIs, OffsetAtIs
    <3>4. ShownAt(zone, clock, a, a)
      BY <1>4, <3>3 DEF ShownAt
    <3> QED
      BY <3>4
  <2>8. CASE p + (IF a < b THEN a ELSE b) <= clock
    <3>1. clock < p + g + b
      BY <2>3, <2>5
    <3>2. Between(Turns(zone, n, 1), n, clock, k + 1)
      <4>1. k + 1 < n => clock < Turns(zone, n, 1)[k + 2]
        <5> SUFFICES ASSUME k + 1 < n PROVE clock < Turns(zone, n, 1)[k + 2]
          OBVIOUS
        <5>1. k + 2 \in 1..n
          BY <1>1
        <5>2. PICK x \in Int : x = Turns(zone, n, 1)[k + 2]
          BY <1>1, <5>1
        <5> QED
          BY <2>6, <3>1, <5>2
      <4>2. (k + 1) + 1 = k + 2
        BY <1>1
      <4> QED
        BY <2>1, <2>4, <2>8, <4>1, <4>2 DEF Between
    <3>3. UtcOffset(zone, clock, 1) = b
      BY <2>2, <3>2, UtcOffsetIs
    <3>4. CASE b < a
      <4>1. clock - a < p
        BY <2>5, <3>4
      <4>2. Between(Ats(zone, n), n, clock - a, k)
        BY <1>1, <1>5, <2>4, <4>1 DEF Between
      <4>3. OffsetAt(zone, clock - a) = a
        BY <1>3, <4>2, OffsetAtIs
      <4>4. ShownAt(zone, clock, a, b)
        BY <1>4, <3>3, <3>4, <4>3 DEF ShownAt
      <4> QED
        BY <4>4
    <3>5. CASE a < b
      <4>1. p <= clock - a /\ clock - a < p + g /\ p + b <= clock + (b - a) /\ clock + (b - a) < p + g + b
        BY <2>3, <2>5, <2>8, <3>5
      <4>2. k + 1 < n => clock - a < Ats(zone, n)[k + 2] /\ clock + (b - a) < Turns(zone, n, 0)[k + 2]
        <5> SUFFICES ASSUME k + 1 < n
                     PROVE  clock - a < Ats(zone, n)[k + 2] /\ clock + (b - a) < Turns(zone, n, 0)[k + 2]
          OBVIOUS
        <5>1. k + 2 \in 1..n
          BY <1>1
        <5>2. PICK x \in Int, y \in Int : x = Turns(zone, n, 0)[k + 2] /\ y = Ats(zone, n)[k + 2]
          BY <1>1, <5>1
        <5> QED
          BY <2>6, <4>1, <5>2
      <4>3. (k + 1) + 1 = k + 2
        BY <1>1
      <4>4. Between(Ats(zone, n), n, clock - a, k + 1) /\ Between(Turns(zone, n, 0), n, clock + (b - a), k + 1)
        BY <2>1, <2>4, <3>5, <4>1, <4>2, <4>3 DEF Between
      <4>5. OffsetAt(zone, clock - a) = b /\ UtcOffset(zone, clock + (b - a), 0) = b
        BY <2>2, <4>4, OffsetAtIs, UtcOffsetIs
      <4>6. ShownAt(zone, clock, a, b)
        BY <1>4, <3>3, <3>5, <4>5 DEF ShownAt
      <4> QED
        BY <4>6
    <3>6. a # b
      BY <2>5, <2>8
    <3> QED
      BY <3>4, <3>5, <3>6
  <2> QED
    BY <2>7, <2>8
<1> QED
  BY <1>1, <1>6, <1>7

\* What is made of a clock reading exists and shows its instant, which is that
\* of the reading itself, and the first of two.
IsShown(zone, clock, shown) ==
  /\ shown.local \in Int /\ shown.utc \in Int
  /\ ToLocal(zone, shown.utc) = shown.local /\ ~IsNonexistent(zone, shown.local)
  /\ shown.utc = ToUtc(zone, clock, 0)
  /\ shown.nonexistent \in BOOLEAN /\ (shown.nonexistent <=> IsNonexistent(zone, clock))
  /\ ~shown.nonexistent => shown.local = clock
  /\ IsAmbiguous(zone, shown.local) => shown.utc < ToUtc(zone, shown.local, 1)

\* A reading that exists shows the first of its instants.
LEMMA FirstOfTwo ==
  ASSUME NEW n, NEW zone, IsZone(zone, n), NEW clock \in Int, ~IsNonexistent(zone, clock)
  PROVE  /\ ToUtc(zone, clock, 0) \in Int /\ ToUtc(zone, clock, 1) \in Int
         /\ ToLocal(zone, ToUtc(zone, clock, 0)) = clock
         /\ IsAmbiguous(zone, clock) => ToUtc(zone, clock, 0) < ToUtc(zone, clock, 1)
<1>1. PICK a \in Int, b \in Int : ShownAt(zone, clock, a, b)
  BY EachReading
<1>2. ToUtc(zone, clock, 0) = clock - a /\ ToUtc(zone, clock, 1) = clock - b
  BY <1>1 DEF ShownAt, ToUtc
<1>3. ToLocal(zone, clock - a) = clock
  BY <1>2 DEF IsNonexistent
<1>4. ~(OffsetAt(zone, clock - a) = b /\ a < b)
  <2> SUFFICES ASSUME OffsetAt(zone, clock - a) = b, a < b PROVE FALSE
    OBVIOUS
  <2>1. clock - a + b = clock
    BY <1>3 DEF ToLocal
  <2> QED
    BY <2>1
<1>5. b <= a
  BY <1>1, <1>4 DEF ShownAt
<1>6. IsAmbiguous(zone, clock) => a # b
  BY <1>1 DEF IsAmbiguous, ShownAt
<1> QED
  BY <1>2, <1>3, <1>5, <1>6

\* localize does that.
LEMMA LocalizeShows ==
  ASSUME NEW n, NEW zone, IsZone(zone, n), NEW clock \in Int
  PROVE  IsShown(zone, clock, Localize(zone, clock))
<1> DEFINE shown == Localize(zone, clock)
<1>1. PICK a \in Int, b \in Int : ShownAt(zone, clock, a, b)
  BY EachReading
<1>2. ToUtc(zone, clock, 0) = clock - a /\ Gap(zone, clock) = b - a
  BY <1>1 DEF ShownAt, ToUtc, Gap
<1>3. CASE IsNonexistent(zone, clock)
  <2> DEFINE moved == clock + (b - a)
  <2>1. shown = [local |-> moved, utc |-> ToUtc(zone, moved, 0), nonexistent |-> IsNonexistent(zone, clock)]
    BY <1>2, <1>3 DEF Localize
  <2>2. OffsetAt(zone, clock - a) # a
    <3> SUFFICES ASSUME OffsetAt(zone, clock - a) = a PROVE FALSE
      OBVIOUS
    <3>1. ToLocal(zone, clock - a) = clock
      BY DEF ToLocal
    <3> QED
      BY <1>2, <1>3, <3>1 DEF IsNonexistent
  <2>3. OffsetAt(zone, clock - a) = b /\ UtcOffset(zone, moved, 0) = b
    BY <1>1, <2>2 DEF ShownAt
  <2>4. ToUtc(zone, moved, 0) = clock - a
    BY <2>3 DEF ToUtc
  <2>5. ToLocal(zone, clock - a) = moved
    BY <2>3 DEF ToLocal
  <2>6. moved \in Int /\ ~IsNonexistent(zone, moved)
    BY <2>4, <2>5 DEF IsNonexistent
  <2> HIDE DEF moved
  <2>7. IsAmbiguous(zone, moved) => clock - a < ToUtc(zone, moved, 1)
    BY <2>4, <2>6, FirstOfTwo
  <2>8. shown.local = moved /\ shown.utc = clock - a /\ (shown.nonexistent = IsNonexistent(zone, clock))
    BY <2>1, <2>4
  <2>9. shown.nonexistent \in BOOLEAN /\ (shown.nonexistent <=> IsNonexistent(zone, clock)) /\ shown.nonexistent
    BY <1>3, <2>8 DEF IsNonexistent
  <2> HIDE DEF shown
  <2>10. IsShown(zone, clock, shown)
    BY <1>2, <2>5, <2>6, <2>7, <2>8, <2>9 DEF IsShown
  <2> QED
    BY <2>10 DEF shown
<1>4. CASE ~IsNonexistent(zone, clock)
  <2>1. shown = [local |-> clock, utc |-> ToUtc(zone, clock, 0), nonexistent |-> IsNonexistent(zone, clock)]
    BY <1>4 DEF Localize
  <2>2. /\ ToUtc(zone, clock, 0) \in Int
        /\ ToLocal(zone, ToUtc(zone, clock, 0)) = clock
        /\ IsAmbiguous(zone, clock) => ToUtc(zone, clock, 0) < ToUtc(zone, clock, 1)
    BY <1>4, FirstOfTwo
  <2>3. shown.local = clock /\ shown.utc = ToUtc(zone, clock, 0) /\ (shown.nonexistent = IsNonexistent(zone, clock))
    BY <2>1
  <2>4. shown.nonexistent \in BOOLEAN /\ (shown.nonexistent <=> IsNonexistent(zone, clock)) /\ ~shown.nonexistent
    BY <1>4, <2>3 DEF IsNonexistent
  <2> HIDE DEF shown
  <2>5. IsShown(zone, clock, shown)
    BY <1>4, <2>2, <2>3, <2>4 DEF IsShown
  <2> QED
    BY <2>5 DEF shown
<1> QED
  BY <1>3, <1>4

\* What a clock shows at an instant is a reading that exists.
LEMMA WhatIsShownExists ==
  ASSUME NEW n, NEW zone, IsZone(zone, n), NEW utc \in Int
  PROVE  ToLocal(zone, utc) \in Int /\ ~IsNonexistent(zone, ToLocal(zone, utc))
<1>1. /\ n \in Nat /\ IsRising(Ats(zone, n), n) /\ IsRising(Turns(zone, n, 0), n)
      /\ Turns(zone, n, 0) \in [1..n -> Int]
      /\ \A i \in 1..n : zone.changes[i].at \in Int /\ Ats(zone, n)[i] = zone.changes[i].at
  BY Offsets, TheyRise DEF IsRising, Ats
<1>2. PICK k \in 0..n : Between(Ats(zone, n), n, utc, k)
  BY <1>1, SomePast
<1>3. PICK a \in Int : a = OffsetAfter(zone, k)
  BY Offsets
<1>4. ToLocal(zone, utc) = utc + a
  BY <1>2, <1>3, OffsetAtIs DEF ToLocal
<1> SUFFICES ~IsNonexistent(zone, utc + a)
  BY <1>4
<1>5. k < n => utc + a < Turns(zone, n, 0)[k + 1]
  <2> SUFFICES ASSUME k < n PROVE utc + a < Turns(zone, n, 0)[k + 1]
    OBVIOUS
  <2>1. k + 1 \in 1..n /\ k + 1 \in 0..n /\ (k + 1) - 1 = k
    BY <1>1
  <2>2. PICK p \in Int, b \in Int : p = zone.changes[k + 1].at /\ b = OffsetAfter(zone, k + 1)
    BY <2>1, Offsets
  <2>3. Turns(zone, n, 0)[k + 1] = p + (IF a < b THEN b ELSE a)
    BY <1>3, <2>1, <2>2 DEF Turns
  <2>4. utc < p
    BY <1>1, <1>2, <2>1, <2>2 DEF Between
  <2> QED
    BY <2>3, <2>4
<1>6. CASE k > 0 => Turns(zone, n, 0)[k] <= utc + a
  <2>1. Between(Turns(zone, n, 0), n, utc + a, k)
    BY <1>5, <1>6 DEF Between
  <2>2. UtcOffset(zone, utc + a, 0) = a
    BY <1>3, <2>1, UtcOffsetIs
  <2>3. ToUtc(zone, utc + a, 0) = utc
    BY <2>2 DEF ToUtc
  <2> QED
    BY <1>4, <2>3 DEF IsNonexistent
<1>7. CASE k > 0 /\ ~(Turns(zone, n, 0)[k] <= utc + a)
  <2>1. k \in 1..n /\ k - 1 \in 0..n /\ (k - 1) + 1 = k
    BY <1>1, <1>7
  <2>2. PICK p \in Int, o \in Int, g \in Nat :
          p = zone.changes[k].at /\ o = OffsetAfter(zone, k - 1) /\ g = Jump(zone, k)
    BY <2>1, Offsets
  <2>3. a - o <= g /\ o - a <= g
    BY <1>3, <2>1, <2>2, Offsets
  <2>4. Turns(zone, n, 0)[k] = p + (IF o < a THEN a ELSE o)
    BY <1>3, <2>1, <2>2 DEF Turns
  <2>5. p <= utc /\ utc + a < p + o
    <3>1. p <= utc
      BY <1>1, <1>2, <1>7, <2>1, <2>2 DEF Between
    <3> QED
      BY <1>7, <2>4, <3>1
  <2>6. k - 1 > 0 =>
          /\ Turns(zone, n, 0)[k - 1] <= utc + a
          /\ Ats(zone, n)[k - 1] <= utc + a - o
    <3> SUFFICES ASSUME k - 1 > 0 PROVE /\ Turns(zone, n, 0)[k - 1] <= utc + a
                                        /\ Ats(zone, n)[k - 1] <= utc + a - o
      OBVIOUS
    <3>1. PICK i \in 1..(n - 1) : i = k - 1
      BY <1>1, <2>1
    <3>2. i \in 1..n /\ i + 1 = k /\ i - 1 \in 0..n
      BY <1>1, <2>1, <3>1
    <3>3. PICK r \in Int, u \in Int, f \in Nat :
            r = zone.changes[i].at /\ u = OffsetAfter(zone, i - 1) /\ f = Jump(zone, i)
      BY <3>2, Offsets
    <3>4. OffsetAfter(zone, i) - OffsetAfter(zone, i - 1) <= f /\ OffsetAfter(zone, i - 1) - OffsetAfter(zone, i) <= f
      BY <3>2, <3>3, Offsets
    <3>5. o - u <= f /\ u - o <= f
      BY <2>2, <3>1, <3>3, <3>4
    <3>6. r + f + g < p
      BY <2>2, <3>2, <3>3, Offsets
    <3>7. Turns(zone, n, 0)[i] = r + (IF u < o THEN o ELSE u)
      BY <2>2, <3>1, <3>2, <3>3 DEF Turns
    <3>8. PICK x \in Int : x = IF u < o THEN o ELSE u
      OBVIOUS
    <3>9. r + x <= utc + a /\ r <= utc + a - o
      BY <2>3, <2>5, <3>5, <3>6, <3>8
    <3> QED
      BY <1>1, <3>1, <3>2, <3>3, <3>7, <3>8, <3>9
  <2>7. utc + a - o < Ats(zone, n)[k]
    <3>1. Ats(zone, n)[k] = p
      BY <1>1, <2>1, <2>2
    <3> QED
      BY <2>5, <3>1
  <2>8. Between(Turns(zone, n, 0), n, utc + a, k - 1) /\ Between(Ats(zone, n), n, utc + a - o, k - 1)
    <3>1. utc + a < Turns(zone, n, 0)[k]
      BY <1>1, <1>7, <2>1
    <3> QED
      BY <2>1, <2>6, <2>7, <3>1 DEF Between
  <2>9. UtcOffset(zone, utc + a, 0) = o /\ OffsetAt(zone, utc + a - o) = o
    BY <2>2, <2>8, UtcOffsetIs, OffsetAtIs
  <2>10. ToUtc(zone, utc + a, 0) = utc + a - o
    BY <2>9 DEF ToUtc
  <2>11. ToLocal(zone, utc + a - o) = utc + a
    BY <2>9 DEF ToLocal
  <2> QED
    BY <2>10, <2>11 DEF IsNonexistent
<1> QED
  BY <1>6, <1>7

\* In every zone, from every start, over any change of the clocks: a clock that
\* is shown exists and shows its instant, and the time asked for elapses.
THEOREM EveryClockTellsTheTime ==
  ASSUME NEW n, NEW zone, IsZone(zone, n), NEW start \in Int, NEW delta \in Int
  PROVE  ClocksTellTheTime(zone, start, delta)
<1> DEFINE origin == Localize(zone, start)
           wall == ShiftWall(zone, start, delta)
           absolute == ShiftAbsolute(zone, start, delta)
<1>1. IsShown(zone, start, origin)
  BY LocalizeShows
<1>2. PICK clock \in Int : clock = start + delta
  OBVIOUS
<1>3. IsShown(zone, clock, wall)
  BY <1>2, LocalizeShows DEF ShiftWall
<1>4. PICK utc \in Int : utc = origin.utc + delta
  BY <1>1 DEF IsShown
<1>5. absolute = [local |-> ToLocal(zone, utc), utc |-> utc, nonexistent |-> FALSE]
  BY <1>4 DEF ShiftAbsolute
<1>6. /\ absolute.utc = utc /\ absolute.local = ToLocal(zone, utc)
      /\ ~IsNonexistent(zone, absolute.local)
  BY <1>5, WhatIsShownExists
<1> HIDE DEF origin, wall, absolute
<1>7. \A shown \in {origin, wall, absolute} :
        ToLocal(zone, shown.utc) = shown.local /\ ~IsNonexistent(zone, shown.local)
  BY <1>1, <1>3, <1>6 DEF IsShown
<1>8. absolute.utc - origin.utc = delta
  <2>1. origin.utc \in Int
    BY <1>1 DEF IsShown
  <2> QED
    BY <1>4, <1>6, <2>1
<1>9. IF wall.nonexistent THEN wall.utc = ToUtc(zone, start + delta, 0) ELSE wall.local = start + delta
  BY <1>2, <1>3 DEF IsShown
<1>10. IsAmbiguous(zone, wall.local) => wall.utc < ToUtc(zone, wall.local, 1)
  BY <1>3 DEF IsShown
<1> QED
  BY <1>7, <1>8, <1>9, <1>10 DEF ClocksTellTheTime, origin, wall, absolute

\* Whole days later it is the same hour.
LEMMA SameHour ==
  ASSUME NEW x \in Int, NEW m \in Nat
  PROVE  (x + 24 * m) % 24 = x % 24
<1> DEFINE Same == {k \in Nat : (x + 24 * k) % 24 = x % 24}
<1>1. 0 \in Same
  OBVIOUS
<1>2. ASSUME NEW k \in Nat, k \in Same PROVE k + 1 \in Same
  <2>1. PICK y \in Int : y = x + 24 * k
    OBVIOUS
  <2>2. x + 24 * (k + 1) = y + 24
    BY <2>1
  <2>3. (y + 24) % 24 = y % 24
    OBVIOUS
  <2> QED
    BY <1>2, <2>1, <2>2, <2>3
<1> HIDE DEF Same
<1>3. m \in Same
  BY <1>1, <1>2, EachNatural
<1> QED
  BY <1>3 DEF Same

\* In every zone whose clocks never differ by a day, a daily appointment keeps
\* its hour, its instants go forward, and the answer says where they move off
\* whole days.
THEOREM EveryAppointmentKeepsItsTime ==
  ASSUME NEW n, NEW zone, IsZone(zone, n), IsSteady(zone, n),
         NEW start \in Int, NEW days \in Nat \ {0}, NEW count \in Nat
  PROVE  AppointmentsKeepTheirTime(zone, start, days, count)
<1> DEFINE all == Expand(zone, start, days, count)
           clock(i) == start + 24 * days * (i - 1)
           at(i) == Localize(zone, clock(i))
           shift(i) == at(i).local - at(i).utc
<1>1. ASSUME NEW i \in 1..count
      PROVE  \E c \in Int, a \in Int : /\ c = clock(i) /\ IsShown(zone, c, at(i)) /\ at(i).utc = c - a
                                       /\ c % 24 = start % 24
                                       /\ \E k \in 0..n : a = OffsetAfter(zone, k)
  <2>1. PICK m \in Nat : m = days * (i - 1)
    <3>1. i - 1 \in Nat
      OBVIOUS
    <3>2. \A x \in Nat, y \in Nat : x * y \in Nat
      OBVIOUS
    <3> QED
      BY <3>1, <3>2
  <2>2. PICK c \in Int : c = start + 24 * m
    BY <2>1
  <2>3. c = clock(i)
    <3>1. \A x \in Nat, y \in Nat : 24 * x * y = 24 * (x * y)
      OBVIOUS
    <3>2. 24 * days * (i - 1) = 24 * m
      BY <2>1, <3>1
    <3> QED
      BY <2>2, <3>2
  <2>4. c % 24 = start % 24
    BY <2>1, <2>2, SameHour
  <2>5. IsShown(zone, c, at(i))
    BY <2>3, LocalizeShows
  <2>6. n \in Nat /\ IsRising(Turns(zone, n, 0), n)
    BY Offsets, TheyRise
  <2>7. PICK k \in 0..n : Between(Turns(zone, n, 0), n, c, k)
    BY <2>6, SomePast
  <2>8. PICK a \in Int : a = OffsetAfter(zone, k)
    BY Offsets
  <2>9. ToUtc(zone, c, 0) = c - a
    BY <2>7, <2>8, UtcOffsetIs DEF ToUtc
  <2>10. at(i).utc = c - a
    BY <2>5, <2>9 DEF IsShown
  <2> HIDE DEF clock, at
  <2> QED
    BY <2>3, <2>4, <2>5, <2>8, <2>10
<1>2. ASSUME NEW i \in 1..count
      PROVE  /\ all[i].local = at(i).local /\ all[i].utc = at(i).utc
             /\ all[i].nonexistent = at(i).nonexistent
             /\ all[i].shifted = (i > 1 /\ shift(i) # shift(i - 1))
  BY DEF Expand
<1>3. ASSUME NEW i \in 1..count PROVE all[i].nonexistent \/ all[i].local % 24 = start % 24
  <2> HIDE DEF all, at, clock
  <2> QED
    BY <1>1, <1>2 DEF IsShown
<1>4. ASSUME NEW i \in 2..count
      PROVE  /\ all[i - 1].utc < all[i].utc
             /\ ~all[i - 1].nonexistent /\ ~all[i].nonexistent =>
                  (all[i].shifted <=> all[i].utc - all[i - 1].utc # 24 * days)
  <2>1. i \in 1..count /\ i - 1 \in 1..count /\ i > 1
    OBVIOUS
  <2>2. PICK c \in Int, a \in Int : /\ c = clock(i) /\ IsShown(zone, c, at(i)) /\ at(i).utc = c - a
                                    /\ \E k \in 0..n : a = OffsetAfter(zone, k)
    <3> HIDE DEF clock, at
    <3> QED
      BY <1>1, <2>1
  <2>3. PICK d \in Int, b \in Int : /\ d = clock(i - 1) /\ IsShown(zone, d, at(i - 1)) /\ at(i - 1).utc = d - b
                                    /\ \E k \in 0..n : b = OffsetAfter(zone, k)
    <3> HIDE DEF clock, at
    <3> QED
      BY <1>1, <2>1
  <2>4. PICK w \in Nat : w = 24 * days /\ w >= 24
    OBVIOUS
  <2>5. c = d + w
    <3>1. PICK j \in Nat : j = i - 1 /\ j - 1 \in Nat /\ (i - 1) - 1 = j - 1
      BY <2>1
    <3>2. \A x \in Nat, y \in Nat : x * y = x * (y - 1) + x
      OBVIOUS
    <3>3. w * j = w * (j - 1) + w
      BY <3>2
    <3>4. c = start + w * j /\ d = start + w * (j - 1)
      BY <2>2, <2>3, <2>4, <3>1
    <3>5. PICK y \in Int : y = w * (j - 1)
      BY <3>1
    <3> QED
      BY <3>3, <3>4, <3>5
  <2>6. a - b < 24
    BY <2>2, <2>3 DEF IsSteady
  <2>7. /\ all[i].utc = c - a /\ all[i - 1].utc = d - b
        /\ all[i].nonexistent = at(i).nonexistent /\ all[i - 1].nonexistent = at(i - 1).nonexistent
    <3> HIDE DEF all, at, clock
    <3> QED
      BY <1>2, <2>1, <2>2, <2>3
  <2>8. all[i - 1].utc < all[i].utc
    BY <2>4, <2>5, <2>6, <2>7
  <2>9. ASSUME ~at(i - 1).nonexistent, ~at(i).nonexistent
        PROVE  all[i].shifted = (all[i].utc - all[i - 1].utc # 24 * days)
    <3>1. at(i).local = c /\ at(i - 1).local = d
      <4> HIDE DEF at, clock
      <4> QED
        BY <2>2, <2>3, <2>9 DEF IsShown
    <3>2. shift(i) = a /\ shift(i - 1) = b
      <4> HIDE DEF at, clock
      <4> QED
        BY <2>2, <2>3, <3>1
    <3>3. all[i].shifted = (i > 1 /\ shift(i) # shift(i - 1))
      BY <1>2, <2>1
    <3>4. (a # b) = (all[i].utc - all[i - 1].utc # 24 * days)
      <4>1. PICK x \in Int, y \in Int : x = all[i].utc /\ y = all[i - 1].utc /\ x = c - a /\ y = d - b
        BY <2>7
      <4> HIDE DEF all, at, clock, shift
      <4>2. x = c - a /\ y = d - b /\ c = d + w
        BY <2>5, <4>1
      <4>3. (a # b) <=> (x - y # w)
        BY <4>2
      <4>4. CASE a = b
        BY <2>4, <4>1, <4>3, <4>4
      <4>5. CASE a # b
        BY <2>4, <4>1, <4>3, <4>5
      <4> QED
        BY <4>4, <4>5
    <3> HIDE DEF all, shift
    <3> QED
      BY <2>1, <3>2, <3>3, <3>4
  <2> HIDE DEF all, at, shift, clock
  <2> QED
    BY <2>7, <2>8, <2>9
<1> HIDE DEF all
<1>5. /\ \A i \in 1..count : all[i].nonexistent \/ all[i].local % 24 = start % 24
      /\ \A i \in 2..count :
           /\ all[i - 1].utc < all[i].utc
           /\ ~all[i - 1].nonexistent /\ ~all[i].nonexistent =>
                (all[i].shifted <=> all[i].utc - all[i - 1].utc # 24 * days)
  BY <1>3, <1>4
<1> QED
  BY <1>5 DEF AppointmentsKeepTheirTime, all

-----------------------------------------------------------------------------
(* Business days.                                                          *)

\* A calendar with an open day within thirty days of any day, both ways, whatever
\* closes the others.
IsOpenOften(calendar) ==
  \A d \in Int : /\ \E e \in d..(d + Reach) : IsBusiness(calendar, e)
                 /\ \E e \in (d - Reach)..d : IsBusiness(calendar, e)

\* Of some days of an interval one is the first, and one is the last.
LEMMA FirstAndLast ==
  ASSUME NEW low \in Int, NEW high \in Int, NEW S \in SUBSET (low..high), S # {}
  PROVE  /\ Min(S) \in S /\ \A y \in S : Min(S) <= y
         /\ Max(S) \in S /\ \A y \in S : Max(S) >= y
<1>1. PICK s \in S : s \in low..high
  OBVIOUS
<1>2. \A y \in S : y \in Int /\ low <= y /\ y <= high
  OBVIOUS
<1>3. Max(S) \in S /\ \A y \in S : Max(S) >= y
  <2> DEFINE U == {u \in Nat : low + u \in S}
  <2>1. U \in SUBSET Nat /\ U # {} /\ high - low \in Nat /\ \A u \in U : u <= high - low
    <3>1. s - low \in Nat /\ low + (s - low) = s /\ high - low \in Nat
      BY <1>1
    <3>2. s - low \in U
      BY <3>1
    <3>3. ASSUME NEW u \in U PROVE u <= high - low
      <4>1. u \in Nat /\ low + u <= high
        BY <1>2
      <4> QED
        BY <4>1
    <3> QED
      BY <3>1, <3>2, <3>3
  <2>2. PICK u \in U : \A v \in U : u >= v
    <3> HIDE DEF U
    <3> QED
      BY <2>1, LargestOf
  <2>3. u \in Nat /\ low + u \in S
    OBVIOUS
  <2>4. ASSUME NEW y \in S PROVE low + u >= y
    <3>1. y - low \in U
      <4>1. y - low \in Nat /\ low + (y - low) = y
        BY <1>2
      <4> QED
        BY <4>1
    <3>2. u >= y - low
      BY <2>2, <3>1
    <3> QED
      BY <1>2, <2>3, <3>2
  <2>5. PICK x \in S : x = low + u
    BY <2>3
  <2>6. \E z \in S : \A y \in S : z >= y
    BY <2>4, <2>5
  <2> QED
    BY <2>6 DEF Max
<1>4. Min(S) \in S /\ \A y \in S : Min(S) <= y
  <2> DEFINE U == {u \in Nat : high - u \in S}
  <2>1. U \in SUBSET Nat /\ U # {} /\ high - low \in Nat /\ \A u \in U : u <= high - low
    <3>1. high - s \in Nat /\ high - (high - s) = s /\ high - low \in Nat
      BY <1>1
    <3>2. high - s \in U
      BY <3>1
    <3>3. ASSUME NEW u \in U PROVE u <= high - low
      <4>1. u \in Nat /\ low <= high - u
        BY <1>2
      <4> QED
        BY <4>1
    <3> QED
      BY <3>1, <3>2, <3>3
  <2>2. PICK u \in U : \A v \in U : u >= v
    <3> HIDE DEF U
    <3> QED
      BY <2>1, LargestOf
  <2>3. u \in Nat /\ high - u \in S
    OBVIOUS
  <2>4. ASSUME NEW y \in S PROVE high - u <= y
    <3>1. high - y \in U
      <4>1. high - y \in Nat /\ high - (high - y) = y
        BY <1>2
      <4> QED
        BY <4>1
    <3>2. u >= high - y
      BY <2>2, <3>1
    <3> QED
      BY <1>2, <2>3, <3>2
  <2>5. PICK x \in S : x = high - u
    BY <2>3
  <2>6. \E z \in S : \A y \in S : z <= y
    BY <2>4, <2>5
  <2> QED
    BY <2>6 DEF Min
<1> QED
  BY <1>3, <1>4

\* A day is open, and no day in between is.
OpenAfter(calendar, from, day) ==
  /\ day \in Int /\ from <= day /\ IsBusiness(calendar, day)
  /\ \A e \in Int : from <= e /\ e < day => ~IsBusiness(calendar, e)
OpenBefore(calendar, from, day) ==
  /\ day \in Int /\ day <= from /\ IsBusiness(calendar, day)
  /\ \A e \in Int : day < e /\ e <= from => ~IsBusiness(calendar, e)

\* The days are looked for one after the other, until one is open.
LEMMA Rolls ==
  ASSUME NEW calendar, IsOpenOften(calendar), NEW from \in Int
  PROVE  OpenAfter(calendar, from, Roll(calendar, from, 1)) /\ OpenBefore(calendar, from, Roll(calendar, from, -1))
<1>1. PICK reach \in Nat : reach = Reach
  BY DEF Reach
<1>2. OpenAfter(calendar, from, Roll(calendar, from, 1))
  <2> DEFINE S == BusinessIn(calendar, from, from + reach)
  <2>1. S \in SUBSET (from..(from + reach)) /\ S # {} /\ \A d \in S : IsBusiness(calendar, d)
    BY <1>1 DEF BusinessIn, IsOpenOften
  <2>2. Roll(calendar, from, 1) = Min(S)
    BY <1>1 DEF Roll
  <2>3. from + reach \in Int
    OBVIOUS
  <2>4. Min(S) \in S /\ \A y \in S : Min(S) <= y
    <3> HIDE DEF S
    <3> QED
      BY <2>1, <2>3, FirstAndLast
  <2>5. PICK m \in from..(from + reach) : m = Min(S)
    BY <2>1, <2>4
  <2>6. ASSUME NEW e \in Int, from <= e, e < m PROVE ~IsBusiness(calendar, e)
    <3> SUFFICES ASSUME IsBusiness(calendar, e) PROVE FALSE
      OBVIOUS
    <3>1. e \in from..(from + reach)
      BY <2>5, <2>6
    <3>2. e \in S
      BY <3>1 DEF BusinessIn
    <3>3. m <= e
      BY <2>4, <2>5, <3>2
    <3> QED
      BY <2>5, <2>6, <3>3
  <2>7. IsBusiness(calendar, m)
    BY <2>1, <2>4, <2>5
  <2> HIDE DEF S
  <2> QED
    BY <2>2, <2>5, <2>6, <2>7 DEF OpenAfter
<1>3. OpenBefore(calendar, from, Roll(calendar, from, -1))
  <2> DEFINE S == BusinessIn(calendar, from - reach, from)
  <2>1. S \in SUBSET ((from - reach)..from) /\ S # {} /\ \A d \in S : IsBusiness(calendar, d)
    BY <1>1 DEF BusinessIn, IsOpenOften
  <2>2. Roll(calendar, from, -1) = Max(S)
    BY <1>1 DEF Roll
  <2>3. from - reach \in Int
    OBVIOUS
  <2>4. Max(S) \in S /\ \A y \in S : Max(S) >= y
    <3> HIDE DEF S
    <3> QED
      BY <2>1, <2>3, FirstAndLast
  <2>5. PICK m \in (from - reach)..from : m = Max(S)
    BY <2>1, <2>4
  <2>6. ASSUME NEW e \in Int, m < e, e <= from PROVE ~IsBusiness(calendar, e)
    <3> SUFFICES ASSUME IsBusiness(calendar, e) PROVE FALSE
      OBVIOUS
    <3>1. e \in (from - reach)..from
      BY <2>5, <2>6
    <3>2. e \in S
      BY <3>1 DEF BusinessIn
    <3>3. m >= e
      BY <2>4, <2>5, <3>2
    <3> QED
      BY <2>5, <2>6, <3>3
  <2>7. IsBusiness(calendar, m)
    BY <2>1, <2>4, <2>5
  <2> HIDE DEF S
  <2> QED
    BY <2>2, <2>5, <2>6, <2>7 DEF OpenBefore
<1> QED
  BY <1>2, <1>3

\* From an open day there is nowhere to roll.
LEMMA Stays ==
  ASSUME NEW calendar, IsOpenOften(calendar), NEW day \in Int, IsBusiness(calendar, day)
  PROVE  Roll(calendar, day, 1) = day /\ Roll(calendar, day, -1) = day
<1>1. PICK a \in Int, b \in Int : a = Roll(calendar, day, 1) /\ b = Roll(calendar, day, -1)
  BY Rolls DEF OpenAfter, OpenBefore
<1>2. OpenAfter(calendar, day, a) /\ OpenBefore(calendar, day, b)
  BY <1>1, Rolls
<1>3. ~(day < a) /\ ~(b < day)
  BY <1>2 DEF OpenAfter, OpenBefore
<1>4. day <= a /\ b <= day
  BY <1>2 DEF OpenAfter, OpenBefore
<1> QED
  BY <1>1, <1>3, <1>4

\* One open day after the other, so many times.
IsWalk(calendar, w, n) ==
  /\ w \in [0..n -> Int]
  /\ \A k \in 0..n : IsBusiness(calendar, w[k])
  /\ \A k \in 1..n : w[k - 1] < w[k] /\ \A e \in Int : w[k - 1] < e /\ e < w[k] => ~IsBusiness(calendar, e)

\* Business days are added step by step.
StepsOn(calendar, w, n, from, step) ==
  /\ w \in [0..n -> Int] /\ w[0] = Roll(calendar, from, step)
  /\ \A k \in 1..n : w[k] = Roll(calendar, w[k - 1] + step, step)

\* How many steps there are to take, and which way.
IsSoMany(days, n, step) ==
  (days >= 0 /\ n = days /\ step = 1) \/ (days < 0 /\ n = -days /\ step = -1)

\* There are such steps, and they lead to the answer.
LEMMA StepsLead ==
  ASSUME NEW calendar, IsOpenOften(calendar), NEW from \in Int, NEW days \in Int,
         NEW n \in Nat, NEW step, IsSoMany(days, n, step)
  PROVE  \E w : StepsOn(calendar, w, n, from, step) /\ AddBusinessDays(calendar, from, days) = w[n]
<1> DEFINE base == Roll(calendar, from, step)
           f == [i \in 1..n |-> i]
           F == [p \in Int \X (1..n) |-> Roll(calendar, p[1] + step, step)]
           iter[s \in SUBSET (DOMAIN f)] ==
             IF s = {} THEN base ELSE Roll(calendar, iter[s \ {Max(s)}] + step, step)
<1>1. step \in {1, -1} /\ step \in Int
  BY DEF IsSoMany
<1>2. ASSUME NEW d \in Int PROVE Roll(calendar, d, step) \in Int
  BY <1>1, Rolls DEF OpenAfter, OpenBefore
<1>3. DOMAIN f = 1..n
  OBVIOUS
<1>4. AddBusinessDays(calendar, from, days) = iter[DOMAIN f]
  <2>1. (IF days >= 0 THEN 1 ELSE -1) = step /\ (IF days >= 0 THEN days ELSE -days) = n
    BY DEF IsSoMany
  <2> QED
    BY <2>1, ZenonT(40) DEF AddBusinessDays, FoldLeft, MapThenFoldSet
<1>5. base \in Int
  BY <1>2
<1> HIDE DEF base
<1>6. F \in [Int \X (1..n) -> Int]
  BY <1>1, <1>2
<1>7. iter = [s \in SUBSET (1..n) |-> IF s = {} THEN base ELSE Roll(calendar, iter[s \ {Max(s)}] + step, step)]
  <2>1. PICK g : IsFold(g, Int, base, n, F)
    <3> HIDE DEF F
    <3> QED
      BY <1>5, <1>6, FoldExists
  <2>2. ASSUME NEW s \in SUBSET (1..n), s # {} PROVE g[s] = Roll(calendar, g[s \ {Max(s)}] + step, step)
    <3>1. Max(s) \in 1..n
      BY <2>2, LastOne
    <3>2. g[s \ {Max(s)}] \in Int
      BY <2>1 DEF IsFold
    <3> QED
      BY <2>1, <2>2, <3>1, <3>2 DEF IsFold
  <2>3. g = [s \in SUBSET (1..n) |-> IF s = {} THEN base ELSE Roll(calendar, g[s \ {Max(s)}] + step, step)]
    BY <2>1, <2>2 DEF IsFold
  <2> QED
    BY <1>3, <2>3
<1> HIDE DEF iter
<1>8. PICK w : LeadsTo(w, Int, base, n, F, iter[1..n])
  <2>1. iter[{}] = base
    BY <1>7
  <2>2. ASSUME NEW s \in SUBSET (1..n), s # {}, iter[s \ {Max(s)}] \in Int
        PROVE  iter[s] = F[<<iter[s \ {Max(s)}], Max(s)>>]
    <3>1. Max(s) \in 1..n
      BY <2>2, LastOne
    <3> QED
      BY <1>7, <2>2, <3>1
  <2> HIDE DEF F
  <2>3. GoesBy(iter, Int, base, n, F)
    BY <2>1, <2>2 DEF GoesBy
  <2> QED
    BY <1>5, <1>6, <2>3, StepsOf
<1>9. w \in [0..n -> Int] /\ w[0] = base /\ w[n] = iter[1..n]
  BY <1>8 DEF LeadsTo, IsSteps
<1>10. ASSUME NEW k \in 1..n PROVE w[k] = Roll(calendar, w[k - 1] + step, step)
  <2>1. w[k] = F[<<w[k - 1], k>>]
    BY <1>8 DEF LeadsTo, IsSteps
  <2>2. k - 1 \in 0..n
    OBVIOUS
  <2>3. w[k - 1] \in Int
    BY <1>9, <2>2
  <2> QED
    BY <2>1, <2>3
<1>11. StepsOn(calendar, w, n, from, step)
  BY <1>9, <1>10 DEF StepsOn, base
<1> QED
  BY <1>3, <1>4, <1>9, <1>11

\* Steps forward are a walk.
LEMMA WalkForward ==
  ASSUME NEW calendar, IsOpenOften(calendar), NEW from \in Int, NEW n \in Nat,
         NEW w, StepsOn(calendar, w, n, from, 1)
  PROVE  IsWalk(calendar, w, n) /\ OpenAfter(calendar, from, w[0])
<1>1. w \in [0..n -> Int] /\ OpenAfter(calendar, from, w[0])
  BY Rolls DEF StepsOn
<1>2. ASSUME NEW k \in 1..n PROVE OpenAfter(calendar, w[k - 1] + 1, w[k]) /\ w[k - 1] \in Int /\ w[k] \in Int
  <2>1. k - 1 \in 0..n /\ k \in 0..n
    OBVIOUS
  <2>2. w[k - 1] \in Int /\ w[k] \in Int /\ w[k - 1] + 1 \in Int
    BY <1>1, <2>1
  <2> QED
    BY <2>2, Rolls DEF StepsOn
<1>3. ASSUME NEW k \in 1..n
      PROVE  /\ w[k - 1] < w[k] /\ IsBusiness(calendar, w[k])
             /\ \A e \in Int : w[k - 1] < e /\ e < w[k] => ~IsBusiness(calendar, e)
  <2>1. \A e \in Int : w[k - 1] < e => w[k - 1] + 1 <= e
    BY <1>2
  <2> QED
    BY <1>2, <2>1 DEF OpenAfter
<1>4. ASSUME NEW k \in 0..n PROVE IsBusiness(calendar, w[k])
  <2>1. CASE k = 0
    BY <1>1, <2>1 DEF OpenAfter
  <2>2. CASE k \in 1..n
    BY <1>3, <2>2
  <2> QED
    BY <2>1, <2>2
<1> QED
  BY <1>1, <1>3, <1>4 DEF IsWalk

\* Steps back are one too, from the last to the first.
LEMMA WalkBack ==
  ASSUME NEW calendar, IsOpenOften(calendar), NEW from \in Int, NEW n \in Nat,
         NEW w, StepsOn(calendar, w, n, from, -1)
  PROVE  IsWalk(calendar, [k \in 0..n |-> w[n - k]], n)
<1> DEFINE u == [k \in 0..n |-> w[n - k]]
<1>1. w \in [0..n -> Int] /\ OpenBefore(calendar, from, w[0])
  BY Rolls DEF StepsOn
<1>2. ASSUME NEW k \in 1..n PROVE OpenBefore(calendar, w[k - 1] + (-1), w[k]) /\ w[k - 1] \in Int /\ w[k] \in Int
  <2>1. k - 1 \in 0..n /\ k \in 0..n
    OBVIOUS
  <2>2. w[k - 1] \in Int /\ w[k] \in Int /\ w[k - 1] + (-1) \in Int
    BY <1>1, <2>1
  <2> QED
    BY <2>2, Rolls DEF StepsOn
<1>3. ASSUME NEW k \in 1..n
      PROVE  /\ w[k] < w[k - 1] /\ IsBusiness(calendar, w[k])
             /\ \A e \in Int : w[k] < e /\ e < w[k - 1] => ~IsBusiness(calendar, e)
  <2>1. \A e \in Int : e < w[k - 1] => e <= w[k - 1] + (-1)
    BY <1>2
  <2> QED
    BY <1>2, <2>1 DEF OpenBefore
<1>4. ASSUME NEW k \in 0..n PROVE IsBusiness(calendar, w[k])
  <2>1. CASE k = 0
    BY <1>1, <2>1 DEF OpenBefore
  <2>2. CASE k \in 1..n
    BY <1>3, <2>2
  <2> QED
    BY <2>1, <2>2
<1>5. u \in [0..n -> Int] /\ \A k \in 0..n : IsBusiness(calendar, u[k])
  <2>1. ASSUME NEW k \in 0..n PROVE n - k \in 0..n
    OBVIOUS
  <2> QED
    BY <1>1, <1>4, <2>1
<1>6. ASSUME NEW k \in 1..n
      PROVE  u[k - 1] < u[k] /\ \A e \in Int : u[k - 1] < e /\ e < u[k] => ~IsBusiness(calendar, e)
  <2>1. PICK j \in 1..n : j = n - (k - 1) /\ j - 1 = n - k
    OBVIOUS
  <2>2. k - 1 \in 0..n /\ k \in 0..n
    OBVIOUS
  <2>3. u[k - 1] = w[j] /\ u[k] = w[j - 1]
    BY <2>1, <2>2
  <2> QED
    BY <1>3, <2>3
<1> HIDE DEF u
<1>7. IsWalk(calendar, u, n)
  BY <1>5, <1>6 DEF IsWalk
<1> QED
  BY <1>7 DEF u

\* A walk goes up, and counts one open day more than it has steps.
LEMMA WalkCounts ==
  ASSUME NEW calendar, NEW n \in Nat, NEW w, IsWalk(calendar, w, n)
  PROVE  /\ w[0] \in Int /\ w[n] \in Int /\ w[0] <= w[n]
         /\ Cardinality(BusinessIn(calendar, w[0], w[n])) = n + 1
<1> DEFINE Good(k) == /\ w[0] <= w[k]
                      /\ IsFiniteSet(BusinessIn(calendar, w[0], w[k]))
                      /\ Cardinality(BusinessIn(calendar, w[0], w[k])) = k + 1
           P == {k \in Nat : k <= n => Good(k)}
<1>1. \A k \in 0..n : w[k] \in Int /\ IsBusiness(calendar, w[k])
  BY DEF IsWalk
<1>2. 0 \in P
  <2>1. w[0] \in Int /\ IsBusiness(calendar, w[0])
    BY <1>1
  <2>2. BusinessIn(calendar, w[0], w[0]) = {w[0]}
    BY <2>1 DEF BusinessIn
  <2>3. IsFiniteSet({w[0]}) /\ Cardinality({w[0]}) = 0 + 1
    <3>1. IsFiniteSet({w[0]}) /\ Cardinality({w[0]}) = 1
      BY FS_Singleton
    <3> QED
      BY <3>1
  <2>4. Good(0)
    BY <2>1, <2>2, <2>3
  <2> QED
    BY <2>4
<1>3. ASSUME NEW k \in Nat, k \in P PROVE k + 1 \in P
  <2> SUFFICES ASSUME k + 1 <= n PROVE Good(k + 1)
    OBVIOUS
  <2>1. Good(k)
    BY <1>3
  <2>2. k \in 0..n /\ k + 1 \in 0..n /\ k + 1 \in 1..n /\ 0 \in 0..n /\ (k + 1) - 1 = k
    OBVIOUS
  <2>3. PICK a \in Int, b \in Int, c \in Int : a = w[0] /\ b = w[k] /\ c = w[k + 1]
    BY <1>1, <2>2
  <2>4. /\ b < c /\ IsBusiness(calendar, c)
        /\ \A e \in Int : b < e /\ e < c => ~IsBusiness(calendar, e)
    BY <1>1, <2>2, <2>3 DEF IsWalk
  <2>5. a <= b
    BY <2>1, <2>3
  <2>6. BusinessIn(calendar, a, c) = BusinessIn(calendar, a, b) \cup {c} /\ c \notin BusinessIn(calendar, a, b)
    <3>1. ASSUME NEW e PROVE e \in a..c /\ IsBusiness(calendar, e) <=> (e \in a..b /\ IsBusiness(calendar, e)) \/ e = c
      BY <2>4, <2>5
    <3>2. c \notin a..b
      BY <2>4
    <3> QED
      BY <3>1, <3>2 DEF BusinessIn
  <2>7. /\ IsFiniteSet(BusinessIn(calendar, a, b))
        /\ Cardinality(BusinessIn(calendar, a, b)) = k + 1
    BY <2>1, <2>3
  <2>8. /\ IsFiniteSet(BusinessIn(calendar, a, c))
        /\ Cardinality(BusinessIn(calendar, a, c)) = (k + 1) + 1
    BY <2>6, <2>7, FS_AddElement
  <2> QED
    BY <2>3, <2>4, <2>5, <2>8
<1> HIDE DEF P
<1>4. n \in P
  BY <1>2, <1>3, EachNatural
<1>5. Good(n)
  BY <1>4 DEF P
<1> QED
  BY <1>1, <1>5

\* Walks of one length that meet at one end meet at the other.
LEMMA WalksMeet ==
  ASSUME NEW calendar, NEW n \in Nat, NEW w, NEW v, IsWalk(calendar, w, n), IsWalk(calendar, v, n)
  PROVE  /\ w[0] = v[0] => w[n] = v[n]
         /\ w[n] = v[n] => w[0] = v[0]
<1>1. /\ \A k \in 0..n : w[k] \in Int /\ IsBusiness(calendar, w[k]) /\ v[k] \in Int /\ IsBusiness(calendar, v[k])
      /\ \A k \in 1..n :
           /\ w[k - 1] < w[k] /\ \A e \in Int : w[k - 1] < e /\ e < w[k] => ~IsBusiness(calendar, e)
           /\ v[k - 1] < v[k] /\ \A e \in Int : v[k - 1] < e /\ e < v[k] => ~IsBusiness(calendar, e)
  BY DEF IsWalk
<1>2. ASSUME NEW k \in 1..n PROVE w[k - 1] = v[k - 1] <=> w[k] = v[k]
  <2>1. k - 1 \in 0..n /\ k \in 0..n
    OBVIOUS
  <2>2. PICK a \in Int, b \in Int, c \in Int, d \in Int : a = w[k - 1] /\ b = w[k] /\ c = v[k - 1] /\ d = v[k]
    BY <1>1, <2>1
  <2>3. /\ IsBusiness(calendar, a) /\ IsBusiness(calendar, b) /\ IsBusiness(calendar, c) /\ IsBusiness(calendar, d)
        /\ a < b /\ ~(a < c /\ c < b) /\ ~(a < d /\ d < b)
        /\ c < d /\ ~(c < a /\ a < d) /\ ~(c < b /\ b < d)
    BY <1>1, <2>1, <2>2
  <2> QED
    BY <2>2, <2>3
<1>3. ASSUME w[0] = v[0] PROVE w[n] = v[n]
  <2> DEFINE P == {k \in Nat : k <= n => w[k] = v[k]}
  <2>1. 0 \in P
    BY <1>3
  <2>2. ASSUME NEW k \in Nat, k \in P PROVE k + 1 \in P
    <3> SUFFICES ASSUME k + 1 <= n PROVE w[k + 1] = v[k + 1]
      OBVIOUS
    <3>1. k + 1 \in 1..n /\ (k + 1) - 1 = k /\ w[k] = v[k]
      BY <2>2
    <3> QED
      BY <1>2, <3>1
  <2> HIDE DEF P
  <2>3. n \in P
    BY <2>1, <2>2, EachNatural
  <2> QED
    BY <2>3 DEF P
<1>4. ASSUME w[n] = v[n] PROVE w[0] = v[0]
  <2> DEFINE P == {k \in Nat : k <= n => w[n - k] = v[n - k]}
  <2>1. 0 \in P
    <3>1. n - 0 = n
      OBVIOUS
    <3> QED
      BY <1>4, <3>1
  <2>2. ASSUME NEW k \in Nat, k \in P PROVE k + 1 \in P
    <3> SUFFICES ASSUME k + 1 <= n PROVE w[n - (k + 1)] = v[n - (k + 1)]
      OBVIOUS
    <3>1. n - k \in 1..n /\ (n - k) - 1 = n - (k + 1) /\ w[n - k] = v[n - k]
      BY <2>2
    <3> QED
      BY <1>2, <3>1
  <2> HIDE DEF P
  <2>3. n \in P
    BY <2>1, <2>2, EachNatural
  <2>4. n - n = 0
    OBVIOUS
  <2> QED
    BY <2>3, <2>4 DEF P
<1> QED
  BY <1>3, <1>4

\* Both ends count, in either order.
LEMMA CountIs ==
  ASSUME NEW calendar, NEW a \in Int, NEW b \in Int, a <= b
  PROVE  /\ CountBusinessDays(calendar, a, b) = Cardinality(BusinessIn(calendar, a, b))
         /\ CountBusinessDays(calendar, b, a) = Cardinality(BusinessIn(calendar, a, b))
<1>1. \A S : S = {a, b} => Min(S) = a /\ Max(S) = b
  <2>1. Min({a, b}) = a /\ Max({a, b}) = b
    BY DEF Min, Max
  <2> QED
    BY <2>1
<1>2. {b, a} = {a, b}
  OBVIOUS
<1> QED
  BY <1>1, <1>2 DEF CountBusinessDays

\* The walk there: from the first open day to the answer, and back again.
LEMMA ThereAndBack ==
  ASSUME NEW calendar, IsOpenOften(calendar), NEW from \in Int, NEW days \in Int
  PROVE  LET start == Roll(calendar, from, IF days >= 0 THEN 1 ELSE -1)
             answer == AddBusinessDays(calendar, from, days)
         IN  /\ start \in Int /\ answer \in Int /\ IsBusiness(calendar, answer)
             /\ CountBusinessDays(calendar, start, answer) = 1 + (IF days >= 0 THEN days ELSE -days)
             /\ AddBusinessDays(calendar, answer, -days) = start
             /\ days >= 0 => OpenAfter(calendar, from, start) /\ start <= answer
<1> DEFINE start == Roll(calendar, from, IF days >= 0 THEN 1 ELSE -1)
           answer == AddBusinessDays(calendar, from, days)
           back == AddBusinessDays(calendar, answer, -days)
<1>1. CASE days >= 0
  <2>1. days \in Nat /\ start = Roll(calendar, from, 1)
    BY <1>1
  <2>2. PICK w : StepsOn(calendar, w, days, from, 1) /\ answer = w[days]
    <3>1. IsSoMany(days, days, 1)
      BY <1>1 DEF IsSoMany
    <3> QED
      BY <2>1, <3>1, StepsLead
  <2>3. IsWalk(calendar, w, days) /\ OpenAfter(calendar, from, w[0]) /\ w[0] = start
    BY <2>1, <2>2, WalkForward DEF StepsOn
  <2> HIDE DEF start, answer, back
  <2>4. /\ start \in Int /\ answer \in Int /\ start <= answer
        /\ Cardinality(BusinessIn(calendar, start, answer)) = days + 1
    BY <2>1, <2>2, <2>3, WalkCounts
  <2>5. IsBusiness(calendar, answer) /\ IsBusiness(calendar, start)
    BY <2>1, <2>2, <2>3 DEF IsWalk
  <2>6. CountBusinessDays(calendar, start, answer) = 1 + days
    BY <2>1, <2>4, CountIs
  <2>7. back = start
    <3>1. CASE days = 0
      <4>1. PICK v : StepsOn(calendar, v, 0, answer, 1) /\ AddBusinessDays(calendar, answer, 0) = v[0]
        <5>1. 0 \in Int /\ 0 \in Nat /\ IsSoMany(0, 0, 1)
          BY DEF IsSoMany
        <5> QED
          BY <2>4, <5>1, StepsLead
      <4>2. v[0] = answer
        BY <2>4, <2>5, <4>1, Stays DEF StepsOn
      <4>3. answer = start
        BY <2>2, <2>3, <3>1
      <4>4. -days = 0
        <5>1. PICK m \in Int : m = -days
          BY <2>1
        <5>2. m + days = 0
          BY <2>1, <5>1
        <5>3. m = 0
          BY <3>1, <5>2
        <5> QED
          BY <5>1, <5>3
      <4> QED
        BY <4>1, <4>2, <4>3, <4>4 DEF back
    <3>2. CASE days > 0
      <4>1. -days \in Int /\ IsSoMany(-days, days, -1)
        <5>1. \A m \in Int : m > 0 => -m \in Int /\ -m < 0 /\ m = -(-m)
          OBVIOUS
        <5> QED
          BY <3>2, <5>1 DEF IsSoMany
      <4>2. PICK v : StepsOn(calendar, v, days, answer, -1) /\ back = v[days]
        <5>1. PICK m \in Int : m = -days
          BY <4>1
        <5>2. IsSoMany(m, days, -1)
          BY <4>1, <5>1
        <5>3. \E v : StepsOn(calendar, v, days, answer, -1) /\ AddBusinessDays(calendar, answer, m) = v[days]
          BY <2>1, <2>4, <5>1, <5>2, StepsLead
        <5> QED
          BY <5>1, <5>3 DEF back
      <4> DEFINE u == [k \in 0..days |-> v[days - k]]
      <4>3. IsWalk(calendar, u, days)
        BY <2>1, <2>4, <4>2, WalkBack
      <4>4. u[days] = v[0] /\ u[0] = v[days]
        <5>1. days \in 0..days /\ 0 \in 0..days /\ days - days = 0 /\ days - 0 = days
          BY <2>1
        <5> QED
          BY <5>1
      <4>5. v[0] = answer
        BY <2>4, <2>5, <4>2, Stays DEF StepsOn
      <4> HIDE DEF u
      <4>6. u[0] = w[0]
        BY <2>1, <2>2, <2>3, <4>3, <4>4, <4>5, WalksMeet
      <4> QED
        BY <2>3, <4>2, <4>4, <4>6
    <3> QED
      BY <1>1, <3>1, <3>2
  <2>8. OpenAfter(calendar, from, start)
    BY <2>3
  <2> QED
    BY <1>1, <2>4, <2>5, <2>6, <2>7, <2>8 DEF start, answer, back
<1>2. CASE days < 0
  <2>1. PICK n \in Nat : n = -days /\ n >= 0 /\ -days \in Int
    BY <1>2
  <2>2. start = Roll(calendar, from, -1) /\ ~(days >= 0)
    BY <1>2
  <2>3. PICK w : StepsOn(calendar, w, n, from, -1) /\ answer = w[n]
    <3>1. IsSoMany(days, n, -1)
      BY <1>2, <2>1 DEF IsSoMany
    <3> QED
      BY <2>1, <3>1, StepsLead
  <2> DEFINE u == [k \in 0..n |-> w[n - k]]
  <2>4. IsWalk(calendar, u, n)
    BY <2>1, <2>3, WalkBack
  <2>5. u[0] = answer /\ u[n] = start
    <3>1. n \in 0..n /\ 0 \in 0..n /\ n - n = 0 /\ n - 0 = n
      BY <2>1
    <3>2. w[0] = start
      BY <2>2, <2>3 DEF StepsOn
    <3> QED
      BY <2>3, <3>1, <3>2
  <2> HIDE DEF start, answer, back, u
  <2>6. /\ start \in Int /\ answer \in Int /\ answer <= start
        /\ Cardinality(BusinessIn(calendar, answer, start)) = n + 1
    BY <2>1, <2>4, <2>5, WalkCounts
  <2>7. IsBusiness(calendar, answer)
    <3>1. 0 \in 0..n
      BY <2>1
    <3> QED
      BY <2>4, <2>5, <3>1 DEF IsWalk
  <2>8. CountBusinessDays(calendar, start, answer) = 1 + n
    BY <2>1, <2>6, CountIs
  <2>9. PICK v : StepsOn(calendar, v, n, answer, 1) /\ back = v[n]
    <3>1. IsSoMany(-days, n, 1)
      BY <2>1 DEF IsSoMany
    <3> QED
      BY <2>1, <2>6, <3>1, StepsLead, SMTT(30) DEF back
  <2>10. IsWalk(calendar, v, n) /\ v[0] = answer
    BY <2>1, <2>6, <2>7, <2>9, Stays, WalkForward DEF StepsOn
  <2>11. v[n] = u[n]
    BY <2>1, <2>4, <2>5, <2>10, WalksMeet
  <2> QED
    BY <1>2, <2>1, <2>2, <2>5, <2>6, <2>7, <2>8, <2>9, <2>11 DEF start, answer, back
<1> QED
  BY <1>1, <1>2

\* The days of an interval are finite in number, and further ones are more.
LEMMA MoreDays ==
  ASSUME NEW calendar, NEW low \in Int, NEW a \in Int, NEW b \in Int, a <= b
  PROVE  /\ IsFiniteSet(BusinessIn(calendar, low, a)) /\ Cardinality(BusinessIn(calendar, low, a)) \in Nat
         /\ Cardinality(BusinessIn(calendar, low, a)) = Cardinality(BusinessIn(calendar, low, b))
              <=> BusinessIn(calendar, a + 1, b) \cap (low..b) = {}
<1>1. \A c \in Int : IsFiniteSet(BusinessIn(calendar, low, c)) /\ Cardinality(BusinessIn(calendar, low, c)) \in Nat
  <2> TAKE c \in Int
  <2>1. IsFiniteSet(low..c)
    BY FS_Interval
  <2>2. BusinessIn(calendar, low, c) \subseteq low..c
    BY DEF BusinessIn
  <2>3. IsFiniteSet(BusinessIn(calendar, low, c))
    BY <2>1, <2>2, FS_Subset
  <2> QED
    BY <2>3, FS_CardinalityType
<1> DEFINE A == BusinessIn(calendar, low, a)
           B == BusinessIn(calendar, low, b)
<1>2. A \subseteq B /\ (B \ A) = BusinessIn(calendar, a + 1, b) \cap (low..b)
  BY DEF BusinessIn
<1>3. IsFiniteSet(A) /\ IsFiniteSet(B) /\ Cardinality(A) \in Nat /\ Cardinality(B) \in Nat
  BY <1>1
<1> HIDE DEF A, B
<1>4. A = B <=> Cardinality(A) = Cardinality(B)
  BY <1>2, <1>3, FS_Subset
<1>5. A = B <=> B \ A = {}
  BY <1>2
<1> QED
  BY <1>2, <1>3, <1>4, <1>5 DEF A, B

\* A day the count of a month reaches is the only one it reaches.
LEMMA OneDayEach ==
  ASSUME NEW calendar, NEW first \in Int, NEW d \in Int, NEW e \in Int,
         IsBusiness(calendar, d), IsBusiness(calendar, e), first <= d, first <= e,
         CountBusinessDays(calendar, first, d) = CountBusinessDays(calendar, first, e)
  PROVE  d = e
<1>1. /\ CountBusinessDays(calendar, first, d) = Cardinality(BusinessIn(calendar, first, d))
      /\ CountBusinessDays(calendar, first, e) = Cardinality(BusinessIn(calendar, first, e))
  BY CountIs
<1>2. ASSUME NEW a \in Int, NEW b \in Int, a < b, first <= a, IsBusiness(calendar, b)
      PROVE  Cardinality(BusinessIn(calendar, first, a)) # Cardinality(BusinessIn(calendar, first, b))
  <2>1. a <= b /\ b \in (a + 1)..b /\ b \in first..b
    BY <1>2
  <2>2. b \in BusinessIn(calendar, a + 1, b) \cap (first..b)
    BY <1>2, <2>1 DEF BusinessIn
  <2> QED
    BY <2>1, <2>2, MoreDays
<1>3. d < e \/ e < d \/ d = e
  OBVIOUS
<1> QED
  BY <1>1, <1>2, <1>3

\* For every calendar with an open day within thirty days of any day, both ways,
\* from every day and for every number of days: the answer is open, as many
\* open days away as were asked for, the way back leads to where the walk
\* started, and a month's n-th and last business day are the ones its count
\* gives (add_business_days, nth_business_day and last_business_day).
THEOREM EveryBusinessDayCounts ==
  ASSUME NEW calendar, IsOpenOften(calendar), NEW from \in Int, NEW n \in Int
  PROVE  AddsWhatItCounts(calendar, from, n)
<1> DEFINE start == Roll(calendar, from, IF n >= 0 THEN 1 ELSE -1)
           answer == AddBusinessDays(calendar, from, n)
           month == [first |-> from, last |-> from + 13]
<1>1. /\ start \in Int /\ answer \in Int /\ IsBusiness(calendar, answer)
      /\ CountBusinessDays(calendar, start, answer) = 1 + (IF n >= 0 THEN n ELSE -n)
      /\ AddBusinessDays(calendar, answer, -n) = start
      /\ n >= 0 => OpenAfter(calendar, from, start) /\ start <= answer
  BY ThereAndBack
<1>2. PICK last \in Int : last = from + 13 /\ from <= last
  OBVIOUS
<1>3. month.first = from /\ month.last = last
  BY <1>2
<1> HIDE DEF start, answer, month
<1>4. ASSUME n >= 0 PROVE NthBusinessDay(calendar, month, n + 1) = {answer} \cap (from..last)
  <2>1. OpenAfter(calendar, from, start) /\ start <= answer /\ from <= answer /\ from <= start
    BY <1>1, <1>4 DEF OpenAfter
  <2>2. BusinessIn(calendar, from, answer) = BusinessIn(calendar, start, answer)
    <3>1. \A e \in Int : from <= e /\ e <= answer /\ IsBusiness(calendar, e) => start <= e
      BY <1>1, <2>1 DEF OpenAfter
    <3> QED
      BY <1>1, <2>1, <3>1 DEF BusinessIn
  <2>3. CountBusinessDays(calendar, from, answer) = n + 1
    <3>1. CountBusinessDays(calendar, start, answer) = n + 1
      BY <1>1, <1>4
    <3> QED
      BY <1>1, <2>1, <2>2, <3>1, CountIs
  <2>4. ASSUME NEW d PROVE d \in NthBusinessDay(calendar, month, n + 1) <=> d = answer /\ d \in from..last
    <3>1. d \in NthBusinessDay(calendar, month, n + 1)
            <=> d \in from..last /\ IsBusiness(calendar, d) /\ CountBusinessDays(calendar, from, d) = n + 1
      BY <1>3 DEF NthBusinessDay, BusinessIn
    <3>2. ASSUME d \in from..last, IsBusiness(calendar, d), CountBusinessDays(calendar, from, d) = n + 1
          PROVE  d = answer
      <4>1. d \in Int /\ from <= d
        BY <3>2
      <4> QED
        BY <1>1, <2>1, <2>3, <3>2, <4>1, OneDayEach
    <3> QED
      BY <1>1, <2>3, <3>1, <3>2
  <2> QED
    BY <2>4
<1>5. NthBusinessDay(calendar, month, CountBusinessDays(calendar, from, last)) = LastBusinessDay(calendar, month)
  <2>1. ASSUME NEW d \in from..last
        PROVE  CountBusinessDays(calendar, from, d) = CountBusinessDays(calendar, from, last)
                 <=> BusinessIn(calendar, d + 1, last) = {}
    <3>1. d \in Int /\ from <= d /\ d <= last
      BY <1>2
    <3>2. BusinessIn(calendar, d + 1, last) \cap (from..last) = BusinessIn(calendar, d + 1, last)
      BY <3>1 DEF BusinessIn
    <3>3. /\ CountBusinessDays(calendar, from, d) = Cardinality(BusinessIn(calendar, from, d))
          /\ CountBusinessDays(calendar, from, last) = Cardinality(BusinessIn(calendar, from, last))
      BY <1>2, <3>1, CountIs
    <3> QED
      BY <3>1, <3>2, <3>3, MoreDays
  <2>2. BusinessIn(calendar, from, last) \subseteq from..last
    BY DEF BusinessIn
  <2> QED
    BY <1>3, <2>1, <2>2 DEF NthBusinessDay, LastBusinessDay
<1> QED
  BY <1>1, <1>3, <1>4, <1>5 DEF AddsWhatItCounts, start, answer, month

-----------------------------------------------------------------------------
(* Sums.                                                                   *)

\* The sums of the first numbers of a list, none of them to begin with.
SumsOf(v, f, n) == v \in [0..n -> Int] /\ v[0] = 0 /\ \A k \in 1..n : v[k] = v[k - 1] + f[k]

\* A total is the last of the sums.
LEMMA TotalIs ==
  ASSUME NEW n \in Nat, NEW f \in [1..n -> Int]
  PROVE  \E v : SumsOf(v, f, n) /\ Total(f) = v[n]
<1> DEFINE F == [p \in Int \X (1..n) |-> p[1] + f[p[2]]]
           iter[s \in SUBSET (DOMAIN f)] == IF s = {} THEN 0 ELSE iter[s \ {Max(s)}] + f[Max(s)]
<1>1. DOMAIN f = 1..n
  OBVIOUS
<1>2. Total(f) = iter[DOMAIN f]
  BY DEF Total, FoldLeft, MapThenFoldSet
<1>3. F \in [Int \X (1..n) -> Int]
  OBVIOUS
<1>0. 0 \in Int
  OBVIOUS
<1>4. iter = [s \in SUBSET (1..n) |-> IF s = {} THEN 0 ELSE iter[s \ {Max(s)}] + f[Max(s)]]
  <2>1. PICK g : IsFold(g, Int, 0, n, F)
    <3> HIDE DEF F
    <3> QED
      BY <1>0, <1>3, FoldExists
  <2>2. ASSUME NEW s \in SUBSET (1..n), s # {} PROVE g[s] = g[s \ {Max(s)}] + f[Max(s)]
    <3>1. Max(s) \in 1..n
      BY <2>2, LastOne
    <3>2. g[s \ {Max(s)}] \in Int
      BY <2>1 DEF IsFold
    <3> QED
      BY <2>1, <2>2, <3>1, <3>2 DEF IsFold
  <2>3. g = [s \in SUBSET (1..n) |-> IF s = {} THEN 0 ELSE g[s \ {Max(s)}] + f[Max(s)]]
    BY <2>1, <2>2 DEF IsFold
  <2> QED
    BY <1>1, <2>3
<1> HIDE DEF iter
<1>5. PICK v : LeadsTo(v, Int, 0, n, F, iter[1..n])
  <2>1. iter[{}] = 0
    BY <1>4
  <2>2. ASSUME NEW s \in SUBSET (1..n), s # {}, iter[s \ {Max(s)}] \in Int
        PROVE  iter[s] = F[<<iter[s \ {Max(s)}], Max(s)>>]
    <3>1. Max(s) \in 1..n
      BY <2>2, LastOne
    <3> QED
      BY <1>4, <2>2, <3>1
  <2> HIDE DEF F
  <2>3. GoesBy(iter, Int, 0, n, F)
    BY <2>1, <2>2 DEF GoesBy
  <2> QED
    BY <1>0, <1>3, <2>3, StepsOf
<1>6. v \in [0..n -> Int] /\ v[0] = 0 /\ v[n] = iter[1..n]
  BY <1>5 DEF LeadsTo, IsSteps
<1>7. ASSUME NEW k \in 1..n PROVE v[k] = v[k - 1] + f[k]
  <2>1. v[k] = F[<<v[k - 1], k>>]
    BY <1>5 DEF LeadsTo, IsSteps
  <2>2. k - 1 \in 0..n
    OBVIOUS
  <2>3. v[k - 1] \in Int
    BY <1>6, <2>2
  <2> QED
    BY <2>1, <2>3
<1>8. SumsOf(v, f, n)
  BY <1>6, <1>7 DEF SumsOf
<1> QED
  BY <1>1, <1>2, <1>6, <1>8

\* Two lists of sums that start together and go alike stay together.
LEMMA SumsAgree ==
  ASSUME NEW n \in Nat, NEW f \in [1..n -> Int], NEW v, NEW w, SumsOf(v, f, n), SumsOf(w, f, n)
  PROVE  v[n] = w[n]
<1> DEFINE P == {k \in Nat : k <= n => v[k] = w[k]}
<1>1. 0 \in P
  BY DEF SumsOf
<1>2. ASSUME NEW k \in Nat, k \in P PROVE k + 1 \in P
  <2>1. CASE k + 1 <= n
    <3>1. k + 1 \in 1..n /\ (k + 1) - 1 = k /\ k <= n
      BY <2>1
    <3>2. v[k + 1] = v[k] + f[k + 1] /\ w[k + 1] = w[k] + f[k + 1]
      BY <3>1 DEF SumsOf
    <3> QED
      BY <1>2, <3>1, <3>2
  <2>2. CASE ~(k + 1 <= n)
    BY <2>2
  <2> QED
    BY <2>1, <2>2
<1> HIDE DEF P
<1>3. n \in P
  BY <1>1, <1>2, EachNatural
<1> QED
  BY <1>3 DEF P

\* Whatever sums the numbers ends with their total.
LEMMA TotalOf ==
  ASSUME NEW n \in Nat, NEW f \in [1..n -> Int], NEW v, SumsOf(v, f, n)
  PROVE  Total(f) = v[n] /\ Total(f) \in Int
<1>1. PICK w : SumsOf(w, f, n) /\ Total(f) = w[n]
  BY TotalIs
<1>2. v[n] = w[n]
  BY <1>1, SumsAgree
<1>3. v[n] \in Int
  BY DEF SumsOf
<1> QED
  BY <1>1, <1>2, <1>3

\* One list is so many times a second and a third together, place by place.
IsMixed(h, a, f, g, n) == \A k \in 1..n : h[k] = a * f[k] + g[k]

\* And so is one total of two others.
MixTotals(h, a, f, g) ==
  /\ Total(f) \in Int /\ Total(g) \in Int /\ Total(h) \in Int
  /\ Total(h) = a * Total(f) + Total(g)

\* One follows from the other.
LEMMA MixedTotals ==
  ASSUME NEW n \in Nat, NEW a \in Int, NEW f \in [1..n -> Int], NEW g \in [1..n -> Int], NEW h \in [1..n -> Int],
         IsMixed(h, a, f, g, n)
  PROVE  MixTotals(h, a, f, g)
<1>1. PICK v : SumsOf(v, f, n) /\ Total(f) = v[n]
  BY TotalIs
<1>2. PICK w : SumsOf(w, g, n) /\ Total(g) = w[n]
  BY TotalIs
<1> DEFINE u == [k \in 0..n |-> a * v[k] + w[k]]
<1>3. v \in [0..n -> Int] /\ w \in [0..n -> Int] /\ v[0] = 0 /\ w[0] = 0
  BY <1>1, <1>2 DEF SumsOf
<1>4. \A k \in 0..n : u[k] \in Int
  BY <1>3
<1>5. ASSUME NEW k \in 1..n PROVE u[k] = u[k - 1] + h[k]
  <2>1. k - 1 \in 0..n /\ k \in 0..n
    OBVIOUS
  <2>2. PICK x \in Int, y \in Int, b \in Int, c \in Int : x = v[k - 1] /\ y = w[k - 1] /\ b = f[k] /\ c = g[k]
    BY <1>3, <2>1
  <2>3. v[k] = x + b /\ w[k] = y + c
    BY <1>1, <1>2, <2>2 DEF SumsOf
  <2>4. h[k] = a * b + c
    BY <2>2 DEF IsMixed
  <2>5. u[k] = a * (x + b) + (y + c) /\ u[k - 1] = a * x + y
    BY <2>1, <2>2, <2>3
  <2>6. a * (x + b) = a * x + a * b /\ a * x \in Int /\ a * b \in Int
    OBVIOUS
  <2> QED
    BY <2>4, <2>5, <2>6
<1>6. u[0] = 0
  BY <1>3
<1> HIDE DEF u
<1>7. SumsOf(u, h, n)
  <2>1. u = [k \in 0..n |-> u[k]]
    BY DEF u
  <2> QED
    BY <1>4, <1>5, <1>6, <2>1 DEF SumsOf
<1>8. Total(h) = u[n]
  BY <1>7, TotalOf
<1>9. u[n] = a * v[n] + w[n]
  BY DEF u
<1> QED
  BY <1>1, <1>2, <1>3, <1>4, <1>8, <1>9 DEF MixTotals

\* What is nowhere below zero has a total that is not either.
LEMMA TotalAtLeast ==
  ASSUME NEW n \in Nat, NEW f \in [1..n -> Int], \A k \in 1..n : f[k] >= 0
  PROVE  Total(f) \in Int /\ Total(f) >= 0
<1>1. PICK v : SumsOf(v, f, n) /\ Total(f) = v[n]
  BY TotalIs
<1>2. v \in [0..n -> Int] /\ v[0] = 0 /\ \A k \in 1..n : v[k] = v[k - 1] + f[k]
  BY <1>1 DEF SumsOf
<1> DEFINE P == {k \in Nat : k <= n => v[k] >= 0}
<1>3. 0 \in P
  BY <1>2
<1>4. ASSUME NEW k \in Nat, k \in P PROVE k + 1 \in P
  <2>1. CASE k + 1 <= n
    <3>1. k + 1 \in 1..n /\ (k + 1) - 1 = k /\ k <= n /\ k \in 0..n
      BY <2>1
    <3>2. v[k + 1] = v[k] + f[k + 1] /\ v[k] \in Int /\ f[k + 1] \in Int /\ f[k + 1] >= 0
      BY <1>2, <3>1
    <3> QED
      BY <1>4, <3>1, <3>2
  <2>2. CASE ~(k + 1 <= n)
    BY <2>2
  <2> QED
    BY <2>1, <2>2
<1> HIDE DEF P
<1>5. n \in P
  BY <1>3, <1>4, EachNatural
<1> QED
  BY <1>1, <1>2, <1>5 DEF P

\* One for every place of a set makes the size of the set.
Ones(A, n) == [k \in 1..n |-> IF k \in A THEN 1 ELSE 0]

\* Summed up, they are as many as it has members.
LEMMA TotalOfOnes ==
  ASSUME NEW n \in Nat, NEW A \in SUBSET (1..n)
  PROVE  Total(Ones(A, n)) = Cardinality(A) /\ Cardinality(A) \in Nat /\ IsFiniteSet(A)
<1> DEFINE f == Ones(A, n)
           upto(k) == {i \in A : i <= k}
           v == [k \in 0..n |-> Cardinality(upto(k))]
<1>1. f \in [1..n -> Int]
  BY DEF Ones
<1>2. IsFiniteSet(A)
  <2>1. IsFiniteSet(1..n)
    BY FS_Interval
  <2> QED
    BY <2>1, FS_Subset
<1>3. \A k : IsFiniteSet(upto(k)) /\ Cardinality(upto(k)) \in Nat
  <2> SUFFICES ASSUME NEW k PROVE IsFiniteSet(upto(k)) /\ Cardinality(upto(k)) \in Nat
    OBVIOUS
  <2>1. upto(k) \subseteq A
    OBVIOUS
  <2> HIDE DEF upto
  <2> QED
    BY <1>2, <2>1, FS_Subset, FS_CardinalityType
<1>4. ASSUME NEW k \in 1..n PROVE v[k] = v[k - 1] + f[k]
  <2>1. v[k] = Cardinality(upto(k)) /\ v[k - 1] = Cardinality(upto(k - 1))
    <3>1. k \in 0..n /\ k - 1 \in 0..n
      OBVIOUS
    <3> HIDE DEF upto
    <3> QED
      BY <3>1
  <2>2. CASE k \in A
    <3>1. upto(k) = upto(k - 1) \cup {k} /\ k \notin upto(k - 1)
      <4>1. k \in upto(k) /\ k \notin upto(k - 1)
        BY <2>2
      <4>2. ASSUME NEW i \in A PROVE i <= k <=> i <= k - 1 \/ i = k
        OBVIOUS
      <4> QED
        BY <4>1, <4>2
    <3>2. f[k] = 1
      BY <2>2 DEF Ones
    <3> HIDE DEF upto, f, v
    <3>3. Cardinality(upto(k)) = Cardinality(upto(k - 1)) + 1
      BY <1>3, <3>1, FS_AddElement
    <3> QED
      BY <2>1, <3>2, <3>3
  <2>3. CASE k \notin A
    <3>1. upto(k) = upto(k - 1)
      <4>1. ASSUME NEW i \in A PROVE i <= k <=> i <= k - 1
        BY <2>3
      <4> QED
        BY <4>1
    <3>2. f[k] = 0
      BY <2>3 DEF Ones
    <3> HIDE DEF upto, f, v
    <3> QED
      BY <1>3, <2>1, <3>1, <3>2
  <2> QED
    BY <2>2, <2>3
<1>5. upto(0) = {} /\ upto(n) = A
  <2>1. ASSUME NEW i \in A PROVE i <= n /\ ~(i <= 0)
    OBVIOUS
  <2> QED
    BY <2>1
<1>6. v \in [0..n -> Int] /\ v[0] = 0 /\ v[n] = Cardinality(A)
  <2>1. v[0] = Cardinality(upto(0)) /\ v[n] = Cardinality(upto(n))
    <3>1. 0 \in 0..n /\ n \in 0..n
      OBVIOUS
    <3> HIDE DEF upto
    <3> QED
      BY <3>1
  <2> HIDE DEF upto
  <2>2. v \in [0..n -> Int]
    BY <1>3
  <2> HIDE DEF v
  <2>3. Cardinality({}) = 0
    BY FS_EmptySet
  <2> QED
    BY <1>5, <2>1, <2>2, <2>3
<1> HIDE DEF f, v, upto
<1>7. SumsOf(v, f, n)
  BY <1>4, <1>6 DEF SumsOf
<1>8. Total(f) = v[n]
  BY <1>1, <1>7, TotalOf
<1>9. Cardinality(A) \in Nat
  BY <1>2, FS_CardinalityType
<1> QED
  BY <1>2, <1>6, <1>8, <1>9 DEF f

-----------------------------------------------------------------------------
(* What is allocated.                                                      *)

\* Those of the places that are among the first when sorted by score.
First(n, score, many) == {i \in 1..n : Cardinality(Ahead(1..n, ByScore(1..n, score), i)) < many}

\* So many places of a list sorted by what is left of them are as many, and
\* something is left of each, when what is left is so many wholes.
LEMMA LeftOver ==
  ASSUME NEW n \in Nat, NEW W \in Nat \ {0}, NEW left \in Int, NEW r \in [1..n -> Int],
         \A k \in 1..n : 0 <= r[k] /\ r[k] < W, Total(r) = W * left
  PROVE  /\ left \in Nat /\ Cardinality(First(n, r, left)) = left
         /\ \A i \in First(n, r, left) : r[i] > 0
<1> DEFINE B == First(n, r, left)
           A == {k \in 1..n : r[k] > 0}
           P == Cardinality(A)
           before == ByScore(1..n, r)
           ahead(i) == Cardinality(Ahead(1..n, before, i))
<1>1. Orders(1..n, before) /\ IsFiniteSet(1..n)
  BY ScoreOrders
<1>2. P \in Nat /\ IsFiniteSet(A) /\ Total(Ones(A, n)) = P
  <2>1. A \in SUBSET (1..n)
    OBVIOUS
  <2> HIDE DEF A
  <2> QED
    BY <2>1, TotalOfOnes
<1>3. W * left <= (W - 1) * P /\ W * left >= 0
  <2> DEFINE ones == Ones(A, n)
             none == Ones({}, n)
             m == [k \in 1..n |-> IF k \in A THEN W - 1 ELSE 0]
             g == [k \in 1..n |-> m[k] - r[k]]
  <2>1. ones \in [1..n -> Int] /\ none \in [1..n -> Int] /\ m \in [1..n -> Int]
    BY DEF Ones
  <2>2. g \in [1..n -> Int] /\ \A k \in 1..n : g[k] >= 0
    <3> SUFFICES ASSUME NEW k \in 1..n PROVE m[k] - r[k] \in Int /\ m[k] - r[k] >= 0
      OBVIOUS
    <3>1. 0 <= r[k] /\ r[k] < W /\ r[k] \in Int
      OBVIOUS
    <3> QED
      BY <3>1
  <2>3. IsMixed(m, W - 1, ones, none, n)
    <3> SUFFICES ASSUME NEW k \in 1..n PROVE m[k] = (W - 1) * ones[k] + none[k]
      BY DEF IsMixed
    <3>1. none[k] = 0 /\ ones[k] = IF k \in A THEN 1 ELSE 0
      BY DEF Ones
    <3>2. (W - 1) * 1 = W - 1 /\ (W - 1) * 0 = 0
      OBVIOUS
    <3> QED
      BY <3>1, <3>2
  <2>4. IsMixed(m, 1, g, r, n)
    <3> SUFFICES ASSUME NEW k \in 1..n PROVE m[k] = 1 * g[k] + r[k]
      BY DEF IsMixed
    <3>1. m[k] \in Int /\ r[k] \in Int /\ g[k] = m[k] - r[k]
      BY <2>1
    <3> HIDE DEF m, g
    <3> QED
      BY <3>1
  <2>5. Total(none) = 0
    <3>1. {} \in SUBSET (1..n) /\ Cardinality({}) = 0
      BY FS_EmptySet
    <3> QED
      BY <3>1, TotalOfOnes
  <2> HIDE DEF ones, none, m, g
  <2>6. PICK a \in Int, one \in Int : a = W - 1 /\ one = 1
    OBVIOUS
  <2>7. Total(m) = a * Total(ones) + Total(none)
    <3>1. IsMixed(m, a, ones, none, n)
      BY <2>3, <2>6
    <3>2. MixTotals(m, a, ones, none)
      BY <2>1, <3>1, MixedTotals
    <3> QED
      BY <3>2 DEF MixTotals
  <2>8. Total(m) = one * Total(g) + Total(r) /\ Total(g) \in Int /\ Total(r) \in Int /\ Total(m) \in Int
    <3>1. IsMixed(m, one, g, r, n)
      BY <2>4, <2>6
    <3>2. MixTotals(m, one, g, r)
      BY <2>1, <2>2, <3>1, MixedTotals
    <3> QED
      BY <3>2 DEF MixTotals
  <2>9. Total(g) >= 0 /\ Total(r) >= 0
    BY <2>2, TotalAtLeast
  <2>10. Total(ones) = P
    BY <1>2 DEF ones
  <2>11. Total(m) = (W - 1) * P
    <3>1. \A y \in Int, z \in Int : y * z \in Int
      OBVIOUS
    <3>2. a * P \in Int
      BY <1>2, <3>1
    <3>3. Total(m) = a * P + 0
      BY <2>5, <2>7, <2>10
    <3> QED
      BY <2>6, <3>2, <3>3
  <2> QED
    BY <2>6, <2>8, <2>9, <2>11
<1> HIDE DEF A, P
<1>4. left \in Nat
  <2> SUFFICES ASSUME left < 0 PROVE FALSE
    OBVIOUS
  <2>1. W * left < 0
    <3>1. \A x \in Nat, y \in Nat : x # 0 /\ y # 0 => x * y > 0 /\ x * (-y) = -(x * y)
      OBVIOUS
    <3>2. PICK y \in Nat : left = -y /\ y # 0
      OBVIOUS
    <3> QED
      BY <3>1, <3>2
  <2> QED
    BY <1>3, <2>1
<1>5. left <= P
  <2> SUFFICES ASSUME left > P PROVE FALSE
    BY <1>2, <1>4
  <2>1. \A p \in Nat, l \in Nat : p + 1 <= l => W * p + W <= W * l
    <3> SUFFICES ASSUME NEW p \in Nat, NEW l \in Nat, p + 1 <= l PROVE W * p + W <= W * l
      OBVIOUS
    <3>1. PICK d \in Nat : l = p + 1 + d
      <4>1. l - (p + 1) \in Nat /\ l = p + 1 + (l - (p + 1))
        OBVIOUS
      <4> QED
        BY <4>1
    <3>2. W * l = W * p + W + W * d /\ W * d \in Nat /\ W * p \in Nat
      BY <3>1
    <3> QED
      BY <3>2
  <2>2. PICK p \in Nat : p = P
    BY <1>2
  <2>3. W * p + W <= W * left
    BY <1>4, <2>1, <2>2
  <2>4. (W - 1) * p = W * p - p /\ W * p \in Int
    OBVIOUS
  <2>5. W * left <= (W - 1) * p
    BY <1>3, <2>2
  <2> QED
    BY <1>4, <2>3, <2>4, <2>5
<1>6. ASSUME NEW i \in B PROVE r[i] > 0
  <2> SUFFICES ASSUME ~(r[i] > 0) PROVE FALSE
    OBVIOUS
  <2>1. i \in 1..n /\ ahead(i) < left
    BY DEF First
  <2>2. r[i] = 0
    BY <2>1
  <2>3. A \subseteq Ahead(1..n, before, i)
    <3> SUFFICES ASSUME NEW k \in A PROVE k \in Ahead(1..n, before, i)
      OBVIOUS
    <3>1. k \in 1..n /\ r[k] > r[i]
      BY <2>2 DEF A
    <3>2. <<k, i>> \in before
      BY <2>1, <3>1 DEF ByScore
    <3> QED
      BY <3>1, <3>2 DEF Ahead
  <2>4. IsFiniteSet(Ahead(1..n, before, i)) /\ ahead(i) \in Nat
    <3>1. Ahead(1..n, before, i) \subseteq 1..n
      BY DEF Ahead
    <3> QED
      BY <1>1, <3>1, FS_Subset, FS_CardinalityType
  <2>5. P <= ahead(i)
    BY <2>3, <2>4, FS_Subset DEF P
  <2>6. PICK x \in Nat : x = ahead(i)
    BY <2>4
  <2>7. x < left /\ P <= x
    BY <2>1, <2>5, <2>6
  <2> QED
    BY <1>2, <1>4, <1>5, <2>7
<1>7. Cardinality(B) = left
  <2> DEFINE s == Sorted(1..n, before)
             f == [p \in 1..left |-> s[p]]
  <2>1. Cardinality(1..n) = n
    <3>1. Cardinality(1..n) = IF 1 > n THEN 0 ELSE n - 1 + 1
      BY FS_Interval
    <3> QED
      BY <3>1
  <2>2. /\ s \in [1..n -> 1..n] /\ Range(s) = 1..n
        /\ \A p \in 1..n : ahead(s[p]) = p - 1
    BY <1>1, <2>1, SortedIs
  <2>3. P <= n
    <3>1. A \subseteq 1..n
      BY DEF A
    <3> QED
      BY <1>1, <1>2, <2>1, <3>1, FS_Subset DEF P
  <2>4. \A p \in 1..left : p \in 1..n
    BY <1>2, <1>4, <1>5, <2>3
  <2> HIDE DEF s, ahead
  <2>5. B = {i \in 1..n : ahead(i) < left}
    BY DEF ahead, First
  <2>6. \A p \in 1..left : f[p] = s[p] /\ s[p] \in B
    <3> SUFFICES ASSUME NEW p \in 1..left PROVE f[p] = s[p] /\ s[p] \in B
      OBVIOUS
    <3>1. s[p] \in 1..n /\ ahead(s[p]) = p - 1
      BY <2>2, <2>4
    <3> QED
      BY <1>4, <2>5, <3>1
  <2>7. \A p, q \in 1..left : f[p] = f[q] => p = q
    <3> SUFFICES ASSUME NEW p \in 1..left, NEW q \in 1..left, f[p] = f[q] PROVE p = q
      OBVIOUS
    <3>1. p - 1 = q - 1
      BY <2>2, <2>4, <2>6
    <3> QED
      BY <1>4, <3>1
  <2>8. ASSUME NEW i \in B PROVE \E p \in 1..left : f[p] = i
    <3>1. i \in 1..n /\ ahead(i) < left
      BY <2>5
    <3>2. PICK p \in 1..n : s[p] = i
      BY <2>2, <3>1 DEF Range
    <3>3. p - 1 < left
      BY <2>2, <3>1, <3>2
    <3>4. p \in 1..left
      BY <1>4, <3>3
    <3> QED
      BY <2>6, <3>2, <3>4
  <2>9. f \in Bijection(1..left, B)
    <3>1. f = [p \in 1..left |-> f[p]]
      OBVIOUS
    <3> HIDE DEF f
    <3>2. f \in [1..left -> B]
      BY <2>6, <3>1
    <3> QED
      BY <2>7, <2>8, <3>2 DEF Bijection, Injection, Surjection, IsInjective
  <2>10. ExistsBijection(1..left, B)
    BY <2>9 DEF ExistsBijection
  <2>11. IsFiniteSet(1..left) /\ Cardinality(1..left) = left
    <3>1. 1 \in Int /\ left \in Int
      OBVIOUS
    <3>2. IsFiniteSet(1..left) /\ Cardinality(1..left) = IF 1 > left THEN 0 ELSE left - 1 + 1
      BY <3>1, FS_Interval
    <3> QED
      BY <1>4, <3>2
  <2> QED
    BY <2>10, <2>11, FS_Bijection
<1> QED
  BY <1>4, <1>6, <1>7

\* The floors f of shares, what is left of each, and those that get one more.
IsShared(n, w, M, W, f, r, B) ==
  /\ f \in [1..n -> Int] /\ r \in [1..n -> Int] /\ B = First(n, r, M - Total(f))
  /\ \A k \in 1..n : W * f[k] + r[k] = M * w[k] /\ f[k] >= 0 /\ 0 <= r[k] /\ r[k] < W
  /\ \A k \in B : r[k] > 0
  /\ LargestRemainder(w, M) = [k \in 1..n |-> f[k] + IF k \in B THEN 1 ELSE 0]
  /\ Total(LargestRemainder(w, M)) = M

\* What every share is: its floor, and one more for some of those of which
\* something was left.
LEMMA SharesAre ==
  ASSUME NEW n \in Nat, NEW w \in [1..n -> Int], \A k \in 1..n : w[k] >= 0, NEW M \in Nat,
         NEW W \in Nat \ {0}, W = Total(w)
  PROVE  \E f, r, B : IsShared(n, w, M, W, f, r, B)
<1> DEFINE f == [k \in 1..n |-> (M * w[k]) \div W]
           r == [k \in 1..n |-> (M * w[k]) % W]
           e == [k \in 1..n |-> M * w[k]]
           none == Ones({}, n)
           left == M - Total(f)
           B == First(n, r, left)
           s == LargestRemainder(w, M)
<1>1. ASSUME NEW k \in 1..n
      PROVE  /\ W * f[k] + r[k] = M * w[k] /\ f[k] \in Int /\ f[k] >= 0
             /\ r[k] \in Int /\ 0 <= r[k] /\ r[k] < W /\ e[k] = M * w[k] /\ e[k] \in Int
  <2>1. w[k] \in Nat
    OBVIOUS
  <2>2. \A x \in Nat, y \in Nat : x * y \in Nat
    OBVIOUS
  <2>3. PICK x \in Nat : x = M * w[k]
    BY <2>1, <2>2
  <2>4. W * (x \div W) + (x % W) = x /\ x \div W \in Nat /\ x % W \in Nat /\ x % W < W
    <3>1. x \div W \in Int /\ x % W \in 0..(W - 1)
      OBVIOUS
    <3>2. x = W * (x \div W) + (x % W)
      OBVIOUS
    <3>3. x \div W >= 0
      OBVIOUS
    <3> QED
      BY <3>1, <3>2, <3>3
  <2> QED
    BY <2>3, <2>4
<1>2. f \in [1..n -> Int] /\ r \in [1..n -> Int] /\ e \in [1..n -> Int] /\ none \in [1..n -> Int]
  <2>1. /\ f = [k \in 1..n |-> f[k]] /\ r = [k \in 1..n |-> r[k]] /\ e = [k \in 1..n |-> e[k]]
        /\ none \in [1..n -> Int]
    BY DEF Ones
  <2> HIDE DEF f, r, e
  <2> QED
    BY <1>1, <2>1
<1>3. s = [k \in 1..n |-> f[k] + IF k \in B THEN 1 ELSE 0]
  <2>1. DOMAIN w = 1..n /\ [i \in DOMAIN w |-> (M * w[i]) \div Total(w)] = f
    OBVIOUS
  <2>2. ASSUME NEW i \in 1..n
        PROVE  {j \in 1..n : \/ (M * w[j]) % Total(w) > (M * w[i]) % Total(w)
                             \/ ((M * w[j]) % Total(w) = (M * w[i]) % Total(w) /\ j < i)}
                 = Ahead(1..n, ByScore(1..n, r), i)
    <3>1. \A j \in 1..n : r[j] = (M * w[j]) % Total(w)
      OBVIOUS
    <3>2. \A j \in 1..n : <<j, i>> \in ByScore(1..n, r) <=> r[j] > r[i] \/ (r[j] = r[i] /\ j < i)
      BY DEF ByScore
    <3> HIDE DEF r
    <3> QED
      BY <3>1, <3>2 DEF Ahead
  <2>3. \A i \in 1..n : f[i] = (M * w[i]) \div Total(w)
    OBVIOUS
  <2>4. s = [i \in 1..n |-> (M * w[i]) \div Total(w) +
               IF Cardinality({j \in 1..n : \/ (M * w[j]) % Total(w) > (M * w[i]) % Total(w)
                                            \/ ((M * w[j]) % Total(w) = (M * w[i]) % Total(w) /\ j < i)}) < left
               THEN 1 ELSE 0]
    BY <2>1 DEF LargestRemainder
  <2>5. \A i \in 1..n : i \in B <=> Cardinality(Ahead(1..n, ByScore(1..n, r), i)) < left
    BY DEF First
  <2> HIDE DEF f, r, left, s, B
  <2> QED
    BY <2>2, <2>3, <2>4, <2>5
<1>4. PICK a \in Int, one \in Int, b \in Int : a = M /\ one = 1 /\ b = W
  OBVIOUS
<1>5. \A k \in 1..n : none[k] = 0
  BY DEF Ones
<1>6. Total(none) = 0
  <2>1. {} \in SUBSET (1..n) /\ Cardinality({}) = 0
    BY FS_EmptySet
  <2> QED
    BY <2>1, TotalOfOnes
<1> HIDE DEF f, r, e, none
<1>7. MixTotals(e, b, f, r)
  <2>1. IsMixed(e, b, f, r, n)
    BY <1>1, <1>4 DEF IsMixed
  <2> QED
    BY <1>2, <2>1, MixedTotals
<1>8. MixTotals(e, a, w, none)
  <2>1. IsMixed(e, a, w, none, n)
    <3> SUFFICES ASSUME NEW k \in 1..n PROVE e[k] = a * w[k] + none[k]
      BY DEF IsMixed
    <3> QED
      BY <1>1, <1>4, <1>5
  <2> QED
    BY <1>2, <2>1, MixedTotals
<1>9. left \in Int /\ Total(r) = W * left /\ Total(f) \in Int
  <2>1. PICK x \in Int, y \in Int : x = Total(f) /\ y = Total(r) /\ Total(e) = b * x + y
    BY <1>7 DEF MixTotals
  <2>2. Total(e) = a * Total(w) + 0
    BY <1>6, <1>8 DEF MixTotals
  <2>3. Total(e) = M * W
    <3>1. M * W \in Int
      OBVIOUS
    <3> QED
      BY <1>4, <2>2, <3>1
  <2>4. W * (M - x) = M * W - W * x
    OBVIOUS
  <2>5. y = M * W - W * x
    BY <1>4, <2>1, <2>3
  <2> QED
    BY <2>1, <2>4, <2>5
<1> HIDE DEF left
<1>10. left \in Nat /\ Cardinality(B) = left /\ \A i \in B : r[i] > 0
  <2>1. \A k \in 1..n : 0 <= r[k] /\ r[k] < W
    BY <1>1
  <2> QED
    BY <1>2, <1>9, <2>1, LeftOver
<1>11. B \in SUBSET (1..n) /\ B = First(n, r, M - Total(f))
  BY DEF left, First
<1> HIDE DEF B, s
<1>12. Total(s) = M
  <2> DEFINE ones == Ones(B, n)
  <2>1. ones \in [1..n -> Int] /\ \A k \in 1..n : ones[k] = IF k \in B THEN 1 ELSE 0
    BY DEF Ones
  <2>2. Total(ones) = left
    BY <1>10, <1>11, TotalOfOnes
  <2> HIDE DEF ones
  <2>3. s \in [1..n -> Int]
    BY <1>1, <1>3
  <2>4. IsMixed(s, one, f, ones, n)
    <3> SUFFICES ASSUME NEW k \in 1..n PROVE s[k] = one * f[k] + ones[k]
      BY DEF IsMixed
    <3>1. s[k] = f[k] + ones[k] /\ f[k] \in Int /\ ones[k] \in Int
      BY <1>1, <1>3, <2>1
    <3> QED
      BY <1>4, <3>1
  <2>5. MixTotals(s, one, f, ones)
    BY <1>2, <2>1, <2>3, <2>4, MixedTotals
  <2>6. Total(s) = one * Total(f) + left
    BY <2>2, <2>5 DEF MixTotals
  <2> QED
    BY <1>4, <1>9, <2>6 DEF left
<1>13. IsShared(n, w, M, W, f, r, B)
  <2>1. \A k \in 1..n : W * f[k] + r[k] = M * w[k] /\ f[k] >= 0 /\ 0 <= r[k] /\ r[k] < W
    BY <1>1
  <2>2. \A k \in B : r[k] > 0
    BY <1>10
  <2> QED
    BY <1>2, <1>3, <1>11, <1>12, <2>1, <2>2 DEF IsShared, s
<1> QED
  BY <1>13

\* What is fair.
AreFair(n, w, M, W, s) ==
  /\ s \in [1..n -> Int] /\ Total(s) = M
  /\ \A k \in 1..n : /\ s[k] >= 0 /\ (M = 0 => s[k] = 0)
                     /\ -W < s[k] * W - M * w[k] /\ s[k] * W - M * w[k] < W
  /\ \A i, j \in 1..n : w[i] > w[j] \/ (w[i] = w[j] /\ i < j) => s[i] >= s[j]

\* Then a share is never negative and never a whole unit from its exact value,
\* and who weighs more, or as much and comes first, gets no less.
LEMMA SharesAreFair ==
  ASSUME NEW n \in Nat, NEW w \in [1..n -> Int], \A k \in 1..n : w[k] >= 0, NEW M \in Nat,
         NEW W \in Nat \ {0}, W = Total(w)
  PROVE  AreFair(n, w, M, W, LargestRemainder(w, M))
<1> DEFINE s == LargestRemainder(w, M)
<1>0. PICK f, r, B : IsShared(n, w, M, W, f, r, B)
  BY SharesAre
<1>1. /\ f \in [1..n -> Int] /\ r \in [1..n -> Int] /\ B = First(n, r, M - Total(f))
      /\ \A k \in 1..n : W * f[k] + r[k] = M * w[k] /\ f[k] >= 0 /\ 0 <= r[k] /\ r[k] < W
      /\ \A k \in B : r[k] > 0
      /\ s = [k \in 1..n |-> f[k] + IF k \in B THEN 1 ELSE 0]
      /\ Total(s) = M
  BY <1>0 DEF IsShared
<1> HIDE DEF s
<1>2. ASSUME NEW k \in 1..n
      PROVE  /\ s[k] \in Int /\ s[k] >= 0
             /\ -W < s[k] * W - M * w[k] /\ s[k] * W - M * w[k] < W
             /\ M = 0 => s[k] = 0
  <2>1. PICK x \in Int, y \in Int, z \in Int : /\ x = f[k] /\ y = r[k] /\ z = w[k]
                                               /\ W * x + y = M * z /\ x >= 0 /\ 0 <= y /\ y < W
    BY <1>1
  <2>2. \/ s[k] = x /\ k \notin B
        \/ s[k] = x + 1 /\ y > 0 /\ k \in B
    <3>1. s[k] = f[k] + IF k \in B THEN 1 ELSE 0
      BY <1>1
    <3>2. k \in B => r[k] > 0
      BY <1>1
    <3>3. CASE k \in B
      BY <2>1, <3>1, <3>2, <3>3
    <3>4. CASE k \notin B
      BY <2>1, <3>1, <3>4
    <3> QED
      BY <3>3, <3>4
  <2>3. x * W = W * x /\ (x + 1) * W = W * x + W /\ W * x \in Int /\ M * z \in Int
    OBVIOUS
  <2>4. s[k] * W - M * z = -y \/ (s[k] * W - M * z = W - y /\ y > 0)
    <3>1. PICK p \in Int, q \in Int : p = W * x /\ q = M * z /\ p + y = q
      BY <2>1, <2>3
    <3>2. s[k] * W = p \/ (s[k] * W = p + W /\ y > 0)
      BY <2>2, <2>3, <3>1
    <3> QED
      BY <3>1, <3>2
  <2>5. M = 0 => x = 0 /\ y = 0
    <3> SUFFICES ASSUME M = 0 PROVE x = 0 /\ y = 0
      OBVIOUS
    <3>1. W * x + y = 0
      <4>1. M * z = 0
        OBVIOUS
      <4> QED
        BY <2>1, <4>1
    <3>2. W * x >= 0
      <4>1. \A p \in Nat, q \in Nat : p * q >= 0
        OBVIOUS
      <4> QED
        BY <2>1, <4>1
    <3>3. W * x = 0 /\ y = 0
      <4>1. PICK p \in Int : p = W * x
        BY <2>3
      <4>2. p + y = 0 /\ p >= 0 /\ y >= 0
        BY <2>1, <3>1, <3>2, <4>1
      <4> QED
        BY <4>1, <4>2
    <3>4. \A p \in Nat, q \in Nat : p * q = 0 => p = 0 \/ q = 0
      OBVIOUS
    <3> QED
      BY <2>1, <3>3, <3>4
  <2>6. s[k] \in Int /\ s[k] >= 0 /\ (M = 0 => s[k] = 0)
    <3>1. x >= 0 /\ (M = 0 => x = 0 /\ ~(y > 0))
      BY <2>1, <2>5
    <3> QED
      BY <2>2, <3>1
  <2>7. -W < s[k] * W - M * z /\ s[k] * W - M * z < W
    <3>1. PICK p \in Int : p = s[k] * W - M * z /\ (p = -y \/ (p = W - y /\ y > 0))
      <4>1. -y \in Int /\ W - y \in Int
        OBVIOUS
      <4> QED
        BY <2>4, <4>1
    <3>2. -W < p /\ p < W
      BY <2>1, <3>1, SMTT(30)
    <3> QED
      BY <3>1, <3>2
  <2> QED
    BY <2>1, <2>6, <2>7
<1>3. ASSUME NEW i \in 1..n, NEW j \in 1..n, w[i] > w[j] \/ (w[i] = w[j] /\ i < j) PROVE s[i] >= s[j]
  <2> DEFINE before == ByScore(1..n, r)
             ahead(k) == Cardinality(Ahead(1..n, before, k))
             left == M - Total(f)
  <2>1. Orders(1..n, before) /\ IsFiniteSet(1..n)
    <3>1. \A k \in 1..n : r[k] \in Int
      BY <1>1
    <3> QED
      BY <3>1, ScoreOrders
  <2>2. /\ \A k \in 1..n : ahead(k) \in Int
        /\ <<i, j>> \in before => ahead(i) < ahead(j)
    <3>1. \A k \in 1..n : ahead(k) \in 0..(Cardinality(1..n) - 1)
      BY <2>1, FewerAhead
    <3>2. <<i, j>> \in before => ahead(i) < ahead(j)
      BY <2>1, FewerAhead
    <3> QED
      BY <3>1, <3>2
  <2>3. left \in Int
    <3>1. PICK v : SumsOf(v, f, n) /\ Total(f) = v[n]
      BY <1>1, TotalIs
    <3>2. Total(f) \in Int
      BY <3>1 DEF SumsOf
    <3> QED
      BY <3>2
  <2>4. i \in B <=> ahead(i) < left
    BY <1>1 DEF First
  <2>5. j \in B <=> ahead(j) < left
    BY <1>1 DEF First
  <2> HIDE DEF ahead, left
  <2>6. <<i, j>> \in before => (j \in B => i \in B)
    BY <2>2, <2>3, <2>4, <2>5
  <2>7. <<i, j>> \in before <=> r[i] > r[j] \/ (r[i] = r[j] /\ i < j)
    BY DEF ByScore
  <2> HIDE DEF before
  <2>8. CASE M = 0
    BY <1>2, <2>8
  <2>9. CASE M # 0
    <3>1. PICK x \in Int, y \in Int, z \in Int : /\ x = f[i] /\ y = r[i] /\ z = w[i]
                                                 /\ W * x + y = M * z /\ x >= 0 /\ 0 <= y /\ y < W
      BY <1>1
    <3>2. PICK u \in Int, v \in Int, t \in Int : /\ u = f[j] /\ v = r[j] /\ t = w[j]
                                                 /\ W * u + v = M * t /\ u >= 0 /\ 0 <= v /\ v < W
      BY <1>1
    <3>3. z > t \/ (z = t /\ i < j)
      BY <1>3, <3>1, <3>2
    <3>4. M * z >= M * t /\ (z > t => M * z > M * t) /\ M * z \in Int /\ M * t \in Int
      <4>1. M * z \in Int /\ M * t \in Int
        OBVIOUS
      <4>2. ASSUME z > t PROVE M * z > M * t
        <5>1. PICK d \in Nat : d # 0 /\ z = t + d
          <6>1. z - t \in Nat /\ z - t # 0 /\ z = t + (z - t)
            BY <4>2
          <6> QED
            BY <6>1
        <5>2. M * (t + d) = M * t + M * d
          OBVIOUS
        <5>3. \A p \in Nat, q \in Nat : p # 0 /\ q # 0 => p * q > 0 /\ p * q \in Nat
          OBVIOUS
        <5>4. M * d > 0 /\ M * d \in Nat
          BY <2>9, <5>1, <5>3
        <5> QED
          BY <4>1, <5>1, <5>2, <5>4
      <4>3. z = t => M * z = M * t
        OBVIOUS
      <4> QED
        BY <3>3, <4>1, <4>2, <4>3
    <3>5. x >= u
      <4> SUFFICES ASSUME x + 1 <= u PROVE FALSE
        OBVIOUS
      <4>1. W * x + W <= W * u
        <5>1. PICK d \in Nat : u = x + 1 + d
          <6>1. u - (x + 1) \in Nat /\ u = x + 1 + (u - (x + 1))
            OBVIOUS
          <6> QED
            BY <6>1
        <5>2. W * (x + 1 + d) = W * x + W + W * d /\ W * d \in Nat /\ W * x \in Int
          OBVIOUS
        <5> QED
          BY <5>1, <5>2
      <4>2. PICK p \in Int, q \in Int : p = W * x /\ q = W * u
        OBVIOUS
      <4>3. p + W <= q /\ p + y = M * z /\ q + v = M * t
        BY <3>1, <3>2, <4>1, <4>2
      <4>4. PICK a \in Int, b \in Int : a = M * z /\ b = M * t /\ a >= b
        BY <3>4
      <4>5. p + y = a /\ q + v = b /\ p + W <= q
        BY <4>3, <4>4
      <4>6. a >= b /\ y < W /\ 0 <= v
        BY <3>1, <3>2, <4>4
      <4> QED
        BY <4>5, <4>6
    <3>6. x = u => y >= v /\ (y = v => z = t)
      <4> SUFFICES ASSUME x = u PROVE y >= v /\ (y = v => z = t)
        OBVIOUS
      <4>1. PICK p \in Int : p = W * x /\ p = W * u
        OBVIOUS
      <4>2. PICK a \in Int, b \in Int : /\ a = M * z /\ b = M * t /\ a >= b /\ (z > t => a > b)
                                        /\ p + y = a /\ p + v = b
        BY <3>1, <3>2, <3>4, <4>1
      <4> QED
        BY <3>3, <4>2
    <3>7. x = u => (j \in B => i \in B)
      <4>1. x = u => y > v \/ (y = v /\ i < j)
        BY <3>3, <3>6
      <4>2. x = u => <<i, j>> \in before
        BY <2>7, <3>1, <3>2, <4>1
      <4> QED
        BY <2>6, <4>2
    <3>8. s[i] = x + (IF i \in B THEN 1 ELSE 0) /\ s[j] = u + (IF j \in B THEN 1 ELSE 0)
      BY <1>1, <3>1, <3>2
    <3> QED
      BY <3>5, <3>7, <3>8
  <2> QED
    BY <2>8, <2>9
<1>4. s \in [1..n -> Int]
  BY <1>1, <1>2
<1> QED
  BY <1>1, <1>2, <1>3, <1>4 DEF s, AreFair

\* For any whole weights and any amount: not a unit is lost or made, no share
\* is a whole unit from its exact value, who weighs more gets no less, and a
\* refund is split as the charge was.
THEOREM EveryAllocationAddsUp ==
  ASSUME NEW weights \in Seq(Int), NEW units \in Int
  PROVE  AllocationsAddUp(weights, units)
<1> DEFINE n == Len(weights)
           W == Total(weights)
           M == Magnitude(units)
           s == LargestRemainder(weights, M)
           shares == Allocate(weights, units)
           refused == weights = <<>> \/ (\E i \in DOMAIN weights : weights[i] < 0) \/ Total(weights) = 0
<1>1. CASE refused
  BY <1>1 DEF Allocate, AllocationsAddUp
<1>2. CASE ~refused
  <2>1. n \in Nat /\ weights \in [1..n -> Int] /\ DOMAIN weights = 1..n
    OBVIOUS
  <2>2. \A k \in 1..n : weights[k] >= 0
    <3> SUFFICES ASSUME NEW k \in 1..n PROVE weights[k] >= 0
      OBVIOUS
    <3>1. weights[k] \in Int /\ ~(weights[k] < 0)
      BY <1>2, <2>1
    <3> QED
      BY <3>1
  <2>3. W \in Nat \ {0}
    <3>1. W \in Int /\ W >= 0
      BY <2>1, <2>2, TotalAtLeast
    <3> QED
      BY <1>2, <3>1
  <2>4. M \in Nat /\ (units >= 0 => M = units) /\ (units < 0 => M = -units) /\ Magnitude(-units) = M
    BY DEF Magnitude
  <2>5. shares = [i \in 1..n |-> IF units < 0 THEN -s[i] ELSE s[i]]
    BY <1>2, <2>1 DEF Allocate
  <2>6. Allocate(weights, -units) = [i \in 1..n |-> IF -units < 0 THEN -s[i] ELSE s[i]]
    BY <1>2, <2>1, <2>4 DEF Allocate
  <2> HIDE DEF n, M
  <2>7. /\ s \in [1..n -> Int] /\ Total(s) = M
        /\ \A k \in 1..n : /\ s[k] >= 0 /\ (M = 0 => s[k] = 0)
                           /\ -W < s[k] * W - M * weights[k] /\ s[k] * W - M * weights[k] < W
        /\ \A i, j \in 1..n : weights[i] > weights[j] \/ (weights[i] = weights[j] /\ i < j) => s[i] >= s[j]
    <3>1. W = Total(weights)
      OBVIOUS
    <3> HIDE DEF W
    <3>2. AreFair(n, weights, M, W, LargestRemainder(weights, M))
      BY <2>1, <2>2, <2>3, <2>4, <3>1, SharesAreFair
    <3> QED
      BY <3>2 DEF AreFair
  <2> HIDE DEF W, s, shares, refused
  <2>8. shares \in [1..n -> Int] /\ \A k \in 1..n : Magnitude(shares[k]) = s[k]
    <3>1. ASSUME NEW k \in 1..n PROVE shares[k] \in Int /\ Magnitude(shares[k]) = s[k]
      <4>1. s[k] \in Int /\ s[k] >= 0
        BY <2>7
      <4>2. shares[k] = IF units < 0 THEN -s[k] ELSE s[k]
        BY <2>5
      <4> QED
        BY <4>1, <4>2 DEF Magnitude
    <3>2. shares = [k \in 1..n |-> shares[k]]
      BY <2>5
    <3> QED
      BY <3>1, <3>2
  <2>9. Total(shares) = units
    <3>1. CASE units >= 0
      <4>1. shares = s
        BY <2>5, <2>7, <3>1
      <4> QED
        BY <2>4, <2>7, <3>1, <4>1
    <3>2. CASE units < 0
      <4> DEFINE none == Ones({}, n)
      <4>1. none \in [1..n -> Int] /\ \A k \in 1..n : none[k] = 0
        BY DEF Ones
      <4>2. Total(none) = 0
        <5>1. {} \in SUBSET (1..n) /\ Cardinality({}) = 0
          BY FS_EmptySet
        <5> QED
          BY <2>1, <5>1, TotalOfOnes
      <4> HIDE DEF none
      <4>3. PICK a \in Int : a = -1
        OBVIOUS
      <4>4. IsMixed(shares, a, s, none, n)
        <5> SUFFICES ASSUME NEW k \in 1..n PROVE shares[k] = a * s[k] + none[k]
          BY DEF IsMixed
        <5>1. shares[k] = -s[k] /\ s[k] \in Int /\ none[k] = 0
          BY <2>5, <2>7, <3>2, <4>1
        <5>2. a * s[k] = -s[k]
          BY <4>3, <5>1
        <5> QED
          BY <5>1, <5>2
      <4>5. MixTotals(shares, a, s, none)
        BY <2>1, <2>7, <2>8, <4>1, <4>4, MixedTotals
      <4>6. Total(shares) = a * M + 0
        BY <2>7, <4>2, <4>5 DEF MixTotals
      <4>7. a * M = -M
        BY <2>4, <4>3
      <4> QED
        BY <2>4, <3>2, <4>6, <4>7
    <3> QED
      BY <3>1, <3>2
  <2>10. ASSUME NEW k \in 1..n PROVE Magnitude(shares[k] * W - units * weights[k]) < W
    <3>1. PICK x \in Int, y \in Int : x = s[k] /\ y = weights[k] /\ -W < x * W - M * y /\ x * W - M * y < W
      BY <2>1, <2>7
    <3>2. PICK p \in Int, q \in Int : p = x * W /\ q = M * y
      BY <2>3, <2>4
    <3>3. shares[k] * W - units * y = IF units < 0 THEN q - p ELSE p - q
      <4>1. CASE units < 0
        <5>1. shares[k] = -x /\ units = -M
          BY <2>4, <2>5, <3>1, <4>1
        <5>2. (-x) * W = -(x * W) /\ (-M) * y = -(M * y)
          BY <2>3, <2>4
        <5> QED
          BY <3>2, <4>1, <5>1, <5>2
      <4>2. CASE ~(units < 0)
        <5>1. shares[k] = x /\ units = M
          BY <2>4, <2>5, <3>1, <4>2
        <5> QED
          BY <3>2, <4>2, <5>1
      <4> QED
        BY <4>1, <4>2
    <3>4. -W < p - q /\ p - q < W /\ W \in Int
      BY <2>3, <3>1, <3>2
    <3>5. PICK d \in Int : d = shares[k] * W - units * y /\ (d = q - p \/ d = p - q)
      BY <3>3
    <3>6. Magnitude(d) < W
      BY <3>4, <3>5 DEF Magnitude
    <3> QED
      BY <3>1, <3>5, <3>6
  <2>11. Allocate(weights, -units) = [i \in 1..n |-> -shares[i]]
    <3>1. ASSUME NEW k \in 1..n PROVE (IF -units < 0 THEN -s[k] ELSE s[k]) = -shares[k]
      <4>1. s[k] \in Int /\ (M = 0 => s[k] = 0)
        BY <2>7
      <4>2. shares[k] = IF units < 0 THEN -s[k] ELSE s[k]
        BY <2>5
      <4>3. units = 0 => M = 0
        BY <2>4
      <4> QED
        BY <4>1, <4>2, <4>3
    <3> QED
      BY <2>6, <3>1
  <2>12. DOMAIN shares = 1..n
    BY <2>8
  <2>13. \A i, j \in 1..n : weights[i] > weights[j] \/ (weights[i] = weights[j] /\ i < j)
                              => Magnitude(shares[i]) >= Magnitude(shares[j])
    BY <2>7, <2>8
  <2> QED
    BY <2>1, <2>9, <2>10, <2>11, <2>12, <2>13 DEF AllocationsAddUp, W, shares
<1> QED
  BY <1>1, <1>2

-----------------------------------------------------------------------------
(* A remittance.                                                           *)

\* What is reversed sums to the opposite.
LEMMA ReversedSum ==
  ASSUME NEW n \in Nat, NEW a \in [1..n -> Int], NEW b \in [1..n -> Int], \A k \in 1..n : b[k] = -a[k]
  PROVE  Total(a) + Total(b) = 0
<1> DEFINE none == Ones({}, n)
<1>1. none \in [1..n -> Int] /\ \A k \in 1..n : none[k] = 0
  BY DEF Ones
<1>2. Total(none) = 0
  <2>1. {} \in SUBSET (1..n) /\ Cardinality({}) = 0
    BY FS_EmptySet
  <2> QED
    BY <2>1, TotalOfOnes
<1> HIDE DEF none
<1>3. PICK m \in Int : m = -1
  OBVIOUS
<1>4. IsMixed(b, m, a, none, n)
  <2> SUFFICES ASSUME NEW k \in 1..n PROVE b[k] = m * a[k] + none[k]
    BY DEF IsMixed
  <2>1. PICK x \in Int : x = a[k] /\ b[k] = -x /\ none[k] = 0
    BY <1>1
  <2>2. m * x = -x
    BY <1>3
  <2> QED
    BY <2>1, <2>2
<1>5. MixTotals(b, m, a, none)
  BY <1>1, <1>4, MixedTotals
<1>6. PICK x \in Int, y \in Int : x = Total(a) /\ y = Total(b) /\ y = m * x + 0
  BY <1>2, <1>5 DEF MixTotals
<1>7. m * x = -x
  BY <1>3
<1> QED
  BY <1>6, <1>7

\* Any advice, held rows and settled ones, and the same one with every charge a
\* credit cancel out, to the cent.
THEOREM EveryCreditCancels ==
  ASSUME NEW n \in Nat, NEW lines, IsAdvice(lines, n)
  PROVE  CreditsCancel(lines)
<1> DEFINE reversed == [i \in DOMAIN lines |-> [lines[i] EXCEPT !.credit = ~@]]
           held == {i \in Rows(lines) : lines[i].status = "H"}
<1>1. DOMAIN lines = 1..n
  BY DEF IsAdvice
<1>2. ASSUME NEW i \in 1..n
      PROVE  /\ reversed[i].kind = lines[i].kind /\ reversed[i].status = lines[i].status
             /\ Cents(lines[i]) \in Int /\ Cents(reversed[i]) = -Cents(lines[i])
  <2>1. PICK c \in Nat : c = lines[i].tenths \div 10
    <3>1. lines[i].tenths \in Nat
      BY DEF IsAdvice
    <3> QED
      BY <3>1
  <2>2. reversed[i] = [lines[i] EXCEPT !.credit = ~@]
    BY <1>1
  <2>3. PICK kind, tenths, credit, status :
          /\ lines[i] = [kind |-> kind, tenths |-> tenths, credit |-> credit, status |-> status]
          /\ credit \in BOOLEAN
    BY DEF IsAdvice
  <2> HIDE DEF reversed
  <2>4. reversed[i] = [kind |-> kind, tenths |-> tenths, credit |-> ~credit, status |-> status]
    BY <2>2, <2>3
  <2>5. c = tenths \div 10
    BY <2>1, <2>3
  <2>6. /\ lines[i].credit = credit /\ lines[i].tenths = tenths
        /\ reversed[i].credit = ~credit /\ reversed[i].tenths = tenths
    BY <2>3, <2>4
  <2>7. Cents(lines[i]) \in Int /\ Cents(reversed[i]) = -Cents(lines[i])
    <3> DEFINE row == lines[i]
               turned == reversed[i]
    <3>1. row.credit = credit /\ row.tenths \div 10 = c /\ turned.credit = ~credit /\ turned.tenths \div 10 = c
      BY <2>5, <2>6
    <3> HIDE DEF row, turned
    <3>2. CASE credit
      <4>1. Cents(row) = -c /\ Cents(turned) = c
        BY <3>1, <3>2 DEF Cents
      <4> QED
        BY <4>1 DEF row, turned
    <3>3. CASE ~credit
      <4>1. Cents(row) = c /\ Cents(turned) = -c
        BY <3>1, <3>3 DEF Cents
      <4> QED
        BY <4>1 DEF row, turned
    <3> QED
      BY <2>3, <3>2, <3>3
  <2> QED
    BY <2>3, <2>4, <2>7
<1>3. DOMAIN reversed = 1..n
  BY <1>1
<1> HIDE DEF reversed
<1>4. Rows(reversed) = Rows(lines) /\ {i \in Rows(reversed) : reversed[i].status = "H"} = held
  BY <1>1, <1>2, <1>3 DEF Rows
<1>5. ASSUME NEW places PROVE Sum(lines, places) + Sum(reversed, places) = 0
  <2> DEFINE a == [i \in 1..n |-> IF i \in places THEN Cents(lines[i]) ELSE 0]
             b == [i \in 1..n |-> IF i \in places THEN Cents(reversed[i]) ELSE 0]
  <2>1. a \in [1..n -> Int] /\ b \in [1..n -> Int] /\ \A k \in 1..n : b[k] = -a[k]
    BY <1>2
  <2>2. Sum(lines, places) = Total(a) /\ Sum(reversed, places) = Total(b)
    BY <1>1, <1>3 DEF Sum
  <2> HIDE DEF a, b
  <2> QED
    BY <2>1, <2>2, ReversedSum
<1>6. /\ Settle(lines).settled = Sum(lines, Rows(lines) \ held) /\ Settle(lines).held = Sum(lines, held)
      /\ Settle(reversed).settled = Sum(reversed, Rows(lines) \ held) /\ Settle(reversed).held = Sum(reversed, held)
  BY <1>4 DEF Settle
<1> QED
  BY <1>5, <1>6 DEF CreditsCancel, reversed

-----------------------------------------------------------------------------
(* The parts of a text.                                                    *)

\* The lists of lengths there are while a text is read.
Lengths == {s \in Seq(Nat) : s # <<>>}

\* One character more.
OneOn(parts, char, separator) ==
  IF char = separator THEN Append(parts, 0) ELSE [parts EXCEPT ![Len(parts)] = @ + 1]

\* It leaves the earlier lengths alone.
LEMMA OneOnIs ==
  ASSUME NEW parts \in Lengths, NEW char, NEW separator
  PROVE  LET m == Len(parts)
             more == OneOn(parts, char, separator)
         IN  /\ m \in Nat \ {0} /\ more \in Lengths /\ parts \in Seq(Nat)
             /\ char = separator => Len(more) = m + 1 /\ more[m + 1] = 0 /\ \A i \in 1..m : more[i] = parts[i]
             /\ char # separator => Len(more) = m /\ more[m] = parts[m] + 1 /\ \A i \in 1..(m - 1) : more[i] = parts[i]
<1>1. PICK m \in Nat \ {0} : m = Len(parts)
  BY DEF Lengths
<1>2. parts \in Seq(Nat) /\ DOMAIN parts = 1..m /\ \A i \in 1..m : parts[i] \in Nat
  BY <1>1 DEF Lengths
<1>3. ASSUME char = separator
      PROVE  LET more == Append(parts, 0)
             IN  more \in Lengths /\ Len(more) = m + 1 /\ more[m + 1] = 0 /\ \A i \in 1..m : more[i] = parts[i]
  BY <1>1, <1>2 DEF Lengths
<1>4. LET more == [parts EXCEPT ![m] = @ + 1]
      IN  more \in Lengths /\ Len(more) = m /\ more[m] = parts[m] + 1 /\ \A i \in 1..(m - 1) : more[i] = parts[i]
  <2> DEFINE more == [parts EXCEPT ![m] = @ + 1]
  <2>1. DOMAIN more = 1..m /\ m \in 1..m /\ more[m] = parts[m] + 1 /\ \A i \in 1..(m - 1) : more[i] = parts[i]
    BY <1>2
  <2>2. \A i \in 1..m : more[i] \in Nat
    <3> TAKE i \in 1..m
    <3>1. CASE i = m
      BY <1>2, <2>1, <3>1
    <3>2. CASE i # m
      <4>1. i \in 1..(m - 1)
        BY <3>2
      <4> QED
        BY <1>2, <2>1, <4>1
    <3> QED
      BY <3>1, <3>2
  <2>3. more = [i \in 1..m |-> more[i]]
    BY <2>1
  <2> HIDE DEF more
  <2>4. more \in [1..m -> Nat]
    BY <2>2, <2>3
  <2>5. more \in Seq(Nat) /\ Len(more) = m /\ more # <<>>
    BY <2>4
  <2> QED
    BY <2>1, <2>5 DEF Lengths, more
<1> QED
  BY <1>1, <1>2, <1>3, <1>4 DEF OneOn

\* A text is read one character after the other.
ReadOn(v, text, separator, n) ==
  /\ v \in [0..n -> Lengths] /\ v[0] = <<0>>
  /\ \A k \in 1..n : v[k] = OneOn(v[k - 1], text[k], separator)

\* The parts are what that comes to.
LEMMA PartsRead ==
  ASSUME NEW n \in Nat, NEW text \in [1..n -> Chars], NEW separator
  PROVE  \E v : ReadOn(v, text, separator, n) /\ v[n] = PartsOf(text, separator)
<1> DEFINE F == [p \in Lengths \X (1..n) |-> OneOn(p[1], text[p[2]], separator)]
           iter[s \in SUBSET (DOMAIN text)] ==
             IF s = {} THEN <<0>>
             ELSE IF text[Max(s)] = separator THEN Append(iter[s \ {Max(s)}], 0)
                  ELSE [iter[s \ {Max(s)}] EXCEPT ![Len(iter[s \ {Max(s)}])] = @ + 1]
<1>1. DOMAIN text = 1..n
  OBVIOUS
<1>2. PartsOf(text, separator) = iter[DOMAIN text]
  BY Zenon DEF PartsOf, FoldLeft, MapThenFoldSet
<1>3. F \in [Lengths \X (1..n) -> Lengths]
  BY OneOnIs
<1>0. <<0>> \in Lengths
  BY DEF Lengths
<1>4. iter = [s \in SUBSET (1..n) |-> IF s = {} THEN <<0>> ELSE OneOn(iter[s \ {Max(s)}], text[Max(s)], separator)]
  <2>1. PICK g : IsFold(g, Lengths, <<0>>, n, F)
    <3> HIDE DEF F
    <3> QED
      BY <1>0, <1>3, FoldExists
  <2>2. ASSUME NEW s \in SUBSET (1..n), s # {}
        PROVE  g[s] = OneOn(g[s \ {Max(s)}], text[Max(s)], separator)
    <3>1. Max(s) \in 1..n
      BY <2>2, LastOne
    <3>2. g[s \ {Max(s)}] \in Lengths
      BY <2>1 DEF IsFold
    <3> QED
      BY <2>1, <2>2, <3>1, <3>2 DEF IsFold
  <2>3. g = [s \in SUBSET (1..n) |-> IF s = {} THEN <<0>> ELSE OneOn(g[s \ {Max(s)}], text[Max(s)], separator)]
    BY <2>1, <2>2 DEF IsFold
  <2>4. iter = CHOOSE h : h = [s \in SUBSET (1..n) |-> IF s = {} THEN <<0>> ELSE OneOn(h[s \ {Max(s)}], text[Max(s)], separator)]
    BY <1>1, Zenon DEF OneOn
  <2> QED
    BY <2>3, <2>4, Zenon
<1> HIDE DEF iter
<1>5. PICK v : LeadsTo(v, Lengths, <<0>>, n, F, iter[1..n])
  <2>1. iter[{}] = <<0>>
    BY <1>4
  <2>2. ASSUME NEW s \in SUBSET (1..n), s # {}, iter[s \ {Max(s)}] \in Lengths
        PROVE  iter[s] = F[<<iter[s \ {Max(s)}], Max(s)>>]
    <3>1. Max(s) \in 1..n
      BY <2>2, LastOne
    <3> QED
      BY <1>4, <2>2, <3>1
  <2> HIDE DEF F
  <2>3. GoesBy(iter, Lengths, <<0>>, n, F)
    BY <2>1, <2>2 DEF GoesBy
  <2> QED
    BY <1>0, <1>3, <2>3, StepsOf
<1>6. v \in [0..n -> Lengths] /\ v[0] = <<0>> /\ v[n] = iter[1..n]
  BY <1>5 DEF LeadsTo, IsSteps
<1>7. ASSUME NEW k \in 1..n PROVE v[k] = OneOn(v[k - 1], text[k], separator)
  <2>1. v[k] = F[<<v[k - 1], k>>]
    BY <1>5 DEF LeadsTo, IsSteps
  <2>2. k - 1 \in 0..n
    OBVIOUS
  <2>3. v[k - 1] \in Lengths
    BY <1>6, <2>2
  <2> QED
    BY <2>1, <2>3
<1>8. ReadOn(v, text, separator, n)
  BY <1>6, <1>7 DEF ReadOn
<1> QED
  BY <1>1, <1>2, <1>6, <1>8

\* A place of a text, and where its separators are.
NoneIn(text, separator, low, high) == \A i \in low..high : text[i] # separator
OnlyAt(text, separator, q, n) == text[q] = separator /\ \A i \in 1..n : i # q => text[i] # separator
LastAt(text, separator, q, n) == text[q] = separator /\ NoneIn(text, separator, q + 1, n)

\* The parts of the first k characters.
ArePartsOf(parts, text, separator, k) ==
  /\ parts \in Seq(Nat) /\ Len(parts) \in Nat \ {0}
  /\ NoneIn(text, separator, 1, k) => Len(parts) = 1 /\ parts[1] = k
  /\ \A q \in 1..k : LastAt(text, separator, q, k) => Len(parts) > 1 /\ parts[Len(parts)] = k - q
  /\ \A q \in 1..k : OnlyAt(text, separator, q, k) => Len(parts) = 2 /\ parts[1] = q - 1
  /\ parts[1] > 0 => k > 0 /\ text[1] # separator

\* A separator begins a part.
LEMMA PartBegins ==
  ASSUME NEW text, NEW separator, NEW k \in Nat, text[k + 1] = separator,
         NEW p \in Lengths, NEW r \in Lengths, ArePartsOf(p, text, separator, k), r = OneOn(p, text[k + 1], separator)
  PROVE  ArePartsOf(r, text, separator, k + 1)
<1>1. PICK m \in Nat \ {0} : m = Len(p)
  BY OneOnIs
<1>2. /\ p \in Seq(Nat) /\ r \in Seq(Nat) /\ Len(r) = m + 1 /\ r[m + 1] = 0
      /\ \A i \in 1..m : r[i] = p[i]
  BY <1>1, OneOnIs DEF Lengths
<1>3. r[1] = p[1] /\ k + 1 \in 1..(k + 1) /\ 1..k \subseteq 1..(k + 1)
  BY <1>2
<1>4. ~NoneIn(text, separator, 1, k + 1)
  BY <1>3 DEF NoneIn
<1>5. ASSUME NEW q \in 1..(k + 1), LastAt(text, separator, q, k + 1) PROVE Len(r) > 1 /\ r[Len(r)] = (k + 1) - q
  <2>1. q = k + 1
    <3>1. k + 1 \notin (q + 1)..(k + 1)
      BY <1>5 DEF LastAt, NoneIn
    <3> QED
      BY <3>1
  <2> QED
    BY <1>2, <2>1
<1>6. ASSUME NEW q \in 1..(k + 1), OnlyAt(text, separator, q, k + 1) PROVE Len(r) = 2 /\ r[1] = q - 1
  <2>1. q = k + 1
    BY <1>3, <1>6 DEF OnlyAt
  <2>2. NoneIn(text, separator, 1, k)
    BY <1>6, <2>1 DEF OnlyAt, NoneIn
  <2>3. m = 1 /\ p[1] = k
    BY <1>1, <2>2 DEF ArePartsOf
  <2> QED
    BY <1>2, <1>3, <2>1, <2>3
<1>7. r[1] > 0 => k + 1 > 0 /\ text[1] # separator
  BY <1>3 DEF ArePartsOf
<1> QED
  BY <1>2, <1>4, <1>5, <1>6, <1>7 DEF ArePartsOf

\* Any other character makes the last part longer.
LEMMA PartGrows ==
  ASSUME NEW text, NEW separator, NEW k \in Nat, text[k + 1] # separator,
         NEW p \in Lengths, NEW r \in Lengths, ArePartsOf(p, text, separator, k), r = OneOn(p, text[k + 1], separator)
  PROVE  ArePartsOf(r, text, separator, k + 1)
<1>1. PICK m \in Nat \ {0} : m = Len(p)
  BY OneOnIs
<1>2. /\ p \in Seq(Nat) /\ r \in Seq(Nat) /\ Len(r) = m /\ r[m] = p[m] + 1
      /\ \A i \in 1..(m - 1) : r[i] = p[i]
  <2>1. p \in Seq(Nat) /\ r \in Seq(Nat)
    BY DEF Lengths
  <2>2. PICK char : char = text[k + 1] /\ char # separator
    OBVIOUS
  <2>3. Len(r) = m /\ r[m] = p[m] + 1 /\ \A i \in 1..(m - 1) : r[i] = p[i]
    BY <1>1, <2>2, OneOnIs
  <2> QED
    BY <2>1, <2>3
<1>3. k + 1 \in 1..(k + 1) /\ 1..k \subseteq 1..(k + 1)
  OBVIOUS
<1>4. NoneIn(text, separator, 1, k + 1) => Len(r) = 1 /\ r[1] = k + 1
  <2> SUFFICES ASSUME NoneIn(text, separator, 1, k + 1) PROVE Len(r) = 1 /\ r[1] = k + 1
    OBVIOUS
  <2>1. NoneIn(text, separator, 1, k)
    BY <1>3 DEF NoneIn
  <2>2. m = 1 /\ p[1] = k
    BY <1>1, <2>1 DEF ArePartsOf
  <2> QED
    BY <1>2, <2>2
<1>5. ASSUME NEW q \in 1..(k + 1), LastAt(text, separator, q, k + 1) PROVE Len(r) > 1 /\ r[Len(r)] = (k + 1) - q
  <2>1. q # k + 1 /\ text[q] = separator
    BY <1>5 DEF LastAt
  <2>2. q \in 1..k
    BY <2>1
  <2>3. LastAt(text, separator, q, k)
    BY <1>5, <2>2 DEF LastAt, NoneIn
  <2>4. m > 1 /\ p[m] = k - q
    BY <1>1, <2>2, <2>3 DEF ArePartsOf
  <2> QED
    BY <1>2, <2>4
<1>6. ASSUME NEW q \in 1..(k + 1), OnlyAt(text, separator, q, k + 1) PROVE Len(r) = 2 /\ r[1] = q - 1
  <2>1. q # k + 1
    BY <1>6 DEF OnlyAt
  <2>2. q \in 1..k
    BY <2>1
  <2>3. OnlyAt(text, separator, q, k)
    BY <1>6 DEF OnlyAt
  <2>4. m = 2 /\ p[1] = q - 1
    BY <1>1, <2>2, <2>3 DEF ArePartsOf
  <2> QED
    BY <1>2, <2>4
<1>7. r[1] > 0 => k + 1 > 0 /\ text[1] # separator
  <2>1. CASE k = 0
    BY <2>1
  <2>2. CASE k > 0 /\ m > 1
    <3>1. r[1] = p[1]
      BY <1>2, <2>2
    <3> QED
      BY <2>2, <3>1 DEF ArePartsOf
  <2>3. CASE k > 0 /\ m = 1
    <3>1. CASE text[1] = separator
      <4> DEFINE S == {i \in 1..k : text[i] = separator}
      <4>1. S \in SUBSET (1..k) /\ 1 \in S /\ k \in Nat
        BY <2>3, <3>1
      <4>2. PICK q \in S : \A i \in S : q >= i
        <5>1. S # {}
          BY <4>1
        <5> HIDE DEF S
        <5> QED
          BY <4>1, <5>1, LastOne
      <4>3. q \in 1..k /\ LastAt(text, separator, q, k)
        BY <4>2 DEF LastAt, NoneIn
      <4> QED
        BY <1>1, <2>3, <4>3 DEF ArePartsOf
    <3> QED
      BY <3>1
  <2> QED
    BY <2>1, <2>2, <2>3
<1> QED
  BY <1>2, <1>4, <1>5, <1>6, <1>7 DEF ArePartsOf

\* What the parts of a text tell of where its separators are.
LEMMA PartsAre ==
  ASSUME NEW n \in Nat, NEW text \in [1..n -> Chars], NEW separator
  PROVE  ArePartsOf(PartsOf(text, separator), text, separator, n)
<1>1. PICK v : ReadOn(v, text, separator, n) /\ v[n] = PartsOf(text, separator)
  BY PartsRead
<1> DEFINE P == {k \in Nat : k <= n => ArePartsOf(v[k], text, separator, k)}
<1>2. 0 \in P
  <2>1. v[0] = <<0>>
    BY <1>1 DEF ReadOn
  <2>2. ArePartsOf(<<0>>, text, separator, 0)
    BY DEF ArePartsOf
  <2> QED
    BY <2>1, <2>2
<1>3. ASSUME NEW k \in Nat, k \in P PROVE k + 1 \in P
  <2> SUFFICES ASSUME k + 1 <= n PROVE ArePartsOf(v[k + 1], text, separator, k + 1)
    OBVIOUS
  <2>1. ArePartsOf(v[k], text, separator, k) /\ k \in 0..n /\ k + 1 \in 0..n /\ k + 1 \in 1..n /\ (k + 1) - 1 = k
    BY <1>3
  <2>2. v[k] \in Lengths /\ v[k + 1] \in Lengths /\ v[k + 1] = OneOn(v[k], text[k + 1], separator)
    BY <1>1, <2>1 DEF ReadOn
  <2> QED
    BY <2>1, <2>2, PartBegins, PartGrows
<1> HIDE DEF P
<1>4. n \in P
  BY <1>2, <1>3, EachNatural
<1> QED
  BY <1>1, <1>4 DEF P

\* One part is not grouped, and of more the last has three digits.
LEMMA GroupingIs ==
  ASSUME NEW parts \in Seq(Nat), Len(parts) \in Nat \ {0}
  PROVE  /\ Len(parts) = 1 => Grouping(parts) = "none"
         /\ Len(parts) > 1 /\ Grouping(parts) # "illegal" => parts[Len(parts)] = 3
<1>1. PICK m \in Nat \ {0} : m = Len(parts)
  OBVIOUS
<1>2. m = 1 => Grouping(parts) = "none"
  BY <1>1 DEF Grouping
<1>3. ASSUME m > 1, Grouping(parts) # "illegal" PROVE parts[m] = 3
  <2>1. m \in 2..m /\ m # 1
    BY <1>3
  <2> QED
    BY <1>1, <1>3, <2>1 DEF Grouping
<1> QED
  BY <1>1, <1>2, <1>3

-----------------------------------------------------------------------------
(* What an amount means.                                                   *)

\* How often a character stands in a text.
LEMMA Occurring ==
  ASSUME NEW n \in Nat, NEW text \in [1..n -> Chars], NEW char
  PROVE  /\ Count(text, char) \in 0..n
         /\ Count(text, char) = 0 <=> NoneIn(text, char, 1, n)
         /\ Count(text, char) = 1 <=> \E q \in 1..n : OnlyAt(text, char, q, n)
         /\ Count(text, char) = n <=> \A i \in 1..n : text[i] = char
<1> DEFINE S == {i \in 1..n : text[i] = char}
<1>1. IsFiniteSet(1..n) /\ Cardinality(1..n) = n
  BY FS_Interval
<1>2. S \subseteq 1..n /\ IsFiniteSet(S) /\ Cardinality(S) \in Nat /\ Cardinality(S) <= n
      /\ (Cardinality(S) = n <=> S = 1..n)
  <2>1. S \subseteq 1..n
    OBVIOUS
  <2> HIDE DEF S
  <2>2. PICK U : U = 1..n
    OBVIOUS
  <2>3. IsFiniteSet(S) /\ Cardinality(S) <= Cardinality(U) /\ (Cardinality(S) = Cardinality(U) => S = U)
    BY <1>1, <2>1, <2>2, FS_Subset
  <2>4. Cardinality(S) \in Nat
    BY <2>3, FS_CardinalityType
  <2> QED
    BY <1>1, <2>1, <2>2, <2>3, <2>4
<1>3. Count(text, char) = Cardinality(S)
  BY DEF Count
<1>4. S = {} <=> NoneIn(text, char, 1, n)
  BY DEF NoneIn
<1>5. \A q \in 1..n : S = {q} <=> OnlyAt(text, char, q, n)
  BY DEF OnlyAt
<1>6. S = 1..n <=> \A i \in 1..n : text[i] = char
  OBVIOUS
<1>7. Cardinality(S) = 0 <=> S = {}
  <2> HIDE DEF S
  <2> QED
    BY <1>2, FS_EmptySet
<1>8. Cardinality(S) = 1 <=> \E q : S = {q}
  <2> HIDE DEF S
  <2> QED
    BY <1>2, FS_Singleton
<1>9. (\E q : S = {q}) <=> \E q \in 1..n : S = {q}
  <2> HIDE DEF S
  <2> QED
    BY <1>2
<1>10. (\E q \in 1..n : S = {q}) <=> \E q \in 1..n : OnlyAt(text, char, q, n)
  BY <1>5
<1>11. /\ Count(text, char) = 0 <=> NoneIn(text, char, 1, n)
       /\ Count(text, char) = n <=> \A i \in 1..n : text[i] = char
  <2> HIDE DEF S
  <2> QED
    BY <1>2, <1>3, <1>4, <1>6, <1>7
<1> HIDE DEF S
<1>12. Count(text, char) = 1 <=> \E q \in 1..n : OnlyAt(text, char, q, n)
  BY <1>3, <1>8, <1>9, <1>10
<1>13. Count(text, char) \in 0..n
  BY <1>2, <1>3
<1> QED
  BY <1>11, <1>12, <1>13

\* What comes before a place of a text, and what from there on.
LEMMA Pieces ==
  ASSUME NEW n \in Nat, NEW text \in [1..n -> Chars], NEW p \in 1..(n + 1)
  PROVE  /\ text \in Seq(Chars) /\ Len(text) = n /\ p - 1 \in Nat /\ n + 1 - p \in Nat
         /\ SubSeq(text, 1, p - 1) \in [1..(p - 1) -> Chars]
         /\ \A i \in 1..(p - 1) : SubSeq(text, 1, p - 1)[i] = text[i]
         /\ SubSeq(text, p, n) \in [1..(n + 1 - p) -> Chars]
         /\ \A i \in 1..(n + 1 - p) : SubSeq(text, p, n)[i] = text[p + i - 1]
         /\ p = n + 1 => SubSeq(text, 1, p - 1) = text
<1>1. text \in Seq(Chars) /\ Len(text) = n
  OBVIOUS
<1>2. p - 1 \in Nat /\ n + 1 - p \in Nat
  OBVIOUS
<1>3. SubSeq(text, 1, p - 1) = [i \in 1..(p - 1) |-> text[i]]
  BY <1>1, <1>2
<1>4. SubSeq(text, p, n) = [i \in 1..(n + 1 - p) |-> text[p + i - 1]]
  BY <1>1, <1>2
<1>5. \A i \in 1..(n + 1 - p) : p + i - 1 \in 1..n
  OBVIOUS
<1>6. \A i \in 1..(p - 1) : i \in 1..n
  OBVIOUS
<1>7. p = n + 1 => SubSeq(text, 1, p - 1) = text
  <2> SUFFICES ASSUME p = n + 1 PROVE SubSeq(text, 1, p - 1) = text
    OBVIOUS
  <2>1. p - 1 = n
    OBVIOUS
  <2> QED
    BY <1>3, <2>1
<1> QED
  BY <1>1, <1>2, <1>3, <1>4, <1>5, <1>6, <1>7

\* The last separator of a text, which one it is, and which one the other.
IsSeparated(text, n, p, d, g) ==
  /\ <<d, g>> \in {<<".", ",">>, <<",", ".">>} /\ p \in 1..n
  /\ LastAt(text, d, p, n) /\ NoneIn(text, g, p, n)

\* A text that is not all digits has one.
LEMMA SomeSeparated ==
  ASSUME NEW n \in Nat, NEW text \in [1..n -> Chars], Count(text, "0") # Len(text)
  PROVE  \E p, d, g : IsSeparated(text, n, p, d, g) /\ LastPlace(text, {".", ","}) = p
<1>0. \A a \in 1..n : /\ \A j \in a..n : j = a \/ j \in (a + 1)..n
                      /\ \A j \in (a + 1)..n : j \in 1..n /\ ~(a >= j)
  OBVIOUS
<1> DEFINE S == {i \in 1..n : text[i] \in {".", ","}}
<1>1. Len(text) = n /\ DOMAIN text = 1..n
  OBVIOUS
<1>2. S \in SUBSET (1..n) /\ S # {}
  <2>1. PICK i \in 1..n : text[i] # "0"
    BY <1>1, Occurring
  <2>2. i \in S
    BY <2>1 DEF Chars
  <2> QED
    BY <2>2
<1>3. PICK m \in S : \A i \in S : m >= i
  <2> HIDE DEF S
  <2> QED
    BY <1>2, LastOne
<1> DEFINE Is(i) == text[i] \in {".", ","} /\ \A j \in (i + 1)..Len(text) : text[j] \notin {".", ","}
<1>4. m \in DOMAIN text /\ Is(m)
  <2>1. m \in 1..n /\ text[m] \in {".", ","}
    OBVIOUS
  <2>2. ASSUME NEW j \in (m + 1)..n PROVE text[j] \notin {".", ","}
    <3>1. j \in 1..n /\ ~(m >= j)
      BY <1>0, <2>1, Zenon
    <3>2. j \notin S
      BY <1>3, <3>1
    <3> QED
      BY <3>1, <3>2
  <2> QED
    BY <1>1, <2>1, <2>2
<1>5. PICK p : p = LastPlace(text, {".", ","})
  OBVIOUS
<1>6. p \in DOMAIN text /\ Is(p)
  <2>1. p = CHOOSE i \in DOMAIN text : Is(i)
    BY <1>5 DEF LastPlace
  <2> HIDE DEF Is
  <2> QED
    BY <1>4, <2>1
<1>7. p \in 1..n /\ \A j \in (p + 1)..n : text[j] # "." /\ text[j] # ","
  BY <1>1, <1>6
<1>10. \A j \in p..n : j = p \/ j \in (p + 1)..n
  BY <1>0, <1>7, Zenon
<1>8. CASE text[p] = "."
  <2>1. \A j \in p..n : text[j] # ","
    BY <1>7, <1>8, <1>10
  <2>2. IsSeparated(text, n, p, ".", ",")
    BY <1>7, <1>8, <2>1 DEF IsSeparated, LastAt, NoneIn
  <2> QED
    BY <1>5, <2>2
<1>9. CASE text[p] = ","
  <2>1. \A j \in p..n : text[j] # "."
    BY <1>7, <1>9, <1>10
  <2>2. IsSeparated(text, n, p, ",", ".")
    BY <1>7, <1>9, <2>1 DEF IsSeparated, LastAt, NoneIn
  <2> QED
    BY <1>5, <2>2
<1> QED
  BY <1>6, <1>8, <1>9

\* The digits after the last separator, and the ones before.
LEMMA Digits ==
  ASSUME NEW n \in Nat, NEW text \in [1..n -> Chars], NEW p, NEW d, NEW g, IsSeparated(text, n, p, d, g)
  PROVE  /\ Count(SubSeq(text, p, n), "0") = n - p
         /\ Count(text, "0") = Count(SubSeq(text, 1, p - 1), "0") + (n - p)
         /\ Count(SubSeq(text, 1, p - 1), "0") \in 0..(p - 1)
<1>1. p \in 1..n /\ text[p] # "0" /\ p \in 1..(n + 1)
  <2>1. d \in {".", ","} /\ text[p] = d /\ p \in 1..n
    BY DEF IsSeparated, LastAt
  <2>2. text[p] # "0"
    BY <2>1
  <2>3. p \in 1..n
    BY <2>1
  <2>4. p \in 1..(n + 1)
    BY <2>3
  <2> QED
    BY <2>2, <2>3, <2>4
<1>2. \A i \in (p + 1)..n : text[i] = "0"
  <2>1. \A i \in (p + 1)..n : i \in 1..n /\ i \in p..n
    BY <1>1
  <2> QED
    BY <2>1 DEF IsSeparated, LastAt, NoneIn, Chars
<1> DEFINE before == SubSeq(text, 1, p - 1)
           after == SubSeq(text, p, n)
           A == {i \in 1..(p - 1) : text[i] = "0"}
<1>3. /\ before \in [1..(p - 1) -> Chars] /\ \A i \in 1..(p - 1) : before[i] = text[i]
      /\ after \in [1..(n + 1 - p) -> Chars] /\ \A i \in 1..(n + 1 - p) : after[i] = text[p + i - 1]
  BY <1>1, Pieces
<1> HIDE DEF before, after
<1>4. Count(before, "0") = Cardinality(A)
  <2>1. DOMAIN before = 1..(p - 1)
    BY <1>3
  <2>2. {i \in DOMAIN before : before[i] = "0"} = A
    BY <1>3, <2>1
  <2> QED
    BY <2>2 DEF Count
<1>5. Count(after, "0") = Cardinality(2..(n + 1 - p))
  <2>1. DOMAIN after = 1..(n + 1 - p)
    BY <1>3
  <2>2. \A i \in 1..(n + 1 - p) : after[i] = "0" <=> i \in 2..(n + 1 - p)
    <3> TAKE i \in 1..(n + 1 - p)
    <3>1. CASE i = 1
      <4>1. after[i] = text[p]
        <5>1. p + 1 - 1 = p
          BY <1>1
        <5> QED
          BY <1>3, <3>1, <5>1
      <4> QED
        BY <1>1, <3>1, <4>1
    <3>2. CASE i # 1
      <4>1. p + i - 1 \in (p + 1)..n /\ i \in 2..(n + 1 - p)
        BY <1>1, <3>2
      <4> QED
        BY <1>2, <1>3, <4>1
    <3> QED
      BY <3>1, <3>2
  <2>3. {i \in DOMAIN after : after[i] = "0"} = 2..(n + 1 - p)
    BY <2>1, <2>2
  <2> QED
    BY <2>3 DEF Count
<1>6. {i \in DOMAIN text : text[i] = "0"} = A \cup ((p + 1)..n)
  <2>1. \A i \in 1..n : text[i] = "0" <=> i \in A \/ i \in (p + 1)..n
    BY <1>1, <1>2
  <2>2. A \subseteq 1..n /\ (p + 1)..n \subseteq 1..n /\ DOMAIN text = 1..n
    BY <1>1
  <2> QED
    BY <2>1, <2>2
<1>7. /\ IsFiniteSet(A) /\ IsFiniteSet((p + 1)..n) /\ A \cap ((p + 1)..n) = {}
      /\ Cardinality(A) \in Nat /\ Cardinality(A) <= p - 1
      /\ Cardinality((p + 1)..n) = n - p /\ Cardinality(2..(n + 1 - p)) = n - p
  <2>1. IsFiniteSet(1..(p - 1)) /\ Cardinality(1..(p - 1)) = p - 1
    BY <1>1, FS_Interval
  <2>2. A \subseteq 1..(p - 1)
    OBVIOUS
  <2>3. IsFiniteSet(A) /\ Cardinality(A) \in Nat /\ Cardinality(A) <= p - 1
    BY <2>1, <2>2, FS_Subset, FS_CardinalityType
  <2>4. PICK a \in Int, b \in Int : a = p + 1 /\ b = n + 1 - p /\ n - a + 1 = n - p /\ b - 2 + 1 = n - p /\ a <= n + 1 /\ 2 <= b + 1
    BY <1>1
  <2>5. IsFiniteSet(a..n) /\ Cardinality(a..n) = n - p /\ Cardinality(2..b) = n - p
    <3>1. 2 \in Int /\ n \in Int
      OBVIOUS
    <3>2. IsFiniteSet(a..n) /\ Cardinality(a..n) = IF a > n THEN 0 ELSE n - a + 1
      BY <2>4, <3>1, FS_Interval
    <3>3. Cardinality(2..b) = IF 2 > b THEN 0 ELSE b - 2 + 1
      BY <2>4, <3>1, FS_Interval
    <3> QED
      BY <2>4, <3>2, <3>3
  <2>6. A \cap ((p + 1)..n) = {}
    BY <1>1
  <2> QED
    BY <2>3, <2>4, <2>5, <2>6
<1> HIDE DEF A
<1>8. Cardinality(A \cup ((p + 1)..n)) = Cardinality(A) + (n - p)
  <2>1. Cardinality(A \cup ((p + 1)..n)) = Cardinality(A) + Cardinality((p + 1)..n) - Cardinality(A \cap ((p + 1)..n))
    BY <1>7, FS_Union
  <2>2. Cardinality(A \cap ((p + 1)..n)) = 0
    BY <1>7, FS_EmptySet
  <2>3. n - p \in Int
    BY <1>1
  <2> QED
    BY <1>7, <2>1, <2>2, <2>3
<1>9. Count(text, "0") = Cardinality(A) + (n - p)
  BY <1>6, <1>8 DEF Count
<1>10. Count(before, "0") \in 0..(p - 1)
  BY <1>1, <1>4, <1>7
<1> QED
  BY <1>4, <1>5, <1>7, <1>9, <1>10 DEF before, after

\* How a text is taken that means something, once it is known where its point is.
Taken(text, group, p, x) ==
  LET whole == SubSeq(text, 1, p - 1)
      rest == SubSeq(text, p, Len(text))
  IN  /\ PartsOf(whole, group)[1] > 0 /\ Grouping(PartsOf(whole, group)) # "illegal"
      /\ p <= Len(text) => p < Len(text) /\ Count(rest, group) = 0
      /\ x = <<Count(whole, "0"), Count(rest, "0")>>

\* What it means has at most one point.
LEMMA MeansIs ==
  ASSUME NEW text, NEW group, NEW point, NEW x \in Means(text, group, point)
  PROVE  /\ Count(text, point) <= 1
         /\ Count(text, point) = 1 => Taken(text, group, LastPlace(text, {point}), x)
         /\ Count(text, point) # 1 => Taken(text, group, Len(text) + 1, x)
<1> DEFINE p == IF Count(text, point) = 1 THEN LastPlace(text, {point}) ELSE Len(text) + 1
<1>1. Count(text, point) <= 1 /\ Taken(text, group, p, x)
  BY Zenon DEF Means, Taken
<1>2. Count(text, point) = 1 => p = LastPlace(text, {point})
  OBVIOUS
<1>3. Count(text, point) # 1 => p = Len(text) + 1
  OBVIOUS
<1> HIDE DEF p
<1> QED
  BY <1>1, <1>2, <1>3

\* The place of a separator that stands once.
LEMMA OnlyPlace ==
  ASSUME NEW n \in Nat, NEW text \in [1..n -> Chars], NEW char, NEW q \in 1..n, OnlyAt(text, char, q, n)
  PROVE  LastPlace(text, {char}) = q
<1>1. Len(text) = n /\ DOMAIN text = 1..n
  OBVIOUS
<1>2. \A j \in (q + 1)..n : j \in 1..n /\ j # q
  OBVIOUS
<1> DEFINE Is(i) == text[i] \in {char} /\ \A j \in (i + 1)..Len(text) : text[j] \notin {char}
<1>3. q \in DOMAIN text /\ Is(q)
  BY <1>1, <1>2 DEF OnlyAt
<1>4. \A i \in DOMAIN text : Is(i) => i = q
  BY <1>1 DEF OnlyAt
<1>5. LastPlace(text, {char}) = CHOOSE i \in DOMAIN text : Is(i)
  BY DEF LastPlace
<1> HIDE DEF Is
<1> QED
  BY <1>3, <1>4, <1>5

\* What a text means with its last separator for a point.
LEMMA WithPoint ==
  ASSUME NEW n \in Nat, NEW text \in [1..n -> Chars], NEW p, NEW d, NEW g, IsSeparated(text, n, p, d, g),
         NEW x \in Means(text, g, d)
  PROVE  /\ OnlyAt(text, d, p, n) /\ p < n /\ p > 1
         /\ Grouping(PartsOf(SubSeq(text, 1, p - 1), g)) # "illegal"
         /\ text[1] # g
         /\ x = <<Count(SubSeq(text, 1, p - 1), "0"), n - p>>
<1>0. Len(text) = n
  OBVIOUS
<1>1. p \in 1..n /\ text[p] = d /\ Len(text) = n
  BY <1>0 DEF IsSeparated, LastAt
<1>2. Count(text, d) = 1
  <2>1. Count(text, d) <= 1 /\ Count(text, d) \in 0..n
    BY MeansIs, Occurring
  <2>2. 1 \in 1..n
    BY <1>1
  <2>3. ~NoneIn(text, d, 1, n)
    BY <1>1 DEF NoneIn
  <2>4. Count(text, d) # 0
    BY <2>3, Occurring
  <2> QED
    BY <2>1, <2>4
<1>3. PICK q \in 1..n : OnlyAt(text, d, q, n)
  BY <1>2, Occurring
<1>4. OnlyAt(text, d, p, n)
  BY <1>1, <1>3 DEF OnlyAt
<1>5. LastPlace(text, {d}) = p
  BY <1>1, <1>4, OnlyPlace
<1>6. Taken(text, g, p, x)
  BY <1>2, <1>5, MeansIs
<1> DEFINE before == SubSeq(text, 1, p - 1)
<1>7. p - 1 \in Nat /\ before \in [1..(p - 1) -> Chars] /\ \A i \in 1..(p - 1) : before[i] = text[i]
  <2>1. p \in 1..(n + 1)
    BY <1>1
  <2> QED
    BY <2>1, Pieces
<1>8. /\ p < n /\ PartsOf(before, g)[1] > 0 /\ Grouping(PartsOf(before, g)) # "illegal"
      /\ x = <<Count(before, "0"), Count(SubSeq(text, p, n), "0")>>
  <2>1. p <= Len(text)
    BY <1>1
  <2> QED
    BY <1>1, <1>6, <2>1 DEF Taken
<1>9. Count(SubSeq(text, p, n), "0") = n - p
  BY Digits
<1> HIDE DEF before
<1>10. p - 1 > 0 /\ before[1] # g
  <2>1. ArePartsOf(PartsOf(before, g), before, g, p - 1)
    BY <1>7, PartsAre
  <2> QED
    BY <1>8, <2>1 DEF ArePartsOf
<1>11. p > 1 /\ text[1] # g
  <2>1. 1 \in 1..(p - 1) /\ p > 1
    BY <1>1, <1>10
  <2> QED
    BY <1>7, <1>10, <2>1
<1> QED
  BY <1>4, <1>8, <1>9, <1>11 DEF before

\* What a text means with its last separator for grouping.
LEMMA WithGroups ==
  ASSUME NEW n \in Nat, NEW text \in [1..n -> Chars], NEW p, NEW d, NEW g, IsSeparated(text, n, p, d, g),
         NEW x \in Means(text, d, g)
  PROVE  /\ NoneIn(text, g, 1, n) /\ n - p = 3 /\ p > 1 /\ text[1] # d
         /\ Grouping(PartsOf(text, d)) # "illegal"
         /\ x = <<Count(text, "0"), 0>>
<1>1. p \in 1..n /\ text[p] = d /\ Len(text) = n /\ LastAt(text, d, p, n) /\ NoneIn(text, g, p, n) /\ d # g
  <2>1. Len(text) = n
    OBVIOUS
  <2>2. d # g
    BY DEF IsSeparated
  <2>3. p \in 1..n /\ LastAt(text, d, p, n) /\ NoneIn(text, g, p, n)
    BY DEF IsSeparated
  <2>4. text[p] = d
    BY <2>3 DEF LastAt
  <2> QED
    BY <2>1, <2>2, <2>3, <2>4
<1>2. Count(text, g) # 1
  <2> SUFFICES ASSUME Count(text, g) = 1 PROVE FALSE
    OBVIOUS
  <2>1. PICK q \in 1..n : OnlyAt(text, g, q, n)
    BY Occurring
  <2>2. Taken(text, d, q, x)
    <3>1. LastPlace(text, {g}) = q
      BY <2>1, OnlyPlace
    <3>2. Taken(text, d, LastPlace(text, {g}), x)
      BY MeansIs
    <3> QED
      BY <3>1, <3>2
  <2>3. q < p
    <3>1. text[q] = g
      BY <2>1 DEF OnlyAt
    <3>2. q \notin p..n
      BY <1>1, <3>1 DEF NoneIn
    <3>3. p \in 1..n
      BY <1>1
    <3> QED
      BY <3>2, <3>3
  <2>4. Count(SubSeq(text, q, n), d) = 0
    <3>1. q <= Len(text)
      BY <1>1
    <3> QED
      BY <1>1, <2>2, <3>1 DEF Taken
  <2> DEFINE rest == SubSeq(text, q, n)
  <2>5. n + 1 - q \in Nat /\ rest \in [1..(n + 1 - q) -> Chars] /\ \A i \in 1..(n + 1 - q) : rest[i] = text[q + i - 1]
    <3>1. q \in 1..(n + 1)
      OBVIOUS
    <3> QED
      BY <3>1, Pieces
  <2>6. NoneIn(rest, d, 1, n + 1 - q)
    <3> HIDE DEF rest
    <3>1. Count(rest, d) = 0
      BY <2>4 DEF rest
    <3> QED
      BY <2>5, <3>1, Occurring
  <2>7. PICK i \in 1..(n + 1 - q) : q + i - 1 = p
    <3>1. p \in 1..n
      BY <1>1
    <3>2. p - q + 1 \in 1..(n + 1 - q) /\ q + (p - q + 1) - 1 = p
      BY <2>3, <3>1
    <3> QED
      BY <3>2
  <2> HIDE DEF rest
  <2>8. rest[i] = text[p]
    BY <2>5, <2>7
  <2> QED
    BY <1>1, <2>6, <2>8 DEF NoneIn
<1>3. NoneIn(text, g, 1, n)
  <2>1. Count(text, g) <= 1 /\ Count(text, g) \in 0..n
    BY MeansIs, Occurring
  <2>2. Count(text, g) = 0
    BY <1>2, <2>1
  <2> QED
    BY <2>2, Occurring
<1>11. PICK m \in 1..(n + 1) : m = n + 1 /\ n + 1 - m = 0 /\ ~(m <= n)
  OBVIOUS
<1>4. Taken(text, d, m, x)
  <2>1. Taken(text, d, Len(text) + 1, x)
    BY <1>2, MeansIs
  <2>2. Len(text) + 1 = m
    BY <1>1, <1>11
  <2> QED
    BY <2>1, <2>2
<1>5. SubSeq(text, 1, m - 1) = text /\ Count(SubSeq(text, m, n), "0") = 0
  <2>1. SubSeq(text, 1, m - 1) = text /\ SubSeq(text, m, n) \in [1..(n + 1 - m) -> Chars]
    BY <1>11, Pieces
  <2> DEFINE rest == SubSeq(text, m, n)
  <2>2. PICK z \in Nat : z = n + 1 - m /\ z = 0
    BY <1>11
  <2>3. rest \in [1..z -> Chars]
    BY <2>1, <2>2, Zenon
  <2> HIDE DEF rest
  <2>4. Count(rest, "0") \in 0..z
    BY <2>3, Occurring
  <2>5. Count(rest, "0") = 0
    BY <2>2, <2>4
  <2> QED
    BY <2>1, <2>5 DEF rest
<1> DEFINE parts == PartsOf(text, d)
<1>6. parts[1] > 0 /\ Grouping(parts) # "illegal" /\ x = <<Count(text, "0"), 0>>
  BY <1>1, <1>4, <1>5 DEF Taken
<1>7. ArePartsOf(parts, text, d, n)
  BY PartsAre
<1> HIDE DEF parts
<1>8. text[1] # d /\ parts \in Seq(Nat) /\ Len(parts) \in Nat \ {0} /\ Len(parts) > 1 /\ parts[Len(parts)] = n - p
  BY <1>1, <1>6, <1>7 DEF ArePartsOf
<1>9. n - p = 3
  BY <1>6, <1>8, GroupingIs
<1>10. p > 1
  <2>1. p # 1 /\ p \in 1..n
    BY <1>1, <1>8
  <2> QED
    BY <2>1
<1> QED
  BY <1>3, <1>6, <1>8, <1>9, <1>10 DEF parts

\* What a text means to somebody, and what it is read as.
Meant(text) == Means(text, ",", ".") \cup Means(text, ".", ",")
ReadAs(text) == {<<r.whole, r.fraction>> : r \in Range(MoneyReadings(text))}

\* A reading, and what is answered of an amount.
Reading(style, whole, fraction) == [style |-> style, whole |-> whole, fraction |-> fraction]
GivenAs(value, ambiguous) == [value |-> value, ambiguous |-> ambiguous]

\* What is not an amount has no value, and means nothing to anybody.
LEMMA NoAmount ==
  ASSUME NEW text, MoneyReadings(text) = <<>>, Meant(text) = {}
  PROVE  AmountsAreNotGuessed(text)
<1>1. \A hint : Amount(text, hint) = GivenAs(<<>>, FALSE)
  BY DEF Amount, GivenAs
<1>2. ReadAs(text) = {}
  BY DEF ReadAs, Range
<1>3. GivenAs(<<>>, FALSE).value = <<>> /\ ~GivenAs(<<>>, FALSE).ambiguous
  BY DEF GivenAs
<1> QED
  BY <1>1, <1>2, <1>3, Zenon DEF AmountsAreNotGuessed, Meant, ReadAs

\* What is read one way has that value, whatever the hint.
LEMMA OneAmount ==
  ASSUME NEW text, NEW s, NEW w \in Nat, NEW f \in Nat, MoneyReadings(text) = <<Reading(s, w, f)>>, Meant(text) \subseteq {<<w, f>>}
  PROVE  AmountsAreNotGuessed(text)
<1> DEFINE r == <<Reading(s, w, f)>>
<1>1. r # <<>> /\ Len(r) = 1 /\ r[1] = Reading(s, w, f) /\ Range(r) = {Reading(s, w, f)}
  BY DEF Range
<1>2. Reading(s, w, f).whole = w /\ Reading(s, w, f).fraction = f
  BY DEF Reading
<1>3. MoneyReadings(text) = r
  OBVIOUS
<1> HIDE DEF r
<1>4. \A hint : Amount(text, hint) = GivenAs(<<w, f>>, FALSE)
  <2> TAKE hint
  <2>1. Amount(text, hint) = GivenAs(<<r[1].whole, r[1].fraction>>, FALSE)
    BY <1>1, <1>3 DEF Amount, GivenAs
  <2> QED
    BY <1>1, <1>2, <2>1
<1>5. ReadAs(text) = {<<w, f>>}
  BY <1>1, <1>2, <1>3 DEF ReadAs
<1>6. GivenAs(<<w, f>>, FALSE).value = <<w, f>> /\ ~GivenAs(<<w, f>>, FALSE).ambiguous
  BY DEF GivenAs
<1> QED
  BY <1>4, <1>5, <1>6, Zenon DEF AmountsAreNotGuessed, Meant, ReadAs

\* What is read two ways has no value until a hint says which.
LEMMA TwoAmounts ==
  ASSUME NEW text, NEW s, NEW t, <<s, t>> \in {<<"us", "eu">>, <<"eu", "us">>}, NEW w \in 1..Len(text),
         MoneyReadings(text) = <<Reading(t, w + 3, 0), Reading(s, w, 3)>>, Meant(text) \subseteq {<<w + 3, 0>>, <<w, 3>>}
  PROVE  AmountsAreNotGuessed(text)
<1> DEFINE x == Reading(t, w + 3, 0)
           y == Reading(s, w, 3)
           r == <<x, y>>
           chosen(hint) == {z \in Range(r) : z.style = hint}
<1>1. r # <<>> /\ Len(r) = 2 /\ Len(r) # 1 /\ Range(r) = {x, y}
  BY DEF Range
<1>2. x.style = t /\ y.style = s /\ <<x.whole, x.fraction>> = <<w + 3, 0>> /\ <<y.whole, y.fraction>> = <<w, 3>>
  BY DEF Reading
<1>3. MoneyReadings(text) = r
  OBVIOUS
<1>4. s # t /\ s # "none" /\ t # "none" /\ {"us", "eu"} = {s, t}
  OBVIOUS
<1> HIDE DEF x, y
<1>5. chosen("none") = {} /\ chosen(t) = {x} /\ chosen(s) = {y}
  BY <1>1, <1>2, <1>4
<1> HIDE DEF r
<1>6. ASSUME NEW hint, NEW z, chosen(hint) = {z}
      PROVE  Amount(text, hint) = GivenAs(<<z.whole, z.fraction>>, FALSE)
  <2> DEFINE one == CHOOSE u \in chosen(hint) : TRUE
  <2>1. Amount(text, hint) = GivenAs(<<one.whole, one.fraction>>, FALSE)
    <3>1. chosen(hint) # {}
      BY <1>6
    <3> QED
      BY <1>1, <1>3, <3>1 DEF Amount, GivenAs
  <2>2. one = z
    BY <1>6
  <2> QED
    BY <2>1, <2>2
<1>7. Amount(text, "none") = GivenAs(<<>>, TRUE)
  BY <1>1, <1>3, <1>5 DEF Amount, GivenAs
<1> HIDE DEF chosen
<1>8. Amount(text, t) = GivenAs(<<w + 3, 0>>, FALSE) /\ Amount(text, s) = GivenAs(<<w, 3>>, FALSE)
  BY <1>2, <1>5, <1>6, ZenonT(30)
<1>9. ReadAs(text) = {<<w + 3, 0>>, <<w, 3>>}
  BY <1>1, <1>2, <1>3 DEF ReadAs
<1>10. /\ GivenAs(<<>>, TRUE).value = <<>> /\ GivenAs(<<>>, TRUE).ambiguous
       /\ GivenAs(<<w + 3, 0>>, FALSE).value = <<w + 3, 0>> /\ GivenAs(<<w, 3>>, FALSE).value = <<w, 3>>
  BY DEF GivenAs
<1>11. {Amount(text, hint).value : hint \in {"us", "eu"}} = {<<w + 3, 0>>, <<w, 3>>}
  <2>1. {Amount(text, hint).value : hint \in {s, t}} = {Amount(text, s).value, Amount(text, t).value}
    OBVIOUS
  <2> QED
    BY <1>4, <1>8, <1>10, <2>1
<1>12. \E v \in 1..Len(text) : {<<w + 3, 0>>, <<w, 3>>} = {<<v, 3>>, <<v + 3, 0>>}
  <2>1. {<<w + 3, 0>>, <<w, 3>>} = {<<w, 3>>, <<w + 3, 0>>}
    OBVIOUS
  <2> QED
    BY <2>1, Zenon
<1> QED
  BY <1>7, <1>9, <1>10, <1>11, <1>12, Zenon DEF AmountsAreNotGuessed, Meant, ReadAs

\* From its end on there are no digits in a text.
LEMMA AtTheEnd ==
  ASSUME NEW n \in Nat, NEW text \in [1..n -> Chars], NEW group, NEW x, Taken(text, group, n + 1, x)
  PROVE  PartsOf(text, group)[1] > 0 /\ x = <<Count(text, "0"), 0>>
<1>1. PICK m \in 1..(n + 1) : m = n + 1 /\ n + 1 - m = 0
  OBVIOUS
<1>2. Len(text) = n
  OBVIOUS
<1>3. SubSeq(text, 1, m - 1) = text /\ SubSeq(text, m, n) \in [1..(n + 1 - m) -> Chars]
  BY <1>1, Pieces
<1> DEFINE rest == SubSeq(text, m, n)
<1>4. PICK z \in Nat : z = n + 1 - m /\ z = 0
  BY <1>1
<1>5. rest \in [1..z -> Chars]
  BY <1>3, <1>4, Zenon
<1> HIDE DEF rest
<1>6. Count(rest, "0") \in 0..z
  BY <1>5, Occurring
<1>7. Count(rest, "0") = 0
  BY <1>4, <1>6
<1>8. Taken(text, group, m, x)
  BY <1>1
<1> QED
  BY <1>2, <1>3, <1>7, <1>8 DEF Taken, rest

\* A text of nothing but digits.
AllDigits(text, n) == \A i \in 1..n : text[i] = "0"

\* What may be a point.
IsPoint(char) == char \in {",", "."}

\* A text of digits only means a whole number, and no digits mean nothing.
LEMMA WithoutPoint ==
  ASSUME NEW n \in Nat, NEW text \in [1..n -> Chars], AllDigits(text, n),
         NEW group, NEW point, IsPoint(point), NEW x, x \in Means(text, group, point)
  PROVE  n # 0 /\ x = <<n, 0>>
<1>1. Len(text) + 1 = n + 1 /\ 0 # 1
  OBVIOUS
<1>2. NoneIn(text, point, 1, n)
  BY DEF NoneIn, AllDigits, IsPoint
<1>3. Count(text, point) = 0
  BY <1>2, Occurring
<1>4. Count(text, point) # 1
  BY <1>1, <1>3
<1>5. Taken(text, group, n + 1, x)
  <2>1. Taken(text, group, Len(text) + 1, x)
    BY <1>4, MeansIs
  <2> QED
    BY <1>1, <2>1
<1>6. PartsOf(text, group)[1] > 0 /\ x = <<Count(text, "0"), 0>>
  BY <1>5, AtTheEnd
<1>7. Count(text, "0") = n
  <2>1. \A i \in 1..n : text[i] = "0"
    BY DEF AllDigits
  <2> QED
    BY <2>1, Occurring
<1>8. ArePartsOf(PartsOf(text, group), text, group, n)
  BY PartsAre
<1>9. n > 0
  BY <1>6, <1>8 DEF ArePartsOf
<1> QED
  BY <1>6, <1>7, <1>9

\* So it is with either point.
LEMMA OnlyDigits ==
  ASSUME NEW n \in Nat, NEW text \in [1..n -> Chars], AllDigits(text, n)
  PROVE  (n = 0 => Meant(text) = {}) /\ Meant(text) \subseteq {<<n, 0>>}
<1>1. IsPoint(",") /\ IsPoint(".")
  BY DEF IsPoint
<1>2. \A x \in Meant(text) : n # 0 /\ x = <<n, 0>>
  BY <1>1, WithoutPoint DEF Meant
<1> QED
  BY <1>2

\* The readings there are with a separator: one as the point, one as groups.
StyleOf(d) == IF d = "." THEN "us" ELSE "eu"

\* Where the last separator of a text is.
EndsAt(text, p) == LastPlace(text, {".", ","}) = p

\* Whether a text has both separators, or many of one, and whether it is legal.
HasBoth(text, g) == Count(text, g) > 0
HasMany(text, d, g) == ~HasBoth(text, g) /\ Count(text, d) > 1
IsLegal(text, p, d, g, n) ==
  LET before == SubSeq(text, 1, p - 1)
  IN  /\ n - p > 0
      /\ HasBoth(text, g) => Count(before, d) = 0 /\ Grouping(PartsOf(before, g)) # "illegal"
      /\ ~HasBoth(text, g) => Count(before, "0") > 0
      /\ HasMany(text, d, g) => Grouping(PartsOf(text, d)) # "illegal"

\* What a text with a separator is read as.
ReadingsIn(text, p, d, g, n) ==
  LET all == Count(text, "0")
      point == Reading(StyleOf(d), all - (n - p), n - p)
  IN  IF ~IsLegal(text, p, d, g, n) THEN <<>>
      ELSE IF HasMany(text, d, g) THEN <<Reading("grouped", all - 0, 0)>>
      ELSE IF HasBoth(text, g) \/ n - p # 3 THEN <<point>>
      ELSE <<Reading(StyleOf(g), all - 0, 0), point>>

\* Those are the readings the code has.
LEMMA ReadingsAre ==
  ASSUME NEW n \in Nat, NEW text \in [1..n -> Chars], NEW p, NEW d, NEW g, IsSeparated(text, n, p, d, g),
         EndsAt(text, p)
  PROVE  Separated(text) = ReadingsIn(text, p, d, g, n)
<1>1. Len(text) = n
  OBVIOUS
<1>2. (d = "." /\ g = ",") \/ (d = "," /\ g = ".")
  BY DEF IsSeparated
<1>0. text[p] = d
  BY DEF IsSeparated, LastAt
<1>3. CASE d = "."
  BY <1>0, <1>1, <1>2, <1>3, Zenon DEF Separated, Reading, StyleOf, EndsAt, ReadingsIn, IsLegal, HasMany, HasBoth
<1>4. CASE d = ","
  BY <1>0, <1>1, <1>2, <1>4, Zenon DEF Separated, Reading, StyleOf, EndsAt, ReadingsIn, IsLegal, HasMany, HasBoth
<1> QED
  BY <1>2, <1>3, <1>4

\* What means something is legal.
LEMMA MeantIsLegal ==
  ASSUME NEW n \in Nat, NEW text \in [1..n -> Chars], NEW p, NEW d, NEW g, IsSeparated(text, n, p, d, g)
  PROVE  /\ \A x \in Means(text, g, d) : /\ IsLegal(text, p, d, g, n) /\ ~HasMany(text, d, g)
                                         /\ x = <<Count(SubSeq(text, 1, p - 1), "0"), n - p>>
         /\ \A x \in Means(text, d, g) : /\ IsLegal(text, p, d, g, n) /\ ~HasBoth(text, g) /\ n - p = 3
                                         /\ x = <<Count(text, "0"), 0>>
<1> DEFINE before == SubSeq(text, 1, p - 1)
<1>1. p \in 1..n
  BY DEF IsSeparated
<1>2. PICK m \in Nat : m = p - 1 /\ m + 1 = p
  BY <1>1
<1>3. before \in [1..m -> Chars] /\ \A i \in 1..m : before[i] = text[i]
  <2>1. p \in 1..(n + 1)
    BY <1>1
  <2> QED
    BY <1>2, <2>1, Pieces
<1> HIDE DEF before
<1>4. HasBoth(text, g) <=> ~NoneIn(text, g, 1, n)
  <2>1. Count(text, g) \in 0..n /\ (Count(text, g) = 0 <=> NoneIn(text, g, 1, n))
    BY Occurring
  <2> QED
    BY <2>1 DEF HasBoth
<1>5. ASSUME ~HasBoth(text, g), p > 1, text[1] # d PROVE Count(before, "0") > 0
  <2>1. 1 \in 1..n /\ 1 \in 1..m
    BY <1>1, <1>2, <1>5
  <2>2. text[1] # g
    BY <1>4, <1>5, <2>1 DEF NoneIn
  <2>3. text[1] = "0"
    <3>1. text[1] \in Chars
      BY <2>1
    <3>2. Chars = {"0", d, g}
      BY DEF IsSeparated, Chars
    <3> QED
      BY <1>5, <2>2, <3>1, <3>2
  <2>4. ~NoneIn(before, "0", 1, m)
    BY <1>3, <2>1, <2>3 DEF NoneIn
  <2>5. Count(before, "0") \in 0..m /\ Count(before, "0") # 0
    BY <1>3, <2>4, Occurring
  <2> QED
    BY <2>5
<1>6. ASSUME NEW x \in Means(text, g, d)
      PROVE  /\ IsLegal(text, p, d, g, n) /\ ~HasMany(text, d, g)
             /\ x = <<Count(SubSeq(text, 1, p - 1), "0"), n - p>>
  <2>1. /\ OnlyAt(text, d, p, n) /\ p < n /\ p > 1 /\ Grouping(PartsOf(before, g)) # "illegal"
        /\ x = <<Count(SubSeq(text, 1, p - 1), "0"), n - p>>
    BY WithPoint DEF before
  <2>2. ~HasMany(text, d, g)
    <3>1. Count(text, d) = 1
      BY <1>1, <2>1, Occurring
    <3> QED
      BY <3>1 DEF HasMany
  <2>3. text[1] # d
    <3>1. 1 \in 1..n /\ 1 # p
      BY <1>1, <2>1
    <3> QED
      BY <2>1, <3>1 DEF OnlyAt
  <2>4. Count(before, d) = 0
    <3>1. \A i \in 1..m : i \in 1..n /\ i # p
      BY <1>1, <1>2
    <3>2. NoneIn(before, d, 1, m)
      BY <1>3, <2>1, <3>1 DEF NoneIn, OnlyAt
    <3> QED
      BY <1>3, <3>2, Occurring
  <2>5. n - p > 0
    BY <1>1, <2>1
  <2>6. IsLegal(text, p, d, g, n)
    BY <1>5, <2>1, <2>2, <2>3, <2>4, <2>5 DEF IsLegal, before
  <2> QED
    BY <2>1, <2>2, <2>6
<1>7. ASSUME NEW x \in Means(text, d, g)
      PROVE  /\ IsLegal(text, p, d, g, n) /\ ~HasBoth(text, g) /\ n - p = 3
             /\ x = <<Count(text, "0"), 0>>
  <2>1. /\ NoneIn(text, g, 1, n) /\ n - p = 3 /\ p > 1 /\ text[1] # d
        /\ Grouping(PartsOf(text, d)) # "illegal"
        /\ x = <<Count(text, "0"), 0>>
    BY WithGroups
  <2>2. ~HasBoth(text, g)
    BY <1>4, <2>1
  <2>3. n - p > 0
    BY <2>1
  <2>4. IsLegal(text, p, d, g, n)
    BY <1>5, <2>1, <2>2, <2>3 DEF IsLegal, before
  <2> QED
    BY <2>1, <2>2, <2>4
<1> QED
  BY <1>6, <1>7

\* A text with a separator.
LEMMA SeparatedIsRead ==
  ASSUME NEW n \in Nat, NEW text \in [1..n -> Chars], NEW p, NEW d, NEW g, IsSeparated(text, n, p, d, g),
         EndsAt(text, p), MoneyReadings(text) = Separated(text)
  PROVE  AmountsAreNotGuessed(text)
<1>1. PICK c \in Nat, t \in Nat, all \in Nat :
        /\ c = Count(SubSeq(text, 1, p - 1), "0") /\ t = n - p /\ all = Count(text, "0")
        /\ all = c + t /\ all - 0 = all /\ all - t = c /\ c <= n
  <2>1. p \in 1..n
    BY DEF IsSeparated
  <2>2. /\ Count(text, "0") = Count(SubSeq(text, 1, p - 1), "0") + (n - p)
        /\ Count(SubSeq(text, 1, p - 1), "0") \in 0..(p - 1)
    BY Digits
  <2> QED
    BY <2>1, <2>2
<1>2. Meant(text) = Means(text, g, d) \cup Means(text, d, g)
  <2>1. (d = "." /\ g = ",") \/ (d = "," /\ g = ".")
    BY DEF IsSeparated
  <2> QED
    BY <2>1 DEF Meant
<1>3. /\ \A x \in Means(text, g, d) : IsLegal(text, p, d, g, n) /\ ~HasMany(text, d, g) /\ x = <<c, t>>
      /\ \A x \in Means(text, d, g) : IsLegal(text, p, d, g, n) /\ ~HasBoth(text, g) /\ t = 3 /\ x = <<all, 0>>
  <2>1. <<Count(SubSeq(text, 1, p - 1), "0"), n - p>> = <<c, t>> /\ <<Count(text, "0"), 0>> = <<all, 0>>
    BY <1>1
  <2>2. /\ \A x \in Means(text, g, d) : /\ IsLegal(text, p, d, g, n) /\ ~HasMany(text, d, g)
                                        /\ x = <<Count(SubSeq(text, 1, p - 1), "0"), n - p>>
        /\ \A x \in Means(text, d, g) : /\ IsLegal(text, p, d, g, n) /\ ~HasBoth(text, g) /\ n - p = 3
                                        /\ x = <<Count(text, "0"), 0>>
    BY MeantIsLegal
  <2>3. t = n - p
    BY <1>1
  <2> QED
    BY <2>1, <2>2, <2>3, Zenon
<1>4. MoneyReadings(text) =
        IF ~IsLegal(text, p, d, g, n) THEN <<>>
        ELSE IF HasMany(text, d, g) THEN <<Reading("grouped", all - 0, 0)>>
        ELSE IF HasBoth(text, g) \/ t # 3 THEN <<Reading(StyleOf(d), all - t, t)>>
        ELSE <<Reading(StyleOf(g), all - 0, 0), Reading(StyleOf(d), all - t, t)>>
  <2>1. MoneyReadings(text) = ReadingsIn(text, p, d, g, n)
    BY ReadingsAre
  <2> QED
    BY <1>1, <2>1, Zenon DEF ReadingsIn
<1>5. CASE ~IsLegal(text, p, d, g, n)
  <2>1. Meant(text) = {}
    BY <1>2, <1>3, <1>5
  <2>2. MoneyReadings(text) = <<>>
    BY <1>4, <1>5
  <2> QED
    BY <2>1, <2>2, NoAmount
<1>6. CASE IsLegal(text, p, d, g, n) /\ HasMany(text, d, g)
  <2>1. Meant(text) \subseteq {<<all, 0>>}
    BY <1>2, <1>3, <1>6
  <2>2. MoneyReadings(text) = <<Reading("grouped", all, 0)>>
    BY <1>1, <1>4, <1>6
  <2>3. 0 \in Nat
    OBVIOUS
  <2> QED
    BY <2>1, <2>2, <2>3, OneAmount
<1>7. CASE IsLegal(text, p, d, g, n) /\ ~HasMany(text, d, g) /\ (HasBoth(text, g) \/ t # 3)
  <2>1. Meant(text) \subseteq {<<c, t>>}
    BY <1>2, <1>3, <1>7
  <2>2. MoneyReadings(text) = <<Reading(StyleOf(d), c, t)>>
    BY <1>1, <1>4, <1>7
  <2> QED
    BY <2>1, <2>2, OneAmount
<1>8. CASE IsLegal(text, p, d, g, n) /\ ~HasMany(text, d, g) /\ ~HasBoth(text, g) /\ t = 3
  <2>1. Meant(text) \subseteq {<<c + 3, 0>>, <<c, 3>>}
    <3>1. all = c + 3
      BY <1>1, <1>8
    <3> QED
      BY <1>2, <1>3, <1>8, <3>1
  <2>2. MoneyReadings(text) = <<Reading(StyleOf(g), c + 3, 0), Reading(StyleOf(d), c, 3)>>
    <3>1. all - 0 = c + 3 /\ all - t = c
      BY <1>1, <1>8
    <3> QED
      BY <1>4, <1>8, <3>1
  <2>3. c \in 1..Len(text)
    <3>1. Count(SubSeq(text, 1, p - 1), "0") > 0
      BY <1>8 DEF IsLegal
    <3>2. Len(text) = n
      OBVIOUS
    <3> QED
      BY <1>1, <3>1, <3>2
  <2>4. <<StyleOf(d), StyleOf(g)>> \in {<<"us", "eu">>, <<"eu", "us">>}
    BY DEF IsSeparated, StyleOf
  <2> QED
    BY <2>1, <2>2, <2>3, <2>4, TwoAmounts
<1> QED
  BY <1>5, <1>6, <1>7, <1>8

\* For every text of digits, points and commas: an amount that is given is what
\* the text means to everybody it means something to, nothing it may mean is
\* left out of its readings, and the two readings of an ambiguous one differ by
\* a thousand and are settled by a hint (interpret of money_parse).
THEOREM EveryAmountIsRead ==
  ASSUME NEW text \in Seq(Chars)
  PROVE  AmountsAreNotGuessed(text)
<1>1. PICK n : n = Len(text)
  OBVIOUS
<1>2. n \in Nat /\ text \in [1..n -> Chars]
  BY <1>1
<1>3. CASE text = <<>>
  <2>2. n = 0
    BY <1>1, <1>3
  <2>5. Count(text, "0") = Len(text)
    <3>1. Count(text, "0") \in 0..n
      BY <1>2, Occurring
    <3> QED
      BY <1>1, <2>2, <3>1
  <2>1. MoneyReadings(text) = <<>>
    BY <1>3, <2>5, Zenon DEF MoneyReadings
  <2>3. AllDigits(text, n)
    BY <2>2 DEF AllDigits
  <2>4. Meant(text) = {}
    BY <1>2, <2>2, <2>3, OnlyDigits
  <2> QED
    BY <2>1, <2>4, NoAmount
<1>4. CASE text # <<>> /\ Count(text, "0") = Len(text)
  <2>1. MoneyReadings(text) = <<Reading("plain", n, 0)>>
    BY <1>1, <1>4, Zenon DEF MoneyReadings, Reading
  <2>2. AllDigits(text, n)
    <3>1. Count(text, "0") = n
      BY <1>1, <1>4
    <3>2. \A i \in 1..n : text[i] = "0"
      BY <1>2, <3>1, Occurring
    <3> QED
      BY <3>2 DEF AllDigits
  <2>3. Meant(text) \subseteq {<<n, 0>>}
    BY <1>2, <2>2, OnlyDigits
  <2>4. 0 \in Nat
    OBVIOUS
  <2> QED
    BY <1>2, <2>1, <2>3, <2>4, OneAmount
<1>5. CASE text # <<>> /\ Count(text, "0") # Len(text)
  <2>1. PICK p, d, g : IsSeparated(text, n, p, d, g) /\ LastPlace(text, {".", ","}) = p
    BY <1>2, <1>5, SomeSeparated
  <2>2. MoneyReadings(text) = Separated(text)
    BY <1>5, Zenon DEF MoneyReadings
  <2>3. EndsAt(text, p)
    BY <2>1 DEF EndsAt
  <2> QED
    BY <1>2, <2>1, <2>2, <2>3, SeparatedIsRead
<1> QED
  BY <1>3, <1>4, <1>5

-----------------------------------------------------------------------------
(* What a text mentions.                                                   *)

\* A stretch of a text, word for word.
LEMMA WordsAt ==
  ASSUME NEW W, NEW n \in Nat, NEW text \in [1..n -> W], NEW i \in 1..n
  PROVE  /\ SubSeq(text, i, i) = <<text[i]>>
         /\ i + 2 <= n => SubSeq(text, i, i + 2) = <<text[i], text[i + 1], text[i + 2]>>
<1>1. text \in Seq(W) /\ Len(text) = n
  OBVIOUS
<1>2. SubSeq(text, i, i) = <<text[i]>>
  <2> DEFINE s == SubSeq(text, i, i)
  <2>1. s \in Seq(W) /\ Len(s) = 1 /\ s[1] = text[i]
    BY <1>1
  <2> HIDE DEF s
  <2>2. s = <<s[1]>>
    BY <2>1
  <2> QED
    BY <2>1, <2>2 DEF s
<1>3. ASSUME i + 2 <= n PROVE SubSeq(text, i, i + 2) = <<text[i], text[i + 1], text[i + 2]>>
  <2> DEFINE s == SubSeq(text, i, i + 2)
  <2>1. s \in Seq(W) /\ Len(s) = 3 /\ s[1] = text[i] /\ s[2] = text[i + 1] /\ s[3] = text[i + 2]
    BY <1>1, <1>3
  <2> HIDE DEF s
  <2>2. s = <<s[1], s[2], s[3]>>
    BY <2>1
  <2> QED
    BY <2>1, <2>2, Zenon DEF s
<1> QED
  BY <1>2, <1>3

\* The places an alias stands, in a text of n words.
StandsAt(text, alias, i) == SubSeq(text, i, i + Len(alias) - 1) = alias

\* An alias of so many words.
IsAlias(alias, k) == Len(alias) = k /\ k \in 1..3

\* A mention is somewhere in the text, and of one of the aliases.
IsMention(text, aliases, n, s) ==
  \E alias \in aliases : \E i \in 1..n :
    /\ s = [first |-> i, last |-> i + Len(alias) - 1]
    /\ i + Len(alias) - 1 <= n
    /\ StandsAt(text, alias, i)

\* The aliases of a table have words.
HaveWords(aliases) == \A alias \in aliases : Len(alias) \in Nat \ {0}

\* Nothing else is a mention.
LEMMA MentionsAre ==
  ASSUME NEW W, NEW n \in Nat, NEW text \in [1..n -> W], NEW aliases, HaveWords(aliases)
  PROVE  \A s : s \in Mentions(text, aliases) <=> IsMention(text, aliases, n, s)
<1>1. Len(text) = n
  OBVIOUS
<1>2. ASSUME NEW s, s \in Mentions(text, aliases) PROVE IsMention(text, aliases, n, s)
  <2>1. PICK alias \in aliases : s \in Places(text, alias)
    BY <1>2 DEF Mentions
  <2>2. PICK k \in Nat \ {0} : k = Len(alias)
    BY DEF HaveWords
  <2>3. PICK i \in 1..(n - k + 1) : s = [first |-> i, last |-> i + k - 1] /\ SubSeq(text, i, i + k - 1) = alias
    BY <1>1, <2>1, <2>2 DEF Places
  <2>4. i \in 1..n /\ i + k - 1 <= n
    BY <2>3, <2>2
  <2> QED
    BY <2>2, <2>3, <2>4 DEF IsMention, StandsAt
<1>3. ASSUME NEW s, IsMention(text, aliases, n, s) PROVE s \in Mentions(text, aliases)
  <2>1. PICK alias \in aliases, i \in 1..n :
          /\ s = [first |-> i, last |-> i + Len(alias) - 1]
          /\ i + Len(alias) - 1 <= n
          /\ StandsAt(text, alias, i)
    BY <1>3 DEF IsMention
  <2>2. PICK k \in Nat \ {0} : k = Len(alias)
    BY DEF HaveWords
  <2>3. i \in 1..(n - k + 1)
    BY <2>1, <2>2
  <2>4. s \in Places(text, alias)
    BY <1>1, <2>1, <2>2, <2>3 DEF Places, StandsAt
  <2> QED
    BY <2>4 DEF Mentions
<1> QED
  BY <1>2, <1>3

\* Where a mention begins and ends.
Spans(n) == {s \in [first : 1..n, last : 1..n] : s.first <= s.last}

\* A mention is a stretch of the text, which reads as one of the aliases.
LEMMA MentionsSpan ==
  ASSUME NEW W, NEW n \in Nat, NEW text \in [1..n -> W], NEW aliases, HaveWords(aliases)
  PROVE  /\ Mentions(text, aliases) \in SUBSET Spans(n)
         /\ \A s \in Mentions(text, aliases) : SubSeq(text, s.first, s.last) \in aliases
<1> SUFFICES ASSUME NEW s \in Mentions(text, aliases) PROVE s \in Spans(n) /\ SubSeq(text, s.first, s.last) \in aliases
  OBVIOUS
<1>1. IsMention(text, aliases, n, s)
  BY MentionsAre
<1>2. PICK alias \in aliases, i \in 1..n :
          /\ s = [first |-> i, last |-> i + Len(alias) - 1]
          /\ i + Len(alias) - 1 <= n
          /\ StandsAt(text, alias, i)
  BY <1>1 DEF IsMention
<1>3. PICK k \in Nat \ {0} : k = Len(alias)
  BY DEF HaveWords
<1>4. i + k - 1 \in 1..n /\ i <= i + k - 1
  BY <1>2, <1>3
<1>5. s.first = i /\ s.last = i + k - 1 /\ s \in Spans(n)
  BY <1>2, <1>3, <1>4 DEF Spans
<1> QED
  BY <1>2, <1>3, <1>5 DEF StandsAt

\* The best of some mentions is one of them, the first and there the longest.
IsBest(s, spans) == s \in spans /\ \A t \in spans : s.first < t.first \/ (s.first = t.first /\ s.last >= t.last)

\* Where anything is mentioned, there is a best mention.
LEMMA BestIs ==
  ASSUME NEW n \in Nat, NEW spans \in SUBSET Spans(n), spans # {}
  PROVE  IsBest(Best(spans), spans)
<1> DEFINE F == {s.first : s \in spans}
<1>1. F \in SUBSET (1..n) /\ F # {} /\ 1 \in Int /\ n \in Int
  BY DEF Spans
<1>2. PICK low \in F : \A f \in F : low <= f
  <2> HIDE DEF F
  <2> QED
    BY <1>1, FirstAndLast
<1> DEFINE L == {e \in 1..n : \E s \in spans : s.first = low /\ s.last = e}
<1>3. L \in SUBSET (1..n) /\ L # {}
  BY <1>2 DEF Spans
<1>4. PICK high \in L : \A e \in L : high >= e
  <2> HIDE DEF L
  <2> QED
    BY <1>1, <1>3, FirstAndLast
<1>5. PICK s \in spans : s.first = low /\ s.last = high
  BY <1>4
<1>6. \A t \in spans : t.first \in F /\ t.first \in 1..n /\ t.last \in 1..n /\ (t.first = low => t.last \in L)
  BY DEF Spans
<1>7. \A t \in spans : s.first < t.first \/ (s.first = t.first /\ s.last >= t.last)
  <2> TAKE t \in spans
  <2>1. low <= t.first /\ low \in 1..n /\ t.first \in 1..n
    BY <1>1, <1>2, <1>6
  <2>2. CASE t.first = low
    BY <1>4, <1>5, <1>6, <2>2
  <2>3. CASE t.first # low
    BY <1>5, <2>1, <2>3
  <2> QED
    BY <2>2, <2>3
<1>8. IsBest(s, spans)
  BY <1>7 DEF IsBest
<1>9. Best(spans) = CHOOSE u : IsBest(u, spans)
  BY DEF Best, IsBest
<1> QED
  BY <1>8, <1>9

\* A table gives aliases of some words to its labels, and none to two of them.
IsTable(table) ==
  /\ IsFiniteSet(DOMAIN table)
  /\ \A label \in DOMAIN table : HaveWords(table[label])
  /\ \A l, m \in DOMAIN table : table[l] \cap table[m] # {} => l = m

FormatLabels == {"csv", "json", "jsonl", "xlsx"}
ActionLabels == {"convert", "extract", "validate", "test"}

\* The formats are such a table.
LEMMA FormatTableIs == IsTable(FormatTable) /\ DOMAIN FormatTable = FormatLabels
<1>1. DOMAIN FormatTable = FormatLabels
  BY DEF FormatTable, FormatLabels
<1>2. IsFiniteSet(FormatLabels)
  <2>1. IsFiniteSet({"csv"})
    BY FS_Singleton
  <2>2. IsFiniteSet({"csv"} \cup {"json"})
    BY <2>1, FS_AddElement
  <2>3. IsFiniteSet(({"csv"} \cup {"json"}) \cup {"jsonl"})
    BY <2>2, FS_AddElement
  <2>4. IsFiniteSet((({"csv"} \cup {"json"}) \cup {"jsonl"}) \cup {"xlsx"})
    BY <2>3, FS_AddElement
  <2>5. (({"csv"} \cup {"json"}) \cup {"jsonl"}) \cup {"xlsx"} = FormatLabels
    BY DEF FormatLabels
  <2> QED
    BY <2>4, <2>5
<1>3. /\ FormatTable["csv"] = {<<"csv">>} /\ FormatTable["json"] = {<<"json">>}
      /\ FormatTable["jsonl"] = {<<"jsonl">>, <<"newline", "delimited", "json">>}
      /\ FormatTable["xlsx"] = {<<"xlsx">>, <<"spreadsheet">>}
  BY DEF FormatTable
<1>4. \A label \in FormatLabels : HaveWords(FormatTable[label])
  BY <1>3 DEF HaveWords, FormatLabels
<1>5. \A l, m \in FormatLabels : FormatTable[l] \cap FormatTable[m] # {} => l = m
  BY <1>3 DEF FormatLabels
<1> QED
  BY <1>1, <1>2, <1>4, <1>5 DEF IsTable

\* The actions are such a table.
LEMMA ActionTableIs == IsTable(ActionTable) /\ DOMAIN ActionTable = ActionLabels
<1>1. DOMAIN ActionTable = ActionLabels
  BY DEF ActionTable, ActionLabels
<1>2. IsFiniteSet(ActionLabels)
  <2>1. IsFiniteSet({"convert"})
    BY FS_Singleton
  <2>2. IsFiniteSet({"convert"} \cup {"extract"})
    BY <2>1, FS_AddElement
  <2>3. IsFiniteSet(({"convert"} \cup {"extract"}) \cup {"validate"})
    BY <2>2, FS_AddElement
  <2>4. IsFiniteSet((({"convert"} \cup {"extract"}) \cup {"validate"}) \cup {"test"})
    BY <2>3, FS_AddElement
  <2>5. (({"convert"} \cup {"extract"}) \cup {"validate"}) \cup {"test"} = ActionLabels
    BY DEF ActionLabels
  <2> QED
    BY <2>4, <2>5
<1>3. /\ ActionTable["convert"] = {<<"convert">>, <<"export">>} /\ ActionTable["extract"] = {<<"extract">>}
      /\ ActionTable["validate"] = {<<"validate">>, <<"check">>}
      /\ ActionTable["test"] = {<<"run", "tests">>, <<"pytest">>}
  BY DEF ActionTable
<1>4. \A label \in ActionLabels : HaveWords(ActionTable[label])
  BY <1>3 DEF HaveWords, ActionLabels
<1>5. \A l, m \in ActionLabels : ActionTable[l] \cap ActionTable[m] # {} => l = m
  BY <1>3 DEF ActionLabels
<1> QED
  BY <1>1, <1>2, <1>4, <1>5 DEF IsTable

\* What a table finds in a text: each label where it is mentioned best.
Found(text, table) ==
  {[at |-> Best(Mentions(text, table[label])), label |-> label] :
     label \in {l \in DOMAIN table : Mentions(text, table[l]) # {}}}
InsideOf(s, t) == /\ t.at.first <= s.at.first /\ s.at.last <= t.at.last
                /\ t.at.last - t.at.first > s.at.last - s.at.first
Outermost(text, table) == {s \in Found(text, table) : \A t \in Found(text, table) : ~InsideOf(s, t)}
ByPlace(S) == {e \in S \X S : e[1].at.first < e[2].at.first}

\* The matches of a table are the finds within no longer find, from the left.
LEMMA MatchesSorted ==
  ASSUME NEW text, NEW table
  PROVE  Matches(text, table) = Sorted(Outermost(text, table), ByPlace(Outermost(text, table)))
BY DEF Matches, Found, InsideOf, Outermost, ByPlace

\* What a label is found at.
FindOf(text, table, label) == [at |-> Best(Mentions(text, table[label])), label |-> label]

\* One find of a table.
IsFind(text, table, n, s) ==
  /\ s.label \in DOMAIN table
  /\ s = [at |-> s.at, label |-> s.label]
  /\ s.at \in Spans(n)
  /\ IsBest(s.at, Mentions(text, table[s.label]))
  /\ SubSeq(text, s.at.first, s.at.last) \in table[s.label]

\* A table finds finitely much: each label it finds, once, where the label is mentioned best.
LEMMA FoundAre ==
  ASSUME NEW W, NEW n \in Nat, NEW text \in [1..n -> W], NEW table, IsTable(table)
  PROVE  /\ IsFiniteSet(Found(text, table))
         /\ \A s \in Found(text, table) : IsFind(text, table, n, s)
         /\ \A s, t \in Found(text, table) : s.label = t.label => s = t
         /\ \A label \in DOMAIN table : Mentions(text, table[label]) # {} =>
              FindOf(text, table, label) \in Found(text, table)
         /\ \A s \in Found(text, table) : s = FindOf(text, table, s.label)
<1> DEFINE L == {l \in DOMAIN table : Mentions(text, table[l]) # {}}
           find(label) == [at |-> Best(Mentions(text, table[label])), label |-> label]
<1>1. Found(text, table) = {find(l) : l \in L}
  BY DEF Found
<1>2. IsFiniteSet(L)
  <2>1. L \subseteq DOMAIN table /\ IsFiniteSet(DOMAIN table)
    BY DEF IsTable
  <2> HIDE DEF L
  <2> QED
    BY <2>1, FS_Subset
<1>3. IsFiniteSet({find(l) : l \in L})
  <2> DEFINE T == {find(l) : l \in L}
             f == [l \in L |-> find(l)]
  <2>1. f \in Surjection(L, T)
    BY DEF Surjection
  <2> HIDE DEF L, T, f
  <2>2. IsFiniteSet(T)
    BY <1>2, <2>1, FS_Surjection
  <2> QED
    BY <2>2 DEF T
<1>4. ASSUME NEW l \in L PROVE IsFind(text, table, n, find(l))
  <2>1. l \in DOMAIN table /\ HaveWords(table[l]) /\ Mentions(text, table[l]) # {}
    BY DEF IsTable
  <2> DEFINE M == Mentions(text, table[l])
             b == Best(M)
  <2>2. M \in SUBSET Spans(n) /\ \A s \in M : SubSeq(text, s.first, s.last) \in table[l]
    BY <2>1, MentionsSpan
  <2>3. M # {}
    BY <2>1
  <2>4. IsBest(b, M)
    <3> HIDE DEF M
    <3> QED
      BY <2>2, <2>3, BestIs
  <2>5. b \in M
    BY <2>4 DEF IsBest
  <2>6. find(l).at = b /\ find(l).label = l /\ find(l) = [at |-> b, label |-> l]
    OBVIOUS
  <2> HIDE DEF find, b, M
  <2>7. b \in Spans(n) /\ SubSeq(text, b.first, b.last) \in table[l]
    BY <2>2, <2>5
  <2> QED
    BY <2>1, <2>4, <2>6, <2>7 DEF IsFind, M
<1>5. \A l \in L : find(l).label = l
  OBVIOUS
<1>6. \A l : find(l) = FindOf(text, table, l)
  BY DEF FindOf
<1> HIDE DEF find
<1>7. \A s \in Found(text, table) : \E l \in L : s = FindOf(text, table, l) /\ s.label = l
  BY <1>1, <1>5, <1>6
<1>8. \A s \in Found(text, table) : s = FindOf(text, table, s.label)
  BY <1>7
<1>9. \A s, t \in Found(text, table) : s.label = t.label => s = t
  BY <1>8
<1>10. \A s \in Found(text, table) : IsFind(text, table, n, s)
  BY <1>4, <1>6, <1>7
<1>11. \A label \in DOMAIN table : Mentions(text, table[label]) # {} => FindOf(text, table, label) \in Found(text, table)
  <2>1. \A label \in DOMAIN table : Mentions(text, table[label]) # {} => label \in L
    OBVIOUS
  <2> QED
    BY <1>1, <1>6, <2>1
<1> QED
  BY <1>1, <1>3, <1>8, <1>9, <1>10, <1>11

\* Two finds that begin together are not both outermost.
LEMMA OutermostDiffer ==
  ASSUME NEW W, NEW n \in Nat, NEW text \in [1..n -> W], NEW table, IsTable(table),
         NEW s \in Outermost(text, table), NEW t \in Outermost(text, table), s.at.first = t.at.first
  PROVE  s = t
<1>1. /\ IsFind(text, table, n, s) /\ IsFind(text, table, n, t) /\ s \in Found(text, table) /\ t \in Found(text, table)
      /\ ~InsideOf(s, t) /\ ~InsideOf(t, s)
  BY FoundAre DEF Outermost
<1>2. /\ s.at \in Spans(n) /\ t.at \in Spans(n) /\ s.label \in DOMAIN table /\ t.label \in DOMAIN table
      /\ SubSeq(text, s.at.first, s.at.last) \in table[s.label]
      /\ SubSeq(text, t.at.first, t.at.last) \in table[t.label]
  BY <1>1 DEF IsFind
<1>3. s.at.last = t.at.last
  <2>1. PICK a \in 1..n, b \in 1..n, c \in 1..n : s.at.first = a /\ t.at.first = a /\ s.at.last = b /\ t.at.last = c
    BY <1>2 DEF Spans
  <2>2. ~(b <= c /\ c - a > b - a) /\ ~(c <= b /\ b - a > c - a)
    BY <1>1, <2>1 DEF InsideOf
  <2>3. b = c
    BY <2>2
  <2> QED
    BY <2>1, <2>3
<1>4. SubSeq(text, s.at.first, s.at.last) \in table[s.label] \cap table[t.label]
  BY <1>2, <1>3
<1>5. s.label = t.label
  BY <1>2, <1>4 DEF IsTable
<1> QED
  BY <1>1, <1>5, FoundAre

\* Where they begin puts them in order.
LEMMA OutermostOrders ==
  ASSUME NEW W, NEW n \in Nat, NEW text \in [1..n -> W], NEW table, IsTable(table)
  PROVE  LET S == Outermost(text, table) IN IsFiniteSet(S) /\ Orders(S, ByPlace(S))
<1> DEFINE S == Outermost(text, table)
<1>1. S \subseteq Found(text, table) /\ IsFiniteSet(Found(text, table))
  BY FoundAre DEF Outermost
<1>2. IsFiniteSet(S)
  <2> HIDE DEF S
  <2> QED
    BY <1>1, FS_Subset
<1>3. \A s \in S : s.at.first \in Int
  BY <1>1, FoundAre DEF IsFind, Spans
<1>4. \A s, t \in S : s.at.first = t.at.first => s = t
  BY OutermostDiffer
<1> HIDE DEF S
<1>5. \A s, t \in S : <<s, t>> \in ByPlace(S) <=> s.at.first < t.at.first
  BY DEF ByPlace
<1>6. Orders(S, ByPlace(S))
  <2>1. \A x \in S : <<x, x>> \notin ByPlace(S)
    BY <1>3, <1>5
  <2>2. \A x, y \in S : x # y => <<x, y>> \in ByPlace(S) \/ <<y, x>> \in ByPlace(S)
    BY <1>3, <1>4, <1>5
  <2>3. \A x, y, z \in S : <<x, y>> \in ByPlace(S) /\ <<y, z>> \in ByPlace(S) => <<x, z>> \in ByPlace(S)
    <3> SUFFICES ASSUME NEW x \in S, NEW y \in S, NEW z \in S, x.at.first < y.at.first, y.at.first < z.at.first
                 PROVE  x.at.first < z.at.first
      BY <1>5
    <3> QED
      BY <1>3
  <2> QED
    BY <2>1, <2>2, <2>3 DEF Orders
<1> QED
  BY <1>2, <1>6 DEF S

\* The hits: the outermost finds, from the left.
AreHits(hits, S) ==
  /\ Len(hits) \in Nat /\ hits \in [1..Len(hits) -> S]
  /\ Range(hits) = S
  /\ \A p, q \in 1..Len(hits) : p < q => hits[p].at.first < hits[q].at.first

\* The matches of a table are its hits.
LEMMA HitsAre ==
  ASSUME NEW W, NEW n \in Nat, NEW text \in [1..n -> W], NEW table, IsTable(table)
  PROVE  AreHits(Matches(text, table), Outermost(text, table))
<1> DEFINE S == Outermost(text, table)
           hits == Matches(text, table)
<1>1. IsFiniteSet(S) /\ Orders(S, ByPlace(S)) /\ hits = Sorted(S, ByPlace(S))
  BY OutermostOrders, MatchesSorted
<1> HIDE DEF S, hits
<1>2. PICK c : c = Cardinality(S)
  OBVIOUS
<1>3. /\ c \in Nat /\ hits \in [1..c -> S] /\ Range(hits) = S
      /\ \A p, q \in 1..c : p < q => <<hits[p], hits[q]>> \in ByPlace(S)
  BY <1>1, <1>2, SortedIs
<1>4. Len(hits) = c
  BY <1>3
<1>5. \A p, q \in 1..c : p < q => hits[p].at.first < hits[q].at.first
  BY <1>3 DEF ByPlace
<1> QED
  BY <1>3, <1>4, <1>5 DEF AreHits, S, hits

\* Nothing else is.
LEMMA HitsOnly ==
  ASSUME NEW W, NEW n \in Nat, NEW text \in [1..n -> W], NEW table, IsTable(table),
         NEW hits, AreHits(hits, Outermost(text, table))
  PROVE  Matches(text, table) = hits
<1> DEFINE S == Outermost(text, table)
<1>1. Orders(S, ByPlace(S)) /\ Matches(text, table) = Sorted(S, ByPlace(S))
  BY OutermostOrders, MatchesSorted
<1> HIDE DEF S
<1>2. PICK c \in Nat : c = Len(hits)
  BY DEF AreHits
<1>3. hits \in [1..c -> S] /\ Range(hits) = S /\ \A p, q \in 1..c : p < q => hits[p].at.first < hits[q].at.first
  BY <1>2 DEF AreHits, S
<1>4. \A p, q \in 1..c : p < q => <<hits[p], hits[q]>> \in ByPlace(S)
  BY <1>3 DEF ByPlace
<1> QED
  BY <1>1, <1>3, <1>4, SortedOnly

-----------------------------------------------------------------------------
(* The formats of a phrase.                                                *)

\* Two hits in one phrase.
Compound(p, hit, text) ==
  /\ hit.at.first - p.at.first <= CompoundWordGap
  /\ \A i \in (p.at.first + 1)..(hit.at.first - 1) : text[i] \notin DirectionWords

\* One hit more.
TakeOn(kept, hit, text) ==
  IF kept # <<>> /\ Compound(Last(kept), hit, text) THEN Append(Front(kept), hit) ELSE Append(kept, hit)

\* The hits are taken from the left.
TakenOn(v, hits, text, S, n) ==
  /\ v \in [0..n -> Seq(S)] /\ v[0] = <<>>
  /\ \A k \in 1..n : v[k] = TakeOn(v[k - 1], hits[k], text)

\* One hit more is put at the end, or in the place of the last one.
LEMMA TakeOnIs ==
  ASSUME NEW S, NEW kept \in Seq(S), NEW hit \in S, NEW text
  PROVE  LET more == TakeOn(kept, hit, text)
             m == Len(kept)
         IN  /\ m \in Nat /\ more \in Seq(S)
             /\ \/ Len(more) = m + 1 /\ more[m + 1] = hit /\ \A i \in 1..m : more[i] = kept[i]
                \/ m > 0 /\ Len(more) = m /\ more[m] = hit /\ \A i \in 1..(m - 1) : more[i] = kept[i]
<1>1. PICK m \in Nat : m = Len(kept)
  OBVIOUS
<1>2. DOMAIN kept = 1..m /\ \A i \in 1..m : kept[i] \in S
  BY <1>1
<1>3. LET more == Append(kept, hit)
      IN  more \in Seq(S) /\ Len(more) = m + 1 /\ more[m + 1] = hit /\ \A i \in 1..m : more[i] = kept[i]
  BY <1>1
<1>4. ASSUME kept # <<>>
      PROVE  LET more == Append(Front(kept), hit)
             IN  m > 0 /\ more \in Seq(S) /\ Len(more) = m /\ more[m] = hit /\ \A i \in 1..(m - 1) : more[i] = kept[i]
  <2>1. m > 0
    BY <1>1, <1>4
  <2>2. Front(kept) = SubSeq(kept, 1, m - 1)
    BY <1>1 DEF Front
  <2>3. /\ Front(kept) \in Seq(S) /\ Len(Front(kept)) = m - 1
        /\ \A i \in 1..(m - 1) : Front(kept)[i] = kept[i]
    BY <1>1, <1>2, <2>1, <2>2
  <2>4. PICK front \in Seq(S) : front = Front(kept)
    BY <2>3
  <2>5. Append(front, hit) \in Seq(S) /\ Len(Append(front, hit)) = m /\ Append(front, hit)[m] = hit
        /\ \A i \in 1..(m - 1) : Append(front, hit)[i] = kept[i]
    BY <2>1, <2>3, <2>4
  <2> QED
    BY <2>1, <2>4, <2>5
<1> QED
  BY <1>1, <1>3, <1>4 DEF TakeOn

\* What is collapsed is what taking the hits one by one comes to.
LEMMA HitsTaken ==
  ASSUME NEW S, NEW n \in Nat, NEW hits \in [1..n -> S], NEW text
  PROVE  \E v : TakenOn(v, hits, text, S, n) /\ v[n] = Collapsed(hits, text)
<1> DEFINE F == [p \in Seq(S) \X (1..n) |-> TakeOn(p[1], hits[p[2]], text)]
           iter[s \in SUBSET (DOMAIN hits)] ==
             IF s = {} THEN <<>>
             ELSE IF iter[s \ {Max(s)}] # <<>> /\ Compound(Last(iter[s \ {Max(s)}]), hits[Max(s)], text)
                  THEN Append(Front(iter[s \ {Max(s)}]), hits[Max(s)]) ELSE Append(iter[s \ {Max(s)}], hits[Max(s)])
<1>1. DOMAIN hits = 1..n
  OBVIOUS
<1>2. Collapsed(hits, text) = iter[DOMAIN hits]
  BY Zenon DEF Collapsed, FoldLeft, MapThenFoldSet, Compound
<1>3. F \in [Seq(S) \X (1..n) -> Seq(S)]
  BY TakeOnIs
<1>0. <<>> \in Seq(S)
  OBVIOUS
<1>4. iter = [s \in SUBSET (1..n) |-> IF s = {} THEN <<>> ELSE TakeOn(iter[s \ {Max(s)}], hits[Max(s)], text)]
  <2>1. PICK g : IsFold(g, Seq(S), <<>>, n, F)
    <3> HIDE DEF F
    <3> QED
      BY <1>0, <1>3, FoldExists
  <2>2. ASSUME NEW s \in SUBSET (1..n), s # {}
        PROVE  g[s] = TakeOn(g[s \ {Max(s)}], hits[Max(s)], text)
    <3>1. Max(s) \in 1..n
      BY <2>2, LastOne
    <3>2. g[s \ {Max(s)}] \in Seq(S)
      BY <2>1 DEF IsFold
    <3> QED
      BY <2>1, <2>2, <3>1, <3>2 DEF IsFold
  <2>3. g = [s \in SUBSET (1..n) |-> IF s = {} THEN <<>> ELSE TakeOn(g[s \ {Max(s)}], hits[Max(s)], text)]
    BY <2>1, <2>2 DEF IsFold
  <2>4. iter = CHOOSE h : h = [s \in SUBSET (1..n) |-> IF s = {} THEN <<>> ELSE TakeOn(h[s \ {Max(s)}], hits[Max(s)], text)]
    BY <1>1, Zenon DEF TakeOn
  <2> QED
    BY <2>3, <2>4, Zenon
<1> HIDE DEF iter
<1>5. PICK v : LeadsTo(v, Seq(S), <<>>, n, F, iter[1..n])
  <2>1. iter[{}] = <<>>
    BY <1>4
  <2>2. ASSUME NEW s \in SUBSET (1..n), s # {}, iter[s \ {Max(s)}] \in Seq(S)
        PROVE  iter[s] = F[<<iter[s \ {Max(s)}], Max(s)>>]
    <3>1. Max(s) \in 1..n
      BY <2>2, LastOne
    <3> QED
      BY <1>4, <2>2, <3>1
  <2> HIDE DEF F
  <2>3. GoesBy(iter, Seq(S), <<>>, n, F)
    BY <2>1, <2>2 DEF GoesBy
  <2> QED
    BY <1>0, <1>3, <2>3, StepsOf
<1>6. v \in [0..n -> Seq(S)] /\ v[0] = <<>> /\ v[n] = iter[1..n]
  BY <1>5 DEF LeadsTo, IsSteps
<1>7. ASSUME NEW k \in 1..n PROVE v[k] = TakeOn(v[k - 1], hits[k], text)
  <2>1. v[k] = F[<<v[k - 1], k>>]
    BY <1>5 DEF LeadsTo, IsSteps
  <2>2. k - 1 \in 0..n
    OBVIOUS
  <2>3. v[k - 1] \in Seq(S)
    BY <1>6, <2>2
  <2> QED
    BY <2>1, <2>3
<1>8. TakenOn(v, hits, text, S, n)
  BY <1>6, <1>7 DEF TakenOn
<1> QED
  BY <1>1, <1>2, <1>6, <1>8

\* What was taken of the first k hits goes from left to right and ends in the
\* last of them.
Rises(kept, hits, k) ==
  /\ Len(kept) \in 0..k
  /\ k > 0 => Len(kept) > 0 /\ kept[Len(kept)] = hits[k]
  /\ \A p, q \in 1..Len(kept) : p < q => kept[p].at.first < kept[q].at.first

\* Where members of S begin.
BeginSomewhere(S) == \A s \in S : s.at.first \in Int

\* Taking the next hit keeps it so.
LEMMA StaysRising ==
  ASSUME NEW S, BeginSomewhere(S), NEW hits, NEW k \in Nat, NEW text,
         hits[k + 1] \in S, k > 0 => hits[k] \in S /\ hits[k].at.first < hits[k + 1].at.first,
         NEW kept \in Seq(S), Rises(kept, hits, k)
  PROVE  Rises(TakeOn(kept, hits[k + 1], text), hits, k + 1)
<1>1. PICK m \in 0..k : m = Len(kept)
  BY DEF Rises
<1>2. /\ k > 0 => m > 0 /\ kept[m] = hits[k]
      /\ \A p, q \in 1..m : p < q => kept[p].at.first < kept[q].at.first
  BY <1>1 DEF Rises
<1>3. \A p \in 1..m : kept[p].at.first \in Int
  BY <1>1 DEF BeginSomewhere
<1>4. PICK h \in S : h = hits[k + 1]
  OBVIOUS
<1>5. PICK more \in Seq(S) : more = TakeOn(kept, h, text)
  BY TakeOnIs
<1>6. \/ Len(more) = m + 1 /\ more[m + 1] = h /\ \A i \in 1..m : more[i] = kept[i]
      \/ m > 0 /\ Len(more) = m /\ more[m] = h /\ \A i \in 1..(m - 1) : more[i] = kept[i]
  BY <1>1, <1>5, TakeOnIs
<1>7. h.at.first \in Int
  BY DEF BeginSomewhere
<1>8. \A p \in 1..m : kept[p].at.first < h.at.first
  <2> SUFFICES ASSUME NEW p \in 1..m PROVE kept[p].at.first < h.at.first
    OBVIOUS
  <2>1. k > 0 /\ m \in 1..m
    BY <1>1
  <2>2. kept[m].at.first < h.at.first
    BY <1>2, <1>4, <2>1
  <2>3. p = m \/ kept[p].at.first < kept[m].at.first
    BY <1>2, <2>1
  <2> QED
    BY <1>3, <1>7, <2>1, <2>2, <2>3
<1>9. CASE Len(more) = m + 1 /\ more[m + 1] = h /\ \A i \in 1..m : more[i] = kept[i]
  <2>1. \A p, q \in 1..(m + 1) : p < q => more[p].at.first < more[q].at.first
    <3> SUFFICES ASSUME NEW p \in 1..(m + 1), NEW q \in 1..(m + 1), p < q PROVE more[p].at.first < more[q].at.first
      OBVIOUS
    <3>1. p \in 1..m /\ more[p] = kept[p]
      BY <1>1, <1>9
    <3>2. CASE q = m + 1
      BY <1>8, <1>9, <3>1, <3>2
    <3>3. CASE q # m + 1
      <4>1. q \in 1..m /\ more[q] = kept[q]
        BY <1>1, <1>9, <3>3
      <4> QED
        BY <1>2, <3>1, <4>1
    <3> QED
      BY <3>2, <3>3
  <2>2. Len(more) \in 0..(k + 1) /\ Len(more) > 0
    BY <1>1, <1>9
  <2> QED
    BY <1>4, <1>5, <1>9, <2>1, <2>2 DEF Rises
<1>10. CASE m > 0 /\ Len(more) = m /\ more[m] = h /\ \A i \in 1..(m - 1) : more[i] = kept[i]
  <2>1. \A p, q \in 1..m : p < q => more[p].at.first < more[q].at.first
    <3> SUFFICES ASSUME NEW p \in 1..m, NEW q \in 1..m, p < q PROVE more[p].at.first < more[q].at.first
      OBVIOUS
    <3>1. p \in 1..(m - 1) /\ more[p] = kept[p]
      BY <1>1, <1>10
    <3>2. CASE q = m
      BY <1>8, <1>10, <3>1, <3>2
    <3>3. CASE q # m
      <4>1. q \in 1..(m - 1) /\ more[q] = kept[q]
        BY <1>1, <1>10, <3>3
      <4> QED
        BY <1>2, <3>1, <4>1
    <3> QED
      BY <3>2, <3>3
  <2>2. Len(more) \in 0..(k + 1) /\ Len(more) > 0
    BY <1>1, <1>10
  <2> QED
    BY <1>4, <1>5, <1>10, <2>1, <2>2 DEF Rises
<1> QED
  BY <1>6, <1>9, <1>10

\* So hits that are collapsed go from left to right.
LEMMA CollapsedRises ==
  ASSUME NEW S, BeginSomewhere(S), NEW hits, AreHits(hits, S), NEW text
  PROVE  Collapsed(hits, text) \in Seq(S) /\ Rises(Collapsed(hits, text), hits, Len(hits))
<1>1. PICK n \in Nat : n = Len(hits)
  BY DEF AreHits
<1>2. hits \in [1..n -> S] /\ \A p, q \in 1..n : p < q => hits[p].at.first < hits[q].at.first
  BY <1>1 DEF AreHits
<1>3. PICK v : TakenOn(v, hits, text, S, n) /\ v[n] = Collapsed(hits, text)
  BY <1>2, HitsTaken
<1> DEFINE P == {k \in Nat : k <= n => Rises(v[k], hits, k)}
<1>4. 0 \in P
  <2>1. v[0] = <<>>
    BY <1>3 DEF TakenOn
  <2>2. Rises(<<>>, hits, 0)
    BY DEF Rises
  <2> QED
    BY <2>1, <2>2
<1>5. ASSUME NEW k \in Nat, k \in P PROVE k + 1 \in P
  <2> SUFFICES ASSUME k + 1 <= n PROVE Rises(v[k + 1], hits, k + 1)
    OBVIOUS
  <2>1. Rises(v[k], hits, k) /\ k \in 0..n /\ k + 1 \in 1..n /\ (k + 1) - 1 = k
    BY <1>5
  <2>2. v[k] \in Seq(S) /\ v[k + 1] = TakeOn(v[k], hits[k + 1], text)
    BY <1>3, <2>1 DEF TakenOn
  <2>3. hits[k + 1] \in S /\ (k > 0 => hits[k] \in S /\ hits[k].at.first < hits[k + 1].at.first)
    <3>1. k > 0 => k \in 1..n /\ k < k + 1
      BY <2>1
    <3> QED
      BY <1>2, <2>1, <3>1
  <2> QED
    BY <2>1, <2>2, <2>3, StaysRising
<1> HIDE DEF P
<1>6. n \in P
  BY <1>4, <1>5, EachNatural
<1>7. v[n] \in Seq(S)
  BY <1>3 DEF TakenOn
<1> QED
  BY <1>1, <1>3, <1>6, <1>7 DEF P

\* What is left of no hits, one, and two.
LEMMA CollapsedFew ==
  ASSUME NEW S, NEW hits, AreHits(hits, S), NEW text
  PROVE  /\ Len(hits) = 0 => Collapsed(hits, text) = <<>>
         /\ Len(hits) = 1 => Collapsed(hits, text) = <<hits[1]>>
         /\ Len(hits) = 2 /\ ~Compound(hits[1], hits[2], text) => Collapsed(hits, text) = <<hits[1], hits[2]>>
<1>1. PICK n \in Nat : n = Len(hits)
  BY DEF AreHits
<1>2. hits \in [1..n -> S]
  BY <1>1 DEF AreHits
<1>3. PICK v : TakenOn(v, hits, text, S, n) /\ v[n] = Collapsed(hits, text)
  BY <1>2, HitsTaken
<1>4. v[0] = <<>> /\ \A k \in 1..n : v[k] = TakeOn(v[k - 1], hits[k], text)
  BY <1>3 DEF TakenOn
<1>5. n > 0 => v[1] = <<hits[1]>>
  <2> SUFFICES ASSUME n > 0 PROVE v[1] = <<hits[1]>>
    OBVIOUS
  <2>1. 1 \in 1..n /\ 1 - 1 = 0
    OBVIOUS
  <2>2. v[1] = TakeOn(<<>>, hits[1], text)
    BY <1>4, <2>1
  <2>3. TakeOn(<<>>, hits[1], text) = Append(<<>>, hits[1])
    BY DEF TakeOn
  <2> QED
    BY <2>2, <2>3
<1>6. n = 2 /\ ~Compound(hits[1], hits[2], text) => v[2] = <<hits[1], hits[2]>>
  <2> SUFFICES ASSUME n = 2, ~Compound(hits[1], hits[2], text) PROVE v[2] = <<hits[1], hits[2]>>
    OBVIOUS
  <2>1. 2 \in 1..n /\ 2 - 1 = 1
    OBVIOUS
  <2>2. v[2] = TakeOn(<<hits[1]>>, hits[2], text)
    BY <1>4, <1>5, <2>1
  <2>3. Last(<<hits[1]>>) = hits[1]
    BY DEF Last
  <2>4. TakeOn(<<hits[1]>>, hits[2], text) = Append(<<hits[1]>>, hits[2])
    BY <2>3 DEF TakeOn
  <2> QED
    BY <2>2, <2>4
<1>7. v[0] = <<>> /\ v[n] = Collapsed(hits, text)
  BY <1>3, <1>4
<1>8. n = 0 => Collapsed(hits, text) = <<>>
  BY <1>7
<1>9. n = 1 => Collapsed(hits, text) = <<hits[1]>>
  <2> SUFFICES ASSUME n = 1 PROVE Collapsed(hits, text) = <<hits[1]>>
    OBVIOUS
  <2>1. v[1] = <<hits[1]>> /\ v[1] = Collapsed(hits, text)
    BY <1>5, <1>7
  <2> QED
    BY <2>1, Zenon
<1>10. n = 2 /\ ~Compound(hits[1], hits[2], text) => Collapsed(hits, text) = <<hits[1], hits[2]>>
  BY <1>6, <1>7
<1> QED
  BY <1>1, <1>8, <1>9, <1>10

-----------------------------------------------------------------------------
(* What a task is called.                                                  *)

\* The formats and the actions of a task.
FormatsOf(text) == Collapsed(Matches(text, FormatTable), text)
ActionsOf(text) == Matches(text, ActionTable)

\* Which of the labels there are of so many formats.
LEMMA NormalizeIs ==
  ASSUME NEW text, Len(FormatsOf(text)) \in Nat
  PROVE  LET m == Len(FormatsOf(text))
             f(i) == FormatsOf(text)[i].label
             actions == ActionsOf(text)
         IN  /\ m >= 2 /\ TurnedAround(FormatsOf(text), text) => Normalize(text) = <<f(2), "to", f(1)>>
             /\ m >= 2 /\ ~TurnedAround(FormatsOf(text), text) => Normalize(text) = <<f(1), "to", f(2)>>
             /\ m = 1 /\ actions # <<>> => Normalize(text) = <<actions[1].label, f(1)>>
             /\ m = 0 /\ actions # <<>> => Normalize(text) = <<actions[1].label>>
             /\ m < 2 /\ actions = <<>> => Normalize(text) = UNKNOWN
<1> DEFINE formats == FormatsOf(text)
           actions == ActionsOf(text)
           one == formats[1].label
           two == formats[2].label
           turned == TurnedAround(formats, text)
<1>1. Normalize(text) =
        CASE Len(formats) >= 2 /\ turned -> <<two, "to", one>>
          [] Len(formats) >= 2 /\ ~turned -> <<one, "to", two>>
          [] Len(formats) = 1 /\ actions # <<>> -> <<actions[1].label, one>>
          [] Len(formats) = 0 /\ actions # <<>> -> <<actions[1].label>>
          [] OTHER -> UNKNOWN
  BY Zenon DEF Normalize, FormatsOf, ActionsOf
<1>2. PICK m \in Nat : m = Len(formats)
  OBVIOUS
<1> HIDE DEF formats, actions, one, two, turned
<1>3. CASE m >= 2
  <2>1. Len(formats) >= 2 /\ Len(formats) # 1 /\ Len(formats) # 0
    BY <1>2, <1>3
  <2>2. turned => Normalize(text) = <<two, "to", one>>
    BY <1>1, <2>1, Zenon
  <2>3. ~turned => Normalize(text) = <<one, "to", two>>
    BY <1>1, <2>1, Zenon
  <2>4. m # 1 /\ m # 0 /\ ~(m < 2)
    BY <1>3
  <2> QED
    BY <1>2, <2>2, <2>3, <2>4, Zenon DEF formats, actions, one, two, turned
<1>4. CASE m = 1
  <2>1. ~(Len(formats) >= 2) /\ Len(formats) = 1 /\ Len(formats) # 0
    BY <1>2, <1>4
  <2>2. actions # <<>> => Normalize(text) = <<actions[1].label, one>>
    BY <1>1, <2>1, Zenon
  <2>3. actions = <<>> => Normalize(text) = UNKNOWN
    BY <1>1, <2>1, Zenon
  <2>4. ~(m >= 2) /\ m # 0
    BY <1>4
  <2> QED
    BY <1>2, <2>2, <2>3, <2>4, Zenon DEF formats, actions, one
<1>5. CASE m = 0
  <2>1. ~(Len(formats) >= 2) /\ Len(formats) # 1 /\ Len(formats) = 0
    BY <1>2, <1>5
  <2>2. actions # <<>> => Normalize(text) = <<actions[1].label>>
    BY <1>1, <2>1, Zenon
  <2>3. actions = <<>> => Normalize(text) = UNKNOWN
    BY <1>1, <2>1, Zenon
  <2>4. ~(m >= 2) /\ m # 1
    BY <1>5
  <2> QED
    BY <1>2, <2>2, <2>3, <2>4, Zenon DEF formats, actions
<1>6. m >= 2 \/ m = 1 \/ m = 0
  OBVIOUS
<1> QED
  BY <1>3, <1>4, <1>5, <1>6, Zenon DEF formats, actions, one, two, turned

\* The formats a task names.
NamedIn(text) == {s.label : s \in Outermost(text, FormatTable)}

\* A label of some formats.
IsLabelOf(label, F) ==
  \/ label = UNKNOWN
  \/ \E a \in ActionLabels : label = <<a>>
  \/ \E a \in ActionLabels, f \in F : label = <<a, f>>
  \/ \E f, g \in F : f # g /\ label = <<f, "to", g>>

\* A label is unknown, an action, an action with a format, or one format to another, and names
\* no format the task does not name.
LEMMA LabelsAre ==
  ASSUME NEW W, NEW n \in Nat, NEW text \in [1..n -> W]
  PROVE  IsLabelOf(Normalize(text), NamedIn(text)) /\ NamedIn(text) \subseteq FormatLabels
<1> DEFINE S == Outermost(text, FormatTable)
           formats == FormatsOf(text)
           actions == ActionsOf(text)
<1>1. /\ S \subseteq Found(text, FormatTable)
      /\ \A s \in S : IsFind(text, FormatTable, n, s)
      /\ \A s, t \in S : s.label = t.label => s = t
  BY FormatTableIs, FoundAre DEF Outermost
<1>2. BeginSomewhere(S)
  BY <1>1 DEF BeginSomewhere, IsFind, Spans
<1>3. NamedIn(text) = {s.label : s \in S} /\ NamedIn(text) \subseteq FormatLabels
  BY <1>1, FormatTableIs DEF NamedIn, IsFind
<1>4. AreHits(Matches(text, FormatTable), S)
  BY FormatTableIs, HitsAre
<1> HIDE DEF S
<1>5. formats \in Seq(S) /\ Rises(formats, Matches(text, FormatTable), Len(Matches(text, FormatTable)))
  BY <1>2, <1>4, CollapsedRises DEF FormatsOf
<1> HIDE DEF formats
<1>6. PICK m \in Nat : m = Len(formats)
  BY <1>5
<1>7. \A i \in 1..m : formats[i] \in S /\ formats[i].label \in NamedIn(text)
  BY <1>3, <1>5, <1>6
<1>8. m >= 2 => formats[1].label # formats[2].label
  <2> SUFFICES ASSUME m >= 2 PROVE formats[1].label # formats[2].label
    OBVIOUS
  <2>1. 1 \in 1..m /\ 2 \in 1..m /\ 1 < 2
    OBVIOUS
  <2>2. formats[1].at.first < formats[2].at.first
    BY <1>5, <1>6, <2>1 DEF Rises
  <2>3. formats[1].at.first \in Int /\ formats[1] \in S /\ formats[2] \in S
    BY <1>2, <1>7, <2>1 DEF BeginSomewhere
  <2>4. formats[1] # formats[2]
    BY <2>2, <2>3
  <2> QED
    BY <1>1, <2>3, <2>4
<1>9. actions # <<>> => actions[1].label \in ActionLabels
  <2> DEFINE A == Outermost(text, ActionTable)
  <2>1. AreHits(actions, A)
    BY ActionTableIs, HitsAre DEF ActionsOf
  <2>2. \A s \in A : s.label \in ActionLabels
    BY ActionTableIs, FoundAre DEF Outermost, IsFind
  <2> HIDE DEF A, actions
  <2>3. PICK c \in Nat : c = Len(actions) /\ actions \in [1..c -> A]
    BY <2>1 DEF AreHits
  <2>4. actions # <<>> => c > 0
    BY <2>3
  <2> QED
    BY <2>2, <2>3, <2>4
<1> HIDE DEF actions
<1>10. CASE m >= 2
  <2>1. formats[1].label \in NamedIn(text) /\ formats[2].label \in NamedIn(text)
    BY <1>7, <1>10
  <2>2. \/ Normalize(text) = <<formats[2].label, "to", formats[1].label>>
        \/ Normalize(text) = <<formats[1].label, "to", formats[2].label>>
    BY <1>6, <1>10, NormalizeIs DEF formats
  <2>3. \E f, g \in NamedIn(text) : f # g /\ Normalize(text) = <<f, "to", g>>
    BY <1>8, <1>10, <2>1, <2>2
  <2> QED
    BY <1>3, <2>3 DEF IsLabelOf
<1>11. CASE m < 2
  <2>1. m = 0 \/ m = 1
    BY <1>11
  <2>2. \/ Normalize(text) = UNKNOWN
        \/ actions # <<>> /\ Normalize(text) = <<actions[1].label>>
        \/ m = 1 /\ actions # <<>> /\ Normalize(text) = <<actions[1].label, formats[1].label>>
    BY <1>6, <1>11, <2>1, NormalizeIs DEF formats, actions
  <2>3. m = 1 => formats[1].label \in NamedIn(text)
    BY <1>7
  <2> QED
    BY <1>3, <1>9, <2>2, <2>3 DEF IsLabelOf
<1> QED
  BY <1>10, <1>11

\* Every json of a text ends a newline-delimited one, and no jsonl comes before
\* them all.
OnlyDelimited(text) ==
  /\ \A i \in DOMAIN text : text[i] = "json" => i > 2 /\ text[i - 2] = "newline" /\ text[i - 1] = "delimited"
  /\ \A i \in DOMAIN text : text[i] = "jsonl" => \E j \in 1..(i - 1) : text[j] = "json"

\* Such a text does not name json.
LEMMA JsonIsInside ==
  ASSUME NEW W, NEW n \in Nat, NEW text \in [1..n -> W], OnlyDelimited(text)
  PROVE  "json" \notin NamedIn(text)
<1> SUFFICES ASSUME NEW s \in Outermost(text, FormatTable), s.label = "json" PROVE FALSE
  BY DEF NamedIn
<1> DEFINE json == Mentions(text, FormatTable["json"])
           jsonl == Mentions(text, FormatTable["jsonl"])
           long == <<"newline", "delimited", "json">>
<1>1. /\ IsFind(text, FormatTable, n, s)
      /\ HaveWords(FormatTable["json"]) /\ HaveWords(FormatTable["jsonl"]) /\ "jsonl" \in DOMAIN FormatTable
      /\ FormatTable["json"] = {<<"json">>} /\ FormatTable["jsonl"] = {<<"jsonl">>, long}
  <2>1. IsFind(text, FormatTable, n, s)
    BY FormatTableIs, FoundAre DEF Outermost
  <2>2. "json" \in DOMAIN FormatTable /\ "jsonl" \in DOMAIN FormatTable
    BY FormatTableIs DEF FormatLabels
  <2>3. HaveWords(FormatTable["json"]) /\ HaveWords(FormatTable["jsonl"])
    BY <2>2, FormatTableIs DEF IsTable
  <2>4. FormatTable["json"] = {<<"json">>} /\ FormatTable["jsonl"] = {<<"jsonl">>, long}
    BY DEF FormatTable
  <2> QED
    BY <2>1, <2>2, <2>3, <2>4
<1>2. Len(<<"json">>) = 1 /\ Len(<<"jsonl">>) = 1 /\ Len(long) = 3 /\ DOMAIN text = 1..n
  OBVIOUS
<1>3. s.at \in json /\ \A t \in json : s.at.first <= t.first
  <2>1. IsBest(s.at, json)
    BY <1>1 DEF IsFind
  <2>2. json \in SUBSET Spans(n)
    BY <1>1, MentionsSpan
  <2>3. s.at \in json
    BY <2>1 DEF IsBest
  <2>4. \A t \in json : s.at.first < t.first \/ s.at.first = t.first
    BY <2>1 DEF IsBest
  <2> HIDE DEF json
  <2>5. s.at.first \in Int /\ \A t \in json : t.first \in Int
    BY <2>2, <2>3 DEF Spans
  <2> QED
    BY <2>3, <2>4, <2>5
<1>4. PICK i \in 1..n : s.at = [first |-> i, last |-> i] /\ text[i] = "json"
  <2>1. IsMention(text, {<<"json">>}, n, s.at)
    BY <1>1, <1>3, MentionsAre
  <2>2. PICK i \in 1..n : s.at = [first |-> i, last |-> i + 1 - 1] /\ SubSeq(text, i, i + 1 - 1) = <<"json">>
    BY <1>2, <2>1 DEF IsMention, StandsAt
  <2>3. SubSeq(text, i, i) = <<text[i]>>
    BY WordsAt
  <2> QED
    BY <2>2, <2>3
<1>5. i > 2 /\ text[i - 2] = "newline" /\ text[i - 1] = "delimited"
  BY <1>2, <1>4 DEF OnlyDelimited
<1>6. \A j \in 1..n : text[j] = "json" => i <= j
  <2> SUFFICES ASSUME NEW j \in 1..n, text[j] = "json" PROVE i <= j
    OBVIOUS
  <2>1. SubSeq(text, j, j) = <<"json">>
    BY WordsAt
  <2>2. StandsAt(text, <<"json">>, j) /\ j + Len(<<"json">>) - 1 = j
    BY <1>2, <2>1 DEF StandsAt
  <2>3. IsMention(text, {<<"json">>}, n, [first |-> j, last |-> j])
    BY <2>2 DEF IsMention
  <2>4. [first |-> j, last |-> j] \in json
    BY <1>1, <2>3, MentionsAre
  <2> QED
    BY <1>3, <1>4, <2>4
<1>7. [first |-> i - 2, last |-> i] \in jsonl
  <2>1. i - 2 \in 1..n /\ (i - 2) + 3 - 1 = i
    BY <1>5
  <2>2. SubSeq(text, i - 2, i) = long
    <3>1. PICK h \in 1..n : h = i - 2 /\ h + 1 = i - 1 /\ h + 2 = i
      BY <2>1
    <3>2. SubSeq(text, h, h + 2) = <<text[h], text[h + 1], text[h + 2]>>
      <4>1. h + 2 <= n
        BY <3>1
      <4> QED
        BY <4>1, WordsAt
    <3> QED
      BY <1>4, <1>5, <3>1, <3>2
  <2>3. StandsAt(text, long, i - 2)
    BY <1>2, <2>1, <2>2 DEF StandsAt
  <2>4. IsMention(text, {<<"jsonl">>, long}, n, [first |-> i - 2, last |-> i])
    BY <1>2, <2>1, <2>3 DEF IsMention
  <2> QED
    BY <1>1, <2>4, MentionsAre
<1>8. PICK t : t = FindOf(text, FormatTable, "jsonl") /\ t \in Found(text, FormatTable)
  <2>1. Mentions(text, FormatTable["jsonl"]) # {}
    BY <1>7
  <2> QED
    BY <1>1, <2>1, FormatTableIs, FoundAre
<1>9. PICK b : b = t.at /\ IsBest(b, jsonl) /\ b \in Spans(n) /\ b \in jsonl
  <2>1. IsFind(text, FormatTable, n, t)
    BY <1>8, FormatTableIs, FoundAre
  <2>2. t.label = "jsonl"
    BY <1>8 DEF FindOf
  <2> QED
    BY <2>1, <2>2 DEF IsFind, IsBest
<1>10. b.first < i - 2 \/ (b.first = i - 2 /\ b.last >= i)
  BY <1>7, <1>9 DEF IsBest
<1>11. CASE b.first = i - 2 /\ b.last >= i
  <2>1. InsideOf(s, t)
    BY <1>4, <1>9, <1>11 DEF InsideOf, Spans
  <2> QED
    BY <1>8, <2>1 DEF Outermost
<1>12. CASE b.first < i - 2
  <2>1. IsMention(text, {<<"jsonl">>, long}, n, b)
    BY <1>1, <1>9, MentionsAre
  <2>2. PICK j \in 1..n : /\ b.first = j
                          /\ \/ SubSeq(text, j, j) = <<"jsonl">>
                             \/ j + 2 <= n /\ SubSeq(text, j, j + 2) = long
    <3>1. PICK alias \in {<<"jsonl">>, long}, j \in 1..n :
            b = [first |-> j, last |-> j + Len(alias) - 1] /\ j + Len(alias) - 1 <= n /\ StandsAt(text, alias, j)
      BY <2>1 DEF IsMention
    <3>2. b.first = j
      BY <3>1
    <3>3. CASE alias = <<"jsonl">>
      <4>1. j + Len(alias) - 1 = j
        BY <1>2, <3>3
      <4> QED
        BY <3>1, <3>2, <3>3, <4>1 DEF StandsAt
    <3>4. CASE alias = long
      <4>1. j + Len(alias) - 1 = j + 2
        BY <1>2, <3>4
      <4> QED
        BY <3>1, <3>2, <3>4, <4>1 DEF StandsAt
    <3> QED
      BY <3>1, <3>3, <3>4
  <2>3. CASE SubSeq(text, j, j) = <<"jsonl">>
    <3>1. text[j] = "jsonl"
      <4>1. SubSeq(text, j, j) = <<text[j]>>
        BY WordsAt
      <4> QED
        BY <2>3, <4>1
    <3>2. PICK k \in 1..(j - 1) : text[k] = "json"
      BY <1>2, <3>1 DEF OnlyDelimited
    <3>3. k \in 1..n /\ k < i
      BY <1>12, <2>2
    <3> QED
      BY <1>6, <3>2, <3>3
  <2>4. CASE j + 2 <= n /\ SubSeq(text, j, j + 2) = long
    <3>1. text[j + 2] = "json"
      <4>1. SubSeq(text, j, j + 2) = <<text[j], text[j + 1], text[j + 2]>>
        BY <2>4, WordsAt
      <4> QED
        BY <2>4, <4>1
    <3>2. j + 2 \in 1..n /\ j + 2 < i
      BY <1>12, <2>2, <2>4
    <3> QED
      BY <1>6, <3>1, <3>2
  <2> QED
    BY <2>2, <2>3, <2>4
<1> QED
  BY <1>10, <1>11, <1>12

\* Of every text: words that are only part of a longer name are not read as a
\* name of their own.
THEOREM TheLongestIsRead ==
  ASSUME NEW W, NEW n \in Nat, NEW text \in [1..n -> W]
  PROVE  LongestReading(text)
<1> SUFFICES ASSUME OnlyDelimited(text) PROVE "json" \notin Range(Normalize(text))
  BY DEF LongestReading, OnlyDelimited
<1> DEFINE label == Normalize(text)
           F == NamedIn(text)
<1>1. IsLabelOf(label, F) /\ "json" \notin F
  BY LabelsAre, JsonIsInside
<1> HIDE DEF label, F
<1>2. label = UNKNOWN => "json" \notin Range(label)
  BY DEF UNKNOWN, Range
<1>3. ASSUME NEW a \in ActionLabels, label = <<a>> PROVE "json" \notin Range(label)
  BY <1>3 DEF ActionLabels, Range
<1>4. ASSUME NEW a \in ActionLabels, NEW f \in F, label = <<a, f>> PROVE "json" \notin Range(label)
  <2>1. Range(label) = {a, f}
    BY <1>4 DEF Range
  <2> QED
    BY <1>1, <2>1 DEF ActionLabels
<1>5. ASSUME NEW f \in F, NEW g \in F, label = <<f, "to", g>> PROVE "json" \notin Range(label)
  <2>1. Range(label) = {f, "to", g}
    BY <1>5 DEF Range
  <2> QED
    BY <1>1, <2>1
<1> QED
  BY <1>1, <1>2, <1>3, <1>4, <1>5 DEF IsLabelOf, label

-----------------------------------------------------------------------------
(* What a label is called.                                                 *)

\* The words of a recorded label, where it is not for running tests.
LabelWords == {"csv", "json", "jsonl", "xlsx", "convert", "extract", "validate", "to", "unknown"}

\* A table in which none of those words means anything but itself.
MeansItself(table) ==
  \A label \in DOMAIN table :
    /\ label \in LabelWords => <<label>> \in table[label]
    /\ \A alias \in table[label] : alias = <<label>> \/ \E k \in 1..Len(alias) : alias[k] \notin LabelWords

\* Neither table has another meaning for a label's words.
LEMMA TablesMeanIt == MeansItself(FormatTable) /\ MeansItself(ActionTable)
<1>1. MeansItself(FormatTable)
  <2>1. <<"newline", "delimited", "json">>[1] \notin LabelWords /\ 1 \in 1..Len(<<"newline", "delimited", "json">>)
    BY DEF LabelWords
  <2>2. <<"spreadsheet">>[1] \notin LabelWords /\ 1 \in 1..Len(<<"spreadsheet">>)
    BY DEF LabelWords
  <2>3. /\ FormatTable["csv"] = {<<"csv">>} /\ FormatTable["json"] = {<<"json">>}
        /\ FormatTable["jsonl"] = {<<"jsonl">>, <<"newline", "delimited", "json">>}
        /\ FormatTable["xlsx"] = {<<"xlsx">>, <<"spreadsheet">>}
    BY DEF FormatTable
  <2>4. ASSUME NEW label \in FormatLabels, NEW alias \in FormatTable[label]
        PROVE  alias = <<label>> \/ \E k \in 1..Len(alias) : alias[k] \notin LabelWords
    <3>1. alias = <<label>> \/ alias = <<"newline", "delimited", "json">> \/ alias = <<"spreadsheet">>
      BY <2>3, <2>4 DEF FormatLabels
    <3> QED
      BY <2>1, <2>2, <3>1, Zenon
  <2>5. \A label \in FormatLabels : <<label>> \in FormatTable[label]
    BY <2>3 DEF FormatLabels
  <2> QED
    BY <2>4, <2>5, FormatTableIs DEF MeansItself
<1>2. MeansItself(ActionTable)
  <2>1. <<"run", "tests">>[1] \notin LabelWords /\ 1 \in 1..Len(<<"run", "tests">>)
    BY DEF LabelWords
  <2>2. \A word \in {"export", "check", "pytest"} : <<word>>[1] \notin LabelWords /\ 1 \in 1..Len(<<word>>)
    BY DEF LabelWords
  <2>3. /\ ActionTable["convert"] = {<<"convert">>, <<"export">>} /\ ActionTable["extract"] = {<<"extract">>}
        /\ ActionTable["validate"] = {<<"validate">>, <<"check">>}
        /\ ActionTable["test"] = {<<"run", "tests">>, <<"pytest">>}
    BY DEF ActionTable
  <2>4. ASSUME NEW label \in ActionLabels, NEW alias \in ActionTable[label]
        PROVE  alias = <<label>> \/ \E k \in 1..Len(alias) : alias[k] \notin LabelWords
    <3>1. alias = <<label>> \/ alias = <<"run", "tests">> \/ \E word \in {"export", "check", "pytest"} : alias = <<word>>
      BY <2>3, <2>4 DEF ActionLabels
    <3> QED
      BY <2>1, <2>2, <3>1, Zenon
  <2>5. \A label \in ActionLabels : label \in LabelWords => <<label>> \in ActionTable[label]
    BY <2>3 DEF ActionLabels, LabelWords
  <2> QED
    BY <2>4, <2>5, ActionTableIs DEF MeansItself
<1> QED
  BY <1>1, <1>2

\* What one word of a label is found as.
Hit(text, i) == [at |-> [first |-> i, last |-> i], label |-> text[i]]
InTable(text, table, n) == {i \in 1..n : text[i] \in DOMAIN table}

\* In a label a table finds its own labels only.
LEMMA LabelMentions ==
  ASSUME NEW n \in Nat, NEW text \in [1..n -> LabelWords], NEW table, IsTable(table), MeansItself(table),
         NEW label \in DOMAIN table
  PROVE  \A s : s \in Mentions(text, table[label]) <=> \E i \in 1..n : text[i] = label /\ s = [first |-> i, last |-> i]
<1>1. HaveWords(table[label])
  BY DEF IsTable
<1>2. ASSUME NEW s, s \in Mentions(text, table[label])
      PROVE  \E i \in 1..n : text[i] = label /\ s = [first |-> i, last |-> i]
  <2>1. IsMention(text, table[label], n, s)
    BY <1>1, <1>2, MentionsAre
  <2>2. PICK alias \in table[label], i \in 1..n :
          s = [first |-> i, last |-> i + Len(alias) - 1] /\ i + Len(alias) - 1 <= n /\ StandsAt(text, alias, i)
    BY <2>1 DEF IsMention
  <2>3. PICK m \in Nat \ {0} : m = Len(alias)
    BY <1>1 DEF HaveWords
  <2>4. SubSeq(text, i, i + m - 1) = alias /\ i + m - 1 <= n
    BY <2>2, <2>3 DEF StandsAt
  <2>5. \A k \in 1..m : alias[k] \in LabelWords
    <3> SUFFICES ASSUME NEW k \in 1..m PROVE SubSeq(text, i, i + m - 1)[k] \in LabelWords
      BY <2>4
    <3>1. SubSeq(text, i, i + m - 1)[k] = text[i + k - 1] /\ i + k - 1 \in 1..n
      BY <2>4
    <3> QED
      BY <3>1
  <2>6. alias = <<label>>
    BY <2>3, <2>5 DEF MeansItself
  <2>7. m = 1 /\ i + m - 1 = i
    BY <2>3, <2>6
  <2>8. <<text[i]>> = <<label>>
    BY <2>4, <2>6, <2>7, WordsAt
  <2> QED
    BY <2>2, <2>3, <2>7, <2>8
<1>3. ASSUME NEW s, NEW i \in 1..n, text[i] = label, s = [first |-> i, last |-> i]
      PROVE  s \in Mentions(text, table[label])
  <2>1. <<label>> \in table[label]
    BY <1>3 DEF MeansItself
  <2>2. Len(<<label>>) = 1 /\ i + Len(<<label>>) - 1 = i
    OBVIOUS
  <2>3. StandsAt(text, <<label>>, i)
    BY <1>3, <2>2, WordsAt DEF StandsAt
  <2>4. IsMention(text, table[label], n, s)
    <3>1. PICK alias \in table[label] : alias = <<label>>
      BY <2>1
    <3>2. i + Len(alias) - 1 = i /\ StandsAt(text, alias, i)
      BY <2>2, <2>3, <3>1
    <3>3. s = [first |-> i, last |-> i + Len(alias) - 1] /\ i + Len(alias) - 1 <= n
      BY <1>3, <3>2
    <3> QED
      BY <3>2, <3>3 DEF IsMention
  <2> QED
    BY <1>1, <2>4, MentionsAre
<1> QED
  BY <1>2, <1>3

\* No label says a word of a table twice.
Once(text, table, n) == \A i, j \in InTable(text, table, n) : text[i] = text[j] => i = j

\* In such a text a table finds each of its words where it stands, and nothing else.
LEMMA LabelFinds ==
  ASSUME NEW n \in Nat, NEW text \in [1..n -> LabelWords], NEW table, IsTable(table), MeansItself(table),
         Once(text, table, n)
  PROVE  Outermost(text, table) = {Hit(text, i) : i \in InTable(text, table, n)}
<1> DEFINE F == Found(text, table)
           H == {Hit(text, i) : i \in InTable(text, table, n)}
<1>1. ASSUME NEW s \in F PROVE s \in H
  <2>1. IsFind(text, table, n, s)
    BY FoundAre
  <2>2. s.label \in DOMAIN table /\ s = [at |-> s.at, label |-> s.label] /\ s.at \in Mentions(text, table[s.label])
    BY <2>1 DEF IsFind, IsBest
  <2>3. PICK i \in 1..n : text[i] = s.label /\ s.at = [first |-> i, last |-> i]
    BY <2>2, LabelMentions
  <2>4. i \in InTable(text, table, n)
    BY <2>2, <2>3 DEF InTable
  <2>5. s = Hit(text, i)
    BY <2>2, <2>3 DEF Hit
  <2> QED
    BY <2>4, <2>5
<1>2. ASSUME NEW i \in InTable(text, table, n) PROVE Hit(text, i) \in F
  <2>1. i \in 1..n /\ text[i] \in DOMAIN table
    BY DEF InTable
  <2>2. Mentions(text, table[text[i]]) # {}
    BY <2>1, LabelMentions, ZenonT(30)
  <2>3. PICK s \in F : s = FindOf(text, table, text[i])
    BY <2>1, <2>2, FoundAre
  <2>4. s.label = text[i]
    BY <2>3 DEF FindOf
  <2>5. PICK j \in InTable(text, table, n) : s = Hit(text, j)
    BY <1>1
  <2>6. text[j] = text[i]
    BY <2>4, <2>5 DEF Hit
  <2>7. i = j
    BY <2>6 DEF Once
  <2> QED
    BY <2>5, <2>7
<1>3. \A s, t \in F : ~InsideOf(s, t)
  <2> SUFFICES ASSUME NEW s \in F, NEW t \in F PROVE ~InsideOf(s, t)
    OBVIOUS
  <2>1. PICK i \in 1..n, j \in 1..n : s = Hit(text, i) /\ t = Hit(text, j)
    BY <1>1 DEF InTable
  <2>2. s.at.last - s.at.first = 0 /\ t.at.last - t.at.first = 0
    BY <2>1 DEF Hit
  <2> QED
    BY <2>2 DEF InsideOf
<1>4. F = H
  BY <1>1, <1>2
<1>5. Outermost(text, table) = F
  BY <1>3 DEF Outermost
<1> QED
  BY <1>4, <1>5

\* What is found in a label with none, one or two of a table's words.
LEMMA LabelMatches ==
  ASSUME NEW n \in Nat, NEW text \in [1..n -> LabelWords], NEW table, IsTable(table), MeansItself(table),
         Once(text, table, n)
  PROVE  /\ InTable(text, table, n) = {} => Matches(text, table) = <<>>
         /\ \A i \in 1..n : InTable(text, table, n) = {i} => Matches(text, table) = <<Hit(text, i)>>
         /\ \A i, j \in 1..n : i < j /\ InTable(text, table, n) = {i, j} =>
              Matches(text, table) = <<Hit(text, i), Hit(text, j)>>
         /\ AreHits(Matches(text, table), Outermost(text, table))
<1> DEFINE S == Outermost(text, table)
<1>1. S = {Hit(text, i) : i \in InTable(text, table, n)}
  BY LabelFinds
<1>2. AreHits(Matches(text, table), Outermost(text, table))
  BY HitsAre
<1> HIDE DEF S
<1>3. ASSUME InTable(text, table, n) = {} PROVE AreHits(<<>>, S)
  <2>1. S = {}
    BY <1>1, <1>3
  <2> QED
    BY <2>1 DEF AreHits, Range
<1>4. ASSUME NEW i \in 1..n, InTable(text, table, n) = {i} PROVE AreHits(<<Hit(text, i)>>, S)
  <2>1. S = {Hit(text, i)}
    BY <1>1, <1>4
  <2>2. PICK h : h = Hit(text, i)
    OBVIOUS
  <2>3. AreHits(<<h>>, {h})
    BY DEF AreHits, Range
  <2> QED
    BY <2>1, <2>2, <2>3
<1>5. ASSUME NEW i \in 1..n, NEW j \in 1..n, i < j, InTable(text, table, n) = {i, j}
      PROVE  AreHits(<<Hit(text, i), Hit(text, j)>>, S)
  <2>1. S = {Hit(text, i), Hit(text, j)}
    BY <1>1, <1>5
  <2>2. PICK h : h = Hit(text, i)
    OBVIOUS
  <2>3. PICK k : k = Hit(text, j)
    OBVIOUS
  <2>4. h.at.first = i /\ k.at.first = j
    BY <2>2, <2>3 DEF Hit
  <2> DEFINE t == <<h, k>>
  <2>5. Len(t) = 2 /\ t \in [1..2 -> {h, k}] /\ Range(t) = {h, k}
    BY DEF Range
  <2>6. \A p, q \in 1..2 : p < q => t[p].at.first < t[q].at.first
    <3> SUFFICES ASSUME NEW p \in 1..2, NEW q \in 1..2, p < q PROVE t[p].at.first < t[q].at.first
      OBVIOUS
    <3>1. p = 1 /\ q = 2
      OBVIOUS
    <3>2. t[p] = h /\ t[q] = k
      BY <3>1
    <3> QED
      BY <1>5, <2>4, <3>2
  <2> HIDE DEF t
  <2>7. AreHits(t, {h, k})
    BY <2>5, <2>6 DEF AreHits
  <2> QED
    BY <2>1, <2>2, <2>3, <2>7 DEF t
<1> QED
  BY <1>2, <1>3, <1>4, <1>5, HitsOnly DEF S

\* Of a label that names one format, or two that are no phrase, these are the formats.
LEMMA LabelFormats ==
  ASSUME NEW n \in Nat, NEW text \in [1..n -> LabelWords], Once(text, FormatTable, n)
  PROVE  /\ InTable(text, FormatTable, n) = {} => FormatsOf(text) = <<>>
         /\ \A i \in 1..n : InTable(text, FormatTable, n) = {i} => FormatsOf(text) = <<Hit(text, i)>>
         /\ \A i, j \in 1..n : i < j /\ InTable(text, FormatTable, n) = {i, j} /\ ~Compound(Hit(text, i), Hit(text, j), text) =>
              FormatsOf(text) = <<Hit(text, i), Hit(text, j)>>
<1> DEFINE S == Outermost(text, FormatTable)
           I == InTable(text, FormatTable, n)
<1>1. PICK hits : hits = Matches(text, FormatTable)
  OBVIOUS
<1>2. /\ I = {} => hits = <<>>
      /\ \A i \in 1..n : I = {i} => hits = <<Hit(text, i)>>
      /\ \A i, j \in 1..n : i < j /\ I = {i, j} => hits = <<Hit(text, i), Hit(text, j)>>
      /\ AreHits(hits, S)
  BY <1>1, FormatTableIs, TablesMeanIt, LabelMatches
<1>3. FormatsOf(text) = Collapsed(hits, text)
  BY <1>1 DEF FormatsOf
<1> HIDE DEF I, S
<1>4. I = {} => FormatsOf(text) = <<>>
  <2> SUFFICES ASSUME I = {} PROVE FormatsOf(text) = <<>>
    OBVIOUS
  <2>1. Len(hits) = 0
    BY <1>2
  <2> QED
    BY <1>2, <1>3, <2>1, CollapsedFew
<1>5. ASSUME NEW i \in 1..n, I = {i} PROVE FormatsOf(text) = <<Hit(text, i)>>
  <2>1. hits = <<Hit(text, i)>>
    BY <1>2, <1>5
  <2>2. Len(hits) = 1 /\ hits[1] = Hit(text, i)
    BY <2>1
  <2>3. Collapsed(hits, text) = <<hits[1]>>
    BY <1>2, <2>2, CollapsedFew
  <2> QED
    BY <1>3, <2>2, <2>3
<1>6. ASSUME NEW i \in 1..n, NEW j \in 1..n, i < j, I = {i, j}, ~Compound(Hit(text, i), Hit(text, j), text)
      PROVE  FormatsOf(text) = <<Hit(text, i), Hit(text, j)>>
  <2>1. hits = <<Hit(text, i), Hit(text, j)>>
    BY <1>2, <1>6
  <2>2. Len(hits) = 2 /\ hits[1] = Hit(text, i) /\ hits[2] = Hit(text, j)
    BY <2>1
  <2>3. ~Compound(hits[1], hits[2], text)
    BY <1>6, <2>2
  <2>4. Collapsed(hits, text) = <<hits[1], hits[2]>>
    BY <1>2, <2>2, <2>3, CollapsedFew
  <2> QED
    BY <1>3, <2>2, <2>4
<1> QED
  BY <1>4, <1>5, <1>6 DEF I

\* Of a label that names one action, that is the action.
LEMMA LabelActions ==
  ASSUME NEW n \in Nat, NEW text \in [1..n -> LabelWords], Once(text, ActionTable, n)
  PROVE  /\ InTable(text, ActionTable, n) = {} => ActionsOf(text) = <<>>
         /\ \A i \in 1..n : InTable(text, ActionTable, n) = {i} => ActionsOf(text) = <<Hit(text, i)>>
BY ActionTableIs, TablesMeanIt, LabelMatches DEF ActionsOf

\* The label that nothing is known of.
LEMMA UnknownReadsBack == Normalize(UNKNOWN) = UNKNOWN
<1> DEFINE text == UNKNOWN
<1>1. 1 \in Nat /\ text \in [1..1 -> LabelWords] /\ text[1] = "unknown"
  BY DEF UNKNOWN, LabelWords
<1> HIDE DEF text
<1>2. InTable(text, FormatTable, 1) = {}
  BY <1>1, FormatTableIs DEF InTable, FormatLabels
<1>3. InTable(text, ActionTable, 1) = {}
  BY <1>1, ActionTableIs DEF InTable, ActionLabels
<1>4. Once(text, FormatTable, 1) /\ Once(text, ActionTable, 1)
  BY <1>2, <1>3 DEF Once
<1>5. FormatsOf(text) = <<>> /\ ActionsOf(text) = <<>>
  BY <1>1, <1>2, <1>3, <1>4, LabelFormats, LabelActions
<1>6. Len(FormatsOf(text)) = 0
  BY <1>5
<1>7. Normalize(text) = UNKNOWN
  BY <1>5, <1>6, NormalizeIs
<1> QED
  BY <1>7 DEF text

\* An action alone.
LEMMA ActionReadsBack ==
  ASSUME NEW a \in ActionLabels, a # "test"
  PROVE  Normalize(<<a>>) = <<a>>
<1> DEFINE text == <<a>>
<1>1. 1 \in Nat /\ text \in [1..1 -> LabelWords] /\ text[1] = a /\ 1 \in 1..1
  BY DEF LabelWords, ActionLabels
<1> HIDE DEF text
<1>2. InTable(text, FormatTable, 1) = {}
  BY <1>1, FormatTableIs DEF InTable, FormatLabels, ActionLabels
<1>3. InTable(text, ActionTable, 1) = {1}
  BY <1>1, ActionTableIs DEF InTable
<1>4. Once(text, FormatTable, 1) /\ Once(text, ActionTable, 1)
  BY <1>2, <1>3 DEF Once
<1>5. FormatsOf(text) = <<>> /\ ActionsOf(text) = <<Hit(text, 1)>>
  BY <1>1, <1>2, <1>3, <1>4, LabelFormats, LabelActions
<1>6. Len(FormatsOf(text)) = 0 /\ ActionsOf(text) # <<>> /\ ActionsOf(text)[1].label = a
  BY <1>1, <1>5 DEF Hit
<1>7. Normalize(text) = <<a>>
  BY <1>6, NormalizeIs
<1> QED
  BY <1>7 DEF text

\* An action on a format.
LEMMA ActionOnReadsBack ==
  ASSUME NEW a \in ActionLabels, a # "test", NEW f \in FormatLabels
  PROVE  Normalize(<<a, f>>) = <<a, f>>
<1> DEFINE text == <<a, f>>
<1>1. 2 \in Nat /\ text \in [1..2 -> LabelWords] /\ text[1] = a /\ text[2] = f /\ 1 \in 1..2 /\ 2 \in 1..2
      /\ \A i \in 1..2 : i = 1 \/ i = 2
  BY DEF LabelWords, ActionLabels, FormatLabels
<1> HIDE DEF text
<1>2. a \notin FormatLabels /\ f \notin ActionLabels
  BY DEF FormatLabels, ActionLabels
<1>3. InTable(text, FormatTable, 2) = {2}
  BY <1>1, <1>2, FormatTableIs DEF InTable
<1>4. InTable(text, ActionTable, 2) = {1}
  BY <1>1, <1>2, ActionTableIs DEF InTable
<1>5. Once(text, FormatTable, 2) /\ Once(text, ActionTable, 2)
  BY <1>3, <1>4 DEF Once
<1>6. FormatsOf(text) = <<Hit(text, 2)>> /\ ActionsOf(text) = <<Hit(text, 1)>>
  BY <1>1, <1>3, <1>4, <1>5, LabelFormats, LabelActions
<1>7. /\ Len(FormatsOf(text)) = 1 /\ FormatsOf(text)[1].label = f
      /\ ActionsOf(text) # <<>> /\ ActionsOf(text)[1].label = a
  BY <1>1, <1>6 DEF Hit
<1>8. Normalize(text) = <<a, f>>
  BY <1>7, NormalizeIs
<1> QED
  BY <1>8 DEF text

\* A conversion.
LEMMA ConversionReadsBack ==
  ASSUME NEW f \in FormatLabels, NEW g \in FormatLabels, f # g
  PROVE  Normalize(<<f, "to", g>>) = <<f, "to", g>>
<1> DEFINE text == <<f, "to", g>>
<1>1. /\ 3 \in Nat /\ text \in [1..3 -> LabelWords] /\ text[1] = f /\ text[2] = "to" /\ text[3] = g
      /\ 1 \in 1..3 /\ 3 \in 1..3 /\ 1 < 3 /\ \A i \in 1..3 : i = 1 \/ i = 2 \/ i = 3
  BY DEF LabelWords, FormatLabels
<1> HIDE DEF text
<1>2. "to" \notin FormatLabels
  BY DEF FormatLabels
<1>3. InTable(text, FormatTable, 3) = {1, 3}
  BY <1>1, <1>2, FormatTableIs DEF InTable
<1>4. Once(text, FormatTable, 3)
  BY <1>1, <1>3 DEF Once
<1>5. 2 \in (1 + 1)..(3 - 1) /\ \A i \in (1 + 1)..(3 - 1) : i = 2
  OBVIOUS
<1>6. Hit(text, 1).at.first = 1 /\ Hit(text, 3).at.first = 3
  BY DEF Hit
<1>7. ~Compound(Hit(text, 1), Hit(text, 3), text)
  BY <1>1, <1>5, <1>6 DEF Compound, DirectionWords
<1>8. FormatsOf(text) = <<Hit(text, 1), Hit(text, 3)>>
  BY <1>1, <1>3, <1>4, <1>7, LabelFormats
<1>9. /\ Len(FormatsOf(text)) = 2 /\ FormatsOf(text)[1] = Hit(text, 1) /\ FormatsOf(text)[2] = Hit(text, 3)
  BY <1>8
<1>10. FormatsOf(text)[1].label = f /\ FormatsOf(text)[2].label = g
  BY <1>1, <1>9 DEF Hit
<1>11. ~TurnedAround(FormatsOf(text), text)
  BY <1>1, <1>5, <1>6, <1>9 DEF TurnedAround
<1>12. Normalize(text) = <<f, "to", g>>
  BY <1>9, <1>10, <1>11, NormalizeIs
<1> QED
  BY <1>12 DEF text

\* Of every text: its label, if it is not for running tests, is read back as it
\* was written.
THEOREM EveryLabelReadsBack ==
  ASSUME NEW W, NEW n \in Nat, NEW text \in [1..n -> W]
  PROVE  FixedButForTests(text)
<1> DEFINE label == Normalize(text)
<1> SUFFICES ASSUME label[1] # "test" PROVE Normalize(label) = label
  BY DEF FixedButForTests, FixedPoint, CanonicalLabel
<1>1. IsLabelOf(label, FormatLabels)
  <2>1. IsLabelOf(label, NamedIn(text)) /\ NamedIn(text) \subseteq FormatLabels
    BY LabelsAre
  <2> HIDE DEF label
  <2> QED
    BY <2>1 DEF IsLabelOf
<1> HIDE DEF label
<1>2. CASE label = UNKNOWN
  BY <1>2, UnknownReadsBack
<1>3. ASSUME NEW a \in ActionLabels, label = <<a>> PROVE Normalize(label) = label
  BY <1>3, ActionReadsBack
<1>4. ASSUME NEW a \in ActionLabels, NEW f \in FormatLabels, label = <<a, f>> PROVE Normalize(label) = label
  BY <1>4, ActionOnReadsBack
<1>5. ASSUME NEW f \in FormatLabels, NEW g \in FormatLabels, f # g, label = <<f, "to", g>> PROVE Normalize(label) = label
  BY <1>5, ConversionReadsBack
<1> QED
  BY <1>1, <1>2, <1>3, <1>4, <1>5 DEF IsLabelOf

-----------------------------------------------------------------------------
(* What the numbers are made of: verdicts, and the parties behind them.    *)

\* What is collected of a run, by how it ended.
LEMMA WhatIsCollected ==
  ASSUME NEW run \in AnyRun
  PROVE  /\ run.end = "exit" /\ run.code = 0 => Collected(run) = [status |-> "SUCCEEDED", code |-> 0, file |-> run.file]
         /\ run.end = "exit" /\ run.code # 0 => Collected(run) = [status |-> "FAILED", code |-> run.code, file |-> "absent"]
         /\ run.end = "timeout" => Collected(run) = [status |-> "TIMEOUT", code |-> -1, file |-> "absent"]
         /\ run.end = "error" => Collected(run) = [status |-> "FAILED", code |-> -1, file |-> "absent"]
  BY DEF Collected

\* What each verifier says of a result.
LEMMA WhatIsSaid ==
  ASSUME NEW result, NEW declared \in AnyDeclaration,
         result.file \in {"absent", "binary", "garbage", "other", "right"}
  PROVE  LET said == Verdict(result, declared)
         IN  /\ declared.verifier \notin Strong \cup {"exit_code"} => said = Fail
             /\ declared.verifier = "exit_code" => said = ExitCode(result, declared)
             /\ declared.verifier = "sha256" => said = Sha256(result, declared)
             /\ declared.verifier = "json_schema" => said = JsonSchema(result, declared)
  BY DEF Verdict, Strong

\* Nobody proves anything by the way they end, whatever the exit status and the
\* verifier that is declared: a proof takes an artifact that ended well and left
\* the right file, and what passes otherwise claims a status that was asked for.
THEOREM EveryProofIsEarned ==
  \A run \in AnyRun, declared \in AnyDeclaration : ProofsAreEarned(run, declared)
<1> SUFFICES ASSUME NEW run \in AnyRun, NEW declared \in AnyDeclaration PROVE ProofsAreEarned(run, declared)
  OBVIOUS
<1> DEFINE result == Collected(run)
           said == Verdict(result, declared)
           endedWell == run.end = "exit" /\ run.code = 0
<1>1. /\ result.file \in {"absent", "binary", "garbage", "other", "right"}
      /\ result.file # "absent" => endedWell /\ result.file = run.file
      /\ result.status = "SUCCEEDED" => endedWell
      /\ ~endedWell /\ result.code = declared.expected => run.end = "exit" /\ result.code = run.code
  BY WhatIsCollected DEF AnyRun, AnyDeclaration
<1>2. /\ said.level = "proven" => endedWell /\ run.file = "right" /\ declared.verifier \in Strong
      /\ said.passed /\ declared.verifier \in Strong => endedWell /\ run.file \in {"other", "right"}
      /\ said.passed /\ ~endedWell =>
           /\ run.end = "exit" /\ run.code = declared.expected /\ declared.expected # 0
           /\ declared.verifier = "exit_code" /\ said.level = "claimed"
  <2> HIDE DEF result
  <2>1. CASE declared.verifier \notin Strong \cup {"exit_code"}
    BY <1>1, <2>1, WhatIsSaid DEF Fail
  <2>2. CASE declared.verifier = "exit_code"
    <3>1. said = ExitCode(result, declared)
      BY <1>1, <2>2, WhatIsSaid
    <3> HIDE DEF said
    <3>2. CASE said = Fail
      BY <3>2 DEF Fail
    <3>3. CASE said # Fail
      <4>1. /\ said = Pass("claimed") /\ result.code = declared.expected
            /\ result.status = "SUCCEEDED" \/ declared.expected # 0
        BY <3>1, <3>3 DEF ExitCode
      <4>2. said.level = "claimed" /\ declared.verifier \notin Strong
        BY <2>2, <4>1 DEF Pass, Strong
      <4> QED
        BY <1>1, <2>2, <4>1, <4>2
    <3> QED
      BY <3>2, <3>3
  <2>3. CASE declared.verifier = "sha256"
    <3>1. said = Sha256(result, declared)
      BY <1>1, <2>3, WhatIsSaid
    <3> HIDE DEF said
    <3>2. said = Fail \/ (said = Pass("proven") /\ result.file = "right")
      BY <3>1 DEF Sha256
    <3> QED
      BY <1>1, <2>3, <3>2 DEF Fail, Pass, Strong
  <2>4. CASE declared.verifier = "json_schema"
    <3>1. said = JsonSchema(result, declared)
      BY <1>1, <2>4, WhatIsSaid
    <3>2. \/ said = Fail \/ said = Raises
          \/ said = Pass("claimed") /\ result.file \in {"other", "right"}
          \/ said = Pass("proven") /\ result.file = "right"
      BY <1>1, <3>1 DEF JsonSchema, AnyDeclaration
    <3> QED
      BY <1>1, <2>4, <3>2 DEF Fail, Raises, Pass, Strong
  <2> QED
    BY <2>1, <2>2, <2>3, <2>4 DEF Strong
<1> QED
  BY <1>2 DEF ProofsAreEarned

\* A verification that is run again, from what was stored of a run, says what the
\* first one said, whatever the run and whatever is declared of it.
THEOREM EveryVerdictIsRepeatable ==
  \A run \in AnyRun, declared \in AnyDeclaration : VerdictsAreRepeatable(run, declared)
<1> SUFFICES ASSUME NEW run \in AnyRun, NEW declared \in AnyDeclaration
             PROVE  Reconstructed(Stored(Collected(run))) = Collected(run)
  BY DEF VerdictsAreRepeatable
<1>1. PICK status, code, file : Collected(run) = [status |-> status, code |-> code, file |-> file]
  BY WhatIsCollected DEF AnyRun
<1>2. Reconstructed(Stored([status |-> status, code |-> code, file |-> file])) = [status |-> status, code |-> code, file |-> file]
  BY DEF Reconstructed, Stored
<1> QED
  BY <1>1, <1>2

\* One more organization that proves something never lowers the number of
\* parties behind it and adds one at most; the operator's own organizations, however
\* many, are one party at most and never corroborate each other.
THEOREM EveryPartyIsIndependent ==
  ASSUME NEW organizations, IsFiniteSet(organizations), NEW exact, NEW prefixed, NEW another
  PROVE  PartiesAreIndependent(organizations, exact, prefixed, another)
<1> DEFINE own == exact \cup prefixed
           theirs(S) == S \ own
           count(S) == Cardinality(theirs(S)) + (IF S \cap own = {} THEN 0 ELSE 1)
<1>1. ASSUME NEW S, IsFiniteSet(S)
      PROVE  Parties(S, exact, prefixed) = count(S) /\ Cardinality(theirs(S)) \in Nat
             /\ IsFiniteSet(theirs(S))
  <2>1. IsFiniteSet(theirs(S)) /\ S \ (S \cap own) = theirs(S)
    BY <1>1, FS_Difference
  <2>2. Cardinality(theirs(S)) \in Nat
    BY <2>1, FS_CardinalityType
  <2>3. CASE S = {}
    <3>1. theirs(S) = {} /\ S \cap own = {}
      BY <2>3
    <3> QED
      BY <2>1, <2>2, <2>3, <3>1, FS_EmptySet DEF Parties, FirstParty
  <2>4. CASE S # {}
    BY <2>1, <2>2, <2>4 DEF Parties, FirstParty
  <2> QED
    BY <2>1, <2>2, <2>3, <2>4
<1> DEFINE more == organizations \cup {another}
           before == Cardinality(theirs(organizations))
           after == Cardinality(theirs(more))
<1>2. IsFiniteSet(more)
  BY FS_AddElement
<1>3. /\ Parties(organizations, exact, prefixed) = before + (IF organizations \cap own = {} THEN 0 ELSE 1)
      /\ Parties(more, exact, prefixed) = after + (IF more \cap own = {} THEN 0 ELSE 1)
      /\ before \in Nat /\ after \in Nat /\ IsFiniteSet(theirs(organizations))
  BY <1>1, <1>2
<1>4. another \in own => after = before
  <2>1. another \in own => theirs(more) = theirs(organizations)
    OBVIOUS
  <2> QED
    BY <2>1
<1>5. another \notin own => (after = before \/ after = before + 1) /\ (more \cap own = {} <=> organizations \cap own = {})
  <2> SUFFICES ASSUME another \notin own
               PROVE  (after = before \/ after = before + 1) /\ (more \cap own = {} <=> organizations \cap own = {})
    OBVIOUS
  <2>1. theirs(more) = theirs(organizations) \cup {another} /\ (more \cap own = {} <=> organizations \cap own = {})
    OBVIOUS
  <2>2. Cardinality(theirs(organizations) \cup {another}) =
          IF another \in theirs(organizations) THEN before ELSE before + 1
    BY <1>3, FS_AddElement
  <2> QED
    BY <2>1, <2>2
<1>6. organizations \subseteq own => before = 0
  <2>1. organizations \subseteq own => theirs(organizations) = {}
    OBVIOUS
  <2> QED
    BY <2>1, FS_EmptySet
<1>7. before <= Cardinality(organizations) /\ Cardinality(organizations) \in Nat
      /\ (organizations \cap own # {} => before < Cardinality(organizations))
  <2>1. theirs(organizations) \in SUBSET organizations
    OBVIOUS
  <2>2. organizations \cap own # {} => theirs(organizations) # organizations
    OBVIOUS
  <2> QED
    BY <2>1, <2>2, FS_Subset, FS_CardinalityType
<1>8. Parties(more, exact, prefixed) \in {Parties(organizations, exact, prefixed), Parties(organizations, exact, prefixed) + 1}
  <2>1. CASE another \in own
    <3>1. more \cap own # {}
      BY <2>1
    <3> HIDE DEF more, before, after
    <3> QED
      BY <1>3, <1>4, <2>1, <3>1
  <2>2. CASE another \notin own
    <3> HIDE DEF more, before, after
    <3> QED
      BY <1>3, <1>5, <2>2
  <2> QED
    BY <2>1, <2>2
<1>9. organizations \subseteq own => ~(Parties(organizations, exact, prefixed) >= 2)
  <2> HIDE DEF before
  <2> QED
    BY <1>3, <1>6
<1>10. Parties(organizations, exact, prefixed) <= Cardinality(organizations)
  <2> HIDE DEF before
  <2> QED
    BY <1>3, <1>7
<1> QED
  BY <1>8, <1>9, <1>10 DEF PartiesAreIndependent, Corroborated

-----------------------------------------------------------------------------
(* Whatever is asked.                                                      *)

\* Of seven days in a row one has a given weekday, and of the seven before.
LEMMA EveryWeekComes ==
  ASSUME NEW d \in Int, NEW weekday \in 0..6
  PROVE  /\ \E e \in d..(d + 6) : Weekday(e) = weekday
         /\ \E e \in (d - 6)..d : Weekday(e) = weekday
<1>1. PICK r \in 0..6 : r = (weekday - d) % 7
  OBVIOUS
<1>2. PICK s \in 0..6 : s = (d - weekday) % 7
  OBVIOUS
<1>3. (d + r) % 7 = weekday /\ d + r \in d..(d + 6)
  BY <1>1
<1>4. (d - s) % 7 = weekday /\ d - s \in (d - 6)..d
  BY <1>2
<1> QED
  BY <1>3, <1>4 DEF Weekday

\* A calendar of the questions is open often: a day that is not near a holiday
\* has an open one within the week.
LEMMA OpenOften ==
  ASSUME NEW calendar, HasOpenDays(calendar)
  PROVE  IsOpenOften(calendar)
<1> DEFINE closed == Closed(calendar)
<1>1. PICK weekday \in 0..6 : weekday \notin calendar.weekend
  BY DEF HasOpenDays
<1>2. closed \subseteq Int
  BY DEF HasOpenDays
<1>3. \A c \in closed : \A d \in (c - Reach)..(c + Reach) :
        /\ \E e \in d..(d + Reach) : IsBusiness(calendar, e)
        /\ \E e \in (d - Reach)..d : IsBusiness(calendar, e)
  BY DEF HasOpenDays, IsBusiness
<1> HIDE DEF closed
<1> SUFFICES ASSUME NEW d \in Int
             PROVE  /\ \E e \in d..(d + Reach) : IsBusiness(calendar, e)
                    /\ \E e \in (d - Reach)..d : IsBusiness(calendar, e)
  BY DEF IsOpenOften
<1>4. Reach = 30
  BY DEF Reach
<1>5. CASE \E c \in closed : d \in (c - Reach)..(c + Reach)
  BY <1>3, <1>5
<1>6. CASE \A c \in closed : d \notin (c - Reach)..(c + Reach)
  <2>1. \A e \in (d - 6)..(d + 6) : e \notin closed
    <3> SUFFICES ASSUME NEW e \in (d - 6)..(d + 6), e \in closed PROVE FALSE
      OBVIOUS
    <3>1. e \in Int /\ d \in (e - 30)..(e + 30)
      OBVIOUS
    <3> QED
      BY <1>4, <1>6, <3>1
  <2>2. PICK e \in d..(d + 6) : Weekday(e) = weekday
    BY EveryWeekComes
  <2>3. PICK f \in (d - 6)..d : Weekday(f) = weekday
    BY EveryWeekComes
  <2>4. e \in d..(d + 30) /\ e \in (d - 6)..(d + 6) /\ f \in (d - 30)..d /\ f \in (d - 6)..(d + 6)
    OBVIOUS
  <2>5. IsBusiness(calendar, e) /\ IsBusiness(calendar, f)
    BY <1>1, <2>1, <2>2, <2>3, <2>4 DEF IsBusiness, closed
  <2> QED
    BY <1>4, <2>4, <2>5
<1> QED
  BY <1>5, <1>6

\* What is asked is one of the questions of its kind.
IsQuestion == question # <<>> => question.of \in DOMAIN Questions /\ question.asked \in Questions[question.of]

\* Nothing else is ever asked.
LEMMA OnlyQuestions == RulesSpec => []IsQuestion
<1>1. RulesInit => IsQuestion
  BY DEF RulesInit, IsQuestion
<1>2. IsQuestion /\ [RulesNext]_question => IsQuestion'
  <2> SUFFICES ASSUME IsQuestion, [RulesNext]_question PROVE IsQuestion'
    OBVIOUS
  <2>1. ASSUME NEW kind \in DOMAIN Questions, Ask(kind) PROVE IsQuestion'
    BY <2>1 DEF Ask, IsQuestion
  <2>2. {"recall", "intent", "lineage", "verdict", "parties", "reading", "dates", "clocks", "appointments",
         "months", "shares", "advice", "amount"} = DOMAIN Questions
    BY DEF Questions
  <2>3. CASE UNCHANGED question
    BY <2>3 DEF IsQuestion
  <2>4. CASE RulesNext
    <3>1. \E kind \in {"recall", "intent", "lineage", "verdict", "parties", "reading", "dates", "clocks",
                       "appointments", "months", "shares", "advice", "amount"} : Ask(kind)
      BY <2>4 DEF RulesNext, Recalls, Normalizes, Walks, Verifies, CountsParties, ReadsDates, AddsDays,
                  ShiftsHours, Repeats, AddsMonths, Divides, Settles, ReadsAmounts
    <3> QED
      BY <2>1, <2>2, <3>1
  <2> QED
    BY <2>3, <2>4
<1> QED
  BY <1>1, <1>2, PTL DEF RulesSpec

\* What is asked of a kind is one of its questions.
LEMMA AskedOf ==
  ASSUME IsQuestion
  PROVE  /\ Asked("recall") => question.asked \in Queries
         /\ Asked("intent") => question.asked \in Tasks
         /\ Asked("lineage") => question.asked \in Lookups
         /\ Asked("verdict") => question.asked \in Trials
         /\ Asked("parties") => question.asked \in Alliances
         /\ Asked("reading") => question.asked \in WrittenDates
         /\ Asked("dates") => question.asked \in Deadlines
         /\ Asked("clocks") => question.asked \in Shifts
         /\ Asked("appointments") => question.asked \in Appointments
         /\ Asked("months") => question.asked \in Cycles
         /\ Asked("shares") => question.asked \in Divisions
         /\ Asked("advice") => question.asked \in Advices
         /\ Asked("amount") => question.asked \in WrittenAmounts
<1>1. \A kind : Asked(kind) => question.of = kind /\ question.asked \in Questions[kind]
  BY DEF Asked, IsQuestion
<1>2. /\ Questions["recall"] = Queries /\ Questions["intent"] = Tasks /\ Questions["lineage"] = Lookups
      /\ Questions["verdict"] = Trials /\ Questions["parties"] = Alliances /\ Questions["reading"] = WrittenDates
      /\ Questions["dates"] = Deadlines /\ Questions["clocks"] = Shifts
      /\ Questions["appointments"] = Appointments /\ Questions["months"] = Cycles
      /\ Questions["shares"] = Divisions /\ Questions["advice"] = Advices /\ Questions["amount"] = WrittenAmounts
  BY DEF Questions
<1> QED
  BY <1>1, <1>2, Zenon

\* Whatever registry, query and task there are: a recall offers what fits, in an
\* order that no coincidence decides and no evidence turns around, reports a
\* miss for what it was, and compares by labels that read back.
THEOREM EveryRecall == RulesSpec => []RecallIsSound
<1>1. IsQuestion => RecallIsSound
  <2> SUFFICES ASSUME IsQuestion PROVE RecallIsSound
    OBVIOUS
  <2>1. ASSUME NEW q \in Queries
        PROVE  /\ SameAnswer(q.query, q.seen) /\ OnlyTheFit(q.query, q.seen)
               /\ RelevanceWins(q.query, q.seen) /\ MissesAreMisses(q.query, q.seen)
    <3>1. PICK n \in Nat : IsRegistry(q.seen, n) /\ q.query.limit \in Nat \ {0}
      BY RulesAssumption
    <3> QED
      BY <3>1, EveryRecallIsSound
  <2>2. ASSUME NEW text \in Tasks PROVE FixedButForTests(text) /\ LongestReading(text)
    <3>1. text \in Seq(STRING)
      BY RulesAssumption
    <3>2. PICK n \in Nat : text \in [1..n -> STRING]
      BY <3>1
    <3> QED
      BY <3>2, EveryLabelReadsBack, TheLongestIsRead
  <2> QED
    BY <2>1, <2>2, AskedOf DEF RecallIsSound
<1> QED
  BY <1>1, OnlyQuestions, PTL

\* Whatever graph is walked, and to whatever depth: everything within reach is
\* found by its shortest path, and nothing of what may not be seen is shown.
THEOREM EveryWalk == RulesSpec => []LineageIsSound
<1>1. IsQuestion => LineageIsSound
  <2> SUFFICES ASSUME IsQuestion PROVE LineageIsSound
    OBVIOUS
  <2>1. ASSUME NEW q \in Lookups
        PROVE  ByTheShortestPath(q.graph, q.root, q.depth) /\ TellsNothing(q.graph, q.other, q.root, q.depth)
    <3>1. PICK E : E = DOMAIN q.graph.edges
      OBVIOUS
    <3>2. IsGraph(q.graph, E, STRING) /\ q.root \in E /\ q.depth \in Nat
      BY <3>1, RulesAssumption
    <3> QED
      BY <3>2, EveryWalkIsShortest, NoWalkTells
  <2> QED
    BY <2>1, AskedOf DEF LineageIsSound
<1> QED
  BY <1>1, OnlyQuestions, PTL

\* Whatever runs and declarations there are, and whoever proves something: what
\* is proven was earned, would be proven again, and is not corroborated by the
\* operator alone.
THEOREM EveryVerdict == RulesSpec => []VerdictsAreEarned
<1>1. IsQuestion => VerdictsAreEarned
  <2> SUFFICES ASSUME IsQuestion PROVE VerdictsAreEarned
    OBVIOUS
  <2>1. ASSUME NEW q \in Trials PROVE ProofsAreEarned(q.run, q.declared) /\ VerdictsAreRepeatable(q.run, q.declared)
    BY RulesAssumption, EveryProofIsEarned, EveryVerdictIsRepeatable
  <2>2. ASSUME NEW q \in Alliances PROVE PartiesAreIndependent(q.organizations, q.exact, q.prefixed, q.another)
    BY RulesAssumption, EveryPartyIsIndependent
  <2> QED
    BY <2>1, <2>2, AskedOf DEF VerdictsAreEarned
<1> QED
  BY <1>1, OnlyQuestions, PTL

\* Whatever calendars, zones, dates and amounts there are: the capabilities
\* answer what they were asked.
THEOREM EveryCapability == RulesSpec => []CapabilitiesKeepTheirWord
<1>1. IsQuestion => CapabilitiesKeepTheirWord
  <2> SUFFICES ASSUME IsQuestion PROVE CapabilitiesKeepTheirWord
    OBVIOUS
  <2>1. ASSUME NEW q \in Deadlines PROVE AddsWhatItCounts(q.calendar, q.from, q.n)
    BY RulesAssumption, OpenOften, EveryBusinessDayCounts
  <2>2. ASSUME NEW q \in Shifts PROVE ClocksTellTheTime(q.zone, q.start, q.delta)
    BY RulesAssumption, EveryClockTellsTheTime
  <2>3. ASSUME NEW q \in Appointments PROVE AppointmentsKeepTheirTime(q.zone, q.start, q.days, q.count)
    BY RulesAssumption, EveryAppointmentKeepsItsTime
  <2>4. ASSUME NEW q \in Cycles PROVE AnchorSurvives(q.start, q.interval, q.count)
    BY RulesAssumption, EveryAnchorSurvives
  <2>5. ASSUME NEW value \in WrittenDates PROVE DatesAreNotGuessed(value)
    BY RulesAssumption, EveryDateIsRead
  <2>6. ASSUME NEW q \in Divisions PROVE AllocationsAddUp(q.weights, q.units)
    BY RulesAssumption, EveryAllocationAddsUp
  <2>7. ASSUME NEW lines \in Advices PROVE CreditsCancel(lines)
    BY RulesAssumption, EveryCreditCancels
  <2>8. ASSUME NEW text \in WrittenAmounts PROVE AmountsAreNotGuessed(text)
    BY RulesAssumption, EveryAmountIsRead
  <2> QED
    BY <2>1, <2>2, <2>3, <2>4, <2>5, <2>6, <2>7, <2>8, AskedOf DEF CapabilitiesKeepTheirWord
<1> QED
  BY <1>1, OnlyQuestions, PTL

=============================================================================
