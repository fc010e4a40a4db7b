----------------------------- MODULE SubmitProofs -----------------------------
(***************************************************************************)
(* Proofs about Submit, for any number of requests, organizations, keys    *)
(* and contents. SubmitInv is inductive; the safety properties follow.     *)
(***************************************************************************)
EXTENDS Submit, TLAPS

\* Moving one row on: the others stay, and no row changes its columns.
LEMMA Turned ==
  ASSUME TypeOK, NEW i \in Ids, NEW to \in Statuses, row' = [row EXCEPT ![i].status = to]
  PROVE  /\ row' \in [Ids -> Rows]
         /\ \A j \in Ids : row'[j].ask = row[j].ask
         /\ \A j \in Ids : row'[j].status = IF j = i THEN to ELSE row[j].status
<1> DEFINE new == [row[i] EXCEPT !.status = to]
<1>1. row \in [Ids -> Rows] /\ row[i] \in Rows
  BY DEF TypeOK
<1>2. new \in Rows /\ new.ask = row[i].ask /\ new.status = to
  BY <1>1 DEF Rows
<1>3. row' = [row EXCEPT ![i] = new]
  BY <1>1
<1> HIDE DEF new
<1> QED
  BY <1>1, <1>2, <1>3

\* Inserting a row is moving it on, since it has the columns of its request.
LEMMA Inserted ==
  ASSUME TypeOK, OwnRow, NEW r \in Requests, phase[r] \in Early,
         row' = [row EXCEPT ![target[r]] = [status |-> "inserted", ask |-> ask[r]]]
  PROVE  row' = [row EXCEPT ![r].status = "inserted"]
<1>1. target[r] = r /\ row[r].ask = ask[r] /\ row[r] \in Rows /\ r \in Ids
  BY DEF OwnRow, TypeOK, Ids
<1>2. [row[r] EXCEPT !.status = "inserted"] = [status |-> "inserted", ask |-> ask[r]]
  BY <1>1 DEF Rows
<1> QED
  BY <1>1, <1>2

\* What a step may do to the rows: nothing, or move one on in the order the
\* code allows, by a request that holds it or by a worker.
RowStep ==
  \/ UNCHANGED row /\ \A r \in Requests : phase'[r] = "inserted" <=> phase[r] = "inserted"
  \/ \E r \in Requests :
       /\ phase[r] = "staged" /\ phase' = [phase EXCEPT ![r] = "inserted"]
       /\ Holders(r, {"inserted"} \cup Committed) = {}
       /\ row' = [row EXCEPT ![r].status = "inserted"]
  \/ \E r \in Requests :
       /\ phase[r] = "inserted"
       /\ \/ row' = [row EXCEPT ![r].status = "queued"]
             /\ phase' = [phase EXCEPT ![r] = "waiting"]
          \/ row' = [row EXCEPT ![r].status = "absent"]
             /\ phase' = [phase EXCEPT ![r] = "lost"]
  \/ /\ UNCHANGED phase
     /\ \E i \in Ids, to \in Committed :
          row[i].status \in {"queued", "running"} /\ row' = [row EXCEPT ![i].status = to]

\* Every action does one of these to the rows.
LEMMA RowSteps == TypeOK /\ OwnRow /\ [Next]_vars => RowStep
<1> SUFFICES ASSUME TypeOK, OwnRow, [Next]_vars PROVE RowStep
  OBVIOUS
<1>2. ASSUME NEW r \in Requests, Insert(r) PROVE RowStep
  <2>1. phase[r] = "staged" /\ phase' = [phase EXCEPT ![r] = "inserted"]
    BY <1>2 DEF Insert, Goes
  <2>2. Holders(r, {"inserted"} \cup Committed) = {}
    BY <1>2 DEF Insert, Holders
  <2>3. row' = [row EXCEPT ![r].status = "inserted"]
    BY <1>2, <2>1, Inserted DEF Insert, Early
  <2> QED
    BY <2>1, <2>2, <2>3 DEF RowStep
<1>3. ASSUME NEW r \in Requests, Commit(r) PROVE RowStep
  BY <1>3 DEF Commit, Goes, RowStep, OwnRow, Early
<1>4. ASSUME NEW r \in Requests, Lose(r) PROVE RowStep
  <2>1. CASE phase[r] = "inserted"
    BY <1>4, <2>1 DEF Lose, RowStep, OwnRow, Early
  <2>2. CASE phase[r] # "inserted"
    BY <1>4, <2>2 DEF Lose, RowStep, TypeOK
  <2> QED
    BY <2>1, <2>2
<1>5. ASSUME NEW i \in Ids, Claim(i) PROVE RowStep
  BY <1>5 DEF Claim, Turns, RowStep, Exists, Committed
<1>6. ASSUME NEW i \in Ids, Expire(i) PROVE RowStep
  BY <1>6 DEF Expire, Turns, RowStep, Exists, Committed, Terminal
<1>7. ASSUME NEW i \in Ids, NEW to \in {"ran", "replayed"}, Report(i, to) PROVE RowStep
  BY <1>7 DEF Report, Turns, RowStep, Exists, Committed, Terminal
<1>8. ASSUME NEW r \in Requests, Send(r) \/ Refuse(r) \/ LookFinds(r) \/ LookMints(r) \/ Stage(r)
                                 \/ StageFails(r) \/ InsertFails(r) \/ FindWinner(r) \/ Await(r)
                                 \/ FirstRead(r) \/ SecondRead(r)
      PROVE  RowStep
  <2>1. UNCHANGED row /\ phase[r] # "inserted"
    BY <1>8 DEF Goes, Send, Refuse, LookFinds, LookMints, Stage, StageFails, InsertFails,
       FindWinner, Await, FirstRead, SecondRead
  <2>2. \E to \in Phases \ {"inserted"} : phase' = [phase EXCEPT ![r] = to]
    BY <1>8 DEF Goes, Send, Refuse, LookFinds, LookMints, Stage, StageFails, InsertFails,
       FindWinner, Await, FirstRead, SecondRead, Phases, Ended
  <2> QED
    BY <2>1, <2>2 DEF RowStep, TypeOK
<1>9. CASE UNCHANGED vars \/ \E i \in Ids : Fetch(i) \/ FetchFails(i)
  BY <1>9 DEF vars, Fetch, FetchFails, RowStep
<1> QED
  BY <1>2, <1>3, <1>4, <1>5, <1>6, <1>7, <1>8, <1>9 DEF Next, Progress, Work

\* What becomes of the rows in any step: columns stay, and so does what is
\* committed.
LEMMA RowsKept ==
  ASSUME TypeOK, OwnRow, RowStep
  PROVE  /\ row' \in [Ids -> Rows]
         /\ \A j \in Ids : row'[j].ask = row[j].ask
         /\ \A j \in Ids : Exists(j) => Exists(j)'
         /\ \A j \in Ids : row[j].status \in Terminal => row'[j].status = row[j].status
<1>1. CASE UNCHANGED row
  BY <1>1 DEF TypeOK, Exists
<1>2. ASSUME NEW i \in Ids, NEW to \in Statuses, row' = [row EXCEPT ![i].status = to],
             Exists(i) => to \in Committed, row[i].status \notin Terminal
      PROVE  /\ row' \in [Ids -> Rows]
             /\ \A j \in Ids : row'[j].ask = row[j].ask
             /\ \A j \in Ids : Exists(j) => Exists(j)'
             /\ \A j \in Ids : row[j].status \in Terminal => row'[j].status = row[j].status
  <2>1. /\ row' \in [Ids -> Rows]
        /\ \A j \in Ids : row'[j].ask = row[j].ask
        /\ \A j \in Ids : row'[j].status = IF j = i THEN to ELSE row[j].status
    BY <1>2, Turned
  <2> QED
    BY <1>2, <2>1 DEF Exists
<1>3. ASSUME NEW r \in Requests, phase[r] = "staged", row' = [row EXCEPT ![r].status = "inserted"]
      PROVE  \E i \in Ids, to \in Statuses :
               /\ row' = [row EXCEPT ![i].status = to] /\ row[i].status \notin Terminal
               /\ Exists(i) => to \in Committed
  BY <1>3 DEF OwnRow, Early, Exists, Ids, Statuses, Committed, Terminal
<1>4. ASSUME NEW r \in Requests, phase[r] = "inserted", NEW to \in {"queued", "absent"},
             row' = [row EXCEPT ![r].status = to]
      PROVE  \E i \in Ids, t \in Statuses :
               /\ row' = [row EXCEPT ![i].status = t] /\ row[i].status \notin Terminal
               /\ Exists(i) => t \in Committed
  BY <1>4 DEF OwnRow, Early, Exists, Ids, Statuses, Committed, Terminal
<1>5. ASSUME NEW i \in Ids, NEW to \in Committed, row[i].status \in {"queued", "running"}
      PROVE  to \in Statuses /\ row[i].status \notin Terminal
  BY <1>5 DEF Statuses, Terminal
<1> QED
  BY <1>1, <1>2, <1>3, <1>4, <1>5 DEF RowStep

-----------------------------------------------------------------------------
(* Each part of the invariant.                                             *)

\* Every action keeps the types.
LEMMA TypeStep == TypeOK /\ OwnRow /\ [Next]_vars => TypeOK'
<1> SUFFICES ASSUME TypeOK, OwnRow, [Next]_vars PROVE TypeOK'
  OBVIOUS
<1> USE DEF Goes, Ids
<1>a. row' \in [Ids -> Rows]
  BY RowSteps, RowsKept
<1>b. \A i \in verdict : row'[i].status = "ran"
  BY RowSteps, RowsKept DEF TypeOK, Terminal
<1>1. CASE UNCHANGED vars
  BY <1>1 DEF TypeOK, vars
<1>2. ASSUME NEW r \in Requests, Send(r) \/ Refuse(r) \/ Await(r) PROVE TypeOK'
  BY <1>2 DEF TypeOK, Send, Refuse, Await, Phases, Ended
<1>3. ASSUME NEW r \in Requests, LookFinds(r) \/ LookMints(r) \/ FindWinner(r) PROVE TypeOK'
  <2>1. \A i \in WithKey(r) : i \in Ids
    BY DEF WithKey
  <2>2. target' \in [Requests -> Ids]
    BY <1>3, <2>1 DEF LookFinds, LookMints, NewId, FindWinner, TypeOK
  <2>3. phase' \in [Requests -> Phases]
    BY <1>3 DEF LookFinds, LookMints, FindWinner, TypeOK, Phases, Ended
  <2> QED
    BY <1>3, <2>2, <2>3 DEF LookFinds, LookMints, FindWinner, TypeOK
<1>5. ASSUME NEW r \in Requests, Stage(r) \/ StageFails(r) PROVE TypeOK'
  <2>1. ask[r].inputs \in Inputs \cup {Nothing} /\ target[r] \in Ids
    BY DEF TypeOK, Asks
  <2>2. object' \in [Ids -> Inputs \cup {Nothing}]
    BY <1>5, <2>1 DEF TypeOK, Stage, StageFails
  <2>3. phase' \in [Requests -> Phases]
    BY <1>5 DEF TypeOK, Stage, StageFails, Phases, Ended
  <2> QED
    BY <1>5, <2>2, <2>3 DEF TypeOK, Stage, StageFails
<1>6. ASSUME NEW r \in Requests, Insert(r) \/ InsertFails(r) \/ Commit(r) \/ Lose(r) PROVE TypeOK'
  <2>1. phase' \in [Requests -> Phases]
    BY <1>6 DEF TypeOK, Insert, InsertFails, Commit, Lose, Phases, Ended
  <2> QED
    BY <1>6, <1>a, <1>b, <2>1 DEF TypeOK, Insert, InsertFails, Commit, Lose
<1>7. ASSUME NEW r \in Requests, FirstRead(r) \/ SecondRead(r) PROVE TypeOK'
  <2>1. row[target[r]].status \in Statuses /\ (target[r] \in verdict) \in BOOLEAN
    BY DEF TypeOK, Rows
  <2>2. saw' \in [Requests -> [execution: Statuses, verification: BOOLEAN]]
    <3>1. CASE FirstRead(r)
      BY <2>1, <3>1 DEF TypeOK, FirstRead, Queries, Result
    <3>2. CASE SecondRead(r)
      BY <2>1, <3>2 DEF TypeOK, SecondRead, Queries, Result
    <3> QED
      BY <1>7, <3>1, <3>2
  <2>3. phase' \in [Requests -> Phases]
    BY <1>7 DEF TypeOK, FirstRead, SecondRead, Phases, Ended
  <2> QED
    BY <1>7, <2>2, <2>3 DEF TypeOK, FirstRead, SecondRead
<1>8. ASSUME NEW i \in Ids, Claim(i) \/ Fetch(i) \/ FetchFails(i) \/ Expire(i) PROVE TypeOK'
  <2>1. job' \in [Ids -> Inputs \cup {Nothing, "none", "unfetched"}]
    BY <1>8 DEF TypeOK, Claim, Fetch, FetchFails, Expire
  <2> QED
    BY <1>8, <1>a, <1>b, <2>1 DEF TypeOK, Claim, Fetch, FetchFails, Expire
<1>9. ASSUME NEW i \in Ids, NEW to \in {"ran", "replayed"}, Report(i, to) PROVE TypeOK'
  <2>1. to = "ran" => row'[i].status = "ran"
    BY <1>9, Turned, ZenonT(30) DEF Report, Turns, Statuses, Committed, Terminal
  <2> QED
    BY <1>9, <1>a, <1>b, <2>1 DEF TypeOK, Report
<1> QED
  BY <1>1, <1>2, <1>3, <1>5, <1>6, <1>7, <1>8, <1>9 DEF Next, Progress, Work

\* The moves of a request, and what it must have found to make them.
Moves ==
  \A r \in Requests :
    \/ phase'[r] = phase[r] /\ target'[r] = target[r]
    \/ /\ target'[r] = target[r]
       /\ \/ <<phase[r], phase'[r]>> \in
               {<<"idle", "sent">>, <<"minted", "staged">>, <<"staged", "inserted">>,
                <<"inserted", "waiting">>, <<"waiting", "reading">>, <<"reading", "read">>,
                <<"read", "answered">>}
          \/ phase'[r] \in {"refused", "failed", "lost"}
          \/ phase[r] = "staged" /\ phase'[r] = "beaten" /\ WithKey(r) # {}
          \/ phase[r] = "beaten" /\ phase'[r] = "raised" /\ WithKey(r) = {}
    \/ phase[r] = "sent" /\ phase'[r] = "minted" /\ target'[r] = r
    \/ phase[r] \in {"sent", "beaten"} /\ phase'[r] = "waiting" /\ target'[r] \in WithKey(r)

\* Every action moves a request in one of these ways.
LEMMA MovesStep == TypeOK /\ [Next]_vars => Moves
<1> SUFFICES ASSUME TypeOK, [Next]_vars PROVE Moves
  OBVIOUS
<1>1. CASE UNCHANGED <<phase, target>>
  BY <1>1 DEF Moves
<1>2. ASSUME NEW q \in Requests, Send(q) \/ Refuse(q) \/ Stage(q) \/ StageFails(q) \/ Insert(q)
                                 \/ Commit(q) \/ Await(q) \/ FirstRead(q) \/ SecondRead(q)
                                 \/ Lose(q)
      PROVE  Moves
  <2>1. target' = target /\ \E to : phase' = [phase EXCEPT ![q] = to]
    BY <1>2 DEF Goes, Send, Refuse, Stage, StageFails, Insert, Commit, Await, FirstRead,
       SecondRead, Lose
  <2>2. \/ phase'[q] \in {"refused", "failed", "lost"}
        \/ <<phase[q], phase'[q]>> \in
             {<<"idle", "sent">>, <<"minted", "staged">>, <<"staged", "inserted">>,
              <<"inserted", "waiting">>, <<"waiting", "reading">>, <<"reading", "read">>,
              <<"read", "answered">>}
    BY <1>2 DEF TypeOK, Goes, Send, Refuse, Stage, StageFails, Insert, Commit, Await, FirstRead,
       SecondRead, Lose
  <2> QED
    BY <2>1, <2>2 DEF Moves, TypeOK
<1>3. ASSUME NEW q \in Requests, InsertFails(q) PROVE Moves
  <2>1. WithKey(q) # {}
    BY <1>3 DEF InsertFails, Holders, WithKey, Exists
  <2> QED
    BY <1>3, <2>1 DEF InsertFails, Goes, Moves, TypeOK
<1>4. ASSUME NEW q \in Requests, LookMints(q) PROVE Moves
  BY <1>4 DEF LookMints, NewId, Goes, Moves, TypeOK
<1>5. ASSUME NEW q \in Requests, LookFinds(q) PROVE Moves
  BY <1>5 DEF LookFinds, Goes, Moves, TypeOK
<1>6. ASSUME NEW q \in Requests, FindWinner(q) PROVE Moves
  <2>1. CASE WithKey(q) = {}
    <3>1. target' = target
      BY <1>6, <2>1 DEF FindWinner, TypeOK
    <3> QED
      BY <1>6, <2>1, <3>1 DEF FindWinner, Goes, Moves, TypeOK
  <2>2. CASE WithKey(q) # {}
    <3> DEFINE winner == CHOOSE i \in WithKey(q) : TRUE
    <3>1. winner \in WithKey(q) /\ target' = [target EXCEPT ![q] = winner]
      BY <1>6, <2>2 DEF FindWinner
    <3>2. phase[q] = "beaten" /\ phase' = [phase EXCEPT ![q] = "waiting"]
      BY <1>6, <2>2 DEF FindWinner, Goes
    <3> HIDE DEF winner
    <3> QED
      BY <3>1, <3>2 DEF Moves, TypeOK
  <2> QED
    BY <2>1, <2>2
<1> QED
  BY <1>1, <1>2, <1>3, <1>4, <1>5, <1>6
  DEF Next, Progress, Work, vars, Claim, Fetch, FetchFails, Expire, Report

\* What a request asks for never changes.
LEMMA AskKept == [Next]_vars => UNCHANGED ask
  BY DEF Next, Progress, Work, vars, Send, Refuse, LookFinds, LookMints, Stage, StageFails,
     Insert, InsertFails, Commit, FindWinner, Await, FirstRead, SecondRead, Lose, Claim, Fetch,
     FetchFails, Expire, Report

\* A row follows the phases of the request that drew its id.
LEMMA OwnRowStep == TypeOK /\ OwnRow /\ [Next]_vars => OwnRow'
<1> SUFFICES ASSUME TypeOK, OwnRow, [Next]_vars, NEW r \in Requests
             PROVE  /\ row'[r].ask = ask'[r]
                    /\ phase'[r] \in Early => target'[r] = r
                    /\ row'[r].status = "inserted" <=> phase'[r] = "inserted"
                    /\ phase'[r] \in Early \ {"inserted"} => row'[r].status = "absent"
  BY DEF OwnRow, Early
<1> USE DEF Ids
<1>1. row'[r].ask = ask'[r]
  BY AskKept, RowSteps, RowsKept DEF OwnRow
<1>2. phase'[r] \in Early => target'[r] = r
  BY MovesStep DEF Moves, OwnRow, Early
<1>3. phase'[r] \in Early \ {"inserted"} => phase[r] \in Early \ {"inserted"}
  BY MovesStep DEF Moves, Early
<1>4. /\ row'[r].status = "inserted" <=> phase'[r] = "inserted"
      /\ phase'[r] \in Early \ {"inserted"} => row'[r].status = "absent"
  <2>1. CASE UNCHANGED row /\ \A q \in Requests : phase'[q] = "inserted" <=> phase[q] = "inserted"
    BY <1>3, <2>1 DEF OwnRow
  <2>2. ASSUME NEW q \in Requests, NEW from \in {"staged", "inserted"}, NEW to \in Phases,
               NEW status \in Statuses,
               phase[q] = from, phase' = [phase EXCEPT ![q] = to],
               row' = [row EXCEPT ![q].status = status],
               status = "inserted" <=> to = "inserted", to \notin Early \ {"inserted"}
        PROVE  /\ row'[r].status = "inserted" <=> phase'[r] = "inserted"
               /\ phase'[r] \in Early \ {"inserted"} => row'[r].status = "absent"
    <3>1. row'[r].status = IF r = q THEN status ELSE row[r].status
      BY <2>2, Turned
    <3>2. phase'[r] = IF r = q THEN to ELSE phase[r]
      BY <2>2 DEF TypeOK
    <3> QED
      BY <2>2, <3>1, <3>2 DEF OwnRow
  <2>3. ASSUME UNCHANGED phase, NEW i \in Ids, NEW to \in Committed,
               row[i].status \in {"queued", "running"}, row' = [row EXCEPT ![i].status = to]
        PROVE  /\ row'[r].status = "inserted" <=> phase'[r] = "inserted"
               /\ phase'[r] \in Early \ {"inserted"} => row'[r].status = "absent"
    <3>1. row'[r].status = IF r = i THEN to ELSE row[r].status
      BY <2>3, Turned DEF Statuses
    <3> QED
      BY <2>3, <3>1 DEF OwnRow, Early, Committed, Terminal
  <2> QED
    BY <2>1, <2>2, <2>3, RowSteps
    DEF RowStep, Phases, Ended, Statuses, Committed, Terminal, Early
<1> QED
  BY <1>1, <1>2, <1>4

\* A second row under a key would have to get past the index.
LEMMA OnePerKeyStep ==
  TypeOK /\ OwnRow /\ OnePerKey /\ [Next]_vars => OnePerKey'
<1> SUFFICES ASSUME TypeOK, OwnRow, OnePerKey, [Next]_vars,
                    NEW i \in Ids, NEW j \in Ids,
                    row'[i].status # "absent", row'[j].status # "absent", SameKey(ask[i], ask[j])
             PROVE  i = j
  BY AskKept DEF OnePerKey, Ids, SameKey
<1>1. ASSUME NEW q \in Requests, phase[q] = "staged", row' = [row EXCEPT ![q].status = "inserted"],
             Holders(q, {"inserted"} \cup Committed) = {}
      PROVE  i = j
  <2>1. target[q] = q /\ q \in Ids
    BY <1>1 DEF OwnRow, Early, Ids
  <2>2. \A k \in Ids : row'[k].status = IF k = q THEN "inserted" ELSE row[k].status
    BY <1>1, <2>1, Turned, ZenonT(30) DEF Statuses
  <2>3. \A k \in Ids \ {q} : row[k].status # "absent" => ~SameKey(ask[k], ask[q])
    BY <1>1, <2>1 DEF Holders, TypeOK, OwnRow, Rows, Statuses, Ids
  <2> QED
    BY <2>2, <2>3 DEF OnePerKey, SameKey
<1>2. ASSUME NEW k \in Ids, NEW to \in Statuses, row' = [row EXCEPT ![k].status = to],
             row[k].status # "absent"
      PROVE  i = j
  <2>1. \A l \in Ids : row'[l].status = IF l = k THEN to ELSE row[l].status
    BY <1>2, Turned
  <2> QED
    BY <1>2, <2>1 DEF OnePerKey
<1>3. \A q \in Requests : phase[q] = "inserted" => row[q].status # "absent"
  BY DEF OwnRow
<1> QED
  BY <1>1, <1>2, <1>3, RowSteps
  DEF RowStep, OnePerKey, Ids, Statuses, Committed, Terminal

\* What a lookup by key finds stays there, and belongs to the one who looked.
LEMMA LookupKept ==
  ASSUME TypeOK, OwnRow, [Next]_vars, NEW r \in Requests, NEW i \in WithKey(r)
  PROVE  i \in WithKey(r)' /\ i \in Ids /\ Exists(i)' /\ SameKey(ask'[i], ask'[r])
<1>1. i \in Ids /\ Exists(i) /\ SameKey(row[i].ask, ask[r])
  BY DEF WithKey
<1>2. Exists(i)' /\ row'[i].ask = row[i].ask
  BY <1>1, RowSteps, RowsKept
<1>3. row[i].ask = ask[i] /\ ask' = ask
  BY <1>1, AskKept DEF OwnRow, Ids
<1> QED
  BY <1>1, <1>2, <1>3 DEF WithKey, Ids

\* An execution that a request has been told of stays, and stays its own.
LEMMA ToldStep ==
  TypeOK /\ OwnRow /\ ToldInv /\ [Next]_vars => ToldInv'
<1> SUFFICES ASSUME TypeOK, OwnRow, ToldInv, [Next]_vars, NEW r \in Requests,
                    phase'[r] \in {"waiting", "reading", "read", "answered"}
             PROVE  /\ Exists(target[r])'
                    /\ target'[r] = r \/ SameKey(ask'[target'[r]], ask'[r])
  BY DEF ToldInv, Told
<1>1. ask' = ask /\ target[r] \in Ids
  BY AskKept DEF TypeOK
<1>2. CASE r \in Told /\ target'[r] = target[r]
  BY <1>1, <1>2, RowSteps, RowsKept DEF ToldInv
<1>3. CASE target'[r] \in WithKey(r)
  BY <1>3, LookupKept DEF Exists
<1>4. CASE phase[r] = "inserted" /\ phase'[r] = "waiting" /\ target'[r] = target[r]
  <2>1. target'[r] = r /\ r \in Ids
    BY <1>4 DEF OwnRow, Early, Ids
  <2>2. row' = [row EXCEPT ![r].status = "queued"]
    <3>1. ASSUME NEW q \in Requests, NEW to, phase' = [phase EXCEPT ![q] = to]
          PROVE  q = r /\ to = "waiting"
      BY <1>4, <3>1 DEF TypeOK
    <3> QED
      BY <1>4, <3>1, RowSteps DEF RowStep
  <2>3. row'[r].status = "queued"
    <3>1. "queued" \in Statuses
      BY DEF Statuses, Committed
    <3>2. \A j \in Ids : row'[j].status = IF j = r THEN "queued" ELSE row[j].status
      BY <2>1, <2>2, <3>1, Turned
    <3> QED
      BY <2>1, <3>2
  <2> QED
    BY <2>1, <2>3 DEF Exists, Committed
<1> QED
  BY <1>2, <1>3, <1>4, MovesStep DEF Moves, Told

\* A race is lost to a committed row, and that row stays.
LEMMA BeatenStep == TypeOK /\ OwnRow /\ BeatenInv /\ [Next]_vars => BeatenInv'
<1> SUFFICES ASSUME TypeOK, OwnRow, BeatenInv, [Next]_vars, NEW r \in Requests,
                    phase'[r] = "beaten"
             PROVE  WithKey(r)' # {}
  BY DEF BeatenInv
<1>1. WithKey(r) # {}
  BY MovesStep DEF Moves, BeatenInv
<1> QED
  BY <1>1, LookupKept

\* So whoever looks for the winner finds one.
LEMMA LosersStep ==
  TypeOK /\ BeatenInv /\ LosersFindTheWinner /\ [Next]_vars => LosersFindTheWinner'
  BY MovesStep DEF Moves, BeatenInv, LosersFindTheWinner

\* Only a request that has drawn an id and not yet staged touches its object.
LEMMA ObjectStep ==
  ASSUME TypeOK, OwnRow, [Next]_vars, NEW r \in Requests
  PROVE  \/ object'[r] = object[r] /\ ~(phase[r] = "minted" /\ phase'[r] = "staged")
         \/ phase[r] = "minted" /\ phase'[r] = "failed"
         \/ /\ phase[r] = "minted" /\ phase'[r] = "staged"
            /\ object'[r] = IF ask[r].inputs = Nothing THEN object[r] ELSE ask[r].inputs
<1>1. ASSUME NEW q \in Requests, Stage(q) PROVE target[q] = q
  BY <1>1 DEF Stage, Goes, OwnRow, Early
<1>2. ASSUME NEW q \in Requests, StageFails(q) PROVE target[q] = q
  BY <1>2 DEF StageFails, Goes, OwnRow, Early
<1>3. ASSUME NEW q \in Requests, Stage(q)
      PROVE  \/ object'[r] = object[r] /\ ~(phase[r] = "minted" /\ phase'[r] = "staged")
             \/ /\ phase[r] = "minted" /\ phase'[r] = "staged"
                /\ object'[r] = IF ask[r].inputs = Nothing THEN object[r] ELSE ask[r].inputs
  BY <1>1, <1>3 DEF Stage, Goes, TypeOK, Ids
<1>4. ASSUME NEW q \in Requests, StageFails(q)
      PROVE  \/ object'[r] = object[r] /\ ~(phase[r] = "minted" /\ phase'[r] = "staged")
             \/ phase[r] = "minted" /\ phase'[r] = "failed"
  BY <1>2, <1>4 DEF StageFails, Goes, TypeOK, Ids
<1>5. ASSUME UNCHANGED object,
             \A q \in Requests : ~(phase[q] = "minted" /\ phase'[q] = "staged")
      PROVE  object'[r] = object[r] /\ ~(phase[r] = "minted" /\ phase'[r] = "staged")
  BY <1>5
<1> QED
  BY <1>3, <1>4, <1>5
  DEF TypeOK, Goes, Next, Progress, Work, vars, Send, Refuse, LookFinds, LookMints, Insert,
      InsertFails, Commit, FindWinner, Await, FirstRead, SecondRead, Lose, Claim, Fetch,
      FetchFails, Expire, Report

\* Nobody but the request that drew the id stores under it, and only before the row.
LEMMA StagedStep == TypeOK /\ OwnRow /\ StagedInv /\ [Next]_vars => StagedInv'
<1> SUFFICES ASSUME TypeOK, OwnRow, StagedInv, [Next]_vars, NEW r \in Requests
             PROVE  /\ phase'[r] \in {"idle", "sent", "minted"} => object'[r] = Nothing
                    /\ phase'[r] \in {"staged", "inserted"} \/ Exists(r)'
                         => object'[r] = ask'[r].inputs
  BY DEF StagedInv
<1> USE DEF Ids
<1>1. ask' = ask
  BY AskKept
<1>2. phase[r] = "minted" => object[r] = Nothing
  BY DEF StagedInv
<1>3. phase'[r] \in {"idle", "sent", "minted"} => object'[r] = Nothing
  BY ObjectStep, MovesStep DEF Moves, StagedInv
<1>4. phase'[r] \in {"staged", "inserted"} => object'[r] = ask'[r].inputs
  BY <1>1, <1>2, ObjectStep, MovesStep DEF Moves, StagedInv
<1>5. Exists(r)' => Exists(r) \/ phase[r] = "inserted"
  <2>1. ASSUME NEW i \in Ids, NEW to \in Statuses, row' = [row EXCEPT ![i].status = to]
        PROVE  row'[r].status = IF r = i THEN to ELSE row[r].status
    BY <2>1, Turned
  <2> QED
    BY <2>1, RowSteps
    DEF RowStep, Exists, Statuses, Committed, Terminal
<1>6. Exists(r) => phase[r] \notin Early
  BY DEF OwnRow, Exists, Committed, Terminal
<1>7. Exists(r)' => object'[r] = ask'[r].inputs
  BY <1>1, <1>5, <1>6, ObjectStep DEF StagedInv, Early
<1> QED
  BY <1>3, <1>4, <1>7

-----------------------------------------------------------------------------
(* The theorems.                                                           *)

\* The inductive invariant: types, the index with its uncommitted rows, and
\* what each phase of a request implies for its row, its object and its target.
THEOREM SubmitCorrect == Spec => []SubmitInv
<1>1. Init => SubmitInv
  <2>1. Init => TypeOK
    BY SubmitAssumption
    DEF Init, TypeOK, Phases, Ended, Rows, Statuses, Unread, Ids
  <2>2. Init => OwnRow /\ OnePerKey /\ ToldInv /\ BeatenInv /\ StagedInv /\ LosersFindTheWinner
    BY DEF Init, OwnRow, OnePerKey, ToldInv, Told, BeatenInv, StagedInv, LosersFindTheWinner,
       Exists, Committed, Terminal, Ids
  <2> QED
    BY <2>1, <2>2 DEF SubmitInv
<1>2. SubmitInv /\ [Next]_vars => SubmitInv'
  BY TypeStep, OwnRowStep, OnePerKeyStep, ToldStep, BeatenStep, StagedStep, LosersStep
  DEF SubmitInv
<1> QED
  BY <1>1, <1>2, PTL DEF Spec

\* One key buys one run: retries, races and lost requests included, whoever is
\* answered under a key is told the one execution there is.
THEOREM OneRunPerKey == Spec => []RetriesBuyOneRun
<1>1. SubmitInv => RetriesBuyOneRun
  <2> SUFFICES ASSUME SubmitInv, NEW r \in Told
               PROVE  /\ Exists(target[r])
                      /\ \A i \in Ids : Exists(i) /\ SameKey(row[i].ask, ask[r]) => i = target[r]
    BY DEF RetriesBuyOneRun
  <2>1. r \in Requests /\ target[r] \in Ids /\ Exists(target[r])
    BY DEF SubmitInv, ToldInv, Told, TypeOK
  <2>2. ASSUME NEW i \in Ids, Exists(i), SameKey(row[i].ask, ask[r]) PROVE i = target[r]
    <3>1. SameKey(ask[i], ask[target[r]])
      BY <2>1, <2>2 DEF SubmitInv, ToldInv, OwnRow, SameKey, Ids
    <3> QED
      BY <2>1, <2>2, <3>1 DEF SubmitInv, OnePerKey, Exists, Committed, Terminal
  <2> QED
    BY <2>1, <2>2
<1> QED
  BY <1>1, SubmitCorrect, PTL

\* Nobody is handed an execution of another organization, or under another key.
THEOREM OwnAnswers == Spec => []AnswersAreTheCallers
<1>1. SubmitInv => AnswersAreTheCallers
  <2> SUFFICES ASSUME SubmitInv, NEW r \in Told
               PROVE  /\ row[target[r]].ask.org = ask[r].org
                      /\ row[target[r]].ask.key = ask[r].key
                      /\ ask[r].key = NoKey => target[r] = r
    BY DEF AnswersAreTheCallers
  <2>1. target[r] \in Requests /\ (target[r] = r \/ SameKey(ask[target[r]], ask[r]))
    BY DEF SubmitInv, ToldInv, Told, TypeOK, Ids
  <2>2. row[target[r]].ask = ask[target[r]]
    BY <2>1 DEF SubmitInv, OwnRow
  <2> QED
    BY <2>1, <2>2 DEF SameKey
<1> QED
  BY <1>1, SubmitCorrect, PTL

\* The loser of the unique index always finds the winner.
THEOREM NoConflictSurfaces == Spec => []LosersFindTheWinner
<1>1. SubmitInv => LosersFindTheWinner
  BY DEF SubmitInv
<1> QED
  BY <1>1, SubmitCorrect, PTL

\* Whatever uploads fail and whoever races, a committed row has its inputs.
THEOREM InputsFirst == Spec => []RowHasItsInputs
<1>1. SubmitInv => RowHasItsInputs
  BY DEF SubmitInv, RowHasItsInputs, StagedInv, OwnRow, Ids
<1> QED
  BY <1>1, SubmitCorrect, PTL

\* A verdict stays, and a row that has run has one in the same step.
LEMMA VerdictKept ==
  ASSUME TypeOK, OwnRow, VerdictInv, [Next]_vars
  PROVE  verdict \subseteq verdict' /\ \A j \in Ids : row'[j].status = "ran" => j \in verdict'
<1>1. ASSUME NEW i \in Ids, NEW to \in {"ran", "replayed"}, Report(i, to)
      PROVE  verdict \subseteq verdict' /\ \A j \in Ids : row'[j].status = "ran" => j \in verdict'
  <2>1. \A j \in Ids : row'[j].status = IF j = i THEN to ELSE row[j].status
    BY <1>1, Turned DEF Report, Turns, Statuses, Committed, Terminal
  <2> QED
    BY <1>1, <2>1 DEF Report, VerdictInv
<1>2. ASSUME UNCHANGED verdict, NEW i \in Ids, NEW to \in Statuses \ {"ran"},
             row' = [row EXCEPT ![i].status = to]
      PROVE  verdict \subseteq verdict' /\ \A j \in Ids : row'[j].status = "ran" => j \in verdict'
  <2>1. \A j \in Ids : row'[j].status = IF j = i THEN to ELSE row[j].status
    BY <1>2, Turned
  <2> QED
    BY <1>2, <2>1 DEF VerdictInv
<1>3. CASE UNCHANGED <<row, verdict>>
  BY <1>3 DEF VerdictInv
<1>4. ASSUME NEW r \in Requests, Insert(r) \/ Commit(r) \/ Lose(r)
      PROVE  /\ UNCHANGED verdict
             /\ \/ UNCHANGED row
                \/ \E i \in Ids, to \in Statuses \ {"ran"} : row' = [row EXCEPT ![i].status = to]
  <2>1. CASE Insert(r)
    BY <2>1, Inserted DEF Insert, Goes, Early, Ids, Statuses, Committed, Terminal
  <2>2. CASE Commit(r) \/ Lose(r)
    BY <2>2 DEF Commit, Lose, TypeOK, Statuses, Committed, Terminal
  <2> QED
    BY <1>4, <2>1, <2>2
<1>5. ASSUME NEW i \in Ids, Claim(i) \/ Expire(i)
      PROVE  UNCHANGED verdict /\ \E to \in Statuses \ {"ran"} : row' = [row EXCEPT ![i].status = to]
  BY <1>5 DEF Claim, Expire, Turns, Statuses, Committed, Terminal
<1> QED
  BY <1>1, <1>2, <1>3, <1>4, <1>5
  DEF Next, Progress, Work, vars, Send, Refuse, LookFinds, LookMints, Stage, StageFails,
      InsertFails, FindWinner, Await, FirstRead, SecondRead, Fetch, FetchFails

\* What the two statements of a response bring in.
LEMMA ReadSteps ==
  ASSUME TypeOK, [Next]_vars, NEW r \in Requests, phase'[r] \in {"read", "answered"}
  PROVE  /\ target'[r] = target[r]
         /\ \/ phase'[r] = "read" /\ saw'[r].execution = row[target[r]].status
            \/ /\ phase[r] = "read" /\ saw'[r].execution = saw[r].execution
               /\ saw'[r].verification = (target[r] \in verdict)
            \/ phase'[r] = phase[r] /\ saw'[r] = saw[r]
<1> USE DEF Goes
<1> DEFINE Reads ==
      \/ phase'[r] = "read" /\ saw'[r].execution = row[target[r]].status
      \/ /\ phase[r] = "read" /\ saw'[r].execution = saw[r].execution
         /\ saw'[r].verification = (target[r] \in verdict)
      \/ phase'[r] = phase[r] /\ saw'[r] = saw[r]
<1>1. ASSUME FirstRead(r) PROVE Reads
  BY <1>1 DEF FirstRead, Queries, Result, TypeOK
<1>2. ASSUME SecondRead(r) PROVE Reads
  BY <1>2 DEF SecondRead, Queries, Result, TypeOK
<1>3. ASSUME NEW q \in Requests \ {r}, FirstRead(q) \/ SecondRead(q) PROVE Reads
  BY <1>3 DEF FirstRead, SecondRead, TypeOK
<1>4. ASSUME UNCHANGED <<phase, saw>> PROVE Reads
  BY <1>4
<1>5. ASSUME NEW q \in Requests, UNCHANGED saw, NEW to \in Phases \ {"read", "answered"},
             phase' = [phase EXCEPT ![q] = to]
      PROVE  Reads
  BY <1>5 DEF TypeOK
<1>6. ASSUME NEW q \in Requests, Send(q) \/ Refuse(q) \/ LookFinds(q) \/ LookMints(q) \/ Stage(q)
                                 \/ StageFails(q) \/ Insert(q) \/ InsertFails(q) \/ Commit(q)
                                 \/ FindWinner(q) \/ Await(q) \/ Lose(q)
      PROVE  /\ UNCHANGED saw
             /\ \E to \in Phases \ {"read", "answered"} : phase' = [phase EXCEPT ![q] = to]
  BY <1>6 DEF Send, Refuse, LookFinds, LookMints, Stage, StageFails, Insert, InsertFails, Commit,
     FindWinner, Await, Lose, Phases, Ended
<1>7. target'[r] = target[r]
  BY MovesStep DEF Moves
<1> HIDE DEF Reads
<1>8. Reads
  BY <1>1, <1>2, <1>3, <1>4, <1>5, <1>6
  DEF Next, Progress, Work, vars, Claim, Fetch, FetchFails, Expire, Report
<1> QED
  BY <1>7, <1>8 DEF Reads

\* An answer that shows a run shows its verdict: the two become visible in one
\* commit, and the statement that looks for the verdict comes second.
THEOREM VerdictsTravel == Spec => []ResultsCarryTheirVerdict
<1>1. Init => VerdictInv
  BY DEF Init, VerdictInv, Ids
<1>2. SubmitInv /\ VerdictInv /\ [Next]_vars => VerdictInv'
  <2> SUFFICES ASSUME SubmitInv, VerdictInv, [Next]_vars PROVE VerdictInv'
    OBVIOUS
  <2>1. /\ TypeOK /\ OwnRow
        /\ verdict \subseteq verdict'
        /\ \A j \in Ids : row'[j].status = "ran" => j \in verdict'
    BY VerdictKept DEF SubmitInv
  <2>2. ASSUME NEW r \in Requests, phase'[r] \in {"read", "answered"}, saw'[r].execution = "ran"
        PROVE  target'[r] \in verdict' /\ (phase'[r] = "answered" => saw'[r].verification)
    <3>1. target[r] \in Ids
      BY <2>1 DEF TypeOK
    <3>2. row[target[r]].status = "ran" => target[r] \in verdict
      BY <3>1 DEF VerdictInv
    <3> QED
      BY <2>1, <2>2, <3>2, ReadSteps DEF VerdictInv
  <2> QED
    BY <2>1, <2>2 DEF VerdictInv
<1>3. VerdictInv => ResultsCarryTheirVerdict
  BY DEF VerdictInv, ResultsCarryTheirVerdict
<1> QED
  BY <1>1, <1>2, <1>3, SubmitCorrect, PTL DEF Spec

=============================================================================
