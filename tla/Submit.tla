-------------------------------- MODULE Submit --------------------------------
(***************************************************************************)
(* Submission of executions: execute_experience of routes.py, from the     *)
(* lookup of the idempotency key to the answer, and the part of the lease  *)
(* handler that hands a worker the inputs of its job.                      *)
(*                                                                         *)
(* A request is several transactions with object storage in between:       *)
(* look the key up; stage the inputs; insert the row and commit, which is  *)
(* the enqueue; wait; read the answer in a session of its own. Any number  *)
(* of requests may carry one key, retries of a lost one included.          *)
(*                                                                         *)
(* How a row is leased and settled is the subject of Lease; here it is     *)
(* claimed, put back and settled by single steps.                          *)
(***************************************************************************)
EXTENDS Naturals, Sequences

CONSTANTS
  Requests,  \* HTTP requests, retries included
  Orgs,      \* organizations
  Keys,      \* idempotency keys clients draw
  NoKey,     \* idempotency_key = None
  Inputs,    \* contents of a request's inputs
  Nothing    \* no inputs, or no object

ASSUME SubmitAssumption == NoKey \notin Keys /\ Nothing \notin Inputs

VARIABLES
  ask,      \* what each request asks for
  phase,    \* how far each request has come
  target,   \* the execution each request has settled on
  saw,      \* what each request has read for its answer
  row,      \* the executions table, uncommitted rows included
  object,   \* executions/<id>/inputs.json
  verdict,  \* executions with a row in verifications
  job       \* the inputs the worker that holds a row was handed

vars == <<ask, phase, target, saw, row, object, verdict, job>>

-----------------------------------------------------------------------------

\* A new id is used by nobody else: it is named after the request that drew it.
Ids == Requests

Asks == [org: Orgs, key: Keys \cup {NoKey}, inputs: Inputs \cup {Nothing}]

\* ran: reported by a worker, with the verdict in the same transaction;
\* replayed and abandoned: terminal too, but nothing was verified.
Terminal == {"ran", "replayed", "abandoned"}
Committed == {"queued", "running"} \cup Terminal
Statuses == {"absent", "inserted"} \cup Committed

\* organization_id and idempotency_key are columns of the row; the inputs are
\* not, they say what the caller sent along.
Rows == [status: Statuses, ask: Asks]

Ended == {"answered", "refused", "failed", "raised", "lost"}
Phases == {"idle", "sent", "minted", "staged", "inserted", "beaten", "waiting", "reading", "read"}
            \cup Ended

Exists(i) == row[i].status \in Committed

SameKey(a, b) == a.key # NoKey /\ a.key = b.key /\ a.org = b.org

Unread == [execution |-> "absent", verification |-> FALSE]

Init ==
  /\ ask \in [Requests -> Asks]
  /\ phase = [r \in Requests |-> "idle"]
  /\ target = [r \in Requests |-> r]
  /\ saw = [r \in Requests |-> Unread]
  /\ row = [i \in Ids |-> [status |-> "absent", ask |-> ask[i]]]
  /\ object = [i \in Ids |-> Nothing]
  /\ verdict = {}
  /\ job = [i \in Ids |-> "none"]

Goes(r, from, to) == phase[r] = from /\ phase' = [phase EXCEPT ![r] = to]

-----------------------------------------------------------------------------
(* The request.                                                            *)

Send(r) ==
  /\ Goes(r, "idle", "sent")
  /\ UNCHANGED <<ask, target, saw, row, object, verdict, job>>

\* Rate limited, not visible, not allowed, or no such version.
Refuse(r) ==
  /\ Goes(r, "sent", "refused")
  /\ UNCHANGED <<ask, target, saw, row, object, verdict, job>>

\* Variant: a lookup that forgets whose key it is.
WithKeyAnywhere(r) == {i \in Ids : Exists(i) /\ ask[r].key # NoKey /\ row[i].ask.key = ask[r].key}

\* Variant: a lookup among the executions that are not over.
WithKeyUnfinished(r) ==
  {i \in Ids : row[i].status \in {"queued", "running"} /\ SameKey(row[i].ask, ask[r])}

\* by_idempotency_key: what an earlier request with this key has committed.
WithKey(r) == {i \in Ids : Exists(i) /\ SameKey(row[i].ask, ask[r])}

\* Variant: an id computed from the key.
NewIdFromKey(r) == IF ask[r].key = NoKey THEN r ELSE CHOOSE q \in Requests : SameKey(ask[q], ask[r])

NewId(r) == r

LookFinds(r) ==
  /\ Goes(r, "sent", "waiting")
  /\ WithKey(r) # {}
  /\ \E i \in WithKey(r) : target' = [target EXCEPT ![r] = i]
  /\ UNCHANGED <<ask, saw, row, object, verdict, job>>

LookMints(r) ==
  /\ Goes(r, "sent", "minted")
  /\ WithKey(r) = {}
  /\ target' = [target EXCEPT ![r] = NewId(r)]
  /\ UNCHANGED <<ask, saw, row, object, verdict, job>>

\* The inputs are stored before the row exists.
Stage(r) ==
  /\ Goes(r, "minted", "staged")
  /\ object' = IF ask[r].inputs = Nothing THEN object
               ELSE [object EXCEPT ![target[r]] = ask[r].inputs]
  /\ UNCHANGED <<ask, target, saw, row, verdict, job>>

\* Object storage fails, before or after it has the bytes.
StageFails(r) ==
  /\ ask[r].inputs # Nothing
  /\ Goes(r, "minted", "failed")
  /\ \E stored \in {object[target[r]], ask[r].inputs} :
       object' = [object EXCEPT ![target[r]] = stored]
  /\ UNCHANGED <<ask, target, saw, row, verdict, job>>

\* Variant: no unique index.
HoldersNone(r, statuses) == {}

\* Other rows the unique index ux_executions_idempotency holds against this one.
Holders(r, statuses) ==
  {i \in Ids \ {target[r]} : row[i].status \in statuses /\ SameKey(row[i].ask, ask[r])}

\* An insert waits for the transaction that has inserted the same key.
Insert(r) ==
  /\ Holders(r, {"inserted"}) = {}
  /\ Holders(r, Committed) = {}
  /\ Goes(r, "staged", "inserted")
  /\ row' = [row EXCEPT ![target[r]] = [status |-> "inserted", ask |-> ask[r]]]
  /\ UNCHANGED <<ask, target, saw, object, verdict, job>>

\* IntegrityError, and the rollback of this transaction.
InsertFails(r) ==
  /\ Holders(r, {"inserted"}) = {}
  /\ Holders(r, Committed) # {}
  /\ Goes(r, "staged", "beaten")
  /\ UNCHANGED <<ask, target, saw, row, object, verdict, job>>

Commit(r) ==
  /\ Goes(r, "inserted", "waiting")
  /\ row' = [row EXCEPT ![target[r]].status = "queued"]
  /\ UNCHANGED <<ask, target, saw, object, verdict, job>>

\* The loser reports the winner's execution, and raises if there is none.
FindWinner(r) ==
  /\ Goes(r, "beaten", IF WithKey(r) = {} THEN "raised" ELSE "waiting")
  /\ target' = [target EXCEPT ![r] =
       IF WithKey(r) = {} THEN target[r] ELSE CHOOSE i \in WithKey(r) : TRUE]
  /\ UNCHANGED <<ask, saw, row, object, verdict, job>>

\* Variant: a wait with no deadline.
AwaitForever(r) ==
  /\ row[target[r]].status \in Terminal
  /\ Goes(r, "waiting", "reading")
  /\ UNCHANGED <<ask, target, saw, row, object, verdict, job>>

\* _await_terminal: until the execution is over, or the deadline, which may
\* come at any moment.
Await(r) ==
  /\ Goes(r, "waiting", "reading")
  /\ UNCHANGED <<ask, target, saw, row, object, verdict, job>>

\* Variant: the verification is looked for first.
QueriesSwapped == <<"verification", "execution">>

\* The order of the statements of _execution_response.
Queries == <<"execution", "verification">>

Result(query, i) == IF query = "execution" THEN row[i].status ELSE i \in verdict

FirstRead(r) ==
  /\ Goes(r, "reading", "read")
  /\ saw' = [saw EXCEPT ![r][Queries[1]] = Result(Queries[1], target[r])]
  /\ UNCHANGED <<ask, target, row, object, verdict, job>>

\* The answer is made of both and sent.
SecondRead(r) ==
  /\ Goes(r, "read", "answered")
  /\ saw' = [saw EXCEPT ![r][Queries[2]] = Result(Queries[2], target[r])]
  /\ UNCHANGED <<ask, target, row, object, verdict, job>>

\* The client hangs up or the server dies: an open transaction is rolled back,
\* what is committed or staged stays, and nobody is answered.
Lose(r) ==
  /\ phase[r] \notin {"idle"} \cup Ended
  /\ phase' = [phase EXCEPT ![r] = "lost"]
  /\ row' = IF phase[r] = "inserted" THEN [row EXCEPT ![target[r]].status = "absent"] ELSE row
  /\ UNCHANGED <<ask, target, saw, object, verdict, job>>

-----------------------------------------------------------------------------
(* The worker's side.                                                      *)

Turns(i, from, to) == row[i].status = from /\ row' = [row EXCEPT ![i].status = to]

\* The claim commits before the inputs are fetched.
Claim(i) ==
  /\ Turns(i, "queued", "running")
  /\ job' = [job EXCEPT ![i] = "unfetched"]
  /\ UNCHANGED <<ask, phase, target, saw, object, verdict>>

Fetch(i) ==
  /\ row[i].status = "running" /\ job[i] = "unfetched"
  /\ job' = [job EXCEPT ![i] = object[i]]
  /\ UNCHANGED <<ask, phase, target, saw, row, object, verdict>>

\* Whatever goes wrong is taken for an execution that has no inputs.
FetchFails(i) ==
  /\ row[i].status = "running" /\ job[i] = "unfetched"
  /\ job' = [job EXCEPT ![i] = Nothing]
  /\ UNCHANGED <<ask, phase, target, saw, row, object, verdict>>

\* The lease runs out: back to the queue, or given up.
Expire(i) ==
  /\ \E to \in {"queued", "abandoned"} : Turns(i, "running", to)
  /\ job' = [job EXCEPT ![i] = "none"]
  /\ UNCHANGED <<ask, phase, target, saw, object, verdict>>

\* The result and, unless it was replayed, its verdict become visible together.
Report(i, to) ==
  /\ job[i] \in Inputs \cup {Nothing}
  /\ Turns(i, "running", to)
  /\ verdict' = IF to = "ran" THEN verdict \cup {i} ELSE verdict
  /\ UNCHANGED <<ask, phase, target, saw, object, job>>

-----------------------------------------------------------------------------

Progress(r) ==
  \/ LookFinds(r) \/ LookMints(r)
  \/ Stage(r) \/ Insert(r) \/ InsertFails(r) \/ Commit(r) \/ FindWinner(r)
  \/ Await(r) \/ FirstRead(r) \/ SecondRead(r)

Work(i) ==
  \/ Claim(i) \/ Fetch(i) \/ FetchFails(i) \/ Expire(i)
  \/ \E to \in {"ran", "replayed"} : Report(i, to)

Next ==
  \/ \E r \in Requests : Send(r) \/ Refuse(r) \/ Progress(r) \/ StageFails(r) \/ Lose(r)
  \/ \E i \in Ids : Work(i)

Spec == Init /\ [][Next]_vars

\* A request whose handler lives goes on: statements and uploads return, and
\* the wait has a deadline. Nothing is assumed of clients or workers.
Fairness == \A r \in Requests : WF_vars(Progress(r))

FairSpec == Spec /\ Fairness

-----------------------------------------------------------------------------
(* Properties.                                                             *)

\* Every variable has the type of its column, or of what a handler holds.
TypeOK ==
  /\ ask \in [Requests -> Asks]
  /\ phase \in [Requests -> Phases]
  /\ target \in [Requests -> Ids]
  /\ saw \in [Requests -> [execution: Statuses, verification: BOOLEAN]]
  /\ row \in [Ids -> Rows]
  /\ object \in [Ids -> Inputs \cup {Nothing}]
  /\ verdict \subseteq {i \in Ids : row[i].status = "ran"}
  /\ job \in [Ids -> Inputs \cup {Nothing, "none", "unfetched"}]

\* Requests that have an execution to report.
Told == {r \in Requests : phase[r] \in {"waiting", "reading", "read", "answered"}}

\* "A client that times out and retries must not buy a second sandbox run":
\* however requests with one key race, and whichever of them are lost, one
\* execution comes of it, and everybody who is answered is told that one.
RetriesBuyOneRun ==
  \A r \in Told :
    /\ Exists(target[r])
    /\ \A i \in Ids : Exists(i) /\ SameKey(row[i].ask, ask[r]) => i = target[r]

\* "One tenant's retry token must not collide with another's": what a request
\* is told of is an execution of its own organization and under its own key,
\* and without a key it is one of its own.
AnswersAreTheCallers ==
  \A r \in Told :
    /\ row[target[r]].ask.org = ask[r].org
    /\ row[target[r]].ask.key = ask[r].key
    /\ ask[r].key = NoKey => target[r] = r

\* The loser of a race for a key always finds the winner: the index refuses its
\* row only for one that is committed, and committed rows stay.
LosersFindTheWinner == \A r \in Requests : phase[r] # "raised"

\* "A row whose inputs were never written would be run against nothing": from
\* its commit on, what is stored for an execution is what its caller sent, and
\* no later request writes over it.
RowHasItsInputs == \A i \in Ids : Exists(i) => object[i] = row[i].ask.inputs

\* A "row whose inputs were never written would be run against nothing and the
\* result recorded as evidence, which is the one failure that corrupts the
\* product": a worker is handed what the caller sent.
JobsCarryTheirInputs ==
  \A i \in Ids : job[i] \in Inputs \cup {Nothing} => job[i] = row[i].ask.inputs

\* An answer that shows the result of a run shows its verdict as well: the
\* statements that read them are not one snapshot, but come in the safe order.
ResultsCarryTheirVerdict ==
  \A r \in Requests :
    phase[r] = "answered" /\ saw[r].execution = "ran" => saw[r].verification

\* No request waits for ever, be it on another one's insert, on a lost race or
\* on a queue nobody serves.
EveryoneHearsBack == \A r \in Requests : phase[r] = "sent" ~> phase[r] \in Ended

-----------------------------------------------------------------------------
(* Why the safety properties hold.                                         *)

\* Before its row is in, a request works on the id it drew.
Early == {"idle", "sent", "minted", "staged", "inserted", "beaten"}

\* The row of an id is the doing of the request that drew it.
OwnRow ==
  \A r \in Requests :
    /\ row[r].ask = ask[r]
    /\ phase[r] \in Early => target[r] = r
    /\ row[r].status = "inserted" <=> phase[r] = "inserted"
    /\ phase[r] \in Early \ {"inserted"} => row[r].status = "absent"

\* The unique index, uncommitted rows included.
OnePerKey ==
  \A i, j \in Ids :
    row[i].status # "absent" /\ row[j].status # "absent" /\ SameKey(ask[i], ask[j]) => i = j

\* An execution a request reports is its own or goes by its key.
ToldInv ==
  \A r \in Told :
    Exists(target[r]) /\ (target[r] = r \/ SameKey(ask[target[r]], ask[r]))

\* A request that lost the race lost it to a committed row.
BeatenInv == \A r \in Requests : phase[r] = "beaten" => WithKey(r) # {}

\* Inputs are stored once, by the request that drew the id, before the row.
StagedInv ==
  \A r \in Requests :
    /\ phase[r] \in {"idle", "sent", "minted"} => object[r] = Nothing
    /\ phase[r] \in {"staged", "inserted"} \/ Exists(r) => object[r] = ask[r].inputs

SubmitInv ==
  TypeOK /\ OwnRow /\ OnePerKey /\ ToldInv /\ BeatenInv /\ StagedInv /\ LosersFindTheWinner

\* A run and its verdict are committed together, and the second statement of a
\* response sees at least what the first one saw.
VerdictInv ==
  /\ \A i \in Ids : row[i].status = "ran" => i \in verdict
  /\ \A r \in Requests :
       phase[r] \in {"read", "answered"} /\ saw[r].execution = "ran" =>
         /\ target[r] \in verdict
         /\ phase[r] = "answered" => saw[r].verification

=============================================================================
