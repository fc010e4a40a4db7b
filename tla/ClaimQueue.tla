----------------------------- MODULE ClaimQueue -----------------------------
(***************************************************************************)
(* What leases.py promises of the queue, with no transaction in sight:     *)
(* "exactly one worker claims each row", a claim ends with the lease or    *)
(* with its own result, an execution is settled once, and one that was     *)
(* claimed MaxAttempts times without a result is failed, not retried.      *)
(***************************************************************************)
EXTENDS Naturals

CONSTANTS Executions, Workers, NoWorker, Verdicts, MaxAttempts

VARIABLE claims

Unclaimed(status) == [status |-> status, leased_by |-> NoWorker,
                      lease |-> "none", attempts |-> 0, result |-> 0]

Init == claims = [e \in Executions |-> Unclaimed("absent")]

Free(c) == c.status = "QUEUED" \/ (c.status = "RUNNING" /\ c.lease = "expired")

Submit(e) ==
  /\ claims[e] = Unclaimed("absent")
  /\ claims'[e] = Unclaimed("QUEUED")

\* From the queue, or from a worker whose lease has run out.
Take(w, e) ==
  /\ Free(claims[e])
  /\ claims[e].attempts < MaxAttempts
  /\ claims'[e] = [claims[e] EXCEPT !.status = "RUNNING", !.leased_by = w,
                                    !.lease = "live", !.attempts = @ + 1]

Lapse(e) ==
  /\ claims[e].lease = "live"
  /\ claims'[e] = [claims[e] EXCEPT !.lease = "expired"]

GiveBack(e) ==
  /\ Free(claims[e])
  /\ claims[e].attempts < MaxAttempts
  /\ claims'[e] = [claims[e] EXCEPT !.status = "QUEUED", !.leased_by = NoWorker,
                                    !.lease = "none"]

GiveUp(e) ==
  /\ claims[e].status = "RUNNING" /\ claims[e].lease = "expired"
  /\ claims[e].attempts >= MaxAttempts
  /\ claims'[e] = [claims[e] EXCEPT !.status = "FAILED"]

\* The result that lands is the one of the claim that stands.
Settle(e) ==
  /\ claims[e].status = "RUNNING"
  /\ \E status \in Verdicts :
       claims'[e] = [claims[e] EXCEPT !.status = status, !.lease = "none",
                                      !.result = claims[e].attempts]

\* One request may give back every lapsed claim it finds, and takes at most one.
Step(e) == Submit(e) \/ Lapse(e) \/ GiveBack(e) \/ GiveUp(e) \/ Settle(e)

Next ==
  /\ claims' \in [Executions -> {claims'[e] : e \in Executions}]
  /\ \/ \A e \in Executions : Step(e) \/ claims'[e] = claims[e]
     \/ \E w \in Workers, x \in Executions :
          /\ Take(w, x)
          /\ \A e \in Executions \ {x} : GiveBack(e) \/ GiveUp(e) \/ claims'[e] = claims[e]

Spec == Init /\ [][Next]_claims
=============================================================================
