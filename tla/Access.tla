------------------------------- MODULE Access -------------------------------
(***************************************************************************)
(* Who may do what: API keys minted, provisioned, revoked and used, and    *)
(* the execution tiers an operator grants.                                 *)
(*                                                                         *)
(* A request is authenticated by one read of its key's row and works with  *)
(* the principal it found there. The stamp of last_used_at is a pending    *)
(* UPDATE, which the first statement after it sends and the next commit    *)
(* ends; where the limiter is asked first, that is at once. Keys are       *)
(* numbered in the order they are made; an organization and an agent are   *)
(* known by the key that came with them.                                   *)
(***************************************************************************)
EXTENDS Naturals, Sequences, FiniteSets, FiniteSetsExt, SequencesExt

CONSTANTS
  Requests,    \* one-shot requests
  None,
  RootScopes,  \* the sets of scopes asked of /bootstrap
  GrantSets,   \* the sets of tiers asked of the grant endpoint
  Founding     \* the keys there are at the beginning: a sequence of sets of scopes

MaxKeys == Len(Founding) + Cardinality(Requests)
KeyIds == 1..MaxKeys

\* Scope.ALL, FOUNDER and KNOWN.
Ordinary == {"experiences:read", "experiences:write", "executions:run", "executions:verify"}
Founder == Ordinary \cup {"agents:provision"}
Known == Founder \cup {"worker:execute", "admin"}

Tiers == {"quick", "standard", "extended"}

ASSUME AccessAssumption ==
  /\ IsFiniteSet(Requests) /\ None \notin Requests
  /\ RootScopes \subseteq SUBSET Known /\ GrantSets \subseteq SUBSET Tiers
  /\ Founding \in Seq(SUBSET Known)

VARIABLES
  key,       \* api_keys, with the rows that are not committed yet
  grants,    \* the policy rows, in created_at order
  lock,      \* the request holding each key's row
  request,   \* where each request is, and what it has read
  held,      \* the keys whose plaintext somebody has been given
  met,       \* (auxiliary) the organizations two of whose grants overlapped
  lastGrant, \* (auxiliary) what was granted last to each organization
  tried      \* (auxiliary) keys that were handed out and found unknown

vars == <<key, grants, lock, request, held, met, lastGrant, tried>>

-----------------------------------------------------------------------------

NoKey == [state |-> "absent", org |-> 0, agent |-> 0, scopes |-> {}, revoked |-> FALSE]

\* A founding key is the first of its organization.
Founded(k) == [state |-> "in", org |-> k, agent |-> k, scopes |-> Founding[k], revoked |-> FALSE]

Orgs == {key[k].org : k \in {i \in KeyIds : key[i].state = "in"}}

NewRequest == [phase |-> "new", kind |-> "none", by |-> 0, org |-> 0, scopes |-> {},
               target |-> 0, stamps |-> FALSE, saw |-> 0, tiers |-> {}, made |-> 0]

KeyRows == [state: {"absent", "open", "in", "gone"}, org: 0..MaxKeys, agent: 0..MaxKeys,
            scopes: SUBSET Known, revoked: BOOLEAN]

RequestRows == [phase: {"new", "known", "open", "committed", "revoking", "granting", "done"},
                kind: {"none", "provision", "revoke", "grant", "bootstrap", "mint"},
                by: 0..MaxKeys, org: 0..MaxKeys, scopes: SUBSET Known, target: 0..MaxKeys,
                stamps: BOOLEAN, saw: Nat, tiers: SUBSET Tiers, made: 0..MaxKeys]

TypeOK ==
  /\ key \in [KeyIds -> KeyRows] /\ request \in [Requests -> RequestRows]
  /\ grants \in Seq([org: KeyIds, tiers: SUBSET Tiers])
  /\ lastGrant \in [KeyIds -> SUBSET Tiers] /\ met \subseteq KeyIds
  /\ lock \in [KeyIds -> Requests \cup {None}]
  /\ held \subseteq KeyIds /\ tried \subseteq KeyIds

Init ==
  /\ key = [k \in KeyIds |-> IF k \in DOMAIN Founding THEN Founded(k) ELSE NoKey]
  /\ grants = <<>> /\ lock = [k \in KeyIds |-> None]
  /\ request = [r \in Requests |-> NewRequest]
  /\ held = DOMAIN Founding /\ met = {} /\ tried = {}
  /\ lastGrant = [o \in KeyIds |-> {}]

Step(r, changed) == request' = [request EXCEPT ![r] = changed]
Ends(r) == Step(r, [request[r] EXCEPT !.phase = "done"])
Released(r) == [k \in KeyIds |-> IF lock[k] = r THEN None ELSE lock[k]]

\* policy.authorize, for the actions that are called without a resource.
Authorized(scopes, required) == "admin" \in scopes \/ required \in scopes

-----------------------------------------------------------------------------
(* Authentication.                                                         *)

\* Variant: revoked_at is not looked at.
PrincipalUnchecked(k) == key[k].state = "in"

\* get_principal finds the row by the hash, and it is not revoked.
Principal(k) == key[k].state = "in" /\ ~key[k].revoked

\* A caller presents a key it was given, or none where none is asked for.
Authenticate(r, kind, k) ==
  /\ request[r].phase = "new"
  /\ kind \in {"provision", "revoke", "grant"}
  /\ k \in held
  /\ IF Principal(k)
     THEN Step(r, [request[r] EXCEPT !.phase = "known", !.kind = kind, !.by = k,
                                     !.org = key[k].org, !.scopes = key[k].scopes])
     ELSE Step(r, [request[r] EXCEPT !.phase = "done", !.kind = kind])
  /\ tried' = IF key[k].state = "in" THEN tried ELSE tried \cup {k}
  /\ UNCHANGED <<key, grants, lock, held, met, lastGrant>>

-----------------------------------------------------------------------------
(* Keys come into being.                                                   *)

NextKey == CHOOSE k \in KeyIds : key[k].state = "absent" /\ \A i \in 1..(k - 1) : key[i].state # "absent"

\* The rows are flushed, and not committed.
Inserts(r, row, kind) ==
  /\ key' = [key EXCEPT ![NextKey] = row]
  /\ Step(r, [request[r] EXCEPT !.phase = "open", !.kind = kind, !.made = NextKey])
  /\ UNCHANGED <<grants, lock, held, met, lastGrant, tried>>

\* POST /bootstrap, behind the root token, and POST /keys, behind nothing: an
\* organization, an agent and its key.
Found(r, kind, scopes) ==
  /\ request[r].phase = "new"
  /\ \/ kind = "bootstrap" /\ scopes \in RootScopes
     \/ kind = "mint" /\ scopes = Founder
  /\ Inserts(r, [state |-> "open", org |-> NextKey, agent |-> NextKey, scopes |-> scopes, revoked |-> FALSE], kind)

\* POST /agents: a colleague in the caller's own organization.
Provision(r) ==
  /\ request[r].phase = "known" /\ request[r].kind = "provision" /\ lock[request[r].by] = None
  /\ Authorized(request[r].scopes, "agents:provision")
  /\ Inserts(r, [state |-> "open", org |-> request[r].org, agent |-> NextKey,
                 scopes |-> Ordinary, revoked |-> FALSE], "provision")

\* release: before the answer, so that the key works when it arrives.
CommitKey(r) ==
  /\ request[r].phase = "open"
  /\ key' = [key EXCEPT ![request[r].made].state = "in"]
  /\ Step(r, [request[r] EXCEPT !.phase = "committed"])
  /\ UNCHANGED <<grants, lock, held, met, lastGrant, tried>>

\* Variant: the answer goes out before the teardown commits.
HandOutEarly(r) ==
  /\ request[r].phase \in {"open", "committed"} /\ request[r].made \notin held
  /\ held' = held \cup {request[r].made}
  /\ UNCHANGED <<key, grants, lock, request, met, lastGrant, tried>>

HandOut(r) ==
  /\ request[r].phase = "committed"
  /\ held' = held \cup {request[r].made}
  /\ Ends(r)
  /\ UNCHANGED <<key, grants, lock, met, lastGrant, tried>>

-----------------------------------------------------------------------------
(* And are revoked.                                                        *)

\* The SELECT of the key to be revoked, after the stamp of the caller's own:
\* its row stays locked. When the two are one row, the copy read by
\* get_principal is not refreshed, and it was not revoked.
RevokeRead(r, t) ==
  /\ request[r].phase = "known" /\ request[r].kind = "revoke"
  /\ lock[request[r].by] = None
  /\ key[t].state = "in"
  /\ IF request[r].org # key[t].org /\ ~Authorized(request[r].scopes, "admin")
     THEN Ends(r) /\ UNCHANGED lock
     ELSE /\ lock' = [lock EXCEPT ![request[r].by] = r]
          /\ Step(r, [request[r] EXCEPT !.phase = "revoking", !.target = t, !.stamps = t = request[r].by \/ ~key[t].revoked])
  /\ UNCHANGED <<key, grants, held, met, lastGrant, tried>>

\* The UPDATE, when the copy it read was not revoked, and the commit.
RevokeCommit(r) ==
  /\ request[r].phase = "revoking"
  /\ request[r].stamps => lock[request[r].target] \in {None, r}
  /\ key' = [key EXCEPT ![request[r].target].revoked = TRUE]
  /\ lock' = Released(r)
  /\ Ends(r)
  /\ UNCHANGED <<grants, held, met, lastGrant, tried>>

\* Two keys that revoke each other wait for each other, and the database ends
\* one of the two.
Deadlock(r, s) ==
  /\ r # s
  /\ request[r].phase = "revoking" /\ request[s].phase = "revoking"
  /\ lock[request[r].target] = s /\ lock[request[s].target] = r
  /\ request[r].stamps /\ request[s].stamps
  /\ lock' = Released(r)
  /\ Ends(r)
  /\ UNCHANGED <<key, grants, held, met, lastGrant, tried>>

-----------------------------------------------------------------------------
(* Execution tiers.                                                        *)

\* granted_tiers: what all the organization's policy rows say.
Granted(rows, o) == UNION {rows[i].tiers : i \in {j \in DOMAIN rows : rows[j].org = o}}

\* The row the endpoint owns: the oldest of that name.
Owned(o) == LET mine == {i \in DOMAIN grants : grants[i].org = o}
            IN  IF mine = {} THEN 0 ELSE Min(mine)

\* Two grants to one organization under way at once.
Meeting(r, o) ==
  \E s \in Requests \ {r} : request[s].phase = "granting" /\ request[s].target = o

\* The organization exists; the row is read, or found missing.
GrantRead(r, o, tiers) ==
  /\ request[r].phase = "known" /\ request[r].kind = "grant" /\ lock[request[r].by] = None
  /\ Authorized(request[r].scopes, "admin")
  /\ o \in Orgs /\ tiers \in GrantSets
  /\ Step(r, [request[r] EXCEPT !.phase = "granting", !.target = o, !.tiers = tiers, !.saw = Owned(o)])
  /\ met' = IF Meeting(r, o) THEN met \cup {o} ELSE met
  /\ UNCHANGED <<key, grants, lock, held, lastGrant, tried>>

\* Variant: a grant is a row of its own.
GrantAppends(r) ==
  /\ request[r].phase = "granting"
  /\ grants' = Append(grants, [org |-> request[r].target, tiers |-> request[r].tiers])
  /\ lastGrant' = [lastGrant EXCEPT ![request[r].target] = request[r].tiers]
  /\ Ends(r)
  /\ UNCHANGED <<key, lock, held, met, tried>>

\* The row is replaced, or inserted, and committed.
GrantCommit(r) ==
  LET row == [org |-> request[r].target, tiers |-> request[r].tiers]
  IN  /\ request[r].phase = "granting"
      /\ grants' = IF request[r].saw = 0 THEN Append(grants, row)
                                         ELSE [grants EXCEPT ![request[r].saw] = row]
      /\ lastGrant' = [lastGrant EXCEPT ![request[r].target] = request[r].tiers]
      /\ Ends(r)
      /\ UNCHANGED <<key, lock, held, met, tried>>

\* Refused by the policy, dead with its process, or rolled back: nothing that
\* was not committed stays.
Dies(r) ==
  /\ request[r].phase \notin {"new", "done"}
  /\ key' = [k \in KeyIds |-> IF request[r].phase = "open" /\ k = request[r].made
                              THEN [NoKey EXCEPT !.state = "gone"] ELSE key[k]]
  /\ lock' = Released(r)
  /\ Ends(r)
  /\ UNCHANGED <<grants, held, met, lastGrant, tried>>

-----------------------------------------------------------------------------

Next ==
  \E r \in Requests :
    \/ \E k \in KeyIds, kind \in {"provision", "revoke", "grant"} : Authenticate(r, kind, k)
    \/ \E kind \in {"bootstrap", "mint"}, scopes \in RootScopes \cup {Founder} : Found(r, kind, scopes)
    \/ Provision(r) \/ CommitKey(r) \/ HandOut(r)
    \/ (\E t \in KeyIds : RevokeRead(r, t)) \/ RevokeCommit(r) \/ (\E s \in Requests : Deadlock(r, s))
    \/ (\E o \in KeyIds, tiers \in GrantSets : GrantRead(r, o, tiers)) \/ GrantCommit(r)
    \/ Dies(r)

Spec == Init /\ [][Next]_vars

-----------------------------------------------------------------------------
(* What holds at every step, and the properties below rest on.             *)

\* Every key there is was there at the beginning or is the one key of one
\* request, and an organization is known by a key that exists;
RowInv(k) ==
  /\ key[k].state \in {"absent", "gone"} => key[k].org = 0
  /\ key[k].state \in {"open", "in"} => key[k].org # 0 /\ key[key[k].org].state # "absent"
  /\ key[k].state # "absent" => k \in DOMAIN Founding \/ \E r \in Requests : request[r].made = k

\* a request knows what its phase says, and its key is in the state it says;
AskInv(r) ==
  /\ request[r].phase \in {"new", "known", "revoking", "granting"} => request[r].made = 0
  /\ request[r].phase = "new" => request[r].org = 0
  /\ request[r].phase \in {"known", "revoking"} => request[r].by # 0 /\ request[r].org # 0
  /\ request[r].phase = "revoking" => request[r].target # 0 /\ key[request[r].target].state = "in"
  /\ request[r].phase = "granting" => request[r].target # 0
  /\ request[r].phase \in {"open", "committed"} => request[r].made # 0
  /\ request[r].phase = "open" => key[request[r].made].state = "open"
  /\ request[r].phase = "committed" => key[request[r].made].state = "in"
  /\ request[r].org # 0 => key[request[r].org].state # "absent"
  /\ request[r].made # 0 => /\ key[request[r].made].state # "absent"
                            /\ \A s \in Requests \ {r} : request[s].made # request[r].made

\* and what somebody has been given is committed, and stays so.
KeyInv ==
  /\ \A k \in KeyIds : RowInv(k)
  /\ \A r \in Requests : AskInv(r)
  /\ \A k \in held : key[k].state = "in"
  /\ tried = {}

\* A request that is about to write a row has read it; and where no two met,
\* the organization has one row at most, which says what was granted last, and
\* it is the one whoever is about to write has read.
GrantInv ==
  /\ \A r \in Requests : request[r].phase = "granting" /\ request[r].saw # 0 =>
       request[r].saw \in DOMAIN grants /\ grants[request[r].saw].org = request[r].target
  /\ \A o \in KeyIds \ met :
       /\ \A i, j \in DOMAIN grants : grants[i].org = o /\ grants[j].org = o => i = j
       /\ \A i \in DOMAIN grants : grants[i].org = o => grants[i].tiers = lastGrant[o]
       /\ (\A i \in DOMAIN grants : grants[i].org # o) => lastGrant[o] = {}
       /\ \A r \in Requests : request[r].phase = "granting" /\ request[r].target = o =>
            /\ ~Meeting(r, o)
            /\ request[r].saw = 0 => \A i \in DOMAIN grants : grants[i].org # o

-----------------------------------------------------------------------------
(* Properties.                                                             *)

\* resolve_execution_tier: what a lease gets of the tier its version asks for.
\* verified says that its verifier looks at the output.
Resolved(wanted, granted, verified) ==
  IF wanted \notin Tiers \/ wanted \notin granted \/ (wanted = "extended" /\ ~verified)
  THEN "quick" ELSE wanted

\* A key somebody has been handed is never unknown: its row is committed
\* before the response that carries it, whatever else is under way.
HandedOutKeysWork == tried = {}

\* The keys of an organization are revoked, and none of its requests that got
\* in before that is still under way.
Burnt(o) ==
  /\ \E k \in KeyIds : key[k].org = o
  /\ \A k \in KeyIds : key[k].org = o => key[k].state = "in" /\ key[k].revoked
  /\ \A r \in Requests : request[r].org = o => request[r].phase = "done"

\* An organization burnt as a set stays burnt: no colleague's key turns up, and
\* no second revocation, of itself or by anybody else, brings one back.
BurntStaysBurnt == [][\A o \in KeyIds : Burnt(o) => Burnt(o)']_vars

\* A grant is the whole of what an organization may run, and taking it back
\* takes it back: at a lease, the longer tiers are those of the last grant,
\* unless two grants to the same organization ever overlapped.
LastGrantCounts ==
  \A o \in KeyIds \ met, wanted \in Tiers \ {"quick"}, verified \in BOOLEAN :
    Resolved(wanted, Granted(grants, o), verified) = wanted <=>
      wanted \in lastGrant[o] /\ (wanted = "extended" => verified)

=============================================================================
