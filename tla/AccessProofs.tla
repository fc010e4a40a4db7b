---------------------------- MODULE AccessProofs ----------------------------
(***************************************************************************)
(* Proofs about Access for any number of requests and founding keys.       *)
(***************************************************************************)
EXTENDS Access, FiniteSetTheorems, WellFoundedInduction, TLAPS

-----------------------------------------------------------------------------
(* There is always a key left.                                             *)

\* A set of naturals that is not empty has a least element.
LEMMA LeastOne ==
  ASSUME NEW S \in SUBSET Nat, S # {}
  PROVE  \E x \in S : \A y \in S : x <= y
<1>1. PICK x \in S : \A y \in S : <<y, x>> \notin OpToRel(<, Nat)
  BY NatLessThanWellFounded, WFMin
<1>2. ASSUME NEW y \in S PROVE x <= y
  <2>1. x \in Nat /\ y \in Nat
    OBVIOUS
  <2>2. ~(y < x)
    <3> SUFFICES ASSUME y < x PROVE FALSE
      OBVIOUS
    <3>1. <<y, x>> \in OpToRel(<, Nat)
      BY <2>1 DEF OpToRel
    <3> QED
      BY <1>1, <3>1
  <2> QED
    BY <2>1, <2>2
<1> QED
  BY <1>2

\* There are as many keys to give out as requests, beyond the founding ones.
LEMMA HowMany ==
  /\ MaxKeys \in Nat /\ KeyIds \subseteq Nat /\ DOMAIN Founding \subseteq KeyIds
  /\ IsFiniteSet(KeyIds \ DOMAIN Founding)
  /\ Cardinality(KeyIds \ DOMAIN Founding) = Cardinality(Requests)
<1> DEFINE n == Len(Founding)
           m == Cardinality(Requests)
<1>1. n \in Nat /\ m \in Nat /\ DOMAIN Founding = 1..n
  BY AccessAssumption, FS_CardinalityType
<1>2. KeyIds = 1..(n + m) /\ MaxKeys = n + m
  BY DEF KeyIds, MaxKeys
<1> HIDE DEF n, m
<1>3. KeyIds \ DOMAIN Founding = (n + 1)..(n + m)
  BY <1>1, <1>2
<1>4. IsFiniteSet((n + 1)..(n + m)) /\ Cardinality((n + 1)..(n + m)) = m
  BY <1>1, FS_Interval
<1>5. MaxKeys \in Nat /\ KeyIds \subseteq Nat /\ DOMAIN Founding \subseteq KeyIds
  BY <1>1, <1>2
<1>6. m = Cardinality(Requests)
  BY DEF m
<1> QED
  BY <1>3, <1>4, <1>5, <1>6

\* A request that has made no key finds one that is not there yet.
LEMMA KeyLeft ==
  ASSUME TypeOK, KeyInv, NEW r \in Requests, request[r].made = 0
  PROVE  NextKey \in KeyIds /\ key[NextKey].state = "absent"
<1> DEFINE Free == {k \in KeyIds : key[k].state = "absent"}
           Others == Requests \ {r}
           New == KeyIds \ DOMAIN Founding
<1>1. IsFiniteSet(Others) /\ Cardinality(Others) < Cardinality(New) /\ IsFiniteSet(New)
  <2>1. /\ IsFiniteSet(Requests \ {r}) /\ Cardinality(Requests \ {r}) = Cardinality(Requests) - 1
        /\ Cardinality(Requests) \in Nat
    BY AccessAssumption, FS_RemoveElement, FS_CardinalityType
  <2>2. IsFiniteSet(New) /\ Cardinality(New) = Cardinality(Requests)
    BY HowMany
  <2> QED
    BY <2>1, <2>2
<1>2. Free # {}
  <2> SUFFICES ASSUME Free = {} PROVE FALSE
    OBVIOUS
  <2>1. \A k \in New : \E s \in Others : request[s].made = k
    BY HowMany DEF KeyInv, RowInv, KeyIds
  <2> DEFINE f == [k \in New |-> CHOOSE s \in Others : request[s].made = k]
  <2>2. \A k \in New : f[k] \in Others /\ request[f[k]].made = k
    BY <2>1
  <2>3. f \in [New -> Others]
    BY <2>2
  <2> HIDE DEF f, New, Others
  <2>4. \E j, k \in New : j # k /\ f[j] = f[k]
    BY <1>1, <2>3, FS_PigeonHole
  <2> QED
    BY <2>2, <2>4
<1>3. \E k \in Free : \A i \in Free : k <= i
  <2>1. Free \in SUBSET Nat
    BY DEF KeyIds
  <2> QED
    BY <1>2, <2>1, LeastOne
<1>4. \E k \in KeyIds : key[k].state = "absent" /\ \A i \in 1..(k - 1) : key[i].state # "absent"
  <2>1. PICK k \in Free : \A i \in Free : k <= i
    BY <1>3
  <2>2. k \in KeyIds /\ key[k].state = "absent" /\ k \in Nat
    BY DEF KeyIds
  <2>3. ASSUME NEW i \in 1..(k - 1), key[i].state = "absent" PROVE FALSE
    <3>1. i \in KeyIds /\ i < k
      BY <2>2, HowMany DEF KeyIds
    <3> QED
      BY <2>1, <2>2, <2>3, <3>1 DEF KeyIds
  <2> QED
    BY <2>2, <2>3
<1> QED
  BY <1>4 DEF NextKey

\* The row the endpoint owns is the first of those of the organization.
LEMMA OwnedIs ==
  ASSUME TypeOK, NEW o \in KeyIds
  PROVE  /\ Owned(o) \in Nat
         /\ Owned(o) = 0 <=> \A i \in DOMAIN grants : grants[i].org # o
         /\ Owned(o) # 0 => Owned(o) \in DOMAIN grants /\ grants[Owned(o)].org = o
<1> DEFINE mine == {i \in DOMAIN grants : grants[i].org = o}
<1>1. DOMAIN grants \subseteq Nat \ {0}
  BY DEF TypeOK
<1>2. CASE mine = {}
  BY <1>2 DEF Owned
<1>3. CASE mine # {}
  <2>1. mine \in SUBSET Nat
    BY <1>1
  <2>2. PICK i \in mine : \A j \in mine : i <= j
    BY <1>3, <2>1, LeastOne
  <2>3. Owned(o) = Min(mine)
    BY <1>3 DEF Owned
  <2>4. Min(mine) \in mine
    BY <2>2 DEF Min
  <2> QED
    BY <1>1, <1>3, <2>3, <2>4
<1> QED
  BY <1>2, <1>3

-----------------------------------------------------------------------------
(* The types.                                                              *)

\* A key that is rolled back.
LEMMA GoneType == [NoKey EXCEPT !.state = "gone"] \in KeyRows
<1>1. 0 \in 0..MaxKeys
  BY HowMany
<1> QED
  BY <1>1 DEF NoKey, KeyRows

\* The request and the key a step begins with.
LEMMA Asked ==
  ASSUME TypeOK, NEW r \in Requests
  PROVE  request[r] \in RequestRows /\ \A k \in KeyIds : key[k] \in KeyRows
BY DEF TypeOK

\* A request whose phase changes, and maybe more, is still a request.
LEMMA RequestMoves ==
  ASSUME TypeOK, NEW r \in Requests, NEW row \in RequestRows, Step(r, row)
  PROVE  /\ request' \in [Requests -> RequestRows] /\ request'[r] = row
         /\ \A s \in Requests \ {r} : request'[s] = request[s]
BY DEF Step, TypeOK

\* The end of a request changes its phase only.
LEMMA RequestEnds ==
  ASSUME TypeOK, NEW r \in Requests, Ends(r)
  PROVE  /\ request' \in [Requests -> RequestRows]
         /\ request'[r] = [request[r] EXCEPT !.phase = "done"]
         /\ \A s \in Requests \ {r} : request'[s] = request[s]
<1>1. [request[r] EXCEPT !.phase = "done"] \in RequestRows
  BY Asked DEF RequestRows, KeyRows
<1> QED
  BY <1>1, RequestMoves DEF Ends

\* Whoever lets go of its rows leaves the others as they are.
LEMMA ReleasedType ==
  ASSUME TypeOK, NEW r \in Requests
  PROVE  Released(r) \in [KeyIds -> Requests \cup {None}]
BY DEF TypeOK, Released

\* Inserting a key keeps the types.
LEMMA InsertsType ==
  ASSUME TypeOK, KeyInv, NEW r \in Requests, NEW row \in KeyRows, request[r].made = 0,
         NEW kind \in {"provision", "bootstrap", "mint"}, Inserts(r, row, kind)
  PROVE  TypeOK'
<1> DEFINE moved == [request[r] EXCEPT !.phase = "open", !.kind = kind, !.made = NextKey]
<1>1. NextKey \in KeyIds /\ KeyIds \subseteq 0..MaxKeys
  BY KeyLeft DEF KeyIds
<1>2. moved \in RequestRows
  <2>1. NextKey \in 0..MaxKeys /\ request[r] \in RequestRows
    BY <1>1, Asked
  <2> QED
    BY <2>1 DEF RequestRows
<1> HIDE DEF moved
<1>3. request' \in [Requests -> RequestRows]
  BY <1>2, RequestMoves DEF Inserts, moved
<1>4. key' \in [KeyIds -> KeyRows]
  BY <1>1 DEF Inserts, TypeOK
<1> QED
  BY <1>3, <1>4 DEF Inserts, TypeOK

\* Every row a request leaves behind is typed.
LEMMA TypeStep ==
  ASSUME TypeOK, KeyInv, [Next]_vars
  PROVE  TypeOK'
<1> USE DEF Known, Founder, Ordinary
<1>0. CASE UNCHANGED vars
  BY <1>0 DEF vars, TypeOK
<1>k. KeyIds \subseteq Nat /\ KeyIds \subseteq 0..MaxKeys
  BY HowMany DEF KeyIds
<1>1. ASSUME NEW r \in Requests, NEW k \in KeyIds, NEW kind \in {"provision", "revoke", "grant"}, Authenticate(r, kind, k)
      PROVE  TypeOK'
  <2>1. CASE Principal(k)
    <3> DEFINE row == [request[r] EXCEPT !.phase = "known", !.kind = kind, !.by = k,
                                         !.org = key[k].org, !.scopes = key[k].scopes]
    <3>1. row \in RequestRows
      <4>1. k \in 0..MaxKeys /\ key[k].org \in 0..MaxKeys /\ key[k].scopes \in SUBSET Known
        BY <1>k DEF TypeOK, KeyRows
      <4> QED
        BY <4>1, Asked, ZenonT(60) DEF RequestRows, KeyRows
    <3> HIDE DEF row
    <3>2. Step(r, row)
      BY <1>1, <2>1 DEF Authenticate, row
    <3> QED
      BY <1>1, <3>1, <3>2, RequestMoves DEF Authenticate, TypeOK
  <2>2. CASE ~Principal(k)
    <3>1. [request[r] EXCEPT !.phase = "done", !.kind = kind] \in RequestRows
      BY Asked, ZenonT(60) DEF RequestRows, KeyRows
    <3>2. Step(r, [request[r] EXCEPT !.phase = "done", !.kind = kind])
      BY <1>1, <2>2 DEF Authenticate
    <3> QED
      BY <1>1, <3>1, <3>2, RequestMoves DEF Authenticate, TypeOK
  <2> QED
    BY <2>1, <2>2
<1>2. ASSUME NEW r \in Requests, NEW kind \in {"bootstrap", "mint"}, NEW scopes \in RootScopes \cup {Founder},
             Found(r, kind, scopes)
      PROVE  TypeOK'
  <2> DEFINE row == [state |-> "open", org |-> NextKey, agent |-> NextKey, scopes |-> scopes, revoked |-> FALSE]
  <2>1. request[r].made = 0
    BY <1>2 DEF Found, KeyInv, AskInv
  <2>2. NextKey \in 0..MaxKeys /\ scopes \in SUBSET Known
    BY <2>1, KeyLeft, <1>k, AccessAssumption
  <2>3. row \in KeyRows
    BY <2>2 DEF KeyRows
  <2> HIDE DEF row
  <2>4. Inserts(r, row, kind)
    BY <1>2 DEF Found, row
  <2> QED
    BY <2>1, <2>3, <2>4, InsertsType
<1>3. ASSUME NEW r \in Requests, Provision(r) PROVE TypeOK'
  <2> DEFINE row == [state |-> "open", org |-> request[r].org, agent |-> NextKey,
                     scopes |-> Ordinary, revoked |-> FALSE]
  <2>1. request[r].made = 0
    BY <1>3 DEF Provision, KeyInv, AskInv
  <2>2. NextKey \in 0..MaxKeys /\ request[r].org \in 0..MaxKeys
    BY <2>1, KeyLeft, <1>k DEF TypeOK, RequestRows
  <2>3. row \in KeyRows
    BY <2>2 DEF KeyRows
  <2> HIDE DEF row
  <2>4. Inserts(r, row, "provision")
    BY <1>3 DEF Provision, row
  <2> QED
    BY <2>1, <2>3, <2>4, InsertsType
<1>4. ASSUME NEW r \in Requests, CommitKey(r) PROVE TypeOK'
  <2>1. request' \in [Requests -> RequestRows]
    <3>1. [request[r] EXCEPT !.phase = "committed"] \in RequestRows
      BY Asked DEF RequestRows, KeyRows
    <3> QED
      BY <1>4, <3>1, RequestMoves DEF CommitKey
  <2>2. key' \in [KeyIds -> KeyRows]
    <3>1. \A k \in KeyIds : [key[k] EXCEPT !.state = "in"] \in KeyRows
      BY Asked DEF RequestRows, KeyRows
    <3> QED
      BY <1>4, <3>1 DEF CommitKey, TypeOK
  <2> QED
    BY <1>4, <2>1, <2>2 DEF CommitKey, TypeOK
<1>5. ASSUME NEW r \in Requests, HandOut(r) PROVE TypeOK'
  <2>1. request[r].made \in KeyIds
    BY <1>5 DEF HandOut, KeyInv, AskInv, TypeOK, RequestRows, KeyIds
  <2> QED
    BY <1>5, <2>1, RequestEnds DEF HandOut, TypeOK
<1>6. ASSUME NEW r \in Requests, NEW t \in KeyIds, RevokeRead(r, t) PROVE TypeOK'
  <2>1. request' \in [Requests -> RequestRows]
    <3> DEFINE row == [request[r] EXCEPT !.phase = "revoking", !.target = t,
                                         !.stamps = t = request[r].by \/ ~key[t].revoked]
    <3>1. row \in RequestRows
      <4>1. t \in 0..MaxKeys /\ (t = request[r].by \/ ~key[t].revoked) \in BOOLEAN
        BY <1>k
      <4> QED
        BY <4>1, Asked, ZenonT(60) DEF RequestRows, KeyRows
    <3> HIDE DEF row
    <3>2. Ends(r) \/ Step(r, row)
      BY <1>6 DEF RevokeRead, row
    <3> QED
      BY <3>1, <3>2, RequestMoves, RequestEnds
  <2>2. lock' \in [KeyIds -> Requests \cup {None}]
    BY <1>6 DEF RevokeRead, TypeOK
  <2> QED
    BY <1>6, <2>1, <2>2 DEF RevokeRead, TypeOK
<1>7. ASSUME NEW r \in Requests, RevokeCommit(r) PROVE TypeOK'
  <2>1. key' \in [KeyIds -> KeyRows]
    <3>1. ASSUME NEW k \in KeyIds PROVE [key[k] EXCEPT !.revoked = TRUE] \in KeyRows
      <4>1. key[k] \in KeyRows
        BY DEF TypeOK
      <4> QED
        BY <4>1 DEF KeyRows
    <3> QED
      BY <1>7, <3>1 DEF RevokeCommit, TypeOK
  <2> QED
    BY <1>7, <2>1, RequestEnds, ReleasedType DEF RevokeCommit, TypeOK
<1>8. ASSUME NEW r \in Requests, NEW s \in Requests, Deadlock(r, s) PROVE TypeOK'
  BY <1>8, RequestEnds, ReleasedType DEF Deadlock, TypeOK
<1>9. ASSUME NEW r \in Requests, NEW o \in KeyIds, NEW tiers \in GrantSets, GrantRead(r, o, tiers) PROVE TypeOK'
  <2> DEFINE row == [request[r] EXCEPT !.phase = "granting", !.target = o, !.tiers = tiers, !.saw = Owned(o)]
  <2>1. Owned(o) \in Nat
    BY OwnedIs
  <2>2. row \in RequestRows
    <3>1. o \in 0..MaxKeys /\ tiers \in SUBSET Tiers
      BY <1>k, AccessAssumption
    <3> QED
      BY <2>1, <3>1, Asked, ZenonT(60) DEF RequestRows, KeyRows
  <2> HIDE DEF row
  <2>3. Step(r, row)
    BY <1>9 DEF GrantRead, row
  <2> QED
    BY <1>9, <2>2, <2>3, RequestMoves DEF GrantRead, TypeOK
<1>10. ASSUME NEW r \in Requests, GrantCommit(r) PROVE TypeOK'
  <2> DEFINE row == [org |-> request[r].target, tiers |-> request[r].tiers]
  <2>1. request[r].target \in KeyIds /\ request[r].tiers \in SUBSET Tiers
    BY <1>10 DEF GrantCommit, KeyInv, AskInv, TypeOK, RequestRows, KeyIds
  <2>2. row \in [org: KeyIds, tiers: SUBSET Tiers]
    BY <2>1
  <2> HIDE DEF row
  <2>3. grants' \in Seq([org: KeyIds, tiers: SUBSET Tiers])
    <3> DEFINE Rows == [org: KeyIds, tiers: SUBSET Tiers]
    <3>1. grants' = Append(grants, row) \/ grants' = [grants EXCEPT ![request[r].saw] = row]
      BY <1>10 DEF GrantCommit, row
    <3>2. grants \in Seq(Rows) /\ row \in Rows
      BY <2>2 DEF TypeOK
    <3> HIDE DEF Rows
    <3>3. grants' \in Seq(Rows)
      BY <3>1, <3>2
    <3> QED
      BY <3>3 DEF Rows
  <2>4. lastGrant' \in [KeyIds -> SUBSET Tiers]
    BY <1>10, <2>1 DEF GrantCommit, TypeOK
  <2> QED
    BY <1>10, <2>3, <2>4, RequestEnds DEF GrantCommit, TypeOK
<1>11. ASSUME NEW r \in Requests, Dies(r) PROVE TypeOK'
  <2>1. key' \in [KeyIds -> KeyRows]
    <3>1. [NoKey EXCEPT !.state = "gone"] \in KeyRows
      BY GoneType
    <3> QED
      BY <1>11, <3>1 DEF Dies, TypeOK
  <2> QED
    BY <1>11, <2>1, RequestEnds, ReleasedType DEF Dies, TypeOK
<1> QED
  BY <1>0, <1>1, <1>2, <1>3, <1>4, <1>5, <1>6, <1>7, <1>8, <1>9, <1>10, <1>11 DEF Next

-----------------------------------------------------------------------------
(* Every key is somebody's, and what is handed out is committed.           *)

\* Whatever a row names, unless it is nothing, is a key's number.
LEMMA Within ==
  ASSUME TypeOK
  PROVE  /\ \A i \in 0..MaxKeys : i # 0 => i \in KeyIds
         /\ \A k \in KeyIds : key[k].org # 0 => key[k].org \in KeyIds
         /\ \A s \in Requests : /\ request[s].made # 0 => request[s].made \in KeyIds
                                /\ request[s].org # 0 => request[s].org \in KeyIds
                                /\ request[s].target # 0 => request[s].target \in KeyIds
<1>1. \A i \in 0..MaxKeys : i # 0 => i \in KeyIds
  BY HowMany DEF KeyIds
<1>2. \A k \in KeyIds : key[k].org \in 0..MaxKeys
  BY DEF TypeOK, KeyRows
<1>3. \A s \in Requests : /\ request[s].made \in 0..MaxKeys
                          /\ request[s].org \in 0..MaxKeys /\ request[s].target \in 0..MaxKeys
  BY DEF TypeOK, RequestRows
<1> QED
  BY <1>1, <1>2, <1>3

\* A request that moves without making a key, at most committing or losing the
\* one it made, leaves every row and every request as they should be.
LEMMA Moves ==
  ASSUME TypeOK, TypeOK', KeyInv, NEW r \in Requests,
         \A s \in Requests \ {r} : request'[s] = request[s],
         request'[r].made = request[r].made,
         \A k \in KeyIds : \/ key'[k].state = key[k].state /\ key'[k].org = key[k].org
                           \/ /\ k = request[r].made /\ key[k].state = "open"
                              /\ \/ key'[k].state = "in" /\ key'[k].org = key[k].org
                                 \/ key'[k].state = "gone" /\ key'[k].org = 0,
         AskInv(r)'
  PROVE  (\A k \in KeyIds : RowInv(k)') /\ (\A s \in Requests : AskInv(s)')
<1>1. \A k \in KeyIds : key[k].state # "absent" => key'[k].state # "absent"
  OBVIOUS
<1>2. \A s \in Requests : request'[s].made = request[s].made
  OBVIOUS
<1>3. ASSUME NEW k \in KeyIds PROVE RowInv(k)'
  <2>1. RowInv(k) /\ key[k].org \in 0..MaxKeys
    BY DEF KeyInv, TypeOK, KeyRows
  <2>2. key[k].org # 0 => key[k].org \in KeyIds
    BY <2>1, HowMany DEF KeyIds
  <2>3. key'[k].state \in {"absent", "gone"} => key'[k].org = 0
    BY <2>1 DEF RowInv
  <2>4. key'[k].state \in {"open", "in"} => key'[k].org # 0 /\ key'[key'[k].org].state # "absent"
    BY <2>1, <2>2, <1>1 DEF RowInv
  <2>5. key'[k].state # "absent" => k \in DOMAIN Founding \/ \E s \in Requests : request'[s].made = k
    BY <2>1, <1>2 DEF RowInv
  <2> QED
    BY <2>3, <2>4, <2>5 DEF RowInv
<1>4. ASSUME NEW s \in Requests, s # r PROVE AskInv(s)'
  <2>1. AskInv(s) /\ AskInv(r) /\ request'[s] = request[s]
    BY <1>4 DEF KeyInv
  <2>2. /\ request[s].made # 0 => request[s].made \in KeyIds
        /\ request[s].org # 0 => request[s].org \in KeyIds
        /\ request[s].target # 0 => request[s].target \in KeyIds
    BY Within
  <2>3. request[s].made # 0 => request[s].made # request[r].made
    BY <2>1, <1>4 DEF AskInv
  <2>4. /\ request[s].phase = "revoking" => key'[request[s].target].state = "in"
        /\ request[s].phase = "open" => key'[request[s].made].state = "open"
        /\ request[s].phase = "committed" => key'[request[s].made].state = "in"
    BY <2>1, <2>2, <2>3 DEF AskInv
  <2>5. /\ request[s].org # 0 => key'[request[s].org].state # "absent"
        /\ request[s].made # 0 => key'[request[s].made].state # "absent"
    BY <2>1, <2>2, <1>1 DEF AskInv
  <2>6. request[s].made # 0 => \A q \in Requests \ {s} : request'[q].made # request[s].made
    BY <2>1, <1>2 DEF AskInv
  <2> QED
    BY <2>1, <2>4, <2>5, <2>6 DEF AskInv
<1> QED
  BY <1>3, <1>4

\* Most of them touch no key at all, or only stamp one.
LEMMA Stays ==
  ASSUME TypeOK, TypeOK', KeyInv, NEW r \in Requests,
         \A s \in Requests \ {r} : request'[s] = request[s],
         request'[r].made = request[r].made,
         \A k \in KeyIds : key'[k].state = key[k].state /\ key'[k].org = key[k].org,
         held' = held, tried' = tried, AskInv(r)'
  PROVE  KeyInv'
<1>1. (\A k \in KeyIds : RowInv(k)') /\ (\A s \in Requests : AskInv(s)')
  BY Moves
<1> QED
  BY <1>1 DEF KeyInv, TypeOK

\* A request that ends keeps what it said of its keys,
LEMMA EndsAsk ==
  ASSUME TypeOK, TypeOK', KeyInv, NEW r \in Requests, Ends(r),
         \A k \in KeyIds : key[k].state # "absent" => key'[k].state # "absent"
  PROVE  AskInv(r)' /\ request'[r].made = request[r].made
<1>1. /\ \A s \in Requests \ {r} : request'[s] = request[s]
      /\ request'[r].made = request[r].made /\ request'[r].org = request[r].org
      /\ request'[r].phase = "done"
  BY RequestEnds, SMTT(30) DEF TypeOK, RequestRows
<1>2. /\ request[r].made # 0 => request[r].made \in KeyIds
      /\ request[r].org # 0 => request[r].org \in KeyIds
  BY Within
<1>3. /\ request[r].org # 0 => key'[request[r].org].state # "absent"
      /\ request[r].made # 0 => key'[request[r].made].state # "absent"
  BY <1>2 DEF KeyInv, AskInv
<1> QED
  BY <1>1, <1>3 DEF KeyInv, AskInv

\* and so does all of it when the keys stay where they are.
LEMMA EndsStays ==
  ASSUME TypeOK, TypeOK', KeyInv, NEW r \in Requests, Ends(r),
         \A k \in KeyIds : key'[k].state = key[k].state /\ key'[k].org = key[k].org,
         held' = held, tried' = tried
  PROVE  KeyInv'
BY EndsAsk, RequestEnds, Stays

\* A new key is the one key of the request that inserts it, and a key of an
\* organization that exists, or founds one.
LEMMA InsertsInv ==
  ASSUME TypeOK, TypeOK', KeyInv, NEW r \in Requests, NEW row, NEW kind, request[r].made = 0,
         Inserts(r, row, kind), row.state = "open", row.org # 0,
         row.org = NextKey \/ row.org = request[r].org
  PROVE  KeyInv'
<1>1. NextKey \in KeyIds /\ key[NextKey].state = "absent" /\ NextKey # 0
  BY KeyLeft DEF KeyIds
<1> DEFINE n == NextKey
<1>2. /\ key' = [key EXCEPT ![n] = row] /\ held' = held /\ tried' = tried
      /\ request' = [request EXCEPT ![r] = [request[r] EXCEPT !.phase = "open", !.kind = kind, !.made = n]]
  BY DEF Inserts, Step
<1> HIDE DEF n
<1>3. n \in KeyIds /\ key[n].state = "absent" /\ n # 0 /\ (row.org = n \/ row.org = request[r].org)
  BY <1>1 DEF n
<1>4. /\ key'[n] = row /\ \A k \in KeyIds \ {n} : key'[k] = key[k]
      /\ \A s \in Requests \ {r} : request'[s] = request[s]
      /\ request'[r].phase = "open" /\ request'[r].made = n /\ request'[r].org = request[r].org
  BY <1>2, <1>3 DEF TypeOK, RequestRows
<1>5. \A k \in KeyIds : key[k].state # "absent" => key'[k] = key[k]
  BY <1>3, <1>4
<1>6. /\ \A k \in KeyIds : key[k].org # 0 => key[k].org \in KeyIds
      /\ \A s \in Requests : /\ request[s].made # 0 => request[s].made \in KeyIds
                             /\ request[s].org # 0 => request[s].org \in KeyIds
                             /\ request[s].target # 0 => request[s].target \in KeyIds
  BY Within
<1>7. row.org \in KeyIds /\ key'[row.org].state # "absent"
  <2>1. CASE row.org = n
    BY <2>1, <1>3, <1>4
  <2>2. CASE row.org = request[r].org
    BY <2>2, <1>5, <1>6 DEF KeyInv, AskInv
  <2> QED
    BY <1>3, <2>1, <2>2
<1>8. \A s \in Requests : request[s].made # n
  BY <1>3 DEF KeyInv, AskInv
<1>9. ASSUME NEW k \in KeyIds PROVE RowInv(k)'
  <2>1. CASE k = n
    BY <2>1, <1>4, <1>7 DEF RowInv
  <2>2. CASE k # n
    <3>1. RowInv(k) /\ key'[k] = key[k]
      BY <2>2, <1>4 DEF KeyInv
    <3>2. key[k].state \in {"open", "in"} => key[k].org # 0 /\ key'[key[k].org].state # "absent"
      BY <3>1, <1>5, <1>6 DEF RowInv
    <3>3. key[k].state # "absent" => k \in DOMAIN Founding \/ \E s \in Requests : request'[s].made = k
      <4>1. CASE k \in DOMAIN Founding
        BY <4>1
      <4>2. ASSUME NEW s \in Requests, request[s].made = k PROVE request'[s].made = k
        <5>1. s # r
          BY <4>2, HowMany, <2>2 DEF KeyIds
        <5> QED
          BY <4>2, <5>1, <1>4
      <4> QED
        BY <3>1, <4>1, <4>2 DEF RowInv
    <3> QED
      BY <3>1, <3>2, <3>3 DEF RowInv
  <2> QED
    BY <2>1, <2>2
<1>10. AskInv(r)'
  <2>1. request[r].org # 0 => key'[request[r].org].state # "absent"
    BY <1>5, <1>6 DEF KeyInv, AskInv
  <2> QED
    BY <2>1, <1>3, <1>4, <1>8 DEF AskInv
<1>11. ASSUME NEW s \in Requests, s # r PROVE AskInv(s)'
  <2>1. AskInv(s) /\ request'[s] = request[s]
    BY <1>4, <1>11 DEF KeyInv
  <2>2. /\ request[s].phase = "revoking" => key'[request[s].target].state = "in"
        /\ request[s].phase = "open" => key'[request[s].made].state = "open"
        /\ request[s].phase = "committed" => key'[request[s].made].state = "in"
        /\ request[s].org # 0 => key'[request[s].org].state # "absent"
        /\ request[s].made # 0 => key'[request[s].made].state # "absent"
    BY <2>1, <1>5, <1>6 DEF AskInv
  <2>3. request[s].made # 0 => \A q \in Requests \ {s} : request'[q].made # request[s].made
    BY <2>1, <1>4, <1>8 DEF AskInv
  <2> QED
    BY <2>1, <2>2, <2>3 DEF AskInv
<1>12. \A k \in held' : key'[k].state = "in"
  BY <1>2, <1>5 DEF KeyInv, TypeOK
<1> QED
  BY <1>2, <1>9, <1>10, <1>11, <1>12 DEF KeyInv

\* Each step keeps that.
LEMMA KeyInvStep ==
  ASSUME TypeOK, TypeOK', KeyInv, [Next]_vars
  PROVE  KeyInv'
<1>0. CASE UNCHANGED vars
  BY <1>0 DEF vars, KeyInv, RowInv, AskInv
<1>1. ASSUME NEW r \in Requests, NEW k \in KeyIds, NEW kind \in {"provision", "revoke", "grant"}, Authenticate(r, kind, k)
      PROVE  KeyInv'
  <2>1. key[k].state = "in" /\ key' = key /\ held' = held /\ tried' = tried
    BY <1>1 DEF Authenticate, KeyInv
  <2>2. /\ \A s \in Requests \ {r} : request'[s] = request[s]
        /\ request'[r].made = request[r].made /\ request[r].phase = "new"
        /\ \/ request'[r].phase = "done" /\ request'[r].org = request[r].org
           \/ request'[r].phase = "known" /\ request'[r].by = k /\ request'[r].org = key[k].org
    <3>1. request[r] \in RequestRows /\ request[r].phase = "new"
      BY <1>1 DEF Authenticate, TypeOK
    <3>2. \/ request' = [request EXCEPT ![r] = [request[r] EXCEPT !.phase = "done", !.kind = kind]]
          \/ request' = [request EXCEPT ![r] = [request[r] EXCEPT !.phase = "known", !.kind = kind, !.by = k,
                                              !.org = key[k].org, !.scopes = key[k].scopes]]
      BY <1>1 DEF Authenticate, Step
    <3>3. \A s \in Requests \ {r} : request'[s] = request[s]
      BY <3>2 DEF TypeOK
    <3>4. \/ request'[r] = [request[r] EXCEPT !.phase = "done", !.kind = kind]
          \/ request'[r] = [request[r] EXCEPT !.phase = "known", !.kind = kind, !.by = k,
                                              !.org = key[k].org, !.scopes = key[k].scopes]
      BY <3>2 DEF TypeOK
    <3> QED
      BY <3>1, <3>3, <3>4 DEF RequestRows
  <2>3. k # 0 /\ key[k].org # 0 /\ key[key[k].org].state # "absent"
    BY <2>1 DEF KeyInv, RowInv, KeyIds
  <2>4. AskInv(r)'
    BY <2>1, <2>2, <2>3 DEF KeyInv, AskInv
  <2> QED
    BY <2>1, <2>2, <2>4, Stays
<1>2. ASSUME NEW r \in Requests, NEW kind \in {"bootstrap", "mint"}, NEW scopes \in RootScopes \cup {Founder},
             Found(r, kind, scopes)
      PROVE  KeyInv'
  <2> DEFINE row == [state |-> "open", org |-> NextKey, agent |-> NextKey, scopes |-> scopes, revoked |-> FALSE]
  <2>1. request[r].made = 0 /\ Inserts(r, row, kind)
    BY <1>2 DEF Found, KeyInv, AskInv
  <2>2. NextKey # 0
    BY <2>1, KeyLeft DEF KeyIds
  <2>3. row.state = "open" /\ row.org # 0 /\ row.org = NextKey
    BY <2>2
  <2> HIDE DEF row
  <2> QED
    BY <2>1, <2>3, InsertsInv
<1>3. ASSUME NEW r \in Requests, Provision(r) PROVE KeyInv'
  <2> DEFINE row == [state |-> "open", org |-> request[r].org, agent |-> NextKey,
                     scopes |-> Ordinary, revoked |-> FALSE]
  <2>1. request[r].made = 0 /\ request[r].org # 0 /\ Inserts(r, row, "provision")
    BY <1>3 DEF Provision, KeyInv, AskInv
  <2>2. row.state = "open" /\ row.org # 0 /\ row.org = request[r].org
    BY <2>1
  <2> HIDE DEF row
  <2> QED
    BY <2>1, <2>2, InsertsInv
<1>4. ASSUME NEW r \in Requests, CommitKey(r) PROVE KeyInv'
  <2>1. AskInv(r) /\ request[r].phase = "open" /\ request[r].made \in KeyIds
    BY <1>4, Within DEF CommitKey, KeyInv, AskInv
  <2>2. key[request[r].made].state = "open"
    BY <2>1 DEF AskInv
  <2>3. /\ \A k \in KeyIds : \/ key'[k] = key[k]
                             \/ k = request[r].made /\ key'[k].state = "in" /\ key'[k].org = key[k].org
        /\ key'[request[r].made].state = "in" /\ held' = held /\ tried' = tried
    <3>1. \A k \in KeyIds : key[k] \in KeyRows
      BY DEF TypeOK
    <3>2. key' = [key EXCEPT ![request[r].made].state = "in"] /\ held' = held /\ tried' = tried
      BY <1>4 DEF CommitKey
    <3>3. [key[request[r].made] EXCEPT !.state = "in"].state = "in"
          /\ [key[request[r].made] EXCEPT !.state = "in"].org = key[request[r].made].org
      BY <2>1, <3>1 DEF KeyRows
    <3> DEFINE m == request[r].made
               row == [key[m] EXCEPT !.state = "in"]
    <3>4. m \in KeyIds /\ key' = [key EXCEPT ![m] = row] /\ row.state = "in" /\ row.org = key[m].org
      BY <2>1, <3>2, <3>3
    <3> HIDE DEF m, row
    <3>5. (\A k \in KeyIds \ {m} : key'[k] = key[k]) /\ key'[m] = row
      BY <3>4 DEF TypeOK
    <3>6. m = request[r].made
      BY DEF m
    <3> QED
      BY <3>2, <3>4, <3>5, <3>6
  <2>4. /\ \A s \in Requests \ {r} : request'[s] = request[s]
        /\ request'[r] = [request[r] EXCEPT !.phase = "committed"]
    BY <1>4 DEF CommitKey, Step, TypeOK
  <2>5. /\ request'[r].made = request[r].made /\ request'[r].org = request[r].org
        /\ request'[r].phase = "committed"
    BY <2>4 DEF TypeOK, RequestRows
  <2>6. AskInv(r)'
    <3>1. request[r].org # 0 => key'[request[r].org].state # "absent"
      <4>1. request[r].org # 0 => request[r].org \in KeyIds
        BY Within
      <4> QED
        BY <2>1, <2>3, <4>1 DEF AskInv
    <3> QED
      BY <2>1, <2>3, <2>4, <2>5, <3>1 DEF AskInv
  <2>7. (\A k \in KeyIds : RowInv(k)') /\ (\A s \in Requests : AskInv(s)')
    BY <2>2, <2>3, <2>4, <2>5, <2>6, Moves
  <2>8. \A k \in held' : key'[k].state = "in"
    BY <2>3 DEF KeyInv, TypeOK
  <2> QED
    BY <2>3, <2>7, <2>8 DEF KeyInv
<1>5. ASSUME NEW r \in Requests, HandOut(r) PROVE KeyInv'
  <2>1. AskInv(r) /\ key[request[r].made].state = "in" /\ key' = key /\ tried' = tried
    BY <1>5 DEF HandOut, KeyInv, AskInv
  <2>2. AskInv(r)' /\ request'[r].made = request[r].made
    BY <1>5, <2>1, EndsAsk DEF HandOut
  <2>3. (\A k \in KeyIds : RowInv(k)') /\ (\A s \in Requests : AskInv(s)')
    BY <1>5, <2>1, <2>2, Moves, RequestEnds DEF HandOut
  <2> QED
    BY <1>5, <2>1, <2>3 DEF HandOut, KeyInv
<1>6. ASSUME NEW r \in Requests, NEW t \in KeyIds, RevokeRead(r, t) PROVE KeyInv'
  <2>1. key' = key /\ held' = held /\ tried' = tried
    BY <1>6 DEF RevokeRead
  <2>2. CASE Ends(r)
    BY <2>1, <2>2, EndsStays
  <2>3. CASE ~Ends(r)
    <3>1. /\ \A s \in Requests \ {r} : request'[s] = request[s]
          /\ request'[r].made = request[r].made /\ request'[r].org = request[r].org
          /\ request'[r].by = request[r].by /\ request'[r].phase = "revoking" /\ request'[r].target = t
      <4>1. request[r] \in RequestRows
        BY DEF TypeOK
      <4>2. request' = [request EXCEPT ![r] = [request[r] EXCEPT !.phase = "revoking", !.target = t,
                                               !.stamps = t = request[r].by \/ ~key[t].revoked]]
        BY <1>6, <2>3 DEF RevokeRead, Step
      <4> QED
        BY <4>1, <4>2 DEF TypeOK, RequestRows
    <3>2. key[t].state = "in" /\ t # 0 /\ request[r].phase = "known"
      BY <1>6 DEF RevokeRead, KeyIds
    <3>3. AskInv(r)'
      BY <2>1, <3>1, <3>2 DEF KeyInv, AskInv
    <3> QED
      BY <2>1, <3>1, <3>3, Stays
  <2> QED
    BY <2>2, <2>3
<1>7. ASSUME NEW r \in Requests, RevokeCommit(r) PROVE KeyInv'
  <2>1. \A k \in KeyIds : key'[k].state = key[k].state /\ key'[k].org = key[k].org
    BY <1>7 DEF RevokeCommit, TypeOK, KeyRows
  <2>2. Ends(r) /\ held' = held /\ tried' = tried
    BY <1>7 DEF RevokeCommit
  <2> QED
    BY <2>1, <2>2, EndsStays
<1>8. ASSUME NEW r \in Requests, NEW s \in Requests, Deadlock(r, s) PROVE KeyInv'
  BY <1>8, EndsStays DEF Deadlock
<1>9. ASSUME NEW r \in Requests, NEW o \in KeyIds, NEW tiers \in GrantSets, GrantRead(r, o, tiers) PROVE KeyInv'
  <2>1. key' = key /\ held' = held /\ tried' = tried /\ o # 0 /\ request[r].phase = "known"
    BY <1>9 DEF GrantRead, KeyIds
  <2>2. /\ \A s \in Requests \ {r} : request'[s] = request[s]
        /\ request'[r].made = request[r].made /\ request'[r].org = request[r].org
        /\ request'[r].phase = "granting" /\ request'[r].target = o
    BY <1>9 DEF GrantRead, Step, TypeOK, RequestRows
  <2>3. AskInv(r)'
    BY <2>1, <2>2 DEF KeyInv, AskInv
  <2> QED
    BY <2>1, <2>2, <2>3, Stays
<1>10. ASSUME NEW r \in Requests, GrantCommit(r) PROVE KeyInv'
  BY <1>10, EndsStays DEF GrantCommit
<1>11. ASSUME NEW r \in Requests, Dies(r) PROVE KeyInv'
  <2>1. CASE request[r].phase # "open"
    <3>1. \A k \in KeyIds : key'[k] = key[k]
      BY <1>11, <2>1 DEF Dies
    <3> QED
      BY <1>11, <3>1, EndsStays DEF Dies
  <2>2. CASE request[r].phase = "open"
    <3>1. /\ request[r].made \in KeyIds /\ key[request[r].made].state = "open"
          /\ \A k \in KeyIds : \/ k # request[r].made /\ key'[k] = key[k]
                               \/ k = request[r].made /\ key'[k].state = "gone" /\ key'[k].org = 0
      <4>1. request[r].made \in KeyIds /\ key[request[r].made].state = "open"
        <5>1. AskInv(r)
          BY DEF KeyInv
        <5> QED
          BY <2>2, <5>1, Within DEF AskInv
      <4>2. key' = [k \in KeyIds |-> IF k = request[r].made THEN [NoKey EXCEPT !.state = "gone"] ELSE key[k]]
        BY <1>11, <2>2 DEF Dies
      <4> DEFINE lost == [NoKey EXCEPT !.state = "gone"]
      <4>3. lost.state = "gone" /\ lost.org = 0
        BY DEF NoKey
      <4> HIDE DEF lost
      <4>4. key' = [k \in KeyIds |-> IF k = request[r].made THEN lost ELSE key[k]]
        BY <4>2 DEF lost
      <4> QED
        BY <4>1, <4>3, <4>4
    <3>2. \A k \in KeyIds : key[k].state # "absent" => key'[k].state # "absent"
      BY <3>1
    <3>3. AskInv(r)' /\ request'[r].made = request[r].made /\ \A s \in Requests \ {r} : request'[s] = request[s]
      BY <1>11, <3>2, EndsAsk, RequestEnds DEF Dies
    <3>4. (\A k \in KeyIds : RowInv(k)') /\ (\A s \in Requests : AskInv(s)')
      BY <3>1, <3>3, Moves
    <3>5. held' = held /\ tried' = tried
      BY <1>11 DEF Dies
    <3>6. \A k \in held' : key'[k].state = "in"
      BY <3>1, <3>5 DEF KeyInv, TypeOK
    <3> QED
      BY <3>4, <3>5, <3>6 DEF KeyInv
  <2> QED
    BY <2>1, <2>2
<1> QED
  BY <1>0, <1>1, <1>2, <1>3, <1>4, <1>5, <1>6, <1>7, <1>8, <1>9, <1>10, <1>11 DEF Next

\* As it is at the beginning.
LEMMA InitHolds == Init => TypeOK /\ KeyInv /\ GrantInv
<1> SUFFICES ASSUME Init PROVE TypeOK /\ KeyInv /\ GrantInv
  OBVIOUS
<1> USE DEF Init
<1>1. /\ KeyIds \subseteq 1..MaxKeys /\ KeyIds \subseteq 0..MaxKeys /\ DOMAIN Founding \subseteq KeyIds
      /\ 0 \in 0..MaxKeys
  BY HowMany DEF KeyIds
<1>2. /\ \A k \in DOMAIN Founding : Founded(k) \in KeyRows
      /\ NoKey \in KeyRows /\ NewRequest \in RequestRows
  <2>1. \A k \in DOMAIN Founding : Founding[k] \in SUBSET Known /\ k \in 0..MaxKeys
    BY <1>1, AccessAssumption
  <2>2. \A k \in DOMAIN Founding : Founded(k) \in KeyRows
    BY <2>1 DEF Founded, KeyRows
  <2>3. NoKey \in KeyRows
    BY <1>1 DEF NoKey, KeyRows
  <2>4. NewRequest \in RequestRows
    BY <1>1 DEF NewRequest, RequestRows
  <2> QED
    BY <2>2, <2>3, <2>4
<1>3. TypeOK
  <2>1. <<>> \in Seq([org: KeyIds, tiers: SUBSET Tiers])
    OBVIOUS
  <2> QED
    BY <1>1, <1>2, <2>1 DEF TypeOK
<1>4. ASSUME NEW k \in KeyIds PROVE RowInv(k)
  <2>1. CASE k \in DOMAIN Founding
    BY <2>1, <1>1 DEF RowInv, Founded, KeyIds
  <2>2. CASE k \notin DOMAIN Founding
    BY <2>2 DEF RowInv, NoKey
  <2> QED
    BY <2>1, <2>2
<1>5. ASSUME NEW r \in Requests PROVE AskInv(r)
  BY DEF AskInv, NewRequest
<1>6. \A k \in held : key[k].state = "in"
  BY <1>1 DEF Founded
<1>7. GrantInv
  BY DEF GrantInv, NewRequest
<1> QED
  BY <1>3, <1>4, <1>5, <1>6, <1>7 DEF KeyInv

\* The type invariant and what it needs, at every step: every row and every
\* request is one of those the code makes, and every key is somebody's.
THEOREM AccessCorrect == Spec => [](TypeOK /\ KeyInv)
<1>1. Init => TypeOK /\ KeyInv
  BY InitHolds
<1>2. TypeOK /\ KeyInv /\ [Next]_vars => (TypeOK /\ KeyInv)'
  BY TypeStep, KeyInvStep
<1> QED
  BY <1>1, <1>2, PTL DEF Spec

\* A caller that presents a key it was handed is never told that there is no
\* such key: provision and bootstrap release their transaction before they
\* answer (auth.py, routes.py), however the requests are interleaved.
THEOREM KeysWork == Spec => []HandedOutKeysWork
<1>1. KeyInv => HandedOutKeysWork
  BY DEF KeyInv, HandedOutKeysWork
<1> QED
  BY <1>1, AccessCorrect, PTL

-----------------------------------------------------------------------------
(* An organization whose keys are all revoked.                             *)

\* What a step must not do to a burnt organization, and what follows.
LEMMA StaysBurnt ==
  ASSUME TypeOK, NEW o \in KeyIds, Burnt(o),
         \A k \in KeyIds : key[k].org = o => /\ key'[k].org = o /\ key'[k].state = "in" /\ key'[k].revoked,
         \A k \in KeyIds : key[k].org # o => key'[k].org # o,
         \A r \in Requests : \/ request'[r].org = request[r].org /\ request'[r].phase = request[r].phase
                             \/ request'[r].org = request[r].org /\ request'[r].phase = "done"
                             \/ request'[r].org # o
  PROVE  Burnt(o)'
BY DEF Burnt

\* A request of a burnt organization is over, and none is under way.
LEMMA OthersMove ==
  ASSUME TypeOK, NEW o \in KeyIds, Burnt(o), NEW r \in Requests, request[r].phase # "done",
         NEW row, Step(r, row), row.org = request[r].org
  PROVE  \A s \in Requests : \/ request'[s].org = request[s].org /\ request'[s].phase = request[s].phase
                             \/ request'[s].org # o
BY DEF Burnt, Step, TypeOK

\* A new key is not a burnt organization's.
LEMMA InsertsElsewhere ==
  ASSUME TypeOK, KeyInv, NEW o \in KeyIds, Burnt(o), NEW r \in Requests, NEW row, NEW kind,
         request[r].made = 0, request[r].phase # "done", Inserts(r, row, kind), row.org # o
  PROVE  Burnt(o)'
<1>1. NextKey \in KeyIds /\ key[NextKey].state = "absent"
  BY KeyLeft
<1>2. key' = [key EXCEPT ![NextKey] = row]
  BY DEF Inserts
<1>3. key'[NextKey] = row /\ \A k \in KeyIds \ {NextKey} : key'[k] = key[k]
  BY <1>1, <1>2 DEF TypeOK
<1>4. key[NextKey].org # o
  BY <1>1 DEF Burnt
<1>5. \A k \in KeyIds : key[k].org = o => key'[k].org = o /\ key'[k].state = "in" /\ key'[k].revoked
  BY <1>3, <1>4 DEF Burnt
<1>6. \A k \in KeyIds : key[k].org # o => key'[k].org # o
  BY <1>3
<1>7. \A s \in Requests : \/ request'[s].org = request[s].org /\ request'[s].phase = request[s].phase
                          \/ request'[s].org # o
  <2> DEFINE moved == [request[r] EXCEPT !.phase = "open", !.kind = kind, !.made = NextKey]
  <2>1. moved.org = request[r].org
    BY DEF TypeOK, RequestRows
  <2> HIDE DEF moved
  <2>2. Step(r, moved)
    BY DEF Inserts, moved
  <2> QED
    BY <2>1, <2>2, OthersMove
<1> QED
  BY <1>5, <1>6, <1>7, StaysBurnt

\* A step that leaves the keys alone, or loses and commits none of the
\* organization's, and lets one request go on or end.
LEMMA QuietlyBurnt ==
  ASSUME TypeOK, NEW o \in KeyIds, Burnt(o), NEW r \in Requests,
         \A s \in Requests \ {r} : request'[s] = request[s],
         request'[r].org = request[r].org, request'[r].phase = "done" \/ request[r].phase # "done",
         \A k \in KeyIds : key[k].org = o => key'[k].org = o /\ key'[k].state = "in" /\ key'[k].revoked,
         \A k \in KeyIds : key[k].org # o => key'[k].org # o
  PROVE  Burnt(o)'
<1>1. \A s \in Requests : \/ request'[s].org = request[s].org /\ request'[s].phase = request[s].phase
                          \/ request'[s].org = request[s].org /\ request'[s].phase = "done"
                          \/ request'[s].org # o
  BY DEF Burnt
<1> QED
  BY <1>1, StaysBurnt

\* The same when the request ends.
LEMMA EndsBurnt ==
  ASSUME TypeOK, NEW o \in KeyIds, Burnt(o), NEW r \in Requests, Ends(r),
         \A k \in KeyIds : key[k].org = o => key'[k].org = o /\ key'[k].state = "in" /\ key'[k].revoked,
         \A k \in KeyIds : key[k].org # o => key'[k].org # o
  PROVE  Burnt(o)'
<1>1. /\ \A s \in Requests \ {r} : request'[s] = request[s]
      /\ request'[r].org = request[r].org /\ request'[r].phase = "done"
  <2>1. request[r] \in RequestRows
    BY DEF TypeOK
  <2> QED
    BY <2>1, RequestEnds DEF RequestRows
<1> QED
  BY <1>1, QuietlyBurnt

\* Each step leaves a burnt organization burnt.
LEMMA BurntStep ==
  ASSUME TypeOK, KeyInv, [Next]_vars, NEW o \in KeyIds, Burnt(o)
  PROVE  Burnt(o)'
<1>k. \A k \in KeyIds : key[k].org = o => key[k].state = "in" /\ key[k].revoked
  BY DEF Burnt
<1>0. CASE UNCHANGED vars
  BY <1>0 DEF vars, Burnt
<1>1. ASSUME NEW r \in Requests, NEW k \in KeyIds, NEW kind \in {"provision", "revoke", "grant"}, Authenticate(r, kind, k)
      PROVE  Burnt(o)'
  <2>1. request[r].phase = "new" /\ key' = key
    BY <1>1 DEF Authenticate
  <2>2. CASE Principal(k)
    <3> DEFINE row == [request[r] EXCEPT !.phase = "known", !.kind = kind, !.by = k,
                                         !.org = key[k].org, !.scopes = key[k].scopes]
    <3>1. row.org = key[k].org /\ key[k].org # o
      BY <1>k, <2>2 DEF Principal, TypeOK, RequestRows
    <3> HIDE DEF row
    <3>2. request' = [request EXCEPT ![r] = row]
      BY <1>1, <2>2 DEF Authenticate, Step, row
    <3>3. request'[r].org # o /\ \A s \in Requests \ {r} : request'[s] = request[s]
      BY <3>1, <3>2 DEF TypeOK
    <3>4. \A s \in Requests : \/ request'[s].org = request[s].org /\ request'[s].phase = request[s].phase
                              \/ request'[s].org # o
      BY <3>3
    <3> QED
      BY <1>k, <2>1, <3>4, StaysBurnt
  <2>3. CASE ~Principal(k)
    <3> DEFINE row == [request[r] EXCEPT !.phase = "done", !.kind = kind]
    <3>1. row.org = request[r].org /\ row.phase = "done"
      BY DEF TypeOK, RequestRows
    <3> HIDE DEF row
    <3>2. request' = [request EXCEPT ![r] = row]
      BY <1>1, <2>3 DEF Authenticate, Step, row
    <3>3. request'[r] = row /\ \A s \in Requests \ {r} : request'[s] = request[s]
      BY <3>2 DEF TypeOK
    <3> QED
      BY <1>k, <2>1, <3>1, <3>3, QuietlyBurnt
  <2> QED
    BY <2>2, <2>3
<1>2. ASSUME NEW r \in Requests, NEW kind \in {"bootstrap", "mint"}, NEW scopes \in RootScopes \cup {Founder},
             Found(r, kind, scopes)
      PROVE  Burnt(o)'
  <2> DEFINE row == [state |-> "open", org |-> NextKey, agent |-> NextKey, scopes |-> scopes, revoked |-> FALSE]
  <2>1. request[r].made = 0 /\ request[r].phase # "done" /\ Inserts(r, row, kind)
    BY <1>2 DEF Found, KeyInv, AskInv
  <2>2. key[NextKey].state = "absent"
    BY <2>1, KeyLeft
  <2>3. key[o].state # "absent"
    <3>1. PICK k \in KeyIds : key[k].org = o
      BY DEF Burnt
    <3>2. RowInv(k) /\ key[k].state = "in"
      BY <1>k, <3>1 DEF KeyInv
    <3> QED
      BY <3>1, <3>2 DEF RowInv
  <2>4. row.org # o
    BY <2>2, <2>3
  <2> HIDE DEF row
  <2> QED
    BY <2>1, <2>4, InsertsElsewhere
<1>3. ASSUME NEW r \in Requests, Provision(r) PROVE Burnt(o)'
  <2> DEFINE row == [state |-> "open", org |-> request[r].org, agent |-> NextKey,
                     scopes |-> Ordinary, revoked |-> FALSE]
  <2>1. request[r].made = 0 /\ request[r].phase = "known" /\ Inserts(r, row, "provision")
    BY <1>3 DEF Provision, KeyInv, AskInv
  <2>2. row.org # o
    BY <2>1 DEF Burnt
  <2> HIDE DEF row
  <2> QED
    BY <2>1, <2>2, InsertsElsewhere
<1>4. ASSUME NEW r \in Requests, CommitKey(r) PROVE Burnt(o)'
  <2> DEFINE m == request[r].made
             row == [key[m] EXCEPT !.state = "in"]
  <2>1. request[r].phase = "open" /\ m \in KeyIds /\ key[m].state = "open"
    <3>1. AskInv(r) /\ request[r].phase = "open"
      BY <1>4 DEF KeyInv, CommitKey
    <3> QED
      BY <3>1, Within DEF AskInv
  <2>2. row.org = key[m].org /\ key' = [key EXCEPT ![m] = row]
    BY <1>4, <2>1 DEF CommitKey, TypeOK, KeyRows
  <2>3. /\ \A s \in Requests \ {r} : request'[s] = request[s]
        /\ request'[r].org = request[r].org
    BY <1>4 DEF CommitKey, Step, TypeOK, RequestRows
  <2> HIDE DEF m, row
  <2>4. key'[m] = row /\ \A k \in KeyIds \ {m} : key'[k] = key[k]
    BY <2>1, <2>2 DEF TypeOK
  <2>5. key[m].org # o
    BY <1>k, <2>1
  <2>6. /\ \A k \in KeyIds : key[k].org = o => key'[k].org = o /\ key'[k].state = "in" /\ key'[k].revoked
        /\ \A k \in KeyIds : key[k].org # o => key'[k].org # o
    BY <1>k, <2>2, <2>4, <2>5
  <2> QED
    BY <2>1, <2>3, <2>6, QuietlyBurnt
<1>5. ASSUME NEW r \in Requests, HandOut(r) PROVE Burnt(o)'
  BY <1>5, <1>k, EndsBurnt DEF HandOut
<1>6. ASSUME NEW r \in Requests, NEW t \in KeyIds, RevokeRead(r, t) PROVE Burnt(o)'
  <2>1. key' = key /\ request[r].phase = "known"
    BY <1>6 DEF RevokeRead
  <2>2. CASE Ends(r)
    BY <1>k, <2>1, <2>2, EndsBurnt
  <2>3. CASE ~Ends(r)
    <3>1. request' = [request EXCEPT ![r] = [request[r] EXCEPT !.phase = "revoking", !.target = t,
                                             !.stamps = t = request[r].by \/ ~key[t].revoked]]
      BY <1>6, <2>3 DEF RevokeRead, Step
    <3>2. request'[r].org = request[r].org /\ \A s \in Requests \ {r} : request'[s] = request[s]
      BY <3>1 DEF TypeOK, RequestRows
    <3> QED
      BY <1>k, <2>1, <3>2, QuietlyBurnt
  <2> QED
    BY <2>2, <2>3
<1>7. ASSUME NEW r \in Requests, RevokeCommit(r) PROVE Burnt(o)'
  <2>1. \A k \in KeyIds : key'[k].state = key[k].state /\ key'[k].org = key[k].org
    BY <1>7 DEF RevokeCommit, TypeOK, KeyRows
  <2>2. \A k \in KeyIds : key[k].revoked => key'[k].revoked
    BY <1>7 DEF RevokeCommit, TypeOK, KeyRows
  <2> QED
    BY <1>7, <1>k, <2>1, <2>2, EndsBurnt DEF RevokeCommit
<1>8. ASSUME NEW r \in Requests, NEW s \in Requests, Deadlock(r, s) PROVE Burnt(o)'
  BY <1>8, <1>k, EndsBurnt DEF Deadlock
<1>9. ASSUME NEW r \in Requests, NEW p \in KeyIds, NEW tiers \in GrantSets, GrantRead(r, p, tiers) PROVE Burnt(o)'
  <2>1. key' = key /\ request[r].phase = "known"
    BY <1>9 DEF GrantRead
  <2>2. request' = [request EXCEPT ![r] = [request[r] EXCEPT !.phase = "granting", !.target = p,
                                                            !.tiers = tiers, !.saw = Owned(p)]]
    BY <1>9 DEF GrantRead, Step
  <2>3. request'[r].org = request[r].org /\ \A s \in Requests \ {r} : request'[s] = request[s]
    BY <2>2 DEF TypeOK, RequestRows
  <2> QED
    BY <1>k, <2>1, <2>3, QuietlyBurnt
<1>10. ASSUME NEW r \in Requests, GrantCommit(r) PROVE Burnt(o)'
  BY <1>10, <1>k, EndsBurnt DEF GrantCommit
<1>11. ASSUME NEW r \in Requests, Dies(r) PROVE Burnt(o)'
  <2>1. CASE request[r].phase # "open"
    <3>1. \A k \in KeyIds : key'[k] = key[k]
      BY <1>11, <2>1 DEF Dies
    <3>2. /\ \A k \in KeyIds : key[k].org = o => key'[k].org = o /\ key'[k].state = "in" /\ key'[k].revoked
          /\ \A k \in KeyIds : key[k].org # o => key'[k].org # o
      BY <1>k, <3>1
    <3> QED
      BY <1>11, <3>2, EndsBurnt DEF Dies
  <2>2. CASE request[r].phase = "open"
    <3>1. request[r].made \in KeyIds /\ key[request[r].made].state = "open"
      BY <2>2, Within DEF KeyInv, AskInv
    <3> DEFINE lost == [NoKey EXCEPT !.state = "gone"]
    <3>2. lost.org = 0 /\ o # 0
      BY DEF NoKey, KeyIds
    <3>3. key' = [k \in KeyIds |-> IF k = request[r].made THEN lost ELSE key[k]]
      BY <1>11, <2>2 DEF Dies
    <3> HIDE DEF lost
    <3>4. key[request[r].made].org # o
      BY <1>k, <3>1
    <3>5. /\ \A k \in KeyIds : key[k].org = o => key'[k].org = o /\ key'[k].state = "in" /\ key'[k].revoked
          /\ \A k \in KeyIds : key[k].org # o => key'[k].org # o
      BY <1>k, <3>1, <3>2, <3>3, <3>4
    <3> QED
      BY <1>11, <3>5, EndsBurnt DEF Dies
  <2> QED
    BY <2>1, <2>2
<1> QED
  BY <1>0, <1>1, <1>2, <1>3, <1>4, <1>5, <1>6, <1>7, <1>8, <1>9, <1>10, <1>11 DEF Next

\* An organization whose keys are all revoked, and whose last request is over,
\* never gets a key that works again: no colleague is provisioned from before,
\* and no revocation that read the row earlier writes it back.
THEOREM NeverBack == Spec => BurntStaysBurnt
<1>1. TypeOK /\ KeyInv /\ [Next]_vars => [\A o \in KeyIds : Burnt(o) => Burnt(o)']_vars
  BY BurntStep
<1> QED
  BY <1>1, AccessCorrect, PTL DEF Spec, BurntStaysBurnt

-----------------------------------------------------------------------------
(* What an organization was granted last is what it has.                   *)

\* Where no grant is read or written.
LEMMA GrantsStay ==
  ASSUME GrantInv, grants' = grants, lastGrant' = lastGrant, met' = met,
         \A s \in Requests : request'[s].phase = "granting" => request'[s] = request[s]
  PROVE  GrantInv'
<1>1. \A r \in Requests, o \in KeyIds : request'[r].phase = "granting" /\ ~Meeting(r, o) => ~Meeting(r, o)'
  BY DEF Meeting
<1> QED
  BY <1>1 DEF GrantInv

\* A step of one request that is not at a grant afterwards.
LEMMA GrantsAside ==
  ASSUME TypeOK, GrantInv, grants' = grants, lastGrant' = lastGrant, met' = met,
         NEW r \in Requests, NEW row, Step(r, row), row.phase # "granting"
  PROVE  GrantInv'
BY GrantsStay DEF Step, TypeOK

\* Reading the row.
LEMMA GrantReadInv ==
  ASSUME TypeOK, GrantInv, NEW r \in Requests, NEW o \in KeyIds, NEW tiers \in GrantSets, GrantRead(r, o, tiers)
  PROVE  GrantInv'
<1>1. /\ \A s \in Requests \ {r} : request'[s] = request[s]
      /\ request'[r].phase = "granting" /\ request'[r].target = o /\ request'[r].saw = Owned(o)
      /\ request[r].phase = "known"
  <2> DEFINE row == [request[r] EXCEPT !.phase = "granting", !.target = o, !.tiers = tiers, !.saw = Owned(o)]
  <2>1. row.phase = "granting" /\ row.target = o /\ row.saw = Owned(o)
    BY Asked DEF RequestRows
  <2> HIDE DEF row
  <2>2. request' = [request EXCEPT ![r] = row]
    BY DEF GrantRead, Step, row
  <2> QED
    BY <2>1, <2>2 DEF GrantRead, TypeOK
<1>2. grants' = grants /\ lastGrant' = lastGrant /\ met' = IF Meeting(r, o) THEN met \cup {o} ELSE met
  BY DEF GrantRead
<1>3. ASSUME NEW s \in Requests, request'[s].phase = "granting", request'[s].saw # 0
      PROVE  request'[s].saw \in DOMAIN grants' /\ grants'[request'[s].saw].org = request'[s].target
  BY <1>1, <1>2, <1>3, OwnedIs DEF GrantInv
<1>4. ASSUME NEW p \in KeyIds \ met', NEW s \in Requests, request'[s].phase = "granting", request'[s].target = p
      PROVE  ~Meeting(s, p)' /\ (request'[s].saw = 0 => \A i \in DOMAIN grants : grants[i].org # p)
  <2>1. p \notin met
    BY <1>2
  <2>2. CASE s = r
    <3>1. p = o /\ ~Meeting(r, o)
      BY <1>1, <1>2, <1>4, <2>2
    <3> QED
      BY <1>1, <2>2, <3>1, OwnedIs DEF Meeting
  <2>3. CASE s # r
    <3>1. request'[s] = request[s] /\ s \in Requests \ {r}
      BY <1>1, <2>3
    <3>2. p # o
      BY <1>2, <1>4, <3>1 DEF Meeting
    <3>3. ~Meeting(s, p) /\ (request[s].saw = 0 => \A i \in DOMAIN grants : grants[i].org # p)
      BY <1>4, <2>1, <3>1 DEF GrantInv
    <3> QED
      BY <1>1, <3>1, <3>2, <3>3 DEF Meeting
  <2> QED
    BY <2>2, <2>3
<1>5. \A p \in KeyIds \ met' : p \in KeyIds \ met
  BY <1>2
<1> QED
  BY <1>2, <1>3, <1>4, <1>5 DEF GrantInv

\* Writing it.
LEMMA GrantCommitInv ==
  ASSUME TypeOK, KeyInv, GrantInv, NEW r \in Requests, GrantCommit(r)
  PROVE  GrantInv'
<1> DEFINE t == request[r].target
           tiers == request[r].tiers
           saw == request[r].saw
           row == [org |-> t, tiers |-> tiers]
<1>1. /\ request[r].phase = "granting" /\ t \in KeyIds /\ row.org = t /\ row.tiers = tiers
      /\ grants' = IF saw = 0 THEN Append(grants, row) ELSE [grants EXCEPT ![saw] = row]
      /\ lastGrant' = [lastGrant EXCEPT ![t] = tiers] /\ met' = met
  BY Within DEF GrantCommit, KeyInv, AskInv
<1>2. /\ \A s \in Requests \ {r} : request'[s] = request[s]
      /\ request'[r].phase = "done"
  BY RequestEnds, Asked DEF GrantCommit, RequestRows
<1>3. saw # 0 => saw \in DOMAIN grants /\ grants[saw].org = t
  BY <1>1 DEF GrantInv
<1>4. DOMAIN grants = 1..Len(grants) /\ Len(grants) \in Nat
  BY DEF TypeOK
<1>5. t \notin met => /\ saw = 0 => \A i \in DOMAIN grants : grants[i].org # t
                     /\ ~Meeting(r, t)
                     /\ \A i, j \in DOMAIN grants : grants[i].org = t /\ grants[j].org = t => i = j
  BY <1>1 DEF GrantInv
<1> HIDE DEF row, t, tiers, saw
\* n is the place of the row in the list.
<1> DEFINE n == IF saw = 0 THEN Len(grants) + 1 ELSE saw
<1>6. /\ DOMAIN grants' = DOMAIN grants \cup {n} /\ grants'[n] = row
      /\ \A i \in DOMAIN grants \ {n} : grants'[i] = grants[i]
      /\ n \in DOMAIN grants => grants[n].org = t
  <2>1. CASE saw = 0
    <3>1. grants' = Append(grants, row) /\ n = Len(grants) + 1
      BY <1>1, <2>1
    <3> QED
      BY <1>4, <3>1 DEF TypeOK
  <2>2. CASE saw # 0
    <3>1. grants' = [grants EXCEPT ![saw] = row] /\ n = saw /\ saw \in DOMAIN grants /\ grants[saw].org = t
      BY <1>1, <1>3, <2>2
    <3> QED
      BY <1>4, <3>1 DEF TypeOK
  <2> QED
    BY <2>1, <2>2
<1>7. t \notin met => \A i \in DOMAIN grants \ {n} : grants[i].org # t
  BY <1>3, <1>5
<1> HIDE DEF n
<1>8. ASSUME NEW s \in Requests, request'[s].phase = "granting", request'[s].saw # 0
      PROVE  request'[s].saw \in DOMAIN grants' /\ grants'[request'[s].saw].org = request'[s].target
  <2>1. request'[s] = request[s]
    BY <1>2, <1>8
  <2>2. request[s].saw \in DOMAIN grants /\ grants[request[s].saw].org = request[s].target
    BY <1>8, <2>1 DEF GrantInv
  <2> QED
    BY <1>1, <1>6, <2>1, <2>2
<1>9. ASSUME NEW o \in KeyIds \ met, NEW s \in Requests, request'[s].phase = "granting", request'[s].target = o
      PROVE  ~Meeting(s, o)' /\ (request'[s].saw = 0 => \A i \in DOMAIN grants' : grants'[i].org # o)
  <2>1. request'[s] = request[s] /\ s # r
    BY <1>2, <1>9
  <2>2. ~Meeting(s, o) /\ (request[s].saw = 0 => \A i \in DOMAIN grants : grants[i].org # o)
    BY <1>9, <2>1 DEF GrantInv
  <2>3. o # t
    BY <1>1, <1>9, <2>1, <2>2 DEF Meeting, t
  <2>4. request[s].saw = 0 => \A i \in DOMAIN grants' : grants'[i].org # o
    BY <1>1, <1>6, <2>2, <2>3
  <2> QED
    BY <1>2, <2>1, <2>2, <2>4 DEF Meeting
<1>10. ASSUME NEW o \in KeyIds \ met
       PROVE  /\ \A i, j \in DOMAIN grants' : grants'[i].org = o /\ grants'[j].org = o => i = j
              /\ \A i \in DOMAIN grants' : grants'[i].org = o => grants'[i].tiers = lastGrant'[o]
              /\ (\A i \in DOMAIN grants' : grants'[i].org # o) => lastGrant'[o] = {}
  <2>1. CASE o = t
    <3>1. \A i \in DOMAIN grants' : grants'[i].org = t <=> i = n
      BY <1>1, <1>6, <1>7, <2>1
    <3>2. lastGrant'[t] = tiers
      BY <1>1 DEF TypeOK
    <3> QED
      BY <1>1, <1>6, <2>1, <3>1, <3>2
  <2>2. CASE o # t
    <3>1. \A i \in DOMAIN grants' : grants'[i].org = o => i \in DOMAIN grants /\ grants'[i] = grants[i]
      BY <1>1, <1>6, <2>2
    <3>2. \A i \in DOMAIN grants : grants[i].org = o => i \in DOMAIN grants' /\ grants'[i] = grants[i]
      BY <1>1, <1>6, <2>2
    <3>3. lastGrant'[o] = lastGrant[o]
      BY <1>1, <2>2 DEF TypeOK
    <3>4. /\ \A i, j \in DOMAIN grants : grants[i].org = o /\ grants[j].org = o => i = j
          /\ \A i \in DOMAIN grants : grants[i].org = o => grants[i].tiers = lastGrant[o]
          /\ (\A i \in DOMAIN grants : grants[i].org # o) => lastGrant[o] = {}
      BY DEF GrantInv
    <3> QED
      BY <3>1, <3>2, <3>3, <3>4
  <2> QED
    BY <2>1, <2>2
<1> QED
  BY <1>1, <1>8, <1>9, <1>10 DEF GrantInv

\* Each step keeps the grants in order.
LEMMA GrantInvStep ==
  ASSUME TypeOK, KeyInv, GrantInv, [Next]_vars
  PROVE  GrantInv'
<1>0. CASE UNCHANGED vars
  BY <1>0, GrantsStay DEF vars
<1>p. \A r \in Requests : request[r] \in RequestRows
  BY DEF TypeOK
<1>e. ASSUME NEW r \in Requests, Ends(r), grants' = grants, lastGrant' = lastGrant, met' = met PROVE GrantInv'
  <2>1. [request[r] EXCEPT !.phase = "done"].phase # "granting"
    BY <1>p DEF RequestRows
  <2> QED
    BY <1>e, <2>1, GrantsAside DEF Ends
<1>i. ASSUME NEW r \in Requests, NEW row, NEW kind, Inserts(r, row, kind) PROVE GrantInv'
  <2>1. [request[r] EXCEPT !.phase = "open", !.kind = kind, !.made = NextKey].phase # "granting"
    BY <1>p DEF RequestRows
  <2> QED
    BY <1>i, <2>1, GrantsAside DEF Inserts
<1>1. ASSUME NEW r \in Requests, NEW k \in KeyIds, NEW kind \in {"provision", "revoke", "grant"}, Authenticate(r, kind, k)
      PROVE  GrantInv'
  <2>1. /\ [request[r] EXCEPT !.phase = "known", !.kind = kind, !.by = k,
                              !.org = key[k].org, !.scopes = key[k].scopes].phase # "granting"
        /\ [request[r] EXCEPT !.phase = "done", !.kind = kind].phase # "granting"
    BY <1>p DEF RequestRows
  <2>2. grants' = grants /\ lastGrant' = lastGrant /\ met' = met
    BY <1>1 DEF Authenticate
  <2> QED
    BY <1>1, <2>1, <2>2, GrantsAside DEF Authenticate
<1>2. ASSUME NEW r \in Requests, NEW kind \in {"bootstrap", "mint"}, NEW scopes \in RootScopes \cup {Founder},
             Found(r, kind, scopes)
      PROVE  GrantInv'
  BY <1>2, <1>i DEF Found
<1>3. ASSUME NEW r \in Requests, Provision(r) PROVE GrantInv'
  BY <1>3, <1>i DEF Provision
<1>4. ASSUME NEW r \in Requests, CommitKey(r) PROVE GrantInv'
  <2>1. [request[r] EXCEPT !.phase = "committed"].phase # "granting"
    BY <1>p DEF RequestRows
  <2> QED
    BY <1>4, <2>1, GrantsAside DEF CommitKey
<1>5. ASSUME NEW r \in Requests, HandOut(r) PROVE GrantInv'
  BY <1>5, <1>e DEF HandOut
<1>6. ASSUME NEW r \in Requests, NEW t \in KeyIds, RevokeRead(r, t) PROVE GrantInv'
  <2>1. [request[r] EXCEPT !.phase = "revoking", !.target = t,
                           !.stamps = t = request[r].by \/ ~key[t].revoked].phase # "granting"
    BY <1>p DEF RequestRows
  <2> QED
    BY <1>6, <1>e, <2>1, GrantsAside DEF RevokeRead
<1>7. ASSUME NEW r \in Requests, RevokeCommit(r) PROVE GrantInv'
  BY <1>7, <1>e DEF RevokeCommit
<1>8. ASSUME NEW r \in Requests, NEW s \in Requests, Deadlock(r, s) PROVE GrantInv'
  BY <1>8, <1>e DEF Deadlock
<1>11. ASSUME NEW r \in Requests, Dies(r) PROVE GrantInv'
  BY <1>11, <1>e DEF Dies
<1> QED
  BY <1>0, <1>1, <1>2, <1>3, <1>4, <1>5, <1>6, <1>7, <1>8, <1>11, GrantReadInv, GrantCommitInv DEF Next

\* Where no two grants to an organization ever overlapped, the tiers its leases
\* may run in are those of the last one, so that a grant taken back is gone.
THEOREM LastWins == Spec => []LastGrantCounts
<1>1. Init => TypeOK /\ KeyInv /\ GrantInv
  BY InitHolds
<1>2. TypeOK /\ KeyInv /\ GrantInv /\ [Next]_vars => (TypeOK /\ KeyInv /\ GrantInv)'
  BY TypeStep, KeyInvStep, GrantInvStep
<1>3. TypeOK /\ GrantInv => LastGrantCounts
  <2> SUFFICES ASSUME TypeOK, GrantInv, NEW o \in KeyIds \ met, NEW wanted \in Tiers \ {"quick"}, NEW verified \in BOOLEAN
               PROVE  Resolved(wanted, Granted(grants, o), verified) = wanted <=>
                        wanted \in lastGrant[o] /\ (wanted = "extended" => verified)
    BY DEF LastGrantCounts
  <2>1. /\ \A i, j \in DOMAIN grants : grants[i].org = o /\ grants[j].org = o => i = j
        /\ \A i \in DOMAIN grants : grants[i].org = o => grants[i].tiers = lastGrant[o]
        /\ (\A i \in DOMAIN grants : grants[i].org # o) => lastGrant[o] = {}
    BY DEF GrantInv
  <2>2. wanted \in Granted(grants, o) <=> wanted \in lastGrant[o]
    BY <2>1 DEF Granted
  <2> QED
    BY <2>2 DEF Resolved, Tiers
<1> QED
  BY <1>1, <1>2, <1>3, PTL DEF Spec
=============================================================================
