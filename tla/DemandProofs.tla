---------------------------- MODULE DemandProofs ----------------------------
(***************************************************************************)
(* Proofs about Demand for any number of requests, buckets and needs, any  *)
(* limits and windows, and any number of crashes.                          *)
(***************************************************************************)
EXTENDS Demand, FiniteSetTheorems, WellFoundedInduction, TLAPS

-----------------------------------------------------------------------------
(* Sums. A total is a number of marks, as many for each element as it      *)
(* counts, and marks are a finite set.                                     *)

Marks(f, S) == UNION {{x} \X (1..f[x]) : x \in S}

\* Of any sets of members of a finite set there is one with none of the others
\* an element below it: what holds of a set if it holds of those below it holds
\* of every set.
LEMMA Smallest ==
  ASSUME NEW S, IsFiniteSet(S), NEW Bad \in SUBSET SUBSET S, Bad # {}
  PROVE  \E T \in Bad : \A x \in T : T \ {x} \notin Bad
<1>1. Bad \subseteq FiniteSubsetsOf(S)
  BY FS_Subset DEF FiniteSubsetsOf
<1>2. PICK T \in Bad : \A U \in Bad : <<U, T>> \notin StrictSubsetOrdering(S)
  BY <1>1, FS_StrictSubsetOrderingWellFounded, WFMin
<1>3. ASSUME NEW x \in T, T \ {x} \in Bad PROVE FALSE
  <2>1. <<T \ {x}, T>> \in StrictSubsetOrdering(S)
    BY <1>3 DEF StrictSubsetOrdering
  <2> QED
    BY <1>2, <1>3, <2>1
<1> QED
  BY <1>3

\* The marks of a finite set are finite, and each element adds what it counts.
LEMMA MarksOf ==
  ASSUME NEW S, NEW f, IsFiniteSet(S), \A x \in S : f[x] \in Nat
  PROVE  /\ Marks(f, {}) = {}
         /\ IsFiniteSet(Marks(f, S)) /\ Cardinality(Marks(f, S)) \in Nat
         /\ \A x \in S : /\ Cardinality(Marks(f, S \ {x})) \in Nat
                         /\ Cardinality(Marks(f, S)) = f[x] + Cardinality(Marks(f, S \ {x}))
<1>1. Marks(f, {}) = {}
  BY DEF Marks
<1>2. ASSUME NEW T \in SUBSET S, NEW x \in T, IsFiniteSet(Marks(f, T \ {x}))
      PROVE  IsFiniteSet(Marks(f, T)) /\ Cardinality(Marks(f, T)) = f[x] + Cardinality(Marks(f, T \ {x}))
  <2> DEFINE more == {x} \X (1..f[x])
             rest == Marks(f, T \ {x})
  <2>1. f[x] \in Nat
    OBVIOUS
  <2>2. IsFiniteSet(1..f[x]) /\ Cardinality(1..f[x]) = f[x]
    BY <2>1, FS_Interval
  <2>3. IsFiniteSet({x}) /\ Cardinality({x}) = 1
    BY FS_Singleton
  <2>4. IsFiniteSet(more) /\ Cardinality(more) = f[x]
    BY <2>1, <2>2, <2>3, FS_Product
  <2>5. Marks(f, T) = rest \cup more /\ rest \cap more = {}
    BY DEF Marks
  <2>6. IsFiniteSet(rest) /\ Cardinality(rest) \in Nat
    BY <1>2, FS_CardinalityType
  <2> HIDE DEF more, rest
  <2>7. IsFiniteSet(rest \cup more) /\ Cardinality(rest \cup more) = Cardinality(rest) + Cardinality(more) - 0
    BY <2>4, <2>5, <2>6, FS_Union, FS_EmptySet
  <2> QED
    BY <2>1, <2>4, <2>5, <2>6, <2>7 DEF rest
<1>3. \A T \in SUBSET S : IsFiniteSet(Marks(f, T))
  <2> DEFINE Bad == {T \in SUBSET S : ~IsFiniteSet(Marks(f, T))}
  <2>1. SUFFICES ASSUME Bad # {} PROVE FALSE
    OBVIOUS
  <2>2. PICK T \in Bad : \A x \in T : T \ {x} \notin Bad
    BY <2>1, Smallest
  <2>3. T # {}
    BY <1>1, <2>2, FS_EmptySet
  <2> QED
    BY <1>2, <2>2, <2>3
<1> QED
  BY <1>1, <1>2, <1>3, FS_CardinalityType

\* What the fold of a total adds up, in whatever order, are the marks.
LEMMA TotalIs ==
  ASSUME NEW f, NEW S, S = DOMAIN f, IsFiniteSet(S), \A x \in S : f[x] \in Nat
  PROVE  Total(f) = Cardinality(Marks(f, S))
<1> DEFINE Picked(s) == CHOOSE x \in s : TRUE
           Step(g) == [s \in SUBSET S |-> IF s = {} THEN 0 ELSE f[Picked(s)] + g[s \ {Picked(s)}]]
           G == [s \in SUBSET S |-> Cardinality(Marks(f, s))]
           iter == CHOOSE g : g = Step(g)
<1>1. Total(f) = iter[S]
  BY DEF Total, MapThenSumSet, MapThenFoldSet
<1>2. G = Step(G)
  <2>1. ASSUME NEW s \in SUBSET S, s # {} PROVE  G[s] = f[Picked(s)] + G[s \ {Picked(s)}]
    <3>1. Picked(s) \in s /\ s \ {Picked(s)} \in SUBSET S
      BY <2>1
    <3>2. IsFiniteSet(s)
      BY FS_Subset
    <3> HIDE DEF Picked
    <3> QED
      BY <3>1, <3>2, MarksOf
  <2>2. G[{}] = 0
    BY MarksOf, FS_EmptySet
  <2> HIDE DEF Picked
  <2> QED
    BY <2>1, <2>2
<1>3. iter = Step(iter)
  <2> HIDE DEF G, Step
  <2> QED
    BY <1>2
<1>4. \A s \in SUBSET S : iter[s] = G[s]
  <2> HIDE DEF iter
  <2> DEFINE Bad == {s \in SUBSET S : iter[s] # G[s]}
  <2>1. SUFFICES ASSUME Bad # {} PROVE FALSE
    OBVIOUS
  <2>2. PICK T \in Bad : \A x \in T : T \ {x} \notin Bad
    BY <2>1, Smallest
  <2>3. CASE T = {}
    BY <1>2, <1>3, <2>2, <2>3
  <2>4. CASE T # {}
    <3>1. Picked(T) \in T /\ T \ {Picked(T)} \in SUBSET S /\ T \in SUBSET S
      BY <2>4
    <3>2. iter[T \ {Picked(T)}] = G[T \ {Picked(T)}]
      BY <2>2, <3>1
    <3> HIDE DEF Picked, G
    <3>3. iter[T] = f[Picked(T)] + iter[T \ {Picked(T)}]
      BY <1>3, <2>4, <3>1
    <3>4. G[T] = f[Picked(T)] + G[T \ {Picked(T)}]
      BY <1>2, <2>4, <3>1
    <3> QED
      BY <2>2, <3>2, <3>3, <3>4
  <2> QED
    BY <2>3, <2>4
<1> QED
  BY <1>1, <1>4

\* A total is a number, and nothing only where everything counts nothing.
LEMMA TotalType ==
  ASSUME NEW S, IsFiniteSet(S), NEW f \in [S -> Nat]
  PROVE  Total(f) \in Nat /\ (Total(f) = 0 <=> \A x \in S : f[x] = 0)
<1>1. DOMAIN f = S /\ \A x \in S : f[x] \in Nat
  OBVIOUS
<1>2. Total(f) = Cardinality(Marks(f, S))
  BY <1>1, TotalIs
<1>3. Marks(f, S) = {} <=> \A x \in S : f[x] = 0
  <2>1. ASSUME NEW x \in S, f[x] # 0 PROVE Marks(f, S) # {}
    <3>1. f[x] \in Nat /\ 1 \in 1..f[x]
      BY <2>1
    <3>2. <<x, 1>> \in Marks(f, S)
      BY <3>1 DEF Marks
    <3> QED
      BY <3>2
  <2>2. ASSUME \A x \in S : f[x] = 0 PROVE Marks(f, S) = {}
    BY <2>2 DEF Marks
  <2> QED
    BY <2>1, <2>2
<1> QED
  BY <1>1, <1>2, <1>3, MarksOf, FS_EmptySet

\* One more of one element is one more in all.
LEMMA TotalUp ==
  ASSUME NEW S, IsFiniteSet(S), NEW f \in [S -> Nat], NEW i \in S
  PROVE  Total([f EXCEPT ![i] = @ + 1]) = Total(f) + 1
<1> DEFINE g == [f EXCEPT ![i] = @ + 1]
<1>1. g \in [S -> Nat] /\ g[i] = f[i] + 1 /\ f[i] \in Nat /\ \A x \in S \ {i} : g[x] = f[x]
  OBVIOUS
<1> HIDE DEF g
<1>2. Total(f) = Cardinality(Marks(f, S)) /\ Total(g) = Cardinality(Marks(g, S))
  BY <1>1, TotalIs
<1>3. Marks(g, S \ {i}) = Marks(f, S \ {i})
  BY <1>1 DEF Marks
<1>4. /\ Cardinality(Marks(f, S)) = f[i] + Cardinality(Marks(f, S \ {i}))
      /\ Cardinality(Marks(f, S \ {i})) \in Nat
  BY MarksOf
<1>5. Cardinality(Marks(g, S)) = g[i] + Cardinality(Marks(g, S \ {i}))
  BY <1>1, MarksOf
<1> QED
  BY <1>1, <1>2, <1>3, <1>4, <1>5 DEF g

-----------------------------------------------------------------------------
(* Stretches of time.                                                      *)

\* The moments of a stretch.
Stretch(from, length) == Times \cap from..(from + length - 1)

\* What is counted in a stretch is the marks of its moments.
LEMMA WithinIs ==
  ASSUME NEW c \in [Times -> Nat], NEW from \in Int, NEW n \in Nat
  PROVE  /\ IsFiniteSet(Stretch(from, n))
         /\ [t \in Stretch(from, n) |-> c[t]] \in [Stretch(from, n) -> Nat]
         /\ Within(c, from, n) = Total([t \in Stretch(from, n) |-> c[t]])
         /\ Within(c, from, n) = Cardinality(Marks(c, Stretch(from, n)))
         /\ IsFiniteSet(Marks(c, Stretch(from, n)))
         /\ Within(c, from, n) \in Nat
<1> DEFINE R == Stretch(from, n)
           f == [t \in R |-> c[t]]
<1>1. R \subseteq Times /\ IsFiniteSet(R)
  <2>1. IsFiniteSet(Times)
    BY DemandAssumption, FS_Interval DEF Times
  <2>2. R \in SUBSET Times
    BY DEF Stretch
  <2> QED
    BY <2>1, <2>2, FS_Subset
<1>2. f \in [R -> Nat]
  BY <1>1
<1>3. Within(c, from, n) = Total(f)
  BY DEF Within, Stretch
<1> HIDE DEF R
<1>4. Marks(f, R) = Marks(c, R)
  BY DEF Marks
<1>5. Total(f) = Cardinality(Marks(f, R))
  BY <1>1, <1>2, TotalIs
<1>6. IsFiniteSet(Marks(f, R)) /\ Cardinality(Marks(f, R)) \in Nat
  BY <1>1, <1>2, MarksOf
<1> QED
  BY <1>1, <1>2, <1>3, <1>4, <1>5, <1>6 DEF R

\* One more at one moment is one more in the stretches it belongs to.
LEMMA WithinUp ==
  ASSUME NEW c \in [Times -> Nat], NEW from \in Int, NEW n \in Nat, NEW i \in Times
  PROVE  Within([c EXCEPT ![i] = @ + 1], from, n) =
           Within(c, from, n) + IF i \in from..(from + n - 1) THEN 1 ELSE 0
<1> DEFINE R == Stretch(from, n)
           d == [c EXCEPT ![i] = @ + 1]
           f == [t \in R |-> c[t]]
           g == [t \in R |-> d[t]]
<1>1. d \in [Times -> Nat]
  OBVIOUS
<1>2. /\ IsFiniteSet(R) /\ f \in [R -> Nat] /\ Within(c, from, n) = Total(f) /\ Total(f) \in Nat
      /\ Within(d, from, n) = Total(g)
  BY <1>1, WithinIs
<1>3. CASE i \in R
  <2>1. g = [f EXCEPT ![i] = @ + 1]
    BY <1>3 DEF Stretch
  <2>2. i \in from..(from + n - 1)
    BY <1>3 DEF Stretch
  <2> HIDE DEF f, g, R
  <2>3. Total(g) = Total(f) + 1
    BY <1>2, <1>3, <2>1, TotalUp
  <2> QED
    BY <1>2, <2>2, <2>3
<1>4. CASE i \notin R
  <2>1. g = f
    BY <1>4 DEF Stretch
  <2>2. i \notin from..(from + n - 1)
    BY <1>4 DEF Stretch
  <2> HIDE DEF f, g, R
  <2> QED
    BY <1>2, <2>1, <2>2
<1> QED
  BY <1>3, <1>4

\* Nothing is counted where nothing came.
LEMMA WithinNothing ==
  ASSUME NEW c \in [Times -> Nat], NEW from \in Int, NEW n \in Nat,
         \A t \in Times : t >= from => c[t] = 0
  PROVE  Within(c, from, n) = 0
<1> DEFINE R == Stretch(from, n)
           f == [t \in R |-> c[t]]
<1>1. IsFiniteSet(R) /\ f \in [R -> Nat] /\ Within(c, from, n) = Total(f)
  BY WithinIs
<1>2. \A t \in R : f[t] = 0
  BY DemandAssumption DEF Stretch, Times
<1> HIDE DEF R, f
<1> QED
  BY <1>1, <1>2, TotalType

\* What is within two stretches together is no more than what is in both.
LEMMA WithinTwo ==
  ASSUME NEW c \in [Times -> Nat], NEW a \in Int, NEW b \in Int, NEW from \in Int, NEW n \in Nat,
         from..(from + n - 1) \subseteq (a..(a + n - 1)) \cup (b..(b + n - 1))
  PROVE  Within(c, from, n) <= Within(c, a, n) + Within(c, b, n)
<1> DEFINE A == Marks(c, Stretch(a, n))
           B == Marks(c, Stretch(b, n))
           C == Marks(c, Stretch(from, n))
<1>1. /\ IsFiniteSet(A) /\ Within(c, a, n) = Cardinality(A)
      /\ IsFiniteSet(B) /\ Within(c, b, n) = Cardinality(B)
      /\ IsFiniteSet(C) /\ Within(c, from, n) = Cardinality(C)
  BY WithinIs
<1>2. Stretch(from, n) \subseteq Stretch(a, n) \cup Stretch(b, n)
  BY DEF Stretch
<1>3. C \subseteq A \cup B
  BY <1>2 DEF Marks
<1> HIDE DEF A, B, C
<1>4. IsFiniteSet(A \cup B) /\ Cardinality(A \cup B) = Cardinality(A) + Cardinality(B) - Cardinality(A \cap B)
  BY <1>1, FS_Union
<1>5. C \in SUBSET (A \cup B) /\ A \cap B \in SUBSET A
  BY <1>3
<1>6. Cardinality(C) <= Cardinality(A \cup B)
  BY <1>4, <1>5, FS_Subset
<1>7. IsFiniteSet(A \cap B)
  BY <1>1, <1>5, FS_Subset
<1>8. Cardinality(A) \in Nat /\ Cardinality(B) \in Nat /\ Cardinality(C) \in Nat /\ Cardinality(A \cap B) \in Nat
  BY <1>1, <1>7, FS_CardinalityType
<1> QED
  BY <1>1, <1>4, <1>6, <1>8

\* A multiple of a positive number that is below another one is below it by
\* that number at least.
LEMMA Multiples ==
  ASSUME NEW s \in Nat \ {0}, NEW j \in Int, NEW k \in Int, j < k
  PROVE  j * s + s <= k * s
<1>1. (k - j - 1) * s >= 0
  <2>1. k - j - 1 \in Nat
    OBVIOUS
  <2> QED
    BY <2>1
<1>2. (k - j - 1) * s = k * s - j * s - s
  OBVIOUS
<1>3. j * s \in Int /\ k * s \in Int
  OBVIOUS
<1> QED
  BY <1>1, <1>2, <1>3

\* A quotient is a number, and the only one whose multiple begins the window of its dividend.
LEMMA DivisionOf ==
  ASSUME NEW s \in Nat \ {0}, NEW t \in Nat
  PROVE  /\ t \div s \in Nat /\ (t \div s) * s \in Nat
         /\ (t \div s) * s <= t /\ t < (t \div s) * s + s
         /\ \A k \in Int : k * s <= t /\ t < k * s + s => k = t \div s
<1> DEFINE q == t \div s
<1>1. q \in Nat /\ q * s <= t /\ t < q * s + s
  OBVIOUS
<1> HIDE DEF q
<1>2. q * s \in Nat
  BY <1>1
<1>3. ASSUME NEW k \in Int, k * s <= t, t < k * s + s PROVE k = q
  <2>1. k * s \in Int
    OBVIOUS
  <2>2. ~(k < q)
    BY <1>1, <1>2, <1>3, <2>1, Multiples
  <2>3. ~(q < k)
    BY <1>1, <1>2, <1>3, <2>1, Multiples
  <2> QED
    BY <1>1, <2>2, <2>3
<1> QED
  BY <1>1, <1>2, <1>3 DEF q

\* The window of a moment begins with it or before, and ends after it; it is
\* the only one that does; and the windows of a bucket follow one another.
LEMMA Windows ==
  ASSUME NEW b \in Buckets, NEW t \in Nat
  PROVE  LET w == WindowStart(b, t) s == Seconds[b]
         IN  /\ s \in Nat \ {0} /\ w \in Nat /\ w <= t /\ t < w + s
             /\ \A v \in Nat : v = WindowStart(b, v) /\ v <= t /\ t < v + s => v = w
             /\ WindowStart(b, w) = w /\ WindowStart(b, w + s) = w + s
<1> DEFINE s == Seconds[b]
           w == WindowStart(b, t)
           q == t \div s
<1>1. s \in Nat \ {0}
  BY DemandAssumption
<1>2. w = q * s /\ \A v : WindowStart(b, v) = (v \div s) * s
  BY DEF WindowStart
<1> HIDE DEF s, w
<1>3. /\ q \in Nat /\ q * s \in Nat /\ q * s <= t /\ t < q * s + s
      /\ \A k \in Int : k * s <= t /\ t < k * s + s => k = q
  BY <1>1, DivisionOf
<1> HIDE DEF q
<1>4. ASSUME NEW v \in Nat, v = WindowStart(b, v), v <= t, t < v + s PROVE v = w
  <2>1. v = (v \div s) * s /\ v \div s \in Nat
    BY <1>1, <1>2, <1>4, DivisionOf
  <2>2. v \div s = q
    BY <1>3, <1>4, <2>1
  <2> QED
    BY <1>2, <2>1, <2>2
<1>5. WindowStart(b, w) = w
  <2>1. q = w \div s
    BY <1>1, <1>2, <1>3, DivisionOf
  <2> QED
    BY <1>2, <2>1
<1>6. WindowStart(b, w + s) = w + s
  <2>1. (q + 1) * s = w + s /\ q + 1 \in Int /\ w + s \in Nat
    BY <1>1, <1>2, <1>3
  <2>2. q + 1 = (w + s) \div s
    BY <1>1, <2>1, DivisionOf
  <2> QED
    BY <1>2, <2>1, <2>2
<1> QED
  BY <1>1, <1>2, <1>3, <1>4, <1>5, <1>6 DEF s, w

-----------------------------------------------------------------------------
(* The tables.                                                             *)

\* The smaller of two numbers.
LEMMA SmallerOfTwo ==
  ASSUME NEW i \in Int, NEW j \in Int
  PROVE  Min({i, j}) = IF i <= j THEN i ELSE j
<1>1. \A m \in {i, j} : (\A y \in {i, j} : m <= y) <=> m = IF i <= j THEN i ELSE j
  OBVIOUS
<1> QED
  BY <1>1 DEF Min

\* The best of any scores is 1 if one of them is.
LEMMA BestOf ==
  ASSUME NEW S \in SUBSET Scores, S # {}
  PROVE  Max(S) = (IF 1 \in S THEN 1 ELSE 0) /\ Max(S) \in S
<1>1. \A m \in S : (\A y \in S : m >= y) <=> m = IF 1 \in S THEN 1 ELSE 0
  BY DEF Scores
<1>2. (IF 1 \in S THEN 1 ELSE 0) \in S
  <2>1. PICK x : x \in S
    OBVIOUS
  <2>2. x = 0 \/ x = 1
    BY <2>1 DEF Scores
  <2> QED
    BY <2>1, <2>2
<1> QED
  BY <1>1, <1>2 DEF Max

\* There are only so many kinds of misses.
LEMMA KindsFinite == IsFiniteSet(Kinds)
<1> DEFINE P == (Needs \X Scores) \X Times
           kind == [p \in P |-> [need |-> p[1][1], score |-> p[1][2], stamp |-> p[2]]]
<1>1. IsFiniteSet(Needs) /\ IsFiniteSet(Scores) /\ IsFiniteSet(Times)
  <2>1. IsFiniteSet({0} \cup {1})
    BY FS_Singleton, FS_AddElement
  <2>2. IsFiniteSet(0..MaxTime)
    BY DemandAssumption, FS_Interval
  <2>3. Scores = {0} \cup {1}
    BY DEF Scores
  <2> QED
    BY <2>1, <2>2, <2>3, DemandAssumption DEF Times
<1>2. IsFiniteSet(P)
  <2>1. IsFiniteSet(Needs \X Scores)
    BY <1>1, FS_Product
  <2> QED
    BY <1>1, <2>1, FS_Product
<1>3. kind \in Surjection(P, Kinds)
  <2>1. kind \in [P -> Kinds]
    BY DEF Kinds
  <2>2. ASSUME NEW k \in Kinds PROVE \E p \in P : kind[p] = k
    <3>1. <<<<k.need, k.score>>, k.stamp>> \in P
      BY <2>2 DEF Kinds
    <3>2. kind[<<<<k.need, k.score>>, k.stamp>>] = k
      BY <2>2, <3>1 DEF Kinds
    <3> QED
      BY <3>1, <3>2
  <2> HIDE DEF kind, P
  <2> QED
    BY <2>1, <2>2 DEF Surjection
<1> HIDE DEF kind, P
<1> QED
  BY <1>2, <1>3, FS_Surjection

\* What a table of moments holds of a window is not older than a sweep keeps.
LEMMA SweepSpares ==
  ASSUME TypeOK, NEW b \in Buckets
  PROVE  LET o == WindowStart(b, clock)
         IN  o \in Times /\ ~(o < clock - Longest)
<1>1. clock \in Nat /\ clock \in Times
  BY DemandAssumption DEF TypeOK, Times
<1>2. Seconds[b] <= Longest /\ Longest \in Nat /\ MaxTime \in Nat
  BY DemandAssumption
<1> DEFINE o == WindowStart(b, clock)
<1>3. o \in Nat /\ o <= clock /\ clock < o + Seconds[b] /\ Seconds[b] \in Nat
  BY <1>1, Windows
<1> HIDE DEF o
<1> QED
  BY <1>1, <1>2, <1>3 DEF Times, o

\* The rows after a check: all of the right kind, one more in the open window of
\* the bucket, the same in the open windows of the others, nothing new elsewhere.
LEMMA HitsAfter ==
  ASSUME TypeOK, NEW c \in Buckets, NEW sweep \in BOOLEAN, Check(c, sweep)
  PROVE  /\ hits' \in [Buckets -> [Times -> Nat]]
         /\ came' \in [Buckets -> [Times -> Nat]] /\ let' \in [Buckets -> [Times -> Nat]]
         /\ \A b \in Buckets : hits'[b][WindowStart(b, clock)] =
              hits[b][WindowStart(b, clock)] + IF b = c THEN 1 ELSE 0
         /\ \A b \in Buckets, t \in Times :
              t > clock /\ hits[b][t] = 0 => hits'[b][t] = 0
<1> DEFINE w == WindowStart(c, clock)
           counted == [hits EXCEPT ![c][w] = @ + 1]
<1>1. w \in Times /\ clock \in Times /\ w <= clock /\ clock \in Nat
  <2>1. clock \in Times /\ clock \in Nat
    BY DemandAssumption DEF TypeOK, Times
  <2> QED
    BY <2>1, SweepSpares, Windows
<1>2. /\ hits \in [Buckets -> [Times -> Nat]] /\ came \in [Buckets -> [Times -> Nat]]
      /\ let \in [Buckets -> [Times -> Nat]]
  BY DEF TypeOK
<1>3. /\ hits' = IF sweep THEN SweptAt(counted, clock) ELSE counted
      /\ came' = [came EXCEPT ![c][clock] = @ + 1]
      /\ let' = [let EXCEPT ![c][clock] = @ + 1] \/ let' = let
  BY DEF Check
<1>4. \A b \in Buckets : WindowStart(b, clock) \in Times /\ ~(WindowStart(b, clock) < clock - Longest)
  BY SweepSpares
<1> HIDE DEF w
<1>5. counted \in [Buckets -> [Times -> Nat]]
  BY <1>1, <1>2
<1>6. \A b \in Buckets, t \in Times : counted[b][t] = IF b = c /\ t = w THEN hits[b][t] + 1 ELSE hits[b][t]
  BY <1>1, <1>2
<1> HIDE DEF counted
<1>7. /\ hits' \in [Buckets -> [Times -> Nat]]
      /\ \A b \in Buckets, t \in Times :
           hits'[b][t] = IF sweep /\ t < clock - Longest THEN 0 ELSE counted[b][t]
  <2>1. CASE sweep
    BY <1>3, <1>5, <2>1 DEF SweptAt, Swept
  <2>2. CASE ~sweep
    BY <1>3, <1>5, <2>2
  <2> QED
    BY <2>1, <2>2
<1>8. came' \in [Buckets -> [Times -> Nat]] /\ let' \in [Buckets -> [Times -> Nat]]
  <2>1. ASSUME NEW table \in [Buckets -> [Times -> Nat]]
        PROVE  [table EXCEPT ![c][clock] = @ + 1] \in [Buckets -> [Times -> Nat]]
    BY <1>1
  <2> QED
    BY <1>2, <1>3, <2>1
<1>9. ASSUME NEW b \in Buckets
      PROVE  hits'[b][WindowStart(b, clock)] = hits[b][WindowStart(b, clock)] + IF b = c THEN 1 ELSE 0
  <2>1. hits[b][WindowStart(b, clock)] \in Nat
    BY <1>2, <1>4
  <2>2. hits'[b][WindowStart(b, clock)] = counted[b][WindowStart(b, clock)]
    BY <1>4, <1>7
  <2>3. counted[b][WindowStart(b, clock)] =
          IF b = c /\ WindowStart(b, clock) = w THEN hits[b][WindowStart(b, clock)] + 1 ELSE hits[b][WindowStart(b, clock)]
    BY <1>4, <1>6
  <2> QED
    BY <2>1, <2>2, <2>3 DEF w
<1>10. ASSUME NEW b \in Buckets, NEW t \in Times, t > clock, hits[b][t] = 0 PROVE hits'[b][t] = 0
  <2>1. t # w
    BY <1>1, <1>10 DEF Times
  <2> QED
    BY <1>6, <1>7, <1>10, <2>1
<1> QED
  BY <1>7, <1>8, <1>9, <1>10

\* An upsert makes a row of a row.
LEMMA RowAfter ==
  ASSUME NEW k \in Kinds, NEW row \in [occurrences: Nat, best: Scores, first: Times, last: Times]
  PROVE  /\ Upserted(row, k) \in [occurrences: Nat, best: Scores, first: Times, last: Times]
         /\ Upserted(row, k).occurrences = row.occurrences + 1
         /\ Upserted(row, k).best = IF row.occurrences = 0 THEN k.score ELSE Max({row.best, k.score})
<1>1. k.score \in Scores /\ k.stamp \in Times
  BY DEF Kinds
<1>2. Max({row.best, k.score}) \in Scores
  BY <1>1, BestOf
<1>3. CASE row.occurrences = 0
  BY <1>1, <1>3 DEF Upserted
<1>4. CASE row.occurrences # 0
  <2>1. Upserted(row, k) = [row EXCEPT !.occurrences = @ + 1, !.best = Max({@, k.score}), !.last = k.stamp]
    BY <1>4 DEF Upserted
  <2>2. row.occurrences + 1 \in Nat /\ row.first \in Times
    OBVIOUS
  <2> QED
    BY <1>1, <1>2, <1>4, <2>1, <2>2
<1> QED
  BY <1>3, <1>4

\* What a sweep leaves of the rows, it leaves as they were.
LEMMA RowsKept ==
  ASSUME NEW rows \in [Needs -> [occurrences: Nat, best: Scores, first: Times, last: Times]], NEW t
  PROVE  /\ Kept(rows, t) \in [Needs -> [occurrences: Nat, best: Scores, first: Times, last: Times]]
         /\ \A n \in Needs : Kept(rows, t)[n] = NoMiss \/ Kept(rows, t)[n] = rows[n]
<1>1. NoMiss \in [occurrences: Nat, best: Scores, first: Times, last: Times]
  BY DemandAssumption DEF NoMiss, Scores, Times
<1> HIDE DEF NoMiss
<1> QED
  BY <1>1 DEF Kept

-----------------------------------------------------------------------------
(* Steps: a check, a tick, a crash, and what concerns the misses.          *)

\* The windows of the tables.
LimiterOK ==
  /\ clock \in Times /\ crashes \in 0..MaxCrashes
  /\ hits \in [Buckets -> [Times -> Nat]] /\ durable \in [Buckets -> [Times -> Nat]]
  /\ came \in [Buckets -> [Times -> Nat]] /\ let \in [Buckets -> [Times -> Nat]]

TelemetryOK ==
  /\ pending \in [Kinds -> Nat] /\ seen \in [Needs -> [Kinds -> Nat]]
  /\ misses \in [Needs -> [occurrences: Nat, best: Scores, first: Times, last: Times]]

\* Every variable is one or the other's.
LEMMA TypeParts == TypeOK <=> LimiterOK /\ TelemetryOK
  BY DEF TypeOK, LimiterOK, TelemetryOK

\* The clock is a number.
LEMMA ClockType ==
  ASSUME LimiterOK
  PROVE  clock \in Nat /\ clock \in Int /\ clock \in Times /\ clock <= MaxTime /\ MaxTime \in Nat
  BY DemandAssumption DEF LimiterOK, Times

\* Every step leaves the limiter's tables of their kinds.
LEMMA LimiterStep ==
  ASSUME TypeOK, [Next]_vars
  PROVE  LimiterOK'
<1> USE TypeParts
<1>1. LimiterOK
  OBVIOUS
<1>2. ASSUME NEW c \in Buckets, NEW sweep \in BOOLEAN, Check(c, sweep), UNCHANGED clock PROVE LimiterOK'
  <2>1. UNCHANGED <<durable, crashes>>
    BY <1>2 DEF Check
  <2> QED
    BY <1>1, <1>2, <2>1, HitsAfter DEF LimiterOK
<1>3. CASE Crash
  BY <1>1, <1>3, DemandAssumption DEF Crash, LimiterOK, telemetry
<1>4. CASE Tick
  <2>1. clock' = clock + 1 /\ clock < MaxTime /\ durable' = hits /\ UNCHANGED <<hits, came, let, crashes>>
    BY <1>4 DEF Tick
  <2>2. clock' \in Times
    BY <1>1, <2>1, DemandAssumption DEF LimiterOK, Times
  <2> QED
    BY <1>1, <2>1, <2>2 DEF LimiterOK
<1>5. CASE UNCHANGED <<clock, limiter>>
  BY <1>1, <1>5 DEF LimiterOK, limiter
<1>6. CASE UNCHANGED vars
  BY <1>5, <1>6 DEF vars
<1>7. CASE Next
  BY <1>2, <1>3, <1>4, <1>5, <1>7 DEF Next, Request, RecallMisses, MissRecorded, MissLost, RetentionSweeps
<1> QED
  BY <1>6, <1>7

\* And the misses, what waits to be written and what has been.
LEMMA TelemetryStep ==
  ASSUME TypeOK, [Next]_vars
  PROVE  TelemetryOK'
<1> USE TypeParts
<1>1. TelemetryOK /\ clock \in Times
  BY DEF LimiterOK
<1>2. ASSUME NEW log \in [Needs -> [Kinds -> Nat]] PROVE Account(log) \in [Needs -> [Kinds -> Nat]]
  BY DEF Account
<1>3. ASSUME NEW b \in Buckets, NEW sweep \in BOOLEAN, NEW n \in Needs, NEW s \in Scores,
             RecallMisses(b, sweep, n, s)
      PROVE  TelemetryOK'
  <2> DEFINE k == [need |-> n, score |-> s, stamp |-> clock]
  <2>1. k \in Kinds
    BY <1>1 DEF Kinds
  <2>2. pending' = [pending EXCEPT ![k] = @ + 1] /\ UNCHANGED telemetry
    BY <1>3 DEF RecallMisses
  <2> HIDE DEF k
  <2> QED
    BY <1>1, <2>1, <2>2 DEF TelemetryOK, telemetry
<1>4. ASSUME NEW k \in Kinds, pending[k] > 0 PROVE [pending EXCEPT ![k] = @ - 1] \in [Kinds -> Nat]
  BY <1>1, <1>4 DEF TelemetryOK
<1>5. ASSUME NEW k \in Kinds, NEW sweep \in BOOLEAN, MissRecorded(k, sweep) PROVE TelemetryOK'
  <2> DEFINE rows == [misses EXCEPT ![k.need] = Upserted(@, k)]
             log == [seen EXCEPT ![k.need][k] = @ + 1]
  <2>1. k.need \in Needs
    BY DEF Kinds
  <2>2. rows \in [Needs -> [occurrences: Nat, best: Scores, first: Times, last: Times]]
    <3>1. misses[k.need] \in [occurrences: Nat, best: Scores, first: Times, last: Times]
      BY <1>1, <2>1 DEF TelemetryOK
    <3>2. Upserted(misses[k.need], k) \in [occurrences: Nat, best: Scores, first: Times, last: Times]
      BY <3>1, RowAfter
    <3> QED
      BY <1>1, <2>1, <3>2 DEF TelemetryOK
  <2>3. log \in [Needs -> [Kinds -> Nat]]
    <3>1. seen[k.need] \in [Kinds -> Nat]
      BY <1>1, <2>1 DEF TelemetryOK
    <3> QED
      BY <1>1, <2>1, <3>1 DEF TelemetryOK
  <2>4. /\ pending[k] > 0 /\ pending' = [pending EXCEPT ![k] = @ - 1]
        /\ misses' = IF sweep THEN Kept(rows, clock) ELSE rows
        /\ seen' = Account(log)
    BY <1>5 DEF MissRecorded
  <2> HIDE DEF rows, log
  <2> QED
    BY <1>2, <1>4, <2>2, <2>3, <2>4, RowsKept DEF TelemetryOK
<1>6. ASSUME NEW k \in Kinds, MissLost(k) PROVE TelemetryOK'
  BY <1>1, <1>4, <1>6 DEF MissLost, TelemetryOK, telemetry
<1>7. CASE RetentionSweeps
  <2>1. misses' = Kept(misses, clock) /\ seen' = Account(seen) /\ UNCHANGED pending
    BY <1>7 DEF RetentionSweeps
  <2> QED
    BY <1>1, <1>2, <2>1, RowsKept DEF TelemetryOK
<1>8. CASE UNCHANGED <<telemetry, pending>>
  BY <1>1, <1>8 DEF TelemetryOK, telemetry
<1>9. CASE UNCHANGED vars
  BY <1>8, <1>9 DEF vars
<1>10. CASE Next
  BY <1>3, <1>5, <1>6, <1>7, <1>8, <1>10 DEF Next, Request, Crash, Tick
<1> QED
  BY <1>9, <1>10

\* Nothing is written of a time to come.
LEMMA NothingYetStep ==
  ASSUME TypeOK, NothingYet, [Next]_vars
  PROVE  NothingYet'
<1>0. LimiterOK /\ clock \in Int
  BY TypeParts, ClockType
<1>1. ASSUME NEW c \in Buckets, NEW sweep \in BOOLEAN, Check(c, sweep), UNCHANGED clock PROVE NothingYet'
  <2>1. UNCHANGED durable
    BY <1>1 DEF Check
  <2>2. ASSUME NEW b \in Buckets, NEW t \in Times, t > clock
        PROVE  hits'[b][t] = 0 /\ durable'[b][t] = 0 /\ came'[b][t] = 0 /\ let'[b][t] = 0
    <3>1. hits[b][t] = 0 /\ durable[b][t] = 0 /\ came[b][t] = 0 /\ let[b][t] = 0
      BY <2>2 DEF NothingYet
    <3>2. hits'[b][t] = 0
      BY <1>1, <2>2, <3>1, HitsAfter
    <3>3. came'[b][t] = 0 /\ let'[b][t] = 0
      <4>1. clock # t /\ clock \in Times
        BY <1>0, <2>2 DEF LimiterOK
      <4>2. ASSUME NEW table \in [Buckets -> [Times -> Nat]]
            PROVE  [table EXCEPT ![c][clock] = @ + 1][b][t] = table[b][t]
        BY <4>1
      <4>3. /\ came' = [came EXCEPT ![c][clock] = @ + 1]
            /\ let' = [let EXCEPT ![c][clock] = @ + 1] \/ let' = let
        BY <1>1 DEF Check
      <4> QED
        BY <1>0, <3>1, <4>2, <4>3 DEF LimiterOK
    <3> QED
      BY <2>1, <3>1, <3>2, <3>3
  <2> QED
    BY <1>1, <2>2 DEF NothingYet
<1>2. CASE Crash
  BY <1>2 DEF Crash, NothingYet, telemetry
<1>3. CASE Tick
  <2>1. clock' = clock + 1 /\ durable' = hits /\ UNCHANGED <<hits, came, let>>
    BY <1>3 DEF Tick
  <2>2. \A t \in Times : t > clock' => t > clock
    BY <1>0, <2>1, DemandAssumption DEF Times
  <2> QED
    BY <2>1, <2>2 DEF NothingYet
<1>4. CASE UNCHANGED <<clock, limiter>>
  BY <1>4 DEF NothingYet, limiter
<1>5. CASE UNCHANGED vars
  BY <1>4, <1>5 DEF vars
<1>6. CASE Next
  BY <1>1, <1>2, <1>3, <1>4, <1>6 DEF Next, Request, RecallMisses, MissRecorded, MissLost, RetentionSweeps
<1> QED
  BY <1>5, <1>6

-----------------------------------------------------------------------------
(* What a window lets through.                                             *)

\* The bounds of a window are numbers: what it has let through, and what it may
\* have, which is at most the limit, and at most that of one that is over.
LEMMA WindowType ==
  ASSUME LimiterOK, NEW b \in Buckets, NEW v \in Nat
  PROVE  /\ Spent(b, v) \in Nat /\ Limit[b] \in Nat \ {0} /\ crashes \in Nat /\ Seconds[b] \in Nat \ {0}
         /\ Allowed(b, v) \in Nat /\ Allowed(b, v) <= Limit[b]
         /\ v <= clock /\ WindowStart(b, clock) = v => Allowed(b, v) = IF hits[b][v] <= Limit[b] THEN hits[b][v] ELSE Limit[b]
<1>1. /\ Limit[b] \in Nat \ {0} /\ crashes \in Nat /\ Seconds[b] \in Nat \ {0} /\ clock \in Times /\ clock \in Nat
      /\ let[b] \in [Times -> Nat] /\ hits[b] \in [Times -> Nat]
  BY DemandAssumption DEF LimiterOK, Times
<1>2. Spent(b, v) \in Nat
  <2>1. v \in Int /\ Seconds[b] \in Nat
    BY <1>1
  <2> QED
    BY <1>1, <2>1, WithinIs DEF Spent
<1>3. CASE v > clock
  BY <1>1, <1>2, <1>3 DEF Allowed
<1>4. CASE ~(v > clock) /\ WindowStart(b, clock) # v
  BY <1>1, <1>2, <1>4 DEF Allowed
<1>5. CASE ~(v > clock) /\ WindowStart(b, clock) = v
  <2>1. Allowed(b, v) = Min({hits[b][v], Limit[b]})
    BY <1>5 DEF Allowed
  <2>2. v \in Times
    BY <1>1, <1>5, DemandAssumption DEF Times
  <2>3. hits[b][v] \in Nat
    BY <1>1, <2>2
  <2>4. Allowed(b, v) = IF hits[b][v] <= Limit[b] THEN hits[b][v] ELSE Limit[b]
    BY <1>1, <2>1, <2>3, SmallerOfTwo
  <2> QED
    BY <1>1, <1>2, <2>3, <2>4
<1> QED
  BY <1>3, <1>4, <1>5

\* A check adds to what the open window has let through only if it adds as much
\* to what it may have.
LEMMA CheckWindow ==
  ASSUME TypeOK, NEW c \in Buckets, NEW sweep \in BOOLEAN, Check(c, sweep), UNCHANGED clock, LimiterOK',
         NEW b \in Buckets, NEW v \in Nat, v = WindowStart(b, v)
  PROVE  \E more \in 0..1 : Spent(b, v)' = Spent(b, v) + more /\ Allowed(b, v)' = Allowed(b, v) + more
<1> DEFINE o == WindowStart(b, clock)
           admitted == hits[c][WindowStart(c, clock)] + 1 <= Limit[c]
<1>1. LimiterOK /\ clock \in Nat /\ clock \in Times
  BY TypeParts, ClockType
<1>2. o \in Times /\ o \in Nat /\ o <= clock /\ clock < o + Seconds[b] /\ (v <= clock /\ clock < v + Seconds[b] => v = o)
  BY <1>1, SweepSpares, Windows
<1>3. /\ hits'[b][o] = hits[b][o] + IF b = c THEN 1 ELSE 0
      /\ let' = IF admitted THEN [let EXCEPT ![c][clock] = @ + 1] ELSE let
  BY HitsAfter DEF Check
<1>4. /\ Spent(b, v) \in Nat /\ Limit[b] \in Nat \ {0} /\ Allowed(b, v) \in Nat
      /\ v = o => Allowed(b, v) = IF hits[b][v] <= Limit[b] THEN hits[b][v] ELSE Limit[b]
  BY <1>1, <1>2, WindowType
<1>5. v = o => Allowed(b, v)' = IF hits'[b][v] <= Limit[b] THEN hits'[b][v] ELSE Limit[b]
  <2>1. v <= clock' /\ WindowStart(b, clock') = v =>
          Allowed(b, v)' = IF hits'[b][v] <= Limit[b] THEN hits'[b][v] ELSE Limit[b]
    <3>1. ASSUME v <= clock', WindowStart(b, clock') = v
          PROVE  Allowed(b, v)' = IF hits'[b][v] <= Limit[b] THEN hits'[b][v] ELSE Limit[b]
      <4>1. Allowed(b, v)' = Min({hits'[b][v], Limit[b]})
        BY <1>1, <3>1 DEF Allowed
      <4>2. hits'[b][v] \in Nat
        BY <1>1, <1>2, <3>1 DEF LimiterOK
      <4> QED
        BY <1>4, <4>1, <4>2, SmallerOfTwo
    <3> QED
      BY <3>1
  <2> QED
    BY <1>2, <2>1
<1>6. v # o => Allowed(b, v)' = Allowed(b, v)
  BY DEF Allowed
<1>7. Spent(b, v) = Within(let[b], v, Seconds[b]) /\ Spent(b, v)' = Within(let'[b], v, Seconds[b])
  BY DEF Spent
<1>8. hits[b][o] \in Nat /\ let \in [Buckets -> [Times -> Nat]] /\ Seconds[b] \in Nat \ {0}
  BY <1>1, <1>2, DemandAssumption DEF LimiterOK
<1>9. CASE b # c
  <2>1. let'[b] = let[b]
    BY <1>3, <1>8, <1>9
  <2>2. Allowed(b, v)' = Allowed(b, v)
    BY <1>3, <1>4, <1>5, <1>6, <1>8, <1>9
  <2> QED
    BY <1>4, <1>7, <2>1, <2>2
<1>10. CASE b = c /\ ~admitted
  <2>1. let'[b] = let[b]
    BY <1>3, <1>10
  <2>2. ~(hits[b][o] + 1 <= Limit[b])
    BY <1>10
  <2>3. Allowed(b, v)' = Allowed(b, v)
    <3> HIDE DEF o
    <3> QED
      BY <1>3, <1>4, <1>5, <1>6, <1>8, <1>10, <2>2
  <2> QED
    BY <1>4, <1>7, <2>1, <2>3
<1>11. CASE b = c /\ admitted
  <2>1. let'[b] = [let[b] EXCEPT ![clock] = @ + 1]
    BY <1>1, <1>3, <1>8, <1>11
  <2>2. let[b] \in [Times -> Nat] /\ v \in Int /\ Seconds[b] \in Nat
    BY <1>8
  <2>3. Spent(b, v)' = Spent(b, v) + IF clock \in v..(v + Seconds[b] - 1) THEN 1 ELSE 0
    <3>1. Within([let[b] EXCEPT ![clock] = @ + 1], v, Seconds[b]) =
            Within(let[b], v, Seconds[b]) + IF clock \in v..(v + Seconds[b] - 1) THEN 1 ELSE 0
      BY <1>1, <2>2, WithinUp
    <3> QED
      BY <1>7, <2>1, <3>1
  <2>4. clock \in v..(v + Seconds[b] - 1) <=> v = o
    <3> HIDE DEF o
    <3> QED
      BY <1>1, <1>2, <1>8
  <2>5. hits[b][o] + 1 <= Limit[b]
    BY <1>11
  <2>6. Allowed(b, v)' = Allowed(b, v) + IF v = o THEN 1 ELSE 0
    <3> HIDE DEF o
    <3> QED
      BY <1>3, <1>4, <1>5, <1>6, <1>8, <1>11, <2>5
  <2> QED
    BY <1>4, <2>3, <2>4, <2>6
<1> QED
  BY <1>9, <1>10, <1>11

\* A window that a tick opens, or leaves open, or closes, may have no less than before.
LEMMA TickWindow ==
  ASSUME TypeOK, Tick, LimiterOK', NEW b \in Buckets, NEW v \in Nat, v = WindowStart(b, v)
  PROVE  Allowed(b, v)' \in Nat /\ Allowed(b, v) <= Allowed(b, v)'
<1>1. LimiterOK /\ clock \in Nat /\ clock' = clock + 1 /\ clock' <= MaxTime /\ hits' = hits
  BY TypeParts, ClockType DEF Tick
<1>2. Limit[b] \in Nat \ {0} /\ Seconds[b] \in Nat \ {0} /\ Allowed(b, v) \in Nat /\ Allowed(b, v) <= Limit[b]
  BY <1>1, WindowType
<1>3. Allowed(b, v)' \in Nat
  <2>1. CASE v > clock'
    BY <2>1 DEF Allowed
  <2>2. CASE ~(v > clock') /\ WindowStart(b, clock') # v
    BY <1>2, <2>2 DEF Allowed
  <2>3. CASE ~(v > clock') /\ WindowStart(b, clock') = v
    <3>1. Allowed(b, v)' = Min({hits'[b][v], Limit[b]})
      BY <2>3 DEF Allowed
    <3>2. v \in Times
      BY <1>1, <2>3, ClockType DEF Times
    <3>3. hits'[b][v] \in Nat
      BY <1>1, <3>2 DEF LimiterOK
    <3>4. Limit[b] \in Int /\ hits'[b][v] \in Int
      BY <1>2, <3>3
    <3>5. Min({hits'[b][v], Limit[b]}) = IF hits'[b][v] <= Limit[b] THEN hits'[b][v] ELSE Limit[b]
      BY <3>4, SmallerOfTwo
    <3> QED
      BY <1>2, <3>1, <3>3, <3>5
  <2> QED
    BY <2>1, <2>2, <2>3
<1>4. CASE v > clock
  BY <1>3, <1>4 DEF Allowed
<1>5. CASE ~(v > clock) /\ WindowStart(b, clock) = v
  <2>1. CASE WindowStart(b, clock') = v
    BY <1>1, <1>2, <1>3, <1>5, <2>1 DEF Allowed
  <2>2. CASE WindowStart(b, clock') # v
    <3>1. Allowed(b, v)' = Limit[b]
      BY <1>1, <1>5, <2>2 DEF Allowed
    <3> QED
      BY <1>2, <1>3, <3>1
  <2> QED
    BY <2>1, <2>2
<1>6. CASE ~(v > clock) /\ WindowStart(b, clock) # v
  <2>1. WindowStart(b, clock') # v
    <3>1. ~(clock < v + Seconds[b])
      BY <1>1, <1>6, Windows
    <3>2. WindowStart(b, clock') \in Nat /\ clock' < WindowStart(b, clock') + Seconds[b]
      BY <1>1, Windows
    <3> QED
      BY <1>1, <1>2, <3>1, <3>2
  <2>2. Allowed(b, v)' = Limit[b]
    BY <1>1, <1>6, <2>1 DEF Allowed
  <2> QED
    BY <1>2, <1>3, <2>2
<1> QED
  BY <1>4, <1>5, <1>6

\* One limit more is the limit more.
LEMMA OneMore ==
  ASSUME NEW i \in Nat, NEW j \in Nat
  PROVE  (i + 1) * j = i * j + j
  OBVIOUS

\* What the windows have let through stays within what they may have, and so
\* does what two windows next to each other have.
LEMMA SpentStep ==
  ASSUME TypeOK, SpentInv, [Next]_vars, LimiterOK'
  PROVE  SpentInv'
<1>0. LimiterOK
  BY TypeParts
<1> SUFFICES ASSUME NEW b \in Buckets, NEW w \in Times, w = WindowStart(b, w)
             PROVE  /\ Spent(b, w)' <= crashes' * Limit[b] + Allowed(b, w)'
                    /\ Spent(b, w)' + Spent(b, w + Seconds[b])' <=
                         crashes' * Limit[b] + Allowed(b, w)' + Allowed(b, w + Seconds[b])'
  BY DEF SpentInv
<1> DEFINE n == w + Seconds[b]
           most == crashes * Limit[b]
<1>1. w \in Nat /\ n \in Nat /\ n = WindowStart(b, n) /\ Seconds[b] \in Nat \ {0}
  <2>1. w \in Nat
    BY DemandAssumption DEF Times
  <2> QED
    BY <2>1, Windows
<1>2. Spent(b, w) <= most + Allowed(b, w)
  BY DEF SpentInv
<1>3. Spent(b, w) + Spent(b, n) <= most + Allowed(b, w) + Allowed(b, n)
  BY DEF SpentInv
<1>4. /\ Spent(b, w) \in Nat /\ Spent(b, n) \in Nat /\ Limit[b] \in Nat \ {0} /\ crashes \in Nat
      /\ Allowed(b, w) \in Nat /\ Allowed(b, n) \in Nat
      /\ Allowed(b, w) <= Limit[b] /\ Allowed(b, n) <= Limit[b]
  BY <1>0, <1>1, WindowType
<1>5. n # w
  BY <1>1
<1>6. most \in Nat
  BY <1>4
<1> HIDE DEF n
<1>7. ASSUME NEW c \in Buckets, NEW sweep \in BOOLEAN, Check(c, sweep), UNCHANGED clock
      PROVE  /\ Spent(b, w)' <= crashes' * Limit[b] + Allowed(b, w)'
             /\ Spent(b, w)' + Spent(b, n)' <= crashes' * Limit[b] + Allowed(b, w)' + Allowed(b, n)'
  <2>1. crashes' = crashes
    BY <1>7 DEF Check
  <2>2. PICK i \in 0..1 : Spent(b, w)' = Spent(b, w) + i /\ Allowed(b, w)' = Allowed(b, w) + i
    BY <1>1, <1>7, CheckWindow
  <2>3. PICK j \in 0..1 : Spent(b, n)' = Spent(b, n) + j /\ Allowed(b, n)' = Allowed(b, n) + j
    BY <1>1, <1>7, CheckWindow
  <2>4. crashes' * Limit[b] = most
    BY <2>1
  <2> HIDE DEF most
  <2> QED
    BY <1>2, <1>3, <1>4, <1>6, <2>2, <2>3, <2>4
<1>8. CASE Crash
  <2>1. crashes' = crashes + 1 /\ UNCHANGED <<clock, let>>
    BY <1>8 DEF Crash
  <2>2. crashes' * Limit[b] = most + Limit[b]
    BY <1>4, <2>1, OneMore
  <2>3. Spent(b, w)' = Spent(b, w) /\ Spent(b, n)' = Spent(b, n)
    BY <2>1 DEF Spent
  <2>4. ASSUME NEW v \in Nat, v = WindowStart(b, v) PROVE Allowed(b, v)' \in Nat /\ (WindowStart(b, clock) # v => Allowed(b, v)' = Allowed(b, v))
    <3>1. CASE v > clock
      BY <2>1, <3>1 DEF Allowed
    <3>2. CASE ~(v > clock) /\ WindowStart(b, clock) # v
      BY <1>4, <2>1, <3>2 DEF Allowed
    <3>3. CASE ~(v > clock) /\ WindowStart(b, clock) = v
      <4>1. Allowed(b, v)' = Min({hits'[b][v], Limit[b]})
        BY <2>1, <3>3 DEF Allowed
      <4>2. v \in Times
        BY <1>0, <3>3, ClockType DEF Times
      <4>3. hits'[b][v] \in Nat /\ hits'[b][v] \in Int /\ Limit[b] \in Int
        BY <1>4, <4>2 DEF LimiterOK
      <4>4. Min({hits'[b][v], Limit[b]}) = IF hits'[b][v] <= Limit[b] THEN hits'[b][v] ELSE Limit[b]
        BY <4>3, SmallerOfTwo
      <4> QED
        BY <1>4, <3>3, <4>1, <4>3, <4>4
    <3> QED
      BY <3>1, <3>2, <3>3
  <2>5. Allowed(b, w)' \in Nat /\ (WindowStart(b, clock) # w => Allowed(b, w)' = Allowed(b, w))
    BY <1>1, <2>4
  <2>6. Allowed(b, n)' \in Nat /\ (WindowStart(b, clock) # n => Allowed(b, n)' = Allowed(b, n))
    BY <1>1, <2>4
  <2> HIDE DEF most
  <2>7. CASE WindowStart(b, clock) # w
    BY <1>2, <1>3, <1>4, <1>6, <2>2, <2>3, <2>5, <2>6, <2>7 DEF n
  <2>8. CASE WindowStart(b, clock) = w
    <3>1. Allowed(b, n)' = Allowed(b, n)
      BY <1>5, <2>6, <2>8
    <3> QED
      BY <1>2, <1>3, <1>4, <1>6, <2>2, <2>3, <2>5, <3>1 DEF n
  <2> QED
    BY <2>7, <2>8
<1>9. CASE Tick
  <2>1. UNCHANGED <<crashes, let>>
    BY <1>9 DEF Tick
  <2>2. Spent(b, w)' = Spent(b, w) /\ Spent(b, n)' = Spent(b, n) /\ crashes' * Limit[b] = most
    BY <2>1 DEF Spent
  <2>3. /\ Allowed(b, w)' \in Nat /\ Allowed(b, w) <= Allowed(b, w)'
        /\ Allowed(b, n)' \in Nat /\ Allowed(b, n) <= Allowed(b, n)'
    BY <1>1, <1>9, TickWindow
  <2> HIDE DEF most
  <2> QED
    BY <1>2, <1>3, <1>4, <1>6, <2>2, <2>3 DEF n
<1>10. CASE UNCHANGED <<clock, limiter>>
  <2>1. UNCHANGED <<clock, crashes, let, hits>>
    BY <1>10 DEF limiter
  <2>2. /\ Spent(b, w)' = Spent(b, w) /\ Spent(b, n)' = Spent(b, n)
        /\ Allowed(b, w)' = Allowed(b, w) /\ Allowed(b, n)' = Allowed(b, n)
    BY <2>1 DEF Spent, Allowed
  <2> QED
    BY <1>2, <1>3, <2>1, <2>2 DEF n
<1>11. CASE UNCHANGED vars
  BY <1>10, <1>11 DEF vars
<1>12. CASE Next
  BY <1>7, <1>8, <1>9, <1>10, <1>12 DEF Next, Request, RecallMisses, MissRecorded, MissLost, RetentionSweeps, n
<1> QED
  BY <1>11, <1>12

\* Until a crash the open window counts every hit.
LEMMA EveryHitStep ==
  ASSUME TypeOK, NothingYet, EveryHitIsCounted, [Next]_vars
  PROVE  EveryHitIsCounted'
<1>0. LimiterOK /\ clock \in Nat /\ clock \in Times /\ LimiterOK'
  BY TypeParts, ClockType, LimiterStep
<1> SUFFICES ASSUME crashes' = 0, NEW b \in Buckets
             PROVE  hits'[b][WindowStart(b, clock')] = Within(came'[b], WindowStart(b, clock'), Seconds[b])
  BY DEF EveryHitIsCounted
<1> DEFINE o == WindowStart(b, clock)
           s == Seconds[b]
<1>1. o \in Nat /\ o \in Int /\ o <= clock /\ clock < o + s /\ s \in Nat /\ o \in Times
  BY <1>0, Windows, SweepSpares
<1>2. crashes = 0 => hits[b][o] = Within(came[b], o, s)
  BY DEF EveryHitIsCounted
<1>3. came[b] \in [Times -> Nat] /\ hits[b] \in [Times -> Nat]
  BY <1>0 DEF LimiterOK
<1> HIDE DEF s
<1>4. ASSUME NEW c \in Buckets, NEW sweep \in BOOLEAN, Check(c, sweep), UNCHANGED clock
      PROVE  hits'[b][o] = Within(came'[b], o, s)
  <2> HIDE DEF o
  <2>1. UNCHANGED crashes /\ came' = [came EXCEPT ![c][clock] = @ + 1]
    BY <1>4 DEF Check
  <2>2. hits'[b][o] = hits[b][o] + IF b = c THEN 1 ELSE 0
    BY <1>4, HitsAfter DEF o
  <2>3. Within([came[b] EXCEPT ![clock] = @ + 1], o, s) = Within(came[b], o, s) + IF clock \in o..(o + s - 1) THEN 1 ELSE 0
    <3>1. came[b] \in [Times -> Nat] /\ o \in Int /\ s \in Nat /\ clock \in Times
      BY <1>0, <1>1, <1>3
    <3> QED
      BY <3>1, WithinUp
  <2>4. came'[b] = IF b = c THEN [came[b] EXCEPT ![clock] = @ + 1] ELSE came[b]
    BY <1>0, <2>1 DEF LimiterOK
  <2>5. clock \in o..(o + s - 1)
    BY <1>0, <1>1
  <2>6. hits[b][o] \in Nat
    BY <1>1, <1>3
  <2> QED
    BY <1>2, <2>1, <2>2, <2>3, <2>4, <2>5, <2>6
<1>5. CASE Crash
  BY <1>0, <1>5, DemandAssumption DEF Crash, LimiterOK
<1>6. CASE Tick
  <2> DEFINE p == WindowStart(b, clock')
  <2>1. clock' = clock + 1 /\ UNCHANGED <<hits, came, crashes>>
    BY <1>6 DEF Tick
  <2>2. p \in Nat /\ p <= clock' /\ clock' < p + s /\ p = WindowStart(b, p)
    <3>1. clock' \in Nat
      BY <1>0, <2>1
    <3> QED
      BY <3>1, Windows DEF s
  <2> HIDE DEF p
  <2>3. CASE p <= clock
    <3>1. clock < p + s
      BY <1>0, <1>1, <2>1, <2>2
    <3>2. p = o
      BY <1>0, <2>2, <2>3, <3>1, Windows DEF s
    <3> QED
      BY <1>2, <2>1, <3>2 DEF p, s
  <2>4. CASE ~(p <= clock)
    <3>1. \A t \in Times : t >= p => t > clock
      BY <1>0, <2>2, <2>4, DemandAssumption DEF Times
    <3>2. \A t \in Times : t >= p => came[b][t] = 0 /\ hits[b][t] = 0
      BY <3>1 DEF NothingYet
    <3>3. p \in Times /\ p \in Int
      <4>1. clock' <= MaxTime
        BY <1>0, DemandAssumption DEF LimiterOK, Times
      <4> QED
        BY <1>0, <2>1, <2>2, <4>1, DemandAssumption DEF Times
    <3>4. hits[b][p] = 0
      BY <2>2, <3>2, <3>3
    <3>5. Within(came[b], p, s) = 0
      BY <1>1, <1>3, <3>2, <3>3, WithinNothing
    <3> QED
      BY <2>1, <3>4, <3>5 DEF p, s
  <2> QED
    BY <2>3, <2>4
<1>7. CASE UNCHANGED <<clock, limiter>>
  BY <1>2, <1>7 DEF limiter, s
<1>8. CASE UNCHANGED vars
  BY <1>7, <1>8 DEF vars
<1>9. CASE Next
  BY <1>4, <1>5, <1>6, <1>7, <1>9 DEF Next, Request, RecallMisses, MissRecorded, MissLost, RetentionSweeps, s
<1> QED
  BY <1>8, <1>9

-----------------------------------------------------------------------------
(* The rows of misses, one at a time.                                      *)

\* What a row adds up of the writes that made it.
AddsUp(row, log) ==
  /\ row.occurrences = Total(log)
  /\ {k \in Kinds : log[k] > 0} # {} => row.best = Max({k.score : k \in {x \in Kinds : log[x] > 0}})

\* A row that is not there adds up nothing.
LEMMA NothingAddsUp == AddsUp(NoMiss, [k \in Kinds |-> 0])
<1> DEFINE log == [k \in Kinds |-> 0]
<1>1. log \in [Kinds -> Nat] /\ \A k \in Kinds : log[k] = 0
  OBVIOUS
<1> HIDE DEF log
<1>2. Total(log) = 0 /\ {k \in Kinds : log[k] > 0} = {}
  BY <1>1, KindsFinite, TotalType
<1> QED
  BY <1>2 DEF AddsUp, NoMiss, log

\* One more write is one more occurrence, and comes as close as it comes.
LEMMA OneMoreWrite ==
  ASSUME NEW row \in [occurrences: Nat, best: Scores, first: Times, last: Times],
         NEW log \in [Kinds -> Nat], NEW k \in Kinds, AddsUp(row, log)
  PROVE  AddsUp(Upserted(row, k), [log EXCEPT ![k] = @ + 1])
<1> DEFINE more == [log EXCEPT ![k] = @ + 1]
           writes == {x \in Kinds : log[x] > 0}
           scores == {x.score : x \in writes}
           then == {x.score : x \in writes \cup {k}}
<1>1. Total(more) = Total(log) + 1 /\ Total(log) \in Nat /\ (Total(log) = 0 <=> \A x \in Kinds : log[x] = 0)
  BY KindsFinite, TotalUp, TotalType
<1>2. {x \in Kinds : more[x] > 0} = writes \cup {k}
  <2>1. log[k] \in Nat /\ more[k] = log[k] + 1 /\ \A x \in Kinds \ {k} : more[x] = log[x]
    OBVIOUS
  <2> HIDE DEF more
  <2>2. more[k] > 0
    BY <2>1
  <2> QED
    BY <2>1, <2>2
<1>3. \A x \in Kinds : x.score \in Scores
  BY DEF Kinds
<1>4. /\ scores \in SUBSET Scores /\ then \in SUBSET Scores /\ then # {} /\ k.score \in Scores
      /\ then = scores \cup {k.score} /\ (scores = {} <=> writes = {})
  BY <1>3
<1>5. row.occurrences = Total(log) /\ (writes # {} => row.best = Max(scores))
  BY DEF AddsUp
<1>6. writes = {} <=> row.occurrences = 0
  <2>1. \A x \in Kinds : log[x] \in Nat
    OBVIOUS
  <2>2. writes = {} <=> \A x \in Kinds : log[x] = 0
    BY <2>1
  <2> QED
    BY <1>1, <1>5, <2>2
<1>7. /\ Upserted(row, k).occurrences = row.occurrences + 1
      /\ Upserted(row, k).best = IF row.occurrences = 0 THEN k.score ELSE Max({row.best, k.score})
  BY RowAfter
<1> HIDE DEF more, writes, scores, then
<1>8. Upserted(row, k).best = Max(then)
  <2>1. Max(then) = IF 1 \in then THEN 1 ELSE 0
    BY <1>4, BestOf
  <2>2. k.score = 0 \/ k.score = 1
    BY <1>4 DEF Scores
  <2>3. CASE writes = {}
    <3>1. then = {k.score}
      BY <1>4, <2>3
    <3> QED
      BY <1>6, <1>7, <2>1, <2>2, <2>3, <3>1
  <2>4. CASE writes # {}
    <3>1. Max(scores) = (IF 1 \in scores THEN 1 ELSE 0) /\ row.best = Max(scores)
      BY <1>4, <1>5, <2>4, BestOf
    <3>2. {row.best, k.score} \in SUBSET Scores /\ {row.best, k.score} # {}
      BY <1>4
    <3>3. Max({row.best, k.score}) = IF 1 \in {row.best, k.score} THEN 1 ELSE 0
      BY <3>2, BestOf
    <3> QED
      BY <1>4, <1>6, <1>7, <2>1, <2>2, <2>4, <3>1, <3>3
  <2> QED
    BY <2>3, <2>4
<1> QED
  BY <1>1, <1>2, <1>5, <1>7, <1>8 DEF AddsUp, then, more

\* A sweep deletes a row with its account, or leaves both.
LEMMA SweptAddsUp ==
  ASSUME NEW rows \in [Needs -> [occurrences: Nat, best: Scores, first: Times, last: Times]],
         NEW log \in [Needs -> [Kinds -> Nat]],
         \A n \in Needs : AddsUp(rows[n], log[n]),
         \A n \in Needs : misses'[n] = NoMiss \/ misses'[n] = rows[n],
         seen' = Account(log)
  PROVE  \A n \in Needs : AddsUp(misses'[n], seen'[n])
<1> SUFFICES ASSUME NEW n \in Needs PROVE AddsUp(misses'[n], seen'[n])
  OBVIOUS
<1>1. seen'[n] = IF misses'[n] = NoMiss THEN [k \in Kinds |-> 0] ELSE log[n]
  BY DEF Account
<1> QED
  BY <1>1, NothingAddsUp

\* Every row adds up the writes that made it.
LEMMA MissesStep ==
  ASSUME TypeOK, MissesAddUp, [Next]_vars
  PROVE  MissesAddUp'
<1>0. TelemetryOK
  BY TypeParts
<1>1. \A n \in Needs : AddsUp(misses[n], seen[n])
  BY DEF MissesAddUp, AddsUp
<1>2. (\A n \in Needs : AddsUp(misses'[n], seen'[n])) => MissesAddUp'
  BY DEF MissesAddUp, AddsUp
<1>3. ASSUME NEW k \in Kinds, NEW sweep \in BOOLEAN, MissRecorded(k, sweep) PROVE MissesAddUp'
  <2> DEFINE rows == [misses EXCEPT ![k.need] = Upserted(@, k)]
             log == [seen EXCEPT ![k.need][k] = @ + 1]
  <2>1. k.need \in Needs
    BY DEF Kinds
  <2>2. misses[k.need] \in [occurrences: Nat, best: Scores, first: Times, last: Times] /\ seen[k.need] \in [Kinds -> Nat]
    BY <1>0, <2>1 DEF TelemetryOK
  <2>3. rows \in [Needs -> [occurrences: Nat, best: Scores, first: Times, last: Times]]
    BY <1>0, <2>1, <2>2, RowAfter DEF TelemetryOK
  <2>4. log \in [Needs -> [Kinds -> Nat]]
    BY <1>0, <2>1, <2>2 DEF TelemetryOK
  <2>5. ASSUME NEW n \in Needs PROVE AddsUp(rows[n], log[n])
    <3>1. CASE n = k.need
      <4>1. AddsUp(Upserted(misses[n], k), [seen[n] EXCEPT ![k] = @ + 1])
        BY <1>1, <2>2, <3>1, OneMoreWrite
      <4>2. rows[n] = Upserted(misses[n], k) /\ log[n] = [seen[n] EXCEPT ![k] = @ + 1]
        BY <1>0, <3>1 DEF TelemetryOK
      <4> QED
        BY <4>1, <4>2
    <3>2. CASE n # k.need
      <4>1. rows[n] = misses[n] /\ log[n] = seen[n]
        BY <1>0, <3>2 DEF TelemetryOK
      <4> QED
        BY <1>1, <4>1
    <3> QED
      BY <3>1, <3>2
  <2>6. seen' = Account(log) /\ misses' = IF sweep THEN Kept(rows, clock) ELSE rows
    BY <1>3 DEF MissRecorded
  <2> HIDE DEF rows, log
  <2>7. \A n \in Needs : misses'[n] = NoMiss \/ misses'[n] = rows[n]
    BY <2>3, <2>6, RowsKept
  <2> QED
    BY <1>2, <2>3, <2>4, <2>5, <2>6, <2>7, SweptAddsUp
<1>4. CASE RetentionSweeps
  <2>1. misses' = Kept(misses, clock) /\ seen' = Account(seen)
    BY <1>4 DEF RetentionSweeps
  <2>2. /\ misses \in [Needs -> [occurrences: Nat, best: Scores, first: Times, last: Times]]
        /\ seen \in [Needs -> [Kinds -> Nat]]
    BY <1>0 DEF TelemetryOK
  <2>3. \A n \in Needs : misses'[n] = NoMiss \/ misses'[n] = misses[n]
    BY <2>1, <2>2, RowsKept
  <2> QED
    BY <1>1, <1>2, <2>1, <2>2, <2>3, SweptAddsUp
<1>5. CASE UNCHANGED telemetry
  BY <1>5 DEF MissesAddUp, telemetry
<1>6. CASE UNCHANGED vars
  BY <1>5, <1>6 DEF vars
<1>7. CASE Next
  BY <1>3, <1>4, <1>5, <1>7 DEF Next, Request, RecallMisses, MissLost, Crash, Tick
<1> QED
  BY <1>6, <1>7

-----------------------------------------------------------------------------
(* The theorems.                                                           *)

\* Nothing has come, been counted or been written to begin with.
LEMMA DemandBegins == Init => DemandInv
<1> SUFFICES ASSUME Init PROVE DemandInv
  OBVIOUS
<1> DEFINE zero == [t \in Times |-> 0]
<1>1. /\ clock = 0 /\ crashes = 0 /\ 0 \in Times /\ 0 \in 0..MaxCrashes
      /\ zero \in [Times -> Nat] /\ \A t \in Times : zero[t] = 0
  BY DemandAssumption DEF Init, Times
<1>2. \A b \in Buckets : hits[b] = zero /\ durable[b] = zero /\ came[b] = zero /\ let[b] = zero
  BY DEF Init
<1>3. hits = [b \in Buckets |-> zero] /\ durable = hits /\ came = hits /\ let = hits
  BY DEF Init
<1> HIDE DEF zero
<1>4. LimiterOK
  BY <1>1, <1>3 DEF LimiterOK
<1>5. TelemetryOK
  BY <1>1 DEF Init, TelemetryOK, NoMiss, Scores
<1>6. NothingYet
  BY <1>1, <1>2 DEF NothingYet
<1>7. ASSUME NEW b \in Buckets, NEW v \in Nat PROVE Within(zero, v, Seconds[b]) = 0
  <2>1. v \in Int /\ Seconds[b] \in Nat
    BY DemandAssumption
  <2> QED
    BY <1>1, <2>1, WithinNothing
<1>8. SpentInv
  <2> SUFFICES ASSUME NEW b \in Buckets, NEW w \in Times
               PROVE  /\ Spent(b, w) <= crashes * Limit[b] + Allowed(b, w)
                      /\ Spent(b, w) + Spent(b, w + Seconds[b]) <=
                           crashes * Limit[b] + Allowed(b, w) + Allowed(b, w + Seconds[b])
    BY DEF SpentInv
  <2>1. w \in Nat /\ w + Seconds[b] \in Nat
    BY DemandAssumption DEF Times
  <2>2. Spent(b, w) = 0 /\ Spent(b, w + Seconds[b]) = 0
    BY <1>2, <1>7, <2>1 DEF Spent
  <2>3. Allowed(b, w) \in Nat /\ Allowed(b, w + Seconds[b]) \in Nat /\ Limit[b] \in Nat
    BY <1>4, <2>1, WindowType
  <2>4. crashes * Limit[b] = 0
    BY <1>1, <2>3
  <2> QED
    BY <2>2, <2>3, <2>4
<1>9. EveryHitIsCounted
  <2> SUFFICES ASSUME NEW b \in Buckets
               PROVE  hits[b][WindowStart(b, clock)] = Within(came[b], WindowStart(b, clock), Seconds[b])
    BY DEF EveryHitIsCounted
  <2>1. WindowStart(b, clock) \in Times /\ WindowStart(b, clock) \in Nat
    BY <1>4, <1>5, TypeParts, SweepSpares, DemandAssumption DEF Times
  <2> QED
    BY <1>1, <1>2, <1>7, <2>1
<1>10. MissesAddUp
  <2>1. \A n \in Needs : misses[n] = NoMiss /\ seen[n] = [k \in Kinds |-> 0]
    BY DEF Init
  <2>2. \A n \in Needs : AddsUp(misses[n], seen[n])
    BY <2>1, NothingAddsUp
  <2> QED
    BY <2>2 DEF MissesAddUp, AddsUp
<1> QED
  BY <1>4, <1>5, <1>6, <1>8, <1>9, <1>10, TypeParts DEF DemandInv, CountsAddUp

\* Every step keeps the invariant.
LEMMA DemandGoesOn == DemandInv /\ [Next]_vars => DemandInv'
<1> SUFFICES ASSUME DemandInv, [Next]_vars PROVE DemandInv'
  OBVIOUS
<1>1. TypeOK /\ NothingYet /\ SpentInv /\ EveryHitIsCounted /\ MissesAddUp
  BY DEF DemandInv, CountsAddUp
<1>2. LimiterOK'
  BY <1>1, LimiterStep
<1>3. TypeOK'
  BY <1>1, <1>2, TelemetryStep DEF TypeOK, LimiterOK, TelemetryOK
<1>4. NothingYet' /\ EveryHitIsCounted' /\ MissesAddUp'
  BY <1>1, NothingYetStep, EveryHitStep, MissesStep
<1>5. SpentInv'
  BY <1>1, <1>2, SpentStep
<1> QED
  BY <1>3, <1>4, <1>5 DEF DemandInv, CountsAddUp

\* Whatever comes and whenever the database crashes, the limiter and the misses
\* keep their invariant: what windows next to each other have let through is
\* within what they may have.
THEOREM DemandCorrect == Spec => []DemandInv
  BY DemandBegins, DemandGoesOn, PTL DEF Spec

\* A caller gets no more than the limit in a window, no more than twice the
\* limit in any stretch as long as one, and a limit more for each crash.
THEOREM Limited == Spec => []LimitIsKept
<1>1. ASSUME DemandInv PROVE LimitIsKept
  <2>0. LimiterOK /\ SpentInv
    BY <1>1, TypeParts DEF DemandInv
  <2> SUFFICES ASSUME NEW b \in Buckets, NEW t \in Times
               PROVE  Within(let[b], t, Seconds[b]) <= (crashes + (IF t = WindowStart(b, t) THEN 1 ELSE 2)) * Limit[b]
    BY DEF LimitIsKept
  <2> DEFINE w == WindowStart(b, t)
             s == Seconds[b]
             n == w + s
             most == crashes * Limit[b]
  <2>1. t \in Nat /\ t <= MaxTime /\ MaxTime \in Nat
    BY DemandAssumption DEF Times
  <2>2. w \in Nat /\ w = WindowStart(b, w) /\ w <= t /\ t < w + s /\ s \in Nat \ {0}
    BY <2>1, Windows
  <2>3. w \in Times
    BY <2>1, <2>2 DEF Times
  <2>4. /\ Spent(b, w) <= most + Allowed(b, w)
        /\ Spent(b, w) + Spent(b, n) <= most + Allowed(b, w) + Allowed(b, n)
    BY <2>0, <2>2, <2>3 DEF SpentInv
  <2>5. n \in Nat
    BY <2>2
  <2>6. /\ Spent(b, w) \in Nat /\ Spent(b, n) \in Nat /\ Limit[b] \in Nat /\ crashes \in Nat
        /\ Allowed(b, w) \in Nat /\ Allowed(b, n) \in Nat
        /\ Allowed(b, w) <= Limit[b] /\ Allowed(b, n) <= Limit[b]
    BY <2>0, <2>2, <2>5, WindowType
  <2>7. most \in Nat /\ (crashes + 1) * Limit[b] = most + Limit[b]
    BY <2>6, OneMore
  <2>8. (crashes + 2) * Limit[b] = most + Limit[b] + Limit[b]
    <3>1. crashes + 1 \in Nat /\ (crashes + 1) + 1 = crashes + 2
      BY <2>6
    <3>2. ((crashes + 1) + 1) * Limit[b] = (crashes + 1) * Limit[b] + Limit[b]
      BY <2>6, <3>1, OneMore
    <3> QED
      BY <2>7, <3>1, <3>2
  <2>9. Spent(b, w) = Within(let[b], w, s) /\ Spent(b, n) = Within(let[b], n, s)
    BY DEF Spent
  <2>10. let[b] \in [Times -> Nat] /\ w \in Int /\ n \in Int /\ t \in Int /\ s \in Nat
    BY <2>0, <2>1, <2>2, <2>5 DEF LimiterOK
  <2> HIDE DEF w, s, most
  <2>11. t..(t + s - 1) \subseteq (w..(w + s - 1)) \cup (n..(n + s - 1))
    BY <2>1, <2>2
  <2> HIDE DEF n
  <2>12. Within(let[b], t, s) <= Within(let[b], w, s) + Within(let[b], n, s)
    BY <2>10, <2>11, WithinTwo
  <2>13. Within(let[b], t, s) \in Nat
    BY <2>10, WithinIs
  <2>14. CASE t = w
    BY <2>4, <2>6, <2>7, <2>9, <2>14 DEF w, s
  <2>15. CASE t # w
    <3>1. Within(let[b], t, s) <= most + Limit[b] + Limit[b]
      BY <2>4, <2>6, <2>7, <2>9, <2>12, <2>13
    <3> QED
      BY <2>8, <2>15, <3>1 DEF w, s
  <2> QED
    BY <2>14, <2>15
<1> QED
  BY <1>1, DemandCorrect, PTL

\* The row of an open window counts every hit of it, and a row of misses the
\* writes that made it.
THEOREM CountsRight == Spec => []CountsAddUp
<1>1. DemandInv => CountsAddUp
  BY DEF DemandInv
<1> QED
  BY <1>1, DemandCorrect, PTL

=============================================================================
