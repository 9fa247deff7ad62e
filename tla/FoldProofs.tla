----------------------------- MODULE FoldProofs -----------------------------
(***************************************************************************)
(* What the proofs about sweeps and sums need of folds.  A property of the *)
(* subsets of a finite set is a set of subsets here, and the argument that *)
(* all have it is that no smallest one lacks it.                           *)
(***************************************************************************)
EXTENDS FiniteSetTheorems, WellFoundedInduction, TLAPS

\* All subsets of a finite set are good if each is that has only good ones.
LEMMA SubsetInduction ==
  ASSUME NEW E, IsFiniteSet(E), NEW Good,
         \A s \in SUBSET E : (\A t \in SUBSET s : t # s => t \in Good) => s \in Good
  PROVE  SUBSET E \subseteq Good
  <1> DEFINE Bad == (SUBSET E) \ Good
             Order == StrictSubsetOrdering(E)
  <1> SUFFICES ASSUME Bad # {} PROVE FALSE
    OBVIOUS
  <1>1. IsWellFoundedOn(Order, SUBSET E)
    <2>1. IsWellFoundedOn(Order, FiniteSubsetsOf(E))
      BY FS_StrictSubsetOrderingWellFounded
    <2>2. FiniteSubsetsOf(E) = SUBSET E
      BY FS_FiniteSubsetsOfFinite
    <2> HIDE DEF Order
    <2> QED
      BY <2>1, <2>2
  <1>2. PICK s \in Bad : \A t \in Bad : <<t, s>> \notin Order
    <2>1. Bad \subseteq SUBSET E
      OBVIOUS
    <2> HIDE DEF Order, Bad
    <2> QED
      BY <1>1, <2>1, WFMin
  <1>3. ASSUME NEW t \in SUBSET s, t # s
        PROVE  t \in Good
    <2>1. t \in SUBSET E /\ s \in SUBSET E
      OBVIOUS
    <2>2. <<t, s>> \in (SUBSET E) \X (SUBSET E) /\ <<t, s>>[1] = t /\ <<t, s>>[2] = s
      BY <2>1
    <2>3. <<t, s>> \in Order
      BY <2>2, <1>3 DEF StrictSubsetOrdering
    <2> QED
      BY <1>2, <2>1, <2>3
  <1>4. s \in SUBSET E /\ s \notin Good
    OBVIOUS
  <1> QED
    BY <1>3, <1>4

\* The same for the natural numbers.
LEMMA CountInduction ==
  ASSUME NEW Good, 0 \in Good, \A n \in Nat : n \in Good => n + 1 \in Good
  PROVE  Nat \subseteq Good
  <1> DEFINE Bad == Nat \ Good
             Less == {ss \in Nat \X Nat : ss[1] < ss[2]}
  <1> SUFFICES ASSUME Bad # {} PROVE FALSE
    OBVIOUS
  <1>1. IsWellFoundedOn(Less, Nat)
    BY NatLessThanWellFounded DEF OpToRel
  <1>2. PICK n \in Bad : \A m \in Bad : <<m, n>> \notin Less
    <2>1. Bad \subseteq Nat
      OBVIOUS
    <2> HIDE DEF Less, Bad
    <2> QED
      BY <1>1, <2>1, WFMin
  <1>3. n \in Nat /\ n # 0 /\ n - 1 \in Nat /\ n = (n - 1) + 1
    OBVIOUS
  <1>4. n - 1 \in Bad
    BY <1>3
  <1>5. <<n - 1, n>> \in Nat \X Nat /\ <<n - 1, n>>[1] = n - 1 /\ <<n - 1, n>>[2] = n
    BY <1>3
  <1>6. <<n - 1, n>> \in Less
    BY <1>3, <1>5
  <1> QED
    BY <1>2, <1>4, <1>6

\* A function that is computed from the value of a set without the element that
\* pick takes from it.
FoldOf(g, E, pick, base, op) ==
  g = [s \in SUBSET E |->
         IF s = {} THEN base ELSE op[<<pick[s], g[s \ {pick[s]}]>>]]

LEMMA FoldExists ==
  ASSUME NEW E, IsFiniteSet(E), NEW V, NEW base \in V,
         NEW op \in [E \X V -> V], NEW pick,
         \A s \in SUBSET E : s # {} => pick[s] \in s
  PROVE  \E g \in [SUBSET E -> V] : FoldOf(g, E, pick, base, op)
  <1> DEFINE Value(h, s) == IF s = {} THEN base ELSE op[<<pick[s], h[s \ {pick[s]}]>>]
             Good == {n \in Nat : \E g \in [SUBSET E -> V] :
                        \A s \in SUBSET E : Cardinality(s) <= n => g[s] = Value(g, s)}
  <1>1. ASSUME NEW s \in SUBSET E
        PROVE  /\ IsFiniteSet(s) /\ Cardinality(s) \in Nat
               /\ Cardinality(s) = 0 <=> s = {}
               /\ s # {} => /\ pick[s] \in E /\ s \ {pick[s]} \in SUBSET E
                            /\ Cardinality(s \ {pick[s]}) = Cardinality(s) - 1
    <2>1. IsFiniteSet(s)
      BY FS_Subset
    <2>2. Cardinality(s) \in Nat /\ (Cardinality(s) = 0 <=> s = {})
      BY <2>1, FS_CardinalityType, FS_EmptySet
    <2>3. s # {} => pick[s] \in s
      OBVIOUS
    <2>4. s # {} => Cardinality(s \ {pick[s]}) = Cardinality(s) - 1
      BY <2>1, <2>3, FS_RemoveElement
    <2> QED
      BY <2>1, <2>2, <2>3, <2>4
  <1>2. ASSUME NEW h \in [SUBSET E -> V], NEW s \in SUBSET E
        PROVE  Value(h, s) \in V
    <2>1. CASE s # {}
      <3>1. pick[s] \in E /\ h[s \ {pick[s]}] \in V
        BY <1>1, <2>1
      <3>2. <<pick[s], h[s \ {pick[s]}]>> \in E \X V
        BY <3>1
      <3> QED
        BY <3>2, <2>1
    <2> QED
      BY <2>1
  <1>3. 0 \in Good
    <2> DEFINE g == [s \in SUBSET E |-> base]
    <2>1. g \in [SUBSET E -> V]
      OBVIOUS
    <2>2. ASSUME NEW s \in SUBSET E, Cardinality(s) <= 0
          PROVE  g[s] = Value(g, s)
      <3>1. Cardinality(s) \in Nat /\ (Cardinality(s) = 0 => s = {})
        BY <1>1
      <3>2. Cardinality(s) = 0
        BY <3>1, <2>2
      <3> QED
        BY <3>1, <3>2
    <2> HIDE DEF g, Value
    <2> QED
      BY <2>1, <2>2
  <1>4. ASSUME NEW n \in Nat, n \in Good
        PROVE  n + 1 \in Good
    <2>1. PICK g \in [SUBSET E -> V] :
            \A s \in SUBSET E : Cardinality(s) <= n => g[s] = Value(g, s)
      BY <1>4
    <2> DEFINE k == [s \in SUBSET E |-> IF Cardinality(s) <= n THEN g[s] ELSE Value(g, s)]
    <2> HIDE DEF Value
    <2>2. k \in [SUBSET E -> V]
      BY <1>2
    <2>3. \A s \in SUBSET E : Cardinality(s) <= n => k[s] = g[s]
      OBVIOUS
    <2>4. ASSUME NEW s \in SUBSET E, Cardinality(s) <= n + 1
          PROVE  k[s] = Value(k, s)
      <3>1. k[s] = Value(g, s)
        BY <2>1
      <3>2. Value(g, s) = Value(k, s)
        <4>1. CASE s = {}
          BY <4>1 DEF Value
        <4>2. CASE s # {}
          <5>1. Cardinality(s \ {pick[s]}) <= n /\ s \ {pick[s]} \in SUBSET E
            <6>1. /\ Cardinality(s \ {pick[s]}) = Cardinality(s) - 1 /\ Cardinality(s) \in Nat
                  /\ s \ {pick[s]} \in SUBSET E
              BY <1>1, <4>2
            <6> QED
              BY <6>1, <2>4
          <5>2. k[s \ {pick[s]}] = g[s \ {pick[s]}]
            BY <2>3, <5>1
          <5> HIDE DEF k
          <5> QED
            BY <4>2, <5>2 DEF Value
        <4> QED
          BY <4>1, <4>2
      <3> QED
        BY <3>1, <3>2
    <2> HIDE DEF k
    <2> QED
      BY <2>2, <2>4
  <1>5. Cardinality(E) \in Good
    <2> HIDE DEF Good
    <2>1. Nat \subseteq Good
      BY <1>3, <1>4, CountInduction
    <2> QED
      BY <2>1, <1>1
  <1>6. PICK g \in [SUBSET E -> V] :
          \A s \in SUBSET E : Cardinality(s) <= Cardinality(E) => g[s] = Value(g, s)
    BY <1>5
  <1>7. \A s \in SUBSET E : Cardinality(s) <= Cardinality(E)
    BY FS_Subset
  <1>8. \A s \in SUBSET E : g[s] = Value(g, s)
    BY <1>6, <1>7
  <1>9. g = [s \in SUBSET E |-> Value(g, s)]
    BY <1>8
  <1> QED
    BY <1>9 DEF FoldOf

-----------------------------------------------------------------------------
(* Sums over the subsets of a finite set.                                  *)

\* g is the sum of w over each subset of E, whatever element is taken first.
Sums(g, w, E) ==
  /\ g \in [SUBSET E -> Nat] /\ g[{}] = 0
  /\ \A s \in SUBSET E : \A x \in s : g[s] = w[x] + g[s \ {x}]

LEMMA SumExists ==
  ASSUME NEW E, IsFiniteSet(E), NEW w \in [E -> Nat]
  PROVE  \E g : Sums(g, w, E)
  <1> DEFINE pick == [s \in SUBSET E |-> CHOOSE x \in s : TRUE]
             op == [p \in E \X Nat |-> w[p[1]] + p[2]]
  <1>1. \A s \in SUBSET E : s # {} => pick[s] \in s
    OBVIOUS
  <1>2. op \in [E \X Nat -> Nat] /\ \A x \in E, n \in Nat : op[<<x, n>>] = w[x] + n
    OBVIOUS
  <1>3. PICK g \in [SUBSET E -> Nat] : FoldOf(g, E, pick, 0, op)
    <2> HIDE DEF pick, op
    <2> QED
      BY <1>1, <1>2, FoldExists
  <1> HIDE DEF pick, op
  <1>4. g[{}] = 0
    BY <1>3 DEF FoldOf
  <1>5. \A s \in SUBSET E : s # {} => g[s] = w[pick[s]] + g[s \ {pick[s]}]
    <2> SUFFICES ASSUME NEW s \in SUBSET E, s # {} PROVE g[s] = w[pick[s]] + g[s \ {pick[s]}]
      OBVIOUS
    <2>1. g[s] = op[<<pick[s], g[s \ {pick[s]}]>>]
      BY <1>3 DEF FoldOf
    <2>2. pick[s] \in E /\ g[s \ {pick[s]}] \in Nat
      BY <1>1
    <2> QED
      BY <1>2, <2>1, <2>2
  <1> DEFINE Good == {s \in SUBSET E : \A x \in s : g[s] = w[x] + g[s \ {x}]}
  <1>6. ASSUME NEW s \in SUBSET E, \A t \in SUBSET s : t # s => t \in Good
        PROVE  s \in Good
    <2> SUFFICES ASSUME NEW x \in s PROVE g[s] = w[x] + g[s \ {x}]
      OBVIOUS
    <2> DEFINE y == pick[s]
    <2>1. y \in s /\ g[s] = w[y] + g[s \ {y}]
      BY <1>1, <1>5
    <2>2. CASE y = x
      BY <2>1, <2>2
    <2>3. CASE y # x
      <3> HIDE DEF y
      <3>1. s \ {x} \in Good /\ s \ {y} \in Good
        BY <1>6, <2>1
      <3>2. g[s \ {y}] = w[x] + g[(s \ {y}) \ {x}]
        BY <2>3, <3>1
      <3>3. g[s \ {x}] = w[y] + g[(s \ {x}) \ {y}]
        BY <2>1, <2>3, <3>1
      <3>4. (s \ {y}) \ {x} = (s \ {x}) \ {y} /\ (s \ {x}) \ {y} \in SUBSET E
        OBVIOUS
      <3>5. w[x] \in Nat /\ w[y] \in Nat /\ g[(s \ {x}) \ {y}] \in Nat
        BY <2>1, <3>4
      <3>6. PICK r \in Nat : g[s \ {y}] = w[x] + r /\ g[s \ {x}] = w[y] + r
        BY <3>2, <3>3, <3>4, <3>5
      <3> QED
        BY <2>1, <3>5, <3>6
    <2> QED
      BY <2>2, <2>3
  <1>7. SUBSET E \subseteq Good
    <2> HIDE DEF Good
    <2> QED
      BY <1>6, SubsetInduction
  <1> QED
    BY <1>4, <1>7 DEF Sums

\* The loop of MapThenSumSet.
SumLoop(h, w, S) ==
  h = [s \in SUBSET S |->
         IF s = {} THEN 0 ELSE w[CHOOSE x \in s : TRUE] + h[s \ {CHOOSE x \in s : TRUE}]]

LEMMA LoopSums ==
  ASSUME NEW E, IsFiniteSet(E), NEW w \in [E -> Nat], NEW g, Sums(g, w, E), NEW S \in SUBSET E
  PROVE  /\ \E h : SumLoop(h, w, S)
         /\ \A h : SumLoop(h, w, S) => h[S] = g[S]
  <1>1. IsFiniteSet(S)
    BY FS_Subset
  <1>2. \A s \in SUBSET S : s # {} => (CHOOSE x \in s : TRUE) \in s
    OBVIOUS
  <1>3. SumLoop([s \in SUBSET S |-> g[s]], w, S)
    BY <1>2 DEF SumLoop, Sums
  <1>4. ASSUME NEW h, SumLoop(h, w, S)
        PROVE  h[S] = g[S]
    <2> DEFINE Good == {s \in SUBSET S : h[s] = g[s]}
    <2>1. ASSUME NEW s \in SUBSET S, \A t \in SUBSET s : t # s => t \in Good
          PROVE  s \in Good
      <3>1. CASE s = {}
        BY <1>4, <3>1 DEF SumLoop, Sums
      <3>2. CASE s # {}
        <4>1. PICK x \in s : x = CHOOSE y \in s : TRUE
          BY <1>2, <3>2
        <4>2. h[s] = w[x] + h[s \ {x}]
          BY <1>4, <3>2, <4>1 DEF SumLoop
        <4>3. h[s \ {x}] = g[s \ {x}]
          BY <2>1
        <4> QED
          BY <4>2, <4>3 DEF Sums
      <3> QED
        BY <3>1, <3>2
    <2>2. SUBSET S \subseteq Good
      <3> HIDE DEF Good
      <3> QED
        BY <1>1, <2>1, SubsetInduction
    <2> QED
      BY <2>2
  <1> QED
    BY <1>3, <1>4

LEMMA SumOfUnion ==
  ASSUME NEW E, IsFiniteSet(E), NEW w \in [E -> Nat], NEW g, Sums(g, w, E),
         NEW A \in SUBSET E, NEW B \in SUBSET E, A \cap B = {}
  PROVE  g[A \cup B] = g[A] + g[B]
  <1> DEFINE Good == {s \in SUBSET B : g[A \cup s] = g[A] + g[s]}
  <1>1. ASSUME NEW s \in SUBSET B, \A t \in SUBSET s : t # s => t \in Good
        PROVE  s \in Good
    <2>1. CASE s = {}
      <3>1. g[{}] = 0 /\ g[A] \in Nat /\ A \cup s = A
        BY <2>1 DEF Sums
      <3> QED
        BY <2>1, <3>1
    <2>2. CASE s # {}
      <3>1. PICK x \in s : TRUE
        BY <2>2
      <3>2. /\ A \cup s \in SUBSET E /\ x \in A \cup s /\ s \in SUBSET E
            /\ (A \cup s) \ {x} = A \cup (s \ {x})
            /\ s \ {x} \in SUBSET E
        OBVIOUS
      <3>3. g[A \cup (s \ {x})] = g[A] + g[s \ {x}]
        BY <1>1
      <3>4. /\ g[A \cup s] = w[x] + g[A \cup (s \ {x})] /\ g[s] = w[x] + g[s \ {x}]
            /\ g[A] \in Nat /\ g[s \ {x}] \in Nat /\ w[x] \in Nat
        BY <3>2 DEF Sums
      <3> QED
        BY <3>3, <3>4
    <2> QED
      BY <2>1, <2>2
  <1>2. IsFiniteSet(B)
    BY FS_Subset
  <1>3. SUBSET B \subseteq Good
    <2> HIDE DEF Good
    <2> QED
      BY <1>1, <1>2, SubsetInduction
  <1> QED
    BY <1>3

\* The sums of the parts add up to the sum of the whole.
Part(S, f, d) == {x \in S : f[x] = d}

LEMMA SumOfParts ==
  ASSUME NEW E, IsFiniteSet(E), NEW w \in [E -> Nat], NEW g, Sums(g, w, E), NEW f,
         NEW D, IsFiniteSet(D), NEW v, NEW h, Sums(h, v, D), NEW S \in SUBSET E,
         \A x \in S : f[x] \in D,
         \A d \in D : v[d] = g[Part(S, f, d)]
  PROVE  h[D] = g[S]
  <1> DEFINE In(T) == {x \in S : f[x] \in T}
             Good == {T \in SUBSET D : h[T] = g[In(T)]}
  <1>1. ASSUME NEW T \in SUBSET D, \A U \in SUBSET T : U # T => U \in Good
        PROVE  T \in Good
    <2>1. CASE T = {}
      <3>1. In(T) = {}
        BY <2>1
      <3> QED
        BY <2>1, <3>1 DEF Sums
    <2>2. CASE T # {}
      <3>1. PICK d \in T : TRUE
        BY <2>2
      <3> DEFINE U == T \ {d}
                 P == Part(S, f, d)
      <3>2. U \in SUBSET T /\ U # T
        OBVIOUS
      <3>3. h[U] = g[In(U)]
        BY <1>1, <3>2
      <3>4. h[T] = v[d] + h[U] /\ v[d] = g[P] /\ d \in D
        BY DEF Sums
      <3>5. In(U) \cap P = {} /\ In(T) = In(U) \cup P /\ In(U) \in SUBSET E /\ P \in SUBSET E
        BY <3>1 DEF Part
      <3>6. g[In(T)] = g[In(U)] + g[P] /\ g[In(U)] \in Nat /\ g[P] \in Nat
        <4> HIDE DEF In, P, U
        <4>1. g[In(U) \cup P] = g[In(U)] + g[P]
          BY <3>5, SumOfUnion
        <4> QED
          BY <3>5, <4>1 DEF Sums
      <3> HIDE DEF In, P, U
      <3>7. h[T] = g[In(T)]
        BY <3>3, <3>4, <3>6
      <3> QED
        BY <3>7
    <2> QED
      BY <2>1, <2>2
  <1>2. SUBSET D \subseteq Good
    <2> HIDE DEF Good
    <2> QED
      BY <1>1, SubsetInduction
  <1>3. In(D) = S
    OBVIOUS
  <1> QED
    BY <1>2, <1>3
=============================================================================
