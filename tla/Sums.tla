-------------------------------- MODULE Sums --------------------------------
(***************************************************************************)
(* Sums over finite sets, as FoldSet and MapThenSumSet compute them, and   *)
(* the induction they need.  An induction is a least counterexample here:  *)
(* a set of natural numbers that is not empty has a least element.         *)
(***************************************************************************)
EXTENDS Naturals, FiniteSets, FiniteSetTheorems, WellFoundedInduction, TLAPS

LEMMA LeastNatural ==
  ASSUME NEW T \in SUBSET Nat, T # {}
  PROVE  \E m \in T : \A n \in T : m <= n
<1> DEFINE Upto(n) == 0..n
           U == {Upto(n) : n \in T}
<1>1. U \subseteq FiniteSubsetsOf(Nat) /\ U # {}
  <2>1. \A n \in T : n \in Int /\ 0 \in Int
    OBVIOUS
  <2>2. \A n \in T : Upto(n) \in SUBSET Nat /\ IsFiniteSet(Upto(n))
    BY <2>1, FS_Interval
  <2> HIDE DEF Upto
  <2> QED BY <2>2 DEF FiniteSubsetsOf
<1>2. PICK u \in U : \A v \in U : <<v, u>> \notin StrictSubsetOrdering(Nat)
  BY <1>1, FS_StrictSubsetOrderingWellFounded, WFMin
<1>3. PICK m \in T : u = Upto(m)
  OBVIOUS
<1>4. ASSUME NEW n \in T, n < m PROVE FALSE
  <2>1. Upto(n) \in SUBSET Nat /\ Upto(m) \in SUBSET Nat
    OBVIOUS
  <2>2. Upto(n) \subseteq Upto(m) /\ Upto(n) # Upto(m)
    <3>1. m \in Upto(m) /\ m \notin Upto(n)
      BY <1>4
    <3> QED BY <1>4, <3>1
  <2> HIDE DEF Upto
  <2>3. <<Upto(n), Upto(m)>> \in StrictSubsetOrdering(Nat)
    BY <2>1, <2>2 DEF StrictSubsetOrdering
  <2> QED BY <1>2, <1>3, <2>3
<1> QED BY <1>4

\* A set that has 0 and the successor of each of its numbers has them all.
LEMMA AllNaturals ==
  ASSUME NEW P, 0 \in P, \A n \in Nat : n \in P => n + 1 \in P, NEW k \in Nat
  PROVE  k \in P
<1> DEFINE Missing == Nat \ P
<1>1. ASSUME Missing # {} PROVE FALSE
  <2>1. PICK m \in Missing : \A n \in Missing : m <= n
    BY <1>1, LeastNatural
  <2>2. m - 1 \in Nat /\ m - 1 \notin Missing
    BY <2>1
  <2> QED BY <2>1, <2>2
<1> QED BY <1>1

\* A family of subsets of S that has the empty one, and with a set also the set with one
\* more element, has S.
LEMMA AllFinite ==
  ASSUME NEW S, IsFiniteSet(S), NEW P, {} \in P,
         \A T \in SUBSET S : \A x \in S \ T : T \in P => T \cup {x} \in P
  PROVE  S \in P
<1> DEFINE Q == {n \in Nat : \A T \in SUBSET S : Cardinality(T) = n => T \in P}
<1>1. \A T \in SUBSET S : IsFiniteSet(T) /\ Cardinality(T) \in Nat
  BY FS_Subset, FS_CardinalityType
<1>2. 0 \in Q
  BY <1>1, FS_EmptySet
<1>3. ASSUME NEW n \in Nat, n \in Q PROVE n + 1 \in Q
  <2>1. ASSUME NEW T \in SUBSET S, Cardinality(T) = n + 1 PROVE T \in P
    <3>1. PICK x : x \in T
      <4>1. T # {}
        <5>1. Cardinality({}) = 0 /\ n + 1 # 0
          BY FS_EmptySet
        <5> QED BY <2>1, <5>1
      <4> QED BY <4>1
    <3>2. T \ {x} \in SUBSET S /\ Cardinality(T \ {x}) = n
      <4>1. Cardinality(T \ {x}) = Cardinality(T) - 1
        BY <1>1, <3>1, FS_RemoveElement
      <4> QED BY <2>1, <4>1
    <3>3. T \ {x} \in P
      BY <1>3, <3>2
    <3>4. (T \ {x}) \cup {x} = T
      BY <3>1
    <3> QED BY <3>1, <3>2, <3>3, <3>4
  <2> QED BY <2>1
<1> HIDE DEF Q
<1>4. Cardinality(S) \in Q
  BY <1>1, <1>2, <1>3, AllNaturals
<1> QED BY <1>4, <1>1 DEF Q

\* A set of numbers up to n that is not empty has a greatest one.
LEMMA GreatestUpto ==
  ASSUME NEW n \in Nat, NEW T \in SUBSET (1 .. n), T # {}
  PROVE  \E m \in T : \A k \in T : k <= m
<1> DEFINE Rest == {n - k : k \in T}
<1>1. Rest \in SUBSET Nat /\ Rest # {}
  <2>1. \A k \in T : n - k \in Nat
    OBVIOUS
  <2> QED
    BY <2>1
<1>2. PICK d \in Rest : \A e \in Rest : d <= e
  BY <1>1, LeastNatural
<1>3. PICK m \in T : d = n - m
  OBVIOUS
<1>4. \A k \in T : n - m <= n - k
  BY <1>2, <1>3
<1> QED
  BY <1>4

-----------------------------------------------------------------------------
\* What the library's folds take out of a set first.
Pick(s) == CHOOSE x \in s : TRUE

\* f is the sum of w over every subset of S.
IsSum(f, w, S) ==
  \A s \in SUBSET S : f[s] = IF s = {} THEN 0 ELSE w[Pick(s)] + f[s \ {Pick(s)}]

Weighs(w, S) == \A x \in S : w[x] \in Nat

PartialSums(w, S) == CHOOSE f : f \in [SUBSET S -> Nat] /\ IsSum(f, w, S)
Sum(w, S) == PartialSums(w, S)[S]

LEMMA PickIn == ASSUME NEW s, s # {} PROVE Pick(s) \in s
  BY DEF Pick

\* f folds every subset of S with op, taking out the element pick gives.
Picks(pick, S) == \A s \in SUBSET S : s # {} => pick[s] \in s
IsFold(f, op, base, pick, S) ==
  \A s \in SUBSET S : f[s] = IF s = {} THEN base ELSE op[<<pick[s], f[s \ {pick[s]}]>>]

LEMMA FoldExists ==
  ASSUME NEW S, IsFiniteSet(S), NEW V, NEW base \in V, NEW op \in [S \X V -> V],
         NEW pick, Picks(pick, S)
  PROVE  \E f \in [SUBSET S -> V] : IsFold(f, op, base, pick, S)
<1> DEFINE Upto(n) == {s \in SUBSET S : Cardinality(s) <= n}
           Next(f, s) == IF s = {} THEN base ELSE op[<<pick[s], f[s \ {pick[s]}]>>]
           Q == {n \in Nat : \E f \in [Upto(n) -> V] : \A s \in Upto(n) : f[s] = Next(f, s)}
<1>1. \A s \in SUBSET S : IsFiniteSet(s) /\ Cardinality(s) \in Nat
  BY FS_Subset, FS_CardinalityType
<1>2. 0 \in Q
  <2>1. Upto(0) = {{}}
    BY <1>1, FS_EmptySet
  <2> DEFINE z == [s \in Upto(0) |-> base]
  <2>2. z \in [Upto(0) -> V] /\ \A s \in Upto(0) : z[s] = Next(z, s)
    BY <2>1
  <2> QED
    BY <2>2
<1>3. ASSUME NEW n \in Nat, n \in Q PROVE n + 1 \in Q
  <2>1. PICK f \in [Upto(n) -> V] : \A s \in Upto(n) : f[s] = Next(f, s)
    BY <1>3
  <2> DEFINE g == [s \in Upto(n + 1) |-> Next(f, s)]
  <2>2. ASSUME NEW s \in Upto(n + 1), s # {}
        PROVE  pick[s] \in s /\ s \ {pick[s]} \in Upto(n)
    <3>1. IsFiniteSet(s) /\ Cardinality(s) \in Nat /\ Cardinality(s) <= n + 1 /\ s \in SUBSET S
      BY <1>1
    <3>2. pick[s] \in s
      BY <2>2, <3>1 DEF Picks
    <3>3. Cardinality(s \ {pick[s]}) = Cardinality(s) - 1
      BY <3>1, <3>2, FS_RemoveElement
    <3>4. Cardinality(s \ {pick[s]}) <= n
      BY <3>1, <3>3
    <3> QED
      BY <3>1, <3>2, <3>4
  <2>3. \A s \in Upto(n) : s \in Upto(n + 1)
    BY <1>1
  <2>4. \A s \in Upto(n + 1) : Next(f, s) \in V
    <3> SUFFICES ASSUME NEW s \in Upto(n + 1), s # {} PROVE op[<<pick[s], f[s \ {pick[s]}]>>] \in V
      OBVIOUS
    <3>1. pick[s] \in S /\ f[s \ {pick[s]}] \in V
      BY <2>2
    <3>2. <<pick[s], f[s \ {pick[s]}]>> \in S \X V
      BY <3>1
    <3> QED
      BY <3>2
  <2>5. g \in [Upto(n + 1) -> V]
    BY <2>4
  <2>6. \A s \in Upto(n) : g[s] = f[s]
    BY <2>1, <2>3
  <2>7. \A s \in Upto(n + 1) : g[s] = Next(g, s)
    BY <2>2, <2>6
  <2>8. \E q \in [Upto(n + 1) -> V] : \A s \in Upto(n + 1) : q[s] = Next(q, s)
    <3> HIDE DEF g, Next
    <3> QED
      BY <2>5, <2>7
  <2>9. n + 1 \in Nat
    OBVIOUS
  <2> HIDE DEF g, Next, Upto
  <2> QED
    BY <2>8, <2>9
<1>4. Cardinality(S) \in Q
  <2> HIDE DEF Q
  <2> QED
    BY <1>1, <1>2, <1>3, AllNaturals
<1>5. Upto(Cardinality(S)) = SUBSET S
  BY <1>1, FS_Subset
<1> QED
  BY <1>4, <1>5 DEF IsFold

LEMMA PartialSumsExist ==
  ASSUME NEW S, IsFiniteSet(S), NEW w, Weighs(w, S)
  PROVE  PartialSums(w, S) \in [SUBSET S -> Nat] /\ IsSum(PartialSums(w, S), w, S)
<1> DEFINE op == [x \in S \X Nat |-> w[x[1]] + x[2]]
           pick == [s \in SUBSET S |-> Pick(s)]
<1>1. \A x \in S, n \in Nat : op[<<x, n>>] = w[x] + n /\ w[x] + n \in Nat
  BY DEF Weighs
<1>2. op \in [S \X Nat -> Nat]
  BY <1>1
<1>3. \A s \in SUBSET S : pick[s] = Pick(s) /\ (s # {} => pick[s] \in s)
  BY PickIn
<1> HIDE DEF op, pick
<1>4. PICK f \in [SUBSET S -> Nat] : IsFold(f, op, 0, pick, S)
  <2>1. Picks(pick, S) /\ 0 \in Nat
    BY <1>3 DEF Picks
  <2> QED
    BY <1>2, <2>1, FoldExists
<1>5. ASSUME NEW s \in SUBSET S, s # {}
      PROVE  f[s] = w[Pick(s)] + f[s \ {Pick(s)}]
  <2>1. pick[s] \in S /\ s \ {pick[s]} \in SUBSET S /\ f[s \ {pick[s]}] \in Nat
    BY <1>3, <1>5
  <2> QED
    BY <1>1, <1>3, <1>4, <1>5, <2>1 DEF IsFold
<1>6. IsSum(f, w, S)
  BY <1>4, <1>5 DEF IsSum, IsFold
<1> QED
  BY <1>6 DEF PartialSums

\* Two functions that sum the same weights are the same.
LEMMA SumUnique ==
  ASSUME NEW S, IsFiniteSet(S), NEW w, NEW v, \A x \in S : w[x] = v[x],
         NEW f, IsSum(f, w, S), NEW g, IsSum(g, v, S)
  PROVE  f[S] = g[S]
<1> DEFINE P == {T \in SUBSET S : f[T] = g[T]}
           Bad == {n \in Nat : \E T \in SUBSET S : Cardinality(T) = n /\ f[T] # g[T]}
<1>1. \A T \in SUBSET S : IsFiniteSet(T) /\ Cardinality(T) \in Nat
  BY FS_Subset, FS_CardinalityType
<1>2. ASSUME Bad # {} PROVE FALSE
  <2>1. PICK m \in Bad : \A n \in Bad : m <= n
    BY <1>2, LeastNatural
  <2>2. PICK T \in SUBSET S : Cardinality(T) = m /\ f[T] # g[T]
    BY <2>1
  <2>3. T # {}
    BY <2>2 DEF IsSum
  <2>4. Pick(T) \in T
    BY <2>3, PickIn
  <2>5. Cardinality(T \ {Pick(T)}) = m - 1 /\ T \ {Pick(T)} \in SUBSET S
    BY <1>1, <2>2, <2>4, FS_RemoveElement
  <2>6. f[T \ {Pick(T)}] = g[T \ {Pick(T)}]
    BY <1>1, <2>1, <2>5
  <2>7. f[T] = w[Pick(T)] + f[T \ {Pick(T)}] /\ g[T] = v[Pick(T)] + g[T \ {Pick(T)}]
    BY <2>3 DEF IsSum
  <2> QED BY <2>2, <2>4, <2>6, <2>7
<1> QED BY <1>1, <1>2

\* Whatever computes the sum by taking elements out computes Sum.
LEMMA SumIs ==
  ASSUME NEW S, IsFiniteSet(S), NEW w, Weighs(w, S), NEW f, IsSum(f, w, S)
  PROVE  f[S] = Sum(w, S)
  BY PartialSumsExist, SumUnique DEF Sum

LEMMA SumSame ==
  ASSUME NEW S, IsFiniteSet(S), NEW w, NEW v, Weighs(w, S), \A x \in S : w[x] = v[x]
  PROVE  Sum(w, S) = Sum(v, S)
<1>1. Weighs(v, S)
  BY DEF Weighs
<1>2. IsSum(PartialSums(w, S), w, S) /\ IsSum(PartialSums(v, S), v, S)
  BY <1>1, PartialSumsExist
<1> QED BY <1>2, SumUnique DEF Sum

LEMMA SumType ==
  ASSUME NEW S, IsFiniteSet(S), NEW w, Weighs(w, S)
  PROVE  Sum(w, S) \in Nat
<1>1. PartialSums(w, S) \in [SUBSET S -> Nat] /\ S \in SUBSET S
  BY PartialSumsExist
<1> QED
  BY <1>1 DEF Sum

LEMMA SumEmpty == ASSUME NEW w PROVE Sum(w, {}) = 0
<1>1. IsFiniteSet({}) /\ Weighs(w, {})
  BY FS_EmptySet DEF Weighs
<1> QED BY <1>1, PartialSumsExist DEF Sum, IsSum

LEMMA SumPick ==
  ASSUME NEW S, IsFiniteSet(S), NEW w, Weighs(w, S), S # {}
  PROVE  Sum(w, S) = w[Pick(S)] + Sum(w, S \ {Pick(S)})
<1> DEFINE f == PartialSums(w, S)
           T == S \ {Pick(S)}
<1>1. IsSum(f, w, S)
  BY PartialSumsExist
<1>2. IsFiniteSet(T) /\ Weighs(w, T) /\ IsSum(f, w, T)
  BY <1>1, FS_Subset DEF Weighs, IsSum
<1>3. f[T] = Sum(w, T)
  BY <1>2, SumIs
<1>4. f[S] = w[Pick(S)] + f[T]
  BY <1>1 DEF IsSum
<1> QED BY <1>3, <1>4 DEF Sum

\* Any element can be taken out of a sum.
LEMMA SumTake ==
  ASSUME NEW S, IsFiniteSet(S), NEW w, Weighs(w, S), NEW x \in S
  PROVE  Sum(w, S) = w[x] + Sum(w, S \ {x})
<1> DEFINE Holds(T) == \A y \in T : Sum(w, T) = w[y] + Sum(w, T \ {y})
           Bad == {n \in Nat : \E T \in SUBSET S : Cardinality(T) = n /\ ~Holds(T)}
<1>1. \A T \in SUBSET S : IsFiniteSet(T) /\ Cardinality(T) \in Nat /\ Weighs(w, T)
  BY FS_Subset, FS_CardinalityType DEF Weighs
<1>2. ASSUME Bad # {} PROVE FALSE
  <2>1. PICK m \in Bad : \A n \in Bad : m <= n
    BY <1>2, LeastNatural
  <2>2. PICK T \in SUBSET S : Cardinality(T) = m /\ ~Holds(T)
    BY <2>1
  <2>3. PICK y \in T : Sum(w, T) # w[y] + Sum(w, T \ {y})
    BY <2>2
  <2> DEFINE p == Pick(T)
  <2>4. p \in T /\ Sum(w, T) = w[p] + Sum(w, T \ {p})
    BY <1>1, <2>3, SumPick, PickIn
  <2>5. p # y
    BY <2>3, <2>4
  <2> HIDE DEF p
  <2>6. \A z \in T : T \ {z} \in SUBSET S /\ Cardinality(T \ {z}) = m - 1
    BY <1>1, <2>2, FS_RemoveElement
  <2>7. \A z \in T : Holds(T \ {z})
    BY <1>1, <2>1, <2>6
  <2>8. Sum(w, T \ {p}) = w[y] + Sum(w, (T \ {p}) \ {y})
    BY <2>4, <2>5, <2>7
  <2>9. Sum(w, T \ {y}) = w[p] + Sum(w, (T \ {y}) \ {p})
    BY <2>4, <2>5, <2>7
  <2>10. (T \ {p}) \ {y} = (T \ {y}) \ {p}
    OBVIOUS
  <2>11. /\ w[p] \in Nat /\ w[y] \in Nat /\ (T \ {p}) \ {y} \in SUBSET S
    BY <2>4 DEF Weighs
  <2>12. Sum(w, (T \ {p}) \ {y}) \in Nat
    BY <1>1, <2>11, SumType
  <2>13. Sum(w, T) = w[y] + Sum(w, T \ {y})
    <3> DEFINE r == Sum(w, (T \ {p}) \ {y})
    <3>1. Sum(w, T) = w[p] + (w[y] + r) /\ Sum(w, T \ {y}) = w[p] + r /\ r \in Nat
      BY <2>4, <2>8, <2>9, <2>10, <2>12
    <3> HIDE DEF r, Bad, Holds
    <3> QED BY <2>11, <3>1
  <2> QED BY <2>3, <2>13
<1>3. Holds(S)
  BY <1>1, <1>2
<1> QED BY <1>3

\* A sum whose weights change at one element changes by the difference there.
LEMMA SumChange ==
  ASSUME NEW S, IsFiniteSet(S), NEW w, NEW v, Weighs(w, S), Weighs(v, S), NEW x \in S,
         \A y \in S \ {x} : w[y] = v[y]
  PROVE  Sum(v, S) + w[x] = Sum(w, S) + v[x]
<1> DEFINE T == S \ {x}
<1>1. IsFiniteSet(T) /\ Weighs(w, T) /\ Weighs(v, T)
  BY FS_Subset DEF Weighs
<1>2. Sum(w, T) = Sum(v, T) /\ Sum(w, T) \in Nat
  BY <1>1, SumSame, SumType
<1>3. Sum(w, S) = w[x] + Sum(w, T) /\ Sum(v, S) = v[x] + Sum(v, T)
  BY SumTake
<1>4. w[x] \in Nat /\ v[x] \in Nat
  BY DEF Weighs
<1> HIDE DEF T
<1> QED
  BY <1>2, <1>3, <1>4

\* Elements without weight add nothing to a sum.
LEMMA SumZeros ==
  ASSUME NEW S, IsFiniteSet(S), NEW w, Weighs(w, S), NEW T \in SUBSET S,
         \A x \in S \ T : w[x] = 0
  PROVE  Sum(w, S) = Sum(w, T)
<1> DEFINE Z == S \ T
           P == {U \in SUBSET Z : Sum(w, T \cup U) = Sum(w, T)}
<1>1. \A U \in SUBSET Z : IsFiniteSet(T \cup U) /\ Weighs(w, T \cup U)
  <2>1. \A U \in SUBSET Z : T \cup U \in SUBSET S
    OBVIOUS
  <2> QED
    BY <2>1, FS_Subset DEF Weighs
<1>2. {} \in P
  OBVIOUS
<1>3. ASSUME NEW U \in SUBSET Z, NEW x \in Z \ U, U \in P PROVE U \cup {x} \in P
  <2>1. U \cup {x} \in SUBSET Z /\ x \in T \cup (U \cup {x})
    OBVIOUS
  <2>2. (T \cup (U \cup {x})) \ {x} = T \cup U
    OBVIOUS
  <2>3. Sum(w, T \cup (U \cup {x})) = w[x] + Sum(w, T \cup U)
    <3> DEFINE V == T \cup (U \cup {x})
    <3>1. IsFiniteSet(V) /\ Weighs(w, V) /\ x \in V
      BY <1>1, <2>1
    <3>2. V \ {x} = T \cup U
      BY <2>2
    <3> HIDE DEF V
    <3>3. Sum(w, V) = w[x] + Sum(w, V \ {x})
      BY <3>1, SumTake
    <3> QED
      BY <3>2, <3>3 DEF V
  <2>4. w[x] = 0 /\ Sum(w, T \cup U) \in Nat
    BY <1>1, SumType
  <2> QED
    BY <1>3, <2>1, <2>3, <2>4
<1>4. IsFiniteSet(Z)
  BY FS_Subset
<1>5. Z \in P
  <2> HIDE DEF P, Z
  <2> QED
    BY <1>2, <1>3, <1>4, AllFinite
<1>6. T \cup Z = S
  OBVIOUS
<1> QED
  BY <1>5, <1>6

=============================================================================
