----------------------------- MODULE FiniteOrders ------------------------------
(***************************************************************************)
(* Facts about finite sets that the proofs about the tables need: a        *)
(* subset of every smaller size, an element with the smallest number, and  *)
(* bounds of a sum.                                                        *)
(***************************************************************************)
EXTENDS Integers, FiniteSets, Functions, FiniteSetTheorems, WellFoundedInduction, TLAPS

(* A nonempty set of finite sets has a smallest one.                       *)
LEMMA MinimalSet ==
  ASSUME NEW S, IsFiniteSet(S), NEW C \in SUBSET (SUBSET S), C # {}
  PROVE  \E U \in C : \A V \in C : V \subseteq U => V = U
<1> DEFINE R == StrictSubsetOrdering(S)
<1>1. IsWellFoundedOn(R, FiniteSubsetsOf(S))
  BY FS_StrictSubsetOrderingWellFounded
<1>2. C \subseteq FiniteSubsetsOf(S)
  BY FS_Subset DEF FiniteSubsetsOf
<1>3. \E U \in C : \A V \in C : ~ (<<V, U>> \in R)
  <2> HIDE DEF R
  <2> QED
    BY <1>1, <1>2, WFMin
<1> QED
  BY <1>3 DEF StrictSubsetOrdering

(* A set of n elements or more has a subset of n.                          *)
LEMMA SubsetOfSize ==
  ASSUME NEW S, IsFiniteSet(S), NEW n \in Nat, n <= Cardinality(S)
  PROVE  \E M \in SUBSET S : Cardinality(M) = n
<1> DEFINE C == {M \in SUBSET S : Cardinality(M) >= n}
<1>1. S \in C /\ C \in SUBSET (SUBSET S)
  OBVIOUS
<1>2. PICK U \in C : \A V \in C : V \subseteq U => V = U
  <2> HIDE DEF C
  <2> QED
    BY <1>1, MinimalSet
<1>3. IsFiniteSet(U) /\ Cardinality(U) \in Nat /\ Cardinality(U) >= n
  BY <1>2, FS_Subset, FS_CardinalityType
<1>4. CASE Cardinality(U) # n
  <2>1. PICK x \in U : TRUE
    BY <1>3, <1>4, FS_EmptySet
  <2>2. Cardinality(U \ {x}) = Cardinality(U) - 1
    BY <1>3, <2>1, FS_RemoveElement
  <2>3. U \ {x} \in C
    BY <1>2, <1>3, <1>4, <2>2
  <2> QED
    BY <1>2, <2>1, <2>3
<1> QED
  BY <1>2, <1>3, <1>4

(* In a nonempty finite set one element has the smallest number.           *)
LEMMA SmallestNumber ==
  ASSUME NEW S, IsFiniteSet(S), S # {}, NEW num \in [S -> Int]
  PROVE  \E s \in S : \A t \in S : num[s] <= num[t]
<1> DEFINE Below(s) == {t \in S : num[t] < num[s]}
           C == {Below(s) : s \in S}
<1>1. C \in SUBSET (SUBSET S) /\ C # {}
  <2>1. PICK s \in S : TRUE
    OBVIOUS
  <2>2. Below(s) \in C
    BY <2>1
  <2> QED
    BY <2>2
<1>2. PICK U \in C : \A V \in C : V \subseteq U => V = U
  <2> HIDE DEF C
  <2> QED
    BY <1>1, MinimalSet
<1>3. PICK s \in S : U = Below(s)
  OBVIOUS
<1>4. ASSUME NEW t \in S, num[t] < num[s] PROVE FALSE
  <2>1. Below(t) \subseteq U /\ t \in U /\ t \notin Below(t)
    BY <1>3, <1>4
  <2> QED
    BY <1>2, <2>1
<1> QED
  BY <1>4

LEMMA LargestNumber ==
  ASSUME NEW S, IsFiniteSet(S), S # {}, NEW num \in [S -> Int]
  PROVE  \E s \in S : \A t \in S : num[t] <= num[s]
<1> DEFINE neg == [s \in S |-> 0 - num[s]]
<1>1. neg \in [S -> Int]
  OBVIOUS
<1>2. PICK s \in S : \A t \in S : neg[s] <= neg[t]
  <2> HIDE DEF neg
  <2> QED
    BY <1>1, SmallestNumber
<1> QED
  BY <1>2

-----------------------------------------------------------------------------
(* Sums.  The recursive function behind SumFunctionOnSet exists, and what  *)
(* it adds up does not depend on the order.                                *)

First(T) == CHOOSE x \in T : TRUE

AddsUp(f, S, g) ==
  g = [T \in SUBSET S |-> IF T = {} THEN 0 ELSE f[First(T)] + g[T \ {First(T)}]]

LEMMA SumIsChosen ==
  ASSUME NEW f, NEW S
  PROVE  SumFunctionOnSet(f, S) = (CHOOSE g : AddsUp(f, S, g))[S]
BY DEF SumFunctionOnSet, FoldFunctionOnSet, MapThenFoldSet, AddsUp, First

LEMMA AddsUpAt ==
  ASSUME NEW f, NEW S, NEW g, AddsUp(f, S, g), NEW T \in SUBSET S
  PROVE  g[T] = IF T = {} THEN 0 ELSE f[First(T)] + g[T \ {First(T)}]
BY DEF AddsUp

LEMMA FirstIn == ASSUME NEW T, T # {} PROVE First(T) \in T
BY DEF First

LEMMA AddsUpAgree ==
  ASSUME NEW S, IsFiniteSet(S), NEW f, NEW A \in SUBSET S, NEW B \in SUBSET S,
         NEW g, NEW h, AddsUp(f, A, g), AddsUp(f, B, h)
  PROVE  \A T \in SUBSET (A \cap B) : g[T] = h[T]
<1> DEFINE C == {T \in SUBSET (A \cap B) : g[T] # h[T]}
<1>1. SUFFICES ASSUME C # {} PROVE FALSE
  OBVIOUS
<1>2. PICK T \in C : \A V \in C : V \subseteq T => V = T
  <2>1. C \in SUBSET (SUBSET S)
    OBVIOUS
  <2> HIDE DEF C
  <2> QED
    BY <1>1, <2>1, MinimalSet
<1>3. T \in SUBSET A /\ T \in SUBSET B /\ g[T] # h[T]
  BY <1>2
<1>4. T # {}
  BY <1>3, AddsUpAt
<1> DEFINE x == First(T)
<1>5. x \in T
  BY <1>4, FirstIn
<1>6. g[T \ {x}] = h[T \ {x}]
  BY <1>2, <1>3, <1>5
<1>7. g[T] = f[x] + g[T \ {x}] /\ h[T] = f[x] + h[T \ {x}]
  <2>1. g[T] = f[x] + g[T \ {x}]
    BY <1>3, <1>4, AddsUpAt
  <2>2. h[T] = f[x] + h[T \ {x}]
    BY <1>3, <1>4, AddsUpAt
  <2> QED
    BY <2>1, <2>2
<1> QED
  BY <1>3, <1>6, <1>7

LEMMA AddsUpExists ==
  ASSUME NEW S, IsFiniteSet(S), NEW f
  PROVE  \E g : AddsUp(f, S, g)
<1> DEFINE C == {U \in SUBSET S : ~ \E g : AddsUp(f, U, g)}
<1>1. SUFFICES ASSUME C # {} PROVE FALSE
  OBVIOUS
<1>2. PICK U \in C : \A V \in C : V \subseteq U => V = U
  <2>1. C \in SUBSET (SUBSET S)
    OBVIOUS
  <2> HIDE DEF C
  <2> QED
    BY <1>1, <2>1, MinimalSet
<1> DEFINE h(V) == CHOOSE g : AddsUp(f, V, g)
           G == [T \in SUBSET U |->
                   IF T = {} THEN 0
                   ELSE f[First(T)] + h(T \ {First(T)})[T \ {First(T)}]]
<1>3. ASSUME NEW V \in SUBSET U, V # U PROVE AddsUp(f, V, h(V))
  <2>1. \E g : AddsUp(f, V, g)
    BY <1>2, <1>3
  <2> QED
    BY <2>1
<1> HIDE DEF h
<1>4. ASSUME NEW V \in SUBSET U, V # U PROVE G[V] = h(V)[V]
  <2>1. AddsUp(f, V, h(V))
    BY <1>3, <1>4
  <2>2. CASE V = {}
    <3>1. h(V)[V] = 0
      BY <2>1, <2>2, AddsUpAt
    <3> QED
      BY <2>2, <3>1
  <2>3. CASE V # {}
    <3> DEFINE W == V \ {First(V)}
    <3>1. First(V) \in V
      BY <2>3, FirstIn
    <3>2. W \in SUBSET U /\ W # U /\ W \in SUBSET S /\ V \in SUBSET S /\ W \in SUBSET (W \cap V)
      BY <1>2, <1>4, <3>1
    <3>3. AddsUp(f, W, h(W))
      BY <1>3, <3>2
    <3>4. h(W)[W] = h(V)[W]
      <4> HIDE DEF W
      <4> QED
        BY <2>1, <3>2, <3>3, AddsUpAgree
    <3>5. h(V)[V] = f[First(V)] + h(V)[W]
      BY <2>1, <2>3, AddsUpAt
    <3>6. G[V] = f[First(V)] + h(W)[W]
      BY <2>3
    <3> QED
      BY <3>4, <3>5, <3>6
  <2> QED
    BY <2>2, <2>3
<1>5. G = [T \in SUBSET U |-> IF T = {} THEN 0 ELSE f[First(T)] + G[T \ {First(T)}]]
  <2>1. ASSUME NEW T \in SUBSET U, T # {}
        PROVE  G[T \ {First(T)}] = h(T \ {First(T)})[T \ {First(T)}]
    <3>1. First(T) \in T
      BY <2>1, FirstIn
    <3>2. T \ {First(T)} \in SUBSET U /\ T \ {First(T)} # U
      BY <3>1
    <3> HIDE DEF G
    <3> QED
      BY <1>4, <3>2
  <2>2. \A T \in SUBSET U :
          G[T] = IF T = {} THEN 0 ELSE f[First(T)] + h(T \ {First(T)})[T \ {First(T)}]
    OBVIOUS
  <2>3. G = [T \in SUBSET U |-> G[T]]
    OBVIOUS
  <2> HIDE DEF G
  <2> QED
    BY <2>1, <2>2, <2>3
<1>6. AddsUp(f, U, G)
  <2> HIDE DEF G
  <2> QED
    BY <1>5 DEF AddsUp
<1> HIDE DEF G
<1> QED
  BY <1>2, <1>6

(* The equation of the sum: nothing to add, or the first element and the   *)
(* sum of the others.                                                      *)
LEMMA SumEquation ==
  ASSUME NEW S, IsFiniteSet(S), NEW f
  PROVE  /\ S = {} => SumFunctionOnSet(f, S) = 0
         /\ S # {} => SumFunctionOnSet(f, S)
                        = f[First(S)] + SumFunctionOnSet(f, S \ {First(S)})
<1> DEFINE h(V) == CHOOSE g : AddsUp(f, V, g)
           W == S \ {First(S)}
<1>1. ASSUME NEW V \in SUBSET S
      PROVE  AddsUp(f, V, h(V)) /\ SumFunctionOnSet(f, V) = h(V)[V]
  <2>1. IsFiniteSet(V)
    BY FS_Subset
  <2> QED
    BY <2>1, AddsUpExists, SumIsChosen
<1> HIDE DEF h
<1>2. SumFunctionOnSet(f, S) = IF S = {} THEN 0 ELSE f[First(S)] + h(S)[W]
  BY <1>1, AddsUpAt
<1>3. h(S)[W] = h(W)[W]
  <2>1. W \in SUBSET S /\ S \in SUBSET S /\ W \in SUBSET (S \cap W)
    OBVIOUS
  <2> HIDE DEF W
  <2>2. AddsUp(f, W, h(W)) /\ AddsUp(f, S, h(S))
    BY <1>1, <2>1
  <2>3. \A T \in SUBSET (S \cap W) : h(S)[T] = h(W)[T]
    BY <2>1, <2>2, AddsUpAgree
  <2> QED
    BY <2>1, <2>3
<1> QED
  BY <1>1, <1>2, <1>3

(* The sum of natural numbers is one, and no smaller than the size of the  *)
(* set times a bound below the numbers.                                    *)
LEMMA SumIsNat ==
  ASSUME NEW S, IsFiniteSet(S), NEW f, NEW k \in Nat, \A x \in S : f[x] \in Nat /\ k <= f[x]
  PROVE  /\ SumFunctionOnSet(f, S) \in Nat
         /\ Cardinality(S) * k <= SumFunctionOnSet(f, S)
<1> DEFINE Good(T) == /\ SumFunctionOnSet(f, T) \in Nat
                      /\ Cardinality(T) * k <= SumFunctionOnSet(f, T)
           C == {T \in SUBSET S : ~ Good(T)}
<1>1. SUFFICES ASSUME C # {} PROVE FALSE
  BY S \in SUBSET S
<1>2. PICK T \in C : \A V \in C : V \subseteq T => V = T
  <2>1. C \in SUBSET (SUBSET S)
    OBVIOUS
  <2> HIDE DEF C
  <2> QED
    BY <1>1, <2>1, MinimalSet
<1>3. IsFiniteSet(T) /\ T \in SUBSET S /\ ~ Good(T)
  BY <1>2, FS_Subset
<1>4. T # {}
  <2>1. Cardinality({}) = 0
    BY FS_EmptySet
  <2>2. SumFunctionOnSet(f, {}) = 0
    BY SumEquation, FS_EmptySet
  <2> QED
    BY <1>3, <2>1, <2>2
<1> DEFINE x == First(T)
           W == T \ {x}
<1>5. x \in T /\ x \in S /\ f[x] \in Nat /\ k <= f[x]
  BY <1>3, <1>4, FirstIn
<1>6. W \in SUBSET S /\ W \subseteq T /\ W # T
  BY <1>3, <1>5
<1>7. Good(W)
  BY <1>2, <1>6
<1>8. SumFunctionOnSet(f, T) = f[x] + SumFunctionOnSet(f, W)
  BY <1>3, <1>4, SumEquation
<1>9. Cardinality(W) = Cardinality(T) - 1 /\ Cardinality(T) \in Nat /\ Cardinality(W) \in Nat
  BY <1>3, <1>5, FS_RemoveElement, FS_CardinalityType, FS_Subset
<1> HIDE DEF x, W
<1>10. Cardinality(T) * k = Cardinality(W) * k + k
  BY <1>9
<1> QED
  BY <1>3, <1>5, <1>7, <1>8, <1>9, <1>10

(* Each of the numbers is at most the sum.                                 *)
LEMMA SumHasTerm ==
  ASSUME NEW S, IsFiniteSet(S), NEW f, \A x \in S : f[x] \in Nat, NEW y \in S
  PROVE  f[y] <= SumFunctionOnSet(f, S)
<1> DEFINE C == {T \in SUBSET S : y \in T /\ ~ (f[y] <= SumFunctionOnSet(f, T))}
<1>1. SUFFICES ASSUME C # {} PROVE FALSE
  BY S \in SUBSET S
<1>2. PICK T \in C : \A V \in C : V \subseteq T => V = T
  <2>1. C \in SUBSET (SUBSET S)
    OBVIOUS
  <2> HIDE DEF C
  <2> QED
    BY <1>1, <2>1, MinimalSet
<1>3. IsFiniteSet(T) /\ T \in SUBSET S /\ y \in T /\ ~ (f[y] <= SumFunctionOnSet(f, T))
  BY <1>2, FS_Subset
<1> DEFINE x == First(T)
           W == T \ {x}
<1>4. x \in T /\ f[x] \in Nat /\ f[y] \in Nat
  BY <1>3, FirstIn
<1>5. W \in SUBSET S /\ W \subseteq T /\ W # T /\ IsFiniteSet(W)
  BY <1>3, <1>4, FS_Subset
<1>6. SumFunctionOnSet(f, T) = f[x] + SumFunctionOnSet(f, W)
  BY <1>3, SumEquation
<1>7. SumFunctionOnSet(f, W) \in Nat
  <2>1. \A z \in W : f[z] \in Nat /\ 0 <= f[z]
    BY <1>5
  <2> HIDE DEF W
  <2> QED
    BY <1>5, <2>1, SumIsNat
<1>8. y # x => f[y] <= SumFunctionOnSet(f, W)
  BY <1>2, <1>3, <1>5
<1> HIDE DEF x, W
<1> QED
  BY <1>3, <1>4, <1>6, <1>7, <1>8
===============================================================================
