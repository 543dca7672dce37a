---------------------------- MODULE PaymentSums ----------------------------
(***************************************************************************)
(* What SumOf returns for any finite set of refunds: the fold over their    *)
(* sizes is the number of their units of money.  From that follow the       *)
(* facts about sums that the proofs about PaymentLifecycle need, by counting*)
(* alone.  The one induction, that the recursive function behind the fold   *)
(* agrees with the count on every subset, is by a minimal subset on which   *)
(* they differ.                                                             *)
(***************************************************************************)
EXTENDS PaymentLifecycle, FiniteSetTheorems, TLAPS

(* The sizes of the refunds, as the cases give them.                        *)
Sizes == size \in [Refunds -> 1 .. Amount]

(* The units of the refunds in S, one by one.                               *)
Units(S) == {u \in S \X (1 .. Amount) : u[2] <= size[u[1]]}

(* They can be counted.                                                     *)
LEMMA UnitsFinite == \A S \in SUBSET Refunds : IsFiniteSet(Units(S)) /\ Cardinality(Units(S)) \in Nat
<1> SUFFICES ASSUME NEW S \in SUBSET Refunds PROVE IsFiniteSet(Units(S)) /\ Cardinality(Units(S)) \in Nat
  OBVIOUS
<1>1. IsFiniteSet(S)
  BY RefundsAssumption, FS_Subset
<1>2. IsFiniteSet(1 .. Amount)
  BY CasesAssumption, FS_Interval
<1>3. IsFiniteSet(S \X (1 .. Amount))
  BY <1>1, <1>2, FS_Product
<1>4. Units(S) \in SUBSET (S \X (1 .. Amount))
  BY DEF Units
<1>5. IsFiniteSet(Units(S))
  BY <1>3, <1>4, FS_Subset
<1> QED
  BY <1>5, FS_CardinalityType

(* A refund has as many units as its size.                                  *)
LEMMA UnitsOfOne == ASSUME Sizes, NEW r \in Refunds PROVE Cardinality(Units({r})) = size[r]
<1> DEFINE f == [k \in 1 .. size[r] |-> <<r, k>>]
<1>1. size[r] \in 1 .. Amount /\ size[r] \in Nat /\ Amount \in Nat
  BY CasesAssumption DEF Sizes
<1>2. f \in [1 .. size[r] -> Units({r})]
  BY <1>1 DEF Units
<1>3. \A a, b \in 1 .. size[r] : f[a] = f[b] => a = b
  OBVIOUS
<1>4. \A u \in Units({r}) : \E k \in 1 .. size[r] : f[k] = u
  <2> SUFFICES ASSUME NEW u \in Units({r}) PROVE \E k \in 1 .. size[r] : f[k] = u
    OBVIOUS
  <2>1. u = <<r, u[2]>> /\ u[2] \in 1 .. size[r]
    BY <1>1 DEF Units
  <2> QED
    BY <2>1
<1>5. f \in Bijection(1 .. size[r], Units({r}))
  BY <1>2, <1>3, <1>4 DEF Bijection, Injection, Surjection, IsInjective
<1>6. ExistsBijection(1 .. size[r], Units({r}))
  BY <1>5 DEF ExistsBijection
<1> QED
  BY <1>1, <1>6, FS_CountingElements

(* One refund more adds its size.                                           *)
LEMMA UnitsAdd ==
  ASSUME Sizes, NEW S \in SUBSET Refunds, NEW r \in S
  PROVE  Cardinality(Units(S)) = size[r] + Cardinality(Units(S \ {r}))
<1>1. Units(S) = Units({r}) \cup Units(S \ {r}) /\ Units({r}) \cap Units(S \ {r}) = {}
  BY DEF Units
<1>2. IsFiniteSet(Units({r})) /\ IsFiniteSet(Units(S \ {r}))
  BY UnitsFinite
<1>3. Cardinality(Units({r})) = size[r] /\ size[r] \in Nat /\ Cardinality(Units(S \ {r})) \in Nat
  BY UnitsFinite, UnitsOfOne, CasesAssumption DEF Sizes
<1>4. Cardinality(Units(S)) = Cardinality(Units({r})) + Cardinality(Units(S \ {r})) - Cardinality({})
  BY <1>1, <1>2, FS_Union
<1> QED
  BY <1>3, <1>4, FS_EmptySet

(* The equation that the recursive function behind SumOf satisfies on the   *)
(* subsets of S, and the function that counts units instead.                *)
Step(g, S) == [s \in SUBSET S |-> IF s = {} THEN 0 ELSE LET x == CHOOSE x \in s : TRUE IN size[x] + g[s \ {x}]]
Count(S) == [s \in SUBSET S |-> Cardinality(Units(s))]

(* Counting satisfies the equation: such a function exists.                 *)
LEMMA CountIsFixed == ASSUME Sizes, NEW S \in SUBSET Refunds PROVE Count(S) = Step(Count(S), S)
<1>1. ASSUME NEW s \in SUBSET S
      PROVE  Count(S)[s] = IF s = {} THEN 0 ELSE LET x == CHOOSE x \in s : TRUE IN size[x] + Count(S)[s \ {x}]
  <2>1. CASE s = {}
    <3>1. Units(s) = {}
      BY <2>1 DEF Units
    <3> QED
      BY <2>1, <3>1, FS_EmptySet DEF Count
  <2>2. CASE s # {}
    <3> DEFINE x == CHOOSE x \in s : TRUE
    <3>1. x \in s /\ s \in SUBSET Refunds /\ s \ {x} \in SUBSET S
      BY <2>2
    <3>2. Cardinality(Units(s)) = size[x] + Cardinality(Units(s \ {x}))
      BY <3>1, UnitsAdd
    <3> QED
      BY <2>2, <3>1, <3>2 DEF Count
  <2> QED
    BY <2>1, <2>2
<1> QED
  BY <1>1 DEF Count, Step

(* Whatever function satisfies it counts: the sum is the number of units.   *)
LEMMA SumIsCount == ASSUME Sizes, NEW S \in SUBSET Refunds PROVE SumOf(S) = Cardinality(Units(S))
<1> DEFINE g == CHOOSE g : g = Step(g, S)
           Wrong == {s \in SUBSET S : g[s] # Count(S)[s]}
<1>1. SumOf(S) = g[S]
  BY DEF SumOf, MapThenSumSet, MapThenFoldSet, Step
<1>2. g = Step(g, S)
  BY CountIsFixed
<1> HIDE DEF g
<1>3. Wrong = {}
  <2> SUFFICES ASSUME Wrong # {} PROVE FALSE
    OBVIOUS
  <2>1. IsFiniteSet(S)
    BY RefundsAssumption, FS_Subset
  <2>2. IsWellFoundedOn(StrictSubsetOrdering(S), SUBSET S)
    BY <2>1, FS_StrictSubsetOrderingWellFounded, FS_FiniteSubsetsOfFinite
  <2>3. Wrong \subseteq SUBSET S
    OBVIOUS
  <2>4. PICK s \in Wrong : \A t \in Wrong : ~ (<<t, s>> \in StrictSubsetOrdering(S))
    BY <2>2, <2>3, WFMin
  <2>5. \A t \in SUBSET S : t \subseteq s /\ t # s => g[t] = Count(S)[t]
    BY <2>4 DEF StrictSubsetOrdering
  <2>6. CASE s = {}
    BY <1>2, <2>6, CountIsFixed DEF Step
  <2>7. CASE s # {}
    <3> DEFINE x == CHOOSE x \in s : TRUE
    <3>1. x \in s /\ s \ {x} \in SUBSET S /\ s \ {x} # s
      BY <2>7
    <3>2. g[s] = size[x] + g[s \ {x}]
      BY <1>2, <2>7 DEF Step
    <3>3. Count(S)[s] = size[x] + Count(S)[s \ {x}]
      BY CountIsFixed, <2>7 DEF Step
    <3> QED
      BY <2>5, <3>1, <3>2, <3>3
  <2> QED
    BY <2>6, <2>7
<1>4. g[S] = Count(S)[S]
  BY <1>3
<1> QED
  BY <1>1, <1>4 DEF Count

(* A sum is a natural number.                                               *)
LEMMA SumType == ASSUME Sizes PROVE \A S \in SUBSET Refunds : SumOf(S) \in Nat
BY SumIsCount, UnitsFinite

(* No refund, no money.                                                     *)
LEMMA SumEmpty == ASSUME Sizes PROVE SumOf({}) = 0
<1>1. Units({}) = {}
  BY DEF Units
<1> QED
  BY <1>1, SumIsCount, FS_EmptySet

(* One refund more adds its size.                                           *)
LEMMA SumAdd ==
  ASSUME Sizes, NEW S \in SUBSET Refunds, NEW r \in S
  PROVE  SumOf(S) = size[r] + SumOf(S \ {r})
<1>1. SumOf(S) = Cardinality(Units(S)) /\ SumOf(S \ {r}) = Cardinality(Units(S \ {r}))
  BY SumIsCount
<1> QED
  BY <1>1, UnitsAdd

(* More refunds are no less money.                                          *)
LEMMA SumMonotone ==
  ASSUME Sizes, NEW S \in SUBSET Refunds, NEW T \in SUBSET S
  PROVE  SumOf(T) <= SumOf(S)
<1>1. SumOf(S) = Cardinality(Units(S)) /\ SumOf(T) = Cardinality(Units(T))
  BY SumIsCount
<1>2. Units(T) \in SUBSET Units(S)
  BY DEF Units
<1>3. Cardinality(Units(T)) <= Cardinality(Units(S))
  BY <1>2, UnitsFinite, FS_Subset
<1> QED
  BY <1>1, <1>3

(* The sums stay while the sizes do.                                        *)
LEMMA SumFrame == ASSUME size' = size PROVE \A S : SumOf(S)' = SumOf(S)
BY DEF SumOf, MapThenSumSet, MapThenFoldSet
=============================================================================
