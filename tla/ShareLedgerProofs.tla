------------------------- MODULE ShareLedgerProofs -------------------------
(***************************************************************************)
(* Theorems about ShareLedger, for any number of sessions, slots, shares,  *)
(* failures and crashes.                                                   *)
(*                                                                         *)
(* The totals are sums over tables of any size.  What a sum does when a    *)
(* value changes, comes or goes is proved first: by induction on the size  *)
(* of a set, which rests on the natural numbers being well-founded.        *)
(***************************************************************************)
EXTENDS ShareLedger, FiniteSetTheorems, WellFoundedInduction, TLAPS

-----------------------------------------------------------------------------
(* A sum as the community modules define it: a recursive function on the   *)
(* subsets of a set, which takes out one element after the other.          *)
Pick(s) == CHOOSE x \in s : TRUE
FoldOf(f, g, s) == IF s = {} THEN Zero ELSE Plus(f[Pick(s)], g[s \ {Pick(s)}])

LEMMA SumFolds ==
    ASSUME NEW f, NEW S
    PROVE  Sum(f, S) = (CHOOSE g : g = [s \in SUBSET S |-> FoldOf(f, g, s)])[S]
BY DEF Sum, FoldFunctionOnSet, MapThenFoldSet, FoldOf, Pick

\* A set of numbers that is not empty has a least one.
LEMMA NatHasLeast ==
    ASSUME NEW S \in SUBSET Nat, S # {}
    PROVE  \E x \in S : \A y \in S : x <= y
<1>1. \E x \in S : \A y \in S : ~(<<y, x>> \in OpToRel(<, Nat))
  BY NatLessThanWellFounded, WFMin
<1>2. PICK x \in S : \A y \in S : ~(<<y, x>> \in OpToRel(<, Nat))
  BY <1>1
<1>3. \A y \in S : ~(y < x)
  BY <1>2 DEF OpToRel
<1> QED BY <1>3

\* A set of numbers with 0 and, with each number, the next one, has them all.
LEMMA AllNumbers ==
    ASSUME NEW S \in SUBSET Nat, 0 \in S, \A n \in S : n + 1 \in S
    PROVE  S = Nat
<1> SUFFICES ASSUME S # Nat PROVE FALSE
  OBVIOUS
<1>1. PICK m \in Nat \ S : \A y \in Nat \ S : m <= y
  <2>1. Nat \ S \in SUBSET Nat /\ Nat \ S # {} OBVIOUS
  <2> QED BY <2>1, NatHasLeast
<1>2. m # 0 BY <1>1
<1>3. m - 1 \in Nat /\ ~(m <= m - 1) BY <1>1, <1>2
<1>4. m - 1 \in S BY <1>1, <1>3
<1>5. (m - 1) + 1 = m BY <1>1
<1> QED BY <1>1, <1>4, <1>5

-----------------------------------------------------------------------------
(* Induction on the size of a set: the subsets with n elements at most.    *)
Sub(S, n) == {s \in SUBSET S : Cardinality(s) <= n}
IsFold(f, g, S) == g = [s \in S |-> FoldOf(f, g, s)]
Agree(f, f2, S) == \A x \in S : f[x] = f2[x]

LEMMA SubOf ==
    ASSUME NEW S, IsFiniteSet(S), NEW s \in SUBSET S
    PROVE  /\ IsFiniteSet(s) /\ Cardinality(s) \in Nat
           /\ Cardinality(s) <= 0 => s = {}
           /\ s # {} => Pick(s) \in s
           /\ \A x \in s : /\ s \ {x} \in SUBSET S
                           /\ \A n \in Nat : Cardinality(s) <= n + 1 => s \ {x} \in Sub(S, n)
           /\ s \in Sub(S, Cardinality(s))
<1>1. IsFiniteSet(s) /\ Cardinality(s) \in Nat BY FS_Subset, FS_CardinalityType
<1>2. Cardinality(s) = 0 <=> s = {} BY <1>1, FS_EmptySet
<1>3. s # {} => Pick(s) \in s BY DEF Pick
<1>4. ASSUME NEW x \in s, NEW n \in Nat, Cardinality(s) <= n + 1 PROVE s \ {x} \in Sub(S, n)
  <2>1. Cardinality(s \ {x}) = Cardinality(s) - 1 BY <1>1, FS_RemoveElement
  <2> QED BY <1>1, <1>4, <2>1 DEF Sub
<1>5. s \in Sub(S, Cardinality(s)) BY <1>1 DEF Sub
<1> QED BY <1>1, <1>2, <1>3, <1>4, <1>5

\* The recursion has a solution on every finite set.
LEMMA FoldExists ==
    ASSUME NEW f, NEW S, IsFiniteSet(S)
    PROVE  \E g : IsFold(f, g, SUBSET S)
<1> DEFINE T == {n \in Nat : \E g : IsFold(f, g, Sub(S, n))}
<1>1. 0 \in T
  <2> DEFINE g == [s \in Sub(S, 0) |-> Zero]
  <2>1. \A s \in Sub(S, 0) : s = {} BY SubOf DEF Sub
  <2>2. IsFold(f, g, Sub(S, 0)) BY <2>1 DEF IsFold, FoldOf
  <2> QED BY <2>2
<1>2. ASSUME NEW n \in T PROVE n + 1 \in T
  <2>1. PICK g : IsFold(f, g, Sub(S, n)) OBVIOUS
  <2> DEFINE h == [s \in Sub(S, n + 1) |-> FoldOf(f, g, s)]
  <2>2. ASSUME NEW s \in Sub(S, n + 1) PROVE FoldOf(f, g, s) = FoldOf(f, h, s)
    <3>1. CASE s = {} BY <3>1 DEF FoldOf
    <3>2. CASE s # {}
      <4> DEFINE t == s \ {Pick(s)}
      <4>1. t \in Sub(S, n) BY <3>2, SubOf DEF Sub
      <4>2. t \in Sub(S, n + 1) BY <4>1, SubOf DEF Sub
      <4>3. g[t] = FoldOf(f, g, t) BY <2>1, <4>1 DEF IsFold
      <4>4. h[t] = FoldOf(f, g, t) BY <4>2
      <4> QED BY <3>2, <4>3, <4>4 DEF FoldOf
    <3> QED BY <3>1, <3>2
  <2>3. IsFold(f, h, Sub(S, n + 1)) BY <2>2 DEF IsFold
  <2> QED BY <2>3
<1>3. T = Nat
  <2> HIDE DEF T
  <2>1. T \in SUBSET Nat BY DEF T
  <2> QED BY <1>1, <1>2, <2>1, AllNumbers
<1>4. Cardinality(S) \in Nat /\ Sub(S, Cardinality(S)) = SUBSET S
  <2>1. \A s \in SUBSET S : Cardinality(s) <= Cardinality(S) BY FS_Subset
  <2> QED BY <2>1, FS_CardinalityType DEF Sub
<1> QED BY <1>3, <1>4

\* Two folds of functions that agree on a set agree on its subsets.
LEMMA FoldUnique ==
    ASSUME NEW S, IsFiniteSet(S), NEW S2, S \subseteq S2, NEW f, NEW f2, NEW g, NEW h,
           IsFold(f, g, SUBSET S), IsFold(f2, h, SUBSET S2), Agree(f, f2, S)
    PROVE  \A s \in SUBSET S : g[s] = h[s]
<1> DEFINE T == {n \in Nat : \A s \in Sub(S, n) : g[s] = h[s]}
<1>1. \A s \in SUBSET S : g[s] = FoldOf(f, g, s) /\ h[s] = FoldOf(f2, h, s)
  BY DEF IsFold
<1>2. 0 \in T
  <2>1. \A s \in Sub(S, 0) : s = {} BY SubOf DEF Sub
  <2> QED BY <1>1, <2>1 DEF FoldOf
<1>3. ASSUME NEW n \in T PROVE n + 1 \in T
  <2> SUFFICES ASSUME NEW s \in Sub(S, n + 1) PROVE g[s] = h[s]
    OBVIOUS
  <2>1. s \in SUBSET S /\ (s # {} => Pick(s) \in s /\ s \ {Pick(s)} \in Sub(S, n))
    BY SubOf DEF Sub
  <2>2. g[s] = FoldOf(f, g, s) /\ h[s] = FoldOf(f2, h, s) BY <1>1, <2>1
  <2>3. s # {} => g[s \ {Pick(s)}] = h[s \ {Pick(s)}] BY <2>1
  <2> QED BY <2>1, <2>2, <2>3 DEF FoldOf, Agree
<1>4. T = Nat
  <2> HIDE DEF T
  <2>1. T \in SUBSET Nat BY DEF T
  <2> QED BY <1>2, <1>3, <2>1, AllNumbers
<1>5. \A s \in SUBSET S : Cardinality(s) \in Nat /\ s \in Sub(S, Cardinality(s)) BY SubOf
<1> QED BY <1>4, <1>5

LEMMA SumFold ==
    ASSUME NEW S, IsFiniteSet(S), NEW f
    PROVE  \E g : IsFold(f, g, SUBSET S) /\ Sum(f, S) = g[S]
<1> DEFINE g == CHOOSE g : IsFold(f, g, SUBSET S)
<1>1. IsFold(f, g, SUBSET S) BY FoldExists
<1>2. Sum(f, S) = g[S] BY SumFolds DEF IsFold
<1> HIDE DEF g
<1> QED BY <1>1, <1>2

\* A sum over a subset is what the fold over the whole set has for it.
LEMMA SumIsFold ==
    ASSUME NEW S, IsFiniteSet(S), NEW f, NEW g, IsFold(f, g, SUBSET S)
    PROVE  \A s \in SUBSET S : Sum(f, s) = g[s]
<1> TAKE s \in SUBSET S
<1>1. IsFiniteSet(s) BY FS_Subset
<1>2. PICK h : IsFold(f, h, SUBSET s) /\ Sum(f, s) = h[s] BY <1>1, SumFold
<1>3. Agree(f, f, s) BY DEF Agree
<1>4. s \subseteq S OBVIOUS
<1>5. \A t \in SUBSET s : h[t] = g[t] BY <1>1, <1>2, <1>3, <1>4, FoldUnique
<1>6. s \in SUBSET s OBVIOUS
<1> QED BY <1>2, <1>5, <1>6

\* Equal values have equal sums.
LEMMA SumSame ==
    ASSUME NEW S, IsFiniteSet(S), NEW f, NEW f2, Agree(f, f2, S)
    PROVE  Sum(f, S) = Sum(f2, S)
<1>1. PICK g : IsFold(f, g, SUBSET S) BY FoldExists
<1>2. PICK h : IsFold(f2, h, SUBSET S) BY FoldExists
<1>3. g[S] = h[S] BY <1>1, <1>2, FoldUnique
<1>4. Sum(f, S) = g[S] /\ Sum(f2, S) = h[S] BY <1>1, <1>2, SumIsFold
<1> QED BY <1>3, <1>4

LEMMA SumEmpty == ASSUME NEW f PROVE Sum(f, {}) = Zero
<1>1. IsFiniteSet({}) BY FS_EmptySet
<1>2. PICK g : IsFold(f, g, SUBSET {}) BY <1>1, FoldExists
<1>3. g[{}] = Zero BY <1>2 DEF IsFold, FoldOf
<1> QED BY <1>1, <1>2, <1>3, SumIsFold

-----------------------------------------------------------------------------
(* Sums of counts, which a difference may be part of.                      *)
Values == [Kind -> Int]

LEMMA PlusLaws ==
    /\ Zero \in Values
    /\ \A a, b \in Values : Plus(a, b) \in Values /\ Minus(a, b) \in Values /\ Plus(a, b) = Plus(b, a)
    /\ \A a \in Values : Plus(a, Zero) = a /\ Plus(Zero, a) = a /\ Minus(a, a) = Zero
    /\ \A a, b, c \in Values : Plus(Plus(a, b), c) = Plus(a, Plus(b, c))
                               /\ Plus(a, Plus(b, c)) = Plus(b, Plus(a, c))
BY DEF Values, Zero, Plus, Minus

\* A set of values that sums do not leave.
Closed(V) == Zero \in V /\ \A a, b \in V : Plus(a, b) \in V

LEMMA ValuesClosed == Closed(Values) /\ Closed(Counts) /\ Counts \subseteq Values
BY DEF Closed, Values, Counts, Zero, Plus

LEMMA FoldTyped ==
    ASSUME NEW S, IsFiniteSet(S), NEW f, NEW g, IsFold(f, g, SUBSET S),
           NEW V, Closed(V), \A x \in S : f[x] \in V
    PROVE  \A s \in SUBSET S : g[s] \in V
<1> DEFINE T == {n \in Nat : \A s \in Sub(S, n) : g[s] \in V}
<1>1. \A s \in SUBSET S : g[s] = FoldOf(f, g, s)
  BY DEF IsFold
<1>2. 0 \in T
  <2>1. \A s \in Sub(S, 0) : s = {} BY SubOf DEF Sub
  <2> QED BY <1>1, <2>1 DEF FoldOf, Closed
<1>3. ASSUME NEW n \in T PROVE n + 1 \in T
  <2> SUFFICES ASSUME NEW s \in Sub(S, n + 1) PROVE g[s] \in V
    OBVIOUS
  <2>1. s \in SUBSET S /\ (s # {} => Pick(s) \in s /\ s \ {Pick(s)} \in Sub(S, n))
    BY SubOf DEF Sub
  <2>2. g[s] = FoldOf(f, g, s) BY <1>1, <2>1
  <2>3. CASE s = {} BY <2>2, <2>3 DEF FoldOf, Closed
  <2>4. CASE s # {}
    <3>1. f[Pick(s)] \in V /\ g[s \ {Pick(s)}] \in V BY <2>1, <2>4
    <3>2. g[s] = Plus(f[Pick(s)], g[s \ {Pick(s)}]) BY <2>2, <2>4 DEF FoldOf
    <3> QED BY <3>1, <3>2 DEF Closed
  <2> QED BY <2>3, <2>4
<1>4. T = Nat
  <2> HIDE DEF T
  <2>1. T \in SUBSET Nat BY DEF T
  <2> QED BY <1>2, <1>3, <2>1, AllNumbers
<1>5. \A s \in SUBSET S : Cardinality(s) \in Nat /\ s \in Sub(S, Cardinality(s)) BY SubOf
<1> QED BY <1>4, <1>5

\* Any element may be taken from a fold first.
LEMMA FoldAny ==
    ASSUME NEW S, IsFiniteSet(S), NEW f, NEW g, IsFold(f, g, SUBSET S), \A x \in S : f[x] \in Values
    PROVE  \A s \in SUBSET S : \A x \in s : g[s] = Plus(f[x], g[s \ {x}])
<1> DEFINE T == {n \in Nat : \A s \in Sub(S, n) : \A x \in s : g[s] = Plus(f[x], g[s \ {x}])}
<1>1. \A s \in SUBSET S : g[s] = FoldOf(f, g, s)
  BY DEF IsFold
<1>2. 0 \in T
  <2>1. \A s \in Sub(S, 0) : s = {} BY SubOf DEF Sub
  <2> QED BY <2>1
<1>3. ASSUME NEW n \in T PROVE n + 1 \in T
  <2> SUFFICES ASSUME NEW s \in Sub(S, n + 1), NEW x \in s PROVE g[s] = Plus(f[x], g[s \ {x}])
    OBVIOUS
  <2>1. PICK c : c = Pick(s) OBVIOUS
  <2>2. s \in SUBSET S /\ c \in s /\ s \ {c} \in Sub(S, n) /\ s \ {x} \in Sub(S, n)
    BY <2>1, SubOf DEF Sub
  <2>3. g[s] = Plus(f[c], g[s \ {c}]) BY <1>1, <2>1, <2>2 DEF FoldOf
  <2>4. CASE x = c BY <2>3, <2>4
  <2>5. CASE x # c
    <3>1. g[s \ {c}] = Plus(f[x], g[(s \ {c}) \ {x}]) BY <2>2, <2>5
    <3>2. g[s \ {x}] = Plus(f[c], g[(s \ {x}) \ {c}]) BY <2>2, <2>5
    <3>3. (s \ {x}) \ {c} = (s \ {c}) \ {x} OBVIOUS
    <3>4. f[x] \in Values /\ f[c] \in Values BY <2>2
    <3>5. (s \ {c}) \ {x} \in SUBSET S BY <2>2
    <3>6. g[(s \ {c}) \ {x}] \in Values
      <4>1. \A t \in SUBSET S : g[t] \in Values BY FoldTyped, ValuesClosed
      <4> QED BY <3>5, <4>1
    <3>7. Plus(f[c], Plus(f[x], g[(s \ {c}) \ {x}])) = Plus(f[x], Plus(f[c], g[(s \ {c}) \ {x}]))
      <4>1. \A a, b, d \in Values : Plus(a, Plus(b, d)) = Plus(b, Plus(a, d)) BY PlusLaws
      <4> QED BY <3>4, <3>6, <4>1
    <3> QED BY <2>3, <3>1, <3>2, <3>3, <3>7
  <2> QED BY <2>4, <2>5
<1>4. T = Nat
  <2> HIDE DEF T
  <2>1. T \in SUBSET Nat BY DEF T
  <2> QED BY <1>2, <1>3, <2>1, AllNumbers
<1>5. \A s \in SUBSET S : Cardinality(s) \in Nat /\ s \in Sub(S, Cardinality(s)) BY SubOf
<1> QED BY <1>4, <1>5

LEMMA SumTyped ==
    ASSUME NEW S, IsFiniteSet(S), NEW f, NEW V, Closed(V), \A x \in S : f[x] \in V
    PROVE  Sum(f, S) \in V
<1>1. PICK g : IsFold(f, g, SUBSET S) BY FoldExists
<1>2. g[S] \in V BY <1>1, FoldTyped
<1>3. Sum(f, S) = g[S] BY <1>1, SumIsFold
<1> QED BY <1>2, <1>3

\* A sum is that of one element and of the others.
LEMMA SumWithout ==
    ASSUME NEW S, IsFiniteSet(S), NEW f, \A y \in S : f[y] \in Values, NEW x \in S
    PROVE  Sum(f, S) = Plus(f[x], Sum(f, S \ {x}))
<1>1. PICK g : IsFold(f, g, SUBSET S) BY FoldExists
<1>2. g[S] = Plus(f[x], g[S \ {x}]) BY <1>1, FoldAny
<1>3. Sum(f, S) = g[S] /\ Sum(f, S \ {x}) = g[S \ {x}] BY <1>1, SumIsFold
<1> QED BY <1>2, <1>3

\* A sum is that of one part and of the others.
LEMMA SumSplit ==
    ASSUME NEW S, IsFiniteSet(S), NEW f, \A x \in S : f[x] \in Values, NEW A \in SUBSET S
    PROVE  Sum(f, S) = Plus(Sum(f, A), Sum(f, S \ A))
<1> DEFINE T == {n \in Nat : \A s \in Sub(S, n) : Sum(f, S) = Plus(Sum(f, s), Sum(f, S \ s))}
<1>1. \A s \in SUBSET S : IsFiniteSet(s) /\ IsFiniteSet(S \ s)
                          /\ Sum(f, s) \in Values /\ Sum(f, S \ s) \in Values
  <2> TAKE s \in SUBSET S
  <2>1. IsFiniteSet(s) /\ IsFiniteSet(S \ s) BY FS_Subset
  <2>2. \A x \in s : f[x] \in Values BY <2>1
  <2>3. \A x \in S \ s : f[x] \in Values BY <2>1
  <2> QED BY <2>1, <2>2, <2>3, SumTyped, ValuesClosed
<1>2. 0 \in T
  <2>1. \A s \in Sub(S, 0) : s = {} BY SubOf DEF Sub
  <2>2. S \ {} = S OBVIOUS
  <2>3. Sum(f, S) = Plus(Sum(f, {}), Sum(f, S \ {})) BY <1>1, <2>2, SumEmpty, PlusLaws
  <2> QED BY <2>1, <2>3
<1>3. ASSUME NEW n \in T PROVE n + 1 \in T
  <2> SUFFICES ASSUME NEW s \in Sub(S, n + 1) PROVE Sum(f, S) = Plus(Sum(f, s), Sum(f, S \ s))
    OBVIOUS
  <2>1. CASE s = {}
    <3>1. S \ {} = S OBVIOUS
    <3>2. {} \in SUBSET S OBVIOUS
    <3>3. Sum(f, S) \in Values BY <1>1, <3>1, <3>2
    <3>4. Plus(Zero, Sum(f, S)) = Sum(f, S) BY <3>3, PlusLaws
    <3> QED BY <2>1, <3>1, <3>4, SumEmpty
  <2>2. CASE s # {}
    <3>1. PICK x \in s : TRUE BY <2>2
    <3>2. s \in SUBSET S /\ s \ {x} \in Sub(S, n) BY SubOf DEF Sub
    <3>3. Sum(f, S) = Plus(Sum(f, s \ {x}), Sum(f, S \ (s \ {x}))) BY <3>2
    <3>4. IsFiniteSet(s) /\ (\A y \in s : f[y] \in Values) BY <1>1, <3>2
    <3>5. Sum(f, s) = Plus(f[x], Sum(f, s \ {x})) BY <3>4, SumWithout
    <3>6. PICK r \in SUBSET S : r = S \ (s \ {x}) OBVIOUS
    <3>7. IsFiniteSet(r) /\ (\A y \in r : f[y] \in Values) /\ x \in r /\ r \ {x} = S \ s
      BY <1>1, <3>2, <3>6
    <3>8. Sum(f, r) = Plus(f[x], Sum(f, S \ s)) BY <3>7, SumWithout
    <3>9. f[x] \in Values /\ Sum(f, s \ {x}) \in Values /\ Sum(f, S \ s) \in Values
      <4>1. s \ {x} \in SUBSET S BY <3>2
      <4> QED BY <1>1, <3>2, <4>1
    <3>10. Plus(Sum(f, s \ {x}), Plus(f[x], Sum(f, S \ s)))
             = Plus(Plus(f[x], Sum(f, s \ {x})), Sum(f, S \ s))
      <4>1. \A a, b, c \in Values : Plus(a, Plus(b, c)) = Plus(Plus(b, a), c)
        BY DEF Values, Plus
      <4> QED BY <3>9, <4>1
    <3> QED BY <3>3, <3>5, <3>6, <3>8, <3>10
  <2> QED BY <2>1, <2>2
<1>4. T = Nat
  <2> HIDE DEF T
  <2>1. T \in SUBSET Nat BY DEF T
  <2> QED BY <1>2, <1>3, <2>1, AllNumbers
<1>5. Cardinality(A) \in Nat /\ A \in Sub(S, Cardinality(A)) BY SubOf
<1> QED BY <1>4, <1>5

-----------------------------------------------------------------------------
(* What happens to a sum when one of its values changes.                   *)

LEMMA SumChange ==
    ASSUME NEW S, IsFiniteSet(S), NEW f, NEW f2, NEW x \in S, Agree(f, f2, S \ {x}),
           \A y \in S : f[y] \in Values, \A y \in S : f2[y] \in Values
    PROVE  Plus(Sum(f2, S), f[x]) = Plus(Sum(f, S), f2[x])
<1>1. Sum(f, S) = Plus(f[x], Sum(f, S \ {x})) BY SumWithout
<1>2. Sum(f2, S) = Plus(f2[x], Sum(f2, S \ {x})) BY SumWithout
<1>3. IsFiniteSet(S \ {x}) BY FS_Subset
<1>4. Sum(f2, S \ {x}) = Sum(f, S \ {x}) BY <1>3, SumSame
<1>5. Sum(f, S \ {x}) \in Values BY <1>3, SumTyped, ValuesClosed
<1>6. \A a, b, c \in Values : Plus(Plus(a, c), b) = Plus(Plus(b, c), a)
  BY DEF Values, Plus
<1>7. f[x] \in Values /\ f2[x] \in Values OBVIOUS
<1> QED BY <1>1, <1>2, <1>4, <1>5, <1>6, <1>7

\* One more value is added to the sum.
LEMMA SumMore ==
    ASSUME NEW S, IsFiniteSet(S), NEW f, NEW f2, NEW x, x \notin S, Agree(f, f2, S),
           \A y \in S : f[y] \in Values, f2[x] \in Values
    PROVE  Sum(f2, S \union {x}) = Plus(f2[x], Sum(f, S))
<1>1. PICK r : r = S \union {x} OBVIOUS
<1>2. IsFiniteSet(r) /\ x \in r /\ r \ {x} = S BY <1>1, FS_AddElement
<1>3. \A y \in r : f2[y] \in Values BY <1>1 DEF Agree
<1>4. Sum(f2, r) = Plus(f2[x], Sum(f2, S)) BY <1>2, <1>3, SumWithout
<1>5. Sum(f2, S) = Sum(f, S) BY SumSame
<1> QED BY <1>1, <1>4, <1>5

-----------------------------------------------------------------------------
(* Types.                                                                  *)

LEMMA FiniteRows == TypeOK => IsFiniteSet(DOMAIN rows) /\ IsFiniteSet(OldRows)
<1> SUFFICES ASSUME TypeOK PROVE IsFiniteSet(DOMAIN rows) /\ IsFiniteSet(OldRows)
  OBVIOUS
<1>1. now \in Nat /\ DOMAIN rows \subseteq Session \X (1..now)
  BY BoundAssumption DEF TypeOK
<1>2. IsFiniteSet(1..now) BY <1>1, FS_Interval
<1>3. IsFiniteSet(Session \X (1..now)) BY <1>2, FS_Product, SessionAssumption
<1>4. IsFiniteSet(DOMAIN rows) BY <1>1, <1>3, FS_Subset
<1>5. OldRows \subseteq DOMAIN rows BY DEF OldRows
<1> QED BY <1>4, <1>5, FS_Subset

LEMMA CountsLaws ==
    /\ Zero \in Counts
    /\ \A k \in Kind : One(k) \in Counts
    /\ \A a, b \in Counts : Plus(a, b) \in Counts
BY DEF Counts, Zero, One, Plus

\* What the old rows add up to.
LEMMA RetiringTyped == TypeOK => Retiring \in Counts
<1> SUFFICES ASSUME TypeOK PROVE Retiring \in Counts
  OBVIOUS
<1>1. \A key \in OldRows : rows[key] \in Counts BY DEF TypeOK, OldRows
<1> QED BY <1>1, FiniteRows, SumTyped, ValuesClosed DEF Retiring

\* A statement that is waited for.
LEMMA WorkTyped ==
    ASSUME TypeOK, NEW s \in Session, work[s] # Idle
    PROVE  /\ work[s] \in Statements
           /\ work[s].op \in {"insert", "update", "close"}
           /\ work[s].at \in 1..now /\ work[s].to \in 1..now
           /\ work[s].values \in Counts /\ work[s].share \in Counts
<1>1. work[s] \in Statements BY DEF TypeOK
<1> QED BY <1>1 DEF Statements

\* Who waits for a statement of any kind is not idle.
LEMMA IdleHasNoOp == Idle.op = "none"
BY DEF Idle

\* An UPDATE touches the row of its statement and no other.
LEMMA UpdateTyped ==
    ASSUME TypeOK, NEW s \in Session, work[s] # Idle, Update(s)
    PROVE  /\ DOMAIN rows' = DOMAIN rows
           /\ \A key \in DOMAIN rows : rows'[key] =
                IF key = <<s, work[s].at>> THEN work[s].values ELSE rows[key]
           /\ mishap' \in BOOLEAN
           /\ ~mishap' => ~mishap /\ <<s, work[s].at>> \in DOMAIN rows /\ ~Old(work[s].at)
BY DEF Update, TypeOK

LEMMA TypeInit == Init => TypeOK
<1> SUFFICES ASSUME Init PROVE TypeOK
  OBVIOUS
<1>1. now \in 1..MaxSlot /\ MaxSlot \in Nat BY BoundAssumption DEF Init
<1>2. DOMAIN rows = {} BY DEF Init
<1>3. slot \in [Session -> 0..now] BY DEF Init
<1>4. Zero \in Counts BY CountsLaws
<1>5. failures \in 0..MaxFailures /\ crashes \in 0..MaxCrashes BY BoundAssumption DEF Init
<1> QED BY <1>1, <1>2, <1>3, <1>4, <1>5 DEF Init, TypeOK, Nothing

\* A statement's end touches its row, and what its session has of it.
LEMMA TypeDone ==
    ASSUME TypeOK, NEW s \in Session, InsertDone(s) \/ UpdateDone(s) \/ CloseDone(s)
    PROVE  TypeOK'
<1>1. work[s] # Idle
  BY IdleHasNoOp DEF InsertDone, UpdateDone, CloseDone
<1>2. /\ work[s] \in Statements
      /\ work[s].at \in 1..now /\ work[s].to \in 1..now
      /\ work[s].values \in Counts /\ work[s].share \in Counts
  BY <1>1, WorkTyped
<1>3. now \in Nat BY BoundAssumption DEF TypeOK
<1>4. CASE InsertDone(s)
  <2>1. /\ DOMAIN rows' = DOMAIN rows \union {<<s, work[s].at>>}
        /\ \A key \in DOMAIN rows' : rows'[key] =
             IF key = <<s, work[s].at>> THEN work[s].values ELSE rows[key]
    BY <1>4 DEF InsertDone, RowsWith
  <2>2. DOMAIN rows' \subseteq Session \X (1..now) BY <1>2, <2>1 DEF TypeOK
  <2>3. \A key \in DOMAIN rows' : rows'[key] \in Counts BY <1>2, <2>1 DEF TypeOK
  <2>4. stored' \in [Session -> Counts] BY <1>2, <1>4 DEF InsertDone, TypeOK
  <2>5. work' \in [Session -> {Idle} \union Statements] BY <1>4 DEF InsertDone, TypeOK
  <2>6. due' \in [Session -> BOOLEAN] BY <1>4 DEF InsertDone, TypeOK
  <2>7. UNCHANGED <<now, ended, slot, count, meta, rolledUp, retiring, failures, crashes, added, mishap>>
    BY <1>4 DEF InsertDone, poolVars, boundVars
  <2>8. Statements' = Statements BY <2>7 DEF Statements
  <2> QED BY <2>2, <2>3, <2>4, <2>5, <2>6, <2>7, <2>8 DEF TypeOK
<1>5. CASE UpdateDone(s)
  <2>1. /\ DOMAIN rows' = DOMAIN rows /\ mishap' \in BOOLEAN
        /\ \A key \in DOMAIN rows : rows'[key] =
             IF key = <<s, work[s].at>> THEN work[s].values ELSE rows[key]
    BY <1>1, <1>5, UpdateTyped DEF UpdateDone
  <2>2. \A key \in DOMAIN rows' : rows'[key] \in Counts BY <1>2, <2>1 DEF TypeOK
  <2>3. stored' \in [Session -> Counts] BY <1>2, <1>5 DEF UpdateDone, TypeOK
  <2>4. work' \in [Session -> {Idle} \union Statements] BY <1>5 DEF UpdateDone, TypeOK
  <2>5. due' \in [Session -> BOOLEAN] BY <1>5 DEF UpdateDone, TypeOK
  <2>6. UNCHANGED <<now, ended, slot, count, meta, rolledUp, retiring, failures, crashes, added>>
    BY <1>5 DEF UpdateDone, poolVars, boundVars
  <2>7. Statements' = Statements BY <2>6 DEF Statements
  <2> QED BY <2>1, <2>2, <2>3, <2>4, <2>5, <2>6, <2>7 DEF TypeOK
<1>6. CASE CloseDone(s)
  <2>1. /\ DOMAIN rows' = DOMAIN rows /\ mishap' \in BOOLEAN
        /\ \A key \in DOMAIN rows : rows'[key] =
             IF key = <<s, work[s].at>> THEN work[s].values ELSE rows[key]
    BY <1>1, <1>6, UpdateTyped DEF CloseDone
  <2>2. \A key \in DOMAIN rows' : rows'[key] \in Counts BY <1>2, <2>1 DEF TypeOK
  <2>3. stored' \in [Session -> Counts] BY <1>6, CountsLaws DEF CloseDone, TypeOK
  <2>4. Statement("insert", work[s].to, work[s].share) \in Statements
    BY <1>2, CountsLaws DEF Statement, Statements
  <2>5. work' \in [Session -> {Idle} \union Statements] BY <1>6, <2>4 DEF CloseDone, TypeOK
  <2>6. slot' \in [Session -> 0..now] BY <1>2, <1>3, <1>6 DEF CloseDone, TypeOK
  <2>7. count' \in [Session -> Counts] BY <1>2, <1>6 DEF CloseDone, TypeOK
  <2>8. UNCHANGED <<now, ended, due, meta, rolledUp, retiring, failures, crashes, added>>
    BY <1>6 DEF CloseDone, poolVars, boundVars
  <2>9. Statements' = Statements BY <2>8 DEF Statements
  <2> QED BY <2>1, <2>2, <2>3, <2>5, <2>6, <2>7, <2>8, <2>9 DEF TypeOK
<1> QED BY <1>4, <1>5, <1>6

\* A share is counted, and its statement is of the slot it was counted in.
LEMMA TypeAdd ==
    ASSUME TypeOK, NEW s \in Session, NEW k \in Kind,
           AddFirst(s, k) \/ AddInNewSlot(s, k) \/ AddInSlot(s, k)
    PROVE  TypeOK'
<1>1. /\ added' = Plus(added, One(k)) /\ s \notin ended
      /\ UNCHANGED <<now, ended, due, stored, rows, meta, rolledUp, retiring, failures, crashes, mishap>>
  BY DEF AddFirst, AddInNewSlot, AddInSlot, CanAdd, poolVars, boundVars
<1>2. added' \in Counts /\ One(k) \in Counts BY <1>1, CountsLaws DEF TypeOK
<1>3. Statements' = Statements BY <1>1 DEF Statements
<1>4. now \in 1..MaxSlot /\ now \in 1..now /\ now \in 0..now /\ MaxSlot \in Nat
  BY BoundAssumption DEF TypeOK
<1>5. count[s] \in Counts /\ Plus(count[s], One(k)) \in Counts BY <1>2, CountsLaws DEF TypeOK
<1>6. CASE AddFirst(s, k)
  <2>1. slot' \in [Session -> 0..now] BY <1>4, <1>6 DEF AddFirst, TimeSlot, TypeOK
  <2>2. count' \in [Session -> Counts] BY <1>5, <1>6 DEF AddFirst, TypeOK
  <2>3. count'[s] \in Counts BY <2>2
  <2>4. Statement("insert", TimeSlot, count'[s]) \in Statements
    BY <1>4, <2>3, CountsLaws DEF Statement, Statements, TimeSlot
  <2>5. work' \in [Session -> {Idle} \union Statements] BY <1>6, <2>4 DEF AddFirst, TypeOK
  <2> QED BY <1>1, <1>2, <1>3, <2>1, <2>2, <2>5 DEF TypeOK
<1>7. CASE AddInNewSlot(s, k)
  <2>1. slot[s] \in 1..now
    <3>1. slot[s] \in 0..now /\ slot[s] # 0 BY <1>7 DEF AddInNewSlot, TypeOK
    <3> QED BY <1>4, <3>1
  <2>2. ClosingOld(s, k) \in Statements
    BY <1>2, <1>4, <1>5, <2>1 DEF ClosingOld, Closing, Statements, TimeSlot
  <2>3. work' \in [Session -> {Idle} \union Statements] BY <1>7, <2>2 DEF AddInNewSlot, TypeOK
  <2>4. UNCHANGED <<slot, count>> BY <1>7 DEF AddInNewSlot
  <2> QED BY <1>1, <1>2, <1>3, <2>3, <2>4 DEF TypeOK
<1>8. CASE AddInSlot(s, k)
  <2>1. count' \in [Session -> Counts] BY <1>5, <1>8 DEF AddInSlot, TypeOK
  <2>2. count'[s] \in Counts BY <2>1
  <2>3. slot[s] \in 1..now BY <1>4, <1>8 DEF AddInSlot, TimeSlot
  <2>4. Statement("update", slot[s], count'[s]) \in Statements
    BY <2>2, <2>3, CountsLaws DEF Statement, Statements
  <2>5. work' \in [Session -> {Idle} \union Statements] BY <1>8, <2>4 DEF AddInSlot, TypeOK
  <2>6. UNCHANGED slot BY <1>8 DEF AddInSlot
  <2> QED BY <1>1, <1>2, <1>3, <2>1, <2>5, <2>6 DEF TypeOK
<1> QED BY <1>6, <1>7, <1>8

LEMMA TypeStep == TypeOK /\ [Next]_vars => TypeOK'
<1> SUFFICES ASSUME TypeOK, [Next]_vars PROVE TypeOK'
  OBVIOUS
<1>1. ASSUME NEW s \in Session, NEW k \in Kind,
             AddFirst(s, k) \/ AddInNewSlot(s, k) \/ AddInSlot(s, k)
      PROVE  TypeOK'
  BY <1>1, TypeAdd
<1>2. ASSUME NEW s \in Session, InsertDone(s) \/ UpdateDone(s) \/ CloseDone(s) PROVE TypeOK'
  BY <1>2, TypeDone
<1>3. ASSUME NEW s \in Session, StatementFails(s) PROVE TypeOK'
  <2>1. failures' \in 0..MaxFailures BY <1>3, BoundAssumption DEF StatementFails, TypeOK
  <2>2. work' \in [Session -> {Idle} \union Statements] BY <1>3 DEF StatementFails, TypeOK
  <2>3. mishap' \in BOOLEAN BY <1>3 DEF StatementFails, TypeOK
  <2>4. UNCHANGED <<now, ended, slot, count, due, stored, rows, meta, rolledUp, retiring, crashes, added>>
    BY <1>3 DEF StatementFails, poolVars
  <2>5. Statements' = Statements BY <2>4 DEF Statements
  <2> QED BY <2>1, <2>2, <2>3, <2>4, <2>5 DEF TypeOK
<1>4. ASSUME NEW s \in Session, End(s) \/ Minute(s) PROVE TypeOK'
  <2>1. UNCHANGED <<now, slot, count, work, stored, rows, meta, rolledUp, retiring, failures, crashes, added, mishap>>
    BY <1>4 DEF End, Minute, poolVars, boundVars
  <2>2. ended' \subseteq Session BY <1>4 DEF End, Minute, TypeOK
  <2>3. due' \in [Session -> BOOLEAN] BY <1>4 DEF End, Minute, TypeOK
  <2>4. Statements' = Statements BY <2>1 DEF Statements
  <2> QED BY <2>1, <2>2, <2>3, <2>4 DEF TypeOK
<1>5. CASE NextSlot
  <2>1. /\ now' = now + 1 /\ now < MaxSlot /\ mishap' \in BOOLEAN
        /\ due' \in [Session -> BOOLEAN]
        /\ UNCHANGED <<ended, slot, count, work, stored, rows, meta, rolledUp, retiring, failures, crashes, added>>
    BY <1>5 DEF NextSlot, TypeOK, poolVars, boundVars
  <2>2. now \in Nat /\ now' \in 1..MaxSlot BY <2>1, BoundAssumption DEF TypeOK
  <2>3. 0..now \subseteq 0..now' /\ 1..now \subseteq 1..now' BY <2>1, <2>2
  <2>4. Statements \subseteq Statements' BY <2>3 DEF Statements
  <2>5. slot' \in [Session -> 0..now'] BY <2>1, <2>3 DEF TypeOK
  <2>6. work' \in [Session -> {Idle} \union Statements'] BY <2>1, <2>4 DEF TypeOK
  <2>7. DOMAIN rows' \subseteq Session \X (1..now') BY <2>1, <2>3 DEF TypeOK
  <2> QED BY <2>1, <2>2, <2>5, <2>6, <2>7 DEF TypeOK
<1>6. CASE RollUp
  <2>1. Retiring \in Counts BY RetiringTyped
  <2>2. retiring' \in {Nothing} \union [counts : Counts] BY <1>6, <2>1 DEF RollUp
  <2>3. rolledUp' \in Counts /\ meta' \in Counts BY <1>6, <2>1, CountsLaws DEF RollUp, TypeOK
  <2>4. UNCHANGED <<now, ended, slot, count, due, work, stored, rows, failures, crashes, added, mishap>>
    BY <1>6 DEF RollUp, sessionVars, boundVars
  <2>5. Statements' = Statements BY <2>4 DEF Statements
  <2> QED BY <2>2, <2>3, <2>4, <2>5 DEF TypeOK
<1>7. CASE DeleteOld
  <2>1. /\ DOMAIN rows' = DOMAIN rows \ OldRows
        /\ \A key \in DOMAIN rows' : rows'[key] = rows[key]
    BY <1>7 DEF DeleteOld, Restrict
  <2>2. DOMAIN rows' \subseteq Session \X (1..now) BY <2>1 DEF TypeOK
  <2>3. \A key \in DOMAIN rows' : rows'[key] \in Counts BY <2>1 DEF TypeOK
  <2>4. /\ retiring' = Nothing
        /\ UNCHANGED <<now, ended, slot, count, due, work, stored, meta, rolledUp, failures, crashes, added, mishap>>
    BY <1>7 DEF DeleteOld, sessionVars, boundVars
  <2>5. Statements' = Statements BY <2>4 DEF Statements
  <2> QED BY <2>2, <2>3, <2>4, <2>5 DEF TypeOK
<1>8. CASE FlushUptime
  <2>1. /\ meta' = rolledUp
        /\ UNCHANGED <<now, ended, slot, count, due, work, stored, rows, rolledUp, retiring, failures, crashes, added, mishap>>
    BY <1>8 DEF FlushUptime, sessionVars, boundVars
  <2>2. Statements' = Statements BY <2>1 DEF Statements
  <2> QED BY <2>1, <2>2 DEF TypeOK
<1>9. CASE Crash
  <2>1. /\ rolledUp' = meta /\ retiring' = Nothing
        /\ UNCHANGED <<now, slot, count, due, stored, rows, meta, failures, added>>
    BY <1>9 DEF Crash
  <2>2. crashes' \in 0..MaxCrashes BY <1>9, BoundAssumption DEF Crash, TypeOK
  <2>3. ended' \subseteq Session BY <1>9, HomeAssumption DEF Crash, TypeOK
  <2>4. work' \in [Session -> {Idle} \union Statements] BY <1>9 DEF Crash, TypeOK
  <2>5. mishap' \in BOOLEAN BY <1>9 DEF Crash, TypeOK
  <2>6. Statements' = Statements BY <2>1 DEF Statements
  <2> QED BY <2>1, <2>2, <2>3, <2>4, <2>5, <2>6 DEF TypeOK
<1>10. CASE UNCHANGED vars
  <2>1. UNCHANGED <<now, ended, slot, count, due, work, stored, rows, meta, rolledUp, retiring, failures, crashes, added, mishap>>
    BY <1>10 DEF vars, sessionVars, poolVars, boundVars
  <2>2. Statements' = Statements BY <2>1 DEF Statements
  <2> QED BY <2>1, <2>2 DEF TypeOK
<1> QED BY <1>1, <1>2, <1>3, <1>4, <1>5, <1>6, <1>7, <1>8, <1>9, <1>10 DEF Next

(* Every variable of the ledger keeps its type: a statement is for a slot  *)
(* that has begun, and no count in a row, in memory or in the meta row is  *)
(* ever negative.                                                          *)
THEOREM TypeCorrect == Spec => []TypeOK
BY TypeInit, TypeStep, PTL DEF Spec

-----------------------------------------------------------------------------
(* The books: what memory, statements and rows have to do with each other. *)

Inserting(s) == work[s].op = "insert"

(* The statement a session waits for is for its slot, and stores what it   *)
(* has counted; at most one slot has begun since it was issued.  Nothing   *)
(* was stored of a slot that has no row yet.                               *)
SessionBooks(s) ==
    /\ work[s] # Idle =>
         /\ work[s].at = slot[s] /\ work[s].values = count[s] /\ work[s].to + 1 >= now
         /\ work[s].op = "close" => work[s].at < work[s].to
         /\ work[s].op # "close" => work[s].at = work[s].to /\ work[s].share = Zero
    /\ slot[s] = 0 => count[s] = Zero
    /\ slot[s] = 0 \/ Inserting(s) => stored[s] = Zero

(* A row is of its session's slot or an earlier one, and the row of the    *)
(* slot has what was stored last.                                          *)
RowBooks(key) ==
    /\ key[2] <= slot[key[1]]
    /\ Inserting(key[1]) => key[2] # slot[key[1]]
    /\ ~mishap /\ key[2] = slot[key[1]] => rows[key] = stored[key[1]]

(* The copy of the meta row is up to date between the steps of the roll-up,*)
(* and the rows that were summed are those that will be deleted.           *)
PoolBooks ==
    /\ rolledUp = meta
    /\ ~mishap /\ retiring # Nothing => retiring.counts = Retiring

Books ==
    /\ \A s \in Session : SessionBooks(s)
    /\ \A key \in DOMAIN rows : RowBooks(key)
    /\ PoolBooks

LEMMA BooksInit == Init => Books
<1> SUFFICES ASSUME Init PROVE Books
  OBVIOUS
<1>1. DOMAIN rows = {} BY DEF Init
<1>2. \A s \in Session : SessionBooks(s)
  BY IdleHasNoOp DEF Init, SessionBooks, Inserting
<1>3. PoolBooks BY DEF Init, PoolBooks
<1> QED BY <1>1, <1>2, <1>3 DEF Books

\* A row is that of a session, of a slot that has begun.
LEMMA RowKey ==
    ASSUME TypeOK, NEW key \in DOMAIN rows
    PROVE  key[1] \in Session /\ key[2] \in 1..now /\ key = <<key[1], key[2]>>
<1>1. key \in Session \X (1..now) BY DEF TypeOK
<1> QED BY <1>1

\* What a session's row and the rows of others have to do with its step.
LEMMA BooksOfOthers ==
    ASSUME TypeOK, Books, NEW s \in Session, now' = now, ~mishap' => ~mishap,
           \A r \in Session \ {s} : /\ slot'[r] = slot[r] /\ count'[r] = count[r]
                                    /\ stored'[r] = stored[r] /\ work'[r] = work[r]
    PROVE  /\ \A r \in Session \ {s} : SessionBooks(r)'
           /\ \A key \in DOMAIN rows : key[1] # s /\ rows'[key] = rows[key] => RowBooks(key)'
<1>1. ASSUME NEW r \in Session \ {s} PROVE SessionBooks(r)'
  BY <1>1 DEF Books, SessionBooks, Inserting
<1>2. ASSUME NEW key \in DOMAIN rows, key[1] # s, rows'[key] = rows[key] PROVE RowBooks(key)'
  <2>1. key[1] \in Session \ {s} BY <1>2, RowKey
  <2>2. RowBooks(key) BY DEF Books
  <2> QED BY <1>2, <2>1, <2>2 DEF RowBooks, Inserting
<1> QED BY <1>1, <1>2

\* A share that is added is of the slot, or waits behind the old one's end.
LEMMA BooksAdd ==
    ASSUME TypeOK, Books, NEW s \in Session, NEW k \in Kind,
           AddFirst(s, k) \/ AddInNewSlot(s, k) \/ AddInSlot(s, k)
    PROVE  Books'
<1>1. /\ work[s] = Idle
      /\ UNCHANGED <<now, stored, rows, meta, rolledUp, retiring, mishap>>
  BY DEF AddFirst, AddInNewSlot, AddInSlot, CanAdd, poolVars, boundVars
<1>2. PoolBooks' BY <1>1 DEF Books, PoolBooks, Retiring, OldRows, Old
<1>3. \A r \in Session \ {s} : /\ slot'[r] = slot[r] /\ count'[r] = count[r]
                               /\ stored'[r] = stored[r] /\ work'[r] = work[r]
  BY <1>1 DEF AddFirst, AddInNewSlot, AddInSlot, TypeOK
<1>4. /\ \A r \in Session \ {s} : SessionBooks(r)'
      /\ \A key \in DOMAIN rows : key[1] # s => RowBooks(key)'
  BY <1>1, <1>3, BooksOfOthers
<1>5. now \in Nat /\ now >= 1 /\ slot[s] \in 0..now BY BoundAssumption DEF TypeOK
<1>6. SessionBooks(s) BY DEF Books
<1>7. \A key \in DOMAIN rows : key[1] = s => key[2] <= slot[s] /\ key[2] \in 1..now /\ RowBooks(key)
  BY RowKey DEF Books, RowBooks
<1>8. ASSUME SessionBooks(s)', \A key \in DOMAIN rows : key[1] = s => RowBooks(key)' PROVE Books'
  <2>1. \A r \in Session : SessionBooks(r)' BY <1>4, <1>8
  <2>2. \A key \in DOMAIN rows' : RowBooks(key)' BY <1>1, <1>4, <1>8
  <2> QED BY <1>2, <2>1, <2>2 DEF Books
<1>9. CASE AddFirst(s, k)
  <2>1. /\ slot[s] = 0 /\ slot'[s] = now
        /\ work'[s] = Statement("insert", now, count'[s])
    BY <1>9 DEF AddFirst, TypeOK, TimeSlot
  <2>2. SessionBooks(s)'
    BY <1>1, <1>5, <1>6, <2>1 DEF SessionBooks, Statement
  <2>3. \A key \in DOMAIN rows : key[1] # s
    BY <1>5, <1>7, <2>1
  <2> QED BY <1>8, <2>2, <2>3
<1>10. CASE AddInNewSlot(s, k)
  <2>1. /\ slot[s] # 0 /\ slot[s] # now /\ slot'[s] = slot[s] /\ count'[s] = count[s]
        /\ work'[s] = Closing(s, count[s], now, k)
    BY <1>10 DEF AddInNewSlot, TypeOK, TimeSlot, ClosingOld
  <2>2. SessionBooks(s)'
    BY <1>1, <1>5, <1>6, <2>1 DEF SessionBooks, Closing, Inserting
  <2>3. ASSUME NEW key \in DOMAIN rows, key[1] = s PROVE RowBooks(key)'
    BY <1>1, <1>7, <2>1, <2>3 DEF RowBooks, Closing, Inserting
  <2> QED BY <1>8, <2>2, <2>3
<1>11. CASE AddInSlot(s, k)
  <2>1. /\ slot[s] = now /\ slot'[s] = slot[s]
        /\ work'[s] = Idle \/ work'[s] = Statement("update", slot[s], count'[s])
    BY <1>11 DEF AddInSlot, TypeOK, TimeSlot
  <2>2. ~Inserting(s)' BY <2>1, IdleHasNoOp DEF Inserting, Statement
  <2>3. SessionBooks(s)'
    <3>1. CASE work'[s] = Idle BY <1>1, <1>5, <1>6, <2>1, <2>2, <3>1 DEF SessionBooks
    <3>2. CASE work'[s] = Statement("update", slot[s], count'[s])
      BY <1>1, <1>5, <1>6, <2>1, <2>2, <3>2 DEF SessionBooks, Statement
    <3> QED BY <2>1, <3>1, <3>2
  <2>4. ASSUME NEW key \in DOMAIN rows, key[1] = s PROVE RowBooks(key)'
    BY <1>1, <1>7, <2>1, <2>2, <2>4 DEF RowBooks
  <2> QED BY <1>8, <2>3, <2>4
<1> QED BY <1>9, <1>10, <1>11

\* A statement that ends, with or without its row.
LEMMA BooksDone ==
    ASSUME TypeOK, Books, NEW s \in Session, InsertDone(s) \/ UpdateDone(s) \/ CloseDone(s)
    PROVE  Books'
<1>1. work[s] # Idle
  BY IdleHasNoOp DEF InsertDone, UpdateDone, CloseDone
<1>2. /\ work[s].at \in 1..now /\ work[s].to \in 1..now /\ now \in Nat
      /\ work[s].values \in Counts /\ work[s].share \in Counts
  BY <1>1, WorkTyped, BoundAssumption DEF TypeOK
<1>3. /\ SessionBooks(s)
      /\ work[s].at = slot[s] /\ work[s].values = count[s] /\ work[s].to + 1 >= now
  BY <1>1 DEF Books, SessionBooks
<1>4. PICK key0 : key0 = <<s, slot[s]>> OBVIOUS
<1>5. /\ DOMAIN rows' = DOMAIN rows \/ (Inserting(s) /\ DOMAIN rows' = DOMAIN rows \union {key0})
      /\ \A key \in DOMAIN rows' : rows'[key] = IF key = key0 THEN count[s] ELSE rows[key]
      /\ ~mishap' => ~mishap /\ ~Old(slot[s])
      /\ UNCHANGED <<now, meta, rolledUp, retiring>>
  <2>1. CASE InsertDone(s)
    <3>1. work[s].to = slot[s] BY <1>1, <1>3, <2>1 DEF SessionBooks, InsertDone
    <3>2. ~Old(slot[s]) BY <1>2, <1>3, <3>1, RetentionAssumption DEF Old
    <3> QED BY <1>3, <1>4, <2>1, <3>2 DEF InsertDone, RowsWith, Inserting, poolVars
  <2>2. CASE UpdateDone(s)
    BY <1>1, <1>3, <1>4, <2>2, UpdateTyped DEF UpdateDone, poolVars
  <2>3. CASE CloseDone(s)
    BY <1>1, <1>3, <1>4, <2>3, UpdateTyped DEF CloseDone, poolVars
  <2> QED BY <2>1, <2>2, <2>3
<1>6. \A r \in Session \ {s} : /\ slot'[r] = slot[r] /\ count'[r] = count[r]
                               /\ stored'[r] = stored[r] /\ work'[r] = work[r]
  BY DEF InsertDone, UpdateDone, CloseDone, TypeOK
<1>7. /\ \A r \in Session \ {s} : SessionBooks(r)'
      /\ \A key \in DOMAIN rows : key[1] # s /\ rows'[key] = rows[key] => RowBooks(key)'
  BY <1>5, <1>6, BooksOfOthers
<1>8. \A key \in DOMAIN rows' : \/ key \in DOMAIN rows /\ key # key0 /\ rows'[key] = rows[key]
                                \/ key = key0 /\ rows'[key] = count[s]
  BY <1>5
<1>9. \A key \in DOMAIN rows : key[1] = s => /\ key[2] <= slot[s] /\ key[2] \in 1..now
                                             /\ key = <<s, key[2]>> /\ RowBooks(key)
  BY RowKey DEF Books, RowBooks
<1>10. PoolBooks'
  <2>1. rolledUp' = meta' BY <1>5 DEF Books, PoolBooks
  <2>2. ASSUME ~mishap', retiring' # Nothing PROVE retiring'.counts = Retiring'
    <3>1. retiring.counts = Retiring BY <1>5, <2>2 DEF Books, PoolBooks
    <3>2. OldRows' = OldRows
      <4>1. \A key \in DOMAIN rows' : Old(key[2])' <=> Old(key[2]) BY <1>5 DEF Old
      <4>2. ~Old(key0[2]) BY <1>4, <1>5, <2>2
      <4> QED BY <1>5, <4>1, <4>2 DEF OldRows
    <3>3. Agree(rows, rows', OldRows)
      <4>1. ~Old(key0[2]) BY <1>4, <1>5, <2>2
      <4>2. OldRows \subseteq DOMAIN rows /\ key0 \notin OldRows BY <4>1 DEF OldRows
      <4>3. DOMAIN rows \subseteq DOMAIN rows' BY <1>5
      <4> QED BY <1>5, <4>2, <4>3 DEF Agree
    <3>4. Sum(rows, OldRows) = Sum(rows', OldRows) BY <3>3, FiniteRows, SumSame
    <3> QED BY <1>5, <3>1, <3>2, <3>4 DEF Retiring
  <2> QED BY <2>1, <2>2 DEF PoolBooks
<1>11. ASSUME SessionBooks(s)', \A key \in DOMAIN rows' : key[1] = s => RowBooks(key)' PROVE Books'
  <2>1. \A r \in Session : SessionBooks(r)' BY <1>7, <1>11
  <2>2. \A key \in DOMAIN rows' : RowBooks(key)'
    <3> SUFFICES ASSUME NEW key \in DOMAIN rows', key[1] # s PROVE RowBooks(key)'
      BY <1>11
    <3> QED BY <1>4, <1>7, <1>8
  <2> QED BY <1>10, <2>1, <2>2 DEF Books
<1>12. CASE InsertDone(s) \/ UpdateDone(s)
  <2>1. /\ UNCHANGED <<slot, count, now>> /\ stored'[s] = count[s] /\ work'[s] = Idle
    BY <1>3, <1>12 DEF InsertDone, UpdateDone, TypeOK
  <2>2. ~Inserting(s)' BY <2>1, IdleHasNoOp DEF Inserting
  <2>3. slot[s] # 0 BY <1>2, <1>3
  <2>4. SessionBooks(s)' BY <1>3, <2>1, <2>2, <2>3 DEF SessionBooks
  <2>5. ASSUME NEW key \in DOMAIN rows', key[1] = s PROVE RowBooks(key)'
    <3>1. CASE key = key0 BY <1>2, <1>3, <1>4, <1>8, <2>1, <2>2, <3>1 DEF RowBooks
    <3>2. CASE key \in DOMAIN rows /\ key # key0
      <4>1. key[2] # slot[s] BY <1>4, <1>9, <2>5, <3>2
      <4> QED BY <1>9, <2>1, <2>2, <2>5, <3>2, <4>1 DEF RowBooks
    <3> QED BY <1>8, <3>1, <3>2
  <2> QED BY <1>11, <2>4, <2>5
<1>13. CASE CloseDone(s)
  <2>1. /\ now' = now /\ slot'[s] = work[s].to /\ count'[s] = work[s].share /\ stored'[s] = Zero
        /\ work'[s] = Statement("insert", work[s].to, work[s].share)
    BY <1>13 DEF CloseDone, TypeOK
  <2>2. slot[s] < work[s].to BY <1>1, <1>3, <1>13 DEF SessionBooks, CloseDone
  <2>3. SessionBooks(s)' BY <1>2, <1>3, <2>1, IdleHasNoOp DEF SessionBooks, Statement
  <2>4. ASSUME NEW key \in DOMAIN rows', key[1] = s PROVE RowBooks(key)'
    <3>1. key[2] <= slot[s] /\ key[2] \in 1..now
      BY <1>2, <1>3, <1>4, <1>8, <1>9, <2>4
    <3>2. key[2] < slot'[s] BY <1>2, <1>3, <2>1, <2>2, <3>1
    <3> QED BY <1>2, <2>1, <2>4, <3>1, <3>2 DEF RowBooks
  <2> QED BY <1>11, <2>3, <2>4
<1> QED BY <1>12, <1>13

LEMMA BooksStep == TypeOK /\ Books /\ [Next]_vars => Books'
<1> SUFFICES ASSUME TypeOK, Books, [Next]_vars PROVE Books'
  OBVIOUS
<1>1. ASSUME NEW s \in Session, NEW k \in Kind,
             AddFirst(s, k) \/ AddInNewSlot(s, k) \/ AddInSlot(s, k)
      PROVE  Books'
  BY <1>1, BooksAdd
<1>2. ASSUME NEW s \in Session, InsertDone(s) \/ UpdateDone(s) \/ CloseDone(s) PROVE Books'
  BY <1>2, BooksDone
<1>3. ASSUME UNCHANGED <<now, slot, count, stored, rows>>, PoolBooks', ~mishap' => ~mishap,
             \A s \in Session : work'[s] = work[s] \/ work'[s] = Idle
      PROVE  Books'
  <2>1. ASSUME NEW s \in Session PROVE SessionBooks(s)'
    <3>1. SessionBooks(s) BY DEF Books
    <3> QED BY <1>3, <3>1, IdleHasNoOp DEF SessionBooks, Inserting
  <2>2. ASSUME NEW key \in DOMAIN rows' PROVE RowBooks(key)'
    <3>1. RowBooks(key) /\ key[1] \in Session BY <1>3, RowKey DEF Books
    <3> QED BY <1>3, <3>1, IdleHasNoOp DEF RowBooks, Inserting
  <2> QED BY <1>3, <2>1, <2>2 DEF Books
<1>4. Retiring' = Retiring \/ ~UNCHANGED <<now, rows>>
  BY DEF Retiring, OldRows, Old
<1>5. ASSUME NEW s \in Session, StatementFails(s) \/ End(s) \/ Minute(s) PROVE Books'
  <2>1. /\ UNCHANGED <<now, slot, count, stored, rows, meta, rolledUp, retiring>>
        /\ ~mishap' => ~mishap
        /\ \A r \in Session : work'[r] = work[r] \/ work'[r] = Idle
    BY <1>5 DEF StatementFails, End, Minute, TypeOK, poolVars
  <2>2. PoolBooks' BY <1>4, <2>1 DEF Books, PoolBooks
  <2> QED BY <1>3, <2>1, <2>2
<1>6. CASE NextSlot
  <2>1. /\ now' = now + 1 /\ now \in Nat
        /\ \A s \in Session : work[s] # Idle => work[s].to = now
        /\ ~mishap' => ~mishap
        /\ ~mishap' /\ retiring # Nothing => \A key \in DOMAIN rows : key[2] # now' - Retention
        /\ UNCHANGED <<slot, count, work, stored, rows, meta, rolledUp, retiring>>
    BY <1>6, BoundAssumption DEF NextSlot, TypeOK, poolVars
  <2>2. ASSUME NEW s \in Session PROVE SessionBooks(s)'
    <3>1. SessionBooks(s) BY DEF Books
    <3>2. work[s] # Idle => work[s].to + 1 >= now' BY <2>1
    <3> QED BY <2>1, <3>1, <3>2 DEF SessionBooks, Inserting
  <2>3. ASSUME NEW key \in DOMAIN rows' PROVE RowBooks(key)'
    BY <2>1, <2>3 DEF Books, RowBooks, Inserting
  <2>4. ASSUME ~mishap', retiring' # Nothing PROVE retiring'.counts = Retiring'
    <3>1. ASSUME NEW key \in DOMAIN rows PROVE Old(key[2])' <=> Old(key[2])
      <4>1. key[2] \in Nat /\ key[2] # now' - Retention BY <2>1, <2>4, <3>1, RowKey
      <4> QED BY <2>1, <4>1, RetentionAssumption DEF Old
    <3>2. OldRows' = OldRows BY <2>1, <3>1 DEF OldRows
    <3> QED BY <2>1, <2>4, <3>2 DEF Books, PoolBooks, Retiring
  <2>5. PoolBooks' BY <2>1, <2>4 DEF Books, PoolBooks
  <2> QED BY <2>2, <2>3, <2>5 DEF Books
<1>7. CASE RollUp
  <2>1. /\ UNCHANGED <<now, slot, count, work, stored, rows, mishap>>
        /\ retiring' = [counts |-> Retiring]
        /\ rolledUp' = Plus(rolledUp, Retiring)
        /\ meta' = IF Retiring = Zero THEN meta ELSE rolledUp'
    BY <1>7 DEF RollUp, sessionVars
  <2>2. rolledUp = meta /\ meta \in Values BY ValuesClosed DEF Books, PoolBooks, TypeOK
  <2>3. Plus(meta, Zero) = meta BY <2>2, PlusLaws
  <2>4. PoolBooks' BY <1>4, <2>1, <2>2, <2>3 DEF PoolBooks
  <2> QED BY <1>3, <2>1, <2>4
<1>8. CASE DeleteOld
  <2>1. /\ DOMAIN rows' \subseteq DOMAIN rows /\ retiring' = Nothing
        /\ \A key \in DOMAIN rows' : rows'[key] = rows[key]
        /\ UNCHANGED <<now, slot, count, work, stored, meta, rolledUp, mishap>>
    BY <1>8 DEF DeleteOld, Restrict, sessionVars
  <2>2. PoolBooks' BY <2>1 DEF Books, PoolBooks
  <2>3. \A s \in Session : SessionBooks(s)' BY <2>1 DEF Books, SessionBooks, Inserting
  <2>4. \A key \in DOMAIN rows' : RowBooks(key)' BY <2>1 DEF Books, RowBooks, Inserting
  <2> QED BY <2>2, <2>3, <2>4 DEF Books
<1>9. CASE FlushUptime
  <2>1. /\ meta' = rolledUp
        /\ UNCHANGED <<now, slot, count, work, stored, rows, rolledUp, retiring, mishap>>
    BY <1>9 DEF FlushUptime, sessionVars
  <2>2. PoolBooks' BY <1>4, <2>1 DEF Books, PoolBooks
  <2> QED BY <1>3, <2>1, <2>2
<1>10. CASE Crash
  <2>1. /\ rolledUp' = meta /\ retiring' = Nothing /\ (~mishap' => ~mishap)
        /\ UNCHANGED <<now, slot, count, stored, rows, meta>>
        /\ \A s \in Session : work'[s] = work[s] \/ work'[s] = Idle
    BY <1>10 DEF Crash
  <2>2. PoolBooks' BY <2>1 DEF PoolBooks
  <2> QED BY <1>3, <2>1, <2>2
<1>11. CASE UNCHANGED vars
  <2>1. UNCHANGED <<now, slot, count, work, stored, rows, meta, rolledUp, retiring, mishap>>
    BY <1>11 DEF vars, sessionVars, poolVars
  <2>2. PoolBooks' BY <1>4, <2>1 DEF Books, PoolBooks
  <2> QED BY <1>3, <2>1, <2>2
<1> QED BY <1>1, <1>2, <1>5, <1>6, <1>7, <1>8, <1>9, <1>10, <1>11 DEF Next

-----------------------------------------------------------------------------
(* The totals.                                                             *)

Memory == [s \in Session |-> Unstored(s)]
InRows == Sum(rows, DOMAIN rows)
InMemory == Sum(Memory, Session)

LEMMA UnstoredValue ==
    ASSUME NEW c \in Counts, NEW st \in Counts, NEW w, w = Idle \/ w.share \in Counts
    PROVE  Plus(Minus(c, st), IF w = Idle THEN Zero ELSE w.share) \in Values
<1>1. c \in Values /\ st \in Values BY ValuesClosed
<1>2. Minus(c, st) \in Values BY <1>1, PlusLaws
<1>3. (IF w = Idle THEN Zero ELSE w.share) \in Values BY ValuesClosed, CountsLaws
<1>4. \A a, b \in Values : Plus(a, b) \in Values BY PlusLaws
<1> QED BY <1>2, <1>3, <1>4

LEMMA UnstoredTyped ==
    ASSUME TypeOK, NEW s \in Session
    PROVE  Unstored(s) \in Values /\ Memory[s] = Unstored(s)
<1>1. count[s] \in Counts /\ stored[s] \in Counts BY DEF TypeOK
<1>2. work[s] = Idle \/ work[s].share \in Counts BY WorkTyped
<1> QED BY <1>1, <1>2, UnstoredValue DEF Unstored, Memory

\* The terms of AllTimeExact are values.
LEMMA TotalsTyped ==
    ASSUME TypeOK
    PROVE  /\ InRows \in Values /\ InMemory \in Values
           /\ meta \in Values /\ added \in Values /\ Twice \in Values
<1>1. InRows \in Values
  <2>1. \A key \in DOMAIN rows : rows[key] \in Values BY ValuesClosed DEF TypeOK
  <2> QED BY <2>1, FiniteRows, SumTyped, ValuesClosed DEF InRows
<1>2. InMemory \in Values
  <2>1. \A s \in Session : Memory[s] \in Values BY UnstoredTyped
  <2> QED BY <2>1, SessionAssumption, SumTyped, ValuesClosed DEF InMemory
<1>3. Twice \in Values BY ValuesClosed, CountsLaws DEF TypeOK, Twice
<1> QED BY <1>1, <1>2, <1>3, ValuesClosed DEF TypeOK

\* So they are behind a step.
LEMMA NextTyped ==
    ASSUME TypeOK'
    PROVE  /\ \A s \in Session : Unstored(s)' \in Values /\ Memory'[s] = Unstored(s)'
           /\ InRows' \in Values /\ InMemory' \in Values
<1>1. ASSUME NEW s \in Session PROVE Unstored(s)' \in Values /\ Memory'[s] = Unstored(s)'
  <2>1. count'[s] \in Counts /\ stored'[s] \in Counts BY DEF TypeOK
  <2>2. work'[s] = Idle \/ work'[s].share \in Counts BY DEF TypeOK, Statements
  <2> QED BY <2>1, <2>2, UnstoredValue DEF Unstored, Memory
<1>2. InMemory' \in Values
  <2>1. \A s \in Session : Memory'[s] \in Values BY <1>1
  <2> QED BY <2>1, SessionAssumption, SumTyped, ValuesClosed DEF InMemory
<1>3. InRows' \in Values
  <2>1. now' \in Nat /\ DOMAIN rows' \subseteq Session \X (1..now')
    BY BoundAssumption DEF TypeOK
  <2>2. IsFiniteSet(Session \X (1..now'))
    <3>1. \A n \in Nat : IsFiniteSet(1..n) BY FS_Interval
    <3>2. IsFiniteSet(1..now') BY <2>1, <3>1
    <3> QED BY <3>2, FS_Product, SessionAssumption
  <2>3. IsFiniteSet(DOMAIN rows') BY <2>1, <2>2, FS_Subset
  <2>4. \A key \in DOMAIN rows' : rows'[key] \in Values BY ValuesClosed DEF TypeOK
  <2> QED BY <2>3, <2>4, SumTyped, ValuesClosed DEF InRows
<1> QED BY <1>1, <1>2, <1>3

\* Only one session's memory changes.
LEMMA MemoryChange ==
    ASSUME TypeOK, TypeOK', NEW s \in Session,
           \A r \in Session \ {s} : /\ count'[r] = count[r] /\ stored'[r] = stored[r]
                                    /\ work'[r] = work[r]
    PROVE  Plus(InMemory', Unstored(s)) = Plus(InMemory, Unstored(s)')
<1>1. \A r \in Session : /\ Memory[r] = Unstored(r) /\ Memory[r] \in Values
  BY UnstoredTyped
<1>2. \A r \in Session : Memory'[r] = Unstored(r)' /\ Memory'[r] \in Values
  BY NextTyped
<1>3. Agree(Memory, Memory', Session \ {s})
  BY <1>1, <1>2 DEF Agree, Unstored
<1>4. Plus(Sum(Memory', Session), Memory[s]) = Plus(Sum(Memory, Session), Memory'[s])
  BY <1>1, <1>2, <1>3, SessionAssumption, SumChange
<1> QED BY <1>1, <1>2, <1>4 DEF InMemory

\* The row of a session's slot is new.
LEMMA RowNew ==
    ASSUME TypeOK, NEW key, key \notin DOMAIN rows, NEW values \in Counts,
           rows' = RowsWith(key, values)
    PROVE  InRows' = Plus(InRows, values)
<1>1. DOMAIN rows' = DOMAIN rows \union {key} BY DEF RowsWith
<1>2. Agree(rows', rows, DOMAIN rows) /\ rows'[key] = values BY DEF Agree, RowsWith
<1>3. \A k \in DOMAIN rows : rows[k] \in Values BY ValuesClosed DEF TypeOK
<1>4. Sum(rows', DOMAIN rows \union {key}) = Plus(rows'[key], InRows)
  <2>1. Agree(rows, rows', DOMAIN rows) BY <1>2 DEF Agree
  <2>2. rows'[key] \in Values BY <1>2, ValuesClosed
  <2> QED BY <1>3, <2>1, <2>2, FiniteRows, SumMore DEF InRows
<1>5. values \in Values /\ InRows \in Values BY TotalsTyped, ValuesClosed
<1> QED BY <1>1, <1>2, <1>4, <1>5, PlusLaws DEF InRows

\* The row of a session's slot is brought up to date.
LEMMA RowUpdated ==
    ASSUME TypeOK, NEW s \in Session, work[s] # Idle, Update(s), ~mishap'
    PROVE  /\ <<s, work[s].at>> \in DOMAIN rows
           /\ Plus(InRows', rows[<<s, work[s].at>>]) = Plus(InRows, work[s].values)
<1>1. PICK key : key = <<s, work[s].at>> OBVIOUS
<1>2. /\ key \in DOMAIN rows /\ DOMAIN rows' = DOMAIN rows
      /\ \A k \in DOMAIN rows : rows'[k] = IF k = key THEN work[s].values ELSE rows[k]
  BY <1>1, UpdateTyped
<1>3. Agree(rows, rows', DOMAIN rows \ {key}) /\ rows'[key] = work[s].values
  BY <1>2 DEF Agree
<1>4. \A k \in DOMAIN rows : rows[k] \in Values BY ValuesClosed DEF TypeOK
<1>5. \A k \in DOMAIN rows : rows'[k] \in Values BY <1>2, <1>4, WorkTyped, ValuesClosed
<1>6. Plus(Sum(rows', DOMAIN rows), rows[key]) = Plus(Sum(rows, DOMAIN rows), rows'[key])
  BY <1>2, <1>3, <1>4, <1>5, FiniteRows, SumChange
<1> QED BY <1>1, <1>2, <1>3, <1>6 DEF InRows

(* The totals agree; one of them changes as one of its parts does; what    *)
(* goes into the rows comes from the memory or is new.                     *)
Balanced(m, R, U, a, T) == Plus(Plus(m, R), U) = Plus(a, T)
Moved(x, x2, d, d2) == Plus(x2, d) = Plus(x, d2)
Matched(a, a2, r, r2, u, u2) == Plus(a2, Plus(r, u)) = Plus(a, Plus(r2, u2))

LEMMA Balance ==
    ASSUME NEW m \in Values, NEW R \in Values, NEW U \in Values, NEW a \in Values,
           NEW T \in Values, NEW R2 \in Values, NEW U2 \in Values, NEW a2 \in Values,
           NEW r \in Values, NEW r2 \in Values, NEW u \in Values, NEW u2 \in Values,
           Moved(R, R2, r, r2), Moved(U, U2, u, u2), Matched(a, a2, r, r2, u, u2),
           Balanced(m, R, U, a, T)
    PROVE  Balanced(m, R2, U2, a2, T)
<1> USE DEF Balanced, Moved, Matched
<1>1. ASSUME NEW k \in Kind
      PROVE  /\ R2[k] + r[k] = R[k] + r2[k]
             /\ U2[k] + u[k] = U[k] + u2[k]
             /\ a2[k] + (r[k] + u[k]) = a[k] + (r2[k] + u2[k])
             /\ m[k] + R[k] + U[k] = a[k] + T[k]
  <2>1. \A x, y \in Values : Plus(x, y)[k] = x[k] + y[k] /\ Plus(x, y) \in Values
    BY DEF Plus, Values
  <2>2. Plus(R2, r)[k] = R2[k] + r[k] /\ Plus(R, r2)[k] = R[k] + r2[k] BY <2>1
  <2>3. Plus(U2, u)[k] = U2[k] + u[k] /\ Plus(U, u2)[k] = U[k] + u2[k] BY <2>1
  <2>4. Plus(a2, Plus(r, u))[k] = a2[k] + (r[k] + u[k]) BY <2>1
  <2>5. Plus(a, Plus(r2, u2))[k] = a[k] + (r2[k] + u2[k]) BY <2>1
  <2>6. Plus(Plus(m, R), U)[k] = m[k] + R[k] + U[k] /\ Plus(a, T)[k] = a[k] + T[k] BY <2>1
  <2> QED BY <2>2, <2>3, <2>4, <2>5, <2>6
<1>2. ASSUME NEW k \in Kind PROVE m[k] + R2[k] + U2[k] = a2[k] + T[k]
  <2>1. /\ m[k] \in Int /\ R[k] \in Int /\ U[k] \in Int /\ a[k] \in Int /\ T[k] \in Int
        /\ R2[k] \in Int /\ U2[k] \in Int /\ a2[k] \in Int
        /\ r[k] \in Int /\ r2[k] \in Int /\ u[k] \in Int /\ u2[k] \in Int
    BY DEF Values
  <2>2. /\ R2[k] + r[k] = R[k] + r2[k] /\ U2[k] + u[k] = U[k] + u2[k]
        /\ a2[k] + (r[k] + u[k]) = a[k] + (r2[k] + u2[k])
        /\ m[k] + R[k] + U[k] = a[k] + T[k]
    BY <1>1
  <2>3. PICK mk, Rk, Uk, ak, Tk, R2k, U2k, a2k, rk, r2k, uk, u2k \in Int :
          /\ mk = m[k] /\ Rk = R[k] /\ Uk = U[k] /\ ak = a[k] /\ Tk = T[k]
          /\ R2k = R2[k] /\ U2k = U2[k] /\ a2k = a2[k]
          /\ rk = r[k] /\ r2k = r2[k] /\ uk = u[k] /\ u2k = u2[k]
    BY <2>1
  <2>4. R2k + rk = Rk + r2k /\ U2k + uk = Uk + u2k
    BY <2>2, <2>3
  <2>5. a2k + (rk + uk) = ak + (r2k + u2k) /\ mk + Rk + Uk = ak + Tk
    BY <2>2, <2>3
  <2>6. mk + R2k + U2k = a2k + Tk BY <2>4, <2>5
  <2> QED BY <2>3, <2>6
<1> QED BY <1>2 DEF Plus, Values

-----------------------------------------------------------------------------
(* Every step keeps the totals.                                            *)

LEMMA ExactInit == Init => AllTimeExact
<1> SUFFICES ASSUME Init PROVE AllTimeExact
  OBVIOUS
<1>1. InRows = Zero
  <2>1. DOMAIN rows = {} BY DEF Init
  <2> QED BY <2>1, SumEmpty DEF InRows
<1>2. InMemory = Zero
  <2>1. \A s \in Session : Unstored(s) = Plus(Minus(Zero, Zero), Zero) BY DEF Init, Unstored
  <2>2. Plus(Minus(Zero, Zero), Zero) = Zero /\ Plus(Zero, Zero) = Zero BY PlusLaws
  <2>3. \A s \in Session : Memory[s] \in {Zero} BY <2>1, <2>2 DEF Memory
  <2>4. Closed({Zero}) BY <2>2 DEF Closed
  <2>5. InMemory \in {Zero} BY <2>3, <2>4, SessionAssumption, SumTyped DEF InMemory
  <2> QED BY <2>5
<1>3. Plus(Plus(Zero, Zero), Zero) = Plus(Zero, Zero) BY PlusLaws
<1>4. meta = Zero /\ added = Zero /\ Twice = Zero BY DEF Init, Twice
<1> QED BY <1>1, <1>2, <1>3, <1>4 DEF AllTimeExact, InRows, InMemory, Memory

\* A share is added and its session has it in memory.
LEMMA ExactAdd ==
    ASSUME TypeOK, TypeOK', AllTimeExact, NEW s \in Session, NEW k \in Kind,
           AddFirst(s, k) \/ AddInNewSlot(s, k) \/ AddInSlot(s, k)
    PROVE  AllTimeExact'
<1> SUFFICES ASSUME ~mishap'
             PROVE  Plus(Plus(meta', InRows'), InMemory') = Plus(added', Twice')
  BY DEF AllTimeExact, InRows, InMemory, Memory
<1>1. /\ work[s] = Idle /\ added' = Plus(added, One(k))
      /\ UNCHANGED <<now, stored, rows, meta, retiring, mishap>>
  BY DEF AddFirst, AddInNewSlot, AddInSlot, CanAdd, poolVars
<1>2. \A r \in Session \ {s} : /\ count'[r] = count[r] /\ stored'[r] = stored[r]
                               /\ work'[r] = work[r]
  BY <1>1 DEF AddFirst, AddInNewSlot, AddInSlot, TypeOK
<1>3. Plus(InMemory', Unstored(s)) = Plus(InMemory, Unstored(s)') BY <1>2, MemoryChange
<1>4. InRows' = InRows /\ Twice' = Twice BY <1>1 DEF InRows, Twice
<1>5. Plus(Plus(meta, InRows), InMemory) = Plus(added, Twice)
  BY <1>1 DEF AllTimeExact, InRows, InMemory, Memory
<1>6. /\ One(k) \in Values /\ count[s] \in Values /\ stored[s] \in Values
      /\ Unstored(s) = Plus(Minus(count[s], stored[s]), Zero)
  BY <1>1, CountsLaws, ValuesClosed DEF TypeOK, Unstored
<1>7. Unstored(s)' = Plus(Unstored(s), One(k))
  <2>1. \A a, b, c \in Values :
          /\ Plus(Minus(Plus(a, c), b), Zero) = Plus(Plus(Minus(a, b), Zero), c)
          /\ Plus(Minus(a, b), c) = Plus(Plus(Minus(a, b), Zero), c)
    BY DEF Values, Plus, Minus, Zero
  <2>2. CASE AddInNewSlot(s, k)
    <3>1. count' = count /\ work'[s] = ClosingOld(s, k)
      BY <2>2 DEF AddInNewSlot, TypeOK
    <3>2. work'[s] # Idle /\ work'[s].share = One(k)
      BY <3>1, IdleHasNoOp DEF ClosingOld, Closing
    <3>3. Unstored(s)' = Plus(Minus(count[s], stored[s]), One(k))
      BY <1>1, <3>1, <3>2 DEF Unstored
    <3> QED BY <1>6, <2>1, <3>3
  <2>3. CASE AddFirst(s, k) \/ AddInSlot(s, k)
    <3>1. /\ count'[s] = Plus(count[s], One(k))
          /\ work'[s] = Idle \/ work'[s].share = Zero
      BY <2>3 DEF AddFirst, AddInSlot, Statement, TypeOK
    <3>2. Unstored(s)' = Plus(Minus(Plus(count[s], One(k)), stored[s]), Zero)
      BY <1>1, <3>1 DEF Unstored
    <3> QED BY <1>6, <2>1, <3>2
  <2> QED BY <2>2, <2>3
<1>8. /\ meta \in Values /\ InRows \in Values /\ InMemory \in Values /\ added \in Values
      /\ Twice \in Values /\ Unstored(s) \in Values /\ Zero \in Values
  BY TotalsTyped, UnstoredTyped, PlusLaws
<1>9. added' \in Values /\ InMemory' \in Values /\ Unstored(s)' \in Values
  <2>1. \A a, b \in Values : Plus(a, b) \in Values BY PlusLaws
  <2>2. added' \in Values /\ Unstored(s)' \in Values BY <1>1, <1>6, <1>7, <1>8, <2>1
  <2> QED BY <2>2, NextTyped
<1>10. Plus(Plus(added, One(k)), Plus(Zero, Unstored(s)))
         = Plus(added, Plus(Zero, Plus(Unstored(s), One(k))))
  <2>1. \A a, b, c \in Values : Plus(Plus(a, c), Plus(Zero, b)) = Plus(a, Plus(Zero, Plus(b, c)))
    BY DEF Values, Plus, Zero
  <2> QED BY <1>6, <1>8, <2>1
<1>11. Plus(Plus(meta, InRows), InMemory') = Plus(added', Twice)
  <2>1. Balanced(meta, InRows, InMemory, added, Twice) BY <1>5 DEF Balanced
  <2>2. Moved(InRows, InRows, Zero, Zero) BY DEF Moved
  <2>3. Moved(InMemory, InMemory', Unstored(s), Unstored(s)') BY <1>3 DEF Moved
  <2>4. Matched(added, added', Zero, Zero, Unstored(s), Unstored(s)')
    BY <1>1, <1>7, <1>10 DEF Matched
  <2>5. Balanced(meta, InRows, InMemory', added', Twice)
    BY <1>8, <1>9, <2>1, <2>2, <2>3, <2>4, Balance
  <2> QED BY <2>5 DEF Balanced
<1> QED BY <1>1, <1>4, <1>11

\* What a statement stores leaves the memory as it enters the rows.
LEMMA ExactDone ==
    ASSUME TypeOK, TypeOK', Books, AllTimeExact, NEW s \in Session,
           InsertDone(s) \/ UpdateDone(s) \/ CloseDone(s)
    PROVE  AllTimeExact'
<1> SUFFICES ASSUME ~mishap'
             PROVE  Plus(Plus(meta', InRows'), InMemory') = Plus(added', Twice')
  BY DEF AllTimeExact, InRows, InMemory, Memory
<1>1. work[s] # Idle /\ UNCHANGED <<now, meta, retiring, added>>
  BY IdleHasNoOp DEF InsertDone, UpdateDone, CloseDone, poolVars
<1>2. \A r \in Session \ {s} : /\ count'[r] = count[r] /\ stored'[r] = stored[r]
                               /\ work'[r] = work[r]
  BY DEF InsertDone, UpdateDone, CloseDone, TypeOK
<1>3. Moved(InMemory, InMemory', Unstored(s), Unstored(s)') BY <1>2, MemoryChange DEF Moved
<1>4. ~mishap BY DEF InsertDone, UpdateDone, CloseDone, Update
<1>5. Balanced(meta, InRows, InMemory, added, Twice)
  BY <1>4 DEF AllTimeExact, InRows, InMemory, Memory, Balanced
<1>6. PICK v \in Values : v = count[s] BY ValuesClosed DEF TypeOK
<1>7. /\ work[s].at = slot[s] /\ work[s].values = v /\ v \in Counts
      /\ work[s].op # "close" => work[s].share = Zero
      /\ Inserting(s) => stored[s] = Zero
  BY <1>1, <1>6 DEF Books, SessionBooks, TypeOK
<1>8. \A key \in DOMAIN rows : key = <<s, slot[s]>> => ~Inserting(s) /\ rows[key] = stored[s]
  <2> SUFFICES ASSUME NEW key \in DOMAIN rows, key = <<s, slot[s]>>
               PROVE  ~Inserting(s) /\ rows[key] = stored[s]
    OBVIOUS
  <2>1. key[1] = s /\ key[2] = slot[s] /\ RowBooks(key) BY DEF Books
  <2> QED BY <1>4, <2>1 DEF RowBooks
<1>9. PICK st \in Values, sh \in Values : st = stored[s] /\ sh = work[s].share
  BY <1>1, WorkTyped, ValuesClosed DEF TypeOK
<1>10. Unstored(s) = Plus(Minus(v, st), sh) BY <1>1, <1>6, <1>9 DEF Unstored
<1>11. Zero \in Values /\ st \in Values /\ v \in Values /\ Unstored(s) \in Values
       /\ Unstored(s)' \in Values /\ meta \in Values /\ InRows \in Values /\ InMemory \in Values
       /\ added \in Values /\ Twice \in Values /\ InRows' \in Values /\ InMemory' \in Values
  BY TotalsTyped, UnstoredTyped, NextTyped, PlusLaws
<1>12. Moved(InRows, InRows', st, v)
  <2>1. CASE InsertDone(s)
    <3>1. st = Zero /\ <<s, slot[s]>> \notin DOMAIN rows
      BY <1>7, <1>8, <1>9, <2>1 DEF InsertDone, Inserting
    <3>2. rows' = RowsWith(<<s, slot[s]>>, v) BY <1>7, <2>1 DEF InsertDone
    <3>3. InRows' = Plus(InRows, v) BY <1>7, <3>1, <3>2, RowNew
    <3>4. Plus(InRows', Zero) = InRows' BY <1>11, PlusLaws
    <3> QED BY <3>1, <3>3, <3>4 DEF Moved
  <2>2. CASE UpdateDone(s) \/ CloseDone(s)
    <3>1. Update(s) BY <2>2 DEF UpdateDone, CloseDone
    <3>2. /\ <<s, work[s].at>> \in DOMAIN rows
          /\ Plus(InRows', rows[<<s, work[s].at>>]) = Plus(InRows, work[s].values)
      BY <1>1, <3>1, RowUpdated
    <3> QED BY <1>7, <1>8, <1>9, <3>2 DEF Moved
  <2> QED BY <2>1, <2>2
<1>13. Matched(added, added', st, v, Unstored(s), Unstored(s)')
  <2>1. \A a, b, c, d \in Values :
          /\ Plus(a, Plus(b, Plus(Minus(c, b), Zero))) = Plus(a, Plus(c, Plus(Minus(c, c), Zero)))
          /\ Plus(a, Plus(b, Plus(Minus(c, b), d)))
               = Plus(a, Plus(c, Plus(Minus(d, Zero), Zero)))
    BY DEF Values, Plus, Minus, Zero
  <2>2. CASE InsertDone(s) \/ UpdateDone(s)
    <3>1. sh = Zero BY <1>7, <1>9, <2>2 DEF InsertDone, UpdateDone
    <3>2. count'[s] = v /\ stored'[s] = v /\ work'[s] = Idle
      BY <1>6, <1>7, <2>2 DEF InsertDone, UpdateDone, TypeOK
    <3>3. Unstored(s)' = Plus(Minus(v, v), Zero) BY <3>2 DEF Unstored
    <3> QED BY <1>1, <1>10, <1>11, <2>1, <3>1, <3>3 DEF Matched
  <2>3. CASE CloseDone(s)
    <3>1. /\ count'[s] = sh /\ stored'[s] = Zero
          /\ work'[s] = Idle \/ work'[s].share = Zero
      BY <1>9, <2>3 DEF CloseDone, Statement, TypeOK
    <3>2. Unstored(s)' = Plus(Minus(sh, Zero), Zero) BY <3>1 DEF Unstored
    <3> QED BY <1>1, <1>9, <1>10, <1>11, <2>1, <3>2 DEF Matched
  <2> QED BY <2>2, <2>3
<1>14. Balanced(meta, InRows', InMemory', added', Twice)
  BY <1>1, <1>3, <1>5, <1>11, <1>12, <1>13, Balance
<1>15. Twice' = Twice BY <1>1 DEF Twice
<1> QED BY <1>1, <1>14, <1>15 DEF Balanced

LEMMA ExactStep ==
    TypeOK /\ TypeOK' /\ Books /\ AllTimeExact /\ [Next]_vars => AllTimeExact'
<1> SUFFICES ASSUME TypeOK, TypeOK', Books, AllTimeExact, [Next]_vars, ~mishap'
             PROVE  Plus(Plus(meta', InRows'), InMemory') = Plus(added', Twice')
  BY DEF AllTimeExact, InRows, InMemory, Memory
<1>1. ASSUME NEW s \in Session, NEW k \in Kind,
             AddFirst(s, k) \/ AddInNewSlot(s, k) \/ AddInSlot(s, k)
      PROVE  Plus(Plus(meta', InRows'), InMemory') = Plus(added', Twice')
  <2>1. AllTimeExact' BY <1>1, ExactAdd
  <2> QED BY <2>1 DEF AllTimeExact, InRows, InMemory, Memory
<1>2. ASSUME NEW s \in Session, InsertDone(s) \/ UpdateDone(s) \/ CloseDone(s)
      PROVE  Plus(Plus(meta', InRows'), InMemory') = Plus(added', Twice')
  <2>1. AllTimeExact' BY <1>2, ExactDone
  <2> QED BY <2>1 DEF AllTimeExact, InRows, InMemory, Memory
<1>3. ~mishap => Plus(Plus(meta, InRows), InMemory) = Plus(added, Twice)
  BY DEF AllTimeExact, InRows, InMemory, Memory
<1>4. ASSUME \A s \in Session : Unstored(s)' = Unstored(s) PROVE InMemory' = InMemory
  <2>1. Memory' = Memory BY <1>4 DEF Memory
  <2> QED BY <2>1 DEF InMemory
<1>5. ASSUME ~mishap, UNCHANGED <<count, stored, rows, meta, added>>, Twice' = Twice,
             \A s \in Session : Unstored(s)' = Unstored(s)
      PROVE  Plus(Plus(meta', InRows'), InMemory') = Plus(added', Twice')
  <2>1. InRows' = InRows BY <1>5 DEF InRows
  <2> QED BY <1>3, <1>4, <1>5, <2>1
<1>6. ASSUME NEW s \in Session, StatementFails(s)
      PROVE  Plus(Plus(meta', InRows'), InMemory') = Plus(added', Twice')
  <2>1. /\ ~mishap /\ work[s] # Idle /\ work[s].op = "update" /\ work' = [work EXCEPT ![s] = Idle]
        /\ UNCHANGED <<count, stored, rows, meta, retiring, added>>
    BY <1>6 DEF StatementFails, poolVars
  <2>2. work[s].share = Zero BY <2>1 DEF Books, SessionBooks
  <2>3. \A r \in Session : Unstored(r)' = Unstored(r) BY <2>1, <2>2 DEF Unstored, TypeOK
  <2>4. Twice' = Twice BY <2>1 DEF Twice
  <2> QED BY <1>5, <2>1, <2>3, <2>4
<1>7. CASE \/ \E s \in Session : End(s) \/ Minute(s)
           \/ NextSlot
           \/ UNCHANGED vars
  <2>1. ~mishap /\ UNCHANGED <<count, stored, work, rows, meta, retiring, added>>
    <3>1. CASE \E s \in Session : End(s) \/ Minute(s)
      BY <3>1 DEF End, Minute, poolVars
    <3>2. CASE NextSlot
      BY <3>2 DEF NextSlot, poolVars
    <3>3. CASE UNCHANGED vars
      BY <3>3 DEF vars, sessionVars, poolVars
    <3> QED BY <1>7, <3>1, <3>2, <3>3
  <2>2. \A r \in Session : Unstored(r)' = Unstored(r) BY <2>1 DEF Unstored
  <2>3. Twice' = Twice BY <2>1 DEF Twice
  <2> QED BY <1>5, <2>1, <2>2, <2>3
<1>8. CASE FlushUptime
  <2>1. meta' = meta /\ UNCHANGED <<count, stored, work, rows, retiring, added, mishap>>
    BY <1>8 DEF FlushUptime, sessionVars, Books, PoolBooks
  <2>2. \A r \in Session : Unstored(r)' = Unstored(r) BY <2>1 DEF Unstored
  <2>3. Twice' = Twice BY <2>1 DEF Twice
  <2> QED BY <1>5, <2>1, <2>2, <2>3
<1>9. CASE Crash
  <2>1. /\ ~mishap /\ UNCHANGED <<count, stored, rows, meta, added>> /\ retiring' = Nothing
        /\ retiring # Nothing => retiring.counts = Zero
        /\ \A s \in Session : work'[s] = work[s]
    BY <1>9 DEF Crash
  <2>2. \A r \in Session : Unstored(r)' = Unstored(r) BY <2>1 DEF Unstored
  <2>3. Twice' = Twice BY <2>1 DEF Twice
  <2> QED BY <1>5, <2>1, <2>2, <2>3
<1>10. CASE RollUp
  <2>1. /\ ~mishap /\ UNCHANGED <<count, stored, work, rows, added>>
        /\ retiring = Nothing /\ retiring' = [counts |-> Retiring]
        /\ meta' = IF Retiring = Zero THEN meta ELSE Plus(meta, Retiring)
    BY <1>10 DEF RollUp, sessionVars, Books, PoolBooks
  <2>2. PICK r \in Values : r = Retiring BY RetiringTyped, ValuesClosed
  <2>3. /\ meta \in Values /\ InRows \in Values /\ InMemory \in Values /\ added \in Values
    BY TotalsTyped
  <2>4. meta' = Plus(meta, r) BY <2>1, <2>2, <2>3, PlusLaws
  <2>5. InRows' = InRows /\ InMemory' = InMemory
    <3>1. \A s \in Session : Unstored(s)' = Unstored(s) BY <2>1 DEF Unstored
    <3> QED BY <1>4, <2>1, <3>1 DEF InRows
  <2>6. Twice = Zero /\ Twice' = r
    <3>1. retiring' # Nothing BY <2>1 DEF Nothing
    <3> QED BY <2>1, <2>2, <3>1 DEF Twice
  <2>7. Plus(added, Zero) = added BY <2>3, PlusLaws
  <2>8. Plus(Plus(Plus(meta, r), InRows), InMemory) = Plus(Plus(Plus(meta, InRows), InMemory), r)
    <3>1. \A a, b, c, d \in Values : Plus(Plus(Plus(a, d), b), c) = Plus(Plus(Plus(a, b), c), d)
      BY DEF Values, Plus
    <3> QED BY <2>3, <3>1
  <2> QED BY <1>3, <2>1, <2>4, <2>5, <2>6, <2>7, <2>8
<1>11. CASE DeleteOld
  <2>1. /\ ~mishap /\ UNCHANGED <<count, stored, work, meta, added>>
        /\ retiring # Nothing /\ retiring' = Nothing /\ retiring.counts = Retiring
        /\ DOMAIN rows' = DOMAIN rows \ OldRows
        /\ \A key \in DOMAIN rows' : rows'[key] = rows[key]
    BY <1>11 DEF DeleteOld, Restrict, sessionVars, Books, PoolBooks
  <2>2. PICK r \in Values : r = Retiring BY RetiringTyped, ValuesClosed
  <2>3. /\ meta \in Values /\ InMemory \in Values /\ added \in Values /\ InRows' \in Values
    BY TotalsTyped, NextTyped
  <2>4. InRows = Plus(r, InRows')
    <3>1. \A key \in DOMAIN rows : rows[key] \in Values BY ValuesClosed DEF TypeOK
    <3>2. OldRows \in SUBSET DOMAIN rows BY DEF OldRows
    <3>3. InRows = Plus(Sum(rows, OldRows), Sum(rows, DOMAIN rows \ OldRows))
      BY <3>1, <3>2, FiniteRows, SumSplit DEF InRows
    <3>4. IsFiniteSet(DOMAIN rows \ OldRows) BY FiniteRows, FS_Subset
    <3>5. Agree(rows, rows', DOMAIN rows \ OldRows) BY <2>1 DEF Agree
    <3>6. Sum(rows, DOMAIN rows \ OldRows) = InRows' BY <2>1, <3>4, <3>5, SumSame DEF InRows
    <3> QED BY <2>2, <3>3, <3>6 DEF Retiring
  <2>5. InMemory' = InMemory
    <3>1. \A s \in Session : Unstored(s)' = Unstored(s) BY <2>1 DEF Unstored
    <3> QED BY <1>4, <3>1
  <2>6. Twice = r /\ Twice' = Zero BY <2>1, <2>2 DEF Twice
  <2>7. \A m, R, U, a, x \in Values :
          Plus(Plus(m, Plus(x, R)), U) = Plus(a, x) => Plus(Plus(m, R), U) = Plus(a, Zero)
    <3> SUFFICES ASSUME NEW m \in Values, NEW R \in Values, NEW U \in Values, NEW a \in Values,
                        NEW x \in Values, Plus(Plus(m, Plus(x, R)), U) = Plus(a, x)
                 PROVE  Plus(Plus(m, R), U) = Plus(a, Zero)
      OBVIOUS
    <3>1. ASSUME NEW k \in Kind PROVE m[k] + R[k] + U[k] = a[k]
      <4>1. \A y, z \in Values : Plus(y, z)[k] = y[k] + z[k] /\ Plus(y, z) \in Values
        BY DEF Plus, Values
      <4>2. Plus(Plus(m, Plus(x, R)), U)[k] = m[k] + (x[k] + R[k]) + U[k] BY <4>1
      <4>3. Plus(a, x)[k] = a[k] + x[k] BY <4>1
      <4>4. PICK i, j, l, n, o \in Int : i = m[k] /\ j = R[k] /\ l = U[k] /\ n = a[k] /\ o = x[k]
        BY DEF Values
      <4>5. i + (o + j) + l = n + o BY <4>2, <4>3, <4>4
      <4>6. i + j + l = n BY <4>5
      <4> QED BY <4>4, <4>6
    <3> QED BY <3>1 DEF Plus, Values, Zero
  <2> QED BY <1>3, <2>1, <2>3, <2>4, <2>5, <2>6, <2>7
<1> QED BY <1>1, <1>2, <1>6, <1>7, <1>8, <1>9, <1>10, <1>11 DEF Next

(* "All-time accepted = this + SUM(current statistics)"                    *)
(* (pool-meta.entity.ts:23): for any number of sessions, slots and shares, *)
(* any retention of at least two slots, and whatever fails or crashes, the *)
(* rolled up counts, the rows and the memory of the sessions hold every    *)
(* share once, unless one of the mishaps happened.                         *)
THEOREM TotalsExact == Spec => []AllTimeExact
<1>1. Init => TypeOK /\ Books /\ AllTimeExact BY TypeInit, BooksInit, ExactInit
<1>2. TypeOK /\ Books /\ AllTimeExact /\ [Next]_vars => (TypeOK /\ Books /\ AllTimeExact)'
  BY TypeStep, BooksStep, ExactStep
<1> QED BY <1>1, <1>2, PTL DEF Spec
=============================================================================
