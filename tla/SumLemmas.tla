----------------------------- MODULE SumLemmas -----------------------------
(***************************************************************************)
(* Sums over finite sets.  What the books of the wallets promise is about  *)
(* SumFunctionOnSet, a fold that takes the elements in an order of its own. *)
(* The lemmas say that the order does not matter: an element may be taken  *)
(* out, put in or changed, and the sum changes by its value.               *)
(*                                                                         *)
(* The library's induction theorems have an operator as parameter.  Here   *)
(* induction is about a set: of numbers, or of the subsets of a finite set, *)
(* and it rests on the well-foundedness of < on Nat.                       *)
(***************************************************************************)
EXTENDS Integers, FiniteSets, Functions, FiniteSetTheorems, WellFoundedInduction, TLAPS

\* A set of numbers that has 0 and the successor of each of its members.
LEMMA NatSetInduction ==
  ASSUME NEW S \in SUBSET Nat, 0 \in S, \A n \in S : n + 1 \in S
  PROVE  S = Nat
  <1> SUFFICES ASSUME Nat \ S # {} PROVE FALSE
    OBVIOUS
  <1>1. PICK m \in Nat \ S : \A k \in Nat \ S : ~(<<k, m>> \in OpToRel(<, Nat))
    <2> DEFINE R == OpToRel(<, Nat)
    <2>1. IsWellFoundedOn(R, Nat)
      BY NatLessThanWellFounded
    <2> HIDE DEF R
    <2>2. \E m \in Nat \ S : \A k \in Nat \ S : ~(<<k, m>> \in R)
      BY <2>1, WFMin
    <2> QED BY <2>2 DEF R
  <1>2. m # 0 /\ m - 1 \in Nat
    OBVIOUS
  <1>3. <<m - 1, m>> \in OpToRel(<, Nat)
    BY <1>2 DEF OpToRel
  <1>4. m - 1 \in S
    BY <1>1, <1>2, <1>3
  <1>5. (m - 1) + 1 = m
    OBVIOUS
  <1> QED BY <1>4, <1>5

\* A set of subsets that has every set of which it has all that lack one element.
LEMMA SubsetInduction ==
  ASSUME NEW D, IsFiniteSet(D), NEW B \in SUBSET (SUBSET D),
         \A s \in SUBSET D : (\A x \in s : s \ {x} \in B) => s \in B
  PROVE  B = SUBSET D
  <1> DEFINE S == {n \in Nat : \A s \in SUBSET D : Cardinality(s) = n => s \in B}
  <1>1. \A s \in SUBSET D : IsFiniteSet(s) /\ Cardinality(s) \in Nat
    BY FS_Subset, FS_CardinalityType
  <1>2. 0 \in S
    BY <1>1, FS_EmptySet
  <1>3. ASSUME NEW n \in S PROVE n + 1 \in S
    <2> SUFFICES ASSUME NEW s \in SUBSET D, Cardinality(s) = n + 1 PROVE s \in B
      OBVIOUS
    <2>1. \A x \in s : Cardinality(s \ {x}) = n
      <3>1. IsFiniteSet(s) /\ n \in Nat
        BY <1>1
      <3>2. \A x \in s : Cardinality(s \ {x}) = Cardinality(s) - 1
        BY <3>1, FS_RemoveElement
      <3> QED BY <3>1, <3>2
    <2>2. \A t \in SUBSET D : Cardinality(t) = n => t \in B
      BY <1>3
    <2>3. \A x \in s : s \ {x} \in SUBSET D
      OBVIOUS
    <2> HIDE DEF S
    <2> QED BY <2>1, <2>2, <2>3
  <1>4. S = Nat
    <2>1. S \in SUBSET Nat
      OBVIOUS
    <2> HIDE DEF S
    <2> QED BY <1>2, <1>3, <2>1, NatSetInduction
  <1> QED BY <1>1, <1>4

-----------------------------------------------------------------------------
(* What the fold computes *)

Pick(S) == CHOOSE x \in S : TRUE

IsSum(g, f, D) == g = [s \in D |-> IF s = {} THEN 0 ELSE f[Pick(s)] + g[s \ {Pick(s)}]]

LEMMA SumIsChosen ==
  ASSUME NEW f, NEW S
  PROVE  SumFunctionOnSet(f, S) = (CHOOSE g : IsSum(g, f, SUBSET S))[S]
  BY DEF SumFunctionOnSet, FoldFunctionOnSet, MapThenFoldSet, IsSum, Pick

\* The recursion has a solution: one for the sets of at most n elements extends
\* to those of n + 1.
LEMMA SumExists ==
  ASSUME NEW f, NEW D, IsFiniteSet(D)
  PROVE  \E g : IsSum(g, f, SUBSET D)
  <1> DEFINE Small(n) == {s \in SUBSET D : Cardinality(s) <= n}
             S == {n \in Nat : \E g : IsSum(g, f, Small(n))}
  <1>1. \A s \in SUBSET D : /\ IsFiniteSet(s) /\ Cardinality(s) \in Nat
                            /\ Cardinality(s) <= Cardinality(D)
    BY FS_Subset, FS_CardinalityType
  <1>2. 0 \in S
    <2> DEFINE g == [s \in Small(0) |-> 0]
    <2>1. \A s \in Small(0) : s = {}
      BY <1>1, FS_EmptySet
    <2>2. IsSum(g, f, Small(0))
      BY <2>1 DEF IsSum
    <2> QED BY <2>2
  <1>3. ASSUME NEW n \in S PROVE n + 1 \in S
    <2>1. PICK g : IsSum(g, f, Small(n))
      OBVIOUS
    <2> DEFINE h == [s \in Small(n + 1) |->
                       IF s = {} THEN 0 ELSE f[Pick(s)] + g[s \ {Pick(s)}]]
    <2>2. \A s \in Small(n) : s \in Small(n + 1) /\ h[s] = g[s]
      <3>1. \A s \in Small(n) : s \in Small(n + 1)
        BY <1>1
      <3>2. \A s \in Small(n) :
               g[s] = IF s = {} THEN 0 ELSE f[Pick(s)] + g[s \ {Pick(s)}]
        BY <2>1 DEF IsSum
      <3> HIDE DEF Small
      <3> QED BY <3>1, <3>2
    <2>3. \A s \in Small(n + 1) : s # {} => s \ {Pick(s)} \in Small(n)
      <3> SUFFICES ASSUME NEW s \in Small(n + 1), s # {} PROVE s \ {Pick(s)} \in Small(n)
        OBVIOUS
      <3>1. Pick(s) \in s
        BY DEF Pick
      <3>2. Cardinality(s \ {Pick(s)}) = Cardinality(s) - 1
        BY <1>1, <3>1, FS_RemoveElement
      <3> QED BY <1>1, <3>2
    <2>4. h = [s \in Small(n + 1) |->
                 IF s = {} THEN 0 ELSE f[Pick(s)] + h[s \ {Pick(s)}]]
      <3> DEFINE Val(s) == IF s = {} THEN 0 ELSE f[Pick(s)] + g[s \ {Pick(s)}]
      <3>1. \A s \in Small(n + 1) :
               Val(s) = IF s = {} THEN 0 ELSE f[Pick(s)] + h[s \ {Pick(s)}]
        <4> HIDE DEF Small, h
        <4> QED BY <2>2, <2>3
      <3>2. h = [s \in Small(n + 1) |-> Val(s)]
        OBVIOUS
      <3> HIDE DEF Small, h, Val
      <3> QED BY <3>1, <3>2
    <2>5. IsSum(h, f, Small(n + 1))
      BY <2>4 DEF IsSum
    <2> HIDE DEF h, Small
    <2>6. \E k : IsSum(k, f, Small(n + 1))
      BY <2>5
    <2> QED BY <2>6
  <1>4. S = Nat
    <2>1. S \in SUBSET Nat
      OBVIOUS
    <2> HIDE DEF S
    <2> QED BY <1>2, <1>3, <2>1, NatSetInduction
  <1>5. Cardinality(D) \in S /\ Small(Cardinality(D)) = SUBSET D
    BY <1>1, <1>4
  <1> QED BY <1>5

\* ... and one only: two solutions agree where both are defined and the
\* functions that are summed up agree.
LEMMA SumsAgree ==
  ASSUME NEW f, NEW g, NEW h, NEW k, NEW D, NEW E, IsFiniteSet(D),
         IsSum(g, f, SUBSET D), IsSum(h, k, SUBSET E),
         D \subseteq E, \A x \in D : f[x] = k[x]
  PROVE  g[D] = h[D]
  <1> DEFINE B == {s \in SUBSET D : g[s] = h[s]}
  <1>1. ASSUME NEW s \in SUBSET D, \A x \in s : s \ {x} \in B
        PROVE  s \in B
    <2>1. /\ g[s] = IF s = {} THEN 0 ELSE f[Pick(s)] + g[s \ {Pick(s)}]
          /\ h[s] = IF s = {} THEN 0 ELSE k[Pick(s)] + h[s \ {Pick(s)}]
      BY DEF IsSum
    <2>2. s # {} => Pick(s) \in s
      BY DEF Pick
    <2> QED BY <1>1, <2>1, <2>2
  <1>2. B = SUBSET D
    <2>1. B \in SUBSET (SUBSET D)
      OBVIOUS
    <2> HIDE DEF B
    <2> QED BY <1>1, <2>1, SubsetInduction
  <1> QED BY <1>2

\* The sum of functions that agree on a set is the same.
LEMMA SumCongruence ==
  ASSUME NEW f, NEW k, NEW S, IsFiniteSet(S), \A x \in S : f[x] = k[x]
  PROVE  SumFunctionOnSet(f, S) = SumFunctionOnSet(k, S)
  <1> DEFINE g == CHOOSE g : IsSum(g, f, SUBSET S)
             h == CHOOSE h : IsSum(h, k, SUBSET S)
  <1>1. IsSum(g, f, SUBSET S) /\ IsSum(h, k, SUBSET S)
    BY SumExists
  <1>2. SumFunctionOnSet(f, S) = g[S] /\ SumFunctionOnSet(k, S) = h[S]
    BY SumIsChosen
  <1> HIDE DEF g, h
  <1>3. g[S] = h[S]
    BY <1>1, SumsAgree
  <1> QED BY <1>2, <1>3

LEMMA SumEmpty ==
  ASSUME NEW f
  PROVE  SumFunctionOnSet(f, {}) = 0
  <1> DEFINE g == CHOOSE g : IsSum(g, f, SUBSET {})
  <1>1. IsSum(g, f, SUBSET {})
    BY SumExists, FS_EmptySet
  <1>2. SumFunctionOnSet(f, {}) = g[{}]
    BY SumIsChosen
  <1> HIDE DEF g
  <1> QED BY <1>1, <1>2 DEF IsSum

LEMMA SumPicks ==
  ASSUME NEW f, NEW S, IsFiniteSet(S), S # {}
  PROVE  /\ Pick(S) \in S
         /\ SumFunctionOnSet(f, S) = f[Pick(S)] + SumFunctionOnSet(f, S \ {Pick(S)})
  <1> DEFINE R == S \ {Pick(S)}
             g == CHOOSE g : IsSum(g, f, SUBSET S)
             h == CHOOSE h : IsSum(h, f, SUBSET R)
  <1>1. IsFiniteSet(R)
    BY FS_RemoveElement
  <1>2. IsSum(g, f, SUBSET S) /\ IsSum(h, f, SUBSET R)
    BY <1>1, SumExists
  <1>3. SumFunctionOnSet(f, S) = g[S] /\ SumFunctionOnSet(f, R) = h[R]
    BY SumIsChosen
  <1> HIDE DEF g, h
  <1>4. R \subseteq S
    OBVIOUS
  <1>5. h[R] = g[R]
    <2>1. PICK k : k = f
      OBVIOUS
    <2>2. IsSum(h, k, SUBSET R) /\ \A x \in R : k[x] = f[x]
      BY <1>2, <2>1
    <2> HIDE DEF R
    <2> QED BY <1>1, <1>2, <1>4, <2>2, SumsAgree
  <1>6. g[S] = f[Pick(S)] + g[R]
    BY <1>2 DEF IsSum
  <1>7. Pick(S) \in S
    BY DEF Pick
  <1> QED BY <1>3, <1>5, <1>6, <1>7

-----------------------------------------------------------------------------
(* What a reader may use *)

LEMMA SumType ==
  ASSUME NEW S, IsFiniteSet(S), NEW f, \A x \in S : f[x] \in Int
  PROVE  \A T \in SUBSET S : SumFunctionOnSet(f, T) \in Int
  <1> DEFINE B == {s \in SUBSET S : SumFunctionOnSet(f, s) \in Int}
  <1>1. ASSUME NEW s \in SUBSET S, \A x \in s : s \ {x} \in B
        PROVE  s \in B
    <2>1. CASE s = {}
      BY <2>1, SumEmpty
    <2>2. CASE s # {}
      <3>1. IsFiniteSet(s)
        BY FS_Subset
      <3>2. /\ Pick(s) \in s
            /\ SumFunctionOnSet(f, s) = f[Pick(s)] + SumFunctionOnSet(f, s \ {Pick(s)})
        BY <2>2, <3>1, SumPicks
      <3> QED BY <1>1, <3>2
    <2> QED BY <2>1, <2>2
  <1>2. B = SUBSET S
    <2>1. B \in SUBSET (SUBSET S)
      OBVIOUS
    <2> HIDE DEF B
    <2> QED BY <1>1, <2>1, SubsetInduction
  <1> QED BY <1>2

\* The order does not matter: any element may be the first.
LEMMA SumRemove ==
  ASSUME NEW S, IsFiniteSet(S), NEW f, \A x \in S : f[x] \in Int
  PROVE  \A T \in SUBSET S : \A x \in T :
            SumFunctionOnSet(f, T) = f[x] + SumFunctionOnSet(f, T \ {x})
  <1> DEFINE Sum(T) == SumFunctionOnSet(f, T)
             B == {s \in SUBSET S : \A x \in s : Sum(s) = f[x] + Sum(s \ {x})}
  <1>0. \A T \in SUBSET S : Sum(T) \in Int
    BY SumType
  <1>1. ASSUME NEW s \in SUBSET S, \A x \in s : s \ {x} \in B
        PROVE  s \in B
    <2> SUFFICES ASSUME NEW x \in s PROVE Sum(s) = f[x] + Sum(s \ {x})
      OBVIOUS
    <2> DEFINE p == Pick(s)
    <2>1. p \in s /\ Sum(s) = f[p] + Sum(s \ {p})
      <3>1. IsFiniteSet(s) /\ s # {}
        BY FS_Subset
      <3> QED BY <3>1, SumPicks
    <2> HIDE DEF p
    <2>2. CASE x = p
      BY <2>1, <2>2
    <2>3. CASE x # p
      <3>1. Sum(s \ {p}) = f[x] + Sum((s \ {p}) \ {x})
        BY <1>1, <2>1, <2>3
      <3>2. Sum(s \ {x}) = f[p] + Sum((s \ {x}) \ {p})
        BY <1>1, <2>1, <2>3
      <3>3. (s \ {p}) \ {x} = (s \ {x}) \ {p}
        OBVIOUS
      <3>4. (s \ {x}) \ {p} \in SUBSET S
        OBVIOUS
      <3>5. /\ Sum((s \ {x}) \ {p}) \in Int
            /\ f[x] \in Int /\ f[p] \in Int
        BY <1>0, <2>1, <3>4
      <3> HIDE DEF Sum
      <3>6. Sum((s \ {p}) \ {x}) = Sum((s \ {x}) \ {p})
        BY <3>3, Zenon
      <3> QED BY <2>1, <3>1, <3>2, <3>5, <3>6
    <2> QED BY <2>2, <2>3
  <1>2. B = SUBSET S
    <2>1. B \in SUBSET (SUBSET S)
      OBVIOUS
    <2> HIDE DEF B
    <2> QED BY <1>1, <2>1, SubsetInduction
  <1> QED BY <1>2

LEMMA SumAdd ==
  ASSUME NEW S, IsFiniteSet(S), NEW f, \A x \in S : f[x] \in Int,
         NEW T \in SUBSET S, NEW y \in S, y \notin T
  PROVE  SumFunctionOnSet(f, T \cup {y}) = SumFunctionOnSet(f, T) + f[y]
  <1> DEFINE U == T \cup {y}
  <1>1. U \in SUBSET S /\ y \in U /\ T = U \ {y}
    OBVIOUS
  <1> HIDE DEF U
  <1>2. SumFunctionOnSet(f, U) = f[y] + SumFunctionOnSet(f, T)
    <2>1. SumFunctionOnSet(f, U) = f[y] + SumFunctionOnSet(f, U \ {y})
      BY <1>1, SumRemove
    <2> QED BY <1>1, <2>1, Zenon
  <1>3. SumFunctionOnSet(f, T) \in Int /\ f[y] \in Int
    BY SumType
  <1>4. SumFunctionOnSet(f, U) = SumFunctionOnSet(f, T) + f[y]
    BY <1>2, <1>3
  <1> QED BY <1>4 DEF U

\* One value changes.
LEMMA SumUpdate ==
  ASSUME NEW S, IsFiniteSet(S), NEW f, NEW g, NEW y \in S,
         \A x \in S : f[x] \in Int, \A x \in S \ {y} : g[x] = f[x], g[y] \in Int
  PROVE  SumFunctionOnSet(g, S) = SumFunctionOnSet(f, S) + g[y] - f[y]
  <1> DEFINE R == S \ {y}
  <1>1. IsFiniteSet(R) /\ R \in SUBSET S
    BY FS_RemoveElement
  <1>2. SumFunctionOnSet(g, R) = SumFunctionOnSet(f, R)
    <2> HIDE DEF R
    <2>1. \A x \in R : g[x] = f[x]
      BY DEF R
    <2> QED BY <1>1, <2>1, SumCongruence
  <1>3. SumFunctionOnSet(f, S) = f[y] + SumFunctionOnSet(f, R)
    BY SumRemove
  <1>4. SumFunctionOnSet(g, S) = g[y] + SumFunctionOnSet(g, R)
    <2>1. \A x \in S : g[x] \in Int
      OBVIOUS
    <2> QED BY <2>1, SumRemove
  <1>5. SumFunctionOnSet(f, R) \in Int /\ f[y] \in Int
    <2> HIDE DEF R
    <2> QED BY <1>1, SumType
  <1> QED BY <1>2, <1>3, <1>4, <1>5

\* Two sets without a common element.
LEMMA SumSplit ==
  ASSUME NEW S, IsFiniteSet(S), NEW f, \A x \in S : f[x] \in Int,
         NEW U \in SUBSET S, NEW T \in SUBSET (S \ U)
  PROVE  SumFunctionOnSet(f, T \cup U) = SumFunctionOnSet(f, T) + SumFunctionOnSet(f, U)
  <1> DEFINE Sum(V) == SumFunctionOnSet(f, V)
             D == S \ U
             B == {s \in SUBSET D : Sum(s \cup U) = Sum(s) + Sum(U)}
  <1>0. /\ \A V \in SUBSET S : Sum(V) \in Int
        /\ \A V \in SUBSET S : \A x \in V : Sum(V) = f[x] + Sum(V \ {x})
    BY SumType, SumRemove
  <1>1. ASSUME NEW s \in SUBSET D, \A x \in s : s \ {x} \in B
        PROVE  s \in B
    <2>1. CASE s = {}
      <3>1. Sum(s) = 0
        BY <2>1, SumEmpty
      <3>2. Sum(s \cup U) = Sum(U)
        <4>1. s \cup U = U
          BY <2>1
        <4> QED BY <4>1, Zenon
      <3> HIDE DEF Sum
      <3> QED BY <1>0, <3>1, <3>2
    <2>2. CASE s # {}
      <3>1. PICK x \in s : TRUE
        BY <2>2
      <3>2. s \in SUBSET S /\ s \ {x} \in SUBSET S /\ s \cup U \in SUBSET S
        OBVIOUS
      <3>3. Sum(s) = f[x] + Sum(s \ {x})
        BY <1>0, <3>2
      <3>4. Sum(s \cup U) = f[x] + Sum((s \cup U) \ {x})
        BY <1>0, <3>2
      <3>5. Sum((s \cup U) \ {x}) = Sum((s \ {x}) \cup U)
        <4>1. (s \cup U) \ {x} = (s \ {x}) \cup U
          OBVIOUS
        <4> QED BY <4>1, Zenon
      <3>6. Sum((s \ {x}) \cup U) = Sum(s \ {x}) + Sum(U)
        BY <1>1
      <3>7. f[x] \in Int /\ Sum(s \ {x}) \in Int /\ Sum(U) \in Int
        BY <1>0, <3>2
      <3> HIDE DEF Sum
      <3> QED BY <3>3, <3>4, <3>5, <3>6, <3>7
    <2> QED BY <2>1, <2>2
  <1>2. B = SUBSET D
    <2>1. B \in SUBSET (SUBSET D) /\ IsFiniteSet(D)
      BY FS_Subset
    <2> HIDE DEF B, D
    <2> QED BY <1>1, <2>1, SubsetInduction
  <1> QED BY <1>2

\* A part of a sum of natural numbers is not more than the whole.
LEMMA SumMonotone ==
  ASSUME NEW S, IsFiniteSet(S), NEW f, \A x \in S : f[x] \in Nat
  PROVE  /\ SumFunctionOnSet(f, S) \in Nat
         /\ \A T \in SUBSET S : /\ SumFunctionOnSet(f, T) \in Nat
                                /\ SumFunctionOnSet(f, T) <= SumFunctionOnSet(f, S)
  <1> DEFINE Sum(T) == SumFunctionOnSet(f, T)
             B == {s \in SUBSET S : Sum(s) >= 0 /\ \A T \in SUBSET s : Sum(T) <= Sum(s)}
  <1>0. \A T \in SUBSET S : Sum(T) \in Int
    BY SumType
  <1>1. ASSUME NEW s \in SUBSET S, \A x \in s : s \ {x} \in B
        PROVE  s \in B
    <2>1. CASE s = {}
      BY <2>1, SumEmpty
    <2>2. CASE s # {}
      <3>1. \A x \in s : Sum(s) = f[x] + Sum(s \ {x})
        BY SumRemove
      <3>2. \A x \in s : /\ s \ {x} \in SUBSET S /\ Sum(s \ {x}) \in Int
                         /\ f[x] \in Nat /\ Sum(s \ {x}) >= 0
                         /\ \A T \in SUBSET (s \ {x}) : Sum(T) <= Sum(s \ {x})
        BY <1>0, <1>1
      <3> HIDE DEF Sum
      <3>3. Sum(s) >= 0
        <4>1. PICK x \in s : TRUE
          BY <2>2
        <4>2. Sum(s) = f[x] + Sum(s \ {x})
          BY <3>1
        <4>3. f[x] \in Nat /\ Sum(s \ {x}) \in Int /\ Sum(s \ {x}) >= 0
          BY <3>2
        <4> QED BY <4>2, <4>3
      <3>4. ASSUME NEW T \in SUBSET s PROVE Sum(T) <= Sum(s)
        <4>1. CASE T = s
          BY <1>0, <4>1
        <4>2. CASE T # s
          <5>1. PICK x \in s : x \notin T
            BY <4>2
          <5>2. T \in SUBSET (s \ {x}) /\ T \in SUBSET S
            BY <5>1
          <5>3. Sum(T) <= Sum(s \ {x}) /\ Sum(T) \in Int
            BY <1>0, <3>2, <5>2
          <5> QED BY <3>1, <3>2, <5>3
        <4> QED BY <4>1, <4>2
      <3> QED BY <3>3, <3>4
    <2> QED BY <2>1, <2>2
  <1>2. B = SUBSET S
    <2>1. B \in SUBSET (SUBSET S)
      OBVIOUS
    <2> HIDE DEF B
    <2> QED BY <1>1, <2>1, SubsetInduction
  <1> QED BY <1>0, <1>2

\* At most n values of at most M each.
LEMMA SumBounded ==
  ASSUME NEW S, IsFiniteSet(S), NEW M \in Nat, NEW n \in Nat, Cardinality(S) <= n,
         NEW f, \A x \in S : f[x] \in Int /\ f[x] <= M
  PROVE  SumFunctionOnSet(f, S) <= n * M
  <1> DEFINE Sum(T) == SumFunctionOnSet(f, T)
             B == {s \in SUBSET S : Sum(s) <= Cardinality(s) * M}
  <1>0. \A T \in SUBSET S : Sum(T) \in Int
    BY SumType
  <1>1. ASSUME NEW s \in SUBSET S, \A x \in s : s \ {x} \in B
        PROVE  s \in B
    <2>1. CASE s = {}
      BY <2>1, SumEmpty, FS_EmptySet
    <2>2. CASE s # {}
      <3>1. PICK x \in s : TRUE
        BY <2>2
      <3>2. Sum(s) = f[x] + Sum(s \ {x})
        BY SumRemove
      <3>3. IsFiniteSet(s) /\ Cardinality(s) \in Nat
        BY FS_Subset, FS_CardinalityType
      <3>4. Cardinality(s \ {x}) = Cardinality(s) - 1 /\ Cardinality(s) # 0
        BY <2>2, <3>3, FS_RemoveElement, FS_EmptySet
      <3>5. Sum(s \ {x}) <= Cardinality(s \ {x}) * M
        BY <1>1
      <3>6. s \ {x} \in SUBSET S /\ Sum(s \ {x}) \in Int /\ f[x] \in Int /\ f[x] <= M
        BY <1>0
      <3> DEFINE k == Cardinality(s) - 1
      <3>7. k \in Nat /\ Cardinality(s) = k + 1
        BY <3>3, <3>4
      <3>8. (k + 1) * M = k * M + M /\ k * M \in Int
        <4>1. \A a, b \in Nat : (a + 1) * b = a * b + b /\ a * b \in Int
          OBVIOUS
        <4> HIDE DEF k
        <4> QED BY <3>7, <4>1
      <3>9. Sum(s) <= (k + 1) * M
        <4> HIDE DEF Sum, k
        <4>1. Sum(s \ {x}) <= k * M
          BY <3>4, <3>5 DEF k
        <4> QED BY <3>2, <3>6, <3>8, <4>1
      <3> HIDE DEF k
      <3> QED BY <3>7, <3>9
    <2> QED BY <2>1, <2>2
  <1>2. B = SUBSET S
    <2>1. B \in SUBSET (SUBSET S)
      OBVIOUS
    <2> HIDE DEF B
    <2> QED BY <1>1, <2>1, SubsetInduction
  <1>3. Sum(S) <= Cardinality(S) * M
    BY <1>2
  <1>4. Cardinality(S) * M <= n * M /\ Cardinality(S) * M \in Int /\ n * M \in Int
    <2>1. Cardinality(S) \in Nat
      BY FS_CardinalityType
    <2> QED BY <2>1
  <1>5. Sum(S) \in Int
    BY <1>0
  <1> HIDE DEF Sum
  <1>6. Sum(S) <= n * M
    BY <1>3, <1>4, <1>5
  <1> QED BY <1>6 DEF Sum
=============================================================================
