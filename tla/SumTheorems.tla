----------------------------- MODULE SumTheorems -----------------------------
(***************************************************************************)
(* Facts about sums over finite sets (SumFunctionOnSet of the community    *)
(* modules) that the proofs about the engine, the settlement and the       *)
(* handlers share.  The sum is a fold over a recursive function, and an    *)
(* induction theorem that takes a predicate cannot be cited, so each       *)
(* induction is an argument about a smallest counterexample.               *)
(***************************************************************************)
EXTENDS Integers, FiniteSets, Functions, FiniteSetTheorems, WellFoundedInduction, TLAPS

\* The fold takes the elements in the order of a choice; SumsUnfolded(g, f, S) says
\* that g is the table of the sums of all subsets of S.
FirstOf(s) == CHOOSE x \in s : TRUE
RestOf(s) == s \ {FirstOf(s)}
SumStep(g, f, s) == IF s = {} THEN 0 ELSE f[FirstOf(s)] + g[RestOf(s)]
SumsUnfolded(g, f, S) == g = [s \in SUBSET S |-> SumStep(g, f, s)]
SumTable(f, S) == CHOOSE g : SumsUnfolded(g, f, S)

\* A set of numbers that is not empty has a smallest one.
LEMMA SmallestNumber ==
    ASSUME NEW T \in SUBSET Nat, T # {}
    PROVE  \E x \in T : \A y \in T : x <= y
<1>1. PICK x \in T : \A y \in T : ~(<<y, x>> \in OpToRel(<, Nat))
  BY WFMin, NatLessThanWellFounded
<1>2. \A y \in T : ~(y < x)
  BY <1>1 DEF OpToRel
<1>3. QED BY <1>2

\* A set of subsets of a finite set that is not empty has a smallest one.
LEMMA SmallestSubset ==
    ASSUME NEW S, IsFiniteSet(S), NEW T \in SUBSET SUBSET S, T # {}
    PROVE  \E x \in T : \A y \in T : ~(y \subseteq x /\ y # x)
<1>1. T \subseteq FiniteSubsetsOf(S)
  BY FS_Subset DEF FiniteSubsetsOf
<1>2. PICK x \in T : \A y \in T : ~(<<y, x>> \in StrictSubsetOrdering(S))
  BY <1>1, WFMin, FS_StrictSubsetOrderingWellFounded
<1>3. \A y \in T : ~(y \subseteq x /\ y # x)
  BY <1>2 DEF StrictSubsetOrdering
<1>4. QED BY <1>3

\* The fold takes an element out of a set that has one.
LEMMA FirstIsMember ==
    ASSUME NEW s, s # {}
    PROVE  FirstOf(s) \in s /\ RestOf(s) \subseteq s /\ RestOf(s) # s
  BY DEF FirstOf, RestOf

\* The sum is what the table holds for the whole set.
LEMMA SumIsTable ==
    ASSUME NEW f, NEW S
    PROVE  SumFunctionOnSet(f, S) = SumTable(f, S)[S]
  BY DEF SumFunctionOnSet, FoldFunctionOnSet, MapThenFoldSet, SumTable, SumsUnfolded, SumStep, FirstOf, RestOf

\* Two tables agree where both are defined.
LEMMA TablesAgree ==
    ASSUME NEW f, NEW A, NEW B, IsFiniteSet(A), NEW g, NEW h,
           SumsUnfolded(g, f, A), SumsUnfolded(h, f, B)
    PROVE  \A s \in SUBSET A : s \in SUBSET B => g[s] = h[s]
<1> DEFINE Bad == {s \in SUBSET A : s \in SUBSET B /\ g[s] # h[s]}
<1>1. SUFFICES ASSUME Bad # {} PROVE FALSE
  OBVIOUS
<1>2. PICK s \in Bad : \A t \in Bad : ~(t \subseteq s /\ t # s)
  <2>1. Bad \in SUBSET SUBSET A
    OBVIOUS
  <2> HIDE DEF Bad
  <2>2. QED BY <2>1, <1>1, SmallestSubset
<1>3. g[s] = SumStep(g, f, s) /\ h[s] = SumStep(h, f, s)
  BY DEF SumsUnfolded
<1>4. s # {}
  BY <1>3 DEF SumStep
<1>5. RestOf(s) \in SUBSET A /\ RestOf(s) \in SUBSET B /\ RestOf(s) \notin Bad
  BY <1>2, <1>4, FirstIsMember
<1>6. g[RestOf(s)] = h[RestOf(s)]
  BY <1>5
<1>7. QED BY <1>3, <1>6 DEF SumStep

\* There is a table of the sums of a finite set.
LEMMA TableExists ==
    ASSUME NEW f, NEW S, IsFiniteSet(S)
    PROVE  SumsUnfolded(SumTable(f, S), f, S)
<1> DEFINE Bad == {s \in SUBSET S : ~ \E g : SumsUnfolded(g, f, s)}
<1>1. Bad = {}
  <2>1. SUFFICES ASSUME Bad # {} PROVE FALSE
    OBVIOUS
  <2>2. PICK T \in Bad : \A t \in Bad : ~(t \subseteq T /\ t # T)
    <3>1. Bad \in SUBSET SUBSET S
      OBVIOUS
    <3> HIDE DEF Bad
    <3>2. QED BY <3>1, <2>1, SmallestSubset
  <2>3. \A t \in SUBSET T : t # T => SumsUnfolded(SumTable(f, t), f, t)
    BY <2>2 DEF SumTable
  <2> DEFINE Smaller(s) == SumTable(f, RestOf(s))[RestOf(s)]
             h == [s \in SUBSET T |-> IF s = {} THEN 0 ELSE f[FirstOf(s)] + Smaller(s)]
  <2>4. ASSUME NEW s \in SUBSET T PROVE h[s] = SumStep(h, f, s)
    <3>1. CASE s = {}
      BY <3>1 DEF SumStep
    <3>2. CASE s # {} /\ RestOf(s) = {}
      <4>1. h[s] = f[FirstOf(s)] + Smaller(s) /\ h[RestOf(s)] = 0
        BY <3>2
      <4>2. SumsUnfolded(SumTable(f, {}), f, {})
        BY <2>3, <3>2
      <4>3. SumTable(f, {})[{}] = 0
        BY <4>2 DEF SumsUnfolded, SumStep
      <4>4. QED BY <4>1, <4>3, <3>2 DEF SumStep
    <3>3. CASE s # {} /\ RestOf(s) # {}
      <4> DEFINE r == RestOf(s)
                 q == RestOf(r)
      <4>1. /\ r \subseteq T /\ r # T /\ q \subseteq T /\ q # T /\ q \subseteq r
        BY <3>3, FirstIsMember
      <4>2. IsFiniteSet(r) /\ IsFiniteSet(q)
        BY <4>1, FS_Subset
      <4>3. SumsUnfolded(SumTable(f, r), f, r) /\ SumsUnfolded(SumTable(f, q), f, q)
        BY <2>3, <4>1
      <4>4. SumTable(f, q)[q] = SumTable(f, r)[q]
        BY <4>1, <4>2, <4>3, TablesAgree
      <4>5. SumTable(f, r)[r] = f[FirstOf(r)] + SumTable(f, r)[q]
        BY <4>3, <3>3 DEF SumsUnfolded, SumStep
      <4>6. h[r] = f[FirstOf(r)] + SumTable(f, q)[q]
        BY <4>1, <3>3
      <4>7. h[s] = f[FirstOf(s)] + SumTable(f, r)[r]
        BY <3>3
      <4>8. h[s] = f[FirstOf(s)] + h[r]
        BY <4>4, <4>5, <4>6, <4>7
      <4>9. QED BY <4>8, <3>3 DEF SumStep
    <3>4. QED BY <3>1, <3>2, <3>3
  <2>5. h = [s \in SUBSET T |-> SumStep(h, f, s)]
    <3> HIDE DEF Smaller
    <3>1. h = [s \in SUBSET T |-> h[s]]
      OBVIOUS
    <3>2. QED BY <3>1, <2>4, Zenon
  <2>6. QED BY <2>5 DEF SumsUnfolded
<1>2. QED BY <1>1 DEF SumTable

-----------------------------------------------------------------------------
(* What the proofs use *)

\* A sum over nothing is zero; over a finite set it is one element and the rest.
LEMMA SumUnfolds ==
    ASSUME NEW f, NEW S, IsFiniteSet(S)
    PROVE  SumFunctionOnSet(f, S) =
               IF S = {} THEN 0 ELSE f[FirstOf(S)] + SumFunctionOnSet(f, RestOf(S))
<1>1. SumsUnfolded(SumTable(f, S), f, S)
  BY TableExists
<1>2. SumTable(f, S)[S] = SumStep(SumTable(f, S), f, S)
  BY <1>1 DEF SumsUnfolded
<1>3. CASE S = {}
  BY <1>2, <1>3, SumIsTable DEF SumStep
<1>4. CASE S # {}
  <2>1. RestOf(S) \subseteq S /\ IsFiniteSet(RestOf(S))
    BY <1>4, FirstIsMember, FS_Subset
  <2>2. SumTable(f, S)[RestOf(S)] = SumTable(f, RestOf(S))[RestOf(S)]
    BY <2>1, <1>1, TableExists, TablesAgree
  <2>3. QED BY <1>2, <1>4, <2>2, SumIsTable DEF SumStep
<1>5. QED BY <1>3, <1>4

\* The empty sum.
LEMMA SumEmpty == \A f : SumFunctionOnSet(f, {}) = 0
  BY SumUnfolds, FS_EmptySet

\* A sum of integers is an integer.
LEMMA SumIsInt ==
    ASSUME NEW f, NEW S, IsFiniteSet(S), \A x \in S : f[x] \in Int
    PROVE  SumFunctionOnSet(f, S) \in Int
<1> DEFINE Bad == {s \in SUBSET S : SumFunctionOnSet(f, s) \notin Int}
<1>1. SUFFICES ASSUME Bad # {} PROVE FALSE
  OBVIOUS
<1>2. PICK s \in Bad : \A t \in Bad : ~(t \subseteq s /\ t # s)
  <2>1. Bad \in SUBSET SUBSET S
    OBVIOUS
  <2> HIDE DEF Bad
  <2>2. QED BY <2>1, <1>1, SmallestSubset
<1>3. IsFiniteSet(s)
  BY FS_Subset
<1>4. s # {}
  BY SumEmpty
<1>5. RestOf(s) \notin Bad /\ FirstOf(s) \in S /\ RestOf(s) \in SUBSET S
  BY <1>2, <1>4, FirstIsMember
<1>6. SumFunctionOnSet(f, s) = f[FirstOf(s)] + SumFunctionOnSet(f, RestOf(s))
  BY <1>3, <1>4, SumUnfolds
<1>7. QED BY <1>5, <1>6

\* A sum of zeros is zero.
LEMMA NothingToSum ==
    ASSUME NEW f, NEW S, IsFiniteSet(S), \A x \in S : f[x] = 0
    PROVE  SumFunctionOnSet(f, S) = 0
<1> DEFINE Bad == {s \in SUBSET S : SumFunctionOnSet(f, s) # 0}
<1>1. SUFFICES ASSUME Bad # {} PROVE FALSE
  OBVIOUS
<1>2. PICK s \in Bad : \A t \in Bad : ~(t \subseteq s /\ t # s)
  <2>1. Bad \in SUBSET SUBSET S
    OBVIOUS
  <2> HIDE DEF Bad
  <2>2. QED BY <2>1, <1>1, SmallestSubset
<1>3. IsFiniteSet(s)
  BY FS_Subset
<1>4. s # {}
  BY SumEmpty
<1>5. RestOf(s) \notin Bad /\ FirstOf(s) \in S /\ RestOf(s) \in SUBSET S
  BY <1>2, <1>4, FirstIsMember
<1>6. SumFunctionOnSet(f, s) = f[FirstOf(s)] + SumFunctionOnSet(f, RestOf(s))
  BY <1>3, <1>4, SumUnfolds
<1>7. QED BY <1>5, <1>6

\* Any element can be taken out first.
LEMMA SumRemove ==
    ASSUME NEW f, NEW S, IsFiniteSet(S), \A x \in S : f[x] \in Int, NEW x \in S
    PROVE  SumFunctionOnSet(f, S) = f[x] + SumFunctionOnSet(f, S \ {x})
<1> DEFINE Sum(s) == SumFunctionOnSet(f, s)
<1> DEFINE Bad == {s \in SUBSET S : \E y \in s : Sum(s) # f[y] + Sum(s \ {y})}
<1>0. ASSUME NEW s \in SUBSET S PROVE IsFiniteSet(s) /\ Sum(s) \in Int
  BY FS_Subset, SumIsInt
<1>1. SUFFICES ASSUME Bad # {} PROVE FALSE
  OBVIOUS
<1>2. PICK s \in Bad : \A t \in Bad : ~(t \subseteq s /\ t # s)
  <2>1. Bad \in SUBSET SUBSET S
    OBVIOUS
  <2> HIDE DEF Bad
  <2>2. QED BY <2>1, <1>1, SmallestSubset
<1>3. PICK y \in s : Sum(s) # f[y] + Sum(s \ {y})
  OBVIOUS
<1> DEFINE z == FirstOf(s)
<1>4. z \in s /\ Sum(s) = f[z] + Sum(s \ {z})
  BY <1>0, SumUnfolds, FirstIsMember DEF RestOf
<1>5. z # y
  BY <1>3, <1>4
<1>6. s \ {z} \notin Bad /\ s \ {y} \notin Bad
  BY <1>2, <1>4
<1>7. Sum(s \ {z}) = f[y] + Sum((s \ {z}) \ {y}) /\ Sum(s \ {y}) = f[z] + Sum((s \ {y}) \ {z})
  BY <1>4, <1>5, <1>6
<1>8. Sum((s \ {z}) \ {y}) = Sum((s \ {y}) \ {z})
  <2>1. (s \ {z}) \ {y} = (s \ {y}) \ {z}
    OBVIOUS
  <2>2. QED BY <2>1, Zenon
<1>9. f[y] \in Int /\ f[z] \in Int /\ Sum((s \ {y}) \ {z}) \in Int
  BY <1>0, <1>4
<1>10. Sum(s) = f[y] + Sum(s \ {y})
  BY <1>4, <1>7, <1>8, <1>9
<1>11. QED BY <1>3, <1>10

\* Only the values at the elements count.
LEMMA SumCongruent ==
    ASSUME NEW f, NEW g, NEW S, IsFiniteSet(S), \A x \in S : f[x] = g[x]
    PROVE  SumFunctionOnSet(f, S) = SumFunctionOnSet(g, S)
<1> DEFINE Bad == {s \in SUBSET S : SumFunctionOnSet(f, s) # SumFunctionOnSet(g, s)}
<1>1. SUFFICES ASSUME Bad # {} PROVE FALSE
  OBVIOUS
<1>2. PICK s \in Bad : \A t \in Bad : ~(t \subseteq s /\ t # s)
  <2>1. Bad \in SUBSET SUBSET S
    OBVIOUS
  <2> HIDE DEF Bad
  <2>2. QED BY <2>1, <1>1, SmallestSubset
<1>3. IsFiniteSet(s)
  BY FS_Subset
<1>4. s # {}
  BY SumEmpty
<1>5. RestOf(s) \notin Bad /\ FirstOf(s) \in S /\ RestOf(s) \in SUBSET S
  BY <1>2, <1>4, FirstIsMember
<1>6. /\ SumFunctionOnSet(f, s) = f[FirstOf(s)] + SumFunctionOnSet(f, RestOf(s))
      /\ SumFunctionOnSet(g, s) = g[FirstOf(s)] + SumFunctionOnSet(g, RestOf(s))
  BY <1>3, <1>4, SumUnfolds
<1>7. QED BY <1>5, <1>6

\* A new element adds its value.
LEMMA SumAdd ==
    ASSUME NEW f, NEW S, IsFiniteSet(S), NEW x, x \notin S,
           \A y \in S \union {x} : f[y] \in Int
    PROVE  SumFunctionOnSet(f, S \union {x}) = f[x] + SumFunctionOnSet(f, S)
<1>1. IsFiniteSet(S \union {x}) /\ (S \union {x}) \ {x} = S
  BY FS_AddElement
<1>2. QED BY <1>1, SumRemove

\* A sum changes by what one of its values changes.
LEMMA SumUpdate ==
    ASSUME NEW f, NEW g, NEW S, IsFiniteSet(S), NEW x \in S,
           \A y \in S : f[y] \in Int /\ g[y] \in Int,
           \A y \in S \ {x} : f[y] = g[y]
    PROVE  SumFunctionOnSet(g, S) = SumFunctionOnSet(f, S) + (g[x] - f[x])
<1> DEFINE R == S \ {x}
<1>1. IsFiniteSet(R)
  BY FS_RemoveElement
<1>2. /\ SumFunctionOnSet(f, S) = f[x] + SumFunctionOnSet(f, R)
      /\ SumFunctionOnSet(g, S) = g[x] + SumFunctionOnSet(g, R)
  BY SumRemove
<1>3. SumFunctionOnSet(f, R) = SumFunctionOnSet(g, R)
  BY <1>1, SumCongruent
<1>4. SumFunctionOnSet(f, R) \in Int
  BY <1>1, SumIsInt
<1>5. QED BY <1>2, <1>3, <1>4

\* A sum of numbers that are not negative is not negative, and no less than any of them.
LEMMA SumIsNat ==
    ASSUME NEW f, NEW S, IsFiniteSet(S), \A x \in S : f[x] \in Nat
    PROVE  SumFunctionOnSet(f, S) \in Nat /\ \A x \in S : f[x] <= SumFunctionOnSet(f, S)
<1> DEFINE Bad == {s \in SUBSET S : SumFunctionOnSet(f, s) \notin Nat}
<1>1. Bad = {}
  <2>1. SUFFICES ASSUME Bad # {} PROVE FALSE
    OBVIOUS
  <2>2. PICK s \in Bad : \A t \in Bad : ~(t \subseteq s /\ t # s)
    <3>1. Bad \in SUBSET SUBSET S
      OBVIOUS
    <3> HIDE DEF Bad
    <3>2. QED BY <3>1, <2>1, SmallestSubset
  <2>3. IsFiniteSet(s)
    BY FS_Subset
  <2>4. s # {}
    BY SumEmpty
  <2>5. RestOf(s) \notin Bad /\ FirstOf(s) \in S /\ RestOf(s) \in SUBSET S
    BY <2>2, <2>4, FirstIsMember
  <2>6. SumFunctionOnSet(f, s) = f[FirstOf(s)] + SumFunctionOnSet(f, RestOf(s))
    BY <2>3, <2>4, SumUnfolds
  <2>7. QED BY <2>5, <2>6
<1>2. ASSUME NEW x \in S PROVE f[x] <= SumFunctionOnSet(f, S)
  <2>1. SumFunctionOnSet(f, S) = f[x] + SumFunctionOnSet(f, S \ {x})
    BY SumRemove
  <2>2. SumFunctionOnSet(f, S \ {x}) \in Nat
    BY <1>1
  <2>3. QED BY <2>1, <2>2
<1>3. QED BY <1>1, <1>2
=============================================================================
