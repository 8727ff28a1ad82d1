-------------------------------- MODULE Sums --------------------------------
(***************************************************************************)
(* What SumFunctionOnSet of the community modules computes, for every      *)
(* finite set: nothing for the empty set, and one value more for one       *)
(* element more.  The fold picks its elements by CHOOSE, so that the sum   *)
(* does not depend on the order has to be proved.                          *)
(***************************************************************************)
EXTENDS FiniteSetsExt, FiniteSetTheorems, WellFoundedInduction, TLAPS

-----------------------------------------------------------------------------
(* Least numbers *)

\* A set of numbers that is not empty has a least one.
LEMMA LeastNat ==
    ASSUME NEW T, T \subseteq Nat, T # {}
    PROVE  \E n \in T : \A m \in T : n <= m
<1>1. \E x \in T : \A y \in T : ~ (<<y, x>> \in OpToRel(<, Nat))
  BY WFMin, NatLessThanWellFounded
<1>2. PICK x \in T : \A y \in T : ~ (<<y, x>> \in OpToRel(<, Nat))
  BY <1>1
<1>3. \A y \in T : ~ (y < x)
  BY <1>2 DEF OpToRel
<1> QED
  BY <1>3

\* Of a set of finite sets that is not empty, one has the fewest elements: none
\* that is smaller is in it.
LEMMA SmallestSet ==
    ASSUME NEW F, F # {}, \A S \in F : IsFiniteSet(S)
    PROVE  \E S \in F : \A R \in F : Cardinality(S) <= Cardinality(R)
<1> DEFINE T == {Cardinality(S) : S \in F}
<1>1. T \subseteq Nat /\ T # {}
  BY FS_CardinalityType
<1>2. PICK n \in T : \A m \in T : n <= m
  BY <1>1, LeastNat
<1> QED
  BY <1>2

-----------------------------------------------------------------------------
(* The fold *)

\* One step of the fold: the sum over s is the value of the element picked and
\* the sum g gives for the others.
Picked(s) == CHOOSE x \in s : TRUE
StepOf(f, g, s) == IF s = {} THEN 0 ELSE f[Picked(s)] + g[s \ {Picked(s)}]
IsFold(f, g, S) == g = [s \in SUBSET S |-> StepOf(f, g, s)]

\* SumFunctionOnSet is the fold over all of S.
LEMMA SumIsFold ==
    ASSUME NEW f, NEW S
    PROVE  SumFunctionOnSet(f, S) = (CHOOSE g : IsFold(f, g, S))[S]
BY DEF SumFunctionOnSet, FoldFunctionOnSet, MapThenFoldSet, IsFold, StepOf, Picked

\* What the fold gives for a set.
LEMMA FoldAt ==
    ASSUME NEW f, NEW g, NEW S, IsFold(f, g, S), NEW s \in SUBSET S
    PROVE  g[s] = StepOf(f, g, s)
BY DEF IsFold

LEMMA PickedIn ==
    ASSUME NEW s, s # {}
    PROVE  Picked(s) \in s
BY DEF Picked

\* A set without one of its elements is smaller.
LEMMA Smaller ==
    ASSUME NEW S, IsFiniteSet(S), NEW x \in S
    PROVE  /\ IsFiniteSet(S \ {x})
           /\ Cardinality(S) \in Nat
           /\ ~(Cardinality(S) <= Cardinality(S \ {x}))
<1>1. Cardinality(S) \in Nat
  BY FS_CardinalityType
<1>2. IsFiniteSet(S \ {x}) /\ Cardinality(S \ {x}) = Cardinality(S) - 1
  BY FS_RemoveElement
<1> QED
  BY <1>1, <1>2

\* Two folds agree on the sets both are folds of.
LEMMA FoldsAgree ==
    ASSUME NEW f, NEW A, NEW B, IsFiniteSet(A), NEW g, NEW h,
           IsFold(f, g, A), IsFold(f, h, B), NEW u \in SUBSET A, u \in SUBSET B
    PROVE  g[u] = h[u]
<1> DEFINE F == {s \in SUBSET A : s \in SUBSET B /\ g[s] # h[s]}
<1> SUFFICES ASSUME F # {}
             PROVE  FALSE
  OBVIOUS
<1>1. \A s \in F : IsFiniteSet(s)
  BY FS_Subset
<1>2. PICK s \in F : \A t \in F : Cardinality(s) <= Cardinality(t)
  BY <1>1, SmallestSet
<1>3. g[s] = StepOf(f, g, s) /\ h[s] = StepOf(f, h, s)
  BY <1>2, FoldAt
<1>4. s # {}
  BY <1>2, <1>3 DEF StepOf
<1>5. s \ {Picked(s)} \notin F
  BY <1>1, <1>2, <1>4, PickedIn, Smaller
<1>6. g[s \ {Picked(s)}] = h[s \ {Picked(s)}]
  BY <1>5
<1> QED
  BY <1>2, <1>3, <1>6 DEF StepOf

\* There is a fold of every finite set.
LEMMA FoldExists ==
    ASSUME NEW f, NEW S, IsFiniteSet(S)
    PROVE  \E g : IsFold(f, g, S)
<1> DEFINE F == {s \in SUBSET S : ~ \E g : IsFold(f, g, s)}
<1> SUFFICES ASSUME F # {}
             PROVE  FALSE
  OBVIOUS
<1>1. \A s \in SUBSET S : IsFiniteSet(s)
  BY FS_Subset
<1>2. PICK s \in F : \A t \in F : Cardinality(s) <= Cardinality(t)
  BY <1>1, SmallestSet
<1> DEFINE G(t) == CHOOSE g : IsFold(f, g, t)
           V(t) == G(t)[t]
           g == [t \in SUBSET s |-> IF t = {} THEN 0
                                    ELSE f[Picked(t)] + V(t \ {Picked(t)})]
<1>3. ASSUME NEW u \in SUBSET s, u # s
      PROVE  IsFold(f, G(u), u)
  <2>1. u \in SUBSET S /\ IsFiniteSet(s)
    BY <1>1, <1>2
  <2>2. Cardinality(u) \in Nat /\ Cardinality(s) \in Nat /\ ~(Cardinality(s) <= Cardinality(u))
    BY <1>3, <2>1, FS_Subset, FS_CardinalityType
  <2>3. u \notin F
    BY <1>2, <2>2
  <2>4. \E h : IsFold(f, h, u)
    BY <2>1, <2>3
  <2> QED
    BY <2>4
<1> HIDE DEF G
<1>4. ASSUME NEW u \in SUBSET s, u # s
      PROVE  V(u) = g[u]
  <2>1. V(u) = StepOf(f, G(u), u)
    BY <1>3, <1>4, FoldAt
  <2>2. CASE u = {}
    BY <2>1, <2>2 DEF StepOf
  <2>3. CASE u # {}
    <3> DEFINE p == Picked(u)
    <3>1. p \in u /\ u \ {p} \in SUBSET s /\ u \ {p} # s
      BY <1>4, <2>3, PickedIn
    <3>2. IsFold(f, G(u), u) /\ IsFold(f, G(u \ {p}), u \ {p})
      BY <1>3, <1>4, <3>1
    <3>3. IsFiniteSet(u) /\ u \ {p} \in SUBSET u /\ u \ {p} \in SUBSET (u \ {p})
      BY <1>1, <1>2
    <3>4. G(u)[u \ {p}] = G(u \ {p})[u \ {p}]
      BY <3>2, <3>3, FoldsAgree
    <3> QED
      BY <1>4, <2>1, <2>3, <3>4 DEF StepOf
  <2> QED
    BY <2>2, <2>3
<1>5. ASSUME NEW t \in SUBSET s
      PROVE  g[t] = StepOf(f, g, t)
  <2>1. CASE t = {}
    BY <2>1 DEF StepOf
  <2>2. CASE t # {}
    <3> DEFINE p == Picked(t)
    <3>1. p \in t /\ t \ {p} \in SUBSET s /\ t \ {p} # s
      BY <2>2, PickedIn
    <3>2. V(t \ {p}) = g[t \ {p}]
      BY <1>4, <3>1
    <3>3. g[t] = f[p] + V(t \ {p})
      BY <1>5, <2>2
    <3> QED
      BY <2>2, <3>2, <3>3 DEF StepOf
  <2> QED
    BY <2>1, <2>2
<1>6. g = [t \in SUBSET s |-> StepOf(f, g, t)]
  <2>1. g = [t \in SUBSET s |-> g[t]]
    OBVIOUS
  <2> HIDE DEF g
  <2> QED
    BY <1>5, <2>1
<1>7. IsFold(f, g, s)
  BY <1>6 DEF IsFold
<1> QED
  BY <1>2, <1>7

-----------------------------------------------------------------------------
(* The laws *)

\* The sum over no element.
LEMMA SumEmpty ==
    ASSUME NEW f
    PROVE  SumFunctionOnSet(f, {}) = 0
<1>1. PICK g : IsFold(f, g, {}) /\ SumFunctionOnSet(f, {}) = g[{}]
  BY FoldExists, FS_EmptySet, SumIsFold
<1> QED
  BY <1>1, FoldAt DEF StepOf

\* The fold as a recursion on the set.
LEMMA SumPick ==
    ASSUME NEW f, NEW S, IsFiniteSet(S), S # {}
    PROVE  SumFunctionOnSet(f, S)
             = f[Picked(S)] + SumFunctionOnSet(f, S \ {Picked(S)})
<1> DEFINE R == S \ {Picked(S)}
<1>1. PICK g : IsFold(f, g, S) /\ SumFunctionOnSet(f, S) = g[S]
  BY FoldExists, SumIsFold
<1>2. IsFiniteSet(R)
  BY PickedIn, Smaller
<1>3. PICK h : IsFold(f, h, R) /\ SumFunctionOnSet(f, R) = h[R]
  BY <1>2, FoldExists, SumIsFold
<1>4. g[R] = h[R]
  <2>1. R \in SUBSET S /\ R \in SUBSET R
    OBVIOUS
  <2> QED
    BY <1>1, <1>3, <2>1, FoldsAgree
<1>5. g[S] = f[Picked(S)] + g[R]
  BY <1>1, FoldAt DEF StepOf
<1> QED
  BY <1>1, <1>3, <1>4, <1>5

\* Zeros add up to zero.
LEMMA SumZero ==
    ASSUME NEW f, NEW S, IsFiniteSet(S), \A x \in S : f[x] = 0
    PROVE  SumFunctionOnSet(f, S) = 0
<1> DEFINE F == {s \in SUBSET S : SumFunctionOnSet(f, s) # 0}
<1> SUFFICES ASSUME F # {}
             PROVE  FALSE
  OBVIOUS
<1>1. \A s \in SUBSET S : IsFiniteSet(s)
  BY FS_Subset
<1>2. PICK s \in F : \A t \in F : Cardinality(s) <= Cardinality(t)
  BY <1>1, SmallestSet
<1>3. s # {}
  BY <1>2, SumEmpty
<1>4. SumFunctionOnSet(f, s) = f[Picked(s)] + SumFunctionOnSet(f, s \ {Picked(s)})
  BY <1>1, <1>2, <1>3, SumPick
<1>5. Picked(s) \in S /\ ~ (Cardinality(s) <= Cardinality(s \ {Picked(s)}))
  BY <1>1, <1>2, <1>3, PickedIn, Smaller, FS_CardinalityType
<1>6. SumFunctionOnSet(f, s \ {Picked(s)}) = 0
  BY <1>2, <1>5
<1> QED
  BY <1>2, <1>4, <1>5, <1>6

\* The sum of integers is an integer, and of naturals a natural.
LEMMA SumType ==
    ASSUME NEW f, NEW S, IsFiniteSet(S), NEW D, D = Int \/ D = Nat, \A x \in S : f[x] \in D
    PROVE  SumFunctionOnSet(f, S) \in D
<1> DEFINE F == {s \in SUBSET S : SumFunctionOnSet(f, s) \notin D}
<1> SUFFICES ASSUME F # {}
             PROVE  FALSE
  OBVIOUS
<1>1. \A s \in SUBSET S : IsFiniteSet(s)
  BY FS_Subset
<1>2. PICK s \in F : \A t \in F : Cardinality(s) <= Cardinality(t)
  BY <1>1, SmallestSet
<1>3. s # {}
  BY <1>2, SumEmpty
<1>4. Picked(s) \in s /\ s \ {Picked(s)} \in SUBSET S /\ IsFiniteSet(s)
  BY <1>1, <1>2, <1>3, PickedIn
<1>5. s \ {Picked(s)} \notin F
  BY <1>2, <1>4, Smaller
<1>6. SumFunctionOnSet(f, s \ {Picked(s)}) \in D /\ f[Picked(s)] \in D
  BY <1>2, <1>4, <1>5
<1>7. f[Picked(s)] + SumFunctionOnSet(f, s \ {Picked(s)}) \in D
  BY <1>6
<1> QED
  BY <1>2, <1>3, <1>4, <1>7, SumPick

\* Whatever element is taken out, the sum is its value and the sum of the rest.
LEMMA SumWithout ==
    ASSUME NEW f, NEW S, IsFiniteSet(S), \A y \in S : f[y] \in Int, NEW x \in S
    PROVE  SumFunctionOnSet(f, S) = f[x] + SumFunctionOnSet(f, S \ {x})
<1> DEFINE Sum(s) == SumFunctionOnSet(f, s)
           F == {s \in SUBSET S : \E y \in s : Sum(s) # f[y] + Sum(s \ {y})}
<1> SUFFICES ASSUME F # {}
             PROVE  FALSE
  OBVIOUS
<1>1. \A s \in SUBSET S : IsFiniteSet(s) /\ Sum(s) \in Int
  <2>1. ASSUME NEW s \in SUBSET S
        PROVE  IsFiniteSet(s)
    BY FS_Subset
  <2>2. ASSUME NEW s \in SUBSET S
        PROVE  Sum(s) \in Int
    BY <2>1, SumType
  <2> QED
    BY <2>1, <2>2
<1> HIDE DEF Sum
<1>2. PICK s \in F : \A t \in F : Cardinality(s) <= Cardinality(t)
  BY <1>1, SmallestSet
<1>3. PICK y \in s : Sum(s) # f[y] + Sum(s \ {y})
  BY <1>2
<1> DEFINE c == Picked(s)
<1>4. s \in SUBSET S /\ s # {} /\ c \in s /\ IsFiniteSet(s)
  BY <1>1, <1>2, <1>3, PickedIn
<1>5. Sum(s) = f[c] + Sum(s \ {c})
  BY <1>4, SumPick DEF Sum
<1>6. c # y
  BY <1>3, <1>5
<1> HIDE DEF c
<1>7. s \ {c} \in SUBSET S /\ s \ {y} \in SUBSET S
      /\ s \ {c} \notin F /\ s \ {y} \notin F
  BY <1>2, <1>4, Smaller
<1>8. Sum(s \ {c}) = f[y] + Sum((s \ {c}) \ {y})
  BY <1>3, <1>6, <1>7
<1>9. Sum(s \ {y}) = f[c] + Sum((s \ {y}) \ {c})
  BY <1>4, <1>6, <1>7
<1>10. (s \ {c}) \ {y} = (s \ {y}) \ {c} /\ (s \ {c}) \ {y} \in SUBSET S
  BY <1>4
<1>11. Sum((s \ {c}) \ {y}) \in Int /\ f[y] \in Int /\ f[c] \in Int
  BY <1>1, <1>3, <1>4, <1>10
<1> QED
  BY <1>3, <1>5, <1>8, <1>9, <1>10, <1>11

\* Functions that agree on a set have the same sum over it.
LEMMA SumAgrees ==
    ASSUME NEW f, NEW g, NEW S, IsFiniteSet(S), \A x \in S : f[x] = g[x]
    PROVE  SumFunctionOnSet(f, S) = SumFunctionOnSet(g, S)
<1> DEFINE F == {s \in SUBSET S : SumFunctionOnSet(f, s) # SumFunctionOnSet(g, s)}
<1> SUFFICES ASSUME F # {}
             PROVE  FALSE
  OBVIOUS
<1>1. \A s \in SUBSET S : IsFiniteSet(s)
  BY FS_Subset
<1>2. PICK s \in F : \A t \in F : Cardinality(s) <= Cardinality(t)
  BY <1>1, SmallestSet
<1>3. s # {}
  BY <1>2, SumEmpty
<1>4. Picked(s) \in s /\ s \ {Picked(s)} \in SUBSET S /\ IsFiniteSet(s)
  BY <1>1, <1>2, <1>3, PickedIn
<1>5. s \ {Picked(s)} \notin F
  BY <1>2, <1>4, Smaller
<1>6. f[Picked(s)] = g[Picked(s)]
  BY <1>2, <1>4
<1>7. SumFunctionOnSet(f, s) = SumFunctionOnSet(g, s)
  BY <1>3, <1>4, <1>5, <1>6, SumPick
<1> QED
  BY <1>2, <1>7

\* One element more, one value more.
LEMMA SumAdd ==
    ASSUME NEW f, NEW S, IsFiniteSet(S), NEW x, x \notin S, \A y \in S \cup {x} : f[y] \in Int
    PROVE  SumFunctionOnSet(f, S \cup {x}) = SumFunctionOnSet(f, S) + f[x]
<1>1. IsFiniteSet(S \cup {x}) /\ (S \cup {x}) \ {x} = S
  BY FS_AddElement
<1>2. SumFunctionOnSet(f, S \cup {x}) = f[x] + SumFunctionOnSet(f, S)
  BY <1>1, SumWithout
<1>3. SumFunctionOnSet(f, S) \in Int /\ f[x] \in Int
  BY SumType
<1> QED
  BY <1>2, <1>3

\* One value changes, and the sum by as much.
LEMMA SumChange ==
    ASSUME NEW f, NEW g, NEW S, IsFiniteSet(S), NEW x \in S,
           \A y \in S : f[y] \in Int /\ g[y] \in Int,
           \A y \in S \ {x} : g[y] = f[y]
    PROVE  SumFunctionOnSet(g, S) = SumFunctionOnSet(f, S) + (g[x] - f[x])
<1> DEFINE R == S \ {x}
<1>1. IsFiniteSet(R)
  BY Smaller
<1>2. /\ SumFunctionOnSet(f, S) = f[x] + SumFunctionOnSet(f, R)
      /\ SumFunctionOnSet(g, S) = g[x] + SumFunctionOnSet(g, R)
  BY SumWithout
<1>3. SumFunctionOnSet(g, R) = SumFunctionOnSet(f, R)
  BY <1>1, SumAgrees
<1>4. SumFunctionOnSet(f, R) \in Int /\ f[x] \in Int /\ g[x] \in Int
  BY <1>1, SumType
<1> QED
  BY <1>2, <1>3, <1>4

=============================================================================
