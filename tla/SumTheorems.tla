---------------------------- MODULE SumTheorems ----------------------------
(***************************************************************************)
(* What SumFunctionOnSet of module Functions computes, for every finite    *)
(* set: the charges of the code cache and the usage of the compile workers *)
(* are sums of this form.  The sum is a fold in an order CHOOSE picks; the *)
(* theorems say that the order does not matter.                            *)
(***************************************************************************)
EXTENDS Functions, Integers, FiniteSets, FiniteSetTheorems, WellFoundedInduction, TLAPS

(* Induction over the naturals, for a set that stands for the property. *)
LEMMA InductiveSet ==
  ASSUME NEW N, 0 \in N, \A n \in Nat : n \in N => n + 1 \in N
  PROVE  Nat \subseteq N
<1> SUFFICES ASSUME Nat \ N # {}  PROVE FALSE
  OBVIOUS
<1>1. PICK m \in Nat \ N : \A n \in Nat \ N : <<n, m>> \notin OpToRel(<, Nat)
  BY WFMin, NatLessThanWellFounded, Zenon
<1>2. \A n \in Nat \ N : ~(n < m)
  BY <1>1, Zenon DEF OpToRel
<1>3. m # 0 /\ m - 1 \in Nat /\ m - 1 < m /\ (m - 1) + 1 = m
  OBVIOUS
<1>4. m - 1 \in N
  BY <1>2, <1>3
<1> QED  BY <1>3, <1>4

Pick(s) == CHOOSE x \in s : TRUE

(* The element a fold takes first. *)
LEMMA PickIsIn == ASSUME NEW s, s # {}  PROVE  Pick(s) \in s
BY DEF Pick

(* The fold as a function of the subsets of S. *)
IsSum(g, f, S) ==
  g = [s \in SUBSET S |-> IF s = {} THEN 0 ELSE f[Pick(s)] + g[s \ {Pick(s)}]]

(* The community modules' sum, as the recursive function it chooses. *)
LEMMA SumIsChosen ==
  ASSUME NEW f, NEW S
  PROVE  SumFunctionOnSet(f, S) = (CHOOSE g : IsSum(g, f, S))[S]
BY Zenon DEF SumFunctionOnSet, FoldFunctionOnSet, MapThenFoldSet, IsSum, Pick

(* A function that is the fold on the sets of at most n elements. *)
IsSumUpTo(g, f, S, n) ==
  /\ g \in [SUBSET S -> Nat]
  /\ \A s \in SUBSET S :
       Cardinality(s) <= n => g[s] = IF s = {} THEN 0 ELSE f[Pick(s)] + g[s \ {Pick(s)}]

(* A fold on the small subsets extends to subsets one larger. *)
LEMMA SumGrows ==
  ASSUME NEW f, NEW S, IsFiniteSet(S), \A x \in S : f[x] \in Nat,
         NEW n \in Nat, NEW g, IsSumUpTo(g, f, S, n)
  PROVE  \E h : IsSumUpTo(h, f, S, n + 1)
<1> DEFINE more(s) == IF s = {} THEN 0 ELSE f[Pick(s)] + g[s \ {Pick(s)}]
           h == [s \in SUBSET S |-> IF Cardinality(s) <= n THEN g[s] ELSE more(s)]
<1>1. \A s \in SUBSET S : more(s) \in Nat /\ g[s] \in Nat
  <2> TAKE s \in SUBSET S
  <2>1. CASE s = {}
    BY <2>1 DEF IsSumUpTo
  <2>2. CASE s # {}
    <3>1. Pick(s) \in S /\ s \ {Pick(s)} \in SUBSET S
      BY <2>2, PickIsIn
    <3>2. f[Pick(s)] \in Nat /\ g[s \ {Pick(s)}] \in Nat /\ g[s] \in Nat
      BY <3>1 DEF IsSumUpTo
    <3> QED  BY <3>2, <2>2
  <2> QED  BY <2>1, <2>2
<1>2. h \in [SUBSET S -> Nat]
  BY <1>1
<1>3. ASSUME NEW s \in SUBSET S, Cardinality(s) <= n + 1
      PROVE  h[s] = IF s = {} THEN 0 ELSE f[Pick(s)] + h[s \ {Pick(s)}]
  <2>1. CASE s = {}
    <3>1. Cardinality(s) = 0
      BY <2>1, FS_EmptySet
    <3> QED  BY <2>1, <3>1 DEF IsSumUpTo
  <2>2. CASE s # {}
    <3> DEFINE r == s \ {Pick(s)}
    <3>1. Pick(s) \in s /\ r \in SUBSET S /\ IsFiniteSet(s) /\ Cardinality(s) \in Nat
      BY <2>2, PickIsIn, FS_Subset, FS_CardinalityType
    <3>2. Cardinality(r) = Cardinality(s) - 1
      BY <3>1, FS_RemoveElement
    <3>3. h[r] = g[r]
      BY <1>3, <3>1, <3>2
    <3>4. g[s] = f[Pick(s)] + g[r] \/ ~(Cardinality(s) <= n)
      BY <2>2 DEF IsSumUpTo
    <3>5. h[s] = f[Pick(s)] + g[r]
      BY <3>4, <2>2
    <3> QED  BY <2>2, <3>3, <3>5
  <2> QED  BY <2>1, <2>2
<1> HIDE DEF h
<1>4. IsSumUpTo(h, f, S, n + 1)
  BY <1>2, <1>3 DEF IsSumUpTo
<1> QED  BY <1>4

(* The fold exists on every finite set. *)
LEMMA SumExists ==
  ASSUME NEW f, NEW S, IsFiniteSet(S), \A x \in S : f[x] \in Nat
  PROVE  \E g : IsSum(g, f, S) /\ g \in [SUBSET S -> Nat]
<1> DEFINE N == {n \in Nat : \E g : IsSumUpTo(g, f, S, n)}
<1>1. 0 \in N
  <2>1. \A s \in SUBSET S : Cardinality(s) <= 0 => s = {}
    BY FS_Subset, FS_CardinalityType, FS_EmptySet
  <2>2. IsSumUpTo([s \in SUBSET S |-> 0], f, S, 0)
    BY <2>1 DEF IsSumUpTo
  <2> QED  BY <2>2
<1>2. \A n \in Nat : n \in N => n + 1 \in N
  BY SumGrows
<1> HIDE DEF N
<1>3. Nat \subseteq N
  BY <1>1, <1>2, InductiveSet
<1>4. PICK g : IsSumUpTo(g, f, S, Cardinality(S))
  BY <1>3, FS_CardinalityType DEF N
<1>5. \A s \in SUBSET S : Cardinality(s) <= Cardinality(S)
  BY FS_Subset
<1>6. IsSum(g, f, S)
  BY <1>4, <1>5 DEF IsSum, IsSumUpTo
<1> QED  BY <1>4, <1>6 DEF IsSumUpTo

(* Two folds agree on the subsets they share. *)
LEMMA SumIsUnique ==
  ASSUME NEW f, NEW S, IsFiniteSet(S), NEW T \in SUBSET S,
         NEW g, IsSum(g, f, S), NEW h, IsSum(h, f, T)
  PROVE  g[T] = h[T]
<1> DEFINE N == {n \in Nat : \A s \in SUBSET T : Cardinality(s) <= n => g[s] = h[s]}
<1>0. \A s \in SUBSET T : IsFiniteSet(s) /\ Cardinality(s) \in Nat /\ s \in SUBSET S
  BY FS_Subset, FS_CardinalityType
<1>a. \A s \in SUBSET S : g[s] = IF s = {} THEN 0 ELSE f[Pick(s)] + g[s \ {Pick(s)}]
  BY DEF IsSum
<1>b. \A s \in SUBSET T : h[s] = IF s = {} THEN 0 ELSE f[Pick(s)] + h[s \ {Pick(s)}]
  BY DEF IsSum
<1>1. 0 \in N
  <2>1. \A s \in SUBSET T : Cardinality(s) <= 0 => s = {}
    BY <1>0, FS_EmptySet
  <2> QED  BY <2>1, <1>a, <1>b
<1>2. ASSUME NEW n \in Nat, n \in N  PROVE n + 1 \in N
  <2> SUFFICES ASSUME NEW s \in SUBSET T, Cardinality(s) <= n + 1, s # {}  PROVE g[s] = h[s]
    BY <1>a, <1>b
  <2> DEFINE r == s \ {Pick(s)}
  <2>1. r \in SUBSET T /\ Pick(s) \in s
    BY PickIsIn
  <2>2. Cardinality(r) = Cardinality(s) - 1
    BY <2>1, <1>0, FS_RemoveElement
  <2>3. g[r] = h[r]
    BY <1>0, <1>2, <2>1, <2>2
  <2> QED  BY <2>3, <1>a, <1>b
<1> HIDE DEF N
<1>3. Nat \subseteq N
  BY <1>1, <1>2, InductiveSet
<1> QED  BY <1>3, <1>0 DEF N

(* The sum over a set is the fold over any set it is part of. *)
LEMMA SumOfPart ==
  ASSUME NEW f, NEW S, IsFiniteSet(S), \A x \in S : f[x] \in Nat, NEW T \in SUBSET S,
         NEW g, IsSum(g, f, S)
  PROVE  SumFunctionOnSet(f, T) = g[T]
<1> DEFINE h == CHOOSE h : IsSum(h, f, T)
<1>1. IsFiniteSet(T) /\ \A x \in T : f[x] \in Nat
  BY FS_Subset
<1>2. \E i : IsSum(i, f, T)
  BY <1>1, SumExists
<1>3. IsSum(h, f, T)
  BY <1>2
<1> HIDE DEF h
<1>4. g[T] = h[T]
  BY <1>3, SumIsUnique
<1> QED  BY <1>4, SumIsChosen DEF h

(* A sum of naturals is a natural. *)
THEOREM SumType ==
  ASSUME NEW f, NEW S, IsFiniteSet(S), \A x \in S : f[x] \in Nat
  PROVE  SumFunctionOnSet(f, S) \in Nat
<1>1. PICK g : IsSum(g, f, S) /\ g \in [SUBSET S -> Nat]
  BY SumExists
<1>2. SumFunctionOnSet(f, S) = g[S]
  BY <1>1, SumOfPart
<1> QED  BY <1>1, <1>2

(* The sum over no elements is 0. *)
THEOREM SumEmpty == ASSUME NEW f  PROVE SumFunctionOnSet(f, {}) = 0
<1>1. PICK g : IsSum(g, f, {})
  BY SumExists, FS_EmptySet
<1>2. SumFunctionOnSet(f, {}) = g[{}]
  BY <1>1, SumOfPart, FS_EmptySet
<1> QED  BY <1>1, <1>2 DEF IsSum

(* The sum is the picked value and the sum of the rest. *)
LEMMA SumPicks ==
  ASSUME NEW f, NEW S, IsFiniteSet(S), \A x \in S : f[x] \in Nat, S # {}
  PROVE  SumFunctionOnSet(f, S) = f[Pick(S)] + SumFunctionOnSet(f, S \ {Pick(S)})
<1>1. PICK g : IsSum(g, f, S)
  BY SumExists
<1>2. /\ SumFunctionOnSet(f, S) = g[S]
      /\ SumFunctionOnSet(f, S \ {Pick(S)}) = g[S \ {Pick(S)}]
  BY <1>1, SumOfPart
<1> QED  BY <1>1, <1>2 DEF IsSum

(* Any element may be taken out of the sum first. *)
THEOREM SumRemove ==
  ASSUME NEW f, NEW S, IsFiniteSet(S), \A x \in S : f[x] \in Nat, NEW e \in S
  PROVE  SumFunctionOnSet(f, S) = f[e] + SumFunctionOnSet(f, S \ {e})
<1> DEFINE N == {n \in Nat : \A s \in SUBSET S : \A x \in s : Cardinality(s) <= n =>
                    SumFunctionOnSet(f, s) = f[x] + SumFunctionOnSet(f, s \ {x})}
<1>0. \A s \in SUBSET S : /\ IsFiniteSet(s) /\ Cardinality(s) \in Nat
                          /\ SumFunctionOnSet(f, s) \in Nat
  BY FS_Subset, FS_CardinalityType, SumType
<1>1. 0 \in N
  BY <1>0, FS_EmptySet
<1>2. ASSUME NEW n \in Nat, n \in N  PROVE n + 1 \in N
  <2> SUFFICES ASSUME NEW s \in SUBSET S, NEW x \in s, Cardinality(s) <= n + 1
               PROVE  SumFunctionOnSet(f, s) = f[x] + SumFunctionOnSet(f, s \ {x})
    OBVIOUS
  <2> DEFINE c == Pick(s)
  <2>1. c \in s /\ SumFunctionOnSet(f, s) = f[c] + SumFunctionOnSet(f, s \ {c})
    BY <1>0, PickIsIn, SumPicks
  <2>2. CASE c = x
    BY <2>1, <2>2
  <2>3. CASE c # x
    <3> HIDE DEF c
    <3>1. /\ Cardinality(s \ {c}) = Cardinality(s) - 1
          /\ Cardinality(s \ {x}) = Cardinality(s) - 1
      BY <1>0, <2>1, FS_RemoveElement
    <3>2. SumFunctionOnSet(f, s \ {c}) = f[x] + SumFunctionOnSet(f, (s \ {c}) \ {x})
      BY <1>0, <1>2, <2>3, <3>1
    <3>3. SumFunctionOnSet(f, s \ {x}) = f[c] + SumFunctionOnSet(f, (s \ {x}) \ {c})
      BY <1>0, <1>2, <2>1, <2>3, <3>1
    <3>4. (s \ {x}) \ {c} = (s \ {c}) \ {x}
      OBVIOUS
    <3>5. f[c] \in Nat /\ f[x] \in Nat /\ SumFunctionOnSet(f, (s \ {c}) \ {x}) \in Nat
      BY <1>0, <2>1
    <3> QED  BY <2>1, <3>2, <3>3, <3>4, <3>5
  <2> QED  BY <2>2, <2>3
<1> HIDE DEF N
<1>3. Nat \subseteq N
  BY <1>1, <1>2, InductiveSet
<1> QED  BY <1>3, <1>0 DEF N

(* A new element adds its value. *)
THEOREM SumAdd ==
  ASSUME NEW f, NEW S, IsFiniteSet(S), \A x \in S : f[x] \in Nat,
         NEW e, e \notin S, f[e] \in Nat
  PROVE  SumFunctionOnSet(f, S \cup {e}) = f[e] + SumFunctionOnSet(f, S)
<1>1. IsFiniteSet(S \cup {e}) /\ (S \cup {e}) \ {e} = S
  BY FS_AddElement
<1> QED  BY <1>1, SumRemove

(* Only the values on the set count. *)
THEOREM SumEqual ==
  ASSUME NEW f, NEW h, NEW S, IsFiniteSet(S), \A x \in S : f[x] \in Nat /\ h[x] = f[x]
  PROVE  SumFunctionOnSet(h, S) = SumFunctionOnSet(f, S)
<1>1. PICK g : IsSum(g, f, S)
  BY SumExists
<1>2. \A s \in SUBSET S : s # {} => h[Pick(s)] = f[Pick(s)]
  BY PickIsIn
<1>3. IsSum(g, h, S)
  BY <1>1, <1>2 DEF IsSum
<1> QED  BY <1>1, <1>3, SumOfPart

(* The sum over a set is the sum over a part and the sum over the rest. *)
THEOREM SumSplit ==
  ASSUME NEW f, NEW S, IsFiniteSet(S), \A x \in S : f[x] \in Nat, NEW T \in SUBSET S
  PROVE  SumFunctionOnSet(f, S) = SumFunctionOnSet(f, T) + SumFunctionOnSet(f, S \ T)
<1> DEFINE N == {n \in Nat : \A t \in SUBSET T : Cardinality(t) <= n =>
                    SumFunctionOnSet(f, S) = SumFunctionOnSet(f, t) + SumFunctionOnSet(f, S \ t)}
<1>0. \A s \in SUBSET S : /\ IsFiniteSet(s) /\ Cardinality(s) \in Nat
                          /\ SumFunctionOnSet(f, s) \in Nat
  BY FS_Subset, FS_CardinalityType, SumType
<1>1. 0 \in N
  <2>1. \A t \in SUBSET T : Cardinality(t) <= 0 => t = {}
    BY <1>0, FS_EmptySet
  <2>2. SumFunctionOnSet(f, {}) = 0 /\ S \ {} = S
    BY SumEmpty
  <2> QED  BY <1>0, <2>1, <2>2
<1>2. ASSUME NEW n \in Nat, n \in N  PROVE n + 1 \in N
  <2> SUFFICES ASSUME NEW t \in SUBSET T, Cardinality(t) <= n + 1
               PROVE  SumFunctionOnSet(f, S) = SumFunctionOnSet(f, t) + SumFunctionOnSet(f, S \ t)
    OBVIOUS
  <2>a. CASE t = {}
    <3>1. SumFunctionOnSet(f, t) = 0 /\ S \ t = S
      BY <2>a, SumEmpty
    <3> QED  BY <1>0, <3>1
  <2>b. CASE t # {}
    <3>1. PICK e : e \in t
      BY <2>b
    <3> DEFINE r == t \ {e}
    <3>2. Cardinality(r) <= n /\ r \in SUBSET T /\ t \in SUBSET S
      BY <1>0, <3>1, FS_RemoveElement
    <3>3. SumFunctionOnSet(f, S) = SumFunctionOnSet(f, r) + SumFunctionOnSet(f, S \ r)
      BY <1>2, <3>2
    <3>4. SumFunctionOnSet(f, t) = f[e] + SumFunctionOnSet(f, r)
      BY <1>0, <3>1, <3>2, SumRemove
    <3>5. SumFunctionOnSet(f, S \ r) = f[e] + SumFunctionOnSet(f, (S \ r) \ {e})
      BY <1>0, <3>1, <3>2, SumRemove
    <3>6. (S \ r) \ {e} = S \ t
      BY <3>1
    <3>7. /\ f[e] \in Nat /\ SumFunctionOnSet(f, r) \in Nat
          /\ SumFunctionOnSet(f, S \ t) \in Nat
      BY <1>0, <3>1, <3>2
    <3> HIDE DEF r
    <3> QED  BY <3>3, <3>4, <3>5, <3>6, <3>7
  <2> QED  BY <2>a, <2>b
<1> HIDE DEF N
<1>3. Nat \subseteq N
  BY <1>1, <1>2, InductiveSet
<1> QED  BY <1>3, <1>0 DEF N
=============================================================================
