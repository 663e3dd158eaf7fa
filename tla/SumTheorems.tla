----------------------------- MODULE SumTheorems -----------------------------
(***************************************************************************)
(* What SumFunctionOnSet(g, S) is: a sum that does not depend on the order *)
(* in which the set is folded; and what FlattenSeq(s) is, one sequence at  *)
(* a time. The installed library states induction only for operator        *)
(* parameters; here it is used through the least element of a set of       *)
(* naturals, which is a fact about sets.                                   *)
(***************************************************************************)
EXTENDS Integers, FiniteSets, Functions, SequencesExt, FiniteSetTheorems, SequenceTheorems,
        WellFoundedInduction, TLAPS

\* A non-empty set of naturals has a least element.
LEMMA LeastNatural ==
    ASSUME NEW S \in SUBSET Nat, S # {}
    PROVE  \E m \in S : \A k \in S : m <= k
<1> DEFINE T == {0..k : k \in S}
<1>1. T \subseteq FiniteSubsetsOf(Nat)
  <2> SUFFICES ASSUME NEW k \in S PROVE 0..k \in FiniteSubsetsOf(Nat)
    OBVIOUS
  <2>1. IsFiniteSet(0..k)
    BY FS_Interval
  <2> QED
    BY <2>1 DEF FiniteSubsetsOf
<1>2. IsWellFoundedOn(StrictSubsetOrdering(Nat), FiniteSubsetsOf(Nat))
  BY FS_StrictSubsetOrderingWellFounded
<1>3. T # {}
  OBVIOUS
<1> HIDE DEF T
<1>4. PICK x \in T : \A y \in T : ~(<<y, x>> \in StrictSubsetOrdering(Nat))
  BY <1>1, <1>2, <1>3, WFMin
<1>5. PICK m \in S : x = 0..m
  BY DEF T
<1>6. ASSUME NEW k \in S, ~(m <= k) PROVE FALSE
  <2>1. 0..k \in T /\ k \in Nat /\ m \in Nat /\ k < m
    BY <1>6 DEF T
  <2>2. /\ 0..k \subseteq 0..m /\ m \in 0..m /\ m \notin 0..k
        /\ 0..k \in SUBSET Nat /\ 0..m \in SUBSET Nat
    BY <2>1
  <2>3. <<0..k, 0..m>> \in StrictSubsetOrdering(Nat)
    BY <2>2 DEF StrictSubsetOrdering
  <2> QED
    BY <1>4, <1>5, <2>1, <2>3
<1> QED
  BY <1>6

\* Induction over the naturals, for the numbers in a set.
LEMMA NatSetInduction ==
    ASSUME NEW S, 0 \in S, \A n \in Nat : n \in S => n + 1 \in S
    PROVE  Nat \subseteq S
<1> SUFFICES ASSUME Nat \ S # {} PROVE FALSE
  OBVIOUS
<1>1. PICK m \in Nat \ S : \A k \in Nat \ S : m <= k
  BY LeastNatural
<1>2. m # 0
  BY <1>1
<1>3. m - 1 \in Nat /\ (m - 1) + 1 = m
  BY <1>1, <1>2
<1>4. m - 1 \in S
  BY <1>1, <1>3
<1> QED
  BY <1>1, <1>3, <1>4

-----------------------------------------------------------------------------
(* The fold.                                                               *)

\* The element the fold takes from a set, and one step of the fold.
FoldFirst(s) == CHOOSE x \in s : TRUE
FoldStep(g, h, s) == IF s = {} THEN 0 ELSE g[FoldFirst(s)] + h[s \ {FoldFirst(s)}]

\* The first element is an element.
LEMMA FoldFirstIn == ASSUME NEW s, s # {} PROVE FoldFirst(s) \in s
BY DEF FoldFirst

\* What the fold of the library computes.
LEMMA SumUnfold ==
    ASSUME NEW g, NEW S
    PROVE  SumFunctionOnSet(g, S) = (CHOOSE h : h = [s \in SUBSET S |-> FoldStep(g, h, s)])[S]
BY DEF SumFunctionOnSet, FoldFunctionOnSet, MapThenFoldSet, FoldStep, FoldFirst

\* The sets of at most n elements, and the functions that fold them all.
Small(S, n) == {s \in SUBSET S : Cardinality(s) <= n}
FoldFns(g, S, n) == {h \in [Small(S, n) -> Int] : \A s \in Small(S, n) : h[s] = FoldStep(g, h, s)}

\* Without its first element a set has one element less.
LEMMA SmallerRest ==
    ASSUME NEW S, IsFiniteSet(S), NEW s \in SUBSET S, s # {}
    PROVE  /\ s \ {FoldFirst(s)} \in SUBSET S /\ FoldFirst(s) \in S
           /\ Cardinality(s \ {FoldFirst(s)}) = Cardinality(s) - 1
           /\ Cardinality(s) \in Nat /\ Cardinality(s) > 0
<1>1. IsFiniteSet(s) /\ Cardinality(s) \in Nat
  BY FS_Subset, FS_CardinalityType
<1>2. FoldFirst(s) \in s
  BY FoldFirstIn
<1>3. Cardinality(s \ {FoldFirst(s)}) = Cardinality(s) - 1
  BY <1>1, <1>2, FS_RemoveElement
<1>4. Cardinality(s) # 0
  BY <1>1, FS_EmptySet
<1> QED
  BY <1>1, <1>2, <1>3, <1>4

\* There is a function that folds all sets of at most n elements.
LEMMA FoldsExist ==
    ASSUME NEW S, IsFiniteSet(S), NEW g, \A x \in S : g[x] \in Int
    PROVE  \A n \in Nat : FoldFns(g, S, n) # {}
<1> DEFINE N == {n \in Nat : FoldFns(g, S, n) # {}}
<1>1. 0 \in N
  <2> DEFINE h == [s \in Small(S, 0) |-> 0]
  <2>1. ASSUME NEW s \in Small(S, 0) PROVE s = {}
    BY <2>1, FS_Subset, FS_EmptySet, FS_CardinalityType, SmallerRest DEF Small
  <2>2. h \in FoldFns(g, S, 0)
    BY <2>1 DEF FoldFns, FoldStep
  <2> QED
    BY <2>2
<1>2. ASSUME NEW n \in Nat, n \in N PROVE n + 1 \in N
  <2>1. PICK h : h \in FoldFns(g, S, n)
    BY <1>2
  <2> DEFINE k == [s \in Small(S, n + 1) |-> FoldStep(g, h, s)]
  <2>2. ASSUME NEW s \in Small(S, n + 1), s # {}
        PROVE  s \ {FoldFirst(s)} \in Small(S, n) /\ FoldFirst(s) \in S
    BY <1>2, <2>2, SmallerRest DEF Small
  <2>3. Small(S, n) \subseteq Small(S, n + 1)
    <3> SUFFICES ASSUME NEW s \in Small(S, n) PROVE s \in Small(S, n + 1)
      OBVIOUS
    <3>1. Cardinality(s) \in Nat
      BY FS_Subset, FS_CardinalityType DEF Small
    <3> QED
      BY <1>2, <3>1 DEF Small
  <2>4. \A s \in Small(S, n) : k[s] = h[s]
    BY <2>1, <2>3 DEF FoldFns
  <2>5. k \in [Small(S, n + 1) -> Int]
    <3> SUFFICES ASSUME NEW s \in Small(S, n + 1) PROVE FoldStep(g, h, s) \in Int
      OBVIOUS
    <3>1. CASE s = {}
      BY <3>1 DEF FoldStep
    <3>2. CASE s # {}
      <4>1. g[FoldFirst(s)] \in Int /\ h[s \ {FoldFirst(s)}] \in Int
        BY <2>1, <2>2, <3>2 DEF FoldFns
      <4> QED
        BY <3>2, <4>1 DEF FoldStep
    <3> QED
      BY <3>1, <3>2
  <2>6. ASSUME NEW s \in Small(S, n + 1) PROVE k[s] = FoldStep(g, k, s)
    <3>1. CASE s = {}
      BY <3>1 DEF FoldStep
    <3>2. CASE s # {}
      <4>1. k[s \ {FoldFirst(s)}] = h[s \ {FoldFirst(s)}]
        BY <2>2, <2>4, <3>2
      <4> QED
        BY <3>2, <4>1 DEF FoldStep
    <3> QED
      BY <3>1, <3>2
  <2> HIDE DEF k
  <2>7. k \in FoldFns(g, S, n + 1)
    BY <2>5, <2>6 DEF FoldFns
  <2> QED
    BY <1>2, <2>7
<1> HIDE DEF N
<1>3. Nat \subseteq N
  BY <1>1, <1>2, NatSetInduction
<1> QED
  BY <1>3 DEF N

\* h folds every subset of S.
Folds(g, h, S) == \A s \in SUBSET S : h[s] = FoldStep(g, h, s)

\* Two functions that fold the subsets of S and of a part T of it agree on the
\* subsets of T.
LEMMA FoldsAgree ==
    ASSUME NEW S, IsFiniteSet(S), NEW T \in SUBSET S, NEW g, NEW h, NEW k,
           Folds(g, h, S), Folds(g, k, T)
    PROVE  \A s \in SUBSET T : h[s] = k[s]
<1> SUFFICES ASSUME NEW s \in SUBSET T, h[s] # k[s] PROVE FALSE
  OBVIOUS
<1>0. IsFiniteSet(T)
  BY FS_Subset
<1> DEFINE Bad == {m \in Nat : \E t \in SUBSET T : Cardinality(t) = m /\ h[t] # k[t]}
<1>1. Bad # {}
  BY <1>0, FS_Subset, FS_CardinalityType
<1>2. PICK m \in Bad : \A l \in Bad : m <= l
  BY <1>1, LeastNatural
<1>3. PICK t \in SUBSET T : Cardinality(t) = m /\ h[t] # k[t]
  BY <1>2
<1>4. t # {}
  BY <1>3 DEF FoldStep, Folds
<1> DEFINE r == t \ {FoldFirst(t)}
<1>5. /\ r \in SUBSET T /\ Cardinality(r) = m - 1 /\ m \in Nat /\ m > 0 /\ FoldFirst(t) \in T
  BY <1>0, <1>3, <1>4, SmallerRest
<1>6. h[r] # k[r]
  <2>1. h[t] = g[FoldFirst(t)] + h[r] /\ k[t] = g[FoldFirst(t)] + k[r]
    BY <1>3, <1>4 DEF FoldStep, Folds
  <2> QED
    BY <1>3, <1>5, <2>1
<1>7. m - 1 \in Bad
  BY <1>5, <1>6
<1> QED
  BY <1>2, <1>5, <1>7

\* The sum is what a function that folds all subsets gives for the whole set.
LEMMA SumIsFold ==
    ASSUME NEW S, IsFiniteSet(S), NEW g, \A x \in S : g[x] \in Int
    PROVE  \E h \in [SUBSET S -> Int] :
              /\ Folds(g, h, S)
              /\ SumFunctionOnSet(g, S) = h[S]
<1> DEFINE n == Cardinality(S)
           H == CHOOSE h : h = [s \in SUBSET S |-> FoldStep(g, h, s)]
<1>1. n \in Nat /\ Small(S, n) = SUBSET S
  BY FS_CardinalityType, FS_Subset DEF Small
<1>2. PICK h : h \in FoldFns(g, S, n)
  BY <1>1, FoldsExist
<1>3. h = [s \in SUBSET S |-> FoldStep(g, h, s)] /\ h \in [SUBSET S -> Int]
  BY <1>1, <1>2 DEF FoldFns
<1>4. H = [s \in SUBSET S |-> FoldStep(g, H, s)]
  BY <1>3
<1>5. SumFunctionOnSet(g, S) = H[S]
  BY SumUnfold
<1> HIDE DEF H
<1>6. Folds(g, H, S)
  BY <1>4 DEF Folds
<1>7. Folds(g, h, S)
  BY <1>3 DEF Folds
<1>8. H[S] = h[S]
  BY <1>6, <1>7, FoldsAgree
<1> QED
  BY <1>3, <1>5, <1>7, <1>8

-----------------------------------------------------------------------------
(* The sum.                                                                *)

\* A sum of integers is an integer, and the empty sum is 0.
LEMMA SumType ==
    ASSUME NEW S, IsFiniteSet(S), NEW g, \A x \in S : g[x] \in Int
    PROVE  /\ SumFunctionOnSet(g, S) \in Int
           /\ S = {} => SumFunctionOnSet(g, S) = 0
<1>1. PICK h \in [SUBSET S -> Int] :
         Folds(g, h, S) /\ SumFunctionOnSet(g, S) = h[S]
  BY SumIsFold
<1>2. h[S] = FoldStep(g, h, S)
  BY <1>1 DEF Folds
<1> QED
  BY <1>1, <1>2 DEF FoldStep, Folds

\* Only the terms matter.
LEMMA SumAgree ==
    ASSUME NEW S, IsFiniteSet(S), NEW g, NEW f,
           \A x \in S : g[x] \in Int /\ g[x] = f[x]
    PROVE  SumFunctionOnSet(g, S) = SumFunctionOnSet(f, S)
<1>1. PICK h : h \in [SUBSET S -> Int] /\
         Folds(g, h, S) /\ SumFunctionOnSet(g, S) = h[S]
  BY SumIsFold
<1>2. PICK k : k \in [SUBSET S -> Int] /\
         Folds(f, k, S) /\ SumFunctionOnSet(f, S) = k[S]
  BY SumIsFold
<1>3. \A s \in SUBSET S : h[s] = k[s]
  <2>1. Folds(g, h, S)
    BY <1>1
  <2>2. Folds(g, k, S)
    BY <1>2, FoldFirstIn DEF FoldStep, Folds
  <2> QED
    BY <2>1, <2>2, FoldsAgree
<1> QED
  BY <1>1, <1>2, <1>3

\* The element the fold takes first is one term of the sum.
LEMMA SumRest ==
    ASSUME NEW S, IsFiniteSet(S), S # {}, NEW g, \A x \in S : g[x] \in Int
    PROVE  SumFunctionOnSet(g, S) =
             g[FoldFirst(S)] + SumFunctionOnSet(g, S \ {FoldFirst(S)})
<1> DEFINE R == S \ {FoldFirst(S)}
<1>0. IsFiniteSet(R) /\ R \in SUBSET S
  BY FS_Subset
<1>1. PICK h : h \in [SUBSET S -> Int] /\
         Folds(g, h, S) /\ SumFunctionOnSet(g, S) = h[S]
  BY SumIsFold
<1>2. PICK k : k \in [SUBSET R -> Int] /\
         Folds(g, k, R) /\ SumFunctionOnSet(g, R) = k[R]
  BY <1>0, SumIsFold
<1>3. \A s \in SUBSET R : h[s] = k[s]
  <2>1. Folds(g, h, S)
    BY <1>1
  <2>2. Folds(g, k, R)
    BY <1>2
  <2> HIDE DEF R
  <2> QED
    BY <1>0, <2>1, <2>2, FoldsAgree
<1>4. h[S] = g[FoldFirst(S)] + h[R]
  BY <1>1 DEF FoldStep, Folds
<1> QED
  BY <1>1, <1>2, <1>3, <1>4

\* One more element adds its term, whichever element the fold takes first.
THEOREM SumAdd ==
    ASSUME NEW S, IsFiniteSet(S), NEW g, \A y \in S : g[y] \in Int,
           NEW x, x \notin S, g[x] \in Int
    PROVE  SumFunctionOnSet(g, S \cup {x}) = SumFunctionOnSet(g, S) + g[x]
<1> DEFINE Holds(T, y) == SumFunctionOnSet(g, T \cup {y}) = SumFunctionOnSet(g, T) + g[y]
           U == S \cup {x}
           N == {n \in Nat : \A T \in SUBSET U : \A y \in U :
                               Cardinality(T) = n /\ y \notin T => Holds(T, y)}
<1>0. IsFiniteSet(U) /\ \A y \in U : g[y] \in Int
  BY FS_AddElement
<1>f. ASSUME NEW T \in SUBSET U PROVE IsFiniteSet(T) /\ Cardinality(T) \in Nat
  BY <1>0, FS_Subset, FS_CardinalityType
<1>g. ASSUME NEW T \in SUBSET U PROVE SumFunctionOnSet(g, T) \in Int
  BY <1>0, <1>f, SumType
<1>1. 0 \in N
  <2> SUFFICES ASSUME NEW T \in SUBSET U, NEW y \in U, Cardinality(T) = 0 PROVE Holds(T, y)
    OBVIOUS
  <2>1. T = {} /\ T \cup {y} = {y} /\ {y} # {} /\ FoldFirst({y}) = y /\ {y} \ {y} = {}
    BY <1>f, FS_EmptySet, FoldFirstIn
  <2>2. SumFunctionOnSet(g, {y}) = g[y] + SumFunctionOnSet(g, {})
    BY <1>0, <1>f, <2>1, SumRest
  <2> QED
    BY <1>0, <1>g, <2>1, <2>2
<1>2. ASSUME NEW n \in Nat, n \in N PROVE n + 1 \in N
  <2> SUFFICES ASSUME NEW T \in SUBSET U, NEW y \in U, Cardinality(T) = n + 1, y \notin T
               PROVE  Holds(T, y)
    OBVIOUS
  <2> DEFINE V == T \cup {y}   p == FoldFirst(V)
  <2>1. V \in SUBSET U /\ V # {} /\ p \in V
    BY FoldFirstIn
  <2>2. SumFunctionOnSet(g, V) = g[p] + SumFunctionOnSet(g, V \ {p})
    BY <1>0, <1>f, <2>1, SumRest
  <2> HIDE DEF p
  <2>3. CASE p = y
    <3>1. V \ {p} = T
      BY <2>3
    <3>2. SumFunctionOnSet(g, T) \in Int /\ g[y] \in Int
      BY <1>0, <1>g
    <3>3. SumFunctionOnSet(g, V) = g[y] + SumFunctionOnSet(g, T)
      BY <2>2, <2>3, <3>1
    <3> HIDE DEF V
    <3>4. SumFunctionOnSet(g, V) = SumFunctionOnSet(g, T) + g[y]
      BY <3>2, <3>3
    <3> QED
      BY <3>4 DEF V
  <2>4. CASE p # y
    <3> DEFINE W == T \ {p}
    <3>1. p \in T /\ V \ {p} = W \cup {y} /\ W \cup {p} = T /\ W \in SUBSET U /\ p \in U
          /\ p \notin W /\ y \notin W
      BY <2>1, <2>4
    <3>2. Cardinality(W) = n
      BY <1>f, <3>1, FS_RemoveElement
    <3>3. Holds(W, y) /\ Holds(W, p)
      BY <1>2, <3>1, <3>2
    <3>4. /\ SumFunctionOnSet(g, V) = g[p] + (SumFunctionOnSet(g, W) + g[y])
          /\ SumFunctionOnSet(g, T) = SumFunctionOnSet(g, W) + g[p]
      BY <2>2, <3>1, <3>3
    <3>5. SumFunctionOnSet(g, W) \in Int /\ g[y] \in Int /\ g[p] \in Int
      BY <1>0, <1>g, <3>1
    <3> QED
      BY <3>4, <3>5
  <2> QED
    BY <2>3, <2>4
<1>3. Nat \subseteq N
  <2> HIDE DEF N
  <2> QED
    BY <1>1, <1>2, NatSetInduction
<1>4. Cardinality(S) \in N /\ S \in SUBSET U /\ x \in U
  BY <1>3, FS_CardinalityType
<1> QED
  BY <1>4

\* A sum of naturals grows with the set.
THEOREM SumMonotone ==
    ASSUME NEW T, IsFiniteSet(T), NEW g, \A y \in T : g[y] \in Nat, NEW S \in SUBSET T
    PROVE  SumFunctionOnSet(g, S) <= SumFunctionOnSet(g, T)
<1> DEFINE Holds(R) == SumFunctionOnSet(g, S) <= SumFunctionOnSet(g, S \cup R)
           N == {n \in Nat : \A R \in SUBSET T : Cardinality(R) = n => Holds(R)}
<1>f. ASSUME NEW R \in SUBSET T
      PROVE  IsFiniteSet(R) /\ Cardinality(R) \in Nat /\ SumFunctionOnSet(g, R) \in Int
  BY FS_Subset, FS_CardinalityType, SumType
<1>1. 0 \in N
  <2> SUFFICES ASSUME NEW R \in SUBSET T, Cardinality(R) = 0 PROVE Holds(R)
    OBVIOUS
  <2>1. S \cup R = S
    BY <1>f, FS_EmptySet
  <2> QED
    BY <1>f, <2>1
<1>2. ASSUME NEW n \in Nat, n \in N PROVE n + 1 \in N
  <2> SUFFICES ASSUME NEW R \in SUBSET T, Cardinality(R) = n + 1 PROVE Holds(R)
    OBVIOUS
  <2>1. PICK x : x \in R
    BY FS_EmptySet
  <2> DEFINE Q == R \ {x}
  <2>a. IsFiniteSet(R) /\ Cardinality(R) = n + 1
    BY <1>f
  <2>b. Cardinality(Q) = Cardinality(R) - 1
    BY <2>1, <2>a, FS_RemoveElement
  <2>2. Q \in SUBSET T /\ Cardinality(Q) = n /\ g[x] \in Nat
    BY <1>2, <2>1, <2>a, <2>b
  <2>3. Holds(Q)
    BY <1>2, <2>2
  <2>4. CASE x \in S
    <3>1. S \cup R = S \cup Q
      BY <2>1, <2>4
    <3> QED
      BY <2>3, <3>1
  <2>5. CASE x \notin S
    <3>1. S \cup R = (S \cup Q) \cup {x} /\ x \notin S \cup Q /\ S \cup Q \in SUBSET T
      BY <2>1, <2>5
    <3>2. SumFunctionOnSet(g, S \cup R) = SumFunctionOnSet(g, S \cup Q) + g[x]
      BY <1>f, <2>2, <3>1, SumAdd
    <3> QED
      BY <1>f, <2>2, <2>3, <3>1, <3>2
  <2> QED
    BY <2>4, <2>5
<1>3. Nat \subseteq N
  <2> HIDE DEF N
  <2> QED
    BY <1>1, <1>2, NatSetInduction
<1>4. Holds(T) /\ S \cup T = T
  BY <1>3, <1>f
<1> QED
  BY <1>4

\* A sum of naturals is a natural.
LEMMA SumNat ==
    ASSUME NEW S, IsFiniteSet(S), NEW g, \A x \in S : g[x] \in Nat
    PROVE  SumFunctionOnSet(g, S) \in Nat
<1>1. SumFunctionOnSet(g, {}) = 0
  BY FS_EmptySet, SumType
<1>2. SumFunctionOnSet(g, {}) <= SumFunctionOnSet(g, S)
  BY SumMonotone
<1>3. SumFunctionOnSet(g, S) \in Int
  BY SumType
<1> QED
  BY <1>1, <1>2, <1>3

\* Adding one to a term cannot make a sum smaller.
THEOREM SumBump ==
    ASSUME NEW D, IsFiniteSet(D), NEW g \in [D -> Int], NEW c \in D, NEW S \in SUBSET D
    PROVE  SumFunctionOnSet(g, S) <= SumFunctionOnSet([g EXCEPT ![c] = g[c] + 1], S)
<1> DEFINE f == [g EXCEPT ![c] = g[c] + 1]
           R == S \ {c}
<1>1. IsFiniteSet(R) /\ IsFiniteSet(S) /\ c \notin R
  BY FS_Subset
<1>2. /\ f[c] = g[c] + 1 /\ f[c] \in Int /\ g[c] \in Int
      /\ \A x \in R : g[x] \in Int /\ f[x] \in Int /\ g[x] = f[x]
  OBVIOUS
<1> HIDE DEF f, R
<1>3. SumFunctionOnSet(g, R) = SumFunctionOnSet(f, R) /\ SumFunctionOnSet(f, R) \in Int
  BY <1>1, <1>2, SumAgree, SumType
<1>4. CASE c \in S
  <2>1. R \cup {c} = S
    BY <1>4 DEF R
  <2>2. SumFunctionOnSet(g, R \cup {c}) = SumFunctionOnSet(g, R) + g[c]
    BY <1>1, <1>2, SumAdd
  <2>3. SumFunctionOnSet(f, R \cup {c}) = SumFunctionOnSet(f, R) + f[c]
    BY <1>1, <1>2, SumAdd
  <2>4. SumFunctionOnSet(g, S) = SumFunctionOnSet(f, R) + g[c]
    BY <1>3, <2>1, <2>2
  <2>5. SumFunctionOnSet(f, S) = SumFunctionOnSet(f, R) + (g[c] + 1)
    BY <1>2, <2>1, <2>3
  <2>6. SumFunctionOnSet(g, S) <= SumFunctionOnSet(f, S)
    BY <1>2, <1>3, <2>4, <2>5
  <2> QED
    BY <2>6 DEF f
<1>5. CASE c \notin S
  <2>1. R = S
    BY <1>5 DEF R
  <2>2. SumFunctionOnSet(g, S) <= SumFunctionOnSet(f, S)
    BY <1>3, <2>1
  <2> QED
    BY <2>2 DEF f
<1> QED
  BY <1>4, <1>5

\* Changing one term changes a sum by as much.
THEOREM SumChange ==
    ASSUME NEW S, IsFiniteSet(S), NEW g, NEW f, NEW c,
           \A x \in S : g[x] \in Int /\ f[x] \in Int,
           \A x \in S : x # c => g[x] = f[x]
    PROVE  /\ c \notin S => SumFunctionOnSet(f, S) = SumFunctionOnSet(g, S)
           /\ c \in S => SumFunctionOnSet(f, S) = SumFunctionOnSet(g, S) + (f[c] - g[c])
<1> DEFINE R == S \ {c}
<1>1. IsFiniteSet(R) /\ c \notin R /\ R \subseteq S
  BY FS_Subset
<1>2. \A x \in R : g[x] \in Int /\ f[x] \in Int /\ g[x] = f[x]
  OBVIOUS
<1>3. CASE c \notin S
  BY <1>3, SumAgree
<1>4. CASE c \in S
  <2>1. R \cup {c} = S /\ g[c] \in Int /\ f[c] \in Int
    BY <1>4
  <2> HIDE DEF R
  <2>2. SumFunctionOnSet(g, R) = SumFunctionOnSet(f, R) /\ SumFunctionOnSet(f, R) \in Int
    BY <1>1, <1>2, SumAgree, SumType
  <2>3. SumFunctionOnSet(g, R \cup {c}) = SumFunctionOnSet(g, R) + g[c]
    BY <1>1, <1>2, <2>1, SumAdd
  <2>4. SumFunctionOnSet(f, R \cup {c}) = SumFunctionOnSet(f, R) + f[c]
    BY <1>1, <1>2, <2>1, SumAdd
  <2>5. /\ SumFunctionOnSet(g, S) = SumFunctionOnSet(f, R) + g[c]
        /\ SumFunctionOnSet(f, S) = SumFunctionOnSet(f, R) + f[c]
    BY <2>1, <2>2, <2>3, <2>4
  <2> QED
    BY <1>4, <2>1, <2>2, <2>5
<1> QED
  BY <1>3, <1>4

\* Term by term smaller is smaller as a sum.
THEOREM SumOrder ==
    ASSUME NEW T, IsFiniteSet(T), NEW g, NEW f,
           \A y \in T : f[y] \in Int /\ g[y] \in Int /\ f[y] <= g[y]
    PROVE  SumFunctionOnSet(f, T) <= SumFunctionOnSet(g, T)
<1> DEFINE Holds(R) == SumFunctionOnSet(f, R) <= SumFunctionOnSet(g, R)
           N == {n \in Nat : \A R \in SUBSET T : Cardinality(R) = n => Holds(R)}
<1>f. ASSUME NEW R \in SUBSET T
      PROVE  /\ IsFiniteSet(R) /\ Cardinality(R) \in Nat
             /\ SumFunctionOnSet(f, R) \in Int /\ SumFunctionOnSet(g, R) \in Int
  BY FS_Subset, FS_CardinalityType, SumType
<1>1. 0 \in N
  <2> SUFFICES ASSUME NEW R \in SUBSET T, Cardinality(R) = 0 PROVE Holds(R)
    OBVIOUS
  <2>1. R = {}
    BY <1>f, FS_EmptySet
  <2>2. SumFunctionOnSet(f, {}) = 0 /\ SumFunctionOnSet(g, {}) = 0
    BY FS_EmptySet, SumType
  <2> QED
    BY <2>1, <2>2
<1>2. ASSUME NEW n \in Nat, n \in N PROVE n + 1 \in N
  <2> SUFFICES ASSUME NEW R \in SUBSET T, Cardinality(R) = n + 1 PROVE Holds(R)
    OBVIOUS
  <2>1. PICK x : x \in R
    BY FS_EmptySet
  <2> DEFINE Q == R \ {x}
  <2>a. IsFiniteSet(R) /\ Cardinality(R) = n + 1
    BY <1>f
  <2>b. Cardinality(Q) = Cardinality(R) - 1
    BY <2>1, <2>a, FS_RemoveElement
  <2>2. /\ Q \in SUBSET T /\ Cardinality(Q) = n /\ f[x] \in Int /\ g[x] \in Int /\ f[x] <= g[x]
        /\ x \notin Q /\ R = Q \cup {x}
    BY <1>2, <2>1, <2>a, <2>b
  <2>3. Holds(Q)
    BY <1>2, <2>2
  <2> HIDE DEF Q
  <2>4. SumFunctionOnSet(f, Q \cup {x}) = SumFunctionOnSet(f, Q) + f[x]
    BY <1>f, <2>2, SumAdd
  <2>5. SumFunctionOnSet(g, Q \cup {x}) = SumFunctionOnSet(g, Q) + g[x]
    BY <1>f, <2>2, SumAdd
  <2> QED
    BY <1>f, <2>2, <2>3, <2>4, <2>5
<1>3. Nat \subseteq N
  <2> HIDE DEF N
  <2> QED
    BY <1>1, <1>2, NatSetInduction
<1>4. Holds(T)
  BY <1>3, <1>f
<1> QED
  BY <1>4

\* A sum of nothing but zeros is zero.
THEOREM SumZero ==
    ASSUME NEW T, IsFiniteSet(T), NEW g, \A y \in T : g[y] = 0
    PROVE  SumFunctionOnSet(g, T) = 0
<1> DEFINE Holds(R) == SumFunctionOnSet(g, R) = 0
           N == {n \in Nat : \A R \in SUBSET T : Cardinality(R) = n => Holds(R)}
<1>f. ASSUME NEW R \in SUBSET T PROVE IsFiniteSet(R) /\ Cardinality(R) \in Nat
  BY FS_Subset, FS_CardinalityType
<1>1. 0 \in N
  <2> SUFFICES ASSUME NEW R \in SUBSET T, Cardinality(R) = 0 PROVE Holds(R)
    OBVIOUS
  <2>1. R = {}
    BY <1>f, FS_EmptySet
  <2> QED
    BY <2>1, FS_EmptySet, SumType
<1>2. ASSUME NEW n \in Nat, n \in N PROVE n + 1 \in N
  <2> SUFFICES ASSUME NEW R \in SUBSET T, Cardinality(R) = n + 1 PROVE Holds(R)
    OBVIOUS
  <2>1. PICK x : x \in R
    BY FS_EmptySet
  <2> DEFINE Q == R \ {x}
  <2>a. IsFiniteSet(R) /\ Cardinality(R) = n + 1
    BY <1>f
  <2>b. Cardinality(Q) = Cardinality(R) - 1
    BY <2>1, <2>a, FS_RemoveElement
  <2>2. Q \in SUBSET T /\ Cardinality(Q) = n /\ g[x] = 0 /\ x \notin Q /\ R = Q \cup {x}
    BY <1>2, <2>1, <2>a, <2>b
  <2>3. Holds(Q)
    BY <1>2, <2>2
  <2>c. g[x] \in Int /\ \A y \in Q : g[y] \in Int
    BY <2>2
  <2> HIDE DEF Q
  <2>4. SumFunctionOnSet(g, Q \cup {x}) = SumFunctionOnSet(g, Q) + g[x]
    BY <1>f, <2>2, <2>c, SumAdd
  <2> QED
    BY <2>2, <2>3, <2>4
<1>3. Nat \subseteq N
  <2> HIDE DEF N
  <2> QED
    BY <1>1, <1>2, NatSetInduction
<1>4. Holds(T)
  BY <1>3, <1>f
<1> QED
  BY <1>4

-----------------------------------------------------------------------------
(* Joining sequences.                                                      *)

\* The first c of some sequences, joined.
Joint(s, c) == FlattenSeq([i \in 1..c |-> s[i]])

\* h joins the first i of the sequences in s, for every i.
Joins(s, h, n) == \A i \in 1..n : h[i] = IF i = 1 THEN s[i] ELSE h[i - 1] \o s[i]

\* Any number of sequences can be joined.
LEMMA JoinsExist ==
    ASSUME NEW S, NEW s \in Seq(Seq(S))
    PROVE  \A n \in 0..Len(s) : \E h \in [1..n -> Seq(S)] : Joins(s, h, n)
<1> DEFINE N == {n \in Nat : n <= Len(s) => \E h \in [1..n -> Seq(S)] : Joins(s, h, n)}
<1>1. 0 \in N
  <2>1. [i \in 1..0 |-> <<>>] \in [1..0 -> Seq(S)] /\ Joins(s, [i \in 1..0 |-> <<>>], 0)
    BY DEF Joins
  <2> QED
    BY <2>1
<1>2. ASSUME NEW n \in Nat, n \in N PROVE n + 1 \in N
  <2> SUFFICES ASSUME n + 1 <= Len(s)
               PROVE  \E h \in [1..(n + 1) -> Seq(S)] : Joins(s, h, n + 1)
    OBVIOUS
  <2>1. PICK h \in [1..n -> Seq(S)] : Joins(s, h, n)
    BY <1>2
  <2> DEFINE e == IF n = 0 THEN s[n + 1] ELSE h[n] \o s[n + 1]
             k == [i \in 1..(n + 1) |-> IF i = n + 1 THEN e ELSE h[i]]
  <2>2. s[n + 1] \in Seq(S) /\ (n # 0 => h[n] \in Seq(S))
    BY <2>1
  <2>3. e \in Seq(S)
    BY <2>2
  <2>4. k \in [1..(n + 1) -> Seq(S)]
    BY <2>1, <2>3
  <2>5. ASSUME NEW i \in 1..(n + 1)
        PROVE  k[i] = IF i = 1 THEN s[i] ELSE k[i - 1] \o s[i]
    <3>1. CASE i = n + 1
      <4>1. k[i] = e /\ (n # 0 => n \in 1..(n + 1) /\ n # n + 1 /\ k[n] = h[n])
        BY <3>1
      <4>2. (i = 1 <=> n = 0) /\ i - 1 = n
        BY <3>1
      <4> QED
        BY <3>1, <4>1, <4>2
    <3>2. CASE i # n + 1
      <4>1. i \in 1..n /\ k[i] = h[i]
        BY <3>2
      <4>2. i # 1 => i - 1 \in 1..n /\ i - 1 \in 1..(n + 1) /\ i - 1 # n + 1
        BY <4>1
      <4>3. i # 1 => k[i - 1] = h[i - 1]
        BY <4>2
      <4> QED
        BY <2>1, <4>1, <4>3 DEF Joins
    <3> QED
      BY <3>1, <3>2
  <2> HIDE DEF k
  <2> QED
    BY <2>4, <2>5 DEF Joins
<1> HIDE DEF N
<1>3. Nat \subseteq N
  BY <1>1, <1>2, NatSetInduction
<1> QED
  BY <1>3 DEF N

\* What joins the same sequences is the same.
LEMMA JoinsAgree ==
    ASSUME NEW s, NEW h, NEW k, NEW n \in Nat, Joins(s, h, n), Joins(s, k, n)
    PROVE  \A i \in 1..n : h[i] = k[i]
<1> DEFINE N == {i \in Nat : i \in 1..n => h[i] = k[i]}
<1>1. 0 \in N
  OBVIOUS
<1>2. ASSUME NEW i \in Nat, i \in N PROVE i + 1 \in N
  <2> SUFFICES ASSUME i + 1 \in 1..n PROVE h[i + 1] = k[i + 1]
    OBVIOUS
  <2>1. /\ (i + 1) - 1 = i /\ (i + 1 = 1 <=> i = 0)
        /\ i # 0 => i \in 1..n
    OBVIOUS
  <2>2. i # 0 => h[i] = k[i]
    BY <1>2, <2>1
  <2>3. h[i + 1] = IF i = 0 THEN s[i + 1] ELSE h[i] \o s[i + 1]
    BY <2>1 DEF Joins
  <2>4. k[i + 1] = IF i = 0 THEN s[i + 1] ELSE k[i] \o s[i + 1]
    BY <2>1 DEF Joins
  <2> QED
    BY <2>2, <2>3, <2>4
<1> HIDE DEF N
<1>3. Nat \subseteq N
  BY <1>1, <1>2, NatSetInduction
<1> QED
  BY <1>3 DEF N

\* FlattenSeq joins them all.
LEMMA FlattenJoins ==
    ASSUME NEW S, NEW s \in Seq(Seq(S))
    PROVE  IF Len(s) = 0 THEN FlattenSeq(s) = <<>>
           ELSE \E h \in [1..Len(s) -> Seq(S)] : Joins(s, h, Len(s)) /\ FlattenSeq(s) = h[Len(s)]
<1> DEFINE n == Len(s)
           H == CHOOSE h : h = [i \in 1..n |-> IF i = 1 THEN s[i] ELSE h[i - 1] \o s[i]]
<1>1. CASE n = 0
  BY <1>1 DEF FlattenSeq
<1>2. CASE n # 0
  <2>1. n \in Nat /\ n \in 0..n /\ n \in 1..n
    BY <1>2
  <2>2. PICK h \in [1..n -> Seq(S)] : Joins(s, h, n)
    BY <2>1, JoinsExist
  <2>3. FlattenSeq(s) = H[n]
    BY <1>2 DEF FlattenSeq
  <2> HIDE DEF n
  <2>4. h = [i \in 1..n |-> IF i = 1 THEN s[i] ELSE h[i - 1] \o s[i]]
    BY <2>2 DEF Joins
  <2>5. H = [i \in 1..n |-> IF i = 1 THEN s[i] ELSE H[i - 1] \o s[i]]
    BY <2>4
  <2> HIDE DEF H
  <2>6. Joins(s, H, n)
    BY <2>5 DEF Joins
  <2>7. h[n] = H[n]
    BY <2>1, <2>2, <2>6, JoinsAgree
  <2> QED
    BY <1>2, <2>2, <2>3, <2>7 DEF n
<1> QED
  BY <1>1, <1>2

\* One sequence more is joined at the end.
LEMMA FlattenMore ==
    ASSUME NEW S, NEW s \in Seq(Seq(S)), NEW t \in Seq(Seq(S)),
           Len(t) = Len(s) + 1, \A i \in 1..Len(s) : t[i] = s[i]
    PROVE  /\ FlattenSeq(s) \in Seq(S) /\ FlattenSeq(t) \in Seq(S)
           /\ FlattenSeq(t) = FlattenSeq(s) \o t[Len(t)]
<1> DEFINE n == Len(s)
<1>0. n \in Nat /\ Len(t) = n + 1 /\ Len(t) # 0 /\ n + 1 \in 1..(n + 1) /\ t[n + 1] \in Seq(S)
  OBVIOUS
<1>1. PICK k : /\ k \in [1..(n + 1) -> Seq(S)] /\ Joins(t, k, n + 1)
               /\ FlattenSeq(t) = k[n + 1]
  BY <1>0, FlattenJoins
<1>2. k[n + 1] = IF n + 1 = 1 THEN t[n + 1] ELSE k[(n + 1) - 1] \o t[n + 1]
  BY <1>0, <1>1 DEF Joins
<1>3. CASE n = 0
  <2>1. FlattenSeq(s) = <<>>
    BY <1>3, FlattenJoins
  <2>2. FlattenSeq(t) = t[n + 1]
    BY <1>1, <1>2, <1>3
  <2> QED
    BY <1>0, <2>1, <2>2
<1>4. CASE n # 0
  <2>1. PICK h : h \in [1..n -> Seq(S)] /\ Joins(s, h, n) /\ FlattenSeq(s) = h[n]
    BY <1>4, FlattenJoins
  <2>2. n \in 1..n /\ (n + 1) - 1 = n /\ n + 1 # 1 /\ n <= n + 1 /\ n + 1 \in Nat
    BY <1>0, <1>4
  <2>3. h[n] = k[n]
    <3>1. Joins(s, k, n)
      <4> SUFFICES ASSUME NEW i \in 1..n
                   PROVE  k[i] = IF i = 1 THEN s[i] ELSE k[i - 1] \o s[i]
        BY DEF Joins
      <4>1. i \in 1..(n + 1) /\ t[i] = s[i]
        BY <1>0
      <4> QED
        BY <1>1, <4>1 DEF Joins
    <3>2. Joins(s, h, n) /\ n \in Nat /\ n \in 1..n
      BY <1>0, <2>1, <2>2
    <3> HIDE DEF n
    <3>3. \A i \in 1..n : h[i] = k[i]
      BY <3>1, <3>2, JoinsAgree
    <3> QED
      BY <3>2, <3>3
  <2> HIDE DEF n
  <2> QED
    BY <1>0, <1>1, <1>2, <2>1, <2>2, <2>3
<1> QED
  BY <1>3, <1>4

\* The first c of some sequences, one after the other.
LEMMA JointSteps ==
    ASSUME NEW S, NEW s \in Seq(Seq(S))
    PROVE  /\ Joint(s, 0) = <<>> /\ Joint(s, Len(s)) = FlattenSeq(s)
           /\ \A c \in 0..Len(s) : Joint(s, c) \in Seq(S)
           /\ \A c \in 0..(Len(s) - 1) : Joint(s, c + 1) = Joint(s, c) \o s[c + 1]
<1> DEFINE u(c) == [i \in 1..c |-> s[i]]
<1>0. Len(s) \in Nat
  OBVIOUS
<1>1. ASSUME NEW c \in 0..Len(s)
      PROVE  u(c) \in Seq(Seq(S)) /\ Len(u(c)) = c /\ \A i \in 1..c : u(c)[i] = s[i]
  <2>1. c \in Nat /\ \A i \in 1..c : s[i] \in Seq(S)
    OBVIOUS
  <2>2. u(c) \in Seq(Seq(S)) /\ Len(u(c)) = c
    BY <2>1, IsASeq
  <2> QED
    BY <2>2
<1>2. Joint(s, 0) = <<>>
  <2>1. u(0) \in Seq(Seq(S)) /\ Len(u(0)) = 0
    BY <1>0, <1>1
  <2>2. Joint(s, 0) = FlattenSeq(u(0))
    BY DEF Joint
  <2> HIDE DEF u
  <2> QED
    BY <2>1, <2>2, FlattenJoins
<1>3. Joint(s, Len(s)) = FlattenSeq(s)
  <2>1. u(Len(s)) = s
    OBVIOUS
  <2> QED
    BY <2>1 DEF Joint
<1>4. ASSUME NEW c \in 0..(Len(s) - 1)
      PROVE  /\ Joint(s, c) \in Seq(S) /\ Joint(s, c + 1) \in Seq(S)
             /\ Joint(s, c + 1) = Joint(s, c) \o s[c + 1]
  <2>1. c \in 0..Len(s) /\ c + 1 \in 0..Len(s) /\ c \in Nat /\ c + 1 \in 1..(c + 1)
    BY <1>0
  <2>2. /\ u(c) \in Seq(Seq(S)) /\ Len(u(c)) = c /\ \A i \in 1..c : u(c)[i] = s[i]
        /\ u(c + 1) \in Seq(Seq(S)) /\ Len(u(c + 1)) = c + 1
        /\ \A i \in 1..(c + 1) : u(c + 1)[i] = s[i]
    BY <1>1, <2>1
  <2>3. Joint(s, c) = FlattenSeq(u(c)) /\ Joint(s, c + 1) = FlattenSeq(u(c + 1))
    BY DEF Joint
  <2> HIDE DEF u
  <2>4. \A i \in 1..Len(u(c)) : u(c + 1)[i] = u(c)[i]
    <3> SUFFICES ASSUME NEW i \in 1..c PROVE u(c + 1)[i] = u(c)[i]
      BY <2>2, Zenon
    <3>1. i \in 1..(c + 1)
      BY <2>1
    <3> QED
      BY <2>2, <3>1, Zenon
  <2>5. u(c + 1)[c + 1] = s[c + 1]
    BY <2>1, <2>2, Zenon
  <2>6. Len(u(c + 1)) = Len(u(c)) + 1 /\ u(c + 1)[Len(u(c + 1))] = s[c + 1]
    BY <2>2, <2>5, Zenon
  <2> QED
    BY <2>2, <2>3, <2>4, <2>6, FlattenMore
<1>5. ASSUME NEW c \in 0..Len(s) PROVE Joint(s, c) \in Seq(S)
  <2>1. CASE c = 0
    BY <1>2, <2>1, EmptySeq, Zenon
  <2>2. CASE c # 0
    <3>1. c - 1 \in 0..(Len(s) - 1) /\ (c - 1) + 1 = c
      BY <1>0, <2>2
    <3> QED
      BY <1>4, <3>1
  <2> QED
    BY <2>1, <2>2
<1> QED
  BY <1>2, <1>3, <1>4, <1>5
=============================================================================
