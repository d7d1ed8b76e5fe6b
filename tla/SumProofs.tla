------------------------------ MODULE SumProofs ------------------------------
(***************************************************************************)
(* Lemmas about sums over finite sets (SumFunctionOnSet of Functions): the *)
(* money of contributions and of refunds is counted with them.             *)
(*                                                                         *)
(* The library's induction theorems take an operator that no prover here   *)
(* can instantiate.  These proofs use a set for the predicate instead: the *)
(* strict subsets of a finite set are well founded, so the set of its      *)
(* subsets for which a formula fails has a minimal element, if any.        *)
(***************************************************************************)
EXTENDS Functions, FiniteSetTheorems, TLAPS

\* A set of subsets of a finite set has a minimal member.
LEMMA MinimalSubset ==
  ASSUME NEW S, IsFiniteSet(S), NEW Bad \in SUBSET (SUBSET S), Bad # {}
  PROVE  \E m \in Bad : \A T \in SUBSET m : T # m => T \notin Bad
<1>1. FiniteSubsetsOf(S) = SUBSET S
  BY FS_FiniteSubsetsOfFinite
<1>2. IsWellFoundedOn(StrictSubsetOrdering(S), SUBSET S)
  BY <1>1, FS_StrictSubsetOrderingWellFounded
<1>3. PICK m \in Bad : \A T \in Bad : <<T, m>> \notin StrictSubsetOrdering(S)
  BY <1>2, WFMin
<1>4. ASSUME NEW T \in SUBSET m, T # m, T \in Bad  PROVE FALSE
  <2>1. <<T, m>> \in (SUBSET S) \X (SUBSET S)
    BY <1>4
  <2>2. <<T, m>> \in StrictSubsetOrdering(S)
    BY <2>1, <1>4 DEF StrictSubsetOrdering
  <2>3. QED  BY <2>2, <1>3, <1>4
<1>5. QED  BY <1>4

-----------------------------------------------------------------------------
(***************************************************************************)
(* The function behind the fold.                                           *)
(***************************************************************************)
Pick(s) == CHOOSE x \in s : TRUE

IsFold(g, f, S) ==
  g = [s \in SUBSET S |-> IF s = {} THEN 0 ELSE f[Pick(s)] + g[s \ {Pick(s)}]]

FoldOf(f, S) == CHOOSE g : IsFold(g, f, S)

LEMMA SumIsFold ==
  ASSUME NEW f, NEW S
  PROVE  SumFunctionOnSet(f, S) = FoldOf(f, S)[S]
BY DEF SumFunctionOnSet, FoldFunctionOnSet, MapThenFoldSet, FoldOf, IsFold, Pick

LEMMA PickIn == ASSUME NEW s, s # {} PROVE Pick(s) \in s
BY DEF Pick

\* Two folds agree wherever both are defined.
LEMMA FoldsAgree ==
  ASSUME NEW f, NEW S, NEW T, NEW g, NEW h, NEW U,
         IsFiniteSet(U), U \subseteq S, U \subseteq T,
         IsFold(g, f, S), IsFold(h, f, T)
  PROVE  g[U] = h[U]
<1> DEFINE Bad == {s \in SUBSET U : g[s] # h[s]}
<1>1. SUFFICES ASSUME Bad # {} PROVE FALSE
  OBVIOUS
<1>2. PICK m \in Bad : \A s \in SUBSET m : s # m => s \notin Bad
  <2>1. Bad \in SUBSET (SUBSET U)
    OBVIOUS
  <2> HIDE DEF Bad
  <2>2. QED  BY <1>1, <2>1, MinimalSubset
<1>3. /\ g[m] = IF m = {} THEN 0 ELSE f[Pick(m)] + g[m \ {Pick(m)}]
      /\ h[m] = IF m = {} THEN 0 ELSE f[Pick(m)] + h[m \ {Pick(m)}]
  <2>1. m \in SUBSET S /\ m \in SUBSET T
    BY <1>2
  <2>2. QED  BY <2>1 DEF IsFold
<1>4. m # {}
  BY <1>2, <1>3
<1>5. m \ {Pick(m)} \in SUBSET m /\ m \ {Pick(m)} # m
  BY <1>4, PickIn
<1>6. g[m \ {Pick(m)}] = h[m \ {Pick(m)}]
  BY <1>5, <1>2
<1>7. QED  BY <1>2, <1>3, <1>6

\* A finite set has a fold.
LEMMA FoldExists ==
  ASSUME NEW f, NEW S, IsFiniteSet(S)
  PROVE  IsFold(FoldOf(f, S), f, S)
<1> DEFINE Bad == {T \in SUBSET S : ~ \E g : IsFold(g, f, T)}
<1>1. ASSUME Bad # {} PROVE FALSE
  <2>1. PICK m \in Bad : \A T \in SUBSET m : T # m => T \notin Bad
    <3>1. Bad \in SUBSET (SUBSET S)
      OBVIOUS
    <3> HIDE DEF Bad
    <3>2. QED  BY <1>1, <3>1, MinimalSubset
  <2>2. \A T \in SUBSET m : T # m => IsFold(FoldOf(f, T), f, T)
    BY <2>1 DEF FoldOf
  <2> DEFINE g == [s \in SUBSET m |->
                     IF s = {} THEN 0
                     ELSE f[Pick(s)] + FoldOf(f, s \ {Pick(s)})[s \ {Pick(s)}]]
  <2>3. ASSUME NEW T \in SUBSET m, T # m  PROVE g[T] = FoldOf(f, T)[T]
    <3> DEFINE u == T \ {Pick(T)}
    <3>1. IsFold(FoldOf(f, T), f, T)
      BY <2>2, <2>3
    <3>2. FoldOf(f, T)[T] = IF T = {} THEN 0 ELSE f[Pick(T)] + FoldOf(f, T)[u]
      <4> HIDE DEF g
      <4> DEFINE F == FoldOf(f, T)
      <4>1. F = [s \in SUBSET T |-> IF s = {} THEN 0 ELSE f[Pick(s)] + F[s \ {Pick(s)}]]
        BY <3>1 DEF IsFold
      <4> HIDE DEF F
      <4>2. F[T] = IF T = {} THEN 0 ELSE f[Pick(T)] + F[T \ {Pick(T)}]
        BY <4>1
      <4>3. QED  BY <4>2 DEF F
    <3>3. u \in SUBSET m /\ u # m
      BY <2>3
    <3>4. IsFold(FoldOf(f, u), f, u)
      BY <2>2, <3>3
    <3>5. IsFiniteSet(u)
      BY <3>3, <2>1, FS_Subset
    <3>6. FoldOf(f, T)[u] = FoldOf(f, u)[u]
      BY <3>1, <3>4, <3>5, FoldsAgree
    <3>7. g[T] = IF T = {} THEN 0 ELSE f[Pick(T)] + FoldOf(f, u)[u]
      OBVIOUS
    <3>8. QED  BY <3>2, <3>6, <3>7
  <2>4. IsFold(g, f, m)
    <3>1. ASSUME NEW s \in SUBSET m, s # {}
          PROVE  g[s \ {Pick(s)}] = FoldOf(f, s \ {Pick(s)})[s \ {Pick(s)}]
      <4>1. s \ {Pick(s)} \in SUBSET m /\ s \ {Pick(s)} # m
        BY <3>1, PickIn
      <4>2. QED  BY <4>1, <2>3
    <3>2. \A s \in SUBSET m :
            (IF s = {} THEN 0
             ELSE f[Pick(s)] + FoldOf(f, s \ {Pick(s)})[s \ {Pick(s)}])
            = (IF s = {} THEN 0 ELSE f[Pick(s)] + g[s \ {Pick(s)}])
      <4> HIDE DEF g
      <4>1. QED  BY <3>1
    <3>3. QED  BY <3>2 DEF IsFold
  <2>5. QED  BY <2>4, <2>1
<1>2. \E g : IsFold(g, f, S)
  BY <1>1
<1>3. QED  BY <1>2 DEF FoldOf

-----------------------------------------------------------------------------
(***************************************************************************)
(* Sums.                                                                   *)
(***************************************************************************)
LEMMA SumEmpty ==
  ASSUME NEW f
  PROVE  SumFunctionOnSet(f, {}) = 0
<1>1. IsFold(FoldOf(f, {}), f, {})
  BY FoldExists, FS_EmptySet
<1> DEFINE F == FoldOf(f, {})
<1>2. F = [s \in SUBSET {} |-> IF s = {} THEN 0 ELSE f[Pick(s)] + F[s \ {Pick(s)}]]
  BY <1>1 DEF IsFold
<1> HIDE DEF F
<1>3. F[{}] = 0
  BY <1>2
<1>4. QED  BY <1>3, SumIsFold DEF F

LEMMA SumPick ==
  ASSUME NEW f, NEW S, IsFiniteSet(S), S # {}
  PROVE  SumFunctionOnSet(f, S) = f[Pick(S)] + SumFunctionOnSet(f, S \ {Pick(S)})
<1> DEFINE T == S \ {Pick(S)}
           F == FoldOf(f, S)
<1>1. IsFold(F, f, S)
  BY FoldExists
<1>2. IsFiniteSet(T) /\ T \subseteq S
  BY FS_RemoveElement
<1>3. IsFold(FoldOf(f, T), f, T)
  BY <1>2, FoldExists
<1>4. F[T] = FoldOf(f, T)[T]
  <2> HIDE DEF F, T
  <2>1. QED  BY <1>1, <1>2, <1>3, FoldsAgree
<1>5. F = [s \in SUBSET S |-> IF s = {} THEN 0 ELSE f[Pick(s)] + F[s \ {Pick(s)}]]
  BY <1>1 DEF IsFold
<1> HIDE DEF F
<1>6. F[S] = f[Pick(S)] + F[T]
  BY <1>5
<1>7. SumFunctionOnSet(f, S) = F[S] /\ SumFunctionOnSet(f, T) = FoldOf(f, T)[T]
  BY SumIsFold DEF F
<1> HIDE DEF T
<1>8. SumFunctionOnSet(f, S) = f[Pick(S)] + SumFunctionOnSet(f, T)
  BY <1>4, <1>6, <1>7
<1>9. QED  BY <1>8 DEF T

\* A sum of integers is an integer, and of naturals a natural.
LEMMA SumInt ==
  ASSUME NEW f, NEW S, IsFiniteSet(S), \A x \in S : f[x] \in Int
  PROVE  SumFunctionOnSet(f, S) \in Int
<1> DEFINE Bad == {T \in SUBSET S : SumFunctionOnSet(f, T) \notin Int}
<1>1. ASSUME Bad # {} PROVE FALSE
  <2>1. Bad \in SUBSET (SUBSET S)
    OBVIOUS
  <2>2. PICK m \in Bad : \A T \in SUBSET m : T # m => T \notin Bad
    <3> HIDE DEF Bad
    <3>1. QED  BY <1>1, <2>1, MinimalSubset
  <2>3. m # {}
    <3>1. SumFunctionOnSet(f, m) \notin Int
      BY <2>2
    <3> HIDE DEF Bad
    <3>2. QED  BY <3>1, SumEmpty
  <2>4. IsFiniteSet(m)
    BY <2>1, <2>2, FS_Subset
  <2>5. Pick(m) \in m
    BY <2>3, PickIn
  <2>6. SumFunctionOnSet(f, m \ {Pick(m)}) \in Int
    BY <2>2, <2>5
  <2>7. f[Pick(m)] \in Int
    BY <2>2, <2>5
  <2>8. QED  BY <2>2, <2>3, <2>4, <2>6, <2>7, SumPick
<1>2. QED  BY <1>1

LEMMA SumNat ==
  ASSUME NEW f, NEW S, IsFiniteSet(S), \A x \in S : f[x] \in Nat
  PROVE  SumFunctionOnSet(f, S) \in Nat
<1> DEFINE Bad == {T \in SUBSET S : SumFunctionOnSet(f, T) \notin Nat}
<1>1. ASSUME Bad # {} PROVE FALSE
  <2>1. Bad \in SUBSET (SUBSET S)
    OBVIOUS
  <2>2. PICK m \in Bad : \A T \in SUBSET m : T # m => T \notin Bad
    <3> HIDE DEF Bad
    <3>1. QED  BY <1>1, <2>1, MinimalSubset
  <2>3. m # {}
    <3>1. SumFunctionOnSet(f, m) \notin Nat
      BY <2>2
    <3> HIDE DEF Bad
    <3>2. QED  BY <3>1, SumEmpty
  <2>4. IsFiniteSet(m)
    BY <2>1, <2>2, FS_Subset
  <2>5. Pick(m) \in m
    BY <2>3, PickIn
  <2>6. SumFunctionOnSet(f, m \ {Pick(m)}) \in Nat
    BY <2>2, <2>5
  <2>7. f[Pick(m)] \in Nat
    BY <2>2, <2>5
  <2>8. QED  BY <2>2, <2>3, <2>4, <2>6, <2>7, SumPick
<1>2. QED  BY <1>1

\* Any member can be taken out first.
LEMMA SumRemove ==
  ASSUME NEW f, NEW S, IsFiniteSet(S), \A y \in S : f[y] \in Int, NEW x \in S
  PROVE  SumFunctionOnSet(f, S) = f[x] + SumFunctionOnSet(f, S \ {x})
<1> DEFINE Splits(T, y) ==
             SumFunctionOnSet(f, T) = f[y] + SumFunctionOnSet(f, T \ {y})
           Bad == {T \in SUBSET S : \E y \in T : ~Splits(T, y)}
<1>1. ASSUME Bad # {} PROVE FALSE
  <2>1. Bad \in SUBSET (SUBSET S)
    OBVIOUS
  <2>2. PICK m \in Bad : \A T \in SUBSET m : T # m => T \notin Bad
    <3> HIDE DEF Bad
    <3>1. QED  BY <1>1, <2>1, MinimalSubset
  <2>3. PICK y \in m : ~Splits(m, y)
    BY <2>2
  <2> DEFINE p == Pick(m)
             rest == (m \ {p}) \ {y}
  <2>4. p \in m /\ m \in SUBSET S
    BY <2>1, <2>2, <2>3, PickIn
  <2> HIDE DEF p
  <2>5. IsFiniteSet(m) /\ IsFiniteSet(rest)
    BY <2>4, FS_Subset
  <2>6. SumFunctionOnSet(f, m) = f[p] + SumFunctionOnSet(f, m \ {p})
    BY <2>3, <2>5, SumPick DEF p
  <2>7. p # y
    BY <2>3, <2>6
  <2>8. SumFunctionOnSet(f, m \ {p}) = f[y] + SumFunctionOnSet(f, rest)
    <3>1. m \ {p} \in SUBSET m /\ m \ {p} # m /\ y \in m \ {p}
      BY <2>3, <2>4, <2>7
    <3>2. m \ {p} \notin Bad /\ m \ {p} \in SUBSET S
      BY <3>1, <2>2, <2>4
    <3>3. QED  BY <3>1, <3>2
  <2>9. SumFunctionOnSet(f, m \ {y}) = f[p] + SumFunctionOnSet(f, rest)
    <3>1. m \ {y} \in SUBSET m /\ m \ {y} # m /\ p \in m \ {y}
      BY <2>3, <2>4, <2>7
    <3>2. m \ {y} \notin Bad /\ m \ {y} \in SUBSET S
      BY <3>1, <2>2, <2>4
    <3>3. (m \ {y}) \ {p} = rest
      OBVIOUS
    <3>4. QED  BY <3>1, <3>2, <3>3
  <2>10. /\ f[p] \in Int /\ f[y] \in Int
         /\ SumFunctionOnSet(f, rest) \in Int
    BY <2>3, <2>4, <2>5, SumInt
  <2> HIDE DEF rest, Bad
  <2>11. SumFunctionOnSet(f, m) = f[y] + SumFunctionOnSet(f, m \ {y})
    BY <2>6, <2>8, <2>9, <2>10
  <2>12. QED  BY <2>3, <2>11
<1>2. S \notin Bad
  BY <1>1
<1>3. QED  BY <1>2

LEMMA SumAdd ==
  ASSUME NEW f, NEW S, IsFiniteSet(S), NEW x, x \notin S,
         \A y \in S \union {x} : f[y] \in Int
  PROVE  SumFunctionOnSet(f, S \union {x}) = f[x] + SumFunctionOnSet(f, S)
<1>1. IsFiniteSet(S \union {x}) /\ x \in S \union {x}
  BY FS_AddElement
<1>2. (S \union {x}) \ {x} = S
  OBVIOUS
<1>3. QED  BY <1>1, <1>2, SumRemove

\* Only what the summed function is on the set counts.
LEMMA SumSame ==
  ASSUME NEW f, NEW g, NEW S, IsFiniteSet(S), \A x \in S : f[x] = g[x]
  PROVE  SumFunctionOnSet(f, S) = SumFunctionOnSet(g, S)
<1> DEFINE Bad == {T \in SUBSET S : SumFunctionOnSet(f, T) # SumFunctionOnSet(g, T)}
<1>1. ASSUME Bad # {} PROVE FALSE
  <2>1. Bad \in SUBSET (SUBSET S)
    OBVIOUS
  <2>2. PICK m \in Bad : \A T \in SUBSET m : T # m => T \notin Bad
    <3> HIDE DEF Bad
    <3>1. QED  BY <1>1, <2>1, MinimalSubset
  <2>3. m # {}
    BY <2>2, SumEmpty
  <2>4. IsFiniteSet(m)
    BY <2>1, <2>2, FS_Subset
  <2>5. Pick(m) \in m
    BY <2>3, PickIn
  <2>6. SumFunctionOnSet(f, m \ {Pick(m)}) = SumFunctionOnSet(g, m \ {Pick(m)})
    BY <2>2, <2>5
  <2>7. f[Pick(m)] = g[Pick(m)]
    BY <2>2, <2>5
  <2>8. /\ SumFunctionOnSet(f, m) = f[Pick(m)] + SumFunctionOnSet(f, m \ {Pick(m)})
        /\ SumFunctionOnSet(g, m) = g[Pick(m)] + SumFunctionOnSet(g, m \ {Pick(m)})
    BY <2>3, <2>4, SumPick
  <2>9. QED  BY <2>2, <2>6, <2>7, <2>8
<1>2. QED  BY <1>1

\* A part of a sum of naturals is no more than the whole.
LEMMA SumPart ==
  ASSUME NEW f, NEW S, IsFiniteSet(S), \A x \in S : f[x] \in Nat, NEW T \in SUBSET S
  PROVE  SumFunctionOnSet(f, T) <= SumFunctionOnSet(f, S)
<1> DEFINE Bad == {U \in SUBSET S :
                     ~(SumFunctionOnSet(f, T \intersect U) <= SumFunctionOnSet(f, U))}
<1>1. ASSUME Bad # {} PROVE FALSE
  <2>1. Bad \in SUBSET (SUBSET S)
    OBVIOUS
  <2>2. PICK m \in Bad : \A U \in SUBSET m : U # m => U \notin Bad
    <3> HIDE DEF Bad
    <3>1. QED  BY <1>1, <2>1, MinimalSubset
  <2> DEFINE p == Pick(m)
             u == m \ {p}
  <2>3. m # {}
    <3>1. ASSUME m = {} PROVE FALSE
      <4>1. T \intersect m = {}
        BY <3>1
      <4>2. SumFunctionOnSet(f, T \intersect m) = 0 /\ SumFunctionOnSet(f, m) = 0
        BY <3>1, <4>1, SumEmpty
      <4>3. QED  BY <4>2, <2>2
    <3>2. QED  BY <3>1
  <2>4. p \in m /\ m \in SUBSET S
    BY <2>2, <2>3, PickIn
  <2> HIDE DEF p
  <2>5. IsFiniteSet(m) /\ IsFiniteSet(u) /\ IsFiniteSet(T \intersect m)
        /\ IsFiniteSet(T \intersect u)
    BY <2>4, FS_Subset
  <2>6. SumFunctionOnSet(f, m) = f[p] + SumFunctionOnSet(f, u)
    BY <2>4, <2>5, SumRemove
  <2>7. SumFunctionOnSet(f, T \intersect u) <= SumFunctionOnSet(f, u)
    BY <2>2, <2>4
  <2>8. /\ SumFunctionOnSet(f, u) \in Nat /\ f[p] \in Nat
        /\ SumFunctionOnSet(f, T \intersect u) \in Nat
    BY <2>4, <2>5, SumNat
  <2>9. CASE p \in T
    <3>1. p \in T \intersect m /\ (T \intersect m) \ {p} = T \intersect u
      BY <2>4, <2>9
    <3>2. SumFunctionOnSet(f, T \intersect m) = f[p] + SumFunctionOnSet(f, T \intersect u)
      BY <2>4, <2>5, <3>1, SumRemove
    <3>3. SumFunctionOnSet(f, T \intersect m) <= SumFunctionOnSet(f, m)
      <4> HIDE DEF u
      <4>1. QED  BY <3>2, <2>6, <2>7, <2>8
    <3>4. QED  BY <2>2, <3>3
  <2>10. CASE p \notin T
    <3>1. T \intersect m = T \intersect u
      BY <2>10
    <3>2. SumFunctionOnSet(f, T \intersect m) <= SumFunctionOnSet(f, m)
      <4>1. SumFunctionOnSet(f, T \intersect m) = SumFunctionOnSet(f, T \intersect u)
        BY <3>1
      <4> HIDE DEF u
      <4>2. QED  BY <4>1, <2>6, <2>7, <2>8
    <3>3. QED  BY <2>2, <3>2
  <2>11. QED  BY <2>9, <2>10
<1>2. SumFunctionOnSet(f, T \intersect S) <= SumFunctionOnSet(f, S)
  BY <1>1
<1>3. T \intersect S = T
  OBVIOUS
<1>4. QED  BY <1>2, <1>3
=============================================================================
