----------------------------- MODULE FoldFacts -----------------------------
(***************************************************************************)
(* Induction for the folds of the community modules. A fold visits the     *)
(* elements of a finite set in the order of a choice, for FoldSet that of  *)
(* a CHOOSE; what is said of it here speaks of sets and functions only, so *)
(* that it can be used for any operator that is folded.                    *)
(***************************************************************************)
EXTENDS Integers, FiniteSets, FiniteSetTheorems, WellFoundedInduction, TLAPS

\* The element that FoldSet takes next.
Pick(T) == CHOOSE x \in T : TRUE

LEMMA PickIn == ASSUME NEW T, T # {} PROVE Pick(T) \in T
  BY Zenon DEF Pick

\* A set that holds 0 and, with a number, the next one, holds all of Nat.
LEMMA NatSet ==
    ASSUME NEW N, 0 \in N, \A n \in Nat : n \in N => n + 1 \in N
    PROVE  Nat \subseteq N
<1>1. SUFFICES ASSUME Nat \ N # {} PROVE FALSE
  OBVIOUS
<1>2. PICK x \in Nat \ N : \A y \in Nat \ N : ~ (<<y, x>> \in OpToRel(<, Nat))
  BY <1>1, WFMin, NatLessThanWellFounded
<1>3. x - 1 \in Nat \ N
  <2>1. x \in Nat /\ x # 0
    BY <1>2
  <2>2. x - 1 \in Nat /\ (x - 1) + 1 = x
    BY <2>1
  <2> QED
    BY <1>2, <2>2
<1>4. <<x - 1, x>> \in OpToRel(<, Nat)
  BY <1>2, <1>3, SMT DEF OpToRel
<1> QED
  BY <1>2, <1>3, <1>4

\* Induction over a finite set in the order in which FoldSet visits it.
LEMMA PickInduction ==
    ASSUME NEW S, IsFiniteSet(S), NEW Q, {} \in Q,
           \A T \in SUBSET S : T # {} /\ T \ {Pick(T)} \in Q => T \in Q
    PROVE  S \in Q
<1> DEFINE N == {n \in Nat : \A T \in SUBSET S : Cardinality(T) = n => T \in Q}
<1>1. \A T \in SUBSET S : IsFiniteSet(T) /\ Cardinality(T) \in Nat
  BY FS_Subset, FS_CardinalityType
<1>2. 0 \in N
  BY <1>1, FS_EmptySet
<1>3. ASSUME NEW n \in Nat, n \in N PROVE n + 1 \in N
  <2> SUFFICES ASSUME NEW T \in SUBSET S, Cardinality(T) = n + 1 PROVE T \in Q
    OBVIOUS
  <2>1. T # {}
    BY <1>1, FS_EmptySet
  <2>2. Cardinality(T \ {Pick(T)}) = n
    <3>1. Pick(T) \in T
      BY <2>1, PickIn
    <3>2. Cardinality(T \ {Pick(T)}) = Cardinality(T) - 1
      BY <1>1, <3>1, FS_RemoveElement
    <3> QED
      BY <3>2
  <2>3. T \ {Pick(T)} \in Q
    BY <1>3, <2>2
  <2> QED
    BY <2>1, <2>3
<1>4. Nat \subseteq N
  <2> HIDE DEF N
  <2> QED BY <1>2, <1>3, NatSet
<1> QED
  BY <1>1, <1>4

\* f[T] is what comes of folding F over T, from base on, when C[T] is taken first.
IsFoldBy(f, S, base, F, C) ==
    \A T \in SUBSET S :
       f[T] = IF T = {} THEN base ELSE F[C[T]][f[T \ {C[T]}]]

\* The function by which a fold is defined exists, when every step stays within a set V.
LEMMA FoldByExists ==
    ASSUME NEW S, IsFiniteSet(S), NEW V, NEW base \in V, NEW F \in [S -> [V -> V]],
           NEW C, \A T \in SUBSET S : T # {} => C[T] \in T
    PROVE  \E f \in [SUBSET S -> V] : IsFoldBy(f, S, base, F, C)
<1> DEFINE Low(n) == {T \in SUBSET S : Cardinality(T) <= n}
           Eq(f, T) == f[T] = IF T = {} THEN base ELSE F[C[T]][f[T \ {C[T]}]]
           N == {n \in Nat : \E f \in [Low(n) -> V] : \A T \in Low(n) : Eq(f, T)}
<1>1. \A T \in SUBSET S : IsFiniteSet(T) /\ Cardinality(T) \in Nat
  BY FS_Subset, FS_CardinalityType
<1>2. 0 \in N
  <2>1. \A T \in Low(0) : T = {}
    BY <1>1, FS_EmptySet
  <2> DEFINE f == [T \in Low(0) |-> base]
  <2>2. f \in [Low(0) -> V] /\ \A T \in Low(0) : Eq(f, T)
    BY <2>1
  <2> QED
    BY <2>2
<1>3. ASSUME NEW n \in Nat, n \in N PROVE n + 1 \in N
  <2>1. PICK f \in [Low(n) -> V] : \A T \in Low(n) : Eq(f, T)
    BY <1>3
  <2>2. ASSUME NEW T \in Low(n + 1), T # {}
        PROVE  C[T] \in S /\ T \ {C[T]} \in Low(n)
    <3>1. C[T] \in T
      BY <2>2
    <3>2. Cardinality(T \ {C[T]}) = Cardinality(T) - 1
      BY <1>1, <3>1, FS_RemoveElement
    <3> QED
      BY <1>1, <3>1, <3>2
  <2>3. Low(n) \subseteq Low(n + 1)
    BY <1>1
  <2>4. {} \in Low(n)
    BY FS_EmptySet
  <2> DEFINE g == [T \in Low(n + 1) |->
                     IF T = {} THEN base ELSE F[C[T]][f[T \ {C[T]}]]]
  <2>5. g \in [Low(n + 1) -> V]
    <3> HIDE DEF Low
    <3> QED BY <2>2
  <2>6. \A T \in Low(n) : g[T] = f[T]
    <3> HIDE DEF Low
    <3> QED BY <2>1, <2>3
  <2>7. \A T \in Low(n + 1) : Eq(g, T)
    <3> SUFFICES ASSUME NEW T \in Low(n + 1) PROVE Eq(g, T)
      OBVIOUS
    <3>1. CASE T = {}
      BY <3>1
    <3>2. CASE T # {}
      <4> HIDE DEF Low
      <4>1. g[T] = F[C[T]][f[T \ {C[T]}]]
        BY <3>2
      <4>2. g[T \ {C[T]}] = f[T \ {C[T]}]
        BY <2>2, <2>6, <3>2
      <4> HIDE DEF g
      <4> QED BY <3>2, <4>1, <4>2
    <3> QED BY <3>1, <3>2
  <2>8. \E h \in [Low(n + 1) -> V] : \A T \in Low(n + 1) : Eq(h, T)
    <3> HIDE DEF g, Low, Eq
    <3> QED BY <2>5, <2>7
  <2>9. n + 1 \in Nat
    OBVIOUS
  <2> QED
    BY <2>8, <2>9, Zenon
<1>4. Nat \subseteq N
  <2> HIDE DEF N
  <2> QED BY <1>2, <1>3, NatSet
<1>5. Cardinality(S) \in N
  BY <1>1, <1>4
<1>6. Low(Cardinality(S)) = SUBSET S
  BY <1>1, FS_Subset
<1> QED
  BY <1>5, <1>6 DEF IsFoldBy

\* The same for FoldSet.
IsFold(f, S, base, F) ==
    \A T \in SUBSET S :
       f[T] = IF T = {} THEN base ELSE F[Pick(T)][f[T \ {Pick(T)}]]

LEMMA FoldExists ==
    ASSUME NEW S, IsFiniteSet(S), NEW V, NEW base \in V, NEW F \in [S -> [V -> V]]
    PROVE  \E f \in [SUBSET S -> V] : IsFold(f, S, base, F)
<1> DEFINE C == [T \in SUBSET S |-> Pick(T)]
<1>1. \A T \in SUBSET S : C[T] = Pick(T) /\ (T # {} => C[T] \in T)
  BY PickIn
<1> HIDE DEF C
<1>2. PICK f \in [SUBSET S -> V] : IsFoldBy(f, S, base, F, C)
  BY <1>1, FoldByExists
<1>3. IsFold(f, S, base, F)
  BY <1>1, <1>2 DEF IsFold, IsFoldBy
<1> QED
  BY <1>3
=============================================================================
