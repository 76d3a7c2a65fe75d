--------------------------- MODULE InductionLemmas ---------------------------
(***************************************************************************)
(* Induction for the proofs about sequences and finite sets.  The property is a *)
(* set of numbers here, where the theorems of the library take an operator.     *)
(***************************************************************************)
EXTENDS Integers, Sequences, FiniteSetTheorems, FunctionTheorems, WellFoundedInduction, TLAPS

\* A set of naturals has a least element.
LEMMA LeastOne ==
    ASSUME NEW S \in SUBSET Nat, S # {}
    PROVE  \E x \in S : \A y \in S : x <= y
<1> DEFINE R == OpToRel(<, Nat)
<1>1. IsWellFoundedOn(R, Nat)
  BY NatLessThanWellFounded
<1>2. \A x, y \in Nat : y < x => <<y, x>> \in R
  BY DEF OpToRel
<1> HIDE DEF R
<1>3. PICK x \in S : \A y \in S : <<y, x>> \notin R
  BY <1>1, WFMin
<1>4. x \in Nat /\ \A y \in S : y \in Nat /\ ~(y < x)
  BY <1>2, <1>3
<1>5. \A y \in S : x <= y
  BY <1>4
<1> QED
  BY <1>5

\* Induction on the natural numbers, with a set for the property.
LEMMA SetInduction ==
    ASSUME NEW S, 0 \in S, \A n \in Nat : n \in S => n + 1 \in S
    PROVE  Nat \subseteq S
<1> DEFINE T == Nat \ S
<1>1. SUFFICES ASSUME T # {} PROVE FALSE
  OBVIOUS
<1>2. PICK x \in T : \A y \in T : x <= y
  <2>1. T \in SUBSET Nat
    OBVIOUS
  <2> HIDE DEF T
  <2> QED
    BY <1>1, <2>1, LeastOne
<1>3. x \in Nat /\ x # 0
  OBVIOUS
<1>4. x - 1 \in Nat /\ x = (x - 1) + 1
  BY <1>3
<1>6. x - 1 \in S
  BY <1>2, <1>4
<1> QED
  BY <1>2, <1>4, <1>6

-----------------------------------------------------------------------------
(* The largest elements of a set *)

\* As many values as arguments, when no two arguments have the same value.
LEMMA ValuesCounted ==
    ASSUME NEW S, IsFiniteSet(S), NEW f, \A x, y \in S : f[x] = f[y] => x = y
    PROVE  Cardinality({f[x] : x \in S}) = Cardinality(S)
<1> DEFINE g == [x \in S |-> f[x]]
           T == {f[x] : x \in S}
<1>1. g \in [S -> T] /\ \A t \in T : \E x \in S : g[x] = t
  OBVIOUS
<1>2. \A x, y \in S : g[x] = g[y] => x = y
  OBVIOUS
<1> HIDE DEF g, T
<1>3. g \in Bijection(S, T)
  BY <1>1, <1>2, Fun_IsBij
<1>4. Cardinality(T) = Cardinality(S)
  BY <1>3, FS_Bijection DEF ExistsBijection
<1> QED BY <1>4 DEF T

\* As many elements have fewer than n above them as there are, up to n.
LEMMA LargestCounted ==
    ASSUME NEW S \in SUBSET Nat, IsFiniteSet(S), NEW n \in Nat
    PROVE  LET top == {k \in S : Cardinality({m \in S : k < m}) < n} IN
           Cardinality(top) = IF Cardinality(S) < n THEN Cardinality(S) ELSE n
<1> DEFINE Top(T) == {k \in T : Cardinality({m \in T : k < m}) < n}
           Counted(T) == Cardinality(Top(T)) = IF Cardinality(T) < n THEN Cardinality(T) ELSE n
           Holds == {c \in Nat : \A T \in SUBSET Nat :
                                   IsFiniteSet(T) /\ Cardinality(T) = c => Counted(T)}
<1>1. 0 \in Holds
  <2>1. ASSUME NEW T \in SUBSET Nat, IsFiniteSet(T), Cardinality(T) = 0 PROVE Counted(T)
    <3>1. T = {}
      BY <2>1, FS_EmptySet
    <3>2. Top(T) = {}
      BY <3>1
    <3> QED BY <2>1, <3>2, FS_EmptySet
  <2> QED BY <2>1
<1>2. ASSUME NEW c \in Nat, c \in Holds PROVE c + 1 \in Holds
  <2>1. ASSUME NEW T \in SUBSET Nat, IsFiniteSet(T), Cardinality(T) = c + 1 PROVE Counted(T)
    <3>1. T # {}
      BY <2>1, FS_EmptySet
    <3>2. PICK x \in T : \A y \in T : x <= y
      BY <3>1, LeastOne
    <3> DEFINE U == T \ {x}
    <3>3. IsFiniteSet(U) /\ Cardinality(U) = c /\ U \in SUBSET Nat
      <4>1. IsFiniteSet(U) /\ Cardinality(U) = Cardinality(T) - 1
        BY <2>1, <3>2, FS_RemoveElement, Zenon
      <4> QED BY <2>1, <4>1
    <3>4. Counted(U)
      BY <1>2, <3>3
    <3>5. \A k \in U : {m \in T : k < m} = {m \in U : k < m}
      BY <3>2
    <3>6. {m \in T : x < m} = U
      <4>1. \A m \in T : x < m <=> m # x
        BY <3>2
      <4> QED BY <4>1
    <3>7. Top(T) = IF c < n THEN Top(U) \cup {x} ELSE Top(U)
      <4>1. Cardinality({m \in T : x < m}) = c
        BY <3>3, <3>6
      <4>2. \A k \in U : k \in Top(T) <=> k \in Top(U)
        BY <3>5
      <4> HIDE DEF U
      <4> QED BY <3>2, <4>1, <4>2 DEF U
    <3>8. IsFiniteSet(Top(U)) /\ x \notin Top(U)
      BY <3>3, FS_Subset
    <3>9. Cardinality(Top(U) \cup {x}) = Cardinality(Top(U)) + 1
      BY <3>8, FS_AddElement
    <3> HIDE DEF Top, U
    <3> QED BY <2>1, <3>3, <3>4, <3>7, <3>9
  <2> HIDE DEF Counted
  <2> QED BY <2>1
<1>3. Nat \subseteq Holds
  <2> HIDE DEF Holds
  <2> QED BY <1>1, <1>2, SetInduction
<1>4. Cardinality(S) \in Nat
  BY FS_CardinalityType
<1>5. Counted(S)
  <2> HIDE DEF Counted
  <2> QED BY <1>3, <1>4
<1> QED BY <1>5
-----------------------------------------------------------------------------
(* Sequences one after the other *)

LOCAL INSTANCE SequencesExt

\* The function FlattenSeq is defined with.
Flat(seqs) ==
    CHOOSE g : g = [i \in 1..Len(seqs) |-> IF i = 1 THEN seqs[i] ELSE g[i - 1] \o seqs[i]]

\* ... for which its recursion can be proved.
LEMMA FlatIs ==
    ASSUME NEW seqs, Len(seqs) \in Nat
    PROVE Flat(seqs) = [i \in 1..Len(seqs) |-> IF i = 1 THEN seqs[i] ELSE Flat(seqs)[i - 1] \o seqs[i]]
<1> DEFINE S == {n \in Nat : \E g : g = [i \in 1..n |-> IF i = 1 THEN seqs[i] ELSE g[i - 1] \o seqs[i]]}
<1>1. 0 \in S
  <2> DEFINE g == [i \in 1..0 |-> seqs]
  <2>1. g = [i \in 1..0 |-> IF i = 1 THEN seqs[i] ELSE g[i - 1] \o seqs[i]]
    OBVIOUS
  <2> QED BY <2>1
<1>2. ASSUME NEW n \in Nat, n \in S PROVE n + 1 \in S
  <2>1. PICK g : g = [i \in 1..n |-> IF i = 1 THEN seqs[i] ELSE g[i - 1] \o seqs[i]]
    BY <1>2
  <2> DEFINE h == [i \in 1..(n + 1) |->
                    IF i = n + 1 THEN (IF i = 1 THEN seqs[i] ELSE g[n] \o seqs[i]) ELSE g[i]]
  <2>2. h = [i \in 1..(n + 1) |-> IF i = 1 THEN seqs[i] ELSE h[i - 1] \o seqs[i]]
    <3>1. ASSUME NEW i \in 1..(n + 1)
          PROVE  h[i] = IF i = 1 THEN seqs[i] ELSE h[i - 1] \o seqs[i]
      <4>1. CASE i = n + 1
        BY <4>1
      <4>2. CASE i # n + 1
        <5>1. i \in 1..n /\ (i # 1 => i - 1 \in 1..n)
          BY <4>2
        <5>2. h[i] = g[i] /\ (i # 1 => h[i - 1] = g[i - 1])
          BY <4>2, <5>1
        <5> HIDE DEF h
        <5> QED BY <2>1, <5>1, <5>2
      <4> QED BY <4>1, <4>2
    <3>2. h = [i \in 1..(n + 1) |-> h[i]]
      OBVIOUS
    <3> HIDE DEF h
    <3> QED BY <3>1, <3>2
  <2> HIDE DEF h
  <2>3. \E f : f = [i \in 1..(n + 1) |-> IF i = 1 THEN seqs[i] ELSE f[i - 1] \o seqs[i]]
    BY <2>2
  <2>4. n + 1 \in Nat
    OBVIOUS
  <2> QED BY <2>3, <2>4, Zenon
<1>3. Nat \subseteq S
  <2> HIDE DEF S
  <2> QED BY <1>1, <1>2, SetInduction
<1>4. Len(seqs) \in S
  BY <1>3
<1> QED BY <1>4 DEF Flat

=============================================================================
