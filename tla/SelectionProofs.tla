--------------------------- MODULE SelectionProofs ---------------------------
(***************************************************************************)
(* What a selection holds: for places of a sequence, the elements at these *)
(* places and nothing else, as many as there are places.                   *)
(*                                                                         *)
(* The rank of a place is the number of the places up to it.  Ranks grow   *)
(* from place to place, so they are different, and being no more than the  *)
(* places they are all of 1, 2, ..: some place has each rank.              *)
(***************************************************************************)
EXTENDS Selection, FiniteSetTheorems, TLAPS

Rank(I, i) == Cardinality({j \in I : j <= i})

LEMMA PlacesFinite ==
    ASSUME NEW n \in Nat, NEW I \in SUBSET (1..n)
    PROVE  IsFiniteSet(I) /\ Cardinality(I) \in Nat
<1>1. IsFiniteSet(1..n)
  BY FS_Interval
<1>2. IsFiniteSet(I)
  BY <1>1, FS_Subset
<1> QED BY <1>2, FS_CardinalityType

LEMMA RankRange ==
    ASSUME NEW n \in Nat, NEW I \in SUBSET (1..n), NEW i \in I
    PROVE  Rank(I, i) \in 1..Cardinality(I)
<1> DEFINE upTo == {j \in I : j <= i}
<1>1. upTo \in SUBSET I /\ upTo # {} /\ IsFiniteSet(I) /\ Cardinality(I) \in Nat
  <2>1. i \in upTo
    OBVIOUS
  <2> QED BY <2>1, PlacesFinite
<1>2. IsFiniteSet(upTo) /\ Cardinality(upTo) <= Cardinality(I)
  BY <1>1, FS_Subset
<1>3. Cardinality(upTo) \in Nat /\ Cardinality(upTo) # 0
  BY <1>1, <1>2, FS_CardinalityType, FS_EmptySet
<1> QED BY <1>1, <1>2, <1>3 DEF Rank

LEMMA RankGrows ==
    ASSUME NEW n \in Nat, NEW I \in SUBSET (1..n), NEW i \in I, NEW j \in I, i < j
    PROVE  Rank(I, i) < Rank(I, j)
<1> DEFINE upTo(k) == {m \in I : m <= k}
<1>1. upTo(i) \in SUBSET upTo(j) /\ upTo(i) # upTo(j)
  <2>1. j \in upTo(j) /\ j \notin upTo(i)
    OBVIOUS
  <2>2. \A m \in upTo(i) : m \in upTo(j)
    OBVIOUS
  <2> QED BY <2>1, <2>2
<1>2. upTo(j) \in SUBSET (1..n)
  OBVIOUS
<1>3. IsFiniteSet(upTo(j)) /\ Cardinality(upTo(j)) \in Nat
  BY <1>2, PlacesFinite
<1>4. /\ Cardinality(upTo(i)) <= Cardinality(upTo(j))
      /\ Cardinality(upTo(i)) # Cardinality(upTo(j))
  BY <1>1, <1>3, FS_Subset
<1>5. Cardinality(upTo(i)) \in Nat
  <2>1. upTo(i) \in SUBSET (1..n)
    OBVIOUS
  <2> QED BY <2>1, PlacesFinite
<1> QED BY <1>3, <1>4, <1>5 DEF Rank

LEMMA RankTaken ==
    ASSUME NEW n \in Nat, NEW I \in SUBSET (1..n), NEW k \in 1..Cardinality(I)
    PROVE  \E i \in I : Rank(I, i) = k
<1> DEFINE rank == [i \in I |-> Rank(I, i)]
           ranks == 1..Cardinality(I)
<1>1. IsFiniteSet(I) /\ Cardinality(I) \in Nat
  BY PlacesFinite
<1>2. IsFiniteSet(ranks) /\ Cardinality(ranks) = Cardinality(I)
  BY <1>1, FS_Interval
<1>3. rank \in Injection(I, ranks)
  <2>1. rank \in [I -> ranks]
    BY RankRange
  <2>2. \A i, j \in I : i # j => rank[i] # rank[j]
    <3> SUFFICES ASSUME NEW i \in I, NEW j \in I, i # j PROVE rank[i] # rank[j]
      OBVIOUS
    <3>1. Rank(I, i) \in Nat /\ Rank(I, j) \in Nat
      BY <2>1
    <3>2. CASE i < j
      <4>1. Rank(I, i) < Rank(I, j)
        BY <3>2, RankGrows
      <4> QED BY <3>1, <4>1
    <3>3. CASE j < i
      <4>1. Rank(I, j) < Rank(I, i)
        BY <3>3, RankGrows
      <4> QED BY <3>1, <4>1
    <3> QED BY <3>2, <3>3
  <2> QED BY <2>1, <2>2 DEF Injection, IsInjective
<1>4. rank \in Surjection(I, ranks)
  BY <1>2, <1>3, FS_Injection
<1> QED BY <1>4 DEF Surjection

\* A selection from places of a sequence is a sequence of the elements there.
LEMMA SelectedElements ==
    ASSUME NEW S, NEW s \in Seq(S), NEW I \in SUBSET DOMAIN s
    PROVE  /\ Selected(s, I) \in Seq({s[i] : i \in I})
           /\ Len(Selected(s, I)) = Cardinality(I)
           /\ \A i \in I : \E k \in DOMAIN Selected(s, I) : Selected(s, I)[k] = s[i]
<1>1. Len(s) \in Nat /\ I \in SUBSET (1..Len(s))
  OBVIOUS
<1>2. Cardinality(I) \in Nat
  BY <1>1, PlacesFinite
<1> DEFINE place(k) == CHOOSE i \in I : Rank(I, i) = k
<1>3. \A k \in 1..Cardinality(I) : place(k) \in I /\ Rank(I, place(k)) = k
  BY <1>1, RankTaken
<1>4. Selected(s, I) = [k \in 1..Cardinality(I) |-> s[place(k)]]
  BY DEF Selected, Rank
<1> HIDE DEF place
<1>5. Selected(s, I) \in [1..Cardinality(I) -> {s[i] : i \in I}]
  BY <1>3, <1>4
<1>6. \A i \in I : Rank(I, i) \in 1..Cardinality(I)
  BY <1>1, RankRange
<1>7. \A i \in I : place(Rank(I, i)) = i
  <2> SUFFICES ASSUME NEW i \in I PROVE place(Rank(I, i)) = i
    OBVIOUS
  <2> DEFINE j == place(Rank(I, i))
  <2>1. j \in I /\ Rank(I, j) = Rank(I, i)
    BY <1>1, <1>3, RankRange
  <2> HIDE DEF j
  <2>2. ~(i < j) /\ ~(j < i)
    <3>1. i < j => Rank(I, i) < Rank(I, j)
      BY <1>1, <2>1, RankGrows
    <3>2. j < i => Rank(I, j) < Rank(I, i)
      BY <1>1, <2>1, RankGrows
    <3>3. Rank(I, i) \in Nat
      BY <1>6
    <3> QED BY <2>1, <3>1, <3>2, <3>3
  <2> QED BY <1>1, <2>1, <2>2 DEF j
<1>8. ASSUME NEW i \in I
      PROVE  \E k \in DOMAIN Selected(s, I) : Selected(s, I)[k] = s[i]
  BY <1>4, <1>6, <1>7
<1>9. Selected(s, I) \in Seq({s[i] : i \in I}) /\ Len(Selected(s, I)) = Cardinality(I)
  <2> DEFINE elements == {s[i] : i \in I}
  <2>1. Selected(s, I) \in [1..Cardinality(I) -> elements]
    BY <1>5
  <2> HIDE DEF elements
  <2>2. Selected(s, I) \in Seq(elements) /\ Len(Selected(s, I)) = Cardinality(I)
    BY <1>2, <2>1
  <2> QED BY <2>2 DEF elements
<1> QED BY <1>8, <1>9

\* No two elements of it are from one place, and they keep their order.
LEMMA SelectedPlaces ==
    ASSUME NEW S, NEW s \in Seq(S), NEW I \in SUBSET DOMAIN s
    PROVE  \E place \in [DOMAIN Selected(s, I) -> I] :
              /\ \A k \in DOMAIN Selected(s, I) : Selected(s, I)[k] = s[place[k]]
              /\ \A k, l \in DOMAIN Selected(s, I) : k < l => place[k] < place[l]
<1>1. Len(s) \in Nat /\ I \in SUBSET (1..Len(s))
  OBVIOUS
<1>2. Cardinality(I) \in Nat
  BY <1>1, PlacesFinite
<1> DEFINE at(k) == CHOOSE i \in I : Rank(I, i) = k
           place == [k \in 1..Cardinality(I) |-> at(k)]
<1>3. \A k \in 1..Cardinality(I) : at(k) \in I /\ Rank(I, at(k)) = k
  BY <1>1, RankTaken
<1>4. Selected(s, I) = [k \in 1..Cardinality(I) |-> s[at(k)]]
  BY DEF Selected, Rank
<1> HIDE DEF at
<1>5. /\ place \in [DOMAIN Selected(s, I) -> I]
      /\ \A k \in DOMAIN Selected(s, I) : Selected(s, I)[k] = s[place[k]]
  BY <1>3, <1>4
<1>6. ASSUME NEW k \in 1..Cardinality(I), NEW l \in 1..Cardinality(I), k < l
      PROVE  at(k) < at(l)
  <2>1. /\ at(k) \in I /\ Rank(I, at(k)) = k
        /\ at(l) \in I /\ Rank(I, at(l)) = l
    BY <1>3
  <2>2. at(l) < at(k) => Rank(I, at(l)) < Rank(I, at(k))
    BY <1>1, <2>1, RankGrows
  <2>3. k \in Nat /\ l \in Nat /\ at(k) \in Nat /\ at(l) \in Nat
    BY <1>1, <1>2, <2>1
  <2> QED BY <1>6, <2>1, <2>2, <2>3
<1>7. \A k, l \in DOMAIN Selected(s, I) : k < l => place[k] < place[l]
  BY <1>4, <1>6
<1> HIDE DEF place
<1> QED BY <1>5, <1>7

\* It is empty when there are no places.
LEMMA SelectedEmpty ==
    ASSUME NEW S, NEW s \in Seq(S), NEW I \in SUBSET DOMAIN s
    PROVE  Selected(s, I) = <<>> <=> I = {}
<1>1. Selected(s, I) \in Seq({s[i] : i \in I}) /\ Len(Selected(s, I)) = Cardinality(I)
  BY SelectedElements
<1>2. Len(s) \in Nat /\ I \in SUBSET (1..Len(s))
  OBVIOUS
<1>3. IsFiniteSet(I)
  BY <1>2, PlacesFinite
<1>4. Cardinality(I) = 0 <=> I = {}
  BY <1>3, FS_EmptySet
<1> QED BY <1>1, <1>4

\* The foremost of some places is one of them: the one of rank 1.
LEMMA ForemostElement ==
    ASSUME NEW S, NEW s \in Seq(S), NEW I \in SUBSET DOMAIN s, I # {}
    PROVE  \E i \in I : Foremost(s, I) = s[i]
<1>1. Len(s) \in Nat /\ I \in SUBSET (1..Len(s))
  OBVIOUS
<1>2. IsFiniteSet(I) /\ Cardinality(I) \in Nat
  BY <1>1, PlacesFinite
<1>3. 1 \in 1..Cardinality(I)
  BY <1>2, FS_EmptySet
<1>4. PICK i \in I : Rank(I, i) = 1
  BY <1>1, <1>3, RankTaken
<1>5. \A j \in I : i <= j
  <2> SUFFICES ASSUME NEW j \in I, j < i PROVE FALSE
    BY <1>1
  <2>1. Rank(I, j) < Rank(I, i) /\ Rank(I, j) \in 1..Cardinality(I)
    BY <1>1, RankGrows, RankRange
  <2> QED BY <1>2, <1>4, <2>1
<1>6. (CHOOSE k \in I : \A j \in I : k <= j) \in I
  BY <1>5
<1> QED BY <1>6 DEF Foremost
=============================================================================
