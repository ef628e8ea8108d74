-------------------------- MODULE SelectionProofs --------------------------
(***************************************************************************)
(* What is picked out of a sequence, and in which order.                   *)
(***************************************************************************)
EXTENDS Selection, Sequences, FiniteSetTheorems, SequenceTheorems, TLAPS

\* place takes the numbers 1, 2, ... to the members of S in rising order.
Enumerates(place, S) ==
    /\ place \in [1..Cardinality(S) -> S]
    /\ \A i, j \in 1..Cardinality(S) : i < j => place[i] < place[j]
    /\ \A k \in S : \E i \in 1..Cardinality(S) : place[i] = k

\* The ranks of a finite set of numbers are 1, 2, ... up to its size, and
\* rise with the numbers.
LEMMA Ranks ==
    ASSUME NEW S \in SUBSET Nat, IsFiniteSet(S)
    PROVE  /\ Cardinality(S) \in Nat
           /\ \A k \in S : Rank(S, k) \in 1..Cardinality(S)
           /\ \A j, k \in S : j < k => Rank(S, j) < Rank(S, k)
           /\ \A i \in 1..Cardinality(S) : \E k \in S : Rank(S, k) = i
<1> DEFINE Low(k) == {j \in S : j <= k}
<1>1. Cardinality(S) \in Nat
  BY FS_CardinalityType
<1>2. \A k \in S : /\ IsFiniteSet(Low(k))
                   /\ Cardinality(Low(k)) \in 1..Cardinality(S)
  <2> TAKE k \in S
  <2>1. IsFiniteSet(Low(k)) /\ Cardinality(Low(k)) <= Cardinality(S)
    BY FS_Subset, Low(k) \in SUBSET S
  <2>2. Cardinality(Low(k)) \in Nat
    BY <2>1, FS_CardinalityType
  <2>3. k \in Low(k)
    OBVIOUS
  <2>4. Cardinality(Low(k)) # 0
    BY <2>1, <2>3, FS_EmptySet
  <2> HIDE DEF Low
  <2> QED BY <1>1, <2>1, <2>2, <2>4
<1>3. \A j, k \in S : j < k => Cardinality(Low(j)) < Cardinality(Low(k))
  <2> SUFFICES ASSUME NEW j \in S, NEW k \in S, j < k
               PROVE  Cardinality(Low(j)) < Cardinality(Low(k))
    OBVIOUS
  <2>1. Low(j) \in SUBSET Low(k) /\ k \in Low(k) /\ k \notin Low(j)
    <3>1. \A x \in S : x \in Nat
      OBVIOUS
    <3>2. \A x \in S : x <= j => x <= k
      BY <3>1
    <3>3. j <= j /\ k <= k /\ ~(k <= j)
      BY <3>1
    <3> QED BY <3>2, <3>3
  <2> HIDE DEF Low
  <2>2. Cardinality(Low(j)) <= Cardinality(Low(k)) /\ Cardinality(Low(j)) # Cardinality(Low(k))
    BY <1>2, <2>1, FS_Subset
  <2> QED BY <1>1, <1>2, <2>2
<1>4. \A k \in S : Rank(S, k) = Cardinality(Low(k))
  BY DEF Rank
<1> HIDE DEF Low
<1>5. /\ \A k \in S : Rank(S, k) \in 1..Cardinality(S)
      /\ \A j, k \in S : j < k => Rank(S, j) < Rank(S, k)
  BY <1>2, <1>3, <1>4
<1>6. \A i \in 1..Cardinality(S) : \E k \in S : Rank(S, k) = i
  <2> DEFINE f == [k \in S |-> Rank(S, k)]
             T == 1..Cardinality(S)
  <2>1. IsFiniteSet(T) /\ Cardinality(T) = Cardinality(S)
    BY <1>1, FS_Interval
  <2>2. \A j, k \in S : Rank(S, j) = Rank(S, k) => j = k
    <3> SUFFICES ASSUME NEW j \in S, NEW k \in S, j # k PROVE Rank(S, j) # Rank(S, k)
      OBVIOUS
    <3>1. j < k \/ k < j
      OBVIOUS
    <3> QED BY <1>1, <1>5, <3>1
  <2>3. f \in Injection(S, T)
    BY <1>5, <2>2 DEF Injection, IsInjective
  <2> HIDE DEF T
  <2>4. f \in Surjection(S, T)
    BY <2>1, <2>3, FS_Injection
  <2> QED BY <2>4 DEF Surjection, T
<1> QED BY <1>1, <1>5, <1>6

\* A finite set of numbers that is not empty has a least one.
LEMMA Least ==
    ASSUME NEW S \in SUBSET Nat, IsFiniteSet(S), S # {}
    PROVE  \E k \in S : \A j \in S : k <= j
<1>1. Cardinality(S) \in Nat /\ Cardinality(S) # 0
  BY FS_EmptySet, FS_CardinalityType
<1>2. PICK k \in S : Rank(S, k) = 1
  BY <1>1, Ranks
<1>3. \A j \in S : ~(j < k)
  <2> TAKE j \in S
  <2>1. Rank(S, j) \in 1..Cardinality(S) /\ (j < k => Rank(S, j) < Rank(S, k))
    BY Ranks
  <2> QED BY <1>1, <1>2, <2>1
<1> QED BY <1>3

\* What is picked are the members at the indices given, in their order.
LEMMA PickedPlaces ==
    ASSUME NEW X, NEW q \in Seq(X), NEW S \in SUBSET (1..Len(q))
    PROVE  /\ IsFiniteSet(S) /\ Cardinality(S) \in Nat
           /\ Picked(q, S) \in Seq(X)
           /\ Len(Picked(q, S)) = Cardinality(S)
           /\ \E place : /\ Enumerates(place, S)
                         /\ \A i \in 1..Cardinality(S) : Picked(q, S)[i] = q[place[i]]
<1>1. IsFiniteSet(1..Len(q)) /\ 1..Len(q) \subseteq Nat
  BY FS_Interval
<1>2. IsFiniteSet(S) /\ S \in SUBSET Nat
  BY <1>1, FS_Subset
<1>3. /\ Cardinality(S) \in Nat
      /\ \A k \in S : Rank(S, k) \in 1..Cardinality(S)
      /\ \A j, k \in S : j < k => Rank(S, j) < Rank(S, k)
      /\ \A i \in 1..Cardinality(S) : \E k \in S : Rank(S, k) = i
  BY <1>2, Ranks
<1> DEFINE place == [i \in 1..Cardinality(S) |-> CHOOSE k \in S : Rank(S, k) = i]
<1>4. \A i \in 1..Cardinality(S) : place[i] \in S /\ Rank(S, place[i]) = i
  BY <1>3
<1>5. Picked(q, S) = [i \in 1..Cardinality(S) |-> q[place[i]]]
  BY DEF Picked
<1>6. place \in [1..Cardinality(S) -> S]
  BY <1>4
<1> HIDE DEF place
<1>7. Picked(q, S) \in Seq(X) /\ Len(Picked(q, S)) = Cardinality(S)
  <2>1. \A i \in 1..Cardinality(S) : q[place[i]] \in X
    BY <1>4, ElementOfSeq
  <2>2. Picked(q, S) \in [1..Cardinality(S) -> X]
    BY <1>5, <2>1
  <2> QED BY <1>3, <2>2, IsASeq, LenProperties
<1>8. \A i, j \in 1..Cardinality(S) : i < j => place[i] < place[j]
  <2> SUFFICES ASSUME NEW i \in 1..Cardinality(S), NEW j \in 1..Cardinality(S), i < j
               PROVE  place[i] < place[j]
    OBVIOUS
  <2>1. place[i] \in S /\ place[j] \in S /\ Rank(S, place[i]) = i /\ Rank(S, place[j]) = j
    BY <1>4
  <2>2. place[i] \in Nat /\ place[j] \in Nat
    BY <1>2, <2>1
  <2>3. i \in Nat /\ j \in Nat
    BY <1>3
  <2>4. place[j] < place[i] => Rank(S, place[j]) < Rank(S, place[i])
    BY <1>3, <2>1
  <2>5. place[j] # place[i] /\ ~(place[j] < place[i])
    BY <2>1, <2>3, <2>4
  <2> QED BY <2>2, <2>5
<1>9. \A k \in S : \E i \in 1..Cardinality(S) : place[i] = k
  <2> SUFFICES ASSUME NEW k \in S PROVE place[Rank(S, k)] = k
    BY <1>3
  <2> DEFINE i == Rank(S, k)
  <2>0. Rank(S, k) = i
    OBVIOUS
  <2>1. i \in 1..Cardinality(S) /\ place[i] \in S /\ Rank(S, place[i]) = i
    BY <1>3, <1>4
  <2> HIDE DEF i
  <2>2. i \in Nat /\ k \in Nat /\ place[i] \in Nat
    <3>1. i \in Nat
      BY <1>3, <2>1
    <3>2. k \in Nat /\ place[i] \in Nat
      BY <1>2, <2>1
    <3> QED BY <3>1, <3>2
  <2>3. /\ place[i] < k => Rank(S, place[i]) < Rank(S, k)
        /\ k < place[i] => Rank(S, k) < Rank(S, place[i])
    BY <1>3, <2>1
  <2>4. ~(place[i] < k) /\ ~(k < place[i])
    BY <2>0, <2>1, <2>2, <2>3
  <2> QED BY <2>2, <2>4 DEF i
<1> QED BY <1>2, <1>3, <1>5, <1>6, <1>7, <1>8, <1>9 DEF Enumerates
=============================================================================
