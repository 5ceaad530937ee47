---------------------------- MODULE QuorumProofs ----------------------------
(***************************************************************************)
(* What VoteResult and CommittedIndex compute, for configurations of every *)
(* size: the counting of majority.go agrees with the definition of a       *)
(* quorum, and two quorums of a configuration share a voter.               *)
(***************************************************************************)
EXTENDS QuorumConfig, FiniteSetTheorems, WellFoundedInduction, TLAPS

\* The integer division of majority.go:170 and 201: k votes are at least
\* len(c)/2 + 1 exactly when they are more than half.
LEMMA MajorityIsMoreThanHalf ==
    ASSUME NEW n \in Nat, NEW k \in Nat
    PROVE  k >= n \div 2 + 1 <=> 2 * k > n
  OBVIOUS

\* A set that contains a quorum is one.
LEMMA HasQuorumMonotone ==
    ASSUME NEW c, IsFiniteSet(c), NEW S, NEW T, S \subseteq T, HasQuorum(c, S)
    PROVE  HasQuorum(c, T)
<1>1. IsFiniteSet(T \cap c) /\ Cardinality(T \cap c) \in Nat
  BY FS_Subset, FS_CardinalityType
<1>2. Cardinality(S \cap c) <= Cardinality(T \cap c) /\ Cardinality(S \cap c) \in Nat
  <2>1. S \cap c \in SUBSET (T \cap c)
    OBVIOUS
  <2> QED  BY <1>1, <2>1, FS_Subset, FS_CardinalityType
<1>3. Cardinality(c) \in Nat
  BY FS_CardinalityType
<1> QED  BY <1>1, <1>2, <1>3 DEF HasQuorum

\* Two quorums of a configuration that is not empty have a voter in common: what
\* one of them committed or granted, the other one knows of (quorum.go).
THEOREM QuorumsIntersect ==
    ASSUME NEW c, IsFiniteSet(c), c # {}, NEW S, NEW T, HasQuorum(c, S), HasQuorum(c, T)
    PROVE  \E v \in c : v \in S /\ v \in T
<1> DEFINE A == S \cap c
           B == T \cap c
<1>1. /\ IsFiniteSet(A) /\ Cardinality(A) \in Nat
      /\ IsFiniteSet(B) /\ Cardinality(B) \in Nat
      /\ Cardinality(c) \in Nat
  BY FS_Subset, FS_CardinalityType
<1>2. 2 * Cardinality(A) > Cardinality(c) /\ 2 * Cardinality(B) > Cardinality(c)
  BY DEF HasQuorum
<1>3. Cardinality(A \cup B) <= Cardinality(c) /\ Cardinality(A \cup B) \in Nat
  <2>1. A \cup B \in SUBSET c
    OBVIOUS
  <2> QED  BY <2>1, FS_Subset, FS_CardinalityType
<1>4. Cardinality(A \cup B) = Cardinality(A) + Cardinality(B) - Cardinality(A \cap B)
  BY <1>1, FS_Union
<1>5. Cardinality(A \cap B) # 0
  <2>1. Cardinality(A \cap B) \in Nat
    BY <1>1, FS_Subset, FS_CardinalityType
  <2> HIDE DEF A, B
  <2> QED  BY <1>1, <1>2, <1>3, <1>4, <2>1
<1>6. A \cap B # {}
  BY <1>5, FS_EmptySet
<1> QED  BY <1>6

-----------------------------------------------------------------------------
(* MajorityConfig.VoteResult *)

\* The counts of one half decide exactly what the quorum facts say (majority.go:178-210).
LEMMA VoteResultMeaning ==
    ASSUME NEW V, IsFiniteSet(V), NEW c \in SUBSET V, NEW f \in [V -> Votes]
    PROVE  /\ VoteResult(c, f) \in VoteResults
           /\ VoteResult(c, f) = "VoteWon" <=> HasQuorum(c, {id \in V : f[id] = "yes"})
           /\ VoteResult(c, f) = "VoteLost" <=>
                ~HasQuorum(c, V \ {id \in V : f[id] = "no"})
<1> DEFINE Y == {id \in c : f[id] = "yes"}
           M == {id \in c : f[id] = "missing"}
<1>1. IsFiniteSet(c) /\ Cardinality(c) \in Nat
  BY FS_Subset, FS_CardinalityType
<1>2. /\ IsFiniteSet(Y) /\ Cardinality(Y) \in Nat
      /\ IsFiniteSet(M) /\ Cardinality(M) \in Nat
  BY <1>1, FS_Subset, FS_CardinalityType
<1>3. Cardinality(Y \cup M) = Cardinality(Y) + Cardinality(M)
  <2>1. Y \cap M = {}
    OBVIOUS
  <2>2. Cardinality(Y \cup M) = Cardinality(Y) + Cardinality(M) - Cardinality(Y \cap M)
    BY <1>2, FS_Union
  <2>3. Cardinality(Y \cap M) = 0
    BY <2>1, FS_EmptySet
  <2> HIDE DEF Y, M
  <2> QED  BY <1>2, <2>2, <2>3
<1>4. {id \in V : f[id] = "yes"} \cap c = Y
  OBVIOUS
<1>5. (V \ {id \in V : f[id] = "no"}) \cap c = Y \cup M
  BY DEF Votes
<1>6. /\ Cardinality(Y) >= Majority(c) <=> 2 * Cardinality(Y) > Cardinality(c)
      /\ Cardinality(Y) + Cardinality(M) >= Majority(c)
           <=> 2 * (Cardinality(Y) + Cardinality(M)) > Cardinality(c)
  BY <1>1, <1>2, MajorityIsMoreThanHalf DEF Majority
<1>7. VoteResult(c, f) = IF c = {} \/ Cardinality(Y) >= Majority(c) THEN "VoteWon"
                         ELSE IF Cardinality(Y) + Cardinality(M) >= Majority(c) THEN "VotePending"
                         ELSE "VoteLost"
  BY DEF VoteResult
<1>8. HasQuorum(c, {id \in V : f[id] = "yes"}) <=> c = {} \/ 2 * Cardinality(Y) > Cardinality(c)
  BY <1>4 DEF HasQuorum
<1>9. HasQuorum(c, V \ {id \in V : f[id] = "no"})
        <=> c = {} \/ 2 * (Cardinality(Y) + Cardinality(M)) > Cardinality(c)
  BY <1>3, <1>5 DEF HasQuorum
<1> HIDE DEF Y, M
<1> QED  BY <1>1, <1>2, <1>6, <1>7, <1>8, <1>9 DEF VoteResults

-----------------------------------------------------------------------------
(* MajorityConfig.CommittedIndex *)

\* A non-empty set of naturals has a least element.
LEMMA LeastNat ==
    ASSUME NEW T \in SUBSET Nat, T # {}
    PROVE  \E x \in T : \A y \in T : x <= y
<1>1. \E x \in T : \A y \in T : ~(<<y, x>> \in OpToRel(<, Nat))
  BY NatLessThanWellFounded, WFMin
<1>2. PICK x \in T : \A y \in T : ~(<<y, x>> \in OpToRel(<, Nat))
  BY <1>1
<1>3. \A y \in T : ~(y < x)
  BY <1>2 DEF OpToRel
<1> QED  BY <1>3

\* How many voters of c acknowledged at most n.
UpTo(c, f, n) == Cardinality({id \in c : f[id] <= n})

\* What stands at a position of the sorted acks: it exists and splits the voters there
\* (majority.go:134-165).
LEMMA SortedAckMeaning ==
    ASSUME NEW V, IsFiniteSet(V), NEW hi \in Nat, NEW c \in SUBSET V,
           NEW f \in [V -> 0..hi],
           NEW pos \in Nat, pos < Cardinality(c)
    PROVE  LET v == SortedAck(c, f, pos)
           IN  /\ v \in {f[id] : id \in c}
               /\ Cardinality({id \in c : f[id] < v}) <= pos
               /\ pos < Cardinality({id \in c : f[id] <= v})
<1> DEFINE T == {n \in 0..hi : pos < UpTo(c, f, n)}
<1>1. IsFiniteSet(c) /\ Cardinality(c) \in Nat
  BY FS_Subset, FS_CardinalityType
<1>2. hi \in T
  <2>1. {id \in c : f[id] <= hi} = c
    BY <1>1
  <2> QED  BY <1>1, <2>1 DEF UpTo
<1>3. T \in SUBSET Nat /\ T # {}
  BY <1>1, <1>2
<1>4. PICK v \in T : \A y \in T : v <= y
  BY <1>3, LeastNat
<1>5. v \in 0..hi /\ v \in Nat /\ pos < Cardinality({id \in c : f[id] <= v})
  BY <1>1, <1>4 DEF UpTo
<1>6. Cardinality({id \in c : f[id] < v}) <= pos
  <2> DEFINE L == {id \in c : f[id] < v}
  <2>1. Cardinality(L) \in Nat
    BY <1>1, FS_Subset, FS_CardinalityType
  <2>2. CASE v = 0
    <3>1. L = {}
      BY <2>2, <1>1
    <3> HIDE DEF L
    <3>2. Cardinality(L) = 0
      BY <3>1, FS_EmptySet
    <3>3. Cardinality(L) <= pos
      BY <3>2
    <3> QED  BY <3>3 DEF L
  <2>3. CASE v # 0
    <3>1. v - 1 \in 0..hi /\ ~(v <= v - 1)
      BY <1>1, <1>5, <2>3
    <3>2. v - 1 \notin T
      BY <1>4, <3>1
    <3> DEFINE U == {id \in c : f[id] <= v - 1}
    <3>3. ~(pos < Cardinality(U))
      BY <3>1, <3>2 DEF UpTo
    <3>4. L = U
      BY <1>1, <1>5
    <3>5. Cardinality(L) <= pos
      <4> HIDE DEF L, U
      <4> QED  BY <2>1, <3>3, <3>4
    <3> QED  BY <3>5
  <2> QED  BY <2>2, <2>3
<1>7. v \in {f[id] : id \in c}
  <2> SUFFICES ASSUME v \notin {f[id] : id \in c} PROVE FALSE
    OBVIOUS
  <2>1. {id \in c : f[id] < v} = {id \in c : f[id] <= v}
    BY <1>1, <1>5
  <2>2. Cardinality({id \in c : f[id] < v}) \in Nat
    BY <1>1, FS_Subset, FS_CardinalityType
  <2> QED  BY <1>5, <1>6, <2>1, <2>2
<1>8. \E w \in {f[id] : id \in c} : /\ Cardinality({id \in c : f[id] < w}) <= pos
                                    /\ pos < Cardinality({id \in c : f[id] <= w})
  BY <1>5, <1>6, <1>7
<1> QED  BY <1>8 DEF SortedAck

\* The commit index of a non-empty half is the largest index a quorum acknowledged
\* (majority.go:126-172).
LEMMA CommittedIndexMeaning ==
    ASSUME NEW V, IsFiniteSet(V), NEW hi \in Nat, NEW c \in SUBSET V,
           NEW f \in [V -> 0..hi], c # {}
    PROVE  /\ CommittedIndex(c, f) \in 0..hi
           /\ \A n \in 0..hi :
                HasQuorum(c, {id \in V : f[id] >= n}) <=> n <= CommittedIndex(c, f)
<1> DEFINE v == SortedAck(c, f, QuorumPos(c))
           size == Cardinality(c)
<1>1. IsFiniteSet(c) /\ size \in Nat /\ size # 0
  BY FS_Subset, FS_CardinalityType, FS_EmptySet
<1>2. QuorumPos(c) \in Nat /\ QuorumPos(c) < size /\ QuorumPos(c) = size - (size \div 2 + 1)
  <2> HIDE DEF size
  <2> QED  BY <1>1 DEF QuorumPos, Majority, size
<1>3. /\ v \in {f[id] : id \in c}
      /\ Cardinality({id \in c : f[id] < v}) <= QuorumPos(c)
      /\ QuorumPos(c) < Cardinality({id \in c : f[id] <= v})
  BY <1>2, SortedAckMeaning
<1>4. v \in 0..hi /\ CommittedIndex(c, f) = v
  BY <1>3 DEF CommittedIndex
<1> HIDE DEF v
<1>5. ASSUME NEW n \in 0..hi
      PROVE  HasQuorum(c, {id \in V : f[id] >= n}) <=> n <= v
  <2> DEFINE A == {id \in c : f[id] >= n}
             L == {id \in c : f[id] < v}
             U == {id \in c : f[id] <= v}
  <2>1. /\ IsFiniteSet(A) /\ Cardinality(A) \in Nat
        /\ IsFiniteSet(L) /\ Cardinality(L) \in Nat
        /\ IsFiniteSet(U) /\ Cardinality(U) \in Nat
    BY <1>1, FS_Subset, FS_CardinalityType
  <2>2. HasQuorum(c, {id \in V : f[id] >= n}) <=> 2 * Cardinality(A) > size
    <3>1. {id \in V : f[id] >= n} \cap c = A
      OBVIOUS
    <3> QED  BY <3>1 DEF HasQuorum
  <2>3. CASE n <= v
    <3>1. c \ L \subseteq A
      BY <2>3, <1>1, <1>4
    <3>2. Cardinality(c \ L) <= Cardinality(A) /\ Cardinality(c \ L) \in Nat
      BY <2>1, <3>1, FS_Subset, FS_CardinalityType
    <3>3. Cardinality(c \ L) = size - Cardinality(L)
      <4>1. c \cap L = L
        OBVIOUS
      <4> QED  BY <1>1, <4>1, FS_Difference
    <3> HIDE DEF A, L, U, size
    <3>4. Cardinality(L) <= QuorumPos(c)
      BY <1>3 DEF L
    <3> QED  BY <1>1, <1>2, <2>1, <2>2, <2>3, <3>2, <3>3, <3>4
  <2>4. CASE ~(n <= v)
    <3>1. A \subseteq c \ U
      BY <2>4, <1>1, <1>4
    <3>2. IsFiniteSet(c \ U)
      BY <1>1, FS_Subset
    <3>3. Cardinality(A) <= Cardinality(c \ U) /\ Cardinality(c \ U) \in Nat
      BY <3>1, <3>2, FS_Subset, FS_CardinalityType
    <3>4. Cardinality(c \ U) = size - Cardinality(U)
      <4>1. c \cap U = U
        OBVIOUS
      <4> QED  BY <1>1, <4>1, FS_Difference
    <3> HIDE DEF A, L, U, size
    <3>5. QuorumPos(c) < Cardinality(U)
      BY <1>3 DEF U
    <3> QED  BY <1>1, <1>2, <2>1, <2>2, <2>4, <3>3, <3>4, <3>5
  <2> QED  BY <2>3, <2>4
<1> QED  BY <1>4, <1>5
=============================================================================
