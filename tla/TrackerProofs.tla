---------------------------- MODULE TrackerProofs ----------------------------
(***************************************************************************)
(* Proofs about the package tracker.                                       *)
(*                                                                         *)
(* ProgressTracker: the tally is the decision of a quorum and stays        *)
(* decided, the commit index is the largest one a quorum has acknowledged  *)
(* and never moves back, for joint configurations of every size and        *)
(* answers in any order.                                                   *)
(*                                                                         *)
(* Inflights, the window of one follower: the ring never touches memory it *)
(* does not have and implements the bounded FIFO, for every capacity.      *)
(***************************************************************************)
EXTENDS ProgressTracker, Inflights, QuorumProofs, SequenceTheorems

-----------------------------------------------------------------------------
(* MajorityConfig.VoteResult and JointConfig.VoteResult *)

\* The part of the type invariant that the steps preserve.
TypeInv == /\ config \in ((SUBSET Node) \ {{}}) \X SUBSET Node
           /\ votes \in [Node -> Votes]
           /\ match \in [Node -> 0..MaxIndex]

\* The types of the state are inductive by themselves.
LEMMA TypeInvariant == Spec => []TypeInv
<1>1. Init => TypeInv
  BY MaxIndexAssumption DEF Init, TypeInv, Votes
<1>2. TypeInv /\ [Next]_vars => TypeInv'
  <2> SUFFICES ASSUME TypeInv, [Next]_vars PROVE TypeInv'
    OBVIOUS
  <2>1. ASSUME NEW id \in IDs(config), NEW v \in BOOLEAN, RecordVote(id, v) PROVE TypeInv'
    BY <2>1 DEF TypeInv, RecordVote, Votes
  <2>2. ASSUME NEW id \in IDs(config), NEW n \in 1..MaxIndex, MaybeUpdate(id, n) PROVE TypeInv'
    <3>1. n \in 0..MaxIndex
      BY MaxIndexAssumption
    <3> QED  BY <2>2, <3>1 DEF TypeInv, MaybeUpdate
  <2>3. CASE ResetVotes
    BY <2>3 DEF TypeInv, ResetVotes, Votes
  <2>4. CASE UNCHANGED vars
    BY <2>4 DEF TypeInv, vars
  <2> QED  BY <2>1, <2>2, <2>3, <2>4 DEF Next
<1> QED  BY <1>1, <1>2, PTL DEF Spec

\* In every typed state TallyVotes reports the quorum decision (tracker.go:267-288).
LEMMA TallyMeaning ==
    ASSUME TypeInv
    PROVE  TallyIsQuorumDecision
<1>1. config[1] \in SUBSET Node /\ config[2] \in SUBSET Node /\ votes \in [Node -> Votes]
  BY DEF TypeInv
<1> DEFINE r1 == VoteResult(config[1], votes)
           r2 == VoteResult(config[2], votes)
           notNo == Node \ Said("no")
<1>2. /\ r1 \in VoteResults /\ r2 \in VoteResults
      /\ r1 = "VoteWon" <=> HasQuorum(config[1], Said("yes"))
      /\ r2 = "VoteWon" <=> HasQuorum(config[2], Said("yes"))
      /\ r1 = "VoteLost" <=> ~HasQuorum(config[1], notNo)
      /\ r2 = "VoteLost" <=> ~HasQuorum(config[2], notNo)
  BY <1>1, NodeAssumption, VoteResultMeaning DEF Said
<1>3. Tally = IF r1 = r2 THEN r1
              ELSE IF "VoteLost" \in {r1, r2} THEN "VoteLost" ELSE "VotePending"
  BY DEF Tally, JointVoteResult
<1> HIDE DEF r1, r2, notNo
<1>4. Tally = "VoteWon" <=> r1 = "VoteWon" /\ r2 = "VoteWon"
  BY <1>2, <1>3 DEF VoteResults
<1>5. Tally = "VoteLost" <=> r1 = "VoteLost" \/ r2 = "VoteLost"
  BY <1>2, <1>3 DEF VoteResults
<1> QED  BY <1>2, <1>4, <1>5 DEF TallyIsQuorumDecision, JointHasQuorum, notNo

\* TallyVotes decides as the definition of a joint quorum says, for every joint
\* configuration and every set of answers (majority.go:178-210, joint.go:61-75).
THEOREM TallyCorrect == Spec => []TallyIsQuorumDecision
<1>1. TypeInv => TallyIsQuorumDecision
  BY TallyMeaning
<1> QED  BY <1>1, TypeInvariant, PTL

\* Within one campaign no straggler, duplicate or contradicting answer changes a
\* decision that TallyVotes has already reported (tracker.go:258-288).
THEOREM DecisionsAreStable == Spec => DecisionStable
<1>1. ASSUME TypeInv, TypeInv', [Next]_vars
      PROVE  [Tally # "VotePending" => Tally' = Tally \/ ResetVotes]_vars
  <2> SUFFICES ASSUME Tally # "VotePending", ~UNCHANGED vars, ~ResetVotes
               PROVE  Tally' = Tally
    OBVIOUS
  <2>1. TallyIsQuorumDecision /\ TallyIsQuorumDecision'
    BY <1>1, TallyMeaning, PTL
  <2>2. Tally \in VoteResults
    BY <1>1, NodeAssumption, VoteResultMeaning DEF TypeInv, Tally, JointVoteResult, VoteResults
  <2>3. config' = config /\ IsFiniteSet(config[1]) /\ IsFiniteSet(config[2])
    BY <1>1, NodeAssumption, FS_Subset DEF TypeInv, Next, vars, RecordVote, MaybeUpdate, ResetVotes
  <2>4. Said("yes") \subseteq Said("yes")' /\ Said("no") \subseteq Said("no")'
    <3>1. CASE \E id \in IDs(config), v \in BOOLEAN : RecordVote(id, v)
      BY <3>1, <1>1 DEF TypeInv, RecordVote, Said
    <3>2. CASE votes' = votes
      BY <3>2 DEF Said
    <3> QED  BY <1>1, <3>1, <3>2 DEF Next, vars, MaybeUpdate
  <2>5. CASE Tally = "VoteWon"
    <3>1. JointHasQuorum(config, Said("yes"))
      BY <2>1, <2>5 DEF TallyIsQuorumDecision
    <3>2. JointHasQuorum(config, Said("yes")')
      BY <2>3, <2>4, <3>1, HasQuorumMonotone DEF JointHasQuorum
    <3>3. JointHasQuorum(config, Said("yes"))'
      BY <2>3, <3>2 DEF JointHasQuorum, HasQuorum
    <3> QED  BY <2>1, <2>5, <3>3 DEF TallyIsQuorumDecision
  <2>6. CASE Tally = "VoteLost"
    <3>1. ~JointHasQuorum(config, Node \ Said("no"))
      BY <2>1, <2>6 DEF TallyIsQuorumDecision
    <3>2. ~JointHasQuorum(config, Node \ Said("no")')
      <4>1. (Node \ Said("no")') \subseteq Node \ Said("no")
        BY <2>4
      <4> QED  BY <2>3, <3>1, <4>1, HasQuorumMonotone DEF JointHasQuorum
    <3>3. ~JointHasQuorum(config, Node \ Said("no"))'
      BY <2>3, <3>2 DEF JointHasQuorum, HasQuorum
    <3> QED  BY <2>1, <2>6, <3>3 DEF TallyIsQuorumDecision
  <2> QED  BY <2>2, <2>5, <2>6 DEF VoteResults
<1> QED  BY <1>1, TypeInvariant, PTL DEF Spec, DecisionStable

-----------------------------------------------------------------------------
(* MajorityConfig.CommittedIndex and JointConfig.CommittedIndex *)

\* The joint commit index is the smaller of the two halves and never infinite (joint.go:49-56).
LEMMA CommittedMeaning ==
    ASSUME TypeInv
    PROVE  /\ Committed \in 0..MaxIndex
           /\ \A n \in 0..MaxIndex : JointHasQuorum(config, Ackers(n)) <=> n <= Committed
<1> DEFINE idx0 == CommittedIndex(config[1], match)
           idx1 == CommittedIndex(config[2], match)
<1>1. /\ config[1] \in SUBSET Node /\ config[1] # {} /\ config[2] \in SUBSET Node
      /\ match \in [Node -> 0..MaxIndex]
  <2>1. config[1] \in (SUBSET Node) \ {{}} /\ config[2] \in SUBSET Node
    BY DEF TypeInv
  <2>2. config[1] \in SUBSET Node
    BY <2>1
  <2>3. config[1] # {}
    BY <2>1
  <2>4. match \in [Node -> 0..MaxIndex]
    BY DEF TypeInv
  <2> QED  BY <2>1, <2>2, <2>3, <2>4
<1>2. /\ idx0 \in 0..MaxIndex
      /\ \A n \in 0..MaxIndex : HasQuorum(config[1], Ackers(n)) <=> n <= idx0
  BY <1>1, NodeAssumption, MaxIndexAssumption, CommittedIndexMeaning DEF Ackers
<1>3. /\ idx1 \in 0..MaxIndex \/ idx1 = Unbounded
      /\ \A n \in 0..MaxIndex : HasQuorum(config[2], Ackers(n)) <=> n <= idx1
  <2>1. CASE config[2] = {}
    <3>1. idx1 = Unbounded
      BY <2>1 DEF CommittedIndex
    <3>2. \A n \in 0..MaxIndex : n <= Unbounded
      BY MaxIndexAssumption DEF Unbounded
    <3> QED  BY <2>1, <3>1, <3>2 DEF HasQuorum
  <2>2. CASE config[2] # {}
    BY <1>1, <2>2, NodeAssumption, MaxIndexAssumption, CommittedIndexMeaning DEF Ackers
  <2> QED  BY <2>1, <2>2
<1>4. Committed = IF idx0 < idx1 THEN idx0 ELSE idx1
  BY DEF Committed, JointCommittedIndex
<1>5. MaxIndex \in Nat /\ Unbounded \in Nat /\ MaxIndex < Unbounded
  BY MaxIndexAssumption DEF Unbounded
<1> HIDE DEF idx0, idx1
<1>6. Committed \in 0..MaxIndex
  BY <1>2, <1>3, <1>4, <1>5
<1>7. ASSUME NEW n \in 0..MaxIndex
      PROVE  JointHasQuorum(config, Ackers(n)) <=> n <= Committed
  <2>1. n <= Committed <=> n <= idx0 /\ n <= idx1
    BY <1>2, <1>3, <1>4, <1>5
  <2> QED  BY <1>2, <1>3, <2>1 DEF JointHasQuorum
<1> QED  BY <1>6, <1>7

\* The type invariant: in particular the tally is one of the three results, and
\* the commit index is a real one, never the MaxUint64 of an empty half
\* (majority.go:126-131, joint.go:49-56).
THEOREM TypeCorrect == Spec => []TypeOK
<1>1. TypeInv => TypeOK
  <2> SUFFICES ASSUME TypeInv PROVE TypeOK
    OBVIOUS
  <2>1. Tally \in VoteResults
    BY NodeAssumption, VoteResultMeaning DEF TypeInv, Tally, JointVoteResult, VoteResults
  <2> QED  BY <2>1, CommittedMeaning DEF TypeInv, TypeOK
<1> QED  BY <1>1, TypeInvariant, PTL

\* In every typed state Committed() is the largest quorum-acknowledged index.
LEMMA CommittedIsLargest ==
    ASSUME TypeInv
    PROVE  CommittedIsLargestQuorumAck
<1>1. /\ Committed \in 0..MaxIndex /\ MaxIndex \in Nat
      /\ \A n \in 0..MaxIndex : JointHasQuorum(config, Ackers(n)) <=> n <= Committed
  BY CommittedMeaning, MaxIndexAssumption
<1>2. JointHasQuorum(config, Ackers(Committed))
  <2>1. Committed <= Committed
    BY <1>1
  <2> QED  BY <1>1, <2>1
<1>3. ASSUME NEW n \in (Committed + 1)..MaxIndex
      PROVE  ~JointHasQuorum(config, Ackers(n))
  <2>1. n \in 0..MaxIndex /\ ~(n <= Committed)
    BY <1>1
  <2> QED  BY <1>1, <2>1
<1> QED  BY <1>2, <1>3 DEF CommittedIsLargestQuorumAck

\* Committed() is the largest index that a quorum of both halves acknowledged, for
\* every joint configuration and all acknowledgements (majority.go:126-172).
THEOREM CommittedCorrect == Spec => []CommittedIsLargestQuorumAck
<1>1. TypeInv => CommittedIsLargestQuorumAck
  BY CommittedIsLargest
<1> QED  BY <1>1, TypeInvariant, PTL

\* The commit index never moves back while acknowledgements arrive in any order
\* (progress.go:144-153, majority.go:126-172).
THEOREM CommittedNeverBack == Spec => CommittedMonotonic
<1>1. ASSUME TypeInv, TypeInv', [Next]_vars
      PROVE  [Committed' >= Committed]_vars
  <2> SUFFICES ASSUME ~UNCHANGED vars PROVE Committed' >= Committed
    OBVIOUS
  <2>1. /\ Committed \in 0..MaxIndex
        /\ \A n \in 0..MaxIndex : JointHasQuorum(config, Ackers(n)) <=> n <= Committed
    BY <1>1, CommittedMeaning
  <2>2. (/\ Committed \in 0..MaxIndex
         /\ \A n \in 0..MaxIndex : JointHasQuorum(config, Ackers(n)) <=> n <= Committed)'
    BY <1>1, CommittedMeaning, PTL
  <2>3. config' = config /\ IsFiniteSet(config[1]) /\ IsFiniteSet(config[2])
    BY <1>1, NodeAssumption, FS_Subset DEF TypeInv, Next, vars, RecordVote, MaybeUpdate, ResetVotes
  <2>4. \A id \in Node : match'[id] >= match[id]
    <3>1. CASE \E id \in IDs(config), n \in 1..MaxIndex : MaybeUpdate(id, n)
      BY <3>1, <1>1, MaxIndexAssumption DEF TypeInv, MaybeUpdate
    <3>2. CASE match' = match
      BY <3>2, <1>1, MaxIndexAssumption DEF TypeInv
    <3> QED  BY <1>1, <3>1, <3>2 DEF Next, vars, RecordVote, ResetVotes
  <2>5. MaxIndex \in Nat
    BY MaxIndexAssumption
  <2>6. Committed <= Committed
    BY <2>1, <2>5
  <2>7. JointHasQuorum(config, Ackers(Committed))
    BY <2>1, <2>6
  <2> DEFINE C == Committed
             N == {id \in Node : match'[id] >= C}
  <2>8. JointHasQuorum(config, N)
    <3>1. Ackers(C) \subseteq N
      BY <1>1, <2>1, <2>4, <2>5 DEF Ackers, TypeInv
    <3> QED  BY <2>3, <2>7, <3>1, HasQuorumMonotone DEF JointHasQuorum
  <2>9. \A n \in 0..MaxIndex : JointHasQuorum(config', {id \in Node : match'[id] >= n}) <=> n <= Committed'
    BY <2>2 DEF Ackers
  <2>10. C <= Committed'
    <3> HIDE DEF C
    <3> QED  BY <2>1, <2>3, <2>8, <2>9 DEF N, C
  <2> QED  BY <2>1, <2>2, <2>5, <2>10
<1> QED  BY <1>1, TypeInvariant, PTL DEF Spec, CommittedMonotonic

-----------------------------------------------------------------------------
(* Inflights *)

\* The inductive invariant of the ring: the window is in memory and sorted, nothing failed.
IInv == InflightsTypeOK /\ WindowInBuffer /\ WindowSorted /\ NoPanic

USE SizeAssumption, LastIndexAssumption

\* Slots of the window are in range, in memory and pairwise different.
LEMMA SlotsInMemory ==
    ASSUME IInv
    PROVE  /\ \A n \in 0..Size : n < Size => Slot(n) \in 0..(Size - 1)
           /\ \A n \in 0..(count - 1) : Slot(n) + 1 \in 1..Len(buffer)
           /\ \A m, n \in 0..(Size - 1) : m # n => Slot(m) # Slot(n)
           /\ \A n \in 0..(count - 1) : Inflight(n) \in 0..LastIndex
BY DEF IInv, InflightsTypeOK, WindowInBuffer, Slot, Inflight

\* Add puts its index behind the window and moves nothing else in it.
LEMMA AddEffect ==
    ASSUME IInv, NEW i \in Index, MayAdd(i), Add(i)
    PROVE  /\ InflightsTypeOK' /\ WindowInBuffer'
           /\ count < Size /\ count' = count + 1 /\ panicked' = panicked
           /\ \A n \in 0..(count - 1) : Inflight(n)' = Inflight(n)
           /\ \A n : n = count => Inflight(n)' = i
<1> DEFINE next == Slot(count)
           buf  == IF next >= Len(buffer) THEN Grown ELSE buffer
<1>1. count \in 0..(Size - 1) /\ next \in 0..(Size - 1)
  BY SlotsInMemory DEF MayAdd, Full, IInv, InflightsTypeOK
<1>2. Len(buffer) \in Nat
  BY DEF IInv, InflightsTypeOK
<1>3. next >= Len(buffer) => next = Len(buffer) /\ start + count = Len(buffer)
  BY <1>1, <1>2 DEF IInv, InflightsTypeOK, WindowInBuffer, Slot
<1>4. GrownLen \in Nat /\ GrownLen <= Size /\ (next >= Len(buffer) => next < GrownLen)
  BY <1>1, <1>2, <1>3 DEF GrownLen, Min2, IInv, InflightsTypeOK
<1>a. GrownLen \in Nat => Grown \in Seq(0..LastIndex) /\ Len(Grown) = GrownLen
  <2>1. \A n \in 1..GrownLen : (IF n <= Len(buffer) THEN buffer[n] ELSE 0) \in 0..LastIndex
    BY <1>2 DEF IInv, InflightsTypeOK
  <2> QED BY <2>1, SMT DEF Grown
<1>5. buf \in Seq(0..LastIndex) /\ Len(buf) <= Size /\ next < Len(buf) /\ Len(buf) >= Len(buffer)
  BY <1>1, <1>2, <1>3, <1>4, <1>a DEF IInv, InflightsTypeOK
<1>6. \A n \in 1..Len(buffer) : buf[n] = buffer[n]
  BY <1>2, <1>3, <1>4 DEF Grown, IInv, InflightsTypeOK
<1>7. /\ buffer' = [buf EXCEPT ![next + 1] = i]
      /\ count' = count + 1
      /\ start' = start
      /\ panicked' = panicked
  BY <1>5 DEF Add, MayAdd
<1>8. InflightsTypeOK'
  BY <1>1, <1>5, <1>7 DEF IInv, InflightsTypeOK, Index
<1>9. WindowInBuffer'
  BY <1>1, <1>2, <1>3, <1>4, <1>5, <1>7 DEF IInv, InflightsTypeOK, WindowInBuffer, Slot
<1>10. \A n \in 0..(count - 1) : Inflight(n)' = Inflight(n)
  <2> TAKE n \in 0..(count - 1)
  <2>1. Slot(n)' = Slot(n)
    BY <1>7 DEF Slot
  <2>2. Slot(n) + 1 \in 1..Len(buffer) /\ Slot(n) + 1 # next + 1
    <3>1. n \in 0..(Size - 1) /\ n < Size /\ n # count
      BY <1>1
    <3>2. Slot(n) # Slot(count) /\ Slot(n) \in Nat /\ Slot(count) \in Nat
      BY <1>1, <3>1, SlotsInMemory
    <3> QED BY <3>2, SlotsInMemory
  <2>3. Slot(n) + 1 \in 1..Len(buf)
    BY <1>2, <1>5, <2>2
  <2>4. buffer'[Slot(n) + 1] = buf[Slot(n) + 1]
    <3> HIDE DEF buf, next
    <3> QED BY <1>5, <1>7, <2>2, <2>3
  <2> QED BY <1>6, <2>1, <2>2, <2>4 DEF Inflight
<1>11. ASSUME NEW n, n = count PROVE Inflight(n)' = i
  <2>1. Slot(n)' = next
    BY <1>7, <1>11 DEF Slot
  <2>2. buffer'[next + 1] = i
    <3> HIDE DEF buf, next
    <3> QED BY <1>1, <1>5, <1>7
  <2> QED BY <2>1, <2>2 DEF Inflight
<1> QED BY <1>1, <1>7, <1>8, <1>9, <1>10, <1>11

\* FreeLE shifts the window by the number of messages it frees.
LEMMA FreeLEEffect ==
    ASSUME IInv, NEW to \in 0..LastIndex, FreeLE(to)
    PROVE  \E k \in 0..count :
               /\ FreesExactly(k, to)
               /\ count' = count - k /\ panicked' = panicked
               /\ InflightsTypeOK' /\ WindowInBuffer'
               /\ \A n \in 0..(count' - 1) : Inflight(n)' = Inflight(n + k)
<1>1. PICK k \in 0..count :
          /\ FreesExactly(k, to)
          /\ count' = count - k
          /\ start' = IF count = 0 THEN start
                      ELSE IF k = count THEN 0 ELSE Slot(k)
          /\ UNCHANGED <<buffer, panicked>>
  BY DEF FreeLE
<1>2. InflightsTypeOK'
  <2>1. count' \in 0..Size /\ start' \in 0..(Size - 1)
    BY <1>1 DEF IInv, InflightsTypeOK, Slot
  <2> QED BY <1>1, <2>1 DEF IInv, InflightsTypeOK
<1>3. WindowInBuffer'
  BY <1>1 DEF IInv, InflightsTypeOK, WindowInBuffer, Slot
<1>4. \A n \in 0..(count' - 1) : Inflight(n)' = Inflight(n + k)
  BY <1>1 DEF IInv, InflightsTypeOK, Inflight, Slot
<1> QED BY <1>1, <1>2, <1>3, <1>4

\* On a full window FreeFirstOne is FreeLE of the oldest index.
LEMMA FreeFirstOneIsFreeLE ==
    ASSUME IInv, Full, FreeFirstOne
    PROVE  Inflight(0) \in 0..LastIndex /\ FreeLE(Inflight(0))
<1>1. start + 1 \in 1..Len(buffer) /\ Slot(0) = start
  BY DEF Full, IInv, InflightsTypeOK, WindowInBuffer, Slot
<1>2. start < Len(buffer) /\ Inflight(0) = buffer[start + 1]
  BY <1>1 DEF IInv, InflightsTypeOK, Inflight
<1>3. Inflight(0) \in 0..LastIndex
  BY <1>1, <1>2 DEF IInv, InflightsTypeOK
<1> QED BY <1>2, <1>3 DEF FreeFirstOne

\* Every step of the ring's methods keeps the invariant.
LEMMA NextKeepsIInv == IInv /\ [InflightsNext]_inflights => IInv'
<1> SUFFICES ASSUME IInv, [InflightsNext]_inflights PROVE IInv'
    OBVIOUS
<1>1. ASSUME NEW i \in Index, MayAdd(i), Add(i) PROVE IInv'
  <2>1. \A n \in 0..(count - 1) : Inflight(n) < i
    BY <1>1 DEF MayAdd
  <2>2. count' - 1 = count /\ count \in Nat
    BY <1>1, AddEffect DEF IInv, InflightsTypeOK
  <2>3. WindowSorted'
    <3> SUFFICES ASSUME NEW m \in 0..count, NEW n \in 0..count, m < n
                 PROVE  Inflight(m)' < Inflight(n)'
      BY <2>2 DEF WindowSorted
    <3>3. m \in 0..(count - 1) /\ Inflight(m)' = Inflight(m)
      BY <1>1, <2>2, AddEffect
    <3>4. CASE n = count
      BY <1>1, <2>1, <3>3, <3>4, AddEffect
    <3>5. CASE n # count
      <4>1. n \in 0..(count - 1) /\ Inflight(n)' = Inflight(n)
        BY <1>1, <2>2, <3>5, AddEffect
      <4> QED BY <3>3, <4>1 DEF IInv, WindowSorted
    <3> QED BY <3>4, <3>5
  <2> QED BY <1>1, <2>3, AddEffect DEF IInv, NoPanic
<1>2. ASSUME NEW to \in 0..LastIndex, FreeLE(to) PROVE IInv'
  <2>1. PICK k \in 0..count :
            /\ count' = count - k /\ panicked' = panicked
            /\ InflightsTypeOK' /\ WindowInBuffer'
            /\ \A n \in 0..(count' - 1) : Inflight(n)' = Inflight(n + k)
    BY <1>2, FreeLEEffect
  <2>2. WindowSorted'
    BY <2>1 DEF IInv, InflightsTypeOK, WindowSorted
  <2> QED BY <2>1, <2>2 DEF IInv, NoPanic
<1>3. ASSUME Full, FreeFirstOne PROVE IInv'
  BY <1>2, <1>3, FreeFirstOneIsFreeLE
<1>4. ASSUME Reset PROVE IInv'
  BY <1>4 DEF Reset, IInv, InflightsTypeOK, WindowInBuffer, WindowSorted, NoPanic
<1>5. CASE UNCHANGED inflights
  BY <1>5 DEF inflights, IInv, InflightsTypeOK, WindowInBuffer, WindowSorted, NoPanic, Inflight, Slot
<1> QED BY <1>1, <1>2, <1>3, <1>4, <1>5 DEF InflightsNext

\* A window as NewInflights makes it satisfies the invariant.
LEMMA InitIInv == NewInflights => IInv
<1> SUFFICES ASSUME NewInflights PROVE IInv
    OBVIOUS
<1>1. InflightsTypeOK /\ NoPanic
  <2>1. buffer \in Seq(0..LastIndex) /\ Len(buffer) <= Size
    BY DEF NewInflights
  <2>2. start \in 0..(Size - 1) /\ count \in 0..Size
    BY DEF NewInflights
  <2>3. panicked \in BOOLEAN /\ ~panicked
    BY DEF NewInflights
  <2> QED BY <2>1, <2>2, <2>3 DEF InflightsTypeOK, NoPanic
<1>2. WindowInBuffer /\ WindowSorted
  BY DEF NewInflights, WindowInBuffer, WindowSorted
<1> QED BY <1>1, <1>2 DEF IInv

\* For every capacity: no method the leader calls reads or writes outside of the
\* slice, although slots wrap at a capacity the slice may not have reached.
THEOREM InflightsSafe == InflightsSpec => [](InflightsTypeOK /\ WindowInBuffer /\ NoPanic)
<1>1. IInv => InflightsTypeOK /\ WindowInBuffer /\ NoPanic
    BY DEF IInv
<1> QED BY InitIInv, NextKeepsIInv, <1>1, PTL DEF InflightsSpec

\* Append, element by element.
LEMMA AppendAsFunction ==
    ASSUME NEW S, NEW s \in Seq(S), NEW e \in S
    PROVE  Append(s, e) = [n \in 1..(Len(s) + 1) |-> IF n = Len(s) + 1 THEN e ELSE s[n]]
<1> DEFINE f == [n \in 1..(Len(s) + 1) |-> IF n = Len(s) + 1 THEN e ELSE s[n]]
<1>1. f \in Seq(S) /\ Len(f) = Len(s) + 1
  OBVIOUS
<1>2. /\ Append(s, e) \in Seq(S) /\ Len(Append(s, e)) = Len(s) + 1
      /\ \A n \in 1..Len(s) : Append(s, e)[n] = s[n]
      /\ Append(s, e)[Len(s) + 1] = e
  BY AppendProperties
<1>3. \A n \in 1..(Len(s) + 1) : Append(s, e)[n] = f[n]
  BY <1>2
<1> HIDE DEF f
<1>4. Append(s, e) = f
  BY <1>1, <1>2, <1>3, SeqEqual
<1> QED BY <1>4 DEF f

\* The window of a state in which the invariant holds is a sequence of indexes.
LEMMA WindowIsSeq ==
    ASSUME IInv
    PROVE  /\ Window \in Seq(0..LastIndex) /\ Len(Window) = count
           /\ \A n \in 1..count : Window[n] = Inflight(n - 1)
<1>1. \A n \in 1..count : n - 1 \in 0..(count - 1)
  BY DEF IInv, InflightsTypeOK
<1>2. \A n \in 1..count : Inflight(n - 1) \in 0..LastIndex
  BY <1>1, SlotsInMemory
<1> QED BY <1>2 DEF Window, IInv, InflightsTypeOK

\* The ring implements the bounded FIFO of InflightsQueue, for every capacity:
\* an ack frees exactly the messages it covers, whatever the ring's layout.
THEOREM InflightsImplementsQueue == InflightsSpec => ImplementsQueue
<1>1. NewInflights => Queue!Init
  BY DEF NewInflights, Queue!Init, Window
<1>2. IInv /\ IInv' /\ [InflightsNext]_inflights => [Queue!Next]_Window
  <2> SUFFICES ASSUME IInv, IInv', [InflightsNext]_inflights PROVE [Queue!Next]_Window
      OBVIOUS
  <2> USE DEF Queue!Index, Index
  <2>w. /\ Window \in Seq(0..LastIndex) /\ Len(Window) = count
        /\ \A n \in 1..count : Window[n] = Inflight(n - 1)
    BY WindowIsSeq
  <2>p. Window' = [n \in 1..count' |-> Inflight(n - 1)']
    BY DEF Window
  <2>c. count \in 0..Size /\ count' \in 0..Size
    BY DEF IInv, InflightsTypeOK
  <2>1. ASSUME NEW i \in Index, MayAdd(i), Add(i) PROVE Queue!Add(i)
    <3>1. \A j \in 1..Len(Window) : Window[j] < i
      <4> TAKE j \in 1..Len(Window)
      <4>1. j - 1 \in 0..(count - 1)
        BY <2>w, <2>c
      <4> QED BY <2>1, <2>w, <4>1 DEF MayAdd
    <3>2. Len(Window) < Size /\ count' = count + 1
      BY <2>1, <2>w, AddEffect
    <3>3. ASSUME NEW n \in 1..(count + 1)
          PROVE  Inflight(n - 1)' = IF n = count + 1 THEN i ELSE Window[n]
      <4>1. CASE n = count + 1
        BY <2>1, <2>c, <4>1, AddEffect
      <4>2. CASE n # count + 1
        <5>1. n - 1 \in 0..(count - 1) /\ n \in 1..count
          BY <2>c, <4>2
        <5> QED BY <2>1, <2>w, <4>2, <5>1, AddEffect
      <4> QED BY <4>1, <4>2
    <3>4. Window' = [n \in 1..(count + 1) |-> IF n = count + 1 THEN i ELSE Window[n]]
      BY <2>p, <3>2, <3>3
    <3>5. Window' = Append(Window, i)
      <4>1. i \in 0..LastIndex
        OBVIOUS
      <4>2. Append(Window, i)
              = [n \in 1..(Len(Window) + 1) |-> IF n = Len(Window) + 1 THEN i ELSE Window[n]]
        <5>1. Window \in Seq(0..LastIndex)
          BY <2>w
        <5> QED BY <4>1, <5>1, AppendAsFunction
      <4> QED BY <2>w, <3>4, <4>2
    <3> QED BY <3>1, <3>2, <3>5 DEF Queue!Add
  <2>2. ASSUME NEW to \in 0..LastIndex, FreeLE(to)
        PROVE  \E k \in 0..count :
                   /\ FreesExactly(k, to)
                   /\ Window' = SubSeq(Window, k + 1, count)
    <3>1. PICK k \in 0..count :
              /\ FreesExactly(k, to) /\ count' = count - k
              /\ \A n \in 0..(count' - 1) : Inflight(n)' = Inflight(n + k)
      BY <2>2, FreeLEEffect
    <3>2. SubSeq(Window, k + 1, count) = [n \in 1..(count - k) |-> Window[n + k]]
      BY <2>w, <2>c
    <3>3. ASSUME NEW n \in 1..(count - k) PROVE Inflight(n - 1)' = Window[n + k]
      <4>1. n - 1 \in 0..(count' - 1) /\ n + k \in 1..count /\ (n - 1) + k = (n + k) - 1
        BY <2>c, <3>1
      <4> QED BY <2>w, <3>1, <4>1
    <3> QED BY <2>p, <3>1, <3>2, <3>3
  <2>3. ASSUME NEW to \in 0..LastIndex, FreeLE(to) PROVE Queue!FreeLE(to)
    <3>1. PICK k \in 0..count : FreesExactly(k, to) /\ Window' = SubSeq(Window, k + 1, count)
      BY <2>2, <2>3
    <3>2. \A j \in 1..k : Window[j] <= to
      <4> TAKE j \in 1..k
      <4>1. j - 1 \in 0..(k - 1) /\ j \in 1..count
        BY <2>c
      <4> QED BY <2>w, <3>1, <4>1 DEF FreesExactly
    <3>3. ASSUME NEW j \in (k + 1)..count PROVE Window[j] > to
      <4>1. /\ j \in 1..count /\ j - 1 \in 0..(count - 1) /\ k \in 0..(count - 1)
            /\ k < count /\ (k = j - 1 \/ k < j - 1)
        BY <2>c
      <4>2. to < Inflight(k) /\ Inflight(k) \in 0..LastIndex /\ Inflight(j - 1) \in 0..LastIndex
        BY <3>1, <4>1, SlotsInMemory DEF FreesExactly
      <4>3. k < j - 1 => Inflight(k) < Inflight(j - 1)
        BY <4>1 DEF IInv, WindowSorted
      <4>4. Window[j] = Inflight(j - 1)
        BY <2>w, <4>1
      <4>5. CASE k = j - 1
        BY <4>2, <4>4, <4>5
      <4>6. CASE k < j - 1
        BY <4>2, <4>3, <4>4, <4>6
      <4> QED BY <4>1, <4>5, <4>6
    <3> QED BY <2>w, <3>1, <3>2, <3>3 DEF Queue!FreeLE
  <2>4. ASSUME Full, FreeFirstOne PROVE Queue!FreeFirstOne
    <3>1. Inflight(0) \in 0..LastIndex /\ FreeLE(Inflight(0))
      BY <2>4, FreeFirstOneIsFreeLE
    <3>2. PICK k \in 0..count :
              FreesExactly(k, Inflight(0)) /\ Window' = SubSeq(Window, k + 1, count)
      BY <2>2, <3>1
    <3>3. count = Size /\ 0 < count
      BY <2>4, <2>c DEF Full
    <3>4. k # 0
      BY <3>1, <3>2, <3>3 DEF FreesExactly
    <3>5. k <= 1
      <4> SUFFICES ASSUME k > 1 PROVE FALSE
        OBVIOUS
      <4>1. 1 \in 0..(k - 1) /\ 0 \in 0..(count - 1) /\ 1 \in 0..(count - 1)
        BY <2>c
      <4>2. Inflight(1) <= Inflight(0) /\ Inflight(0) < Inflight(1)
        BY <3>2, <4>1 DEF FreesExactly, IInv, WindowSorted
      <4>3. Inflight(1) \in 0..LastIndex /\ Inflight(0) \in 0..LastIndex
        BY <4>1, SlotsInMemory
      <4> QED BY <4>2, <4>3
    <3>6. k = 1
      BY <2>c, <3>4, <3>5
    <3>7. Tail(Window) = SubSeq(Window, 2, count)
      BY <2>w, <2>c, <3>3
    <3>8. Window' = SubSeq(Window, 2, count)
      BY <3>2, <3>6
    <3> QED BY <2>w, <3>3, <3>7, <3>8 DEF Queue!FreeFirstOne
  <2>5. ASSUME Reset PROVE Queue!Reset
    <3>1. count' = 0
      BY <2>5 DEF Reset
    <3> QED BY <2>p, <3>1 DEF Queue!Reset
  <2>6. CASE UNCHANGED inflights
    BY <2>6 DEF inflights, Window, Inflight, Slot
  <2> QED BY <2>1, <2>3, <2>4, <2>5, <2>6 DEF InflightsNext, Queue!Next
<1> QED BY <1>1, <1>2, InitIInv, NextKeepsIInv, PTL DEF InflightsSpec, ImplementsQueue, Queue!Spec
=============================================================================
