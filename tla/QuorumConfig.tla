---------------------------- MODULE QuorumConfig ----------------------------
(***************************************************************************)
(* raft/quorum: majority and joint configurations.  A majority config is a *)
(* set of voters; a joint config is the pair <<incoming, outgoing>>, whose *)
(* second half is empty outside of a joint membership change.              *)
(***************************************************************************)
EXTENDS Integers, FiniteSets

\* Stands for math.MaxUint64: above every log index of a finite instance.
Unbounded == 1000000

\* len(c)/2 + 1: how many votes or acks decide.
Majority(c) == Cardinality(c) \div 2 + 1

\* Mutant: the median is taken, which is too high in a config of even size.
MutQuorumPos(c) == Cardinality(c) \div 2

\* n - (n/2 + 1): where the sorted acks hold the index a quorum has reached.
QuorumPos(c) == Cardinality(c) - Majority(c)

\* The entry at position `pos` (counted from 0) of the acks sorted upwards. A
\* voter that never reported has acked index 0.
SortedAck(c, acked, pos) ==
    CHOOSE v \in {acked[id] : id \in c} :
        /\ Cardinality({id \in c : acked[id] < v}) <= pos
        /\ pos < Cardinality({id \in c : acked[id] <= v})

\* MajorityConfig.CommittedIndex
CommittedIndex(c, acked) ==
    IF c = {} THEN Unbounded ELSE SortedAck(c, acked, QuorumPos(c))

\* votes[id] is "yes", "no" or "missing".
Votes == {"yes", "no", "missing"}
VoteResults == {"VoteWon", "VotePending", "VoteLost"}

\* Mutant: voters that have not answered are not counted as possible supporters.
MutVoteResult(c, votes) ==
    IF c = {} \/ Cardinality({id \in c : votes[id] = "yes"}) >= Majority(c) THEN "VoteWon"
    ELSE IF Cardinality({id \in c : votes[id] = "no"}) > 0 THEN "VoteLost"
    ELSE "VotePending"

\* MajorityConfig.VoteResult
VoteResult(c, votes) ==
    LET yes     == Cardinality({id \in c : votes[id] = "yes"})
        missing == Cardinality({id \in c : votes[id] = "missing"})
    IN  IF c = {} \/ yes >= Majority(c) THEN "VoteWon"
        ELSE IF yes + missing >= Majority(c) THEN "VotePending"
        ELSE "VoteLost"

\* JointConfig.IDs
IDs(joint) == joint[1] \cup joint[2]

\* JointConfig.CommittedIndex: the smaller of the two halves.
JointCommittedIndex(joint, acked) ==
    LET idx0 == CommittedIndex(joint[1], acked)
        idx1 == CommittedIndex(joint[2], acked)
    IN  IF idx0 < idx1 THEN idx0 ELSE idx1

\* JointConfig.VoteResult: both halves must be won, either one can be lost.
JointVoteResult(joint, votes) ==
    LET r1 == VoteResult(joint[1], votes)
        r2 == VoteResult(joint[2], votes)
    IN  IF r1 = r2 THEN r1
        ELSE IF "VoteLost" \in {r1, r2} THEN "VoteLost"
        ELSE "VotePending"

-----------------------------------------------------------------------------
(* What the two algorithms are meant to compute, said without counting. *)

\* S holds more than half of the voters of c; every set does when c is empty.
HasQuorum(c, S) == c = {} \/ 2 * Cardinality(S \cap c) > Cardinality(c)

JointHasQuorum(joint, S) == HasQuorum(joint[1], S) /\ HasQuorum(joint[2], S)
=============================================================================
