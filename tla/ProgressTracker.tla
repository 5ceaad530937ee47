--------------------------- MODULE ProgressTracker ---------------------------
(***************************************************************************)
(* tracker.ProgressTracker as the leader and the candidate use it: votes   *)
(* are recorded and tallied, acknowledged indexes advance and are turned   *)
(* into a commit index.  Both decisions are taken over a joint             *)
(* configuration.                                                          *)
(***************************************************************************)
EXTENDS QuorumConfig

CONSTANTS Node,      \* ids that may be in a configuration
          MaxIndex   \* bound on the acknowledged indexes

ASSUME NodeAssumption == IsFiniteSet(Node)
ASSUME MaxIndexAssumption == MaxIndex \in Nat /\ MaxIndex < Unbounded

VARIABLES config,    \* Config.Voters: <<incoming, outgoing>>
          votes,     \* Votes; "missing" where the map has no entry
          match      \* Progress[id].Match

vars == <<config, votes, match>>

\* A tracker with a non-empty incoming half, before any vote or ack.
Init == /\ config \in ((SUBSET Node) \ {{}}) \X SUBSET Node
        /\ votes = [id \in Node |-> "missing"]
        /\ match = [id \in Node |-> 0]

\* RecordVote(id, v): only the first answer of a node is kept.
RecordVote(id, v) ==
    /\ votes[id] = "missing"
    /\ votes' = [votes EXCEPT ![id] = IF v THEN "yes" ELSE "no"]
    /\ UNCHANGED <<config, match>>

\* Progress.MaybeUpdate(n) for the follower id: an older ack changes nothing.
MaybeUpdate(id, n) ==
    /\ match[id] < n
    /\ match' = [match EXCEPT ![id] = n]
    /\ UNCHANGED <<config, votes>>

\* ResetVotes, at the start of every campaign.
ResetVotes ==
    /\ votes' = [id \in Node |-> "missing"]
    /\ UNCHANGED <<config, match>>

\* The result TallyVotes reports.
Tally == JointVoteResult(config, votes)

\* Committed(): what the voting members have acknowledged.
Committed == JointCommittedIndex(config, match)

Next == \/ \E id \in IDs(config), v \in BOOLEAN : RecordVote(id, v)
        \/ \E id \in IDs(config), n \in 1..MaxIndex : MaybeUpdate(id, n)
        \/ ResetVotes

Spec == Init /\ [][Next]_vars

-----------------------------------------------------------------------------

\* Every tally is a vote result and every commit index a log index: the infinity of
\* an empty half never gets out (joint.go:49-56).
TypeOK == /\ config \in ((SUBSET Node) \ {{}}) \X SUBSET Node
          /\ votes \in [Node -> Votes]
          /\ match \in [Node -> 0..MaxIndex]
          /\ Tally \in VoteResults
          /\ Committed \in 0..MaxIndex

Ackers(n) == {id \in Node : match[id] >= n}

\* Committed() is the largest index that a quorum of each half has acknowledged:
\* the sort of majority.go:165-171 neither skips nor overshoots a quorum.
CommittedIsLargestQuorumAck ==
    /\ JointHasQuorum(config, Ackers(Committed))
    /\ \A n \in (Committed + 1)..MaxIndex : ~JointHasQuorum(config, Ackers(n))

Said(v) == {id \in Node : votes[id] = v}

\* An election is won exactly when a joint quorum said yes, and lost exactly when
\* the voters that have not said no can no longer form one (majority.go:186-209).
TallyIsQuorumDecision ==
    /\ Tally = "VoteWon"  <=> JointHasQuorum(config, Said("yes"))
    /\ Tally = "VoteLost" <=> ~JointHasQuorum(config, Node \ Said("no"))

\* Within one campaign a decided election stays decided: stragglers, repeated or
\* contradicting answers never turn a win into a loss or back (tracker.go:258-263).
DecisionStable ==
    [][ Tally # "VotePending" => Tally' = Tally \/ ResetVotes ]_vars

\* The commit index the tracker computes never moves back, in whatever order the
\* acknowledgements arrive (progress.go:144-153).
CommittedMonotonic == [][Committed' >= Committed]_vars
=============================================================================
