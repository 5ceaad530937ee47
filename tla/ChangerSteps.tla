----------------------------- MODULE ChangerSteps -----------------------------
(***************************************************************************)
(* A tracker that goes through configuration changes one after the other,  *)
(* as every server of a group does.  A refused change leaves it as it is.  *)
(***************************************************************************)
EXTENDS Changer

CONSTANTS
    Node,           \* ids, positive numbers
    Bootstrap,      \* voters to begin with
    ConfChanges     \* the changes that are tried

ASSUME NodeAssumption ==
    /\ Node \subseteq Nat \ {0} /\ IsFiniteSet(Node)
    /\ Bootstrap \subseteq Node /\ Bootstrap # {}

ASSUME ConfChangesAssumption ==
    ConfChanges \subseteq
        [transition : {"Auto", "JointImplicit", "JointExplicit"},
         changes : Seq([type : {"AddNode", "AddLearner", "Remove", "Update"}, id : Node \cup {0}])]

VARIABLES
    tracker,    \* configuration and tracked ids
    outcome     \* why the last change was refused, "nil" if it was not

vars == <<tracker, outcome>>

\* Bootstrap adds the first voters one by one.
Init == /\ tracker = SimpleChain(EmptyTracker, ToChanges("AddNode", Bootstrap))
        /\ outcome = "nil"

Change(cc) ==
    LET t == ApplyConfChange(tracker, cc)
    IN  /\ outcome' = t.err
        /\ tracker' = IF t.err = "nil" THEN t ELSE tracker

Next == \E cc \in ConfChanges : Change(cc)

Spec == Init /\ [][Next]_vars

-----------------------------------------------------------------------------

\* No sequence of changes leads to a configuration that checkInvariants turns down:
\* voters and learners stay apart through demotions and promotions in joint
\* configurations (confchange.go:206-230, 278-334).
NeverInconsistent == outcome # "inconsistent"

\* A server that restores the ConfState of a snapshot gets the configuration it was
\* taken of, joint or not, with progress for exactly its members, who are all that entries
\* are sent to (restore.go:26-97, 119-155, confchange.go:111-118, 242-245).
RestoreRoundTrip == RestoreConf(ConfState(tracker)) = tracker

\* A quorum before a change and one after it have a voter in common, whatever the
\* change (confchange.go:142-144, 64-69, 119).
QuorumsOverlap ==
    [][\A Q1 \in SUBSET IDs(tracker.voters), Q2 \in SUBSET IDs(tracker'.voters) :
          JointHasQuorum(tracker.voters, Q1) /\ JointHasQuorum(tracker'.voters, Q2)
             => Q1 \cap Q2 # {}]_vars
=============================================================================
