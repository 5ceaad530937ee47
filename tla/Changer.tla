------------------------------- MODULE Changer -------------------------------
(***************************************************************************)
(* confchange: how a configuration change, given as a sequence of single   *)
(* changes, turns the configuration of a tracker into another one, or is   *)
(* refused; and how a configuration is rebuilt from a ConfState.           *)
(*                                                                         *)
(* A tracker is a record: voters is the joint pair of QuorumConfig, prs    *)
(* maps the ids whose progress is tracked to IsLearner.  Absent and empty  *)
(* maps are the same set. err is why an operation was refused, "nil" if it *)
(* was not.                                                                *)
(***************************************************************************)
EXTENDS Integers, Sequences, FiniteSets, QuorumConfig

EmptyTracker == [voters |-> <<{}, {}>>, learners |-> {}, learnersNext |-> {},
                 autoLeave |-> FALSE, prs |-> <<>>, err |-> "nil"]

Refused(why) == [EmptyTracker EXCEPT !.err = why]

Joint(t) == t.voters[2] # {}

Tracked(t) == DOMAIN t.prs

Without(f, id) == [x \in DOMAIN f \ {id} |-> f[x]]
With(f, id, b) == [x \in DOMAIN f \cup {id} |-> IF x = id THEN b ELSE f[x]]

\* checkInvariants
CheckInvariants(t) ==
    /\ IDs(t.voters) \cup t.learners \cup t.learnersNext \subseteq Tracked(t)
    /\ \A id \in t.learnersNext : id \in t.voters[2] /\ ~t.prs[id]
    /\ \A id \in t.learners : id \notin IDs(t.voters) /\ t.prs[id]
    /\ ~Joint(t) => t.learnersNext = {} /\ ~t.autoLeave

CheckAndReturn(t) == IF CheckInvariants(t) THEN t ELSE Refused("inconsistent")

-----------------------------------------------------------------------------
(* Single changes *)

InitProgress(t, id, isLearner) ==
    [t EXCEPT !.voters[1] = IF isLearner THEN @ ELSE @ \cup {id},
              !.learners = IF isLearner THEN @ \cup {id} ELSE @,
              !.prs = With(@, id, isLearner)]

MakeVoter(t, id) ==
    IF id \notin Tracked(t) THEN InitProgress(t, id, FALSE)
    ELSE [t EXCEPT !.prs[id] = FALSE,
                   !.learners = @ \ {id}, !.learnersNext = @ \ {id},
                   !.voters[1] = @ \cup {id}]

\* remove: the progress of a voter of the outgoing half is kept.
Remove(t, id) ==
    IF id \notin Tracked(t) THEN t
    ELSE [t EXCEPT !.voters[1] = @ \ {id},
                   !.learners = @ \ {id}, !.learnersNext = @ \ {id},
                   !.prs = IF id \in t.voters[2] THEN @ ELSE Without(@, id)]

\* Mutant: a voter of the outgoing half becomes a learner at once.
MutMakeLearner(t, id) ==
    IF id \notin Tracked(t) THEN InitProgress(t, id, TRUE)
    ELSE IF t.prs[id] THEN t
    ELSE LET t1 == [Remove(t, id) EXCEPT !.prs = With(@, id, FALSE)]
         IN  [t1 EXCEPT !.learners = @ \cup {id}, !.prs[id] = TRUE]

\* makeLearner: a voter of the outgoing half is only staged.
MakeLearner(t, id) ==
    IF id \notin Tracked(t) THEN InitProgress(t, id, TRUE)
    ELSE IF t.prs[id] THEN t
    ELSE LET t1 == [Remove(t, id) EXCEPT !.prs = With(@, id, FALSE)]
         IN  IF id \in t.voters[2] THEN [t1 EXCEPT !.learnersNext = @ \cup {id}]
             ELSE [t1 EXCEPT !.learners = @ \cup {id}, !.prs[id] = TRUE]

\* A change of id 0 was cancelled by the application.
ApplyOne(t, cc) ==
    CASE cc.id = 0 \/ cc.type = "Update" -> t
      [] cc.id # 0 /\ cc.type = "AddNode" -> MakeVoter(t, cc.id)
      [] cc.id # 0 /\ cc.type = "AddLearner" -> MakeLearner(t, cc.id)
      [] cc.id # 0 /\ cc.type = "Remove" -> Remove(t, cc.id)

\* apply, up to the check for a voter that is left
ApplyAll(t, ccs) ==
    LET upTo[n \in 0..Len(ccs)] == IF n = 0 THEN t ELSE ApplyOne(upTo[n - 1], ccs[n])
    IN  upTo[Len(ccs)]

-----------------------------------------------------------------------------
(* The operations of the Changer *)

\* Config.Clone in checkAndCopy does not copy AutoLeave.
CheckAndCopy(t) == CheckAndReturn([t EXCEPT !.autoLeave = FALSE])

SymDiff(a, b) == (a \ b) \cup (b \ a)

Simple(t, ccs) ==
    LET t0 == CheckAndCopy(t)
        t1 == ApplyAll(t0, ccs)
    IN  IF t0.err # "nil" THEN t0
        ELSE IF Joint(t) THEN Refused("joint")
        ELSE IF t1.voters[1] = {} THEN Refused("no voters")
        ELSE IF Cardinality(SymDiff(t.voters[1], t1.voters[1])) > 1 THEN Refused("too many")
        ELSE CheckAndReturn(t1)

\* Mutant: the outgoing half is copied after the changes.
MutEnterJointOrder(t, autoLeave, ccs) ==
    LET t1 == ApplyAll(CheckAndCopy(t), ccs)
    IN  IF Joint(t) THEN Refused("joint")
        ELSE IF t1.voters[1] = {} THEN Refused("no voters")
        ELSE CheckAndReturn([t1 EXCEPT !.voters[2] = t1.voters[1], !.autoLeave = autoLeave])

EnterJoint(t, autoLeave, ccs) ==
    LET t0 == CheckAndCopy(t)
        t1 == ApplyAll([t0 EXCEPT !.voters[2] = t.voters[1]], ccs)
    IN  IF t0.err # "nil" THEN t0
        ELSE IF Joint(t) THEN Refused("joint")
        ELSE IF t.voters[1] = {} \/ t1.voters[1] = {} THEN Refused("no voters")
        ELSE CheckAndReturn([t1 EXCEPT !.autoLeave = autoLeave])

LeaveJoint(t) ==
    LET t0       == CheckAndCopy(t)
        learners == t.learners \cup t.learnersNext
    IN  IF t0.err # "nil" THEN t0
        ELSE IF ~Joint(t) THEN Refused("not joint")
        ELSE CheckAndReturn(
            [t EXCEPT !.learners = learners, !.learnersNext = {},
                      !.voters = <<t.voters[1], {}>>, !.autoLeave = FALSE,
                      !.prs = [id \in {x \in Tracked(t) : x \in t.voters[2] => x \in t.voters[1] \cup learners}
                                 |-> t.prs[id] \/ id \in t.learnersNext]])

\* ConfChangeV2: no changes and no explicit transition is the request to leave.
LeavesJoint(cc) == cc.changes = <<>> /\ cc.transition = "Auto"
EntersJoint(cc) == cc.transition # "Auto" \/ Len(cc.changes) > 1

\* applyConfChange, up to switchToConfig; a refusal is a panic there.
ApplyConfChange(t, cc) ==
    IF LeavesJoint(cc) THEN LeaveJoint(t)
    ELSE IF EntersJoint(cc) THEN EnterJoint(t, cc.transition # "JointExplicit", cc.changes)
    ELSE Simple(t, cc.changes)

-----------------------------------------------------------------------------
(* Restore *)

ConfState(t) == [voters |-> t.voters[1], votersOutgoing |-> t.voters[2],
                 learners |-> t.learners, learnersNext |-> t.learnersNext,
                 autoLeave |-> t.autoLeave]

\* The ids of a ConfState in the order of its sorted slices, as single changes.
ToChanges(type, ids) ==
    LET sorted[S \in SUBSET ids] ==
            IF S = {} THEN <<>>
            ELSE LET id == CHOOSE x \in S : \A y \in S : x <= y
                 IN  <<[type |-> type, id |-> id]>> \o sorted[S \ {id}]
    IN  sorted[ids]

\* Mutant: the voters of the outgoing half stay voters of the incoming one.
MutIncomingChanges(cs) ==
    ToChanges("AddNode", cs.voters)
      \o ToChanges("AddLearner", cs.learners) \o ToChanges("AddLearner", cs.learnersNext)

\* toConfChangeSingle: what leads from the outgoing voters to the ConfState
IncomingChanges(cs) ==
    ToChanges("Remove", cs.votersOutgoing) \o ToChanges("AddNode", cs.voters)
      \o ToChanges("AddLearner", cs.learners) \o ToChanges("AddLearner", cs.learnersNext)

\* chain of Simple, one change at a time
SimpleChain(t, ccs) ==
    LET upTo[n \in 0..Len(ccs)] ==
            IF n = 0 THEN t
            ELSE IF upTo[n - 1].err # "nil" THEN upTo[n - 1]
            ELSE Simple(upTo[n - 1], <<ccs[n]>>)
    IN  upTo[Len(ccs)]

\* Restore, from an empty tracker
RestoreConf(cs) ==
    IF cs.votersOutgoing = {} THEN SimpleChain(EmptyTracker, IncomingChanges(cs))
    ELSE LET t == SimpleChain(EmptyTracker, ToChanges("AddNode", cs.votersOutgoing))
         IN  IF t.err # "nil" THEN t ELSE EnterJoint(t, cs.autoLeave, IncomingChanges(cs))
=============================================================================
