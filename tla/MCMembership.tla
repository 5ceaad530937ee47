---------------------------- MODULE MCMembership ----------------------------
(* Instances of Membership for TLC. *)
EXTENDS Membership

Change(transition, changes) == [transition |-> transition, changes |-> changes]
Rem(id)  == [type |-> "Remove", id |-> id]
Add(id)  == [type |-> "AddNode", id |-> id]
Demote(id) == [type |-> "AddLearner", id |-> id]

SwapChange == Change("Auto", <<Rem(2), Add(3)>>)
NoVoters == Change("Auto", <<Rem(1), Rem(2)>>)
NotLeaving == Change("JointExplicit", <<>>)
DemoteChange == Change("JointExplicit", <<Demote(2), Add(3)>>)

Changes ==
    {\* Two simple changes whose first and last configurations have disjoint quorums,
     \* and a third one, which removes the last voter.
     [Bootstrap |-> {1, 2, 3}, Page |-> 4, MayRestart |-> {}, MayApply |-> {1, 2},
      Proposals |-> <<{Change("Auto", <<Rem(3)>>)}, {Change("Auto", <<Rem(2)>>)},
                      {Change("Auto", <<Rem(2)>>), Change("Auto", <<Rem(1)>>)}>>],
     \* One voter takes the place of another one, jointly, or both are
     \* removed, which cannot be applied; what is proposed next is refused.
     [Bootstrap |-> {1, 2}, Page |-> 4, MayRestart |-> {}, MayApply |-> {1, 2},
      Proposals |-> <<{SwapChange, NoVoters}, {SwapChange}>>],
     \* A joint change with a demotion that is left on request, and the request,
     \* or one with the wrong transition, which cannot be applied; the leader applies
     \* entries one by one and may crash.
     [Bootstrap |-> {1, 2}, Page |-> 1, MayRestart |-> {1}, MayApply |-> {1, 2, 3},
      Proposals |-> <<{DemoteChange}, {Leave, DemoteChange}, {Leave, NotLeaving}>>]}

FirstThenSecond == <<{1}, {2}>>
=============================================================================
