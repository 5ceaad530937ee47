----------------------------- MODULE MCChanger -----------------------------
(* Instances of ChangerSteps for TLC. *)
EXTENDS ChangerSteps

Single(types, ids) == {<<[type |-> x, id |-> n]>> : x \in types, n \in ids}

Singles == Single({"AddNode", "AddLearner", "Remove"}, Node)

\* Up to two changes, the cancelled and the void ones, and the empty sequence.
Sequences2 == {<<>>} \cup Singles \cup Single({"Remove"}, {0}) \cup Single({"Update"}, Node)
                \cup {a \o b : a, b \in Singles}

AllChanges == [transition : {"Auto", "JointImplicit", "JointExplicit"}, changes : Sequences2]
=============================================================================
