\* Model values for MCProgressTracker.
\* Every joint configuration over four ids, even and odd halves, disjoint and
\* overlapping ones.
SPECIFICATION Spec
CONSTANTS
    Node = {n1, n2, n3, n4}
    MaxIndex = 2
SYMMETRY NodeSymmetry
INVARIANTS
    CommittedIsLargestQuorumAck
    TallyIsQuorumDecision
