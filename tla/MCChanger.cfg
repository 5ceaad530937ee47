CONSTANTS
  Node = {1, 2, 3, 4}
  Bootstrap = {1, 2, 3}
  ConfChanges <- AllChanges
SPECIFICATION Spec
INVARIANTS NeverInconsistent RestoreRoundTrip
PROPERTY QuorumsOverlap
