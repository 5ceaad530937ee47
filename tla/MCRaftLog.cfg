CONSTANTS
  MaxTerm = 3
  MaxIndex = 4
  MaxMsgEnts = 2
  MaxNextEnts = 1
  MaxCrashes = 1
  Groups <- AllGroups
SPECIFICATION FairSpec
INVARIANTS NoPanic AppliesCommitted
PROPERTIES ImplementsLogicalLog CommittedApplied
CHECK_DEADLOCK FALSE
