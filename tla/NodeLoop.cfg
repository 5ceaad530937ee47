CONSTANTS
  Caller = {c1, c2}
  Leader = {l1}
  None = None
  MaxMsgs = 2
  MaxTicks = 1
SPECIFICATION FairSpec
INVARIANTS NoOutputLost AdvanceMatches
PROPERTIES StopReturns ProposalsReturn
CHECK_DEADLOCK FALSE
