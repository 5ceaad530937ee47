CONSTANTS
  Server = {1, 2, 3}
  None = 0
  MaxTerm = 2
  MayCampaign <- FirstThenSecond
  Scenarios <- Changes
SPECIFICATION Spec
INVARIANTS AppliedAlike CommittedAgree OnePendingChange JointLeft
CHECK_DEADLOCK FALSE
