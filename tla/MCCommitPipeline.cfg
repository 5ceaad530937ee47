CONSTANTS
  w1 = w1
  w2 = w2
  w3 = w3
  Worker = {w1, w2, w3}
  None = None
  Wrap = 8
  FirstIndex = 7
  Scenarios <- Pipelines
SPECIFICATION FairSpec
INVARIANTS NoPanic VisibleApplied ReturnedVisible IngestSeesEarlier
PROPERTIES CommitsReturn
CHECK_DEADLOCK FALSE
