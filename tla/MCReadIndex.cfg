CONSTANTS
  s1 = s1
  s2 = s2
  s3 = s3
  x1 = x1
  x2 = x2
  Server = {s1, s2, s3}
  None = None
  Request = {x1, x2}
  L = s1
  F = s2
  Scenarios <- Reads
SPECIFICATION FairSpec
INVARIANTS ReadsCurrent
PROPERTIES ReadsAnswered
CHECK_DEADLOCK FALSE
