\* Servers of terms 1 to 3 meet again after a partition.
SPECIFICATION RejoinSpec
CONSTANTS
    s1 = s1
    s2 = s2
    s3 = s3
    Server = {s1, s2, s3}
    None = None
    L = s1
    LastTerms = {1, 2, 3}
    MaxInflight = 2
    Scenarios <- Rejoining
PROPERTIES LeaderFollowed
CHECK_DEADLOCK FALSE
