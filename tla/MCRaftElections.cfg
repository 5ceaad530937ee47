SPECIFICATION Spec
CONSTANTS
    s1 = s1
    s2 = s2
    s3 = s3
    Server = {s1, s2, s3}
    None = None
    MaxInflight = 1
    Scenarios <- Elections
INVARIANTS
    LogMatching
    CommittedAgree
    LeaderCompleteness
    ElectionSafety
    VotesDurable
CHECK_DEADLOCK FALSE
