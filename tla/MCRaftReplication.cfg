SPECIFICATION Spec
CONSTANTS
    s1 = s1
    s2 = s2
    s3 = s3
    Server = {s1, s2, s3}
    None = None
    MaxInflight = 2
    Scenarios <- Replications
INVARIANTS
    TypeOK
    NoPanic
    MatchDurable
    
    InflightsContract
    AppAnchored
PROPERTIES
    HardStateMonotonic
CHECK_DEADLOCK FALSE
