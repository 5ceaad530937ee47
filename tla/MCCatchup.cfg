\* A follower with any log is brought up to date over a transport that loses
\* messages; windows hold two messages of one entry.
SPECIFICATION CatchupSpec
CONSTANTS
    s1 = s1
    s2 = s2
    s3 = s3
    Server = {s1, s2, s3}
    L = s1
    F = s2
    None = None
    Histories <- Logs
    MaxInflight = 2
    Scenarios <- Catching
PROPERTIES CaughtUp
CHECK_DEADLOCK FALSE
