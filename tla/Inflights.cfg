\* A window of 5 slots: the buffer grows 0, 1, 2, 4, 5 and the ring wraps.
SPECIFICATION InflightsSpec
CONSTANTS
    Size = 5
    LastIndex = 7
INVARIANTS
    NoPanic
PROPERTY ImplementsQueue
