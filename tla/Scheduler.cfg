SPECIFICATION FairSpec
CONSTANTS
    Requests = {r1, r2, r3, r4}
    Capacity = 2
    MaxQueue = 2
    Pins = {0}
INVARIANTS
    SlotsAccounted
PROPERTIES
    ImplementsPromise
    Answered
CHECK_DEADLOCK FALSE
