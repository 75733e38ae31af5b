SPECIFICATION Spec
CONSTANTS
    Prompts = {"r1", "r2"}
    MaxProcs = 2
    MaxTokens = 1
    MaxCancels = 1
    InRoom = 1
    OutRoom = 1
    MaxSidecars = 3
    MaxRestarts = 2
    Sessions = {"s1", "s2"}
    Roots = {"A", "B"}
    Actions <- MCActions
    MaxIssued = 3
    MaxActs = 2
    MaxValues = 2
    MaxRecords = 5
    LogLimit = 2
INVARIANTS
    ExactArguments
CHECK_DEADLOCK FALSE
