SPECIFICATION ProcessSpec
CONSTANTS
    Requests = {r1, r2}
    Streams = {r1}
    Models = {a, b}
    Started = a
    NoModel = NoModel
    Slots = {0}
    MaxQueue = 1
    MaxLoads = 1
    MaxPings = 1
    Replies <- MCReplies
    InForm <- MCInForm
    ParamTypes <- MCTypes
    Special <- MCSpecial
    Json <- MCJson
    MaxPiece = 4
    FreeLength = 4
INVARIANTS
    ChunkIndependent
    CallsAreClosed
    StreamedAsWhole
    Settled
    CacheFiled
    EndsWithDone
PROPERTIES
    EveryRequestEnds
CHECK_DEADLOCK FALSE
