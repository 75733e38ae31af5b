SPECIFICATION StreamSpec
CONSTANTS
    w1 = w1
    w2 = w2
    e1 = e1
    e2 = e2
    Workers = {w1, w2}
    Setups <- MCSetups
    Experts = {e1, e2}
    LastLayer = 2
    Block = 2
    Straggling = FALSE
    Pinned <- MCPinned
    RingSize = 2
    LoadMax = 2
    TopK = 2
    CoupleDepth = 1
INVARIANTS RightExpert CacheTruthful
PROPERTIES ForwardEnds
