SPECIFICATION Spec
CONSTANTS
    Slots = {0, 1}
    Tokens = {1, 2, 3, 4}
    Stops = {4}
    Support <- MCSupport
    Bytes <- MCBytes
    Grammars <- MCGrammars
    gr_state_init <- WalkerStart
    gr_refuses <- Refuses
    gr_accept <- After
    gr_forced <- Forced
    Prompts <- MCPrompts
    Asks = {2, 4}
    Ctx = 8
    NGen = 3
    Draft = 1
    Forces = 3
    Margin = 2
    MaxTurns = 2
    MaxStacks = 64
    MaxDepth = 64
    Horizon = 10
    Completion = 4
INVARIANTS
    OutputFollowsTarget
    CachesFollowHistory
    AnswerIsKept
    WalkerKnowsLanguage
CHECK_DEADLOCK FALSE
