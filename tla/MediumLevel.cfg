SPECIFICATION NativeSpec
CONSTANTS
  Sides = {"caches"}
  Decoder = Decoder
  Zero = Zero
  Requests <- MCRequests
  Vals <- MCRows
  TotalBlocks <- MCBlocks
  BlockSize = 2
  Layers = 3
  MinCapacity = 1
  MaxTokens = 7
  MaxContext = 5
  MaxRuns = 2
  LowLayers = 2
  Modes = {"fp16", "flat", "q8", "q8cuda", "q4", "paper"}
  ConvKernel = 3
  Files <- MCFiles
  Heads = 2
  HeadDim = 16
  Q8Group = 24
  SubChunks = 1
  MseBits = 3
  Channels <- MCChannels
  Vector <- MCVector
  Levels = {"low", "medium", "high"}
  Tokens = {0, 1, 2}
  Eos = 2
  Models = {"greedy", "endless", "sampling"}
  Sampled <- MCSampled
  NoRow = NoRow
  MaxCtx = 6
  Gammas = {1, 2, 3}
  Prompts <- MCPrompts
  Limits = {1, 3, 5}
  DeviceLayers = 2
  MaxResident = 5
  MaxForwards = 2
  Lane = 4
  PaddedK = 64
  MaxCalls = 2
  Matrices <- MCMatrices
  Inputs <- MCInputs
INVARIANT ConversationsIndependent
CHECK_DEADLOCK FALSE
