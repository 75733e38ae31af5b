SPECIFICATION StoresSpec
CONSTANTS
  Single = single
  Bundle <- MCBundle
  Requested <- MCRequested
  ShardRequests <- MCShards
  Size = 2
  Versions = 2
  Attempts = 2
  Absent = Absent
  NoMarker = NoMarker
  shard1 = shard1
  shard2 = shard2
  t1 = t1
  t2 = t2
  Tensors = {t1, t2}
  MaxWriters = 2
  MaxConversions = 2
  Tokens = {1, 2}
  Contexts = {4}
  Layouts = {2}
  Reserve = 2
  Faults = {"truncate", "append"}
  Requests = {r1, r2}
  Vals = {a}
  Zero = Zero
  TotalBlocks = 2
  BlockSize = 2
  Layers = 2
  MinCapacity = 1
  MaxTokens = 4
INVARIANTS ResumeCoherent BlocksAccounted KernelsAgree
PROPERTIES LibraryIsWhole JobsEnd DiskIsMemory ImplementsRows
