SPECIFICATION Spec
CONSTANTS
  MaxCtx = 5
  QwnCtx = 3
  StderrRoom = 4
  Slots = {0, 1}
  NGen = 2
  Bos = 1
  Kinds = {"glm", "qwnrun"}
  MaxCalls = 2
  Requests <- SmallRequests
INVARIANTS OneAnswer SlotsFit
PROPERTIES DoneIsComplete EveryCallReturns
CHECK_DEADLOCK FALSE
