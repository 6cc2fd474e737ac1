CONSTANTS
  None = None
  Writers = {w1}
  Readers = {r1}
  Closers = {c1}
  Calls = {"Put", "StreamPut", "Get", "Rotate", "Close"}
  Faults = {"write", "rename", "open", "remove", "stream", "fn"}
  KillAt = {}
  Lens = {1, 3}
  BufLens = {}
  BatchSize = 4
  Capacity = 0
  MaxDataSize = 0
  DropOld = TRUE
  NoPos = FALSE
  NoFallback = FALSE
  ForceDump = FALSE
  MaxCalls = 2
  MaxRestarts = 1
SPECIFICATION Spec
INVARIANTS Tidy
PROPERTIES NoOverwrite
CHECK_DEADLOCK FALSE
