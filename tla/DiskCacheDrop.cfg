CONSTANTS
  None = None
  Writers = {w1}
  Readers = {r1}
  Closers = {}
  Calls = {"Put", "Get"}
  Faults = {"remove", "fn"}
  KillAt = {}
  Lens = {2, 6}
  BufLens = {1}
  BatchSize = 4
  Capacity = 5
  MaxDataSize = 0
  DropOld = TRUE
  NoPos = FALSE
  NoFallback = TRUE
  ForceDump = FALSE
  MaxCalls = 3
  MaxRestarts = 0
SPECIFICATION Spec
INVARIANTS InWriteOrder
