CONSTANTS
  None = None
  Writers = {w1}
  Readers = {r1, r2}
  Closers = {c1}
  Calls = {"Put", "Get", "Close"}
  Faults = {"rename", "fn"}
  KillAt = {}
  Lens = {1, 2, 3}
  BufLens = {}
  BatchSize = 4
  Capacity = 7
  MaxDataSize = 2
  DropOld = FALSE
  NoPos = FALSE
  NoFallback = FALSE
  ForceDump = TRUE
  MaxCalls = 3
  MaxRestarts = 1
SPECIFICATION Spec
INVARIANTS ExactlyOnce SizeExact SizeBounded Exclusion ClosedQuiet PosOnBoundary FilesComplete
SYMMETRY Symmetry
CHECK_DEADLOCK FALSE
