CONSTANTS
  None = None
  Writers = {w1}
  Readers = {r1}
  Closers = {c1}
  Calls = {"Put", "Get", "Close", "Kill"}
  Faults = {}
  KillAt = {"p_lock", "p_size", "p_hdr", "r_eof", "g_lock", "g_wake", "g_open", "g_retry",
            "g_hdr", "g_len", "g_data", "g_fn", "g_pos", "g_dump", "n_remove", "n_open", "c_wait"}
  Lens = {2}
  BufLens = {}
  BatchSize = 4
  Capacity = 0
  MaxDataSize = 0
  DropOld = TRUE
  NoPos = FALSE
  NoFallback = FALSE
  ForceDump = FALSE
  MaxCalls = 3
  MaxRestarts = 1
SPECIFICATION FairSpec
PROPERTIES Queue CallsReturn EventuallyDelivered
CHECK_DEADLOCK FALSE
