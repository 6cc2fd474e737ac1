CONSTANTS
  None = None
  Workers = {w1, w2}
  Clients = {c1, c2, c3}
SPECIFICATION LiveSpec
INVARIANTS OneTaskAtATime NoWorkerLost ReleaseHasRoom
PROPERTY CloseFreesAll
CHECK_DEADLOCK FALSE
