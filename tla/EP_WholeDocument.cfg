\* Commands given while a chunk is pending.
CONSTANTS
  Chunks = 2
  Raw = Raw
  Norm = Norm
  Gone = Gone
  MaxEdits = 1
  MaxQueue = 2
  MaxFetches = 1
  Env = {"eager"}
SPECIFICATION Spec
INVARIANT WholeDocument
CHECK_DEADLOCK FALSE
