\* The source mode entered while a chunk is on its way.
CONSTANTS
  Chunks = 2
  Raw = Raw
  Norm = Norm
  Gone = Gone
  MaxEdits = 1
  MaxQueue = 2
  MaxFetches = 1
  Env = {"source"}
SPECIFICATION Spec
INVARIANT NoEditLost
CHECK_DEADLOCK FALSE
