\* Beside the runs: two edits, or an edit and a reload, with one fetch and one message
\* under way. The user may stop at any time.
CONSTANTS
  Chunks = 2
  Raw = Raw
  Norm = Norm
  Gone = Gone
  MaxEdits = 2
  MaxQueue = 1
  MaxFetches = 1
  Env = {"source", "reload"}
SPECIFICATION Spec
INVARIANTS WholeDocument EditsReachHost
CHECK_DEADLOCK FALSE
