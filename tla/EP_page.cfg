\* One document of two chunks, opened as a whole or not, with two fetches and two
\* messages under way; the user works in both modes and formats nothing while a chunk
\* is pending. The user may stop at any time.
CONSTANTS
  Chunks = 2
  Raw = Raw
  Norm = Norm
  Gone = Gone
  MaxEdits = 1
  MaxQueue = 2
  MaxFetches = 2
  Env = {"source", "reload"}
SPECIFICATION Spec
INVARIANTS TypeOK WholeDocument EditsReachHost
CHECK_DEADLOCK FALSE
