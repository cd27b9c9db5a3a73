\* One edit or reload and what becomes of it. The user may stop at any time.
CONSTANTS
  Chunks = 2
  Raw = Raw
  Norm = Norm
  Gone = Gone
  MaxEdits = 1
  MaxQueue = 1
  MaxFetches = 1
  Env = {"source", "reload"}
SPECIFICATION FairSpec
PROPERTY EditsAreStored
CHECK_DEADLOCK FALSE
