\* Four messages or changes of others, two handlers at a time, two children of which the first scan skips
\* one. The messages run out, hence no check of deadlock.
CONSTANTS
  Path = {p, q}
  Discoverable = {p}
  Call = {c1, c2}
  MaxId = 2
  MaxInputs = 4
  NoPath = NoPath
  None = None
  Env = {"failure", "reopen", "external", "edges"}
SPECIFICATION Spec
SYMMETRY CallSymmetry
INVARIANTS TypeOK OneCardPerPath
CHECK_DEADLOCK FALSE
