\* One handler at a time, seven messages: what a handler leaves behind when nothing
\* overlaps it. The messages run out, hence no check of deadlock.
CONSTANTS
  Path = {p, q}
  Discoverable = {p}
  Call = {c1}
  MaxId = 5
  MaxInputs = 7
  NoPath = NoPath
  None = None
  Env = {"reopen", "edges"}
SPECIFICATION Spec
INVARIANTS BoardReflects
CHECK_DEADLOCK FALSE
