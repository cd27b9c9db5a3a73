\* Liveness, without symmetry. A closed copy may stop for good, hence no check of
\* deadlock.
CONSTANTS
  Block = {b1}
  Text = {x, y}
  Absent = Absent
  Torn = Torn
  None = None
  MaxEpoch = 0
  Env = {"watcher", "ime", "failure", "close", "early"}
SPECIFICATION FairSpec
INVARIANT AutosaveArmed
PROPERTY Settles
CHECK_DEADLOCK FALSE
