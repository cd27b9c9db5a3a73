\* Finds SessionIsOfOneText violated.
CONSTANTS
  Block = {b1}
  Text = {x, y}
  Absent = Absent
  Torn = Torn
  None = None
  MaxEpoch = 2
  Env = {"tracker", "revert"}
SPECIFICATION Spec
INVARIANT SessionIsOfOneText
