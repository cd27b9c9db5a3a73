\* Finds NoSilentOverwrite violated.
CONSTANTS
  Block = {b1}
  Text = {x, y}
  Absent = Absent
  Torn = Torn
  None = None
  MaxEpoch = 0
  Env = {"external", "watcher"}
SPECIFICATION Spec
PROPERTY NoSilentOverwrite
