CONSTANTS
  Opened <- Maps
  FirstId = 5
  Handler = {h1}
  MaxId = 6
  MaxInputs = 1
  Env = {"summary"}
SPECIFICATION Spec
INVARIANT FileIsSound
CHECK_DEADLOCK FALSE
