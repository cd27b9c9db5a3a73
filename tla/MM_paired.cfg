\* One message over maps another program wrote, with an icon or a line of two tags. The
\* message runs out, hence no check of deadlock.
CONSTANTS
  Opened <- PairedMaps
  FirstId = 5
  Handler = {h1}
  MaxId = 6
  MaxInputs = 1
  Env = {}
SPECIFICATION Spec
INVARIANT FileIsSound
CHECK_DEADLOCK FALSE
