\* Two messages, two handlers at a time, three maps to begin with. Ids run from 5 for
\* what is made. The messages run out, hence no check of deadlock.
CONSTANTS
  Opened <- Maps
  FirstId = 5
  Handler = {h1, h2}
  MaxId = 7
  MaxInputs = 2
  Env = {"failure"}
SPECIFICATION Spec
INVARIANT FileIsSound
PROPERTY EditsAreAsked
CHECK_DEADLOCK FALSE
