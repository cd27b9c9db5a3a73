\* With the round-trip tracker: documents of two blocks, so a save mixes blocks the
\* report names with blocks cut from the source. The file is loaded once: see
\* SessionIsOfOneText for what a second load does.
CONSTANTS
  Block = {b1, b2}
  Text = {x, y}
  Absent = Absent
  Torn = Torn
  None = None
  MaxEpoch = 1
  Env = {"tracker", "failure"}
SPECIFICATION Spec
SYMMETRY DocSymmetry
INVARIANTS SaveWritesSnapshot BaselineFits
