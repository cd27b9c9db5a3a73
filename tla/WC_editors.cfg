\* With the round-trip tracker: the page builds two editors, one for each load, so a
\* report can be older than the session; the window may die and start over.
CONSTANTS
  Block = {b1}
  Text = {x, y}
  Absent = Absent
  Torn = Torn
  None = None
  MaxEpoch = 2
  Env = {"tracker", "revert", "restart"}
SPECIFICATION Spec
SYMMETRY TextSymmetry
INVARIANT ReportFitsSession
