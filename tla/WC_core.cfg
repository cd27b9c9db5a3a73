\* The editor as it ships, without the tracker: one block of two texts, everything
\* around it but closing and compositions, which WC_settles has. It never stops.
CONSTANTS
  Block = {b1}
  Text = {x, y}
  Absent = Absent
  Torn = Torn
  None = None
  MaxEpoch = 0
  Env = {"watcher", "external", "failure", "remount"}
SPECIFICATION Spec
SYMMETRY TextSymmetry
INVARIANTS TypeOK DirtyIsHonest SavedIsOnDisk
PROPERTY IsDocument
