CONSTANTS
  Readers = {r1, r2, r3}
  Keys = {r1, r2, r3}
  KeyOf <- OwnKeys
  MaxEntries = 2
  TTL = 2
  Cap = 3
  PageSizes = {1}
  MaxTime = 3
  MaxCaptures = 3

SPECIFICATION Spec
SYMMETRY Symmetry
INVARIANTS
  TypeOK
  OneSnapshot
  NoneOutlivesTTL
  RetainedUnlessCrowded
  LastPageReleases
CHECK_DEADLOCK FALSE
