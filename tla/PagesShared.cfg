CONSTANTS
  Readers = {r1, r2}
  Keys = {k1}
  KeyOf <- OneKey
  MaxEntries = 2
  TTL = 2
  Cap = 3
  PageSizes = {1}
  MaxTime = 2
  MaxCaptures = 2

SPECIFICATION Spec
INVARIANTS
  OneSnapshot
CHECK_DEADLOCK FALSE
