CONSTANTS
  Bundles = {b1, b2}
  Runs = {r1, r2}
  MaxOthers = 0
  MaxFailures = 1

SPECIFICATION Spec
INVARIANTS
  LaterFailuresRollBack
CHECK_DEADLOCK FALSE
