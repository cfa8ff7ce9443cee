CONSTANTS
  Bundles = {b1, b2}
  Runs = {r1, r2}
  MaxOthers = 2
  MaxFailures = 2

SPECIFICATION Spec
SYMMETRY Symmetry
INVARIANTS
  TypeOK
  OkIsEnforced
  FailureLeavesNothing
PROPERTIES
  NeverOpens
  ForeignUntouched
CHECK_DEADLOCK FALSE
