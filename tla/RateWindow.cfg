CONSTANTS
  Aliases = {a1}
  Limits <- EditedLimits
  Second = 2
  MaxTime = 10

SPECIFICATION Spec
INVARIANTS
  TypeOK
  WindowRespected
  RetryAfterExact
