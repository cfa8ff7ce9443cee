CONSTANTS
  Calls = {c1, c2, c3, c4}
  Processes = {p1}
  ProcessOf <- OneProcess
  Limit = 3
  Segments = 3
  SizeOf <- RecordSizes
  MaxFiles = 5
  MaxFailures = 2

SPECIFICATION Spec
SYMMETRY Symmetry
INVARIANTS
  TypeOK
  AuditedBeforeAndAfter
  RetainedIsSuffix
  EnoughRetained
CHECK_DEADLOCK FALSE
