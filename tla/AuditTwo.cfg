CONSTANTS
  Calls = {c1, c2}
  Processes = {c1, c2}
  ProcessOf <- OwnProcess
  Limit = 3
  Segments = 3
  SizeOf <- RecordSizes
  MaxFiles = 4
  MaxFailures = 0

SPECIFICATION Spec
INVARIANTS
  SegmentsBounded
CHECK_DEADLOCK FALSE
