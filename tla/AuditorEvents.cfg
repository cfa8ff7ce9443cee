CONSTANTS
  Texts <- MCParsing
  Required <- MCRequired
  Expires <- MCExpires
  Kinds = {"ssh"}
  Audits = {a1}
  Readers = {q1}
  MaxTime = 0
  MaxChanges = 0
  MaxFailures = 0

SPECIFICATION Spec
INVARIANT EveryCommandIsAnEvent
CHECK_DEADLOCK FALSE
