CONSTANTS
  Texts <- MCTexts
  Required <- MCRequired
  Expires <- MCExpires
  Kinds = {"run", "file", "ssh"}
  Audits = {a1, a2}
  Readers = {q1}
  MaxTime = 1
  MaxChanges = 1
  MaxFailures = 1

SPECIFICATION Spec
SYMMETRY Symmetry
INVARIANTS
  TypeOK
  QueryAgreesWithReport
  AcceptedAsNew
  AcceptedStaysKnown
  RunsAreTraced
  KeyIsShredded
  FindingsAreDefects
CHECK_DEADLOCK FALSE
