CONSTANTS
  Ids = {i1, i2}
  NoId = NoId
  Aliases = {a1}
  Calls <- AllCalls
  Budget = 1
  MaxRequests = 2
  MaxEdits = 1
  MaxNotes = 1

SPECIFICATION FairSpec
INVARIANTS
  TypeOK
  AnswersMatchRequests
  PendingExact
  NoCredentialReachesClient
  EnvelopeIsBound
  SlotsAreForForwardedCalls
PROPERTIES
  ImplementsLedger
CHECK_DEADLOCK FALSE
