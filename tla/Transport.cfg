SPECIFICATION FairSpec
CONSTANTS
  Backlog = 1
  PipeSize = 1
  Phrases <- SomePhrases
  CapturedLines = 1
  MaxLines = 2
  MaxReplies = 2
  MaxErrors = 1
  MaxCalls = 2
INVARIANTS
  TypeOK
  SecretGoesOnce
  ReturnIsHonest
PROPERTY
  MainReturns
CHECK_DEADLOCK FALSE
