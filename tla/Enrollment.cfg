CONSTANTS
  Address <- MCAddress
  Name <- MCName
  Lan <- MCLan
  MaxItems = 3
  MaxRanges = 2
  FirstFiles <- MCFirstFiles
  Files <- MCFiles
  MaxEdits = 1
  Calls <- MCCalls
  Answers <- MCAnswers
  Endpoints <- MCEndpoints
  Pins <- MCPins
  Peers <- MCPeers

SPECIFICATION Spec
INVARIANTS
  TypeOK
  ValidatorsAgree
  GatesAgree
  ConnectionsEnrolled
  ChainFitsCalls
