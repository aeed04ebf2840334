SPECIFICATION Spec
CONSTANTS
  Patterns <- MCPatterns
  Bytes <- MCBytes
  Lines <- MCLines
  Text <- MCText
  Matches <- MCMatches
  Required <- MCRequired
  WordBits = 3
  AcMinLiterals = 3
  Menu <- MCMenu
  Valid <- MCValid
  NoName = ""
  MaxActiveStates = 2
INVARIANTS
  MachineTypeOK
  FilterIsInvisible
  ScanIsExact
  ActiveIsReached
  AcceptedIsLanded
  TiesGoByOrder
CHECK_DEADLOCK FALSE
