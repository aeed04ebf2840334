SPECIFICATION Spec
CONSTANTS
  Patterns <- MCPatterns
  Bytes <- MCBytes
  Lines <- MCLines
  Text <- MCText
  Matches <- MCMatches
  Required <- MCRequired
  WordBits = 64
  AcMinLiterals = 24
  Menu <- BundledMenu
  Valid <- MCValid
  NoName = ""
  MaxActiveStates = 20
INVARIANTS
  StaysNarrow
CHECK_DEADLOCK FALSE
