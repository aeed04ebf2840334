SPECIFICATION Spec
CONSTANTS
  Encode <- MCEncode
  MinLiteral = 2
  MaxProductSet = 3
  MaxProductLen = 4
  DecodedAs <- MCDecodedAs
  Orbit <- MCOrbit
  Classes <- MCClasses
  Literals0 <- ReplacementLiterals
  Parts <- MCParts
  MaxGrowth = 1
  MaxRepeat = 2
INVARIANTS
  RequiredIsNecessary
CHECK_DEADLOCK FALSE
