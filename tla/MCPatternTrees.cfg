SPECIFICATION Spec
CONSTANTS
  Encode <- MCEncode
  MinLiteral = 2
  MaxProductSet = 3
  MaxProductLen = 4
  DecodedAs <- MCDecodedAs
  Orbit <- MCOrbit
  Classes <- MCClasses
  Literals0 <- MCLiterals0
  Parts <- MCParts
  MaxGrowth = 3
  MaxRepeat = 2
INVARIANTS
  RequiredIsNecessary
  ExactIsLanguage
CHECK_DEADLOCK FALSE
