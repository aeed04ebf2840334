SPECIFICATION Spec
CONSTANTS
  a = a
  b = b
  Keys = {a, b}
  NoKey = none
  Lines = {"head", "body", "text"}
  States <- MCStates
  StartState = 0
  NoState <- MCNoState
  Step <- MCStep
  Format <- MCFormat
  NoFormat = "none"
  Final <- MCFinal
  Size <- OneByte
  Runes <- OneRune
  Refs = {1, 2, 3}
  Nil = 0
  MaxLines = 0
  MaxBytes = 0
  MaxGroups = 0
  MaxTotalBytes = 4
  MaxFreeGroups = 1
  TimeModes = {TRUE, FALSE}
  MaxFeed = 3
  MaxBypass = 1
  MaxTime = 3
  MaxDepth = 0
  MaxErrors = 2
SYMMETRY KeySymmetry
INVARIANTS
  Serial
  FirstErrorReturned
PROPERTIES
  ImplementsLineLog
  FlushBeforeIsComplete
