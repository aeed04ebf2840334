SPECIFICATION Spec
CONSTANTS
  a = a
  b = b
  Keys = {a, b}
  NoKey = none
  Lines = {"head", "dud"}
  States <- MCStates
  StartState = 0
  NoState <- MCNoState
  Step <- MCStep
  Format <- MCFormat
  NoFormat = "none"
  Final <- MCFinal
  Size <- OneByte
  Runes <- OneRune
  Refs = {1, 2, 3}
  Nil = 0
  MaxLines = 0
  MaxBytes = 0
  MaxGroups = 0
  MaxTotalBytes = 0
  MaxFreeGroups = 1
  TimeModes = {FALSE}
  MaxFeed = 2
  MaxBypass = 1
  MaxTime = 1
  MaxDepth = 0
  MaxErrors = 1
SYMMETRY KeySymmetry
INVARIANTS
  OwnLineAccounted
