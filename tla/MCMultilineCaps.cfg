SPECIFICATION Spec
CONSTANTS
  a = a
  b = b
  Keys = {a, b}
  NoKey = none
  Lines = {"head", "big", "body", "gap", "end", "solo", "text"}
  States <- MCStates
  StartState = 0
  NoState <- MCNoState
  Step <- MCStep
  Format <- MCFormat
  NoFormat = "none"
  Final <- MCFinal
  Size <- MCSize
  Runes <- MCRunes
  Refs = {1, 2, 3}
  Nil = 0
  MaxLines = 4
  MaxBytes = 7
  MaxGroups = 0
  MaxTotalBytes = 8
  MaxFreeGroups = 1
  TimeModes = {FALSE}
  MaxFeed = 5
  MaxBypass = 1
  MaxTime = 1
  MaxDepth = 0
  MaxErrors = 0
SYMMETRY KeySymmetry
INVARIANTS
  TypeOK
  GroupWithinCaps
  LinesSumToTotal
  BytesIsGauge
  TotalsWithinCaps
PROPERTIES
  ImplementsLineLog
  TruncatedWhereLost
  AggregateSpansLines
