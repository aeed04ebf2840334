SPECIFICATION ISpec
CONSTANTS
  a = a
  b = b
  Keys = {a, b}
  NoKey = none
  Lines = {"head", "body", "end", "text"}
  States <- MCStates
  StartState = 0
  NoState <- MCNoState
  Step <- MCStep
  Format <- MCFormat
  NoFormat = "none"
  Final <- MCFinal
  Size <- OneByte
  Runes <- OneRune
  Refs = {1, 2, 3, 4, 5}
  Nil = 0
  MaxLines = 0
  MaxBytes = 0
  MaxGroups = 1
  MaxTotalBytes = 0
  MaxFreeGroups = 1
  TimeModes = {FALSE}
  MaxFeed = 3
  MaxBypass = 0
  MaxTime = 2
  MaxDepth = 1
  MaxErrors = 1
SYMMETRY KeySymmetry
INVARIANTS
  MapMatchesList
  OneOwner
  TextsIntact
  NothingMissing
  PointersMatch
  TotalsWithinCaps
  Inv

  
