SPECIFICATION CriSpec
CONSTANTS
  Sources = {"pod"}
  Bare = "bare"
  ContentSizes = {0, 2}
  TagEnd = 2
  Keys <- CriKeys
  NoKey = none
  Lines <- CriLines
  States <- CriStates
  StartState = "start"
  NoState <- CriNoState
  Step <- CriStep
  Format <- CriFormat
  NoFormat = "none"
  Final <- CriFinal
  Size <- CriSize
  Runes <- CriRunes
  Refs = {1, 2, 3}
  Nil = 0
  MaxLines = 0
  MaxBytes = 9
  MaxGroups = 1
  MaxTotalBytes = 0
  MaxFreeGroups = 1
  TimeModes = {TRUE}
  MaxFeed = 3
  MaxBypass = 1
  MaxTime = 1
  MaxDepth = 0
  MaxErrors = 1
INVARIANTS
  CriTypeOK
  OnlyOpenRunsPending
PROPERTIES
  InOrder
  JoinsOneLine
  ShipsContent
