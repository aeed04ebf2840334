SPECIFICATION PipelineSpec
CONSTANTS
  Sources = {"pod"}
  Bare = "bare"
  ContentSizes = {0, 1}
  TagEnd = 2
  Keys <- CriKeys
  NoKey = none
  Lines <- CriLines
  States <- CriStates
  StartState = "start"
  NoState <- CriNoState
  Step <- CriStep
  Format <- CriFormat
  NoFormat = "none"
  Final <- CriFinal
  Size <- CriSize
  Runes <- CriRunes
  Refs = {1, 2, 3}
  Nil = 0
  MaxLines = 0
  MaxBytes = 0
  MaxGroups = 0
  MaxTotalBytes = 0
  MaxFreeGroups = 1
  TimeModes = {TRUE}
  MaxFeed = 3
  MaxBypass = 1
  MaxTime = 2
  MaxDepth = 0
  MaxErrors = 1
  TraceRefs = {1, 2, 3}
  TraceGroups = 2
  MaxRaw = 3
PROPERTIES
  FlushCoversStreams
  FailedFlushStops
  MissesOnlyRejoined
  StoppedInOrderIsDrained
  EndToEnd
  ErrorsComeBack
