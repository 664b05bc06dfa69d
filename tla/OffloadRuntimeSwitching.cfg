CONSTANTS
  x = x
  y = y
  Undef = Undef
  NoBuffer = NoBuffer
  Values <- MCValues
  Texts <- MCTexts
  LoopNames <- MCLoopNames
  Programs <- SharedPrograms
  MaxLength = 3
  MaxSize = 2
  Targets = {"NONE"}
  Enabled = {"MCPU", "GPU", "MIC"}
  MaybeUnavailable = {"GPU", "MIC"}
  THRESHOLD = 1
  Frames = 2
SPECIFICATION FairSpec
INVARIANT BuffersOnlyOnHolder
PROPERTY ImplementsOriginal
PROPERTY BuffersAreReleased
