CONSTANTS
  x = x
  y = y
  Undef = Undef
  NoBuffer = NoBuffer
  Values <- MCValues
  Texts <- MCTexts
  LoopNames <- MCLoopNames
  Programs <- BorderPrograms
  MaxLength = 1
  MaxSize = 2
  Targets = {"NONE", "LEG", "GPU"}
  Enabled = {"MCPU", "GPU", "MIC"}
  MaybeUnavailable = {}
  THRESHOLD = 1
  Frames = 2
SPECIFICATION Spec
PROPERTY ImplementsOriginal
