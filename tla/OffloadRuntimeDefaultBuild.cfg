CONSTANTS
  x = x
  y = y
  Undef = Undef
  NoBuffer = NoBuffer
  Values <- MCValues
  Texts <- MCTexts
  LoopNames <- MCLoopNames
  Programs <- MCPrograms
  MaxLength = 2
  MaxSize = 2
  Targets = {"NONE"}
  Enabled = {"MCPU"}
  MaybeUnavailable = {}
  THRESHOLD = 1
  Frames = 2
SPECIFICATION Spec
INVARIANT NoMissingDevice
