CONSTANTS
  x = x
  y = y
  Undef = Undef
  NoBuffer = NoBuffer
  Values <- MCValues
  Texts <- MCTexts
  LoopNames <- MCLoopNames
  Programs <- MCPrograms
  MaxLength = 4
  MaxSize = 2
  Targets = {"NONE", "LEG", "GPU"}
  Enabled = {"MCPU", "GPU", "MIC"}
  MaybeUnavailable = {}
  THRESHOLD = 1
  Frames = 2
SPECIFICATION Spec
INVARIANT RuntimeTypeOK
INVARIANT NothingLeftOnDevice
INVARIANT NoMissingDevice
INVARIANT ReadOnlyBuffersMatchHost
INVARIANT KernelStaysInBuffers
PROPERTY ImplementsOriginal
PROPERTY SwitchesOnlyFromHost
