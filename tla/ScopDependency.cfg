CONSTANTS
  x = x
  y = y
  MaxLength = 4
  Values <- MCValues
  Texts <- MCTexts
  LoopNames <- MCLoopNames
  Programs <- MCPrograms
SPECIFICATION PassSpec
INVARIANT PassTypeOK
INVARIANT ReadOnlyNeverWritten
INVARIANT SizeCoversLaterUses
INVARIANT PassIsExact
INVARIANT FlagOnlyIfInterrupted
CHECK_DEADLOCK FALSE
