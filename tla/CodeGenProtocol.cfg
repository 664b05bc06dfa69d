CONSTANTS
  c1 = c1
  c2 = c2
  Empty = Empty
  Mixed = Mixed
  None = None
  Clients <- MCClients
  ParentName <- DifferentNames
  Program <- DifferentPrograms
  CacheOptions = {TRUE, FALSE}
  ProgramRuns = 2
  MayLeave = {c1, c2}
  MayStop = TRUE
SPECIFICATION FairSpec
INVARIANT ProtocolTypeOK
INVARIANT OwnKernels
INVARIANT NobodyWaitsInVain
PROPERTY ServesEachAlone
PROPERTY RequestIsAnswered
CHECK_DEADLOCK FALSE
