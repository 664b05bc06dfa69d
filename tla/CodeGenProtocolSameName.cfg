CONSTANTS
  c1 = c1
  c2 = c2
  Empty = Empty
  Mixed = Mixed
  None = None
  Clients <- MCClients
  ParentName <- SameName
  Program <- SameProgram
  CacheOptions = {FALSE}
  ProgramRuns = 1
  MayLeave = {}
  MayStop = FALSE
SPECIFICATION Spec
INVARIANT OwnKernels
CHECK_DEADLOCK FALSE
