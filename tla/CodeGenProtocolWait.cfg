CONSTANTS
  c1 = c1
  c2 = c2
  Empty = Empty
  Mixed = Mixed
  None = None
  Clients <- MCClients
  ParentName <- DifferentNames
  Program <- DifferentPrograms
  CacheOptions = {FALSE}
  ProgramRuns = 1
  MayLeave = {c1}
  MayStop = FALSE
SPECIFICATION FairSpec
PROPERTY WaitEnds
CHECK_DEADLOCK FALSE
