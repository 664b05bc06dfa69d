CONSTANTS
  c1 = c1
  c2 = c2
  Empty = Empty
  Mixed = Mixed
  None = None
  Clients <- MCClients
  ParentName <- SameName
  Program <- DifferentPrograms
  CacheOptions = {FALSE}
  ProgramRuns = 2
  MayLeave = {c1, c2}
  MayStop = TRUE
SPECIFICATION Spec
INVARIANT AnnouncedIsDelivered
CHECK_DEADLOCK FALSE
