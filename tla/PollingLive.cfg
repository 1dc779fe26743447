SPECIFICATION FairSpec
CONSTANTS
  Callers = {c1}
  Coroutines = {}
  Pollers = {p1, p2}
  Tasks = {}
  None = None
  EnablePolling = TRUE
  MaxVersion = 2
  MaxFaults = 2
INVARIANT ReferencedThreadPolls
PROPERTIES
  StopEndsPolling
  DefinitionsConverge
