SPECIFICATION Spec
CONSTANTS
  Callers = {c1}
  Coroutines = {}
  Pollers = {p1, p2}
  Tasks = {}
  None = None
  EnablePolling = TRUE
  MaxVersion = 1
  MaxFaults = 0
INVARIANT AtMostOnePoller
