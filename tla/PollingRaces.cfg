SPECIFICATION Spec
CONSTANTS
  Callers = {c1}
  Coroutines = {k1, k2}
  Pollers = {p1, p2}
  Tasks = {q1, q2}
  None = None
  EnablePolling = TRUE
  MaxVersion = 2
  MaxFaults = 1
INVARIANTS
  TaskIsReferenced
  IInv
PROPERTY NoGoingBack
SYMMETRY Alike
