SPECIFICATION Spec
CONSTANTS
  t1 = t1
  t2 = t2
  None = None
  Threads = {t1, t2}
  Dicts = {d1}
  Methods <- MCMethods
  Amount <- MCAmount
  MaxCalls = 3
  Configured <- MCConfigured
INVARIANTS
  TypeOK
  ChargeIsOwn
  AliasIsDirect
  ExitCleansUp
  IInv
CHECK_DEADLOCK FALSE
