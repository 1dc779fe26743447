SPECIFICATION FairSpec
CONSTANTS
  c1 = c1
  c2 = c2
  f1 = f1
  f2 = f2
  Calls = {c1, c2}
  Flags = {f1, f2}
  PoolSize = 1
  Programs <- MCPrograms
  Definitions <- MCDefinitions
INVARIANTS
  ExposuresAreDue
  AnswerUnspoiled
  FailuresLogged
  AllVariantsCurrent
  ResolutionHonest
  IInv
PROPERTIES
  CallsEnd
  ExposuresEnd
CHECK_DEADLOCK FALSE
