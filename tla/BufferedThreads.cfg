SPECIFICATION Spec
CONSTANTS
  events = events
  imports = imports
  nowhere = nowhere
  e1 = e1
  e2 = e2
  e3 = e3
  i1 = i1
  x1 = x1
  k1 = k1
  NoMessage = NoMessage
  NoKey = NoKey
  Endpoints = {events}
  FlushOrder <- OneEndpoint
  Messages = {e1, e2, e3}
  EndpointOf <- MCEndpointOf
  KeyOf <- MCKeyOf
  Threads = {t1, t2}
  MaxSize = 2
  Cap = 3
  Poison = {}
  TakeTurns = FALSE
  MaxCopies = 1
  MaxFaults = 1
INVARIANTS
  TypeOK
  NoLoss
  FlushKeepsItsWord
  IInv
SYMMETRY CallersAndEvents
