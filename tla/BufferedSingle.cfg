SPECIFICATION FairSpec
CONSTANTS
  events = events
  imports = imports
  nowhere = nowhere
  e1 = e1
  e2 = e2
  e3 = e3
  i1 = i1
  x1 = x1
  k1 = k1
  NoMessage = NoMessage
  NoKey = NoKey
  Endpoints = {events, imports}
  FlushOrder <- TwoEndpoints
  Messages = {e1, e2, e3, i1, x1}
  EndpointOf <- MCEndpointOf
  KeyOf <- MCKeyOf
  Threads = {t1}
  MaxSize = 2
  Cap = 3
  Poison = {i1}
  TakeTurns = TRUE
  MaxCopies = 2
  MaxFaults = 1
PROPERTIES
  CallsReturn
  FlushDelivers
