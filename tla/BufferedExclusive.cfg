SPECIFICATION Spec
CONSTANTS
  events = events
  imports = imports
  nowhere = nowhere
  e1 = e1
  e2 = e2
  e3 = e3
  i1 = i1
  x1 = x1
  k1 = k1
  NoMessage = NoMessage
  NoKey = NoKey
  Endpoints = {events, imports}
  FlushOrder <- TwoEndpoints
  Messages = {e1, e2, i1, x1}
  EndpointOf <- MCEndpointOf
  KeyOf <- MCKeyOf
  Threads = {t1, t2}
  MaxSize = 1
  Cap = 3
  Poison = {}
  TakeTurns = TRUE
  MaxCopies = 2
  MaxFaults = 1
INVARIANTS
  DeliveryInv
  GrowthBoundedByFailures
  DeliveredAtMost
PROPERTIES
  NoResendAfterPublish
  ImplementsDelivery
SYMMETRY Callers
