SPECIFICATION FairSpec
CONSTANTS
  Threads = {t1}
  Calls = {i1, e1, x1}
  NoCall = NoCall
  imports = imports
  events = events
  nowhere = nowhere
  i1 = i1
  e1 = e1
  x1 = x1
  k1 = k1
  s1 = s1
  Endpoints = {imports, events}
  Imports = imports
  None = None
  EndpointOf <- MCEndpointOf
  KeyOf <- MCKeyOf
  SecretOf <- MCSecretOf
  Packed = {i1}
  RetryLimit = 2
  HasTimeout = TRUE
INVARIANTS
  CredentialsKeptApart
  IInv
PROPERTIES
  ImplementsContract
  CallsReturn
CHECK_DEADLOCK FALSE
