SPECIFICATION Spec
CONSTANTS
  Buckets = 3
  Keys = {1, 2, 3, 9}
  None = None
  Definitions <- MCDefinitions
INVARIANTS
  TypeOK
  IInv
  SharesAreSplits
  RolloutsReachTheirShare
  RaisesOnlyOnBadInput
PROPERTY KeepsVariant
