SPECIFICATION Spec
CONSTANTS
  Classes = {k1, k2, k3, k4, k5}
  MaxInserts = 5
INVARIANTS
  TypeOK
  OwnedOnce
  KeysUnique
  PairsMatch
  WithinAllocation
PROPERTY ImplementsDictionary
