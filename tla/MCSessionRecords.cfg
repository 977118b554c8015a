SPECIFICATION Spec
CONSTANTS
  None = None
  Tasks = {t1, t2}
  Addresses = {1, 2}
  Query <- LidOf
  MaxIdentities = 2
  MaxOperations = 5
SYMMETRY Symmetry
CHECK_DEADLOCK FALSE
INVARIANT PairsAgree
INVARIANT AssertedUsable
INVARIANT KeyUsedOnce
INVARIANT NoCircularWait
PROPERTY IdentityPinned
