SPECIFICATION Spec
CONSTANTS
  Initial = 2
  Min = 1
  MaxId = 3
  MaxMade = 5
  MaxLate = 1
  None = None
INVARIANT PendingKeysStored
