SPECIFICATION Spec
CONSTANTS
  MessageKeys = {k1, k2}
  Fields = {f1, f2}
  ContactKeys = {c1}
  ReceiptKeys = {r1}
  HubCapacity = 2
  MaxPendingItems = 3
  MaxWork = 4
SYMMETRY Symmetry
CHECK_DEADLOCK FALSE
INVARIANT AckedIsSafe
INVARIANT NoSilentGap
INVARIANT NewestWins
PROPERTY ImplementsPromise
