SPECIFICATION Spec
CONSTANTS
  Ids = {a, b, c}
  Requesters = {t1, t2}
  Capacity = 2
  Ttl = 0
  MaxTime = 1
  MaxOrder = 3
SYMMETRY Symmetry
 
INVARIANT OneHolder
INVARIANT PendingIsWanted
