SPECIFICATION Spec
CONSTANTS
  None = None
  Members = {r1}
  Senders = {s1}
  Handlers = {h1, h2}
  MaxTasks = 3
  MaxKeys = 2
  MaxStates = 1
  MaxStored = 1
  MaxJump = 2
  RecentCapacity = 2
SYMMETRY Symmetry
CHECK_DEADLOCK FALSE
 
INVARIANT DistributedFirst
INVARIANT GroupAtMostOnce
INVARIANT MemberDecrypts
INVARIANT ResendableUntilResent
