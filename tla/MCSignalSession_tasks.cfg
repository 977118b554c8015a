SPECIFICATION Spec
CONSTANTS
  None = None
  alice = alice
  bob = bob
  s1 = s1
  s2 = s2
  s3 = s3
  r1 = r1
  r2 = r2
  r3 = r3
  Parties = {alice, bob}
  Senders <- MoreSenders
  Receivers <- MoreReceivers
  OneTimeKeys = {k1}
  MaxSends = 2
  MaxFetches = 1
  MaxSkipped = 2
  MaxJump = 2
SYMMETRY TaskSymmetry
CHECK_DEADLOCK FALSE
INVARIANT KeyNeverReused
INVARIANT PreKeyUsedOnce
INVARIANT AtMostOnce
