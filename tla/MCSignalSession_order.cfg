SPECIFICATION Spec
CONSTANTS
  None = None
  alice = alice
  bob = bob
  s1 = s1
  s2 = s2
  s3 = s3
  r1 = r1
  r2 = r2
  r3 = r3
  Parties = {alice, bob}
  Senders <- OneSender
  Receivers <- OneReceiver
  OneTimeKeys = {k1}
  MaxSends = 3
  MaxFetches = 1
  MaxSkipped = 1
  MaxJump = 2
SYMMETRY Symmetry
CHECK_DEADLOCK FALSE
 
INVARIANT ValidationNeverRefuses
