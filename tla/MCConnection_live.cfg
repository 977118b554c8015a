SPECIFICATION FairSpec
CONSTANTS
  Callers = {c1, c2}
  GeneratedTags = {g1, g2}
  ExplicitTags = {}
  None = None
  Nobody = Nobody
  Ghost = Ghost
  Conns = {k1}
  Closers = {x1}
  Capacity = 1
PROPERTY CallsReturnAfterClose
PROPERTY CloseReturns
PROPERTY ClosedAnnouncedUnlessSinkFails
INVARIANT ClosedResultIsReal
