SPECIFICATION Spec
CONSTANTS
  Callers = {c1, c2}
  GeneratedTags = {g1}
  ExplicitTags = {e1}
  None = None
  Nobody = Nobody
  Ghost = Ghost
  Conns = {k1}
  Closers = {x1, x2}
  Capacity = 2
SYMMETRY Symmetry
 
INVARIANT NoQueryOutlivesClose
INVARIANT FlushBeforeClose
INVARIANT ClosedOnce
INVARIANT CloseOkMeansDown
