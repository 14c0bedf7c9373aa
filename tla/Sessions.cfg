CONSTANTS
  Stations = {s1, s2}
  Sessions = {c1, c2}
  Projects = {p1, p2}
  Closers = {k1}
  None = None
  MaxUnderWay = 2
  MaxEntered = 1
SPECIFICATION Spec
CHECK_DEADLOCK FALSE
CONSTRAINT Bounded
SYMMETRY Symmetry
INVARIANTS OpenIsCurrent SessionHasItsProject ContinuesAnother
