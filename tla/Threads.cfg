CONSTANTS
  Chats = {c1, c2, c3}
  Messages = {m1, m2, m3, m4}
  Requests = {r1, r2}
  MaxLevel = 2
  MaxMessages = 1
  None = None
SPECIFICATION Spec
CHECK_DEADLOCK FALSE
SYMMETRY Symmetry
INVARIANTS SessionFound CopyBesideThread ClosedTree 
