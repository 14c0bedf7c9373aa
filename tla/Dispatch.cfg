CONSTANTS
  Messages = {m1, m2, m3, m4}
  Agents = {a1, a2}
  Permits = 2
  Hung = {}
SPECIFICATION FairSpec
CHECK_DEADLOCK FALSE
INVARIANTS OneRunPerAgent NoLostWakeup
PROPERTIES EveryMessageServed
