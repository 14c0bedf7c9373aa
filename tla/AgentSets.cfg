CONSTANTS
  Sets = {s1, s2}
  Projects = {p1}
  Llms = {d1, d2}
  Skills = {c1, c2}
  Servers = {v1}
  Names = {n1, n2}
  n1 = n1
  n2 = n2
  d1 = d1
  root = root
  leaf = leaf
  AgentNames = {root, leaf}
  Specs <- MCSpecs
  Loads = {q1}
  MaxAgents = 3
  MaxChanges = 4
  None = None
SPECIFICATION SpecAgentSets
CHECK_DEADLOCK FALSE
SYMMETRY Symmetry
INVARIANTS RunGetsItsOwn SetsAreWhole
