CONSTANTS
  Records = {c1, c2}
  Titles = {n1, n2}
  Contents = {t1, t2}
  Kinds = {"skill", "shortcut"}
  Spaced = {n2}
  Editors = {r1, r2, r3}
  Readers = {q1}
  Absent = Absent
SPECIFICATION SpecCapabilities
CHECK_DEADLOCK FALSE
SYMMETRY Symmetry
INVARIANTS CatalogueOK EditsOK
