CONSTANTS
  Stations = {w1}
  None = None
  MaxTrouble = 3
SPECIFICATION FairSpec
CHECK_DEADLOCK FALSE
INVARIANTS StateIsTrue MachinesOK
PROPERTIES CreationEnds
