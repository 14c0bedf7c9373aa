CONSTANTS
  Processes = {server, agent}
  MaxStops = 1
  NoTable = NoTable
  Databases <- MCDatabases
SPECIFICATION FairStartup
CHECK_DEADLOCK FALSE
INVARIANTS OldDataServed
PROPERTIES BreaksOnlyWhenRaced AllServe
