SPECIFICATION FairAccess
CONSTANTS
  Subjects = {alice, bob}
  Requests = {r1, r2}
  MaxUsers = 5
  MaxAttempts = 2
  MaxEvents = 3
  Unset = Unset
SYMMETRY Symmetry
CHECK_DEADLOCK FALSE
INVARIANTS AccountsOK RightsOK
PROPERTIES FreshTokensAccepted
