CONSTANTS
  MaxMessages = 3
  CatchUpLimit = 1
SPECIFICATION FairSpec
INVARIANTS NoGap
PROPERTIES ImplementsIntake NoReplay NewestAccepted
