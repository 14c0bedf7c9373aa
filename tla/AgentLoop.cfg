CONSTANTS
  MaxIterations = 2
  MaxCalls = 2
  MaxRequests = 4
  MaxNoise = 1
SPECIFICATION FairSpec
CHECK_DEADLOCK FALSE
INVARIANTS ConversationOK AnswersOwnRequest TraceComplete
PROPERTIES StepsBeforeAnswer RunEnds
