CONSTANTS
  Runs = {r1, r2, r3}
  Called = {r1}
  Replies = {m1, m2}
  None = None
  Faults = {"db", "run", "close", "full", "set"}
  MaxCrashes = 1
SPECIFICATION FairSpec
CHECK_DEADLOCK FALSE
INVARIANTS ResumedOnce TaskFollowsRequest QuestionAnswerable
PROPERTIES LateReplyResumes
