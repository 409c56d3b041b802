CONSTANTS
  p = p
  q = q
  Packages = {p, q}
  Tree <- MCTree
  Target <- MCTarget
  Plans <- MCPlans
  Tasks <- MCTasks
  MaxAge = 1
  MaxAttempts = 2
  StatusCodes = {200, 404, 503}
SPECIFICATION FairSpec
INVARIANTS
  StoreIsGenuine
  TreesHoldTheirCommit
PROPERTIES
  AnswersAreFresh
  TasksEnd
