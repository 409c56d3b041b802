CONSTANTS
  p = p
  q = q
  Packages = {p, q}
  Tree <- MCPlainTree
  Target <- MCNoTarget
  Plans <- MCPlans
  Tasks <- MCTasks
  MaxAge = 1
  MaxAttempts = 2
  StatusCodes = {200, 404, 503}
SPECIFICATION Spec
INVARIANT CheckoutIsExact
