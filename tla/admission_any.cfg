SPECIFICATION Spec
CONSTANTS
  r1 = r1  r2 = r2  r3 = r3  None = None  Blank = "blank"
  Requests <- TheRequests
  RuleSets <- TheRuleSets
  Contexts <- TheContexts
  Models <- TheModels
  ModelFor <- TheModelFor
  Usage = {2}
  Second = 2  Limit = 2  MaxDelay = 1  MaxTime = 4
INVARIANTS OvershootBounded BilledOnce RetryFits
SYMMETRY Symmetry
CHECK_DEADLOCK FALSE
