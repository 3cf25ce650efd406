SPECIFICATION Spec
CONSTANTS
  observed = observed
  trajectory = trajectory
  change = change
  risk = risk
  extra = extra
  low = low
  high = high
  NoAmount = NoAmount
  NoCandidate = NoCandidate
  NoAction = NoAction
  Goals <- MCGoals
  Class <- MCClass
  SignalRules <- MCSignalRules
  FocusedGoals = {observed}
  BroadMenu = {}
  ObservedGoals = {observed}
  Applicable = {observed, change, risk, extra}
  Amounts = {low, high}
  TransitionRules <- AllRules
  MaxDepth = 2
  MaxSelections = 3
  MaxConditional = 1
  MaxIterations = 2
  MaxRetries = 1
  MaxReviews = 2
  MaxVersion = 9
  HonestCaller = FALSE
CHECK_DEADLOCK FALSE
INVARIANTS
  ValidState
  OffersAreLive
