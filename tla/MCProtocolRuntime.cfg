SPECIFICATION FairSpec
CONSTANTS
  observed = observed
  trajectory = trajectory
  change = change
  risk = risk
  extra = extra
  low = low
  high = high
  NoAmount = NoAmount
  NoCandidate = NoCandidate
  NoAction = NoAction
  Goals <- MCGoals
  Class <- MCClass
  SignalRules <- MCSignalRules
  FocusedGoals = {observed}
  BroadMenu = {observed, trajectory}
  ObservedGoals = {observed}
  Applicable = {observed, change, extra}
  Amounts = {low, high}
  TransitionRules <- OneOfEach
  MaxDepth = 2
  MaxSelections = 2
  MaxConditional = 1
  MaxIterations = 2
  MaxRetries = 2
  MaxReviews = 2
  MaxVersion = 8
  HonestCaller = TRUE
CHECK_DEADLOCK FALSE
INVARIANTS
  SatisfiedIsProven
  EverySelectionPaidOnce
  ExecutionAtMostOnce
PROPERTIES
  SelectionIsAnswered
  CompleteIsFinal
  NothingBlockingAtClose
  ImplementsLifecycle
