SPECIFICATION Spec
CONSTANTS
  Sessions <- MCSessions
  RawIntents <- MCRawIntents
  Ttl = 0
  MaxTime = 1
  MaxCalls = 3
  NULL = NULL
CHECK_DEADLOCK FALSE
INVARIANTS
  ProgressIsEarned
  AnswersAreComparable
  ReadyIsAnswered
