SPECIFICATION LiveClarificationSpec
CONSTANTS
  Asked <- MCAsked
  FreeText <- MCFreeText
  Ttl = 1
  MaxClock = 2
  MaxVersion = 2
  MaxAnswers = 4
CHECK_DEADLOCK FALSE
INVARIANTS
  AnalysisIsEnough
PROPERTIES
  EveryAnswerCountsOnce
  ClarifiedSticks
  EveryQuestionIsFinalized
