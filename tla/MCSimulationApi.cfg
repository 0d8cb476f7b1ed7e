SPECIFICATION FairSpec
CONSTANTS
  r1 = r1
  r2 = r2
  Requests <- MCRequests
  BatchMaxSize = 3
  BatchConcurrency = 2
INVARIANTS
  TypeOK
  ResultsMatchTransactions
  GaugeIsBalanced
  OneResponse
PROPERTIES
  AnswerIsFinal
  EveryRequestIsAnswered
CHECK_DEADLOCK FALSE
