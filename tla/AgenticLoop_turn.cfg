SPECIFICATION Spec
CONSTANTS
  MaxSteps = 2
  MaxAttempts = 3
  MaxBatch = 2
  MaxDepth = 1
INVARIANTS
  TypeOK
  AnswersFit
  FirstRiskyWaits
  RequiredToolRan
  ProviderCallsBounded
PROPERTIES
  RiskyCallPauses
CHECK_DEADLOCK FALSE
