\* Safety, refinement and liveness together.
SPECIFICATION FairSpec
CONSTANTS
  MaxQuestion = 3
  MaxGeneration = 3
INVARIANTS
  NoSilentEngine
PROPERTIES
  NothingPublishedAfterInvalidation
  PonderhitAnswersComplete
  SharedStateQuiescent
  ImplementsUsiAnswers
  HandlersReturn
  LimitedGoIsAnswered
