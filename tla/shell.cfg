CONSTANTS
  MaxLines = 3
  ForksFail = TRUE
SPECIFICATION FairSpec
INVARIANT PromptAfterForeground
INVARIANT NothingHeldAtPrompt
PROPERTY BackgroundSurvives
PROPERTY PromptReturns
