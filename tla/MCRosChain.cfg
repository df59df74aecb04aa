SPECIFICATION FairSpec
CONSTANTS
  N = 2
  MaxRunners = 2
  PromptStart = TRUE
  HasSync = FALSE
INVARIANTS TypeOK RunThreadStopped RunThreadServes ShutdownLeavesNoWork ReadyIsStarted ErrorHaltsAll
PROPERTY ServicesReturn
