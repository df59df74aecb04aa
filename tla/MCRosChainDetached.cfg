SPECIFICATION Spec
CONSTANTS
  N = 2
  MaxRunners = 2
  PromptStart = FALSE
  HasSync = FALSE
INVARIANT RunThreadStopped
CHECK_DEADLOCK FALSE
