SPECIFICATION FairSpec
CONSTANTS
  Modes = {hm}
  NoMode = none
  SwitchingState = "Switched_On"
  Setups <- LiveSetups
PROPERTY CallsReturn
\* A motor that is shut down for the last time rests.
CHECK_DEADLOCK FALSE
