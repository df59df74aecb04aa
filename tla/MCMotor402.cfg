SPECIFICATION Spec
CONSTANTS
  Modes = {pp, pv}
  NoMode = none
  SwitchingState = "Operation_Enable"
  Setups <- SafetySetups
INVARIANTS TypeOK HaltStopsRecover FaultResetRises SwitchIsSilent HomedIsHome
SYMMETRY ModesAlike
\* A motor that is shut down for the last time rests.
CHECK_DEADLOCK FALSE
