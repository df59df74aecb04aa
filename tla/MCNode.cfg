SPECIFICATION FairSpec
CONSTANTS
  Objects <- Heartbeats
  MaxFaults = 1
  MaxCommands = 1
  MaxFrames = 2
INVARIANTS SyncFollowsState InitStartsDevice CallsAreClean
PROPERTIES CallsReturn DeadDeviceIsReported
\* The inverted locks of sdo_.init() stop strand and service for good.
CHECK_DEADLOCK FALSE
