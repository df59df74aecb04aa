SPECIFICATION FairSpec
CONSTANTS
  Setups <- Mappings
  Values = {0, 1}
  None = None
  TransmissionType = 1
  MaxFrames = 1
INVARIANTS SentIsCurrent OthersAreKept ReceivedIsRead
PROPERTIES SetsAreSent SilenceIsReported
