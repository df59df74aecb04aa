SPECIFICATION FairSpec
CONSTANTS
  Numbers = 2
  MaxErrors = 2
INVARIANTS TypeOK PositionIsWhole SocketsAreClosed
PROPERTIES PublishesForever TopicIsRegister
