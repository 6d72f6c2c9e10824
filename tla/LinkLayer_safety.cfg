SPECIFICATION FairSpec
CONSTANTS
  NMsg <- MCNMsg
  NBlock <- MCNBlock
  PendTime <- MCPendTime
CHECK_DEADLOCK FALSE
INVARIANTS
  TypeOK
  TakenInOrder
  BufferHeld
  AnswerIsFresh
  NoMutualWait
PROPERTIES
  ChannelSpec
  AllGiven
