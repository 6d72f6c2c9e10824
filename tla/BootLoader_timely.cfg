SPECIFICATION TimelySpec
CONSTANTS
  BootCoreNum <- MCBootCoreNum
  NBlock <- MCNBlock
  MaxPoll <- MCMaxPoll
CHECK_DEADLOCK FALSE
INVARIANTS
  ExactDelivery
  SuccessMeansLoaded
  ZoneHeldWhileRead
  AckIsFresh
  NoMutualWait
PROPERTY PushSpec
