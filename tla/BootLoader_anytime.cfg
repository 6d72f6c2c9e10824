SPECIFICATION FairSpec
CONSTANTS
  BootCoreNum <- MCBootCoreNum
  NBlock <- MCNBlock
  MaxPoll <- MCMaxPoll
CHECK_DEADLOCK FALSE
INVARIANTS
  TypeOK
  CoreZeroLoaded
  NoOldImage
PROPERTIES
  BootReturns
  BootBounded
