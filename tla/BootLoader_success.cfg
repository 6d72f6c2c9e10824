SPECIFICATION Spec
CONSTANTS
  BootCoreNum <- MCBootCoreNum
  NBlock <- MCNBlock
  MaxPoll <- MCMaxPoll
CHECK_DEADLOCK FALSE
INVARIANT SuccessMeansLoaded
