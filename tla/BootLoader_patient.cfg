SPECIFICATION PatientSpec
CONSTANTS
  BootCoreNum <- MCBootCoreNum
  NBlock <- MCNBlock
  MaxPoll <- MCMaxPoll
CHECK_DEADLOCK FALSE
PROPERTY BootSucceeds
