SPECIFICATION ImpatientSpec
CONSTANTS
  NMsg <- MCNMsg
  NBlock <- MCNBlock
  PendTime <- MCPendTime
CHECK_DEADLOCK FALSE
INVARIANT WriteResetStopsDsp
