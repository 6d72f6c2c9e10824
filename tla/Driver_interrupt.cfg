SPECIFICATION FairSpec
CONSTANTS
  p1 = p1
  p2 = p2
  PciDevCount <- MCPciDevCount
  Procs <- MCProcs
CHECK_DEADLOCK FALSE
PROPERTY InterruptWakes
