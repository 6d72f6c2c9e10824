SPECIFICATION Spec
CONSTANTS
  Programs <- MCPrograms
  Zones <- MCZones
  PageOffsets <- MCPageOffsets
  BarStart <- MCBarStart
  Leftovers <- MCLeftovers
  ImageLength <- MCImageLength
CHECK_DEADLOCK FALSE
INVARIANTS
  TypeOK
  ProgramWhole
  NothingElseWritten
  ImageConsumed
  InboundAsUploaded
  DspSeesZone
  WindowIsZone
  BuffersInZone
PROPERTIES
  LoadSpec
  ProgramStarts
