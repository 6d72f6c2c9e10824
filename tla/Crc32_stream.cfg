SPECIFICATION Spec
CONSTANT Inputs <- MCInputs
CHECK_DEADLOCK FALSE
INVARIANTS
  CrcIsRemainder
  StreamIsOneShot
  ResidueIsFixed
