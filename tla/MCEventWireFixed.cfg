SPECIFICATION Spec
CONSTANTS
  UINT16_MOD = 256
  StringSizes = {1, 4, 5}
  ArraySizes = {0, 4}
  FixedBits <- MCFixedBits
  Interfaces = {"pointer"}
  MaxEvents = 2
INVARIANT FixedExact
CHECK_DEADLOCK FALSE
