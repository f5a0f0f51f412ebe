SPECIFICATION Spec
CONSTANTS
  UINT16_MOD = 256
  StringSizes = {1, 4, 5}
  ArraySizes = {0, 4}
  FixedBits <- MCFixedBits
  Interfaces <- MCInterfaces
  MaxEvents = 2
INVARIANTS ReadsInside FixedNear
PROPERTY CalledAsSent
CHECK_DEADLOCK FALSE
