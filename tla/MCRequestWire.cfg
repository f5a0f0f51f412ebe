SPECIFICATION Spec
CONSTANTS
  UINT16_MOD = 256
  PAGE_SIZE = 96
  StringSizes = {1, 4, 5}
  MaxRequests = 3
INVARIANT WritesInside
PROPERTY DecodedAsComposed
CHECK_DEADLOCK FALSE
