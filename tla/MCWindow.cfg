SPECIFICATION Spec
CONSTANTS
  PAGE_SIZE = 193
  CMSG_FDS = 2
  Extents <- MCExtents
  Default <- MCDefault
  UINT_MOD = 128
  BatchMax = 4
  MaxConfigures = 2
  MaxPings = 1
INVARIANTS ProtocolObeyed PoolsGetTheirFile DescriptorsFit NeverBlocksWithUnsent
PROPERTIES PingsAnswered ConfiguresApplied CloseEnds Repainted
CHECK_DEADLOCK FALSE
