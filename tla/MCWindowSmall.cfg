SPECIFICATION Spec
CONSTANTS
  PAGE_SIZE = 124
  CMSG_FDS = 2
  Extents <- MCAnyExtents
  Default <- MCDefault
  UINT_MOD = 128
  BatchMax = 3
  MaxConfigures = 3
  MaxPings = 1
INVARIANTS IInv ShowsWhatWasAsked DrawnWhereRead RoomForReplies
PROPERTY AckBringsBuffer
CHECK_DEADLOCK FALSE
