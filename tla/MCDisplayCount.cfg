SPECIFICATION Spec
CONSTANTS
  PAGE_SIZE = 40
  CMSG_FDS = 2
  pool = pool
  memfd1 = memfd1
  memfd2 = memfd2
  Ids = {pool}
  Files = {memfd1, memfd2}
  NoFile = NoFile
  Bytes = {12}
  COUNT_MOD = 3
  SocketSize = 3
  MaxUnread = 2
INVARIANT ReturnsDispatched
CHECK_DEADLOCK FALSE
