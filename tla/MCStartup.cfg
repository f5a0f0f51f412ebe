SPECIFICATION Spec
CONSTANTS
  WL_NEW_ID_MIN = 2
  WL_NEW_ID_MAX = 18
  GlobalLists <- MCGlobalLists
  Hotplugged = {"wl_seat", "wl_output"}
  Capabilities <- MCCapabilities
  BatchMax = 5
  MaxGlobals = 6
  MaxEmits = 1
INVARIANTS TypeOK FailsOnlyForCause KindsAgree
PROPERTY SetUpCompletes
CHECK_DEADLOCK FALSE
