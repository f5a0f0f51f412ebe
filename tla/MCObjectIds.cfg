SPECIFICATION Spec
CONSTANTS
  WL_NEW_ID_MIN = 2
  WL_NEW_ID_MAX = 5
  surface = surface
  buffer = buffer
  toplevel = toplevel
  pool = pool
  Proxies = {surface, buffer, toplevel, pool}
  Registered = {surface, buffer, toplevel}
  MaxEvents = 2
INVARIANTS TablesAgree RequestsServable EventsDeliverable IInv
PROPERTIES IdsReturn LifecycleSpec
CHECK_DEADLOCK FALSE
