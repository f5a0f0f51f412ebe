SPECIFICATION Spec
CONSTANTS
  PAGE_WORDS = 6
  Sizes = {2, 3}
  MaxField = 3
  Burst = 9
  MaxEvents = 5
INVARIANT WholeEventsOnly
CHECK_DEADLOCK FALSE
