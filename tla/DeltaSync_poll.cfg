\* Polling alone: rows in order, no limit reached, a failed request, a kill.
CONSTANTS
  first = first  second = second  third = third
  Msgs = {first, second, third}
  Ts <- MCTs
  MaxTs = 3
  Own = {}
  InOrder = TRUE
  Realtime = FALSE
  Pushes = FALSE
  FullLimit = 3
  DeltaLimit = 3
  MaxFaults = 1
  MaxKills = 1
SPECIFICATION Spec
INVARIANT Reachable
PROPERTY EventuallyHeld
CHECK_DEADLOCK FALSE
