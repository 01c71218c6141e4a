\* More messages are missed than a delta returns.
CONSTANTS
  first = first  second = second  third = third
  Msgs = {first, second, third}
  Ts <- MCTs
  MaxTs = 3
  Own = {}
  InOrder = TRUE
  Realtime = FALSE
  Pushes = FALSE
  FullLimit = 3
  DeltaLimit = 1
  MaxFaults = 0
  MaxKills = 0
SPECIFICATION Spec
INVARIANT Reachable
CHECK_DEADLOCK FALSE
