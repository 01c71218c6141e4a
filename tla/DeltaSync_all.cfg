\* Everything together: pushes, realtime, reconnects, an own message, rows in
\* any order, a failed request, two terminations.
CONSTANTS
  first = first  second = second  third = third
  Msgs = {first, second}
  Ts <- MCTs
  MaxTs = 3
  Own = {second}
  InOrder = FALSE
  Realtime = TRUE
  Pushes = TRUE
  FullLimit = 2
  DeltaLimit = 1
  MaxFaults = 1
  MaxKills = 2
SPECIFICATION Spec
INVARIANTS
  ShownIsStored CursorIsBacked
CHECK_DEADLOCK FALSE
