\* With Redis, connected or not, and without; with rows in ServerState and
\* without; two polls at a time, an error, a restart.
CONSTANTS
  message = message  edit = edit  receipt = receipt
  NoKey = NoKey
  Entries = {message, receipt}
  PrintOf <- OwnPrint
  KeyOf <- DistinctKey
  Polls = {p1, p2}
  Deployments = {"redis", "memory"}
  MaxFaults = 1
  MaxRestarts = 1
SPECIFICATION Spec
INVARIANTS
  Accounted
PROPERTIES
  NeverRepeated EventuallyRead
CHECK_DEADLOCK FALSE
