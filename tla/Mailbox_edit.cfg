\* A group message and an edit of it share their delivery key.
CONSTANTS
  message = message  edit = edit  receipt = receipt
  NoKey = NoKey
  Entries = {message, edit}
  PrintOf <- OwnPrint
  KeyOf <- SharedKey
  Polls = {p1}
  Deployments = {"memory"}
  MaxFaults = 0
  MaxRestarts = 0
SPECIFICATION Spec
PROPERTY SkippedWasAnswered
CHECK_DEADLOCK FALSE
