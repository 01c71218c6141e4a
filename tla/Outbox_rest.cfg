\* One failed request while the connection lasts.
CONSTANTS
  first = first
  Msgs = {first}
  MaxFaults = 1
  MaxKills = 0
  MaxWipes = 0
SPECIFICATION Spec
PROPERTY EventuallySent
CHECK_DEADLOCK FALSE
