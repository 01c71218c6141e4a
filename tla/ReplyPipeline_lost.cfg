\* One process without Redis: a retry answered while its first attempt fails.
CONSTANTS
  m1 = m1  m2 = m2  m3 = m3  m4 = m4
  alice = alice  bob = bob  carol = carol
  NoMsg = NoMsg
  Msgs = {m1}
  Users = {alice, bob, carol}
  Slots = {s1, s2}
  Targets <- MCTargets
  Sender <- MCSender
  Forbidden = {}
  RedisConfigured = FALSE
  UniqueIndex = TRUE
  MaxFaults = 1
  MaxRestarts = 0
SPECIFICATION Spec
INVARIANT NoMessageLost
CHECK_DEADLOCK FALSE
