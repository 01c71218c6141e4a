\* Redis configured, not connected yet (as without Redis), connected or unusable:
\* three concurrent invocations, two errors, a restart.
CONSTANTS
  m1 = m1  m2 = m2  m3 = m3  m4 = m4
  alice = alice  bob = bob  carol = carol
  NoMsg = NoMsg
  Msgs = {m1, m3, m4}
  Users = {alice, bob, carol}
  Slots = {s1, s2, s3}
  Targets <- MCTargets
  Sender <- MCSender
  Forbidden <- MCForbidden
  RedisConfigured = TRUE
  UniqueIndex = TRUE
  MaxFaults = 2
  MaxRestarts = 1
SPECIFICATION Spec
SYMMETRY SlotSymmetry
INVARIANTS
  ClaimIsBacked AckIsDurable LocalAckReachesEveryRecipient
PROPERTY ImplementsAtMostOnce
CHECK_DEADLOCK FALSE
