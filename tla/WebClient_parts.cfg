\* Each part with the bounds of its module's instance.
CONSTANTS
  m1 = m1
  m2 = m2
  m3 = m3
  f1 = f1
  f2 = f2
  n1 = n1
  n2 = n2
  n3 = n3
  o1 = o1
  b1 = b1
  b2 = b2
  r1 = r1
  d1 = d1
  d2 = d2
  d3 = d3
  u1 = u1
  u2 = u2
  u3 = u3
  NoTrip = NoTrip
  NoRead = NoRead
  NoVisitor = NoVisitor
  OutMessages = {m1, m2}
  OutboxFlushes = {f1}
  MaxSendAttempts = 1
  MaxRestarts = 1
  Incoming = {m1, m2}
  Own = {m3}
  Twins <- MCTwins
  MaxReloads = 1
  ReceiptIds = {m1, m2}
  ReceiptFlushes = {f1, f2}
  MaxResets = 1
  OfflineRequests = {m1, m2, m3}
  ReplyFlushes = {f1, f2}
  MaxReplies = 2
  MaxRounds = 3
  Pushes = {m1, m2, m3}
  Drains = {f1, f2}
  MaxPushes = 2
  MaxMemory = 1
  MaxEvents = 3
  MissedIncoming = {n1, n2}
  MissedOwn = {n3}
  Ts <- MCTs
  PageSize = 1
  Limit = 2
  MaxRecoveryFaults = 2
  ShuttleTrips = {o1}
  ShuttleCalls = {b1, b2}
  ShuttleReads = {r1}
  MaxConfirms = 1
  MaxShuttleFaults = 1
  Members = {u1, u2, u3}
  Founder = u1
  Devices = {d1, d2, d3}
  Holder <- MCHolder
  GroupStamps = {1, 2}
  MaxGroupStamps = 2
  MaxGroupPosts = 2
  MaxGroupLosses = 1
  Visitors = {n1, n2}
  MaxFailures = 2
  MaxAttempts = 2
  MaxNetChanges = 3
SPECIFICATION PartsSpec
SYMMETRY PartsSymmetry
INVARIANTS WebClientTypeOK QueuedIsKept DeletedStaysHidden TrackedIsOwed
           AnsweredIsKept PushIsKept NothingBelow CancelIsConfirmed
           SameStampSameMembers Recovers
CHECK_DEADLOCK FALSE
