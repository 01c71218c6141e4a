\* Each part with the bounds of its module's instance.
CONSTANTS
  a1 = a1
  a2 = a2
  t1 = t1
  nA = nA
  nB = nB
  nH = nH
  s1 = s1
  s2 = s2
  c1 = c1
  c2 = c2
  k1 = k1
  k2 = k2
  m1 = m1
  m2 = m2
  p1 = p1
  p2 = p2
  e1 = e1
  e2 = e2
  r1 = r1
  r2 = r2
  r3 = r3
  NoAgent = NoAgent
  NoCode = NoCode
  NoRead = NoRead
  NoEndpoint = NoEndpoint
  NoFile = NoFile
  Agents = {a1, a2}
  Tickets = {t1}
  Names = {nA, nB}
  SeedNames <- MCSeedNames
  SeedKeys <- MCSeedKeys
  Keys = {"open", "closed"}
  Requests = {s1, s2}
  Appointments <- MCAppointments
  MaxRow = 2
  MaxDept = 2
  MaxNotes = 1
  MaxEdits = 2
  Codes = {c1, c2}
  Checks = {k1}
  MaxSends = 1
  MaxTries = 2
  MaxChecks = 1
  MaxLosses = 1
  FastMessages = {c1, c2}
  FastRequests = {s1, s2}
  Chunks = 2
  MaxJobAttempts = 2
  MaxFastFaults = 1
  Operators = {a1, a2}
  MaxVersion = 3
  MaxOpsFaults = 2
  Rides = {k1}
  RideJobs = {s1, s2}
  MaxRideFaults = 2
  MaxAnnounced = 2
  MaxMarkSaves = 2
  People = {p1, p2}
  Creator = p1
  GroupPayloads <- MCPayloads
  GroupWrites = {s1, s2}
  MaxStamp = 2
  MaxGroupUpdates = 2
  MaxGroupFaults = 2
  MaxGroupSaves = 1
  Communities = {c1, c2}
  Seeds = {c1}
  Edits = {s1, s2}
  MaxCommunityFaults = 2
  Endpoints = {e1, e2}
  Sends = {p1}
  Limits = {0, 1}
  MaxPushFaults = 2
  Campaigns = {k1, k2}
  Prompted = {e1, e2}
  CampaignRuns = {r1, r2, r3}
  MaxTracked = 1
  MaxRunFaults = 2
  Uploads = {s1, s2}
  Owners = {p1}
  FileNames = {nA, nH}
  UnicodeNames = {nH}
  MaxSecond = 1
  MaxUploadFaults = 2
  ChatMessages = {m1, m2}
  Receipts = {s1, s2}
  MaxReceiptFaults = 1
SPECIFICATION PartsSpec
SYMMETRY PartsSymmetry
INVARIANTS ServerTypeOK ListedIsReadable TicketsKeepADepartment
           AnsweredCodeVerifies RemindedOnce PolicyFollowsRows
           FailedMeansUnreachable PromptedOnce PictureStays GroupNeverOlder
           ToldIsRecorded
PROPERTIES MarkedIsFinal OperationsNeverGoBack
CHECK_DEADLOCK FALSE
