\* Two users, three requests for a stream at a time, a cooldown after three failures.
CONSTANTS
  Users = {alice, bob}
  NoUser = NoUser
  Streams = {s1, s2, s3}
  NoStream = NoStream
  MaxFailures = 3
SPECIFICATION Spec
INVARIANTS ModeIsLive
PROPERTY Reconnects
