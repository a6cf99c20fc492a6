CONSTANTS
  a = a
  b = b
  host = host
  guest = guest
  Jobs = {a, b}
  MaxTries = 2
  MaxOutages = 2
  People = {host, guest}
  Host = host
  Caps = {1, 2}
  MaxMoves = 4
  MaxRulings = 2
  Present = {a}
  MaxLost = 1
  Tracks = {a, b}
  MaxLate = 1
  MaxKicks = 1
  MaxRuns = 2
  MaxCrashes = 1
  MaxTakes = 2
  MaxFlips = 1
  MaxDrops = 1
  MaxTime = 4
  Period = 2
  DemoWindow = 1
  ProWindow = 4
  MaxEvents = 3
  Keys = {a, b}
  Masters = {a}
  Batch = 1
  MaxUses = 3
  MaxLosses = 1
  MaxSegments = 5
  MaxGone = 1
  Length = 8
  Silences = {4, 10}
  Strays = {4, 10}
  NoOrigin = NoOrigin
  Origins = {NoOrigin, 12}
  Jump = 4
  Tolerance = 2
  Window = 3
  MaxLead = 50
  Mics = {}
  Blacks = {}
  Cameras = {a}
  NoCamera = NoCamera
  Codecs = 2
  MaxRetries = 1
  MaxParts = 3
  MaxErrors = 2
  MaxPauses = 1
SPECIFICATION FairSpec
INVARIANTS AcknowledgedIsDrained CapRespected   WavIsAttached NeverAbandons PlanFollowsPolar MasterKept AudioInPlace RecordsExactly
PROPERTIES JobsAreDone GhostsLeave BackupBecomesReady FollowsTake CachesExpire
\* Each part may come to rest.
CHECK_DEADLOCK FALSE
