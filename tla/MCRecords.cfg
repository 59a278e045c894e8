SPECIFICATION Spec
CONSTANTS
  Windows = {w1, w2}
  Sweep = Sweep
  MaxVersion = 3
  Writers = {w1, w2, w3}
  Unlocked = Unlocked
  Ids = {1, 2, 3, 4}
  MaxTime = 4
  v1 = v1  v2 = v2  v3 = v3  a1 = a1  e1 = e1  d1 = d1  d2 = d2
  Items = {v1, v2, v3, a1, e1}
  Size <- Bytes
  Docs = {d1, d2}
  Space <- Spaces
  Jobs = {j1, j2}
  Uploads = {u1}
  Deleters = {x1}
  Quota = 12
  GuestJobs = {j1}
  GuestUploads = {u1}
  Users = {c1, c2}
  AccountQuota = 1
  Guest = Guest  Nobody = Nobody  Gone = Gone
  Requests = {r1, r2, r3}
  Metered = {r1, r2}
  OpsPerHour = 1
  MaxKills = 1
  MaxConcurrentJobs = 2
  Guesses = {r1, r2, r3}
  AttemptsPerMinute = 1
  Bucket = 2
  Span = 2
  KeyLife = 5
  Horizon = 6
INVARIANTS TypeOK KeptWhileNeeded OneChain DamageNoticed Settled LimitsHold
PROPERTIES SentStays
CHECK_DEADLOCK FALSE
