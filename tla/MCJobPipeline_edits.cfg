CONSTANTS
  Jobs = {j1, j2}
  Kinds = {"version", "report", "split", "merge"}
  Ingest = ingest
  NoJob = nojob
  Batch = 2
  ReapLive = TRUE
  HardLimit = 120
  LaneLimit = 120
  TimeLimit = 900
  DocLockTTL = 960

SYMMETRY JobSymmetry
SPECIFICATION MixedSpec
INVARIANTS
  TypeOK
  CommitOnce
  BlobIntact
  BaseRespected
  OutputsOnce
  SucceededDelivered
PROPERTIES
  NoLostUpdate
  ChainSpec
CHECK_DEADLOCK FALSE
