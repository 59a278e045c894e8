SPECIFICATION FinalizeSpec
CONSTANTS
  Ann = Ann  Bob = Bob  Cy = Cy
  AnnTab = AnnTab  AnnTab2 = AnnTab2  BobTab = BobTab  CyTab = CyTab
  Signers = {Ann}  Approvers = {Bob}  Viewers = {}  Copied = {}
  Order <- Parallel
  Tabs = {AnnTab, BobTab}
  Holder <- HolderOf
  Owner = Owner  Beat = Beat
  Workers = {w1, w2}  Nobody = Nobody
  ReportsToPause = 2
  MaxKills = 1
  Faults = TRUE
  HardLimit = 900  LockTTL = 960  LockWait = 120  Retries = 1  Countdown = 60
INVARIANTS FingerprintMatches CompletionRecordedOnce
PROPERTIES PromiseSpec
CHECK_DEADLOCK FALSE
