SPECIFICATION TailSpec
CONSTANTS
  Ann = Ann  Bob = Bob  Cy = Cy
  AnnTab = AnnTab  AnnTab2 = AnnTab2  BobTab = BobTab  CyTab = CyTab
  Signers = {Ann}  Approvers = {}  Viewers = {}  Copied = {}
  Order <- Parallel
  Tabs = {AnnTab, AnnTab2}
  Holder <- HolderOf
  Owner = Owner  Beat = Beat
  Workers = {w1, w2}  Nobody = Nobody
  ReportsToPause = 2
  MaxKills = 1
  Faults = FALSE
  HardLimit = 1000  LockTTL = 960  LockWait = 120  Retries = 5  Countdown = 60
PROPERTIES SealedOnce DispatchedIsFinalized TailFinishes
CHECK_DEADLOCK FALSE
