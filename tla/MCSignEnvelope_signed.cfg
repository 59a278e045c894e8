SPECIFICATION CeremonySpec
CONSTANTS
  Ann = Ann  Bob = Bob  Cy = Cy
  AnnTab = AnnTab  AnnTab2 = AnnTab2  BobTab = BobTab  CyTab = CyTab
  Signers = {Ann}  Approvers = {}  Viewers = {}  Copied = {}
  Order <- Sequential
  Tabs = {AnnTab, AnnTab2}
  Holder <- HolderOf
  Owner = Owner  Beat = Beat
  Workers = {w1}  Nobody = Nobody
  ReportsToPause = 2
  MaxKills = 0
  Faults = FALSE
  HardLimit = 900  LockTTL = 960  LockWait = 120  Retries = 5  Countdown = 60
INVARIANTS SignedOnce
CHECK_DEADLOCK FALSE
