SPECIFICATION FairSpec
CONSTANTS
  Runs = {r1, r2}
  Owners = {u, v}
  NoOwner = NoOwner
  TradeCounts = {0, 2}
  MayCrash = TRUE
INVARIANTS
  ReaderSeesWholeRun
  AcceptedAsRunning
PROPERTIES
  ImplementsRunLifecycle
  AcceptedRunsSettle
