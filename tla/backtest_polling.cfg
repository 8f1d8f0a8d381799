CHECK_DEADLOCK FALSE
SPECIFICATION FairSpec
CONSTANTS
  Runs = {r1, r2}
  Owners = {u, v}
  NoOwner = NoOwner
  TradeCounts = {0, 2}
  MayCrash = FALSE
PROPERTIES
  PollingTerminates
