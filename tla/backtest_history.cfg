SPECIFICATION HistorySpec
CONSTANTS
  Runs = {r1, r2, r3}
  Owners = {u, v}
  NoOwner = NoOwner
  TradeCounts = {0, 1}
  MayCrash = TRUE
  PageLimit = 1
SYMMETRY Interchangeable
INVARIANTS
  EveryListedRunOpens
  PageKeepsItsPromise
  NothingMissedWhilePaging
