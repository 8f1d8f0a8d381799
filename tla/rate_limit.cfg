SPECIFICATION Spec
CONSTANTS
  Keys = {k1}
  NoKey = NoKey
  Goroutines = {g1, g2}
  Rpm = 2
  Window = 2
  IdleTTL = 4
  EvictEvery = 1
  MaxLag = 1
  MaxNow = 8
SYMMETRY Interchangeable
INVARIANTS
  TwoBudgetsAtMost
  DenialIsEarned
  IdleEntriesReclaimed
