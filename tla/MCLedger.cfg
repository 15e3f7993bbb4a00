SPECIFICATION LedgerSpec
SYMMETRY Threads
CONSTANTS
  w1 = w1
  w2 = w2
  d1 = d1
  d2 = d2
  Writers = {w1, w2}
  Drillers = {d1, d2}
  MaxEvents = 3
  MaxChanges = 2
  MaxDrills = 4
  MaxCrashes = 1
INVARIANTS LedgerTypeOK TamperLocated HeadCommits Restorable
