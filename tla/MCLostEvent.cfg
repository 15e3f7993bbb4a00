SPECIFICATION LedgerSpec
SYMMETRY Threads
CONSTANTS
  w1 = w1
  w2 = w2
  d1 = d1
  Writers = {w1, w2}
  Drillers = {d1}
  MaxEvents = 1
  MaxChanges = 2
  MaxDrills = 0
  MaxCrashes = 0
INVARIANTS ChangesLogged
