SPECIFICATION FairSpec
CONSTANTS
  w1 = w1
  d1 = d1
  t1 = t1
  t2 = t2
  NoThread = NoThread
  Writers = {w1}
  Drillers = {d1}
  Anchorers = {t1, t2}
  MaxEvents = 3
  MaxChanges = 0
  MaxDrills = 0
  MaxCrashes = 1
  Threshold = 2
  AnchorLimit = 5
  Unconfirmed = TRUE
  MaxPlain = 1
  MaxStarts = 1
  MaxErrors = 1
  MaxReports = 0
  MaxRewrites = 0
INVARIANTS NoSecondFee AnchorsPublished
PROPERTIES SlotFreed
