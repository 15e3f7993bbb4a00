SPECIFICATION Spec
SYMMETRY Threads
CONSTANTS
  w1 = w1
  d1 = d1
  t1 = t1
  NoThread = NoThread
  Writers = {w1}
  Drillers = {d1}
  Anchorers = {t1}
  MaxEvents = 2
  MaxChanges = 0
  MaxDrills = 2
  MaxCrashes = 0
  Threshold = 9
  AnchorLimit = 5
  Unconfirmed = FALSE
  MaxPlain = 1
  MaxStarts = 1
  MaxErrors = 0
  MaxReports = 1
  MaxRewrites = 1
INVARIANTS AnchoringTypeOK ReportCatches NoFalseAlarm AnchorTells
