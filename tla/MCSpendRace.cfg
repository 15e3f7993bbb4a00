SPECIFICATION Spec
SYMMETRY Threads
CONSTANTS
  a1 = a1
  h1 = h1
  h2 = h2
  Agents = {a1}
  Handlers = {h1, h2}
  Configs <- RaceConfigs
  Amounts = {1}
  Live = Live
  Absent = Absent
  NoLimit = NoLimit
  DayLength = 2
  VelocityWindow = 2
  OutboundTimeout = 1
  MaxClock = 3
  MaxSpends = 3
  MaxReviews = 0
  MaxEdits = 0
  MaxResets = 0
  MaxCrashes = 1
INVARIANTS WithinCap RateBound SettledNotDenied LeaksExplained
