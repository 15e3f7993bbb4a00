SPECIFICATION Spec
SYMMETRY Threads
CONSTANTS
  a1 = a1
  h1 = h1
  h2 = h2
  Agents = {a1}
  Handlers = {h1, h2}
  Configs <- HoldConfigs
  Amounts = {2}
  Live = Live
  Absent = Absent
  NoLimit = NoLimit
  DayLength = 2
  VelocityWindow = 2
  OutboundTimeout = 1
  MaxClock = 0
  MaxSpends = 2
  MaxReviews = 2
  MaxEdits = 1
  MaxResets = 1
  MaxCrashes = 1
INVARIANTS TypeOK WithinCap PayingHoldsBudget OnePayment HeldUntilGranted BarredNeverPays
PROPERTIES DecisionIsFinal KeepsBudget
