SPECIFICATION FairSpec
CONSTANTS
  a1 = a1
  h1 = h1
  Agents = {a1}
  Handlers = {h1}
  Configs <- CrashConfigs
  Amounts = {1}
  Live = Live
  Absent = Absent
  NoLimit = NoLimit
  DayLength = 2
  VelocityWindow = 2
  OutboundTimeout = 1
  MaxClock = 2
  MaxSpends = 1
  MaxReviews = 0
  MaxEdits = 0
  MaxResets = 0
  MaxCrashes = 1
PROPERTIES CrashReleases
