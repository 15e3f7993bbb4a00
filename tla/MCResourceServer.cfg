SPECIFICATION Spec
SYMMETRY Interchangeable
CONSTANTS
  c1 = c1
  c2 = c2
  Calls = {c1, c2}
  n1 = n1
  n2 = n2
  Names = {n1, n2}
  Canonical <- InLowerCase
  Blank = Blank
  Nothing = Nothing
  Queries <- SomeQueries
  Faults <- SomeFaults
  OutboundTimeout = 1
  TokenMargin = 1
  UpstreamTimeout = 1
  WeatherTtl = 0
  CompanyTtl = 0
  IndexTtl = 1
  MaxClock = 2
  MaxCrashes = 1
INVARIANTS ServerTypeOK SettledDelivered DataIsRecent TokenOutlivesExchange AnswerIsTrue
