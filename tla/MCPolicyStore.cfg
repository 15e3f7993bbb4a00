SPECIFICATION Spec
SYMMETRY Symmetric
CONSTANTS
  a1 = a1
  a2 = a2
  s1 = s1
  s2 = s2
  t1 = t1
  t2 = t2
  Missing = Missing
  NoThread = NoThread
  Agents = {a1, a2}
  Settings = {s1, s2}
  Threads = {t1, t2}
  MaxCalls = 4
  MaxSaves = 2
  MaxFailures = 1
  MaxCrashes = 1
INVARIANTS PolicyTypeOK CacheIsFile ServedIsCurrent NothingLost
