SPECIFICATION Spec
CONSTANTS
  a1 = a1
  a2 = a2
  n1 = n1
  t1 = t1
  t2 = t2
  Agents = {a1, a2}
  Nonces = {n1}
  Threads = {t1, t2}
  RequestTTL = 2
  Ahead = 1
  Behind = 1
  MaxClock = 5
  MaxRestarts = 1
SYMMETRY Symmetric
INVARIANTS IdentityTypeOK AcceptedOnce RefusedOnlyIfAccepted
