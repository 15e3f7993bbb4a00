SPECIFICATION FairSpec
CONSTANTS
  a1 = a1
  a2 = a2
  o1 = o1
  o2 = o2
  Agents = {a1, a2}
  Onboardings = {o1, o2}
  Nobody = Nobody
  NoKey = NoKey
  FundAlgo = 3
  FundUsdc = 2
  OptInFee = 1
  MaxDeletes = 1
  MaxSpends = 2
  MaxCrashes = 1
INVARIANTS ProvisioningTypeOK KeysKept ReadyIsFunded NeverOverfunded
PROPERTIES StatusSettles
