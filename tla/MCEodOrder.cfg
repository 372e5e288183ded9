SPECIFICATION FairEodSpec
CONSTANTS
  i1 = i1
  i2 = i2
  o1 = o1
  gbp = gbp
  eur = eur
  Currency = {gbp}
  Instance = {i1, i2}
  Operator = {o1}
  LastDay = 4
  MaxDaysPerTick = 2
  ManualDays = {3}
  Scopes <- MCScopes

PROPERTY NeverOverFailed
CHECK_DEADLOCK FALSE
