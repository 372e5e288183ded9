\* The reading of README.md 197-200 that a finalization between the two reads refutes.
SPECIFICATION Spec
CONSTANTS
  a = a
  b = b
  c = c
  Transfer <- MCTransfer
  Amount <- MCAmount
  MaxTxnAmount = 2
  DailyMaxAmount = 3
  DailyCount = 2
  MonthlyMaxAmount = 4
  MonthlyCount = 2
  DaysPerMonth = 2
  LastDay = 2
  MaxStraddle = 0
  MaxLate = 0
PROPERTIES
  GrantedWithinLimit
