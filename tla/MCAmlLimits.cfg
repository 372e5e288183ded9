\* Three days, two of them in one month; a reserve call may be answered on the next day.
SPECIFICATION Spec
CONSTANTS
  a = a
  b = b
  c = c
  Transfer <- MCTransfer
  Amount <- MCAmount
  MaxTxnAmount = 2
  DailyMaxAmount = 3
  DailyCount = 2
  MonthlyMaxAmount = 4
  MonthlyCount = 2
  DaysPerMonth = 2
  LastDay = 2
  MaxStraddle = 1
  MaxLate = 0
INVARIANTS
  TypeOK
  PendingAmountWithinLimits
  PendingCountWithinLimits
  SummaryCovers
PROPERTIES
  ReservationSpec
