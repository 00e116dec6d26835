CONSTANTS
  e1 = e1
  e2 = e2
  s1 = s1
  old = old
  Payment = {e2, s1, old}
  Timed = {e2, old}
  Legacy = {old}
  Amount <- MCAmount
  Total <- MCTotal
  Daily = 2
  Monthly = 3
  DayLength = 2
  MonthLength = 4
  Validity = {1, 3}
  MaxClock = 6
  Open = 99
  Stall = FALSE
SPECIFICATION Spec
CHECK_DEADLOCK FALSE
INVARIANTS DailyOutflow MonthlyOutflow
