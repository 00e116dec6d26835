CONSTANTS
  e1 = e1
  e2 = e2
  s1 = s1
  old = old
  Payment = {e1, e2}
  Timed = {e1, e2}
  Legacy = {}
  Amount <- MCAmount
  Total <- MCTotal
  Daily = 2
  Monthly = 3
  DayLength = 2
  MonthLength = 4
  Validity = {1, 3}
  MaxClock = 3
  Open = 99
  Stall = TRUE
SPECIFICATION Spec
CHECK_DEADLOCK FALSE
INVARIANTS DailyOutflow
