CONSTANTS
  p1 = p1  p2 = p2  p3 = p3
  Process = {l1, l2}
  Payment = {p1, p3}
  NoPayment = NoPayment
  Amount <- MCAmount
  Total <- MCTotal
  Budgets <- MCBudgets
  MaxU64 <- MCMaxU64
  HoldTTL = 1
  CasAttempts = 2
  MaxClock = 1
  Faults = {"crash", "lapse", "replace", "storage"}
  CommitModes = {TRUE, FALSE}
SPECIFICATION FairSpec
INVARIANTS RefusalIsJust
PROPERTIES OnlyOwnerExtends OperationsReturn
