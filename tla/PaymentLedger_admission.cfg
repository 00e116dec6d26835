CONSTANTS
  p1 = p1  p2 = p2  p3 = p3
  Process = {l1, l2}
  Payment = {p1, p2, p3}
  NoPayment = NoPayment
  Amount <- MCAmount
  Total <- MCTotal
  Budgets <- MCTwoBudgets
  MaxU64 <- MCMaxU64
  HoldTTL = 2
  CasAttempts = 2
  MaxClock = 2
  Faults = {"crash","replace"}
  CommitModes = {TRUE}
SPECIFICATION Spec
SYMMETRY Symmetry
INVARIANTS  NeverMissing LedgerInv
PROPERTIES AdmissionsFit Implements
