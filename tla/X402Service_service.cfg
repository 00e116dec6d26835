CONSTANTS
  Process = {w1}
  Payment = {p1, p2, p3}
  Timed = {p3}
  Legacy = {p3}
  NoPayment = NoPayment
  MaxPending = 2
  MaxOpens = 2
  Faults = {"storage", "crash", "replace"}
SYMMETRY Symmetry
SPECIFICATION Spec
CHECK_DEADLOCK FALSE
INVARIANTS PaidIsRecorded  CapacityKept SlotsMatchCalls
PROPERTIES SettledIsFinal
