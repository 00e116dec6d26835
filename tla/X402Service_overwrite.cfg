CONSTANTS
  Process = {w1, w2}
  Payment = {p1, p2}
  Timed = {}
  Legacy = {}
  NoPayment = NoPayment
  MaxPending = 2
  MaxOpens = 1
  Faults = {}
SYMMETRY Symmetry
SPECIFICATION Spec
CHECK_DEADLOCK FALSE
PROPERTIES SettledIsFinal
