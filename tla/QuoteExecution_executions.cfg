CONSTANTS
  Quote = {b1, q1, q2}
  Fixed = {b1}
  Owner = {o1, o2}
  Call = {c1, c2, c3}
  Cap = 2
  MaxServices = 2
  MaxLanded = 2
  Faults = {"cancel"}
SPECIFICATION Spec
CHECK_DEADLOCK FALSE
SYMMETRY Symmetry
INVARIANTS  OnePlace SubmittedOnce SentIsApproved QuotesOfOpenService
PROPERTY OwnerGated
