CONSTANTS
  Quote = {b1, q1}
  Fixed = {b1}
  Owner = {o1}
  Call = {c1, c2}
  Cap = 2
  MaxServices = 2
  MaxLanded = 2
  Faults = {"lost", "cancel"}
SPECIFICATION FairSpec
CHECK_DEADLOCK FALSE
PROPERTY LifecycleProceeds
