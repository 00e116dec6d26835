CONSTANTS
  Process = {l1, l2}
  Request = {r1, r2}
  Option <- MCOption
  Challenge <- MCChallenge
  Total <- MCTotal
  Budgets <- MCBudgets
  MaxU64 <- MCMaxU64
  NotANumber = NotANumber
  Absent = Absent
  Malformed = Malformed
  Cap = 1
  Streams <- MCStreams
  Holds = {h1}
SPECIFICATION MCSpec
CHECK_DEADLOCK FALSE
INVARIANTS SentIsRecorded OutflowWithinBudget PaysPreferred OpenCountsHistory InstantsKept
PROPERTIES ReservationsEnd
