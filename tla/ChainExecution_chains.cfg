SPECIFICATION MCSpec
CONSTANTS
  c1 = c1
  c2 = c2
  Call = {c1, c2}
  Assignments <- MCAssignments
  Coins <- MCCoins
  FeeLimit = 100
  MaxRepoints = 1
  MaxBlockhash = 2
  MaxU64 = 1000000
  Refused = Refused
  None = None
  NotANumber = NotANumber
  NoLimit = NoLimit
  Accounts = {"evm", "btc", "solana", "tron"}
  VarintGroups = 3
  VarintTop = 3
  SignatureLen = 3
  KeyLen = 2
  WordLen = 3
  AddressLen = 2
  AmountLen = 2
CHECK_DEADLOCK FALSE
INVARIANTS   ReplacesOnlyUnseen  PlanHolds FieldsHold EncodingsHold
