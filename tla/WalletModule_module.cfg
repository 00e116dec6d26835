CONSTANTS
  Call = {c1, c2}
  MaxServices = 2
SPECIFICATION FairSpec
INVARIANTS PhraseOnlyWhileNeeded LedgerOnItsRoute
PROPERTIES NobodyInside LostOnlyByItsHandle CallsReturn
