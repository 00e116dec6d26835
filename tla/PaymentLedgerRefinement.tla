---------------------- MODULE PaymentLedgerRefinement ----------------------
(* The ledger against what it promises: PaymentLedger implements the       *)
(* atomic account of SpendingBudget.                                       *)
EXTENDS PaymentLedger

Account == INSTANCE SpendingBudget WITH spent <- recorded, limit <- budget

\* An attempt above the cap per request is never on its way to a hold; the
\* budget of a ledger does not change under an operation.
RequestCapped ==
  \A l \in Process : pc[l] \in Reserving => Amount(cur[l]) <= budget[l].perRequest

\* reserve, commit_durable and drop over a shared storage: to its users the
\* ledger is one account on which every operation is atomic.  Each behaviour
\* of the retried, failing and crashing storage calls is, seen through the
\* live reservations and the stream, a behaviour of the account.
Implements == Account!Spec
=============================================================================
