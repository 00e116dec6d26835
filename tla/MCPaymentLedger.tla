-------------------------- MODULE MCPaymentLedger --------------------------
(* Instances of PaymentLedger for TLC.                                     *)
EXTENDS PaymentLedgerRefinement, FiniteSetsExt, TLC

CONSTANTS p1, p2, p3

\* Any one attempt fits MCBudgets; p1 and p2 together exceed the cap.
MCAmount(p) == CASE p = p1 -> 2 [] p = p2 -> 2 [] p = p3 -> 1
MCTotal(S)  == MapThenSumSet(MCAmount, S)

Limits(r, d, m) == [perRequest |-> r, daily |-> d, monthly |-> m]

\* The cap is u64::MAX, so that only the checked addition refuses.
MCMaxU64  == 3
MCBudgets == {Limits(2, 3, 3)}

\* A second budget with a smaller monthly cap and a smaller request cap.
MCTwoBudgets == {Limits(2, 3, 3), Limits(1, 3, 2)}

\* p1 and p2 ask for the same amount.
Symmetry == Permutations(Process) \cup Permutations({p1, p2})
=============================================================================
