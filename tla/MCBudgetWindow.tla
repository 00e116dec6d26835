-------------------------- MODULE MCBudgetWindow ---------------------------
(* Instances of BudgetWindow for TLC.                                      *)
EXTENDS BudgetWindow, FiniteSetsExt

CONSTANTS e1, e2, s1, old

\* Timed payments e1 and e2, a Solana payment s1 and a legacy row.  e2 uses up
\* a day's limit of 2, and with one more a month's limit of 3.
MCAmount(p) == IF p = e2 THEN 2 ELSE 1
MCTotal(S)  == MapThenSumSet(MCAmount, S)
=============================================================================
