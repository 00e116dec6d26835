--------------------------- MODULE SpendingBudget ---------------------------
(***************************************************************************)
(* What the x402 ledger promises to whoever pays through it, as if every   *)
(* operation were one atomic step on one shared account: a payment is let  *)
(* through only while everything held and spent fits the budget, and from  *)
(* then on it is held until it is recorded or given up.                    *)
(*                                                                         *)
(* PaymentLedger, with its storage calls, retries, leases and crashes, is  *)
(* shown to implement this; RequestTool uses it as its ledger.             *)
(***************************************************************************)
EXTENDS Naturals

CONSTANTS Process,    \* the processes that share the account
          Payment,    \* payment attempts
          Total(_),   \* sum of the amounts of a set of attempts
          Budgets     \* the limits a host may configure

VARIABLES held,    \* held[l]: the live reservations of l
          spent,   \* the recorded payments
          limit    \* limit[l]: the budget l was configured with

account == <<held, spent, limit>>

Admitted == spent \cup UNION {held[l] : l \in Process}

Init ==
  /\ held = [l \in Process |-> {}]
  /\ spent = {}
  /\ limit \in [Process -> Budgets]

Fits(l, S) == Total(S) <= limit[l].daily /\ Total(S) <= limit[l].monthly

Admit(l, p) ==
  /\ p \notin Admitted
  /\ Total({p}) <= limit[l].perRequest
  /\ Fits(l, Admitted \cup {p})
  /\ held' = [held EXCEPT ![l] = @ \cup {p}]
  /\ UNCHANGED <<spent, limit>>

(* Record first, give up the hold after; when the storage says it failed   *)
(* the record may be there and the reservation still alive.                *)
Record(l, p) ==
  /\ p \in held[l]
  /\ spent' = spent \cup {p}
  /\ held' \in {held, [held EXCEPT ![l] = @ \ {p}]}
  /\ UNCHANGED limit

(* A reservation is dropped, or a process dies with all of its own. *)
Release(l, S) ==
  /\ S \subseteq held[l] /\ S # {}
  /\ held' = [held EXCEPT ![l] = @ \ S]
  /\ UNCHANGED <<spent, limit>>

Configure(l, b) ==
  /\ limit' = [limit EXCEPT ![l] = b]
  /\ UNCHANGED <<held, spent>>

Next ==
  \E l \in Process :
    \/ \E p \in Payment : Admit(l, p) \/ Record(l, p)
    \/ \E S \in SUBSET held[l] : Release(l, S)
    \/ \E b \in Budgets : Configure(l, b)

Spec == Init /\ [][Next]_account
=============================================================================
