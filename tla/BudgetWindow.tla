---------------------------- MODULE BudgetWindow ----------------------------
(***************************************************************************)
(* The calendar windows of the spending budget: which records              *)
(* PaymentLedger::check_budget_at charges to the current day and month     *)
(* (src/crates/tinywallet-x402/src/ledger/store.rs), against what really   *)
(* settles on chain, and when.                                             *)
(*                                                                         *)
(* reserve is taken here as the atomic check-and-hold, as of the instant   *)
(* it captured on entry, that PaymentLedger shows it to be; a hold lasts   *)
(* until its payment is recorded or given up.  Clocks agree.               *)
(***************************************************************************)
EXTENDS Naturals

CONSTANTS
  Payment,      \* payment attempts
  Timed,        \* those with authorization_valid_until (EVM); the others are
                \* bound by a Solana block height
  Legacy,       \* timed payments an older release left behind as Failed
  Amount(_),    \* atomic units of an attempt
  Total(_),     \* sum of Amount over a set of attempts
  Daily,        \* daily_max_atomic
  Monthly,      \* monthly_max_atomic
  DayLength,    \* ticks of the clock per day
  MonthLength,  \* ticks of the clock per month, all months alike
  Validity,     \* how long a timed authorization may be valid
  MaxClock,     \* bound: the clock stops here
  Open,         \* None as an instant: later than every other
  Stall         \* whether a reserve may be overtaken by midnight

ASSUME CalendarAssumption ==
  /\ Daily \in Nat /\ Monthly \in Nat
  /\ DayLength \in Nat \ {0} /\ MonthLength \in Nat \ {0}
  /\ MonthLength % DayLength = 0
  /\ MaxClock \in Nat /\ Validity \subseteq Nat /\ Open \in Nat
  /\ \A v \in Validity : MaxClock + v < Open
  /\ Stall \in BOOLEAN

ASSUME PaymentAssumption ==
  /\ Legacy \subseteq Timed /\ Timed \subseteq Payment
  /\ Total(Legacy) <= Daily /\ Total(Legacy) <= Monthly

ASSUME TotalAssumption ==
  /\ Total({}) = 0
  /\ \A p \in Payment : Amount(p) \in Nat /\ Total({p}) = Amount(p)
  /\ \A S \in SUBSET Payment : Total(S) \in Nat
  /\ \A S, T \in SUBSET Payment : Total(S \cup T) + Total(S \cap T) = Total(S) + Total(T)

VARIABLES
  clock,
  asOf,       \* reserve calls in progress: the instant each captured
  tried,      \* attempts made
  held,       \* attempts with a hold
  rec,        \* the latest record of each payment
  dead,       \* authorizations beyond their last valid block height
  settledAt   \* when a payment settled on chain

vars == <<clock, asOf, tried, held, rec, dead, settledAt>>

Record(status, at, until, expired) ==
  [status |-> status, at |-> at, until |-> until, expired |-> expired]
NoRecord == Record("none", 0, Open, Open)

Statuses == {"none", "pending", "settled", "failed"}
Records  == [status : Statuses, at : Nat, until : Nat, expired : Nat]

\* The type invariant.
TypeOK ==
  /\ clock \in 0..MaxClock
  /\ asOf \in [Payment -> 0..MaxClock \cup {Open}]
  /\ tried \in SUBSET Payment /\ held \in SUBSET tried
  /\ rec \in [Payment -> Records]
  /\ dead \in SUBSET Payment
  /\ settledAt \in [Payment -> 0..MaxClock \cup {Open}]

Init ==
  /\ clock = 0
  /\ asOf = [p \in Payment |-> Open]
  /\ tried = Legacy /\ held = {} /\ dead = {}
  /\ \E v \in Validity :
       rec = [p \in Payment |-> IF p \in Legacy THEN Record("failed", 0, v, Open) ELSE NoRecord]
  /\ settledAt = [p \in Payment |-> Open]

-----------------------------------------------------------------------------
(* check_budget_at.                                                        *)

Start(t, length) == length * (t \div length)

\* authorization_window_end.
WindowEnd(r) == IF r.until # Open THEN r.until ELSE r.expired

\* is_unresolved: only timed rows are ever Failed here.
IsUnresolved(r) == r.status \in {"pending", "failed"}

\* Mutant: charged only to the window it was issued in.
OverlapsIssued(r, start, end) == r.at >= start /\ r.at < end

\* overlaps_authorization_window.
Overlaps(r, start, end) == r.at < end /\ WindowEnd(r) >= start

\* The records charged to the window of the given length around now.
Charged(now, length) ==
  LET start == Start(now, length)
      end   == start + length IN
  {p \in Payment : \/ IsUnresolved(rec[p]) /\ Overlaps(rec[p], start, end)
                   \/ rec[p].status = "settled" /\ rec[p].at >= start /\ rec[p].at < end}

\* Mutant: the month's limit is checked against the day's total.
AllowsPerDay(now, p) ==
  LET total == Total(held) + Total(Charged(now, DayLength)) + Amount(p) IN
  total <= Daily /\ total <= Monthly

\* Every hold is charged to every window.
Allows(now, p) ==
  /\ Total(held) + Total(Charged(now, DayLength)) + Amount(p) <= Daily
  /\ Total(held) + Total(Charged(now, MonthLength)) + Amount(p) <= Monthly

-----------------------------------------------------------------------------
(* The life of a payment.                                                  *)

Reserve(p) ==
  /\ p \notin tried
  /\ tried' = tried \cup {p}
  /\ asOf' = [asOf EXCEPT ![p] = clock]
  /\ UNCHANGED <<clock, held, rec, dead, settledAt>>

\* The attempt that succeeds, or the refusal.  Every attempt uses the instant
\* captured before the first one.
Decide(p) ==
  /\ asOf[p] # Open
  /\ Stall \/ Start(asOf[p], DayLength) = Start(clock, DayLength)
  /\ \/ Allows(asOf[p], p) /\ held' = held \cup {p}
     \/ ~Allows(asOf[p], p) /\ UNCHANGED held
  /\ asOf' = [asOf EXCEPT ![p] = Open]
  /\ UNCHANGED <<clock, tried, rec, dead, settledAt>>

\* commit_durable with the pending record; the authorization leaves.
Commit(p) ==
  /\ p \in held
  /\ held' = held \ {p}
  /\ \E until \in (IF p \in Timed THEN {clock + v : v \in Validity} ELSE {Open}) :
       rec' = [rec EXCEPT ![p] = Record("pending", clock, until, Open)]
  /\ UNCHANGED <<clock, asOf, tried, dead, settledAt>>

Drop(p) ==
  /\ p \in held
  /\ held' = held \ {p}
  /\ UNCHANGED <<clock, asOf, tried, rec, dead, settledAt>>

\* record with a receipt of success, stamped with the current instant.
RecordReceipt(p) ==
  /\ settledAt[p] # Open /\ IsUnresolved(rec[p])
  /\ rec' = [rec EXCEPT ![p].status = "settled", ![p].at = clock]
  /\ UNCHANGED <<clock, asOf, tried, held, dead, settledAt>>

\* record without a receipt: a Failed row is pending again.
RecordPending(p) ==
  /\ rec[p].status = "failed"
  /\ rec' = [rec EXCEPT ![p].status = "pending", ![p].at = clock]
  /\ UNCHANGED <<clock, asOf, tried, held, dead, settledAt>>

\* observe_solana_expiry.
ObserveExpiry(p) ==
  /\ p \in dead /\ rec[p].status = "pending" /\ rec[p].expired = Open
  /\ rec' = [rec EXCEPT ![p].expired = clock]
  /\ UNCHANGED <<clock, asOf, tried, held, dead, settledAt>>

\* The chain accepts an authorization, once, while it is valid.
Settle(p) ==
  /\ IsUnresolved(rec[p]) /\ settledAt[p] = Open
  /\ IF p \in Timed THEN clock < rec[p].until ELSE p \notin dead
  /\ settledAt' = [settledAt EXCEPT ![p] = clock]
  /\ UNCHANGED <<clock, asOf, tried, held, rec, dead>>

\* The chain passes the last valid block height of p.
Die(p) ==
  /\ p \notin Timed /\ rec[p].status = "pending" /\ p \notin dead
  /\ dead' = dead \cup {p}
  /\ UNCHANGED <<clock, asOf, tried, held, rec, settledAt>>

Tick ==
  /\ clock < MaxClock
  /\ clock' = clock + 1
  /\ UNCHANGED <<asOf, tried, held, rec, dead, settledAt>>

Next ==
  \/ \E p \in Payment :
       \/ Reserve(p) \/ Decide(p) \/ Commit(p) \/ Drop(p)
       \/ RecordReceipt(p) \/ RecordPending(p) \/ ObserveExpiry(p)
       \/ Settle(p) \/ Die(p)
  \/ Tick

Spec == Init /\ [][Next]_vars

-----------------------------------------------------------------------------
(* Properties.                                                             *)

\* What settles on chain in the window of the given length that starts at s.
Outflow(s, length) ==
  Total({p \in Payment : settledAt[p] # Open /\ Start(settledAt[p], length) = s})

\* check_budget_at: "The most that may settle or remain unresolved in a day"
\* (types.rs:127).  What settles on chain in any one day keeps within the
\* daily limit, whenever it was authorized and whenever its receipt arrives.
DailyOutflow == \A s \in 0..MaxClock : Outflow(s, DayLength) <= Daily

\* The same for the months (types.rs:129).
MonthlyOutflow == \A s \in 0..MaxClock : Outflow(s, MonthLength) <= Monthly
=============================================================================
