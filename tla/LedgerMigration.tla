-------------------------- MODULE LedgerMigration --------------------------
(***************************************************************************)
(* Moving the ledger from its first storage layout to the present one      *)
(* (ledger/schema.rs, schema/legacy_payment.rs, service/migration.rs), and *)
(* the gates a ledger passes before it opens (ledger/persist.rs).          *)
(*                                                                         *)
(* The host drives the migration: it asks the module to transform what it  *)
(* read, writes the result, removes the source and, at the end, writes the *)
(* readiness record.  It may stop anywhere and go on later.  Ledgers are   *)
(* opened meanwhile.                                                       *)
(***************************************************************************)
EXTENDS Integers, Sequences, FiniteSets, SequencesExt

CONSTANTS Process,     \* processes that open a ledger
          Holds,       \* keys of budget holds
          Streams      \* histories the first layout may hold

VARIABLES legacy,      \* x402.payments: sequence of [instant, amount],
                       \* an instant being [year, month, day, second]
          payments,    \* wallet.payments: sequence of [day, second, amount]
          legacyHolds, \* x402.budgets/holds: {} or {document}
          holds,       \* wallet.budgets/holds: {} or {document}
          ready,       \* the readiness record is written
          gate,        \* gate[l]: how far process l is in opening its ledger
          imported     \* history: the payments and holds there were before

vars == <<legacy, payments, legacyHolds, holds, ready, gate, imported>>

\* A hold document maps the keys it has to an amount; a member without one is
\* malformed.
NoAmount  == -1
HoldsDocs == UNION {[K -> {1, NoAmount}] : K \in SUBSET Holds}

Init ==
  /\ legacy \in Streams
  /\ legacyHolds \in {{}} \cup {{d} : d \in HoldsDocs}
  /\ payments = <<>> /\ holds = {}
  /\ ready = FALSE
  /\ gate = [l \in Process |-> "closed"]
  /\ imported = <<legacy, legacyHolds>>

-----------------------------------------------------------------------------
(* parse_rfc3339_ms, on the numbers of a text that is laid out correctly.  *)

LeapYear(y) == y % 4 = 0 /\ (y % 100 # 0 \/ y % 400 = 0)

DaysInMonth(y, m) ==
  CASE m = 2 -> IF LeapYear(y) THEN 29 ELSE 28
    [] m \in {4, 6, 9, 11} -> 30
    [] m \in {1, 3, 5, 7, 8, 10, 12} -> 31
    [] OTHER -> 0

\* A leap second is let through.
Readable(t) == t.day \in 1..DaysInMonth(t.year, t.month) /\ t.second \in 0..86400

\* Mutant: the year does not start in March.
DaysFromJanuary(t) ==
  LET y   == t.year
      era == y \div 400
      yoe == y - era * 400
      doy == (153 * ((t.month + 9) % 12) + 2) \div 5 + t.day - 1
  IN  era * 146097 + yoe * 365 + yoe \div 4 - yoe \div 100 + doy - 719468

\* Days since 1970-01-01, counting years from March.
DaysFromCivil(t) ==
  LET y   == IF t.month <= 2 THEN t.year - 1 ELSE t.year
      era == y \div 400
      yoe == y - era * 400
      doy == (153 * ((t.month + 9) % 12) + 2) \div 5 + t.day - 1
  IN  era * 146097 + yoe * 365 + yoe \div 4 - yoe \div 100 + doy - 719468

\* A legacy entry as it is stored now.
StoredPayment(e) ==
  [day |-> DaysFromCivil(e.instant), second |-> e.instant.second, amount |-> e.amount]

\* migrate_payments_stream: entries that cannot be read are skipped.
migrate_payments_stream(entries) ==
  LET kept == SelectSeq(entries, LAMBDA e : Readable(e.instant))
  IN  [i \in 1..Len(kept) |-> StoredPayment(kept[i])]

\* renamed_holds: the whole document, or nothing when any hold is malformed.
renamed_holds(doc) ==
  IF \A k \in DOMAIN doc : doc[k] # NoAmount THEN {doc} ELSE {}

-----------------------------------------------------------------------------
(* The host's migration.                                                   *)

\* stream_plan and stream_entries, a batch of any length at a time: the
\* entries are moved in order, each once.
MoveEntries(n) ==
  /\ n \in 1..Len(legacy)
  /\ payments' = payments \o migrate_payments_stream(SubSeq(legacy, 1, n))
  /\ legacy' = SubSeq(legacy, n + 1, Len(legacy))
  /\ UNCHANGED <<legacyHolds, holds, ready, gate, imported>>

\* documents: a document the module rejects stays where it is.
MoveHolds ==
  /\ \E doc \in legacyHolds : renamed_holds(doc) # {} /\ holds' = renamed_holds(doc)
  /\ legacyHolds' = {}
  /\ UNCHANGED <<legacy, payments, ready, gate, imported>>

\* The host records that both steps are complete.
MarkReady ==
  /\ legacy = <<>> /\ legacyHolds = {} /\ ~ready
  /\ ready' = TRUE
  /\ UNCHANGED <<legacy, payments, legacyHolds, holds, gate, imported>>

-----------------------------------------------------------------------------
(* Opening a ledger.                                                       *)

Pass(l, at) ==
  /\ gate' = [gate EXCEPT ![l] = at]
  /\ UNCHANGED <<legacy, payments, legacyHolds, holds, ready, imported>>

\* Persist::open_current: require_migration_ready.
OpenCurrent(l) == gate[l] = "closed" /\ ready /\ Pass(l, "open")

\* Persist::open, refuse_unmigrated: first the old stream must be empty ...
OpenStream(l) == gate[l] = "closed" /\ legacy = <<>> /\ Pass(l, "holds")

\* Mutant: the stream alone decides.
OpenUnheld(l) == gate[l] = "holds" /\ Pass(l, "open")

\* ... and then the old hold document gone.
OpenHolds(l) ==
  /\ gate[l] = "holds"
  /\ Pass(l, IF legacyHolds = {} THEN "open" ELSE "closed")

Next ==
  \/ \E n \in 1..Len(legacy) : MoveEntries(n)
  \/ MoveHolds
  \/ MarkReady
  \/ \E l \in Process : OpenCurrent(l) \/ OpenStream(l) \/ OpenHolds(l)

Spec == Init /\ [][Next]_vars

-----------------------------------------------------------------------------
(* Properties.                                                             *)

\* refuse_unmigrated and renamed_holds: opening on unmigrated data "would read
\* only the v2 names and admit spend without counting that history"
\* (persist.rs:252).  A ledger that is open has in its new storage every
\* payment that could be read, with its amount, and every hold there was.
OpenCountsHistory ==
  \A l \in Process : gate[l] = "open" =>
    /\ [i \in 1..Len(payments) |-> payments[i].amount] =
         LET kept == SelectSeq(imported[1], LAMBDA e : Readable(e.instant))
         IN  [i \in 1..Len(kept) |-> kept[i].amount]
    /\ holds = imported[2]

\* The days from 1970-01-01 to a date, counted year by year and month by month.
LeapYears(a, b) == Cardinality({y \in a..b : LeapYear(y)})
DayNumber(t) ==
  LET months == [m \in 1..(t.month - 1) |-> DaysInMonth(t.year, m)]
      years  == IF t.year >= 1970 THEN 365 * (t.year - 1970) + LeapYears(1970, t.year - 1)
                ELSE -(365 * (1970 - t.year) + LeapYears(t.year, 1969))
  IN  years + FoldLeft(+, 0, months) + t.day - 1

\* parse_rfc3339_ms: a migrated payment keeps its instant, so that the calendar
\* windows of the budget count it on the day it was made: the closed formula
\* agrees with counting the days one by one, leap years and centuries included.
InstantsKept ==
  \A i \in 1..Len(payments) :
    \E j \in 1..Len(imported[1]) :
      LET t == imported[1][j].instant IN
      Readable(t) /\ payments[i].day = DayNumber(t) /\ payments[i].second = t.second
=============================================================================
