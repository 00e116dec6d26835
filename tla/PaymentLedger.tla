--------------------------- MODULE PaymentLedger ---------------------------
(***************************************************************************)
(* The x402 spending ledger: admission of payments against one budget by   *)
(* several processes that share one storage                                *)
(* (src/crates/tinywallet-x402/src/ledger).                                *)
(*                                                                         *)
(* The storage holds an append-only stream of payment records and one      *)
(* document of budget holds that is written by compare-and-swap.  Each     *)
(* process has one ledger behind a mutex, so a process runs one ledger     *)
(* operation at a time; operations of different processes interleave       *)
(* between any two storage calls.  An action is one storage call of one    *)
(* process with the in-memory work up to the next call.                    *)
(*                                                                         *)
(* A payment attempt p stands for its amount, its hold key and its record  *)
(* id (all three are fresh per attempt in the code).  All attempts fall    *)
(* into one day and one month; windows are the matter of BudgetWindow.     *)
(***************************************************************************)
EXTENDS Naturals, FiniteSets

CONSTANTS
  Process,      \* processes, each with a process-wide ledger (global.rs)
  Payment,      \* payment attempts
  NoPayment,    \* not an attempt
  Amount(_),    \* atomic units of an attempt
  Total(_),     \* sum of Amount over a set of attempts
  Budgets,      \* the SpendingBudget values a host may configure
  MaxU64,       \* u64::MAX
  HoldTTL,      \* HOLD_TTL_MS, in ticks of the clock
  CasAttempts,  \* HOLD_CAS_ATTEMPTS
  MaxClock,     \* bound: the clock stops here
  Faults,       \* what may go wrong, see AllFaults
  CommitModes   \* TRUE: Reservation::commit_durable, FALSE: Reservation::commit

AllFaults == {"storage",   \* a storage call fails, a write perhaps after it took effect
              "crash",     \* a process dies and loses its memory
              "replace",   \* init_global or clear_global while reservations are alive
              "lapse"}     \* a hold outlives its lease before the payment is recorded

ASSUME ConstantsAssumption ==
  /\ MaxU64 \in Nat
  /\ Budgets \subseteq [perRequest : 0..MaxU64, daily : 0..MaxU64, monthly : 0..MaxU64]
  /\ HoldTTL \in Nat \ {0}
  /\ CasAttempts \in Nat \ {0}
  /\ MaxClock \in Nat
  /\ Faults \subseteq AllFaults
  /\ CommitModes \subseteq BOOLEAN
  /\ NoPayment \notin Payment

ASSUME AmountAssumption == \A p \in Payment : Amount(p) \in 0..MaxU64

\* Total is the measure on sets of attempts that Amount generates.
ASSUME TotalAssumption ==
  /\ Total({}) = 0
  /\ \A p \in Payment : Total({p}) = Amount(p)
  /\ \A S \in SUBSET Payment : Total(S) \in Nat
  /\ \A S, T \in SUBSET Payment : Total(S \cup T) + Total(S \cap T) = Total(S) + Total(T)

VARIABLES
  \* the shared storage
  holds,         \* wallet.budgets/holds: expiry of each hold, NoHold when absent
  recorded,      \* ids with an entry in the wallet.payments stream
  keyed,         \* those whose entry carries the committed hold key
  \* the memory of each process
  records,       \* PaymentLedger.records, by id
  committed,     \* PaymentLedger.committed_holds
  reservations,  \* PaymentLedger.reservations
  budget,        \* PaymentLedger.budget
  held,          \* live Reservation values, not yet committed or dropped
  failed,        \* Reservation values whose commit_durable returned an error
  \* the operation a process is in the middle of
  pc, cur, now, tries, snap,
  fresh,         \* processes whose loaded hold version is still the stored one
  \* the environment, and history
  clock,
  started,       \* attempts already made
  lost           \* paid by Reservation::commit without a durable record

storage == <<holds, recorded, keyed>>
memory  == <<records, committed, reservations, budget, held, failed>>
opvars  == <<pc, cur, now, tries, snap, fresh>>
vars    == <<storage, memory, opvars, clock, started, lost>>

NoHold  == 0
NoHolds == [p \in Payment |-> NoHold]

Reserving == {"reserve_load", "reserve_check", "reserve_recheck", "reserve_store"}
Releasing == {"release_load", "release_store"}
Renewing  == {"renew_load", "renew_store"}
PCs == {"closed", "idle"} \cup Reserving \cup Releasing \cup Renewing

StorageTypeOK ==
  /\ holds \in [Payment -> Nat]
  /\ recorded \in SUBSET Payment
  /\ keyed \in SUBSET recorded

MemoryTypeOK ==
  /\ records \in [Process -> SUBSET Payment]
  /\ committed \in [Process -> SUBSET Payment]
  /\ reservations \in [Process -> SUBSET Payment]
  /\ budget \in [Process -> Budgets]
  /\ held \in [Process -> SUBSET Payment]
  /\ failed \in SUBSET Payment

OpTypeOK ==
  /\ pc \in [Process -> PCs]
  /\ cur \in [Process -> Payment \cup {NoPayment}]
  /\ now \in [Process -> Nat]
  /\ tries \in [Process -> Nat]
  /\ snap \in [Process -> [Payment -> Nat]]
  /\ fresh \in SUBSET Process
  /\ \A l \in Process : pc[l] \in Reserving \cup Releasing => cur[l] \in Payment

\* The type invariant of the ledger's state.
TypeOK ==
  /\ StorageTypeOK
  /\ MemoryTypeOK
  /\ OpTypeOK
  /\ clock \in Nat
  /\ started \in SUBSET Payment
  /\ lost \in SUBSET Payment

\* What the budget must cover: payments that were let through and may still
\* be made, and payments that were.
Held     == UNION {held[l] : l \in Process}
Admitted == Held \cup recorded \cup lost

Init ==
  /\ holds = NoHolds
  /\ recorded = {} /\ keyed = {}
  /\ records = [l \in Process |-> {}]
  /\ committed = [l \in Process |-> {}]
  /\ reservations = [l \in Process |-> {}]
  /\ budget \in [Process -> Budgets]
  /\ held = [l \in Process |-> {}]
  /\ failed = {}
  /\ pc = [l \in Process |-> "idle"]
  /\ cur = [l \in Process |-> NoPayment]
  /\ now = [l \in Process |-> 0]
  /\ tries = [l \in Process |-> 0]
  /\ snap = [l \in Process |-> NoHolds]
  /\ fresh = {}
  /\ clock = 0
  /\ started = {} /\ lost = {}

-----------------------------------------------------------------------------
(* The frame of an operation.                                              *)

\* The operation of l on p starts, as of instant t.
Begin(l, p, t, at) ==
  /\ pc' = [pc EXCEPT ![l] = at]
  /\ cur' = [cur EXCEPT ![l] = p]
  /\ now' = [now EXCEPT ![l] = t]
  /\ UNCHANGED <<tries, snap, fresh>>

\* The operation returns: its locals are gone.  fr is who is still fresh.
Return(l, at, fr) ==
  /\ pc' = [pc EXCEPT ![l] = at]
  /\ cur' = [cur EXCEPT ![l] = NoPayment]
  /\ now' = [now EXCEPT ![l] = 0]
  /\ tries' = [tries EXCEPT ![l] = 0]
  /\ snap' = [snap EXCEPT ![l] = NoHolds]
  /\ fresh' = fr \ {l}

\* A loaded document doc, as it will be written back, and its version.
Loaded(l, doc, at) ==
  /\ pc' = [pc EXCEPT ![l] = at]
  /\ snap' = [snap EXCEPT ![l] = doc]
  /\ fresh' = fresh \cup {l}
  /\ UNCHANGED <<cur, now, tries>>

\* Mutant: retry without the bound on attempts.
RetryForever(l, at) ==
  /\ pc' = [pc EXCEPT ![l] = at]
  /\ snap' = [snap EXCEPT ![l] = NoHolds]
  /\ fresh' = fresh \ {l}
  /\ UNCHANGED <<cur, now, tries>>

\* An attempt was lost to another writer: load again, or give up.
Retry(l, at) ==
  \/ /\ tries[l] + 1 < CasAttempts
     /\ pc' = [pc EXCEPT ![l] = at]
     /\ tries' = [tries EXCEPT ![l] = @ + 1]
     /\ snap' = [snap EXCEPT ![l] = NoHolds]
     /\ fresh' = fresh \ {l}
     /\ UNCHANGED <<cur, now>>
  \/ /\ tries[l] + 1 >= CasAttempts
     /\ Return(l, "idle", fresh)

\* Mutant: an unconditional put.
StoreHoldsBlindly(l) == holds' = snap[l]

\* Persist::store_holds: the put succeeds only on the version that was read.
StoreHolds(l) == l \in fresh /\ holds' = snap[l]

\* refresh_records: everything appended since next_offset.
RefreshRecords(l) ==
  /\ records' = [records EXCEPT ![l] = @ \cup recorded]
  /\ committed' = [committed EXCEPT ![l] = @ \cup keyed]

-----------------------------------------------------------------------------
(* PaymentLedger::reserve.                                                 *)

Saturating(n) == IF n > MaxU64 THEN MaxU64 ELSE n

\* Mutant: saturating_add in place of checked_add.
BudgetAllowsSaturated(b, p, H, R) ==
  LET total == Saturating(Total(H) + Total(R) + Amount(p)) IN
  /\ Amount(p) <= b.perRequest
  /\ total <= b.daily
  /\ total <= b.monthly

\* check_budget_at over the holds H and the records R: saturating folds, then
\* one checked addition.
BudgetAllows(b, p, H, R) ==
  LET total == Saturating(Total(H) + Total(R)) + Amount(p) IN
  /\ Amount(p) <= b.perRequest
  /\ total <= MaxU64
  /\ total <= b.daily
  /\ total <= b.monthly

Reserve(l, p) ==
  /\ pc[l] = "idle" /\ p \notin started
  /\ started' = started \cup {p}
  /\ \/ Amount(p) > budget[l].perRequest /\ UNCHANGED opvars
     \/ Amount(p) <= budget[l].perRequest /\ Begin(l, p, clock, "reserve_load")
  /\ UNCHANGED <<storage, memory, clock, lost>>

ReserveLoad(l) ==
  /\ pc[l] = "reserve_load"
  /\ Loaded(l, holds, "reserve_check")
  /\ UNCHANGED <<storage, memory, clock, started, lost>>

\* Mutant: without the filter on committed_holds.
CountedHoldsTwice(l) == {q \in Payment : snap[l][q] > now[l]}

\* doc.holds.retain(..): unexpired and not known to be committed.
CountedHolds(l) == {q \in Payment : snap[l][q] > now[l] /\ q \notin committed'[l]}

\* The document that will be written: the counted holds and the new one.
WithHold(l) ==
  [q \in Payment |-> IF q = cur[l] THEN now[l] + HoldTTL
                     ELSE IF q \in CountedHolds(l) THEN snap[l][q]
                     ELSE NoHold]

\* The records are read after the holds.
ReserveCheck(l) ==
  /\ pc[l] = "reserve_check"
  /\ RefreshRecords(l)
  /\ \/ /\ BudgetAllows(budget[l], cur[l], CountedHolds(l), records'[l])
        /\ pc' = [pc EXCEPT ![l] = "reserve_store"]
        /\ snap' = [snap EXCEPT ![l] = WithHold(l)]
     \/ /\ ~BudgetAllows(budget[l], cur[l], CountedHolds(l), records'[l])
        /\ pc' = [pc EXCEPT ![l] = "reserve_recheck"]
        /\ UNCHANGED snap
  /\ UNCHANGED <<storage, reservations, budget, held, failed>>
  /\ UNCHANGED <<cur, now, tries, fresh, clock, started, lost>>

\* The refusal stands only if the hold document is still the one counted.
ReserveRecheck(l) ==
  /\ pc[l] = "reserve_recheck"
  /\ \/ l \in fresh /\ Return(l, "idle", fresh)
     \/ l \notin fresh /\ Retry(l, "reserve_load")
  /\ UNCHANGED <<storage, memory, clock, started, lost>>

ReserveStore(l) ==
  /\ pc[l] = "reserve_store"
  /\ \/ /\ StoreHolds(l)
        /\ reservations' = [reservations EXCEPT ![l] = @ \cup {cur[l]}]
        /\ held' = [held EXCEPT ![l] = @ \cup {cur[l]}]
        /\ Return(l, "idle", {})
     \/ /\ l \notin fresh
        /\ Retry(l, "reserve_load")
        /\ UNCHANGED <<holds, reservations, held>>
  /\ UNCHANGED <<recorded, keyed, records, committed, budget, failed>>
  /\ UNCHANGED <<clock, started, lost>>

-----------------------------------------------------------------------------
(* PaymentLedger::release.                                                 *)

\* The ledger forgets its hold on p before it touches the document; a hold
\* this ledger does not own is left alone.
BeginRelease(l, p) ==
  /\ reservations' = [reservations EXCEPT ![l] = @ \ {p}]
  /\ \/ p \in reservations[l] /\ Begin(l, p, 0, "release_load")
     \/ p \notin reservations[l] /\ UNCHANGED opvars

ReleaseLoad(l) ==
  /\ pc[l] = "release_load"
  /\ \/ holds[cur[l]] = NoHold /\ Return(l, "idle", fresh)
     \/ /\ holds[cur[l]] # NoHold
        /\ Loaded(l, [holds EXCEPT ![cur[l]] = NoHold], "release_store")
  /\ UNCHANGED <<storage, memory, clock, started, lost>>

ReleaseStore(l) ==
  /\ pc[l] = "release_store"
  /\ \/ StoreHolds(l) /\ Return(l, "idle", {})
     \/ l \notin fresh /\ Retry(l, "release_load") /\ UNCHANGED holds
  /\ UNCHANGED <<recorded, keyed, memory, clock, started, lost>>

-----------------------------------------------------------------------------
(* PaymentLedger::renew_holds.                                             *)

RenewHolds(l) ==
  /\ pc[l] = "idle" /\ reservations[l] # {}
  /\ Begin(l, NoPayment, clock, "renew_load")
  /\ UNCHANGED <<storage, memory, clock, started, lost>>

\* Mutant: only the holds of l are written back.
RenewedOwnOnly(l) ==
  [q \in Payment |-> IF q \in reservations[l] THEN now[l] + HoldTTL ELSE NoHold]

\* The document with every hold of l extended, or put back if it was pruned.
Renewed(l) ==
  [q \in Payment |-> IF q \in reservations[l] THEN now[l] + HoldTTL
                     ELSE IF holds[q] > now[l] THEN holds[q]
                     ELSE NoHold]

RenewLoad(l) ==
  /\ pc[l] = "renew_load"
  /\ Loaded(l, Renewed(l), "renew_store")
  /\ UNCHANGED <<storage, memory, clock, started, lost>>

RenewStore(l) ==
  /\ pc[l] = "renew_store"
  /\ \/ StoreHolds(l) /\ Return(l, "idle", {})
     \/ l \notin fresh /\ Retry(l, "renew_load") /\ UNCHANGED holds
  /\ UNCHANGED <<recorded, keyed, memory, clock, started, lost>>

-----------------------------------------------------------------------------
(* The Reservation value: commit_durable, commit and drop.                 *)

\* Mutant: the key is noted although the entry is not written.
AppendKeyOnly(l, p) ==
  /\ UNCHANGED recorded
  /\ keyed' = IF p \in reservations[l] THEN keyed \cup {p} ELSE keyed

\* A stream append by l of the record of p, carrying the hold key if l owns
\* the hold.
Append(l, p) ==
  /\ recorded' = recorded \cup {p}
  /\ keyed' = IF p \in reservations[l] THEN keyed \cup {p} ELSE keyed

\* append_record mirrors the entry: alone when the re-read after an
\* interleaved append failed, with everything before it otherwise.
Mirror(l, p) ==
  \/ /\ records' = [records EXCEPT ![l] = @ \cup recorded']
     /\ committed' = [committed EXCEPT ![l] = @ \cup keyed']
  \/ /\ "storage" \in Faults
     /\ records' = [records EXCEPT ![l] = @ \cup {p}]
     /\ committed' = [committed EXCEPT ![l] = @ \cup ({p} \cap reservations[l])]

\* The record first, then the release, under one lock.
Commit(l, p) ==
  /\ pc[l] = "idle" /\ p \in held[l] \ failed
  /\ Append(l, p)
  /\ Mirror(l, p)
  /\ held' = [held EXCEPT ![l] = @ \ {p}]
  /\ BeginRelease(l, p)
  /\ UNCHANGED <<holds, budget, failed, clock, started, lost>>

\* commit_durable on a failed append, or without a ledger: an error, and the
\* hold stays until the Reservation is dropped.  The entry may be stored.
CommitDurableFails(l, p) ==
  /\ TRUE \in CommitModes
  /\ p \in held[l] \ failed
  /\ \/ pc[l] = "closed" /\ UNCHANGED <<recorded, keyed>>
     \/ /\ pc[l] = "idle" /\ "storage" \in Faults
        /\ Append(l, p) \/ UNCHANGED <<recorded, keyed>>
  /\ failed' = failed \cup {p}
  /\ UNCHANGED <<holds, records, committed, reservations, budget, held>>
  /\ UNCHANGED <<opvars, clock, started, lost>>

\* commit on a failed append keeps the record in memory only; without a
\* ledger it does nothing.  Either way the payment was made.
CommitFails(l, p) ==
  /\ FALSE \in CommitModes
  /\ p \in held[l] \ failed
  /\ held' = [held EXCEPT ![l] = @ \ {p}]
  /\ \/ /\ pc[l] = "closed"
        /\ UNCHANGED <<recorded, keyed, records, reservations, opvars>>
     \/ /\ pc[l] = "idle" /\ "storage" \in Faults
        /\ Append(l, p) \/ UNCHANGED <<recorded, keyed>>
        /\ records' = [records EXCEPT ![l] = @ \cup {p}]
        /\ BeginRelease(l, p)
  /\ lost' = lost \cup {p}
  /\ UNCHANGED <<holds, committed, budget, failed, clock, started>>

Drop(l, p) ==
  /\ pc[l] \in {"idle", "closed"} /\ p \in held[l]
  /\ held' = [held EXCEPT ![l] = @ \ {p}]
  /\ BeginRelease(l, p)
  /\ UNCHANGED <<storage, records, committed, budget, failed, clock, started, lost>>

-----------------------------------------------------------------------------
(* The process-wide handle, configuration, failures and time.              *)

UpdateBudget(l, b) ==
  /\ pc[l] = "idle"
  /\ budget' = [budget EXCEPT ![l] = b]
  /\ UNCHANGED <<storage, records, committed, reservations, held, failed>>
  /\ UNCHANGED <<opvars, clock, started, lost>>

\* Mutant: opening a ledger also starts with an empty hold document.
InitGlobalFresh(l, b) ==
  /\ \/ pc[l] = "closed"
     \/ pc[l] = "idle" /\ "replace" \in Faults
  /\ holds' = NoHolds /\ fresh' = {}
  /\ records' = [records EXCEPT ![l] = recorded]
  /\ committed' = [committed EXCEPT ![l] = keyed]
  /\ reservations' = [reservations EXCEPT ![l] = {}]
  /\ budget' = [budget EXCEPT ![l] = b]
  /\ pc' = [pc EXCEPT ![l] = "idle"]
  /\ UNCHANGED <<recorded, keyed, held, failed, cur, now, tries, snap, clock, started, lost>>

\* init_global over an open ledger, or after clear_global or a crash: a new
\* ledger that has read the whole stream and owns no hold.
InitGlobal(l, b) ==
  /\ \/ pc[l] = "closed"
     \/ pc[l] = "idle" /\ "replace" \in Faults
  /\ records' = [records EXCEPT ![l] = recorded]
  /\ committed' = [committed EXCEPT ![l] = keyed]
  /\ reservations' = [reservations EXCEPT ![l] = {}]
  /\ budget' = [budget EXCEPT ![l] = b]
  /\ pc' = [pc EXCEPT ![l] = "idle"]
  /\ UNCHANGED <<storage, held, failed, cur, now, tries, snap, fresh, clock, started, lost>>

\* The ledger of l and all it remembers is gone.
Forget(l) ==
  /\ records' = [records EXCEPT ![l] = {}]
  /\ committed' = [committed EXCEPT ![l] = {}]
  /\ reservations' = [reservations EXCEPT ![l] = {}]

ClearGlobal(l) ==
  /\ "replace" \in Faults
  /\ pc[l] = "idle"
  /\ Forget(l)
  /\ pc' = [pc EXCEPT ![l] = "closed"]
  /\ UNCHANGED <<storage, budget, held, failed, cur, now, tries, snap, fresh, clock, started, lost>>

Crash(l) ==
  /\ "crash" \in Faults
  /\ pc[l] # "closed" \/ held[l] # {}
  /\ Forget(l)
  /\ held' = [held EXCEPT ![l] = {}]
  /\ Return(l, "closed", fresh)
  /\ UNCHANGED <<storage, budget, failed, clock, started, lost>>

\* A storage call of an operation fails and the operation ends with it: a
\* reserve holds nothing, a release or a renewal leaves the hold to expire.
\* A failed write of the hold document may have been applied.
StorageFails(l) ==
  /\ "storage" \in Faults
  /\ pc[l] \notin {"idle", "closed"}
  /\ \/ UNCHANGED holds /\ Return(l, "idle", fresh)
     \/ /\ pc[l] \in {"reserve_store", "release_store", "renew_store"}
        /\ StoreHolds(l)
        /\ Return(l, "idle", {})
  /\ UNCHANGED <<recorded, keyed, memory, clock, started, lost>>

\* Payments that the hold document alone accounts for.
Unrecorded == Held \ recorded

\* The lease task renews every third of HoldTTL (spawn_lease_renewal), so
\* unless leases may lapse an admitted payment is recorded or dropped while
\* its hold lives, and an operation that will write holds stamped now +
\* HoldTTL ends before they are stale.
LeaseKept ==
  /\ \A p \in Unrecorded : holds[p] > clock'
  /\ \A l \in Process : pc[l] \in Reserving \cup Renewing => now[l] + HoldTTL > clock'

Tick ==
  /\ clock < MaxClock
  /\ clock' = clock + 1
  /\ "lapse" \in Faults \/ LeaseKept
  /\ UNCHANGED <<storage, memory, opvars, started, lost>>

\* The next storage call of the operation l is in.
Step(l) ==
  \/ ReserveLoad(l) \/ ReserveCheck(l) \/ ReserveRecheck(l) \/ ReserveStore(l)
  \/ ReleaseLoad(l) \/ ReleaseStore(l)
  \/ RenewLoad(l) \/ RenewStore(l)
  \/ StorageFails(l)

Next ==
  \/ \E l \in Process : Step(l) \/ RenewHolds(l) \/ ClearGlobal(l) \/ Crash(l)
  \/ \E l \in Process, p \in Payment :
       \/ Reserve(l, p) \/ Commit(l, p) \/ Drop(l, p)
       \/ CommitDurableFails(l, p) \/ CommitFails(l, p)
  \/ \E l \in Process, b \in Budgets : UpdateBudget(l, b) \/ InitGlobal(l, b)
  \/ Tick

Spec == Init /\ [][Next]_vars

\* A ledger operation runs on its own thread with the mutex held and every
\* storage call returns, so an operation in progress keeps making its calls.
FairSpec == Spec /\ \A l \in Process : WF_vars(Step(l))

-----------------------------------------------------------------------------
(* Properties.                                                             *)

\* reserve: whoever admits a payment, the payments admitted by all processes
\* together then fit the budget it was admitted under.  "Two payments that
\* each fit alone therefore cannot both be admitted when together they exceed
\* a cap, even across processes on one storage" (store.rs:258).
AdmissionFits ==
  \A l \in Process :
    \/ held'[l] \subseteq held[l]
    \/ Total(Admitted') <= budget[l].daily /\ Total(Admitted') <= budget[l].monthly

AdmissionsFit == [][AdmissionFits]_vars

\* reserve and try_commit_reservation: from its admission on, a payment is
\* covered by a live hold or by a stream entry, with no interval where neither
\* counts against the budget (store.rs:499).
NeverMissing ==
  \A p \in Admitted : holds[p] > clock \/ p \in recorded

\* reserve: a budget refusal is due to holds and records that really are
\* there.  No amount is counted twice, but for records written without their
\* hold key (by a ledger opened after the hold was taken).
RefusalIsJust ==
  \A l \in Process :
    pc[l] = "reserve_recheck" /\ l \in fresh =>
      LET live  == {q \in Payment : holds[q] > now[l]}
          total == Total(live) + Total((recorded \cup lost) \ (live \cap keyed)) + Amount(cur[l])
      IN  total > budget[l].daily \/ total > budget[l].monthly

\* store_holds and renew_holds: a hold appears, or lives longer, only by a
\* write of the ledger that reserves it.  No writer puts back a hold another
\* one released, and nobody keeps the hold of a dead process alive.
OnlyOwnerExtends ==
  [][\A p \in Payment : holds'[p] > holds[p] =>
       \E l \in Process : \/ pc[l] = "reserve_store" /\ cur[l] = p
                          \/ pc[l] = "renew_store" /\ p \in reservations[l]]_vars

\* HOLD_CAS_ATTEMPTS: every ledger operation returns, so the process-wide
\* mutex is always released, however the other processes write.
OperationsReturn ==
  \A l \in Process : pc[l] \notin {"idle", "closed"} ~> pc[l] \in {"idle", "closed"}

-----------------------------------------------------------------------------
(* The inductive strengthening of NeverMissing and AdmissionsFit.          *)

\* A payment is held by one process at most, and by none while it is being
\* reserved or released.
Ownership ==
  /\ recorded \subseteq started
  /\ \A l \in Process : reservations[l] \subseteq held[l] /\ held[l] \subseteq started
  /\ \A l, m \in Process : l # m => held[l] \cap held[m] = {}
  /\ \A l \in Process : pc[l] \in Reserving \cup Releasing =>
       cur[l] \in started /\ \A m \in Process : cur[l] \notin held[m]
  /\ \A l \in Process : pc[l] = "closed" => reservations[l] = {}
  /\ \A l \in Process : pc[l] \in Reserving => cur[l] \notin recorded
  /\ \A l, m \in Process :
       l # m /\ pc[l] \in Reserving /\ pc[m] \in Reserving \cup Releasing => cur[l] # cur[m]

\* The ledgers know of no entry that is not in the stream.
ViewsSound == \A l \in Process : committed[l] \subseteq keyed

\* A document that can still be written back holds nothing the stored one
\* does not, but for the writer's own holds.
SnapBounded ==
  \A l \in fresh : \A q \in Payment :
    \/ pc[l] \in Reserving /\ q = cur[l]
    \/ pc[l] \in Renewing /\ q \in reservations[l]
    \/ snap[l][q] <= holds[q]

\* Every lease outlives the clock, also the ones about to be written.
LeasesLive ==
  /\ \A l \in Process : \A p \in held[l] \ recorded : holds[p] > clock
  /\ \A l \in Process : pc[l] \in Reserving \cup Renewing =>
       now[l] <= clock /\ now[l] + HoldTTL > clock

\* A document that can still be written back keeps every hold that counts.
SnapComplete ==
  \A l \in fresh :
    /\ pc[l] = "reserve_check" => snap[l] = holds
    /\ pc[l] = "reserve_store" => snap[l][cur[l]] = now[l] + HoldTTL
    /\ pc[l] \in {"reserve_store", "release_store", "renew_store"} =>
         \A m \in Process : \A q \in held[m] \ recorded :
           \/ snap[l][q] = holds[q]
           \/ pc[l] = "renew_store" /\ snap[l][q] = now[l] + HoldTTL

\* Whoever may still write its hold has room for it.
RoomLeft ==
  \A l \in fresh : pc[l] = "reserve_store" =>
    LET total == Total(Admitted) + Amount(cur[l]) IN
    total <= budget[l].daily /\ total <= budget[l].monthly

\* Nothing was paid behind the back of the storage, and what was admitted
\* does not overflow.
NothingLost == lost = {} /\ Total(Admitted) <= MaxU64

\* The whole: from it an admission keeps within the budget and no admitted
\* amount goes uncounted.
LedgerInv ==
  /\ Ownership /\ ViewsSound /\ SnapBounded
  /\ LeasesLive /\ SnapComplete /\ NothingLost /\ RoomLeft
=============================================================================
