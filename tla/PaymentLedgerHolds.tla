------------------------- MODULE PaymentLedgerHolds -------------------------
(* PaymentLedger: who holds a payment, and who extends a hold.             *)
EXTENDS PaymentLedgerTypes

-----------------------------------------------------------------------------
(* Who holds a payment.                                                    *)

\* A step that continues or ends an operation, records nothing and takes no
\* new hold preserves Ownership.
LEMMA OwnershipKept ==
  ASSUME TypeOK, Ownership, NEW l \in Process, OthersSame(l), SameOp(l),
         recorded' = recorded, started' = started,
         \A m \in Process : /\ held'[m] \subseteq held[m]
                            /\ reservations'[m] \subseteq held'[m]
                            /\ pc'[m] = "closed" => reservations'[m] = {}
  PROVE  Ownership'
BY DEF Ownership, OthersSame, SameOp, Reserving, Releasing

\* A step that ends the reservation of p by l and may start its release
\* preserves Ownership, whether or not p was recorded.
LEMMA OwnershipReleased ==
  ASSUME TypeOK, Ownership, NEW l \in Process, NEW p \in held[l], BeginRelease(l, p),
         pc[l] \in {"idle", "closed"},
         recorded' = recorded \/ recorded' = recorded \cup {p}, started' = started,
         held' = [held EXCEPT ![l] = @ \ {p}]
  PROVE  Ownership'
<1>1. /\ held'[l] = held[l] \ {p}
      /\ \A m \in Process \ {l} : held'[m] = held[m]
  BY DEF TypeOK, MemoryTypeOK
<1>2. \A m \in Process : held'[m] \subseteq held[m] /\ reservations'[m] \subseteq held'[m]
  BY <1>1, BeginReleaseFrame DEF Ownership
<1>3. p \in started /\ \A m \in Process : p \notin held'[m]
  BY <1>1 DEF Ownership
<1>4. pc'[l] \notin Reserving /\ (pc'[l] \in Releasing => cur'[l] = p)
  BY BeginReleaseFrame DEF Reserving, Releasing
<1>5. \A m \in Process : pc[m] \in Reserving => cur[m] # p
  BY DEF Ownership
<1> QED
  BY <1>1, <1>2, <1>3, <1>4, <1>5, BeginReleaseFrame DEF Ownership, OthersSame

\* Every operation of the ledger preserves Ownership.
LEMMA OwnershipStep == TypeOK /\ Ownership /\ [Next]_vars => Ownership'
<1> SUFFICES ASSUME TypeOK, Ownership, [Next]_vars PROVE Ownership'
  OBVIOUS
<1>0. OpTypeOK /\ MemoryTypeOK
  BY DEF TypeOK
<1>1. ASSUME NEW l \in Process, NEW p \in Payment, Reserve(l, p) PROVE Ownership'
  <2>1. OthersSame(l) /\ (pc'[l] = "idle" \/ (pc'[l] = "reserve_load" /\ cur'[l] = p))
    <3>1. CASE UNCHANGED opvars
      <4>1. pc[l] = "idle"
        BY <1>1 DEF Reserve
      <4>2. pc' = pc /\ cur' = cur /\ now' = now /\ snap' = snap /\ fresh' = fresh
        BY <3>1 DEF opvars
      <4> QED
        BY <4>1, <4>2 DEF OthersSame
    <3>2. CASE Begin(l, p, clock, "reserve_load")
      BY <1>0, <3>2, BeginFrame
    <3> QED
      BY <1>1, <3>1, <3>2 DEF Reserve
  <2>2. /\ p \notin started /\ started' = started \cup {p}
        /\ UNCHANGED <<recorded, reservations, held>>
    BY <1>1 DEF Reserve, storage, memory
  <2> QED
    BY <2>1, <2>2 DEF Ownership, OthersSame, Reserving, Releasing
<1>2. ASSUME NEW l \in Process, ReserveStore(l), l \in fresh PROVE Ownership'
  <2>1. /\ held'[l] = held[l] \cup {cur[l]}
        /\ reservations'[l] = reservations[l] \cup {cur[l]}
        /\ \A m \in Process \ {l} : held'[m] = held[m] /\ reservations'[m] = reservations[m]
        /\ UNCHANGED <<recorded, started>>
    BY <1>0, <1>2 DEF ReserveStore, MemoryTypeOK
  <2>2. OthersSame(l) /\ pc'[l] = "idle" /\ pc[l] = "reserve_store"
    BY <1>0, <1>2, ReturnFrame DEF ReserveStore
  <2> QED
    BY <2>1, <2>2 DEF Ownership, OthersSame, Reserving, Releasing
<1>3. ASSUME NEW l \in Process, Step(l), ~(ReserveStore(l) /\ l \in fresh) PROVE Ownership'
  <2>1. UNCHANGED <<recorded, started, held, reservations>>
    BY <1>3 DEF Step, ReserveLoad, ReserveCheck, ReserveRecheck, ReserveStore, StoreHolds,
       ReleaseLoad, ReleaseStore, RenewLoad, RenewStore, StorageFails, storage, memory
  <2>2. OthersSame(l) /\ SameOp(l) /\ pc'[l] # "closed"
    BY <1>3, StepStaysOpen, QuietSteps
  <2>3. \A m \in Process : pc'[m] = "closed" => reservations'[m] = {}
    BY <2>1, <2>2 DEF Ownership, OthersSame
  <2> QED
    BY <2>1, <2>2, <2>3, OwnershipKept DEF Ownership
<1>4. ASSUME NEW l \in Process, RenewHolds(l) PROVE Ownership'
  <2>1. UNCHANGED <<recorded, started, held, reservations>>
    BY <1>4 DEF RenewHolds, storage, memory
  <2>2. OthersSame(l) /\ SameOp(l) /\ pc'[l] = "renew_load"
    BY <1>0, <1>4, QuietSteps, BeginFrame DEF RenewHolds
  <2>3. \A m \in Process : pc'[m] = "closed" => reservations'[m] = {}
    BY <2>1, <2>2 DEF Ownership, OthersSame
  <2> QED
    BY <2>1, <2>2, <2>3, OwnershipKept DEF Ownership
<1>5. ASSUME NEW l \in Process, NEW p \in Payment, Commit(l, p) PROVE Ownership'
  <2>1. /\ p \in held[l] /\ BeginRelease(l, p) /\ pc[l] \in {"idle", "closed"}
        /\ recorded' = recorded \cup {p} /\ started' = started
        /\ held' = [held EXCEPT ![l] = @ \ {p}]
    BY <1>5 DEF Commit, Append
  <2> QED
    BY <2>1, OwnershipReleased
<1>6. ASSUME NEW l \in Process, NEW p \in Payment, CommitDurableFails(l, p) PROVE Ownership'
  <2>1. recorded' \subseteq recorded \cup {p} /\ p \in held[l]
    BY <1>6 DEF CommitDurableFails, Append
  <2> QED
    BY <1>6, <2>1 DEF CommitDurableFails, opvars, Ownership
<1>7. ASSUME NEW l \in Process, NEW p \in Payment, CommitFails(l, p) PROVE Ownership'
  <2>1. p \in held[l] /\ started' = started /\ held' = [held EXCEPT ![l] = @ \ {p}]
    BY <1>7 DEF CommitFails
  <2>2. CASE pc[l] = "closed" /\ UNCHANGED <<recorded, reservations, opvars>>
    <3>1. UNCHANGED <<recorded, reservations, pc, cur>> /\ reservations[l] = {}
      BY <2>2 DEF opvars, Ownership
    <3>2. \A m \in Process : held'[m] \subseteq held[m]
      BY <1>0, <2>1 DEF MemoryTypeOK
    <3> QED
      BY <2>1, <3>1, <3>2 DEF Ownership
  <2>3. CASE pc[l] = "idle" /\ BeginRelease(l, p)
    <3>1. recorded' = recorded \/ recorded' = recorded \cup {p}
      BY <1>7 DEF CommitFails, Append
    <3> QED
      BY <2>1, <2>3, <3>1, OwnershipReleased
  <2> QED
    BY <1>7, <2>2, <2>3 DEF CommitFails
<1>8. ASSUME NEW l \in Process, NEW p \in Payment, Drop(l, p) PROVE Ownership'
  <2>1. /\ p \in held[l] /\ BeginRelease(l, p) /\ pc[l] \in {"idle", "closed"}
        /\ recorded' = recorded /\ started' = started
        /\ held' = [held EXCEPT ![l] = @ \ {p}]
    BY <1>8 DEF Drop, storage
  <2> QED
    BY <2>1, OwnershipReleased
<1>9. ASSUME NEW l \in Process, NEW b \in Budgets, UpdateBudget(l, b) PROVE Ownership'
  <2>1. /\ recorded' = recorded /\ started' = started
        /\ \A m \in Process : /\ held'[m] \subseteq held[m]
                              /\ reservations'[m] \subseteq held'[m]
                              /\ pc'[m] = "closed" => reservations'[m] = {}
    BY <1>0, <1>9 DEF UpdateBudget, storage, opvars, Ownership, MemoryTypeOK
  <2>2. OthersSame(l) /\ SameOp(l)
    BY <1>9, QuietSteps
  <2> QED
    BY <2>1, <2>2, OwnershipKept
<1>10. ASSUME NEW l \in Process, NEW b \in Budgets, InitGlobal(l, b) PROVE Ownership'
  <2>1. /\ recorded' = recorded /\ started' = started
        /\ \A m \in Process : /\ held'[m] \subseteq held[m]
                              /\ reservations'[m] \subseteq held'[m]
                              /\ pc'[m] = "closed" => reservations'[m] = {}
    BY <1>0, <1>10 DEF InitGlobal, storage, Ownership, MemoryTypeOK
  <2>2. OthersSame(l) /\ SameOp(l)
    BY <1>10, QuietSteps
  <2> QED
    BY <2>1, <2>2, OwnershipKept
<1>11. ASSUME NEW l \in Process, ClearGlobal(l) PROVE Ownership'
  <2>1. /\ recorded' = recorded /\ started' = started
        /\ \A m \in Process : /\ held'[m] \subseteq held[m]
                              /\ reservations'[m] \subseteq held'[m]
                              /\ pc'[m] = "closed" => reservations'[m] = {}
    BY <1>0, <1>11 DEF ClearGlobal, Forget, storage, Ownership, MemoryTypeOK
  <2>2. OthersSame(l) /\ SameOp(l)
    BY <1>11, QuietSteps
  <2> QED
    BY <2>1, <2>2, OwnershipKept
<1>12. ASSUME NEW l \in Process, Crash(l) PROVE Ownership'
  <2>1. /\ recorded' = recorded /\ started' = started
        /\ \A m \in Process : /\ held'[m] \subseteq held[m]
                              /\ reservations'[m] \subseteq held'[m]
                              /\ pc'[m] = "closed" => reservations'[m] = {}
    BY <1>0, <1>12 DEF Crash, Forget, Return, storage, Ownership, MemoryTypeOK
  <2>2. OthersSame(l) /\ SameOp(l)
    BY <1>12, QuietSteps
  <2> QED
    BY <2>1, <2>2, OwnershipKept
<1>13. CASE Tick \/ UNCHANGED vars
  BY <1>13 DEF Tick, vars, storage, memory, opvars, Ownership
<1> QED
  BY <1>1, <1>2, <1>3, <1>4, <1>5, <1>6, <1>7, <1>8, <1>9, <1>10, <1>11, <1>12, <1>13 DEF Next

-----------------------------------------------------------------------------
(* Only the owner of a hold extends it.                                    *)

\* SnapBounded for one process.
OwnBound(l) ==
  \A q \in Payment :
    \/ pc[l] \in Reserving /\ q = cur[l]
    \/ pc[l] \in Renewing /\ q \in reservations[l]
    \/ snap[l][q] <= holds[q]

\* A step of l that leaves the hold document alone need only look after its
\* own copy of it.
LEMMA SnapBoundedKept ==
  ASSUME TypeOK, TypeOK', SnapBounded, NEW l \in Process, OthersSame(l), holds' = holds,
         \A m \in Process \ {l} : reservations'[m] = reservations[m],
         l \in fresh' => OwnBound(l)'
  PROVE  SnapBounded'
BY DEF TypeOK, OpTypeOK, SnapBounded, OwnBound, OthersSame

\* Between operations the copy is no copy: whatever the next one is, it
\* starts bounded.
LEMMA SnapBoundedIdle ==
  ASSUME TypeOK, SnapBounded, NEW l \in Process, pc[l] \in {"idle", "closed"},
         snap'[l] = snap[l], fresh' = fresh, holds' = holds
  PROVE  l \in fresh' => OwnBound(l)'
BY DEF SnapBounded, OwnBound, Reserving, Renewing

\* Every operation of the ledger preserves SnapBounded.
LEMMA SnapBoundedStep == TypeOK /\ TypeOK' /\ SnapBounded /\ [Next]_vars => SnapBounded'
<1> SUFFICES ASSUME TypeOK, TypeOK', SnapBounded, [Next]_vars PROVE SnapBounded'
  OBVIOUS
<1>0. /\ OpTypeOK /\ MemoryTypeOK /\ StorageTypeOK /\ HoldTTL \in Nat
      /\ {} \in SUBSET fresh /\ fresh \in SUBSET fresh
  BY ConstantsAssumption DEF TypeOK
<1>1. ASSUME NEW l \in Process, NEW p \in Payment, Reserve(l, p) PROVE SnapBounded'
  <2>1. pc[l] = "idle" /\ UNCHANGED <<holds, reservations>>
    BY <1>1 DEF Reserve, storage, memory
  <2>2. OthersSame(l) /\ snap'[l] = snap[l] /\ fresh' = fresh
    <3>1. CASE UNCHANGED opvars
      BY <3>1 DEF OthersSame, opvars
    <3>2. CASE Begin(l, p, clock, "reserve_load")
      BY <1>0, <3>2, BeginFrame
    <3> QED
      BY <1>1, <3>1, <3>2 DEF Reserve
  <2> QED
    BY <2>1, <2>2, SnapBoundedIdle, SnapBoundedKept
<1>2. ASSUME NEW l \in Process, StoreHolds(l), Return(l, "idle", {}) PROVE SnapBounded'
  BY <1>0, <1>2, ReturnFrame DEF SnapBounded
<1>3. ASSUME NEW l \in Process, holds' = holds, reservations' = reservations, OthersSame(l),
             l \notin fresh'
      PROVE  SnapBounded'
  BY <1>3, SnapBoundedKept
<1>4. ASSUME NEW l \in Process, Step(l) PROVE SnapBounded'
  <2>1. OthersSame(l)
    BY <1>4, QuietSteps
  <2>2. CASE ReserveLoad(l)
    <3>1. snap'[l] = holds /\ holds' = holds /\ reservations' = reservations
      BY <1>0, <2>2, LoadedFrame DEF ReserveLoad, storage, memory
    <3>2. OwnBound(l)'
      BY <1>0, <3>1 DEF OwnBound, StorageTypeOK
    <3> QED
      BY <2>1, <3>1, <3>2, SnapBoundedKept
  <2>3. CASE ReserveCheck(l)
    <3>1. /\ pc[l] = "reserve_check" /\ pc'[l] \in Reserving /\ cur'[l] = cur[l]
          /\ snap'[l] = WithHold(l) \/ snap'[l] = snap[l]
          /\ fresh' = fresh /\ holds' = holds /\ reservations' = reservations
      BY <1>0, <2>3 DEF ReserveCheck, OpTypeOK, Reserving, storage
    <3>2. l \in fresh => OwnBound(l)'
      BY <1>0, <3>1 DEF OwnBound, SnapBounded, WithHold, StorageTypeOK, Reserving, Renewing, NoHold
    <3> QED
      BY <2>1, <3>1, <3>2, SnapBoundedKept
  <2>4. CASE ReserveRecheck(l)
    <3>1. holds' = holds /\ reservations' = reservations /\ l \notin fresh'
      BY <1>0, <2>4, ReturnFrame, RetryFrame DEF ReserveRecheck, storage, memory
    <3> QED
      BY <1>3, <2>1, <3>1
  <2>5. CASE ReserveStore(l)
    <3>1. CASE l \notin fresh
      <4>1. holds' = holds /\ reservations' = reservations /\ l \notin fresh'
        BY <1>0, <2>5, <3>1, RetryFrame DEF ReserveStore, StoreHolds
      <4> QED
        BY <1>3, <2>1, <4>1
    <3>2. CASE l \in fresh
      BY <1>2, <2>5, <3>2 DEF ReserveStore
    <3> QED
      BY <3>1, <3>2
  <2>6. CASE ReleaseLoad(l)
    <3>1. holds' = holds /\ reservations' = reservations
      BY <2>6 DEF ReleaseLoad, storage, memory
    <3>2. CASE Return(l, "idle", fresh)
      <4>1. l \notin fresh'
        BY <1>0, <3>2, ReturnFrame
      <4> QED
        BY <1>3, <2>1, <3>1, <4>1
    <3>3. CASE Loaded(l, [holds EXCEPT ![cur[l]] = NoHold], "release_store")
      <4>1. snap'[l] = [holds EXCEPT ![cur[l]] = NoHold]
        BY <1>0, <3>3, LoadedFrame
      <4>2. OwnBound(l)'
        BY <1>0, <3>1, <4>1 DEF OwnBound, StorageTypeOK, NoHold
      <4> QED
        BY <2>1, <3>1, <4>2, SnapBoundedKept
    <3> QED
      BY <2>6, <3>2, <3>3 DEF ReleaseLoad
  <2>7. CASE ReleaseStore(l) \/ RenewStore(l)
    <3>1. CASE l \notin fresh
      <4>1. holds' = holds /\ reservations' = reservations /\ l \notin fresh'
        BY <1>0, <2>7, <3>1, RetryFrame DEF ReleaseStore, RenewStore, StoreHolds, memory
      <4> QED
        BY <1>3, <2>1, <4>1
    <3>2. CASE l \in fresh
      BY <1>2, <2>7, <3>2 DEF ReleaseStore, RenewStore
    <3> QED
      BY <3>1, <3>2
  <2>8. CASE RenewLoad(l)
    <3>1. /\ snap'[l] = Renewed(l) /\ pc'[l] = "renew_store"
          /\ holds' = holds /\ reservations' = reservations
      BY <1>0, <2>8, LoadedFrame DEF RenewLoad, storage, memory
    <3>2. OwnBound(l)'
      BY <1>0, <3>1 DEF OwnBound, Renewed, StorageTypeOK, NoHold, Renewing
    <3> QED
      BY <2>1, <3>1, <3>2, SnapBoundedKept
  <2>9. CASE StorageFails(l)
    <3>1. reservations' = reservations
      BY <2>9 DEF StorageFails, memory
    <3>2. CASE UNCHANGED holds /\ Return(l, "idle", fresh)
      <4>1. l \notin fresh'
        BY <1>0, <3>2, ReturnFrame
      <4> QED
        BY <1>3, <2>1, <3>1, <3>2, <4>1
    <3> QED
      BY <1>2, <2>9, <3>2 DEF StorageFails
  <2> QED
    BY <1>4, <2>2, <2>3, <2>4, <2>5, <2>6, <2>7, <2>8, <2>9 DEF Step
<1>5. ASSUME NEW l \in Process, RenewHolds(l) PROVE SnapBounded'
  <2>1. pc[l] = "idle" /\ UNCHANGED <<holds, reservations>>
    BY <1>5 DEF RenewHolds, storage, memory
  <2>2. OthersSame(l) /\ snap'[l] = snap[l] /\ fresh' = fresh
    BY <1>0, <1>5, BeginFrame DEF RenewHolds
  <2> QED
    BY <2>1, <2>2, SnapBoundedIdle, SnapBoundedKept
<1>6. ASSUME NEW l \in Process, NEW p \in Payment, BeginRelease(l, p),
             pc[l] \in {"idle", "closed"}, holds' = holds
      PROVE  SnapBounded'
  <2>1. /\ OthersSame(l) /\ snap'[l] = snap[l] /\ fresh' = fresh
        /\ \A m \in Process \ {l} : reservations'[m] = reservations[m]
    BY <1>6, BeginReleaseFrame
  <2> QED
    BY <1>6, <2>1, SnapBoundedIdle, SnapBoundedKept
<1>7. ASSUME NEW l \in Process, NEW p \in Payment, Commit(l, p) \/ Drop(l, p) PROVE SnapBounded'
  BY <1>6, <1>7 DEF Commit, Drop, storage
<1>8. ASSUME NEW l \in Process, NEW p \in Payment, CommitDurableFails(l, p) PROVE SnapBounded'
  BY <1>8 DEF CommitDurableFails, opvars, SnapBounded
<1>9. ASSUME NEW l \in Process, NEW p \in Payment, CommitFails(l, p) PROVE SnapBounded'
  <2>1. CASE UNCHANGED <<reservations, opvars>> /\ holds' = holds
    BY <2>1 DEF opvars, SnapBounded
  <2>2. CASE BeginRelease(l, p) /\ pc[l] = "idle" /\ holds' = holds
    BY <1>6, <2>2
  <2> QED
    BY <1>9, <2>1, <2>2 DEF CommitFails
<1>10. ASSUME NEW l \in Process, NEW b \in Budgets, UpdateBudget(l, b) PROVE SnapBounded'
  BY <1>10 DEF UpdateBudget, storage, opvars, SnapBounded
<1>11. ASSUME NEW l \in Process, NEW b \in Budgets, InitGlobal(l, b) PROVE SnapBounded'
  <2>1. /\ pc[l] \in {"idle", "closed"} /\ holds' = holds /\ snap'[l] = snap[l] /\ fresh' = fresh
        /\ \A m \in Process \ {l} : reservations'[m] = reservations[m]
    BY <1>0, <1>11 DEF InitGlobal, storage, MemoryTypeOK
  <2> QED
    BY <1>11, <2>1, QuietSteps, SnapBoundedIdle, SnapBoundedKept
<1>12. ASSUME NEW l \in Process, ClearGlobal(l) PROVE SnapBounded'
  <2>1. /\ pc[l] = "idle" /\ holds' = holds /\ snap'[l] = snap[l] /\ fresh' = fresh
        /\ \A m \in Process \ {l} : reservations'[m] = reservations[m]
    BY <1>0, <1>12 DEF ClearGlobal, Forget, storage, MemoryTypeOK
  <2> QED
    BY <1>12, <2>1, QuietSteps, SnapBoundedIdle, SnapBoundedKept
<1>13. ASSUME NEW l \in Process, Crash(l) PROVE SnapBounded'
  <2>1. /\ holds' = holds /\ l \notin fresh'
        /\ \A m \in Process \ {l} : reservations'[m] = reservations[m]
    BY <1>0, <1>13, ReturnFrame DEF Crash, Forget, storage, MemoryTypeOK
  <2> QED
    BY <1>13, <2>1, QuietSteps, SnapBoundedKept
<1>14. CASE Tick \/ UNCHANGED vars
  BY <1>14 DEF Tick, vars, storage, memory, opvars, SnapBounded
<1> QED
  BY <1>1, <1>4, <1>5, <1>7, <1>8, <1>9, <1>10, <1>11, <1>12, <1>13, <1>14 DEF Next

\* Only a put of a version that is still current changes the hold document.
LEMMA HoldsWritten ==
  ASSUME [Next]_vars
  PROVE  \/ holds' = holds
         \/ \E l \in Process :
              /\ l \in fresh /\ holds' = snap[l]
              /\ pc[l] \in {"reserve_store", "release_store", "renew_store"}
BY DEF Next, Step, Reserve, ReserveLoad, ReserveCheck, ReserveRecheck, ReserveStore, ReleaseLoad,
   ReleaseStore, RenewHolds, RenewLoad, RenewStore, StorageFails, StoreHolds, Commit, Drop,
   CommitDurableFails, CommitFails, UpdateBudget, InitGlobal, ClearGlobal, Crash, Tick, vars, storage

\* store_holds and renew_holds: whatever fails, a hold appears or lives
\* longer only by a write of the ledger that reserves it.
THEOREM OwnerExtends == Spec => OnlyOwnerExtends
<1> DEFINE Extended ==
      \A p \in Payment : holds'[p] > holds[p] =>
        \E l \in Process : \/ pc[l] = "reserve_store" /\ cur[l] = p
                           \/ pc[l] = "renew_store" /\ p \in reservations[l]
<1>1. Init => SnapBounded
  BY DEF Init, SnapBounded
<1>2. TypeOK /\ SnapBounded /\ [Next]_vars => [Extended]_vars
  <2> SUFFICES ASSUME TypeOK, SnapBounded, [Next]_vars, NEW p \in Payment, holds'[p] > holds[p]
               PROVE  \E l \in Process : \/ pc[l] = "reserve_store" /\ cur[l] = p
                                         \/ pc[l] = "renew_store" /\ p \in reservations[l]
    OBVIOUS
  <2>1. PICK l \in Process :
          /\ l \in fresh /\ holds' = snap[l]
          /\ pc[l] \in {"reserve_store", "release_store", "renew_store"}
    BY HoldsWritten DEF TypeOK, StorageTypeOK
  <2>2. ~(snap[l][p] <= holds[p])
    BY <2>1 DEF TypeOK, StorageTypeOK, OpTypeOK
  <2> QED
    BY <2>1, <2>2 DEF SnapBounded, Reserving, Renewing
<1> QED
  BY <1>1, <1>2, SnapBoundedStep, TypeCorrect, PTL DEF Spec, OnlyOwnerExtends
=============================================================================
