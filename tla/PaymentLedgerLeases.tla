------------------------ MODULE PaymentLedgerLeases -------------------------
(* PaymentLedger: while leases are kept, no admitted amount goes uncounted. *)
EXTENDS PaymentLedgerHolds

-----------------------------------------------------------------------------
(* While leases are kept, no admitted amount goes uncounted.               *)

\* An operation in progress keeps the instant it was started at.
LEMMA StepKeepsNow ==
  ASSUME TypeOK, NEW l \in Process, Step(l), pc'[l] \in Reserving \cup Renewing
  PROVE  pc[l] \in Reserving \cup Renewing /\ now'[l] = now[l]
<1>0. OpTypeOK /\ {} \in SUBSET fresh /\ fresh \in SUBSET fresh
  BY DEF TypeOK
<1> USE DEF Reserving, Renewing
<1>1. CASE ReserveLoad(l) \/ ReleaseLoad(l) \/ RenewLoad(l)
  BY <1>0, <1>1, LoadedFrame, ReturnFrame DEF ReserveLoad, ReleaseLoad, RenewLoad
<1>2. CASE ReserveCheck(l)
  BY <1>0, <1>2 DEF ReserveCheck, OpTypeOK
<1>3. CASE ReserveRecheck(l) \/ StorageFails(l)
  BY <1>0, <1>3, ReturnFrame, RetryFrame DEF ReserveRecheck, StorageFails
<1>4. CASE ReserveStore(l) \/ ReleaseStore(l) \/ RenewStore(l)
  BY <1>0, <1>4, ReturnFrame, RetryFrame DEF ReserveStore, ReleaseStore, RenewStore
<1> QED
  BY <1>1, <1>2, <1>3, <1>4 DEF Step

\* A ledger only knows committed keys that are in the stream.
LEMMA ViewsSoundStep == TypeOK /\ ViewsSound /\ [Next]_vars => ViewsSound'
<1> SUFFICES ASSUME TypeOK, ViewsSound, [Next]_vars PROVE ViewsSound'
  OBVIOUS
<1>0. MemoryTypeOK
  BY DEF TypeOK
<1>1. ASSUME NEW l \in Process, NEW p \in Payment, Commit(l, p) PROVE ViewsSound'
  <2>1. /\ keyed \subseteq keyed' /\ {p} \cap reservations[l] \subseteq keyed'
        /\ Mirror(l, p)
    BY <1>1 DEF Commit, Append
  <2> QED
    BY <1>0, <2>1 DEF Mirror, ViewsSound, MemoryTypeOK
<1>2. ASSUME NEW l \in Process, NEW p \in Payment,
             CommitDurableFails(l, p) \/ CommitFails(l, p)
      PROVE  ViewsSound'
  <2>1. committed' = committed /\ keyed \subseteq keyed'
    BY <1>2 DEF CommitDurableFails, CommitFails, Append
  <2> QED
    BY <2>1 DEF ViewsSound
<1>3. ASSUME NEW l \in Process, ReserveCheck(l) PROVE ViewsSound'
  BY <1>0, <1>3 DEF ReserveCheck, RefreshRecords, storage, ViewsSound, MemoryTypeOK
<1>4. ASSUME NEW l \in Process, NEW b \in Budgets, InitGlobal(l, b) PROVE ViewsSound'
  BY <1>0, <1>4 DEF InitGlobal, storage, ViewsSound, MemoryTypeOK
<1>5. ASSUME NEW l \in Process, ClearGlobal(l) \/ Crash(l) PROVE ViewsSound'
  BY <1>0, <1>5 DEF ClearGlobal, Crash, Forget, storage, ViewsSound, MemoryTypeOK
<1>6. CASE UNCHANGED <<committed, keyed>>
  BY <1>6 DEF ViewsSound
<1>7. ASSUME NEW l \in Process,
             \/ Step(l) /\ ~ReserveCheck(l)
             \/ RenewHolds(l)
             \/ \E p \in Payment : Reserve(l, p) \/ Drop(l, p)
             \/ \E b \in Budgets : UpdateBudget(l, b)
      PROVE  UNCHANGED <<committed, keyed>>
  BY <1>7 DEF Step, ReserveLoad, ReserveRecheck, ReserveStore, ReleaseLoad, ReleaseStore,
     RenewLoad, RenewStore, StorageFails, RenewHolds, Reserve, Drop, UpdateBudget, storage, memory
<1>8. CASE Tick \/ UNCHANGED vars
  BY <1>6, <1>8 DEF Tick, vars, storage, memory
<1> QED
  BY <1>1, <1>2, <1>3, <1>4, <1>5, <1>6, <1>7, <1>8 DEF Next

\* What every step but the admission of a payment does to what is held and
\* recorded.
Shrinking ==
  /\ clock' = clock
  /\ recorded \subseteq recorded'
  /\ \A m \in Process : held'[m] \subseteq held[m]

\* SnapComplete for one process.
OwnComplete(l) ==
  /\ pc[l] = "reserve_check" => snap[l] = holds
  /\ pc[l] = "reserve_store" => snap[l][cur[l]] = now[l] + HoldTTL
  /\ pc[l] \in {"reserve_store", "release_store", "renew_store"} =>
       \A m \in Process : \A q \in held[m] \ recorded :
         \/ snap[l][q] = holds[q]
         \/ pc[l] = "renew_store" /\ snap[l][q] = now[l] + HoldTTL

\* LeasesLive for the operation of one process.
OwnLease(l) ==
  pc[l] \in Reserving \cup Renewing => now[l] <= clock /\ now[l] + HoldTTL > clock

\* A step of l that leaves the hold document alone and admits nothing need
\* only look after its own operation.
LEMMA LeaseKeptQuiet ==
  ASSUME TypeOK, TypeOK', LeasesLive, SnapComplete, NEW l \in Process, OthersSame(l), Shrinking,
         holds' = holds, OwnLease(l)', l \in fresh' => OwnComplete(l)'
  PROVE  LeasesLive' /\ SnapComplete'
<1>1. LeasesLive'
  BY DEF LeasesLive, OthersSame, OwnLease, Shrinking
<1>2. SnapComplete'
  <2>1. ASSUME NEW m \in fresh', m # l PROVE OwnComplete(m)'
    <3>1. /\ m \in Process /\ m \in fresh
          /\ pc'[m] = pc[m] /\ cur'[m] = cur[m] /\ now'[m] = now[m] /\ snap'[m] = snap[m]
      BY <2>1 DEF OthersSame, TypeOK, OpTypeOK
    <3>2. OwnComplete(m)
      BY <3>1 DEF SnapComplete, OwnComplete
    <3> QED
      BY <3>1, <3>2 DEF OwnComplete, Shrinking
  <2>2. \A m \in fresh' : OwnComplete(m)'
    BY <2>1
  <2> QED
    BY <2>2 DEF SnapComplete, OwnComplete
<1> QED
  BY <1>1, <1>2

\* A put of the hold document by a release or a renewal keeps every lease.
LEMMA LeaseKeptWritten ==
  ASSUME TypeOK, TypeOK', LeasesLive, SnapComplete, NEW l \in Process, OthersSame(l), Shrinking,
         l \in fresh, holds' = snap[l], fresh' = {}, pc'[l] = "idle",
         pc[l] \in {"reserve_store", "release_store", "renew_store"}
  PROVE  LeasesLive' /\ SnapComplete'
<1>1. SnapComplete'
  BY DEF SnapComplete
<1>2. ASSUME NEW m \in Process, NEW p \in held[m] \ recorded PROVE snap[l][p] > clock
  <2>1. holds[p] > clock /\ (pc[l] = "renew_store" => now[l] + HoldTTL > clock)
    BY <1>2 DEF LeasesLive, Renewing
  <2> QED
    BY <1>2, <2>1 DEF SnapComplete
<1>3. LeasesLive'
  BY <1>2 DEF LeasesLive, OthersSame, Shrinking, Reserving, Renewing
<1> QED
  BY <1>1, <1>3

\* While leases are kept, every operation preserves LeasesLive and
\* SnapComplete.
LEMMA LeaseStep ==
  ASSUME "lapse" \notin Faults, TypeOK, TypeOK', Ownership, ViewsSound, LeasesLive, SnapComplete,
         [Next]_vars
  PROVE  LeasesLive' /\ SnapComplete'
<1> DEFINE Goal == LeasesLive' /\ SnapComplete'
<1>0. /\ OpTypeOK /\ MemoryTypeOK /\ StorageTypeOK /\ HoldTTL \in Nat \ {0} /\ clock \in Nat
      /\ {} \in SUBSET fresh /\ fresh \in SUBSET fresh
  BY ConstantsAssumption DEF TypeOK
<1>1. ASSUME NEW l \in Process, Shrinking, OthersSame(l), holds' = holds, OwnLease(l)',
             pc'[l] \notin {"reserve_check", "reserve_store", "release_store", "renew_store"}
      PROVE  Goal
  BY <1>1, LeaseKeptQuiet DEF OwnComplete
<1>2. ASSUME NEW l \in Process, NEW p, NEW at, Begin(l, p, clock, at), Shrinking, holds' = holds,
             at \in {"reserve_load", "renew_load"}
      PROVE  Goal
  <2>1. OthersSame(l) /\ now'[l] = clock /\ pc'[l] = at
    BY <1>0, <1>2, BeginFrame
  <2>2. OwnLease(l)'
    BY <1>0, <1>2, <2>1 DEF OwnLease, Shrinking
  <2> QED
    BY <1>1, <1>2, <2>1, <2>2
<1>3. ASSUME NEW l \in Process, NEW p \in Payment, Reserve(l, p) PROVE Goal
  <2>1. pc[l] = "idle" /\ Shrinking /\ holds' = holds
    BY <1>3 DEF Reserve, Shrinking, storage, memory
  <2>2. CASE UNCHANGED opvars
    BY <1>1, <2>1, <2>2 DEF opvars, OthersSame, OwnLease, Reserving, Renewing
  <2> QED
    BY <1>2, <1>3, <2>1, <2>2 DEF Reserve
<1>4. ASSUME NEW l \in Process, RenewHolds(l) PROVE Goal
  <2>1. Shrinking /\ holds' = holds
    BY <1>4 DEF RenewHolds, Shrinking, storage, memory
  <2> QED
    BY <1>2, <1>4, <2>1 DEF RenewHolds
<1>5. ASSUME NEW l \in Process, NEW p \in Payment, BeginRelease(l, p), Shrinking, holds' = holds,
             pc[l] \in {"idle", "closed"}
      PROVE  Goal
  <2>1. OthersSame(l) /\ pc'[l] \in {"idle", "closed", "release_load"}
    BY <1>5, BeginReleaseFrame
  <2> QED
    BY <1>1, <1>5, <2>1 DEF OwnLease, Reserving, Renewing
<1>6. ASSUME NEW l \in Process, NEW p \in Payment, Commit(l, p) \/ Drop(l, p) PROVE Goal
  <2>1. Shrinking /\ holds' = holds /\ BeginRelease(l, p) /\ pc[l] \in {"idle", "closed"}
    BY <1>0, <1>6 DEF Commit, Drop, Append, Shrinking, storage, MemoryTypeOK
  <2> QED
    BY <1>5, <2>1
<1>7. ASSUME NEW l \in Process, NEW p \in Payment, CommitDurableFails(l, p) PROVE Goal
  <2>1. /\ Shrinking /\ holds' = holds /\ UNCHANGED opvars
        /\ pc[l] \in {"idle", "closed"}
    BY <1>7 DEF CommitDurableFails, Append, Shrinking
  <2> QED
    BY <1>1, <2>1 DEF opvars, OthersSame, OwnLease, Reserving, Renewing
<1>8. ASSUME NEW l \in Process, NEW p \in Payment, CommitFails(l, p) PROVE Goal
  <2>1. Shrinking /\ holds' = holds /\ pc[l] \in {"idle", "closed"}
    BY <1>0, <1>8 DEF CommitFails, Append, Shrinking, MemoryTypeOK
  <2>2. CASE UNCHANGED opvars
    BY <1>1, <2>1, <2>2 DEF opvars, OthersSame, OwnLease, Reserving, Renewing
  <2>3. CASE BeginRelease(l, p)
    BY <1>5, <2>1, <2>3
  <2> QED
    BY <1>8, <2>2, <2>3 DEF CommitFails
<1>9. ASSUME NEW l \in Process, ReserveStore(l), l \in fresh PROVE Goal
  <2>1. /\ held' = [held EXCEPT ![l] = @ \cup {cur[l]}]
        /\ holds' = snap[l] /\ recorded' = recorded /\ clock' = clock
        /\ pc[l] = "reserve_store" /\ Return(l, "idle", {})
    BY <1>9 DEF ReserveStore, StoreHolds
  <2>2. OthersSame(l) /\ fresh' = {} /\ pc'[l] = "idle"
    BY <1>0, <2>1, ReturnFrame
  <2>3. \A m \in Process : held'[m] \subseteq held[m] \cup {cur[l]}
    BY <1>0, <2>1 DEF MemoryTypeOK
  <2>4. snap[l][cur[l]] > clock
    BY <1>9, <2>1 DEF SnapComplete, LeasesLive, Reserving
  <2>5. ASSUME NEW m \in Process, NEW p \in held[m] \ recorded PROVE snap[l][p] > clock
    BY <1>9, <2>1, <2>5 DEF SnapComplete, LeasesLive
  <2>6. LeasesLive'
    BY <2>1, <2>2, <2>3, <2>4, <2>5 DEF LeasesLive, OthersSame, Reserving, Renewing
  <2>7. SnapComplete'
    BY <2>2 DEF SnapComplete
  <2> QED
    BY <2>6, <2>7
<1>10. ASSUME NEW l \in Process, StoreHolds(l), Return(l, "idle", {}), Shrinking,
              pc[l] \in {"reserve_store", "release_store", "renew_store"}
       PROVE  Goal
  <2>1. OthersSame(l) /\ fresh' = {} /\ pc'[l] = "idle"
    BY <1>0, <1>10, ReturnFrame
  <2> QED
    BY <1>10, <2>1, LeaseKeptWritten DEF StoreHolds
<1>11. ASSUME NEW l \in Process, Step(l), ~(ReserveStore(l) /\ l \in fresh) PROVE Goal
  <2>1. OthersSame(l) /\ OwnLease(l)'
    <3>1. clock' = clock
      BY <1>11 DEF Step, ReserveLoad, ReserveCheck, ReserveRecheck, ReserveStore,
         ReleaseLoad, ReleaseStore, RenewLoad, RenewStore, StorageFails
    <3> QED
      BY <1>11, <3>1, QuietSteps, StepKeepsNow DEF OwnLease, LeasesLive
  <2>2. Shrinking
    BY <1>11 DEF Step, ReserveLoad, ReserveCheck, ReserveRecheck, ReserveStore, StoreHolds,
       ReleaseLoad, ReleaseStore, RenewLoad, RenewStore, StorageFails, storage, memory, Shrinking
  <2>3. CASE ReserveLoad(l)
    <3>1. pc'[l] = "reserve_check" /\ snap'[l] = holds /\ holds' = holds
      BY <1>0, <2>3, LoadedFrame DEF ReserveLoad, storage
    <3> QED
      BY <2>1, <2>2, <3>1, LeaseKeptQuiet DEF OwnComplete
  <2>4. CASE ReserveCheck(l)
    <3>1. /\ pc[l] = "reserve_check" /\ cur'[l] = cur[l] /\ now'[l] = now[l]
          /\ \/ pc'[l] = "reserve_recheck"
             \/ pc'[l] = "reserve_store" /\ snap'[l] = WithHold(l)
          /\ committed'[l] = committed[l] \cup keyed
          /\ fresh' = fresh /\ holds' = holds /\ recorded' = recorded /\ held' = held
      BY <1>0, <2>4 DEF ReserveCheck, RefreshRecords, OpTypeOK, MemoryTypeOK, storage
    <3>2. ASSUME l \in fresh, NEW m \in Process, NEW q \in held[m] \ recorded
          PROVE  WithHold(l)[q] = holds[q]
      <4>1. q \in Payment /\ q # cur[l] /\ snap[l] = holds
        BY <1>0, <3>1, <3>2 DEF Ownership, SnapComplete, MemoryTypeOK, Reserving
      <4>2. holds[q] > now[l]
        BY <1>0, <3>1, <3>2, <4>1 DEF LeasesLive, Reserving, StorageTypeOK, OpTypeOK
      <4>3. q \notin committed'[l]
        BY <1>0, <3>1, <3>2 DEF ViewsSound, StorageTypeOK
      <4> QED
        BY <4>1, <4>2, <4>3 DEF WithHold, CountedHolds
    <3>3. WithHold(l)[cur[l]] = now[l] + HoldTTL
      BY <1>0, <3>1 DEF WithHold, OpTypeOK, Reserving
    <3>4. l \in fresh' => OwnComplete(l)'
      BY <3>1, <3>2, <3>3 DEF OwnComplete
    <3> QED
      BY <2>1, <2>2, <3>1, <3>4, LeaseKeptQuiet
  <2>5. CASE ReserveRecheck(l)
    <3>1. pc'[l] \in {"idle", "reserve_load"} /\ holds' = holds
      BY <1>0, <2>5, ReturnFrame, RetryFrame DEF ReserveRecheck, storage
    <3> QED
      BY <1>1, <2>1, <2>2, <3>1
  <2>6. CASE ReserveStore(l)
    <3>1. pc'[l] \in {"idle", "reserve_load"} /\ holds' = holds
      BY <1>0, <1>11, <2>6, RetryFrame DEF ReserveStore, StoreHolds
    <3> QED
      BY <1>1, <2>1, <2>2, <3>1
  <2>7. CASE ReleaseLoad(l)
    <3>1. holds' = holds /\ held' = held /\ recorded' = recorded /\ pc[l] = "release_load"
      BY <2>7 DEF ReleaseLoad, storage, memory
    <3>2. CASE Return(l, "idle", fresh)
      <4>1. pc'[l] = "idle"
        BY <1>0, <3>2, ReturnFrame
      <4> QED
        BY <1>1, <2>1, <2>2, <3>1, <4>1
    <3>3. CASE Loaded(l, [holds EXCEPT ![cur[l]] = NoHold], "release_store")
      <4>1. pc'[l] = "release_store" /\ snap'[l] = [holds EXCEPT ![cur[l]] = NoHold]
        BY <1>0, <3>3, LoadedFrame
      <4>2. \A m \in Process : \A q \in held[m] : q \in Payment /\ q # cur[l]
        BY <1>0, <3>1 DEF Ownership, MemoryTypeOK, Releasing
      <4>3. OwnComplete(l)'
        BY <1>0, <3>1, <4>1, <4>2 DEF OwnComplete, StorageTypeOK
      <4> QED
        BY <2>1, <2>2, <3>1, <4>3, LeaseKeptQuiet
    <3> QED
      BY <2>7, <3>2, <3>3 DEF ReleaseLoad
  <2>8. CASE RenewLoad(l)
    <3>1. /\ pc[l] = "renew_load" /\ pc'[l] = "renew_store" /\ now'[l] = now[l]
          /\ snap'[l] = Renewed(l) /\ holds' = holds /\ held' = held /\ recorded' = recorded
      BY <1>0, <2>8, LoadedFrame DEF RenewLoad, storage, memory
    <3>2. ASSUME NEW m \in Process, NEW q \in held[m] \ recorded
          PROVE  Renewed(l)[q] = holds[q] \/ Renewed(l)[q] = now[l] + HoldTTL
      <4>1. q \in Payment /\ holds[q] > now[l]
        BY <1>0, <3>1, <3>2 DEF LeasesLive, Renewing, StorageTypeOK, OpTypeOK, MemoryTypeOK
      <4> QED
        BY <4>1 DEF Renewed
    <3>3. OwnComplete(l)'
      BY <3>1, <3>2 DEF OwnComplete
    <3> QED
      BY <2>1, <2>2, <3>1, <3>3, LeaseKeptQuiet
  <2>9. CASE ReleaseStore(l) \/ RenewStore(l)
    <3>1. CASE l \in fresh
      BY <1>10, <2>2, <2>9, <3>1 DEF ReleaseStore, RenewStore
    <3>2. CASE l \notin fresh
      <4>1. pc'[l] \in {"idle", "release_load", "renew_load"} /\ holds' = holds
        BY <1>0, <2>9, <3>2, RetryFrame DEF ReleaseStore, RenewStore, StoreHolds
      <4> QED
        BY <1>1, <2>1, <2>2, <4>1
    <3> QED
      BY <3>1, <3>2
  <2>10. CASE StorageFails(l)
    <3>1. CASE UNCHANGED holds /\ Return(l, "idle", fresh)
      <4>1. pc'[l] = "idle"
        BY <1>0, <3>1, ReturnFrame
      <4> QED
        BY <1>1, <2>1, <2>2, <3>1, <4>1
    <3> QED
      BY <1>10, <2>2, <2>10, <3>1 DEF StorageFails
  <2> QED
    BY <1>11, <2>3, <2>4, <2>5, <2>6, <2>7, <2>8, <2>9, <2>10 DEF Step
<1>12. ASSUME NEW l \in Process,
              \/ ClearGlobal(l) \/ Crash(l)
              \/ \E b \in Budgets : UpdateBudget(l, b) \/ InitGlobal(l, b)
       PROVE  Goal
  <2>1. Shrinking /\ holds' = holds
    BY <1>0, <1>12 DEF ClearGlobal, Crash, UpdateBudget, InitGlobal, storage, Shrinking, MemoryTypeOK
  <2>2. pc'[l] \in {"idle", "closed"}
    BY <1>0, <1>12, ReturnFrame DEF ClearGlobal, Crash, UpdateBudget, InitGlobal, OpTypeOK, opvars
  <2> QED
    BY <1>1, <1>12, <2>1, <2>2, QuietSteps DEF OwnLease, Reserving, Renewing
<1>13. CASE Tick
  <2>1. LeaseKept /\ UNCHANGED <<holds, recorded, held, pc, cur, now, snap, fresh>>
    BY <1>13 DEF Tick, storage, memory, opvars
  <2>2. LeasesLive'
    BY <1>0, <1>13, <2>1 DEF LeaseKept, LeasesLive, Unrecorded, Held, Tick, OpTypeOK
  <2>3. SnapComplete'
    BY <2>1 DEF SnapComplete
  <2> QED
    BY <2>2, <2>3
<1>14. CASE UNCHANGED vars
  BY <1>14 DEF vars, storage, memory, opvars, LeasesLive, SnapComplete
<1> QED
  BY <1>3, <1>4, <1>6, <1>7, <1>8, <1>9, <1>11, <1>12, <1>13, <1>14 DEF Next
=============================================================================
