------------------------- MODULE PaymentLedgerTypes -------------------------
(* PaymentLedger: the type invariant, and what a step leaves alone.        *)
EXTENDS PaymentLedger, TLAPS

-----------------------------------------------------------------------------
(* The type invariant.                                                     *)

\* Starting an operation keeps its locals well-typed.
LEMMA BeginType ==
  ASSUME OpTypeOK, NEW l \in Process, NEW p \in Payment \cup {NoPayment}, NEW t \in Nat,
         NEW at \in PCs, at \in Renewing \/ p \in Payment, Begin(l, p, t, at)
  PROVE  OpTypeOK'
BY DEF OpTypeOK, Begin, Reserving, Releasing, Renewing

\* Returning from an operation keeps its locals well-typed.
LEMMA ReturnType ==
  ASSUME OpTypeOK, NEW l \in Process, NEW at \in {"idle", "closed"},
         NEW fr \in SUBSET Process, Return(l, at, fr)
  PROVE  OpTypeOK'
BY DEF OpTypeOK, Return, NoHolds, NoHold, PCs, Reserving, Releasing

\* Loading the hold document keeps its locals well-typed.
LEMMA LoadedType ==
  ASSUME OpTypeOK, NEW l \in Process, NEW doc \in [Payment -> Nat], NEW at \in PCs,
         at \in Renewing \/ cur[l] \in Payment, Loaded(l, doc, at)
  PROVE  OpTypeOK'
BY DEF OpTypeOK, Loaded, Reserving, Releasing, Renewing

\* Another attempt, or giving up, keeps its locals well-typed.
LEMMA RetryType ==
  ASSUME OpTypeOK, NEW l \in Process, NEW at \in PCs,
         at \in Renewing \/ cur[l] \in Payment, Retry(l, at)
  PROVE  OpTypeOK'
<1>1. CASE Return(l, "idle", fresh)
  BY <1>1, ReturnType DEF OpTypeOK
<1>2. CASE ~Return(l, "idle", fresh)
  <2>1. /\ pc' = [pc EXCEPT ![l] = at]
        /\ tries' = [tries EXCEPT ![l] = @ + 1]
        /\ snap' = [snap EXCEPT ![l] = NoHolds]
        /\ fresh' = fresh \ {l}
        /\ UNCHANGED <<cur, now>>
    BY <1>2 DEF Retry
  <2> QED
    BY <2>1 DEF OpTypeOK, NoHolds, NoHold, Reserving, Releasing, Renewing
<1> QED
  BY <1>1, <1>2

\* Every operation of the ledger preserves the type invariant.
LEMMA TypeStep == TypeOK /\ [Next]_vars => TypeOK'
<1> SUFFICES ASSUME TypeOK, [Next]_vars PROVE TypeOK'
  OBVIOUS
<1>0. HoldTTL \in Nat
  BY ConstantsAssumption
<1> USE DEF TypeOK, PCs, Reserving, Releasing, Renewing, storage, memory
<1>1. ASSUME NEW l \in Process, NEW p \in Payment, Reserve(l, p) PROVE TypeOK'
  <2>1. OpTypeOK'
    <3>1. CASE UNCHANGED opvars
      BY <3>1 DEF OpTypeOK, opvars
    <3>2. CASE Begin(l, p, clock, "reserve_load")
      BY <3>2, BeginType
    <3> QED
      BY <1>1, <3>1, <3>2 DEF Reserve
  <2> QED
    BY <1>1, <2>1 DEF Reserve, StorageTypeOK, MemoryTypeOK
<1>2. ASSUME NEW l \in Process, ReserveLoad(l) PROVE TypeOK'
  <2>1. cur[l] \in Payment /\ holds \in [Payment -> Nat]
    BY <1>2 DEF ReserveLoad, OpTypeOK, StorageTypeOK
  <2>2. OpTypeOK'
    BY <1>2, <2>1, LoadedType DEF ReserveLoad
  <2> QED
    BY <1>2, <2>2 DEF ReserveLoad, StorageTypeOK, MemoryTypeOK
<1>3. ASSUME NEW l \in Process, ReserveCheck(l) PROVE TypeOK'
  <2>1. WithHold(l) \in [Payment -> Nat]
    BY <1>0 DEF WithHold, OpTypeOK, NoHold
  <2>2. OpTypeOK'
    BY <1>3, <2>1 DEF ReserveCheck, OpTypeOK
  <2>3. MemoryTypeOK'
    BY <1>3 DEF ReserveCheck, RefreshRecords, MemoryTypeOK, StorageTypeOK
  <2> QED
    BY <1>3, <2>2, <2>3 DEF ReserveCheck, StorageTypeOK
<1>4. ASSUME NEW l \in Process, ReserveRecheck(l) PROVE TypeOK'
  <2>1. cur[l] \in Payment /\ fresh \in SUBSET Process
    BY <1>4 DEF ReserveRecheck, OpTypeOK
  <2>2. OpTypeOK'
    BY <1>4, <2>1, ReturnType, RetryType DEF ReserveRecheck
  <2> QED
    BY <1>4, <2>2 DEF ReserveRecheck, StorageTypeOK, MemoryTypeOK
<1>5. ASSUME NEW l \in Process, ReserveStore(l) PROVE TypeOK'
  <2>1. cur[l] \in Payment /\ snap[l] \in [Payment -> Nat] /\ {} \in SUBSET Process
    BY <1>5 DEF ReserveStore, OpTypeOK
  <2>2. OpTypeOK'
    BY <1>5, <2>1, ReturnType, RetryType DEF ReserveStore
  <2> QED
    BY <1>5, <2>1, <2>2 DEF ReserveStore, StoreHolds, StorageTypeOK, MemoryTypeOK
<1>6. ASSUME NEW l \in Process, ReleaseLoad(l) PROVE TypeOK'
  <2>1. /\ cur[l] \in Payment /\ fresh \in SUBSET Process
        /\ [holds EXCEPT ![cur[l]] = NoHold] \in [Payment -> Nat]
    BY <1>6 DEF ReleaseLoad, OpTypeOK, StorageTypeOK, NoHold
  <2>2. OpTypeOK'
    BY <1>6, <2>1, ReturnType, LoadedType DEF ReleaseLoad
  <2> QED
    BY <1>6, <2>2 DEF ReleaseLoad, StorageTypeOK, MemoryTypeOK
<1>7. ASSUME NEW l \in Process, ReleaseStore(l) PROVE TypeOK'
  <2>1. cur[l] \in Payment /\ snap[l] \in [Payment -> Nat] /\ {} \in SUBSET Process
    BY <1>7 DEF ReleaseStore, OpTypeOK
  <2>2. OpTypeOK'
    BY <1>7, <2>1, ReturnType, RetryType DEF ReleaseStore
  <2> QED
    BY <1>7, <2>1, <2>2 DEF ReleaseStore, StoreHolds, StorageTypeOK, MemoryTypeOK
<1>8. ASSUME NEW l \in Process, RenewHolds(l) PROVE TypeOK'
  <2>1. OpTypeOK'
    BY <1>8, BeginType DEF RenewHolds
  <2> QED
    BY <1>8, <2>1 DEF RenewHolds, StorageTypeOK, MemoryTypeOK
<1>9. ASSUME NEW l \in Process, RenewLoad(l) PROVE TypeOK'
  <2>1. Renewed(l) \in [Payment -> Nat]
    BY <1>0 DEF Renewed, OpTypeOK, StorageTypeOK, NoHold
  <2>2. OpTypeOK'
    BY <1>9, <2>1, LoadedType DEF RenewLoad
  <2> QED
    BY <1>9, <2>2 DEF RenewLoad, StorageTypeOK, MemoryTypeOK
<1>10. ASSUME NEW l \in Process, RenewStore(l) PROVE TypeOK'
  <2>1. snap[l] \in [Payment -> Nat] /\ {} \in SUBSET Process
    BY DEF OpTypeOK
  <2>2. OpTypeOK'
    BY <1>10, <2>1, ReturnType, RetryType DEF RenewStore
  <2> QED
    BY <1>10, <2>1, <2>2 DEF RenewStore, StoreHolds, StorageTypeOK, MemoryTypeOK
<1>11. ASSUME NEW l \in Process, StorageFails(l) PROVE TypeOK'
  <2>1. snap[l] \in [Payment -> Nat] /\ fresh \in SUBSET Process /\ {} \in SUBSET Process
    BY DEF OpTypeOK
  <2>2. OpTypeOK'
    BY <1>11, <2>1, ReturnType DEF StorageFails
  <2> QED
    BY <1>11, <2>1, <2>2 DEF StorageFails, StoreHolds, StorageTypeOK, MemoryTypeOK
<1>12. ASSUME NEW l \in Process, NEW p \in Payment, BeginRelease(l, p) PROVE OpTypeOK'
  <2>1. CASE UNCHANGED opvars
    BY <2>1 DEF OpTypeOK, opvars
  <2>2. CASE Begin(l, p, 0, "release_load")
    BY <2>2, BeginType
  <2> QED
    BY <1>12, <2>1, <2>2 DEF BeginRelease
<1>13. ASSUME NEW l \in Process, NEW p \in Payment, Commit(l, p) PROVE TypeOK'
  <2>1. OpTypeOK'
    BY <1>12, <1>13 DEF Commit
  <2>2. StorageTypeOK'
    BY <1>13 DEF Commit, Append, StorageTypeOK
  <2>3. MemoryTypeOK'
    BY <1>13, <2>2 DEF Commit, Mirror, BeginRelease, StorageTypeOK, MemoryTypeOK
  <2> QED
    BY <1>13, <2>1, <2>2, <2>3 DEF Commit
<1>14. ASSUME NEW l \in Process, NEW p \in Payment, CommitDurableFails(l, p) PROVE TypeOK'
  BY <1>14 DEF CommitDurableFails, Append, StorageTypeOK, MemoryTypeOK, OpTypeOK, opvars
<1>15. ASSUME NEW l \in Process, NEW p \in Payment, CommitFails(l, p) PROVE TypeOK'
  <2>1. OpTypeOK'
    <3>1. CASE UNCHANGED opvars
      BY <3>1 DEF OpTypeOK, opvars
    <3>2. CASE BeginRelease(l, p)
      BY <1>12, <3>2
    <3> QED
      BY <1>15, <3>1, <3>2 DEF CommitFails
  <2>2. StorageTypeOK'
    BY <1>15 DEF CommitFails, Append, StorageTypeOK
  <2>3. MemoryTypeOK'
    BY <1>15 DEF CommitFails, BeginRelease, MemoryTypeOK
  <2> QED
    BY <1>15, <2>1, <2>2, <2>3 DEF CommitFails
<1>16. ASSUME NEW l \in Process, NEW p \in Payment, Drop(l, p) PROVE TypeOK'
  <2>1. OpTypeOK'
    BY <1>12, <1>16 DEF Drop
  <2> QED
    BY <1>16, <2>1 DEF Drop, BeginRelease, StorageTypeOK, MemoryTypeOK
<1>17. ASSUME NEW l \in Process, NEW b \in Budgets, UpdateBudget(l, b) PROVE TypeOK'
  BY <1>17 DEF UpdateBudget, StorageTypeOK, MemoryTypeOK, OpTypeOK, opvars
<1>18. ASSUME NEW l \in Process, NEW b \in Budgets, InitGlobal(l, b) PROVE TypeOK'
  BY <1>18 DEF InitGlobal, StorageTypeOK, MemoryTypeOK, OpTypeOK
<1>19. ASSUME NEW l \in Process, ClearGlobal(l) PROVE TypeOK'
  BY <1>19 DEF ClearGlobal, Forget, StorageTypeOK, MemoryTypeOK, OpTypeOK
<1>20. ASSUME NEW l \in Process, Crash(l) PROVE TypeOK'
  <2>1. fresh \in SUBSET Process
    BY DEF OpTypeOK
  <2>2. OpTypeOK'
    BY <1>20, <2>1, ReturnType DEF Crash
  <2> QED
    BY <1>20, <2>2 DEF Crash, Forget, StorageTypeOK, MemoryTypeOK
<1>21. ASSUME Tick PROVE TypeOK'
  BY <1>21 DEF Tick, StorageTypeOK, MemoryTypeOK, OpTypeOK, opvars
<1>22. CASE UNCHANGED vars
  BY <1>22 DEF vars, StorageTypeOK, MemoryTypeOK, OpTypeOK, opvars
<1> QED
  BY <1>1, <1>2, <1>3, <1>4, <1>5, <1>6, <1>7, <1>8, <1>9, <1>10, <1>11, <1>13,
     <1>14, <1>15, <1>16, <1>17, <1>18, <1>19, <1>20, <1>21, <1>22 DEF Next, Step

\* TypeOK holds in every reachable state of the ledger.
THEOREM TypeCorrect == Spec => []TypeOK
<1>1. Init => TypeOK
  BY DEF Init, TypeOK, StorageTypeOK, MemoryTypeOK, OpTypeOK, NoHold, NoHolds, PCs,
         Reserving, Releasing
<1> QED
  BY <1>1, TypeStep, PTL DEF Spec

-----------------------------------------------------------------------------
(* What a step of one process leaves alone.                                *)

\* The operations the processes other than l are in the middle of.
OthersSame(l) ==
  \A m \in Process \ {l} :
    /\ pc'[m] = pc[m] /\ cur'[m] = cur[m] /\ now'[m] = now[m] /\ snap'[m] = snap[m]
    /\ m \in fresh' => m \in fresh

\* The operation of l stays on its payment, or l has none.
SameOp(l) ==
  \/ pc'[l] \notin Reserving \cup Releasing
  \/ pc[l] \in Reserving /\ pc'[l] \in Reserving /\ cur'[l] = cur[l]
  \/ pc[l] \in Releasing /\ pc'[l] \in Releasing /\ cur'[l] = cur[l]

\* Begin touches only the locals of l.
LEMMA BeginFrame ==
  ASSUME OpTypeOK, NEW l \in Process, NEW p, NEW t, NEW at, Begin(l, p, t, at)
  PROVE  /\ OthersSame(l)
         /\ pc'[l] = at /\ cur'[l] = p /\ now'[l] = t /\ snap'[l] = snap[l]
         /\ fresh' = fresh
BY DEF OpTypeOK, Begin, OthersSame

\* Return touches only the locals of l, and l no longer has a version.
LEMMA ReturnFrame ==
  ASSUME OpTypeOK, NEW l \in Process, NEW at, NEW fr \in SUBSET fresh, Return(l, at, fr)
  PROVE  /\ OthersSame(l)
         /\ pc'[l] = at /\ snap'[l] = NoHolds
         /\ fresh' = fr \ {l}
BY DEF OpTypeOK, Return, OthersSame

\* Loaded touches only the locals of l.
LEMMA LoadedFrame ==
  ASSUME OpTypeOK, NEW l \in Process, NEW doc, NEW at, Loaded(l, doc, at)
  PROVE  /\ OthersSame(l)
         /\ pc'[l] = at /\ cur'[l] = cur[l] /\ now'[l] = now[l] /\ snap'[l] = doc
         /\ fresh' = fresh \cup {l}
BY DEF OpTypeOK, Loaded, OthersSame

\* Retry touches only the locals of l, and l no longer has a version.
LEMMA RetryFrame ==
  ASSUME OpTypeOK, NEW l \in Process, NEW at, Retry(l, at)
  PROVE  /\ OthersSame(l)
         /\ \/ pc'[l] = at /\ cur'[l] = cur[l] /\ now'[l] = now[l]
            \/ pc'[l] = "idle"
         /\ snap'[l] = NoHolds
         /\ fresh' = fresh \ {l}
<1>1. CASE Return(l, "idle", fresh)
  BY <1>1, ReturnFrame
<1>2. CASE ~Return(l, "idle", fresh)
  <2>1. /\ pc' = [pc EXCEPT ![l] = at]
        /\ snap' = [snap EXCEPT ![l] = NoHolds]
        /\ fresh' = fresh \ {l}
        /\ UNCHANGED <<cur, now>>
    BY <1>2 DEF Retry
  <2> QED
    BY <2>1 DEF OpTypeOK, OthersSame
<1> QED
  BY <1>1, <1>2

\* BeginRelease touches only the locals of l and its reservation of p.
LEMMA BeginReleaseFrame ==
  ASSUME TypeOK, NEW l \in Process, NEW p, BeginRelease(l, p)
  PROVE  /\ OthersSame(l)
         /\ \/ p \in reservations[l] /\ pc'[l] = "release_load" /\ cur'[l] = p
            \/ p \notin reservations[l] /\ pc'[l] = pc[l]
         /\ snap'[l] = snap[l] /\ fresh' = fresh
         /\ reservations'[l] = reservations[l] \ {p}
         /\ \A m \in Process \ {l} : reservations'[m] = reservations[m]
<1>1. CASE UNCHANGED opvars /\ p \notin reservations[l]
  BY <1>1 DEF BeginRelease, OthersSame, opvars, TypeOK, MemoryTypeOK
<1>2. CASE Begin(l, p, 0, "release_load") /\ p \in reservations[l]
  BY <1>2, BeginFrame DEF BeginRelease, TypeOK, MemoryTypeOK
<1> QED
  BY <1>1, <1>2 DEF BeginRelease

\* All but the first step of reserve, commit and drop continue an operation
\* or end it.
LEMMA QuietSteps ==
  ASSUME TypeOK, NEW l \in Process,
         \/ Step(l) \/ RenewHolds(l) \/ ClearGlobal(l) \/ Crash(l)
         \/ \E b \in Budgets : UpdateBudget(l, b) \/ InitGlobal(l, b)
  PROVE  OthersSame(l) /\ SameOp(l)
<1>0. OpTypeOK /\ {} \in SUBSET fresh /\ fresh \in SUBSET fresh
  BY DEF TypeOK
<1>a. ASSUME NEW fr \in SUBSET fresh, Return(l, "idle", fr)
      PROVE  OthersSame(l) /\ SameOp(l)
  BY <1>0, <1>a, ReturnFrame DEF SameOp, Reserving, Releasing
<1>b. ASSUME Retry(l, "reserve_load"), pc[l] \in Reserving
      PROVE  OthersSame(l) /\ SameOp(l)
  BY <1>0, <1>b, RetryFrame DEF SameOp, Reserving, Releasing
<1>c. ASSUME Retry(l, "release_load"), pc[l] \in Releasing
      PROVE  OthersSame(l) /\ SameOp(l)
  BY <1>0, <1>c, RetryFrame DEF SameOp, Reserving, Releasing
<1>d. ASSUME Retry(l, "renew_load")
      PROVE  OthersSame(l) /\ SameOp(l)
  BY <1>0, <1>d, RetryFrame DEF SameOp, Reserving, Releasing
<1>1. CASE ReserveLoad(l)
  BY <1>0, <1>1, LoadedFrame DEF ReserveLoad, SameOp, Reserving, Releasing
<1>2. CASE ReserveCheck(l)
  BY <1>0, <1>2 DEF ReserveCheck, OthersSame, OpTypeOK, SameOp, Reserving, Releasing
<1>3. CASE ReserveRecheck(l)
  BY <1>0, <1>3, <1>a, <1>b DEF ReserveRecheck, Reserving
<1>4. CASE ReserveStore(l)
  BY <1>0, <1>4, <1>a, <1>b DEF ReserveStore, Reserving
<1>5. CASE ReleaseLoad(l)
  <2>1. pc[l] = "release_load"
    BY <1>5 DEF ReleaseLoad
  <2>2. CASE Return(l, "idle", fresh)
    BY <1>0, <2>2, <1>a
  <2>3. CASE Loaded(l, [holds EXCEPT ![cur[l]] = NoHold], "release_store")
    BY <1>0, <2>1, <2>3, LoadedFrame DEF SameOp, Reserving, Releasing
  <2> QED
    BY <1>5, <2>2, <2>3 DEF ReleaseLoad
<1>6. CASE ReleaseStore(l)
  BY <1>0, <1>6, <1>a, <1>c DEF ReleaseStore, Releasing
<1>7. CASE RenewHolds(l)
  BY <1>0, <1>7, BeginFrame DEF RenewHolds, SameOp, Reserving, Releasing
<1>8. CASE RenewLoad(l)
  BY <1>0, <1>8, LoadedFrame DEF RenewLoad, SameOp, Reserving, Releasing
<1>9. CASE RenewStore(l)
  BY <1>0, <1>9, <1>a, <1>d DEF RenewStore
<1>10. CASE StorageFails(l)
  BY <1>0, <1>10, <1>a DEF StorageFails
<1>11. CASE ClearGlobal(l)
  BY <1>0, <1>11 DEF ClearGlobal, OthersSame, OpTypeOK, SameOp, Reserving, Releasing
<1>12. CASE Crash(l)
  <2>1. Return(l, "closed", fresh)
    BY <1>12 DEF Crash
  <2> QED
    BY <1>0, <2>1, ReturnFrame DEF SameOp, Reserving, Releasing
<1>13. CASE \E b \in Budgets : UpdateBudget(l, b)
  BY <1>0, <1>13 DEF UpdateBudget, OthersSame, OpTypeOK, opvars, SameOp, Reserving, Releasing
<1>14. CASE \E b \in Budgets : InitGlobal(l, b)
  BY <1>0, <1>14 DEF InitGlobal, OthersSame, OpTypeOK, SameOp, Reserving, Releasing
<1> QED
  BY <1>1, <1>2, <1>3, <1>4, <1>5, <1>6, <1>7, <1>8, <1>9, <1>10, <1>11, <1>12, <1>13, <1>14
     DEF Step

\* The storage calls of an operation leave the ledger open.
LEMMA StepStaysOpen ==
  ASSUME TypeOK, NEW l \in Process, Step(l)
  PROVE  pc'[l] # "closed"
<1>0. OpTypeOK /\ {} \in SUBSET fresh /\ fresh \in SUBSET fresh
  BY DEF TypeOK
<1>a. ASSUME NEW fr \in SUBSET fresh, Return(l, "idle", fr)
      PROVE  pc'[l] # "closed"
  BY <1>0, <1>a, ReturnFrame
<1>b. ASSUME NEW at \in {"reserve_load", "release_load", "renew_load"}, Retry(l, at)
      PROVE  pc'[l] # "closed"
  BY <1>0, <1>b, RetryFrame
<1>1. CASE ReserveLoad(l)
  BY <1>0, <1>1, LoadedFrame DEF ReserveLoad
<1>2. CASE ReserveCheck(l)
  BY <1>0, <1>2 DEF ReserveCheck, OpTypeOK
<1>3. CASE ReserveRecheck(l)
  BY <1>0, <1>3, <1>a, <1>b DEF ReserveRecheck
<1>4. CASE ReserveStore(l)
  BY <1>0, <1>4, <1>a, <1>b DEF ReserveStore
<1>5. CASE ReleaseLoad(l)
  BY <1>0, <1>5, LoadedFrame, <1>a DEF ReleaseLoad
<1>6. CASE ReleaseStore(l)
  BY <1>0, <1>6, <1>a, <1>b DEF ReleaseStore
<1>7. CASE RenewLoad(l)
  BY <1>0, <1>7, LoadedFrame DEF RenewLoad
<1>8. CASE RenewStore(l)
  BY <1>0, <1>8, <1>a, <1>b DEF RenewStore
<1>9. CASE StorageFails(l)
  BY <1>0, <1>9, <1>a DEF StorageFails
<1> QED
  BY <1>1, <1>2, <1>3, <1>4, <1>5, <1>6, <1>7, <1>8, <1>9 DEF Step
=============================================================================
