------------------------ MODULE PaymentLedgerBudget -------------------------
(* PaymentLedger: while leases are kept, admissions fit the budget.        *)
EXTENDS PaymentLedgerLeases

-----------------------------------------------------------------------------
(* While leases are kept, admissions fit the budget.                       *)

\* Total grows with the set.
LEMMA TotalMonotone ==
  ASSUME NEW S \in SUBSET Payment, NEW T \in SUBSET Payment, S \subseteq T
  PROVE  Total(S) <= Total(T)
<1>1. S \cup (T \ S) = T /\ S \cap (T \ S) = {} /\ T \ S \in SUBSET Payment
  OBVIOUS
<1>2. Total(T) + Total({}) = Total(S) + Total(T \ S)
  BY <1>1, TotalAssumption
<1>3. Total({}) = 0 /\ Total(S) \in Nat /\ Total(T) \in Nat /\ Total(T \ S) \in Nat
  BY <1>1, TotalAssumption
<1> QED
  BY <1>2, <1>3

\* Holds and records that cover a set add up to at least its total.
LEMMA TotalCover ==
  ASSUME NEW S \in SUBSET Payment, NEW H \in SUBSET Payment, NEW R \in SUBSET Payment,
         S \subseteq H \cup R
  PROVE  Total(S) <= Total(H) + Total(R)
<1>1. Total(S) <= Total(H \cup R)
  BY TotalMonotone
<1>2. Total(H \cup R) + Total(H \cap R) = Total(H) + Total(R)
  BY TotalAssumption
<1>3. /\ Total(S) \in Nat /\ Total(H \cup R) \in Nat /\ Total(H \cap R) \in Nat
      /\ Total(H) \in Nat /\ Total(R) \in Nat
  <2>1. H \cup R \in SUBSET Payment /\ H \cap R \in SUBSET Payment
    OBVIOUS
  <2> QED
    BY <2>1, TotalAssumption
<1> QED
  BY <1>1, <1>2, <1>3

\* One more payment adds its amount.
LEMMA TotalAdd ==
  ASSUME NEW S \in SUBSET Payment, NEW p \in Payment, p \notin S
  PROVE  Total(S \cup {p}) = Total(S) + Amount(p)
<1>1. S \cap {p} = {} /\ {p} \in SUBSET Payment /\ S \cup {p} \in SUBSET Payment
  OBVIOUS
<1>2. Total(S \cup {p}) + Total({}) = Total(S) + Total({p})
  BY <1>1, TotalAssumption
<1>3. Total({}) = 0 /\ Total({p}) = Amount(p) /\ Total(S \cup {p}) \in Nat
  BY <1>1, TotalAssumption
<1> QED
  BY <1>2, <1>3

\* The caps of a configured budget are u64 values.
LEMMA BudgetType ==
  ASSUME NEW b \in Budgets
  PROVE  /\ MaxU64 \in Nat
         /\ b.daily \in Nat /\ b.daily <= MaxU64
         /\ b.monthly \in Nat /\ b.monthly <= MaxU64
<1>1. b \in [perRequest : 0..MaxU64, daily : 0..MaxU64, monthly : 0..MaxU64] /\ MaxU64 \in Nat
  BY ConstantsAssumption
<1> QED
  BY <1>1

\* check_budget_at: what is counted may be more than what was admitted, but a
\* verdict that allows p leaves room for p next to all that was admitted.
\* Saturation does not hide an excess.
LEMMA VerdictSound ==
  ASSUME NEW b \in Budgets, NEW p \in Payment, NEW A \in SUBSET Payment,
         NEW H \in SUBSET Payment, NEW R \in SUBSET Payment,
         A \subseteq H \cup R, Total(A) <= MaxU64, BudgetAllows(b, p, H, R)
  PROVE  Total(A) + Amount(p) <= b.daily /\ Total(A) + Amount(p) <= b.monthly
<1>1. /\ Total(A) \in Nat /\ Total(H) \in Nat /\ Total(R) \in Nat /\ Amount(p) \in Nat
  BY TotalAssumption, AmountAssumption, BudgetType
<1>2. Total(A) <= Total(H) + Total(R)
  BY TotalCover
<1>3. /\ Saturating(Total(H) + Total(R)) + Amount(p) <= b.daily
      /\ Saturating(Total(H) + Total(R)) + Amount(p) <= b.monthly
  BY DEF BudgetAllows
<1>4. Total(A) <= Saturating(Total(H) + Total(R)) /\ Saturating(Total(H) + Total(R)) \in Nat
  BY <1>1, <1>2, BudgetType DEF Saturating
<1> QED
  BY <1>1, <1>3, <1>4, BudgetType

\* All that was admitted are payments.
LEMMA AdmittedType == TypeOK => Admitted \in SUBSET Payment
BY DEF TypeOK, StorageTypeOK, MemoryTypeOK, Admitted, Held

\* Commit and its failure are the durable ones, so nothing is lost.
LEMMA LostStep ==
  ASSUME FALSE \notin CommitModes, [Next]_vars
  PROVE  lost' = lost
BY DEF Next, Step, Reserve, ReserveLoad, ReserveCheck, ReserveRecheck, ReserveStore, ReleaseLoad,
   ReleaseStore, RenewHolds, RenewLoad, RenewStore, StorageFails, Commit, Drop,
   CommitDurableFails, CommitFails, UpdateBudget, InitGlobal, ClearGlobal, Crash, Tick, vars

\* RoomLeft for one process.
OwnRoom(l) ==
  /\ Total(Admitted) + Amount(cur[l]) <= budget[l].daily
  /\ Total(Admitted) + Amount(cur[l]) <= budget[l].monthly

\* A step of l that admits nothing leaves the others their room.
LEMMA RoomKept ==
  ASSUME TypeOK, TypeOK', RoomLeft, NEW l \in Process, OthersSame(l), Admitted' \subseteq Admitted,
         \A m \in Process \ {l} : budget'[m] = budget[m],
         l \in fresh' /\ pc'[l] = "reserve_store" => OwnRoom(l)'
  PROVE  RoomLeft'
<1>1. Total(Admitted') <= Total(Admitted)
  <2>1. Admitted \in SUBSET Payment
    BY AdmittedType
  <2> QED
    BY <2>1, TotalMonotone
<1>2. ASSUME NEW m \in fresh', pc'[m] = "reserve_store", m # l PROVE OwnRoom(m)'
  <2>1. /\ m \in Process /\ m \in fresh /\ pc[m] = "reserve_store"
        /\ cur'[m] = cur[m] /\ budget'[m] = budget[m]
    BY <1>2 DEF OthersSame, TypeOK, OpTypeOK
  <2>2. /\ Total(Admitted) + Amount(cur[m]) <= budget[m].daily
        /\ Total(Admitted) + Amount(cur[m]) <= budget[m].monthly
    BY <2>1 DEF RoomLeft
  <2>3. /\ cur[m] \in Payment /\ budget[m] \in Budgets
        /\ Admitted \in SUBSET Payment /\ Admitted' \in SUBSET Payment
    BY <2>1, AdmittedType DEF TypeOK, OpTypeOK, MemoryTypeOK, Reserving
  <2>4. /\ Total(Admitted) \in Nat /\ Total(Admitted') \in Nat /\ Amount(cur[m]) \in Nat
        /\ budget[m].daily \in Nat /\ budget[m].monthly \in Nat
    BY <2>3, TotalAssumption, AmountAssumption, BudgetType
  <2> QED
    BY <1>1, <2>1, <2>2, <2>4 DEF OwnRoom
<1> QED
  BY <1>2 DEF RoomLeft, OwnRoom

\* Only the put of a reserve admits a payment.
LEMMA AdmittedStep ==
  ASSUME TypeOK, FALSE \notin CommitModes, [Next]_vars,
         \A l \in Process : ~(ReserveStore(l) /\ l \in fresh)
  PROVE  Admitted' \subseteq Admitted /\ \A l \in Process : held'[l] \subseteq held[l]
<1>0. MemoryTypeOK
  BY DEF TypeOK
<1>1. lost' = lost
  BY LostStep
<1>2. ASSUME NEW l \in Process, NEW p \in Payment,
             Commit(l, p) \/ CommitDurableFails(l, p) \/ Drop(l, p)
      PROVE  /\ recorded' \subseteq recorded \cup held[l]
             /\ \A m \in Process : held'[m] \subseteq held[m]
  BY <1>0, <1>2 DEF Commit, CommitDurableFails, Drop, Append, storage, MemoryTypeOK
<1>3. ASSUME NEW l \in Process,
             \/ Step(l) \/ RenewHolds(l) \/ ClearGlobal(l)
             \/ \E p \in Payment : Reserve(l, p)
             \/ \E b \in Budgets : UpdateBudget(l, b) \/ InitGlobal(l, b)
      PROVE  recorded' = recorded /\ held' = held
  BY <1>3 DEF Step, ReserveLoad, ReserveCheck, ReserveRecheck, ReserveStore, StoreHolds,
     ReleaseLoad, ReleaseStore, RenewLoad, RenewStore, StorageFails, RenewHolds, ClearGlobal,
     Reserve, UpdateBudget, InitGlobal, storage, memory
<1>4. ASSUME NEW l \in Process, Crash(l)
      PROVE  recorded' = recorded /\ \A m \in Process : held'[m] \subseteq held[m]
  BY <1>0, <1>4 DEF Crash, storage, MemoryTypeOK
<1>5. CASE Tick \/ UNCHANGED vars
  BY <1>5 DEF Tick, vars, storage, memory, Admitted, Held
<1>6. ASSUME NEW l \in Process, NEW p \in Payment PROVE ~CommitFails(l, p)
  BY DEF CommitFails
<1>7. CASE /\ \E l \in Process : recorded' \subseteq recorded \cup held[l]
           /\ \A m \in Process : held'[m] \subseteq held[m]
  BY <1>1, <1>7 DEF Admitted, Held
<1>8. CASE \E l \in Process, p \in Payment :
             Commit(l, p) \/ CommitDurableFails(l, p) \/ Drop(l, p)
  BY <1>2, <1>7, <1>8
<1>9. CASE \E l \in Process :
             \/ Step(l) \/ RenewHolds(l) \/ ClearGlobal(l)
             \/ \E p \in Payment : Reserve(l, p)
             \/ \E b \in Budgets : UpdateBudget(l, b) \/ InitGlobal(l, b)
  BY <1>3, <1>7, <1>9
<1>10. CASE \E l \in Process : Crash(l)
  BY <1>4, <1>7, <1>10
<1> QED
  BY <1>5, <1>6, <1>8, <1>9, <1>10 DEF Next

\* An admission admits the one payment being reserved, within the budget.
LEMMA AdmissionStep ==
  ASSUME FALSE \notin CommitModes, TypeOK, Ownership, NothingLost, RoomLeft, [Next]_vars,
         NEW l \in Process, ReserveStore(l), l \in fresh
  PROVE  /\ Total(Admitted') <= budget[l].daily
         /\ Total(Admitted') <= budget[l].monthly
         /\ Total(Admitted') <= MaxU64
         /\ fresh' = {}
         /\ \A m \in Process \ {l} : held'[m] = held[m]
<1>0. OpTypeOK /\ MemoryTypeOK /\ {} \in SUBSET fresh
  BY DEF TypeOK
<1>1. /\ held' = [held EXCEPT ![l] = @ \cup {cur[l]}] /\ recorded' = recorded
      /\ pc[l] = "reserve_store" /\ Return(l, "idle", {}) /\ lost' = lost
  BY DEF ReserveStore, StoreHolds
<1>2. fresh' = {}
  BY <1>0, <1>1, ReturnFrame
<1>3. Admitted' = Admitted \cup {cur[l]}
  BY <1>0, <1>1 DEF Admitted, Held, MemoryTypeOK
<1>4. cur[l] \in Payment /\ cur[l] \notin Admitted
  BY <1>0, <1>1 DEF OpTypeOK, Ownership, NothingLost, Admitted, Held, Reserving
<1>5. Admitted \in SUBSET Payment
  BY AdmittedType
<1>6. Total(Admitted') = Total(Admitted) + Amount(cur[l])
  BY <1>3, <1>4, <1>5, TotalAdd
<1>7. Total(Admitted) + Amount(cur[l]) <= budget[l].daily
      /\ Total(Admitted) + Amount(cur[l]) <= budget[l].monthly
  BY <1>1 DEF RoomLeft
<1>8. Total(Admitted') \in Nat /\ budget[l] \in Budgets
  <2>1. Admitted' \in SUBSET Payment
    BY <1>3, <1>4, <1>5
  <2> QED
    BY <1>0, <2>1, TotalAssumption DEF MemoryTypeOK
<1>9. \A m \in Process \ {l} : held'[m] = held[m]
  BY <1>0, <1>1 DEF MemoryTypeOK
<1> QED
  BY <1>2, <1>6, <1>7, <1>8, <1>9, BudgetType

\* ReserveCheck: the holds and records counted are all that was admitted, so
\* an allowing verdict leaves room.  The holds are current because l is
\* fresh, and a hold that was gone from them had its record stored before.
LEMMA CheckLeavesRoom ==
  ASSUME TypeOK, ViewsSound, LeasesLive, SnapComplete, NothingLost,
         NEW l \in fresh, ReserveCheck(l), pc'[l] = "reserve_store", Admitted' \subseteq Admitted
  PROVE  OwnRoom(l)'
<1>0. /\ OpTypeOK /\ MemoryTypeOK /\ StorageTypeOK /\ l \in Process /\ clock \in Nat
  BY DEF TypeOK, OpTypeOK
<1>1. /\ pc[l] = "reserve_check" /\ cur'[l] = cur[l] /\ budget'[l] = budget[l]
      /\ records'[l] = records[l] \cup recorded
      /\ committed'[l] = committed[l] \cup keyed
      /\ BudgetAllows(budget[l], cur[l], CountedHolds(l), records'[l])
  BY <1>0 DEF ReserveCheck, RefreshRecords, OpTypeOK, MemoryTypeOK
<1>2. cur[l] \in Payment /\ budget[l] \in Budgets
  BY <1>0, <1>1 DEF OpTypeOK, MemoryTypeOK, Reserving
<1>3. CountedHolds(l) \in SUBSET Payment /\ records'[l] \in SUBSET Payment
  BY <1>0, <1>1 DEF CountedHolds, StorageTypeOK, MemoryTypeOK
<1>4. ASSUME NEW m \in Process, NEW q \in held[m] \ recorded PROVE q \in CountedHolds(l)
  <2>1. q \in Payment /\ snap[l] = holds
    BY <1>0, <1>1 DEF SnapComplete, MemoryTypeOK
  <2>2. holds[q] > now[l]
    BY <1>0, <1>1, <2>1 DEF LeasesLive, Reserving, StorageTypeOK, OpTypeOK
  <2>3. q \notin committed'[l]
    BY <1>0, <1>1 DEF ViewsSound, StorageTypeOK
  <2> QED
    BY <2>1, <2>2, <2>3 DEF CountedHolds
<1>5. Admitted \subseteq CountedHolds(l) \cup records'[l]
  BY <1>1, <1>4 DEF Admitted, Held, NothingLost
<1>6. Admitted \in SUBSET Payment /\ Admitted' \in SUBSET Payment
  BY AdmittedType
<1>7. Total(Admitted) <= MaxU64
  BY DEF NothingLost
<1>8. /\ Total(Admitted) + Amount(cur[l]) <= budget[l].daily
      /\ Total(Admitted) + Amount(cur[l]) <= budget[l].monthly
  <2> HIDE DEF BudgetAllows, CountedHolds, Admitted
  <2> QED
    BY <1>1, <1>2, <1>3, <1>5, <1>6, <1>7, VerdictSound
<1>9. Total(Admitted') <= Total(Admitted)
  BY <1>6, TotalMonotone
<1>10. /\ Total(Admitted) \in Nat /\ Total(Admitted') \in Nat /\ Amount(cur[l]) \in Nat
       /\ budget[l].daily \in Nat /\ budget[l].monthly \in Nat
  BY <1>2, <1>6, TotalAssumption, AmountAssumption, BudgetType
<1> QED
  BY <1>1, <1>8, <1>9, <1>10 DEF OwnRoom

\* A step that admits nothing preserves RoomLeft.
LEMMA RoomStep ==
  ASSUME TypeOK, TypeOK', ViewsSound, LeasesLive, SnapComplete, NothingLost, RoomLeft,
         FALSE \notin CommitModes, [Next]_vars, Admitted' \subseteq Admitted,
         \A l \in Process : ~(ReserveStore(l) /\ l \in fresh)
  PROVE  RoomLeft'
<1>0. /\ OpTypeOK /\ MemoryTypeOK /\ {} \in SUBSET fresh /\ fresh \in SUBSET fresh
  BY DEF TypeOK
<1>1. ASSUME NEW l \in Process, OthersSame(l), pc'[l] # "reserve_store",
             \A m \in Process \ {l} : budget'[m] = budget[m]
      PROVE  RoomLeft'
  BY <1>1, RoomKept
<1>2. ASSUME NEW l \in Process, ReserveCheck(l) PROVE RoomLeft'
  <2>1. OthersSame(l) /\ budget' = budget /\ fresh' = fresh
    BY <1>2, QuietSteps DEF ReserveCheck, Step
  <2> QED
    BY <1>2, <2>1, CheckLeavesRoom, RoomKept
<1>3. ASSUME NEW l \in Process, Step(l), ~ReserveCheck(l) PROVE RoomLeft'
  <2>1. OthersSame(l)
    BY <1>3, QuietSteps
  <2>2. budget' = budget
    BY <1>3 DEF Step, ReserveLoad, ReserveRecheck, ReserveStore, ReleaseLoad, ReleaseStore,
       RenewLoad, RenewStore, StorageFails, memory
  <2>3. pc'[l] # "reserve_store"
    <3>1. CASE ReserveLoad(l) \/ ReleaseLoad(l) \/ RenewLoad(l)
      BY <1>0, <3>1, LoadedFrame, ReturnFrame DEF ReserveLoad, ReleaseLoad, RenewLoad
    <3>2. CASE ReserveRecheck(l) \/ StorageFails(l)
      BY <1>0, <3>2, ReturnFrame, RetryFrame DEF ReserveRecheck, StorageFails
    <3>3. CASE ReserveStore(l) \/ ReleaseStore(l) \/ RenewStore(l)
      BY <1>0, <3>3, ReturnFrame, RetryFrame DEF ReserveStore, ReleaseStore, RenewStore
    <3> QED
      BY <1>3, <3>1, <3>2, <3>3 DEF Step
  <2> QED
    BY <1>1, <2>1, <2>2, <2>3
<1>4. ASSUME NEW l \in Process, NEW p \in Payment, Reserve(l, p) PROVE RoomLeft'
  <2>1. pc[l] = "idle" /\ budget' = budget
    BY <1>4 DEF Reserve, memory
  <2>2. CASE UNCHANGED opvars
    BY <1>1, <2>1, <2>2 DEF opvars, OthersSame
  <2>3. CASE Begin(l, p, clock, "reserve_load")
    <3>1. OthersSame(l) /\ pc'[l] = "reserve_load"
      BY <1>0, <2>3, BeginFrame
    <3> QED
      BY <1>1, <2>1, <3>1
  <2> QED
    BY <1>4, <2>2, <2>3 DEF Reserve
<1>5. ASSUME NEW l \in Process, NEW p \in Payment, Commit(l, p) \/ Drop(l, p) PROVE RoomLeft'
  <2>1. BeginRelease(l, p) /\ pc[l] \in {"idle", "closed"} /\ budget' = budget
    BY <1>5 DEF Commit, Drop
  <2>2. OthersSame(l) /\ pc'[l] # "reserve_store"
    BY <2>1, BeginReleaseFrame
  <2> QED
    BY <1>1, <2>1, <2>2
<1>6. ASSUME NEW l \in Process, NEW p \in Payment, CommitDurableFails(l, p) PROVE RoomLeft'
  <2>1. UNCHANGED opvars /\ budget' = budget /\ pc[l] \in {"idle", "closed"}
    BY <1>6 DEF CommitDurableFails
  <2> QED
    BY <1>1, <2>1 DEF opvars, OthersSame
<1>7. ASSUME NEW l \in Process, NEW p \in Payment PROVE ~CommitFails(l, p)
  BY DEF CommitFails
<1>8. ASSUME NEW l \in Process,
             \/ RenewHolds(l) \/ ClearGlobal(l) \/ Crash(l)
             \/ \E b \in Budgets : UpdateBudget(l, b) \/ InitGlobal(l, b)
      PROVE  RoomLeft'
  <2>1. OthersSame(l)
    BY <1>8, QuietSteps
  <2>2. \A m \in Process \ {l} : budget'[m] = budget[m]
    BY <1>0, <1>8 DEF RenewHolds, ClearGlobal, Crash, UpdateBudget, InitGlobal, memory, MemoryTypeOK
  <2>3. pc'[l] # "reserve_store"
    <3>1. CASE RenewHolds(l) \/ Crash(l)
      BY <1>0, <3>1, ReturnFrame, BeginFrame DEF RenewHolds, Crash
    <3>2. CASE ClearGlobal(l) \/ \E b \in Budgets : UpdateBudget(l, b) \/ InitGlobal(l, b)
      BY <1>0, <3>2 DEF ClearGlobal, UpdateBudget, InitGlobal, opvars, OpTypeOK
    <3> QED
      BY <1>8, <3>1, <3>2
  <2> QED
    BY <1>1, <2>1, <2>2, <2>3
<1>9. CASE Tick \/ UNCHANGED vars
  BY <1>9 DEF Tick, vars, storage, memory, opvars, RoomLeft, Admitted, Held
<1> QED
  BY <1>2, <1>3, <1>4, <1>5, <1>6, <1>7, <1>8, <1>9 DEF Next

\* Every step preserves NothingLost and RoomLeft, and if it admits a payment
\* the budget covers it.
LEMMA RoomAndFit ==
  ASSUME FALSE \notin CommitModes, TypeOK, TypeOK', Ownership, ViewsSound, LeasesLive, SnapComplete,
         NothingLost, RoomLeft, [Next]_vars
  PROVE  NothingLost' /\ RoomLeft' /\ AdmissionFits
<1>1. lost' = {}
  BY LostStep DEF NothingLost
<1>2. ASSUME NEW l \in Process, ReserveStore(l), l \in fresh
      PROVE  NothingLost' /\ RoomLeft' /\ AdmissionFits
  BY <1>1, <1>2, AdmissionStep DEF NothingLost, RoomLeft, AdmissionFits
<1>3. ASSUME \A l \in Process : ~(ReserveStore(l) /\ l \in fresh)
      PROVE  NothingLost' /\ RoomLeft' /\ AdmissionFits
  <2>1. Admitted' \subseteq Admitted /\ \A l \in Process : held'[l] \subseteq held[l]
    BY <1>3, AdmittedStep
  <2>2. Admitted \in SUBSET Payment /\ Admitted' \in SUBSET Payment
    BY <2>1, AdmittedType
  <2>3. Total(Admitted') <= Total(Admitted)
    BY <2>1, <2>2, TotalMonotone
  <2>4. Total(Admitted) \in Nat /\ Total(Admitted') \in Nat /\ MaxU64 \in Nat
    BY <2>2, TotalAssumption, ConstantsAssumption
  <2>5. NothingLost'
    BY <1>1, <2>3, <2>4 DEF NothingLost
  <2> QED
    BY <1>3, <2>1, <2>5, RoomStep DEF AdmissionFits
<1> QED
  BY <1>2, <1>3

\* LedgerInv is inductive.
LEMMA LedgerInvStep ==
  ASSUME "lapse" \notin Faults, FALSE \notin CommitModes
  PROVE  TypeOK /\ TypeOK' /\ LedgerInv /\ [Next]_vars => LedgerInv' /\ AdmissionFits
BY OwnershipStep, ViewsSoundStep, SnapBoundedStep, LeaseStep, RoomAndFit DEF LedgerInv

\* LedgerInv holds of a ledger over an empty storage.
LEMMA LedgerInvInit == Init => LedgerInv
<1> SUFFICES ASSUME Init PROVE LedgerInv
  OBVIOUS
<1>1. /\ recorded = {} /\ lost = {} /\ fresh = {} /\ keyed = {}
      /\ \A l \in Process : /\ held[l] = {} /\ reservations[l] = {} /\ pc[l] = "idle"
                            /\ committed[l] = {}
  BY DEF Init
<1>2. Admitted = {}
  BY <1>1 DEF Admitted, Held
<1>3. NothingLost
  BY <1>1, <1>2, TotalAssumption, ConstantsAssumption DEF NothingLost
<1>4. Ownership /\ ViewsSound /\ SnapBounded /\ LeasesLive /\ SnapComplete /\ RoomLeft
  BY <1>1 DEF Ownership, ViewsSound, SnapBounded, LeasesLive, SnapComplete, RoomLeft,
     Reserving, Releasing, Renewing
<1> QED
  BY <1>3, <1>4 DEF LedgerInv

\* While leases are kept and commits are durable, LedgerInv is an invariant,
\* for any number of processes and payments, through crashes, replaced
\* ledgers and storage failures.
THEOREM LedgerInvariant ==
  ASSUME "lapse" \notin Faults, FALSE \notin CommitModes
  PROVE  Spec => []LedgerInv
<1>1. TypeOK /\ TypeOK' /\ LedgerInv /\ [Next]_vars => LedgerInv'
  BY LedgerInvStep
<1> QED
  BY <1>1, LedgerInvInit, TypeCorrect, PTL DEF Spec

\* try_commit_reservation: an admitted payment is covered by a live hold or
\* by its record at every moment between its admission and its settlement.
THEOREM NothingMissing ==
  ASSUME "lapse" \notin Faults, FALSE \notin CommitModes
  PROVE  Spec => []NeverMissing
<1>1. LedgerInv => NeverMissing
  BY DEF LedgerInv, LeasesLive, NothingLost, NeverMissing, Admitted, Held
<1> QED
  BY <1>1, LedgerInvariant, PTL

\* reserve: no interleaving of any number of processes admits payments that
\* together exceed the budget of the one that admits the last.
THEOREM AdmissionsWithinBudget ==
  ASSUME "lapse" \notin Faults, FALSE \notin CommitModes
  PROVE  Spec => AdmissionsFit
<1>1. TypeOK /\ TypeOK' /\ LedgerInv /\ [Next]_vars => [AdmissionFits]_vars
  BY LedgerInvStep
<1> QED
  BY <1>1, LedgerInvariant, TypeCorrect, PTL DEF Spec, AdmissionsFit
=============================================================================
