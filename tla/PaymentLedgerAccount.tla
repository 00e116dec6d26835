------------------------ MODULE PaymentLedgerAccount ------------------------
(* Proof that PaymentLedger implements the account of SpendingBudget.      *)
EXTENDS PaymentLedgerBudget, PaymentLedgerRefinement

\* With nothing lost, the account and the ledger agree on what is admitted.
LEMMA SameAdmitted ==
  ASSUME lost = {}
  PROVE  Account!Admitted = Admitted
BY DEF Account!Admitted, Admitted, Held

\* The steps of an operation keep it within the cap per request.
LEMMA CappedOwnStep ==
  ASSUME TypeOK, RequestCapped, NEW l \in Process, Step(l)
  PROVE  RequestCapped'
<1>0. OpTypeOK /\ MemoryTypeOK
  BY DEF TypeOK
<1>1. budget' = budget
  BY DEF Step, ReserveLoad, ReserveCheck, ReserveRecheck, ReserveStore, StoreHolds,
     ReleaseLoad, ReleaseStore, RenewLoad, RenewStore, StorageFails, storage, memory
<1>2. \A m \in Process \ {l} : pc'[m] = pc[m] /\ cur'[m] = cur[m]
  BY <1>0 DEF Step, ReserveLoad, ReserveCheck, ReserveRecheck, ReserveStore, StoreHolds,
     ReleaseLoad, ReleaseStore, RenewLoad, RenewStore, StorageFails, Return, Retry, Loaded,
     OpTypeOK
<1>3. pc'[l] \in Reserving => pc[l] \in Reserving /\ cur'[l] = cur[l]
  BY <1>0 DEF Step, ReserveLoad, ReserveCheck, ReserveRecheck, ReserveStore, StoreHolds,
     ReleaseLoad, ReleaseStore, RenewLoad, RenewStore, StorageFails, Return, Retry, Loaded,
     OpTypeOK, Reserving
<1> QED
  BY <1>1, <1>2, <1>3 DEF RequestCapped

\* Every step keeps the operations within the cap per request.
LEMMA CappedStep == TypeOK /\ RequestCapped /\ [Next]_vars => RequestCapped'
<1> SUFFICES ASSUME TypeOK, RequestCapped, [Next]_vars PROVE RequestCapped'
  OBVIOUS
<1>0. OpTypeOK /\ MemoryTypeOK
  BY DEF TypeOK
<1>1. ASSUME NEW l \in Process, NEW p \in Payment, Reserve(l, p)
      PROVE  RequestCapped'
  BY <1>0, <1>1 DEF Reserve, Begin, memory, opvars, RequestCapped, OpTypeOK, MemoryTypeOK
<1>2. ASSUME NEW l \in Process, NEW p \in Payment,
             Commit(l, p) \/ CommitDurableFails(l, p) \/ CommitFails(l, p) \/ Drop(l, p)
      PROVE  RequestCapped'
  <2>1. budget' = budget
    BY <1>2 DEF Commit, CommitDurableFails, CommitFails, Drop
  <2>2. \/ BeginRelease(l, p)
        \/ UNCHANGED opvars
    BY <1>2 DEF Commit, CommitDurableFails, CommitFails, Drop
  <2> QED
    BY <1>0, <2>1, <2>2 DEF BeginRelease, Begin, opvars, RequestCapped, OpTypeOK, Reserving
<1>3. ASSUME NEW l \in Process, RenewHolds(l) \/ ClearGlobal(l) \/ Crash(l)
      PROVE  RequestCapped'
  BY <1>0, <1>3 DEF RenewHolds, ClearGlobal, Crash, Begin, Return, memory, RequestCapped,
     OpTypeOK, Reserving
<1>4. ASSUME NEW l \in Process, NEW b \in Budgets, UpdateBudget(l, b) \/ InitGlobal(l, b)
      PROVE  RequestCapped'
  BY <1>0, <1>4 DEF UpdateBudget, InitGlobal, opvars, RequestCapped, OpTypeOK, MemoryTypeOK,
     Reserving
<1>5. CASE Tick \/ UNCHANGED vars
  BY <1>5 DEF Tick, vars, memory, opvars, RequestCapped
<1> QED
  BY <1>1, <1>2, <1>3, <1>4, <1>5, CappedOwnStep DEF Next

\* ReserveStore on the loaded version is Admit.
LEMMA AdmitStep ==
  ASSUME FALSE \notin CommitModes, TypeOK, LedgerInv, RequestCapped, [Next]_vars,
         NEW l \in Process, ReserveStore(l), l \in fresh
  PROVE  Account!Admit(l, cur[l]) /\ cur[l] \in Payment
<1>1. /\ held' = [held EXCEPT ![l] = @ \cup {cur[l]}]
      /\ UNCHANGED <<recorded, budget, lost>>
      /\ pc[l] = "reserve_store"
  BY DEF ReserveStore, StoreHolds
<1>2. MemoryTypeOK /\ OpTypeOK /\ Ownership /\ NothingLost /\ RoomLeft
  BY DEF TypeOK, LedgerInv
<1>3. cur[l] \in Payment /\ cur[l] \notin Admitted
  BY <1>1, <1>2 DEF OpTypeOK, Ownership, NothingLost, Admitted, Held, Reserving
<1>4. Admitted' = Admitted \cup {cur[l]}
  BY <1>1, <1>2 DEF Admitted, Held, MemoryTypeOK
<1>5. Total(Admitted') <= budget[l].daily /\ Total(Admitted') <= budget[l].monthly
  BY <1>2, AdmissionStep
<1>6. Account!Admitted = Admitted
  BY <1>2, SameAdmitted DEF NothingLost
<1>7. Total({cur[l]}) <= budget[l].perRequest
  BY <1>1, <1>3, TotalAssumption DEF RequestCapped, Reserving
<1> QED
  BY <1>1, <1>3, <1>4, <1>5, <1>6, <1>7 DEF Account!Admit, Account!Fits

\* The operations on a live reservation are Record and Release.
LEMMA SettleStep ==
  ASSUME TypeOK, NEW l \in Process, NEW p \in Payment,
         Commit(l, p) \/ CommitDurableFails(l, p) \/ Drop(l, p)
  PROVE  [Account!Next]_(Account!account)
<1>1. MemoryTypeOK
  BY DEF TypeOK
<1>2. CASE Commit(l, p) \/ CommitDurableFails(l, p)
  <2>1. p \in held[l] /\ budget' = budget
    BY <1>2 DEF Commit, CommitDurableFails
  <2>2. held' \in {held, [held EXCEPT ![l] = @ \ {p}]}
    BY <1>2 DEF Commit, CommitDurableFails
  <2>3. recorded' = recorded \cup {p} \/ (recorded' = recorded /\ held' = held)
    BY <1>2 DEF Commit, CommitDurableFails, Append
  <2>4. Account!Record(l, p) \/ UNCHANGED Account!account
    BY <2>1, <2>2, <2>3 DEF Account!Record, Account!account
  <2> QED
    BY <2>4 DEF Account!Next
<1>3. CASE Drop(l, p)
  <2>1. Account!Release(l, {p})
    BY <1>3 DEF Drop, storage, Account!Release
  <2>2. {p} \in SUBSET held[l]
    BY <1>3 DEF Drop
  <2> QED
    BY <2>1, <2>2 DEF Account!Next
<1> QED
  BY <1>2, <1>3

\* A crash releases what the process held.
LEMMA CrashStep ==
  ASSUME TypeOK, NEW l \in Process, Crash(l)
  PROVE  [Account!Next]_(Account!account)
<1>1. /\ held' = [held EXCEPT ![l] = {}] /\ UNCHANGED <<recorded, budget>>
      /\ held \in [Process -> SUBSET Payment]
  BY DEF Crash, storage, TypeOK, MemoryTypeOK
<1>2. CASE held[l] = {}
  BY <1>1, <1>2 DEF Account!account
<1>3. CASE held[l] # {}
  <2>1. Account!Release(l, held[l])
    BY <1>1, <1>3 DEF Account!Release
  <2> QED
    BY <2>1 DEF Account!Next
<1> QED
  BY <1>2, <1>3

\* A step that reconfigures the ledger is Configure.
LEMMA ConfigureStep ==
  ASSUME NEW l \in Process, NEW b \in Budgets, UpdateBudget(l, b) \/ InitGlobal(l, b)
  PROVE  Account!Next
<1>1. Account!Configure(l, b)
  BY DEF UpdateBudget, InitGlobal, storage, Account!Configure
<1> QED
  BY <1>1 DEF Account!Next

\* Every other step is invisible to the account.
LEMMA InvisibleStep ==
  ASSUME \/ Tick \/ UNCHANGED vars
         \/ \E l \in Process :
              \/ Step(l) /\ ~(ReserveStore(l) /\ l \in fresh)
              \/ RenewHolds(l) \/ ClearGlobal(l)
              \/ \E p \in Payment : Reserve(l, p)
  PROVE  UNCHANGED Account!account
<1>1. CASE Tick \/ UNCHANGED vars
  BY <1>1 DEF Tick, vars, storage, memory, Account!account
<1>2. CASE \E l \in Process :
             \/ RenewHolds(l) \/ ClearGlobal(l)
             \/ \E p \in Payment : Reserve(l, p)
  BY <1>2 DEF RenewHolds, ClearGlobal, Reserve, storage, memory, Account!account
<1>3. ASSUME NEW l \in Process, Step(l), ~(ReserveStore(l) /\ l \in fresh)
      PROVE  UNCHANGED <<held, recorded, budget>>
  BY <1>3 DEF Step, ReserveLoad, ReserveCheck, ReserveRecheck, ReserveStore, StoreHolds,
     ReleaseLoad, ReleaseStore, RenewLoad, RenewStore, StorageFails, storage, memory
<1> QED
  BY <1>1, <1>2, <1>3 DEF Account!account

\* While leases are kept and commits are durable, the ledger implements the
\* atomic account: for any number of processes and payments, through crashes,
\* replaced ledgers, failing storage and lost compare-and-swaps.
THEOREM LedgerImplementsAccount ==
  ASSUME "lapse" \notin Faults, FALSE \notin CommitModes
  PROVE  Spec => Implements
<1>1. Init => Account!Init
  BY DEF Init, Account!Init
<1>2. TypeOK /\ LedgerInv /\ RequestCapped /\ [Next]_vars => [Account!Next]_(Account!account)
  <2> SUFFICES ASSUME TypeOK, LedgerInv, RequestCapped, [Next]_vars
               PROVE  [Account!Next]_(Account!account)
    OBVIOUS
  <2>1. CASE \E l \in Process : ReserveStore(l) /\ l \in fresh
    BY <2>1, AdmitStep DEF Account!Next
  <2>2. CASE \E l \in Process, p \in Payment :
               Commit(l, p) \/ CommitDurableFails(l, p) \/ Drop(l, p)
    BY <2>2, SettleStep
  <2>3. CASE \E l \in Process : Crash(l)
    BY <2>3, CrashStep
  <2>4. CASE \E l \in Process, b \in Budgets : UpdateBudget(l, b) \/ InitGlobal(l, b)
    BY <2>4, ConfigureStep
  <2>5. ASSUME NEW l \in Process, NEW p \in Payment PROVE ~CommitFails(l, p)
    BY DEF CommitFails
  <2> QED
    BY <2>1, <2>2, <2>3, <2>4, <2>5, InvisibleStep DEF Next
<1>3. Init => RequestCapped
  BY DEF Init, RequestCapped, Reserving
<1>4. Spec => []RequestCapped
  BY <1>3, CappedStep, TypeCorrect, PTL DEF Spec
<1> QED
  BY <1>1, <1>2, <1>4, LedgerInvariant, TypeCorrect, PTL DEF Spec, Implements, Account!Spec
=============================================================================
