---------------------------- MODULE X402Service ----------------------------
(***************************************************************************)
(* The x402 service of the wallet module                                   *)
(* (src/crates/tinywallet-module/src/service/x402.rs) over the records of  *)
(* the ledger: prepare, with its bound on pending authorizations and its   *)
(* refresh of Solana expiry evidence, and record, which settles a payment. *)
(*                                                                         *)
(* Calls are async tasks that run concurrently in a process.  They share   *)
(* the process-wide ledger behind a mutex, and processes share the         *)
(* payments stream.  Budgets are the matter of PaymentLedger: here         *)
(* ledger::reserve succeeds or not.                                        *)
(*                                                                         *)
(* A payment p stands for one prepare call, its authorization and its      *)
(* record id.  Of the stream only the last entry of each payment matters,  *)
(* and which payments have entries a ledger has not read yet.              *)
(***************************************************************************)
EXTENDS Naturals, FiniteSets

CONSTANTS
  Process,
  Payment,
  Timed,        \* payments with authorization_valid_until (EVM); the others
                \* are bound by a Solana block height
  Legacy,       \* payments an older release may have left behind as Failed
  NoPayment,    \* not a payment
  MaxPending,   \* MAX_PENDING
  MaxOpens,     \* bound: how often a process opens a ledger
  Faults        \* see AllFaults

AllFaults == {"storage",   \* a storage call fails, an append perhaps after it took effect
              "crash",     \* a process dies and loses its memory
              "replace"}   \* a direct host calls init_global under running tasks

ASSUME ServiceAssumption ==
  /\ Legacy \subseteq Timed /\ Timed \subseteq Payment
  /\ NoPayment \notin Payment
  /\ MaxPending \in Nat \ {0}
  /\ MaxOpens \in Nat
  /\ Faults \subseteq AllFaults

VARIABLES
  latest,     \* the last stream entry of each payment
  \* the ledger of each process
  view,       \* PaymentLedger.records, the last of each payment
  unread,     \* payments with an entry at or after next_offset
  open,       \* the processes with a ledger
  generation, \* PaymentLedger.generation
  lock,       \* the task that holds the ledger across steps
  \* the tasks
  pc, home,   \* where the prepare call of a payment is, and in which process
  todo,       \* candidates still to be observed
  asOf,       \* the generation the candidates were taken from
  cand,       \* the candidate about to be appended
  passed,     \* tasks beyond ensure_capacity
  preparing,  \* X402Runtime.preparing
  recording,  \* record calls between their read and their append
  \* the world outside
  old,        \* the payments that an older release did leave behind
  exported,   \* authorizations returned to the host
  dead,       \* authorizations that can no longer be submitted
  paid        \* authorizations that settled on chain

ledger == <<view, unread, open, generation, lock>>
tasks  == <<pc, home, todo, asOf, cand, passed, preparing>>
world  == <<old, exported, dead, paid>>
vars   == <<latest, ledger, tasks, recording, world>>

Entry(status, expired) == [status |-> status, expired |-> expired]
NoEntry   == Entry("none", FALSE)
NoEntries == [p \in Payment |-> NoEntry]
Entries   == [status : {"none", "pending", "settled", "failed"}, expired : BOOLEAN]

Active == {"refresh", "height", "observe", "append", "capacity", "reserve", "sign", "leave", "return"}

\* The type invariant of the service's state.
TypeOK ==
  /\ latest \in [Payment -> Entries]
  /\ view \in [Process -> [Payment -> Entries]]
  /\ unread \in [Process -> SUBSET Payment]
  /\ open \in SUBSET Process
  /\ generation \in [Process -> 0..MaxOpens]
  /\ lock \in [Process -> Payment \cup {NoPayment}]
  /\ pc \in [Payment -> {"idle", "done"} \cup Active]
  /\ home \in [Payment -> Process]
  /\ todo \in [Payment -> SUBSET Payment]
  /\ asOf \in [Payment -> 0..MaxOpens]
  /\ cand \in [Payment -> Payment \cup {NoPayment}]
  /\ passed \in SUBSET Payment
  /\ preparing \in [Process -> 0..MaxPending]
  /\ recording \in SUBSET [at : Process, id : Payment, entry : Entries]
  /\ old \in SUBSET Legacy
  /\ exported \in SUBSET Payment /\ dead \in SUBSET Payment /\ paid \in SUBSET Payment

Init ==
  /\ old \in SUBSET Legacy
  /\ latest = [p \in Payment |-> IF p \in old THEN Entry("failed", FALSE) ELSE NoEntry]
  /\ view = [l \in Process |-> NoEntries]
  /\ unread = [l \in Process |-> {}]
  /\ open = {}
  /\ generation = [l \in Process |-> 0]
  /\ lock = [l \in Process |-> NoPayment]
  /\ pc = [p \in Payment |-> IF p \in old THEN "done" ELSE "idle"]
  /\ home \in [Payment -> Process]
  /\ todo = [p \in Payment |-> {}]
  /\ asOf = [p \in Payment |-> 0]
  /\ cand = [p \in Payment |-> NoPayment]
  /\ passed = {}
  /\ preparing = [l \in Process |-> 0]
  /\ recording = {}
  /\ exported = old /\ dead = {} /\ paid = {}

-----------------------------------------------------------------------------
(* The ledger's records.                                                   *)

Running(l) == {p \in Payment : home[p] = l /\ pc[p] \in Active}

\* The ledger of l is open, and not locked by a task other than p.
Free(l, p) == l \in open /\ lock[l] \in {NoPayment, p}

\* refresh_records: the view after everything unread was read.
Refreshed(l) == [q \in Payment |-> IF q \in unread[l] THEN latest[q] ELSE view[l][q]]

RefreshRecords(l) ==
  /\ view' = [view EXCEPT ![l] = Refreshed(l)]
  /\ unread' = [unread EXCEPT ![l] = {}]

\* An entry e of p reaches the stream; the ledgers in S have read up to it.
Stored(p, e, S) ==
  /\ latest' = [latest EXCEPT ![p] = e]
  /\ unread' = [m \in Process |-> IF m \notin open \/ m \in S THEN {} ELSE unread[m] \cup {p}]

\* append_record: mirrored alone when the re-read after an interleaved append
\* failed, with everything before it otherwise.
AppendRecord(l, p, e) ==
  \/ /\ Stored(p, e, {l})
     /\ view' = [view EXCEPT ![l] = [Refreshed(l) EXCEPT ![p] = e]]
  \/ /\ "storage" \in Faults /\ unread[l] # {}
     /\ Stored(p, e, {})
     /\ view' = [view EXCEPT ![l][p] = e]

\* A failed append leaves the ledger as it was.  The entry may be stored.
AppendFails(l, p, e) ==
  /\ "storage" \in Faults
  /\ \/ UNCHANGED <<latest, unread>>
     \/ Stored(p, e, {})
  /\ UNCHANGED view

\* usable_pending_count: pending, and the end of its window is not known or
\* not reached.
Usable(v) ==
  {q \in Payment : v[q].status = "pending" /\ IF q \in Timed THEN q \notin dead ELSE ~v[q].expired}

-----------------------------------------------------------------------------
(* prepare.                                                                *)

Goto(p, at) == pc' = [pc EXCEPT ![p] = at]

\* begin_pending: a slot is taken before the first network call.
BeginPending(l, p) ==
  /\ pc[p] = "idle" /\ home[p] = l /\ l \in open
  /\ preparing[l] < MaxPending
  /\ preparing' = [preparing EXCEPT ![l] = @ + 1]
  /\ Goto(p, "refresh")
  /\ UNCHANGED <<latest, ledger, home, todo, asOf, cand, passed, recording, world>>

\* After refresh_solana_authorizations: ensure_capacity the first time, the
\* reservation the second time.
Refreshing(p) == IF p \in passed THEN "reserve" ELSE "capacity"

\* The pending Solana authorizations without expiry evidence.
Candidates(l) ==
  {q \in Payment \ Timed : view[l][q].status = "pending" /\ ~view[l][q].expired}

TakeCandidates(p) ==
  /\ pc[p] = "refresh" /\ Free(home[p], p)
  /\ todo' = [todo EXCEPT ![p] = Candidates(home[p])]
  /\ asOf' = [asOf EXCEPT ![p] = generation[home[p]]]
  /\ \/ Candidates(home[p]) = {} /\ Goto(p, Refreshing(p))
     \/ Candidates(home[p]) # {} /\ Goto(p, "height")
  /\ UNCHANGED <<latest, ledger, home, cand, passed, preparing, recording, world>>

\* Mutant: any candidate is taken to be beyond its last valid height.
FinalizedHeightUnchecked(p) ==
  /\ pc[p] = "height"
  /\ Goto(p, "observe")
  /\ UNCHANGED <<latest, ledger, home, todo, asOf, cand, passed, preparing, recording, world>>

\* The chain answers with a finalized height, outside the lock: the candidates
\* it has passed (it may lag) are left to observe; without an answer none is.
FinalizedHeight(p) ==
  /\ pc[p] = "height"
  /\ \E beyond \in SUBSET (todo[p] \cap dead) :
       /\ todo' = [todo EXCEPT ![p] = beyond]
       /\ Goto(p, IF beyond = {} THEN Refreshing(p) ELSE "observe")
  /\ UNCHANGED <<latest, ledger, home, asOf, cand, passed, preparing, recording, world>>

\* The loop over the candidates goes on after q, or ends and unlocks.
AfterCandidate(p, q) ==
  /\ todo' = [todo EXCEPT ![p] = @ \ {q}]
  /\ cand' = [cand EXCEPT ![p] = NoPayment]
  /\ lock' = [lock EXCEPT ![home[p]] = IF todo[p] = {q} THEN NoPayment ELSE p]
  /\ Goto(p, IF todo[p] = {q} THEN Refreshing(p) ELSE "observe")

\* Mutant: the latest record is not checked.
ObserveSolanaExpiryBlindly(p) ==
  /\ pc[p] = "observe" /\ Free(home[p], p)
  /\ \E q \in todo[p] :
       /\ RefreshRecords(home[p])
       /\ cand' = [cand EXCEPT ![p] = q]
       /\ lock' = [lock EXCEPT ![home[p]] = p]
       /\ Goto(p, "append")
       /\ UNCHANGED todo
  /\ UNCHANGED <<latest, open, generation, home, asOf, passed, preparing, recording, world>>

\* observe_solana_expiry, up to its append: a stale generation, a failed
\* refresh or a record that moved on end it.
ObserveSolanaExpiry(p) ==
  LET l == home[p] IN
  /\ pc[p] = "observe" /\ Free(l, p)
  /\ \E q \in todo[p] :
       \/ /\ generation[l] # asOf[p] \/ "storage" \in Faults
          /\ AfterCandidate(p, q)
          /\ UNCHANGED <<view, unread>>
       \/ /\ generation[l] = asOf[p]
          /\ RefreshRecords(l)
          /\ Refreshed(l)[q] # Entry("pending", FALSE)
          /\ AfterCandidate(p, q)
       \/ /\ generation[l] = asOf[p]
          /\ RefreshRecords(l)
          /\ Refreshed(l)[q] = Entry("pending", FALSE)
          /\ cand' = [cand EXCEPT ![p] = q]
          /\ lock' = [lock EXCEPT ![l] = p]
          /\ Goto(p, "append")
          /\ UNCHANGED todo
  /\ UNCHANGED <<latest, open, generation, home, asOf, passed, preparing, recording, world>>

\* Its append, still under the ledger's lock.  An error is ignored.
AppendExpiry(p) ==
  /\ pc[p] = "append"
  /\ \/ AppendRecord(home[p], cand[p], Entry("pending", TRUE))
     \/ AppendFails(home[p], cand[p], Entry("pending", TRUE))
  /\ AfterCandidate(p, cand[p])
  /\ UNCHANGED <<open, generation, home, asOf, passed, preparing, recording, world>>

\* Mutant: the task's own slot is not counted.
EnsureCapacityOffByOne(p) ==
  /\ pc[p] = "capacity" /\ Free(home[p], p)
  /\ \/ /\ Cardinality(Usable(view[home[p]])) + preparing[home[p]] <= MaxPending + 1
        /\ passed' = passed \cup {p}
        /\ Goto(p, "refresh")
     \/ /\ Cardinality(Usable(view[home[p]])) + preparing[home[p]] > MaxPending + 1
        /\ Goto(p, "leave")
        /\ UNCHANGED passed
  /\ UNCHANGED <<latest, ledger, home, todo, asOf, cand, preparing, recording, world>>

\* ensure_capacity, with the task's own slot counted.
EnsureCapacity(p) ==
  /\ pc[p] = "capacity" /\ Free(home[p], p)
  /\ \/ /\ Cardinality(Usable(view[home[p]])) + preparing[home[p]] <= MaxPending
        /\ passed' = passed \cup {p}
        /\ Goto(p, "refresh")
     \/ /\ Cardinality(Usable(view[home[p]])) + preparing[home[p]] > MaxPending
        /\ Goto(p, "leave")
        /\ UNCHANGED passed
  /\ UNCHANGED <<latest, ledger, home, todo, asOf, cand, preparing, recording, world>>

\* ledger::reserve reads the records, unless the amount alone is refused or
\* the storage fails; then the host approves and the payment is signed.  Each
\* may fail.
ReserveAndSign(p) ==
  /\ pc[p] = "reserve" /\ Free(home[p], p)
  /\ \/ RefreshRecords(home[p]) /\ \E at \in {"sign", "leave"} : Goto(p, at)
     \/ Goto(p, "leave") /\ UNCHANGED <<view, unread>>
  /\ UNCHANGED <<latest, open, generation, lock, home, todo, asOf, cand, passed, preparing>>
  /\ UNCHANGED <<recording, world>>

\* Mutant: the authorization is returned whether or not it was recorded.
CommitAnyway(p) ==
  /\ pc[p] = "sign" /\ Free(home[p], p)
  /\ \/ AppendRecord(home[p], p, Entry("pending", FALSE))
     \/ AppendFails(home[p], p, Entry("pending", FALSE))
  /\ Goto(p, "return")
  /\ UNCHANGED <<open, generation, lock, home, todo, asOf, cand, passed, preparing>>
  /\ UNCHANGED <<recording, world>>

\* commit_durable: the authorization leaves the process only if it is on
\* record.
Commit(p) ==
  /\ pc[p] = "sign" /\ Free(home[p], p)
  /\ \/ AppendRecord(home[p], p, Entry("pending", FALSE)) /\ Goto(p, "return")
     \/ AppendFails(home[p], p, Entry("pending", FALSE)) /\ Goto(p, "leave")
  /\ UNCHANGED <<open, generation, lock, home, todo, asOf, cand, passed, preparing>>
  /\ UNCHANGED <<recording, world>>

\* Mutant: the slot is given back only after a success.
LeaveOnSuccess(p) ==
  /\ pc[p] \in {"leave", "return"}
  /\ preparing' = [preparing EXCEPT ![home[p]] = IF pc[p] = "return" THEN @ - 1 ELSE @]
  /\ exported' = IF pc[p] = "return" THEN exported \cup {p} ELSE exported
  /\ passed' = passed \ {p}
  /\ Goto(p, "done")
  /\ UNCHANGED <<latest, ledger, home, todo, asOf, cand, recording, old, dead, paid>>

\* The drop of PendingAdmission on every way out, and the response.
Leave(p) ==
  /\ pc[p] \in {"leave", "return"}
  /\ preparing' = [preparing EXCEPT ![home[p]] = @ - 1]
  /\ exported' = IF pc[p] = "return" THEN exported \cup {p} ELSE exported
  /\ passed' = passed \ {p}
  /\ Goto(p, "done")
  /\ UNCHANGED <<latest, ledger, home, todo, asOf, cand, recording, old, dead, paid>>

\* The bus drops the call while it waits for the chain or for the host: the
\* slot goes back and nothing is recorded.
Cancel(p) ==
  /\ pc[p] \in {"height", "sign"}
  /\ todo' = [todo EXCEPT ![p] = {}]
  /\ Goto(p, "leave")
  /\ UNCHANGED <<latest, ledger, home, asOf, cand, passed, preparing, recording, world>>

-----------------------------------------------------------------------------
(* record.                                                                 *)

\* The read of record, with or without a receipt of success: what it found,
\* if it is to be changed.  A receipt is one of a payment that settled.
RecordRead(l, p) ==
  /\ Free(l, NoPayment)
  /\ \E status \in {"settled", "pending"} :
       /\ status = "settled" => p \in paid
       /\ view[l][p].status \in {"pending", "failed"} /\ view[l][p].status # status
       /\ recording' = recording \cup
            {[at |-> l, id |-> p, entry |-> Entry(status, view[l][p].expired)]}
  /\ UNCHANGED <<latest, ledger, tasks, world>>

\* Its append, under a lock of its own.
RecordAppend(r) ==
  /\ r \in recording /\ Free(r.at, NoPayment)
  /\ \/ AppendRecord(r.at, r.id, r.entry)
     \/ AppendFails(r.at, r.id, r.entry)
  /\ recording' = recording \ {r}
  /\ UNCHANGED <<open, generation, lock, tasks, world>>

-----------------------------------------------------------------------------
(* The service's lifecycle, and the world.                                 *)

Idle(l) == Running(l) = {} /\ \A r \in recording : r.at # l

\* x402_configure waits for the calls in progress; init_global only for the
\* ledger's lock.  The new ledger has read the whole stream.
Configure(l) ==
  /\ generation[l] < MaxOpens
  /\ Idle(l) \/ ("replace" \in Faults /\ Free(l, NoPayment))
  /\ open' = open \cup {l}
  /\ generation' = [generation EXCEPT ![l] = @ + 1]
  /\ view' = [view EXCEPT ![l] = latest]
  /\ unread' = [unread EXCEPT ![l] = {}]
  /\ UNCHANGED <<latest, lock, tasks, recording, world>>

\* The ledger of l is gone.
Forget(l) ==
  /\ open' = open \ {l}
  /\ view' = [view EXCEPT ![l] = NoEntries]
  /\ unread' = [unread EXCEPT ![l] = {}]

Close(l) ==
  /\ l \in open /\ Idle(l)
  /\ Forget(l)
  /\ UNCHANGED <<latest, generation, lock, tasks, recording, world>>

Crash(l) ==
  /\ "crash" \in Faults /\ l \in open
  /\ Forget(l)
  /\ lock' = [lock EXCEPT ![l] = NoPayment]
  /\ pc' = [p \in Payment |-> IF p \in Running(l) THEN "done" ELSE pc[p]]
  /\ todo' = [p \in Payment |-> IF p \in Running(l) THEN {} ELSE todo[p]]
  /\ cand' = [p \in Payment |-> IF p \in Running(l) THEN NoPayment ELSE cand[p]]
  /\ passed' = passed \ Running(l)
  /\ preparing' = [preparing EXCEPT ![l] = 0]
  /\ recording' = {r \in recording : r.at # l}
  /\ UNCHANGED <<latest, generation, home, asOf, world>>

\* The chain accepts an exported authorization while it is alive.
Settle(p) ==
  /\ p \in exported \ (dead \cup paid)
  /\ paid' = paid \cup {p}
  /\ UNCHANGED <<latest, ledger, tasks, recording, old, exported, dead>>

\* Its deadline, or its last valid block height, passes.
Expire(p) ==
  /\ pc[p] \in {"sign", "leave", "return", "done"} /\ p \notin dead
  /\ dead' = dead \cup {p}
  /\ UNCHANGED <<latest, ledger, tasks, recording, old, exported, paid>>

Next ==
  \/ \E l \in Process : Configure(l) \/ Close(l) \/ Crash(l)
  \/ \E l \in Process, p \in Payment : BeginPending(l, p) \/ RecordRead(l, p)
  \/ \E p \in Payment :
       \/ TakeCandidates(p) \/ FinalizedHeight(p) \/ ObserveSolanaExpiry(p) \/ AppendExpiry(p)
       \/ EnsureCapacity(p) \/ ReserveAndSign(p) \/ Commit(p) \/ Leave(p) \/ Cancel(p)
       \/ Settle(p) \/ Expire(p)
  \/ \E r \in recording : RecordAppend(r)

Spec == Init /\ [][Next]_vars

-----------------------------------------------------------------------------
(* Properties.                                                             *)

\* prepare: "The module durably records the pending authorization before
\* returning" (service/mod.rs:288).  Whatever settles on chain, through
\* crashes and failed appends, is on the books.
PaidIsRecorded ==
  \A p \in paid : latest[p].status # "none"

\* observe_solana_expiry: a recorded expiry is evidence.  No authorization that
\* can still be submitted is marked expired, whatever happens while the chain
\* is asked.
ExpiryIsEvidence ==
  \A p \in Payment : latest[p].expired => p \in dead

\* observe_solana_expiry: "A receipt or replacement state that wins the race is
\* never overwritten" (store.rs:462).  This is not so for the Failed rows of an
\* older release: record can turn one back into a pending payment after another
\* record call has settled it.
SettledIsFinal ==
  [][\A p \in Payment \ old : latest[p].status = "settled" => latest'[p].status = "settled"]_vars

\* MAX_PENDING: a process has no more usable authorizations out than the
\* bound, however its prepare calls interleave.
CapacityKept ==
  \A l \in Process :
    Cardinality({p \in exported \ old : home[p] = l} \cap Usable(latest)) <= MaxPending

\* PendingAdmission: the slots taken are those of the calls in progress.  None
\* leaks on a way out, none is given back twice.
SlotsMatchCalls ==
  \A l \in open : preparing[l] = Cardinality(Running(l))
=============================================================================
