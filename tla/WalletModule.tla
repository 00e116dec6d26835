---------------------------- MODULE WalletModule ----------------------------
(***************************************************************************)
(* The object a loaded wallet module serves on the bus: its three          *)
(* user-scoped services behind one tokio RwLock each, every bus method as  *)
(* a call, the recovery phrase some calls carry, and the callbacks into    *)
(* the host that calls make while they hold a lock.                        *)
(*                                                                         *)
(* A method is its script, the sequence of things it does in order; a call *)
(* is the part of the script it has still to run.  Methods with the same   *)
(* script behave the same here: what they compute is left out, every       *)
(* place where they can fail, wait or touch a phrase is kept.              *)
(***************************************************************************)
EXTENDS Naturals, Sequences, FiniteSets

CONSTANTS Call,         \* slots for concurrent bus calls
          MaxServices   \* bound on the services opened over a run

ASSUME ModuleAssumption == MaxServices \in Nat \ {0}

Service == {"web3", "native", "x402"}
None == "none"

VARIABLES bound,   \* the module was given a storage descriptor
          loaded,  \* setup finished and the object is served
          route,   \* the storage route HostCallbacks has cached, or None
          ledger,  \* the route the x402 ledger was opened on, or None
          open,    \* open[s]: the handle of the open service, 0 when closed
          opened,  \* services opened so far; a handle is its number
          queue,   \* queue[s]: the calls waiting for the lock of s
          locked,  \* locked[s]: the calls holding it, each with its mode
          svc,     \* svc[c]: what c is about, None when the slot is free
          todo,    \* todo[c]: what c has still to do
          handle,  \* handle[c]: the service handle c was given
          phrase   \* phrase[c]: where legible copies of c's phrase are

storage == <<bound, loaded, route>>
services == <<ledger, open, opened>>
locks == <<queue, locked>>
vars == <<storage, services, locks, svc, todo, handle, phrase>>

(***************************************************************************)
(* The methods.  "read" and "write" wait for the lock; "open" asks for an  *)
(* open service, "handle" also for the caller's handle to be its handle;   *)
(* "input" stands for the checks of the request: confirmed, its quote, its *)
(* headers; "scope" moves the phrase from the request into the task-local  *)
(* slot; "ask" is a callback to the host, an approval among them; "derive" *)
(* (for x402 "account" and "sign") uses a copy of the slot's phrase and    *)
(* wipes it, "take" empties the slot, "use" is a stateless call with a     *)
(* phrase; "endpoints" and "ledger" build a service before "install".      *)
(***************************************************************************)

enter == <<"read", "handle">>
confirmed == enter \o <<"input">>

web3_routes == <<"read", "open", "ask">>
web3_quote == enter \o <<"input", "ask">>

(* A transaction built on the way is approved inside the signer, a stored  *)
(* Solana blob before the phrase leaves the request.                       *)
web3_execute ==
  {confirmed \o <<"scope", "ask", "ask", "take", "ask">>,
   confirmed \o <<"ask", "scope", "derive", "take", "ask">>}

native_wallet_defaults == enter
native_wallet_reads == enter \o <<"ask">>
native_wallet_queries == enter \o <<"ask">>
native_wallet_execute_prepared ==
  confirmed \o <<"scope", "ask", "derive", "ask", "take", "ask">>

x402_reports == enter \o <<"input">>
x402_prepare_payment ==
  enter \o <<"scope", "input", "ask", "ask", "account", "ask", "sign">>

(* derive_account, derive_mnemonic_seed, sign_transaction, sign_message    *)
(* and export_key.                                                         *)
stateless == <<"use">>

Methods(s) ==
  CASE s = "web3" -> {web3_routes, web3_quote} \cup web3_execute
    [] s = "native" -> {native_wallet_defaults, native_wallet_reads,
                        native_wallet_queries, native_wallet_execute_prepared}
    [] s = "x402" -> {x402_reports, x402_prepare_payment}
    [] s = "keys" -> {stateless}

(* The replacement is built before the lock or under it; either way before *)
(* the old service goes.                                                   *)
web3_configure == <<"write", "install">>
web3_configure_with_endpoints == <<"endpoints", "write", "install">>
native_wallet_configure == <<"write", "endpoints", "install">>
x402_configure == <<"storage", "write", "ledger", "install">>

Configures(s) ==
  CASE s = "web3" -> {web3_configure, web3_configure_with_endpoints}
    [] s = "native" -> {native_wallet_configure}
    [] s = "x402" -> {x402_configure}

(* Mutant: closing under the read lock. *)
ReadClose == <<"read", "handle", "close">>

(* web3_close, native_wallet_close and x402_close. *)
close == <<"write", "handle", "close">>

Steps(c) == {todo[c][i] : i \in DOMAIN todo[c]}
At(c, step) == todo[c] # <<>> /\ Head(todo[c]) = step

Init ==
  /\ bound \in BOOLEAN /\ loaded = FALSE
  /\ route = None /\ ledger = None
  /\ open = [s \in Service |-> 0] /\ opened = 0
  /\ queue = [s \in Service |-> <<>>]
  /\ locked = [s \in Service |-> {}]
  /\ svc = [c \in Call |-> None]
  /\ todo = [c \in Call |-> <<>>]
  /\ handle = [c \in Call |-> 0]
  /\ phrase = [c \in Call |-> {}]

(***************************************************************************)
(* Storage and setup.                                                      *)
(***************************************************************************)

(* Mutant: a descriptor that does not connect falls back. *)
ReachAny == {"bound", "legacy"}

(* What storage() may connect to; a descriptor excludes the legacy route. *)
Reach == IF bound THEN {"bound"} ELSE {"legacy"}

(* storage() answers from its cache, or connects and fills it. *)
Connected ==
  \/ route # None /\ route' = route
  \/ route = None /\ route' \in Reach

(* Setup connects a configured route before anything is served; when that  *)
(* fails the module does not load, and the host may load it again.         *)
Setup ==
  /\ ~loaded
  /\ IF bound THEN Connected ELSE route' = route
  /\ loaded' = TRUE
  /\ UNCHANGED <<bound, services, locks, svc, todo, handle, phrase>>

(***************************************************************************)
(* How a call arrives, goes on and returns.                                *)
(***************************************************************************)

Arrive(c, s, script, h) ==
  /\ loaded /\ svc[c] = None
  /\ svc' = [svc EXCEPT ![c] = s]
  /\ todo' = [todo EXCEPT ![c] = script]
  /\ handle' = [handle EXCEPT ![c] = h]
  /\ phrase' = [phrase EXCEPT ![c] =
                  IF \E i \in DOMAIN script : script[i] \in {"scope", "use"}
                  THEN {"request"} ELSE {}]
  /\ UNCHANGED <<storage, services, locks>>

(* A request to a method that neither opens nor closes a service, with     *)
(* the handle of the open service or (0) with any other.                   *)
CallMethod(c) ==
  \/ \E s \in Service : \E script \in Methods(s), h \in {0, open[s]} :
       Arrive(c, s, script, h)
  \/ \E script \in Methods("keys") : Arrive(c, "keys", script, 0)

Opening == Cardinality({c \in Call : "install" \in Steps(c)})

CallConfigure(c) ==
  /\ opened + Opening < MaxServices
  /\ \E s \in Service : \E script \in Configures(s) : Arrive(c, s, script, 0)

CallClose(c) ==
  \E s \in Service : \E h \in {0, open[s]} : Arrive(c, s, close, h)

Unlocked(c) ==
  [s \in Service |-> {hold \in locked[s] : hold[1] # c}]

(* The call answers: its lock guard is dropped, and the slot, which wipes  *)
(* what it still holds.                                                    *)
Return(c, copies) ==
  /\ svc' = [svc EXCEPT ![c] = None]
  /\ todo' = [todo EXCEPT ![c] = <<>>]
  /\ handle' = [handle EXCEPT ![c] = 0]
  /\ phrase' = [phrase EXCEPT ![c] = copies \ {"slot"}]
  /\ locked' = Unlocked(c)

(* Mutant: a lock guard that outlives the refused call. *)
RefuseLocked(c) ==
  /\ svc' = [svc EXCEPT ![c] = None]
  /\ todo' = [todo EXCEPT ![c] = <<>>]
  /\ handle' = [handle EXCEPT ![c] = 0]
  /\ phrase' = [phrase EXCEPT ![c] = {}]
  /\ UNCHANGED locked

(* An early return; the branch wipes the phrase of the request first. *)
Refuse(c) == Return(c, phrase[c] \ {"request"})

Proceed(c, copies) ==
  IF Len(todo[c]) = 1
  THEN Return(c, copies)
  ELSE /\ todo' = [todo EXCEPT ![c] = Tail(@)]
       /\ phrase' = [phrase EXCEPT ![c] = copies]
       /\ UNCHANGED <<svc, handle, locked>>

(***************************************************************************)
(* The locks.                                                              *)
(***************************************************************************)

Waiting(c) == \E s \in Service : \E i \in DOMAIN queue[s] : queue[s][i] = c

Enqueue(c) ==
  /\ At(c, "read") \/ At(c, "write")
  /\ ~Waiting(c)
  /\ queue' = [queue EXCEPT ![svc[c]] = Append(@, c)]
  /\ UNCHANGED <<storage, services, locked, svc, todo, handle, phrase>>

(* tokio's lock serves its queue in order: a reader joins readers, a       *)
(* writer waits until nobody holds the lock.                               *)
Grant(s) ==
  /\ queue[s] # <<>>
  /\ LET c == Head(queue[s])
         mode == Head(todo[c])
     IN  /\ IF mode = "read"
            THEN \A hold \in locked[s] : hold[2] = "read"
            ELSE locked[s] = {}
         /\ locked' = [locked EXCEPT ![s] = @ \cup {<<c, mode>>}]
         /\ todo' = [todo EXCEPT ![c] = Tail(@)]
  /\ queue' = [queue EXCEPT ![s] = Tail(@)]
  /\ UNCHANGED <<storage, services, svc, handle, phrase>>

(***************************************************************************)
(* The steps of a script.                                                  *)
(***************************************************************************)

(* Mutant: any handle will do. *)
CheckOpen(c) ==
  /\ At(c, "open") \/ At(c, "handle")
  /\ IF open[svc[c]] # 0 THEN Proceed(c, phrase[c]) ELSE Refuse(c)
  /\ UNCHANGED <<storage, services, queue>>

(* Is there a service, and is the caller's handle its handle? *)
CheckService(c) ==
  /\ At(c, "open") \/ At(c, "handle")
  /\ IF open[svc[c]] # 0 /\ (At(c, "handle") => handle[c] = open[svc[c]])
     THEN Proceed(c, phrase[c])
     ELSE Refuse(c)
  /\ UNCHANGED <<storage, services, queue>>

(* The checks on the request itself and on the quote it names. *)
CheckRequest(c) ==
  /\ At(c, "input")
  /\ Proceed(c, phrase[c]) \/ Refuse(c)
  /\ UNCHANGED <<storage, services, queue>>

(* The request's phrase is replaced by an empty one and moves to the slot; *)
(* two x402 phrases for one chain are refused here, wiped.                 *)
Scope(c) ==
  /\ At(c, "scope")
  /\ \/ Proceed(c, {"slot"})
     \/ svc[c] = "x402" /\ Return(c, {})
  /\ UNCHANGED <<storage, services, queue>>

(* The host answers a callback, fails it, or denies what it was asked. *)
HostAnswers(c) ==
  /\ At(c, "ask")
  /\ Proceed(c, phrase[c]) \/ Refuse(c)
  /\ UNCHANGED <<storage, services, queue>>

(* What needs the phrase more than once works on a clone of the slot's,    *)
(* which it wipes at once.                                                 *)
UseClone(c) ==
  /\ Proceed(c, phrase[c]) \/ Refuse(c)
  /\ UNCHANGED <<storage, services, queue>>

(* The account that is to sign. *)
Derive(c) == At(c, "derive") /\ UseClone(c)

(* The account and the signature of an x402 payment, on the chain that the *)
(* challenge selected: no phrase for that chain, no payment.               *)
PaymentAccount(c) == At(c, "account") /\ UseClone(c)
PaymentSign(c) == At(c, "sign") /\ UseClone(c)

(* Mutant: the signer clones the phrase and leaves the slot full. *)
TakeClone(c) ==
  /\ At(c, "take")
  /\ Proceed(c, phrase[c]) \/ Refuse(c)
  /\ UNCHANGED <<storage, services, queue>>

(* The signer takes the slot's phrase, signs or fails, and wipes it. *)
Take(c) ==
  /\ At(c, "take")
  /\ Proceed(c, phrase[c] \ {"slot"}) \/ Return(c, phrase[c] \ {"slot"})
  /\ UNCHANGED <<storage, services, queue>>

(* A stateless key call wipes the phrase whatever came of it. *)
Use(c) ==
  /\ At(c, "use")
  /\ Return(c, phrase[c] \ {"request"})
  /\ UNCHANGED <<storage, services, queue>>

(* ledger_storage: no route, no ledger. *)
LedgerStorage(c) ==
  /\ At(c, "storage")
  /\ \/ Connected /\ Proceed(c, phrase[c])
     \/ route = None /\ route' = route /\ Refuse(c)
  /\ UNCHANGED <<bound, loaded, services, queue>>

(* A service is built whole before the old one goes: an endpoint named     *)
(* twice, or a ledger that does not open, leaves the old one in place.     *)
BuildEndpoints(c) ==
  /\ At(c, "endpoints")
  /\ Proceed(c, phrase[c]) \/ Refuse(c)
  /\ UNCHANGED <<storage, services, queue>>

OpenLedger(c) ==
  /\ At(c, "ledger")
  /\ Proceed(c, phrase[c]) \/ Refuse(c)
  /\ UNCHANGED <<storage, services, queue>>

Install(c) ==
  /\ At(c, "install")
  /\ opened' = opened + 1
  /\ open' = [open EXCEPT ![svc[c]] = opened + 1]
  /\ ledger' = IF svc[c] = "x402" THEN route ELSE ledger
  /\ Proceed(c, phrase[c])
  /\ UNCHANGED <<storage, queue>>

Close(c) ==
  /\ At(c, "close")
  /\ open' = [open EXCEPT ![svc[c]] = 0]
  /\ ledger' = IF svc[c] = "x402" THEN None ELSE ledger
  /\ Proceed(c, phrase[c])
  /\ UNCHANGED <<storage, opened, queue>>

(* The steps the module takes by itself, once it is scheduled. *)
Work(c) ==
  \/ Enqueue(c) \/ CheckService(c) \/ CheckRequest(c) \/ Scope(c)
  \/ Derive(c) \/ PaymentAccount(c) \/ PaymentSign(c) \/ Take(c) \/ Use(c)
  \/ LedgerStorage(c) \/ BuildEndpoints(c) \/ OpenLedger(c) \/ Install(c) \/ Close(c)

Next ==
  \/ Setup
  \/ \E c \in Call : \/ CallMethod(c) \/ CallConfigure(c) \/ CallClose(c)
                     \/ Work(c) \/ HostAnswers(c)
  \/ \E s \in Service : Grant(s)

Spec == Init /\ [][Next]_vars

(* Every task is scheduled, the lock serves its queue, and the host        *)
(* answers every callback: the bus gives a callback no time limit.         *)
FairSpec ==
  /\ Spec
  /\ \A c \in Call : WF_vars(Work(c)) /\ WF_vars(HostAnswers(c))
  /\ \A s \in Service : WF_vars(Grant(s))
-----------------------------------------------------------------------------
Step == {"read", "write", "open", "handle", "input", "scope", "ask", "derive", "account", "sign",
         "take", "use", "storage", "endpoints", "ledger", "install", "close"}

(* The state has its type: Wallet, HostCallbacks and the calls in flight. *)
TypeOK ==
  /\ bound \in BOOLEAN /\ loaded \in BOOLEAN
  /\ route \in {None, "bound", "legacy"} /\ ledger \in {None, "bound", "legacy"}
  /\ open \in [Service -> 0 .. MaxServices] /\ opened \in 0 .. MaxServices
  /\ queue \in [Service -> Seq(Call)]
  /\ locked \in [Service -> SUBSET (Call \X {"read", "write"})]
  /\ svc \in [Call -> Service \cup {"keys", None}]
  /\ todo \in [Call -> Seq(Step)]
  /\ handle \in [Call -> 0 .. MaxServices]
  /\ phrase \in [Call -> SUBSET {"request", "slot"}]

(* A recovery phrase is legible in one place at most, and only while a     *)
(* later step of its call still needs it: not in any answered call,        *)
(* however it was refused, and not during the broadcast of what it signed. *)
(* (wipe on every early return of the execute methods, take_secret,        *)
(* SecretSlot::drop)                                                       *)
PhraseOnlyWhileNeeded ==
  \A c \in Call :
    /\ Cardinality(phrase[c]) <= 1
    /\ phrase[c] # {} => Steps(c) \cap {"scope", "derive", "account", "sign", "take", "use"} # {}

(* A ledger is only ever opened on a connected route, and a module that    *)
(* was given a descriptor neither serves a call nor opens a ledger without *)
(* it.  (validate_configured_storage, ledger_storage)                      *)
LedgerOnItsRoute ==
  /\ open["x402"] # 0 <=> ledger # None
  /\ loaded /\ bound => route = "bound"
  /\ ledger # None => ledger = route /\ (bound <=> ledger = "bound")

(* A service is replaced or closed only while no other call is inside it:  *)
(* lifecycle writes wait for active operations to finish.                  *)
NobodyInside ==
  [][\A s \in Service : open'[s] # open[s] =>
       \E c \in Call : locked[s] = {<<c, "write">>}]_vars

(* An open service goes away only for its successor or for the caller who  *)
(* holds its handle: a failed configure, or a stale handle, leaves it.     *)
LostOnlyByItsHandle ==
  [][\A s \in Service : open[s] # 0 /\ open'[s] # open[s] =>
       \/ open'[s] > open[s]
       \/ \E c \in Call : At(c, "close") /\ svc[c] = s
                          /\ handle[c] = open[s]]_vars

(* Every call returns, lifecycle calls included, although calls hold their *)
(* service's lock while they wait for the host.                            *)
CallsReturn == \A c \in Call : svc[c] # None ~> svc[c] = None
=============================================================================
