--------------------------- MODULE QuoteExecution ---------------------------
(***************************************************************************)
(* Confirm-then-execute: the quote store of one service (web3 or native    *)
(* wallet), the executions that take quotes from it, and the configure and *)
(* close calls that replace the service.                                   *)
(*                                                                         *)
(* An execution holds the service's read lock for its whole future and     *)
(* passes several await points: the host's approval, the chain calls that  *)
(* build the transaction, the signature, the broadcast.  A lifecycle call  *)
(* takes the write lock, so it waits for them; tokio's lock is fair, so a  *)
(* queued writer also holds back the calls that arrive after it.           *)
(*                                                                         *)
(* A quote is its id.  Its transaction is either fixed when it is quoted   *)
(* (a web3 Solana blob: sending it twice is sending one transaction, and   *)
(* the host approves it before the quote is taken) or built afresh by      *)
(* every execution (EVM, and every native transfer: the host approves the  *)
(* built transaction inside the signer).  Time is abstracted to "this      *)
(* stored quote is past its expiry".                                       *)
(***************************************************************************)
EXTENDS Naturals, FiniteSets

CONSTANTS Quote,        \* quote ids; next_id never repeats one
          Fixed,        \* quotes whose transaction is fixed when quoted
          Owner,        \* chat contexts, "no context" among them
          Call,         \* slots for concurrent execute calls
          Cap,          \* QUOTE_STORE_CAP
          MaxServices,  \* bound on configure calls
          MaxLanded,    \* bound on transactions of one quote
          Faults        \* which of "lost", "cancel" may happen

None == "none"

ASSUME QuoteAssumption ==
  /\ Fixed \subseteq Quote
  /\ Cap \in Nat \ {0}
  /\ MaxServices \in Nat \ {0}
  /\ MaxLanded \in Nat \ {0}
  /\ Faults \subseteq {"lost", "cancel"}
  /\ None \notin Owner

VARIABLES service,   \* the open service's number, 0 when closed
          opened,    \* services opened so far
          queued,    \* the lifecycle call waiting for the write lock
          store,     \* the quotes of the store
          older,     \* <<x, q>>: x stands before q in the vector
          expired,   \* stored quotes past expires_at_ms
          owner,     \* owner[q]: who prepared q, None before
          home,      \* home[q]: the service q was prepared under
          pc,        \* pc[c]: where the execute call c stands
          of,        \* of[c]: the quote c was asked to execute
          caller,    \* caller[c]: the owner c presents
          approved,  \* approved[c]: the host approved c's transaction
          landed     \* landed[q]: transactions of q the chain accepted

lifecycle == <<service, opened, queued>>
quotes == <<store, older, expired, owner, home>>
calls == <<pc, of, caller, approved>>
vars == <<lifecycle, quotes, calls, landed>>

Stage == {"idle", "approve", "take", "build", "sign", "send"}
Holding == {"build", "sign", "send"}

Init ==
  /\ service = 0 /\ opened = 0 /\ queued = None
  /\ store = {} /\ older = {} /\ expired = {}
  /\ owner = [q \in Quote |-> None]
  /\ home = [q \in Quote |-> 0]
  /\ pc = [c \in Call |-> "idle"]
  /\ of = [c \in Call |-> None]
  /\ caller = [c \in Call |-> None]
  /\ approved = [c \in Call |-> FALSE]
  /\ landed = [q \in Quote |-> 0]

(***************************************************************************)
(* The quote store.                                                        *)
(***************************************************************************)

(* The quote at the front of the vector, were it to hold just S. *)
Oldest(S) == {q \in S : \A x \in S \ {q} : <<q, x>> \in older}

(* Mutant: the order still mentions the quotes that left. *)
KeepUnordered(S) == store' = S /\ older' = older

(* The vector keeps the quotes of S, and their order. *)
Keep(S) == store' = S /\ older' = older \cap (S \X S)

(* insert drops the expired quotes, and the oldest of a full store. *)
Room ==
  LET live == store \ expired
  IN  IF Cardinality(live) >= Cap THEN live \ Oldest(live) ELSE live

Insert(q) ==
  /\ store' = Room \cup {q}
  /\ older' = (older \cap (Room \X Room)) \cup (Room \X {q})
  /\ expired' = {}

(* Mutant: the owner is not compared. *)
VisibleToAll(q, o) == q \in store

(* The owner gate of take_for and get_for: a mismatch looks like absence. *)
Visible(q, o) == q \in store /\ owner[q] = o

(* Mutant: a lock that prefers its readers. *)
MayReadAlways == service # 0

(* A reader gets in only when no lifecycle call is queued before it. *)
MayRead == queued = None /\ service # 0

Prepare(q, o) ==
  /\ MayRead
  /\ owner[q] = None
  /\ owner' = [owner EXCEPT ![q] = o]
  /\ home' = [home EXCEPT ![q] = service]
  /\ Insert(q)
  /\ UNCHANGED <<lifecycle, calls, landed>>

(* The clock passes the expiry of a stored quote. *)
Expire(q) ==
  /\ q \in store \ expired
  /\ expired' = expired \cup {q}
  /\ UNCHANGED <<lifecycle, store, older, owner, home, calls, landed>>

(***************************************************************************)
(* One execute call: web3_execute, or native_wallet_execute_prepared.      *)
(***************************************************************************)

Goto(c, stage) == pc' = [pc EXCEPT ![c] = stage]

(* The call returns, or is dropped, and with it the read lock it held. *)
Leave(c) ==
  /\ Goto(c, "idle")
  /\ of' = [of EXCEPT ![c] = None]
  /\ caller' = [caller EXCEPT ![c] = None]
  /\ approved' = [approved EXCEPT ![c] = FALSE]

(* The confirmed request finds its live quote through get_for. *)
Begin(c, q, o) ==
  /\ MayRead
  /\ pc[c] = "idle"
  /\ Visible(q, o) /\ q \notin expired
  /\ Goto(c, IF q \in Fixed THEN "approve" ELSE "take")
  /\ of' = [of EXCEPT ![c] = q]
  /\ caller' = [caller EXCEPT ![c] = o]
  /\ UNCHANGED <<lifecycle, quotes, approved, landed>>

(* The host's answer on a fixed transaction, before the quote is taken. *)
AuthorizeFixed(c) ==
  /\ pc[c] = "approve"
  /\ \/ /\ approved' = [approved EXCEPT ![c] = TRUE]
        /\ Goto(c, "take")
        /\ UNCHANGED <<of, caller>>
     \/ Leave(c)
  /\ UNCHANGED <<lifecycle, quotes, landed>>

(* Mutant: the quote stays in the store while it is executed. *)
TakeForCopy(c) ==
  /\ pc[c] = "take"
  /\ IF Visible(of[c], caller[c]) /\ of[c] \notin expired
     THEN Goto(c, "build") /\ UNCHANGED <<of, caller, approved>>
     ELSE Leave(c)
  /\ UNCHANGED <<lifecycle, quotes, landed>>

(* take_for removes the quote before it looks at its expiry. *)
TakeFor(c) ==
  /\ pc[c] = "take"
  /\ IF Visible(of[c], caller[c])
     THEN /\ Keep(store \ {of[c]})
          /\ expired' = expired \ {of[c]}
          /\ IF of[c] \in expired
             THEN Leave(c)
             ELSE Goto(c, "build") /\ UNCHANGED <<of, caller, approved>>
     ELSE Leave(c) /\ UNCHANGED <<store, older, expired>>
  /\ UNCHANGED <<lifecycle, owner, home, landed>>

(* The chain calls behind a transaction: nonce, gas, block hash, coins. *)
Build(c) ==
  /\ pc[c] = "build"
  /\ Goto(c, "sign")
  /\ UNCHANGED <<lifecycle, quotes, of, caller, approved, landed>>

(* Mutant: the signer leaves approval to the call before it. *)
SignUnasked(c) ==
  /\ pc[c] = "sign"
  /\ Goto(c, "send")
  /\ UNCHANGED <<lifecycle, quotes, of, caller, approved, landed>>

(* The signer asks the host about a transaction it has not approved yet. *)
Sign(c) ==
  /\ pc[c] = "sign"
  /\ approved' = [approved EXCEPT ![c] = @ \/ of[c] \notin Fixed]
  /\ Goto(c, "send")
  /\ UNCHANGED <<lifecycle, quotes, of, caller, landed>>

(* The chain accepts; a fixed transaction it already has is the same one. *)
Land(q) ==
  landed' = [landed EXCEPT ![q] = IF q \in Fixed THEN 1 ELSE @ + 1]

MayLand(q) == q \in Fixed \/ landed[q] < MaxLanded

Broadcast(c) ==
  /\ pc[c] = "send"
  /\ MayLand(of[c])
  /\ Land(of[c])
  /\ Leave(c)
  /\ UNCHANGED <<lifecycle, quotes>>

(* A chain call, the host, the signer or the node says no: the quote is    *)
(* restored, with a fresh lifetime, and the call returns the error.        *)
Fail(c) ==
  /\ pc[c] \in Holding
  /\ Insert(of[c])
  /\ Leave(c)
  /\ UNCHANGED <<lifecycle, owner, home, landed>>

(* The node accepts the transaction and the answer is lost on the way back: *)
(* the code sees an error like any other.                                  *)
ReplyLost(c) ==
  /\ "lost" \in Faults
  /\ pc[c] = "send"
  /\ MayLand(of[c])
  /\ Land(of[c])
  /\ Insert(of[c])
  /\ Leave(c)
  /\ UNCHANGED <<lifecycle, owner, home>>

(* The bus drops the call's future at an await point. *)
Cancel(c) ==
  /\ "cancel" \in Faults
  /\ pc[c] # "idle"
  /\ Leave(c)
  /\ UNCHANGED <<lifecycle, quotes, landed>>

(***************************************************************************)
(* The lifecycle calls.                                                    *)
(***************************************************************************)

(* web3_configure, native_wallet_configure or a close asks for the lock. *)
Request(kind) ==
  /\ queued = None
  /\ kind = "configure" => opened < MaxServices
  /\ queued' = kind
  /\ UNCHANGED <<service, opened, quotes, calls, landed>>

(* Mutant: only the executions that took their quote hold the lock. *)
WriteLockedEarly == \A c \in Call : pc[c] \notin Holding

(* The write lock is granted when the last reader has left. *)
WriteLocked == \A c \in Call : pc[c] = "idle"

(* A new runtime with an empty store takes the place of the old one. *)
Configure ==
  /\ queued = "configure" /\ WriteLocked
  /\ queued' = None
  /\ opened' = opened + 1
  /\ service' = opened + 1
  /\ Keep({}) /\ expired' = {}
  /\ UNCHANGED <<owner, home, calls, landed>>

(* close drops the runtime whose handle it presents; a configure of the    *)
(* native wallet with duplicate endpoints, or a close with another handle, *)
(* or none open, changes nothing.                                          *)
Close ==
  /\ queued = "close" /\ WriteLocked
  /\ service # 0
  /\ queued' = None
  /\ service' = 0
  /\ Keep({}) /\ expired' = {}
  /\ UNCHANGED <<opened, owner, home, calls, landed>>

Refuse ==
  /\ queued # None /\ WriteLocked
  /\ queued' = None
  /\ UNCHANGED <<service, opened, quotes, calls, landed>>

Step(c) ==
  \/ AuthorizeFixed(c)
  \/ TakeFor(c)
  \/ Build(c)
  \/ Sign(c)
  \/ Broadcast(c)
  \/ Fail(c)
  \/ ReplyLost(c)

Lifecycle == Configure \/ Close \/ Refuse

Next ==
  \/ \E q \in Quote, o \in Owner : Prepare(q, o)
  \/ \E q \in Quote : Expire(q)
  \/ \E c \in Call, q \in Quote, o \in Owner : Begin(c, q, o)
  \/ \E c \in Call : Step(c) \/ Cancel(c)
  \/ \E kind \in {"configure", "close"} : Request(kind)
  \/ Lifecycle

Spec == Init /\ [][Next]_vars

(* The runtime polls every call that can go on, which takes the host to    *)
(* answer each callback, and the fair lock serves a queued writer.         *)
FairSpec ==
  /\ Spec
  /\ \A c \in Call : WF_vars(Step(c))
  /\ WF_vars(Lifecycle)

(***************************************************************************)
(* Properties.                                                             *)
(***************************************************************************)

(* The variables have the values the code gives them, and the store's      *)
(* vector has each of its quotes in one place (store.rs, quotes).          *)
TypeOK ==
  /\ service \in 0..MaxServices /\ opened \in 0..MaxServices
  /\ queued \in {None, "configure", "close"}
  /\ store \subseteq Quote /\ older \subseteq store \X store
  /\ \A q, x \in store : q # x => (<<q, x>> \in older <=> <<x, q>> \notin older)
  /\ expired \subseteq store
  /\ owner \in [Quote -> Owner \cup {None}]
  /\ home \in [Quote -> 0..MaxServices]
  /\ pc \in [Call -> Stage]
  /\ of \in [Call -> Quote \cup {None}]
  /\ caller \in [Call -> Owner \cup {None}]
  /\ approved \in [Call -> BOOLEAN]
  /\ landed \in [Quote -> 0..MaxLanded]

(* A quote is in one place: in the store, in the hands of one execution,   *)
(* or on chain.  Two confirmations that both saw it in the store never     *)
(* both hold it, and what a failed one puts back never was submitted       *)
(* (take_for and restore).                                                 *)
OnePlace ==
  /\ \A q \in store : landed[q] = 0
  /\ \A c \in Call : pc[c] \in Holding =>
       /\ of[c] \notin store /\ landed[of[c]] = 0
       /\ \A d \in Call \ {c} : pc[d] \in Holding => of[d] # of[c]

(* However the confirmations of a quote interleave, fail and are retried,  *)
(* the chain gets at most one transaction of it: take_for removes a quote  *)
(* before it is acted on and only a failed execution puts it back          *)
(* (store.rs:34-36, broadcast.rs:48-51).                                   *)
SubmittedOnce == \A q \in Quote : landed[q] <= 1

(* No transaction is sent that the host did not approve in the same call,  *)
(* on whichever of the two paths asks it (web3_execute, ModuleSigner).     *)
SentIsApproved == \A c \in Call : pc[c] = "send" => approved[c]

(* Every quote that is stored, or held by a running execution, belongs to  *)
(* the service now open: replacing a service waits for its executions, and *)
(* none of them restores a quote into the next one (mod.rs:307-309).       *)
QuotesOfOpenService ==
  /\ \A q \in store : home[q] = service
  /\ \A c \in Call : pc[c] # "idle" => home[of[c]] = service

(* A quote leaves the store only into the hands of its owner, past its     *)
(* expiry, as the oldest of a full store, or with its service: a caller    *)
(* with another owner cannot use it up (store.rs:116-118).                 *)
OwnerGated ==
  [][\A q \in store \ store' :
       \/ q \in expired
       \/ service' # service
       \/ Cardinality(store) = Cap /\ q \in Oldest(store)
       \/ \E c \in Call : pc[c] = "take" /\ of[c] = q /\ caller[c] = owner[q]]_vars

(* A configure or close call that waits for the write lock gets it, even   *)
(* if executions keep failing and being retried (mod.rs:75-76).            *)
LifecycleProceeds == queued # None ~> queued = None
=============================================================================
