---------------------------- MODULE RequestTool ----------------------------
(***************************************************************************)
(* Paying for an HTTP request: X402RequestTool::run and pay_and_retry      *)
(* (tools/request.rs), which pay out of the shared spending ledger, and    *)
(* X402Client::try_paid_request (protocol/client.rs), which only knows the *)
(* cap its caller gives it.                                                *)
(*                                                                         *)
(* The ledger is the atomic account of SpendingBudget, which PaymentLedger *)
(* implements.  The server answers what it likes, loses messages, and may  *)
(* settle a proof it has seen at any later time.                           *)
(***************************************************************************)
EXTENDS PaymentTerms, FiniteSets

CONSTANTS Process,     \* processes that share the ledger
          Request,     \* requests, each made once
          Option,      \* the payment options servers name
          Challenge,   \* the challenges servers send, sequences of options
          Total(_),    \* sum of the amounts of a set of payments
          Budgets,     \* the configured limits
          Cap          \* max_amount of the client's caller

\* A payment attempt is a request and the option it pays.
Payment == Request \X Option

VARIABLES held, spent, limit,   \* the account, as SpendingBudget has it
          call,                 \* call[r]: where request r is and what it knows
          proofs,               \* proofs that reached a server
          moved,                \* proofs the servers have settled
          settled               \* payments whose record says Settled

account == <<held, spent, limit>>
vars == <<account, call, proofs, moved, settled>>

Account == INSTANCE SpendingBudget

Kinds  == {"tool", "client"}
Stages == {"new", "ask", "reserve", "build", "record", "send", "await", "done"}

NoCall == [at |-> "new", kind |-> "tool", home |-> CHOOSE l \in Process : TRUE,
           replayable |-> TRUE, accepts |-> <<>>, index |-> 0, proof |-> {}]

Init ==
  /\ Account!Init
  /\ call = [r \in Request |-> NoCall]
  /\ proofs = {} /\ moved = {} /\ settled = {}

Chosen(r)  == call[r].accepts[call[r].index]
Attempt(r) == <<r, Chosen(r)>>
Goto(r, at) == call' = [call EXCEPT ![r].at = at]

\* An early return gives up the reservation the call may hold.
GiveUp(r) ==
  /\ Goto(r, "done")
  /\ held' = [held EXCEPT ![call[r].home] = {p \in @ : p[1] # r}]
  /\ UNCHANGED <<spent, limit, proofs, moved, settled>>

\* execute_with_options and the first half of run: the arguments, the network
\* policy and the approved destination decide whether anything is sent at all.
\* The body of a tool's request is text and can be sent twice.
Start(r) ==
  /\ call[r].at = "new"
  /\ \E kind \in Kinds, l \in Process, again \in BOOLEAN, at \in {"ask", "done"} :
       /\ kind = "tool" => again
       /\ kind = "client" => at = "ask"
       /\ call' = [call EXCEPT ![r].at = at, ![r].kind = kind, ![r].home = l,
                               ![r].replayable = again]
  /\ UNCHANGED <<account, proofs, moved, settled>>

\* The checks between the selection and the ledger.
Affordable(r, option) ==
  /\ parse_amount(option)
  /\ call[r].kind = "client" => option.amount <= Cap

\* The unpaid request fails, or its answer is not a 402, or carries no
\* challenge, or none that can be paid: the call is over.
AskUnpaid(r) == call[r].at = "ask" /\ GiveUp(r)

\* A 402 with a payable challenge.  refresh_solana_authorizations, which only
\* adds expiry evidence to earlier records, is in X402Service.
AskChallenged(r, v2, v1) ==
  LET accepts == parse_402_headers(v2, v1) IN
  /\ call[r].at = "ask" /\ call[r].replayable
  /\ accepts \notin {Absent, Malformed}
  /\ LET choice == select_requirement(accepts) IN
     /\ choice.index # 0
     /\ Affordable(r, accepts[choice.index])
     /\ call' = [call EXCEPT ![r].at = IF call[r].kind = "tool" THEN "reserve" ELSE "build",
                             ![r].accepts = accepts, ![r].index = choice.index]
  /\ UNCHANGED <<account, proofs, moved, settled>>

\* Mutant: the amount is held without asking whether the budget covers it.
ReserveUnchecked(r) ==
  /\ call[r].at = "reserve"
  /\ held' = [held EXCEPT ![call[r].home] = @ \cup {Attempt(r)}]
  /\ Goto(r, "build")
  /\ UNCHANGED <<spent, limit, proofs, moved, settled>>

\* ledger::reserve, before anything is signed.
Reserve(r) ==
  /\ call[r].at = "reserve"
  /\ Account!Admit(call[r].home, Attempt(r))
  /\ Goto(r, "build")
  /\ UNCHANGED <<proofs, moved, settled>>

\* The ledger refuses, or cannot be reached.
ReserveRefused(r) == call[r].at = "reserve" /\ GiveUp(r)

\* Mutant: the tool signs and sends before its record is stored.
BuildAndSend(r) ==
  /\ call[r].at = "build" /\ build_with_rail_metadata(Chosen(r))
  /\ call' = [call EXCEPT ![r].at = "send", ![r].proof = {Terms(Chosen(r))}]
  /\ UNCHANGED <<account, proofs, moved, settled>>

\* The wallet signs the terms of the chosen option.
Build(r) ==
  /\ call[r].at = "build" /\ build_with_rail_metadata(Chosen(r))
  /\ call' = [call EXCEPT ![r].at = IF call[r].kind = "tool" THEN "record" ELSE "send",
                          ![r].proof = {Terms(Chosen(r))}]
  /\ UNCHANGED <<account, proofs, moved, settled>>

\* Mutant: the error path keeps the reservation.
BuildLeaks(r) ==
  /\ call[r].at = "build" /\ Goto(r, "done")
  /\ UNCHANGED <<account, proofs, moved, settled>>

\* The option cannot be built, the signer refuses or the node gives no
\* blockhash.
BuildFails(r) == call[r].at = "build" /\ GiveUp(r)

\* reservation.commit_durable with the Pending record.
RecordPending(r) ==
  /\ call[r].at = "record"
  /\ Account!Record(call[r].home, Attempt(r))
  /\ Attempt(r) \notin held'[call[r].home]
  /\ Goto(r, "send")
  /\ UNCHANGED <<proofs, moved, settled>>

\* It reports an error, although the record may be stored: nothing is sent.
RecordFails(r) ==
  /\ call[r].at = "record"
  /\ \/ GiveUp(r)
     \/ /\ Account!Record(call[r].home, Attempt(r))
        /\ Attempt(r) \notin held'[call[r].home]
        /\ Goto(r, "done")
        /\ UNCHANGED <<proofs, moved, settled>>

\* The paid retry reaches the server; its answer may never come.
SendPaid(r) ==
  /\ call[r].at = "send"
  /\ \E at \in {"await", "done"} : Goto(r, at)
  /\ proofs' = proofs \cup {Attempt(r)}
  /\ UNCHANGED <<account, moved, settled>>

\* The paid retry does not get through: the Pending record stays.
SendFails(r) == call[r].at = "send" /\ GiveUp(r)

\* The server, or whoever it gave the proof to, submits it.
Settle(p) ==
  /\ p \in proofs \ moved
  /\ moved' = moved \cup {p}
  /\ UNCHANGED <<account, call, proofs, settled>>

\* The answer.  Only a receipt of success, which the facilitator gives for a
\* settled payment, turns the record of a tool's payment into Settled; that
\* write may fail, which is only logged.
Answer(r) ==
  /\ call[r].at = "await"
  /\ Goto(r, "done")
  /\ \/ UNCHANGED settled
     \/ /\ Attempt(r) \in moved /\ call[r].kind = "tool"
        /\ settled' = settled \cup {Attempt(r)}
  /\ UNCHANGED <<account, proofs, moved>>

\* A process dies with the calls and reservations it has.
Crash(l) ==
  /\ \E r \in Request : call[r].home = l /\ call[r].at \notin {"new", "done"}
  /\ call' = [r \in Request |->
                IF call[r].home = l /\ call[r].at # "new" THEN [call[r] EXCEPT !.at = "done"]
                ELSE call[r]]
  /\ held' = [held EXCEPT ![l] = {}]
  /\ UNCHANGED <<spent, limit, proofs, moved, settled>>

Headers == {Absent, Malformed} \cup Challenge

\* The next step of the call: every exchange has a time limit, so an answer or
\* an error always comes.
Proceed(r) ==
  \/ AskUnpaid(r) \/ \E v2, v1 \in Headers : AskChallenged(r, v2, v1)
  \/ Reserve(r) \/ ReserveRefused(r)
  \/ Build(r) \/ BuildFails(r)
  \/ RecordPending(r) \/ RecordFails(r)
  \/ SendPaid(r) \/ SendFails(r) \/ Answer(r)

Next ==
  \/ \E r \in Request : Start(r) \/ Proceed(r)
  \/ \E p \in Payment : Settle(p)
  \/ \E l \in Process : Crash(l)

Spec == Init /\ [][Next]_vars

FairSpec == Spec /\ \A r \in Request : WF_vars(Proceed(r))

-----------------------------------------------------------------------------
(* Properties.                                                             *)

\* The type invariant of the calls and of the account they share.
TypeOK ==
  /\ \A l \in Process : held[l] \subseteq Payment
  /\ spent \subseteq Payment /\ settled \subseteq spent
  /\ \A r \in Request :
       /\ call[r].at \in Stages /\ call[r].kind \in Kinds /\ call[r].home \in Process
       /\ call[r].at \in {"reserve", "build", "record", "send", "await"} =>
            call[r].index \in DOMAIN call[r].accepts
  /\ moved \subseteq proofs /\ proofs \subseteq Payment

Tool(p) == call[p[1]].kind = "tool"

\* pay_and_retry: "the hold on the budget, atomically transferred to a durable
\* Pending record before the signed authorization leaves this process"
\* (request.rs:312).  Whatever crashes or fails, a proof a server has seen is
\* recorded with the terms that were signed.
SentIsRecorded ==
  \A p \in proofs : Tool(p) => p \in spent /\ call[p[1]].proof = {Terms(p[2])}

\* run in several processes: what the servers take from the tool's proofs, now
\* or later, stays within the budget.
OutflowWithinBudget ==
  \A l \in Process : Total({p \in proofs : Tool(p)}) <= limit[l].daily

\* select_requirement: the option that is paid is "the first payable Solana
\* exact option, else the first payable EVM one" (select.rs:35).  The client pays
\* it only within its cap, try_paid_request's guard against "runaway spending"
\* (client.rs:47), and only for a body that can be sent again.
PaysPreferred ==
  \A r \in Request : call[r].proof # {} =>
    LET solana == FirstPayable(call[r].accepts, "Solana")
        evm    == FirstPayable(call[r].accepts, "Evm")
    IN  /\ {call[r].index} = IF solana # {} THEN solana ELSE evm
        /\ call[r].kind = "client" => call[r].replayable /\ Chosen(r).amount <= Cap

\* handle_402_and_pay_authorized and pay_and_retry: on every path the
\* reservation is given up or becomes a record, so a failed request does not
\* keep its amount out of the budget.
ReservationsEnd ==
  \A r \in Request :
    (\E l \in Process, p \in Payment : p[1] = r /\ p \in held[l]) ~>
      ~\E l \in Process, p \in Payment : p[1] = r /\ p \in held[l]
=============================================================================
