------------------------ MODULE QuoteExecutionProofs ------------------------
(***************************************************************************)
(* Proofs about QuoteExecution: one quote, one transaction, for every      *)
(* number of quotes, callers and executions and every store capacity, as   *)
(* long as no answer of a node is lost.                                    *)
(***************************************************************************)
EXTENDS QuoteExecution, TLAPS

(* What the actions rely on: a queued configure stays within the bound, a  *)
(* running call names a quote that was prepared, and nothing has happened  *)
(* yet to one that was not.                                                *)
Tracked ==
  /\ queued = "configure" => opened < MaxServices
  /\ \A c \in Call : pc[c] # "idle" => of[c] \in Quote /\ owner[of[c]] # None
  /\ \A q \in store : owner[q] # None
  /\ \A q \in Quote : owner[q] = None => landed[q] = 0

(* The inductive invariant.  SubmittedOnce is not inductive: it takes       *)
(* OnePlace to know that the quote an execution sends never landed before. *)
QuoteInv == TypeOK /\ Tracked /\ OnePlace

LEMMA InitInv == Init => QuoteInv
BY QuoteAssumption DEF Init, QuoteInv, TypeOK, Tracked, OnePlace, Stage, Holding

(* prepare stores a quote nothing has happened to. *)
LEMMA PrepareInv ==
  ASSUME QuoteInv, NEW q \in Quote, NEW o \in Owner, Prepare(q, o)
  PROVE  QuoteInv'
<1> USE QuoteAssumption
<1>1. Room \subseteq store
  BY DEF Room
<1>2. TypeOK'
  BY <1>1 DEF QuoteInv, TypeOK, Tracked, Prepare, Insert, MayRead, lifecycle, calls
<1>3. Tracked'
  BY <1>1 DEF QuoteInv, TypeOK, Tracked, Prepare, Insert, lifecycle, calls
<1>4. OnePlace'
  BY <1>1 DEF QuoteInv, TypeOK, Tracked, OnePlace, Prepare, Insert, lifecycle, calls, Holding, Stage
<1> QED  BY <1>2, <1>3, <1>4 DEF QuoteInv

(* Up to the take, a call only moves along. *)
LEMMA BeforeTakeInv ==
  ASSUME QuoteInv, NEW c \in Call,
         \/ \E q \in Quote, o \in Owner : Begin(c, q, o)
         \/ AuthorizeFixed(c)
         \/ Cancel(c)
  PROVE  QuoteInv'
<1> USE DEF Goto, Leave, lifecycle, quotes
<1>1. TypeOK'
  <2>1. ASSUME NEW q \in Quote, NEW o \in Owner, Begin(c, q, o) PROVE TypeOK'
    BY <2>1 DEF QuoteInv, TypeOK, Begin, Stage
  <2>2. CASE AuthorizeFixed(c)
    BY <2>2 DEF QuoteInv, TypeOK, AuthorizeFixed, Stage
  <2>3. CASE Cancel(c)
    BY <2>3 DEF QuoteInv, TypeOK, Cancel, Stage
  <2> QED  BY <2>1, <2>2, <2>3
<1>2. Tracked'
  BY DEF QuoteInv, TypeOK, Tracked, Begin, AuthorizeFixed, Cancel, Visible
<1>3. OnePlace'
  BY DEF QuoteInv, TypeOK, OnePlace, Begin, AuthorizeFixed, Cancel, Holding
<1> QED  BY <1>1, <1>2, <1>3 DEF QuoteInv

(* take_for moves a quote from the store to one call. *)
LEMMA TakeForInv ==
  ASSUME QuoteInv, NEW c \in Call, TakeFor(c)
  PROVE  QuoteInv'
<1> USE DEF Goto, Leave, lifecycle, Keep
<1>1. TypeOK'
  <2>1. CASE Visible(of[c], caller[c]) /\ of[c] \notin expired
    BY <2>1 DEF QuoteInv, TypeOK, TakeFor, Stage
  <2>2. CASE Visible(of[c], caller[c]) /\ of[c] \in expired
    BY <2>2 DEF QuoteInv, TypeOK, TakeFor, Stage
  <2>3. CASE ~Visible(of[c], caller[c])
    BY <2>3 DEF QuoteInv, TypeOK, TakeFor, Stage
  <2> QED  BY <2>1, <2>2, <2>3
<1>2. Tracked'
  BY DEF QuoteInv, TypeOK, Tracked, TakeFor
<1>3. OnePlace'
  BY DEF QuoteInv, TypeOK, Tracked, OnePlace, TakeFor, Visible, Holding
<1> QED  BY <1>1, <1>2, <1>3 DEF QuoteInv

(* A call that holds its quote builds and signs, or sends and is done. *)
LEMMA HoldingInv ==
  ASSUME QuoteInv, NEW c \in Call, Build(c) \/ Sign(c) \/ Broadcast(c)
  PROVE  QuoteInv'
<1> USE DEF Goto, Leave, lifecycle, quotes, Land, MayLand
<1>1. TypeOK'
  <2>1. CASE Build(c)
    BY <2>1 DEF QuoteInv, TypeOK, Build, Stage
  <2>2. CASE Sign(c)
    BY <2>2 DEF QuoteInv, TypeOK, Sign, Stage
  <2>3. CASE Broadcast(c)
    BY <2>3, QuoteAssumption DEF QuoteInv, TypeOK, Tracked, Broadcast, Stage
  <2> QED  BY <2>1, <2>2, <2>3
<1>2. Tracked'
  BY DEF QuoteInv, TypeOK, Tracked, Build, Sign, Broadcast
<1>3. OnePlace'
  BY DEF QuoteInv, TypeOK, Tracked, OnePlace, Build, Sign, Broadcast, Holding
<1> QED  BY <1>1, <1>2, <1>3 DEF QuoteInv

(* restore puts back a quote that no call holds any more and never landed. *)
LEMMA FailInv ==
  ASSUME QuoteInv, NEW c \in Call, Fail(c)
  PROVE  QuoteInv'
<1> USE DEF Goto, Leave, lifecycle, Insert
<1>1. Room \subseteq store
  BY DEF Room
<1>2. of[c] \in Quote /\ of[c] \notin store /\ owner[of[c]] # None
  BY DEF QuoteInv, Tracked, OnePlace, Fail, Holding
<1>3. TypeOK'
  BY <1>1, <1>2 DEF QuoteInv, TypeOK, Fail, Stage
<1>4. Tracked'
  BY <1>1, <1>2 DEF QuoteInv, TypeOK, Tracked, Fail
<1>5. OnePlace'
  BY <1>1, <1>2 DEF QuoteInv, TypeOK, OnePlace, Fail, Holding
<1> QED  BY <1>3, <1>4, <1>5 DEF QuoteInv

(* The clock, and the lifecycle calls, touch no call and no transaction. *)
LEMMA OutsideInv ==
  ASSUME QuoteInv,
         \/ \E q \in Quote : Expire(q)
         \/ \E kind \in {"configure", "close"} : Request(kind)
         \/ Lifecycle
         \/ UNCHANGED vars
  PROVE  QuoteInv'
<1> USE DEF lifecycle, quotes, calls, Keep
<1>1. TypeOK'
  BY QuoteAssumption
  DEF QuoteInv, TypeOK, Tracked, Expire, Request, Lifecycle, Configure, Close, Refuse, vars
<1>2. Tracked'
  <2>1. ASSUME NEW kind \in {"configure", "close"}, Request(kind) PROVE Tracked'
    BY <2>1 DEF QuoteInv, Tracked, Request
  <2>2. CASE \/ \E q \in Quote : Expire(q)
             \/ Lifecycle
             \/ UNCHANGED vars
    BY <2>2 DEF QuoteInv, Tracked, Expire, Lifecycle, Configure, Close, Refuse, vars, None
  <2> QED  BY <2>1, <2>2
<1>3. OnePlace'
  BY DEF QuoteInv, TypeOK, OnePlace, Expire, Request, Lifecycle, Configure, Close, Refuse, vars
<1> QED  BY <1>1, <1>2, <1>3 DEF QuoteInv

LEMMA StepInv ==
  ASSUME "lost" \notin Faults, QuoteInv, [Next]_vars
  PROVE  QuoteInv'
<1>1. ASSUME NEW c \in Call PROVE ~ReplyLost(c)
  BY <1>1 DEF ReplyLost
<1> QED
  BY <1>1, PrepareInv, BeforeTakeInv, TakeForInv, HoldingInv, FailInv, OutsideInv
  DEF Next, Step

(* The variables of the module keep their types (TypeOK), whatever the     *)
(* executions and the lifecycle calls of a service do.                     *)
THEOREM TypeCorrect ==
  ASSUME "lost" \notin Faults
  PROVE  Spec => []TypeOK
<1>1. QuoteInv => TypeOK
  BY DEF QuoteInv
<1> QED
  BY <1>1, InitInv, StepInv, PTL DEF Spec

(* take_for and restore: a quote is in the store, in the hands of one      *)
(* execution, or on chain, and never in two of these places.               *)
THEOREM QuoteInOnePlace ==
  ASSUME "lost" \notin Faults
  PROVE  Spec => []OnePlace
<1>1. QuoteInv => OnePlace
  BY DEF QuoteInv
<1> QED
  BY <1>1, InitInv, StepInv, PTL DEF Spec

(* execute_quote and execute_prepared: as long as no node's answer is      *)
(* lost, no interleaving of any number of confirmations, failures, retries *)
(* and cancellations submits a quote twice.                                *)
THEOREM QuoteSubmittedOnce ==
  ASSUME "lost" \notin Faults
  PROVE  Spec => []SubmittedOnce
<1> DEFINE Once == QuoteInv /\ SubmittedOnce
<1>1. Init => Once
  BY InitInv DEF Init, SubmittedOnce
<1>2. Once /\ [Next]_vars => Once'
  <2> SUFFICES ASSUME Once, [Next]_vars PROVE SubmittedOnce'
    BY StepInv
  <2>1. ASSUME NEW c \in Call, Broadcast(c) PROVE SubmittedOnce'
    BY <2>1 DEF QuoteInv, TypeOK, OnePlace, SubmittedOnce, Broadcast, Land, Holding
  <2>2. ASSUME NEW c \in Call PROVE ~ReplyLost(c)
    BY <2>2 DEF ReplyLost
  <2>3. CASE UNCHANGED landed
    BY <2>3 DEF SubmittedOnce
  <2> QED
    BY <2>1, <2>2, <2>3
    DEF Next, Step, Prepare, Expire, Begin, AuthorizeFixed, TakeFor, Build, Sign, Fail, Cancel,
        Request, Lifecycle, Configure, Close, Refuse, vars
<1> QED
  BY <1>1, <1>2, PTL DEF Spec

(* Replacing a service waits for its executions (service/mod.rs:307-309):  *)
(* no stored or held quote belongs to a service that is no longer open.    *)
THEOREM QuotesStayHome ==
  ASSUME "lost" \notin Faults
  PROVE  Spec => []QuotesOfOpenService
<1> DEFINE Home == QuoteInv /\ QuotesOfOpenService
<1>1. Init => Home
  BY InitInv DEF Init, QuotesOfOpenService
<1>2. Home /\ [Next]_vars => Home'
  <2> SUFFICES ASSUME Home, [Next]_vars PROVE QuotesOfOpenService'
    BY StepInv
  <2> USE DEF QuoteInv, TypeOK, QuotesOfOpenService, lifecycle, quotes, calls
  <2>1. Room \subseteq store
    BY DEF Room
  <2>2. ASSUME NEW q \in Quote, NEW o \in Owner, Prepare(q, o) PROVE QuotesOfOpenService'
    BY <2>1, <2>2, QuoteAssumption DEF Tracked, Prepare, Insert
  <2>3. ASSUME NEW q \in Quote, NEW c \in Call, NEW o \in Owner, Begin(c, q, o)
        PROVE  QuotesOfOpenService'
    BY <2>3 DEF Begin, Visible, Goto
  <2>4. ASSUME NEW c \in Call, Step(c) \/ Cancel(c) PROVE QuotesOfOpenService'
    <3>1. CASE TakeFor(c)
      BY <3>1 DEF TakeFor, Keep, Goto, Leave
    <3>2. CASE Fail(c)
      BY <3>2, <2>1 DEF Fail, Insert, Goto, Leave, Holding
    <3>3. CASE AuthorizeFixed(c) \/ Build(c) \/ Sign(c) \/ Broadcast(c) \/ Cancel(c)
      BY <3>3 DEF AuthorizeFixed, Build, Sign, Broadcast, Cancel, Goto, Leave
    <3>4. ~ReplyLost(c)
      BY DEF ReplyLost
    <3> QED  BY <2>4, <3>1, <3>2, <3>3, <3>4 DEF Step
  <2>5. CASE Lifecycle
    BY <2>5 DEF Lifecycle, Configure, Close, Refuse, WriteLocked, Keep
  <2>6. CASE \/ \E q \in Quote : Expire(q)
             \/ \E kind \in {"configure", "close"} : Request(kind)
             \/ UNCHANGED vars
    BY <2>6 DEF Expire, Request, vars
  <2> QED  BY <2>2, <2>3, <2>4, <2>5, <2>6 DEF Next
<1> QED
  BY <1>1, <1>2, PTL DEF Spec
=============================================================================
