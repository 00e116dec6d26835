---------------------------- MODULE ChainExecution ----------------------------
(***************************************************************************)
(* Transfers on their way to the chains, and the queries about them.       *)
(*                                                                         *)
(* A call executes one transfer.  It comes in three ways: "engine", a      *)
(* quote of prepare_transfer executed by the chain's execute_*_quote;      *)
(* "call", the engine's raw EVM contract call; "library", the send         *)
(* function of the client library.  Between the reads a call makes of its  *)
(* node and the moment it sends, other calls, the chain and the host's     *)
(* endpoint configuration go on.                                           *)
(*                                                                         *)
(* Nodes and chains are external.  A ledger holds the transactions its     *)
(* network knows of, each "pending", "settling" (Solana: in a block, not   *)
(* final), "ok" or "bad" (reverted).  Gas prices and limits are left out.  *)
(***************************************************************************)
EXTENDS TransactionSigning, TransferQuotes, TransactionStatus

CONSTANTS Call,          \* the executions
          Assignments,   \* what they may be asked: a set of functions on Call
          Coins,         \* the wallet's unspent Bitcoin outputs at the start
          FeeLimit,      \* TRC20_FEE_LIMIT_SUN
          MaxRepoints,   \* bound on changes of the EVM endpoint configuration
          MaxBlockhash   \* bound on the Solana block hashes

VARIABLES job,       \* what every call was asked
          call,      \* where it is, what it read and what it signed
          ledger,    \* ledger[l]: the transactions network l knows of
          serves,    \* serves[n]: the network that n's EVM endpoint reaches
          repoints,  \* endpoint changes so far
          blockhash, \* the latest Solana block hash
          replaced,  \* transactions another one took the place of
          query      \* one status question

vars == <<job, call, ledger, serves, repoints, blockhash, replaced, query>>

Own == <<"account", "mine">>
Key(chain) == [chain |-> chain, address |-> Own]

-----------------------------------------------------------------------------
(* The node's side.                                                        *)

\* The network a call's requests reach.
Reached(c) == IF call[c].quote.chain = "evm" THEN serves[call[c].quote.network]
                                             ELSE call[c].quote.chain
Known(l) == DOMAIN ledger[l]
Used(l, from) == {t.nonce : t \in {u \in Known(l) : u.from = from}}

\* Mutant: the count of mined transactions ("latest").
NonceAtLatest(l, from) ==
  Cardinality({t \in Known(l) : t.from = from /\ ledger[l][t] \in Mined})

\* eth_getTransactionCount at "pending": the first number nothing known uses.
NonceAtPending(l, from) == Min((0..Cardinality(Call)) \ Used(l, from))

\* The outputs Esplora lists for the address: no known transaction spends them.
fetch_utxos(from) ==
  SelectSeq(Coins, LAMBDA coin :
    ~\E t \in Known("btc") : t.from = from /\ \E i \in DOMAIN t.inputs : t.inputs[i] = coin)

\* Two transactions of which a network can settle only one.
Rival(t, u) ==
  /\ t # u /\ t.from = u.from
  /\ CASE t.chain = "evm" -> t.nonce = u.nonce
       [] t.chain = "btc" -> \E i \in DOMAIN t.inputs, k \in DOMAIN u.inputs : t.inputs[i] = u.inputs[k]
       [] OTHER -> FALSE

\* Whether network l can take the transaction.
Takes(l, signed) ==
  /\ Verifies(signed)
  /\ signed.tx.chain = "evm" => signed.tx.chain_id = l
  /\ signed.tx.chain = "solana" => signed.tx.blockhash + 1 >= blockhash
  /\ signed.tx \notin Known(l)
  /\ \A t \in Known(l) : Rival(t, signed.tx) => ledger[l][t] = "pending"

\* What a Tron node may answer when it is asked to build the transfer: the
\* transaction asked for, or one with another recipient, another amount, a
\* second contract or another fee limit.
TronBuilds(c, to, transfer) ==
  LET asked == [kind |-> transfer.kind, to |-> to, amount |-> transfer.amount, value |-> 0,
                data |-> transfer.data]
      other == [asked EXCEPT !.to = <<"account", "else">>]
      raw(contracts, limit, addresses) ==
        [chain |-> "tron", from |-> call[c].quote.from, contracts |-> contracts, fee_limit |-> limit,
         ref |-> c, mentions |-> [addresses |-> addresses, amounts |-> {transfer.amount},
                                  data |-> {transfer.data}]]
      limit == IF transfer.kind = "native" THEN NoLimit ELSE FeeLimit
  IN  {raw(<<asked>>, limit, {to}),
       raw(<<other>>, limit, {other.to}),
       raw(<<[asked EXCEPT !.amount = @ + 1, !.data = None]>>, limit, {to}),
       raw(<<other, asked>>, limit, {to, other.to}),
       raw(<<asked>>, FeeLimit + 1, {to})}

-----------------------------------------------------------------------------
(* The wallet's side: from the request to a signed transaction.            *)

\* own: whether the address the wallet lists is the one its key derives.
Listed(j) == IF j.own THEN Own ELSE <<"account", "old">>

\* The library's send functions and the raw contract call have no quote: they
\* take the same fields from their arguments.
QuoteOf(j) ==
  IF j.via = "engine" THEN prepare_transfer(j, Listed(j))
  ELSE IF ~j.valid \/ j.amount = NotANumber THEN Refused
  ELSE [chain |-> j.chain, network |-> NetworkOf(j.chain, j.network), from |-> Listed(j),
        to |-> j.to, kind |-> IF j.via = "call" THEN "call" ELSE "native", token |-> None,
        amount |-> j.amount]

\* Before it asks a node for anything, the engine parses the amount at the width
\* of the chain and, on Solana and Tron, compares the derived address with the
\* quote's.
Executable(j, quote) ==
  /\ quote.chain \in {"btc", "solana"} \/ (quote.chain = "tron" /\ quote.kind = "native")
       => quote.amount <= MaxU64
  /\ j.via = "engine" /\ quote.chain \in {"solana", "tron"} => Key(quote.chain).address = quote.from

FirstStep(quote) == CASE quote.chain = "evm" -> "chain_id" [] quote.chain = "btc" -> "coins"
                      [] quote.chain = "solana" -> "blockhash" [] quote.chain = "tron" -> "build"

Idle == [pc |-> "idle", kind |-> None, of |-> None, first |-> None, during |-> {}, answer |-> None]

Init ==
  /\ job \in Assignments
  /\ call = [c \in Call |-> [pc |-> "start", quote |-> None, id |-> None, nonce |-> None,
                             seen |-> {}, signed |-> None, taken |-> FALSE]]
  /\ ledger = [l \in {"ethereum", "base", "btc", "solana", "tron"} |-> <<>>]
  /\ serves \in [{"ethereum", "base"} -> {"ethereum", "base"}]
  /\ repoints = 0
  /\ blockhash = 0
  /\ replaced = {}
  /\ query = Idle

Fail(c) == call' = [call EXCEPT ![c].pc = "failed"]
Env == <<ledger, serves, repoints, blockhash, replaced, query>>

Start(c) ==
  LET quote == QuoteOf(job[c])
  IN  /\ call[c].pc = "start"
      /\ IF quote = Refused THEN Fail(c)
         ELSE IF ~Executable(job[c], quote) THEN Fail(c)
         ELSE call' = [call EXCEPT ![c].pc = FirstStep(quote), ![c].quote = quote]
      /\ UNCHANGED <<job, Env>>

\* What was signed is sent next; a signer that refuses ends the call.
Signed(c, signed, seen) ==
  IF signed = Refused THEN Fail(c)
  ELSE call' = [call EXCEPT ![c].pc = "send", ![c].signed = signed, ![c].seen = seen]

\* Mutant: the endpoint is taken to serve the network it is configured for.
AnyNetwork(quote, id) == TRUE

OnNetwork(quote, id) == id = quote.network

\* The library compares the chain id as soon as it has read it.
EvmChainId(c) ==
  LET id == serves[call[c].quote.network]
  IN  /\ call[c].pc = "chain_id"
      /\ IF job[c].via = "library" /\ ~OnNetwork(call[c].quote, id) THEN Fail(c)
         ELSE call' = [call EXCEPT ![c].pc = "nonce", ![c].id = id]
      /\ UNCHANGED <<job, Env>>

EvmNonce(c) ==
  /\ call[c].pc = "nonce"
  /\ call' = [call EXCEPT ![c].pc = "estimate", ![c].seen = Known(Reached(c)),
                          ![c].nonce = NonceAtPending(Reached(c), call[c].quote.from)]
  /\ UNCHANGED <<job, Env>>

\* A token transfer pays its contract nothing and carries recipient and amount
\* in the call data.
EvmSpec(c) ==
  LET quote == call[c].quote
      token == quote.kind = "token"
  IN  [chain |-> "evm", from |-> Own, nonce |-> call[c].nonce,
       to    |-> IF token THEN quote.token ELSE quote.to,
       value |-> IF token THEN 0 ELSE quote.amount,
       data  |-> CASE token -> <<quote.to, quote.amount>> [] quote.kind = "call" -> job[c].data
                   [] OTHER -> None,
       chain_id |-> call[c].id]

LibraryEvmSpec(c) ==
  [chain |-> "evm", from |-> Own, nonce |-> call[c].nonce, to |-> call[c].quote.to,
   value |-> call[c].quote.amount, data |-> job[c].data, chain_id |-> call[c].quote.network]

\* After the price and the estimate: the engine compares the chain id it read
\* first, then signs.
EvmEstimate(c) ==
  /\ call[c].pc = "estimate"
  /\ IF job[c].via = "library"
     THEN Signed(c, sign_transaction(Key("evm"), LibraryEvmSpec(c)), call[c].seen)
     ELSE IF ~OnNetwork(call[c].quote, call[c].id) THEN Fail(c)
     ELSE Signed(c, sign_transaction(Key("evm"), EvmSpec(c)), call[c].seen)
  /\ UNCHANGED <<job, Env>>

BtcSpec(quote, utxos, fee) ==
  [chain |-> "btc", from |-> quote.from, to |-> quote.to, amount |-> quote.amount,
   utxos |-> utxos, fee |-> fee]

\* The engine hands the signer the coins and the fee it planned, ...
BtcSign(c) ==
  LET quote == call[c].quote
      coins == fetch_utxos(quote.from)
      plan  == plan_spend(coins, quote.amount)
  IN  /\ call[c].pc = "coins" /\ job[c].via = "engine"
      /\ IF coins = <<>> \/ plan = Refused THEN Fail(c)
         ELSE Signed(c, sign_transaction(Key("btc"), BtcSpec(quote, plan.selected, plan.fee)), Known("btc"))
      /\ UNCHANGED <<job, Env>>

\* ... the library every coin and the caller's fee.
LibraryBtcSign(c) ==
  /\ call[c].pc = "coins" /\ job[c].via = "library"
  /\ Signed(c, sign_transaction(Key("btc"), BtcSpec(call[c].quote, fetch_utxos(call[c].quote.from), job[c].fee)),
            Known("btc"))
  /\ UNCHANGED <<job, Env>>

\* transfer_message asks for the block hash and, for a token transfer, whether
\* the recipient's token account exists.
SolanaSpec(quote) ==
  [chain |-> "solana", from |-> quote.from, to |-> quote.to, token |-> quote.token,
   amount |-> quote.amount, blockhash |-> blockhash]

SolanaSign(c) ==
  /\ call[c].pc = "blockhash" /\ job[c].via = "engine"
  /\ \/ /\ call[c].quote.kind = "token"
        /\ Fail(c) \/ Signed(c, sign_message(Key("solana"), SolanaSpec(call[c].quote)), {})
     \/ /\ call[c].quote.kind = "native"
        /\ Signed(c, sign_transaction(Key("solana"), SolanaSpec(call[c].quote)), {})
  /\ UNCHANGED <<job, Env>>

\* The library's signer compares its key with the sender.
LibrarySolanaSign(c) ==
  /\ call[c].pc = "blockhash" /\ job[c].via = "library"
  /\ IF call[c].quote.from # Own THEN Fail(c)
     ELSE Signed(c, sign_transaction(Key("solana"), SolanaSpec(call[c].quote)), {})
  /\ UNCHANGED <<job, Env>>

\* What the node is asked to build: where the contract goes and what it does.
TronTransfer(quote) ==
  IF quote.kind = "token"
  THEN [kind |-> "token", amount |-> 0, data |-> <<quote.to, quote.amount>>]
  ELSE [kind |-> "native", amount |-> quote.amount, data |-> None]

\* The node builds, the wallet compares with what it asked for and signs.  The
\* transaction id in the answer may be of other data.
TronSign(c) ==
  LET quote == call[c].quote
      token == quote.kind = "token"
      to    == IF token THEN quote.token ELSE quote.to
      transfer == TronTransfer(quote)
  IN  /\ call[c].pc = "build" /\ job[c].via = "engine"
      /\ \E raw, txid \in TronBuilds(c, to, transfer) :
           IF ~verify_contract(raw, to, txid, transfer, IF token THEN FeeLimit ELSE NoLimit) THEN Fail(c)
           ELSE Signed(c, sign_transaction(Key("tron"),
                  [chain |-> "tron", raw |-> raw, expected_to |-> to,
                   expected_txid |-> recompute_txid(raw), transfer |-> transfer]), {})
      /\ UNCHANGED <<job, Env>>

LibraryTronSign(c) ==
  LET to == call[c].quote.to
      transfer == TronTransfer(call[c].quote)
  IN  /\ call[c].pc = "build" /\ job[c].via = "library"
      /\ \E raw, txid \in TronBuilds(c, to, transfer) :
           IF verify_transfer(raw, to, txid, transfer)
           THEN Signed(c, sign_message(Key("tron"), raw), {}) ELSE Fail(c)
      /\ UNCHANGED <<job, Env>>

\* Any request before the last may fail: nothing was sent.
NodeFails(c) ==
  /\ call[c].pc \in {"chain_id", "nonce", "estimate", "coins", "blockhash", "build"}
  /\ Fail(c)
  /\ UNCHANGED <<job, Env>>

\* The state of the asked-about transaction at the endpoint that is asked.
StateAt(led, srv, c) ==
  LET quote == call[c].quote
      l == IF quote.chain = "evm" THEN srv[quote.network] ELSE quote.chain
      tx == call[c].signed.tx
  IN  IF tx \in DOMAIN led[l] THEN led[l][tx] ELSE "absent"

\* A question under way lives through every state of its transaction.
Observe == query' = IF query.pc = "reread"
                    THEN [query EXCEPT !.during = @ \cup {StateAt(ledger', serves', query.of)}]
                    ELSE query

\* Mutant: an HTTP success counts, whatever the body says.
AnnouncedByHttp(chain, reply) == reply = "taken" \/ (chain = "tron" /\ reply = "refused")

\* The call succeeds on the node's acknowledgement: a hash or an id, and on Tron,
\* where a refusal is an HTTP success too, "result": true in the body.
Announced(chain, reply) == reply = "taken"

\* The node takes the transaction, perhaps in place of a pending rival, or
\* refuses it; its answer may be lost either way.
Send(c) ==
  LET l == Reached(c)
      tx == call[c].signed.tx
      rivals == {t \in Known(l) : Rival(t, tx)}
  IN  /\ call[c].pc = "send"
      /\ \E taken \in BOOLEAN, reply \in {"taken", "refused", "lost"} :
           /\ taken => Takes(l, call[c].signed)
           /\ reply # "lost" => (reply = "taken") = taken
           /\ call' = [call EXCEPT ![c].taken = taken,
                        ![c].pc = IF Announced(call[c].quote.chain, reply) THEN "done" ELSE "failed"]
           /\ ledger' = IF ~taken THEN ledger
                        ELSE [ledger EXCEPT ![l] = [t \in (Known(l) \ rivals) \cup {tx} |->
                                                      IF t = tx THEN "pending" ELSE @[t]]]
           /\ replaced' = IF taken THEN replaced \cup {[tx |-> t, by |-> c] : t \in rivals}
                          ELSE replaced
      /\ UNCHANGED <<job, serves, repoints, blockhash>>
      /\ Observe

-----------------------------------------------------------------------------
(* The chains and the host (external).                                     *)

\* A block settles a pending transaction; an account's nonces settle in order.
\* On Bitcoin a settled transaction has not failed.
Settle(l) ==
  /\ \E t \in Known(l), s \in {"settling", "ok", "bad"} :
       /\ \/ ledger[l][t] = "pending" /\ (t.chain = "solana" => s # "ok")
          \/ ledger[l][t] = "settling" /\ s = "ok"
       /\ s = "settling" => t.chain = "solana"
       /\ s = "bad" => t.chain # "btc"
       /\ t.chain = "evm" => 0..(t.nonce - 1) \subseteq
                               {u.nonce : u \in {v \in Known(l) : v.from = t.from /\ ledger[l][v] \in Mined}}
       /\ ledger' = [ledger EXCEPT ![l][t] = s]
  /\ UNCHANGED <<job, call, serves, repoints, blockhash, replaced>>
  /\ Observe

\* A network forgets a transaction it never settled.
Forget(l) ==
  /\ \E t \in Known(l) :
       /\ ledger[l][t] = "pending"
       /\ ledger' = [ledger EXCEPT ![l] = [u \in Known(l) \ {t} |-> @[u]]]
  /\ UNCHANGED <<job, call, serves, repoints, blockhash, replaced>>
  /\ Observe

\* The host points an EVM endpoint elsewhere.
Repoint ==
  /\ repoints < MaxRepoints
  /\ \E n, m \in DOMAIN serves : m # serves[n] /\ serves' = [serves EXCEPT ![n] = m]
  /\ repoints' = repoints + 1
  /\ UNCHANGED <<job, call, ledger, blockhash, replaced>>
  /\ Observe

NextBlockhash ==
  /\ \E c \in Call : job[c].chain = "solana"
  /\ blockhash < MaxBlockhash
  /\ blockhash' = blockhash + 1
  /\ UNCHANGED <<job, call, ledger, serves, repoints, replaced, query>>

-----------------------------------------------------------------------------
(* Questions about a transaction: the engine's tx_status, tx_receipt and   *)
(* lookup_tx, the library's status.  What the node says is its state.      *)

Ask(c, kind) ==
  LET chain == call[c].quote.chain
      s == StateAt(ledger, serves, c)
  IN  /\ query.pc = "idle"
      /\ call[c].signed # None
      /\ query' = [pc |-> IF AsksAgain(kind, chain, s) THEN "reread" ELSE "answered",
                   kind |-> kind, of |-> c, first |-> s, during |-> {s},
                   answer |-> IF AsksAgain(kind, chain, s) THEN None ELSE Answer(kind, chain, s, s)]
      /\ UNCHANGED <<job, call, ledger, serves, repoints, blockhash, replaced>>

AskAgain ==
  /\ query.pc = "reread"
  /\ query' = [query EXCEPT !.pc = "answered",
                 !.answer = Answer(query.kind, call[query.of].quote.chain, query.first,
                                   StateAt(ledger, serves, query.of))]
  /\ UNCHANGED <<job, call, ledger, serves, repoints, blockhash, replaced>>

Next ==
  \/ \E c \in Call : \/ Start(c) \/ EvmChainId(c) \/ EvmNonce(c) \/ EvmEstimate(c) \/ BtcSign(c)
                     \/ LibraryBtcSign(c) \/ SolanaSign(c) \/ LibrarySolanaSign(c) \/ TronSign(c)
                     \/ LibraryTronSign(c) \/ NodeFails(c) \/ Send(c)
                     \/ \E kind \in {"status", "receipt", "lookup", "library"} : Ask(c, kind)
  \/ AskAgain
  \/ \E l \in DOMAIN ledger : Settle(l) \/ Forget(l)
  \/ Repoint
  \/ NextBlockhash

Spec == Init /\ [][Next]_vars

-----------------------------------------------------------------------------
(* What a request means, read from the request alone.                      *)

AskedNetwork(j) == IF j.chain # "evm" THEN j.chain ELSE IF j.network = None THEN "ethereum" ELSE j.network
AskedToken(j) == IF j.symbol \in {None, "ETH", "BTC", "SOL", "TRX"} THEN None
                 ELSE <<AskedNetwork(j), UpperCase(j.symbol)>>

Pays(j, tx) ==
  LET token == AskedToken(j)
      data  == IF token = None THEN j.data ELSE <<j.to, j.amount>>
  IN  CASE j.chain = "evm" ->
             /\ tx.chain_id = AskedNetwork(j)
             /\ <<tx.to, tx.value, tx.data>> =
                  IF token = None THEN <<j.to, j.amount, data>> ELSE <<token, 0, data>>
        [] j.chain = "btc" ->
             /\ tx.to = j.to /\ tx.amount = j.amount /\ tx.from = Own
             /\ LET fee == IF j.via = "library" THEN j.fee ELSE fee_for(Len(tx.inputs), 2)
                IN  Total(tx.inputs) - tx.amount - tx.change \in 1..(fee + DUST_THRESHOLD)
        [] j.chain = "solana" ->
             tx.to = j.to /\ tx.amount = j.amount /\ tx.token = token /\ tx.from = Own
        [] j.chain = "tron" /\ j.via = "engine" ->
             /\ Len(tx.contracts) = 1 /\ tx.from = Own
             /\ LET run == tx.contracts[1]
                IN  IF token = None THEN <<run.kind, run.to, run.amount>> = <<"native", j.to, j.amount>>
                    ELSE <<run.kind, run.to, run.data, run.value>> = <<"token", token, data, 0>>
        [] j.chain = "tron" /\ j.via = "library" ->
             j.to \in tx.mentions.addresses /\ j.amount \in tx.mentions.amounts

\* Whatever the nodes answer and wherever the host points the endpoints, what is
\* signed is the request: its recipient, amount and asset, on its network, from
\* the wallet's own address; and a network only ever holds transactions that were
\* asked for on it.  (The library's Tron check promises less: that recipient and
\* amount occur in what the node built.)  node_params' chain id check, the
\* catalogue lookup, verify_contract and the planned fee are what it rests on.
SignedAsApproved ==
  /\ \A c \in Call : call[c].signed # None => Pays(job[c], call[c].signed.tx)
  /\ \A l \in DOMAIN ledger : \A t \in Known(l) :
       \E c \in Call : /\ call[c].signed # None
                       /\ call[c].signed.tx = t
                       /\ AskedNetwork(job[c]) = l

\* An execution that reports Broadcasted was taken by the network; a refusal,
\* also Tron's "result": false in a successful response, is an error.
AnnouncedWasTaken == \A c \in Call : call[c].pc = "done" => call[c].taken

\* Back-to-back transfers do not collide: a transaction takes the place of
\* another one only if that one was not yet known when its nonce or its coins
\* were read ("pending" in node_params, the fresh unspent outputs in
\* execute_btc_quote).
ReplacesOnlyUnseen == \A r \in replaced : r.tx \notin call[r.by].seen

\* What an answer says of a transaction's state.
Means(kind, chain, answer, s) ==
  CASE kind = "status" ->
         (CASE answer = "confirmed" -> s = "ok" [] answer = "failed" -> s = "bad"
            [] answer = "pending" -> s \in {"pending", "settling"}
            [] answer = "not_found" -> s = "absent" \/ (chain = "solana" /\ s = "pending"))
    [] kind = "receipt" ->
         /\ answer.success = TRUE => s = "ok"
         /\ answer.success = FALSE => s = "bad"
         /\ answer.found => s # "absent"
         /\ ~answer.found => s \notin Mined /\ (chain \in {"evm", "btc"} => s = "absent")
    [] kind = "lookup" ->
         IF answer THEN s # "absent" ELSE s \notin Mined /\ (chain # "solana" => s = "absent")
    [] kind = "library" ->
         (CASE answer = "confirmed" -> s \in {"ok", "settling"} [] answer = "failed" -> s = "bad"
            [] answer = "pending" -> s \in {"absent", "pending"} [] answer = "error" -> s = "absent")

\* Every answer of tx_status, tx_receipt, lookup_tx and the library's status is
\* true of some moment of the question, also when the transaction is sent, mined
\* or forgotten between the two requests of one question.
StatusTrue ==
  query.pc = "answered" =>
    \E s \in query.during : Means(query.kind, call[query.of].quote.chain, query.answer, s)
===============================================================================
