--------------------------- MODULE TransactionSigning ---------------------------
(***************************************************************************)
(* From a transaction spec to a signed transaction.  build_unsigned gives  *)
(* the payloads to sign, sign_payload signs one, attach_signature puts the *)
(* signatures onto the transaction it builds again from the same spec;     *)
(* sign_transaction does all three with the key derived from the phrase.   *)
(* A signature is the record of the key, the scheme and what was signed.   *)
(***************************************************************************)
EXTENDS BtcSpend

\* A key is the chain it was derived for and the address it controls.
Scheme(chain) == IF chain = "solana" THEN "ed25519" ELSE "secp256k1"

-----------------------------------------------------------------------------
(* Tron: the node builds raw_data, the wallet checks what it would sign.   *)
(* raw: its contracts (each with kind, to, amount and the native value     *)
(* sent along a contract call), the fee limit (NoLimit when it has none),  *)
(* a reference that makes it unique, and what occurs anywhere in its       *)
(* bytes.  A transaction id is the raw data it was computed from.          *)

CONSTANT NoLimit

recompute_txid(raw) == raw

\* The fields that will execute, compared one by one.  transfer: kind, amount;
\* a token transfer goes to its contract, with recipient and amount in data.
\* The fee limit is compared when the caller pinned one and the node set one.
Executes(contract, to, transfer) ==
  /\ contract.kind = transfer.kind
  /\ contract.to = to
  /\ transfer.kind = "native" => contract.amount = transfer.amount
  /\ transfer.kind = "token" => contract.value = 0 /\ contract.data = transfer.data

verify_contract(raw, to, txid, transfer, limit) ==
  /\ recompute_txid(raw) = txid
  /\ Len(raw.contracts) = 1
  /\ Executes(raw.contracts[1], to, transfer)
  /\ transfer.kind = "token" /\ limit # NoLimit => raw.fee_limit \in {limit, NoLimit}

\* The library's older check looks for the recipient and the amount anywhere in
\* the bytes: it sees that they are mentioned, not that they execute.
verify_transfer(raw, to, txid, transfer) ==
  /\ recompute_txid(raw) = txid
  /\ to \in raw.mentions.addresses
  /\ IF transfer.kind = "native" THEN transfer.amount \in raw.mentions.amounts
                                 ELSE transfer.data \in raw.mentions.data

-----------------------------------------------------------------------------
(* What the spec's transaction is on the wire, without its signatures: the *)
(* same bytes whether they are hashed for signing or serialized to send.   *)

BtcUnsigned(spec, built) ==
  IF built = Refused THEN Refused
  ELSE [chain |-> "btc", from |-> spec.from, to |-> spec.to, inputs |-> built.inputs,
        amount |-> built.amount, change |-> built.change]

Unsigned(spec) ==
  CASE spec.chain = "btc" -> BtcUnsigned(spec, BtcBuild(spec.utxos, spec.amount, spec.fee))
    [] spec.chain = "tron" ->
         IF verify_contract(spec.raw, spec.expected_to, spec.expected_txid, spec.transfer, NoLimit)
         THEN spec.raw ELSE Refused
    [] OTHER -> spec

\* A Bitcoin key that does not control the sender is refused before anything is
\* built; the other chains leave that to their callers.
Controls(key, spec) == spec.chain = "btc" => key.address = spec.from

Payload(chain, bytes) == [bytes |-> bytes, scheme |-> Scheme(chain)]

\* One digest an input on Bitcoin, which commits to that input; one payload on
\* the other chains, and on Solana that is the message itself.
Payloads(tx) ==
  IF tx = Refused THEN Refused
  ELSE IF tx.chain = "btc" THEN [i \in DOMAIN tx.inputs |-> Payload("btc", <<tx, i>>)]
  ELSE <<Payload(tx.chain, <<tx, 1>>)>>

build_unsigned(spec, key) == IF Controls(key, spec) THEN Payloads(Unsigned(spec)) ELSE Refused

sign_payload(payload, key) ==
  [scheme |-> payload.scheme, bytes |-> payload.bytes, by |-> key]

SignaturesWanted(tx) == IF tx.chain = "btc" THEN Len(tx.inputs) ELSE 1

Attached(tx, signatures) ==
  IF tx = Refused THEN Refused
  ELSE IF \/ Len(signatures) # SignaturesWanted(tx)
          \/ \E i \in DOMAIN signatures : signatures[i].scheme # Scheme(tx.chain)
  THEN Refused
  ELSE [tx |-> tx, signatures |-> signatures]

attach_signature(spec, key, signatures) ==
  IF Controls(key, spec) THEN Attached(Unsigned(spec), signatures) ELSE Refused

AttachTo(spec, key, payloads) ==
  IF payloads = Refused THEN Refused
  ELSE attach_signature(spec, key, [i \in DOMAIN payloads |-> sign_payload(payloads[i], key)])

\* The secret says the chain it derives for: a transaction of another chain is
\* refused.
sign_transaction(key, spec) ==
  IF key.chain # spec.chain THEN Refused ELSE AttachTo(spec, key, build_unsigned(spec, key))

\* A message the engine built itself is signed whole, by the same sign_payload.
sign_message(key, tx) ==
  [tx |-> tx, signatures |-> <<sign_payload(Payload(tx.chain, <<tx, 1>>), key)>>]

\* What a network checks (external): every signature is over this transaction,
\* at its place, by the key that controls the sender.
Verifies(signed) ==
  /\ Len(signed.signatures) = SignaturesWanted(signed.tx)
  /\ \A i \in DOMAIN signed.signatures :
       /\ signed.signatures[i].bytes = <<signed.tx, i>>
       /\ signed.signatures[i].scheme = Scheme(signed.tx.chain)
       /\ signed.signatures[i].by = [chain |-> signed.tx.chain, address |-> signed.tx.from]
===============================================================================
