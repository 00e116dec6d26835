--------------------------- MODULE MCChainExecution ---------------------------
(***************************************************************************)
(* Two transfers, on one chain at a time, against nodes that answer,       *)
(* mistake, refuse and lose answers; and, as states of their own, the      *)
(* inputs on which the coin selection and the encodings are compared with  *)
(* their references.                                                       *)
(***************************************************************************)
EXTENDS ChainExecution, TransactionBytes

CONSTANTS c1, c2

VARIABLES part,    \* "transfers" or the kind of sample
          sample

mcvars == <<job, call, ledger, serves, repoints, blockhash, replaced, query, part, sample>>

Request(via, chain, network, symbol, amount) ==
  [via |-> via, own |-> TRUE, chain |-> chain, network |-> network, symbol |-> symbol,
   to |-> <<"account", "bob">>, valid |-> TRUE, amount |-> amount, data |-> None, fee |-> 4000]

Pairs ==
  {<<Request("engine", "evm", "base", "usdc", 5), Request("engine", "evm", "base", None, 7)>>,
   <<Request("engine", "evm", None, "USDC", 5), Request("library", "evm", "ethereum", None, 7)>>,
   <<[Request("call", "evm", "base", None, 0) EXCEPT !.data = <<"swap", 3>>],
     Request("engine", "evm", "base", "DAI", 7)>>,
   <<Request("engine", "btc", None, None, 20000), Request("engine", "btc", None, "BTC", 20000)>>,
   <<Request("engine", "btc", None, None, 60000), Request("library", "btc", None, None, 20000)>>,
   <<Request("library", "btc", None, None, 90000), [Request("engine", "btc", None, None, 20000) EXCEPT !.own = FALSE]>>,
   <<Request("engine", "solana", None, None, 5), Request("engine", "solana", None, "usdc", 5)>>,
   <<Request("library", "solana", None, None, 5), [Request("engine", "solana", None, None, 6) EXCEPT !.own = FALSE]>>,
   <<[Request("library", "solana", None, None, 5) EXCEPT !.own = FALSE],
     Request("engine", "solana", None, None, MaxU64 + 1)>>,
   <<Request("engine", "tron", None, None, 5), Request("engine", "tron", None, "USDT", 5)>>,
   <<Request("library", "tron", None, None, 5), [Request("engine", "tron", None, None, 5) EXCEPT !.own = FALSE]>>,
   <<[Request("engine", "tron", None, None, 5) EXCEPT !.valid = FALSE], Request("engine", "tron", None, None, 0)>>,
   <<Request("library", "tron", None, None, 5), Request("engine", "tron", None, None, NotANumber)>>}

MCAssignments == {[c \in {c1, c2} |-> IF c = c1 THEN p[1] ELSE p[2]] : p \in Pairs}
MCCoins == <<[id |-> 1, value |-> 30000], [id |-> 2, value |-> 52000], [id |-> 3, value |-> 24100]>>

-----------------------------------------------------------------------------
(* Samples.                                                                *)

UpTo(n, S) == UNION {[1..k -> S] : k \in 0..n}

\* Values around the fee, the dust threshold and the largest sum.
CoinSamples ==
  {[utxos |-> [i \in DOMAIN values |-> [id |-> i, value |-> values[i]]], amount |-> amount] :
     values \in UpTo(3, {600, 3199, 3200, 4366, 4367, 9000, 999000}),
     amount \in {1, 1000, 4000, 999999, MaxU64}}

\* A message is a sequence of places in this table.
Field ==
  <<[number |-> 1, kind |-> "varint", value |-> 0], [number |-> 1, kind |-> "varint", value |-> 300],
    [number |-> 1, kind |-> "bytes", value |-> <<5>>], [number |-> 2, kind |-> "bytes", value |-> <<>>],
    [number |-> 20, kind |-> "bytes", value |-> <<8, 1>>], [number |-> 3, kind |-> "other", value |-> <<>>]>>
FieldSamples == UpTo(3, DOMAIN Field)

VarintSamples == UpTo(4, {0, 3, 4, 127, 128, 131, 255})

Filled(n) == [i \in 1..n |-> 9]
RlpSamples == {[strings |-> s, numbers |-> n] :
                 s \in UpTo(2, {<<>>, <<0>>, <<127>>, <<128>>, Filled(55), Filled(56)}),
                 n \in UpTo(2, {0, 1, 127, 128, 255, 256})}

Keys == {<<1, 1>>, <<1, 2>>, <<2, 1>>}
LayoutSamples == {[signers |-> s, others |-> o, slots |-> n, key |-> k, versioned |-> v] :
                    s \in UpTo(3, Keys) \ {<<>>}, o \in UpTo(1, Keys), n \in 0..3, k \in Keys, v \in BOOLEAN}

\* Fields at zero, at the byte that is its own encoding and past 55 bytes; chain
\* ids up to the one whose v overflows.
EvmSamples ==
  {[tx |-> [nonce |-> n, gas_price |-> 1, gas_limit |-> 21000, to |-> to, value |-> v, data |-> d, chain_id |-> id],
    rs |-> rs, recovery |-> r] :
     n \in {0, 128}, to \in {None, <<1, 2>>, <<1>>}, v \in {0, 300}, d \in {<<>>, <<0>>, Filled(56)},
     id \in {1, 137, 499982, 499983}, rs \in {<<0, 0, 1, 0, 9, 9>>, <<9, 9, 9, 128, 0, 0>>}, r \in {0, 1, 3, 4}}

\* Amounts around the widths of an amount and of a word.
TokenSamples == {[to |-> to, amount |-> a] :
                   to \in {<<1, 2>>, <<0, 0>>, <<1>>},
                   a \in {0, 1, 255, 256, 65535, 65536, 16777215, 16777216, NotANumber}}

\* Memos with a length of one byte and of two.
PaymentSamples ==
  {[fee_payer |-> f, owner |-> o, src_ata |-> <<5, 1>>, dst_ata |-> d, mint |-> <<6, 1>>, token |-> <<7, 1>>,
    budget |-> <<7, 2>>, memos |-> <<7, 3>>, blockhash |-> <<8, 8>>, amount |-> a, memo |-> memo] :
     f \in {<<1, 1>>, <<1, 2>>}, o \in {<<2, 1>>, <<2, 2>>}, d \in {<<5, 1>>, <<5, 2>>},
     a \in {0, 1, 256, 70000}, memo \in {<<>>, <<104>>, Filled(127), Filled(128)}}

\* A sample is a state of its own, in which the transfers have not begun.
Samples ==
  \/ part = "coins" /\ sample \in CoinSamples
  \/ part = "fields" /\ sample \in FieldSamples
  \/ part = "varints" /\ sample \in VarintSamples
  \/ part = "rlp" /\ sample \in RlpSamples
  \/ part = "layouts" /\ sample \in LayoutSamples
  \/ part = "evm" /\ sample \in EvmSamples
  \/ part = "tokens" /\ sample \in TokenSamples
  \/ part = "payments" /\ sample \in PaymentSamples

MCInit ==
  /\ Init
  /\ \/ part = "transfers" /\ sample = None
     \/ /\ job = CHOOSE j \in MCAssignments : TRUE
        /\ \A n \in DOMAIN serves : serves[n] = n
        /\ Samples
MCNext == part = "transfers" /\ Next /\ UNCHANGED <<part, sample>>
MCSpec == MCInit /\ [][MCNext]_mcvars

\* The engine's coin plan and the signer's own selection agree, and no payable
\* amount is refused (plan_spend, select_coins, Transfer::build).
PlanHolds == part = "coins" =>
               PlanIsBuilt(sample.utxos, sample.amount) /\ PlanIsComplete(sample.utxos, sample.amount)

\* The protobuf reader that verify_contract rests on reads what was written,
\* refuses what is cut short, repeated or too wide (parse_fields, take_varint).
FieldsHold == /\ part = "fields" => FieldsRead([i \in DOMAIN sample |-> Field[sample[i]]])
              /\ part = "varints" => VarintFits(sample)

\* Ethereum reads back every string and number the RLP encoder wrote, at the
\* lengths where the form of the encoding changes, and every field of a
\* transaction, bound to its chain (encode_bytes, encode_uint, signing_payload,
\* attach_signature, checked_v); the engine, the library and Tron write a token
\* transfer alike (encode_erc20_transfer, encode_trc20_transfer_param); a Solana
\* transaction somebody else built is signed at the wallet's own place and
\* otherwise left alone, and the wallet's own transfers and x402 payments have
\* that layout and do what was asked and nothing else (parse_layout,
\* sign_and_broadcast_versioned, NativeTransfer::message, build_solana_payment).
EncodingsHold ==
  /\ part = "rlp" => RlpReads(sample.strings, sample.numbers)
  /\ part = "layouts" =>
       /\ SignsOwnSlot(sample.signers, sample.others, sample.slots, sample.key, sample.versioned)
       /\ OwnTransferSigned(sample.key, <<3, 3>>, <<4, 4>>, <<0, 0>>, <<5>>, <<7, 7>>)
  /\ part = "evm" => EvmReads(sample.tx, sample.rs, sample.recovery)
  /\ part = "tokens" => TokenCallsAgree(sample.to, sample.amount)
  /\ part = "payments" =>
       /\ TransfersAgree(sample.owner, sample.dst_ata, sample.amount, sample.blockhash)
       /\ PaymentReads(sample)
===============================================================================
