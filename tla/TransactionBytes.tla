--------------------------- MODULE TransactionBytes ---------------------------
(***************************************************************************)
(* Whole transactions as bytes: the library's Ethereum transaction and its *)
(* Solana transfer, the call of a token's transfer as three places write   *)
(* it, and the Solana payment of the x402 client.                          *)
(***************************************************************************)
EXTENDS WireEncoding

CONSTANTS WordLen,     \* bytes of an ABI word (32)
          AddressLen,  \* bytes of an Ethereum address (20)
          AmountLen    \* bytes of the wallet's amounts (16, a u128)

Zeros(n) == [i \in 1..n |-> 0]
to_be_bytes(n, width) == Zeros(width - Len(BigEndian[n])) \o BigEndian[n]
to_le_bytes(n, width) == Reverse(to_be_bytes(n, width))

-----------------------------------------------------------------------------
(* Ethereum: a legacy transaction bound to one chain.                      *)

\* No recipient means contract creation, an empty field.
to_bytes(to) == IF to = None THEN <<>> ELSE IF Len(to) # AddressLen THEN Refused ELSE to

base_items(tx) ==
  <<encode_uint(tx.nonce), encode_uint(tx.gas_price), encode_uint(tx.gas_limit),
    rlp_encode_bytes(to_bytes(tx.to)), encode_uint(tx.value), rlp_encode_bytes(tx.data)>>

signing_payload(tx) ==
  IF to_bytes(tx.to) = Refused THEN Refused
  ELSE encode_list(base_items(tx) \o <<encode_uint(tx.chain_id), encode_uint(0), encode_uint(0)>>)

\* Each sum is checked against the width of its type.
checked_v(recovery, chain_id) ==
  LET v == recovery + 2 * chain_id + 35
  IN  IF v > MaxU64 THEN Refused ELSE v

\* rs: the two halves of the signature, each padded to a word.
EvmAttach(tx, rs, recovery) ==
  LET v == checked_v(recovery, tx.chain_id)
  IN  IF recovery > 3 \/ v = Refused \/ to_bytes(tx.to) = Refused THEN Refused
      ELSE encode_list(base_items(tx) \o
             <<encode_uint(v), encode_uint_bytes(SubSeq(rs, 1, WordLen)),
               encode_uint_bytes(From(rs, WordLen + 1))>>)

Selector == <<169, 5, 156, 187>>

\* The library's token call: the amount is an AmountLen-byte number.
encode_erc20_transfer(to, amount) ==
  IF to_bytes(to) = Refused THEN Refused
  ELSE Selector \o Zeros(WordLen - AddressLen) \o to
         \o Zeros(WordLen - AmountLen) \o to_be_bytes(amount, AmountLen)

\* One digit of the long multiplication: the word times ten plus the digit, with
\* what is carried out of its top byte.
TimesTenPlus(word, digit) ==
  FoldRight(LAMBDA byte, low : [bytes |-> <<(byte * 10 + low.carry) % 256>> \o low.bytes,
                                carry |-> (byte * 10 + low.carry) \div 256],
            word, [bytes |-> <<>>, carry |-> digit])

\* Decimal digits as a word, refused when they do not fit one.
u256_from_decimal(digits) ==
  IF digits = NotANumber \/ digits = <<>> THEN Refused
  ELSE FoldLeft(LAMBDA word, digit :
                  LET next == TimesTenPlus(word, digit)
                  IN  IF word = Refused THEN Refused ELSE IF next.carry # 0 THEN Refused ELSE next.bytes,
                Zeros(WordLen), digits)

left_pad_address(address) == Zeros(WordLen - AddressLen) \o address

\* The engine's token call: the amount is decimal text of any size.
encode_erc20_decimal(to, digits) ==
  IF to_bytes(to) = Refused \/ u256_from_decimal(digits) = Refused THEN Refused
  ELSE Selector \o left_pad_address(to) \o u256_from_decimal(digits)

pad_left_32(bytes) ==
  IF Len(bytes) <= WordLen THEN Zeros(WordLen - Len(bytes)) \o bytes
  ELSE From(bytes, Len(bytes) - WordLen + 1)

\* Tron's: no selector, and the address without its leading network byte.
encode_trc20_transfer_param(to, amount) ==
  IF Len(to) # AddressLen + 1 THEN Refused
  ELSE Zeros(WordLen - AddressLen) \o Tail(to) \o pad_left_32(to_be_bytes(amount, AmountLen))

-----------------------------------------------------------------------------
(* Solana: the library's transfer, and the x402 payment.                   *)

\* The library writes the message in place, without the engine's encoder.
NativeTransferMessage(from, to, program, lamports, blockhash) ==
  <<1, 0, 1>> \o Groups[3] \o from \o to \o program \o blockhash
    \o Groups[1] \o <<2>> \o Groups[2] \o <<0, 1>>
    \o Groups[12] \o to_le_bytes(2, 4) \o to_le_bytes(lamports, 8)

build_set_compute_unit_limit(program, units) ==
  [program |-> program, accounts |-> <<>>, data |-> <<2>> \o to_le_bytes(units, 4)]

build_set_compute_unit_price(program, micro_lamports) ==
  [program |-> program, accounts |-> <<>>, data |-> <<3>> \o to_le_bytes(micro_lamports, 8)]

build_transfer_checked(program, src, mint, dst, authority, amount, decimals) ==
  [program |-> program, accounts |-> <<src, mint, dst, authority>>,
   data |-> <<12>> \o to_le_bytes(amount, 8) \o <<decimals>>]

build_memo(program, memo) == [program |-> program, accounts |-> <<>>, data |-> memo]

encode_instruction(ins) ==
  <<ins.program>> \o Groups[Len(ins.accounts)] \o ins.accounts \o Groups[Len(ins.data)] \o ins.data

encode_legacy_message(header, keys, blockhash, instructions) ==
  header \o Groups[Len(keys)] \o FlattenSeq(keys) \o blockhash \o Groups[Len(instructions)]
    \o FlattenSeq([i \in DOMAIN instructions |-> encode_instruction(instructions[i])])

\* The accounts of a payment in the order its indices and header rely on.
PaymentMessage(pay) ==
  encode_legacy_message(<<2, 0, 4>>,
    <<pay.fee_payer, pay.owner, pay.src_ata, pay.dst_ata, pay.mint, pay.token, pay.budget, pay.memos>>,
    pay.blockhash,
    <<build_set_compute_unit_limit(6, 50000), build_set_compute_unit_price(6, 1000),
      build_transfer_checked(5, 2, 4, 3, 1, pay.amount, 6), build_memo(7, pay.memo)>>)

\* Two slots: the fee payer's is left for the facilitator to sign.
PaymentWire(message, signature) == Groups[2] \o Zeros(SignatureLen) \o signature \o message

-----------------------------------------------------------------------------
(* References: what the networks read.                                     *)

\* named: from the account indices, of which there are count, to the end.
ReadNamed(program, count, named, keys) ==
  LET size == Ungrouped(From(named, count + 1))
      data == From(named, count + size.used + 1)
  IN  [does |-> [program  |-> keys[program + 1],
                 accounts |-> [i \in 1..count |-> keys[named[i] + 1]],
                 data     |-> SubSeq(data, 1, size.value)],
       rest |-> From(data, size.value + 1)]

ReadInstruction(bytes, keys) ==
  LET count == Ungrouped(From(bytes, 2))
  IN  ReadNamed(bytes[1], count.value, From(bytes, 2 + count.used), keys)

ReadInstructions(bytes, keys) ==
  LET number == Ungrouped(bytes)
  IN  FoldLeft(LAMBDA st, i : LET next == ReadInstruction(st.rest, keys)
                              IN  [rest |-> next.rest, does |-> Append(st.does, next.does)],
               [rest |-> From(bytes, number.used + 1), does |-> <<>>],
               [i \in 1..number.value |-> i])

ReadBody(header, count, body, keys) ==
  LET read == ReadInstructions(From(body, (count + 1) * KeyLen + 1), keys)
  IN  [signers |-> {keys[i] : i \in 1..header[1]},
       fixed   |-> {keys[i] : i \in (count - header[3] + 1)..count},
       does    |-> read.does, rest |-> read.rest]

\* Who must sign a message, which accounts it may not write and what it does.
ReadMessage(message) ==
  LET count == Ungrouped(From(message, 4))
      body  == From(message, 4 + count.used)
  IN  ReadBody(SubSeq(message, 1, 3), count.value, body,
               [i \in 1..count.value |-> SubSeq(body, (i - 1) * KeyLen + 1, i * KeyLen)])

\* Ethereum reads the fields the transaction was made of, in the payload that
\* is signed and in what is sent; the payload names the chain, and so does the v
\* a signer gives (its recovery id is 0 or 1); and a transaction without its
\* checks is not sent.
EvmReads(tx, rs, recovery) ==
  LET fields  == <<BigEndian[tx.nonce], BigEndian[tx.gas_price], BigEndian[tx.gas_limit],
                   to_bytes(tx.to), BigEndian[tx.value], tx.data>>
      payload == signing_payload(tx)
      signed  == EvmAttach(tx, rs, recovery)
      Items(bytes) == RlpItems[RlpItem(bytes).holds]
      Number(bytes) == FoldLeft(LAMBDA n, b : 256 * n + b, 0, bytes)
  IN  IF to_bytes(tx.to) = Refused THEN payload = Refused /\ signed = Refused
      ELSE /\ Items(payload) = fields \o <<BigEndian[tx.chain_id], <<>>, <<>>>>
           /\ signed # Refused =>
                /\ SubSeq(Items(signed), 1, 6) = fields
                /\ recovery <= 1 => (Number(Items(signed)[7]) - 35) \div 2 = tx.chain_id
                /\ pad_left_32(Items(signed)[8]) \o pad_left_32(Items(signed)[9]) = rs
           /\ signed = Refused <=> recovery > 3 \/ recovery + 2 * tx.chain_id + 35 > MaxU64

Digits[n \in Nat] == IF n < 10 THEN <<n>> ELSE Append(Digits[n \div 10], n % 10)

\* The three ways a token transfer is written say the same to the contract: the
\* engine's, from decimal text with or without leading zeros, the library's and
\* Tron's agree wherever the narrower amounts reach, and an amount that does not
\* fit a word is refused, never cut.
TokenCallsAgree(to, amount) ==
  LET call == encode_erc20_decimal(to, Digits[amount])
  IN  IF amount = NotANumber THEN encode_erc20_decimal(to, NotANumber) = Refused
      ELSE /\ call = Refused <=> Len(to) # AddressLen \/ amount >= 256 ^ WordLen
           /\ call # Refused =>
                /\ SubSeq(call, 5 + WordLen - AddressLen, 4 + WordLen) = to
                /\ From(call, 5 + WordLen) = to_be_bytes(amount, WordLen)
           /\ encode_erc20_decimal(to, <<0, 0>> \o Digits[amount]) = call
           /\ amount < 256 ^ AmountLen =>
                /\ encode_erc20_transfer(to, amount) = call
                /\ call # Refused => encode_trc20_transfer_param(<<65>> \o to, amount) = From(call, 5)

OneTransfer(reads, from, to, lamports) ==
  /\ reads.signers = {from} /\ reads.fixed = {Zeros(KeyLen)} /\ reads.rest = <<>>
  /\ reads.does = <<[program |-> Zeros(KeyLen), accounts |-> <<from, to>>,
                     data |-> <<2, 0, 0, 0>> \o to_le_bytes(lamports, 8)]>>

\* The library's encoder of a SOL transfer and the engine's give the same bytes,
\* and both read as one transfer from the only signer to the recipient.
TransfersAgree(from, to, lamports, hash) ==
  LET message == NativeTransferMessage(from, to, Zeros(KeyLen), lamports, hash)
  IN  /\ message = build_native_transfer_message(from, to, Zeros(KeyLen), to_le_bytes(lamports, 8), hash)
      /\ OneTransfer(ReadMessage(message), from, to, lamports)

OnePayment(reads, pay) ==
  /\ reads.signers = {pay.fee_payer, pay.owner} /\ reads.rest = <<>>
  /\ reads.fixed = {pay.mint, pay.token, pay.budget, pay.memos}
  /\ SelectSeq(reads.does, LAMBDA i : i.accounts # <<>>) =
       <<[program |-> pay.token, accounts |-> <<pay.src_ata, pay.mint, pay.dst_ata, pay.owner>>,
          data |-> <<12>> \o to_le_bytes(pay.amount, 8) \o <<6>>]>>
  /\ \E i \in DOMAIN reads.does : reads.does[i].program = pay.memos /\ reads.does[i].data = pay.memo

\* A payment moves the amount once, from the payer's token account to the
\* payee's on the payer's authority, and names the fee payer, who signs later, in
\* no instruction; the payer's signature stands where a network looks for it.
PaymentReads(pay) ==
  LET SignedInPlace(message) ==
        PaymentWire(message, solana_sign(message))
          = FillOwnSlot(PaymentWire(message, Zeros(SignatureLen)), pay.owner)
  IN  OnePayment(ReadMessage(PaymentMessage(pay)), pay) /\ SignedInPlace(PaymentMessage(pay))
===============================================================================
