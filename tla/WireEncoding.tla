----------------------------- MODULE WireEncoding -----------------------------
(***************************************************************************)
(* The hand-written encodings of the chains: protobuf (what a Tron node    *)
(* returns), Solana's shortvec and transaction layout, and Ethereum's RLP. *)
(* A byte is a number, bytes a sequence of them.                           *)
(***************************************************************************)
EXTENDS Integers, SequencesExt, Outcomes

CONSTANTS VarintGroups,  \* groups of 7 bits in a varint: 10 for a u64
          VarintTop,     \* the most its last group may hold: 1 for a u64
          SignatureLen,  \* bytes of a signature (64)
          KeyLen         \* bytes of an account key (32)

Bytes == Seq(0..255)
From(bytes, i) == SubSeq(bytes, i, Len(bytes))

\* Seven bits a byte, least significant first; the top bit says more follow.
Groups[n \in Nat] ==
  IF n < 128 THEN <<n>> ELSE <<128 + (n % 128)>> \o Groups[n \div 128]

\* The value of the groups up to the first byte without the top bit.
Ungrouped(bytes) ==
  LET stops == {i \in 1..Len(bytes) : bytes[i] < 128}
      used  == Min(stops)
  IN  IF stops = {} THEN Refused
      ELSE [value |-> FoldRight(LAMBDA b, high : (b % 128) + 128 * high, SubSeq(bytes, 1, used), 0),
            used |-> used]

-----------------------------------------------------------------------------
(* Protobuf.                                                               *)

encode_varint(n) == Groups[n]

\* A varint of more groups than its type has, or with a last group too large
\* for it, is refused rather than wrapped.
take_varint(bytes) ==
  LET read == Ungrouped(bytes)
  IN  IF \/ read = Refused
         \/ read.used > VarintGroups
         \/ read.used = VarintGroups /\ bytes[read.used] > VarintTop
      THEN Refused
      ELSE [value |-> read.value, rest |-> From(bytes, read.used + 1)]

take_exact(bytes, n) ==
  IF Len(bytes) < n THEN Refused
  ELSE [value |-> SubSeq(bytes, 1, n), rest |-> From(bytes, n + 1)]

\* What follows a field's key, by wire type: a varint, 8 bytes, a length and
\* that many bytes, or 4 bytes.  The fixed-width values are skipped.
FieldValue(wire, bytes) ==
  LET length == take_varint(bytes)
  IN  CASE wire = 0 -> take_varint(bytes)
        [] wire = 1 -> take_exact(bytes, 8)
        [] wire = 2 -> IF length = Refused THEN Refused ELSE take_exact(length.rest, length.value)
        [] wire = 5 -> take_exact(bytes, 4)
        [] OTHER    -> Refused

FieldKind(wire) == CASE wire = 0 -> "varint" [] wire = 2 -> "bytes" [] OTHER -> "other"

parse_fields[bytes \in Bytes] ==
  LET key   == take_varint(bytes)
      field == FieldValue(key.value % 8, key.rest)
      rest  == parse_fields[field.rest]
      kind  == FieldKind(key.value % 8)
  IN  IF bytes = <<>> THEN <<>>
      ELSE IF key = Refused \/ key.value < 8 THEN Refused
      ELSE IF field = Refused THEN Refused
      ELSE IF rest = Refused THEN Refused
      ELSE <<[number |-> key.value \div 8, kind |-> kind,
              value |-> IF kind = "other" THEN <<>> ELSE field.value]>> \o rest

\* Mutant: of a repeated field the last one counts.
single_last(fields, number) ==
  LET matches == SelectSeq(fields, LAMBDA f : f.number = number)
  IN  IF matches = <<>> THEN Refused ELSE matches[Len(matches)]

\* A singular field that is missing or repeated is refused.
single(fields, number) ==
  LET matches == SelectSeq(fields, LAMBDA f : f.number = number)
  IN  IF Len(matches) # 1 THEN Refused ELSE matches[1]

one_bytes(fields, number) ==
  LET field == single(fields, number)
  IN  IF field = Refused THEN Refused ELSE IF field.kind # "bytes" THEN Refused ELSE field.value

optional_varint(fields, number, default) ==
  LET field == single(fields, number)
  IN  IF \A i \in DOMAIN fields : fields[i].number # number THEN default
      ELSE IF field = Refused THEN Refused
      ELSE IF field.kind # "varint" THEN Refused ELSE field.value

one_varint(fields, number) == optional_varint(fields, number, Refused)

-----------------------------------------------------------------------------
(* Solana.                                                                 *)

encode_shortvec(n) == Groups[n]

decode_shortvec(bytes) ==
  LET read == Ungrouped(bytes)
  IN  IF read = Refused THEN Refused
      ELSE IF read.used > 3 \/ read.value > 65535 THEN Refused ELSE read

shortvec_len(n) == encode_shortvec(Min({n, 65535}))

encode_compiled_instruction(ins) ==
  <<ins.program>> \o shortvec_len(Len(ins.accounts)) \o ins.accounts
    \o shortvec_len(Len(ins.data)) \o ins.data

\* keys and blockhash: sequences of KeyLen bytes.
encode_message(header, keys, blockhash, instructions) ==
  header \o shortvec_len(Len(keys)) \o FlattenSeq(keys) \o blockhash
    \o shortvec_len(Len(instructions))
    \o FlattenSeq([i \in DOMAIN instructions |-> encode_compiled_instruction(instructions[i])])

\* The system program's transfer: accounts from, to and the program, which is
\* the one read-only account.
build_native_transfer_message(from, to, program, lamports, blockhash) ==
  encode_message(<<1, 0, 1>>, <<from, to, program>>, blockhash,
                 <<[program |-> 2, accounts |-> <<0, 1>>, data |-> <<2, 0, 0, 0>> \o lamports]>>)

\* The token program's transfer between the two associated token accounts.
build_spl_transfer_message(owner, source, target, program, amount, blockhash) ==
  encode_message(<<1, 0, 1>>, <<owner, source, target, program>>, blockhash,
                 <<[program |-> 3, accounts |-> <<1, 2, 0>>, data |-> <<3>> \o amount]>>)

SolanaAttach(signature, message) == encode_shortvec(1) \o signature \o message

\* The keys of a message that must sign, given its header's place and its count
\* of accounts; offsets count the bytes before.
SignerKeys(message, header, accounts) ==
  LET required == message[header + 1]
      keys     == header + 3 + accounts.used
      signers  == Min({required, accounts.value})
  IN  IF required = 0 \/ accounts = Refused THEN Refused
      ELSE IF keys + signers * KeyLen > Len(message) THEN Refused
      ELSE [start |-> keys, number |-> signers]

\* A versioned message has one byte before its header.
parse_message(message) ==
  LET header == IF message[1] >= 128 THEN 1 ELSE 0
  IN  IF Len(message) < header + 3 THEN Refused
      ELSE SignerKeys(message, header, decode_shortvec(From(message, header + 4)))

Layout(wire, count, start, keys) ==
  IF count = Refused THEN Refused
  ELSE IF start >= Len(wire) THEN Refused
  ELSE IF keys = Refused THEN Refused
  ELSE [sigs_start |-> count.used, num_signatures |-> count.value, message_start |-> start,
        keys_start |-> keys.start, signer_keys |-> keys.number]

\* Where a built transaction keeps its signature slots, its message and the
\* keys that must sign.
parse_layout(wire) ==
  LET count == decode_shortvec(wire)
      start == count.used + count.value * SignatureLen
  IN  Layout(wire, count, start, parse_message(From(wire, start + 1)))

\* Mutant: the fee payer's slot, the first one, whoever the wallet is.
FirstSlot(layout, message, key) == 0

\* The place of the wallet's key among those that must sign.
OwnSlot(layout, message, key) ==
  LET KeyAt(i) == SubSeq(message, layout.keys_start + i * KeyLen + 1,
                                  layout.keys_start + (i + 1) * KeyLen)
      ours == {i \in 0..(layout.signer_keys - 1) : KeyAt(i) = key}
  IN  IF ours = {} THEN Refused ELSE Min(ours)

Fill(wire, start, signature) ==
  [i \in DOMAIN wire |-> IF i \in (start + 1)..(start + SignatureLen) THEN signature[i - start] ELSE wire[i]]

\* An ed25519 signature: bytes that depend on the message's length and its last
\* bytes, none of them 0.
solana_sign(message) ==
  LET last(j) == message[Len(message) - (j % Len(message))]
  IN  [j \in 1..SignatureLen |-> 1 + ((Len(message) + last(j - 1)) % 255)]

FillSlot(wire, layout, message, place) ==
  IF layout = Refused THEN Refused
  ELSE IF place = Refused THEN Refused
  ELSE IF place >= layout.num_signatures THEN Refused
  ELSE Fill(wire, layout.sigs_start + place * SignatureLen, solana_sign(message))

\* The wallet signs a transaction somebody else built: the whole message, into
\* its own slot.
FillOwnSlot(wire, key) ==
  LET layout  == parse_layout(wire)
      message == From(wire, layout.message_start + 1)
  IN  FillSlot(wire, layout, message, OwnSlot(layout, message, key))

-----------------------------------------------------------------------------
(* RLP.                                                                    *)

\* The big-endian bytes of n without leading zeros; none for zero.
BigEndian[n \in Nat] == IF n = 0 THEN <<>> ELSE Append(BigEndian[n \div 256], n % 256)

encode_length(len, offset) ==
  IF len <= 55 THEN <<offset + len>>
  ELSE <<offset + 55 + Len(BigEndian[len])>> \o BigEndian[len]

rlp_encode_bytes(bytes) ==
  IF Len(bytes) = 1 /\ bytes[1] < 128 THEN bytes
  ELSE encode_length(Len(bytes), 128) \o bytes

encode_uint(n) == rlp_encode_bytes(BigEndian[n])

encode_uint_bytes(bytes) ==
  LET kept == {i \in DOMAIN bytes : bytes[i] # 0}
  IN  rlp_encode_bytes(IF kept = {} THEN <<>> ELSE From(bytes, Min(kept)))

encode_list(items) ==
  encode_length(Len(FlattenSeq(items)), 192) \o FlattenSeq(items)

-----------------------------------------------------------------------------
(* References: how the networks read what the wallet writes.               *)

\* A protobuf field as a node writes it.
Written(field) ==
  IF field.kind = "varint" THEN encode_varint(field.number * 8) \o encode_varint(field.value)
  ELSE IF field.kind = "bytes"
  THEN encode_varint(field.number * 8 + 2) \o encode_varint(Len(field.value)) \o field.value
  ELSE encode_varint(field.number * 8 + 5) \o <<0, 0, 0, 0>>

\* A message reads as the fields it was written from, however they follow one
\* another; cut short it is refused; and a field that is there twice is no
\* answer to what the field is.
FieldsRead(fields) ==
  LET written == FlattenSeq([i \in DOMAIN fields |-> Written(fields[i])])
      whole(k) == \E j \in 0..Len(fields) :
                    k = Len(FlattenSeq([i \in 1..j |-> Written(fields[i])]))
  IN  /\ parse_fields[written] = fields
      /\ \A k \in 0..Len(written) : ~whole(k) => parse_fields[SubSeq(written, 1, k)] = Refused
      /\ \A i, j \in DOMAIN fields :
           i # j /\ fields[i].number = fields[j].number =>
             /\ one_bytes(fields, fields[i].number) = Refused
             /\ one_varint(fields, fields[i].number) = Refused
      /\ \A i \in DOMAIN fields : fields[i].kind = "bytes" =>
           one_bytes(fields, fields[i].number) \in {fields[i].value, Refused}

\* Whatever the bytes, a varint that is read fits its type.
VarintFits(bytes) ==
  LET read == take_varint(bytes)
  IN  read # Refused => /\ read.value < 128 ^ (VarintGroups - 1) * (VarintTop + 1)
                        /\ Len(read.rest) < Len(bytes)

\* Ethereum's reading of one item at the head of bytes: what it holds and what
\* follows it.  A list (from 192) and a string (from 128) are told apart.
RlpItem(bytes) ==
  LET head  == bytes[1]
      base  == IF head >= 192 THEN 192 ELSE 128
      long  == head - base > 55
      width == IF long THEN head - base - 55 ELSE 0
      len   == IF long THEN FoldLeft(LAMBDA n, b : 256 * n + b, 0, SubSeq(bytes, 2, 1 + width))
               ELSE head - base
  IN  IF head < 128 THEN [list |-> FALSE, holds |-> <<head>>, rest |-> From(bytes, 2)]
      ELSE [list |-> base = 192, holds |-> SubSeq(bytes, 2 + width, 1 + width + len),
            rest |-> From(bytes, 2 + width + len)]

RlpItems[bytes \in Bytes] ==
  IF bytes = <<>> THEN <<>> ELSE <<RlpItem(bytes).holds>> \o RlpItems[RlpItem(bytes).rest]

\* A list of strings and numbers reads as exactly those, numbers without
\* leading zeros, whether they were given as a number or as padded bytes.
RlpReads(strings, numbers) ==
  LET items == [i \in DOMAIN strings |-> rlp_encode_bytes(strings[i])]
               \o [i \in DOMAIN numbers |-> encode_uint(numbers[i])]
               \o [i \in DOMAIN numbers |-> encode_uint_bytes(<<0, 0>> \o BigEndian[numbers[i]])]
      amounts == [i \in DOMAIN numbers |-> BigEndian[numbers[i]]]
      item    == RlpItem(encode_list(items))
  IN  /\ item.list /\ item.rest = <<>>
      /\ RlpItems[item.holds] = strings \o amounts \o amounts

\* A transaction somebody else built keeps its message and every other signer's
\* slot when the wallet signs it; the wallet's signature is over that message
\* and stands at its key's place among the signers.
HasSigned(signed, message, signers, slots, key) ==
  LET place   == CHOOSE i \in DOMAIN signers : signers[i] = key
      Slot(i) == SubSeq(signed, 2 + (i - 1) * SignatureLen, 1 + i * SignatureLen)
  IN  IF key \notin Range(signers) THEN signed = Refused
      ELSE IF place > slots THEN signed = Refused
      ELSE /\ From(signed, 2 + slots * SignatureLen) = message
           /\ \A i \in 1..slots :
                Slot(i) = IF i = place THEN solana_sign(message) ELSE [j \in 1..SignatureLen |-> 0]

SignsOwnSlot(signers, others, slots, key, versioned) ==
  LET header  == <<Len(signers), 0, 0>>
      prefix  == IF versioned THEN <<128>> ELSE <<>>
      hash    == [i \in 1..KeyLen |-> 7]
      message == prefix \o encode_message(header, signers \o others, hash, <<>>)
      empty   == FlattenSeq([i \in 1..slots |-> [j \in 1..SignatureLen |-> 0]])
  IN  HasSigned(FillOwnSlot(encode_shortvec(slots) \o empty \o message, key),
                message, signers, slots, key)

\* The wallet's own transfers are transactions of that layout: attaching the
\* signature directly and filling the signer's slot give the same bytes.
OwnTransferSigned(from, to, token, program, amount, hash) ==
  LET Same(message) ==
        FillOwnSlot(SolanaAttach([j \in 1..SignatureLen |-> 0], message), from)
          = SolanaAttach(solana_sign(message), message)
  IN  /\ Same(build_native_transfer_message(from, to, program, amount, hash))
      /\ Same(build_spl_transfer_message(from, token, to, program, amount, hash))
===============================================================================
