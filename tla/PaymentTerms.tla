---------------------------- MODULE PaymentTerms ----------------------------
(***************************************************************************)
(* What an x402 challenge asks for and which of its options is paid: the   *)
(* operators of protocol/select.rs, protocol/headers.rs, wire/assets.rs    *)
(* and the two payment builders of crypto/.                                *)
(*                                                                         *)
(* An option (PaymentRequirements) is a record                             *)
(*   scheme, network, asset, amount, payTo, feePayer, chainId              *)
(* where network and asset are names, amount is the number the text denotes*)
(* or NotANumber, payTo and feePayer say whether the address is valid      *)
(* (TRUE), absent or malformed (FALSE), and chainId whether what follows   *)
(* the prefix of the network is a number.                                  *)
(***************************************************************************)
EXTENDS Naturals, Sequences, SequencesExt

CONSTANTS MaxU64,      \* u64::MAX
          NotANumber,  \* an amount that is no decimal number
          Absent,      \* a header that is not there
          Malformed    \* a header that is no base64, no JSON or no challenge

\* The networks a challenge may name, by their CAIP-2 prefix.
SolanaNetworks == {"solana:main", "solana:unknown"}
EvmNetworks    == {"eip155:base", "eip155:ethereum", "eip155:unknown"}

chain_of(network) ==
  IF network \in SolanaNetworks THEN "Solana"
  ELSE IF network \in EvmNetworks THEN "Evm"
  ELSE "none"

\* SUPPORTED_USDC: each payable network with its USDC.
SupportedUsdc ==
  [n \in {"solana:main", "eip155:base", "eip155:ethereum"} |->
     CASE n = "solana:main" -> "mint" [] n = "eip155:base" -> "0xba5e" [] OTHER -> "0xe78"]

\* Spellings of an asset that differ in case only.
LowerCase(asset) ==
  CASE asset = "MINT" -> "mint" [] asset = "0xBA5E" -> "0xba5e" [] OTHER -> asset

\* EVM contracts are compared without regard to case, Solana mints exactly.
check_usdc(network, asset) ==
  IF network \notin DOMAIN SupportedUsdc THEN "UnknownNetwork"
  ELSE LET usdc == SupportedUsdc[network]
           same == IF chain_of(network) = "Evm" THEN LowerCase(asset) = usdc
                                                ELSE asset = usdc
       IN  IF same THEN "Allowed" ELSE "WrongAsset"

ensure_payable(option) == check_usdc(option.network, option.asset) = "Allowed"

\* Mutant: a later EVM option replaces an earlier one.
NextOptionLast(choice, i, option) ==
  IF choice.chain = "Solana" \/ chain_of(option.network) = "none" \/ option.scheme # "exact"
     \/ ~ensure_payable(option)
  THEN choice
  ELSE [index |-> i, chain |-> chain_of(option.network)]

\* One turn of the loop of select_requirement: the first payable Solana option
\* ends it, the first payable EVM option is remembered.
NextOption(choice, i, option) ==
  LET chain == chain_of(option.network) IN
  IF choice.chain = "Solana" \/ chain = "none" \/ option.scheme # "exact"
     \/ ~ensure_payable(option)
  THEN choice
  ELSE IF chain = "Solana" \/ choice.index = 0 THEN [index |-> i, chain |-> chain]
  ELSE choice

\* The option to pay, index 0 when there is none.
select_requirement(accepts) ==
  FoldLeft(LAMBDA choice, i : NextOption(choice, i, accepts[i]),
           [index |-> 0, chain |-> "none"], [i \in 1..Len(accepts) |-> i])

\* What select_requirement says it selects: "the first payable Solana exact
\* option, else the first payable EVM one" (select.rs:35).
FirstPayable(accepts, chain) ==
  {i \in 1..Len(accepts) :
     LET Pays(j) == /\ accepts[j].scheme = "exact" /\ ensure_payable(accepts[j])
                    /\ chain_of(accepts[j].network) = chain
     IN  Pays(i) /\ \A j \in 1..(i - 1) : ~Pays(j)}

\* Header values are Absent, Malformed or a challenge, the sequence of its options.
\* The v2 header, read even if it is malformed and a v1 header is there too.
parse_402_headers(v2, v1) == IF v2 # Absent THEN v2 ELSE v1

parse_amount(option) == option.amount # NotANumber /\ option.amount <= MaxU64

\* The terms a proof binds its signer to.
Terms(option) ==
  [network |-> option.network, asset |-> option.asset, amount |-> option.amount]

\* evm_payment_authorization: every part of the typed data must be readable.
EvmBuilds(option) ==
  option.chainId /\ option.amount # NotANumber /\ option.payTo

\* build_solana_payment: the fee payer, who signs first, must be named.
SolanaBuilds(option) == parse_amount(option) /\ option.feePayer /\ option.payTo

build_with_rail_metadata(option) ==
  IF chain_of(option.network) = "Solana" THEN SolanaBuilds(option) ELSE EvmBuilds(option)
=============================================================================
