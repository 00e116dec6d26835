---------------------------- MODULE TransferQuotes ----------------------------
(***************************************************************************)
(* What a transfer quote says: prepare_transfer resolves the network, the  *)
(* account and the asset of a request and stamps them on the quote that is *)
(* shown for approval and later executed.  An address is a pair of names:  *)
(* <<"account", who>>, or <<network, symbol>> for a token's contract.      *)
(***************************************************************************)
EXTENDS Naturals, Outcomes

CONSTANT Accounts   \* the chains the wallet has an account for

EvmNetwork == {"ethereum", "base", "arbitrum", "optimism", "polygon", "bsc"}

Asset(symbol, decimals, contract) ==
  [symbol |-> symbol, decimals |-> decimals, contract |-> contract]
Token(where, symbol, decimals) == Asset(symbol, decimals, <<where, symbol>>)

evm_asset_catalog(network) ==
  {Asset(CASE network = "polygon" -> "POL" [] network = "bsc" -> "BNB" [] OTHER -> "ETH", 18, None)}
  \cup (IF network = "bsc" THEN {Token(network, "USDT", 18), Token(network, "USDC", 18)}
        ELSE {Token(network, "USDC", 6)})
  \cup (IF network # "ethereum" THEN {}
        ELSE {Token(network, "USDT", 6), Token(network, "DAI", 18), Token(network, "WETH", 18)})

asset_catalog(chain) ==
  CASE chain = "evm"    -> evm_asset_catalog("ethereum")
    [] chain = "btc"    -> {Asset("BTC", 8, None)}
    [] chain = "solana" -> {Asset("SOL", 9, None), Token("solana", "USDC", 6)}
    [] chain = "tron"   -> {Asset("TRX", 6, None), Token("tron", "USDT", 6)}

\* Symbols are compared ignoring case.
UpperCase(symbol) == IF symbol = "usdc" THEN "USDC" ELSE symbol

find_asset_for_network(chain, network, symbol) ==
  {a \in (IF chain = "evm" THEN evm_asset_catalog(network) ELSE asset_catalog(chain)) :
     a.symbol = UpperCase(symbol)}

\* With no symbol the transfer is of the chain's (or the network's) own asset.
AssetOf(chain, network, symbol) ==
  IF symbol # None THEN find_asset_for_network(chain, network, symbol)
  ELSE {a \in (IF chain = "evm" THEN evm_asset_catalog(network) ELSE asset_catalog(chain)) :
          a.contract = None}

\* An EVM transfer that names no network is on Ethereum.
NetworkOf(chain, network) ==
  IF chain # "evm" THEN chain ELSE IF network = None THEN "ethereum" ELSE network

\* params: chain, network, symbol, to, valid (the address is one of the chain),
\* amount.  The quote's from is the address the wallet lists for the chain.
prepare_transfer(params, from) ==
  LET network == NetworkOf(params.chain, params.network)
      assets  == AssetOf(params.chain, network, params.symbol)
      asset   == CHOOSE a \in assets : TRUE
  IN  IF \/ ~params.valid
         \/ params.amount \in {NotANumber, 0}
         \/ params.chain \notin Accounts
         \/ assets = {}
      THEN Refused
      ELSE IF params.chain = "btc" /\ asset.contract # None THEN Refused
      ELSE [chain |-> params.chain, network |-> network, from |-> from, to |-> params.to,
            kind |-> IF asset.contract = None THEN "native" ELSE "token",
            token |-> asset.contract, amount |-> params.amount]
===============================================================================
