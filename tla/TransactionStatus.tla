--------------------------- MODULE TransactionStatus ---------------------------
(***************************************************************************)
(* What the wallet says of a transaction, from what a node says of it.     *)
(* The state of a transaction at a node is "absent", "pending",            *)
(* "settling" (Solana: in a block, not final), "ok" or "bad" (reverted).   *)
(***************************************************************************)

EXTENDS Outcomes

Mined == {"ok", "bad"}

\* Mutant: no receipt means no transaction.
NoReceiptNoTx(first, second) ==
  CASE first = "ok" -> "confirmed" [] first = "bad" -> "failed" [] OTHER -> "not_found"

\* EVM: no receipt is resolved by a second request for the transaction itself.
EvmTxStatus(first, second) ==
  CASE first = "ok" -> "confirmed" [] first = "bad" -> "failed"
    [] first \notin Mined -> IF second = "absent" THEN "not_found" ELSE "pending"

\* Tron: a row of info exists once mined, then the same second request.
TronTxStatus(first, second) ==
  IF first \in Mined THEN IF first = "ok" THEN "confirmed" ELSE "failed"
  ELSE IF second # "absent" THEN "pending" ELSE "not_found"

BtcTxStatus(s) == CASE s = "absent" -> "not_found" [] s = "ok" -> "confirmed" [] OTHER -> "pending"

\* Solana has no row for what is not in a block, and counts confirmations until
\* it is final.
SolanaTxStatus(s) ==
  CASE s \in {"absent", "pending"} -> "not_found" [] s = "bad" -> "failed"
    [] s = "settling" -> "pending" [] s = "ok" -> "confirmed"

Receipt(found, success) == [found |-> found, success |-> success]
Success(s) == IF s \in Mined THEN s = "ok" ELSE None

EvmTxReceipt(first, second) ==
  IF first \in Mined THEN Receipt(TRUE, Success(first)) ELSE Receipt(second # "absent", None)
BtcTxReceipt(s) == Receipt(s # "absent", IF s = "ok" THEN TRUE ELSE None)
SolanaTxReceipt(s) == IF s \in Mined THEN Receipt(TRUE, Success(s)) ELSE Receipt(FALSE, None)
TronTxReceipt(s) == IF s \in Mined THEN Receipt(TRUE, s = "ok") ELSE Receipt(FALSE, None)

\* The raw transaction: null, an unknown id or an empty object when the node has
\* none; Solana's getTransaction answers for final transactions only.
EvmLookupTx(s) == s # "absent"
BtcLookupTx(s) == s # "absent"
TronLookupTx(s) == s # "absent"
SolanaLookupTx(s) == s \in Mined

LookupTx(chain, s) ==
  CASE chain = "evm" -> EvmLookupTx(s) [] chain = "btc" -> BtcLookupTx(s)
    [] chain = "tron" -> TronLookupTx(s) [] chain = "solana" -> SolanaLookupTx(s)

\* The library asks once and reports what it finds nothing of as pending, but on
\* Bitcoin an unknown id is an HTTP 404 and so an error.
LibraryStatus(chain, s) ==
  CASE s = "bad" -> "failed" [] s \in {"ok", "settling"} -> "confirmed" [] s = "pending" -> "pending"
    [] s = "absent" -> IF chain = "btc" THEN "error" ELSE "pending"

Answer(kind, chain, first, second) ==
  CASE kind = "status" -> (CASE chain = "evm" -> EvmTxStatus(first, second)
                             [] chain = "tron" -> TronTxStatus(first, second)
                             [] chain = "btc" -> BtcTxStatus(first)
                             [] chain = "solana" -> SolanaTxStatus(first))
    [] kind = "receipt" -> (CASE chain = "evm" -> EvmTxReceipt(first, second)
                              [] chain = "tron" -> TronTxReceipt(first)
                              [] chain = "btc" -> BtcTxReceipt(first)
                              [] chain = "solana" -> SolanaTxReceipt(first))
    [] kind = "lookup" -> LookupTx(chain, first)
    [] kind = "library" -> LibraryStatus(chain, first)

\* The questions that need a second request.
AsksAgain(kind, chain, first) ==
  first \notin Mined /\ <<kind, chain>> \in {<<"status", "evm">>, <<"status", "tron">>, <<"receipt", "evm">>}
===============================================================================
