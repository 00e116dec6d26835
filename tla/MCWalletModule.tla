--------------------------- MODULE MCWalletModule ---------------------------
(* Instances of WalletModule for TLC.                                      *)
EXTENDS WalletModule
=============================================================================
