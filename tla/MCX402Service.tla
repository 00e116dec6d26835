--------------------------- MODULE MCX402Service ---------------------------
(* X402Service on small instances.                                         *)
EXTENDS X402Service, TLC

\* The specification names no process, and tells payments apart only by Timed
\* and Legacy.
Symmetry == Permutations(Process) \cup Permutations(Payment \ Timed)
=============================================================================
