------------------------- MODULE MCQuoteExecution --------------------------
(* Instances of QuoteExecution for TLC.                                    *)
EXTENDS QuoteExecution, TLC

Symmetry == Permutations(Call) \cup Permutations(Owner)
            \cup Permutations(Fixed) \cup Permutations(Quote \ Fixed)
=============================================================================
