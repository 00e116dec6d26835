------------------------------- MODULE Outcomes -------------------------------
(* Values that are no number, and the largest number.                      *)
CONSTANTS Refused,     \* the outcome of an operation that returns Err
          None,        \* an absent field
          NotANumber,  \* an amount that does not parse
          MaxU64       \* the largest u64: the code's sums are checked against it
===============================================================================
