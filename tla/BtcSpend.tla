------------------------------- MODULE BtcSpend -------------------------------
(***************************************************************************)
(* The coins of a Bitcoin transfer.  They are chosen twice: the engine     *)
(* plans a spend over the address's unspent outputs (plan_spend), and the  *)
(* signer, which is handed the planned coins and the planned fee, selects  *)
(* again before it builds (select_coins, Transfer::build).                 *)
(***************************************************************************)
EXTENDS Integers, SequencesExt, Outcomes

DUST_THRESHOLD == 546

\* 20 sat/vB for a P2WPKH transaction of that shape.
fee_for(inputs, outputs) == 20 * (11 + 68 * inputs + 31 * outputs)

LargestFirst(utxos) == SortSeq(utxos, LAMBDA a, b : a.value > b.value)
Total(utxos) == FoldLeft(LAMBDA sum, u : sum + u.value, 0, utxos)
SaturatingAdd(a, b) == Min({a + b, MaxU64})

\* What the coins leave over when the transaction also pays its change output.
Surplus(chosen, amount) ==
  Total(chosen) - SaturatingAdd(amount, fee_for(Len(chosen), 2))

WithChange(chosen, amount) == Surplus(chosen, amount) > DUST_THRESHOLD
WithoutChange(chosen, amount) ==
  Total(chosen) >= SaturatingAdd(amount, fee_for(Len(chosen), 1))

Overflows(coins) == Total(coins) > MaxU64

\* The shortest of the prefixes that end the loop: the coins taken, unless
\* their sum overflows there.
Prefix(sorted, ends) ==
  LET chosen == SubSeq(sorted, 1, Min(ends))
  IN  IF ends = {} THEN Refused ELSE IF Overflows(chosen) THEN Refused ELSE chosen

EndsPlan(chosen, amount) ==
  Overflows(chosen) \/ WithChange(chosen, amount) \/ WithoutChange(chosen, amount)

Paying(sorted, amount) ==
  Prefix(sorted, {k \in 1..Len(sorted) : EndsPlan(SubSeq(sorted, 1, k), amount)})

Chosen(utxos, amount) ==
  IF fee_for(1, 1) + amount > MaxU64 THEN Refused ELSE Paying(LargestFirst(utxos), amount)

PlanWithChange(chosen, amount) ==
  [selected |-> chosen, fee |-> fee_for(Len(chosen), 2), change |-> Surplus(chosen, amount)]

\* Without change the fee is all that the coins leave.
Plan(chosen, amount) ==
  IF chosen = Refused THEN Refused
  ELSE IF WithChange(chosen, amount) THEN PlanWithChange(chosen, amount)
  ELSE [selected |-> chosen, fee |-> Total(chosen) - amount, change |-> 0]

\* Mutant: the fee of a spend without change is the estimate, not what the
\* coins leave.
plan_spend_estimate(utxos, amount) ==
  LET plan == Plan(Chosen(utxos, amount), amount)
  IN  IF plan = Refused \/ plan.change # 0 THEN plan
      ELSE [plan EXCEPT !.fee = fee_for(Len(plan.selected), 1)]

plan_spend(utxos, amount) == Plan(Chosen(utxos, amount), amount)

Selection(chosen, target) ==
  LET surplus == Total(chosen) - target
  IN  IF chosen = Refused THEN Refused
      ELSE [inputs |-> chosen, change |-> IF surplus > DUST_THRESHOLD THEN surplus ELSE 0]

Reaching(sorted, target) ==
  Prefix(sorted, {k \in 1..Len(sorted) : Total(SubSeq(sorted, 1, k)) >= target})

select_coins(utxos, target) == Selection(Reaching(LargestFirst(utxos), target), target)

Outputs(selection, amount) ==
  IF selection = Refused THEN Refused
  ELSE [inputs |-> selection.inputs, amount |-> amount, change |-> selection.change]

\* The outputs of the transaction: the payment, and the change when there is
\* some.  What the inputs hold beyond them is the fee.
BtcBuild(utxos, amount, fee) ==
  IF amount + fee > MaxU64 THEN Refused ELSE Outputs(select_coins(utxos, amount + fee), amount)

-----------------------------------------------------------------------------
(* What the planner and the builder owe each other.                        *)

BuiltAsPlanned(plan, amount, tx) ==
  /\ tx # Refused
  /\ tx.inputs = plan.selected
  /\ tx.change = plan.change
  /\ Total(tx.inputs) = amount + tx.change + plan.fee
  /\ tx.change = 0 \/ tx.change > DUST_THRESHOLD
  /\ plan.fee >= fee_for(Len(tx.inputs), IF tx.change = 0 THEN 1 ELSE 2)

\* A planned spend is built as it was planned: the signer's own selection over
\* the planned coins takes all of them in the same order, pays the same change
\* and so the same fee; no output is dust, and the fee covers the size.
PlanIsBuilt(utxos, amount) ==
  LET plan == plan_spend(utxos, amount)
  IN  plan # Refused => BuiltAsPlanned(plan, amount, BtcBuild(plan.selected, amount, plan.fee))

\* Largest first never refuses what some choice of the coins could pay.
PlanIsComplete(utxos, amount) ==
  (\E S \in SUBSET (1..Len(utxos)) :
      LET chosen == SetToSeq({utxos[i] : i \in S})
      IN  Total(utxos) <= MaxU64 /\ Total(chosen) >= amount + fee_for(Len(chosen), 1))
    => plan_spend(utxos, amount) # Refused
===============================================================================
