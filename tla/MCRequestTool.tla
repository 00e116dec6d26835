--------------------------- MODULE MCRequestTool ---------------------------
(* Instances of RequestTool for TLC.                                       *)
EXTENDS RequestTool, TLC, FiniteSetsExt

\* The ledger's migration, a separate system, is checked beside the requests:
\* part says which of the two a behaviour is about.
CONSTANTS Holds, Streams
VARIABLES part, legacy, payments, legacyHolds, holds, ready, gate, imported

stored == <<legacy, payments, legacyHolds, holds, ready, gate, imported>>

Migration == INSTANCE LedgerMigration

\* An option with amount a that can be built on its rail.
Offer(n, t, a) == [scheme |-> "exact", network |-> n, asset |-> t, amount |-> a,
                   payTo |-> TRUE, feePayer |-> TRUE, chainId |-> TRUE]

Sol  == Offer("solana:main", "mint", 2)
Evm  == Offer("eip155:base", "0xBA5E", 1)
Evm2 == Offer("eip155:ethereum", "0xe78", 2)

NoFeePayer == [Sol EXCEPT !.feePayer = FALSE]      \* selected, cannot be built
Dear       == [Evm EXCEPT !.amount = 3]            \* above every cap
Huge       == [Evm EXCEPT !.amount = 4]            \* above u64::MAX
Blank      == [Evm EXCEPT !.amount = NotANumber]
Upto       == [Sol EXCEPT !.scheme = "upto"]       \* a scheme that is not paid
WrongCase  == [Sol EXCEPT !.asset = "MINT"]        \* not the mint
Elsewhere  == [Sol EXCEPT !.network = "solana:unknown"]
Cosmos     == Offer("cosmos", "usdc", 1)

MCOption == {Sol, Evm, Evm2, NoFeePayer, Dear, Huge, Blank, Upto, WrongCase, Elsewhere, Cosmos}

\* Offers in every order that matters, and those that cannot be paid before,
\* between and after the ones that can.
MCChallenge == {<<>>, <<Evm, Sol>>, <<Evm2, Evm>>, <<WrongCase, Evm, Evm2>>,
                <<Elsewhere, Upto>>, <<Upto, Cosmos, Evm>>, <<NoFeePayer, Evm>>,
                <<Dear>>, <<Huge, Evm>>, <<Blank>>}

MCTotal(S) == MapThenSumSet(LAMBDA p : p[2].amount, S)
MCMaxU64   == 3
MCBudgets  == {[perRequest |-> 2, daily |-> 3, monthly |-> 3]}

\* The ends of every month in years on both sides of the leap rules and of the
\* epoch, dates that are none, and the end of a day.
MCInstants ==
  [year : {1600, 1900, 1969, 1970, 1999, 2000, 2023, 2024, 2100}, month : 0..13,
   day : {0, 1, 28, 29, 30, 31, 32}, second : {0}]
  \cup {[year |-> 2024, month |-> 2, day |-> 29, second |-> s] : s \in {86399, 86400, 86401}}
MCStreams ==
  {<<>>} \cup {<<[instant |-> [t EXCEPT !.second = 1], amount |-> 2],
                [instant |-> t, amount |-> 1]>> : t \in MCInstants}

MCInit ==
  /\ part \in {"requests", "migration"}
  /\ Init
  /\ IF part = "migration" THEN Migration!Init
     ELSE /\ legacy = <<>> /\ payments = <<>> /\ legacyHolds = {} /\ holds = {}
          /\ ready = FALSE /\ imported = <<>>
          /\ gate = [l \in Process |-> "closed"]

MCNext ==
  /\ UNCHANGED part
  /\ \/ part = "requests" /\ Next /\ UNCHANGED stored
     \/ part = "migration" /\ Migration!Next /\ UNCHANGED vars

MCSpec ==
  /\ MCInit /\ [][MCNext]_<<vars, part, stored>>
  /\ \A r \in Request : WF_vars(part = "requests" /\ Proceed(r) /\ UNCHANGED stored)

\* LedgerMigration's properties, of the behaviours that are about it.
OpenCountsHistory == part = "migration" => Migration!OpenCountsHistory
InstantsKept      == part = "migration" => Migration!InstantsKept
=============================================================================
