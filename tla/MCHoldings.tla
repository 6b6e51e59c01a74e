----------------------------- MODULE MCHoldings -----------------------------
(***************************************************************************)
(* Model-checking instance of Holdings and of MarketData, the ingest that  *)
(* feeds its quotes.  They share no variable: the ingest hands a price to  *)
(* the positions through TakePrice on its side and NewQuote on the other.  *)
(* The run explores each of them with the other at rest, since the product *)
(* of their states would add no behaviour to either.                       *)
(***************************************************************************)
EXTENDS Holdings, MarketData, TLC

MCGoldChain == <<"bankbsi", "anekalogam">>
\* A fund in the currency of its instrument, and one that is not.
MCFundCurrency == [f \in Funds |-> IF f = "idr_fund" THEN "IDR" ELSE "USD"]

\* Rows with one of a gram, and rows that are all of another weight.
MCPages == [source \in {"bankbsi", "anekalogam"} |->
  IF source = "bankbsi" THEN {<< <<5, 2>>, <<10, 3>> >>} ELSE {<< <<50, 7>>, <<5, 2>> >>}]

MCInit == HoldingsInit /\ MarketInit
MCNext ==
  \/ counts = NoCounts /\ HoldingsNext /\ UNCHANGED marketVars
  \/ ops = 0 /\ (\A m \in Series : quote[m] = None) /\ MarketNext /\ UNCHANGED holdingsVars
MCSpec == MCInit /\ [][MCNext]_<<holdingsVars, marketVars>>

Symmetry == Permutations(Instruments) \cup Permutations(Tracked) \cup Permutations(Syncs)

=============================================================================
