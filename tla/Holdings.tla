------------------------------ MODULE Holdings ------------------------------
(***************************************************************************)
(* Holdings and trades (src/src/server/holdings.ts, src/src/lib/           *)
(* holdings.ts): positions of an instrument in a tracked account, trades   *)
(* against a cash account, distributions, fees, switches, and prices from  *)
(* market series.                                                          *)
(*                                                                         *)
(* Each operation is one SERIALIZABLE database transaction that ends with  *)
(* a valuation of the account, the sum of what its positions are worth     *)
(* (recomputeAccountValueAnchorWithinTx).  The account is worth its latest *)
(* valuation by date, whatever wrote it.                                   *)
(*                                                                         *)
(* Units are integers at the scale of quantities, money is in minor units. *)
(* Accounts, positions and series share one currency: everything else is   *)
(* refused.                                                                *)
(***************************************************************************)
EXTENDS Integers, FiniteSetsExt, SequencesExt, Rounding

CONSTANTS
  Cash,         \* accounts summed from transactions
  Tracked,      \* valuation accounts
  Instruments,  \* instruments of the family, created in line or not
  Series,       \* market series a position can be linked to
  Metals,       \* the series of metals, quoted per ounce and held per gram
  Pairs,        \* the fx series, which price no holding
  QuantityScale, SpotScale, GramsPerOunce, MinorUnits,   \* fixed-point scales
  Quantities,   \* units in a request
  Amounts,      \* money in a request
  Prices,       \* price per unit in a request
  Quotes,       \* prices a series may have
  Values,       \* values in a manual valuation
  MaxHoldings,  \* bound on the positions at one time
  MaxOps,       \* bound on the operations of the family
  None

ASSUME HoldingsAssumption ==
  /\ Cash \cap Tracked = {} /\ Cash \cap {"holdings", "manual"} = {}
  /\ Metals \subseteq Series /\ Pairs \subseteq Series
  /\ QuantityScale \in Nat \ {0} /\ SpotScale \in Nat \ {0}
  /\ GramsPerOunce \in Nat \ {0} /\ MinorUnits \in Nat \ {0}
  /\ Quantities \subseteq Nat /\ Values \subseteq Nat
  /\ Amounts \subseteq Nat \ {0} /\ Prices \subseteq Nat \ {0} /\ Quotes \subseteq Nat \ {0}
  /\ None \notin [acc: Tracked, ins: Instruments, units: Nat, avg: Nat, last: Nat \cup {None}]
  /\ MaxHoldings \in Nat /\ MaxOps \in Nat

VARIABLES
  balance,   \* Account.balance
  vals,      \* Tracked -> live valuations in the order written
  holding,   \* HoldingId -> position
  link,      \* Instruments -> the series that prices it
  quote,     \* Series -> its latest quote
  closed,    \* archived accounts
  basis,     \* Tracked -> sum of the cost deltas that operations replied
  slack,     \* Tracked -> what rounding may have moved the cost by, doubled
  ops

holdingsVars == <<balance, vals, holding, link, quote, closed, basis, slack, ops>>

-----------------------------------------------------------------------------
(* Rows. *)

HoldingId == 1..MaxHoldings
Position == [acc: Tracked, ins: Instruments, units: Nat, avg: Nat, last: Nat \cup {None}]

\* ahead: dated after now.  by: "holdings", "manual", or a cash account whose
\* transfer wrote it.
Valuation == [value: Int, ahead: BOOLEAN, by: {"holdings", "manual"} \cup Cash]

Held(a) == {h \in HoldingId : holding[h] # None /\ holding[h].acc = a}
PositionsIn(hs, a) == {h \in HoldingId : hs[h] # None /\ hs[h].acc = a}

-----------------------------------------------------------------------------
(* Arithmetic of a position. *)

Worth(units, price) == HalfUp(units * price, QuantityScale)
UnitsFor(amount, price) == HalfUp(amount * QuantityScale, price)

\* Faulty variant: the average is that of the new units.
AverageNew(cost, amount, old, new) == HalfUp(amount * QuantityScale, new - old)

\* averageUnitCostMinor of a position of new units, after it has cost amount more.
Average(cost, amount, old, new) == HalfUp((cost + amount) * QuantityScale, new)

PriceOf(p) == IF p.last = None THEN p.avg ELSE p.last
Cost(p) == Worth(p.units, p.avg)

\* sumHoldingValuesMinor
SumWorth(hs, a) == MapThenSumSet(LAMBDA h : Worth(hs[h].units, PriceOf(hs[h])), PositionsIn(hs, a))
SumCost(hs, a) == MapThenSumSet(LAMBDA h : Cost(hs[h]), PositionsIn(hs, a))

\* spotPriceScaledPerGram and marketQuoteToHoldingPriceMinor
PerUnit(m, price) == IF m \in Metals THEN HalfEven(price, GramsPerOunce) ELSE price
PriceFrom(m) == HalfEven(PerUnit(m, quote[m]) * MinorUnits, SpotScale)

-----------------------------------------------------------------------------
(* Valuations of a tracked account. *)

\* latestValuation
Latest(vs) ==
  LET late == {n \in DOMAIN vs : vs[n].ahead}
  IN IF vs = <<>> THEN 0 ELSE vs[IF late # {} THEN Max(late) ELSE Len(vs)].value

\* The guard of createValuationWithinTx and createValuationLinkedTransferWithinTx.
MayValue(a, by) == by = "holdings" \/ Held(a) = {}

\* createValuationWithinTx on the valuations of a; the balances that are given
\* already hold the cash leg.
Write(a, v, bals) ==
  /\ MayValue(a, v.by)
  /\ vals' = [vals EXCEPT ![a] = Append(@, v)]
  /\ balance' = [bals EXCEPT ![a] = Latest(vals'[a])]

\* recomputeAccountValueAnchorWithinTx, after the positions became hs.
Anchor(a, hs, bals) ==
  /\ holding' = hs
  /\ Write(a, [value |-> SumWorth(hs, a), ahead |-> FALSE, by |-> "holdings"], bals)

Tick == ops < MaxOps /\ ops' = ops + 1

\* What the reply says of the cost basis, and how far a half-up average, half a
\* minor unit for each unit held, and two half-up products may be from it.
Report(a, delta, units) ==
  /\ basis' = [basis EXCEPT ![a] = @ + delta]
  /\ slack' = [slack EXCEPT ![a] = @ + HalfUp(units, QuantityScale) + 3]

\* An operation that moves no cash: the account is valued again and the reply
\* names the cost that came in or went.
Settle(a, hs, delta, units) ==
  /\ Anchor(a, hs, balance)
  /\ Report(a, delta, units)

-----------------------------------------------------------------------------
(* Valuations and transfers that are no trades. *)

\* createValuationForFamily
SetValue(a) ==
  /\ Tick
  /\ \E v \in Values, ahead \in BOOLEAN :
       Write(a, [value |-> v, ahead |-> ahead, by |-> "manual"], balance)
  /\ UNCHANGED <<holding, link, quote, closed, basis, slack>>

\* createValuationLinkedTransferWithinTx, a contribution of one minor unit.
Move(c, a) ==
  /\ Tick
  /\ Held(a) = {}
  /\ Write(a, [value |-> balance[a] + 1, ahead |-> FALSE, by |-> c],
           [balance EXCEPT ![c] = @ - 1])
  /\ UNCHANGED <<holding, link, quote, closed, basis, slack>>

\* softDeleteValuationLinkedTransferWithinTx, which refuses a trade.
DeleteMove(a, n) ==
  /\ Tick
  /\ n \in DOMAIN vals[a] /\ vals[a][n].by \in Cash
  /\ vals' = [vals EXCEPT ![a] = RemoveAt(@, n)]
  /\ balance' = [balance EXCEPT ![vals[a][n].by] = @ + 1, ![a] = Latest(vals'[a])]
  /\ UNCHANGED <<holding, link, quote, closed, basis, slack>>

-----------------------------------------------------------------------------
(* Positions. *)

Free == {h \in HoldingId : holding[h] = None}
NewPosition(a, i, units, avg) ==
  [acc |-> a, ins |-> i, units |-> units, avg |-> avg, last |-> None]

\* upsertHoldingForFamily: the position is as the form says, a price that is not
\* entered is none, and the basis starts over with it.
Upsert(h, p) ==
  /\ holding[h] # None => p.acc = holding[h].acc /\ p.ins = holding[h].ins
  /\ Settle(p.acc, [holding EXCEPT ![h] = p],
            Cost(p) - (IF holding[h] = None THEN 0 ELSE Cost(holding[h])), 0)

CreateHolding(a, i) ==
  /\ Tick
  /\ \E h \in Free, q \in Quantities, avg \in Prices :
       Upsert(h, NewPosition(a, i, q, avg))
  /\ UNCHANGED <<link, quote, closed>>

UpdateHolding(h) ==
  /\ Tick
  /\ holding[h] # None
  /\ \E q \in Quantities, avg \in Prices, last \in Prices \cup {None} :
       Upsert(h, [holding[h] EXCEPT !.units = q, !.avg = avg, !.last = last])
  /\ UNCHANGED <<link, quote, closed>>

\* deleteHoldingForFamily
DeleteHolding(h) ==
  /\ Tick
  /\ holding[h] # None
  /\ Settle(holding[h].acc, [holding EXCEPT ![h] = None], -Cost(holding[h]), 0)
  /\ UNCHANGED <<link, quote, closed>>

-----------------------------------------------------------------------------
(* Trades (recordTradeForFamily). *)

IsActive(acc) == acc \notin closed

\* The position after units were added at a cost of amount.
Grown(p, units, amount) ==
  [p EXCEPT !.units = @ + units, !.avg = Average(Cost(p), amount, p.units, p.units + units)]

\* Positions in which account a has units more of instrument i: the one it has,
\* or a new one.
Added(hs, a, i, units, amount) ==
  LET old == {h \in PositionsIn(hs, a) : hs[h].ins = i}
  IN IF old # {}
     THEN {[hs EXCEPT ![h] = Grown(hs[h], units, amount)] : h \in old}
     ELSE {[hs EXCEPT ![h] = Grown(NewPosition(a, i, 0, 0), units, amount)] :
             h \in {g \in HoldingId : hs[g] = None}}

UnitsIn(hs, a) == MapThenSumSet(LAMBDA h : hs[h].units, PositionsIn(hs, a))

Buy(c, a, i, units, amount) ==
  /\ Tick
  /\ IsActive(c) /\ IsActive(a) /\ units > 0
  /\ \E hs \in Added(holding, a, i, units, amount) :
       /\ Anchor(a, hs, [balance EXCEPT ![c] = @ - amount])
       /\ Report(a, amount, UnitsIn(hs, a))
  /\ UNCHANGED <<link, quote, closed>>

\* The positions after units left h; the last unit closes it.
Reduced(h, units) ==
  IF holding[h].units = units THEN [holding EXCEPT ![h] = None]
  ELSE [holding EXCEPT ![h].units = @ - units]

CostRemoved(h, units) == Worth(units, holding[h].avg)

Sell(c, h, units, amount) ==
  /\ Tick
  /\ holding[h] # None
  /\ units > 0 /\ units <= holding[h].units
  /\ LET a == holding[h].acc IN
       /\ IsActive(c) /\ IsActive(a)
       /\ Anchor(a, Reduced(h, units), [balance EXCEPT ![c] = @ + amount])
       /\ Report(a, -CostRemoved(h, units), 0)
  /\ UNCHANGED <<link, quote, closed>>

-----------------------------------------------------------------------------
(* Distributions, fees and switches. *)

\* The position exists, in an account that is open.
Paying(h) == IF holding[h] = None THEN FALSE ELSE IsActive(holding[h].acc)

\* postIncomeTransactionWithinTx and postExpenseTransactionWithinTx
Income(c, amount) == balance' = [balance EXCEPT ![c] = @ + amount]
Expense(c, amount) == balance' = [balance EXCEPT ![c] = @ - amount]

\* recordDistributionForFamily in cash: income elsewhere, no position moves.
CashDistribution(c, h, amount) ==
  /\ Tick
  /\ Paying(h) /\ IsActive(c)
  /\ Income(c, amount)
  /\ UNCHANGED <<vals, holding, link, quote, closed, basis, slack>>

\* recordFeeForFamily: an expense of a cash account.
Fee(c, h, amount) ==
  /\ Tick
  /\ Paying(h) /\ IsActive(c)
  /\ Expense(c, amount)
  /\ UNCHANGED <<vals, holding, link, quote, closed, basis, slack>>

\* recordDistributionForFamily reinvested: the units are entered, or follow from
\* the price.
Reinvest(h, amount) ==
  /\ Tick
  /\ Paying(h)
  /\ \E units \in Quantities \cup {UnitsFor(amount, p) : p \in Prices} :
       /\ units > 0
       /\ LET hs == [holding EXCEPT ![h] = Grown(@, units, amount)]
          IN Settle(holding[h].acc, hs, amount, UnitsIn(hs, holding[h].acc))
  /\ UNCHANGED <<link, quote, closed>>

\* recordSwitchForFamily: sell h and buy i with the proceeds, in one account.  The
\* request names the units or the proceeds.
Switch(h, i, units, proceeds, to) ==
  /\ Tick
  /\ Paying(h) /\ i # holding[h].ins
  /\ units > 0 /\ proceeds > 0 /\ units <= holding[h].units
  /\ LET a == holding[h].acc
         bought == UnitsFor(proceeds, to)
     IN /\ bought > 0
        /\ \E hs \in Added(Reduced(h, units), a, i, bought, proceeds) :
             Settle(a, hs, proceeds - CostRemoved(h, units), UnitsIn(hs, a))
  /\ UNCHANGED <<link, quote, closed>>

SwitchOut(h) ==
  \E i \in Instruments, from \in Prices, to \in Prices :
    \/ \E q \in Quantities : Switch(h, i, q, Worth(q, from), to)
    \/ \E amount \in Amounts : Switch(h, i, UnitsFor(amount, from), amount, to)

-----------------------------------------------------------------------------
(* Market prices. *)

\* applyMarketLinkWithinTx, from an edit of position h that changes nothing else:
\* the instrument is linked, or unlinked, wherever it is held.
LinkHolding(h, m) ==
  /\ Tick
  /\ holding[h] # None
  /\ m \notin Pairs /\ link[holding[h].ins] # m
  /\ link' = [link EXCEPT ![holding[h].ins] = m]
  /\ Anchor(holding[h].acc, holding, balance)
  /\ UNCHANGED <<quote, closed, basis, slack>>

\* The ingest, outside of any family.
NewQuote(m) ==
  /\ \E q \in Quotes : quote' = [quote EXCEPT ![m] = q]
  /\ UNCHANGED <<balance, vals, holding, link, closed, basis, slack, ops>>

\* Positions of the accounts A whose series has a quote that they do not carry.
Stale(A) ==
  {h \in HoldingId :
     /\ holding[h] # None
     /\ holding[h].acc \in A
     /\ LET m == link[holding[h].ins] IN
          /\ m # None
          /\ quote[m] # None
          /\ holding[h].last # PriceFrom(m)}

\* Faulty variant: the first account alone is valued again.
RepricedOne(A) == {CHOOSE a \in A : TRUE}
Repriced(A) == A

\* refreshHoldingPricesForFamily, for an account or the family.
Refresh(A) ==
  /\ Tick
  /\ Stale(A) # {}
  /\ LET touched == {holding[h].acc : h \in Stale(A)}
         hs == [h \in HoldingId |-> IF h \in Stale(A)
                  THEN [holding[h] EXCEPT !.last = PriceFrom(link[holding[h].ins])]
                  ELSE holding[h]]
         valued == Repriced(touched)
     IN /\ holding' = hs
        /\ vals' = [a \in Tracked |-> IF a \in valued
             THEN Append(vals[a], [value |-> SumWorth(hs, a), ahead |-> FALSE, by |-> "holdings"])
             ELSE vals[a]]
        /\ balance' = [a \in Cash \cup Tracked |->
             IF a \in valued THEN Latest(vals'[a]) ELSE balance[a]]
  /\ UNCHANGED <<link, quote, closed, basis, slack>>

\* archiveAccountForFamily and reactivateAccountForFamily.
SetActiveState(a) ==
  /\ Tick
  /\ closed' = IF a \in closed THEN closed \ {a} ELSE closed \cup {a}
  /\ UNCHANGED <<balance, vals, holding, link, quote, basis, slack>>

-----------------------------------------------------------------------------
(* Specification. *)

HoldingsInit ==
  /\ balance = [a \in Cash \cup Tracked |-> 0]
  /\ vals = [a \in Tracked |-> <<>>]
  /\ holding = [h \in HoldingId |-> None]
  /\ link = [i \in Instruments |-> None]
  /\ quote = [m \in Series |-> None]
  /\ closed = {}
  /\ basis = [a \in Tracked |-> 0] /\ slack = [a \in Tracked |-> 0]
  /\ ops = 0

HoldingsNext ==
  \/ \E a \in Tracked :
       \/ SetValue(a) \/ SetActiveState(a) \/ Refresh({a})
       \/ \E c \in Cash : Move(c, a)
       \/ \E n \in 1..MaxOps : DeleteMove(a, n)
       \/ \E i \in Instruments : CreateHolding(a, i)
       \/ \E c \in Cash, i \in Instruments, q \in Quantities, m \in Amounts : Buy(c, a, i, q, m)
  \/ Refresh(Tracked)
  \/ \E h \in HoldingId :
       \/ UpdateHolding(h) \/ DeleteHolding(h) \/ SwitchOut(h)
       \/ \E m \in Series \cup {None} : LinkHolding(h, m)
       \/ \E c \in Cash, q \in Quantities, m \in Amounts : Sell(c, h, q, m)
       \/ \E m \in Amounts :
            Reinvest(h, m) \/ \E c \in Cash : CashDistribution(c, h, m) \/ Fee(c, h, m)
  \/ \E m \in Series : NewQuote(m)

HoldingsSpec == HoldingsInit /\ [][HoldingsNext]_holdingsVars

-----------------------------------------------------------------------------
(* Properties. *)

\* Every variable has its type.
HoldingsTypeOK ==
  /\ balance \in [Cash \cup Tracked -> Int]
  /\ vals \in [Tracked -> Seq(Valuation)]
  /\ holding \in [HoldingId -> Position \cup {None}]
  /\ link \in [Instruments -> (Series \ Pairs) \cup {None}]
  /\ quote \in [Series -> Quotes \cup {None}]
  /\ closed \subseteq Tracked
  /\ basis \in [Tracked -> Int] /\ slack \in [Tracked -> Nat]
  /\ ops \in 0..MaxOps

\* The balance of an account with holdings is what its positions are worth now,
\* after any series of trades, edits, switches, refreshes and deletes of earlier
\* transfers, unless a valuation dated ahead was entered before it had holdings
\* (recomputeAccountValueAnchorWithinTx and the guard of createValuationWithinTx).
WorthFollowsHoldings ==
  \A a \in Tracked :
    Held(a) # {} /\ (\A n \in DOMAIN vals[a] : ~vals[a][n].ahead)
      => balance[a] = SumWorth(holding, a)

\* The cost of the positions of an account is the sum of the cost deltas that
\* the operations replied, but for half a minor unit for each unit held whenever
\* an average was taken, and the rounding of the products (averageUnitCostMinor,
\* holdingCostMinor).
BasisDriftIsBounded ==
  \A a \in Tracked :
    2 * Abs(SumCost(holding, a) - basis[a]) <= slack[a]

\* Positions add up: their worth to the balance of the account, and their cost to
\* what the operations said they cost (recomputeAccountValueAnchorWithinTx,
\* averageUnitCostMinor).
PositionsAddUp == WorthFollowsHoldings /\ BasisDriftIsBounded

=============================================================================
