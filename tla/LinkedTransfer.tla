--------------------------- MODULE LinkedTransfer ---------------------------
(***************************************************************************)
(* Money moved between a cash account and a valuation-tracked account: one *)
(* cash Transaction, one Valuation of the tracked account, and a Transfer  *)
(* row that joins them (postValuationLinkedTransferLegs and                *)
(* softDeleteValuationLinkedTransferWithinTx in                            *)
(* src/src/server/transactions.ts, valuations.ts).                         *)
(*                                                                         *)
(* The balance of a tracked account is never changed by a delta: it is the *)
(* value of its latest live valuation, by date and then by creation.       *)
(* Valuations are numbered in creation order.  Tracked accounts are assets *)
(* without holdings; holdings and trades are left to a module of their     *)
(* own.  Each handler is one SERIALIZABLE transaction, hence one action.   *)
(***************************************************************************)
EXTENDS Integers, FiniteSetsExt

CONSTANTS
  Cash,          \* the cash accounts
  Tracked,       \* the valuation-tracked accounts
  Dates,         \* the dates a client may send
  Today,         \* the date on which the accounts are opened
  Amounts,       \* the positive amounts of a move
  Values,        \* the values a client may assert for a tracked account
  Fees,          \* the positive fees of a move
  Opening,       \* the opening value of every tracked account
  MaxMoves,      \* bound on the moves ever posted
  MaxValuations, \* bound on the valuations ever created
  NoMove,        \* an unused move id
  NoValuation    \* an unused valuation id

ASSUME LinkedAssumption ==
  /\ Dates \subseteq Int /\ Today \in Dates
  /\ Amounts \subseteq Nat \ {0}
  /\ Fees \subseteq Nat \ {0}
  /\ Values \subseteq Nat
  /\ Opening \in Nat
  /\ MaxMoves \in Nat /\ MaxValuations \in Nat

VARIABLES
  valuation,     \* ValuationId -> Valuation row; openings have no id
  move,          \* MoveId -> cash Transaction, fee Transaction and Transfer
  cash,          \* Account.balance of the cash accounts
  tracked        \* Account.balance of the tracked accounts

vars == <<valuation, move, cash, tracked>>

-----------------------------------------------------------------------------
(* Rows. *)

ValuationId == 1..MaxValuations
MoveId == 1..MaxMoves
Nothing == 0

ValuationRow == [account: Tracked, value: Nat, date: Dates, deleted: BOOLEAN]
MoveRow ==
  [direction: {"contribution", "redemption"}, account: Cash, amount: Int,
   valuation: ValuationId, deleted: BOOLEAN, transferDeleted: BOOLEAN,
   fee: Fees \cup {Nothing}, feeAccount: Cash, feeDeleted: BOOLEAN]

ASSUME AbsentAssumption == NoValuation \notin ValuationRow /\ NoMove \notin MoveRow

\* The opening valuation, created with the account (createAccountForFamily).
OpeningId == 0

Valued(v) == valuation[v] # NoValuation
Moved(m) == move[m] # NoMove

\* The live valuations of a tracked account, newest created last.
LiveOf(vals, t) ==
  {OpeningId} \cup {v \in ValuationId : /\ vals[v] # NoValuation
                                        /\ vals[v].account = t
                                        /\ ~vals[v].deleted}

ValueIn(vals, t, v) == IF v = OpeningId THEN Opening ELSE vals[v].value
DateIn(vals, t, v) == IF v = OpeningId THEN Today ELSE vals[v].date

\* Faulty variant: the valuation created last wins, whatever its date.
LatestCreated(vals, t) == CHOOSE v \in LiveOf(vals, t) : \A w \in LiveOf(vals, t) : w <= v

\* latestValuation: by valuationDate, then by createdAt.
Latest(vals, t) ==
  CHOOSE v \in LiveOf(vals, t) :
    \A w \in LiveOf(vals, t) \ {v} :
      \/ DateIn(vals, t, w) < DateIn(vals, t, v)
      \/ DateIn(vals, t, w) = DateIn(vals, t, v) /\ w < v

\* computeCanonicalBalance of a tracked account.
Canonical(vals, t) == ValueIn(vals, t, Latest(vals, t))

NextValuation == Cardinality({v \in ValuationId : Valued(v)}) + 1
NextMove == Cardinality({m \in MoveId : Moved(m)}) + 1

-----------------------------------------------------------------------------
Init ==
  /\ valuation = [v \in ValuationId |-> NoValuation]
  /\ move = [m \in MoveId |-> NoMove]
  /\ cash = [c \in Cash |-> 0]
  /\ tracked = [t \in Tracked |-> Opening]

(* createValuationWithinTx: insert the row and re-materialise the balance. *)
(* A negative value is refused.                                            *)
Value(t, value, date) ==
  /\ NextValuation \in ValuationId
  /\ value >= 0
  /\ valuation' = [valuation EXCEPT ![NextValuation] =
                     [account |-> t, value |-> value, date |-> date,
                      deleted |-> FALSE]]
  /\ tracked' = [tracked EXCEPT ![t] = Canonical(valuation', t)]

(* createValuationForFamily: the user restates the value. *)
SetValue(t, value, date) ==
  /\ Value(t, value, date)
  /\ UNCHANGED <<move, cash>>

\* The value a move asserts unless the client sends newValuationValue.
Prefill(t, direction, amount) ==
  IF direction = "contribution" THEN Canonical(valuation, t) + amount
  ELSE Canonical(valuation, t) - amount

CashDelta(direction, amount) == IF direction = "contribution" THEN -amount ELSE amount

(* postValuationLinkedTransferLegs: the cash leg, the valuation, the       *)
(* Transfer row, and the optional fee leg, charged to feeAccount.          *)
Move(direction, c, t, amount, value, date, fee, feeAccount) ==
  /\ NextMove \in MoveId
  /\ Value(t, value, date)
  /\ move' = [move EXCEPT ![NextMove] =
                [direction |-> direction, account |-> c,
                 amount |-> CashDelta(direction, amount),
                 valuation |-> NextValuation, deleted |-> FALSE,
                 transferDeleted |-> FALSE, fee |-> fee,
                 feeAccount |-> feeAccount, feeDeleted |-> FALSE]]
  /\ cash' = [a \in Cash |->
                cash[a] + (IF a = c THEN CashDelta(direction, amount) ELSE 0)
                        - (IF a = feeAccount THEN fee ELSE 0)]

\* createTransactionForFamily with the prefilled value.
MovePrefilled(direction, c, t, amount, date, fee, feeAccount) ==
  Move(direction, c, t, amount, Prefill(t, direction, amount), date, fee, feeAccount)

\* Faulty variant: the valuation row stays alive.
TombstoneNothing(v) == valuation

TombstoneValuation(v) == [valuation EXCEPT ![v].deleted = TRUE]

\* Faulty variant: the cash leg is posted again.
CashWithoutTwice(m) == [cash EXCEPT ![move[m].account] = @ + move[m].amount]

CashWithout(m) == [cash EXCEPT ![move[m].account] = @ - move[m].amount]

(* softDeleteValuationLinkedTransferWithinTx: reverse the cash leg,        *)
(* tombstone leg, valuation and Transfer, and re-materialise the tracked   *)
(* account from the latest valuation that is left.                         *)
DeleteMove(m) ==
  LET v == move[m].valuation IN
  /\ Moved(m)
  /\ ~move[m].deleted
  /\ ~move[m].transferDeleted
  /\ ~valuation[v].deleted
  /\ cash' = CashWithout(m)
  /\ valuation' = TombstoneValuation(v)
  /\ move' = [move EXCEPT ![m].deleted = TRUE, ![m].transferDeleted = TRUE]
  /\ tracked' = [tracked EXCEPT ![valuation[v].account] =
                   Canonical(valuation', valuation[v].account)]

(* deleteTransactionForFamily on the fee leg, an ordinary expense row. *)
DeleteFee(m) ==
  /\ Moved(m)
  /\ move[m].fee # Nothing
  /\ ~move[m].feeDeleted
  /\ cash' = [cash EXCEPT ![move[m].feeAccount] = @ + move[m].fee]
  /\ move' = [move EXCEPT ![m].feeDeleted = TRUE]
  /\ UNCHANGED <<valuation, tracked>>

(* rebuildAccountBalanceForFamily *)
Rebuild(t) ==
  /\ tracked' = [tracked EXCEPT ![t] = Canonical(valuation, t)]
  /\ UNCHANGED <<valuation, move, cash>>

-----------------------------------------------------------------------------
Next ==
  \/ \E t \in Tracked, value \in Values, date \in Dates : SetValue(t, value, date)
  \/ \E direction \in {"contribution", "redemption"}, c, feeAccount \in Cash,
        t \in Tracked, amount \in Amounts, date \in Dates,
        fee \in Fees \cup {Nothing} :
       /\ fee = Nothing => feeAccount = c
       /\ \/ MovePrefilled(direction, c, t, amount, date, fee, feeAccount)
          \/ \E value \in Values :
               Move(direction, c, t, amount, value, date, fee, feeAccount)
  \/ \E m \in MoveId : DeleteMove(m)
  \/ \E m \in MoveId : DeleteFee(m)
  \/ \E t \in Tracked : Rebuild(t)

Spec == Init /\ [][Next]_vars

-----------------------------------------------------------------------------
(* Properties. *)

\* The tables hold rows of their types, numbered in order.
TypeOK ==
  /\ valuation \in [ValuationId -> ValuationRow \cup {NoValuation}]
  /\ move \in [MoveId -> MoveRow \cup {NoMove}]
  /\ cash \in [Cash -> Int]
  /\ tracked \in [Tracked -> Nat]

\* The cash side is a sum of live rows: whatever order moves, fees and deletes
\* come in, a cash leg or a fee is counted once while alive and not after.
CashIsSumOfLiveRows ==
  \A c \in Cash :
    cash[c] =
      MapThenSumSet(LAMBDA m : move[m].amount,
        {m \in MoveId : Moved(m) /\ move[m].account = c /\ ~move[m].deleted})
      - MapThenSumSet(LAMBDA m : move[m].fee,
        {m \in MoveId : Moved(m) /\ move[m].feeAccount = c /\ ~move[m].feeDeleted})

\* The tracked side follows the newest statement: no live valuation is dated
\* later than one whose value the account shows, so neither a back-dated move
\* nor the removal of a newer one leaves a stale value behind.
TrackedFollowsNewest ==
  \A t \in Tracked :
    \E v \in LiveOf(valuation, t) :
      /\ tracked[t] = ValueIn(valuation, t, v)
      /\ \A w \in LiveOf(valuation, t) :
           /\ DateIn(valuation, t, w) <= DateIn(valuation, t, v)
           /\ DateIn(valuation, t, w) = DateIn(valuation, t, v) => w <= v

\* ADR-0048: the cash leg, the valuation and the Transfer row die together.
LegsDieTogether ==
  \A m \in MoveId : Moved(m) =>
    /\ move[m].deleted = move[m].transferDeleted
    /\ move[m].deleted = valuation[move[m].valuation].deleted

=============================================================================
