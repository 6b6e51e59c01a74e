------------------------------- MODULE Ledger -------------------------------
(***************************************************************************)
(* The ledger of one family: its Transaction rows, the Transfer rows that  *)
(* pair them, and the balance each account row materialises                *)
(* (src/src/server/transactions.ts).                                       *)
(*                                                                         *)
(* Every mutation runs in one SERIALIZABLE database transaction, so each   *)
(* handler is one atomic action here; retries, replays and the races that  *)
(* cause them are the subject of module Requests.  Accounts are cash       *)
(* accounts (balanceSource = "transaction_flow") that open at zero;        *)
(* valuation anchors are the subject of module Anchors, valuation-tracked  *)
(* accounts of module LinkedTransfer.                                      *)
(*                                                                         *)
(* Row identifiers are numbers handed out in insertion order.  A Transfer  *)
(* row is named by its outflow leg, which the schema makes unique.         *)
(* Categories, merchants, dates, splits and currencies are abstracted: a   *)
(* destination amount that differs from the amount stands for a            *)
(* cross-currency transfer.                                                *)
(***************************************************************************)
EXTENDS Integers, FiniteSetsExt

CONSTANTS
  Accounts,      \* the cash accounts of the family
  Amounts,       \* the positive amounts a client may send
  Destinations,  \* the positive destination amounts a client may send
  EntryKinds,    \* the kinds a client may send with an income or an expense
  Fees,          \* the positive transfer fees a client may send
  EditFees,      \* the fees a client may send with an edit
  MaxTxn,        \* bound on the Transaction rows ever inserted
  NoRow,         \* an id that names no Transaction row yet
  NoTransfer     \* an id that is no outflow leg

ASSUME LedgerAssumption ==
  /\ Amounts \subseteq Nat \ {0}
  /\ Destinations \subseteq Nat \ {0}
  /\ EntryKinds \subseteq {"standard", "balance_adjustment"}
  /\ Fees \subseteq Nat \ {0}
  /\ EditFees \subseteq Nat \ {0}
  /\ MaxTxn \in Nat

VARIABLES
  txn,           \* TxnId -> Transaction row, or NoRow while the id is unused
  transfer,      \* outflow TxnId -> Transfer row, or NoTransfer
  next,          \* the id the next inserted row gets
  balance,       \* Account.balance, the materialised balance
  audited        \* sum of (after - before) over the Account rows of AuditLog

vars == <<txn, transfer, next, balance, audited>>

-----------------------------------------------------------------------------
(* Rows. *)

TxnId == 1..MaxTxn
None == 0                       \* a null foreign key, amount or account
Kinds == {"standard", "balance_adjustment", "transfer", "transfer_fee"}

Row == [type: {"income", "expense", "transfer"}, kind: Kinds,
        account: Accounts, toAccount: Accounts \cup {None},
        amount: Int, destination: Destinations \cup {None},
        deleted: BOOLEAN, supersedes: TxnId \cup {None},
        supersededBy: TxnId \cup {None}]

TransferRow == [inflow: TxnId, fee: TxnId \cup {None}, deleted: BOOLEAN]

ASSUME AbsentAssumption ==
  NoRow \notin Row /\ NoTransfer \notin TransferRow

Used == {i \in TxnId : txn[i] # NoRow}
Live(i) == txn[i] # NoRow /\ ~txn[i].deleted

IsOutflow(i) == transfer[i] # NoTransfer
IsInflowOf(i, o) == IsOutflow(o) /\ transfer[o].inflow = i

\* Faulty variant: the named leg is taken as it is.
RootUnredirected(i) == i

\* A request that names the inflow leg is redirected to the outflow leg.
Root(i) ==
  IF \E o \in TxnId : IsInflowOf(i, o)
  THEN CHOOSE o \in TxnId : IsInflowOf(i, o)
  ELSE i

InflowOf(o) == IF IsOutflow(o) THEN transfer[o].inflow ELSE None

\* Faulty variant: a fee that was deleted on its own is reversed again.
FeeOfUnchecked(o) == IF IsOutflow(o) THEN transfer[o].fee ELSE None

\* The fee leg that a reversal still has to undo.
LiveFeeOf(o) ==
  IF IsOutflow(o) /\ transfer[o].fee # None
  THEN IF txn[transfer[o].fee].deleted THEN None ELSE transfer[o].fee
  ELSE None

\* The rows that live and die with outflow (or standard row) o.
Movement(o) == {o, InflowOf(o), LiveFeeOf(o)} \ {None}

Posted(i, a) ==
  IF i # None THEN IF txn[i].account = a THEN txn[i].amount ELSE 0 ELSE 0

\* What the movement of o contributes to the balance of account a.
MovementOn(o, a) ==
  Posted(o, a) + Posted(InflowOf(o), a) + Posted(LiveFeeOf(o), a)

-----------------------------------------------------------------------------
(* Requests: the inputs of createTransactionFn and updateTransactionFn.  A *)
(* standard row may not carry a fee, a transfer may not carry a kind.      *)

StandardInput ==
  [type: {"income", "expense"}, kind: EntryKinds,
   account: Accounts, amount: Amounts]

\* A row of bulkCreateTransactionsFn has no kind, and gets the default.
BulkRow == {in \in StandardInput : in.kind = "standard"}

TransferInput(fees) ==
  {in \in [type: {"transfer"}, account: Accounts, toAccount: Accounts,
           amount: Amounts, destination: Destinations \cup {None},
           fee: fees \cup {None}, feeAccount: Accounts] :
     /\ in.account # in.toAccount
     /\ in.fee = None => in.feeAccount = in.account}

Input(fees) == StandardInput \cup TransferInput(fees)

Received(in) ==
  IF in.destination = None THEN in.amount ELSE in.destination

\* The number of Transaction rows a request inserts.
RowCount(in) ==
  IF in.type # "transfer" THEN 1 ELSE IF in.fee = None THEN 2 ELSE 3

MakeRow(type, kind, account, toAccount, amount, destination, old) ==
  [type |-> type, kind |-> kind, account |-> account, toAccount |-> toAccount,
   amount |-> amount, destination |-> destination,
   deleted |-> FALSE, supersedes |-> old, supersededBy |-> None]

StandardRow(in, old) ==
  MakeRow(in.type, in.kind, in.account, None,
          IF in.type = "expense" THEN -in.amount ELSE in.amount, None, old)

OutflowRow(in, old) ==
  MakeRow("transfer", "transfer", in.account, in.toAccount,
          -in.amount, in.destination, old)

InflowRow(in, old) ==
  MakeRow("transfer", "transfer", in.toAccount, in.account,
          Received(in), in.destination, old)

FeeRow(in) ==
  MakeRow("expense", "transfer_fee", in.feeAccount, None, -in.fee, None, None)

\* The k-th row that a request inserts.
NewRow(in, k, oldOutflow, oldInflow) ==
  IF in.type # "transfer" THEN StandardRow(in, oldOutflow)
  ELSE CASE k = 0 -> OutflowRow(in, oldOutflow)
         [] k = 1 -> InflowRow(in, oldInflow)
         [] OTHER -> FeeRow(in)

FeeOn(in, a) ==
  IF in.type = "transfer"
  THEN IF in.fee # None /\ in.feeAccount = a THEN -in.fee ELSE 0
  ELSE 0

LegsOn(in, a) ==
  IF in.type # "transfer"
  THEN IF in.account = a THEN StandardRow(in, None).amount ELSE 0
  ELSE (IF in.account = a THEN -in.amount ELSE 0)
         + (IF in.toAccount = a THEN Received(in) ELSE 0)

\* What the rows of a request contribute to the balance of account a.
InputOn(in, a) == LegsOn(in, a) + FeeOn(in, a)

\* Faulty variant: the accounts are read back after the fee was posted.
CreateAuditFolded(in, a) == InputOn(in, a) + FeeOn(in, a)

\* The create path audits the legs before it posts the fee, and the fee by an
\* entry of its own.
CreateAudit(in, a) == LegsOn(in, a) + FeeOn(in, a)

\* The replace path posts the fee, with an entry of its own, before it takes
\* the closing entry that compares the accounts with how they were at first.
ReplaceAudit(in, a) == InputOn(in, a) + FeeOn(in, a)

\* The delete path compares the accounts with how they were at first: what the
\* reversal takes off them.
DeleteAudit(o, a) == MovementOn(o, a)

-----------------------------------------------------------------------------
Init ==
  /\ txn = [i \in TxnId |-> NoRow]
  /\ transfer = [i \in TxnId |-> NoTransfer]
  /\ next = 1
  /\ balance = [a \in Accounts |-> 0]
  /\ audited = [a \in Accounts |-> 0]

Room(k) == next + k <= MaxTxn + 1

NewIds(in) == next .. (next + RowCount(in) - 1)

\* The Transfer row of a request, created with the rows it pairs.
NewTransfer(in) ==
  IF in.type # "transfer" THEN NoTransfer
  ELSE [inflow |-> next + 1,
        fee |-> IF in.fee = None THEN None ELSE next + 2,
        deleted |-> FALSE]

(* createTransactionForFamily: an income, an expense, or the two legs of a *)
(* transfer with its optional fee leg.                                     *)
Create(in) ==
  /\ Room(RowCount(in))
  /\ txn' = [i \in TxnId |->
               IF i \in NewIds(in) THEN NewRow(in, i - next, None, None)
               ELSE txn[i]]
  /\ transfer' = [transfer EXCEPT ![next] = NewTransfer(in)]
  /\ next' = next + RowCount(in)
  /\ balance' = [a \in Accounts |-> balance[a] + InputOn(in, a)]
  /\ audited' = [a \in Accounts |-> audited[a] + CreateAudit(in, a)]

(* bulkCreateTransactionsForFamily on a batch of two income or expense     *)
(* rows: the deltas are added up per account and applied once.             *)
BulkCreate(in1, in2) ==
  /\ Room(2)
  /\ txn' = [txn EXCEPT ![next] = StandardRow(in1, None),
                        ![next + 1] = StandardRow(in2, None)]
  /\ next' = next + 2
  /\ balance' = [a \in Accounts |-> balance[a] + InputOn(in1, a) + InputOn(in2, a)]
  /\ audited' = [a \in Accounts |-> audited[a] + InputOn(in1, a) + InputOn(in2, a)]
  /\ UNCHANGED transfer

-----------------------------------------------------------------------------
\* Faulty variant: the rows are removed.
HardDelete(S) == [i \in TxnId |-> IF i \in S THEN NoRow ELSE txn[i]]

Tombstone(S) ==
  [i \in TxnId |-> IF i \in S THEN [txn[i] EXCEPT !.deleted = TRUE] ELSE txn[i]]

\* The TransactionGoneError guards of the delete and replace handlers.
Reversible(i) ==
  /\ Live(i)
  /\ Live(Root(i))
  /\ IsOutflow(Root(i)) => ~transfer[Root(i)].deleted

TombstoneTransfer(o) ==
  IF IsOutflow(o) THEN [transfer EXCEPT ![o].deleted = TRUE] ELSE transfer

(* deleteTransactionForFamily: reverse every leg once and tombstone it.    *)
Delete(i) ==
  LET o == Root(i) IN
  /\ Reversible(i)
  /\ txn' = Tombstone(Movement(o))
  /\ transfer' = TombstoneTransfer(o)
  /\ balance' = [a \in Accounts |-> balance[a] - MovementOn(o, a)]
  /\ audited' = [a \in Accounts |-> audited[a] - DeleteAudit(o, a)]
  /\ UNCHANGED next

(* bulkDeleteTransactionsForFamily on the batch <<i, j>>: all rows must be *)
(* alive at the start, then each is deleted in order.  A later id that an  *)
(* earlier one already took with it is gone, and rolls the batch back.     *)
BulkDelete(i, j) ==
  LET o == Root(i)
      p == Root(j)
      dead == Movement(o)
      \* a fee that the first delete tombstoned is not reversed again
      on(a) == MovementOn(o, a) + MovementOn(p, a)
                 - (IF LiveFeeOf(p) \in dead THEN Posted(LiveFeeOf(p), a) ELSE 0)
  IN
  /\ i # j
  /\ Reversible(i)
  /\ Reversible(j)
  /\ {j, p} \cap dead = {}
  /\ txn' = Tombstone(dead \cup Movement(p))
  /\ transfer' = [k \in TxnId |->
                    IF k \in {o, p} /\ IsOutflow(k)
                    THEN [transfer[k] EXCEPT !.deleted = TRUE] ELSE transfer[k]]
  /\ balance' = [a \in Accounts |-> balance[a] - on(a)]
  /\ audited' = [a \in Accounts |-> audited[a] - on(a)]
  /\ UNCHANGED next

-----------------------------------------------------------------------------
\* Faulty variant: the successor link is forgotten.
SupersededUnlinked(i, by) == [txn[i] EXCEPT !.deleted = TRUE]

\* The tombstone of an old row that the new row `by` (or None) replaces.
Superseded(i, by) == [txn[i] EXCEPT !.deleted = TRUE, !.supersededBy = by]

(* replaceTransactionWithinTenantTransaction: reverse the old movement,    *)
(* post a new one, and link each new leg to the old leg it supersedes.     *)
Replace(i, in) ==
  LET o == Root(i)
      oldInflow == InflowOf(o)
  IN
  /\ Reversible(i)
  /\ Room(RowCount(in))
  /\ txn' = [k \in TxnId |->
               IF k \in NewIds(in) THEN NewRow(in, k - next, o, oldInflow)
               ELSE IF k = o THEN Superseded(k, next)
               ELSE IF k = oldInflow
                 THEN Superseded(k, IF in.type = "transfer" THEN next + 1 ELSE None)
               ELSE IF k = LiveFeeOf(o) THEN Superseded(k, None)
               ELSE txn[k]]
  /\ transfer' = [TombstoneTransfer(o) EXCEPT ![next] = NewTransfer(in)]
  /\ next' = next + RowCount(in)
  /\ balance' = [a \in Accounts |-> balance[a] - MovementOn(o, a) + InputOn(in, a)]
  /\ audited' = [a \in Accounts |->
                   audited[a] - MovementOn(o, a) + ReplaceAudit(in, a)]

(* updateTransactionForFamily: the client sends the complete new row.      *)
Update(i, in) == Replace(i, in)

(* buildBulkUpdateReplacementInput: bulkUpdateTransactionsForFamily sends  *)
(* only a patch, and the server rebuilds the rest from the named row.  The *)
(* kind falls back to the schema's default and no fee is carried over.  A  *)
(* batch replaces its rows one after the other, so one row is modelled.    *)
BulkInput(i, account) ==
  LET r == txn[i]
      amount == IF r.amount < 0 THEN -r.amount ELSE r.amount
  IN IF r.type = "transfer"
     THEN [type |-> "transfer", account |-> account, toAccount |-> r.toAccount,
           amount |-> amount, destination |-> r.destination,
           fee |-> None, feeAccount |-> account]
     ELSE [type |-> r.type, kind |-> "standard", account |-> account,
           amount |-> amount]

(* bulkUpdateTransactionsForFamily with a category or merchant patch: the  *)
(* account stays.                                                          *)
BulkRecategorize(i) ==
  /\ i \in Used
  /\ Replace(i, BulkInput(i, txn[i].account))

(* bulkUpdateTransactionsForFamily with an account patch; the transfer     *)
(* graph trigger refuses two legs on one account.                          *)
BulkMove(i, account) ==
  /\ i \in Used
  /\ txn[i].type = "transfer" => account # txn[i].toAccount
  /\ Replace(i, BulkInput(i, account))

-----------------------------------------------------------------------------
Next ==
  \/ \E in \in Input(Fees) : Create(in)
  \/ \E in1, in2 \in BulkRow : BulkCreate(in1, in2)
  \/ \E i \in Used : Delete(i)
  \/ \E i, j \in Used : BulkDelete(i, j)
  \/ \E i \in Used, in \in Input(EditFees) : Update(i, in)
  \/ \E i \in Used : BulkRecategorize(i)
  \/ \E i \in Used, a \in Accounts : BulkMove(i, a)

Spec == Init /\ [][Next]_vars

-----------------------------------------------------------------------------
(* Properties. *)

\* The tables hold rows of their types, and ids are handed out in order.
TypeOK ==
  /\ next \in 1..(MaxTxn + 1)
  /\ txn \in [TxnId -> Row \cup {NoRow}]
  /\ transfer \in [TxnId -> TransferRow \cup {NoTransfer}]
  /\ balance \in [Accounts -> Int]
  /\ audited \in [Accounts -> Int]
  /\ \A i \in TxnId : txn[i] # NoRow <=> i < next

\* The balance that the delta writes of applyAccountBalanceDelta leave on an
\* account is the sum of its rows that are not tombstoned: no path reverses a
\* leg twice, forgets one, or reverses a fee that was already deleted.
BalanceIsSumOfLiveRows ==
  \A a \in Accounts :
    balance[a] = MapThenSumSet(LAMBDA i : txn[i].amount,
                               {i \in Used : Live(i) /\ txn[i].account = a})

\* ADR-0012: a transfer with one leg alive and one dead is not representable,
\* and its Transfer row dies with the legs, whichever leg a request names.
TransferSymmetry ==
  \A o \in TxnId : IsOutflow(o) =>
    /\ Live(o) <=> ~transfer[o].deleted
    /\ Live(transfer[o].inflow) <=> ~transfer[o].deleted

\* A row that an edit replaced.  An edit that names a fee leg itself replaces
\* that leg alone, and Transfer.feeTransactionId goes on naming the tombstone.
EditedAlone(f) == txn[f].supersededBy # None

\* ADR-0035 section 6: a transfer that is deleted or replaced takes its fee leg
\* with it, and no live row stands in for that leg.  The exception is a fee that
\* was edited on its own: the code tombstones the row that the Transfer names
\* (transactions.ts:3098), and the row that replaced it lives on.
FeeFollowsTransfer ==
  \A o \in TxnId : IsOutflow(o) /\ transfer[o].deleted /\ transfer[o].fee # None =>
    /\ ~Live(transfer[o].fee)
    /\ ~EditedAlone(transfer[o].fee) =>
         \A i \in Used : Live(i) => txn[i].supersedes # transfer[o].fee

\* The legs of a transfer live and die together, and its fee leg dies with them:
\* whatever is deleted, edited or patched in bulk, and through whichever leg, a
\* movement that is gone leaves no live row, but for a fee edited on its own.
TransfersStayWhole == TransferSymmetry /\ FeeFollowsTransfer

\* The row that a chain of edits ended in.
EndOfChain[i \in TxnId] ==
  IF i \in Used
  THEN IF txn[i].supersededBy # None THEN EndOfChain[txn[i].supersededBy] ELSE i
  ELSE i

\* ADR-0035 section 6, as it is written: "soft-deleting the transfer also
\* soft-deletes / reverses the fee leg", however often that leg was edited.
DeletedTransferLeavesNoFee ==
  \A o \in TxnId : IsOutflow(o) /\ transfer[o].deleted /\ transfer[o].fee # None =>
    ~Live(EndOfChain[transfer[o].fee])

\* What the audit log tells of an account adds up to its balance, whatever is
\* created, edited and deleted, but for the fee of a transfer that an edit posted:
\* "the fee's own delta [...] is never folded into the transfer-leg balance audit"
\* (transactions.ts:2667) is true of the create path, while an edit folds it
\* (transactions.ts:3862) and logs it by an entry of its own as well.
AuditDriftIsExplained ==
  \A a \in Accounts :
    LET byEdit == {o \in TxnId : /\ IsOutflow(o) /\ txn[o].supersedes # None
                                 /\ transfer[o].fee # None /\ txn[transfer[o].fee].account = a}
    IN audited[a] = balance[a] + MapThenSumSet(LAMBDA o : txn[transfer[o].fee].amount, byEdit)

\* A leg belongs to one Transfer, in one role (the orphan, pairing and fee
\* triggers of the transfer graph).
LegsPairedOnce ==
  \A o \in TxnId : IsOutflow(o) =>
    /\ txn[o].account # txn[transfer[o].inflow].account
    /\ ~IsOutflow(transfer[o].inflow)
    /\ transfer[o].fee # None => ~IsOutflow(transfer[o].fee)
    /\ transfer[o].fee \notin {o, transfer[o].inflow}
    /\ \A p \in TxnId \ {o} : IsOutflow(p) =>
         {o, transfer[o].inflow, transfer[o].fee}
           \cap {p, transfer[p].inflow, transfer[p].fee} \subseteq {None}

\* The two supersession links of the replace path are inverse to each other,
\* and only a tombstoned row has a successor: an edit history never forks.
SupersessionIsLinear ==
  \A i \in Used :
    /\ txn[i].supersededBy # None =>
         txn[i].deleted /\ txn[txn[i].supersededBy].supersedes = i
    /\ txn[i].supersedes # None =>
         txn[i].supersedes < i /\ txn[txn[i].supersedes].supersededBy = i

\* findLedgerTransactionsForFamily: the rows that the ledger list shows.
Listed(i) ==
  /\ Live(i)
  /\ ~\E o \in TxnId : IsInflowOf(i, o)
  /\ IsOutflow(i) => ~transfer[i].deleted

\* The list shows every live movement once: a row that is alive is either on
\* it, or is the inflow leg of an outflow that is.
ListShowsEveryMovementOnce ==
  \A i \in Used : Live(i) => Listed(Root(i)) /\ (i # Root(i) => ~Listed(i))

\* Rows are history: none is removed or revived, and nothing of a row but its
\* tombstone and its successor link ever changes.
HistoryIsAppendOnly ==
  [][\A i \in Used :
       /\ txn'[i] # NoRow
       /\ txn[i].deleted => txn'[i] = txn[i]
       /\ txn'[i] = [txn[i] EXCEPT !.deleted = txn'[i].deleted,
                                   !.supersededBy = txn'[i].supersededBy]
       /\ IsOutflow(i) /\ transfer[i].deleted => transfer'[i] = transfer[i]]_vars

=============================================================================
