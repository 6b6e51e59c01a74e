---------------------------- MODULE LedgerProofs ----------------------------
(***************************************************************************)
(* Proofs about Ledger, for any accounts, amounts and fees and any bound   *)
(* on the rows.                                                            *)
(*                                                                         *)
(* Two ideas carry them.  Ids are handed out in order, so the legs of the  *)
(* transfer with outflow o are o, o + 1 and, if it has a fee, o + 2: module*)
(* definition Shape.  And every action kills a set of live rows that is    *)
(* closed under "belongs to the same transfer" and appends new rows:       *)
(* definition Shift.  Each action is shown to be a Shift, and a Shift to   *)
(* preserve the invariant.                                                 *)
(*                                                                         *)
(* The last part is about MarketData, which shares nothing with the ledger.*)
(***************************************************************************)
EXTENDS Ledger, MarketData, CollectionTheorems, SequenceTheorems

USE DEF TxnId, None

-----------------------------------------------------------------------------
(* What the handlers accept: a request of a client, or the input that the  *)
(* bulk path rebuilds from a row.                                          *)

Accepted(in) ==
  \/ /\ in.type \in {"income", "expense"}
     /\ in.kind \in Kinds
     /\ in.account \in Accounts
     /\ in.amount \in Int
  \/ /\ in.type = "transfer"
     /\ in.account \in Accounts
     /\ in.toAccount \in Accounts
     /\ in.account # in.toAccount
     /\ in.amount \in Int
     /\ in.destination \in Destinations \cup {None}
     /\ in.fee \in Int
     /\ in.feeAccount \in Accounts

LEMMA InputsAccepted ==
  ASSUME NEW fees, fees \subseteq Nat \ {0}, NEW in \in Input(fees)
  PROVE  Accepted(in)
<1>1. CASE in \in StandardInput
  BY <1>1, LedgerAssumption DEF StandardInput, Accepted, Kinds
<1>2. CASE in \in TransferInput(fees)
  <2>1. /\ in \in [type: {"transfer"}, account: Accounts, toAccount: Accounts,
                    amount: Amounts, destination: Destinations \cup {None},
                    fee: fees \cup {None}, feeAccount: Accounts]
        /\ in.account # in.toAccount
    BY <1>2 DEF TransferInput
  <2>2. Amounts \subseteq Int /\ fees \cup {None} \subseteq Int
    BY LedgerAssumption
  <2>3. in.amount \in Int /\ in.fee \in Int
    BY <2>1, <2>2
  <2>. QED  BY <2>1, <2>3 DEF Accepted
<1>. QED  BY <1>1, <1>2 DEF Input

\* A row that a transfer could have.
TransferPartner(r) ==
  r.type = "transfer" => r.toAccount \in Accounts /\ r.toAccount # r.account

LEMMA BulkInputAccepted ==
  ASSUME NEW i \in TxnId, txn[i] \in Row, TransferPartner(txn[i]),
         NEW account \in Accounts,
         txn[i].type = "transfer" => account # txn[i].toAccount
  PROVE  Accepted(BulkInput(i, account))
<1>. DEFINE r == txn[i]
<1>1. /\ r.type \in {"income", "expense", "transfer"}
      /\ r.amount \in Int /\ -r.amount \in Int
      /\ r.destination \in Destinations \cup {None}
  BY DEF Row
<1>2. CASE r.type = "transfer"
  BY <1>1, <1>2 DEF BulkInput, Accepted, TransferPartner
<1>3. CASE r.type # "transfer"
  BY <1>1, <1>3 DEF BulkInput, Accepted, Kinds
<1>. QED  BY <1>2, <1>3

LEMMA MakeRowType ==
  ASSUME NEW type \in {"income", "expense", "transfer"}, NEW kind \in Kinds,
         NEW account \in Accounts, NEW toAccount \in Accounts \cup {None},
         NEW amount \in Int, NEW destination \in Destinations \cup {None},
         NEW old \in TxnId \cup {None}
  PROVE  MakeRow(type, kind, account, toAccount, amount, destination, old) \in Row
BY DEF MakeRow, Row

\* The rows that a request inserts.
LEMMA NewRowType ==
  ASSUME NEW in, Accepted(in), NEW k \in 0 .. RowCount(in) - 1,
         NEW o \in TxnId \cup {None}, NEW p \in TxnId \cup {None}
  PROVE  /\ NewRow(in, k, o, p) \in Row
         /\ ~NewRow(in, k, o, p).deleted
         /\ NewRow(in, k, o, p).supersededBy = None
         /\ TransferPartner(NewRow(in, k, o, p))
<1>1. CASE in.type # "transfer"
  <2>1. NewRow(in, k, o, p) = StandardRow(in, o)
    BY <1>1 DEF NewRow
  <2>2. /\ in.type \in {"income", "expense"} /\ in.kind \in Kinds
        /\ in.account \in Accounts /\ in.amount \in Int
    BY <1>1 DEF Accepted
  <2>3. StandardRow(in, o) \in Row
    <3>1. (IF in.type = "expense" THEN -in.amount ELSE in.amount) \in Int
      BY <2>2
    <3>. QED  BY <2>2, <3>1, MakeRowType DEF StandardRow
  <2>. QED  BY <2>1, <2>2, <2>3 DEF StandardRow, MakeRow, TransferPartner
<1>2. CASE in.type = "transfer"
  <2>1. /\ in.account \in Accounts /\ in.toAccount \in Accounts
        /\ in.account # in.toAccount
        /\ in.amount \in Int /\ -in.amount \in Int
        /\ in.destination \in Destinations \cup {None}
        /\ in.fee \in Int /\ -in.fee \in Int /\ in.feeAccount \in Accounts
    BY <1>2 DEF Accepted
  <2>2. Received(in) \in Int
    <3>1. Destinations \subseteq Int
      BY LedgerAssumption
    <3>2. in.destination # None => in.destination \in Int
      BY <2>1, <3>1
    <3>. QED  BY <2>1, <3>2 DEF Received
  <2>3. CASE k = 0
    <3>1. NewRow(in, k, o, p) = OutflowRow(in, o)
      BY <1>2, <2>3 DEF NewRow
    <3>2. OutflowRow(in, o) \in Row
      BY <2>1, MakeRowType DEF OutflowRow, Kinds
    <3>. QED  BY <2>1, <3>1, <3>2 DEF OutflowRow, MakeRow, TransferPartner
  <2>4. CASE k = 1
    <3>1. NewRow(in, k, o, p) = InflowRow(in, p)
      BY <1>2, <2>4 DEF NewRow
    <3>2. InflowRow(in, p) \in Row
      BY <2>1, <2>2, MakeRowType DEF InflowRow, Kinds
    <3>. QED  BY <2>1, <3>1, <3>2 DEF InflowRow, MakeRow, TransferPartner
  <2>5. CASE k # 0 /\ k # 1
    <3>1. NewRow(in, k, o, p) = FeeRow(in)
      BY <1>2, <2>5 DEF NewRow
    <3>2. FeeRow(in) \in Row
      BY <2>1, MakeRowType DEF FeeRow, Kinds
    <3>. QED  BY <3>1, <3>2 DEF FeeRow, MakeRow, TransferPartner
  <2>. QED  BY <2>3, <2>4, <2>5
<1>. QED  BY <1>1, <1>2

LEMMA InputOnType ==
  ASSUME NEW in, Accepted(in), NEW a \in Accounts
  PROVE  /\ InputOn(in, a) \in Int
         /\ CreateAudit(in, a) \in Int
         /\ ReplaceAudit(in, a) \in Int
<1>1. FeeOn(in, a) \in Int
  BY DEF FeeOn, Accepted
<1>2. LegsOn(in, a) \in Int
  <2>1. CASE in.type # "transfer"
    <3>1. StandardRow(in, None).amount \in Int
      BY <2>1 DEF StandardRow, MakeRow, Accepted
    <3>. QED  BY <2>1, <3>1 DEF LegsOn
  <2>2. CASE in.type = "transfer"
    <3>1. in.amount \in Int /\ in.destination \in Destinations \cup {None}
      BY <2>2 DEF Accepted
    <3>2. Received(in) \in Int
      <4>1. Destinations \cup {None} \subseteq Int
        BY LedgerAssumption
      <4>. QED  BY <3>1, <4>1 DEF Received
    <3>. QED  BY <2>2, <3>1, <3>2 DEF LegsOn
  <2>. QED  BY <2>1, <2>2
<1>. QED  BY <1>1, <1>2 DEF InputOn, CreateAudit, ReplaceAudit

-----------------------------------------------------------------------------
(* The invariant.                                                          *)

\* Where the legs of a transfer are, and what a leg names.
Shape ==
  /\ \A i \in TxnId : txn[i] # NoRow => TransferPartner(txn[i])
  /\ \A o \in TxnId : IsOutflow(o) =>
       /\ o + 1 < next
       /\ transfer[o].inflow = o + 1
       /\ ~IsOutflow(o + 1)
       /\ transfer[o].fee # None =>
            transfer[o].fee = o + 2 /\ o + 2 < next /\ ~IsOutflow(o + 2)
       /\ txn[o].account # txn[o + 1].account

\* The part of FeeFollowsTransfer that is about the leg itself.
FeeFalls ==
  \A o \in TxnId : IsOutflow(o) /\ transfer[o].deleted /\ transfer[o].fee # None
    => ~Live(transfer[o].fee)

Inv == TypeOK /\ Shape /\ TransferSymmetry /\ FeeFalls

NewRange(n) == next .. (next + n - 1)

\* A step that kills the rows K, tombstones the transfers D, and appends n
\* rows, paired by the Transfer row `new` unless that is NoTransfer.
Shift(n, K, D, new) ==
  /\ n \in Nat /\ next + n <= MaxTxn + 1 /\ next' = next + n
  /\ K \subseteq TxnId /\ D \subseteq TxnId
  \* the rows
  /\ txn' \in [TxnId -> Row \cup {NoRow}]
  /\ \A k \in NewRange(n) :
       txn'[k] \in Row /\ ~txn'[k].deleted /\ TransferPartner(txn'[k])
  /\ \A k \in K :
       /\ Live(k)
       /\ \E by \in TxnId \cup {None} :
            txn'[k] = [txn[k] EXCEPT !.deleted = TRUE, !.supersededBy = by]
  /\ \A k \in TxnId \ K : k \notin NewRange(n) => txn'[k] = txn[k]
  \* the transfers
  /\ transfer' \in [TxnId -> TransferRow \cup {NoTransfer}]
  /\ \A o \in D :
       /\ IsOutflow(o) /\ ~transfer[o].deleted
       /\ transfer'[o] = [transfer[o] EXCEPT !.deleted = TRUE]
  /\ new # NoTransfer =>
       /\ n >= 2
       /\ transfer'[next] = new
       /\ new \in TransferRow
       /\ new.inflow = next + 1
       /\ new.fee # None => n >= 3 /\ new.fee = next + 2
       /\ ~new.deleted
       /\ txn'[next].account # txn'[next + 1].account
  /\ \A o \in TxnId \ D :
       o # next \/ new = NoTransfer => transfer'[o] = transfer[o]
  \* what is killed is closed under belonging to one transfer
  /\ \A o \in TxnId : IsOutflow(o) =>
       IF o \in D
       THEN /\ o \in K /\ o + 1 \in K
            /\ transfer[o].fee # None =>
                 transfer[o].fee \in K \/ txn[transfer[o].fee].deleted
       ELSE o \notin K /\ o + 1 \notin K
  /\ balance' \in [Accounts -> Int]
  /\ audited' \in [Accounts -> Int]

\* Rows that a step kills or leaves alone.
LEMMA ShiftRows ==
  ASSUME TypeOK, NEW n, NEW K, NEW D, NEW new, Shift(n, K, D, new),
         NEW i \in TxnId, i < next
  PROVE  /\ txn[i] \in Row /\ txn'[i] \in Row
         /\ txn[i] # NoRow /\ txn'[i] # NoRow
         /\ txn'[i].account = txn[i].account
         /\ txn'[i].type = txn[i].type
         /\ txn'[i].toAccount = txn[i].toAccount
         /\ txn[i].deleted => txn'[i] = txn[i]
         /\ i \in K => ~txn[i].deleted /\ txn'[i].deleted
         /\ i \notin K => txn'[i] = txn[i]
         /\ \E d \in BOOLEAN, by \in TxnId \cup {None} :
              txn'[i] = [txn[i] EXCEPT !.deleted = d, !.supersededBy = by]
<1>1. txn[i] \in Row /\ txn[i] # NoRow
  BY DEF TypeOK
<1>2. i \notin NewRange(n)
  <2>1. next \in Int
    BY LedgerAssumption DEF TypeOK
  <2>. QED  BY <2>1 DEF NewRange
<1>3. CASE i \notin K
  <2>1. txn'[i] = txn[i]
    BY <1>2, <1>3 DEF Shift
  <2>2. txn[i] = [txn[i] EXCEPT !.deleted = txn[i].deleted,
                                !.supersededBy = txn[i].supersededBy]
    BY <1>1 DEF Row
  <2>3. txn[i].deleted \in BOOLEAN /\ txn[i].supersededBy \in TxnId \cup {None}
    BY <1>1 DEF Row
  <2>. QED  BY <1>1, <1>3, <2>1, <2>2, <2>3
<1>4. CASE i \in K
  <2>1. PICK by \in TxnId \cup {None} :
          txn'[i] = [txn[i] EXCEPT !.deleted = TRUE, !.supersededBy = by]
    BY <1>4 DEF Shift
  <2>2. ~txn[i].deleted
    BY <1>4 DEF Shift, Live
  <2>3. /\ txn'[i] \in Row
        /\ txn'[i].deleted
        /\ txn'[i].account = txn[i].account
        /\ txn'[i].type = txn[i].type
        /\ txn'[i].toAccount = txn[i].toAccount
    BY <1>1, <2>1 DEF Row
  <2>4. txn'[i] # NoRow
    BY <2>3, AbsentAssumption
  <2>. QED  BY <1>1, <1>4, <2>1, <2>2, <2>3, <2>4
<1>. QED  BY <1>3, <1>4

\* Transfers that a step tombstones or leaves alone.
LEMMA ShiftTransfers ==
  ASSUME TypeOK, Shape, NEW n, NEW K, NEW D, NEW new, Shift(n, K, D, new),
         NEW o \in TxnId
  PROVE  /\ IsOutflow(o) =>
              /\ o < next /\ o + 1 \in TxnId /\ o + 1 < next
              /\ transfer[o] \in TransferRow /\ transfer'[o] \in TransferRow
              /\ IsOutflow(o)'
              /\ transfer'[o].inflow = transfer[o].inflow
              /\ transfer'[o].fee = transfer[o].fee
              /\ o \in D => ~transfer[o].deleted /\ transfer'[o].deleted
              /\ o \notin D => transfer'[o] = transfer[o]
         /\ IsOutflow(o)' /\ ~IsOutflow(o) =>
              o = next /\ new # NoTransfer /\ transfer'[o] = new
<1>1. CASE IsOutflow(o)
  <2>1. o + 1 < next
    BY <1>1 DEF Shape
  <2>2. o < next /\ o # next /\ o + 1 \in TxnId /\ transfer[o] \in TransferRow
    <3>1. MaxTxn \in Int /\ next \in Int /\ next <= MaxTxn + 1
      BY LedgerAssumption DEF TypeOK
    <3>2. transfer[o] \in TransferRow
      BY <1>1 DEF TypeOK, IsOutflow
    <3>. QED  BY <2>1, <3>1, <3>2
  <2>3. CASE o \in D
    <3>1. /\ transfer'[o] = [transfer[o] EXCEPT !.deleted = TRUE]
          /\ ~transfer[o].deleted
      BY <2>3 DEF Shift
    <3>2. /\ transfer'[o] \in TransferRow
          /\ transfer'[o].deleted
          /\ transfer'[o].inflow = transfer[o].inflow
          /\ transfer'[o].fee = transfer[o].fee
      BY <2>2, <3>1 DEF TransferRow
    <3>3. IsOutflow(o)'
      BY <3>2, AbsentAssumption DEF IsOutflow
    <3>. QED  BY <1>1, <2>1, <2>2, <2>3, <3>1, <3>2, <3>3
  <2>4. CASE o \notin D
    <3>1. transfer'[o] = transfer[o]
      BY <2>2, <2>4 DEF Shift
    <3>2. IsOutflow(o)'
      BY <1>1, <3>1 DEF IsOutflow
    <3>. QED  BY <1>1, <2>1, <2>2, <2>4, <3>1, <3>2
  <2>. QED  BY <2>3, <2>4
<1>2. CASE ~IsOutflow(o)
  <2>1. o \notin D
    BY <1>2 DEF Shift
  <2>2. o # next \/ new = NoTransfer => transfer'[o] = NoTransfer
    BY <1>2, <2>1 DEF Shift, IsOutflow
  <2>3. IsOutflow(o)' => o = next /\ new # NoTransfer
    BY <2>2 DEF IsOutflow
  <2>4. new # NoTransfer => transfer'[next] = new
    BY DEF Shift
  <2>. QED  BY <1>2, <2>3, <2>4
<1>. QED  BY <1>1, <1>2

LEMMA ShiftTypeOK ==
  ASSUME Inv, NEW n, NEW K, NEW D, NEW new, Shift(n, K, D, new)
  PROVE  TypeOK'
<1>1. MaxTxn \in Nat /\ next \in 1..(MaxTxn + 1) /\ n \in Nat
      /\ next + n <= MaxTxn + 1 /\ next' = next + n
  BY LedgerAssumption DEF Inv, TypeOK, Shift
<1>2. ASSUME NEW i \in TxnId
      PROVE  txn'[i] # NoRow <=> i < next'
  <2>1. CASE i < next
    <3>1. txn'[i] # NoRow
      BY <2>1, ShiftRows DEF Inv
    <3>. QED  BY <1>1, <2>1, <3>1
  <2>2. CASE i \in NewRange(n)
    <3>1. txn'[i] # NoRow
      BY <2>2, AbsentAssumption DEF Shift
    <3>. QED  BY <1>1, <2>2, <3>1 DEF NewRange
  <2>3. CASE ~(i < next) /\ i \notin NewRange(n)
    <3>1. txn[i] = NoRow
      BY <2>3 DEF Inv, TypeOK
    <3>2. i \notin K
      BY <3>1 DEF Shift, Live
    <3>3. txn'[i] = NoRow
      BY <2>3, <3>1, <3>2 DEF Shift
    <3>. QED  BY <1>1, <2>3, <3>3 DEF NewRange
  <2>. QED  BY <2>1, <2>2, <2>3
<1>3. next' \in 1..(MaxTxn + 1)
  BY <1>1
<1>4. /\ txn' \in [TxnId -> Row \cup {NoRow}]
      /\ transfer' \in [TxnId -> TransferRow \cup {NoTransfer}]
      /\ balance' \in [Accounts -> Int]
      /\ audited' \in [Accounts -> Int]
  BY DEF Shift
<1>. QED  BY <1>2, <1>3, <1>4 DEF TypeOK

LEMMA ShiftShape ==
  ASSUME Inv, NEW n, NEW K, NEW D, NEW new, Shift(n, K, D, new)
  PROVE  Shape'
<1>1. /\ MaxTxn \in Nat /\ next \in 1..(MaxTxn + 1) /\ n \in Nat
      /\ next + n <= MaxTxn + 1 /\ next' = next + n
  BY LedgerAssumption DEF Inv, TypeOK, Shift
<1>2. ASSUME NEW i \in TxnId, txn'[i] # NoRow
      PROVE  TransferPartner(txn'[i])
  <2>1. TypeOK'
    BY ShiftTypeOK
  <2>2. i < next'
    BY <1>2, <2>1 DEF TypeOK
  <2>3. CASE i < next
    <3>1. /\ txn[i] # NoRow
          /\ txn'[i].account = txn[i].account
          /\ txn'[i].type = txn[i].type
          /\ txn'[i].toAccount = txn[i].toAccount
      BY <2>3, ShiftRows DEF Inv
    <3>. QED  BY <3>1 DEF Inv, Shape, TransferPartner
  <2>4. CASE ~(i < next)
    <3>1. i \in NewRange(n)
      BY <1>1, <2>2, <2>4 DEF NewRange
    <3>. QED  BY <3>1 DEF Shift
  <2>. QED  BY <2>3, <2>4
<1>3. ASSUME NEW o \in TxnId, IsOutflow(o)'
      PROVE  /\ o + 1 < next'
             /\ transfer'[o].inflow = o + 1
             /\ ~IsOutflow(o + 1)'
             /\ transfer'[o].fee # None =>
                  transfer'[o].fee = o + 2 /\ o + 2 < next' /\ ~IsOutflow(o + 2)'
             /\ txn'[o].account # txn'[o + 1].account
  <2>1. CASE IsOutflow(o)
    <3>1. /\ o + 1 < next
          /\ transfer[o].inflow = o + 1
          /\ ~IsOutflow(o + 1)
          /\ transfer[o].fee # None =>
               transfer[o].fee = o + 2 /\ o + 2 < next /\ ~IsOutflow(o + 2)
          /\ txn[o].account # txn[o + 1].account
      BY <2>1 DEF Inv, Shape
    <3>2. transfer'[o].inflow = transfer[o].inflow /\ transfer'[o].fee = transfer[o].fee
      BY <2>1, ShiftTransfers DEF Inv
    <3>3. o < next /\ o + 1 \in TxnId /\ o + 1 # next
      BY <1>1, <3>1
    <3>4. ~IsOutflow(o + 1)'
      BY <3>1, <3>3, ShiftTransfers DEF Inv
    <3>5. transfer[o].fee # None => ~IsOutflow(o + 2)'
      <4>1. SUFFICES ASSUME transfer[o].fee # None PROVE ~IsOutflow(o + 2)'
        OBVIOUS
      <4>2. o + 2 \in TxnId /\ o + 2 # next /\ ~IsOutflow(o + 2)
        BY <1>1, <3>1, <4>1
      <4>. QED  BY <4>2, ShiftTransfers DEF Inv
    <3>6. txn'[o].account = txn[o].account /\ txn'[o + 1].account = txn[o + 1].account
      BY <3>1, <3>3, ShiftRows DEF Inv
    <3>. QED  BY <1>1, <3>1, <3>2, <3>4, <3>5, <3>6
  <2>2. CASE ~IsOutflow(o)
    <3>1. o = next /\ new # NoTransfer /\ transfer'[o] = new
      BY <1>3, <2>2, ShiftTransfers DEF Inv
    <3>2. /\ n >= 2 /\ new.inflow = next + 1
          /\ new.fee # None => n >= 3 /\ new.fee = next + 2
          /\ txn'[next].account # txn'[next + 1].account
      BY <3>1 DEF Shift
    <3>3. ASSUME NEW p \in TxnId, p > next
          PROVE  transfer'[p] = NoTransfer
      <4>1. ~IsOutflow(p)
        BY <1>1, <3>3 DEF Inv, Shape
      <4>2. ~IsOutflow(p)'
        BY <1>1, <3>3, <4>1, ShiftTransfers DEF Inv
      <4>. QED  BY <4>2 DEF IsOutflow
    <3>4. transfer'[next + 1] = NoTransfer
      <4>1. next + 1 \in TxnId /\ next + 1 > next
        BY <1>1, <3>2
      <4>. QED  BY <3>3, <4>1
    <3>5. new.fee # None => transfer'[next + 2] = NoTransfer
      <4>1. new.fee # None => next + 2 \in TxnId /\ next + 2 > next
        BY <1>1, <3>2
      <4>. QED  BY <3>3, <4>1
    <3>. QED  BY <1>1, <3>1, <3>2, <3>4, <3>5 DEF IsOutflow
  <2>. QED  BY <2>1, <2>2
<1>. QED  BY <1>2, <1>3 DEF Shape, IsOutflow

LEMMA ShiftSymmetry ==
  ASSUME Inv, NEW n, NEW K, NEW D, NEW new, Shift(n, K, D, new)
  PROVE  TransferSymmetry' /\ FeeFalls'
<1>1. /\ MaxTxn \in Nat /\ next \in 1..(MaxTxn + 1) /\ n \in Nat
      /\ next + n <= MaxTxn + 1 /\ next' = next + n
  BY LedgerAssumption DEF Inv, TypeOK, Shift
<1>2. ASSUME NEW i \in TxnId, i < next
      PROVE  /\ Live(i) <=> ~txn[i].deleted
             /\ txn'[i] # NoRow
             /\ i \in K => txn'[i].deleted
             /\ i \notin K => txn'[i] = txn[i]
             /\ txn[i].deleted => txn'[i].deleted
  <2>1. /\ txn[i] # NoRow /\ txn'[i] # NoRow
        /\ txn[i].deleted => txn'[i] = txn[i]
        /\ i \in K => ~txn[i].deleted /\ txn'[i].deleted
        /\ i \notin K => txn'[i] = txn[i]
    <3>1. TypeOK
      BY DEF Inv
    <3>2. txn[i] # NoRow /\ txn'[i] # NoRow
      BY <1>2, <3>1, ShiftRows
    <3>3. txn[i].deleted => txn'[i] = txn[i]
      BY <1>2, <3>1, ShiftRows
    <3>4. i \in K => ~txn[i].deleted /\ txn'[i].deleted
      BY <1>2, <3>1, ShiftRows
    <3>5. i \notin K => txn'[i] = txn[i]
      <4>1. i \notin NewRange(n)
        BY <1>1, <1>2 DEF NewRange
      <4>. QED  BY <4>1 DEF Shift
    <3>. QED  BY <3>2, <3>3, <3>4, <3>5
  <2>. QED  BY <2>1 DEF Live
<1>3. ASSUME NEW i \in NewRange(n)
      PROVE  txn'[i] # NoRow /\ ~txn'[i].deleted
  BY <1>3, AbsentAssumption DEF Shift
<1>4. ASSUME NEW o \in TxnId, IsOutflow(o)'
      PROVE  /\ txn'[o] # NoRow /\ txn'[transfer'[o].inflow] # NoRow
             /\ ~txn'[o].deleted <=> ~transfer'[o].deleted
             /\ ~txn'[transfer'[o].inflow].deleted <=> ~transfer'[o].deleted
             /\ transfer'[o].deleted /\ transfer'[o].fee # None =>
                  txn'[transfer'[o].fee].deleted
  <2>1. CASE IsOutflow(o)
    <3>1. /\ o < next /\ o + 1 \in TxnId /\ o + 1 < next
          /\ transfer'[o].inflow = o + 1
          /\ transfer'[o].fee = transfer[o].fee
          /\ transfer[o].fee # None => transfer[o].fee \in TxnId /\ transfer[o].fee < next
          /\ o \in D => transfer'[o].deleted
          /\ o \notin D => transfer'[o] = transfer[o]
      BY <1>1, <2>1, ShiftTransfers DEF Inv, Shape
    <3>2. ~txn[o].deleted <=> ~transfer[o].deleted
      BY <1>2, <2>1, <3>1 DEF Inv, TransferSymmetry
    <3>3. ~txn[o + 1].deleted <=> ~transfer[o].deleted
      <4>1. transfer[o].inflow = o + 1
        BY <2>1 DEF Inv, Shape
      <4>2. Live(o + 1) <=> ~transfer[o].deleted
        BY <2>1, <4>1 DEF Inv, TransferSymmetry
      <4>. QED  BY <1>2, <3>1, <4>2
    <3>4. transfer[o].deleted /\ transfer[o].fee # None => txn[transfer[o].fee].deleted
      BY <1>2, <2>1, <3>1 DEF Inv, FeeFalls
    <3>5. CASE o \in D
      <4>1. /\ o \in K /\ o + 1 \in K
            /\ transfer[o].fee # None =>
                 transfer[o].fee \in K \/ txn[transfer[o].fee].deleted
        BY <2>1, <3>5 DEF Shift
      <4>2. txn'[o].deleted /\ txn'[o + 1].deleted
        BY <1>2, <3>1, <4>1
      <4>3. transfer[o].fee # None => txn'[transfer[o].fee].deleted
        BY <1>2, <3>1, <4>1
      <4>. QED  BY <1>2, <3>1, <3>5, <4>2, <4>3
    <3>6. CASE o \notin D
      <4>1. o \notin K /\ o + 1 \notin K
        BY <2>1, <3>6 DEF Shift
      <4>2. txn'[o] = txn[o] /\ txn'[o + 1] = txn[o + 1]
        BY <1>2, <3>1, <4>1
      <4>3. transfer[o].fee # None /\ txn[transfer[o].fee].deleted
              => txn'[transfer[o].fee].deleted
        BY <1>2, <3>1
      <4>. QED  BY <1>2, <3>1, <3>2, <3>3, <3>4, <3>6, <4>2, <4>3
    <3>. QED  BY <3>5, <3>6
  <2>2. CASE ~IsOutflow(o)
    <3>1. o = next /\ new # NoTransfer /\ transfer'[o] = new
      BY <1>4, <2>2, ShiftTransfers DEF Inv
    <3>2. n >= 2 /\ new.inflow = next + 1 /\ ~new.deleted
      BY <3>1 DEF Shift
    <3>3. next \in NewRange(n) /\ next + 1 \in NewRange(n)
      BY <1>1, <3>2 DEF NewRange
    <3>4. /\ txn'[next] # NoRow /\ ~txn'[next].deleted
          /\ txn'[next + 1] # NoRow /\ ~txn'[next + 1].deleted
      BY <1>3, <3>3
    <3>. QED  BY <3>1, <3>2, <3>4
  <2>. QED  BY <2>1, <2>2
<1>. QED  BY <1>4 DEF TransferSymmetry, FeeFalls, IsOutflow, Live

LEMMA ShiftKeepsInv ==
  ASSUME Inv, NEW n, NEW K, NEW D, NEW new, Shift(n, K, D, new)
  PROVE  Inv'
BY ShiftTypeOK, ShiftShape, ShiftSymmetry DEF Inv

\* What a step may never do to history, for a Shift.
LEMMA ShiftAppends ==
  ASSUME Inv, NEW n, NEW K, NEW D, NEW new, Shift(n, K, D, new),
         NEW i \in Used
  PROVE  /\ txn'[i] # NoRow
         /\ txn[i].deleted => txn'[i] = txn[i]
         /\ txn'[i] = [txn[i] EXCEPT !.deleted = txn'[i].deleted,
                                     !.supersededBy = txn'[i].supersededBy]
         /\ IsOutflow(i) /\ transfer[i].deleted => transfer'[i] = transfer[i]
<1>1. TypeOK /\ Shape
  BY DEF Inv
<1>2. i \in TxnId /\ i < next /\ txn[i] \in Row
  BY <1>1 DEF Used, TypeOK
<1>3. txn'[i] # NoRow
  BY <1>1, <1>2, ShiftRows
<1>4. txn[i].deleted => txn'[i] = txn[i]
  BY <1>1, <1>2, ShiftRows
<1>5. txn'[i] = [txn[i] EXCEPT !.deleted = txn'[i].deleted,
                               !.supersededBy = txn'[i].supersededBy]
  <2>1. PICK d \in BOOLEAN, by \in TxnId \cup {None} :
          txn'[i] = [txn[i] EXCEPT !.deleted = d, !.supersededBy = by]
    BY <1>1, <1>2, ShiftRows
  <2>2. txn'[i].deleted = d /\ txn'[i].supersededBy = by
    BY <1>2, <2>1 DEF Row
  <2>. QED  BY <2>1, <2>2
<1>6. IsOutflow(i) /\ transfer[i].deleted => transfer'[i] = transfer[i]
  BY <1>1, <1>2, ShiftTransfers
<1>. QED  BY <1>3, <1>4, <1>5, <1>6

-----------------------------------------------------------------------------
(* The row a request names, and the rows that go with it.                  *)

LEMMA NumberFacts ==
  ASSUME TypeOK
  PROVE  /\ MaxTxn \in Nat
         /\ next \in Nat /\ 1 <= next /\ next <= MaxTxn + 1
BY LedgerAssumption DEF TypeOK

LEMMA RowCountFacts ==
  ASSUME NEW in
  PROVE  /\ RowCount(in) \in 1..3
         /\ in.type = "transfer" => RowCount(in) >= 2
         /\ in.type = "transfer" /\ in.fee # None => RowCount(in) = 3
         /\ RowCount(in) = 1 => in.type # "transfer"
BY DEF RowCount

\* No transfer has this row as its inflow leg.
NoInflow(o) == \A p \in TxnId : IsOutflow(p) => p + 1 # o

LEMMA RootFacts ==
  ASSUME Inv, NEW i \in TxnId
  PROVE  /\ Root(i) \in TxnId
         /\ NoInflow(Root(i))
         /\ \/ Root(i) = i
            \/ IsOutflow(Root(i)) /\ Root(i) + 1 = i
<1>1. CASE \E o \in TxnId : IsInflowOf(i, o)
  <2>1. Root(i) = CHOOSE o \in TxnId : IsInflowOf(i, o)
    BY <1>1 DEF Root
  <2>2. Root(i) \in TxnId /\ IsInflowOf(i, Root(i))
    BY <1>1, <2>1, Zenon
  <2>3. IsOutflow(Root(i)) /\ transfer[Root(i)].inflow = i
    BY <2>2 DEF IsInflowOf
  <2>4. Root(i) + 1 = i
    BY <2>2, <2>3 DEF Inv, Shape
  <2>5. ASSUME NEW p \in TxnId, IsOutflow(p), p + 1 = Root(i)
        PROVE  FALSE
    <3>1. ~IsOutflow(p + 1)
      BY <2>5 DEF Inv, Shape
    <3>. QED  BY <2>3, <2>5, <3>1
  <2>. QED  BY <2>2, <2>3, <2>4, <2>5 DEF NoInflow
<1>2. CASE ~\E o \in TxnId : IsInflowOf(i, o)
  <2>1. Root(i) = i
    BY <1>2 DEF Root
  <2>2. ASSUME NEW p \in TxnId, IsOutflow(p), p + 1 = i
        PROVE  FALSE
    <3>1. transfer[p].inflow = i
      BY <2>2 DEF Inv, Shape
    <3>. QED  BY <1>2, <2>2, <3>1 DEF IsInflowOf
  <2>. QED  BY <2>1, <2>2 DEF NoInflow
<1>. QED  BY <1>1, <1>2

\* The root row of a request that may be reversed.
Reversing(o) ==
  /\ o \in TxnId
  /\ Live(o)
  /\ NoInflow(o)
  /\ IsOutflow(o) => ~transfer[o].deleted

LEMMA RootReversing ==
  ASSUME Inv, NEW i \in TxnId, Reversible(i)
  PROVE  Reversing(Root(i))
BY RootFacts DEF Reversible, Reversing

\* The killed rows are alive, and they are whole transfers or no part of one.
LEMMA MovementFacts ==
  ASSUME Inv, NEW o, Reversing(o)
  PROVE  /\ Movement(o) \subseteq TxnId
         /\ \A k \in Movement(o) : Live(k)
         /\ o \in Movement(o)
         /\ IsOutflow(o) =>
              /\ o + 1 \in Movement(o)
              /\ transfer[o].fee # None =>
                   transfer[o].fee \in Movement(o) \/ txn[transfer[o].fee].deleted
         /\ \A p \in TxnId \ {o} :
              IsOutflow(p) => p \notin Movement(o) /\ p + 1 \notin Movement(o)
<1>1. o \in TxnId /\ Live(o) /\ NoInflow(o)
  BY DEF Reversing
<1>2. CASE ~IsOutflow(o)
  <2>1. Movement(o) = {o}
    BY <1>1, <1>2 DEF Movement, InflowOf, LiveFeeOf
  <2>. QED  BY <1>1, <1>2, <2>1 DEF NoInflow
<1>3. CASE IsOutflow(o)
  <2>. DEFINE f == transfer[o].fee
  <2>1. /\ o + 1 < next
        /\ transfer[o].inflow = o + 1
        /\ ~IsOutflow(o + 1)
        /\ f # None => f = o + 2 /\ o + 2 < next /\ ~IsOutflow(o + 2)
    BY <1>1, <1>3 DEF Inv, Shape
  <2>2. MaxTxn \in Nat /\ next \in 1..(MaxTxn + 1)
    BY LedgerAssumption DEF Inv, TypeOK
  <2>3. o + 1 \in TxnId /\ (f # None => f \in TxnId /\ f < next)
    BY <1>1, <2>1, <2>2
  <2>4. Live(o + 1)
    BY <1>1, <1>3, <2>1 DEF Inv, TransferSymmetry, Reversing
  <2>5. InflowOf(o) = o + 1
    BY <1>3, <2>1 DEF InflowOf
  <2>6. CASE f = None \/ txn[f].deleted
    <3>1. LiveFeeOf(o) = None
      BY <2>6 DEF LiveFeeOf
    <3>2. Movement(o) = {o, o + 1}
      BY <1>1, <2>5, <3>1 DEF Movement
    <3>3. \A p \in TxnId \ {o} :
            IsOutflow(p) => p \notin Movement(o) /\ p + 1 \notin Movement(o)
      BY <1>1, <2>1, <3>2 DEF NoInflow
    <3>. QED  BY <1>1, <2>3, <2>4, <2>6, <3>2, <3>3
  <2>7. CASE f # None /\ ~txn[f].deleted
    <3>1. LiveFeeOf(o) = o + 2
      BY <1>3, <2>1, <2>7 DEF LiveFeeOf
    <3>2. Movement(o) = {o, o + 1, o + 2}
      BY <1>1, <2>5, <3>1 DEF Movement
    <3>3. txn[f] # NoRow
      BY <2>3, <2>7 DEF Inv, TypeOK
    <3>4. Live(o + 2)
      BY <2>1, <2>7, <3>3 DEF Live
    <3>5. \A p \in TxnId \ {o} :
            IsOutflow(p) => p \notin Movement(o) /\ p + 1 \notin Movement(o)
      <4>1. SUFFICES ASSUME NEW p \in TxnId \ {o}, IsOutflow(p)
                     PROVE  p \notin Movement(o) /\ p + 1 \notin Movement(o)
        OBVIOUS
      <4>2. p # o + 1 /\ p # o + 2
        BY <2>1, <2>7, <4>1
      <4>3. p + 1 # o
        BY <1>1, <4>1 DEF NoInflow
      <4>. QED  BY <1>1, <3>2, <4>1, <4>2, <4>3
    <3>. QED  BY <1>1, <2>1, <2>3, <2>4, <2>7, <3>2, <3>4, <3>5
  <2>. QED  BY <2>6, <2>7
<1>. QED  BY <1>2, <1>3

LEMMA PostedType ==
  ASSUME TypeOK, NEW k \in TxnId \cup {None}, k # None => txn[k] # NoRow,
         NEW a \in Accounts
  PROVE  Posted(k, a) \in Int
<1>1. CASE k = None
  BY <1>1 DEF Posted
<1>2. CASE k # None
  <2>1. txn[k] \in Row
    BY <1>2 DEF TypeOK
  <2>2. txn[k].amount \in Int
    BY <2>1 DEF Row
  <2>. QED  BY <1>2, <2>2 DEF Posted
<1>. QED  BY <1>1, <1>2

LEMMA MovementOnType ==
  ASSUME Inv, NEW o, Reversing(o), NEW a \in Accounts
  PROVE  MovementOn(o, a) \in Int /\ Posted(LiveFeeOf(o), a) \in Int
<1>1. \A k \in Movement(o) : k \in TxnId /\ txn[k] # NoRow
  BY MovementFacts DEF Live
<1>2. o \in TxnId /\ txn[o] # NoRow
  BY DEF Reversing, Live
<1>3. InflowOf(o) = None \/ InflowOf(o) \in Movement(o)
  BY DEF Movement
<1>4. LiveFeeOf(o) = None \/ LiveFeeOf(o) \in Movement(o)
  BY DEF Movement
<1>5. Posted(o, a) \in Int
  BY <1>2, PostedType DEF Inv
<1>6. Posted(InflowOf(o), a) \in Int
  BY <1>1, <1>3, PostedType DEF Inv
<1>7. Posted(LiveFeeOf(o), a) \in Int
  BY <1>1, <1>4, PostedType DEF Inv
<1>. QED  BY <1>5, <1>6, <1>7 DEF MovementOn

-----------------------------------------------------------------------------
(* The books: what the rows say about an account, as a sum.                *)

\* What each row contributes to account a, alive or not.
Share(a) == [i \in TxnId |-> Posted(i, a)]

Alive == {i \in TxnId : Live(i)}

\* BalanceIsSumOfLiveRows, with the rows of the other accounts as zeros.
Booked == \A a \in Accounts : balance[a] = SumOn(Share(a), Alive)

\* A step moves the balances by what it posts less what it kills.
Settles(n, K) ==
  \A a \in Accounts :
    balance'[a] = balance[a] - SumOn(Share(a), K) + SumOn(Share(a)', NewRange(n))

LEMMA AliveFacts ==
  ASSUME TypeOK, NEW a \in Accounts
  PROVE  /\ IsFiniteSet(TxnId) /\ IsFiniteSet(Alive) /\ Alive \subseteq Used
         /\ \A i \in Used : Share(a)[i] \in Int /\ i \in TxnId /\ i < next
<1>1. IsFiniteSet(TxnId)
  BY LedgerAssumption, FS_Interval
<1>2. Alive \subseteq Used /\ Alive \in SUBSET TxnId
  BY DEF Alive, Used, Live
<1>3. IsFiniteSet(Alive)
  BY <1>1, <1>2, FS_Subset
<1>4. \A i \in Used : Share(a)[i] \in Int /\ i \in TxnId /\ i < next
  BY PostedType DEF Share, Used, TypeOK
<1>. QED  BY <1>1, <1>2, <1>3, <1>4

LEMMA ShiftKeepsBooks ==
  ASSUME Inv, Booked, NEW n, NEW K, NEW D, NEW new, Shift(n, K, D, new), Settles(n, K)
  PROVE  Booked'
<1>1. TypeOK /\ TypeOK' /\ n \in Nat /\ next' = next + n /\ next + n <= MaxTxn + 1
      /\ next \in Nat /\ 1 <= next /\ MaxTxn \in Nat
  BY ShiftTypeOK, NumberFacts DEF Inv, Shift
<1>2. NewRange(n) \subseteq TxnId /\ NewRange(n) \cap Used = {} /\ IsFiniteSet(NewRange(n))
  <2>1. \A i \in Used : i < next /\ i \in TxnId
    BY <1>1 DEF Used, TypeOK
  <2>. QED  BY <1>1, <2>1, FS_Interval DEF NewRange
<1>3. K \subseteq Alive
  BY DEF Shift, Alive
<1>4. Alive' = (Alive \ K) \cup NewRange(n)
  <2>1. ASSUME NEW i \in TxnId
        PROVE  i \in Alive' <=> i \in (Alive \ K) \cup NewRange(n)
    <3>1. CASE i \in NewRange(n)
      BY <3>1, AbsentAssumption DEF Shift, Alive, Live
    <3>2. CASE i \in K
      <4>1. i < next /\ i \in Used
        BY <1>1, <1>3, <3>2 DEF Alive, Live, TypeOK, Used
      <4>2. txn'[i].deleted
        BY <1>1, <3>2, <4>1, ShiftRows
      <4>. QED  BY <1>2, <3>2, <4>1, <4>2 DEF Alive, Live
    <3>3. CASE i \notin NewRange(n) /\ i \notin K
      <4>1. txn'[i] = txn[i]
        BY <3>3 DEF Shift
      <4>. QED  BY <3>3, <4>1 DEF Alive, Live
    <3>. QED  BY <3>1, <3>2, <3>3
  <2>. QED  BY <1>2, <2>1 DEF Alive
<1>5. SUFFICES ASSUME NEW a \in Accounts
               PROVE  balance'[a] = SumOn(Share(a)', Alive')
  BY DEF Booked
<1>6. /\ IsFiniteSet(Alive) /\ Alive \subseteq Used
      /\ \A i \in Alive : Share(a)[i] \in Int
  BY <1>1, AliveFacts
<1>7. \A i \in NewRange(n) : Share(a)'[i] \in Int
  <2>1. \A i \in NewRange(n) : i \in TxnId /\ i < next'
    BY <1>1, <1>2 DEF NewRange
  <2>2. ASSUME NEW i \in NewRange(n) PROVE Share(a)'[i] \in Int
    <3>1. txn'[i] \in Row
      BY DEF Shift
    <3>2. txn'[i].amount \in Int
      BY <3>1 DEF Row
    <3>3. Share(a)'[i] = Posted(i, a)'
      BY <2>1 DEF Share
    <3>. QED  BY <3>2, <3>3 DEF Posted
  <2>. QED  BY <2>2
<1>8. \A i \in Alive \ K : Share(a)'[i] = Share(a)[i]
  <2>1. SUFFICES ASSUME NEW i \in Alive \ K PROVE Share(a)'[i] = Share(a)[i]
    OBVIOUS
  <2>2. i \in TxnId /\ i \notin NewRange(n)
    BY <1>2, <1>6 DEF Alive
  <2>3. txn'[i] = txn[i]
    BY <2>1, <2>2 DEF Shift
  <2>. QED  BY <2>2, <2>3 DEF Share, Posted
<1>9. SumOn(Share(a)', (Alive \ K) \cup NewRange(n))
        = SumOn(Share(a), Alive) - SumOn(Share(a), K) + SumOn(Share(a)', NewRange(n))
  <2>1. NewRange(n) \cap Alive = {}
    BY <1>2, <1>6
  <2>. QED  BY <1>2, <1>3, <1>6, <1>7, <1>8, <2>1, SumShift
<1>. QED  BY <1>4, <1>5, <1>9 DEF Booked, Settles

\* What a movement contributes is the sum of its live rows.
LEMMA MovementIsSum ==
  ASSUME Inv, NEW o, Reversing(o), NEW a \in Accounts
  PROVE  /\ SumOn(Share(a), Movement(o)) = MovementOn(o, a)
         /\ IsFiniteSet(Movement(o))
<1>1. /\ Movement(o) \subseteq TxnId /\ \A k \in Movement(o) : Live(k)
      /\ o \in Movement(o) /\ o \in TxnId
  BY MovementFacts DEF Reversing
<1>2. \A k \in Movement(o) : Share(a)[k] = Posted(k, a) /\ Posted(k, a) \in Int
  BY <1>1, PostedType DEF Inv, Share, Live
<1>. DEFINE i == InflowOf(o)
            f == LiveFeeOf(o)
<1>3. /\ Movement(o) = {o, i, f} \ {None}
      /\ MovementOn(o, a) = Posted(o, a) + Posted(i, a) + Posted(f, a)
  BY DEF Movement, MovementOn
<1>4. o # None /\ (i # None => i = o + 1) /\ (f # None => i # None /\ f = o + 2)
  <2>1. IsOutflow(o) => transfer[o].inflow = o + 1
                        /\ (transfer[o].fee # None => transfer[o].fee = o + 2)
    BY <1>1 DEF Inv, Shape
  <2>. QED  BY <1>1, <2>1 DEF InflowOf, LiveFeeOf
<1>5. Posted(None, a) = 0
  BY DEF Posted
<1>6. IsFiniteSet(Movement(o))
  <2>1. IsFiniteSet(TxnId)
    BY LedgerAssumption, FS_Interval
  <2>. QED  BY <1>1, <2>1, FS_Subset
<1>. HIDE DEF i, f
<1>7. CASE i = None
  <2>1. f = None /\ Movement(o) = {o}
    BY <1>3, <1>4, <1>7
  <2>2. SumOn(Share(a), {o}) = Posted(o, a)
    BY <1>1, <1>2, SumSingle
  <2>. QED  BY <1>1, <1>2, <1>3, <1>5, <1>6, <1>7, <2>1, <2>2
<1>8. CASE i # None /\ f = None
  <2>1. Movement(o) = {o, i} /\ o # i
    BY <1>1, <1>3, <1>4, <1>8
  <2>2. SumOn(Share(a), {o, i}) = Posted(o, a) + Posted(i, a)
    <3>1. Share(a)[o] = Posted(o, a) /\ Share(a)[i] = Posted(i, a)
      BY <1>2, <2>1
    <3>2. Share(a)[o] \in Int /\ Share(a)[i] \in Int
      BY <1>2, <2>1
    <3>3. SumOn(Share(a), {o, i}) = Share(a)[o] + Share(a)[i]
      BY <2>1, <3>2, SumPair
    <3>. QED  BY <3>1, <3>3
  <2>3. Posted(o, a) \in Int /\ Posted(i, a) \in Int
    BY <1>2, <2>1
  <2>4. Posted(f, a) = 0
    BY <1>5, <1>8
  <2>5. MovementOn(o, a) = Posted(o, a) + Posted(i, a)
    BY <1>3, <2>3, <2>4
  <2>. QED  BY <1>6, <2>1, <2>2, <2>5
<1>9. CASE i # None /\ f # None
  <2>1. Movement(o) = {o, i, f} /\ o # i /\ o # f /\ i # f
    BY <1>1, <1>3, <1>4, <1>9
  <2>2. SumOn(Share(a), {o, i, f}) = Posted(o, a) + Posted(i, a) + Posted(f, a)
    <3>1. /\ Share(a)[o] = Posted(o, a) /\ Share(a)[i] = Posted(i, a)
          /\ Share(a)[f] = Posted(f, a)
      BY <1>2, <2>1
    <3>2. Share(a)[o] \in Int /\ Share(a)[i] \in Int /\ Share(a)[f] \in Int
      BY <1>2, <2>1
    <3>3. SumOn(Share(a), {o, i, f}) = Share(a)[o] + Share(a)[i] + Share(a)[f]
      BY <2>1, <3>2, SumTriple
    <3>. QED  BY <2>1, <3>1, <3>3
  <2>. QED  BY <1>3, <1>6, <2>1, <2>2
<1>. QED  BY <1>7, <1>8, <1>9

\* What a request contributes is the sum of the rows that it inserts.
LEMMA InputIsSum ==
  ASSUME TypeOK, NEW in, Accepted(in), Room(RowCount(in)), NEW o, NEW p,
         \A k \in NewRange(RowCount(in)) : txn'[k] = NewRow(in, k - next, o, p),
         NEW a \in Accounts
  PROVE  SumOn(Share(a)', NewRange(RowCount(in))) = InputOn(in, a)
<1>. DEFINE g == Share(a)'
<1>1. next \in Nat /\ 1 <= next /\ MaxTxn \in Nat /\ next + RowCount(in) <= MaxTxn + 1
  BY NumberFacts DEF Room
<1>2. RowCount(in) \in Nat
  BY RowCountFacts
<1>3. \A k \in NewRange(RowCount(in)) :
        g[k] = IF NewRow(in, k - next, o, p).account = a
               THEN NewRow(in, k - next, o, p).amount ELSE 0
  <2>1. \A k \in NewRange(RowCount(in)) : k \in TxnId /\ k # None
    BY <1>1, <1>2 DEF NewRange
  <2>. QED  BY <2>1 DEF Share, Posted
<1>. HIDE DEF g
<1>4. CASE in.type # "transfer"
  <2>1. RowCount(in) = 1 /\ NewRange(1) = {next} /\ next - next = 0
    BY <1>1, <1>4 DEF RowCount, NewRange
  <2>2. NewRow(in, 0, o, p) = StandardRow(in, o)
    BY <1>4 DEF NewRow
  <2>3. /\ StandardRow(in, o).account = in.account
        /\ StandardRow(in, o).amount = StandardRow(in, None).amount
        /\ StandardRow(in, None).amount \in Int
    BY <1>4 DEF StandardRow, MakeRow, Accepted
  <2>4. g[next] = IF in.account = a THEN StandardRow(in, None).amount ELSE 0
    BY <1>3, <2>1, <2>2, <2>3
  <2>5. LegsOn(in, a) = g[next] /\ FeeOn(in, a) = 0 /\ g[next] \in Int
    BY <1>4, <2>3, <2>4 DEF LegsOn, FeeOn
  <2>6. InputOn(in, a) = g[next]
    BY <2>5 DEF InputOn
  <2>. QED  BY <2>1, <2>5, <2>6, SumSingle DEF g
<1>5. CASE in.type = "transfer"
  <2>1. in.amount \in Int /\ in.fee \in Int /\ Received(in) \in Int /\ in.account # in.toAccount
    <3>1. Destinations \cup {None} \subseteq Int
      BY LedgerAssumption
    <3>2. /\ in.amount \in Int /\ in.fee \in Int /\ in.account # in.toAccount
          /\ in.destination \in Destinations \cup {None}
      BY <1>5 DEF Accepted
    <3>. QED  BY <3>1, <3>2 DEF Received
  <2>2. next - next = 0 /\ (next + 1) - next = 1 /\ (next + 2) - next = 2
    BY <1>1
  <2>3. /\ NewRow(in, 0, o, p) = OutflowRow(in, o) /\ NewRow(in, 1, o, p) = InflowRow(in, p)
        /\ NewRow(in, 2, o, p) = FeeRow(in)
    BY <1>5 DEF NewRow
  <2>4. /\ OutflowRow(in, o).account = in.account /\ OutflowRow(in, o).amount = -in.amount
        /\ InflowRow(in, p).account = in.toAccount /\ InflowRow(in, p).amount = Received(in)
        /\ FeeRow(in).account = in.feeAccount /\ FeeRow(in).amount = -in.fee
    BY DEF OutflowRow, InflowRow, FeeRow, MakeRow
  <2>5. {next, next + 1} \subseteq NewRange(RowCount(in))
    BY <1>1, <1>2, <1>5, RowCountFacts DEF NewRange
  <2>6. /\ g[next] = IF in.account = a THEN -in.amount ELSE 0
        /\ g[next + 1] = IF in.toAccount = a THEN Received(in) ELSE 0
    <3>1. g[next] = IF OutflowRow(in, o).account = a THEN OutflowRow(in, o).amount ELSE 0
      BY <1>3, <2>2, <2>3, <2>5
    <3>2. g[next + 1] = IF InflowRow(in, p).account = a THEN InflowRow(in, p).amount ELSE 0
      BY <1>3, <2>2, <2>3, <2>5
    <3>. QED  BY <2>4, <3>1, <3>2
  <2>7. LegsOn(in, a) = g[next] + g[next + 1] /\ g[next] \in Int /\ g[next + 1] \in Int
    BY <1>5, <2>1, <2>6 DEF LegsOn
  <2>8. CASE in.fee = None
    <3>1. RowCount(in) = 2 /\ NewRange(2) = {next, next + 1} /\ next # next + 1
      BY <1>1, <1>5, <2>8 DEF RowCount, NewRange
    <3>2. FeeOn(in, a) = 0
      BY <1>5, <2>8 DEF FeeOn
    <3>3. SumOn(g, {next, next + 1}) = g[next] + g[next + 1]
      BY <2>7, <3>1, SumPair
    <3>4. InputOn(in, a) = g[next] + g[next + 1]
      BY <2>7, <3>2 DEF InputOn
    <3>. QED  BY <3>1, <3>3, <3>4 DEF g
  <2>9. CASE in.fee # None
    <3>1. /\ RowCount(in) = 3 /\ NewRange(3) = {next, next + 1, next + 2}
          /\ next # next + 1 /\ next # next + 2 /\ next + 1 # next + 2
      BY <1>1, <1>5, <2>9 DEF RowCount, NewRange
    <3>2. g[next + 2] = IF in.feeAccount = a THEN -in.fee ELSE 0
      <4>1. next + 2 \in NewRange(RowCount(in))
        BY <3>1
      <4>2. g[next + 2] = IF FeeRow(in).account = a THEN FeeRow(in).amount ELSE 0
        BY <1>3, <2>2, <2>3, <4>1
      <4>. QED  BY <2>4, <4>2
    <3>3. FeeOn(in, a) = g[next + 2] /\ g[next + 2] \in Int
      BY <1>5, <2>1, <2>9, <3>2 DEF FeeOn
    <3>4. SumOn(g, {next, next + 1, next + 2}) = g[next] + g[next + 1] + g[next + 2]
      <4>1. PICK k1, k2, k3 : k1 = next /\ k2 = next + 1 /\ k3 = next + 2
        OBVIOUS
      <4>2. /\ g[k1] \in Int /\ g[k2] \in Int /\ g[k3] \in Int
            /\ k1 # k2 /\ k1 # k3 /\ k2 # k3
        BY <2>7, <3>1, <3>3, <4>1
      <4>3. SumOn(g, {k1, k2, k3}) = g[k1] + g[k2] + g[k3]
        BY <4>2, SumTriple
      <4>. QED  BY <4>1, <4>3
    <3>5. InputOn(in, a) = g[next] + g[next + 1] + g[next + 2]
      BY <2>7, <3>3 DEF InputOn
    <3>. QED  BY <3>1, <3>4, <3>5 DEF g
  <2>. QED  BY <2>8, <2>9
<1>. QED  BY <1>4, <1>5

-----------------------------------------------------------------------------
(* Every action is a Shift.                                                *)

\* The inner formula of HistoryIsAppendOnly.
Appends ==
  \A i \in Used :
    /\ txn'[i] # NoRow
    /\ txn[i].deleted => txn'[i] = txn[i]
    /\ txn'[i] = [txn[i] EXCEPT !.deleted = txn'[i].deleted,
                                !.supersededBy = txn'[i].supersededBy]
    /\ IsOutflow(i) /\ transfer[i].deleted => transfer'[i] = transfer[i]

\* What every step is shown to do.
Good == Inv' /\ Appends /\ (Booked => Booked')

LEMMA ShiftIsGood ==
  ASSUME Inv, NEW n, NEW K, NEW D, NEW new, Shift(n, K, D, new), Settles(n, K)
  PROVE  Good
<1>1. Inv'
  BY ShiftKeepsInv
<1>2. Appends
  BY ShiftAppends DEF Appends
<1>3. Booked => Booked'
  BY ShiftKeepsBooks
<1>. QED  BY <1>1, <1>2, <1>3 DEF Good

\* The Transfer row of a request pairs the rows inserted with it.
LEMMA NewTransferFacts ==
  ASSUME TypeOK, NEW in, Accepted(in), Room(RowCount(in))
  PROVE  /\ NewTransfer(in) \in TransferRow \cup {NoTransfer}
         /\ NewTransfer(in) # NoTransfer =>
              /\ in.type = "transfer"
              /\ RowCount(in) >= 2
              /\ NewTransfer(in) \in TransferRow
              /\ NewTransfer(in).inflow = next + 1
              /\ NewTransfer(in).fee # None =>
                   RowCount(in) >= 3 /\ NewTransfer(in).fee = next + 2
              /\ ~NewTransfer(in).deleted
<1>1. CASE in.type # "transfer"
  BY <1>1 DEF NewTransfer
<1>2. CASE in.type = "transfer"
  <2>. DEFINE fee == IF in.fee = None THEN None ELSE next + 2
  <2>1. NewTransfer(in) = [inflow |-> next + 1, fee |-> fee, deleted |-> FALSE]
    BY <1>2 DEF NewTransfer
  <2>2. next + 1 \in TxnId /\ fee \in TxnId \cup {None}
        /\ (fee # None => RowCount(in) >= 3)
    BY <1>2, NumberFacts, RowCountFacts DEF Room
  <2>3. NewTransfer(in) \in TransferRow
    BY <2>1, <2>2 DEF TransferRow
  <2>. QED  BY <1>2, <2>1, <2>2, <2>3, RowCountFacts
<1>. QED  BY <1>1, <1>2

\* The legs of a new transfer are on different accounts.
LEMMA NewLegsApart ==
  ASSUME NEW in, Accepted(in), in.type = "transfer", NEW o, NEW p
  PROVE  NewRow(in, 0, o, p).account # NewRow(in, 1, o, p).account
<1>1. /\ NewRow(in, 0, o, p) = OutflowRow(in, o)
      /\ NewRow(in, 1, o, p) = InflowRow(in, p)
      /\ in.account # in.toAccount
  BY DEF NewRow, Accepted
<1>. QED  BY <1>1 DEF OutflowRow, InflowRow, MakeRow

LEMMA CreateGood ==
  ASSUME Inv, NEW in, Accepted(in), Create(in)
  PROVE  Good
<1>. DEFINE n == RowCount(in)
<1>1. PICK new : new = NewTransfer(in)
  OBVIOUS
<1>2. TypeOK /\ Room(n)
  BY DEF Inv, Create
<1>3. n \in Nat /\ 1 <= n /\ next + n <= MaxTxn + 1 /\ next' = next + n /\ next \in TxnId
  BY <1>2, NumberFacts, RowCountFacts DEF Create, Room
<1>4. \A k \in TxnId :
        txn'[k] = IF k \in NewRange(n) THEN NewRow(in, k - next, None, None)
                  ELSE txn[k]
  BY DEF Create, NewIds, NewRange
<1>5. ASSUME NEW k \in NewRange(n)
      PROVE  /\ k \in TxnId
             /\ txn'[k] = NewRow(in, k - next, None, None)
             /\ txn'[k] \in Row /\ ~txn'[k].deleted /\ TransferPartner(txn'[k])
  <2>1. k \in TxnId /\ k - next \in 0 .. n - 1
    BY <1>2, <1>3, NumberFacts DEF NewRange
  <2>2. txn'[k] = NewRow(in, k - next, None, None)
    BY <1>4, <2>1
  <2>. QED  BY <2>1, <2>2, NewRowType
<1>6. txn' \in [TxnId -> Row \cup {NoRow}]
  <2>1. \A k \in TxnId : txn'[k] \in Row \cup {NoRow}
    BY <1>2, <1>4, <1>5 DEF TypeOK
  <2>. QED  BY <2>1 DEF Create
<1>7. transfer' = [transfer EXCEPT ![next] = new]
  BY <1>1 DEF Create
<1>8. /\ new \in TransferRow \cup {NoTransfer}
      /\ new # NoTransfer =>
           /\ in.type = "transfer" /\ n >= 2 /\ new \in TransferRow
           /\ new.inflow = next + 1
           /\ new.fee # None => n >= 3 /\ new.fee = next + 2
           /\ ~new.deleted
  BY <1>1, <1>2, NewTransferFacts
<1>9. new # NoTransfer => txn'[next].account # txn'[next + 1].account
  <2>1. SUFFICES ASSUME new # NoTransfer
                 PROVE  txn'[next].account # txn'[next + 1].account
    OBVIOUS
  <2>2. next \in NewRange(n) /\ next + 1 \in NewRange(n)
    BY <1>3, <1>8, <2>1 DEF NewRange
  <2>3. next - next = 0 /\ (next + 1) - next = 1
    BY <1>3
  <2>4. /\ txn'[next] = NewRow(in, 0, None, None)
        /\ txn'[next + 1] = NewRow(in, 1, None, None)
    BY <1>5, <2>2, <2>3
  <2>. QED  BY <1>8, <2>1, <2>4, NewLegsApart
<1>10. transfer[next] = NoTransfer
  BY <1>3, NumberFacts, <1>2 DEF Inv, Shape, IsOutflow
<1>11. /\ transfer' \in [TxnId -> TransferRow \cup {NoTransfer}]
       /\ new # NoTransfer => transfer'[next] = new
       /\ \A o \in TxnId : o # next \/ new = NoTransfer => transfer'[o] = transfer[o]
  BY <1>2, <1>3, <1>7, <1>8, <1>10 DEF TypeOK
<1>12. balance' \in [Accounts -> Int] /\ audited' \in [Accounts -> Int]
  <2>1. \A a \in Accounts :
          balance[a] + InputOn(in, a) \in Int /\ audited[a] + CreateAudit(in, a) \in Int
    BY <1>2, InputOnType DEF TypeOK
  <2>. QED  BY <2>1 DEF Create
<1>13. Shift(n, {}, {}, new)
  BY <1>3, <1>4, <1>5, <1>6, <1>8, <1>9, <1>11, <1>12 DEF Shift
<1>14. Settles(n, {})
  <2>1. SUFFICES ASSUME NEW a \in Accounts
                 PROVE  balance'[a] = balance[a] - SumOn(Share(a), {}) + SumOn(Share(a)', NewRange(n))
    BY DEF Settles
  <2>2. SumOn(Share(a)', NewRange(n)) = InputOn(in, a)
    BY <1>2, <1>5, InputIsSum
  <2>3. SumOn(Share(a), {}) = 0
    BY SumEmpty
  <2>4. balance'[a] = balance[a] + InputOn(in, a)
    BY DEF Create
  <2>5. balance[a] \in Int
    BY <1>2 DEF TypeOK
  <2>. QED  BY <2>2, <2>3, <2>4, <2>5, InputOnType
<1>. QED  BY <1>13, <1>14, ShiftIsGood

LEMMA BulkCreateGood ==
  ASSUME Inv, NEW in1 \in StandardInput, NEW in2 \in StandardInput,
         BulkCreate(in1, in2)
  PROVE  Good
<1>1. /\ Accepted(in1) /\ in1.type # "transfer"
      /\ Accepted(in2) /\ in2.type # "transfer"
  <2>1. in1 \in Input(Fees) /\ in2 \in Input(Fees) /\ Fees \subseteq Nat \ {0}
    BY LedgerAssumption DEF Input
  <2>. QED  BY <2>1, InputsAccepted DEF StandardInput
<1>2. TypeOK /\ Room(2)
  BY DEF Inv, BulkCreate
<1>3. next + 2 <= MaxTxn + 1 /\ next' = next + 2 /\ next \in TxnId /\ next + 1 \in TxnId
      /\ next # next + 1 /\ NewRange(2) = {next, next + 1}
  BY <1>2, NumberFacts DEF BulkCreate, Room, NewRange
<1>4. ASSUME NEW in, Accepted(in), in.type # "transfer"
      PROVE  /\ StandardRow(in, None) \in Row /\ ~StandardRow(in, None).deleted
             /\ TransferPartner(StandardRow(in, None))
  <2>1. 0 \in 0 .. RowCount(in) - 1
    BY RowCountFacts
  <2>2. NewRow(in, 0, None, None) = StandardRow(in, None)
    BY <1>4 DEF NewRow
  <2>. QED  BY <1>4, <2>1, <2>2, NewRowType
<1>5. /\ txn'[next] = StandardRow(in1, None)
      /\ txn'[next + 1] = StandardRow(in2, None)
      /\ \A k \in TxnId \ {next, next + 1} : txn'[k] = txn[k]
      /\ DOMAIN txn' = TxnId /\ txn' = [k \in TxnId |-> txn'[k]]
  BY <1>2, <1>3 DEF BulkCreate, TypeOK
<1>6. \A k \in {next, next + 1} :
        txn'[k] \in Row /\ ~txn'[k].deleted /\ TransferPartner(txn'[k])
  BY <1>1, <1>4, <1>5
<1>7. txn' \in [TxnId -> Row \cup {NoRow}]
  <2>1. \A k \in TxnId : txn'[k] \in Row \cup {NoRow}
    BY <1>2, <1>5, <1>6 DEF TypeOK
  <2>. QED  BY <1>5, <2>1
<1>8. balance' \in [Accounts -> Int] /\ audited' \in [Accounts -> Int]
  <2>1. \A a \in Accounts :
          /\ balance[a] + InputOn(in1, a) + InputOn(in2, a) \in Int
          /\ audited[a] + InputOn(in1, a) + InputOn(in2, a) \in Int
    BY <1>1, <1>2, InputOnType DEF TypeOK
  <2>. QED  BY <2>1 DEF BulkCreate
<1>9. transfer' = transfer /\ transfer \in [TxnId -> TransferRow \cup {NoTransfer}]
  BY <1>2 DEF BulkCreate, TypeOK
<1>10. Shift(2, {}, {}, NoTransfer)
  BY <1>3, <1>5, <1>6, <1>7, <1>8, <1>9 DEF Shift
<1>11. Settles(2, {})
  <2>1. SUFFICES ASSUME NEW a \in Accounts
                 PROVE  balance'[a] = balance[a] - SumOn(Share(a), {}) + SumOn(Share(a)', NewRange(2))
    BY DEF Settles
  <2>2. ASSUME NEW in, Accepted(in), in.type # "transfer", NEW k \in TxnId,
               txn'[k] = StandardRow(in, None)
        PROVE  Share(a)'[k] = InputOn(in, a) /\ InputOn(in, a) \in Int
    <3>1. Share(a)'[k] = IF in.account = a THEN StandardRow(in, None).amount ELSE 0
      BY <2>2 DEF Share, Posted, StandardRow, MakeRow
    <3>2. InputOn(in, a) = LegsOn(in, a) + 0 /\ InputOn(in, a) \in Int
      BY <2>2, InputOnType DEF InputOn, FeeOn
    <3>3. StandardRow(in, None).amount \in Int
      BY <2>2 DEF StandardRow, MakeRow, Accepted
    <3>. QED  BY <2>2, <3>1, <3>2, <3>3 DEF LegsOn
  <2>3. /\ Share(a)'[next] = InputOn(in1, a) /\ InputOn(in1, a) \in Int
        /\ Share(a)'[next + 1] = InputOn(in2, a) /\ InputOn(in2, a) \in Int
    BY <1>1, <1>3, <1>5, <2>2
  <2>4. SumOn(Share(a)', NewRange(2)) = InputOn(in1, a) + InputOn(in2, a)
    <3>1. PICK g : g = Share(a)'
      OBVIOUS
    <3>2. g[next] \in Int /\ g[next + 1] \in Int /\ next # next + 1
      BY <1>3, <2>3, <3>1
    <3>3. SumOn(g, {next, next + 1}) = g[next] + g[next + 1]
      BY <3>2, SumPair
    <3>. QED  BY <1>3, <2>3, <3>1, <3>3
  <2>5. SumOn(Share(a), {}) = 0
    BY SumEmpty
  <2>6. balance'[a] = balance[a] + InputOn(in1, a) + InputOn(in2, a) /\ balance[a] \in Int
    BY <1>2 DEF BulkCreate, TypeOK
  <2>. QED  BY <2>3, <2>4, <2>5, <2>6
<1>. QED  BY <1>10, <1>11, ShiftIsGood

\* Tombstoning live rows writes rows.
LEMMA TombstoneRows ==
  ASSUME TypeOK, NEW K, K \subseteq TxnId, \A k \in K : Live(k),
         txn' = Tombstone(K)
  PROVE  /\ txn' \in [TxnId -> Row \cup {NoRow}]
         /\ \A k \in TxnId \ K : txn'[k] = txn[k]
         /\ \A k \in K : \E by \in TxnId \cup {None} :
              txn'[k] = [txn[k] EXCEPT !.deleted = TRUE, !.supersededBy = by]
<1>1. \A k \in TxnId : txn'[k] = IF k \in K THEN [txn[k] EXCEPT !.deleted = TRUE] ELSE txn[k]
  BY DEF Tombstone
<1>2. ASSUME NEW k \in K
      PROVE  /\ txn'[k] \in Row
             /\ \E by \in TxnId \cup {None} :
                  txn'[k] = [txn[k] EXCEPT !.deleted = TRUE, !.supersededBy = by]
  <2>1. txn[k] \in Row
    BY DEF TypeOK, Live
  <2>2. txn'[k] = [txn[k] EXCEPT !.deleted = TRUE]
    BY <1>1
  <2>3. /\ txn[k].supersededBy \in TxnId \cup {None}
        /\ txn'[k] = [txn[k] EXCEPT !.deleted = TRUE,
                                    !.supersededBy = txn[k].supersededBy]
        /\ txn'[k] \in Row
    BY <2>1, <2>2 DEF Row
  <2>. QED  BY <2>3
<1>3. txn' \in [TxnId -> Row \cup {NoRow}]
  <2>1. \A k \in TxnId : txn'[k] \in Row \cup {NoRow}
    BY <1>1, <1>2 DEF TypeOK
  <2>. QED  BY <2>1 DEF Tombstone
<1>. QED  BY <1>1, <1>2, <1>3

LEMMA DeleteGood ==
  ASSUME Inv, NEW i \in TxnId, Delete(i)
  PROVE  Good
<1>1. PICK o : o = Root(i)
  OBVIOUS
<1>2. PICK K : K = Movement(o)
  OBVIOUS
<1>3. PICK D : D = IF IsOutflow(o) THEN {o} ELSE {}
  OBVIOUS
<1>4. TypeOK /\ Reversing(o) /\ o \in TxnId
  BY <1>1, RootReversing DEF Inv, Delete, Reversing
<1>5. /\ K \subseteq TxnId
      /\ \A k \in K : Live(k)
      /\ o \in K
      /\ IsOutflow(o) =>
           /\ o + 1 \in K
           /\ transfer[o].fee # None =>
                transfer[o].fee \in K \/ txn[transfer[o].fee].deleted
      /\ \A p \in TxnId \ {o} : IsOutflow(p) => p \notin K /\ p + 1 \notin K
  BY <1>2, <1>4, MovementFacts
<1>6. /\ txn' = Tombstone(K)
      /\ transfer' = TombstoneTransfer(o)
      /\ next' = next
      /\ balance' = [a \in Accounts |-> balance[a] - MovementOn(o, a)]
      /\ audited' = [a \in Accounts |-> audited[a] - MovementOn(o, a)]
  BY <1>1, <1>2 DEF Delete, DeleteAudit
<1>7. /\ txn' \in [TxnId -> Row \cup {NoRow}]
      /\ \A k \in TxnId \ K : txn'[k] = txn[k]
      /\ \A k \in K : \E by \in TxnId \cup {None} :
           txn'[k] = [txn[k] EXCEPT !.deleted = TRUE, !.supersededBy = by]
  BY <1>4, <1>5, <1>6, TombstoneRows
<1>8. /\ transfer' \in [TxnId -> TransferRow \cup {NoTransfer}]
      /\ \A p \in D : /\ IsOutflow(p) /\ ~transfer[p].deleted
                      /\ transfer'[p] = [transfer[p] EXCEPT !.deleted = TRUE]
      /\ \A p \in TxnId \ D : transfer'[p] = transfer[p]
  <2>1. CASE ~IsOutflow(o)
    <3>1. transfer' = transfer /\ D = {}
      BY <1>3, <1>6, <2>1 DEF TombstoneTransfer
    <3>. QED  BY <1>4, <3>1 DEF TypeOK
  <2>2. CASE IsOutflow(o)
    <3>1. transfer' = [transfer EXCEPT ![o].deleted = TRUE] /\ D = {o}
      BY <1>3, <1>6, <2>2 DEF TombstoneTransfer
    <3>2. transfer[o] \in TransferRow /\ ~transfer[o].deleted
      BY <1>4, <2>2 DEF TypeOK, IsOutflow, Reversing
    <3>3. [transfer[o] EXCEPT !.deleted = TRUE] \in TransferRow
      BY <3>2 DEF TransferRow
    <3>. QED  BY <1>4, <2>2, <3>1, <3>2, <3>3 DEF TypeOK
  <2>. QED  BY <2>1, <2>2
<1>9. balance' \in [Accounts -> Int] /\ audited' \in [Accounts -> Int]
  <2>1. \A a \in Accounts :
          balance[a] - MovementOn(o, a) \in Int /\ audited[a] - MovementOn(o, a) \in Int
    BY <1>4, MovementOnType DEF TypeOK
  <2>. QED  BY <1>6, <2>1
<1>10. /\ NewRange(0) = {} /\ next + 0 <= MaxTxn + 1 /\ next' = next + 0
       /\ D \subseteq TxnId
  BY <1>3, <1>4, <1>6, NumberFacts DEF NewRange
<1>11. \A p \in TxnId : IsOutflow(p) =>
         IF p \in D
         THEN /\ p \in K /\ p + 1 \in K
              /\ transfer[p].fee # None =>
                   transfer[p].fee \in K \/ txn[transfer[p].fee].deleted
         ELSE p \notin K /\ p + 1 \notin K
  BY <1>3, <1>5
<1>12. Shift(0, K, D, NoTransfer)
  BY <1>5, <1>7, <1>8, <1>9, <1>10, <1>11 DEF Shift
<1>13. Settles(0, K)
  <2>1. SUFFICES ASSUME NEW a \in Accounts
                 PROVE  balance'[a] = balance[a] - SumOn(Share(a), K) + SumOn(Share(a)', NewRange(0))
    BY DEF Settles
  <2>2. SumOn(Share(a), K) = MovementOn(o, a) /\ MovementOn(o, a) \in Int
    BY <1>2, <1>4, MovementIsSum, MovementOnType
  <2>3. SumOn(Share(a)', NewRange(0)) = 0
    BY <1>10, SumEmpty
  <2>4. balance'[a] = balance[a] - MovementOn(o, a) /\ balance[a] \in Int
    BY <1>4, <1>6 DEF TypeOK
  <2>. QED  BY <2>2, <2>3, <2>4
<1>. QED  BY <1>12, <1>13, ShiftIsGood

LEMMA BulkDeleteGood ==
  ASSUME Inv, NEW i \in TxnId, NEW j \in TxnId, BulkDelete(i, j)
  PROVE  Good
<1>1. PICK o, p : o = Root(i) /\ p = Root(j)
  OBVIOUS
<1>2. PICK K : K = Movement(o) \cup Movement(p)
  OBVIOUS
<1>3. PICK D : D = {k \in {o, p} : IsOutflow(k)}
  OBVIOUS
<1>4. /\ TypeOK
      /\ Reversing(o) /\ o \in TxnId
      /\ Reversing(p) /\ p \in TxnId
  BY <1>1, RootReversing DEF Inv, BulkDelete, Reversing
<1>5. /\ K \subseteq TxnId
      /\ \A k \in K : Live(k)
      /\ \A q \in TxnId : IsOutflow(q) =>
           IF q \in D
           THEN /\ q \in K /\ q + 1 \in K
                /\ transfer[q].fee # None =>
                     transfer[q].fee \in K \/ txn[transfer[q].fee].deleted
           ELSE q \notin K /\ q + 1 \notin K
  <2>1. ASSUME NEW r, Reversing(r)
        PROVE  /\ Movement(r) \subseteq TxnId
               /\ \A k \in Movement(r) : Live(k)
               /\ r \in Movement(r)
               /\ IsOutflow(r) =>
                    /\ r + 1 \in Movement(r)
                    /\ transfer[r].fee # None =>
                         transfer[r].fee \in Movement(r) \/ txn[transfer[r].fee].deleted
               /\ \A q \in TxnId \ {r} :
                    IsOutflow(q) => q \notin Movement(r) /\ q + 1 \notin Movement(r)
    BY <2>1, MovementFacts
  <2>. QED  BY <1>2, <1>3, <1>4, <2>1
<1>6. /\ txn' = Tombstone(K)
      /\ transfer' = [k \in TxnId |->
                        IF k \in {o, p} /\ IsOutflow(k)
                        THEN [transfer[k] EXCEPT !.deleted = TRUE] ELSE transfer[k]]
      /\ next' = next
  BY <1>1, <1>2 DEF BulkDelete
<1>7. /\ txn' \in [TxnId -> Row \cup {NoRow}]
      /\ \A k \in TxnId \ K : txn'[k] = txn[k]
      /\ \A k \in K : \E by \in TxnId \cup {None} :
           txn'[k] = [txn[k] EXCEPT !.deleted = TRUE, !.supersededBy = by]
  BY <1>4, <1>5, <1>6, TombstoneRows
<1>8. /\ transfer' \in [TxnId -> TransferRow \cup {NoTransfer}]
      /\ \A q \in D : /\ IsOutflow(q) /\ ~transfer[q].deleted
                      /\ transfer'[q] = [transfer[q] EXCEPT !.deleted = TRUE]
      /\ \A q \in TxnId \ D : transfer'[q] = transfer[q]
  <2>1. ASSUME NEW q \in D
        PROVE  /\ q \in TxnId /\ IsOutflow(q) /\ ~transfer[q].deleted
               /\ transfer'[q] = [transfer[q] EXCEPT !.deleted = TRUE]
               /\ transfer'[q] \in TransferRow
    <3>1. q \in {o, p} /\ q \in TxnId /\ IsOutflow(q) /\ ~transfer[q].deleted
      BY <1>3, <1>4 DEF Reversing
    <3>2. transfer'[q] = [transfer[q] EXCEPT !.deleted = TRUE]
      BY <1>6, <3>1
    <3>3. transfer[q] \in TransferRow
      BY <1>4, <3>1 DEF TypeOK, IsOutflow
    <3>4. transfer'[q] \in TransferRow
      BY <3>2, <3>3 DEF TransferRow
    <3>. QED  BY <3>1, <3>2, <3>4
  <2>2. \A q \in TxnId \ D : transfer'[q] = transfer[q]
    BY <1>3, <1>6
  <2>3. \A q \in TxnId : transfer'[q] \in TransferRow \cup {NoTransfer}
    BY <1>4, <2>1, <2>2 DEF TypeOK
  <2>. QED  BY <1>6, <2>1, <2>2, <2>3
<1>9. balance' \in [Accounts -> Int] /\ audited' \in [Accounts -> Int]
  <2>. DEFINE on(a) == MovementOn(o, a) + MovementOn(p, a)
                         - (IF LiveFeeOf(p) \in Movement(o)
                            THEN Posted(LiveFeeOf(p), a) ELSE 0)
  <2>1. /\ balance' = [a \in Accounts |-> balance[a] - on(a)]
        /\ audited' = [a \in Accounts |-> audited[a] - on(a)]
    BY <1>1 DEF BulkDelete
  <2>2. ASSUME NEW a \in Accounts
        PROVE  on(a) \in Int /\ balance[a] \in Int /\ audited[a] \in Int
    <3>1. /\ MovementOn(o, a) \in Int /\ MovementOn(p, a) \in Int
          /\ Posted(LiveFeeOf(p), a) \in Int
      BY <1>4, MovementOnType
    <3>. QED  BY <1>4, <3>1 DEF TypeOK
  <2>3. \A a \in Accounts : balance[a] - on(a) \in Int /\ audited[a] - on(a) \in Int
    BY <2>2
  <2>. HIDE DEF on
  <2>. QED  BY <2>1, <2>3
<1>10. /\ NewRange(0) = {} /\ next + 0 <= MaxTxn + 1 /\ next' = next + 0
       /\ D \subseteq TxnId
  BY <1>3, <1>4, <1>6, NumberFacts DEF NewRange
<1>11. Shift(0, K, D, NoTransfer)
  BY <1>5, <1>7, <1>8, <1>9, <1>10 DEF Shift
<1>12. Settles(0, K)
  <2>1. SUFFICES ASSUME NEW a \in Accounts
                 PROVE  balance'[a] = balance[a] - SumOn(Share(a), K) + SumOn(Share(a)', NewRange(0))
    BY DEF Settles
  <2>. DEFINE fee == LiveFeeOf(p)
  <2>2. /\ SumOn(Share(a), Movement(o)) = MovementOn(o, a) /\ MovementOn(o, a) \in Int
        /\ SumOn(Share(a), Movement(p)) = MovementOn(p, a) /\ MovementOn(p, a) \in Int
        /\ Posted(fee, a) \in Int /\ IsFiniteSet(Movement(o)) /\ IsFiniteSet(Movement(p))
    BY <1>4, MovementIsSum, MovementOnType
  <2>3. \A k \in K : Share(a)[k] \in Int /\ k \in TxnId
    BY <1>4, <1>5, AliveFacts DEF Used, Live
  <2>. DEFINE rest == Movement(p) \ Movement(o)
  <2>4. SumOn(Share(a), K) = MovementOn(o, a) + SumOn(Share(a), rest)
    <3>1. K = Movement(o) \cup rest /\ Movement(o) \cap rest = {} /\ IsFiniteSet(rest)
      BY <1>2, <2>2, FS_Subset
    <3>. HIDE DEF rest
    <3>2. SumOn(Share(a), Movement(o) \cup rest) = SumOn(Share(a), Movement(o)) + SumOn(Share(a), rest)
      BY <2>2, <2>3, <3>1, SumUnion
    <3>. QED  BY <2>2, <3>1, <3>2
  \* The two movements have at most the fee of the second in common.
  <2>5. /\ fee \in Movement(o) => fee \in Movement(p) /\ rest = Movement(p) \ {fee}
        /\ fee \notin Movement(o) => rest = Movement(p)
    <3>1. {j, p} \cap Movement(o) = {}
      BY <1>1 DEF BulkDelete
    <3>2. InflowOf(p) # None => InflowOf(p) \notin Movement(o)
      <4>1. SUFFICES ASSUME InflowOf(p) # None PROVE InflowOf(p) \notin Movement(o)
        OBVIOUS
      <4>2. IsOutflow(p) /\ InflowOf(p) = p + 1
        BY <1>4, <4>1 DEF InflowOf, Inv, Shape
      <4>3. p # o
        BY <1>4, <3>1, MovementFacts
      <4>. QED  BY <1>4, <4>2, <4>3, MovementFacts
    <3>3. None \notin Movement(o)
      BY <1>2, <1>5
    <3>. QED  BY <3>1, <3>2, <3>3 DEF Movement
  <2>6. SumOn(Share(a), rest)
          = MovementOn(p, a) - (IF fee \in Movement(o) THEN Posted(fee, a) ELSE 0)
    <3>1. CASE fee \notin Movement(o)
      BY <2>2, <2>5, <3>1
    <3>2. CASE fee \in Movement(o)
      <4>1. fee \in Movement(p) /\ rest = Movement(p) \ {fee}
        BY <2>5, <3>2
      <4>2. fee \in K /\ Share(a)[fee] = Posted(fee, a) /\ \A k \in Movement(p) : Share(a)[k] \in Int
        BY <1>2, <2>3, <4>1 DEF Share
      <4>. HIDE DEF fee, rest
      <4>3. SumOn(Share(a), Movement(p)) = Share(a)[fee] + SumOn(Share(a), Movement(p) \ {fee})
        BY <2>2, <4>1, <4>2, SumRemove
      <4>4. SumOn(Share(a), rest) \in Int
        BY <2>2, <4>1, <4>2, SumType, FS_Subset
      <4>. QED  BY <2>2, <3>2, <4>1, <4>2, <4>3, <4>4
    <3>. QED  BY <3>1, <3>2
  <2>7. SumOn(Share(a)', NewRange(0)) = 0
    BY <1>10, SumEmpty
  <2>8. /\ balance'[a] = balance[a] - (MovementOn(o, a) + MovementOn(p, a)
                             - (IF fee \in Movement(o) THEN Posted(fee, a) ELSE 0))
        /\ balance[a] \in Int
    BY <1>1, <1>4 DEF BulkDelete, TypeOK
  <2>. HIDE DEF fee, rest
  <2>. QED  BY <2>2, <2>4, <2>6, <2>7, <2>8
<1>. QED  BY <1>11, <1>12, ShiftIsGood

LEMMA ReplaceGood ==
  ASSUME Inv, NEW i \in TxnId, NEW in, Accepted(in), Replace(i, in)
  PROVE  Good
<1>. DEFINE n == RowCount(in)
<1>1. PICK o : o = Root(i)
  OBVIOUS
<1>2. PICK K : K = Movement(o)
  OBVIOUS
<1>3. PICK D : D = IF IsOutflow(o) THEN {o} ELSE {}
  OBVIOUS
<1>4. PICK new : new = NewTransfer(in)
  OBVIOUS
<1>5. PICK oi, fee : oi = InflowOf(o) /\ fee = LiveFeeOf(o)
  OBVIOUS
<1>6. TypeOK /\ Room(n) /\ Reversing(o) /\ o \in TxnId /\ Live(o)
  BY <1>1, RootReversing DEF Inv, Replace, Reversing
<1>7. /\ K \subseteq TxnId
      /\ \A k \in K : Live(k)
      /\ o \in K
      /\ IsOutflow(o) =>
           /\ o + 1 \in K
           /\ transfer[o].fee # None =>
                transfer[o].fee \in K \/ txn[transfer[o].fee].deleted
      /\ \A p \in TxnId \ {o} : IsOutflow(p) => p \notin K /\ p + 1 \notin K
  BY <1>2, <1>6, MovementFacts
<1>8. /\ n \in Nat /\ 1 <= n /\ next + n <= MaxTxn + 1 /\ next' = next + n
      /\ next \in TxnId /\ (n >= 2 => next + 1 \in TxnId)
  BY <1>6, NumberFacts, RowCountFacts DEF Replace, Room
<1>9. K = {o, oi, fee} \ {None} /\ oi \in TxnId \cup {None}
  BY <1>2, <1>5, <1>7 DEF Movement
<1>10. \A k \in K : k < next /\ k \notin NewRange(n)
  BY <1>6, <1>7, <1>8, NumberFacts DEF Live, TypeOK, NewRange
<1>11. \A k \in TxnId :
         txn'[k] =
           IF k \in NewRange(n) THEN NewRow(in, k - next, o, oi)
           ELSE IF k = o THEN Superseded(k, next)
           ELSE IF k = oi
             THEN Superseded(k, IF in.type = "transfer" THEN next + 1 ELSE None)
           ELSE IF k = fee THEN Superseded(k, None)
           ELSE txn[k]
  BY <1>1, <1>5 DEF Replace, NewIds, NewRange
<1>12. ASSUME NEW k \in NewRange(n)
       PROVE  /\ k \in TxnId
              /\ txn'[k] = NewRow(in, k - next, o, oi)
              /\ txn'[k] \in Row /\ ~txn'[k].deleted /\ TransferPartner(txn'[k])
  <2>1. k \in TxnId /\ k - next \in 0 .. n - 1
    BY <1>6, <1>8, NumberFacts DEF NewRange
  <2>2. txn'[k] = NewRow(in, k - next, o, oi)
    BY <1>11, <2>1
  <2>. QED  BY <1>6, <1>9, <2>1, <2>2, NewRowType
<1>13. ASSUME NEW k \in K
       PROVE  \E by \in TxnId \cup {None} :
                /\ txn'[k] = [txn[k] EXCEPT !.deleted = TRUE, !.supersededBy = by]
                /\ txn'[k] \in Row
  <2>1. txn[k] \in Row /\ k \in TxnId /\ k \notin NewRange(n) /\ k \in {o, oi, fee}
    BY <1>6, <1>7, <1>9, <1>10 DEF TypeOK, Live
  <2>2. in.type = "transfer" => next + 1 \in TxnId
    BY <1>8, RowCountFacts
  <2>3. PICK by \in TxnId \cup {None} : txn'[k] = Superseded(k, by)
    BY <1>8, <1>11, <2>1, <2>2
  <2>4. txn'[k] = [txn[k] EXCEPT !.deleted = TRUE, !.supersededBy = by]
    BY <2>3 DEF Superseded
  <2>. QED  BY <2>1, <2>4 DEF Row
<1>14. \A k \in TxnId \ K : k \notin NewRange(n) => txn'[k] = txn[k]
  BY <1>9, <1>11
<1>15. txn' \in [TxnId -> Row \cup {NoRow}]
  <2>1. \A k \in TxnId : txn'[k] \in Row \cup {NoRow}
    BY <1>6, <1>12, <1>13, <1>14 DEF TypeOK
  <2>. QED  BY <2>1 DEF Replace
<1>16. /\ new \in TransferRow \cup {NoTransfer}
       /\ new # NoTransfer =>
            /\ in.type = "transfer" /\ n >= 2 /\ new \in TransferRow
            /\ new.inflow = next + 1
            /\ new.fee # None => n >= 3 /\ new.fee = next + 2
            /\ ~new.deleted
  BY <1>4, <1>6, NewTransferFacts
<1>17. new # NoTransfer => txn'[next].account # txn'[next + 1].account
  <2>1. SUFFICES ASSUME new # NoTransfer
                 PROVE  txn'[next].account # txn'[next + 1].account
    OBVIOUS
  <2>2. next \in NewRange(n) /\ next + 1 \in NewRange(n)
    BY <1>8, <1>16, <2>1 DEF NewRange
  <2>3. next - next = 0 /\ (next + 1) - next = 1
    BY <1>8
  <2>4. txn'[next] = NewRow(in, 0, o, oi) /\ txn'[next + 1] = NewRow(in, 1, o, oi)
    BY <1>12, <2>2, <2>3
  <2>. QED  BY <1>16, <2>1, <2>4, NewLegsApart
<1>18. transfer[next] = NoTransfer
  BY <1>6, <1>8, NumberFacts DEF Inv, Shape, IsOutflow
<1>19. o # next
  BY <1>7, <1>10, <1>8
<1>20. /\ transfer' \in [TxnId -> TransferRow \cup {NoTransfer}]
       /\ new # NoTransfer => transfer'[next] = new
       /\ \A p \in D : /\ IsOutflow(p) /\ ~transfer[p].deleted
                       /\ transfer'[p] = [transfer[p] EXCEPT !.deleted = TRUE]
       /\ \A p \in TxnId \ D :
            p # next \/ new = NoTransfer => transfer'[p] = transfer[p]
  <2>1. transfer' = [TombstoneTransfer(o) EXCEPT ![next] = new]
    BY <1>1, <1>4 DEF Replace
  <2>2. CASE ~IsOutflow(o)
    <3>1. transfer' = [transfer EXCEPT ![next] = new] /\ D = {}
      BY <1>3, <2>1, <2>2 DEF TombstoneTransfer
    <3>. QED  BY <1>6, <1>8, <1>16, <1>18, <3>1 DEF TypeOK
  <2>3. CASE IsOutflow(o)
    <3>1. /\ transfer' = [[transfer EXCEPT ![o].deleted = TRUE] EXCEPT ![next] = new]
          /\ D = {o}
      BY <1>3, <2>1, <2>3 DEF TombstoneTransfer
    <3>2. transfer[o] \in TransferRow /\ ~transfer[o].deleted
      BY <1>6, <2>3 DEF TypeOK, IsOutflow, Reversing
    <3>3. [transfer[o] EXCEPT !.deleted = TRUE] \in TransferRow
      BY <3>2 DEF TransferRow
    <3>4. transfer'[o] = [transfer[o] EXCEPT !.deleted = TRUE]
      BY <1>6, <1>8, <1>19, <3>1 DEF TypeOK
    <3>5. transfer'[next] = new
      BY <1>6, <1>8, <3>1 DEF TypeOK
    <3>6. \A p \in TxnId \ {o, next} : transfer'[p] = transfer[p]
      BY <1>6, <3>1 DEF TypeOK
    <3>7. \A p \in TxnId : transfer'[p] \in TransferRow \cup {NoTransfer}
      BY <1>6, <1>16, <3>3, <3>4, <3>5, <3>6 DEF TypeOK
    <3>8. DOMAIN transfer' = TxnId /\ transfer' = [p \in TxnId |-> transfer'[p]]
      BY <1>6, <3>1 DEF TypeOK
    <3>. QED  BY <1>18, <2>3, <3>1, <3>2, <3>4, <3>5, <3>6, <3>7, <3>8
  <2>. QED  BY <2>2, <2>3
<1>21. balance' \in [Accounts -> Int] /\ audited' \in [Accounts -> Int]
  <2>1. \A a \in Accounts :
          /\ balance[a] - MovementOn(o, a) + InputOn(in, a) \in Int
          /\ audited[a] - MovementOn(o, a) + ReplaceAudit(in, a) \in Int
    BY <1>6, MovementOnType, InputOnType DEF TypeOK
  <2>. QED  BY <1>1, <2>1 DEF Replace
<1>22. \A p \in TxnId : IsOutflow(p) =>
         IF p \in D
         THEN /\ p \in K /\ p + 1 \in K
              /\ transfer[p].fee # None =>
                   transfer[p].fee \in K \/ txn[transfer[p].fee].deleted
         ELSE p \notin K /\ p + 1 \notin K
  BY <1>3, <1>7
<1>23. D \subseteq TxnId /\ \A k \in K : \E by \in TxnId \cup {None} :
         txn'[k] = [txn[k] EXCEPT !.deleted = TRUE, !.supersededBy = by]
  BY <1>3, <1>6, <1>13
<1>24. Shift(n, K, D, new)
  BY <1>7, <1>8, <1>12, <1>14, <1>15, <1>16, <1>17, <1>20, <1>21, <1>22, <1>23
    DEF Shift
<1>25. Settles(n, K)
  <2>1. SUFFICES ASSUME NEW a \in Accounts
                 PROVE  balance'[a] = balance[a] - SumOn(Share(a), K) + SumOn(Share(a)', NewRange(n))
    BY DEF Settles
  <2>2. SumOn(Share(a), K) = MovementOn(o, a) /\ MovementOn(o, a) \in Int
    BY <1>2, <1>6, MovementIsSum, MovementOnType
  <2>3. SumOn(Share(a)', NewRange(n)) = InputOn(in, a) /\ InputOn(in, a) \in Int
    BY <1>6, <1>12, InputIsSum, InputOnType
  <2>4. balance'[a] = balance[a] - MovementOn(o, a) + InputOn(in, a) /\ balance[a] \in Int
    BY <1>1, <1>6 DEF Replace, TypeOK
  <2>. QED  BY <2>2, <2>3, <2>4
<1>. QED  BY <1>24, <1>25, ShiftIsGood

-----------------------------------------------------------------------------
(* The invariant holds, and what follows from it.                          *)

LEMMA InvInit == Init => Inv
<1>. SUFFICES ASSUME Init PROVE Inv
  OBVIOUS
<1>1. TypeOK
  BY LedgerAssumption DEF Init, TypeOK
<1>2. \A o \in TxnId : ~IsOutflow(o)
  BY DEF Init, IsOutflow
<1>3. Shape
  BY <1>2 DEF Init, Shape
<1>4. TransferSymmetry /\ FeeFalls
  BY <1>2 DEF TransferSymmetry, FeeFalls
<1>. QED  BY <1>1, <1>3, <1>4 DEF Inv

LEMMA StepIsGood ==
  ASSUME Inv, Next
  PROVE  Good
<1>1. Used \subseteq TxnId
  BY DEF Used
<1>2. Fees \subseteq Nat \ {0} /\ EditFees \subseteq Nat \ {0}
  BY LedgerAssumption
<1>3. ASSUME NEW in \in Input(Fees), Create(in)
      PROVE  Good
  <2>1. Accepted(in)
    BY <1>2, InputsAccepted
  <2>. QED  BY <1>3, <2>1, CreateGood
<1>4. ASSUME NEW in1 \in BulkRow, NEW in2 \in BulkRow,
             BulkCreate(in1, in2)
      PROVE  Good
  BY <1>4, BulkCreateGood DEF BulkRow
<1>5. ASSUME NEW i \in Used, Delete(i)
      PROVE  Good
  BY <1>1, <1>5, DeleteGood
<1>6. ASSUME NEW i \in Used, NEW j \in Used, BulkDelete(i, j)
      PROVE  Good
  BY <1>1, <1>6, BulkDeleteGood
<1>7. ASSUME NEW i \in Used, NEW in \in Input(EditFees), Update(i, in)
      PROVE  Good
  <2>1. Accepted(in)
    BY <1>2, InputsAccepted
  <2>2. Replace(i, in)
    BY <1>7 DEF Update
  <2>. QED  BY <1>1, <2>1, <2>2, ReplaceGood
<1>8. ASSUME NEW i \in Used
      PROVE  /\ i \in TxnId
             /\ txn[i] \in Row /\ txn[i].account \in Accounts
             /\ TransferPartner(txn[i])
  <2>1. i \in TxnId /\ txn[i] \in Row /\ txn[i] # NoRow
    BY DEF Used, Inv, TypeOK
  <2>. QED  BY <2>1 DEF Inv, Shape, Row
<1>9. ASSUME NEW i \in Used, BulkRecategorize(i)
      PROVE  Good
  <2>1. PICK in : in = BulkInput(i, txn[i].account)
    OBVIOUS
  <2>2. Accepted(in)
    <3>1. txn[i].type = "transfer" => txn[i].account # txn[i].toAccount
      BY <1>8 DEF TransferPartner
    <3>. QED  BY <1>8, <2>1, <3>1, BulkInputAccepted
  <2>3. Replace(i, in)
    BY <1>9, <2>1 DEF BulkRecategorize, Replace
  <2>. QED  BY <1>8, <2>2, <2>3, ReplaceGood
<1>10. ASSUME NEW i \in Used, NEW a \in Accounts, BulkMove(i, a)
       PROVE  Good
  <2>1. PICK in : in = BulkInput(i, a)
    OBVIOUS
  <2>2. Accepted(in)
    BY <1>8, <1>10, <2>1, BulkInputAccepted DEF BulkMove
  <2>3. Replace(i, in)
    BY <1>10, <2>1 DEF BulkMove, Replace
  <2>. QED  BY <1>8, <2>2, <2>3, ReplaceGood
<1>. QED  BY <1>3, <1>4, <1>5, <1>6, <1>7, <1>9, <1>10 DEF Next

LEMMA InvStep == Inv /\ [Next]_vars => Inv'
<1>1. Inv /\ Next => Inv'
  BY StepIsGood DEF Good
<1>2. Inv /\ UNCHANGED vars => Inv'
  BY DEF vars, Inv, TypeOK, Shape, TransferSymmetry, FeeFalls,
         IsOutflow, Live, TransferPartner
<1>. QED  BY <1>1, <1>2

LEMMA InvAlways == Spec => []Inv
BY InvInit, InvStep, PTL DEF Spec

\* The tables stay in their types, and ids are handed out in order.
THEOREM TypeCorrect == Spec => []TypeOK
<1>1. Inv => TypeOK
  BY DEF Inv
<1>. QED  BY <1>1, InvAlways, PTL

\* The materialised balance is the sum of the live rows, whatever is created,
\* edited, moved and deleted, through whichever leg: no path reverses a leg twice,
\* forgets one, or reverses a fee that was deleted on its own.
THEOREM BalancesAreSums == Spec => []BalanceIsSumOfLiveRows
<1>1. Init => Booked
  <2>1. ASSUME Init, NEW a \in Accounts PROVE balance[a] = SumOn(Share(a), Alive)
    <3>1. Alive = {} /\ balance[a] = 0
      BY <2>1 DEF Init, Alive, Live
    <3>. QED  BY <3>1, SumEmpty
  <2>. QED  BY <2>1 DEF Booked
<1>2. Inv /\ Booked /\ [Next]_vars => Booked'
  <2>1. Inv /\ Booked /\ Next => Booked'
    BY StepIsGood DEF Good
  <2>2. Booked /\ UNCHANGED vars => Booked'
    BY DEF vars, Booked, Share, Posted, Alive, Live
  <2>. QED  BY <2>1, <2>2
<1>3. Spec => []Booked
  BY <1>1, <1>2, InvAlways, PTL DEF Spec
<1>4. Inv /\ Booked => BalanceIsSumOfLiveRows
  <2>1. ASSUME Inv, Booked, NEW a \in Accounts
        PROVE  balance[a] = MapThenSumSet(LAMBDA i : txn[i].amount,
                                          {i \in Used : Live(i) /\ txn[i].account = a})
    <3>. DEFINE L == {i \in Used : Live(i) /\ txn[i].account = a}
                amount == [i \in L |-> txn[i].amount]
    <3>1. /\ IsFiniteSet(Alive) /\ L \in SUBSET Alive /\ IsFiniteSet(L)
          /\ \A i \in Alive : Share(a)[i] \in Int /\ i \in TxnId
      BY <2>1, AliveFacts, FS_Subset DEF Inv, Alive, Used
    <3>2. \A i \in Alive \ L : Share(a)[i] = 0
      BY <3>1 DEF Share, Posted, Alive, Used, Live
    <3>3. \A i \in L : Share(a)[i] = amount[i]
      BY <3>1 DEF Share, Posted
    <3>. HIDE DEF amount, L
    <3>4. SumOn(Share(a), Alive) = SumOn(Share(a), L)
      BY <3>1, <3>2, SumSupport
    <3>5. SumOn(Share(a), L) = SumOn(amount, L)
      BY <3>1, <3>3, SumSame
    <3>6. SumOn(amount, L) = MapThenSumSet(LAMBDA i : txn[i].amount, L)
      BY DEF amount, SumOn, MapThenSumSet, MapThenFoldSet
    <3>. QED  BY <2>1, <3>4, <3>5, <3>6 DEF Booked, L
  <2>. QED  BY <2>1 DEF BalanceIsSumOfLiveRows
<1>. QED  BY <1>3, <1>4, InvAlways, PTL

\* A row is a leg of one transfer, in one role.
THEOREM LegsArePairedOnce == Spec => []LegsPairedOnce
<1>1. ASSUME Inv, NEW o \in TxnId, IsOutflow(o)
      PROVE  /\ o + 1 \in TxnId
             /\ transfer[o].inflow = o + 1
             /\ ~IsOutflow(o + 1)
             /\ transfer[o].fee # None => transfer[o].fee = o + 2 /\ ~IsOutflow(o + 2)
             /\ txn[o].account # txn[o + 1].account
  <2>1. o + 1 < next /\ next <= MaxTxn + 1 /\ next \in Nat /\ MaxTxn \in Nat
    BY <1>1, NumberFacts DEF Inv, Shape
  <2>. QED  BY <1>1, <2>1 DEF Inv, Shape
<1>2. ASSUME Inv
      PROVE  LegsPairedOnce
  <2>1. ASSUME NEW o \in TxnId, IsOutflow(o), NEW p \in TxnId \ {o}, IsOutflow(p)
        PROVE  {o, transfer[o].inflow, transfer[o].fee}
                 \cap {p, transfer[p].inflow, transfer[p].fee} \subseteq {None}
    <3>1. /\ transfer[o].inflow = o + 1 /\ transfer[p].inflow = p + 1
          /\ o # p + 1 /\ p # o + 1
      BY <1>1, <1>2, <2>1
    <3>2. transfer[o].fee # None => transfer[o].fee = o + 2 /\ p # o + 2
      BY <1>1, <1>2, <2>1
    <3>3. transfer[p].fee # None => transfer[p].fee = p + 2 /\ o # p + 2
      BY <1>1, <1>2, <2>1
    <3>. QED  BY <3>1, <3>2, <3>3
  <2>2. ASSUME NEW o \in TxnId, IsOutflow(o)
        PROVE  /\ txn[o].account # txn[transfer[o].inflow].account
               /\ ~IsOutflow(transfer[o].inflow)
               /\ transfer[o].fee # None => ~IsOutflow(transfer[o].fee)
               /\ transfer[o].fee \notin {o, transfer[o].inflow}
    <3>1. /\ o \in Nat \ {0} /\ transfer[o].inflow = o + 1
          /\ transfer[o].fee = None \/ transfer[o].fee = o + 2
      BY <1>1, <1>2, <2>2, NumberFacts
    <3>2. transfer[o].fee \notin {o, transfer[o].inflow}
      BY <3>1
    <3>. QED  BY <3>2, <1>1, <1>2, <2>2
  <2>. QED  BY <2>1, <2>2 DEF LegsPairedOnce
<1>. QED  BY <1>2, InvAlways, PTL

\* The ledger list shows every live movement exactly once.
THEOREM ListIsComplete == Spec => []ListShowsEveryMovementOnce
<1>1. ASSUME Inv, NEW i \in Used, Live(i)
      PROVE  Listed(Root(i)) /\ (i # Root(i) => ~Listed(i))
  <2>1. i \in TxnId
    BY DEF Used
  <2>2. PICK o : o = Root(i)
    OBVIOUS
  <2>3. /\ o \in TxnId
        /\ \A p \in TxnId : IsOutflow(p) => p + 1 # o
        /\ o = i \/ (IsOutflow(o) /\ o + 1 = i)
    BY <1>1, <2>1, <2>2, RootFacts DEF NoInflow, IsOutflow
  <2>4. IsOutflow(o) => transfer[o].inflow = o + 1 /\ (Live(o) <=> ~transfer[o].deleted)
    BY <1>1, <2>3 DEF Inv, Shape, TransferSymmetry
  <2>5. o # i => IsOutflow(o) /\ transfer[o].inflow = i /\ (Live(i) <=> ~transfer[o].deleted)
    BY <1>1, <2>3 DEF Inv, Shape, TransferSymmetry, IsOutflow
  <2>6. ~\E p \in TxnId : IsInflowOf(o, p)
    BY <1>1, <2>3 DEF IsInflowOf, Inv, Shape
  <2>7. Live(o) /\ (IsOutflow(o) => ~transfer[o].deleted)
    BY <1>1, <2>4, <2>5 DEF Live
  <2>8. o # i => \E p \in TxnId : IsInflowOf(i, p)
    BY <2>5, <2>3 DEF IsInflowOf
  <2>. QED  BY <2>2, <2>6, <2>7, <2>8 DEF Listed, Live, IsOutflow, IsInflowOf
<1>2. Inv => ListShowsEveryMovementOnce
  BY <1>1 DEF ListShowsEveryMovementOnce
<1>. QED  BY <1>2, InvAlways, PTL

\* No step removes, revives or rewrites a row: history only grows.
THEOREM HistoryOnlyGrows == Spec => HistoryIsAppendOnly
<1>1. Inv /\ [Next]_vars => [Appends]_vars
  BY StepIsGood DEF Good
<1>. QED  BY <1>1, InvAlways, PTL DEF Spec, HistoryIsAppendOnly, Appends

-----------------------------------------------------------------------------
(* Successors.  The links of an edit are written in one step, between rows *)
(* that were alive and rows that are new, so no link is ever written over. *)

\* SupersessionIsLinear, and successors are rows.
Links ==
  /\ SupersessionIsLinear
  /\ \A i \in Used : txn[i].supersededBy \in Used \cup {None}

LEMMA UsedRows ==
  ASSUME TypeOK, NEW k \in Used
  PROVE  k \in TxnId /\ txn[k] \in Row /\ txn[k] # NoRow
BY DEF TypeOK, Used

LEMMA LinksKept ==
  ASSUME TypeOK, TypeOK', Links, next' >= next,
         \A k \in Used : \/ txn'[k] = txn[k]
                         \/ /\ Live(k) /\ txn'[k].deleted /\ txn'[k].supersedes = txn[k].supersedes
                            /\ txn'[k].supersededBy # None =>
                                 /\ txn'[k].supersededBy \in Used'
                                 /\ txn'[txn'[k].supersededBy].supersedes = k,
         \A k \in Used' \ Used :
           /\ txn'[k].supersededBy = None
           /\ txn'[k].supersedes # None =>
                txn'[k].supersedes \in Used /\ txn'[txn'[k].supersedes].supersededBy = k
  PROVE  Links'
<1>1. /\ next \in Nat /\ next' \in Nat
      /\ Used = {k \in TxnId : k < next} /\ Used' = {k \in TxnId : k < next'}
  BY NumberFacts, LedgerAssumption DEF TypeOK, Used
<1>2. Used \subseteq Used' /\ Used \subseteq TxnId /\ None \notin TxnId
  BY <1>1
<1>3. ASSUME NEW i \in Used
      PROVE  /\ txn'[i].supersededBy # None => txn'[i].deleted /\ txn'[txn'[i].supersededBy].supersedes = i
             /\ txn'[i].supersededBy \in Used' \cup {None}
  <2>1. CASE txn'[i] = txn[i]
    <3>1. /\ txn[i].supersededBy # None => txn[i].deleted /\ txn[txn[i].supersededBy].supersedes = i
          /\ txn[i].supersededBy \in Used \cup {None}
      BY DEF Links, SupersessionIsLinear
    <3>2. \A k \in Used : txn'[k].supersedes = txn[k].supersedes
      OBVIOUS
    <3>. QED  BY <1>2, <2>1, <3>1, <3>2
  <2>2. CASE txn'[i] # txn[i]
    BY <2>2
  <2>. QED  BY <2>1, <2>2
<1>4. ASSUME NEW i \in Used, txn'[i].supersedes # None
      PROVE  txn'[i].supersedes < i /\ txn'[txn'[i].supersedes].supersededBy = i
  <2>1. txn'[i].supersedes = txn[i].supersedes
    OBVIOUS
  <2>. DEFINE p == txn[i].supersedes
  <2>2. p < i /\ txn[p].supersededBy = i
    BY <1>4, <2>1 DEF Links, SupersessionIsLinear
  <2>3. p \in Used
    <3>1. txn[i] \in Row
      BY UsedRows
    <3>2. p \in TxnId \cup {None}
      BY <3>1 DEF Row
    <3>. QED  BY <1>1, <1>2, <1>4, <2>1, <2>2, <3>2
  <2>4. txn[p].deleted
    <3>1. txn[p].supersededBy # None
      BY <1>2, <2>2
    <3>2. txn[p].supersededBy # None => txn[p].deleted
      BY <2>3 DEF Links, SupersessionIsLinear
    <3>. QED  BY <3>1, <3>2
  <2>5. txn'[p] = txn[p]
    BY <2>3, <2>4 DEF Live
  <2>. QED  BY <2>1, <2>2, <2>5
<1>5. ASSUME NEW i \in Used' \ Used, txn'[i].supersedes # None
      PROVE  txn'[i].supersedes < i /\ txn'[txn'[i].supersedes].supersededBy = i
  BY <1>1, <1>5
<1>6. \A i \in Used' :
        /\ txn'[i].supersededBy # None => txn'[i].deleted /\ txn'[txn'[i].supersededBy].supersedes = i
        /\ txn'[i].supersedes # None =>
             txn'[i].supersedes < i /\ txn'[txn'[i].supersedes].supersededBy = i
        /\ txn'[i].supersededBy \in Used' \cup {None}
  BY <1>3, <1>4, <1>5
<1>. QED  BY <1>6 DEF Links, SupersessionIsLinear

\* The links that a new row is born with.
LEMMA NewRowLinks ==
  ASSUME NEW in, NEW k, NEW o, NEW p
  PROVE  /\ NewRow(in, k, o, p).supersededBy = None
         /\ NewRow(in, k, o, p).supersedes =
              IF in.type # "transfer" \/ k = 0 THEN o ELSE IF k = 1 THEN p ELSE None
<1>1. NewRow(in, k, o, p) \in {StandardRow(in, o), OutflowRow(in, o), InflowRow(in, p), FeeRow(in)}
  BY DEF NewRow
<1>2. /\ StandardRow(in, o).supersededBy = None /\ StandardRow(in, o).supersedes = o
      /\ OutflowRow(in, o).supersededBy = None /\ OutflowRow(in, o).supersedes = o
      /\ InflowRow(in, p).supersededBy = None /\ InflowRow(in, p).supersedes = p
      /\ FeeRow(in).supersededBy = None /\ FeeRow(in).supersedes = None
  BY DEF StandardRow, OutflowRow, InflowRow, FeeRow, MakeRow
<1>3. NewRow(in, k, o, p) = IF in.type # "transfer" THEN StandardRow(in, o)
                            ELSE IF k = 0 THEN OutflowRow(in, o)
                            ELSE IF k = 1 THEN InflowRow(in, p) ELSE FeeRow(in)
  BY DEF NewRow
<1>. QED  BY <1>2, <1>3

LEMMA CreateLinks ==
  ASSUME Inv, Inv', Links, NEW in, Create(in)
  PROVE  Links'
<1>1. TypeOK /\ TypeOK' /\ next \in Nat /\ next' = next + RowCount(in) /\ RowCount(in) \in 1..3
  BY NumberFacts, RowCountFacts DEF Inv, Create
<1>2. \A k \in TxnId : txn'[k] = IF k \in NewIds(in) THEN NewRow(in, k - next, None, None) ELSE txn[k]
  BY DEF Create
<1>3. \A k \in Used : k \in TxnId /\ k < next
  BY <1>1 DEF Used, TypeOK
<1>4. \A k \in Used : txn'[k] = txn[k]
  BY <1>1, <1>2, <1>3 DEF NewIds
<1>5. \A k \in Used' \ Used : txn'[k].supersededBy = None /\ txn'[k].supersedes = None
  <2>1. SUFFICES ASSUME NEW k \in Used' \ Used
                 PROVE  txn'[k].supersededBy = None /\ txn'[k].supersedes = None
    OBVIOUS
  <2>2. k \in TxnId /\ txn'[k] # NoRow /\ txn[k] = NoRow
    BY <2>1 DEF Used
  <2>3. txn'[k] = NewRow(in, k - next, None, None)
    BY <1>2, <2>2
  <2>. QED  BY <2>3, NewRowLinks
<1>. QED  BY <1>1, <1>4, <1>5, LinksKept

LEMMA BulkCreateLinks ==
  ASSUME Inv, Inv', Links, NEW in1, NEW in2, BulkCreate(in1, in2)
  PROVE  Links'
<1>1. /\ TypeOK /\ TypeOK' /\ next \in TxnId /\ next + 1 \in TxnId /\ next' = next + 2 /\ next \in Nat
  BY NumberFacts DEF Inv, BulkCreate, Room
<1>2. /\ txn'[next] = StandardRow(in1, None) /\ txn'[next + 1] = StandardRow(in2, None)
      /\ \A k \in TxnId \ {next, next + 1} : txn'[k] = txn[k]
  BY <1>1 DEF BulkCreate, TypeOK
<1>3. \A k \in Used : k \in TxnId /\ k < next
  BY <1>1 DEF Used, TypeOK
<1>4. \A k \in Used : txn'[k] = txn[k]
  BY <1>1, <1>2, <1>3
<1>5. \A k \in Used' \ Used : txn'[k].supersededBy = None /\ txn'[k].supersedes = None
  <2>1. SUFFICES ASSUME NEW k \in Used' \ Used
                 PROVE  txn'[k].supersededBy = None /\ txn'[k].supersedes = None
    OBVIOUS
  <2>2. k \in TxnId /\ txn'[k] # NoRow /\ txn[k] = NoRow
    BY <2>1 DEF Used
  <2>3. k \in {next, next + 1}
    BY <1>2, <2>2
  <2>. QED  BY <1>2, <2>3 DEF StandardRow, MakeRow
<1>. QED  BY <1>1, <1>4, <1>5, LinksKept

\* A live row has no successor yet, and a tombstone gives it none.
LEMMA TombstoneLinks ==
  ASSUME Inv, Inv', Links, NEW K, \A k \in K : Live(k), txn' = Tombstone(K), next' = next
  PROVE  Links'
<1>1. TypeOK /\ TypeOK' /\ next' >= next
  BY NumberFacts DEF Inv
<1>2. ASSUME NEW k \in Used
      PROVE  txn'[k] = txn[k] \/ (Live(k) /\ txn'[k].deleted /\ txn'[k].supersedes = txn[k].supersedes
                                    /\ txn'[k].supersededBy = None)
  <2>1. k \in TxnId /\ txn[k] \in Row
    BY <1>1 DEF Used, TypeOK
  <2>2. CASE k \in K
    <3>1. ~txn[k].deleted /\ Live(k)
      BY <2>2 DEF Live
    <3>2. txn[k].supersededBy = None
      BY <3>1 DEF Links, SupersessionIsLinear
    <3>3. txn'[k] = [txn[k] EXCEPT !.deleted = TRUE]
      BY <2>1, <2>2 DEF Tombstone
    <3>. QED  BY <2>1, <3>1, <3>2, <3>3 DEF Row
  <2>3. CASE k \notin K
    BY <2>1, <2>3 DEF Tombstone
  <2>. QED  BY <2>2, <2>3
<1>3. Used' = Used
  BY <1>1 DEF Used, TypeOK
<1>. QED  BY <1>1, <1>2, <1>3, LinksKept

LEMMA ReplaceLinks ==
  ASSUME Inv, Inv', Links, NEW i \in TxnId, NEW in, Replace(i, in)
  PROVE  Links'
<1>1. PICK o : o = Root(i)
  OBVIOUS
<1>2. PICK oi, fee : oi = InflowOf(o) /\ fee = LiveFeeOf(o)
  OBVIOUS
<1>3. /\ TypeOK /\ TypeOK' /\ Reversing(o) /\ o \in TxnId /\ next \in Nat
      /\ next' = next + RowCount(in) /\ RowCount(in) \in 1..3 /\ Room(RowCount(in))
      /\ in.type = "transfer" => RowCount(in) >= 2
      /\ in.type # "transfer" => RowCount(in) = 1
  BY <1>1, NumberFacts, RowCountFacts, RootReversing DEF Inv, Replace, Reversing, RowCount
<1>4. \A k \in {o, oi, fee} \ {None} : k \in TxnId /\ Live(k)
  BY <1>2, <1>3, MovementFacts DEF Movement
<1>5. o # oi
  BY <1>2, <1>3 DEF Inv, Shape, InflowOf
<1>6. \A k \in TxnId :
        txn'[k] =
          IF k \in NewIds(in) THEN NewRow(in, k - next, o, oi)
          ELSE IF k = o THEN Superseded(k, next)
          ELSE IF k = oi
            THEN Superseded(k, IF in.type = "transfer" THEN next + 1 ELSE None)
          ELSE IF k = fee THEN Superseded(k, None)
          ELSE txn[k]
  BY <1>1, <1>2 DEF Replace
<1>7. \A k \in TxnId : txn[k] # NoRow => k < next
  BY <1>3 DEF TypeOK
<1>8. \A k \in NewIds(in) : k \in TxnId /\ k \in Nat /\ k >= next /\ k < next' /\ k \in Used'
  BY <1>3, NumberFacts DEF NewIds, Room, Used, TypeOK
<1>9. /\ next \in NewIds(in) /\ txn'[next] = NewRow(in, 0, o, oi)
      /\ in.type = "transfer" => next + 1 \in NewIds(in) /\ txn'[next + 1] = NewRow(in, 1, o, oi)
  <2>1. next - next = 0 /\ (next + 1) - next = 1
    BY <1>3
  <2>2. next \in NewIds(in) /\ (in.type = "transfer" => next + 1 \in NewIds(in))
    BY <1>3 DEF NewIds
  <2>. QED  BY <1>6, <1>8, <2>1, <2>2
<1>10. ASSUME NEW k \in TxnId, txn[k] \in Row, NEW by \in TxnId \cup {None}
       PROVE  /\ Superseded(k, by).deleted /\ Superseded(k, by).supersedes = txn[k].supersedes
              /\ Superseded(k, by).supersededBy = by
  BY <1>10 DEF Superseded, Row
<1>11. ASSUME NEW k \in Used
       PROVE  \/ txn'[k] = txn[k]
              \/ /\ Live(k) /\ txn'[k].deleted /\ txn'[k].supersedes = txn[k].supersedes
                 /\ txn'[k].supersededBy # None =>
                      /\ txn'[k].supersededBy \in Used'
                      /\ txn'[txn'[k].supersededBy].supersedes = k
  <2>1. k \in TxnId /\ txn[k] \in Row /\ k \notin NewIds(in) /\ k # None
    <3>1. k \in TxnId /\ txn[k] \in Row /\ txn[k] # NoRow
      BY <1>3, UsedRows
    <3>. QED  BY <1>3, <1>7, <1>8, <3>1
  <2>2. CASE k = o
    <3>1. txn'[k] = Superseded(k, next) /\ Live(k)
      BY <1>4, <1>6, <2>1, <2>2
    <3>2. txn'[next].supersedes = o
      BY <1>9, NewRowLinks
    <3>3. next \in TxnId /\ next \in Used'
      BY <1>8, <1>9
    <3>. QED  BY <1>10, <2>1, <2>2, <3>1, <3>2, <3>3
  <2>3. CASE k = oi /\ in.type = "transfer"
    <3>1. txn'[k] = Superseded(k, next + 1) /\ Live(k)
      BY <1>4, <1>5, <1>6, <2>1, <2>3
    <3>2. txn'[next + 1].supersedes = oi
      BY <1>9, <2>3, NewRowLinks
    <3>3. next + 1 \in TxnId /\ next + 1 \in Used'
      BY <1>8, <1>9, <2>3
    <3>. QED  BY <1>10, <2>1, <2>3, <3>1, <3>2, <3>3
  <2>4. CASE k # o /\ ((k = oi /\ in.type # "transfer") \/ (k # oi /\ k = fee))
    <3>1. txn'[k] = Superseded(k, None) /\ Live(k)
      BY <1>4, <1>6, <2>1, <2>4
    <3>. QED  BY <1>10, <2>1, <3>1
  <2>5. CASE k \notin {o, oi, fee}
    BY <1>6, <2>1, <2>5
  <2>. QED  BY <2>2, <2>3, <2>4, <2>5
<1>12. ASSUME NEW k \in Used' \ Used
       PROVE  /\ txn'[k].supersededBy = None
              /\ txn'[k].supersedes # None =>
                   txn'[k].supersedes \in Used /\ txn'[txn'[k].supersedes].supersededBy = k
  <2>1. k \in TxnId /\ txn[k] = NoRow /\ txn'[k] # NoRow
    BY DEF Used
  <2>2. k \notin {o, oi, fee}
    BY <1>4, <2>1 DEF Live
  <2>3. k \in NewIds(in) /\ txn'[k] = NewRow(in, k - next, o, oi)
    BY <1>6, <2>1, <2>2
  <2>4. /\ txn'[k].supersededBy = None
        /\ txn'[k].supersedes =
             IF in.type # "transfer" \/ k - next = 0 THEN o ELSE IF k - next = 1 THEN oi ELSE None
    BY <2>3, NewRowLinks
  <2>5. in.type # "transfer" => k = next
    BY <1>3, <2>3 DEF NewIds
  <2>6. CASE k = next
    <3>1. txn'[k].supersedes = o
      BY <1>3, <2>4, <2>6
    <3>2. /\ o \in Used /\ txn[o] \in Row /\ txn'[o] = Superseded(o, next)
      BY <1>3, <1>4, <1>6, <1>7, <1>8 DEF Live, Used, TypeOK
    <3>. QED  BY <1>3, <1>10, <2>1, <2>4, <2>6, <3>1, <3>2
  <2>7. CASE k = next + 1 /\ oi # None
    <3>1. txn'[k].supersedes = oi /\ in.type = "transfer"
      BY <1>3, <2>4, <2>5, <2>7
    <3>2. oi \in TxnId /\ Live(oi) /\ oi < next
      BY <1>4, <1>7, <2>7 DEF Live
    <3>3. oi \in Used /\ txn[oi] \in Row /\ oi \notin NewIds(in)
      <4>1. oi \in Used
        BY <3>2 DEF Live, Used
      <4>2. oi \notin NewIds(in)
        BY <1>3, <1>8, <3>2
      <4>. QED  BY <1>3, <4>1, <4>2, UsedRows
    <3>4. txn'[oi] = Superseded(oi, next + 1)
      BY <1>5, <1>6, <3>1, <3>2, <3>3
    <3>. QED  BY <1>3, <1>10, <2>1, <2>4, <2>7, <3>1, <3>2, <3>3, <3>4
  <2>8. CASE k # next /\ (k # next + 1 \/ oi = None)
    BY <1>3, <1>8, <2>3, <2>4, <2>5, <2>8
  <2>. QED  BY <2>6, <2>7, <2>8
<1>13. next' >= next
  BY <1>3
<1>. QED  BY <1>3, <1>11, <1>12, <1>13, LinksKept

LEMMA LinksStep == Inv /\ Inv' /\ Links /\ [Next]_vars => Links'
<1>. SUFFICES ASSUME Inv, Inv', Links, [Next]_vars PROVE Links'
  OBVIOUS
<1>1. Used \subseteq TxnId
  BY DEF Used
<1>2. CASE UNCHANGED vars
  BY <1>2 DEF vars, Links, SupersessionIsLinear, Used
<1>3. ASSUME NEW in, Create(in) PROVE Links'
  BY <1>3, CreateLinks
<1>4. ASSUME NEW in1, NEW in2, BulkCreate(in1, in2) PROVE Links'
  BY <1>4, BulkCreateLinks
<1>5. ASSUME NEW i \in Used, Delete(i) PROVE Links'
  <2>1. Reversing(Root(i)) /\ txn' = Tombstone(Movement(Root(i))) /\ next' = next
    BY <1>1, <1>5, RootReversing DEF Delete
  <2>. QED  BY <2>1, MovementFacts, TombstoneLinks
<1>6. ASSUME NEW i \in Used, NEW j \in Used, BulkDelete(i, j) PROVE Links'
  <2>1. /\ Reversing(Root(i)) /\ Reversing(Root(j)) /\ next' = next
        /\ txn' = Tombstone(Movement(Root(i)) \cup Movement(Root(j)))
    BY <1>1, <1>6, RootReversing DEF BulkDelete
  <2>2. \A k \in Movement(Root(i)) \cup Movement(Root(j)) : Live(k)
    BY <2>1, MovementFacts
  <2>. QED  BY <2>1, <2>2, TombstoneLinks
<1>7. ASSUME NEW i \in Used, NEW in, Replace(i, in) PROVE Links'
  BY <1>1, <1>7, ReplaceLinks
<1>. QED  BY <1>2, <1>3, <1>4, <1>5, <1>6, <1>7 DEF Next, Update, BulkRecategorize, BulkMove

\* The edit history of a row never forks, over any number of edits and deletes.
THEOREM HistoryIsLinear == Spec => []SupersessionIsLinear
<1>1. Init => Links
  BY DEF Init, Links, SupersessionIsLinear, Used
<1>2. Spec => []Links
  BY <1>1, InvAlways, LinksStep, PTL DEF Spec
<1>3. Links => SupersessionIsLinear
  BY DEF Links
<1>. QED  BY <1>2, <1>3, PTL

\* No transfer ever has one leg alive and one dead, and its fee dies with it and
\* leaves no live row in its place, unless the fee was edited on its own.
THEOREM TransfersAreWhole == Spec => []TransfersStayWhole
<1>1. Inv /\ SupersessionIsLinear => TransfersStayWhole
  <2>. SUFFICES ASSUME Inv, SupersessionIsLinear
                PROVE  TransfersStayWhole
    OBVIOUS
  <2>1. ASSUME NEW o \in TxnId, IsOutflow(o), transfer[o].fee # None,
               ~EditedAlone(transfer[o].fee), NEW i \in Used
        PROVE  txn[i].supersedes # transfer[o].fee
    <3>1. i \in 1..MaxTxn /\ i # None
      BY DEF Used, TxnId, None
    <3>2. txn[i].supersedes # None =>
            txn[txn[i].supersedes].supersededBy = i
      BY DEF SupersessionIsLinear
    <3>. QED  BY <2>1, <3>1, <3>2 DEF EditedAlone
  <2>. QED  BY <2>1 DEF Inv, FeeFalls, TransfersStayWhole, FeeFollowsTransfer
<1>. QED  BY <1>1, InvAlways, HistoryIsLinear, PTL

-----------------------------------------------------------------------------
(* Market data. Nothing in it is about the ledger: what follows is for any *)
(* sources, funds, prices and days, and any number of syncs that overlap.  *)

LEMMA MarketGiven ==
  /\ Days \subseteq Nat \ {0} /\ IsFiniteSet(Days) /\ Navs \subseteq Nat \ {0}
  /\ "XAU-BSI" \notin Funds /\ "reksadana_id" \notin Range(GoldChain)
  /\ GoldChain \in Seq(STRING) /\ Len(GoldChain) \in Nat \ {0}
  /\ PriceScale \in Nat \ {0} /\ GramScale \in Nat \ {0} /\ LatestTail \in Nat \ {0}
  /\ OunceNum \in Nat \ {0} /\ OunceDen \in Nat \ {0} /\ OunceNum > OunceDen
  /\ \A source \in Range(GoldChain) :
       Pages[source] \subseteq Seq((Nat \ {0}) \X (Nat \ {0}))
BY MarketDataAssumption

\* Division with a remainder, and that there is one way to do it.
LEMMA Division ==
  ASSUME NEW a \in Nat, NEW d \in Nat \ {0}
  PROVE  /\ a \div d \in Nat /\ a % d \in Nat
         /\ a = d * (a \div d) + (a % d) /\ a % d < d
BY SMTT(30)

LEMMA QuotientIsOne ==
  ASSUME NEW d \in Nat \ {0}, NEW q \in Int, NEW p \in Int, NEW r \in Int, NEW e \in Int,
         0 <= r, r < d, 0 <= e, e < d, d * q + r = d * p + e
  PROVE  q = p /\ r = e
<1>1. CASE q >= p + 1
  <2>1. d * q >= d * (p + 1)
    BY <1>1
  <2>2. d * (p + 1) = d * p + d
    OBVIOUS
  <2>. QED  BY <2>1, <2>2
<1>2. CASE p >= q + 1
  <2>1. d * p >= d * (q + 1)
    BY <1>2
  <2>2. d * (q + 1) = d * q + d
    OBVIOUS
  <2>. QED  BY <2>1, <2>2
<1>3. CASE q = p
  BY <1>3
<1>. QED  BY <1>1, <1>2, <1>3

\* What is rounded is a whole number that is at most half a unit off.
LEMMA HalfEvenIsNear ==
  ASSUME NEW a \in Nat, NEW d \in Nat \ {0}
  PROVE  /\ HalfEven(a, d) \in Nat
         /\ 2 * (d * HalfEven(a, d)) <= 2 * a + d
         /\ 2 * a <= 2 * (d * HalfEven(a, d)) + d
<1>. DEFINE q == a \div d
            r == a % d
<1>1. q \in Nat /\ r \in Nat /\ a = d * q + r /\ r < d
  BY Division
<1>2. Abs(a) = a /\ ~(a < 0)
  BY DEF Abs
<1>3. HalfEven(a, d) = IF 2 * r > d \/ (2 * r = d /\ q % 2 = 1) THEN q + 1 ELSE q
  BY <1>2 DEF HalfEven
<1>. HIDE DEF q, r
<1>4. d * (q + 1) = d * q + d /\ d * q \in Nat
  BY <1>1
<1>5. CASE HalfEven(a, d) = q + 1 /\ 2 * r >= d
  BY <1>1, <1>4, <1>5
<1>6. CASE HalfEven(a, d) = q /\ 2 * r <= d
  BY <1>1, <1>4, <1>6
<1>. QED  BY <1>1, <1>3, <1>5, <1>6

\* A number that is less than half a unit off is rounded to that unit.
LEMMA HalfEvenFinds ==
  ASSUME NEW a \in Nat, NEW d \in Nat \ {0}, NEW g \in Nat,
         2 * (d * g) < 2 * a + d, 2 * a < 2 * (d * g) + d
  PROVE  HalfEven(a, d) = g
<1>. DEFINE h == HalfEven(a, d)
<1>1. h \in Nat /\ 2 * (d * h) <= 2 * a + d /\ 2 * a <= 2 * (d * h) + d
  BY HalfEvenIsNear
<1>. HIDE DEF h
<1>2. d * h \in Nat /\ d * g \in Nat
  BY <1>1
<1>3. CASE h >= g + 1
  <2>1. d * h >= d * (g + 1) /\ d * (g + 1) = d * g + d
    BY <1>1, <1>3
  <2>. QED  BY <2>1, <1>1, <1>2
<1>4. CASE g >= h + 1
  <2>1. d * g >= d * (h + 1) /\ d * (h + 1) = d * h + d
    BY <1>1, <1>4
  <2>. QED  BY <2>1, <1>1, <1>2
<1>5. h = g
  BY <1>1, <1>3, <1>4
<1>. QED  BY <1>5 DEF h

\* A price per gram survives the way to ounces and back to the last digit, for an
\* ounce is more than a gram.
LEMMA OuncesAndBack ==
  ASSUME NEW g \in Nat
  PROVE  PerOunce(g) \in Nat /\ FromOunce(PerOunce(g)) = g
<1>. DEFINE p == PerOunce(g)
<1>1. OunceNum \in Nat \ {0} /\ OunceDen \in Nat \ {0} /\ OunceNum > OunceDen
  BY MarketGiven
<1>2. g * OunceNum \in Nat
  BY <1>1
<1>3. p \in Nat /\ 2 * (OunceDen * p) <= 2 * (g * OunceNum) + OunceDen
      /\ 2 * (g * OunceNum) <= 2 * (OunceDen * p) + OunceDen
  BY <1>1, <1>2, HalfEvenIsNear DEF PerOunce
<1>. HIDE DEF p
<1>4. p * OunceDen \in Nat /\ p * OunceDen = OunceDen * p /\ g * OunceNum = OunceNum * g
  BY <1>1, <1>3
<1>5. HalfEven(p * OunceDen, OunceNum) = g
  <2>1. 2 * (OunceNum * g) < 2 * (p * OunceDen) + OunceNum
    BY <1>1, <1>2, <1>3, <1>4
  <2>2. 2 * (p * OunceDen) < 2 * (OunceNum * g) + OunceNum
    BY <1>1, <1>2, <1>3, <1>4
  <2>. QED  BY <1>1, <1>4, <2>1, <2>2, HalfEvenFinds
<1>6. p \in Nat /\ FromOunce(p) = g
  BY <1>3, <1>5 DEF FromOunce
<1>. QED  BY <1>6 DEF p

\* The smallest of a set of numbers is one of them.
LEMMA MinIsOne ==
  ASSUME NEW N \in SUBSET Nat, N # {}
  PROVE  Min(N) \in N
<1>1. \E n \in N : \A m \in N : n <= m
  BY LeastNumber
<1>. QED  BY <1>1 DEF Min

\* A page with rows has a price per gram.
LEMMA PageHasPrice ==
  ASSUME NEW rows \in Seq((Nat \ {0}) \X (Nat \ {0})), rows # <<>>
  PROVE  PerGram(ChosenEntry(rows)) \in Nat
<1>. DEFINE grams == {n \in DOMAIN rows : OneGram(rows[n])}
            least == {n \in DOMAIN rows : \A m \in DOMAIN rows : Weight(rows[n]) <= Weight(rows[m])}
            W == {Weight(rows[n]) : n \in DOMAIN rows}
<1>1. DOMAIN rows = 1..Len(rows) /\ Len(rows) \in Nat \ {0}
      /\ \A n \in DOMAIN rows : rows[n] \in (Nat \ {0}) \X (Nat \ {0})
  OBVIOUS
<1>2. \A n \in DOMAIN rows : Weight(rows[n]) \in Nat \ {0} /\ Price(rows[n]) \in Nat \ {0}
  BY <1>1 DEF Weight, Price
<1>3. least # {}
  <2>1. 1 \in DOMAIN rows
    BY <1>1
  <2>2. W \in SUBSET Nat /\ W # {}
    BY <1>2, <2>1
  <2>. HIDE DEF W
  <2>3. PICK w \in W : \A v \in W : w <= v
    BY <2>2, LeastNumber
  <2>. USE DEF W
  <2>4. PICK n \in DOMAIN rows : w = Weight(rows[n])
    OBVIOUS
  <2>5. \A m \in DOMAIN rows : Weight(rows[n]) <= Weight(rows[m])
    BY <2>3, <2>4
  <2>. QED  BY <2>4, <2>5
<1>4. PICK N : N = (IF grams # {} THEN grams ELSE least)
  OBVIOUS
<1>5. N \in SUBSET Nat /\ N # {} /\ N \subseteq DOMAIN rows
  <2>1. grams \subseteq DOMAIN rows /\ least \subseteq DOMAIN rows
    OBVIOUS
  <2>2. DOMAIN rows \subseteq Nat
    BY <1>1
  <2>. HIDE DEF grams, least
  <2>. QED  BY <1>3, <1>4, <2>1, <2>2
<1>6. Min(N) \in DOMAIN rows
  BY <1>5, MinIsOne
<1>7. ChosenEntry(rows) = rows[Min(N)]
  BY <1>4 DEF ChosenEntry
<1>8. PICK w \in Nat \ {0}, p \in Nat \ {0} :
        w = Weight(ChosenEntry(rows)) /\ p = Price(ChosenEntry(rows))
  BY <1>2, <1>6, <1>7
<1>9. p * GramScale * PriceScale \in Nat
  BY MarketGiven
<1>. QED  BY <1>8, <1>9, HalfEvenIsNear DEF PerGram

\* The payload of a series that has points has points too: the latest is in it.
LEMMA PayloadHasPoints ==
  ASSUME NEW points, points # {}, \A p \in points : p.day \in Days, NEW mode
  PROVE  Payload(points, mode) # {} /\ Payload(points, mode) \subseteq points
<1>. DEFINE D == {p.day : p \in points}
            later(d) == {e \in D : e > d}
            C == {Cardinality(later(d)) : d \in D}
<1>1. D \subseteq Nat /\ IsFiniteSet(D) /\ D # {}
  <2>1. D \subseteq Days
    OBVIOUS
  <2>2. D # {}
    OBVIOUS
  <2>. HIDE DEF D
  <2>. QED  BY <2>1, <2>2, MarketGiven, FS_Subset
<1>2. ASSUME NEW d \in D
      PROVE  IsFiniteSet(later(d)) /\ Cardinality(later(d)) \in Nat
  <2>1. later(d) \subseteq D
    OBVIOUS
  <2>. QED  BY <1>1, <2>1, FS_Subset, FS_CardinalityType
<1>3. C \in SUBSET Nat /\ C # {}
  BY <1>1, <1>2
<1>4. PICK c \in C : \A b \in C : c <= b
  <2>. HIDE DEF C
  <2>. QED  BY <1>3, LeastNumber
<1>5. PICK d \in D : c = Cardinality(later(d))
  OBVIOUS
<1>6. ASSUME NEW e \in later(d)
      PROVE  FALSE
  <2>1. e \in D /\ e > d
    OBVIOUS
  <2>2. later(e) \subseteq later(d) /\ e \in later(d) /\ e \notin later(e)
    <3>1. D \subseteq Nat
      BY <1>1
    <3>. HIDE DEF D
    <3>2. e \in Nat /\ d \in Nat
      BY <2>1, <3>1
    <3>3. \A x \in D : x > e => x > d
      BY <2>1, <3>1, <3>2
    <3>4. ~(e > e)
      BY <3>2
    <3>. QED  BY <2>1, <3>3, <3>4
  <2>3. Cardinality(later(e)) < Cardinality(later(d))
    <3>1. later(e) # later(d)
      BY <2>2
    <3>. HIDE DEF later
    <3>. QED  BY <1>2, <2>1, <2>2, <3>1, FS_Subset
  <2>4. Cardinality(later(e)) \in C /\ Cardinality(later(e)) \in Nat /\ c \in Nat
    BY <1>2, <1>3, <2>1
  <2>5. c <= Cardinality(later(e))
    BY <1>4, <2>4
  <2>6. Cardinality(later(e)) < c
    BY <1>5, <2>3
  <2>. HIDE DEF later
  <2>. QED  BY <2>4, <2>5, <2>6
<1>7. PICK p \in points : p.day = d
  OBVIOUS
<1>8. Newer(points, p) = {}
  <2>1. ASSUME NEW q \in Newer(points, p) PROVE FALSE
    <3>1. q \in points /\ q.day > d
      BY <1>7, <2>1 DEF Newer
    <3>2. q.day \in later(d)
      BY <3>1
    <3>. QED  BY <1>6, <3>2
  <2>. QED  BY <2>1
<1>9. Cardinality(Newer(points, p)) < LatestTail
  BY <1>8, FS_EmptySet, MarketGiven
<1>. QED  BY <1>9 DEF Payload

-----------------------------------------------------------------------------
(* The inductive invariant: types, what the sites have shown, and what     *)
(* each call has in hand and still has to ask.                             *)

Points == [day : Days, price : Navs]
Observation == [id : Identities, day : Days, price : Nat]
Sources == Range(GoldChain) \cup {"reksadana_id", "none"}
RawFetch == [source : Sources, ok : BOOLEAN, got : SUBSET Observation]
MarketQuote == [id : Identities, day : Days, price : Nat, source : Sources, raw : Nat]
SyncCall ==
  [pc : {"idle", "load", "next", "gold", "funds", "reply", "write"}, mode : {"latest", "history"},
   groups : SUBSET Registry, funds : SUBSET Funds, queue : SUBSET Funds, at : DOMAIN GoldChain,
   reply : SUBSET Points, live : BOOLEAN, asked : Funds \cup {"none"}, got : SUBSET Observation,
   ok : BOOLEAN, source : Sources, known : SUBSET Identities, down : SUBSET Identities]

\* Gold has a row without provider; only funds that were registered have one.
CatalogSound ==
  /\ catalog \in [Identities -> {Missing, Undeclared, "reksadana_id"}]
  /\ \A id \in Identities : catalog[id] = "reksadana_id" => id \in Registrable /\ id # Gold

\* What the sites show, and what the worker keeps, was published.
ShownIsPublished ==
  /\ DOMAIN page = Range(GoldChain)
  /\ \A source \in Range(GoldChain) : page[source].rows # <<>> =>
       /\ page[source].rows \in Pages[source] /\ page[source].day \in Days
       /\ <<source, Gold[1], page[source].day, PerGram(ChosenEntry(page[source].rows))>> \in published
  /\ nav \in [Funds -> [Days -> Navs \cup {0}]]
  /\ \A f \in Funds, d \in Days : nav[f][d] # 0 => <<"reksadana_id", f, d, nav[f][d]>> \in published
  /\ cache \in [Funds -> SUBSET Points]
  /\ \A f \in Funds : \A p \in cache[f] : <<"reksadana_id", f, p.day, p.price>> \in published

\* What a call has in hand was published by the source it names.
Truthful(call) ==
  /\ call.pc \in {"funds", "reply"} => call.source = "reksadana_id"
  /\ call.pc = "reply" =>
       /\ call.asked \in Funds /\ call.reply # {}
       /\ \A p \in call.reply : <<"reksadana_id", call.asked, p.day, p.price>> \in published
  /\ call.got # {} => call.pc \in {"funds", "reply", "write"} /\ call.ok
  /\ \A o \in call.got :
       /\ <<call.source, o.id[1], o.day, UnitPrice(o)>> \in published
       /\ (o.id = Gold) = (call.source # "reksadana_id")

\* What an instrument is still owed: its group, or its place in the group, or the
\* write of what was got for it.
AdapterFor(id) == IF id = Gold THEN "logam_mulia" ELSE "reksadana_id"
Owed(call, id) ==
  \/ AdapterFor(id) \in call.groups
  \/ \E o \in call.got : o.id = id
  \/ id = Gold /\ call.pc = "gold"
  \/ id # Gold /\ call.pc \in {"funds", "reply"} /\ id[1] \in call.queue
  \/ id # Gold /\ call.pc = "reply" /\ id[1] = call.asked

HasQuote(id) == \E q \in quotes : q.id = id
OtherCurrency(id) == id # Gold /\ FundCurrency[id[1]] # "IDR"

Accountable(call) ==
  /\ \A id \in call.known : id # Gold => id[1] \in call.funds /\ id = FundIn(id[1], "IDR")
  /\ \A id \in call.known \ call.down : HasQuote(id) \/ OtherCurrency(id) \/ Owed(call, id)

CallsSound ==
  /\ sync \in [Syncs -> SyncCall]
  /\ \A s \in Syncs : Truthful(sync[s]) /\ Accountable(sync[s])

QuotesSound ==
  /\ raws \in Seq(RawFetch) /\ quotes \subseteq MarketQuote
  /\ \A q \in quotes : q.raw \in DOMAIN raws
  /\ EveryQuoteWasPublished

\* A mark is of a day that the table still has a quote of, or of a later one.
MarksSound ==
  /\ DOMAIN mark = Identities
  /\ \A id \in Identities :
       /\ mark[id].day \in Nat
       /\ mark[id].day = 0 \/ \E q \in quotes : q.id = id /\ q.day >= mark[id].day

MarketInv == CatalogSound /\ ShownIsPublished /\ CallsSound /\ QuotesSound /\ MarksSound

LEMMA IdsDiffer ==
  /\ Gold \in Identities /\ Gold[1] = "XAU-BSI"
  /\ \A f \in Funds : /\ FundIn(f, "IDR") \in Registrable /\ FundIn(f, "IDR") \in Identities
                      /\ FundIn(f, FundCurrency[f]) \in Identities
                      /\ \A c : FundIn(f, c) # Gold /\ FundIn(f, c)[1] = f
  /\ \A id \in Registrable : id \in Identities /\ id[1] \in Funds /\ id = FundIn(id[1], "IDR")
BY MarketGiven DEF Gold, Identities, Registrable, FundIn

LEMMA MarketInitSound == MarketInit => MarketInv
<1>. SUFFICES ASSUME MarketInit PROVE MarketInv
  OBVIOUS
<1>. USE DEF MarketInit
<1>1. CatalogSound
  BY DEF CatalogSound, Missing, Undeclared
<1>2. ShownIsPublished
  BY DEF ShownIsPublished, NoPage
<1>3. Idle \in SyncCall /\ Truthful(Idle) /\ Accountable(Idle)
  <2>1. 1 \in DOMAIN GoldChain
    BY MarketGiven
  <2>2. Idle \in SyncCall
    BY <2>1 DEF Idle, SyncCall, Sources
  <2>. QED  BY <2>2 DEF Idle, Truthful, Accountable
<1>4. CallsSound
  BY <1>3 DEF CallsSound
<1>5. QuotesSound
  BY DEF QuotesSound, EveryQuoteWasPublished
<1>6. MarksSound
  BY DEF MarksSound, Unmarked
<1>. QED  BY <1>1, <1>2, <1>4, <1>5, <1>6 DEF MarketInv

\* What a step leaves true of the calls it does not touch: the sites take nothing
\* back, and no instrument loses its quotes.
Forward == published \subseteq published' /\ \A id : HasQuote(id) => HasQuote(id)'

LEMMA CallsStay ==
  ASSUME Forward, NEW call
  PROVE  /\ Truthful(call) => Truthful(call)'
         /\ Accountable(call) => Accountable(call)'
<1>1. ASSUME Truthful(call) PROVE Truthful(call)'
  BY <1>1 DEF Forward, Truthful, UnitPrice
<1>2. ASSUME Accountable(call) PROVE Accountable(call)'
  BY <1>2 DEF Forward, Accountable, Owed, OtherCurrency, AdapterFor
<1>. QED  BY <1>1, <1>2

\* One call moves.
LEMMA OneCallMoves ==
  ASSUME CallsSound, Forward, NEW s \in Syncs, NEW call \in SyncCall, Step(s, call),
         Truthful(call)', Accountable(call)'
  PROVE  CallsSound'
<1>1. sync' \in [Syncs -> SyncCall]
  BY DEF CallsSound, Step
<1>2. ASSUME NEW t \in Syncs PROVE Truthful(sync[t])' /\ Accountable(sync[t])'
  <2>1. CASE t = s
    <3>1. sync'[t] = call
      BY <2>1 DEF Step, CallsSound
    <3>. QED  BY <3>1 DEF Truthful, Accountable, Owed, HasQuote, UnitPrice
  <2>2. CASE t # s
    <3>1. PICK other \in SyncCall : other = sync[t]
      BY DEF CallsSound
    <3>2. sync'[t] = other
      BY <2>2, <3>1 DEF Step, CallsSound
    <3>3. Truthful(other)' /\ Accountable(other)'
      BY <3>1, CallsStay DEF CallsSound
    <3>. QED  BY <3>2, <3>3 DEF Truthful, Accountable, Owed, HasQuote, UnitPrice
  <2>. QED  BY <2>1, <2>2
<1>. QED  BY <1>1, <1>2 DEF CallsSound

\* No call moves.
LEMMA NoCallMoves ==
  ASSUME CallsSound, Forward, UNCHANGED sync
  PROVE  CallsSound'
<1>1. ASSUME NEW t \in Syncs PROVE Truthful(sync[t])' /\ Accountable(sync[t])'
  <2>1. PICK other \in SyncCall : other = sync[t] /\ other = sync'[t]
    BY DEF CallsSound
  <2>2. Truthful(other)' /\ Accountable(other)'
    BY <2>1, CallsStay DEF CallsSound
  <2>. QED  BY <2>1, <2>2 DEF Truthful, Accountable, Owed, HasQuote, UnitPrice
<1>. QED  BY <1>1 DEF CallsSound

LEMMA QuotesStay ==
  ASSUME QuotesSound, published \subseteq published', UNCHANGED <<raws, quotes>>
  PROVE  QuotesSound'
BY DEF QuotesSound, EveryQuoteWasPublished, UnitPrice, Observed

LEMMA MarksStay ==
  ASSUME MarksSound, UNCHANGED <<quotes, mark>>
  PROVE  MarksSound'
BY DEF MarksSound

LEMMA ShownStays ==
  ASSUME ShownIsPublished, published \subseteq published', UNCHANGED <<page, nav, cache>>
  PROVE  ShownIsPublished'
BY DEF ShownIsPublished

LEMMA CatalogStays ==
  ASSUME CatalogSound, UNCHANGED catalog
  PROVE  CatalogSound'
BY DEF CatalogSound

\* What makes sure of an instrument keeps the catalog sound.
LEMMA EnsuredIsSound ==
  ASSUME CatalogSound, NEW id \in Identities, NEW provider \in {Undeclared, "reksadana_id"},
         provider = "reksadana_id" => id \in Registrable /\ id # Gold,
         catalog' = Ensured(catalog, id, provider)
  PROVE  CatalogSound'
BY DEF CatalogSound, Ensured

-----------------------------------------------------------------------------
(* What the sites publish. *)

LEMMA PublishGoldKeeps ==
  ASSUME MarketInv, NEW source \in Range(GoldChain), PublishGold(source)
  PROVE  MarketInv'
<1>1. PICK d \in Days, rows \in Pages[source] :
        /\ page' = [page EXCEPT ![source] = [day |-> d, rows |-> rows]]
        /\ published' = published \cup
             IF rows = <<>> THEN {} ELSE {<<source, Gold[1], d, PerGram(ChosenEntry(rows))>>}
  BY DEF PublishGold
<1>2. UNCHANGED <<nav, cache, catalog, raws, quotes, mark, sync>>
  BY DEF PublishGold
<1>3. published \subseteq published'
  BY <1>1
<1>4. Forward
  BY <1>2, <1>3 DEF Forward, HasQuote
<1>5. ShownIsPublished'
  <2>1. DOMAIN page' = Range(GoldChain)
    BY <1>1 DEF MarketInv, ShownIsPublished
  <2>2. ASSUME NEW other \in Range(GoldChain), page'[other].rows # <<>>
        PROVE  /\ page'[other].rows \in Pages[other] /\ page'[other].day \in Days
               /\ <<other, Gold[1], page'[other].day, PerGram(ChosenEntry(page'[other].rows))>> \in published'
    <3>1. CASE other = source
      <4>1. page'[other] = [day |-> d, rows |-> rows]
        BY <1>1, <3>1 DEF MarketInv, ShownIsPublished
      <4>2. page'[other].day = d /\ page'[other].rows = rows
        BY <4>1
      <4>. QED  BY <1>1, <2>2, <3>1, <4>2
    <3>2. CASE other # source
      <4>1. page'[other] = page[other]
        BY <1>1, <3>2 DEF MarketInv, ShownIsPublished
      <4>. QED  BY <1>3, <2>2, <4>1 DEF MarketInv, ShownIsPublished
    <3>. QED  BY <3>1, <3>2
  <2>. QED  BY <1>2, <1>3, <2>1, <2>2 DEF MarketInv, ShownIsPublished
<1>. QED  BY <1>2, <1>3, <1>4, <1>5, NoCallMoves, QuotesStay, MarksStay, CatalogStays DEF MarketInv

LEMMA PublishNavKeeps ==
  ASSUME MarketInv, NEW f \in Funds, PublishNav(f)
  PROVE  MarketInv'
<1>1. PICK d \in Days, p \in Navs :
        /\ nav' = [nav EXCEPT ![f][d] = p]
        /\ published' = published \cup {<<"reksadana_id", f, d, p>>}
  BY DEF PublishNav
<1>2. UNCHANGED <<page, cache, catalog, raws, quotes, mark, sync>>
  BY DEF PublishNav
<1>3. published \subseteq published'
  BY <1>1
<1>4. Forward
  BY <1>2, <1>3 DEF Forward, HasQuote
<1>5. ShownIsPublished'
  <2>1. nav' \in [Funds -> [Days -> Navs \cup {0}]]
    BY <1>1 DEF MarketInv, ShownIsPublished
  <2>2. ASSUME NEW g \in Funds, NEW e \in Days, nav'[g][e] # 0
        PROVE  <<"reksadana_id", g, e, nav'[g][e]>> \in published'
    <3>1. CASE g = f /\ e = d
      <4>1. nav'[g][e] = p
        BY <1>1, <3>1 DEF MarketInv, ShownIsPublished
      <4>. QED  BY <1>1, <3>1, <4>1
    <3>2. CASE ~(g = f /\ e = d)
      <4>1. nav'[g][e] = nav[g][e]
        BY <1>1, <3>2 DEF MarketInv, ShownIsPublished
      <4>. QED  BY <1>3, <2>2, <4>1 DEF MarketInv, ShownIsPublished
    <3>. QED  BY <3>1, <3>2
  <2>. QED  BY <1>2, <1>3, <2>1, <2>2 DEF MarketInv, ShownIsPublished
<1>. QED  BY <1>2, <1>3, <1>4, <1>5, NoCallMoves, QuotesStay, MarksStay, CatalogStays DEF MarketInv

-----------------------------------------------------------------------------
(* The steps of a sync that only the call itself shows. *)

LEMMA OnlyTheCall ==
  ASSUME MarketInv, NEW s \in Syncs, NEW call \in SyncCall, Step(s, call),
         Truthful(call), Accountable(call),
         UNCHANGED <<page, nav, published, cache, catalog, raws, quotes, mark>>
  PROVE  MarketInv'
<1>1. Forward
  BY DEF Forward, HasQuote
<1>2. Truthful(call)' /\ Accountable(call)'
  BY <1>1, CallsStay
<1>3. CallsSound'
  BY <1>1, <1>2, OneCallMoves DEF MarketInv
<1>. QED  BY <1>3, ShownStays, QuotesStay, MarksStay, CatalogStays DEF MarketInv

LEMMA IdleIsSound == Idle \in SyncCall /\ Truthful(Idle) /\ Accountable(Idle)
<1>1. 1 \in DOMAIN GoldChain
  BY MarketGiven
<1>2. Idle \in SyncCall
  BY <1>1 DEF Idle, SyncCall, Sources
<1>. QED  BY <1>2 DEF Idle, Truthful, Accountable

LEMMA StartKeeps ==
  ASSUME MarketInv, NEW s \in Syncs, Start(s)
  PROVE  MarketInv'
<1>. DEFINE call == [Idle EXCEPT !.pc = "load"]
<1>1. call \in SyncCall /\ Truthful(call) /\ Accountable(call)
  BY IdleIsSound DEF Idle, SyncCall, Truthful, Accountable
<1>2. /\ Step(s, call) /\ catalog' = Ensured(catalog, Gold, Undeclared)
      /\ UNCHANGED <<page, nav, published, cache, raws, quotes, mark>>
  BY DEF Start
<1>. HIDE DEF call
<1>3. Forward
  BY <1>2 DEF Forward, HasQuote
<1>4. CallsSound'
  BY <1>1, <1>2, <1>3, CallsStay, OneCallMoves DEF MarketInv
<1>5. CatalogSound'
  BY <1>2, IdsDiffer, EnsuredIsSound DEF MarketInv, Undeclared
<1>. QED  BY <1>2, <1>4, <1>5, ShownStays, QuotesStay, MarksStay DEF MarketInv

\* Where the catalog sends an instrument that an adapter prices.
LEMMA Routes ==
  ASSUME CatalogSound, NEW adapter \in Registry, NEW id \in Routed(adapter)
  PROVE  /\ id \in Identities /\ adapter = AdapterFor(id)
         /\ adapter \in {Route(other) : other \in Present} \cap Registry
         /\ id # Gold => /\ id \in Registrable /\ id[1] \in Funds /\ id = FundIn(id[1], "IDR")
                         /\ id \in Routed("reksadana_id")
<1>1. id \in Identities /\ id \in Present /\ Route(id) = adapter
  BY DEF Routed, Present
<1>2. CASE catalog[id] = "reksadana_id"
  <2>1. id \in Registrable /\ id # Gold
    BY <1>1, <1>2 DEF CatalogSound
  <2>2. adapter = "reksadana_id"
    BY <1>1, <1>2 DEF Route, Missing, Undeclared
  <2>. QED  BY <1>1, <2>1, <2>2, IdsDiffer DEF AdapterFor, Routed
<1>3. CASE catalog[id] = Undeclared
  <2>1. id = Gold
    BY <1>1, <1>3 DEF Route, Missing, Undeclared, Registry
  <2>2. adapter = "logam_mulia"
    BY <1>1, <1>3, <2>1 DEF Route, Missing, Undeclared
  <2>. QED  BY <1>1, <2>1, <2>2 DEF AdapterFor
<1>4. CASE catalog[id] = Missing
  BY <1>1, <1>4 DEF Present
<1>. QED  BY <1>1, <1>2, <1>3, <1>4 DEF CatalogSound

LEMMA LoadKeeps ==
  ASSUME MarketInv, NEW s \in Syncs, Load(s)
  PROVE  MarketInv'
<1>. DEFINE groups == {Route(id) : id \in Present} \cap Registry
            funds == {id[1] : id \in Routed("reksadana_id")}
            known == UNION {Routed(a) : a \in Registry}
            call == [Idle EXCEPT !.pc = "next", !.groups = groups, !.funds = funds, !.known = known]
<1>1. Step(s, call) /\ UNCHANGED <<page, nav, published, cache, catalog, raws, quotes, mark>>
  BY DEF Load
<1>2. groups \subseteq Registry
  OBVIOUS
<1>3. funds \subseteq Funds
  <2>1. ASSUME NEW id \in Routed("reksadana_id") PROVE id[1] \in Funds
    <3>1. id \in Identities /\ id # Gold
      BY Routes DEF MarketInv, Registry, AdapterFor
    <3>. QED  BY <3>1, Routes DEF MarketInv, Registry
  <2>. QED  BY <2>1
<1>4. ASSUME NEW id \in known
      PROVE  /\ id \in Identities /\ AdapterFor(id) \in groups
             /\ id # Gold => id[1] \in funds /\ id = FundIn(id[1], "IDR")
  <2>1. PICK a \in Registry : id \in Routed(a)
    OBVIOUS
  <2>. QED  BY <2>1, Routes DEF MarketInv
<1>. HIDE DEF groups, funds, known
<1>5. call \in SyncCall
  BY <1>2, <1>3, <1>4, IdleIsSound DEF Idle, SyncCall
<1>6. Truthful(call)
  BY DEF Idle, Truthful
<1>7. Accountable(call)
  BY <1>4 DEF Idle, Accountable, Owed
<1>. QED  BY <1>1, <1>5, <1>6, <1>7, OnlyTheCall

LEMMA BackfillKeeps ==
  ASSUME MarketInv, NEW s \in Syncs, NEW f \in Funds, Backfill(s, f)
  PROVE  MarketInv'
<1>. DEFINE call == [Idle EXCEPT !.pc = "next", !.mode = "history", !.groups = {"reksadana_id"},
                                 !.funds = {f}]
<1>1. Step(s, call) /\ UNCHANGED <<page, nav, published, cache, catalog, raws, quotes, mark>>
  BY DEF Backfill
<1>2. call \in SyncCall
  BY IdleIsSound DEF Idle, SyncCall, Registry
<1>3. Truthful(call) /\ Accountable(call)
  BY DEF Idle, Truthful, Accountable
<1>. QED  BY <1>1, <1>2, <1>3, OnlyTheCall

LEMMA EndKeeps ==
  ASSUME MarketInv, NEW s \in Syncs, Finish(s) \/ Stop(s)
  PROVE  MarketInv'
<1>1. Step(s, Idle) /\ UNCHANGED <<page, nav, published, cache, catalog, raws, quotes, mark>>
  BY DEF Finish, Stop
<1>. QED  BY <1>1, IdleIsSound, OnlyTheCall

\* A group that fails costs the instruments of its adapter, and no other.
LEMMA FailedIsAccountable ==
  ASSUME NEW call \in SyncCall, NEW adapter \in Registry, call.got = {},
         \A id \in call.known : id # Gold => id[1] \in call.funds /\ id = FundIn(id[1], "IDR"),
         \A id \in call.known \ call.down :
           \/ HasQuote(id) \/ OtherCurrency(id) \/ AdapterFor(id) \in call.groups
           \/ AdapterFor(id) = adapter
  PROVE  /\ Failed(call, adapter) \in SyncCall
         /\ Truthful(Failed(call, adapter)) /\ Accountable(Failed(call, adapter))
<1>. DEFINE lost == [call EXCEPT !.pc = "next", !.groups = call.groups,
                                 !.down = call.down \cup KnownTo(call, adapter)]
<1>1. Failed(call, adapter) = lost
  BY DEF Failed, GroupsAfter
<1>2. KnownTo(call, adapter) \subseteq call.known
  BY DEF KnownTo
<1>3. lost \in SyncCall
  BY <1>2 DEF SyncCall
<1>4. Truthful(lost)
  BY DEF Truthful, SyncCall
<1>5. ASSUME NEW id \in lost.known \ lost.down
      PROVE  HasQuote(id) \/ OtherCurrency(id) \/ Owed(lost, id)
  <2>1. id \in call.known \ call.down /\ id \notin KnownTo(call, adapter)
    BY <1>5 DEF SyncCall
  <2>2. AdapterFor(id) # adapter
    BY <2>1 DEF KnownTo, AdapterFor, Registry
  <2>3. AdapterFor(id) \in call.groups => Owed(lost, id)
    BY DEF Owed, SyncCall
  <2>. QED  BY <2>1, <2>2, <2>3
<1>6. \A id \in lost.known : id # Gold => id[1] \in lost.funds /\ id = FundIn(id[1], "IDR")
  BY DEF SyncCall
<1>7. Accountable(lost)
  <2>. HIDE DEF lost
  <2>. QED  BY <1>5, <1>6 DEF Accountable
<1>. QED  BY <1>1, <1>3, <1>4, <1>7

LEMMA OpenGroupKeeps ==
  ASSUME MarketInv, NEW s \in Syncs, OpenGroup(s)
  PROVE  MarketInv'
<1>1. PICK old \in SyncCall : old = sync[s]
  BY DEF MarketInv, CallsSound
<1>2. Truthful(old) /\ Accountable(old) /\ old.pc = "next"
  BY <1>1 DEF MarketInv, CallsSound, OpenGroup
<1>3. PICK a \in old.groups :
        LET call == [old EXCEPT !.groups = @ \ {a}, !.got = {}, !.ok = FALSE]
        IN Step(s, IF Addressed(a) THEN Asking(call, a) ELSE Failed(call, a))
  BY <1>1 DEF OpenGroup
<1>4. a \in Registry
  BY DEF SyncCall
<1>. DEFINE call == [old EXCEPT !.groups = old.groups \ {a}, !.got = {}, !.ok = FALSE]
            onward == IF Addressed(a) THEN Asking(call, a) ELSE Failed(call, a)
<1>5. Step(s, onward)
  BY <1>3
<1>6. call \in SyncCall /\ call.got = {} /\ call.known = old.known /\ call.down = old.down
      /\ call.funds = old.funds /\ call.groups = old.groups \ {a} /\ call.ok = FALSE
  BY DEF SyncCall
<1>7. \A id \in call.known : id # Gold => id[1] \in call.funds /\ id = FundIn(id[1], "IDR")
  BY <1>2, <1>6 DEF Accountable
<1>8. ASSUME NEW id \in call.known \ call.down
      PROVE  \/ HasQuote(id) \/ OtherCurrency(id) \/ AdapterFor(id) \in call.groups
             \/ AdapterFor(id) = a
  <2>1. HasQuote(id) \/ OtherCurrency(id) \/ Owed(old, id)
    BY <1>2, <1>6 DEF Accountable
  <2>2. old.got = {}
    BY <1>2 DEF Truthful
  <2>3. Owed(old, id) => AdapterFor(id) \in old.groups
    BY <1>2, <2>2 DEF Owed
  <2>. QED  BY <1>6, <2>1, <2>3
<1>. HIDE DEF call
<1>9. onward \in SyncCall /\ Truthful(onward) /\ Accountable(onward)
  <2>1. CASE ~Addressed(a)
    BY <1>4, <1>6, <1>7, <1>8, <2>1, FailedIsAccountable
  <2>2. CASE Addressed(a) /\ a = "logam_mulia"
    <3>. DEFINE gold == [call EXCEPT !.pc = "gold", !.at = 1]
    <3>1. onward = gold
      BY <2>2 DEF Asking
    <3>2. 1 \in DOMAIN GoldChain
      BY MarketGiven
    <3>3. gold \in SyncCall
      BY <1>6, <3>2 DEF SyncCall
    <3>4. gold.pc = "gold" /\ gold.got = {} /\ gold.known = call.known /\ gold.down = call.down
          /\ gold.funds = call.funds /\ gold.groups = call.groups
      BY <1>6 DEF SyncCall
    <3>. HIDE DEF gold
    <3>5. Truthful(gold)
      BY <3>4 DEF Truthful
    <3>6. Accountable(gold)
      BY <1>7, <1>8, <2>2, <3>4 DEF Accountable, Owed, AdapterFor
    <3>. QED  BY <3>1, <3>3, <3>5, <3>6
  <2>3. CASE Addressed(a) /\ a # "logam_mulia"
    <3>. DEFINE funds == [call EXCEPT !.pc = "funds", !.queue = call.funds, !.source = "reksadana_id"]
    <3>1. onward = funds
      BY <2>3 DEF Asking
    <3>2. funds \in SyncCall
      BY <1>6 DEF SyncCall, Sources
    <3>3. funds.pc = "funds" /\ funds.got = {} /\ funds.known = call.known /\ funds.down = call.down
          /\ funds.funds = call.funds /\ funds.groups = call.groups /\ funds.queue = call.funds
          /\ funds.source = "reksadana_id"
      BY <1>6 DEF SyncCall
    <3>. HIDE DEF funds
    <3>4. Truthful(funds)
      BY <3>3 DEF Truthful
    <3>5. Accountable(funds)
      BY <1>4, <1>7, <1>8, <2>3, <3>3 DEF Accountable, Owed, AdapterFor, Registry
    <3>. QED  BY <3>1, <3>2, <3>4, <3>5
  <2>. QED  BY <2>1, <2>2, <2>3
<1>10. UNCHANGED <<page, nav, published, cache, catalog, raws, quotes, mark>>
  BY DEF OpenGroup
<1>. HIDE DEF onward
<1>. QED  BY <1>5, <1>9, <1>10, OnlyTheCall

-----------------------------------------------------------------------------
(* Asking. *)

LEMMA AskGoldKeeps ==
  ASSUME MarketInv, NEW s \in Syncs, AskGold(s)
  PROVE  MarketInv'
<1>1. PICK old \in SyncCall : old = sync[s]
  BY DEF MarketInv, CallsSound
<1>2. Truthful(old) /\ Accountable(old) /\ old.pc = "gold" /\ old.got = {}
  BY <1>1 DEF MarketInv, CallsSound, AskGold, Truthful
<1>3. PICK n \in DOMAIN GoldChain : n = old.at
  BY DEF SyncCall
<1>4. GoldChain[n] \in Range(GoldChain) /\ GoldChain[1] \in Range(GoldChain)
      /\ DOMAIN GoldChain = 1..Len(GoldChain)
  BY <1>3, MarketGiven DEF Range
<1>5. PICK p : p = page[GoldChain[n]]
  OBVIOUS
<1>. DEFINE further == [old EXCEPT !.at = n + 1]
            silent == [old EXCEPT !.pc = "write", !.source = GoldChain[1], !.down = old.down \cup {Gold}]
            heard == [old EXCEPT !.pc = "write", !.source = SourceName(n),
                                 !.got = {GoldObservation(p)}, !.ok = TRUE]
<1>6. UNCHANGED <<page, nav, published, cache, catalog, raws, quotes, mark>>
  BY DEF AskGold
<1>7. \/ n < Len(GoldChain) /\ Step(s, further)
      \/ Step(s, silent)
      \/ p.rows # <<>> /\ Step(s, heard)
  BY <1>1, <1>3, <1>5 DEF AskGold
<1>8. CASE n < Len(GoldChain) /\ Step(s, further)
  <2>1. n + 1 \in DOMAIN GoldChain
    BY <1>3, <1>4, <1>8, MarketGiven
  <2>2. further \in SyncCall
    BY <2>1 DEF SyncCall
  <2>3. /\ further.pc = old.pc /\ further.got = old.got /\ further.known = old.known
        /\ further.down = old.down /\ further.funds = old.funds /\ further.groups = old.groups
        /\ further.queue = old.queue /\ further.asked = old.asked /\ further.source = old.source
        /\ further.reply = old.reply /\ further.ok = old.ok
    BY DEF SyncCall
  <2>. HIDE DEF further
  <2>4. Truthful(further) /\ Accountable(further)
    BY <1>2, <2>3 DEF Truthful, Accountable, Owed
  <2>. QED  BY <1>6, <1>8, <2>2, <2>4, OnlyTheCall
<1>9. CASE Step(s, silent)
  <2>1. silent \in SyncCall
    BY <1>4, IdsDiffer DEF SyncCall, Sources
  <2>2. /\ silent.pc = "write" /\ silent.got = {} /\ silent.known = old.known
        /\ silent.down = old.down \cup {Gold} /\ silent.funds = old.funds /\ silent.groups = old.groups
    BY <1>2 DEF SyncCall
  <2>. HIDE DEF silent
  <2>3. Truthful(silent) /\ Accountable(silent)
    BY <1>2, <2>2 DEF Truthful, Accountable, Owed
  <2>. QED  BY <1>6, <1>9, <2>1, <2>3, OnlyTheCall
<1>10. CASE p.rows # <<>> /\ Step(s, heard)
  <2>1. /\ p.rows \in Pages[GoldChain[n]] /\ p.day \in Days
        /\ <<GoldChain[n], Gold[1], p.day, PerGram(ChosenEntry(p.rows))>> \in published
    BY <1>4, <1>5, <1>10 DEF MarketInv, ShownIsPublished
  <2>2. PICK g \in Nat : g = PerGram(ChosenEntry(p.rows))
    BY <1>4, <1>10, <2>1, MarketGiven, PageHasPrice
  <2>3. PICK o : o = GoldObservation(p)
    OBVIOUS
  <2>4. o = [id |-> Gold, day |-> p.day, price |-> PerOunce(g)]
    BY <2>2, <2>3 DEF GoldObservation, Observed
  <2>5. o \in Observation /\ o.id = Gold /\ o.day = p.day /\ UnitPrice(o) = g
    BY <2>1, <2>2, <2>4, OuncesAndBack, IdsDiffer DEF Observation, UnitPrice
  <2>6. heard \in SyncCall
    BY <1>4, <2>3, <2>5 DEF SyncCall, Sources, SourceName
  <2>7. /\ heard.pc = "write" /\ heard.got = {o} /\ heard.known = old.known /\ heard.ok = TRUE
        /\ heard.down = old.down /\ heard.funds = old.funds /\ heard.groups = old.groups
        /\ heard.source = GoldChain[n]
    BY <2>3 DEF SyncCall, SourceName
  <2>. HIDE DEF heard
  <2>8. Truthful(heard)
    BY <1>4, <2>1, <2>2, <2>5, <2>7, MarketGiven DEF Truthful
  <2>9. Accountable(heard)
    BY <1>2, <2>5, <2>7 DEF Accountable, Owed
  <2>. QED  BY <1>6, <1>10, <2>6, <2>8, <2>9, OnlyTheCall
<1>. QED  BY <1>7, <1>8, <1>9, <1>10

\* What the worker resolves a fund to was published.
LEMMA ResolvedIsPublished ==
  ASSUME ShownIsPublished, NEW f \in Funds, NEW up \in BOOLEAN
  PROVE  /\ Resolved(f, up) \subseteq Points
         /\ \A p \in Resolved(f, up) : <<"reksadana_id", f, p.day, p.price>> \in published
<1>1. ASSUME NEW p \in SeriesOf(f)
      PROVE  p \in Points /\ <<"reksadana_id", f, p.day, p.price>> \in published
  <2>1. PICK d \in Days : nav[f][d] # 0 /\ p = [day |-> d, price |-> nav[f][d]]
    BY DEF SeriesOf, Point
  <2>. QED  BY <2>1 DEF ShownIsPublished, Points
<1>2. ASSUME NEW p \in cache[f]
      PROVE  p \in Points /\ <<"reksadana_id", f, p.day, p.price>> \in published
  BY DEF ShownIsPublished
<1>. QED  BY <1>1, <1>2 DEF Resolved

\* One fund has been dealt with: what it is owed is got, or its answer is missing.
LEMMA UnansweredIsSound ==
  ASSUME NEW call \in SyncCall, NEW f \in Funds, call.source = "reksadana_id",
         call.pc \in {"funds", "reply"}, call.got # {} => call.ok,
         \A o \in call.got :
           /\ <<call.source, o.id[1], o.day, UnitPrice(o)>> \in published
           /\ (o.id = Gold) = (call.source # "reksadana_id"),
         \A id \in call.known : id # Gold => id[1] \in call.funds /\ id = FundIn(id[1], "IDR"),
         \A id \in call.known \ call.down :
           \/ HasQuote(id) \/ OtherCurrency(id) \/ AdapterFor(id) \in call.groups
           \/ \E o \in call.got : o.id = id
           \/ id # Gold /\ (id[1] \in call.queue \/ id[1] = f)
  PROVE  /\ Unanswered(call, f) \in SyncCall
         /\ Truthful(Unanswered(call, f)) /\ Accountable(Unanswered(call, f))
<1>. DEFINE pc == IF call.queue = {} THEN "write" ELSE "funds"
            onward == [call EXCEPT !.pc = pc, !.down = call.down \cup {FundIn(f, "IDR")}]
<1>1. Unanswered(call, f) = onward
  BY DEF Unanswered, After, SyncCall
<1>2. onward \in SyncCall
  <2>1. pc \in {"write", "funds"}
    OBVIOUS
  <2>2. call.down \cup {FundIn(f, "IDR")} \subseteq Identities
    BY IdsDiffer DEF SyncCall
  <2>. HIDE DEF pc
  <2>. QED  BY <2>1, <2>2 DEF SyncCall
<1>3. /\ onward.pc = pc /\ onward.got = call.got /\ onward.known = call.known /\ onward.ok = call.ok
      /\ onward.down = call.down \cup {FundIn(f, "IDR")} /\ onward.funds = call.funds
      /\ onward.groups = call.groups /\ onward.source = call.source /\ onward.queue = call.queue
  BY DEF SyncCall
<1>4. pc \in {"write", "funds"} /\ (pc = "write" => call.queue = {})
  OBVIOUS
<1>. HIDE DEF onward, pc
<1>5. Truthful(onward)
  BY <1>3, <1>4 DEF Truthful
<1>6. Accountable(onward)
  BY <1>3, <1>4 DEF Accountable, Owed
<1>. QED  BY <1>1, <1>2, <1>5, <1>6

LEMMA AskFundKeeps ==
  ASSUME MarketInv, NEW s \in Syncs, AskFund(s)
  PROVE  MarketInv'
<1>1. PICK old \in SyncCall : old = sync[s]
  BY DEF MarketInv, CallsSound
<1>2. Truthful(old) /\ Accountable(old) /\ old.pc = "funds" /\ old.source = "reksadana_id"
  BY <1>1 DEF MarketInv, CallsSound, AskFund, Truthful
<1>3. PICK f \in old.queue :
        LET call == [old EXCEPT !.queue = @ \ {f}] IN
        \/ Step(s, Unanswered(call, f))
        \/ \E up \in BOOLEAN :
             /\ Resolved(f, up) # {}
             /\ Step(s, [call EXCEPT !.pc = "reply", !.asked = f,
                                     !.reply = Payload(Resolved(f, up), call.mode),
                                     !.live = up /\ SeriesOf(f) # {}])
  BY <1>1 DEF AskFund
<1>4. f \in Funds
  BY DEF SyncCall
<1>. DEFINE call == [old EXCEPT !.queue = old.queue \ {f}]
<1>5. /\ call \in SyncCall /\ call.pc = "funds" /\ call.source = "reksadana_id" /\ call.got = old.got
      /\ call.known = old.known /\ call.down = old.down /\ call.funds = old.funds /\ call.ok = old.ok
      /\ call.groups = old.groups /\ call.queue = old.queue \ {f}
  BY <1>2 DEF SyncCall
<1>6. UNCHANGED <<page, nav, published, cache, catalog, raws, quotes, mark>>
  BY DEF AskFund
<1>7. /\ call.got # {} => call.ok
      /\ \A o \in call.got :
           /\ <<call.source, o.id[1], o.day, UnitPrice(o)>> \in published
           /\ (o.id = Gold) = (call.source # "reksadana_id")
  BY <1>2, <1>5 DEF Truthful
<1>8. /\ \A id \in call.known : id # Gold => id[1] \in call.funds /\ id = FundIn(id[1], "IDR")
      /\ \A id \in call.known \ call.down :
           \/ HasQuote(id) \/ OtherCurrency(id) \/ AdapterFor(id) \in call.groups
           \/ \E o \in call.got : o.id = id
           \/ id # Gold /\ (id[1] \in call.queue \/ id[1] = f)
  BY <1>2, <1>5 DEF Accountable, Owed
<1>9. CASE Step(s, Unanswered(call, f))
  <2>. HIDE DEF call
  <2>1. /\ Unanswered(call, f) \in SyncCall
        /\ Truthful(Unanswered(call, f)) /\ Accountable(Unanswered(call, f))
    BY <1>4, <1>5, <1>7, <1>8, UnansweredIsSound
  <2>. QED  BY <1>6, <1>9, <2>1, OnlyTheCall
<1>10. ASSUME NEW up \in BOOLEAN, Resolved(f, up) # {},
              Step(s, [call EXCEPT !.pc = "reply", !.asked = f,
                                   !.reply = Payload(Resolved(f, up), call.mode),
                                   !.live = up /\ SeriesOf(f) # {}])
       PROVE  MarketInv'
  <2>1. /\ Resolved(f, up) \subseteq Points
        /\ \A p \in Resolved(f, up) : <<"reksadana_id", f, p.day, p.price>> \in published
    BY <1>4, ResolvedIsPublished DEF MarketInv
  <2>2. \A p \in Resolved(f, up) : p.day \in Days
    BY <2>1 DEF Points
  <2>3. PICK reply : reply = Payload(Resolved(f, up), call.mode)
    OBVIOUS
  <2>4. reply # {} /\ reply \subseteq Resolved(f, up)
    <3>. HIDE DEF call
    <3>. QED  BY <1>10, <2>2, <2>3, PayloadHasPoints
  <2>5. PICK live \in BOOLEAN : live = (up /\ SeriesOf(f) # {})
    OBVIOUS
  <2>. DEFINE onward == [call EXCEPT !.pc = "reply", !.asked = f, !.reply = reply, !.live = live]
  <2>6. Step(s, onward)
    BY <1>10, <2>3, <2>5
  <2>. HIDE DEF call
  <2>7. onward \in SyncCall
    BY <1>4, <1>5, <2>1, <2>4 DEF SyncCall
  <2>8. /\ onward.pc = "reply" /\ onward.asked = f /\ onward.reply = reply /\ onward.got = call.got
        /\ onward.known = call.known /\ onward.ok = call.ok /\ onward.down = call.down
        /\ onward.funds = call.funds /\ onward.groups = call.groups /\ onward.source = call.source
        /\ onward.queue = call.queue
    BY <1>5 DEF SyncCall
  <2>. HIDE DEF onward
  <2>9. Truthful(onward)
    BY <1>4, <1>5, <1>7, <2>1, <2>4, <2>8 DEF Truthful
  <2>10. Accountable(onward)
    BY <1>8, <2>8 DEF Accountable, Owed
  <2>. QED  BY <1>6, <2>6, <2>7, <2>9, <2>10, OnlyTheCall
<1>. QED  BY <1>3, <1>9, <1>10

LEMMA ReplyKeeps ==
  ASSUME MarketInv, NEW s \in Syncs, Reply(s)
  PROVE  MarketInv'
<1>1. PICK old \in SyncCall : old = sync[s]
  BY DEF MarketInv, CallsSound
<1>2. Truthful(old) /\ Accountable(old) /\ old.pc = "reply" /\ old.source = "reksadana_id"
  BY <1>1 DEF MarketInv, CallsSound, Reply, Truthful
<1>3. PICK f \in Funds : f = old.asked
  BY <1>2 DEF Truthful
<1>4. /\ old.reply # {} /\ old.reply \subseteq Points
      /\ \A p \in old.reply : <<"reksadana_id", f, p.day, p.price>> \in published
  BY <1>2, <1>3 DEF Truthful, SyncCall
<1>. DEFINE call == [old EXCEPT !.reply = {}, !.live = FALSE, !.asked = "none"]
            news == FundObservations(f, old.reply)
            answered == After([call EXCEPT !.ok = TRUE, !.got = @ \cup news])
<1>5. /\ cache' = cache \/ cache' = [cache EXCEPT ![f] = old.reply]
      /\ Step(s, Unanswered(call, f)) \/ Step(s, answered)
      /\ UNCHANGED <<page, nav, published, catalog, raws, quotes, mark>>
  BY <1>1, <1>3 DEF Reply
<1>6. Forward
  BY <1>5 DEF Forward, HasQuote
<1>7. ShownIsPublished'
  <2>1. cache' \in [Funds -> SUBSET Points]
    BY <1>4, <1>5 DEF MarketInv, ShownIsPublished
  <2>2. ASSUME NEW g \in Funds, NEW p \in cache'[g]
        PROVE  <<"reksadana_id", g, p.day, p.price>> \in published
    <3>1. p \in cache[g] \/ (g = f /\ p \in old.reply)
      BY <1>5 DEF MarketInv, ShownIsPublished
    <3>. QED  BY <1>4, <3>1 DEF MarketInv, ShownIsPublished
  <2>. QED  BY <1>5, <2>1, <2>2 DEF MarketInv, ShownIsPublished
<1>8. /\ call \in SyncCall /\ call.pc = "reply" /\ call.source = "reksadana_id" /\ call.got = old.got
      /\ call.known = old.known /\ call.down = old.down /\ call.funds = old.funds /\ call.ok = old.ok
      /\ call.groups = old.groups /\ call.queue = old.queue
  BY <1>2 DEF SyncCall
<1>9. /\ call.got # {} => call.ok
      /\ \A o \in call.got :
           /\ <<call.source, o.id[1], o.day, UnitPrice(o)>> \in published
           /\ (o.id = Gold) = (call.source # "reksadana_id")
  BY <1>2, <1>8 DEF Truthful
<1>10. /\ \A id \in call.known : id # Gold => id[1] \in call.funds /\ id = FundIn(id[1], "IDR")
       /\ \A id \in call.known \ call.down :
           \/ HasQuote(id) \/ OtherCurrency(id) \/ AdapterFor(id) \in call.groups
           \/ \E o \in call.got : o.id = id
           \/ id # Gold /\ (id[1] \in call.queue \/ id[1] = f)
  BY <1>2, <1>3, <1>8 DEF Accountable, Owed
<1>. HIDE DEF call
<1>11. CASE Step(s, Unanswered(call, f))
  <2>1. PICK onward : onward = Unanswered(call, f)
    OBVIOUS
  <2>2. onward \in SyncCall /\ Truthful(onward) /\ Accountable(onward)
    BY <1>8, <1>9, <1>10, <2>1, UnansweredIsSound
  <2>3. Truthful(onward)' /\ Accountable(onward)'
    BY <1>6, <2>2, CallsStay
  <2>4. CallsSound'
    BY <1>6, <1>11, <2>1, <2>2, <2>3, OneCallMoves DEF MarketInv
  <2>. QED  BY <1>5, <1>7, <2>4, QuotesStay, MarksStay, CatalogStays DEF MarketInv
<1>12. CASE Step(s, answered)
  <2>1. news \subseteq Observation
    <3>1. ASSUME NEW p \in Points
          PROVE  Observed(FundIn(f, FundCurrency[f]), p.day, p.price) \in Observation
      <4>1. p.day \in Days /\ p.price \in Nat
        BY MarketGiven DEF Points
      <4>2. FundIn(f, FundCurrency[f]) \in Identities
        BY IdsDiffer
      <4>. QED  BY <4>1, <4>2 DEF Observed, Observation
    <3>. QED  BY <1>4, <3>1 DEF FundObservations
  <2>2. ASSUME NEW o \in news
        PROVE  /\ o.id = FundIn(f, FundCurrency[f]) /\ o.id # Gold
               /\ <<"reksadana_id", o.id[1], o.day, UnitPrice(o)>> \in published
    <3>1. PICK p \in old.reply : o = Observed(FundIn(f, FundCurrency[f]), p.day, p.price)
      BY DEF FundObservations
    <3>2. o.id = FundIn(f, FundCurrency[f]) /\ o.day = p.day /\ o.price = p.price
      BY <3>1 DEF Observed
    <3>3. o.id # Gold /\ o.id[1] = f
      BY <3>2, IdsDiffer
    <3>. QED  BY <1>4, <3>2, <3>3 DEF UnitPrice
  <2>3. PICK one \in news : TRUE
    BY <1>4 DEF FundObservations
  <2>4. PICK pc \in {"write", "funds"} : pc = (IF call.queue = {} THEN "write" ELSE "funds")
    OBVIOUS
  <2>5. PICK got \in SUBSET Observation : got = call.got \cup news
    BY <1>8, <2>1 DEF SyncCall
  <2>. DEFINE onward == [call EXCEPT !.ok = TRUE, !.got = got, !.pc = pc]
  <2>6. answered = onward
    BY <1>8, <2>4, <2>5 DEF After, SyncCall
  <2>7. onward \in SyncCall
    BY <1>8, <2>4 DEF SyncCall
  <2>8. /\ onward.pc = pc /\ onward.got = got /\ onward.known = call.known /\ onward.ok = TRUE
        /\ onward.down = call.down /\ onward.funds = call.funds /\ onward.groups = call.groups
        /\ onward.source = call.source /\ onward.queue = call.queue
    BY <1>8 DEF SyncCall
  <2>. HIDE DEF onward, news, answered
  <2>9. Truthful(onward)
    <3>1. ASSUME NEW o \in got
          PROVE  /\ <<call.source, o.id[1], o.day, UnitPrice(o)>> \in published
                 /\ (o.id = Gold) = (call.source # "reksadana_id")
      <4>1. CASE o \in call.got
        BY <1>9, <4>1
      <4>2. CASE o \in news
        BY <1>8, <2>2, <4>2
      <4>. QED  BY <2>5, <4>1, <4>2
    <3>. QED  BY <1>8, <2>4, <2>8, <3>1 DEF Truthful
  <2>10. ASSUME NEW id \in call.known \ call.down
         PROVE  HasQuote(id) \/ OtherCurrency(id) \/ Owed(onward, id)
    <3>1. CASE HasQuote(id) \/ OtherCurrency(id) \/ AdapterFor(id) \in call.groups
      BY <2>8, <3>1 DEF Owed
    <3>2. CASE \E o \in call.got : o.id = id
      BY <2>5, <2>8, <3>2 DEF Owed
    <3>3. CASE id # Gold /\ id[1] \in call.queue
      BY <2>4, <2>8, <3>3 DEF Owed
    <3>4. CASE id # Gold /\ id[1] = f
      <4>1. id = FundIn(f, "IDR")
        BY <1>10, <3>4
      <4>2. FundCurrency[f] = "IDR" => one.id = id
        BY <2>2, <2>3, <4>1
      <4>3. one \in got
        BY <2>3, <2>5
      <4>. QED  BY <2>8, <3>4, <4>2, <4>3 DEF Owed, OtherCurrency
    <3>. QED  BY <1>10, <3>1, <3>2, <3>3, <3>4
  <2>11. Accountable(onward)
    BY <1>10, <2>8, <2>10 DEF Accountable
  <2>12. Truthful(onward)' /\ Accountable(onward)'
    BY <1>6, <2>9, <2>11, CallsStay
  <2>13. CallsSound'
    BY <1>6, <1>12, <2>6, <2>7, <2>12, OneCallMoves DEF MarketInv
  <2>. QED  BY <1>5, <1>7, <2>13, QuotesStay, MarksStay, CatalogStays DEF MarketInv
<1>. QED  BY <1>5, <1>11, <1>12

-----------------------------------------------------------------------------
(* Storing, and the rest of the program. *)

\* An upsert replaces a quote by one of the same instrument and day.
LEMMA UpsertKeepsDays ==
  ASSUME NEW qs, NEW new, NEW q \in qs
  PROVE  \E p \in Upserted(qs, new) : p.id = q.id /\ p.day = q.day
<1>1. CASE q \in Upserted(qs, new)
  BY <1>1
<1>2. CASE q \notin Upserted(qs, new)
  <2>1. PICK n \in new : KeyOf(n) = KeyOf(q)
    BY <1>2 DEF Upserted
  <2>2. n.id = q.id /\ n.day = q.day
    BY <2>1 DEF KeyOf
  <2>. QED  BY <2>2 DEF Upserted
<1>. QED  BY <1>1, <1>2

LEMMA StoreKeeps ==
  ASSUME MarketInv, NEW s \in Syncs, Store(s)
  PROVE  MarketInv'
<1>1. PICK old \in SyncCall : old = sync[s]
  BY DEF MarketInv, CallsSound
<1>2. Truthful(old) /\ Accountable(old) /\ old.pc = "write"
  BY <1>1 DEF MarketInv, CallsSound, Store
<1>. DEFINE raw == Len(raws) + 1
            new == {QuoteOf(o, old.source, raw) : o \in old.got}
            fetch == [source |-> old.source, ok |-> old.ok, got |-> old.got]
            stored == [old EXCEPT !.pc = "next", !.got = {}]
            bare == [old EXCEPT !.got = {}]
            adapter == AdapterOf(old.source)
<1>3. \/ /\ raws' = Append(raws, fetch) /\ quotes' = Upserted(quotes, new)
         /\ catalog' = [id \in Identities |->
              IF \E n \in new : n.id = id THEN Ensured(catalog, id, Undeclared)[id] ELSE catalog[id]]
         /\ Step(s, stored)
      \/ Step(s, Failed(bare, adapter)) /\ UNCHANGED <<raws, quotes, catalog>>
  BY <1>1 DEF Store
<1>4. UNCHANGED <<page, nav, published, cache, mark>>
  BY DEF Store
<1>5. ASSUME NEW id \in old.known \ old.down
      PROVE  HasQuote(id) \/ OtherCurrency(id) \/ AdapterFor(id) \in old.groups
               \/ \E o \in old.got : o.id = id
  BY <1>2 DEF Accountable, Owed
<1>6. CASE Step(s, Failed(bare, adapter)) /\ UNCHANGED <<raws, quotes, catalog>>
  <2>1. bare \in SyncCall /\ bare.got = {} /\ bare.known = old.known /\ bare.down = old.down
        /\ bare.funds = old.funds /\ bare.groups = old.groups
    BY DEF SyncCall
  <2>2. adapter \in Registry
    BY DEF AdapterOf, Registry
  <2>3. ASSUME NEW id \in bare.known \ bare.down
        PROVE  \/ HasQuote(id) \/ OtherCurrency(id) \/ AdapterFor(id) \in bare.groups
               \/ AdapterFor(id) = adapter
    <3>1. ASSUME NEW o \in old.got, o.id = id PROVE AdapterFor(id) = adapter
      BY <1>2, <3>1 DEF Truthful, AdapterFor, AdapterOf
    <3>. QED  BY <1>5, <2>1, <3>1
  <2>4. \A id \in bare.known : id # Gold => id[1] \in bare.funds /\ id = FundIn(id[1], "IDR")
    BY <1>2, <2>1 DEF Accountable
  <2>. HIDE DEF bare, adapter
  <2>5. /\ Failed(bare, adapter) \in SyncCall
        /\ Truthful(Failed(bare, adapter)) /\ Accountable(Failed(bare, adapter))
    BY <2>1, <2>2, <2>3, <2>4, FailedIsAccountable
  <2>. QED  BY <1>4, <1>6, <2>5, OnlyTheCall
<1>7. CASE /\ raws' = Append(raws, fetch) /\ quotes' = Upserted(quotes, new)
           /\ catalog' = [id \in Identities |->
                IF \E n \in new : n.id = id THEN Ensured(catalog, id, Undeclared)[id] ELSE catalog[id]]
           /\ Step(s, stored)
  <2>1. CatalogSound'
    BY <1>7 DEF MarketInv, CatalogSound, Ensured, Undeclared
  <2>2. ASSUME NEW q \in quotes
        PROVE  \E p \in quotes' : p.id = q.id /\ p.day = q.day
    BY <1>7, UpsertKeepsDays
  <2>3. Forward
    BY <1>4, <2>2 DEF Forward, HasQuote
  <2>4. ASSUME NEW o \in old.got PROVE HasQuote(o.id)'
    <3>1. QuoteOf(o, old.source, raw) \in quotes'
      BY <1>7 DEF Upserted
    <3>2. QuoteOf(o, old.source, raw).id = o.id
      BY DEF QuoteOf
    <3>. QED  BY <3>1, <3>2 DEF HasQuote
  <2>5. stored \in SyncCall /\ stored.pc = "next" /\ stored.got = {} /\ stored.known = old.known
        /\ stored.down = old.down /\ stored.funds = old.funds /\ stored.groups = old.groups
    BY DEF SyncCall
  <2>. HIDE DEF stored
  <2>6. Truthful(stored)'
    BY <2>5 DEF Truthful
  <2>7. ASSUME NEW id \in old.known \ old.down
        PROVE  HasQuote(id)' \/ OtherCurrency(id) \/ AdapterFor(id) \in old.groups
    BY <1>5, <2>3, <2>4 DEF Forward
  <2>8. Accountable(stored)'
    BY <1>2, <2>5, <2>7 DEF Accountable, Owed, OtherCurrency, AdapterFor
  <2>9. CallsSound'
    BY <1>7, <2>3, <2>5, <2>6, <2>8, OneCallMoves DEF MarketInv
  <2>10. fetch \in RawFetch /\ raws \in Seq(RawFetch)
    BY DEF SyncCall, RawFetch, MarketInv, QuotesSound
  <2>11. /\ raws' \in Seq(RawFetch) /\ raw \in DOMAIN raws' /\ raws'[raw] = fetch /\ raw \in Nat
         /\ \A n \in DOMAIN raws : n \in DOMAIN raws' /\ raws'[n] = raws[n]
    <3>. HIDE DEF fetch
    <3>. QED  BY <1>7, <2>10
  <2>12. ASSUME NEW o \in old.got, NEW q, q = QuoteOf(o, old.source, raw)
         PROVE  /\ q \in MarketQuote /\ q.raw \in DOMAIN raws'
                /\ <<q.source, q.id[1], q.day, UnitPrice(q)>> \in published'
                /\ raws'[q.raw].ok /\ raws'[q.raw].source = q.source
                /\ Observed(q.id, q.day, q.price) \in raws'[q.raw].got
    <3>1. o \in Observation
      BY DEF SyncCall
    <3>2. q.id = o.id /\ q.day = o.day /\ q.price = o.price /\ q.source = old.source /\ q.raw = raw
      BY <2>12 DEF QuoteOf
    <3>3. Observed(q.id, q.day, q.price) = o
      BY <3>1, <3>2 DEF Observed, Observation
    <3>4. q \in MarketQuote
      <4>1. old.source \in Sources
        BY DEF SyncCall
      <4>. HIDE DEF raw
      <4>. QED  BY <2>11, <2>12, <3>1, <4>1 DEF QuoteOf, Observation, MarketQuote
    <3>5. <<q.source, q.id[1], q.day, UnitPrice(q)>> \in published'
      BY <1>2, <1>4, <3>2 DEF Truthful, UnitPrice
    <3>6. raws'[q.raw] = fetch /\ fetch.ok /\ fetch.source = old.source /\ fetch.got = old.got
      BY <1>2, <2>11, <3>2 DEF Truthful
    <3>. QED  BY <2>11, <3>2, <3>3, <3>4, <3>5, <3>6
  <2>13. QuotesSound'
    <3>1. ASSUME NEW q \in quotes'
          PROVE  /\ q \in MarketQuote /\ q.raw \in DOMAIN raws'
                 /\ <<q.source, q.id[1], q.day, UnitPrice(q)>> \in published'
                 /\ raws'[q.raw].ok /\ raws'[q.raw].source = q.source
                 /\ Observed(q.id, q.day, q.price) \in raws'[q.raw].got
      <4>1. CASE q \in quotes
        BY <1>4, <2>11, <4>1 DEF MarketInv, QuotesSound, EveryQuoteWasPublished
      <4>2. CASE q \in new
        BY <2>12, <4>2
      <4>. QED  BY <1>7, <4>1, <4>2 DEF Upserted
    <3>. QED  BY <2>11, <3>1 DEF QuotesSound, EveryQuoteWasPublished, UnitPrice
  <2>14. MarksSound'
    <3>1. ASSUME NEW id \in Identities, NEW q \in quotes, q.id = id, q.day >= mark[id].day
          PROVE  \E p \in quotes' : p.id = id /\ p.day >= mark[id].day
      BY <2>2, <3>1
    <3>. QED  BY <1>4, <3>1 DEF MarketInv, MarksSound
  <2>. QED  BY <1>4, <2>1, <2>9, <2>13, <2>14, ShownStays DEF MarketInv
<1>. QED  BY <1>3, <1>6, <1>7

LEMMA RegisterKeeps ==
  ASSUME MarketInv, NEW f \in Funds, Register(f)
  PROVE  MarketInv'
<1>1. /\ catalog' = Ensured(catalog, FundIn(f, "IDR"), "reksadana_id")
      /\ UNCHANGED <<page, nav, published, cache, raws, quotes, mark, sync>>
  BY DEF Register
<1>2. CatalogSound'
  BY <1>1, IdsDiffer, EnsuredIsSound DEF MarketInv
<1>3. Forward
  BY <1>1 DEF Forward, HasQuote
<1>. QED  BY <1>1, <1>2, <1>3, NoCallMoves, ShownStays, QuotesStay, MarksStay DEF MarketInv

LEMMA BrowseKeeps ==
  ASSUME MarketInv, Browse
  PROVE  MarketInv'
<1>1. /\ catalog' = Ensured(catalog, Gold, Undeclared)
      /\ UNCHANGED <<page, nav, published, cache, raws, quotes, mark, sync>>
  BY DEF Browse
<1>2. CatalogSound'
  BY <1>1, IdsDiffer, EnsuredIsSound DEF MarketInv, Undeclared
<1>3. Forward
  BY <1>1 DEF Forward, HasQuote
<1>. QED  BY <1>1, <1>2, <1>3, NoCallMoves, ShownStays, QuotesStay, MarksStay DEF MarketInv

LEMMA TakePriceKeeps ==
  ASSUME MarketInv, NEW id \in Identities, TakePrice(id)
  PROVE  /\ MarketInv'
         /\ \A other \in Identities : mark'[other].day >= mark[other].day
<1>1. PICK q \in Newest({q \in quotes : q.id = id}) : mark' = [mark EXCEPT ![id] = q]
  BY DEF TakePrice
<1>2. UNCHANGED <<page, nav, published, cache, catalog, raws, quotes, sync>>
  BY DEF TakePrice
<1>3. q \in quotes /\ q.id = id /\ \A p \in quotes : p.id = id => p.day <= q.day
  BY DEF Newest
<1>4. \A p \in quotes : p.day \in Nat
  BY MarketGiven DEF MarketInv, QuotesSound, MarketQuote
<1>5. mark[id].day \in Nat /\ q.day >= mark[id].day
  BY <1>3, <1>4 DEF MarketInv, MarksSound
<1>6. ASSUME NEW other \in Identities
      PROVE  /\ mark'[other].day >= mark[other].day /\ mark'[other].day \in Nat
             /\ mark'[other].day = 0 \/ \E p \in quotes : p.id = other /\ p.day >= mark'[other].day
  <2>1. CASE other = id
    <3>1. mark'[other] = q
      BY <1>1, <2>1 DEF MarketInv, MarksSound
    <3>. QED  BY <1>3, <1>4, <1>5, <2>1, <3>1
  <2>2. CASE other # id
    <3>1. mark'[other] = mark[other]
      BY <1>1, <2>2 DEF MarketInv, MarksSound
    <3>. QED  BY <3>1 DEF MarketInv, MarksSound
  <2>. QED  BY <2>1, <2>2
<1>7. MarksSound'
  BY <1>1, <1>2, <1>6 DEF MarketInv, MarksSound
<1>8. Forward
  BY <1>2 DEF Forward, HasQuote
<1>. QED  BY <1>2, <1>6, <1>7, <1>8, NoCallMoves, ShownStays, QuotesStay, CatalogStays DEF MarketInv

LEMMA MarketNextKeeps == MarketInv /\ [MarketNext]_marketVars => MarketInv'
<1>. SUFFICES ASSUME MarketInv, [MarketNext]_marketVars PROVE MarketInv'
  OBVIOUS
<1>1. CASE MarketNext
  BY <1>1, PublishGoldKeeps, PublishNavKeeps, RegisterKeeps, StartKeeps, LoadKeeps, OpenGroupKeeps,
     AskGoldKeeps, AskFundKeeps, ReplyKeeps, StoreKeeps, EndKeeps, BackfillKeeps, BrowseKeeps,
     TakePriceKeeps DEF MarketNext
<1>2. CASE UNCHANGED marketVars
  <2>1. UNCHANGED <<page, nav, published, cache, catalog, raws, quotes, mark, sync>>
    BY <1>2 DEF marketVars
  <2>2. Forward
    BY <2>1 DEF Forward, HasQuote
  <2>. QED  BY <2>1, <2>2, NoCallMoves, ShownStays, QuotesStay, MarksStay, CatalogStays DEF MarketInv
<1>. QED  BY <1>1, <1>2

LEMMA MarketInvariance == MarketSpec => []MarketInv
BY MarketInitSound, MarketNextKeeps, PTL DEF MarketSpec

\* Every quote says what its source has published for its day, and names the fetch
\* it came from; a sync that ends has a quote for each instrument whose source
\* answered (ingestAllInstrumentsOnce, ingestMarketDataOnce).  In particular the
\* rounding of a price per gram to one per ounce loses no digit of the former.
THEOREM QuotesAreTrue == MarketSpec => QuotesTellTheMarket
<1>. DEFINE Ends == \A s \in Syncs :
              sync[s].pc = "next" /\ sync[s].groups = {} /\ sync'[s].pc = "idle" =>
                \A id \in sync[s].known \ sync[s].down :
                  \/ \E q \in quotes : q.id = id
                  \/ id # Gold /\ FundCurrency[id[1]] # "IDR"
<1>1. MarketInv => Ends
  <2>. SUFFICES ASSUME MarketInv, NEW s \in Syncs, sync[s].pc = "next", sync[s].groups = {},
                       NEW id \in sync[s].known \ sync[s].down
                PROVE  HasQuote(id) \/ OtherCurrency(id)
    BY DEF HasQuote, OtherCurrency
  <2>1. Truthful(sync[s]) /\ Accountable(sync[s])
    BY DEF MarketInv, CallsSound
  <2>2. sync[s].got = {}
    BY <2>1 DEF Truthful
  <2>3. ~Owed(sync[s], id)
    BY <2>2 DEF Owed
  <2>. QED  BY <2>1, <2>3 DEF Accountable
<1>. DEFINE Told == EveryQuoteWasPublished' /\ Ends
<1>2. MarketInv /\ MarketInv' => Told
  BY <1>1 DEF MarketInv, QuotesSound
<1>. QED  BY <1>2, MarketInvariance, PTL DEF QuotesTellTheMarket

\* A refresh takes no price that is older than the one it took before: an upsert
\* replaces a quote by one of the same day, so the table never loses the day of a
\* mark (loadLatestPrice).
THEOREM MarksNeverGoBack == MarketSpec => MarksMoveForward
<1>. DEFINE On == \A id \in Identities : mark'[id].day >= mark[id].day
<1>1. MarketInv /\ [MarketNext]_marketVars => On
  <2>. SUFFICES ASSUME MarketInv, [MarketNext]_marketVars, NEW id \in Identities
                PROVE  mark'[id].day >= mark[id].day
    OBVIOUS
  <2>1. mark[id].day \in Nat
    BY DEF MarketInv, MarksSound
  <2>2. CASE UNCHANGED mark
    BY <2>1, <2>2
  <2>3. CASE ~(UNCHANGED mark)
    <3>1. \E other \in Identities : TakePrice(other)
      BY <2>3 DEF MarketNext, marketVars, PublishGold, PublishNav, Register, Start, Load, OpenGroup,
         AskGold, AskFund, Reply, Store, Finish, Stop, Backfill, Browse
    <3>. QED  BY <3>1, TakePriceKeeps
  <2>. QED  BY <2>2, <2>3
<1>. HIDE DEF On
<1>2. MarketSpec => [][On]_marketVars
  BY <1>1, MarketInvariance, PTL DEF MarketSpec
<1>. QED  BY <1>2 DEF MarksMoveForward, On

=============================================================================
