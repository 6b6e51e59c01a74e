------------------------------ MODULE Anchors ------------------------------
(***************************************************************************)
(* Balance anchors of one cash account (ADR-0043, PER-201).                *)
(*                                                                         *)
(* The stored balance of a cash account is moved by a delta with every     *)
(* Transaction (applyAccountBalanceDelta in src/src/server/transactions.ts)*)
(* while the canonical balance is recomputed from the latest anchor        *)
(* valuation plus the flow after it (computeCanonicalBalance in            *)
(* src/src/server/valuations.ts).  This module runs both side by side:     *)
(* creates, deletes and edits of rows, reconciliations and rebuilds, each  *)
(* a SERIALIZABLE database transaction that overlaps others.               *)
(*                                                                         *)
(* A database transaction begins (its snapshot and its createdAt stamp are *)
(* taken) and later commits or aborts.  Two that both write the Account    *)
(* row conflict: the later one aborts and is retried as a new one.  So do  *)
(* two that each insert an anchor the other one's read missed.  What does  *)
(* not conflict is a row write and a reconciliation that confirms the      *)
(* balance it read, because that one leaves the Account row alone.         *)
(*                                                                         *)
(* Instants are numbers: day d begins at midnight 2*d and 2*d + 1 is any   *)
(* later time of that day.  A row has an instant, an anchor only a day.    *)
(***************************************************************************)
EXTENDS Integers, FiniteSetsExt

CONSTANTS
  Slots,        \* server handlers that may be in a database transaction
  Days,         \* the days of the calendar, from 0
  Times,        \* the instants a client may date a row with
  Deltas,       \* signed amounts of rows
  Asserted,     \* balances a client may assert
  Ahead,        \* how many days ahead of today an anchor may be dated
  MaxRows,      \* bound on the rows ever inserted
  MaxAnchors,   \* bound on the anchors ever inserted
  MaxBegins,    \* bound on the database transactions ever begun
  NoRow, NoAnchor, Idle

RowId == 1..MaxRows
AnchorId == 0..MaxAnchors

CashRow == [time: Times, amount: Deltas, created: 1..MaxBegins, deleted: BOOLEAN]
AnchorRow == [day: Days, value: Asserted \cup {0}, created: 0..MaxBegins]
OpenTx == [op: {"create", "delete", "edit", "reconcile", "rebuild"}, id: RowId \cup {0},
           time: Times \cup {0}, amount: Deltas \cup {0}, day: Days, value: Asserted \cup {0},
           target: Int, seen: Int, asOf: Days, stamp: 1..MaxBegins,
           accountStale: BOOLEAN, anchorStale: BOOLEAN]

ASSUME AnchorsAssumption ==
  /\ Days \subseteq Nat /\ 0 \in Days
  /\ Times \subseteq Nat
  /\ Deltas \subseteq Int \ {0}
  /\ Asserted \subseteq Int
  /\ Ahead \in Nat
  /\ MaxRows \in Nat /\ MaxAnchors \in Nat /\ MaxBegins \in Nat
  /\ NoRow \notin CashRow /\ NoAnchor \notin AnchorRow /\ Idle \notin OpenTx

VARIABLES
  row,          \* RowId -> Transaction row
  anchor,       \* AnchorId -> anchor Valuation row; the opening has id 0
  stored,       \* Account.balance
  today,
  clock,        \* createdAt stamp of the next database transaction
  flight        \* Slots -> the database transaction that is open, or Idle

anchorsVars == <<row, anchor, stored, today, clock, flight>>

-----------------------------------------------------------------------------
Midnight(day) == 2 * day

LiveRows(rows) == {r \in RowId : IF rows[r] = NoRow THEN FALSE ELSE ~rows[r].deleted}
AnchorsOf(ancs) == {a \in AnchorId : ancs[a] # NoAnchor}

\* Faulty variant: the segmentation of ADR-0043 before PER-201.
AfterAnchorByDate(r, a) == r.time > Midnight(a.day)

\* afterAnchor: r is flow on top of what anchor a asserts.
AfterAnchor(r, a) == r.time > Midnight(a.day) \/ r.created > a.created

\* Order of latestValuation.
Before(a, b) ==
  \/ a.day < b.day
  \/ a.day = b.day /\ a.created < b.created

\* The anchor in force: the latest that is not dated after today.
InForce(ancs) ==
  LET past == {a \in AnchorsOf(ancs) : ancs[a].day <= today}
  IN ancs[CHOOSE a \in past : \A b \in past \ {a} : Before(ancs[b], ancs[a])]

Flow(rows, S) == MapThenSumSet(LAMBDA r : rows[r].amount, S)

\* computeCanonicalBalance
CanonicalBalance(rows, ancs) ==
  LET a == InForce(ancs)
  IN a.value + Flow(rows, {r \in LiveRows(rows) : AfterAnchor(rows[r], a)})

FreeRow == Cardinality({r \in RowId : row[r] # NoRow}) + 1
FreeAnchor == Cardinality(AnchorsOf(anchor))

-----------------------------------------------------------------------------
AnchorsInit ==
  /\ row = [r \in RowId |-> NoRow]
  /\ anchor = [a \in AnchorId |->
                 IF a = 0 THEN [day |-> 0, value |-> 0, created |-> 0]
                 ELSE NoAnchor]
  /\ stored = 0
  /\ today = 0
  /\ clock = 1
  /\ flight = [s \in Slots |-> Idle]

Begin(s, request) ==
  /\ flight[s] = Idle
  /\ clock <= MaxBegins
  /\ flight' = [flight EXCEPT ![s] = request]
  /\ clock' = clock + 1
  /\ UNCHANGED <<row, anchor, stored, today>>

\* Requests of one shape; what a handler has read is fixed by its snapshot.
Request(op, id, time, amount, day, value, target) ==
  [op |-> op, id |-> id, time |-> time, amount |-> amount, day |-> day,
   value |-> value, target |-> target, seen |-> stored, asOf |-> today, stamp |-> clock,
   accountStale |-> FALSE, anchorStale |-> FALSE]

(* createTransactionForFamily *)
BeginCreate(s, time, amount) ==
  Begin(s, Request("create", 0, time, amount, 0, 0, 0))

(* deleteTransactionForFamily *)
BeginDelete(s, r) ==
  /\ r \in LiveRows(row)
  /\ Begin(s, Request("delete", r, 0, 0, 0, 0, 0))

(* updateTransactionForFamily, with a new amount or time *)
BeginEdit(s, r, time, amount) ==
  /\ r \in LiveRows(row)
  /\ Begin(s, Request("edit", r, time, amount, 0, 0, 0))

(* createValuationForFamily with an anchor type: the balance it will store *)
(* is recomputed with the new anchor in place.                             *)
BeginReconcile(s, day, value) ==
  /\ day <= today + Ahead
  /\ FreeAnchor \in AnchorId
  /\ LET new == [day |-> day, value |-> value, created |-> clock]
     IN Begin(s, Request("reconcile", 0, 0, 0, day, value,
                         CanonicalBalance(row, [anchor EXCEPT ![FreeAnchor] = new])))

(* rebuildAccountBalanceForFamily *)
BeginRebuild(s) ==
  Begin(s, Request("rebuild", 0, 0, 0, 0, 0, CanonicalBalance(row, anchor)))

\* The slots after s has committed: the others have a stale snapshot of what
\* s wrote.
Done(s, wroteAccount, wroteAnchor) ==
  [t \in Slots |->
     IF t = s \/ flight[t] = Idle THEN IF t = s THEN Idle ELSE flight[t]
     ELSE [flight[t] EXCEPT !.accountStale = @ \/ wroteAccount,
                            !.anchorStale = @ \/ wroteAnchor]]

InsertRow(rows, s) ==
  [rows EXCEPT ![FreeRow] = [time |-> flight[s].time, amount |-> flight[s].amount,
                             created |-> flight[s].stamp, deleted |-> FALSE]]

CommitCreate(s) ==
  /\ flight[s] # Idle /\ flight[s].op = "create"
  /\ ~flight[s].accountStale
  /\ FreeRow \in RowId
  /\ row' = InsertRow(row, s)
  /\ stored' = stored + flight[s].amount
  /\ flight' = Done(s, TRUE, FALSE)
  /\ UNCHANGED <<anchor, today, clock>>

CommitDelete(s) ==
  /\ flight[s] # Idle /\ flight[s].op = "delete"
  /\ ~flight[s].accountStale
  /\ row' = [row EXCEPT ![flight[s].id].deleted = TRUE]
  /\ stored' = stored - row[flight[s].id].amount
  /\ flight' = Done(s, TRUE, FALSE)
  /\ UNCHANGED <<anchor, today, clock>>

CommitEdit(s) ==
  /\ flight[s] # Idle /\ flight[s].op = "edit"
  /\ ~flight[s].accountStale
  /\ FreeRow \in RowId
  /\ row' = InsertRow([row EXCEPT ![flight[s].id].deleted = TRUE], s)
  /\ stored' = stored - row[flight[s].id].amount + flight[s].amount
  /\ flight' = Done(s, TRUE, FALSE)
  /\ UNCHANGED <<anchor, today, clock>>

\* Faulty variant: the balance is overwritten without the version check.
SetBalanceUnchecked(s) == stored' = flight[s].target

\* setAccountBalanceTo, called only when the balance it read has to change.
SetBalance(s) ==
  /\ flight[s].target # flight[s].seen => ~flight[s].accountStale
  /\ stored' = IF flight[s].target # flight[s].seen THEN flight[s].target ELSE stored

CommitReconcile(s) ==
  /\ flight[s] # Idle /\ flight[s].op = "reconcile"
  /\ ~flight[s].anchorStale
  /\ FreeAnchor \in AnchorId
  /\ anchor' = [anchor EXCEPT ![FreeAnchor] =
                  [day |-> flight[s].day, value |-> flight[s].value,
                   created |-> flight[s].stamp]]
  /\ SetBalance(s)
  /\ flight' = Done(s, flight[s].target # flight[s].seen, TRUE)
  /\ UNCHANGED <<row, today, clock>>

CommitRebuild(s) ==
  /\ flight[s] # Idle /\ flight[s].op = "rebuild"
  /\ flight[s].target # flight[s].seen => ~flight[s].anchorStale
  /\ SetBalance(s)
  /\ flight' = Done(s, flight[s].target # flight[s].seen, FALSE)
  /\ UNCHANGED <<row, anchor, today, clock>>

(* withSerializableRetry: an attempt that lost a conflict is rolled back;  *)
(* its retry is a new database transaction.                                *)
Abort(s) ==
  /\ flight[s] # Idle
  /\ flight[s].accountStale \/ flight[s].anchorStale
  /\ flight' = [flight EXCEPT ![s] = Idle]
  /\ UNCHANGED <<row, anchor, stored, today, clock>>

Midnights ==
  /\ today + 1 \in Days
  /\ today' = today + 1
  /\ UNCHANGED <<row, anchor, stored, clock, flight>>

-----------------------------------------------------------------------------
AnchorsNext ==
  \/ \E s \in Slots, time \in Times, amount \in Deltas : BeginCreate(s, time, amount)
  \/ \E s \in Slots, r \in RowId : BeginDelete(s, r)
  \/ \E s \in Slots, r \in RowId, time \in Times, amount \in Deltas :
       BeginEdit(s, r, time, amount)
  \/ \E s \in Slots, day \in Days, value \in Asserted : BeginReconcile(s, day, value)
  \/ \E s \in Slots : BeginRebuild(s)
  \/ \E s \in Slots : CommitCreate(s)
  \/ \E s \in Slots : CommitDelete(s)
  \/ \E s \in Slots : CommitEdit(s)
  \/ \E s \in Slots : CommitReconcile(s)
  \/ \E s \in Slots : CommitRebuild(s)
  \/ \E s \in Slots : Abort(s)
  \/ Midnights

AnchorsSpec == AnchorsInit /\ [][AnchorsNext]_anchorsVars

-----------------------------------------------------------------------------
(* Properties. *)

\* The tables hold rows of their types.
AnchorsTypeOK ==
  /\ row \in [RowId -> CashRow \cup {NoRow}]
  /\ anchor \in [AnchorId -> AnchorRow \cup {NoAnchor}]
  /\ stored \in Int
  /\ today \in Days
  /\ clock \in 1..(MaxBegins + 1)
  /\ flight \in [Slots -> OpenTx \cup {Idle}]

Drift == CanonicalBalance(row, anchor) # stored

Absorbed(r) == row[r] # NoRow /\ ~AfterAnchor(row[r], InForce(anchor))

\* The calendar may still bring an anchor into force, or has done so while a
\* recomputed balance is on its way.
Pending ==
  \/ \E a \in AnchorsOf(anchor) : anchor[a].day > today
  \/ \E s \in Slots : flight[s] # Idle /\ flight[s].op \in {"reconcile", "rebuild"}
                       /\ flight[s].asOf # today

\* A reconciliation confirms the balance it has read, and a row that its
\* snapshot misses has been committed meanwhile.
ConfirmsStaleBalance ==
  \E s \in Slots : /\ flight[s] # Idle /\ flight'[s] = Idle
                   /\ flight[s].op = "reconcile" /\ flight[s].accountStale

\* Faulty variant: the chain check still segments by date alone.
InSegmentByDate(r, a, b) ==
  /\ AfterAnchorByDate(row[r], anchor[a])
  /\ ~AfterAnchorByDate(row[r], anchor[b])

\* A bucket of the anchor chain: row r lies in the segment from a to b.
InSegment(r, a, b) == AfterAnchor(row[r], anchor[a]) /\ ~AfterAnchor(row[r], anchor[b])

\* a and b are neighbours in the chain of detectAnchorChainDrift.
Neighbours(a, b) ==
  /\ Before(anchor[a], anchor[b])
  /\ ~\E c \in AnchorsOf(anchor) :
        Before(anchor[a], anchor[c]) /\ Before(anchor[c], anchor[b])

Segments(r) ==
  {p \in AnchorsOf(anchor) \X AnchorsOf(anchor) :
     Neighbours(p[1], p[2]) /\ InSegment(r, p[1], p[2])}

First == CHOOSE a \in AnchorsOf(anchor) :
           \A b \in AnchorsOf(anchor) \ {a} : Before(anchor[a], anchor[b])
LastAnchor == CHOOSE a \in AnchorsOf(anchor) :
          \A b \in AnchorsOf(anchor) \ {a} : Before(anchor[b], anchor[a])

\* The flow that each row stands for is explained once: row r is inside the
\* first anchor, in one segment between two anchors, or after the last one.
Buckets(r) ==
  Cardinality(Segments(r))
    + (IF AfterAnchor(row[r], anchor[First]) THEN 0 ELSE 1)
    + (IF AfterAnchor(row[r], anchor[LastAnchor]) THEN 1 ELSE 0)

\* Anchors were entered in the order of their dates.
EnteredInOrder ==
  \A a, b \in AnchorsOf(anchor) :
    anchor[a].day < anchor[b].day => anchor[a].created < anchor[b].created

\* ADR-0043 section 6: if anchors are entered in date order, the chain check
\* and the balance formula split the rows between them without overlap or gap.
ChainPartitionsRows ==
  EnteredInOrder => \A r \in LiveRows(row) : Buckets(r) = 1

\* What can open a drift between the stored and the canonical balance: a write
\* of a row that the anchor in force absorbs, a reconciliation that confirms a
\* balance already changed, or the calendar.  No back-dated entry or anchor,
\* no lost update and no other order of commits does; and the chain check of the
\* same anchors gives every row to one segment after each of these steps
\* (computeCanonicalBalance, detectBalanceDrift, detectAnchorChainDrift).
DriftIsExplained ==
  [][/\ ~Drift /\ Drift' =>
          \/ Pending
          \/ ConfirmsStaleBalance
          \/ \E r \in RowId : row'[r] # row[r] /\ Absorbed(r)'
     /\ ChainPartitionsRows']_anchorsVars

=============================================================================
