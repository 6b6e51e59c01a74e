---------------------------- MODULE AccountsProofs ----------------------------
(***************************************************************************)
(* Proofs about Accounts and Wizard, for any accounts, handlers, files,    *)
(* sizes of a chunk and bounds.                                            *)
(*                                                                         *)
(* An account is created once and its deletion is never undone, so what a  *)
(* handler found of it in one database transaction is still so in the      *)
(* next: gone stays gone, and what was drained holds nothing alive but     *)
(* what was posted late.                                                   *)
(*                                                                         *)
(* Rows of a batch are only appended or given another status, so a row     *)
(* that the wizard fetched says what it still says, and what is confirmed  *)
(* is what was ticked at the last press.                                   *)
(*                                                                         *)
(* The last part is about what an account holds: it moves by the movements *)
(* that live, while they are posted, deleted and drained.                  *)
(***************************************************************************)
EXTENDS Accounts, Wizard, CollectionTheorems, SequenceTheorems

\* The fields the argument reads, whatever is in them.
Shape(r) == "deleted" \in DOMAIN r

MoveShape(m) == {"from", "to", "live"} \subseteq DOMAIN m

Types ==
  /\ account = [a \in Ids |-> account[a]]
  /\ \A a \in Ids : Exists(a) => Shape(account[a]) /\ a \in born
  /\ move = [i \in MoveId |-> move[i]]
  /\ \A i \in Posted : MoveShape(move[i])
  /\ handler = [h \in Handlers |-> handler[h]]

Drained(a) == \A i \in Live : Touches(i, a) => i \in late

\* What the steps of a deletion rely on.
Progress ==
  \A h \in Handlers : handler[h].pc # "idle" =>
    /\ handler[h].acc \in Ids \cap born
    /\ handler[h].pc = "record" => ~Writable(handler[h].acc)
    /\ handler[h].pc = "final" /\ handler[h].history => Drained(handler[h].acc)

Acked == acked \subseteq Ids \cap born

IInv == Types /\ Progress /\ Acked /\ AcknowledgedStayGone /\ ClosedAccountIsDrained

\* A step that rewrites rows of accounts, creating, deleting and removing none.
KeepsRows ==
  /\ account' = [a \in Ids |-> account'[a]]
  /\ \A a \in Ids :
       \/ account'[a] = account[a]
       \/ Exists(a) /\ Shape(account'[a]) /\ account'[a].deleted = account[a].deleted

\* A step that brings no movement to life and turns none elsewhere.
KeepsMoves ==
  /\ move' = [i \in MoveId |-> move'[i]]
  /\ \A i \in Posted' : MoveShape(move'[i])
  /\ Live' \subseteq Live
  /\ \A i \in Live' : move'[i].from = move[i].from /\ move'[i].to = move[i].to

-----------------------------------------------------------------------------
(* Rows. *)

LEMMA ShapeWith ==
  ASSUME NEW r, Shape(r), NEW x
  PROVE  /\ Shape([r EXCEPT !.balance = x]) /\ [r EXCEPT !.balance = x].deleted = r.deleted
         /\ Shape([r EXCEPT !.vals = x]) /\ [r EXCEPT !.vals = x].deleted = r.deleted
         /\ Shape([r EXCEPT !.source = x]) /\ [r EXCEPT !.source = x].deleted = r.deleted
         /\ Shape([r EXCEPT !.status = x]) /\ [r EXCEPT !.status = x].deleted = r.deleted
         /\ Shape([r EXCEPT !.reserve = x]) /\ [r EXCEPT !.reserve = x].deleted = r.deleted
         /\ Shape([r EXCEPT !.deleted = x]) /\ [r EXCEPT !.deleted = x].deleted = x
BY DEF Shape

\* A row with two of its fields replaced.
LEMMA ShapeWithTwo ==
  ASSUME NEW r, Shape(r), NEW x, NEW y
  PROVE  /\ Shape([r EXCEPT !.vals = x, !.balance = y])
         /\ [r EXCEPT !.vals = x, !.balance = y].deleted = r.deleted
BY DEF Shape

LEMMA RevaluedShape ==
  ASSUME NEW r, Shape(r), NEW value, NEW by
  PROVE  Shape(Revalued(r, value, by)) /\ Revalued(r, value, by).deleted = r.deleted
BY ShapeWithTwo DEF Revalued

\* One row rewritten in place.
LEMMA RewrittenRow ==
  ASSUME Types, NEW a \in Ids, Exists(a), NEW r, Shape(r), r.deleted = account[a].deleted,
         account' = [account EXCEPT ![a] = r]
  PROVE  KeepsRows
BY DEF Types, KeepsRows

\* Reversed movements change no row but in its amounts.
LEMMA UndoneKeepsRows ==
  ASSUME Types, NEW S, account' = Undone(S)
  PROVE  KeepsRows
<1>. SUFFICES ASSUME NEW a \in Ids
              PROVE  \/ account'[a] = account[a]
                     \/ Exists(a) /\ Shape(account'[a]) /\ account'[a].deleted = account[a].deleted
  BY DEF KeepsRows, Undone
<1>. DEFINE stirred == ~(~Exists(a) \/ \A i \in S : ~Touches(i, a))
            vals == Remaining(account[a].vals, S)
            sum == account[a].balance - FlowOf(S, a)
            worth == Worth(vals)
<1>1. CASE ~stirred
  BY <1>1 DEF Undone
<1>2. CASE stirred /\ Tracked(account, a)
  <2>1. account'[a] = [account[a] EXCEPT !.vals = vals, !.balance = worth]
    BY <1>2, Zenon DEF Undone
  <2>2. Exists(a) /\ Shape(account[a])
    BY <1>2 DEF Types
  <2>. HIDE DEF vals, worth
  <2>. QED  BY <2>1, <2>2 DEF Shape
<1>3. CASE stirred /\ ~Tracked(account, a)
  <2>1. account'[a] = [account[a] EXCEPT !.balance = sum]
    BY <1>3, Zenon DEF Undone
  <2>2. Exists(a) /\ Shape(account[a])
    BY <1>3 DEF Types
  <2>. HIDE DEF sum
  <2>. QED  BY <2>1, <2>2 DEF Shape
<1>. QED  BY <1>1, <1>2, <1>3

LEMMA TombstoneKeepsMoves ==
  ASSUME Types, NEW S \in SUBSET Live, Tombstone(S)
  PROVE  KeepsMoves
<1>1. ASSUME NEW m, MoveShape(m)
      PROVE  LET n == [m EXCEPT !.live = FALSE]
             IN  MoveShape(n) /\ n.from = m.from /\ n.to = m.to /\ ~n.live
  BY <1>1 DEF MoveShape
<1>2. \A i \in S : i \in MoveId /\ MoveShape(move[i])
  BY DEF Types, Live, Posted
<1>3. \A i \in MoveId : move'[i] = IF i \in S THEN [move[i] EXCEPT !.live = FALSE] ELSE move[i]
  BY DEF Tombstone
<1>4. \A i \in S : /\ MoveShape(move'[i]) /\ ~move'[i].live
                   /\ move'[i].from = move[i].from /\ move'[i].to = move[i].to
  BY <1>1, <1>2, <1>3
<1>5. \A i \in MoveId \ S : move'[i] = move[i]
  BY <1>3
<1>. QED  BY <1>4, <1>5 DEF KeepsMoves, Live, Posted, Tombstone, Types

-----------------------------------------------------------------------------
(* What an account that is gone, or is drained, keeps. *)

LEMMA KeptRows ==
  ASSUME IInv, KeepsRows, UNCHANGED born
  PROVE  /\ \A a \in Ids : Writable(a)' => Writable(a)
         /\ \A a \in Ids : Exists(a)' /\ ~Writable(a)' => Exists(a) /\ ~Writable(a)
         /\ \A a \in Ids : Exists(a)' => Shape(account'[a]) /\ a \in born'
         /\ account' = [a \in Ids |-> account'[a]]
BY DEF IInv, Types, KeepsRows, Exists, Writable

\* A step that rewrites rows and reverses movements, and no more.
LEMMA Kept ==
  ASSUME IInv, KeepsRows, KeepsMoves, UNCHANGED <<born, late, handler, acked>>
  PROVE  IInv'
<1>1. \A a \in Ids : Drained(a) => Drained(a)'
  BY DEF Drained, KeepsMoves, Touches, Live
<1>2. Types'
  BY KeptRows DEF KeepsMoves, IInv, Types
<1>3. Progress'
  BY <1>1, KeptRows DEF IInv, Progress
<1>4. Acked' /\ AcknowledgedStayGone'
  BY KeptRows DEF IInv, Acked, AcknowledgedStayGone
<1>5. ClosedAccountIsDrained'
  BY <1>1, KeptRows DEF IInv, ClosedAccountIsDrained, Drained
<1>. QED  BY <1>2, <1>3, <1>4, <1>5 DEF IInv

LEMMA SameMoves == ASSUME Types, UNCHANGED move PROVE KeepsMoves
BY DEF Types, KeepsMoves, Live, Posted

LEMMA SameRows == ASSUME Types, UNCHANGED account PROVE KeepsRows
BY DEF Types, KeepsRows

\* A handler that goes on to a state which keeps the promises of Progress.
LEMMA Moved ==
  ASSUME IInv, NEW h \in Handlers, NEW state, Goto(h, state), UNCHANGED <<ledger, acked>>,
         state.pc # "idle" =>
           /\ state.acc \in Ids \cap born
           /\ state.pc = "record" => ~Writable(state.acc)
           /\ state.pc = "final" /\ state.history => Drained(state.acc)
  PROVE  IInv'
<1>1. Types'
  BY DEF IInv, Types, Goto, ledger, Exists, Posted
<1>2. \A k \in Handlers : handler'[k] = IF k = h THEN state ELSE handler[k]
  BY DEF IInv, Types, Goto
<1>3. /\ \A a \in Ids : Writable(a)' <=> Writable(a)
      /\ \A a \in Ids : Exists(a)' <=> Exists(a)
      /\ \A a \in Ids : Drained(a) => Drained(a)'
  BY DEF ledger, Writable, Exists, Drained, Live, Posted, Touches
<1>4. Progress'
  BY <1>2, <1>3 DEF IInv, Progress, ledger
<1>5. Acked' /\ AcknowledgedStayGone'
  BY <1>3 DEF IInv, Acked, AcknowledgedStayGone, ledger
<1>6. ClosedAccountIsDrained'
  BY <1>3 DEF IInv, ClosedAccountIsDrained, Drained, ledger
<1>. QED  BY <1>1, <1>4, <1>5, <1>6 DEF IInv

-----------------------------------------------------------------------------
(* The calls. *)

\* An id is given to an account once, so no deletion knows of it.
LEMMA KeptByCreate ==
  ASSUME IInv, NEW a \in Ids, CreateAccount(a)
  PROVE  IInv'
<1>1. PICK o \in Openings :
        account' = [account EXCEPT ![a] =
          [source |-> "transaction_flow", status |-> "active", deleted |-> FALSE,
           reserve |-> FALSE, balance |-> o, vals |-> <<[value |-> o, by |-> 0]>>]]
  BY DEF CreateAccount
<1>. DEFINE row == [source |-> "transaction_flow", status |-> "active", deleted |-> FALSE,
                    reserve |-> FALSE, balance |-> o, vals |-> <<[value |-> o, by |-> 0]>>]
<1>2. Shape(row) /\ row.deleted = FALSE
  BY DEF Shape
<1>. HIDE DEF row
<1>3. /\ account' = [b \in Ids |-> account'[b]]
      /\ account'[a] = row
      /\ \A b \in Ids \ {a} : account'[b] = account[b]
  BY <1>1 DEF IInv, Types, row
<1>4. a \notin born /\ born' = born \cup {a} /\ UNCHANGED <<move, held, late, handler, acked>>
  BY DEF CreateAccount, deletion
<1>5. /\ \A b \in Ids : b # a => (Writable(b)' <=> Writable(b)) /\ (Exists(b)' <=> Exists(b))
      /\ Exists(a)' => Writable(a)'
  BY <1>2, <1>3 DEF Writable, Exists
<1>6. \A b \in Ids : Drained(b) => Drained(b)'
  BY <1>4 DEF Drained, Live, Posted, Touches
<1>7. Types'
  BY <1>2, <1>3, <1>4 DEF IInv, Types, Exists, Posted
<1>8. Progress'
  BY <1>4, <1>5, <1>6 DEF IInv, Progress
<1>9. Acked' /\ AcknowledgedStayGone'
  BY <1>4, <1>5 DEF IInv, Acked, AcknowledgedStayGone
<1>10. ClosedAccountIsDrained'
  BY <1>5, <1>6 DEF IInv, ClosedAccountIsDrained, Drained
<1>. QED  BY <1>7, <1>8, <1>9, <1>10 DEF IInv

LEMMA KeptByEdits ==
  ASSUME IInv, NEW a \in Ids,
         \/ UpdateAccount(a) \/ EnableHoldingsTracking(a) \/ ArchiveAccount(a)
         \/ ReactivateAccount(a) \/ UpsertHolding(a)
  PROVE  IInv'
<1>1. Exists(a) /\ Shape(account[a])
  BY DEF UpdateAccount, EnableHoldingsTracking, ArchiveAccount, ReactivateAccount, SetActiveState,
         UpsertHolding, Holdable, Eligible, Target, Writable, IInv, Types
<1>2. ASSUME UpdateAccount(a) PROVE KeepsRows
  <2>1. PICK reserve \in BOOLEAN : account' = [account EXCEPT ![a].reserve = reserve]
    BY <1>2 DEF UpdateAccount
  <2>. QED  BY <1>1, <2>1, RewrittenRow, ShapeWith DEF IInv
<1>3. ASSUME EnableHoldingsTracking(a) PROVE KeepsRows
  <2>1. Shape(Switched(a)) /\ Switched(a).deleted = account[a].deleted
    <3>. DEFINE q == [account[a] EXCEPT !.source = "valuation"]
    <3>1. Shape(q) /\ q.deleted = account[a].deleted
      BY <1>1, ShapeWith
    <3>2. Switched(a) = Revalued(q, account[a].balance, 0)
      BY DEF Switched
    <3>. HIDE DEF q
    <3>. QED  BY <3>1, <3>2, RevaluedShape
  <2>. QED  BY <1>1, <1>3, <2>1, RewrittenRow DEF EnableHoldingsTracking, IInv
<1>4. ASSUME ArchiveAccount(a) \/ ReactivateAccount(a) PROVE KeepsRows
  <2>1. PICK status : account' = [account EXCEPT ![a].status = status]
    BY <1>4 DEF ArchiveAccount, ReactivateAccount, SetActiveState
  <2>. QED  BY <1>1, <2>1, RewrittenRow, ShapeWith DEF IInv
<1>5. ASSUME UpsertHolding(a) PROVE KeepsRows
  <2>1. account' = [account EXCEPT ![a] = Revalued(account[a], account[a].balance + 1, 0)]
    BY <1>5 DEF UpsertHolding
  <2>. QED  BY <1>1, <2>1, RevaluedShape, RewrittenRow DEF IInv
<1>6. UNCHANGED <<born, move, late, handler, acked>>
  BY DEF UpdateAccount, EnableHoldingsTracking, ArchiveAccount, ReactivateAccount, SetActiveState,
         UpsertHolding, deletion
<1>. QED  BY <1>2, <1>3, <1>4, <1>5, <1>6, SameMoves, Kept DEF IInv

LEMMA PaidKeepsRows ==
  ASSUME Types, NEW m \in Requested, NEW i, Exists(m.from),
         m.kind # "spend" => m.to # m.from /\ m.to \in Ids /\ Exists(m.to),
         account' = Paid(m, i)
  PROVE  KeepsRows
<1>. DEFINE from == [account EXCEPT ![m.from].balance = @ - 1]
<1>1. m.from \in Ids
  BY DEF Requested
<1>2. /\ from = [a \in Ids |-> from[a]]
      /\ \A a \in Ids \ {m.from} : from[a] = account[a]
      /\ Shape(from[m.from]) /\ from[m.from].deleted = account[m.from].deleted
  <2>1. from[m.from] = [account[m.from] EXCEPT !.balance = account[m.from].balance - 1]
    BY <1>1 DEF Types
  <2>2. Shape(account[m.from])
    BY <1>1 DEF Types
  <2>3. Shape(from[m.from]) /\ from[m.from].deleted = account[m.from].deleted
    BY <2>1, <2>2 DEF Shape
  <2>. QED  BY <1>1, <2>3 DEF Types
<1>. HIDE DEF from
<1>3. CASE account' = from
  BY <1>1, <1>2, <1>3 DEF KeepsRows
<1>4. ASSUME NEW r, account' = [from EXCEPT ![m.to] = r], m.kind # "spend",
             Shape(r), r.deleted = account[m.to].deleted
      PROVE  KeepsRows
  BY <1>1, <1>2, <1>4 DEF KeepsRows
<1>5. CASE m.kind = "spend"
  BY <1>3, <1>5 DEF Paid, from
<1>6. CASE m.kind = "transfer"
  <2>. DEFINE r == [from[m.to] EXCEPT !.balance = from[m.to].balance + 1]
  <2>1. account' = [from EXCEPT ![m.to] = r]
    BY <1>6 DEF Paid, from
  <2>2. from[m.to] = account[m.to] /\ Shape(account[m.to])
    BY <1>2, <1>6 DEF Types
  <2>3. Shape(r) /\ r.deleted = account[m.to].deleted
    BY <2>2 DEF Shape
  <2>. HIDE DEF r
  <2>. QED  BY <1>4, <1>6, <2>1, <2>3
<1>7. CASE m.kind \in {"move", "trade"}
  <2>. DEFINE r == Revalued(from[m.to], from[m.to].balance + 1, i)
  <2>1. account' = [from EXCEPT ![m.to] = r]
    BY <1>7 DEF Paid, from
  <2>2. from[m.to] = account[m.to] /\ Shape(account[m.to])
    BY <1>2, <1>7 DEF Types
  <2>3. Shape(r) /\ r.deleted = account[m.to].deleted
    BY <2>2, RevaluedShape
  <2>. HIDE DEF r
  <2>. QED  BY <1>4, <1>7, <2>1, <2>3
<1>. QED  BY <1>5, <1>6, <1>7 DEF Requested, Kinds

\* What is posted is posted to accounts that are open, and is late where a
\* deletion has drained already.
LEMMA KeptByPost ==
  ASSUME IInv, NEW m \in Requested, Post(m)
  PROVE  IInv'
<1>. DEFINE i == Cardinality(Posted) + 1
<1>1. /\ Writable(m.from) /\ m.from \in Ids
      /\ m.kind # "spend" => m.to # m.from /\ m.to \in Ids /\ Writable(m.to)
      /\ m.kind = "spend" => m.to \notin Ids
      /\ MoveShape(m)
  BY AccountsAssumption DEF Post, Target, Requested, MoveShape, Writable, Exists
<1>2. /\ account' = Paid(m, i)
      /\ move' = [move EXCEPT ![i] = m]
      /\ late' = IF \E h \in Handlers : handler[h].pc = "final"
                      /\ handler[h].acc \in {m.from, m.to}
                 THEN late \cup {i} ELSE late
      /\ UNCHANGED <<born, handler, acked>>
  BY DEF Post, deletion
<1>. HIDE DEF i
<1>3. KeepsRows
  BY <1>1, <1>2, PaidKeepsRows DEF Writable, IInv
<1>4. /\ move' = [j \in MoveId |-> move'[j]]
      /\ \A j \in MoveId : j # i => move'[j] = move[j]
      /\ i \in MoveId => move'[i] = m
  BY <1>2 DEF IInv, Types
<1>5. Types'
  <2>1. \A j \in Posted' : MoveShape(move'[j])
    BY <1>1, <1>4 DEF IInv, Types, Posted
  <2>. QED  BY <1>2, <1>3, <1>4, <2>1, KeptRows DEF IInv, Types
<1>6. \A j \in Live', a \in Ids :
        Touches(j, a)' => \/ j \in Live /\ Touches(j, a)
                          \/ j = i /\ a \in {m.from, m.to} /\ Writable(a)
  BY <1>1, <1>4 DEF Live, Posted, Touches
<1>7. late \subseteq late'
  BY <1>2
<1>8. Progress'
  <2>. SUFFICES ASSUME NEW h \in Handlers, handler[h].pc # "idle"
                PROVE  /\ handler[h].acc \in Ids \cap born
                       /\ handler[h].pc = "record" => ~Writable(handler[h].acc)'
                       /\ handler[h].pc = "final" /\ handler[h].history => Drained(handler[h].acc)'
    BY <1>2 DEF Progress
  <2>1. handler[h].acc \in Ids \cap born
    BY DEF IInv, Progress
  <2>2. handler[h].pc = "record" => ~Writable(handler[h].acc)'
    BY <1>2, <1>3, <2>1, KeptRows DEF IInv, Progress
  <2>3. ASSUME handler[h].pc = "final", handler[h].history
        PROVE  Drained(handler[h].acc)'
    <3>1. Drained(handler[h].acc)
      BY <2>3 DEF IInv, Progress
    <3>2. handler[h].acc \in {m.from, m.to} => i \in late'
      BY <1>2, <2>3
    <3>. QED  BY <1>2, <1>6, <1>7, <2>1, <3>1, <3>2 DEF Drained
  <2>. QED  BY <2>1, <2>2, <2>3
<1>9. Acked' /\ AcknowledgedStayGone'
  BY <1>2, <1>3, KeptRows DEF IInv, Acked, AcknowledgedStayGone
<1>10. ClosedAccountIsDrained'
  BY <1>2, <1>3, <1>6, <1>7, KeptRows DEF IInv, ClosedAccountIsDrained
<1>. QED  BY <1>5, <1>8, <1>9, <1>10 DEF IInv

LEMMA KeptByDelete ==
  ASSUME IInv, NEW i \in MoveId, DeleteTransaction(i)
  PROVE  IInv'
<1>1. {i} \in SUBSET Live /\ account' = Undone({i}) /\ Tombstone({i})
  BY DEF DeleteTransaction
<1>2. UNCHANGED <<born, late, handler, acked>>
  BY DEF DeleteTransaction, deletion
<1>3. KeepsRows
  BY <1>1, UndoneKeepsRows DEF IInv
<1>4. KeepsMoves
  BY <1>1, TombstoneKeepsMoves DEF IInv
<1>. QED  BY <1>2, <1>3, <1>4, Kept

-----------------------------------------------------------------------------
(* The steps of a deletion. *)

LEMMA KeptByRead ==
  ASSUME IInv, NEW h \in Handlers,
         ReadAccount(h) \/ CountHistory(h) \/ Refuse(h) \/ Die(h) \/ \E a \in Ids : Begin(h, a)
  PROVE  IInv'
<1>1. handler[h].pc # "idle" => handler[h].acc \in Ids \cap born
  BY DEF IInv, Progress
<1>2. CASE ReadAccount(h)
  BY <1>1, <1>2, Moved DEF ReadAccount, At
<1>3. CASE CountHistory(h)
  <2>. DEFINE history == \E i \in Posted : Touches(i, handler[h].acc)
  <2>1. ~history => Drained(handler[h].acc)
    BY DEF Drained, Live
  <2>2. Goto(h, At(IF history THEN "drain" ELSE "final", handler[h].acc, history))
    BY <1>3 DEF CountHistory
  <2>. QED  BY <1>1, <1>3, <2>1, <2>2, Moved DEF CountHistory, At
<1>4. CASE Refuse(h) \/ Die(h)
  BY <1>4, Moved DEF Refuse, Die, Idle
<1>5. ASSUME NEW a \in Ids, Begin(h, a) PROVE IInv'
  BY <1>5, Moved DEF Begin, At
<1>. QED  BY <1>2, <1>3, <1>4, <1>5

LEMMA KeptByDrain ==
  ASSUME IInv, NEW h \in Handlers, Drain(h)
  PROVE  IInv'
<1>. DEFINE a == handler[h].acc
<1>1. a \in Ids \cap born
  BY DEF Drain, IInv, Progress
<1>2. CASE Legs(a) = {}
  <2>1. Drained(a)
    BY <1>2 DEF Legs, Drained
  <2>2. Goto(h, At("final", a, TRUE)) /\ UNCHANGED <<ledger, acked>>
    BY <1>2 DEF Drain, ledger
  <2>. QED  BY <1>1, <2>1, <2>2, Moved DEF At
<1>3. CASE Legs(a) # {}
  <2>1. PICK S \in Chunks(a) : account' = Undone(S) /\ Tombstone(S)
    BY <1>3 DEF Drain
  <2>2. S \in SUBSET Live
    BY DEF Chunks
  <2>3. UNCHANGED <<born, late, handler, acked>>
    BY <1>3 DEF Drain
  <2>. QED  BY <2>1, <2>2, <2>3, UndoneKeepsRows, TombstoneKeepsMoves, Kept DEF IInv
<1>. QED  BY <1>2, <1>3

\* The account is closed only by a handler that has drained it.
LEMMA KeptByFinish ==
  ASSUME IInv, NEW h \in Handlers, Finish(h)
  PROVE  IInv'
<1>0. PICK a \in Ids : a = handler[h].acc
  BY DEF Finish, IInv, Progress
<1>1. /\ handler[h].pc = "final" /\ a \in born /\ Exists(a)
      /\ handler[h].history => Drained(a)
      /\ Shape(account[a])
  BY <1>0 DEF Finish, IInv, Progress, Types
<1>2. /\ UNCHANGED <<born, move, late, acked>>
      /\ handler' = [handler EXCEPT ![h] = At("record", a, FALSE)]
  BY <1>0 DEF Finish, Goto
<1>3. /\ account' = [b \in Ids |-> account'[b]]
      /\ \A b \in Ids \ {a} : account'[b] = account[b]
      /\ ~Writable(a)'
      /\ Exists(a)' => Shape(account'[a]) /\ handler[h].history
  <2>1. CASE handler[h].history
    <3>1. account' = [account EXCEPT ![a].deleted = TRUE, ![a].status = "closed", ![a].vals = <<>>]
      BY <1>0, <2>1 DEF Finish
    <3>2. account' = [account EXCEPT ![a] =
             [account[a] EXCEPT !.deleted = TRUE, !.status = "closed", !.vals = <<>>]]
      BY <1>1, <3>1 DEF IInv, Types
    <3>3. account'[a] = [account[a] EXCEPT !.deleted = TRUE, !.status = "closed", !.vals = <<>>]
      BY <1>1, <3>2 DEF IInv, Types
    <3>4. Shape(account'[a]) /\ account'[a].deleted = TRUE
      BY <1>1, <3>3 DEF Shape
    <3>. QED  BY <1>1, <2>1, <3>2, <3>4 DEF IInv, Types, Writable
  <2>2. CASE ~handler[h].history
    <3>1. account' = [account EXCEPT ![a] = Absent]
      BY <1>0, <2>2 DEF Finish
    <3>. QED  BY <1>1, <3>1 DEF IInv, Types, Writable, Exists
  <2>. QED  BY <2>1, <2>2
<1>4. /\ \A b \in Ids : Writable(b)' => Writable(b)
      /\ \A b \in Ids : b # a => (Exists(b)' <=> Exists(b)) /\ (Writable(b)' <=> Writable(b))
      /\ \A b \in Ids : Drained(b) => Drained(b)'
  BY <1>2, <1>3 DEF Writable, Exists, Drained, Live, Posted, Touches
<1>5. Types'
  BY <1>1, <1>2, <1>3 DEF IInv, Types, Exists, Posted
<1>6. Progress'
  <2>1. \A k \in Handlers : k # h => handler'[k] = handler[k]
    BY <1>2 DEF IInv, Types
  <2>2. handler'[h] = At("record", a, FALSE)
    BY <1>2 DEF IInv, Types
  <2>3. handler'[h].acc = a /\ handler'[h].pc = "record"
    BY <2>2, <1>0 DEF At
  <2>4. ~Writable(handler[h].acc)'
    BY <1>3, <2>3
  <2>5. ASSUME NEW k \in Handlers, k # h, handler[k].pc # "idle"
        PROVE  /\ handler[k].acc \in Ids \cap born
               /\ handler[k].pc = "record" => ~Writable(handler[k].acc)'
               /\ handler[k].pc = "final" /\ handler[k].history => Drained(handler[k].acc)'
    <3>1. /\ handler'[k].acc = handler[k].acc /\ handler[k].acc \in Ids \cap born
          /\ handler[k].pc = "record" => ~Writable(handler[k].acc)
          /\ handler[k].pc = "final" /\ handler[k].history => Drained(handler[k].acc)
      BY <2>1, <2>5 DEF IInv, Progress
    <3>. QED  BY <3>1, <1>4
  <2>. SUFFICES ASSUME NEW k \in Handlers, handler'[k].pc # "idle"
                PROVE  /\ handler'[k].acc \in Ids \cap born'
                       /\ handler'[k].pc = "record" => ~Writable(handler[k].acc)'
                       /\ handler'[k].pc = "final" /\ handler'[k].history
                            => Drained(handler[k].acc)'
    BY DEF Progress
  <2>6. CASE k = h
    <3>1. ~Writable(handler[k].acc)'
      BY <2>4, <2>6
    <3>2. handler'[k].acc = a
      BY <2>3, <2>6
    <3>3. handler'[k].pc = "record"
      BY <2>3, <2>6
    <3>4. a \in Ids \cap born'
      BY <1>1, <1>2
    <3>. QED  BY <3>1, <3>2, <3>3, <3>4
  <2>7. CASE k # h
    BY <1>2, <2>1, <2>5, <2>7
  <2>. QED  BY <2>6, <2>7
<1>7. Acked' /\ AcknowledgedStayGone'
  BY <1>2, <1>4 DEF IInv, Acked, AcknowledgedStayGone
<1>8. ClosedAccountIsDrained'
  BY <1>1, <1>3, <1>4 DEF IInv, ClosedAccountIsDrained, Drained
<1>. QED  BY <1>5, <1>6, <1>7, <1>8 DEF IInv

LEMMA KeptByRecord ==
  ASSUME IInv, NEW h \in Handlers, Record(h)
  PROVE  IInv'
<1>1. /\ handler[h].acc \in Ids \cap born /\ ~Writable(handler[h].acc)
      /\ acked' = acked \cup {handler[h].acc}
      /\ Goto(h, Idle) /\ UNCHANGED ledger
  BY DEF Record, IInv, Progress
<1>2. Types'
  BY <1>1 DEF IInv, Types, Goto, ledger, Exists, Posted
<1>3. \A k \in Handlers : handler'[k] = IF k = h THEN Idle ELSE handler[k]
  BY <1>1 DEF IInv, Types, Goto
<1>4. /\ \A a \in Ids : Writable(a)' <=> Writable(a)
      /\ \A a \in Ids : Exists(a)' <=> Exists(a)
      /\ \A a \in Ids : Drained(a) => Drained(a)'
  BY <1>1 DEF ledger, Writable, Exists, Drained, Live, Posted, Touches
<1>5. Progress'
  BY <1>1, <1>3, <1>4 DEF IInv, Progress, ledger, Idle
<1>6. Acked' /\ AcknowledgedStayGone'
  BY <1>1, <1>4 DEF IInv, Acked, AcknowledgedStayGone, ledger
<1>7. ClosedAccountIsDrained'
  BY <1>4 DEF IInv, ClosedAccountIsDrained, Drained
<1>. QED  BY <1>2, <1>5, <1>6, <1>7 DEF IInv

-----------------------------------------------------------------------------
(* Theorems. *)

LEMMA Initially == Init => IInv
<1>. SUFFICES ASSUME Init PROVE IInv
  OBVIOUS
<1>1. \A a \in Ids : ~Exists(a)
  BY DEF Init, Exists
<1>2. Types
  BY <1>1 DEF Init, Types, Posted
<1>. QED  BY <1>1, <1>2 DEF Init, IInv, Progress, Idle, Acked, AcknowledgedStayGone,
                            ClosedAccountIsDrained

LEMMA Inductive == IInv /\ [Next]_vars => IInv'
<1>. SUFFICES ASSUME IInv, [Next]_vars PROVE IInv'
  OBVIOUS
<1>1. CASE Calls
  BY <1>1, KeptByCreate, KeptByEdits, KeptByPost, KeptByDelete DEF Calls
<1>2. ASSUME NEW h \in Handlers, Step(h) \/ Die(h) \/ \E a \in Ids : Begin(h, a)
      PROVE  IInv'
  BY <1>2, KeptByRead, KeptByDrain, KeptByFinish, KeptByRecord DEF Step
<1>3. CASE UNCHANGED vars
  BY <1>3, SameRows, SameMoves, Kept DEF vars, IInv
<1>. QED  BY <1>1, <1>2, <1>3 DEF Next

LEMMA Always == Spec => []IInv
BY Initially, Inductive, PTL DEF Spec

\* However deletions overlap with one another, with new movements and with
\* crashes, an account they closed holds no live movement but late ones.
THEOREM ClosedAreDrained == Spec => []ClosedAccountIsDrained
<1>1. IInv => ClosedAccountIsDrained
  BY DEF IInv
<1>. QED  BY <1>1, Always, PTL

-----------------------------------------------------------------------------
(* The wizard: what a batch tells, and what is booked from it.              *)

Sequence(s) == \E T : s \in Seq(T)

\* A row as it is sent, and as it is staged.
SentRow(r) == r = [day |-> r.day, text |-> r.text, sum |-> r.sum, acc |-> r.acc]
StagedRow(r) ==
  r = [day |-> r.day, text |-> r.text, sum |-> r.sum, acc |-> r.acc,
       status |-> r.status, double |-> r.double]

\* The rows that were staged so far are the first of those that were read.
Begins(rows, whole) ==
  /\ Len(rows) <= Len(whole)
  /\ \A n \in 1..Len(rows) : Gist(rows[n]) = Gist(whole[n])

Batch(d, b) ==
  /\ b = [status |-> b.status, begun |-> b.begun, mixed |-> b.mixed, rows |-> b.rows]
  /\ b.mixed \in BOOLEAN
  /\ Sequence(b.rows) /\ \A n \in 1..Len(b.rows) : StagedRow(b.rows[n])
  /\ b.status \in {"none", "pending", "ready"}
  /\ b.status = "none" => b = Unstaged
  /\ b.status # "none" /\ ~b.mixed =>
       /\ Begins(b.rows, Staged(d, b.begun))
       /\ b.status = "ready" => Len(b.rows) = Len(Staged(d, b.begun))

BatchesSound ==
  /\ batches = [d \in Docs |-> batches[d]]
  /\ \A d \in Docs : Batch(d, batches[d])

\* What was fetched is behind what is.
Behind(seen, rows) ==
  /\ Sequence(seen) /\ Begins(seen, rows)
  /\ \A n \in 1..Len(seen) : seen[n].status = "promoted" => rows[n].status = "promoted"

CacheSound ==
  /\ cache = [d \in Docs |-> cache[d]]
  /\ \A d \in Docs : cache[d] # Nil => Behind(cache[d], batches[d].rows)

\* A decision is made on a row that shows.
ConfirmedShow ==
  \A d \in Docs : \A n \in 1..Len(batches[d].rows) :
    batches[d].rows[n].status = "confirmed" =>
      Behind(cache[d], batches[d].rows) /\ n \in 1..Len(cache[d])

PageSound ==
  /\ page = [step |-> page.step, doc |-> page.doc, form |-> page.form,
             shown |-> page.shown, ticks |-> page.ticks]
  /\ page.shown \in Docs \cup {Nil}
  /\ page.step # "upload" => page.doc \in Docs
  /\ call.pc \in {"stage", "insert"} => page.doc \in Docs

\* What the row said when it was ticked it says now.
ShowedTick(d, n) == <<d, n, Gist(batches[d].rows[n])>> \in ticked

Staging ==
  /\ call = [pc |-> "stage", doc |-> call.doc, form |-> call.form, rows |-> call.rows]
  /\ call.doc \in Docs /\ call.rows = Staged(call.doc, call.form)

Inserting ==
  LET b == batches[call.doc] IN
  /\ call = [pc |-> "insert", doc |-> call.doc, rows |-> call.rows,
             verdicts |-> call.verdicts, next |-> call.next]
  /\ call.doc \in Docs
  /\ Sequence(call.rows) /\ \A n \in 1..Len(call.rows) : SentRow(call.rows[n])
  /\ \A n \in 1..Len(call.rows) : call.verdicts[n] \in {"duplicate", "normalized"}
  /\ call.next = Len(b.rows) /\ call.next <= Len(call.rows)
  /\ b.status = "pending" /\ (~b.mixed => call.rows = Staged(call.doc, b.begun))

Deciding ==
  LET rows == batches[call.doc].rows IN
  /\ call = [pc |-> "decide", doc |-> call.doc, decisions |-> call.decisions]
  /\ call.doc \in Docs /\ Behind(cache[call.doc], rows)
  /\ DOMAIN call.decisions \subseteq 1..Len(cache[call.doc])
  /\ \A n \in 1..Len(rows) : rows[n].status = "confirmed" => n \in DOMAIN call.decisions
  /\ \A n \in DOMAIN call.decisions : call.decisions[n] => ShowedTick(call.doc, n)

Promoting ==
  LET rows == batches[call.doc].rows IN
  /\ call = [pc |-> "promote", doc |-> call.doc]
  /\ call.doc \in Docs
  /\ \A n \in 1..Len(rows) : rows[n].status = "confirmed" => ShowedTick(call.doc, n)

CallSound == call = NoCall \/ Staging \/ Inserting \/ Deciding \/ Promoting

\* A row that is booked is promoted, and booked once.
BookedSound ==
  /\ Sequence(booked)
  /\ \A i \in 1..Len(booked) : \E d \in Docs : \E n \in 1..Len(batches[d].rows) :
       booked[i].row = <<d, n>> /\ batches[d].rows[n].status = "promoted"
  /\ \A i, j \in 1..Len(booked) : booked[i].row = booked[j].row => i = j

WizardInv == BatchesSound /\ CacheSound /\ ConfirmedShow /\ PageSound /\ CallSound /\ BookedSound

LEMMA SequenceFacts ==
  ASSUME NEW s, Sequence(s)
  PROVE  Len(s) \in Nat /\ DOMAIN s = 1..Len(s) /\ s = [n \in 1..Len(s) |-> s[n]]
BY LenProperties DEF Sequence

LEMMA MakesSequence ==
  ASSUME NEW n \in Nat, NEW s, s = [k \in 1..n |-> s[k]]
  PROVE  Sequence(s) /\ Len(s) = n
<1>. DEFINE T == {s[k] : k \in 1..n}
<1>1. s \in [1..n -> T]
  OBVIOUS
<1>2. s \in Seq(T)
  BY <1>1, SeqDef
<1>3. DOMAIN s = 1..n /\ DOMAIN s = 1..Len(s) /\ Len(s) \in Nat
  BY <1>1, <1>2, LenProperties
<1>. QED  BY <1>2, <1>3 DEF Sequence

LEMMA SequencesJoin ==
  ASSUME NEW s, Sequence(s), NEW t, Sequence(t)
  PROVE  /\ Sequence(s \o t) /\ Len(s \o t) = Len(s) + Len(t)
         /\ \A n \in 1..Len(s \o t) : (s \o t)[n] = IF n <= Len(s) THEN s[n] ELSE t[n - Len(s)]
<1>1. PICK S : s \in Seq(S)
  BY DEF Sequence
<1>2. PICK T : t \in Seq(T)
  BY DEF Sequence
<1>3. s \in Seq(S \cup T) /\ t \in Seq(S \cup T)
  BY <1>1, <1>2, SeqMonotonic
<1>. QED  BY <1>3, ConcatProperties, Zenon DEF Sequence

\* What can be read of a file is a sequence.
LEMMA LegibleFacts ==
  ASSUME NEW rows, DOMAIN rows \subseteq Nat, IsFiniteSet(DOMAIN rows)
  PROVE  /\ Sequence(Legible(rows))
         /\ \A k \in 1..Len(Legible(rows)) :
              \E i \in DOMAIN rows : Legible(rows)[k] = rows[i] /\ rows[i] # Nil
<1>. DEFINE S == {i \in DOMAIN rows : rows[i] # Nil}
            kept == InOrder(S)
            s == [k \in DOMAIN kept |-> rows[kept[k]]]
<1>1. S \in SUBSET Int /\ IsFiniteSet(S)
  BY FS_Subset
<1>2. Cardinality(S) \in Nat /\ kept \in [1..Cardinality(S) -> S]
  BY <1>1, InOrderIsBijection
<1>3. s = [k \in 1..Cardinality(S) |-> s[k]] /\ Legible(rows) = s
  BY <1>2 DEF Legible
<1>4. Sequence(s) /\ Len(s) = Cardinality(S)
  BY <1>2, <1>3, MakesSequence, Zenon
<1>. QED  BY <1>2, <1>3, <1>4

LEMMA ReadRow ==
  ASSUME NEW row, NEW m, NEW places, MapRow(row, m, places) # Nil
  PROVE  LET r == MapRow(row, m, places) IN r = [day |-> r.day, text |-> r.text, sum |-> r.sum]
BY Zenon DEF MapRow, RowOf

LEMMA ReadRecord ==
  ASSUME NEW row, NEW format, NEW places, MapRecord(row, format, places) # Nil
  PROVE  LET r == MapRecord(row, format, places) IN r = [day |-> r.day, text |-> r.text, sum |-> r.sum]
BY ReadRow, Zenon DEF MapRecord

LEMMA ReadingFacts ==
  ASSUME NEW d \in Docs, NEW form
  PROVE  /\ Sequence(Reading(d, form))
         /\ \A k \in 1..Len(Reading(d, form)) :
              LET r == Reading(d, form)[k] IN r = [day |-> r.day, text |-> r.text, sum |-> r.sum]
<1>. DEFINE file == Documents[d]
            places == Places[form.target]
            m == MappingOf(d, form)
            rows == [i \in DOMAIN file.rows |->
                       IF file.kind = "qif" THEN MapRecord(file.rows[i], m, places)
                       ELSE MapRow(file.rows[i], m, places)]
<1>1. DOMAIN rows \subseteq Nat /\ IsFiniteSet(DOMAIN rows)
  BY WizardAssumption DEF Docs
<1>2. Reading(d, form) = Legible(rows)
  BY DEF Reading, ReadAs
<1>3. ASSUME NEW i \in DOMAIN rows, rows[i] # Nil
      PROVE  rows[i] = [day |-> rows[i].day, text |-> rows[i].text, sum |-> rows[i].sum]
  <2>1. CASE file.kind = "qif"
    BY <1>3, <2>1, ReadRecord
  <2>2. CASE file.kind # "qif"
    BY <1>3, <2>2, ReadRow
  <2>. QED  BY <2>1, <2>2
<1>. HIDE DEF rows
<1>. QED  BY <1>1, <1>2, <1>3, LegibleFacts

LEMMA StagedFacts ==
  ASSUME NEW d \in Docs, NEW form
  PROVE  /\ Sequence(Staged(d, form)) /\ Len(Staged(d, form)) = Len(Reading(d, form))
         /\ \A n \in 1..Len(Staged(d, form)) :
              LET r == Staged(d, form)[n] IN
              /\ SentRow(r)
              /\ r.day = Reading(d, form)[n].day /\ r.sum = Reading(d, form)[n].sum
<1>. DEFINE read == Reading(d, form)
            s == Staged(d, form)
<1>1. /\ Sequence(read)
      /\ \A k \in 1..Len(read) : read[k] = [day |-> read[k].day, text |-> read[k].text, sum |-> read[k].sum]
  BY ReadingFacts
<1>2. Len(read) \in Nat /\ DOMAIN read = 1..Len(read)
  BY <1>1, SequenceFacts
<1>3. s = [i \in 1..Len(read) |->
             [day |-> read[i].day, text |-> read[i].text, sum |-> read[i].sum, acc |-> form.target]]
  BY <1>2 DEF Staged
<1>. HIDE DEF read, s
<1>4. s = [i \in 1..Len(read) |-> s[i]]
  BY <1>3
<1>5. Sequence(s) /\ Len(s) = Len(read)
  BY <1>2, <1>4, MakesSequence
<1>6. ASSUME NEW n \in 1..Len(read)
      PROVE  SentRow(s[n]) /\ s[n].day = read[n].day /\ s[n].sum = read[n].sum
  BY <1>3, <1>6 DEF SentRow
<1>. QED  BY <1>5, <1>6 DEF read, s

\* A row that is staged says what it said when it was sent.
LEMMA RowEntered ==
  ASSUME NEW r, NEW verdict
  PROVE  LET new == Entered(r, verdict) IN
         StagedRow(new) /\ Gist(new) = Gist(r) /\ new.status = verdict
BY DEF Entered, StagedRow, Gist

LEMMA StatusSet ==
  ASSUME NEW r, StagedRow(r), NEW status
  PROVE  LET new == [r EXCEPT !.status = status] IN
         StagedRow(new) /\ Gist(new) = Gist(r) /\ new.status = status
BY DEF StagedRow, Gist

-----------------------------------------------------------------------------
(* The steps that change the page only. *)

LEMMA PageOnly ==
  ASSUME WizardInv, PageSound', UNCHANGED <<cache, call, batches, booked, ticked>>
  PROVE  WizardInv'
<1>1. BatchesSound' /\ CacheSound' /\ ConfirmedShow'
  BY DEF WizardInv, BatchesSound, Batch, CacheSound, ConfirmedShow, Behind
<1>2. CallSound'
  BY DEF WizardInv, CallSound, Staging, Inserting, Deciding, Promoting, ShowedTick
<1>3. BookedSound'
  BY DEF WizardInv, BookedSound
<1>. QED  BY <1>1, <1>2, <1>3 DEF WizardInv

LEMMA UploadKeeps == ASSUME WizardInv, NEW d \in Docs, Upload(d) PROVE WizardInv'
<1>1. PageSound'
  BY DEF WizardInv, PageSound, Upload, Other
<1>. QED  BY <1>1, PageOnly DEF Upload, Other

LEMMA EditsKeep ==
  ASSUME WizardInv,
         \/ \E p \in Presets : PickPreset(p)
         \/ \E a \in Accounts : PickTarget(a)
         \/ \E f \in Formats : PickFormat(f)
         \/ PickColumns
  PROVE  WizardInv'
<1>1. UNCHANGED <<cache, call, batches, booked, ticked>>
  BY DEF PickPreset, PickTarget, PickFormat, PickColumns, Edit, Other
<1>2. \E f : page' = [page EXCEPT !.form = f]
  <2>1. ASSUME NEW p \in Presets, PickPreset(p) PROVE \E f : page' = [page EXCEPT !.form = f]
    BY <2>1 DEF PickPreset
  <2>2. ASSUME NEW a \in Accounts, PickTarget(a) PROVE \E f : page' = [page EXCEPT !.form = f]
    BY <2>2 DEF PickTarget
  <2>3. ASSUME NEW x \in Formats, PickFormat(x) PROVE \E f : page' = [page EXCEPT !.form = f]
    BY <2>3 DEF PickFormat
  <2>4. ASSUME PickColumns PROVE \E f : page' = [page EXCEPT !.form = f]
    BY <2>4 DEF PickColumns
  <2>. QED  BY <2>1, <2>2, <2>3, <2>4
<1>3. PageSound'
  BY <1>1, <1>2 DEF WizardInv, PageSound
<1>. QED  BY <1>1, <1>3, PageOnly

LEMMA MovesKeep == ASSUME WizardInv, Back \/ Leave PROVE WizardInv'
<1>1. UNCHANGED <<cache, call, batches, booked, ticked>>
  BY DEF Back, Leave, Other
<1>2. PageSound'
  BY <1>1 DEF WizardInv, PageSound, Back, Leave, NewPage
<1>. QED  BY <1>1, <1>2, PageOnly

LEMMA ToggleKeeps == ASSUME WizardInv, NEW n, Toggle(n) PROVE WizardInv'
<1>1. UNCHANGED <<cache, call, batches, booked, ticked>>
  BY DEF Toggle
<1>2. PageSound'
  BY <1>1 DEF WizardInv, PageSound, Toggle
<1>. QED  BY <1>1, <1>2, PageOnly

-----------------------------------------------------------------------------
(* The calls. *)

\* The rows of a batch are added to, and what was promoted stays so.
Later(old, new) ==
  /\ Begins(old, new)
  /\ \A n \in 1..Len(old) : old[n].status = "promoted" => new[n].status = "promoted"

LEMMA BatchFacts ==
  ASSUME WizardInv, NEW d \in Docs
  PROVE  /\ Batch(d, batches[d]) /\ Sequence(batches[d].rows) /\ Len(batches[d].rows) \in Nat
         /\ DOMAIN batches[d].rows = 1..Len(batches[d].rows)
         /\ Later(batches[d].rows, batches[d].rows)
<1>1. Batch(d, batches[d]) /\ Sequence(batches[d].rows)
  BY DEF WizardInv, BatchesSound, Batch
<1>2. Len(batches[d].rows) \in Nat /\ DOMAIN batches[d].rows = 1..Len(batches[d].rows)
  BY <1>1, SequenceFacts
<1>3. Later(batches[d].rows, batches[d].rows)
  BY <1>2 DEF Later, Begins
<1>. QED  BY <1>1, <1>2, <1>3

LEMMA BehindLater ==
  ASSUME NEW seen, NEW old, NEW new, Behind(seen, old), Later(old, new), Len(old) \in Nat, Len(new) \in Nat
  PROVE  Behind(seen, new)
<1>1. Len(seen) \in Nat
  BY SequenceFacts DEF Behind
<1>2. Len(seen) <= Len(new)
  BY <1>1 DEF Behind, Begins, Later
<1>3. \A n \in 1..Len(seen) : n \in 1..Len(old)
  BY <1>1 DEF Behind, Begins
<1>. QED  BY <1>2, <1>3 DEF Behind, Begins, Later

LEMMA BatchChanges ==
  ASSUME WizardInv, NEW d \in Docs, NEW b, Batch(d, b), Later(batches[d].rows, b.rows),
         batches' = [batches EXCEPT ![d] = b]
  PROVE  /\ BatchesSound'
         /\ \A e \in Docs : /\ batches'[e] = (IF e = d THEN b ELSE batches[e])
                            /\ Later(batches[e].rows, batches'[e].rows)
                            /\ Len(batches[e].rows) \in Nat /\ Len(batches'[e].rows) \in Nat
<1>1. \A e \in Docs : batches'[e] = IF e = d THEN b ELSE batches[e]
  BY DEF WizardInv, BatchesSound
<1>2. BatchesSound'
  BY <1>1 DEF WizardInv, BatchesSound, Batch
<1>3. \A e \in Docs : Batch(e, batches[e]) /\ Len(batches[e].rows) \in Nat /\ Later(batches[e].rows, batches[e].rows)
  BY BatchFacts
<1>4. Len(b.rows) \in Nat
  BY SequenceFacts DEF Batch
<1>. QED  BY <1>1, <1>2, <1>3, <1>4

LEMMA CacheStays ==
  ASSUME WizardInv, cache' = cache,
         \A e \in Docs : /\ Later(batches[e].rows, batches'[e].rows)
                         /\ Len(batches[e].rows) \in Nat /\ Len(batches'[e].rows) \in Nat
  PROVE  CacheSound'
BY BehindLater DEF WizardInv, CacheSound

LEMMA BookedStays ==
  ASSUME WizardInv, booked' = booked,
         \A e \in Docs : /\ Later(batches[e].rows, batches'[e].rows)
                         /\ Len(batches[e].rows) \in Nat /\ Len(batches'[e].rows) \in Nat
  PROVE  BookedSound'
<1>1. \A e \in Docs : \A n \in 1..Len(batches[e].rows) :
        /\ n \in 1..Len(batches'[e].rows)
        /\ (batches[e].rows[n].status = "promoted") => (batches'[e].rows[n].status = "promoted")
  BY DEF Later, Begins
<1>. QED  BY <1>1 DEF WizardInv, BookedSound

LEMMA TablesStay ==
  ASSUME WizardInv, UNCHANGED <<cache, batches, booked>>
  PROVE  BatchesSound' /\ CacheSound' /\ ConfirmedShow' /\ BookedSound'
BY DEF WizardInv, BatchesSound, CacheSound, ConfirmedShow, BookedSound, Batch, Behind

LEMMA PressStageKeeps == ASSUME WizardInv, PressStage PROVE WizardInv'
<1>1. BatchesSound' /\ CacheSound' /\ ConfirmedShow' /\ BookedSound'
  BY TablesStay DEF PressStage
<1>2. page.doc \in Docs
  BY DEF WizardInv, PageSound, PressStage
<1>3. PageSound'
  BY <1>2 DEF WizardInv, PageSound, PressStage
<1>4. Staging'
  BY <1>2 DEF PressStage, Staging
<1>. QED  BY <1>1, <1>3, <1>4 DEF WizardInv, CallSound

LEMMA CallKind ==
  ASSUME WizardInv
  PROVE  /\ call.pc = "stage" => Staging
         /\ call.pc = "insert" => Inserting
         /\ call.pc = "decide" => Deciding
         /\ call.pc = "promote" => Promoting
<1>1. /\ call = NoCall => call.pc = "none"
      /\ Staging => call.pc = "stage"
      /\ Inserting => call.pc = "insert"
      /\ Deciding => call.pc = "decide"
      /\ Promoting => call.pc = "promote"
  <2>1. call = NoCall => call.pc = "none"
    BY DEF NoCall
  <2>2. Staging => call.pc = "stage"
    BY DEF Staging
  <2>3. Inserting => call.pc = "insert"
    BY DEF Inserting
  <2>4. Deciding => call.pc = "decide"
    BY DEF Deciding
  <2>5. Promoting => call.pc = "promote"
    BY DEF Promoting
  <2>. QED  BY <2>1, <2>2, <2>3, <2>4, <2>5
<1>. QED  BY <1>1 DEF WizardInv, CallSound

LEMMA ShowKeeps ==
  ASSUME WizardInv, NEW d \in Docs, Show(d), call.pc \in {"stage", "insert"}, call' = NoCall
  PROVE  PageSound'
BY DEF WizardInv, PageSound, Show, NoCall

LEMMA AlreadyStagedKeeps == ASSUME WizardInv, AlreadyStaged PROVE WizardInv'
<1>1. BatchesSound' /\ CacheSound' /\ ConfirmedShow' /\ BookedSound'
  BY TablesStay DEF AlreadyStaged
<1>2. call.doc \in Docs
  BY CallKind DEF AlreadyStaged, Staging
<1>3. PageSound'
  BY <1>2, ShowKeeps DEF AlreadyStaged
<1>. QED  BY <1>1, <1>3 DEF WizardInv, CallSound, AlreadyStaged

LEMMA FailKeeps == ASSUME WizardInv, Fail PROVE WizardInv'
<1>1. BatchesSound' /\ CacheSound' /\ ConfirmedShow' /\ BookedSound'
  BY TablesStay DEF Fail
<1>2. PageSound'
  BY DEF WizardInv, PageSound, Fail, NoCall
<1>. QED  BY <1>1, <1>2 DEF WizardInv, CallSound, Fail

LEMMA PressPromoteKeeps == ASSUME WizardInv, PressPromote PROVE WizardInv'
<1>1. BatchesSound' /\ CacheSound' /\ ConfirmedShow' /\ BookedSound'
  BY TablesStay DEF PressPromote
<1>2. PageSound'
  BY DEF WizardInv, PageSound, PressPromote, NoCall
<1>. DEFINE d == page.shown
            rows == batches[d].rows
<1>3. d \in Docs /\ Behind(cache[d], rows)
  BY DEF WizardInv, PageSound, CacheSound, PressPromote, Reviewing
<1>4. Len(cache[d]) \in Nat /\ DOMAIN cache[d] = 1..Len(cache[d])
  BY <1>3, SequenceFacts DEF Behind
<1>5. DOMAIN Decisions = Decidable /\ Decidable \subseteq 1..Len(cache[d])
  BY <1>4 DEF Decisions, Decidable
<1>6. ASSUME NEW n \in 1..Len(rows), rows[n].status = "confirmed" PROVE n \in Decidable
  <2>1. n \in 1..Len(cache[d])
    BY <1>3, <1>6 DEF WizardInv, ConfirmedShow
  <2>2. cache[d][n].status # "promoted"
    BY <1>3, <1>6, <2>1 DEF Behind
  <2>. QED  BY <1>4, <2>1, <2>2 DEF Decidable
<1>7. ASSUME NEW n \in Decidable, Decisions[n] PROVE <<d, n, Gist(rows[n])>> \in ticked'
  <2>1. TickedRow(n)
    BY <1>7 DEF Decisions
  <2>2. ShownRow(n) \in ticked'
    BY <1>7, <2>1 DEF PressPromote
  <2>3. Gist(cache[d][n]) = Gist(rows[n])
    BY <1>3, <1>5, <1>7 DEF Behind, Begins
  <2>. QED  BY <2>2, <2>3 DEF ShownRow
<1>8. Deciding'
  <2>1. call' = [pc |-> "decide", doc |-> d, decisions |-> Decisions] /\ batches' = batches /\ cache' = cache
    BY DEF PressPromote
  <2>2. call'.doc = d /\ call'.decisions = Decisions
    BY <2>1
  <2>. HIDE DEF d
  <2>. QED  BY <1>3, <1>5, <1>6, <1>7, <2>1, <2>2 DEF Deciding, ShowedTick, Behind
<1>. QED  BY <1>1, <1>2, <1>8 DEF WizardInv, CallSound

LEMMA FetchKeeps == ASSUME WizardInv, Fetch PROVE WizardInv'
<1>. DEFINE d == page.shown
            rows == batches[d].rows
<1>1. d \in Docs
  BY DEF WizardInv, PageSound, Fetch
<1>2. Behind(rows, rows)
  BY <1>1, BatchFacts DEF Behind, Later
<1>3. \A e \in Docs : cache'[e] = IF e = d THEN rows ELSE cache[e]
  BY DEF WizardInv, CacheSound, Fetch
<1>4. CacheSound'
  BY <1>2, <1>3 DEF WizardInv, CacheSound, Fetch
<1>5. ConfirmedShow'
  BY <1>2, <1>3 DEF WizardInv, ConfirmedShow, Fetch
<1>6. CallSound'
  <2>1. Deciding => Deciding'
    <3>1. SUFFICES ASSUME Deciding PROVE Deciding'
      OBVIOUS
    <3>2. Behind(cache'[call.doc], batches[call.doc].rows)
      BY <1>2, <1>3, <3>1 DEF Deciding
    <3>3. Len(cache[call.doc]) \in Nat /\ Len(cache[call.doc]) <= Len(cache'[call.doc]) /\ Len(cache'[call.doc]) \in Nat
      BY <1>2, <1>3, <3>1, <3>2, SequenceFacts DEF Deciding, Behind, Begins
    <3>4. DOMAIN call.decisions \subseteq 1..Len(cache'[call.doc])
      BY <3>1, <3>3 DEF Deciding
    <3>. QED  BY <3>1, <3>2, <3>4 DEF Deciding, ShowedTick, Fetch, Behind
  <2>. QED  BY <2>1 DEF WizardInv, CallSound, Staging, Inserting, Promoting, ShowedTick, Fetch
<1>7. BatchesSound' /\ PageSound' /\ BookedSound'
  BY DEF WizardInv, BatchesSound, Batch, PageSound, BookedSound, Fetch
<1>. QED  BY <1>4, <1>5, <1>6, <1>7 DEF WizardInv

LEMMA BeginStagingKeeps == ASSUME WizardInv, BeginStaging PROVE WizardInv'
<1>. DEFINE d == call.doc
            b == batches[d]
            new == IF b = Unstaged THEN [b EXCEPT !.status = "pending", !.begun = call.form]
                   ELSE [b EXCEPT !.mixed = @ \/ Staged(d, b.begun) # call.rows]
<1>1. Staging /\ d \in Docs /\ call.rows = Staged(d, call.form)
  BY CallKind DEF BeginStaging, Staging
<1>2. Batch(d, b) /\ Len(b.rows) \in Nat /\ Later(b.rows, b.rows)
  BY <1>1, BatchFacts
<1>3. Sequence(call.rows) /\ \A n \in 1..Len(call.rows) : SentRow(call.rows[n])
  BY <1>1, StagedFacts
<1>4. new.rows = b.rows /\ new.status = "pending"
  BY <1>2 DEF Batch, Unstaged, BeginStaging
<1>5. ~new.mixed => Begins(b.rows, Staged(d, new.begun)) /\ call.rows = Staged(d, new.begun)
  <2>1. CASE b = Unstaged
    <3>1. new.begun = call.form /\ b.rows = <<>> /\ Len(<<>>) = 0
      BY <2>1 DEF Unstaged
    <3>2. Len(call.rows) \in Nat
      BY <1>3, SequenceFacts
    <3>. QED  BY <1>1, <3>1, <3>2 DEF Begins
  <2>2. CASE b # Unstaged
    BY <1>2, <2>2 DEF Batch, BeginStaging, Unstaged
  <2>. QED  BY <2>1, <2>2
<1>6. Batch(d, new)
  <2>1. new = [status |-> new.status, begun |-> new.begun, mixed |-> new.mixed, rows |-> new.rows] /\ new.mixed \in BOOLEAN
    BY <1>2 DEF Batch
  <2>. HIDE DEF new
  <2>. QED  BY <1>2, <1>4, <1>5, <2>1 DEF Batch
<1>7. batches' = [batches EXCEPT ![d] = new] /\ Later(b.rows, new.rows)
  BY <1>2, <1>4 DEF BeginStaging
<1>. HIDE DEF new
<1>8. /\ BatchesSound'
      /\ \A e \in Docs : /\ batches'[e] = (IF e = d THEN new ELSE batches[e])
                         /\ Later(batches[e].rows, batches'[e].rows)
                         /\ Len(batches[e].rows) \in Nat /\ Len(batches'[e].rows) \in Nat
  BY <1>1, <1>6, <1>7, BatchChanges
<1>9. CacheSound' /\ BookedSound'
  BY <1>8, CacheStays, BookedStays DEF BeginStaging
<1>10. ConfirmedShow'
  BY <1>4, <1>8 DEF WizardInv, ConfirmedShow, BeginStaging, Behind
<1>11. PageSound'
  BY <1>1 DEF WizardInv, PageSound, BeginStaging, Staging
<1>12. Inserting'
  <2>1. call' = [pc |-> "insert", doc |-> d, rows |-> call.rows, verdicts |-> Classified(call.rows), next |-> Len(b.rows)]
    BY DEF BeginStaging
  <2>2. \A n \in 1..Len(call.rows) : Classified(call.rows)[n] \in {"duplicate", "normalized"}
    BY <1>3, SequenceFacts DEF Classified
  <2>3. batches'[d] = new /\ Len(b.rows) <= Len(call.rows)
    BY <1>1, <1>8 DEF BeginStaging
  <2>. HIDE DEF d
  <2>. QED  BY <1>1, <1>3, <1>4, <1>5, <2>1, <2>2, <2>3 DEF Inserting
<1>. QED  BY <1>8, <1>9, <1>10, <1>11, <1>12 DEF WizardInv, CallSound

LEMMA EndStagingKeeps == ASSUME WizardInv, NEW lost \in BOOLEAN, EndStaging(lost) PROVE WizardInv'
<1>. DEFINE d == call.doc
            b == batches[d]
            new == [b EXCEPT !.status = "ready"]
<1>1. Inserting /\ d \in Docs
  BY CallKind DEF EndStaging, Inserting
<1>2. Batch(d, b) /\ Len(b.rows) \in Nat /\ Later(b.rows, b.rows) /\ Len(call.rows) \in Nat
  BY <1>1, BatchFacts, SequenceFacts DEF Inserting
<1>3. Len(b.rows) = Len(call.rows)
  BY <1>1, <1>2 DEF Inserting, EndStaging
<1>4. new.rows = b.rows /\ new.status = "ready" /\ new.mixed = b.mixed /\ new.begun = b.begun
  BY <1>2 DEF Batch
<1>5. Batch(d, new)
  <2>1. new = [status |-> new.status, begun |-> new.begun, mixed |-> new.mixed, rows |-> new.rows]
    BY <1>2 DEF Batch
  <2>2. ~b.mixed => call.rows = Staged(d, b.begun) /\ Begins(b.rows, Staged(d, b.begun))
    BY <1>1, <1>2 DEF Inserting, Batch
  <2>. HIDE DEF new
  <2>. QED  BY <1>2, <1>3, <1>4, <2>1, <2>2 DEF Batch
<1>6. batches' = [batches EXCEPT ![d] = new] /\ Later(b.rows, new.rows)
  BY <1>2, <1>4 DEF EndStaging
<1>. HIDE DEF new
<1>7. /\ BatchesSound'
      /\ \A e \in Docs : /\ batches'[e] = (IF e = d THEN new ELSE batches[e])
                         /\ Later(batches[e].rows, batches'[e].rows)
                         /\ Len(batches[e].rows) \in Nat /\ Len(batches'[e].rows) \in Nat
  BY <1>1, <1>5, <1>6, BatchChanges
<1>8. CacheSound' /\ BookedSound'
  BY <1>7, CacheStays, BookedStays DEF EndStaging
<1>9. ConfirmedShow'
  BY <1>4, <1>7 DEF WizardInv, ConfirmedShow, EndStaging, Behind
<1>10. PageSound'
  <2>1. call' = NoCall
    BY DEF EndStaging
  <2>2. CASE lost
    BY <2>1, <2>2 DEF WizardInv, PageSound, EndStaging, NoCall
  <2>3. CASE ~lost
    BY <1>1, <2>1, <2>3, ShowKeeps DEF EndStaging
  <2>. QED  BY <2>2, <2>3
<1>. QED  BY <1>7, <1>8, <1>9, <1>10 DEF WizardInv, CallSound, EndStaging

LEMMA RowsSet ==
  ASSUME NEW b, b = [status |-> b.status, begun |-> b.begun, mixed |-> b.mixed, rows |-> b.rows], NEW rows
  PROVE  LET new == [b EXCEPT !.rows = rows] IN
         /\ new.status = b.status /\ new.begun = b.begun /\ new.mixed = b.mixed
         /\ new = [status |-> new.status, begun |-> new.begun, mixed |-> new.mixed, rows |-> new.rows]
         /\ new.rows = rows
OBVIOUS

LEMMA InsertPieceKeeps == ASSUME WizardInv, InsertPiece PROVE WizardInv'
<1>. DEFINE d == call.doc
            b == batches[d]
            last == IF call.next + Piece < Len(call.rows) THEN call.next + Piece ELSE Len(call.rows)
            k == last - call.next
            piece == [i \in 1..k |-> Entered(call.rows[call.next + i], call.verdicts[call.next + i])]
            new == [b EXCEPT !.rows = b.rows \o piece]
<1>1. Inserting /\ d \in Docs
  BY CallKind DEF InsertPiece, Inserting
<1>2. Batch(d, b) /\ Sequence(b.rows) /\ Len(b.rows) \in Nat
  BY <1>1, BatchFacts
<1>3. /\ Len(call.rows) \in Nat /\ \A n \in 1..Len(call.rows) : SentRow(call.rows[n])
      /\ \A n \in 1..Len(call.rows) : call.verdicts[n] \in {"duplicate", "normalized"}
      /\ call.next = Len(b.rows) /\ call.next < Len(call.rows)
      /\ b.status = "pending" /\ (~b.mixed => call.rows = Staged(d, b.begun))
  BY <1>1, SequenceFacts DEF Inserting, InsertPiece
<1>4. k \in Nat /\ last \in Nat /\ last <= Len(call.rows) /\ call.next + k = last
  <2>1. Piece \in Nat \ {0}
    BY WizardAssumption
  <2>. QED  BY <1>2, <1>3, <2>1
<1>5. Sequence(piece) /\ Len(piece) = k
  <2>1. piece = [i \in 1..k |-> piece[i]]
    OBVIOUS
  <2>. HIDE DEF piece, k
  <2>. QED  BY <1>4, <2>1, MakesSequence
<1>6. ASSUME NEW i \in 1..k
      PROVE  /\ call.next + i \in 1..Len(call.rows)
             /\ StagedRow(piece[i]) /\ Gist(piece[i]) = Gist(call.rows[call.next + i])
             /\ piece[i].status \in {"duplicate", "normalized"}
  <2>1. call.next + i \in 1..Len(call.rows)
    BY <1>2, <1>3, <1>4
  <2>2. piece[i] = Entered(call.rows[call.next + i], call.verdicts[call.next + i])
    OBVIOUS
  <2>. HIDE DEF piece
  <2>. QED  BY <1>3, <2>1, <2>2, RowEntered
<1>7. /\ new.status = b.status /\ new.begun = b.begun /\ new.mixed = b.mixed
      /\ new = [status |-> new.status, begun |-> new.begun, mixed |-> new.mixed, rows |-> new.rows]
      /\ new.rows = b.rows \o piece
  <2>1. b = [status |-> b.status, begun |-> b.begun, mixed |-> b.mixed, rows |-> b.rows]
    BY <1>2 DEF Batch
  <2>. QED  BY <2>1, RowsSet, Zenon
<1>8. batches' = [batches EXCEPT ![d] = new]
  BY DEF InsertPiece
<1>9. call' = [call EXCEPT !.next = last] /\ UNCHANGED <<page, cache, booked, ticked>>
  BY DEF InsertPiece
<1>. HIDE DEF new, piece, k, last
<1>10. /\ Sequence(new.rows) /\ Len(new.rows) = last
       /\ \A n \in 1..last : new.rows[n] = IF n <= call.next THEN b.rows[n] ELSE piece[n - call.next]
  <2>. HIDE DEF b, d
  <2>1. /\ Sequence(new.rows) /\ Len(new.rows) = Len(b.rows) + k
        /\ \A n \in 1..Len(new.rows) : new.rows[n] = IF n <= Len(b.rows) THEN b.rows[n] ELSE piece[n - Len(b.rows)]
    BY <1>2, <1>5, <1>7, SequencesJoin
  <2>. QED  BY <1>3, <1>4, <2>1
<1>11. \A n \in 1..last : n > call.next => n - call.next \in 1..k /\ call.next + (n - call.next) = n
  <2>1. \A next, m \in Nat : next + m = last =>
          \A n \in 1..last : n > next => n - next \in 1..m /\ next + (n - next) = n
    BY <1>4
  <2>2. call.next \in Nat
    BY <1>2, <1>3
  <2>. QED  BY <1>4, <2>1, <2>2
<1>12. \A n \in 1..last :
         /\ StagedRow(new.rows[n])
         /\ n > call.next => /\ Gist(new.rows[n]) = Gist(call.rows[n])
                             /\ new.rows[n].status \in {"duplicate", "normalized"}
  <2>1. ASSUME NEW n \in 1..last, n > call.next
        PROVE  /\ StagedRow(new.rows[n]) /\ Gist(new.rows[n]) = Gist(call.rows[n])
               /\ new.rows[n].status \in {"duplicate", "normalized"}
    <3>1. n - call.next \in 1..k /\ call.next + (n - call.next) = n
      BY <1>11, <2>1
    <3>2. call.next \in Nat /\ n \in Nat /\ ~(n <= call.next)
      BY <1>2, <1>3, <1>4, <2>1
    <3>3. new.rows[n] = piece[n - call.next]
      BY <1>10, <3>2
    <3>. QED  BY <1>6, <3>1, <3>3
  <2>2. ASSUME NEW n \in 1..last, n <= call.next PROVE StagedRow(new.rows[n])
    BY <1>2, <1>3, <1>10, <2>2 DEF Batch
  <2>. QED  BY <1>2, <1>3, <1>4, <2>1, <2>2
<1>13. Later(b.rows, new.rows)
  BY <1>2, <1>3, <1>4, <1>10 DEF Later, Begins
<1>14. ~new.mixed => Begins(new.rows, Staged(d, new.begun)) /\ call.rows = Staged(d, new.begun)
  <2>1. SUFFICES ASSUME ~new.mixed PROVE Begins(new.rows, call.rows) /\ call.rows = Staged(d, new.begun)
    OBVIOUS
  <2>2. call.rows = Staged(d, new.begun) /\ Begins(b.rows, call.rows)
    BY <1>2, <1>3, <1>7, <2>1 DEF Batch
  <2>3. ASSUME NEW n \in 1..last PROVE Gist(new.rows[n]) = Gist(call.rows[n])
    <3>1. CASE n <= call.next
      BY <1>2, <1>3, <1>10, <2>2, <3>1 DEF Begins
    <3>2. CASE n > call.next
      BY <1>12, <3>2
    <3>. QED  BY <1>2, <1>3, <3>1, <3>2
  <2>. QED  BY <1>4, <1>10, <2>2, <2>3 DEF Begins
<1>15. Batch(d, new)
  BY <1>2, <1>3, <1>7, <1>10, <1>12, <1>14 DEF Batch
<1>16. /\ BatchesSound'
       /\ \A e \in Docs : /\ batches'[e] = (IF e = d THEN new ELSE batches[e])
                          /\ Later(batches[e].rows, batches'[e].rows)
                          /\ Len(batches[e].rows) \in Nat /\ Len(batches'[e].rows) \in Nat
  BY <1>1, <1>8, <1>13, <1>15, BatchChanges
<1>17. CacheSound' /\ BookedSound'
  BY <1>9, <1>16, CacheStays, BookedStays
<1>18. ConfirmedShow'
  <2>1. SUFFICES ASSUME NEW e \in Docs, NEW n \in 1..Len(batches'[e].rows),
                        batches'[e].rows[n].status = "confirmed"
                 PROVE  Behind(cache[e], batches'[e].rows) /\ n \in 1..Len(cache[e])
    BY <1>9 DEF ConfirmedShow, Behind
  <2>2. n \in 1..Len(batches[e].rows) /\ batches[e].rows[n].status = "confirmed"
    <3>1. CASE e = d
      <4>1. n \in 1..last /\ new.rows[n].status = "confirmed"
        BY <1>10, <1>16, <2>1, <3>1
      <4>2. n <= call.next
        BY <1>2, <1>3, <1>12, <4>1
      <4>. QED  BY <1>2, <1>3, <1>10, <3>1, <4>1, <4>2
    <3>2. CASE e # d
      BY <1>16, <2>1, <3>2
    <3>. QED  BY <3>1, <3>2
  <2>3. Behind(cache[e], batches[e].rows) /\ n \in 1..Len(cache[e])
    BY <2>2 DEF WizardInv, ConfirmedShow
  <2>. QED  BY <1>16, <2>3, BehindLater
<1>19. PageSound'
  BY <1>1, <1>9 DEF WizardInv, PageSound, Inserting
<1>20. Inserting'
  <2>1. /\ call' = [pc |-> "insert", doc |-> d, rows |-> call.rows, verdicts |-> call.verdicts, next |-> last]
        /\ batches'[d] = new
    BY <1>1, <1>9, <1>16 DEF Inserting
  <2>2. Sequence(call.rows)
    BY <1>1 DEF Inserting
  <2>. HIDE DEF d, b
  <2>. QED  BY <1>1, <1>3, <1>4, <1>7, <1>10, <1>14, <2>1, <2>2 DEF Inserting
<1>. QED  BY <1>16, <1>17, <1>18, <1>19, <1>20 DEF WizardInv, CallSound

\* Rows that get another status, and are otherwise as they were.
Restated(d, new) ==
  /\ new = [n \in DOMAIN batches[d].rows |-> new[n]]
  /\ \A n \in DOMAIN batches[d].rows :
       \/ new[n] = batches[d].rows[n]
       \/ /\ batches[d].rows[n].status # "promoted" \/ new[n].status = "promoted"
          /\ \E status : new[n] = [batches[d].rows[n] EXCEPT !.status = status]

LEMMA RestatedKeeps ==
  ASSUME WizardInv, NEW d \in Docs, NEW new, Restated(d, new), batches' = [batches EXCEPT ![d].rows = new]
  PROVE  /\ BatchesSound'
         /\ \A e \in Docs : /\ Later(batches[e].rows, batches'[e].rows)
                            /\ Len(batches[e].rows) \in Nat /\ Len(batches'[e].rows) \in Nat
                            /\ e # d => batches'[e] = batches[e]
         /\ batches'[d].rows = new /\ Len(new) = Len(batches[d].rows)
         /\ \A n \in 1..Len(new) : Gist(new[n]) = Gist(batches[d].rows[n])
<1>. DEFINE b == batches[d]
            all == [b EXCEPT !.rows = new]
<1>1. Batch(d, b) /\ Sequence(b.rows) /\ Len(b.rows) \in Nat /\ DOMAIN b.rows = 1..Len(b.rows)
  BY BatchFacts
<1>2. Sequence(new) /\ Len(new) = Len(b.rows)
  BY <1>1, MakesSequence DEF Restated
<1>3. ASSUME NEW n \in 1..Len(b.rows)
      PROVE  /\ StagedRow(new[n]) /\ Gist(new[n]) = Gist(b.rows[n])
             /\ b.rows[n].status = "promoted" => new[n].status = "promoted"
  <2>1. StagedRow(b.rows[n])
    BY <1>1 DEF Batch
  <2>2. CASE new[n] = b.rows[n]
    BY <2>1, <2>2
  <2>3. CASE \E status : new[n] = [b.rows[n] EXCEPT !.status = status]
    <3>1. PICK status : new[n] = [b.rows[n] EXCEPT !.status = status]
      BY <2>3
    <3>2. StagedRow(new[n]) /\ Gist(new[n]) = Gist(b.rows[n])
      BY <2>1, <3>1, StatusSet
    <3>3. b.rows[n].status = "promoted" => new[n].status = "promoted"
      BY <1>1 DEF Restated
    <3>. QED  BY <3>2, <3>3
  <2>. QED  BY <1>1, <2>2, <2>3 DEF Restated
<1>4. Later(b.rows, new)
  BY <1>1, <1>2, <1>3 DEF Later, Begins
<1>5. /\ all = [status |-> b.status, begun |-> b.begun, mixed |-> b.mixed, rows |-> new]
      /\ batches' = [batches EXCEPT ![d] = all]
  BY <1>1 DEF Batch
<1>6. b.status = "none" => new = <<>>
  <2>1. SUFFICES ASSUME b.status = "none" PROVE new = <<>>
    OBVIOUS
  <2>2. b.rows = <<>>
    BY <1>1, <2>1 DEF Batch, Unstaged
  <2>3. Len(new) = 0
    BY <1>2, <2>2
  <2>. QED  BY <1>2, <2>3, EmptySeq DEF Sequence
<1>7. Batch(d, all)
  <2>1. b.status = "none" => all = Unstaged
    BY <1>1, <1>5, <1>6 DEF Batch, Unstaged
  <2>2. b.status # "none" /\ ~b.mixed => Begins(new, Staged(d, b.begun))
    BY <1>1, <1>2, <1>3 DEF Batch, Begins
  <2>. HIDE DEF all
  <2>. QED  BY <1>1, <1>2, <1>3, <1>5, <2>1, <2>2 DEF Batch
<1>. HIDE DEF all
<1>8. /\ BatchesSound'
      /\ \A e \in Docs : /\ batches'[e] = (IF e = d THEN all ELSE batches[e])
                         /\ Later(batches[e].rows, batches'[e].rows)
                         /\ Len(batches[e].rows) \in Nat /\ Len(batches'[e].rows) \in Nat
  <2>1. Later(batches[d].rows, all.rows)
    BY <1>4, <1>5
  <2>. HIDE DEF b
  <2>. QED  BY <1>5, <1>7, <2>1, BatchChanges DEF b
<1>. QED  BY <1>2, <1>3, <1>5, <1>8

LEMMA DecideKeeps == ASSUME WizardInv, Decide PROVE WizardInv'
<1>. DEFINE d == call.doc
            rows == batches[d].rows
            new == [n \in DOMAIN rows |->
                      IF n \notin DOMAIN call.decisions THEN rows[n]
                      ELSE [rows[n] EXCEPT !.status = IF call.decisions[n] THEN "confirmed" ELSE "rejected"]]
<1>1. Deciding /\ d \in Docs
  BY CallKind DEF Decide, Deciding
<1>2. Batch(d, batches[d]) /\ Len(rows) \in Nat /\ DOMAIN rows = 1..Len(rows)
  BY <1>1, BatchFacts
<1>3. /\ batches' = [batches EXCEPT ![d].rows = new]
      /\ \A n \in DOMAIN call.decisions : rows[n].status # "promoted"
      /\ call' = [pc |-> "promote", doc |-> d] /\ UNCHANGED <<page, cache, booked, ticked>>
  BY DEF Decide
<1>4. ASSUME NEW n \in DOMAIN rows
      PROVE  /\ new[n] = rows[n] \/ \E status : new[n] = [rows[n] EXCEPT !.status = status]
             /\ n \notin DOMAIN call.decisions => new[n] = rows[n]
             /\ n \in DOMAIN call.decisions /\ new[n].status = "confirmed" => call.decisions[n]
  <2>1. CASE n \notin DOMAIN call.decisions
    BY <2>1
  <2>2. CASE n \in DOMAIN call.decisions
    <3>1. new[n] = [rows[n] EXCEPT !.status = IF call.decisions[n] THEN "confirmed" ELSE "rejected"]
      BY <2>2
    <3>2. new[n].status = IF call.decisions[n] THEN "confirmed" ELSE "rejected"
      <4>1. StagedRow(rows[n])
        BY <1>2 DEF Batch
      <4>. HIDE DEF new
      <4>. QED  BY <3>1, <4>1, StatusSet
    <3>. HIDE DEF new
    <3>. QED  BY <2>2, <3>1, <3>2
  <2>. QED  BY <2>1, <2>2
<1>5. new = [n \in DOMAIN rows |-> new[n]]
  OBVIOUS
<1>. HIDE DEF new
<1>6. Restated(d, new)
  BY <1>3, <1>4, <1>5 DEF Restated
<1>7. /\ BatchesSound'
      /\ \A e \in Docs : /\ Later(batches[e].rows, batches'[e].rows)
                         /\ Len(batches[e].rows) \in Nat /\ Len(batches'[e].rows) \in Nat
                         /\ e # d => batches'[e] = batches[e]
      /\ batches'[d].rows = new /\ Len(new) = Len(rows)
      /\ \A n \in 1..Len(new) : Gist(new[n]) = Gist(rows[n])
  BY <1>1, <1>3, <1>6, RestatedKeeps
<1>8. CacheSound' /\ BookedSound'
  BY <1>3, <1>7, CacheStays, BookedStays
<1>9. ConfirmedShow'
  <2>1. SUFFICES ASSUME NEW e \in Docs, NEW n \in 1..Len(batches'[e].rows),
                        batches'[e].rows[n].status = "confirmed"
                 PROVE  Behind(cache[e], batches[e].rows) /\ n \in 1..Len(cache[e])
    BY <1>3, <1>7, BehindLater DEF ConfirmedShow, Behind
  <2>2. CASE e # d
    BY <1>7, <2>1, <2>2 DEF WizardInv, ConfirmedShow
  <2>3. CASE e = d /\ n \in DOMAIN call.decisions
    BY <1>1, <2>3 DEF Deciding
  <2>4. CASE e = d /\ n \notin DOMAIN call.decisions
    <3>1. n \in 1..Len(rows) /\ rows[n].status = "confirmed"
      BY <1>2, <1>4, <1>7, <2>1, <2>4
    <3>. QED  BY <1>1, <2>4, <3>1 DEF WizardInv, ConfirmedShow
  <2>. QED  BY <2>2, <2>3, <2>4
<1>10. PageSound'
  BY <1>3 DEF WizardInv, PageSound
<1>11. Promoting'
  <2>1. ASSUME NEW n \in 1..Len(new), new[n].status = "confirmed" PROVE <<d, n, Gist(new[n])>> \in ticked
    <3>1. n \in DOMAIN call.decisions
      BY <1>1, <1>2, <1>4, <1>7, <2>1 DEF Deciding
    <3>2. ShowedTick(d, n)
      BY <1>1, <1>2, <1>4, <1>7, <2>1, <3>1 DEF Deciding
    <3>. QED  BY <1>7, <3>2 DEF ShowedTick
  <2>2. call'.doc = d
    BY <1>3
  <2>. HIDE DEF d
  <2>. QED  BY <1>1, <1>3, <1>7, <2>1, <2>2 DEF Promoting, ShowedTick
<1>. QED  BY <1>7, <1>8, <1>9, <1>10, <1>11 DEF WizardInv, CallSound

\* What a promotion books: rows that are confirmed, each once.
Books(d) ==
  LET todo == InOrder({n \in DOMAIN batches[d].rows : batches[d].rows[n].status = "confirmed"}) IN
  [i \in DOMAIN todo |->
     [acc |-> batches[d].rows[todo[i]].acc, day |-> batches[d].rows[todo[i]].day,
      sum |-> batches[d].rows[todo[i]].sum, text |-> batches[d].rows[todo[i]].text, row |-> <<d, todo[i]>>]]

LEMMA BooksFacts ==
  ASSUME WizardInv, NEW d \in Docs
  PROVE  /\ Sequence(Books(d))
         /\ \A i \in 1..Len(Books(d)) : \E n \in 1..Len(batches[d].rows) :
              /\ Books(d)[i].row = <<d, n>> /\ batches[d].rows[n].status = "confirmed"
              /\ Gist(Books(d)[i]) = Gist(batches[d].rows[n])
         /\ \A i, j \in 1..Len(Books(d)) : Books(d)[i].row = Books(d)[j].row => i = j
<1>. DEFINE rows == batches[d].rows
            C == {n \in DOMAIN rows : rows[n].status = "confirmed"}
            todo == InOrder(C)
            books == [i \in DOMAIN todo |->
                        [acc |-> rows[todo[i]].acc, day |-> rows[todo[i]].day,
                         sum |-> rows[todo[i]].sum, text |-> rows[todo[i]].text, row |-> <<d, todo[i]>>]]
<1>1. DOMAIN rows = 1..Len(rows) /\ Len(rows) \in Nat
  BY BatchFacts
<1>2. C \in SUBSET Int /\ IsFiniteSet(C) /\ C \subseteq 1..Len(rows)
  <2>1. IsFiniteSet(1..Len(rows))
    BY <1>1, FS_Interval
  <2>. QED  BY <1>1, <2>1, FS_Subset
<1>3. /\ Cardinality(C) \in Nat /\ todo \in [1..Cardinality(C) -> C]
      /\ \A i \in 1..Cardinality(C) : Rank(C, todo[i]) = i
  BY <1>2, InOrderIsBijection
<1>4. Books(d) = books /\ books = [i \in 1..Cardinality(C) |-> books[i]]
  BY <1>3 DEF Books
<1>5. ASSUME NEW i \in 1..Cardinality(C)
      PROVE  todo[i] \in C /\ books[i].row = <<d, todo[i]>> /\ Gist(books[i]) = Gist(rows[todo[i]])
  BY <1>3 DEF Gist
<1>. HIDE DEF books, C
<1>6. Sequence(books) /\ Len(books) = Cardinality(C)
  BY <1>3, <1>4, MakesSequence
<1>7. ASSUME NEW i \in 1..Cardinality(C), NEW j \in 1..Cardinality(C), books[i].row = books[j].row PROVE i = j
  <2>1. todo[i] = todo[j]
    BY <1>5, <1>7
  <2>. HIDE DEF todo
  <2>. QED  BY <1>3, <2>1
<1>8. ASSUME NEW i \in 1..Cardinality(C)
      PROVE  \E n \in 1..Len(rows) : /\ books[i].row = <<d, n>> /\ rows[n].status = "confirmed"
                                     /\ Gist(books[i]) = Gist(rows[n])
  <2>1. todo[i] \in 1..Len(rows) /\ rows[todo[i]].status = "confirmed"
    BY <1>2, <1>5 DEF C
  <2>. QED  BY <1>5, <2>1
<1>. QED  BY <1>4, <1>6, <1>7, <1>8

LEMMA PromoteFacts ==
  ASSUME WizardInv, NEW lost \in BOOLEAN, PromoteConfirmed(lost)
  PROVE  /\ Promoting /\ call.doc \in Docs
         /\ booked' = booked \o Books(call.doc)
         /\ Sequence(booked) /\ Sequence(Books(call.doc))
         /\ Sequence(booked') /\ Len(booked') = Len(booked) + Len(Books(call.doc))
         /\ \A i \in 1..Len(booked') :
              booked'[i] = IF i <= Len(booked) THEN booked[i] ELSE Books(call.doc)[i - Len(booked)]
<1>1. Promoting /\ call.doc \in Docs
  BY CallKind DEF PromoteConfirmed, Promoting
<1>2. booked' = booked \o Books(call.doc)
  BY DEF PromoteConfirmed, Books
<1>3. Sequence(booked) /\ Sequence(Books(call.doc))
  BY <1>1, BooksFacts DEF WizardInv, BookedSound
<1>. QED  BY <1>1, <1>2, <1>3, SequencesJoin

\* Of what is booked, it is an old one or one of those confirmed.
LEMMA BookedIs ==
  ASSUME WizardInv, NEW lost \in BOOLEAN, PromoteConfirmed(lost), NEW i \in 1..Len(booked')
  PROVE  \/ i \in 1..Len(booked) /\ booked'[i] = booked[i]
         \/ /\ i \notin DOMAIN booked /\ i - Len(booked) \in 1..Len(Books(call.doc))
            /\ booked'[i] = Books(call.doc)[i - Len(booked)]
<1>1. /\ Sequence(booked) /\ Sequence(Books(call.doc)) /\ Len(booked') = Len(booked) + Len(Books(call.doc))
      /\ booked'[i] = IF i <= Len(booked) THEN booked[i] ELSE Books(call.doc)[i - Len(booked)]
  BY PromoteFacts
<1>2. Len(booked) \in Nat /\ DOMAIN booked = 1..Len(booked) /\ Len(Books(call.doc)) \in Nat
  BY <1>1, SequenceFacts
<1>. QED  BY <1>1, <1>2

LEMMA PromoteKeeps == ASSUME WizardInv, NEW lost \in BOOLEAN, PromoteConfirmed(lost) PROVE WizardInv'
<1>. DEFINE d == call.doc
            rows == batches[d].rows
            new == [n \in DOMAIN rows |->
                      IF rows[n].status = "confirmed" THEN [rows[n] EXCEPT !.status = "promoted"] ELSE rows[n]]
<1>1. d \in Docs /\ Sequence(booked) /\ Sequence(booked')
  BY PromoteFacts
<1>2. Batch(d, batches[d]) /\ Len(rows) \in Nat /\ DOMAIN rows = 1..Len(rows)
  BY <1>1, BatchFacts
<1>3. batches' = [batches EXCEPT ![d].rows = new] /\ cache' = cache /\ call' = NoCall
  BY DEF PromoteConfirmed
<1>4. ASSUME NEW n \in DOMAIN rows
      PROVE  /\ new[n] = rows[n] \/ (\E status : new[n] = [rows[n] EXCEPT !.status = status])
             /\ rows[n].status = "confirmed" => new[n].status = "promoted"
             /\ rows[n].status # "confirmed" => new[n] = rows[n]
  <2>1. CASE rows[n].status # "confirmed"
    BY <2>1
  <2>2. CASE rows[n].status = "confirmed"
    <3>1. new[n] = [rows[n] EXCEPT !.status = "promoted"] /\ StagedRow(rows[n])
      BY <1>2, <2>2 DEF Batch
    <3>. HIDE DEF new
    <3>. QED  BY <2>2, <3>1, StatusSet
  <2>. QED  BY <2>1, <2>2
<1>5. new = [n \in DOMAIN rows |-> new[n]]
  OBVIOUS
<1>. HIDE DEF new
<1>6. Restated(d, new)
  BY <1>4, <1>5 DEF Restated
<1>7. /\ BatchesSound'
      /\ \A e \in Docs : /\ Later(batches[e].rows, batches'[e].rows)
                         /\ Len(batches[e].rows) \in Nat /\ Len(batches'[e].rows) \in Nat
                         /\ e # d => batches'[e] = batches[e]
      /\ batches'[d].rows = new /\ Len(new) = Len(rows)
  BY <1>1, <1>3, <1>6, RestatedKeeps
<1>8. CacheSound'
  BY <1>3, <1>7, CacheStays
<1>9. ConfirmedShow'
  <2>1. SUFFICES ASSUME NEW e \in Docs, NEW n \in 1..Len(batches'[e].rows),
                        batches'[e].rows[n].status = "confirmed"
                 PROVE  Behind(cache[e], batches[e].rows) /\ n \in 1..Len(cache[e])
    BY <1>3, <1>7, BehindLater DEF ConfirmedShow, Behind
  <2>2. n \in 1..Len(batches[e].rows) /\ batches[e].rows[n].status = "confirmed"
    BY <1>2, <1>4, <1>7, <2>1
  <2>. QED  BY <2>2 DEF WizardInv, ConfirmedShow
<1>10. PageSound'
  <2>1. call'.pc = "none" /\ page' = IF lost THEN page ELSE NewPage
    BY DEF PromoteConfirmed, NoCall
  <2>2. CASE lost
    BY <2>1, <2>2 DEF WizardInv, PageSound
  <2>3. CASE ~lost
    BY <2>1, <2>3 DEF PageSound, NewPage
  <2>. QED  BY <2>2, <2>3
<1>11. ASSUME NEW i \in 1..Len(booked)
       PROVE  \E e \in Docs : \E n \in 1..Len(batches[e].rows) :
                booked[i].row = <<e, n>> /\ batches[e].rows[n].status = "promoted"
  BY DEF WizardInv, BookedSound
<1>12. ASSUME NEW i \in 1..Len(Books(d))
       PROVE  \E n \in 1..Len(rows) : Books(d)[i].row = <<d, n>> /\ rows[n].status = "confirmed"
  BY <1>1, BooksFacts
<1>13. ASSUME NEW i \in 1..Len(booked')
       PROVE  \E e \in Docs : \E n \in 1..Len(batches'[e].rows) :
                booked'[i].row = <<e, n>> /\ batches'[e].rows[n].status = "promoted"
  <2>1. CASE i \in 1..Len(booked) /\ booked'[i] = booked[i]
    <3>1. PICK e \in Docs : \E n \in 1..Len(batches[e].rows) :
            booked[i].row = <<e, n>> /\ batches[e].rows[n].status = "promoted"
      BY <1>11, <2>1
    <3>2. PICK n \in 1..Len(batches[e].rows) :
            booked[i].row = <<e, n>> /\ batches[e].rows[n].status = "promoted"
      BY <3>1
    <3>3. n \in 1..Len(batches'[e].rows) /\ batches'[e].rows[n].status = "promoted"
      BY <1>7, <3>2 DEF Later, Begins
    <3>. QED  BY <2>1, <3>2, <3>3
  <2>2. CASE i - Len(booked) \in 1..Len(Books(d)) /\ booked'[i] = Books(d)[i - Len(booked)]
    <3>1. PICK n \in 1..Len(rows) : booked'[i].row = <<d, n>> /\ rows[n].status = "confirmed"
      BY <1>12, <2>2
    <3>2. n \in 1..Len(batches'[d].rows) /\ batches'[d].rows[n].status = "promoted"
      BY <1>2, <1>4, <1>7, <3>1
    <3>. QED  BY <1>1, <3>1, <3>2
  <2>. QED  BY <2>1, <2>2, BookedIs
<1>14. ASSUME NEW i \in 1..Len(booked), NEW j \in 1..Len(Books(d))
       PROVE  booked[i].row # Books(d)[j].row
  <2>1. PICK e \in Docs : \E n \in 1..Len(batches[e].rows) :
          booked[i].row = <<e, n>> /\ batches[e].rows[n].status = "promoted"
    BY <1>11
  <2>2. PICK m \in 1..Len(rows) : Books(d)[j].row = <<d, m>> /\ rows[m].status = "confirmed"
    BY <1>12
  <2>. QED  BY <2>1, <2>2
<1>15. ASSUME NEW i \in 1..Len(booked'), NEW j \in 1..Len(booked'), booked'[i].row = booked'[j].row
       PROVE  i = j
  <2>1. \/ i \in 1..Len(booked) /\ booked'[i] = booked[i]
        \/ i - Len(booked) \in 1..Len(Books(d)) /\ booked'[i] = Books(d)[i - Len(booked)]
    BY BookedIs
  <2>2. \/ j \in 1..Len(booked) /\ booked'[j] = booked[j]
        \/ j - Len(booked) \in 1..Len(Books(d)) /\ booked'[j] = Books(d)[j - Len(booked)]
    BY BookedIs
  <2>3. \A k, l \in 1..Len(booked) : booked[k].row = booked[l].row => k = l
    BY DEF WizardInv, BookedSound
  <2>4. \A k, l \in 1..Len(Books(d)) : Books(d)[k].row = Books(d)[l].row => k = l
    BY <1>1, BooksFacts
  <2>5. Len(booked) \in Nat /\ i \in Int /\ j \in Int
    BY <1>1, SequenceFacts
  <2>. QED  BY <1>14, <1>15, <2>1, <2>2, <2>3, <2>4, <2>5
<1>16. BookedSound'
  BY <1>1, <1>13, <1>15 DEF BookedSound
<1>. QED  BY <1>3, <1>7, <1>8, <1>9, <1>10, <1>16 DEF WizardInv, CallSound

LEMMA WizardStarts == ASSUME WizardInit PROVE WizardInv
<1>1. ASSUME NEW d \in Docs PROVE Batch(d, batches[d]) /\ batches[d].rows = <<>> /\ cache[d] = Nil
  <2>1. batches[d] = Unstaged /\ cache[d] = Nil
    BY DEF WizardInit
  <2>2. Sequence(<<>>) /\ Len(<<>>) = 0
    BY EmptySeq DEF Sequence
  <2>. QED  BY <2>1, <2>2 DEF Unstaged, Batch
<1>2. BatchesSound /\ CacheSound /\ ConfirmedShow
  <2>1. Len(<<>>) = 0
    BY EmptySeq
  <2>. QED  BY <1>1, <2>1 DEF WizardInit, BatchesSound, CacheSound, ConfirmedShow
<1>3. PageSound /\ CallSound
  BY DEF WizardInit, PageSound, CallSound, NewPage, NoCall
<1>4. BookedSound
  BY EmptySeq DEF WizardInit, BookedSound, Sequence
<1>. QED  BY <1>2, <1>3, <1>4 DEF WizardInv

LEMMA WizardSteps == ASSUME WizardInv, [WizardNext]_wizardVars PROVE WizardInv'
<1>1. ASSUME NEW d \in Docs, Upload(d) PROVE WizardInv'
  BY <1>1, UploadKeeps
<1>2. ASSUME \/ \E p \in Presets : PickPreset(p)
             \/ \E a \in Accounts : PickTarget(a)
             \/ \E f \in Formats : PickFormat(f)
             \/ PickColumns
      PROVE  WizardInv'
  BY <1>2, EditsKeep
<1>3. ASSUME Back \/ Leave PROVE WizardInv'
  BY <1>3, MovesKeep
<1>4. ASSUME PressStage \/ AlreadyStaged \/ BeginStaging \/ InsertPiece PROVE WizardInv'
  BY <1>4, PressStageKeeps, AlreadyStagedKeeps, BeginStagingKeeps, InsertPieceKeeps
<1>5. ASSUME NEW lost \in BOOLEAN, EndStaging(lost) \/ PromoteConfirmed(lost) PROVE WizardInv'
  BY <1>5, EndStagingKeeps, PromoteKeeps
<1>6. ASSUME Fetch \/ PressPromote \/ Decide \/ Fail PROVE WizardInv'
  BY <1>6, FetchKeeps, PressPromoteKeeps, DecideKeeps, FailKeeps
<1>7. ASSUME NEW n, Toggle(n) PROVE WizardInv'
  BY <1>7, ToggleKeeps
<1>8. ASSUME UNCHANGED wizardVars PROVE WizardInv'
  BY <1>8, PageOnly DEF wizardVars, WizardInv, PageSound
<1>. QED  BY <1>1, <1>2, <1>3, <1>4, <1>5, <1>6, <1>7, <1>8 DEF WizardNext

LEMMA WizardAlways == WizardSpec => []WizardInv
BY WizardStarts, WizardSteps, PTL DEF WizardSpec

LEMMA BookingIsPromoting ==
  ASSUME WizardInv, [WizardNext]_wizardVars, booked' # booked
  PROVE  \E lost \in BOOLEAN : PromoteConfirmed(lost)
<1>1. ASSUME \/ \E d \in Docs : Upload(d)
             \/ \E p \in Presets : PickPreset(p)
             \/ \E a \in Accounts : PickTarget(a)
             \/ \E f \in Formats : PickFormat(f)
             \/ PickColumns \/ Back \/ Leave
      PROVE  booked' = booked
  BY <1>1 DEF Upload, PickPreset, PickTarget, PickFormat, PickColumns, Back, Leave, Edit, Other
<1>2. ASSUME \/ PressStage \/ AlreadyStaged \/ BeginStaging \/ InsertPiece
             \/ \E lost \in BOOLEAN : EndStaging(lost)
             \/ Fetch \/ PressPromote \/ Decide \/ Fail
             \/ \E n : Toggle(n)
      PROVE  booked' = booked
  BY <1>2 DEF PressStage, AlreadyStaged, BeginStaging, InsertPiece, EndStaging, Fetch, PressPromote,
              Decide, Fail, Toggle
<1>3. UNCHANGED wizardVars => booked' = booked
  BY DEF wizardVars
<1>. QED  BY <1>1, <1>2, <1>3 DEF WizardNext

LEMMA PairAndOne == ASSUME NEW a, NEW b, NEW c PROVE <<a, b>> \o <<c>> = <<a, b, c>>
<1>. DEFINE S == {a, b, c}
<1>1. /\ <<a, b>> \in Seq(S) /\ <<c>> \in Seq(S) /\ <<a, b, c>> \in Seq(S)
      /\ Len(<<a, b>>) = 2 /\ Len(<<c>>) = 1 /\ Len(<<a, b, c>>) = 3
  OBVIOUS
<1>2. /\ <<a, b>> \o <<c>> \in Seq(S) /\ Len(<<a, b>> \o <<c>>) = 3
      /\ \A i \in 1..3 : (<<a, b>> \o <<c>>)[i] = IF i <= 2 THEN <<a, b>>[i] ELSE <<c>>[i - 2]
  BY <1>1, ConcatProperties
<1>3. \A i \in 1..3 : (<<a, b>> \o <<c>>)[i] = <<a, b, c>>[i]
  <2>1. \A i \in 1..3 : i = 1 \/ i = 2 \/ i = 3
    OBVIOUS
  <2>. QED  BY <1>2, <2>1
<1>. QED  BY <1>1, <1>2, <1>3, SeqEqual

\* What a press of the button books showed a tick, with the account, the day and the
\* sum it is booked with, whatever calls failed, were lost or made again before, and
\* is booked once.
THEOREM TickedIsBooked == WizardSpec => BookedAsShown
<1>. DEFINE Act == \A i \in DOMAIN booked' \ DOMAIN booked :
                     /\ booked'[i].row \o <<Gist(booked'[i])>> \in ticked
                     /\ \A j \in DOMAIN booked' : booked'[j].row = booked'[i].row => j = i
<1>1. WizardInv /\ WizardInv' /\ [WizardNext]_wizardVars => Act
  <2>. SUFFICES ASSUME WizardInv, WizardInv', [WizardNext]_wizardVars, NEW i \in DOMAIN booked' \ DOMAIN booked
                PROVE  /\ booked'[i].row \o <<Gist(booked'[i])>> \in ticked
                       /\ \A j \in DOMAIN booked' : booked'[j].row = booked'[i].row => j = i
    OBVIOUS
  <2>1. PICK lost \in BOOLEAN : PromoteConfirmed(lost)
    BY BookingIsPromoting
  <2>. DEFINE d == call.doc
              rows == batches[d].rows
  <2>2. Promoting /\ d \in Docs /\ Sequence(booked')
    BY <2>1, PromoteFacts
  <2>3. DOMAIN booked' = 1..Len(booked')
    BY <2>2, SequenceFacts
  <2>4. /\ i - Len(booked) \in 1..Len(Books(d)) /\ booked'[i] = Books(d)[i - Len(booked)]
    <3>1. DOMAIN booked = 1..Len(booked)
      BY SequenceFacts DEF WizardInv, BookedSound
    <3>. QED  BY <2>1, <2>3, <3>1, BookedIs
  <2>5. PICK n \in 1..Len(rows) : /\ booked'[i].row = <<d, n>> /\ rows[n].status = "confirmed"
                                  /\ Gist(booked'[i]) = Gist(rows[n])
    BY <2>2, <2>4, BooksFacts
  <2>6. <<d, n, Gist(rows[n])>> \in ticked
    BY <2>2, <2>5 DEF Promoting, ShowedTick
  <2>7. booked'[i].row \o <<Gist(booked'[i])>> = <<d, n, Gist(rows[n])>>
    BY <2>5, PairAndOne
  <2>8. \A j \in DOMAIN booked' : booked'[j].row = booked'[i].row => j = i
    BY <2>3 DEF WizardInv, BookedSound
  <2>. QED  BY <2>6, <2>7, <2>8
<1>2. WizardSpec => [][Act]_wizardVars
  BY <1>1, WizardAlways, PTL DEF WizardSpec
<1>. QED  BY <1>2 DEF BookedAsShown

\* A file that is read as it was written reads what it says.  Nothing else is asked of
\* the readers of days and amounts, and a run tries them.
ReadersAreRight ==
  \A d \in Docs :
    LET read == ReadAs(d, Documents[d].places, Documents[d].right) IN
    [n \in 1..Len(read) |-> <<read[n].day, read[n].sum>>] = Documents[d].truth

\* Where the readers are right about a file, its batch tells the file, through stagings
\* that die, are resumed after the rows they left, and meet another form.
THEOREM BatchesAreFaithful == ReadersAreRight => (WizardSpec => []BatchTellsTheFile)
<1>. SUFFICES ASSUME ReadersAreRight PROVE WizardSpec => []BatchTellsTheFile
  OBVIOUS
<1>1. ASSUME WizardInv PROVE BatchTellsTheFile
  <2>. SUFFICES ASSUME NEW d \in Docs, batches[d] # Unstaged, ~batches[d].mixed, Fits(d, batches[d].begun)
                PROVE  LET b == batches[d]
                           told == [i \in DOMAIN b.rows |-> <<b.rows[i].day, b.rows[i].sum>>] IN
                       IF b.status = "ready" THEN told = Documents[d].truth ELSE IsPrefix(told, Documents[d].truth)
    BY DEF BatchTellsTheFile
  <2>. DEFINE b == batches[d]
              told == [i \in DOMAIN b.rows |-> <<b.rows[i].day, b.rows[i].sum>>]
              read == Reading(d, b.begun)
              whole == [n \in 1..Len(read) |-> <<read[n].day, read[n].sum>>]
              staged == Staged(d, b.begun)
  <2>1. /\ Begins(b.rows, staged) /\ (b.status = "ready" => Len(b.rows) = Len(staged))
        /\ Len(b.rows) \in Nat /\ DOMAIN b.rows = 1..Len(b.rows)
    BY <1>1, BatchFacts DEF Batch
  <2>2. /\ Sequence(staged) /\ Len(staged) = Len(read) /\ Len(staged) \in Nat
        /\ \A n \in 1..Len(staged) : staged[n].day = read[n].day /\ staged[n].sum = read[n].sum
    BY StagedFacts, SequenceFacts
  <2>3. whole = Documents[d].truth
    <3>1. read = ReadAs(d, Documents[d].places, Documents[d].right)
      BY DEF Reading, Fits
    <3>. QED  BY <3>1 DEF ReadersAreRight
  <2>4. Sequence(told) /\ Len(told) = Len(b.rows) /\ Sequence(whole) /\ Len(whole) = Len(read)
    <3>1. told = [i \in 1..Len(b.rows) |-> told[i]] /\ whole = [i \in 1..Len(read) |-> whole[i]]
      BY <2>1
    <3>. HIDE DEF told, whole
    <3>. QED  BY <2>1, <2>2, <3>1, MakesSequence
  <2>5. \A n \in 1..Len(b.rows) : n \in 1..Len(read) /\ told[n] = whole[n]
    <3>1. SUFFICES ASSUME NEW n \in 1..Len(b.rows) PROVE n \in 1..Len(read) /\ told[n] = whole[n]
      OBVIOUS
    <3>2. n \in 1..Len(read) /\ n \in 1..Len(staged) /\ Gist(b.rows[n]) = Gist(staged[n])
      BY <2>1, <2>2 DEF Begins
    <3>3. b.rows[n].day = read[n].day /\ b.rows[n].sum = read[n].sum
      BY <2>2, <3>2 DEF Gist
    <3>. QED  BY <2>1, <3>2, <3>3
  <2>6. CASE b.status = "ready"
    <3>1. Len(b.rows) = Len(read)
      BY <2>1, <2>2, <2>6
    <3>2. told = whole
      BY <2>1, <2>5, <3>1
    <3>. QED  BY <2>3, <2>6, <3>2
  <2>7. CASE b.status # "ready"
    <3>. HIDE DEF told, whole, b
    <3>1. Len(told) \in Nat /\ Len(told) <= Len(whole) /\ Len(whole) \in Nat
      BY <2>1, <2>2, <2>4 DEF Begins
    <3>2. \A n \in 1..Len(told) : told[n] = whole[n]
      BY <2>4, <2>5
    <3>3. SubSeq(told, 1, Len(told)) = SubSeq(whole, 1, Len(told))
      BY <3>1, <3>2
    <3>4. IsPrefix(told, whole)
      BY <3>1, <3>3 DEF IsPrefix
    <3>. QED  BY <2>3, <2>7, <3>4 DEF b, told, whole
  <2>. QED  BY <2>6, <2>7
<1>. QED  BY <1>1, WizardAlways, PTL

-----------------------------------------------------------------------------
(* Money.  A row is sound when its balance follows from the live movements  *)
(* that touch the account (mine) and from what they sum up to (flow).       *)

FlowFn(a) == [i \in MoveId |-> Flow(i, a)]
Mine(a) == {i \in Live : Touches(i, a)}
Sum(a) == SumOn(FlowFn(a), Live)

\* The valuations are by the movements in mine, but for one at least.
Traced(r, mine) ==
  /\ \E n \in 1..Len(r.vals) : r.vals[n].by = 0
  /\ \A n \in 1..Len(r.vals) : r.vals[n].by # 0 => r.vals[n].by \in mine

Sound(r, mine, flow) ==
  /\ r \in Row
  /\ ~r.deleted =>
       /\ Traced(r, mine)
       /\ r.source = "valuation" =>
            ~r.reserve /\ r.balance = r.vals[Len(r.vals)].value
       /\ r.source # "valuation" =>
            /\ r.balance = r.vals[1].value + flow
            /\ \A n \in 1..Len(r.vals) : r.vals[n].by = 0

AllSound == \A a \in Ids : Exists(a) => Sound(account[a], Mine(a), Sum(a))

\* Movements are numbered as they are posted.
Numbered == \E k \in 0..MaxMoves : Posted = 1..k

\* No movement names an account that is not there.
Named == \A i \in Posted : \A a \in Ids : Touches(i, a) => Exists(a)

TablesTyped ==
  /\ account \in [Ids -> Row \cup {Absent}]
  /\ move \in [MoveId -> Movement \cup {Absent}]
  /\ \A i \in Posted : move[i] \in Movement

\* The variables of the calls.
CallsTyped ==
  /\ born \subseteq Ids /\ held \subseteq Ids /\ acked \subseteq Ids
  /\ late \subseteq MoveId
  /\ \A h \in Handlers :
       \/ handler[h] = Idle
       \/ handler[h] \in [pc: {"read", "count", "drain", "final", "record"},
                          acc: Ids, history: BOOLEAN]
  /\ deletes \in 0..MaxDeletes

Money == TablesTyped /\ Numbered /\ Named /\ AllSound

\* The flow is a sum of values of a function.
LEMMA FlowUnfolded ==
  ASSUME NEW S, NEW a
  PROVE  SumOn([i \in S |-> Flow(i, a)], S) = FlowOf(S, a)
BY DEF SumOn, FlowOf, MapThenSumSet, MapThenFoldSet

USE AccountsAssumption, AbsentIsNoRow

LEMMA MovesFinite ==
  /\ IsFiniteSet(MoveId) /\ MoveId \in SUBSET Nat /\ Live \in SUBSET MoveId
  /\ \A S \in SUBSET MoveId : IsFiniteSet(S)
  /\ \A a, i : Flow(i, a) \in Int
<1>1. IsFiniteSet(MoveId)
  BY FS_Interval DEF MoveId
<1>2. \A S \in SUBSET MoveId : IsFiniteSet(S)
  BY <1>1, FS_Subset
<1>3. MoveId \in SUBSET Nat /\ Live \in SUBSET MoveId
  BY DEF MoveId, Live, Posted
<1>4. \A a, i : Flow(i, a) \in Int
  BY DEF Flow
<1>. QED  BY <1>1, <1>2, <1>3, <1>4

LEMMA FlowIsSum ==
  ASSUME NEW S \in SUBSET MoveId, NEW a
  PROVE  FlowOf(S, a) = SumOn(FlowFn(a), S) /\ FlowOf(S, a) \in Int
<1>. DEFINE flow == [i \in S |-> Flow(i, a)]
<1>1. SumOn(flow, S) = FlowOf(S, a)
  BY FlowUnfolded
<1>2. IsFiniteSet(S) /\ \A i \in S : flow[i] \in Int /\ flow[i] = FlowFn(a)[i]
  BY MovesFinite DEF FlowFn
<1>. HIDE DEF flow
<1>3. SumOn(flow, S) = SumOn(FlowFn(a), S) /\ SumOn(flow, S) \in Int
  BY <1>2, SumSame, SumType
<1>. QED  BY <1>1, <1>3

-----------------------------------------------------------------------------
(* Rows. *)

LEMMA RowFields ==
  ASSUME NEW r \in Row
  PROVE  /\ r.vals \in Seq(Valuation) /\ Len(r.vals) \in Nat /\ r.balance \in Int
         /\ DOMAIN r.vals = 1..Len(r.vals)
         /\ \A n \in 1..Len(r.vals) :
              r.vals[n] \in Valuation /\ r.vals[n].value \in Int /\ r.vals[n].by \in 0..MaxMoves
<1>1. r.vals \in Seq(Valuation) /\ r.balance \in Int
  BY DEF Row
<1>2. \A v \in Valuation : v.value \in Int /\ v.by \in 0..MaxMoves
  BY DEF Valuation
<1>. QED  BY <1>1, <1>2, LenProperties

\* A valuation by a movement that touches the account, or by none.
LEMMA RevaluedSound ==
  ASSUME NEW r \in Row, r.source = "valuation", ~r.deleted, ~r.reserve,
         NEW mine, Traced(r, mine), NEW more, mine \subseteq more,
         NEW value \in Int, NEW by \in 0..MaxMoves, by # 0 => by \in more, NEW flow
  PROVE  Sound(Revalued(r, value, by), more, flow)
<1>. DEFINE v == [value |-> value, by |-> by]
            vals == Append(r.vals, v)
            q == Revalued(r, value, by)
<1>1. /\ r.vals \in Seq(Valuation) /\ Len(r.vals) \in Nat
      /\ v \in Valuation /\ v.value = value /\ v.by = by
  BY RowFields DEF Valuation
<1>. HIDE DEF v
<1>2. /\ vals \in Seq(Valuation) /\ Len(vals) = Len(r.vals) + 1 /\ vals # <<>>
      /\ vals[Len(vals)] = v
      /\ \A n \in 1..Len(r.vals) : vals[n] = r.vals[n]
  BY <1>1
<1>3. Worth(vals) = value
  BY <1>1, <1>2 DEF Worth, Last
<1>4. q = [r EXCEPT !.vals = vals, !.balance = value]
  BY <1>3 DEF Revalued, v
<1>. HIDE DEF vals, q
<1>5. /\ q \in Row /\ q.vals = vals /\ q.balance = value
      /\ q.source = r.source /\ q.reserve = r.reserve /\ q.deleted = r.deleted
  BY <1>2, <1>4 DEF Row
<1>6. Traced(q, more)
  <2>1. \A n \in 1..Len(vals) : n = Len(vals) \/ n \in 1..Len(r.vals)
    BY <1>1, <1>2
  <2>2. \A n \in 1..Len(r.vals) : n \in 1..Len(vals)
    BY <1>1, <1>2
  <2>. QED  BY <1>1, <1>2, <1>5, <2>1, <2>2 DEF Traced
<1>7. q.vals[Len(q.vals)].value = q.balance
  BY <1>1, <1>2, <1>5
<1>. QED  BY <1>5, <1>6, <1>7 DEF Sound, q

\* A sum that follows the flow.
LEMMA BalanceSound ==
  ASSUME NEW r, NEW mine, NEW flow \in Int, Sound(r, mine, flow), r.source # "valuation",
         NEW b \in Int, NEW more, NEW sum \in Int, b = r.balance + sum - flow
  PROVE  Sound([r EXCEPT !.balance = b], more, sum)
<1>. DEFINE q == [r EXCEPT !.balance = b]
<1>1. r \in Row /\ q \in Row /\ q.vals = r.vals /\ q.balance = b
      /\ q.source = r.source /\ q.reserve = r.reserve /\ q.deleted = r.deleted
  BY DEF Sound, Row
<1>. HIDE DEF q
<1>2. ASSUME ~q.deleted
      PROVE  Traced(q, more) /\ q.balance = q.vals[1].value + sum
             /\ \A n \in 1..Len(q.vals) : q.vals[n].by = 0
  <2>1. /\ r.balance = r.vals[1].value + flow
        /\ \A n \in 1..Len(r.vals) : r.vals[n].by = 0
        /\ \E n \in 1..Len(r.vals) : r.vals[n].by = 0
    BY <1>1, <1>2 DEF Sound, Traced
  <2>2. Len(r.vals) \in Nat /\ r.balance \in Int /\ 1 \in 1..Len(r.vals)
    BY <1>1, <2>1, RowFields
  <2>3. r.vals[1].value \in Int
    BY <1>1, <2>2, RowFields
  <2>. QED  BY <1>1, <2>1, <2>2, <2>3 DEF Traced
<1>. QED  BY <1>1, <1>2 DEF Sound, q

LEMMA RemainingFacts ==
  ASSUME NEW vals \in Seq(Valuation), NEW S
  PROVE  /\ Remaining(vals, S) \in Seq(Valuation)
         /\ \A k \in 1..Len(Remaining(vals, S)) : \E n \in 1..Len(vals) :
              vals[n].by \notin S /\ Remaining(vals, S)[k] = vals[n]
         /\ \A n \in 1..Len(vals) : vals[n].by \notin S =>
              \E k \in 1..Len(Remaining(vals, S)) : Remaining(vals, S)[k] = vals[n]
<1>. DEFINE K == {n \in DOMAIN vals : vals[n].by \notin S}
            kept == InOrder(K)
            rest == Remaining(vals, S)
<1>1. Len(vals) \in Nat /\ DOMAIN vals = 1..Len(vals)
  BY LenProperties
<1>2. K \in SUBSET (1..Len(vals)) /\ K \in SUBSET Int /\ IsFiniteSet(K)
  <2>1. IsFiniteSet(1..Len(vals))
    BY <1>1, FS_Interval
  <2>2. K \in SUBSET (1..Len(vals))
    BY <1>1
  <2>. QED  BY <1>1, <2>1, <2>2, FS_Subset
<1>3. /\ Cardinality(K) \in Nat
      /\ kept \in [1..Cardinality(K) -> K]
      /\ \A n \in K : \E k \in 1..Cardinality(K) : kept[k] = n
  <2>. HIDE DEF K
  <2>. QED  BY <1>2, InOrderIsBijection
<1>4. rest = [k \in 1..Cardinality(K) |-> vals[kept[k]]]
  BY <1>3 DEF Remaining
<1>5. \A n \in K : n \in 1..Len(vals) /\ vals[n].by \notin S /\ vals[n] \in Valuation
  BY <1>1, LenProperties
<1>6. \A n \in 1..Len(vals) : vals[n].by \notin S => n \in K
  BY <1>1
<1>. HIDE DEF K, kept, rest
<1>7. rest \in Seq(Valuation) /\ Len(rest) = Cardinality(K)
  <2>1. rest \in [1..Cardinality(K) -> Valuation]
    BY <1>3, <1>4, <1>5
  <2>. QED  BY <1>3, <2>1
<1>8. \A k \in 1..Len(rest) : rest[k] = vals[kept[k]] /\ kept[k] \in K
  BY <1>3, <1>4, <1>7
<1>9. \A n \in 1..Len(vals) : vals[n].by \notin S => \E k \in 1..Len(rest) : rest[k] = vals[n]
  BY <1>3, <1>6, <1>7, <1>8
<1>. QED  BY <1>5, <1>7, <1>8, <1>9 DEF rest

\* Valuations go with the movements that wrote them.
LEMMA RemainingSound ==
  ASSUME NEW r, NEW mine, NEW flow, Sound(r, mine, flow), r.source = "valuation",
         NEW S, 0 \notin S, NEW less, \A i \in mine : i \in S \/ i \in less, NEW sum
  PROVE  LET vals == Remaining(r.vals, S)
         IN  Sound([r EXCEPT !.vals = vals, !.balance = Worth(vals)], less, sum)
<1>. DEFINE vals == Remaining(r.vals, S)
            q == [r EXCEPT !.vals = vals, !.balance = Worth(vals)]
<1>1. r \in Row /\ r.vals \in Seq(Valuation)
  BY RowFields DEF Sound
<1>2. /\ vals \in Seq(Valuation)
      /\ \A k \in 1..Len(vals) : \E n \in 1..Len(r.vals) :
           r.vals[n].by \notin S /\ vals[k] = r.vals[n]
      /\ \A n \in 1..Len(r.vals) : r.vals[n].by \notin S =>
           \E k \in 1..Len(vals) : vals[k] = r.vals[n]
  BY <1>1, RemainingFacts
<1>. HIDE DEF vals
<1>3. Worth(vals) = (IF vals = <<>> THEN 0 ELSE vals[Len(vals)].value) /\ Worth(vals) \in Int
  <2>1. vals # <<>> => vals[Len(vals)] \in Valuation
    BY <1>2
  <2>2. vals # <<>> => vals[Len(vals)].value \in Int
    BY <2>1 DEF Valuation
  <2>. QED  BY <2>2 DEF Worth, Last
<1>4. q \in Row /\ q.vals = vals /\ q.balance = Worth(vals)
      /\ q.source = r.source /\ q.reserve = r.reserve /\ q.deleted = r.deleted
  BY <1>1, <1>2, <1>3 DEF Row
<1>. HIDE DEF q
<1>5. ASSUME ~q.deleted PROVE Traced(q, less) /\ ~q.reserve /\ q.balance = q.vals[Len(q.vals)].value
  <2>1. Traced(r, mine) /\ ~r.reserve
    BY <1>4, <1>5 DEF Sound
  <2>2. \E k \in 1..Len(vals) : vals[k].by = 0
    BY <1>2, <2>1 DEF Traced
  <2>3. \A k \in 1..Len(vals) : vals[k].by # 0 => vals[k].by \in less
    BY <1>2, <2>1 DEF Traced
  <2>4. vals # <<>>
    BY <1>2, <2>2
  <2>. QED  BY <1>3, <1>4, <2>1, <2>2, <2>3, <2>4 DEF Traced
<1>. QED  BY <1>4, <1>5 DEF Sound, q, vals

-----------------------------------------------------------------------------
(* Movements. *)

LEMMA SumIsInt == \A a : Sum(a) \in Int
<1>1. \A S \in SUBSET MoveId : \A a : SumOn(FlowFn(a), S) \in Int
  BY FlowIsSum
<1>. QED  BY <1>1, MovesFinite DEF Sum

LEMMA SameMovesSame ==
  ASSUME UNCHANGED move
  PROVE  /\ Posted' = Posted /\ Live' = Live
         /\ \A a : Mine(a)' = Mine(a) /\ Sum(a)' = Sum(a)
         /\ \A a, i : Touches(i, a)' <=> Touches(i, a)
<1>1. \A a : FlowFn(a)' = FlowFn(a)
  BY DEF FlowFn, Flow
<1>. QED  BY <1>1 DEF Posted, Live, Mine, Touches, Sum

\* One more movement.
LEMMA PostedFacts ==
  ASSUME TablesTyped, Numbered, NEW m \in Requested, Posted # MoveId,
         NEW i, i = Cardinality(Posted) + 1, move' = [move EXCEPT ![i] = m]
  PROVE  /\ i \in MoveId \ Posted
         /\ Numbered' /\ move' \in [MoveId -> Movement \cup {Absent}]
         /\ \A j \in Posted' : move'[j] \in Movement
         /\ Posted' = Posted \cup {i} /\ move'[i] = m
         /\ \A j \in Posted : move'[j] = move[j]
         /\ \A a : Mine(a)' = IF a \in {m.from, m.to} THEN Mine(a) \cup {i} ELSE Mine(a)
         /\ \A a : Sum(a)' = Sum(a) + (IF m.from = a THEN -1 ELSE 0)
                               + (IF m.kind = "transfer" /\ m.to = a THEN 1 ELSE 0)
<1>1. PICK k \in 0..MaxMoves : Posted = 1..k
  BY DEF Numbered
<1>2. Cardinality(Posted) = k /\ k < MaxMoves /\ i = k + 1 /\ i \in MoveId \ Posted
  <2>1. k \in Nat /\ k <= MaxMoves /\ MaxMoves \in Nat
    OBVIOUS
  <2>2. Cardinality(1..k) = k
    BY <2>1, FS_Interval
  <2>3. k # MaxMoves
    BY <1>1 DEF MoveId
  <2>. QED  BY <1>1, <2>1, <2>2, <2>3 DEF MoveId
<1>3. m \in Movement /\ m.live = TRUE /\ m # Absent
  BY DEF Requested, Movement
<1>4. /\ move' \in [MoveId -> Movement \cup {Absent}] /\ move'[i] = m
      /\ \A j \in MoveId \ {i} : move'[j] = move[j]
  BY <1>2, <1>3 DEF TablesTyped
<1>5. Posted' = Posted \cup {i} /\ Live' = Live \cup {i} /\ i \notin Live
  BY <1>2, <1>3, <1>4 DEF Posted, Live
<1>6. Posted' = 1..(k + 1) /\ k + 1 \in 0..MaxMoves
  BY <1>1, <1>2, <1>5
<1>7. Numbered'
  BY <1>6 DEF Numbered
<1>8. \A a : Mine(a)' = IF a \in {m.from, m.to} THEN Mine(a) \cup {i} ELSE Mine(a)
  BY <1>4, <1>5 DEF Mine, Touches, Live, Posted
<1>9. ASSUME NEW a
      PROVE  Sum(a)' = Sum(a) + (IF m.from = a THEN -1 ELSE 0)
                               + (IF m.kind = "transfer" /\ m.to = a THEN 1 ELSE 0)
  <2>. DEFINE g == [j \in MoveId |-> IF j = i THEN Flow(i, a)' ELSE Flow(j, a)]
  <2>1. FlowFn(a)' = g
    BY <1>4 DEF FlowFn, Flow
  <2>2. g[i] = (IF m.from = a THEN -1 ELSE 0)
                 + (IF m.kind = "transfer" /\ m.to = a THEN 1 ELSE 0)
    BY <1>2, <1>4 DEF Flow
  <2>3. /\ IsFiniteSet(Live) /\ Live \in SUBSET MoveId
        /\ \A j \in Live : g[j] = FlowFn(a)[j] /\ g[j] \in Int
    BY <1>5, MovesFinite DEF FlowFn
  <2>4. g[i] \in Int
    BY <2>2
  <2>. HIDE DEF g
  <2>5. SumOn(g, Live \cup {i}) = g[i] + SumOn(g, Live)
    BY <1>5, <2>3, <2>4, SumAdd
  <2>6. SumOn(g, Live) = SumOn(FlowFn(a), Live) /\ SumOn(g, Live) \in Int
    BY <2>3, SumSame, SumType
  <2>. QED  BY <1>5, <2>1, <2>2, <2>5, <2>6 DEF Sum
<1>10. \A j \in Posted' : move'[j] \in Movement
  BY <1>3, <1>4, <1>5 DEF TablesTyped, Posted
<1>. QED  BY <1>2, <1>4, <1>5, <1>7, <1>8, <1>9, <1>10 DEF Posted

\* Movements reversed.
LEMMA UndoneFacts ==
  ASSUME TablesTyped, Numbered, NEW S \in SUBSET Live, Tombstone(S)
  PROVE  /\ Numbered' /\ move' \in [MoveId -> Movement \cup {Absent}]
         /\ \A j \in Posted' : move'[j] \in Movement
         /\ Posted' = Posted
         /\ \A j \in Posted : \A a : Touches(j, a)' <=> Touches(j, a)
         /\ \A a : Mine(a)' = Mine(a) \ S
         /\ \A a : Sum(a)' = Sum(a) - FlowOf(S, a)
<1>1. \A m \in Movement : LET n == [m EXCEPT !.live = FALSE]
                          IN  /\ n \in Movement /\ ~n.live /\ n.kind = m.kind
                              /\ n.from = m.from /\ n.to = m.to
  BY DEF Movement
<1>2. S \in SUBSET MoveId /\ \A i \in S : move[i] \in Movement
  BY DEF Live, Posted, TablesTyped
<1>3. /\ \A i \in S : /\ move'[i] \in Movement /\ ~move'[i].live /\ move'[i].kind = move[i].kind
                      /\ move'[i].from = move[i].from /\ move'[i].to = move[i].to
      /\ \A i \in MoveId \ S : move'[i] = move[i]
      /\ move' = [i \in MoveId |-> move'[i]]
  BY <1>1, <1>2 DEF Tombstone
<1>4. move' \in [MoveId -> Movement \cup {Absent}]
  <2>1. \A i \in MoveId : move'[i] \in Movement \cup {Absent}
    BY <1>3 DEF TablesTyped
  <2>. QED  BY <1>3, <2>1
<1>5. Posted' = Posted /\ Live' = Live \ S
  BY <1>2, <1>3 DEF Posted, Live
<1>6. \A j \in Posted : /\ move'[j].kind = move[j].kind
                        /\ move'[j].from = move[j].from /\ move'[j].to = move[j].to
  BY <1>3 DEF Posted
<1>7. Numbered'
  BY <1>5 DEF Numbered
<1>8. \A j \in Posted : \A a : Touches(j, a)' <=> Touches(j, a)
  BY <1>6 DEF Touches
<1>9. \A a : Mine(a)' = Mine(a) \ S
  BY <1>5, <1>8 DEF Mine, Live
<1>10. ASSUME NEW a PROVE Sum(a)' = Sum(a) - FlowOf(S, a)
  <2>. DEFINE g == FlowFn(a)'
              f == FlowFn(a)
  <2>1. \A j \in Posted : g[j] = f[j]
    BY <1>6 DEF FlowFn, Flow, Posted
  <2>2. /\ IsFiniteSet(Live) /\ IsFiniteSet(Live \ S) /\ Live \ S \in SUBSET Posted
        /\ \A j \in Live : f[j] \in Int
    BY MovesFinite, FS_Subset DEF Live, FlowFn
  <2>3. FlowOf(S, a) = SumOn(f, S)
    BY <1>2, FlowIsSum
  <2>. HIDE DEF f, g
  <2>4. SumOn(f, Live \ S) = SumOn(f, Live) - SumOn(f, S)
    BY <2>2, SumDifference
  <2>5. SumOn(g, Live \ S) = SumOn(f, Live \ S)
    <3>1. \A j \in Live \ S : f[j] \in Int /\ f[j] = g[j]
      BY <2>1, <2>2
    <3>. QED  BY <2>2, <3>1, SumSame
  <2>. QED  BY <1>5, <2>3, <2>4, <2>5 DEF Sum, f, g
<1>11. \A j \in Posted' : move'[j] \in Movement
  BY <1>4, <1>5 DEF Posted
<1>. QED  BY <1>4, <1>5, <1>7, <1>8, <1>9, <1>10, <1>11

-----------------------------------------------------------------------------
(* The steps. *)

LEMMA RowsExist ==
  ASSUME TablesTyped, NEW a \in Ids
  PROVE  /\ Exists(a) <=> account[a] \in Row
         /\ Exists(a) => account[a] # Absent
BY DEF TablesTyped, Exists

\* One row written, and no movement.
LEMMA RowWritten ==
  ASSUME Money, NEW a \in Ids, NEW r, Sound(r, Mine(a), Sum(a)),
         account' = [account EXCEPT ![a] = r], UNCHANGED move
  PROVE  Money'
<1>1. r \in Row /\ r # Absent
  BY DEF Sound
<1>2. /\ account' \in [Ids -> Row \cup {Absent}] /\ account'[a] = r
      /\ \A b \in Ids \ {a} : account'[b] = account[b]
  BY <1>1 DEF Money, TablesTyped
<1>3. TablesTyped'
  BY <1>2, SameMovesSame DEF Money, TablesTyped
<1>4. Numbered'
  BY SameMovesSame DEF Money, Numbered
<1>5. Named'
  BY <1>1, <1>2, SameMovesSame DEF Money, Named, Exists
<1>6. AllSound'
  <2>. SUFFICES ASSUME NEW b \in Ids, Exists(b)'
                PROVE  Sound(account'[b], Mine(b), Sum(b))
    BY SameMovesSame DEF AllSound, Sound, Traced
  <2>. QED  BY <1>2 DEF Money, AllSound, Exists
<1>. QED  BY <1>3, <1>4, <1>5, <1>6 DEF Money

LEMMA NothingWritten ==
  ASSUME Money, UNCHANGED <<account, move>>
  PROVE  Money'
<1>1. TablesTyped' /\ Numbered' /\ Named'
  BY SameMovesSame DEF Money, TablesTyped, Numbered, Named, Exists
<1>2. AllSound'
  BY SameMovesSame DEF Money, AllSound, Exists, Sound, Traced
<1>. QED  BY <1>1, <1>2 DEF Money

\* No movement touches an account that is new.
LEMMA MoneyCreate ==
  ASSUME IInv, Money, NEW a \in Ids, CreateAccount(a)
  PROVE  Money'
<1>1. PICK o \in Openings :
        account' = [account EXCEPT ![a] =
          [source |-> "transaction_flow", status |-> "active", deleted |-> FALSE,
           reserve |-> FALSE, balance |-> o, vals |-> <<[value |-> o, by |-> 0]>>]]
  BY DEF CreateAccount
<1>. DEFINE v == [value |-> o, by |-> 0]
            row == [source |-> "transaction_flow", status |-> "active", deleted |-> FALSE,
                    reserve |-> FALSE, balance |-> o, vals |-> <<v>>]
<1>2. \A i \in Posted : ~Touches(i, a)
  BY DEF IInv, Types, CreateAccount, Money, Named
<1>3. Sum(a) = 0
  <2>1. \A i \in Live : FlowFn(a)[i] = 0
    BY <1>2 DEF FlowFn, Flow, Touches, Live, Posted
  <2>. QED  BY <2>1, MovesFinite, SumZero DEF Sum
<1>4. /\ v \in Valuation /\ v.value = o /\ v.by = 0 /\ o \in Int
  BY DEF Valuation
<1>. HIDE DEF v
<1>5. row \in Row
  BY <1>4 DEF Row
<1>6. Sound(row, Mine(a), Sum(a))
  BY <1>3, <1>4, <1>5 DEF Sound, Traced
<1>7. UNCHANGED move
  BY DEF CreateAccount
<1>. HIDE DEF row
<1>. QED  BY <1>1, <1>6, <1>7, RowWritten DEF row, v

\* Fields that say nothing of the balance.
LEMMA FieldSound ==
  ASSUME NEW r, NEW mine, NEW flow, Sound(r, mine, flow)
  PROVE  /\ \A x \in {"active", "closed"} : Sound([r EXCEPT !.status = x], mine, flow)
         /\ \A x \in BOOLEAN : (x => r.source # "valuation") =>
              Sound([r EXCEPT !.reserve = x], mine, flow)
<1>1. ASSUME NEW q, q \in Row, q.vals = r.vals, q.balance = r.balance, q.source = r.source,
             q.deleted = r.deleted, q.reserve => q.source # "valuation" \/ r.reserve
      PROVE  Sound(q, mine, flow)
  BY <1>1 DEF Sound, Traced
<1>2. ASSUME NEW x \in {"active", "closed"} PROVE Sound([r EXCEPT !.status = x], mine, flow)
  <2>. DEFINE q == [r EXCEPT !.status = x]
  <2>1. /\ q \in Row /\ q.vals = r.vals /\ q.balance = r.balance /\ q.source = r.source
        /\ q.deleted = r.deleted /\ q.reserve = r.reserve
    BY DEF Sound, Row
  <2>. HIDE DEF q
  <2>2. Sound(q, mine, flow)
    BY <1>1, <2>1
  <2>. QED  BY <2>2 DEF q
<1>3. ASSUME NEW x \in BOOLEAN, x => r.source # "valuation"
      PROVE  Sound([r EXCEPT !.reserve = x], mine, flow)
  <2>. DEFINE q == [r EXCEPT !.reserve = x]
  <2>1. /\ q \in Row /\ q.vals = r.vals /\ q.balance = r.balance /\ q.source = r.source
        /\ q.deleted = r.deleted /\ q.reserve = x
    BY DEF Sound, Row
  <2>. HIDE DEF q
  <2>2. Sound(q, mine, flow)
    BY <1>1, <1>3, <2>1
  <2>. QED  BY <2>2 DEF q
<1>. QED  BY <1>2, <1>3

LEMMA MoneyEdits ==
  ASSUME Money, NEW a \in Ids,
         UpdateAccount(a) \/ ArchiveAccount(a) \/ ReactivateAccount(a)
  PROVE  Money'
<1>1. Sound(account[a], Mine(a), Sum(a)) /\ UNCHANGED move
  BY DEF UpdateAccount, ArchiveAccount, ReactivateAccount, SetActiveState, Money, AllSound
<1>2. CASE UpdateAccount(a)
  <2>1. PICK x \in BOOLEAN : /\ x => account[a].source = "transaction_flow"
                             /\ account' = [account EXCEPT ![a].reserve = x]
    BY <1>2 DEF UpdateAccount
  <2>. DEFINE q == [account[a] EXCEPT !.reserve = x]
  <2>2. Sound(q, Mine(a), Sum(a))
    BY <1>1, <2>1, FieldSound
  <2>3. account' = [account EXCEPT ![a] = q]
    BY <2>1 DEF Money, TablesTyped
  <2>. HIDE DEF q
  <2>. QED  BY <1>1, <2>2, <2>3, RowWritten
<1>3. CASE ArchiveAccount(a) \/ ReactivateAccount(a)
  <2>1. PICK x \in {"active", "closed"} : account' = [account EXCEPT ![a].status = x]
    BY <1>3 DEF ArchiveAccount, ReactivateAccount, SetActiveState
  <2>. DEFINE q == [account[a] EXCEPT !.status = x]
  <2>2. Sound(q, Mine(a), Sum(a))
    BY <1>1, FieldSound
  <2>3. account' = [account EXCEPT ![a] = q]
    BY <2>1 DEF Money, TablesTyped
  <2>. HIDE DEF q
  <2>. QED  BY <1>1, <2>2, <2>3, RowWritten
<1>. QED  BY <1>2, <1>3

LEMMA MoneyEnable ==
  ASSUME Money, NEW a \in Ids, EnableHoldingsTracking(a)
  PROVE  Money'
<1>. DEFINE r == account[a]
            q == [r EXCEPT !.source = "valuation"]
<1>1. /\ Sound(r, Mine(a), Sum(a)) /\ ~r.deleted /\ ~r.reserve
      /\ account' = [account EXCEPT ![a] = Switched(a)] /\ UNCHANGED move
  BY DEF EnableHoldingsTracking, Eligible, Writable, Exists, Money, AllSound
<1>2. /\ q \in Row /\ q.vals = r.vals /\ q.source = "valuation"
      /\ ~q.deleted /\ ~q.reserve /\ r.balance \in Int
  BY <1>1 DEF Sound, Row
<1>3. Traced(q, Mine(a))
  BY <1>1, <1>2 DEF Sound, Traced
<1>4. Switched(a) = Revalued(q, r.balance, 0)
  BY DEF Switched
<1>. HIDE DEF q, r
<1>5. 0 \in 0..MaxMoves
  OBVIOUS
<1>6. Sound(Revalued(q, r.balance, 0), Mine(a), Sum(a))
  BY <1>2, <1>3, <1>5, RevaluedSound
<1>. QED  BY <1>1, <1>4, <1>6, RowWritten

LEMMA MoneyUpsert ==
  ASSUME Money, NEW a \in Ids, UpsertHolding(a)
  PROVE  Money'
<1>. DEFINE r == account[a]
<1>1. /\ Sound(r, Mine(a), Sum(a)) /\ ~r.deleted /\ r.source = "valuation"
      /\ account' = [account EXCEPT ![a] = Revalued(r, r.balance + 1, 0)] /\ UNCHANGED move
  BY DEF UpsertHolding, Holdable, Target, Tracked, Writable, Exists, Money, AllSound
<1>2. r \in Row /\ ~r.reserve /\ r.balance + 1 \in Int /\ Traced(r, Mine(a))
  BY <1>1, RowFields DEF Sound
<1>. HIDE DEF r
<1>3. 0 \in 0..MaxMoves
  OBVIOUS
<1>4. Sound(Revalued(r, r.balance + 1, 0), Mine(a), Sum(a))
  BY <1>1, <1>2, <1>3, RevaluedSound
<1>. QED  BY <1>1, <1>4, RowWritten

\* A posted movement: its number is new, and each row takes its share.
LEMMA MoneyPost ==
  ASSUME Money, NEW m \in Requested, Post(m)
  PROVE  Money'
<1>. DEFINE from == [account EXCEPT ![m.from].balance = @ - 1]
            source == [account[m.from] EXCEPT !.balance = account[m.from].balance - 1]
<1>1. PICK i : /\ i = Cardinality(Posted) + 1
               /\ account' = Paid(m, i) /\ move' = [move EXCEPT ![i] = m]
  BY DEF Post
<1>2. /\ m.from \in Ids /\ Writable(m.from) /\ ~Tracked(account, m.from)
      /\ Posted # MoveId
      /\ m.kind # "spend" =>
           /\ m.to # m.from /\ m.to \in Ids /\ Writable(m.to)
           /\ Tracked(account, m.to) <=> m.kind \in {"move", "trade"}
      /\ m.kind = "spend" => m.to \notin Ids
  BY DEF Post, Target, Requested
<1>3. /\ i \in MoveId \ Posted
      /\ Numbered' /\ move' \in [MoveId -> Movement \cup {Absent}]
      /\ \A j \in Posted' : move'[j] \in Movement
      /\ Posted' = Posted \cup {i} /\ move'[i] = m
      /\ \A j \in Posted : move'[j] = move[j]
      /\ \A a : Mine(a)' = IF a \in {m.from, m.to} THEN Mine(a) \cup {i} ELSE Mine(a)
      /\ \A a : Sum(a)' = Sum(a) + (IF m.from = a THEN -1 ELSE 0)
                            + (IF m.kind = "transfer" /\ m.to = a THEN 1 ELSE 0)
  BY <1>1, <1>2, PostedFacts DEF Money
<1>4. /\ Sound(account[m.from], Mine(m.from), Sum(m.from))
      /\ m.kind # "spend" => Sound(account[m.to], Mine(m.to), Sum(m.to))
      /\ \A a : Sum(a) \in Int
      /\ account[m.from].balance \in Int
  <2>1. /\ Sound(account[m.from], Mine(m.from), Sum(m.from))
        /\ m.kind # "spend" => Sound(account[m.to], Mine(m.to), Sum(m.to))
    BY <1>2 DEF Money, AllSound, Writable
  <2>. QED  BY <2>1, SumIsInt, RowFields DEF Sound
<1>5. /\ from \in [Ids -> Row \cup {Absent}] /\ from[m.from] = source
      /\ \A a \in Ids \ {m.from} : from[a] = account[a]
  <2>1. source \in Row
    BY <1>4 DEF Sound, Row
  <2>2. from = [account EXCEPT ![m.from] = source]
    BY <1>2 DEF Money, TablesTyped
  <2>. HIDE DEF source, from
  <2>. QED  BY <1>2, <2>1, <2>2 DEF Money, TablesTyped
<1>6. Sound(source, Mine(m.from)', Sum(m.from)')
  <2>1. Sum(m.from)' = Sum(m.from) - 1
    BY <1>2, <1>3, <1>4 DEF Requested
  <2>2. /\ account[m.from].balance - 1 \in Int /\ Sum(m.from) - 1 \in Int
        /\ account[m.from].balance - 1 = account[m.from].balance + (Sum(m.from) - 1) - Sum(m.from)
        /\ account[m.from].source # "valuation"
    BY <1>2, <1>4 DEF Tracked
  <2>. QED  BY <1>4, <2>1, <2>2, BalanceSound
<1>. HIDE DEF from, source
<1>7. /\ account' \in [Ids -> Row \cup {Absent}]
      /\ account'[m.from] = source
      /\ \A a \in Ids \ {m.from, m.to} : account'[a] = account[a]
      /\ m.kind # "spend" => Sound(account'[m.to], Mine(m.to)', Sum(m.to)')
  <2>1. CASE m.kind = "spend"
    <3>1. account' = from
      BY <1>1, <2>1 DEF Paid, from
    <3>. QED  BY <1>2, <1>5, <2>1, <3>1
  <2>2. CASE m.kind = "transfer"
    <3>. DEFINE r == account[m.to]
                q == [r EXCEPT !.balance = r.balance + 1]
    <3>1. account' = [from EXCEPT ![m.to].balance = @ + 1]
      BY <1>1, <2>2 DEF Paid, from
    <3>2. from[m.to] = r /\ m.to \in Ids /\ r.source # "valuation"
      BY <1>2, <1>5, <2>2 DEF Tracked
    <3>3. Sum(m.to)' = Sum(m.to) + 1
      BY <1>2, <1>3, <1>4, <2>2
    <3>4. Sound(q, Mine(m.to)', Sum(m.to)')
      <4>1. r.balance \in Int
        BY <1>4, <2>2, RowFields DEF Sound
      <4>2. r.balance + 1 \in Int /\ Sum(m.to) + 1 \in Int
            /\ r.balance + 1 = r.balance + (Sum(m.to) + 1) - Sum(m.to)
        BY <1>4, <4>1
      <4>. QED  BY <1>4, <2>2, <3>2, <3>3, <4>2, BalanceSound
    <3>5. account' = [from EXCEPT ![m.to] = q] /\ q \in Row
      BY <1>5, <3>1, <3>2, <3>4 DEF Sound
    <3>. HIDE DEF q
    <3>. QED  BY <1>2, <1>5, <2>2, <3>4, <3>5
  <2>3. CASE m.kind \in {"move", "trade"}
    <3>. DEFINE r == account[m.to]
                q == Revalued(r, r.balance + 1, i)
    <3>1. account' = [from EXCEPT ![m.to] = Revalued(@, @.balance + 1, i)]
      BY <1>1, <2>3 DEF Paid, from
    <3>2. from[m.to] = r /\ m.to \in Ids /\ r.source = "valuation" /\ ~r.deleted
      BY <1>2, <1>5, <2>3 DEF Tracked, Writable
    <3>3. r \in Row /\ ~r.reserve /\ r.balance + 1 \in Int /\ Traced(r, Mine(m.to))
      BY <1>4, <2>3, <3>2, RowFields DEF Sound
    <3>4. Mine(m.to) \subseteq Mine(m.to)' /\ i \in Mine(m.to)' /\ i \in 0..MaxMoves
      BY <1>3 DEF MoveId
    <3>5. Sound(q, Mine(m.to)', Sum(m.to)')
      BY <3>2, <3>3, <3>4, RevaluedSound
    <3>6. account' = [from EXCEPT ![m.to] = q] /\ q \in Row
      BY <1>5, <3>1, <3>2, <3>5 DEF Sound
    <3>. HIDE DEF q
    <3>. QED  BY <1>2, <1>5, <2>3, <3>5, <3>6
  <2>. QED  BY <2>1, <2>2, <2>3 DEF Requested, Kinds
<1>8. ASSUME NEW a \in Ids \ {m.from, m.to}, Exists(a)
      PROVE  Sound(account'[a], Mine(a)', Sum(a)')
  <2>1. Sum(a)' = Sum(a) /\ Mine(a)' = Mine(a)
    BY <1>3, <1>4
  <2>2. Sound(account[a], Mine(a), Sum(a))
    BY <1>8 DEF Money, AllSound
  <2>. QED  BY <1>7, <2>1, <2>2
<1>9. \A a \in Ids : Exists(a) => Sound(account'[a], Mine(a)', Sum(a)')
  BY <1>2, <1>6, <1>7, <1>8
<1>10. \A a \in Ids : Exists(a)' <=> Exists(a)
  <2>1. source \in Row /\ (m.kind # "spend" => account'[m.to] \in Row)
    BY <1>6, <1>7 DEF Sound
  <2>. QED  BY <1>2, <1>7, <2>1 DEF Exists, Writable
<1>11. Named'
  BY <1>2, <1>3, <1>10 DEF Money, Named, Touches, Writable
<1>12. AllSound'
  BY <1>9, <1>10 DEF AllSound, Sound, Traced
<1>. QED  BY <1>3, <1>7, <1>11, <1>12 DEF Money, TablesTyped

\* Movements that are reversed take their share of every balance with them.
LEMMA MoneyUndone ==
  ASSUME Money, NEW S \in SUBSET Live, account' = Undone(S), Tombstone(S)
  PROVE  Money'
<1>1. /\ Numbered' /\ move' \in [MoveId -> Movement \cup {Absent}]
      /\ \A j \in Posted' : move'[j] \in Movement
      /\ Posted' = Posted
      /\ \A j \in Posted : \A a : Touches(j, a)' <=> Touches(j, a)
      /\ \A a : Mine(a)' = Mine(a) \ S
      /\ \A a : Sum(a)' = Sum(a) - FlowOf(S, a)
  BY UndoneFacts DEF Money
<1>2. S \in SUBSET MoveId /\ 0 \notin S
  BY DEF Live, Posted, MoveId
<1>3. ASSUME NEW a \in Ids, Exists(a)
      PROVE  Sound(account'[a], Mine(a)', Sum(a)')
  <2>. DEFINE r == account[a]
              sum == r.balance - FlowOf(S, a)
              vals == Remaining(r.vals, S)
              worth == Worth(vals)
  <2>1. Sound(r, Mine(a), Sum(a)) /\ Sum(a) \in Int /\ FlowOf(S, a) \in Int /\ r.balance \in Int
    BY <1>2, <1>3, SumIsInt, FlowIsSum, RowFields DEF Money, AllSound, Sound
  <2>2. CASE \A i \in S : ~Touches(i, a)
    <3>1. account'[a] = r
      BY <1>3, <2>2 DEF Undone
    <3>2. Mine(a)' = Mine(a)
      BY <1>1, <2>2 DEF Mine
    <3>3. FlowOf(S, a) = 0
      <4>1. \A i \in S : FlowFn(a)[i] = 0
        BY <1>2, <2>2 DEF FlowFn, Flow, Touches
      <4>. QED  BY <1>2, <4>1, MovesFinite, FlowIsSum, SumZero
    <3>4. Sum(a)' = Sum(a)
      BY <1>1, <2>1, <3>3
    <3>. QED  BY <2>1, <3>1, <3>2, <3>4
  <2>3. CASE (\E i \in S : Touches(i, a)) /\ Tracked(account, a)
    <3>1. account'[a] = [r EXCEPT !.vals = vals, !.balance = worth]
      BY <1>3, <2>3, Zenon DEF Undone
    <3>2. \A i \in Mine(a) : i \in S \/ i \in Mine(a)'
      BY <1>1
    <3>3. Sound([r EXCEPT !.vals = vals, !.balance = worth], Mine(a)', Sum(a)')
      BY <1>2, <2>1, <2>3, <3>2, RemainingSound DEF Tracked
    <3>. QED  BY <3>1, <3>3
  <2>4. CASE (\E i \in S : Touches(i, a)) /\ ~Tracked(account, a)
    <3>1. account'[a] = [r EXCEPT !.balance = sum]
      BY <1>3, <2>4, Zenon DEF Undone
    <3>2. /\ sum \in Int /\ Sum(a)' \in Int /\ sum = r.balance + Sum(a)' - Sum(a)
      BY <1>1, <2>1
    <3>3. r.source # "valuation"
      BY <2>4 DEF Tracked
    <3>. HIDE DEF sum, r
    <3>. QED  BY <2>1, <3>1, <3>2, <3>3, BalanceSound
  <2>. QED  BY <2>2, <2>3, <2>4
<1>4. \A a \in Ids : (Exists(a)' <=> Exists(a)) /\ (~Exists(a) => account'[a] = account[a])
  <2>. TAKE a \in Ids
  <2>1. Exists(a) => account'[a] \in Row
    BY <1>3 DEF Sound
  <2>2. ~Exists(a) => account'[a] = account[a]
    BY DEF Undone
  <2>. QED  BY <2>1, <2>2 DEF Exists
<1>5. account' \in [Ids -> Row \cup {Absent}]
  <2>1. account' = [a \in Ids |-> account'[a]]
    BY DEF Undone
  <2>2. \A a \in Ids : account'[a] \in Row \cup {Absent}
    BY <1>3, <1>4 DEF Sound, Money, TablesTyped
  <2>. QED  BY <2>1, <2>2
<1>6. Named'
  BY <1>1, <1>4 DEF Money, Named
<1>7. AllSound'
  BY <1>3, <1>4 DEF AllSound, Sound, Traced
<1>. QED  BY <1>1, <1>5, <1>6, <1>7 DEF Money, TablesTyped

\* An account is removed only when no movement names it.
LEMMA MoneyFinish ==
  ASSUME IInv, Money, NEW h \in Handlers, Finish(h)
  PROVE  Money'
<1>0. PICK a \in Ids : a = handler[h].acc
  BY DEF Finish, IInv, Progress
<1>1. Exists(a) /\ UNCHANGED move /\ Sound(account[a], Mine(a), Sum(a))
  BY <1>0 DEF Finish, Money, AllSound
<1>2. CASE handler[h].history
  <2>. DEFINE q == [account[a] EXCEPT !.deleted = TRUE, !.status = "closed", !.vals = <<>>]
  <2>1. account' = [account EXCEPT ![a].deleted = TRUE, ![a].status = "closed", ![a].vals = <<>>]
    BY <1>0, <1>2 DEF Finish
  <2>2. account' = [account EXCEPT ![a] = q]
    BY <2>1 DEF Money, TablesTyped
  <2>3. q \in Row /\ q.deleted = TRUE
    <3>1. account[a] \in Row
      BY <1>1 DEF Sound
    <3>2. <<>> \in Seq(Valuation)
      OBVIOUS
    <3>. QED  BY <3>1, <3>2 DEF Row
  <2>. HIDE DEF q
  <2>4. Sound(q, Mine(a), Sum(a))
    BY <2>3 DEF Sound
  <2>. QED  BY <1>1, <2>2, <2>4, RowWritten
<1>3. CASE ~handler[h].history
  <2>1. ~Referenced(a) /\ account' = [account EXCEPT ![a] = Absent]
    BY <1>0, <1>3 DEF Finish
  <2>2. /\ account' \in [Ids -> Row \cup {Absent}] /\ account'[a] = Absent
        /\ \A b \in Ids \ {a} : account'[b] = account[b]
    BY <2>1 DEF Money, TablesTyped
  <2>3. TablesTyped' /\ Numbered'
    BY <1>1, <2>2, SameMovesSame DEF Money, TablesTyped, Numbered
  <2>4. Named'
    BY <1>1, <2>1, <2>2, SameMovesSame DEF Money, Named, Exists, Referenced
  <2>5. AllSound'
    BY <1>1, <2>2, SameMovesSame DEF Money, AllSound, Exists, Sound, Traced
  <2>. QED  BY <2>3, <2>4, <2>5 DEF Money
<1>. QED  BY <1>2, <1>3

LEMMA MoneyInitially == Init => Money
<1>. SUFFICES ASSUME Init PROVE Money
  OBVIOUS
<1>1. Posted = {} /\ \A a \in Ids : ~Exists(a)
  BY DEF Init, Posted, Exists
<1>2. Numbered
  <2>1. 0 \in 0..MaxMoves /\ Posted = 1..0
    BY <1>1
  <2>. QED  BY <2>1 DEF Numbered
<1>. QED  BY <1>1, <1>2 DEF Init, Money, TablesTyped, Named, AllSound

LEMMA MoneyInductive == IInv /\ Money /\ [Next]_vars => Money'
<1>. SUFFICES ASSUME IInv, Money, [Next]_vars PROVE Money'
  OBVIOUS
<1>1. CASE Calls
  <2>1. ASSUME NEW i \in MoveId, DeleteTransaction(i) PROVE Money'
    <3>1. {i} \in SUBSET Live /\ account' = Undone({i}) /\ Tombstone({i})
      BY <2>1 DEF DeleteTransaction
    <3>. QED  BY <3>1, MoneyUndone
  <2>. QED  BY <1>1, <2>1, MoneyCreate, MoneyEdits, MoneyEnable, MoneyUpsert, MoneyPost DEF Calls
<1>2. ASSUME NEW h \in Handlers, Step(h) \/ Die(h) \/ \E a \in Ids : Begin(h, a)
      PROVE  Money'
  <2>1. CASE ReadAccount(h) \/ CountHistory(h) \/ Record(h) \/ Refuse(h) \/ Die(h)
             \/ \E a \in Ids : Begin(h, a)
    BY <2>1, NothingWritten DEF ReadAccount, CountHistory, Record, Refuse, Die, Begin, ledger
  <2>2. CASE Drain(h)
    <3>1. CASE UNCHANGED <<account, move>>
      BY <3>1, NothingWritten
    <3>2. ASSUME NEW S \in Chunks(handler[h].acc), account' = Undone(S), Tombstone(S)
          PROVE  Money'
      BY <3>2, MoneyUndone DEF Chunks
    <3>. QED  BY <2>2, <3>1, <3>2 DEF Drain
  <2>. QED  BY <1>2, <2>1, <2>2, MoneyFinish DEF Step
<1>3. CASE UNCHANGED vars
  BY <1>3, NothingWritten DEF vars
<1>. QED  BY <1>1, <1>2, <1>3 DEF Next

LEMMA MoneyAlways == Spec => []Money
<1>1. Init /\ []IInv /\ [][Next]_vars => []Money
  BY MoneyInitially, MoneyInductive, PTL
<1>. QED  BY <1>1, Always, PTL DEF Spec

-----------------------------------------------------------------------------
(* The types of the calls. *)

HandlerState == [pc: {"read", "count", "drain", "final", "record"}, acc: Ids, history: BOOLEAN]

LEMMA StateTyped ==
  ASSUME NEW pc \in {"read", "count", "drain", "final", "record"}, NEW a \in Ids,
         NEW history \in BOOLEAN
  PROVE  At(pc, a, history) \in HandlerState
BY DEF At, HandlerState

LEMMA Went ==
  ASSUME IInv, CallsTyped, NEW h \in Handlers, NEW state, Goto(h, state),
         state = Idle \/ state \in HandlerState
  PROVE  \A k \in Handlers : handler'[k] = Idle \/ handler'[k] \in HandlerState
<1>1. \A k \in Handlers : handler'[k] = IF k = h THEN state ELSE handler[k]
  BY DEF IInv, Types, Goto
<1>. QED  BY <1>1 DEF CallsTyped, HandlerState

LEMMA CallsTypedKept ==
  ASSUME IInv, CallsTyped, Money, [Next]_vars
  PROVE  CallsTyped'
<1>1. CASE Calls
  <2>1. ASSUME NEW a \in Ids,
               \/ CreateAccount(a) \/ UpdateAccount(a) \/ EnableHoldingsTracking(a)
               \/ ArchiveAccount(a) \/ ReactivateAccount(a) \/ UpsertHolding(a)
        PROVE  CallsTyped'
    BY <2>1 DEF CreateAccount, UpdateAccount, EnableHoldingsTracking, ArchiveAccount,
                ReactivateAccount, SetActiveState, UpsertHolding, CallsTyped, deletion
  <2>2. ASSUME NEW m \in Requested, Post(m) PROVE CallsTyped'
    <3>1. PICK i : /\ i = Cardinality(Posted) + 1 /\ move' = [move EXCEPT ![i] = m]
                   /\ late' = late \/ late' = late \cup {i}
      BY <2>2 DEF Post
    <3>2. i \in MoveId
      BY <2>2, <3>1, PostedFacts DEF Post, Money
    <3>3. m.kind = "trade" => m.to \in Ids
      BY DEF Requested
    <3>4. held' = held \/ (m.kind = "trade" /\ held' = held \cup {m.to})
      BY <2>2 DEF Post
    <3>5. UNCHANGED <<born, handler, deletes, acked>>
      BY <2>2 DEF Post, deletion
    <3>. QED  BY <3>1, <3>2, <3>3, <3>4, <3>5 DEF CallsTyped
  <2>3. ASSUME NEW i \in MoveId, DeleteTransaction(i) PROVE CallsTyped'
    BY <2>3 DEF DeleteTransaction, CallsTyped, deletion
  <2>. QED  BY <1>1, <2>1, <2>2, <2>3 DEF Calls
<1>2. ASSUME NEW h \in Handlers, Step(h) \/ Die(h) \/ \E a \in Ids : Begin(h, a)
      PROVE  CallsTyped'
  <2>. SUFFICES /\ \A k \in Handlers : handler'[k] = Idle \/ handler'[k] \in HandlerState
                /\ UNCHANGED <<born, held, late>>
                /\ acked' \subseteq Ids /\ deletes' \in 0..MaxDeletes
    BY DEF CallsTyped, HandlerState
  <2>0. /\ handler[h].pc # "idle" => handler[h].acc \in Ids
        /\ handler[h] = Idle \/ handler[h] \in HandlerState
        /\ acked \subseteq Ids /\ deletes \in 0..MaxDeletes
        /\ \A k \in Handlers : handler[k] = Idle \/ handler[k] \in HandlerState
    BY DEF IInv, Progress, CallsTyped, HandlerState
  <2>1. ASSUME NEW a \in Ids, Begin(h, a)
        PROVE  /\ \A k \in Handlers : handler'[k] = Idle \/ handler'[k] \in HandlerState
               /\ UNCHANGED <<born, held, late>>
               /\ acked' \subseteq Ids /\ deletes' \in 0..MaxDeletes
    <3>1. At("read", a, FALSE) \in HandlerState
      BY StateTyped
    <3>2. /\ Goto(h, At("read", a, FALSE)) /\ UNCHANGED <<born, held, late, acked>>
          /\ deletes < MaxDeletes /\ deletes' = deletes + 1
      BY <2>1 DEF Begin, ledger
    <3>3. \A k \in Handlers : handler'[k] = Idle \/ handler'[k] \in HandlerState
      BY <3>1, <3>2, Went
    <3>. QED  BY <2>0, <3>2, <3>3
  <2>2. CASE ReadAccount(h)
    <3>. DEFINE pc == IF Writable(handler[h].acc) THEN "count" ELSE "record"
    <3>1. Goto(h, At(pc, handler[h].acc, FALSE)) /\ handler[h].acc \in Ids
      BY <2>0, <2>2 DEF ReadAccount
    <3>2. At(pc, handler[h].acc, FALSE) \in HandlerState
      BY <3>1, StateTyped
    <3>. QED  BY <2>0, <2>2, <3>1, <3>2, Went DEF ReadAccount, ledger
  <2>3. CASE CountHistory(h)
    <3>1. PICK history \in BOOLEAN :
            Goto(h, At(IF history THEN "drain" ELSE "final", handler[h].acc, history))
      BY <2>3 DEF CountHistory
    <3>2. At(IF history THEN "drain" ELSE "final", handler[h].acc, history) \in HandlerState
      BY <2>0, <2>3, StateTyped DEF CountHistory
    <3>. QED  BY <2>0, <2>3, <3>1, <3>2, Went DEF CountHistory, ledger
  <2>4. CASE Drain(h)
    <3>1. At("final", handler[h].acc, TRUE) \in HandlerState
      BY <2>0, <2>4, StateTyped DEF Drain
    <3>2. UNCHANGED handler \/ Goto(h, At("final", handler[h].acc, TRUE))
      BY <2>4 DEF Drain
    <3>3. UNCHANGED <<born, held, late, acked, deletes>>
      BY <2>4 DEF Drain
    <3>4. \A k \in Handlers : handler'[k] = Idle \/ handler'[k] \in HandlerState
      BY <2>0, <3>1, <3>2, Went
    <3>. QED  BY <2>0, <3>3, <3>4
  <2>5. CASE Finish(h)
    <3>1. At("record", handler[h].acc, FALSE) \in HandlerState
      BY <2>0, <2>5, StateTyped DEF Finish
    <3>2. Goto(h, At("record", handler[h].acc, FALSE)) /\ UNCHANGED <<born, held, late, acked, deletes>>
      BY <2>5 DEF Finish
    <3>. QED  BY <2>0, <3>1, <3>2, Went
  <2>6. CASE Record(h) \/ Refuse(h) \/ Die(h)
    <3>1. Goto(h, Idle) /\ UNCHANGED <<born, held, late, deletes>>
      BY <2>6 DEF Record, Refuse, Die, ledger
    <3>2. acked' = acked \/ (acked' = acked \cup {handler[h].acc} /\ handler[h].pc # "idle")
      BY <2>6 DEF Record, Refuse, Die
    <3>. QED  BY <2>0, <3>1, <3>2, Went
  <2>. QED  BY <1>2, <2>1, <2>2, <2>3, <2>4, <2>5, <2>6 DEF Step
<1>3. CASE UNCHANGED vars
  BY <1>3 DEF vars, CallsTyped
<1>. QED  BY <1>1, <1>2, <1>3 DEF Next

-----------------------------------------------------------------------------
(* What the invariants say. *)

\* Every variable has its type; an account that is open has a valuation, and none
\* that is tracked has a reserve.
THEOREM TypeCorrect == Spec => []TypeOK
<1>1. Init => CallsTyped
  BY DEF Init, CallsTyped
<1>2. Init /\ []IInv /\ []Money /\ [][Next]_vars => []CallsTyped
  BY <1>1, CallsTypedKept, PTL
<1>3. Money /\ CallsTyped => TypeOK
  <2>1. ASSUME Money, NEW a \in Ids, Writable(a)
        PROVE  account[a].vals # <<>> /\ ~(Tracked(account, a) /\ account[a].reserve)
    <3>1. Sound(account[a], Mine(a), Sum(a)) /\ ~account[a].deleted
      BY <2>1 DEF Money, AllSound, Writable
    <3>2. (\E n \in 1..Len(account[a].vals) : TRUE) /\ account[a].vals \in Seq(Valuation)
      BY <3>1, RowFields DEF Sound, Traced
    <3>. QED  BY <3>1, <3>2 DEF Sound, Tracked
  <2>. QED  BY <2>1 DEF Money, TablesTyped, CallsTyped, TypeOK
<1>. QED  BY <1>2, <1>3, Always, MoneyAlways, PTL DEF Spec

\* Between any two steps of a deletion, and after a crash in one, an account that
\* is left has the balance its live rows say, and no valuation outlives the
\* movement that wrote it.
THEOREM BalancesFollow == Spec => []BalanceFollowsLiveRows
<1>1. Money => BalanceFollowsLiveRows
  <2>1. ASSUME Money, NEW a \in Ids, Writable(a)
        PROVE  /\ account[a].balance =
                    IF Tracked(account, a) THEN Last(account[a].vals).value
                    ELSE Head(account[a].vals).value + FlowOf(Live, a)
               /\ \A n \in DOMAIN account[a].vals : account[a].vals[n].by \in Live \cup {0}
    <3>1. Sound(account[a], Mine(a), Sum(a)) /\ ~account[a].deleted
      BY <2>1 DEF Money, AllSound, Writable
    <3>2. FlowOf(Live, a) = Sum(a)
      BY FlowIsSum, MovesFinite DEF Sum
    <3>3. /\ account[a].vals \in Seq(Valuation) /\ account[a].vals # <<>>
          /\ DOMAIN account[a].vals = 1..Len(account[a].vals)
      BY <3>1, RowFields DEF Sound, Traced
    <3>4. \A n \in DOMAIN account[a].vals : account[a].vals[n].by \in Live \cup {0}
      BY <3>1, <3>3 DEF Sound, Traced, Mine
    <3>5. /\ Last(account[a].vals) = account[a].vals[Len(account[a].vals)]
          /\ Head(account[a].vals) = account[a].vals[1]
      BY <3>3 DEF Last
    <3>. QED  BY <3>1, <3>2, <3>4, <3>5 DEF Sound, Tracked
  <2>. QED  BY <2>1 DEF BalanceFollowsLiveRows
<1>. QED  BY <1>1, MoneyAlways, PTL

\* An account whose deletion was acknowledged never comes back, and no movement is
\* left that names an account which was removed.
THEOREM GoneForGood == Spec => []AcknowledgedMeansGone
<1>1. IInv /\ Money => AcknowledgedMeansGone
  BY DEF IInv, Money, Named, AcknowledgedMeansGone
<1>. QED  BY <1>1, Always, MoneyAlways, PTL

\* No switch of an account moves money: a balance changes with the movements, or
\* with the holdings of a tracked account.
THEOREM SwitchesMoveNoMoney == Spec => OnlyMovementsMoveMoney
<1>. DEFINE Unmoved(a) == Exists(a) /\ account'[a] # Absent /\ account'[a].balance # account[a].balance
                       => \/ move' # move
                          \/ Tracked(account', a) /\ a \in held'
<1>1. IInv /\ Money /\ [Next]_vars => [\A a \in Ids : Unmoved(a)]_vars
  <2>. SUFFICES ASSUME IInv, Money, Next, NEW a \in Ids, Exists(a), account'[a] # Absent,
                       account'[a].balance # account[a].balance, move' = move
                PROVE  Tracked(account', a) /\ a \in held'
    BY DEF vars
  <2>0. Sound(account[a], Mine(a), Sum(a)) /\ DOMAIN account = Ids
    BY DEF Money, AllSound, TablesTyped
  <2>1. ASSUME NEW S \in SUBSET Live, Tombstone(S), account' = Undone(S)
        PROVE  FALSE
    <3>1. PICK i \in S : TRUE
      BY <2>1 DEF Undone
    <3>2. i \in MoveId /\ move[i] \in Movement /\ move[i].live
      BY DEF Money, TablesTyped, Live, Posted
    <3>3. move'[i] = [move[i] EXCEPT !.live = FALSE]
      BY <2>1, <3>2 DEF Tombstone
    <3>4. move'[i].live = FALSE
      BY <3>2, <3>3 DEF Movement
    <3>. QED  BY <3>2, <3>4
  <2>2. ASSUME NEW m \in Requested, Post(m) PROVE FALSE
    <3>1. PICK i : i = Cardinality(Posted) + 1 /\ move' = [move EXCEPT ![i] = m]
      BY <2>2 DEF Post
    <3>2. Posted # MoveId
      BY <2>2 DEF Post
    <3>3. i \in MoveId \ Posted /\ Posted' = Posted \cup {i}
      BY <3>1, <3>2, PostedFacts DEF Money
    <3>. QED  BY <3>3 DEF Posted
  <2>3. ASSUME NEW b \in Ids, CreateAccount(b) PROVE FALSE
    BY <2>0, <2>3 DEF CreateAccount, IInv, Types
  <2>4. ASSUME NEW b \in Ids, UpdateAccount(b) \/ ArchiveAccount(b) \/ ReactivateAccount(b)
        PROVE  FALSE
    <3>1. \/ \E x : account' = [account EXCEPT ![b].reserve = x]
          \/ \E x : account' = [account EXCEPT ![b].status = x]
      BY <2>4 DEF UpdateAccount, ArchiveAccount, ReactivateAccount, SetActiveState
    <3>. QED  BY <2>0, <3>1 DEF Sound, Row
  <2>5. ASSUME NEW b \in Ids, EnableHoldingsTracking(b) PROVE FALSE
    <3>. DEFINE r == account[b]
                vals == Append(r.vals, [value |-> r.balance, by |-> 0])
    <3>1. account' = [account EXCEPT ![b] = Switched(b)]
      BY <2>5 DEF EnableHoldingsTracking
    <3>2. r \in Row
      BY <2>5 DEF EnableHoldingsTracking, Eligible, Writable, Money, AllSound, Sound
    <3>3. Worth(vals) = r.balance
      BY <3>2, RowFields DEF Worth, Last
    <3>4. Switched(b) = [[r EXCEPT !.source = "valuation"] EXCEPT !.vals = vals, !.balance = r.balance]
      BY <3>2, <3>3 DEF Switched, Revalued, Row
    <3>5. Switched(b).balance = r.balance
      BY <3>2, <3>4 DEF Row
    <3>. QED  BY <2>0, <3>1, <3>5
  <2>6. ASSUME NEW b \in Ids, UpsertHolding(b) PROVE Tracked(account', a) /\ a \in held'
    <3>. DEFINE r == account[b]
    <3>1. /\ account' = [account EXCEPT ![b] = Revalued(r, r.balance + 1, 0)]
          /\ b \in held' /\ r.source = "valuation" /\ r \in Row
      BY <2>6 DEF UpsertHolding, Holdable, Target, Writable, Tracked, Money, AllSound, Sound
    <3>2. Revalued(r, r.balance + 1, 0).source = "valuation"
      BY <3>1 DEF Revalued, Row
    <3>. QED  BY <2>0, <3>1, <3>2 DEF Tracked
  <2>7. ASSUME NEW i \in MoveId, DeleteTransaction(i) PROVE FALSE
    BY <2>1, <2>7 DEF DeleteTransaction
  <2>8. ASSUME NEW h \in Handlers, Step(h) \/ Die(h) \/ \E b \in Ids : Begin(h, b) PROVE FALSE
    <3>1. CASE Drain(h)
      BY <2>1, <3>1 DEF Drain, Chunks
    <3>2. CASE Finish(h)
      <4>1. PICK b \in Ids :
              \/ account' = [account EXCEPT ![b].deleted = TRUE, ![b].status = "closed",
                                            ![b].vals = <<>>]
              \/ account' = [account EXCEPT ![b] = Absent]
        BY <3>2 DEF Finish, IInv, Progress
      <4>. QED  BY <2>0, <4>1 DEF Sound, Row
    <3>. QED  BY <2>8, <3>1, <3>2 DEF Step, ReadAccount, CountHistory, Record, Refuse, Die, Begin, ledger
  <2>. QED  BY <2>2, <2>3, <2>4, <2>5, <2>6, <2>7, <2>8 DEF Next, Calls
<1>2. Init /\ [][Next]_vars /\ []IInv /\ []Money => [][\A a \in Ids : Unmoved(a)]_vars
  BY <1>1, PTL
<1>. QED  BY <1>2, Always, MoneyAlways, PTL DEF Spec, OnlyMovementsMoveMoney

=============================================================================
