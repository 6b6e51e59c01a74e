------------------------------ MODULE Accounts ------------------------------
(***************************************************************************)
(* The life of accounts (src/src/server/accounts.ts): opening, editing,    *)
(* archiving, the switch of an investment account to holdings tracking,    *)
(* and deletion.                                                           *)
(*                                                                         *)
(* A deletion is a run of separate database transactions: read the         *)
(* account, count its history, drain the live movements a chunk at a time, *)
(* remove or tombstone the account, record the reply.  Other calls commit  *)
(* between two of them and the process may die there.  Every database      *)
(* transaction is SERIALIZABLE, so one action stands for one of them.      *)
(*                                                                         *)
(* A movement is one unit of money: spent from an account, transferred to  *)
(* another (two Transaction rows), or moved into a tracked account (one    *)
(* row and a valuation), plainly or by a trade.  What is moved back out of *)
(* a tracked account is in LinkedTransfer.                                 *)
(***************************************************************************)
EXTENDS Ordering, Integers, FiniteSetsExt, SequencesExt

CONSTANTS
  Ids,          \* account ids that clients may choose
  Investments,  \* the accounts of type INVESTMENT; the others hold cash
  Openings,     \* opening balances
  Edited,       \* bound: the accounts that are edited, archived, reactivated
  Handlers,     \* server-side executions of a deletion that may overlap
  ChunkSize,    \* DELETE_ACCOUNT_CASCADE_CHUNK_SIZE
  MaxMoves,     \* bound on the movements ever posted
  MaxHeld,      \* bound on the valuations that holdings write on their own
  MaxDeletes,   \* bound on the deletion calls ever begun
  Absent        \* no such account, or no such movement

ASSUME AccountsAssumption ==
  /\ Investments \subseteq Ids /\ Edited \subseteq Ids /\ Absent \notin Ids
  /\ Openings \subseteq Nat
  /\ ChunkSize \in Nat \ {0}
  /\ MaxMoves \in Nat /\ MaxHeld \in Nat /\ MaxDeletes \in Nat

VARIABLES
  account,      \* Ids -> Account row with its live valuations
  move,         \* MoveId -> movement
  born,         \* ids given to an account, which clients choose once
  held,         \* accounts that a Holding row refers to
  handler,      \* Handlers -> the deletion it runs
  deletes,      \* how many deletions have begun
  acked,        \* accounts whose deletion has been acknowledged
  late          \* movements posted while a deletion was past its drain

vars == <<account, born, move, held, handler, deletes, acked, late>>

-----------------------------------------------------------------------------
(* Rows. *)

MoveId == 1..MaxMoves
Kinds == {"spend", "transfer", "move", "trade"}
Movement == [kind: Kinds, from: Ids, to: Ids \cup {Absent}, live: BOOLEAN]

\* by: the movement that wrote the valuation, or 0.
Valuation == [value: Int, by: 0..MaxMoves]

Row == [source: {"transaction_flow", "valuation"}, status: {"active", "closed"},
        deleted: BOOLEAN, reserve: BOOLEAN, balance: Int, vals: Seq(Valuation)]

ASSUME AbsentIsNoRow == Absent \notin Row \cup Movement

Exists(a) == account[a] # Absent
Writable(a) == IF Exists(a) THEN ~account[a].deleted ELSE FALSE
Tracked(acc, a) == acc[a].source = "valuation"

Posted == {i \in MoveId : move[i] # Absent}
Live == {i \in Posted : move[i].live}
Touches(i, a) == a \in {move[i].from, move[i].to}

\* What a movement did to the balance of an account that is summed from rows.
Flow(i, a) ==
  (IF move[i].from = a THEN -1 ELSE 0)
    + (IF move[i].kind = "transfer" /\ move[i].to = a THEN 1 ELSE 0)

FlowOf(S, a) == MapThenSumSet(LAMBDA i : Flow(i, a), S)

-----------------------------------------------------------------------------
(* Balances. *)

Worth(vals) == IF vals = <<>> THEN 0 ELSE Last(vals).value

\* createValuationWithinTx: a tracked account is worth its latest valuation.
Revalued(row, value, by) ==
  LET vals == Append(row.vals, [value |-> value, by |-> by])
  IN [row EXCEPT !.vals = vals, !.balance = Worth(vals)]

\* account_normal_balance_sign: only cash accounts may be overdrawn.
Legal(acc) == \A a \in Investments : acc[a] # Absent => acc[a].balance >= 0

\* HoldingsTradeDeleteUnsupportedError and ValuationAccountLedgerError.
Reversible(i) ==
  /\ move[i].kind # "trade"
  /\ ~Tracked(account, move[i].from)
  /\ move[i].kind = "transfer" => ~Tracked(account, move[i].to)

\* Faulty variant: a linked move leaves its valuation behind.
UndoneCash(S) ==
  [a \in Ids |->
     IF ~Exists(a) \/ \A i \in S : ~Touches(i, a) \/ Tracked(account, a) THEN account[a]
     ELSE [account[a] EXCEPT !.balance = @ - FlowOf(S, a)]]

\* The valuations that are left without those the movements S wrote.
Remaining(vals, S) ==
  LET kept == InOrder({n \in DOMAIN vals : vals[n].by \notin S})
  IN [k \in DOMAIN kept |-> vals[kept[k]]]

\* The accounts after the movements S were reversed: a sum loses their flow, a
\* tracked account the valuations they wrote.
Undone(S) ==
  [a \in Ids |->
     IF ~Exists(a) \/ \A i \in S : ~Touches(i, a) THEN account[a]
     ELSE IF Tracked(account, a)
       THEN LET vals == Remaining(account[a].vals, S)
            IN [account[a] EXCEPT !.vals = vals, !.balance = Worth(vals)]
     ELSE [account[a] EXCEPT !.balance = @ - FlowOf(S, a)]]

Tombstone(S) ==
  move' = [i \in MoveId |-> IF i \in S THEN [move[i] EXCEPT !.live = FALSE] ELSE move[i]]

Undoable(S) == (\A i \in S : Reversible(i)) /\ Legal(Undone(S))

-----------------------------------------------------------------------------
(* Calls that are one database transaction. *)

ledger == <<account, born, move, held, late>>
deletion == <<handler, deletes, acked>>

\* createAccountForFamily: the opening balance is the first valuation.
CreateAccount(a) ==
  /\ a \notin born
  /\ born' = born \cup {a}
  /\ \E o \in Openings :
       account' = [account EXCEPT ![a] =
         [source |-> "transaction_flow", status |-> "active", deleted |-> FALSE,
          reserve |-> FALSE, balance |-> o, vals |-> <<[value |-> o, by |-> 0]>>]]
  /\ UNCHANGED <<move, held, late, deletion>>

\* updateAccountForFamily, for the one field that other operations read.
UpdateAccount(a) ==
  /\ Exists(a) /\ a \in Edited
  /\ \E reserve \in BOOLEAN :
       /\ reserve => account[a].source = "transaction_flow"
       /\ account' = [account EXCEPT ![a].reserve = reserve]
  /\ UNCHANGED <<born, move, held, late, deletion>>

\* evaluateHoldingsTrackingEligibility
Eligible(a) ==
  /\ Writable(a) /\ a \in Investments
  /\ account[a].status = "active"
  /\ ~Tracked(account, a)
  /\ ~account[a].reserve

\* Faulty variant: the switch writes no anchor, and the next rebuild finds the
\* opening valuation.
SwitchedBare(a) ==
  [account[a] EXCEPT !.source = "valuation", !.balance = Worth(account[a].vals)]

\* The account under valuation semantics, with the balance as its anchor.
Switched(a) ==
  Revalued([account[a] EXCEPT !.source = "valuation"], account[a].balance, 0)

EnableHoldingsTracking(a) ==
  /\ Eligible(a)
  /\ account' = [account EXCEPT ![a] = Switched(a)]
  /\ UNCHANGED <<born, move, held, late, deletion>>

\* setAccountActiveState: the row is found even when it is deleted.
SetActiveState(a, status) ==
  /\ Exists(a) /\ a \in Edited
  /\ account[a].status # status
  /\ account' = [account EXCEPT ![a].status = status]
  /\ UNCHANGED <<born, move, held, late, deletion>>

ArchiveAccount(a) == SetActiveState(a, "closed")
ReactivateAccount(a) == SetActiveState(a, "active")

\* assertAccountInFamily
Target(a) == Writable(a)

\* The accounts after movement m was posted as the i-th.
Paid(m, i) ==
  LET from == [account EXCEPT ![m.from].balance = @ - 1]
  IN CASE m.kind = "spend" -> from
       [] m.kind = "transfer" -> [from EXCEPT ![m.to].balance = @ + 1]
       [] OTHER -> [from EXCEPT ![m.to] = Revalued(@, @.balance + 1, i)]

\* createTransactionForFamily, and recordTradeForFamily for a trade.  A tracked
\* account with holdings takes trades only (HoldingsAccountLedgerError).
Post(m) ==
  /\ Posted # MoveId
  /\ Target(m.from) /\ ~Tracked(account, m.from)
  /\ m.kind # "spend" =>
       /\ m.to # m.from /\ Target(m.to)
       /\ Tracked(account, m.to) <=> m.kind \in {"move", "trade"}
       /\ m.kind = "move" => m.to \notin held
  /\ LET i == Cardinality(Posted) + 1 IN
       /\ account' = Paid(m, i)
       /\ Legal(account')
       /\ move' = [move EXCEPT ![i] = m]
       /\ late' = IF \E h \in Handlers : handler[h].pc = "final"
                       /\ handler[h].acc \in {m.from, m.to}
                  THEN late \cup {i} ELSE late
  /\ held' = IF m.kind = "trade" THEN held \cup {m.to} ELSE held
  /\ UNCHANGED <<born, deletion>>

\* fetchEligibleAccount: only a tracked account that is there holds positions.
Holdable(a) == Target(a) /\ Tracked(account, a)

\* upsertHoldingForFamily: a position on its own restates the account.
UpsertHolding(a) ==
  /\ Holdable(a)
  /\ Len(account[a].vals) <= MaxHeld
  /\ held' = held \cup {a}
  /\ account' = [account EXCEPT ![a] = Revalued(@, @.balance + 1, 0)]
  /\ UNCHANGED <<born, move, late, deletion>>

\* deleteTransactionForFamily
DeleteTransaction(i) ==
  /\ i \in Live
  /\ Undoable({i})
  /\ account' = Undone({i})
  /\ Tombstone({i})
  /\ UNCHANGED <<born, held, late, deletion>>

-----------------------------------------------------------------------------
(* Deletion (deleteAccountForFamily), a database transaction at a time. *)

Idle == [pc |-> "idle"]
At(pc, a, history) == [pc |-> pc, acc |-> a, history |-> history]
Goto(h, state) == handler' = [handler EXCEPT ![h] = state]

Begin(h, a) ==
  /\ handler[h].pc = "idle"
  /\ deletes < MaxDeletes
  /\ a \in born
  /\ deletes' = deletes + 1
  /\ Goto(h, At("read", a, FALSE))
  /\ UNCHANGED <<ledger, acked>>

\* An account that is gone already is a quiet success.
ReadAccount(h) ==
  /\ handler[h].pc = "read"
  /\ LET a == handler[h].acc
     IN Goto(h, At(IF Writable(a) THEN "count" ELSE "record", a, FALSE))
  /\ UNCHANGED <<ledger, deletes, acked>>

CountHistory(h) ==
  /\ handler[h].pc = "count"
  /\ LET a == handler[h].acc
         history == \E i \in Posted : Touches(i, a)
     IN Goto(h, At(IF history THEN "drain" ELSE "final", a, history))
  /\ UNCHANGED <<ledger, deletes, acked>>

\* Faulty variant: only the rows booked on the account itself are drained.
LegsFrom(a) == {<<i, "out">> : i \in {j \in Live : move[j].from = a}}

\* Faulty variant: the chunk query does not ask for live rows.
LegsEver(a) == {<<i, "out">> : i \in {j \in Posted : Touches(j, a)}}

\* The live Transaction rows that name the account, on either side.
Legs(a) ==
  {<<i, "out">> : i \in {j \in Live : Touches(j, a)}}
    \cup {<<i, "in">> : i \in {j \in Live : Touches(j, a) /\ move[j].kind = "transfer"}}

\* The movements of a chunk.  Its rows are any, as their ids are, and the second
\* leg of a movement is TransactionGoneError, which is swallowed.
Chunks(a) ==
  {{l[1] : l \in legs} \cap Live :
     legs \in kSubset(Min({ChunkSize, Cardinality(Legs(a))}), Legs(a))}

\* cascadeSoftDeleteAccountTransactions: a chunk, or the end of the drain.
Drain(h) ==
  /\ handler[h].pc = "drain"
  /\ LET a == handler[h].acc IN
       IF Legs(a) = {}
       THEN Goto(h, At("final", a, TRUE)) /\ UNCHANGED <<account, move>>
       ELSE /\ \E S \in Chunks(a) :
                 /\ Undoable(S)
                 /\ account' = Undone(S)
                 /\ Tombstone(S)
            /\ UNCHANGED handler
  /\ UNCHANGED <<born, held, late, deletes, acked>>

\* Faulty variant: the foreign keys of Transaction and Holding cascade.
ReferencedNever(a) == FALSE

\* Rows whose foreign key restricts the removal of the account.
Referenced(a) == a \in held \/ \E i \in Posted : Touches(i, a)

\* The last step on the account: removal, or a tombstone for one with history.
Finish(h) ==
  /\ handler[h].pc = "final"
  /\ LET a == handler[h].acc IN
       /\ Exists(a)
       /\ IF handler[h].history
          THEN account' = [account EXCEPT ![a].deleted = TRUE, ![a].status = "closed",
                                          ![a].vals = <<>>]
          ELSE ~Referenced(a) /\ account' = [account EXCEPT ![a] = Absent]
       /\ Goto(h, At("record", a, FALSE))
  /\ UNCHANGED <<born, move, held, late, deletes, acked>>

\* persistIdempotentEndpointResponse, and the reply.
Record(h) ==
  /\ handler[h].pc = "record"
  /\ acked' = acked \cup {handler[h].acc}
  /\ Goto(h, Idle)
  /\ UNCHANGED <<ledger, deletes>>

\* A row of the chunk cannot be reversed, or the account cannot be removed.
Refuse(h) ==
  /\ \/ /\ handler[h].pc = "drain"
        /\ \E S \in Chunks(handler[h].acc) : ~Undoable(S)
     \/ /\ handler[h].pc = "final"
        /\ \/ ~Exists(handler[h].acc)
           \/ ~handler[h].history /\ Referenced(handler[h].acc)
  /\ Goto(h, Idle)
  /\ UNCHANGED <<ledger, deletes, acked>>

\* The process dies between two database transactions.
Die(h) ==
  /\ handler[h].pc # "idle"
  /\ Goto(h, Idle)
  /\ UNCHANGED <<ledger, deletes, acked>>

-----------------------------------------------------------------------------
(* Specification. *)

Init ==
  /\ account = [a \in Ids |-> Absent]
  /\ move = [i \in MoveId |-> Absent]
  /\ born = {} /\ held = {} /\ acked = {} /\ late = {}
  /\ handler = [h \in Handlers |-> Idle]
  /\ deletes = 0

Requested == {m \in [kind: Kinds, from: Ids, to: Ids \cup {Absent}, live: {TRUE}] :
                m.kind = "spend" <=> m.to = Absent}

Calls ==
  \/ \E a \in Ids :
       \/ CreateAccount(a) \/ UpdateAccount(a) \/ EnableHoldingsTracking(a)
       \/ ArchiveAccount(a) \/ ReactivateAccount(a) \/ UpsertHolding(a)
  \/ \E m \in Requested : Post(m)
  \/ \E i \in MoveId : DeleteTransaction(i)

Step(h) ==
  ReadAccount(h) \/ CountHistory(h) \/ Drain(h) \/ Finish(h) \/ Record(h) \/ Refuse(h)

Next ==
  \/ Calls
  \/ \E h \in Handlers : Step(h) \/ Die(h) \/ \E a \in Ids : Begin(h, a)

\* A handler that runs goes on by itself.
Spec == Init /\ [][Next]_vars /\ \A h \in Handlers : WF_vars(Step(h))

-----------------------------------------------------------------------------
(* Properties. *)

\* Every variable has its type, and an account that is tracked has a valuation
\* and no reserve (evaluateHoldingsTrackingEligibility, accounts.ts:204).
TypeOK ==
  /\ \A a \in Ids : Writable(a) =>
       /\ account[a].vals # <<>>
       /\ ~(Tracked(account, a) /\ account[a].reserve)
  /\ account \in [Ids -> Row \cup {Absent}]
  /\ move \in [MoveId -> Movement \cup {Absent}]
  /\ born \subseteq Ids /\ held \subseteq Ids /\ acked \subseteq Ids
  /\ late \subseteq MoveId
  /\ \A h \in Handlers :
       \/ handler[h] = Idle
       \/ handler[h] \in [pc: {"read", "count", "drain", "final", "record"},
                          acc: Ids, history: BOOLEAN]
  /\ deletes \in 0..MaxDeletes

\* Between any two steps of a deletion, and after a crash in one, every account
\* that is left has the balance its live rows say: the opening balance and the
\* flow of the live movements, or the latest valuation; and no valuation outlives
\* the movement it came with (the chunks of cascadeSoftDeleteAccountTransactions).
BalanceFollowsLiveRows ==
  \A a \in Ids : Writable(a) =>
    /\ account[a].balance =
         IF Tracked(account, a) THEN Last(account[a].vals).value
         ELSE Head(account[a].vals).value + FlowOf(Live, a)
    /\ \A n \in DOMAIN account[a].vals : account[a].vals[n].by \in Live \cup {0}

\* A deletion leaves no live movement on the account it has closed, except those
\* that were posted after its drain had found none
\* (cascadeSoftDeleteAccountTransactions, accounts.ts:1171).
ClosedAccountIsDrained ==
  \A a \in Ids : Exists(a) /\ ~Writable(a) =>
    \A i \in Live : Touches(i, a) => i \in late

\* What was acknowledged as deleted is deleted and stays so.
AcknowledgedStayGone == \A a \in acked : ~Writable(a)

\* What was acknowledged as deleted is deleted and stays so, and no movement
\* names an account that was removed altogether (deleteAccountForFamily).
AcknowledgedMeansGone ==
  /\ AcknowledgedStayGone
  /\ \A i \in Posted : \A a \in Ids : Touches(i, a) => Exists(a)

\* Switching to holdings tracking, archiving, reactivating and closing move no
\* money: a balance changes only with the movements or with a holding
\* (the seed anchor of enableHoldingsTrackingForFamily).
OnlyMovementsMoveMoney ==
  [][\A a \in Ids :
       Exists(a) /\ account'[a] # Absent /\ account'[a].balance # account[a].balance
         => \/ move' # move
            \/ Tracked(account', a) /\ a \in held']_vars

\* Every deletion call that is not cut off comes to an end, with its account
\* closed or with an error, if no more than finitely many movements are posted:
\* MaxMoves bounds them all.  Nothing in the code does.  The drain asks again
\* after every chunk (accounts.ts:1189-1223), and one new movement between any
\* two chunks would keep it going.
EveryDeletionEnds == \A h \in Handlers : handler[h].pc # "idle" ~> handler[h].pc = "idle"

=============================================================================
