-------------------------------- MODULE Debts --------------------------------
(***************************************************************************)
(* Money lent to, borrowed from and repaid by one person, through one cash *)
(* account and in its currency (src/src/server/debts.ts).                  *)
(*                                                                         *)
(* A debt is an ordinary receivable or loan account that points to the     *)
(* person.  A call looks the account up, opens it when there is none, and  *)
(* posts a transfer between it and a cash account, each in a database      *)
(* transaction of its own: other calls, a retry of the same call and the   *)
(* death of the server come between them.  Nothing but the lookup keeps a  *)
(* person from having two accounts of one kind.                            *)
(*                                                                         *)
(* Opening and closing accounts, deleting movements and reconciling are    *)
(* one step each; modules Accounts, Ledger and Anchors take them apart.    *)
(***************************************************************************)
EXTENDS Integers, FiniteSetsExt, SequencesExt

CONSTANTS
  Handlers,
  Calls,         \* what clients ask for; they may send a call again
  Currencies,    \* what the cash account may be kept in
  Opening,       \* what the cash account starts with
  Stated,        \* the sizes a reconciliation may give a debt
  MaxCalls,      \* bound on the calls that reach the server
  MaxChanges     \* bound on deletes, closings and reconciliations

Directions == {"receivable", "loan"}

\* complete: the date and the description are sent, not left to the server.
Call == [op : {"lend", "borrow", "repay"}, dir : Directions, amount : Nat \ {0}, key : STRING,
         complete : BOOLEAN]

ASSUME DebtsAssumption ==
  /\ Calls \subseteq Call
  /\ \A c \in Calls : /\ c.op = "lend" => c.dir = "receivable"
                      /\ c.op = "borrow" => c.dir = "loan"
  /\ \A c, d \in Calls : c.key = d.key => c = d
  /\ Opening \in Nat /\ Stated \subseteq Nat /\ MaxCalls \in Nat /\ MaxChanges \in Nat

VARIABLES
  acct,          \* debt accounts of the person, in the order they were opened
  cash,
  currency,      \* of the cash account, and so of the debt accounts
  book,          \* movements, in the order they were posted
  handler,
  calls, changes,
  overlapped     \* two calls that may open an account were in flight at once

vars == <<acct, cash, currency, book, handler, calls, changes, overlapped>>

-----------------------------------------------------------------------------
Idle == [pc |-> "idle"]
Running(h) == handler[h].pc \in {"look", "open", "key", "post"}
At(h, pc) == handler[h].pc = pc
Answer(h, result) ==
  handler' = [handler EXCEPT ![h] = [pc |-> "done", call |-> handler[h].call, result |-> result]]
Target(h, pc, n) ==
  handler' = [handler EXCEPT ![h] =
    [pc |-> pc, call |-> handler[h].call, target |-> n, owed |-> acct[n].balance]]

\* What a movement adds to the debt account; the cash account gets the opposite.
Delta(c) ==
  IF c.op = "lend" \/ (c.op = "repay" /\ c.dir = "loan") THEN c.amount ELSE -c.amount

\* account_normal_balance_sign
Legal(dir, balance) == IF dir = "receivable" THEN balance >= 0 ELSE balance <= 0

Size(balance) == IF balance < 0 THEN -balance ELSE balance

\* Faulty variant: an account that is settled is not found again.
CandidatesOwing(dir) == {n \in DOMAIN acct : acct[n].live /\ acct[n].dir = dir /\ acct[n].balance # 0}

\* The accounts that the lookup may return: it orders them in no way.
Candidates(dir) == {n \in DOMAIN acct : acct[n].live /\ acct[n].dir = dir}

Booked(c) == {m \in DOMAIN book : book[m].call = c}
LiveOn(n) == {m \in DOMAIN book : book[m].live /\ book[m].acct = n}
Moved(ms) == MapThenSumSet(LAMBDA m : Delta(book[m].call), ms)

-----------------------------------------------------------------------------
\* A call reaches the server, for the first time or again.
Receive(h, c) ==
  /\ ~Running(h)
  /\ calls < MaxCalls /\ calls' = calls + 1
  /\ handler' = [handler EXCEPT ![h] = [pc |-> "look", call |-> c]]
  /\ overlapped' = (overlapped \/ \E g \in Handlers \ {h} :
       Running(g) /\ handler[g].call.op = c.op /\ c.op # "repay")
  /\ UNCHANGED <<acct, cash, book, changes>>

\* ensurePersonDebtAccountId, its lookup.
Ensure(h) ==
  /\ At(h, "look") /\ handler[h].call.op # "repay"
  /\ LET found == Candidates(handler[h].call.dir) IN
       \/ \E n \in found : Target(h, "post", n)
       \/ found = {} /\ handler' = [handler EXCEPT ![h].pc = "open"]
  /\ UNCHANGED <<acct, cash, book, calls, changes, overlapped>>

\* ensurePersonDebtAccountId, createAccountForFamily with a key of its own.
Open(h) ==
  /\ At(h, "open")
  /\ acct' = Append(acct, [dir |-> handler[h].call.dir, balance |-> 0, adjusted |-> 0, live |-> TRUE])
  /\ handler' = [handler EXCEPT ![h] =
       [pc |-> "post", call |-> handler[h].call, target |-> Len(acct'), owed |-> 0]]
  /\ UNCHANGED <<cash, book, calls, changes, overlapped>>

\* recordRepaymentForFamily: the account and what it owes are read first ...
FindDebt(h) ==
  /\ At(h, "look") /\ handler[h].call.op = "repay"
  /\ LET found == Candidates(handler[h].call.dir) IN
       \/ \E n \in found : Target(h, "key", n)
       \/ found = {} /\ Answer(h, "refused")
  /\ UNCHANGED <<acct, cash, book, calls, changes, overlapped>>

\* Faulty variant: a retry is measured against what its first attempt left.
ExcessiveAlways(h) == handler[h].owed = 0 \/ handler[h].call.amount > Size(handler[h].owed)

\* ... then the key, and the guards look at the debt as it was read.
Excessive(h) ==
  /\ Booked(handler[h].call) = {}
  /\ handler[h].owed = 0 \/ handler[h].call.amount > Size(handler[h].owed)

CheckRepayment(h) ==
  /\ At(h, "key")
  /\ \/ Excessive(h) /\ Answer(h, "refused")
     \/ ~Excessive(h) /\ handler' = [handler EXCEPT ![h].pc = "post"]
  /\ UNCHANGED <<acct, cash, book, calls, changes, overlapped>>

\* Faulty variant: the key is not looked up.
ReplayedNever(h) == {}

\* The movement that a call with this key has posted, whatever became of it.
Replayed(h) == Booked(handler[h].call)

\* assertIdempotentPayloadMatches, of the movement m and a call on the account
\* n.  The call states no currency, which the schema takes for rupiah, while the
\* row was given that of its account; and a date or a description that is left
\* to the server is made anew from the clock and the person's name.
ReplayAnswers(m, n) ==
  IF book[m].acct # n \/ currency # "IDR" THEN {"conflict"}
  ELSE IF book[m].call.complete THEN {"ok"} ELSE {"ok", "conflict"}

\* createTransactionForFamily: the references, the key, then the two legs.
Post(h) ==
  /\ At(h, "post")
  /\ LET c == handler[h].call
         n == handler[h].target
         d == Delta(c)
         sound == Legal(acct[n].dir, acct[n].balance + d) /\ cash - d >= 0
     IN
     \/ /\ ~acct[n].live
        /\ Answer(h, "missing") /\ UNCHANGED <<acct, cash, book>>
     \/ /\ acct[n].live
        /\ \E m \in Replayed(h) : \E result \in ReplayAnswers(m, n) : Answer(h, result)
        /\ UNCHANGED <<acct, cash, book>>
     \/ /\ acct[n].live /\ Replayed(h) = {} /\ sound
        /\ acct' = [acct EXCEPT ![n].balance = @ + d]
        /\ cash' = cash - d
        /\ book' = Append(book, [call |-> c, acct |-> n, live |-> TRUE])
        /\ Answer(h, "ok")
     \/ /\ acct[n].live /\ Replayed(h) = {} /\ ~sound
        /\ Answer(h, "rejected") /\ UNCHANGED <<acct, cash, book>>
  /\ UNCHANGED <<calls, changes, overlapped>>

Die(h) ==
  /\ Running(h)
  /\ handler' = [handler EXCEPT ![h] = Idle]
  /\ UNCHANGED <<acct, cash, book, calls, changes, overlapped>>

-----------------------------------------------------------------------------
(* What else a family does to these accounts. *)

Change == changes < MaxChanges /\ changes' = changes + 1 /\ UNCHANGED <<handler, calls, overlapped>>

\* Undoes the movements ms of the account n, which live says is still open.
Undo(n, ms, live) ==
  /\ cash' = cash + Moved(ms) /\ cash' >= 0
  /\ acct' = [acct EXCEPT ![n].balance = @ - Moved(ms), ![n].live = live]
  /\ Legal(acct[n].dir, acct'[n].balance)
  /\ book' = [m \in DOMAIN book |-> IF m \in ms THEN [book[m] EXCEPT !.live = FALSE] ELSE book[m]]

\* deleteTransactionForFamily
DeleteMovement(m) ==
  /\ book[m].live /\ acct[book[m].acct].live
  /\ Undo(book[m].acct, {m}, TRUE)
  /\ Change

\* deleteAccountForFamily
CloseAccount(n) ==
  /\ acct[n].live
  /\ Undo(n, LiveOn(n), FALSE)
  /\ Change

\* createValuationForFamily
Reconcile(n, size) ==
  /\ acct[n].live
  /\ LET value == IF acct[n].dir = "receivable" THEN size ELSE -size IN
       acct' = [acct EXCEPT ![n].balance = value, ![n].adjusted = @ + value - acct[n].balance]
  /\ Change
  /\ UNCHANGED <<cash, book>>

-----------------------------------------------------------------------------
(* The views. *)

Shown == {n \in DOMAIN acct : acct[n].live}

\* getPersonDebtsForFamily: the position, of all the accounts.
Position == MapThenSumSet(LAMBDA n : acct[n].balance, Shown)

\* getPersonDebtDetailForFamily: the legs on the accounts.
Movements == {m \in DOMAIN book : book[m].live /\ book[m].acct \in Shown}

-----------------------------------------------------------------------------
Init ==
  /\ acct = <<>> /\ book = <<>> /\ cash = Opening /\ currency \in Currencies
  /\ handler = [h \in Handlers |-> Idle]
  /\ calls = 0 /\ changes = 0 /\ overlapped = FALSE

\* The currency of an account is not edited.
Next ==
  /\ \/ \E h \in Handlers :
          \/ \E c \in Calls : Receive(h, c)
          \/ Ensure(h) \/ Open(h) \/ FindDebt(h) \/ CheckRepayment(h) \/ Post(h) \/ Die(h)
     \/ \E m \in DOMAIN book : DeleteMovement(m)
     \/ \E n \in DOMAIN acct : CloseAccount(n) \/ \E size \in Stated : Reconcile(n, size)
  /\ UNCHANGED currency

Spec == Init /\ [][Next]_vars

-----------------------------------------------------------------------------
(* Properties. *)

\* The position that is shown for a person is the sum of the movements that are
\* shown, but for what reconciliations put in, however the accounts have forked;
\* and the cash account has paid for every movement that lives (PER-214: the
\* leg's amount is "exactly the delta it applied to the net position").
PositionIsExplained ==
  /\ Position = Moved(Movements) + MapThenSumSet(LAMBDA n : acct[n].adjusted, Shown)
  /\ cash = Opening - Moved({m \in DOMAIN book : book[m].live})
  /\ \A c \in Calls : Cardinality(Booked(c)) <= 1

\* A repayment is refused for what the debt is, never for what its own first
\* attempt has already repaid.
RefusalsAreDue ==
  [][\A h \in Handlers :
       (handler'[h].pc = "done" /\ handler'[h] # handler[h] /\ handler'[h].result = "refused")
         => \A m \in Booked(handler[h].call) : ~book[m].live]_vars

\* A person gets a second account of one kind only after two such calls
\* overlapped: one call after the other never forks a debt, whatever dies, is sent
\* again or is settled meanwhile.  A retry is answered with a conflict only then,
\* after the account was closed, or for what the code compares although the client
\* did not send it: the date, the description, or a currency that is not rupiah.
ForksOnlyWhenCallsOverlap ==
  ~overlapped =>
    /\ \A dir \in Directions : Cardinality(Candidates(dir)) <= 1
    /\ \A h \in Handlers :
         At(h, "done") /\ handler[h].call.complete /\ currency = "IDR"
           /\ handler[h].result = "conflict" => \E n \in DOMAIN acct : ~acct[n].live

=============================================================================
