----------------------------- MODULE DebtsProofs -----------------------------
(***************************************************************************)
(* Proofs about Debts, and about Household, for any handlers, clerks, calls *)
(* and bounds.                                                             *)
(*                                                                         *)
(* Nothing but the order of the calls keeps a person from having two       *)
(* accounts of one kind: while a call is opening one, no other call that   *)
(* might is running, so what its lookup did not find is not there yet.     *)
(* Amounts play no part in it; what they add up to is proved apart, from   *)
(* the laws of sums (Money).                                               *)
(*                                                                         *)
(* In a household, a transaction that has not been told that names changed *)
(* sees the names that are, which is why what it checked in its snapshot   *)
(* still holds when it commits (Seeing).  Every write touches one entity    *)
(* and logs it, so that what the log tells of an entity, with the last      *)
(* word on each field, remains what the entity is (LogFits).  Of currencies *)
(* the log tells something else: what it states is the base of the moment,  *)
(* which is the budget's own as long as the base never changed (BaseFits).  *)
(***************************************************************************)
EXTENDS Debts, Household, CollectionTheorems, SequenceTheorems

Movement == [call : Calls, acct : Nat, live : BOOLEAN]

\* An account is a record with these fields, whatever its balance.
Account(a) ==
  /\ a = [dir |-> a.dir, balance |-> a.balance, adjusted |-> a.adjusted, live |-> a.live]
  /\ a.dir \in Directions /\ a.live \in BOOLEAN

\* So is a call that is being served.
Serving(r) ==
  \/ r = Idle
  \/ /\ r.pc \in {"look", "open"} /\ r.call \in Calls
     /\ r = [pc |-> r.pc, call |-> r.call]
     /\ r.pc = "open" => r.call.op # "repay"
  \/ /\ r.pc \in {"key", "post"} /\ r.call \in Calls
     /\ r = [pc |-> r.pc, call |-> r.call, target |-> r.target, owed |-> r.owed]
     /\ r.target \in DOMAIN acct /\ acct[r.target].dir = r.call.dir
  \/ /\ r.pc = "done" /\ r.call \in Calls
     /\ r = [pc |-> r.pc, call |-> r.call, result |-> r.result]

Types ==
  /\ \E S : acct \in Seq(S)
  /\ \A n \in DOMAIN acct : Account(acct[n])
  /\ book \in Seq(Movement)
  /\ handler = [h \in Handlers |-> handler[h]]
  /\ \A h \in Handlers : Serving(handler[h])

\* A movement is on an account of its call's kind, and lives only while it does.
Placed ==
  \A m \in DOMAIN book :
    /\ book[m].acct \in DOMAIN acct
    /\ acct[book[m].acct].dir = book[m].call.dir
    /\ book[m].live => acct[book[m].acct].live

\* No call that might open an account overlaps another.
Alone ==
  \A g, h \in Handlers :
    Running(g) /\ Running(h) /\ handler[g].call.op = handler[h].call.op
      /\ handler[h].call.op # "repay" => g = h

Single == \A dir \in Directions : \A n, m \in Candidates(dir) : n = m

\* A call that is about to open an account has none to find.
Needed == \A h \in Handlers : At(h, "open") => Candidates(handler[h].call.dir) = {}

NoConflict ==
  \A h \in Handlers :
    At(h, "done") /\ handler[h].call.complete /\ currency = "IDR" /\ handler[h].result = "conflict"
      => \E n \in DOMAIN acct : ~acct[n].live

IInv == Types /\ Placed /\ (~overlapped => Alone /\ Single /\ Needed /\ NoConflict)

\* An account, its amounts included.
AccountRow == [dir : Directions, balance : Int, adjusted : Int, live : BOOLEAN]

\* One with another balance, and a new state or adjustment.
WithBalance(r, x) == [r EXCEPT !.balance = x]
WithLive(r, x, l) == [[r EXCEPT !.balance = x] EXCEPT !.live = l]
WithAdjusted(r, x, y) == [[r EXCEPT !.balance = x] EXCEPT !.adjusted = y]

LEMMA RowWith ==
  ASSUME NEW r \in AccountRow, NEW x \in Int
  PROVE  /\ WithBalance(r, x) \in AccountRow /\ WithBalance(r, x).balance = x
         /\ WithBalance(r, x).adjusted = r.adjusted /\ WithBalance(r, x).live = r.live
BY DEF AccountRow, WithBalance

LEMMA RowWithLive ==
  ASSUME NEW r \in AccountRow, NEW x \in Int, NEW l \in BOOLEAN
  PROVE  /\ WithLive(r, x, l) \in AccountRow /\ WithLive(r, x, l).balance = x
         /\ WithLive(r, x, l).adjusted = r.adjusted /\ WithLive(r, x, l).live = l
BY DEF AccountRow, WithLive

LEMMA RowWithAdjusted ==
  ASSUME NEW r \in AccountRow, NEW x \in Int, NEW y \in Int
  PROVE  /\ WithAdjusted(r, x, y) \in AccountRow /\ WithAdjusted(r, x, y).balance = x
         /\ WithAdjusted(r, x, y).adjusted = y /\ WithAdjusted(r, x, y).live = r.live
BY DEF AccountRow, WithAdjusted

\* An account is replaced.
LEMMA RowReplaced ==
  ASSUME NEW s \in Seq(AccountRow), NEW n \in DOMAIN s, NEW a \in AccountRow,
         NEW t, t = [s EXCEPT ![n] = a]
  PROVE  /\ t \in Seq(AccountRow) /\ DOMAIN t = DOMAIN s /\ t[n] = a
         /\ \A k \in DOMAIN s \ {n} : t[k] = s[k]
OBVIOUS

\* The sums of the model are sums of the values of a function, whatever they are
\* taken over.
LEMMA SumsUnfolded ==
  ASSUME NEW L
  PROVE  /\ SumOn([m \in L |-> Delta(book[m].call)], L) = Moved(L)
         /\ SumOn([n \in L |-> acct[n].balance], L) = MapThenSumSet(LAMBDA n : acct[n].balance, L)
         /\ SumOn([n \in L |-> acct[n].adjusted], L) = MapThenSumSet(LAMBDA n : acct[n].adjusted, L)
<1>1. SumOn([m \in L |-> Delta(book[m].call)], L) = Moved(L)
  BY DEF SumOn, Moved, MapThenSumSet, MapThenFoldSet
<1>2. SumOn([n \in L |-> acct[n].balance], L) = MapThenSumSet(LAMBDA n : acct[n].balance, L)
  BY DEF SumOn, MapThenSumSet, MapThenFoldSet
<1>3. SumOn([n \in L |-> acct[n].adjusted], L) = MapThenSumSet(LAMBDA n : acct[n].adjusted, L)
  BY DEF SumOn, MapThenSumSet, MapThenFoldSet
<1>. QED  BY <1>1, <1>2, <1>3

USE DebtsAssumption

-----------------------------------------------------------------------------
LEMMA InitIInv == Init => IInv
<1>. SUFFICES ASSUME Init PROVE IInv
  OBVIOUS
<1>1. acct = <<>> /\ book = <<>> /\ handler = [h \in Handlers |-> Idle]
  BY DEF Init
<1>2. Types
  <2>1. acct \in Seq({}) /\ book \in Seq(Movement) /\ DOMAIN acct = {}
    BY <1>1
  <2>2. handler = [h \in Handlers |-> handler[h]] /\ \A h \in Handlers : Serving(handler[h])
    BY <1>1 DEF Serving
  <2>. QED  BY <2>1, <2>2 DEF Types
<1>3. Placed
  BY <1>1 DEF Placed
<1>4. \A h \in Handlers : ~Running(h) /\ handler[h].pc = "idle"
  BY <1>1 DEF Running, Idle
<1>5. Alone /\ Needed /\ NoConflict
  BY <1>4 DEF Alone, Needed, NoConflict, At
<1>6. Single
  BY <1>1 DEF Single, Candidates
<1>. QED  BY <1>2, <1>3, <1>5, <1>6 DEF IInv

\* The accounts stay what they are, but for their balances and for closings.
AccountsStay ==
  /\ DOMAIN acct' = DOMAIN acct
  /\ \E S : acct' \in Seq(S)
  /\ \A n \in DOMAIN acct :
       /\ Account(acct'[n])
       /\ acct'[n].dir = acct[n].dir
       /\ acct'[n].live => acct[n].live

\* A step of one handler: its call stays what it was, and it opens nothing that
\* is there.
LEMMA OneHandler ==
  ASSUME IInv, NEW h \in Handlers, NEW new, Running(h),
         handler' = [handler EXCEPT ![h] = new], Serving(new), AccountsStay, UNCHANGED <<overlapped, currency>>,
         new.pc = "idle" \/ new.call = handler[h].call,
         new.pc = "open" => Candidates(handler[h].call.dir) = {},
         new.pc = "done" /\ new.result = "conflict" /\ ~overlapped /\ new.call.complete
           /\ currency = "IDR" => \E n \in DOMAIN acct : ~acct[n].live,
         book' \in Seq(Movement), Placed'
  PROVE  IInv'
<1>1. \A g \in Handlers : handler'[g] = IF g = h THEN new ELSE handler[g]
  BY DEF IInv, Types
<1>2. Types'
  <2>1. handler' = [g \in Handlers |-> handler'[g]]
    BY DEF IInv, Types
  <2>2. ASSUME NEW g \in Handlers PROVE Serving(handler[g])'
    <3>1. Serving(handler'[g])
      BY <1>1 DEF IInv, Types
    <3>. QED  BY <3>1 DEF Serving, AccountsStay
  <2>3. (\E S : acct' \in Seq(S)) /\ \A n \in DOMAIN acct' : Account(acct'[n])
    BY DEF AccountsStay
  <2>. QED  BY <2>1, <2>2, <2>3 DEF Types, Account
<1>3. ASSUME ~overlapped'
      PROVE  Alone' /\ Single' /\ Needed' /\ NoConflict'
  <2>1. Alone /\ Single /\ Needed /\ NoConflict /\ ~overlapped
    BY <1>3 DEF IInv
  <2>2. \A dir : Candidates(dir)' \subseteq Candidates(dir)
    BY DEF Candidates, AccountsStay
  <2>3. Alone'
    BY <1>1, <2>1 DEF Alone, Running
  <2>4. Single'
    BY <2>1, <2>2 DEF Single
  <2>5. Needed'
    <3>1. SUFFICES ASSUME NEW g \in Handlers, At(g, "open")'
                   PROVE  Candidates(handler[g].call.dir)' = {}
      BY DEF Needed
    <3>2. Candidates(handler'[g].call.dir) = {}
      BY <1>1, <2>1, <3>1 DEF Needed, At
    <3>3. PICK dir : dir = handler'[g].call.dir
      OBVIOUS
    <3>4. Candidates(dir)' = {}
      BY <2>2, <3>2, <3>3
    <3>. QED  BY <3>3, <3>4 DEF Candidates
  <2>6. NoConflict'
    BY <1>1, <2>1 DEF NoConflict, At, AccountsStay
  <2>. QED  BY <2>3, <2>4, <2>5, <2>6
<1>. QED  BY <1>2, <1>3 DEF IInv

\* A step of the family's own, between the calls.
LEMMA Between ==
  ASSUME IInv, AccountsStay, UNCHANGED <<handler, overlapped, currency>>, book' \in Seq(Movement), Placed'
  PROVE  IInv'
<1>1. Types'
  <2>1. \A h \in Handlers : Serving(handler[h])'
    BY DEF IInv, Types, Serving, AccountsStay
  <2>2. (\E S : acct' \in Seq(S)) /\ \A n \in DOMAIN acct' : Account(acct'[n])
    BY DEF AccountsStay
  <2>. QED  BY <2>1, <2>2 DEF IInv, Types, Account
<1>2. ASSUME ~overlapped'
      PROVE  Alone' /\ Single' /\ Needed' /\ NoConflict'
  <2>1. Alone /\ Single /\ Needed /\ NoConflict
    BY <1>2 DEF IInv
  <2>2. \A dir : Candidates(dir)' \subseteq Candidates(dir)
    BY DEF Candidates, AccountsStay
  <2>3. Alone' /\ Single' /\ Needed'
    BY <2>1, <2>2 DEF Alone, Single, Needed, Running, At
  <2>4. NoConflict'
    BY <2>1 DEF NoConflict, At, AccountsStay
  <2>. QED  BY <2>3, <2>4
<1>. QED  BY <1>1, <1>2 DEF IInv

\* An account with another balance is an account, and so are the others.
LEMMA OneAccount ==
  ASSUME IInv, NEW n \in DOMAIN acct, NEW a, Account(a), a.dir = acct[n].dir,
         a.live => acct[n].live, acct' = [acct EXCEPT ![n] = a]
  PROVE  AccountsStay /\ acct'[n] = a
<1>1. PICK S : acct \in Seq(S)
  BY DEF IInv, Types
<1>2. acct' \in Seq(S \cup {a})
  BY <1>1
<1>. QED  BY <1>1, <1>2 DEF AccountsStay, IInv, Types

-----------------------------------------------------------------------------
(* The steps of a call. *)

LEMMA ReceiveIInv ==
  ASSUME IInv, NEW h \in Handlers, NEW c \in Calls, Receive(h, c), UNCHANGED currency
  PROVE  IInv'
<1>. DEFINE new == [pc |-> "look", call |-> c]
<1>1. /\ UNCHANGED <<acct, book>> /\ handler' = [handler EXCEPT ![h] = new] /\ ~Running(h)
      /\ overlapped' = (overlapped \/ \E g \in Handlers \ {h} :
           Running(g) /\ handler[g].call.op = c.op /\ c.op # "repay")
  BY DEF Receive
<1>2. \A g \in Handlers : handler'[g] = IF g = h THEN new ELSE handler[g]
  BY <1>1 DEF IInv, Types
<1>3. Types'
  <2>1. handler' = [g \in Handlers |-> handler'[g]]
    BY <1>1 DEF IInv, Types
  <2>2. ASSUME NEW g \in Handlers PROVE Serving(handler[g])'
    BY <1>1, <1>2 DEF IInv, Types, Serving
  <2>. QED  BY <1>1, <2>1, <2>2 DEF IInv, Types, Account
<1>4. Placed'
  BY <1>1 DEF IInv, Placed
<1>5. ASSUME ~overlapped'
      PROVE  Alone' /\ Single' /\ Needed' /\ NoConflict'
  <2>1. Alone /\ Single /\ Needed /\ NoConflict
    BY <1>1, <1>5 DEF IInv
  <2>2. Alone'
    <3>1. \A g \in Handlers \ {h} : (Running(g)' <=> Running(g)) /\ handler'[g].call = handler[g].call
      BY <1>2 DEF Running
    <3>2. \A g \in Handlers \ {h} : Running(g) => ~(handler[g].call.op = c.op /\ c.op # "repay")
      BY <1>1, <1>5
    <3>3. handler'[h].call = c
      BY <1>2
    <3>. QED  BY <2>1, <3>1, <3>2, <3>3 DEF Alone
  <2>3. Single' /\ Needed'
    BY <1>1, <1>2, <2>1 DEF Single, Needed, Candidates, At
  <2>4. NoConflict'
    BY <1>1, <1>2, <2>1 DEF NoConflict, At
  <2>. QED  BY <2>2, <2>3, <2>4
<1>. QED  BY <1>3, <1>4, <1>5 DEF IInv

LEMMA Steady ==
  ASSUME IInv, UNCHANGED <<acct, book>>
  PROVE  AccountsStay /\ book' \in Seq(Movement) /\ Placed'
BY DEF IInv, Types, AccountsStay, Placed, Account

LEMMA EnsureIInv ==
  ASSUME IInv, NEW h \in Handlers, Ensure(h), UNCHANGED currency
  PROVE  IInv'
<1>1. /\ handler[h].pc = "look" /\ handler[h].call.op # "repay"
      /\ UNCHANGED <<acct, book, overlapped>> /\ Running(h)
  BY DEF Ensure, At, Running
<1>2. /\ handler[h].call \in Calls
      /\ handler[h] = [pc |-> handler[h].pc, call |-> handler[h].call]
  BY <1>1 DEF IInv, Types, Serving, Idle
<1>3. AccountsStay /\ book' \in Seq(Movement) /\ Placed'
  BY <1>1, Steady
<1>4. ASSUME NEW n \in Candidates(handler[h].call.dir), Target(h, "post", n) PROVE IInv'
  <2>. DEFINE new == [pc |-> "post", call |-> handler[h].call, target |-> n, owed |-> acct[n].balance]
  <2>1. handler' = [handler EXCEPT ![h] = new]
    BY <1>4 DEF Target
  <2>2. Serving(new) /\ new.pc = "post" /\ new.call = handler[h].call
    BY <1>2, <1>4 DEF Serving, Candidates
  <2>. HIDE DEF new
  <2>. QED  BY <1>1, <1>3, <2>1, <2>2, OneHandler
<1>5. ASSUME Candidates(handler[h].call.dir) = {}, handler' = [handler EXCEPT ![h].pc = "open"]
      PROVE  IInv'
  <2>. DEFINE new == [pc |-> "open", call |-> handler[h].call]
  <2>1. handler' = [handler EXCEPT ![h] = new]
    <3>1. \A c : [[pc |-> "look", call |-> c] EXCEPT !.pc = "open"] = [pc |-> "open", call |-> c]
      OBVIOUS
    <3>2. [handler[h] EXCEPT !.pc = "open"] = new
      BY <1>1, <1>2, <3>1
    <3>. QED  BY <1>5, <3>2
  <2>2. Serving(new) /\ new.pc = "open" /\ new.call = handler[h].call
    BY <1>1, <1>2 DEF Serving
  <2>. HIDE DEF new
  <2>. QED  BY <1>1, <1>3, <1>5, <2>1, <2>2, OneHandler
<1>. QED  BY <1>4, <1>5 DEF Ensure

LEMMA FindDebtIInv ==
  ASSUME IInv, NEW h \in Handlers, FindDebt(h), UNCHANGED currency
  PROVE  IInv'
<1>1. /\ handler[h].pc = "look" /\ UNCHANGED <<acct, book, overlapped>> /\ Running(h)
  BY DEF FindDebt, At, Running
<1>2. handler[h].call \in Calls
  BY <1>1 DEF IInv, Types, Serving, Idle
<1>3. AccountsStay /\ book' \in Seq(Movement) /\ Placed'
  BY <1>1, Steady
<1>4. ASSUME NEW n \in Candidates(handler[h].call.dir), Target(h, "key", n) PROVE IInv'
  <2>. DEFINE new == [pc |-> "key", call |-> handler[h].call, target |-> n, owed |-> acct[n].balance]
  <2>1. handler' = [handler EXCEPT ![h] = new]
    BY <1>4 DEF Target
  <2>2. Serving(new) /\ new.pc = "key" /\ new.call = handler[h].call
    BY <1>2, <1>4 DEF Serving, Candidates
  <2>. HIDE DEF new
  <2>. QED  BY <1>1, <1>3, <2>1, <2>2, OneHandler
<1>5. ASSUME Answer(h, "refused") PROVE IInv'
  <2>. DEFINE new == [pc |-> "done", call |-> handler[h].call, result |-> "refused"]
  <2>1. handler' = [handler EXCEPT ![h] = new]
    BY <1>5 DEF Answer
  <2>2. Serving(new) /\ new.pc = "done" /\ new.call = handler[h].call /\ new.result # "conflict"
    BY <1>2 DEF Serving
  <2>. HIDE DEF new
  <2>. QED  BY <1>1, <1>3, <2>1, <2>2, OneHandler
<1>. QED  BY <1>4, <1>5 DEF FindDebt

LEMMA CheckRepaymentIInv ==
  ASSUME IInv, NEW h \in Handlers, CheckRepayment(h), UNCHANGED currency
  PROVE  IInv'
<1>1. /\ handler[h].pc = "key" /\ UNCHANGED <<acct, book, overlapped>> /\ Running(h)
  BY DEF CheckRepayment, At, Running
<1>2. /\ handler[h].call \in Calls
      /\ handler[h] = [pc |-> "key", call |-> handler[h].call, target |-> handler[h].target,
                       owed |-> handler[h].owed]
      /\ handler[h].target \in DOMAIN acct /\ acct[handler[h].target].dir = handler[h].call.dir
  BY <1>1 DEF IInv, Types, Serving, Idle
<1>3. AccountsStay /\ book' \in Seq(Movement) /\ Placed'
  BY <1>1, Steady
<1>4. ASSUME Answer(h, "refused") PROVE IInv'
  <2>. DEFINE new == [pc |-> "done", call |-> handler[h].call, result |-> "refused"]
  <2>1. handler' = [handler EXCEPT ![h] = new]
    BY <1>4 DEF Answer
  <2>2. Serving(new) /\ new.pc = "done" /\ new.call = handler[h].call /\ new.result # "conflict"
    BY <1>2 DEF Serving
  <2>. HIDE DEF new
  <2>. QED  BY <1>1, <1>3, <2>1, <2>2, OneHandler
<1>5. ASSUME handler' = [handler EXCEPT ![h].pc = "post"] PROVE IInv'
  <2>. DEFINE new == [pc |-> "post", call |-> handler[h].call, target |-> handler[h].target,
                      owed |-> handler[h].owed]
  <2>1. handler' = [handler EXCEPT ![h] = new]
    <3>1. \A c, n, b : [[pc |-> "key", call |-> c, target |-> n, owed |-> b] EXCEPT !.pc = "post"]
                         = [pc |-> "post", call |-> c, target |-> n, owed |-> b]
      OBVIOUS
    <3>2. [handler[h] EXCEPT !.pc = "post"] = new
      BY <1>2, <3>1
    <3>. QED  BY <1>5, <3>2
  <2>2. Serving(new) /\ new.pc = "post" /\ new.call = handler[h].call
    BY <1>2 DEF Serving
  <2>. HIDE DEF new
  <2>. QED  BY <1>1, <1>3, <2>1, <2>2, OneHandler
<1>. QED  BY <1>4, <1>5 DEF CheckRepayment

\* An account is opened only where there is none, and by one call only.
LEMMA OpenIInv ==
  ASSUME IInv, NEW h \in Handlers, Open(h), UNCHANGED currency
  PROVE  IInv'
<1>. DEFINE c == handler[h].call
            a == [dir |-> c.dir, balance |-> 0, adjusted |-> 0, live |-> TRUE]
            k == Len(acct) + 1
            new == [pc |-> "post", call |-> c, target |-> k, owed |-> 0]
<1>1. /\ handler[h].pc = "open" /\ Running(h) /\ acct' = Append(acct, a)
      /\ handler' = [handler EXCEPT ![h] = [pc |-> "post", call |-> c, target |-> Len(acct'), owed |-> 0]]
      /\ UNCHANGED <<book, overlapped>>
  BY DEF Open, At, Running
<1>2. c \in Calls /\ c.op # "repay" /\ c.dir \in Directions
  <2>1. Serving(handler[h])
    BY DEF IInv, Types
  <2>2. c \in Calls /\ c.op # "repay"
    BY <1>1, <2>1 DEF Serving, Idle
  <2>. QED  BY <2>2 DEF DebtsAssumption, Call
<1>3. Account(a) /\ a.live /\ a.dir = c.dir
  BY <1>2 DEF Account
<1>4. PICK S : acct \in Seq(S)
  BY DEF IInv, Types
<1>. HIDE DEF a
<1>5. /\ acct' \in Seq(S \cup {a}) /\ Len(acct') = k
      /\ k \notin DOMAIN acct /\ DOMAIN acct' = DOMAIN acct \cup {k}
      /\ acct'[k] = a /\ \A n \in DOMAIN acct : acct'[n] = acct[n]
  BY <1>1, <1>4
<1>6. \A g \in Handlers : handler'[g] = IF g = h THEN new ELSE handler[g]
  BY <1>1, <1>5 DEF IInv, Types
<1>7. Types'
  <2>1. handler' = [g \in Handlers |-> handler'[g]]
    BY <1>1 DEF IInv, Types
  <2>2. \A n \in DOMAIN acct' : Account(acct'[n])
    BY <1>3, <1>5 DEF IInv, Types
  <2>3. Serving(handler[h])'
    BY <1>2, <1>3, <1>5, <1>6 DEF Serving
  <2>4. ASSUME NEW g \in Handlers PROVE Serving(handler[g])'
    <3>1. CASE g = h
      BY <2>3, <3>1
    <3>2. CASE g # h
      BY <1>5, <1>6, <3>2 DEF IInv, Types, Serving
    <3>. QED  BY <3>1, <3>2
  <2>. QED  BY <1>1, <1>5, <2>1, <2>2, <2>4 DEF IInv, Types, Account
<1>8. Placed'
  BY <1>1, <1>5 DEF IInv, Placed
<1>9. ASSUME ~overlapped'
      PROVE  Alone' /\ Single' /\ Needed' /\ NoConflict'
  <2>1. Alone /\ Single /\ Needed /\ NoConflict
    BY <1>1, <1>9 DEF IInv
  <2>2. Candidates(c.dir) = {}
    BY <1>1, <2>1 DEF Needed, At
  <2>3. \A dir : Candidates(dir)' = IF dir = c.dir THEN Candidates(dir) \cup {k} ELSE Candidates(dir)
    BY <1>3, <1>5 DEF Candidates
  <2>. HIDE DEF k
  <2>4. Alone'
    BY <1>1, <1>6, <2>1 DEF Alone, Running
  <2>5. Single'
    BY <2>1, <2>2, <2>3 DEF Single
  <2>6. Needed'
    <3>1. SUFFICES ASSUME NEW g \in Handlers, At(g, "open")'
                   PROVE  Candidates(handler[g].call.dir)' = {}
      BY DEF Needed
    <3>2. g # h /\ handler'[g] = handler[g] /\ At(g, "open") /\ Running(g)
      BY <1>6, <3>1 DEF At, Running
    <3>3. handler[g].call \in Calls /\ handler[g].call.op # "repay"
      BY <3>2 DEF IInv, Types, Serving, Idle, At
    <3>4. handler[g].call.op # c.op
      BY <1>1, <2>1, <3>2, <3>3 DEF Alone
    <3>5. handler[g].call.dir # c.dir
      BY <1>2, <3>3, <3>4 DEF DebtsAssumption, Call
    <3>6. Candidates(handler[g].call.dir) = {}
      BY <2>1, <3>2 DEF Needed
    <3>. QED  BY <2>3, <3>2, <3>5, <3>6 DEF Candidates
  <2>7. NoConflict'
    BY <1>5, <1>6, <2>1 DEF NoConflict, At
  <2>. QED  BY <2>4, <2>5, <2>6, <2>7
<1>. QED  BY <1>7, <1>8, <1>9 DEF IInv

LEMMA PostIInv ==
  ASSUME IInv, NEW h \in Handlers, Post(h), UNCHANGED currency
  PROVE  IInv'
<1>. DEFINE c == handler[h].call
            n == handler[h].target
            answer(r) == [pc |-> "done", call |-> c, result |-> r]
<1>1. handler[h].pc = "post" /\ UNCHANGED overlapped /\ Running(h)
  BY DEF Post, At, Running
<1>2. c \in Calls /\ n \in DOMAIN acct /\ acct[n].dir = c.dir
  BY <1>1 DEF IInv, Types, Serving, Idle
<1>3. \A r : /\ Serving(answer(r)) /\ answer(r).pc = "done" /\ answer(r).call = c
             /\ answer(r).result = r
  BY <1>2 DEF Serving
<1>. HIDE DEF answer
<1>4. ASSUME UNCHANGED <<acct, book>>, NEW r, handler' = [handler EXCEPT ![h] = answer(r)],
             r = "conflict" /\ ~overlapped /\ c.complete /\ currency = "IDR" => \E k \in DOMAIN acct : ~acct[k].live
      PROVE  IInv'
  <2>1. AccountsStay /\ book' \in Seq(Movement) /\ Placed'
    BY <1>4, Steady
  <2>. DEFINE new == answer(r)
  <2>2. /\ Serving(new) /\ new.pc = "done" /\ new.call = handler[h].call /\ new.result = r
        /\ handler' = [handler EXCEPT ![h] = new]
    BY <1>3, <1>4
  <2>. HIDE DEF new
  <2>. QED  BY <1>1, <1>4, <2>1, <2>2, OneHandler
<1>5. \A r : Answer(h, r) => handler' = [handler EXCEPT ![h] = answer(r)]
  BY DEF Answer, answer
<1>6. CASE ~acct[n].live /\ Answer(h, "missing") /\ UNCHANGED <<acct, cash, book>>
  BY <1>4, <1>5, <1>6
<1>7. ASSUME acct[n].live, UNCHANGED <<acct, book>>, NEW m \in Replayed(h),
             NEW r \in ReplayAnswers(m, n), Answer(h, r)
      PROVE  IInv'
  <2>1. ASSUME r = "conflict", ~overlapped, c.complete, currency = "IDR"
        PROVE  \E k \in DOMAIN acct : ~acct[k].live
    <3>1. /\ m \in DOMAIN book /\ book[m].call = c
          /\ book[m].acct \in DOMAIN acct /\ acct[book[m].acct].dir = c.dir
      BY <1>7 DEF Replayed, Booked, IInv, Placed
    <3>2. book[m].acct # n
      BY <1>7, <2>1, <3>1 DEF ReplayAnswers
    <3>3. c.dir \in Directions /\ Single
      BY <1>2, <2>1 DEF IInv, DebtsAssumption, Call
    <3>4. \A k \in DOMAIN acct : acct[k].live /\ acct[k].dir = c.dir => k \in Candidates(c.dir)
      BY DEF Candidates
    <3>5. \A j, k \in Candidates(c.dir) : j = k
      BY <3>3 DEF Single
    <3>. QED  BY <1>2, <1>7, <3>1, <3>2, <3>4, <3>5
  <2>2. handler' = [handler EXCEPT ![h] = answer(r)]
    BY <1>5, <1>7
  <2>. QED  BY <1>4, <1>7, <2>1, <2>2
<1>9. ASSUME acct[n].live, Replayed(h) = {},
             acct' = [acct EXCEPT ![n].balance = @ + Delta(c)],
             book' = Append(book, [call |-> c, acct |-> n, live |-> TRUE]),
             Answer(h, "ok")
      PROVE  IInv'
  <2>. DEFINE a == [dir |-> acct[n].dir, balance |-> acct[n].balance + Delta(c),
                    adjusted |-> acct[n].adjusted, live |-> acct[n].live]
              row == [call |-> c, acct |-> n, live |-> TRUE]
              new == answer("ok")
  <2>1. Account(acct[n])
    BY <1>2 DEF IInv, Types
  <2>2. acct' = [acct EXCEPT ![n] = a] /\ Account(a) /\ a.dir = acct[n].dir /\ a.live = acct[n].live
    <3>1. \A d, b, j, l, x : [[dir |-> d, balance |-> b, adjusted |-> j, live |-> l] EXCEPT !.balance = x]
                              = [dir |-> d, balance |-> x, adjusted |-> j, live |-> l]
      OBVIOUS
    <3>2. [acct[n] EXCEPT !.balance = @ + Delta(c)] = a
      BY <2>1, <3>1 DEF Account
    <3>. QED  BY <1>9, <2>1, <3>2 DEF Account
  <2>. HIDE DEF a
  <2>3. AccountsStay /\ acct'[n] = a
    BY <1>2, <2>2, OneAccount
  <2>4. book \in Seq(Movement) /\ row \in Movement
    <3>1. n \in Nat
      BY <1>2 DEF IInv, Types
    <3>. QED  BY <1>2, <3>1 DEF IInv, Types, Movement
  <2>5. /\ book' \in Seq(Movement) /\ DOMAIN book' = DOMAIN book \cup {Len(book) + 1}
        /\ \A m \in DOMAIN book : book'[m] = book[m]
        /\ book'[Len(book) + 1] = row /\ Len(book) + 1 \notin DOMAIN book
    <3>. HIDE DEF row
    <3>. QED  BY <1>9, <2>4 DEF row
  <2>6. Placed'
    <3>1. \A k \in DOMAIN acct : acct'[k].live = acct[k].live
      BY <1>2, <2>2 DEF IInv, Types
    <3>2. \A m \in DOMAIN book : /\ book[m].acct \in DOMAIN acct'
                                 /\ acct'[book[m].acct].dir = book[m].call.dir
                                 /\ book[m].live => acct'[book[m].acct].live
      BY <2>3, <3>1 DEF IInv, Placed, AccountsStay
    <3>3. row.acct = n /\ row.call = c /\ n \in DOMAIN acct' /\ acct'[n].dir = c.dir /\ acct'[n].live
      BY <1>2, <1>9, <2>2, <2>3 DEF AccountsStay
    <3>. HIDE DEF row
    <3>. QED  BY <2>5, <3>2, <3>3 DEF Placed
  <2>7. /\ Serving(new) /\ new.pc = "done" /\ new.call = handler[h].call /\ new.result = "ok"
        /\ handler' = [handler EXCEPT ![h] = new]
    BY <1>3, <1>5, <1>9
  <2>. HIDE DEF new
  <2>. QED  BY <1>1, <2>3, <2>5, <2>6, <2>7, OneHandler
<1>10. CASE Answer(h, "rejected") /\ UNCHANGED <<acct, cash, book>>
  BY <1>4, <1>5, <1>10
<1>. QED  BY <1>6, <1>7, <1>9, <1>10 DEF Post

LEMMA DieIInv ==
  ASSUME IInv, NEW h \in Handlers, Die(h), UNCHANGED currency
  PROVE  IInv'
<1>1. /\ handler' = [handler EXCEPT ![h] = Idle] /\ UNCHANGED <<acct, book, overlapped>> /\ Running(h)
      /\ Serving(Idle) /\ Idle.pc = "idle"
  BY DEF Die, Serving, Idle
<1>2. AccountsStay /\ book' \in Seq(Movement) /\ Placed'
  BY <1>1, Steady
<1>. QED  BY <1>1, <1>2, OneHandler

-----------------------------------------------------------------------------
(* The steps of the family. *)

LEMMA AccountWith ==
  ASSUME NEW d, NEW b, NEW j, NEW l, NEW x
  PROVE  /\ [[dir |-> d, balance |-> b, adjusted |-> j, live |-> l] EXCEPT !.balance = x]
              = [dir |-> d, balance |-> x, adjusted |-> j, live |-> l]
         /\ [[dir |-> d, balance |-> b, adjusted |-> j, live |-> l] EXCEPT !.adjusted = x]
              = [dir |-> d, balance |-> b, adjusted |-> x, live |-> l]
         /\ [[dir |-> d, balance |-> b, adjusted |-> j, live |-> l] EXCEPT !.live = x]
              = [dir |-> d, balance |-> b, adjusted |-> j, live |-> x]
<1>1. [[dir |-> d, balance |-> b, adjusted |-> j, live |-> l] EXCEPT !.balance = x]
        = [dir |-> d, balance |-> x, adjusted |-> j, live |-> l]
  OBVIOUS
<1>2. [[dir |-> d, balance |-> b, adjusted |-> j, live |-> l] EXCEPT !.adjusted = x]
        = [dir |-> d, balance |-> b, adjusted |-> x, live |-> l]
  OBVIOUS
<1>3. [[dir |-> d, balance |-> b, adjusted |-> j, live |-> l] EXCEPT !.live = x]
        = [dir |-> d, balance |-> b, adjusted |-> j, live |-> x]
  OBVIOUS
<1>. QED  BY <1>1, <1>2, <1>3

LEMMA BalanceWith ==
  ASSUME NEW r, Account(r), NEW x
  PROVE  [r EXCEPT !.balance = x]
           = [dir |-> r.dir, balance |-> x, adjusted |-> r.adjusted, live |-> r.live]
BY AccountWith DEF Account

\* A closed account has no movement that lives: the live ones are undone with it.
LEMMA UndoIInv ==
  ASSUME IInv, NEW n \in DOMAIN acct, NEW ms \in SUBSET DOMAIN book, NEW live \in BOOLEAN,
         Undo(n, ms, live), acct[n].live, UNCHANGED <<handler, overlapped, currency>>,
         ~live => \A m \in DOMAIN book : book[m].live /\ book[m].acct = n => m \in ms
  PROVE  IInv'
<1>. DEFINE x == acct[n].balance - Moved(ms)
            a == [dir |-> acct[n].dir, balance |-> x, adjusted |-> acct[n].adjusted, live |-> live]
<1>1. /\ acct' = [acct EXCEPT ![n] = a] /\ Account(a) /\ a.dir = acct[n].dir
      /\ a.live = live
  <2>1. Account(acct[n])
    BY DEF IInv, Types
  <2>3. acct' = [acct EXCEPT ![n].balance = @ - Moved(ms), ![n].live = live]
    BY DEF Undo
  <2>. DEFINE b == [acct[n] EXCEPT !.balance = x]
  <2>4. acct' = [[acct EXCEPT ![n] = b] EXCEPT ![n] = [[acct EXCEPT ![n] = b][n] EXCEPT !.live = live]]
    BY <2>3
  <2>5. [b EXCEPT !.live = live] = a
    <3>. DEFINE c == [dir |-> acct[n].dir, balance |-> x, adjusted |-> acct[n].adjusted,
                      live |-> acct[n].live]
    <3>. HIDE DEF x
    <3>1. b = c
      BY <2>1, BalanceWith
    <3>2. [c EXCEPT !.live = live] = a
      BY AccountWith
    <3>. HIDE DEF b, c
    <3>. QED  BY <3>1, <3>2
  <2>6. PICK S : acct \in Seq(S)
    BY DEF IInv, Types
  <2>7. acct' = [acct EXCEPT ![n] = [b EXCEPT !.live = live]]
    <3>. HIDE DEF b
    <3>. QED  BY <2>4, <2>6
  <2>. QED  BY <2>1, <2>5, <2>7 DEF Account
<1>. HIDE DEF a
<1>2. AccountsStay /\ acct'[n] = a
  BY <1>1, OneAccount
<1>3. /\ book' \in Seq(Movement) /\ DOMAIN book' = DOMAIN book
      /\ \A m \in DOMAIN book : /\ book'[m].acct = book[m].acct /\ book'[m].call = book[m].call
                                /\ book'[m].live => book[m].live /\ m \notin ms
  <2>1. book' = [m \in DOMAIN book |-> IF m \in ms THEN [book[m] EXCEPT !.live = FALSE] ELSE book[m]]
    BY DEF Undo
  <2>2. book \in Seq(Movement)
    BY DEF IInv, Types
  <2>3. \A m \in DOMAIN book : book[m] \in Movement /\ [book[m] EXCEPT !.live = FALSE] \in Movement
    <3>1. SUFFICES ASSUME NEW m \in DOMAIN book
                   PROVE  book[m] \in Movement /\ [book[m] EXCEPT !.live = FALSE] \in Movement
      OBVIOUS
    <3>2. book[m] \in Movement
      BY <2>2
    <3>. QED  BY <3>2 DEF Movement
  <2>4. book' \in [1..Len(book) -> Movement]
    BY <2>1, <2>2, <2>3
  <2>5. book' \in Seq(Movement)
    BY <2>2, <2>4
  <2>. QED  BY <2>1, <2>2, <2>3, <2>5 DEF Movement
<1>4. Placed'
  <2>1. SUFFICES ASSUME NEW m \in DOMAIN book
                 PROVE  /\ book[m].acct \in DOMAIN acct'
                        /\ acct'[book[m].acct].dir = book[m].call.dir
                        /\ book'[m].live => acct'[book[m].acct].live
    BY <1>3 DEF Placed
  <2>2. /\ book[m].acct \in DOMAIN acct /\ acct[book[m].acct].dir = book[m].call.dir
        /\ book[m].live => acct[book[m].acct].live
    BY DEF IInv, Placed
  <2>3. CASE book[m].acct = n
    BY <1>1, <1>2, <1>3, <2>2, <2>3 DEF AccountsStay
  <2>4. CASE book[m].acct # n
    <3>1. acct'[book[m].acct] = acct[book[m].acct]
      BY <1>1, <2>2, <2>4 DEF IInv, Types
    <3>. QED  BY <1>2, <1>3, <2>2, <3>1 DEF AccountsStay
  <2>. QED  BY <2>3, <2>4
<1>. QED  BY <1>2, <1>3, <1>4, Between

LEMMA DeleteMovementIInv ==
  ASSUME IInv, NEW m \in DOMAIN book, DeleteMovement(m), UNCHANGED currency
  PROVE  IInv'
<1>1. book[m].acct \in DOMAIN acct /\ {m} \in SUBSET DOMAIN book
  BY DEF IInv, Placed
<1>. QED  BY <1>1, UndoIInv DEF DeleteMovement, Change

LEMMA CloseAccountIInv ==
  ASSUME IInv, NEW n \in DOMAIN acct, CloseAccount(n), UNCHANGED currency
  PROVE  IInv'
<1>1. /\ LiveOn(n) \in SUBSET DOMAIN book
      /\ \A m \in DOMAIN book : book[m].live /\ book[m].acct = n => m \in LiveOn(n)
  BY DEF LiveOn
<1>2. Undo(n, LiveOn(n), FALSE) /\ acct[n].live /\ UNCHANGED <<handler, overlapped>>
  BY DEF CloseAccount, Change
<1>. QED  BY <1>1, <1>2, UndoIInv

LEMMA ReconcileIInv ==
  ASSUME IInv, NEW n \in DOMAIN acct, NEW size \in Stated, Reconcile(n, size), UNCHANGED currency
  PROVE  IInv'
<1>. DEFINE value == IF acct[n].dir = "receivable" THEN size ELSE -size
            more == acct[n].adjusted + value - acct[n].balance
            a == [dir |-> acct[n].dir, balance |-> value, adjusted |-> more, live |-> acct[n].live]
            b == [acct[n] EXCEPT !.balance = value]
<1>1. UNCHANGED <<book, handler, overlapped>>
  BY DEF Reconcile, Change
<1>2. Account(acct[n])
  BY DEF IInv, Types
<1>3. [b EXCEPT !.adjusted = more] = a /\ b.adjusted = acct[n].adjusted
  <2>. DEFINE c == [dir |-> acct[n].dir, balance |-> value, adjusted |-> acct[n].adjusted,
                    live |-> acct[n].live]
  <2>1. b = c
    BY <1>2, BalanceWith
  <2>2. [c EXCEPT !.adjusted = more] = a /\ c.adjusted = acct[n].adjusted
    BY AccountWith
  <2>. HIDE DEF b, c
  <2>. QED  BY <2>1, <2>2
<1>4. acct' = [acct EXCEPT ![n] = a]
  <2>1. acct' = [acct EXCEPT ![n].balance = value, ![n].adjusted = @ + value - acct[n].balance]
    BY DEF Reconcile
  <2>2. PICK S : acct \in Seq(S)
    BY DEF IInv, Types
  <2>. HIDE DEF value
  <2>3. acct' = [[acct EXCEPT ![n] = b] EXCEPT
                   ![n] = [[acct EXCEPT ![n] = b][n] EXCEPT
                             !.adjusted = [acct EXCEPT ![n] = b][n].adjusted + value - acct[n].balance]]
    BY <2>1
  <2>4. acct' = [acct EXCEPT ![n] = [b EXCEPT !.adjusted = b.adjusted + value - acct[n].balance]]
    <3>. HIDE DEF b
    <3>. QED  BY <2>2, <2>3
  <2>. QED  BY <1>3, <2>4
<1>5. Account(a) /\ a.dir = acct[n].dir /\ a.live = acct[n].live
  BY <1>2 DEF Account
<1>. HIDE DEF a
<1>6. AccountsStay /\ acct'[n] = a
  BY <1>4, <1>5, OneAccount
<1>7. Placed'
  <2>1. \A k \in DOMAIN acct : acct'[k].live = acct[k].live
    BY <1>4, <1>5 DEF IInv, Types
  <2>. QED  BY <1>1, <1>6, <2>1 DEF IInv, Placed, AccountsStay
<1>8. book' \in Seq(Movement)
  BY <1>1 DEF IInv, Types
<1>. QED  BY <1>1, <1>6, <1>7, <1>8, Between

-----------------------------------------------------------------------------
(* The theorems. *)

LEMMA NextIInv ==
  ASSUME IInv, [Next]_vars
  PROVE  IInv'
<1>0. UNCHANGED currency
  BY DEF Next, vars
<1>1. CASE UNCHANGED vars
  <2>1. UNCHANGED <<acct, book, handler, overlapped, currency>>
    BY <1>1 DEF vars
  <2>. QED  BY <2>1, Steady, Between
<1>2. ASSUME NEW h \in Handlers, NEW c \in Calls, Receive(h, c) PROVE IInv'
  BY <1>0, <1>2, ReceiveIInv
<1>3. ASSUME NEW h \in Handlers,
             Ensure(h) \/ Open(h) \/ FindDebt(h) \/ CheckRepayment(h) \/ Post(h) \/ Die(h)
      PROVE IInv'
  BY <1>0, <1>3, EnsureIInv, OpenIInv, FindDebtIInv, CheckRepaymentIInv, PostIInv, DieIInv
<1>4. ASSUME NEW m \in DOMAIN book, DeleteMovement(m) PROVE IInv'
  BY <1>0, <1>4, DeleteMovementIInv
<1>5. ASSUME NEW n \in DOMAIN acct, CloseAccount(n) PROVE IInv'
  BY <1>0, <1>5, CloseAccountIInv
<1>6. ASSUME NEW n \in DOMAIN acct, NEW size \in Stated, Reconcile(n, size) PROVE IInv'
  BY <1>0, <1>6, ReconcileIInv
<1>. QED  BY <1>1, <1>2, <1>3, <1>4, <1>5, <1>6 DEF Next

LEMMA Invariance == Spec => []IInv
<1>1. Init => IInv
  BY InitIInv
<1>2. IInv /\ [Next]_vars => IInv'
  BY NextIInv
<1>. QED  BY <1>1, <1>2, PTL DEF Spec

\* As long as no two calls that may open a debt account overlapped, a person has
\* one account of each kind, and a retry of a call in rupiah that sent its date and
\* its description meets a conflict only after an account was closed, whatever died
\* and was sent again (ensurePersonDebtAccountId without a unique key,
\* assertIdempotentPayloadMatches).
THEOREM OneAccountEach == Spec => []ForksOnlyWhenCallsOverlap
<1>1. IInv => ForksOnlyWhenCallsOverlap
  <2>1. SUFFICES ASSUME IInv, ~overlapped
                 PROVE  /\ \A dir \in Directions : Cardinality(Candidates(dir)) <= 1
                        /\ NoConflict
    BY DEF ForksOnlyWhenCallsOverlap, NoConflict
  <2>2. ASSUME NEW dir \in Directions PROVE Cardinality(Candidates(dir)) <= 1
    <3>1. CASE Candidates(dir) = {}
      BY <3>1, FS_EmptySet
    <3>2. CASE Candidates(dir) # {}
      <4>1. PICK n : Candidates(dir) = {n}
        BY <2>1, <3>2 DEF IInv, Single
      <4>2. Cardinality(Candidates(dir)) = 1
        BY <4>1, FS_Singleton
      <4>. QED  BY <4>2
    <3>. QED  BY <3>1, <3>2
  <2>3. NoConflict
    BY <2>1 DEF IInv
  <2>. QED  BY <2>2, <2>3
<1>. QED  BY <1>1, Invariance, PTL

\* A repayment is never refused for what its own first attempt repaid: as long as
\* that movement lives, its account is there, and the guards are not asked again
\* (recordRepaymentForFamily looks the key up before it measures).
THEOREM RefusalsAreFair == Spec => RefusalsAreDue
<1>. DEFINE Fair ==
       \A h \in Handlers :
         (handler'[h].pc = "done" /\ handler'[h] # handler[h] /\ handler'[h].result = "refused")
           => \A m \in Booked(handler[h].call) : ~book[m].live
<1>1. IInv /\ [Next]_vars => [Fair]_vars
  <2>1. SUFFICES ASSUME IInv, Next, NEW h \in Handlers, handler'[h].pc = "done",
                        handler'[h] # handler[h], handler'[h].result = "refused",
                        NEW m \in Booked(handler[h].call), book[m].live
                 PROVE  FALSE
    OBVIOUS
  <2>2. /\ book[m].call = handler[h].call /\ book[m].acct \in DOMAIN acct
        /\ book[m].acct \in Candidates(handler[h].call.dir)
    BY <2>1 DEF Booked, IInv, Placed, Candidates
  <2>3. handler = [g \in Handlers |-> handler[g]]
    BY <2>1 DEF IInv, Types
  <2>4. ASSUME NEW g \in Handlers, NEW new, handler' = [handler EXCEPT ![g] = new]
        PROVE  g = h /\ handler'[h] = new
    BY <2>1, <2>3, <2>4
  <2>5. ASSUME NEW g \in Handlers, NEW pc, NEW n, Target(g, pc, n) PROVE pc = "done"
    BY <2>1, <2>4, <2>5 DEF Target
  <2>6. ASSUME NEW g \in Handlers, NEW r, Answer(g, r) PROVE g = h /\ r = "refused"
    BY <2>1, <2>4, <2>6 DEF Answer
  <2>7. ASSUME NEW g \in Handlers, NEW c \in Calls, Receive(g, c) PROVE FALSE
    BY <2>1, <2>4, <2>7 DEF Receive
  <2>8. ASSUME NEW g \in Handlers, Ensure(g) PROVE FALSE
    <3>1. handler[g].pc = "look" /\ handler' = [handler EXCEPT ![g].pc = "open"]
      BY <2>5, <2>8 DEF Ensure, At
    <3>2. g = h
      BY <2>1, <2>4, <3>1
    <3>3. handler[g] = [pc |-> "look", call |-> handler[g].call]
      BY <2>1, <3>1 DEF IInv, Types, Serving, Idle
    <3>4. \A c : [[pc |-> "look", call |-> c] EXCEPT !.pc = "open"].pc = "open"
      OBVIOUS
    <3>5. [handler[g] EXCEPT !.pc = "open"].pc = "open"
      BY <3>3, <3>4
    <3>. QED  BY <2>1, <2>3, <3>1, <3>2, <3>5
  <2>9. ASSUME NEW g \in Handlers, Open(g) PROVE FALSE
    BY <2>1, <2>4, <2>9 DEF Open
  <2>10. ASSUME NEW g \in Handlers, FindDebt(g) PROVE FALSE
    BY <2>2, <2>5, <2>6, <2>10 DEF FindDebt
  <2>11. ASSUME NEW g \in Handlers, CheckRepayment(g) PROVE FALSE
    <3>1. ~Excessive(g) /\ handler' = [handler EXCEPT ![g].pc = "post"]
      BY <2>1, <2>6, <2>11 DEF CheckRepayment, Excessive
    <3>2. g = h /\ handler[g].pc = "key"
      BY <2>1, <2>4, <2>11, <3>1 DEF CheckRepayment, At
    <3>3. handler[g] = [pc |-> "key", call |-> handler[g].call, target |-> handler[g].target,
                        owed |-> handler[g].owed]
      BY <2>1, <3>2 DEF IInv, Types, Serving, Idle
    <3>4. \A c, n, b : [[pc |-> "key", call |-> c, target |-> n, owed |-> b] EXCEPT !.pc = "post"].pc = "post"
      OBVIOUS
    <3>5. [handler[g] EXCEPT !.pc = "post"].pc = "post"
      BY <3>3, <3>4
    <3>. QED  BY <2>1, <2>3, <3>1, <3>2, <3>5
  <2>12. ASSUME NEW g \in Handlers, Post(g) PROVE FALSE
    BY <2>6, <2>12 DEF Post, ReplayAnswers
  <2>13. ASSUME NEW g \in Handlers, Die(g) PROVE FALSE
    BY <2>1, <2>4, <2>13 DEF Die, Idle
  <2>14. ASSUME UNCHANGED handler PROVE FALSE
    BY <2>1, <2>14
  <2>. QED  BY <2>1, <2>7, <2>8, <2>9, <2>10, <2>11, <2>12, <2>13, <2>14
            DEF Next, DeleteMovement, CloseAccount, Reconcile, Change
<1>2. Spec => [][Fair]_vars
  BY <1>1, Invariance, PTL DEF Spec
<1>. QED  BY <1>2 DEF RefusalsAreDue

-----------------------------------------------------------------------------
(* Money.  An account is worth what its live movements brought, and what the *)
(* reconciliations put in.                                                   *)

\* What each movement brought.
Brought == [m \in DOMAIN book |-> Delta(book[m].call)]
Alive == {m \in DOMAIN book : book[m].live}

Explained ==
  /\ acct \in Seq(AccountRow)
  /\ cash \in Int /\ cash = Opening - SumOn(Brought, Alive)
  /\ \A n \in DOMAIN acct : acct[n].live =>
       acct[n].balance = acct[n].adjusted + SumOn(Brought, LiveOn(n))

\* A key posts one movement.
PostedOnce == \A m, k \in DOMAIN book : book[m].call = book[k].call => m = k

Money == Explained /\ PostedOnce

LEMMA DeltaType == \A c \in Calls : Delta(c) \in Int
BY DEF Delta, DebtsAssumption, Call

LEMMA BookFacts ==
  ASSUME Types
  PROVE  /\ IsFiniteSet(DOMAIN book) /\ \A ms \in SUBSET DOMAIN book : IsFiniteSet(ms)
         /\ \A m \in DOMAIN book : book[m].call \in Calls /\ Brought[m] \in Int
         /\ Alive \in SUBSET DOMAIN book /\ \A n : LiveOn(n) \in SUBSET DOMAIN book
         /\ \A ms \in SUBSET DOMAIN book : SumOn(Brought, ms) \in Int
<1>1. book \in Seq(Movement) /\ DOMAIN book = 1..Len(book) /\ Len(book) \in Nat
  BY LenProperties DEF Types
<1>2. IsFiniteSet(DOMAIN book)
  BY <1>1, FS_Interval
<1>3. \A ms \in SUBSET DOMAIN book : IsFiniteSet(ms)
  BY <1>2, FS_Subset
<1>4. \A m \in DOMAIN book : book[m].call \in Calls /\ Brought[m] \in Int
  <2>1. \A m \in DOMAIN book : book[m] \in Movement
    BY <1>1
  <2>. QED  BY <2>1, DeltaType DEF Movement, Brought
<1>5. Alive \in SUBSET DOMAIN book /\ \A n : LiveOn(n) \in SUBSET DOMAIN book
  BY DEF Alive, LiveOn
<1>6. ASSUME NEW ms \in SUBSET DOMAIN book PROVE SumOn(Brought, ms) \in Int
  BY <1>3, <1>4, SumType
<1>. QED  BY <1>2, <1>3, <1>4, <1>5, <1>6

LEMMA MovedIsSum ==
  ASSUME Types, NEW ms \in SUBSET DOMAIN book
  PROVE  Moved(ms) = SumOn(Brought, ms) /\ Moved(ms) \in Int
<1>. DEFINE f == [m \in ms |-> Delta(book[m].call)]
<1>1. IsFiniteSet(ms) /\ \A m \in ms : f[m] = Brought[m] /\ Brought[m] \in Int
  BY BookFacts DEF Brought
<1>2. SumOn(f, ms) = Moved(ms)
  BY SumsUnfolded
<1>. HIDE DEF f
<1>3. SumOn(f, ms) = SumOn(Brought, ms) /\ SumOn(Brought, ms) \in Int
  BY <1>1, SumSame, SumType
<1>. QED  BY <1>2, <1>3

LEMMA AccountFields ==
  ASSUME acct \in Seq(AccountRow)
  PROVE  /\ DOMAIN acct = 1..Len(acct) /\ Len(acct) \in Nat
         /\ \A n \in DOMAIN acct : /\ acct[n] \in AccountRow /\ acct[n].balance \in Int
                                   /\ acct[n].adjusted \in Int
<1>1. DOMAIN acct = 1..Len(acct) /\ Len(acct) \in Nat /\ \A n \in DOMAIN acct : acct[n] \in AccountRow
  BY LenProperties
<1>. QED  BY <1>1 DEF AccountRow

\* A step without a movement: the sums are what they were.
LEMMA SameBook ==
  ASSUME UNCHANGED book
  PROVE  Brought' = Brought /\ Alive' = Alive /\ \A n : LiveOn(n)' = LiveOn(n)
BY DEF Brought, Alive, LiveOn

LEMMA MoneyStays ==
  ASSUME Money, UNCHANGED <<acct, cash, book>>
  PROVE  Money'
BY SameBook DEF Money, Explained, PostedOnce

\* An account that is opened has no movement yet.
LEMMA MoneyOpen ==
  ASSUME IInv, Money, NEW h \in Handlers, Open(h)
  PROVE  Money'
<1>. DEFINE a == [dir |-> handler[h].call.dir, balance |-> 0, adjusted |-> 0, live |-> TRUE]
            last == Len(acct) + 1
<1>1. /\ acct' = Append(acct, a) /\ UNCHANGED <<cash, book>>
      /\ handler[h].call \in Calls
  BY DEF Open, At, IInv, Types, Serving, Idle
<1>2. a \in AccountRow /\ a.balance = 0 /\ a.adjusted = 0
  BY <1>1 DEF AccountRow, DebtsAssumption, Call
<1>. HIDE DEF a
<1>3. /\ acct \in Seq(AccountRow) /\ DOMAIN acct = 1..Len(acct) /\ Len(acct) \in Nat
  BY AccountFields DEF Money, Explained
<1>4. /\ acct' \in Seq(AccountRow) /\ DOMAIN acct' = DOMAIN acct \cup {last}
      /\ acct'[last] = a /\ last \notin DOMAIN acct
      /\ \A n \in DOMAIN acct : acct'[n] = acct[n]
  BY <1>1, <1>2, <1>3
<1>. HIDE DEF last
<1>5. LiveOn(last) = {}
  BY <1>4 DEF LiveOn, IInv, Placed
<1>6. SumOn(Brought, LiveOn(last)) = 0
  BY <1>5, SumEmpty
<1>7. Explained'
  BY <1>1, <1>2, <1>4, <1>6, SameBook DEF Money, Explained
<1>. QED  BY <1>1, <1>7 DEF Money, PostedOnce

\* A movement that is posted takes from the cash what it brings to the account.
LEMMA MoneyPosted ==
  ASSUME IInv, Money, NEW c \in Calls, NEW n \in DOMAIN acct, Booked(c) = {}, acct[n].live,
         acct' = [acct EXCEPT ![n].balance = @ + Delta(c)],
         cash' = cash - Delta(c),
         book' = Append(book, [call |-> c, acct |-> n, live |-> TRUE])
  PROVE  Money'
<1>. DEFINE row == [call |-> c, acct |-> n, live |-> TRUE]
            x == acct[n].balance + Delta(c)
            a == WithBalance(acct[n], x)
<1>1. /\ book \in Seq(Movement) /\ acct \in Seq(AccountRow) /\ Delta(c) \in Int
      /\ DOMAIN acct = 1..Len(acct) /\ Len(acct) \in Nat
      /\ acct[n] \in AccountRow /\ acct[n].balance \in Int /\ acct[n].adjusted \in Int
  BY DeltaType, AccountFields DEF Money, Explained, IInv, Types
<1>2. row \in Movement /\ row.call = c /\ row.acct = n /\ row.live = TRUE
  BY <1>1 DEF Movement
<1>3. /\ a \in AccountRow /\ a.balance = acct[n].balance + Delta(c) /\ a.adjusted = acct[n].adjusted
      /\ a.live = acct[n].live
  <2>1. x \in Int
    BY <1>1
  <2>. QED  BY <1>1, <2>1, RowWith
<1>4. acct' = [acct EXCEPT ![n] = a]
  BY <1>1 DEF WithBalance
<1>. HIDE DEF row, a
<1>5. PICK m : m = Len(book) + 1
  OBVIOUS
<1>6. /\ m \notin DOMAIN book /\ DOMAIN book' = DOMAIN book \cup {m} /\ book'[m] = row
      /\ \A k \in DOMAIN book : book'[k] = book[k]
  BY <1>1, <1>2, <1>5 DEF row
<1>7. /\ acct' \in Seq(AccountRow) /\ DOMAIN acct' = DOMAIN acct /\ acct'[n] = a
      /\ \A k \in DOMAIN acct \ {n} : acct'[k] = acct[k]
  <2>1. acct \in Seq(AccountRow) /\ a \in AccountRow
    BY <1>1, <1>3
  <2>2. ASSUME NEW t, t = [acct EXCEPT ![n] = a]
        PROVE  /\ t \in Seq(AccountRow) /\ DOMAIN t = DOMAIN acct /\ t[n] = a
               /\ \A k \in DOMAIN acct \ {n} : t[k] = acct[k]
    BY <2>1, <2>2, RowReplaced, Zenon
  <2>. QED  BY <1>4, <2>2
<1>8. PICK f : f = Brought'
  OBVIOUS
<1>9. f[m] = Delta(c) /\ \A k \in DOMAIN book : f[k] = Brought[k]
  BY <1>2, <1>6, <1>8 DEF Brought
<1>10. ASSUME NEW ms \in SUBSET DOMAIN book
       PROVE  /\ SumOn(f, ms) = SumOn(Brought, ms)
              /\ SumOn(f, ms \cup {m}) = Delta(c) + SumOn(Brought, ms)
  <2>1. IsFiniteSet(ms) /\ m \notin ms /\ \A k \in ms : f[k] = Brought[k] /\ f[k] \in Int
    BY <1>6, <1>9, BookFacts DEF IInv
  <2>2. SumOn(f, ms \cup {m}) = f[m] + SumOn(f, ms)
    BY <1>1, <1>9, <2>1, SumAdd
  <2>3. SumOn(f, ms) = SumOn(Brought, ms)
    BY <2>1, SumSame
  <2>. QED  BY <1>9, <2>2, <2>3
<1>11. Alive' = Alive \cup {m} /\ Alive \in SUBSET DOMAIN book
  BY <1>2, <1>6 DEF Alive
<1>12. /\ LiveOn(n)' = LiveOn(n) \cup {m}
       /\ \A k : LiveOn(k) \in SUBSET DOMAIN book
       /\ \A k : k # n => LiveOn(k)' = LiveOn(k)
  BY <1>2, <1>6 DEF LiveOn
<1>13. cash' \in Int /\ cash' = Opening - SumOn(f, Alive')
  <2>1. SumOn(f, Alive') = Delta(c) + SumOn(Brought, Alive)
    BY <1>10, <1>11
  <2>2. SumOn(Brought, Alive) \in Int
    BY <1>11, BookFacts DEF IInv
  <2>. QED  BY <1>1, <2>1, <2>2, DebtsAssumption DEF Money, Explained
<1>14. ASSUME NEW k \in DOMAIN acct, acct'[k].live
       PROVE  acct'[k].balance = acct'[k].adjusted + SumOn(f, LiveOn(k)')
  <2>1. CASE k = n
    <3>1. SumOn(f, LiveOn(n)') = Delta(c) + SumOn(Brought, LiveOn(n))
      BY <1>10, <1>12
    <3>2. SumOn(Brought, LiveOn(n)) \in Int
      BY <1>12, BookFacts DEF IInv
    <3>3. acct[n].balance = acct[n].adjusted + SumOn(Brought, LiveOn(n))
      BY DEF Money, Explained
    <3>. QED  BY <1>1, <1>3, <1>7, <2>1, <3>1, <3>2, <3>3
  <2>2. CASE k # n
    <3>1. acct[k].balance = acct[k].adjusted + SumOn(Brought, LiveOn(k))
      BY <1>7, <1>14, <2>2 DEF Money, Explained
    <3>2. SumOn(f, LiveOn(k)') = SumOn(Brought, LiveOn(k))
      BY <1>10, <1>12, <2>2
    <3>. QED  BY <1>7, <2>2, <3>1, <3>2
  <2>. QED  BY <2>1, <2>2
<1>15. Explained'
  BY <1>7, <1>8, <1>13, <1>14 DEF Explained
<1>16. PostedOnce'
  <2>1. \A k \in DOMAIN book : book[k].call # c
    BY DEF Booked
  <2>. QED  BY <1>2, <1>6, <2>1 DEF Money, PostedOnce
<1>. QED  BY <1>15, <1>16 DEF Money

\* Movements of one account that are undone.
LEMMA MoneyUndone ==
  ASSUME IInv, Money, NEW n \in DOMAIN acct, NEW ms \in SUBSET LiveOn(n), NEW live \in BOOLEAN,
         Undo(n, ms, live), acct[n].live
  PROVE  Money'
<1>. DEFINE x == acct[n].balance - Moved(ms)
            a == WithLive(acct[n], x, live)
<1>1. /\ ms \in SUBSET DOMAIN book /\ ms \in SUBSET Alive
      /\ \A k : LiveOn(k) \in SUBSET DOMAIN book /\ Alive \in SUBSET DOMAIN book
  BY DEF LiveOn, Alive
<1>2. /\ acct \in Seq(AccountRow) /\ acct[n] \in AccountRow
      /\ acct[n].balance \in Int /\ acct[n].adjusted \in Int
      /\ Moved(ms) \in Int /\ Moved(ms) = SumOn(Brought, ms) /\ book \in Seq(Movement)
  BY <1>1, AccountFields, MovedIsSum DEF Money, Explained, IInv, Types
<1>3. a \in AccountRow /\ a.balance = x /\ a.adjusted = acct[n].adjusted
  <2>1. x \in Int
    BY <1>2
  <2>. HIDE DEF x
  <2>. QED  BY <1>2, <2>1, RowWithLive
<1>4. acct' = [acct EXCEPT ![n] = a]
  <2>1. acct' = [acct EXCEPT ![n].balance = @ - Moved(ms), ![n].live = live]
    BY DEF Undo
  <2>. QED  BY <1>2, <2>1 DEF WithLive
<1>. HIDE DEF a
<1>5. /\ acct' \in Seq(AccountRow) /\ DOMAIN acct' = DOMAIN acct /\ acct'[n] = a
      /\ \A k \in DOMAIN acct \ {n} : acct'[k] = acct[k]
  BY <1>2, <1>3, <1>4, RowReplaced
<1>6. \A k \in ms : book[k] \in Movement
  BY <1>1, <1>2
<1>7. \A k \in Movement : LET j == [k EXCEPT !.live = FALSE]
                          IN  j.call = k.call /\ j.acct = k.acct /\ j.live = FALSE
  BY DEF Movement
<1>8. /\ DOMAIN book' = DOMAIN book
      /\ \A k \in DOMAIN book : book'[k].call = book[k].call /\ book'[k].acct = book[k].acct
      /\ \A k \in DOMAIN book : book'[k].live = (book[k].live /\ k \notin ms)
  <2>1. book' = [m \in DOMAIN book |-> IF m \in ms THEN [book[m] EXCEPT !.live = FALSE] ELSE book[m]]
    BY DEF Undo
  <2>2. \A k \in ms : book'[k].call = book[k].call /\ book'[k].acct = book[k].acct
                      /\ book'[k].live = FALSE
    BY <1>1, <1>6, <1>7, <2>1
  <2>3. \A k \in DOMAIN book : k \notin ms => book'[k] = book[k]
    BY <2>1
  <2>4. \A k \in DOMAIN book : book[k].live \in BOOLEAN
    <3>1. \A k \in DOMAIN book : book[k] \in Movement
      BY <1>2
    <3>. QED  BY <3>1 DEF Movement
  <2>. QED  BY <2>1, <2>2, <2>3, <2>4
<1>9. /\ Brought' = Brought /\ Alive' = Alive \ ms
      /\ LiveOn(n)' = LiveOn(n) \ ms
      /\ \A k : k # n => LiveOn(k)' = LiveOn(k)
  <2>1. \A k \in ms : book[k].acct = n
    BY DEF LiveOn
  <2>2. Brought' = Brought
    BY <1>8 DEF Brought
  <2>3. Alive' = Alive \ ms
    BY <1>8 DEF Alive
  <2>4. LiveOn(n)' = LiveOn(n) \ ms
    BY <1>8 DEF LiveOn
  <2>5. ASSUME NEW k, k # n PROVE LiveOn(k)' = LiveOn(k)
    <3>1. ASSUME NEW j \in DOMAIN book, book[j].acct = k PROVE book'[j].live = book[j].live
      <4>1. j \notin ms
        BY <2>1, <2>5, <3>1
      <4>2. book[j].live \in BOOLEAN
        <5>1. book[j] \in Movement
          BY <1>2
        <5>. QED  BY <5>1 DEF Movement
      <4>. QED  BY <1>8, <4>1, <4>2
    <3>. QED  BY <1>8, <3>1 DEF LiveOn
  <2>. QED  BY <2>2, <2>3, <2>4, <2>5
<1>10. ASSUME NEW ks \in SUBSET DOMAIN book, ms \in SUBSET ks
       PROVE  SumOn(Brought, ks \ ms) = SumOn(Brought, ks) - SumOn(Brought, ms)
  <2>1. IsFiniteSet(ks) /\ \A k \in ks : Brought[k] \in Int
    BY BookFacts DEF IInv
  <2>. QED  BY <1>10, <2>1, SumDifference
<1>11. cash' \in Int /\ cash' = Opening - SumOn(Brought, Alive \ ms)
  <2>1. SumOn(Brought, Alive) \in Int /\ cash' = cash + Moved(ms)
    BY <1>1, BookFacts DEF IInv, Undo
  <2>2. SumOn(Brought, Alive \ ms) = SumOn(Brought, Alive) - SumOn(Brought, ms)
    BY <1>1, <1>10
  <2>. QED  BY <1>2, <2>1, <2>2, DebtsAssumption DEF Money, Explained
<1>12. ASSUME NEW k \in DOMAIN acct, acct'[k].live
       PROVE  acct'[k].balance = acct'[k].adjusted + SumOn(Brought, LiveOn(k)')
  <2>1. CASE k = n
    <3>1. SumOn(Brought, LiveOn(n) \ ms) = SumOn(Brought, LiveOn(n)) - SumOn(Brought, ms)
      BY <1>1, <1>10
    <3>2. SumOn(Brought, LiveOn(n)) \in Int
      BY <1>1, BookFacts DEF IInv
    <3>3. acct[n].balance = acct[n].adjusted + SumOn(Brought, LiveOn(n))
      BY DEF Money, Explained
    <3>4. SumOn(Brought, ms) \in Int /\ x = acct[n].balance - SumOn(Brought, ms)
      BY <1>2
    <3>5. x = acct[n].adjusted + (SumOn(Brought, LiveOn(n)) - SumOn(Brought, ms))
      <4>. HIDE DEF x
      <4>. QED  BY <1>2, <3>2, <3>3, <3>4
    <3>. QED  BY <1>3, <1>5, <1>9, <2>1, <3>1, <3>5
  <2>2. CASE k # n
    BY <1>5, <1>9, <1>12, <2>2 DEF Money, Explained
  <2>. QED  BY <2>1, <2>2
<1>13. Explained'
  BY <1>5, <1>9, <1>11, <1>12 DEF Explained
<1>14. PostedOnce'
  BY <1>8 DEF Money, PostedOnce
<1>. QED  BY <1>13, <1>14 DEF Money

LEMMA MoneyReconciled ==
  ASSUME IInv, Money, NEW n \in DOMAIN acct, NEW size \in Stated, Reconcile(n, size)
  PROVE  Money'
<1>. DEFINE value == IF acct[n].dir = "receivable" THEN size ELSE -size
            more == acct[n].adjusted + value - acct[n].balance
            a == WithAdjusted(acct[n], value, more)
<1>1. /\ acct \in Seq(AccountRow) /\ acct[n] \in AccountRow
      /\ acct[n].balance \in Int /\ acct[n].adjusted \in Int /\ value \in Int /\ more \in Int
  <2>1. acct \in Seq(AccountRow)
    BY DEF Money, Explained
  <2>2. acct[n] \in AccountRow /\ acct[n].balance \in Int /\ acct[n].adjusted \in Int
    BY <2>1, AccountFields
  <2>3. value \in Int
    BY DebtsAssumption
  <2>. HIDE DEF value
  <2>4. more \in Int
    BY <2>2, <2>3
  <2>. QED  BY <2>1, <2>2, <2>3, <2>4
<1>2. a \in AccountRow /\ a.balance = value /\ a.adjusted = more /\ a.live = acct[n].live
  <2>1. acct[n] \in AccountRow /\ value \in Int /\ more \in Int
    BY <1>1
  <2>. HIDE DEF value, more
  <2>2. \A s : s = WithAdjusted(acct[n], value, more) =>
          s \in AccountRow /\ s.balance = value /\ s.adjusted = more /\ s.live = acct[n].live
    BY <2>1, RowWithAdjusted
  <2>. QED  BY <2>2
<1>3. acct' = [acct EXCEPT ![n] = a] /\ UNCHANGED <<cash, book>>
  <2>1. acct' = [acct EXCEPT ![n].balance = value, ![n].adjusted = @ + value - acct[n].balance]
    BY DEF Reconcile
  <2>2. UNCHANGED <<cash, book>>
    BY DEF Reconcile
  <2>. HIDE DEF value
  <2>. QED  BY <1>1, <2>1, <2>2 DEF WithAdjusted
<1>. HIDE DEF a
<1>4. /\ acct' \in Seq(AccountRow) /\ DOMAIN acct' = DOMAIN acct /\ acct'[n] = a
      /\ \A k \in DOMAIN acct \ {n} : acct'[k] = acct[k]
  BY <1>1, <1>2, <1>3
<1>5. ASSUME NEW k \in DOMAIN acct, acct'[k].live
      PROVE  acct'[k].balance = acct'[k].adjusted + SumOn(Brought, LiveOn(k))
  <2>1. acct[k].live => acct[k].balance = acct[k].adjusted + SumOn(Brought, LiveOn(k))
    BY DEF Money, Explained
  <2>2. CASE k # n
    BY <1>4, <1>5, <2>1, <2>2
  <2>3. CASE k = n
    <3>1. PICK s : s = SumOn(Brought, LiveOn(n))
      OBVIOUS
    <3>2. acct[n].balance = acct[n].adjusted + s /\ a.balance = value /\ a.adjusted = more
      BY <1>2, <1>4, <1>5, <2>1, <2>3, <3>1
    <3>3. s \in Int
      BY <3>1, BookFacts DEF IInv
    <3>4. more = acct[n].adjusted + value - acct[n].balance
      OBVIOUS
    <3>5. value = more + s
      <4>. HIDE DEF value, more
      <4>. QED  BY <1>1, <3>2, <3>3, <3>4
    <3>. QED  BY <1>4, <2>3, <3>1, <3>2, <3>5
  <2>. QED  BY <2>2, <2>3
<1>. QED  BY <1>3, <1>4, <1>5, SameBook DEF Money, Explained, PostedOnce

LEMMA MoneyInit == Init => Money
<1>. SUFFICES ASSUME Init PROVE Money
  OBVIOUS
<1>1. acct \in Seq(AccountRow) /\ acct = <<>> /\ DOMAIN acct = {} /\ book = <<>> /\ DOMAIN book = {}
  BY DEF Init
<1>2. Alive = {}
  BY <1>1 DEF Alive
<1>3. SumOn(Brought, Alive) = 0
  BY <1>2, SumEmpty
<1>4. cash = Opening /\ Opening \in Int
  BY DEF Init, DebtsAssumption
<1>. QED  BY <1>1, <1>3, <1>4 DEF Money, Explained, PostedOnce

LEMMA MoneyNext ==
  ASSUME IInv, Money, [Next]_vars
  PROVE  Money'
<1>1. ASSUME NEW h \in Handlers, NEW c \in Calls, Receive(h, c) PROVE Money'
  BY <1>1, MoneyStays DEF Receive
<1>2. ASSUME NEW h \in Handlers, Ensure(h) PROVE Money'
  BY <1>2, MoneyStays DEF Ensure
<1>3. ASSUME NEW h \in Handlers, Open(h) PROVE Money'
  BY <1>3, MoneyOpen
<1>4. ASSUME NEW h \in Handlers, FindDebt(h) PROVE Money'
  BY <1>4, MoneyStays DEF FindDebt
<1>5. ASSUME NEW h \in Handlers, CheckRepayment(h) PROVE Money'
  BY <1>5, MoneyStays DEF CheckRepayment
<1>6. ASSUME NEW h \in Handlers, Post(h) PROVE Money'
  <2>1. handler[h].call \in Calls /\ handler[h].target \in DOMAIN acct
    BY <1>6 DEF Post, At, IInv, Types, Serving, Idle
  <2>2. CASE UNCHANGED <<acct, cash, book>>
    BY <2>2, MoneyStays
  <2>3. CASE /\ acct[handler[h].target].live /\ Replayed(h) = {}
             /\ acct' = [acct EXCEPT ![handler[h].target].balance = @ + Delta(handler[h].call)]
             /\ cash' = cash - Delta(handler[h].call)
             /\ book' = Append(book, [call |-> handler[h].call, acct |-> handler[h].target, live |-> TRUE])
    BY <2>1, <2>3, MoneyPosted DEF Replayed
  <2>. QED  BY <1>6, <2>2, <2>3 DEF Post
<1>7. ASSUME NEW h \in Handlers, Die(h) PROVE Money'
  BY <1>7, MoneyStays DEF Die
<1>8. ASSUME NEW m \in DOMAIN book, DeleteMovement(m) PROVE Money'
  <2>1. {m} \in SUBSET LiveOn(book[m].acct) /\ book[m].acct \in DOMAIN acct
    BY <1>8 DEF DeleteMovement, LiveOn, IInv, Placed
  <2>. QED  BY <1>8, <2>1, MoneyUndone DEF DeleteMovement
<1>9. ASSUME NEW n \in DOMAIN acct, CloseAccount(n) PROVE Money'
  BY <1>9, MoneyUndone DEF CloseAccount
<1>10. ASSUME NEW n \in DOMAIN acct, NEW size \in Stated, Reconcile(n, size) PROVE Money'
  BY <1>10, MoneyReconciled
<1>11. CASE UNCHANGED vars
  BY <1>11, MoneyStays DEF vars
<1>. QED  BY <1>1, <1>2, <1>3, <1>4, <1>5, <1>6, <1>7, <1>8, <1>9, <1>10, <1>11 DEF Next

\* What is shown for a person adds up, account by account.
LEMMA PositionFollows == IInv /\ Money => PositionIsExplained
<1>. SUFFICES ASSUME IInv, Money PROVE PositionIsExplained
  OBVIOUS
<1>1. /\ Shown \in SUBSET DOMAIN acct /\ IsFiniteSet(Shown)
      /\ \A n \in Shown : acct[n].balance \in Int /\ acct[n].adjusted \in Int
  <2>1. DOMAIN acct = 1..Len(acct) /\ Len(acct) \in Nat
    BY AccountFields DEF Money, Explained
  <2>2. Shown \in SUBSET DOMAIN acct
    BY DEF Shown
  <2>3. IsFiniteSet(Shown)
    <3>1. IsFiniteSet(1..Len(acct))
      BY <2>1, FS_Interval
    <3>. QED  BY <2>1, <2>2, <3>1, FS_Subset
  <2>. QED  BY <2>2, <2>3, AccountFields DEF Money, Explained
<1>2. /\ Movements \in SUBSET DOMAIN book /\ IsFiniteSet(Movements)
      /\ \A m \in Movements : Brought[m] \in Int /\ book[m].acct \in Shown
  <2>1. Movements \in SUBSET DOMAIN book /\ \A m \in Movements : book[m].acct \in Shown
    BY DEF Movements
  <2>. QED  BY <2>1, BookFacts DEF IInv
<1>3. Moved(Movements) = SumOn(Brought, Movements) /\ Moved(Movements) \in Int
  BY <1>2, MovedIsSum DEF IInv
<1>4. PICK b : b = [n \in Shown |-> acct[n].balance]
  OBVIOUS
<1>5. PICK a : a = [n \in Shown |-> acct[n].adjusted]
  OBVIOUS
<1>6. SumOn(b, Shown) = Position
  BY <1>4, SumsUnfolded DEF Position
<1>7. SumOn(a, Shown) = MapThenSumSet(LAMBDA n : acct[n].adjusted, Shown)
  BY <1>5, SumsUnfolded
<1>8. PICK g : g = [n \in Shown |-> SumOn(Brought, LiveOn(n))]
  OBVIOUS
<1>9. SumOn(g, Shown) = SumOn(Brought, Movements)
  <2>1. PICK k : k = [m \in Movements |-> book[m].acct]
    OBVIOUS
  <2>2. \A m \in Movements : k[m] \in Shown
    BY <1>2, <2>1
  <2>3. ASSUME NEW n \in Shown
        PROVE  \E U : g[n] = SumOn(Brought, U) /\ \A m : m \in U <=> m \in Movements /\ k[m] = n
    <3>1. \A m : m \in LiveOn(n) <=> m \in Movements /\ k[m] = n
      BY <2>1, <2>3 DEF Movements, LiveOn
    <3>. QED  BY <1>8, <3>1
  <2>4. IsFiniteSet(Shown) /\ IsFiniteSet(Movements) /\ \A m \in Movements : Brought[m] \in Int
    BY <1>1, <1>2
  <2>5. \A n \in Shown : \E U : g[n] = SumOn(Brought, U) /\ \A m : m \in U <=> m \in Movements /\ k[m] = n
    BY <2>3
  <2>. QED  BY <2>2, <2>4, <2>5, SumGroups, SMTT(60)
<1>10. \A n \in Shown : b[n] \in Int /\ a[n] \in Int /\ g[n] \in Int /\ b[n] = g[n] + a[n]
  <2>1. ASSUME NEW n \in Shown
        PROVE  /\ acct[n].balance = acct[n].adjusted + SumOn(Brought, LiveOn(n))
               /\ SumOn(Brought, LiveOn(n)) \in Int
    BY <2>1, BookFacts DEF Shown, Money, Explained, IInv
  <2>2. ASSUME NEW n \in Shown PROVE b[n] \in Int /\ a[n] \in Int /\ g[n] \in Int /\ b[n] = g[n] + a[n]
    <3>1. PICK s \in Int : s = SumOn(Brought, LiveOn(n))
      BY <2>1
    <3>2. b[n] = acct[n].balance /\ a[n] = acct[n].adjusted /\ g[n] = s
      BY <1>4, <1>5, <1>8, <3>1
    <3>. QED  BY <1>1, <2>1, <3>1, <3>2
  <2>. QED  BY <2>2
<1>11. SumOn(b, Shown) = SumOn(g, Shown) + SumOn(a, Shown)
  BY <1>1, <1>10, SumOfSum
<1>12. Position = Moved(Movements) + MapThenSumSet(LAMBDA n : acct[n].adjusted, Shown)
  BY <1>3, <1>6, <1>7, <1>9, <1>11
<1>13. cash = Opening - Moved({m \in DOMAIN book : book[m].live})
  <2>1. Alive = {m \in DOMAIN book : book[m].live} /\ Alive \in SUBSET DOMAIN book
    BY DEF Alive
  <2>2. Moved(Alive) = SumOn(Brought, Alive)
    BY <2>1, MovedIsSum DEF IInv
  <2>. QED  BY <2>1, <2>2 DEF Money, Explained
<1>14. ASSUME NEW c \in Calls PROVE Cardinality(Booked(c)) <= 1
  <2>1. CASE Booked(c) = {}
    BY <2>1, FS_EmptySet
  <2>2. CASE Booked(c) # {}
    <3>1. PICK m \in Booked(c) : TRUE
      BY <2>2
    <3>2. Booked(c) = {m}
      BY <3>1 DEF Booked, Money, PostedOnce
    <3>3. Cardinality({m}) = 1
      BY FS_Singleton
    <3>. QED  BY <3>2, <3>3
  <2>. QED  BY <2>1, <2>2
<1>. QED  BY <1>12, <1>13, <1>14 DEF PositionIsExplained

\* The position shown for a person is the sum of the movements shown, but for what
\* reconciliations put in; cash has paid for every movement that lives; and a key
\* posts one movement: for any number of calls, accounts, deletions and deaths of
\* the server, and for any amounts.
THEOREM PositionAddsUp == Spec => []PositionIsExplained
<1>1. IInv /\ Money /\ [Next]_vars => Money'
  BY MoneyNext
<1>2. Spec => []Money
  BY <1>1, MoneyInit, Invariance, PTL DEF Spec
<1>. QED  BY <1>2, Invariance, PositionFollows, PTL

-----------------------------------------------------------------------------
(* Household.  Nothing in it is about debts. *)

HIDE DebtsAssumption

\* What parts of rows are worth, and what months have spent.
Worth(rows, ps) == MapThenSumSet(LAMBDA p : rows[p[1]].parts[p[2]].base, ps)
Spent(rows, zone, category, ms) == MapThenSumSet(LAMBDA m : Bucket(rows, m, zone, category).actual, ms)

\* They are sums of functions.
LEMMA WorthUnfolded ==
  ASSUME NEW rows, NEW L
  PROVE  SumOn([p \in L |-> rows[p[1]].parts[p[2]].base], L) = Worth(rows, L)
BY DEF SumOn, Worth, MapThenSumSet, MapThenFoldSet

LEMMA SpentUnfolded ==
  ASSUME NEW rows, NEW zone, NEW category, NEW L
  PROVE  SumOn([m \in L |-> Bucket(rows, m, zone, category).actual], L) = Spent(rows, zone, category, L)
BY DEF SumOn, Spent, MapThenSumSet, MapThenFoldSet

-----------------------------------------------------------------------------
(* The calendar.                                                           *)

\* A zone is less than a day ahead of UTC or behind it.
LEMMA ZoneIsLessThanADay ==
  ASSUME NEW at \in Int, NEW zone \in -12..14, NEW d \in Int
  PROVE  /\ DayIn(zone, at) \in Int
         /\ d <= DayIn(zone, at) => at >= 24 * (d - 1)
         /\ DayIn(zone, at) < d => at < 24 * (d + 1)
BY DEF DayIn

LEMMA CalendarFacts ==
  /\ Len(FirstDay) \in Nat /\ Len(FirstDay) > 1 /\ Months = 1..(Len(FirstDay) - 1)
  /\ \A m \in 1..Len(FirstDay) : FirstDay[m] \in Int
  /\ \A m \in Months : m \in Int /\ FirstDay[m] \in Int /\ FirstDay[m + 1] \in Int /\ FirstDay[m] < FirstDay[m + 1]
<1>1. /\ FirstDay \in Seq(Nat) /\ Len(FirstDay) > 1
      /\ \A m \in Months : FirstDay[m] < FirstDay[m + 1]
  BY HouseholdAssumption
<1>2. Len(FirstDay) \in Nat /\ \A m \in 1..Len(FirstDay) : FirstDay[m] \in Nat
  BY <1>1
<1>. QED  BY <1>1, <1>2 DEF Months

\* Months follow one another: by induction on the later one.
LEMMA MonthsFollow ==
  ASSUME NEW m \in 1..Len(FirstDay), NEW n \in 1..Len(FirstDay), m < n
  PROVE  FirstDay[m] < FirstDay[n]
<1>. DEFINE B == {k \in 1..Len(FirstDay) : m < k /\ ~(FirstDay[m] < FirstDay[k])}
<1>0. SUFFICES ASSUME B # {} PROVE FALSE
  OBVIOUS
<1>1. B \in SUBSET Nat
  BY CalendarFacts
<1>2. PICK k \in B : \A j \in B : k <= j
  BY <1>0, <1>1, LeastNumber
<1>3. /\ k \in 1..Len(FirstDay) /\ m < k /\ ~(FirstDay[m] < FirstDay[k])
      /\ k - 1 \notin B
  <2>1. k \in Nat /\ ~(k <= k - 1)
    BY <1>1
  <2>. HIDE DEF B
  <2>2. k - 1 \notin B
    BY <1>2, <2>1
  <2>. QED  BY <2>2 DEF B
<1>4. k - 1 \in Months /\ k - 1 \in 1..Len(FirstDay) /\ k - 1 + 1 = k
  BY <1>3, CalendarFacts
<1>5. FirstDay[k - 1] < FirstDay[k] /\ FirstDay[k] \in Int /\ FirstDay[k - 1] \in Int /\ FirstDay[m] \in Int
  BY <1>3, <1>4, CalendarFacts
<1>6. m = k - 1 \/ FirstDay[m] < FirstDay[k - 1]
  BY <1>3, <1>4
<1>. QED  BY <1>3, <1>5, <1>6

Within(m, d) == FirstDay[m] <= d /\ d < FirstDay[m + 1]

\* A day is in one month.
LEMMA OneMonth ==
  ASSUME NEW d \in Int, FirstDay[1] <= d, d < FirstDay[Len(FirstDay)]
  PROVE  \E m \in Months : Within(m, d) /\ \A n \in Months : Within(n, d) => n = m
<1>. DEFINE N == {k \in 1..Len(FirstDay) : d < FirstDay[k]}
<1>1. N \in SUBSET Nat /\ Len(FirstDay) \in N
  BY CalendarFacts
<1>2. PICK k \in N : \A j \in N : k <= j
  BY <1>1, LeastNumber
<1>3. /\ k \in 1..Len(FirstDay) /\ d < FirstDay[k] /\ k # 1 /\ k - 1 \notin N
  <2>1. k \in Nat /\ ~(k <= k - 1)
    BY <1>1
  <2>2. FirstDay[1] \in Int /\ FirstDay[k] \in Int
    BY CalendarFacts
  <2>. HIDE DEF N
  <2>3. k - 1 \notin N
    BY <1>2, <2>1
  <2>. QED  BY <2>2, <2>3 DEF N
<1>4. k - 1 \in Months /\ k - 1 \in 1..Len(FirstDay) /\ k - 1 + 1 = k
  BY <1>3, CalendarFacts
<1>5. Within(k - 1, d)
  BY <1>3, <1>4, CalendarFacts DEF Within
<1>6. ASSUME NEW n \in Months, Within(n, d) PROVE n = k - 1
  <2>1. n + 1 \in 1..Len(FirstDay) /\ n \in 1..Len(FirstDay) /\ n \in Int
    BY CalendarFacts
  <2>2. CASE n < k - 1
    <3>1. n + 1 = k - 1 \/ FirstDay[n + 1] < FirstDay[k - 1]
      BY <1>4, <2>1, <2>2, MonthsFollow
    <3>2. FirstDay[n + 1] \in Int /\ FirstDay[k - 1] \in Int
      BY <1>4, <2>1, CalendarFacts
    <3>. QED  BY <1>5, <1>6, <3>1, <3>2 DEF Within
  <2>3. CASE k - 1 < n
    <3>1. n = k \/ FirstDay[k] < FirstDay[n]
      BY <1>3, <1>4, <2>1, <2>3, MonthsFollow
    <3>2. FirstDay[k] \in Int /\ FirstDay[n] \in Int
      BY <1>3, <2>1, CalendarFacts
    <3>. QED  BY <1>3, <1>6, <3>1, <3>2 DEF Within
  <2>. QED  BY <1>4, <2>1, <2>2, <2>3
<1>. QED  BY <1>4, <1>5, <1>6

\* So a spending has one month, which is the one it counts in.
LEMMA SpendingHasItsMonth ==
  ASSUME NEW rows \in Seq(Spendings), NEW n \in DOMAIN rows, NEW zone \in Zones
  PROVE  /\ MonthAt(zone, rows[n].at) \in Months
         /\ \A m \in Months : n \in Counted(rows, m, zone) <=> m = MonthAt(zone, rows[n].at)
<1>. DEFINE at == rows[n].at
            d == DayIn(zone, at)
<1>1. rows[n] \in Spendings
  OBVIOUS
<1>2. zone \in -12..14 /\ at \in Int /\ FirstDay[1] <= d /\ d < FirstDay[Len(FirstDay)]
  <2>1. /\ Zones \subseteq -12..14
        /\ \A r \in Spendings : r.at \in Nat /\ \A z \in Zones :
             FirstDay[1] <= DayIn(z, r.at) /\ DayIn(z, r.at) < FirstDay[Len(FirstDay)]
    BY HouseholdAssumption
  <2>. QED  BY <1>1, <2>1
<1>3. d \in Int
  BY <1>2, ZoneIsLessThanADay
<1>. HIDE DEF d
<1>4. PICK m \in Months : Within(m, d) /\ \A k \in Months : Within(k, d) => k = m
  BY <1>2, <1>3, OneMonth
<1>5. MonthAt(zone, at) = CHOOSE k \in Months : Within(k, d)
  BY DEF MonthAt, Within, d
<1>6. MonthAt(zone, at) = m
  BY <1>4, <1>5
<1>7. ASSUME NEW k \in Months PROVE n \in Counted(rows, k, zone) <=> Within(k, d)
  <2>1. FirstDay[k] \in Int /\ FirstDay[k + 1] \in Int
    BY CalendarFacts
  <2>2. d <= FirstDay[k + 1] - 1 <=> d < FirstDay[k + 1]
    BY <1>3, <2>1
  <2>3. Within(k, d) => at >= 24 * (FirstDay[k] - 1) /\ at < 24 * (FirstDay[k + 1] + 1)
    BY <1>2, <2>1, ZoneIsLessThanADay DEF Within, d
  <2>. QED  BY <2>2, <2>3 DEF Counted, Fetched, Within, d
<1>. QED  BY <1>4, <1>6, <1>7

\* The parts of some rows are finitely many.
LEMMA PartsAreFinite ==
  ASSUME NEW rows \in Seq(Spendings), NEW ns \in SUBSET DOMAIN rows, NEW category
  PROVE  /\ IsFiniteSet(PartsOf(rows, ns, category))
         /\ \A p : p \in PartsOf(rows, ns, category) <=>
              \E n \in ns : \E i \in DOMAIN rows[n].parts : p = <<n, i>> /\ rows[n].parts[i].category = category
         /\ \A p \in PartsOf(rows, ns, category) : rows[p[1]].parts[p[2]].base \in Int
<1>. DEFINE Of(n) == {<<n, i>> : i \in DOMAIN rows[n].parts}
<1>1. ASSUME NEW n \in ns
      PROVE  /\ rows[n].parts \in Seq(Share)
             /\ DOMAIN rows[n].parts = 1..Len(rows[n].parts) /\ Len(rows[n].parts) \in Nat
  <2>1. rows[n] \in Spendings
    OBVIOUS
  <2>2. rows[n].parts \in Seq(Share)
    BY <2>1, HouseholdAssumption
  <2>. QED  BY <2>2
<1>2. ASSUME NEW n \in ns PROVE IsFiniteSet(Of(n))
  <2>1. PICK f : f = [i \in DOMAIN rows[n].parts |-> <<n, i>>]
    OBVIOUS
  <2>2. IsFiniteSet(DOMAIN rows[n].parts)
    BY <1>1, FS_Interval
  <2>3. f \in Surjection(DOMAIN rows[n].parts, Of(n))
    BY <2>1 DEF Surjection
  <2>. QED  BY <2>2, <2>3, FS_Surjection
<1>3. IsFiniteSet({Of(n) : n \in ns})
  <2>1. PICK f : f = [n \in ns |-> Of(n)]
    OBVIOUS
  <2>2. DOMAIN rows = 1..Len(rows) /\ Len(rows) \in Nat
    OBVIOUS
  <2>3. IsFiniteSet(ns)
    <3>1. IsFiniteSet(1..Len(rows))
      BY <2>2, FS_Interval
    <3>. QED  BY <2>2, <3>1, FS_Subset
  <2>4. f \in Surjection(ns, {Of(n) : n \in ns})
    BY <2>1 DEF Surjection
  <2>. QED  BY <2>3, <2>4, FS_Surjection
<1>4. IsFiniteSet(UNION {Of(n) : n \in ns})
  <2>1. \A T \in {Of(n) : n \in ns} : IsFiniteSet(T)
    BY <1>2
  <2>. HIDE DEF Of
  <2>. QED  BY <1>3, <2>1, FS_UNION
<1>5. PartsOf(rows, ns, category) = {p \in UNION {Of(n) : n \in ns} : rows[p[1]].parts[p[2]].category = category}
  BY DEF PartsOf
<1>6. PartsOf(rows, ns, category) \in SUBSET UNION {Of(n) : n \in ns}
  BY <1>5
<1>7. ASSUME NEW p
      PROVE  p \in PartsOf(rows, ns, category) <=>
               \E n \in ns : \E i \in DOMAIN rows[n].parts : p = <<n, i>> /\ rows[n].parts[i].category = category
  BY <1>5
<1>8. ASSUME NEW p \in PartsOf(rows, ns, category) PROVE rows[p[1]].parts[p[2]].base \in Int
  <2>0. PICK n \in ns : \E i \in DOMAIN rows[n].parts : p = <<n, i>>
    BY <1>7
  <2>1. PICK i \in DOMAIN rows[n].parts : p = <<n, i>>
    BY <2>0
  <2>2. rows[n].parts[i] \in Share
    BY <1>1
  <2>. QED  BY <2>1, <2>2 DEF Share
<1>9. IsFiniteSet(PartsOf(rows, ns, category))
  BY <1>4, <1>6, FS_Subset
<1>. QED  BY <1>7, <1>8, <1>9

\* The months together have spent in a category what the rows have.
LEMMA MonthsAddUp ==
  ASSUME NEW rows \in Seq(Spendings), NEW zone \in Zones, NEW category,
         NEW ns, ns = {n \in DOMAIN rows : ~rows[n].pending}
  PROVE  Spent(rows, zone, category, Months) = Worth(rows, PartsOf(rows, ns, category))
<1>. DEFINE T == PartsOf(rows, ns, category)
            In(m) == {n \in Counted(rows, m, zone) : rows[n].pending = FALSE}
            U(m) == PartsOf(rows, In(m), category)
<1>0. \A n \in DOMAIN rows : rows[n].pending \in BOOLEAN
  BY HouseholdAssumption
<1>1. \A m : In(m) \in SUBSET DOMAIN rows
  BY DEF Counted, Fetched
<1>2. \A m \in Months : \A n : n \in In(m) <=> n \in ns /\ MonthAt(zone, rows[n].at) = m
  BY <1>0, <1>1, SpendingHasItsMonth
<1>3. PICK f : f = [p \in T |-> rows[p[1]].parts[p[2]].base]
  OBVIOUS
<1>4. PICK g : g = [m \in Months |-> Bucket(rows, m, zone, category).actual]
  OBVIOUS
<1>5. PICK k : k = [p \in T |-> MonthAt(zone, rows[p[1]].at)]
  OBVIOUS
<1>6. /\ IsFiniteSet(T) /\ IsFiniteSet(Months)
      /\ \A p \in T : f[p] \in Int /\ k[p] \in Months
  <2>1. ns \in SUBSET DOMAIN rows
    OBVIOUS
  <2>2. IsFiniteSet(T) /\ \A p \in T : rows[p[1]].parts[p[2]].base \in Int /\ p[1] \in DOMAIN rows
    BY <2>1, PartsAreFinite
  <2>3. IsFiniteSet(Months)
    BY CalendarFacts, FS_Interval
  <2>. HIDE DEF T
  <2>. QED  BY <1>3, <1>5, <2>2, <2>3, SpendingHasItsMonth
<1>7. ASSUME NEW m \in Months
      PROVE  \E u : g[m] = SumOn(f, u) /\ \A p : p \in u <=> p \in T /\ k[p] = m
  <2>1. \A p : p \in U(m) <=> p \in T /\ k[p] = m
    <3>1. \A p : p \in U(m) <=>
             \E n \in In(m) : \E i \in DOMAIN rows[n].parts : p = <<n, i>> /\ rows[n].parts[i].category = category
      BY <1>1, PartsAreFinite
    <3>2. \A p : p \in T <=>
             \E n \in ns : \E i \in DOMAIN rows[n].parts : p = <<n, i>> /\ rows[n].parts[i].category = category
      BY PartsAreFinite
    <3>3. \A p \in T : k[p] = MonthAt(zone, rows[p[1]].at)
      BY <1>5
    <3>. HIDE DEF U, T, In
    <3>. QED  BY <1>2, <3>1, <3>2, <3>3
  <2>2. IsFiniteSet(U(m)) /\ U(m) \in SUBSET T
    <3>1. U(m) \in SUBSET T
      <4>. HIDE DEF U, T
      <4>. QED  BY <2>1
    <3>. HIDE DEF U, T
    <3>. QED  BY <1>6, <3>1, FS_Subset
  <2>3. PICK e : e = [p \in U(m) |-> rows[p[1]].parts[p[2]].base]
    OBVIOUS
  <2>4. g[m] = SumOn(e, U(m))
    <3>1. g[m] = Worth(rows, U(m))
      BY <1>4 DEF Bucket, Worth
    <3>. HIDE DEF U
    <3>. QED  BY <2>3, <3>1, WorthUnfolded
  <2>5. \A p \in U(m) : e[p] = f[p]
    <3>. HIDE DEF U, T
    <3>. QED  BY <1>3, <2>2, <2>3
  <2>6. SumOn(e, U(m)) = SumOn(f, U(m))
    <3>1. PICK L : L = U(m)
      OBVIOUS
    <3>. QED  BY <2>2, <2>5, <3>1, SumSame
  <2>. HIDE DEF U, T
  <2>. QED  BY <2>1, <2>4, <2>6
<1>8. SumOn(g, Months) = SumOn(f, T)
  <2>. HIDE DEF T
  <2>. QED  BY <1>6, <1>7, SumGroups, SMTT(60)
<1>9. SumOn(f, T) = Worth(rows, T)
  <2>. HIDE DEF T
  <2>. QED  BY <1>3, WorthUnfolded
<1>10. SumOn(g, Months) = Spent(rows, zone, category, Months)
  BY <1>4, SpentUnfolded
<1>. QED  BY <1>8, <1>9, <1>10

LEMMA SpendingFollows ==
  ASSUME db.rows \in Seq(Spendings)
  PROVE  SpendingIsInOneMonth
<1>1. ASSUME NEW zone \in Zones, NEW n \in DOMAIN db.rows
      PROVE  {m \in Months : n \in Counted(db.rows, m, zone)} = {MonthAt(zone, db.rows[n].at)}
  BY <1>1, SpendingHasItsMonth
<1>2. ASSUME NEW zone \in Zones, NEW category
      PROVE  LET ps == PartsOf(db.rows, {n \in DOMAIN db.rows : ~db.rows[n].pending}, category) IN
             MapThenSumSet(LAMBDA m : Bucket(db.rows, m, zone, category).actual, Months)
               = MapThenSumSet(LAMBDA p : db.rows[p[1]].parts[p[2]].base, ps)
  <2>1. PICK ns : ns = {n \in DOMAIN db.rows : ~db.rows[n].pending}
    OBVIOUS
  <2>2. Spent(db.rows, zone, category, Months) = Worth(db.rows, PartsOf(db.rows, ns, category))
    BY <2>1, MonthsAddUp
  <2>. QED  BY <2>1, <2>2 DEF Spent, Worth
<1>. QED  BY <1>1, <1>2 DEF SpendingIsInOneMonth

-----------------------------------------------------------------------------
(* Names.                                                                  *)

Shaped(w) ==
  w = [categories |-> w.categories, merchants |-> w.merchants, rules |-> w.rules, budgets |-> w.budgets,
       family |-> w.family, rows |-> w.rows, records |-> w.records, trail |-> w.trail]

\* Such tables, with the rows and the answers of others.
Keeping(v, w) == Shaped(v) /\ v.rows = w.rows /\ v.records = w.records

CategoriesSound(t) ==
  /\ \E S : t \in Seq(S)
  /\ \A i, j \in DOMAIN t :
       t[i].owner = "family" /\ t[j].owner = "family" /\ ~t[i].bound /\ ~t[j].bound
         /\ t[i].name = t[j].name => i = j
  /\ \A i \in DOMAIN t :
       t[i].owner = "family" /\ ~t[i].bound /\ t[i].parent # None =>
         /\ t[i].parent \in DOMAIN t
         /\ t[t[i].parent].owner = "family" /\ t[t[i].parent].type = t[i].type

MerchantsSound(t) ==
  /\ \E S : t \in Seq(S)
  /\ \A i \in DOMAIN t : t[i] = Merchant(t[i].name, t[i].kind, t[i].bound)
  /\ \A i, j \in DOMAIN t : ~t[i].bound /\ ~t[j].bound /\ t[i].name = t[j].name => i = j

IsPerson(i) == i \in DOMAIN db.merchants /\ db.merchants[i].kind = "person"

\* What was told of a person, and what a key will tell again.
Persons ==
  /\ \A r \in answers :
       r.call.end = "merchant" /\ r.call.kind = "person" /\ r.answer[2] = "done" => IsPerson(r.answer[3][1])
  /\ \A r \in db.records : r.end = "merchant" /\ r.payload[2][2] = "person" => IsPerson(r.answer[3][1])

\* A transaction has seen the names that are, unless it was told that they changed.
Seeing(d) ==
  /\ d = [pc |-> "open", call |-> d.call, again |-> d.again, snap |-> d.snap, changed |-> d.changed]
  /\ d.call \in Wanted /\ Shaped(d.snap) /\ d.snap.records \in SUBSET db.records
  /\ <<"categories">> \notin d.changed => d.snap.categories = db.categories
  /\ <<"merchants">> \notin d.changed => d.snap.merchants = db.merchants

Desk(d) ==
  \/ d = Free
  \/ d = Rescue(d.call) /\ d.call \in Wanted
  \/ Seeing(d)

Tables == Shaped(db) /\ CategoriesSound(db.categories) /\ MerchantsSound(db.merchants) /\ db.rows \in Seq(Spendings)
Desks == desk = [c \in Clerks |-> desk[c]] /\ \A c \in Clerks : Desk(desk[c])

HInv == Tables /\ Desks /\ Persons

\* One field of the tables news.
LEMMA FieldSet ==
  ASSUME NEW w, Shaped(w), NEW x
  PROVE  /\ LET v == [w EXCEPT !.categories = x] IN
            Keeping(v, w) /\ v.categories = x /\ v.merchants = w.merchants
         /\ LET v == [w EXCEPT !.merchants = x] IN
            Keeping(v, w) /\ v.categories = w.categories /\ v.merchants = x
         /\ LET v == [w EXCEPT !.budgets = x] IN
            Keeping(v, w) /\ v.categories = w.categories /\ v.merchants = w.merchants
         /\ LET v == [w EXCEPT !.rules = x] IN
            Keeping(v, w) /\ v.categories = w.categories /\ v.merchants = w.merchants
         /\ LET v == [w EXCEPT !.family = x] IN
            Keeping(v, w) /\ v.categories = w.categories /\ v.merchants = w.merchants
         /\ LET v == [w EXCEPT !.trail = x] IN
            Keeping(v, w) /\ v.categories = w.categories /\ v.merchants = w.merchants
         /\ LET v == [w EXCEPT !.rows = x] IN
            /\ Shaped(v) /\ v.records = w.records /\ v.rows = x
            /\ v.categories = w.categories /\ v.merchants = w.merchants
         /\ LET v == [w EXCEPT !.records = x] IN
            /\ Shaped(v) /\ v.records = x /\ v.rows = w.rows
            /\ v.categories = w.categories /\ v.merchants = w.merchants
BY DEF Shaped, Keeping

LEMMA AuditKeeps ==
  ASSUME NEW w, Shaped(w), NEW e
  PROVE  /\ Keeping(Audited(w, e), w)
         /\ Audited(w, e).categories = w.categories /\ Audited(w, e).merchants = w.merchants
BY FieldSet DEF Audited

MerchantsAfter(t, call) ==
  LET i == IF Named(t, call.name) = {} THEN Len(t) + 1 ELSE Min(Named(t, call.name)) IN
  IF i \notin DOMAIN t THEN Append(t, Merchant(call.name, call.kind, FALSE))
  ELSE IF t[i].kind = call.kind THEN t
  ELSE [t EXCEPT ![i].kind = call.kind]

\* What the effect of a request is of categories and merchants.
Made(e, w, call) ==
  /\ Shaped(e) /\ e.rows = w.rows /\ e.records = w.records
  /\ e.categories = IF call.end = "category"
       THEN Append(w.categories, Category(call.name, call.type, "family", FALSE, call.parent))
       ELSE w.categories
  /\ e.merchants = IF call.end = "merchant" THEN MerchantsAfter(w.merchants, call) ELSE w.merchants

LEMMA EffectFields ==
  ASSUME NEW w, Shaped(w), NEW call, call.end \in Ends, NEW base,
         NEW e, e = Effect(w, call, base)
  PROVE  Made(e, w, call)
<1>. SUFFICES
       /\ Keeping(e, w)
       /\ e.categories = IF call.end = "category"
            THEN Append(w.categories, Category(call.name, call.type, "family", FALSE, call.parent))
            ELSE w.categories
       /\ e.merchants = IF call.end = "merchant" THEN MerchantsAfter(w.merchants, call) ELSE w.merchants
  BY DEF Made, Keeping
<1>1. ASSUME NEW v, Keeping(v, w), NEW x
      PROVE  /\ Keeping(Audited(v, x), w)
             /\ Audited(v, x).categories = v.categories /\ Audited(v, x).merchants = v.merchants
  BY <1>1, AuditKeeps DEF Keeping
<1>2. CASE call.end = "category"
  <2>. DEFINE cs == Append(w.categories, Category(call.name, call.type, "family", FALSE, call.parent))
              v == [w EXCEPT !.categories = cs]
  <2>1. Keeping(v, w) /\ v.categories = cs /\ v.merchants = w.merchants
    <3>. HIDE DEF cs
    <3>. QED  BY FieldSet
  <2>2. PICK x : e = Audited(v, x)
    BY <1>2 DEF Effect, AddCategory
  <2>. HIDE DEF v
  <2>3. Keeping(e, w) /\ e.categories = cs /\ e.merchants = w.merchants
    BY <1>1, <2>1, <2>2
  <2>. QED  BY <1>2, <2>3
<1>3. CASE call.end = "merchant"
  <2>. DEFINE i == ContactOf(w, call)
              row == Merchant(call.name, call.kind, FALSE)
  <2>0. e = AddMerchant(w, call)
    BY <1>3 DEF Effect
  <2>1. CASE i \notin DOMAIN w.merchants
    <3>. DEFINE ms == Append(w.merchants, row)
                v == [w EXCEPT !.merchants = ms]
    <3>1. Keeping(v, w) /\ v.categories = w.categories /\ v.merchants = ms
      <4>. HIDE DEF ms
      <4>. QED  BY FieldSet
    <3>2. PICK x : e = Audited(v, x)
      BY <2>0, <2>1 DEF AddMerchant
    <3>3. MerchantsAfter(w.merchants, call) = ms
      BY <2>1 DEF MerchantsAfter, ContactOf
    <3>. HIDE DEF v, ms
    <3>4. Keeping(e, w) /\ e.categories = w.categories /\ e.merchants = ms
      BY <1>1, <3>1, <3>2
    <3>. QED  BY <1>3, <3>3, <3>4
  <2>2. CASE i \in DOMAIN w.merchants /\ w.merchants[i].kind = call.kind
    <3>1. e = w
      BY <2>0, <2>2 DEF AddMerchant
    <3>2. MerchantsAfter(w.merchants, call) = w.merchants
      BY <2>2 DEF MerchantsAfter, ContactOf
    <3>. QED  BY <1>3, <3>1, <3>2 DEF Keeping
  <2>3. CASE i \in DOMAIN w.merchants /\ w.merchants[i].kind # call.kind
    <3>. DEFINE ms == [w.merchants EXCEPT ![i].kind = call.kind]
                v == [w EXCEPT !.merchants = ms]
    <3>1. Keeping(v, w) /\ v.categories = w.categories /\ v.merchants = ms
      <4>. HIDE DEF ms
      <4>. QED  BY FieldSet
    <3>2. PICK x : e = Audited(v, x)
      BY <2>0, <2>3 DEF AddMerchant
    <3>3. MerchantsAfter(w.merchants, call) = ms
      BY <2>3 DEF MerchantsAfter, ContactOf
    <3>. HIDE DEF v, ms
    <3>4. Keeping(e, w) /\ e.categories = w.categories /\ e.merchants = ms
      BY <1>1, <3>1, <3>2
    <3>. QED  BY <1>3, <3>3, <3>4
  <2>. QED  BY <2>1, <2>2, <2>3
<1>4. CASE call.end \in {"budget", "archive"}
  <2>1. CASE e = w
    BY <1>4, <2>1 DEF Keeping
  <2>2. CASE e # w
    <3>1. \E b, v, x : v = [w EXCEPT !.budgets = b] /\ e = Audited(v, x)
      BY <1>4, <2>2 DEF Effect, SetLines, Archived
    <3>2. PICK b, v, x : v = [w EXCEPT !.budgets = b] /\ e = Audited(v, x)
      BY <3>1
    <3>3. Keeping(v, w) /\ v.categories = w.categories /\ v.merchants = w.merchants
      BY <3>2, FieldSet
    <3>4. Keeping(e, w) /\ e.categories = w.categories /\ e.merchants = w.merchants
      <4>1. e = Audited(v, x)
        BY <3>2
      <4>. QED  BY <1>1, <3>3, <4>1
    <3>. QED  BY <1>4, <3>4
  <2>. QED  BY <2>1, <2>2
<1>5. CASE call.end \in {"rule", "drop"}
  <2>1. \E b, v, x : v = [w EXCEPT !.rules = b] /\ e = Audited(v, x)
    BY <1>5 DEF Effect, AddRule, DropRule
  <2>2. PICK b, v, x : v = [w EXCEPT !.rules = b] /\ e = Audited(v, x)
    BY <2>1
  <2>3. Keeping(v, w) /\ v.categories = w.categories /\ v.merchants = w.merchants
    BY <2>2, FieldSet
  <2>4. Keeping(e, w) /\ e.categories = w.categories /\ e.merchants = w.merchants
    <3>1. e = Audited(v, x)
      BY <2>2
    <3>. QED  BY <1>1, <2>3, <3>1
  <2>. QED  BY <1>5, <2>4
<1>. QED  BY <1>2, <1>3, <1>4, <1>5 DEF Ends

\* A category is added that the family has no other of the name of, or one that a
\* migration binds.
LEMMA CategoryAdded ==
  ASSUME NEW t, CategoriesSound(t), NEW row,
         \/ row.bound
         \/ /\ ~\E i \in DOMAIN t : t[i].owner = "family" /\ t[i].name = row.name
            /\ \/ row.parent = None
               \/ /\ row.parent \in DOMAIN t /\ t[row.parent].owner = "family"
                  /\ t[row.parent].type = row.type,
         NEW u, u = Append(t, row)
  PROVE  CategoriesSound(u)
<1>1. PICK S : t \in Seq(S)
  BY DEF CategoriesSound
<1>2. /\ u \in Seq(S \cup {row}) /\ Len(t) \in Nat /\ DOMAIN t = 1..Len(t)
      /\ DOMAIN u = DOMAIN t \cup {Len(t) + 1} /\ Len(t) + 1 \notin DOMAIN t
      /\ u[Len(t) + 1] = row /\ \A i \in DOMAIN t : u[i] = t[i]
  BY <1>1
<1>3. ASSUME NEW i \in DOMAIN u, NEW j \in DOMAIN u, u[i].owner = "family", u[j].owner = "family",
             ~u[i].bound, ~u[j].bound, u[i].name = u[j].name
      PROVE  i = j
  BY <1>2, <1>3 DEF CategoriesSound
<1>4. ASSUME NEW i \in DOMAIN u, u[i].owner = "family", ~u[i].bound, u[i].parent # None
      PROVE  /\ u[i].parent \in DOMAIN u
             /\ u[u[i].parent].owner = "family" /\ u[u[i].parent].type = u[i].type
  BY <1>2, <1>4 DEF CategoriesSound
<1>. QED  BY <1>2, <1>3, <1>4 DEF CategoriesSound

LEMMA MerchantFields ==
  ASSUME NEW name, NEW kind, NEW bound, NEW row, row = Merchant(name, kind, bound)
  PROVE  /\ row.name = name /\ row.kind = kind /\ row.bound = bound
         /\ row = Merchant(row.name, row.kind, row.bound)
BY DEF Merchant

\* The kinds of the contacts that are persons stay.
PersonsOf(t) == {i \in DOMAIN t : t[i].kind = "person"}

OneMore(t, row, u) ==
  /\ MerchantsSound(u) /\ PersonsOf(t) \in SUBSET PersonsOf(u)
  /\ Len(t) + 1 \in DOMAIN u /\ u[Len(t) + 1] = row
  /\ \A i \in DOMAIN u : i = Len(t) + 1 \/ (i \in DOMAIN t /\ u[i] = t[i])

LEMMA MerchantAdded ==
  ASSUME NEW t, MerchantsSound(t), NEW row, row = Merchant(row.name, row.kind, row.bound),
         row.bound \/ Named(t, row.name) = {}, NEW u, u = Append(t, row)
  PROVE  OneMore(t, row, u)
<1>1. PICK S : t \in Seq(S)
  BY DEF MerchantsSound
<1>2. /\ u \in Seq(S \cup {row}) /\ Len(t) \in Nat /\ DOMAIN t = 1..Len(t)
      /\ DOMAIN u = DOMAIN t \cup {Len(t) + 1} /\ Len(t) + 1 \notin DOMAIN t
      /\ u[Len(t) + 1] = row /\ \A i \in DOMAIN t : u[i] = t[i]
  BY <1>1
<1>3. ASSUME NEW i \in DOMAIN u, NEW j \in DOMAIN u, ~u[i].bound, ~u[j].bound, u[i].name = u[j].name
      PROVE  i = j
  BY <1>2, <1>3 DEF MerchantsSound, Named
<1>4. \A i \in DOMAIN u : u[i] = Merchant(u[i].name, u[i].kind, u[i].bound)
  BY <1>2 DEF MerchantsSound
<1>5. MerchantsSound(u)
  BY <1>2, <1>3, <1>4 DEF MerchantsSound
<1>6. PersonsOf(t) \in SUBSET PersonsOf(u)
  BY <1>2 DEF PersonsOf
<1>. QED  BY <1>2, <1>5, <1>6 DEF OneMore

\* What a request for a contact makes of the table: the first row of the name is
\* then of the kind wanted, and nobody ceases to be a person.
LEMMA ContactMade ==
  ASSUME NEW t, MerchantsSound(t), NEW call,
         Named(t, call.name) # {} => call.kind = "person",
         NEW u, u = MerchantsAfter(t, call)
  PROVE  /\ MerchantsSound(u) /\ PersonsOf(t) \in SUBSET PersonsOf(u)
         /\ Min(Named(u, call.name)) \in DOMAIN u
         /\ u[Min(Named(u, call.name))].kind = call.kind
<1>1. PICK S : t \in Seq(S)
  BY DEF MerchantsSound
<1>2. DOMAIN t = 1..Len(t) /\ Len(t) \in Nat
  BY <1>1
<1>3. ASSUME NEW N \in SUBSET Nat, N # {} PROVE Min(N) \in N
  <2>1. PICK n \in N : \A m \in N : n <= m
    BY <1>3, LeastNumber
  <2>. QED  BY <2>1 DEF Min
<1>4. CASE Named(t, call.name) = {}
  <2>0. Len(t) + 1 \notin DOMAIN t
    BY <1>2
  <2>1. u = Append(t, Merchant(call.name, call.kind, FALSE))
    <3>. QED  BY <1>4, <2>0, Zenon DEF MerchantsAfter
  <2>2. /\ MerchantsSound(u) /\ PersonsOf(t) \in SUBSET PersonsOf(u)
        /\ Len(t) + 1 \in DOMAIN u /\ u[Len(t) + 1].kind = call.kind /\ u[Len(t) + 1].name = call.name
        /\ \A i \in DOMAIN u : i = Len(t) + 1 \/ (i \in DOMAIN t /\ u[i] = t[i])
    <3>1. PICK row : row = Merchant(call.name, call.kind, FALSE)
      OBVIOUS
    <3>2. /\ row.name = call.name /\ row.kind = call.kind
          /\ row = Merchant(row.name, row.kind, row.bound)
      BY <3>1 DEF Merchant
    <3>3. u = Append(t, row)
      BY <2>1, <3>1
    <3>4. row.bound \/ Named(t, row.name) = {}
      BY <1>4, <3>2
    <3>5. row = Merchant(row.name, row.kind, row.bound)
      BY <3>2
    <3>6. OneMore(t, row, u)
      BY <3>3, <3>4, <3>5, MerchantAdded, Zenon
    <3>. QED  BY <3>2, <3>6 DEF OneMore
  <2>3. Named(u, call.name) = {Len(t) + 1}
    BY <1>4, <2>2 DEF Named
  <2>4. Min(Named(u, call.name)) = Len(t) + 1
    BY <1>2, <1>3, <2>3
  <2>. QED  BY <2>2, <2>4
<1>5. CASE Named(t, call.name) # {}
  <2>1. PICK i : i = Min(Named(t, call.name))
    OBVIOUS
  <2>2. i \in Named(t, call.name) /\ i \in DOMAIN t
    <3>1. Named(t, call.name) \in SUBSET Nat
      BY <1>2 DEF Named
    <3>. QED  BY <1>3, <1>5, <2>1, <3>1 DEF Named
  <2>3. call.kind = "person"
    BY <1>5
  <2>4. CASE t[i].kind = call.kind
    <3>1. u = t
      BY <1>5, <2>1, <2>2, <2>4 DEF MerchantsAfter
    <3>. QED  BY <2>1, <2>2, <2>4, <3>1
  <2>5. CASE t[i].kind # call.kind
    <3>1. u = [t EXCEPT ![i].kind = call.kind]
      BY <1>5, <2>1, <2>2, <2>5 DEF MerchantsAfter
    <3>0. PICK name, kind, bound : name = t[i].name /\ kind = call.kind /\ bound = t[i].bound
      OBVIOUS
    <3>2. PICK r : r = Merchant(name, kind, bound)
      OBVIOUS
    <3>3. r = [t[i] EXCEPT !.kind = call.kind]
      <4>1. t[i] = Merchant(name, t[i].kind, bound)
        BY <2>2, <3>0 DEF MerchantsSound
      <4>2. [t[i] EXCEPT !.kind = kind] = Merchant(name, kind, bound)
        BY <4>1 DEF Merchant
      <4>. QED  BY <3>0, <3>2, <4>2
    <3>4. u = [t EXCEPT ![i] = r]
      BY <3>1, <3>3
    <3>5. /\ r.name = t[i].name /\ r.kind = call.kind /\ r.bound = t[i].bound
          /\ r = Merchant(r.name, r.kind, r.bound)
      <4>1. r.name = name /\ r.kind = kind /\ r.bound = bound /\ r = Merchant(r.name, r.kind, r.bound)
        BY <3>2, MerchantFields
      <4>. QED  BY <3>0, <4>1
    <3>6. /\ u \in Seq(S \cup {r}) /\ DOMAIN u = DOMAIN t /\ u[i] = r
          /\ \A j \in DOMAIN t : j # i => u[j] = t[j]
      BY <1>1, <2>2, <3>4
    <3>7. \A j \in DOMAIN u : u[j].name = t[j].name /\ u[j].bound = t[j].bound
      BY <3>5, <3>6
    <3>8. MerchantsSound(u)
      BY <3>5, <3>6, <3>7 DEF MerchantsSound
    <3>9. Named(u, call.name) = Named(t, call.name)
      BY <3>6, <3>7 DEF Named
    <3>10. PersonsOf(t) \in SUBSET PersonsOf(u)
      BY <2>3, <3>5, <3>6 DEF PersonsOf
    <3>. QED  BY <2>1, <2>2, <3>5, <3>6, <3>8, <3>9, <3>10
  <2>. QED  BY <2>4, <2>5
<1>. QED  BY <1>4, <1>5

-----------------------------------------------------------------------------
(* What a step leaves of what the others know.                             *)

Heard(d, news) == IF d.pc = "open" THEN [d EXCEPT !.changed = @ \cup news] ELSE d

\* A step makes of the tables only what it tells of.
Follows(news) ==
  /\ db.records \in SUBSET db'.records
  /\ <<"categories">> \notin news => db'.categories = db.categories
  /\ <<"merchants">> \notin news => db'.merchants = db.merchants

LEMMA DeskHears ==
  ASSUME NEW d, Desk(d), NEW news, Follows(news)
  PROVE  Desk(Heard(d, news))'
<1>1. CASE d = Free
  BY <1>1 DEF Heard, Desk, Free
<1>2. CASE d = Rescue(d.call) /\ d.call \in Wanted
  <2>1. d.pc = "rescue"
    BY <1>2 DEF Rescue
  <2>. QED  BY <1>2, <2>1 DEF Heard, Desk
<1>3. CASE Seeing(d)
  <2>1. d.pc = "open"
    BY <1>3 DEF Seeing
  <2>2. PICK ch : ch = d.changed \cup news
    OBVIOUS
  <2>3. PICK e : e = Heard(d, news)
    OBVIOUS
  <2>4. PICK call, again, snap : call = d.call /\ again = d.again /\ snap = d.snap
    OBVIOUS
  <2>5. e = [pc |-> "open", call |-> call, again |-> again, snap |-> snap, changed |-> ch]
    BY <1>3, <2>1, <2>2, <2>3, <2>4 DEF Heard, Seeing
  <2>6. /\ e = [pc |-> "open", call |-> e.call, again |-> e.again, snap |-> e.snap, changed |-> e.changed]
        /\ e.call = d.call /\ e.snap = d.snap /\ e.changed = d.changed \cup news
    BY <2>2, <2>4, <2>5
  <2>7. Seeing(e)'
    BY <1>3, <2>6 DEF Seeing, Follows
  <2>. QED  BY <2>3, <2>7 DEF Desk
<1>. QED  BY <1>1, <1>2, <1>3 DEF Desk

LEMMA DeskStays ==
  ASSUME NEW d, Desk(d), Follows({})
  PROVE  Desk(d)'
<1>1. CASE Seeing(d)
  BY <1>1 DEF Seeing, Follows, Desk
<1>. QED  BY <1>1 DEF Desk

\* Only one clerk's desk news but for what the others hear.
LEMMA DesksFollow ==
  ASSUME Desks, NEW c \in Clerks, NEW d, Desk(d)',
         \/ Follows({}) /\ desk' = [desk EXCEPT ![c] = d]
         \/ \E news : /\ Follows(news) /\ d = Free
                          /\ desk' = Informed([desk EXCEPT ![c] = Free], news)
  PROVE  Desks'
<1>1. CASE Follows({}) /\ desk' = [desk EXCEPT ![c] = d]
  BY <1>1, DeskStays DEF Desks
<1>2. ASSUME NEW news, Follows(news), d = Free,
             desk' = Informed([desk EXCEPT ![c] = Free], news)
      PROVE  Desks'
  <2>1. desk' = [b \in Clerks |-> Heard([desk EXCEPT ![c] = Free][b], news)]
    BY <1>2 DEF Informed, Heard
  <2>2. ASSUME NEW b \in Clerks PROVE Desk(desk[b])'
    <3>1. CASE b = c
      <4>1. desk'[b] = Free
        BY <2>1, <3>1 DEF Heard, Free, Desks
      <4>. QED  BY <4>1 DEF Desk
    <3>2. CASE b # c
      <4>1. desk'[b] = Heard(desk[b], news)
        BY <2>1, <3>2 DEF Desks
      <4>2. PICK e : e = desk[b]
        OBVIOUS
      <4>3. Desk(Heard(e, news))'
        BY <1>2, <4>2, DeskHears DEF Desks
      <4>. QED  BY <4>1, <4>2, <4>3
    <3>. QED  BY <3>1, <3>2
  <2>. QED  BY <2>1, <2>2 DEF Desks
<1>. QED  BY <1>1, <1>2

\* The others hear of what another writer does.
LEMMA DesksHear ==
  ASSUME Desks, NEW news, Follows(news), desk' = Informed(desk, news)
  PROVE  Desks'
<1>1. desk' = [b \in Clerks |-> Heard(desk[b], news)]
  BY DEF Informed, Heard
<1>2. ASSUME NEW b \in Clerks PROVE Desk(desk[b])'
  <2>1. PICK e : e = desk[b]
    OBVIOUS
  <2>2. Desk(Heard(e, news))'
    BY <2>1, DeskHears DEF Desks
  <2>. QED  BY <1>1, <2>1, <2>2
<1>. QED  BY <1>1, <1>2 DEF Desks

LEMMA PersonsFollow ==
  ASSUME Persons, PersonsOf(db.merchants) \in SUBSET PersonsOf(db'.merchants),
         \A r \in answers' : r \in answers \/
           (r.call.end = "merchant" /\ r.call.kind = "person" /\ r.answer[2] = "done" => IsPerson(r.answer[3][1])'),
         \A r \in db'.records : r \in db.records \/
           (r.end = "merchant" /\ r.payload[2][2] = "person" => IsPerson(r.answer[3][1])')
  PROVE  Persons'
<1>1. \A i : IsPerson(i) => IsPerson(i)'
  BY DEF IsPerson, PersonsOf
<1>. QED  BY <1>1 DEF Persons

\* What a key tells again of a person is true.
LEMMA RecalledIsTrue ==
  ASSUME Persons, NEW w, w.records \in SUBSET db.records, NEW call, Known(w, call),
         call.end = "merchant", call.kind = "person", Recalled(w, call)[2] = "done"
  PROVE  IsPerson(Recalled(w, call)[3][1])
<1>1. PICK r : r = CHOOSE s \in RecordsOf(w, call) : TRUE
  OBVIOUS
<1>2. r \in RecordsOf(w, call)
  BY <1>1 DEF Known
<1>3. r.payload = Payload(call)
  BY <1>1 DEF Recalled, Refusal
<1>4. r.payload[2][2] = "person"
  BY <1>3 DEF Payload
<1>5. r \in db.records /\ r.end = "merchant" /\ Recalled(w, call) = r.answer
  BY <1>1, <1>2, <1>3 DEF RecordsOf, Recalled
<1>. QED  BY <1>4, <1>5 DEF Persons

-----------------------------------------------------------------------------
(* The steps.                                                              *)

LEMMA HInitHInv == HouseholdInit => HInv
<1>. SUFFICES ASSUME HouseholdInit PROVE HInv
  OBVIOUS
<1>. DEFINE cs == [i \in DOMAIN SystemCategories |->
               Category(SystemCategories[i].name, SystemCategories[i].type, "system", FALSE, None)]
<1>1. /\ Shaped(db) /\ db.categories = cs /\ db.merchants = <<>> /\ db.rows = <<>> /\ db.records = {}
  <2>1. PICK zone \in Zones, b \in Bases :
         db = [categories |-> cs,
               merchants |-> <<>>, rules |-> <<>>, budgets |-> [m \in Months |-> NoBudget],
               family |-> [zone |-> zone, currency |-> b], rows |-> <<>>, records |-> {}, trail |-> <<>>]
    BY DEF HouseholdInit
  <2>. HIDE DEF cs
  <2>. QED  BY <2>1 DEF Shaped
<1>2. CategoriesSound(cs)
  <2>1. Len(SystemCategories) \in Nat /\ DOMAIN SystemCategories = 1..Len(SystemCategories)
    BY HouseholdAssumption
  <2>. DEFINE S == {cs[i] : i \in 1..Len(SystemCategories)}
  <2>2. cs \in [1..Len(SystemCategories) -> S]
    BY <2>1
  <2>3. cs \in Seq(S)
    <3>. HIDE DEF cs, S
    <3>. QED  BY <2>1, <2>2, SeqDef
  <2>4. DOMAIN cs = DOMAIN SystemCategories /\ \A i \in DOMAIN cs : cs[i].owner = "system"
    BY DEF Category
  <2>5. \E X : cs \in Seq(X)
    <3>. HIDE DEF cs, S
    <3>. QED  BY <2>3
  <2>. HIDE DEF cs, S
  <2>. QED  BY <2>4, <2>5 DEF CategoriesSound
<1>3. MerchantsSound(<<>>)
  <2>1. <<>> \in Seq({})
    OBVIOUS
  <2>. QED  BY <2>1 DEF MerchantsSound
<1>4. Desks
  BY DEF HouseholdInit, Desks, Desk
<1>5. Persons
  BY <1>1 DEF HouseholdInit, Persons
<1>. HIDE DEF cs
<1>. QED  BY <1>1, <1>2, <1>3, <1>4, <1>5 DEF HInv, Tables

\* Nothing but the desks news.
LEMMA TablesStay ==
  ASSUME HInv, UNCHANGED <<db, answers>>
  PROVE  Tables' /\ Persons' /\ Follows({})
BY DEF HInv, Tables, Persons, IsPerson, Follows

LEMMA DeskOnly ==
  ASSUME HInv, UNCHANGED <<db, answers>>, NEW c \in Clerks, NEW d, Desk(d), desk' = [desk EXCEPT ![c] = d]
  PROVE  HInv'
<1>1. Tables' /\ Persons' /\ Follows({})
  BY TablesStay
<1>2. Desk(d)'
  BY <1>1, DeskStays
<1>. QED  BY <1>1, <1>2, DesksFollow DEF HInv

\* A transaction that begins sees the present.
LEMMA BegunSees ==
  ASSUME HInv, NEW call \in Wanted, NEW again
  PROVE  Desk(Begun(call, again))
<1>1. PICK d : d = Begun(call, again)
  OBVIOUS
<1>2. /\ d = [pc |-> "open", call |-> d.call, again |-> d.again, snap |-> d.snap, changed |-> d.changed]
      /\ d.call = call /\ d.snap = db
  BY <1>1 DEF Begun
<1>. QED  BY <1>1, <1>2 DEF Desk, Seeing, HInv, Tables

LEMMA TellKeeps ==
  ASSUME HInv, NEW c \in Clerks, NEW call \in Wanted, NEW answer, Tell(c, call, answer),
         call.end = "merchant" /\ call.kind = "person" /\ answer[2] = "done" => IsPerson(answer[3][1])
  PROVE  HInv'
<1>1. Tables' /\ Follows({})
  BY DEF Tell, HInv, Tables, Follows
<1>2. Desks'
  <2>1. Desk(Free)'
    BY DEF Desk
  <2>. QED  BY <1>1, <2>1, DesksFollow DEF Tell, HInv
<1>3. Persons'
  <2>1. PICK r : r = [call |-> call, answer |-> answer]
    OBVIOUS
  <2>2. r.call = call /\ r.answer = answer
    BY <2>1
  <2>3. IsPerson(answer[3][1]) => IsPerson(answer[3][1])'
    BY DEF Tell, IsPerson
  <2>4. answers' = answers \cup {r} /\ db' = db
    BY <2>1 DEF Tell
  <2>. QED  BY <2>2, <2>3, <2>4, PersonsFollow DEF HInv
<1>. QED  BY <1>1, <1>2, <1>3 DEF HInv

LEMMA RefusalIsNone ==
  ASSUME NEW call, NEW why, why # "done"
  PROVE  Refusal(call, why)[2] # "done"
BY DEF Refusal

LEMMA TakeUpHInv ==
  ASSUME HInv, NEW c \in Clerks, NEW call \in Wanted, TakeUp(c, call)
  PROVE  HInv'
BY BegunSees, DeskOnly DEF TakeUp

\* A clerk's request.
LEMMA DeskCases ==
  ASSUME HInv, NEW c \in Clerks
  PROVE  /\ desk[c].pc = "open" => Seeing(desk[c])
         /\ desk[c].pc = "rescue" => desk[c].call \in Wanted
<1>1. PICK d : d = desk[c]
  OBVIOUS
<1>2. Desk(d)
  BY <1>1 DEF HInv, Desks
<1>3. d = Free => d.pc = "idle"
  BY DEF Free
<1>4. d = Rescue(d.call) => d.pc = "rescue"
  BY DEF Rescue
<1>5. Seeing(d) => d.pc = "open"
  BY DEF Seeing
<1>. QED  BY <1>1, <1>2, <1>3, <1>4, <1>5 DEF Desk

LEMMA DeclineHInv ==
  ASSUME HInv, NEW c \in Clerks, Decline(c)
  PROVE  HInv'
<1>1. PICK t : t = desk[c]
  OBVIOUS
<1>2. Seeing(t) /\ t.call \in Wanted /\ t.snap.records \in SUBSET db.records
  BY <1>1, DeskCases DEF Decline, Seeing
<1>3. CASE Known(t.snap, t.call) /\ Tell(c, t.call, Recalled(t.snap, t.call))
  <2>1. PICK w, call : w = t.snap /\ call = t.call
    OBVIOUS
  <2>2. call.end = "merchant" /\ call.kind = "person" /\ Recalled(w, call)[2] = "done"
          => IsPerson(Recalled(w, call)[3][1])
    BY <1>2, <1>3, <2>1, RecalledIsTrue DEF HInv
  <2>. QED  BY <1>2, <1>3, <2>1, <2>2, TellKeeps
<1>4. CASE /\ ~Known(t.snap, t.call) /\ Verdict(t.snap, t.call) # "fine"
           /\ Tell(c, t.call, Refusal(t.call, Verdict(t.snap, t.call)))
  <2>1. PICK why : why = Verdict(t.snap, t.call)
    OBVIOUS
  <2>2. t.call.end = "merchant" => why # "done"
    BY <2>1 DEF Verdict, MerchantVerdict
  <2>3. t.call.end = "merchant" => Refusal(t.call, why)[2] # "done"
    BY <2>2, RefusalIsNone
  <2>. QED  BY <1>2, <1>4, <2>1, <2>3, TellKeeps
<1>. QED  BY <1>1, <1>3, <1>4 DEF Decline

LEMMA RetryHInv ==
  ASSUME HInv, NEW c \in Clerks, Retry(c)
  PROVE  HInv'
<1>1. desk[c].call \in Wanted
  BY DeskCases DEF Retry, Conflicted, Seeing
<1>2. Desk(Begun(desk[c].call, desk[c].again))
  BY <1>1, BegunSees
<1>. QED  BY <1>2, DeskOnly DEF Retry

LEMMA NameRefusedHInv ==
  ASSUME HInv, NEW c \in Clerks, NameRefused(c)
  PROVE  HInv'
<1>1. PICK t : t = desk[c]
  OBVIOUS
<1>2. t.call \in Wanted
  BY <1>1, DeskCases DEF NameRefused, Conflicted, Seeing
<1>3. CASE \E why \in {"error", "duplicate"} : Tell(c, t.call, Refusal(t.call, why))
  <2>1. PICK why \in {"error", "duplicate"} : Tell(c, t.call, Refusal(t.call, why))
    BY <1>3
  <2>2. Refusal(t.call, why)[2] # "done"
    BY RefusalIsNone
  <2>. QED  BY <1>2, <2>1, <2>2, TellKeeps
<1>4. CASE desk' = [desk EXCEPT ![c] = Begun(t.call, TRUE)] /\ UNCHANGED <<db, answers, inputs>>
  <2>1. Desk(Begun(t.call, TRUE))
    BY <1>2, BegunSees
  <2>. QED  BY <1>4, <2>1, DeskOnly
<1>. QED  BY <1>1, <1>3, <1>4 DEF NameRefused

LEMMA RescueIsDesk ==
  ASSUME NEW call \in Wanted
  PROVE  Desk(Rescue(call))
<1>1. Rescue(call).call = call
  BY DEF Rescue
<1>. QED  BY <1>1 DEF Desk

LEMMA KeyRefusedHInv ==
  ASSUME HInv, NEW c \in Clerks, KeyRefused(c)
  PROVE  HInv'
<1>1. PICK t : t = desk[c]
  OBVIOUS
<1>2. t.call \in Wanted
  BY <1>1, DeskCases DEF KeyRefused, Conflicted, Seeing
<1>3. CASE Tell(c, t.call, Refusal(t.call, "error"))
  <2>1. Refusal(t.call, "error")[2] # "done"
    BY RefusalIsNone
  <2>. QED  BY <1>2, <1>3, <2>1, TellKeeps
<1>4. CASE desk' = [desk EXCEPT ![c] = Rescue(t.call)] /\ UNCHANGED <<db, answers, inputs>>
  BY <1>2, <1>4, RescueIsDesk, DeskOnly
<1>. QED  BY <1>1, <1>3, <1>4 DEF KeyRefused

LEMMA ResolveHInv ==
  ASSUME HInv, NEW c \in Clerks, Resolve(c)
  PROVE  HInv'
<1>1. PICK call : call = desk[c].call
  OBVIOUS
<1>2. call \in Wanted
  BY <1>1, DeskCases DEF Resolve
<1>3. CASE Known(db, call)
  <2>1. call.end = "merchant" /\ call.kind = "person" /\ Recalled(db, call)[2] = "done"
          => IsPerson(Recalled(db, call)[3][1])
    BY <1>3, RecalledIsTrue DEF HInv
  <2>2. Tell(c, call, Recalled(db, call))
    BY <1>1, <1>3 DEF Resolve
  <2>. QED  BY <1>2, <2>1, <2>2, TellKeeps
<1>4. CASE ~Known(db, call)
  <2>1. Refusal(call, "error")[2] # "done"
    BY RefusalIsNone
  <2>2. Tell(c, call, Refusal(call, "error"))
    BY <1>1, <1>4 DEF Resolve
  <2>. QED  BY <1>2, <2>1, <2>2, TellKeeps
<1>. QED  BY <1>3, <1>4

LEMMA GiveUpHInv ==
  ASSUME HInv, NEW c \in Clerks, GiveUp(c)
  PROVE  HInv'
<1>1. Desk(Free)
  BY DEF Desk
<1>. QED  BY <1>1, DeskOnly DEF GiveUp

Entry(call, answer) == [end |-> call.end, key |-> call.key, payload |-> Payload(call), answer |-> answer]

\* Nothing but an entry comes to the tables.
Recording(w, v, entry) ==
  /\ Shaped(v) /\ v.rows = w.rows /\ v.categories = w.categories /\ v.merchants = w.merchants
  /\ w.records \in SUBSET v.records /\ \A r \in v.records : r \in w.records \/ r = entry

LEMMA RecordedFields ==
  ASSUME NEW w, Shaped(w), NEW call, NEW answer, NEW v, v = Recorded(w, call, answer)
  PROVE  Recording(w, v, Entry(call, answer))
<1>1. CASE ~Keyed(call)
  <2>1. v = w
    BY <1>1 DEF Recorded
  <2>. QED  BY <2>1 DEF Recording
<1>2. CASE Keyed(call)
  <2>1. PICK rs : rs = w.records \cup {Entry(call, answer)}
    OBVIOUS
  <2>2. v = [w EXCEPT !.records = rs]
    BY <1>2, <2>1 DEF Recorded, Entry
  <2>3. /\ Shaped(v) /\ v.rows = w.rows /\ v.categories = w.categories /\ v.merchants = w.merchants
        /\ v.records = rs
    <3>1. PICK u : u = [w EXCEPT !.records = rs]
      OBVIOUS
    <3>2. /\ Shaped(u) /\ u.rows = w.rows /\ u.categories = w.categories /\ u.merchants = w.merchants
          /\ u.records = rs
      BY <3>1, FieldSet
    <3>3. u = v
      BY <2>2, <3>1
    <3>. QED  BY <3>2, <3>3
  <2>. QED  BY <2>1, <2>3 DEF Recording
<1>. QED  BY <1>1, <1>2

LEMMA FootprintFacts ==
  ASSUME NEW call, call.end \in Ends
  PROVE  /\ call.end = "category" => <<"categories">> \in Footprint(call)
         /\ call.end = "merchant" => <<"merchants">> \in Footprint(call)
BY DEF Footprint, Ends

\* The answer about a contact is what the request makes of the table.
LEMMA ReplyIsTrue ==
  ASSUME NEW w, NEW call, call.end = "merchant", MerchantsSound(w.merchants),
         NEW v, v.merchants = MerchantsAfter(w.merchants, call), NEW e, e.merchants = v.merchants,
         Named(w.merchants, call.name) # {} => call.kind = "person"
  PROVE  /\ MerchantsSound(v.merchants) /\ PersonsOf(w.merchants) \in SUBSET PersonsOf(v.merchants)
         /\ call.kind = "person" => Reply(e, call)[3][1] \in PersonsOf(v.merchants)
<1>1. PICK t, u : t = w.merchants /\ u = v.merchants
  OBVIOUS
<1>2. /\ MerchantsSound(u) /\ PersonsOf(t) \in SUBSET PersonsOf(u)
      /\ Min(Named(u, call.name)) \in DOMAIN u
      /\ u[Min(Named(u, call.name))].kind = call.kind
  BY <1>1, ContactMade
<1>3. Reply(e, call)[3][1] = Min(Named(u, call.name))
  BY <1>1 DEF Reply
<1>. QED  BY <1>1, <1>2, <1>3 DEF PersonsOf

LEMMA CommitHInv ==
  ASSUME HInv, NEW c \in Clerks, Commit(c)
  PROVE  HInv'
<1>1. PICK t : t = desk[c]
  OBVIOUS
<1>2. PICK call, snap : call = t.call /\ snap = t.snap
  OBVIOUS
<1>0. PICK base : base = snap.family.currency
  OBVIOUS
<1>3. PICK w, e : w = Effect(db, call, base) /\ e = Effect(snap, call, base)
  OBVIOUS
<1>4. PICK answer : answer = Reply(e, call)
  OBVIOUS
<1>5. /\ Fresh(t) /\ t.changed \cap Footprint(call) = {}
      /\ db' = Recorded(w, call, answer)
      /\ desk' = Informed([desk EXCEPT ![c] = Free], Footprint(call))
      /\ answers' = answers \cup {[call |-> call, answer |-> answer]}
  BY <1>0, <1>1, <1>2, <1>3, <1>4 DEF Commit
<1>6. Seeing(t) /\ call \in Wanted /\ Shaped(snap) /\ call.end \in Ends
  BY <1>1, <1>2, DeskCases, HouseholdAssumption DEF Commit, Seeing
<1>7. /\ Shaped(db) /\ CategoriesSound(db.categories) /\ MerchantsSound(db.merchants)
      /\ db.rows \in Seq(Spendings)
  BY DEF HInv, Tables
<1>8. /\ Shaped(w) /\ w.rows = db.rows /\ w.records = db.records
      /\ w.categories = IF call.end = "category"
           THEN Append(db.categories, Category(call.name, call.type, "family", FALSE, call.parent))
           ELSE db.categories
      /\ w.merchants = IF call.end = "merchant" THEN MerchantsAfter(db.merchants, call) ELSE db.merchants
  <2>1. Made(Effect(db, call, base), db, call)
    BY <1>6, <1>7, EffectFields
  <2>. QED  BY <1>3, <2>1 DEF Made
<1>9. e.merchants = IF call.end = "merchant" THEN MerchantsAfter(snap.merchants, call) ELSE snap.merchants
  <2>1. Made(Effect(snap, call, base), snap, call)
    BY <1>6, EffectFields
  <2>. QED  BY <1>3, <2>1 DEF Made
<1>10. PICK v : v = db'
  OBVIOUS
<1>11. /\ Shaped(v) /\ v.rows = w.rows /\ v.categories = w.categories /\ v.merchants = w.merchants
       /\ w.records \in SUBSET v.records
       /\ \A r \in v.records : r \in w.records \/ r = Entry(call, answer)
  <2>1. v = Recorded(w, call, answer)
    BY <1>5, <1>10
  <2>2. Shaped(w)
    BY <1>8
  <2>3. Recording(w, v, Entry(call, answer))
    BY <2>1, <2>2, RecordedFields, Zenon
  <2>. QED  BY <2>3 DEF Recording
<1>12. /\ call.end = "category" => snap.categories = db.categories
       /\ call.end = "merchant" => snap.merchants = db.merchants
  BY <1>2, <1>5, <1>6, FootprintFacts DEF Seeing
<1>13. Verdict(snap, call) = "fine"
  BY <1>2, <1>5 DEF Fresh
<1>14. CategoriesSound(v.categories)
  <2>1. CASE call.end # "category"
    BY <1>7, <1>8, <1>11, <2>1
  <2>2. CASE call.end = "category"
    <3>1. CategoryVerdict(snap, call) = "fine"
      BY <1>13, <2>2 DEF Verdict
    <3>2. PICK table : table = db.categories
      OBVIOUS
    <3>3. PICK row : row = Category(call.name, call.type, "family", FALSE, call.parent)
      OBVIOUS
    <3>4. row.name = call.name /\ row.type = call.type /\ row.parent = call.parent
      BY <3>3 DEF Category
    <3>5. /\ ~\E i \in DOMAIN table : table[i].owner = "family" /\ table[i].name = row.name
          /\ \/ row.parent = None
             \/ /\ row.parent \in DOMAIN table /\ table[row.parent].owner = "family"
                /\ table[row.parent].type = row.type
      BY <1>12, <2>2, <3>1, <3>2, <3>4 DEF CategoryVerdict, OwnCategories, Named
    <3>6. v.categories = Append(table, row)
      BY <1>8, <1>11, <2>2, <3>2, <3>3
    <3>. QED  BY <1>7, <3>2, <3>5, <3>6, CategoryAdded
  <2>. QED  BY <2>1, <2>2
<1>15. /\ MerchantsSound(v.merchants) /\ PersonsOf(db.merchants) \in SUBSET PersonsOf(v.merchants)
       /\ call.end = "merchant" /\ call.kind = "person" => answer[3][1] \in PersonsOf(v.merchants)
  <2>1. CASE call.end # "merchant"
    BY <1>7, <1>8, <1>11, <2>1
  <2>2. CASE call.end = "merchant"
    <3>1. MerchantVerdict(snap, call) = "fine"
      BY <1>13, <2>2 DEF Verdict
    <3>2. Named(snap.merchants, call.name) # {} => call.reuse
      BY <3>1 DEF MerchantVerdict
    <3>3. Named(db.merchants, call.name) # {} => call.kind = "person"
      BY <1>6, <1>12, <2>2, <3>2, HouseholdAssumption
    <3>4. v.merchants = MerchantsAfter(db.merchants, call) /\ e.merchants = v.merchants
      BY <1>8, <1>9, <1>11, <1>12, <2>2
    <3>. QED  BY <1>4, <1>7, <2>2, <3>3, <3>4, ReplyIsTrue
  <2>. QED  BY <2>1, <2>2
<1>16. Tables'
  BY <1>7, <1>8, <1>10, <1>11, <1>14, <1>15 DEF Tables
<1>17. Desks'
  <2>1. Follows(Footprint(call))
    BY <1>6, <1>8, <1>10, <1>11, FootprintFacts DEF Follows
  <2>2. Desk(Free)'
    BY DEF Desk
  <2>. QED  BY <1>5, <2>1, <2>2, DesksFollow DEF HInv
<1>18. Persons'
  <2>1. call.end = "merchant" /\ call.kind = "person" => IsPerson(answer[3][1])'
    BY <1>10, <1>15 DEF IsPerson, PersonsOf
  <2>2. \A r \in answers' : r \in answers \/
          (r.call.end = "merchant" /\ r.call.kind = "person" /\ r.answer[2] = "done" => IsPerson(r.answer[3][1])')
    <3>1. PICK r : r = [call |-> call, answer |-> answer]
      OBVIOUS
    <3>2. r.call = call /\ r.answer = answer /\ answers' = answers \cup {r}
      BY <1>5, <3>1
    <3>. QED  BY <2>1, <3>2
  <2>3. \A r \in db'.records : r \in db.records \/
          (r.end = "merchant" /\ r.payload[2][2] = "person" => IsPerson(r.answer[3][1])')
    <3>1. PICK payload : payload = Payload(call)
      OBVIOUS
    <3>2. call.end = "merchant" => payload[2][2] = call.kind
      BY <3>1 DEF Payload
    <3>3. PICK r : r = [end |-> call.end, key |-> call.key, payload |-> payload, answer |-> answer]
      OBVIOUS
    <3>4. r.end = call.end /\ r.payload = payload /\ r.answer = answer
      BY <3>3
    <3>5. r.end = "merchant" /\ r.payload[2][2] = "person" => IsPerson(r.answer[3][1])'
      BY <2>1, <3>2, <3>4
    <3>6. \A s \in db'.records : s \in db.records \/ s = r
      BY <1>8, <1>10, <1>11, <3>1, <3>3 DEF Entry
    <3>. QED  BY <3>5, <3>6
  <2>4. PersonsOf(db.merchants) \in SUBSET PersonsOf(db'.merchants)
    BY <1>10, <1>15
  <2>. QED  BY <2>2, <2>3, <2>4, PersonsFollow DEF HInv
<1>. QED  BY <1>16, <1>17, <1>18 DEF HInv

\* Rows and preferences are no names.
LEMMA OthersHInv ==
  ASSUME HInv, UNCHANGED <<desk, answers>>, Shaped(db'), db'.rows \in Seq(Spendings),
         db'.records = db.records, db'.categories = db.categories, db'.merchants = db.merchants
  PROVE  HInv'
<1>1. Tables'
  BY DEF HInv, Tables
<1>2. Follows({}) /\ PersonsOf(db.merchants) \in SUBSET PersonsOf(db'.merchants)
  BY DEF Follows
<1>3. Desks'
  BY <1>2, DeskStays DEF HInv, Desks
<1>4. Persons'
  BY <1>2, PersonsFollow DEF HInv
<1>. QED  BY <1>1, <1>3, <1>4 DEF HInv

LEMMA SpendHInv ==
  ASSUME HInv, NEW row \in Spendings, Spend(row)
  PROVE  HInv'
<1>1. PICK w, v, x : w = db /\ v = db' /\ x = Append(db.rows, row)
  OBVIOUS
<1>2. x \in Seq(Spendings) /\ Shaped(w)
  BY <1>1 DEF HInv, Tables
<1>3. PICK u : u = [w EXCEPT !.rows = x]
  OBVIOUS
<1>4. /\ Shaped(u) /\ u.records = w.records /\ u.rows = x
      /\ u.categories = w.categories /\ u.merchants = w.merchants
  BY <1>2, <1>3 DEF Shaped
<1>5. v = u
  BY <1>1, <1>3 DEF Spend
<1>. QED  BY <1>1, <1>2, <1>4, <1>5, OthersHInv DEF Spend

LEMMA SettingHInv ==
  ASSUME HInv, UNCHANGED <<desk, answers>>, NEW family, NEW x,
         db' = Audited([db EXCEPT !.family = family], x)
  PROVE  HInv'
<1>1. PICK w, v : w = db /\ v = db'
  OBVIOUS
<1>2. Shaped(w) /\ w.rows \in Seq(Spendings)
  BY <1>1 DEF HInv, Tables
<1>3. PICK u : u = [w EXCEPT !.family = family]
  OBVIOUS
<1>4. Keeping(u, w) /\ u.categories = w.categories /\ u.merchants = w.merchants
  BY <1>2, <1>3 DEF Keeping, Shaped
<1>5. v = Audited(u, x)
  BY <1>1, <1>3
<1>6. Keeping(v, u) /\ v.categories = u.categories /\ v.merchants = u.merchants
  <2>1. Shaped(u)
    BY <1>4 DEF Keeping
  <2>. QED  BY <1>5, <2>1, AuditKeeps
<1>7. /\ Shaped(db') /\ db'.rows \in Seq(Spendings) /\ db'.records = db.records
      /\ db'.categories = db.categories /\ db'.merchants = db.merchants
  BY <1>1, <1>2, <1>4, <1>6 DEF Keeping
<1>. QED  BY <1>7, OthersHInv

LEMMA SetZoneHInv ==
  ASSUME HInv, NEW zone \in Zones, SetZone(zone)
  PROVE  HInv'
<1>1. \E family, x : db' = Audited([db EXCEPT !.family = family], x)
  BY DEF SetZone
<1>. QED  BY <1>1, SettingHInv DEF SetZone

LEMMA SetBaseHInv ==
  ASSUME HInv, NEW b \in Bases, SetBase(b)
  PROVE  HInv'
<1>1. \E family, x : db' = Audited([db EXCEPT !.family = family], x)
  BY DEF SetBase
<1>. QED  BY <1>1, SettingHInv DEF SetBase

\* A category or a merchant of another writer.
LEMMA NamesHInv ==
  ASSUME HInv, UNCHANGED answers, NEW news, desk' = Informed(desk, news),
         Shaped(db'), db'.rows = db.rows, db'.records = db.records,
         \/ /\ <<"categories">> \in news /\ CategoriesSound(db'.categories)
            /\ db'.merchants = db.merchants
         \/ /\ <<"merchants">> \in news /\ MerchantsSound(db'.merchants)
            /\ PersonsOf(db.merchants) \in SUBSET PersonsOf(db'.merchants)
            /\ db'.categories = db.categories
  PROVE  HInv'
<1>1. Tables'
  BY DEF HInv, Tables
<1>2. Follows(news) /\ PersonsOf(db.merchants) \in SUBSET PersonsOf(db'.merchants)
  BY DEF Follows
<1>3. Desks'
  BY <1>2, DesksHear DEF HInv
<1>4. Persons'
  BY <1>2, PersonsFollow DEF HInv
<1>. QED  BY <1>1, <1>3, <1>4 DEF HInv

LEMMA FindOrCreateHInv ==
  ASSUME HInv, NEW filed \in Filed, FindOrCreate(filed)
  PROVE  HInv'
<1>1. PICK w, v : w = db /\ v = db'
  OBVIOUS
<1>2. Shaped(w) /\ CategoriesSound(w.categories)
  BY <1>1 DEF HInv, Tables
<1>3. PICK row : row = Category(filed.name, filed.type, "family", FALSE, None)
  OBVIOUS
<1>4. row.name = filed.name /\ row.parent = None
  BY <1>3 DEF Category
<1>5. PICK cs : cs = Append(w.categories, row)
  OBVIOUS
<1>6. PICK u : u = [w EXCEPT !.categories = cs]
  OBVIOUS
<1>7. Keeping(u, w) /\ u.categories = cs /\ u.merchants = w.merchants
  BY <1>2, <1>6, FieldSet
<1>8. \E x : v = Audited(u, x)
  BY <1>1, <1>3, <1>5, <1>6 DEF FindOrCreate, AddCategory
<1>9. Keeping(v, u) /\ v.categories = u.categories /\ v.merchants = u.merchants
  <2>1. Shaped(u)
    BY <1>7 DEF Keeping
  <2>. QED  BY <1>8, <2>1, AuditKeeps
<1>10. CategoriesSound(cs)
  <2>1. PICK t : t = w.categories
    OBVIOUS
  <2>2. ~\E i \in DOMAIN t : t[i].owner = "family" /\ t[i].name = row.name
    BY <1>1, <1>4, <2>1 DEF FindOrCreate, OwnCategories, Named
  <2>. QED  BY <1>2, <1>4, <1>5, <2>1, <2>2, CategoryAdded
<1>11. /\ Shaped(db') /\ db'.rows = db.rows /\ db'.records = db.records
       /\ CategoriesSound(db'.categories) /\ db'.merchants = db.merchants
  BY <1>1, <1>7, <1>9, <1>10 DEF Keeping
<1>. QED  BY <1>11, NamesHInv DEF FindOrCreate

LEMMA MigrateHInv ==
  ASSUME HInv, NEW row \in Migrated, Migrate(row)
  PROVE  HInv'
<1>1. PICK w, v : w = db /\ v = db'
  OBVIOUS
<1>2. Shaped(w) /\ CategoriesSound(w.categories) /\ MerchantsSound(w.merchants)
  BY <1>1 DEF HInv, Tables
<1>3. CASE row.table = "categories"
  <2>1. PICK new : new = Category(row.name, row.type, "family", TRUE, None)
    OBVIOUS
  <2>2. new.bound
    BY <2>1 DEF Category
  <2>3. PICK cs : cs = Append(w.categories, new)
    OBVIOUS
  <2>4. PICK u : u = [w EXCEPT !.categories = cs]
    OBVIOUS
  <2>5. Keeping(u, w) /\ u.categories = cs /\ u.merchants = w.merchants
    BY <1>2, <2>4, FieldSet
  <2>6. \E x : v = Audited(u, x)
    BY <1>1, <1>3, <2>1, <2>3, <2>4 DEF Migrate
  <2>7. Keeping(v, u) /\ v.categories = u.categories /\ v.merchants = u.merchants
    <3>1. Shaped(u)
      BY <2>5 DEF Keeping
    <3>. QED  BY <2>6, <3>1, AuditKeeps
  <2>8. CategoriesSound(cs)
    BY <1>2, <2>2, <2>3, CategoryAdded
  <2>9. /\ Shaped(db') /\ db'.rows = db.rows /\ db'.records = db.records
        /\ CategoriesSound(db'.categories) /\ db'.merchants = db.merchants
    BY <1>1, <2>5, <2>7, <2>8 DEF Keeping
  <2>. QED  BY <1>3, <2>9, NamesHInv DEF Migrate
<1>4. CASE row.table = "merchants"
  <2>1. PICK new : new = Merchant(row.name, row.type, TRUE)
    OBVIOUS
  <2>2. new.bound /\ new = Merchant(new.name, new.kind, new.bound)
    BY <2>1 DEF Merchant
  <2>3. PICK ms : ms = Append(w.merchants, new)
    OBVIOUS
  <2>4. PICK u : u = [w EXCEPT !.merchants = ms]
    OBVIOUS
  <2>5. Keeping(u, w) /\ u.categories = w.categories /\ u.merchants = ms
    BY <1>2, <2>4, FieldSet
  <2>6. \E x : v = Audited(u, x)
    BY <1>1, <1>4, <2>1, <2>3, <2>4 DEF Migrate
  <2>7. Keeping(v, u) /\ v.categories = u.categories /\ v.merchants = u.merchants
    <3>1. Shaped(u)
      BY <2>5 DEF Keeping
    <3>. QED  BY <2>6, <3>1, AuditKeeps
  <2>8. MerchantsSound(ms) /\ PersonsOf(w.merchants) \in SUBSET PersonsOf(ms)
    <3>1. PICK t : t = w.merchants
      OBVIOUS
    <3>2. new.bound \/ Named(t, new.name) = {}
      BY <2>2
    <3>3. new = Merchant(new.name, new.kind, new.bound)
      BY <2>2
    <3>4. ms = Append(t, new) /\ MerchantsSound(t)
      BY <1>2, <2>3, <3>1
    <3>5. OneMore(t, new, ms)
      BY <3>2, <3>3, <3>4, MerchantAdded, Zenon
    <3>. QED  BY <3>1, <3>5 DEF OneMore
  <2>9. /\ Shaped(db') /\ db'.rows = db.rows /\ db'.records = db.records
        /\ MerchantsSound(db'.merchants) /\ db'.categories = db.categories
        /\ PersonsOf(db.merchants) \in SUBSET PersonsOf(db'.merchants)
    BY <1>1, <2>5, <2>7, <2>8 DEF Keeping
  <2>. QED  BY <1>4, <2>9, NamesHInv DEF Migrate
<1>. QED  BY <1>3, <1>4, HouseholdAssumption

LEMMA HNext ==
  ASSUME HInv, [HouseholdNext]_householdVars
  PROVE  HInv'
<1>1. CASE UNCHANGED householdVars
  BY <1>1 DEF householdVars, HInv, Tables, Desks, Desk, Seeing, Persons, IsPerson
<1>2. ASSUME NEW c \in Clerks, NEW call \in Wanted, TakeUp(c, call) PROVE HInv'
  BY <1>2, TakeUpHInv
<1>3. ASSUME NEW c \in Clerks,
             \/ Decline(c) \/ Commit(c) \/ Retry(c) \/ NameRefused(c) \/ KeyRefused(c)
             \/ Resolve(c) \/ GiveUp(c)
      PROVE  HInv'
  BY <1>3, DeclineHInv, CommitHInv, RetryHInv, NameRefusedHInv, KeyRefusedHInv, ResolveHInv, GiveUpHInv
<1>4. ASSUME NEW row \in Spendings, Spend(row) PROVE HInv'
  BY <1>4, SpendHInv
<1>5. ASSUME NEW zone \in Zones, SetZone(zone) PROVE HInv'
  BY <1>5, SetZoneHInv
<1>8. ASSUME NEW b \in Bases, SetBase(b) PROVE HInv'
  BY <1>8, SetBaseHInv
<1>6. ASSUME NEW row \in Migrated, Migrate(row) PROVE HInv'
  BY <1>6, MigrateHInv
<1>7. ASSUME NEW filed \in Filed, FindOrCreate(filed) PROVE HInv'
  BY <1>7, FindOrCreateHInv
<1>. QED  BY <1>1, <1>2, <1>3, <1>4, <1>5, <1>6, <1>7, <1>8 DEF HouseholdNext

LEMMA HouseholdInvariance == HouseholdSpec => []HInv
<1>1. HInv /\ [HouseholdNext]_householdVars => HInv'
  BY HNext
<1>. QED  BY <1>1, HInitHInv, PTL DEF HouseholdSpec

LEMMA NamesFollow == HInv => NamesStayApart
<1>. SUFFICES ASSUME HInv PROVE NamesStayApart
  OBVIOUS
<1>1. PICK cs, ms : cs = db.categories /\ ms = db.merchants
  OBVIOUS
<1>2. CategoriesSound(cs) /\ MerchantsSound(ms)
  BY <1>1 DEF HInv, Tables
<1>3. OwnCategories(db) = {i \in DOMAIN cs : cs[i].owner = "family"}
  BY <1>1 DEF OwnCategories
<1>4. ASSUME NEW table \in {db.merchants, [i \in OwnCategories(db) |-> db.categories[i]]},
             NEW i \in Manual(table), NEW j \in Manual(table), table[i].name = table[j].name
      PROVE  i = j
  <2>1. CASE table = ms
    BY <1>2, <1>4, <2>1 DEF MerchantsSound, Manual
  <2>2. CASE table = [k \in OwnCategories(db) |-> cs[k]]
    <3>1. /\ i \in OwnCategories(db) /\ ~cs[i].bound /\ j \in OwnCategories(db) /\ ~cs[j].bound
          /\ cs[i].name = cs[j].name
      BY <1>4, <2>2 DEF Manual
    <3>. QED  BY <1>2, <1>3, <3>1 DEF CategoriesSound
  <2>. QED  BY <1>1, <1>4, <2>1, <2>2
<1>5. ASSUME NEW i \in OwnCategories(db) \cap Manual(db.categories), db.categories[i].parent # None
      PROVE  /\ db.categories[i].parent \in OwnCategories(db)
             /\ db.categories[db.categories[i].parent].type = db.categories[i].type
  BY <1>1, <1>2, <1>3, <1>5 DEF CategoriesSound, Manual
<1>6. ASSUME NEW r \in Accepted, r.call.end = "merchant", r.call.kind = "person"
      PROVE  db.merchants[r.answer[3][1]].kind = "person"
  BY <1>6 DEF Accepted, HInv, Persons, IsPerson
<1>. QED  BY <1>4, <1>5, <1>6 DEF NamesStayApart

\* No two rows that the family named have the same name, a subcategory is of the
\* type of its parent, and a person stays one: for any number of clerks, whatever
\* is requested, migrated and filed, however transactions overlap and are run again.
THEOREM NamesApart == HouseholdSpec => []NamesStayApart
BY HouseholdInvariance, NamesFollow, PTL

\* Every spending counts in one month, that of its day in the family's zone, and
\* the months add up to what the rows say, category by category: for any calendar,
\* zone and spendings.
THEOREM EachInOneMonth == HouseholdSpec => []SpendingIsInOneMonth
<1>1. HInv => SpendingIsInOneMonth
  BY SpendingFollows DEF HInv, Tables
<1>. QED  BY <1>1, HouseholdInvariance, PTL

-----------------------------------------------------------------------------
(* The audit log.                                                          *)

InLog(trail, x) == \E i \in DOMAIN trail : trail[i].entity = x
Over(f, g) == [k \in DOMAIN f \cup DOMAIN g |-> IF k \in DOMAIN f THEN f[k] ELSE g[k]]

\* Where an entity is last told a field.
Tellers(trail, x, f) == {i \in DOMAIN trail : trail[i].entity = x /\ f \in DOMAIN trail[i].after}
FieldsTold(trail, x) == UNION {DOMAIN trail[i].after : i \in {n \in DOMAIN trail : trail[n].entity = x}}

LEMMA TellingIs ==
  ASSUME NEW trail, NEW x
  PROVE  /\ Telling(trail, x) = [f \in FieldsTold(trail, x) |-> trail[Max(Tellers(trail, x, f))].after[f]]
         /\ \A f : f \in FieldsTold(trail, x) <=> Tellers(trail, x, f) # {}
<1>1. \A f : {i \in {n \in DOMAIN trail : trail[n].entity = x} : f \in DOMAIN trail[i].after} = Tellers(trail, x, f)
  BY DEF Tellers
<1>2. \A f : f \in FieldsTold(trail, x) <=> Tellers(trail, x, f) # {}
  BY DEF FieldsTold, Tellers
<1>3. Telling(trail, x) = [f \in FieldsTold(trail, x) |-> trail[Max(Tellers(trail, x, f))].after[f]]
  BY <1>1 DEF Telling, FieldsTold
<1>. QED  BY <1>2, <1>3

LEMMA GreatestIs ==
  ASSUME NEW N \in SUBSET Nat, NEW b \in N, \A n \in N : n <= b
  PROVE  Max(N) = b
<1>1. \E m \in N : \A n \in N : m >= n
  OBVIOUS
<1>2. Max(N) \in N /\ \A n \in N : Max(N) >= n
  BY <1>1 DEF Max
<1>3. PICK m : m = Max(N)
  OBVIOUS
<1>4. m \in Nat /\ b \in Nat /\ m >= b /\ m <= b
  BY <1>2, <1>3
<1>. QED  BY <1>3, <1>4

\* An entry is told on top of what was told before.
LEMMA TellingGrows ==
  ASSUME NEW S, NEW trail \in Seq(S), NEW e, NEW x, NEW u, u = Append(trail, e)
  PROVE  /\ e.entity = x => Telling(u, x) = Over(e.after, Telling(trail, x))
         /\ e.entity # x => Telling(u, x) = Telling(trail, x)
<1>. DEFINE n == Len(trail) + 1
            old(f) == Tellers(trail, x, f)
            new(f) == Tellers(u, x, f)
<1>1. /\ n \in Nat /\ DOMAIN trail = 1..Len(trail) /\ DOMAIN u = DOMAIN trail \cup {n} /\ n \notin DOMAIN trail
      /\ u[n] = e /\ \A i \in DOMAIN trail : u[i] = trail[i] /\ i <= n /\ i \in Nat
  OBVIOUS
<1>. HIDE DEF n
<1>2. \A f : new(f) = old(f) \cup (IF e.entity = x /\ f \in DOMAIN e.after THEN {n} ELSE {})
  BY <1>1 DEF Tellers
<1>3. \A f : old(f) \in SUBSET DOMAIN trail
  BY DEF Tellers
<1>4. ASSUME NEW f, old(f) # {} PROVE Max(old(f)) \in DOMAIN trail
  <2>1. old(f) \in SUBSET Int /\ Len(trail) \in Int /\ \A i \in old(f) : i <= Len(trail)
    BY <1>1, <1>3
  <2>2. PICK b \in old(f) : \A i \in old(f) : i <= b
    BY <1>4, <2>1, GreatestNumber
  <2>3. Max(old(f)) = b
    BY <1>1, <1>3, <2>2, GreatestIs
  <2>. QED  BY <1>3, <2>2, <2>3
<1>5. ASSUME NEW f, e.entity = x, f \in DOMAIN e.after PROVE Max(new(f)) = n
  <2>1. new(f) \in SUBSET Nat /\ n \in new(f) /\ \A i \in new(f) : i <= n
    BY <1>1, <1>2, <1>3, <1>5
  <2>. QED  BY <2>1, GreatestIs
<1>6. ASSUME NEW f, ~(e.entity = x /\ f \in DOMAIN e.after) PROVE new(f) = old(f)
  BY <1>2, <1>6
<1>7. /\ Telling(u, x) = [f \in FieldsTold(u, x) |-> u[Max(new(f))].after[f]]
      /\ Telling(trail, x) = [f \in FieldsTold(trail, x) |-> trail[Max(old(f))].after[f]]
      /\ \A f : f \in FieldsTold(u, x) <=> new(f) # {}
      /\ \A f : f \in FieldsTold(trail, x) <=> old(f) # {}
  <2>1. \A t : /\ Telling(t, x) = [f \in FieldsTold(t, x) |-> t[Max(Tellers(t, x, f))].after[f]]
               /\ \A f : f \in FieldsTold(t, x) <=> Tellers(t, x, f) # {}
    BY TellingIs
  <2>. QED  BY <2>1, Zenon
<1>. HIDE DEF old, new
<1>8. CASE e.entity # x
  <2>1. \A f : new(f) = old(f)
    BY <1>6, <1>8
  <2>2. FieldsTold(u, x) = FieldsTold(trail, x)
    BY <1>7, <2>1
  <2>3. \A f \in FieldsTold(u, x) : u[Max(new(f))].after[f] = trail[Max(old(f))].after[f]
    BY <1>1, <1>4, <1>7, <2>1, <2>2
  <2>. QED  BY <1>7, <1>8, <2>2, <2>3
<1>9. CASE e.entity = x
  <2>1. FieldsTold(u, x) = DOMAIN e.after \cup FieldsTold(trail, x)
    <3>1. \A f : new(f) # {} <=> (old(f) # {} \/ f \in DOMAIN e.after)
      BY <1>2, <1>9
    <3>2. \A f : f \in FieldsTold(u, x) <=> (f \in FieldsTold(trail, x) \/ f \in DOMAIN e.after)
      BY <1>7, <3>1, Zenon
    <3>. QED  BY <3>2
  <2>2. \A f \in FieldsTold(u, x) :
          u[Max(new(f))].after[f] = IF f \in DOMAIN e.after THEN e.after[f] ELSE Telling(trail, x)[f]
    <3>1. ASSUME NEW f \in FieldsTold(u, x), f \in DOMAIN e.after PROVE u[Max(new(f))].after[f] = e.after[f]
      BY <1>1, <1>5, <1>9, <3>1
    <3>2. ASSUME NEW f \in FieldsTold(u, x), f \notin DOMAIN e.after
          PROVE  u[Max(new(f))].after[f] = Telling(trail, x)[f]
      <4>1. new(f) = old(f) /\ f \in FieldsTold(trail, x) /\ Max(old(f)) \in DOMAIN trail
        BY <1>4, <1>6, <1>7, <2>1, <3>2
      <4>2. Telling(trail, x)[f] = trail[Max(old(f))].after[f]
        BY <1>7, <4>1
      <4>. QED  BY <1>1, <4>1, <4>2
    <3>. QED  BY <3>1, <3>2
  <2>3. DOMAIN Telling(trail, x) = FieldsTold(trail, x)
    BY <1>7
  <2>4. Over(e.after, Telling(trail, x)) =
          [f \in FieldsTold(u, x) |-> IF f \in DOMAIN e.after THEN e.after[f] ELSE Telling(trail, x)[f]]
    BY <2>1, <2>3 DEF Over
  <2>5. Telling(u, x) = Over(e.after, Telling(trail, x))
    <3>1. PICK F : F = FieldsTold(u, x)
      OBVIOUS
    <3>2. [f \in F |-> u[Max(new(f))].after[f]]
            = [f \in F |-> IF f \in DOMAIN e.after THEN e.after[f] ELSE Telling(trail, x)[f]]
      BY <2>2, <3>1
    <3>. QED  BY <1>7, <2>4, <3>1, <3>2
  <2>. QED  BY <1>9, <2>5
<1>. QED  BY <1>8, <1>9

LEMMA TellsOnTop ==
  ASSUME NEW S, NEW trail \in Seq(S), NEW e, NEW x, e.entity = x
  PROVE  Telling(Append(trail, e), x) = Over(e.after, Telling(trail, x))
BY TellingGrows

LEMMA TellsNothing ==
  ASSUME NEW S, NEW trail \in Seq(S), NEW e, NEW x, e.entity # x
  PROVE  Telling(Append(trail, e), x) = Telling(trail, x)
BY TellingGrows

LEMMA NothingTold ==
  ASSUME NEW trail, NEW x, ~InLog(trail, x)
  PROVE  DOMAIN Telling(trail, x) = {}
<1>1. \A f : Tellers(trail, x, f) = {}
  BY DEF Tellers, InLog
<1>. QED  BY <1>1, TellingIs

\* Tables in shape, and what the log is about.
Sequence(s) == \E S : s \in Seq(S)
RuleRow(r) == r = [keyword |-> r.keyword, category |-> r.category, merchant |-> r.merchant, live |-> r.live]
BudgetRow(b) ==
  /\ b = [name |-> b.name, archived |-> b.archived, currency |-> b.currency, lines |-> b.lines, policies |-> b.policies]
  /\ b.archived \in BOOLEAN

\* What the log tells of a budget.
BudgetFields == {"name", "archived", "lines", "policies"}
Budgeted(b) == [f \in BudgetFields |-> b[f]]

Tabled(w) ==
  /\ Shaped(w) /\ Sequence(w.trail) /\ Sequence(w.categories) /\ Sequence(w.merchants) /\ Sequence(w.rules)
  /\ \A n \in DOMAIN w.merchants :
       w.merchants[n] = Merchant(w.merchants[n].name, w.merchants[n].kind, w.merchants[n].bound)
  /\ \A n \in DOMAIN w.rules : RuleRow(w.rules[n])
  /\ w.budgets = [m \in Months |-> w.budgets[m]] /\ \A m \in Months : BudgetRow(w.budgets[m])
  /\ w.family = [zone |-> w.family.zone, currency |-> w.family.currency]

CategoryAt(n) == <<"category", n>>
MerchantAt(n) == <<"merchant", n>>
RuleAt(n) == <<"rule", n>>
BudgetAt(m) == <<"budget", m>>
Settings == <<"family">>

Exists(w, x) ==
  \/ \E n \in DOMAIN w.categories : x = CategoryAt(n)
  \/ \E n \in DOMAIN w.merchants : x = MerchantAt(n)
  \/ \E n \in DOMAIN w.rules : x = RuleAt(n)
  \/ \E m \in Months : x = BudgetAt(m)
  \/ x = Settings

LEMMA EntitiesDiffer ==
  /\ \A n, m : CategoryAt(n) # MerchantAt(m) /\ CategoryAt(n) # RuleAt(m) /\ CategoryAt(n) # BudgetAt(m)
  /\ \A n, m : MerchantAt(n) # RuleAt(m) /\ MerchantAt(n) # BudgetAt(m) /\ RuleAt(n) # BudgetAt(m)
  /\ \A n : CategoryAt(n) # Settings /\ MerchantAt(n) # Settings /\ RuleAt(n) # Settings /\ BudgetAt(n) # Settings
  /\ \A n, m : CategoryAt(n) = CategoryAt(m) \/ MerchantAt(n) = MerchantAt(m) \/ RuleAt(n) = RuleAt(m)
                \/ BudgetAt(n) = BudgetAt(m) => n = m
BY DEF CategoryAt, MerchantAt, RuleAt, BudgetAt, Settings

Mentioned(w) ==
  /\ \A i \in DOMAIN w.trail : Exists(w, w.trail[i].entity)
  /\ \A n \in DOMAIN w.merchants : InLog(w.trail, MerchantAt(n))
  /\ \A n \in DOMAIN w.rules : InLog(w.trail, RuleAt(n))
  /\ \A m \in Months : w.budgets[m] # NoBudget => InLog(w.trail, BudgetAt(m))

\* An entry says of the past what the log says; only what the family began with is
\* older than the log.
Explains(trail, e) ==
  LET told == Telling(trail, e.entity) IN
  \A f \in DOMAIN e.before :
    IF f \in DOMAIN told THEN e.before[f] = told[f] ELSE e.entity = Settings

FamilyFields == {"zone", "currency"}

LogFits(w) ==
  /\ Tabled(w) /\ Mentioned(w)
  /\ \A i \in DOMAIN w.trail : w.trail[i].entity = Settings => DOMAIN w.trail[i].after \in SUBSET FamilyFields
  /\ \A i \in DOMAIN w.trail : Explains(SubSeq(w.trail, 1, i - 1), w.trail[i])
  /\ \A i \in DOMAIN w.trail : Telling(w.trail, w.trail[i].entity) = Present(w, w.trail[i].entity)

\* What was logged stays in its place.
LEMMA PrefixStays ==
  ASSUME NEW S, NEW s \in Seq(S), NEW e, NEW i \in 1..(Len(s) + 1), NEW u, u = Append(s, e)
  PROVE  SubSeq(u, 1, i - 1) = SubSeq(s, 1, i - 1)
<1>1. /\ Len(s) \in Nat /\ i \in Int /\ i - 1 \in Int /\ 1 \in Int
      /\ \A k \in 1..(i - 1) : k \in 1..Len(s) /\ u[k] = s[k] /\ s[k] \in S
  OBVIOUS
<1>2. /\ SubSeq(s, 1, i - 1) \in Seq(S)
      /\ Len(SubSeq(s, 1, i - 1)) = (IF 1 <= i - 1 THEN i - 1 - 1 + 1 ELSE 0)
      /\ \A k \in 1..(i - 1 - 1 + 1) : SubSeq(s, 1, i - 1)[k] = s[1 + k - 1]
  <2>1. \A k \in 1..(i - 1) : s[k] \in S
    BY <1>1
  <2>. QED  BY <1>1, <2>1, SubSeqProperties
<1>3. /\ SubSeq(u, 1, i - 1) \in Seq(S)
      /\ Len(SubSeq(u, 1, i - 1)) = (IF 1 <= i - 1 THEN i - 1 - 1 + 1 ELSE 0)
      /\ \A k \in 1..(i - 1 - 1 + 1) : SubSeq(u, 1, i - 1)[k] = u[1 + k - 1]
  <2>1. \A k \in 1..(i - 1) : u[k] \in S
    BY <1>1
  <2>. QED  BY <1>1, <2>1, SubSeqProperties
<1>4. PICK a, b : a = SubSeq(s, 1, i - 1) /\ b = SubSeq(u, 1, i - 1)
  OBVIOUS
<1>5. /\ a \in Seq(S) /\ b \in Seq(S) /\ Len(a) = Len(b)
      /\ \A k \in 1..Len(b) : b[k] = a[k]
  BY <1>1, <1>2, <1>3, <1>4
<1>6. b = a
  BY <1>5, SeqEqual
<1>. QED  BY <1>4, <1>6

\* A sequence with a row more.
Extends(u, s, row) ==
  /\ Sequence(u) /\ Len(s) \in Nat /\ DOMAIN s = 1..Len(s) /\ Len(s) + 1 \notin DOMAIN s
  /\ DOMAIN u = DOMAIN s \cup {Len(s) + 1} /\ Len(u) = Len(s) + 1
  /\ u[Len(s) + 1] = row /\ \A i \in DOMAIN s : u[i] = s[i]

LEMMA AppendExtends ==
  ASSUME NEW s, Sequence(s), NEW row
  PROVE  Extends(Append(s, row), s, row)
<1>1. PICK S : s \in Seq(S)
  BY DEF Sequence
<1>2. PICK u : u = Append(s, row)
  OBVIOUS
<1>3. u \in Seq(S \cup {row})
  BY <1>1, <1>2
<1>4. Extends(u, s, row)
  BY <1>1, <1>2, <1>3 DEF Extends, Sequence
<1>. QED  BY <1>2, <1>4

\* An entry is added to the log.
LEMMA LogGrows ==
  ASSUME NEW w, LogFits(w), NEW v, Tabled(v), Mentioned(v),
         NEW e, v.trail = Append(w.trail, e), Explains(w.trail, e),
         \A y : y # e.entity /\ Exists(w, y) => Present(v, y) = Present(w, y),
         Present(v, e.entity) = Over(e.after, Telling(w.trail, e.entity)),
         e.entity = Settings => DOMAIN e.after \in SUBSET FamilyFields
  PROVE  LogFits(v)
<1>1. PICK s, u : s = w.trail /\ u = v.trail
  OBVIOUS
<1>2. PICK S : s \in Seq(S)
  BY <1>1 DEF LogFits, Tabled, Sequence
<1>3. u = Append(s, e) /\ Sequence(s)
  BY <1>1, <1>2 DEF Sequence
<1>4. /\ Len(s) \in Nat /\ DOMAIN s = 1..Len(s) /\ DOMAIN u = DOMAIN s \cup {Len(s) + 1}
      /\ u[Len(s) + 1] = e /\ \A i \in DOMAIN s : u[i] = s[i]
  <2>1. Extends(Append(s, e), s, e)
    BY <1>3, AppendExtends
  <2>. QED  BY <1>3, <2>1 DEF Extends
<1>5. ASSUME NEW i \in DOMAIN u PROVE Explains(SubSeq(u, 1, i - 1), u[i])
  <2>1. SubSeq(u, 1, i - 1) = SubSeq(s, 1, i - 1)
    BY <1>2, <1>3, <1>4, PrefixStays
  <2>2. CASE i \in DOMAIN s
    BY <1>1, <1>4, <2>1, <2>2 DEF LogFits
  <2>3. CASE i = Len(s) + 1
    <3>1. SubSeq(s, 1, i - 1) = s
      <4>1. i - 1 = Len(s)
        BY <1>4, <2>3
      <4>. QED  BY <1>2, <4>1, SubSeqFull
    <3>. QED  BY <1>1, <1>4, <2>1, <2>3, <3>1
  <2>. QED  BY <1>4, <2>2, <2>3
<1>6. ASSUME NEW i \in DOMAIN u PROVE Telling(u, u[i].entity) = Present(v, u[i].entity)
  <2>1. PICK x : x = u[i].entity
    OBVIOUS
  <2>2. /\ e.entity = x => Telling(u, x) = Over(e.after, Telling(s, x))
        /\ e.entity # x => Telling(u, x) = Telling(s, x)
    BY <1>2, <1>3, TellsOnTop, TellsNothing
  <2>3. CASE x = e.entity
    BY <1>1, <2>1, <2>2, <2>3
  <2>4. CASE x # e.entity
    <3>1. i \in DOMAIN s /\ s[i].entity = x
      BY <1>4, <2>1, <2>4
    <3>2. Exists(w, x) /\ Telling(s, x) = Present(w, x)
      BY <1>1, <3>1 DEF LogFits, Mentioned
    <3>3. Present(v, x) = Present(w, x)
      BY <2>4, <3>2
    <3>. QED  BY <2>1, <2>2, <2>4, <3>2, <3>3
  <2>. QED  BY <2>3, <2>4
<1>7. \A i \in DOMAIN u : u[i].entity = Settings => DOMAIN u[i].after \in SUBSET FamilyFields
  BY <1>1, <1>4 DEF LogFits
<1>. QED  BY <1>1, <1>5, <1>6, <1>7 DEF LogFits

\* Two ways in which an entry fits: of what the log does not know, and of what it does.
LEMMA NewsFit ==
  ASSUME NEW trail, NEW e, ~InLog(trail, e.entity), NEW D, e.after = [f \in D |-> e.after[f]],
         DOMAIN e.before = {}
  PROVE  Explains(trail, e) /\ Over(e.after, Telling(trail, e.entity)) = e.after
<1>1. DOMAIN Telling(trail, e.entity) = {}
  BY NothingTold
<1>2. Explains(trail, e)
  BY <1>1 DEF Explains
<1>3. PICK g, h : g = e.after /\ h = Telling(trail, e.entity)
  OBVIOUS
<1>4. DOMAIN g = D /\ g = [f \in D |-> g[f]] /\ DOMAIN h = {}
  BY <1>1, <1>3
<1>5. Over(g, h) = g
  BY <1>4 DEF Over
<1>. QED  BY <1>2, <1>3, <1>5

LEMMA KnownFits ==
  ASSUME NEW w, LogFits(w), NEW e, InLog(w.trail, e.entity), NEW p, p = Present(w, e.entity),
         \A f \in DOMAIN e.before : f \in DOMAIN p /\ e.before[f] = p[f]
  PROVE  Explains(w.trail, e) /\ Over(e.after, Telling(w.trail, e.entity)) = Over(e.after, p)
<1>1. Telling(w.trail, e.entity) = p
  BY DEF LogFits, InLog
<1>. QED  BY <1>1 DEF Explains

LEMMA PresentCategory == ASSUME NEW w, NEW n PROVE Present(w, CategoryAt(n)) = w.categories[n]
BY DEF Present, CategoryAt

LEMMA PresentMerchant == ASSUME NEW w, NEW n PROVE Present(w, MerchantAt(n)) = w.merchants[n]
BY DEF Present, MerchantAt

LEMMA PresentRule == ASSUME NEW w, NEW n PROVE Present(w, RuleAt(n)) = w.rules[n]
BY DEF Present, RuleAt

LEMMA PresentBudget == ASSUME NEW w, NEW n PROVE Present(w, BudgetAt(n)) = Budgeted(w.budgets[n])
BY DEF Present, BudgetAt, Budgeted, BudgetFields

LEMMA PresentSettings ==
  ASSUME NEW w
  PROVE  Present(w, Settings) = [f \in DOMAIN Telling(w.trail, Settings) |-> w.family[f]]
BY DEF Present, Settings

\* A step changes no entity but one.
Elsewhere(v, w, x) ==
  /\ \A n \in DOMAIN w.categories : x = CategoryAt(n) \/ v.categories[n] = w.categories[n]
  /\ \A n \in DOMAIN w.merchants : x = MerchantAt(n) \/ v.merchants[n] = w.merchants[n]
  /\ \A n \in DOMAIN w.rules : x = RuleAt(n) \/ v.rules[n] = w.rules[n]
  /\ \A m \in Months : x = BudgetAt(m) \/ v.budgets[m] = w.budgets[m]
  /\ x = Settings \/ v.family = w.family

\* It logs what it does to that one.
Alters(v, w, e, x) == Tabled(w) /\ v.trail = Append(w.trail, e) /\ x = e.entity /\ Elsewhere(v, w, x)

LEMMA PresentElsewhere ==
  ASSUME NEW w, NEW v, NEW e, NEW x, Alters(v, w, e, x)
  PROVE  \A y : y # x /\ Exists(w, y) => Present(v, y) = Present(w, y)
<1>. SUFFICES ASSUME NEW y, y # x, Exists(w, y) PROVE Present(v, y) = Present(w, y)
  OBVIOUS
<1>1. ASSUME NEW n \in DOMAIN w.categories, y = CategoryAt(n) PROVE Present(v, y) = Present(w, y)
  <2>1. Present(v, CategoryAt(n)) = Present(w, CategoryAt(n))
    BY <1>1, PresentCategory DEF Elsewhere, Alters
  <2>. QED  BY <1>1, <2>1
<1>2. ASSUME NEW n \in DOMAIN w.merchants, y = MerchantAt(n) PROVE Present(v, y) = Present(w, y)
  <2>1. Present(v, MerchantAt(n)) = Present(w, MerchantAt(n))
    BY <1>2, PresentMerchant DEF Elsewhere, Alters
  <2>. QED  BY <1>2, <2>1
<1>3. ASSUME NEW n \in DOMAIN w.rules, y = RuleAt(n) PROVE Present(v, y) = Present(w, y)
  <2>1. Present(v, RuleAt(n)) = Present(w, RuleAt(n))
    BY <1>3, PresentRule DEF Elsewhere, Alters
  <2>. QED  BY <1>3, <2>1
<1>4. ASSUME NEW m \in Months, y = BudgetAt(m) PROVE Present(v, y) = Present(w, y)
  <2>1. Present(v, BudgetAt(m)) = Present(w, BudgetAt(m))
    BY <1>4, PresentBudget DEF Elsewhere, Alters
  <2>. QED  BY <1>4, <2>1
<1>5. ASSUME y = Settings PROVE Present(v, y) = Present(w, y)
  <2>1. PICK s : s = w.trail
    OBVIOUS
  <2>2. PICK S : s \in Seq(S)
    BY <2>1 DEF Tabled, Sequence, Alters
  <2>3. Telling(Append(s, e), Settings) = Telling(s, Settings)
    BY <1>5, <2>2, TellsNothing DEF Alters
  <2>4. PICK told, g : told = Telling(s, Settings) /\ g = w.family
    OBVIOUS
  <2>5. /\ Telling(v.trail, Settings) = told /\ v.family = g
        /\ Telling(w.trail, Settings) = told /\ w.family = g
    BY <1>5, <2>1, <2>3, <2>4 DEF Elsewhere, Alters
  <2>6. Present(v, Settings) = [f \in DOMAIN told |-> g[f]]
    BY <2>5, PresentSettings
  <2>7. Present(w, Settings) = [f \in DOMAIN told |-> g[f]]
    BY <2>5, PresentSettings
  <2>. QED  BY <1>5, <2>6, <2>7
<1>. QED  BY <1>1, <1>2, <1>3, <1>4, <1>5, Zenon DEF Exists

LEMMA ExistsStill ==
  ASSUME NEW w, NEW v, \A n \in DOMAIN w.categories : n \in DOMAIN v.categories,
         \A n \in DOMAIN w.merchants : n \in DOMAIN v.merchants, \A n \in DOMAIN w.rules : n \in DOMAIN v.rules
  PROVE  \A y : Exists(w, y) => Exists(v, y)
BY Zenon DEF Exists

\* A table changes, and an entry is logged.
Writes(v, w, e, cs, ms, rs, bs, family) ==
  /\ Shaped(v) /\ v.trail = Append(w.trail, e) /\ v.records = w.records /\ v.rows = w.rows
  /\ v.categories = cs /\ v.merchants = ms /\ v.rules = rs /\ v.budgets = bs /\ v.family = family

LEMMA AuditedWrites ==
  ASSUME NEW w, Shaped(w), NEW u, Shaped(u), u.trail = w.trail, u.records = w.records, u.rows = w.rows, NEW e
  PROVE  Writes(Audited(u, e), w, e, u.categories, u.merchants, u.rules, u.budgets, u.family)
<1>1. PICK v, t : t = Append(w.trail, e) /\ v = Audited(u, e)
  OBVIOUS
<1>2. v = [u EXCEPT !.trail = t]
  BY <1>1 DEF Audited
<1>3. /\ Shaped(v) /\ v.trail = t /\ v.records = u.records /\ v.rows = u.rows
      /\ v.categories = u.categories /\ v.merchants = u.merchants /\ v.rules = u.rules
      /\ v.budgets = u.budgets /\ v.family = u.family
  BY <1>2 DEF Shaped
<1>. QED  BY <1>1, <1>3 DEF Writes

LEMMA CategoriesWritten ==
  ASSUME NEW w, Shaped(w), NEW e, NEW x
  PROVE  Writes(Audited([w EXCEPT !.categories = x], e), w, e, x, w.merchants, w.rules, w.budgets, w.family)
<1>1. PICK u : u = [w EXCEPT !.categories = x]
  OBVIOUS
<1>2. /\ Shaped(u) /\ u.trail = w.trail /\ u.records = w.records /\ u.rows = w.rows
      /\ u.categories = x /\ u.merchants = w.merchants /\ u.rules = w.rules
      /\ u.budgets = w.budgets /\ u.family = w.family
  BY <1>1 DEF Shaped
<1>3. Writes(Audited(u, e), w, e, u.categories, u.merchants, u.rules, u.budgets, u.family)
  BY <1>2, AuditedWrites
<1>. QED  BY <1>1, <1>2, <1>3

LEMMA MerchantsWritten ==
  ASSUME NEW w, Shaped(w), NEW e, NEW x
  PROVE  Writes(Audited([w EXCEPT !.merchants = x], e), w, e, w.categories, x, w.rules, w.budgets, w.family)
<1>1. PICK u : u = [w EXCEPT !.merchants = x]
  OBVIOUS
<1>2. /\ Shaped(u) /\ u.trail = w.trail /\ u.records = w.records /\ u.rows = w.rows
      /\ u.categories = w.categories /\ u.merchants = x /\ u.rules = w.rules
      /\ u.budgets = w.budgets /\ u.family = w.family
  BY <1>1 DEF Shaped
<1>3. Writes(Audited(u, e), w, e, u.categories, u.merchants, u.rules, u.budgets, u.family)
  BY <1>2, AuditedWrites
<1>. QED  BY <1>1, <1>2, <1>3

LEMMA RulesWritten ==
  ASSUME NEW w, Shaped(w), NEW e, NEW x
  PROVE  Writes(Audited([w EXCEPT !.rules = x], e), w, e, w.categories, w.merchants, x, w.budgets, w.family)
<1>1. PICK u : u = [w EXCEPT !.rules = x]
  OBVIOUS
<1>2. /\ Shaped(u) /\ u.trail = w.trail /\ u.records = w.records /\ u.rows = w.rows
      /\ u.categories = w.categories /\ u.merchants = w.merchants /\ u.rules = x
      /\ u.budgets = w.budgets /\ u.family = w.family
  BY <1>1 DEF Shaped
<1>3. Writes(Audited(u, e), w, e, u.categories, u.merchants, u.rules, u.budgets, u.family)
  BY <1>2, AuditedWrites
<1>. QED  BY <1>1, <1>2, <1>3

LEMMA BudgetsWritten ==
  ASSUME NEW w, Shaped(w), NEW e, NEW x
  PROVE  Writes(Audited([w EXCEPT !.budgets = x], e), w, e, w.categories, w.merchants, w.rules, x, w.family)
<1>1. PICK u : u = [w EXCEPT !.budgets = x]
  OBVIOUS
<1>2. /\ Shaped(u) /\ u.trail = w.trail /\ u.records = w.records /\ u.rows = w.rows
      /\ u.categories = w.categories /\ u.merchants = w.merchants /\ u.rules = w.rules
      /\ u.budgets = x /\ u.family = w.family
  BY <1>1 DEF Shaped
<1>3. Writes(Audited(u, e), w, e, u.categories, u.merchants, u.rules, u.budgets, u.family)
  BY <1>2, AuditedWrites
<1>. QED  BY <1>1, <1>2, <1>3

LEMMA FamilyWritten ==
  ASSUME NEW w, Shaped(w), NEW e, NEW x
  PROVE  Writes(Audited([w EXCEPT !.family = x], e), w, e, w.categories, w.merchants, w.rules, w.budgets, x)
<1>1. PICK u : u = [w EXCEPT !.family = x]
  OBVIOUS
<1>2. /\ Shaped(u) /\ u.trail = w.trail /\ u.records = w.records /\ u.rows = w.rows
      /\ u.categories = w.categories /\ u.merchants = w.merchants /\ u.rules = w.rules
      /\ u.budgets = w.budgets /\ u.family = x
  BY <1>1 DEF Shaped
<1>3. Writes(Audited(u, e), w, e, u.categories, u.merchants, u.rules, u.budgets, u.family)
  BY <1>2, AuditedWrites
<1>. QED  BY <1>1, <1>2, <1>3

LEMMA ToldFields ==
  ASSUME NEW x, NEW key, NEW before, NEW after, NEW e, e = Told(x, key, before, after)
  PROVE  e.entity = x /\ e.key = key /\ e.before = before /\ e.after = after /\ e.currency = None
BY DEF Told, ToldIn

LEMMA ToldInFields ==
  ASSUME NEW c, NEW x, NEW key, NEW before, NEW after, NEW e, e = ToldIn(c, x, key, before, after)
  PROVE  e.entity = x /\ e.key = key /\ e.before = before /\ e.after = after /\ e.currency = c
BY DEF ToldIn

\* The entities of the log exist, and what exists is in it.
LEMMA MentionGrows ==
  ASSUME NEW w, Tabled(w), Mentioned(w), NEW v, NEW e, v.trail = Append(w.trail, e), Exists(v, e.entity),
         \A y : Exists(w, y) => Exists(v, y),
         \A n \in DOMAIN v.merchants : n \in DOMAIN w.merchants \/ e.entity = MerchantAt(n),
         \A n \in DOMAIN v.rules : n \in DOMAIN w.rules \/ e.entity = RuleAt(n),
         \A m \in Months : v.budgets[m] # NoBudget => w.budgets[m] # NoBudget \/ e.entity = BudgetAt(m)
  PROVE  Mentioned(v)
<1>1. PICK s, u : s = w.trail /\ u = v.trail
  OBVIOUS
<1>2. Sequence(s) /\ u = Append(s, e)
  BY <1>1 DEF Tabled
<1>3. DOMAIN u = DOMAIN s \cup {Len(s) + 1} /\ u[Len(s) + 1] = e /\ \A i \in DOMAIN s : u[i] = s[i]
  <2>1. Extends(Append(s, e), s, e)
    BY <1>2, AppendExtends
  <2>. QED  BY <1>2, <2>1 DEF Extends
<1>4. \A y : InLog(s, y) \/ y = e.entity => InLog(u, y)
  BY <1>3 DEF InLog
<1>5. \A i \in DOMAIN u : Exists(v, u[i].entity)
  <2>1. \A i \in DOMAIN s : Exists(v, s[i].entity)
    BY <1>1 DEF Mentioned
  <2>. QED  BY <1>3, <2>1
<1>6. \A n \in DOMAIN v.merchants : InLog(u, MerchantAt(n))
  BY <1>1, <1>4 DEF Mentioned
<1>7. \A n \in DOMAIN v.rules : InLog(u, RuleAt(n))
  BY <1>1, <1>4 DEF Mentioned
<1>8. \A m \in Months : v.budgets[m] # NoBudget => InLog(u, BudgetAt(m))
  BY <1>1, <1>4 DEF Mentioned
<1>. QED  BY <1>1, <1>5, <1>6, <1>7, <1>8 DEF Mentioned

LEMMA NewsLogged ==
  ASSUME NEW w, LogFits(w), NEW v, NEW e, v.trail = Append(w.trail, e), Tabled(v), Mentioned(v),
         e.entity # Settings, ~InLog(w.trail, e.entity), DOMAIN e.before = {},
         NEW D, e.after = [f \in D |-> e.after[f]], Present(v, e.entity) = e.after,
         \A y : y # e.entity /\ Exists(w, y) => Present(v, y) = Present(w, y)
  PROVE  LogFits(v)
<1>1. Explains(w.trail, e) /\ Over(e.after, Telling(w.trail, e.entity)) = e.after
  BY NewsFit
<1>. QED  BY <1>1, LogGrows

LEMMA KnownLogged ==
  ASSUME NEW w, LogFits(w), NEW v, NEW e, v.trail = Append(w.trail, e), Tabled(v), Mentioned(v),
         e.entity # Settings, InLog(w.trail, e.entity), NEW p, p = Present(w, e.entity),
         \A f \in DOMAIN e.before : f \in DOMAIN p /\ e.before[f] = p[f],
         Present(v, e.entity) = Over(e.after, p),
         \A y : y # e.entity /\ Exists(w, y) => Present(v, y) = Present(w, y)
  PROVE  LogFits(v)
<1>1. Explains(w.trail, e) /\ Over(e.after, Telling(w.trail, e.entity)) = Over(e.after, p)
  BY KnownFits
<1>. QED  BY <1>1, LogGrows

LEMMA TrailIsSequence ==
  ASSUME NEW w, Tabled(w), NEW v, NEW e, v.trail = Append(w.trail, e)
  PROVE  Sequence(v.trail)
<1>1. PICK s : s = w.trail
  OBVIOUS
<1>2. Extends(Append(s, e), s, e)
  BY <1>1, AppendExtends DEF Tabled
<1>. QED  BY <1>1, <1>2 DEF Extends

LEMMA EmptyTuple == DOMAIN <<>> = {}
OBVIOUS

\* What is not there is not in the log.
LEMMA Unheard ==
  ASSUME NEW w, LogFits(w), NEW x, ~Exists(w, x)
  PROVE  ~InLog(w.trail, x)
BY DEF LogFits, Mentioned, InLog

LEMMA OverSame ==
  ASSUME NEW D, NEW g, g = [f \in D |-> g[f]], NEW h, DOMAIN h \in SUBSET D
  PROVE  Over(g, h) = g
<1>1. DOMAIN g = D
  OBVIOUS
<1>2. Over(g, h) = [f \in D |-> g[f]]
  BY <1>1 DEF Over
<1>. QED  BY <1>2

LEMMA CategoryLogged ==
  ASSUME NEW w, LogFits(w), NEW D, NEW row, row = [f \in D |-> row[f]], NEW key,
         NEW n, n = Len(w.categories) + 1, NEW cs, cs = Append(w.categories, row),
         NEW v, v = Audited([w EXCEPT !.categories = cs], Told(CategoryAt(n), key, <<>>, row))
  PROVE  LogFits(v)
<1>1. PICK e : e = Told(CategoryAt(n), key, <<>>, row)
  OBVIOUS
<1>2. e.entity = CategoryAt(n) /\ e.before = <<>> /\ e.after = row
  BY <1>1, ToldFields
<1>3. Tabled(w) /\ Mentioned(w) /\ Shaped(w)
  BY DEF LogFits, Tabled
<1>4. /\ Shaped(v) /\ v.trail = Append(w.trail, e)
      /\ v.categories = cs /\ v.merchants = w.merchants /\ v.rules = w.rules
      /\ v.budgets = w.budgets /\ v.family = w.family
  <2>1. Writes(Audited([w EXCEPT !.categories = cs], e), w, e, cs, w.merchants, w.rules, w.budgets, w.family)
    BY <1>3, CategoriesWritten
  <2>. QED  BY <1>1, <2>1 DEF Writes
<1>5. /\ Sequence(cs) /\ DOMAIN cs = DOMAIN w.categories \cup {n} /\ n \notin DOMAIN w.categories
      /\ cs[n] = row /\ \A i \in DOMAIN w.categories : cs[i] = w.categories[i]
  <2>1. PICK s : s = w.categories
    OBVIOUS
  <2>2. Extends(Append(s, row), s, row)
    BY <1>3, <2>1, AppendExtends DEF Tabled
  <2>. QED  BY <2>1, <2>2 DEF Extends
<1>6. Tabled(v)
  <2>1. Sequence(v.trail)
    BY <1>3, <1>4, TrailIsSequence
  <2>2. Sequence(v.categories) /\ Sequence(v.merchants) /\ Sequence(v.rules)
    BY <1>3, <1>4, <1>5 DEF Tabled
  <2>3. \A i \in DOMAIN v.merchants :
          v.merchants[i] = Merchant(v.merchants[i].name, v.merchants[i].kind, v.merchants[i].bound)
    BY <1>3, <1>4, <1>5 DEF Tabled
  <2>4. \A i \in DOMAIN v.rules : RuleRow(v.rules[i])
    BY <1>3, <1>4, <1>5 DEF Tabled
  <2>5. v.budgets = [m \in Months |-> v.budgets[m]] /\ \A m \in Months : BudgetRow(v.budgets[m])
    BY <1>3, <1>4 DEF Tabled
  <2>6. v.family = [zone |-> v.family.zone, currency |-> v.family.currency]
    BY <1>3, <1>4 DEF Tabled
  <2>. QED  BY <1>4, <2>1, <2>2, <2>3, <2>4, <2>5, <2>6 DEF Tabled
<1>7. \A y : Exists(w, y) => Exists(v, y)
  <2>1. /\ \A i \in DOMAIN w.categories : i \in DOMAIN v.categories
        /\ \A i \in DOMAIN w.merchants : i \in DOMAIN v.merchants
        /\ \A i \in DOMAIN w.rules : i \in DOMAIN v.rules
    BY <1>4, <1>5
  <2>. QED  BY <2>1, ExistsStill, Zenon
<1>8. Exists(v, e.entity) /\ ~Exists(w, e.entity)
  <2>1. n \in DOMAIN v.categories
    BY <1>4, <1>5
  <2>. QED  BY <1>2, <1>5, <2>1, EntitiesDiffer DEF Exists
<1>9. Mentioned(v)
  <2>1. v.trail = Append(w.trail, e)
    BY <1>4
  <2>. QED  BY <1>3, <1>4, <1>7, <1>8, <2>1, MentionGrows
<1>10. Present(v, e.entity) = row
  <2>1. Present(v, CategoryAt(n)) = v.categories[n]
    BY PresentCategory
  <2>. QED  BY <1>2, <1>4, <1>5, <2>1
<1>11. \A y : y # e.entity /\ Exists(w, y) => Present(v, y) = Present(w, y)
  <2>1. PICK x : x = e.entity
    OBVIOUS
  <2>2. Elsewhere(v, w, x)
    BY <1>2, <1>4, <1>5, <2>1 DEF Elsewhere
  <2>3. \A y : y # x /\ Exists(w, y) => Present(v, y) = Present(w, y)
    <3>1. Alters(v, w, e, x)
      BY <1>3, <1>4, <2>1, <2>2 DEF Alters
    <3>. QED  BY <3>1, PresentElsewhere
  <2>. QED  BY <2>1, <2>3
<1>. QED
  <2>1. v.trail = Append(w.trail, e)
    BY <1>4
  <2>2. ~InLog(w.trail, e.entity)
    BY <1>8, Unheard
  <2>3. DOMAIN e.before = {}
    BY <1>2, EmptyTuple
  <2>. QED  BY <1>2, <1>6, <1>9, <1>10, <1>11, <2>1, <2>2, <2>3, EntitiesDiffer, NewsLogged

LEMMA RuleLogged ==
  ASSUME NEW w, LogFits(w), NEW row, RuleRow(row), NEW key,
         NEW n, n = Len(w.rules) + 1, NEW rs, rs = Append(w.rules, row),
         NEW v, v = Audited([w EXCEPT !.rules = rs], Told(RuleAt(n), key, <<>>, row))
  PROVE  LogFits(v)
<1>1. PICK e : e = Told(RuleAt(n), key, <<>>, row)
  OBVIOUS
<1>2. e.entity = RuleAt(n) /\ e.before = <<>> /\ e.after = row
  BY <1>1, ToldFields
<1>3. Tabled(w) /\ Mentioned(w) /\ Shaped(w)
  BY DEF LogFits, Tabled
<1>4. /\ Shaped(v) /\ v.trail = Append(w.trail, e)
      /\ v.categories = w.categories /\ v.merchants = w.merchants /\ v.rules = rs
      /\ v.budgets = w.budgets /\ v.family = w.family
  <2>1. Writes(Audited([w EXCEPT !.rules = rs], e), w, e, w.categories, w.merchants, rs, w.budgets, w.family)
    BY <1>3, RulesWritten
  <2>. QED  BY <1>1, <2>1 DEF Writes
<1>5. /\ Sequence(rs) /\ DOMAIN rs = DOMAIN w.rules \cup {n} /\ n \notin DOMAIN w.rules
      /\ rs[n] = row /\ \A i \in DOMAIN w.rules : rs[i] = w.rules[i]
  <2>1. PICK s : s = w.rules
    OBVIOUS
  <2>2. Extends(Append(s, row), s, row)
    BY <1>3, <2>1, AppendExtends DEF Tabled
  <2>. QED  BY <2>1, <2>2 DEF Extends
<1>6. Tabled(v)
  <2>1. Sequence(v.trail)
    BY <1>3, <1>4, TrailIsSequence
  <2>2. Sequence(v.categories) /\ Sequence(v.merchants) /\ Sequence(v.rules)
    BY <1>3, <1>4, <1>5 DEF Tabled
  <2>3. \A i \in DOMAIN v.merchants :
          v.merchants[i] = Merchant(v.merchants[i].name, v.merchants[i].kind, v.merchants[i].bound)
    BY <1>3, <1>4, <1>5 DEF Tabled
  <2>4. \A i \in DOMAIN v.rules : RuleRow(v.rules[i])
    BY <1>3, <1>4, <1>5 DEF Tabled
  <2>5. v.budgets = [m \in Months |-> v.budgets[m]] /\ \A m \in Months : BudgetRow(v.budgets[m])
    BY <1>3, <1>4 DEF Tabled
  <2>6. v.family = [zone |-> v.family.zone, currency |-> v.family.currency]
    BY <1>3, <1>4 DEF Tabled
  <2>. QED  BY <1>4, <2>1, <2>2, <2>3, <2>4, <2>5, <2>6 DEF Tabled
<1>7. \A y : Exists(w, y) => Exists(v, y)
  <2>1. /\ \A i \in DOMAIN w.categories : i \in DOMAIN v.categories
        /\ \A i \in DOMAIN w.merchants : i \in DOMAIN v.merchants
        /\ \A i \in DOMAIN w.rules : i \in DOMAIN v.rules
    BY <1>4, <1>5
  <2>. QED  BY <2>1, ExistsStill, Zenon
<1>8. Exists(v, e.entity) /\ ~Exists(w, e.entity)
  <2>1. n \in DOMAIN v.rules
    BY <1>4, <1>5
  <2>. QED  BY <1>2, <1>5, <2>1, EntitiesDiffer DEF Exists
<1>9. Mentioned(v)
  <2>1. v.trail = Append(w.trail, e)
    BY <1>4
  <2>2. \A i \in DOMAIN v.rules : i \in DOMAIN w.rules \/ e.entity = RuleAt(i)
    BY <1>2, <1>4, <1>5
  <2>. QED  BY <1>3, <1>4, <1>7, <1>8, <2>1, <2>2, MentionGrows
<1>10. Present(v, e.entity) = row
  <2>1. Present(v, RuleAt(n)) = v.rules[n]
    BY PresentRule
  <2>. QED  BY <1>2, <1>4, <1>5, <2>1
<1>11. \A y : y # e.entity /\ Exists(w, y) => Present(v, y) = Present(w, y)
  <2>1. PICK x : x = e.entity
    OBVIOUS
  <2>2. Elsewhere(v, w, x)
    BY <1>2, <1>4, <1>5, <2>1 DEF Elsewhere
  <2>3. \A y : y # x /\ Exists(w, y) => Present(v, y) = Present(w, y)
    <3>1. Alters(v, w, e, x)
      BY <1>3, <1>4, <2>1, <2>2 DEF Alters
    <3>. QED  BY <3>1, PresentElsewhere
  <2>. QED  BY <2>1, <2>3
<1>. QED
  <2>1. v.trail = Append(w.trail, e)
    BY <1>4
  <2>2. ~InLog(w.trail, e.entity)
    BY <1>8, Unheard
  <2>3. DOMAIN e.before = {}
    BY <1>2, EmptyTuple
  <2>4. row = [f \in {"keyword", "category", "merchant", "live"} |-> row[f]]
    BY DEF RuleRow
  <2>5. e.entity # Settings
    BY <1>2, EntitiesDiffer
  <2>. QED  BY <1>2, <1>6, <1>9, <1>10, <1>11, <2>1, <2>2, <2>3, <2>4, <2>5, NewsLogged

LEMMA MerchantLogged ==
  ASSUME NEW w, LogFits(w), NEW row, row = Merchant(row.name, row.kind, row.bound), NEW key,
         NEW n, n = Len(w.merchants) + 1, NEW ms, ms = Append(w.merchants, row),
         NEW v, v = Audited([w EXCEPT !.merchants = ms], Told(MerchantAt(n), key, <<>>, row))
  PROVE  LogFits(v)
<1>1. PICK e : e = Told(MerchantAt(n), key, <<>>, row)
  OBVIOUS
<1>2. e.entity = MerchantAt(n) /\ e.before = <<>> /\ e.after = row
  BY <1>1, ToldFields
<1>3. Tabled(w) /\ Mentioned(w) /\ Shaped(w)
  BY DEF LogFits, Tabled
<1>4. /\ Shaped(v) /\ v.trail = Append(w.trail, e)
      /\ v.categories = w.categories /\ v.merchants = ms /\ v.rules = w.rules
      /\ v.budgets = w.budgets /\ v.family = w.family
  <2>1. Writes(Audited([w EXCEPT !.merchants = ms], e), w, e, w.categories, ms, w.rules, w.budgets, w.family)
    BY <1>3, MerchantsWritten
  <2>. QED  BY <1>1, <2>1 DEF Writes
<1>5. /\ Sequence(ms) /\ DOMAIN ms = DOMAIN w.merchants \cup {n} /\ n \notin DOMAIN w.merchants
      /\ ms[n] = row /\ \A i \in DOMAIN w.merchants : ms[i] = w.merchants[i]
  <2>1. PICK s : s = w.merchants
    OBVIOUS
  <2>2. Extends(Append(s, row), s, row)
    BY <1>3, <2>1, AppendExtends DEF Tabled
  <2>. QED  BY <2>1, <2>2 DEF Extends
<1>6. Tabled(v)
  <2>1. Sequence(v.trail)
    BY <1>3, <1>4, TrailIsSequence
  <2>2. Sequence(v.categories) /\ Sequence(v.merchants) /\ Sequence(v.rules)
    BY <1>3, <1>4, <1>5 DEF Tabled
  <2>3. \A i \in DOMAIN v.merchants :
          v.merchants[i] = Merchant(v.merchants[i].name, v.merchants[i].kind, v.merchants[i].bound)
    <3>1. PICK t, u : t = w.merchants /\ u = v.merchants
      OBVIOUS
    <3>2. \A i \in DOMAIN t : t[i] = Merchant(t[i].name, t[i].kind, t[i].bound)
      BY <1>3, <3>1 DEF Tabled
    <3>3. \A i \in DOMAIN u : u[i] = row \/ (i \in DOMAIN t /\ u[i] = t[i])
      BY <1>4, <1>5, <3>1
    <3>. QED  BY <3>1, <3>2, <3>3
  <2>4. \A i \in DOMAIN v.rules : RuleRow(v.rules[i])
    BY <1>3, <1>4, <1>5 DEF Tabled
  <2>5. v.budgets = [m \in Months |-> v.budgets[m]] /\ \A m \in Months : BudgetRow(v.budgets[m])
    BY <1>3, <1>4 DEF Tabled
  <2>6. v.family = [zone |-> v.family.zone, currency |-> v.family.currency]
    BY <1>3, <1>4 DEF Tabled
  <2>. QED  BY <1>4, <2>1, <2>2, <2>3, <2>4, <2>5, <2>6 DEF Tabled
<1>7. \A y : Exists(w, y) => Exists(v, y)
  <2>1. /\ \A i \in DOMAIN w.categories : i \in DOMAIN v.categories
        /\ \A i \in DOMAIN w.merchants : i \in DOMAIN v.merchants
        /\ \A i \in DOMAIN w.rules : i \in DOMAIN v.rules
    BY <1>4, <1>5
  <2>. QED  BY <2>1, ExistsStill, Zenon
<1>8. Exists(v, e.entity) /\ ~Exists(w, e.entity)
  <2>1. n \in DOMAIN v.merchants
    BY <1>4, <1>5
  <2>. QED  BY <1>2, <1>5, <2>1, EntitiesDiffer DEF Exists
<1>9. Mentioned(v)
  <2>1. v.trail = Append(w.trail, e)
    BY <1>4
  <2>2. \A i \in DOMAIN v.merchants : i \in DOMAIN w.merchants \/ e.entity = MerchantAt(i)
    BY <1>2, <1>4, <1>5
  <2>. QED  BY <1>3, <1>4, <1>7, <1>8, <2>1, <2>2, MentionGrows
<1>10. Present(v, e.entity) = row
  <2>1. Present(v, MerchantAt(n)) = v.merchants[n]
    BY PresentMerchant
  <2>. QED  BY <1>2, <1>4, <1>5, <2>1
<1>11. \A y : y # e.entity /\ Exists(w, y) => Present(v, y) = Present(w, y)
  <2>1. PICK x : x = e.entity
    OBVIOUS
  <2>2. Elsewhere(v, w, x)
    BY <1>2, <1>4, <1>5, <2>1 DEF Elsewhere
  <2>3. \A y : y # x /\ Exists(w, y) => Present(v, y) = Present(w, y)
    <3>1. Alters(v, w, e, x)
      BY <1>3, <1>4, <2>1, <2>2 DEF Alters
    <3>. QED  BY <3>1, PresentElsewhere
  <2>. QED  BY <2>1, <2>3
<1>. QED
  <2>1. v.trail = Append(w.trail, e)
    BY <1>4
  <2>2. ~InLog(w.trail, e.entity)
    BY <1>8, Unheard
  <2>3. DOMAIN e.before = {}
    BY <1>2, EmptyTuple
  <2>4. row = [f \in {"name", "kind", "bound"} |-> row[f]]
    BY DEF Merchant
  <2>5. e.entity # Settings
    BY <1>2, EntitiesDiffer
  <2>. QED  BY <1>2, <1>6, <1>9, <1>10, <1>11, <2>1, <2>2, <2>3, <2>4, <2>5, NewsLogged

\* An entry tells of a change what is to be told.
Tells(w, v, e) ==
  \/ /\ ~InLog(w.trail, e.entity) /\ DOMAIN e.before = {}
     /\ \E D : e.after = [f \in D |-> e.after[f]]
     /\ Present(v, e.entity) = e.after
  \/ /\ InLog(w.trail, e.entity)
     /\ \A f \in DOMAIN e.before :
          f \in DOMAIN Present(w, e.entity) /\ e.before[f] = Present(w, e.entity)[f]
     /\ Present(v, e.entity) = Over(e.after, Present(w, e.entity))

\* No entity comes, and but for one they are as they were.
Touches(w, v, e) ==
  /\ v.trail = Append(w.trail, e) /\ v.categories = w.categories
  /\ DOMAIN v.merchants = DOMAIN w.merchants /\ DOMAIN v.rules = DOMAIN w.rules
  /\ \A m \in Months : v.budgets[m] # NoBudget => w.budgets[m] # NoBudget \/ e.entity = BudgetAt(m)
  /\ e.entity # Settings /\ Exists(v, e.entity) /\ Elsewhere(v, w, e.entity)

LEMMA ChangeLogged ==
  ASSUME NEW w, LogFits(w), NEW v, NEW e, Tabled(v), Touches(w, v, e), Tells(w, v, e)
  PROVE  LogFits(v)
<1>1. \A y : Exists(w, y) => Exists(v, y)
  <2>1. /\ \A n \in DOMAIN w.categories : n \in DOMAIN v.categories
        /\ \A n \in DOMAIN w.merchants : n \in DOMAIN v.merchants
        /\ \A n \in DOMAIN w.rules : n \in DOMAIN v.rules
    BY DEF Touches
  <2>. QED  BY <2>1, ExistsStill, Zenon
<1>2. Mentioned(v) /\ v.trail = Append(w.trail, e) /\ e.entity # Settings
  <2>1. /\ v.trail = Append(w.trail, e) /\ Exists(v, e.entity)
        /\ \A n \in DOMAIN v.merchants : n \in DOMAIN w.merchants \/ e.entity = MerchantAt(n)
        /\ \A n \in DOMAIN v.rules : n \in DOMAIN w.rules \/ e.entity = RuleAt(n)
        /\ \A m \in Months : v.budgets[m] # NoBudget => w.budgets[m] # NoBudget \/ e.entity = BudgetAt(m)
    BY DEF Touches
  <2>2. Tabled(w) /\ Mentioned(w)
    BY DEF LogFits
  <2>. QED  BY <1>1, <2>1, <2>2, MentionGrows DEF Touches
<1>3. \A y : y # e.entity /\ Exists(w, y) => Present(v, y) = Present(w, y)
  <2>1. PICK x : x = e.entity
    OBVIOUS
  <2>2. Tabled(w) /\ v.trail = Append(w.trail, e) /\ Elsewhere(v, w, x)
    BY <2>1 DEF Touches, LogFits
  <2>3. \A y : y # x /\ Exists(w, y) => Present(v, y) = Present(w, y)
    <3>1. Alters(v, w, e, x)
      BY <2>1, <2>2 DEF Alters
    <3>. QED  BY <3>1, PresentElsewhere
  <2>. QED  BY <2>1, <2>3
<1>4. CASE /\ ~InLog(w.trail, e.entity) /\ DOMAIN e.before = {}
           /\ \E D : e.after = [f \in D |-> e.after[f]]
           /\ Present(v, e.entity) = e.after
  <2>1. PICK D : e.after = [f \in D |-> e.after[f]]
    BY <1>4
  <2>. QED  BY <1>2, <1>3, <1>4, <2>1, NewsLogged
<1>5. CASE /\ InLog(w.trail, e.entity)
           /\ \A f \in DOMAIN e.before :
                f \in DOMAIN Present(w, e.entity) /\ e.before[f] = Present(w, e.entity)[f]
           /\ Present(v, e.entity) = Over(e.after, Present(w, e.entity))
  <2>1. PICK p : p = Present(w, e.entity)
    OBVIOUS
  <2>. QED  BY <1>2, <1>3, <1>5, <2>1, KnownLogged
<1>. QED  BY <1>4, <1>5 DEF Tells

LEMMA MerchantKindLogged ==
  ASSUME NEW w, LogFits(w), NEW key, NEW n \in DOMAIN w.merchants, NEW kind, NEW p, p = w.merchants[n],
         NEW q, q = [p EXCEPT !.kind = kind], NEW ms, ms = [w.merchants EXCEPT ![n] = q],
         NEW v, v = Audited([w EXCEPT !.merchants = ms], Told(MerchantAt(n), key, p, q))
  PROVE  LogFits(v)
<1>1. PICK e : e = Told(MerchantAt(n), key, p, q)
  OBVIOUS
<1>2. e.entity = MerchantAt(n) /\ e.before = p /\ e.after = q
  BY <1>1, ToldFields
<1>3. Tabled(w) /\ Mentioned(w) /\ Shaped(w)
  BY DEF LogFits, Tabled
<1>4. /\ Shaped(v) /\ v.trail = Append(w.trail, e)
      /\ v.categories = w.categories /\ v.merchants = ms /\ v.rules = w.rules
      /\ v.budgets = w.budgets /\ v.family = w.family
  <2>1. Writes(Audited([w EXCEPT !.merchants = ms], e), w, e, w.categories, ms, w.rules, w.budgets, w.family)
    BY <1>3, MerchantsWritten
  <2>. QED  BY <1>1, <2>1 DEF Writes
<1>5. /\ Sequence(ms) /\ DOMAIN ms = DOMAIN w.merchants /\ ms[n] = q
      /\ \A i \in DOMAIN ms : i = n \/ ms[i] = w.merchants[i]
  <2>1. PICK s : s = w.merchants
    OBVIOUS
  <2>2. PICK S : s \in Seq(S)
    BY <1>3, <2>1 DEF Tabled, Sequence
  <2>3. ms \in Seq(S \cup {q})
    BY <2>1, <2>2
  <2>. QED  BY <2>1, <2>2, <2>3 DEF Sequence
<1>6. /\ p = [name |-> p.name, kind |-> p.kind, bound |-> p.bound]
      /\ q = [name |-> q.name, kind |-> q.kind, bound |-> q.bound]
  <2>1. p = Merchant(p.name, p.kind, p.bound)
    BY <1>3 DEF Tabled
  <2>. QED  BY <2>1 DEF Merchant
<1>7. Tabled(v)
  <2>1. Sequence(v.trail)
    <3>1. v.trail = Append(w.trail, e)
      BY <1>4
    <3>. QED  BY <1>3, <3>1, TrailIsSequence
  <2>2. Sequence(v.categories) /\ Sequence(v.merchants) /\ Sequence(v.rules)
    BY <1>3, <1>4, <1>5 DEF Tabled
  <2>3. \A i \in DOMAIN v.merchants :
          v.merchants[i] = Merchant(v.merchants[i].name, v.merchants[i].kind, v.merchants[i].bound)
    <3>1. q = Merchant(q.name, q.kind, q.bound)
      BY <1>6 DEF Merchant
    <3>2. PICK t, u : t = w.merchants /\ u = v.merchants
      OBVIOUS
    <3>3. \A i \in DOMAIN t : t[i] = Merchant(t[i].name, t[i].kind, t[i].bound)
      BY <1>3, <3>2 DEF Tabled
    <3>4. \A i \in DOMAIN u : u[i] = q \/ (i \in DOMAIN t /\ u[i] = t[i])
      BY <1>4, <1>5, <3>2
    <3>5. ASSUME NEW i \in DOMAIN u PROVE u[i] = Merchant(u[i].name, u[i].kind, u[i].bound)
      <4>1. PICK x : x = u[i]
        OBVIOUS
      <4>2. CASE x = q
        BY <3>1, <4>1, <4>2
      <4>3. CASE i \in DOMAIN t /\ x = t[i]
        BY <3>3, <4>1, <4>3
      <4>. QED  BY <3>4, <4>1, <4>2, <4>3
    <3>. QED  BY <3>2, <3>5
  <2>4. \A i \in DOMAIN v.rules : RuleRow(v.rules[i])
    BY <1>3, <1>4 DEF Tabled
  <2>5. v.budgets = [m \in Months |-> v.budgets[m]] /\ \A m \in Months : BudgetRow(v.budgets[m])
    BY <1>3, <1>4 DEF Tabled
  <2>6. v.family = [zone |-> v.family.zone, currency |-> v.family.currency]
    BY <1>3, <1>4 DEF Tabled
  <2>. QED  BY <1>4, <2>1, <2>2, <2>3, <2>4, <2>5, <2>6 DEF Tabled
<1>8. Exists(v, e.entity)
  <2>1. n \in DOMAIN v.merchants
    BY <1>4, <1>5
  <2>. QED  BY <1>2, <2>1 DEF Exists
<1>9. Elsewhere(v, w, e.entity)
  BY <1>2, <1>4, <1>5 DEF Elsewhere
<1>10. InLog(w.trail, e.entity)
  BY <1>2, <1>3 DEF Mentioned
<1>11. Present(w, e.entity) = p /\ Present(v, e.entity) = q
  <2>1. Present(w, MerchantAt(n)) = w.merchants[n] /\ Present(v, MerchantAt(n)) = v.merchants[n]
    BY PresentMerchant
  <2>. QED  BY <1>2, <1>4, <1>5, <2>1
<1>12. q = Over(e.after, p)
  <2>1. q = [f \in {"name", "kind", "bound"} |-> q[f]] /\ DOMAIN p = {"name", "kind", "bound"}
    BY <1>6
  <2>2. Over(q, p) = q
    BY <2>1, OverSame
  <2>. QED  BY <1>2, <2>2
<1>13. Tells(w, v, e)
  BY <1>2, <1>10, <1>11, <1>12 DEF Tells
<1>14. Touches(w, v, e)
  BY <1>2, <1>4, <1>5, <1>8, <1>9, EntitiesDiffer DEF Touches
<1>. QED  BY <1>7, <1>13, <1>14, ChangeLogged

LEMMA DropLogged ==
  ASSUME NEW w, LogFits(w), NEW key, NEW n \in DOMAIN w.rules, NEW p, p = w.rules[n],
         NEW q, q = [p EXCEPT !.live = FALSE], NEW rs, rs = [w.rules EXCEPT ![n] = q],
         NEW after, after = [live |-> FALSE],
         NEW v, v = Audited([w EXCEPT !.rules = rs], Told(RuleAt(n), key, p, after))
  PROVE  LogFits(v)
<1>1. PICK e : e = Told(RuleAt(n), key, p, after)
  OBVIOUS
<1>2. e.entity = RuleAt(n) /\ e.before = p /\ e.after = after
  BY <1>1, ToldFields
<1>3. Tabled(w) /\ Mentioned(w) /\ Shaped(w)
  BY DEF LogFits, Tabled
<1>4. /\ Shaped(v) /\ v.trail = Append(w.trail, e)
      /\ v.categories = w.categories /\ v.merchants = w.merchants /\ v.rules = rs
      /\ v.budgets = w.budgets /\ v.family = w.family
  <2>1. Writes(Audited([w EXCEPT !.rules = rs], e), w, e, w.categories, w.merchants, rs, w.budgets, w.family)
    BY <1>3, RulesWritten
  <2>. QED  BY <1>1, <2>1 DEF Writes
<1>5. /\ Sequence(rs) /\ DOMAIN rs = DOMAIN w.rules /\ rs[n] = q
      /\ \A i \in DOMAIN rs : i = n \/ rs[i] = w.rules[i]
  <2>1. PICK s : s = w.rules
    OBVIOUS
  <2>2. PICK S : s \in Seq(S)
    BY <1>3, <2>1 DEF Tabled, Sequence
  <2>3. rs \in Seq(S \cup {q})
    BY <2>1, <2>2
  <2>. QED  BY <2>1, <2>2, <2>3 DEF Sequence
<1>6. /\ p = [keyword |-> p.keyword, category |-> p.category, merchant |-> p.merchant, live |-> p.live]
      /\ RuleRow(q)
  <2>1. RuleRow(p)
    BY <1>3 DEF Tabled
  <2>. QED  BY <2>1 DEF RuleRow
<1>7. Tabled(v)
  <2>1. Sequence(v.trail)
    <3>1. v.trail = Append(w.trail, e)
      BY <1>4
    <3>. QED  BY <1>3, <3>1, TrailIsSequence
  <2>2. Sequence(v.categories) /\ Sequence(v.merchants) /\ Sequence(v.rules)
    BY <1>3, <1>4, <1>5 DEF Tabled
  <2>3. \A i \in DOMAIN v.merchants :
          v.merchants[i] = Merchant(v.merchants[i].name, v.merchants[i].kind, v.merchants[i].bound)
    <3>1. PICK t : t = w.merchants
      OBVIOUS
    <3>2. \A i \in DOMAIN t : t[i] = Merchant(t[i].name, t[i].kind, t[i].bound)
      BY <1>3, <3>1 DEF Tabled
    <3>. QED  BY <1>4, <3>1, <3>2
  <2>4. \A i \in DOMAIN v.rules : RuleRow(v.rules[i])
    <3>1. \A i \in DOMAIN w.rules : RuleRow(w.rules[i])
      BY <1>3 DEF Tabled
    <3>. QED  BY <1>4, <1>5, <1>6, <3>1
  <2>5. v.budgets = [m \in Months |-> v.budgets[m]] /\ \A m \in Months : BudgetRow(v.budgets[m])
    BY <1>3, <1>4 DEF Tabled
  <2>6. v.family = [zone |-> v.family.zone, currency |-> v.family.currency]
    BY <1>3, <1>4 DEF Tabled
  <2>. QED  BY <1>4, <2>1, <2>2, <2>3, <2>4, <2>5, <2>6 DEF Tabled
<1>8. Exists(v, e.entity)
  <2>1. n \in DOMAIN v.rules
    BY <1>4, <1>5
  <2>. QED  BY <1>2, <2>1 DEF Exists
<1>9. Elsewhere(v, w, e.entity)
  BY <1>2, <1>4, <1>5 DEF Elsewhere
<1>10. InLog(w.trail, e.entity)
  BY <1>2, <1>3 DEF Mentioned
<1>11. Present(w, e.entity) = p /\ Present(v, e.entity) = q
  <2>1. Present(w, RuleAt(n)) = w.rules[n] /\ Present(v, RuleAt(n)) = v.rules[n]
    BY PresentRule
  <2>. QED  BY <1>2, <1>4, <1>5, <2>1
<1>12. q = Over(e.after, p)
  <2>1. Over(after, p) = [f \in {"keyword", "category", "merchant", "live"} |-> IF f = "live" THEN FALSE ELSE p[f]]
    <3>1. DOMAIN after = {"live"} /\ after["live"] = FALSE /\ DOMAIN p = {"keyword", "category", "merchant", "live"}
      BY <1>6
    <3>2. DOMAIN after \cup DOMAIN p = {"keyword", "category", "merchant", "live"}
      BY <3>1
    <3>3. Over(after, p) =
            [f \in {"keyword", "category", "merchant", "live"} |-> IF f \in DOMAIN after THEN after[f] ELSE p[f]]
      BY <3>2 DEF Over
    <3>. QED  BY <3>1, <3>3
  <2>2. q = [f \in {"keyword", "category", "merchant", "live"} |-> IF f = "live" THEN FALSE ELSE p[f]]
    BY <1>6
  <2>. QED  BY <1>2, <2>1, <2>2
<1>13. Tells(w, v, e)
  BY <1>2, <1>10, <1>11, <1>12 DEF Tells
<1>14. Touches(w, v, e)
  BY <1>2, <1>4, <1>5, <1>8, <1>9, EntitiesDiffer DEF Touches
<1>. QED  BY <1>7, <1>13, <1>14, ChangeLogged

\* A budget changes: what is logged is all of it but its currency, or its being
\* archived; what was is logged in part.
Rewrites(p, q, before, after) ==
  \/ /\ after = Budgeted(q)
     /\ IF p = NoBudget THEN before = <<>>
        ELSE \A f \in DOMAIN before : f \in BudgetFields /\ before[f] = p[f]
  \/ /\ p # NoBudget /\ ~p.archived /\ q = [p EXCEPT !.archived = TRUE]
     /\ before = [archived |-> FALSE] /\ after = [archived |-> TRUE]

LEMMA BudgetLogged ==
  ASSUME NEW w, LogFits(w), NEW m \in Months, NEW p, p = w.budgets[m],
         NEW q, BudgetRow(q), NEW bs, bs = [w.budgets EXCEPT ![m] = q], NEW before, NEW after,
         Rewrites(p, q, before, after), NEW e, e.entity = BudgetAt(m), e.before = before, e.after = after,
         NEW v, v = Audited([w EXCEPT !.budgets = bs], e)
  PROVE  LogFits(v)
<1>3. Tabled(w) /\ Mentioned(w) /\ Shaped(w)
  BY DEF LogFits, Tabled
<1>4. /\ Shaped(v) /\ v.trail = Append(w.trail, e)
      /\ v.categories = w.categories /\ v.merchants = w.merchants /\ v.rules = w.rules
      /\ v.budgets = bs /\ v.family = w.family
  <2>1. Writes(Audited([w EXCEPT !.budgets = bs], e), w, e, w.categories, w.merchants, w.rules, bs, w.family)
    BY <1>3, BudgetsWritten
  <2>. QED  BY <2>1 DEF Writes
<1>5. /\ bs = [k \in Months |-> bs[k]] /\ bs[m] = q
      /\ \A k \in Months : k = m \/ bs[k] = w.budgets[k]
  <2>1. PICK s : s = w.budgets
    OBVIOUS
  <2>2. s = [k \in Months |-> s[k]]
    BY <1>3, <2>1 DEF Tabled
  <2>3. bs = [k \in Months |-> IF k = m THEN q ELSE s[k]]
    BY <2>1, <2>2
  <2>. QED  BY <2>1, <2>3
<1>6. BudgetRow(p)
  BY <1>3 DEF Tabled
<1>7. Tabled(v)
  <2>1. Sequence(v.trail)
    <3>1. v.trail = Append(w.trail, e)
      BY <1>4
    <3>. QED  BY <1>3, <3>1, TrailIsSequence
  <2>2. Sequence(v.categories) /\ Sequence(v.merchants) /\ Sequence(v.rules)
    BY <1>3, <1>4 DEF Tabled
  <2>3. \A i \in DOMAIN v.merchants :
          v.merchants[i] = Merchant(v.merchants[i].name, v.merchants[i].kind, v.merchants[i].bound)
    BY <1>3, <1>4 DEF Tabled
  <2>4. \A i \in DOMAIN v.rules : RuleRow(v.rules[i])
    BY <1>3, <1>4 DEF Tabled
  <2>5. v.budgets = [k \in Months |-> v.budgets[k]] /\ \A k \in Months : BudgetRow(v.budgets[k])
    <3>1. \A k \in Months : BudgetRow(w.budgets[k])
      BY <1>3 DEF Tabled
    <3>. QED  BY <1>4, <1>5, <3>1
  <2>6. v.family = [zone |-> v.family.zone, currency |-> v.family.currency]
    BY <1>3, <1>4 DEF Tabled
  <2>. QED  BY <1>4, <2>1, <2>2, <2>3, <2>4, <2>5, <2>6 DEF Tabled
<1>8. Exists(v, e.entity)
  BY DEF Exists
<1>9. Elsewhere(v, w, e.entity)
  BY <1>4, <1>5 DEF Elsewhere
<1>1. PICK bp, bq : bp = Budgeted(p) /\ bq = Budgeted(q)
  OBVIOUS
<1>10. Present(w, e.entity) = bp /\ Present(v, e.entity) = bq
  <2>1. Present(w, BudgetAt(m)) = Budgeted(w.budgets[m]) /\ Present(v, BudgetAt(m)) = Budgeted(v.budgets[m])
    BY PresentBudget
  <2>. QED  BY <1>1, <1>4, <1>5, <2>1
<1>11. /\ bq = [f \in BudgetFields |-> bq[f]] /\ DOMAIN bp = BudgetFields
       /\ \A f \in BudgetFields : bp[f] = p[f] /\ bq[f] = q[f]
  BY <1>1 DEF Budgeted
<1>12. InLog(w.trail, e.entity) =>
         /\ \A f \in DOMAIN e.before :
              f \in DOMAIN Present(w, e.entity) /\ e.before[f] = Present(w, e.entity)[f]
         /\ Present(v, e.entity) = Over(e.after, Present(w, e.entity))
  <2>1. CASE /\ after = Budgeted(q)
             /\ IF p = NoBudget THEN before = <<>>
                ELSE \A f \in DOMAIN before : f \in BudgetFields /\ before[f] = p[f]
    <3>1. Over(bq, bp) = bq
      BY <1>11, OverSame
    <3>2. \A f \in DOMAIN before : f \in DOMAIN bp /\ before[f] = bp[f]
      BY <1>11, <2>1, EmptyTuple
    <3>. QED  BY <1>1, <1>10, <2>1, <3>1, <3>2
  <2>2. CASE /\ p # NoBudget /\ ~p.archived /\ q = [p EXCEPT !.archived = TRUE]
             /\ before = [archived |-> FALSE] /\ after = [archived |-> TRUE]
    <3>1. p.archived = FALSE
      BY <1>6, <2>2 DEF BudgetRow
    <3>0. "archived" \in BudgetFields
      BY DEF BudgetFields
    <3>2. \A f \in DOMAIN before : f \in DOMAIN bp /\ before[f] = bp[f]
      <4>1. DOMAIN before = {"archived"} /\ before["archived"] = FALSE
        BY <2>2
      <4>. QED  BY <1>11, <3>0, <3>1, <4>1
    <3>3. Over(after, bp) = [f \in BudgetFields |-> IF f = "archived" THEN TRUE ELSE bp[f]]
      <4>1. DOMAIN after = {"archived"} /\ after["archived"] = TRUE
        BY <2>2
      <4>2. DOMAIN after \cup DOMAIN bp = BudgetFields
        BY <1>11, <3>0, <4>1
      <4>3. Over(after, bp) = [f \in BudgetFields |-> IF f \in DOMAIN after THEN after[f] ELSE bp[f]]
        BY <4>2 DEF Over
      <4>. QED  BY <4>1, <4>3
    <3>4. \A f \in BudgetFields : q[f] = IF f = "archived" THEN TRUE ELSE p[f]
      BY <1>6, <2>2 DEF BudgetRow, BudgetFields
    <3>5. bq = [f \in BudgetFields |-> IF f = "archived" THEN TRUE ELSE bp[f]]
      BY <1>11, <3>4
    <3>. QED  BY <1>10, <2>2, <3>2, <3>3, <3>5
  <2>. QED  BY <2>1, <2>2 DEF Rewrites
<1>13. ~InLog(w.trail, e.entity) =>
         /\ DOMAIN e.before = {}
         /\ \E D : e.after = [f \in D |-> e.after[f]]
         /\ Present(v, e.entity) = e.after
  <2>1. ~InLog(w.trail, e.entity) => p = NoBudget
    BY <1>3 DEF Mentioned
  <2>2. p = NoBudget => after = bq /\ DOMAIN before = {}
    BY <1>1, EmptyTuple DEF Rewrites
  <2>. QED  BY <1>10, <1>11, <2>1, <2>2
<1>14. Tells(w, v, e)
  BY <1>12, <1>13 DEF Tells
<1>15. Touches(w, v, e)
  <2>1. \A k \in Months : v.budgets[k] # NoBudget => w.budgets[k] # NoBudget \/ e.entity = BudgetAt(k)
    BY <1>4, <1>5
  <2>. QED  BY <1>4, <1>8, <1>9, <2>1, EntitiesDiffer DEF Touches
<1>. QED  BY <1>7, <1>14, <1>15, ChangeLogged

\* A preference of the family is set, and logged with the one that it replaces.
LEMMA SettingLogged ==
  ASSUME NEW w, LogFits(w), NEW F, NEW new, new = [zone |-> new.zone, currency |-> new.currency],
         F \in SUBSET FamilyFields, \A f \in FamilyFields : f \notin F => new[f] = w.family[f],
         NEW e, e.entity = Settings,
         NEW before, before = e.before, DOMAIN before = F, \A f \in F : before[f] = w.family[f],
         NEW after, after = e.after, DOMAIN after = F, \A f \in F : after[f] = new[f],
         NEW v, Writes(v, w, e, w.categories, w.merchants, w.rules, w.budgets, new)
  PROVE  LogFits(v)
<1>1. PICK s, told : s = w.trail /\ told = Telling(w.trail, Settings)
  OBVIOUS
<1>3. Tabled(w) /\ Mentioned(w) /\ Shaped(w)
  BY DEF LogFits, Tabled
<1>4. /\ Shaped(v) /\ v.trail = Append(s, e)
      /\ v.categories = w.categories /\ v.merchants = w.merchants /\ v.rules = w.rules
      /\ v.budgets = w.budgets /\ v.family = new
  BY <1>1 DEF Writes
<1>5. Tabled(v)
  <2>1. Sequence(v.trail)
    <3>1. Tabled(w) /\ v.trail = Append(w.trail, e)
      BY <1>1, <1>3, <1>4
    <3>. QED  BY <3>1, TrailIsSequence
  <2>2. v.family = [zone |-> v.family.zone, currency |-> v.family.currency]
    BY <1>4
  <2>. QED  BY <1>3, <1>4, <2>1, <2>2 DEF Tabled
<1>6. Exists(v, e.entity)
  BY DEF Exists
<1>7. Elsewhere(v, w, e.entity)
  BY <1>4 DEF Elsewhere
<1>8. Mentioned(v)
  <2>1. \A y : Exists(w, y) => Exists(v, y)
    BY <1>4 DEF Exists
  <2>2. v.trail = Append(w.trail, e)
    BY <1>1, <1>4
  <2>. QED  BY <1>3, <1>4, <1>6, <2>1, <2>2, MentionGrows
<1>9. \A f \in DOMAIN told : told[f] = w.family[f]
  <2>1. CASE InLog(w.trail, Settings)
    <3>1. told = Present(w, Settings)
      BY <1>1, <2>1 DEF LogFits, InLog
    <3>2. told = [f \in DOMAIN told |-> w.family[f]]
      BY <1>1, <3>1, PresentSettings
    <3>. QED  BY <3>2
  <2>2. CASE ~InLog(w.trail, Settings)
    BY <1>1, <2>2, NothingTold
  <2>. QED  BY <2>1, <2>2
<1>10. Explains(w.trail, e)
  BY <1>1, <1>9 DEF Explains
<1>11. DOMAIN told \in SUBSET FamilyFields
  <2>1. \A f : Tellers(s, Settings, f) # {} => f \in FamilyFields
    BY <1>1 DEF LogFits, Tellers
  <2>2. DOMAIN told = FieldsTold(s, Settings) /\ \A f : f \in FieldsTold(s, Settings) <=> Tellers(s, Settings, f) # {}
    BY <1>1, TellingIs
  <2>. QED  BY <2>1, <2>2
<1>12. Present(v, Settings) = Over(after, told)
  <2>1. Telling(v.trail, Settings) = Over(after, told)
    <3>1. PICK S : s \in Seq(S)
      BY <1>1, <1>3 DEF Tabled, Sequence
    <3>2. Telling(Append(s, e), Settings) = Over(e.after, Telling(s, Settings))
      BY <3>1, TellsOnTop
    <3>. QED  BY <1>1, <1>4, <3>2
  <2>2. DOMAIN after = F /\ \A f \in F : after[f] = new[f]
    OBVIOUS
  <2>3. Over(after, told) = [f \in F \cup DOMAIN told |-> IF f \in F THEN after[f] ELSE told[f]]
    BY <2>2 DEF Over
  <2>4. \A f \in F \cup DOMAIN told : (IF f \in F THEN after[f] ELSE told[f]) = new[f]
    BY <1>9, <1>11, <2>2
  <2>5. Over(after, told) = [f \in F \cup DOMAIN told |-> new[f]] /\ DOMAIN Over(after, told) = F \cup DOMAIN told
    BY <2>3, <2>4
  <2>6. PICK all : all = F \cup DOMAIN told
    OBVIOUS
  <2>7. Present(v, Settings) = [f \in DOMAIN Telling(v.trail, Settings) |-> v.family[f]]
    BY PresentSettings
  <2>8. DOMAIN Telling(v.trail, Settings) = all
    BY <2>1, <2>5, <2>6
  <2>9. Present(v, Settings) = [f \in all |-> new[f]]
    BY <1>4, <2>7, <2>8
  <2>. QED  BY <2>5, <2>6, <2>9
<1>13. \A y : y # e.entity /\ Exists(w, y) => Present(v, y) = Present(w, y)
  <2>1. PICK x : x = e.entity
    OBVIOUS
  <2>2. Tabled(w) /\ v.trail = Append(w.trail, e) /\ Elsewhere(v, w, x)
    BY <1>1, <1>3, <1>4, <1>7, <2>1
  <2>3. \A y : y # x /\ Exists(w, y) => Present(v, y) = Present(w, y)
    <3>1. Alters(v, w, e, x)
      BY <2>1, <2>2 DEF Alters
    <3>. QED  BY <3>1, PresentElsewhere
  <2>. QED  BY <2>1, <2>3
<1>14. v.trail = Append(w.trail, e) /\ Present(v, e.entity) = Over(e.after, Telling(w.trail, e.entity))
  BY <1>1, <1>4, <1>12
<1>15. DOMAIN e.after \in SUBSET FamilyFields
  OBVIOUS
<1>. QED  BY <1>5, <1>8, <1>10, <1>13, <1>14, <1>15, LogGrows

\* Rows and answers are not in the log.
LEMMA LogStays ==
  ASSUME NEW w, LogFits(w), NEW v, Shaped(v), v.trail = w.trail, v.categories = w.categories,
         v.merchants = w.merchants, v.rules = w.rules, v.budgets = w.budgets, v.family = w.family
  PROVE  LogFits(v)
<1>1. Tabled(v)
  BY DEF LogFits, Tabled
<1>2. \A y : Exists(v, y) <=> Exists(w, y)
  BY DEF Exists
<1>3. Mentioned(v)
  BY <1>2 DEF LogFits, Mentioned
<1>4. \A y : Present(v, y) = Present(w, y)
  BY Zenon DEF Present
<1>. QED  BY <1>1, <1>3, <1>4 DEF LogFits, Mentioned

-----------------------------------------------------------------------------
(* What a request does to the log.                                         *)

LEMMA AddCategoryLogged ==
  ASSUME NEW w, LogFits(w), NEW call, NEW v, v = AddCategory(w, call)
  PROVE  LogFits(v)
<1>1. PICK row : row = Category(call.name, call.type, "family", FALSE, call.parent)
  OBVIOUS
<1>2. row = [f \in {"name", "type", "owner", "bound", "parent"} |-> row[f]]
  BY <1>1 DEF Category
<1>3. PICK n, cs : n = Len(w.categories) + 1 /\ cs = Append(w.categories, row)
  OBVIOUS
<1>4. v = Audited([w EXCEPT !.categories = cs], Told(CategoryAt(n), call.key, <<>>, row))
  BY <1>1, <1>3 DEF AddCategory, CategoryAt
<1>. QED  BY <1>2, <1>3, <1>4, CategoryLogged

LEMMA AddMerchantLogged ==
  ASSUME NEW w, LogFits(w), NEW call, NEW v, v = AddMerchant(w, call)
  PROVE  LogFits(v)
<1>1. PICK i, row : i = ContactOf(w, call) /\ row = Merchant(call.name, call.kind, FALSE)
  OBVIOUS
<1>2. CASE i \notin DOMAIN w.merchants
  <2>1. row = Merchant(row.name, row.kind, row.bound)
    BY <1>1 DEF Merchant
  <2>2. i = Len(w.merchants) + 1
    <3>1. PICK t : t = w.merchants
      OBVIOUS
    <3>2. CASE Named(t, call.name) = {}
      BY <1>1, <3>1, <3>2 DEF ContactOf
    <3>3. CASE Named(t, call.name) # {}
      <4>1. PICK S : t \in Seq(S)
        BY <3>1 DEF LogFits, Tabled, Sequence
      <4>2. PICK N : N = Named(t, call.name)
        OBVIOUS
      <4>3. N \in SUBSET (1..Len(t)) /\ Len(t) \in Nat
        BY <4>1, <4>2 DEF Named
      <4>4. N \in SUBSET Nat /\ N # {}
        BY <3>3, <4>2, <4>3
      <4>5. \E m \in N : \A n \in N : m <= n
        BY <4>4, LeastNumber
      <4>6. Min(N) \in N
        BY <4>5 DEF Min
      <4>. QED  BY <1>1, <1>2, <3>1, <3>3, <4>2, <4>6 DEF ContactOf, Named
    <3>. QED  BY <3>2, <3>3
  <2>3. PICK ms : ms = Append(w.merchants, row)
    OBVIOUS
  <2>4. v = Audited([w EXCEPT !.merchants = ms], Told(MerchantAt(i), call.key, <<>>, row))
    BY <1>1, <1>2, <2>3 DEF AddMerchant, MerchantAt
  <2>. QED  BY <2>1, <2>2, <2>3, <2>4, MerchantLogged
<1>3. CASE i \in DOMAIN w.merchants /\ w.merchants[i].kind = call.kind
  BY <1>1, <1>3 DEF AddMerchant
<1>4. CASE i \in DOMAIN w.merchants /\ w.merchants[i].kind # call.kind
  <2>1. PICK kind, p, q, ms : /\ kind = call.kind /\ p = w.merchants[i] /\ q = [p EXCEPT !.kind = kind]
                              /\ ms = [w.merchants EXCEPT ![i] = q]
    OBVIOUS
  <2>2. v = Audited([w EXCEPT !.merchants = ms], Told(MerchantAt(i), call.key, p, q))
    BY <1>1, <1>4, <2>1 DEF AddMerchant, MerchantAt
  <2>. QED  BY <1>4, <2>1, <2>2, MerchantKindLogged
<1>. QED  BY <1>2, <1>3, <1>4

\* What is set and what is logged of the lines is the same.
LEMMA LinesReplaced ==
  ASSUME NEW old, NEW lines, NEW column
  PROVE  Replaced(old, AsLines(lines, column)) = AsLines(lines, column)
<1>1. PICK new, D : new = AsLines(lines, column) /\ D = {lines[i][1] : i \in DOMAIN lines}
  OBVIOUS
<1>2. new = [c \in D |-> new[c]]
  BY <1>1 DEF AsLines
<1>3. DOMAIN new = D
  BY <1>2
<1>. QED  BY <1>1, <1>2, <1>3 DEF Replaced

LEMMA SetLinesLogged ==
  ASSUME NEW w, LogFits(w), NEW call, call.month \in Months, NEW base, NEW v, v = SetLines(w, call, base)
  PROVE  LogFits(v)
<1>1. PICK m, p, name : /\ m = call.month /\ p = w.budgets[m]
                        /\ name = IF call.name = None THEN "default" ELSE call.name
  OBVIOUS
<1>2. PICK amounts, policies : amounts = AsLines(call.lines, 2) /\ policies = AsLines(call.lines, 3)
  OBVIOUS
<1>3. PICK c : c = IF p = NoBudget THEN base ELSE p.currency
  OBVIOUS
<1>4. PICK q : q = [name |-> name, archived |-> FALSE, currency |-> c, lines |-> amounts, policies |-> policies]
  OBVIOUS
<1>5. BudgetRow(q)
  BY <1>4 DEF BudgetRow
<1>6. PICK before, after :
        /\ before = IF p = NoBudget THEN <<>> ELSE [name |-> p.name, archived |-> p.archived, lines |-> p.lines]
        /\ after = [name |-> name, archived |-> FALSE, lines |-> amounts, policies |-> policies]
  OBVIOUS
<1>7. Replaced(p.lines, amounts) = amounts /\ Replaced(p.policies, policies) = policies
  BY <1>2, LinesReplaced
<1>8. PICK bs, e : bs = [w.budgets EXCEPT ![m] = q] /\ e = ToldIn(base, BudgetAt(m), call.key, before, after)
  OBVIOUS
<1>9. v = Audited([w EXCEPT !.budgets = bs], e)
  BY <1>1, <1>2, <1>3, <1>4, <1>6, <1>7, <1>8 DEF SetLines, BudgetAt
<1>10. e.entity = BudgetAt(m) /\ e.before = before /\ e.after = after
  BY <1>8, ToldInFields
<1>11. Rewrites(p, q, before, after)
  <2>1. after = Budgeted(q)
    <3>1. /\ q["name"] = after["name"] /\ q["archived"] = after["archived"]
          /\ q["lines"] = after["lines"] /\ q["policies"] = after["policies"]
      BY <1>4, <1>6
    <3>2. \A f \in BudgetFields : q[f] = after[f]
      BY <3>1, Zenon DEF BudgetFields
    <3>3. after = [f \in BudgetFields |-> after[f]]
      BY <1>6 DEF BudgetFields
    <3>. QED  BY <3>2, <3>3 DEF Budgeted
  <2>2. p # NoBudget => \A f \in DOMAIN before : f \in BudgetFields /\ before[f] = p[f]
    BY <1>6 DEF BudgetFields
  <2>. QED  BY <1>6, <2>1, <2>2 DEF Rewrites
<1>. QED  BY <1>1, <1>5, <1>8, <1>9, <1>10, <1>11, BudgetLogged

LEMMA ArchivedLogged ==
  ASSUME NEW w, LogFits(w), NEW call, call.month \in Months, w.budgets[call.month] # NoBudget,
         NEW v, v = Archived(w, call)
  PROVE  LogFits(v)
<1>1. PICK m, p : m = call.month /\ p = w.budgets[m]
  OBVIOUS
<1>2. CASE p.archived
  BY <1>1, <1>2 DEF Archived
<1>3. CASE ~p.archived
  <2>1. PICK q, bs : q = [p EXCEPT !.archived = TRUE] /\ bs = [w.budgets EXCEPT ![m] = q]
    OBVIOUS
  <2>2. BudgetRow(q)
    <3>1. BudgetRow(p)
      BY <1>1 DEF LogFits, Tabled
    <3>. QED  BY <2>1, <3>1 DEF BudgetRow
  <2>3. PICK before, after : before = [archived |-> FALSE] /\ after = [archived |-> TRUE]
    OBVIOUS
  <2>4. PICK e : e = Told(BudgetAt(m), call.key, before, after)
    OBVIOUS
  <2>5. v = Audited([w EXCEPT !.budgets = bs], e)
    BY <1>1, <1>3, <2>1, <2>3, <2>4 DEF Archived, BudgetAt
  <2>6. Rewrites(p, q, before, after)
    BY <1>1, <1>3, <2>1, <2>3 DEF Rewrites
  <2>7. m \in Months /\ p = w.budgets[m] /\ bs = [w.budgets EXCEPT ![m] = q]
    BY <1>1, <2>1
  <2>8. e.entity = BudgetAt(m) /\ e.before = before /\ e.after = after
    BY <2>4, ToldFields
  <2>. QED  BY <2>2, <2>5, <2>6, <2>7, <2>8, BudgetLogged
<1>. QED  BY <1>2, <1>3

LEMMA AddRuleLogged ==
  ASSUME NEW w, LogFits(w), NEW call, NEW v, v = AddRule(w, call)
  PROVE  LogFits(v)
<1>1. PICK row : row = [keyword |-> call.keyword, category |-> call.category, merchant |-> call.merchant, live |-> TRUE]
  OBVIOUS
<1>2. RuleRow(row)
  BY <1>1 DEF RuleRow
<1>3. PICK n, rs : n = Len(w.rules) + 1 /\ rs = Append(w.rules, row)
  OBVIOUS
<1>4. v = Audited([w EXCEPT !.rules = rs], Told(RuleAt(n), None, <<>>, row))
  BY <1>1, <1>3 DEF AddRule, RuleAt
<1>. QED  BY <1>2, <1>3, <1>4, RuleLogged

LEMMA DropRuleLogged ==
  ASSUME NEW w, LogFits(w), NEW call, LiveRule(w, call.rule), NEW v, v = DropRule(w, call)
  PROVE  LogFits(v)
<1>1. PICK n, p, q, rs, after : /\ n = call.rule /\ p = w.rules[n] /\ q = [p EXCEPT !.live = FALSE]
                                /\ rs = [w.rules EXCEPT ![n] = q] /\ after = [live |-> FALSE]
  OBVIOUS
<1>2. n \in DOMAIN w.rules
  BY <1>1 DEF LiveRule
<1>3. v = Audited([w EXCEPT !.rules = rs], Told(RuleAt(n), None, p, after))
  BY <1>1 DEF DropRule, RuleAt
<1>. QED  BY <1>1, <1>2, <1>3, DropLogged

\* What a request needs, the tables have.
Grounded(w, call) ==
  /\ call.end \in {"budget", "archive"} => call.month \in Months
  /\ call.end = "archive" => w.budgets[call.month] # NoBudget
  /\ call.end = "drop" => LiveRule(w, call.rule)

LEMMA EffectLogged ==
  ASSUME NEW w, LogFits(w), NEW call, call.end \in Ends, Grounded(w, call), NEW base
  PROVE  LogFits(Effect(w, call, base))
<1>1. PICK v : v = Effect(w, call, base)
  OBVIOUS
<1>2. CASE call.end = "category"
  BY <1>1, <1>2, AddCategoryLogged DEF Effect
<1>3. CASE call.end = "merchant"
  BY <1>1, <1>3, AddMerchantLogged DEF Effect
<1>4. CASE call.end = "budget"
  BY <1>1, <1>4, SetLinesLogged DEF Effect, Grounded
<1>5. CASE call.end = "archive"
  BY <1>1, <1>5, ArchivedLogged DEF Effect, Grounded
<1>6. CASE call.end = "rule"
  BY <1>1, <1>6, AddRuleLogged DEF Effect
<1>7. CASE call.end = "drop"
  BY <1>1, <1>7, DropRuleLogged DEF Effect, Grounded
<1>. QED  BY <1>1, <1>2, <1>3, <1>4, <1>5, <1>6, <1>7 DEF Ends

-----------------------------------------------------------------------------
(* The currencies of the log.                                              *)

\* As long as the base currency is the first one, every budget is in it.  An entry that
\* states a currency is about a budget, and states its own unless the base had changed.
BaseFits(w) ==
  /\ ~Rebased(w.trail) =>
       \A m \in Months : w.budgets[m] # NoBudget => w.budgets[m].currency = w.family.currency
  /\ \A i \in DOMAIN w.trail : w.trail[i].currency # None =>
       \E m \in Months :
         /\ w.trail[i].entity = BudgetAt(m)
         /\ w.trail[i].currency = w.budgets[m].currency \/ Rebased(SubSeq(w.trail, 1, i - 1))

LEMMA RebasedGrows ==
  ASSUME NEW s, Sequence(s), NEW e, NEW u, u = Append(s, e)
  PROVE  /\ Rebased(s) => Rebased(u)
         /\ e.entity = Settings /\ "currency" \in DOMAIN e.after => Rebased(u)
<1>1. Extends(Append(s, e), s, e)
  BY AppendExtends
<1>2. \A i \in DOMAIN s : i \in DOMAIN u /\ u[i] = s[i]
  BY <1>1 DEF Extends
<1>3. \E i \in DOMAIN u : u[i] = e
  BY <1>1 DEF Extends
<1>. QED  BY <1>2, <1>3 DEF Rebased, Settings

\* A budget that is keeps its currency; a new one has the base of today.
BudgetsKeep(v, w) ==
  \A m \in Months :
    \/ w.budgets[m] # NoBudget /\ v.budgets[m].currency = w.budgets[m].currency
    \/ v.budgets[m] = w.budgets[m]
    \/ /\ w.budgets[m] = NoBudget
       /\ v.budgets[m].currency = w.family.currency \/ Rebased(w.trail)

LEMMA BaseGrows ==
  ASSUME NEW w, Sequence(w.trail), BaseFits(w), NEW v, NEW e, v.trail = Append(w.trail, e),
         BudgetsKeep(v, w),
         v.family.currency = w.family.currency \/ Rebased(v.trail),
         e.currency # None => \E m \in Months :
           e.entity = BudgetAt(m) /\ (e.currency = v.budgets[m].currency \/ Rebased(w.trail))
  PROVE  BaseFits(v) /\ (Rebased(w.trail) => Rebased(v.trail))
<1>1. PICK s, u : s = w.trail /\ u = v.trail
  OBVIOUS
<1>2. u = Append(s, e) /\ Sequence(s)
  BY <1>1
<1>3. Rebased(s) => Rebased(u)
  BY <1>2, RebasedGrows
<1>4. PICK S : s \in Seq(S)
  BY <1>2 DEF Sequence
<1>5. /\ Len(s) \in Nat /\ DOMAIN s = 1..Len(s) /\ DOMAIN u = DOMAIN s \cup {Len(s) + 1}
      /\ u[Len(s) + 1] = e /\ \A i \in DOMAIN s : u[i] = s[i]
  <2>1. Extends(Append(s, e), s, e)
    BY <1>2, AppendExtends
  <2>. QED  BY <1>2, <2>1 DEF Extends
<1>6. ASSUME ~Rebased(u), NEW m \in Months, v.budgets[m] # NoBudget
      PROVE  v.budgets[m].currency = v.family.currency
  <2>1. ~Rebased(s) /\ v.family.currency = w.family.currency
    BY <1>1, <1>3, <1>6
  <2>2. w.budgets[m] # NoBudget => w.budgets[m].currency = w.family.currency
    BY <1>1, <2>1 DEF BaseFits
  <2>. QED  BY <1>1, <1>6, <2>1, <2>2 DEF BudgetsKeep
<1>7. ASSUME NEW i \in DOMAIN u, u[i].currency # None
      PROVE  \E m \in Months :
               /\ u[i].entity = BudgetAt(m)
               /\ u[i].currency = v.budgets[m].currency \/ Rebased(SubSeq(u, 1, i - 1))
  <2>1. SubSeq(u, 1, i - 1) = SubSeq(s, 1, i - 1)
    BY <1>2, <1>4, <1>5, PrefixStays
  <2>2. CASE i \in DOMAIN s
    <3>1. u[i] = s[i]
      BY <1>5, <2>2
    <3>2. PICK m \in Months : /\ s[i].entity = BudgetAt(m)
                              /\ s[i].currency = w.budgets[m].currency \/ Rebased(SubSeq(s, 1, i - 1))
      BY <1>1, <1>7, <2>2, <3>1 DEF BaseFits
    <3>3. CASE Rebased(SubSeq(s, 1, i - 1))
      BY <2>1, <3>1, <3>2, <3>3
    <3>4. CASE s[i].currency = w.budgets[m].currency
      <4>1. w.budgets[m].currency # None
        BY <1>7, <3>1, <3>4
      <4>2. w.budgets[m] # NoBudget
        BY <4>1 DEF NoBudget
      <4>3. v.budgets[m].currency = w.budgets[m].currency
        BY <4>2 DEF BudgetsKeep
      <4>. QED  BY <3>1, <3>2, <3>4, <4>3
    <3>. QED  BY <3>2, <3>3, <3>4
  <2>3. CASE i = Len(s) + 1
    <3>1. SubSeq(s, 1, i - 1) = s
      <4>1. i - 1 = Len(s)
        BY <1>5, <2>3
      <4>. QED  BY <1>4, <4>1, SubSeqFull
    <3>2. PICK m \in Months : e.entity = BudgetAt(m) /\ (e.currency = v.budgets[m].currency \/ Rebased(w.trail))
      BY <1>5, <1>7, <2>3
    <3>. QED  BY <1>1, <1>5, <2>1, <2>3, <3>1, <3>2
  <2>. QED  BY <1>5, <2>2, <2>3
<1>. QED  BY <1>1, <1>3, <1>6, <1>7 DEF BaseFits

\* An entry that states no currency, of a step that makes no budget.
LEMMA PlainBase ==
  ASSUME NEW w, Sequence(w.trail), BaseFits(w), NEW v, NEW e, v.trail = Append(w.trail, e),
         v.budgets = w.budgets, v.family.currency = w.family.currency, e.currency = None
  PROVE  BaseFits(v) /\ (Rebased(w.trail) => Rebased(v.trail))
<1>1. BudgetsKeep(v, w)
  BY DEF BudgetsKeep
<1>. QED  BY <1>1, BaseGrows

\* A request: it takes the base currency from what its transaction has seen.
LEMMA EffectBase ==
  ASSUME NEW w, Tabled(w), Sequence(w.trail), BaseFits(w), NEW call, call.end \in Ends, Grounded(w, call),
         NEW base, base = w.family.currency \/ Rebased(w.trail), NEW v, v = Effect(w, call, base)
  PROVE  BaseFits(v) /\ v.family = w.family /\ (Rebased(w.trail) => Rebased(v.trail))
<1>0. CASE v = w
  BY <1>0
<1>1. Shaped(w)
  BY DEF Tabled
<1>2. CASE v # w /\ call.end \notin {"budget", "archive"}
  <2>1. \E e, cs, ms, rs : Writes(v, w, e, cs, ms, rs, w.budgets, w.family) /\ e.currency = None
    <3>1. CASE call.end = "category"
      <4>1. \E cs, x, key, before, after : v = Audited([w EXCEPT !.categories = cs], Told(x, key, before, after))
        BY <3>1 DEF Effect, AddCategory
      <4>2. PICK cs, x, key, before, after : v = Audited([w EXCEPT !.categories = cs], Told(x, key, before, after))
        BY <4>1
      <4>3. PICK e : e = Told(x, key, before, after)
        OBVIOUS
      <4>4. Writes(v, w, e, cs, w.merchants, w.rules, w.budgets, w.family)
        BY <1>1, <4>2, <4>3, CategoriesWritten
      <4>. QED  BY <4>3, <4>4, ToldFields
    <3>2. CASE call.end = "merchant"
      <4>1. \E ms, x, key, before, after : v = Audited([w EXCEPT !.merchants = ms], Told(x, key, before, after))
        BY <1>2, <3>2 DEF Effect, AddMerchant
      <4>2. PICK ms, x, key, before, after : v = Audited([w EXCEPT !.merchants = ms], Told(x, key, before, after))
        BY <4>1
      <4>3. PICK e : e = Told(x, key, before, after)
        OBVIOUS
      <4>4. Writes(v, w, e, w.categories, ms, w.rules, w.budgets, w.family)
        BY <1>1, <4>2, <4>3, MerchantsWritten
      <4>. QED  BY <4>3, <4>4, ToldFields
    <3>3. CASE call.end \in {"rule", "drop"}
      <4>1. \E rs, x, key, before, after : v = Audited([w EXCEPT !.rules = rs], Told(x, key, before, after))
        BY <3>3 DEF Effect, AddRule, DropRule
      <4>2. PICK rs, x, key, before, after : v = Audited([w EXCEPT !.rules = rs], Told(x, key, before, after))
        BY <4>1
      <4>3. PICK e : e = Told(x, key, before, after)
        OBVIOUS
      <4>4. Writes(v, w, e, w.categories, w.merchants, rs, w.budgets, w.family)
        BY <1>1, <4>2, <4>3, RulesWritten
      <4>. QED  BY <4>3, <4>4, ToldFields
    <3>. QED  BY <1>2, <3>1, <3>2, <3>3 DEF Ends
  <2>2. PICK e, cs, ms, rs : Writes(v, w, e, cs, ms, rs, w.budgets, w.family) /\ e.currency = None
    BY <2>1
  <2>3. v.trail = Append(w.trail, e) /\ v.budgets = w.budgets /\ v.family = w.family
    BY <2>2 DEF Writes
  <2>. QED  BY <2>2, <2>3, PlainBase
<1>3. CASE v # w /\ call.end \in {"budget", "archive"}
  <2>1. PICK m, p, olds : m = call.month /\ olds = w.budgets /\ p = olds[m]
    OBVIOUS
  <2>2. m \in Months /\ olds = [k \in Months |-> olds[k]]
    BY <1>3, <2>1 DEF Grounded, Tabled
  <2>3. \E q, e : /\ v = Audited([w EXCEPT !.budgets = [olds EXCEPT ![m] = q]], e)
                  /\ q.currency = IF p = NoBudget THEN base ELSE p.currency
                  /\ e.currency # None => e.entity = BudgetAt(m) /\ e.currency = base
    <3>1. CASE call.end = "budget"
      <4>1. v = SetLines(w, call, base)
        BY <3>1 DEF Effect
      <4>2. PICK name, ls, ps : /\ ls = Replaced(p.lines, AsLines(call.lines, 2))
                                /\ ps = Replaced(p.policies, AsLines(call.lines, 3))
                                /\ name = IF call.name = None THEN "default" ELSE call.name
        OBVIOUS
      <4>3. PICK c : c = IF p = NoBudget THEN base ELSE p.currency
        OBVIOUS
      <4>4. PICK q : q = [name |-> name, archived |-> FALSE, currency |-> c, lines |-> ls, policies |-> ps]
        OBVIOUS
      <4>5. PICK before, after :
              /\ before = IF p = NoBudget THEN <<>> ELSE [name |-> p.name, archived |-> p.archived, lines |-> p.lines]
              /\ after = [name |-> name, archived |-> FALSE, lines |-> AsLines(call.lines, 2),
                          policies |-> AsLines(call.lines, 3)]
        OBVIOUS
      <4>6. PICK e : e = ToldIn(base, BudgetAt(m), call.key, before, after)
        OBVIOUS
      <4>7. v = Audited([w EXCEPT !.budgets = [olds EXCEPT ![m] = q]], e)
        BY <2>1, <4>1, <4>2, <4>3, <4>4, <4>5, <4>6 DEF SetLines, BudgetAt
      <4>8. q.currency = c /\ e.entity = BudgetAt(m) /\ e.currency = base
        BY <4>4, <4>6, ToldInFields
      <4>. QED  BY <4>3, <4>7, <4>8
    <3>2. CASE call.end = "archive"
      <4>1. v = Archived(w, call) /\ p # NoBudget /\ ~p.archived
        BY <1>3, <2>1, <3>2 DEF Effect, Archived, Grounded
      <4>2. PICK q : q = [p EXCEPT !.archived = TRUE]
        OBVIOUS
      <4>3. PICK before, after : before = [archived |-> FALSE] /\ after = [archived |-> TRUE]
        OBVIOUS
      <4>4. PICK e : e = Told(BudgetAt(m), call.key, before, after)
        OBVIOUS
      <4>5. v = Audited([w EXCEPT !.budgets = [olds EXCEPT ![m] = q]], e)
        BY <2>1, <4>1, <4>2, <4>3, <4>4 DEF Archived, BudgetAt
      <4>6. q.currency = p.currency
        <5>1. BudgetRow(p)
          BY <2>1, <2>2 DEF Tabled
        <5>. QED  BY <4>2, <5>1 DEF BudgetRow
      <4>7. e.currency = None
        BY <4>4, ToldFields
      <4>. QED  BY <4>1, <4>5, <4>6, <4>7
    <3>. QED  BY <1>3, <3>1, <3>2
  <2>4. PICK q, e : /\ v = Audited([w EXCEPT !.budgets = [olds EXCEPT ![m] = q]], e)
                    /\ q.currency = IF p = NoBudget THEN base ELSE p.currency
                    /\ e.currency # None => e.entity = BudgetAt(m) /\ e.currency = base
    BY <2>3
  <2>5. PICK bs : bs = [olds EXCEPT ![m] = q]
    OBVIOUS
  <2>6. v.trail = Append(w.trail, e) /\ v.budgets = bs /\ v.family = w.family
    <3>1. Writes(Audited([w EXCEPT !.budgets = bs], e), w, e, w.categories, w.merchants, w.rules, bs, w.family)
      BY <1>1, BudgetsWritten
    <3>. QED  BY <2>4, <2>5, <3>1 DEF Writes
  <2>7. bs[m] = q /\ \A k \in Months : k # m => bs[k] = olds[k]
    BY <2>2, <2>5
  <2>8. BudgetsKeep(v, w)
    BY <2>1, <2>4, <2>6, <2>7 DEF BudgetsKeep
  <2>9. ASSUME e.currency # None
        PROVE  e.entity = BudgetAt(m) /\ (e.currency = v.budgets[m].currency \/ Rebased(w.trail))
    <3>1. e.entity = BudgetAt(m) /\ e.currency = base
      BY <2>4, <2>9
    <3>2. ~Rebased(w.trail) => q.currency = base
      BY <2>1, <2>2, <2>4 DEF BaseFits
    <3>. QED  BY <2>6, <2>7, <3>1, <3>2
  <2>. QED  BY <2>2, <2>6, <2>8, <2>9, BaseGrows
<1>. QED  BY <1>0, <1>2, <1>3

-----------------------------------------------------------------------------
(* The keys of the log.                                                    *)

\* What an endpoint writes about.
About(end) == IF end \in {"budget", "archive"} THEN "budget" ELSE end

\* A key of the log is of an answer that is kept, and of one entry; an answer that
\* is kept is of a request, and of one.
KeysFit(w) ==
  /\ \A r \in w.records : \E call \in Wanted : Keyed(call) /\ r.end = call.end /\ r.key = call.key
  /\ \A r, s \in w.records : r.end = s.end /\ r.key = s.key => r = s
  /\ \A i \in DOMAIN w.trail : w.trail[i].key # None =>
       \E r \in w.records : r.key = w.trail[i].key /\ About(r.end) = w.trail[i].entity[1]
  /\ \A i, j \in DOMAIN w.trail :
       w.trail[i].key # None /\ w.trail[j].key = w.trail[i].key /\ w.trail[j].entity[1] = w.trail[i].entity[1]
         => j = i

\* Who was told that a keyed request is done was told what is kept.
Kept(w, r) ==
  r.answer[2] = "done" /\ Keyed(r.call) =>
    \E s \in w.records : s.end = r.call.end /\ s.key = r.call.key /\ s.answer = r.answer

\* A request logs one entry at most, under its key.
Signs(v, w, call) ==
  \/ v.trail = w.trail
  \/ \E e : /\ v.trail = Append(w.trail, e)
            /\ IF Keyed(call) THEN e.key = call.key /\ e.entity[1] = About(call.end) ELSE e.key = None

LEMMA AuditSigns ==
  ASSUME NEW w, Shaped(w), NEW u, Shaped(u), u.trail = w.trail, u.records = w.records, u.rows = w.rows, NEW call,
         NEW c, NEW x, NEW key, NEW before, NEW after, NEW v, v = Audited(u, ToldIn(c, x, key, before, after)),
         IF Keyed(call) THEN key = call.key /\ x[1] = About(call.end) ELSE key = None
  PROVE  Signs(v, w, call)
<1>1. PICK e : e = ToldIn(c, x, key, before, after)
  OBVIOUS
<1>2. e.entity = x /\ e.key = key
  BY <1>1, ToldInFields
<1>3. v.trail = Append(w.trail, e)
  BY <1>1, AuditedWrites DEF Writes
<1>. QED  BY <1>2, <1>3 DEF Signs

LEMMA HeadOf ==
  /\ \A n : CategoryAt(n)[1] = "category" /\ MerchantAt(n)[1] = "merchant"
  /\ \A n : RuleAt(n)[1] = "rule" /\ BudgetAt(n)[1] = "budget"
  /\ Settings[1] = "family"
BY DEF CategoryAt, MerchantAt, RuleAt, BudgetAt, Settings

\* One table of another content.
LEMMA TablesWith ==
  ASSUME NEW w, Shaped(w), NEW x,
         NEW u, \/ u = [w EXCEPT !.categories = x] \/ u = [w EXCEPT !.merchants = x]
                \/ u = [w EXCEPT !.rules = x] \/ u = [w EXCEPT !.budgets = x]
  PROVE  Shaped(u) /\ u.trail = w.trail /\ u.records = w.records /\ u.rows = w.rows
BY DEF Shaped

LEMMA EffectSigns ==
  ASSUME NEW w, Shaped(w), NEW call, call.end \in Ends, NEW base
  PROVE  Signs(Effect(w, call, base), w, call)
<1>1. PICK v : v = Effect(w, call, base)
  OBVIOUS
<1>2. CASE call.end = "category"
  <2>1. PICK cs : cs = Append(w.categories, Category(call.name, call.type, "family", FALSE, call.parent))
    OBVIOUS
  <2>2. PICK u : u = [w EXCEPT !.categories = cs]
    OBVIOUS
  <2>3. PICK n : v = Audited(u, ToldIn(None, CategoryAt(n), call.key, <<>>, Category(call.name, call.type, "family", FALSE, call.parent)))
    BY <1>1, <1>2, <2>1, <2>2 DEF Effect, AddCategory, CategoryAt, Told
  <2>4. Keyed(call) /\ About(call.end) = "category"
    BY <1>2 DEF Keyed, About
  <2>. QED  BY <1>1, <2>2, <2>3, <2>4, TablesWith, AuditSigns, HeadOf
<1>3. CASE call.end = "merchant"
  <2>1. v = AddMerchant(w, call)
    BY <1>1, <1>3 DEF Effect
  <2>2. CASE v = w
    BY <1>1, <2>2 DEF Signs
  <2>3. CASE v # w
    <3>1. \E ms, n, before, after :
            v = Audited([w EXCEPT !.merchants = ms], ToldIn(None, MerchantAt(n), call.key, before, after))
      BY <2>1, <2>3 DEF AddMerchant, MerchantAt, Told
    <3>2. PICK ms, n, before, after :
            v = Audited([w EXCEPT !.merchants = ms], ToldIn(None, MerchantAt(n), call.key, before, after))
      BY <3>1
    <3>3. PICK u : u = [w EXCEPT !.merchants = ms]
      OBVIOUS
    <3>4. Keyed(call) /\ About(call.end) = "merchant"
      BY <1>3 DEF Keyed, About
    <3>. QED  BY <1>1, <3>2, <3>3, <3>4, TablesWith, AuditSigns, HeadOf
  <2>. QED  BY <2>2, <2>3
<1>4. CASE call.end \in {"budget", "archive"}
  <2>1. CASE v = w
    BY <1>1, <2>1 DEF Signs
  <2>2. CASE v # w
    <3>1. \E bs, c, n, before, after :
            v = Audited([w EXCEPT !.budgets = bs], ToldIn(c, BudgetAt(n), call.key, before, after))
      BY <1>1, <1>4, <2>2 DEF Effect, SetLines, Archived, BudgetAt, Told
    <3>2. PICK bs, c, n, before, after :
            v = Audited([w EXCEPT !.budgets = bs], ToldIn(c, BudgetAt(n), call.key, before, after))
      BY <3>1
    <3>3. PICK u : u = [w EXCEPT !.budgets = bs]
      OBVIOUS
    <3>4. Keyed(call) /\ About(call.end) = "budget"
      BY <1>4 DEF Keyed, About
    <3>. QED  BY <1>1, <3>2, <3>3, <3>4, TablesWith, AuditSigns, HeadOf
  <2>. QED  BY <2>1, <2>2
<1>5. CASE call.end \in {"rule", "drop"}
  <2>1. \E rs, x, before, after : v = Audited([w EXCEPT !.rules = rs], ToldIn(None, x, None, before, after))
    BY <1>1, <1>5 DEF Effect, AddRule, DropRule, Told
  <2>2. PICK rs, x, before, after : v = Audited([w EXCEPT !.rules = rs], ToldIn(None, x, None, before, after))
    BY <2>1
  <2>3. PICK u : u = [w EXCEPT !.rules = rs]
    OBVIOUS
  <2>4. ~Keyed(call)
    BY <1>5 DEF Keyed
  <2>. QED  BY <1>1, <2>2, <2>3, <2>4, TablesWith, AuditSigns
<1>. QED  BY <1>1, <1>2, <1>3, <1>4, <1>5 DEF Ends

\* An entry without a key, or none at all, and no other answers.
LEMMA KeysStay ==
  ASSUME NEW w, Sequence(w.trail), KeysFit(w), NEW v, v.records = w.records,
         v.trail = w.trail \/ \E e : v.trail = Append(w.trail, e) /\ e.key = None
  PROVE  KeysFit(v)
<1>1. CASE v.trail = w.trail
  BY <1>1 DEF KeysFit
<1>2. ASSUME NEW e, v.trail = Append(w.trail, e), e.key = None PROVE KeysFit(v)
  <2>1. PICK s, u : s = w.trail /\ u = v.trail
    OBVIOUS
  <2>2. Extends(Append(s, e), s, e)
    BY <2>1, AppendExtends
  <2>3. \A i \in DOMAIN u : u[i].key # None => i \in DOMAIN s /\ u[i] = s[i]
    BY <1>2, <2>1, <2>2 DEF Extends
  <2>4. \A i \in DOMAIN s : s[i].key # None =>
          \E r \in w.records : r.key = s[i].key /\ About(r.end) = s[i].entity[1]
    BY <2>1 DEF KeysFit
  <2>5. \A i \in DOMAIN u : u[i].key # None =>
          \E r \in v.records : r.key = u[i].key /\ About(r.end) = u[i].entity[1]
    BY <2>3, <2>4
  <2>6. \A i, j \in DOMAIN s : s[i].key # None /\ s[j].key = s[i].key /\ s[j].entity[1] = s[i].entity[1] => j = i
    BY <2>1 DEF KeysFit
  <2>7. \A i, j \in DOMAIN u : u[i].key # None /\ u[j].key = u[i].key /\ u[j].entity[1] = u[i].entity[1] => j = i
    BY <2>3, <2>6
  <2>8. /\ \A r \in v.records : \E call \in Wanted : Keyed(call) /\ r.end = call.end /\ r.key = call.key
        /\ \A r, t \in v.records : r.end = t.end /\ r.key = t.key => r = t
    BY DEF KeysFit
  <2>. QED  BY <2>1, <2>5, <2>7, <2>8 DEF KeysFit
<1>. QED  BY <1>1, <1>2

\* An entry under a new key, and the answer that is kept for it.
LEMMA KeysGrow ==
  ASSUME NEW w, Sequence(w.trail), KeysFit(w), NEW call \in Wanted, Keyed(call), RecordsOf(w, call) = {},
         NEW x, x.end = call.end, x.key = call.key, NEW v, v.records = w.records \cup {x},
         Signs(v, w, call)
  PROVE  KeysFit(v)
<1>1. \A r \in w.records : ~(r.end = x.end /\ r.key = x.key)
  BY DEF RecordsOf
<1>2. \A r \in v.records : \E other \in Wanted : Keyed(other) /\ r.end = other.end /\ r.key = other.key
  BY DEF KeysFit
<1>3. \A r, s \in v.records : r.end = s.end /\ r.key = s.key => r = s
  BY <1>1 DEF KeysFit
<1>4. PICK s, u : s = w.trail /\ u = v.trail
  OBVIOUS
<1>5. /\ \A i \in DOMAIN s : s[i].key # None =>
           \E r \in w.records : r.key = s[i].key /\ About(r.end) = s[i].entity[1]
      /\ \A i, j \in DOMAIN s : s[i].key # None /\ s[j].key = s[i].key /\ s[j].entity[1] = s[i].entity[1] => j = i
  BY <1>4 DEF KeysFit
<1>6. CASE u = s
  <2>1. \A i \in DOMAIN u : u[i].key # None =>
          \E r \in v.records : r.key = u[i].key /\ About(r.end) = u[i].entity[1]
    BY <1>5, <1>6
  <2>. QED  BY <1>2, <1>3, <1>4, <1>5, <1>6, <2>1 DEF KeysFit
<1>7. ASSUME NEW e, u = Append(s, e), e.key = call.key, e.entity[1] = About(call.end)
      PROVE  KeysFit(v)
  <2>1. Extends(Append(s, e), s, e)
    BY <1>4, AppendExtends
  <2>2. \A i \in DOMAIN u : (i \in DOMAIN s /\ u[i] = s[i]) \/ (i = Len(s) + 1 /\ u[i] = e)
    BY <1>7, <2>1 DEF Extends
  <2>3. \A i \in DOMAIN u : u[i].key # None =>
          \E r \in v.records : r.key = u[i].key /\ About(r.end) = u[i].entity[1]
    <3>1. x \in v.records /\ x.key = e.key /\ About(x.end) = e.entity[1]
      BY <1>7
    <3>. QED  BY <1>5, <2>2, <3>1
  <2>4. ASSUME NEW i \in DOMAIN s, s[i].key = e.key, s[i].entity[1] = e.entity[1], e.key # None
        PROVE  FALSE
    <3>1. PICK r \in w.records : r.key = call.key /\ About(r.end) = About(call.end)
      BY <1>5, <1>7, <2>4
    <3>2. PICK other \in Wanted : Keyed(other) /\ r.end = other.end /\ r.key = other.key
      BY DEF KeysFit
    <3>3. r.end # call.end
      BY <1>1, <3>1
    <3>4. {other.end, call.end} = {"budget", "archive"}
      <4>1. other.end \in Ends /\ call.end \in Ends
        BY HouseholdAssumption
      <4>. QED  BY <3>1, <3>2, <3>3, <4>1 DEF About, Ends
    <3>5. other.key # call.key
      <4>1. \A a, b \in Wanted : a.end = "budget" /\ b.end = "archive" => a.key # b.key
        BY HouseholdAssumption
      <4>. QED  BY <3>4, <4>1
    <3>. QED  BY <3>1, <3>2, <3>5
  <2>5. \A i, j \in DOMAIN u : u[i].key # None /\ u[j].key = u[i].key /\ u[j].entity[1] = u[i].entity[1] => j = i
    <3>. SUFFICES ASSUME NEW i \in DOMAIN u, NEW j \in DOMAIN u,
                         u[i].key # None, u[j].key = u[i].key, u[j].entity[1] = u[i].entity[1]
                  PROVE  j = i
      OBVIOUS
    <3>1. CASE i \in DOMAIN s /\ u[i] = s[i] /\ j \in DOMAIN s /\ u[j] = s[j]
      BY <1>5, <3>1
    <3>2. CASE i \in DOMAIN s /\ u[i] = s[i] /\ j = Len(s) + 1 /\ u[j] = e
      BY <2>4, <3>2
    <3>3. CASE i = Len(s) + 1 /\ u[i] = e /\ j \in DOMAIN s /\ u[j] = s[j]
      BY <2>4, <3>3
    <3>4. CASE i = Len(s) + 1 /\ j = Len(s) + 1
      BY <3>4
    <3>. QED  BY <2>2, <3>1, <3>2, <3>3, <3>4
  <2>. QED  BY <1>2, <1>3, <1>4, <2>3, <2>5 DEF KeysFit
<1>. QED  BY <1>4, <1>6, <1>7 DEF Signs

-----------------------------------------------------------------------------
(* What a transaction has seen of budgets, rules, answers and the base.    *)

RecordAt(end, key) == <<"record", end, key>>

\* It has seen what is, unless it was told of a change; of a change of the base
\* currency the log tells.
Watching(d, w) ==
  /\ \A m \in Months : BudgetAt(m) \notin d.changed => d.snap.budgets[m] = w.budgets[m]
  /\ \A n : RuleAt(n) \notin d.changed => (LiveRule(d.snap, n) => LiveRule(w, n))
  /\ \A r \in w.records : RecordAt(r.end, r.key) \notin d.changed => r \in d.snap.records
  /\ d.snap.family.currency = w.family.currency \/ Rebased(w.trail)

Watches(ds, w) == \A c \in Clerks : ds[c].pc = "open" => Watching(ds[c], w)

\* A step makes of budgets, rules and answers only what it tells of.
Tracks(v, w, news) ==
  /\ \A m \in Months : BudgetAt(m) \notin news => v.budgets[m] = w.budgets[m]
  /\ \A n : RuleAt(n) \notin news => (LiveRule(w, n) => LiveRule(v, n))
  /\ \A r \in v.records : RecordAt(r.end, r.key) \notin news => r \in w.records
  /\ v.family.currency = w.family.currency \/ Rebased(v.trail)
  /\ Rebased(w.trail) => Rebased(v.trail)

LEMMA WatchHears ==
  ASSUME NEW d, Desk(d), NEW w, NEW v, NEW news, Tracks(v, w, news), NEW h, h = Heard(d, news),
         d.pc = "open" => Watching(d, w)
  PROVE  h.pc = "open" => Watching(h, v)
<1>1. CASE d.pc # "open"
  BY <1>1 DEF Heard
<1>2. CASE d.pc = "open"
  <2>1. Seeing(d)
    BY <1>2 DEF Desk, Free, Rescue
  <2>2. PICK call, again, snap, ch :
          call = d.call /\ again = d.again /\ snap = d.snap /\ ch = d.changed
    OBVIOUS
  <2>3. d = [pc |-> "open", call |-> call, again |-> again, snap |-> snap, changed |-> ch]
    BY <2>1, <2>2 DEF Seeing
  <2>4. h.snap = snap /\ h.changed = ch \cup news
    BY <1>2, <2>3 DEF Heard
  <2>5. Watching(h, v)
    <3>1. /\ \A m \in Months : BudgetAt(m) \notin ch => snap.budgets[m] = w.budgets[m]
          /\ \A n : RuleAt(n) \notin ch => (LiveRule(snap, n) => LiveRule(w, n))
          /\ \A r \in w.records : RecordAt(r.end, r.key) \notin ch => r \in snap.records
          /\ snap.family.currency = w.family.currency \/ Rebased(w.trail)
      BY <1>2, <2>2 DEF Watching
    <3>2. \A m \in Months : BudgetAt(m) \notin ch \cup news => snap.budgets[m] = v.budgets[m]
      BY <3>1 DEF Tracks
    <3>3. \A n : RuleAt(n) \notin ch \cup news => (LiveRule(snap, n) => LiveRule(v, n))
      BY <3>1 DEF Tracks
    <3>4. \A r \in v.records : RecordAt(r.end, r.key) \notin ch \cup news => r \in snap.records
      BY <3>1 DEF Tracks
    <3>5. snap.family.currency = v.family.currency \/ Rebased(v.trail)
      BY <3>1 DEF Tracks
    <3>. QED  BY <2>4, <3>2, <3>3, <3>4, <3>5 DEF Watching
  <2>. QED  BY <2>5
<1>. QED  BY <1>1, <1>2

LEMMA WatchesHear ==
  ASSUME Desks, NEW w, NEW v, NEW news, Tracks(v, w, news), Watches(desk, w)
  PROVE  Watches(Informed(desk, news), v)
<1>1. \A b \in Clerks : Informed(desk, news)[b] = Heard(desk[b], news)
  BY DEF Informed, Heard
<1>2. ASSUME NEW b \in Clerks, Informed(desk, news)[b].pc = "open"
      PROVE  Watching(Informed(desk, news)[b], v)
  <2>1. PICK d, h : d = desk[b] /\ h = Heard(d, news)
    OBVIOUS
  <2>2. Desk(d) /\ (d.pc = "open" => Watching(d, w))
    BY <2>1 DEF Desks, Watches
  <2>3. h.pc = "open" => Watching(h, v)
    BY <2>1, <2>2, WatchHears
  <2>. QED  BY <1>1, <1>2, <2>1, <2>3
<1>. QED  BY <1>2 DEF Watches

\* One clerk is done, and the others hear of it.
LEMMA WatchesFollow ==
  ASSUME Desks, NEW w, NEW v, NEW news, Tracks(v, w, news), Watches(desk, w), NEW c \in Clerks
  PROVE  Watches(Informed([desk EXCEPT ![c] = Free], news), v)
<1>1. PICK ds : ds = Informed([desk EXCEPT ![c] = Free], news)
  OBVIOUS
<1>2. \A b \in Clerks : ds[b] = IF b = c THEN Heard(Free, news) ELSE Heard(desk[b], news)
  BY <1>1 DEF Informed, Heard, Desks
<1>3. ASSUME NEW b \in Clerks, ds[b].pc = "open" PROVE Watching(ds[b], v)
  <2>1. CASE b = c
    <3>1. ds[b] = Free
      BY <1>2, <2>1 DEF Heard, Free
    <3>. QED  BY <1>3, <3>1 DEF Free
  <2>2. CASE b # c
    <3>1. PICK d, h : d = desk[b] /\ h = Heard(d, news)
      OBVIOUS
    <3>2. Desk(d) /\ (d.pc = "open" => Watching(d, w))
      BY <3>1 DEF Desks, Watches
    <3>3. h.pc = "open" => Watching(h, v)
      BY <3>1, <3>2, WatchHears
    <3>. QED  BY <1>2, <1>3, <2>2, <3>1, <3>3
  <2>. QED  BY <2>1, <2>2
<1>. QED  BY <1>1, <1>3 DEF Watches

\* Who begins has seen what is.
LEMMA WatchesBegin ==
  ASSUME Desks, Watches(desk, db), NEW c \in Clerks, NEW d, d.pc = "open" => Watching(d, db)
  PROVE  Watches([desk EXCEPT ![c] = d], db)
BY DEF Watches, Desks

LEMMA BegunWatches ==
  ASSUME NEW call, NEW again
  PROVE  Watching(Begun(call, again), db)
<1>1. PICK d : d = Begun(call, again)
  OBVIOUS
<1>2. d.snap = db
  BY <1>1 DEF Begun
<1>. QED  BY <1>1, <1>2 DEF Watching

LEMMA FootprintHas ==
  ASSUME NEW call, call.end \in Ends
  PROVE  /\ call.end \in {"budget", "archive"} => BudgetAt(call.month) \in Footprint(call)
         /\ call.end = "drop" => RuleAt(call.rule) \in Footprint(call)
         /\ Keyed(call) => RecordAt(call.end, call.key) \in Footprint(call)
<1>1. call.end \in {"budget", "archive"} => BudgetAt(call.month) \in Footprint(call)
  BY DEF Footprint, BudgetAt
<1>2. call.end = "drop" => RuleAt(call.rule) \in Footprint(call)
  BY DEF Footprint, RuleAt
<1>3. Keyed(call) => RecordAt(call.end, call.key) \in Footprint(call)
  BY DEF Footprint, RecordAt
<1>. QED  BY <1>1, <1>2, <1>3

\* What a request makes of budgets and rules.
BudgetsBecome(new, old, call) ==
  \/ new = old
  \/ call.end \in {"budget", "archive"} /\ \E q : new = [old EXCEPT ![call.month] = q]

RulesBecome(new, old, call) ==
  \/ new = old
  \/ call.end = "rule" /\ \E row : new = Append(old, row)
  \/ call.end = "drop" /\ \E q : new = [old EXCEPT ![call.rule] = q]

LEMMA EffectTables ==
  ASSUME NEW w, Shaped(w), NEW call, call.end \in Ends, NEW base, NEW v, v = Effect(w, call, base)
  PROVE  /\ BudgetsBecome(v.budgets, w.budgets, call)
         /\ RulesBecome(v.rules, w.rules, call)
<1>1. CASE call.end = "category"
  <2>1. PICK cs : cs = Append(w.categories, Category(call.name, call.type, "family", FALSE, call.parent))
    OBVIOUS
  <2>2. \E e : v = Audited([w EXCEPT !.categories = cs], e)
    BY <1>1, <2>1 DEF Effect, AddCategory
  <2>3. PICK e : v = Audited([w EXCEPT !.categories = cs], e)
    BY <2>2
  <2>4. v.budgets = w.budgets /\ v.rules = w.rules
    <3>1. Writes(Audited([w EXCEPT !.categories = cs], e), w, e, cs, w.merchants, w.rules, w.budgets, w.family)
      BY CategoriesWritten
    <3>. QED  BY <2>3, <3>1 DEF Writes
  <2>. QED  BY <2>4 DEF BudgetsBecome, RulesBecome
<1>2. CASE call.end = "merchant"
  <2>1. CASE v = w
    BY <2>1 DEF BudgetsBecome, RulesBecome
  <2>2. CASE v # w
    <3>1. \E ms, e : v = Audited([w EXCEPT !.merchants = ms], e)
      BY <1>2, <2>2 DEF Effect, AddMerchant
    <3>2. PICK ms, e : v = Audited([w EXCEPT !.merchants = ms], e)
      BY <3>1
    <3>3. v.budgets = w.budgets /\ v.rules = w.rules
      <4>1. Writes(Audited([w EXCEPT !.merchants = ms], e), w, e, w.categories, ms, w.rules, w.budgets, w.family)
        BY MerchantsWritten
      <4>. QED  BY <3>2, <4>1 DEF Writes
    <3>. QED  BY <3>3 DEF BudgetsBecome, RulesBecome
  <2>. QED  BY <2>1, <2>2
<1>3. CASE call.end \in {"budget", "archive"}
  <2>1. CASE v = w
    BY <2>1 DEF BudgetsBecome, RulesBecome
  <2>2. CASE v # w
    <3>1. \E q, e : v = Audited([w EXCEPT !.budgets = [w.budgets EXCEPT ![call.month] = q]], e)
      <4>1. CASE call.end = "budget"
        <5>1. v = SetLines(w, call, base)
          BY <4>1 DEF Effect
        <5>. QED  BY <5>1 DEF SetLines
      <4>2. CASE call.end = "archive"
        <5>1. v = Archived(w, call) /\ ~w.budgets[call.month].archived
          BY <2>2, <4>2 DEF Effect, Archived
        <5>. QED  BY <5>1 DEF Archived
      <4>. QED  BY <1>3, <4>1, <4>2
    <3>2. PICK q, e, bs : bs = [w.budgets EXCEPT ![call.month] = q] /\ v = Audited([w EXCEPT !.budgets = bs], e)
      BY <3>1
    <3>3. v.budgets = bs /\ v.rules = w.rules
      <4>1. Writes(Audited([w EXCEPT !.budgets = bs], e), w, e, w.categories, w.merchants, w.rules, bs, w.family)
        BY BudgetsWritten
      <4>. QED  BY <3>2, <4>1 DEF Writes
    <3>. QED  BY <1>3, <3>2, <3>3 DEF BudgetsBecome, RulesBecome
  <2>. QED  BY <2>1, <2>2
<1>4. CASE call.end = "rule"
  <2>1. \E row, e : v = Audited([w EXCEPT !.rules = Append(w.rules, row)], e)
    BY <1>4 DEF Effect, AddRule
  <2>2. PICK row, e, rs : rs = Append(w.rules, row) /\ v = Audited([w EXCEPT !.rules = rs], e)
    BY <2>1
  <2>3. v.budgets = w.budgets /\ v.rules = rs
    <3>1. Writes(Audited([w EXCEPT !.rules = rs], e), w, e, w.categories, w.merchants, rs, w.budgets, w.family)
      BY RulesWritten
    <3>. QED  BY <2>2, <3>1 DEF Writes
  <2>. QED  BY <1>4, <2>2, <2>3 DEF BudgetsBecome, RulesBecome
<1>5. CASE call.end = "drop"
  <2>1. \E q, e : v = Audited([w EXCEPT !.rules = [w.rules EXCEPT ![call.rule] = q]], e)
    BY <1>5 DEF Effect, DropRule
  <2>2. PICK q, e, rs : rs = [w.rules EXCEPT ![call.rule] = q] /\ v = Audited([w EXCEPT !.rules = rs], e)
    BY <2>1
  <2>3. v.budgets = w.budgets /\ v.rules = rs
    <3>1. Writes(Audited([w EXCEPT !.rules = rs], e), w, e, w.categories, w.merchants, rs, w.budgets, w.family)
      BY RulesWritten
    <3>. QED  BY <2>2, <3>1 DEF Writes
  <2>. QED  BY <1>5, <2>2, <2>3 DEF BudgetsBecome, RulesBecome
<1>. QED  BY <1>1, <1>2, <1>3, <1>4, <1>5 DEF Ends

LEMMA EffectTracks ==
  ASSUME NEW w, Tabled(w), NEW call, call.end \in Ends, NEW base, NEW u, u = Effect(w, call, base),
         NEW v, v.budgets = u.budgets, v.rules = u.rules,
         v.family.currency = w.family.currency, Rebased(w.trail) => Rebased(v.trail),
         \A r \in v.records : r \in w.records \/ (Keyed(call) /\ r.end = call.end /\ r.key = call.key)
  PROVE  Tracks(v, w, Footprint(call))
<1>1. Shaped(w)
  BY DEF Tabled
<1>2. \A m \in Months : BudgetAt(m) \notin Footprint(call) => v.budgets[m] = w.budgets[m]
  <2>1. CASE u.budgets = w.budgets
    BY <2>1
  <2>2. ASSUME call.end \in {"budget", "archive"}, NEW q, u.budgets = [w.budgets EXCEPT ![call.month] = q]
        PROVE  \A m \in Months : BudgetAt(m) \notin Footprint(call) => v.budgets[m] = w.budgets[m]
    <3>1. PICK bs : bs = w.budgets
      OBVIOUS
    <3>2. bs = [m \in Months |-> bs[m]]
      BY <3>1 DEF Tabled
    <3>3. v.budgets = [bs EXCEPT ![call.month] = q]
      BY <2>2, <3>1
    <3>4. \A m \in Months : m # call.month => v.budgets[m] = bs[m]
      BY <3>2, <3>3
    <3>. QED  BY <2>2, <3>1, <3>4, FootprintHas
  <2>3. BudgetsBecome(u.budgets, w.budgets, call)
    BY <1>1, EffectTables
  <2>. QED  BY <2>1, <2>2, <2>3 DEF BudgetsBecome
<1>3. \A n : RuleAt(n) \notin Footprint(call) => (LiveRule(w, n) => LiveRule(v, n))
  <2>1. PICK rs : rs = w.rules
    OBVIOUS
  <2>2. CASE u.rules = w.rules
    BY <2>2 DEF LiveRule
  <2>3. ASSUME NEW row, u.rules = Append(rs, row)
        PROVE  \A n : LiveRule(w, n) => LiveRule(v, n)
    <3>1. Extends(Append(rs, row), rs, row)
      BY <2>1, AppendExtends DEF Tabled
    <3>2. \A n \in DOMAIN rs : n \in DOMAIN v.rules /\ v.rules[n] = rs[n]
      BY <2>3, <3>1 DEF Extends
    <3>. QED  BY <2>1, <3>2 DEF LiveRule
  <2>4. ASSUME call.end = "drop", NEW q, u.rules = [rs EXCEPT ![call.rule] = q]
        PROVE  \A n : RuleAt(n) \notin Footprint(call) => (LiveRule(w, n) => LiveRule(v, n))
    <3>1. PICK S : rs \in Seq(S)
      BY <2>1 DEF Tabled, Sequence
    <3>2. \A n \in DOMAIN rs : n # call.rule => n \in DOMAIN v.rules /\ v.rules[n] = rs[n]
      BY <2>4, <3>1
    <3>3. RuleAt(call.rule) \in Footprint(call)
      BY <2>4, FootprintHas
    <3>. QED  BY <2>1, <3>2, <3>3 DEF LiveRule
  <2>5. RulesBecome(u.rules, w.rules, call)
    BY <1>1, EffectTables
  <2>. QED  BY <2>1, <2>2, <2>3, <2>4, <2>5 DEF RulesBecome
<1>4. \A r \in v.records : RecordAt(r.end, r.key) \notin Footprint(call) => r \in w.records
  BY FootprintHas
<1>. QED  BY <1>2, <1>3, <1>4 DEF Tracks

-----------------------------------------------------------------------------
(* The log explains the present.                                           *)

LInv == HInv /\ LogFits(db) /\ BaseFits(db) /\ KeysFit(db) /\ (\A r \in answers : Kept(db, r)) /\ Watches(desk, db)

LEMMA LInitLInv == HouseholdInit => LInv
<1>. SUFFICES ASSUME HouseholdInit PROVE LInv
  OBVIOUS
<1>. DEFINE cs == [i \in DOMAIN SystemCategories |->
               Category(SystemCategories[i].name, SystemCategories[i].type, "system", FALSE, None)]
<1>1. HInv
  BY HInitHInv
<1>2. PICK w : w = db
  OBVIOUS
<1>3. /\ Shaped(w) /\ w.categories = cs /\ w.merchants = <<>> /\ w.rules = <<>> /\ w.trail = <<>>
      /\ w.budgets = [m \in Months |-> NoBudget] /\ w.records = {}
      /\ w.family = [zone |-> w.family.zone, currency |-> w.family.currency]
  <2>1. PICK bs : bs = [m \in Months |-> NoBudget]
    OBVIOUS
  <2>2. PICK zone \in Zones, b \in Bases :
         w = [categories |-> cs, merchants |-> <<>>, rules |-> <<>>, budgets |-> bs,
              family |-> [zone |-> zone, currency |-> b], rows |-> <<>>, records |-> {}, trail |-> <<>>]
    BY <1>2, <2>1 DEF HouseholdInit
  <2>. HIDE DEF cs
  <2>. QED  BY <2>1, <2>2 DEF Shaped
<1>. HIDE DEF cs
<1>4. Tabled(w)
  <2>1. Sequence(w.categories)
    BY <1>1, <1>2 DEF HInv, Tables, CategoriesSound, Sequence
  <2>2. Sequence(<<>>)
    <3>1. <<>> \in Seq({})
      OBVIOUS
    <3>. QED  BY <3>1 DEF Sequence
  <2>3. w.budgets = [m \in Months |-> w.budgets[m]] /\ \A m \in Months : BudgetRow(w.budgets[m])
    <3>1. BudgetRow(NoBudget)
      BY DEF BudgetRow, NoBudget
    <3>2. PICK bs : bs = w.budgets
      OBVIOUS
    <3>3. bs = [m \in Months |-> NoBudget]
      BY <1>3, <3>2
    <3>4. bs = [m \in Months |-> bs[m]] /\ \A m \in Months : bs[m] = NoBudget
      BY <3>3
    <3>. QED  BY <3>1, <3>2, <3>4
  <2>. QED  BY <1>3, <2>1, <2>2, <2>3, EmptyTuple DEF Tabled
<1>5. Mentioned(w)
  BY <1>3, EmptyTuple DEF Mentioned
<1>6. LogFits(w)
  BY <1>3, <1>4, <1>5, EmptyTuple DEF LogFits
<1>9. BaseFits(w)
  <2>1. PICK bs : bs = w.budgets
    OBVIOUS
  <2>2. \A m \in Months : bs[m] = NoBudget
    BY <1>3, <2>1
  <2>. QED  BY <1>3, <2>1, <2>2, EmptyTuple DEF BaseFits
<1>7. KeysFit(w)
  BY <1>3, EmptyTuple DEF KeysFit
<1>8. answers = {} /\ Watches(desk, db)
  BY DEF HouseholdInit, Watches, Free
<1>. QED  BY <1>1, <1>2, <1>6, <1>7, <1>8, <1>9 DEF LInv

\* Nothing but the desk of a clerk changes, and what the callers were told.
LEMMA DeskLogged ==
  ASSUME LInv, HInv', db' = db, NEW c \in Clerks, NEW d, d.pc = "open" => Watching(d, db),
         desk' = [desk EXCEPT ![c] = d], \A r \in answers' : r \in answers \/ Kept(db, r)
  PROVE  LInv'
<1>1. Desks /\ Watches(desk, db)
  BY DEF LInv, HInv
<1>2. PICK ds : ds = [desk EXCEPT ![c] = d]
  OBVIOUS
<1>3. Watches(ds, db)
  BY <1>1, <1>2, WatchesBegin
<1>4. LogFits(db) /\ BaseFits(db) /\ KeysFit(db) /\ \A r \in answers' : Kept(db, r)
  BY DEF LInv
<1>. QED  BY <1>2, <1>3, <1>4 DEF LInv

LEMMA FreeIsShut == Free.pc # "open"
BY DEF Free

LEMMA TellLogged ==
  ASSUME LInv, HInv', NEW c \in Clerks, NEW call, NEW answer, Tell(c, call, answer),
         Keyed(call) /\ answer[2] = "done" =>
           \E s \in db.records : s.end = call.end /\ s.key = call.key /\ s.answer = answer
  PROVE  LInv'
<1>1. PICK r : r = [call |-> call, answer |-> answer]
  OBVIOUS
<1>2. r.call = call /\ r.answer = answer
  BY <1>1
<1>3. Kept(db, r)
  BY <1>2 DEF Kept
<1>4. \A s \in answers' : s \in answers \/ Kept(db, s)
  BY <1>1, <1>3 DEF Tell
<1>. QED  BY <1>4, DeskLogged, FreeIsShut DEF Tell

LEMMA RecalledIsKept ==
  ASSUME NEW w, NEW call, Known(w, call), Recalled(w, call)[2] = "done"
  PROVE  \E s \in w.records : s.end = call.end /\ s.key = call.key /\ s.answer = Recalled(w, call)
<1>1. PICK r : r = CHOOSE s \in RecordsOf(w, call) : TRUE
  OBVIOUS
<1>2. r \in RecordsOf(w, call)
  BY <1>1 DEF Known
<1>3. Recalled(w, call) = r.answer
  BY <1>1 DEF Recalled, Refusal
<1>. QED  BY <1>2, <1>3 DEF RecordsOf

LEMMA VerdictIsNotDone ==
  ASSUME NEW w, NEW call, call.end \in Ends
  PROVE  Verdict(w, call) # "done"
BY DEF Verdict, Ends, CategoryVerdict, MerchantVerdict, BudgetVerdict, RuleVerdict

LEMMA TakeUpLogged ==
  ASSUME LInv, HInv', NEW c \in Clerks, NEW call \in Wanted, TakeUp(c, call)
  PROVE  LInv'
BY BegunWatches, DeskLogged DEF TakeUp

LEMMA DeclineLogged ==
  ASSUME LInv, HInv', NEW c \in Clerks, Decline(c)
  PROVE  LInv'
<1>1. PICK t : t = desk[c]
  OBVIOUS
<1>2. HInv
  BY DEF LInv
<1>3. Seeing(t) /\ t.call \in Wanted /\ t.snap.records \in SUBSET db.records
  BY <1>1, <1>2, DeskCases DEF Decline, Seeing
<1>4. PICK w, call : w = t.snap /\ call = t.call
  OBVIOUS
<1>5. CASE Known(w, call) /\ Tell(c, call, Recalled(w, call))
  <2>1. PICK answer : answer = Recalled(w, call)
    OBVIOUS
  <2>2. answer[2] = "done" => \E s \in db.records : s.end = call.end /\ s.key = call.key /\ s.answer = answer
    BY <1>3, <1>4, <1>5, <2>1, RecalledIsKept
  <2>. QED  BY <1>5, <2>1, <2>2, TellLogged
<1>6. CASE Tell(c, call, Refusal(call, Verdict(w, call)))
  <2>1. call.end \in Ends
    BY <1>3, <1>4, HouseholdAssumption
  <2>2. PICK answer : answer = Refusal(call, Verdict(w, call))
    OBVIOUS
  <2>3. answer[2] # "done"
    BY <2>1, <2>2, VerdictIsNotDone, RefusalIsNone
  <2>. QED  BY <1>6, <2>2, <2>3, TellLogged
<1>. QED  BY <1>1, <1>4, <1>5, <1>6 DEF Decline

LEMMA RetryLogged ==
  ASSUME LInv, HInv', NEW c \in Clerks, Retry(c)
  PROVE  LInv'
BY BegunWatches, DeskLogged DEF Retry

LEMMA RefusedLogged ==
  ASSUME LInv, HInv', NEW c \in Clerks, NEW call, NEW why, why # "done", Tell(c, call, Refusal(call, why))
  PROVE  LInv'
<1>1. PICK answer : answer = Refusal(call, why)
  OBVIOUS
<1>2. answer[2] # "done"
  BY <1>1, RefusalIsNone
<1>. QED  BY <1>1, <1>2, TellLogged

LEMMA NameRefusedLogged ==
  ASSUME LInv, HInv', NEW c \in Clerks, NameRefused(c)
  PROVE  LInv'
<1>1. PICK call : call = desk[c].call
  OBVIOUS
<1>2. CASE \E why \in {"error", "duplicate"} : Tell(c, call, Refusal(call, why))
  BY <1>2, RefusedLogged
<1>3. CASE desk' = [desk EXCEPT ![c] = Begun(call, TRUE)] /\ UNCHANGED <<db, answers, inputs>>
  BY <1>3, BegunWatches, DeskLogged
<1>. QED  BY <1>1, <1>2, <1>3 DEF NameRefused

LEMMA KeyRefusedLogged ==
  ASSUME LInv, HInv', NEW c \in Clerks, KeyRefused(c)
  PROVE  LInv'
<1>1. PICK call : call = desk[c].call
  OBVIOUS
<1>2. CASE Tell(c, call, Refusal(call, "error"))
  BY <1>2, RefusedLogged
<1>3. CASE desk' = [desk EXCEPT ![c] = Rescue(call)] /\ UNCHANGED <<db, answers, inputs>>
  <2>1. Rescue(call).pc # "open"
    BY DEF Rescue
  <2>. QED  BY <1>3, <2>1, DeskLogged
<1>. QED  BY <1>1, <1>2, <1>3 DEF KeyRefused

LEMMA ResolveLogged ==
  ASSUME LInv, HInv', NEW c \in Clerks, Resolve(c)
  PROVE  LInv'
<1>1. PICK call : call = desk[c].call
  OBVIOUS
<1>2. CASE Known(db, call)
  <2>1. PICK answer : answer = Recalled(db, call)
    OBVIOUS
  <2>2. answer[2] = "done" => \E s \in db.records : s.end = call.end /\ s.key = call.key /\ s.answer = answer
    BY <1>2, <2>1, RecalledIsKept
  <2>3. Tell(c, call, answer)
    BY <1>1, <1>2, <2>1 DEF Resolve
  <2>. QED  BY <2>2, <2>3, TellLogged
<1>3. CASE ~Known(db, call)
  <2>1. Tell(c, call, Refusal(call, "error"))
    BY <1>1, <1>3 DEF Resolve
  <2>. QED  BY <2>1, RefusedLogged
<1>. QED  BY <1>2, <1>3

LEMMA GiveUpLogged ==
  ASSUME LInv, HInv', NEW c \in Clerks, GiveUp(c)
  PROVE  LInv'
BY FreeIsShut, DeskLogged DEF GiveUp

\* An answer is kept, and nothing else is written.
LEMMA RecordedStays ==
  ASSUME NEW w, Shaped(w), NEW call, NEW answer, NEW v, v = Recorded(w, call, answer)
  PROVE  /\ Shaped(v) /\ v.trail = w.trail /\ v.categories = w.categories /\ v.merchants = w.merchants
         /\ v.rules = w.rules /\ v.budgets = w.budgets /\ v.family = w.family
         /\ v.records = IF Keyed(call) THEN w.records \cup {Entry(call, answer)} ELSE w.records
<1>1. CASE ~Keyed(call)
  BY <1>1 DEF Recorded
<1>2. CASE Keyed(call)
  <2>1. PICK rs : rs = w.records \cup {Entry(call, answer)}
    OBVIOUS
  <2>2. v = [w EXCEPT !.records = rs]
    BY <1>2, <2>1 DEF Recorded, Entry
  <2>3. /\ Shaped(v) /\ v.trail = w.trail /\ v.categories = w.categories /\ v.merchants = w.merchants
        /\ v.rules = w.rules /\ v.budgets = w.budgets /\ v.family = w.family /\ v.records = rs
    BY <2>2 DEF Shaped
  <2>. QED  BY <1>2, <2>1, <2>3
<1>. QED  BY <1>1, <1>2

\* What a transaction that is told of no change has seen of its request is so.
LEMMA SeenIsSo ==
  ASSUME NEW d, NEW w, Watching(d, w), NEW call, call \in Wanted, d.call = call,
         d.changed \cap Footprint(call) = {}, Fresh(d)
  PROVE  Grounded(w, call) /\ (Keyed(call) => RecordsOf(w, call) = {})
<1>1. PICK snap, ch : snap = d.snap /\ ch = d.changed
  OBVIOUS
<1>2. call.end \in Ends /\ (call.end \in {"budget", "archive"} => call.month \in Months)
  BY HouseholdAssumption
<1>3. ~Known(snap, call) /\ Verdict(snap, call) = "fine"
  BY <1>1 DEF Fresh
<1>4. ASSUME call.end = "archive" PROVE w.budgets[call.month] # NoBudget
  <2>1. snap.budgets[call.month] # NoBudget
    BY <1>3, <1>4 DEF Verdict
  <2>2. BudgetAt(call.month) \notin ch
    BY <1>1, <1>2, <1>4, FootprintHas
  <2>. QED  BY <1>1, <1>2, <1>4, <2>1, <2>2 DEF Watching
<1>5. ASSUME call.end = "drop" PROVE LiveRule(w, call.rule)
  <2>1. LiveRule(snap, call.rule)
    BY <1>3, <1>5 DEF Verdict
  <2>2. RuleAt(call.rule) \notin ch
    BY <1>1, <1>2, <1>5, FootprintHas
  <2>. QED  BY <1>1, <2>1, <2>2 DEF Watching
<1>6. ASSUME Keyed(call) PROVE RecordsOf(w, call) = {}
  <2>1. RecordsOf(snap, call) = {}
    BY <1>3, <1>6 DEF Known
  <2>2. RecordAt(call.end, call.key) \notin ch
    BY <1>1, <1>2, <1>6, FootprintHas
  <2>3. \A r \in w.records : r.end = call.end /\ r.key = call.key => r \in snap.records
    BY <1>1, <2>2 DEF Watching
  <2>. QED  BY <2>1, <2>3 DEF RecordsOf
<1>. QED  BY <1>2, <1>4, <1>5, <1>6 DEF Grounded

LEMMA CommitLogged ==
  ASSUME LInv, HInv', NEW c \in Clerks, Commit(c)
  PROVE  LInv'
<1>1. PICK t, call : t = desk[c] /\ call = t.call
  OBVIOUS
<1>0. PICK base : base = t.snap.family.currency
  OBVIOUS
<1>2. PICK answer : answer = Reply(Effect(t.snap, t.call, base), t.call)
  OBVIOUS
<1>3. PICK w, u, v : w = db /\ u = Effect(w, call, base) /\ v = db'
  OBVIOUS
<1>4. /\ t.pc = "open" /\ Fresh(t) /\ t.changed \cap Footprint(call) = {}
      /\ v = Recorded(u, call, answer)
      /\ desk' = Informed([desk EXCEPT ![c] = Free], Footprint(call))
      /\ answers' = answers \cup {[call |-> call, answer |-> answer]}
  BY <1>0, <1>1, <1>2, <1>3 DEF Commit
<1>5. LogFits(w) /\ BaseFits(w) /\ KeysFit(w) /\ Watches(desk, w) /\ Desks /\ (\A r \in answers : Kept(w, r)) /\ HInv
  BY <1>3 DEF LInv, HInv
<1>6. call \in Wanted /\ call.end \in Ends
  BY <1>1, <1>4, <1>5, DeskCases, HouseholdAssumption DEF Seeing
<1>7. Tabled(w) /\ Shaped(w) /\ Sequence(w.trail)
  BY <1>5 DEF LogFits, Tabled
<1>8. /\ Grounded(w, call) /\ (Keyed(call) => RecordsOf(w, call) = {})
      /\ base = w.family.currency \/ Rebased(w.trail)
  <2>1. Watching(t, w)
    BY <1>1, <1>4, <1>5 DEF Watches
  <2>2. base = w.family.currency \/ Rebased(w.trail)
    BY <1>0, <2>1 DEF Watching
  <2>. QED  BY <1>1, <1>4, <1>6, <2>1, <2>2, SeenIsSo
<1>9. LogFits(u)
  BY <1>3, <1>5, <1>6, <1>8, EffectLogged
<1>10. u.records = w.records
  <2>1. Made(Effect(w, call, base), w, call)
    BY <1>6, <1>7, EffectFields
  <2>. QED  BY <1>3, <2>1 DEF Made
<1>11. Signs(u, w, call)
  BY <1>3, <1>6, <1>7, EffectSigns
<1>12. /\ Shaped(v) /\ v.trail = u.trail /\ v.categories = u.categories /\ v.merchants = u.merchants
       /\ v.rules = u.rules /\ v.budgets = u.budgets /\ v.family = u.family
       /\ v.records = IF Keyed(call) THEN w.records \cup {Entry(call, answer)} ELSE w.records
  <2>1. Shaped(u)
    BY <1>9 DEF LogFits, Tabled
  <2>. QED  BY <1>4, <1>10, <2>1, RecordedStays
<1>13. PICK x : x = Entry(call, answer)
  OBVIOUS
<1>14. x.end = call.end /\ x.key = call.key /\ x.answer = answer
  <2>1. PICK payload : payload = Payload(call)
    OBVIOUS
  <2>2. x = [end |-> call.end, key |-> call.key, payload |-> payload, answer |-> answer]
    BY <1>13, <2>1 DEF Entry
  <2>. QED  BY <2>2
<1>15. LogFits(v)
  BY <1>9, <1>12, LogStays
<1>20. BaseFits(v) /\ v.family = w.family /\ (Rebased(w.trail) => Rebased(v.trail))
  <2>1. BaseFits(u) /\ u.family = w.family /\ (Rebased(w.trail) => Rebased(u.trail))
    BY <1>3, <1>5, <1>6, <1>7, <1>8, EffectBase
  <2>. QED  BY <1>12, <2>1 DEF BaseFits
<1>16. Signs(v, w, call)
  BY <1>11, <1>12 DEF Signs
<1>17. KeysFit(v)
  <2>1. CASE Keyed(call)
    <3>1. v.records = w.records \cup {x}
      BY <1>12, <1>13, <2>1
    <3>. QED  BY <1>5, <1>6, <1>7, <1>8, <1>14, <1>16, <2>1, <3>1, KeysGrow
  <2>2. CASE ~Keyed(call)
    <3>1. v.records = w.records
      BY <1>12, <2>2
    <3>2. v.trail = w.trail \/ \E e : v.trail = Append(w.trail, e) /\ e.key = None
      BY <1>16, <2>2 DEF Signs
    <3>. QED  BY <1>5, <1>7, <3>1, <3>2, KeysStay
  <2>. QED  BY <2>1, <2>2
<1>18. \A r \in answers' : Kept(v, r)
  <2>1. w.records \in SUBSET v.records /\ (Keyed(call) => x \in v.records)
    BY <1>12, <1>13
  <2>2. ASSUME NEW r \in answers PROVE Kept(v, r)
    BY <1>5, <2>1 DEF Kept
  <2>3. PICK r : r = [call |-> call, answer |-> answer]
    OBVIOUS
  <2>4. r.call = call /\ r.answer = answer
    BY <2>3
  <2>5. Kept(v, r)
    BY <1>14, <2>1, <2>4 DEF Kept
  <2>. QED  BY <1>4, <2>2, <2>3, <2>5
<1>19. Watches(desk', v)
  <2>1. \A r \in v.records : r \in w.records \/ (Keyed(call) /\ r.end = call.end /\ r.key = call.key)
    BY <1>12, <1>13, <1>14
  <2>2. v.budgets = u.budgets /\ v.rules = u.rules
    BY <1>12
  <2>3. Tracks(v, w, Footprint(call))
    BY <1>3, <1>6, <1>7, <1>20, <2>1, <2>2, EffectTracks
  <2>4. Watches(Informed([desk EXCEPT ![c] = Free], Footprint(call)), v)
    BY <1>5, <2>3, WatchesFollow
  <2>. QED  BY <1>4, <2>4
<1>. QED  BY <1>3, <1>15, <1>17, <1>18, <1>19, <1>20 DEF LInv

\* What another writer does that has no key, and is neither budget nor rule.
LEMMA OthersLogged ==
  ASSUME LInv, HInv', answers' = answers, NEW v, v = db', LogFits(v), BaseFits(v), v.records = db.records,
         v.family.currency = db.family.currency \/ Rebased(v.trail), Rebased(db.trail) => Rebased(v.trail),
         v.budgets = db.budgets, v.rules = db.rules,
         v.trail = db.trail \/ \E e : v.trail = Append(db.trail, e) /\ e.key = None,
         desk' = desk \/ \E news : desk' = Informed(desk, news)
  PROVE  LInv'
<1>1. PICK w : w = db
  OBVIOUS
<1>2. LogFits(w) /\ KeysFit(w) /\ Watches(desk, w) /\ Desks /\ (\A r \in answers : Kept(w, r))
  BY <1>1 DEF LInv, HInv
<1>3. KeysFit(v)
  <2>1. Sequence(w.trail)
    BY <1>2 DEF LogFits, Tabled
  <2>. QED  BY <1>1, <1>2, <2>1, KeysStay
<1>4. \A r \in answers' : Kept(v, r)
  BY <1>1, <1>2 DEF Kept
<1>5. Watches(desk', v)
  <2>1. \A n : LiveRule(w, n) => LiveRule(v, n)
    BY <1>1 DEF LiveRule
  <2>2. CASE desk' = desk
    <3>. SUFFICES ASSUME NEW c \in Clerks, desk[c].pc = "open" PROVE Watching(desk[c], v)
      BY <2>2 DEF Watches
    <3>1. PICK d : d = desk[c]
      OBVIOUS
    <3>2. Watching(d, w)
      BY <1>2, <3>1 DEF Watches
    <3>3. d.snap.family.currency = v.family.currency \/ Rebased(v.trail)
      BY <1>1, <3>2 DEF Watching
    <3>4. /\ \A m \in Months : BudgetAt(m) \notin d.changed => d.snap.budgets[m] = v.budgets[m]
          /\ \A n : RuleAt(n) \notin d.changed => (LiveRule(d.snap, n) => LiveRule(v, n))
          /\ \A r \in v.records : RecordAt(r.end, r.key) \notin d.changed => r \in d.snap.records
      BY <1>1, <2>1, <3>2 DEF Watching
    <3>. QED  BY <3>1, <3>3, <3>4 DEF Watching
  <2>3. ASSUME NEW news, desk' = Informed(desk, news) PROVE Watches(desk', v)
    <3>1. Tracks(v, w, news)
      BY <1>1, <2>1 DEF Tracks
    <3>. QED  BY <1>2, <2>3, <3>1, WatchesHear
  <2>. QED  BY <2>2, <2>3
<1>. QED  BY <1>3, <1>4, <1>5 DEF LInv

LEMMA SpendLogged ==
  ASSUME LInv, HInv', NEW row \in Spendings, Spend(row)
  PROVE  LInv'
<1>1. PICK w, v, x : w = db /\ v = db' /\ x = Append(db.rows, row)
  OBVIOUS
<1>2. LogFits(w) /\ Shaped(w)
  BY <1>1 DEF LInv, LogFits, Tabled
<1>3. v = [w EXCEPT !.rows = x]
  BY <1>1 DEF Spend
<1>4. /\ Shaped(v) /\ v.trail = w.trail /\ v.categories = w.categories /\ v.merchants = w.merchants
      /\ v.rules = w.rules /\ v.budgets = w.budgets /\ v.family = w.family /\ v.records = w.records
  BY <1>2, <1>3 DEF Shaped
<1>5. LogFits(v)
  BY <1>2, <1>4, LogStays
<1>6. BaseFits(v)
  BY <1>1, <1>4 DEF LInv, BaseFits
<1>. QED  BY <1>1, <1>4, <1>5, <1>6, OthersLogged DEF Spend

LEMMA SetZoneLogged ==
  ASSUME LInv, HInv', NEW zone \in Zones, SetZone(zone)
  PROVE  LInv'
<1>1. PICK w, v : w = db /\ v = db'
  OBVIOUS
<1>2. LogFits(w) /\ Shaped(w) /\ Sequence(w.trail) /\ BaseFits(w)
  BY <1>1 DEF LInv, LogFits, Tabled
<1>3. PICK before, after : before = [zone |-> w.family.zone] /\ after = [zone |-> zone]
  OBVIOUS
<1>4. PICK e : e = Told(Settings, None, before, after)
  OBVIOUS
<1>5. PICK old, new : old = w.family /\ new = [zone |-> zone, currency |-> w.family.currency]
  OBVIOUS
<1>6. old = [zone |-> old.zone, currency |-> old.currency]
  BY <1>2, <1>5 DEF LogFits, Tabled
<1>7. v = Audited([w EXCEPT !.family = new], e)
  <2>1. [w EXCEPT !.family.zone = zone] = [w EXCEPT !.family = new]
    <3>1. [old EXCEPT !.zone = zone] = new
      BY <1>5, <1>6
    <3>. QED  BY <1>5, <3>1
  <2>. QED  BY <1>1, <1>3, <1>4, <2>1 DEF SetZone, Settings
<1>8. e.entity = Settings /\ e.key = None /\ e.before = before /\ e.after = after /\ e.currency = None
  BY <1>4, ToldFields
<1>10. Writes(v, w, e, w.categories, w.merchants, w.rules, w.budgets, new)
  BY <1>2, <1>7, FamilyWritten
<1>9. LogFits(v)
  <2>1. PICK F : F = {"zone"}
    OBVIOUS
  <2>2. new = [zone |-> new.zone, currency |-> new.currency]
    BY <1>5
  <2>3. F \in SUBSET FamilyFields /\ \A f \in FamilyFields : f \notin F => new[f] = w.family[f]
    BY <1>5, <2>1 DEF FamilyFields
  <2>4. /\ DOMAIN before = F /\ \A f \in F : before[f] = w.family[f]
        /\ DOMAIN after = F /\ \A f \in F : after[f] = new[f]
    BY <1>3, <1>5, <2>1
  <2>. QED  BY <1>2, <1>8, <1>10, <2>2, <2>3, <2>4, SettingLogged
<1>11. /\ v.trail = Append(w.trail, e) /\ v.family.currency = w.family.currency
       /\ v.records = w.records /\ v.budgets = w.budgets /\ v.rules = w.rules
  BY <1>5, <1>10 DEF Writes
<1>12. BaseFits(v) /\ (Rebased(w.trail) => Rebased(v.trail))
  BY <1>2, <1>8, <1>11, PlainBase
<1>. QED  BY <1>1, <1>8, <1>9, <1>11, <1>12, OthersLogged DEF SetZone

LEMMA SetBaseLogged ==
  ASSUME LInv, HInv', NEW b \in Bases, SetBase(b)
  PROVE  LInv'
<1>1. PICK w, v : w = db /\ v = db'
  OBVIOUS
<1>2. LogFits(w) /\ Shaped(w) /\ Sequence(w.trail) /\ BaseFits(w)
  BY <1>1 DEF LInv, LogFits, Tabled
<1>3. PICK before, after : before = [currency |-> w.family.currency] /\ after = [currency |-> b]
  OBVIOUS
<1>4. PICK e : e = Told(Settings, None, before, after)
  OBVIOUS
<1>5. PICK old, new : old = w.family /\ new = [zone |-> w.family.zone, currency |-> b]
  OBVIOUS
<1>6. old = [zone |-> old.zone, currency |-> old.currency]
  BY <1>2, <1>5 DEF LogFits, Tabled
<1>7. v = Audited([w EXCEPT !.family = new], e)
  <2>1. [w EXCEPT !.family.currency = b] = [w EXCEPT !.family = new]
    <3>1. [old EXCEPT !.currency = b] = new
      BY <1>5, <1>6
    <3>. QED  BY <1>5, <3>1
  <2>. QED  BY <1>1, <1>3, <1>4, <2>1 DEF SetBase, Settings
<1>8. e.entity = Settings /\ e.key = None /\ e.before = before /\ e.after = after /\ e.currency = None
  BY <1>4, ToldFields
<1>10. Writes(v, w, e, w.categories, w.merchants, w.rules, w.budgets, new)
  BY <1>2, <1>7, FamilyWritten
<1>9. LogFits(v)
  <2>1. PICK F : F = {"currency"}
    OBVIOUS
  <2>2. new = [zone |-> new.zone, currency |-> new.currency]
    BY <1>5
  <2>3. F \in SUBSET FamilyFields /\ \A f \in FamilyFields : f \notin F => new[f] = w.family[f]
    BY <1>5, <2>1 DEF FamilyFields
  <2>4. /\ DOMAIN before = F /\ \A f \in F : before[f] = w.family[f]
        /\ DOMAIN after = F /\ \A f \in F : after[f] = new[f]
    BY <1>3, <1>5, <2>1
  <2>. QED  BY <1>2, <1>8, <1>10, <2>2, <2>3, <2>4, SettingLogged
<1>11. /\ v.trail = Append(w.trail, e)
       /\ v.records = w.records /\ v.budgets = w.budgets /\ v.rules = w.rules
  BY <1>10 DEF Writes
<1>12. BaseFits(v) /\ Rebased(v.trail)
  <2>1. "currency" \in DOMAIN e.after
    BY <1>3, <1>8
  <2>2. Rebased(v.trail)
    BY <1>2, <1>8, <1>11, <2>1, RebasedGrows
  <2>3. BudgetsKeep(v, w)
    BY <1>11 DEF BudgetsKeep
  <2>. QED  BY <1>2, <1>8, <1>11, <2>2, <2>3, BaseGrows
<1>. QED  BY <1>1, <1>8, <1>9, <1>11, <1>12, OthersLogged DEF SetBase

LEMMA FindOrCreateLogged ==
  ASSUME LInv, HInv', NEW filed \in Filed, FindOrCreate(filed)
  PROVE  LInv'
<1>1. PICK w, v : w = db /\ v = db'
  OBVIOUS
<1>2. LogFits(w) /\ Shaped(w)
  BY <1>1 DEF LInv, LogFits, Tabled
<1>3. PICK call : call = [key |-> None, name |-> filed.name, type |-> filed.type, parent |-> None]
  OBVIOUS
<1>4. v = AddCategory(w, call) /\ call.key = None
  BY <1>1, <1>3 DEF FindOrCreate
<1>5. LogFits(v)
  BY <1>2, <1>4, AddCategoryLogged
<1>6. PICK row, cs, n : /\ row = Category(call.name, call.type, "family", FALSE, call.parent)
                       /\ cs = Append(w.categories, row) /\ n = Len(w.categories) + 1
  OBVIOUS
<1>7. PICK e : e = Told(CategoryAt(n), None, <<>>, row)
  OBVIOUS
<1>8. v = Audited([w EXCEPT !.categories = cs], e)
  BY <1>4, <1>6, <1>7 DEF AddCategory, CategoryAt
<1>9. Writes(v, w, e, cs, w.merchants, w.rules, w.budgets, w.family)
  BY <1>2, <1>8, CategoriesWritten
<1>10. /\ v.trail = Append(w.trail, e) /\ e.key = None /\ e.currency = None
       /\ v.records = w.records /\ v.budgets = w.budgets /\ v.rules = w.rules /\ v.family = w.family
  BY <1>7, <1>9, ToldFields DEF Writes
<1>11. BaseFits(v) /\ (Rebased(w.trail) => Rebased(v.trail))
  BY <1>1, <1>2, <1>10, PlainBase DEF LInv, LogFits, Tabled
<1>. QED  BY <1>1, <1>5, <1>10, <1>11, OthersLogged DEF FindOrCreate

LEMMA LastAppended ==
  ASSUME NEW s, Sequence(s), NEW row, NEW t, t = Append(s, row)
  PROVE  Len(t) = Len(s) + 1 /\ Last(t) = row
<1>1. Extends(Append(s, row), s, row)
  BY AppendExtends
<1>. QED  BY <1>1 DEF Extends, Last

LEMMA MigrateLogged ==
  ASSUME LInv, HInv', NEW row \in Migrated, Migrate(row)
  PROVE  LInv'
<1>1. PICK w, v : w = db /\ v = db'
  OBVIOUS
<1>2. LogFits(w) /\ Tabled(w) /\ Shaped(w)
  BY <1>1 DEF LInv, LogFits, Tabled
<1>3. CASE row.table = "categories"
  <2>1. PICK new, n, cs : /\ new = Category(row.name, row.type, "family", TRUE, None)
                          /\ n = Len(w.categories) + 1 /\ cs = Append(w.categories, new)
    OBVIOUS
  <2>2. new = [f \in {"name", "type", "owner", "bound", "parent"} |-> new[f]]
    BY <2>1 DEF Category
  <2>3. Len(cs) = n /\ Last(cs) = new
    <3>1. PICK s : s = w.categories
      OBVIOUS
    <3>2. Sequence(s)
      BY <1>2, <3>1 DEF Tabled
    <3>3. Len(cs) = Len(s) + 1 /\ Last(cs) = new
      BY <2>1, <3>1, <3>2, LastAppended
    <3>. QED  BY <2>1, <3>1, <3>3
  <2>4. PICK e : e = Told(CategoryAt(n), None, <<>>, new)
    OBVIOUS
  <2>5. v = Audited([w EXCEPT !.categories = cs], e)
    <3>1. PICK u : u = [w EXCEPT !.categories = cs]
      OBVIOUS
    <3>2. u["categories"] = cs
      BY <1>2, <3>1 DEF Shaped
    <3>3. v = Audited(u, Told(<<"category", Len(u["categories"])>>, None, <<>>, Last(u["categories"])))
      BY <1>1, <1>3, <2>1, <3>1 DEF Migrate
    <3>. QED  BY <2>3, <2>4, <3>1, <3>2, <3>3 DEF CategoryAt
  <2>6. LogFits(v)
    BY <1>2, <2>1, <2>2, <2>4, <2>5, CategoryLogged
  <2>7. Writes(v, w, e, cs, w.merchants, w.rules, w.budgets, w.family)
    BY <1>2, <2>5, CategoriesWritten
  <2>8. /\ v.trail = Append(w.trail, e) /\ e.key = None /\ e.currency = None
        /\ v.records = w.records /\ v.budgets = w.budgets /\ v.rules = w.rules /\ v.family = w.family
    BY <2>4, <2>7, ToldFields DEF Writes
  <2>9. BaseFits(v) /\ (Rebased(w.trail) => Rebased(v.trail))
    BY <1>1, <1>2, <2>8, PlainBase DEF LInv, LogFits, Tabled
  <2>. QED  BY <1>1, <2>6, <2>8, <2>9, OthersLogged DEF Migrate
<1>4. CASE row.table = "merchants"
  <2>1. PICK new, n, ms : /\ new = Merchant(row.name, row.type, TRUE)
                          /\ n = Len(w.merchants) + 1 /\ ms = Append(w.merchants, new)
    OBVIOUS
  <2>2. new = Merchant(new.name, new.kind, new.bound)
    BY <2>1 DEF Merchant
  <2>3. Len(ms) = n /\ Last(ms) = new
    <3>1. PICK s : s = w.merchants
      OBVIOUS
    <3>2. Sequence(s)
      BY <1>2, <3>1 DEF Tabled
    <3>3. Len(ms) = Len(s) + 1 /\ Last(ms) = new
      BY <2>1, <3>1, <3>2, LastAppended
    <3>. QED  BY <2>1, <3>1, <3>3
  <2>4. PICK e : e = Told(MerchantAt(n), None, <<>>, new)
    OBVIOUS
  <2>5. v = Audited([w EXCEPT !.merchants = ms], e)
    <3>1. PICK u : u = [w EXCEPT !.merchants = ms]
      OBVIOUS
    <3>2. u["merchants"] = ms
      BY <1>2, <3>1 DEF Shaped
    <3>3. v = Audited(u, Told(<<"merchant", Len(u["merchants"])>>, None, <<>>, Last(u["merchants"])))
      BY <1>1, <1>4, <2>1, <3>1 DEF Migrate
    <3>. QED  BY <2>3, <2>4, <3>1, <3>2, <3>3 DEF MerchantAt
  <2>6. LogFits(v)
    BY <1>2, <2>1, <2>2, <2>4, <2>5, MerchantLogged
  <2>7. Writes(v, w, e, w.categories, ms, w.rules, w.budgets, w.family)
    BY <1>2, <2>5, MerchantsWritten
  <2>8. /\ v.trail = Append(w.trail, e) /\ e.key = None /\ e.currency = None
        /\ v.records = w.records /\ v.budgets = w.budgets /\ v.rules = w.rules /\ v.family = w.family
    BY <2>4, <2>7, ToldFields DEF Writes
  <2>9. BaseFits(v) /\ (Rebased(w.trail) => Rebased(v.trail))
    BY <1>1, <1>2, <2>8, PlainBase DEF LInv, LogFits, Tabled
  <2>. QED  BY <1>1, <2>6, <2>8, <2>9, OthersLogged DEF Migrate
<1>. QED  BY <1>3, <1>4, HouseholdAssumption

LEMMA LNext ==
  ASSUME LInv, [HouseholdNext]_householdVars
  PROVE  LInv'
<1>1. HInv'
  BY HNext DEF LInv
<1>2. CASE UNCHANGED householdVars
  BY <1>1, <1>2 DEF householdVars, LInv
<1>3. ASSUME NEW c \in Clerks, NEW call \in Wanted, TakeUp(c, call) PROVE LInv'
  BY <1>1, <1>3, TakeUpLogged
<1>4. ASSUME NEW c \in Clerks,
             \/ Decline(c) \/ Commit(c) \/ Retry(c) \/ NameRefused(c) \/ KeyRefused(c)
             \/ Resolve(c) \/ GiveUp(c)
      PROVE  LInv'
  BY <1>1, <1>4, DeclineLogged, CommitLogged, RetryLogged, NameRefusedLogged, KeyRefusedLogged,
     ResolveLogged, GiveUpLogged
<1>5. ASSUME NEW row \in Spendings, Spend(row) PROVE LInv'
  BY <1>1, <1>5, SpendLogged
<1>6. ASSUME NEW zone \in Zones, SetZone(zone) PROVE LInv'
  BY <1>1, <1>6, SetZoneLogged
<1>9. ASSUME NEW b \in Bases, SetBase(b) PROVE LInv'
  BY <1>1, <1>9, SetBaseLogged
<1>7. ASSUME NEW row \in Migrated, Migrate(row) PROVE LInv'
  BY <1>1, <1>7, MigrateLogged
<1>8. ASSUME NEW filed \in Filed, FindOrCreate(filed) PROVE LInv'
  BY <1>1, <1>8, FindOrCreateLogged
<1>. QED  BY <1>2, <1>3, <1>4, <1>5, <1>6, <1>7, <1>8, <1>9 DEF HouseholdNext

LEMMA TrailFollows == LInv => TrailTellsThePresent
<1>. SUFFICES ASSUME LInv PROVE TrailTellsThePresent
  OBVIOUS
<1>1. PICK w, s : w = db /\ s = db.trail
  OBVIOUS
<1>2. LogFits(w) /\ BaseFits(w) /\ KeysFit(w) /\ (\A r \in answers : Kept(w, r))
  BY <1>1 DEF LInv
<1>3. ASSUME NEW i \in DOMAIN s
      PROVE  LET told == Telling(SubSeq(s, 1, i - 1), s[i].entity) IN
             \A f \in DOMAIN s[i].before :
               IF f \in DOMAIN told THEN s[i].before[f] = told[f] ELSE s[i].entity = <<"family">>
  <2>1. Explains(SubSeq(s, 1, i - 1), s[i])
    BY <1>1, <1>2 DEF LogFits
  <2>. QED  BY <2>1 DEF Explains, Settings
<1>4. \A i \in DOMAIN s : Telling(s, s[i].entity) = Present(w, s[i].entity)
  BY <1>1, <1>2 DEF LogFits
<1>5. \A i, j \in DOMAIN s : s[i].key # None /\ s[j].key = s[i].key /\ s[j].entity[1] = s[i].entity[1] => j = i
  BY <1>1, <1>2 DEF KeysFit
<1>6. ASSUME NEW r \in Accepted, NEW t \in Accepted, Keyed(r.call), t.call.end = r.call.end, t.call.key = r.call.key
      PROVE  t.answer = r.answer
  <2>1. Keyed(t.call)
    BY <1>6 DEF Keyed
  <2>2. PICK x \in w.records : x.end = r.call.end /\ x.key = r.call.key /\ x.answer = r.answer
    BY <1>2, <1>6 DEF Kept, Accepted
  <2>3. PICK y \in w.records : y.end = t.call.end /\ y.key = t.call.key /\ y.answer = t.answer
    BY <1>2, <1>6, <2>1 DEF Kept, Accepted
  <2>4. x = y
    BY <1>2, <1>6, <2>2, <2>3 DEF KeysFit
  <2>. QED  BY <2>2, <2>3, <2>4
<1>7. \A i \in DOMAIN s : s[i].currency # None =>
        s[i].currency = w.budgets[s[i].entity[2]].currency \/ Rebased(SubSeq(s, 1, i - 1))
  <2>1. \A m : BudgetAt(m)[2] = m
    BY DEF BudgetAt
  <2>. QED  BY <1>1, <1>2, <2>1 DEF BaseFits
<1>. QED  BY <1>1, <1>3, <1>4, <1>5, <1>6, <1>7 DEF TrailTellsThePresent

\* The audit log explains the present, but for the policies and the currencies that
\* the property names, and an accepted key is in it once and has one answer: for any
\* number of clerks, whatever is requested, sent again, migrated and filed, whatever
\* becomes of the zone and of the base currency, and however transactions overlap and
\* are run again.
THEOREM LogExplains == HouseholdSpec => []TrailTellsThePresent
<1>1. LInv /\ [HouseholdNext]_householdVars => LInv'
  BY LNext
<1>. QED  BY <1>1, LInitLInv, TrailFollows, PTL DEF HouseholdSpec

=============================================================================
