-------------------------- MODULE MembershipProofs --------------------------
(***************************************************************************)
(* Proofs about Membership, for any users, handlers and bound on calls.    *)
(*                                                                         *)
(* The argument is one about snapshots.  What an open transaction has not  *)
(* been told is changed is still as it read it (Fresh), so a commit that   *)
(* overwrites nothing changed writes over what it has read.  And as long   *)
(* as SERIALIZABLE would let an open transaction that takes an owner away  *)
(* commit, every owner it counted is still one (Counted): whoever took one *)
(* away meanwhile had counted all the rows, and so had read the row that   *)
(* this one overwrites.                                                    *)
(*                                                                         *)
(* The other sections are about Reports and Holdings.  What a row shows in *)
(* the base currency of the family is never stale, and what is reported is *)
(* what is in the book.  An account of holdings is worth its positions,    *)
(* and what they have cost strays from what was paid by the roundings.     *)
(***************************************************************************)
EXTENDS Membership, Reports, Holdings, CollectionTheorems, SequenceTheorems, TLAPS

-----------------------------------------------------------------------------
(* Types. *)

RowKeys == {MemberRow(f, u) : f \in Families, u \in Users} \cup {UserRow(u) : u \in Users}

Ready == [pc: {"ready"}, actor: Users, family: Families, role: AllRoles, req: Request]
InFlight == [pc: {"open"}, actor: Users, family: Families, role: AllRoles, req: Request,
             snap: Table, homeless: BOOLEAN, changed: SUBSET RowKeys, pivot: BOOLEAN,
             doomed: BOOLEAN, moved: BOOLEAN]

Types ==
  /\ member \in [Families -> Table]
  /\ home \in [Users -> Families \cup {Nobody}]
  /\ handler \in [Handlers -> {Idle} \cup Ready \cup InFlight]
  /\ updates \in Nat

\* Whoever makes a call has a member row, revoked or not, in the family of it.
Known(call) == call.pc # "idle" => member[call.family][call.actor] # Nobody
CallersAreKnown == \A h \in Handlers : Known(handler[h])

IsOpen(h) == handler[h].pc = "open"
FamilyOf(h) == handler[h].family

\* What others have not changed is as the snapshot has it.
Fresh(h) ==
  LET tx == handler[h] IN
  /\ \A u \in Users : MemberRow(FamilyOf(h), u) \notin tx.changed =>
       tx.snap[u] = member[FamilyOf(h)][u]
  /\ tx.homeless /\ ~tx.moved /\ UserRow(tx.req.target) \notin tx.changed =>
       home[tx.req.target] = Nobody

\* What an open transaction is going to write passed the trigger and the policies.
Decided(tx) ==
  /\ After(tx) \in Outcome(tx.snap, tx)
  /\ TriggerPasses(tx.snap, After(tx))
  /\ PolicyPasses(tx.snap, After(tx), tx.actor)

\* The owners that an open transaction counted are still there.
Counted(h) ==
  LET tx == handler[h] IN
  StepsDown(tx) /\ ~(tx.pivot /\ Read(tx) \cap tx.changed # {}) =>
    \A u \in Users : Owner(tx.snap, u) => Owner(member[FamilyOf(h)], u)

IInv ==
  /\ Types
  /\ CallersAreKnown
  /\ FamilyHasOwner
  /\ \A h \in Handlers : IsOpen(h) => Fresh(h) /\ Decided(handler[h]) /\ Counted(h)

-----------------------------------------------------------------------------
(* What a call writes. *)

USE MembershipAssumption, NobodyIsNoRow

\* Every call writes its target's row, and a transfer of ownership its actor's;
\* the other rows of its outcome are those of the table it began with.
LEMMA OutcomeRows ==
  ASSUME NEW table \in Table, NEW call, call.role \in AllRoles, call.actor \in Users,
         call.req \in Request, NEW after \in Outcome(table, call)
  PROVE  /\ after \in Table
         /\ \A u \in Users : after[u] # table[u] =>
              u = call.req.target \/ (call.req.op = "transfer" /\ u = call.actor)
         /\ \A u \in Users : table[u] # Nobody => after[u] # Nobody
         /\ call.req.op = "add" => Active(after, call.req.target)
<1>. DEFINE t == call.req.target
<1>0. t \in Users /\ call.req.op \in {"add", "update", "remove", "transfer"}
  BY DEF Request
<1>1. CASE call.req.op = "add"
  <2>1. call.req.role \in AllRoles
    BY <1>1 DEF Request, AllRoles
  <2>2. after = [table EXCEPT ![t] = [role |-> call.req.role, status |-> "active"]]
    BY <1>1 DEF Outcome, AddMember
  <2>3. [role |-> call.req.role, status |-> "active"] \in Row
    BY <2>1 DEF Row
  <2>. QED  BY <1>0, <1>1, <2>2, <2>3 DEF Table, Active
<1>2. CASE call.req.op = "update"
  <2>1. call.req.role \in AllRoles
    BY <1>2 DEF Request, AllRoles
  <2>2. /\ Active(table, t)
        /\ after = [table EXCEPT ![t].role = call.req.role]
    BY <1>2 DEF Outcome, UpdateRole
  <2>3. table[t] \in Row
    BY <1>0, <2>2 DEF Table, Active
  <2>4. [table[t] EXCEPT !.role = call.req.role] \in Row
    BY <2>1, <2>3 DEF Row
  <2>. QED  BY <1>0, <1>2, <2>2, <2>4 DEF Table
<1>3. CASE call.req.op = "remove"
  <2>1. /\ table[t] # Nobody
        /\ after = [table EXCEPT ![t].status = "revoked"]
    BY <1>3 DEF Outcome, RemoveMember
  <2>2. table[t] \in Row
    BY <1>0, <2>1 DEF Table
  <2>3. [table[t] EXCEPT !.status = "revoked"] \in Row
    BY <2>2 DEF Row
  <2>. QED  BY <1>0, <1>3, <2>1, <2>3 DEF Table
<1>4. CASE call.req.op = "transfer"
  <2>1. /\ Owner(table, call.actor) /\ Active(table, t)
        /\ after = [table EXCEPT ![t].role = "owner", ![call.actor].role = "admin"]
    BY <1>4 DEF Outcome, TransferOwnership
  <2>2. table[t] \in Row /\ table[call.actor] \in Row
    BY <1>0, <2>1 DEF Table, Active, Owner
  <2>. DEFINE mid == [table EXCEPT ![t].role = "owner"]
  <2>3. [table[t] EXCEPT !.role = "owner"] \in Row
    BY <2>2 DEF Row, AllRoles
  <2>4. mid \in Table /\ mid[call.actor] \in Row /\ mid[t] \in Row
    BY <1>0, <2>2, <2>3 DEF Table
  <2>5. [mid[call.actor] EXCEPT !.role = "admin"] \in Row
    BY <2>4 DEF Row, AllRoles
  <2>6. after = [mid EXCEPT ![call.actor].role = "admin"]
    BY <2>1
  <2>. HIDE DEF mid
  <2>7. /\ after \in Table /\ after[call.actor] \in Row
        /\ \A u \in Users \ {call.actor} : after[u] = mid[u]
    BY <2>4, <2>5, <2>6 DEF Table
  <2>8. \A u \in Users \ {t} : mid[u] = table[u]
    BY <1>0 DEF mid, Table
  <2>. QED  BY <1>0, <1>4, <2>4, <2>7, <2>8
<1>. QED  BY <1>0, <1>1, <1>2, <1>3, <1>4

LEMMA WrittenRows ==
  ASSUME NEW tx \in InFlight
  PROVE  Written(tx) \in SUBSET RowKeys
<1>1. tx.req.target \in Users /\ tx.actor \in Users /\ tx.family \in Families
  BY DEF InFlight, Request
<1>. QED  BY <1>1 DEF Written, RowKeys

-----------------------------------------------------------------------------
(* A commit elsewhere changes of an open transaction only what it records  *)
(* about others.                                                           *)

\* What the open transaction n keeps of g, that it was before.
Keeps(n, g, read, written) ==
  /\ n \in InFlight
  /\ n.actor = g.actor /\ n.family = g.family /\ n.req = g.req
  /\ n.snap = g.snap /\ n.homeless = g.homeless
  /\ n.changed = g.changed \cup written
  /\ g.moved => n.moved
  /\ Decided(g) => Decided(n)
  /\ StepsDown(n) <=> StepsDown(g)
  /\ Read(n) = Read(g)
  /\ g.pivot => n.pivot
  /\ read \cap Written(g) # {} /\ Read(g) \cap n.changed # {} => n.pivot

\* What of a call its decision and its footprint depend on.
LEMMA SameCall ==
  ASSUME NEW g \in InFlight, NEW n \in InFlight,
         n.actor = g.actor, n.family = g.family, n.role = g.role, n.req = g.req, n.snap = g.snap
  PROVE  /\ Decided(g) => Decided(n)
         /\ StepsDown(n) <=> StepsDown(g)
         /\ Read(n) = Read(g)
<1>1. Outcome(n.snap, n) = Outcome(g.snap, g)
  BY DEF Outcome
<1>2. After(n) = After(g)
  BY <1>1 DEF After
<1>3. Decided(g) => Decided(n)
  BY <1>1, <1>2 DEF Decided
<1>4. StepsDown(n) <=> StepsDown(g)
  BY <1>2 DEF StepsDown
<1>5. Read(n) = Read(g)
  BY <1>4 DEF Read
<1>. QED  BY <1>3, <1>4, <1>5

LEMMA OverlappedKeeps ==
  ASSUME NEW g \in InFlight, NEW read, NEW written \in SUBSET RowKeys, NEW overlooked
  PROVE  Keeps(Overlapped(g, read, written, overlooked), g, read, written)
<1>. DEFINE n == Overlapped(g, read, written, overlooked)
            c == g.changed \cup written
            p == \/ g.pivot
                 \/ (/\ read \cap Written(g) # {}
                     /\ Read(g) \cap c # {})
            d == g.doomed \/ (overlooked /\ Read(g) \cap written # {})
<1>1. n = [g EXCEPT !.changed = c, !.pivot = p, !.doomed = d]
  BY DEF Overlapped
<1>2. c \in SUBSET RowKeys /\ p \in BOOLEAN /\ d \in BOOLEAN
  BY DEF InFlight
<1>3. /\ n \in InFlight
      /\ n.actor = g.actor /\ n.family = g.family /\ n.role = g.role /\ n.req = g.req
      /\ n.snap = g.snap /\ n.homeless = g.homeless /\ n.changed = c /\ n.pivot = p
      /\ n.moved = g.moved
  <2>. HIDE DEF n, c, p, d
  <2>. QED  BY <1>1, <1>2 DEF InFlight
<1>. HIDE DEF n
<1>4. /\ Decided(g) => Decided(n)
      /\ StepsDown(n) <=> StepsDown(g)
      /\ Read(n) = Read(g)
  BY <1>3, SameCall
<1>5. g.pivot => n.pivot
  BY <1>3
<1>6. read \cap Written(g) # {} /\ Read(g) \cap n.changed # {} => n.pivot
  BY <1>3
<1>. QED  BY <1>3, <1>4, <1>5, <1>6 DEF n, Keeps

\* A user sets their pointer while the transaction is open.
LEMMA MovedKeeps ==
  ASSUME NEW g \in InFlight, NEW n, n = g \/ n = [g EXCEPT !.moved = TRUE]
  PROVE  Keeps(n, g, {}, {})
<1>1. /\ n \in InFlight
      /\ n.actor = g.actor /\ n.family = g.family /\ n.role = g.role /\ n.req = g.req
      /\ n.snap = g.snap /\ n.homeless = g.homeless /\ n.changed = g.changed
      /\ n.pivot = g.pivot /\ (g.moved => n.moved)
  BY DEF InFlight
<1>2. /\ Decided(g) => Decided(n)
      /\ StepsDown(n) <=> StepsDown(g)
      /\ Read(n) = Read(g)
  BY <1>1, SameCall
<1>. QED  BY <1>1, <1>2 DEF Keeps

-----------------------------------------------------------------------------
(* The steps. *)

LEMMA InitIInv == Init => IInv
<1>. SUFFICES ASSUME Init PROVE IInv
  OBVIOUS
<1>1. Types
  BY DEF Init, Types, Table
<1>2. CallersAreKnown /\ FamilyHasOwner
  BY DEF Init, CallersAreKnown, Known, FamilyHasOwner, Founded, Idle
<1>3. \A h \in Handlers : ~IsOpen(h)
  BY DEF Init, IsOpen, Idle
<1>. QED  BY <1>1, <1>2, <1>3 DEF IInv

\* What is said of one handler depends on its call and the tables alone.
LEMMA SameHandler ==
  ASSUME IInv, UNCHANGED <<member, home, updates>>, NEW g \in Handlers, IsOpen(g)',
         handler'[g] = handler[g]
  PROVE  Fresh(g)' /\ Decided(handler[g])' /\ Counted(g)'
<1>1. Fresh(g) /\ Decided(handler[g]) /\ Counted(g)
  BY DEF IInv, IsOpen
<1>2. Fresh(g)'
  BY <1>1 DEF Fresh, FamilyOf
<1>3. Decided(handler[g])'
  BY <1>1 DEF Decided, After, Outcome, TriggerPasses, PolicyPasses, Owner, Active
<1>4. Counted(g)'
  BY <1>1 DEF Counted, FamilyOf
<1>. QED  BY <1>2, <1>3, <1>4

\* A step of one handler that leaves the tables alone and opens no transaction.
LEMMA OneHandler ==
  ASSUME IInv, NEW h \in Handlers, NEW new \in {Idle} \cup Ready, Known(new),
         handler' = [handler EXCEPT ![h] = new], UNCHANGED <<member, home, updates>>
  PROVE  IInv'
<1>1. Types'
  BY DEF IInv, Types
<1>2. \A g \in Handlers : handler'[g] = IF g = h THEN new ELSE handler[g]
  BY DEF IInv, Types
<1>3. CallersAreKnown'
  BY <1>2 DEF IInv, CallersAreKnown, Known
<1>4. FamilyHasOwner'
  BY DEF IInv, FamilyHasOwner, Founded, Owner, Active
<1>5. ASSUME NEW g \in Handlers, IsOpen(g)'
      PROVE  Fresh(g)' /\ Decided(handler[g])' /\ Counted(g)'
  <2>1. new.pc # "open"
    BY DEF Idle, Ready
  <2>2. handler'[g] = handler[g]
    BY <1>2, <1>5, <2>1 DEF IsOpen
  <2>. QED  BY <1>5, <2>2, SameHandler
<1>. QED  BY <1>1, <1>3, <1>4, <1>5 DEF IInv

LEMMA AuthorizeIInv ==
  ASSUME IInv, NEW h \in Handlers, NEW u \in Users, NEW req \in Request, Authorize(h, u, req)
  PROVE  IInv'
<1>. DEFINE table == member[home[u]]
            new == Waiting(u, home[u], table[u].role, req)
<1>1. /\ handler[h].pc = "idle" /\ home[u] # Nobody /\ Active(table, u)
      /\ handler' = [handler EXCEPT ![h] = new] /\ UNCHANGED <<member, home, updates>>
  BY DEF Authorize
<1>2. home[u] \in Families /\ table \in Table
  BY <1>1 DEF IInv, Types
<1>3. table[u] \in Row
  BY <1>1, <1>2 DEF Table, Active
<1>4. new \in Ready /\ new.actor = u /\ new.family = home[u]
  BY <1>2, <1>3 DEF Waiting, Ready, Row
<1>5. Known(new)
  BY <1>1, <1>4 DEF Known, Active
<1>. HIDE DEF new
<1>. QED  BY <1>1, <1>4, <1>5, OneHandler

LEMMA OutcomeUnique ==
  ASSUME NEW table, NEW call, NEW a \in Outcome(table, call), NEW b \in Outcome(table, call),
         call.req \in Request
  PROVE  a = b
BY DEF Outcome, Request, AddMember, UpdateRole, RemoveMember, TransferOwnership

LEMMA BeginIInv ==
  ASSUME IInv, NEW h \in Handlers, Begin(h)
  PROVE  IInv'
<1>. DEFINE call == handler[h]
            f == call.family
            table == member[f]
            new == Open(call, table, home[call.req.target] = Nobody)
<1>1. call.pc = "ready" /\ UNCHANGED <<member, home, updates>>
  BY DEF Begin
<1>2. call \in Ready /\ Known(call)
  BY <1>1 DEF IInv, Types, Idle, InFlight, CallersAreKnown
<1>3. f \in Families /\ table \in Table
  BY <1>1, <1>2 DEF IInv, Types, Ready
<1>4. CASE ~Accepted(table, call)
  <2>1. handler' = [handler EXCEPT ![h] = Idle]
    BY <1>4 DEF Begin
  <2>2. Known(Idle)
    BY DEF Known, Idle
  <2>. QED  BY <1>1, <2>1, <2>2, OneHandler
<1>5. CASE Accepted(table, call)
  <2>1. handler' = [handler EXCEPT ![h] = new]
    BY <1>5 DEF Begin
  <2>2. /\ new \in InFlight
        /\ new.actor = call.actor /\ new.family = f /\ new.role = call.role /\ new.req = call.req
        /\ new.snap = table /\ new.changed = {} /\ new.pivot = FALSE
        /\ new.homeless = (home[call.req.target] = Nobody) /\ new.pc = "open"
    BY <1>2, <1>3 DEF Open, Ready, InFlight
  <2>. HIDE DEF new
  <2>3. \A g \in Handlers : handler'[g] = IF g = h THEN new ELSE handler[g]
    BY <2>1 DEF IInv, Types
  <2>4. Types'
    BY <1>1, <2>1, <2>2 DEF IInv, Types
  <2>5. CallersAreKnown'
    BY <1>1, <1>2, <1>3, <2>2, <2>3 DEF IInv, CallersAreKnown, Known
  <2>6. FamilyHasOwner'
    BY <1>1 DEF IInv, FamilyHasOwner, Founded, Owner, Active
  <2>7. Fresh(h)'
    BY <1>1, <2>2, <2>3 DEF Fresh, FamilyOf
  <2>8. Decided(new)
    <3>1. Outcome(new.snap, new) = Outcome(table, call)
      BY <2>2 DEF Outcome
    <3>2. PICK after \in Outcome(table, call) :
            TriggerPasses(table, after) /\ PolicyPasses(table, after, call.actor)
      BY <1>5 DEF Accepted
    <3>3. After(new) \in Outcome(table, call)
      BY <3>1, <3>2 DEF After
    <3>4. After(new) = after
      BY <1>2, <3>2, <3>3, OutcomeUnique DEF Ready
    <3>. QED  BY <2>2, <3>1, <3>2, <3>4 DEF Decided
  <2>9. Counted(h)'
    BY <1>1, <2>2, <2>3 DEF Counted, FamilyOf
  <2>10. ASSUME NEW g \in Handlers, IsOpen(g)'
         PROVE  Fresh(g)' /\ Decided(handler[g])' /\ Counted(g)'
    <3>1. CASE g = h
      <4>1. handler'[h] = new
        BY <2>3
      <4>2. Decided(handler[h])'
        BY <4>1, <2>8 DEF Decided, After, Outcome, TriggerPasses, PolicyPasses, Owner, Active
      <4>. QED  BY <3>1, <2>7, <2>9, <4>2
    <3>2. CASE g # h
      BY <1>1, <2>3, <2>10, <3>2, SameHandler
    <3>. QED  BY <3>1, <3>2
  <2>. QED  BY <2>4, <2>5, <2>6, <2>10 DEF IInv
<1>. QED  BY <1>4, <1>5

\* A step elsewhere that wrote some rows and users, seen by an open transaction:
\* what it had read and was not told of is as it was, and if it is to take an
\* owner away, either the owners are those it counted or it will not commit.
LEMMA OtherOpen ==
  ASSUME IInv, NEW g \in Handlers, IsOpen(g), NEW read, NEW written,
         Keeps(handler'[g], handler[g], read, written),
         \A x \in Users : MemberRow(FamilyOf(g), x) \notin written =>
           member'[FamilyOf(g)][x] = member[FamilyOf(g)][x],
         UserRow(handler[g].req.target) \in written \/ handler'[g].moved
           \/ home'[handler[g].req.target] = home[handler[g].req.target],
         \A x \in Users : Owner(member[FamilyOf(g)], x) /\ ~Owner(member'[FamilyOf(g)], x) =>
           \A y \in Users : MemberRow(FamilyOf(g), y) \in read
  PROVE  Fresh(g)' /\ Decided(handler[g])' /\ Counted(g)'
<1>. DEFINE tx == handler[g]
            n == handler'[g]
            f == FamilyOf(g)
<1>1. tx \in InFlight
  BY DEF IInv, Types, IsOpen, Idle, Ready
<1>2. f \in Families /\ f = tx.family
  BY <1>1 DEF FamilyOf, InFlight
<1>3. Keeps(n, tx, read, written) /\ n.family = f
  BY <1>2 DEF Keeps
<1>4. Fresh(g) /\ Decided(tx) /\ Counted(g)
  BY DEF IInv
<1>5. tx.req.target \in Users
  BY <1>1 DEF InFlight, Request
<1>6. Fresh(g)'
  BY <1>3, <1>4, <1>5 DEF Fresh, FamilyOf, Keeps
<1>7. Decided(handler[g])'
  <2>1. Decided(n)
    BY <1>3, <1>4 DEF Keeps
  <2>. QED  BY <2>1 DEF Decided, After, Outcome, TriggerPasses, PolicyPasses, Owner, Active
<1>8. Counted(g)'
  <2>1. SUFFICES ASSUME StepsDown(tx), ~(n.pivot /\ Read(tx) \cap n.changed # {}),
                        NEW x \in Users, Owner(tx.snap, x)
                 PROVE  Owner(member'[f], x)
    <3>1. StepsDown(handler[g])' = StepsDown(n)
      BY DEF StepsDown, Owner, Active, After, Outcome
    <3>2. Read(handler[g])' = Read(n)
      BY <3>1 DEF Read
    <3>3. FamilyOf(g)' = f
      BY <1>3 DEF FamilyOf
    <3>. QED  BY <1>3, <3>1, <3>2, <3>3 DEF Counted, Owner, Active, Keeps
  <2>2. ~(tx.pivot /\ Read(tx) \cap tx.changed # {})
    BY <1>3, <2>1 DEF Keeps
  <2>3. Owner(member[f], x)
    BY <1>4, <2>1, <2>2 DEF Counted
  <2>4. ASSUME ~Owner(member'[f], x) PROVE FALSE
    <3>1. MemberRow(f, tx.req.target) \in read
      BY <1>5, <2>3, <2>4
    <3>2. MemberRow(f, tx.req.target) \in Written(tx)
      BY <1>2 DEF Written
    <3>3. MemberRow(f, x) \in written
      BY <2>3, <2>4 DEF Owner, Active
    <3>4. MemberRow(f, x) \in Read(tx)
      BY <1>2, <2>1 DEF Read
    <3>. QED  BY <1>3, <2>1, <3>1, <3>2, <3>3, <3>4 DEF Keeps
  <2>. QED  BY <2>4
<1>. QED  BY <1>6, <1>7, <1>8

LEMMA OnboardIInv ==
  ASSUME IInv, NEW u \in Users, NEW e \in Families, Onboard(u, e)
  PROVE  IInv'
<1>. DEFINE row == [role |-> "owner", status |-> "active"]
            W == {UserRow(u)}
<1>1. /\ home[u] = Nobody /\ ~Founded(e)
      /\ home' = [home EXCEPT ![u] = e]
      /\ member' = [member EXCEPT ![e][u] = row]
      /\ handler' = [g \in Handlers |->
                       IF handler[g].pc = "open" THEN Overlapped(handler[g], W, W, FALSE)
                       ELSE handler[g]]
      /\ updates' = updates
  BY DEF Onboard
<1>2. row \in Row /\ row # Nobody /\ W \in SUBSET RowKeys
  BY DEF Row, AllRoles, RowKeys
<1>3. member' \in [Families -> Table] /\ home' \in [Users -> Families \cup {Nobody}]
  BY <1>1, <1>2 DEF IInv, Types, Table
<1>4. /\ \A f \in Families \ {e} : member'[f] = member[f]
      /\ \A v \in Users : member'[e][v] = IF v = u THEN row ELSE member[e][v]
  BY <1>1, <1>2 DEF IInv, Types, Table
<1>5. \A v \in Users : home'[v] = IF v = u THEN e ELSE home[v]
  BY <1>1 DEF IInv, Types
<1>6. ASSUME NEW g \in Handlers, IsOpen(g)
      PROVE  handler[g] \in InFlight /\ Keeps(handler'[g], handler[g], W, W)
  <2>1. handler[g] \in InFlight
    BY <1>6 DEF IInv, Types, IsOpen, Idle, Ready
  <2>2. handler'[g] = Overlapped(handler[g], W, W, FALSE)
    BY <1>1, <1>6 DEF IsOpen
  <2>3. W \in SUBSET RowKeys
    BY <1>2
  <2>. HIDE DEF W
  <2>. QED  BY <2>1, <2>2, <2>3, OverlappedKeeps
<1>7. \A g \in Handlers : ~IsOpen(g) => handler'[g] = handler[g]
  BY <1>1 DEF IsOpen
<1>. HIDE DEF W
<1>8. Types'
  <2>1. \A g \in Handlers : handler'[g] \in {Idle} \cup Ready \cup InFlight
    BY <1>6, <1>7 DEF Keeps, IInv, Types
  <2>. QED  BY <1>1, <1>3, <2>1 DEF IInv, Types
<1>9. \A g \in Handlers : handler[g].pc # "idle" =>
        /\ handler[g].actor \in Users /\ handler[g].family \in Families \ {e}
        /\ member[handler[g].family][handler[g].actor] # Nobody
  <2>1. \A g \in Handlers : handler[g].pc # "idle" =>
          /\ handler[g].actor \in Users /\ handler[g].family \in Families
          /\ member[handler[g].family][handler[g].actor] # Nobody
    BY DEF IInv, Types, Idle, Ready, InFlight, CallersAreKnown, Known
  <2>. QED  BY <1>1, <2>1 DEF Founded
<1>10. CallersAreKnown'
  <2>1. SUFFICES ASSUME NEW g \in Handlers, handler'[g].pc # "idle"
                 PROVE  member'[handler'[g].family][handler'[g].actor] # Nobody
    BY DEF CallersAreKnown, Known
  <2>2. /\ handler[g].pc # "idle" /\ handler'[g].family = handler[g].family
        /\ handler'[g].actor = handler[g].actor
    BY <1>6, <1>7, <2>1 DEF Keeps, IsOpen
  <2>. QED  BY <1>4, <1>9, <2>2
<1>11. FamilyHasOwner'
  <2>1. SUFFICES ASSUME NEW f \in Families, Founded(f)' PROVE \E v \in Users : Owner(member'[f], v)
    BY DEF FamilyHasOwner, Owner, Active
  <2>2. CASE f = e
    BY <1>2, <1>4, <2>2 DEF Owner, Active
  <2>3. CASE f # e
    BY <1>4, <2>1, <2>3 DEF IInv, FamilyHasOwner, Founded
  <2>. QED  BY <2>2, <2>3
<1>12. ASSUME NEW g \in Handlers, IsOpen(g)'
       PROVE  Fresh(g)' /\ Decided(handler[g])' /\ Counted(g)'
  <2>1. IsOpen(g)
    BY <1>7, <1>12 DEF IsOpen
  <2>2. handler[g] \in InFlight /\ Keeps(handler'[g], handler[g], W, W)
    BY <1>6, <2>1
  <2>3. FamilyOf(g) \in Families \ {e}
    BY <1>9, <2>1 DEF FamilyOf, IsOpen
  <2>4. \A x \in Users : member'[FamilyOf(g)][x] = member[FamilyOf(g)][x]
    BY <1>4, <2>3
  <2>5. handler[g].req.target \in Users
    BY <2>2 DEF InFlight, Request
  <2>6. UserRow(handler[g].req.target) \in W
          \/ home'[handler[g].req.target] = home[handler[g].req.target]
    BY <1>5, <2>5 DEF W
  <2>7. \A x \in Users : ~(Owner(member[FamilyOf(g)], x) /\ ~Owner(member'[FamilyOf(g)], x))
    BY <2>4 DEF Owner, Active
  <2>. QED  BY <2>1, <2>2, <2>4, <2>6, <2>7, OtherOpen, Zenon
<1>. QED  BY <1>8, <1>10, <1>11, <1>12 DEF IInv

LEMMA UpdateUserIInv ==
  ASSUME IInv, NEW u \in Users, NEW e \in Families \cup {Nobody}, UpdateUser(u, e)
  PROVE  IInv'
<1>1. /\ home' = [home EXCEPT ![u] = e] /\ member' = member /\ updates' = updates + 1
      /\ handler' = [g \in Handlers |->
                       IF handler[g].pc = "open" /\ handler[g].req.target = u
                       THEN [handler[g] EXCEPT !.moved = TRUE] ELSE handler[g]]
  BY DEF UpdateUser
<1>2. ASSUME NEW g \in Handlers, IsOpen(g)
      PROVE  handler[g] \in InFlight /\ Keeps(handler'[g], handler[g], {}, {})
  <2>1. handler[g] \in InFlight
    BY <1>2 DEF IInv, Types, IsOpen, Idle, Ready
  <2>2. handler'[g] = handler[g] \/ handler'[g] = [handler[g] EXCEPT !.moved = TRUE]
    BY <1>1
  <2>. QED  BY <2>1, <2>2, MovedKeeps
<1>3. \A g \in Handlers : ~IsOpen(g) => handler'[g] = handler[g]
  BY <1>1 DEF IsOpen
<1>4. Types'
  <2>1. \A g \in Handlers : handler'[g] \in {Idle} \cup Ready \cup InFlight
    BY <1>2, <1>3 DEF Keeps, IInv, Types
  <2>. QED  BY <1>1, <2>1 DEF IInv, Types
<1>5. CallersAreKnown'
  BY <1>1, <1>2, <1>3 DEF IInv, CallersAreKnown, Known, Keeps, IsOpen
<1>6. FamilyHasOwner'
  BY <1>1 DEF IInv, FamilyHasOwner, Founded, Owner, Active
<1>7. ASSUME NEW g \in Handlers, IsOpen(g)'
      PROVE  Fresh(g)' /\ Decided(handler[g])' /\ Counted(g)'
  <2>1. IsOpen(g)
    BY <1>3, <1>7 DEF IsOpen
  <2>2. handler[g] \in InFlight /\ Keeps(handler'[g], handler[g], {}, {})
    BY <1>2, <2>1
  <2>3. handler[g].req.target \in Users
    BY <2>2 DEF InFlight, Request
  <2>4. handler'[g].moved \/ home'[handler[g].req.target] = home[handler[g].req.target]
    <3>1. CASE handler[g].req.target = u
      <4>1. handler'[g] = [handler[g] EXCEPT !.moved = TRUE]
        BY <1>1, <2>1, <3>1 DEF IsOpen
      <4>. QED  BY <2>2, <4>1 DEF InFlight
    <3>2. CASE handler[g].req.target # u
      BY <1>1, <2>3, <3>2 DEF IInv, Types
    <3>. QED  BY <3>1, <3>2
  <2>5. \A x \in Users : ~(Owner(member[FamilyOf(g)], x) /\ ~Owner(member'[FamilyOf(g)], x))
    BY <1>1 DEF Owner, Active
  <2>6. \A x \in Users : member'[FamilyOf(g)][x] = member[FamilyOf(g)][x]
    BY <1>1
  <2>. QED  BY <2>1, <2>2, <2>4, <2>5, <2>6, OtherOpen, Zenon
<1>. QED  BY <1>4, <1>5, <1>6, <1>7 DEF IInv

\* What a commit does to the rows, from what its transaction has read.
LEMMA CommitRows ==
  ASSUME IInv, NEW h \in Handlers, Commit(h)
  PROVE  LET tx == handler[h]
             f == FamilyOf(h)
         IN
         /\ tx \in InFlight /\ f \in Families /\ Founded(f)
         /\ After(tx) \in Table /\ Decided(tx)
         /\ Written(tx) \in SUBSET RowKeys
         /\ member' \in [Families -> Table]
         /\ \A e \in Families \ {f} : member'[e] = member[e]
         /\ \A x \in Users :
              IF MemberRow(f, x) \in Written(tx)
              THEN member'[f][x] = After(tx)[x] /\ tx.snap[x] = member[f][x]
              ELSE member'[f][x] = member[f][x] /\ After(tx)[x] = tx.snap[x]
         /\ \A x \in Users : member[f][x] # Nobody => member'[f][x] # Nobody
         /\ tx.req.target \in Users
         /\ home' = [home EXCEPT ![tx.req.target] = IF Adopts(tx) THEN f ELSE @]
         /\ Adopts(tx) => home[tx.req.target] = Nobody /\ Active(member'[f], tx.req.target)
<1>. DEFINE tx == handler[h]
            f == FamilyOf(h)
            t == tx.req.target
            W == Written(tx)
<1>1. /\ tx \in InFlight /\ f \in Families /\ Founded(f) /\ t \in Users
      /\ f = tx.family /\ tx.actor \in Users
  <2>1. tx.pc = "open"
    BY DEF Commit
  <2>2. tx \in InFlight
    BY <2>1 DEF IInv, Types, Idle, Ready
  <2>3. tx.actor \in Users /\ tx.family \in Families /\ t \in Users
    BY <2>2 DEF InFlight, Request
  <2>4. member[tx.family][tx.actor] # Nobody
    BY <2>1 DEF IInv, CallersAreKnown, Known
  <2>. QED  BY <2>2, <2>3, <2>4 DEF FamilyOf, Founded
<1>2. Fresh(h) /\ Decided(tx)
  BY DEF Commit, IInv, IsOpen
<1>3. /\ After(tx) \in Table
      /\ \A u \in Users : After(tx)[u] # tx.snap[u] =>
           u = t \/ (tx.req.op = "transfer" /\ u = tx.actor)
      /\ \A u \in Users : tx.snap[u] # Nobody => After(tx)[u] # Nobody
      /\ tx.req.op = "add" => Active(After(tx), t)
  <2>1. /\ tx.snap \in Table /\ tx.role \in AllRoles /\ tx.req \in Request
        /\ After(tx) \in Outcome(tx.snap, tx)
    BY <1>1, <1>2 DEF InFlight, Decided
  <2>. HIDE DEF tx
  <2>. QED  BY <1>1, <2>1, OutcomeRows
<1>4. W \cap tx.changed = {} /\ W \in SUBSET RowKeys /\ ~(Adopts(tx) /\ tx.moved)
  BY <1>1, WrittenRows DEF Commit, Serializable
<1>5. \A x \in Users : MemberRow(f, x) \notin W => After(tx)[x] = tx.snap[x]
  BY <1>1, <1>3 DEF Written
<1>6. \A x \in Users : MemberRow(f, x) \in W => tx.snap[x] = member[f][x]
  BY <1>2, <1>4 DEF Fresh
<1>7. member' = [member EXCEPT ![f] = [x \in Users |-> IF MemberRow(f, x) \in W
                                                    THEN After(tx)[x] ELSE @[x]]]
  BY <1>1 DEF Commit
<1>8. /\ \A e \in Families \ {f} : member'[e] = member[e]
      /\ \A x \in Users : member'[f][x] = IF MemberRow(f, x) \in W
                                         THEN After(tx)[x] ELSE member[f][x]
      /\ member' \in [Families -> Table]
  <2>. HIDE DEF tx, f, W
  <2>. QED  BY <1>1, <1>3, <1>7 DEF IInv, Types, Table
<1>9. \A x \in Users : member[f][x] # Nobody => member'[f][x] # Nobody
  BY <1>3, <1>6, <1>8
<1>10. Adopts(tx) => home[t] = Nobody /\ Active(member'[f], t)
  <2>1. Adopts(tx) => UserRow(t) \in W /\ tx.homeless /\ tx.req.op = "add"
    BY DEF Written, Adopts
  <2>2. MemberRow(f, t) \in W
    BY <1>1 DEF Written
  <2>3. Adopts(tx) => home[t] = Nobody
    BY <1>2, <1>4, <2>1 DEF Fresh
  <2>4. member'[f][t] = After(tx)[t]
    BY <1>1, <1>8, <2>2
  <2>. QED  BY <1>3, <2>1, <2>3, <2>4 DEF Active
<1>11. home' = [home EXCEPT ![t] = IF Adopts(tx) THEN f ELSE @]
  <2>1. home' = IF Adopts(tx) THEN [home EXCEPT ![t] = f] ELSE home
    BY <1>1 DEF Commit
  <2>. QED  BY <1>1, <2>1 DEF IInv, Types
<1>. QED  BY <1>1, <1>2, <1>3, <1>4, <1>5, <1>6, <1>8, <1>9, <1>10, <1>11

\* The only home that a commit sets is that of a user who had none.
LEMMA CommitHomes ==
  ASSUME IInv, NEW h \in Handlers, Commit(h)
  PROVE  /\ home' \in [Users -> Families \cup {Nobody}]
         /\ \A u \in Users : home'[u] # home[u] =>
              home[u] = Nobody /\ Active(member'[home'[u]], u)
         /\ \A f \in Families, u \in Users : member[f][u] # Nobody => member'[f][u] # Nobody
<1>. DEFINE tx == handler[h]
            f == FamilyOf(h)
            t == tx.req.target
            adopts == Adopts(tx)
<1>1. /\ f \in Families /\ t \in Users
      /\ \A e \in Families \ {f} : member'[e] = member[e]
      /\ \A x \in Users : member[f][x] # Nobody => member'[f][x] # Nobody
      /\ home' = [home EXCEPT ![t] = IF adopts THEN f ELSE @]
      /\ adopts => home[t] = Nobody /\ Active(member'[f], t)
  BY CommitRows
<1>. HIDE DEF tx, f, t, adopts
<1>2. \A u \in Users : home'[u] = IF u = t /\ adopts THEN f ELSE home[u]
  BY <1>1 DEF IInv, Types
<1>3. home' \in [Users -> Families \cup {Nobody}]
  BY <1>1 DEF IInv, Types
<1>4. \A u \in Users : home'[u] # home[u] => home[u] = Nobody /\ Active(member'[home'[u]], u)
  BY <1>1, <1>2
<1>5. \A e \in Families, u \in Users : member[e][u] # Nobody => member'[e][u] # Nobody
  BY <1>1
<1>. QED  BY <1>3, <1>4, <1>5

\* The heart of the matter: a family keeps an owner.
LEMMA CommitOwner ==
  ASSUME IInv, NEW h \in Handlers, Commit(h)
  PROVE  FamilyHasOwner'
<1>. DEFINE tx == handler[h]
            f == FamilyOf(h)
            after == After(tx)
            W == Written(tx)
<1>1. /\ f \in Families /\ Founded(f)
      /\ \A e \in Families \ {f} : member'[e] = member[e]
      /\ \A x \in Users :
           IF MemberRow(f, x) \in W
           THEN member'[f][x] = after[x] /\ tx.snap[x] = member[f][x]
           ELSE member'[f][x] = member[f][x] /\ after[x] = tx.snap[x]
      /\ Decided(tx)
  BY CommitRows
<1>2. Counted(h) /\ Serializable(tx)
  BY DEF Commit, IInv, IsOpen, FamilyOf
<1>3. \E u \in Users : Owner(member'[f], u)
  <2>1. CASE StepsDown(tx)
    <3>1. PICK v \in Users : Owner(after, v)
      BY <1>1, <2>1 DEF Decided, TriggerPasses, StepsDown
    <3>2. CASE MemberRow(f, v) \in W
      BY <1>1, <3>1, <3>2 DEF Owner, Active
    <3>3. CASE MemberRow(f, v) \notin W
      <4>1. Owner(tx.snap, v)
        BY <1>1, <3>1, <3>3 DEF Owner, Active
      <4>2. Owner(member[f], v)
        BY <1>2, <2>1, <4>1 DEF Counted, Serializable
      <4>. QED  BY <1>1, <3>3, <4>2 DEF Owner, Active
    <3>. QED  BY <3>2, <3>3
  <2>2. CASE ~StepsDown(tx)
    <3>1. PICK u \in Users : Owner(member[f], u)
      BY <1>1 DEF IInv, FamilyHasOwner
    <3>2. CASE MemberRow(f, u) \in W
      <4>1. Owner(tx.snap, u)
        BY <1>1, <3>1, <3>2 DEF Owner, Active
      <4>2. Owner(after, u)
        BY <2>2, <4>1 DEF StepsDown
      <4>. QED  BY <1>1, <3>2, <4>2 DEF Owner, Active
    <3>3. CASE MemberRow(f, u) \notin W
      BY <1>1, <3>1, <3>3 DEF Owner, Active
    <3>. QED  BY <3>2, <3>3
  <2>. QED  BY <2>1, <2>2
<1>4. SUFFICES ASSUME NEW e \in Families, Founded(e)' PROVE \E u \in Users : Owner(member'[e], u)
  BY DEF FamilyHasOwner, Owner, Active
<1>5. CASE e = f
  BY <1>3, <1>5
<1>6. CASE e # f
  BY <1>1, <1>4, <1>6 DEF IInv, FamilyHasOwner, Founded
<1>. QED  BY <1>5, <1>6

LEMMA CommitIInv ==
  ASSUME IInv, NEW h \in Handlers, Commit(h)
  PROVE  IInv'
<1>. DEFINE tx == handler[h]
            f == FamilyOf(h)
            R == Read(tx)
            W == Written(tx)
            o == R \cap tx.changed # {}
<1>1. /\ f \in Families /\ W \in SUBSET RowKeys
      /\ member' \in [Families -> Table]
      /\ \A e \in Families \ {f} : member'[e] = member[e]
      /\ \A x \in Users :
           IF MemberRow(f, x) \in W
           THEN member'[f][x] = After(tx)[x] /\ tx.snap[x] = member[f][x]
           ELSE member'[f][x] = member[f][x] /\ After(tx)[x] = tx.snap[x]
      /\ home' = [home EXCEPT ![tx.req.target] = IF Adopts(tx) THEN f ELSE @]
      /\ tx.req.target \in Users
  BY CommitRows
<1>2. handler' = [Others(h, R, W, o) EXCEPT ![h] = Idle] /\ updates' = updates
  BY DEF Commit
<1>3. \A g \in Handlers : handler'[g] =
        IF g = h THEN Idle
        ELSE IF handler[g].pc = "open" THEN Overlapped(handler[g], R, W, o) ELSE handler[g]
  <2>. HIDE DEF R, W, o
  <2>. QED  BY <1>2 DEF Others
<1>. HIDE DEF R, W, o
<1>4. ASSUME NEW g \in Handlers, g # h, IsOpen(g)
      PROVE  handler[g] \in InFlight /\ Keeps(handler'[g], handler[g], R, W)
  <2>1. handler[g] \in InFlight
    BY <1>4 DEF IInv, Types, IsOpen, Idle, Ready
  <2>2. handler'[g] = Overlapped(handler[g], R, W, o)
    BY <1>3, <1>4 DEF IsOpen
  <2>3. W \in SUBSET RowKeys
    BY <1>1
  <2>. QED  BY <2>1, <2>2, <2>3, OverlappedKeeps
<1>5. \A g \in Handlers : g # h /\ ~IsOpen(g) => handler'[g] = handler[g]
  BY <1>3 DEF IsOpen
<1>6. /\ home' \in [Users -> Families \cup {Nobody}]
      /\ \A e \in Families, u \in Users : member[e][u] # Nobody => member'[e][u] # Nobody
  BY CommitHomes
<1>7. Types'
  <2>1. \A g \in Handlers : handler'[g] \in {Idle} \cup Ready \cup InFlight
    BY <1>3, <1>4, <1>5 DEF Keeps, IInv, Types
  <2>2. handler' = [g \in Handlers |-> handler'[g]]
    BY <1>2 DEF Others
  <2>. QED  BY <1>1, <1>2, <1>6, <2>1, <2>2 DEF IInv, Types
<1>8. CallersAreKnown'
  <2>1. SUFFICES ASSUME NEW g \in Handlers, handler'[g].pc # "idle"
                 PROVE  member'[handler'[g].family][handler'[g].actor] # Nobody
    BY DEF CallersAreKnown, Known
  <2>2. g # h
    BY <1>3, <2>1 DEF Idle
  <2>3. /\ handler[g].pc # "idle" /\ handler'[g].family = handler[g].family
        /\ handler'[g].actor = handler[g].actor
    BY <1>4, <1>5, <2>1, <2>2 DEF Keeps, IsOpen
  <2>4. /\ handler[g].actor \in Users /\ handler[g].family \in Families
        /\ member[handler[g].family][handler[g].actor] # Nobody
    BY <2>3 DEF IInv, Types, Idle, Ready, InFlight, CallersAreKnown, Known
  <2>. QED  BY <1>6, <2>3, <2>4
<1>9. FamilyHasOwner'
  BY CommitOwner
<1>10. ASSUME NEW g \in Handlers, IsOpen(g)'
       PROVE  Fresh(g)' /\ Decided(handler[g])' /\ Counted(g)'
  <2>1. g # h /\ IsOpen(g)
    BY <1>3, <1>5, <1>10 DEF IsOpen, Idle
  <2>2. handler[g] \in InFlight /\ Keeps(handler'[g], handler[g], R, W)
    BY <1>4, <2>1
  <2>3. FamilyOf(g) \in Families /\ handler[g].req.target \in Users
    BY <2>2 DEF FamilyOf, InFlight, Request
  <2>4. \A x \in Users : MemberRow(FamilyOf(g), x) \notin W =>
          member'[FamilyOf(g)][x] = member[FamilyOf(g)][x]
    <3>. HIDE DEF f
    <3>. QED  BY <1>1, <2>3
  <2>5. UserRow(handler[g].req.target) \in W
          \/ home'[handler[g].req.target] = home[handler[g].req.target]
    <3>1. Adopts(tx) => UserRow(tx.req.target) \in W
      BY DEF W, Written
    <3>2. \A x \in Users : UserRow(x) \notin W => home'[x] = home[x]
      BY <1>1, <3>1 DEF IInv, Types
    <3>. QED  BY <2>3, <3>2
  <2>6. ASSUME NEW x \in Users, Owner(member[FamilyOf(g)], x), ~Owner(member'[FamilyOf(g)], x)
        PROVE  \A y \in Users : MemberRow(FamilyOf(g), y) \in R
    <3>1. FamilyOf(g) = f
      <4>. HIDE DEF f
      <4>. QED  BY <1>1, <2>3, <2>6
    <3>2. MemberRow(f, x) \in W
      BY <2>4, <2>6, <3>1 DEF Owner, Active
    <3>3. Owner(tx.snap, x) /\ ~Owner(After(tx), x)
      BY <1>1, <2>6, <3>1, <3>2 DEF Owner, Active
    <3>4. StepsDown(tx)
      BY <3>3 DEF StepsDown
    <3>. QED  BY <3>1, <3>4 DEF R, Read, FamilyOf
  <2>7. \A x \in Users : Owner(member[FamilyOf(g)], x) /\ ~Owner(member'[FamilyOf(g)], x) =>
          \A y \in Users : MemberRow(FamilyOf(g), y) \in R
    BY <2>6
  <2>. QED  BY <2>1, <2>2, <2>4, <2>5, <2>7, OtherOpen, Zenon
<1>. QED  BY <1>7, <1>8, <1>9, <1>10 DEF IInv

-----------------------------------------------------------------------------
(* The theorems. *)

LEMMA NextIInv ==
  ASSUME IInv, [Next]_vars
  PROVE  IInv'
<1>1. CASE UNCHANGED vars
  <2>1. UNCHANGED <<member, home, handler, updates>>
    BY <1>1 DEF vars
  <2>2. Types' /\ CallersAreKnown' /\ FamilyHasOwner'
    BY <2>1 DEF IInv, Types, CallersAreKnown, Known, FamilyHasOwner, Founded, Owner, Active
  <2>3. ASSUME NEW g \in Handlers, IsOpen(g)'
        PROVE  Fresh(g)' /\ Decided(handler[g])' /\ Counted(g)'
    BY <2>1, <2>3, SameHandler
  <2>. QED  BY <2>2, <2>3 DEF IInv
<1>2. ASSUME NEW u \in Users, NEW f \in Families, Onboard(u, f) PROVE IInv'
  BY <1>2, OnboardIInv
<1>8. ASSUME NEW u \in Users, NEW f \in Families \cup {Nobody}, UpdateUser(u, f) PROVE IInv'
  BY <1>8, UpdateUserIInv
<1>3. ASSUME NEW h \in Handlers, NEW u \in Users, NEW req \in Request, Authorize(h, u, req)
      PROVE  IInv'
  BY <1>3, AuthorizeIInv
<1>4. ASSUME NEW h \in Handlers, Begin(h) PROVE IInv'
  BY <1>4, BeginIInv
<1>5. ASSUME NEW h \in Handlers, Commit(h) PROVE IInv'
  BY <1>5, CommitIInv
<1>6. ASSUME NEW h \in Handlers, Retry(h) PROVE IInv'
  <2>. DEFINE new == Waiting(handler[h].actor, handler[h].family, handler[h].role, handler[h].req)
  <2>1. /\ handler[h].pc = "open" /\ UNCHANGED <<member, home, updates>>
        /\ handler' = [handler EXCEPT ![h] = new]
    BY <1>6 DEF Retry
  <2>2. handler[h] \in InFlight
    BY <2>1 DEF IInv, Types, Idle, Ready
  <2>3. new \in Ready /\ new.actor = handler[h].actor /\ new.family = handler[h].family
    BY <2>2 DEF Waiting, Ready, InFlight
  <2>4. Known(new)
    BY <2>1, <2>3 DEF IInv, CallersAreKnown, Known
  <2>. HIDE DEF new
  <2>. QED  BY <2>1, <2>3, <2>4, OneHandler
<1>7. ASSUME NEW h \in Handlers, GiveUp(h) PROVE IInv'
  <2>1. handler' = [handler EXCEPT ![h] = Idle] /\ UNCHANGED <<member, home, updates>> /\ Known(Idle)
    BY <1>7 DEF GiveUp, Idle, Known
  <2>. QED  BY <2>1, OneHandler
<1>. QED  BY <1>1, <1>2, <1>3, <1>4, <1>5, <1>6, <1>7, <1>8 DEF Next

LEMMA Invariance == Spec => []IInv
<1>1. Init => IInv
  BY InitIInv
<1>2. IInv /\ [Next]_vars => IInv'
  BY NextIInv
<1>. QED  BY <1>1, <1>2, PTL DEF Spec

\* A founded family has an active owner at any time, whatever the owners do at
\* once (enforce_family_has_owner under SERIALIZABLE).
THEOREM OwnersRemain == Spec => []FamilyHasOwner
<1>1. IInv => FamilyHasOwner
  BY DEF IInv
<1>. QED  BY <1>1, Invariance, PTL

\* Neither onboarding nor the calls of the members move a user who points at a
\* family, those they move become active members, and member rows stay; whoever
\* points elsewhere has set familyId themselves (initializeOnboardingForUser
\* against addMemberForFamily and auth.handler).
THEOREM HomesAreKept == Spec => HandlersKeepHomes
<1>. DEFINE Kept == /\ \A u \in Users : updates' = updates /\ home'[u] # home[u] =>
                         home[u] = Nobody /\ Active(member'[home'[u]], u)
                    /\ \A f \in Families, u \in Users :
                         member[f][u] # Nobody => member'[f][u] # Nobody
<1>1. IInv /\ [Next]_vars => [Kept]_vars
  <2>1. SUFFICES ASSUME IInv, Next PROVE Kept
    OBVIOUS
  <2>2. ASSUME NEW v \in Users, NEW e \in Families, Onboard(v, e) PROVE Kept
    <3>1. /\ home[v] = Nobody /\ home' = [home EXCEPT ![v] = e]
          /\ member' = [member EXCEPT ![e][v] = [role |-> "owner", status |-> "active"]]
      BY <2>2 DEF Onboard
    <3>2. [role |-> "owner", status |-> "active"] # Nobody
      BY DEF Row, AllRoles
    <3>3. member'[e][v] = [role |-> "owner", status |-> "active"]
      BY <2>1, <3>1 DEF IInv, Types, Table
    <3>. QED  BY <2>1, <3>1, <3>2, <3>3 DEF IInv, Types, Table, Active
  <2>3. ASSUME NEW v \in Users, NEW e \in Families \cup {Nobody}, UpdateUser(v, e) PROVE Kept
    BY <2>1, <2>3 DEF UpdateUser, IInv, Types
  <2>4. ASSUME NEW h \in Handlers, Commit(h) PROVE Kept
    BY <2>1, <2>4, CommitHomes
  <2>5. ASSUME UNCHANGED <<member, home, updates>> PROVE Kept
    BY <2>5
  <2>6. \/ \E u \in Users, f \in Families : Onboard(u, f)
        \/ \E u \in Users, f \in Families \cup {Nobody} : UpdateUser(u, f)
        \/ \E h \in Handlers : Commit(h)
        \/ UNCHANGED <<member, home, updates>>
    BY <2>1 DEF Next, Authorize, Begin, Retry, GiveUp
  <2>. QED  BY <2>2, <2>3, <2>4, <2>5, <2>6
<1>2. Spec => [][Kept]_vars
  BY <1>1, Invariance, PTL DEF Spec
<1>. QED  BY <1>2 DEF HandlersKeepHomes

\* Nobody who was revoked before the handler's transaction began changes member
\* rows (the row-level security of the record written by every handler).
THEOREM RevocationHolds == Spec => RevokedChangeNothing
<1>. DEFINE Act == \A h \in Handlers :
                     handler[h].pc = "open" /\ handler'[h].pc = "idle" /\ member' # member
                       => Active(handler[h].snap, handler[h].actor)
<1>1. IInv => Act
  BY DEF IInv, IsOpen, Decided, PolicyPasses
<1>2. Spec => [][Act]_vars
  BY <1>1, Invariance, PTL DEF Spec
<1>. QED  BY <1>2 DEF RevokedChangeNothing

-----------------------------------------------------------------------------
(* Reports. Nothing in it is about members.                                *)

Rated == [from : Currencies, to : Currencies, day : Days, rate : Nat \ {0}]
Projection == [amount : Int, base : Currencies \cup {Nothing}, rate : Nat]
Booked == [row : BookRow, currency : Currencies, proj : Projection, raw : BOOLEAN, live : BOOLEAN]

LEMMA ReportsGiven ==
  /\ Scale \in Nat \ {0} /\ Conv \in [Currencies -> Nat \ {0}]
  /\ CurrencyOf \in [Accounts -> Currencies]
  /\ Rates \subseteq Rated /\ Rows \subseteq BookRow /\ Opened \in Seq(BookRow)
  /\ LastDay \in Nat /\ Default \in Currencies
  BY ReportsAssumption DEF Rated

ReportTypes ==
  /\ base \in Currencies
  /\ rates \subseteq Rated
  /\ book \in Seq(Booked)

\* A pair has one rate a day.
OneRateADay == \A r, s \in rates : SameKey(r, s) => r = s

BookInv == ReportTypes /\ OneRateADay /\ ProjectionsAreFresh

\* The division that the projections round by gives a whole number.
LEMMA HalfEvenIsInt == ASSUME NEW a \in Int, NEW d \in Nat \ {0} PROVE HalfEven(a, d) \in Int
<1>1. Abs(a) \in Nat
  BY DEF Abs
<1>2. Abs(a) \div d \in Int /\ Abs(a) % d \in Int
  BY <1>1
<1>. QED  BY <1>2 DEF HalfEven

LEMMA ConvertIsInt ==
  ASSUME NEW a \in Int, NEW c \in Currencies, NEW d \in Currencies, NEW rate \in Nat
  PROVE  Convert(a, c, d, rate) \in Int
<1>1. Conv[c] \in Nat \ {0} /\ Conv[d] \in Nat \ {0} /\ Scale \in Nat \ {0}
  BY ReportsGiven
<1>2. a * rate * Conv[d] \in Int /\ Conv[c] * Scale \in Nat \ {0}
  BY <1>1
<1>. QED  BY <1>2, HalfEvenIsInt DEF Convert

\* Among some rates there is one of the newest day.
LEMMA NewestIsOne ==
  ASSUME NEW rs \in SUBSET Rated, rs # {}
  PROVE  Newest(rs) \in rs /\ \A r \in rs : r.day <= Newest(rs).day
<1>. DEFINE N == {r.day : r \in rs}
<1>1. LastDay \in Nat /\ \A r \in rs : r.day \in 1..LastDay
  BY ReportsGiven DEF Rated, Days
<1>2. N \in SUBSET Int /\ N # {} /\ LastDay \in Int /\ \A n \in N : n <= LastDay
  BY <1>1
<1>3. PICK n \in N : \A m \in N : m <= n
  BY <1>2, GreatestNumber
<1>4. PICK r \in rs : n = r.day
  OBVIOUS
<1>5. \A s \in rs : s.day <= r.day
  BY <1>3, <1>4
<1>. QED  BY <1>5 DEF Newest

LEMMA ProjectType ==
  ASSUME NEW r \in BookRow, NEW from \in Currencies, NEW to \in Currencies, NEW known \in SUBSET Rated
  PROVE  Project(r, from, to, known) \in Projection
<1>. DEFINE usable == Dated(known, from, to, r.day)
<1>1. r.amount \in Int /\ Scale \in Nat
  BY ReportsGiven DEF BookRow
<1>2. CASE from = to
  BY <1>1, <1>2 DEF Project, Projection
<1>3. CASE from # to /\ usable = {}
  BY <1>3 DEF Project, Projection, Pending
<1>4. CASE from # to /\ usable # {}
  <2>. DEFINE rate == Newest(usable).rate
  <2>1. usable \in SUBSET Rated
    BY DEF Dated
  <2>2. rate \in Nat
    BY <1>4, <2>1, NewestIsOne DEF Rated
  <2>3. Convert(r.amount, from, to, rate) \in Int
    BY <1>1, <2>2, ConvertIsInt
  <2>4. Project(r, from, to, known) = [amount |-> Convert(r.amount, from, to, rate), base |-> to, rate |-> rate]
    BY <1>4 DEF Project
  <2>. QED  BY <2>2, <2>3, <2>4 DEF Projection
<1>. QED  BY <1>2, <1>3, <1>4

\* What an entry shows, of those the book may hold.
Shows(e) == e.proj = IF e.raw THEN Pending ELSE Projected(e)

LEMMA EntryIsBooked ==
  ASSUME NEW r \in BookRow, base \in Currencies, rates \subseteq Rated
  PROVE  Entry(r) \in Booked /\ Shows(Entry(r)) /\ BulkEntry(r) \in Booked /\ Shows(BulkEntry(r))
<1>1. CurrencyOf[r.acc] \in Currencies /\ Default \in Currencies
  BY ReportsGiven DEF BookRow
<1>2. Project(r, CurrencyOf[r.acc], base, rates) \in Projection
  BY <1>1, ProjectType
<1>3. Entry(r) \in Booked /\ Shows(Entry(r))
  BY <1>1, <1>2 DEF Entry, Booked, Shows, Projected
<1>4. Pending \in Projection
  BY DEF Pending, Projection
<1>5. BulkEntry(r) \in Booked /\ Shows(BulkEntry(r))
  BY <1>1, <1>4 DEF BulkEntry, Booked, Shows
<1>. QED  BY <1>3, <1>5

\* Rebuilding keeps the rows, and renews the projections of some.
Renewed(to, known, old, new, covered) ==
  /\ new.row = old.row /\ new.currency = old.currency /\ new.live = old.live
  /\ new.raw = (old.raw /\ ~covered)
  /\ new.proj = IF covered THEN Project(old.row, old.currency, to, known) ELSE old.proj

Covered(e, froms, since) == e.live /\ e.currency \in froms /\ e.row.day >= since

LEMMA RebuiltIs ==
  ASSUME NEW to \in Currencies, NEW known \in SUBSET Rated, NEW froms, NEW since, book \in Seq(Booked)
  PROVE  /\ Rebuilt(to, known, froms, since) \in Seq(Booked)
         /\ DOMAIN Rebuilt(to, known, froms, since) = DOMAIN book
         /\ \A n \in DOMAIN book :
              Renewed(to, known, book[n], Rebuilt(to, known, froms, since)[n], Covered(book[n], froms, since))
<1>. DEFINE new == Rebuilt(to, known, froms, since)
<1>1. new = [n \in DOMAIN book |-> new[n]] /\ DOMAIN new = DOMAIN book
  BY DEF Rebuilt
<1>2. Len(book) \in Nat /\ DOMAIN book = 1..Len(book)
  OBVIOUS
<1>3. ASSUME NEW n \in DOMAIN book
      PROVE  new[n] \in Booked /\ Renewed(to, known, book[n], new[n], Covered(book[n], froms, since))
  <2>1. book[n] \in Booked
    BY <1>2, <1>3
  <2>2. Project(book[n].row, book[n].currency, to, known) \in Projection
    BY <2>1, ProjectType DEF Booked
  <2>3. new[n] = IF Covered(book[n], froms, since)
                 THEN [book[n] EXCEPT !.proj = Project(book[n].row, book[n].currency, to, known),
                                      !.raw = FALSE]
                 ELSE book[n]
    BY DEF Rebuilt, Covered
  <2>4. CASE Covered(book[n], froms, since)
    BY <2>1, <2>2, <2>3, <2>4 DEF Booked, Renewed
  <2>5. CASE ~Covered(book[n], froms, since)
    BY <2>1, <2>3, <2>5 DEF Booked, Renewed
  <2>. QED  BY <2>4, <2>5
<1>4. \A n \in 1..Len(book) : new[n] \in Booked
  BY <1>2, <1>3
<1>. HIDE DEF new
<1>5. new \in Seq(Booked)
  BY <1>1, <1>2, <1>4
<1>. QED  BY <1>1, <1>3, <1>5 DEF new

LEMMA BookInvInit == ReportsInit => BookInv
<1>. SUFFICES ASSUME ReportsInit PROVE BookInv
  OBVIOUS
<1>1. base \in Currencies /\ rates = {} /\ rates \subseteq Rated
  BY DEF ReportsInit
<1>2. Len(Opened) \in Nat /\ DOMAIN Opened = 1..Len(Opened) /\ \A n \in DOMAIN Opened : Opened[n] \in BookRow
  BY ReportsGiven
<1>3. DOMAIN book = DOMAIN Opened /\ \A n \in DOMAIN book : book[n] = Entry(Opened[n])
  BY DEF ReportsInit
<1>4. \A n \in DOMAIN book : book[n] \in Booked /\ Shows(book[n])
  BY <1>1, <1>2, <1>3, EntryIsBooked
<1>5. book = [n \in 1..Len(Opened) |-> Entry(Opened[n])]
  BY <1>2 DEF ReportsInit
<1>6. book \in Seq(Booked)
  BY <1>2, <1>3, <1>4, <1>5
<1>. QED  BY <1>1, <1>4, <1>6 DEF BookInv, ReportTypes, OneRateADay, ProjectionsAreFresh, Shows

\* A rate that comes changes no projection from another currency or into another.
LEMMA OtherRates ==
  ASSUME NEW new \in Rated, NEW r \in BookRow, NEW from \in Currencies, NEW to \in Currencies,
         rates \subseteq Rated, from # new.from \/ to # new.to
  PROVE  Project(r, from, to, {s \in rates : ~SameKey(s, new)} \cup {new}) = Project(r, from, to, rates)
<1>1. Dated({s \in rates : ~SameKey(s, new)} \cup {new}, from, to, r.day) = Dated(rates, from, to, r.day)
  BY DEF Dated, SameKey
<1>. QED  BY <1>1 DEF Project

\* A new row that shows what it should.
LEMMA AddedRow ==
  ASSUME BookInv, NEW e \in Booked, Shows(e), book' = Append(book, e), base' = base, rates' = rates
  PROVE  BookInv'
<1>0. /\ book \in Seq(Booked) /\ ProjectionsAreFresh
      /\ Len(book) \in Nat /\ DOMAIN book = 1..Len(book)
  BY DEF BookInv, ReportTypes
<1>1. /\ book' \in Seq(Booked) /\ DOMAIN book' = 1..(Len(book) + 1)
      /\ book'[Len(book) + 1] = e
      /\ \A n \in 1..Len(book) : book'[n] = book[n]
  BY <1>0
<1>2. ASSUME NEW n \in DOMAIN book', book'[n].live
      PROVE  book'[n].proj = IF book'[n].raw THEN Pending
                             ELSE Project(book'[n].row, book'[n].currency, base, rates)
  <2>1. CASE n = Len(book) + 1
    BY <1>1, <2>1 DEF Shows, Projected
  <2>2. CASE n \in 1..Len(book)
    BY <1>0, <1>1, <1>2, <2>2 DEF ProjectionsAreFresh, Projected
  <2>. QED  BY <1>0, <1>1, <2>1, <2>2
<1>. QED  BY <1>1, <1>2 DEF BookInv, ReportTypes, OneRateADay, ProjectionsAreFresh, Projected

\* A rebuild to a base currency and rates after which what it does not cover
\* shows what it did.
LEMMA RebuiltRows ==
  ASSUME BookInv, NEW froms, NEW since, base' \in Currencies, rates' \in SUBSET Rated, OneRateADay',
         book' = Rebuilt(base', rates', froms, since),
         \A n \in DOMAIN book : book[n].live /\ ~Covered(book[n], froms, since) /\ ~book[n].raw =>
           Project(book[n].row, book[n].currency, base', rates') = Projected(book[n])
  PROVE  BookInv'
<1>1. /\ book \in Seq(Booked) /\ ProjectionsAreFresh
      /\ \A n \in DOMAIN book : book[n] \in Booked
  BY DEF BookInv, ReportTypes
<1>2. /\ book' \in Seq(Booked) /\ DOMAIN book' = DOMAIN book
      /\ \A n \in DOMAIN book :
           Renewed(base', rates', book[n], book'[n], Covered(book[n], froms, since))
  BY <1>1, RebuiltIs
<1>3. ASSUME NEW n \in DOMAIN book', book'[n].live
      PROVE  book'[n].proj = IF book'[n].raw THEN Pending
                             ELSE Project(book'[n].row, book'[n].currency, base', rates')
  <2>1. /\ n \in DOMAIN book /\ book[n].live
        /\ Renewed(base', rates', book[n], book'[n], Covered(book[n], froms, since))
    BY <1>2, <1>3 DEF Renewed
  <2>2. CASE Covered(book[n], froms, since)
    BY <2>1, <2>2 DEF Renewed
  <2>3. CASE ~Covered(book[n], froms, since)
    <3>1. /\ book'[n].raw = book[n].raw /\ book'[n].proj = book[n].proj
          /\ book'[n].row = book[n].row /\ book'[n].currency = book[n].currency
      <4>1. book[n].raw \in BOOLEAN
        BY <1>1, <2>1 DEF Booked
      <4>. QED  BY <2>1, <2>3, <4>1 DEF Renewed
    <3>2. book[n].proj = IF book[n].raw THEN Pending ELSE Projected(book[n])
      BY <1>1, <2>1 DEF ProjectionsAreFresh
    <3>. QED  BY <2>1, <2>3, <3>1, <3>2
  <2>. QED  BY <2>2, <2>3
<1>. QED  BY <1>2, <1>3 DEF BookInv, ReportTypes, ProjectionsAreFresh, Projected

LEMMA BookInvNext == BookInv /\ [ReportsNext]_reportsVars => BookInv'
<1>. SUFFICES ASSUME BookInv, [ReportsNext]_reportsVars PROVE BookInv'
  OBVIOUS
<1>0. /\ base \in Currencies /\ rates \subseteq Rated /\ book \in Seq(Booked)
      /\ OneRateADay /\ ProjectionsAreFresh
      /\ Len(book) \in Nat /\ DOMAIN book = 1..Len(book)
      /\ \A n \in DOMAIN book : book[n] \in Booked
  BY DEF BookInv, ReportTypes
<1>1. ASSUME NEW r \in Rows, Create(r) \/ BulkCreate(r) PROVE BookInv'
  <2>1. /\ r \in BookRow /\ base' = base /\ rates' = rates
        /\ book' = Append(book, Entry(r)) \/ book' = Append(book, BulkEntry(r))
    BY <1>1, ReportsGiven DEF Create, BulkCreate
  <2>. QED  BY <1>0, <2>1, EntryIsBooked, AddedRow
<1>2. ASSUME NEW new \in Rates, UpsertRate(new) PROVE BookInv'
  <2>1. /\ new \in Rated /\ base' = base
        /\ rates' = {s \in rates : ~SameKey(s, new)} \cup {new}
        /\ book' = IF new \notin rates /\ new.to = base THEN Rebuilt(base, rates', {new.from}, 1) ELSE book
    BY <1>2, ReportsGiven DEF UpsertRate
  <2>2. rates' \in SUBSET Rated
    BY <1>0, <2>1
  <2>3. OneRateADay'
    BY <1>0, <2>1 DEF OneRateADay, SameKey
  <2>4. ASSUME NEW n \in DOMAIN book, book[n].currency # new.from \/ base # new.to
        PROVE  Project(book[n].row, book[n].currency, base, rates') = Projected(book[n])
    <3>1. book[n].row \in BookRow /\ book[n].currency \in Currencies
      BY <1>0 DEF Booked
    <3>. QED  BY <1>0, <2>1, <2>4, <3>1, OtherRates DEF Projected
  <2>5. CASE new \notin rates /\ new.to = base
    <3>1. book' = Rebuilt(base', rates', {new.from}, 1)
      BY <2>1, <2>5
    <3>2. \A n \in DOMAIN book : book[n].row.day >= 1
      BY <1>0 DEF Booked, BookRow, Days
    <3>3. \A n \in DOMAIN book : book[n].live /\ ~Covered(book[n], {new.from}, 1) =>
            book[n].currency # new.from
      BY <3>2 DEF Covered
    <3>4. \A n \in DOMAIN book : book[n].live /\ ~Covered(book[n], {new.from}, 1) /\ ~book[n].raw =>
            Project(book[n].row, book[n].currency, base', rates') = Projected(book[n])
      BY <2>1, <2>4, <3>3
    <3>5. base' \in Currencies
      BY <1>0, <2>1
    <3>6. PICK froms : froms = {new.from}
      OBVIOUS
    <3>7. PICK since : since = 1
      OBVIOUS
    <3>8. /\ book' = Rebuilt(base', rates', froms, since)
          /\ \A n \in DOMAIN book : book[n].live /\ ~Covered(book[n], froms, since) /\ ~book[n].raw =>
               Project(book[n].row, book[n].currency, base', rates') = Projected(book[n])
      BY <3>1, <3>4, <3>6, <3>7
    <3>. QED  BY <2>2, <2>3, <3>5, <3>8, RebuiltRows
  <2>6. CASE ~(new \notin rates /\ new.to = base)
    <3>1. book' = book
      BY <2>1, <2>6
    <3>2. new \in rates => rates' = rates
      BY <1>0, <2>1 DEF OneRateADay, SameKey
    <3>3. ASSUME NEW n \in DOMAIN book, book[n].live
          PROVE  book[n].proj = IF book[n].raw THEN Pending
                                ELSE Project(book[n].row, book[n].currency, base, rates')
      <4>1. book[n].proj = IF book[n].raw THEN Pending ELSE Projected(book[n])
        BY <1>0, <3>3 DEF ProjectionsAreFresh
      <4>2. CASE new \in rates
        BY <3>2, <4>1, <4>2 DEF Projected
      <4>3. CASE new.to # base
        BY <2>4, <4>1, <4>3
      <4>. QED  BY <2>6, <4>2, <4>3
    <3>. QED  BY <1>0, <2>1, <2>2, <2>3, <3>1, <3>3 DEF BookInv, ReportTypes, ProjectionsAreFresh, Projected
  <2>. QED  BY <2>5, <2>6
<1>3. ASSUME NEW c \in Currencies, SetBase(c) PROVE BookInv'
  <2>1. base' = c /\ rates' = rates /\ book' = Rebuilt(base', rates', Currencies, 1)
    BY <1>3 DEF SetBase
  <2>2. \A n \in DOMAIN book : book[n].live => Covered(book[n], Currencies, 1)
    BY <1>0 DEF Booked, BookRow, Days, Covered
  <2>3. base' \in Currencies /\ rates' \in SUBSET Rated /\ OneRateADay'
    BY <1>0, <2>1 DEF OneRateADay
  <2>4. \A n \in DOMAIN book : book[n].live /\ ~Covered(book[n], Currencies, 1) /\ ~book[n].raw =>
          Project(book[n].row, book[n].currency, base', rates') = Projected(book[n])
    BY <2>2
  <2>. QED  BY <2>1, <2>3, <2>4, RebuiltRows
<1>6. ASSUME NEW froms, NEW since, Rebuild(froms, since) PROVE BookInv'
  <2>1. base' = base /\ rates' = rates /\ book' = Rebuilt(base', rates', froms, since)
    BY <1>6 DEF Rebuild
  <2>2. base' \in Currencies /\ rates' \in SUBSET Rated /\ OneRateADay'
    BY <1>0, <2>1 DEF OneRateADay
  <2>3. \A n \in DOMAIN book : Project(book[n].row, book[n].currency, base', rates') = Projected(book[n])
    BY <2>1 DEF Projected
  <2>. QED  BY <2>1, <2>2, <2>3, RebuiltRows
<1>4. ASSUME NEW n \in DOMAIN book, Delete(n) PROVE BookInv'
  <2>1. base' = base /\ rates' = rates /\ book' = [book EXCEPT ![n].live = FALSE]
    BY <1>4 DEF Delete
  <2>2. /\ DOMAIN book' = DOMAIN book
        /\ \A m \in DOMAIN book : book'[m] = IF m = n THEN [book[m] EXCEPT !.live = FALSE] ELSE book[m]
    BY <2>1
  <2>3. \A m \in DOMAIN book : /\ book'[m] \in Booked
                               /\ book'[m].row = book[m].row /\ book'[m].proj = book[m].proj
                               /\ book'[m].currency = book[m].currency /\ book'[m].raw = book[m].raw
                               /\ book'[m].live => book[m].live
    BY <1>0, <2>2 DEF Booked
  <2>4. book' \in Seq(Booked)
    BY <1>0, <2>1, <2>2, <2>3
  <2>. QED  BY <1>0, <2>1, <2>2, <2>3, <2>4 DEF BookInv, ReportTypes, OneRateADay, ProjectionsAreFresh, Projected
<1>5. CASE UNCHANGED reportsVars
  BY <1>5 DEF BookInv, ReportTypes, OneRateADay, ProjectionsAreFresh, Projected, reportsVars
<1>. QED  BY <1>1, <1>2, <1>3, <1>4, <1>5, <1>6 DEF ReportsNext

\* The projections that rows keep are those of today's base currency and rates,
\* whatever was stored, rebuilt or deleted in between; rows entered in bulk have
\* none until a rebuild covers them, and then the same.
THEOREM AlwaysFresh == ReportsSpec => []ProjectionsAreFresh
<1>1. ReportsSpec => []BookInv
  BY BookInvInit, BookInvNext, PTL DEF ReportsSpec
<1>. QED  BY <1>1, PTL DEF BookInv

-----------------------------------------------------------------------------
(* Roundings.                                                              *)

\* A quotient is rounded down.
LEMMA QuotientIsNear ==
  ASSUME NEW a \in Nat, NEW d \in Nat \ {0}
  PROVE  a \div d \in Nat /\ d * (a \div d) <= a /\ a < d * (a \div d) + d
OBVIOUS

LEMMA HalfIsNear ==
  ASSUME NEW d \in Nat
  PROVE  d \div 2 \in Nat /\ d - 1 <= 2 * (d \div 2) /\ 2 * (d \div 2) <= d
OBVIOUS

\* What is rounded half up is a whole number that is at most half a unit off.
LEMMA HalfUpIsNear ==
  ASSUME NEW a \in Nat, NEW d \in Nat \ {0}
  PROVE  /\ HalfUp(a, d) \in Nat
         /\ 2 * (d * HalfUp(a, d)) <= 2 * a + d
         /\ 2 * a <= 2 * (d * HalfUp(a, d)) + d
<1>1. PICK h \in Nat : h = d \div 2 /\ d - 1 <= 2 * h /\ 2 * h <= d
  BY HalfIsNear
<1>2. a + h \in Nat
  BY <1>1
<1>3. PICK q \in Nat : q = (a + h) \div d /\ d * q <= a + h /\ a + h < d * q + d
  BY <1>2, QuotientIsNear
<1>4. HalfUp(a, d) = q
  BY <1>1, <1>3 DEF HalfUp
<1>5. PICK y \in Nat : y = d * q
  OBVIOUS
<1>6. 2 * y <= 2 * a + d /\ 2 * a <= 2 * y + d
  BY <1>1, <1>3, <1>5
<1>. QED  BY <1>4, <1>5, <1>6

\* If d times an error is at most n, the error is at most n of any size that d
\* times it exceeds.
LEMMA ErrorIsSmall ==
  ASSUME NEW d \in Nat \ {0}, NEW e \in Int, NEW n \in Int, NEW b \in Int,
         d * e <= n, n < d * (b + 1)
  PROVE  e <= b
<1>1. CASE e >= b + 1
  <2>1. d * e >= d * (b + 1)
    BY <1>1
  <2>2. d * e \in Int /\ d * (b + 1) \in Int
    OBVIOUS
  <2>. QED  BY <2>1, <2>2
<1>. QED  BY <1>1

LEMMA Distributed ==
  ASSUME NEW d \in Int, NEW x \in Int, NEW y \in Int
  PROVE  d * (x + y) = d * x + d * y /\ d * (x - y) = d * x - d * y /\ d * (-x) = -(d * x)
OBVIOUS

LEMMA Doubled ==
  ASSUME NEW d \in Int, NEW x \in Int
  PROVE  d * (2 * x) = 2 * (d * x)
OBVIOUS

-----------------------------------------------------------------------------
(* The cost of a position.                                                 *)

LEMMA HoldingsGiven ==
  /\ Cash \cap Tracked = {} /\ Cash \cap {"holdings", "manual"} = {}
  /\ Metals \subseteq Series /\ Pairs \subseteq Series
  /\ QuantityScale \in Nat \ {0} /\ SpotScale \in Nat \ {0}
  /\ GramsPerOunce \in Nat \ {0} /\ MinorUnits \in Nat \ {0}
  /\ Quantities \subseteq Nat /\ Values \subseteq Nat
  /\ Amounts \subseteq Nat \ {0} /\ Prices \subseteq Nat \ {0} /\ Quotes \subseteq Nat \ {0}
  /\ None \notin Position
  /\ MaxHoldings \in Nat /\ MaxOps \in Nat
BY HoldingsAssumption DEF Position

\* A product of units and a price is at most half a minor unit off.
LEMMA WorthIsNear ==
  ASSUME NEW u \in Nat, NEW v \in Nat
  PROVE  /\ Worth(u, v) \in Nat
         /\ 2 * (QuantityScale * Worth(u, v)) <= 2 * (u * v) + QuantityScale
         /\ 2 * (u * v) <= 2 * (QuantityScale * Worth(u, v)) + QuantityScale
<1>1. u * v \in Nat /\ QuantityScale \in Nat \ {0}
  BY HoldingsGiven
<1>. QED  BY <1>1, HalfUpIsNear DEF Worth

\* An average is half a minor unit for each unit off, and the product of the units
\* and it half a minor unit: what rounding may move the cost by, doubled.
LEMMA AverageIsNear ==
  ASSUME NEW cost \in Nat, NEW amount \in Nat, NEW old \in Nat, NEW new \in Nat \ {0},
         NEW units \in Nat, new <= units
  PROVE  LET v == Average(cost, amount, old, new)
             k == HalfUp(units, QuantityScale)
         IN /\ v \in Nat /\ k \in Nat
            /\ 2 * (Worth(new, v) - cost - amount) <= k + 1
            /\ 2 * (cost + amount - Worth(new, v)) <= k + 1
<1>1. PICK S \in Nat \ {0} : S = QuantityScale
  BY HoldingsGiven
<1>2. PICK c \in Nat : c = cost + amount
  OBVIOUS
<1>3. PICK p \in Nat : p = c * S
  OBVIOUS
<1>4. PICK v \in Nat : /\ v = Average(cost, amount, old, new)
                       /\ 2 * (new * v) <= 2 * p + new /\ 2 * p <= 2 * (new * v) + new
  BY <1>1, <1>2, <1>3, HalfUpIsNear DEF Average
<1>5. PICK x \in Nat : x = new * v
  OBVIOUS
<1>6. PICK w \in Nat : w = Worth(new, v) /\ 2 * (S * w) <= 2 * x + S /\ 2 * x <= 2 * (S * w) + S
  <2>1. new \in Nat
    OBVIOUS
  <2>2. PICK w \in Nat : /\ w = Worth(new, v)
                         /\ 2 * (QuantityScale * w) <= 2 * (new * v) + QuantityScale
                         /\ 2 * (new * v) <= 2 * (QuantityScale * w) + QuantityScale
    BY <2>1, WorthIsNear
  <2>. QED  BY <1>1, <1>5, <2>2
<1>7. PICK k \in Nat : k = HalfUp(units, S) /\ 2 * units <= 2 * (S * k) + S
  BY <1>1, HalfUpIsNear
<1>8. S * (2 * (w - c)) = 2 * (S * w) - 2 * p /\ S * (2 * (c - w)) = 2 * p - 2 * (S * w)
  <2>1. S * (w - c) = S * w - S * c /\ S * (c - w) = S * c - S * w
    BY Distributed
  <2>2. S * c = p
    BY <1>3
  <2>3. w - c \in Int /\ c - w \in Int
    OBVIOUS
  <2>4. S * (2 * (w - c)) = 2 * (S * (w - c)) /\ S * (2 * (c - w)) = 2 * (S * (c - w))
    BY <2>3, Doubled
  <2>5. S * w \in Int /\ p \in Int
    OBVIOUS
  <2>. QED  BY <2>1, <2>2, <2>4, <2>5
<1>9. S * (k + 2) = S * k + 2 * S
  OBVIOUS
<1>10. PICK y \in Nat : y = S * w
  OBVIOUS
<1>11. PICK z \in Nat : z = S * k
  OBVIOUS
<1>12. /\ S * (2 * (w - c)) <= new + S /\ S * (2 * (c - w)) <= new + S
       /\ new + S < S * (k + 2)
  BY <1>4, <1>5, <1>6, <1>7, <1>8, <1>9, <1>10, <1>11
<1>13. 2 * (w - c) \in Int /\ 2 * (c - w) \in Int /\ k + 1 \in Int /\ k + 2 = (k + 1) + 1 /\ new + S \in Int
  OBVIOUS
<1>14. 2 * (w - c) <= k + 1 /\ 2 * (c - w) <= k + 1
  BY <1>12, <1>13, ErrorIsSmall
<1>15. w - c = w - cost - amount /\ c - w = cost + amount - w
  BY <1>2
<1>16. k = HalfUp(units, QuantityScale)
  BY <1>1, <1>7
<1>. QED  BY <1>4, <1>6, <1>14, <1>15, <1>16

\* What leaves a position and what stays cost what it cost, but for one.
LEMMA CostIsShared ==
  ASSUME NEW u \in Nat, NEW k \in Nat, k <= u, NEW v \in Nat
  PROVE  /\ Worth(u, v) - Worth(k, v) - Worth(u - k, v) <= 1
         /\ Worth(k, v) + Worth(u - k, v) - Worth(u, v) <= 1
<1>1. PICK S \in Nat \ {0} : S = QuantityScale
  BY HoldingsGiven
<1>2. PICK r \in Nat : r = u - k
  OBVIOUS
<1>3. u * v = k * v + r * v
  BY <1>2
<1>4. PICK a \in Nat : a = Worth(u, v) /\ 2 * (S * a) <= 2 * (u * v) + S /\ 2 * (u * v) <= 2 * (S * a) + S
  BY <1>1, WorthIsNear
<1>5. PICK b \in Nat : b = Worth(k, v) /\ 2 * (S * b) <= 2 * (k * v) + S /\ 2 * (k * v) <= 2 * (S * b) + S
  BY <1>1, WorthIsNear
<1>6. PICK c \in Nat : c = Worth(r, v) /\ 2 * (S * c) <= 2 * (r * v) + S /\ 2 * (r * v) <= 2 * (S * c) + S
  BY <1>1, WorthIsNear
<1>7. S * (a - b - c) = S * a - S * b - S * c /\ S * (b + c - a) = S * b + S * c - S * a
  OBVIOUS
<1>8. PICK x \in Int : x = S * a - S * b - S * c
  OBVIOUS
<1>9. 2 * x <= 3 * S /\ -(2 * x) <= 3 * S
  <2>1. PICK p \in Nat, q \in Nat : p = k * v /\ q = r * v
    OBVIOUS
  <2>2. PICK sa \in Nat, sb \in Nat, sc \in Nat : sa = S * a /\ sb = S * b /\ sc = S * c
    OBVIOUS
  <2>. QED  BY <1>3, <1>4, <1>5, <1>6, <1>8, <2>1, <2>2
<1>10. x < S * 2 /\ -x < S * 2
  BY <1>9
<1>11. S * (a - b - c) <= x /\ S * (b + c - a) <= -x
  <2>1. PICK sa \in Nat, sb \in Nat, sc \in Nat : sa = S * a /\ sb = S * b /\ sc = S * c
    OBVIOUS
  <2>. QED  BY <1>7, <1>8, <2>1
<1>12. a - b - c \in Int /\ b + c - a \in Int /\ 2 = 1 + 1 /\ 1 \in Int /\ -x \in Int
  OBVIOUS
<1>13. a - b - c <= 1 /\ b + c - a <= 1
  BY <1>10, <1>11, <1>12, ErrorIsSmall
<1>. QED  BY <1>2, <1>4, <1>5, <1>6, <1>13

LEMMA HalfEvenIsNatural == ASSUME NEW a \in Nat, NEW d \in Nat \ {0} PROVE HalfEven(a, d) \in Nat
<1>1. Abs(a) = a /\ ~(a < 0)
  BY DEF Abs
<1>2. a \div d \in Nat /\ a % d \in Int
  BY QuotientIsNear
<1>. QED  BY <1>1, <1>2 DEF HalfEven

-----------------------------------------------------------------------------
(* The inductive invariant.                                                *)

\* A tracked account is worth its latest valuation.
BalanceIsLatest == \A a \in Tracked : balance[a] = Latest(vals[a])

\* The last valuation written to an account that holds anything is the worth of
\* its positions.
LastIsWorth ==
  \A a \in Tracked : Held(a) # {} =>
    /\ vals[a] # <<>>
    /\ vals[a][Len(vals[a])].by = "holdings"
    /\ vals[a][Len(vals[a])].value = SumWorth(holding, a)

HoldingsInv == HoldingsTypeOK /\ BalanceIsLatest /\ LastIsWorth /\ BasisDriftIsBounded

-----------------------------------------------------------------------------
(* Sums over the positions of an account.                                  *)

Positions == [HoldingId -> Position \cup {None}]

\* A sum of numbers that are not negative is none, and is at least each of them.
LEMMA SumCovers ==
  ASSUME NEW S, IsFiniteSet(S), NEW f, \A x \in S : f[x] \in Nat
  PROVE  SumOn(f, S) \in Nat /\ \A x \in S : f[x] <= SumOn(f, S)
<1>. DEFINE B == {s \in SUBSET S : SumOn(f, s) \notin Nat}
<1>1. ASSUME NEW T \in SUBSET S PROVE SumOn(f, T) \in Nat
  <2>1. SUFFICES ASSUME B # {} PROVE FALSE
    OBVIOUS
  <2>2. PICK s \in B : IsFiniteSet(s) /\ \A x \in s : s \ {x} \notin B
    BY <2>1, LeastCounterexample
  <2>3. s # {}
    BY SumEmpty
  <2>4. Chosen(s) \in s
    BY <2>3 DEF Chosen
  <2>5. SumOn(f, s) = f[Chosen(s)] + SumOn(f, s \ {Chosen(s)})
    BY <2>2, <2>3, SumChosen
  <2>. QED  BY <2>2, <2>4, <2>5
<1>2. ASSUME NEW x \in S PROVE f[x] <= SumOn(f, S)
  <2>1. SumOn(f, S) = f[x] + SumOn(f, S \ {x})
    BY SumRemove
  <2>2. SumOn(f, S \ {x}) \in Nat
    BY <1>1
  <2>. QED  BY <2>1, <2>2
<1>. QED  BY <1>1, <1>2

LEMMA IdsAreFinite == IsFiniteSet(HoldingId) /\ \A hs, a : IsFiniteSet(PositionsIn(hs, a))
<1>1. IsFiniteSet(HoldingId)
  BY HoldingsGiven, FS_Interval DEF HoldingId
<1>2. ASSUME NEW hs, NEW a PROVE IsFiniteSet(PositionsIn(hs, a))
  BY <1>1, FS_Subset DEF PositionsIn
<1>. QED  BY <1>1, <1>2

LEMMA PositionTyped ==
  ASSUME NEW p \in Position
  PROVE  /\ p # None
         /\ p.acc \in Tracked /\ p.ins \in Instruments /\ p.units \in Nat /\ p.avg \in Nat
         /\ p.last \in Nat \cup {None} /\ PriceOf(p) \in Nat
         /\ Cost(p) \in Nat /\ Worth(p.units, PriceOf(p)) \in Nat
<1>1. p # None /\ p.acc \in Tracked /\ p.ins \in Instruments /\ p.units \in Nat /\ p.avg \in Nat
      /\ p.last \in Nat \cup {None}
  BY HoldingsGiven DEF Position
<1>2. PriceOf(p) \in Nat
  BY <1>1 DEF PriceOf
<1>. QED  BY <1>1, <1>2, WorthIsNear DEF Cost

\* The worth of positions is a sum over them.
LEMMA WorthIsSum ==
  ASSUME NEW hs \in Positions, NEW a
  PROVE  /\ SumWorth(hs, a) = SumOn([h \in PositionsIn(hs, a) |-> Worth(hs[h].units, PriceOf(hs[h]))],
                                    PositionsIn(hs, a))
         /\ SumWorth(hs, a) \in Int
<1>. DEFINE P == PositionsIn(hs, a)
            f == [h \in P |-> Worth(hs[h].units, PriceOf(hs[h]))]
<1>1. SumOn(f, P) = SumWorth(hs, a)
  BY DEF SumWorth, SumOn, MapThenSumSet, MapThenFoldSet
<1>2. \A h \in P : hs[h] \in Position
  BY DEF PositionsIn, Positions
<1>3. \A h \in P : f[h] \in Int
  BY <1>2, PositionTyped
<1>. QED  BY <1>1, <1>3, IdsAreFinite, SumType

\* So it depends on the positions alone.
LEMMA WorthStays ==
  ASSUME NEW hs \in Positions, NEW gs \in Positions, NEW a,
         PositionsIn(gs, a) = PositionsIn(hs, a),
         \A h \in PositionsIn(hs, a) : gs[h] = hs[h]
  PROVE  SumWorth(gs, a) = SumWorth(hs, a)
<1>. DEFINE P == PositionsIn(hs, a)
            f == [h \in P |-> Worth(hs[h].units, PriceOf(hs[h]))]
            g == [h \in P |-> Worth(gs[h].units, PriceOf(gs[h]))]
<1>1. f = g
  OBVIOUS
<1>. QED  BY <1>1, WorthIsSum

\* What a position costs account a.
CostFor(p, a) == IF p # None /\ p.acc = a THEN Cost(p) ELSE 0
CostsFor(hs, a) == [h \in HoldingId |-> CostFor(hs[h], a)]

LEMMA CostIsSum ==
  ASSUME NEW hs \in Positions, NEW a
  PROVE  /\ \A h \in HoldingId : CostsFor(hs, a)[h] \in Nat
         /\ SumCost(hs, a) = SumOn(CostsFor(hs, a), HoldingId)
         /\ SumCost(hs, a) \in Int
<1>. DEFINE P == PositionsIn(hs, a)
            f == [h \in P |-> Cost(hs[h])]
<1>1. SumOn(f, P) = SumCost(hs, a)
  BY DEF SumCost, SumOn, MapThenSumSet, MapThenFoldSet
<1>2. \A h \in HoldingId : hs[h] # None => Cost(hs[h]) \in Nat
  BY PositionTyped DEF Positions
<1>3. \A h \in HoldingId : CostsFor(hs, a)[h] \in Nat
  BY <1>2 DEF CostsFor, CostFor
<1>4. P \in SUBSET HoldingId /\ IsFiniteSet(P)
  BY IdsAreFinite DEF PositionsIn
<1>5. \A h \in P : CostsFor(hs, a)[h] = f[h] /\ CostsFor(hs, a)[h] \in Int
  BY <1>3, <1>4 DEF CostsFor, CostFor, PositionsIn
<1>6. \A h \in HoldingId \ P : CostsFor(hs, a)[h] = 0
  BY DEF CostsFor, CostFor, PositionsIn
<1>7. SumOn(CostsFor(hs, a), HoldingId) = SumOn(CostsFor(hs, a), P)
  BY <1>4, <1>5, <1>6, IdsAreFinite, SumSupport
<1>8. SumOn(CostsFor(hs, a), P) = SumOn(f, P)
  BY <1>4, <1>5, SumSame
<1>9. SumOn(CostsFor(hs, a), HoldingId) \in Int
  BY <1>3, IdsAreFinite, SumType
<1>. QED  BY <1>1, <1>3, <1>7, <1>8, <1>9

\* A position that changes changes the cost by what it cost and costs.
LEMMA CostMoves ==
  ASSUME NEW hs \in Positions, NEW h \in HoldingId, NEW q \in Position \cup {None}, NEW a
  PROVE  SumCost([hs EXCEPT ![h] = q], a) = SumCost(hs, a) - CostFor(hs[h], a) + CostFor(q, a)
<1>. DEFINE gs == [hs EXCEPT ![h] = q]
<1>1. gs \in Positions /\ gs[h] = q /\ \A x \in HoldingId \ {h} : gs[x] = hs[x]
  BY DEF Positions
<1>. HIDE DEF gs
<1>2. /\ \A x \in HoldingId : CostsFor(hs, a)[x] \in Int /\ CostsFor(gs, a)[x] \in Int
      /\ SumCost(hs, a) = SumOn(CostsFor(hs, a), HoldingId)
      /\ SumCost(gs, a) = SumOn(CostsFor(gs, a), HoldingId)
  BY <1>1, CostIsSum
<1>3. \A x \in HoldingId \ {h} : CostsFor(gs, a)[x] = CostsFor(hs, a)[x]
  BY <1>1 DEF CostsFor
<1>4. CostsFor(hs, a)[h] = CostFor(hs[h], a) /\ CostsFor(gs, a)[h] = CostFor(q, a)
  BY <1>1 DEF CostsFor
<1>5. SumOn(CostsFor(gs, a), HoldingId)
        = SumOn(CostsFor(hs, a), HoldingId) - CostsFor(hs, a)[h] + CostsFor(gs, a)[h]
  BY <1>2, <1>3, IdsAreFinite, SumUpdate
<1>. QED  BY <1>2, <1>4, <1>5 DEF gs

\* No position has more units than its account.
LEMMA UnitsCover ==
  ASSUME NEW hs \in Positions, NEW a
  PROVE  UnitsIn(hs, a) \in Nat /\ \A h \in PositionsIn(hs, a) : hs[h].units <= UnitsIn(hs, a)
<1>. DEFINE P == PositionsIn(hs, a)
            f == [h \in P |-> hs[h].units]
<1>1. SumOn(f, P) = UnitsIn(hs, a)
  BY DEF UnitsIn, SumOn, MapThenSumSet, MapThenFoldSet
<1>2. \A h \in P : hs[h] \in Position
  BY DEF PositionsIn, Positions
<1>3. \A h \in P : f[h] \in Nat
  BY <1>2, PositionTyped
<1>4. SumOn(f, P) \in Nat /\ \A h \in P : f[h] <= SumOn(f, P)
  BY <1>3, IdsAreFinite, SumCovers
<1>. QED  BY <1>1, <1>4

-----------------------------------------------------------------------------
(* An operation on account a, and the rest.                                *)

\* Only positions of account a are opened, changed or closed.
OthersStay(hs, gs, a) ==
  \A h \in HoldingId :
    \/ gs[h] = hs[h]
    \/ (hs[h] # None => hs[h].acc = a) /\ (gs[h] # None => gs[h].acc = a)

LEMMA OthersKeep ==
  ASSUME NEW hs \in Positions, NEW gs \in Positions, NEW a, NEW b, b # a, OthersStay(hs, gs, a)
  PROVE  /\ PositionsIn(gs, b) = PositionsIn(hs, b)
         /\ SumWorth(gs, b) = SumWorth(hs, b)
         /\ SumCost(gs, b) = SumCost(hs, b)
<1>1. \A h \in HoldingId :
        \/ gs[h] = hs[h]
        \/ ~(hs[h] # None /\ hs[h].acc = b) /\ ~(gs[h] # None /\ gs[h].acc = b)
  BY DEF OthersStay
<1>2. PositionsIn(gs, b) = PositionsIn(hs, b)
  BY <1>1 DEF PositionsIn
<1>3. \A h \in PositionsIn(hs, b) : gs[h] = hs[h]
  BY <1>1 DEF PositionsIn
<1>4. SumWorth(gs, b) = SumWorth(hs, b)
  BY <1>2, <1>3, WorthStays
<1>5. \A h \in HoldingId : CostFor(gs[h], b) = CostFor(hs[h], b)
  BY <1>1 DEF CostFor
<1>6. CostsFor(gs, b) = CostsFor(hs, b)
  BY <1>5 DEF CostsFor
<1>7. SumCost(gs, b) = SumCost(hs, b)
  BY <1>6, CostIsSum
<1>. QED  BY <1>2, <1>4, <1>7

LEMMA LatestTyped ==
  ASSUME NEW vs \in Seq(Valuation)
  PROVE  /\ Latest(vs) \in Int
         /\ vs # <<>> /\ (\A n \in DOMAIN vs : ~vs[n].ahead) => Latest(vs) = vs[Len(vs)].value
<1>. DEFINE late == {n \in DOMAIN vs : vs[n].ahead}
<1>1. CASE vs = <<>>
  BY <1>1 DEF Latest
<1>2. CASE vs # <<>> /\ late # {}
  <2>1. late \in SUBSET Int /\ Len(vs) \in Int /\ \A n \in late : n <= Len(vs)
    OBVIOUS
  <2>2. PICK n \in late : \A m \in late : m <= n
    BY <1>2, <2>1, GreatestNumber
  <2>3. n \in late /\ \A m \in late : n >= m
    BY <2>1, <2>2
  <2>4. Max(late) \in late
    BY <2>3 DEF Max
  <2>5. Latest(vs) = vs[Max(late)].value
    BY <1>2 DEF Latest
  <2>6. vs[Max(late)] \in Valuation
    BY <2>4
  <2>. QED  BY <1>2, <2>5, <2>6 DEF Valuation
<1>3. CASE vs # <<>> /\ late = {}
  <2>1. Latest(vs) = vs[Len(vs)].value
    BY <1>3 DEF Latest
  <2>2. vs[Len(vs)] \in Valuation
    BY <1>3
  <2>. QED  BY <2>1, <2>2 DEF Valuation
<1>. QED  BY <1>1, <1>2, <1>3

\* The facts of the invariant that a valuation is about.
Anchored == BalanceIsLatest /\ LastIsWorth
LedgerTyped ==
  /\ balance \in [Cash \cup Tracked -> Int]
  /\ vals \in [Tracked -> Seq(Valuation)]
  /\ holding \in Positions

LEMMA AppendsLast ==
  ASSUME NEW T, NEW vs \in Seq(T), NEW v \in T
  PROVE  /\ Append(vs, v) \in Seq(T) /\ Append(vs, v) # <<>>
         /\ Append(vs, v)[Len(Append(vs, v))] = v
OBVIOUS

\* Other accounts of the tracked ones are not the cash that a trade moves.
CashMoves(bals) ==
  bals \in [Cash \cup Tracked -> Int] /\ \A b \in Tracked : bals[b] = balance[b]

LEMMA CashIsApart ==
  ASSUME LedgerTyped, NEW c \in Cash, NEW amount \in Int
  PROVE  /\ CashMoves([balance EXCEPT ![c] = @ + amount])
         /\ CashMoves([balance EXCEPT ![c] = @ - amount])
         /\ CashMoves(balance)
<1>1. balance \in [Cash \cup Tracked -> Int] /\ balance[c] \in Int /\ \A b \in Tracked : b # c
  BY HoldingsGiven DEF LedgerTyped
<1>. QED  BY <1>1 DEF CashMoves

\* A valuation of a tracked account, when it is the worth of its positions or the
\* account holds none.
LEMMA WriteKeeps ==
  ASSUME LedgerTyped, Anchored, NEW a \in Tracked, NEW hs \in Positions, OthersStay(holding, hs, a),
         holding' = hs, NEW v \in Valuation, NEW bals, CashMoves(bals),
         vals' = [vals EXCEPT ![a] = Append(@, v)],
         balance' = [bals EXCEPT ![a] = Latest(vals'[a])],
         PositionsIn(hs, a) # {} => v.by = "holdings" /\ v.value = SumWorth(hs, a)
  PROVE  LedgerTyped' /\ Anchored'
<1>1. vals[a] \in Seq(Valuation)
  BY DEF LedgerTyped
<1>2. PICK vs \in Seq(Valuation) : vs = Append(vals[a], v) /\ vs # <<>> /\ vs[Len(vs)] = v
  <2>1. PICK us \in Seq(Valuation) : us = vals[a]
    BY <1>1
  <2>2. PICK vs : vs = Append(us, v)
    OBVIOUS
  <2>3. vs \in Seq(Valuation) /\ vs # <<>> /\ vs[Len(vs)] = v
    BY <2>2, AppendsLast
  <2>. QED  BY <2>1, <2>2, <2>3
<1>3. vals' = [vals EXCEPT ![a] = vs]
  BY <1>2
<1>4. vals' \in [Tracked -> Seq(Valuation)] /\ vals'[a] = vs /\ \A b \in Tracked \ {a} : vals'[b] = vals[b]
  BY <1>3 DEF LedgerTyped
<1>5. Latest(vs) \in Int
  BY LatestTyped
<1>6. balance' \in [Cash \cup Tracked -> Int] /\ balance'[a] = Latest(vs)
      /\ \A b \in Tracked \ {a} : balance'[b] = balance[b]
  BY <1>4, <1>5 DEF CashMoves
<1>7. LedgerTyped'
  BY <1>4, <1>6 DEF LedgerTyped
<1>8. BalanceIsLatest'
  BY <1>4, <1>6 DEF BalanceIsLatest, Anchored
<1>9. \A b \in Tracked \ {a} : PositionsIn(hs, b) = PositionsIn(holding, b) /\ SumWorth(hs, b) = SumWorth(holding, b)
  BY OthersKeep DEF LedgerTyped
<1>10. \A b : Held(b)' = PositionsIn(hs, b) /\ Held(b) = PositionsIn(holding, b)
  BY DEF Held, PositionsIn
<1>11. \A b : SumWorth(holding, b)' = SumWorth(hs, b)
  OBVIOUS
<1>12. LastIsWorth'
  <2>1. SUFFICES ASSUME NEW b \in Tracked, Held(b)' # {}
                 PROVE  /\ vals'[b] # <<>>
                        /\ vals'[b][Len(vals'[b])].by = "holdings"
                        /\ vals'[b][Len(vals'[b])].value = SumWorth(hs, b)
    BY <1>11 DEF LastIsWorth
  <2>2. CASE b = a
    BY <1>2, <1>4, <1>10, <2>1, <2>2
  <2>3. CASE b # a
    <3>1. Held(b) # {} /\ vals'[b] = vals[b] /\ SumWorth(hs, b) = SumWorth(holding, b)
      BY <1>4, <1>9, <1>10, <2>1, <2>3
    <3>. QED  BY <3>1 DEF LastIsWorth, Anchored
  <2>. QED  BY <2>2, <2>3
<1>. QED  BY <1>7, <1>8, <1>12 DEF Anchored

LEMMA AnchorKeeps ==
  ASSUME LedgerTyped, Anchored, NEW a \in Tracked, NEW hs \in Positions, OthersStay(holding, hs, a),
         NEW bals, CashMoves(bals), Anchor(a, hs, bals)
  PROVE  LedgerTyped' /\ Anchored' /\ holding' = hs
<1>1. PICK v : v = [value |-> SumWorth(hs, a), ahead |-> FALSE, by |-> "holdings"]
  OBVIOUS
<1>2. v \in Valuation /\ v.by = "holdings" /\ v.value = SumWorth(hs, a)
  BY <1>1, WorthIsSum DEF Valuation
<1>3. /\ holding' = hs
      /\ vals' = [vals EXCEPT ![a] = Append(@, v)]
      /\ balance' = [bals EXCEPT ![a] = Latest(vals'[a])]
  BY <1>1 DEF Anchor, Write
<1>. QED  BY <1>2, <1>3, WriteKeeps

\* The drift after an operation that replied delta.
DriftTyped == basis \in [Tracked -> Int] /\ slack \in [Tracked -> Nat]

LEMMA ReportKeeps ==
  ASSUME LedgerTyped, DriftTyped, BasisDriftIsBounded, NEW a \in Tracked, NEW hs \in Positions,
         OthersStay(holding, hs, a), holding' = hs,
         NEW delta \in Int, NEW units \in Nat, Report(a, delta, units),
         2 * (SumCost(hs, a) - SumCost(holding, a) - delta) <= HalfUp(units, QuantityScale) + 3,
         2 * (SumCost(holding, a) + delta - SumCost(hs, a)) <= HalfUp(units, QuantityScale) + 3
  PROVE  DriftTyped' /\ BasisDriftIsBounded'
<1>1. PICK k \in Nat : k = HalfUp(units, QuantityScale)
  BY HoldingsGiven, HalfUpIsNear
<1>2. /\ basis' = [basis EXCEPT ![a] = basis[a] + delta]
      /\ slack' = [slack EXCEPT ![a] = slack[a] + k + 3]
      /\ basis[a] \in Int /\ slack[a] \in Nat
  BY <1>1 DEF Report, DriftTyped
<1>3. DriftTyped'
  BY <1>2 DEF DriftTyped
<1>4. \A b : SumCost(holding, b)' = SumCost(hs, b)
  OBVIOUS
<1>5. ASSUME NEW b \in Tracked PROVE 2 * Abs(SumCost(hs, b) - basis'[b]) <= slack'[b]
  <2>1. 2 * Abs(SumCost(holding, b) - basis[b]) <= slack[b] /\ basis[b] \in Int /\ slack[b] \in Nat
    BY DEF BasisDriftIsBounded, DriftTyped
  <2>2. SumCost(hs, b) \in Int /\ SumCost(holding, b) \in Int
    BY CostIsSum DEF LedgerTyped
  <2>3. CASE b = a
    <3>1. PICK x \in Int, y \in Int : x = SumCost(holding, a) /\ y = SumCost(hs, a)
      BY <2>2, <2>3
    <3>2. 2 * (y - x - delta) <= k + 3 /\ 2 * (x + delta - y) <= k + 3
      BY <1>1, <3>1
    <3>3. basis'[a] = basis[a] + delta /\ slack'[a] = slack[a] + k + 3
      BY <1>2 DEF DriftTyped
    <3>4. 2 * Abs(x - basis[a]) <= slack[a]
      BY <2>1, <2>3, <3>1
    <3>5. 2 * Abs(y - (basis[a] + delta)) <= slack[a] + k + 3
      BY <1>2, <3>2, <3>4 DEF Abs
    <3>. QED  BY <2>3, <3>1, <3>3, <3>5
  <2>4. CASE b # a
    <3>1. SumCost(hs, b) = SumCost(holding, b)
      BY <2>4, OthersKeep DEF LedgerTyped
    <3>2. basis'[b] = basis[b] /\ slack'[b] = slack[b]
      BY <1>2, <2>4 DEF DriftTyped
    <3>. QED  BY <2>1, <3>1, <3>2
  <2>. QED  BY <2>3, <2>4
<1>. QED  BY <1>3, <1>4, <1>5 DEF BasisDriftIsBounded

-----------------------------------------------------------------------------
(* What trades make of positions.                                          *)

LEMMA GrownPosition ==
  ASSUME NEW p \in Position, NEW u \in Nat \ {0}, NEW amount \in Nat
  PROVE  LET q == Grown(p, u, amount) IN
           /\ q \in Position /\ q.acc = p.acc /\ q.units = p.units + u
           /\ \A units \in Nat : q.units <= units =>
                /\ 2 * (Cost(q) - Cost(p) - amount) <= HalfUp(units, QuantityScale) + 1
                /\ 2 * (Cost(p) + amount - Cost(q)) <= HalfUp(units, QuantityScale) + 1
<1>1. PICK old \in Nat, new \in Nat \ {0} : old = p.units /\ new = p.units + u
  BY PositionTyped
<1>2. PICK c \in Nat : c = Cost(p)
  BY PositionTyped
<1>3. PICK v : v = Average(c, amount, old, new)
  OBVIOUS
<1>4. v \in Nat
  <2>1. 0 \in Nat /\ new <= new /\ new \in Nat
    OBVIOUS
  <2>. QED  BY <1>3, <2>1, AverageIsNear
<1>5. PICK q : q = [p EXCEPT !.units = new, !.avg = v]
  OBVIOUS
<1>6. q \in Position /\ q.acc = p.acc /\ q.units = new /\ q.avg = v
  BY <1>4, <1>5 DEF Position
<1>7. Grown(p, u, amount) = q
  BY <1>1, <1>2, <1>3, <1>5 DEF Grown
<1>8. Cost(q) = Worth(new, v)
  BY <1>6 DEF Cost
<1>9. ASSUME NEW units \in Nat, new <= units
      PROVE  /\ 2 * (Cost(q) - c - amount) <= HalfUp(units, QuantityScale) + 1
             /\ 2 * (c + amount - Cost(q)) <= HalfUp(units, QuantityScale) + 1
  BY <1>3, <1>8, <1>9, AverageIsNear
<1>. QED  BY <1>1, <1>2, <1>6, <1>7, <1>9

LEMMA EmptyCostsNothing == Worth(0, 0) = 0
<1>1. PICK S \in Nat \ {0} : S = QuantityScale
  BY HoldingsGiven
<1>2. PICK w \in Nat : w = Worth(0, 0) /\ 2 * (S * w) <= 2 * (0 * 0) + S
  BY <1>1, WorthIsNear
<1>3. PICK x \in Nat : x = S * w
  OBVIOUS
<1>4. S * w <= S /\ S * w < S * (0 + 1)
  BY <1>2, <1>3
<1>5. w <= 0
  BY <1>4, ErrorIsSmall
<1>. QED  BY <1>2, <1>5

LEMMA NewPositionTyped ==
  ASSUME NEW a \in Tracked, NEW i \in Instruments, NEW u \in Nat, NEW v \in Nat
  PROVE  NewPosition(a, i, u, v) \in Position /\ NewPosition(a, i, u, v).acc = a
BY DEF NewPosition, Position

\* The cost of the account of a position that changes.
LEMMA OneChanges ==
  ASSUME NEW hs \in Positions, NEW h \in HoldingId, NEW q \in Position \cup {None}, NEW a,
         hs[h] # None => hs[h].acc = a, q # None => q.acc = a
  PROVE  /\ [hs EXCEPT ![h] = q] \in Positions
         /\ OthersStay(hs, [hs EXCEPT ![h] = q], a)
         /\ SumCost([hs EXCEPT ![h] = q], a)
              = SumCost(hs, a) - (IF hs[h] = None THEN 0 ELSE Cost(hs[h])) + (IF q = None THEN 0 ELSE Cost(q))
<1>1. [hs EXCEPT ![h] = q] \in Positions
  BY DEF Positions
<1>2. OthersStay(hs, [hs EXCEPT ![h] = q], a)
  <2>1. PICK gs : gs = [hs EXCEPT ![h] = q]
    OBVIOUS
  <2>2. ASSUME NEW g \in HoldingId, g # h PROVE gs[g] = hs[g]
    BY <2>1, <2>2 DEF Positions
  <2>3. gs[h] = q
    BY <2>1 DEF Positions
  <2>4. ASSUME NEW g \in HoldingId
        PROVE  \/ gs[g] = hs[g]
               \/ (hs[g] # None => hs[g].acc = a) /\ (gs[g] # None => gs[g].acc = a)
    <3>1. CASE g = h
      BY <2>3, <3>1
    <3>2. CASE g # h
      BY <2>2, <3>2
    <3>. QED  BY <3>1, <3>2
  <2>5. OthersStay(hs, gs, a)
    BY <2>4 DEF OthersStay
  <2>. QED  BY <2>1, <2>5
<1>3. /\ CostFor(hs[h], a) = IF hs[h] = None THEN 0 ELSE Cost(hs[h])
      /\ CostFor(q, a) = IF q = None THEN 0 ELSE Cost(q)
  BY DEF CostFor
<1>4. SumCost([hs EXCEPT ![h] = q], a) = SumCost(hs, a) - CostFor(hs[h], a) + CostFor(q, a)
  BY CostMoves
<1>. QED  BY <1>1, <1>2, <1>3, <1>4

LEMMA AddedPositions ==
  ASSUME NEW hs \in Positions, NEW a \in Tracked, NEW i \in Instruments, NEW u \in Nat \ {0},
         NEW amount \in Nat, NEW gs \in Added(hs, a, i, u, amount)
  PROVE  /\ gs \in Positions /\ OthersStay(hs, gs, a) /\ UnitsIn(gs, a) \in Nat
         /\ 2 * (SumCost(gs, a) - SumCost(hs, a) - amount) <= HalfUp(UnitsIn(gs, a), QuantityScale) + 1
         /\ 2 * (SumCost(hs, a) + amount - SumCost(gs, a)) <= HalfUp(UnitsIn(gs, a), QuantityScale) + 1
<1>1. PICK h \in HoldingId, p \in Position :
        /\ gs = [hs EXCEPT ![h] = Grown(p, u, amount)]
        /\ p.acc = a
        /\ hs[h] # None => hs[h] = p
        /\ hs[h] = None => Cost(p) = 0
  <2>. DEFINE old == {h \in PositionsIn(hs, a) : hs[h].ins = i}
  <2>1. CASE old # {}
    <3>1. PICK h \in old : gs = [hs EXCEPT ![h] = Grown(hs[h], u, amount)]
      BY <2>1 DEF Added
    <3>2. h \in HoldingId /\ hs[h] # None /\ hs[h].acc = a /\ hs[h] \in Position
      BY <3>1 DEF PositionsIn, Positions
    <3>. QED  BY <3>1, <3>2
  <2>2. CASE old = {}
    <3>1. PICK h \in HoldingId : hs[h] = None /\ gs = [hs EXCEPT ![h] = Grown(NewPosition(a, i, 0, 0), u, amount)]
      BY <2>2 DEF Added
    <3>2. PICK p : p = NewPosition(a, i, 0, 0)
      OBVIOUS
    <3>3. p \in Position /\ p.acc = a
      BY <3>2, NewPositionTyped
    <3>4. Cost(p) = 0
      BY <3>2, EmptyCostsNothing DEF NewPosition, Cost
    <3>. QED  BY <3>1, <3>2, <3>3, <3>4
  <2>. QED  BY <2>1, <2>2
<1>2. PICK q : q = Grown(p, u, amount)
  OBVIOUS
<1>3. /\ q \in Position /\ q.acc = a
      /\ \A units \in Nat : q.units <= units =>
           /\ 2 * (Cost(q) - Cost(p) - amount) <= HalfUp(units, QuantityScale) + 1
           /\ 2 * (Cost(p) + amount - Cost(q)) <= HalfUp(units, QuantityScale) + 1
  BY <1>1, <1>2, GrownPosition
<1>4. gs = [hs EXCEPT ![h] = q] /\ q # None /\ Cost(p) \in Nat /\ Cost(q) \in Nat
  BY <1>1, <1>2, <1>3, PositionTyped
<1>5. /\ gs \in Positions /\ OthersStay(hs, gs, a)
      /\ SumCost(gs, a) = SumCost(hs, a) - (IF hs[h] = None THEN 0 ELSE Cost(hs[h]))
                            + (IF q = None THEN 0 ELSE Cost(q))
  <2>1. q \in Position \cup {None} /\ (hs[h] # None => hs[h].acc = a) /\ (q # None => q.acc = a)
    BY <1>1, <1>3
  <2>2. /\ [hs EXCEPT ![h] = q] \in Positions /\ OthersStay(hs, [hs EXCEPT ![h] = q], a)
        /\ SumCost([hs EXCEPT ![h] = q], a) = SumCost(hs, a) - (IF hs[h] = None THEN 0 ELSE Cost(hs[h]))
                                                + (IF q = None THEN 0 ELSE Cost(q))
    BY <2>1, OneChanges
  <2>. QED  BY <1>4, <2>2
<1>6. SumCost(gs, a) = SumCost(hs, a) - Cost(p) + Cost(q) /\ SumCost(hs, a) \in Int
  <2>1. (IF hs[h] = None THEN 0 ELSE Cost(hs[h])) = Cost(p)
    BY <1>1
  <2>. QED  BY <1>4, <1>5, <2>1, CostIsSum
<1>7. UnitsIn(gs, a) \in Nat /\ q.units <= UnitsIn(gs, a)
  <2>1. gs[h] = q
    BY <1>4 DEF Positions
  <2>2. h \in PositionsIn(gs, a)
    BY <1>3, <1>4, <2>1 DEF PositionsIn
  <2>. QED  BY <1>5, <2>1, <2>2, UnitsCover
<1>8. PICK k \in Nat : k = HalfUp(UnitsIn(gs, a), QuantityScale)
  BY <1>7, HoldingsGiven, HalfUpIsNear
<1>9. 2 * (Cost(q) - Cost(p) - amount) <= k + 1 /\ 2 * (Cost(p) + amount - Cost(q)) <= k + 1
  BY <1>3, <1>7, <1>8
<1>10. /\ SumCost(gs, a) - SumCost(hs, a) - amount = Cost(q) - Cost(p) - amount
       /\ SumCost(hs, a) + amount - SumCost(gs, a) = Cost(p) + amount - Cost(q)
  BY <1>4, <1>6
<1>. QED  BY <1>5, <1>7, <1>8, <1>9, <1>10

LEMMA ReducedPositions ==
  ASSUME LedgerTyped, NEW h \in HoldingId, holding[h] # None, NEW units \in Nat,
         units > 0, units <= holding[h].units, NEW a, a = holding[h].acc
  PROVE  /\ Reduced(h, units) \in Positions /\ OthersStay(holding, Reduced(h, units), a)
         /\ CostRemoved(h, units) \in Nat
         /\ SumCost(Reduced(h, units), a) - SumCost(holding, a) + CostRemoved(h, units) <= 1
         /\ SumCost(holding, a) - CostRemoved(h, units) - SumCost(Reduced(h, units), a) <= 1
<1>1. holding \in Positions
  BY DEF LedgerTyped
<1>2. PICK p \in Position : p = holding[h]
  BY <1>1 DEF Positions
<1>3. PICK u \in Nat, v \in Nat : u = p.units /\ v = p.avg
  BY PositionTyped
<1>4. PICK w \in Nat : w = CostRemoved(h, units) /\ w = Worth(units, v)
  BY <1>2, <1>3, WorthIsNear DEF CostRemoved
<1>5. PICK c \in Nat : c = Cost(p) /\ c = Worth(u, v)
  BY <1>3, WorthIsNear DEF Cost
<1>6. PICK x \in Int : x = SumCost(holding, a)
  BY <1>1, CostIsSum
<1>7. CASE units = u
  <2>1. Reduced(h, units) = [holding EXCEPT ![h] = None]
    BY <1>2, <1>3, <1>7 DEF Reduced
  <2>2. /\ [holding EXCEPT ![h] = None] \in Positions
        /\ OthersStay(holding, [holding EXCEPT ![h] = None], a)
        /\ SumCost([holding EXCEPT ![h] = None], a) = x - c + 0
    BY <1>1, <1>2, <1>5, <1>6, OneChanges
  <2>3. w = c
    BY <1>4, <1>5, <1>7
  <2>4. SumCost(Reduced(h, units), a) = x - c
    BY <2>1, <2>2
  <2>. QED  BY <1>4, <1>6, <2>1, <2>2, <2>3, <2>4
<1>8. CASE units # u
  <2>1. PICK r \in Nat : r = u - units
    BY <1>2, <1>3
  <2>2. PICK q : q = [p EXCEPT !.units = r]
    OBVIOUS
  <2>3. q \in Position /\ q.acc = a /\ Cost(q) = Worth(r, v)
    BY <1>2, <1>3, <2>1, <2>2 DEF Position, Cost
  <2>4. Reduced(h, units) = [holding EXCEPT ![h] = q]
    BY <1>1, <1>2, <1>3, <1>8, <2>1, <2>2 DEF Reduced, Positions
  <2>5. q # None /\ Cost(q) \in Nat
    BY <2>3, PositionTyped
  <2>6. /\ [holding EXCEPT ![h] = q] \in Positions
        /\ OthersStay(holding, [holding EXCEPT ![h] = q], a)
        /\ SumCost([holding EXCEPT ![h] = q], a) = x - c + Cost(q)
    <3>1. q \in Position \cup {None} /\ (holding[h] # None => holding[h].acc = a) /\ (q # None => q.acc = a)
      BY <2>3
    <3>2. SumCost([holding EXCEPT ![h] = q], a)
            = SumCost(holding, a) - (IF holding[h] = None THEN 0 ELSE Cost(holding[h]))
                + (IF q = None THEN 0 ELSE Cost(q))
      BY <1>1, <3>1, OneChanges
    <3>3. (IF holding[h] = None THEN 0 ELSE Cost(holding[h])) = c
      BY <1>2, <1>5
    <3>4. (IF q = None THEN 0 ELSE Cost(q)) = Cost(q)
      BY <2>5
    <3>5. SumCost([holding EXCEPT ![h] = q], a) = x - c + Cost(q)
      BY <1>6, <3>2, <3>3, <3>4
    <3>. QED  BY <1>1, <3>1, <3>5, OneChanges
  <2>7. c - w - Cost(q) <= 1 /\ w + Cost(q) - c <= 1
    BY <1>2, <1>3, <1>4, <1>5, <2>1, <2>3, CostIsShared
  <2>8. SumCost(Reduced(h, units), a) = x - c + Cost(q)
    BY <2>4, <2>6
  <2>9. (x - c + Cost(q)) - x + w <= 1 /\ x - w - (x - c + Cost(q)) <= 1
    BY <2>5, <2>7
  <2>. QED  BY <1>4, <1>6, <2>4, <2>6, <2>8, <2>9
<1>. QED  BY <1>7, <1>8

LEMMA OthersStayOn ==
  ASSUME NEW hs, NEW gs, NEW fs, NEW a, OthersStay(hs, gs, a), OthersStay(gs, fs, a)
  PROVE  OthersStay(hs, fs, a)
BY DEF OthersStay

-----------------------------------------------------------------------------
(* Every step keeps the invariant.                                         *)

SeriesTyped ==
  /\ link \in [Instruments -> (Series \ Pairs) \cup {None}]
  /\ quote \in [Series -> Quotes \cup {None}]
RestTyped == closed \subseteq Tracked /\ ops \in 0..MaxOps

LEMMA PartsOfInv ==
  HoldingsInv <=> LedgerTyped /\ DriftTyped /\ SeriesTyped /\ RestTyped /\ Anchored /\ BasisDriftIsBounded
BY DEF HoldingsInv, HoldingsTypeOK, LedgerTyped, DriftTyped, SeriesTyped, RestTyped, Anchored, Positions

LEMMA PartsOfInvNext ==
  HoldingsInv' <=>
    LedgerTyped' /\ DriftTyped' /\ SeriesTyped' /\ RestTyped' /\ Anchored' /\ BasisDriftIsBounded'
BY DEF HoldingsInv, HoldingsTypeOK, LedgerTyped, DriftTyped, SeriesTyped, RestTyped, Anchored, Positions

LEMMA NoneMoves == ASSUME NEW hs, NEW a PROVE OthersStay(hs, hs, a)
BY DEF OthersStay

LEMMA TickTyped ==
  ASSUME RestTyped, Tick, closed' = closed
  PROVE  RestTyped'
BY HoldingsGiven DEF RestTyped, Tick

\* What an operation that moves positions of a comes to.
Moves(a, hs, bals, delta, units) ==
  /\ hs \in Positions /\ OthersStay(holding, hs, a) /\ CashMoves(bals)
  /\ delta \in Int /\ units \in Nat
  /\ 2 * (SumCost(hs, a) - SumCost(holding, a) - delta) <= HalfUp(units, QuantityScale) + 3
  /\ 2 * (SumCost(holding, a) + delta - SumCost(hs, a)) <= HalfUp(units, QuantityScale) + 3
  /\ Anchor(a, hs, bals) /\ Report(a, delta, units)

LEMMA MovesKeep ==
  ASSUME HoldingsInv, Tick, UNCHANGED <<link, quote, closed>>,
         NEW a \in Tracked, NEW hs, NEW bals, NEW delta, NEW units, Moves(a, hs, bals, delta, units)
  PROVE  HoldingsInv'
<1>1. LedgerTyped /\ DriftTyped /\ SeriesTyped /\ RestTyped /\ Anchored /\ BasisDriftIsBounded
  BY PartsOfInv
<1>2. LedgerTyped' /\ Anchored' /\ holding' = hs
  BY <1>1, AnchorKeeps DEF Moves
<1>3. DriftTyped' /\ BasisDriftIsBounded'
  BY <1>1, <1>2, ReportKeeps DEF Moves
<1>4. SeriesTyped'
  BY <1>1 DEF SeriesTyped
<1>5. RestTyped'
  BY <1>1, TickTyped
<1>. QED  BY <1>2, <1>3, <1>4, <1>5, PartsOfInvNext

LEMMA SlackIsThree == ASSUME NEW units \in Nat PROVE HalfUp(units, QuantityScale) \in Nat
BY HoldingsGiven, HalfUpIsNear

\* Moving between a cash account and valuations: there are no positions to follow.
LEMMA DriftStays ==
  ASSUME HoldingsInv, UNCHANGED <<holding, basis, slack>>
  PROVE  DriftTyped' /\ BasisDriftIsBounded'
<1>1. \A b : SumCost(holding, b)' = SumCost(holding', b)
  OBVIOUS
<1>2. \A b : SumCost(holding, b)' = SumCost(holding, b)
  BY <1>1
<1>3. DriftTyped'
  BY PartsOfInv DEF DriftTyped
<1>4. BasisDriftIsBounded
  BY PartsOfInv
<1>5. BasisDriftIsBounded'
  BY <1>2, <1>4 DEF BasisDriftIsBounded
<1>. QED  BY <1>3, <1>5

LEMMA SetValueKeeps ==
  ASSUME HoldingsInv, NEW a \in Tracked, SetValue(a)
  PROVE  HoldingsInv'
<1>1. LedgerTyped /\ Anchored /\ SeriesTyped /\ RestTyped
  BY PartsOfInv
<1>2. PICK x \in Values, ahead \in BOOLEAN : Write(a, [value |-> x, ahead |-> ahead, by |-> "manual"], balance)
  BY DEF SetValue
<1>3. PICK v : v = [value |-> x, ahead |-> ahead, by |-> "manual"]
  OBVIOUS
<1>4. v \in Valuation /\ v.by = "manual"
  BY <1>3, HoldingsGiven DEF Valuation
<1>5. /\ MayValue(a, v.by)
      /\ vals' = [vals EXCEPT ![a] = Append(@, v)]
      /\ balance' = [balance EXCEPT ![a] = Latest(vals'[a])]
  BY <1>2, <1>3 DEF Write
<1>6. PositionsIn(holding, a) = {}
  BY <1>4, <1>5 DEF MayValue, Held, PositionsIn
<1>7. holding' = holding /\ OthersStay(holding, holding, a) /\ holding \in Positions
  BY <1>1, NoneMoves DEF SetValue, LedgerTyped
<1>8. CashMoves(balance)
  BY <1>1 DEF CashMoves, LedgerTyped
<1>9. LedgerTyped' /\ Anchored'
  BY <1>1, <1>4, <1>5, <1>6, <1>7, <1>8, WriteKeeps
<1>10. DriftTyped' /\ BasisDriftIsBounded'
  BY DriftStays DEF SetValue
<1>11. SeriesTyped' /\ RestTyped'
  BY <1>1, TickTyped DEF SetValue, SeriesTyped
<1>. QED  BY <1>9, <1>10, <1>11, PartsOfInvNext

LEMMA MoveKeeps ==
  ASSUME HoldingsInv, NEW a \in Tracked, NEW c \in Cash, Move(c, a)
  PROVE  HoldingsInv'
<1>1. LedgerTyped /\ Anchored /\ SeriesTyped /\ RestTyped
  BY PartsOfInv
<1>2. balance[a] + 1 \in Int /\ 1 \in Int
  BY <1>1 DEF LedgerTyped
<1>3. PICK v : v = [value |-> balance[a] + 1, ahead |-> FALSE, by |-> c]
  OBVIOUS
<1>4. v \in Valuation
  BY <1>2, <1>3 DEF Valuation
<1>5. PICK bals : bals = [balance EXCEPT ![c] = @ - 1]
  OBVIOUS
<1>6. /\ vals' = [vals EXCEPT ![a] = Append(@, v)]
      /\ balance' = [bals EXCEPT ![a] = Latest(vals'[a])]
  BY <1>3, <1>5 DEF Move, Write
<1>7. PositionsIn(holding, a) = {}
  BY DEF Move, Held, PositionsIn
<1>8. holding' = holding /\ OthersStay(holding, holding, a) /\ holding \in Positions
  BY <1>1, NoneMoves DEF Move, LedgerTyped
<1>9. CashMoves(bals)
  BY <1>1, <1>2, <1>5, CashIsApart
<1>10. LedgerTyped' /\ Anchored'
  BY <1>1, <1>4, <1>6, <1>7, <1>8, <1>9, WriteKeeps
<1>11. DriftTyped' /\ BasisDriftIsBounded'
  BY DriftStays DEF Move
<1>12. SeriesTyped' /\ RestTyped'
  BY <1>1, TickTyped DEF Move, SeriesTyped
<1>. QED  BY <1>10, <1>11, <1>12, PartsOfInvNext

\* What is left of the valuations when one but the last is removed ends as before.
LEMMA RemovedInside ==
  ASSUME NEW T, NEW vs \in Seq(T), NEW n \in DOMAIN vs
  PROVE  /\ RemoveAt(vs, n) \in Seq(T)
         /\ n # Len(vs) => /\ RemoveAt(vs, n) # <<>>
                           /\ RemoveAt(vs, n)[Len(RemoveAt(vs, n))] = vs[Len(vs)]
<1>1. PICK m \in Nat : m = Len(vs) /\ n \in 1..m
  OBVIOUS
<1>2. PICK x \in Seq(T), y \in Seq(T) :
        /\ x = SubSeq(vs, 1, n - 1) /\ y = SubSeq(vs, n + 1, m)
        /\ Len(x) = n - 1 /\ Len(y) = m - n
        /\ \A i \in 1..(m - n) : y[i] = vs[n + i]
  <2>1. n - 1 \in Int /\ n + 1 \in Int /\ 1 \in Int
    BY <1>1
  <2>2. /\ SubSeq(vs, 1, n - 1) \in Seq(T) /\ Len(SubSeq(vs, 1, n - 1)) = n - 1
    BY <1>1
  <2>3. /\ SubSeq(vs, n + 1, m) \in Seq(T) /\ Len(SubSeq(vs, n + 1, m)) = m - n
        /\ \A i \in 1..(m - n) : SubSeq(vs, n + 1, m)[i] = vs[n + i]
    BY <1>1
  <2>. QED  BY <2>2, <2>3
<1>3. RemoveAt(vs, n) = x \o y
  BY <1>1, <1>2 DEF RemoveAt
<1>4. x \o y \in Seq(T) /\ Len(x \o y) = m - 1
  BY <1>1, <1>2
<1>5. ASSUME n # m PROVE x \o y # <<>> /\ (x \o y)[m - 1] = vs[m]
  <2>1. m - n \in 1..(m - n) /\ m - 1 \in 1..(m - 1) /\ ~(m - 1 <= Len(x))
    BY <1>1, <1>2, <1>5
  <2>2. (x \o y)[m - 1] = y[m - 1 - Len(x)]
    BY <1>1, <1>2, <2>1
  <2>3. m - 1 - Len(x) = m - n
    BY <1>1, <1>2
  <2>4. y[m - n] = vs[n + (m - n)] /\ n + (m - n) = m
    BY <1>1, <1>2, <2>1
  <2>. QED  BY <1>4, <2>1, <2>2, <2>3, <2>4
<1>. QED  BY <1>1, <1>3, <1>4, <1>5

LEMMA DeleteMoveKeeps ==
  ASSUME HoldingsInv, NEW a \in Tracked, NEW n, DeleteMove(a, n)
  PROVE  HoldingsInv'
<1>1. LedgerTyped /\ Anchored /\ SeriesTyped /\ RestTyped
  BY PartsOfInv
<1>2. PICK vs \in Seq(Valuation) : vs = vals[a]
  BY <1>1 DEF LedgerTyped
<1>3. PICK c \in Cash : c = vs[n].by
  BY <1>2 DEF DeleteMove
<1>4. n \in DOMAIN vs
  BY <1>2 DEF DeleteMove
<1>5. PICK ws \in Seq(Valuation) :
        /\ ws = RemoveAt(vs, n)
        /\ n # Len(vs) => ws # <<>> /\ ws[Len(ws)] = vs[Len(vs)]
  BY <1>4, RemovedInside
<1>6. vals' = [vals EXCEPT ![a] = ws]
  BY <1>2, <1>5 DEF DeleteMove
<1>7. vals' \in [Tracked -> Seq(Valuation)] /\ vals'[a] = ws /\ \A b \in Tracked \ {a} : vals'[b] = vals[b]
  BY <1>1, <1>6 DEF LedgerTyped
<1>8. balance' = [balance EXCEPT ![c] = @ + 1, ![a] = Latest(ws)]
  BY <1>2, <1>3, <1>7 DEF DeleteMove
<1>9. Latest(ws) \in Int /\ (\A b \in Tracked : b # c) /\ balance \in [Cash \cup Tracked -> Int]
  BY <1>1, LatestTyped, HoldingsGiven DEF LedgerTyped
<1>10. /\ balance' \in [Cash \cup Tracked -> Int] /\ balance'[a] = Latest(ws)
       /\ \A b \in Tracked \ {a} : balance'[b] = balance[b]
  BY <1>8, <1>9
<1>11. holding' = holding /\ LedgerTyped'
  BY <1>1, <1>7, <1>10 DEF DeleteMove, LedgerTyped
<1>12. BalanceIsLatest'
  BY <1>1, <1>7, <1>10 DEF BalanceIsLatest, Anchored
<1>13. \A b : SumWorth(holding, b)' = SumWorth(holding', b)
  OBVIOUS
<1>14. \A b : Held(b)' = Held(b)
  BY <1>11 DEF Held
<1>15. LastIsWorth'
  <2>1. SUFFICES ASSUME NEW b \in Tracked, Held(b) # {}
                 PROVE  /\ vals'[b] # <<>>
                        /\ vals'[b][Len(vals'[b])].by = "holdings"
                        /\ vals'[b][Len(vals'[b])].value = SumWorth(holding, b)
    BY <1>11, <1>13, <1>14 DEF LastIsWorth
  <2>2. /\ vals[b] # <<>>
        /\ vals[b][Len(vals[b])].by = "holdings"
        /\ vals[b][Len(vals[b])].value = SumWorth(holding, b)
    BY <1>1, <2>1 DEF LastIsWorth, Anchored
  <2>3. CASE b = a
    <3>1. n # Len(vs)
      BY <1>2, <1>3, <2>2, <2>3, HoldingsGiven
    <3>. QED  BY <1>2, <1>5, <1>7, <2>2, <2>3, <3>1
  <2>4. CASE b # a
    BY <1>7, <2>2, <2>4
  <2>. QED  BY <2>3, <2>4
<1>16. DriftTyped' /\ BasisDriftIsBounded'
  BY DriftStays DEF DeleteMove
<1>17. SeriesTyped' /\ RestTyped'
  BY <1>1, TickTyped DEF DeleteMove, SeriesTyped
<1>. QED  BY <1>11, <1>12, <1>15, <1>16, <1>17, PartsOfInvNext DEF Anchored

\* What a settled change of cost is exact about.
LEMMA SettlesExactly ==
  ASSUME LedgerTyped, NEW a \in Tracked, NEW hs, NEW delta \in Int,
         hs \in Positions, OthersStay(holding, hs, a),
         SumCost(hs, a) = SumCost(holding, a) + delta,
         Settle(a, hs, delta, 0)
  PROVE  Moves(a, hs, balance, delta, 0)
<1>1. SumCost(holding, a) \in Int /\ SumCost(hs, a) \in Int
  BY CostIsSum DEF LedgerTyped
<1>2. PICK k \in Nat : k = HalfUp(0, QuantityScale)
  BY SlackIsThree
<1>3. /\ 2 * (SumCost(hs, a) - SumCost(holding, a) - delta) <= k + 3
      /\ 2 * (SumCost(holding, a) + delta - SumCost(hs, a)) <= k + 3
  BY <1>1
<1>4. CashMoves(balance)
  BY DEF CashMoves, LedgerTyped
<1>5. Anchor(a, hs, balance) /\ Report(a, delta, 0)
  BY DEF Settle
<1>. QED  BY <1>2, <1>3, <1>4, <1>5 DEF Moves

LEMMA UpsertMoves ==
  ASSUME LedgerTyped, NEW h \in HoldingId, NEW p \in Position, Upsert(h, p)
  PROVE  \E hs, delta : Moves(p.acc, hs, balance, delta, 0)
<1>1. holding \in Positions /\ p # None /\ p.acc \in Tracked /\ Cost(p) \in Nat
  BY PositionTyped DEF LedgerTyped
<1>2. PICK hs : hs = [holding EXCEPT ![h] = p]
  OBVIOUS
<1>3. PICK old : old = IF holding[h] = None THEN 0 ELSE Cost(holding[h])
  OBVIOUS
<1>4. old \in Nat
  <2>1. holding[h] \in Position \cup {None}
    BY <1>1 DEF Positions
  <2>. QED  BY <1>3, <2>1, PositionTyped
<1>5. Settle(p.acc, hs, Cost(p) - old, 0)
  BY <1>2, <1>3 DEF Upsert
<1>6. holding[h] # None => holding[h].acc = p.acc
  BY DEF Upsert
<1>7. /\ hs \in Positions /\ OthersStay(holding, hs, p.acc)
      /\ SumCost(hs, p.acc) = SumCost(holding, p.acc) - old + Cost(p)
  <2>1. /\ [holding EXCEPT ![h] = p] \in Positions
        /\ OthersStay(holding, [holding EXCEPT ![h] = p], p.acc)
        /\ SumCost([holding EXCEPT ![h] = p], p.acc)
             = SumCost(holding, p.acc) - (IF holding[h] = None THEN 0 ELSE Cost(holding[h]))
                 + (IF p = None THEN 0 ELSE Cost(p))
    BY <1>1, <1>6, OneChanges
  <2>. QED  BY <1>1, <1>2, <1>3, <2>1
<1>8. PICK delta \in Int : delta = Cost(p) - old
  BY <1>1, <1>4
<1>9. SumCost(hs, p.acc) = SumCost(holding, p.acc) + delta
  <2>1. SumCost(holding, p.acc) \in Int
    BY <1>1, CostIsSum
  <2>. QED  BY <1>1, <1>4, <1>7, <1>8, <2>1
<1>10. Moves(p.acc, hs, balance, delta, 0)
  BY <1>1, <1>5, <1>7, <1>8, <1>9, SettlesExactly
<1>. QED  BY <1>10

LEMMA CreateHoldingKeeps ==
  ASSUME HoldingsInv, NEW a \in Tracked, NEW i \in Instruments, CreateHolding(a, i)
  PROVE  HoldingsInv'
<1>1. LedgerTyped
  BY PartsOfInv
<1>2. PICK h \in Free, q \in Quantities, avg \in Prices : Upsert(h, NewPosition(a, i, q, avg))
  BY DEF CreateHolding
<1>3. PICK p : p = NewPosition(a, i, q, avg)
  OBVIOUS
<1>4. p \in Position /\ p.acc \in Tracked /\ h \in HoldingId
  BY <1>3, HoldingsGiven, NewPositionTyped DEF Free
<1>5. PICK hs, delta : Moves(p.acc, hs, balance, delta, 0)
  BY <1>1, <1>2, <1>3, <1>4, UpsertMoves
<1>. QED  BY <1>4, <1>5, MovesKeep DEF CreateHolding

LEMMA UpdateHoldingKeeps ==
  ASSUME HoldingsInv, NEW h \in HoldingId, UpdateHolding(h)
  PROVE  HoldingsInv'
<1>1. LedgerTyped
  BY PartsOfInv
<1>2. PICK old \in Position : old = holding[h]
  BY <1>1 DEF LedgerTyped, Positions, UpdateHolding
<1>3. PICK q \in Quantities, avg \in Prices, last \in Prices \cup {None} :
        Upsert(h, [old EXCEPT !.units = q, !.avg = avg, !.last = last])
  BY <1>2 DEF UpdateHolding
<1>4. PICK p : p = [old EXCEPT !.units = q, !.avg = avg, !.last = last]
  OBVIOUS
<1>5. q \in Nat /\ avg \in Nat /\ last \in Nat \cup {None}
  BY HoldingsGiven
<1>6. p \in Position
  BY <1>4, <1>5 DEF Position
<1>7. PICK hs, delta : Moves(p.acc, hs, balance, delta, 0)
  BY <1>1, <1>3, <1>4, <1>6, UpsertMoves
<1>8. p.acc \in Tracked
  BY <1>6, PositionTyped
<1>. QED  BY <1>7, <1>8, MovesKeep DEF UpdateHolding

LEMMA DeleteHoldingKeeps ==
  ASSUME HoldingsInv, NEW h \in HoldingId, DeleteHolding(h)
  PROVE  HoldingsInv'
<1>1. LedgerTyped /\ holding \in Positions
  BY PartsOfInv DEF LedgerTyped
<1>2. PICK p \in Position : p = holding[h] /\ p # None
  BY <1>1 DEF Positions, DeleteHolding
<1>3. PICK c \in Nat, a \in Tracked : c = Cost(p) /\ a = p.acc
  BY PositionTyped
<1>4. PICK hs : hs = [holding EXCEPT ![h] = None]
  OBVIOUS
<1>5. Settle(a, hs, -c, 0)
  BY <1>2, <1>3, <1>4 DEF DeleteHolding
<1>6. PICK x \in Int : x = SumCost(holding, a)
  BY <1>1, CostIsSum
<1>7. hs \in Positions /\ OthersStay(holding, hs, a) /\ SumCost(hs, a) = x - c + 0
  BY <1>1, <1>2, <1>3, <1>4, <1>6, OneChanges
<1>8. PICK delta \in Int : delta = -c
  BY <1>3
<1>9. SumCost(hs, a) = x + delta
  BY <1>6, <1>7, <1>8
<1>10. Settle(a, hs, delta, 0)
  BY <1>5, <1>8
<1>11. Moves(a, hs, balance, delta, 0)
  BY <1>1, <1>6, <1>7, <1>9, <1>10, SettlesExactly
<1>. QED  BY <1>11, MovesKeep DEF DeleteHolding

LEMMA BuyKeeps ==
  ASSUME HoldingsInv, NEW c \in Cash, NEW a \in Tracked, NEW i \in Instruments,
         NEW q \in Quantities, NEW m \in Amounts, Buy(c, a, i, q, m)
  PROVE  HoldingsInv'
<1>1. LedgerTyped /\ holding \in Positions
  BY PartsOfInv DEF LedgerTyped
<1>2. q \in Nat \ {0} /\ m \in Nat
  BY HoldingsGiven DEF Buy
<1>3. PICK hs \in Added(holding, a, i, q, m) :
        Anchor(a, hs, [balance EXCEPT ![c] = @ - m]) /\ Report(a, m, UnitsIn(hs, a))
  BY DEF Buy
<1>4. PICK bals : bals = [balance EXCEPT ![c] = @ - m]
  OBVIOUS
<1>5. CashMoves(bals)
  <2>1. m \in Int
    BY <1>2
  <2>. QED  BY <1>1, <1>4, <2>1, CashIsApart
<1>6. /\ hs \in Positions /\ OthersStay(holding, hs, a) /\ UnitsIn(hs, a) \in Nat
      /\ 2 * (SumCost(hs, a) - SumCost(holding, a) - m) <= HalfUp(UnitsIn(hs, a), QuantityScale) + 1
      /\ 2 * (SumCost(holding, a) + m - SumCost(hs, a)) <= HalfUp(UnitsIn(hs, a), QuantityScale) + 1
  BY <1>1, <1>2, AddedPositions
<1>7. SumCost(holding, a) \in Int /\ SumCost(hs, a) \in Int /\ HalfUp(UnitsIn(hs, a), QuantityScale) \in Nat
  BY <1>1, <1>6, CostIsSum, SlackIsThree
<1>8. /\ 2 * (SumCost(hs, a) - SumCost(holding, a) - m) <= HalfUp(UnitsIn(hs, a), QuantityScale) + 3
      /\ 2 * (SumCost(holding, a) + m - SumCost(hs, a)) <= HalfUp(UnitsIn(hs, a), QuantityScale) + 3
  BY <1>2, <1>6, <1>7
<1>9. Moves(a, hs, bals, m, UnitsIn(hs, a))
  BY <1>2, <1>3, <1>4, <1>5, <1>6, <1>8 DEF Moves
<1>. QED  BY <1>9, MovesKeep DEF Buy

LEMMA SellKeeps ==
  ASSUME HoldingsInv, NEW c \in Cash, NEW h \in HoldingId,
         NEW q \in Quantities, NEW m \in Amounts, Sell(c, h, q, m)
  PROVE  HoldingsInv'
<1>1. LedgerTyped /\ holding \in Positions
  BY PartsOfInv DEF LedgerTyped
<1>2. q \in Nat /\ m \in Nat /\ holding[h] # None /\ q > 0 /\ q <= holding[h].units
  BY HoldingsGiven DEF Sell
<1>3. PICK a \in Tracked : a = holding[h].acc
  <2>1. holding[h] \in Position
    BY <1>1, <1>2 DEF Positions
  <2>. QED  BY <2>1, PositionTyped
<1>4. PICK hs, w : hs = Reduced(h, q) /\ w = CostRemoved(h, q)
  OBVIOUS
<1>5. PICK bals : bals = [balance EXCEPT ![c] = @ + m]
  OBVIOUS
<1>6. Anchor(a, hs, bals) /\ Report(a, -w, 0)
  BY <1>3, <1>4, <1>5 DEF Sell
<1>7. CashMoves(bals)
  <2>1. m \in Int
    BY <1>2
  <2>. QED  BY <1>1, <1>5, <2>1, CashIsApart
<1>8. /\ hs \in Positions /\ OthersStay(holding, hs, a) /\ w \in Nat
      /\ SumCost(hs, a) - SumCost(holding, a) + w <= 1
      /\ SumCost(holding, a) - w - SumCost(hs, a) <= 1
  BY <1>1, <1>2, <1>3, <1>4, ReducedPositions
<1>9. SumCost(holding, a) \in Int /\ SumCost(hs, a) \in Int /\ HalfUp(0, QuantityScale) \in Nat
  BY <1>1, <1>8, CostIsSum, SlackIsThree
<1>10. PICK delta \in Int : delta = -w
  BY <1>8
<1>11. /\ 2 * (SumCost(hs, a) - SumCost(holding, a) - delta) <= HalfUp(0, QuantityScale) + 3
       /\ 2 * (SumCost(holding, a) + delta - SumCost(hs, a)) <= HalfUp(0, QuantityScale) + 3
  BY <1>8, <1>9, <1>10
<1>12. Moves(a, hs, bals, delta, 0)
  BY <1>6, <1>7, <1>8, <1>10, <1>11 DEF Moves
<1>. QED  BY <1>12, MovesKeep DEF Sell

LEMMA ReinvestKeeps ==
  ASSUME HoldingsInv, NEW h \in HoldingId, NEW m \in Amounts, Reinvest(h, m)
  PROVE  HoldingsInv'
<1>1. LedgerTyped /\ holding \in Positions
  BY PartsOfInv DEF LedgerTyped
<1>2. PICK p \in Position : p = holding[h] /\ p # None
  BY <1>1 DEF Positions, Reinvest, Paying
<1>3. PICK a \in Tracked : a = p.acc
  BY PositionTyped
<1>4. PICK u \in Quantities \cup {UnitsFor(m, price) : price \in Prices} :
        /\ u > 0
        /\ LET hs == [holding EXCEPT ![h] = Grown(@, u, m)]
           IN Settle(holding[h].acc, hs, m, UnitsIn(hs, holding[h].acc))
  BY DEF Reinvest
<1>5. u \in Nat \ {0} /\ m \in Nat
  <2>1. ASSUME NEW price \in Prices PROVE UnitsFor(m, price) \in Nat
    <3>1. m * QuantityScale \in Nat /\ price \in Nat \ {0}
      BY HoldingsGiven
    <3>. QED  BY <3>1, HalfUpIsNear DEF UnitsFor
  <2>. QED  BY <1>4, <2>1, HoldingsGiven
<1>6. PICK q : q = Grown(p, u, m)
  OBVIOUS
<1>7. PICK hs : hs = [holding EXCEPT ![h] = q]
  OBVIOUS
<1>8. Settle(a, hs, m, UnitsIn(hs, a))
  BY <1>1, <1>2, <1>3, <1>4, <1>6, <1>7 DEF Positions
<1>9. /\ q \in Position /\ q.acc = a
      /\ \A units \in Nat : q.units <= units =>
           /\ 2 * (Cost(q) - Cost(p) - m) <= HalfUp(units, QuantityScale) + 1
           /\ 2 * (Cost(p) + m - Cost(q)) <= HalfUp(units, QuantityScale) + 1
  BY <1>3, <1>5, <1>6, GrownPosition
<1>10. q # None /\ Cost(p) \in Nat /\ Cost(q) \in Nat
  BY <1>9, PositionTyped
<1>11. PICK x \in Int : x = SumCost(holding, a)
  BY <1>1, CostIsSum
<1>12. hs \in Positions /\ OthersStay(holding, hs, a) /\ SumCost(hs, a) = x - Cost(p) + Cost(q)
  BY <1>1, <1>2, <1>3, <1>7, <1>9, <1>10, <1>11, OneChanges
<1>13. UnitsIn(hs, a) \in Nat /\ q.units <= UnitsIn(hs, a)
  <2>1. hs[h] = q
    BY <1>1, <1>7 DEF Positions
  <2>2. h \in PositionsIn(hs, a)
    BY <1>9, <1>10, <2>1 DEF PositionsIn
  <2>. QED  BY <1>12, <2>1, <2>2, UnitsCover
<1>14. PICK k \in Nat : k = HalfUp(UnitsIn(hs, a), QuantityScale)
  BY <1>13, SlackIsThree
<1>15. 2 * (Cost(q) - Cost(p) - m) <= k + 1 /\ 2 * (Cost(p) + m - Cost(q)) <= k + 1
  BY <1>9, <1>13, <1>14
<1>16. /\ 2 * (SumCost(hs, a) - SumCost(holding, a) - m) <= k + 3
       /\ 2 * (SumCost(holding, a) + m - SumCost(hs, a)) <= k + 3
  BY <1>5, <1>10, <1>11, <1>12, <1>15
<1>17. Anchor(a, hs, balance) /\ Report(a, m, UnitsIn(hs, a)) /\ CashMoves(balance)
  BY <1>1, <1>8 DEF Settle, CashMoves, LedgerTyped
<1>18. Moves(a, hs, balance, m, UnitsIn(hs, a))
  BY <1>5, <1>12, <1>13, <1>14, <1>16, <1>17 DEF Moves
<1>. QED  BY <1>18, MovesKeep DEF Reinvest

LEMMA SwitchKeeps ==
  ASSUME HoldingsInv, NEW h \in HoldingId, NEW i \in Instruments, NEW u \in Nat, NEW m \in Nat,
         NEW to \in Prices, Switch(h, i, u, m, to)
  PROVE  HoldingsInv'
<1>1. LedgerTyped /\ holding \in Positions
  BY PartsOfInv DEF LedgerTyped
<1>2. holding[h] # None /\ u > 0 /\ u <= holding[h].units
  BY DEF Switch, Paying
<1>3. PICK a \in Tracked : a = holding[h].acc
  <2>1. holding[h] \in Position
    BY <1>1, <1>2 DEF Positions
  <2>. QED  BY <2>1, PositionTyped
<1>4. PICK b \in Nat \ {0} : b = UnitsFor(m, to)
  <2>1. m * QuantityScale \in Nat /\ to \in Nat \ {0}
    BY HoldingsGiven
  <2>2. UnitsFor(m, to) \in Nat
    BY <2>1, HalfUpIsNear DEF UnitsFor
  <2>. QED  BY <2>2 DEF Switch
<1>5. PICK rs, w : rs = Reduced(h, u) /\ w = CostRemoved(h, u)
  OBVIOUS
<1>6. PICK hs \in Added(rs, a, i, b, m) : Settle(a, hs, m - w, UnitsIn(hs, a))
  BY <1>3, <1>4, <1>5 DEF Switch
<1>7. /\ rs \in Positions /\ OthersStay(holding, rs, a) /\ w \in Nat
      /\ SumCost(rs, a) - SumCost(holding, a) + w <= 1
      /\ SumCost(holding, a) - w - SumCost(rs, a) <= 1
  BY <1>1, <1>2, <1>3, <1>5, ReducedPositions
<1>8. /\ hs \in Positions /\ OthersStay(rs, hs, a) /\ UnitsIn(hs, a) \in Nat
      /\ 2 * (SumCost(hs, a) - SumCost(rs, a) - m) <= HalfUp(UnitsIn(hs, a), QuantityScale) + 1
      /\ 2 * (SumCost(rs, a) + m - SumCost(hs, a)) <= HalfUp(UnitsIn(hs, a), QuantityScale) + 1
  BY <1>6, <1>7, AddedPositions
<1>9. OthersStay(holding, hs, a)
  BY <1>7, <1>8, OthersStayOn
<1>10. /\ SumCost(holding, a) \in Int /\ SumCost(rs, a) \in Int /\ SumCost(hs, a) \in Int
       /\ HalfUp(UnitsIn(hs, a), QuantityScale) \in Nat
  BY <1>1, <1>7, <1>8, CostIsSum, SlackIsThree
<1>11. PICK delta \in Int : delta = m - w
  BY <1>7
<1>12. /\ 2 * (SumCost(hs, a) - SumCost(holding, a) - delta) <= HalfUp(UnitsIn(hs, a), QuantityScale) + 3
       /\ 2 * (SumCost(holding, a) + delta - SumCost(hs, a)) <= HalfUp(UnitsIn(hs, a), QuantityScale) + 3
  BY <1>7, <1>8, <1>10, <1>11
<1>13. Anchor(a, hs, balance) /\ Report(a, delta, UnitsIn(hs, a)) /\ CashMoves(balance)
  BY <1>1, <1>6, <1>11 DEF Settle, CashMoves, LedgerTyped
<1>14. Moves(a, hs, balance, delta, UnitsIn(hs, a))
  BY <1>8, <1>9, <1>11, <1>12, <1>13 DEF Moves
<1>. QED  BY <1>14, MovesKeep DEF Switch

LEMMA SwitchOutKeeps ==
  ASSUME HoldingsInv, NEW h \in HoldingId, SwitchOut(h)
  PROVE  HoldingsInv'
<1>1. PICK i \in Instruments, from \in Prices, to \in Prices :
        \/ \E q \in Quantities : Switch(h, i, q, Worth(q, from), to)
        \/ \E amount \in Amounts : Switch(h, i, UnitsFor(amount, from), amount, to)
  BY DEF SwitchOut
<1>2. from \in Nat \ {0}
  BY HoldingsGiven
<1>3. CASE \E q \in Quantities : Switch(h, i, q, Worth(q, from), to)
  <2>1. PICK q \in Nat : Switch(h, i, q, Worth(q, from), to)
    BY <1>3, HoldingsGiven
  <2>2. Worth(q, from) \in Nat
    BY <1>2, WorthIsNear
  <2>. QED  BY <2>1, <2>2, SwitchKeeps
<1>4. CASE \E amount \in Amounts : Switch(h, i, UnitsFor(amount, from), amount, to)
  <2>1. PICK amount \in Nat : Switch(h, i, UnitsFor(amount, from), amount, to)
    BY <1>4, HoldingsGiven
  <2>2. amount * QuantityScale \in Nat
    BY HoldingsGiven
  <2>3. UnitsFor(amount, from) \in Nat
    BY <1>2, <2>2, HalfUpIsNear DEF UnitsFor
  <2>. QED  BY <2>1, <2>3, SwitchKeeps
<1>. QED  BY <1>1, <1>3, <1>4

\* Cash that moves with no valuation and no position.
LEMMA CashAlone ==
  ASSUME HoldingsInv, Tick, UNCHANGED <<vals, holding, link, quote, closed, basis, slack>>,
         CashMoves(balance')
  PROVE  HoldingsInv'
<1>1. LedgerTyped /\ Anchored /\ SeriesTyped /\ RestTyped
  BY PartsOfInv
<1>2. LedgerTyped'
  BY <1>1 DEF LedgerTyped, CashMoves
<1>3. BalanceIsLatest'
  <2>1. ASSUME NEW a \in Tracked PROVE balance'[a] = Latest(vals'[a])
    BY <1>1 DEF Anchored, BalanceIsLatest, CashMoves
  <2>. QED  BY <2>1 DEF BalanceIsLatest
<1>4. \A b : SumWorth(holding, b)' = SumWorth(holding', b)
  OBVIOUS
<1>5. LastIsWorth'
  BY <1>1, <1>4 DEF LastIsWorth, Anchored, Held
<1>6. DriftTyped' /\ BasisDriftIsBounded'
  BY DriftStays
<1>7. SeriesTyped' /\ RestTyped'
  BY <1>1, TickTyped DEF SeriesTyped
<1>. QED  BY <1>2, <1>3, <1>5, <1>6, <1>7, PartsOfInvNext DEF Anchored

LEMMA CashDistributionKeeps ==
  ASSUME HoldingsInv, NEW c \in Cash, NEW h, NEW m \in Amounts, CashDistribution(c, h, m)
  PROVE  HoldingsInv'
<1>1. LedgerTyped /\ m \in Int
  BY PartsOfInv, HoldingsGiven
<1>2. CashMoves([balance EXCEPT ![c] = @ + m])
  BY <1>1, CashIsApart
<1>3. CashMoves(balance')
  BY <1>2 DEF CashDistribution, Income
<1>. QED  BY <1>3, CashAlone DEF CashDistribution

LEMMA FeeKeeps ==
  ASSUME HoldingsInv, NEW c \in Cash, NEW h, NEW m \in Amounts, Fee(c, h, m)
  PROVE  HoldingsInv'
<1>1. LedgerTyped /\ m \in Int
  BY PartsOfInv, HoldingsGiven
<1>2. CashMoves([balance EXCEPT ![c] = @ - m])
  BY <1>1, CashIsApart
<1>3. CashMoves(balance')
  BY <1>2 DEF Fee, Expense
<1>. QED  BY <1>3, CashAlone DEF Fee

LEMMA SetActiveStateKeeps ==
  ASSUME HoldingsInv, NEW a \in Tracked, SetActiveState(a)
  PROVE  HoldingsInv'
<1>1. LedgerTyped /\ Anchored /\ SeriesTyped /\ RestTyped
  BY PartsOfInv
<1>2. LedgerTyped'
  BY <1>1 DEF LedgerTyped, SetActiveState
<1>3. \A b : SumWorth(holding, b)' = SumWorth(holding', b)
  OBVIOUS
<1>4. \A b \in Tracked : Latest(vals[b])' = Latest(vals'[b])
  OBVIOUS
<1>5. Anchored'
  BY <1>1, <1>3, <1>4 DEF BalanceIsLatest, LastIsWorth, Anchored, Held, SetActiveState
<1>6. DriftTyped' /\ BasisDriftIsBounded'
  BY DriftStays DEF SetActiveState
<1>7. SeriesTyped'
  BY <1>1 DEF SeriesTyped, SetActiveState
<1>8. closed' \subseteq Tracked
  BY <1>1 DEF RestTyped, SetActiveState
<1>9. RestTyped'
  BY <1>1, <1>8, HoldingsGiven DEF RestTyped, SetActiveState, Tick
<1>. QED  BY <1>2, <1>5, <1>6, <1>7, <1>9, PartsOfInvNext

LEMMA NewQuoteKeeps ==
  ASSUME HoldingsInv, NEW m \in Series, NewQuote(m)
  PROVE  HoldingsInv'
<1>1. LedgerTyped /\ Anchored /\ SeriesTyped /\ RestTyped
  BY PartsOfInv
<1>2. LedgerTyped'
  BY <1>1 DEF LedgerTyped, NewQuote
<1>3. \A b : SumWorth(holding, b)' = SumWorth(holding', b)
  OBVIOUS
<1>4. \A b \in Tracked : Latest(vals[b])' = Latest(vals'[b])
  OBVIOUS
<1>5. Anchored'
  BY <1>1, <1>3, <1>4 DEF BalanceIsLatest, LastIsWorth, Anchored, Held, NewQuote
<1>6. DriftTyped' /\ BasisDriftIsBounded'
  BY DriftStays DEF NewQuote
<1>7. SeriesTyped'
  BY <1>1 DEF SeriesTyped, NewQuote
<1>8. RestTyped'
  BY <1>1 DEF RestTyped, NewQuote
<1>. QED  BY <1>2, <1>5, <1>6, <1>7, <1>8, PartsOfInvNext

LEMMA LinkHoldingKeeps ==
  ASSUME HoldingsInv, NEW h \in HoldingId, NEW m \in Series \cup {None}, LinkHolding(h, m)
  PROVE  HoldingsInv'
<1>1. LedgerTyped /\ Anchored /\ SeriesTyped /\ RestTyped /\ holding \in Positions
  BY PartsOfInv DEF LedgerTyped
<1>2. PICK p \in Position : p = holding[h]
  BY <1>1 DEF Positions, LinkHolding
<1>3. p.acc \in Tracked /\ p.ins \in Instruments
  BY PositionTyped
<1>4. Anchor(p.acc, holding, balance)
  BY <1>2 DEF LinkHolding
<1>5. CashMoves(balance)
  BY <1>1 DEF CashMoves, LedgerTyped
<1>6. LedgerTyped' /\ Anchored' /\ holding' = holding
  BY <1>1, <1>3, <1>4, <1>5, NoneMoves, AnchorKeeps
<1>7. DriftTyped' /\ BasisDriftIsBounded'
  BY <1>6, DriftStays DEF LinkHolding
<1>8. SeriesTyped' /\ RestTyped'
  BY <1>1, <1>2, <1>3, TickTyped DEF SeriesTyped, LinkHolding
<1>. QED  BY <1>6, <1>7, <1>8, PartsOfInvNext

LEMMA PriceFromTyped ==
  ASSUME NEW m \in Series, quote[m] \in Nat
  PROVE  PriceFrom(m) \in Nat
<1>1. PICK q \in Nat : q = quote[m]
  OBVIOUS
<1>2. PerUnit(m, q) \in Nat
  BY HoldingsGiven, HalfEvenIsNatural DEF PerUnit
<1>3. PerUnit(m, q) * MinorUnits \in Nat
  BY <1>2, HoldingsGiven
<1>4. HalfEven(PerUnit(m, q) * MinorUnits, SpotScale) \in Nat
  BY <1>3, HoldingsGiven, HalfEvenIsNatural
<1>. QED  BY <1>1, <1>4 DEF PriceFrom

\* A refresh values every account whose positions carry a price that is not the
\* quote of their series, and no price changes what positions cost.
LEMMA RefreshKeeps ==
  ASSUME HoldingsInv, NEW A \in SUBSET Tracked, Refresh(A)
  PROVE  HoldingsInv'
<1>1. LedgerTyped /\ Anchored /\ SeriesTyped /\ RestTyped /\ holding \in Positions /\ DriftTyped
  BY PartsOfInv DEF LedgerTyped
<1>2. PICK touched : touched = {holding[h].acc : h \in Stale(A)}
  OBVIOUS
<1>3. PICK hs : hs = [h \in HoldingId |-> IF h \in Stale(A)
                        THEN [holding[h] EXCEPT !.last = PriceFrom(link[holding[h].ins])]
                        ELSE holding[h]]
  OBVIOUS
<1>4. /\ holding' = hs
      /\ vals' = [a \in Tracked |-> IF a \in touched
           THEN Append(vals[a], [value |-> SumWorth(hs, a), ahead |-> FALSE, by |-> "holdings"])
           ELSE vals[a]]
      /\ balance' = [a \in Cash \cup Tracked |->
           IF a \in touched THEN Latest(vals'[a]) ELSE balance[a]]
  BY <1>2, <1>3 DEF Refresh, Repriced
<1>5. ASSUME NEW h \in Stale(A)
      PROVE  /\ h \in HoldingId /\ holding[h] # None /\ holding[h].acc \in touched
             /\ hs[h] \in Position /\ hs[h] # None /\ hs[h].acc = holding[h].acc
             /\ Cost(hs[h]) = Cost(holding[h])
  <2>1. h \in HoldingId /\ holding[h] # None /\ holding[h].acc \in touched
    BY <1>2 DEF Stale
  <2>2. PICK p \in Position : p = holding[h]
    BY <1>1, <2>1 DEF Positions
  <2>3. PICK m \in Series : m = link[p.ins]
    <3>1. p.ins \in Instruments /\ link[p.ins] # None
      BY <2>2, PositionTyped DEF Stale
    <3>. QED  BY <1>1, <3>1 DEF SeriesTyped
  <2>4. quote[m] \in Nat
    <3>1. quote[m] # None
      BY <2>2, <2>3 DEF Stale
    <3>. QED  BY <1>1, <3>1, HoldingsGiven DEF SeriesTyped
  <2>5. PICK price \in Nat : price = PriceFrom(m)
    BY <2>4, PriceFromTyped
  <2>6. PICK q : q = [p EXCEPT !.last = price]
    OBVIOUS
  <2>7. q \in Position /\ q.acc = p.acc /\ q.units = p.units /\ q.avg = p.avg
    BY <2>6 DEF Position
  <2>8. hs[h] = q
    BY <1>3, <2>1, <2>2, <2>3, <2>5, <2>6
  <2>9. Cost(q) = Cost(p)
    BY <2>7 DEF Cost
  <2>. QED  BY <2>1, <2>2, <2>7, <2>8, <2>9, PositionTyped
<1>6. \A h \in HoldingId \ Stale(A) : hs[h] = holding[h]
  BY <1>3
<1>7. hs \in Positions
  <2>1. ASSUME NEW h \in HoldingId PROVE hs[h] \in Position \cup {None}
    BY <1>1, <1>5, <1>6 DEF Positions
  <2>. QED  BY <1>3, <2>1 DEF Positions
<1>8. \A b : PositionsIn(hs, b) = PositionsIn(holding, b)
  BY <1>5, <1>6 DEF PositionsIn
<1>9. ASSUME NEW b, b \notin touched PROVE SumWorth(hs, b) = SumWorth(holding, b)
  <2>1. \A h \in PositionsIn(holding, b) : hs[h] = holding[h]
    BY <1>5, <1>6, <1>9 DEF PositionsIn
  <2>. QED  BY <1>1, <1>7, <1>8, <2>1, WorthStays
<1>10. \A b : SumCost(hs, b) = SumCost(holding, b)
  <2>1. ASSUME NEW b, NEW h \in HoldingId PROVE CostFor(hs[h], b) = CostFor(holding[h], b)
    BY <1>5, <1>6 DEF CostFor
  <2>2. \A b : CostsFor(hs, b) = CostsFor(holding, b)
    BY <2>1 DEF CostsFor
  <2>. QED  BY <1>1, <1>7, <2>2, CostIsSum
<1>11. ASSUME NEW a \in touched, a \in Tracked
       PROVE  /\ vals'[a] \in Seq(Valuation) /\ vals'[a] # <<>>
              /\ vals'[a][Len(vals'[a])].by = "holdings"
              /\ vals'[a][Len(vals'[a])].value = SumWorth(hs, a)
              /\ balance'[a] = Latest(vals'[a]) /\ Latest(vals'[a]) \in Int
  <2>1. PICK v : v = [value |-> SumWorth(hs, a), ahead |-> FALSE, by |-> "holdings"]
    OBVIOUS
  <2>2. v \in Valuation /\ v.by = "holdings" /\ v.value = SumWorth(hs, a)
    BY <1>7, <2>1, WorthIsSum DEF Valuation
  <2>3. vals[a] \in Seq(Valuation)
    BY <1>1, <1>11 DEF LedgerTyped
  <2>4. PICK vs \in Seq(Valuation) : vs = Append(vals[a], v) /\ vs # <<>> /\ vs[Len(vs)] = v
    <3>1. PICK us \in Seq(Valuation) : us = vals[a]
      BY <2>3
    <3>2. PICK vs : vs = Append(us, v)
      OBVIOUS
    <3>3. vs \in Seq(Valuation) /\ vs # <<>> /\ vs[Len(vs)] = v
      BY <2>2, <3>2, AppendsLast
    <3>. QED  BY <3>1, <3>2, <3>3
  <2>5. vals'[a] = vs
    BY <1>4, <1>11, <2>1, <2>4
  <2>6. balance'[a] = Latest(vals'[a])
    BY <1>4, <1>11
  <2>7. Latest(vs) \in Int
    BY LatestTyped
  <2>. QED  BY <2>2, <2>4, <2>5, <2>6, <2>7
<1>12. ASSUME NEW a \in Tracked, a \notin touched
       PROVE  vals'[a] = vals[a] /\ vals[a] \in Seq(Valuation) /\ balance'[a] = balance[a] /\ balance[a] \in Int
  BY <1>1, <1>4, <1>12 DEF LedgerTyped
<1>13. touched \in SUBSET Tracked
  <2>1. ASSUME NEW h \in Stale(A) PROVE holding[h].acc \in Tracked
    BY DEF Stale
  <2>. QED  BY <1>2, <2>1
<1>14. ASSUME NEW c \in Cash, c \notin Tracked PROVE balance'[c] \in Int
  <2>1. c \notin touched /\ balance[c] \in Int
    BY <1>1, <1>13, <1>14 DEF LedgerTyped
  <2>. QED  BY <1>4, <2>1
<1>15. LedgerTyped'
  <2>1. vals' \in [Tracked -> Seq(Valuation)]
    <3>1. \A a \in Tracked : vals'[a] \in Seq(Valuation)
      BY <1>11, <1>12
    <3>2. vals' = [a \in Tracked |-> vals'[a]]
      BY <1>4
    <3>. QED  BY <3>1, <3>2
  <2>2. balance' \in [Cash \cup Tracked -> Int]
    <3>1. \A a \in Cash \cup Tracked : balance'[a] \in Int
      BY <1>11, <1>12, <1>14
    <3>2. balance' = [a \in Cash \cup Tracked |-> balance'[a]]
      BY <1>4
    <3>. QED  BY <3>1, <3>2
  <2>. QED  BY <1>4, <1>7, <2>1, <2>2 DEF LedgerTyped
<1>16. BalanceIsLatest'
  <2>1. ASSUME NEW a \in Tracked PROVE balance'[a] = Latest(vals'[a])
    BY <1>1, <1>11, <1>12 DEF BalanceIsLatest, Anchored
  <2>. QED  BY <2>1 DEF BalanceIsLatest
<1>17. \A b : SumWorth(holding, b)' = SumWorth(holding', b) /\ SumCost(holding, b)' = SumCost(holding', b)
  OBVIOUS
<1>18. \A b : Held(b)' = PositionsIn(hs, b) /\ Held(b) = PositionsIn(holding, b)
  BY <1>4 DEF Held, PositionsIn
<1>19. LastIsWorth'
  <2>1. SUFFICES ASSUME NEW b \in Tracked, Held(b)' # {}
                 PROVE  /\ vals'[b] # <<>>
                        /\ vals'[b][Len(vals'[b])].by = "holdings"
                        /\ vals'[b][Len(vals'[b])].value = SumWorth(hs, b)
    BY <1>4, <1>17 DEF LastIsWorth
  <2>2. CASE b \in touched
    BY <1>11, <2>2
  <2>3. CASE b \notin touched
    <3>1. Held(b) # {} /\ vals'[b] = vals[b] /\ SumWorth(hs, b) = SumWorth(holding, b)
      BY <1>8, <1>9, <1>12, <1>18, <2>1, <2>3
    <3>. QED  BY <1>1, <3>1 DEF LastIsWorth, Anchored
  <2>. QED  BY <2>2, <2>3
<1>20. DriftTyped' /\ BasisDriftIsBounded'
  <2>1. \A b : SumCost(holding, b)' = SumCost(holding, b)
    BY <1>4, <1>10, <1>17
  <2>2. BasisDriftIsBounded
    BY PartsOfInv
  <2>. QED  BY <1>1, <2>1, <2>2 DEF Refresh, DriftTyped, BasisDriftIsBounded
<1>21. SeriesTyped' /\ RestTyped'
  BY <1>1, TickTyped DEF SeriesTyped, Refresh
<1>. QED  BY <1>15, <1>16, <1>19, <1>20, <1>21, PartsOfInvNext DEF Anchored

LEMMA HoldingsInvStays ==
  ASSUME HoldingsInv, UNCHANGED holdingsVars
  PROVE  HoldingsInv'
<1>1. LedgerTyped /\ Anchored /\ SeriesTyped /\ RestTyped
  BY PartsOfInv
<1>2. LedgerTyped' /\ SeriesTyped' /\ RestTyped'
  BY <1>1 DEF LedgerTyped, SeriesTyped, RestTyped, holdingsVars
<1>3. \A b : SumWorth(holding, b)' = SumWorth(holding', b)
  OBVIOUS
<1>4. \A b \in Tracked : Latest(vals[b])' = Latest(vals'[b])
  OBVIOUS
<1>5. Anchored'
  BY <1>1, <1>3, <1>4 DEF BalanceIsLatest, LastIsWorth, Anchored, Held, holdingsVars
<1>6. DriftTyped' /\ BasisDriftIsBounded'
  BY DriftStays DEF holdingsVars
<1>. QED  BY <1>2, <1>5, <1>6, PartsOfInvNext

LEMMA HoldingsStart == HoldingsInit => HoldingsInv
<1>. SUFFICES ASSUME HoldingsInit PROVE HoldingsInv
  OBVIOUS
<1>1. LedgerTyped /\ SeriesTyped /\ RestTyped /\ DriftTyped
  <2>1. <<>> \in Seq(Valuation)
    OBVIOUS
  <2>. QED  BY <2>1, HoldingsGiven DEF HoldingsInit, LedgerTyped, SeriesTyped, RestTyped, DriftTyped, Positions
<1>2. \A a : PositionsIn(holding, a) = {}
  BY DEF HoldingsInit, PositionsIn
<1>3. Anchored
  BY <1>2 DEF HoldingsInit, Anchored, BalanceIsLatest, LastIsWorth, Latest, Held, PositionsIn
<1>4. BasisDriftIsBounded
  <2>1. ASSUME NEW a \in Tracked PROVE SumCost(holding, a) = 0
    <3>1. holding \in Positions
      BY <1>1 DEF LedgerTyped
    <3>2. \A h \in HoldingId : CostsFor(holding, a)[h] = 0
      BY DEF HoldingsInit, CostsFor, CostFor
    <3>. QED  BY <3>1, <3>2, CostIsSum, IdsAreFinite, SumZero
  <2>. QED  BY <2>1 DEF HoldingsInit, BasisDriftIsBounded, Abs
<1>. QED  BY <1>1, <1>3, <1>4, PartsOfInv

LEMMA HoldingsSteps == HoldingsInv /\ [HoldingsNext]_holdingsVars => HoldingsInv'
<1>. SUFFICES ASSUME HoldingsInv, [HoldingsNext]_holdingsVars PROVE HoldingsInv'
  OBVIOUS
<1>1. ASSUME NEW a \in Tracked, SetValue(a) PROVE HoldingsInv'
  BY <1>1, SetValueKeeps
<1>2. ASSUME NEW a \in Tracked, SetActiveState(a) PROVE HoldingsInv'
  BY <1>2, SetActiveStateKeeps
<1>3. ASSUME NEW a \in Tracked, Refresh({a}) PROVE HoldingsInv'
  BY <1>3, RefreshKeeps
<1>4. ASSUME NEW a \in Tracked, NEW c \in Cash, Move(c, a) PROVE HoldingsInv'
  BY <1>4, MoveKeeps
<1>5. ASSUME NEW a \in Tracked, NEW n \in 1..MaxOps, DeleteMove(a, n) PROVE HoldingsInv'
  BY <1>5, DeleteMoveKeeps
<1>6. ASSUME NEW a \in Tracked, NEW i \in Instruments, CreateHolding(a, i) PROVE HoldingsInv'
  BY <1>6, CreateHoldingKeeps
<1>7. ASSUME NEW a \in Tracked, NEW c \in Cash, NEW i \in Instruments, NEW q \in Quantities,
             NEW m \in Amounts, Buy(c, a, i, q, m)
      PROVE  HoldingsInv'
  BY <1>7, BuyKeeps
<1>8. CASE Refresh(Tracked)
  BY <1>8, RefreshKeeps
<1>9. ASSUME NEW h \in HoldingId, UpdateHolding(h) PROVE HoldingsInv'
  BY <1>9, UpdateHoldingKeeps
<1>10. ASSUME NEW h \in HoldingId, DeleteHolding(h) PROVE HoldingsInv'
  BY <1>10, DeleteHoldingKeeps
<1>11. ASSUME NEW h \in HoldingId, SwitchOut(h) PROVE HoldingsInv'
  BY <1>11, SwitchOutKeeps
<1>12. ASSUME NEW h \in HoldingId, NEW m \in Series \cup {None}, LinkHolding(h, m) PROVE HoldingsInv'
  BY <1>12, LinkHoldingKeeps
<1>13. ASSUME NEW h \in HoldingId, NEW c \in Cash, NEW q \in Quantities, NEW m \in Amounts, Sell(c, h, q, m)
       PROVE  HoldingsInv'
  BY <1>13, SellKeeps
<1>14. ASSUME NEW h \in HoldingId, NEW m \in Amounts, Reinvest(h, m) PROVE HoldingsInv'
  BY <1>14, ReinvestKeeps
<1>15. ASSUME NEW h \in HoldingId, NEW m \in Amounts, NEW c \in Cash, CashDistribution(c, h, m) PROVE HoldingsInv'
  BY <1>15, CashDistributionKeeps
<1>16. ASSUME NEW h \in HoldingId, NEW m \in Amounts, NEW c \in Cash, Fee(c, h, m) PROVE HoldingsInv'
  BY <1>16, FeeKeeps
<1>17. ASSUME NEW m \in Series, NewQuote(m) PROVE HoldingsInv'
  BY <1>17, NewQuoteKeeps
<1>18. CASE UNCHANGED holdingsVars
  BY <1>18, HoldingsInvStays
<1>. QED  BY <1>1, <1>2, <1>3, <1>4, <1>5, <1>6, <1>7, <1>8, <1>9, <1>10, <1>11, <1>12, <1>13, <1>14,
             <1>15, <1>16, <1>17, <1>18 DEF HoldingsNext

\* Every variable has its type, the balance of a tracked account is its latest
\* valuation, and the last one written to an account that holds anything is what
\* its positions are worth (recomputeAccountValueAnchorWithinTx).
THEOREM HoldingsInvariant == HoldingsSpec => []HoldingsInv
<1>. QED  BY HoldingsStart, HoldingsSteps, PTL DEF HoldingsSpec

\* The positions of an account add up: to its balance, after any trades, edits,
\* switches, refreshes and deletes of earlier transfers, and, but for the rounding
\* of averages and products, to the cost that the operations replied
\* (recomputeAccountValueAnchorWithinTx, averageUnitCostMinor, holdingCostMinor).
THEOREM PositionsFollow == HoldingsSpec => []PositionsAddUp
<1>1. HoldingsInv => PositionsAddUp
  <2>. SUFFICES ASSUME HoldingsInv PROVE PositionsAddUp
    OBVIOUS
  <2>1. LedgerTyped /\ Anchored /\ BasisDriftIsBounded
    BY PartsOfInv
  <2>2. ASSUME NEW a \in Tracked, Held(a) # {}, \A n \in DOMAIN vals[a] : ~vals[a][n].ahead
        PROVE  balance[a] = SumWorth(holding, a)
    <3>1. vals[a] \in Seq(Valuation) /\ vals[a] # <<>>
      BY <2>1, <2>2 DEF LedgerTyped, Anchored, LastIsWorth
    <3>2. Latest(vals[a]) = vals[a][Len(vals[a])].value
      BY <2>2, <3>1, LatestTyped
    <3>. QED  BY <2>1, <2>2, <3>2 DEF Anchored, BalanceIsLatest, LastIsWorth
  <2>. QED  BY <2>1, <2>2 DEF PositionsAddUp, WorthFollowsHoldings
<1>. QED  BY <1>1, HoldingsInvariant, PTL

-----------------------------------------------------------------------------
(* What the rows of the book are.                                          *)

LEMMA CalendarGiven ==
  /\ LastDay \in Nat /\ Today \in 1..LastDay /\ Days = 1..LastDay
  /\ Week \in Nat \ {0} /\ MonthStarts \in Seq(Nat) /\ MonthStarts[1] = 1
  /\ \A i \in 2..Len(MonthStarts) : MonthStarts[i - 1] < MonthStarts[i]
  /\ \E i \in 1..(Len(MonthStarts) - 2) : MonthStarts[i] > LastDay
BY ReportsAssumption DEF Days

\* The amount of income and of an expense is the sum of their parts.
Told(r) ==
  r.kind \in {"income", "expense"} =>
    /\ r.amount = (IF r.kind = "income" THEN 1 ELSE -1)
                  * MapThenSumSet(LAMBDA i : r.parts[i].amount, DOMAIN r.parts)
    /\ \A i \in DOMAIN r.parts : r.parts[i].amount > 0

RowsInv ==
  /\ \A n \in DOMAIN book : Told(book[n].row)
  /\ \A a \in Accounts : AnchorsBy(book, a, Today) # {}

LEMMA RowsGiven ==
  /\ \A r \in Rows : Told(r)
  /\ \A i \in DOMAIN Opened : Told(Opened[i]) /\ Opened[i].kind = "anchor"
  /\ \A a \in Accounts : \E i \in DOMAIN Opened : Opened[i].acc = a /\ Opened[i].day <= Today
BY ReportsAssumption DEF Told

LEMMA RowsInvInit == ReportsInit => RowsInv
<1>. SUFFICES ASSUME ReportsInit PROVE RowsInv
  OBVIOUS
<1>1. DOMAIN book = DOMAIN Opened /\ \A n \in DOMAIN book : book[n].row = Opened[n]
  BY DEF ReportsInit, Entry
<1>. QED  BY <1>1, RowsGiven DEF RowsInv, AnchorsBy

\* A step keeps the rows, and adds one at most.
LEMMA RowsKept ==
  ASSUME BookInv, ReportsNext
  PROVE  /\ \A n \in DOMAIN book : n \in DOMAIN book' /\ book'[n].row = book[n].row
         /\ \A n \in DOMAIN book' \ DOMAIN book : book'[n].row \in Rows
<1>0. book \in Seq(Booked) /\ Len(book) \in Nat /\ DOMAIN book = 1..Len(book)
  BY DEF BookInv, ReportTypes
<1>1. ASSUME NEW r \in Rows, Create(r) \/ BulkCreate(r)
      PROVE  /\ \A n \in DOMAIN book : n \in DOMAIN book' /\ book'[n].row = book[n].row
             /\ \A n \in DOMAIN book' \ DOMAIN book : book'[n].row \in Rows
  <2>1. Entry(r).row = r /\ BulkEntry(r).row = r
    BY DEF Entry, BulkEntry
  <2>2. PICK e : e.row \in Rows /\ book' = Append(book, e)
    BY <1>1, <2>1 DEF Create, BulkCreate
  <2>3. /\ DOMAIN book' = 1..(Len(book) + 1) /\ book'[Len(book) + 1] = e
        /\ \A n \in 1..Len(book) : book'[n] = book[n]
    BY <1>0, <2>2
  <2>4. \A n \in DOMAIN book' \ DOMAIN book : n = Len(book) + 1
    BY <1>0, <2>3
  <2>. QED  BY <1>0, <2>2, <2>3, <2>4
<1>2. ASSUME NEW to, NEW known, NEW froms, NEW since, book' = Rebuilt(to, known, froms, since) \/ book' = book
      PROVE  DOMAIN book' = DOMAIN book /\ \A n \in DOMAIN book : book'[n].row = book[n].row
  <2>1. CASE book' = Rebuilt(to, known, froms, since)
    <3>1. DOMAIN book' = DOMAIN book
      BY <2>1 DEF Rebuilt
    <3>2. ASSUME NEW n \in DOMAIN book PROVE book'[n].row = book[n].row
      <4>1. book[n] \in Booked
        BY <1>0
      <4>2. \A p : [book[n] EXCEPT !.proj = p, !.raw = FALSE].row = book[n].row
        BY <4>1 DEF Booked
      <4>3. \/ book'[n] = book[n]
            \/ book'[n] = [book[n] EXCEPT !.proj = Project(book[n].row, book[n].currency, to, known),
                                          !.raw = FALSE]
        BY <2>1 DEF Rebuilt
      <4>. QED  BY <4>2, <4>3
    <3>. QED  BY <3>1, <3>2
  <2>2. CASE book' = book
    BY <2>2
  <2>. QED  BY <1>2, <2>1, <2>2
<1>3. ASSUME NEW new \in Rates, UpsertRate(new)
      PROVE  DOMAIN book' = DOMAIN book /\ \A n \in DOMAIN book : book'[n].row = book[n].row
  BY <1>2, <1>3 DEF UpsertRate
<1>4. ASSUME NEW c \in Currencies, SetBase(c)
      PROVE  DOMAIN book' = DOMAIN book /\ \A n \in DOMAIN book : book'[n].row = book[n].row
  BY <1>2, <1>4 DEF SetBase
<1>5. ASSUME NEW m \in DOMAIN book, Delete(m)
      PROVE  DOMAIN book' = DOMAIN book /\ \A n \in DOMAIN book : book'[n].row = book[n].row
  <2>1. book' = [book EXCEPT ![m].live = FALSE] /\ book[m] \in Booked
    BY <1>0, <1>5 DEF Delete
  <2>2. DOMAIN book' = DOMAIN book /\ \A n \in DOMAIN book :
          book'[n] = IF n = m THEN [book[m] EXCEPT !.live = FALSE] ELSE book[n]
    BY <2>1
  <2>3. [book[m] EXCEPT !.live = FALSE].row = book[m].row
    BY <2>1 DEF Booked
  <2>. QED  BY <2>2, <2>3
<1>6. ASSUME NEW froms, NEW since, Rebuild(froms, since)
      PROVE  DOMAIN book' = DOMAIN book /\ \A n \in DOMAIN book : book'[n].row = book[n].row
  BY <1>2, <1>6 DEF Rebuild
<1>. QED  BY <1>1, <1>3, <1>4, <1>5, <1>6 DEF ReportsNext

LEMMA RowsInvNext == BookInv /\ RowsInv /\ [ReportsNext]_reportsVars => RowsInv'
<1>. SUFFICES ASSUME BookInv, RowsInv, [ReportsNext]_reportsVars PROVE RowsInv'
  OBVIOUS
<1>0. /\ \A a : AnchorsBy(book, a, Today)' = AnchorsBy(book', a, Today)
      /\ \A n : Told(book[n].row)' = Told(book'[n].row)
  OBVIOUS
<1>1. CASE ReportsNext
  <2>1. /\ \A n \in DOMAIN book : n \in DOMAIN book' /\ book'[n].row = book[n].row
        /\ \A n \in DOMAIN book' \ DOMAIN book : book'[n].row \in Rows
    BY <1>1, RowsKept
  <2>2. \A n \in DOMAIN book' : Told(book'[n].row)
    BY <2>1, RowsGiven DEF RowsInv
  <2>3. ASSUME NEW a \in Accounts PROVE AnchorsBy(book', a, Today) # {}
    <3>1. PICK n : n \in AnchorsBy(book, a, Today)
      BY DEF RowsInv
    <3>2. n \in AnchorsBy(book', a, Today)
      BY <2>1, <3>1 DEF AnchorsBy
    <3>. QED  BY <3>2
  <2>. QED  BY <1>0, <2>2, <2>3 DEF RowsInv
<1>2. CASE UNCHANGED reportsVars
  <2>1. book' = book
    BY <1>2 DEF reportsVars
  <2>2. \A a \in Accounts : AnchorsBy(book', a, Today) # {}
    BY <2>1 DEF RowsInv
  <2>3. \A n \in DOMAIN book' : Told(book'[n].row)
    BY <2>1 DEF RowsInv
  <2>. QED  BY <1>0, <2>2, <2>3 DEF RowsInv
<1>. QED  BY <1>1, <1>2

-----------------------------------------------------------------------------
(* Sums of amounts, and the anchor in force.                               *)

AmountsIn(b) == [n \in DOMAIN b |-> b[n].row.amount]

LEMMA RowTyped ==
  ASSUME NEW b \in Seq(Booked), NEW n \in DOMAIN b
  PROVE  /\ n \in Nat /\ b[n].row.acc \in Accounts /\ b[n].row.day \in 1..LastDay /\ b[n].row.day \in Int
         /\ b[n].row.amount \in Int /\ b[n].row.clock \in BOOLEAN /\ b[n].live \in BOOLEAN
<1>1. b[n] \in Booked /\ n \in Nat
  OBVIOUS
<1>2. b[n].row \in BookRow
  BY <1>1 DEF Booked
<1>3. PICK r \in BookRow : r = b[n].row
  BY <1>2
<1>4. r.acc \in Accounts /\ r.day \in Days /\ r.amount \in Int /\ r.clock \in BOOLEAN
  BY DEF BookRow
<1>5. \A day \in Days : day \in 1..LastDay /\ day \in Int
  BY CalendarGiven
<1>6. b[n].live \in BOOLEAN
  BY <1>1 DEF Booked
<1>. QED  BY <1>1, <1>3, <1>4, <1>5, <1>6

LEMMA AmountIsSum ==
  ASSUME NEW b \in Seq(Booked), NEW ns \in SUBSET DOMAIN b
  PROVE  /\ IsFiniteSet(ns)
         /\ \A n \in ns : AmountsIn(b)[n] \in Int
         /\ Amount(b, ns) = SumOn(AmountsIn(b), ns)
         /\ Amount(b, ns) \in Int
<1>. DEFINE f == [n \in ns |-> b[n].row.amount]
<1>1. IsFiniteSet(ns)
  <2>1. IsFiniteSet(DOMAIN b)
    BY FS_Interval
  <2>. QED  BY <2>1, FS_Subset
<1>2. Amount(b, ns) = SumOn(f, ns)
  BY DEF Amount, SumOn, MapThenSumSet, MapThenFoldSet
<1>3. \A n \in ns : AmountsIn(b)[n] \in Int /\ f[n] = AmountsIn(b)[n]
  BY RowTyped DEF AmountsIn
<1>4. SumOn(f, ns) = SumOn(AmountsIn(b), ns) /\ SumOn(AmountsIn(b), ns) \in Int
  BY <1>1, <1>3, SumSame, SumType
<1>. QED  BY <1>1, <1>2, <1>3, <1>4

LEMMA AmountSplits ==
  ASSUME NEW b \in Seq(Booked), NEW S \in SUBSET DOMAIN b, NEW T \in SUBSET DOMAIN b, S \cap T = {}
  PROVE  /\ Amount(b, S \cup T) = Amount(b, S) + Amount(b, T)
         /\ Amount(b, S) \in Int /\ Amount(b, T) \in Int
<1>1. S \cup T \in SUBSET DOMAIN b
  OBVIOUS
<1>2. \A x \in S \cup T : AmountsIn(b)[x] \in Int
  BY <1>1, AmountIsSum
<1>3. IsFiniteSet(S) /\ IsFiniteSet(T)
  BY AmountIsSum
<1>4. SumOn(AmountsIn(b), S \cup T) = SumOn(AmountsIn(b), S) + SumOn(AmountsIn(b), T)
  BY <1>2, <1>3, SumUnion
<1>. QED  BY <1>1, <1>4, AmountIsSum

\* k is the latest by day, and the last of its day.
Leads(b, ns, k) ==
  k \in ns /\ \A m \in ns :
    b[m].row.day < b[k].row.day \/ (b[m].row.day = b[k].row.day /\ m <= k)

LEMMA OneLeads ==
  ASSUME NEW b \in Seq(Booked), NEW ns \in SUBSET DOMAIN b, NEW k, Leads(b, ns, k)
  PROVE  InForce(b, ns) = k
<1>1. PICK j : j = InForce(b, ns)
  OBVIOUS
<1>2. Leads(b, ns, j)
  BY <1>1 DEF Leads, InForce
<1>3. j \in DOMAIN b /\ k \in DOMAIN b
  BY <1>2 DEF Leads
<1>4. j \in Nat /\ k \in Nat /\ b[j].row.day \in Int /\ b[k].row.day \in Int
  BY <1>3, RowTyped
<1>5. /\ b[j].row.day < b[k].row.day \/ (b[j].row.day = b[k].row.day /\ j <= k)
      /\ b[k].row.day < b[j].row.day \/ (b[k].row.day = b[j].row.day /\ k <= j)
  BY <1>2 DEF Leads
<1>6. j = k
  BY <1>4, <1>5
<1>. QED  BY <1>1, <1>6

LEMMA InForceLeads ==
  ASSUME NEW b \in Seq(Booked), NEW ns \in SUBSET DOMAIN b, ns # {}
  PROVE  Leads(b, ns, InForce(b, ns))
<1>. DEFINE D == {b[n].row.day : n \in ns}
<1>1. \A n \in ns : n \in Nat /\ b[n].row.day \in Int /\ b[n].row.day <= LastDay /\ n <= Len(b)
  BY RowTyped, CalendarGiven
<1>2. D \in SUBSET Int /\ D # {} /\ LastDay \in Int /\ \A d \in D : d <= LastDay
  <2>1. LastDay \in Int
    BY CalendarGiven
  <2>2. D # {}
    OBVIOUS
  <2>3. ASSUME NEW d \in D PROVE d \in Int /\ d <= LastDay
    <3>1. PICK n \in ns : d = b[n].row.day
      OBVIOUS
    <3>. QED  BY <1>1, <3>1
  <2>. QED  BY <2>1, <2>2, <2>3
<1>3. PICK d \in D : \A e \in D : e <= d
  BY <1>2, GreatestNumber
<1>. DEFINE M == {n \in ns : b[n].row.day = d}
<1>4. M \in SUBSET Int /\ M # {} /\ Len(b) \in Int /\ \A n \in M : n <= Len(b)
  BY <1>1
<1>5. PICK k \in M : \A n \in M : n <= k
  BY <1>4, GreatestNumber
<1>6. ASSUME NEW m \in ns
      PROVE  b[m].row.day < b[k].row.day \/ (b[m].row.day = b[k].row.day /\ m <= k)
  <2>1. b[m].row.day <= d /\ b[k].row.day = d /\ b[m].row.day \in Int /\ d \in Int
    BY <1>1, <1>3
  <2>2. b[m].row.day = d => m <= k
    BY <1>5
  <2>. QED  BY <2>1, <2>2
<1>7. Leads(b, ns, k)
  BY <1>6 DEF Leads
<1>. QED  BY <1>7, OneLeads

-----------------------------------------------------------------------------
(* The point of today and the balance.                                     *)

\* What a reading of a day holds, whatever was read before.
Reading(b, known, day) ==
  [day |-> day,
   active |-> [a \in Accounts |->
     IF AnchorsBy(b, a, day) = {} THEN 0 ELSE InForce(b, AnchorsBy(b, a, day))],
   through |-> [a \in Accounts |-> Amount(b, Through(b, a, day))],
   rate |-> [c \in Currencies |->
     IF Dated(known, c, base, day) = {} THEN 0 ELSE Newest(Dated(known, c, base, day)).rate]]

LEMMA BeforeAll ==
  ASSUME NEW b \in Seq(Booked), NEW known \in SUBSET Rated
  PROVE  /\ \A a : AnchorsBy(b, a, 0) = {} /\ Through(b, a, 0) = {}
         /\ \A c, d : Dated(known, c, d, 0) = {}
<1>1. \A n \in DOMAIN b : ~(b[n].row.day <= 0)
  BY RowTyped, CalendarGiven
<1>2. \A r \in known : ~(r.day <= 0)
  BY CalendarGiven DEF Rated
<1>. QED  BY <1>1, <1>2 DEF AnchorsBy, Through, FlowOf, Dated

LEMMA RowSets ==
  ASSUME NEW b \in Seq(Booked), NEW a, NEW day
  PROVE  /\ AnchorsBy(b, a, day) \in SUBSET DOMAIN b /\ FlowOf(b, a) \in SUBSET DOMAIN b
         /\ Through(b, a, day) \in SUBSET DOMAIN b
         /\ \A n : Backdated(b, a, n) \in SUBSET DOMAIN b
BY DEF AnchorsBy, FlowOf, Through, Backdated

LEMMA FirstReading ==
  ASSUME NEW b \in Seq(Booked), NEW known \in SUBSET Rated, NEW day
  PROVE  ReadOn(b, known, Unread, day) = Reading(b, known, day)
<1>1. \A a : AnchorsBy(b, a, 0) = {} /\ Through(b, a, 0) = {}
  BY BeforeAll
<1>2. \A c : Dated(known, c, base, 0) = {}
  BY BeforeAll
<1>3. \A a : /\ AnchorsBy(b, a, day) \ AnchorsBy(b, a, 0) = AnchorsBy(b, a, day)
             /\ Through(b, a, day) \ Through(b, a, 0) = Through(b, a, day)
  BY <1>1
<1>4. \A c : Dated(known, c, base, day) \ Dated(known, c, base, 0) = Dated(known, c, base, day)
  BY <1>2
<1>5. \A a \in Accounts : 0 + Amount(b, Through(b, a, day)) = Amount(b, Through(b, a, day))
  BY RowSets, AmountIsSum
<1>. QED  BY <1>3, <1>4, <1>5 DEF ReadOn, Unread, Reading

Astray(a, n) ==
  {m \in FlowOf(book, a) :
     \/ book[m].row.day > Today
     \/ book[m].row.day = book[n].row.day /\ book[m].row.clock /\ m < n}

LEMMA TodayIsCanonical ==
  ASSUME BookInv, RowsInv, NEW a \in Accounts
  PROVE  Canonical(a) = NativeOf(book, ReadOn(book, rates, Unread, Today), a)
                          + Amount(book, Astray(a, InForce(book, AnchorsBy(book, a, Today))))
<1>1. book \in Seq(Booked) /\ rates \in SUBSET Rated
  BY DEF BookInv, ReportTypes
<1>2. PICK n : n = InForce(book, AnchorsBy(book, a, Today))
  OBVIOUS
<1>3. n \in AnchorsBy(book, a, Today)
  BY <1>1, <1>2, RowSets, InForceLeads DEF RowsInv, Leads
<1>4. n \in DOMAIN book /\ book[n].row.kind = "anchor" /\ book[n].row.day <= Today
  BY <1>3 DEF AnchorsBy
<1>5. PICK d \in Int, v \in Int : d = book[n].row.day /\ v = book[n].row.amount /\ n \in Nat /\ n # 0
  BY <1>1, <1>4, RowTyped
<1>6. PICK F \in SUBSET DOMAIN book : F = FlowOf(book, a)
  BY <1>1, RowSets
<1>7. \A m \in F : m \in Nat /\ book[m].row.day \in Int /\ m # n
  BY <1>1, <1>4, <1>6, RowTyped DEF FlowOf
<1>. DEFINE later == {m \in F : book[m].row.day > Today}
            since == {m \in F : book[m].row.day > d /\ book[m].row.day <= Today}
            old == {m \in F : book[m].row.day <= d}
            back == {m \in F : book[m].row.day <= d /\ m > n}
            timed == {m \in F : book[m].row.day = d /\ book[m].row.clock /\ m < n}
            astray == {m \in F : \/ book[m].row.day > Today
                                 \/ book[m].row.day = d /\ book[m].row.clock /\ m < n}
            canon == {m \in F : \/ book[m].row.day > d
                                \/ book[m].row.day = d /\ book[m].row.clock
                                \/ m > n}
<1>8. Today \in Int /\ d <= Today
  BY <1>4, <1>5, CalendarGiven
<1>9. /\ Through(book, a, Today) = old \cup since /\ old \cap since = {}
      /\ Through(book, a, d) = old /\ Backdated(book, a, n) = back
  <2>1. Through(book, a, Today) = old \cup since
    BY <1>6, <1>7, <1>8 DEF Through
  <2>2. Through(book, a, d) = old
    BY <1>6 DEF Through
  <2>3. Backdated(book, a, n) = back
    BY <1>5, <1>6 DEF Through, Backdated
  <2>4. old \cap since = {}
    BY <1>5, <1>7
  <2>. QED  BY <2>1, <2>2, <2>3, <2>4
<1>10. /\ astray = later \cup timed /\ later \cap timed = {}
       /\ canon = since \cup (back \cup astray)
       /\ since \cap (back \cup astray) = {} /\ back \cap astray = {}
  <2>1. astray = later \cup timed
    OBVIOUS
  <2>2. later \cap timed = {}
    BY <1>5, <1>7, <1>8
  <2>3. since \cap (back \cup astray) = {}
    BY <1>5, <1>7, <1>8
  <2>4. back \cap astray = {}
    BY <1>5, <1>7, <1>8
  <2>5. ASSUME NEW m \in F
        PROVE  m \in canon <=> m \in since \/ m \in back \/ m \in astray
    BY <1>5, <1>7, <1>8
  <2>. QED  BY <2>1, <2>2, <2>3, <2>4, <2>5
<1>11. /\ since \in SUBSET DOMAIN book /\ old \in SUBSET DOMAIN book /\ back \in SUBSET DOMAIN book
       /\ astray \in SUBSET DOMAIN book /\ back \cup astray \in SUBSET DOMAIN book
  OBVIOUS
<1>12. Canonical(a) = v + Amount(book, canon)
  BY <1>2, <1>5, <1>6 DEF Canonical
<1>13. Astray(a, n) = astray
  BY <1>5, <1>6 DEF Astray
<1>14. NativeOf(book, ReadOn(book, rates, Unread, Today), a)
         = v + Amount(book, Through(book, a, Today)) - Amount(book, Through(book, a, d))
             + Amount(book, Backdated(book, a, n))
  <2>1. PICK reading : reading = ReadOn(book, rates, Unread, Today)
    OBVIOUS
  <2>2. reading = Reading(book, rates, Today)
    BY <1>1, <2>1, FirstReading
  <2>3. reading.active[a] = n /\ reading.through[a] = Amount(book, Through(book, a, Today))
    BY <1>2, <1>3, <2>2 DEF Reading
  <2>. QED  BY <1>5, <2>1, <2>3 DEF NativeOf
<1>. HIDE DEF later, since, old, back, timed, astray, canon
<1>15. /\ Amount(book, old \cup since) = Amount(book, old) + Amount(book, since)
       /\ Amount(book, old) \in Int /\ Amount(book, since) \in Int
  BY <1>1, <1>9, <1>11, AmountSplits
<1>16. Amount(book, canon) = Amount(book, since) + Amount(book, back \cup astray)
  BY <1>1, <1>10, <1>11, AmountSplits
<1>17. /\ Amount(book, back \cup astray) = Amount(book, back) + Amount(book, astray)
       /\ Amount(book, back) \in Int /\ Amount(book, astray) \in Int
  BY <1>1, <1>10, <1>11, AmountSplits
<1>. QED  BY <1>2, <1>9, <1>12, <1>13, <1>14, <1>15, <1>16, <1>17

-----------------------------------------------------------------------------
(* A series reads at each day what a point alone reads there.              *)

LEMMA NewestIsThis ==
  ASSUME NEW known \in SUBSET Rated, \A r, s \in known : SameKey(r, s) => r = s,
         NEW c, NEW to, NEW day, NEW rs \in SUBSET Dated(known, c, to, day),
         NEW r \in rs, \A s \in rs : s.day <= r.day
  PROVE  Newest(rs) = r
<1>1. rs \in SUBSET Rated /\ rs # {}
  BY DEF Dated
<1>2. PICK t : t = Newest(rs)
  OBVIOUS
<1>3. t \in rs /\ \A s \in rs : s.day <= t.day
  BY <1>1, <1>2, NewestIsOne
<1>4. t.day \in Int /\ r.day \in Int
  <2>1. \A s \in Rated : s.day \in Int
    BY CalendarGiven DEF Rated
  <2>. QED  BY <1>1, <1>3, <2>1
<1>5. t.day <= r.day /\ r.day <= t.day
  BY <1>3
<1>6. t.day = r.day
  BY <1>4, <1>5
<1>7. t \in known /\ r \in known /\ SameKey(t, r)
  BY <1>3, <1>6 DEF SameKey, Dated
<1>. QED  BY <1>2, <1>7

LEMMA ReadingMovesOn ==
  ASSUME NEW b \in Seq(Booked),
         NEW known \in SUBSET Rated, \A r, s \in known : SameKey(r, s) => r = s,
         NEW d \in Int, NEW e \in Int, d < e
  PROVE  ReadOn(b, known, Reading(b, known, d), e) = Reading(b, known, e)
<1>1. ASSUME NEW a \in Accounts
      PROVE  (IF AnchorsBy(b, a, e) \ AnchorsBy(b, a, d) = {}
              THEN IF AnchorsBy(b, a, d) = {} THEN 0 ELSE InForce(b, AnchorsBy(b, a, d))
              ELSE InForce(b, AnchorsBy(b, a, e) \ AnchorsBy(b, a, d)))
             = IF AnchorsBy(b, a, e) = {} THEN 0 ELSE InForce(b, AnchorsBy(b, a, e))
  <2>1. PICK A \in SUBSET DOMAIN b, B \in SUBSET DOMAIN b : A = AnchorsBy(b, a, d) /\ B = AnchorsBy(b, a, e)
    BY RowSets
  <2>2. \A n \in DOMAIN b : b[n].row.day \in Int
    BY RowTyped
  <2>3. A \subseteq B /\ (\A n \in A : b[n].row.day <= d) /\ (\A n \in B \ A : d < b[n].row.day)
    BY <2>1, <2>2 DEF AnchorsBy
  <2>4. CASE B \ A = {}
    <3>1. A = B
      BY <2>3, <2>4
    <3>. QED  BY <2>1, <2>4, <3>1
  <2>5. CASE B \ A # {}
    <3>1. PICK k : k = InForce(b, B \ A)
      OBVIOUS
    <3>2. Leads(b, B \ A, k)
      BY <2>5, <3>1, InForceLeads
    <3>3. ASSUME NEW m \in B
          PROVE  b[m].row.day < b[k].row.day \/ (b[m].row.day = b[k].row.day /\ m <= k)
      <4>1. CASE m \in B \ A
        BY <3>2, <4>1 DEF Leads
      <4>2. CASE m \in A
        <5>1. k \in B \ A
          BY <3>2 DEF Leads
        <5>2. b[m].row.day <= d /\ d < b[k].row.day /\ b[m].row.day \in Int /\ b[k].row.day \in Int
          BY <2>2, <2>3, <4>2, <5>1
        <5>. QED  BY <5>2
      <4>. QED  BY <4>1, <4>2
    <3>4. Leads(b, B, k)
      BY <3>2, <3>3 DEF Leads
    <3>5. InForce(b, B) = k
      BY <3>4, OneLeads
    <3>. QED  BY <2>1, <2>5, <3>1, <3>5
  <2>. QED  BY <2>4, <2>5
<1>2. ASSUME NEW a \in Accounts
      PROVE  Amount(b, Through(b, a, d)) + Amount(b, Through(b, a, e) \ Through(b, a, d))
             = Amount(b, Through(b, a, e))
  <2>1. PICK S \in SUBSET DOMAIN b, T \in SUBSET DOMAIN b : S = Through(b, a, d) /\ T = Through(b, a, e)
    BY RowSets
  <2>2. \A n \in DOMAIN b : b[n].row.day \in Int
    BY RowTyped
  <2>3. S \subseteq T
    BY <2>1, <2>2 DEF Through, FlowOf
  <2>4. T = S \cup (T \ S) /\ S \cap (T \ S) = {} /\ T \ S \in SUBSET DOMAIN b
    BY <2>3
  <2>5. Amount(b, T) = Amount(b, S) + Amount(b, T \ S)
    BY <2>4, AmountSplits
  <2>. QED  BY <2>1, <2>5
<1>3. ASSUME NEW c \in Currencies
      PROVE  (IF Dated(known, c, base, e) \ Dated(known, c, base, d) = {}
              THEN IF Dated(known, c, base, d) = {} THEN 0 ELSE Newest(Dated(known, c, base, d)).rate
              ELSE Newest(Dated(known, c, base, e) \ Dated(known, c, base, d)).rate)
             = IF Dated(known, c, base, e) = {} THEN 0 ELSE Newest(Dated(known, c, base, e)).rate
  <2>1. PICK A \in SUBSET known, B \in SUBSET known : A = Dated(known, c, base, d) /\ B = Dated(known, c, base, e)
    BY DEF Dated
  <2>2. \A r \in known : r.day \in Int
    BY CalendarGiven DEF Rated
  <2>3. A \subseteq B /\ (\A r \in A : r.day <= d) /\ (\A r \in B \ A : d < r.day)
    BY <2>1, <2>2 DEF Dated
  <2>4. CASE B \ A = {}
    <3>1. A = B
      BY <2>3, <2>4
    <3>. QED  BY <2>1, <2>4, <3>1
  <2>5. CASE B \ A # {}
    <3>1. PICK r : r = Newest(B \ A)
      OBVIOUS
    <3>2. r \in B \ A /\ \A s \in B \ A : s.day <= r.day
      <4>1. B \ A \in SUBSET Rated
        OBVIOUS
      <4>. QED  BY <2>5, <3>1, <4>1, NewestIsOne
    <3>3. ASSUME NEW s \in B
          PROVE  s.day <= r.day
      <4>1. CASE s \in B \ A
        BY <3>2, <4>1
      <4>2. CASE s \in A
        <5>1. s.day <= d /\ d < r.day /\ s.day \in Int /\ r.day \in Int
          BY <2>2, <2>3, <3>2, <4>2
        <5>. QED  BY <5>1
      <4>. QED  BY <4>1, <4>2
    <3>4. B \in SUBSET Dated(known, c, base, e) /\ r \in B
      BY <2>1, <3>2
    <3>5. Newest(B) = r
      BY <3>3, <3>4, NewestIsThis
    <3>6. B # {}
      BY <2>5
    <3>. QED  BY <2>1, <2>5, <3>1, <3>5, <3>6
  <2>. QED  BY <2>4, <2>5
<1>4. PICK before : before = Reading(b, known, d)
  OBVIOUS
<1>5. /\ before.day = d
      /\ \A a \in Accounts :
           /\ before.active[a] = IF AnchorsBy(b, a, d) = {} THEN 0 ELSE InForce(b, AnchorsBy(b, a, d))
           /\ before.through[a] = Amount(b, Through(b, a, d))
      /\ \A c \in Currencies : before.rate[c] =
           IF Dated(known, c, base, d) = {} THEN 0 ELSE Newest(Dated(known, c, base, d)).rate
  BY <1>4 DEF Reading
<1>6. ReadOn(b, known, before, e) = Reading(b, known, e)
  <2>1. [a \in Accounts |->
           IF AnchorsBy(b, a, e) \ AnchorsBy(b, a, d) = {} THEN before.active[a]
           ELSE InForce(b, AnchorsBy(b, a, e) \ AnchorsBy(b, a, d))]
        = [a \in Accounts |-> IF AnchorsBy(b, a, e) = {} THEN 0 ELSE InForce(b, AnchorsBy(b, a, e))]
    BY <1>1, <1>5
  <2>2. [a \in Accounts |-> before.through[a] + Amount(b, Through(b, a, e) \ Through(b, a, d))]
        = [a \in Accounts |-> Amount(b, Through(b, a, e))]
    BY <1>2, <1>5
  <2>3. [c \in Currencies |->
           IF Dated(known, c, base, e) \ Dated(known, c, base, d) = {} THEN before.rate[c]
           ELSE Newest(Dated(known, c, base, e) \ Dated(known, c, base, d)).rate]
        = [c \in Currencies |->
             IF Dated(known, c, base, e) = {} THEN 0 ELSE Newest(Dated(known, c, base, e)).rate]
    BY <1>3, <1>5
  <2>. QED  BY <1>5, <2>1, <2>2, <2>3 DEF ReadOn, Reading
<1>. QED  BY <1>4, <1>6

\* Days in their order.
Ascending(days) ==
  /\ days \in Seq(Days)
  /\ \A i \in 2..Len(days) : days[i - 1] < days[i]

LEMMA SeriesReads ==
  ASSUME NEW b \in Seq(Booked),
         NEW known \in SUBSET Rated, \A r, s \in known : SameKey(r, s) => r = s,
         NEW days, Ascending(days)
  PROVE  NetWorthSeries(b, known, days) = [i \in DOMAIN days |-> PointOf(b, Reading(b, known, days[i]))]
<1>1. PICK n \in Nat : n = Len(days) /\ DOMAIN days = 1..n
  BY DEF Ascending
<1>. DEFINE Step(g) == [i \in 0..n |-> IF i = 0 THEN Unread ELSE ReadOn(b, known, g[i - 1], days[i])]
            w == [i \in 0..n |-> IF i = 0 THEN Unread ELSE Reading(b, known, days[i])]
            h == CHOOSE g : g = Step(g)
<1>2. ASSUME NEW i \in 1..n
      PROVE  ReadOn(b, known, w[i - 1], days[i]) = Reading(b, known, days[i])
  <2>1. CASE i = 1
    <3>1. w[i - 1] = Unread
      BY <2>1
    <3>. QED  BY <3>1, FirstReading
  <2>2. CASE i # 1
    <3>1. i - 1 \in 1..n /\ i \in 2..n /\ i - 1 # 0 /\ i - 1 \in 0..n
      BY <2>2
    <3>2. w[i - 1] = Reading(b, known, days[i - 1])
      BY <3>1
    <3>3. days[i - 1] \in Int /\ days[i] \in Int /\ days[i - 1] < days[i]
      BY <1>1, <3>1, CalendarGiven DEF Ascending
    <3>. QED  BY <3>2, <3>3, ReadingMovesOn
  <2>. QED  BY <2>1, <2>2
<1>3. w = Step(w)
  <2>1. ASSUME NEW i \in 0..n
        PROVE  w[i] = IF i = 0 THEN Unread ELSE ReadOn(b, known, w[i - 1], days[i])
    <3>1. CASE i = 0
      BY <3>1
    <3>2. CASE i # 0
      <4>1. i \in 1..n
        BY <3>2
      <4>2. w[i] = Reading(b, known, days[i])
        BY <3>2
      <4>. QED  BY <1>2, <3>2, <4>1, <4>2
    <3>. QED  BY <3>1, <3>2
  <2>. HIDE DEF w
  <2>2. DOMAIN w = 0..n /\ w = [i \in 0..n |-> w[i]]
    BY DEF w
  <2>. QED  BY <2>1, <2>2
<1>4. h = Step(h)
  BY <1>3
<1>5. ASSUME NEW i \in 0..n PROVE h[i] = w[i]
  <2>. DEFINE odd == {j \in 0..n : h[j] # w[j]}
  <2>1. SUFFICES odd = {}
    OBVIOUS
  <2>2. SUFFICES ASSUME odd # {} PROVE FALSE
    OBVIOUS
  <2>3. odd \in SUBSET Nat
    OBVIOUS
  <2>4. PICK j \in odd : \A k \in odd : j <= k
    BY <2>2, <2>3, LeastNumber
  <2>5. h[j] = IF j = 0 THEN Unread ELSE ReadOn(b, known, h[j - 1], days[j])
    <3>. HIDE DEF h
    <3>. QED  BY <1>4
  <2>6. w[j] = IF j = 0 THEN Unread ELSE ReadOn(b, known, w[j - 1], days[j])
    <3>. HIDE DEF w
    <3>. QED  BY <1>3
  <2>7. j # 0
    BY <2>4, <2>5, <2>6
  <2>8. j - 1 \in 0..n /\ ~(j <= j - 1)
    BY <2>4, <2>7
  <2>9. h[j - 1] = w[j - 1]
    BY <2>4, <2>8
  <2>10. h[j] # w[j]
    BY <2>4
  <2>. QED  BY <2>5, <2>6, <2>9, <2>10
<1>6. NetWorthSeries(b, known, days) = [i \in DOMAIN days |-> PointOf(b, h[i])]
  BY <1>1 DEF NetWorthSeries
<1>7. ASSUME NEW i \in DOMAIN days PROVE h[i] = Reading(b, known, days[i])
  <2>1. i \in 0..n /\ i # 0
    BY <1>1
  <2>2. w[i] = Reading(b, known, days[i])
    BY <2>1
  <2>. QED  BY <1>5, <2>1, <2>2
<1>. HIDE DEF h, w
<1>. QED  BY <1>6, <1>7

LEMMA PointAlone ==
  ASSUME NEW b \in Seq(Booked),
         NEW known \in SUBSET Rated, \A r, s \in known : SameKey(r, s) => r = s,
         NEW day \in Days
  PROVE  NetWorth(b, day, known) = PointOf(b, Reading(b, known, day))
<1>1. PICK days : days = <<day>>
  OBVIOUS
<1>2. Len(days) = 1 /\ DOMAIN days = 1..1 /\ days[1] = day
  BY <1>1
<1>3. Ascending(days)
  BY <1>1, <1>2 DEF Ascending
<1>4. NetWorthSeries(b, known, days)[1] = PointOf(b, Reading(b, known, days[1]))
  BY <1>2, <1>3, SeriesReads
<1>. QED  BY <1>1, <1>2, <1>4 DEF NetWorth

-----------------------------------------------------------------------------
(* The days of a series follow one another.                                *)

\* What climbs from each member to the next climbs all the way.
LEMMA Climbs ==
  ASSUME NEW s, NEW L \in Nat, \A i \in 1..L : s[i] \in Int, \A i \in 2..L : s[i - 1] < s[i]
  PROVE  \A i, j \in 1..L : i < j => s[i] < s[j]
<1>. SUFFICES ASSUME NEW i \in 1..L, NEW j \in 1..L, i < j
              PROVE  s[i] < s[j]
  OBVIOUS
<1>. DEFINE odd == {k \in 1..L : i < k /\ ~(s[i] < s[k])}
<1>1. SUFFICES ASSUME odd # {} PROVE FALSE
  OBVIOUS
<1>2. odd \in SUBSET Nat
  OBVIOUS
<1>3. PICK k \in odd : \A m \in odd : k <= m
  BY <1>1, <1>2, LeastNumber
<1>4. k \in 2..L /\ i < k /\ s[k - 1] < s[k] /\ ~(s[i] < s[k])
  BY <1>3
<1>5. k - 1 \in 1..L /\ k - 1 \notin odd
  BY <1>3, <1>4
<1>6. i = k - 1 \/ s[i] < s[k - 1]
  BY <1>4, <1>5
<1>. QED  BY <1>4, <1>5, <1>6

LEMMA MonthsFollow == \A i, j \in 1..Len(MonthStarts) : i < j => MonthStarts[i] < MonthStarts[j]
<1>1. /\ \A i \in 1..Len(MonthStarts) : MonthStarts[i] \in Int
      /\ Len(MonthStarts) \in Nat
      /\ \A i \in 2..Len(MonthStarts) : MonthStarts[i - 1] < MonthStarts[i]
  BY CalendarGiven
<1>. QED  BY <1>1, Climbs

LEMMA LargestIs ==
  ASSUME NEW S \in SUBSET Int, NEW n \in S, \A m \in S : m <= n
  PROVE  Max(S) = n
<1>1. \A m \in S : n >= m
  OBVIOUS
<1>2. PICK j : j = Max(S)
  OBVIOUS
<1>3. j \in S /\ \A m \in S : j >= m
  BY <1>1, <1>2 DEF Max
<1>4. j \in Int /\ n \in Int /\ j >= n /\ j <= n
  BY <1>3
<1>. QED  BY <1>2, <1>4

\* A step leads to a later day.
LEMMA StepIsLater ==
  ASSUME NEW day \in Days, NEW interval \in Intervals
  PROVE  StepDate(day, interval) \in Nat /\ day < StepDate(day, interval)
<1>1. day \in Nat /\ 1 <= day /\ day <= LastDay /\ LastDay \in Nat /\ Week \in Nat \ {0}
  BY CalendarGiven
<1>2. CASE interval = "day"
  BY <1>1, <1>2 DEF StepDate
<1>3. CASE interval = "week"
  BY <1>1, <1>3 DEF StepDate
<1>4. CASE interval = "month"
  <2>. DEFINE L == Len(MonthStarts)
              S == {j \in DOMAIN MonthStarts : MonthStarts[j] <= day}
  <2>1. L \in Nat /\ DOMAIN MonthStarts = 1..L /\ (\A j \in 1..L : MonthStarts[j] \in Nat) /\ MonthStarts[1] = 1
    BY CalendarGiven
  <2>2. PICK m \in 1..(L - 2) : MonthStarts[m] > LastDay
    BY CalendarGiven
  <2>3. \A j \in S : j < m
    <3>1. ASSUME NEW j \in S, ~(j < m) PROVE FALSE
      <4>1. j \in 1..L /\ m \in 1..L /\ (m = j \/ m < j)
        BY <2>1, <2>2, <3>1
      <4>2. MonthStarts[m] <= MonthStarts[j] /\ MonthStarts[j] <= day
        BY <2>1, <4>1, MonthsFollow
      <4>. QED  BY <1>1, <2>1, <2>2, <4>1, <4>2
    <3>. QED  BY <3>1
  <2>4. S \in SUBSET Int /\ 1 \in S /\ m \in Int /\ \A j \in S : j <= m
    BY <1>1, <2>1, <2>2, <2>3
  <2>5. PICK i \in S : \A j \in S : j <= i
    BY <2>4, GreatestNumber
  <2>6. Max(S) = i
    BY <2>4, <2>5, LargestIs
  <2>7. i < m /\ i \in 1..L /\ MonthStarts[i] <= day /\ i + 1 \in 1..L /\ i + 2 \in 1..L /\ i + 1 \notin S
    BY <2>1, <2>2, <2>3, <2>5
  <2>8. day < MonthStarts[i + 1]
    BY <1>1, <2>1, <2>7
  <2>9. MonthStarts[i] < MonthStarts[i + 1] /\ MonthStarts[i + 1] < MonthStarts[i + 2]
    BY <2>7, MonthsFollow
  <2>. DEFINE u == MonthStarts[i + 1] + day - MonthStarts[i]
              v == MonthStarts[i + 2] - 1
  <2>10. u \in Nat /\ v \in Nat /\ day < u /\ day < v
    BY <1>1, <2>1, <2>7, <2>8, <2>9
  <2>11. StepDate(day, interval) = Min({u, v})
    BY <1>4, <2>6 DEF StepDate
  <2>. HIDE DEF u, v
  <2>12. PICK t \in {u, v} : \A x \in {u, v} : t <= x
    BY <2>10
  <2>13. Min({u, v}) \in {u, v}
    BY <2>12 DEF Min
  <2>. QED  BY <2>10, <2>11, <2>13
<1>. QED  BY <1>2, <1>3, <1>4 DEF Intervals

\* The table that the days of a series are taken from.
IsCalendar(at, n, from, to, interval) ==
  at = [i \in 1..n |-> IF i = 1 THEN from ELSE IF at[i - 1] > to THEN at[i - 1] ELSE StepDate(at[i - 1], interval)]

LEMMA CalendarExists ==
  ASSUME NEW n \in Nat, NEW from, NEW to, NEW interval
  PROVE  \E at : IsCalendar(at, n, from, to, interval)
<1>. DEFINE Onward(at, i) == IF at[i - 1] > to THEN at[i - 1] ELSE StepDate(at[i - 1], interval)
            odd == {m \in Nat : ~ \E at : IsCalendar(at, m, from, to, interval)}
<1>1. SUFFICES ASSUME odd # {} PROVE FALSE
  OBVIOUS
<1>2. odd \in SUBSET Nat
  OBVIOUS
<1>3. PICK m \in odd : \A k \in odd : m <= k
  BY <1>1, <1>2, LeastNumber
<1>4. m # 0
  <2>1. 1..0 = {}
    OBVIOUS
  <2>2. PICK at : at = [i \in 1..0 |-> 0]
    OBVIOUS
  <2>3. IsCalendar(at, 0, from, to, interval)
    BY <2>1, <2>2 DEF IsCalendar
  <2>. QED  BY <1>3, <2>3
<1>5. m - 1 \in Nat /\ m - 1 \notin odd
  BY <1>3, <1>4
<1>6. PICK g : IsCalendar(g, m - 1, from, to, interval)
  BY <1>5
<1>7. g = [i \in 1..(m - 1) |-> IF i = 1 THEN from ELSE Onward(g, i)]
  BY <1>6 DEF IsCalendar
<1>8. PICK h : h = [i \in 1..m |-> IF i = 1 THEN from ELSE Onward(g, i)]
  OBVIOUS
<1>9. \A i \in 1..(m - 1) : h[i] = g[i]
  <2>1. \A i \in 1..(m - 1) : i \in 1..m
    BY <1>3
  <2>. HIDE DEF Onward
  <2>2. \A i \in 1..(m - 1) : g[i] = IF i = 1 THEN from ELSE Onward(g, i)
    BY <1>7
  <2>. QED  BY <1>8, <2>1, <2>2
<1>10. ASSUME NEW i \in 1..m, i # 1 PROVE Onward(g, i) = Onward(h, i)
  <2>1. i - 1 \in 1..(m - 1)
    BY <1>3, <1>10
  <2>2. h[i - 1] = g[i - 1]
    BY <1>9, <2>1
  <2>. QED  BY <2>2
<1>11. h = [i \in 1..m |-> IF i = 1 THEN from ELSE Onward(h, i)]
  <2>. HIDE DEF Onward
  <2>. QED  BY <1>8, <1>10
<1>12. IsCalendar(h, m, from, to, interval)
  BY <1>11 DEF IsCalendar
<1>. QED  BY <1>3, <1>12

LEMMA StepsFollow ==
  ASSUME NEW from \in Days, NEW to \in from..LastDay, NEW interval \in Intervals
  PROVE  /\ Ascending(Steps[<<from, to, interval>>])
         /\ Len(Steps[<<from, to, interval>>]) # 0 /\ Steps[<<from, to, interval>>][1] = from
         /\ \A i \in 1..Len(Steps[<<from, to, interval>>]) : Steps[<<from, to, interval>>][i] \in from..to
<1>1. from \in Nat /\ to \in Nat /\ from <= to /\ to <= LastDay /\ LastDay \in Nat /\ 1 <= from /\ to \in Days
  BY CalendarGiven
<1>0. PICK range : /\ range = <<from, to, interval>> /\ range \in Days \X Days \X Intervals
                   /\ range[1] = from /\ range[2] = to /\ range[3] = interval
  <2>1. <<from, to, interval>> \in Days \X Days \X Intervals
    BY <1>1
  <2>2. PICK range : range = <<from, to, interval>>
    OBVIOUS
  <2>3. range[1] = from /\ range[2] = to /\ range[3] = interval
    BY <2>2
  <2>. QED  BY <2>1, <2>2, <2>3
<1>. DEFINE Drawn(g) == [i \in 1..LastDay |->
              IF i = 1 THEN range[1] ELSE IF g[i - 1] > range[2] THEN g[i - 1] ELSE StepDate(g[i - 1], range[3])]
            at == CHOOSE g : g = Drawn(g)
            S == {0} \cup {j \in 1..LastDay : at[j] <= to}
<1>2. Steps[<<from, to, interval>>] = [i \in 1..Max(S) |-> at[i]]
  <2>1. Steps[range] = [i \in 1..Max({0} \cup {j \in 1..LastDay : at[j] <= range[2]}) |-> at[i]]
    BY <1>0 DEF Steps
  <2>. HIDE DEF at
  <2>. QED  BY <1>0, <2>1
<1>3. IsCalendar(at, LastDay, from, to, interval)
  <2>1. PICK g : IsCalendar(g, LastDay, from, to, interval)
    BY <1>1, CalendarExists
  <2>2. \A f : IsCalendar(f, LastDay, from, to, interval) <=> f = Drawn(f)
    BY <1>0 DEF IsCalendar
  <2>3. g = Drawn(g)
    BY <2>1, <2>2
  <2>. HIDE DEF Drawn
  <2>4. at = Drawn(at)
    BY <2>3
  <2>. QED  BY <2>2, <2>4
<1>4. \A i \in 1..LastDay : at[i] = IF i = 1 THEN from
        ELSE IF at[i - 1] > to THEN at[i - 1] ELSE StepDate(at[i - 1], interval)
  <2>. HIDE DEF at
  <2>. QED  BY <1>3 DEF IsCalendar
<1>. HIDE DEF at
<1>5. ASSUME NEW i \in 2..LastDay, at[i - 1] \in Nat, from <= at[i - 1]
      PROVE  /\ at[i] \in Nat /\ from <= at[i]
             /\ at[i] <= to => at[i - 1] < at[i]
  <2>0. at[i] = IF at[i - 1] > to THEN at[i - 1] ELSE StepDate(at[i - 1], interval)
    <3>1. i \in 1..LastDay /\ i # 1
      OBVIOUS
    <3>. QED  BY <1>4, <3>1
  <2>1. CASE at[i - 1] > to
    <3>1. at[i] = at[i - 1]
      BY <2>0, <2>1
    <3>. QED  BY <1>1, <1>5, <2>1, <3>1
  <2>2. CASE ~(at[i - 1] > to)
    <3>1. at[i] = StepDate(at[i - 1], interval)
      BY <2>0, <2>2
    <3>2. at[i - 1] \in 1..LastDay
      BY <1>1, <1>5, <2>2
    <3>3. at[i - 1] \in Days
      BY <3>2, CalendarGiven
    <3>4. at[i] \in Nat /\ at[i - 1] < at[i]
      BY <3>1, <3>3, StepIsLater
    <3>. QED  BY <1>1, <1>5, <3>4
  <2>. QED  BY <2>1, <2>2
<1>6. 1 \in 1..LastDay /\ at[1] = from
  BY <1>1, <1>4
<1>7. \A i \in 1..LastDay : at[i] \in Nat /\ from <= at[i]
  <2>. DEFINE odd == {i \in 1..LastDay : ~(at[i] \in Nat /\ from <= at[i])}
  <2>1. SUFFICES ASSUME odd # {} PROVE FALSE
    OBVIOUS
  <2>2. odd \in SUBSET Nat
    OBVIOUS
  <2>3. PICK k \in odd : \A m \in odd : k <= m
    BY <2>1, <2>2, LeastNumber
  <2>4. k # 1
    BY <1>1, <1>6, <2>3
  <2>5. k \in 2..LastDay /\ k - 1 \in 1..LastDay /\ k - 1 \notin odd
    BY <1>1, <2>3, <2>4
  <2>6. at[k - 1] \in Nat /\ from <= at[k - 1]
    BY <2>5
  <2>. QED  BY <1>5, <2>3, <2>5, <2>6
<1>8. \A i \in 2..LastDay : at[i] <= to => at[i - 1] < at[i]
  <2>1. ASSUME NEW i \in 2..LastDay PROVE at[i] <= to => at[i - 1] < at[i]
    <3>1. i - 1 \in 1..LastDay
      BY <1>1
    <3>. QED  BY <1>5, <1>7, <3>1
  <2>. QED  BY <2>1
<1>9. S \in SUBSET Int /\ S # {} /\ 1 \in S /\ LastDay \in Int /\ \A j \in S : j <= LastDay
  BY <1>1, <1>6
<1>10. PICK n \in S : \A j \in S : j <= n
  BY <1>9, GreatestNumber
<1>11. Max(S) = n
  BY <1>9, <1>10, LargestIs
<1>12. n \in 1..LastDay /\ at[n] <= to
  BY <1>9, <1>10
<1>13. ASSUME NEW i \in 1..n PROVE at[i] <= to
  <2>. DEFINE odd == {k \in Nat : k <= n - 1 /\ ~(at[n - k] <= to)}
  <2>1. SUFFICES ASSUME odd # {} PROVE FALSE
    <3>1. n - i \in Nat /\ n - i <= n - 1 /\ n - (n - i) = i
      BY <1>12
    <3>. QED  BY <3>1
  <2>2. odd \in SUBSET Nat
    OBVIOUS
  <2>3. PICK k \in odd : \A m \in odd : k <= m
    BY <2>1, <2>2, LeastNumber
  <2>4. k # 0
    <3>1. k = 0 => n - k = n
      BY <1>12
    <3>. QED  BY <1>12, <2>3, <3>1
  <2>5. k - 1 \in Nat /\ k - 1 <= n - 1 /\ k - 1 \notin odd
    BY <1>12, <2>3, <2>4
  <2>6. at[n - (k - 1)] <= to
    BY <2>5
  <2>7. PICK j \in 2..LastDay : j = n - (k - 1) /\ j - 1 = n - k
    <3>1. k \in Nat /\ k # 0 /\ k <= n - 1 /\ n \in Nat /\ n <= LastDay
      BY <1>12, <2>3, <2>4
    <3>2. n - (k - 1) \in 2..LastDay /\ n - (k - 1) - 1 = n - k
      BY <1>1, <3>1
    <3>. QED  BY <3>2
  <2>8. j \in 1..LastDay /\ j - 1 \in 1..LastDay
    BY <1>1
  <2>9. at[j - 1] < at[j] /\ at[j] <= to /\ at[j] \in Nat /\ at[j - 1] \in Nat
    BY <1>7, <1>8, <2>6, <2>7, <2>8
  <2>. QED  BY <1>1, <2>3, <2>7, <2>9
<1>14. PICK days : days = Steps[<<from, to, interval>>]
  OBVIOUS
<1>15. days = [i \in 1..n |-> at[i]]
  BY <1>2, <1>11, <1>14
<1>16. Len(days) = n /\ DOMAIN days = 1..n /\ \A i \in 1..n : days[i] = at[i]
  <2>1. n \in Nat
    BY <1>12
  <2>. HIDE DEF S
  <2>. QED  BY <1>15, <2>1
<1>17. \A i \in 1..n : days[i] \in from..to /\ days[i] \in Days
  <2>1. ASSUME NEW i \in 1..n PROVE at[i] \in from..to
    <3>1. i \in 1..LastDay
      BY <1>1, <1>12
    <3>. QED  BY <1>1, <1>7, <1>13, <3>1
  <2>2. \A x \in from..to : x \in Days
    BY <1>1, CalendarGiven
  <2>. QED  BY <1>16, <2>1, <2>2
<1>18. \A i \in 2..n : days[i - 1] < days[i]
  <2>1. ASSUME NEW i \in 2..n PROVE at[i - 1] < at[i]
    <3>1. i \in 2..LastDay /\ i \in 1..n
      BY <1>1, <1>12
    <3>. QED  BY <1>8, <1>13, <3>1
  <2>2. \A i \in 2..n : i \in 1..n /\ i - 1 \in 1..n
    OBVIOUS
  <2>. QED  BY <1>16, <2>1, <2>2
<1>19. n \in Nat /\ n # 0 /\ 1 \in 1..n
  BY <1>12
<1>20. days \in Seq(Days)
  <2>. HIDE DEF S
  <2>1. \A i \in 1..n : at[i] \in Days
    BY <1>16, <1>17
  <2>. QED  BY <1>15, <1>19, <2>1
<1>21. Ascending(days)
  BY <1>16, <1>18, <1>20 DEF Ascending
<1>. QED  BY <1>6, <1>14, <1>16, <1>17, <1>19, <1>21

LEMMA SamplesFollow ==
  ASSUME NEW from \in Days, NEW to \in from..LastDay, NEW interval \in Intervals
  PROVE  Ascending(Samples(from, to, interval))
<1>1. PICK days : days = Steps[<<from, to, interval>>]
  OBVIOUS
<1>2. /\ Ascending(days) /\ Len(days) # 0
      /\ \A i \in 1..Len(days) : days[i] \in from..to
  BY <1>1, StepsFollow
<1>3. PICK n \in Nat : n = Len(days) /\ DOMAIN days = 1..n
  BY <1>2 DEF Ascending
<1>4. CASE days[n] = to
  BY <1>1, <1>2, <1>3, <1>4 DEF Samples
<1>5. CASE days[n] # to
  <2>1. PICK more : more = Append(days, to)
    OBVIOUS
  <2>2. days \in Seq(Days)
    BY <1>2 DEF Ascending
  <2>3. /\ Len(more) = n + 1 /\ DOMAIN more = 1..(n + 1)
        /\ more[n + 1] = to /\ \A i \in 1..n : more[i] = days[i]
    BY <1>3, <2>1, <2>2
  <2>4. to \in Days /\ to \in Int /\ from \in Int
    BY CalendarGiven
  <2>5. days[n] \in Int /\ days[n] < to
    BY <1>2, <1>3, <1>5, <2>4
  <2>7. ASSUME NEW i \in 2..(n + 1) PROVE more[i - 1] < more[i]
    <3>1. CASE i = n + 1
      BY <1>2, <1>3, <2>3, <2>5, <3>1
    <3>2. CASE i # n + 1
      <4>1. i \in 2..n /\ i \in 1..n /\ i - 1 \in 1..n
        BY <3>2
      <4>. QED  BY <1>2, <1>3, <2>3, <4>1 DEF Ascending
    <3>. QED  BY <3>1, <3>2
  <2>8. Ascending(more)
    BY <2>2, <2>1, <2>3, <2>4, <2>7 DEF Ascending
  <2>. QED  BY <1>1, <1>3, <1>5, <2>1, <2>8 DEF Samples
<1>. QED  BY <1>4, <1>5

-----------------------------------------------------------------------------
(* A point of the series depends on nothing that is dated later.           *)

\* phi numbers some of the rows of book, in their order: b keeps those rows.
Kept(b, S, K, phi) ==
  /\ S \in SUBSET DOMAIN book /\ K \in Nat /\ phi \in [1..K -> S]
  /\ \A n \in S : \E k \in 1..K : phi[k] = n
  /\ \A j, k \in 1..K : j < k <=> phi[j] < phi[k]
  /\ b = [k \in 1..K |-> book[phi[k]]]

LEMMA KeptIs ==
  ASSUME book \in Seq(Booked), NEW b, NEW S, NEW K, NEW phi, Kept(b, S, K, phi)
  PROVE  /\ b \in Seq(Booked) /\ DOMAIN b = 1..K
         /\ \A k \in 1..K : /\ b[k] = book[phi[k]] /\ phi[k] \in S
                            /\ phi[k] \in DOMAIN book /\ phi[k] \in Nat
         /\ \A j, k \in 1..K : phi[j] = phi[k] => j = k
<1>1. K \in Nat /\ phi \in [1..K -> S] /\ S \in SUBSET DOMAIN book /\ b = [k \in 1..K |-> book[phi[k]]]
  BY DEF Kept
<1>2. \A n \in DOMAIN book : n \in Nat /\ book[n] \in Booked
  OBVIOUS
<1>3. \A k \in 1..K : phi[k] \in S /\ phi[k] \in DOMAIN book /\ phi[k] \in Nat
  BY <1>1, <1>2
<1>4. \A k \in 1..K : book[phi[k]] \in Booked
  BY <1>2, <1>3
<1>5. b \in Seq(Booked) /\ DOMAIN b = 1..K
  BY <1>1, <1>4
<1>6. ASSUME NEW j \in 1..K, NEW k \in 1..K, phi[j] = phi[k] PROVE j = k
  <2>1. phi[j] \in Int /\ ~(phi[j] < phi[k]) /\ ~(phi[k] < phi[j])
    BY <1>3, <1>6
  <2>2. ~(j < k) /\ ~(k < j) /\ j \in Int /\ k \in Int
    BY <2>1 DEF Kept
  <2>. QED  BY <2>2
<1>. QED  BY <1>1, <1>3, <1>5, <1>6

\* A sum over rows that are kept.
LEMMA AmountIsKept ==
  ASSUME book \in Seq(Booked), NEW b, NEW S, NEW K, NEW phi, Kept(b, S, K, phi),
         NEW U \in SUBSET S, NEW V, V = {k \in 1..K : phi[k] \in U}
  PROVE  Amount(b, V) = Amount(book, U)
<1>1. /\ b \in Seq(Booked) /\ DOMAIN b = 1..K
      /\ \A k \in 1..K : /\ b[k] = book[phi[k]] /\ phi[k] \in S
                         /\ phi[k] \in DOMAIN book /\ phi[k] \in Nat
      /\ \A j, k \in 1..K : phi[j] = phi[k] => j = k
  BY KeptIs
<1>2. U \in SUBSET DOMAIN book /\ V \in SUBSET DOMAIN b
  BY <1>1 DEF Kept
<1>3. /\ IsFiniteSet(U) /\ Amount(book, U) = SumOn(AmountsIn(book), U)
      /\ \A n \in U : AmountsIn(book)[n] \in Int
  BY <1>2, AmountIsSum
<1>4. /\ IsFiniteSet(V) /\ Amount(b, V) = SumOn(AmountsIn(b), V)
      /\ \A k \in V : AmountsIn(b)[k] \in Int
  BY <1>1, <1>2, AmountIsSum
<1>5. \A k \in V : phi[k] \in U
  OBVIOUS
<1>6. ASSUME NEW n \in U
      PROVE  \E k \in V : /\ phi[k] = n /\ AmountsIn(book)[n] = AmountsIn(b)[k]
                          /\ \A j \in V : phi[j] = n => j = k
  <2>1. n \in S /\ n \in DOMAIN book
    BY <1>2
  <2>2. PICK k \in 1..K : phi[k] = n
    BY <2>1 DEF Kept
  <2>3. k \in V /\ \A j \in V : phi[j] = n => j = k
    BY <1>1, <2>2
  <2>4. AmountsIn(b)[k] = AmountsIn(book)[n]
    BY <1>1, <2>1, <2>2 DEF AmountsIn
  <2>. QED  BY <2>2, <2>3, <2>4
<1>7. SumOn(AmountsIn(book), U) = SumOn(AmountsIn(b), V)
  <2>1. PICK f, g : f = AmountsIn(b) /\ g = AmountsIn(book)
    OBVIOUS
  <2>2. PICK W, psi : W = V /\ psi = phi
    OBVIOUS
  <2>3. \A k \in W : f[k] \in Int
    BY <1>4, <2>1, <2>2
  <2>4. \A k \in W : psi[k] \in U
    BY <1>5, <2>2
  <2>5. \A n \in U : \E k \in W : psi[k] = n /\ g[n] = f[k] /\ \A j \in W : psi[j] = n => j = k
    BY <1>6, <2>1, <2>2
  <2>6. IsFiniteSet(U) /\ IsFiniteSet(W)
    BY <1>3, <1>4, <2>2
  <2>7. SumOn(g, U) = SumOn(f, W)
    BY <2>3, <2>4, <2>5, <2>6, SumRenamed
  <2>. QED  BY <2>1, <2>2, <2>7
<1>. QED  BY <1>3, <1>4, <1>7

\* The rows of an account, among those that are kept.
LEMMA RowsAreKept ==
  ASSUME book \in Seq(Booked), NEW b, NEW K, NEW phi, NEW day \in Int,
         Kept(b, {n \in DOMAIN book : book[n].row.day <= day}, K, phi),
         NEW a, NEW d \in Int, d <= day
  PROVE  /\ AnchorsBy(b, a, d) = {k \in 1..K : phi[k] \in AnchorsBy(book, a, d)}
         /\ Through(b, a, d) = {k \in 1..K : phi[k] \in Through(book, a, d)}
         /\ AnchorsBy(book, a, d) \in SUBSET {n \in DOMAIN book : book[n].row.day <= day}
         /\ Through(book, a, d) \in SUBSET {n \in DOMAIN book : book[n].row.day <= day}
<1>1. /\ DOMAIN b = 1..K
      /\ \A k \in 1..K : b[k] = book[phi[k]] /\ phi[k] \in DOMAIN book
  BY KeptIs
<1>2. \A n \in DOMAIN book : book[n].row.day \in Int
  BY RowTyped
<1>3. AnchorsBy(b, a, d) = {k \in 1..K : phi[k] \in AnchorsBy(book, a, d)}
  BY <1>1 DEF AnchorsBy
<1>4. Through(b, a, d) = {k \in 1..K : phi[k] \in Through(book, a, d)}
  BY <1>1 DEF Through, FlowOf
<1>5. \A n \in DOMAIN book : book[n].row.day <= d => book[n].row.day <= day
  BY <1>2
<1>. QED  BY <1>3, <1>4, <1>5 DEF AnchorsBy, Through, FlowOf

LEMMA NativeIsKept ==
  ASSUME book \in Seq(Booked), NEW b, NEW K, NEW phi, NEW day \in Int, NEW known, NEW all,
         Kept(b, {n \in DOMAIN book : book[n].row.day <= day}, K, phi),
         NEW a \in Accounts, AnchorsBy(book, a, day) # {}
  PROVE  NativeOf(b, Reading(b, known, day), a) = NativeOf(book, Reading(book, all, day), a)
<1>. DEFINE S == {n \in DOMAIN book : book[n].row.day <= day}
<1>1. /\ b \in Seq(Booked) /\ DOMAIN b = 1..K
      /\ \A k \in 1..K : b[k] = book[phi[k]] /\ phi[k] \in S /\ phi[k] \in DOMAIN book /\ phi[k] \in Nat
  BY KeptIs
<1>2. PICK A \in SUBSET DOMAIN book : A = AnchorsBy(book, a, day)
  BY RowSets
<1>3. PICK n : n = InForce(book, A)
  OBVIOUS
<1>4. Leads(book, A, n) /\ n \in A /\ A # {}
  BY <1>2, <1>3, InForceLeads DEF Leads
<1>5. n \in S /\ n \in DOMAIN book /\ n \in Nat /\ book[n].row.day \in Int /\ book[n].row.day <= day
  BY <1>2, <1>4, RowTyped DEF AnchorsBy
<1>6. PICK d \in Int : d = book[n].row.day /\ d <= day
  BY <1>5
<1>7. PICK k \in 1..K : phi[k] = n
  BY <1>5 DEF Kept
<1>8. /\ AnchorsBy(b, a, day) = {j \in 1..K : phi[j] \in A}
      /\ Through(b, a, day) = {j \in 1..K : phi[j] \in Through(book, a, day)}
      /\ Through(book, a, day) \in SUBSET S
  <2>1. day <= day
    OBVIOUS
  <2>. QED  BY <1>2, <2>1, RowsAreKept
<1>9. /\ Through(b, a, d) = {j \in 1..K : phi[j] \in Through(book, a, d)}
      /\ Through(book, a, d) \in SUBSET S
  BY <1>6, RowsAreKept
<1>10. PICK B \in SUBSET DOMAIN b : B = AnchorsBy(b, a, day) /\ B = {j \in 1..K : phi[j] \in A}
  BY <1>1, <1>8
<1>11. ASSUME NEW j \in B
       PROVE  b[j].row.day < b[k].row.day \/ (b[j].row.day = b[k].row.day /\ j <= k)
  <2>1. j \in 1..K /\ phi[j] \in A
    BY <1>10
  <2>2. book[phi[j]].row.day < book[n].row.day \/ (book[phi[j]].row.day = book[n].row.day /\ phi[j] <= n)
    BY <1>4, <2>1 DEF Leads
  <2>3. phi[j] <= phi[k] => j <= k
    <3>1. phi[j] \in Nat /\ phi[k] \in Nat /\ (k < j <=> phi[k] < phi[j])
      BY <1>1, <2>1 DEF Kept
    <3>. QED  BY <2>1, <3>1
  <2>. QED  BY <1>1, <1>7, <2>1, <2>2, <2>3
<1>12. k \in B
  BY <1>4, <1>7, <1>10
<1>13. Leads(b, B, k)
  BY <1>11, <1>12 DEF Leads
<1>14. InForce(b, B) = k
  BY <1>1, <1>13, OneLeads
<1>15. b[k] = book[n]
  BY <1>1, <1>7
<1>16. Amount(b, Through(b, a, day)) = Amount(book, Through(book, a, day))
  BY <1>8, AmountIsKept
<1>17. Amount(b, Through(b, a, d)) = Amount(book, Through(book, a, d))
  BY <1>9, AmountIsKept
<1>18. Amount(b, Backdated(b, a, k)) = Amount(book, Backdated(book, a, n))
  <2>1. Backdated(b, a, k) = {j \in Through(b, a, d) : j > k}
    BY <1>6, <1>15 DEF Backdated
  <2>2. Backdated(book, a, n) = {m \in Through(book, a, d) : m > n}
    BY <1>6 DEF Backdated
  <2>3. \A j \in 1..K : j > k <=> phi[j] > n
    <3>1. ASSUME NEW j \in 1..K PROVE j > k <=> phi[j] > n
      <4>1. k < j <=> phi[k] < phi[j]
        BY DEF Kept
      <4>. QED  BY <1>1, <1>7, <4>1
    <3>. QED  BY <3>1
  <2>4. Backdated(b, a, k) = {j \in 1..K : phi[j] \in Backdated(book, a, n)}
    BY <1>9, <2>1, <2>2, <2>3
  <2>5. Backdated(book, a, n) \in SUBSET S
    BY <1>9, <2>2
  <2>. QED  BY <2>4, <2>5, AmountIsKept
<1>19. PICK r : r = Reading(book, all, day)
  OBVIOUS
<1>20. r.active[a] = n /\ r.through[a] = Amount(book, Through(book, a, day))
  BY <1>2, <1>3, <1>4, <1>19 DEF Reading
<1>21. PICK s : s = Reading(b, known, day)
  OBVIOUS
<1>22. s.active[a] = k /\ s.through[a] = Amount(b, Through(b, a, day))
  BY <1>10, <1>12, <1>14, <1>21 DEF Reading
<1>23. n # 0 /\ k # 0
  BY <1>4, <1>2
<1>24. NativeOf(book, r, a) = book[n].row.amount + Amount(book, Through(book, a, day))
         - Amount(book, Through(book, a, d)) + Amount(book, Backdated(book, a, n))
  BY <1>6, <1>20, <1>23 DEF NativeOf
<1>25. NativeOf(b, s, a) = b[k].row.amount + Amount(b, Through(b, a, day))
         - Amount(b, Through(b, a, d)) + Amount(b, Backdated(b, a, k))
  BY <1>6, <1>15, <1>22, <1>23 DEF NativeOf
<1>. QED  BY <1>15, <1>16, <1>17, <1>18, <1>19, <1>21, <1>24, <1>25

\* What is booked, and known, by a day.
PastBook(day) ==
  LET ns == InOrder({n \in DOMAIN book : book[n].row.day <= day})
  IN [k \in DOMAIN ns |-> book[ns[k]]]
PastRates(day) == {r \in rates : r.day <= day}

LEMMA PastIsKept ==
  ASSUME book \in Seq(Booked), NEW day
  PROVE  \E K, phi : Kept(PastBook(day), {n \in DOMAIN book : book[n].row.day <= day}, K, phi)
<1>. DEFINE S == {n \in DOMAIN book : book[n].row.day <= day}
            K == Cardinality(S)
            phi == InOrder(S)
<1>1. IsFiniteSet(S) /\ S \in SUBSET Int
  <2>1. IsFiniteSet(DOMAIN book)
    BY FS_Interval
  <2>2. S \in SUBSET DOMAIN book /\ DOMAIN book \in SUBSET Int
    OBVIOUS
  <2>. QED  BY <2>1, <2>2, FS_Subset
<1>. HIDE DEF S, K, phi
<1>2. /\ K \in Nat /\ phi \in [1..K -> S]
      /\ \A n \in S : \E k \in 1..K : phi[k] = n
  <2>1. /\ Cardinality(S) \in Nat /\ InOrder(S) \in [1..Cardinality(S) -> S]
        /\ \A n \in S : Rank(S, n) \in 1..Cardinality(S) /\ InOrder(S)[Rank(S, n)] = n
    BY <1>1, InOrderIsBijection
  <2>. QED  BY <2>1 DEF K, phi
<1>3. \A j, k \in 1..K : j < k <=> phi[j] < phi[k]
  BY <1>1, InOrderAscends DEF K, phi
<1>4. PastBook(day) = [k \in 1..K |-> book[phi[k]]]
  <2>1. DOMAIN phi = 1..K
    BY <1>2
  <2>. QED  BY <2>1 DEF PastBook, phi, S
<1>5. S \in SUBSET DOMAIN book
  BY DEF S
<1>6. Kept(PastBook(day), S, K, phi)
  BY <1>2, <1>3, <1>4, <1>5 DEF Kept
<1>. QED  BY <1>6 DEF S

LEMMA PointIsPast ==
  ASSUME BookInv, NEW day \in Days, \A a \in Accounts : AnchorsBy(book, a, day) # {}
  PROVE  NetWorth(book, day, rates) = NetWorth(PastBook(day), day, PastRates(day))
<1>1. book \in Seq(Booked) /\ rates \in SUBSET Rated /\ \A r, s \in rates : SameKey(r, s) => r = s
  BY DEF BookInv, ReportTypes, OneRateADay
<1>2. PICK known : known = PastRates(day) /\ known \in SUBSET Rated /\ \A r, s \in known : SameKey(r, s) => r = s
  BY <1>1 DEF PastRates
<1>3. PICK b : b = PastBook(day)
  OBVIOUS
<1>4. PICK K, phi : Kept(b, {n \in DOMAIN book : book[n].row.day <= day}, K, phi)
  BY <1>1, <1>3, PastIsKept
<1>5. b \in Seq(Booked) /\ day \in Int
  BY <1>1, <1>4, KeptIs, CalendarGiven
<1>6. \A a \in Accounts : NativeOf(b, Reading(b, known, day), a) = NativeOf(book, Reading(book, rates, day), a)
  BY <1>1, <1>4, <1>5, NativeIsKept
<1>7. Reading(b, known, day).rate = Reading(book, rates, day).rate
  <2>1. \A c : Dated(known, c, base, day) = Dated(rates, c, base, day)
    BY <1>2 DEF Dated, PastRates
  <2>. QED  BY <2>1 DEF Reading
<1>8. PointOf(b, Reading(b, known, day)) = PointOf(book, Reading(book, rates, day))
  BY <1>6, <1>7 DEF PointOf
<1>9. NetWorth(book, day, rates) = PointOf(book, Reading(book, rates, day))
  BY <1>1, PointAlone
<1>10. NetWorth(b, day, known) = PointOf(b, Reading(b, known, day))
  BY <1>2, <1>5, PointAlone
<1>. QED  BY <1>2, <1>3, <1>8, <1>9, <1>10

LEMMA SeriesTells == ASSUME BookInv, RowsInv PROVE SeriesIsAsOfItsDay
<1>. DEFINE alone == [day \in Days |-> NetWorth(book, day, rates)]
            today == ReadOn(book, rates, Unread, Today)
<1>1. book \in Seq(Booked) /\ rates \in SUBSET Rated /\ \A r, s \in rates : SameKey(r, s) => r = s
  BY DEF BookInv, ReportTypes, OneRateADay
<1>2. ASSUME NEW from \in Days \ {LastDay}, NEW interval \in Intervals
      PROVE  NetWorthReport(from, LastDay, interval)
             = [i \in DOMAIN Samples(from, LastDay, interval) |-> alone[Samples(from, LastDay, interval)[i]]]
  <2>1. PICK days : days = Samples(from, LastDay, interval)
    OBVIOUS
  <2>2. LastDay \in from..LastDay
    BY CalendarGiven
  <2>3. Ascending(days)
    BY <2>1, <2>2, SamplesFollow
  <2>4. NetWorthSeries(book, rates, days) = [i \in DOMAIN days |-> PointOf(book, Reading(book, rates, days[i]))]
    BY <1>1, <2>3, SeriesReads
  <2>5. \A i \in DOMAIN days : days[i] \in Days
    BY <2>3 DEF Ascending
  <2>6. \A day \in Days : alone[day] = PointOf(book, Reading(book, rates, day))
    BY <1>1, PointAlone
  <2>. HIDE DEF alone
  <2>7. NetWorthSeries(book, rates, days) = [i \in DOMAIN days |-> alone[days[i]]]
    BY <2>4, <2>5, <2>6
  <2>. QED  BY <2>1, <2>7 DEF NetWorthReport
<1>3. ASSUME NEW day \in Days, \A a \in Accounts : AnchorsBy(book, a, day) # {}
      PROVE  alone[day] = NetWorth(PastBook(day), day, PastRates(day))
  BY <1>3, PointIsPast
<1>4. \A a \in Accounts :
        Canonical(a) = NativeOf(book, today, a) + Amount(book, Astray(a, InForce(book, AnchorsBy(book, a, Today))))
  BY TodayIsCanonical
<1>. HIDE DEF alone, today
<1>5. \A from \in Days \ {LastDay}, interval \in Intervals :
          LET days == Samples(from, LastDay, interval) IN
          NetWorthReport(from, LastDay, interval) = [i \in DOMAIN days |-> alone[days[i]]]
  BY <1>2
<1>6. \A day \in Days :
          LET known == {r \in rates : r.day <= day}
              ns == InOrder({n \in DOMAIN book : book[n].row.day <= day})
              past == [k \in DOMAIN ns |-> book[ns[k]]]
          IN (\A a \in Accounts : AnchorsBy(book, a, day) # {}) =>
               alone[day] = NetWorth(past, day, known)
  BY <1>3 DEF PastBook, PastRates
<1>7. \A a \in Accounts :
          LET n == InForce(book, AnchorsBy(book, a, Today))
              astray == {m \in FlowOf(book, a) :
                \/ book[m].row.day > Today
                \/ book[m].row.day = book[n].row.day /\ book[m].row.clock /\ m < n}
          IN Canonical(a) = NativeOf(book, today, a) + Amount(book, astray)
  BY <1>4 DEF Astray
<1>. QED  BY <1>5, <1>6, <1>7 DEF SeriesIsAsOfItsDay, alone, today

-----------------------------------------------------------------------------
(* What splitting an amount moves.                                         *)

LEMMA Divided ==
  ASSUME NEW a \in Nat, NEW d \in Nat \ {0}
  PROVE  \E q \in Nat, r \in Nat : q = a \div d /\ r = a % d /\ r < d /\ a = d * q + r
<1>1. a % d \in Nat /\ a % d < d
  OBVIOUS
<1>2. a \div d \in Nat
  OBVIOUS
<1>3. a % d = a - d * (a \div d)
  OBVIOUS
<1>4. PICK q \in Nat, r \in Nat : q = a \div d /\ r = a % d
  BY <1>1, <1>2
<1>5. r = a - d * q
  BY <1>3, <1>4
<1>6. PICK y \in Int : y = d * q
  OBVIOUS
<1>7. a = d * q + r
  BY <1>5, <1>6
<1>. QED  BY <1>1, <1>4, <1>7

\* What is rounded half to even is at most half a unit off, on either side of zero.
LEMMA HalfEvenIsNear ==
  ASSUME NEW a \in Int, NEW d \in Nat \ {0}
  PROVE  /\ HalfEven(a, d) \in Int
         /\ 2 * (d * HalfEven(a, d)) <= 2 * a + d
         /\ 2 * a <= 2 * (d * HalfEven(a, d)) + d
         /\ a >= 0 => HalfEven(a, d) >= 0
         /\ a = 0 => HalfEven(a, d) = 0
         /\ HalfEven(-a, d) = -HalfEven(a, d)
<1>1. PICK n \in Nat : n = Abs(a) /\ n = Abs(-a) /\ (a >= 0 => n = a) /\ (a < 0 => n = -a)
  BY DEF Abs
<1>2. PICK q \in Nat, r \in Nat : q = n \div d /\ r = n % d /\ r < d /\ n = d * q + r
  BY Divided
<1>3. PICK up \in Nat : up = IF 2 * r > d \/ (2 * r = d /\ q % 2 = 1) THEN q + 1 ELSE q
  OBVIOUS
<1>4. HalfEven(a, d) = (IF a < 0 THEN -up ELSE up) /\ HalfEven(-a, d) = IF -a < 0 THEN -up ELSE up
  BY <1>1, <1>2, <1>3 DEF HalfEven
<1>5. PICK y \in Nat : y = d * q
  OBVIOUS
<1>6. PICK z \in Nat : z = d * up /\ d * (-up) = -z
  BY Distributed
<1>7. z = y \/ z = y + d
  BY <1>3, <1>5, <1>6, Distributed
<1>8. 2 * z <= 2 * n + d /\ 2 * n <= 2 * z + d
  <2>1. CASE 2 * r > d \/ (2 * r = d /\ q % 2 = 1)
    <3>1. z = y + d /\ 2 * r >= d
      <4>1. up = q + 1
        BY <1>3, <2>1
      <4>2. d * (q + 1) = d * q + d
        OBVIOUS
      <4>. QED  BY <1>5, <1>6, <2>1, <4>1, <4>2
    <3>. QED  BY <1>2, <1>5, <3>1
  <2>2. CASE ~(2 * r > d \/ (2 * r = d /\ q % 2 = 1))
    <3>1. z = y
      BY <1>3, <1>5, <1>6, <2>2
    <3>2. 2 * r <= d
      BY <2>2
    <3>. QED  BY <1>2, <1>5, <3>1, <3>2
  <2>. QED  BY <2>1, <2>2
<1>9. n = 0 => up = 0
  <2>1. n = 0 => r = 0 /\ q = 0
    BY <1>2
  <2>. QED  BY <1>3, <2>1
<1>10. CASE a < 0
  BY <1>1, <1>4, <1>6, <1>8, <1>10
<1>11. CASE a >= 0
  BY <1>1, <1>4, <1>6, <1>8, <1>9, <1>11
<1>. QED  BY <1>10, <1>11

\* A whole number of units is not rounded.
LEMMA HalfEvenIsExact ==
  ASSUME NEW x \in Int, NEW d \in Nat \ {0}
  PROVE  HalfEven(x * d, d) = x
<1>1. PICK h \in Int : h = HalfEven(x * d, d) /\ 2 * (d * h) <= 2 * (x * d) + d /\ 2 * (x * d) <= 2 * (d * h) + d
  <2>1. x * d \in Int
    OBVIOUS
  <2>. QED  BY <2>1, HalfEvenIsNear
<1>2. PICK y \in Int, z \in Int : y = d * h /\ z = d * x /\ x * d = z
  OBVIOUS
<1>3. 2 * y <= 2 * z + d /\ 2 * z <= 2 * y + d
  BY <1>1, <1>2
<1>4. d * (2 * (h - x)) = 2 * (y - z) /\ d * (2 * (x - h)) = 2 * (z - y)
  BY <1>2, Distributed, Doubled
<1>5. d < d * (1 + 1)
  OBVIOUS
<1>6. 2 * (h - x) <= 1
  BY <1>3, <1>4, <1>5, ErrorIsSmall
<1>7. 2 * (x - h) <= 1
  BY <1>3, <1>4, <1>5, ErrorIsSmall
<1>. QED  BY <1>1, <1>6, <1>7

\* Rounding the parts, and adding them up, is near what adding them up is.
LEMMA PartsAreNear ==
  ASSUME NEW N, IsFiniteSet(N), NEW d \in Nat \ {0}, NEW m \in Nat,
         NEW a, \A i \in N : a[i] \in Nat, NEW h, \A i \in N : h[i] = HalfEven(a[i] * m, d)
  PROVE  /\ SumOn(a, N) \in Nat /\ SumOn(h, N) \in Int /\ Cardinality(N) \in Nat
         /\ 2 * (d * SumOn(h, N)) <= 2 * (SumOn(a, N) * m) + d * Cardinality(N)
         /\ 2 * (SumOn(a, N) * m) <= 2 * (d * SumOn(h, N)) + d * Cardinality(N)
<1>. DEFINE Near(T) == /\ SumOn(a, T) \in Nat /\ SumOn(h, T) \in Int /\ Cardinality(T) \in Nat
                       /\ 2 * (d * SumOn(h, T)) <= 2 * (SumOn(a, T) * m) + d * Cardinality(T)
                       /\ 2 * (SumOn(a, T) * m) <= 2 * (d * SumOn(h, T)) + d * Cardinality(T)
            B == {T \in SUBSET N : ~Near(T)}
<1>1. SUFFICES ASSUME B # {} PROVE FALSE
  OBVIOUS
<1>2. PICK T \in B : IsFiniteSet(T) /\ \A x \in T : T \ {x} \notin B
  <2>1. B \in SUBSET (SUBSET N)
    OBVIOUS
  <2>. HIDE DEF B
  <2>. QED  BY <1>1, <2>1, LeastCounterexample
<1>3. T \in SUBSET N /\ ~Near(T)
  OBVIOUS
<1>4. T # {}
  <2>1. SumOn(a, {}) = 0 /\ SumOn(h, {}) = 0 /\ Cardinality({}) = 0
    BY SumEmpty, FS_EmptySet
  <2>2. d * 0 = 0 /\ 0 * m = 0
    OBVIOUS
  <2>3. Near({})
    BY <2>1, <2>2
  <2>. QED  BY <1>3, <2>3
<1>5. PICK x \in T : TRUE
  BY <1>4
<1>6. PICK R : R = T \ {x} /\ R \in SUBSET N /\ IsFiniteSet(R)
  <2>1. IsFiniteSet(T \ {x})
    BY <1>2, FS_Subset
  <2>. QED  BY <1>3, <2>1
<1>7. Near(R)
  BY <1>2, <1>5, <1>6
<1>8. \A i \in T : a[i] \in Int /\ h[i] \in Int
  <2>1. ASSUME NEW i \in T PROVE a[i] \in Int /\ h[i] \in Int
    <3>1. a[i] \in Nat /\ h[i] = HalfEven(a[i] * m, d)
      BY <1>3
    <3>2. a[i] * m \in Int
      BY <3>1
    <3>3. \A y \in Int : HalfEven(y, d) \in Int
      BY HalfEvenIsNear
    <3>. QED  BY <3>1, <3>2, <3>3
  <2>. QED  BY <2>1
<1>9. SumOn(a, T) = a[x] + SumOn(a, R) /\ SumOn(h, T) = h[x] + SumOn(h, R)
  BY <1>2, <1>6, <1>8, SumRemove
<1>10. Cardinality(T) = Cardinality(R) + 1
  <2>1. Cardinality(R) = Cardinality(T) - 1 /\ Cardinality(T) \in Nat
    BY <1>2, <1>5, <1>6, FS_RemoveElement, FS_CardinalityType
  <2>. QED  BY <2>1
<1>11. PICK u \in Nat, v \in Int, c \in Nat, s \in Nat, t \in Int :
         /\ u = SumOn(a, R) /\ v = SumOn(h, R) /\ c = Cardinality(R) /\ s = a[x] /\ t = h[x]
  <2>1. a[x] \in Nat /\ h[x] \in Int
    BY <1>3, <1>5, <1>8
  <2>. QED  BY <1>7, <2>1
<1>12. 2 * (d * v) <= 2 * (u * m) + d * c /\ 2 * (u * m) <= 2 * (d * v) + d * c
  BY <1>7, <1>11
<1>13. 2 * (d * t) <= 2 * (s * m) + d /\ 2 * (s * m) <= 2 * (d * t) + d
  <2>1. t = HalfEven(s * m, d) /\ s * m \in Int
    BY <1>3, <1>5, <1>11
  <2>. QED  BY <2>1, HalfEvenIsNear
<1>14. d * (t + v) = d * t + d * v /\ (s + u) * m = s * m + u * m /\ d * (c + 1) = d * c + d
  <2>1. d * (t + v) = d * t + d * v
    BY Distributed
  <2>2. (s + u) * m = s * m + u * m
    OBVIOUS
  <2>3. d * (c + 1) = d * c + d
    OBVIOUS
  <2>. QED  BY <2>1, <2>2, <2>3
<1>15. PICK dt \in Int, dv \in Int, sm \in Int, um \in Int, dc \in Int :
         dt = d * t /\ dv = d * v /\ sm = s * m /\ um = u * m /\ dc = d * c
  OBVIOUS
<1>16. 2 * (dt + dv) <= 2 * (sm + um) + (dc + d) /\ 2 * (sm + um) <= 2 * (dt + dv) + (dc + d)
  BY <1>12, <1>13, <1>15
<1>17. /\ SumOn(a, T) = s + u /\ SumOn(h, T) = t + v /\ Cardinality(T) = c + 1
  BY <1>9, <1>10, <1>11
<1>18. Near(T)
  BY <1>14, <1>15, <1>16, <1>17
<1>. QED  BY <1>3, <1>18

LEMMA SplitIsNear ==
  ASSUME NEW N, IsFiniteSet(N), NEW d \in Nat \ {0}, NEW m \in Nat,
         NEW a, \A i \in N : a[i] \in Nat, NEW h, \A i \in N : h[i] = HalfEven(a[i] * m, d),
         NEW w, w = HalfEven(SumOn(a, N) * m, d)
  PROVE  /\ SumOn(h, N) \in Int /\ w \in Int
         /\ 2 * (SumOn(h, N) - w) <= Cardinality(N) + 1
         /\ 2 * (w - SumOn(h, N)) <= Cardinality(N) + 1
<1>1. PICK u \in Nat, v \in Int, c \in Nat : u = SumOn(a, N) /\ v = SumOn(h, N) /\ c = Cardinality(N)
  BY PartsAreNear
<1>2. 2 * (d * v) <= 2 * (u * m) + d * c /\ 2 * (u * m) <= 2 * (d * v) + d * c
  BY <1>1, PartsAreNear
<1>3. u * m \in Int
  OBVIOUS
<1>4. w \in Int /\ 2 * (d * w) <= 2 * (u * m) + d /\ 2 * (u * m) <= 2 * (d * w) + d
  BY <1>1, <1>3, HalfEvenIsNear
<1>5. PICK dv \in Int, dw \in Int, um \in Int, dc \in Int :
        dv = d * v /\ dw = d * w /\ um = u * m /\ dc = d * c
  BY <1>4
<1>6. 2 * (dv - dw) <= dc + d /\ 2 * (dw - dv) <= dc + d
  BY <1>2, <1>4, <1>5
<1>7. d * (2 * (v - w)) = 2 * (dv - dw) /\ d * (2 * (w - v)) = 2 * (dw - dv)
  BY <1>4, <1>5, Distributed, Doubled
<1>8. d * (c + 1 + 1) = dc + d + d
  BY <1>5
<1>9. 2 * (v - w) <= c + 1
  <2>1. 2 * (v - w) \in Int /\ c + 1 \in Int /\ dc + d \in Int /\ dc + d < d * (c + 1 + 1)
    BY <1>4, <1>8
  <2>. QED  BY <1>6, <1>7, <2>1, ErrorIsSmall
<1>10. 2 * (w - v) <= c + 1
  <2>1. 2 * (w - v) \in Int /\ c + 1 \in Int /\ dc + d \in Int /\ dc + d < d * (c + 1 + 1)
    BY <1>4, <1>8
  <2>. QED  BY <1>6, <1>7, <2>1, ErrorIsSmall
<1>. QED  BY <1>1, <1>4, <1>9, <1>10

\* A sum is as far off as the terms are.
LEMMA SumIsNear ==
  ASSUME NEW S, IsFiniteSet(S), NEW f, NEW e,
         \A x \in S : f[x] \in Int /\ e[x] \in Int /\ 2 * f[x] <= e[x] /\ -e[x] <= 2 * f[x]
  PROVE  /\ SumOn(f, S) \in Int /\ SumOn(e, S) \in Int
         /\ 2 * SumOn(f, S) <= SumOn(e, S) /\ -SumOn(e, S) <= 2 * SumOn(f, S)
<1>0. SumOn(f, S) \in Int /\ SumOn(e, S) \in Int
  BY SumType
<1>. DEFINE Near(T) == 2 * SumOn(f, T) <= SumOn(e, T) /\ -SumOn(e, T) <= 2 * SumOn(f, T)
            B == {T \in SUBSET S : ~Near(T)}
<1>1. SUFFICES ASSUME B # {} PROVE FALSE
  BY <1>0
<1>2. PICK T \in B : IsFiniteSet(T) /\ \A x \in T : T \ {x} \notin B
  <2>1. B \in SUBSET (SUBSET S)
    OBVIOUS
  <2>. HIDE DEF B
  <2>. QED  BY <1>1, <2>1, LeastCounterexample
<1>3. T \in SUBSET S /\ ~Near(T)
  OBVIOUS
<1>4. T # {}
  <2>1. SumOn(f, {}) = 0 /\ SumOn(e, {}) = 0
    BY SumEmpty
  <2>2. Near({})
    BY <2>1
  <2>. QED  BY <1>3, <2>2
<1>5. PICK x \in T : TRUE
  BY <1>4
<1>6. PICK R : R = T \ {x} /\ R \in SUBSET S /\ IsFiniteSet(R)
  <2>1. IsFiniteSet(T \ {x})
    BY <1>2, FS_Subset
  <2>. QED  BY <1>3, <2>1
<1>7. Near(R)
  BY <1>2, <1>5, <1>6
<1>8. (\A y \in T : f[y] \in Int /\ e[y] \in Int) /\ (\A y \in R : f[y] \in Int /\ e[y] \in Int)
  BY <1>3, <1>6
<1>9. SumOn(f, T) = f[x] + SumOn(f, R) /\ SumOn(e, T) = e[x] + SumOn(e, R)
  BY <1>2, <1>6, <1>8, SumRemove
<1>10. SumOn(f, R) \in Int /\ SumOn(e, R) \in Int
  BY <1>6, <1>8, SumType
<1>11. f[x] \in Int /\ e[x] \in Int /\ 2 * f[x] <= e[x] /\ -e[x] <= 2 * f[x]
  BY <1>3, <1>5
<1>12. Near(T)
  BY <1>7, <1>9, <1>10, <1>11
<1>. QED  BY <1>3, <1>12

-----------------------------------------------------------------------------
(* A bucket shows what a report of its own days shows.                     *)

LEMMA BucketsFollow ==
  ASSUME NEW from \in Days, NEW to \in from..LastDay, NEW interval \in Intervals,
         NEW buckets, buckets = Buckets(from, to, interval), NEW day \in from..to,
         NEW i \in DOMAIN buckets
  PROVE  /\ BucketOf(buckets, day) = i <=> day \in buckets[i].first..buckets[i].last
         /\ buckets[i].first \in from..to /\ buckets[i].last \in from..to
<1>1. PICK days : days = Steps[<<from, to, interval>>]
  OBVIOUS
<1>2. Ascending(days) /\ Len(days) # 0 /\ days[1] = from /\ \A j \in 1..Len(days) : days[j] \in from..to
  BY <1>1, StepsFollow
<1>3. PICK n \in Nat : n = Len(days) /\ DOMAIN days = 1..n /\ n # 0
  BY <1>2 DEF Ascending
<1>4. /\ DOMAIN buckets = 1..n
      /\ \A j \in 1..n : /\ buckets[j].first = days[j]
                         /\ buckets[j].last = IF j = n THEN to ELSE days[j + 1] - 1
  <2>1. buckets = [j \in 1..n |-> [first |-> days[j], last |-> IF j = n THEN to ELSE days[j + 1] - 1]]
    BY <1>1, <1>3 DEF Buckets
  <2>. QED  BY <2>1
<1>5. from \in Int /\ to \in Int /\ day \in Int /\ from <= day /\ day <= to /\ i \in 1..n
  BY <1>4, CalendarGiven
<1>6. \A j \in 1..n : days[j] \in Int /\ from <= days[j] /\ days[j] <= to
  BY <1>2, <1>3, <1>5
<1>7. \A j, k \in 1..n : j < k => days[j] < days[k]
  <2>1. \A j \in 2..n : days[j - 1] < days[j]
    BY <1>2, <1>3 DEF Ascending
  <2>. QED  BY <1>6, <2>1, Climbs
<1>. DEFINE T == {1} \cup {j \in 1..n : days[j] <= day}
<1>8. BucketOf(buckets, day) = Max(T)
  <2>1. {j \in DOMAIN buckets : buckets[j].first <= day} = {j \in 1..n : days[j] <= day}
    BY <1>4
  <2>. QED  BY <2>1 DEF BucketOf
<1>9. T \in SUBSET Int /\ T # {} /\ n \in Int /\ (\A j \in T : j <= n) /\ \A j \in T : j \in 1..n /\ days[j] <= day
  BY <1>2, <1>3, <1>5
<1>10. PICK g \in T : \A j \in T : j <= g
  BY <1>9, GreatestNumber
<1>11. Max(T) = g
  BY <1>9, <1>10, LargestIs
<1>12. day \in buckets[g].first..buckets[g].last
  <2>1. g \in 1..n /\ days[g] <= day
    BY <1>9, <1>10
  <2>2. CASE g = n
    BY <1>4, <1>5, <1>6, <2>1, <2>2
  <2>3. CASE g # n
    <3>1. g + 1 \in 1..n /\ g + 1 \notin T
      BY <1>9, <1>10, <2>1, <2>3
    <3>2. day < days[g + 1] /\ days[g + 1] \in Int /\ days[g] \in Int
      BY <1>5, <1>6, <2>1, <3>1
    <3>3. buckets[g].first = days[g] /\ buckets[g].last = days[g + 1] - 1
      BY <1>4, <2>1, <2>3
    <3>. QED  BY <1>5, <2>1, <3>2, <3>3
  <2>. QED  BY <2>2, <2>3
<1>13. ASSUME day \in buckets[i].first..buckets[i].last PROVE Max(T) = i
  <2>1. buckets[i].first = days[i] /\ buckets[i].last = IF i = n THEN to ELSE days[i + 1] - 1
    BY <1>4, <1>5
  <2>2. days[i] <= day
    BY <1>5, <1>13, <2>1
  <2>3. i \in T
    BY <1>5, <2>2
  <2>4. ASSUME NEW j \in T, ~(j <= i) PROVE FALSE
    <3>1. j \in 1..n /\ days[j] <= day
      BY <1>9
    <3>2. i # n /\ i + 1 \in 1..n /\ (i + 1 = j \/ i + 1 < j)
      BY <1>5, <2>4, <3>1
    <3>3. day <= days[i + 1] - 1
      BY <1>5, <1>6, <1>13, <2>1, <3>2
    <3>4. days[i + 1] <= days[j]
      BY <1>6, <1>7, <3>1, <3>2
    <3>. QED  BY <1>5, <1>6, <3>1, <3>2, <3>3, <3>4
  <2>5. \A j \in T : j <= i
    BY <2>4
  <2>. QED  BY <1>9, <2>3, <2>5, LargestIs
<1>14. buckets[i].first \in from..to /\ buckets[i].last \in from..to
  <2>1. buckets[i].first = days[i] /\ buckets[i].last = IF i = n THEN to ELSE days[i + 1] - 1
    BY <1>4, <1>5
  <2>2. CASE i = n
    BY <1>5, <1>6, <2>1, <2>2
  <2>3. CASE i # n
    <3>1. i + 1 \in 1..n /\ i < i + 1
      BY <1>5, <2>3
    <3>2. days[i] < days[i + 1]
      BY <1>5, <1>7, <3>1
    <3>. QED  BY <1>5, <1>6, <2>1, <2>3, <3>1, <3>2
  <2>. QED  BY <2>2, <2>3
<1>. QED  BY <1>8, <1>11, <1>12, <1>13, <1>14

LEMMA BucketsTell ==
  ASSUME book \in Seq(Booked), NEW from \in Days, NEW to \in from..LastDay, NEW interval \in Intervals,
         NEW buckets, buckets = Buckets(from, to, interval), NEW i \in DOMAIN buckets
  PROVE  CashFlowSeries(from, to, buckets)[i] = Totals(buckets[i].first, buckets[i].last)
<1>. DEFINE ns == {n \in Flows(from, to) : BucketOf(buckets, book[n].row.day) = i}
            first == buckets[i].first
            last == buckets[i].last
<1>1. from \in Int /\ to \in Int /\ from \in from..to
  BY CalendarGiven
<1>2. first \in from..to /\ last \in from..to
  BY <1>1, BucketsFollow
<1>3. ASSUME NEW n \in ns PROVE n \in Flows(first, last)
  <2>1. n \in Flows(from, to) /\ BucketOf(buckets, book[n].row.day) = i
    OBVIOUS
  <2>2. book[n].row.day \in from..to
    BY <2>1 DEF Flows
  <2>3. book[n].row.day \in first..last
    BY <2>1, <2>2, BucketsFollow
  <2>. QED  BY <2>1, <2>3 DEF Flows
<1>4. ASSUME NEW n \in Flows(first, last) PROVE n \in ns
  <2>1. book[n].row.day \in first..last
    BY DEF Flows
  <2>2. book[n].row.day \in from..to
    BY <1>1, <1>2, <2>1
  <2>3. BucketOf(buckets, book[n].row.day) = i
    BY <2>1, <2>2, BucketsFollow
  <2>. QED  BY <2>2, <2>3 DEF Flows
<1>5. ns = Flows(first, last)
  BY <1>3, <1>4
<1>. QED  BY <1>5 DEF CashFlowSeries, Totals

-----------------------------------------------------------------------------
(* The cash flow is the sum of its categories.                             *)

LEMMA ImageIsFinite ==
  ASSUME NEW S, IsFiniteSet(S), NEW f
  PROVE  IsFiniteSet({f[x] : x \in S})
<1>. DEFINE T == {f[x] : x \in S}
            g == [x \in S |-> f[x]]
<1>1. g \in [S -> T] /\ \A y \in T : \E x \in S : g[x] = y
  OBVIOUS
<1>2. g \in Surjection(S, T)
  BY <1>1 DEF Surjection
<1>. QED  BY <1>2, FS_Surjection

LEMMA BookIs ==
  ASSUME BookInv
  PROVE  /\ book \in Seq(Booked) /\ base \in Currencies /\ rates \in SUBSET Rated
         /\ IsFiniteSet(DOMAIN book)
<1>1. book \in Seq(Booked) /\ base \in Currencies /\ rates \in SUBSET Rated
  BY DEF BookInv, ReportTypes
<1>2. IsFiniteSet(DOMAIN book)
  BY <1>1, FS_Interval
<1>. QED  BY <1>1, <1>2

LEMMA PartsTyped ==
  ASSUME NEW b \in Seq(Booked), NEW n \in DOMAIN b
  PROVE  /\ Len(b[n].row.parts) \in Nat /\ DOMAIN b[n].row.parts = 1..Len(b[n].row.parts)
         /\ IsFiniteSet(DOMAIN b[n].row.parts)
         /\ \A i \in DOMAIN b[n].row.parts : b[n].row.parts[i].amount \in Nat
<1>1. b[n] \in Booked
  OBVIOUS
<1>2. b[n].row \in BookRow
  BY <1>1 DEF Booked
<1>3. PICK ps \in Seq([category : STRING, amount : Nat]) : ps = b[n].row.parts
  BY <1>2 DEF BookRow
<1>4. Len(ps) \in Nat /\ DOMAIN ps = 1..Len(ps) /\ \A i \in DOMAIN ps : ps[i].amount \in Nat
  <2>1. Len(ps) \in Nat /\ DOMAIN ps = 1..Len(ps)
    OBVIOUS
  <2>2. ASSUME NEW i \in DOMAIN ps PROVE ps[i].amount \in Nat
    <3>1. PICK T : T = [category : STRING, amount : Nat]
      OBVIOUS
    <3>2. ps \in Seq(T)
      BY <3>1
    <3>3. ps[i] \in T
      BY <2>1, <3>2
    <3>. QED  BY <3>1, <3>3
  <2>. QED  BY <2>1, <2>2
<1>5. IsFiniteSet(DOMAIN ps)
  BY <1>4, FS_Interval
<1>. QED  BY <1>3, <1>4, <1>5

\* A projection that waits for nothing is in today's base currency.
LEMMA ProjectionIs ==
  ASSUME BookInv, NEW n \in DOMAIN book, book[n].live, book[n].proj # Pending,
         NEW c, c = book[n].currency
  PROVE  /\ c \in Currencies /\ book[n].proj.base = base /\ book[n].proj.rate \in Nat
         /\ book[n].proj.amount \in Int /\ book[n].row.amount \in Int
         /\ c = base => book[n].proj.amount = book[n].row.amount /\ book[n].proj.rate = Scale
         /\ c # base => book[n].proj.amount = Convert(book[n].row.amount, c, base, book[n].proj.rate)
<1>1. book[n] \in Booked
  BY BookIs
<1>2. book[n].row \in BookRow /\ book[n].proj \in Projection
  BY <1>1 DEF Booked
<1>3. /\ book[n].row.acc \in Accounts /\ book[n].row.amount \in Int
      /\ book[n].proj.amount \in Int /\ book[n].proj.rate \in Nat
  BY <1>2 DEF BookRow, Projection
<1>4. c \in Currencies
  BY <1>1 DEF Booked
<1>5. PICK p : p = book[n].proj /\ p = Project(book[n].row, c, base, rates) /\ p # Pending
  BY DEF BookInv, ProjectionsAreFresh, Projected
<1>6. CASE c = base
  <2>1. p = [amount |-> book[n].row.amount, base |-> base, rate |-> Scale]
    BY <1>5, <1>6 DEF Project
  <2>2. p.amount = book[n].row.amount /\ p.base = base /\ p.rate = Scale
    BY <2>1
  <2>. QED  BY <1>3, <1>4, <1>5, <1>6, <2>2
<1>7. CASE c # base
  <2>1. PICK rate : p = [amount |-> Convert(book[n].row.amount, c, base, rate), base |-> base, rate |-> rate]
    BY <1>5, <1>7 DEF Project
  <2>2. p.amount = Convert(book[n].row.amount, c, base, p.rate) /\ p.base = base
    BY <2>1
  <2>. QED  BY <1>3, <1>4, <1>5, <1>7, <2>2
<1>. QED  BY <1>6, <1>7

LEMMA AbsIsNat == ASSUME NEW x \in Int PROVE Abs(x) \in Nat
BY DEF Abs

LEMMA PartBaseTyped ==
  ASSUME BookInv, NEW n \in DOMAIN book, book[n].live, book[n].proj # Pending,
         NEW i \in DOMAIN book[n].row.parts
  PROVE  PartBase(n, i) \in Nat
<1>1. PICK c : c = book[n].currency
  OBVIOUS
<1>2. /\ c \in Currencies /\ book[n].proj.base = base /\ book[n].proj.rate \in Nat
      /\ book[n].proj.amount \in Int
  BY <1>1, ProjectionIs
<1>3. base \in Currencies /\ book[n].row.parts[i].amount \in Int
  BY BookIs, PartsTyped
<1>4. Convert(book[n].row.parts[i].amount, c, base, book[n].proj.rate) \in Int
  BY <1>2, <1>3, ConvertIsInt
<1>5. /\ Abs(book[n].proj.amount) \in Nat
      /\ Abs(Convert(book[n].row.parts[i].amount, c, base, book[n].proj.rate)) \in Nat
  BY <1>2, <1>4, AbsIsNat
<1>. QED  BY <1>1, <1>2, <1>5 DEF PartBase

\* What the parts of rows are worth.
BaseOf == [p \in (DOMAIN book) \X Nat |-> PartBase(p[1], p[2])]

\* The rows of a report that are converted.
Shown(from, to) == Converted(Flows(from, to))

LEMMA ShownAre ==
  ASSUME BookInv, NEW from, NEW to
  PROVE  /\ Shown(from, to) \in SUBSET DOMAIN book /\ Shown(from, to) \in SUBSET Flows(from, to)
         /\ IsFiniteSet(Shown(from, to))
         /\ \A n \in Shown(from, to) : /\ book[n].live /\ book[n].proj # Pending
                                       /\ book[n].row.kind \in {"income", "expense"}
<1>1. Shown(from, to) \in SUBSET DOMAIN book
  BY DEF Shown, Converted, Flows
<1>2. IsFiniteSet(Shown(from, to))
  BY <1>1, BookIs, FS_Subset
<1>. QED  BY <1>1, <1>2 DEF Shown, Converted, Flows

LEMMA PartsAre ==
  ASSUME BookInv, NEW ns \in SUBSET DOMAIN book
  PROVE  /\ IsFiniteSet(Parts(ns))
         /\ \A p : p \in Parts(ns) <=>
              /\ p \in (DOMAIN book) \X Nat
              /\ p[1] \in ns /\ p[2] \in DOMAIN book[p[1]].row.parts
<1>. DEFINE Of(n) == {<<n, i>> : i \in DOMAIN book[n].row.parts}
<1>1. ASSUME NEW n \in ns PROVE IsFiniteSet(Of(n))
  <2>1. PICK f : f = [i \in DOMAIN book[n].row.parts |-> <<n, i>>]
    OBVIOUS
  <2>2. IsFiniteSet(DOMAIN book[n].row.parts)
    BY BookIs, PartsTyped
  <2>3. IsFiniteSet({f[i] : i \in DOMAIN book[n].row.parts})
    BY <2>2, ImageIsFinite
  <2>4. {f[i] : i \in DOMAIN book[n].row.parts} = Of(n)
    BY <2>1
  <2>. QED  BY <2>3, <2>4
<1>2. IsFiniteSet({Of(n) : n \in ns})
  <2>1. PICK f : f = [n \in ns |-> Of(n)]
    OBVIOUS
  <2>2. IsFiniteSet(ns)
    BY BookIs, FS_Subset
  <2>3. IsFiniteSet({f[n] : n \in ns})
    BY <2>2, ImageIsFinite
  <2>4. {f[n] : n \in ns} = {Of(n) : n \in ns}
    BY <2>1
  <2>. QED  BY <2>3, <2>4
<1>3. Parts(ns) = UNION {Of(n) : n \in ns}
  BY DEF Parts
<1>4. IsFiniteSet(Parts(ns))
  <2>1. \A T \in {Of(n) : n \in ns} : IsFiniteSet(T)
    BY <1>1
  <2>. QED  BY <1>2, <1>3, <2>1, FS_UNION
<1>5. ASSUME NEW p \in Parts(ns)
      PROVE  p \in (DOMAIN book) \X Nat /\ p[1] \in ns /\ p[2] \in DOMAIN book[p[1]].row.parts
  <2>1. PICK n \in ns : p \in Of(n)
    BY <1>3
  <2>2. PICK i \in DOMAIN book[n].row.parts : p = <<n, i>>
    BY <2>1
  <2>3. i \in Nat
    BY BookIs, PartsTyped
  <2>. QED  BY <2>2, <2>3
<1>6. ASSUME NEW p \in (DOMAIN book) \X Nat, p[1] \in ns, p[2] \in DOMAIN book[p[1]].row.parts
      PROVE  p \in Parts(ns)
  <2>1. PICK n \in DOMAIN book, i \in Nat : p = <<n, i>>
    OBVIOUS
  <2>2. n \in ns /\ i \in DOMAIN book[n].row.parts
    BY <1>6, <2>1
  <2>3. p \in Of(n)
    BY <2>1, <2>2
  <2>. QED  BY <1>3, <2>2, <2>3
<1>. QED  BY <1>4, <1>5, <1>6

LEMMA TotalIsSum ==
  ASSUME BookInv, NEW from, NEW to, NEW ps \in SUBSET Parts(Shown(from, to))
  PROVE  /\ IsFiniteSet(ps)
         /\ \A p \in ps : BaseOf[p] \in Int /\ BaseOf[p] = PartBase(p[1], p[2])
         /\ Total(ps) = SumOn(BaseOf, ps)
         /\ Total(ps) \in Int
<1>1. Shown(from, to) \in SUBSET DOMAIN book
  BY ShownAre
<1>2. IsFiniteSet(ps)
  BY <1>1, PartsAre, FS_Subset
<1>3. ASSUME NEW p \in ps PROVE BaseOf[p] \in Int /\ BaseOf[p] = PartBase(p[1], p[2])
  <2>1. p \in (DOMAIN book) \X Nat /\ p[1] \in Shown(from, to) /\ p[2] \in DOMAIN book[p[1]].row.parts
    BY <1>1, PartsAre
  <2>2. BaseOf[p] = PartBase(p[1], p[2])
    BY <2>1 DEF BaseOf
  <2>3. p[1] \in DOMAIN book /\ book[p[1]].live /\ book[p[1]].proj # Pending
    BY <1>1, <2>1, ShownAre
  <2>4. PartBase(p[1], p[2]) \in Nat
    BY <2>1, <2>3, PartBaseTyped
  <2>. QED  BY <2>2, <2>4
<1>. DEFINE f == [p \in ps |-> PartBase(p[1], p[2])]
<1>4. Total(ps) = SumOn(f, ps)
  BY DEF Total, SumOn, MapThenSumSet, MapThenFoldSet
<1>5. SumOn(f, ps) = SumOn(BaseOf, ps)
  BY <1>2, <1>3, SumSame
<1>6. SumOn(BaseOf, ps) \in Int
  BY <1>2, <1>3, SumType
<1>. QED  BY <1>2, <1>3, <1>4, <1>5, <1>6

LEMMA RowsAreSums ==
  ASSUME NEW ns
  PROVE  /\ MapThenSumSet(LAMBDA n : book[n].proj.amount, ns)
              = SumOn([n \in ns |-> book[n].proj.amount], ns)
         /\ MapThenSumSet(LAMBDA n : Len(book[n].row.parts) + 1, ns)
              = SumOn([n \in ns |-> Len(book[n].row.parts) + 1], ns)
<1>1. MapThenSumSet(LAMBDA n : book[n].proj.amount, ns) = SumOn([n \in ns |-> book[n].proj.amount], ns)
  BY DEF SumOn, MapThenSumSet, MapThenFoldSet
<1>2. MapThenSumSet(LAMBDA n : Len(book[n].row.parts) + 1, ns)
        = SumOn([n \in ns |-> Len(book[n].row.parts) + 1], ns)
  BY DEF SumOn, MapThenSumSet, MapThenFoldSet
<1>. QED  BY <1>1, <1>2

\* The parts of income, or of expenses, by category.
LEMMA CategoriesAdd ==
  ASSUME BookInv, NEW from, NEW to, NEW kind, NEW categories,
         categories = {CategoryOf(p) : p \in Parts(Flows(from, to))},
         NEW g, \A c \in categories : g[c] = ByCategory(from, to, kind, c)
  PROVE  Total(InKind(Parts(Shown(from, to)), kind)) = SumOn(g, categories)
<1>. DEFINE all == Parts(Shown(from, to))
            ps == InKind(all, kind)
            Of(c) == {p \in ps : CategoryOf(p) = c}
            k == [p \in all |-> CategoryOf(p)]
<1>1. Flows(from, to) \in SUBSET DOMAIN book /\ Shown(from, to) \in SUBSET Flows(from, to)
  BY ShownAre DEF Flows
<1>2. IsFiniteSet(categories)
  <2>1. PICK f : f = [p \in Parts(Flows(from, to)) |-> CategoryOf(p)]
    OBVIOUS
  <2>2. IsFiniteSet(Parts(Flows(from, to)))
    BY <1>1, PartsAre
  <2>3. IsFiniteSet({f[p] : p \in Parts(Flows(from, to))})
    BY <2>2, ImageIsFinite
  <2>4. {f[p] : p \in Parts(Flows(from, to))} = categories
    BY <2>1
  <2>. QED  BY <2>3, <2>4
<1>3. ps \in SUBSET all
  BY DEF InKind
<1>4. /\ IsFiniteSet(ps) /\ Total(ps) = SumOn(BaseOf, ps)
      /\ \A p \in ps : BaseOf[p] \in Int
  BY <1>3, TotalIsSum
<1>5. \A p \in ps : k[p] \in categories /\ k[p] = CategoryOf(p)
  <2>1. ASSUME NEW p \in ps PROVE p \in Parts(Flows(from, to)) /\ p \in all
    <3>1. p \in all /\ Shown(from, to) \in SUBSET DOMAIN book
      BY <1>1, <1>3
    <3>2. p \in (DOMAIN book) \X Nat /\ p[1] \in Shown(from, to) /\ p[2] \in DOMAIN book[p[1]].row.parts
      BY <3>1, PartsAre
    <3>. QED  BY <1>1, <3>1, <3>2, PartsAre
  <2>2. \A p \in ps : k[p] = CategoryOf(p)
    BY <1>3
  <2>. QED  BY <2>1, <2>2
<1>6. ASSUME NEW c \in categories
      PROVE  \E U : g[c] = SumOn(BaseOf, U) /\ \A p : p \in U <=> p \in ps /\ k[p] = c
  <2>1. g[c] = Total(Of(c))
    BY DEF ByCategory, Shown
  <2>2. Of(c) \in SUBSET all
    BY <1>3
  <2>3. Total(Of(c)) = SumOn(BaseOf, Of(c))
    BY <2>2, TotalIsSum
  <2>4. \A p : p \in Of(c) <=> p \in ps /\ k[p] = c
    BY <1>5
  <2>. HIDE DEF k, Of, ps
  <2>. QED  BY <2>1, <2>3, <2>4
<1>7. SumOn(g, categories) = SumOn(BaseOf, ps)
  <2>. HIDE DEF k, ps, all
  <2>1. PICK f : f = BaseOf
    OBVIOUS
  <2>2. \A p \in ps : f[p] \in Int
    BY <1>4, <2>1
  <2>3. \A c \in categories : \E U : g[c] = SumOn(f, U) /\ \A p : p \in U <=> p \in ps /\ k[p] = c
    BY <1>6, <2>1
  <2>4. \A p \in ps : k[p] \in categories
    BY <1>5
  <2>5. SumOn(g, categories) = SumOn(f, ps)
    BY <1>2, <1>4, <2>2, <2>3, <2>4, SumGroups
  <2>. QED  BY <2>1, <2>5
<1>. QED  BY <1>4, <1>7

\* A budget has spent in a category what the cash flow has.
LEMMA SpentIsByCategory ==
  ASSUME BookInv, NEW from, NEW to, NEW c
  PROVE  Spent(from, to, c) = ByCategory(from, to, "expense", c)
<1>. DEFINE ns == {n \in Converted(Flows(from, to)) : book[n].row.kind = "expense"}
<1>1. Shown(from, to) \in SUBSET DOMAIN book /\ ns \in SUBSET DOMAIN book
  BY ShownAre DEF Shown
<1>2. \A p : p \in Parts(ns) <=> p \in InKind(Parts(Converted(Flows(from, to))), "expense")
  BY <1>1, PartsAre DEF InKind, Shown
<1>3. Parts(ns) = InKind(Parts(Converted(Flows(from, to))), "expense")
  BY <1>2
<1>. QED  BY <1>3 DEF Spent, ByCategory

-----------------------------------------------------------------------------
(* Splitting moves half a minor unit for each part, and one half.          *)

RowParts(from, to, n) == {p \in Parts(Shown(from, to)) : p[1] = n}
PartAmounts(n) == [i \in DOMAIN book[n].row.parts |-> book[n].row.parts[i].amount]
PartBases(n) == [i \in DOMAIN book[n].row.parts |-> PartBase(n, i)]
Signed(n, x) == IF book[n].row.kind = "income" THEN x ELSE -x

LEMMA RowPartsAdd ==
  ASSUME BookInv, NEW from, NEW to, NEW n \in Shown(from, to)
  PROVE  /\ SumOn(BaseOf, RowParts(from, to, n)) = SumOn(PartBases(n), DOMAIN book[n].row.parts)
         /\ SumOn(BaseOf, RowParts(from, to, n)) \in Int
<1>. DEFINE T == RowParts(from, to, n)
            N == DOMAIN book[n].row.parts
            k == [p \in T |-> p[2]]
<1>1. Shown(from, to) \in SUBSET DOMAIN book /\ n \in DOMAIN book
  BY ShownAre
<1>2. \A p : p \in T <=> p \in (DOMAIN book) \X Nat /\ p[1] = n /\ p[2] \in N
  BY <1>1, PartsAre DEF RowParts
<1>3. T \in SUBSET Parts(Shown(from, to))
  BY DEF RowParts
<1>4. IsFiniteSet(T) /\ \A p \in T : BaseOf[p] \in Int /\ BaseOf[p] = PartBase(p[1], p[2])
  BY <1>3, TotalIsSum
<1>5. IsFiniteSet(N) /\ N \in SUBSET Nat
  BY <1>1, BookIs, PartsTyped
<1>6. \A p \in T : k[p] \in N /\ k[p] = p[2]
  BY <1>2
<1>7. ASSUME NEW i \in N
      PROVE  \E p \in T : /\ k[p] = i /\ PartBases(n)[i] = BaseOf[p]
                          /\ \A q \in T : k[q] = i => q = p
  <2>1. PICK p : p = <<n, i>>
    OBVIOUS
  <2>2. p \in T /\ p[1] = n /\ p[2] = i
    BY <1>1, <1>2, <1>5, <2>1
  <2>3. ASSUME NEW q \in T, k[q] = i PROVE q = p
    <3>1. q \in (DOMAIN book) \X Nat /\ q[1] = n /\ q[2] = i
      BY <1>2, <1>6, <2>3
    <3>. QED  BY <2>1, <3>1
  <2>4. BaseOf[p] = PartBases(n)[i]
    BY <1>4, <2>2 DEF PartBases
  <2>5. k[p] = i
    BY <1>6, <2>2
  <2>. HIDE DEF k, T
  <2>. QED  BY <2>2, <2>3, <2>4, <2>5
<1>8. SumOn(PartBases(n), N) = SumOn(BaseOf, T)
  <2>. HIDE DEF k, T, N
  <2>1. PICK f, g : f = BaseOf /\ g = PartBases(n)
    OBVIOUS
  <2>2. \A p \in T : f[p] \in Int
    BY <1>4, <2>1
  <2>3. \A i \in N : \E p \in T : k[p] = i /\ g[i] = f[p] /\ \A q \in T : k[q] = i => q = p
    BY <1>7, <2>1
  <2>4. \A p \in T : k[p] \in N
    BY <1>6
  <2>5. IsFiniteSet(N) /\ IsFiniteSet(T)
    BY <1>4, <1>5
  <2>6. SumOn(g, N) = SumOn(f, T)
    BY <2>2, <2>3, <2>4, <2>5, SumRenamed
  <2>. QED  BY <2>1, <2>6
<1>9. SumOn(BaseOf, T) \in Int
  BY <1>4, SumType
<1>. QED  BY <1>8, <1>9

LEMMA PartAmountsAre ==
  ASSUME NEW n
  PROVE  MapThenSumSet(LAMBDA i : book[n].row.parts[i].amount, DOMAIN book[n].row.parts)
         = SumOn(PartAmounts(n), DOMAIN book[n].row.parts)
BY DEF SumOn, PartAmounts, MapThenSumSet, MapThenFoldSet

LEMMA PartAmountsAdd ==
  ASSUME RowsInv, BookInv, NEW n \in DOMAIN book, book[n].row.kind \in {"income", "expense"}
  PROVE  /\ \A i \in DOMAIN book[n].row.parts : PartAmounts(n)[i] \in Nat
         /\ book[n].row.amount = Signed(n, SumOn(PartAmounts(n), DOMAIN book[n].row.parts))
<1>. DEFINE N == DOMAIN book[n].row.parts
<1>1. IsFiniteSet(N) /\ \A i \in N : PartAmounts(n)[i] \in Nat
  BY BookIs, PartsTyped DEF PartAmounts
<1>2. SumOn(PartAmounts(n), N) \in Int
  BY <1>1, SumType
<1>3. MapThenSumSet(LAMBDA i : book[n].row.parts[i].amount, N) = SumOn(PartAmounts(n), N)
  BY PartAmountsAre
<1>4. book[n].row.amount = (IF book[n].row.kind = "income" THEN 1 ELSE -1) * SumOn(PartAmounts(n), N)
  BY <1>3 DEF RowsInv, Told
<1>5. book[n].row.amount = Signed(n, SumOn(PartAmounts(n), N))
  BY <1>2, <1>4 DEF Signed
<1>. QED  BY <1>1, <1>5

\* The sizes that amounts are converted by, of any row that is converted.
LEMMA Conversion ==
  ASSUME BookInv, RowsInv, NEW from, NEW to, NEW n \in Shown(from, to)
  PROVE  \E d \in Nat \ {0}, m \in Nat :
           /\ book[n].proj.amount =
                Signed(n, HalfEven(SumOn(PartAmounts(n), DOMAIN book[n].row.parts) * m, d))
           /\ Len(book[n].row.parts) # 1 => \A i \in DOMAIN book[n].row.parts :
                PartBases(n)[i] = HalfEven(PartAmounts(n)[i] * m, d)
           /\ Len(book[n].row.parts) = 1 => PartBases(n)[1] = Abs(book[n].proj.amount)
<1>. DEFINE N == DOMAIN book[n].row.parts
<1>1. n \in DOMAIN book /\ book[n].live /\ book[n].proj # Pending /\ book[n].row.kind \in {"income", "expense"}
  BY ShownAre
<1>2. PICK c : c = book[n].currency
  OBVIOUS
<1>3. PICK rate \in Nat : rate = book[n].proj.rate
  BY <1>1, <1>2, ProjectionIs
<1>4. /\ c \in Currencies /\ book[n].proj.base = base
      /\ c = base => book[n].proj.amount = book[n].row.amount /\ rate = Scale
      /\ c # base => book[n].proj.amount = Convert(book[n].row.amount, c, base, rate)
  BY <1>1, <1>2, <1>3, ProjectionIs
<1>5. PICK x \in Nat \ {0}, y \in Nat \ {0}, s \in Nat \ {0} : x = Conv[c] /\ y = Conv[base] /\ s = Scale
  BY <1>4, BookIs, ReportsGiven
<1>6. PICK d \in Nat \ {0} : d = x * s
  OBVIOUS
<1>7. PICK m \in Nat : m = rate * y
  OBVIOUS
<1>8. ASSUME NEW amount \in Int
      PROVE  Convert(amount, c, base, rate) = HalfEven(amount * m, d)
  <2>1. amount * rate * y = amount * (rate * y)
    OBVIOUS
  <2>. QED  BY <1>5, <1>6, <1>7, <2>1 DEF Convert
<1>9. PICK A \in Nat : A = SumOn(PartAmounts(n), N)
  <2>1. IsFiniteSet(N)
    BY <1>1, BookIs, PartsTyped
  <2>2. \A i \in N : PartAmounts(n)[i] \in Nat
    BY <1>1, PartAmountsAdd
  <2>3. PICK h : h = [i \in N |-> HalfEven(PartAmounts(n)[i] * m, d)]
    OBVIOUS
  <2>4. \A i \in N : h[i] = HalfEven(PartAmounts(n)[i] * m, d)
    BY <2>3
  <2>5. PICK a : a = PartAmounts(n)
    OBVIOUS
  <2>6. \A i \in N : a[i] \in Nat /\ h[i] = HalfEven(a[i] * m, d)
    BY <2>2, <2>4, <2>5
  <2>7. SumOn(a, N) \in Nat
    BY <2>1, <2>6, PartsAreNear
  <2>. QED  BY <2>5, <2>7
<1>10. book[n].row.amount = Signed(n, A)
  BY <1>1, <1>9, PartAmountsAdd
<1>11. book[n].proj.amount = Signed(n, HalfEven(A * m, d))
  <2>1. CASE c = base
    <3>1. m = d
      <4>1. rate = s /\ x = y
        BY <1>4, <1>5, <2>1
      <4>. QED  BY <1>6, <1>7, <4>1
    <3>2. HalfEven(A * m, d) = A
      BY <3>1, HalfEvenIsExact
    <3>. QED  BY <1>4, <1>10, <2>1, <3>2
  <2>2. CASE c # base
    <3>1. PICK z \in Int : z = A * m /\ (-A) * m = -z
      OBVIOUS
    <3>2. HalfEven(-z, d) = -HalfEven(z, d)
      BY HalfEvenIsNear
    <3>3. CASE book[n].row.kind = "income"
      <4>1. book[n].row.amount = A
        BY <1>10, <3>3 DEF Signed
      <4>2. book[n].proj.amount = HalfEven(A * m, d)
        BY <1>4, <1>8, <2>2, <4>1
      <4>. QED  BY <3>3, <4>2 DEF Signed
    <3>4. CASE book[n].row.kind # "income"
      <4>1. book[n].row.amount = -A /\ -A \in Int
        BY <1>10, <3>4 DEF Signed
      <4>2. book[n].proj.amount = HalfEven((-A) * m, d)
        BY <1>4, <1>8, <2>2, <4>1
      <4>. QED  BY <3>1, <3>2, <3>4, <4>2 DEF Signed
    <3>. QED  BY <3>3, <3>4
  <2>. QED  BY <2>1, <2>2
<1>12. ASSUME NEW i \in N, Len(book[n].row.parts) # 1
       PROVE  PartBases(n)[i] = HalfEven(PartAmounts(n)[i] * m, d)
  <2>1. PICK a \in Nat : a = PartAmounts(n)[i] /\ a = book[n].row.parts[i].amount
    BY <1>1, PartAmountsAdd DEF PartAmounts
  <2>2. PartBases(n)[i] = Abs(Convert(a, c, base, rate))
    BY <1>2, <1>3, <1>4, <1>12, <2>1 DEF PartBases, PartBase
  <2>3. PICK z \in Nat : z = a * m
    OBVIOUS
  <2>4. HalfEven(z, d) >= 0 /\ HalfEven(z, d) \in Int
    BY HalfEvenIsNear
  <2>5. Abs(HalfEven(z, d)) = HalfEven(z, d)
    BY <2>4 DEF Abs
  <2>6. Convert(a, c, base, rate) = HalfEven(z, d)
    BY <1>8, <2>3
  <2>. QED  BY <2>1, <2>2, <2>3, <2>5, <2>6
<1>13. Len(book[n].row.parts) = 1 => PartBases(n)[1] = Abs(book[n].proj.amount)
  <2>1. Len(book[n].row.parts) = 1 => 1 \in N
    BY <1>1, BookIs, PartsTyped
  <2>. QED  BY <2>1 DEF PartBases, PartBase
<1>. QED  BY <1>9, <1>11, <1>12, <1>13

LEMMA CountIs == \A n \in Nat : Cardinality(1..n) = n
BY FS_Interval

LEMMA RowDrifts ==
  ASSUME BookInv, RowsInv, NEW from, NEW to, NEW n \in Shown(from, to),
         NEW w, w = Signed(n, SumOn(BaseOf, RowParts(from, to, n))) - book[n].proj.amount
  PROVE  /\ w \in Int
         /\ Len(book[n].row.parts) > 1 =>
              2 * w <= Len(book[n].row.parts) + 1 /\ -(Len(book[n].row.parts) + 1) <= 2 * w
         /\ ~(Len(book[n].row.parts) > 1) => w = 0
<1>. DEFINE N == DOMAIN book[n].row.parts
            a == PartAmounts(n)
            h == PartBases(n)
<1>1. n \in DOMAIN book /\ book[n].live /\ book[n].proj # Pending /\ book[n].row.kind \in {"income", "expense"}
  BY ShownAre
<1>2. PICK L \in Nat : L = Len(book[n].row.parts) /\ N = 1..L /\ IsFiniteSet(N)
  BY <1>1, BookIs, PartsTyped
<1>3. PICK d \in Nat \ {0}, m \in Nat :
        /\ book[n].proj.amount = Signed(n, HalfEven(SumOn(a, N) * m, d))
        /\ L # 1 => \A i \in N : h[i] = HalfEven(a[i] * m, d)
        /\ L = 1 => h[1] = Abs(book[n].proj.amount)
  BY <1>2, Conversion
<1>4. \A i \in N : a[i] \in Nat
  BY <1>1, PartAmountsAdd
<1>5. SumOn(BaseOf, RowParts(from, to, n)) = SumOn(h, N) /\ SumOn(h, N) \in Int
  BY RowPartsAdd
<1>. HIDE DEF a, h
<1>6. PICK A \in Nat : A = SumOn(a, N)
  <2>1. PICK e : e = [i \in N |-> HalfEven(a[i] * m, d)]
    OBVIOUS
  <2>2. \A i \in N : e[i] = HalfEven(a[i] * m, d)
    BY <2>1
  <2>3. SumOn(a, N) \in Nat
    BY <1>2, <1>4, <2>2, PartsAreNear
  <2>. QED  BY <2>3
<1>7. PICK z \in Nat : z = A * m
  OBVIOUS
<1>8. PICK P \in Int : P = HalfEven(z, d) /\ P >= 0 /\ (z = 0 => P = 0)
  <2>1. z \in Int /\ z >= 0
    OBVIOUS
  <2>2. HalfEven(z, d) \in Int /\ HalfEven(z, d) >= 0 /\ (z = 0 => HalfEven(z, d) = 0)
    BY <2>1, HalfEvenIsNear
  <2>. QED  BY <2>2
<1>9. book[n].proj.amount = Signed(n, P)
  BY <1>3, <1>6, <1>7, <1>8
<1>10. PICK E \in Int : E = SumOn(h, N)
  BY <1>5
<1>11. w = Signed(n, E) - Signed(n, P)
  BY <1>5, <1>9, <1>10
<1>12. w = E - P \/ w = P - E
  BY <1>11 DEF Signed
<1>13. CASE L = 0
  <2>1. N = {}
    BY <1>2, <1>13
  <2>2. E = 0 /\ A = 0
    BY <1>6, <1>10, <2>1, SumEmpty
  <2>3. z = 0
    BY <1>7, <2>2
  <2>4. P = 0
    BY <1>8, <2>3
  <2>5. w = 0
    BY <1>12, <2>2, <2>4
  <2>. QED  BY <1>2, <1>13, <2>5
<1>14. CASE L = 1
  <2>1. N = {1}
    BY <1>2, <1>14
  <2>2. h[1] = P
    BY <1>3, <1>8, <1>9, <1>14 DEF Signed, Abs
  <2>3. E = P
    BY <1>8, <1>10, <2>1, <2>2, SumSingle
  <2>. QED  BY <1>2, <1>12, <1>14, <2>3
<1>15. CASE L > 1
  <2>1. \A i \in N : h[i] = HalfEven(a[i] * m, d)
    BY <1>3, <1>15
  <2>2. P = HalfEven(SumOn(a, N) * m, d)
    BY <1>6, <1>7, <1>8
  <2>3. Cardinality(N) = L
    BY <1>2, CountIs
  <2>4. 2 * (E - P) <= L + 1 /\ 2 * (P - E) <= L + 1
    BY <1>2, <1>4, <1>10, <2>1, <2>2, <2>3, SplitIsNear
  <2>5. w \in Int /\ 2 * w <= L + 1 /\ -(L + 1) <= 2 * w
    BY <1>12, <2>4
  <2>. QED  BY <1>2, <1>15, <2>5
<1>. QED  BY <1>13, <1>14, <1>15

\* What the parts of the rows of a report are worth, and the rows themselves.
LEMMA DriftIsSmall ==
  ASSUME BookInv, RowsInv, NEW from, NEW to,
         NEW drift, drift = Totals(from, to).income - Totals(from, to).expense
                            - MapThenSumSet(LAMBDA n : book[n].proj.amount, Shown(from, to)),
         NEW split, split = {n \in Shown(from, to) : Len(book[n].row.parts) > 1}
  PROVE  2 * Abs(drift) <= MapThenSumSet(LAMBDA n : Len(book[n].row.parts) + 1, split)
<1>. DEFINE S == Shown(from, to)
            all == Parts(S)
            I == {n \in S : book[n].row.kind = "income"}
            X == {n \in S : book[n].row.kind = "expense"}
            E == [n \in S |-> SumOn(BaseOf, RowParts(from, to, n))]
            s == [n \in S |-> Signed(n, E[n])]
            q == [n \in S |-> book[n].proj.amount]
            w == [n \in S |-> s[n] - q[n]]
            b == [n \in split |-> Len(book[n].row.parts) + 1]
            k == [p \in all |-> p[1]]
<1>1. /\ S \in SUBSET DOMAIN book /\ IsFiniteSet(S)
      /\ \A n \in S : /\ n \in DOMAIN book /\ book[n].live /\ book[n].proj # Pending
                      /\ book[n].row.kind \in {"income", "expense"}
  BY ShownAre
<1>2. \A n \in S : E[n] \in Int /\ E[n] = SumOn(BaseOf, RowParts(from, to, n))
  BY RowPartsAdd
<1>3. \A n \in S : s[n] = Signed(n, E[n]) /\ s[n] \in Int
  BY <1>2 DEF Signed
<1>4. \A n \in S : q[n] = book[n].proj.amount /\ q[n] \in Int
  <2>1. ASSUME NEW n \in S PROVE book[n].proj.amount \in Int
    BY <1>1, ProjectionIs
  <2>. QED  BY <2>1
<1>5. \A n \in S : w[n] = s[n] - q[n] /\ w[n] \in Int
  BY <1>3, <1>4
<1>6. \A n \in S : w[n] = Signed(n, SumOn(BaseOf, RowParts(from, to, n))) - book[n].proj.amount
  BY <1>2, <1>3, <1>4, <1>5
<1>7. ASSUME NEW kind, NEW N, N = {n \in S : book[n].row.kind = kind}
      PROVE  Total(InKind(all, kind)) = SumOn(E, N)
  <2>. DEFINE ps == InKind(all, kind)
  <2>1. ps \in SUBSET all
    BY DEF InKind
  <2>2. IsFiniteSet(ps) /\ Total(ps) = SumOn(BaseOf, ps) /\ \A p \in ps : BaseOf[p] \in Int
    BY <2>1, TotalIsSum
  <2>3. IsFiniteSet(N) /\ N \in SUBSET S
    BY <1>1, <1>7, FS_Subset
  <2>4. \A p \in all : p[1] \in S /\ k[p] = p[1]
    BY <1>1, PartsAre
  <2>5. \A p \in ps : k[p] \in N /\ k[p] = p[1]
    BY <1>7, <2>1, <2>4 DEF InKind
  <2>6. ASSUME NEW n \in N
        PROVE  \E U : E[n] = SumOn(BaseOf, U) /\ \A p : p \in U <=> p \in ps /\ k[p] = n
    <3>1. n \in S /\ book[n].row.kind = kind
      BY <1>7
    <3>2. \A p : p \in RowParts(from, to, n) <=> p \in ps /\ k[p] = n
      BY <2>4, <3>1 DEF RowParts, InKind
    <3>3. E[n] = SumOn(BaseOf, RowParts(from, to, n))
      BY <1>2, <3>1
    <3>. HIDE DEF ps, k, E
    <3>. QED  BY <3>2, <3>3
  <2>7. PICK f, g : f = BaseOf /\ g = E
    OBVIOUS
  <2>. HIDE DEF ps, k, E, S, all
  <2>8. \A p \in ps : f[p] \in Int
    BY <2>2, <2>7
  <2>9. \A n \in N : \E U : g[n] = SumOn(f, U) /\ \A p : p \in U <=> p \in ps /\ k[p] = n
    BY <2>6, <2>7
  <2>10. \A p \in ps : k[p] \in N
    BY <2>5
  <2>11. IsFiniteSet(N) /\ IsFiniteSet(ps)
    BY <2>2, <2>3
  <2>12. SumOn(g, N) = SumOn(f, ps)
    BY <2>8, <2>9, <2>10, <2>11, SumGroups
  <2>. QED  BY <2>2, <2>7, <2>12 DEF ps
<1>8. /\ Totals(from, to).income = SumOn(E, I)
      /\ Totals(from, to).expense = SumOn(E, X)
  <2>1. /\ Totals(from, to).income = Total(InKind(all, "income"))
        /\ Totals(from, to).expense = Total(InKind(all, "expense"))
    BY DEF Totals, Finalized, Shown
  <2>2. Total(InKind(all, "income")) = SumOn(E, I)
    BY <1>7
  <2>3. Total(InKind(all, "expense")) = SumOn(E, X)
    BY <1>7
  <2>. QED  BY <2>1, <2>2, <2>3
<1>9. /\ S = I \cup X /\ I \cap X = {}
      /\ IsFiniteSet(I) /\ IsFiniteSet(X) /\ I \in SUBSET S /\ X \in SUBSET S
  <2>1. S = I \cup X /\ I \cap X = {}
    BY <1>1
  <2>2. IsFiniteSet(I) /\ IsFiniteSet(X)
    BY <1>1, FS_Subset
  <2>. QED  BY <2>1, <2>2
<1>10. /\ \A n \in I : s[n] = E[n]
       /\ \A n \in X : s[n] = -E[n] /\ s[n] + E[n] = 0
  BY <1>2, <1>3, <1>9 DEF Signed
<1>11. MapThenSumSet(LAMBDA n : book[n].proj.amount, Shown(from, to)) = SumOn(q, S)
  BY RowsAreSums
<1>12. MapThenSumSet(LAMBDA n : Len(book[n].row.parts) + 1, split) = SumOn(b, split)
  BY RowsAreSums
<1>13. split \in SUBSET S /\ IsFiniteSet(split)
  BY <1>1, FS_Subset
<1>14. ASSUME NEW n \in split
       PROVE  w[n] \in Int /\ b[n] \in Int /\ 2 * w[n] <= b[n] /\ -b[n] <= 2 * w[n]
  <2>1. n \in S /\ Len(book[n].row.parts) > 1 /\ b[n] = Len(book[n].row.parts) + 1
    OBVIOUS
  <2>2. Len(book[n].row.parts) \in Nat
    BY <1>1, <2>1, BookIs, PartsTyped
  <2>3. 2 * w[n] <= Len(book[n].row.parts) + 1 /\ -(Len(book[n].row.parts) + 1) <= 2 * w[n]
    BY <1>6, <2>1, RowDrifts
  <2>. HIDE DEF w, b
  <2>. QED  BY <1>5, <2>1, <2>2, <2>3
<1>15. ASSUME NEW n \in S \ split PROVE w[n] = 0
  <2>1. n \in S /\ ~(Len(book[n].row.parts) > 1)
    OBVIOUS
  <2>. HIDE DEF w
  <2>. QED  BY <1>6, <2>1, RowDrifts
<1>. HIDE DEF S, all, I, X, E, s, q, w, b, k
<1>16. SumOn(s, S) = SumOn(E, I) - SumOn(E, X) /\ SumOn(s, S) \in Int
  <2>1. SumOn(s, S) = SumOn(s, I) + SumOn(s, X)
    BY <1>3, <1>9, SumUnion
  <2>2. SumOn(s, I) = SumOn(E, I)
    BY <1>9, <1>10, SumSame
  <2>3. PICK z : z = [n \in X |-> 0]
    OBVIOUS
  <2>4. SumOn(z, X) = 0
    <3>1. \A n \in X : z[n] = 0
      BY <2>3
    <3>. QED  BY <1>9, <3>1, SumZero
  <2>5. SumOn(z, X) = SumOn(s, X) + SumOn(E, X)
    <3>1. \A n \in X : s[n] \in Int /\ E[n] \in Int /\ z[n] = s[n] + E[n]
      BY <1>2, <1>3, <1>9, <1>10, <2>3
    <3>. QED  BY <1>9, <3>1, SumOfSum
  <2>6. SumOn(s, X) \in Int /\ SumOn(E, X) \in Int /\ SumOn(E, I) \in Int
    <3>1. \A n \in X : s[n] \in Int /\ E[n] \in Int
      BY <1>2, <1>3, <1>9
    <3>2. \A n \in I : E[n] \in Int
      BY <1>2, <1>9
    <3>. QED  BY <1>9, <3>1, <3>2, SumType
  <2>. QED  BY <2>1, <2>2, <2>4, <2>5, <2>6
<1>17. SumOn(s, S) = SumOn(w, S) + SumOn(q, S)
  <2>1. \A n \in S : w[n] \in Int /\ q[n] \in Int /\ s[n] = w[n] + q[n]
    BY <1>3, <1>4, <1>5
  <2>. QED  BY <1>1, <2>1, SumOfSum
<1>18. SumOn(w, S) = SumOn(w, split)
  <2>1. (\A n \in split : w[n] \in Int) /\ \A n \in S \ split : w[n] = 0
    BY <1>14, <1>15
  <2>. QED  BY <1>1, <1>13, <2>1, SumSupport
<1>19. /\ SumOn(w, split) \in Int /\ SumOn(b, split) \in Int
       /\ 2 * SumOn(w, split) <= SumOn(b, split) /\ -SumOn(b, split) <= 2 * SumOn(w, split)
  BY <1>13, <1>14, SumIsNear
<1>20. SumOn(q, S) \in Int
  BY <1>1, <1>4, SumType
<1>21. drift = SumOn(w, split)
  <2>1. drift = SumOn(E, I) - SumOn(E, X) - SumOn(q, S)
    BY <1>8, <1>11
  <2>. QED  BY <1>16, <1>17, <1>18, <1>19, <1>20, <2>1
<1>22. 2 * Abs(drift) <= SumOn(b, split)
  BY <1>19, <1>21 DEF Abs
<1>. QED  BY <1>12, <1>22

LEMMA CashFlowTells == ASSUME BookInv, RowsInv PROVE ReportsAgree
<1>. SUFFICES ASSUME NEW from \in Days, NEW to \in from..LastDay
     PROVE  LET all == Totals(from, to)
                categories == {CategoryOf(p) : p \in Parts(Flows(from, to))}
                whole == Converted(Flows(from, to))
                split == {n \in whole : Len(book[n].row.parts) > 1}
                drift == all.income - all.expense - MapThenSumSet(LAMBDA n : book[n].proj.amount, whole)
            IN /\ all.income = MapThenSumSet(LAMBDA c : ByCategory(from, to, "income", c), categories)
               /\ all.expense = MapThenSumSet(LAMBDA c : Spent(from, to, c), categories)
               /\ \A buckets \in {Buckets(from, to, interval) : interval \in Intervals} :
                    LET series == CashFlowSeries(from, to, buckets)
                    IN \A i \in DOMAIN buckets : series[i] = Totals(buckets[i].first, buckets[i].last)
               /\ 2 * Abs(drift) <= MapThenSumSet(LAMBDA n : Len(book[n].row.parts) + 1, split)
  BY DEF ReportsAgree
<1>. DEFINE all == Totals(from, to)
            categories == {CategoryOf(p) : p \in Parts(Flows(from, to))}
            whole == Converted(Flows(from, to))
            split == {n \in whole : Len(book[n].row.parts) > 1}
            drift == all.income - all.expense - MapThenSumSet(LAMBDA n : book[n].proj.amount, whole)
<1>1. whole = Shown(from, to)
  BY DEF Shown
<1>2. /\ all.income = Total(InKind(Parts(Shown(from, to)), "income"))
      /\ all.expense = Total(InKind(Parts(Shown(from, to)), "expense"))
  BY DEF Totals, Finalized, Shown
<1>3. all.income = MapThenSumSet(LAMBDA c : ByCategory(from, to, "income", c), categories)
  <2>1. PICK g : g = [c \in categories |-> ByCategory(from, to, "income", c)]
    OBVIOUS
  <2>2. \A c \in categories : g[c] = ByCategory(from, to, "income", c)
    BY <2>1
  <2>3. all.income = SumOn(g, categories)
    BY <1>2, <2>2, CategoriesAdd
  <2>. HIDE DEF categories
  <2>4. MapThenSumSet(LAMBDA c : ByCategory(from, to, "income", c), categories)
        = SumOn([c \in categories |-> ByCategory(from, to, "income", c)], categories)
    BY DEF SumOn, MapThenSumSet, MapThenFoldSet
  <2>. QED  BY <2>1, <2>3, <2>4
<1>4. all.expense = MapThenSumSet(LAMBDA c : Spent(from, to, c), categories)
  <2>1. PICK g : g = [c \in categories |-> Spent(from, to, c)]
    OBVIOUS
  <2>2. \A c \in categories : g[c] = ByCategory(from, to, "expense", c)
    BY <2>1, SpentIsByCategory
  <2>3. all.expense = SumOn(g, categories)
    BY <1>2, <2>2, CategoriesAdd
  <2>. HIDE DEF categories
  <2>4. MapThenSumSet(LAMBDA c : Spent(from, to, c), categories)
        = SumOn([c \in categories |-> Spent(from, to, c)], categories)
    BY DEF SumOn, MapThenSumSet, MapThenFoldSet
  <2>. QED  BY <2>1, <2>3, <2>4
<1>5. ASSUME NEW interval \in Intervals, NEW buckets, buckets = Buckets(from, to, interval), NEW i \in DOMAIN buckets
      PROVE  CashFlowSeries(from, to, buckets)[i] = Totals(buckets[i].first, buckets[i].last)
  BY <1>5, BookIs, BucketsTell
<1>6. 2 * Abs(drift) <= MapThenSumSet(LAMBDA n : Len(book[n].row.parts) + 1, split)
  BY <1>1, DriftIsSmall
<1>7. \A buckets \in {Buckets(from, to, interval) : interval \in Intervals} :
        \A i \in DOMAIN buckets :
          CashFlowSeries(from, to, buckets)[i] = Totals(buckets[i].first, buckets[i].last)
  BY <1>5
<1>. HIDE DEF categories, drift, split
<1>. QED  BY <1>3, <1>4, <1>6, <1>7 DEF categories, drift, split

\* What is reported is what is in the book: a point of the net-worth series is
\* what its day alone shows, from the rows and the rates of its past, and today's
\* is the balance; the cash flow is the sum of its categories and of its buckets,
\* and splitting moves no more than the roundings (buildNetWorthSeries,
\* computeCanonicalBalance, computeCashFlowReport, computeBudgetProgress).
THEOREM ReportsTell == ReportsSpec => []ReportsTellTheBook
<1>1. ReportsInit => BookInv /\ RowsInv
  BY BookInvInit, RowsInvInit
<1>2. (BookInv /\ RowsInv) /\ [ReportsNext]_reportsVars => (BookInv /\ RowsInv)'
  BY BookInvNext, RowsInvNext
<1>3. BookInv /\ RowsInv => ReportsTellTheBook
  BY SeriesTells, CashFlowTells DEF ReportsTellTheBook
<1>. QED  BY <1>1, <1>2, <1>3, PTL DEF ReportsSpec

=============================================================================
