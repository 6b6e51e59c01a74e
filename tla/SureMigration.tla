---------------------------- MODULE SureMigration ----------------------------
(***************************************************************************)
(* The migration of a family from an export of Sure                        *)
(* (src/src/server/sure-migration.ts): anchors for the valuations of the   *)
(* export, staging, a lockstep of confirming and promoting one chunk,      *)
(* transfer pairs, a closing anchor for each account, and a rebuild.       *)
(*                                                                         *)
(* A run is a sequence of database transactions, one action each.  It may  *)
(* die between any two of them and is then run again, on the same export   *)
(* or a later one, while the user reviews, promotes and deletes.           *)
(*                                                                         *)
(* Left to other modules: the chunks of staging (Imports), what pairs legs *)
(* (SurePairing), and accounts that follow valuations, which get no flow.  *)
(* Categories, merchants and the retained artifact move no money.          *)
(***************************************************************************)
EXTENDS Ordering, FiniteSetsExt, SequencesExt

CONSTANTS
  Accounts,
  Overdraft,    \* accounts that may be negative
  Exports,      \* files that Sure exported
  Id,           \* the ids of Sure's entries
  AccountOf, AmountOf, DayOf,   \* of an entry; the amount is what it adds
  Standard,     \* entries of kind standard that the gates let through
  Excluded,     \* parents of a split, whose children are entries too
  Bundle,       \* file -> its entries, in order
  Pairs,        \* file -> the <<outflow, inflow>> pairs that the pairer made
  Valuations,   \* file -> its valuations [acc, day, value], in order
  Today,
  PromoteChunkSize,
  MaxMigrations,  \* bound on the runs
  MaxTouched,   \* bound on the rows a user reviews
  MaxDeletes    \* bound on the entries a user deletes

\* Sure's ids are keys, and the pairer takes a leg once.
ASSUME SureAssumption ==
  /\ Exports # {} /\ Overdraft \subseteq Accounts /\ Standard \subseteq Id /\ Excluded \subseteq Id
  /\ AccountOf \in [Id -> Accounts] /\ AmountOf \in [Id -> Int] /\ DayOf \in [Id -> Nat \ {0}]
  /\ \A f \in Exports :
       /\ Bundle[f] \in Seq(Id) /\ IsInjective(Bundle[f])
       /\ Pairs[f] \in Seq(Id \X Id)
       /\ \A m \in DOMAIN Pairs[f] :
            /\ Range(Pairs[f][m]) \subseteq Range(Bundle[f]) \ (Standard \cup Excluded)
            /\ \A n \in DOMAIN Pairs[f] :
                 m # n => Range(Pairs[f][m]) \cap Range(Pairs[f][n]) = {}
            /\ Pairs[f][m][1] # Pairs[f][m][2]
  /\ PromoteChunkSize \in Nat \ {0} /\ MaxMigrations \in Nat /\ MaxTouched \in Nat /\ MaxDeletes \in Nat

VARIABLES
  row,       \* file -> id -> the staged row
  book,      \* transactions and anchors, in the order they were created
  balance,
  migration,       \* the migration in flight
  migrations, touched, deletes

migrationVars == <<row, book, balance, migration, migrations, touched, deletes>>

-----------------------------------------------------------------------------
(* Rows. *)

Absent == [status |-> "absent", why |-> FALSE]
Status == {"absent", "normalized", "duplicate", "confirmed", "rejected", "promoted"}

\* key: the idempotency key, minted with the staged row.  partner: the other leg.
Entry(id, key, partner) ==
  [type |-> "entry", ext |-> id, key |-> key, partner |-> partner, live |-> TRUE]
Anchor(a, day, value, key) ==
  [type |-> "anchor", acc |-> a, day |-> day, value |-> value, key |-> key]

Entries == {n \in DOMAIN book : book[n].type = "entry"}

\* Faulty variant: a deleted transaction frees its binding.
BoundLive(id) == \E n \in Entries : book[n].ext = id /\ book[n].live

\* An external id is bound to a transaction, dead or alive.
Bound(id) == \E n \in Entries : book[n].ext = id

Legal(a, value) == value >= 0 \/ a \in Overdraft

-----------------------------------------------------------------------------
(* Balances. *)

AnchorsOf(b, a) == {n \in DOMAIN b : b[n].type = "anchor" /\ b[n].acc = a /\ b[n].day <= Today}
NewestOf(b, ns) == CHOOSE n \in ns : \A m \in ns : b[m].day < b[n].day \/ (b[m].day = b[n].day /\ m <= n)

\* sumTransactionFlowAfterAnchor: dated after the anchor, or recorded after it.
FlowAfter(b, a, n) ==
  MapThenSumSet(LAMBDA m : AmountOf[b[m].ext],
    {m \in DOMAIN b : /\ b[m].type = "entry" /\ b[m].live /\ AccountOf[b[m].ext] = a
                      /\ DayOf[b[m].ext] > b[n].day \/ m > n})

\* computeCanonicalBalance
Canonical(b, a) ==
  IF AnchorsOf(b, a) = {} THEN balance[a]
  ELSE LET n == NewestOf(b, AnchorsOf(b, a)) IN b[n].value + FlowAfter(b, a, n)

\* applyAccountDeltas of the entries ids, each times sign.
Moved(ids, sign) ==
  [a \in Accounts |-> balance[a]
     + sign * MapThenSumSet(LAMBDA id : AmountOf[id], {id \in ids : AccountOf[id] = a})]

-----------------------------------------------------------------------------
(* What Sure says of an account (projectSureMigrationBalances): its last
   valuation, and every entry after it, whether it can be promoted or not. *)

Counted(f, a) == {id \in Range(Bundle[f]) : AccountOf[id] = a /\ id \notin Excluded}

\* A negative valuation is skipped where none may be.
ValuedAt(f, a) == {n \in DOMAIN Valuations[f] :
  LET v == Valuations[f][n] IN v.acc = a /\ v.day <= Today /\ Legal(a, v.value)}
LastValued(f, a) == NewestOf(Valuations[f], ValuedAt(f, a))
Cutoff(f, a) == IF ValuedAt(f, a) = {} THEN 0 ELSE Valuations[f][LastValued(f, a)].day

Projected(f, a) ==
  (IF ValuedAt(f, a) = {} THEN 0 ELSE Valuations[f][LastValued(f, a)].value)
  + MapThenSumSet(LAMBDA id : AmountOf[id], {id \in Counted(f, a) : DayOf[id] > Cutoff(f, a)})

LastActivity(f, a) == Max({Cutoff(f, a)} \cup {DayOf[id] : id \in Counted(f, a)})

-----------------------------------------------------------------------------
(* The run, up to staging. *)

Running(pc) == migration.pc = pc
Goto(pc, todo) == migration' = [migration EXCEPT !.pc = pc, !.todo = todo]
Abort == migration' = [migration EXCEPT !.pc = "idle", !.todo = <<>>, !.seen = <<>>]

\* findSureMigrationPreflightViolations finds nothing.
Start(f) ==
  /\ migration.pc \in {"idle", "done"}
  /\ migrations < MaxMigrations /\ migrations' = migrations + 1
  /\ \A a \in Accounts : Legal(a, Projected(f, a))
  /\ migration' = [pc |-> "anchors", file |-> f, todo |-> Valuations[f], seen |-> <<>>]
  /\ UNCHANGED <<row, book, balance, touched, deletes>>

\* createValuationForFamily, which replays a key that it knows.
PutAnchor(anchor) ==
  IF \E n \in DOMAIN book : book[n] = anchor
  THEN UNCHANGED <<book, balance>>
  ELSE /\ book' = Append(book, anchor)
       /\ balance' = [balance EXCEPT ![anchor.acc] = Canonical(book', anchor.acc)]

\* writeSureValuationAnchors; a negative value is skipped where none may be.
WriteAnchor ==
  /\ Running("anchors") /\ migration.todo # <<>>
  /\ LET v == Head(migration.todo) IN
       IF Legal(v.acc, v.value) THEN PutAnchor(Anchor(v.acc, v.day, v.value, "valuation"))
       ELSE UNCHANGED <<book, balance>>
  /\ Goto("anchors", Tail(migration.todo))
  /\ UNCHANGED <<row, migrations, touched, deletes>>

\* createImportBatchForFamily; a batch that exists is reused as it is.
Stage ==
  /\ Running("anchors") /\ migration.todo = <<>>
  /\ LET f == migration.file IN
       row' = IF \E id \in Id : row[f][id] # Absent THEN row
              ELSE [row EXCEPT ![f] = [id \in Id |->
                     IF id \notin Range(Bundle[f]) THEN Absent
                     ELSE [status |-> IF Bound(id) THEN "duplicate" ELSE "normalized",
                           why |-> FALSE]]]
  /\ Goto("sweep", <<>>)
  /\ UNCHANGED <<book, balance, migrations, touched, deletes>>

-----------------------------------------------------------------------------
(* Confirming and promoting. *)

\* Those of ids that are in an export, in its order.
InBundle(f, ids) ==
  LET at == InOrder({n \in DOMAIN Bundle[f] : Bundle[f][n] \in ids})
  IN [k \in DOMAIN at |-> Bundle[f][at[k]]]

Confirmed(f) == {id \in Range(Bundle[f]) : row[f][id].status = "confirmed"}

\* promoteImportBatchForFamily: all the confirmed rows of the batch, or none.
MayPromote(f) == \A id \in Confirmed(f) : ~Bound(id)
PromoteAll(f) ==
  LET todo == InBundle(f, Confirmed(f)) IN
  /\ book' = book \o [n \in DOMAIN todo |-> Entry(todo[n], <<f, todo[n]>>, 0)]
  /\ balance' = Moved(Confirmed(f), 1)
  /\ row' = [row EXCEPT ![f] = [id \in Id |->
       IF id \in Confirmed(f) THEN [@[id] EXCEPT !.status = "promoted"] ELSE @[id]]]

\* What a run promotes, unless a binding is taken: then the run fails.
PromoteInRun(next) ==
  \/ MayPromote(migration.file) /\ PromoteAll(migration.file) /\ Goto(next, migration.todo)
  \/ ~MayPromote(migration.file) /\ Abort /\ UNCHANGED <<row, book, balance>>

\* Rows that a run which died has confirmed.
Sweep ==
  /\ Running("sweep")
  /\ PromoteInRun("list")
  /\ UNCHANGED <<migrations, touched, deletes>>

List ==
  /\ Running("list")
  /\ LET f == migration.file IN
       Goto("confirm", InBundle(f, {id \in Standard : row[f][id].status = "normalized"}))
  /\ UNCHANGED <<row, book, balance, migrations, touched, deletes>>

\* Faulty variant: all of them at once.
SliceAll(todo) == todo
Slice(todo) == SubSeq(todo, 1, Min({PromoteChunkSize, Len(todo)}))

\* reviewImportRowsForFamily, which fails on a row that was promoted meanwhile.
Confirm ==
  /\ Running("confirm") /\ migration.todo # <<>>
  /\ LET f == migration.file
         slice == Slice(migration.todo)
     IN \/ /\ \A id \in Range(slice) : row[f][id].status # "promoted"
           /\ row' = [row EXCEPT ![f] = [id \in Id |->
                IF id \in Range(slice) THEN [@[id] EXCEPT !.status = "confirmed"] ELSE @[id]]]
           /\ Goto("promote", SubSeq(migration.todo, Len(slice) + 1, Len(migration.todo)))
        \/ /\ \E id \in Range(slice) : row[f][id].status = "promoted"
           /\ Abort /\ UNCHANGED row
  /\ UNCHANGED <<book, balance, migrations, touched, deletes>>

PromoteChunk ==
  /\ Running("promote")
  /\ PromoteInRun("confirm")
  /\ UNCHANGED <<migrations, touched, deletes>>

-----------------------------------------------------------------------------
(* Transfer pairs (pairAndPromoteSureTransfers). *)

\* The rows as they are before the first pair.
ReadRows ==
  /\ Running("confirm") /\ migration.todo = <<>>
  /\ migration' = [migration EXCEPT !.pc = "pairs", !.todo = Pairs[migration.file], !.seen = row[migration.file]]
  /\ UNCHANGED <<row, book, balance, migrations, touched, deletes>>

\* persistSureHeldReason of each of ids.
Held(f, ids) ==
  [row EXCEPT ![f] = [id \in Id |->
     IF id \in ids /\ @[id].status # "promoted" THEN [@[id] EXCEPT !.why = TRUE] ELSE @[id]]]

Settled(id) == migration.seen[id].status \in {"promoted", "duplicate"}

SkipPair ==
  /\ Running("pairs") /\ migration.todo # <<>>
  /\ \E id \in Range(Head(migration.todo)) : Settled(id)
  /\ Goto("pairs", Tail(migration.todo))
  /\ UNCHANGED <<row, book, balance, migrations, touched, deletes>>

PairPending == Running("pairs") /\ migration.todo # <<>> /\ \A id \in Range(Head(migration.todo)) : ~Settled(id)
Keyed(pair) == {n \in Entries : book[n].key = <<migration.file, pair[1]>>}

\* createTransactionForFamily with the key of the outflow's row: replayed, or new.
CreatePair ==
  /\ PairPending
  /\ LET p == Head(migration.todo)
         n == Len(book)
     IN \/ /\ \E m \in Keyed(p) : book[m].partner # 0
           /\ UNCHANGED <<book, balance>>
        \/ /\ Keyed(p) = {} /\ ~Bound(p[1]) /\ ~Bound(p[2])
           /\ book' = book \o <<Entry(p[1], <<migration.file, p[1]>>, n + 2), Entry(p[2], <<>>, n + 1)>>
           /\ balance' = Moved({p[1], p[2]}, 1)
  /\ Goto("mark", migration.todo)
  /\ UNCHANGED <<row, migrations, touched, deletes>>

\* It throws, here or while it marks the rows: a key of another payload, a
\* binding that is taken, or anything else.  The outflow is held, and then, in a
\* database transaction of its own, the inflow.
RejectPair ==
  /\ PairPending \/ Running("mark")
  /\ row' = Held(migration.file, {Head(migration.todo)[1]})
  /\ Goto("hold", migration.todo)
  /\ UNCHANGED <<book, balance, migrations, touched, deletes>>

HoldInflow ==
  /\ Running("hold")
  /\ row' = Held(migration.file, {Head(migration.todo)[2]})
  /\ Goto("pairs", Tail(migration.todo))
  /\ UNCHANGED <<book, balance, migrations, touched, deletes>>

\* markSureTransferRowPromoted of each of ids.
Marked(f, ids) ==
  [row EXCEPT ![f] = [id \in Id |->
     IF id \in ids THEN [status |-> "promoted", why |-> FALSE] ELSE @[id]]]

\* The second database transaction.
MarkPair ==
  /\ Running("mark")
  /\ row' = Marked(migration.file, Range(Head(migration.todo)))
  /\ Goto("pairs", Tail(migration.todo))
  /\ UNCHANGED <<book, balance, migrations, touched, deletes>>

Legs(f) == Range(Bundle[f]) \ (Standard \cup Excluded)
Paired(f) == UNION {Range(p) : p \in Range(Pairs[f])}

\* Faulty variant: a leg that no pair was made of gets no reason.
UnpairedNone(f) == {}
Unpaired(f) == {id \in Legs(f) \ Paired(f) : migration.seen[id].status \notin {"promoted", "duplicate"}}

\* The reasons of the pairer, one leg at a time.
Unheld(f) == {id \in Unpaired(f) : row[f][id].status # "promoted" /\ ~row[f][id].why}

HoldLeg(id) ==
  /\ Running("pairs") /\ migration.todo = <<>> /\ id \in Unheld(migration.file)
  /\ row' = Held(migration.file, {id})
  /\ UNCHANGED <<book, balance, migration, migrations, touched, deletes>>

EndPairs ==
  /\ Running("pairs") /\ migration.todo = <<>> /\ Unheld(migration.file) = {}
  /\ Goto("close", SetToSeq({a \in Accounts : LastActivity(migration.file, a) > 0}))
  /\ UNCHANGED <<row, book, balance, migrations, touched, deletes>>

-----------------------------------------------------------------------------
(* Closing. *)

\* writeSureFinalReconciliationAnchors, one account.
CloseAccount ==
  /\ Running("close") /\ migration.todo # <<>>
  /\ LET a == Head(migration.todo) IN
       PutAnchor(Anchor(a, LastActivity(migration.file, a) + 1, Projected(migration.file, a), "final"))
  /\ Goto("close", Tail(migration.todo))
  /\ UNCHANGED <<row, migrations, touched, deletes>>

\* rebuildFamilyBalances, without the bypass of the sign rule.
Rebuild ==
  /\ Running("close") /\ migration.todo = <<>>
  /\ LET rebuilt == [a \in Accounts |-> Canonical(book, a)] IN
       \/ (\A a \in Accounts : Legal(a, rebuilt[a])) /\ balance' = rebuilt /\ Goto("done", <<>>)
       \/ (\E a \in Accounts : ~Legal(a, rebuilt[a])) /\ Abort /\ UNCHANGED balance
  /\ UNCHANGED <<row, book, migrations, touched, deletes>>

Crash ==
  /\ migration.pc \notin {"idle", "done"}
  /\ Abort
  /\ UNCHANGED <<row, book, balance, migrations, touched, deletes>>

-----------------------------------------------------------------------------
(* The user, at any time. *)

ReviewRow(f, id, verdict) ==
  /\ row[f][id].status \notin {"absent", "promoted", verdict}
  /\ touched' = touched \cup {<<f, id>>} /\ Cardinality(touched') <= MaxTouched
  /\ row' = [row EXCEPT ![f][id].status = verdict]
  /\ UNCHANGED <<book, balance, migration, migrations, deletes>>

PromoteBatch(f) ==
  /\ Confirmed(f) # {} /\ MayPromote(f) /\ PromoteAll(f)
  /\ \A a \in Accounts : Legal(a, balance'[a])
  /\ UNCHANGED <<migration, migrations, touched, deletes>>

\* deleteTransactionForFamily takes both legs of a transfer.
DeleteEntry(n) ==
  /\ n \in Entries /\ book[n].live
  /\ deletes < MaxDeletes /\ deletes' = deletes + 1
  /\ LET gone == {n} \cup ({book[n].partner} \ {0}) IN
       /\ book' = [m \in DOMAIN book |->
            IF m \in gone THEN [book[m] EXCEPT !.live = FALSE] ELSE book[m]]
       /\ balance' = Moved({book[m].ext : m \in gone}, -1)
  /\ \A a \in Accounts : Legal(a, balance'[a])
  /\ UNCHANGED <<row, migration, migrations, touched>>

-----------------------------------------------------------------------------
(* Specification. *)

MigrationInit ==
  /\ row = [f \in Exports |-> [id \in Id |-> Absent]]
  /\ book = <<>>
  /\ balance = [a \in Accounts |-> 0]
  /\ migration = [pc |-> "idle", file |-> CHOOSE f \in Exports : TRUE, todo |-> <<>>, seen |-> <<>>]
  /\ migrations = 0 /\ touched = {} /\ deletes = 0

MigrationNext ==
  \/ \E f \in Exports :
       \/ Start(f) \/ PromoteBatch(f)
       \/ \E id \in Range(Bundle[f]), v \in {"confirmed", "rejected"} : ReviewRow(f, id, v)
  \/ WriteAnchor \/ Stage \/ Sweep \/ List \/ Confirm \/ PromoteChunk
  \/ ReadRows \/ SkipPair \/ CreatePair \/ RejectPair \/ HoldInflow \/ MarkPair
  \/ EndPairs \/ \E id \in Id : HoldLeg(id)
  \/ CloseAccount \/ Rebuild \/ Crash
  \/ \E n \in Entries : DeleteEntry(n)

MigrationSpec == MigrationInit /\ [][MigrationNext]_migrationVars

-----------------------------------------------------------------------------
(* Properties. *)

\* Every variable has its type.
MigrationTypeOK ==
  /\ row \in [Exports -> [Id -> [status : Status, why : BOOLEAN]]]
  /\ \A n \in Entries : book[n].ext \in Id /\ book[n].partner \in {0} \cup Entries
  /\ balance \in [Accounts -> Int]
  /\ migration.file \in Exports

\* An entry of Sure is booked once, ever: not again by a run that follows a
\* crash, a later export, a promotion by the user or a delete, and the legs of a
\* transfer live and die together (ADR-0041 7, ADR-0042).
SureEntryIsBookedOnce ==
  /\ \A m, n \in Entries : book[m].ext = book[n].ext => m = n
  /\ \A m \in Entries : book[m].partner # 0 =>
       /\ book[book[m].partner].partner = m
       /\ book[book[m].partner].live = book[m].live

\* When a run has finished, whatever runs died before it, every row that says it
\* was promoted is in the ledger, every entry that the gates let through is, and
\* every leg that is not has its reason; but for rows that a user reviewed, the
\* other legs of their transfers, and those of a leg that an export paired
\* otherwise.
FinishedRunBooksAll ==
  Running("done") =>
    \A id \in Range(Bundle[migration.file]) :
      LET r == row[migration.file][id] IN
      /\ r.status = "promoted" => Bound(id)
      /\ <<migration.file, id>> \notin touched =>
           /\ id \in Standard => Bound(id)
           /\ id \in Legs(migration.file) =>
                \/ Bound(id) \/ r.why
                \/ \E p \in Range(Pairs[migration.file]) :
                     id \in Range(p) /\ \E f \in Exports :
                       \/ \E leg \in Range(p) : <<f, leg>> \in touched
                       \/ \E q \in Range(Pairs[f]) : q # p /\ Range(q) \cap Range(p) # {}

\* A run never confirms more than one chunk ahead of what is promoted, which
\* bounds every promotion (ADR-0044 4, "LOCKSTEP INVARIANT").
LockstepHolds ==
  \A f \in Exports : Cardinality({id \in Confirmed(f) : <<f, id>> \notin touched}) <= PromoteChunkSize

\* What a run promises, whatever dies or is reviewed around it.
RunKeepsItsWord == SureEntryIsBookedOnce /\ FinishedRunBooksAll /\ LockstepHolds

\* A run that has finished leaves every account at what Sure says
\* (writeSureFinalReconciliationAnchors).
FinishedRunMatchesSure ==
  Running("done") /\ deletes = 0 /\ touched = {} =>
    \A a \in Accounts : LastActivity(migration.file, a) > 0 => balance[a] = Projected(migration.file, a)

=============================================================================
