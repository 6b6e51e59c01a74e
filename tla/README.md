# Permoney in TLA+

Permoney is a multi-tenant personal-finance application: a TypeScript server
(`src/src/server`) over PostgreSQL (`src/prisma`). What a user trusts it with is
a number per account. This directory specifies how the program keeps those
numbers right: what a form or a file becomes on its way to the server, which rows
the server writes, in which order, under which concurrency, what it answers, and
what it undoes. The modules are written from the source;
`PROJECT.json` maps each definition to the lines it stands for. Paths below are
relative to the repository root (`src/`), so `src/server/transactions.ts` is
`src/src/server/transactions.ts` here.

Contents: [inventory](#inventory), [modules](#the-modules), [runs](#the-runs),
[bounds](#bounds-and-why-they-suffice), [fairness](#fairness),
[proofs](#the-proofs), [divergences](#where-code-and-documents-disagree),
[plan](#plan), [not modelled](#not-modelled).

## Inventory

### Storage and concurrency

All state is in PostgreSQL. Every mutation runs in one `SERIALIZABLE`
transaction opened by `scopedTenantTransaction` (`middleware/with-family.ts`),
which also sets the tenant for row-level security. `withSerializableRetry`
(`middleware/with-retry.ts`) repeats it on SQLSTATE 40001 or `P2034` and on the
application's own `VersionDriftError`, three times at most, then throws
`BalanceConflictError`. Account balances carry an optimistic `version`. Many
server processes may run at once; the database is all they share.

### Components

| component | state | operations | what makes it correct |
|---|---|---|---|
| transaction ledger (`transactions.ts`) | `Transaction`, `Transfer`, `Account.balance`, `AuditLog` | create, bulk create, delete, bulk delete, update (reverse and replace), bulk update, list | a balance is the sum of live rows; transfers and their legs live and die together; fees follow their transfer; history is append-only and unforked; nothing is shown twice or hidden |
| valuation-linked transfers (`transactions.ts`, `valuations.ts`) | one cash row, one `Valuation`, one `Transfer` | contribute, redeem, restate, delete | the cash side is a sum of rows, the tracked side its newest valuation, and both sides are undone together |
| valuations and anchors (`valuations.ts`) | `Valuation`, `Account.balance` | set value, reconcile, rebuild, detect drift | the stored balance is the one recomputed from the latest anchor and the flow after it |
| idempotent requests (`transactions.ts`, `idempotency-records.ts`) | idempotency columns, `IdempotencyRecord` | replay, rescue, refuse | one effect per key under retries, races, crashes and resends; answers are true |
| tenant transactions (`with-family.ts`) | none | begin, commit, abort | isolation; the other modules rest on it |
| membership (`family-members.ts`, `authz.ts`, `onboarding-service.ts`, `auth.server.ts`) | `FamilyMember`, `User.familyId` | found, add, change role, remove, transfer ownership; the user's own change of the pointer | a family always has an active owner; nobody acts on a membership lost meanwhile; no handler takes over a user who has a family |
| account lifecycle (`accounts.ts`) | `Account`, cascaded rows | create, update, archive, reactivate, switch to holdings, delete in chunks | no live row on a deleted account; deletion is resumable and ends |
| imports (`imports.ts`) | `ImportBatch`, `RawImportedTransaction` | stage in chunks, review, promote | each row is booked once, over crashes and repeated calls |
| holdings and trades (`holdings.ts`) | `Holding`, `Instrument`, `Valuation` | buy, sell, switch, distribute, fee, edit, link, refresh, value | the account is worth what its positions are; the cost basis adds up |
| Sure migration (`sure-migration.ts`) | runs, staged rows, pairs, anchors | stage, confirm and promote in lockstep, pair, close, rebuild | a resumed run neither repeats nor loses an entry; nothing is paired by guess |
| debts (`debts.ts`) | receivable and loan accounts of a person | lend, borrow, repay | the position shown is explained by the movements shown; retries fork nothing |
| FX projections and reports (`fx.ts`, `net-worth.ts`, `cash-flow.ts`, `budget-progress.ts`) | `FxRateSnapshot`, base columns | enter rows singly or in bulk, upsert rate, change base, rebuild, series, buckets, progress | projections are rebuilt whenever their inputs change; reports agree with each other and with the balances |
| market data (`market-data.server.ts`, the worker `reksadana-nav`) | `MarketInstrument`, `RawMarketDataFetch`, `MarketQuote`, the worker's cache | sync, backfill, register a fund, list, take a price | a quote says what its source showed for its day; one source's outage costs no other its quotes; prices move forward |
| household (`categories.ts`, `merchants.ts`, `smart-rules.ts`, `budgets.ts`, `settings.ts`) | names, people, rules, budgets of a month, the time zone and the base currency, `IdempotencyRecord` | create, reuse, find or create, set, archive, drop | names stay apart; a spending counts in one month; the audit log tells what is there |
| transaction dialog (`transaction-form-modal.tsx`, `collections.ts`) | form, tab, split, the row that is edited | open, choose, type, toggle, submit | what shows at the submit is what is booked; an edit that changes nothing keeps the row |
| import wizard (`routes/_protected/import.tsx`, `csv-import.ts`, `money.ts`) | page, form of columns, ticks, cached batch | upload, map, stage, tick, promote | the batch says what the file says; what is booked was ticked |
| auth, rate limiting, ledger cleanup, analytics, the rest of the UI | see `PROJECT.json` | | |

### How they interact

`transactions.ts` is the hub. It writes ledger rows, moves balances by deltas
(`applyAccountBalanceDelta`) and, for tracked accounts, calls
`createValuationWithinTx`, which recomputes the balance and stores it as an
absolute value (`setAccountBalanceTo`). Account deletion, imports, trades,
debts and the migration call the ledger's in-transaction functions, the first, second and last from
chunk loops of their own. The audit log is written inside the same transaction as what it records.
The ingest of market prices writes tables of its own, which belong to no family, and
`refreshHoldingPricesForFamily` reads them.
There are no queues, and no callbacks between components of the server: interaction is by
calls within a database transaction and through the shared tables. The browser's forms are state of their own: they
send one call, or two in a row, and learn of what happened, if at all, from an answer or from a query that is run again. A model of
one component therefore takes a step of another one as one action, at the
level of detail its own properties need, and names the module that takes that step apart:

| module | takes as one step | taken apart in |
|---|---|---|
| `LinkedTransfer`, `Accounts`, `Imports`, `SureMigration`, `Debts` | posting and deleting a movement | `Ledger`, `LinkedTransfer` |
| `Debts`, `SureMigration`, `Reports` | reconciling, the anchor in force | `Anchors` |
| `Debts` | opening and closing an account | `Accounts` |
| `SureMigration` | staging a chunk | `Imports` |
| `Holdings` | a newer quote of a series | `MarketData` |
| `SureMigration` | pairing the legs of a transfer | `SurePairing` (composed with it in `MCSureMigration`) |
| `Ledger` | deriving and checking a request | `Semantics` (the kind of a row and its guards), and what a form makes of it: `Dialog` |
| `Requests` | "the same payload" | `Replay` |
| `Wizard` | staging, reviewing and promoting, one call at a time | `Imports` (overlapping, in chunks that die) |
| `Household` | the fee of an investment, a migration | `Holdings`, `SureMigration` |
| `Ledger`, `Accounts`, `Holdings` | retries, keys, aborted transactions | `Requests` |
| all | who may call | `Membership` |

### What is hard here

* **Sequences of legal calls.** A transfer is three rows and a link; a request
  may name any of them, delete the fee alone, edit it, turn a transfer into an
  expense and back. `transactions.ts` treats each case with a guard or a
  redirection of its own.
* **Two ways to a balance.** Deltas on one side, a recomputation on the other.
  Which rows an anchor absorbs depends on the row's date *and* on when it was
  entered; anchors and rows may both be back-dated.
* **Interleaving.** Snapshot isolation with conflict detection per Account row;
  what writes no Account row conflicts with nothing. Roles and debts are looked
  up in one transaction and used in another.
* **Retries, lost answers, crashes.** Each call may be tried four times by the server
  and resent by the client while other calls run in between.
* **Stages outside one transaction.** Account deletion, staging and migration
  run in chunks, each of which may be the last one before the process dies.
* **Forms that remember.** A hidden field keeps its value, a tab lives beside its
  form, a default is derived from a status that the last press of a button has changed.
* **Rounding that feeds on itself.** A cost basis is rebuilt from a rounded
  average with every purchase; a projected row is rounded once for itself and once for each of its parts.

The `hazards` of `PROJECT.json` list each of these at its line, with the
properties that would show it going wrong, or why none does.

## The modules

Each module's `Next` has one action per handler or per database transaction of a
handler. Definitions commented *Faulty variant* are mutated forms used by
`mutants` in `PROJECT.json`: put in place of the original, they make the named
property fail, which shows that the property depends on that line.

### `Ledger` - the ledger of one family

| variable | in the code |
|---|---|
| `txn` | `Transaction` rows by id, in insertion order; `deleted` is `deletedAt # null`, `supersedes` and `supersededBy` are the edit links |
| `transfer` | `Transfer` rows, named by their outflow leg (unique in the schema) |
| `next` | the next id |
| `balance` | `Account.balance` |
| `audited` | the sum of after minus before over the `Account` entries of the audit log |

Each handler is one `SERIALIZABLE` transaction and so one action; the races
between them are the subject of `Requests` and `Anchors`.

* `Create` is `createTransactionForFamily`, `BulkCreate` the batch (of two) with
  deltas summed per account, `Delete` and `BulkDelete` are
  `softDeleteTransactionWithinTenantTransaction` once or in a loop.
* `Replace` is `replaceTransactionWithinTenantTransaction`, used by `Update`
  with a complete payload and by `BulkRecategorize` and `BulkMove` with the one
  that `buildBulkUpdateReplacementInput` rebuilds (`BulkInput`).
* `audited` moves with the entries each handler logs; `AuditDriftIsExplained` holds it against the balance.
* `Root` redirects a request that names an inflow leg to the outflow leg, as the
  code does first. `Movement` is every row the reversal tombstones; `Reversible`
  is its guards.
* `Listed` is the filter of `findLedgerTransactionsForFamily`.

Cross-currency transfers are represented by a destination amount that differs
from the amount. What a request is before it gets here (kinds, purposes, currencies, splits, notes)
is the subject of the next three modules.

### `Semantics`, `Replay` and `Dialog` - from a form to a row and back

`Semantics` is without state: `Payload` is `onSubmit`, `Resolved` what the ledger derives (purpose, fee bearer),
`Accepted` what it refuses, and `RecordOf` what can be read back of a row once it was written, by the plain, the transfer and the
valuation-linked path. Two modules rest on it.

`Replay` is the question that a key asks when it comes again: is this the same request? The code answers by comparing two
renderings, one of the request completed from the accounts as they are *now* (`RequestPayload`), one of the row that
some path wrote from the accounts as they were *then* (`StoredPayload`). `stored[k]` is the row of a key, `sent[k]` the request that
made it and the accounts at that time; `CallAgain` is the lookup before the create, `Rescued` the one in the catch block, which
skips the check of references; `Relabel`, `Track` and `Close` change an account in between. Requests are what the dialog would send,
and every variant of it in one field.

`Dialog` has the form, and beside it (`window`) the tab, the split, and the row it edits, since the code resets them at different
moments. One action per control (`SelectTab`, `Enter...`, `ToggleSplit`, `AddLine`, ...), with the guard under which the control is
rendered; `Open`, `OpenByHotkey` and `Cancel`; `SubmitNew` and `SubmitEdit` with the whole way to the ledger: `Payload`, what
`onInsert` or `onUpdate` forwards, the server's verdict, and the row. `OnScreen` is what the screen shows at the submit, in the same terms
as `Said`, which is what a row says. `LeftBehind` are the aspects in which a value that no longer shows is still sent. Amounts on
the form are decimals and become minor units at the scale of a currency, and come back at the scale of another (`Shown`, `Minor`).

### `LinkedTransfer` - money between a cash and a tracked account

`valuation` and `move` are the rows, `cash` and `tracked` the two kinds of
balance. `SetValue` restates a tracked account; `Move` posts a contribution or a
redemption with a value the client asserts, `MovePrefilled` with the value the
server derives (`Prefill`: the current one plus or minus the amount); `DeleteMove`
is `softDeleteValuationLinkedTransferWithinTx`; `DeleteFee` deletes the fee leg
through the ordinary path; `Rebuild` recomputes. `Latest` is the order of
`latestValuation`: by date, then by creation, so a back-dated statement does not
become the value of the account.

### `Anchors` - the two clocks of a reconciled cash account

One account, its rows and its anchors, with several database transactions in
flight (`Slots`). A transaction begins with a snapshot and a `createdAt` stamp
and commits later, or aborts if another has written the same Account row or an
anchor its own read missed (`accountStale`, `anchorStale`). `AfterAnchor` is the
predicate of `sumTransactionFlowAfterAnchor` on both dates; `CanonicalBalance` is
`computeCanonicalBalance`. `Midnights` is the calendar. A reconciliation that finds the stored
balance already right writes no Account row, exactly as `setAccountBalanceTo`
returns early; this is what lets it overlap a create.

A row's time and an anchor's day are comparable instants: day `d` starts at
`2*d`, and `2*d + 1` is any later time of that day.

### `Requests` and `ExactlyOnce` - calls, keys and retries

`execution[h]` is a call on the server: `ready` (about to take a snapshot),
`open` (inside the database transaction), `rescue` (in the catch block after a
unique violation), `reply`. `BeginAttempt` takes the snapshot, `Attempt` looks up key, then row, as the
handlers do; `Commit` writes and outdates the overlapping snapshots;
`SerializationFailure` and `UniqueViolation` are 40001 and `P2002`; `Crash`
stands for a dead process, a dropped connection or a lost reply. `told` remembers
what clients were answered, so that answers can be held against the tables.

`ExactlyOnce` says what keys promise, without handlers: a create key takes effect
once, a delete key reverses one row that no other has reversed.
`Requests!KeepsPromise` is the refinement: `created` is the account of
a key's row, `undone` the record table.

The unique indexes, 40001 and the snapshot are PostgreSQL's; the model allows the
aborts the database may choose, and forbids the commits it does not allow. Two
calls conflict if they write the same account. That predicate is weaker than
what serializability forbids, so the model has more behaviours than the program.

### `Membership` - who belongs to a family, and as what

`member[f][u]` is the `FamilyMember` row, `home[u]` is `User.familyId`, the
family a user's calls are for. It has two kinds of writers: the handlers, and users themselves, since `familyId` is an
additional field of the authentication library that its mounted handler accepts as input (`auth.server.ts:41-44`,
`routes/api/auth/$.ts`): `UpdateUser` sets it to any family there is or to none, outside of the serializable transactions (`moved`), and `updates`
counts that. A call is
two database transactions: `Authorize` is the middleware, which reads the
family and the actor's role; `Begin` takes the snapshot the handler decides on; `Commit`
writes `Outcome`, the handlers of `family-members.ts` each as an operator from
a table to the table it leaves. The trigger that guards the last owner and the row
policies are evaluated on the snapshot as PostgreSQL does (`TriggerPasses`,
`PolicyPasses`). `SERIALIZABLE` is modelled as it works: a commit is refused
when it overwrites a row changed since its snapshot, and when it closes a cycle
of two overlooked writes (`changed`, `pivot`, `doomed`). Without the second rule two owners
who demote each other both succeed: the trigger alone does not see it.

### `Accounts` - opening, closing and everything between

`account[a]` is the row with its live valuations, `move[i]` a movement of one
unit, `handler[h]` a deletion in flight. A deletion is `ReadAccount`, `CountHistory`, `Drain` (one chunk
of `cascadeSoftDeleteAccountTransactions`), `Finish` and `Record`, each a database
transaction; other calls commit between any two, another deletion of the same
account may overlap, `Die` ends the process anywhere. `Reversible` and `Legal` are the
reasons for which a chunk fails (trades, tracked accounts, the sign of a balance), and `Refuse` ends the call then.
`EnableHoldingsTracking` changes what a balance is computed from. `late` remembers the movements
that were posted behind the back of a deletion that had found none left.

### `Imports` - staging, review, promotion

`Setup` (find or create the batch, read the ledger, classify all rows in memory),
`InsertChunk`, `Finalize` (the rollup), and `Die` at any point; then `Review`, `Promote` and `DeleteTransaction`. A resumed
run continues after the rows that the batch counts; the classification calls a row clean
if it is new to the ledger and to the rows before it in the file.

### `Holdings` and `Rounding` - positions, prices and the cost of things

`holding` are positions of an instrument in an account, `vals` the valuations of a
tracked account, `basis` the sum of the cost deltas that the operations replied and `slack` the rounding they may have lost.
Every operation of `holdings.ts` ends with a valuation of the account
(`Anchor`); all kinds of trade, the edit form, the link of an instrument to a market series,
and both refreshes are actions. `Rounding` holds the divisions of the
money code: half up and half to even, on unbounded integers, since
the code computes with bigint.

### `MarketData` - where prices come from

`sync` is a call of `syncMarketPricesOnce` (or of the exported backfill, which no screen calls yet) and the
step it has reached: `Start` makes sure of gold, `Load` reads the catalog and sorts it by adapter, `OpenGroup` takes
up one adapter, `AskGold` tries the next source of the chain, `AskFund` and `Reply` are one request to the worker, which asks the
site, falls back on its cache, and overwrites the cache with what the site said, and `Store` is the database transaction
that stages the raw answer and upserts the quotes. Any request may fail, any reply be lost, the database may refuse, a process may
`Stop`. `page` and `nav` are what the sites show, and `published` remembers all they ever showed. Prices keep their units: per
weight on a page, per ounce in a quote, per gram in a position, each conversion rounding half to even.

### `SureMigration` and `SurePairing` - moving in from another application

`migration` is the run in flight: anchors, staging, a lockstep of confirm and promote, pairs,
closing anchors, rebuild, one database transaction each; it may die between any two (`Crash`), and a new
run begins, on the same export or a later one. A pair that fails has its legs held one after the other (`RejectPair`, `HoldInflow`), and
so are the legs without a partner (`HoldLeg`). A valuation that is negative where none may be is skipped. The user meanwhile confirms, rejects, promotes and deletes.
`SurePairing` is `pairSureTransfers`, tier by tier, as a function on a list of
legs: what Sure says, then what is unique, then what a name in a leg says, and for
what is left a reason. Its properties speak of every list of up to `MaxLegs` legs.

### `Debts` - a person, two kinds of account, calls that overlap

A call looks the account up (`Ensure`, `FindDebt`), opens one if there is none (`Open`),
looks its key up (`CheckRepayment`), and posts (`Post`), each in a database transaction of
its own. `Die` is a lost process or answer, and clients send a call again with its key. Such a call is held against the row it made, field by field
(`ReplayAnswers`): a date or a description that the client left out is made anew, and a currency is never sent and taken for rupiah, so
`complete` says of a call that it sends both, and `currency` is that of the cash account. Deletes,
closings and reconciliations of the same accounts come in between.

### `Household` - names, people, rules, budgets and the time zone

`db` holds the tables of the family, `desk` the request each clerk (a handler) is at, `answers` what callers were told.
A request is taken up with a snapshot (`TakeUp`) and then declined (a key that is known, or a verdict), committed, run again
(`Retry`), or refused by an index: `NameRefused`, where the creation of a person runs once more, and `KeyRefused`, after which
`Resolve` looks for the key in a database transaction of its own. Each endpoint is a verdict, an effect and an answer
in the tables that its transaction sees (`CategoryVerdict`, `AddCategory`, ...); `Footprint` is what a call both reads and writes, and so what it may
conflict in. A budget keeps the base currency it was created in and the rollover policies of its lines; its entry in the log (`ToldIn`) states the base
of the moment. Other writers come in between: spendings, the time zone, the base currency (`SetBase`), a migration (whose rows the index on names exempts),
and `FindOrCreate`, the categories that fees and income of investments look for by name.
`Progress` is `computePeriodProgress`: rows are fetched by a window in UTC, a day wider on each side than the month (`Fetched`), and
counted by the day they have in the zone of the family (`Counted`).

### `Wizard` - from a bank's file to booked rows

The page, the form of columns and formats, the batch as last fetched (`cache`), the call under way, and on the server one batch for each
content of a file. `ParseMoney` and `ParseDate` read tagged cells as `money.ts` and `csv-import.ts` read strings: which separator stands before
decimals, whether groups are well formed, which digits a currency has; `DeriveAmount` has the three modes of amounts, `Suggested`
the presets, `Amended` the controls of the mapping. Calls: `PressStage`, then `AlreadyStaged` or `BeginStaging`, `InsertPiece` and
`EndStaging`; `PressPromote`, `Decide` and `PromoteConfirmed`, two calls one after the other. Any of them may `Fail`, the last of each lose
its answer, and `Fetch` brings the page up to date whenever it likes. `ticked` remembers what showed a tick at the last press.

### `Reports` - projections and what is computed from them

`book` holds rows and anchors with their currency and projection, `rates` the snapshots, `base`
the base currency. `Project` is `computeBaseProjectionForAmount`, `UpsertRate`
and `SetBase` rebuild what depends on them, and `Rebuild` is the call of its own that does nothing else. `Create` stands for every writer that projects its
row; `BulkCreate` is the one that does not: its rows have no projection (`raw`) and the default currency of the column. `NetWorth` is a point of the series of
`net-worth.ts`, and `NetWorthReport` the series as the code computes it, which is another thing: one pass over the days of an
interval (`Samples`: days, weeks or months), carrying from point to point how far it has read the rates, the anchors and the rows of each
account (`Unread`, `ReadOn`, `NativeOf`). `Totals`, `CashFlowSeries`, `Buckets`, `ByCategory` and `Spent` are the cash flow and
the budget. All are pure functions of the state, and their properties
relate them to each other and to the canonical balance.

### The others

`LedgerProofs` (with `MarketData`), `LinkedTransferProofs` (with `Anchors`), `RequestsProofs` (with `Replay` and `Dialog`),
`MembershipProofs` (with `Reports` and `Holdings`), `ImportsProofs` (with `SurePairing` and `SureMigration`),
`DebtsProofs` (with `Household`) and `AccountsProofs` (with `Wizard`) hold theorems about the module they are named for and those in brackets.
`CollectionTheorems` has the laws they share, of finite sums and of the order of a set, and `Ordering` is an
`ORDER BY`: a finite set of numbers as a sequence (`Rank`, `InOrder`), in a form that can be proved about. The `MC` modules give constants that are records, functions or
sequences, and declare symmetry. Some put modules together that share no state in a run, so that one run answers for a subsystem: while one of
them moves, the others rest in an initial state (the step of each is guarded by the others' `Init`), which explores their state spaces one beside the other.
`MCLedger` has `Ledger`, `Replay` and `Dialog`; `MCValuations` has `Anchors`, `LinkedTransfer` and `Household`; `MCAccounts` has `Accounts` and `Requests`; `MCImports` has `Imports` and `Wizard`;
`MCHoldings` has `Holdings` and `MarketData`, whose prices `Holdings` takes as any price of a menu;
`MCMembership` has `Membership` and `MCSureMigration`, which composes the migration with the pairer and
feeds the migration the pairs that the pairer computes.

## The runs

Every run explores its whole bounded state space.

| run | question | result |
|---|---|---|
| `ledger` | Do creates, deletes, edits and bulk operations in any order and through any leg keep balances, graph, history and audit log consistent? Is a create that comes again recognised, and nothing else taken for it? Is what the dialog shows at a submit what is booked? | holds, with the exceptions that `EditedAlone`, `AuditDriftIsExplained`, `LostInTheRow`, `DerivedAnew`, `LeftBehind` and `Costs` name |
| `valuations` | Which steps can part the stored from the canonical balance, and does the anchor chain split rows correctly? Do moves, restatements and deletes with any dates keep both sides right? Do the clerks of a household keep names apart, count a spending in one month, and leave a trail that tells what is there? | holds: drift comes from the three kinds of step named in `DriftIsExplained` only; of policies and currencies of a budget the trail does not tell everything |
| `accounts` | Do deletions that overlap, crash and resume close only drained accounts, and end? Has each key one effect, is each answer true and `ExactlyOnce` implemented, and does each call end? | holds |
| `imports` | Do crashes, resumed runs, overlapping files and repeated promotions book any row twice or lose one? Does the wizard stage what a file says, and book what the page showed? | holds |
| `holdings` | Do trades, edits and refreshes in any order leave worth and cost of an account right? Do overlapping syncs with fallbacks, caches and outages store only what was published, cost nobody else a quote, and never set a price back? | holds, the cost within the rounding named, a fund quoted in another currency than its instrument excepted |
| `members` | Can overlapping calls leave a family without an owner, take over a user who has one, or let a revoked member act? Do crashing and repeated migrations, two exports and a user in between book each entry once, leave none without a reason, and pair nothing by guess? | no; they do |
| `debts` | Do overlapping, retried and dying loans and repayments keep the position explained and refuse only what is due? | holds; a retry may meet a conflict for what the client did not send |
| `reports` | Do projections follow their inputs, and do the reports agree with each other, with the balances, and with what they would say of each day alone? | holds, projections except for rows entered in bulk |
| `sure_final` | Does a migration that is run again leave each account at what Sure says? | violated: the closing anchor of the first run is replayed by its key and is older than the pairs the second run creates |
| `edit_fee` | Does a transfer that is opened for editing and saved as it is keep its fee? | violated: the lists do not hand the fee to the dialog |
| `duplicates` | Is a row that the wizard found to be a duplicate booked only if the user ticked it? | violated: after the first press its status is `rejected`, which shows ticked |
| `fee_left_behind` | Does the fee of a transfer go with it, however it was edited? | violated: a fee edited on its own is a new row that the transfer does not name |

No run checks deadlock: every model is bounded by counters, and a ledger that is
full, or whose clients have fallen silent, is allowed to rest.

The type invariants (`TypeOK` of each module) were checked at the same bounds
and hold; they are not repeated in the configurations, which are kept to what
could go wrong in the code. Adding `TypeOK` to the `INVARIANTS` of a `.cfg` checks it
again; those of `Ledger`, `Requests`, `LinkedTransfer`, `Accounts`, `Imports` and `Holdings` are proved.

### What the properties say

* `BalanceIsSumOfLiveRows`, `CashIsSumOfLiveRows`, `BalanceFollowsLiveRows`: the deltas of
  every handler add up. A fee deleted on its own must not be reversed again with
  its transfer; a bulk delete, or a chunk of a deletion, must not reverse a row that an earlier
  one took with it.
* `TransfersStayWhole`, `LegsDieTogether`: the graph stays
  whole whichever leg is named, in line with ADR-0012, ADR-0035 and ADR-0048; and no live row stands in for the fee leg of a transfer that is gone, unless the
  fee was edited on its own (`EditedAlone`). `DeletedTransferLeavesNoFee` is the promise of ADR-0035 without the exception, which `fee_left_behind` refutes.
* `AuditDriftIsExplained`: what the log tells of the changes of an account adds up to its balance, but for the fees that edits of transfers posted: these it tells twice.
* `SupersessionIsLinear`, `HistoryIsAppendOnly`: an edit history never forks, and no row
  is rewritten or revived.
* `ListShowsEveryMovementOnce`: two filters of the list agree with the graph. It is proved (`ListIsComplete`), and no run repeats it.
* `TrackedFollowsNewest`: neither a late entry nor the removal of a newer
  statement leaves a stale value.
* `SameIsReplayed`: two renderings of one request agree whatever path wrote the row and whatever changed since; and
  a request that is answered with a row would have made that row. The causes of a false "conflict" are named one by one.
* `WhatShowsIsBooked`: through every order of tabs, accounts, splits, cancels and submits. `LeftBehind` names what a hidden
  field may still send. `UntouchedEditKeepsTheRow`: open, save, and only what `Costs` names is lost.
* `DriftIsExplained`: the complete list of causes of drift. No lost
  update, no order of commits and no back-dated entry is among them; and the chain check and the balance formula agree, for
  anchors entered in the order of their dates, on the interval each row falls in (`ChainPartitionsRows`).
* `AnswersAreTrue`, `KeepsPromise`, `EveryCallEnds`: see `Requests`.
* `FamilyHasOwner`, `HandlersKeepHomes`, `RevokedChangeNothing`: see `Membership`. The second says that onboarding and being added never take over a user who
  points at a family, and give a user only a family in which they are active. That a user stays where they were put is not said: they may set the pointer themselves, and the
  property excepts these steps. The first and the last hold in spite of them. The last one is about
  the snapshot: who was revoked before the handler's transaction began changes nothing, although the role the middleware
  read says otherwise; who is revoked *while* it runs is serialised after it.
* `ClosedAccountIsDrained`, `AcknowledgedMeansGone`, `EveryDeletionEnds`: what a deletion
  leaves, what its answer means, and that it comes to an end if movements are posted finitely often. The drain
  (`accounts.ts:1189-1223`) has no bound of its own: it asks again after every chunk, so movements that went on being posted between the chunks would
  keep it going, and nothing here says otherwise. A movement posted after the last chunk survives on the closed account; the property names that exception.
* `OnlyMovementsMoveMoney`: the switch to holdings tracking, archiving and closing change no balance.
* `RowIsBookedOnce`, `StagingIsFaithful`: see `Imports`. A batch is a prefix of its file, all of it once it can be reviewed, and
  stages a fingerprint as new at most once.
* `BatchTellsTheFile`: for a form that fits the file, every movement with its day, sign and amount to the last digit, and no line that is none, whatever
  was chosen, staged and resumed before. `BookedAsShown`: what is booked showed a tick, with the account, day and sum it is booked
  with, from a page that may be behind; nothing is booked twice.
* `PositionsAddUp`: the balance is what the positions are worth, whoever wrote a valuation last,
  unless one dated ahead was entered before the account had holdings (`WorthFollowsHoldings`); and
  the cost of the positions and the cost deltas the replies named differ by at most the rounding of each step (`BasisDriftIsBounded`).
* `QuotesTellTheMarket`, `MarksMoveForward`: source, price, day and raw fetch of a quote belong to one
  answer, to the last digit after both conversions; a sync that ends has a quote for everything whose source answered; a refresh takes no
  older price than the last, although cache and late answers bring old prices back into the table.
* `RunKeepsItsWord`: booked once, ever; everything booked or explained; never more
  than one chunk confirmed ahead.
  `NothingIsGuessed`: a leg is paired only as Sure says, or with the one leg that it can be, or as both names say.
* `PositionIsExplained`, `RefusalsAreDue`, `ForksOnlyWhenCallsOverlap`: see `Debts`. In the last one, one account of each kind holds without condition as long as no calls overlap; that a retry
  meets no conflict is said of calls in rupiah that send their date and description, while every account lives.
  The comment at `debts.ts:508` speaks of every repayment.
* `SpendingIsInOneMonth`: the days of a month in UTC, the day more on either side, and the zone of the family, which may change, count
  each spending in exactly one budget, the one that is shown when it is made. `NamesStayApart`, `TrailTellsThePresent`: races for
  a name, a key or a budget leave one row, one effect, one audit entry, each "before" telling what the entries before it left, and the last word on each field being what the row holds. Two things it excepts: no "before" tells the
  rollover policies of a budget (`budgets.ts:628`), and once the base currency has changed, the entry of a budget may state another currency than the budget has (`budgets.ts:648-651`, `704`).
* `ProjectionsAreFresh`: whatever the order of rates, rows, rebuilds and the change of base, a row shows what it would be given now; one entered in bulk shows nothing until a rebuild covers it, and
  in both cases what counts is the currency the row says. `ReportsTellTheBook`: a point of the series is what the
  series of that day alone would show, for every interval, and depends on nothing dated later (`SeriesIsAsOfItsDay`); totals, buckets, categories
  and budget agree, up to the rounding of the parts of a split row (`ReportsAgree`).

The last four rows of the table are findings: each states what a comment, a text on the page or the migration's own promise says, and the run shows the
steps that contradict it.

## Bounds, and why they suffice

* `ledger`: two accounts, amount 1, fee 2, destination amount 3, all different so
  that no confusion of them cancels out; five rows. A transfer with a fee takes
  three rows and its replacement by a plain transfer the other two; a plain transfer can be
  edited to an expense and back; a fee leg can be edited twice. The proofs lift
  the bound for every property of `Ledger` but `AuditDriftIsExplained`.
  Replays: five accounts, one of each type that decides a kind or a purpose, one in yen (another scale), one that follows
  valuations; sums 2 and 4, so that halves are sums too; one key, one change of an account between the two requests: the comparison is
  between one request and one row, and each cause of a difference is one change. Proved for any accounts, sums, keys and number of changes.
  Dialog: the same accounts, numbers 10 and 100 (one is a whole unit of both scales, so that a scale mistaken is seen), a tenth as the smallest part, six rows to edit, one
  of each shape that the ledger knows (the transfer is one that was filed under a category), and five inputs: enough to fill in a transfer, hide what was filled in, and submit. A second
  submit after a first takes part of them, which is how a tab that outlives its form shows. Proved for any accounts, scales, rows, numbers and inputs.
* `valuations`: two cash accounts (so that the fee may be on another one), one
  tracked account, two moves and three valuations, on three dates around the
  opening's: enough for a move before, between and after another one and a restatement.
  Anchors: two overlapping transactions, three days, two rows, two anchors besides
  the opening, four transactions; values 1 and 5 so that a reconciliation may
  confirm or move the balance; anchors may be dated one day ahead. Both modules are proved for any number of all of these.
  Household: two clerks and four inputs out of ten requests (two that race for a category name, one of them under a parent; a merchant and
  a person of one name; a budget set twice with its lines in another order, once without a name, archived; a rule and its deletion), three spendings
  at the ends of a month, two zones at the ends of the world (-12 and +14 hours, the code accepts any IANA zone), two base currencies, lines of both rollover policies, months of two days; it begins in one zone with one currency. Four inputs
  are two requests that overlap and one or two writers that come in between. Names, months and the log are proved for any number of all of these.
* `members`: three users, so that two owners can demote each other while a third joins; two
  overlapping handlers, three calls, three of the four roles (a viewer is a member with fewer rights and
  changes no membership), two families, and one change that a user makes to the own pointer: by a stranger, by a caller between two database transactions, or by the target of an open one. Proved for any number. The migration: two exports of four and six entries, one entry per chunk, two runs, one row reviewed and one deleted by the
  user. The pairer is explored, while the migration is still in its initial state, on every list of up to four legs from a
  menu of ten (two accounts of one name, a clean pair, both ends of a cluster, an account that follows valuations) under three lists
  of Sure's own transfers. Both are proved for any exports and lists, the migration with any pairs that no leg is in twice. `sure_final` is the smallest instance of its scenario: one export, two runs, no user.
* `accounts`: a cash and an investment account, chunks of one movement, so that two movements take two chunks;
  two deletions, of the same account or of both; two movements of each kind, two valuations of a holding. The safety properties are
  proved for any numbers, and any size of a chunk.
  Requests, explored while `Accounts` is at rest and the other way round: two handlers, three attempts (the code has four; the third is already
  a retry of a retry), four calls, two accounts, two create and two delete keys: a key can be raced,
  replayed, bound to another payload, and its row deleted in between. No symmetry: it would be unsound for `EveryCallEnds`.
* `imports`: two overlapping files of two rows, one row per chunk, two handlers and three runs (a run, one that
  overlaps it, one that resumes); two transactions and four reviews. Proved for any files, chunks, handlers and runs.
  The wizard: three files as banks write them: a statement in rupiah with two columns, a line with a total, a repeated line and the 29th of February; a card in yen with
  a column of types, one of which means nothing; records (QIF) with an empty one, and one whose day is only legible under another format. Two changes of the form (the account and one more), two stagings, two
  presses, one changed tick, pieces of two rows: a staging may die between two pieces and be resumed under another form, a
  promotion fail or be lost and be pressed again. One call at a time; overlapping ones are those of `Imports`. Proved for any files, sizes of a piece, changes, calls and ticks. `duplicates` is the same
  instance with `Imports` at rest.
* `holdings`: two tracked accounts, two instruments, a metal and a currency series, scales of 2 and 3 grams to the ounce,
  small enough for the divisions to round both ways; four operations of the family, and any number of quotes in between (two
  positions, a link and a refresh of both accounts fit into one history, or two trades between two transfers). Proved for any accounts, instruments, scales, prices, quantities and operations.
  `MarketData`, explored while `Holdings` is at rest and the other way round: two gold sources (one shows a row of a gram, the other two
  rows that are not), a fund in the currency of its instrument and one that is not, two days, two overlapping syncs or backfills, two
  publications, one registration (proved for any number); 3.1 grams to the ounce and a price scale of 2, so that the conversions round.
* `debts`: two handlers, five calls (two loans out, one in, a repayment each way), each of which may be sent again, three with date and description and two without; a cash account in rupiah or not; one change by
  somebody else. Proved for any number.
* `reports`: two currencies with minor units of different size, three days, three rows out of a menu (plain, transfer, an income excluded from the cash flow,
  split in three, anchor, one on an account in another currency than the default), each entered singly or, where it can be, in bulk; two rate upserts out of four, one change of base, one delete, and any number of
  rebuilds of one currency or of all; every range; intervals of a day, a week of two days, and a month of two days
  before one of a single day, so that a step by months lands short. Proved for any rows, rates, currencies and calendar.

Accounts, keys, handlers, users and slots are interchangeable wherever a `SYMMETRY` is declared. In `MCValuations` accounts, slots and clerks are
exchanged together, since each belongs to another module and one module moves at a time.

## Fairness

`Requests` (`FairSpec`) and `Accounts` (`Spec`) assume weak fairness of each handler's own steps,
and nothing else. A handler is a JavaScript continuation that the event loop runs, or waits for PostgreSQL, which commits
or aborts its transaction. Nothing is assumed about clients: receiving a call, posting to the account under deletion
and crashes are not fair. What remains to be shown is that contention cannot keep a call running for ever.
For `EveryCallEnds` it cannot because the attempts are counted; without the count the property fails. `EveryDeletionEnds` is a weaker claim: every chunk takes a movement
off the account or fails, so the loop ends *if others post finitely often*. `MaxMoves` supplies this assumption, the code does not; without the bound the property would fail.

## The proofs

All theorems hold for any sets of accounts, amounts, fees, handlers, users, keys, files and calls, and
any bounds. Their assumptions are the named ones of the modules:

* `LedgerAssumption`, `LinkedAssumption`, `AnchorsAssumption`, `AccountsAssumption`, `RequestsAssumption`, `MembershipAssumption`,
  `DebtsAssumption`, `ImportsAssumption`, `HouseholdAssumption`, `MarketDataAssumption`, `ReplayAssumption`, `DialogAssumption`, `HoldingsAssumption`, `ReportsAssumption`, `WizardAssumption`: sets are
  finite, amounts and fees positive, bounds natural numbers; a key names one call, and in a household none both sets and archives a budget; days, zones and minor units are numbers in a range;
  cash and tracked accounts are apart, each account of `Reports` opens with an anchor that is not dated ahead, and the parts of a row that is split add up to it.
* `AbsentAssumption`, `AbsentIsNoRow`, `NoneAssumption`, `NobodyIsNoRow`, `UnsetAssumption`: the null values are no rows.
* `LedgeredAssumption`: the rows that may be edited have the shape that the ledger gives rows; a split row has its categories in its parts.
* `SurePairingAssumption`: a transfer of Sure has two legs. `SureAssumption`: the ids of Sure are keys, and the pairer takes a leg once, which
  is a part of what is proved of the pairer.

TLC evaluates them in every run.

**Sums and orders.** A sum over a set is a fold, and the library has no law of folds that its provers can use: the induction theorems take an
operator for a parameter. `CollectionTheorems` goes around it. A set of numbers has a least element (`LeastNumber`, from
the theorem that `<` on the naturals is well-founded), so a law that fails has a least counterexample, which the recursion of the fold refutes. From this
come the laws the proofs need (a sum over a union of disjoint sets, of equal terms, of a
changed term, over the parts of a partition), and those of `InOrder`, which stands where the code
has `ORDER BY` and where a `SelectSeq` could not be reasoned about.

**Ledger.** The inductive invariant is
`Inv == TypeOK /\ Shape /\ TransferSymmetry /\ FeeFalls`. The safety properties
are not inductive alone: that a transfer's legs die together depends on a
reversal finding *all* of them, hence on the graph having no row in two places. `Shape`
says where legs are: outflow `o`, inflow `o + 1`, fee `o + 2`, as the handlers insert them.
The proof has two halves. `Shift(n, K, D, new)` describes a step in general: a set `K` of rows is
tombstoned, a set `D` of transfers dies, `n` rows are appended. If `K` is closed under
"belongs to the same transfer", a `Shift` keeps `Inv` (`ShiftKeepsInv`). Then each of the seven
actions is shown to be such a `Shift` (`CreateGood` to `ReplaceGood`), which
is where `Root`, `LiveFeeOf` and the guards do their work. From `Inv` follow
`LegsArePairedOnce` and `ListIsComplete`, and from `Shift` `HistoryOnlyGrows`. `TransfersAreWhole` takes both: `FeeFalls` is about the fee leg itself, and that no row stands in for it follows
from the links of the history. `HistoryIsLinear` has an
invariant of its own: the links are inverse, and only tombstones have successors, so the row that
an edit replaces, being alive, has none.
`BalancesAreSums` says that each balance is the sum of the shares of its live rows (`Booked`), and rests on the same `Shift`: what a
step adds to a balance is what its new rows are worth less what the tombstoned ones were. That takes each handler's own arithmetic: the deltas of
a batch summed per account, a reversal that finds a fee only while it is alive, a replacement that reverses first and posts after.

**Requests.** `Typed` adds to the types that an open delete has a row to delete. `Truth` is
the inductive core: each delete record names a tombstone, a handler in `rescue` will find its
key, and every reply being sent or already received is true now (`Holds`). The last one is stable
because tables only grow (`TablesOnlyGrow`). `EffectsExactlyOnce` follows `LiveOn` through a
commit with the cardinality theorems; `PromiseKept` maps `Commit` to `Apply` or `Undo` and
every other step to a stutter.

**Membership.** The invariant is about snapshots. `Fresh`: what an open transaction has not been told is changed
is still as it read it, so a commit that overwrites nothing changed writes over what it has read. `Counted`: as long as
`SERIALIZABLE` would let a transaction commit that takes an owner away, every owner it counted is still one; for whoever
took one away meanwhile had counted all the rows, and so had read the row that this one overwrites. Together they
give `FamilyHasOwner`, which is false without either the trigger or the commit check. `RevocationHolds` follows from `Decided`, and `HomesAreKept` from `Fresh`: an
open transaction that would adopt its target read that they have no family, and is refused if a handler or the user has set one meanwhile. None of this needs the pointer to stay: a call is for the family the middleware
saw, and `CallersAreKnown` says that its actor has a row there, revoked or not.

**Debts.** Nothing but the order of calls keeps a person from having two accounts of one kind. `Alone` (no call that may open one
overlaps another, until `overlapped` is set), `Single` and `Needed` (what the lookup did not find is still not there)
are inductive together. `NoConflict` is the other half of `OneAccountEach`: what `ReplayAnswers` compares agrees for a call in rupiah that sends everything, unless
the row is on another account, and then that one was closed. `RefusalsAreFair` needs that the key is looked up before the guards. 
`PositionAddsUp` adds what money there is: `Explained` (a debt is the sum of its live movements and of what reconciliations put in, cash has paid
for each), and `PostedOnce` (the key of a call that was posted is taken, so it posts no second movement).

**Accounts.** An account is created once and never revived, so what a handler found in one database transaction still holds in
the next: `Progress` says that a handler past its drain left nothing alive but what was posted late, and one about to
record its reply has closed its account. `ClosedAreDrained` and `GoneForGood` follow, for any chunk size and any overlap.
The money has an invariant of its own, `Money`: types, ids handed out in order, names of movements that point to
accounts there are, and `AllSound`, the balance of each account as a sum of its rows or as its newest valuation. A chunk of a deletion takes an arbitrary
set of live movements, so `BalancesFollow` needs the law of a sum from which a set is taken. `SwitchesMoveNoMoney` is the action property.

**Linked transfers.** That a delete tombstones no other move's valuation needs `Numbered` (the ids in use are the first ones)
and `Joined` (no two moves share a valuation). `Materialised` says that a tracked balance is the canonical one; it is
inductive because a step changes the live valuations of one account and re-materialises that account (`CanonicalKept` covers the
others). What `TrackedFollowsNewest` adds is that there *is* a newest valuation, `SomeTop`: the live ones are finitely
many and strictly ordered by date and id, so one of them has the smallest set of valuations above it, which is empty.
`CashAddsUp` follows a cash account through both ways to delete a fee; a live leg or a live fee counts once (`Charge`).

**Anchors.** `AsRead` is the lemma that snapshots stand on: what an open transaction read of the account row and of the anchors is still so, unless
it was told to abort. So each commit moves the stored balance by what the row that it changes counts for on the anchor in force, or
sets it to what a recomputation would find now; what is left are the three causes that `DriftIsExplained` names. The other part of it is the chain: with anchors entered in the order of their dates (`Chained`),
the order by day and the order by time of entry are one, and each row has one place in it, which the two predicates of the code (after the
last anchor; between two) both find.

**Market data.** `Truthful` says of each answer on its way (from a site, out of the cache, staged for the database) that it was published, for its day, in the unit the
adapter claims; `Owed` and `Accountable` say of a sync what it still has to ask and what it must have stored when it ends. Two divisions meet in
`QuotesAreTrue`: a price per weight that becomes one per ounce and then one per gram comes back to the unit it was published with, because each rounds by
half a unit at most. `MarksNeverGoBack` needs of all this only that a refresh compares days.

**Replay.** That a resend is recognised and that whoever is recognised would have made the row are two halves about pure functions (`ComesBackTheSame`, `SameMakesTheSame`):
the rendering of a row is followed back to the request that made it, path by path and field by field. The invariant only has to tell that a row came
from the first request under the accounts of that time (`RowsTellRequests`), and that an answer is the verdict under those of now (`AnswerIsVerdict`).

**Dialog.** The invariant says what the form may hold that does not show (`Hidden`): a tab is of another type than the form only after a submit, the other
account outlives its tab only in the edit of a liability's fee, a category is hidden only where a transfer was filed under one; and that an untouched form is
the one its row opens with (`AsOpened`). The rest of `ScreenIsBooked` is about pure functions. What the screen says and what the row says once it is written are compared aspect by aspect, by the path the
row takes (`PlainMeets`, `TransferMeets`), and `UntouchedMeets` takes a row through `Edited` and back. The numbers come back because a scale divides the
smallest part (`ShownIsMinor`), and a number that does not divide is refused by `toMoney`. The first attempt at `Hidden` failed for the transfer filed in bulk,
whose category `LeftBehind` now names.

**Imports.** For a file that was never opened twice at once there is one run at most (`Alone`), and it inserts where the staged rows
end (`InStep`); every run classifies the whole file (`CleanIsFirst`). `PrefixIsStaged` and `CleanOnce` follow. Together they are `FaithfulStaging`. Promotion and
review only rewrite rows in place (`RowsStay`). `BookedOnce` is about promotion: a row bears the number of the transaction it became, and `Book` says
that this is one to one, in both directions, and that an external id is bound by one transaction at most; each promotion extends it
by the rows it takes in their order, whichever overlaps it.

**Sure's pairs.** The transfers that Sure names are placed one after the other, so a pair keeps the reason it was placed for (`PlacedBy`, by induction along the
list); the others are placed all at once, by the cluster a leg is in. `PairsAreCertain` shows for the last tier that the names leave
one way only to pair all the legs of a cluster that are paired. It holds for any legs and any transfers, also such as name a leg twice.

**Sure's migration.** The invariant separates what was done from what is still to do. `BookSound` and `RowsSound` speak of the book and of the staged rows
alone, whoever wrote them: an entry is bound to one movement, a promoted row's is bound, a held leg has a reason or a named excuse. `RunSound` speaks of the run, by the place it is at: what is
staged, what is confirmed and not yet promoted (a chunk at most), which rows it has passed. A run that dies takes only the second with it, which is why `MigrationKept` holds for any
number of crashes and of exports that follow each other. Each step but staging and confirming changes a row in few ways only (`Later`), and one lemma shows that these
keep `RowsSound`. Balances are not typed there, as nothing in it reads them. TLC checked the invariant at the bounds of `members` before it was proved.

**Household.** `Seeing` is the `AsRead` of names: a transaction whose footprint nobody wrote since its snapshot sees the tables as they are, so the verdict it reached on a name (no other has it) holds when it
commits; with the unique indexes, this is `NamesApart`, also over second runs, people who are reused and writers whose rows the index exempts. `EachInOneMonth` is
arithmetic: a day lies in one month, and a zone moves an instant by less than the day by which the window in UTC is wider.

`LogExplains` is about the audit log. `LogFits` is a relation of the log and the tables alone: what the log tells of an entity that it names is what the entity is, every entity of the family
that requests may write is named, and each entry explained itself when it was added. `BaseFits` is about currencies: as long as the log names no change of the base, each budget, each entry and the snapshot of each request
have the currency the family has. `TellingGrows` is the law that carries it: with an entry more, the log tells of the entity of that entry what the entry says on top of what was
told before (`Over`), and of every other entity what it told. So each write needs one lemma (`CategoryLogged`, `MerchantKindLogged`, `BudgetLogged`, ...), which says that it touches one entity
(`Elsewhere`) and logs it. What a write supposes - the budget to archive is there, the rule to delete lives, the key is new - was seen in a snapshot; `Watching` is `Seeing` for budgets, rules and
stored answers. `KeysFit` ties each key of the log to the one answer stored for it, so that a new key cannot be in the log. It needs that a budget is not set and archived under one key: keys are
unique for each endpoint, and two endpoints write about a budget; the page draws a key for each press of a button (`budgets.tsx:428`).

**Reports.** `AlwaysFresh` is the refresh relation between rows, rates and the base currency: a row's projection is what it would be given now, or, of a row entered in bulk that no rebuild has covered, none. `UpsertRate` rewrites the rows whose
rate may have changed; the proof shows that there are no others, since a projection reads the rates between the currency of its row and the base alone, and one rate is found for a day (`OneRateADay`).

`ReportsTell` is about functions of the state, and needs of it `BookInv` (those three facts) and `RowsInv`: rows are as they were entered, and every account has an anchor in force today. It has two halves.
*The series.* The code reads on from point to point. `Reading` says where a reader of a day stands that has read all there is: at the newest rate of each currency, at the anchor in force of each
account, and with the sum of the rows since. `ReadingMovesOn` shows that who stands there on one day and reads on to a later one stands there again. The difficult case is an anchor that comes
into force in between: the sum begins anew with rows that the reader had passed. So the series has at each day what the day alone would show (`SeriesReads`, `PointAlone`), provided that
its days follow one another, which is a matter of the calendar (`StepsFollow`, `SamplesFollow`): months are of any lengths. That a point knows nothing of what is dated later
(`PointIsPast`) compares the book with a shorter one, whose rows bear other numbers. `Kept` is that numbering: it keeps the order, so it keeps which anchor is in force and which rows come
after it, and the sums (`SumRenamed`).
*The cash flow.* Categories and buckets divide the rows (`CategoriesAdd`, `BucketsTell`), and sums of a division are the sum of the whole. Rounding half to even strays by half a unit at most (`HalfEvenIsNear`), and the parts
of a row add up to it before they are converted; so they stray by half a unit for each part and a half for the row (`SplitIsNear`, `RowDrifts`), and a row of one part not at all (`HalfEvenIsExact`).

**Holdings.** `HoldingsInv` is what `PositionsAddUp` needs to be inductive. That an account is worth its positions is not: what the code sets is
the latest *valuation*, and which one that is changes when a transfer is deleted. `BalanceIsLatest` says that the balance is the latest valuation; `LastIsWorth`, that as long as an
account holds anything, the last valuation written is one of holdings and tells what they are worth. A delete of an earlier transfer takes its own valuation out of the list, which is never the last one while anything is held (`DeleteMoveKeeps`),
and the guard of a manual valuation keeps it from becoming the last. A statement dated ahead wins over the last one all the same, and is the exception that `WorthFollowsHoldings` names.

`BasisDriftIsBounded` is inductive, but each trade needs an inequality about products of unknown numbers, which the SMT solver does not decide. They are proved as laws of their own, by hand: a division leaves a
remainder less than the divisor, products keep the order, and a multiple of the scale that lies strictly within two of them lies within one of nothing. A purchase rounds an average, and the cost of what is held is the average times the
units: half a unit for each unit held. A sale leaves the average as it is and takes the cost of what was sold, and the two
parts of a cost add up to the whole but for one unit (`CostIsShared`). A position that is emptied costs nothing. A step that touches one position moves the sum by what that one changed (`CostMoves`); the others stay (`OthersKeep`). A switch is a sale and then a purchase, on the table that the sale left,
and a refresh reprices many positions and moves no cost.

**Wizard.** Rows of a batch are appended or get another status, and a promoted row stays promoted (`Later`). So what the page fetched is
`Behind` what is: each row it shows still says the same, and those it shows as promoted are. A press of the button decides on every row that it shows and that is not
promoted, and no other row was ever confirmed, so after `Decide` a confirmed row is one that showed a tick (`Deciding`, `Promoting`), also when an earlier press failed half-way or lost its answer.
This is `TickedIsBooked`. `BatchesAreFaithful` rests on `Inserting`: a batch begins as the reading of the form it began with (`Begins`), a resumed call goes on where the rows end, and
is of the same reading unless the batch is `mixed`. It has a hypothesis, `ReadersAreRight`: a file that is read in its own columns, formats and decimals reads what it says. This is about the constants,
not about a state; it holds of the three files of `imports`, each of which the run stages under its own mapping, and the mutant `HasDecimalsAlways` falsifies it.

Checked by TLC only:

* `EveryCallEnds` and `EveryDeletionEnds`: liveness is outside the prover.
* `AuditDriftIsExplained`: its sum runs over the transfers that edits made, and a later edit of the fee changes no term of it, so it lends itself to an argument as for `BalancesAreSums`; it is not written.
* The readers of amounts and days in `Wizard` (`ParseMoney`, `ParseDate`, `DeriveAmount`), which `BatchesAreFaithful` supposes to be right of a file: folds over digits, powers of
  ten and case distinctions over tagged cells. What they are right of are the files that `BatchTellsTheFile` is checked on.

## Where code and documents disagree

Four of them are stated by violation runs, and are in `PROJECT.json` as findings with the lines they quote: `sure_final`, `edit_fee`, `duplicates`
and `fee_left_behind`. Further differences met while modelling, which no run states but many of which a property names as its exception:

**Ledger**

* A bulk patch of a transfer drops its fee (`transactions.ts:4049`; 4070 and ADR-0033:36 call it a change of category or account only). `buildBulkUpdateReplacementInput` sends
  no `kind` either, so a bulk patch makes a balance adjustment or a fee leg a standard row; and it takes the accounts from the row it is given, so a request that
  names an inflow leg (the list hides those, the transport does not refuse them) turns the transfer around.
* An edit of a transfer with a fee logs the fee's change of the balance twice: it compares the accounts after the fee was posted (`transactions.ts:3862`), and the fee has an
  entry of its own. The create path takes care not to: "the fee's own delta [...] is never folded into the transfer-leg balance audit" (`transactions.ts:2667`). `AuditDriftIsExplained` has it as its only exception.
* The fee of a valuation-linked transfer that was edited on its own survives the delete as well (`transactions.ts:2896`, ADR-0035:224).
* Deleting a valuation-linked move that later moves build on gives the cash back but leaves the tracked
  value as the later statement has it; the code comment calls the reversal symmetric.
* `IdempotencyRecord.expiresAt` is written and never read.

**Anchors**

* A reconciliation that confirms the balance races with a create that has not committed (`valuations.ts:644`, against ADR-0043:402), and one of today adds earlier rows of the same
  day (`valuations.ts:643`, against `valuation-action-dialog.tsx:112`).
* Deleting or editing a row that an anchor has absorbed moves the stored and not the canonical balance;
  `DriftIsExplained` names it as a cause.
* With anchors entered out of date order, a row may lie in a segment of the chain and after its end as well;
  `ChainPartitionsRows` has the precondition for this reason.

**Dialog**

* An edit of an untouched row also loses its purpose, sets its status to CLEARED, and drops the attachment and destination amount; a row of
  kind `liability_fee` becomes standard; amounts of accounts that are not in the default currency are read back at the wrong scale (`transaction-list-row.tsx:48`). `Costs` lists them.
* A fee bearer that was chosen for one pair of accounts is sent for another pair, and the fee is posted on a third account (the comment at `transaction-form-modal.tsx:121` excludes it).
* A hidden destination amount is sent for a pair of one currency; a category of the other type survives a change of tab; notes and merchant that a transfer hides are sent.
* A transfer that was filed under a category in bulk (`transactions.ts:4041`) has no box for it in the dialog; an edit keeps the category unseen.
* After a transfer was submitted the tab stays on "transfer" while the form's type is reset, so that the next transfer is recorded as an expense.
* The hotkey reopens the dialog without `resetSplitState` (`transaction-form-modal.tsx:1624`), which the other ways to open it call.
* The default bearer of the fee of a redemption is the tracked account, which the server refuses.

**Recognition of a resend**

* The dialog sends no currency, so a faithful resend of a create on an account that is not in rupiah is answered with a conflict. So is the resend of a redemption (its row has the
  two accounts the other way round), one with empty notes, one with a destination amount on a row that stores none, and one with split entries on a transfer.
* The value entered for a tracked account is not compared at all.
* References are checked before the lookup of the key, and not on the path that rescues a lost race: the same resend is refused or answered, depending on the path.

**Household**

* `settings.ts:25` (after ADR-0035) and the comment in `schema.prisma:732` say that the base currency of a family never changes; `fx.ts:584` (`setBaseCurrencyForFamily`) changes it.
  A budget keeps the currency that it was created with (`budgets.ts:648-651`), and its audit entry states the base of the day (`budgets.ts:704`).
* Setting the lines of a budget without a name gives it the default name again. The audit entry omits `rolloverPolicy` from what was before (`budgets.ts:628`).
* A race of one key on a new name may meet the index on names first, and be answered "duplicate" instead of its stored answer. The second attempt of the creation of a person runs outside the error handler.
* The category for fees (`holdings.ts:2022`) and that for income are found by name, whatever their type.

**Import wizard**

* A file that is staged again with another account or mapping shows the batch as it was staged first (the toast at `import.tsx:224` says "this exact file"). A pending batch that is resumed under another form has rows of both (`mixed` in `BatchTellsTheFile`).
* `1.234` in a currency of three decimals or more is a decimal, whatever the bank meant. A negative amount in an outflow column is an expense.

**Accounts**

* Deletion of an account is blocked by transfers of accounts that were switched to tracking, and by trades, and leaves the account half drained; ADR-0046 promises that the next call resumes it.
* `reactivateAccountForFamily` works on accounts that are soft-deleted; a movement posted between the last chunk and the end stays alive on the deleted account; the removal of an account that a holding refers to fails on the foreign key.
* The preview of a deletion omits the account that bears a fee.

**Imports and Sure migration**

* Two staging runs of one pending batch that overlap stage rows twice; a second batch with an external id that is bound already fails as a whole; a batch with rejected or duplicate rows never becomes `completed`.
* An account with activity today gets a closing anchor dated tomorrow, which the rebuild ignores until then. A user who promotes a held leg after the closing anchor counts it twice. Exports replayed as A, B, A leave B's anchor in force.
* The comment that both rows of a pair are marked in one transaction, "never split across statuses", is not true when a user promotes one leg: its partner stays `normalized` without a reason and counts as an orphan; so does the partner of a duplicate. `FinishedRunBooksAll` names it as its exception, and with it
  a leg that another export paired otherwise: when a later export gives a leg to another partner and the leg was promoted with it, the first partner becomes the partner of a duplicate.
* `reuseAccount` reuses soft-deleted accounts. Pairs from Sure's own transfers are not checked for equal amounts or opposite signs.

**Holdings**

* The comments at `holdings.ts:1021`, in `lib/holdings.ts` and ADR-0051:229 put the rounding of an average at one unit; it is half a minor unit *for each unit held*, with each purchase; `BasisDriftIsBounded` (a part of `PositionsAddUp`) has the bound.
* A manual valuation dated ahead, entered before the account had holdings, wins over every later trade until its day; `WorthFollowsHoldings` excludes it.
* No unique index keeps an account from two positions of one instrument; an edit that enters no price clears the market price; a refresh of the family fails on a position of a soft-deleted account.

**Debts**

* The comment "a re-tried lend/borrow never forks the ledger" holds for calls one after the other, and not for two that overlap, or a call and its retry. After a fork, a repayment is measured
  against whichever account is found first, in no order.
* `debts.ts:508-512` says of the retry of a repayment that the ledger core "returns the stored result without touching balances again". The core first compares the whole payload (`transactions.ts:1499-1563`): a date
  that the client did not send is stamped anew (`debts.ts:356`, `483`), and the currency, which is not sent, is taken for rupiah (`transactions.ts:877`) while the row has that of the account (`transactions.ts:2553`). Such a retry is
  answered with a conflict, though nothing overlapped it; the same is so of loans. `ForksOnlyWhenCallsOverlap` says of complete calls in rupiah that they are answered.

**Membership**

* `family-members.ts:293` speaks of users who "keep that pointer". `User.familyId` is also input of the authentication library (`auth.server.ts:41-44`; `passwordHash` at 37 is excluded by `input: false`), so users may
  point themselves elsewhere, or nowhere, after which onboarding founds them another family. ADR-0036 calls it an "active family" pointer, and rights are read from member rows, so `FamilyHasOwner` and `RevokedChangeNothing` are not touched by it.

**Reports**

* ADR-0035:114 has "every base-currency figure [...] materialized at write time". The rows of a bulk create have none (`transactions.ts:4394-4411`, against 3477 too), though their currency may be the base or its rate be known;
  the reports count them as unconverted until a rebuild covers them. `ProjectionsAreFresh` has them as its exception.
* They state no currency either, so they get the default of the column, IDR (`schema.prisma:332`), whatever the account is kept in, and a rebuild converts them from it. The single create derives "the ACCOUNT's currency" (`transactions.ts:2748`).
* `lib/net-worth.ts` says the last point of the series equals the stored balance by construction; rows of the anchor's own day that were recorded before it, and rows dated ahead, are the difference (`SeriesIsAsOfItsDay` states it exactly).
* The parts of a split row are converted each on its own; their sum may differ from the converted row (`ReportsAgree` bounds it).
* Stepping month by month from the 31st stays at the shorter day for good.

**Market data**

* `market-data.server.ts` (`resolveInstrumentId`) says a concurrent create that loses the race "is recovered by a re-find". The re-find runs in the
  database transaction that the violation has aborted, where PostgreSQL refuses every query; `Store` therefore lets the group fail, and `QuotesTellTheMarket` shows
  that the other groups go on.
* `ensureReksadanaInstrument` promises the right route "from the start". A fund that a backfill ingested first has a row without provider, which it finds
  and leaves; the fund is then routed to `yahoo` and skipped by every sync.

## Plan

Done: all modules above. What would come next, in this order:

1. Proofs: `AuditDriftIsExplained`; and that the readers of `Wizard` read what a bank's file says, for any digits and any separators; the proofs now
   suppose it of a file.
2. Tracked accounts in the net-worth series, which order their valuations of one day as the database returns them.
3. `LedgerCleanup`: two phases over many rows, each pass resumable.

## Not modelled

* Of **market data**: the fixture provider of the tests, foreign exchange pairs (which no adapter serves), and the layout of the sites'
  answers, of which the model has the rows and points that are read from them.
* **Ledger cleanup** is an operator's one-off tool. **Profile and theme settings** are rows that nothing else reads.
* **Authentication and sessions** (a library), **rate limiting** (an in-memory counter), row-level
  security (SQL policies, which only `Membership` evaluates since its handlers change what the policies read).
* **The user interface** apart from the transaction dialog and the import wizard: pages, charts, filters, analytics, the other forms (each sends one call
  that the server modules have) and the optimistic cache of the client collections. This, with tables of data such as `lib/data/currencies.ts`, is most of the source that no definition covers.
* In `Reports`: accounts that follow valuations, in the series (the order of statements of one day is the database's), and the limit on the number of its points. Rows of the bulk create are entered one by one there: what one becomes does not depend on the others.
* In `Wizard`: the splitting of a text into lines and cells, symbols and blanks in amounts, and overlapping calls of one page.
* In `Household`: the lists, which only read.
* In `Ledger`: what `Semantics` has (currency, category, split entries), tags and attachments. In `Holdings`: trades in more than one currency, which the
  code refuses. In `SureMigration`: the artifacts that a run retains.
* Views that only read (lists, previews, statistics), except `Listed`, `Progress`, the batch that the wizard fetches, and the reports.

`PROJECT.json` lists each component with its status and reason.
