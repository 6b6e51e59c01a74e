----------------------------- MODULE Household -----------------------------
(***************************************************************************)
(* What a family keeps around its ledger: categories, merchants, smart     *)
(* rules, monthly budgets, its time zone and its base currency             *)
(* (categories.ts, merchants.ts, smart-rules.ts, budgets.ts, settings.ts   *)
(* and fx.ts of src/src/server, src/src/lib/budget-progress.ts).           *)
(*                                                                         *)
(* A keyed call runs in a serializable database transaction: it looks its  *)
(* key up, validates, writes, appends to the audit log and stores its      *)
(* answer.  A transaction reads the snapshot it began with, and cannot     *)
(* commit when another has committed what it both reads and writes: it is  *)
(* run again, or the unique index that it met refuses it.                  *)
(*                                                                         *)
(* Names are those that the name index compares, trimmed and in lower      *)
(* case.  Time is in hours of UTC.  A row keeps, for each of its parts,    *)
(* what the part is worth in the base currency; module Reports rebuilds it *)
(* when that changes.                                                      *)
(***************************************************************************)
EXTENDS Integers, FiniteSets, FiniteSetsExt, SequencesExt

CONSTANTS
  Clerks,            \* request handlers
  SystemCategories,  \* the categories of the system
  Migrated,          \* [table, name, type]: what a Sure migration may bring
  Filed,             \* [name, type]: categories that investments book under
  Wanted,            \* the requests
  Spendings,         \* [at, pending, parts]: expense rows
  Zones,             \* hours ahead of UTC
  Bases,             \* what a family may keep its books in
  FirstDay,          \* month -> its first day; the last element ends the last month
  None,
  MaxInputs          \* bound on requests and on what other writers do

Months == 1..(Len(FirstDay) - 1)
Share == [category : Nat, base : Nat]

Ends == {"category", "merchant", "budget", "archive", "rule", "drop"}

\* calendarDateInZone
DayIn(zone, at) == (at + zone) \div 24

\* The months cover the spendings; only createPerson takes a contact that exists; the
\* page draws a key for each press of a button, so none both sets and archives a budget.
ASSUME HouseholdAssumption ==
  /\ SystemCategories \in Seq([name : STRING, type : {"expense", "income"}])
  /\ Zones \subseteq -12..14 /\ None \notin Bases
  /\ FirstDay \in Seq(Nat) /\ Len(FirstDay) > 1 /\ \A m \in Months : FirstDay[m] < FirstDay[m + 1]
  /\ \A r \in Spendings :
       /\ r.at \in Nat /\ r.pending \in BOOLEAN /\ r.parts \in Seq(Share)
       /\ \A zone \in Zones :
            FirstDay[1] <= DayIn(zone, r.at) /\ DayIn(zone, r.at) < FirstDay[Len(FirstDay)]
  /\ \A call \in Wanted :
       call.end \in Ends /\ (call.end = "merchant" /\ call.reuse => call.kind = "person")
  /\ \A call \in Wanted : call.end \in {"budget", "archive"} => call.month \in Months
  /\ \A call, other \in Wanted : call.end = "budget" /\ other.end = "archive" => call.key # other.key
  /\ \A row \in Migrated : row.table \in {"categories", "merchants"}
  /\ MaxInputs \in Nat

VARIABLES
  db,       \* the tables of the family
  desk,     \* clerk -> the request it handles
  answers,  \* [call, answer]: what callers were told
  inputs

householdVars == <<db, desk, answers, inputs>>

-----------------------------------------------------------------------------
(* Months in the family's time zone, and the progress of a budget. *)

\* currentMonthInZone
MonthAt(zone, at) ==
  CHOOSE m \in Months : FirstDay[m] <= DayIn(zone, at) /\ DayIn(zone, at) < FirstDay[m + 1]

\* Faulty variant: the query asks for the days of the month in UTC.
FetchedBare(rows, m) ==
  {n \in DOMAIN rows : rows[n].at >= 24 * FirstDay[m] /\ rows[n].at < 24 * FirstDay[m + 1]}

\* fetchPeriodLedgerRows: a day before the month and a day after it are fetched too.
Fetched(rows, m) ==
  {n \in DOMAIN rows : /\ rows[n].at >= 24 * (FirstDay[m] - 1)
                       /\ rows[n].at < 24 * (FirstDay[m + 1] + 1)}

\* transactionInPeriod
Counted(rows, m, zone) ==
  {n \in Fetched(rows, m) : /\ FirstDay[m] <= DayIn(zone, rows[n].at)
                            /\ DayIn(zone, rows[n].at) <= FirstDay[m + 1] - 1}

PartsOf(rows, ns, category) ==
  {p \in UNION {{<<n, i>> : i \in DOMAIN rows[n].parts} : n \in ns} :
     rows[p[1]].parts[p[2]].category = category}

\* One bucket of computeBudgetProgress; category 0 is the uncategorized one.
Bucket(rows, m, zone, category) ==
  LET of(pending) == PartsOf(rows, {n \in Counted(rows, m, zone) : rows[n].pending = pending}, category)
  IN [actual |-> MapThenSumSet(LAMBDA p : rows[p[1]].parts[p[2]].base, of(FALSE)),
      pending |-> Cardinality(of(TRUE))]

\* A line has an amount and a rollover policy.
NoBudget == [name |-> None, archived |-> FALSE, currency |-> None, lines |-> <<>>, policies |-> <<>>]

\* computePeriodProgress
Progress(w, m) ==
  LET budget == w.budgets[m]
      lines == budget.lines
      zone == w.family.zone
      spent == MapThenSumSet(LAMBDA c : Bucket(w.rows, m, zone, c).actual, DOMAIN lines)
      allocated == MapThenSumSet(LAMBDA c : lines[c], DOMAIN lines)
  IN [name |-> budget.name, archived |-> budget.archived,
      currency |-> IF budget = NoBudget THEN w.family.currency ELSE budget.currency,
      categories |-> [c \in DOMAIN lines |-> <<lines[c], budget.policies[c], Bucket(w.rows, m, zone, c)>>],
      uncategorized |-> Bucket(w.rows, m, zone, 0),
      totals |-> [allocated |-> allocated, actual |-> spent, isOver |-> spent > allocated,
                  pending |-> Cardinality({n \in Counted(w.rows, m, zone) : w.rows[n].pending})]]

-----------------------------------------------------------------------------
(* The endpoints.  Each has a verdict on a call, an effect and an answer,  *)
(* in the tables w that its transaction sees.                              *)

Category(name, type, owner, bound, parent) ==
  [name |-> name, type |-> type, owner |-> owner, bound |-> bound, parent |-> parent]
Merchant(name, kind, bound) == [name |-> name, kind |-> kind, bound |-> bound]

Named(table, name) == {i \in DOMAIN table : table[i].name = name}
OwnCategories(w) == {i \in DOMAIN w.categories : w.categories[i].owner = "family"}
Manual(table) == {i \in DOMAIN table : ~table[i].bound}

\* An entry of the audit log, with the fields it tells of the entity.  The currency
\* that the entry of a budget states is kept apart.
ToldIn(currency, entity, key, before, after) ==
  [entity |-> entity, key |-> key, before |-> before, after |-> after, currency |-> currency]
Told(entity, key, before, after) == ToldIn(None, entity, key, before, after)
Audited(w, entry) == [w EXCEPT !.trail = Append(@, entry)]

\* createCategoryForFamily
CategoryVerdict(w, call) ==
  CASE call.parent # None /\ call.parent \notin OwnCategories(w) -> "not found"
    [] call.parent # None /\ w.categories[call.parent].type # call.type -> "invalid"
    [] OwnCategories(w) \cap Named(w.categories, call.name) # {} -> "duplicate"
    [] OTHER -> "fine"
AddCategory(w, call) ==
  LET row == Category(call.name, call.type, "family", FALSE, call.parent) IN
  Audited([w EXCEPT !.categories = Append(@, row)],
          Told(<<"category", Len(w.categories) + 1>>, call.key, <<>>, row))

\* createMerchantForFamily, which an ordinary call and the creation of a person use;
\* of several rows with the name it may find any, here the first.
MerchantVerdict(w, call) ==
  IF Named(w.merchants, call.name) # {} /\ ~call.reuse THEN "duplicate" ELSE "fine"
ContactOf(w, call) ==
  IF Named(w.merchants, call.name) = {} THEN Len(w.merchants) + 1 ELSE Min(Named(w.merchants, call.name))

\* Faulty variant: a contact that exists is given back as it is.
AddMerchantKeepingKind(w, call) ==
  LET i == ContactOf(w, call)
      row == Merchant(call.name, call.kind, FALSE)
  IN IF i \in DOMAIN w.merchants THEN w
     ELSE Audited([w EXCEPT !.merchants = Append(@, row)], Told(<<"merchant", i>>, call.key, <<>>, row))

AddMerchant(w, call) ==
  LET i == ContactOf(w, call)
      row == Merchant(call.name, call.kind, FALSE)
  IN IF i \notin DOMAIN w.merchants
     THEN Audited([w EXCEPT !.merchants = Append(@, row)], Told(<<"merchant", i>>, call.key, <<>>, row))
     ELSE IF w.merchants[i].kind = call.kind THEN w
     ELSE Audited([w EXCEPT !.merchants[i].kind = call.kind],
                  Told(<<"merchant", i>>, call.key, w.merchants[i], [w.merchants[i] EXCEPT !.kind = call.kind]))

\* validateExpenseCategories: what row-level security shows is of the system or of the family.
BudgetVerdict(w, call) ==
  IF \A i \in DOMAIN call.lines : /\ call.lines[i][1] \in DOMAIN w.categories
                                  /\ w.categories[call.lines[i][1]].type = "expense"
  THEN "fine" ELSE "invalid"

\* The amounts that the lines give, or their policies.
AsLines(lines, column) ==
  [c \in {lines[i][1] : i \in DOMAIN lines} |->
     lines[CHOOSE i \in DOMAIN lines : lines[i][1] = c][column]]

\* The upserts of the lines given, and the deletion of the others.
Replaced(old, new) == [c \in DOMAIN new |-> new[c]]

\* setBudgetAllocationsForFamily.  A call without a name gives the budget the
\* default one, and one for an archived month brings it back.  A budget keeps the
\* base currency it was created in; the log states the one of today, and nothing
\* of the policies that were.
SetLines(w, call, base) ==
  LET old == w.budgets[call.month]
      amounts == AsLines(call.lines, 2)
      policies == AsLines(call.lines, 3)
      name == IF call.name = None THEN "default" ELSE call.name
  IN Audited([w EXCEPT !.budgets[call.month] =
                [name |-> name, archived |-> FALSE,
                 currency |-> IF old = NoBudget THEN base ELSE old.currency,
                 lines |-> Replaced(old.lines, amounts),
                 policies |-> Replaced(old.policies, policies)]],
             ToldIn(base, <<"budget", call.month>>, call.key,
                    IF old = NoBudget THEN <<>>
                    ELSE [name |-> old.name, archived |-> old.archived, lines |-> old.lines],
                    [name |-> name, archived |-> FALSE, lines |-> amounts, policies |-> policies]))

\* archiveBudgetForFamily
Archived(w, call) ==
  IF w.budgets[call.month].archived THEN w
  ELSE Audited([w EXCEPT !.budgets[call.month].archived = TRUE],
               Told(<<"budget", call.month>>, call.key, [archived |-> FALSE], [archived |-> TRUE]))

\* createSmartRuleForFamily and validateTenantReferences; no key.
RuleVerdict(w, call) ==
  IF /\ call.category = None \/ call.category \in DOMAIN w.categories
     /\ call.merchant = None \/ call.merchant \in DOMAIN w.merchants
  THEN "fine" ELSE "not found"
AddRule(w, call) ==
  LET row == [keyword |-> call.keyword, category |-> call.category, merchant |-> call.merchant, live |-> TRUE]
  IN Audited([w EXCEPT !.rules = Append(@, row)], Told(<<"rule", Len(w.rules) + 1>>, None, <<>>, row))

\* deleteSmartRuleForFamily
LiveRule(w, n) == n \in DOMAIN w.rules /\ w.rules[n].live
DropRule(w, call) ==
  Audited([w EXCEPT !.rules[call.rule].live = FALSE],
          Told(<<"rule", call.rule>>, None, w.rules[call.rule], [live |-> FALSE]))

Keyed(call) == call.end \notin {"rule", "drop"}

\* The canonical payload that is hashed, in no order of the lines.
Payload(call) ==
  <<call.end,
    CASE call.end = "budget" -> <<call.month, call.name, AsLines(call.lines, 2), AsLines(call.lines, 3)>>
      [] call.end = "merchant" -> <<call.name, call.kind>>
      [] OTHER -> call>>

Verdict(w, call) ==
  CASE call.end = "category" -> CategoryVerdict(w, call)
    [] call.end = "merchant" -> MerchantVerdict(w, call)
    [] call.end = "budget" -> BudgetVerdict(w, call)
    [] call.end = "archive" -> IF w.budgets[call.month] = NoBudget THEN "not found" ELSE "fine"
    [] call.end = "rule" -> RuleVerdict(w, call)
    [] call.end = "drop" -> IF LiveRule(w, call.rule) THEN "fine" ELSE "not found"

Effect(w, call, base) ==
  CASE call.end = "category" -> AddCategory(w, call)
    [] call.end = "merchant" -> AddMerchant(w, call)
    [] call.end = "budget" -> SetLines(w, call, base)
    [] call.end = "archive" -> Archived(w, call)
    [] call.end = "rule" -> AddRule(w, call)
    [] call.end = "drop" -> DropRule(w, call)

\* What is answered once the effect has made w of the tables.
Reply(w, call) ==
  <<call.end, "done",
    CASE call.end = "category" -> Len(w.categories)
      [] call.end = "merchant" -> LET i == Min(Named(w.merchants, call.name)) IN <<i, w.merchants[i]>>
      [] call.end = "budget" -> Progress(w, call.month)
      [] OTHER -> 0>>
Refusal(call, why) == <<call.end, why>>

-----------------------------------------------------------------------------
(* Keys. *)

RecordsOf(w, call) == {r \in w.records : r.end = call.end /\ r.key = call.key}

\* Faulty variant: the transaction does not look for the key.
KnownNever(w, call) == FALSE

\* replayIdempotentEndpointResponse finds a record.
Known(w, call) == Keyed(call) /\ RecordsOf(w, call) # {}

\* Its answer, unless the payload is another one.
Recalled(w, call) ==
  LET r == CHOOSE r \in RecordsOf(w, call) : TRUE IN
  IF r.payload = Payload(call) THEN r.answer ELSE Refusal(call, "conflict")

\* persistIdempotentEndpointResponse
Recorded(w, call, answer) ==
  IF ~Keyed(call) THEN w
  ELSE [w EXCEPT !.records =
          @ \cup {[end |-> call.end, key |-> call.key, payload |-> Payload(call), answer |-> answer]}]

-----------------------------------------------------------------------------
(* Transactions. *)

\* What a call both reads and writes.
Footprint(call) ==
  (IF Keyed(call) THEN {<<"record", call.end, call.key>>} ELSE {}) \cup
  CASE call.end = "category" -> {<<"categories">>}
    [] call.end = "merchant" -> {<<"merchants">>}
    [] call.end \in {"budget", "archive"} -> {<<"budget", call.month>>}
    [] call.end = "rule" -> {}
    [] call.end = "drop" -> {<<"rule", call.rule>>}

Free == [pc |-> "idle"]
Begun(call, again) == [pc |-> "open", call |-> call, again |-> again, snap |-> db, changed |-> {}]
Rescue(call) == [pc |-> "rescue", call |-> call]

\* Every other open transaction is told of what a commit has changed.
Informed(d, changes) ==
  [c \in Clerks |-> IF d[c].pc = "open" THEN [d[c] EXCEPT !.changed = @ \cup changes] ELSE d[c]]

Unambiguous(call) ==
  call.end = "budget" => \A i, j \in DOMAIN call.lines : call.lines[i][1] = call.lines[j][1] => i = j

Input == inputs < MaxInputs /\ inputs' = inputs + 1

\* A request arrives; one that names a category twice is refused before anything else.
TakeUp(c, call) ==
  /\ desk[c] = Free /\ Unambiguous(call) /\ Input
  /\ desk' = [desk EXCEPT ![c] = Begun(call, FALSE)]
  /\ UNCHANGED <<db, answers>>

Tell(c, call, answer) ==
  /\ answers' = answers \cup {[call |-> call, answer |-> answer]}
  /\ desk' = [desk EXCEPT ![c] = Free]
  /\ UNCHANGED <<db, inputs>>

\* The transaction finds its key, or throws: nothing is written.
Decline(c) ==
  LET t == desk[c] IN
  /\ t.pc = "open"
  /\ \/ Known(t.snap, t.call) /\ Tell(c, t.call, Recalled(t.snap, t.call))
     \/ /\ ~Known(t.snap, t.call) /\ Verdict(t.snap, t.call) # "fine"
        /\ Tell(c, t.call, Refusal(t.call, Verdict(t.snap, t.call)))

Fresh(t) == ~Known(t.snap, t.call) /\ Verdict(t.snap, t.call) = "fine"

\* The transaction commits; what it answers is of its snapshot, and so is the base
\* currency, which it reads and does not write.
Commit(c) ==
  LET t == desk[c]
      base == t.snap.family.currency
      answer == Reply(Effect(t.snap, t.call, base), t.call)
  IN /\ t.pc = "open" /\ Fresh(t) /\ t.changed \cap Footprint(t.call) = {}
     /\ db' = Recorded(Effect(db, t.call, base), t.call, answer)
     /\ desk' = Informed([desk EXCEPT ![c] = Free], Footprint(t.call))
     /\ answers' = answers \cup {[call |-> t.call, answer |-> answer]}
     /\ UNCHANGED inputs

Conflicted(t) == t.pc = "open" /\ Fresh(t) /\ t.changed \cap Footprint(t.call) # {}

\* withSerializableRetry runs the transaction again.
Retry(c) ==
  /\ Conflicted(desk[c])
  /\ desk' = [desk EXCEPT ![c] = Begun(desk[c].call, desk[c].again)]
  /\ UNCHANGED <<db, answers, inputs>>

NameTaken(t) ==
  \/ t.call.end = "category" /\ Named(db.categories, t.call.name) \cap OwnCategories(db) \cap Manual(db.categories) # {}
  \/ t.call.end = "merchant" /\ Named(t.snap.merchants, t.call.name) = {}
     /\ Named(db.merchants, t.call.name) \cap Manual(db.merchants) # {}

\* isNameDedupConstraintError: the index on names refuses the insertion.  The
\* creation of a person runs once more, outside the handler of errors.
NameRefused(c) ==
  LET t == desk[c] IN
  /\ Conflicted(t) /\ NameTaken(t)
  /\ IF t.again \/ ~(t.call.end = "merchant" /\ t.call.reuse)
     THEN Tell(c, t.call, Refusal(t.call, IF t.again THEN "error" ELSE "duplicate"))
     ELSE /\ desk' = [desk EXCEPT ![c] = Begun(t.call, TRUE)]
          /\ UNCHANGED <<db, answers, inputs>>

\* Another unique index refuses: that of the keys, or of the budgets of a month.
KeyRefused(c) ==
  LET t == desk[c] IN
  /\ Conflicted(t) /\ ~NameTaken(t)
  /\ \/ Known(db, t.call)
     \/ t.call.end = "budget" /\ t.snap.budgets[t.call.month] = NoBudget
  /\ IF t.again THEN Tell(c, t.call, Refusal(t.call, "error"))
     ELSE /\ desk' = [desk EXCEPT ![c] = Rescue(t.call)]
          /\ UNCHANGED <<db, answers, inputs>>

\* The handler of the error looks for the key in a transaction of its own.
Resolve(c) ==
  /\ desk[c].pc = "rescue"
  /\ LET call == desk[c].call IN
       Tell(c, call, IF Known(db, call) THEN Recalled(db, call) ELSE Refusal(call, "error"))

\* The server stops, or the retries are used up, before the commit.
GiveUp(c) ==
  /\ desk[c] # Free
  /\ desk' = [desk EXCEPT ![c] = Free]
  /\ UNCHANGED <<db, answers, inputs>>

-----------------------------------------------------------------------------
(* Other writers. *)

\* createTransactionForFamily
Spend(row) ==
  /\ Input
  /\ db' = [db EXCEPT !.rows = Append(@, row)]
  /\ UNCHANGED <<desk, answers>>

\* updateFamilyPreferencesForFamily
SetZone(zone) ==
  /\ Input
  /\ db' = Audited([db EXCEPT !.family.zone = zone],
                   Told(<<"family">>, None, [zone |-> db.family.zone], [zone |-> zone]))
  /\ UNCHANGED <<desk, answers>>

\* setBaseCurrencyForFamily, when the currency is another one.
SetBase(currency) ==
  /\ Input /\ currency # db.family.currency
  /\ db' = Audited([db EXCEPT !.family.currency = currency],
                   Told(<<"family">>, None, [currency |-> db.family.currency], [currency |-> currency]))
  /\ UNCHANGED <<desk, answers>>

\* runSureMigrationForFamily binds rows by their external id, whatever their names.
\* It counts as a conflict, because the place in the table stands for the id.
Migrate(row) ==
  LET w == IF row.table = "categories"
           THEN [db EXCEPT !.categories = Append(@, Category(row.name, row.type, "family", TRUE, None))]
           ELSE [db EXCEPT !.merchants = Append(@, Merchant(row.name, row.type, TRUE))]
      entity == IF row.table = "categories" THEN "category" ELSE "merchant"
  IN /\ Input
     /\ db' = Audited(w, Told(<<entity, Len(w[row.table])>>, None, <<>>, Last(w[row.table])))
     /\ desk' = Informed(desk, {<<row.table>>})
     /\ UNCHANGED answers

\* The income or the fee of an investment looks for its category by name, and takes
\* what it finds, of whatever type; otherwise it makes one.
FindOrCreate(filed) ==
  /\ OwnCategories(db) \cap Named(db.categories, filed.name) = {}
  /\ Input
  /\ db' = AddCategory(db, [key |-> None, name |-> filed.name, type |-> filed.type, parent |-> None])
  /\ desk' = Informed(desk, {<<"categories">>})
  /\ UNCHANGED answers

-----------------------------------------------------------------------------
HouseholdInit ==
  /\ \E zone \in Zones, currency \in Bases :
       db = [categories |-> [i \in DOMAIN SystemCategories |->
               Category(SystemCategories[i].name, SystemCategories[i].type, "system", FALSE, None)],
             merchants |-> <<>>, rules |-> <<>>, budgets |-> [m \in Months |-> NoBudget],
             family |-> [zone |-> zone, currency |-> currency], rows |-> <<>>, records |-> {}, trail |-> <<>>]
  /\ desk = [c \in Clerks |-> Free] /\ answers = {} /\ inputs = 0

HouseholdNext ==
  \/ \E c \in Clerks :
       \/ \E call \in Wanted : TakeUp(c, call)
       \/ Decline(c) \/ Commit(c) \/ Retry(c) \/ NameRefused(c) \/ KeyRefused(c) \/ Resolve(c) \/ GiveUp(c)
  \/ \E row \in Spendings : Spend(row)
  \/ \E zone \in Zones : SetZone(zone)
  \/ \E currency \in Bases : SetBase(currency)
  \/ \E row \in Migrated : Migrate(row)
  \/ \E filed \in Filed : FindOrCreate(filed)

HouseholdSpec == HouseholdInit /\ [][HouseholdNext]_householdVars

-----------------------------------------------------------------------------
(* Properties. *)

\* Whatever the time zone, every spending counts in the budget of one month, the
\* one that is shown by default when it is made, and the months together
\* have spent in a category what its rows say (ADR-0037 3).
SpendingIsInOneMonth ==
  \A zone \in Zones :
    /\ \A n \in DOMAIN db.rows :
         {m \in Months : n \in Counted(db.rows, m, zone)} = {MonthAt(zone, db.rows[n].at)}
    /\ \A category \in 0..Len(db.categories) :
         LET ps == PartsOf(db.rows, {n \in DOMAIN db.rows : ~db.rows[n].pending}, category) IN
         MapThenSumSet(LAMBDA m : Bucket(db.rows, m, zone, category).actual, Months)
           = MapThenSumSet(LAMBDA p : db.rows[p[1]].parts[p[2]].base, ps)

Accepted == {r \in answers : r.answer[2] = "done"}

\* What the entries of the audit log say of an entity: of each field, what the last
\* entry says that tells it.
Telling(trail, entity) ==
  LET about == {i \in DOMAIN trail : trail[i].entity = entity} IN
  [f \in UNION {DOMAIN trail[i].after : i \in about} |->
     trail[Max({i \in about : f \in DOMAIN trail[i].after})].after[f]]
\* Of a budget, all but its currency; of the family, what the log has told.
Present(w, entity) ==
  CASE entity[1] = "category" -> w.categories[entity[2]]
    [] entity[1] = "merchant" -> w.merchants[entity[2]]
    [] entity[1] = "rule" -> w.rules[entity[2]]
    [] entity[1] = "budget" ->
         [f \in {"name", "archived", "lines", "policies"} |-> w.budgets[entity[2]][f]]
    [] entity[1] = "family" -> [f \in DOMAIN Telling(w.trail, entity) |-> w.family[f]]

\* The base currency has been changed.
Rebased(trail) == \E i \in DOMAIN trail : trail[i].entity = <<"family">> /\ "currency" \in DOMAIN trail[i].after

\* The audit log explains the present, however calls overlap, fail and are sent
\* again: of each field that an entry's "before" tells, it tells what the entries
\* before it left (but for the zone and the base currency of a family, which are older
\* than the log), the last "after" that tells a field tells what the row now holds, and
\* an accepted key appears in the log once at most.  Two things the log does not
\* explain: the rollover policies that an entry of a budget replaces are not in its
\* "before" (budgets.ts:628), and after the base currency has changed the entry states
\* the new one for a budget that keeps the old (budgets.ts:648-651, 704).
TrailTellsThePresent ==
  /\ \A i \in DOMAIN db.trail :
       LET e == db.trail[i]
           earlier == SubSeq(db.trail, 1, i - 1)
           told == Telling(earlier, e.entity)
       IN /\ \A f \in DOMAIN e.before :
               IF f \in DOMAIN told THEN e.before[f] = told[f] ELSE e.entity = <<"family">>
          /\ Telling(db.trail, e.entity) = Present(db, e.entity)
          /\ e.currency # None => e.currency = db.budgets[e.entity[2]].currency \/ Rebased(earlier)
          /\ \A j \in DOMAIN db.trail :
               e.key # None /\ db.trail[j].key = e.key /\ db.trail[j].entity[1] = e.entity[1] => j = i
  /\ \A r, s \in Accepted :
       Keyed(r.call) /\ s.call.end = r.call.end /\ s.call.key = r.call.key => s.answer = r.answer

\* No two rows that the family named have the same name, migrated ones beside;
\* a subcategory is of the type of its parent; and who was created as a person,
\* or made one of an existing contact, stays one (PER-189, PER-213).
NamesStayApart ==
  /\ \A table \in {db.merchants, [i \in OwnCategories(db) |-> db.categories[i]]} :
       \A i, j \in Manual(table) : table[i].name = table[j].name => i = j
  /\ \A i \in OwnCategories(db) \cap Manual(db.categories) : LET c == db.categories[i] IN
       c.parent # None => c.parent \in OwnCategories(db) /\ db.categories[c.parent].type = c.type
  /\ \A r \in Accepted :
       r.call.end = "merchant" /\ r.call.kind = "person" => db.merchants[r.answer[3][1]].kind = "person"

=============================================================================
