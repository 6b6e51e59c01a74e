------------------------------- MODULE Reports -------------------------------
(***************************************************************************)
(* Rates of exchange, the projections into the base currency that rows     *)
(* keep (src/src/server/fx.ts), and the reports computed from them: the    *)
(* net-worth series (src/src/lib/net-worth.ts), the cash flow              *)
(* (src/src/lib/cash-flow.ts) and the progress of a budget                 *)
(* (src/src/lib/budget-progress.ts).                                       *)
(*                                                                         *)
(* A row projects itself when it is created, from the base currency and    *)
(* the rates it finds; a rate that changes, a new base currency and a call *)
(* of its own rebuild the projections that exist.  All read what the       *)
(* others write, and the database transactions are serializable: one step  *)
(* each.  Rows entered in bulk are the exception: they are stored without  *)
(* a projection, and in the default currency of the column.                *)
(*                                                                         *)
(* Days are those of the family's timezone, and the clock of a row says    *)
(* whether it carries a time of day.  Merchants are grouped as categories  *)
(* are; accounts that follow valuations, and the limit on the points of a  *)
(* series, are left out.                                                   *)
(***************************************************************************)
EXTENDS Rounding, Ordering, FiniteSets, FiniteSetsExt, Sequences

CONSTANTS
  Currencies,
  Default,       \* the default of Transaction.currency
  Conv,          \* minorUnitConversion: currency -> minor units in one unit
  Scale,         \* RATE_SCALE
  CurrencyOf,    \* account -> its currency
  Liability,     \* accounts of class LIABILITY
  Opened,        \* the opening anchors, which come with the accounts
  Rows,          \* transactions and anchors that may be created
  Rates,         \* [from, to, day, rate] that may be stored
  Today, LastDay,
  Week,          \* days in a week
  MonthStarts,   \* the first days of the months, to the second after LastDay
  Nothing,       \* no currency
  MaxRows, MaxUpserts, MaxBases, MaxDeletes   \* bounds on the calls

Accounts == DOMAIN CurrencyOf
Days == 1..LastDay
Kinds == {"income", "expense", "transfer", "anchor"}
Intervals == {"day", "week", "month"}

\* A part is a split child; a row that is not split has one.
BookRow == [acc : Accounts, kind : Kinds, day : Days, clock : BOOLEAN, excluded : BOOLEAN,
            amount : Int, parts : Seq([category : STRING, amount : Nat])]

ASSUME ReportsAssumption ==
  /\ Default \in Currencies
  /\ Scale \in Nat \ {0} /\ Conv \in [Currencies -> Nat \ {0}]
  /\ CurrencyOf \in [Accounts -> Currencies] /\ Liability \subseteq Accounts
  /\ Rates \subseteq [from : Currencies, to : Currencies, day : Days, rate : Nat \ {0}]
  /\ Rows \subseteq BookRow /\ Opened \in Seq(BookRow)
  /\ \A r \in Rows : r.kind \in {"income", "expense"} =>
       /\ r.amount = (IF r.kind = "income" THEN 1 ELSE -1)
                     * MapThenSumSet(LAMBDA i : r.parts[i].amount, DOMAIN r.parts)
       /\ \A i \in DOMAIN r.parts : r.parts[i].amount > 0
  /\ \A i \in DOMAIN Opened : Opened[i].kind = "anchor"
  /\ \A a \in Accounts : \E i \in DOMAIN Opened : Opened[i].acc = a /\ Opened[i].day <= Today
  /\ Week \in Nat \ {0} /\ MonthStarts \in Seq(Nat) /\ MonthStarts[1] = 1
  /\ \A i \in 2..Len(MonthStarts) : MonthStarts[i - 1] < MonthStarts[i]
  /\ \E i \in 1..(Len(MonthStarts) - 2) : MonthStarts[i] > LastDay
  /\ LastDay \in Nat /\ Today \in Days /\ MaxRows \in Nat /\ MaxUpserts \in Nat /\ MaxBases \in Nat /\ MaxDeletes \in Nat

VARIABLES
  base,          \* Family.currency
  rates,         \* FxRateSnapshot
  book,          \* [row, currency, proj, raw, live], in the order of creation
  upserts, bases, deletes

reportsVars == <<base, rates, book, upserts, bases, deletes>>

-----------------------------------------------------------------------------
(* Projections. *)

Pending == [amount |-> 0, base |-> Nothing, rate |-> 0]

\* convertMinor
Convert(amount, from, to, rate) == HalfEven(amount * rate * Conv[to], Conv[from] * Scale)

\* The rates of a pair that a day may use; resolveSnapshot takes the newest.
Dated(known, from, to, day) == {r \in known : r.from = from /\ r.to = to /\ r.day <= day}
Newest(rs) == CHOOSE r \in rs : \A s \in rs : s.day <= r.day

\* computeBaseProjectionForAmount, of a row in the currency from.
Project(r, from, to, known) ==
  LET usable == Dated(known, from, to, r.day)
  IN IF from = to THEN [amount |-> r.amount, base |-> to, rate |-> Scale]
     ELSE IF usable = {} THEN Pending
     ELSE LET rate == Newest(usable).rate IN
            [amount |-> Convert(r.amount, from, to, rate), base |-> to, rate |-> rate]

\* Faulty variant: only rows that have no projection yet.
RebuiltPending(to, known, froms, since) ==
  [n \in DOMAIN book |->
     IF /\ book[n].live /\ book[n].currency \in froms /\ book[n].row.day >= since
        /\ book[n].proj = Pending
     THEN [book[n] EXCEPT !.proj = Project(book[n].row, book[n].currency, to, known), !.raw = FALSE]
     ELSE book[n]]

\* rebuildProjectionsWithinTx, of the rows in the currencies froms from a day on.
Rebuilt(to, known, froms, since) ==
  [n \in DOMAIN book |->
     IF book[n].live /\ book[n].currency \in froms /\ book[n].row.day >= since
     THEN [book[n] EXCEPT !.proj = Project(book[n].row, book[n].currency, to, known), !.raw = FALSE]
     ELSE book[n]]

-----------------------------------------------------------------------------
(* Operations, each a serializable database transaction. *)

\* raw: entered in bulk, and not rebuilt since.
Entry(r) ==
  [row |-> r, currency |-> CurrencyOf[r.acc], proj |-> Project(r, CurrencyOf[r.acc], base, rates),
   raw |-> FALSE, live |-> TRUE]

BulkEntry(r) == [row |-> r, currency |-> Default, proj |-> Pending, raw |-> TRUE, live |-> TRUE]

\* createTransactionForFamily or createValuationForFamily, a replacement or an import
Create(r) ==
  /\ Len(book) - Len(Opened) < MaxRows
  /\ book' = Append(book, Entry(r))
  /\ UNCHANGED <<base, rates, upserts, bases, deletes>>

\* bulkCreateTransactionsForFamily, a row of it: they do not depend on each other.
BulkCreate(r) ==
  /\ Len(book) - Len(Opened) < MaxRows
  /\ r.kind \in {"income", "expense"} /\ Len(r.parts) = 1 /\ ~r.excluded
  /\ book' = Append(book, BulkEntry(r))
  /\ UNCHANGED <<base, rates, upserts, bases, deletes>>

SameKey(r, s) == r.from = s.from /\ r.to = s.to /\ r.day = s.day

\* upsertFxRateSnapshotForFamily: a rate that is new, or has changed, rebuilds
\* the rows of its currency.
UpsertRate(new) ==
  /\ upserts < MaxUpserts /\ upserts' = upserts + 1
  /\ rates' = {r \in rates : ~SameKey(r, new)} \cup {new}
  /\ book' = IF new \notin rates /\ new.to = base THEN Rebuilt(base, rates', {new.from}, 1) ELSE book
  /\ UNCHANGED <<base, bases, deletes>>

\* setBaseCurrencyForFamily, which rebuilds everything even when nothing changes.
SetBase(c) ==
  /\ bases < MaxBases /\ bases' = bases + 1
  /\ base' = c
  /\ book' = Rebuilt(c, rates, Currencies, 1)
  /\ UNCHANGED <<rates, upserts, deletes>>

\* rebuildFxProjectionsForFamily, of one currency or of all, from a day on.
Rebuild(froms, since) ==
  /\ book' = Rebuilt(base, rates, froms, since)
  /\ UNCHANGED <<base, rates, upserts, bases, deletes>>

\* deleteTransactionForFamily
Delete(n) ==
  /\ book[n].live /\ book[n].row.kind # "anchor"
  /\ deletes < MaxDeletes /\ deletes' = deletes + 1
  /\ book' = [book EXCEPT ![n].live = FALSE]
  /\ UNCHANGED <<base, rates, upserts, bases>>

-----------------------------------------------------------------------------
(* The days of a series. *)

\* stepDate: a month later, on the same day of the month or on its last one.
StepDate(day, interval) ==
  CASE interval = "day" -> day + 1
    [] interval = "week" -> day + Week
    [] interval = "month" ->
         LET i == Max({j \in DOMAIN MonthStarts : MonthStarts[j] <= day}) IN
         Min({MonthStarts[i + 1] + day - MonthStarts[i], MonthStarts[i + 2] - 1})

\* The days that each interval steps on, from the first day of a range to its last.
Steps ==
  [range \in Days \X Days \X Intervals |->
     LET from == range[1]
         to == range[2]
         at[i \in 1..LastDay] ==
           IF i = 1 THEN from ELSE IF at[i - 1] > to THEN at[i - 1] ELSE StepDate(at[i - 1], range[3])
     IN [i \in 1..Max({0} \cup {j \in 1..LastDay : at[j] <= to}) |-> at[i]]]

\* generateSampleDates: the last day is always a point.
Samples(from, to, interval) ==
  LET days == Steps[<<from, to, interval>>] IN IF days[Len(days)] = to THEN days ELSE Append(days, to)

\* generateCashFlowBuckets
Buckets(from, to, interval) ==
  LET days == Steps[<<from, to, interval>>] IN
  [i \in DOMAIN days |->
     [first |-> days[i], last |-> IF i = Len(days) THEN to ELSE days[i + 1] - 1]]

-----------------------------------------------------------------------------
(* The net-worth series, of a book b and rates known, at a day. *)

Amount(b, ns) == MapThenSumSet(LAMBDA n : b[n].row.amount, ns)
FlowOf(b, a) == {n \in DOMAIN b : b[n].live /\ b[n].row.acc = a /\ b[n].row.kind # "anchor"}
AnchorsBy(b, a, day) ==
  {n \in DOMAIN b : b[n].row.acc = a /\ b[n].row.kind = "anchor" /\ b[n].row.day <= day}
InForce(b, ns) ==
  CHOOSE n \in ns : \A m \in ns :
    b[m].row.day < b[n].row.day \/ (b[m].row.day = b[n].row.day /\ m <= n)
Through(b, a, day) == {n \in FlowOf(b, a) : b[n].row.day <= day}

\* Faulty variant: rows recorded after the anchor but dated before it are lost.
BackdatedNone(b, a, n) == {}

\* summarizeAnchor: rows dated up to the anchor's day and recorded after it.
Backdated(b, a, n) == {m \in Through(b, a, b[n].row.day) : m > n}

\* The anchor in force, and the flow and the rates up to the day, move on from
\* one point of the series to the next: a reading holds them, with the day.
Unread == [day |-> 0, active |-> [a \in Accounts |-> 0],
           through |-> [a \in Accounts |-> 0], rate |-> [c \in Currencies |-> 0]]

ReadOn(b, known, reading, day) ==
  LET anchors(a) == AnchorsBy(b, a, day) \ AnchorsBy(b, a, reading.day)
      snapshots(c) == Dated(known, c, base, day) \ Dated(known, c, base, reading.day)
  IN [day |-> day,
      active |-> [a \in Accounts |->
        IF anchors(a) = {} THEN reading.active[a] ELSE InForce(b, anchors(a))],
      through |-> [a \in Accounts |-> reading.through[a]
        + Amount(b, Through(b, a, day) \ Through(b, a, reading.day))],
      rate |-> [c \in Currencies |->
        IF snapshots(c) = {} THEN reading.rate[c] ELSE Newest(snapshots(c)).rate]]

\* nativeBalanceAt
NativeOf(b, reading, a) ==
  LET n == reading.active[a] IN
  IF n = 0 THEN IF AnchorsBy(b, a, LastDay) = {} THEN reading.through[a] ELSE 0
  ELSE b[n].row.amount
       + reading.through[a] - Amount(b, Through(b, a, b[n].row.day))
       + Amount(b, Backdated(b, a, n))

\* normalizeNetWorthAt
Normalized(native, rate) ==
  LET shown == {a \in Accounts : CurrencyOf[a] = base \/ rate[CurrencyOf[a]] # 0}
      worth(a) == IF CurrencyOf[a] = base THEN native[a]
                  ELSE Convert(native[a], CurrencyOf[a], base, rate[CurrencyOf[a]])
  IN [assets |-> MapThenSumSet(worth, shown \ Liability),
      liabilities |-> -MapThenSumSet(worth, shown \cap Liability),
      unconverted |-> {<<a, native[a]>> : a \in Accounts \ shown}]

PointOf(b, reading) == Normalized([a \in Accounts |-> NativeOf(b, reading, a)], reading.rate)

\* buildNetWorthSeries
NetWorthSeries(b, known, days) ==
  LET reading[i \in 0..Len(days)] ==
        IF i = 0 THEN Unread ELSE ReadOn(b, known, reading[i - 1], days[i])
  IN [i \in DOMAIN days |-> PointOf(b, reading[i])]

\* getNetWorthSeriesForFamily
NetWorthReport(from, to, interval) == NetWorthSeries(book, rates, Samples(from, to, interval))

\* The point of a series that has no other.
NetWorth(b, day, known) == NetWorthSeries(b, known, <<day>>)[1]

\* computeCanonicalBalance, which compares the time of a row with the midnight of an anchor.
Canonical(a) ==
  LET n == InForce(book, AnchorsBy(book, a, Today)) IN
  book[n].row.amount + Amount(book, {m \in FlowOf(book, a) :
    \/ book[m].row.day > book[n].row.day
    \/ book[m].row.day = book[n].row.day /\ book[m].row.clock
    \/ m > n})

-----------------------------------------------------------------------------
(* The cash flow, from day from to day to. *)

\* Faulty variant: a row of a bucket's first day belongs to the one before.
BucketOfLate(buckets, day) == Max({1} \cup {i \in DOMAIN buckets : buckets[i].first < day})

\* findBucketIndex
BucketOf(buckets, day) == Max({1} \cup {i \in DOMAIN buckets : buckets[i].first <= day})

\* The rows that the query loads.
Flows(from, to) ==
  {n \in DOMAIN book : /\ book[n].live /\ ~book[n].row.excluded
                       /\ book[n].row.kind \in {"income", "expense"}
                       /\ book[n].row.day \in from..to}

Converted(ns) == {n \in ns : book[n].proj # Pending}

\* splitChildBase, or the projection of a row that is not split.
PartBase(n, i) ==
  LET r == book[n].row
      p == book[n].proj
  IN IF Len(r.parts) = 1 THEN Abs(p.amount)
     ELSE Abs(Convert(r.parts[i].amount, book[n].currency, p.base, p.rate))

Parts(ns) == UNION {{<<n, i>> : i \in DOMAIN book[n].row.parts} : n \in ns}
CategoryOf(p) == book[p[1]].row.parts[p[2]].category
InKind(ps, kind) == {p \in ps : book[p[1]].row.kind = kind}
Total(ps) == MapThenSumSet(LAMBDA p : PartBase(p[1], p[2]), ps)

\* finalize
Finalized(ns) ==
  LET ps == Parts(Converted(ns)) IN
  [income |-> Total(InKind(ps, "income")), expense |-> Total(InKind(ps, "expense")),
   unconverted |-> Cardinality(ns \ Converted(ns))]

\* computeCashFlowReport: totals and buckets.
Totals(from, to) == Finalized(Flows(from, to))
CashFlowSeries(from, to, buckets) ==
  [i \in DOMAIN buckets |-> Finalized({n \in Flows(from, to) : BucketOf(buckets, book[n].row.day) = i})]

ByCategory(from, to, kind, category) ==
  Total({p \in InKind(Parts(Converted(Flows(from, to))), kind) : CategoryOf(p) = category})

\* computeBudgetProgress: the actual amount of a category.
Spent(from, to, category) ==
  Total({p \in Parts({n \in Converted(Flows(from, to)) : book[n].row.kind = "expense"}) :
    CategoryOf(p) = category})

-----------------------------------------------------------------------------
ReportsInit ==
  /\ base \in Currencies /\ rates = {}
  /\ book = [n \in DOMAIN Opened |-> Entry(Opened[n])]
  /\ upserts = 0 /\ bases = 0 /\ deletes = 0

ReportsNext ==
  \/ \E r \in Rows : Create(r)
  \/ \E r \in Rows : BulkCreate(r)
  \/ \E r \in Rates : UpsertRate(r)
  \/ \E c \in Currencies : SetBase(c)
  \/ \E froms \in {Currencies} \cup {{c} : c \in Currencies}, day \in Days : Rebuild(froms, day)
  \/ \E n \in DOMAIN book : Delete(n)

ReportsSpec == ReportsInit /\ [][ReportsNext]_reportsVars

-----------------------------------------------------------------------------
(* Properties. *)

\* What a row that lives would show if it were rebuilt now.
Projected(e) == Project(e.row, e.currency, base, rates)

\* Every row that lives shows what its amount is worth in today's base currency
\* at the rate of its own day, or waits for one, whatever was entered first
\* (ADR-0035 4: the projection is "derived, rebuildable").  The exception are rows
\* entered in bulk: they show nothing, rate or not, until a rate of their
\* currency, a base currency or a call of its own rebuilds them.  The currency
\* that counts is the one the row says.
ProjectionsAreFresh ==
  \A n \in DOMAIN book : book[n].live =>
    book[n].proj = IF book[n].raw THEN Pending ELSE Projected(book[n])

\* A point of the net-worth series depends on nothing dated after its day, nor on
\* the points before it, and the point of today is the balance of the account,
\* but for the rows of the last anchor's own day that were recorded before it and
\* those dated after today (ADR-0038 6: "the series' last point equals the
\* materialized balance").
SeriesIsAsOfItsDay ==
  LET alone == [day \in Days |-> NetWorth(book, day, rates)]
      today == ReadOn(book, rates, Unread, Today)
  IN /\ \A from \in Days \ {LastDay}, interval \in Intervals :
          LET days == Samples(from, LastDay, interval) IN
          NetWorthReport(from, LastDay, interval) = [i \in DOMAIN days |-> alone[days[i]]]
     /\ \A day \in Days :
          LET known == {r \in rates : r.day <= day}
              ns == InOrder({n \in DOMAIN book : book[n].row.day <= day})
              past == [k \in DOMAIN ns |-> book[ns[k]]]
          IN (\A a \in Accounts : AnchorsBy(book, a, day) # {}) =>
               alone[day] = NetWorth(past, day, known)
     /\ \A a \in Accounts :
          LET n == InForce(book, AnchorsBy(book, a, Today))
              astray == {m \in FlowOf(book, a) :
                \/ book[m].row.day > Today
                \/ book[m].row.day = book[n].row.day /\ book[m].row.clock /\ m < n}
          IN Canonical(a) = NativeOf(book, today, a) + Amount(book, astray)

\* The cash flow of a range is the sum of its categories and of its buckets, each
\* bucket shows what a report of its own days shows, a budget has spent in a
\* category what the cash flow has, and splitting moves no more than half a
\* minor unit for each part and one half for the whole (PER-155, ADR-0037).
ReportsAgree ==
  \A from \in Days : \A to \in from..LastDay :
    LET all == Totals(from, to)
        categories == {CategoryOf(p) : p \in Parts(Flows(from, to))}
        whole == Converted(Flows(from, to))
        split == {n \in whole : Len(book[n].row.parts) > 1}
        drift == all.income - all.expense - MapThenSumSet(LAMBDA n : book[n].proj.amount, whole)
    IN /\ all.income = MapThenSumSet(LAMBDA c : ByCategory(from, to, "income", c), categories)
       /\ all.expense = MapThenSumSet(LAMBDA c : Spent(from, to, c), categories)
       /\ \A buckets \in {Buckets(from, to, interval) : interval \in Intervals} :
            LET series == CashFlowSeries(from, to, buckets)
            IN \A i \in DOMAIN buckets : series[i] = Totals(buckets[i].first, buckets[i].last)
       /\ 2 * Abs(drift) <= MapThenSumSet(LAMBDA n : Len(book[n].row.parts) + 1, split)

\* What is reported is what is in the book: the series of the net worth day by
\* day, and the cash flow by range, by bucket and by category
\* (computeNetWorthSeries, computeCashFlow).
ReportsTellTheBook == SeriesIsAsOfItsDay /\ ReportsAgree

=============================================================================
