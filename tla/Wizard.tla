------------------------------- MODULE Wizard -------------------------------
(***************************************************************************)
(* The import wizard of the browser                                        *)
(* (src/src/routes/_protected/import.tsx): a bank's file is read under a   *)
(* form of columns, formats and an account (src/src/lib/csv-import.ts,     *)
(* src/src/lib/money.ts), its rows are staged, shown with a tick each, and *)
(* those ticked are promoted, in two calls.                                *)
(*                                                                         *)
(* A call may fail before or after what it does, and staging between two   *)
(* of its chunks; the user changes the form and tries again.  One call runs *)
(* at a time: module Imports has those that overlap.                       *)
(*                                                                         *)
(* A cell of a file is tagged: <<"date", separator, its three numbers>>,    *)
(* <<"sum", negative, groups of digits, the separators between>> or         *)
(* <<"word", w>>.  Symbols, blanks and the case of letters are left out.    *)
(***************************************************************************)
EXTENDS Integers, FiniteSets, Sequences, SequencesExt, Functions, Ordering

CONSTANTS
  Accounts,   \* that can be imported into
  Places,     \* account -> decimal places of its currency
  Documents,  \* document -> [kind, headers, rows, places, right, truth]
  Piece,      \* STAGING_CHUNK_SIZE
  MaxEdits,   \* bound on changes of the form
  MaxStagings, MaxPresses, MaxTicks,  \* bounds on the presses of a button
  Nil

\* The rows of a file are numbered.
ASSUME WizardAssumption ==
  /\ Places \in [Accounts -> Nat] /\ Piece \in Nat \ {0}
  /\ \A d \in DOMAIN Documents :
       DOMAIN Documents[d].rows \subseteq Nat /\ IsFiniteSet(DOMAIN Documents[d].rows)
  /\ MaxEdits \in Nat /\ MaxStagings \in Nat /\ MaxPresses \in Nat /\ MaxTicks \in Nat

Docs == DOMAIN Documents

VARIABLES
  page,     \* [step, doc, form, shown, ticks]: what the page holds
  cache,    \* document -> the rows of its batch, as last fetched
  call,     \* the call under way
  batches,  \* document -> its batch: one for each content hash
  booked,   \* the transactions that were promoted, with the row they come from
  ticked,   \* the rows that showed a tick when promotion was last asked for
  touched,  \* the ticks that the user ever changed
  count     \* [edits, stagings, presses]

wizardVars == <<page, cache, call, batches, booked, ticked, touched, count>>

-----------------------------------------------------------------------------
(* Amounts: parseMoneyInput and toMinorUnits. *)

Number(digits) == FoldLeft(LAMBDA n, d : 10 * n + d, 0, digits)
Occurs(x, seq) == Cardinality({i \in DOMAIN seq : seq[i] = x})

\* Faulty variant: one separator alone stands before decimals.
HasDecimalsAlways(parts, seps, places) ==
  seps # <<>> /\ (Len(seps) = 1 \/ Occurs(seps[1], seps) # Len(seps))

\* Of two kinds of separators the last is that of the decimals.  One separator
\* alone is, unless three digits follow it and the currency has not so many.
HasDecimals(parts, seps, places) ==
  \/ Len(seps) > 1 /\ Occurs(seps[1], seps) # Len(seps)
  \/ Len(seps) = 1 /\ ~(Len(parts[2]) = 3 /\ parts[1] # <<>> /\ places < 3)

WellGrouped(groups) ==
  Len(groups) > 1 => Len(groups[1]) \in 1..3 /\ \A i \in 2..Len(groups) : Len(groups[i]) = 3

\* Digits before and after a separator that must be the only one of its kind.
WithDecimals(parts, seps, places) ==
  IF /\ Occurs(Last(seps), seps) = 1 /\ WellGrouped(Front(parts))
     /\ Len(Last(parts)) \in 1..places
  THEN Number(FlattenSeq(parts)) * 10 ^ (places - Len(Last(parts))) ELSE Nil

WithoutDecimals(parts, places) ==
  IF WellGrouped(parts) /\ parts # << <<>> >> THEN Number(FlattenSeq(parts)) * 10 ^ places ELSE Nil

WithSign(negative, v) == IF v # Nil /\ negative THEN -v ELSE v

\* Minor units, or Nil.
ParseMoney(cell, places) ==
  IF cell[1] # "sum" THEN Nil
  ELSE WithSign(cell[2], IF HasDecimals(cell[3], cell[4], places)
                         THEN WithDecimals(cell[3], cell[4], places)
                         ELSE WithoutDecimals(cell[3], places))

-----------------------------------------------------------------------------
(* Dates: parseImportDate, under a format that the form names. *)

Formats == {"YYYY-MM-DD", "DD/MM/YYYY", "MM/DD/YYYY", "DD-MM-YYYY"}
SeparatorOf(format) == IF format \in {"DD/MM/YYYY", "MM/DD/YYYY"} THEN "/" ELSE "-"

\* The places of the year, the month and the day.
OrderOf(format) ==
  CASE format = "YYYY-MM-DD" -> <<1, 2, 3>>
    [] format = "MM/DD/YYYY" -> <<3, 1, 2>>
    [] OTHER -> <<3, 2, 1>>

DaysInMonth(y, m) ==
  CASE m = 2 -> IF y % 4 = 0 /\ (y % 100 # 0 \/ y % 400 = 0) THEN 29 ELSE 28
    [] m \in {4, 6, 9, 11} -> 30
    [] OTHER -> 31

ParseDate(cell, format) ==
  IF cell[1] # "date" \/ cell[2] # SeparatorOf(format) THEN Nil
  ELSE LET day == [i \in 1..3 |-> cell[3][OrderOf(format)[i]]]
       IN IF /\ day[1] >= 1000 /\ day[2] \in 1..12
             /\ day[3] >= 1 /\ day[3] <= DaysInMonth(day[1], day[2])
          THEN day ELSE Nil

-----------------------------------------------------------------------------
(* Rows under a mapping of columns. *)

Blank == <<"blank">>
Cell(row, column) == IF column \in DOMAIN row THEN row[column] ELSE Blank

Signed(column, negative) == [kind |-> "signed", column |-> column, negative |-> negative]
SplitIn(out, in) == [kind |-> "split", out |-> out, in |-> in]
Typed(column, types) ==
  [kind |-> "typed", column |-> column, types |-> types, expense |-> "debit", income |-> "credit"]

Refused == [type |-> Nil, amount |-> Nil]
Sized(type, amount) == [type |-> type, amount |-> IF amount < 0 THEN -amount ELSE amount]
Opposite(type) == IF type = "expense" THEN "income" ELSE "expense"

\* parseMagnitude: zero counts as nothing.
NonZero(v) == IF v = 0 THEN Nil ELSE v
Magnitude(cell, places) == NonZero(ParseMoney(cell, places))

\* deriveAmount, the three modes.
SignedAmount(v, negative) ==
  IF v = Nil THEN Refused ELSE Sized(IF v < 0 THEN negative ELSE Opposite(negative), v)
SplitAmount(out, in) ==
  IF out # Nil THEN Sized("expense", out) ELSE IF in # Nil THEN Sized("income", in) ELSE Refused
TypedAmount(v, word, amount) ==
  IF v = Nil \/ word \notin {<<"word", amount.expense>>, <<"word", amount.income>>} THEN Refused
  ELSE Sized(IF word = <<"word", amount.expense>> THEN "expense" ELSE "income", v)

DeriveAmount(row, amount, places) ==
  LET sum(column) == Magnitude(Cell(row, column), places) IN
  CASE amount.kind = "signed" -> SignedAmount(sum(amount.column), amount.negative)
    [] amount.kind = "split" -> SplitAmount(sum(amount.out), sum(amount.in))
    [] amount.kind = "typed" -> TypedAmount(sum(amount.column), Cell(row, amount.types), amount)

\* mapCsvRow; a row with any error is no row.
RowOf(day, text, a) ==
  IF day = Nil \/ text = Blank \/ a = Refused THEN Nil
  ELSE [day |-> day, text |-> text, sum |-> IF a.type = "expense" THEN -a.amount ELSE a.amount]
MapRow(row, m, places) ==
  RowOf(ParseDate(Cell(row, m.date), m.format), Cell(row, m.text), DeriveAmount(row, m.amount, places))

\* parseQif: the tags of a record are its columns, and an empty record is none.
MapRecord(row, format, places) ==
  IF DOMAIN row = {} THEN Nil
  ELSE MapRow(row, [date |-> "D", text |-> IF "P" \in DOMAIN row THEN "P" ELSE "M",
                    format |-> format, amount |-> Signed("T", "expense")], places)

\* What could be read, in the order of the file.
Legible(rows) ==
  LET kept == InOrder({i \in DOMAIN rows : rows[i] # Nil}) IN [k \in DOMAIN kept |-> rows[kept[k]]]

\* toStagedRows on the preview of the page.  Of a document of records only the order
\* of day and month is asked for.
ReadAs(doc, places, m) ==
  LET d == Documents[doc] IN
  Legible([i \in DOMAIN d.rows |->
             IF d.kind = "qif" THEN MapRecord(d.rows[i], m, places) ELSE MapRow(d.rows[i], m, places)])
MappingOf(doc, form) == IF Documents[doc].kind = "qif" THEN form.qif ELSE form.mapping
Reading(doc, form) == ReadAs(doc, Places[form.target], MappingOf(doc, form))

-----------------------------------------------------------------------------
(* The form. *)

\* findHeader
FindHeader(headers, names) ==
  LET hits == SelectSeq(names, LAMBDA n : n \in headers) IN IF hits = <<>> THEN "" ELSE hits[1]

Mapping(date, text, format, amount) == [date |-> date, text |-> text, format |-> format, amount |-> amount]

\* suggestMapping of the three presets.
Suggested(preset, headers) ==
  CASE preset = "generic" ->
         LET out == FindHeader(headers, <<"outflow", "debit">>)
             in == FindHeader(headers, <<"inflow", "credit">>)
         IN Mapping(FindHeader(headers, <<"date">>),
                    FindHeader(headers, <<"description", "payee", "memo">>), "YYYY-MM-DD",
                    IF out # "" /\ in # "" THEN SplitIn(out, in)
                    ELSE Signed(FindHeader(headers, <<"amount">>), "expense"))
    [] preset = "mint" -> Mapping("date", "description", "MM/DD/YYYY", Typed("amount", "transaction type"))
    [] preset = "ynab" -> Mapping("date", "payee", "DD/MM/YYYY", SplitIn("outflow", "inflow"))

Presets == {"generic", "mint", "ynab"}

SuggestedFor(preset, doc) ==
  IF doc = Nil \/ (doc # Nil /\ Documents[doc].kind = "qif") THEN Nil
  ELSE Suggested(preset, Documents[doc].headers)

NewForm == [preset |-> "generic", mapping |-> Nil, qif |-> "MM/DD/YYYY", target |-> Nil]
NewPage == [step |-> "upload", doc |-> Nil, form |-> NewForm, shown |-> Nil, ticks |-> <<>>]

Other == <<cache, call, batches, booked, ticked, touched>>

\* handleFile.  The account stays, and so does a batch that was shown.
Upload(doc) ==
  /\ page.step = "upload"
  /\ page' = [page EXCEPT !.step = "map", !.doc = doc,
                          !.form.mapping = SuggestedFor(page.form.preset, doc)]
  /\ UNCHANGED <<Other, count>>

Edit == count.edits < MaxEdits /\ count' = [count EXCEPT !.edits = @ + 1] /\ UNCHANGED Other

\* handlePreset
PickPreset(preset) ==
  /\ page.step = "upload" /\ preset # page.form.preset /\ Edit
  /\ page' = [page EXCEPT !.form.preset = preset,
                          !.form.mapping = IF SuggestedFor(preset, page.doc) = Nil THEN @
                                           ELSE SuggestedFor(preset, page.doc)]

PickTarget(acc) ==
  /\ page.step = "map" /\ acc # page.form.target /\ Edit
  /\ page' = [page EXCEPT !.form.target = acc]

PickFormat(format) ==
  /\ page.step = "map" /\ Edit
  /\ page' = IF Documents[page.doc].kind = "qif" THEN [page EXCEPT !.form.qif = format]
             ELSE [page EXCEPT !.form.mapping.format = format]
  /\ page' # page

Emptied(kind) ==
  CASE kind = "signed" -> Signed("", "expense") [] kind = "split" -> SplitIn("", "") [] kind = "typed" -> Typed("", "")

\* What one control of AmountModeEditor changes; changeAmountKind empties the columns.
Amended(amount, headers) ==
  {Emptied(k) : k \in {"signed", "split", "typed"} \ {amount.kind}} \cup
  CASE amount.kind = "signed" ->
         {[amount EXCEPT !.column = h] : h \in headers} \cup {[amount EXCEPT !.negative = Opposite(@)]}
    [] amount.kind = "split" ->
         {[amount EXCEPT !.out = h] : h \in headers} \cup {[amount EXCEPT !.in = h] : h \in headers}
    [] amount.kind = "typed" ->
         {[amount EXCEPT !.column = h] : h \in headers} \cup {[amount EXCEPT !.types = h] : h \in headers}

PickColumns ==
  /\ page.step = "map" /\ Documents[page.doc].kind = "csv" /\ Edit
  /\ \E m \in {[page.form.mapping EXCEPT !.amount = a] :
                 a \in Amended(page.form.mapping.amount, Documents[page.doc].headers)} \cup
              {[page.form.mapping EXCEPT !.date = h] : h \in Documents[page.doc].headers} \cup
              {[page.form.mapping EXCEPT !.text = h] : h \in Documents[page.doc].headers} :
       m # page.form.mapping /\ page' = [page EXCEPT !.form.mapping = m]

\* The buttons "Back"; that of the review does nothing while a promotion runs.
Back ==
  /\ \/ page.step = "map" /\ page' = [page EXCEPT !.step = "upload"]
     \/ page.step = "preview" /\ call.pc \notin {"decide", "promote"} /\ page' = [page EXCEPT !.step = "map"]
  /\ UNCHANGED <<Other, count>>

\* The page is left and opened again; what was fetched stays for a while.
Leave ==
  /\ page # NewPage /\ call.pc = "none"
  /\ page' = NewPage /\ UNCHANGED <<Other, count>>

-----------------------------------------------------------------------------
(* Calls.  A batch belongs to the content of a file.  begun and first tell how
   its first staging began; mixed, that a later one had other rows. *)

Unstaged == [status |-> "none", begun |-> Nil, mixed |-> FALSE, rows |-> <<>>]
NoCall == [pc |-> "none"]

\* The call ends in an error, and the page stays as it is.
Fail ==
  /\ call # NoCall /\ call' = NoCall
  /\ UNCHANGED <<page, cache, batches, booked, ticked, touched, count>>

\* What the ledger and the rows of one file have in common (computeRowFingerprint).
Gist(row) == <<row.acc, row.day, row.sum, row.text>>

\* createImportBatchForFamily compares a row with the ledger and with the rows before it.
Classified(rows) ==
  [i \in DOMAIN rows |->
     IF \/ \E t \in DOMAIN booked : Gist(booked[t]) = Gist(rows[i])
        \/ \E j \in 1..(i - 1) : Gist(rows[j]) = Gist(rows[i])
     THEN "duplicate" ELSE "normalized"]

Staged(doc, form) ==
  LET read == Reading(doc, form)
  IN [i \in DOMAIN read |->
        [day |-> read[i].day, text |-> read[i].text, sum |-> read[i].sum, acc |-> form.target]]

\* The button "Stage & preview".
PressStage ==
  /\ page.step = "map" /\ page.form.target # Nil /\ call = NoCall
  /\ Reading(page.doc, page.form) # <<>>
  /\ count.stagings < MaxStagings /\ count' = [count EXCEPT !.stagings = @ + 1]
  /\ call' = [pc |-> "stage", doc |-> page.doc, form |-> page.form, rows |-> Staged(page.doc, page.form)]
  /\ UNCHANGED <<page, cache, batches, booked, ticked, touched>>

\* stageMutation.onSuccess: the batch shows, with no tick changed.
Show(doc) == page' = [page EXCEPT !.step = "preview", !.shown = doc, !.ticks = <<>>]

\* Whatever its rows are now, a file that has been staged is shown as it was.
AlreadyStaged ==
  /\ call.pc = "stage" /\ batches[call.doc].status = "ready"
  /\ Show(call.doc) /\ call' = NoCall
  /\ UNCHANGED <<cache, batches, booked, ticked, touched, count>>

\* A batch begins, or one that is pending is resumed after the rows it counts.
BeginStaging ==
  LET b == batches[call.doc] IN
  /\ call.pc = "stage" /\ b.status # "ready" /\ Len(b.rows) <= Len(call.rows)
  /\ batches' = [batches EXCEPT ![call.doc] =
       IF b = Unstaged THEN [b EXCEPT !.status = "pending", !.begun = call.form]
       ELSE [b EXCEPT !.mixed = @ \/ Staged(call.doc, b.begun) # call.rows]]
  /\ call' = [pc |-> "insert", doc |-> call.doc, rows |-> call.rows,
              verdicts |-> Classified(call.rows), next |-> Len(b.rows)]
  /\ UNCHANGED <<page, cache, booked, ticked, touched, count>>

\* A row as it is staged.
Entered(r, verdict) ==
  [day |-> r.day, text |-> r.text, sum |-> r.sum, acc |-> r.acc,
   status |-> verdict, double |-> verdict = "duplicate"]

InsertPiece ==
  LET last == IF call.next + Piece < Len(call.rows) THEN call.next + Piece ELSE Len(call.rows) IN
  /\ call.pc = "insert" /\ call.next < Len(call.rows)
  /\ batches' = [batches EXCEPT ![call.doc].rows = @ \o
       [i \in 1..(last - call.next) |-> Entered(call.rows[call.next + i], call.verdicts[call.next + i])]]
  /\ call' = [call EXCEPT !.next = last]
  /\ UNCHANGED <<page, cache, booked, ticked, touched, count>>

EndStaging(lost) ==
  /\ call.pc = "insert" /\ call.next >= Len(call.rows)
  /\ batches' = [batches EXCEPT ![call.doc].status = "ready"]
  /\ IF lost THEN UNCHANGED page ELSE Show(call.doc)
  /\ call' = NoCall /\ UNCHANGED <<cache, booked, ticked, touched, count>>

\* getImportBatchForFamily, whenever the query is run again.
Fetch ==
  /\ page.shown # Nil /\ cache[page.shown] # batches[page.shown].rows
  /\ cache' = [cache EXCEPT ![page.shown] = batches[page.shown].rows]
  /\ UNCHANGED <<page, call, batches, booked, ticked, touched, count>>

-----------------------------------------------------------------------------
(* The review. *)

\* verdictOf: what the user changed, or the default, which is of the status.
TickedRow(n) ==
  IF n \in DOMAIN page.ticks THEN page.ticks[n]
  ELSE cache[page.shown][n].status # "duplicate"

Reviewing == page.step = "preview" /\ page.shown # Nil /\ cache[page.shown] # Nil
Decidable == {n \in DOMAIN cache[page.shown] : cache[page.shown][n].status # "promoted"}

\* toggleVerdict
Toggle(n) ==
  /\ Reviewing /\ n \in Decidable /\ Cardinality(DOMAIN page.ticks \cup {n}) <= MaxTicks
  /\ page' = [page EXCEPT !.ticks = (n :> ~TickedRow(n)) @@ @]
  /\ touched' = touched \cup {<<page.shown, n>>}
  /\ UNCHANGED <<cache, call, batches, booked, ticked, count>>

\* Faulty variant: a decision is sent for what is ticked only.
DecisionsTicked == [n \in {k \in Decidable : TickedRow(k)} |-> TRUE]

\* A decision on every row that shows.
Decisions == [n \in Decidable |-> TickedRow(n)]

\* The button "Promote" is off while nothing is ticked.
AnyTicked == \E n \in Decidable : TickedRow(n)

\* What the table says of a row.
ShownRow(n) == <<page.shown, n, Gist(cache[page.shown][n])>>

PressPromote ==
  /\ Reviewing /\ call = NoCall /\ AnyTicked
  /\ count.presses < MaxPresses /\ count' = [count EXCEPT !.presses = @ + 1]
  /\ call' = [pc |-> "decide", doc |-> page.shown, decisions |-> Decisions]
  /\ ticked' = {ShownRow(n) : n \in {k \in Decidable : TickedRow(k)}}
  /\ UNCHANGED <<page, cache, batches, booked, touched>>

\* reviewImportRowsForFamily refuses the whole when one row has been promoted.
Decide ==
  LET rows == batches[call.doc].rows IN
  /\ call.pc = "decide" /\ \A n \in DOMAIN call.decisions : rows[n].status # "promoted"
  /\ batches' = [batches EXCEPT ![call.doc].rows =
       [n \in DOMAIN rows |->
          IF n \notin DOMAIN call.decisions THEN rows[n]
          ELSE [rows[n] EXCEPT !.status = IF call.decisions[n] THEN "confirmed" ELSE "rejected"]]]
  /\ call' = [pc |-> "promote", doc |-> call.doc]
  /\ UNCHANGED <<page, cache, booked, ticked, touched, count>>

\* promoteImportBatchForFamily; on success the page is left.
PromoteConfirmed(lost) ==
  LET rows == batches[call.doc].rows
      todo == InOrder({n \in DOMAIN rows : rows[n].status = "confirmed"})
  IN /\ call.pc = "promote"
     /\ booked' = booked \o [i \in DOMAIN todo |->
          [acc |-> rows[todo[i]].acc, day |-> rows[todo[i]].day, sum |-> rows[todo[i]].sum,
           text |-> rows[todo[i]].text, row |-> <<call.doc, todo[i]>>]]
     /\ batches' = [batches EXCEPT ![call.doc].rows =
          [n \in DOMAIN rows |-> IF rows[n].status = "confirmed" THEN [rows[n] EXCEPT !.status = "promoted"]
                                 ELSE rows[n]]]
     /\ page' = IF lost THEN page ELSE NewPage
     /\ call' = NoCall /\ UNCHANGED <<cache, ticked, touched, count>>

-----------------------------------------------------------------------------
WizardInit ==
  /\ page = NewPage /\ cache = [d \in Docs |-> Nil] /\ call = NoCall
  /\ batches = [d \in Docs |-> Unstaged] /\ booked = <<>> /\ ticked = {} /\ touched = {}
  /\ count = [edits |-> 0, stagings |-> 0, presses |-> 0]

WizardNext ==
  \/ \E d \in Docs : Upload(d)
  \/ \E p \in Presets : PickPreset(p)
  \/ \E a \in Accounts : PickTarget(a)
  \/ \E f \in Formats : PickFormat(f)
  \/ PickColumns \/ Back \/ Leave
  \/ PressStage \/ AlreadyStaged \/ BeginStaging \/ InsertPiece
  \/ \E lost \in BOOLEAN : EndStaging(lost) \/ PromoteConfirmed(lost)
  \/ Fetch \/ PressPromote \/ Decide \/ Fail
  \/ page.step = "preview" /\ page.shown # Nil /\ \E n \in DOMAIN batches[page.shown].rows : Toggle(n)

WizardSpec == WizardInit /\ [][WizardNext]_wizardVars

-----------------------------------------------------------------------------
(* Properties. *)

\* The form fits the file: its columns, formats and the currency of the account.
Fits(doc, form) ==
  /\ Places[form.target] = Documents[doc].places
  /\ Documents[doc].right = MappingOf(doc, form)

\* A file that was staged under a form that fits is in its batch as the bank meant
\* it: every movement once and in order, with its day, its sign and its amount to
\* the last digit, and no line that is none; a staging that died leaves a prefix.
\* Only a staging that was resumed under another form can tell otherwise.
BatchTellsTheFile ==
  \A d \in Docs : LET b == batches[d] IN
    b # Unstaged /\ ~b.mixed /\ Fits(d, b.begun) =>
      LET told == [i \in DOMAIN b.rows |-> <<b.rows[i].day, b.rows[i].sum>>] IN
      IF b.status = "ready" THEN told = Documents[d].truth ELSE IsPrefix(told, Documents[d].truth)

\* What is booked showed a tick when promotion was asked for, with the account, day
\* and sum it is booked with, and no row is booked twice, whatever calls failed, were
\* lost and were made again from a page that was behind.
BookedAsShown ==
  [][\A i \in DOMAIN booked' \ DOMAIN booked :
       /\ booked'[i].row \o <<Gist(booked'[i])>> \in ticked
       /\ \A j \in DOMAIN booked' : booked'[j].row = booked'[i].row => j = i]_wizardVars

\* "Duplicates are rejected by default" (import.tsx): one is booked only if the user
\* has changed its tick.
DuplicatesAreRejectedByDefault ==
  \A i \in DOMAIN booked : LET row == booked[i].row IN
    batches[row[1]].rows[row[2]].double => row \in touched

=============================================================================
