------------------------------- MODULE Dialog -------------------------------
(***************************************************************************)
(* The transaction dialog (components/transaction-form-modal.tsx), what    *)
(* the lists hand it to edit (blocks/transaction-list-row.tsx,             *)
(* routes/_protected/transactions.tsx), and what becomes of its form on    *)
(* the way to the ledger (lib/collections.ts).                             *)
(*                                                                         *)
(* A field keeps its value while it is hidden, the tab and the split live  *)
(* beside the form and are reset at other moments than it, and what is     *)
(* sent is computed from all three.  So what a user saw when the button    *)
(* was pressed, and what the ledger then has, are two things.              *)
(*                                                                         *)
(* Numbers on the form are those that the inputs show, counted in the      *)
(* smallest part of a major unit that a currency has.                      *)
(***************************************************************************)
EXTENDS Semantics

CONSTANTS
  AccountsNow,    \* AccountIds -> what may change of an account
  ScaleOf,        \* currencies -> minor units per major unit
  Finest,         \* how many of the smallest part a major unit has
  Typed,          \* numbers a user types
  Purposes,       \* purposes a user picks
  CategoryType,   \* categories -> "expense" or "income"
  Ledgered,       \* rows that may be edited: [form, category, notes, status, kind]
  MaxInputs       \* bound on the inputs of a user

ASSUME DialogAssumption ==
  /\ Typed \subseteq Nat /\ MaxInputs \in Nat
  /\ \A a \in AccountIds : CurrencyOf[a] \in DOMAIN ScaleOf
  /\ DefaultCurrency \in DOMAIN ScaleOf /\ Finest \in Nat \ {0}
  /\ \A c \in DOMAIN ScaleOf :
       ScaleOf[c] \in Nat \ {0} /\ \E n \in 1..Finest : Finest = n * ScaleOf[c]

\* A row that was split has its categories in its parts.
ASSUME LedgeredAssumption ==
  \A l \in Ledgered :
    /\ l.form.type \in {"expense", "income", "transfer"}
    /\ l.form.from \in AccountIds /\ l.form.to \in AccountIds \cup {Unset}
    /\ l.form.type = "transfer" => l.form.to # Unset
    /\ l.form.amount \in Nat /\ l.form.parts \in Seq(Nat)
    /\ l.form.parts # <<>> => l.category = Unset

VARIABLES
  window,   \* the dialog beside its form: open, tab, split, and the row it edits
  form,     \* the values of the fields, shown or not
  lines,    \* the amounts of the split entries
  outcome,  \* of the last submit, until the dialog is used again
  inputs

dialogVars == <<window, form, lines, outcome, inputs>>

-----------------------------------------------------------------------------
(* Numbers: editAmountToInputNumber and toMoney. *)

Shown(minor, currency) == (minor * Finest) \div ScaleOf[currency]
Minor(shown, currency) == (shown * ScaleOf[currency]) \div Finest

\* toMinorUnits throws if there are more digits than the currency has.
Exact(shown, currency) == (shown * ScaleOf[currency]) % Finest = 0

-----------------------------------------------------------------------------
(* The form. *)

NotAnEdit == [row |-> Unset]
Nothing == [is |-> "none"]

EmptyForm(account) ==
  [type |-> "expense", from |-> account, to |-> Unset, amount |-> 0, dest |-> 0, fee |-> 0,
   bearer |-> Unset, purpose |-> Unset, value |-> 0, category |-> Unset, notes |-> Unset,
   status |-> "CLEARED"]

TwoBlanks == <<0, 0>>

\* Faulty variant: only a transfer hands its other account over.
EditedWithoutTarget(row) ==
  [form |-> [EmptyForm(row.from) EXCEPT
     !.type = row.type, !.to = IF row.type = "transfer" THEN row.to ELSE Unset,
     !.amount = Shown(row.amount, DefaultCurrency), !.category = row.category, !.notes = row.notes],
   split |-> row.parts # <<>>,
   lines |-> [n \in DOMAIN row.parts |-> Shown(row.parts[n], DefaultCurrency)]]

\* transactionToEditData, and the dialog's initial values: without the currency,
\* the destination amount, the fee and the purpose.
Edited(row) ==
  [form |-> [EmptyForm(row.from) EXCEPT
     !.type = row.type, !.to = row.to, !.amount = Shown(row.amount, DefaultCurrency),
     !.category = row.category, !.notes = row.notes],
   split |-> row.parts # <<>>,
   lines |-> [n \in DOMAIN row.parts |-> Shown(row.parts[n], DefaultCurrency)]]

-----------------------------------------------------------------------------
(* What shows (the conditions under which the fields are rendered). *)

Transferring == window.tab = "transfer"
Splitting == window.split /\ ~Transferring
BothChosen == Transferring /\ form.from # Unset /\ form.to # Unset
DestShows == BothChosen /\ Crosses(form.from, form.to)
PurposeShows == BothChosen /\ Kind(form.from, form.to) = "funds_movement"
OneTracked == BothChosen /\ ((form.from \in Tracked(AccountsNow)) # (form.to \in Tracked(AccountsNow)))
BearerOptions == {form.from, form.to} \ Tracked(AccountsNow)
CategoryShows == ~Transferring /\ ~Splitting
\* The box shows none of the other type.
CategoryShown ==
  IF CategoryShows /\ form.category # Unset /\ CategoryType[form.category] = window.tab
  THEN form.category ELSE Unset

\* The account whose currency the fee is labelled with.
BearerShown ==
  IF form.bearer \in BearerOptions THEN form.bearer
  ELSE IF form.from \in BearerOptions THEN form.from ELSE form.to

-----------------------------------------------------------------------------
(* What a row says, and what the screen says, in the same terms. *)

NoFeePaid == <<0, Unset>>

Said(record, category, notes, status) ==
  [type |-> record.type,
   accounts |-> {record.from, record.to} \ {Unset},
   amount |-> record.amount,
   arrives |-> record.partner.amount,
   fee |-> IF record.fee = NoFee THEN NoFeePaid ELSE <<record.fee.amount, record.fee.on>>,
   purpose |-> record.purpose, parts |-> record.parts, value |-> record.value,
   category |-> category, notes |-> notes, status |-> status,
   kind |-> record.kind]

Currency == CurrencyOf[form.from]
TrackedSide == IF form.from \in Tracked(AccountsNow) THEN form.from ELSE form.to

\* A legible reading of the screen at the moment of the submit.
OnScreen ==
  LET amount == Minor(form.amount, Currency) IN
  [type |-> window.tab,
   accounts |-> IF Transferring THEN {form.from, form.to} ELSE {form.from},
   amount |-> amount,
   arrives |->
     IF ~Transferring \/ OneTracked THEN 0
     ELSE IF DestShows /\ form.dest # 0 THEN Minor(form.dest, CurrencyOf[form.to]) ELSE amount,
   fee |-> IF BothChosen /\ form.fee # 0
           THEN <<Minor(form.fee, CurrencyOf[BearerShown]), BearerShown>> ELSE NoFeePaid,
   purpose |->
     IF PurposeShows
     THEN IF form.purpose = Unset THEN Purpose(form.from, form.to, AccountsNow) ELSE form.purpose
     ELSE Unset,
   parts |-> IF Splitting THEN [n \in DOMAIN lines |-> Minor(lines[n], Currency)] ELSE <<>>,
   value |-> IF OneTracked THEN Minor(form.value, CurrencyOf[TrackedSide]) ELSE 0,
   category |-> CategoryShown,
   notes |-> IF Transferring THEN Unset ELSE form.notes,
   status |-> form.status,
   kind |-> IF Transferring THEN Unset ELSE "standard"]

\* A fee on a liability names it in a field that only transfers show.
EditsLiabilityFee ==
  window.edits # NotAnEdit /\ (window.edits.type # "transfer" /\ window.edits.to # Unset)

\* A transfer that was filed under a category, in bulk: the dialog has no box for it.
EditsFiledTransfer ==
  window.edits # NotAnEdit /\ (window.edits.type = "transfer" /\ window.edits.category # Unset)

\* Where the two may part: what was left behind by something that no longer shows.
LeftBehind ==
  (IF window.tab # form.type THEN {"type", "accounts", "arrives", "fee", "purpose", "value", "kind"} ELSE {})
  \cup (IF Transferring /\ form.bearer \notin BearerOptions \cup {Unset} THEN {"fee"} ELSE {})
  \cup (IF form.dest # 0 /\ ~DestShows THEN {"arrives"} ELSE {})
  \cup (IF CategoryShows /\ form.category # CategoryShown THEN {"category"} ELSE {})
  \cup (IF Transferring /\ form.notes # Unset THEN {"notes"} ELSE {})
  \cup (IF EditsLiabilityFee THEN {"accounts"} ELSE {})
  \cup (IF Transferring /\ EditsFiledTransfer THEN {"category"} ELSE {})

Differs(one, other) == {aspect \in DOMAIN one : one[aspect] # other[aspect]}

-----------------------------------------------------------------------------
(* Sending (toMoney in onSubmit, then Sent). *)

InMinor ==
  LET code(a) == IF a = Unset THEN Currency ELSE CurrencyOf[a] IN
  [type |-> form.type, from |-> form.from, to |-> form.to,
   amount |-> Minor(form.amount, Currency), dest |-> Minor(form.dest, code(form.to)),
   fee |-> Minor(form.fee, code(form.bearer)), bearer |-> form.bearer, purpose |-> form.purpose,
   value |-> IF form.to = Unset THEN 0 ELSE Minor(form.value, CurrencyOf[TrackedSide]),
   parts |-> IF window.split THEN [n \in DOMAIN lines |-> Minor(lines[n], Currency)] ELSE <<>>]

\* toMoney does not throw.
Converts ==
  /\ Exact(form.amount, Currency)
  /\ Moves(form) /\ form.to # Unset =>
       Exact(form.dest, CurrencyOf[form.to]) /\ Exact(form.value, CurrencyOf[TrackedSide])
  /\ Moves(form) => Exact(form.fee, IF form.bearer = Unset THEN Currency ELSE CurrencyOf[form.bearer])
  /\ window.split /\ ~Moves(form) => \A n \in DOMAIN lines : Exact(lines[n], Currency)

\* categoryId: isSplit ? null : value.categoryId || null
SentCategory == IF window.split THEN Unset ELSE form.category

\* A transfer keeps no split, a replaced row neither a valuation.
Booked(r, category) ==
  [was |-> "booked",
   said |-> Said(RecordOf(r, AccountsNow), category, form.notes, form.status)]

Refused == [was |-> "refused"]

CreateOutcome ==
  LET r == Sent(InMinor, AccountsNow)
      full == Resolved(r, AccountsNow)
  IN IF ReferencesLive(r, AccountsNow) /\ PurposeAllowed(r) /\ Accepted(full, AccountsNow)
     THEN Booked(full, SentCategory) ELSE Refused

\* replaceTransactionWithinTenantTransaction: neither the row nor its replacement
\* may have a valuation-tracked side.
UpdateOutcome(old) ==
  LET r == [Sent(InMinor, AccountsNow) EXCEPT !.value = 0]
      full == Resolved(r, AccountsNow)
      touched == {old.from, old.to, r.from} \cup IF Moves(r) THEN {r.to} ELSE {}
  IN IF /\ ReferencesLive(r, AccountsNow) /\ PurposeAllowed(r) /\ Accepted(full, AccountsNow)
        /\ touched \cap Tracked(AccountsNow) = {}
     THEN Booked(full, SentCategory) ELSE Refused

-----------------------------------------------------------------------------
(* Actions. *)

Uses == window.open /\ inputs < MaxInputs /\ inputs' = inputs + 1 /\ outcome' = Nothing

\* handleOpenChange resets the split of a dialog for new transactions, ...
Open ==
  /\ ~window.open /\ window.edits = NotAnEdit
  /\ window' = [window EXCEPT !.open = TRUE, !.split = FALSE]
  /\ lines' = TwoBlanks
  /\ outcome' = Nothing
  /\ UNCHANGED <<form, inputs>>

\* ... the hotkey does not.
OpenByHotkey ==
  /\ ~window.open /\ window.edits = NotAnEdit
  /\ window' = [window EXCEPT !.open = TRUE]
  /\ outcome' = Nothing
  /\ UNCHANGED <<form, lines, inputs>>

Cancel ==
  /\ window.open
  /\ window' = [window EXCEPT !.open = FALSE]
  /\ UNCHANGED <<form, lines, outcome, inputs>>

\* Faulty variant: the destination stays behind.
SelectTabKeepsAccount(tab) ==
  /\ Uses
  /\ window' = [window EXCEPT !.tab = tab]
  /\ form' = [form EXCEPT !.type = tab, !.category = IF tab = "transfer" THEN Unset ELSE @]
  /\ UNCHANGED lines

SelectTab(tab) ==
  /\ Uses
  /\ window' = [window EXCEPT !.tab = tab]
  /\ form' = [form EXCEPT !.type = tab,
                          !.category = IF tab = "transfer" THEN Unset ELSE @,
                          !.to = IF tab = "transfer" THEN @ ELSE Unset]
  /\ UNCHANGED lines

Enter(field, value) ==
  /\ Uses
  /\ form[field] # value
  /\ form' = [form EXCEPT ![field] = value]
  /\ UNCHANGED <<window, lines>>

EnterAmount == \E n \in Typed : Enter("amount", n)
EnterFrom == \E a \in AccountIds : Enter("from", a)
EnterTo == Transferring /\ \E a \in AccountIds \ {form.from} : Enter("to", a)
EnterDest == DestShows /\ \E n \in Typed \cup {0} : Enter("dest", n)
EnterFee == BothChosen /\ \E n \in Typed \cup {0} : Enter("fee", n)
EnterBearer ==
  BothChosen /\ Cardinality(BearerOptions) > 1 /\ \E a \in BearerOptions \cup {Unset} : Enter("bearer", a)
EnterPurpose == PurposeShows /\ \E p \in Purposes \cup {Unset} : Enter("purpose", p)
EnterValue == OneTracked /\ \E n \in Typed \cup {0} : Enter("value", n)
EnterCategory ==
  CategoryShows /\ \E c \in DOMAIN CategoryType : CategoryType[c] = window.tab /\ Enter("category", c)
EnterNotes == ~Transferring /\ \E text \in {Unset, "text"} : Enter("notes", text)
EnterStatus == \E s \in {"CLEARED", "PENDING"} : Enter("status", s)

ToggleSplit ==
  /\ Uses /\ ~Transferring
  /\ window' = [window EXCEPT !.split = ~@]
  /\ UNCHANGED <<form, lines>>

EnterLine ==
  /\ Uses /\ Splitting
  /\ \E n \in DOMAIN lines, amount \in Typed :
       lines[n] # amount /\ lines' = [lines EXCEPT ![n] = amount]
  /\ UNCHANGED <<window, form>>

AddLine ==
  /\ Uses /\ Splitting
  /\ lines' = Append(lines, 0)
  /\ UNCHANGED <<window, form>>

RemoveLine ==
  /\ Uses /\ Splitting /\ Len(lines) > 2
  /\ \E n \in DOMAIN lines : lines' = RemoveAt(lines, n)
  /\ UNCHANGED <<window, form>>

\* The button, the validators of the fields that show, and the checks of onSubmit.
Submittable ==
  /\ window.open
  /\ Splitting => SumOf(lines) = form.amount
  /\ form.amount >= Finest /\ form.from # Unset
  /\ Transferring => form.to # Unset
  /\ CategoryShows => form.category # Unset
  /\ window.split /\ ~Moves(form) => SumOf(lines) = form.amount
  /\ Converts

Decided(result) ==
  outcome' = [is |-> "submitted", screen |-> OnScreen, left |-> LeftBehind,
              untouched |-> inputs = 0, result |-> result]

\* A new transaction: the form and the split are reset, the tab is not.
SubmitNew ==
  /\ window.edits = NotAnEdit
  /\ Submittable
  /\ Decided(CreateOutcome)
  /\ window' = [window EXCEPT !.open = FALSE, !.split = FALSE]
  /\ form' = EmptyForm(window.default)
  /\ lines' = TwoBlanks
  /\ UNCHANGED inputs

\* An edit: the dialog is unmounted.
SubmitEdit ==
  /\ window.edits # NotAnEdit
  /\ Submittable
  /\ Decided(UpdateOutcome(window.edits))
  /\ window' = [window EXCEPT !.open = FALSE]
  /\ UNCHANGED <<form, lines, inputs>>

\* What can be read of a row in the list.
ListedRow(l) ==
  LET r == Resolved(Sent(l.form, AccountsNow), AccountsNow)
      record == RecordOf([r EXCEPT !.kind = l.kind], AccountsNow)
  IN [from |-> record.from, to |-> record.to, type |-> record.type, amount |-> record.amount,
      parts |-> record.parts, category |-> l.category, notes |-> l.notes,
      said |-> Said(record, l.category, l.notes, l.status),
      dest |-> record.dest]

DialogInit ==
  /\ outcome = Nothing
  /\ inputs = 0
  /\ \/ \E default \in AccountIds \cup {Unset} :
          /\ window = [open |-> FALSE, tab |-> "expense", split |-> FALSE, edits |-> NotAnEdit,
                       default |-> default]
          /\ form = EmptyForm(default)
          /\ lines = TwoBlanks
     \/ \E l \in Ledgered :
          LET row == ListedRow(l)
              shown == Edited(row)
          IN /\ window = [open |-> TRUE, tab |-> row.type, split |-> shown.split, edits |-> row,
                          default |-> Unset]
             /\ form = shown.form
             /\ lines = shown.lines

DialogNext ==
  \/ Open \/ OpenByHotkey \/ Cancel
  \/ \E tab \in {"expense", "income", "transfer"} : SelectTab(tab)
  \/ EnterAmount \/ EnterFrom \/ EnterTo \/ EnterDest \/ EnterFee \/ EnterBearer
  \/ EnterPurpose \/ EnterValue \/ EnterCategory \/ EnterNotes \/ EnterStatus
  \/ ToggleSplit \/ EnterLine \/ AddLine \/ RemoveLine
  \/ SubmitNew \/ SubmitEdit

DialogSpec == DialogInit /\ [][DialogNext]_dialogVars

-----------------------------------------------------------------------------
(* Properties. *)

WasBooked == outcome.is = "submitted" /\ outcome.result.was = "booked"

\* Whatever was entered, hidden, switched or reset before, the ledger has what the
\* screen showed when the button was pressed, in every aspect but those where
\* something that no longer showed was left behind: a fee bearer of other accounts, a
\* destination amount of another pair, a category of the other type, notes on a
\* transfer or the category it was filed under, and a tab that outlived its form.
WhatShowsIsBooked ==
  WasBooked => Differs(outcome.screen, outcome.result.said) \subseteq outcome.left

\* What an edit that changes nothing still costs the row.
Costs(row) ==
  {"fee", "purpose", "status", "kind"}
  \cup (IF row.dest # 0 THEN {"arrives"} ELSE {})
  \cup (IF CurrencyOf[row.from] # DefaultCurrency THEN {"amount", "arrives", "parts"} ELSE {})

\* An edit that is saved as it opened gives the row back, but for what the dialog
\* was not handed.
UntouchedEditKeepsTheRow ==
  WasBooked /\ window.edits # NotAnEdit /\ outcome.untouched =>
    Differs(window.edits.said, outcome.result.said) \subseteq Costs(window.edits)

\* The comment in the dialog: the fee is prefilled from the canonical Transfer row.
EditKeepsTheFee ==
  WasBooked /\ window.edits # NotAnEdit /\ outcome.untouched =>
    outcome.result.said.fee = window.edits.said.fee

=============================================================================
