----------------------------- MODULE Semantics -----------------------------
(***************************************************************************)
(* What a create request means: what the ledger derives from it, whether   *)
(* it accepts it, and the record it leaves (createTransactionForFamily in  *)
(* src/src/server/transactions.ts, lib/liability-semantics.ts,             *)
(* lib/money-movement.ts); and what the transaction dialog makes of the    *)
(* values on its form before it gets there (onSubmit in                    *)
(* components/transaction-form-modal.tsx, onInsert in lib/collections.ts). *)
(*                                                                         *)
(* There is no state here.  What may change of an account is the argument  *)
(* acc: a function from accounts to their subtype (savings or not), the    *)
(* source of their balance, and whether they are gone.                     *)
(***************************************************************************)
EXTENDS Integers, FiniteSets, SequencesExt

CONSTANTS
  AccountIds,
  TypeOf,           \* AccountIds -> accountType, fixed at creation
  CurrencyOf,       \* AccountIds -> currency, fixed at creation
  DefaultCurrency,  \* what the schema puts in when no currency is sent
  Unset             \* null, or a key that is absent

ASSUME UnsetAssumption == Unset \notin AccountIds

-----------------------------------------------------------------------------
(* What a transfer is (deriveTransferKindForAccounts, deriveTransferPurpose). *)

LiabilityTypes == {"CREDIT", "LOAN"}

Kind(from, to) ==
  CASE TypeOf[to] = "CREDIT" -> "cc_payment"
    [] TypeOf[to] = "LOAN" -> "loan_payment"
    [] TypeOf[from] \in LiabilityTypes /\ TypeOf[to] \notin LiabilityTypes -> "liability_draw"
    [] OTHER -> "funds_movement"

\* A switch between investments has none; otherwise where it goes decides, and
\* only then where it comes from.
Purpose(from, to, acc) ==
  CASE {TypeOf[from], TypeOf[to]} = {"INVESTMENT"} -> Unset
    [] TypeOf[to] = "E_WALLET" -> "top_up"
    [] TypeOf[to] = "INVESTMENT" /\ TypeOf[from] # "INVESTMENT" -> "investment_contribution"
    [] TypeOf[from] = "INVESTMENT" /\ TypeOf[to] \notin {"INVESTMENT", "E_WALLET"} ->
         "investment_withdrawal"
    [] TypeOf[to] = "CASH" /\ TypeOf[from] # "INVESTMENT" -> "cash_withdrawal"
    [] OTHER -> IF TypeOf[to] = "DEPOSITORY" /\ acc[to].savings THEN "savings" ELSE Unset

Tracked(acc) == {a \in AccountIds : acc[a].source = "valuation"}
Moves(r) == r.type = "transfer"
MovesFunds(r) == Moves(r) /\ Kind(r.from, r.to) = "funds_movement"
Linked(r, acc) == Moves(r) /\ {r.from, r.to} \cap Tracked(acc) # {}

SumOf(parts) == FoldSeq(+, 0, parts)

-----------------------------------------------------------------------------
(* The dialog. *)

Crosses(from, to) == CurrencyOf[from] # CurrencyOf[to]

\* A purpose is sent for a movement of funds only, and derived if none was chosen.
SentPurpose(f, acc) ==
  IF MovesFunds(f) THEN IF f.purpose = Unset THEN Purpose(f.from, f.to, acc) ELSE f.purpose
  ELSE Unset

\* The payload of onSubmit.
Payload(f, acc) ==
  LET dest == IF Moves(f) /\ f.dest # 0 THEN f.dest ELSE 0
      fee == IF Moves(f) THEN f.fee ELSE 0
  IN [type |-> f.type, kind |-> "standard", from |-> f.from, to |-> f.to, amount |-> f.amount,
      hint |-> CurrencyOf[f.from],
      dest |-> dest, destHint |-> IF dest = 0 THEN Unset ELSE CurrencyOf[f.to],
      fee |-> fee,
      feeOn |-> IF fee = 0 THEN Unset ELSE IF f.bearer = Unset THEN f.from ELSE f.bearer,
      purpose |-> SentPurpose(f, acc),
      notes |-> Unset, value |-> IF Moves(f) THEN f.value ELSE 0,
      parts |-> IF Moves(f) THEN <<>> ELSE f.parts]

\* onInsert does not forward the currency.
Sent(f, acc) == [Payload(f, acc) EXCEPT !.hint = DefaultCurrency]

-----------------------------------------------------------------------------
(* The server. *)

\* validateTenantReferences
Refers(r) == {r.from, r.to} \ {Unset}
ReferencesLive(r, acc) == \A a \in Refers(r) : ~acc[a].gone

\* resolveTransferPurpose refuses a purpose for anything but a movement of funds.
PurposeAllowed(r) == Moves(r) /\ ~MovesFunds(r) => r.purpose = Unset

\* resolveTransferSemantics
Resolved(r, acc) ==
  IF ~Moves(r) THEN r
  ELSE [r EXCEPT
         !.purpose = IF MovesFunds(r) /\ @ = Unset THEN Purpose(r.from, r.to, acc) ELSE @,
         !.feeOn = IF r.fee # 0 /\ @ = Unset
                   THEN (IF r.from \in Tracked(acc) THEN r.to ELSE r.from) ELSE @]

\* assertSplitParity and assertManualTransactionKindShape
WellFormed(r) ==
  /\ r.parts # <<>> => SumOf(r.parts) = r.amount
  /\ IF Moves(r) THEN r.kind = "standard"
     ELSE /\ r.fee = 0 /\ r.purpose = Unset
          /\ \/ r.kind = "standard"
             \/ r.type = "expense" /\ r.kind = "liability_fee" /\ r.to # Unset

FeeAccepted(r, acc) ==
  r.fee # 0 => LET a == IF r.feeOn # Unset THEN r.feeOn ELSE r.from
               IN ~acc[a].gone /\ a \notin Tracked(acc)

\* The transfer branch: two accounts (by a trigger), not both of them tracked, one
\* currency if one of them is, and the destination pair whole or not at all.
TransferAccepted(r, acc) ==
  /\ r.from # r.to
  /\ ~({r.from, r.to} \subseteq Tracked(acc))
  /\ IF Linked(r, acc) THEN ~Crosses(r.from, r.to) ELSE (r.dest = 0) = (r.destHint = Unset)
  /\ FeeAccepted(r, acc)

\* assertLiabilityCostTarget, and the guard of applyAccountBalanceDelta.
StandardAccepted(r, acc) ==
  /\ r.kind = "liability_fee" => TypeOf[r.to] \in LiabilityTypes
  /\ r.from \notin Tracked(acc)

Accepted(r, acc) ==
  /\ WellFormed(r)
  /\ IF Moves(r) THEN TransferAccepted(r, acc) ELSE StandardAccepted(r, acc)

-----------------------------------------------------------------------------
(* What a create leaves: the row, its parts, the other leg, and the fee and  *)
(* purpose of its Transfer.                                                  *)

\* Absent texts and empty ones are stored alike (notes || null).
Text(notes) == IF notes = "empty" THEN Unset ELSE notes

NoFee == [amount |-> 0, on |-> Unset]
NoPartner == [on |-> Unset, amount |-> 0, currency |-> Unset, dest |-> 0, destHint |-> Unset]

PlainRecord(r) ==
  [type |-> r.type, kind |-> r.kind, from |-> r.from, to |-> r.to, amount |-> r.amount,
   currency |-> CurrencyOf[r.from], dest |-> 0, destHint |-> Unset, fee |-> NoFee,
   purpose |-> Unset, notes |-> Text(r.notes), parts |-> r.parts, partner |-> NoPartner,
   value |-> 0]

FeeOf(r) == IF r.fee = 0 THEN NoFee ELSE [amount |-> r.fee, on |-> r.feeOn]

ClassicRecord(r) ==
  [PlainRecord(r) EXCEPT
    !.kind = Unset, !.parts = <<>>, !.dest = r.dest, !.destHint = r.destHint,
    !.fee = FeeOf(r), !.purpose = r.purpose,
    !.partner = [on |-> r.to, amount |-> IF r.dest = 0 THEN r.amount ELSE r.dest,
                 currency |-> CurrencyOf[r.to], dest |-> r.dest, destHint |-> r.destHint]]

\* postValuationLinkedTransferLegs: the row is that of the cash account, whichever
\* way the money goes; the value entered goes into the valuation.
LinkedRecord(r, acc) ==
  [PlainRecord(r) EXCEPT
    !.kind = Unset, !.parts = <<>>, !.fee = FeeOf(r), !.purpose = r.purpose, !.value = r.value,
    !.from = IF r.from \in Tracked(acc) THEN r.to ELSE r.from,
    !.to = IF r.from \in Tracked(acc) THEN r.from ELSE r.to]

RecordOf(r, acc) ==
  IF Linked(r, acc) THEN LinkedRecord(r, acc)
  ELSE IF Moves(r) THEN ClassicRecord(r) ELSE PlainRecord(r)

=============================================================================
