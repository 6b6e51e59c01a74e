------------------------------- MODULE Replay -------------------------------
(***************************************************************************)
(* How createTransactionForFamily tells a request that was sent again from *)
(* another one that uses the same key (src/src/server/transactions.ts).    *)
(*                                                                         *)
(* The row of a key is all that is kept of the request that made it.  When *)
(* the key comes back, the request is completed with what follows from the *)
(* accounts as they are now, and compared with what can be read back from  *)
(* the row: two renderings of one thing that have to agree, whatever path  *)
(* the create took and whatever happened to the accounts in between.       *)
(*                                                                         *)
(* Requests begin as a form of the transaction dialog, and may differ from *)
(* what the dialog sends in one field, as those of another client do.      *)
(***************************************************************************)
EXTENDS Semantics

CONSTANTS
  ReplayKeys,       \* idempotency keys
  TrackedAtFirst,   \* accounts that follow valuations from the start
  Sums,             \* money in a request
  MaxChanges        \* bound on the changes of accounts

ASSUME ReplayAssumption == Sums \subseteq Nat \ {0} /\ MaxChanges \in Nat

VARIABLES
  account,  \* AccountIds -> what may change of an account
  stored,   \* ReplayKeys -> what can be read back of the row of the key
  sent,     \* ReplayKeys -> the request that made the row, and the accounts then
  answer,   \* the last answer, until an account changes
  changes

replayVars == <<account, stored, sent, answer, changes>>

-----------------------------------------------------------------------------
(* Requests. *)

Blank(type, from, amount) ==
  [type |-> type, from |-> from, to |-> Unset, amount |-> amount, dest |-> 0, fee |-> 0,
   bearer |-> Unset, purpose |-> Unset, value |-> 0, parts |-> <<>>]

\* What a user enters: an income or an expense, in two halves or whole, ...
Entries ==
  {Blank(type, from, n) : type \in {"expense", "income"}, from \in AccountIds, n \in Sums}
  \cup {[Blank("expense", from, 2 * n) EXCEPT !.parts = <<n, n>>] : from \in AccountIds, n \in Sums}

\* ... or a transfer, its destination amount if the currencies differ, its fee
\* paid by one of the two accounts.
Moved ==
  {[Blank("transfer", pair[1], n) EXCEPT !.to = pair[2], !.dest = d, !.fee = fee, !.bearer = b] :
     pair \in {p \in AccountIds \X AccountIds : p[1] # p[2]}, n \in Sums,
     d \in {0} \cup Sums, fee \in {0, 1}, b \in {Unset} \cup AccountIds}
EnteredForms ==
  Entries \cup {f \in Moved : f.bearer \in {Unset, f.to} /\ (f.dest # 0 => Crosses(f.from, f.to))}

\* The same but for one field, as another client may send it.
Variants(r) ==
  {r}
  \cup {[r EXCEPT !.amount = n] : n \in Sums}
  \cup {[r EXCEPT !.hint = CurrencyOf[r.from]], [r EXCEPT !.notes = "text"],
        [r EXCEPT !.notes = "empty"], [r EXCEPT !.value = 1], [r EXCEPT !.parts = <<>>],
        [r EXCEPT !.parts = Append(@, r.amount)]}
  \cup {[r EXCEPT !.purpose = p] : p \in {Unset, "savings"}}
  \cup {[r EXCEPT !.feeOn = a] : a \in {Unset} \cup AccountIds}
  \cup {[r EXCEPT !.fee = n] : n \in {0, 1}}
  \cup {[r EXCEPT !.dest = n, !.destHint = CurrencyOf[r.from]] : n \in Sums}
  \cup {[r EXCEPT !.kind = "liability_fee", !.to = a] : a \in AccountIds}
  \cup IF Moves(r) THEN {} ELSE {[r EXCEPT !.to = a] : a \in AccountIds}

-----------------------------------------------------------------------------
(* Comparing. *)

\* canonicalRequestPayload; a kind is part of it only outside of transfers.
RequestPayload(r, partnered) ==
  [type |-> r.type, kind |-> IF Moves(r) THEN Unset ELSE r.kind, from |-> r.from, to |-> r.to,
   amount |-> r.amount, currency |-> r.hint, dest |-> r.dest, destHint |-> r.destHint,
   fee |-> FeeOf(r), purpose |-> r.purpose, notes |-> r.notes, parts |-> r.parts,
   partner |-> IF Moves(r) /\ partnered
     THEN [on |-> r.to, amount |-> IF r.dest = 0 THEN r.amount ELSE r.dest,
           currency |-> IF r.destHint = Unset THEN r.hint ELSE r.destHint,
           dest |-> r.dest, destHint |-> r.destHint]
     ELSE NoPartner]

\* canonicalPersistedPayload: everything but the valuation.
StoredPayload(row) ==
  [field \in DOMAIN row \ {"value"} |-> row[field]]

\* Faulty variant: the fee is left out of the comparison.
SamePayloadButFee(r, row) ==
  RequestPayload([r EXCEPT !.fee = 0], row.partner # NoPartner)
    = StoredPayload([row EXCEPT !.fee = NoFee])

\* assertIdempotentPayloadMatches
SamePayload(r, row) == RequestPayload(r, row.partner # NoPartner) = StoredPayload(row)

-----------------------------------------------------------------------------
(* Calls. *)

NoAnswer == [is |-> "none", of |-> Unset, key |-> Unset]
Answered(k, r, is) == answer' = [is |-> is, of |-> r, key |-> k]

StoreFirst(k, r) ==
  /\ stored[k] = Unset
  /\ ReferencesLive(r, account) /\ PurposeAllowed(r) /\ Accepted(Resolved(r, account), account)
  /\ stored' = [stored EXCEPT ![k] = RecordOf(Resolved(r, account), account)]
  /\ sent' = [sent EXCEPT ![k] = [request |-> r, accounts |-> account]]
  /\ Answered(k, r, "created")
  /\ UNCHANGED <<account, changes>>

Verdict(k, r) == IF SamePayload(Resolved(r, account), stored[k]) THEN "replayed" ELSE "conflict"

\* An answer changes nothing that the next one depends on.
Comes(k) == stored[k] # Unset /\ answer.is \in {"none", "created"}

\* replayIdempotentTransaction, once the references and the purpose are checked.
CallAgain(k, r) ==
  /\ Comes(k)
  /\ Answered(k, r, IF ReferencesLive(r, account) /\ PurposeAllowed(r) THEN Verdict(k, r) ELSE "refused")
  /\ UNCHANGED <<account, stored, sent, changes>>

\* The create lost the race for its key, and the catch block looks at the row in a
\* transaction of its own, without a check of the references.
Rescued(k, r) ==
  /\ Comes(k)
  /\ Answered(k, r, IF PurposeAllowed(r) THEN Verdict(k, r) ELSE "refused")
  /\ UNCHANGED <<account, stored, sent, changes>>

\* What else happens to accounts: updateAccountForFamily, the switch to holdings
\* tracking, deleteAccountForFamily.
Change(a, attributes) ==
  /\ changes < MaxChanges
  /\ changes' = changes + 1
  /\ account' = [account EXCEPT ![a] = attributes]
  /\ answer' = NoAnswer
  /\ UNCHANGED <<stored, sent>>

Relabel(a) ==
  TypeOf[a] = "DEPOSITORY" /\ Change(a, [account[a] EXCEPT !.savings = ~@])
Track(a) ==
  TypeOf[a] = "INVESTMENT" /\ a \notin Tracked(account) /\ Change(a, [account[a] EXCEPT !.source = "valuation"])
Close(a) ==
  ~account[a].gone /\ Change(a, [account[a] EXCEPT !.gone = TRUE])

ReplayInit ==
  /\ account = [a \in AccountIds |->
       [savings |-> FALSE, gone |-> FALSE,
        source |-> IF a \in TrackedAtFirst THEN "valuation" ELSE "transaction_flow"]]
  /\ stored = [k \in ReplayKeys |-> Unset]
  /\ sent = [k \in ReplayKeys |-> Unset]
  /\ answer = NoAnswer
  /\ changes = 0

ReplayNext ==
  \/ \E k \in ReplayKeys :
       \/ /\ stored[k] = Unset
          /\ \E f \in EnteredForms : \E r \in Variants(Sent(f, account)) : StoreFirst(k, r)
       \/ /\ stored[k] # Unset
          /\ \E r \in Variants(sent[k].request) : CallAgain(k, r) \/ Rescued(k, r)
  \/ \E a \in AccountIds : Relabel(a) \/ Track(a) \/ Close(a)

ReplaySpec == ReplayInit /\ [][ReplayNext]_replayVars

-----------------------------------------------------------------------------
(* Properties. *)

AnsweredAs(is) == answer.is = is
Again == answer.is \notin {"none", "created"} /\ answer.of = sent[answer.key].request

\* What of a request the row does not give back as it came: a currency that is not
\* the account's, texts that are empty, fields that the path does not store, and
\* the two accounts of a redemption, which the row has the other way round.
LostInTheRow(r, row) ==
  \/ r.hint # row.currency
  \/ r.notes = "empty"
  \/ row.from # r.from
  \/ r.dest # row.dest \/ r.destHint # row.destHint \/ r.parts # row.parts
  \/ row.partner # NoPartner /\ row.partner.currency # (IF r.destHint = Unset THEN r.hint ELSE r.destHint)

\* What was left to the ledger to derive, and comes out otherwise than it did.
DerivedAnew(k, r) ==
  LET then == sent[k].accounts IN
    \/ r.purpose = Unset /\ r.to # Unset /\ account[r.to].savings # then[r.to].savings
    \/ r.fee # 0 /\ r.feeOn = Unset /\ account[r.from].source # then[r.from].source

\* A request that is sent again is answered with its row, whichever path it took
\* and whatever happened to the accounts, but for the causes that are named: what
\* the row has lost, what is derived anew, and an account that was deleted.  And a
\* request that is answered with the row of its key would have made the same row,
\* of the accounts as they were or as they are: whatever else it asks for is never
\* taken for granted, except for the value of the tracked account, which is not
\* compared (canonicalRequestPayload).
SameIsReplayed ==
  LET k == answer.key
      r == answer.of
  IN /\ Again =>
          \/ AnsweredAs("replayed")
          \/ AnsweredAs("refused") /\ ~ReferencesLive(r, account)
          \/ AnsweredAs("conflict") /\ (LostInTheRow(r, stored[k]) \/ DerivedAnew(k, r))
     /\ AnsweredAs("replayed") =>
          \E accounts \in {account, sent[k].accounts} :
            LET anew == RecordOf(Resolved(r, account), accounts) IN
              anew = [stored[k] EXCEPT !.value = anew.value]

=============================================================================
