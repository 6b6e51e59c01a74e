------------------------------ MODULE MCLedger ------------------------------
(***************************************************************************)
(* Model-checking instance of Ledger, and of the two ways to it: the       *)
(* dialog, and the recognition of a request that was sent before.  While   *)
(* one of the three moves, the others rest in an initial state.            *)
(***************************************************************************)
EXTENDS Ledger, Replay, Dialog, TLC

\* Accounts are interchangeable: no action or property tells them apart.  The
\* dialog and the requests name theirs.
AccountSymmetry == Permutations(Accounts)

MCTypeOf == [a \in AccountIds |->
  CASE a \in {"bank", "jar"} -> "DEPOSITORY" [] a = "fund" -> "INVESTMENT" [] a = "card" -> "CREDIT"
    [] OTHER -> "TRACKED_ASSET"]
MCCurrencyOf == [a \in AccountIds |-> IF a = "jar" THEN "JPY" ELSE "IDR"]
MCScaleOf == [c \in {"IDR", "JPY"} |-> IF c = "IDR" THEN 10 ELSE 1]
MCAccountsNow == [a \in AccountIds |->
  [savings |-> FALSE, gone |-> FALSE,
   source |-> IF a = "gold" THEN "valuation" ELSE "transaction_flow"]]
MCCategoryType == [c \in {"food", "pay"} |-> IF c = "food" THEN "expense" ELSE "income"]

\* Rows to edit: one of each shape the ledger knows.
Entered(f, category, status, kind) ==
  [form |-> f, category |-> category, notes |-> Unset, status |-> status, kind |-> kind]
MCLedgered ==
  {Entered(Blank("expense", "bank", 100), "food", "PENDING", "standard"),
   Entered([Blank("income", "bank", 110) EXCEPT !.parts = <<10, 100>>], Unset, "CLEARED", "standard"),
   Entered([Blank("transfer", "bank", 100) EXCEPT !.to = "jar", !.dest = 1, !.fee = 10],
          Unset, "CLEARED", "standard"),
   Entered([Blank("transfer", "jar", 100) EXCEPT !.to = "bank"], "food", "CLEARED", "standard"),
   Entered([Blank("transfer", "gold", 100) EXCEPT !.to = "bank"], Unset, "CLEARED", "standard"),
   Entered([Blank("expense", "bank", 100) EXCEPT !.to = "card"], "food", "CLEARED", "liability_fee")}

AllVars == <<vars, replayVars, dialogVars>>
NoDialog == ~window.open /\ window.edits = NotAnEdit /\ window.default = Unset /\ inputs = 0
MCInit == Init /\ ReplayInit /\ DialogInit
MCNext ==
  \/ ReplayInit /\ NoDialog /\ Next /\ UNCHANGED <<replayVars, dialogVars>>
  \/ Init /\ NoDialog /\ ReplayNext /\ UNCHANGED <<vars, dialogVars>>
  \/ Init /\ ReplayInit /\ DialogNext /\ UNCHANGED <<vars, replayVars>>
MCSpec == MCInit /\ [][MCNext]_AllVars

=============================================================================
