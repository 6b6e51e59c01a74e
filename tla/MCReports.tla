------------------------------ MODULE MCReports ------------------------------
(***************************************************************************)
(* Model-checking instance of Reports: an account in the first currency    *)
(* and a liability in the second, in units of another size.                *)
(***************************************************************************)
EXTENDS Reports

MCConv == [c \in {"idr", "usd"} |-> IF c = "usd" THEN 2 ELSE 1]
MCCurrencyOf == [a \in {"bank", "card"} |-> IF a = "bank" THEN "idr" ELSE "usd"]

Part(category, amount) == [category |-> category, amount |-> amount]
EntryOf(acc, kind, day, clock, amount, parts) ==
  [acc |-> acc, kind |-> kind, day |-> day, clock |-> clock, excluded |-> (kind = "income" /\ acc = "bank"),
   amount |-> amount, parts |-> parts]
Anchor(acc, day, value) == EntryOf(acc, "anchor", day, FALSE, value, <<>>)

MCOpened == <<Anchor("bank", 1, 6), Anchor("card", 2, -3)>>
MCRows ==
  {EntryOf("bank", "income", 2, TRUE, 5, <<Part("food", 5)>>),
   EntryOf("bank", "transfer", 3, TRUE, -2, <<>>),
   EntryOf("card", "expense", 2, TRUE, -3, <<Part("food", 1), Part("none", 1), Part("home", 1)>>),
   EntryOf("card", "income", 3, FALSE, 1, <<Part("none", 1)>>),
   Anchor("bank", 2, 4)}
\* A month of two days before one of a single day.
MCMonthStarts == <<1, 3, 4, 5, 6>>

Rate(from, to, day, rate) == [from |-> from, to |-> to, day |-> day, rate |-> rate]
MCRates == {Rate("usd", "idr", 1, 1), Rate("usd", "idr", 1, 3), Rate("usd", "idr", 3, 3), Rate("idr", "usd", 2, 3)}

=============================================================================
