----------------------------- MODULE MCImports -----------------------------
(* Model-checking instance of Imports and of Wizard: while one moves, the other
   rests.  The wizard gets three files as banks write them. *)
EXTENDS Imports, Wizard, TLC

HandlerSymmetry == Permutations(Handlers)

MCPlaces == [a \in {"rupiah", "yen"} |-> IF a = "rupiah" THEN 2 ELSE 0]
\* How banks write: the digits of n, and of an amount with its decimals.
DigitsOf[n \in Nat] == IF n < 10 THEN <<n>> ELSE Append(DigitsOf[n \div 10], n % 10)
GroupsOf[n \in Nat] ==
  IF n < 1000 THEN <<DigitsOf[n]>>
  ELSE Append(GroupsOf[n \div 1000], <<(n % 1000) \div 100, (n % 100) \div 10, n % 10>>)
Written(amount, places, thousands, point) ==
  LET v == IF amount < 0 THEN -amount ELSE amount
      unit == 10 ^ places
      groups == IF thousands = "" THEN <<DigitsOf[v \div unit]>> ELSE GroupsOf[v \div unit]
      decimals == [i \in 1..places |-> (v \div (10 ^ (places - i))) % 10]
  IN <<"sum", amount < 0,
       IF places = 0 THEN groups ELSE Append(groups, decimals),
       [i \in 1..(Len(groups) - 1) |-> thousands] \o IF places = 0 THEN <<>> ELSE <<point>> >>

Day(sep, a, b, c) == <<"date", sep, <<a, b, c>>>>
Word(w) == <<"word", w>>

\* A statement in rupiah with two columns, a total and a repeated line.
Statement ==
  LET Line(d, n, w) == [date |-> Day("/", d, 2, 2024), payee |-> Word(w),
        outflow |-> IF n < 0 THEN Written(-n, 2, ".", ",") ELSE Blank,
        inflow |-> IF n > 0 THEN Written(n, 2, ".", ",") ELSE Written(0, 2, ".", ",")]
  IN [kind |-> "csv", headers |-> {"date", "payee", "outflow", "inflow"}, places |-> 2,
      right |-> Mapping("date", "payee", "DD/MM/YYYY", SplitIn("outflow", "inflow")),
      rows |-> <<Line(29, -123450, "rent"), Line(1, 500000, "pay"),
                 [payee |-> Word("total"), inflow |-> Written(376550, 2, ".", ",")], Line(29, -123450, "rent")>>,
      truth |-> << <<<<2024, 2, 29>>, -123450>>, <<<<2024, 2, 1>>, 500000>>, <<<<2024, 2, 29>>, -123450>> >>]

OfType(w) == [h \in {"transaction type"} |-> Word(w)]

\* A card in yen with a column of types, one of which no mapping knows.
Card ==
  LET Line(d, n, w) == [date |-> Day("/", 3, d, 2023), description |-> Word(w),
        amount |-> Written(n, 0, ",", ".")]
  IN [kind |-> "csv", headers |-> {"date", "description", "amount", "transaction type"}, places |-> 0,
      right |-> Mapping("date", "description", "MM/DD/YYYY", Typed("amount", "transaction type")),
      rows |-> <<Line(4, 5000, "rail") @@ OfType("debit"),
                 Line(5, 120, "back") @@ OfType("credit"),
                 Line(5, 1234567, "hold") @@ OfType("pending")>>,
      truth |-> << <<<<2023, 3, 4>>, -5000>>, <<<<2023, 3, 5>>, 120>> >>]

\* A document of records, in yen.
Records ==
  [kind |-> "qif", headers |-> {}, places |-> 0, right |-> "DD/MM/YYYY",
   rows |-> <<[D |-> Day("/", 4, 3, 2023), T |-> Written(-5000, 0, "", "."), P |-> Word("rail")], <<>>,
              [D |-> Day("/", 5, 13, 2023), T |-> Written(7, 0, "", "."), M |-> Word("tip")],
              [D |-> Day("/", 13, 5, 2023), T |-> Written(7, 0, "", "."), M |-> Word("tip")]>>,
   truth |-> << <<<<2023, 3, 4>>, -5000>>, <<<<2023, 5, 13>>, 7>> >>]

MCDocuments == [statement |-> Statement, card |-> Card, records |-> Records]

AllVars == <<vars, wizardVars>>
MCInit == Init /\ WizardInit
MCNext ==
  \/ WizardInit /\ Next /\ UNCHANGED wizardVars
  \/ Init /\ provider /\ WizardNext /\ UNCHANGED vars
MCSpec == MCInit /\ [][MCNext]_AllVars

=============================================================================
