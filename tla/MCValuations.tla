---------------------------- MODULE MCValuations ----------------------------
(***************************************************************************)
(* Model-checking instance of the two modules on valuations: Anchors, for  *)
(* a cash account whose handlers overlap, and LinkedTransfer, for tracked  *)
(* accounts; and of Household.  They share nothing: while one moves, the   *)
(* others rest in an initial state.                                        *)
(***************************************************************************)
EXTENDS LinkedTransfer, Anchors, Household, TLC

\* Names are wanted by the family, by a migration, and one by the fees of an
\* investment; months of two days.
MCSystem == <<[name |-> "food", type |-> "expense"]>>
MCMigrated ==
  {[table |-> "merchants", name |-> "shop", type |-> "business"],
   [table |-> "categories", name |-> "fee", type |-> "expense"]}
MCFiled == {[name |-> "fee", type |-> "expense"]}
MCFirstDay == <<1, 3, 5, 7>>
MCZones == {-12, 14}

NewCategory(key, type, parent) ==
  [end |-> "category", key |-> key, name |-> "fee", type |-> type, parent |-> parent]
NewMerchant(key, kind, reuse) ==
  [end |-> "merchant", key |-> key, name |-> "shop", kind |-> kind, reuse |-> reuse]
Set(key, name, lines) == [end |-> "budget", key |-> key, month |-> 2, name |-> name, lines |-> lines]
MCWanted ==
  {NewCategory("k1", "expense", None), NewCategory("k2", "income", 2),
   NewMerchant("k1", "business", FALSE), NewMerchant("k2", "person", TRUE),
   Set("k1", "ours", <<<<1, 3, "none">>, <<2, 2, "carryover">>>>), Set("k1", "ours", <<<<2, 2, "carryover">>, <<1, 3, "none">>>>),
   Set("k2", None, <<<<1, 1, "carryover">>>>),
   [end |-> "archive", key |-> "k3", month |-> 2],
   [end |-> "rule", keyword |-> "bus", category |-> 1, merchant |-> 1], [end |-> "drop", rule |-> 1]}

\* The last hours of a month in one zone are the first of the next in another.
Bought(at, pending, parts) == [at |-> at, pending |-> pending, parts |-> parts]
Bit(category, worth) == [category |-> category, base |-> worth]
MCSpendings ==
  {Bought(58, FALSE, <<Bit(1, 2), Bit(0, 1)>>), Bought(107, FALSE, <<Bit(1, 4)>>), Bought(100, TRUE, <<Bit(2, 1)>>)}

\* Server handlers are interchangeable, and so are cash accounts: no action or
\* property tells them apart.  Cash accounts, slots and clerks belong to different
\* modules, of which one moves at a time, so they are exchanged together.
Together == Cash \cup Slots \cup Clerks
Symmetry ==
  {p \in Permutations(Together) :
     /\ \A s \in {Cash, Slots, Clerks} : \A x \in s : p[x] \in s
     /\ (\E x \in Together : p[x] = x) => \A x \in Together : p[x] = x}

\* The household begins in one zone with one currency, and may change both.
AllVars == <<vars, anchorsVars, householdVars>>
MCInit == Init /\ AnchorsInit /\ HouseholdInit
MCNext ==
  /\ HouseholdInit => db.family = [zone |-> 14, currency |-> "IDR"]
  /\ \/ HouseholdInit /\ AnchorsInit /\ Next /\ UNCHANGED <<anchorsVars, householdVars>>
     \/ HouseholdInit /\ Init /\ AnchorsNext /\ UNCHANGED <<vars, householdVars>>
     \/ Init /\ AnchorsInit /\ HouseholdNext /\ UNCHANGED <<vars, anchorsVars>>
MCSpec == MCInit /\ [][MCNext]_AllVars

=============================================================================
