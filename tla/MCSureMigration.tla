--------------------------- MODULE MCSureMigration ---------------------------
(* Model-checking instance of SureMigration and SurePairing: two exports, the
   second of which has one entry and one transfer more, migrate with the pairs
   that the pairer makes of them; before any migration starts, the pairer also
   reads every export of a few legs. *)
EXTENDS SureMigration, SurePairing

MCId == {"s1", "s2", "s3", "out", "in", "orphan"}
MCAccountOf == [id \in MCId |-> IF id = "in" THEN "card" ELSE "cash"]
MCAmountOf == [id \in MCId |->
  CASE id = "s1" -> 4 [] id = "s2" -> 3 [] id = "s3" -> 2 [] id = "out" -> -1
    [] id = "in" -> 1 [] OTHER -> 9]
MCDayOf == [id \in MCId |-> IF id = "s1" THEN 1 ELSE 3]
MCBundle == [f \in {"old", "new"} |->
  IF f = "old" THEN <<"s1", "s2", "out", "in">>
  ELSE <<"s1", "s2", "s3", "out", "in", "orphan">>]
MCValuations == [f \in {"old", "new"} |-> <<[acc |-> "cash", day |-> 2, value |-> 5]>>]

\* "spare" has the name of "cash".
MCMeta == [a \in {"cash", "spare", "card", "fund"} |->
  [name |-> IF a = "spare" THEN "cash" ELSE a, currency |-> "IDR", flow |-> a # "fund",
   type |-> IF a = "card" THEN "CREDIT" ELSE "DEPOSITORY"]]

LegOf(acc, amount, dir, target, kind) ==
  [acc |-> acc, amount |-> amount, day |-> 3, currency |-> "IDR", kind |-> kind,
   hint |-> [dir |-> dir, target |-> target]]
MCLegMenu ==
  {LegOf("cash", 1, "to", "card", "cc_payment"), LegOf("spare", 1, "to", "card", "cc_payment"),
   LegOf("cash", 1, "to", "cash", "funds_movement"), LegOf("card", 1, "to", "cash", "funds_movement"),
   LegOf("card", -1, "from", "cash", "funds_movement"), LegOf("spare", -1, "from", "cash", "funds_movement"),
   LegOf("cash", -1, "none", "none", "funds_movement"), LegOf("cash", -1, "from", "card", "funds_movement"),
   LegOf("fund", -1, "none", "none", "funds_movement"), LegOf("card", -2, "none", "none", "funds_movement")}
MCTransferMenu == {<<>>, << <<1, 2>>, <<2, 3>> >>, << <<3, 9>> >>}

\* The legs of an export, as Sure signs them, and the pairs made of them.
LegId(f) == SelectSeq(MCBundle[f], LAMBDA id : id \in {"out", "in", "orphan"})
LegsOfFile(f) == [n \in DOMAIN LegId(f) |->
  LET id == LegId(f)[n] IN
  LegOf(MCAccountOf[id], -MCAmountOf[id], "none", "none",
        IF id = "out" THEN "cc_payment" ELSE "funds_movement")]
MCPairs == [f \in {"old", "new"} |->
  LET fate == Pairing(LegsOfFile(f), <<>>) IN
  SetToSeq({<<LegId(f)[n], LegId(f)[fate[n].with]>> :
             n \in {m \in DOMAIN fate : fate[m].with # 0 /\ LegsOfFile(f)[m].amount > 0}})]

MCInit == MigrationInit /\ PairingInit
MCNext ==
  \/ export = <<>> /\ transfers = <<>> /\ MigrationNext /\ UNCHANGED <<export, transfers>>
  \/ MigrationInit /\ ReadLeg /\ UNCHANGED migrationVars
MCSpec == MCInit /\ [][MCNext]_<<migrationVars, export, transfers>>

=============================================================================
