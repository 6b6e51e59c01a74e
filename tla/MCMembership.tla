----------------------------- MODULE MCMembership -----------------------------
(* Model-checking instance of Membership, and with it of SureMigration and
   SurePairing: an owner migrates while nobody changes the members, or members
   change while nothing has been migrated. *)
EXTENDS Membership, MCSureMigration, TLC

MembershipSymmetry == 
  Permutations(Users) \cup Permutations(Families) \cup Permutations(Handlers)

FamilyVars == <<vars, migrationVars, export, transfers>>
FamilyInit == Init /\ MCInit
FamilyNext ==
  \/ Init /\ MCNext /\ UNCHANGED vars
  \/ MCInit /\ transfers = <<>> /\ Next /\ UNCHANGED <<migrationVars, export, transfers>>
FamilySpec == FamilyInit /\ [][FamilyNext]_FamilyVars

=============================================================================
