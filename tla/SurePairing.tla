---------------------------- MODULE SurePairing ----------------------------
(***************************************************************************)
(* How the legs of an export of Sure are paired into transfers             *)
(* (src/src/lib/sure-migration.ts, pairSureTransfers): first as Sure's own *)
(* transfers say, then the two legs of a day and an amount when there are  *)
(* only two, then a cluster of them when each names the account of the     *)
(* other.  What is left is held with a reason: nothing is guessed.         *)
(*                                                                         *)
(* A leg is known by its place in the export.  The hint of a leg is what   *)
(* its name says, parsed.                                                  *)
(***************************************************************************)
EXTENDS Integers, FiniteSets, FiniteSetsExt, SequencesExt

CONSTANTS
  Meta,          \* account -> [name, currency, type, flow]
  LegMenu,       \* the legs an export may have
  TransferMenu,  \* the sequences of Sure's transfers it may have, each <<outflow, inflow>>
  MaxLegs        \* bound on the legs

NoHint == [dir |-> "none", target |-> "none"]
Leg == [acc : DOMAIN Meta, amount : Int \ {0}, day : Nat, currency : STRING, kind : STRING,
        hint : [dir : {"to", "from", "none"}, target : STRING]]

\* A transfer of Sure has two legs.
ASSUME SurePairingAssumption ==
  /\ LegMenu \subseteq Leg /\ MaxLegs \in Nat
  /\ \A ts \in TransferMenu :
       /\ ts \in Seq((Nat \ {0}) \X (Nat \ {0}))
       /\ \A k \in DOMAIN ts : ts[k][1] # ts[k][2]

VARIABLES export, transfers

pairingVars == <<export, transfers>>

-----------------------------------------------------------------------------
(* What a leg becomes: one of a pair, or held. *)

Unplaced == [with |-> 0, how |-> "open"]
PairedBy(other, tier) == [with |-> other, how |-> tier]
HeldFor(reason) == [with |-> 0, how |-> reason]

MetaOf(ls, n) == Meta[ls[n].acc]

\* deriveTransferKindForAccounts
Derived(from, to) ==
  CASE to = "CREDIT" -> "cc_payment"
    [] to = "LOAN" -> "loan_payment"
    [] to \notin {"CREDIT", "LOAN"} /\ from \in {"CREDIT", "LOAN"} -> "liability_draw"
    [] OTHER -> "funds_movement"

\* classifyTransferPairGate
GateOf(ls, o, i) ==
  LET derived == Derived(MetaOf(ls, o).type, MetaOf(ls, i).type)
      kinds == {ls[o].kind, ls[i].kind}
  IN IF ~(MetaOf(ls, o).flow /\ MetaOf(ls, i).flow) THEN "non_importable"
     ELSE IF \/ ls[o].currency # ls[i].currency
             \/ MetaOf(ls, o).currency # MetaOf(ls, i).currency THEN "currency_mismatch"
     ELSE IF \/ ~(kinds \subseteq {derived, "funds_movement"})
             \/ derived # "liability_draw" /\ derived \notin kinds THEN "kind_divergence"
     ELSE "none"

\* gateAndCommit: what leg n of the candidate <<o, i>> becomes.
Committed(ls, o, i, tier, n) ==
  IF GateOf(ls, o, i) = "none" THEN PairedBy(IF n = o THEN i ELSE o, tier)
  ELSE HeldFor(GateOf(ls, o, i))

-----------------------------------------------------------------------------
(* The tiers. *)

\* A transfer that names a leg already consumed is ignored.
Place(ls, fate, t) ==
  LET staged == Range(t) \cap DOMAIN ls IN
  IF \E n \in staged : fate[n] # Unplaced THEN fate
  ELSE [n \in DOMAIN ls |->
         IF n \notin staged THEN fate[n]
         ELSE IF staged # Range(t) THEN HeldFor("not_staged")
         ELSE Committed(ls, t[1], t[2], "deterministic", n)]

\* Sure's transfers, in order.
Deterministic(ls, ts) ==
  LET after[k \in 0..Len(ts)] ==
        IF k = 0 THEN [n \in DOMAIN ls |-> Unplaced] ELSE Place(ls, after[k - 1], ts[k])
  IN after[Len(ts)]

Size(ls, n) == IF ls[n].amount < 0 THEN -ls[n].amount ELSE ls[n].amount
Key(ls, n) == <<ls[n].day, Size(ls, n), ls[n].currency>>
Outflows(ls, ns) == {n \in ns : ls[n].amount > 0}
Inflows(ls, ns) == {n \in ns : ls[n].amount < 0}

\* isValidMatch
Names(ls, o, i) ==
  /\ ls[o].acc # ls[i].acc
  /\ ls[o].hint = [dir |-> "to", target |-> MetaOf(ls, i).name]
  /\ ls[i].hint = [dir |-> "from", target |-> MetaOf(ls, o).name]

\* Faulty variant: a leg takes any of its matches.
ResolvesAny(ls, outs, ins) ==
  /\ \A o \in outs : \E i \in ins : Names(ls, o, i)
  /\ \A i \in ins : \E o \in outs : Names(ls, o, i)

\* resolveCluster: one match for each outflow, and one claim on each inflow.
Resolves(ls, outs, ins) ==
  /\ Cardinality(outs) = Cardinality(ins)
  /\ \A o \in outs : Cardinality({i \in ins : Names(ls, o, i)}) = 1
  /\ \A i \in ins : Cardinality({o \in outs : Names(ls, o, i)}) = 1

Match(ls, outs, ins, n) ==
  IF n \in outs THEN <<n, CHOOSE i \in ins : Names(ls, n, i)>>
  ELSE <<CHOOSE o \in outs : Names(ls, o, n), n>>

\* What leg n of the group <<outs, ins>> of a day, an amount and a currency becomes.
Heuristic(ls, outs, ins, n) ==
  CASE outs = {} \/ ins = {} -> HeldFor("unpaired_orphan")
    [] Cardinality(outs) = 1 /\ Cardinality(ins) = 1 ->
         LET o == CHOOSE o \in outs : TRUE
             i == CHOOSE i \in ins : TRUE
         IN IF ls[o].acc = ls[i].acc THEN HeldFor("unpaired_orphan")
            ELSE Committed(ls, o, i, "clean", n)
    [] OTHER ->
         IF Resolves(ls, outs, ins)
         THEN LET m == Match(ls, outs, ins, n) IN Committed(ls, m[1], m[2], "resolved_cluster", n)
         ELSE HeldFor("ambiguous_cluster")

\* pairSureTransfers
Pairing(ls, ts) ==
  LET first == Deterministic(ls, ts)
      open == {n \in DOMAIN ls : first[n] = Unplaced}
      alike(n) == {m \in open : Key(ls, m) = Key(ls, n)}
  IN [n \in DOMAIN ls |->
        IF n \notin open THEN first[n]
        ELSE Heuristic(ls, Outflows(ls, alike(n)), Inflows(ls, alike(n)), n)]

-----------------------------------------------------------------------------
(* Every export is read leg by leg; stageableSureTransferLegs lets them through. *)

PairingInit == export = <<>> /\ transfers \in TransferMenu

ReadLeg ==
  /\ Len(export) < MaxLegs
  /\ \E leg \in LegMenu : export' = Append(export, leg)
  /\ UNCHANGED transfers

PairingSpec == PairingInit /\ [][ReadLeg]_pairingVars

-----------------------------------------------------------------------------
(* Property. *)

\* A pair that Sure did not make is never a guess: its legs mirror each other on
\* two accounts, and there is no other way to pair the legs of their day and
\* amount, either because there are only two or because the names of the legs
\* allow a single perfect matching; a leg that one of Sure's transfers was the
\* first to name is paired as it says or held (ADR-0042, "HOLD > guess").
NothingIsGuessed ==
  LET fate == Pairing(export, transfers)
      free == {n \in DOMAIN export : Deterministic(export, transfers)[n] = Unplaced}
      alike(n) == {m \in free : Key(export, m) = Key(export, n)}
      matchings(n) ==
        LET outs == Outflows(export, alike(n))
            ins == Inflows(export, alike(n))
        IN {f \in [outs -> ins] :
              /\ \A o, p \in outs : f[o] = f[p] => o = p
              /\ \A o \in outs : Names(export, o, f[o])}
  IN /\ \A n \in DOMAIN export : fate[n] # Unplaced
     /\ \A n \in DOMAIN export : fate[n].with # 0 =>
          LET m == fate[n].with IN
          /\ fate[m] = PairedBy(n, fate[n].how)
          /\ fate[n].how # "deterministic" =>
               /\ export[m].amount = -export[n].amount /\ export[m].acc # export[n].acc
               /\ export[m].day = export[n].day /\ export[m].currency = export[n].currency
               /\ \/ alike(n) = {m, n}
                  \/ export[n].amount < 0
                  \/ /\ Cardinality(matchings(n)) = 1
                     /\ \A f \in matchings(n) : f[n] = m
     /\ \A t \in DOMAIN transfers : \A n \in Range(transfers[t]) \cap DOMAIN export :
          (\A s \in 1..(t - 1) : Range(transfers[s]) \cap Range(transfers[t]) = {}) =>
             fate[n].with \in {0} \cup (Range(transfers[t]) \ {n})

=============================================================================
