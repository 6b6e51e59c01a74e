------------------------ MODULE LinkedTransferProofs ------------------------
(***************************************************************************)
(* Proofs about LinkedTransfer, for any accounts, dates, amounts, values,  *)
(* fees and bounds.                                                        *)
(*                                                                         *)
(* Two ideas carry them.  Ids are handed out in order, so a move is joined *)
(* to a valuation that no other move has: what one delete tombstones is no *)
(* other move's.  And the valuations of an account that live are finitely  *)
(* many and totally ordered by date and creation, so there is a newest one *)
(* to materialise after any step.                                          *)
(*                                                                         *)
(* The second half is about Anchors.  What an open transaction has read is *)
(* still so unless it has been told (AsRead), so what a commit writes is   *)
(* what a recomputation would find: each commit moves the stored balance   *)
(* by what the row that changes counts for on the anchor in force.         *)
(***************************************************************************)
EXTENDS LinkedTransfer, Anchors, CollectionTheorems

Valuations == [ValuationId -> ValuationRow \cup {NoValuation}]

\* The valuations that were created, and the moves, are the first ones.
Numbered ==
  /\ \E k \in Nat : \A v \in ValuationId : Valued(v) <=> v <= k
  /\ \E k \in Nat : \A m \in MoveId : Moved(m) <=> m <= k

\* Every move has a valuation of its own.
Joined ==
  /\ \A m \in MoveId : Moved(m) => move[m].valuation \in ValuationId /\ Valued(move[m].valuation)
  /\ \A m, n \in MoveId :
       Moved(m) /\ Moved(n) /\ move[m].valuation = move[n].valuation => m = n

Materialised == \A t \in Tracked : tracked[t] = Canonical(valuation, t)

IInv == TypeOK /\ Numbered /\ Joined /\ LegsDieTogether /\ Materialised

USE LinkedAssumption

-----------------------------------------------------------------------------
(* The newest valuation. *)

\* w is older than v.
Below(vals, t, w, v) ==
  \/ DateIn(vals, t, w) < DateIn(vals, t, v)
  \/ DateIn(vals, t, w) = DateIn(vals, t, v) /\ w < v

LEMMA LiveType ==
  ASSUME NEW vals \in Valuations, NEW t \in Tracked, NEW v \in LiveOf(vals, t)
  PROVE  v \in 0..MaxValuations /\ DateIn(vals, t, v) \in Int /\ ValueIn(vals, t, v) \in Nat
<1>1. CASE v = OpeningId
  BY <1>1 DEF OpeningId, DateIn, ValueIn
<1>2. CASE v # OpeningId
  <2>1. v \in ValuationId /\ vals[v] \in ValuationRow
    BY <1>2 DEF LiveOf, Valuations
  <2>2. v \in 0..MaxValuations
    BY <2>1 DEF ValuationId
  <2>3. vals[v].date \in Int /\ vals[v].value \in Nat
    BY <2>1 DEF ValuationRow
  <2>. QED  BY <2>2, <2>3, <1>2 DEF DateIn, ValueIn
<1>. QED  BY <1>1, <1>2

\* Some live valuation has none above it.
LEMMA SomeTop ==
  ASSUME NEW vals \in Valuations, NEW t \in Tracked
  PROVE  \E v \in LiveOf(vals, t) : \A w \in LiveOf(vals, t) : ~Below(vals, t, v, w)
<1>. DEFINE L == LiveOf(vals, t)
            Above(v) == {w \in L : Below(vals, t, v, w)}
            Sets == {Above(v) : v \in L}
<1>1. IsFiniteSet(L)
  <2>1. IsFiniteSet(0..MaxValuations)
    BY FS_Interval
  <2>2. L \in SUBSET (0..MaxValuations)
    BY LiveType
  <2>. QED  BY <2>1, <2>2, FS_Subset
<1>2. IsWellFoundedOn(StrictSubsetOrdering(L), SUBSET L)
  BY <1>1, FS_StrictSubsetOrderingWellFounded, FS_FiniteSubsetsOfFinite
<1>3. Sets \subseteq SUBSET L /\ Sets # {}
  <2>1. OpeningId \in L
    BY DEF LiveOf
  <2>. QED  BY <2>1
<1>4. PICK x \in Sets : \A y \in Sets : ~(<<y, x>> \in StrictSubsetOrdering(L))
  BY <1>2, <1>3, WFMin
<1>5. PICK v \in L : x = Above(v)
  OBVIOUS
<1>6. ASSUME NEW w \in L, Below(vals, t, v, w)
      PROVE  FALSE
  <2>1. \A u \in {v, w} \cup L : u \in Nat /\ DateIn(vals, t, u) \in Int
    BY LiveType
  <2>2. \A u \in L : Below(vals, t, w, u) => Below(vals, t, v, u)
    BY <1>6, <2>1 DEF Below
  <2>3. ~Below(vals, t, w, w)
    BY <2>1 DEF Below
  <2>4. Above(w) \subseteq Above(v) /\ Above(w) # Above(v)
    BY <1>6, <2>2, <2>3
  <2>5. <<Above(w), Above(v)>> \in StrictSubsetOrdering(L)
    BY <2>4 DEF StrictSubsetOrdering
  <2>. QED  BY <2>5, <1>4, <1>5
<1>. QED  BY <1>6

LEMMA LatestIs ==
  ASSUME NEW vals \in Valuations, NEW t \in Tracked
  PROVE  /\ Latest(vals, t) \in LiveOf(vals, t)
         /\ \A w \in LiveOf(vals, t) \ {Latest(vals, t)} : Below(vals, t, w, Latest(vals, t))
<1>1. PICK v \in LiveOf(vals, t) : \A w \in LiveOf(vals, t) : ~Below(vals, t, v, w)
  BY SomeTop
<1>2. \A w \in LiveOf(vals, t) \ {v} : Below(vals, t, w, v)
  <2>1. \A u \in LiveOf(vals, t) : u \in Int /\ DateIn(vals, t, u) \in Int
    BY LiveType
  <2>. QED  BY <1>1, <2>1 DEF Below
<1>. QED  BY <1>2 DEF Latest, Below

\* There is only one that is above all the others.
LEMMA LatestUnique ==
  ASSUME NEW vals \in Valuations, NEW t \in Tracked, NEW v \in LiveOf(vals, t),
         \A w \in LiveOf(vals, t) \ {v} : Below(vals, t, w, v)
  PROVE  v = Latest(vals, t)
<1>1. \A u \in LiveOf(vals, t) : u \in Int /\ DateIn(vals, t, u) \in Int
  BY LiveType
<1>. QED  BY <1>1, LatestIs DEF Below

LEMMA CanonicalType ==
  ASSUME NEW vals \in Valuations, NEW t \in Tracked
  PROVE  Canonical(vals, t) \in Nat
BY LatestIs, LiveType DEF Canonical

\* An account whose live valuations stay as they are keeps its value.
LEMMA CanonicalKept ==
  ASSUME NEW vals \in Valuations, NEW new \in Valuations, NEW t \in Tracked,
         \A v \in ValuationId :
           \/ new[v] = vals[v]
           \/ /\ vals[v] = NoValuation \/ vals[v].account # t
              /\ new[v].account # t
  PROVE  Canonical(new, t) = Canonical(vals, t)
<1>1. LiveOf(new, t) = LiveOf(vals, t)
  BY DEF LiveOf
<1>2. \A v \in LiveOf(vals, t) : /\ DateIn(new, t, v) = DateIn(vals, t, v)
                                 /\ ValueIn(new, t, v) = ValueIn(vals, t, v)
  BY DEF LiveOf, DateIn, ValueIn
<1>3. /\ Latest(vals, t) \in LiveOf(new, t)
      /\ \A w \in LiveOf(new, t) \ {Latest(vals, t)} : Below(new, t, w, Latest(vals, t))
  BY <1>1, <1>2, LatestIs DEF Below
<1>4. Latest(vals, t) = Latest(new, t)
  BY <1>3, LatestUnique
<1>. QED  BY <1>2, <1>4, LatestIs DEF Canonical

-----------------------------------------------------------------------------
(* Ids. *)

LEMMA NextValuationIs ==
  ASSUME NEW k \in Nat, \A v \in ValuationId : Valued(v) <=> v <= k,
         NextValuation \in ValuationId
  PROVE  NextValuation = k + 1
<1>. DEFINE top == IF k <= MaxValuations THEN k ELSE MaxValuations
<1>1. {v \in ValuationId : Valued(v)} = 1..top
  BY DEF ValuationId
<1>2. top \in Nat /\ Cardinality(1..top) = top
  BY FS_Interval
<1>3. NextValuation = top + 1
  BY <1>1, <1>2 DEF NextValuation
<1>4. top + 1 \in Nat /\ top + 1 <= MaxValuations
  BY <1>2, <1>3 DEF ValuationId
<1>. QED  BY <1>3, <1>4

LEMMA NextMoveIs ==
  ASSUME NEW k \in Nat, \A m \in MoveId : Moved(m) <=> m <= k, NextMove \in MoveId
  PROVE  NextMove = k + 1
<1>. DEFINE top == IF k <= MaxMoves THEN k ELSE MaxMoves
<1>1. {m \in MoveId : Moved(m)} = 1..top
  BY DEF MoveId
<1>2. top \in Nat /\ Cardinality(1..top) = top
  BY FS_Interval
<1>3. NextMove = top + 1
  BY <1>1, <1>2 DEF NextMove
<1>4. top + 1 \in Nat /\ top + 1 <= MaxMoves
  BY <1>2, <1>3 DEF MoveId
<1>. QED  BY <1>3, <1>4

-----------------------------------------------------------------------------
(* The parts of a step. *)

\* A valuation is inserted: no row changes, and the balances are those of the
\* newest valuations again.
LEMMA ValueKeeps ==
  ASSUME IInv, NEW t \in Tracked, NEW value \in Int, NEW date \in Dates,
         Value(t, value, date)
  PROVE  /\ valuation' \in Valuations
         /\ tracked' \in [Tracked -> Nat]
         /\ Materialised'
         /\ \E k \in Nat : \A v \in ValuationId : valuation'[v] # NoValuation <=> v <= k
         /\ NextValuation \in ValuationId /\ valuation[NextValuation] = NoValuation
         /\ valuation'[NextValuation] \in ValuationRow
         /\ valuation'[NextValuation].deleted = FALSE
         /\ \A v \in ValuationId :
              valuation[v] # NoValuation => valuation'[v] = valuation[v] /\ v # NextValuation
<1>. DEFINE n == NextValuation
            r == [account |-> t, value |-> value, date |-> date, deleted |-> FALSE]
<1>1. n \in ValuationId /\ valuation' = [valuation EXCEPT ![n] = r]
  BY DEF Value
<1>2. r \in ValuationRow /\ r # NoValuation
  <2>1. value \in Nat
    BY DEF Value
  <2>2. r \in ValuationRow
    BY <2>1 DEF ValuationRow
  <2>. QED  BY <2>2, AbsentAssumption
<1>3. valuation \in Valuations /\ valuation' \in Valuations
  BY <1>1, <1>2 DEF IInv, TypeOK, Valuations
<1>4. PICK k \in Nat : \A v \in ValuationId : Valued(v) <=> v <= k
  BY DEF IInv, Numbered
<1>5. n = k + 1
  BY <1>1, <1>4, NextValuationIs
<1>6. /\ valuation[n] = NoValuation /\ valuation'[n] = r
      /\ \A v \in ValuationId \ {n} : valuation'[v] = valuation[v]
  <2>1. ~(n <= k)
    BY <1>5
  <2>. QED  BY <1>1, <1>3, <1>4, <2>1 DEF Valuations, Valued
<1>7. \A v \in ValuationId : valuation'[v] # NoValuation <=> v <= k + 1
  <2>. TAKE v \in ValuationId
  <2>1. CASE v = n
    BY <2>1, <1>2, <1>5, <1>6
  <2>2. CASE v # n
    <3>1. valuation'[v] = valuation[v] /\ (valuation[v] # NoValuation <=> v <= k)
      BY <2>2, <1>4, <1>6 DEF Valued
    <3>2. v \in Nat /\ v # k + 1
      BY <2>2, <1>5 DEF ValuationId
    <3>. QED  BY <3>1, <3>2
  <2>. QED  BY <2>1, <2>2
<1>8. tracked' = [tracked EXCEPT ![t] = Canonical(valuation', t)] /\ Canonical(valuation', t) \in Nat
  BY <1>3, CanonicalType DEF Value
<1>9. \A u \in Tracked \ {t} : Canonical(valuation', u) = Canonical(valuation, u)
  <2>. TAKE u \in Tracked \ {t}
  <2>1. \A v \in ValuationId :
          \/ valuation'[v] = valuation[v]
          \/ /\ valuation[v] = NoValuation \/ valuation[v].account # u
             /\ valuation'[v].account # u
    BY <1>6 DEF Valued
  <2>. QED  BY <2>1, <1>3, CanonicalKept
<1>10. Materialised'
  BY <1>8, <1>9 DEF IInv, TypeOK, Materialised
<1>11. \A v \in ValuationId :
         valuation[v] # NoValuation => valuation'[v] = valuation[v] /\ v # n
  BY <1>6
<1>12. tracked' \in [Tracked -> Nat]
  BY <1>8 DEF IInv, TypeOK
<1>13. valuation'[n] \in ValuationRow /\ valuation'[n].deleted = FALSE
  BY <1>2, <1>6
<1>14. \E j \in Nat : \A v \in ValuationId : valuation'[v] # NoValuation <=> v <= j
  <2>1. k + 1 \in Nat
    OBVIOUS
  <2>. QED  BY <2>1, <1>7
<1>. QED  BY <1>1, <1>3, <1>6, <1>10, <1>11, <1>12, <1>13, <1>14

\* A restatement keeps the moves.
LEMMA SetValueStep ==
  ASSUME IInv, NEW t \in Tracked, NEW value \in Int, NEW date \in Dates,
         SetValue(t, value, date)
  PROVE  IInv'
<1>1. Value(t, value, date) /\ UNCHANGED <<move, cash>>
  BY DEF SetValue
<1>2. TypeOK'
  BY <1>1, ValueKeeps DEF IInv, TypeOK, Valuations
<1>3. Numbered'
  BY <1>1, ValueKeeps DEF IInv, Numbered, Moved, Valued
<1>4. \A m \in MoveId : Moved(m) =>
        /\ move[m].valuation \in ValuationId /\ Valued(move[m].valuation)
        /\ valuation'[move[m].valuation] = valuation[move[m].valuation]
  BY <1>1, ValueKeeps DEF IInv, Joined, Valued
<1>5. Joined'
  BY <1>1, <1>4 DEF IInv, Joined, Moved, Valued
<1>6. LegsDieTogether'
  BY <1>1, <1>4 DEF IInv, LegsDieTogether, Moved
<1>. QED  BY <1>1, <1>2, <1>3, <1>5, <1>6, ValueKeeps DEF IInv

LEMMA MoveStep ==
  ASSUME IInv, NEW direction \in {"contribution", "redemption"}, NEW c \in Cash,
         NEW t \in Tracked, NEW amount \in Amounts, NEW value \in Int, NEW date \in Dates,
         NEW fee \in Fees \cup {Nothing}, NEW feeAccount \in Cash,
         Move(direction, c, t, amount, value, date, fee, feeAccount)
  PROVE  IInv'
<1>. DEFINE n == NextMove
            r == [direction |-> direction, account |-> c,
                  amount |-> CashDelta(direction, amount),
                  valuation |-> NextValuation, deleted |-> FALSE,
                  transferDeleted |-> FALSE, fee |-> fee,
                  feeAccount |-> feeAccount, feeDeleted |-> FALSE]
<1>1. /\ n \in MoveId /\ Value(t, value, date)
      /\ move' = [move EXCEPT ![n] = r]
      /\ cash' = [a \in Cash |->
                   cash[a] + (IF a = c THEN CashDelta(direction, amount) ELSE 0)
                           - (IF a = feeAccount THEN fee ELSE 0)]
  BY DEF Move
<1>2. CashDelta(direction, amount) \in Int /\ fee \in Int
  BY DEF CashDelta, Nothing
<1>3. r \in MoveRow /\ r # NoMove
  <2>1. NextValuation \in ValuationId
    BY <1>1, ValueKeeps
  <2>2. r \in MoveRow
    BY <1>2, <2>1 DEF MoveRow
  <2>. QED  BY <2>2, AbsentAssumption
<1>4. PICK k \in Nat : \A m \in MoveId : Moved(m) <=> m <= k
  BY DEF IInv, Numbered
<1>5. n = k + 1
  BY <1>1, <1>4, NextMoveIs
<1>6. /\ move[n] = NoMove /\ move'[n] = r
      /\ \A m \in MoveId \ {n} : move'[m] = move[m]
  <2>1. ~(n <= k)
    BY <1>5
  <2>. QED  BY <1>1, <1>4, <2>1 DEF IInv, TypeOK, Moved
<1>7. TypeOK'
  <2>1. cash' \in [Cash -> Int]
    BY <1>1, <1>2 DEF IInv, TypeOK
  <2>2. move' \in [MoveId -> MoveRow \cup {NoMove}]
    BY <1>1, <1>3 DEF IInv, TypeOK
  <2>. QED  BY <2>1, <2>2, <1>1, ValueKeeps DEF TypeOK, Valuations
<1>8. \A m \in MoveId : move'[m] # NoMove <=> m <= k + 1
  <2>. TAKE m \in MoveId
  <2>1. CASE m = n
    BY <2>1, <1>3, <1>5, <1>6
  <2>2. CASE m # n
    <3>1. move'[m] = move[m] /\ (move[m] # NoMove <=> m <= k)
      BY <2>2, <1>4, <1>6 DEF Moved
    <3>2. m \in Nat /\ m # k + 1
      BY <2>2, <1>5 DEF MoveId
    <3>. QED  BY <3>1, <3>2
  <2>. QED  BY <2>1, <2>2
<1>9. Numbered'
  <2>1. k + 1 \in Nat
    OBVIOUS
  <2>2. \E j \in Nat : \A m \in MoveId : move'[m] # NoMove <=> m <= j
    BY <1>8, <2>1
  <2>3. \E j \in Nat : \A v \in ValuationId : valuation'[v] # NoValuation <=> v <= j
    BY <1>1, ValueKeeps
  <2>. QED  BY <2>2, <2>3 DEF Numbered, Moved, Valued
<1>10. \A m \in MoveId \ {n} : move'[m] # NoMove =>
         /\ move[m] # NoMove /\ move'[m] = move[m]
         /\ move[m].valuation \in ValuationId /\ valuation[move[m].valuation] # NoValuation
         /\ valuation'[move[m].valuation] = valuation[move[m].valuation]
         /\ move[m].valuation # NextValuation
  <2>1. \A m \in MoveId : move[m] # NoMove =>
          move[m].valuation \in ValuationId /\ valuation[move[m].valuation] # NoValuation
    BY DEF IInv, Joined, Moved, Valued
  <2>2. \A v \in ValuationId :
          valuation[v] # NoValuation => valuation'[v] = valuation[v] /\ v # NextValuation
    BY <1>1, ValueKeeps
  <2>. QED  BY <2>1, <2>2, <1>6
<1>11. /\ NextValuation \in ValuationId /\ valuation'[NextValuation] # NoValuation
       /\ valuation'[NextValuation].deleted = FALSE
  BY <1>1, ValueKeeps, AbsentAssumption
<1>12. /\ move'[n].valuation = NextValuation
       /\ move'[n].deleted = FALSE /\ move'[n].transferDeleted = FALSE
  BY <1>6
<1>13. Joined'
  <2>1. \A m \in MoveId : move'[m] # NoMove =>
          move'[m].valuation \in ValuationId /\ valuation'[move'[m].valuation] # NoValuation
    BY <1>10, <1>11, <1>12
  <2>2. \A l, m \in MoveId :
          move'[l] # NoMove /\ move'[m] # NoMove /\ move'[l].valuation = move'[m].valuation
            => l = m
    <3>1. \A l, m \in MoveId :
            move[l] # NoMove /\ move[m] # NoMove /\ move[l].valuation = move[m].valuation
              => l = m
      BY DEF IInv, Joined, Moved
    <3>. QED  BY <3>1, <1>10, <1>12
  <2>. QED  BY <2>1, <2>2 DEF Joined, Moved, Valued
<1>14. LegsDieTogether'
  <2>1. \A m \in MoveId : move[m] # NoMove =>
          /\ move[m].deleted = move[m].transferDeleted
          /\ move[m].deleted = valuation[move[m].valuation].deleted
    BY DEF IInv, LegsDieTogether, Moved
  <2>2. \A m \in MoveId : move'[m] # NoMove =>
          /\ move'[m].deleted = move'[m].transferDeleted
          /\ move'[m].deleted = valuation'[move'[m].valuation].deleted
    <3>. TAKE m \in MoveId
    <3>1. CASE m = n
      BY <3>1, <1>11, <1>12
    <3>2. CASE m # n
      BY <3>2, <2>1, <1>10
    <3>. QED  BY <3>1, <3>2
  <2>. QED  BY <2>2 DEF LegsDieTogether, Moved
<1>. QED  BY <1>1, <1>7, <1>9, <1>13, <1>14, ValueKeeps DEF IInv

LEMMA DeleteMoveStep ==
  ASSUME IInv, NEW m \in MoveId, DeleteMove(m)
  PROVE  IInv'
<1>. DEFINE v == move[m].valuation
            u == valuation[v].account
<1>1. /\ Moved(m) /\ cash' = [cash EXCEPT ![move[m].account] = @ - move[m].amount]
      /\ valuation' = [valuation EXCEPT ![v].deleted = TRUE]
      /\ move' = [move EXCEPT ![m].deleted = TRUE, ![m].transferDeleted = TRUE]
      /\ tracked' = [tracked EXCEPT ![u] = Canonical(valuation', u)]
  BY DEF DeleteMove, CashWithout, TombstoneValuation
<1>2. /\ move \in [MoveId -> MoveRow \cup {NoMove}] /\ move[m] \in MoveRow
      /\ v \in ValuationId /\ Valued(v) /\ valuation[v] \in ValuationRow
      /\ valuation \in Valuations
  BY <1>1 DEF IInv, TypeOK, Joined, Moved, Valued, Valuations
<1>3. /\ u \in Tracked /\ move[m].account \in Cash /\ move[m].amount \in Int
  BY <1>2 DEF ValuationRow, MoveRow
<1>4. [valuation[v] EXCEPT !.deleted = TRUE] \in ValuationRow
  BY <1>2 DEF ValuationRow
<1>5. [move[m] EXCEPT !.deleted = TRUE, !.transferDeleted = TRUE] \in MoveRow
  BY <1>2 DEF MoveRow
<1>6. /\ valuation' \in Valuations
      /\ valuation'[v] = [valuation[v] EXCEPT !.deleted = TRUE]
      /\ \A w \in ValuationId \ {v} : valuation'[w] = valuation[w]
  BY <1>1, <1>2, <1>4 DEF Valuations
<1>7. /\ move' \in [MoveId -> MoveRow \cup {NoMove}]
      /\ move'[m] = [move[m] EXCEPT !.deleted = TRUE, !.transferDeleted = TRUE]
      /\ \A k \in MoveId \ {m} : move'[k] = move[k]
  BY <1>1, <1>2, <1>5
<1>8. Canonical(valuation', u) \in Nat
  BY <1>3, <1>6, CanonicalType
<1>9. TypeOK'
  <2>1. cash' \in [Cash -> Int]
    <3>1. cash \in [Cash -> Int]
      BY DEF IInv, TypeOK
    <3>. QED  BY <3>1, <1>1, <1>3
  <2>2. tracked' \in [Tracked -> Nat]
    <3>1. tracked \in [Tracked -> Nat]
      BY DEF IInv, TypeOK
    <3>. QED  BY <3>1, <1>1, <1>8
  <2>. QED  BY <2>1, <2>2, <1>6, <1>7 DEF TypeOK, Valuations
<1>10. \A w \in ValuationId : valuation'[w] # NoValuation <=> valuation[w] # NoValuation
  BY <1>2, <1>4, <1>6, AbsentAssumption
<1>11. \A k \in MoveId : /\ move'[k] # NoMove <=> move[k] # NoMove
                         /\ move[k] # NoMove => move'[k].valuation = move[k].valuation
  <2>1. move'[m].valuation = move[m].valuation
    BY <1>2, <1>7 DEF MoveRow
  <2>. QED  BY <2>1, <1>2, <1>5, <1>7, AbsentAssumption
<1>12. Numbered'
  BY <1>10, <1>11 DEF IInv, Numbered, Valued, Moved
<1>13. Joined'
  <2>1. \A k \in MoveId : move'[k] # NoMove =>
          move'[k].valuation \in ValuationId /\ valuation'[move'[k].valuation] # NoValuation
    BY <1>10, <1>11 DEF IInv, Joined, Valued, Moved
  <2>2. \A k, l \in MoveId :
          move'[k] # NoMove /\ move'[l] # NoMove /\ move'[k].valuation = move'[l].valuation
            => k = l
    BY <1>11 DEF IInv, Joined, Moved
  <2>. QED  BY <2>1, <2>2 DEF Joined, Valued, Moved
<1>14. LegsDieTogether'
  <2>. SUFFICES ASSUME NEW k \in MoveId, move[k] # NoMove
                PROVE  /\ move'[k].deleted = move'[k].transferDeleted
                       /\ move'[k].deleted = valuation'[move'[k].valuation].deleted
    BY <1>11 DEF LegsDieTogether, Moved
  <2>1. CASE k = m
    BY <2>1, <1>2, <1>6, <1>7 DEF MoveRow, ValuationRow
  <2>2. CASE k # m
    <3>1. move[k].valuation # v /\ move[k].valuation \in ValuationId
      BY <2>2, <1>1 DEF IInv, Joined, Moved
    <3>. QED  BY <3>1, <2>2, <1>6, <1>7 DEF IInv, LegsDieTogether, Moved
  <2>. QED  BY <2>1, <2>2
<1>15. Materialised'
  <2>1. \A t \in Tracked \ {u} : Canonical(valuation', t) = Canonical(valuation, t)
    <3>. TAKE t \in Tracked \ {u}
    <3>1. valuation[v].account # t /\ valuation'[v].account # t
      BY <1>2, <1>6 DEF ValuationRow
    <3>2. \A w \in ValuationId :
            \/ valuation'[w] = valuation[w]
            \/ /\ valuation[w] = NoValuation \/ valuation[w].account # t
               /\ valuation'[w].account # t
      BY <3>1, <1>6
    <3>. QED  BY <3>2, <1>2, <1>6, CanonicalKept
  <2>. QED  BY <2>1, <1>1 DEF IInv, TypeOK, Materialised
<1>. QED  BY <1>9, <1>12, <1>13, <1>14, <1>15 DEF IInv

LEMMA DeleteFeeStep ==
  ASSUME IInv, NEW m \in MoveId, DeleteFee(m)
  PROVE  IInv'
<1>1. /\ Moved(m) /\ cash' = [cash EXCEPT ![move[m].feeAccount] = @ + move[m].fee]
      /\ move' = [move EXCEPT ![m].feeDeleted = TRUE] /\ UNCHANGED <<valuation, tracked>>
  BY DEF DeleteFee
<1>2. move \in [MoveId -> MoveRow \cup {NoMove}] /\ move[m] \in MoveRow
  BY <1>1 DEF IInv, TypeOK, Moved
<1>3. /\ [move[m] EXCEPT !.feeDeleted = TRUE] \in MoveRow
      /\ move[m].fee \in Int /\ move[m].feeAccount \in Cash
  <2>1. move[m].fee \in Fees \cup {Nothing} /\ move[m].feeAccount \in Cash
    BY <1>2 DEF MoveRow
  <2>2. move[m].fee \in Int
    <3>1. Fees \subseteq Int /\ Nothing \in Int
      BY DEF Nothing
    <3>. QED  BY <2>1, <3>1
  <2>3. [move[m] EXCEPT !.feeDeleted = TRUE] \in MoveRow
    BY <1>2 DEF MoveRow
  <2>. QED  BY <2>1, <2>2, <2>3
<1>4. /\ move' \in [MoveId -> MoveRow \cup {NoMove}]
      /\ \A k \in MoveId : move'[k] # NoMove <=> move[k] # NoMove
  BY <1>1, <1>2, <1>3, AbsentAssumption
<1>5. \A k \in MoveId : move[k] # NoMove =>
        /\ move'[k].valuation = move[k].valuation
        /\ move'[k].deleted = move[k].deleted
        /\ move'[k].transferDeleted = move[k].transferDeleted
  BY <1>1, <1>2 DEF MoveRow
<1>6. TypeOK'
  <2>1. cash \in [Cash -> Int]
    BY DEF IInv, TypeOK
  <2>2. cash' \in [Cash -> Int]
    BY <2>1, <1>1, <1>3
  <2>. QED  BY <2>2, <1>1, <1>4 DEF IInv, TypeOK
<1>7. Numbered' /\ Joined' /\ LegsDieTogether'
  BY <1>1, <1>4, <1>5 DEF IInv, Numbered, Joined, LegsDieTogether, Valued, Moved
<1>8. Materialised'
  BY <1>1 DEF IInv, Materialised
<1>. QED  BY <1>6, <1>7, <1>8 DEF IInv

LEMMA RebuildStep ==
  ASSUME IInv, NEW t \in Tracked, Rebuild(t)
  PROVE  IInv'
<1>1. tracked' = [tracked EXCEPT ![t] = Canonical(valuation, t)] /\ UNCHANGED <<valuation, move, cash>>
  BY DEF Rebuild
<1>2. tracked' = tracked
  BY <1>1 DEF IInv, TypeOK, Materialised
<1>. QED  BY <1>1, <1>2 DEF IInv, TypeOK, Numbered, Joined, LegsDieTogether, Materialised, Valued, Moved

-----------------------------------------------------------------------------
LEMMA InitIInv == Init => IInv
<1>. SUFFICES ASSUME Init PROVE IInv
  OBVIOUS
<1>1. TypeOK
  BY DEF Init, TypeOK
<1>2. \A v \in ValuationId : ~Valued(v)
  BY DEF Init, Valued
<1>3. \A m \in MoveId : ~Moved(m)
  BY DEF Init, Moved
<1>4. Numbered
  BY <1>2, <1>3 DEF Numbered, ValuationId, MoveId
<1>5. Joined /\ LegsDieTogether
  BY <1>3 DEF Joined, LegsDieTogether
<1>6. Materialised
  <2>. SUFFICES ASSUME NEW t \in Tracked PROVE tracked[t] = Canonical(valuation, t)
    BY DEF Materialised
  <2>1. LiveOf(valuation, t) = {OpeningId}
    BY <1>2 DEF LiveOf, Valued
  <2>2. Latest(valuation, t) = OpeningId
    BY <1>1, <2>1, LatestIs DEF TypeOK, Valuations
  <2>. QED  BY <2>2 DEF Canonical, ValueIn, Init
<1>. QED  BY <1>1, <1>4, <1>5, <1>6 DEF IInv

LEMMA NextIInv == IInv /\ [Next]_vars => IInv'
<1>. SUFFICES ASSUME IInv, [Next]_vars PROVE IInv'
  OBVIOUS
<1>1. ASSUME NEW t \in Tracked, NEW value \in Values, NEW date \in Dates, SetValue(t, value, date)
      PROVE  IInv'
  BY <1>1, SetValueStep
<1>2. ASSUME NEW direction \in {"contribution", "redemption"}, NEW c \in Cash, NEW feeAccount \in Cash,
             NEW t \in Tracked, NEW amount \in Amounts, NEW date \in Dates,
             NEW fee \in Fees \cup {Nothing},
             \/ MovePrefilled(direction, c, t, amount, date, fee, feeAccount)
             \/ \E value \in Values : Move(direction, c, t, amount, value, date, fee, feeAccount)
      PROVE  IInv'
  <2>1. Prefill(t, direction, amount) \in Int
    BY CanonicalType DEF Prefill, IInv, TypeOK, Valuations
  <2>. QED  BY <1>2, <2>1, MoveStep DEF MovePrefilled
<1>3. ASSUME NEW m \in MoveId, DeleteMove(m) PROVE IInv'
  BY <1>3, DeleteMoveStep
<1>4. ASSUME NEW m \in MoveId, DeleteFee(m) PROVE IInv'
  BY <1>4, DeleteFeeStep
<1>5. ASSUME NEW t \in Tracked, Rebuild(t) PROVE IInv'
  BY <1>5, RebuildStep
<1>6. CASE UNCHANGED vars
  BY <1>6 DEF vars, IInv, TypeOK, Numbered, Joined, LegsDieTogether, Materialised, Valued, Moved
<1>. QED  BY <1>1, <1>2, <1>3, <1>4, <1>5, <1>6 DEF Next

\* All parts of the invariant hold in every state the handlers can reach.
THEOREM Invariance == Spec => []IInv
BY InitIInv, NextIInv, PTL DEF Spec

\* The tables keep their types: valuations and tracked balances are never
\* negative, whatever the prefill computes.
THEOREM TypeCorrect == Spec => []TypeOK
<1>1. IInv => TypeOK
  BY DEF IInv
<1>. QED  BY <1>1, Invariance, PTL

\* ADR-0048: the cash leg, the valuation and the Transfer row die together,
\* since no other move is joined to the valuation a delete tombstones.
THEOREM LegsTogether == Spec => []LegsDieTogether
<1>1. IInv => LegsDieTogether
  BY DEF IInv
<1>. QED  BY <1>1, Invariance, PTL

\* A tracked account always shows the value of its newest live valuation,
\* back-dated moves and deletes of the newest included.
THEOREM NewestIsShown == Spec => []TrackedFollowsNewest
<1>1. IInv => TrackedFollowsNewest
  <2>. SUFFICES ASSUME IInv, NEW t \in Tracked
                PROVE  \E v \in LiveOf(valuation, t) :
                         /\ tracked[t] = ValueIn(valuation, t, v)
                         /\ \A w \in LiveOf(valuation, t) :
                              /\ DateIn(valuation, t, w) <= DateIn(valuation, t, v)
                              /\ DateIn(valuation, t, w) = DateIn(valuation, t, v) => w <= v
    BY DEF TrackedFollowsNewest
  <2>. DEFINE v == Latest(valuation, t)
  <2>1. valuation \in Valuations
    BY DEF IInv, TypeOK, Valuations
  <2>2. v \in LiveOf(valuation, t) /\ tracked[t] = ValueIn(valuation, t, v)
    BY <2>1, LatestIs DEF IInv, Materialised, Canonical
  <2>3. \A w \in LiveOf(valuation, t) :
          /\ w \in Int /\ DateIn(valuation, t, w) \in Int
          /\ w = v \/ Below(valuation, t, w, v)
    BY <2>1, LatestIs, LiveType
  <2>4. \A w \in LiveOf(valuation, t) :
          /\ DateIn(valuation, t, w) <= DateIn(valuation, t, v)
          /\ DateIn(valuation, t, w) = DateIn(valuation, t, v) => w <= v
    BY <2>2, <2>3 DEF Below
  <2>. QED  BY <2>2, <2>4
<1>. QED  BY <1>1, Invariance, PTL

-----------------------------------------------------------------------------
(* The cash side.  Each move has a share in the balance of an account, its  *)
(* live cash leg less its live fee, and a step changes the share of one.    *)

Leg(c) == [m \in MoveId |->
             IF Moved(m) THEN IF move[m].account = c /\ ~move[m].deleted
                              THEN move[m].amount ELSE 0 ELSE 0]
Charge(c) == [m \in MoveId |->
                IF Moved(m) THEN IF move[m].feeAccount = c /\ ~move[m].feeDeleted
                                 THEN move[m].fee ELSE 0 ELSE 0]

Booked == \A c \in Cash : cash[c] = SumOn(Leg(c), MoveId) - SumOn(Charge(c), MoveId)

LEMMA MovesFinite == IsFiniteSet(MoveId)
BY FS_Interval DEF MoveId

LEMMA ShareType ==
  ASSUME TypeOK, NEW c \in Cash, NEW m \in MoveId
  PROVE  Leg(c)[m] \in Int /\ Charge(c)[m] \in Int
<1>1. Moved(m) => move[m] \in MoveRow
  BY DEF TypeOK, Moved
<1>2. Moved(m) => move[m].amount \in Int /\ move[m].fee \in Int
  <2>1. Fees \cup {Nothing} \subseteq Int
    BY DEF Nothing
  <2>. QED  BY <1>1, <2>1 DEF MoveRow
<1>. QED  BY <1>2 DEF Leg, Charge

LEMMA OneShareChanges ==
  ASSUME TypeOK, TypeOK', Booked, NEW m \in MoveId,
         \A k \in MoveId \ {m} : move'[k] = move[k],
         \A c \in Cash :
           cash'[c] = cash[c] - Leg(c)[m] + Leg(c)'[m] + Charge(c)[m] - Charge(c)'[m]
  PROVE  Booked'
<1>1. SUFFICES ASSUME NEW c \in Cash
               PROVE  cash'[c] = SumOn(Leg(c)', MoveId) - SumOn(Charge(c)', MoveId)
  BY DEF Booked
<1>2. PICK f, g, d, e : f = Leg(c) /\ g = Leg(c)' /\ d = Charge(c) /\ e = Charge(c)'
  OBVIOUS
<1>3. \A k \in MoveId : f[k] \in Int /\ d[k] \in Int
  BY <1>2, ShareType
<1>4. g[m] \in Int /\ e[m] \in Int
  <2>1. (Leg(c)[m] \in Int /\ Charge(c)[m] \in Int)'
    BY ShareType, PTL
  <2>. QED  BY <1>2, <2>1
<1>5. \A k \in MoveId \ {m} : g[k] = f[k] /\ e[k] = d[k]
  BY <1>2 DEF Leg, Charge, Moved
<1>6. /\ SumOn(g, MoveId) = SumOn(f, MoveId) - f[m] + g[m]
      /\ SumOn(e, MoveId) = SumOn(d, MoveId) - d[m] + e[m]
  BY <1>3, <1>4, <1>5, MovesFinite, SumUpdate
<1>7. SumOn(f, MoveId) \in Int /\ SumOn(d, MoveId) \in Int
  BY <1>3, MovesFinite, SumType
<1>8. /\ cash[c] = SumOn(f, MoveId) - SumOn(d, MoveId)
      /\ cash'[c] = cash[c] - f[m] + g[m] + d[m] - e[m]
  BY <1>2 DEF Booked
<1>. QED  BY <1>2, <1>3, <1>4, <1>6, <1>7, <1>8

LEMMA MoveBooks ==
  ASSUME IInv, TypeOK', Booked, NEW direction \in {"contribution", "redemption"},
         NEW c \in Cash, NEW t, NEW amount \in Amounts, NEW value, NEW date, NEW fee \in Fees \cup {Nothing}, NEW feeAccount \in Cash,
         Move(direction, c, t, amount, value, date, fee, feeAccount)
  PROVE  Booked'
<1>. DEFINE n == NextMove
            delta == CashDelta(direction, amount)
            r == [direction |-> direction, account |-> c, amount |-> delta,
                  valuation |-> NextValuation, deleted |-> FALSE,
                  transferDeleted |-> FALSE, fee |-> fee,
                  feeAccount |-> feeAccount, feeDeleted |-> FALSE]
<1>1. /\ n \in MoveId /\ move' = [move EXCEPT ![n] = r]
      /\ \A a \in Cash : cash'[a] = cash[a] + (IF a = c THEN delta ELSE 0)
                                           - (IF a = feeAccount THEN fee ELSE 0)
  BY DEF Move
<1>2. TypeOK /\ delta \in Int /\ fee \in Int /\ \A a \in Cash : cash[a] \in Int
  BY DEF IInv, TypeOK, CashDelta, Nothing
<1>3. PICK k \in Nat : \A m \in MoveId : Moved(m) <=> m <= k
  BY DEF IInv, Numbered
<1>4. n = k + 1
  BY <1>1, <1>3, NextMoveIs
<1>. HIDE DEF n, delta
<1>5. ~Moved(n) /\ move'[n] = r /\ \A m \in MoveId \ {n} : move'[m] = move[m]
  BY <1>1, <1>2, <1>3, <1>4 DEF TypeOK
<1>6. r \in MoveRow /\ move'[n] # NoMove
  <2>1. move'[n] # NoMove \/ r = NoMove
    BY <1>5
  <2>2. move'[n] \in MoveRow \cup {NoMove}
    BY <1>1 DEF TypeOK
  <2>3. r # NoMove
    <3>1. NextValuation \in ValuationId
      BY DEF Move, Value
    <3>2. r \in MoveRow
      BY <1>2, <3>1 DEF MoveRow
    <3>. QED  BY <3>2, AbsentAssumption
  <2>. QED  BY <1>5, <2>1, <2>2, <2>3
<1>7. ASSUME NEW a \in Cash
      PROVE  cash'[a] = cash[a] - Leg(a)[n] + Leg(a)'[n] + Charge(a)[n] - Charge(a)'[n]
  <2>1. Leg(a)[n] = 0 /\ Charge(a)[n] = 0
    BY <1>1, <1>5 DEF Leg, Charge
  <2>2. /\ Leg(a)'[n] = IF a = c THEN delta ELSE 0
        /\ Charge(a)'[n] = IF a = feeAccount THEN fee ELSE 0
    BY <1>1, <1>5, <1>6 DEF Leg, Charge, Moved
  <2>. QED  BY <1>1, <1>2, <2>1, <2>2
<1>. QED  BY <1>1, <1>2, <1>5, <1>7, OneShareChanges

LEMMA DeleteMoveBooks ==
  ASSUME IInv, TypeOK', Booked, NEW m \in MoveId, DeleteMove(m)
  PROVE  Booked'
<1>1. /\ Moved(m) /\ ~move[m].deleted
      /\ cash' = [cash EXCEPT ![move[m].account] = @ - move[m].amount]
      /\ move' = [move EXCEPT ![m].deleted = TRUE, ![m].transferDeleted = TRUE]
  BY DEF DeleteMove, CashWithout
<1>2. TypeOK /\ move[m] \in MoveRow /\ \A a \in Cash : cash[a] \in Int
  BY <1>1 DEF IInv, TypeOK, Moved
<1>3. /\ move'[m] = [move[m] EXCEPT !.deleted = TRUE, !.transferDeleted = TRUE]
      /\ \A k \in MoveId \ {m} : move'[k] = move[k]
  BY <1>1, <1>2 DEF TypeOK
<1>4. /\ move'[m].deleted /\ move'[m].account = move[m].account
      /\ move'[m].fee = move[m].fee /\ move'[m].feeAccount = move[m].feeAccount
      /\ move'[m].feeDeleted = move[m].feeDeleted /\ move'[m] \in MoveRow
  BY <1>2, <1>3 DEF MoveRow
<1>5. ASSUME NEW a \in Cash
      PROVE  cash'[a] = cash[a] - Leg(a)[m] + Leg(a)'[m] + Charge(a)[m] - Charge(a)'[m]
  <2>1. /\ Leg(a)[m] = IF move[m].account = a THEN move[m].amount ELSE 0
        /\ Leg(a)'[m] = 0
    BY <1>1, <1>4, AbsentAssumption DEF Leg, Moved
  <2>2. Charge(a)'[m] = Charge(a)[m] /\ Charge(a)[m] \in Int /\ Leg(a)[m] \in Int
    BY <1>1, <1>2, <1>4, ShareType, AbsentAssumption DEF Charge, Moved
  <2>3. cash'[a] = IF move[m].account = a THEN cash[a] - move[m].amount ELSE cash[a]
    BY <1>1, <1>2 DEF TypeOK
  <2>. QED  BY <1>2, <2>1, <2>2, <2>3
<1>. QED  BY <1>2, <1>3, <1>5, OneShareChanges

LEMMA DeleteFeeBooks ==
  ASSUME IInv, TypeOK', Booked, NEW m \in MoveId, DeleteFee(m)
  PROVE  Booked'
<1>1. /\ Moved(m) /\ ~move[m].feeDeleted
      /\ cash' = [cash EXCEPT ![move[m].feeAccount] = @ + move[m].fee]
      /\ move' = [move EXCEPT ![m].feeDeleted = TRUE]
  BY DEF DeleteFee
<1>2. TypeOK /\ move[m] \in MoveRow /\ \A a \in Cash : cash[a] \in Int
  BY <1>1 DEF IInv, TypeOK, Moved
<1>3. /\ move'[m] = [move[m] EXCEPT !.feeDeleted = TRUE]
      /\ \A k \in MoveId \ {m} : move'[k] = move[k]
  BY <1>1, <1>2 DEF TypeOK
<1>4. /\ move'[m].feeDeleted /\ move'[m].account = move[m].account
      /\ move'[m].amount = move[m].amount /\ move'[m].deleted = move[m].deleted
      /\ move'[m] \in MoveRow
  BY <1>2, <1>3 DEF MoveRow
<1>5. ASSUME NEW a \in Cash
      PROVE  cash'[a] = cash[a] - Leg(a)[m] + Leg(a)'[m] + Charge(a)[m] - Charge(a)'[m]
  <2>1. /\ Charge(a)[m] = IF move[m].feeAccount = a THEN move[m].fee ELSE 0
        /\ Charge(a)'[m] = 0
    BY <1>1, <1>4, AbsentAssumption DEF Charge, Moved
  <2>2. Leg(a)'[m] = Leg(a)[m] /\ Charge(a)[m] \in Int /\ Leg(a)[m] \in Int
    BY <1>1, <1>2, <1>4, ShareType, AbsentAssumption DEF Leg, Moved
  <2>3. cash'[a] = IF move[m].feeAccount = a THEN cash[a] + move[m].fee ELSE cash[a]
    BY <1>1, <1>2 DEF TypeOK
  <2>. QED  BY <1>2, <2>1, <2>2, <2>3
<1>. QED  BY <1>2, <1>3, <1>5, OneShareChanges

LEMMA BooksStep == IInv /\ IInv' /\ Booked /\ [Next]_vars => Booked'
<1>. SUFFICES ASSUME IInv, TypeOK', Booked, [Next]_vars PROVE Booked'
  BY DEF IInv
<1>1. CASE UNCHANGED <<move, cash>>
  BY <1>1 DEF Booked, Leg, Charge, Moved
<1>2. ASSUME NEW direction \in {"contribution", "redemption"}, NEW c \in Cash, NEW feeAccount \in Cash,
             NEW t \in Tracked, NEW amount \in Amounts, NEW date \in Dates,
             NEW fee \in Fees \cup {Nothing}, NEW value,
             Move(direction, c, t, amount, value, date, fee, feeAccount)
      PROVE  Booked'
  BY <1>2, MoveBooks
<1>3. ASSUME NEW m \in MoveId, DeleteMove(m) PROVE Booked'
  BY <1>3, DeleteMoveBooks
<1>4. ASSUME NEW m \in MoveId, DeleteFee(m) PROVE Booked'
  BY <1>4, DeleteFeeBooks
<1>. QED  BY <1>1, <1>2, <1>3, <1>4 DEF Next, MovePrefilled, SetValue, Rebuild, vars

\* The balance of a cash account is what its live cash legs and fees add up to,
\* whatever order moves, fees and deletes come in: a leg or a fee is counted once
\* while it is alive and not after.
THEOREM CashAddsUp == Spec => []CashIsSumOfLiveRows
<1>1. Init => Booked
  <2>1. ASSUME Init, NEW c \in Cash
        PROVE  cash[c] = SumOn(Leg(c), MoveId) - SumOn(Charge(c), MoveId)
    <3>1. \A m \in MoveId : Leg(c)[m] = 0 /\ Charge(c)[m] = 0
      BY <2>1 DEF Init, Leg, Charge, Moved
    <3>2. SumOn(Leg(c), MoveId) = 0 /\ SumOn(Charge(c), MoveId) = 0
      BY <3>1, MovesFinite, SumZero
    <3>. QED  BY <2>1, <3>2 DEF Init
  <2>. QED  BY <2>1 DEF Booked
<1>2. Spec => []Booked
  BY <1>1, BooksStep, Invariance, PTL DEF Spec
<1>3. TypeOK /\ Booked => CashIsSumOfLiveRows
  <2>1. ASSUME TypeOK, Booked, NEW c \in Cash
        PROVE  cash[c] =
                 MapThenSumSet(LAMBDA m : move[m].amount,
                   {m \in MoveId : Moved(m) /\ move[m].account = c /\ ~move[m].deleted})
                 - MapThenSumSet(LAMBDA m : move[m].fee,
                   {m \in MoveId : Moved(m) /\ move[m].feeAccount = c /\ ~move[m].feeDeleted})
    <3>. DEFINE L == {m \in MoveId : Moved(m) /\ move[m].account = c /\ ~move[m].deleted}
                F == {m \in MoveId : Moved(m) /\ move[m].feeAccount = c /\ ~move[m].feeDeleted}
                amount == [m \in L |-> move[m].amount]
                fee == [m \in F |-> move[m].fee]
    <3>1. /\ L \in SUBSET MoveId /\ F \in SUBSET MoveId /\ IsFiniteSet(L) /\ IsFiniteSet(F)
          /\ \A m \in MoveId : Leg(c)[m] \in Int /\ Charge(c)[m] \in Int
      BY <2>1, ShareType, MovesFinite, FS_Subset
    <3>2. /\ \A m \in MoveId \ L : Leg(c)[m] = 0
          /\ \A m \in MoveId \ F : Charge(c)[m] = 0
          /\ \A m \in L : Leg(c)[m] = amount[m]
          /\ \A m \in F : Charge(c)[m] = fee[m]
      BY DEF Leg, Charge
    <3>. HIDE DEF amount, fee, L, F
    <3>3. SumOn(Leg(c), MoveId) = SumOn(amount, L)
      BY <3>1, <3>2, MovesFinite, SumSupport, SumSame
    <3>4. SumOn(Charge(c), MoveId) = SumOn(fee, F)
      BY <3>1, <3>2, MovesFinite, SumSupport, SumSame
    <3>5. SumOn(amount, L) = MapThenSumSet(LAMBDA m : move[m].amount, L)
      BY DEF amount, SumOn, MapThenSumSet, MapThenFoldSet
    <3>6. SumOn(fee, F) = MapThenSumSet(LAMBDA m : move[m].fee, F)
      BY DEF fee, SumOn, MapThenSumSet, MapThenFoldSet
    <3>. QED  BY <2>1, <3>3, <3>4, <3>5, <3>6 DEF Booked, L, F
  <2>. QED  BY <2>1 DEF CashIsSumOfLiveRows
<1>. QED  BY <1>2, <1>3, TypeCorrect, PTL

HIDE LinkedAssumption

-----------------------------------------------------------------------------
(* Anchors: the balance of a cash account that is stored, and the one that *)
(* is recomputed.  Nothing in it is about tracked accounts.                *)

Rowed(rows) == rows \in [RowId -> CashRow \cup {NoRow}]

\* The anchors of the account: the opening is dated today or earlier, and no two
\* were created by one transaction.
Chained(ancs) ==
  /\ ancs \in [AnchorId -> AnchorRow \cup {NoAnchor}]
  /\ ancs[0] # NoAnchor /\ ancs[0].day = 0
  /\ \A a, b \in AnchorsOf(ancs) : ancs[a].created = ancs[b].created => a = b

\* The ids that are used are the first ones.
Filled ==
  /\ \E k \in 0..MaxRows : \A r \in RowId : row[r] # NoRow <=> r <= k
  /\ \E k \in 0..MaxAnchors : \A a \in AnchorId : anchor[a] # NoAnchor <=> a <= k

\* Every transaction has a stamp of its own.
Stamped ==
  /\ \A a \in AnchorsOf(anchor) : anchor[a].created < clock
  /\ \A s \in Slots : flight[s] # Idle =>
       /\ flight[s].stamp < clock /\ flight[s].asOf <= today
       /\ \A a \in AnchorsOf(anchor) : anchor[a].created # flight[s].stamp
       /\ \A t \in Slots : flight[t] # Idle /\ flight[t].stamp = flight[s].stamp => s = t

AnchorOf(tx) == [day |-> tx.day, value |-> tx.value, created |-> tx.stamp]

\* What transaction tx has read is as it was, as far as it has not been told.
AsRead(tx) ==
  ~tx.accountStale =>
    /\ tx.seen = stored
    /\ tx.op \in {"create", "edit"} => tx.time \in Times /\ tx.amount \in Deltas
    /\ tx.op \in {"delete", "edit"} => tx.id \in LiveRows(row)
    /\ ~tx.anchorStale /\ tx.asOf = today =>
         /\ tx.op = "reconcile" =>
              tx.target = CanonicalBalance(row, [anchor EXCEPT ![FreeAnchor] = AnchorOf(tx)])
         /\ tx.op = "rebuild" => tx.target = CanonicalBalance(row, anchor)

AnchorsInv ==
  /\ AnchorsTypeOK /\ Chained(anchor) /\ Filled /\ Stamped
  /\ \A s \in Slots : flight[s] # Idle => AsRead(flight[s])

LEMMA AnchorsGiven ==
  /\ Days \subseteq Nat /\ 0 \in Days /\ Times \subseteq Nat
  /\ Deltas \subseteq Int /\ Asserted \subseteq Int
  /\ MaxRows \in Nat /\ MaxAnchors \in Nat /\ MaxBegins \in Nat
BY AnchorsAssumption

LEMMA AnchorsAbsent == NoRow \notin CashRow /\ NoAnchor \notin AnchorRow /\ Idle \notin OpenTx
BY AnchorsAssumption

LEMMA AnchorType ==
  ASSUME NEW a \in AnchorRow
  PROVE  a.value \in Int /\ a.day \in Nat /\ a.created \in Nat /\ a.created <= MaxBegins
<1>1. a.value \in Asserted \cup {0} /\ a.day \in Days /\ a.created \in 0..MaxBegins
  BY DEF AnchorRow
<1>2. a.value \in Int
  <2>1. Asserted \cup {0} \subseteq Int
    BY AnchorsGiven
  <2>. QED  BY <1>1, <2>1, Zenon
<1>3. a.day \in Nat
  BY <1>1, AnchorsGiven
<1>4. a.created \in Nat /\ a.created <= MaxBegins
  BY <1>1, AnchorsGiven
<1>. QED  BY <1>2, <1>3, <1>4

-----------------------------------------------------------------------------
(* The balance that an anchor and some rows stand for. *)

\* What each row adds to anchor a.
Counts(rows, a) ==
  [r \in RowId |-> IF r \in LiveRows(rows) /\ AfterAnchor(rows[r], a) THEN rows[r].amount ELSE 0]

Stands(rows, a) == a.value + SumOn(Counts(rows, a), RowId)

LEMMA RowsFinite == IsFiniteSet(RowId)
BY AnchorsGiven, FS_Interval DEF RowId

LEMMA RowType ==
  ASSUME NEW rows, Rowed(rows), NEW r \in LiveRows(rows)
  PROVE  r \in RowId /\ rows[r] \in CashRow /\ rows[r] # NoRow /\ ~rows[r].deleted
BY AnchorsGiven DEF Rowed, LiveRows

LEMMA LiveIs ==
  ASSUME NEW rows, Rowed(rows), NEW r \in RowId
  PROVE  r \in LiveRows(rows) <=> rows[r] # NoRow /\ ~rows[r].deleted
BY DEF LiveRows

LEMMA CountsType ==
  ASSUME NEW rows, Rowed(rows), NEW a, NEW r \in RowId
  PROVE  Counts(rows, a)[r] \in Int
<1>1. r \in LiveRows(rows) => rows[r].amount \in Int
  BY RowType, AnchorsGiven DEF CashRow
<1>. QED  BY <1>1 DEF Counts

LEMMA FlowIs ==
  ASSUME NEW rows, Rowed(rows), NEW a
  PROVE  a.value + Flow(rows, {r \in LiveRows(rows) : AfterAnchor(rows[r], a)}) = Stands(rows, a)
<1>. DEFINE S == {r \in LiveRows(rows) : AfterAnchor(rows[r], a)}
            amount == [r \in S |-> rows[r].amount]
            f == Counts(rows, a)
<1>1. S \in SUBSET RowId /\ IsFiniteSet(S)
  BY RowsFinite, FS_Subset DEF LiveRows
<1>2. /\ \A r \in S : f[r] = amount[r] /\ f[r] \in Int
      /\ \A r \in RowId \ S : f[r] = 0
  BY <1>1, CountsType DEF Counts
<1>3. SumOn(f, RowId) = SumOn(f, S)
  BY <1>1, <1>2, RowsFinite, SumSupport
<1>4. SumOn(f, S) = SumOn(amount, S)
  BY <1>1, <1>2, SumSame
<1>5. SumOn(amount, S) = Flow(rows, S)
  BY DEF amount, Flow, SumOn, MapThenSumSet, MapThenFoldSet
<1>. QED  BY <1>3, <1>4, <1>5 DEF Stands

LEMMA StandsType ==
  ASSUME NEW rows, Rowed(rows), NEW a \in AnchorRow
  PROVE  Stands(rows, a) \in Int
<1>1. SumOn(Counts(rows, a), RowId) \in Int
  BY CountsType, RowsFinite, SumType
<1>2. a.value \in Int
  BY AnchorType
<1>. QED  BY <1>1, <1>2 DEF Stands

\* A row that changes moves the balance by what it now counts.
LEMMA StandsMoves ==
  ASSUME NEW rows, Rowed(rows), NEW new, Rowed(new), NEW r \in RowId,
         \A q \in RowId \ {r} : new[q] = rows[q], NEW a \in AnchorRow
  PROVE  Stands(new, a) = Stands(rows, a) - Counts(rows, a)[r] + Counts(new, a)[r]
<1>. DEFINE f == Counts(rows, a)
            g == Counts(new, a)
<1>1. \A q \in RowId : f[q] \in Int /\ g[q] \in Int
  BY CountsType
<1>2. \A q \in RowId \ {r} : g[q] = f[q]
  BY DEF Counts, LiveRows
<1>3. SumOn(g, RowId) = SumOn(f, RowId) - f[r] + g[r]
  <2>. HIDE DEF f, g
  <2>. QED  BY <1>1, <1>2, RowsFinite, SumUpdate
<1>4. SumOn(f, RowId) \in Int
  BY <1>1, RowsFinite, SumType
<1>5. a.value \in Int
  BY AnchorType
<1>. QED  BY <1>1, <1>3, <1>4, <1>5 DEF Stands

-----------------------------------------------------------------------------
(* The anchor in force. *)

LEMMA ChainedRow ==
  ASSUME NEW ancs, Chained(ancs), NEW a \in AnchorsOf(ancs)
  PROVE  /\ a \in AnchorId /\ ancs[a] \in AnchorRow
         /\ ancs[a].day \in Nat /\ ancs[a].created \in Nat /\ ancs[a].created <= MaxBegins
<1>1. a \in AnchorId /\ ancs[a] \in AnchorRow
  BY DEF Chained, AnchorsOf
<1>. QED  BY <1>1, AnchorType

\* Of some anchors one is the latest.
LEMMA LatestExists ==
  ASSUME NEW ancs, Chained(ancs), NEW P \in SUBSET AnchorsOf(ancs), P # {},
         NEW m \in Nat, \A a \in P : ancs[a].day <= m
  PROVE  \E a \in P : \A b \in P \ {a} : Before(ancs[b], ancs[a])
<1>. DEFINE D == {ancs[a].day : a \in P}
<1>1. \A a \in P : ancs[a].day \in Int /\ ancs[a].created \in Int /\ ancs[a].created <= MaxBegins
  BY ChainedRow
<1>2. m \in Int /\ D \in SUBSET Int /\ D # {} /\ \A d \in D : d <= m
  BY <1>1
<1>3. PICK d \in D : \A e \in D : e <= d
  <2>. HIDE DEF D
  <2>. QED  BY <1>2, GreatestNumber
<1>. DEFINE Q == {a \in P : ancs[a].day = d}
            C == {ancs[a].created : a \in Q}
<1>4. C \in SUBSET Int /\ C # {} /\ MaxBegins \in Int /\ \A c \in C : c <= MaxBegins
  BY <1>1, AnchorsGiven
<1>5. PICK c \in C : \A e \in C : e <= c
  BY <1>4, GreatestNumber
<1>6. PICK a \in Q : ancs[a].created = c
  OBVIOUS
<1>7. ASSUME NEW b \in P \ {a} PROVE Before(ancs[b], ancs[a])
  <2>1. ancs[b].day <= d /\ ancs[a].day = d
    BY <1>3
  <2>2. ancs[b].created # ancs[a].created
    BY <1>7 DEF Chained
  <2>3. ancs[b].day = d => ancs[b].created <= c
    BY <1>5
  <2>. QED  BY <1>1, <1>6, <2>1, <2>2, <2>3 DEF Before
<1>. QED  BY <1>7

LEMMA InForceType ==
  ASSUME NEW ancs, Chained(ancs), today \in Days
  PROVE  InForce(ancs) \in AnchorRow
<1>. DEFINE past == {a \in AnchorsOf(ancs) : ancs[a].day <= today}
<1>1. today \in Nat /\ 0 \in past
  BY AnchorsGiven DEF Chained, AnchorsOf, AnchorId
<1>2. \E a \in past : \A b \in past \ {a} : Before(ancs[b], ancs[a])
  <2>. HIDE DEF past
  <2>1. past \in SUBSET AnchorsOf(ancs) /\ past # {} /\ \A a \in past : ancs[a].day <= today
    BY <1>1 DEF past
  <2>. QED  BY <1>1, <2>1, LatestExists
<1>3. PICK a \in past : InForce(ancs) = ancs[a]
  BY <1>2 DEF InForce
<1>. QED  BY <1>3, ChainedRow

LEMMA RecomputedType ==
  ASSUME NEW rows, Rowed(rows), NEW ancs, Chained(ancs), today \in Days
  PROVE  CanonicalBalance(rows, ancs) \in Int
<1>1. CanonicalBalance(rows, ancs) = Stands(rows, InForce(ancs))
  BY FlowIs DEF CanonicalBalance
<1>. QED  BY <1>1, InForceType, StandsType

-----------------------------------------------------------------------------
(* Ids. *)

LEMMA FreeIds ==
  ASSUME AnchorsTypeOK, Filled
  PROVE  /\ FreeRow \in Nat /\ FreeAnchor \in Nat
         /\ \A r \in RowId : row[r] # NoRow <=> r < FreeRow
         /\ \A a \in AnchorId : anchor[a] # NoAnchor <=> a < FreeAnchor
<1>1. PICK k \in 0..MaxRows : \A r \in RowId : row[r] # NoRow <=> r <= k
  BY DEF Filled
<1>2. PICK m \in 0..MaxAnchors : \A a \in AnchorId : anchor[a] # NoAnchor <=> a <= m
  BY DEF Filled
<1>3. {r \in RowId : row[r] # NoRow} = 1..k /\ k \in Nat /\ k \in Int /\ 1 \in Int
  BY <1>1, AnchorsGiven DEF RowId
<1>4. AnchorsOf(anchor) = 0..m /\ m \in Nat
  BY <1>2, AnchorsGiven DEF AnchorsOf, AnchorId
<1>5. FreeRow = k + 1
  <2>1. Cardinality(1..k) = k
    BY <1>3, FS_Interval
  <2>. QED  BY <1>3, <2>1 DEF FreeRow
<1>6. FreeAnchor = m + 1
  BY <1>4, FS_Interval DEF FreeAnchor
<1>. QED  BY <1>1, <1>2, <1>3, <1>4, <1>5, <1>6 DEF RowId, AnchorId

-----------------------------------------------------------------------------
(* What a step does to the transactions that are open. *)

Flights == [Slots -> OpenTx \cup {Idle}]

\* The same transaction, told of no less.
Continued(new, old) ==
  /\ new.op = old.op /\ new.id = old.id /\ new.time = old.time /\ new.amount = old.amount /\ new.day = old.day /\ new.value = old.value
  /\ new.target = old.target /\ new.seen = old.seen /\ new.asOf = old.asOf
  /\ new.stamp = old.stamp
  /\ old.accountStale => new.accountStale
  /\ old.anchorStale => new.anchorStale

LEMMA TxType ==
  ASSUME NEW tx \in OpenTx
  PROVE  /\ tx # Idle /\ tx.day \in Days /\ tx.value \in Asserted \cup {0}
         /\ tx.stamp \in 1..MaxBegins /\ tx.stamp \in Nat /\ tx.asOf \in Days /\ tx.asOf \in Nat
         /\ tx.target \in Int /\ tx.seen \in Int
         /\ AnchorOf(tx) \in AnchorRow
<1>1. /\ tx.day \in Days /\ tx.value \in Asserted \cup {0}
      /\ tx.stamp \in 1..MaxBegins /\ tx.asOf \in Days
      /\ tx.target \in Int /\ tx.seen \in Int
  BY DEF OpenTx
<1>2. tx # Idle
  BY AnchorsAbsent
<1>3. tx.stamp \in Nat /\ tx.stamp \in 0..MaxBegins /\ tx.asOf \in Nat
  <2>1. 1..MaxBegins \subseteq Nat /\ 1..MaxBegins \subseteq 0..MaxBegins /\ Days \subseteq Nat
    BY AnchorsGiven
  <2>. QED  BY <1>1, <2>1, Zenon
<1>4. AnchorOf(tx) \in AnchorRow
  BY <1>1, <1>3 DEF AnchorOf, AnchorRow
<1>. QED  BY <1>1, <1>2, <1>3, <1>4

LEMMA TellType ==
  ASSUME NEW tx \in OpenTx, NEW wa \in BOOLEAN, NEW wb \in BOOLEAN
  PROVE  /\ [tx EXCEPT !.accountStale = @ \/ wa, !.anchorStale = @ \/ wb] \in OpenTx
         /\ Continued([tx EXCEPT !.accountStale = @ \/ wa, !.anchorStale = @ \/ wb], tx)
         /\ wa => [tx EXCEPT !.accountStale = @ \/ wa, !.anchorStale = @ \/ wb].accountStale
         /\ wb => [tx EXCEPT !.accountStale = @ \/ wa, !.anchorStale = @ \/ wb].anchorStale
BY DEF OpenTx, Continued

\* What has been read stays so when nothing of it is written.
LEMMA ReadOnRow ==
  ASSUME NEW old, NEW new, Continued(new, old), AsRead(old), today' = today,
         \/ new.accountStale
         \/ row' = row /\ stored' = stored /\ (new.anchorStale \/ anchor' = anchor)
  PROVE  AsRead(new)'
<1>1. CASE new.accountStale
  BY <1>1 DEF AsRead
<1>2. CASE ~new.accountStale /\ new.anchorStale
  BY <1>2 DEF AsRead, Continued
<1>3. CASE ~new.accountStale /\ ~new.anchorStale
  <2>1. ~old.accountStale /\ ~old.anchorStale /\ row' = row /\ stored' = stored /\ anchor' = anchor
    BY <1>3 DEF Continued
  <2>2. AnchorOf(new) = AnchorOf(old)
    BY DEF Continued, AnchorOf
  <2>3. AsRead(old)'
    <3>1. \A rows, ancs : CanonicalBalance(rows, ancs)' = CanonicalBalance(rows, ancs)
      BY DEF CanonicalBalance, InForce
    <3>2. FreeAnchor' = FreeAnchor
      BY <2>1 DEF FreeAnchor
    <3>. QED  BY <2>1, <3>1, <3>2 DEF AsRead
  <2>. QED  BY <1>3, <2>1, <2>2, <2>3 DEF AsRead, Continued
<1>. QED  BY <1>1, <1>2, <1>3

LEMMA AnchorsInvInit == AnchorsInit => AnchorsInv
<1>. SUFFICES ASSUME AnchorsInit PROVE AnchorsInv
  OBVIOUS
<1>. USE AnchorsGiven
<1>. DEFINE opening == [day |-> 0, value |-> 0, created |-> 0]
<1>1. opening \in AnchorRow /\ opening # NoAnchor
  BY AnchorsAbsent DEF AnchorRow
<1>2. 0 \in AnchorId /\ \A a \in AnchorId : anchor[a] = IF a = 0 THEN opening ELSE NoAnchor
  BY DEF AnchorsInit, AnchorId
<1>3. AnchorsTypeOK
  BY <1>1 DEF AnchorsInit, AnchorsTypeOK
<1>4. AnchorsOf(anchor) = {0} /\ anchor[0] = opening
  BY <1>1, <1>2 DEF AnchorsOf
<1>5. Chained(anchor)
  BY <1>1, <1>3, <1>4 DEF Chained, AnchorsTypeOK
<1>6. Filled
  <2>1. \A r \in RowId : row[r] # NoRow <=> r <= 0
    BY DEF AnchorsInit, RowId
  <2>2. \A a \in AnchorId : anchor[a] # NoAnchor <=> a <= 0
    BY <1>1, <1>2 DEF AnchorId
  <2>. QED  BY <2>1, <2>2 DEF Filled
<1>7. \A s \in Slots : flight[s] = Idle
  BY DEF AnchorsInit
<1>8. Stamped
  BY <1>4, <1>7 DEF Stamped, AnchorsInit
<1>. QED  BY <1>3, <1>5, <1>6, <1>7, <1>8 DEF AnchorsInv

LEMMA BeginKeeps ==
  ASSUME AnchorsInv, NEW s \in Slots, NEW q \in OpenTx,
         q.stamp = clock, q.asOf = today, AsRead(q), Begin(s, q)
  PROVE  AnchorsInv'
<1>1. /\ row' = row /\ anchor' = anchor /\ stored' = stored /\ today' = today /\ clock' = clock + 1
      /\ flight' = [flight EXCEPT ![s] = q] /\ clock <= MaxBegins
  BY DEF Begin
<1>2. flight \in Flights /\ clock \in 1..(MaxBegins + 1) /\ clock \in Nat
  BY AnchorsGiven DEF AnchorsInv, AnchorsTypeOK, Flights
<1>3. \A t \in Slots : flight'[t] = IF t = s THEN q ELSE flight[t]
  BY <1>1, <1>2 DEF Flights
<1>4. AnchorsTypeOK'
  <2>1. clock' \in 1..(MaxBegins + 1)
    BY <1>1, <1>2, AnchorsGiven
  <2>2. flight' \in Flights
    BY <1>1, <1>2 DEF Flights
  <2>. QED  BY <1>1, <2>1, <2>2 DEF AnchorsInv, AnchorsTypeOK, Flights
<1>5. Chained(anchor)' /\ Filled'
  BY <1>1 DEF AnchorsInv, Filled
<1>6. Stamped'
  <2>1. \A a \in AnchorsOf(anchor) : anchor[a].created \in Nat /\ anchor[a].created < clock
    BY ChainedRow DEF AnchorsInv, Stamped
  <2>2. \A t \in Slots : flight[t] # Idle =>
          /\ flight[t].stamp \in Nat /\ flight[t].stamp < clock /\ flight[t].asOf <= today
          /\ \A a \in AnchorsOf(anchor) : anchor[a].created # flight[t].stamp
          /\ \A u \in Slots : flight[u] # Idle /\ flight[u].stamp = flight[t].stamp => t = u
    BY <1>2, TxType DEF AnchorsInv, Stamped, Flights
  <2>3. today \in Nat
    BY AnchorsGiven DEF AnchorsInv, AnchorsTypeOK
  <2>4. \A a \in AnchorsOf(anchor') : anchor'[a].created < clock'
    BY <1>1, <1>2, <2>1
  <2>5. ASSUME NEW t \in Slots, flight'[t] # Idle
        PROVE  /\ flight'[t].stamp < clock' /\ flight'[t].asOf <= today'
               /\ \A a \in AnchorsOf(anchor') : anchor'[a].created # flight'[t].stamp
               /\ \A u \in Slots : flight'[u] # Idle /\ flight'[u].stamp = flight'[t].stamp => t = u
    <3>1. CASE t = s
      BY <1>1, <1>2, <1>3, <2>1, <2>2, <2>3, <3>1
    <3>2. CASE t # s
      BY <1>1, <1>2, <1>3, <2>2, <2>5, <3>2
    <3>. QED  BY <3>1, <3>2
  <2>. QED  BY <2>4, <2>5 DEF Stamped
<1>7. ASSUME NEW t \in Slots, flight'[t] # Idle PROVE AsRead(flight[t])'
  <2>1. PICK w : w = flight'[t]
    OBVIOUS
  <2>2. AsRead(w)
    BY <1>3, <1>7, <2>1 DEF AnchorsInv
  <2>3. Continued(w, w)
    BY DEF Continued
  <2>4. AsRead(w)'
    BY <1>1, <2>2, <2>3, ReadOnRow
  <2>. QED  BY <2>1, <2>4 DEF AsRead
<1>. QED  BY <1>4, <1>5, <1>6, <1>7 DEF AnchorsInv

LEMMA DoneIs ==
  ASSUME flight \in Flights, NEW s \in Slots, NEW wa \in BOOLEAN, NEW wb \in BOOLEAN
  PROVE  /\ Done(s, wa, wb) \in Flights
         /\ \A t \in Slots : Done(s, wa, wb)[t] # Idle =>
              /\ t # s /\ flight[t] # Idle
              /\ Continued(Done(s, wa, wb)[t], flight[t])
              /\ wa => Done(s, wa, wb)[t].accountStale
              /\ wb => Done(s, wa, wb)[t].anchorStale
<1>. DEFINE d == Done(s, wa, wb)
<1>1. ASSUME NEW t \in Slots
      PROVE  /\ d[t] \in OpenTx \cup {Idle}
             /\ d[t] # Idle =>
                  /\ t # s /\ flight[t] # Idle
                  /\ Continued(d[t], flight[t])
                  /\ wa => d[t].accountStale
                  /\ wb => d[t].anchorStale
  <2>1. CASE t = s \/ flight[t] = Idle
    BY <2>1 DEF Done
  <2>2. CASE ~(t = s \/ flight[t] = Idle)
    <3>1. PICK tx \in OpenTx : tx = flight[t]
      BY <2>2 DEF Flights
    <3>2. PICK told : told = [tx EXCEPT !.accountStale = @ \/ wa, !.anchorStale = @ \/ wb]
      OBVIOUS
    <3>3. d[t] = told
      BY <2>2, <3>1, <3>2 DEF Done
    <3>4. /\ told \in OpenTx /\ Continued(told, tx)
          /\ wa => told.accountStale
          /\ wb => told.anchorStale
      BY <3>2, TellType
    <3>. QED  BY <2>2, <3>1, <3>3, <3>4
  <2>. QED  BY <2>1, <2>2
<1>2. d = [t \in Slots |-> d[t]]
  BY DEF Done
<1>3. d \in Flights
  <2>. HIDE DEF d
  <2>. QED  BY <1>1, <1>2 DEF Flights
<1>. QED  BY <1>1, <1>3

\* What a commit leaves to the transactions that are still open.
Leaves(s) ==
  /\ flight' \in Flights
  /\ \A t \in Slots : flight'[t] # Idle =>
       /\ t # s /\ flight[t] # Idle
       /\ Continued(flight'[t], flight[t])
       /\ \/ flight'[t].accountStale
          \/ row' = row /\ stored' = stored /\ (flight'[t].anchorStale \/ anchor' = anchor)

LEMMA CommitKeeps ==
  ASSUME AnchorsInv, NEW s \in Slots, flight[s] # Idle, Leaves(s),
         Rowed(row'), Chained(anchor'), stored' \in Int, today' = today, clock' = clock, Filled',
         \A a \in AnchorsOf(anchor') :
           \/ anchor'[a].created = flight[s].stamp
           \/ a \in AnchorsOf(anchor) /\ anchor'[a] = anchor[a]
  PROVE  AnchorsInv'
<1>1. AnchorsTypeOK'
  BY DEF AnchorsInv, AnchorsTypeOK, Leaves, Flights, Rowed, Chained
<1>2. Stamped'
  <2>1. \A a \in AnchorsOf(anchor) : anchor[a].created < clock
    BY DEF AnchorsInv, Stamped
  <2>2. \A t \in Slots : flight[t] # Idle =>
          /\ flight[t].stamp < clock /\ flight[t].asOf <= today
          /\ \A a \in AnchorsOf(anchor) : anchor[a].created # flight[t].stamp
          /\ \A u \in Slots : flight[u] # Idle /\ flight[u].stamp = flight[t].stamp => t = u
    BY DEF AnchorsInv, Stamped
  <2>3. \A t \in Slots : flight'[t] # Idle =>
          /\ t # s /\ flight[t] # Idle
          /\ flight'[t].stamp = flight[t].stamp /\ flight'[t].asOf = flight[t].asOf
    BY DEF Leaves, Continued
  <2>4. \A a \in AnchorsOf(anchor') : anchor'[a].created < clock
    BY <2>1, <2>2
  <2>5. ASSUME NEW t \in Slots, flight'[t] # Idle
        PROVE  /\ flight'[t].stamp < clock /\ flight'[t].asOf <= today
               /\ \A a \in AnchorsOf(anchor') : anchor'[a].created # flight'[t].stamp
               /\ \A u \in Slots : flight'[u] # Idle /\ flight'[u].stamp = flight'[t].stamp => t = u
    <3>1. /\ t # s /\ flight[t] # Idle
          /\ flight'[t].stamp = flight[t].stamp /\ flight'[t].asOf = flight[t].asOf
      BY <2>3, <2>5
    <3>2. flight[s].stamp # flight[t].stamp
      BY <2>2, <3>1
    <3>. QED  BY <2>2, <2>3, <3>1, <3>2
  <2>. QED  BY <2>4, <2>5 DEF Stamped
<1>3. ASSUME NEW t \in Slots, flight'[t] # Idle PROVE AsRead(flight[t])'
  <2>1. PICK w : w = flight'[t]
    OBVIOUS
  <2>2. PICK v : v = flight[t]
    OBVIOUS
  <2>3. AsRead(v) /\ Continued(w, v)
    BY <1>3, <2>1, <2>2 DEF AnchorsInv, Leaves
  <2>4. \/ w.accountStale
        \/ row' = row /\ stored' = stored /\ (w.anchorStale \/ anchor' = anchor)
    BY <1>3, <2>1 DEF Leaves
  <2>5. AsRead(w)'
    BY <2>3, <2>4, ReadOnRow
  <2>. QED  BY <2>1, <2>5 DEF AsRead
<1>4. Chained(anchor)'
  OBVIOUS
<1>. QED  BY <1>1, <1>2, <1>3, <1>4 DEF AnchorsInv

-----------------------------------------------------------------------------
(* The commits, and what each does to the balances. *)

\* No drift opens unless a row that changed is absorbed.
Tells ==
  Drift' => Drift \/ \E r \in RowId : row'[r] # row[r] /\ Absorbed(r)'

LEMMA TableRows ==
  ASSUME AnchorsInv
  PROVE  /\ Rowed(row) /\ Chained(anchor) /\ stored \in Int /\ today \in Days /\ today \in Nat
         /\ flight \in Flights /\ Filled
         /\ InForce(anchor) \in AnchorRow
         /\ CanonicalBalance(row, anchor) = Stands(row, InForce(anchor))
<1>1. Rowed(row) /\ Chained(anchor) /\ stored \in Int /\ today \in Days /\ flight \in Flights /\ Filled
  BY DEF AnchorsInv, AnchorsTypeOK, Rowed, Flights
<1>2. CanonicalBalance(row, anchor) = Stands(row, InForce(anchor))
  BY <1>1, FlowIs DEF CanonicalBalance
<1>. QED  BY <1>1, <1>2, InForceType, AnchorsGiven

Tombstoned(new, rows, r) == new = [rows EXCEPT ![r].deleted = TRUE]
Inserted(new, rows, r, n) == new = [rows EXCEPT ![r] = n]

LEMMA RowLeaves ==
  ASSUME NEW rows, Rowed(rows), NEW r \in LiveRows(rows), NEW a \in AnchorRow,
         NEW new, Tombstoned(new, rows, r)
  PROVE  /\ Rowed(new) /\ r \in RowId /\ new[r] # NoRow /\ new[r] # rows[r]
         /\ rows[r].amount \in Int
         /\ \A q \in RowId \ {r} : new[q] = rows[q]
         /\ AfterAnchor(new[r], a) => Stands(new, a) = Stands(rows, a) - rows[r].amount
<1>1. r \in RowId /\ rows[r] \in CashRow /\ rows[r] # NoRow /\ ~rows[r].deleted
  BY RowType
<1>2. PICK old \in CashRow : old = rows[r]
  BY <1>1
<1>3. new[r] = [old EXCEPT !.deleted = TRUE]
  BY <1>1, <1>2 DEF Rowed, Tombstoned
<1>4. /\ new[r] \in CashRow /\ new[r].deleted /\ new[r].time = old.time /\ new[r].created = old.created
  BY <1>3 DEF CashRow
<1>5. \A q \in RowId \ {r} : new[q] = rows[q]
  BY DEF Rowed, Tombstoned
<1>6. Rowed(new)
  <2>1. new = [q \in RowId |-> new[q]]
    BY DEF Rowed, Tombstoned
  <2>2. \A q \in RowId : new[q] \in CashRow \cup {NoRow}
    BY <1>4, <1>5 DEF Rowed
  <2>. QED  BY <2>1, <2>2 DEF Rowed
<1>7. new[r] # NoRow /\ new[r] # rows[r]
  BY <1>1, <1>4, AnchorsAbsent
<1>8. rows[r].amount \in Int
  BY <1>1, AnchorsGiven DEF CashRow
<1>9. ASSUME AfterAnchor(new[r], a) PROVE Stands(new, a) = Stands(rows, a) - rows[r].amount
  <2>1. Counts(new, a)[r] = 0
    BY <1>1, <1>4 DEF Counts, LiveRows
  <2>2. AfterAnchor(rows[r], a)
    BY <1>2, <1>4, <1>9 DEF AfterAnchor
  <2>3. Counts(rows, a)[r] = rows[r].amount
    BY <1>1, <2>2 DEF Counts
  <2>4. Stands(new, a) = Stands(rows, a) - Counts(rows, a)[r] + Counts(new, a)[r]
    BY <1>1, <1>5, <1>6, StandsMoves
  <2>5. Stands(rows, a) \in Int
    BY StandsType
  <2>. QED  BY <1>8, <2>1, <2>3, <2>4, <2>5
<1>. QED  BY <1>1, <1>5, <1>6, <1>7, <1>8, <1>9

LEMMA RowComes ==
  ASSUME NEW rows, Rowed(rows), NEW r \in RowId, rows[r] = NoRow, NEW a \in AnchorRow,
         NEW n \in CashRow, ~n.deleted, NEW new, Inserted(new, rows, r, n)
  PROVE  /\ Rowed(new) /\ new[r] = n /\ n # NoRow
         /\ n.amount \in Int
         /\ \A q \in RowId \ {r} : new[q] = rows[q]
         /\ AfterAnchor(n, a) => Stands(new, a) = Stands(rows, a) + n.amount
<1>1. /\ new[r] = n /\ n # NoRow /\ n.amount \in Int
      /\ \A q \in RowId \ {r} : new[q] = rows[q]
  BY AnchorsGiven, AnchorsAbsent DEF Rowed, CashRow, Inserted
<1>2. Rowed(new)
  BY DEF Rowed, Inserted
<1>3. ASSUME AfterAnchor(n, a) PROVE Stands(new, a) = Stands(rows, a) + n.amount
  <2>1. Counts(rows, a)[r] = 0
    BY DEF Counts, LiveRows
  <2>2. Counts(new, a)[r] = n.amount
    BY <1>1, <1>3 DEF Counts, LiveRows
  <2>3. Stands(new, a) = Stands(rows, a) - Counts(rows, a)[r] + Counts(new, a)[r]
    BY <1>1, <1>2, StandsMoves
  <2>4. Stands(rows, a) \in Int
    BY StandsType
  <2>. QED  BY <1>1, <2>1, <2>2, <2>3, <2>4
<1>. QED  BY <1>1, <1>2, <1>3

\* The canonical balance after a step that leaves the anchors and the day alone.
LEMMA CanonicalNext ==
  ASSUME AnchorsInv, Rowed(row'), anchor' = anchor, today' = today
  PROVE  /\ InForce(anchor)' = InForce(anchor)
         /\ CanonicalBalance(row, anchor)' = Stands(row', InForce(anchor))
<1>1. InForce(anchor)' = InForce(anchor)
  BY DEF InForce
<1>2. CanonicalBalance(row, anchor)' = Stands(row', InForce(anchor)')
  BY FlowIs DEF CanonicalBalance
<1>. QED  BY <1>1, <1>2

LEMMA CreateKeeps ==
  ASSUME AnchorsInv, NEW s \in Slots, CommitCreate(s)
  PROVE  AnchorsInv' /\ Tells
<1>0. PICK tx, r, a : tx = flight[s] /\ r = FreeRow /\ a = InForce(anchor)
  OBVIOUS
<1>. DEFINE n == [time |-> tx.time, amount |-> tx.amount, created |-> tx.stamp, deleted |-> FALSE]
<1>1. /\ tx # Idle /\ tx.op = "create" /\ ~tx.accountStale /\ r \in RowId
      /\ row' = [row EXCEPT ![r] = n] /\ stored' = stored + tx.amount
      /\ flight' = Done(s, TRUE, FALSE)
      /\ anchor' = anchor /\ today' = today /\ clock' = clock
  BY <1>0 DEF CommitCreate, InsertRow
<1>2. AsRead(tx) /\ tx \in OpenTx
  BY <1>0, <1>1, TableRows DEF AnchorsInv, Flights
<1>3. n \in CashRow /\ ~n.deleted
  BY <1>1, <1>2, TxType DEF AsRead, CashRow
<1>4. row[r] = NoRow
  BY <1>0, <1>1, FreeIds DEF AnchorsInv
<1>5. /\ Rowed(row') /\ row'[r] = n /\ n # NoRow /\ n.amount \in Int
      /\ \A q \in RowId \ {r} : row'[q] = row[q]
      /\ AfterAnchor(n, a) => Stands(row', a) = Stands(row, a) + n.amount
  <2>1. Rowed(row) /\ a \in AnchorRow
    BY <1>0, TableRows
  <2>2. PICK new : new = row'
    OBVIOUS
  <2>3. Inserted(new, row, r, n)
    BY <1>1, <2>2 DEF Inserted
  <2>. HIDE DEF n
  <2>4. r \in RowId
    BY <1>1
  <2>5. /\ Rowed(new) /\ new[r] = n /\ n # NoRow /\ n.amount \in Int
        /\ \A q \in RowId \ {r} : new[q] = row[q]
        /\ AfterAnchor(n, a) => Stands(new, a) = Stands(row, a) + n.amount
    BY <1>3, <1>4, <2>1, <2>3, <2>4, RowComes
  <2>. QED  BY <2>2, <2>5
<1>6. Leaves(s)
  BY <1>1, TableRows, DoneIs DEF Leaves
<1>7. Filled'
  <2>1. \A q \in RowId : row[q] # NoRow <=> q < r
    BY <1>0, FreeIds DEF AnchorsInv
  <2>2. r \in 0..MaxRows /\ \A q \in RowId : row'[q] # NoRow <=> q <= r
    BY <1>1, <1>5, <2>1, AnchorsGiven DEF RowId
  <2>. QED  BY <1>1, <2>2 DEF Filled, AnchorsInv
<1>8. AnchorsInv'
  <2>1. stored' \in Int
    BY <1>1, <1>5, TableRows
  <2>2. Chained(anchor')
    BY <1>1, TableRows
  <2>3. \A b \in AnchorsOf(anchor') : b \in AnchorsOf(anchor) /\ anchor'[b] = anchor[b]
    BY <1>1
  <2>. QED  BY <1>0, <1>1, <1>5, <1>6, <1>7, <2>1, <2>2, <2>3, CommitKeeps
<1>9. Tells
  <2>1. CASE AfterAnchor(n, a)
    <3>1. Stands(row', a) = Stands(row, a) + tx.amount /\ Stands(row, a) \in Int
      BY <1>0, <1>5, <2>1, TableRows, StandsType
    <3>2. CanonicalBalance(row, anchor)' = Stands(row', a) /\ CanonicalBalance(row, anchor) = Stands(row, a)
      BY <1>0, <1>1, <1>5, TableRows, CanonicalNext
    <3>3. Drift' => Drift
      BY <1>1, <1>5, <3>1, <3>2, TableRows DEF Drift
    <3>. QED  BY <3>3 DEF Tells
  <2>2. CASE ~AfterAnchor(n, a)
    <3>1. row'[r] # row[r]
      BY <1>4, <1>5
    <3>2. Absorbed(r)'
      BY <1>0, <1>1, <1>5, <2>2, CanonicalNext DEF Absorbed
    <3>. QED  BY <1>1, <3>1, <3>2 DEF Tells
  <2>. QED  BY <2>1, <2>2
<1>. QED  BY <1>8, <1>9

LEMMA DeleteKeeps ==
  ASSUME AnchorsInv, NEW s \in Slots, CommitDelete(s)
  PROVE  AnchorsInv' /\ Tells
<1>1. PICK tx, r, a : tx = flight[s] /\ r = flight[s].id /\ a = InForce(anchor)
  OBVIOUS
<1>2. /\ tx # Idle /\ tx.op = "delete" /\ ~tx.accountStale
      /\ row' = [row EXCEPT ![r].deleted = TRUE] /\ stored' = stored - row[r].amount
      /\ flight' = Done(s, TRUE, FALSE)
      /\ anchor' = anchor /\ today' = today /\ clock' = clock
  BY <1>1 DEF CommitDelete
<1>3. r \in LiveRows(row)
  BY <1>1, <1>2 DEF AnchorsInv, AsRead
<1>4. /\ Rowed(row') /\ r \in RowId /\ row'[r] # NoRow /\ row'[r] # row[r]
      /\ row[r].amount \in Int
      /\ \A q \in RowId \ {r} : row'[q] = row[q]
      /\ AfterAnchor(row'[r], a) => Stands(row', a) = Stands(row, a) - row[r].amount
  <2>1. Rowed(row) /\ a \in AnchorRow
    BY <1>1, TableRows
  <2>2. PICK new : new = row'
    OBVIOUS
  <2>3. Tombstoned(new, row, r)
    BY <1>2, <2>2 DEF Tombstoned
  <2>4. /\ Rowed(new) /\ r \in RowId /\ new[r] # NoRow /\ new[r] # row[r]
        /\ row[r].amount \in Int
        /\ \A q \in RowId \ {r} : new[q] = row[q]
        /\ AfterAnchor(new[r], a) => Stands(new, a) = Stands(row, a) - row[r].amount
    BY <1>3, <2>1, <2>3, RowLeaves
  <2>. QED  BY <2>2, <2>4
<1>5. Leaves(s)
  BY <1>2, TableRows, DoneIs DEF Leaves
<1>6. Filled'
  <2>1. \A q \in RowId : row'[q] # NoRow <=> row[q] # NoRow
    BY <1>3, <1>4, RowType, TableRows
  <2>. QED  BY <1>2, <2>1 DEF Filled, AnchorsInv
<1>7. AnchorsInv'
  <2>1. stored' \in Int
    BY <1>2, <1>4, TableRows
  <2>2. Chained(anchor')
    BY <1>2, TableRows
  <2>3. \A b \in AnchorsOf(anchor') : b \in AnchorsOf(anchor) /\ anchor'[b] = anchor[b]
    BY <1>2
  <2>. QED  BY <1>1, <1>2, <1>4, <1>5, <1>6, <2>1, <2>2, <2>3, CommitKeeps
<1>8. Tells
  <2>1. CASE AfterAnchor(row'[r], a)
    <3>1. Stands(row', a) = Stands(row, a) - row[r].amount /\ Stands(row, a) \in Int
      BY <1>1, <1>4, <2>1, TableRows, StandsType
    <3>2. CanonicalBalance(row, anchor)' = Stands(row', a) /\ CanonicalBalance(row, anchor) = Stands(row, a)
      BY <1>1, <1>2, <1>4, TableRows, CanonicalNext
    <3>3. Drift' => Drift
      BY <1>2, <1>4, <3>1, <3>2, TableRows DEF Drift
    <3>. QED  BY <3>3 DEF Tells
  <2>2. CASE ~AfterAnchor(row'[r], a)
    <3>1. Absorbed(r)'
      BY <1>1, <1>2, <1>4, <2>2, CanonicalNext DEF Absorbed
    <3>. QED  BY <1>4, <3>1 DEF Tells
  <2>. QED  BY <2>1, <2>2
<1>. QED  BY <1>7, <1>8

LEMMA EditKeeps ==
  ASSUME AnchorsInv, NEW s \in Slots, CommitEdit(s)
  PROVE  AnchorsInv' /\ Tells
<1>1. PICK tx, d, r, a : tx = flight[s] /\ d = flight[s].id /\ r = FreeRow /\ a = InForce(anchor)
  OBVIOUS
<1>. DEFINE n == [time |-> tx.time, amount |-> tx.amount, created |-> tx.stamp, deleted |-> FALSE]
<1>2. PICK mid : mid = [row EXCEPT ![d].deleted = TRUE]
  OBVIOUS
<1>3. /\ tx # Idle /\ tx.op = "edit" /\ ~tx.accountStale /\ r \in RowId
      /\ row' = [mid EXCEPT ![r] = n] /\ stored' = stored - row[d].amount + tx.amount
      /\ flight' = Done(s, TRUE, FALSE)
      /\ anchor' = anchor /\ today' = today /\ clock' = clock
  BY <1>1, <1>2 DEF CommitEdit, InsertRow
<1>4. AsRead(tx) /\ tx \in OpenTx
  BY <1>1, <1>3, TableRows DEF AnchorsInv, Flights
<1>5. n \in CashRow /\ ~n.deleted /\ d \in LiveRows(row)
  BY <1>1, <1>3, <1>4, TxType DEF AsRead, CashRow
<1>6. Rowed(row) /\ a \in AnchorRow
  BY <1>1, TableRows
<1>7. /\ Rowed(mid) /\ d \in RowId /\ mid[d] # NoRow /\ mid[d] # row[d]
      /\ row[d].amount \in Int
      /\ \A q \in RowId \ {d} : mid[q] = row[q]
      /\ AfterAnchor(mid[d], a) => Stands(mid, a) = Stands(row, a) - row[d].amount
  <2>1. Tombstoned(mid, row, d)
    BY <1>2 DEF Tombstoned
  <2>. QED  BY <1>5, <1>6, <2>1, RowLeaves
<1>8. row[r] = NoRow /\ mid[r] = NoRow /\ r # d
  <2>1. row[r] = NoRow
    BY <1>1, <1>3, FreeIds DEF AnchorsInv
  <2>2. row[d] # NoRow
    BY <1>5, <1>6, RowType
  <2>. QED  BY <1>3, <1>7, <2>1, <2>2
<1>9. /\ Rowed(row') /\ row'[r] = n /\ n # NoRow /\ n.amount \in Int
      /\ \A q \in RowId \ {r} : row'[q] = mid[q]
      /\ AfterAnchor(n, a) => Stands(row', a) = Stands(mid, a) + n.amount
  <2>1. PICK new : new = row'
    OBVIOUS
  <2>2. Inserted(new, mid, r, n)
    BY <1>3, <2>1 DEF Inserted
  <2>3. r \in RowId
    BY <1>3
  <2>. HIDE DEF n
  <2>4. /\ Rowed(new) /\ new[r] = n /\ n # NoRow /\ n.amount \in Int
        /\ \A q \in RowId \ {r} : new[q] = mid[q]
        /\ AfterAnchor(n, a) => Stands(new, a) = Stands(mid, a) + n.amount
    BY <1>5, <1>6, <1>7, <1>8, <2>2, <2>3, RowComes
  <2>. QED  BY <2>1, <2>4
<1>10. Leaves(s)
  BY <1>3, TableRows, DoneIs DEF Leaves
<1>11. Filled'
  <2>1. \A q \in RowId : row[q] # NoRow <=> q < r
    BY <1>1, FreeIds DEF AnchorsInv
  <2>2. row[d] # NoRow
    BY <1>5, <1>6, RowType
  <2>3. \A q \in RowId : row'[q] # NoRow <=> (row[q] # NoRow \/ q = r)
    BY <1>7, <1>8, <1>9, <2>2
  <2>4. r \in 0..MaxRows /\ \A q \in RowId : row'[q] # NoRow <=> q <= r
    BY <1>3, <2>1, <2>3, AnchorsGiven DEF RowId
  <2>. QED  BY <1>3, <2>4 DEF Filled, AnchorsInv
<1>12. AnchorsInv'
  <2>1. stored' \in Int
    BY <1>3, <1>7, <1>9, TableRows
  <2>2. Chained(anchor')
    BY <1>3, TableRows
  <2>3. \A b \in AnchorsOf(anchor') : b \in AnchorsOf(anchor) /\ anchor'[b] = anchor[b]
    BY <1>3
  <2>. QED  BY <1>1, <1>3, <1>9, <1>10, <1>11, <2>1, <2>2, <2>3, CommitKeeps
<1>13. Tells
  <2>1. row'[r] # row[r] /\ row'[d] = mid[d] /\ row'[d] # row[d]
    BY <1>7, <1>8, <1>9
  <2>2. CASE AfterAnchor(n, a) /\ AfterAnchor(mid[d], a)
    <3>1. /\ Stands(row', a) = Stands(mid, a) + tx.amount
          /\ Stands(mid, a) = Stands(row, a) - row[d].amount /\ Stands(row, a) \in Int
      BY <1>6, <1>7, <1>9, <2>2, StandsType
    <3>2. CanonicalBalance(row, anchor)' = Stands(row', a) /\ CanonicalBalance(row, anchor) = Stands(row, a)
      BY <1>1, <1>3, <1>9, TableRows, CanonicalNext
    <3>3. tx.amount \in Int /\ row[d].amount \in Int
      BY <1>7, <1>9
    <3>4. Drift' => Drift
      BY <1>3, <3>1, <3>2, <3>3, TableRows DEF Drift
    <3>. QED  BY <3>4 DEF Tells
  <2>3. CASE ~AfterAnchor(n, a)
    <3>1. Absorbed(r)'
      BY <1>1, <1>3, <1>9, <2>3, CanonicalNext DEF Absorbed
    <3>. QED  BY <1>3, <2>1, <3>1 DEF Tells
  <2>4. CASE ~AfterAnchor(mid[d], a)
    <3>1. Absorbed(d)'
      BY <1>1, <1>3, <1>7, <1>9, <2>1, <2>4, CanonicalNext DEF Absorbed
    <3>. QED  BY <1>7, <2>1, <3>1 DEF Tells
  <2>. QED  BY <2>2, <2>3, <2>4
<1>. QED  BY <1>12, <1>13

\* A commit of an anchor opens a drift only if the calendar intervened, or if it
\* confirms a balance that has changed.
LEMMA ReconcileKeeps ==
  ASSUME AnchorsInv, NEW s \in Slots, CommitReconcile(s)
  PROVE  AnchorsInv' /\ (Pending \/ ConfirmsStaleBalance \/ ~Drift')
<1>1. PICK tx, k : tx = flight[s] /\ k = FreeAnchor
  OBVIOUS
<1>2. PICK n : n = AnchorOf(tx)
  OBVIOUS
<1>3. /\ tx # Idle /\ tx.op = "reconcile" /\ ~tx.anchorStale /\ k \in AnchorId
      /\ anchor' = [anchor EXCEPT ![k] = n]
      /\ tx.target # tx.seen => ~tx.accountStale /\ stored' = tx.target
      /\ tx.target = tx.seen => stored' = stored
      /\ row' = row /\ today' = today /\ clock' = clock
  BY <1>1, <1>2 DEF CommitReconcile, SetBalance, AnchorOf
<1>4. /\ tx.target # tx.seen => flight' = Done(s, TRUE, TRUE)
      /\ tx.target = tx.seen => flight' = Done(s, FALSE, TRUE)
  BY <1>1 DEF CommitReconcile, Done
<1>5. AsRead(tx) /\ tx \in OpenTx /\ n \in AnchorRow /\ n.created = tx.stamp
  BY <1>1, <1>2, <1>3, TableRows, TxType DEF AnchorsInv, Flights, AnchorOf
<1>6. /\ \A b \in AnchorId : anchor[b] # NoAnchor <=> b < k
      /\ k \in Nat /\ k # 0 /\ n # NoAnchor /\ Chained(anchor)
  BY <1>1, <1>3, <1>5, FreeIds, AnchorsAbsent DEF AnchorsInv, Chained
<1>7. /\ AnchorsOf(anchor') = AnchorsOf(anchor) \cup {k} /\ k \notin AnchorsOf(anchor)
      /\ anchor'[k] = n
      /\ \A b \in AnchorId \ {k} : anchor'[b] = anchor[b]
  BY <1>3, <1>6 DEF AnchorsOf, Chained
<1>8. Chained(anchor')
  <2>1. anchor' \in [AnchorId -> AnchorRow \cup {NoAnchor}]
    BY <1>3, <1>5, <1>6 DEF Chained
  <2>2. \A b \in AnchorsOf(anchor) : anchor[b].created # n.created /\ anchor'[b] = anchor[b]
    BY <1>1, <1>3, <1>5, <1>7 DEF AnchorsInv, Stamped, AnchorsOf
  <2>3. 0 \in AnchorId
    BY AnchorsGiven DEF AnchorId
  <2>4. anchor'[0] # NoAnchor /\ anchor'[0].day = 0
    BY <1>6, <1>7, <2>3 DEF Chained
  <2>5. \A b, c \in AnchorsOf(anchor') : anchor'[b].created = anchor'[c].created => b = c
    BY <1>6, <1>7, <2>2 DEF Chained
  <2>. QED  BY <2>1, <2>4, <2>5 DEF Chained
<1>9. Filled'
  <2>1. k \in 0..MaxAnchors /\ \A b \in AnchorId : anchor'[b] # NoAnchor <=> b <= k
    BY <1>3, <1>6, <1>7, AnchorsGiven DEF AnchorId
  <2>. QED  BY <1>3, <2>1 DEF Filled, AnchorsInv
<1>10. Leaves(s)
  <2>1. CASE tx.target # tx.seen
    BY <1>4, <2>1, TableRows, DoneIs DEF Leaves
  <2>2. CASE tx.target = tx.seen
    BY <1>3, <1>4, <2>2, TableRows, DoneIs DEF Leaves
  <2>. QED  BY <2>1, <2>2
<1>11. AnchorsInv'
  <2>1. stored' \in Int
    BY <1>3, <1>5, TableRows, TxType
  <2>2. Rowed(row')
    BY <1>3, TableRows
  <2>3. \A b \in AnchorsOf(anchor') :
          \/ anchor'[b].created = flight[s].stamp
          \/ b \in AnchorsOf(anchor) /\ anchor'[b] = anchor[b]
    BY <1>1, <1>5, <1>7 DEF AnchorsOf
  <2>. QED  BY <1>1, <1>3, <1>8, <1>9, <1>10, <2>1, <2>2, <2>3, CommitKeeps
<1>12. ASSUME ~Pending, ~ConfirmsStaleBalance PROVE ~Drift'
  <2>1. tx.asOf = today
    BY <1>1, <1>3, <1>12 DEF Pending
  <2>2. flight'[s] = Idle
    BY <1>4, <1>10 DEF Leaves
  <2>3. ~tx.accountStale
    BY <1>1, <1>3, <1>12, <2>2 DEF ConfirmsStaleBalance
  <2>4. tx.seen = stored /\ tx.target = CanonicalBalance(row, [anchor EXCEPT ![k] = n])
    BY <1>1, <1>2, <1>3, <1>5, <2>1, <2>3 DEF AsRead
  <2>5. CanonicalBalance(row, anchor)' = CanonicalBalance(row, [anchor EXCEPT ![k] = n])
    BY <1>3 DEF CanonicalBalance, InForce
  <2>6. stored' = tx.target
    BY <1>3, <2>4
  <2>. QED  BY <2>4, <2>5, <2>6 DEF Drift
<1>. QED  BY <1>11, <1>12

LEMMA RebuildKeeps ==
  ASSUME AnchorsInv, NEW s \in Slots, CommitRebuild(s)
  PROVE  AnchorsInv' /\ (Pending \/ (Drift' => Drift))
<1>1. PICK tx : tx = flight[s]
  OBVIOUS
<1>2. /\ tx # Idle /\ tx.op = "rebuild"
      /\ tx.target # tx.seen => ~tx.anchorStale /\ ~tx.accountStale /\ stored' = tx.target
      /\ tx.target = tx.seen => stored' = stored
      /\ row' = row /\ anchor' = anchor /\ today' = today /\ clock' = clock
  BY <1>1 DEF CommitRebuild, SetBalance
<1>3. /\ tx.target # tx.seen => flight' = Done(s, TRUE, FALSE)
      /\ tx.target = tx.seen => flight' = Done(s, FALSE, FALSE)
  BY <1>1 DEF CommitRebuild, Done
<1>4. AsRead(tx) /\ tx \in OpenTx
  BY <1>1, <1>2, TableRows DEF AnchorsInv, Flights
<1>5. Leaves(s)
  <2>1. CASE tx.target # tx.seen
    BY <1>3, <2>1, TableRows, DoneIs DEF Leaves
  <2>2. CASE tx.target = tx.seen
    <3>1. flight' = Done(s, FALSE, FALSE) /\ row' = row /\ stored' = stored /\ anchor' = anchor
      BY <1>2, <1>3, <2>2
    <3>2. /\ Done(s, FALSE, FALSE) \in Flights
          /\ \A t \in Slots : Done(s, FALSE, FALSE)[t] # Idle =>
               t # s /\ flight[t] # Idle /\ Continued(Done(s, FALSE, FALSE)[t], flight[t])
      BY TableRows, DoneIs
    <3>. QED  BY <3>1, <3>2 DEF Leaves
  <2>. QED  BY <2>1, <2>2
<1>6. AnchorsInv'
  <2>1. stored' \in Int
    BY <1>2, <1>4, TableRows, TxType
  <2>2. Rowed(row') /\ Chained(anchor') /\ Filled'
    BY <1>2, TableRows DEF Filled
  <2>3. \A b \in AnchorsOf(anchor') : b \in AnchorsOf(anchor) /\ anchor'[b] = anchor[b]
    BY <1>2
  <2>. QED  BY <1>1, <1>2, <1>5, <2>1, <2>2, <2>3, CommitKeeps
<1>7. CanonicalBalance(row, anchor)' = CanonicalBalance(row, anchor)
  BY <1>2 DEF CanonicalBalance, InForce
<1>8. ASSUME ~Pending PROVE Drift' => Drift
  <2>1. CASE tx.target = tx.seen
    BY <1>2, <1>7, <2>1 DEF Drift
  <2>2. CASE tx.target # tx.seen
    <3>1. tx.asOf = today
      BY <1>1, <1>2, <1>8 DEF Pending
    <3>2. tx.target = CanonicalBalance(row, anchor)
      BY <1>2, <1>4, <2>2, <3>1 DEF AsRead
    <3>. QED  BY <1>2, <1>7, <2>2, <3>2 DEF Drift
  <2>. QED  BY <2>1, <2>2
<1>. QED  BY <1>6, <1>8

LEMMA AbortKeeps ==
  ASSUME AnchorsInv, NEW s \in Slots, Abort(s)
  PROVE  AnchorsInv' /\ (Drift' => Drift)
<1>1. /\ flight[s] # Idle /\ flight' = [flight EXCEPT ![s] = Idle]
      /\ row' = row /\ anchor' = anchor /\ stored' = stored /\ today' = today /\ clock' = clock
  BY DEF Abort
<1>2. Leaves(s)
  <2>1. flight' \in Flights /\ \A t \in Slots : flight'[t] = IF t = s THEN Idle ELSE flight[t]
    BY <1>1, TableRows DEF Flights
  <2>2. \A t \in Slots : Continued(flight[t], flight[t])
    BY DEF Continued
  <2>. QED  BY <1>1, <2>1, <2>2 DEF Leaves
<1>3. AnchorsInv'
  <2>1. Rowed(row') /\ Chained(anchor') /\ Filled' /\ stored' \in Int
    BY <1>1, TableRows DEF Filled
  <2>2. \A b \in AnchorsOf(anchor') : b \in AnchorsOf(anchor) /\ anchor'[b] = anchor[b]
    BY <1>1
  <2>. QED  BY <1>1, <1>2, <2>1, <2>2, CommitKeeps
<1>4. CanonicalBalance(row, anchor)' = CanonicalBalance(row, anchor)
  BY <1>1 DEF CanonicalBalance, InForce
<1>. QED  BY <1>1, <1>3, <1>4 DEF Drift

\* At midnight an anchor comes into force only if it was dated ahead.
LEMMA MidnightsKeeps ==
  ASSUME AnchorsInv, Midnights
  PROVE  AnchorsInv' /\ (Pending \/ (Drift' => Drift))
<1>1. /\ today + 1 \in Days /\ today' = today + 1 /\ today \in Nat
      /\ row' = row /\ anchor' = anchor /\ stored' = stored /\ clock' = clock /\ flight' = flight
  BY TableRows DEF Midnights
<1>2. AnchorsTypeOK' /\ Chained(anchor)' /\ Filled'
  BY <1>1 DEF AnchorsInv, AnchorsTypeOK, Filled
<1>3. \A s \in Slots : flight[s] # Idle => flight[s].asOf \in Nat /\ flight[s].asOf <= today
  BY TableRows, TxType DEF AnchorsInv, Stamped, Flights
<1>4. Stamped'
  BY <1>1, <1>3 DEF AnchorsInv, Stamped
<1>5. ASSUME NEW s \in Slots, flight[s] # Idle PROVE AsRead(flight[s])'
  <2>1. flight[s].asOf # today' /\ AsRead(flight[s])
    BY <1>1, <1>3, <1>5 DEF AnchorsInv
  <2>. QED  BY <1>1, <2>1 DEF AsRead
<1>6. AnchorsInv'
  BY <1>1, <1>2, <1>4, <1>5 DEF AnchorsInv
<1>7. ASSUME ~Pending PROVE Drift' => Drift
  <2>1. \A b \in AnchorsOf(anchor) : anchor[b].day <= today
    BY <1>1, <1>7, ChainedRow, TableRows DEF Pending
  <2>2. {b \in AnchorsOf(anchor) : anchor[b].day <= today'}
          = {b \in AnchorsOf(anchor) : anchor[b].day <= today}
    BY <1>1, <2>1, ChainedRow, TableRows
  <2>3. InForce(anchor)' = InForce(anchor)
    BY <1>1, <2>2 DEF InForce
  <2>4. CanonicalBalance(row, anchor)' = CanonicalBalance(row, anchor)
    BY <1>1, <2>3 DEF CanonicalBalance
  <2>. QED  BY <1>1, <2>4 DEF Drift
<1>. QED  BY <1>6, <1>7

LEMMA BeginsKeep ==
  ASSUME AnchorsInv, NEW s \in Slots, NEW q \in OpenTx, Begin(s, q),
         q.stamp = clock, q.asOf = today, q.seen = stored,
         q.op \in {"create", "edit"} => q.time \in Times /\ q.amount \in Deltas,
         q.op \in {"delete", "edit"} => q.id \in LiveRows(row),
         q.op = "reconcile" =>
           q.target = CanonicalBalance(row, [anchor EXCEPT ![FreeAnchor] = AnchorOf(q)]),
         q.op = "rebuild" => q.target = CanonicalBalance(row, anchor)
  PROVE  AnchorsInv' /\ (Drift' => Drift)
<1>1. AnchorsInv'
  <2>1. AsRead(q)
    BY DEF AsRead
  <2>. QED  BY <2>1, BeginKeeps
<1>2. row' = row /\ anchor' = anchor /\ stored' = stored /\ today' = today
  BY DEF Begin
<1>3. CanonicalBalance(row, anchor)' = CanonicalBalance(row, anchor)
  BY <1>2 DEF CanonicalBalance, InForce
<1>. QED  BY <1>1, <1>2, <1>3 DEF Drift

\* An anchor that is entered now has a stamp of its own.
LEMMA NewAnchor ==
  ASSUME AnchorsInv, NEW day \in Days, NEW value \in Asserted, FreeAnchor \in AnchorId,
         NEW n, n = [day |-> day, value |-> value, created |-> clock], clock <= MaxBegins
  PROVE  Chained([anchor EXCEPT ![FreeAnchor] = n])
<1>1. PICK k, new : k = FreeAnchor /\ new = [anchor EXCEPT ![FreeAnchor] = n]
  OBVIOUS
<1>2. clock \in 0..MaxBegins
  BY AnchorsGiven DEF AnchorsInv, AnchorsTypeOK
<1>3. n \in AnchorRow /\ n.created = clock /\ n # NoAnchor
  BY <1>2, AnchorsAbsent DEF AnchorRow
<1>4. /\ \A b \in AnchorId : anchor[b] # NoAnchor <=> b < k
      /\ k \in Nat /\ k # 0 /\ k \in AnchorId /\ Chained(anchor)
  BY <1>1, FreeIds DEF AnchorsInv, Chained
<1>5. new \in [AnchorId -> AnchorRow \cup {NoAnchor}]
  BY <1>1, <1>3, <1>4 DEF Chained
<1>6. new[k] = n /\ \A b \in AnchorId \ {k} : new[b] = anchor[b]
  BY <1>1, <1>4 DEF Chained
<1>7. AnchorsOf(new) = AnchorsOf(anchor) \cup {k}
  BY <1>3, <1>4, <1>6 DEF AnchorsOf
<1>8. \A b \in AnchorsOf(anchor) : b # k /\ new[b] = anchor[b] /\ anchor[b].created # clock
  <2>1. \A b \in AnchorsOf(anchor) : anchor[b].created < clock /\ anchor[b].created \in Nat
    BY <1>4, ChainedRow DEF AnchorsInv, Stamped
  <2>2. \A b \in AnchorsOf(anchor) : b # k /\ b \in AnchorId
    BY <1>4 DEF AnchorsOf
  <2>. QED  BY <1>2, <1>6, <2>1, <2>2
<1>9. new[0] # NoAnchor /\ new[0].day = 0
  BY <1>4, <1>6, AnchorsGiven DEF Chained, AnchorId
<1>10. \A b, c \in AnchorsOf(new) : new[b].created = new[c].created => b = c
  BY <1>3, <1>4, <1>6, <1>7, <1>8 DEF Chained
<1>11. Chained(new)
  BY <1>5, <1>9, <1>10 DEF Chained
<1>. QED  BY <1>1, <1>11

LEMMA AnchorsStep ==
  ASSUME AnchorsInv, [AnchorsNext]_anchorsVars
  PROVE  /\ AnchorsInv'
         /\ \/ Drift' => Drift
            \/ Pending
            \/ ConfirmsStaleBalance
            \/ \E r \in RowId : row'[r] # row[r] /\ Absorbed(r)'
<1>. DEFINE Goal == /\ AnchorsInv'
                    /\ \/ Drift' => Drift
                       \/ Pending
                       \/ ConfirmsStaleBalance
                       \/ \E r \in RowId : row'[r] # row[r] /\ Absorbed(r)'
<1>0. /\ Rowed(row) /\ Chained(anchor) /\ stored \in Int /\ today \in Days
      /\ 0 \in Days /\ CanonicalBalance(row, anchor) \in Int
  BY TableRows, RecomputedType, AnchorsGiven
<1>00. ASSUME NEW s, NEW q, Begin(s, q) PROVE clock \in 1..MaxBegins
  BY <1>00, AnchorsGiven DEF Begin, AnchorsInv, AnchorsTypeOK
<1>1. ASSUME NEW s \in Slots, NEW time \in Times, NEW amount \in Deltas, BeginCreate(s, time, amount)
      PROVE  Goal
  <2>1. PICK q : q = Request("create", 0, time, amount, 0, 0, 0)
    OBVIOUS
  <2>2. Begin(s, q)
    BY <1>1, <2>1 DEF BeginCreate
  <2>3. q \in OpenTx /\ q.op = "create" /\ q.time = time /\ q.amount = amount
        /\ q.stamp = clock /\ q.asOf = today /\ q.seen = stored
    BY <1>0, <1>00, <2>1, <2>2 DEF Request, OpenTx
  <2>. QED  BY <2>2, <2>3, BeginsKeep
<1>2. ASSUME NEW s \in Slots, NEW r \in RowId, BeginDelete(s, r) PROVE Goal
  <2>1. PICK q : q = Request("delete", r, 0, 0, 0, 0, 0)
    OBVIOUS
  <2>2. Begin(s, q) /\ r \in LiveRows(row)
    BY <1>2, <2>1 DEF BeginDelete
  <2>3. q \in OpenTx /\ q.op = "delete" /\ q.id = r
        /\ q.stamp = clock /\ q.asOf = today /\ q.seen = stored
    BY <1>0, <1>00, <2>1, <2>2 DEF Request, OpenTx
  <2>. QED  BY <2>2, <2>3, BeginsKeep
<1>3. ASSUME NEW s \in Slots, NEW r \in RowId, NEW time \in Times, NEW amount \in Deltas,
             BeginEdit(s, r, time, amount)
      PROVE  Goal
  <2>1. PICK q : q = Request("edit", r, time, amount, 0, 0, 0)
    OBVIOUS
  <2>2. Begin(s, q) /\ r \in LiveRows(row)
    BY <1>3, <2>1 DEF BeginEdit
  <2>3. q \in OpenTx /\ q.op = "edit" /\ q.id = r /\ q.time = time /\ q.amount = amount
        /\ q.stamp = clock /\ q.asOf = today /\ q.seen = stored
    BY <1>0, <1>00, <2>1, <2>2 DEF Request, OpenTx
  <2>. QED  BY <2>2, <2>3, BeginsKeep
<1>4. ASSUME NEW s \in Slots, NEW day \in Days, NEW value \in Asserted, BeginReconcile(s, day, value)
      PROVE  Goal
  <2>1. PICK n : n = [day |-> day, value |-> value, created |-> clock]
    OBVIOUS
  <2>2. PICK target : target = CanonicalBalance(row, [anchor EXCEPT ![FreeAnchor] = n])
    OBVIOUS
  <2>3. PICK q : q = Request("reconcile", 0, 0, 0, day, value, target)
    OBVIOUS
  <2>4. Begin(s, q) /\ FreeAnchor \in AnchorId
    BY <1>4, <2>1, <2>2, <2>3 DEF BeginReconcile
  <2>5. target \in Int
    <3>1. clock <= MaxBegins
      BY <2>4 DEF Begin
    <3>2. Chained([anchor EXCEPT ![FreeAnchor] = n])
      BY <2>1, <2>4, <3>1, NewAnchor
    <3>. QED  BY <1>0, <2>2, <3>2, RecomputedType
  <2>6. q \in OpenTx /\ q.op = "reconcile" /\ q.target = target /\ AnchorOf(q) = n
        /\ q.stamp = clock /\ q.asOf = today /\ q.seen = stored
    BY <1>0, <1>00, <2>1, <2>3, <2>4, <2>5 DEF Request, OpenTx, AnchorOf
  <2>. QED  BY <2>2, <2>4, <2>6, BeginsKeep
<1>5. ASSUME NEW s \in Slots, BeginRebuild(s) PROVE Goal
  <2>1. PICK q : q = Request("rebuild", 0, 0, 0, 0, 0, CanonicalBalance(row, anchor))
    OBVIOUS
  <2>2. Begin(s, q)
    BY <1>5, <2>1 DEF BeginRebuild
  <2>3. q \in OpenTx /\ q.op = "rebuild" /\ q.target = CanonicalBalance(row, anchor)
        /\ q.stamp = clock /\ q.asOf = today /\ q.seen = stored
    BY <1>0, <1>00, <2>1, <2>2 DEF Request, OpenTx
  <2>. QED  BY <2>2, <2>3, BeginsKeep
<1>6. ASSUME NEW s \in Slots, CommitCreate(s) \/ CommitDelete(s) \/ CommitEdit(s) PROVE Goal
  <2>1. AnchorsInv' /\ Tells
    BY <1>6, CreateKeeps, DeleteKeeps, EditKeeps
  <2>. QED  BY <2>1 DEF Tells
<1>7. ASSUME NEW s \in Slots, CommitReconcile(s) PROVE Goal
  BY <1>7, ReconcileKeeps
<1>8. ASSUME NEW s \in Slots, CommitRebuild(s) PROVE Goal
  BY <1>8, RebuildKeeps
<1>9. ASSUME NEW s \in Slots, Abort(s) PROVE Goal
  BY <1>9, AbortKeeps
<1>10. CASE Midnights
  BY <1>10, MidnightsKeeps
<1>11. CASE UNCHANGED anchorsVars
  <2>1. /\ row' = row /\ anchor' = anchor /\ stored' = stored
        /\ today' = today /\ clock' = clock /\ flight' = flight
    BY <1>11 DEF anchorsVars
  <2>2. CanonicalBalance(row, anchor)' = CanonicalBalance(row, anchor)
    BY <2>1 DEF CanonicalBalance, InForce
  <2>3. AnchorsTypeOK' /\ Chained(anchor)' /\ Filled' /\ Stamped'
    BY <2>1 DEF AnchorsInv, AnchorsTypeOK, Filled, Stamped
  <2>4. ASSUME NEW s \in Slots, flight[s] # Idle PROVE AsRead(flight[s])'
    <3>1. PICK w : w = flight[s]
      OBVIOUS
    <3>2. AsRead(w) /\ Continued(w, w)
      BY <2>4, <3>1 DEF AnchorsInv, Continued
    <3>3. AsRead(w)'
      BY <2>1, <3>2, ReadOnRow
    <3>. QED  BY <2>1, <3>1, <3>3 DEF AsRead
  <2>. QED  BY <2>1, <2>2, <2>3, <2>4 DEF AnchorsInv, Drift
<1>. QED  BY <1>1, <1>2, <1>3, <1>4, <1>5, <1>6, <1>7, <1>8, <1>9, <1>10, <1>11 DEF AnchorsNext

-----------------------------------------------------------------------------
(* The chain of the anchors. *)

Anchored == AnchorsOf(anchor)

\* Entered in the order of their dates, anchors follow each other as they were
\* created.
LEMMA InOrderOfCreation ==
  ASSUME AnchorsInv, EnteredInOrder, NEW a \in Anchored, NEW b \in Anchored
  PROVE  Before(anchor[a], anchor[b]) <=> anchor[a].created < anchor[b].created
<1>1. /\ anchor[a].day \in Nat /\ anchor[a].created \in Nat
      /\ anchor[b].day \in Nat /\ anchor[b].created \in Nat
  BY ChainedRow DEF AnchorsInv, Anchored
<1>2. /\ anchor[a].day < anchor[b].day => anchor[a].created < anchor[b].created
      /\ anchor[b].day < anchor[a].day => anchor[b].created < anchor[a].created
  BY DEF EnteredInOrder, Anchored
<1>. QED  BY <1>1, <1>2 DEF Before

\* What is flow on top of an anchor is flow on top of those before it.
LEMMA FlowGoesBack ==
  ASSUME AnchorsInv, EnteredInOrder, NEW r \in LiveRows(row),
         NEW a \in Anchored, NEW b \in Anchored,
         anchor[a].created <= anchor[b].created, AfterAnchor(row[r], anchor[b])
  PROVE  AfterAnchor(row[r], anchor[a])
<1>1. /\ anchor[a].day \in Nat /\ anchor[a].created \in Nat
      /\ anchor[b].day \in Nat /\ anchor[b].created \in Nat
  BY ChainedRow DEF AnchorsInv, Anchored
<1>2. anchor[a].day <= anchor[b].day
  BY <1>1 DEF EnteredInOrder, Anchored
<1>3. row[r].time \in Nat /\ row[r].created \in Nat
  <2>1. row[r] \in CashRow
    BY RowType, TableRows
  <2>2. row[r].time \in Times /\ row[r].created \in 1..MaxBegins
    BY <2>1 DEF CashRow
  <2>3. Times \subseteq Nat /\ 1..MaxBegins \subseteq Nat
    BY AnchorsGiven
  <2>. QED  BY <2>2, <2>3, Zenon
<1>. QED  BY <1>1, <1>2, <1>3 DEF AfterAnchor, Midnight

\* Of some anchors one was created first and one last.
LEMMA Ends ==
  ASSUME AnchorsInv, NEW P \in SUBSET Anchored, P # {}
  PROVE  /\ \E a \in P : \A b \in P : anchor[a].created <= anchor[b].created
         /\ \E a \in P : \A b \in P : anchor[b].created <= anchor[a].created
<1>. DEFINE C == {anchor[a].created : a \in P}
<1>1. \A a \in P : anchor[a].created \in Nat /\ anchor[a].created <= MaxBegins
  BY ChainedRow DEF AnchorsInv, Anchored
<1>2. C \in SUBSET Nat /\ C \in SUBSET Int /\ C # {} /\ MaxBegins \in Int /\ \A c \in C : c <= MaxBegins
  BY <1>1, AnchorsGiven
<1>3. PICK c \in C : \A e \in C : c <= e
  <2>. HIDE DEF C
  <2>. QED  BY <1>2, LeastNumber
<1>4. PICK d \in C : \A e \in C : e <= d
  <2>. HIDE DEF C
  <2>. QED  BY <1>2, GreatestNumber
<1>. QED  BY <1>3, <1>4

LEMMA ChainPartitions == AnchorsInv => ChainPartitionsRows
<1>. SUFFICES ASSUME AnchorsInv, EnteredInOrder, NEW r \in LiveRows(row)
              PROVE  Buckets(r) = 1
  BY DEF ChainPartitionsRows
<1>. DEFINE made(a) == anchor[a].created
            After(a) == AfterAnchor(row[r], anchor[a])
<1>1. \A a \in Anchored : made(a) \in Nat
  BY ChainedRow DEF AnchorsInv, Anchored
<1>2. \A a, b \in Anchored : made(a) = made(b) => a = b
  BY DEF AnchorsInv, Chained, Anchored
<1>3. \A a, b \in Anchored : Before(anchor[a], anchor[b]) <=> made(a) < made(b)
  BY InOrderOfCreation
<1>4. \A a, b \in Anchored : made(a) <= made(b) /\ After(b) => After(a)
  BY FlowGoesBack
<1>5. Anchored \in SUBSET Anchored /\ Anchored # {}
  BY AnchorsGiven DEF AnchorsInv, Chained, Anchored, AnchorsOf, AnchorId
<1>6. First \in Anchored /\ \A b \in Anchored : made(First) <= made(b)
  <2>1. PICK a \in Anchored : \A b \in Anchored : made(a) <= made(b)
    BY <1>5, Ends
  <2>2. \A b \in Anchored \ {a} : Before(anchor[a], anchor[b])
    BY <1>1, <1>2, <1>3, <2>1
  <2>3. First \in Anchored /\ \A b \in Anchored \ {First} : Before(anchor[First], anchor[b])
    BY <2>1, <2>2 DEF First, Anchored
  <2>. QED  BY <1>1, <1>3, <2>3
<1>7. LastAnchor \in Anchored /\ \A b \in Anchored : made(b) <= made(LastAnchor)
  <2>1. PICK a \in Anchored : \A b \in Anchored : made(b) <= made(a)
    BY <1>5, Ends
  <2>2. \A b \in Anchored \ {a} : Before(anchor[b], anchor[a])
    BY <1>1, <1>2, <1>3, <2>1
  <2>3. LastAnchor \in Anchored /\ \A b \in Anchored \ {LastAnchor} : Before(anchor[b], anchor[LastAnchor])
    BY <2>1, <2>2 DEF LastAnchor, Anchored
  <2>. QED  BY <1>1, <1>3, <2>3
<1>8. Segments(r) = {p \in Anchored \X Anchored :
        /\ made(p[1]) < made(p[2])
        /\ \A c \in Anchored : ~(made(p[1]) < made(c) /\ made(c) < made(p[2]))
        /\ After(p[1]) /\ ~After(p[2])}
  BY <1>3 DEF Segments, Neighbours, InSegment, Anchored
<1>9. Buckets(r) = Cardinality(Segments(r)) + (IF After(First) THEN 0 ELSE 1) + (IF After(LastAnchor) THEN 1 ELSE 0)
  BY DEF Buckets
<1>. HIDE DEF made, After
<1>10. CASE ~After(First)
  <2>1. \A a \in Anchored : ~After(a)
    BY <1>4, <1>6, <1>10
  <2>2. Segments(r) = {}
    BY <1>8, <2>1
  <2>. QED  BY <1>7, <1>9, <1>10, <2>1, <2>2, FS_EmptySet
<1>11. CASE After(LastAnchor)
  <2>1. \A a \in Anchored : After(a)
    BY <1>4, <1>7, <1>11
  <2>2. Segments(r) = {}
    BY <1>8, <2>1
  <2>. QED  BY <1>6, <1>9, <1>11, <2>1, <2>2, FS_EmptySet
<1>12. CASE After(First) /\ ~After(LastAnchor)
  <2>. DEFINE P == {a \in Anchored : After(a)}
              Q == {a \in Anchored : ~After(a)}
  <2>1. P \in SUBSET Anchored /\ Q \in SUBSET Anchored /\ P # {} /\ Q # {}
    BY <1>6, <1>7, <1>12
  <2>2. PICK a \in P : \A c \in P : made(c) <= made(a)
    <3>. HIDE DEF P, Q
    <3>. QED  BY <2>1, Ends DEF made
  <2>3. PICK b \in Q : \A c \in Q : made(b) <= made(c)
    <3>. HIDE DEF P, Q
    <3>. QED  BY <2>1, Ends DEF made
  <2>4. \A c \in Anchored : made(c) <= made(a) \/ made(b) <= made(c)
    BY <2>2, <2>3
  <2>5. made(a) < made(b)
    BY <1>1, <1>4, <2>2, <2>3
  <2>6. ASSUME NEW c \in Anchored, NEW d \in Anchored, made(c) < made(d),
               \A e \in Anchored : ~(made(c) < made(e) /\ made(e) < made(d)),
               After(c), ~After(d)
        PROVE  c = a /\ d = b
    <3>1. made(c) <= made(a) /\ made(b) <= made(d)
      BY <2>2, <2>3, <2>6
    <3>2. ~(made(c) < made(a) /\ made(a) < made(d)) /\ ~(made(c) < made(b) /\ made(b) < made(d))
      BY <2>2, <2>3, <2>6
    <3>. QED  BY <1>1, <1>2, <2>5, <3>1, <3>2
  <2>7. <<a, b>> \in Segments(r)
    BY <1>1, <1>8, <2>2, <2>3, <2>4, <2>5
  <2>8. \A p \in Segments(r) : p = <<a, b>>
    BY <1>8, <2>6
  <2>9. Segments(r) = {<<a, b>>}
    BY <2>7, <2>8
  <2>10. Cardinality(Segments(r)) = 1
    BY <2>9, FS_Singleton
  <2>. QED  BY <1>9, <1>12, <2>10
<1>. QED  BY <1>10, <1>11, <1>12

\* Nothing but an absorbed row, a confirmation of a balance that has changed, or
\* the calendar opens a drift, and the chain of anchors gives every row to one
\* segment, whatever overlaps.
THEOREM DriftHasACause == AnchorsSpec => DriftIsExplained
<1>. DEFINE Act == /\ ~Drift /\ Drift' =>
                        \/ Pending
                        \/ ConfirmsStaleBalance
                        \/ \E r \in RowId : row'[r] # row[r] /\ Absorbed(r)'
                   /\ ChainPartitionsRows'
<1>1. AnchorsInv /\ [AnchorsNext]_anchorsVars => AnchorsInv' /\ Act
  <2>1. AnchorsInv' => ChainPartitionsRows'
    BY ChainPartitions, PTL
  <2>. QED  BY <2>1, AnchorsStep
<1>2. AnchorsSpec => []AnchorsInv
  BY <1>1, AnchorsInvInit, PTL DEF AnchorsSpec
<1>3. AnchorsInv /\ [AnchorsNext]_anchorsVars => [Act]_anchorsVars
  BY <1>1
<1>. QED  BY <1>2, <1>3, PTL DEF DriftIsExplained, AnchorsSpec

=============================================================================
