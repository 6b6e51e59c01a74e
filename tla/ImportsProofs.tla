--------------------------- MODULE ImportsProofs ---------------------------
(***************************************************************************)
(* Proofs about Imports, for any files, file and chunk lengths, handlers   *)
(* and bounds; about SurePairing, for any legs and transfers; and about    *)
(* SureMigration, for any exports, pairs, chunks and bounds.               *)
(*                                                                         *)
(* A run inserts after the rows that it counted, and while it is the only  *)
(* one of its file nobody else inserts any: what it has inserted is what   *)
(* is staged.  Every run classifies the whole file, so the verdict on a    *)
(* row does not depend on which run inserted it.                           *)
(*                                                                         *)
(* The transactions are numbered as they are booked, and a promoted row    *)
(* bears its number: that each row is booked once is a correspondence      *)
(* between the two that every promotion extends (Book).                    *)
(*                                                                         *)
(* The transfers of Sure are placed one after the other, and the rest of   *)
(* the legs by their clusters: a pair keeps the reason it was made for     *)
(* (PlacedBy, PairedForAReason).                                           *)
(*                                                                         *)
(* A migration may stop anywhere.  What it has done is therefore said of   *)
(* the rows and of the book alone (RowsSound, BookSound), and what it must *)
(* still do is said of the place where it is (RunSound).                   *)
(***************************************************************************)
EXTENDS Imports, SurePairing, SureMigration, CollectionTheorems, SequenceTheorems

\* Rows of a batch; what a row says of its transaction is left open.
RowOf(T) == [pos: Position, clean: BOOLEAN, status: RowStatus, txn: T]

Run == [pc: {"insert"}, file: Files, clean: [Position -> BOOLEAN], next: 0..FileLength]

Typed ==
  /\ \E T : 0 \in T /\ staged \in [Files -> Seq(RowOf(T))]
  /\ run \in [Handlers -> {Idle} \cup Run]
  /\ DOMAIN batch = Files

\* A file that was never opened twice at once has one run at most.
Alone ==
  \A g, h \in Handlers :
    run[g] # Idle /\ run[h] # Idle /\ run[g].file = run[h].file /\ run[g].file \notin overlapped
      => g = h

\* Such a run inserts where the staged rows end.
InStep ==
  \A h \in Handlers :
    run[h] # Idle /\ run[h].file \notin overlapped => run[h].next = Len(staged[run[h].file])

\* No row of file f before n has the fingerprint of row n.
First(f, n) == \A k \in 1..(n - 1) : Fingerprint(f, k) # Fingerprint(f, n)

\* Only the first row of a fingerprint passes for new.
CleanIsFirst ==
  /\ \A h \in Handlers : run[h] # Idle =>
       \A n \in Position : run[h].clean[n] => First(run[h].file, n)
  /\ \A f \in Files : \A n \in DOMAIN staged[f] :
       staged[f][n].clean => First(f, staged[f][n].pos)

IInv == Typed /\ Alone /\ InStep /\ CleanIsFirst /\ StagedIsThePrefix

USE ImportsAssumption

-----------------------------------------------------------------------------
LEMMA RunFacts ==
  ASSUME IInv, NEW h \in Handlers, run[h] # Idle
  PROVE  /\ run[h] \in Run /\ run[h].file \in Files
         /\ run[h].clean \in [Position -> BOOLEAN]
         /\ run[h].next \in Nat /\ run[h].next <= FileLength
<1>1. run[h] \in Run
  BY DEF IInv, Typed
<1>2. run[h].next \in 0..FileLength
  BY <1>1 DEF Run
<1>. QED  BY <1>1, <1>2 DEF Run

\* A step that rewrites rows without moving them, and reopens no batch.
LEMMA RowsStay ==
  ASSUME IInv, UNCHANGED <<run, overlapped>>, DOMAIN batch' = Files,
         NEW T, 0 \in T, staged' \in [Files -> Seq(RowOf(T))],
         \A f \in Files :
           /\ Len(staged'[f]) = Len(staged[f])
           /\ \A n \in 1..Len(staged[f]) : /\ staged'[f][n].pos = staged[f][n].pos
                                           /\ staged'[f][n].clean = staged[f][n].clean
           /\ IsPending(f) => IsPending(f)'
  PROVE  IInv'
<1>1. \A f \in Files : /\ DOMAIN staged[f] = 1..Len(staged[f])
                       /\ DOMAIN staged'[f] = 1..Len(staged[f])
  <2>1. PICK U : staged \in [Files -> Seq(RowOf(U))]
    BY DEF IInv, Typed
  <2>. TAKE f \in Files
  <2>2. staged[f] \in Seq(RowOf(U)) /\ staged'[f] \in Seq(RowOf(T))
    BY <2>1
  <2>. QED  BY <2>2, LenProperties
<1>2. Typed'
  BY DEF IInv, Typed
<1>3. Alone'
  BY DEF IInv, Alone
<1>4. InStep'
  BY RunFacts DEF IInv, InStep
<1>5. CleanIsFirst'
  <2>1. \A h \in Handlers : run'[h] # Idle =>
          \A n \in Position : run'[h].clean[n] => First(run'[h].file, n)
    BY DEF IInv, CleanIsFirst
  <2>2. \A f \in Files : \A n \in DOMAIN staged'[f] :
          staged'[f][n].clean => First(f, staged'[f][n].pos)
    BY <1>1 DEF IInv, CleanIsFirst
  <2>. QED  BY <2>1, <2>2 DEF CleanIsFirst, First
<1>6. StagedIsThePrefix'
  <2>1. \A f \in Files \ overlapped :
          /\ Len(staged[f]) <= FileLength
          /\ \A n \in DOMAIN staged[f] : staged[f][n].pos = n
          /\ ~IsPending(f) => Len(staged[f]) = FileLength
    BY DEF IInv, StagedIsThePrefix
  <2>2. \A f \in Files \ overlapped :
          /\ Len(staged'[f]) <= FileLength
          /\ \A n \in DOMAIN staged'[f] : staged'[f][n].pos = n
          /\ ~IsPending(f)' => Len(staged'[f]) = FileLength
    BY <2>1, <1>1
  <2>. QED  BY <2>2 DEF StagedIsThePrefix
<1>. QED  BY <1>2, <1>3, <1>4, <1>5, <1>6 DEF IInv

-----------------------------------------------------------------------------
(* The steps. *)

LEMMA SetupStep ==
  ASSUME IInv, NEW h \in Handlers, NEW f \in Files, Setup(h, f)
  PROVE  IInv'
<1>. DEFINE r == [pc |-> "insert", file |-> f, clean |-> Classify(f, ResumeAt(f)),
                  next |-> ResumeAt(f)]
<1>1. PICK T : 0 \in T /\ staged \in [Files -> Seq(RowOf(T))]
  BY DEF IInv, Typed
<1>2. staged[f] \in Seq(RowOf(T)) /\ Len(staged[f]) \in Nat
  BY <1>1, LenProperties
<1>3. Classify(f, ResumeAt(f)) \in [Position -> BOOLEAN]
  BY DEF Classify, IsNew
<1>4. r \in Run /\ r # Idle
  <2>1. ResumeAt(f) \in 0..FileLength
    BY <1>2 DEF ResumeAt, Setup
  <2>2. r \in Run
    BY <1>3, <2>1 DEF Run
  <2>. QED  BY <2>2 DEF Idle
<1>5. /\ run[h] = Idle
      /\ batch' = [batch EXCEPT ![f] = Pending]
      /\ run' = [run EXCEPT ![h] = r]
      /\ UNCHANGED staged
  BY DEF Setup
<1>6. /\ run'[h] = r
      /\ \A g \in Handlers \ {h} : run'[g] = run[g]
      /\ run' \in [Handlers -> {Idle} \cup Run]
  BY <1>4, <1>5 DEF IInv, Typed
<1>7. /\ overlapped \subseteq overlapped'
      /\ f \notin overlapped' => \A g \in Handlers : run[g] # Idle => run[g].file # f
  BY DEF Setup
<1>8. Typed'
  BY <1>1, <1>5, <1>6 DEF IInv, Typed
<1>9. Alone'
  <2>. SUFFICES ASSUME NEW i \in Handlers, NEW j \in Handlers, run'[i] # Idle, run'[j] # Idle,
                       run'[i].file = run'[j].file, run'[i].file \notin overlapped'
                PROVE  i = j
    BY DEF Alone
  <2>1. CASE i # h /\ j # h
    BY <2>1, <1>6, <1>7 DEF IInv, Alone
  <2>2. CASE i = h /\ j # h
    BY <2>2, <1>6, <1>7
  <2>3. CASE i # h /\ j = h
    BY <2>3, <1>6, <1>7
  <2>. QED  BY <2>1, <2>2, <2>3
<1>10. InStep'
  <2>1. \A g \in Handlers \ {h} : run'[g] # Idle /\ run'[g].file \notin overlapped' =>
          run'[g].next = Len(staged'[run'[g].file])
    BY <1>5, <1>6, <1>7 DEF IInv, InStep
  <2>2. run'[h].next = Len(staged'[run'[h].file])
    BY <1>5, <1>6 DEF ResumeAt
  <2>. QED  BY <2>1, <2>2 DEF InStep
<1>11. CleanIsFirst'
  <2>1. \A n \in Position : Classify(f, ResumeAt(f))[n] => First(f, n)
    BY DEF Classify, IsNew, First
  <2>2. \A g \in Handlers : run'[g] # Idle =>
          \A n \in Position : run'[g].clean[n] => First(run'[g].file, n)
    BY <2>1, <1>6 DEF IInv, CleanIsFirst
  <2>3. \A g \in Files : \A n \in DOMAIN staged'[g] :
          staged'[g][n].clean => First(g, staged'[g][n].pos)
    BY <1>5 DEF IInv, CleanIsFirst
  <2>. QED  BY <2>2, <2>3 DEF CleanIsFirst, First
<1>12. StagedIsThePrefix'
  <2>1. \A g \in Files : IsPending(g) => IsPending(g)'
    <3>1. batch'[f].status = "pending"
      BY <1>5 DEF IInv, Typed, Pending
    <3>2. \A g \in Files \ {f} : batch'[g] = batch[g]
      BY <1>5 DEF IInv, Typed
    <3>. QED  BY <3>1, <3>2 DEF IsPending
  <2>2. \A g \in Files \ overlapped :
          /\ Len(staged'[g]) <= FileLength
          /\ \A n \in DOMAIN staged'[g] : staged'[g][n].pos = n
          /\ ~IsPending(g)' => Len(staged'[g]) = FileLength
    BY <2>1, <1>5 DEF IInv, StagedIsThePrefix
  <2>. QED  BY <2>2, <1>7 DEF StagedIsThePrefix
<1>. QED  BY <1>8, <1>9, <1>10, <1>11, <1>12 DEF IInv

LEMMA InsertStep ==
  ASSUME IInv, NEW h \in Handlers, InsertChunk(h)
  PROVE  IInv'
<1>. DEFINE r == run[h]
            f == r.file
            last == IF r.next + ChunkSize < FileLength THEN r.next + ChunkSize ELSE FileLength
            rows == [i \in 1..(last - r.next) |-> Prepared(r, r.next + i)]
<1>1. /\ r # Idle /\ r.next < FileLength
      /\ staged' = [staged EXCEPT ![f] = @ \o rows]
      /\ run' = [run EXCEPT ![h].next = last]
      /\ UNCHANGED <<batch, overlapped>>
  BY DEF InsertChunk
<1>2. /\ r \in Run /\ f \in Files /\ r.clean \in [Position -> BOOLEAN] /\ r.next \in Nat
  BY <1>1, RunFacts
<1>3. PICK T : 0 \in T /\ staged \in [Files -> Seq(RowOf(T))]
  BY DEF IInv, Typed
<1>4. last \in Nat /\ r.next <= last /\ last <= FileLength /\ last - r.next \in Nat
  BY <1>1, <1>2
<1>. HIDE DEF last
<1>5. \A i \in 1..(last - r.next) : r.next + i \in Position
  BY <1>2, <1>4 DEF Position
<1>6. \A i \in 1..(last - r.next) :
        /\ Prepared(r, r.next + i) \in RowOf(T)
        /\ Prepared(r, r.next + i).pos = r.next + i
        /\ Prepared(r, r.next + i).clean = r.clean[r.next + i]
  <2>. TAKE i \in 1..(last - r.next)
  <2>1. r.clean[r.next + i] \in BOOLEAN
    BY <1>2, <1>5
  <2>. QED  BY <2>1, <1>3, <1>5 DEF Prepared, RowOf, RowStatus
<1>7. rows \in Seq(RowOf(T)) /\ Len(rows) = last - r.next
  <2>1. rows \in [1..(last - r.next) -> RowOf(T)]
    BY <1>6
  <2>2. rows \in Seq(RowOf(T))
    BY <2>1, <1>4, SeqDef
  <2>3. DOMAIN rows = 1..Len(rows) /\ DOMAIN rows = 1..(last - r.next) /\ Len(rows) \in Nat
    BY <2>2, LenProperties
  <2>. QED  BY <2>2, <2>3, <1>4
<1>8. \A i \in 1..Len(rows) : /\ rows[i].pos = r.next + i
                              /\ rows[i].clean = r.clean[r.next + i]
                              /\ r.next + i \in Position
  BY <1>5, <1>6, <1>7
<1>. HIDE DEF rows
<1>9. staged[f] \in Seq(RowOf(T)) /\ Len(staged[f]) \in Nat /\ DOMAIN staged[f] = 1..Len(staged[f])
  BY <1>2, <1>3, LenProperties
<1>10. /\ staged' \in [Files -> Seq(RowOf(T))]
       /\ staged'[f] = staged[f] \o rows
       /\ Len(staged'[f]) = Len(staged[f]) + Len(rows)
       /\ DOMAIN staged'[f] = 1..(Len(staged[f]) + Len(rows))
       /\ \A n \in 1..Len(staged[f]) : staged'[f][n] = staged[f][n]
       /\ \A n \in 1..(Len(staged[f]) + Len(rows)) :
            n > Len(staged[f]) => staged'[f][n] = rows[n - Len(staged[f])]
       /\ \A g \in Files \ {f} : staged'[g] = staged[g]
  <2>1. /\ staged[f] \o rows \in Seq(RowOf(T))
        /\ Len(staged[f] \o rows) = Len(staged[f]) + Len(rows)
        /\ \A n \in 1..Len(staged[f]) + Len(rows) :
             (staged[f] \o rows)[n] = IF n <= Len(staged[f]) THEN staged[f][n]
                                      ELSE rows[n - Len(staged[f])]
    BY <1>7, <1>9, ConcatProperties
  <2>2. staged' \in [Files -> Seq(RowOf(T))] /\ staged'[f] = staged[f] \o rows
        /\ \A g \in Files \ {f} : staged'[g] = staged[g]
    BY <2>1, <1>1, <1>2, <1>3
  <2>3. DOMAIN staged'[f] = 1..Len(staged'[f])
    BY <2>1, <2>2, LenProperties
  <2>4. Len(rows) \in Nat
    BY <1>4, <1>7
  <2>. QED  BY <2>1, <2>2, <2>3, <2>4, <1>9
<1>11. \A n \in DOMAIN staged'[f] : n \notin 1..Len(staged[f]) =>
         n - Len(staged[f]) \in 1..Len(rows) /\ staged'[f][n] = rows[n - Len(staged[f])]
  <2>. TAKE n \in DOMAIN staged'[f]
  <2>. HAVE n \notin 1..Len(staged[f])
  <2>1. Len(rows) \in Nat
    BY <1>4, <1>7
  <2>2. n \in 1..(Len(staged[f]) + Len(rows)) /\ n > Len(staged[f])
    BY <2>1, <1>9, <1>10
  <2>3. n - Len(staged[f]) \in 1..Len(rows)
    BY <2>1, <2>2, <1>9
  <2>. QED  BY <2>2, <2>3, <1>10
<1>12. /\ run'[h] \in Run /\ run'[h] # Idle /\ run'[h].file = f /\ run'[h].clean = r.clean
       /\ run'[h].next = last
       /\ \A g \in Handlers \ {h} : run'[g] = run[g]
       /\ run' \in [Handlers -> {Idle} \cup Run]
  <2>1. run'[h] = [r EXCEPT !.next = last] /\ \A g \in Handlers \ {h} : run'[g] = run[g]
    BY <1>1 DEF IInv, Typed
  <2>2. [r EXCEPT !.next = last] \in Run
    BY <1>2, <1>4 DEF Run
  <2>3. run'[h].file = f /\ run'[h].clean = r.clean /\ run'[h].next = last
    BY <2>1, <1>2 DEF Run
  <2>4. run'[h] # Idle
    BY <2>1, <2>2 DEF Run, Idle
  <2>5. run' \in [Handlers -> {Idle} \cup Run]
    BY <2>2, <1>1 DEF IInv, Typed
  <2>. QED  BY <2>1, <2>2, <2>3, <2>4, <2>5
<1>13. Typed'
  BY <1>1, <1>3, <1>10, <1>12 DEF IInv, Typed
<1>14. Alone'
  <2>1. \A g \in Handlers : (run'[g] # Idle <=> run[g] # Idle) /\ run'[g].file = run[g].file
    BY <1>1, <1>12
  <2>. QED  BY <2>1, <1>1 DEF IInv, Alone
<1>15. f \notin overlapped => r.next = Len(staged[f])
  BY <1>1 DEF IInv, InStep
<1>16. InStep'
  <2>1. f \notin overlapped => last = Len(staged'[f])
    BY <1>2, <1>4, <1>7, <1>10, <1>15
  <2>2. \A g \in Handlers \ {h} : run[g] # Idle /\ run[g].file \notin overlapped => run[g].file # f
    BY <1>1 DEF IInv, Alone
  <2>3. \A g \in Handlers \ {h} : run[g] # Idle /\ run[g].file \notin overlapped =>
          run[g].next = Len(staged'[run[g].file])
    BY <2>2, <1>10, RunFacts DEF IInv, InStep
  <2>. QED  BY <2>1, <2>3, <1>1, <1>12 DEF InStep
<1>17. CleanIsFirst'
  <2>1. \A n \in Position : r.clean[n] => First(f, n)
    BY <1>1 DEF IInv, CleanIsFirst
  <2>2. \A g \in Handlers : run'[g] # Idle =>
          \A n \in Position : run'[g].clean[n] => First(run'[g].file, n)
    BY <2>1, <1>12 DEF IInv, CleanIsFirst
  <2>3. \A n \in DOMAIN staged'[f] : staged'[f][n].clean => First(f, staged'[f][n].pos)
    <3>. TAKE n \in DOMAIN staged'[f]
    <3>1. CASE n \in 1..Len(staged[f])
      BY <3>1, <1>2, <1>9, <1>10 DEF IInv, CleanIsFirst
    <3>2. CASE n \notin 1..Len(staged[f])
      <4>1. n - Len(staged[f]) \in 1..Len(rows) /\ staged'[f][n] = rows[n - Len(staged[f])]
        BY <3>2, <1>11
      <4>. QED  BY <4>1, <2>1, <1>8
    <3>. QED  BY <3>1, <3>2
  <2>4. \A g \in Files : \A n \in DOMAIN staged'[g] :
          staged'[g][n].clean => First(g, staged'[g][n].pos)
    BY <2>3, <1>10 DEF IInv, CleanIsFirst
  <2>. QED  BY <2>2, <2>4 DEF CleanIsFirst, First
<1>18. StagedIsThePrefix'
  <2>1. \A g \in Files : IsPending(g)' <=> IsPending(g)
    BY <1>1 DEF IsPending
  <2>2. f \notin overlapped =>
          /\ Len(staged'[f]) <= FileLength
          /\ \A n \in DOMAIN staged'[f] : staged'[f][n].pos = n
          /\ ~IsPending(f) => Len(staged'[f]) = FileLength
    <3>. SUFFICES ASSUME f \notin overlapped
                  PROVE  /\ Len(staged'[f]) <= FileLength
                         /\ \A n \in DOMAIN staged'[f] : staged'[f][n].pos = n
                         /\ IsPending(f)
      OBVIOUS
    <3>1. /\ r.next = Len(staged[f])
          /\ \A n \in DOMAIN staged[f] : staged[f][n].pos = n
          /\ ~IsPending(f) => Len(staged[f]) = FileLength
      BY <1>2, <1>15 DEF IInv, StagedIsThePrefix
    <3>2. Len(staged'[f]) <= FileLength
      BY <3>1, <1>4, <1>7, <1>9, <1>10
    <3>3. \A n \in DOMAIN staged'[f] : staged'[f][n].pos = n
      <4>. TAKE n \in DOMAIN staged'[f]
      <4>1. CASE n \in 1..Len(staged[f])
        BY <4>1, <3>1, <1>9, <1>10
      <4>2. CASE n \notin 1..Len(staged[f])
        <5>1. n - Len(staged[f]) \in 1..Len(rows) /\ staged'[f][n] = rows[n - Len(staged[f])]
          BY <4>2, <1>11
        <5>2. staged'[f][n].pos = r.next + (n - Len(staged[f]))
          BY <5>1, <1>8
        <5>3. n \in Int
          BY <1>10
        <5>. QED  BY <5>2, <5>3, <3>1, <1>9
      <4>. QED  BY <4>1, <4>2
    <3>4. IsPending(f)
      BY <3>1, <1>1, <1>9
    <3>. QED  BY <3>2, <3>3, <3>4
  <2>3. \A g \in Files \ overlapped :
          /\ Len(staged'[g]) <= FileLength
          /\ \A n \in DOMAIN staged'[g] : staged'[g][n].pos = n
          /\ ~IsPending(g) => Len(staged'[g]) = FileLength
    BY <2>2, <1>10 DEF IInv, StagedIsThePrefix
  <2>. QED  BY <2>1, <2>3, <1>1 DEF StagedIsThePrefix
<1>. QED  BY <1>13, <1>14, <1>16, <1>17, <1>18 DEF IInv

\* A run ends, having finished or died.
LEMMA RunEnds ==
  ASSUME IInv, NEW h \in Handlers, run[h] # Idle, run' = [run EXCEPT ![h] = Idle],
         UNCHANGED <<staged, overlapped>>, DOMAIN batch' = Files,
         \A f \in Files : f # run[h].file => batch'[f] = batch[f],
         \/ run[h].next = FileLength
         \/ batch' = batch
  PROVE  IInv'
<1>1. /\ run'[h] = Idle /\ \A g \in Handlers \ {h} : run'[g] = run[g]
      /\ run' \in [Handlers -> {Idle} \cup Run]
  BY DEF IInv, Typed
<1>2. Typed'
  BY <1>1 DEF IInv, Typed
<1>3. Alone'
  BY <1>1 DEF IInv, Alone
<1>4. InStep'
  BY <1>1 DEF IInv, InStep
<1>5. CleanIsFirst'
  <2>1. \A g \in Handlers : run'[g] # Idle =>
          \A n \in Position : run'[g].clean[n] => First(run'[g].file, n)
    BY <1>1 DEF IInv, CleanIsFirst
  <2>2. \A f \in Files : \A n \in DOMAIN staged'[f] :
          staged'[f][n].clean => First(f, staged'[f][n].pos)
    BY DEF IInv, CleanIsFirst
  <2>. QED  BY <2>1, <2>2 DEF CleanIsFirst, First
<1>6. StagedIsThePrefix'
  <2>1. ASSUME NEW f \in Files \ overlapped
        PROVE  /\ Len(staged[f]) <= FileLength
               /\ \A n \in DOMAIN staged[f] : staged[f][n].pos = n
               /\ ~IsPending(f)' => Len(staged[f]) = FileLength
    <3>1. /\ Len(staged[f]) <= FileLength
          /\ \A n \in DOMAIN staged[f] : staged[f][n].pos = n
          /\ ~IsPending(f) => Len(staged[f]) = FileLength
      BY DEF IInv, StagedIsThePrefix
    <3>2. CASE batch'[f] = batch[f]
      BY <3>1, <3>2 DEF IsPending
    <3>3. CASE f = run[h].file /\ run[h].next = FileLength
      BY <3>1, <3>3 DEF IInv, InStep
    <3>. QED  BY <3>2, <3>3
  <2>. QED  BY <2>1 DEF StagedIsThePrefix
<1>. QED  BY <1>2, <1>3, <1>4, <1>5, <1>6 DEF IInv

LEMMA FinalizeStep ==
  ASSUME IInv, NEW h \in Handlers, Finalize(h)
  PROVE  IInv'
<1>1. /\ run[h] # Idle /\ run[h].next >= FileLength /\ run' = [run EXCEPT ![h] = Idle]
      /\ batch' = [batch EXCEPT ![run[h].file] = RollupOf(staged[run[h].file])]
      /\ UNCHANGED <<staged, overlapped>>
  BY DEF Finalize
<1>2. run[h].next = FileLength
  BY <1>1, RunFacts
<1>3. DOMAIN batch' = Files /\ \A f \in Files : f # run[h].file => batch'[f] = batch[f]
  BY <1>1 DEF IInv, Typed
<1>. QED  BY <1>1, <1>2, <1>3, RunEnds

LEMMA DieStep ==
  ASSUME IInv, NEW h \in Handlers, Die(h)
  PROVE  IInv'
<1>1. /\ run[h] # Idle /\ run' = [run EXCEPT ![h] = Idle]
      /\ UNCHANGED <<batch, staged, overlapped>>
  BY DEF Die
<1>2. DOMAIN batch' = Files
  BY <1>1 DEF IInv, Typed
<1>. QED  BY <1>1, <1>2, RunEnds

\* The rollup of a batch that is no longer pending may change.
LEMMA RollupKept ==
  ASSUME IInv, NEW f \in Files, ~IsPending(f), NEW b, batch' = [batch EXCEPT ![f] = b]
  PROVE  DOMAIN batch' = Files /\ \A g \in Files : IsPending(g) => IsPending(g)'
<1>1. DOMAIN batch' = Files /\ \A g \in Files \ {f} : batch'[g] = batch[g]
  BY DEF IInv, Typed
<1>. QED  BY <1>1 DEF IsPending

LEMMA ReviewStep ==
  ASSUME IInv, NEW f \in Files, NEW n \in DOMAIN staged[f], NEW v \in {"confirmed", "rejected"},
         Review(f, n, v)
  PROVE  IInv'
<1>1. /\ ~IsPending(f)
      /\ staged' = [staged EXCEPT ![f][n].status = v]
      /\ batch' = [batch EXCEPT ![f] = RollupOf(staged'[f])]
      /\ UNCHANGED <<run, overlapped>>
  BY DEF Review
<1>2. PICK T : 0 \in T /\ staged \in [Files -> Seq(RowOf(T))]
  BY DEF IInv, Typed
<1>3. staged[f] \in Seq(RowOf(T)) /\ n \in 1..Len(staged[f])
  BY <1>2, LenProperties
<1>4. staged[f][n] \in RowOf(T)
  BY <1>3, ElementOfSeq
<1>. DEFINE e == [staged[f][n] EXCEPT !.status = v]
<1>5. e \in RowOf(T) /\ e.pos = staged[f][n].pos /\ e.clean = staged[f][n].clean
  BY <1>4 DEF RowOf, RowStatus
<1>6. staged' = [staged EXCEPT ![f] = [staged[f] EXCEPT ![n] = e]]
  BY <1>1, <1>2, <1>3
<1>. HIDE DEF e
<1>7. /\ [staged[f] EXCEPT ![n] = e] \in Seq(RowOf(T))
      /\ Len([staged[f] EXCEPT ![n] = e]) = Len(staged[f])
      /\ \A j \in 1..Len(staged[f]) :
           [staged[f] EXCEPT ![n] = e][j] = IF j = n THEN e ELSE staged[f][j]
  BY <1>3, <1>5, ExceptSeq
<1>8. /\ staged' \in [Files -> Seq(RowOf(T))]
      /\ staged'[f] = [staged[f] EXCEPT ![n] = e]
      /\ \A g \in Files \ {f} : staged'[g] = staged[g]
  BY <1>2, <1>6, <1>7
<1>9. \A g \in Files :
        /\ Len(staged'[g]) = Len(staged[g])
        /\ \A j \in 1..Len(staged[g]) : /\ staged'[g][j].pos = staged[g][j].pos
                                        /\ staged'[g][j].clean = staged[g][j].clean
  BY <1>5, <1>7, <1>8
<1>10. DOMAIN batch' = Files /\ \A g \in Files : IsPending(g) => IsPending(g)'
  BY <1>1, RollupKept
<1>. QED  BY <1>1, <1>2, <1>8, <1>9, <1>10, RowsStay

LEMMA PromoteStep ==
  ASSUME IInv, NEW f \in Files, Promote(f)
  PROVE  IInv'
<1>. DEFINE todo == ToPromote(f)
            number(n) == Len(ledger) + CHOOSE i \in DOMAIN todo : todo[i] = n
            restaged(n) == IF \E i \in DOMAIN todo : todo[i] = n
                      THEN [staged[f][n] EXCEPT !.status = "promoted", !.txn = number(n)]
                      ELSE staged[f][n]
            rows == [n \in DOMAIN staged[f] |-> restaged(n)]
<1>1. /\ ~IsPending(f)
      /\ staged' = [staged EXCEPT ![f] = rows]
      /\ batch' = [batch EXCEPT ![f] = PromotedRollup(f, rows)]
      /\ UNCHANGED <<run, overlapped>>
  BY DEF Promote
<1>2. PICK U : 0 \in U /\ staged \in [Files -> Seq(RowOf(U))]
  BY DEF IInv, Typed
<1>. DEFINE T == U \cup {number(n) : n \in DOMAIN staged[f]}
<1>3. staged[f] \in Seq(RowOf(U)) /\ DOMAIN staged[f] = 1..Len(staged[f]) /\ Len(staged[f]) \in Nat
  BY <1>2, LenProperties
<1>4. \A n \in 1..Len(staged[f]) : staged[f][n] \in RowOf(U)
  BY <1>3, ElementOfSeq
<1>5. \A n \in 1..Len(staged[f]) :
        /\ restaged(n) \in RowOf(T)
        /\ restaged(n).pos = staged[f][n].pos /\ restaged(n).clean = staged[f][n].clean
  <2>. TAKE n \in 1..Len(staged[f])
  <2>. HIDE DEF number
  <2>1. number(n) \in T /\ U \subseteq T
    BY <1>3
  <2>. HIDE DEF T
  <2>. QED  BY <2>1, <1>4 DEF RowOf, RowStatus
<1>. HIDE DEF restaged
<1>6. rows \in Seq(RowOf(T)) /\ Len(rows) = Len(staged[f])
  <2>1. rows \in [1..Len(staged[f]) -> RowOf(T)]
    BY <1>3, <1>5
  <2>. HIDE DEF T
  <2>2. rows \in Seq(RowOf(T))
    BY <2>1, <1>3, SeqDef
  <2>3. DOMAIN rows = 1..Len(rows) /\ DOMAIN rows = 1..Len(staged[f]) /\ Len(rows) \in Nat
    BY <2>2, <1>3, LenProperties
  <2>. QED  BY <2>2, <2>3, <1>3
<1>7. \A g \in Files : staged[g] \in Seq(RowOf(T))
  <2>1. U \subseteq T
    OBVIOUS
  <2>. HIDE DEF T
  <2>2. RowOf(U) \subseteq RowOf(T)
    BY <2>1 DEF RowOf
  <2>. QED  BY <2>2, <1>2, SeqMonotonic
<1>8. 0 \in T
  BY <1>2
<1>9. \A n \in 1..Len(staged[f]) :
        rows[n].pos = staged[f][n].pos /\ rows[n].clean = staged[f][n].clean
  BY <1>3, <1>5
<1>. HIDE DEF T, rows
<1>10. /\ staged' \in [Files -> Seq(RowOf(T))]
       /\ staged'[f] = rows
       /\ \A g \in Files \ {f} : staged'[g] = staged[g]
  BY <1>1, <1>2, <1>6, <1>7
<1>11. \A g \in Files :
         /\ Len(staged'[g]) = Len(staged[g])
         /\ \A j \in 1..Len(staged[g]) : /\ staged'[g][j].pos = staged[g][j].pos
                                         /\ staged'[g][j].clean = staged[g][j].clean
  BY <1>6, <1>9, <1>10
<1>12. DOMAIN batch' = Files /\ \A g \in Files : IsPending(g) => IsPending(g)'
  BY <1>1, RollupKept
<1>. QED  BY <1>1, <1>8, <1>10, <1>11, <1>12, RowsStay

-----------------------------------------------------------------------------
LEMMA InitIInv == Init => IInv
<1>. SUFFICES ASSUME Init PROVE IInv
  OBVIOUS
<1>1. /\ batch = [f \in Files |-> NoBatch] /\ staged = [f \in Files |-> <<>>]
      /\ run = [h \in Handlers |-> Idle]
  BY DEF Init
<1>2. <<>> \in Seq(RowOf({0})) /\ Len(<<>>) = 0 /\ DOMAIN <<>> = {}
  BY EmptySeq
<1>3. Typed
  BY <1>1, <1>2 DEF Typed
<1>4. Alone /\ InStep
  BY <1>1 DEF Alone, InStep
<1>5. CleanIsFirst
  BY <1>1, <1>2 DEF CleanIsFirst
<1>6. StagedIsThePrefix
  BY <1>1, <1>2 DEF StagedIsThePrefix, IsPending
<1>. QED  BY <1>3, <1>4, <1>5, <1>6 DEF IInv

LEMMA NextIInv == IInv /\ [Next]_vars => IInv'
<1>. SUFFICES ASSUME IInv, [Next]_vars PROVE IInv'
  OBVIOUS
<1>1. ASSUME NEW h \in Handlers, InsertChunk(h) PROVE IInv'
  BY <1>1, InsertStep
<1>2. ASSUME NEW h \in Handlers, Finalize(h) PROVE IInv'
  BY <1>2, FinalizeStep
<1>3. ASSUME NEW h \in Handlers, Die(h) PROVE IInv'
  BY <1>3, DieStep
<1>4. ASSUME NEW h \in Handlers, NEW f \in Files, Setup(h, f) PROVE IInv'
  BY <1>4, SetupStep
<1>5. ASSUME NEW f \in Files, Promote(f) PROVE IInv'
  BY <1>5, PromoteStep
<1>6. ASSUME NEW f \in Files, NEW n \in DOMAIN staged[f], NEW v \in {"confirmed", "rejected"},
             Review(f, n, v)
      PROVE  IInv'
  BY <1>6, ReviewStep
<1>7. ASSUME UNCHANGED <<batch, staged, run, overlapped>> PROVE IInv'
  BY <1>7 DEF IInv, Typed, Alone, InStep, CleanIsFirst, First, StagedIsThePrefix, IsPending
<1>8. ASSUME NEW t \in DOMAIN ledger, DeleteTransaction(t) PROVE IInv'
  BY <1>7, <1>8 DEF DeleteTransaction
<1>9. CASE UNCHANGED vars
  BY <1>7, <1>9 DEF vars
<1>. QED  BY <1>1, <1>2, <1>3, <1>4, <1>5, <1>6, <1>8, <1>9 DEF Next

\* All parts of the invariant hold in every state that staging can reach.
THEOREM Invariance == Spec => []IInv
BY InitIInv, NextIInv, PTL DEF Spec

\* Resume by count stages a prefix of the file, and all of it once the batch can
\* be reviewed, however often a run died, unless two runs of the file overlapped.
THEOREM PrefixIsStaged == Spec => []StagedIsThePrefix
<1>1. IInv => StagedIsThePrefix
  BY DEF IInv
<1>. QED  BY <1>1, Invariance, PTL

\* A batch stages a fingerprint as new at most once, since every run that resumes
\* it classifies the rows that earlier ones inserted too.
THEOREM CleanOnce == Spec => []CleanOncePerBatch
<1>1. IInv => CleanOncePerBatch
  <2>. SUFFICES ASSUME IInv, NEW f \in Files \ overlapped,
                       NEW m \in DOMAIN staged[f], NEW n \in DOMAIN staged[f],
                       staged[f][m].clean, staged[f][n].clean,
                       Fingerprint(f, staged[f][m].pos) = Fingerprint(f, staged[f][n].pos)
                PROVE  m = n
    BY DEF CleanOncePerBatch
  <2>1. PICK T : staged \in [Files -> Seq(RowOf(T))]
    BY DEF IInv, Typed
  <2>2. m \in Nat \ {0} /\ n \in Nat \ {0}
    <3>1. staged[f] \in Seq(RowOf(T))
      BY <2>1
    <3>. QED  BY <3>1, LenProperties
  <2>3. staged[f][m].pos = m /\ staged[f][n].pos = n
    BY DEF IInv, StagedIsThePrefix
  <2>4. First(f, m) /\ First(f, n)
    BY <2>3 DEF IInv, CleanIsFirst
  <2>. QED  BY <2>2, <2>3, <2>4 DEF First
<1>. QED  BY <1>1, Invariance, PTL

\* A batch that can be reviewed is the file: every row of it once, in order, and
\* each fingerprint new at most once.
THEOREM FaithfulStaging == Spec => []StagingIsFaithful
BY PrefixIsStaged, CleanOnce, PTL DEF StagingIsFaithful

-----------------------------------------------------------------------------
(* Promotion.  The transactions are numbered as they are booked, and a row   *)
(* bears the number of the one that it became.                               *)

\* A promoted row bears the number of a transaction with its fingerprint, and
\* no other row does.
Told ==
  \A f \in Files : \A n \in DOMAIN staged[f] :
    /\ staged[f][n].txn # 0 <=> staged[f][n].status = "promoted"
    /\ staged[f][n].txn # 0 => /\ staged[f][n].txn \in 1..Len(ledger)
                               /\ ledger[staged[f][n].txn].print = Fingerprint(f, staged[f][n].pos)

OneRow ==
  \A f, g \in Files : \A m \in DOMAIN staged[f], n \in DOMAIN staged[g] :
    staged[f][m].txn = staged[g][n].txn /\ staged[f][m].txn # 0 => f = g /\ m = n

EachTransaction ==
  \A t \in 1..Len(ledger) : \E f \in Files : \E n \in DOMAIN staged[f] : staged[f][n].txn = t

\* What a provider names is booked once.
NamedOnce == provider => \A t, u \in 1..Len(ledger) : ledger[t].print = ledger[u].print => t = u

Book ==
  /\ provider \in BOOLEAN
  /\ staged \in [Files -> Seq(Row)]
  /\ ledger \in Seq(Transaction) /\ Len(ledger) <= MaxTxns
  /\ Told /\ OneRow /\ EachTransaction /\ NamedOnce

LEMMA BookFacts ==
  ASSUME Book
  PROVE  /\ Len(ledger) \in Nat /\ DOMAIN ledger = 1..Len(ledger)
         /\ \A t \in 1..Len(ledger) : ledger[t] \in Transaction
         /\ \A f \in Files : /\ staged[f] \in Seq(Row) /\ Len(staged[f]) \in Nat
                             /\ DOMAIN staged[f] = 1..Len(staged[f])
                             /\ \A n \in DOMAIN staged[f] : staged[f][n] \in Row
<1>1. Len(ledger) \in Nat /\ DOMAIN ledger = 1..Len(ledger) /\ \A t \in 1..Len(ledger) : ledger[t] \in Transaction
  BY LenProperties, ElementOfSeq DEF Book
<1>2. ASSUME NEW f \in Files
      PROVE  /\ staged[f] \in Seq(Row) /\ Len(staged[f]) \in Nat
             /\ DOMAIN staged[f] = 1..Len(staged[f])
             /\ \A n \in DOMAIN staged[f] : staged[f][n] \in Row
  <2>1. staged[f] \in Seq(Row)
    BY DEF Book
  <2>. QED  BY <2>1, LenProperties, ElementOfSeq
<1>. QED  BY <1>1, <1>2

\* A step that promotes nothing: rows that were there keep the number they bear,
\* new ones bear none, and transactions keep their fingerprints.
RowsKept ==
  \A f \in Files : \A n \in DOMAIN staged[f] :
    /\ n \in DOMAIN staged'[f]
    /\ staged'[f][n].txn = staged[f][n].txn /\ staged'[f][n].pos = staged[f][n].pos
    /\ staged'[f][n].status = "promoted" <=> staged[f][n].status = "promoted"

RowsAdded ==
  \A f \in Files : \A n \in DOMAIN staged'[f] :
    n \notin DOMAIN staged[f] => staged'[f][n].txn = 0 /\ staged'[f][n].status # "promoted"

LedgerKept ==
  /\ ledger' \in Seq(Transaction) /\ Len(ledger') = Len(ledger)
  /\ \A t \in 1..Len(ledger) : ledger'[t].print = ledger[t].print

LEMMA BookKept ==
  ASSUME Book, provider' = provider, staged' \in [Files -> Seq(Row)],
         RowsKept, RowsAdded, LedgerKept
  PROVE  Book'
<1>1. Told'
  <2>. SUFFICES ASSUME NEW f \in Files, NEW n \in DOMAIN staged'[f]
                PROVE  /\ staged'[f][n].txn # 0 <=> staged'[f][n].status = "promoted"
                       /\ staged'[f][n].txn # 0 =>
                            /\ staged'[f][n].txn \in 1..Len(ledger')
                            /\ ledger'[staged'[f][n].txn].print = Fingerprint(f, staged'[f][n].pos)
    BY DEF Told, Fingerprint
  <2>1. CASE n \in DOMAIN staged[f]
    <3>1. /\ staged'[f][n].txn = staged[f][n].txn /\ staged'[f][n].pos = staged[f][n].pos
          /\ staged'[f][n].status = "promoted" <=> staged[f][n].status = "promoted"
      BY <2>1 DEF RowsKept
    <3>2. /\ staged[f][n].txn # 0 <=> staged[f][n].status = "promoted"
          /\ staged[f][n].txn # 0 =>
               /\ staged[f][n].txn \in 1..Len(ledger)
               /\ ledger[staged[f][n].txn].print = Fingerprint(f, staged[f][n].pos)
      BY <2>1 DEF Book, Told
    <3>3. PICK k, r, s, q : k = staged[f][n].txn /\ r = staged[f][n].pos
                            /\ s = staged[f][n].status /\ q = staged'[f][n].status
      OBVIOUS
    <3>4. k # 0 => k \in 1..Len(ledger') /\ ledger'[k].print = Fingerprint(f, r)
      BY <3>2, <3>3 DEF LedgerKept
    <3>. QED  BY <3>1, <3>2, <3>3, <3>4
  <2>2. CASE n \notin DOMAIN staged[f]
    BY <2>2 DEF RowsAdded
  <2>. QED  BY <2>1, <2>2
<1>2. OneRow'
  <2>. SUFFICES \A f, g \in Files : \A m \in DOMAIN staged'[f], n \in DOMAIN staged'[g] :
                  staged'[f][m].txn = staged'[g][n].txn /\ staged'[f][m].txn # 0 => f = g /\ m = n
    BY DEF OneRow
  <2>. TAKE f, g \in Files
  <2>. TAKE m \in DOMAIN staged'[f], n \in DOMAIN staged'[g]
  <2>. HAVE staged'[f][m].txn = staged'[g][n].txn /\ staged'[f][m].txn # 0
  <2>1. m \in DOMAIN staged[f] /\ n \in DOMAIN staged[g]
    BY DEF RowsAdded
  <2>2. staged'[f][m].txn = staged[f][m].txn /\ staged'[g][n].txn = staged[g][n].txn
    BY <2>1 DEF RowsKept
  <2>3. OneRow
    BY DEF Book
  <2>4. staged[f][m].txn = staged[g][n].txn /\ staged[f][m].txn # 0
    BY <2>2
  <2>. QED  BY <2>1, <2>3, <2>4 DEF OneRow
<1>3. EachTransaction'
  <2>1. ASSUME NEW t \in 1..Len(ledger') PROVE \E f \in Files : \E n \in DOMAIN staged'[f] : staged'[f][n].txn = t
    <3>1. PICK f \in Files : \E n \in DOMAIN staged[f] : staged[f][n].txn = t
      BY DEF Book, EachTransaction, LedgerKept
    <3>2. PICK n \in DOMAIN staged[f] : staged[f][n].txn = t
      BY <3>1
    <3>. QED  BY <3>2 DEF RowsKept
  <2>. QED  BY <2>1 DEF EachTransaction
<1>4. NamedOnce'
  BY DEF Book, NamedOnce, LedgerKept
<1>. QED  BY <1>1, <1>2, <1>3, <1>4 DEF Book, LedgerKept

\* What is to be promoted: each confirmed row of the batch, once.
LEMMA TodoFacts ==
  ASSUME Book, NEW f \in Files
  PROVE  \E K \in Nat :
           /\ ToPromote(f) \in Seq(Nat) /\ Len(ToPromote(f)) = K /\ DOMAIN ToPromote(f) = 1..K
           /\ \A i \in 1..K : /\ ToPromote(f)[i] \in DOMAIN staged[f]
                               /\ staged[f][ToPromote(f)[i]].status = "confirmed"
           /\ \A i, j \in 1..K : ToPromote(f)[i] = ToPromote(f)[j] => i = j
<1>. DEFINE S == {n \in DOMAIN staged[f] : staged[f][n].status = "confirmed"}
<1>1. DOMAIN staged[f] = 1..Len(staged[f]) /\ Len(staged[f]) \in Nat
  BY BookFacts
<1>2. S \in SUBSET Nat /\ S \in SUBSET Int /\ IsFiniteSet(S)
  <2>1. IsFiniteSet(1..Len(staged[f]))
    BY <1>1, FS_Interval
  <2>. QED  BY <1>1, <2>1, FS_Subset
<1>3. ToPromote(f) = InOrder(S)
  BY DEF ToPromote
<1>4. \A n \in S : n \in DOMAIN staged[f] /\ staged[f][n].status = "confirmed"
  OBVIOUS
<1>. HIDE DEF S
<1>5. PICK K : K = Cardinality(S)
  OBVIOUS
<1>6. /\ K \in Nat /\ InOrder(S) \in [1..K -> S]
      /\ \A k \in 1..K : Rank(S, InOrder(S)[k]) = k
  BY <1>2, <1>5, InOrderIsBijection
<1>7. InOrder(S) \in Seq(Nat) /\ Len(InOrder(S)) = K /\ DOMAIN InOrder(S) = 1..K
  <2>1. InOrder(S) \in [1..K -> Nat]
    BY <1>2, <1>6
  <2>2. InOrder(S) \in Seq(Nat)
    BY <1>6, <2>1, SeqDef
  <2>. QED  BY <1>6, <2>1, <2>2, LenProperties
<1>8. \A i \in 1..K : InOrder(S)[i] \in S
  BY <1>6
<1>9. \A i, j \in 1..K : InOrder(S)[i] = InOrder(S)[j] => i = j
  BY <1>6
<1>. QED  BY <1>3, <1>4, <1>6, <1>7, <1>8, <1>9

LEMMA InsertBook ==
  ASSUME IInv, Book, NEW h \in Handlers, InsertChunk(h)
  PROVE  Book'
<1>. DEFINE r == run[h]
            f == r.file
            last == IF r.next + ChunkSize < FileLength THEN r.next + ChunkSize ELSE FileLength
            rows == [i \in 1..(last - r.next) |-> Prepared(r, r.next + i)]
<1>1. /\ r # Idle /\ r.next < FileLength
      /\ staged' = [staged EXCEPT ![f] = @ \o rows]
      /\ UNCHANGED <<provider, ledger>>
  BY DEF InsertChunk
<1>2. /\ r \in Run /\ f \in Files /\ r.clean \in [Position -> BOOLEAN] /\ r.next \in Nat
  BY <1>1, RunFacts
<1>3. last \in Nat /\ r.next <= last /\ last <= FileLength /\ last - r.next \in Nat
  BY <1>1, <1>2
<1>. HIDE DEF last
<1>4. \A i \in 1..(last - r.next) :
        /\ Prepared(r, r.next + i) \in Row
        /\ Prepared(r, r.next + i).txn = 0 /\ Prepared(r, r.next + i).status # "promoted"
  <2>. TAKE i \in 1..(last - r.next)
  <2>1. r.next + i \in Position
    BY <1>2, <1>3 DEF Position
  <2>2. r.clean[r.next + i] \in BOOLEAN
    BY <1>2, <2>1
  <2>. QED  BY <2>1, <2>2 DEF Prepared, Row, RowStatus
<1>5. rows \in Seq(Row) /\ DOMAIN rows = 1..Len(rows) /\ Len(rows) \in Nat
      /\ \A i \in 1..Len(rows) : rows[i].txn = 0 /\ rows[i].status # "promoted"
  <2>1. rows \in [1..(last - r.next) -> Row]
    BY <1>4
  <2>2. rows \in Seq(Row)
    BY <2>1, <1>3, SeqDef
  <2>. QED  BY <2>2, <1>4, LenProperties
<1>. HIDE DEF rows
<1>6. /\ staged \in [Files -> Seq(Row)] /\ staged[f] \in Seq(Row) /\ Len(staged[f]) \in Nat
      /\ DOMAIN staged[f] = 1..Len(staged[f])
  BY <1>2, BookFacts DEF Book
<1>7. /\ staged[f] \o rows \in Seq(Row)
      /\ DOMAIN (staged[f] \o rows) = 1..(Len(staged[f]) + Len(rows))
      /\ \A n \in 1..Len(staged[f]) : (staged[f] \o rows)[n] = staged[f][n]
      /\ \A n \in 1..(Len(staged[f]) + Len(rows)) :
           n \notin 1..Len(staged[f]) => \E i \in 1..Len(rows) : (staged[f] \o rows)[n] = rows[i]
  <2>1. /\ staged[f] \o rows \in Seq(Row)
        /\ Len(staged[f] \o rows) = Len(staged[f]) + Len(rows)
        /\ \A n \in 1..Len(staged[f]) + Len(rows) :
             (staged[f] \o rows)[n] = IF n <= Len(staged[f]) THEN staged[f][n]
                                      ELSE rows[n - Len(staged[f])]
    BY <1>5, <1>6, ConcatProperties
  <2>2. DOMAIN (staged[f] \o rows) = 1..(Len(staged[f]) + Len(rows))
    BY <2>1, LenProperties
  <2>3. \A n \in 1..Len(staged[f]) : (staged[f] \o rows)[n] = staged[f][n]
    BY <2>1, <1>5, <1>6
  <2>4. \A n \in 1..(Len(staged[f]) + Len(rows)) : n \notin 1..Len(staged[f]) =>
          n - Len(staged[f]) \in 1..Len(rows) /\ (staged[f] \o rows)[n] = rows[n - Len(staged[f])]
    BY <2>1, <1>5, <1>6
  <2>. QED  BY <2>1, <2>2, <2>3, <2>4
<1>8. PICK s : s = staged[f] \o rows
  OBVIOUS
<1>9. /\ staged' \in [Files -> Seq(Row)] /\ staged'[f] = s
      /\ \A g \in Files \ {f} : staged'[g] = staged[g]
  BY <1>1, <1>2, <1>6, <1>7, <1>8
<1>10. RowsKept
  <2>1. \A n \in 1..Len(staged[f]) : n \in DOMAIN s /\ s[n] = staged[f][n]
    BY <1>5, <1>6, <1>7, <1>8
  <2>. QED  BY <1>6, <1>9, <2>1 DEF RowsKept
<1>11. RowsAdded
  <2>1. \A n \in DOMAIN s : n \notin 1..Len(staged[f]) => s[n].txn = 0 /\ s[n].status # "promoted"
    BY <1>5, <1>7, <1>8
  <2>. QED  BY <1>6, <1>9, <2>1 DEF RowsAdded
<1>12. LedgerKept
  BY <1>1 DEF LedgerKept, Book
<1>. QED  BY <1>1, <1>9, <1>10, <1>11, <1>12, BookKept

\* A verdict promotes nothing and is not given on what was promoted.
LEMMA ReviewBook ==
  ASSUME Book, NEW f \in Files, NEW n \in DOMAIN staged[f], NEW v \in {"confirmed", "rejected"},
         Review(f, n, v)
  PROVE  Book'
<1>1. /\ staged[f][n].status # "promoted" /\ staged' = [staged EXCEPT ![f][n].status = v]
      /\ UNCHANGED <<provider, ledger>>
  BY DEF Review, Reviewable
<1>2. /\ staged \in [Files -> Seq(Row)] /\ staged[f] \in Seq(Row) /\ staged[f][n] \in Row
  BY BookFacts DEF Book
<1>3. PICK e : e = [staged[f][n] EXCEPT !.status = v]
  OBVIOUS
<1>4. /\ e \in Row /\ e.txn = staged[f][n].txn /\ e.pos = staged[f][n].pos
      /\ e.status # "promoted"
  BY <1>2, <1>3 DEF Row, RowStatus
<1>5. PICK s : s = [staged[f] EXCEPT ![n] = e]
  OBVIOUS
<1>6. /\ s \in Seq(Row) /\ DOMAIN s = DOMAIN staged[f] /\ s[n] = e
      /\ \A k \in DOMAIN staged[f] \ {n} : s[k] = staged[f][k]
  BY <1>2, <1>4, <1>5
<1>7. staged' = [staged EXCEPT ![f] = s]
  BY <1>1, <1>2, <1>3, <1>5
<1>8. /\ staged' \in [Files -> Seq(Row)] /\ staged'[f] = s
      /\ \A g \in Files \ {f} : staged'[g] = staged[g]
  BY <1>2, <1>6, <1>7
<1>9. RowsKept
  <2>1. \A k \in DOMAIN staged[f] :
          /\ k \in DOMAIN s /\ s[k].txn = staged[f][k].txn /\ s[k].pos = staged[f][k].pos
          /\ s[k].status = "promoted" <=> staged[f][k].status = "promoted"
    BY <1>1, <1>4, <1>6
  <2>. QED  BY <1>8, <2>1 DEF RowsKept
<1>10. RowsAdded
  BY <1>6, <1>8 DEF RowsAdded
<1>11. LedgerKept
  BY <1>1 DEF LedgerKept, Book
<1>. QED  BY <1>1, <1>8, <1>9, <1>10, <1>11, BookKept

LEMMA DeleteBook ==
  ASSUME Book, NEW t \in DOMAIN ledger, DeleteTransaction(t)
  PROVE  Book'
<1>1. ledger' = [ledger EXCEPT ![t].live = FALSE] /\ UNCHANGED <<provider, staged>>
  BY DEF DeleteTransaction
<1>2. ledger \in Seq(Transaction) /\ ledger[t] \in Transaction /\ DOMAIN ledger = 1..Len(ledger)
  BY BookFacts DEF Book
<1>3. PICK e : e = [ledger[t] EXCEPT !.live = FALSE]
  OBVIOUS
<1>4. e \in Transaction /\ e.print = ledger[t].print
  BY <1>2, <1>3 DEF Transaction
<1>5. ledger' = [ledger EXCEPT ![t] = e]
  BY <1>1, <1>2, <1>3
<1>6. /\ ledger' \in Seq(Transaction) /\ Len(ledger') = Len(ledger)
      /\ \A u \in 1..Len(ledger) : ledger'[u] = IF u = t THEN e ELSE ledger[u]
  BY <1>2, <1>4, <1>5, ExceptSeq
<1>7. LedgerKept
  BY <1>4, <1>6 DEF LedgerKept
<1>8. RowsKept /\ RowsAdded
  BY <1>1 DEF RowsKept, RowsAdded
<1>. QED  BY <1>1, <1>7, <1>8, BookKept DEF Book

\* The confirmed rows become transactions, numbered on from the last.
LEMMA PromoteBook ==
  ASSUME Book, NEW f \in Files, Promote(f)
  PROVE  Book'
<1>. DEFINE todo == ToPromote(f)
            prints == [i \in DOMAIN todo |-> Fingerprint(f, staged[f][todo[i]].pos)]
            number(n) == Len(ledger) + CHOOSE i \in DOMAIN todo : todo[i] = n
            restaged(n) == IF \E i \in DOMAIN todo : todo[i] = n
                      THEN [staged[f][n] EXCEPT !.status = "promoted", !.txn = number(n)]
                      ELSE staged[f][n]
            rows == [n \in DOMAIN staged[f] |-> restaged(n)]
            new == [i \in DOMAIN todo |-> [print |-> prints[i], live |-> TRUE]]
<1>1. /\ Len(ledger) + Len(todo) <= MaxTxns
      /\ BindingFree(prints)
      /\ ledger' = ledger \o new
      /\ staged' = [staged EXCEPT ![f] = rows]
      /\ UNCHANGED provider
  BY DEF Promote
<1>2. PICK K \in Nat :
        /\ todo \in Seq(Nat) /\ Len(todo) = K /\ DOMAIN todo = 1..K
        /\ \A i \in 1..K : todo[i] \in DOMAIN staged[f] /\ staged[f][todo[i]].status = "confirmed"
        /\ \A i, j \in 1..K : todo[i] = todo[j] => i = j
  BY TodoFacts
<1>3. PICK L \in Nat : L = Len(ledger)
  BY BookFacts
<1>4. /\ DOMAIN staged[f] = 1..Len(staged[f]) /\ Len(staged[f]) \in Nat
      /\ \A n \in DOMAIN staged[f] : staged[f][n] \in Row
      /\ staged \in [Files -> Seq(Row)] /\ ledger \in Seq(Transaction)
  BY BookFacts DEF Book
<1>5. \A i \in 1..K : number(todo[i]) = L + i
  <2>. TAKE i \in 1..K
  <2>1. (CHOOSE j \in DOMAIN todo : todo[j] = todo[i]) = i
    BY <1>2
  <2>. QED  BY <1>3, <2>1
<1>. HIDE DEF number
<1>6. ASSUME NEW i \in 1..K
      PROVE  /\ rows[todo[i]] \in Row /\ rows[todo[i]].txn = L + i
             /\ rows[todo[i]].status = "promoted"
             /\ rows[todo[i]].pos = staged[f][todo[i]].pos
  <2>1. staged[f][todo[i]] \in Row /\ todo[i] \in DOMAIN staged[f]
    BY <1>2, <1>4
  <2>2. L + i \in 0..MaxTxns /\ L + i # 0
    <3>1. L + K <= MaxTxns
      <4>. HIDE DEF todo
      <4>. QED  BY <1>1, <1>2, <1>3
    <3>. HIDE DEF todo, rows
    <3>. QED  BY <3>1
  <2>3. PICK x : x = L + i
    OBVIOUS
  <2>4. number(todo[i]) = x
    BY <1>5, <2>3
  <2>5. rows[todo[i]] = [staged[f][todo[i]] EXCEPT !.status = "promoted", !.txn = x]
    BY <1>2, <2>1, <2>4
  <2>. HIDE DEF rows, todo
  <2>6. \A e \in Row : LET d == [e EXCEPT !.status = "promoted", !.txn = x]
                       IN  d \in Row /\ d.txn = x /\ d.status = "promoted" /\ d.pos = e.pos
    BY <2>2, <2>3 DEF Row, RowStatus
  <2>. QED  BY <2>1, <2>3, <2>5, <2>6
<1>7. ASSUME NEW n \in DOMAIN staged[f], \A i \in 1..K : todo[i] # n
      PROVE  rows[n] = staged[f][n]
  BY <1>2, <1>7
<1>8. DOMAIN rows = DOMAIN staged[f]
  OBVIOUS
<1>9. PICK s : s = rows
  OBVIOUS
<1>10. PICK d : d = todo
  OBVIOUS
<1>. HIDE DEF rows, todo
<1>11. s \in Seq(Row)
  <2>1. \A n \in DOMAIN staged[f] : s[n] \in Row
    BY <1>4, <1>6, <1>7, <1>9
  <2>2. s \in [1..Len(staged[f]) -> Row]
    <3>1. s = [n \in DOMAIN staged[f] |-> s[n]]
      BY <1>9 DEF rows
    <3>. QED  BY <1>4, <2>1, <3>1
  <2>. QED  BY <1>4, <2>2, SeqDef
<1>12. /\ staged' \in [Files -> Seq(Row)] /\ staged'[f] = s
       /\ \A g \in Files \ {f} : staged'[g] = staged[g]
  BY <1>1, <1>4, <1>9, <1>11
<1>13. ASSUME NEW g \in Files
       PROVE  DOMAIN staged'[g] = DOMAIN staged[g]
  BY <1>8, <1>9, <1>12
\* Rows that bear a number are not confirmed, and stay as they are.
<1>14. ASSUME NEW g \in Files, NEW n \in DOMAIN staged[g], staged[g][n].txn # 0
       PROVE  staged'[g][n] = staged[g][n]
  <2>1. staged[g][n].status = "promoted"
    BY <1>14 DEF Book, Told
  <2>2. CASE g = f
    <3>1. \A i \in 1..K : todo[i] # n
      BY <1>2, <2>1, <2>2
    <3>. QED  BY <1>7, <1>9, <1>12, <2>2, <3>1
  <2>3. CASE g # f
    BY <1>12, <2>3
  <2>. QED  BY <2>2, <2>3
<1>15. ASSUME NEW i \in 1..K
       PROVE  /\ d[i] \in DOMAIN staged[f] /\ staged'[f][d[i]].txn = L + i
              /\ staged'[f][d[i]].status = "promoted"
              /\ staged'[f][d[i]].pos = staged[f][d[i]].pos
  BY <1>2, <1>6, <1>9, <1>10, <1>12
\* Every other row is as it was.
<1>16. ASSUME NEW g \in Files, NEW n \in DOMAIN staged[g], staged'[g][n] # staged[g][n]
       PROVE  g = f /\ \E i \in 1..K : d[i] = n
  <2>1. g = f
    BY <1>12, <1>16
  <2>2. \E i \in 1..K : todo[i] = n
    BY <1>7, <1>9, <1>12, <1>16, <2>1
  <2>. QED  BY <1>10, <2>1, <2>2
<1>17. /\ new \in Seq(Transaction) /\ Len(new) = K
       /\ \A i \in 1..K : new[i].print = Fingerprint(f, staged[f][d[i]].pos)
       /\ \A i \in 1..K : prints[i] = Fingerprint(f, staged[f][d[i]].pos)
       /\ DOMAIN prints = 1..K
  <2>1. \A i \in 1..K : Fingerprint(f, staged[f][d[i]].pos) \in Fingerprints
    <3>1. \A i \in 1..K : staged[f][d[i]].pos \in Position
      BY <1>4, <1>15 DEF Row
    <3>. QED  BY <3>1 DEF Fingerprints
  <2>2. new \in [1..K -> Transaction]
    BY <1>2, <1>10, <2>1 DEF Transaction
  <2>3. new \in Seq(Transaction) /\ Len(new) = K
    <3>. HIDE DEF new, todo, prints
    <3>. QED  BY <2>2
  <2>. QED  BY <1>2, <1>10, <2>3
<1>. HIDE DEF new, prints
<1>18. /\ ledger' \in Seq(Transaction) /\ Len(ledger') = L + K
       /\ \A t \in 1..L : ledger'[t] = ledger[t]
       /\ \A t \in 1..(L + K) : t \notin 1..L => t - L \in 1..K /\ ledger'[t] = new[t - L]
       /\ \A i \in 1..K : L + i \in 1..(L + K) /\ ledger'[L + i] = new[i]
  <2>1. /\ ledger \o new \in Seq(Transaction)
        /\ Len(ledger \o new) = Len(ledger) + Len(new)
        /\ \A t \in 1..Len(ledger) + Len(new) :
             (ledger \o new)[t] = IF t <= Len(ledger) THEN ledger[t] ELSE new[t - Len(ledger)]
    BY <1>4, <1>17, ConcatProperties
  <2>2. \A t \in 1..(L + K) : ledger'[t] = IF t <= L THEN ledger[t] ELSE new[t - L]
    BY <1>1, <1>3, <1>17, <2>1
  <2>3. \A t \in 1..L : ledger'[t] = ledger[t]
    BY <2>2
  <2>4. \A t \in 1..(L + K) : t \notin 1..L => t - L \in 1..K /\ ledger'[t] = new[t - L]
    BY <2>2
  <2>5. ASSUME NEW i \in 1..K PROVE L + i \in 1..(L + K) /\ ledger'[L + i] = new[i]
    <3>1. L + i \in 1..(L + K) /\ ~(L + i <= L) /\ (L + i) - L = i
      OBVIOUS
    <3>. QED  BY <2>2, <3>1
  <2>. QED  BY <1>1, <1>3, <1>17, <2>1, <2>3, <2>4, <2>5
<1>19. Told'
  <2>. SUFFICES ASSUME NEW g \in Files, NEW n \in DOMAIN staged'[g]
                PROVE  /\ staged'[g][n].txn # 0 <=> staged'[g][n].status = "promoted"
                       /\ staged'[g][n].txn # 0 =>
                            /\ staged'[g][n].txn \in 1..(L + K)
                            /\ ledger'[staged'[g][n].txn].print = Fingerprint(g, staged'[g][n].pos)
    BY <1>18 DEF Told, Fingerprint
  <2>1. n \in DOMAIN staged[g]
    BY <1>13
  <2>2. CASE staged'[g][n] = staged[g][n]
    <3>1. /\ staged[g][n].txn # 0 <=> staged[g][n].status = "promoted"
          /\ staged[g][n].txn # 0 => /\ staged[g][n].txn \in 1..L
                                     /\ ledger[staged[g][n].txn].print = Fingerprint(g, staged[g][n].pos)
      BY <1>3, <2>1 DEF Book, Told
    <3>2. \A t \in 1..L : t \in 1..(L + K)
      OBVIOUS
    <3>. QED  BY <1>18, <2>2, <3>1, <3>2
  <2>3. CASE staged'[g][n] # staged[g][n]
    <3>1. PICK i \in 1..K : g = f /\ d[i] = n
      BY <1>16, <2>1, <2>3
    <3>2. L + i # 0
      OBVIOUS
    <3>. QED  BY <1>15, <1>17, <1>18, <3>1, <3>2
  <2>. QED  BY <2>2, <2>3
<1>20. OneRow'
  <2>. SUFFICES \A g, k \in Files : \A m \in DOMAIN staged'[g], n \in DOMAIN staged'[k] :
                  staged'[g][m].txn = staged'[k][n].txn /\ staged'[g][m].txn # 0 => g = k /\ m = n
    BY DEF OneRow
  <2>. TAKE g, k \in Files
  <2>. TAKE m \in DOMAIN staged'[g], n \in DOMAIN staged'[k]
  <2>. HAVE staged'[g][m].txn = staged'[k][n].txn /\ staged'[g][m].txn # 0
  <2>1. m \in DOMAIN staged[g] /\ n \in DOMAIN staged[k]
    BY <1>13
  <2>2. \A j \in Files : \A p \in DOMAIN staged[j] :
          \/ staged'[j][p] = staged[j][p] /\ staged[j][p].txn \in 0..L
          \/ j = f /\ \E i \in 1..K : d[i] = p /\ staged'[j][p].txn = L + i
    <3>1. \A j \in Files : \A p \in DOMAIN staged[j] : staged[j][p].txn \in 0..L
      BY <1>3 DEF Book, Told
    <3>. QED  BY <1>15, <1>16, <3>1
  <2>3. CASE staged'[g][m] = staged[g][m] /\ staged'[k][n] = staged[k][n]
    <3>1. OneRow
      BY DEF Book
    <3>. QED  BY <2>1, <2>3, <3>1 DEF OneRow
  <2>4. CASE staged'[g][m] # staged[g][m] /\ staged'[k][n] # staged[k][n]
    <3>1. PICK i \in 1..K : g = f /\ d[i] = m /\ staged'[g][m].txn = L + i
      BY <2>1, <2>2, <2>4
    <3>2. PICK j \in 1..K : k = f /\ d[j] = n /\ staged'[k][n].txn = L + j
      BY <2>1, <2>2, <2>4
    <3>3. i = j
      BY <3>1, <3>2
    <3>. QED  BY <3>1, <3>2, <3>3
  <2>5. CASE staged'[g][m] = staged[g][m] /\ staged'[k][n] # staged[k][n]
    <3>1. staged'[g][m].txn \in 0..L \/ \E i \in 1..K : d[i] = m /\ g = f
      BY <2>1, <2>2, <2>5
    <3>2. PICK j \in 1..K : k = f /\ d[j] = n /\ staged'[k][n].txn = L + j
      BY <2>1, <2>2, <2>5
    <3>3. L + j \notin 0..L
      OBVIOUS
    <3>4. PICK i \in 1..K : d[i] = m /\ g = f
      BY <3>1, <3>2, <3>3
    <3>5. i = j
      BY <1>15, <3>2, <3>4
    <3>. QED  BY <3>2, <3>4, <3>5
  <2>6. CASE staged'[g][m] # staged[g][m] /\ staged'[k][n] = staged[k][n]
    <3>1. staged'[k][n].txn \in 0..L \/ \E i \in 1..K : d[i] = n /\ k = f
      BY <2>1, <2>2, <2>6
    <3>2. PICK j \in 1..K : g = f /\ d[j] = m /\ staged'[g][m].txn = L + j
      BY <2>1, <2>2, <2>6
    <3>3. L + j \notin 0..L
      OBVIOUS
    <3>4. PICK i \in 1..K : d[i] = n /\ k = f
      BY <3>1, <3>2, <3>3
    <3>5. i = j
      BY <1>15, <3>2, <3>4
    <3>. QED  BY <3>2, <3>4, <3>5
  <2>. QED  BY <2>3, <2>4, <2>5, <2>6
<1>21. EachTransaction'
  <2>. SUFFICES ASSUME NEW t \in 1..(L + K)
                PROVE  \E g \in Files : \E n \in DOMAIN staged'[g] : staged'[g][n].txn = t
    BY <1>18 DEF EachTransaction
  <2>1. CASE t \in 1..L
    <3>1. PICK g \in Files : \E n \in DOMAIN staged[g] : staged[g][n].txn = t
      BY <1>3, <2>1 DEF Book, EachTransaction
    <3>2. PICK n \in DOMAIN staged[g] : staged[g][n].txn = t
      BY <3>1
    <3>3. t # 0
      BY <2>1
    <3>4. staged'[g][n].txn = t /\ n \in DOMAIN staged'[g]
      BY <1>13, <1>14, <3>2, <3>3
    <3>. QED  BY <3>4
  <2>2. CASE t \notin 1..L
    <3>1. PICK i \in 1..K : t = L + i
      BY <1>18, <2>2
    <3>. QED  BY <1>13, <1>15, <3>1
  <2>. QED  BY <2>1, <2>2
<1>22. NamedOnce'
  <2>. SUFFICES ASSUME provider, NEW t \in 1..(L + K), NEW u \in 1..(L + K),
                       ledger'[t].print = ledger'[u].print
                PROVE  t = u
    BY <1>1, <1>18 DEF NamedOnce
  <2>1. /\ \A i, j \in 1..K : prints[i] = prints[j] => i = j
        /\ \A i \in 1..K : \A v \in 1..L : ledger[v].print # prints[i]
    BY <1>1, <1>3, <1>17, BookFacts DEF BindingFree
  <2>2. \A v \in 1..(L + K) : v \notin 1..L =>
          v - L \in 1..K /\ ledger'[v].print = prints[v - L]
    BY <1>17, <1>18
  <2>3. CASE t \in 1..L /\ u \in 1..L
    <3>1. \A v, w \in 1..L : ledger[v].print = ledger[w].print => v = w
      BY <1>3 DEF Book, NamedOnce
    <3>. QED  BY <1>18, <2>3, <3>1
  <2>4. CASE t \notin 1..L /\ u \notin 1..L
    BY <2>1, <2>2, <2>4
  <2>5. CASE t \in 1..L /\ u \notin 1..L
    BY <1>18, <2>1, <2>2, <2>5
  <2>6. CASE t \notin 1..L /\ u \in 1..L
    BY <1>18, <2>1, <2>2, <2>6
  <2>. QED  BY <2>3, <2>4, <2>5, <2>6
<1>23. Len(ledger') <= MaxTxns
  BY <1>1, <1>2, <1>3, <1>18
<1>. QED  BY <1>1, <1>12, <1>18, <1>19, <1>20, <1>21, <1>22, <1>23 DEF Book

LEMMA InitBook == Init => Book
<1>. SUFFICES ASSUME Init PROVE Book
  OBVIOUS
<1>1. /\ provider \in BOOLEAN /\ staged = [f \in Files |-> <<>>] /\ ledger = <<>>
  BY DEF Init
<1>2. \A f \in Files : staged[f] = <<>> /\ DOMAIN staged[f] = {}
  BY <1>1
<1>3. Len(ledger) = 0 /\ 1..Len(ledger) = {} /\ ledger \in Seq(Transaction)
  BY <1>1
<1>. QED  BY <1>1, <1>2, <1>3 DEF Book, Told, OneRow, EachTransaction, NamedOnce

LEMMA NextBook == IInv /\ Book /\ [Next]_vars => Book'
<1>. SUFFICES ASSUME IInv, Book, [Next]_vars PROVE Book'
  OBVIOUS
<1>1. ASSUME NEW h \in Handlers, InsertChunk(h) PROVE Book'
  BY <1>1, InsertBook
<1>2. ASSUME NEW f \in Files, Promote(f) PROVE Book'
  BY <1>2, PromoteBook
<1>3. ASSUME NEW f \in Files, NEW n \in DOMAIN staged[f], NEW v \in {"confirmed", "rejected"},
             Review(f, n, v)
      PROVE  Book'
  BY <1>3, ReviewBook
<1>4. ASSUME NEW t \in DOMAIN ledger, DeleteTransaction(t) PROVE Book'
  BY <1>4, DeleteBook
<1>5. ASSUME UNCHANGED <<provider, staged, ledger>> PROVE Book'
  BY <1>5 DEF Book, Told, OneRow, EachTransaction, NamedOnce, Fingerprint
<1>6. ASSUME NEW h \in Handlers, Finalize(h) \/ Die(h) PROVE Book'
  BY <1>5, <1>6 DEF Finalize, Die
<1>7. ASSUME NEW h \in Handlers, NEW f \in Files, Setup(h, f) PROVE Book'
  BY <1>5, <1>7 DEF Setup
<1>8. CASE UNCHANGED vars
  BY <1>5, <1>8 DEF vars
<1>. QED  BY <1>1, <1>2, <1>3, <1>4, <1>6, <1>7, <1>8 DEF Next

LEMMA BookInvariance == Spec => []Book
BY InitBook, NextBook, Invariance, PTL DEF Spec

\* Promotion books a staged row once and only once, and what a provider names
\* once for good, for any files, runs, verdicts and deletions.
THEOREM BookedOnce == Spec => []RowIsBookedOnce
<1>1. Book => RowIsBookedOnce
  <2>. SUFFICES ASSUME Book PROVE RowIsBookedOnce
    OBVIOUS
  <2>1. \A r : r \in PromotedRows <=> \E f \in Files : \E n \in DOMAIN staged[f] :
                r = <<f, n>> /\ staged[f][n].status = "promoted"
    BY DEF PromotedRows, Rows
  <2>2. ASSUME NEW r \in PromotedRows, NEW s \in PromotedRows,
               staged[r[1]][r[2]].txn = staged[s[1]][s[2]].txn
        PROVE  r = s
    <3>1. PICK f \in Files : \E n \in DOMAIN staged[f] : r = <<f, n>> /\ staged[f][n].status = "promoted"
      BY <2>1
    <3>2. PICK n \in DOMAIN staged[f] : r = <<f, n>> /\ staged[f][n].status = "promoted"
      BY <3>1
    <3>3. PICK g \in Files : \E m \in DOMAIN staged[g] : s = <<g, m>> /\ staged[g][m].status = "promoted"
      BY <2>1
    <3>4. PICK m \in DOMAIN staged[g] : s = <<g, m>> /\ staged[g][m].status = "promoted"
      BY <3>3
    <3>5. r[1] = f /\ r[2] = n /\ s[1] = g /\ s[2] = m
      BY <3>2, <3>4
    <3>6. staged[f][n].txn = staged[g][m].txn
      BY <2>2, <3>5
    <3>7. staged[f][n].txn # 0
      BY <3>2 DEF Book, Told
    <3>8. OneRow
      BY DEF Book
    <3>9. f = g /\ n = m
      BY <3>6, <3>7, <3>8 DEF OneRow
    <3>. QED  BY <3>2, <3>4, <3>9
  <2>3. ASSUME NEW t \in DOMAIN ledger
        PROVE  \E r \in PromotedRows : /\ staged[r[1]][r[2]].txn = t
                                       /\ ledger[t].print = Fingerprint(r[1], staged[r[1]][r[2]].pos)
    <3>1. t \in 1..Len(ledger) /\ t # 0
      BY BookFacts
    <3>2. PICK f \in Files : \E n \in DOMAIN staged[f] : staged[f][n].txn = t
      BY <3>1 DEF Book, EachTransaction
    <3>3. PICK n \in DOMAIN staged[f] : staged[f][n].txn = t
      BY <3>2
    <3>4. staged[f][n].status = "promoted" /\ ledger[t].print = Fingerprint(f, staged[f][n].pos)
      BY <3>1, <3>3 DEF Book, Told
    <3>5. <<f, n>> \in PromotedRows
      BY <2>1, <3>4
    <3>. QED  BY <3>3, <3>4, <3>5
  <2>4. \A f \in Files : \A n \in DOMAIN staged[f] :
          staged[f][n].txn # 0 <=> staged[f][n].status = "promoted"
    BY DEF Book, Told
  <2>5. provider => \A t, u \in DOMAIN ledger : ledger[t].print = ledger[u].print => t = u
    BY BookFacts DEF Book, NamedOnce
  <2>. QED  BY <2>2, <2>3, <2>4, <2>5 DEF RowIsBookedOnce
<1>. QED  BY <1>1, BookInvariance, PTL

-----------------------------------------------------------------------------
(* Types: the numbers of the transactions stay within bounds because those   *)
(* of the rows are numbers of transactions.                                  *)

Rest ==
  /\ batch \in [Files -> Rollup \cup {NoBatch}]
  /\ runs \in 0..MaxRuns /\ overlapped \subseteq Files

LEMMA RollupType ==
  ASSUME NEW rows \in Seq(Row)
  PROVE  RollupOf(rows) \in Rollup
<1>1. IsFiniteSet(DOMAIN rows)
  <2>1. DOMAIN rows = 1..Len(rows) /\ Len(rows) \in Nat
    BY LenProperties
  <2>. QED  BY <2>1, FS_Interval
<1>2. ASSUME NEW status PROVE Count(rows, status) \in Nat
  <2>1. IsFiniteSet({n \in DOMAIN rows : rows[n].status = status})
    BY <1>1, FS_Subset
  <2>. QED  BY <2>1, FS_CardinalityType DEF Count
<1>3. StatusOf(rows) \in BatchStatus
  BY DEF StatusOf, BatchStatus
<1>. QED  BY <1>2, <1>3 DEF RollupOf, Rollup

LEMMA NextRest ==
  ASSUME IInv, Book, Book', Rest, [Next]_vars
  PROVE  Rest'
<1>1. Pending \in Rollup
  BY DEF Pending, Rollup, BatchStatus
<1>2. ASSUME NEW h \in Handlers, InsertChunk(h) \/ Die(h) PROVE Rest'
  BY <1>2 DEF InsertChunk, Die, Rest
<1>3. ASSUME NEW h \in Handlers, Finalize(h) PROVE Rest'
  <2>1. run[h].file \in Files
    BY <1>3, RunFacts DEF Finalize
  <2>2. RollupOf(staged[run[h].file]) \in Rollup
    BY <2>1, RollupType, BookFacts
  <2>. QED  BY <1>3, <2>2 DEF Finalize, Rest
<1>4. ASSUME NEW h \in Handlers, NEW f \in Files, Setup(h, f) PROVE Rest'
  <2>1. /\ batch' = [batch EXCEPT ![f] = Pending] /\ runs < MaxRuns /\ runs' = runs + 1
        /\ overlapped' = overlapped \cup {f} \/ overlapped' = overlapped
    BY <1>4 DEF Setup
  <2>2. batch' \in [Files -> Rollup \cup {NoBatch}]
    BY <1>1, <2>1 DEF Rest
  <2>3. runs' \in 0..MaxRuns
    BY <2>1 DEF Rest
  <2>. QED  BY <2>1, <2>2, <2>3 DEF Rest
<1>5. ASSUME NEW f \in Files, Promote(f) PROVE Rest'
  <2>1. PICK rows : staged' = [staged EXCEPT ![f] = rows] /\ batch' = [batch EXCEPT ![f] = RollupOf(rows)]
    BY <1>5 DEF Promote, PromotedRollup
  <2>2. staged'[f] = rows /\ staged'[f] \in Seq(Row)
    BY <2>1 DEF Book
  <2>3. RollupOf(rows) \in Rollup
    BY <2>2, RollupType
  <2>. QED  BY <1>5, <2>1, <2>3 DEF Promote, Rest
<1>6. ASSUME NEW f \in Files, NEW n \in DOMAIN staged[f], NEW v \in {"confirmed", "rejected"},
             Review(f, n, v)
      PROVE  Rest'
  <2>1. RollupOf(staged'[f]) \in Rollup
    BY RollupType DEF Book
  <2>. QED  BY <1>6, <2>1 DEF Review, Rest
<1>7. ASSUME NEW t \in DOMAIN ledger, DeleteTransaction(t) PROVE Rest'
  BY <1>7 DEF DeleteTransaction, Rest
<1>8. CASE UNCHANGED vars
  BY <1>8 DEF vars, Rest
<1>. QED  BY <1>2, <1>3, <1>4, <1>5, <1>6, <1>7, <1>8 DEF Next

\* Every variable keeps its type: batches their rollups, rows a number within
\* bounds, runs a file and a place in it.
THEOREM TypeCorrect == Spec => []TypeOK
<1>1. Init => Rest
  BY DEF Init, Rest
<1>2. Rest /\ IInv /\ Book /\ Book' /\ [Next]_vars => Rest'
  BY NextRest
<1>3. Spec => []Rest
  BY <1>1, <1>2, Invariance, BookInvariance, PTL DEF Spec
<1>4. IInv /\ Book /\ Rest => TypeOK
  <2>. SUFFICES ASSUME IInv, Book, Rest PROVE TypeOK
    OBVIOUS
  <2>1. ASSUME NEW h \in Handlers
        PROVE  run[h] = Idle \/ run[h] \in Run
    BY DEF IInv, Typed
  <2>. QED  BY <2>1 DEF Book, Rest, TypeOK, Run
<1>. QED  BY <1>3, <1>4, Invariance, BookInvariance, PTL

-----------------------------------------------------------------------------
(* Sure's transfers, one after the other. *)

AreTransfers(ts) ==
  /\ ts \in Seq((Nat \ {0}) \X (Nat \ {0}))
  /\ \A k \in DOMAIN ts : ts[k][1] # ts[k][2]

LEMMA TransferEnds ==
  ASSUME NEW ts, AreTransfers(ts), NEW k \in 1..Len(ts)
  PROVE  \E o, i \in Nat \ {0} : o # i /\ ts[k] = <<o, i>> /\ Range(ts[k]) = {o, i}
<1>1. ts[k] \in (Nat \ {0}) \X (Nat \ {0}) /\ ts[k][1] # ts[k][2]
  BY DEF AreTransfers
<1>2. PICK o \in Nat \ {0}, i \in Nat \ {0} : ts[k] = <<o, i>>
  BY <1>1
<1>3. DOMAIN ts[k] = {1, 2} /\ ts[k][1] = o /\ ts[k][2] = i
  BY <1>2
<1>. QED  BY <1>1, <1>2, <1>3 DEF Range

\* What the first k transfers make of the legs.
PlacedBy(ls, ts, k, fate) ==
  /\ DOMAIN fate = DOMAIN ls
  /\ \A n \in DOMAIN ls : fate[n].with # 0 =>
       /\ fate[n].with \in DOMAIN ls /\ fate[n].with # n
       /\ fate[n] = PairedBy(fate[n].with, "deterministic")
       /\ fate[fate[n].with] = PairedBy(n, "deterministic")
  /\ \A n \in DOMAIN ls : (\A j \in 1..k : n \notin Range(ts[j])) => fate[n] = Unplaced
  /\ \A j \in 1..k : \A n \in Range(ts[j]) \cap DOMAIN ls :
       (\A s \in 1..(j - 1) : Range(ts[s]) \cap Range(ts[j]) = {}) =>
         fate[n] # Unplaced /\ fate[n].with \in {0} \cup (Range(ts[j]) \ {n})

LEMMA GateIsAReason ==
  ASSUME NEW ls, NEW o, NEW i
  PROVE  GateOf(ls, o, i) \in {"non_importable", "currency_mismatch", "kind_divergence", "none"}
BY DEF GateOf

LEMMA CommittedEither ==
  ASSUME NEW ls, NEW o \in Nat \ {0}, NEW i \in Nat \ {0}, o # i, NEW tier
  PROVE  \/ /\ Committed(ls, o, i, tier, o) = PairedBy(i, tier)
            /\ Committed(ls, o, i, tier, i) = PairedBy(o, tier)
         \/ /\ Committed(ls, o, i, tier, o) = Committed(ls, o, i, tier, i)
            /\ Committed(ls, o, i, tier, o) # Unplaced /\ Committed(ls, o, i, tier, o).with = 0
<1>1. CASE GateOf(ls, o, i) = "none"
  BY <1>1 DEF Committed
<1>2. CASE GateOf(ls, o, i) # "none"
  <2>1. Committed(ls, o, i, tier, o) = HeldFor(GateOf(ls, o, i))
        /\ Committed(ls, o, i, tier, i) = HeldFor(GateOf(ls, o, i))
    BY <1>2 DEF Committed
  <2>2. HeldFor(GateOf(ls, o, i)).with = 0 /\ HeldFor(GateOf(ls, o, i)).how # "open"
    BY GateIsAReason DEF HeldFor
  <2>3. Unplaced.how = "open"
    BY DEF Unplaced
  <2>. QED  BY <2>1, <2>2, <2>3
<1>. QED  BY <1>1, <1>2

LEMMA PlaceKeeps ==
  ASSUME NEW ls, DOMAIN ls \subseteq Nat \ {0}, NEW ts, AreTransfers(ts), NEW k \in 1..Len(ts),
         NEW fate, PlacedBy(ls, ts, k - 1, fate)
  PROVE  PlacedBy(ls, ts, k, Place(ls, fate, ts[k]))
<1>. DEFINE P == Range(ts[k]) \cap DOMAIN ls
            after == Place(ls, fate, ts[k])
<1>1. PICK o \in Nat \ {0}, i \in Nat \ {0} : o # i /\ ts[k] = <<o, i>> /\ Range(ts[k]) = {o, i}
  BY TransferEnds
<1>2. /\ k \in Nat /\ k \in 1..k /\ 1..k = 1..(k - 1) \cup {k} /\ k \notin 1..(k - 1)
      /\ \A j \in 1..k : 1..(j - 1) \subseteq 1..(k - 1)
  BY DEF AreTransfers
<1>3. CASE \E n \in P : fate[n] # Unplaced
  <2>1. after = fate
    BY <1>3 DEF Place
  <2>2. ASSUME \A s \in 1..(k - 1) : Range(ts[s]) \cap Range(ts[k]) = {} PROVE FALSE
    <3>1. PICK n \in P : fate[n] # Unplaced
      BY <1>3
    <3>2. \A s \in 1..(k - 1) : n \notin Range(ts[s])
      BY <2>2
    <3>. QED  BY <3>1, <3>2 DEF PlacedBy
  <2>. QED  BY <1>2, <2>1, <2>2 DEF PlacedBy
<1>4. CASE \A n \in P : fate[n] = Unplaced
  <2>1. /\ DOMAIN after = DOMAIN ls
        /\ \A n \in DOMAIN ls \ P : after[n] = fate[n]
        /\ P # Range(ts[k]) => \A n \in P : after[n] = HeldFor("not_staged")
        /\ P = Range(ts[k]) => \A n \in P : after[n] = Committed(ls, o, i, "deterministic", n)
    <3>1. after = [n \in DOMAIN ls |->
                     IF n \notin P THEN fate[n]
                     ELSE IF P # Range(ts[k]) THEN HeldFor("not_staged")
                     ELSE Committed(ls, ts[k][1], ts[k][2], "deterministic", n)]
      BY <1>4 DEF Place
    <3>2. ts[k][1] = o /\ ts[k][2] = i /\ P \subseteq DOMAIN ls
      BY <1>1
    <3>. HIDE DEF P, after
    <3>. QED  BY <3>1, <3>2
  <2>2. /\ \A n \in P : after[n] # Unplaced
        /\ \/ \A n \in P : after[n].with = 0
           \/ /\ P = {o, i} /\ after[o] = PairedBy(i, "deterministic")
              /\ after[i] = PairedBy(o, "deterministic")
    <3>1. CASE P # Range(ts[k])
      <4>1. HeldFor("not_staged") # Unplaced /\ HeldFor("not_staged").with = 0
        BY DEF HeldFor, Unplaced
      <4>. QED  BY <2>1, <3>1, <4>1
    <3>2. CASE P = Range(ts[k])
      <4>1. PairedBy(i, "deterministic") # Unplaced /\ PairedBy(o, "deterministic") # Unplaced
        BY DEF PairedBy, Unplaced
      <4>. QED  BY <1>1, <2>1, <3>2, <4>1, CommittedEither
    <3>. QED  BY <3>1, <3>2
  <2>3. ASSUME NEW n \in DOMAIN ls, after[n].with # 0
        PROVE  /\ after[n].with \in DOMAIN ls /\ after[n].with # n
               /\ after[n] = PairedBy(after[n].with, "deterministic")
               /\ after[after[n].with] = PairedBy(n, "deterministic")
    <3>1. CASE n \in P
      BY <1>1, <2>2, <2>3, <3>1 DEF PairedBy
    <3>2. CASE n \notin P
      <4>1. after[n] = fate[n]
        BY <2>1, <3>2
      <4>2. PICK m : m = fate[n].with
        OBVIOUS
      <4>3. /\ m \in DOMAIN ls /\ m # n /\ fate[n] = PairedBy(m, "deterministic")
            /\ fate[m] = PairedBy(n, "deterministic")
        BY <2>3, <4>1, <4>2 DEF PlacedBy
      <4>4. fate[m] # Unplaced
        BY <4>3 DEF PairedBy, Unplaced
      <4>5. after[m] = fate[m]
        BY <1>4, <2>1, <4>3, <4>4
      <4>. QED  BY <4>1, <4>2, <4>3, <4>5
    <3>. QED  BY <3>1, <3>2
  <2>4. ASSUME NEW n \in DOMAIN ls, \A j \in 1..k : n \notin Range(ts[j])
        PROVE  after[n] = Unplaced
    <3>1. n \notin P /\ \A j \in 1..(k - 1) : n \notin Range(ts[j])
      BY <1>2, <2>4
    <3>. QED  BY <2>1, <3>1 DEF PlacedBy
  <2>5. ASSUME NEW j \in 1..k, NEW n \in Range(ts[j]) \cap DOMAIN ls,
               \A s \in 1..(j - 1) : Range(ts[s]) \cap Range(ts[j]) = {}
        PROVE  after[n] # Unplaced /\ after[n].with \in {0} \cup (Range(ts[j]) \ {n})
    <3>1. CASE j = k
      <4>1. n \in P
        BY <3>1
      <4>. QED  BY <1>1, <2>2, <3>1, <4>1 DEF PairedBy
    <3>2. CASE j # k
      <4>1. j \in 1..(k - 1)
        BY <1>2, <3>2
      <4>2. fate[n] # Unplaced /\ fate[n].with \in {0} \cup (Range(ts[j]) \ {n})
        BY <2>5, <4>1 DEF PlacedBy
      <4>. QED  BY <1>4, <2>1, <4>2
    <3>. QED  BY <3>1, <3>2
  <2>. HIDE DEF P, after
  <2>6. PlacedBy(ls, ts, k, after)
    BY <2>1, <2>3, <2>4, <2>5 DEF PlacedBy
  <2>. QED  BY <2>6 DEF after
<1>. QED  BY <1>3, <1>4

LEMMA NothingPlaced ==
  ASSUME NEW ls, NEW ts
  PROVE  PlacedBy(ls, ts, 0, [n \in DOMAIN ls |-> Unplaced])
BY DEF PlacedBy, Unplaced

\* g tells what the first transfers make of the legs, one after the other.
IsPlacing(ls, ts, N, g) ==
  g = [k \in 0..N |-> IF k = 0 THEN [n \in DOMAIN ls |-> Unplaced] ELSE Place(ls, g[k - 1], ts[k])]

LEMMA PlacingExists ==
  ASSUME NEW ls, NEW ts, NEW N \in Nat
  PROVE  \E g : IsPlacing(ls, ts, N, g)
<1>. DEFINE Bad == {k \in Nat : ~\E g : IsPlacing(ls, ts, k, g)}
            Base == [n \in DOMAIN ls |-> Unplaced]
<1>1. SUFFICES ASSUME Bad # {} PROVE FALSE
  OBVIOUS
<1>2. PICK k \in Bad : \A j \in Bad : k <= j
  BY <1>1, LeastNumber
<1>3. CASE k = 0
  <2>. DEFINE g == [j \in 0..0 |-> Base]
  <2>1. g = [j \in 0..0 |-> IF j = 0 THEN Base ELSE Place(ls, g[j - 1], ts[j])]
    OBVIOUS
  <2>2. IsPlacing(ls, ts, 0, g)
    BY <2>1 DEF IsPlacing
  <2>. QED  BY <1>2, <1>3, <2>2
<1>4. CASE k # 0
  <2>1. k \in Nat /\ k - 1 \in Nat /\ k - 1 \notin Bad
    <3>1. k \in Nat
      BY <1>2
    <3>2. k - 1 \in Nat /\ ~(k <= k - 1)
      BY <1>4, <3>1
    <3>. HIDE DEF Bad
    <3>. QED  BY <1>2, <3>1, <3>2
  <2>2. PICK g : IsPlacing(ls, ts, k - 1, g)
    BY <2>1
  <2>. DEFINE At(f, j) == IF j = 0 THEN Base ELSE Place(ls, f[j - 1], ts[j])
              h == [j \in 0..k |-> At(g, j)]
  <2>3. \A j \in 0..(k - 1) : j \in 0..k /\ g[j] = At(g, j)
    <3>1. g = [j \in 0..(k - 1) |-> At(g, j)]
      BY <2>2 DEF IsPlacing
    <3>. HIDE DEF At
    <3>2. \A j \in 0..(k - 1) : j \in 0..k
      BY <2>1
    <3>. QED  BY <3>1, <3>2
  <2>4. ASSUME NEW j \in 0..k PROVE At(g, j) = At(h, j)
    <3>1. CASE j = 0
      BY <3>1
    <3>2. CASE j # 0
      <4>1. j - 1 \in 0..(k - 1) /\ j - 1 \in 0..k
        BY <2>1, <3>2
      <4>2. h[j - 1] = g[j - 1]
        <5>. HIDE DEF At
        <5>. QED  BY <2>3, <4>1
      <4>. HIDE DEF h
      <4>. QED  BY <4>2
    <3>. QED  BY <3>1, <3>2
  <2>5. h = [j \in 0..k |-> At(h, j)]
    <3>. HIDE DEF At
    <3>. QED  BY <2>4
  <2>6. IsPlacing(ls, ts, k, h)
    BY <2>5 DEF IsPlacing
  <2>. QED  BY <1>2, <2>6
<1>. QED  BY <1>3, <1>4

LEMMA DeterministicPlaces ==
  ASSUME NEW ls, DOMAIN ls \subseteq Nat \ {0}, NEW ts, AreTransfers(ts)
  PROVE  PlacedBy(ls, ts, Len(ts), Deterministic(ls, ts))
<1>1. Len(ts) \in Nat
  BY DEF AreTransfers
<1>2. PICK g : IsPlacing(ls, ts, Len(ts), g) /\ Deterministic(ls, ts) = g[Len(ts)]
  <2>1. \E g : IsPlacing(ls, ts, Len(ts), g)
    BY <1>1, PlacingExists
  <2>. QED  BY <2>1 DEF IsPlacing, Deterministic
<1>3. /\ g[0] = [n \in DOMAIN ls |-> Unplaced]
      /\ \A k \in 1..Len(ts) : g[k] = Place(ls, g[k - 1], ts[k])
  BY <1>1, <1>2 DEF IsPlacing
<1>. DEFINE Bad == {k \in 0..Len(ts) : ~PlacedBy(ls, ts, k, g[k])}
<1>4. SUFFICES ASSUME Bad # {} PROVE FALSE
  BY <1>1, <1>2
<1>5. Bad \in SUBSET Nat
  OBVIOUS
<1>6. PICK k \in Bad : \A j \in Bad : k <= j
  BY <1>4, <1>5, LeastNumber
<1>7. k # 0
  BY <1>3, NothingPlaced
<1>8. k \in 1..Len(ts) /\ k - 1 \in 0..Len(ts) /\ ~(k <= k - 1)
  BY <1>1, <1>7
<1>9. PlacedBy(ls, ts, k - 1, g[k - 1])
  <2>1. k - 1 \notin Bad
    <3>. HIDE DEF Bad
    <3>. QED  BY <1>6, <1>8
  <2>. QED  BY <1>8, <2>1
<1>10. PlacedBy(ls, ts, k, g[k])
  BY <1>3, <1>8, <1>9, PlaceKeeps
<1>. QED  BY <1>10

-----------------------------------------------------------------------------
(* The legs that Sure does not pair. *)

LEMMA LegFields ==
  ASSUME NEW ls \in Seq(Leg), NEW n \in DOMAIN ls
  PROVE  n \in Nat \ {0} /\ ls[n].amount \in Int /\ ls[n].amount # 0
<1>1. ls[n] \in Leg /\ n \in 1..Len(ls) /\ Len(ls) \in Nat
  OBVIOUS
<1>. QED  BY <1>1 DEF Leg

LEMMA Mirrored ==
  ASSUME NEW ls \in Seq(Leg), NEW o \in DOMAIN ls, NEW i \in DOMAIN ls, Key(ls, o) = Key(ls, i),
         ls[o].amount > 0, ls[i].amount < 0
  PROVE  /\ ls[i].amount = -ls[o].amount /\ ls[o].amount = -ls[i].amount
         /\ ls[i].day = ls[o].day /\ ls[i].currency = ls[o].currency
<1>1. Size(ls, o) = Size(ls, i) /\ ls[i].day = ls[o].day /\ ls[i].currency = ls[o].currency
  BY DEF Key
<1>2. Size(ls, o) = ls[o].amount /\ Size(ls, i) = -ls[i].amount
  BY LegFields DEF Size
<1>3. PICK a \in Int, b \in Int : a = ls[o].amount /\ b = ls[i].amount
  BY LegFields
<1>5. a = -b /\ b = -a
  <2>1. a = -b
    BY <1>1, <1>2, <1>3
  <2>. QED  BY <2>1
<1>4. ls[i].amount = -ls[o].amount /\ ls[o].amount = -ls[i].amount
  BY <1>3, <1>5
<1>. QED  BY <1>1, <1>4

\* The ways to pair legs as their names say.
Matchings(ls, outs, ins) ==
  {f \in [outs -> ins] :
     /\ \A o, p \in outs : f[o] = f[p] => o = p
     /\ \A o \in outs : Names(ls, o, f[o])}

\* Leg n of the group S was paired for a reason.
PairedForAReason(ls, S, fate, n) ==
  LET m == fate[n].with IN
  /\ m \in S /\ fate[m] = PairedBy(n, fate[n].how) /\ fate[n].how # "deterministic"
  /\ ls[m].amount = -ls[n].amount /\ ls[m].acc # ls[n].acc
  /\ ls[m].day = ls[n].day /\ ls[m].currency = ls[n].currency
  /\ \/ S = {m, n}
     \/ ls[n].amount < 0
     \/ /\ Cardinality(Matchings(ls, Outflows(ls, S), Inflows(ls, S))) = 1
        /\ \A f \in Matchings(ls, Outflows(ls, S), Inflows(ls, S)) : f[n] = m

OnlyMatching(ls, outs, ins, f) ==
  /\ f \in [outs -> ins]
  /\ Matchings(ls, outs, ins) = {f}
  /\ \A o \in outs : f[o] = CHOOSE i \in ins : Names(ls, o, i)
  /\ \A i \in ins : (CHOOSE o \in outs : Names(ls, o, i)) \in outs
                    /\ f[CHOOSE o \in outs : Names(ls, o, i)] = i
  /\ \A o \in outs : (CHOOSE p \in outs : Names(ls, p, f[o])) = o

\* Two legs that name each other, and no other, are the pair of a perfect matching.
LEMMA OneMatching ==
  ASSUME NEW ls, NEW outs, NEW ins, IsFiniteSet(outs), IsFiniteSet(ins), Resolves(ls, outs, ins)
  PROVE  \E f : OnlyMatching(ls, outs, ins, f)
<1>1. ASSUME NEW o \in outs
      PROVE  \E i \in ins : \A j \in ins : Names(ls, o, j) <=> j = i
  <2>1. {i \in ins : Names(ls, o, i)} \in SUBSET ins
    OBVIOUS
  <2>2. IsFiniteSet({i \in ins : Names(ls, o, i)})
    BY <2>1, FS_Subset
  <2>3. Cardinality({i \in ins : Names(ls, o, i)}) = 1
    BY DEF Resolves
  <2>4. PICK i : {j \in ins : Names(ls, o, j)} = {i}
    BY <2>2, <2>3, FS_Singleton
  <2>. QED  BY <2>4
<1>2. ASSUME NEW i \in ins
      PROVE  \E o \in outs : \A p \in outs : Names(ls, p, i) <=> p = o
  <2>1. {o \in outs : Names(ls, o, i)} \in SUBSET outs
    OBVIOUS
  <2>2. IsFiniteSet({o \in outs : Names(ls, o, i)})
    BY <2>1, FS_Subset
  <2>3. Cardinality({o \in outs : Names(ls, o, i)}) = 1
    BY DEF Resolves
  <2>4. PICK o : {p \in outs : Names(ls, p, i)} = {o}
    BY <2>2, <2>3, FS_Singleton
  <2>. QED  BY <2>4
<1>. DEFINE f == [o \in outs |-> CHOOSE i \in ins : Names(ls, o, i)]
<1>3. \A o \in outs : f[o] \in ins /\ Names(ls, o, f[o]) /\ \A j \in ins : Names(ls, o, j) => j = f[o]
  BY <1>1
<1>4. \A i \in ins : LET o == CHOOSE p \in outs : Names(ls, p, i)
                     IN o \in outs /\ Names(ls, o, i) /\ \A p \in outs : Names(ls, p, i) => p = o
  BY <1>2
<1>5. f \in [outs -> ins] /\ \A o \in outs : f[o] = CHOOSE i \in ins : Names(ls, o, i)
  BY <1>3
<1>. HIDE DEF f
<1>6. \A o, p \in outs : f[o] = f[p] => o = p
  BY <1>2, <1>3
<1>7. ASSUME NEW g \in Matchings(ls, outs, ins) PROVE g = f
  <2>1. g \in [outs -> ins] /\ \A o \in outs : Names(ls, o, g[o])
    BY DEF Matchings
  <2>2. \A o \in outs : g[o] = f[o]
    BY <1>3, <2>1
  <2>. QED  BY <1>5, <2>1, <2>2
<1>8. f \in Matchings(ls, outs, ins)
  BY <1>3, <1>5, <1>6 DEF Matchings
<1>9. Matchings(ls, outs, ins) = {f}
  BY <1>7, <1>8
<1>10. ASSUME NEW i \in ins
       PROVE  /\ (CHOOSE o \in outs : Names(ls, o, i)) \in outs
              /\ f[CHOOSE o \in outs : Names(ls, o, i)] = i
  <2>1. PICK o : o = CHOOSE p \in outs : Names(ls, p, i)
    OBVIOUS
  <2>2. o \in outs /\ Names(ls, o, i)
    BY <1>4, <2>1
  <2>. QED  BY <1>3, <2>1, <2>2
<1>11. ASSUME NEW o \in outs PROVE (CHOOSE p \in outs : Names(ls, p, f[o])) = o
  BY <1>3, <1>4
<1>. QED  BY <1>5, <1>9, <1>10, <1>11 DEF OnlyMatching

LEMMA HeuristicPairs ==
  ASSUME NEW ls \in Seq(Leg), NEW S \in SUBSET DOMAIN ls, \A m, n \in S : Key(ls, m) = Key(ls, n),
         NEW fate, \A n \in S : fate[n] = Heuristic(ls, Outflows(ls, S), Inflows(ls, S), n),
         NEW n \in S
  PROVE  fate[n] # Unplaced /\ (fate[n].with # 0 => PairedForAReason(ls, S, fate, n))
<1>. DEFINE outs == Outflows(ls, S)
            ins == Inflows(ls, S)
<1>1. /\ outs \in SUBSET S /\ ins \in SUBSET S /\ S = outs \cup ins /\ outs \cap ins = {}
      /\ \A m \in S : m \in outs <=> ls[m].amount > 0
      /\ \A m \in S : m \in ins <=> ls[m].amount < 0
  BY LegFields DEF Outflows, Inflows
<1>2. IsFiniteSet(S) /\ IsFiniteSet(outs) /\ IsFiniteSet(ins)
  <2>1. DOMAIN ls = 1..Len(ls) /\ Len(ls) \in Nat
    OBVIOUS
  <2>2. IsFiniteSet(S)
    <3>1. IsFiniteSet(DOMAIN ls)
      BY <2>1, FS_Interval
    <3>. QED  BY <3>1, FS_Subset
  <2>. HIDE DEF outs, ins
  <2>. QED  BY <1>1, <2>2, FS_Subset
<1>3. \A r \in {"unpaired_orphan", "ambiguous_cluster"} : HeldFor(r) # Unplaced /\ HeldFor(r).with = 0
  BY DEF HeldFor, Unplaced
<1>4. \A m, tier : PairedBy(m, tier).with = m /\ PairedBy(m, tier).how = tier
  BY DEF PairedBy
<1>5. \A m, tier : tier # "open" => PairedBy(m, tier) # Unplaced
  BY DEF PairedBy, Unplaced
<1>6. \A o \in outs, i \in ins :
        /\ o \in Nat \ {0} /\ i \in Nat \ {0} /\ o # i
        /\ ls[i].amount = -ls[o].amount /\ ls[o].amount = -ls[i].amount
        /\ ls[i].day = ls[o].day /\ ls[i].currency = ls[o].currency
  BY <1>1, LegFields, Mirrored
<1>7. \A x \in S : fate[x] = Heuristic(ls, outs, ins, x)
  OBVIOUS
<1>. HIDE DEF outs, ins
<1>8. CASE outs = {} \/ ins = {}
  <2>1. fate[n] = HeldFor("unpaired_orphan")
    <3>1. fate[n] = Heuristic(ls, outs, ins, n)
      BY <1>7
    <3>2. Heuristic(ls, outs, ins, n) = HeldFor("unpaired_orphan")
      <4>1. ~(Cardinality(outs) = 1 /\ Cardinality(ins) = 1)
        <5>1. Cardinality({}) = 0
          BY FS_EmptySet
        <5>2. Cardinality(outs) = 0 \/ Cardinality(ins) = 0
          BY <1>8, <5>1, Zenon
        <5>. QED  BY <5>2
      <4>. QED  BY <1>8, <4>1 DEF Heuristic
    <3>. QED  BY <3>1, <3>2
  <2>. QED  BY <1>3, <2>1
<1>9. CASE ~(outs = {} \/ ins = {}) /\ Cardinality(outs) = 1 /\ Cardinality(ins) = 1
  <2>6. PICK o : outs = {o}
    BY <1>2, <1>9, FS_Singleton
  <2>7. PICK i : ins = {i}
    BY <1>2, <1>9, FS_Singleton
  <2>1. outs = {o} /\ ins = {i}
    BY <2>6, <2>7
  <2>2. (CHOOSE x \in outs : TRUE) = o /\ (CHOOSE x \in ins : TRUE) = i /\ S = {o, i}
    BY <1>1, <2>1
  <2>3. \A x \in S : fate[x] = IF ls[o].acc = ls[i].acc THEN HeldFor("unpaired_orphan")
                               ELSE Committed(ls, o, i, "clean", x)
    BY <1>7, <1>9, <2>2 DEF Heuristic
  <2>4. CASE ls[o].acc = ls[i].acc
    BY <1>3, <2>3, <2>4
  <2>5. CASE ls[o].acc # ls[i].acc
    <3>1. o \in outs /\ i \in ins /\ fate[o] = Committed(ls, o, i, "clean", o)
          /\ fate[i] = Committed(ls, o, i, "clean", i)
      BY <1>1, <2>1, <2>3, <2>5
    <3>2. CASE fate[o] = PairedBy(i, "clean") /\ fate[i] = PairedBy(o, "clean")
      <4>1. PairedForAReason(ls, S, fate, n)
        BY <1>4, <1>6, <2>2, <2>5, <3>1, <3>2 DEF PairedForAReason
      <4>. QED  BY <1>5, <2>2, <3>2, <4>1
    <3>3. CASE fate[o] = fate[i] /\ fate[o] # Unplaced /\ fate[o].with = 0
      BY <2>2, <3>3
    <3>. QED  BY <1>6, <3>1, <3>2, <3>3, CommittedEither
  <2>. QED  BY <2>4, <2>5
<1>10. CASE ~(outs = {} \/ ins = {}) /\ ~(Cardinality(outs) = 1 /\ Cardinality(ins) = 1)
  <2>1. CASE ~Resolves(ls, outs, ins)
    <3>1. fate[n] = HeldFor("ambiguous_cluster")
      BY <1>7, <1>10, <2>1 DEF Heuristic
    <3>. QED  BY <1>3, <3>1
  <2>2. CASE Resolves(ls, outs, ins)
    <3>8. PICK f : OnlyMatching(ls, outs, ins, f)
      BY <1>2, <2>2, OneMatching
    <3>1. /\ f \in [outs -> ins]
          /\ Matchings(ls, outs, ins) = {f}
          /\ \A o \in outs : f[o] = CHOOSE i \in ins : Names(ls, o, i)
          /\ \A i \in ins : (CHOOSE o \in outs : Names(ls, o, i)) \in outs
                            /\ f[CHOOSE o \in outs : Names(ls, o, i)] = i
          /\ \A o \in outs : (CHOOSE p \in outs : Names(ls, p, f[o])) = o
      BY <3>8 DEF OnlyMatching
    <3>2. PICK o \in outs, i \in ins : f[o] = i /\ n \in {o, i}
      <4>1. CASE n \in outs
        BY <3>1, <4>1
      <4>2. CASE n \in ins
        BY <3>1, <4>2
      <4>. QED  BY <1>1, <4>1, <4>2
    <3>3. Match(ls, outs, ins, o) = <<o, i>> /\ Match(ls, outs, ins, i) = <<o, i>>
      <4>1. i \notin outs
        BY <1>1
      <4>2. Match(ls, outs, ins, o) = <<o, f[o]>>
        BY <3>1 DEF Match
      <4>3. Match(ls, outs, ins, i) = <<CHOOSE p \in outs : Names(ls, p, i), i>>
        BY <4>1 DEF Match
      <4>. QED  BY <3>1, <3>2, <4>2, <4>3
    <3>4. \A x \in {o, i} : fate[x] = Committed(ls, o, i, "resolved_cluster", x)
      <4>1. \A x \in S : fate[x] = Committed(ls, Match(ls, outs, ins, x)[1], Match(ls, outs, ins, x)[2],
                                             "resolved_cluster", x)
        BY <1>7, <1>10, <2>2 DEF Heuristic
      <4>. QED  BY <1>1, <3>3, <4>1
    <3>5. ls[o].acc # ls[i].acc
      <4>1. Names(ls, o, i)
        BY <3>1, <3>2 DEF Matchings
      <4>. QED  BY <4>1 DEF Names
    <3>6. CASE fate[o] = PairedBy(i, "resolved_cluster") /\ fate[i] = PairedBy(o, "resolved_cluster")
      <4>1. Cardinality(Matchings(ls, outs, ins)) = 1 /\ \A g \in Matchings(ls, outs, ins) : g[o] = i
        BY <3>1, <3>2, FS_Singleton
      <4>2. ls[i].amount < 0
        BY <1>1
      <4>3. fate[o].with = i /\ fate[o].how = "resolved_cluster"
            /\ fate[i].with = o /\ fate[i].how = "resolved_cluster"
        BY <1>4, <3>6
      <4>4. PairedForAReason(ls, S, fate, o)
        BY <1>1, <1>6, <3>5, <3>6, <4>1, <4>3 DEF PairedForAReason, outs, ins
      <4>5. PairedForAReason(ls, S, fate, i)
        BY <1>1, <1>6, <3>5, <3>6, <4>2, <4>3 DEF PairedForAReason
      <4>. QED  BY <1>5, <3>2, <3>6, <4>4, <4>5
    <3>7. CASE fate[o] = fate[i] /\ fate[o] # Unplaced /\ fate[o].with = 0
      BY <3>2, <3>7
    <3>. QED  BY <1>6, <3>4, <3>6, <3>7, CommittedEither
  <2>. QED  BY <2>1, <2>2
<1>. QED  BY <1>8, <1>9, <1>10

-----------------------------------------------------------------------------
(* The theorem. *)

LEMMA PairingSound ==
  ASSUME export \in Seq(Leg), AreTransfers(transfers)
  PROVE  NothingIsGuessed
<1>. DEFINE first == Deterministic(export, transfers)
            fate == Pairing(export, transfers)
            open == {n \in DOMAIN export : first[n] = Unplaced}
            alike(n) == {m \in open : Key(export, m) = Key(export, n)}
<1>1. DOMAIN export \subseteq Nat \ {0}
  BY LegFields
<1>2. PlacedBy(export, transfers, Len(transfers), first)
  BY <1>1, DeterministicPlaces
<1>3. /\ \A n \in DOMAIN export \ open : fate[n] = first[n] /\ fate[n] # Unplaced
      /\ \A n \in open : fate[n] = Heuristic(export, Outflows(export, alike(n)),
                                             Inflows(export, alike(n)), n)
  <2>1. fate = [n \in DOMAIN export |->
                  IF n \notin open THEN first[n]
                  ELSE Heuristic(export, Outflows(export, alike(n)), Inflows(export, alike(n)), n)]
    BY DEF Pairing
  <2>2. \A n \in DOMAIN export \ open : first[n] # Unplaced
    OBVIOUS
  <2>3. open \subseteq DOMAIN export
    OBVIOUS
  <2>. HIDE DEF open, first, fate, alike
  <2>. QED  BY <2>1, <2>2, <2>3
<1>4. ASSUME NEW n \in open
      PROVE  /\ fate[n] # Unplaced
             /\ fate[n].with # 0 => PairedForAReason(export, alike(n), fate, n)
  <2>1. /\ alike(n) \in SUBSET open /\ open \in SUBSET DOMAIN export /\ n \in alike(n)
        /\ \A x, y \in alike(n) : Key(export, x) = Key(export, y)
        /\ \A m \in alike(n) : alike(m) = alike(n)
    OBVIOUS
  <2>2. \A m \in alike(n) :
          fate[m] = Heuristic(export, Outflows(export, alike(n)), Inflows(export, alike(n)), m)
    <3>. HIDE DEF open, first, fate, alike
    <3>. QED  BY <1>3, <2>1
  <2>. HIDE DEF open, first, fate, alike
  <2>. QED  BY <2>1, <2>2, HeuristicPairs
<1>5. \A n \in open : n \in DOMAIN export /\ first[n] = Unplaced /\ \A m \in alike(n) : m \in DOMAIN export
  OBVIOUS
<1>6. \A n \in DOMAIN export : n \notin open => first[n] # Unplaced
  OBVIOUS
<1>7. ASSUME NEW n \in DOMAIN export, n \notin open, fate[n].with # 0
      PROVE  fate[fate[n].with] = PairedBy(n, fate[n].how) /\ fate[n].how = "deterministic"
  <2>. HIDE DEF open, first, fate, alike
  <2>1. PICK m : m = first[n].with
    OBVIOUS
  <2>2. first[n] = fate[n]
    BY <1>3, <1>7
  <2>3. m \in DOMAIN export /\ first[n] = PairedBy(m, "deterministic")
        /\ first[m] = PairedBy(n, "deterministic")
    BY <1>2, <1>7, <2>1, <2>2 DEF PlacedBy
  <2>4. m \notin open
    <3>1. first[m] # Unplaced
      BY <2>3 DEF PairedBy, Unplaced
    <3>. QED  BY <1>5, <3>1
  <2>5. fate[m] = first[m]
    BY <1>3, <2>3, <2>4
  <2>. QED  BY <2>1, <2>2, <2>3, <2>5 DEF PairedBy
<1>8. ASSUME NEW t \in DOMAIN transfers, NEW n \in Range(transfers[t]) \cap DOMAIN export,
             \A s \in 1..(t - 1) : Range(transfers[s]) \cap Range(transfers[t]) = {}
      PROVE  fate[n].with \in {0} \cup (Range(transfers[t]) \ {n})
  <2>1. t \in 1..Len(transfers)
    BY DEF AreTransfers
  <2>. HIDE DEF open, first, fate, alike
  <2>2. first[n] # Unplaced /\ first[n].with \in {0} \cup (Range(transfers[t]) \ {n})
    BY <1>2, <1>8, <2>1 DEF PlacedBy
  <2>3. n \notin open
    BY <1>5, <2>2
  <2>. QED  BY <1>3, <2>2, <2>3
<1>9. \A n \in DOMAIN export : fate[n] # Unplaced
  <2>. HIDE DEF open, first, fate, alike
  <2>. QED  BY <1>3, <1>4
<1>10. ASSUME NEW n \in DOMAIN export, fate[n].with # 0
       PROVE  LET m == fate[n].with IN
              /\ fate[m] = PairedBy(n, fate[n].how)
              /\ fate[n].how # "deterministic" =>
                   /\ export[m].amount = -export[n].amount /\ export[m].acc # export[n].acc
                   /\ export[m].day = export[n].day /\ export[m].currency = export[n].currency
                   /\ \/ alike(n) = {m, n}
                      \/ export[n].amount < 0
                      \/ LET ways == Matchings(export, Outflows(export, alike(n)), Inflows(export, alike(n)))
                         IN Cardinality(ways) = 1 /\ \A f \in ways : f[n] = m
  <2>. HIDE DEF open, first, fate, alike
  <2>1. CASE n \in open
    BY <1>4, <1>10, <2>1 DEF PairedForAReason
  <2>2. CASE n \notin open
    BY <1>7, <1>10, <2>2
  <2>. QED  BY <2>1, <2>2
<1>. QED  BY <1>8, <1>9, <1>10 DEF NothingIsGuessed, Matchings

LEMMA ExportTyped == PairingSpec => [](export \in Seq(Leg) /\ AreTransfers(transfers))
<1>1. PairingInit => export \in Seq(Leg) /\ AreTransfers(transfers)
  BY SurePairingAssumption DEF PairingInit, AreTransfers
<1>2. (export \in Seq(Leg) /\ AreTransfers(transfers)) /\ [ReadLeg]_pairingVars
        => (export \in Seq(Leg) /\ AreTransfers(transfers))'
  <2>1. SUFFICES ASSUME export \in Seq(Leg), AreTransfers(transfers), [ReadLeg]_pairingVars
                 PROVE  export' \in Seq(Leg) /\ transfers' = transfers
    BY DEF AreTransfers
  <2>2. CASE ReadLeg
    <3>1. LegMenu \subseteq Leg
      BY SurePairingAssumption
    <3>2. PICK leg \in Leg : export' = Append(export, leg)
      BY <2>2, <3>1 DEF ReadLeg
    <3>3. transfers' = transfers
      BY <2>2 DEF ReadLeg
    <3>. QED  BY <2>1, <3>2, <3>3
  <2>3. CASE UNCHANGED pairingVars
    BY <2>1, <2>3 DEF pairingVars
  <2>. QED  BY <2>1, <2>2, <2>3
<1>. QED  BY <1>1, <1>2, PTL DEF PairingSpec

\* No pair is a guess, for any legs, in any order and any number, and any transfers
\* of Sure's own: two legs are paired as Sure says, or because they are the only
\* two of their day and amount, or because names leave a single way to pair all the
\* legs of that day and amount (pairSureTransfers).
THEOREM PairsAreCertain == PairingSpec => []NothingIsGuessed
BY ExportTyped, PairingSound, PTL

-----------------------------------------------------------------------------
(* The invariant of the migration. *)

EntryRow ==
  [type : {"entry"}, ext : Id, key : {<<>>} \cup (Exports \X Id), partner : Nat, live : BOOLEAN]

\* Nothing is booked twice, the legs of a transfer go together, and what is no
\* entry of kind standard was booked with its pair, or by the user.
BookSound ==
  /\ \E T : book \in Seq(T)
  /\ \A n \in Entries : book[n] \in EntryRow
  /\ \A m, n \in Entries : book[m].ext = book[n].ext => m = n
  /\ \A m \in Entries : book[m].partner # 0 =>
       /\ book[m].partner \in Entries
       /\ book[book[m].partner].partner = m
       /\ book[book[m].partner].live = book[m].live
  /\ \A m \in Entries : book[m].partner # 0 /\ book[m].key # <<>> =>
       \E f \in Exports : \E p \in Range(Pairs[f]) :
         /\ book[m].key = <<f, p[1]>> /\ book[m].ext = p[1]
         /\ book[book[m].partner].ext = p[2]

BookedForAReason(id) ==
  \E f \in Exports :
    \/ <<f, id>> \in touched
    \/ \E p \in Range(Pairs[f]) : id \in Range(p) /\ \A leg \in Range(p) : Bound(leg)

Untouched(f, id) == <<f, id>> \notin touched
Ahead(f) == {id \in Confirmed(f) : Untouched(f, id)}
Staged(f) == \A id \in Range(Bundle[f]) : row[f][id].status # "absent"

\* Rows say what the ledger has, and only a user confirms what is not standard.
RowsSound ==
  /\ row \in [Exports -> [Id -> [status : Status, why : BOOLEAN]]]
  /\ \A id \in Id \ Standard : Bound(id) => BookedForAReason(id)
  /\ \A f \in Exports :
       /\ Staged(f) \/ \A id \in Id : row[f][id] = Absent
       /\ \A id \in Id :
            /\ row[f][id].status \in {"promoted", "duplicate"} => Bound(id)
            /\ Untouched(f, id) =>
                 /\ row[f][id].status # "rejected"
                 /\ row[f][id].status = "confirmed" => id \in Standard
       /\ Cardinality(Ahead(f)) <= PromoteChunkSize

\* A leg that is not booked has its reason, or is one of the exceptions.
Excepted(f, id) ==
  \E p \in Range(Pairs[f]) : id \in Range(p) /\ \E g \in Exports :
    \/ \E leg \in Range(p) : <<g, leg>> \in touched
    \/ \E q \in Range(Pairs[g]) : q # p /\ Range(q) \cap Range(p) # {}
Explained(f, id) == Bound(id) \/ row[f][id].why \/ Excepted(f, id)

\* How far a run has come.
InChunks == {"confirm", "promote"}
InPairs == {"pairs", "mark", "hold"}
AtTheEnd == {"close", "done"}

RunSound ==
  LET f == migration.file
      pc == migration.pc
      todo == migration.todo
  IN /\ migration = [pc |-> pc, file |-> f, todo |-> todo, seen |-> migration.seen]
     /\ pc \in {"idle", "anchors", "sweep", "list"} \cup InChunks \cup InPairs \cup AtTheEnd
     /\ f \in Exports
     /\ pc \notin {"idle", "anchors"} => Staged(f)
     /\ pc \in {"list", "confirm"} \cup InPairs \cup AtTheEnd => Ahead(f) = {}
     /\ pc \in InChunks =>
          /\ todo \in Seq(Standard \cap Range(Bundle[f]))
          /\ \A id \in Range(Bundle[f]) \cap Standard :
               Untouched(f, id) /\ row[f][id].status = "normalized" => id \in Range(todo)
     /\ pc \in InPairs \cup AtTheEnd =>
          \A id \in Range(Bundle[f]) \cap Standard :
            Untouched(f, id) => row[f][id].status # "normalized"
     /\ pc \in InPairs =>
          /\ todo \in Seq(Range(Pairs[f]))
          /\ \A id \in Id : Settled(id) => Bound(id)
          /\ \A p \in Range(Pairs[f]) : p \in Range(todo) \/ \A leg \in Range(p) : Explained(f, leg)
     /\ pc = "mark" => todo # <<>> /\ \A leg \in Range(Head(todo)) : Bound(leg)
     /\ pc = "hold" => todo # <<>> /\ Explained(f, Head(todo)[1])
     /\ pc \in AtTheEnd => \A id \in Legs(f) : Explained(f, id)

MigrationInv == BookSound /\ RowsSound /\ RunSound

-----------------------------------------------------------------------------
(* What every step but staging and confirming keeps. *)

\* A row of the staging table, before and after: only a user, or what is booked,
\* moves it on.
RowMoves(f, id) ==
  LET r == row[f][id]
      s == row'[f][id]
  IN /\ s.status = "absent" <=> r.status = "absent"
     /\ r = Absent /\ ~Staged(f) => s = Absent
     /\ s.status \in {"promoted", "duplicate"} =>
          r.status \in {"promoted", "duplicate"} \/ Bound(id)'
     /\ r.why => s.why \/ Bound(id)'
     /\ Untouched(f, id)' => s.status \in {r.status, "promoted"}

RowType == [Exports -> [Id -> [status : Status, why : BOOLEAN]]]

BookGrows ==
  /\ \A id \in Id : Bound(id) => Bound(id)'
  /\ \A id \in Id \ Standard : Bound(id)' => Bound(id) \/ BookedForAReason(id)'

Later ==
  /\ row' \in RowType
  /\ touched \subseteq touched'
  /\ BookGrows
  /\ \A f \in Exports : \A id \in Id : RowMoves(f, id)

LEMMA BundleFacts ==
  ASSUME NEW f \in Exports
  PROVE  /\ Bundle[f] \in Seq(Id) /\ Range(Bundle[f]) \subseteq Id
         /\ IsFiniteSet(Range(Bundle[f]))
<1>1. Bundle[f] \in Seq(Id)
  BY SureAssumption
<1>2. Range(Bundle[f]) \subseteq Id
  BY <1>1 DEF Range
<1>. DEFINE n == Len(Bundle[f])
<1>3. n \in Nat /\ DOMAIN Bundle[f] = 1..n
  BY <1>1
<1>4. IsFiniteSet(1..n)
  BY <1>3, FS_Interval
<1>5. Bundle[f] \in Surjection(1..n, Range(Bundle[f]))
  BY <1>1, <1>3 DEF Surjection, Range
<1>6. IsFiniteSet(Range(Bundle[f]))
  <2>. HIDE DEF n
  <2>. QED  BY <1>4, <1>5, FS_Surjection
<1>. QED  BY <1>1, <1>2, <1>6

LEMMA PairFacts ==
  ASSUME NEW f \in Exports, NEW p \in Range(Pairs[f])
  PROVE  /\ p \in Id \X Id /\ Range(p) = {p[1], p[2]} /\ p[1] # p[2]
         /\ Range(p) \subseteq Range(Bundle[f]) \ (Standard \cup Excluded)
         /\ \A q \in Range(Pairs[f]) : Range(p) \cap Range(q) # {} => q = p
<1>1. PICK m \in DOMAIN Pairs[f] : p = Pairs[f][m]
  BY DEF Range
<1>2. Pairs[f] \in Seq(Id \X Id)
  BY SureAssumption
<1>3. p \in Id \X Id
  BY <1>1, <1>2
<1>4. Range(p) = {p[1], p[2]}
  BY <1>3 DEF Range
<1>5. Range(p) \subseteq Range(Bundle[f]) \ (Standard \cup Excluded) /\ p[1] # p[2]
  BY <1>1, SureAssumption
<1>6. ASSUME NEW q \in Range(Pairs[f]), Range(p) \cap Range(q) # {} PROVE q = p
  <2>1. PICK n \in DOMAIN Pairs[f] : q = Pairs[f][n]
    BY DEF Range
  <2>2. m # n => Range(Pairs[f][m]) \cap Range(Pairs[f][n]) = {}
    BY SureAssumption
  <2>. QED  BY <1>1, <1>6, <2>1, <2>2
<1>. QED  BY <1>3, <1>4, <1>5, <1>6

LEMMA ReasonKept ==
  ASSUME touched \subseteq touched', \A id \in Id : Bound(id) => Bound(id)',
         NEW id \in Id, BookedForAReason(id)
  PROVE  BookedForAReason(id)'
<1>1. PICK f \in Exports :
        \/ <<f, id>> \in touched
        \/ \E p \in Range(Pairs[f]) : id \in Range(p) /\ \A leg \in Range(p) : Bound(leg)
  BY DEF BookedForAReason
<1>2. CASE <<f, id>> \in touched
  BY <1>2 DEF BookedForAReason
<1>3. CASE \E p \in Range(Pairs[f]) : id \in Range(p) /\ \A leg \in Range(p) : Bound(leg)
  <2>1. PICK p \in Range(Pairs[f]) : id \in Range(p) /\ \A leg \in Range(p) : Bound(leg)
    BY <1>3
  <2>2. Range(p) \subseteq Id
    BY PairFacts
  <2>3. \A leg \in Range(p) : Bound(leg)'
    BY <2>1, <2>2
  <2>. QED  BY <2>1, <2>3 DEF BookedForAReason
<1>. QED  BY <1>1, <1>2, <1>3

LEMMA ExplainedKept ==
  ASSUME Later, NEW f \in Exports, NEW id \in Id, Explained(f, id)
  PROVE  Explained(f, id)'
<1>1. CASE Bound(id)
  BY <1>1 DEF Explained, Later, BookGrows
<1>2. CASE row[f][id].why
  BY <1>2 DEF Explained, Later, RowMoves
<1>3. CASE Excepted(f, id)
  <2>1. Excepted(f, id)'
    BY <1>3 DEF Excepted, Later
  <2>. QED  BY <2>1 DEF Explained
<1>. QED  BY <1>1, <1>2, <1>3 DEF Explained

LEMMA StagedKept ==
  ASSUME Later, NEW f \in Exports, Staged(f)
  PROVE  Staged(f)'
BY BundleFacts DEF Staged, Later, RowMoves

LEMMA AheadKept ==
  ASSUME Later, NEW f \in Exports
  PROVE  Ahead(f)' \subseteq Ahead(f)
<1>1. ASSUME NEW id \in Ahead(f)' PROVE id \in Ahead(f)
  <2>1. id \in Range(Bundle[f]) /\ id \in Id
    BY BundleFacts DEF Ahead, Confirmed
  <2>2. row'[f][id].status = "confirmed" /\ Untouched(f, id)'
    BY DEF Ahead, Confirmed
  <2>3. RowMoves(f, id)
    BY <2>1 DEF Later
  <2>4. row[f][id].status = "confirmed"
    BY <2>2, <2>3 DEF RowMoves
  <2>5. Untouched(f, id)
    BY <2>2 DEF Untouched, Later
  <2>. QED  BY <2>1, <2>4, <2>5 DEF Ahead, Confirmed
<1>. QED  BY <1>1

LEMMA NormalKept ==
  ASSUME Later, NEW f \in Exports, NEW id \in Id,
         Untouched(f, id)', row'[f][id].status = "normalized"
  PROVE  Untouched(f, id) /\ row[f][id].status = "normalized"
BY DEF Later, RowMoves, Untouched

LEMMA RowsStaySound ==
  ASSUME Later, RowsSound
  PROVE  RowsSound'
<1>1. row' \in RowType
  BY DEF Later
<1>2. ASSUME NEW id \in Id \ Standard, Bound(id)' PROVE BookedForAReason(id)'
  BY <1>2, ReasonKept DEF Later, BookGrows, RowsSound
<1>3. ASSUME NEW f \in Exports
      PROVE  Staged(f)' \/ \A id \in Id : row'[f][id] = Absent
  <2>1. CASE Staged(f)
    BY <2>1, StagedKept
  <2>2. CASE ~Staged(f)
    BY <2>2 DEF RowsSound, Later, RowMoves
  <2>. QED  BY <2>1, <2>2
<1>4. ASSUME NEW f \in Exports, NEW id \in Id,
             row'[f][id].status \in {"promoted", "duplicate"}
      PROVE  Bound(id)'
  BY <1>4 DEF RowsSound, Later, RowMoves, BookGrows
<1>5. ASSUME NEW f \in Exports, NEW id \in Id, Untouched(f, id)'
      PROVE  /\ row'[f][id].status # "rejected"
             /\ row'[f][id].status = "confirmed" => id \in Standard
  <2>1. Untouched(f, id)
    BY <1>5 DEF Later, Untouched
  <2>2. row'[f][id].status \in {row[f][id].status, "promoted"}
    BY <1>5 DEF Later, RowMoves
  <2>. QED  BY <2>1, <2>2 DEF RowsSound
<1>6. ASSUME NEW f \in Exports PROVE Cardinality(Ahead(f)') <= PromoteChunkSize
  <2>1. IsFiniteSet(Ahead(f)) /\ IsFiniteSet(Ahead(f)')
    BY BundleFacts, FS_Subset DEF Ahead, Confirmed
  <2>2. Cardinality(Ahead(f)') <= Cardinality(Ahead(f))
    BY <2>1, AheadKept, FS_Subset
  <2>3. Cardinality(Ahead(f)) <= PromoteChunkSize
    BY DEF RowsSound
  <2>. QED  BY <2>1, <2>2, <2>3, FS_CardinalityType, SureAssumption
<1>. QED  BY <1>1, <1>2, <1>3, <1>4, <1>5, <1>6 DEF RowsSound, RowType

-----------------------------------------------------------------------------
(* The book. *)

SameBindings == \A id \in Id : Bound(id)' <=> Bound(id)

LEMMA EntriesKept ==
  ASSUME BookSound, \E T : book' \in Seq(T),
         Entries' = Entries, \A n \in Entries : book'[n] = book[n]
  PROVE  BookSound' /\ SameBindings
<1>1. SameBindings
  BY DEF SameBindings, Bound
<1>2. \A n \in Entries' : book'[n] \in EntryRow
  BY DEF BookSound
<1>3. \A m, n \in Entries' : book'[m].ext = book'[n].ext => m = n
  BY DEF BookSound
<1>4. ASSUME NEW m \in Entries', book'[m].partner # 0
      PROVE  /\ book'[m].partner \in Entries'
             /\ book'[book'[m].partner].partner = m
             /\ book'[book'[m].partner].live = book'[m].live
  BY <1>4 DEF BookSound
<1>5. ASSUME NEW m \in Entries', book'[m].partner # 0, book'[m].key # <<>>
      PROVE  \E f \in Exports : \E p \in Range(Pairs[f]) :
               /\ book'[m].key = <<f, p[1]>> /\ book'[m].ext = p[1]
               /\ book'[book'[m].partner].ext = p[2]
  <2>1. book[m].partner \in Entries /\ book'[book[m].partner] = book[book[m].partner]
    BY <1>5 DEF BookSound
  <2>. QED  BY <1>5, <2>1 DEF BookSound
<1>. QED  BY <1>1, <1>2, <1>3, <1>4, <1>5 DEF BookSound

LEMMA AnchorKeepsEntries ==
  ASSUME BookSound, NEW a, NEW d, NEW v, NEW k, PutAnchor(Anchor(a, d, v, k))
  PROVE  BookSound' /\ SameBindings
<1>. DEFINE anchor == Anchor(a, d, v, k)
<1>1. PICK T : book \in Seq(T)
  BY DEF BookSound
<1>2. CASE UNCHANGED book
  <2>1. Entries' = Entries
    BY <1>2 DEF Entries
  <2>. QED  BY <1>1, <1>2, <2>1, EntriesKept
<1>3. CASE book' = Append(book, anchor)
  <2>. HIDE DEF anchor
  <2>1. book' \in Seq(T \cup {anchor})
    BY <1>1, <1>3
  <2>2. DOMAIN book' = DOMAIN book \cup {Len(book) + 1} /\ Len(book) + 1 \notin DOMAIN book
    BY <1>1, <1>3
  <2>3. \A n \in DOMAIN book : book'[n] = book[n]
    BY <1>1, <1>3
  <2>4. book'[Len(book) + 1].type # "entry"
    <3>1. book'[Len(book) + 1] = anchor
      BY <1>1, <1>3
    <3>. QED  BY <3>1 DEF anchor, Anchor
  <2>5. Entries' = Entries
    BY <2>2, <2>3, <2>4 DEF Entries
  <2>6. \A n \in Entries : book'[n] = book[n]
    BY <2>3 DEF Entries
  <2>. QED  BY <2>1, <2>5, <2>6, EntriesKept
<1>. QED  BY <1>2, <1>3 DEF PutAnchor

LEMMA InBundleFacts ==
  ASSUME NEW f \in Exports, NEW ids
  PROVE  LET todo == InBundle(f, ids) IN
         /\ todo \in Seq(Id) /\ todo \in Seq(Range(Bundle[f]) \cap ids)
         /\ \A m, n \in DOMAIN todo : todo[m] = todo[n] => m = n
         /\ \A id \in Range(Bundle[f]) \cap ids : \E n \in DOMAIN todo : todo[n] = id
<1>. DEFINE S == {n \in DOMAIN Bundle[f] : Bundle[f][n] \in ids}
            at == InOrder(S)
            c == Cardinality(S)
            todo == InBundle(f, ids)
<1>1. Bundle[f] \in Seq(Id)
  BY BundleFacts
<1>2. S \subseteq 1..Len(Bundle[f]) /\ IsFiniteSet(1..Len(Bundle[f]))
  BY <1>1, FS_Interval
<1>3. S \in SUBSET Int /\ IsFiniteSet(S) /\ c \in Nat
  BY <1>2, FS_Subset, FS_CardinalityType
<1>4. /\ at \in [1..c -> S]
      /\ \A k \in 1..c : Rank(S, at[k]) = k
      /\ \A n \in S : Rank(S, n) \in 1..c /\ at[Rank(S, n)] = n
  <2>. HIDE DEF S
  <2>. QED  BY <1>3, InOrderIsBijection
<1>5. todo = [k \in 1..c |-> Bundle[f][at[k]]]
  <2>1. DOMAIN at = 1..c
    BY <1>4
  <2>. HIDE DEF S, at, c
  <2>. QED  BY <2>1 DEF InBundle, S, at
<1>6. \A k \in 1..c : Bundle[f][at[k]] \in Range(Bundle[f]) \cap ids
  <2>1. \A n \in S : Bundle[f][n] \in Range(Bundle[f]) \cap ids
    BY DEF Range
  <2>. HIDE DEF S, at, c
  <2>. QED  BY <1>4, <2>1
<1>7. todo \in Seq(Range(Bundle[f]) \cap ids)
  <2>. HIDE DEF S, at, c, todo
  <2>. QED  BY <1>3, <1>5, <1>6
<1>8. todo \in Seq(Id)
  <2>1. Range(Bundle[f]) \subseteq Id
    BY BundleFacts
  <2>. HIDE DEF S, at, c, todo
  <2>. QED  BY <1>3, <1>5, <1>6, <2>1
<1>9. DOMAIN todo = 1..c
  BY <1>5
<1>10. ASSUME NEW m \in 1..c, NEW n \in 1..c, todo[m] = todo[n] PROVE m = n
  <2>1. at[m] \in DOMAIN Bundle[f] /\ at[n] \in DOMAIN Bundle[f]
    <3>1. S \subseteq DOMAIN Bundle[f]
      OBVIOUS
    <3>. HIDE DEF S, at, c
    <3>. QED  BY <1>4, <3>1
  <2>2. Bundle[f][at[m]] = Bundle[f][at[n]]
    <3>. HIDE DEF S, at, c, todo
    <3>. QED  BY <1>5, <1>10
  <2>3. at[m] = at[n]
    <3>1. IsInjective(Bundle[f])
      BY SureAssumption
    <3>. HIDE DEF S, at, c, todo
    <3>. QED  BY <2>1, <2>2, <3>1 DEF IsInjective
  <2>. HIDE DEF S, at, c, todo
  <2>. QED  BY <1>4, <2>3
<1>11. ASSUME NEW id \in Range(Bundle[f]) \cap ids PROVE \E n \in 1..c : todo[n] = id
  <2>1. PICK n \in S : Bundle[f][n] = id
    BY DEF Range
  <2>. HIDE DEF S, at, c, todo
  <2>. QED  BY <1>4, <1>5, <2>1
<1>. HIDE DEF S, at, c, todo
<1>. QED  BY <1>7, <1>8, <1>9, <1>10, <1>11 DEF todo

LEMMA EntriesAppended ==
  ASSUME BookSound, NEW new \in Seq(EntryRow), book' = book \o new,
         \A k \in DOMAIN new : ~Bound(new[k].ext),
         \A j, k \in DOMAIN new : new[j].ext = new[k].ext => j = k,
         \A k \in DOMAIN new : new[k].partner # 0 =>
           \E j \in DOMAIN new :
             /\ new[k].partner = Len(book) + j /\ new[j].partner = Len(book) + k
             /\ new[j].live = new[k].live
             /\ new[k].key # <<>> =>
                  \E f \in Exports : \E p \in Range(Pairs[f]) :
                    new[k].key = <<f, p[1]>> /\ new[k].ext = p[1] /\ new[j].ext = p[2]
  PROVE  /\ BookSound'
         /\ \A id \in Id : Bound(id)' <=> Bound(id) \/ \E k \in DOMAIN new : new[k].ext = id
<1>. DEFINE N == Len(book)
            Added == {N + k : k \in DOMAIN new}
<1>1. PICK T : book \in Seq(T)
  BY DEF BookSound
<1>2. N \in Nat /\ DOMAIN book = 1..N /\ DOMAIN new = 1..Len(new) /\ Len(new) \in Nat
  BY <1>1
<1>3. book' \in Seq(T \cup EntryRow)
  <2>1. book \in Seq(T \cup EntryRow) /\ new \in Seq(T \cup EntryRow)
    BY <1>1
  <2>. QED  BY <2>1
<1>4. DOMAIN book' = 1..(N + Len(new))
  BY <1>1
<1>5. \A n \in DOMAIN book : n \in DOMAIN book' /\ book'[n] = book[n]
  BY <1>1, <1>2, <1>4
<1>6. \A k \in DOMAIN new : N + k \in DOMAIN book' /\ N + k \notin DOMAIN book /\ book'[N + k] = new[k]
  BY <1>1, <1>2, <1>4
<1>7. \A k \in DOMAIN new : new[k] \in EntryRow /\ new[k].type = "entry"
  <2>1. \A k \in DOMAIN new : new[k] \in EntryRow
    BY <1>2
  <2>. QED  BY <2>1 DEF EntryRow
<1>8. Entries' = Entries \cup Added
  <2>1. ASSUME NEW n \in DOMAIN book' PROVE n \in DOMAIN book \/ n \in Added
    <3>1. n \in 1..(N + Len(new))
      BY <1>4
    <3>2. n \notin 1..N => n - N \in DOMAIN new /\ N + (n - N) = n
      BY <1>2, <3>1
    <3>. QED  BY <1>2, <3>2
  <2>. HIDE DEF N
  <2>2. ASSUME NEW n \in Entries' PROVE n \in Entries \cup Added
    BY <1>5, <2>1, <2>2 DEF Entries
  <2>3. ASSUME NEW n \in Entries \cup Added PROVE n \in Entries'
    BY <1>5, <1>6, <1>7 DEF Entries
  <2>. QED  BY <2>2, <2>3
<1>9. \A n \in Entries : book'[n] = book[n] /\ n \notin Added
  BY <1>5, <1>6 DEF Entries
<1>. HIDE DEF N, Added
<1>10. \A n \in Added : \E k \in DOMAIN new : n = N + k /\ book'[n] = new[k]
  BY <1>6 DEF Added
<1>11. \A k \in DOMAIN new : N + k \in Added
  BY DEF Added
<1>12. ASSUME NEW n \in Entries' PROVE book'[n] \in EntryRow
  <2>1. CASE n \in Entries
    BY <1>9, <2>1 DEF BookSound
  <2>2. CASE n \in Added
    BY <1>7, <1>10, <2>2
  <2>. QED  BY <1>8, <2>1, <2>2
<1>13. \A id \in Id : Bound(id)' <=> Bound(id) \/ \E k \in DOMAIN new : new[k].ext = id
  <2>1. ASSUME NEW id \in Id, NEW n \in Entries', book'[n].ext = id
        PROVE  Bound(id) \/ \E k \in DOMAIN new : new[k].ext = id
    <3>1. CASE n \in Entries
      BY <1>9, <2>1, <3>1 DEF Bound
    <3>2. CASE n \in Added
      BY <1>10, <2>1, <3>2
    <3>. QED  BY <1>8, <2>1, <3>1, <3>2
  <2>2. ASSUME NEW id \in Id, NEW n \in Entries, book[n].ext = id
        PROVE  \E m \in Entries' : book'[m].ext = id
    BY <1>8, <1>9, <2>2
  <2>3. ASSUME NEW id \in Id, NEW k \in DOMAIN new, new[k].ext = id
        PROVE  \E m \in Entries' : book'[m].ext = id
    BY <1>6, <1>8, <1>11, <2>3
  <2>. QED  BY <2>1, <2>2, <2>3 DEF Bound
<1>14. ASSUME NEW m \in Entries', NEW n \in Entries', book'[m].ext = book'[n].ext PROVE m = n
  <2>1. CASE m \in Entries /\ n \in Entries
    <3>1. book'[m] = book[m] /\ book'[n] = book[n]
      BY <1>9, <2>1
    <3>. QED  BY <1>14, <2>1, <3>1 DEF BookSound
  <2>2. CASE m \in Added /\ n \in Added
    <3>1. PICK j \in DOMAIN new : m = N + j /\ book'[m] = new[j]
      BY <1>10, <2>2
    <3>2. PICK k \in DOMAIN new : n = N + k /\ book'[n] = new[k]
      BY <1>10, <2>2
    <3>. QED  BY <1>14, <3>1, <3>2
  <2>3. ASSUME NEW j \in Entries, NEW n0 \in Added, book'[j].ext = book'[n0].ext PROVE FALSE
    <3>1. PICK k \in DOMAIN new : book'[n0] = new[k]
      BY <1>10
    <3>2. book[j].ext = new[k].ext
      BY <1>9, <2>3, <3>1
    <3>. QED  BY <3>2 DEF Bound
  <2>. QED  BY <1>8, <1>14, <2>1, <2>2, <2>3
<1>15. ASSUME NEW m \in Entries', book'[m].partner # 0
       PROVE  /\ book'[m].partner \in Entries'
              /\ book'[book'[m].partner].partner = m
              /\ book'[book'[m].partner].live = book'[m].live
              /\ book'[m].key # <<>> =>
                   \E f \in Exports : \E p \in Range(Pairs[f]) :
                     /\ book'[m].key = <<f, p[1]>> /\ book'[m].ext = p[1]
                     /\ book'[book'[m].partner].ext = p[2]
  <2>1. CASE m \in Entries
    <3>1. book'[m] = book[m]
      BY <1>9, <2>1
    <3>2. book[m].partner \in Entries
      BY <1>15, <2>1, <3>1 DEF BookSound
    <3>3. book'[book[m].partner] = book[book[m].partner]
      BY <1>9, <3>2
    <3>. QED  BY <1>8, <1>15, <2>1, <3>1, <3>2, <3>3 DEF BookSound
  <2>2. CASE m \in Added
    <3>1. PICK k \in DOMAIN new : m = N + k /\ book'[m] = new[k]
      BY <1>10, <2>2
    <3>2. PICK j \in DOMAIN new :
             /\ new[k].partner = N + j /\ new[j].partner = N + k
             /\ new[j].live = new[k].live
             /\ new[k].key # <<>> =>
                  \E f \in Exports : \E p \in Range(Pairs[f]) :
                    new[k].key = <<f, p[1]>> /\ new[k].ext = p[1] /\ new[j].ext = p[2]
      BY <1>15, <3>1 DEF N
    <3>3. N + j \in Entries' /\ book'[N + j] = new[j]
      BY <1>6, <1>8, <1>11
    <3>. QED  BY <3>1, <3>2, <3>3
  <2>. QED  BY <1>8, <2>1, <2>2
<1>. QED  BY <1>3, <1>12, <1>13, <1>14, <1>15 DEF BookSound

LEMMA PromoteAllKeeps ==
  ASSUME BookSound, RowsSound, NEW f \in Exports, MayPromote(f), PromoteAll(f), UNCHANGED touched
  PROVE  BookSound' /\ Later /\ Confirmed(f)' = {}
<1>. DEFINE todo == InBundle(f, Confirmed(f))
            new == [n \in DOMAIN todo |-> Entry(todo[n], <<f, todo[n]>>, 0)]
<1>1. Confirmed(f) \subseteq Range(Bundle[f]) /\ Confirmed(f) \subseteq Id
  BY BundleFacts DEF Confirmed
<1>2. /\ todo \in Seq(Id) /\ todo \in Seq(Range(Bundle[f]) \cap Confirmed(f))
      /\ \A m, n \in DOMAIN todo : todo[m] = todo[n] => m = n
      /\ \A id \in Range(Bundle[f]) \cap Confirmed(f) : \E n \in DOMAIN todo : todo[n] = id
  BY InBundleFacts
<1>3. book' = book \o new
  BY DEF PromoteAll
<1>. HIDE DEF todo
<1>4. \A n \in DOMAIN todo : todo[n] \in Confirmed(f) /\ todo[n] \in Id
  BY <1>2
<1>5. \A n \in DOMAIN todo : new[n] \in EntryRow /\ new[n].ext = todo[n] /\ new[n].partner = 0
  BY <1>4 DEF Entry, EntryRow
<1>6. DOMAIN new = DOMAIN todo
  OBVIOUS
<1>7. new \in Seq(EntryRow)
  <2>1. DOMAIN todo = 1..Len(todo) /\ Len(todo) \in Nat
    BY <1>2
  <2>2. new \in [1..Len(todo) -> EntryRow]
    BY <1>5, <2>1
  <2>. HIDE DEF new
  <2>. QED  BY <2>1, <2>2
<1>. HIDE DEF new
<1>8. BookSound' /\ \A id \in Id : Bound(id)' <=> Bound(id) \/ \E k \in DOMAIN new : new[k].ext = id
  <2>1. \A k \in DOMAIN new : ~Bound(new[k].ext)
    BY <1>4, <1>5, <1>6 DEF MayPromote
  <2>2. \A j, k \in DOMAIN new : new[j].ext = new[k].ext => j = k
    BY <1>2, <1>5, <1>6
  <2>. QED  BY <1>3, <1>5, <1>6, <1>7, <2>1, <2>2, EntriesAppended
<1>9. \A id \in Id : Bound(id)' <=> Bound(id) \/ id \in Confirmed(f)
  BY <1>1, <1>2, <1>4, <1>5, <1>6, <1>8
<1>. DEFINE rows == [id \in Id |->
       IF id \in Confirmed(f) THEN [row[f][id] EXCEPT !.status = "promoted"] ELSE row[f][id]]
<1>10. row \in RowType
  BY DEF RowsSound, RowType
<1>11. row' = [row EXCEPT ![f] = rows]
  BY DEF PromoteAll
<1>12. \A id \in Id : rows[id] \in [status : Status, why : BOOLEAN]
  BY <1>10 DEF RowType, Status
<1>13. rows \in [Id -> [status : Status, why : BOOLEAN]]
  BY <1>12
<1>14. /\ \A id \in Confirmed(f) : rows[id].status = "promoted" /\ rows[id].why = row[f][id].why
       /\ \A id \in Id \ Confirmed(f) : rows[id] = row[f][id]
  BY <1>1, <1>10 DEF RowType
<1>. HIDE DEF rows
<1>15. row' \in RowType
  BY <1>10, <1>11, <1>13 DEF RowType
<1>16. row'[f] = rows /\ \A g \in Exports \ {f} : row'[g] = row[g]
  BY <1>10, <1>11 DEF RowType
<1>17. ASSUME NEW id \in Id \ Standard, Bound(id)', ~Bound(id) PROVE BookedForAReason(id)'
  <2>1. id \in Confirmed(f)
    BY <1>9, <1>17
  <2>2. row[f][id].status = "confirmed"
    BY <2>1 DEF Confirmed
  <2>3. <<f, id>> \in touched
    BY <1>17, <2>2 DEF RowsSound, Untouched
  <2>. QED  BY <2>3 DEF BookedForAReason
<1>18. ASSUME NEW g \in Exports, NEW id \in Id PROVE RowMoves(g, id)
  <2>1. CASE g = f /\ id \in Confirmed(f)
    <3>1. row[f][id].status = "confirmed"
      BY <2>1 DEF Confirmed
    <3>2. Bound(id)'
      BY <1>9, <2>1
    <3>3. row'[f][id].status = "promoted" /\ row'[f][id].why = row[f][id].why
      BY <1>14, <1>16, <2>1
    <3>4. row[f][id] # Absent
      BY <3>1 DEF Absent
    <3>. QED  BY <2>1, <3>1, <3>2, <3>3, <3>4 DEF RowMoves
  <2>2. CASE ~(g = f /\ id \in Confirmed(f))
    <3>1. row'[g][id] = row[g][id]
      BY <1>14, <1>16, <2>2
    <3>. QED  BY <3>1 DEF RowMoves
  <2>. QED  BY <2>1, <2>2
<1>19. Later
  BY <1>9, <1>15, <1>17, <1>18 DEF Later, BookGrows
<1>20. Confirmed(f)' = {}
  <2>1. ASSUME NEW id \in Range(Bundle[f]), row'[f][id].status = "confirmed" PROVE FALSE
    <3>1. id \in Id
      BY BundleFacts
    <3>2. id \notin Confirmed(f)
      BY <1>14, <1>16, <2>1
    <3>3. row[f][id].status = "confirmed"
      BY <1>14, <1>16, <2>1, <3>1, <3>2
    <3>. QED  BY <3>2, <3>3 DEF Confirmed
  <2>. QED  BY <2>1 DEF Confirmed
<1>. QED  BY <1>8, <1>19, <1>20

LEMMA DeleteKeeps ==
  ASSUME BookSound, NEW n \in Entries, DeleteEntry(n)
  PROVE  BookSound' /\ SameBindings
<1>. DEFINE gone == {n} \cup ({book[n].partner} \ {0})
            after == [m \in DOMAIN book |->
                        IF m \in gone THEN [book[m] EXCEPT !.live = FALSE] ELSE book[m]]
<1>1. PICK T : book \in Seq(T)
  BY DEF BookSound
<1>2. book' = after
  BY DEF DeleteEntry
<1>3. \A m \in Entries : book[m].partner # 0 =>
        /\ book[m].partner \in Entries
        /\ book[book[m].partner].partner = m
        /\ book[book[m].partner].live = book[m].live
  BY DEF BookSound
<1>4. gone \subseteq Entries
  BY <1>3
<1>5. \A m \in Entries : m \in DOMAIN book /\ book[m] \in EntryRow /\ book[m].type = "entry"
  BY DEF BookSound, Entries
<1>6. /\ \A m \in DOMAIN book \ gone : after[m] = book[m]
      /\ \A m \in gone : after[m] = [book[m] EXCEPT !.live = FALSE]
  <2>. HIDE DEF gone
  <2>. QED  BY <1>4, <1>5
<1>7. \A m \in gone :
        /\ after[m] \in EntryRow /\ after[m].type = "entry" /\ after[m].ext = book[m].ext
        /\ after[m].key = book[m].key /\ after[m].partner = book[m].partner
        /\ after[m].live = FALSE
  <2>1. ASSUME NEW e \in EntryRow, NEW d, d = [e EXCEPT !.live = FALSE]
        PROVE  /\ d \in EntryRow /\ d.type = "entry" /\ d.ext = e.ext /\ d.key = e.key
               /\ d.partner = e.partner /\ d.live = FALSE
    BY <2>1 DEF EntryRow
  <2>. HIDE DEF gone, after
  <2>2. \A m \in gone : book[m] \in EntryRow /\ after[m] = [book[m] EXCEPT !.live = FALSE]
    BY <1>4, <1>5, <1>6
  <2>3. ASSUME NEW m \in gone
        PROVE  /\ after[m] \in EntryRow /\ after[m].type = "entry" /\ after[m].ext = book[m].ext
               /\ after[m].key = book[m].key /\ after[m].partner = book[m].partner
               /\ after[m].live = FALSE
    <3>1. book[m] \in EntryRow /\ after[m] = [book[m] EXCEPT !.live = FALSE]
      BY <2>2
    <3>. QED  BY <2>1, <3>1
  <2>. QED  BY <2>3
<1>8. ASSUME NEW m \in Entries, book[m].partner # 0 PROVE m \in gone <=> book[m].partner \in gone
  <2>1. book[m].partner \in Entries /\ book[book[m].partner].partner = m
    BY <1>3, <1>8
  <2>2. m \in gone => book[m].partner \in gone
    BY <1>3, <1>8
  <2>3. ASSUME book[m].partner = n PROVE m \in gone
    <3>1. book[n].partner = m /\ m # 0
      BY <1>1, <1>5, <2>1, <2>3
    <3>. QED  BY <3>1
  <2>4. ASSUME book[m].partner = book[n].partner, book[m].partner # n PROVE m \in gone
    BY <1>3, <1>8, <2>4
  <2>. QED  BY <2>2, <2>3, <2>4
<1>9. DOMAIN after = DOMAIN book
  OBVIOUS
<1>10. \E U : book' \in Seq(U)
  <2>1. \A m \in DOMAIN book : after[m] \in T \cup EntryRow
    <3>. HIDE DEF gone, after
    <3>. QED  BY <1>1, <1>6, <1>7
  <2>2. after \in [1..Len(book) -> T \cup EntryRow] /\ Len(book) \in Nat
    <3>1. DOMAIN book = 1..Len(book)
      BY <1>1
    <3>. HIDE DEF gone
    <3>. QED  BY <1>1, <2>1, <3>1
  <2>3. after \in Seq(T \cup EntryRow)
    <3>. HIDE DEF after
    <3>. QED  BY <2>2
  <2>. QED  BY <1>2, <2>3
<1>. HIDE DEF gone, after
<1>11. Entries' = Entries
  BY <1>2, <1>4, <1>6, <1>7, <1>9 DEF Entries
<1>12. \A m \in Entries :
         /\ book'[m] \in EntryRow /\ book'[m].ext = book[m].ext
         /\ book'[m].key = book[m].key /\ book'[m].partner = book[m].partner
         /\ book'[m].live = IF m \in gone THEN FALSE ELSE book[m].live
  BY <1>2, <1>5, <1>6, <1>7
<1>13. SameBindings
  BY <1>11, <1>12 DEF SameBindings, Bound
<1>14. \A m, k \in Entries' : book'[m].ext = book'[k].ext => m = k
  <2>1. \A m, k \in Entries : book[m].ext = book[k].ext => m = k
    BY DEF BookSound
  <2>2. \A m \in Entries : book'[m].ext = book[m].ext
    BY <1>12
  <2>. QED  BY <1>11, <2>1, <2>2
<1>15. ASSUME NEW m \in Entries', book'[m].partner # 0
       PROVE  /\ book'[m].partner \in Entries'
              /\ book'[book'[m].partner].partner = m
              /\ book'[book'[m].partner].live = book'[m].live
              /\ book'[m].key # <<>> =>
                   \E f \in Exports : \E p \in Range(Pairs[f]) :
                     /\ book'[m].key = <<f, p[1]>> /\ book'[m].ext = p[1]
                     /\ book'[book'[m].partner].ext = p[2]
  <2>. DEFINE w == book[m].partner
  <2>1. m \in Entries /\ w # 0 /\ book'[m].partner = w
    BY <1>11, <1>12, <1>15
  <2>2. w \in Entries /\ book[w].partner = m /\ book[w].live = book[m].live
    BY <1>3, <2>1
  <2>3. m \in gone <=> w \in gone
    BY <1>8, <2>1
  <2>4. book'[w].partner = m /\ book'[w].live = book'[m].live /\ book'[w].ext = book[w].ext
    BY <1>12, <2>1, <2>2, <2>3
  <2>5. book'[m].key = book[m].key /\ book'[m].ext = book[m].ext
    BY <1>12, <2>1
  <2>6. book[m].key # <<>> =>
          \E f \in Exports : \E p \in Range(Pairs[f]) :
            book[m].key = <<f, p[1]>> /\ book[m].ext = p[1] /\ book[w].ext = p[2]
    BY <2>1 DEF BookSound
  <2>. HIDE DEF w
  <2>. QED  BY <1>11, <2>1, <2>2, <2>4, <2>5, <2>6
<1>. QED  BY <1>10, <1>11, <1>12, <1>13, <1>14, <1>15 DEF BookSound

\* A pair is created, or was by a run that died: both its legs are booked.
LEMMA CreateKeeps ==
  ASSUME BookSound, migration.file \in Exports, NEW p \in Range(Pairs[migration.file]),
         p = Head(migration.todo), CreatePair
  PROVE  /\ BookSound'
         /\ \A id \in Id : Bound(id)' <=> Bound(id) \/ id \in Range(p)
<1>. DEFINE f == migration.file
            n == Len(book)
            new == <<Entry(p[1], <<f, p[1]>>, n + 2), Entry(p[2], <<>>, n + 1)>>
<1>1. /\ p \in Id \X Id /\ Range(p) = {p[1], p[2]} /\ p[1] # p[2]
      /\ Range(p) \subseteq Range(Bundle[f]) \ (Standard \cup Excluded)
      /\ \A q \in Range(Pairs[f]) : Range(p) \cap Range(q) # {} => q = p
  BY PairFacts
<1>2. CASE (\E m \in Keyed(p) : book[m].partner # 0) /\ UNCHANGED book
  <2>1. PICK m \in Entries : book[m].key = <<f, p[1]>> /\ book[m].partner # 0
    BY <1>2 DEF Keyed
  <2>2. book[m].partner \in Entries
    BY <2>1 DEF BookSound
  <2>3. book[m].key # <<>>
    BY <2>1
  <2>4. PICK g \in Exports : \E q \in Range(Pairs[g]) :
          /\ book[m].key = <<g, q[1]>> /\ book[m].ext = q[1]
          /\ book[book[m].partner].ext = q[2]
    BY <2>1, <2>3 DEF BookSound
  <2>10. PICK q \in Range(Pairs[g]) :
          /\ book[m].key = <<g, q[1]>> /\ book[m].ext = q[1]
          /\ book[book[m].partner].ext = q[2]
    BY <2>4
  <2>5. g = f /\ q[1] = p[1]
    BY <2>1, <2>10
  <2>6. q = p
    <3>1. Range(q) = {q[1], q[2]}
      BY PairFacts
    <3>. QED  BY <1>1, <2>5, <2>10, <3>1
  <2>7. Bound(p[1]) /\ Bound(p[2])
    BY <2>1, <2>2, <2>6, <2>10 DEF Bound
  <2>8. Entries' = Entries
    BY <1>2 DEF Entries
  <2>9. BookSound' /\ SameBindings
    BY <1>2, <2>8, EntriesKept DEF BookSound
  <2>. QED  BY <1>1, <2>7, <2>9 DEF SameBindings
<1>3. CASE ~Bound(p[1]) /\ ~Bound(p[2]) /\ book' = book \o new
  <2>1. n \in Nat
    BY DEF BookSound
  <2>2. new[1] = Entry(p[1], <<f, p[1]>>, n + 2) /\ new[2] = Entry(p[2], <<>>, n + 1)
        /\ DOMAIN new = {1, 2}
    OBVIOUS
  <2>3. Entry(p[1], <<f, p[1]>>, n + 2) \in EntryRow /\ Entry(p[2], <<>>, n + 1) \in EntryRow
    <3>. HIDE DEF n
    <3>. QED  BY <1>1, <2>1 DEF Entry, EntryRow
  <2>4. new \in Seq(EntryRow)
    BY <2>3
  <2>5. /\ new[1].ext = p[1] /\ new[1].key = <<f, p[1]>> /\ new[1].partner = n + 2 /\ new[1].live
        /\ new[2].ext = p[2] /\ new[2].key = <<>> /\ new[2].partner = n + 1 /\ new[2].live
        /\ new[1].live = TRUE /\ new[2].live = TRUE
    BY <2>2 DEF Entry
  <2>. HIDE DEF new
  <2>6. \A k \in DOMAIN new : ~Bound(new[k].ext)
    BY <1>3, <2>2, <2>5
  <2>7. \A j, k \in DOMAIN new : new[j].ext = new[k].ext => j = k
    BY <1>1, <2>2, <2>5
  <2>8. ASSUME NEW k \in DOMAIN new
        PROVE  \E j \in DOMAIN new :
                 /\ new[k].partner = n + j /\ new[j].partner = n + k
                 /\ new[j].live = new[k].live
                 /\ new[k].key # <<>> =>
                      \E g \in Exports : \E q \in Range(Pairs[g]) :
                        new[k].key = <<g, q[1]>> /\ new[k].ext = q[1] /\ new[j].ext = q[2]
    <3>1. CASE k = 1
      BY <2>2, <2>5, <3>1
    <3>2. CASE k = 2
      BY <2>2, <2>5, <3>2
    <3>. QED  BY <2>2, <3>1, <3>2
  <2>9. /\ BookSound'
        /\ \A id \in Id : Bound(id)' <=> Bound(id) \/ \E k \in DOMAIN new : new[k].ext = id
    BY <1>3, <2>4, <2>6, <2>7, <2>8, EntriesAppended
  <2>. QED  BY <1>1, <2>2, <2>5, <2>9
<1>. QED  BY <1>2, <1>3 DEF CreatePair

-----------------------------------------------------------------------------
(* The rows. *)

\* Only some rows of one export change.
LEMMA SomeRowsMove ==
  ASSUME RowsSound, BookGrows, UNCHANGED touched, NEW f \in Exports, NEW rows,
         row' = [row EXCEPT ![f] = rows],
         rows \in [Id -> [status : Status, why : BOOLEAN]],
         \A id \in Id : rows[id] = row[f][id] \/ RowMoves(f, id)
  PROVE  Later /\ row'[f] = rows /\ \A g \in Exports \ {f} : row'[g] = row[g]
<1>1. row \in RowType
  BY DEF RowsSound, RowType
<1>2. row' \in RowType /\ row'[f] = rows /\ \A g \in Exports \ {f} : row'[g] = row[g]
  BY <1>1 DEF RowType
<1>3. ASSUME NEW g \in Exports, NEW id \in Id PROVE RowMoves(g, id)
  <2>1. CASE row'[g][id] = row[g][id]
    BY <2>1 DEF RowMoves
  <2>2. CASE row'[g][id] # row[g][id]
    BY <1>2, <2>2
  <2>. QED  BY <2>1, <2>2
<1>. QED  BY <1>2, <1>3 DEF Later

LEMMA SameRows ==
  ASSUME RowsSound, BookGrows, UNCHANGED <<row, touched>>
  PROVE  Later
BY DEF Later, RowsSound, RowType, RowMoves

LEMMA SameBook ==
  ASSUME SameBindings
  PROVE  BookGrows
BY DEF SameBindings, BookGrows

LEMMA HeldKeeps ==
  ASSUME RowsSound, SameBindings, UNCHANGED touched, NEW f \in Exports, Staged(f),
         NEW ids, row' = Held(f, ids)
  PROVE  Later /\ \A id \in ids \cap Id : row'[f][id].status = "promoted" \/ row'[f][id].why
<1>. DEFINE rows == [id \in Id |->
       IF id \in ids /\ row[f][id].status # "promoted" THEN [row[f][id] EXCEPT !.why = TRUE]
       ELSE row[f][id]]
<1>1. row \in RowType
  BY DEF RowsSound, RowType
<1>2. row' = [row EXCEPT ![f] = rows]
  BY DEF Held
<1>3. \A id \in Id :
        /\ rows[id] \in [status : Status, why : BOOLEAN]
        /\ rows[id].status = row[f][id].status
        /\ rows[id] = row[f][id] \/ rows[id].why
        /\ id \in ids => rows[id].status = "promoted" \/ rows[id].why
  <2>. TAKE id \in Id
  <2>1. PICK r \in [status : Status, why : BOOLEAN] : r = row[f][id]
    BY <1>1 DEF RowType
  <2>2. CASE id \in ids /\ r.status # "promoted"
    <3>1. rows[id] = [r EXCEPT !.why = TRUE]
      BY <2>1, <2>2
    <3>. QED  BY <2>1, <3>1
  <2>3. CASE ~(id \in ids /\ r.status # "promoted")
    <3>1. rows[id] = r
      BY <2>1, <2>3
    <3>. QED  BY <2>1, <2>3, <3>1
  <2>. QED  BY <2>2, <2>3
<1>4. rows \in [Id -> [status : Status, why : BOOLEAN]]
  BY <1>3
<1>5. row'[f] = rows
  BY <1>1, <1>2 DEF RowType
<1>. HIDE DEF rows
<1>6. \A id \in Id : rows[id] = row[f][id] \/ RowMoves(f, id)
  BY <1>3, <1>5 DEF RowMoves
<1>7. Later
  BY <1>2, <1>4, <1>6, SomeRowsMove, SameBook
<1>. QED  BY <1>3, <1>5, <1>7

LEMMA MarkedKeeps ==
  ASSUME RowsSound, SameBindings, UNCHANGED touched, NEW f \in Exports, Staged(f),
         NEW ids, ids \subseteq Range(Bundle[f]), \A id \in ids : Bound(id), row' = Marked(f, ids)
  PROVE  Later
<1>. DEFINE rows == [id \in Id |->
       IF id \in ids THEN [status |-> "promoted", why |-> FALSE] ELSE row[f][id]]
<1>1. row \in RowType
  BY DEF RowsSound, RowType
<1>2. row' = [row EXCEPT ![f] = rows]
  BY DEF Marked
<1>3. \A id \in Id :
        /\ rows[id] \in [status : Status, why : BOOLEAN]
        /\ rows[id] = row[f][id] \/ (id \in ids /\ rows[id].status = "promoted")
  BY <1>1 DEF RowType, Status
<1>4. rows \in [Id -> [status : Status, why : BOOLEAN]]
  BY <1>3
<1>5. row'[f] = rows
  BY <1>1, <1>2 DEF RowType
<1>. HIDE DEF rows
<1>6. ASSUME NEW id \in Id, rows[id] # row[f][id] PROVE RowMoves(f, id)
  <2>1. rows[id].status = "promoted" /\ id \in ids
    BY <1>3, <1>6
  <2>2. Bound(id)'
    BY <2>1 DEF SameBindings
  <2>3. row[f][id].status # "absent"
    BY <2>1 DEF Staged
  <2>. QED  BY <1>5, <2>1, <2>2, <2>3 DEF RowMoves, Absent
<1>7. \A id \in Id : rows[id] = row[f][id] \/ RowMoves(f, id)
  BY <1>6
<1>. QED  BY <1>2, <1>4, <1>7, SomeRowsMove, SameBook

-----------------------------------------------------------------------------
(* The steps. *)

LEMMA SameLedger ==
  ASSUME BookSound, UNCHANGED book
  PROVE  BookSound' /\ SameBindings
<1>1. Entries' = Entries
  BY DEF Entries
<1>. QED  BY <1>1, EntriesKept DEF BookSound

LEMMA GotoFacts ==
  ASSUME RunSound, NEW pc, NEW todo, Goto(pc, todo)
  PROVE  migration' = [pc |-> pc, file |-> migration.file, todo |-> todo, seen |-> migration.seen]
<1>1. migration = [pc |-> migration.pc, file |-> migration.file,
                   todo |-> migration.todo, seen |-> migration.seen]
  BY DEF RunSound
<1>. QED  BY <1>1 DEF Goto

LEMMA AbortFacts ==
  ASSUME RunSound, Abort
  PROVE  migration' = [pc |-> "idle", file |-> migration.file, todo |-> <<>>, seen |-> <<>>]
<1>1. migration = [pc |-> migration.pc, file |-> migration.file,
                   todo |-> migration.todo, seen |-> migration.seen]
  BY DEF RunSound
<1>. QED  BY <1>1 DEF Abort

\* Before staging, and when no run goes, nothing is promised.
LEMMA EarlySound ==
  ASSUME NEW pc \in {"idle", "anchors"}, NEW f \in Exports, NEW todo, NEW seen,
         migration' = [pc |-> pc, file |-> f, todo |-> todo, seen |-> seen]
  PROVE  RunSound'
<1>1. /\ migration'.pc = pc /\ migration'.file = f
      /\ migration' = [pc |-> migration'.pc, file |-> migration'.file,
                       todo |-> migration'.todo, seen |-> migration'.seen]
  OBVIOUS
<1>2. pc = "idle" \/ pc = "anchors"
  OBVIOUS
<1>. QED  BY <1>1, <1>2 DEF RunSound, InChunks, InPairs, AtTheEnd

LEMMA AbortSound ==
  ASSUME RunSound, Abort
  PROVE  RunSound'
<1>1. migration.file \in Exports
  BY DEF RunSound
<1>. QED  BY <1>1, AbortFacts, EarlySound

LEMMA FileFacts ==
  ASSUME RunSound
  PROVE  migration.file \in Exports
BY DEF RunSound

LEMMA RunStaysSound ==
  ASSUME RunSound, Later, UNCHANGED migration
  PROVE  RunSound'
<1>. DEFINE f == migration.file
            pc == migration.pc
            todo == migration.todo
<1>1. f \in Exports
  BY FileFacts
<1>2. pc \notin {"idle", "anchors"} => Staged(f)'
  BY <1>1, StagedKept DEF RunSound
<1>3. pc \in {"list", "confirm"} \cup InPairs \cup AtTheEnd => Ahead(f)' = {}
  <2>1. Ahead(f)' \subseteq Ahead(f)
    BY <1>1, AheadKept
  <2>2. pc \in {"list", "confirm"} \cup InPairs \cup AtTheEnd => Ahead(f) = {}
    BY DEF RunSound
  <2>. QED  BY <2>1, <2>2
<1>4. ASSUME NEW id \in Range(Bundle[f]), Untouched(f, id)', row'[f][id].status = "normalized"
      PROVE  Untouched(f, id) /\ row[f][id].status = "normalized"
  BY <1>1, <1>4, BundleFacts, NormalKept
<1>5. pc \in InChunks =>
        \A id \in Range(Bundle[f]) \cap Standard :
          Untouched(f, id)' /\ row'[f][id].status = "normalized" => id \in Range(todo)
  BY <1>4 DEF RunSound
<1>6. pc \in InPairs \cup AtTheEnd =>
        \A id \in Range(Bundle[f]) \cap Standard :
          Untouched(f, id)' => row'[f][id].status # "normalized"
  BY <1>4 DEF RunSound
<1>7. pc \in InPairs =>
        /\ \A id \in Id : Settled(id) => Bound(id)'
        /\ \A p \in Range(Pairs[f]) : p \in Range(todo) \/ \A leg \in Range(p) : Explained(f, leg)'
  <2>1. ASSUME pc \in InPairs, NEW id \in Id, Settled(id) PROVE Bound(id)'
    BY <2>1 DEF RunSound, Later, BookGrows
  <2>2. ASSUME pc \in InPairs, NEW p \in Range(Pairs[f]), p \notin Range(todo), NEW leg \in Range(p)
        PROVE  Explained(f, leg)'
    <3>1. Explained(f, leg)
      BY <2>2 DEF RunSound
    <3>2. leg \in Id
      BY <1>1, <2>2, PairFacts
    <3>. QED  BY <1>1, <3>1, <3>2, ExplainedKept
  <2>. QED  BY <2>1, <2>2
<1>8. pc = "mark" => todo # <<>> /\ \A leg \in Range(Head(todo)) : Bound(leg)'
  <2>1. ASSUME pc = "mark", NEW leg \in Range(Head(todo)) PROVE Bound(leg)'
    <3>1. todo # <<>> /\ todo \in Seq(Range(Pairs[f])) /\ Bound(leg)
      BY <2>1 DEF RunSound, InPairs
    <3>2. Head(todo) \in Range(Pairs[f])
      BY <3>1
    <3>3. leg \in Id
      BY <1>1, <2>1, <3>2, PairFacts
    <3>. QED  BY <3>1, <3>3 DEF Later, BookGrows
  <2>. QED  BY <2>1 DEF RunSound
<1>9. pc \in AtTheEnd => \A id \in Legs(f) : Explained(f, id)'
  <2>1. Legs(f) \subseteq Id
    BY <1>1, BundleFacts DEF Legs
  <2>. QED  BY <1>1, <2>1, ExplainedKept DEF RunSound
<1>12. pc = "hold" => todo # <<>> /\ Explained(f, Head(todo)[1])'
  <2>1. ASSUME pc = "hold" PROVE Explained(f, Head(todo)[1])'
    <3>1. todo # <<>> /\ todo \in Seq(Range(Pairs[f])) /\ Explained(f, Head(todo)[1])
      BY <2>1 DEF RunSound, InPairs
    <3>2. PICK leg : leg = Head(todo)[1]
      OBVIOUS
    <3>3. Head(todo) \in Range(Pairs[f])
      BY <3>1
    <3>4. leg \in Id /\ Explained(f, leg)
      BY <1>1, <3>1, <3>2, <3>3, PairFacts
    <3>5. Explained(f, leg)'
      BY <1>1, <3>4, ExplainedKept
    <3>. QED  BY <3>2, <3>5 DEF Explained, Excepted
  <2>. QED  BY <2>1 DEF RunSound
<1>10. migration' = migration /\ \A id : Settled(id)' <=> Settled(id)
  BY DEF Settled
<1>11. /\ migration = [pc |-> pc, file |-> f, todo |-> todo, seen |-> migration.seen]
       /\ pc \in {"idle", "anchors", "sweep", "list"} \cup InChunks \cup InPairs \cup AtTheEnd
       /\ pc \in InChunks => todo \in Seq(Standard \cap Range(Bundle[f]))
       /\ pc \in InPairs => todo \in Seq(Range(Pairs[f]))
  BY DEF RunSound
<1>. QED
  BY <1>1, <1>2, <1>3, <1>5, <1>6, <1>7, <1>8, <1>9, <1>10, <1>11, <1>12 DEF RunSound, Legs

LEMMA StartStep ==
  ASSUME MigrationInv, NEW f \in Exports, Start(f)
  PROVE  MigrationInv'
<1>1. UNCHANGED <<row, book, touched>>
      /\ migration' = [pc |-> "anchors", file |-> f, todo |-> Valuations[f], seen |-> <<>>]
  BY DEF Start
<1>2. BookSound' /\ SameBindings
  BY <1>1, SameLedger DEF MigrationInv
<1>3. RowsSound'
  BY <1>1, <1>2, SameBook, SameRows, RowsStaySound DEF MigrationInv
<1>4. RunSound'
  BY <1>1, EarlySound
<1>. QED  BY <1>2, <1>3, <1>4 DEF MigrationInv

LEMMA WriteAnchorStep ==
  ASSUME MigrationInv, WriteAnchor
  PROVE  MigrationInv'
<1>. DEFINE v == Head(migration.todo)
<1>1. UNCHANGED <<row, touched>> /\ Goto("anchors", Tail(migration.todo))
  BY DEF WriteAnchor
<1>2. BookSound' /\ SameBindings
  <2>1. PutAnchor(Anchor(v.acc, v.day, v.value, "valuation")) \/ UNCHANGED book
    BY DEF WriteAnchor
  <2>. QED  BY <2>1, SameLedger, AnchorKeepsEntries DEF MigrationInv
<1>3. RowsSound'
  BY <1>1, <1>2, SameBook, SameRows, RowsStaySound DEF MigrationInv
<1>4. RunSound'
  BY <1>1, FileFacts, GotoFacts, EarlySound DEF MigrationInv
<1>. QED  BY <1>2, <1>3, <1>4 DEF MigrationInv

LEMMA CrashStep ==
  ASSUME MigrationInv, Crash
  PROVE  MigrationInv'
<1>1. UNCHANGED <<row, book, touched>> /\ Abort
  BY DEF Crash
<1>2. BookSound' /\ SameBindings
  BY <1>1, SameLedger DEF MigrationInv
<1>3. RowsSound'
  BY <1>1, <1>2, SameBook, SameRows, RowsStaySound DEF MigrationInv
<1>. QED  BY <1>1, <1>2, <1>3, AbortSound DEF MigrationInv

\* Nothing was staged, or nothing is staged again.
LEMMA StageStep ==
  ASSUME MigrationInv, Stage
  PROVE  MigrationInv'
<1>0. PICK f \in Exports : f = migration.file
  BY FileFacts DEF MigrationInv
<1>. DEFINE rows == [id \in Id |->
              IF id \notin Range(Bundle[f]) THEN Absent
              ELSE [status |-> IF Bound(id) THEN "duplicate" ELSE "normalized", why |-> FALSE]]
<1>1. /\ migration.file = f
      /\ migration' = [pc |-> "sweep", file |-> f, todo |-> <<>>, seen |-> migration.seen]
  BY <1>0, GotoFacts DEF Stage, MigrationInv
<1>2. UNCHANGED <<book, touched>>
  BY DEF Stage
<1>3. BookSound' /\ SameBindings
  BY <1>2, SameLedger DEF MigrationInv
<1>4. RowsSound' /\ Staged(f)'
  <2>1. CASE row' = row
    <3>1. RowsSound'
      BY <1>2, <1>3, <2>1, SameBook, SameRows, RowsStaySound DEF MigrationInv
    <3>2. CASE \E id \in Id : row[f][id] # Absent
      <4>1. Staged(f)
        BY <1>1, <3>2 DEF MigrationInv, RowsSound
      <4>. QED  BY <2>1, <3>1, <4>1 DEF Staged
    <3>3. CASE \A id \in Id : row[f][id] = Absent
      <4>1. row' = [row EXCEPT ![f] = rows]
        BY <1>1, <3>3 DEF Stage
      <4>2. row'[f] = rows
        BY <1>1, <4>1 DEF MigrationInv, RowsSound
      <4>3. \A id \in Range(Bundle[f]) : rows[id].status # "absent"
        BY <1>1, BundleFacts
      <4>. HIDE DEF rows
      <4>. QED  BY <3>1, <4>2, <4>3 DEF Staged
    <3>. QED  BY <3>2, <3>3
  <2>2. CASE row' = [row EXCEPT ![f] = rows] /\ \A id \in Id : row[f][id] = Absent
    <3>1. row \in RowType
      BY DEF MigrationInv, RowsSound, RowType
    <3>2. \A id \in Id :
            /\ rows[id] \in [status : Status, why : BOOLEAN]
            /\ id \notin Range(Bundle[f]) => rows[id] = Absent
            /\ id \in Range(Bundle[f]) =>
                 rows[id].status = IF Bound(id) THEN "duplicate" ELSE "normalized"
      BY DEF Status, Absent
    <3>3. rows \in [Id -> [status : Status, why : BOOLEAN]]
      BY <3>2
    <3>4. /\ row' \in RowType /\ row'[f] = rows
          /\ \A g \in Exports \ {f} : row'[g] = row[g]
      <4>. HIDE DEF rows
      <4>. QED  BY <1>1, <2>2, <3>1, <3>3 DEF RowType
    <3>. HIDE DEF rows
    <3>5. Staged(f)'
      BY <1>1, <3>2, <3>4, BundleFacts DEF Staged
    <3>6. ASSUME NEW id \in Id \ Standard, Bound(id)' PROVE BookedForAReason(id)'
      <4>1. BookedForAReason(id)
        BY <1>3, <3>6 DEF MigrationInv, RowsSound, SameBindings
      <4>. QED  BY <1>2, <1>3, <4>1, ReasonKept DEF SameBindings
    <3>7. ASSUME NEW id \in Id
          PROVE  /\ row'[f][id].status \in {"absent", "duplicate", "normalized"}
                 /\ row'[f][id].status = "duplicate" => Bound(id)'
      BY <1>3, <3>2, <3>4, <3>7 DEF Absent, SameBindings
    <3>8. ASSUME NEW g \in Exports, NEW id \in Id
          PROVE  /\ row'[g][id].status \in {"promoted", "duplicate"} => Bound(id)'
                 /\ Untouched(g, id)' =>
                      /\ row'[g][id].status # "rejected"
                      /\ row'[g][id].status = "confirmed" => id \in Standard
      <4>1. CASE g = f
        BY <3>7, <4>1
      <4>2. CASE g # f
        <5>1. row'[g][id] = row[g][id]
          BY <3>4, <4>2
        <5>. QED  BY <1>2, <1>3, <5>1 DEF MigrationInv, RowsSound, Untouched, SameBindings
      <4>. QED  BY <4>1, <4>2
    <3>9. ASSUME NEW g \in Exports
          PROVE  /\ Staged(g)' \/ \A id \in Id : row'[g][id] = Absent
                 /\ Cardinality(Ahead(g)') <= PromoteChunkSize
      <4>1. CASE g = f
        <5>1. Ahead(f)' = {}
          <6>1. ASSUME NEW id \in Ahead(f)' PROVE FALSE
            <7>1. id \in Id /\ row'[f][id].status = "confirmed"
              BY <1>1, BundleFacts DEF Ahead, Confirmed
            <7>. QED  BY <3>7, <7>1
          <6>. QED  BY <6>1
        <5>2. Cardinality({}) = 0
          BY FS_EmptySet
        <5>3. Cardinality(Ahead(f)') = 0
          BY <5>1, <5>2, Zenon
        <5>4. Cardinality(Ahead(g)') <= PromoteChunkSize
          BY <4>1, <5>3, SureAssumption
        <5>. QED  BY <3>5, <4>1, <5>4
      <4>2. CASE g # f
        <5>1. row'[g] = row[g]
          BY <3>4, <4>2
        <5>2. Ahead(g)' = Ahead(g)
          BY <1>2, <5>1 DEF Ahead, Confirmed, Untouched
        <5>3. Cardinality(Ahead(g)') = Cardinality(Ahead(g))
          BY <5>2, Zenon
        <5>. QED  BY <5>1, <5>3 DEF MigrationInv, RowsSound, Staged
      <4>. QED  BY <4>1, <4>2
    <3>. QED  BY <3>4, <3>5, <3>6, <3>8, <3>9 DEF RowsSound, RowType
  <2>. QED  BY <1>1, <2>1, <2>2 DEF Stage
<1>5. RunSound'
  <2>1. migration'.pc = "sweep" /\ migration'.file = f /\ migration'.todo = <<>>
        /\ migration' = [pc |-> migration'.pc, file |-> migration'.file,
                         todo |-> migration'.todo, seen |-> migration'.seen]
    BY <1>1
  <2>2. Staged(migration.file)'
    BY <1>4, <2>1 DEF Staged
  <2>. QED  BY <1>1, <2>1, <2>2 DEF RunSound, InChunks, InPairs, AtTheEnd
<1>. QED  BY <1>3, <1>4, <1>5 DEF MigrationInv

\* What a run promotes is booked, or the run ends.
LEMMA PromoteInRunKeeps ==
  ASSUME MigrationInv, NEW f \in Exports, f = migration.file,
         NEW next, PromoteInRun(next), UNCHANGED touched
  PROVE  /\ BookSound' /\ RowsSound'
         /\ \/ RunSound'
            \/ Later /\ Ahead(f)' = {} /\ Goto(next, migration.todo)
<1>1. CASE MayPromote(migration.file) /\ PromoteAll(migration.file) /\ Goto(next, migration.todo)
  <2>1. BookSound' /\ Later /\ Confirmed(f)' = {}
    BY <1>1, PromoteAllKeeps DEF MigrationInv
  <2>2. Ahead(f)' = {}
    BY <2>1 DEF Ahead
  <2>. QED  BY <1>1, <2>1, <2>2, RowsStaySound DEF MigrationInv
<1>2. CASE Abort /\ UNCHANGED <<row, book, balance>>
  <2>1. BookSound' /\ SameBindings
    BY <1>2, SameLedger DEF MigrationInv
  <2>2. RowsSound'
    BY <1>2, <2>1, SameBook, SameRows, RowsStaySound DEF MigrationInv
  <2>. QED  BY <1>2, <2>1, <2>2, AbortSound DEF MigrationInv
<1>. QED  BY <1>1, <1>2 DEF PromoteInRun

LEMMA SweepStep ==
  ASSUME MigrationInv, Sweep
  PROVE  MigrationInv'
<1>1. PICK f \in Exports : f = migration.file
  BY FileFacts DEF MigrationInv
<1>2. migration.pc = "sweep" /\ PromoteInRun("list") /\ UNCHANGED touched
  BY DEF Sweep, Running
<1>3. BookSound' /\ RowsSound'
      /\ (RunSound' \/ (Later /\ Ahead(f)' = {} /\ Goto("list", migration.todo)))
  BY <1>1, <1>2, PromoteInRunKeeps
<1>4. CASE Later /\ Ahead(f)' = {} /\ Goto("list", migration.todo)
  <2>1. migration' = [pc |-> "list", file |-> f, todo |-> migration.todo, seen |-> migration.seen]
    BY <1>1, <1>4, GotoFacts DEF MigrationInv
  <2>2. migration'.pc = "list" /\ migration'.file = f
        /\ migration' = [pc |-> migration'.pc, file |-> migration'.file,
                         todo |-> migration'.todo, seen |-> migration'.seen]
    BY <2>1
  <2>3. Staged(f)'
    BY <1>1, <1>2, <1>4, StagedKept DEF MigrationInv, RunSound
  <2>4. Staged(migration.file)' /\ Ahead(migration.file)' = {}
    BY <1>4, <2>2, <2>3 DEF Staged, Ahead, Confirmed, Untouched
  <2>5. RunSound'
    BY <2>2, <2>4 DEF RunSound, InChunks, InPairs, AtTheEnd
  <2>. QED  BY <1>3, <2>5 DEF MigrationInv
<1>. QED  BY <1>3, <1>4 DEF MigrationInv

\* All the normalized rows of kind standard are listed.
LEMMA ListStep ==
  ASSUME MigrationInv, List
  PROVE  MigrationInv'
<1>1. PICK f \in Exports : f = migration.file
  BY FileFacts DEF MigrationInv
<1>. DEFINE ids == {id \in Standard : row[f][id].status = "normalized"}
            todo == InBundle(f, ids)
<1>2. migration.pc = "list" /\ UNCHANGED <<row, book, touched>>
  BY DEF List, Running
<1>3. Goto("confirm", todo)
  BY <1>1 DEF List
<1>4. /\ todo \in Seq(Range(Bundle[f]) \cap ids)
      /\ \A id \in Range(Bundle[f]) \cap ids : \E n \in DOMAIN todo : todo[n] = id
  <2>. HIDE DEF ids
  <2>. QED  BY InBundleFacts
<1>. HIDE DEF todo
<1>5. migration' = [pc |-> "confirm", file |-> f, todo |-> todo, seen |-> migration.seen]
  BY <1>1, <1>3, GotoFacts DEF MigrationInv
<1>6. /\ migration'.pc = "confirm" /\ migration'.file = f /\ migration'.todo = todo
      /\ migration' = [pc |-> migration'.pc, file |-> migration'.file,
                       todo |-> migration'.todo, seen |-> migration'.seen]
  BY <1>5
<1>7. BookSound' /\ SameBindings
  BY <1>2, SameLedger DEF MigrationInv
<1>8. RowsSound'
  BY <1>2, <1>7, SameBook, SameRows, RowsStaySound DEF MigrationInv
<1>9. Staged(f) /\ Ahead(f) = {}
  BY <1>1, <1>2 DEF MigrationInv, RunSound
<1>10. Staged(migration.file)' /\ Ahead(migration.file)' = {}
  BY <1>2, <1>6, <1>9 DEF Staged, Ahead, Confirmed, Untouched
<1>11. todo \in Seq(Standard \cap Range(Bundle[f]))
  <2>1. todo \in [1..Len(todo) -> Range(Bundle[f]) \cap ids] /\ Len(todo) \in Nat
    <3>. HIDE DEF ids
    <3>. QED  BY <1>4
  <2>2. Range(Bundle[f]) \cap ids \subseteq Standard \cap Range(Bundle[f])
    OBVIOUS
  <2>. HIDE DEF ids
  <2>. QED  BY <2>1, <2>2
<1>12. ASSUME NEW id \in Range(Bundle[f]) \cap Standard, row'[f][id].status = "normalized"
       PROVE  id \in Range(todo)
  <2>1. id \in ids
    BY <1>2, <1>12
  <2>. HIDE DEF ids
  <2>. QED  BY <1>4, <2>1 DEF Range
<1>13. RunSound'
  BY <1>6, <1>10, <1>11, <1>12 DEF RunSound, InChunks, InPairs, AtTheEnd
<1>. QED  BY <1>7, <1>8, <1>13 DEF MigrationInv

LEMMA PromoteChunkStep ==
  ASSUME MigrationInv, PromoteChunk
  PROVE  MigrationInv'
<1>1. PICK f \in Exports : f = migration.file
  BY FileFacts DEF MigrationInv
<1>2. migration.pc = "promote" /\ PromoteInRun("confirm") /\ UNCHANGED touched
  BY DEF PromoteChunk, Running
<1>3. BookSound' /\ RowsSound'
      /\ (RunSound' \/ (Later /\ Ahead(f)' = {} /\ Goto("confirm", migration.todo)))
  BY <1>1, <1>2, PromoteInRunKeeps
<1>4. CASE Later /\ Ahead(f)' = {} /\ Goto("confirm", migration.todo)
  <2>1. migration' = [pc |-> "confirm", file |-> f, todo |-> migration.todo, seen |-> migration.seen]
    BY <1>1, <1>4, GotoFacts DEF MigrationInv
  <2>2. migration'.pc = "confirm" /\ migration'.file = f /\ migration'.todo = migration.todo
        /\ migration' = [pc |-> migration'.pc, file |-> migration'.file,
                         todo |-> migration'.todo, seen |-> migration'.seen]
    BY <2>1
  <2>3. Staged(f)'
    BY <1>1, <1>2, <1>4, StagedKept DEF MigrationInv, RunSound
  <2>4. Staged(migration.file)' /\ Ahead(migration.file)' = {}
    BY <1>4, <2>2, <2>3 DEF Staged, Ahead, Confirmed, Untouched
  <2>5. migration.todo \in Seq(Standard \cap Range(Bundle[f]))
    BY <1>1, <1>2 DEF MigrationInv, RunSound, InChunks
  <2>6. ASSUME NEW id \in Range(Bundle[f]) \cap Standard,
               Untouched(f, id)', row'[f][id].status = "normalized"
        PROVE  id \in Range(migration.todo)
    <3>1. Untouched(f, id) /\ row[f][id].status = "normalized"
      BY <1>4, <2>6, BundleFacts, NormalKept
    <3>. QED  BY <1>1, <1>2, <3>1 DEF MigrationInv, RunSound, InChunks
  <2>7. RunSound'
    BY <2>2, <2>4, <2>5, <2>6 DEF RunSound, InChunks, InPairs, AtTheEnd, Untouched
  <2>. QED  BY <1>3, <2>7 DEF MigrationInv
<1>. QED  BY <1>3, <1>4 DEF MigrationInv

LEMMA ReadRowsStep ==
  ASSUME MigrationInv, ReadRows
  PROVE  MigrationInv'
<1>1. PICK f \in Exports : f = migration.file
  BY FileFacts DEF MigrationInv
<1>2. migration.pc = "confirm" /\ migration.todo = <<>> /\ UNCHANGED <<row, book, touched>>
  BY DEF ReadRows, Running
<1>3. migration' = [pc |-> "pairs", file |-> f, todo |-> Pairs[f], seen |-> row[f]]
  <2>1. migration = [pc |-> migration.pc, file |-> migration.file,
                     todo |-> migration.todo, seen |-> migration.seen]
    BY DEF MigrationInv, RunSound
  <2>. QED  BY <1>1, <2>1 DEF ReadRows
<1>4. /\ migration'.pc = "pairs" /\ migration'.file = f /\ migration'.todo = Pairs[f]
      /\ migration'.seen = row[f]
      /\ migration' = [pc |-> migration'.pc, file |-> migration'.file,
                       todo |-> migration'.todo, seen |-> migration'.seen]
  BY <1>3
<1>5. BookSound' /\ SameBindings
  BY <1>2, SameLedger DEF MigrationInv
<1>6. RowsSound'
  BY <1>2, <1>5, SameBook, SameRows, RowsStaySound DEF MigrationInv
<1>7. Staged(f) /\ Ahead(f) = {}
  BY <1>1, <1>2 DEF MigrationInv, RunSound
<1>8. Staged(migration.file)' /\ Ahead(migration.file)' = {}
  BY <1>2, <1>4, <1>7 DEF Staged, Ahead, Confirmed, Untouched
<1>9. \A id \in Range(Bundle[f]) \cap Standard :
        Untouched(f, id)' => row'[f][id].status # "normalized"
  <2>1. Range(migration.todo) = {}
    BY <1>2 DEF Range
  <2>. QED  BY <1>1, <1>2, <2>1 DEF MigrationInv, RunSound, InChunks, Untouched
<1>10. Pairs[f] \in Seq(Range(Pairs[f]))
  <2>1. Pairs[f] \in Seq(Id \X Id)
    BY SureAssumption
  <2>. QED  BY <2>1 DEF Range
<1>11. ASSUME NEW id \in Id, Settled(id)' PROVE Bound(id)'
  <2>1. row[f][id].status \in {"promoted", "duplicate"}
    BY <1>4, <1>11 DEF Settled
  <2>. QED  BY <1>5, <2>1 DEF MigrationInv, RowsSound, SameBindings
<1>12. RunSound'
  BY <1>4, <1>8, <1>9, <1>10, <1>11 DEF RunSound, InChunks, InPairs, AtTheEnd, Untouched
<1>. QED  BY <1>5, <1>6, <1>12 DEF MigrationInv

\* What a chunk takes, and what it leaves.
LEMMA SliceFacts ==
  ASSUME NEW S, NEW todo \in Seq(S), todo # <<>>
  PROVE  LET slice == Slice(todo)
             rest == SubSeq(todo, Len(slice) + 1, Len(todo))
         IN /\ Range(slice) \subseteq S /\ rest \in Seq(S)
            /\ Range(todo) \subseteq Range(slice) \cup Range(rest)
            /\ IsFiniteSet(Range(slice)) /\ Cardinality(Range(slice)) <= PromoteChunkSize
<1>. DEFINE c == Min({PromoteChunkSize, Len(todo)})
            slice == Slice(todo)
            rest == SubSeq(todo, Len(slice) + 1, Len(todo))
<1>1. PromoteChunkSize \in Nat \ {0} /\ Len(todo) \in Nat /\ Len(todo) > 0
  BY SureAssumption
<1>2. c \in Nat \ {0} /\ c <= PromoteChunkSize /\ c <= Len(todo)
  <2>1. \E x \in {PromoteChunkSize, Len(todo)} :
          \A y \in {PromoteChunkSize, Len(todo)} : x <= y
    BY <1>1
  <2>2. /\ c \in {PromoteChunkSize, Len(todo)}
        /\ \A y \in {PromoteChunkSize, Len(todo)} : c <= y
    BY <2>1 DEF Min
  <2>. QED  BY <1>1, <2>2
<1>3. slice = SubSeq(todo, 1, c)
  BY DEF Slice
<1>. HIDE DEF c, slice
<1>4. /\ slice \in Seq(S) /\ Len(slice) = c /\ DOMAIN slice = 1..c
      /\ \A n \in 1..c : slice[n] = todo[n]
  BY <1>1, <1>2, <1>3
<1>5. /\ rest \in Seq(S) /\ DOMAIN rest = 1..(Len(todo) - c)
      /\ \A n \in 1..(Len(todo) - c) : rest[n] = todo[c + n]
  BY <1>1, <1>2, <1>4
<1>. HIDE DEF rest
<1>6. ASSUME NEW x \in Range(todo) PROVE x \in Range(slice) \cup Range(rest)
  <2>1. PICK n \in 1..Len(todo) : x = todo[n]
    BY DEF Range
  <2>2. CASE n <= c
    BY <1>2, <1>4, <2>1, <2>2 DEF Range
  <2>3. CASE ~(n <= c)
    <3>1. n - c \in 1..(Len(todo) - c) /\ c + (n - c) = n
      BY <1>1, <1>2, <2>1, <2>3
    <3>. QED  BY <1>5, <2>1, <3>1 DEF Range
  <2>. QED  BY <2>2, <2>3
<1>7. Range(slice) \subseteq S
  BY <1>4 DEF Range
<1>8. IsFiniteSet(Range(slice)) /\ Cardinality(Range(slice)) <= PromoteChunkSize
  <2>1. IsFiniteSet(1..c) /\ Cardinality(1..c) = c
    BY <1>2, FS_Interval
  <2>2. slice \in Surjection(1..c, Range(slice))
    BY <1>4 DEF Surjection, Range
  <2>3. IsFiniteSet(Range(slice)) /\ Cardinality(Range(slice)) <= c
    BY <2>1, <2>2, FS_Surjection
  <2>4. Cardinality(Range(slice)) \in Nat
    BY <2>3, FS_CardinalityType
  <2>. QED  BY <1>1, <1>2, <2>3, <2>4
<1>. QED  BY <1>5, <1>6, <1>7, <1>8 DEF slice, rest

\* Nothing was confirmed ahead, and no more than a chunk is now.
LEMMA ConfirmStep ==
  ASSUME MigrationInv, Confirm
  PROVE  MigrationInv'
<1>1. PICK f \in Exports : f = migration.file
  BY FileFacts DEF MigrationInv
<1>2. PICK todo : todo = migration.todo
  OBVIOUS
<1>. DEFINE slice == Slice(todo)
            rest == SubSeq(todo, Len(slice) + 1, Len(todo))
            rows == [id \in Id |->
              IF id \in Range(slice) THEN [row[f][id] EXCEPT !.status = "confirmed"] ELSE row[f][id]]
<1>3. migration.pc = "confirm" /\ todo # <<>> /\ UNCHANGED <<book, touched>>
  BY <1>2 DEF Confirm, Running
<1>4. /\ todo \in Seq(Standard \cap Range(Bundle[f])) /\ Staged(f) /\ Ahead(f) = {}
      /\ \A id \in Range(Bundle[f]) \cap Standard :
           Untouched(f, id) /\ row[f][id].status = "normalized" => id \in Range(todo)
  BY <1>1, <1>2, <1>3 DEF MigrationInv, RunSound, InChunks
<1>5. /\ Range(slice) \subseteq Standard \cap Range(Bundle[f])
      /\ rest \in Seq(Standard \cap Range(Bundle[f]))
      /\ Range(todo) \subseteq Range(slice) \cup Range(rest)
      /\ IsFiniteSet(Range(slice)) /\ Cardinality(Range(slice)) <= PromoteChunkSize
  BY <1>3, <1>4, SliceFacts
<1>6. BookSound' /\ SameBindings
  BY <1>3, SameLedger DEF MigrationInv
<1>7. row \in RowType
  BY DEF MigrationInv, RowsSound, RowType
<1>8. CASE Abort /\ UNCHANGED row
  <2>1. RowsSound'
    BY <1>3, <1>6, <1>8, SameBook, SameRows, RowsStaySound DEF MigrationInv
  <2>. QED  BY <1>6, <1>8, <2>1, AbortSound DEF MigrationInv
<1>9. CASE /\ \A id \in Range(slice) : row[f][id].status # "promoted"
           /\ row' = [row EXCEPT ![f] = rows] /\ Goto("promote", rest)
  <2>. HIDE DEF slice, rest
  <2>1. \A id \in Id :
          /\ rows[id] \in [status : Status, why : BOOLEAN] /\ rows[id].why = row[f][id].why
          /\ id \in Range(slice) => rows[id].status = "confirmed"
          /\ id \notin Range(slice) => rows[id] = row[f][id]
    BY <1>7 DEF RowType, Status
  <2>2. rows \in [Id -> [status : Status, why : BOOLEAN]]
    BY <2>1
  <2>. HIDE DEF rows
  <2>3. row' \in RowType /\ row'[f] = rows /\ \A g \in Exports \ {f} : row'[g] = row[g]
    BY <1>7, <1>9, <2>2 DEF RowType
  <2>4. Range(slice) \subseteq Id
    BY <1>5, BundleFacts
  <2>5. Staged(f)'
    BY <1>4, <2>1, <2>3, BundleFacts DEF Staged
  <2>6. ASSUME NEW id \in Id \ Standard, Bound(id)' PROVE BookedForAReason(id)'
    <3>1. BookedForAReason(id)
      BY <1>6, <2>6 DEF MigrationInv, RowsSound, SameBindings
    <3>. QED  BY <1>3, <1>6, <3>1, ReasonKept DEF SameBindings
  <2>7. ASSUME NEW g \in Exports, NEW id \in Id
        PROVE  /\ row'[g][id].status \in {"promoted", "duplicate"} => Bound(id)'
               /\ Untouched(g, id)' =>
                    /\ row'[g][id].status # "rejected"
                    /\ row'[g][id].status = "confirmed" => id \in Standard
    <3>1. CASE g = f /\ id \in Range(slice)
      BY <1>5, <2>1, <2>3, <3>1
    <3>2. CASE ~(g = f /\ id \in Range(slice))
      <4>1. row'[g][id] = row[g][id]
        BY <2>1, <2>3, <3>2
      <4>. QED  BY <1>3, <1>6, <4>1 DEF MigrationInv, RowsSound, Untouched, SameBindings
    <3>. QED  BY <3>1, <3>2
  <2>8. Ahead(f)' \subseteq Range(slice)
    <3>1. ASSUME NEW id \in Ahead(f)', id \notin Range(slice) PROVE FALSE
      <4>1. /\ id \in Range(Bundle[f]) /\ id \in Id
            /\ row'[f][id].status = "confirmed" /\ Untouched(f, id)'
        BY BundleFacts DEF Ahead, Confirmed
      <4>2. row[f][id].status = "confirmed" /\ Untouched(f, id)
        BY <1>3, <2>1, <2>3, <3>1, <4>1 DEF Untouched
      <4>. QED  BY <1>4, <4>1, <4>2 DEF Ahead, Confirmed
    <3>. QED  BY <3>1
  <2>9. ASSUME NEW g \in Exports
        PROVE  /\ Staged(g)' \/ \A id \in Id : row'[g][id] = Absent
               /\ Cardinality(Ahead(g)') <= PromoteChunkSize
    <3>1. CASE g = f
      <4>1. IsFiniteSet(Ahead(f)') /\ Cardinality(Ahead(f)') <= Cardinality(Range(slice))
        BY <1>5, <2>8, FS_Subset
      <4>2. Cardinality(Ahead(f)') \in Nat /\ Cardinality(Range(slice)) \in Nat
        BY <1>5, <4>1, FS_CardinalityType
      <4>3. Cardinality(Ahead(f)') <= PromoteChunkSize
        BY <1>5, <4>1, <4>2, SureAssumption
      <4>. QED  BY <2>5, <3>1, <4>3
    <3>2. CASE g # f
      <4>1. row'[g] = row[g]
        BY <2>3, <3>2
      <4>2. Ahead(g)' = Ahead(g)
        BY <1>3, <4>1 DEF Ahead, Confirmed, Untouched
      <4>3. Cardinality(Ahead(g)') = Cardinality(Ahead(g))
        BY <4>2, Zenon
      <4>. QED  BY <4>1, <4>3 DEF MigrationInv, RowsSound, Staged
    <3>. QED  BY <3>1, <3>2
  <2>10. RowsSound'
    BY <2>3, <2>6, <2>7, <2>9 DEF RowsSound, RowType
  <2>11. migration' = [pc |-> "promote", file |-> f, todo |-> rest, seen |-> migration.seen]
    BY <1>1, <1>9, GotoFacts DEF MigrationInv
  <2>12. /\ migration'.pc = "promote" /\ migration'.file = f /\ migration'.todo = rest
         /\ migration' = [pc |-> migration'.pc, file |-> migration'.file,
                          todo |-> migration'.todo, seen |-> migration'.seen]
    BY <2>11
  <2>13. Staged(migration.file)'
    BY <2>5, <2>12 DEF Staged
  <2>14. ASSUME NEW id \in Range(Bundle[f]) \cap Standard,
                Untouched(f, id)', row'[f][id].status = "normalized"
         PROVE  id \in Range(rest)
    <3>1. id \in Id
      BY BundleFacts
    <3>2. id \notin Range(slice)
      BY <2>1, <2>3, <2>14, <3>1
    <3>3. row[f][id].status = "normalized" /\ Untouched(f, id)
      BY <1>3, <2>1, <2>3, <2>14, <3>1, <3>2 DEF Untouched
    <3>. QED  BY <1>4, <1>5, <3>2, <3>3
  <2>15. RunSound'
    BY <1>5, <2>12, <2>13, <2>14 DEF RunSound, InChunks, InPairs, AtTheEnd, Untouched, rest, slice
  <2>. QED  BY <1>6, <2>10, <2>15 DEF MigrationInv
<1>. QED  BY <1>1, <1>2, <1>8, <1>9 DEF Confirm

-----------------------------------------------------------------------------
(* The pairs. *)

\* Where a run stands among the pairs of its file.
LEMMA AtPair ==
  ASSUME MigrationInv, NEW f \in Exports, f = migration.file,
         migration.pc \in InPairs, migration.todo # <<>>
  PROVE  LET p == Head(migration.todo) IN
         /\ p \in Range(Pairs[f]) /\ Tail(migration.todo) \in Seq(Range(Pairs[f]))
         /\ Range(p) \subseteq Id /\ Range(p) \subseteq Range(Bundle[f])
         /\ Range(p) \cap Standard = {} /\ Staged(f)
         /\ \A q \in Range(Pairs[f]) :
              q = p \/ q \in Range(Tail(migration.todo)) \/ \A leg \in Range(q) : Explained(f, leg)
<1>1. PICK todo : todo = migration.todo
  OBVIOUS
<1>2. /\ todo \in Seq(Range(Pairs[f])) /\ todo # <<>> /\ Staged(f)
      /\ \A q \in Range(Pairs[f]) : q \in Range(todo) \/ \A leg \in Range(q) : Explained(f, leg)
  BY <1>1 DEF MigrationInv, RunSound, InPairs
<1>3. Head(todo) \in Range(Pairs[f]) /\ Tail(todo) \in Seq(Range(Pairs[f]))
  BY <1>2
<1>4. ASSUME NEW q \in Range(todo), q # Head(todo) PROVE q \in Range(Tail(todo))
  <2>1. PICK n \in 1..Len(todo) : q = todo[n]
    BY <1>2 DEF Range
  <2>2. n # 1 /\ n - 1 \in 1..(Len(todo) - 1) /\ (n - 1) + 1 = n
    BY <1>2, <1>4, <2>1
  <2>3. DOMAIN Tail(todo) = 1..(Len(todo) - 1) /\ Tail(todo)[n - 1] = todo[n]
    BY <1>2, <2>2
  <2>. QED  BY <2>1, <2>2, <2>3 DEF Range
<1>5. /\ Range(Head(todo)) \subseteq Range(Bundle[f]) \ (Standard \cup Excluded)
      /\ Range(Bundle[f]) \subseteq Id
  BY <1>3, PairFacts, BundleFacts
<1>. QED  BY <1>1, <1>2, <1>3, <1>4, <1>5

\* A run goes on to the next pair when this one is explained.
LEMMA NextPairSound ==
  ASSUME MigrationInv, NEW f \in Exports, f = migration.file,
         migration.pc \in InPairs, migration.todo # <<>>,
         Later, Goto("pairs", Tail(migration.todo)),
         \A leg \in Range(Head(migration.todo)) : Explained(f, leg)'
  PROVE  RunSound'
<1>1. PICK p : p = Head(migration.todo)
  OBVIOUS
<1>2. PICK rest : rest = Tail(migration.todo)
  OBVIOUS
<1>3. /\ p \in Range(Pairs[f]) /\ rest \in Seq(Range(Pairs[f])) /\ Staged(f)
      /\ \A q \in Range(Pairs[f]) :
           q = p \/ q \in Range(rest) \/ \A leg \in Range(q) : Explained(f, leg)
  BY <1>1, <1>2, AtPair
<1>4. migration' = [pc |-> "pairs", file |-> f, todo |-> rest, seen |-> migration.seen]
  BY <1>2, GotoFacts DEF MigrationInv
<1>5. /\ migration'.pc = "pairs" /\ migration'.file = f /\ migration'.todo = rest
      /\ migration'.seen = migration.seen
      /\ migration' = [pc |-> migration'.pc, file |-> migration'.file,
                       todo |-> migration'.todo, seen |-> migration'.seen]
  BY <1>4
<1>6. ASSUME NEW q \in Range(Pairs[f]), q \notin Range(rest), NEW leg \in Range(q)
      PROVE  Explained(f, leg)'
  <2>1. leg \in Id
    BY <1>6, PairFacts
  <2>2. CASE q = p
    BY <1>1, <1>6, <2>2
  <2>3. CASE q # p
    BY <1>3, <1>6, <2>1, <2>3, ExplainedKept
  <2>. QED  BY <2>2, <2>3
<1>7. \A id \in Id : Settled(id)' => Bound(id)'
  <2>1. \A id \in Id : Settled(id) => Bound(id)
    BY DEF MigrationInv, RunSound
  <2>. QED  BY <1>5, <2>1 DEF Settled, Later, BookGrows
<1>8. Staged(migration.file)' /\ Ahead(migration.file)' = {}
  <2>1. Staged(f)' /\ Ahead(f)' \subseteq Ahead(f)
    BY <1>3, StagedKept, AheadKept
  <2>2. Ahead(f) = {}
    BY DEF MigrationInv, RunSound
  <2>. QED  BY <1>5, <2>1, <2>2 DEF Staged, Ahead, Confirmed, Untouched
<1>9. ASSUME NEW id \in Range(Bundle[f]) \cap Standard, Untouched(f, id)'
      PROVE  row'[f][id].status # "normalized"
  <2>1. Untouched(f, id) => row[f][id].status # "normalized"
    BY DEF MigrationInv, RunSound
  <2>. QED  BY <1>9, <2>1, BundleFacts, NormalKept
<1>10. \A q \in Range(Pairs[f]) :
         q \in Range(rest) \/ \A leg \in Range(q) : Explained(migration.file, leg)'
  BY <1>5, <1>6 DEF Explained, Excepted
<1>. QED  BY <1>3, <1>5, <1>7, <1>8, <1>9, <1>10 DEF RunSound, InChunks, InPairs, AtTheEnd, Untouched

\* A pair of which a leg is booked was made, or a user or another export did
\* otherwise.
LEMMA SkipPairStep ==
  ASSUME MigrationInv, SkipPair
  PROVE  MigrationInv'
<1>1. PICK f \in Exports : f = migration.file
  BY FileFacts DEF MigrationInv
<1>2. PICK p : p = Head(migration.todo)
  OBVIOUS
<1>3. /\ migration.pc \in InPairs /\ migration.todo # <<>>
      /\ UNCHANGED <<row, book, touched>> /\ Goto("pairs", Tail(migration.todo))
  BY DEF SkipPair, Running, InPairs
<1>4. /\ p \in Range(Pairs[f]) /\ Range(p) \subseteq Id /\ Range(p) \cap Standard = {}
  BY <1>1, <1>2, <1>3, AtPair
<1>5. BookSound' /\ SameBindings
  BY <1>3, SameLedger DEF MigrationInv
<1>6. Later
  BY <1>3, <1>5, SameBook, SameRows DEF MigrationInv
<1>7. PICK id \in Range(p) : Settled(id)
  BY <1>2 DEF SkipPair
<1>8. id \in Id \ Standard /\ Bound(id)
  BY <1>3, <1>4, <1>7 DEF MigrationInv, RunSound
<1>9. BookedForAReason(id)
  BY <1>8 DEF MigrationInv, RowsSound
<1>10. ASSUME NEW leg \in Range(p) PROVE Explained(f, leg)
  <2>1. PICK g \in Exports :
          \/ <<g, id>> \in touched
          \/ \E q \in Range(Pairs[g]) : id \in Range(q) /\ \A other \in Range(q) : Bound(other)
    BY <1>9 DEF BookedForAReason
  <2>2. CASE <<g, id>> \in touched
    BY <1>4, <1>7, <2>2 DEF Explained, Excepted
  <2>3. CASE \E q \in Range(Pairs[g]) : id \in Range(q) /\ \A other \in Range(q) : Bound(other)
    <3>1. PICK q \in Range(Pairs[g]) : id \in Range(q) /\ \A other \in Range(q) : Bound(other)
      BY <2>3
    <3>2. CASE q = p
      BY <3>1, <3>2 DEF Explained
    <3>3. CASE q # p
      <4>1. Range(q) \cap Range(p) # {}
        BY <1>7, <3>1
      <4>. QED  BY <1>4, <3>3, <4>1 DEF Explained, Excepted
    <3>. QED  BY <3>2, <3>3
  <2>. QED  BY <2>1, <2>2, <2>3
<1>11. \A leg \in Range(Head(migration.todo)) : Explained(f, leg)'
  BY <1>2, <1>4, <1>6, <1>10, ExplainedKept
<1>12. RunSound'
  BY <1>1, <1>3, <1>6, <1>11, NextPairSound
<1>. QED  BY <1>5, <1>6, <1>12, RowsStaySound DEF MigrationInv

\* A run stays at a pair while it marks or holds it.
LEMMA SamePairSound ==
  ASSUME MigrationInv, NEW f \in Exports, f = migration.file,
         migration.pc \in InPairs, NEW todo, todo = migration.todo, todo # <<>>,
         Later, NEW pc \in {"mark", "hold"}, Goto(pc, todo),
         pc = "mark" => \A leg \in Range(Head(todo)) : Bound(leg)',
         pc = "hold" => Explained(f, Head(todo)[1])'
  PROVE  RunSound'
<1>1. migration' = [pc |-> pc, file |-> f, todo |-> todo, seen |-> migration.seen]
  BY GotoFacts DEF MigrationInv
<1>2. /\ migration'.pc = pc /\ migration'.file = f /\ migration'.todo = todo
      /\ migration'.seen = migration.seen
      /\ migration' = [pc |-> migration'.pc, file |-> migration'.file,
                       todo |-> migration'.todo, seen |-> migration'.seen]
  BY <1>1
<1>3. /\ todo \in Seq(Range(Pairs[f])) /\ Staged(f) /\ Ahead(f) = {}
      /\ \A id \in Id : Settled(id) => Bound(id)
      /\ \A q \in Range(Pairs[f]) : q \in Range(todo) \/ \A leg \in Range(q) : Explained(f, leg)
      /\ \A id \in Range(Bundle[f]) \cap Standard :
           Untouched(f, id) => row[f][id].status # "normalized"
  BY DEF MigrationInv, RunSound, InPairs
<1>4. \A id \in Id : Settled(id)' => Bound(id)'
  BY <1>2, <1>3 DEF Settled, Later, BookGrows
<1>5. \A q \in Range(Pairs[f]) :
         q \in Range(todo) \/ \A leg \in Range(q) : Explained(migration.file, leg)'
  <2>1. ASSUME NEW q \in Range(Pairs[f]), q \notin Range(todo), NEW leg \in Range(q)
        PROVE  Explained(f, leg)'
    <3>1. leg \in Id /\ Explained(f, leg)
      BY <1>3, <2>1, PairFacts
    <3>. QED  BY <3>1, ExplainedKept
  <2>. QED  BY <1>2, <2>1 DEF Explained, Excepted
<1>6. Staged(migration.file)' /\ Ahead(migration.file)' = {}
  <2>1. Staged(f)' /\ Ahead(f)' \subseteq Ahead(f)
    BY <1>3, StagedKept, AheadKept
  <2>. QED  BY <1>2, <1>3, <2>1 DEF Staged, Ahead, Confirmed, Untouched
<1>7. ASSUME NEW id \in Range(Bundle[f]) \cap Standard, Untouched(f, id)'
      PROVE  row'[f][id].status # "normalized"
  BY <1>3, <1>7, BundleFacts, NormalKept
<1>8. pc = "hold" => Explained(migration.file, Head(migration.todo)[1])'
  BY <1>2 DEF Explained, Excepted
<1>9. pc = "mark" \/ pc = "hold"
  OBVIOUS
<1>. QED
  BY <1>2, <1>3, <1>4, <1>5, <1>6, <1>7, <1>8, <1>9
     DEF RunSound, InChunks, InPairs, AtTheEnd, Untouched

\* A pair that is rejected leaves a reason on its outflow, unless it is booked.
LEMMA RejectPairStep ==
  ASSUME MigrationInv, RejectPair
  PROVE  MigrationInv'
<1>1. PICK f \in Exports : f = migration.file
  BY FileFacts DEF MigrationInv
<1>2. PICK todo : todo = migration.todo
  OBVIOUS
<1>3. PICK leg : leg = Head(todo)[1]
  OBVIOUS
<1>4. /\ migration.pc \in InPairs /\ UNCHANGED <<book, touched>>
      /\ row' = Held(f, {leg}) /\ Goto("hold", todo)
  BY <1>1, <1>2, <1>3 DEF RejectPair, PairPending, Running, InPairs
<1>5. todo # <<>>
  BY <1>2 DEF RejectPair, PairPending, Running, MigrationInv, RunSound
<1>6. leg \in Id /\ Staged(f)
  BY <1>1, <1>2, <1>3, <1>4, <1>5, AtPair, PairFacts
<1>7. BookSound' /\ SameBindings
  BY <1>4, SameLedger DEF MigrationInv
<1>8. PICK legs : legs = {leg}
  OBVIOUS
<1>9. row' = Held(f, legs) /\ legs \subseteq Id /\ leg \in legs \cap Id
  BY <1>4, <1>6, <1>8
<1>10. Later /\ (row'[f][leg].status = "promoted" \/ row'[f][leg].why)
  BY <1>4, <1>6, <1>7, <1>9, HeldKeeps DEF MigrationInv
<1>11. RowsSound'
  BY <1>10, RowsStaySound DEF MigrationInv
<1>12. Explained(f, leg)'
  BY <1>6, <1>10, <1>11 DEF Explained, RowsSound
<1>13. Explained(f, Head(todo)[1])'
  BY <1>3, <1>12
<1>14. RunSound'
  BY <1>1, <1>2, <1>4, <1>5, <1>10, <1>13, SamePairSound
<1>. QED  BY <1>7, <1>11, <1>14 DEF MigrationInv

\* Then on its inflow.
LEMMA HoldInflowStep ==
  ASSUME MigrationInv, HoldInflow
  PROVE  MigrationInv'
<1>1. PICK f \in Exports : f = migration.file
  BY FileFacts DEF MigrationInv
<1>2. PICK p : p = Head(migration.todo)
  OBVIOUS
<1>3. PICK legs : legs = {p[2]}
  OBVIOUS
<1>4. /\ migration.pc \in InPairs /\ migration.todo # <<>> /\ UNCHANGED <<book, touched>>
      /\ row' = Held(f, legs) /\ Goto("pairs", Tail(migration.todo))
      /\ Explained(f, p[1])
  BY <1>1, <1>2, <1>3 DEF HoldInflow, Running, InPairs, MigrationInv, RunSound
<1>5. p \in Range(Pairs[f]) /\ Range(p) \subseteq Id /\ Staged(f)
  BY <1>1, <1>2, <1>4, AtPair
<1>6. Range(p) = {p[1], p[2]} /\ p[1] \in Id /\ p[2] \in Id /\ legs \subseteq Id
  BY <1>3, <1>5, PairFacts
<1>7. BookSound' /\ SameBindings
  BY <1>4, SameLedger DEF MigrationInv
<1>8. Later /\ (row'[f][p[2]].status = "promoted" \/ row'[f][p[2]].why)
  BY <1>3, <1>4, <1>5, <1>6, <1>7, HeldKeeps DEF MigrationInv
<1>9. RowsSound'
  BY <1>8, RowsStaySound DEF MigrationInv
<1>10. \A leg \in Range(Head(migration.todo)) : Explained(f, leg)'
  <2>1. Explained(f, p[2])'
    BY <1>6, <1>8, <1>9 DEF Explained, RowsSound
  <2>2. Explained(f, p[1])'
    BY <1>4, <1>6, <1>8, ExplainedKept
  <2>. QED  BY <1>2, <1>6, <2>1, <2>2
<1>11. RunSound'
  BY <1>1, <1>4, <1>8, <1>10, NextPairSound
<1>. QED  BY <1>7, <1>9, <1>11 DEF MigrationInv

\* A pair is marked when both its legs are booked.
LEMMA MarkPairStep ==
  ASSUME MigrationInv, MarkPair
  PROVE  MigrationInv'
<1>1. PICK f \in Exports : f = migration.file
  BY FileFacts DEF MigrationInv
<1>2. PICK p : p = Head(migration.todo)
  OBVIOUS
<1>3. /\ migration.pc = "mark" /\ UNCHANGED <<book, touched>>
      /\ row' = Marked(f, Range(p))
      /\ Goto("pairs", Tail(migration.todo))
  BY <1>1, <1>2 DEF MarkPair, Running
<1>4. /\ migration.todo # <<>> /\ migration.pc \in InPairs
      /\ \A leg \in Range(p) : Bound(leg)
  BY <1>2, <1>3 DEF MigrationInv, RunSound, InPairs
<1>5. Range(p) \subseteq Id /\ Range(p) \subseteq Range(Bundle[f]) /\ Staged(f)
  BY <1>1, <1>2, <1>4, AtPair
<1>6. BookSound' /\ SameBindings
  BY <1>3, SameLedger DEF MigrationInv
<1>7. Later
  BY <1>3, <1>4, <1>5, <1>6, MarkedKeeps DEF MigrationInv
<1>8. \A leg \in Range(Head(migration.todo)) : Explained(f, leg)'
  BY <1>2, <1>4, <1>5, <1>6 DEF Explained, SameBindings
<1>9. RunSound'
  BY <1>1, <1>3, <1>4, <1>7, <1>8, NextPairSound
<1>. QED  BY <1>6, <1>7, <1>9, RowsStaySound DEF MigrationInv

LEMMA CreatePairStep ==
  ASSUME MigrationInv, CreatePair
  PROVE  MigrationInv'
<1>1. PICK f \in Exports : f = migration.file
  BY FileFacts DEF MigrationInv
<1>2. PICK todo : todo = migration.todo
  OBVIOUS
<1>3. PICK p : p = Head(todo)
  OBVIOUS
<1>4. /\ migration.pc = "pairs" /\ todo # <<>> /\ UNCHANGED <<row, touched>> /\ Goto("mark", todo)
  BY <1>2 DEF CreatePair, PairPending, Running
<1>5. /\ migration.pc \in InPairs /\ p \in Range(Pairs[f])
      /\ Range(p) \subseteq Id /\ Staged(f)
  BY <1>1, <1>2, <1>3, <1>4, AtPair DEF InPairs
<1>6. /\ BookSound'
      /\ \A id \in Id : Bound(id)' <=> Bound(id) \/ id \in Range(p)
  BY <1>1, <1>2, <1>3, <1>5, CreateKeeps DEF MigrationInv
<1>7. ASSUME NEW id \in Id \ Standard, Bound(id)' PROVE Bound(id) \/ BookedForAReason(id)'
  <2>1. CASE id \in Range(p)
    <3>1. \A leg \in Range(p) : Bound(leg)'
      BY <1>5, <1>6
    <3>. QED  BY <1>5, <2>1, <3>1 DEF BookedForAReason
  <2>. QED  BY <1>6, <1>7, <2>1
<1>8. Later
  <2>1. BookGrows
    BY <1>6, <1>7 DEF BookGrows
  <2>. QED  BY <1>4, <2>1, SameRows DEF MigrationInv
<1>9. RowsSound'
  BY <1>8, RowsStaySound DEF MigrationInv
<1>10. \A leg \in Range(Head(todo)) : Bound(leg)'
  BY <1>3, <1>5, <1>6
<1>11. RunSound'
  BY <1>1, <1>2, <1>4, <1>5, <1>8, <1>10, SamePairSound
<1>. QED  BY <1>6, <1>9, <1>11 DEF MigrationInv

-----------------------------------------------------------------------------
(* The end of a run, and the user. *)

\* The pairer's reasons.
LEMMA HoldLegStep ==
  ASSUME MigrationInv, NEW id \in Id, HoldLeg(id)
  PROVE  MigrationInv'
<1>1. PICK f \in Exports : f = migration.file
  BY FileFacts DEF MigrationInv
<1>2. PICK ids : ids = {id}
  OBVIOUS
<1>3. /\ migration.pc \in InPairs /\ UNCHANGED <<book, touched, migration>>
      /\ row' = Held(f, ids) /\ ids \subseteq Id
  BY <1>1, <1>2 DEF HoldLeg, Running, InPairs
<1>4. Staged(f)
  BY <1>1, <1>3 DEF MigrationInv, RunSound, InPairs
<1>5. BookSound' /\ SameBindings
  BY <1>3, SameLedger DEF MigrationInv
<1>6. Later
  BY <1>3, <1>4, <1>5, HeldKeeps DEF MigrationInv
<1>. QED  BY <1>3, <1>5, <1>6, RowsStaySound, RunStaysSound DEF MigrationInv

\* The pairs are over when every leg has its reason.
LEMMA EndPairsStep ==
  ASSUME MigrationInv, EndPairs
  PROVE  MigrationInv'
<1>1. PICK f \in Exports : f = migration.file
  BY FileFacts DEF MigrationInv
<1>2. PICK todo : Goto("close", todo)
  BY DEF EndPairs
<1>3. /\ migration.pc \in InPairs /\ migration.todo = <<>> /\ UNCHANGED <<row, book, touched>>
      /\ Unheld(f) = {}
  BY <1>1 DEF EndPairs, Running, InPairs
<1>4. /\ Staged(f) /\ Ahead(f) = {}
      /\ \A id \in Range(Bundle[f]) \cap Standard :
           Untouched(f, id) => row[f][id].status # "normalized"
      /\ \A id \in Id : Settled(id) => Bound(id)
      /\ \A id \in Id : row[f][id].status = "promoted" => Bound(id)
  BY <1>1, <1>3 DEF MigrationInv, RowsSound, RunSound, InPairs
<1>5. \A p \in Range(Pairs[f]) : \A leg \in Range(p) : Explained(f, leg)
  <2>1. Range(migration.todo) = {}
    BY <1>3 DEF Range
  <2>. QED  BY <1>1, <1>3, <2>1 DEF MigrationInv, RunSound
<1>6. BookSound' /\ SameBindings
  BY <1>3, SameLedger DEF MigrationInv
<1>7. Later
  BY <1>3, <1>6, SameBook, SameRows DEF MigrationInv
<1>8. RowsSound'
  BY <1>7, RowsStaySound DEF MigrationInv
<1>9. ASSUME NEW id \in Legs(f) PROVE Explained(f, id)'
  <2>1. id \in Id
    BY BundleFacts DEF Legs
  <2>2. CASE id \in Paired(f)
    BY <1>5, <1>7, <2>1, <2>2, ExplainedKept DEF Paired
  <2>3. CASE id \in Unpaired(f)
    <3>1. Explained(f, id)
      BY <1>3, <1>4, <2>1, <2>3 DEF Unheld, Explained
    <3>. QED  BY <1>7, <2>1, <3>1, ExplainedKept
  <2>4. CASE id \notin Paired(f) /\ id \notin Unpaired(f)
    <3>1. Settled(id)
      BY <2>4 DEF Unpaired, Settled
    <3>. QED  BY <1>4, <1>6, <2>1, <3>1 DEF Explained, SameBindings
  <2>. QED  BY <2>2, <2>3, <2>4
<1>10. migration' = [pc |-> "close", file |-> f, todo |-> todo, seen |-> migration.seen]
  BY <1>1, <1>2, GotoFacts DEF MigrationInv
<1>11. /\ migration'.pc = "close" /\ migration'.file = f
       /\ migration' = [pc |-> migration'.pc, file |-> migration'.file,
                        todo |-> migration'.todo, seen |-> migration'.seen]
  BY <1>10
<1>12. Staged(migration.file)' /\ Ahead(migration.file)' = {}
  <2>1. Staged(f)' /\ Ahead(f)' = {}
    BY <1>4, <1>7, StagedKept, AheadKept
  <2>. QED  BY <1>11, <2>1 DEF Staged, Ahead, Confirmed, Untouched
<1>13. ASSUME NEW id \in Range(Bundle[f]) \cap Standard, Untouched(f, id)'
       PROVE  row'[f][id].status # "normalized"
  BY <1>4, <1>7, <1>13, BundleFacts, NormalKept
<1>14. \A id \in Legs(f) : Explained(migration.file, id)'
  BY <1>9, <1>11 DEF Explained, Excepted
<1>15. RunSound'
  BY <1>11, <1>12, <1>13, <1>14 DEF RunSound, InChunks, InPairs, AtTheEnd, Untouched, Legs
<1>. QED  BY <1>6, <1>8, <1>15 DEF MigrationInv

\* What a run has done stays while it closes.
LEMMA ClosingSound ==
  ASSUME MigrationInv, migration.pc = "close", Later,
         NEW pc \in AtTheEnd, NEW todo, Goto(pc, todo)
  PROVE  RunSound'
<1>1. PICK f \in Exports : f = migration.file
  BY FileFacts DEF MigrationInv
<1>2. /\ Staged(f) /\ Ahead(f) = {}
      /\ \A id \in Range(Bundle[f]) \cap Standard :
           Untouched(f, id) => row[f][id].status # "normalized"
      /\ \A id \in Legs(f) : Explained(f, id)
  BY <1>1 DEF MigrationInv, RunSound, AtTheEnd
<1>3. migration' = [pc |-> pc, file |-> f, todo |-> todo, seen |-> migration.seen]
  BY <1>1, GotoFacts DEF MigrationInv
<1>4. /\ migration'.pc = pc /\ migration'.file = f
      /\ migration' = [pc |-> migration'.pc, file |-> migration'.file,
                       todo |-> migration'.todo, seen |-> migration'.seen]
  BY <1>3
<1>5. pc = "close" \/ pc = "done"
  BY DEF AtTheEnd
<1>6. Staged(migration.file)' /\ Ahead(migration.file)' = {}
  <2>1. Staged(f)' /\ Ahead(f)' = {}
    BY <1>2, StagedKept, AheadKept
  <2>. QED  BY <1>4, <2>1 DEF Staged, Ahead, Confirmed, Untouched
<1>7. ASSUME NEW id \in Range(Bundle[f]) \cap Standard, Untouched(f, id)'
      PROVE  row'[f][id].status # "normalized"
  BY <1>2, <1>7, BundleFacts, NormalKept
<1>8. \A id \in Legs(f) : Explained(migration.file, id)'
  <2>1. Legs(f) \subseteq Id
    BY BundleFacts DEF Legs
  <2>2. \A id \in Legs(f) : Explained(f, id)'
    BY <1>2, <2>1, ExplainedKept
  <2>. QED  BY <1>4, <2>2 DEF Explained, Excepted
<1>. QED  BY <1>4, <1>5, <1>6, <1>7, <1>8 DEF RunSound, InChunks, InPairs, AtTheEnd, Untouched, Legs

LEMMA CloseAccountStep ==
  ASSUME MigrationInv, CloseAccount
  PROVE  MigrationInv'
<1>. DEFINE a == Head(migration.todo)
<1>1. /\ migration.pc = "close" /\ UNCHANGED <<row, touched>>
      /\ PutAnchor(Anchor(a, LastActivity(migration.file, a) + 1, Projected(migration.file, a), "final"))
      /\ Goto("close", Tail(migration.todo))
  BY DEF CloseAccount, Running
<1>2. BookSound' /\ SameBindings
  BY <1>1, AnchorKeepsEntries DEF MigrationInv
<1>3. Later
  BY <1>1, <1>2, SameBook, SameRows DEF MigrationInv
<1>4. RunSound'
  BY <1>1, <1>3, ClosingSound DEF AtTheEnd
<1>. QED  BY <1>2, <1>3, <1>4, RowsStaySound DEF MigrationInv

LEMMA RebuildStep ==
  ASSUME MigrationInv, Rebuild
  PROVE  MigrationInv'
<1>1. /\ migration.pc = "close" /\ UNCHANGED <<row, book, touched>>
      /\ Goto("done", <<>>) \/ Abort
  BY DEF Rebuild, Running
<1>2. BookSound' /\ SameBindings
  BY <1>1, SameLedger DEF MigrationInv
<1>3. Later
  BY <1>1, <1>2, SameBook, SameRows DEF MigrationInv
<1>4. RunSound'
  BY <1>1, <1>3, ClosingSound, AbortSound DEF AtTheEnd, MigrationInv
<1>. QED  BY <1>2, <1>3, <1>4, RowsStaySound DEF MigrationInv

LEMMA ReviewRowStep ==
  ASSUME MigrationInv, NEW f \in Exports, NEW id \in Range(Bundle[f]),
         NEW verdict \in {"confirmed", "rejected"}, ReviewRow(f, id, verdict)
  PROVE  MigrationInv'
<1>1. /\ UNCHANGED <<book, migration>> /\ touched' = touched \cup {<<f, id>>}
      /\ row[f][id].status \notin {"absent", "promoted"}
      /\ row' = [row EXCEPT ![f][id].status = verdict]
  BY DEF ReviewRow
<1>2. id \in Id
  BY BundleFacts
<1>3. BookSound' /\ SameBindings
  BY <1>1, SameLedger DEF MigrationInv
<1>4. row \in RowType
  BY DEF MigrationInv, RowsSound, RowType
<1>5. verdict \in Status \ {"absent", "promoted", "duplicate", "normalized"}
  BY DEF Status
<1>6. row' \in RowType
  BY <1>1, <1>2, <1>4, <1>5 DEF RowType
<1>7. row'[f][id].status = verdict /\ row'[f][id].why = row[f][id].why
  BY <1>1, <1>2, <1>4 DEF RowType
<1>8. \A g \in Exports : \A x \in Id : ~(g = f /\ x = id) => row'[g][x] = row[g][x]
  BY <1>1, <1>2, <1>4 DEF RowType
<1>9. ASSUME NEW g \in Exports, NEW x \in Id PROVE RowMoves(g, x)
  <2>1. CASE g = f /\ x = id
    BY <1>1, <1>5, <1>7, <2>1 DEF RowMoves, Untouched, Absent
  <2>2. CASE ~(g = f /\ x = id)
    BY <1>8, <2>2 DEF RowMoves
  <2>. QED  BY <2>1, <2>2
<1>10. Later
  BY <1>1, <1>3, <1>6, <1>9, SameBook DEF Later
<1>. QED  BY <1>1, <1>3, <1>10, RowsStaySound, RunStaysSound DEF MigrationInv

LEMMA PromoteBatchStep ==
  ASSUME MigrationInv, NEW f \in Exports, PromoteBatch(f)
  PROVE  MigrationInv'
<1>1. MayPromote(f) /\ PromoteAll(f) /\ UNCHANGED <<migration, touched>>
  BY DEF PromoteBatch
<1>2. BookSound' /\ Later
  BY <1>1, PromoteAllKeeps DEF MigrationInv
<1>. QED  BY <1>1, <1>2, RowsStaySound, RunStaysSound DEF MigrationInv

LEMMA DeleteEntryStep ==
  ASSUME MigrationInv, NEW n \in Entries, DeleteEntry(n)
  PROVE  MigrationInv'
<1>1. UNCHANGED <<row, migration, touched>>
  BY DEF DeleteEntry
<1>2. BookSound' /\ SameBindings
  BY DeleteKeeps DEF MigrationInv
<1>3. Later
  BY <1>1, <1>2, SameBook, SameRows DEF MigrationInv
<1>. QED  BY <1>1, <1>2, <1>3, RowsStaySound, RunStaysSound DEF MigrationInv

LEMMA MigrationStutter ==
  ASSUME MigrationInv, UNCHANGED migrationVars
  PROVE  MigrationInv'
<1>1. UNCHANGED <<row, book, migration, touched>>
  BY DEF migrationVars
<1>2. BookSound' /\ SameBindings
  BY <1>1, SameLedger DEF MigrationInv
<1>3. Later
  BY <1>1, <1>2, SameBook, SameRows DEF MigrationInv
<1>. QED  BY <1>1, <1>2, <1>3, RowsStaySound, RunStaysSound DEF MigrationInv

-----------------------------------------------------------------------------
(* Every run. *)

LEMMA MigrationInitInv ==
  ASSUME MigrationInit
  PROVE  MigrationInv
<1>1. /\ row = [f \in Exports |-> [id \in Id |-> Absent]] /\ book = <<>> /\ touched = {}
      /\ migration = [pc |-> "idle", file |-> CHOOSE f \in Exports : TRUE,
                      todo |-> <<>>, seen |-> <<>>]
  BY DEF MigrationInit
<1>2. Entries = {} /\ book \in Seq({})
  BY <1>1 DEF Entries
<1>3. BookSound
  BY <1>2 DEF BookSound
<1>4. \A id : ~Bound(id)
  BY <1>2 DEF Bound
<1>5. \A f \in Exports : \A id \in Id : row[f][id] = Absent
  BY <1>1
<1>6. row \in RowType
  BY <1>1 DEF RowType, Absent, Status
<1>7. ASSUME NEW f \in Exports PROVE Cardinality(Ahead(f)) <= PromoteChunkSize
  <2>1. ASSUME NEW id \in Ahead(f) PROVE FALSE
    <3>1. id \in Id /\ row[f][id].status = "confirmed"
      BY BundleFacts DEF Ahead, Confirmed
    <3>. QED  BY <1>5, <3>1 DEF Absent
  <2>2. Ahead(f) = {}
    BY <2>1
  <2>3. Cardinality({}) = 0
    BY FS_EmptySet
  <2>4. Cardinality(Ahead(f)) = 0
    BY <2>2, <2>3, Zenon
  <2>. QED  BY <2>4, SureAssumption
<1>8. RowsSound
  BY <1>4, <1>5, <1>6, <1>7 DEF RowsSound, RowType, Absent
<1>9. RunSound
  <2>1. (CHOOSE f \in Exports : TRUE) \in Exports
    BY SureAssumption
  <2>2. /\ migration.pc = "idle" /\ migration.file \in Exports
        /\ migration = [pc |-> migration.pc, file |-> migration.file,
                        todo |-> migration.todo, seen |-> migration.seen]
    BY <1>1, <2>1
  <2>. QED  BY <2>2 DEF RunSound, InChunks, InPairs, AtTheEnd
<1>. QED  BY <1>3, <1>8, <1>9 DEF MigrationInv

LEMMA MigrationNextInv ==
  ASSUME MigrationInv, [MigrationNext]_migrationVars
  PROVE  MigrationInv'
<1>1. ASSUME NEW f \in Exports, Start(f) PROVE MigrationInv'
  BY <1>1, StartStep
<1>2. ASSUME NEW f \in Exports, PromoteBatch(f) PROVE MigrationInv'
  BY <1>2, PromoteBatchStep
<1>3. ASSUME NEW f \in Exports, NEW id \in Range(Bundle[f]),
             NEW v \in {"confirmed", "rejected"}, ReviewRow(f, id, v)
      PROVE  MigrationInv'
  BY <1>3, ReviewRowStep
<1>4. ASSUME NEW n \in Entries, DeleteEntry(n) PROVE MigrationInv'
  BY <1>4, DeleteEntryStep
<1>5. CASE WriteAnchor \/ Stage \/ Sweep \/ List \/ Confirm \/ PromoteChunk \/ ReadRows
  BY <1>5, WriteAnchorStep, StageStep, SweepStep, ListStep, ConfirmStep, PromoteChunkStep, ReadRowsStep
<1>6. CASE SkipPair \/ CreatePair \/ RejectPair \/ HoldInflow \/ MarkPair \/ EndPairs
  BY <1>6, SkipPairStep, CreatePairStep, RejectPairStep, HoldInflowStep, MarkPairStep, EndPairsStep
<1>9. ASSUME NEW id \in Id, HoldLeg(id) PROVE MigrationInv'
  BY <1>9, HoldLegStep
<1>7. CASE CloseAccount \/ Rebuild \/ Crash
  BY <1>7, CloseAccountStep, RebuildStep, CrashStep
<1>8. CASE UNCHANGED migrationVars
  BY <1>8, MigrationStutter
<1>. QED  BY <1>1, <1>2, <1>3, <1>4, <1>5, <1>6, <1>7, <1>8, <1>9 DEF MigrationNext

LEMMA MigrationKeepsItsWord ==
  ASSUME MigrationInv
  PROVE  RunKeepsItsWord
<1>1. SureEntryIsBookedOnce
  BY DEF MigrationInv, BookSound, SureEntryIsBookedOnce
<1>2. LockstepHolds
  <2>1. ASSUME NEW f \in Exports
        PROVE  Cardinality({id \in Confirmed(f) : <<f, id>> \notin touched}) <= PromoteChunkSize
    BY DEF MigrationInv, RowsSound, Ahead, Untouched
  <2>. QED  BY <2>1 DEF LockstepHolds
<1>3. FinishedRunBooksAll
  <2>1. SUFFICES ASSUME migration.pc = "done" PROVE FinishedRunBooksAll
    BY DEF FinishedRunBooksAll, Running
  <2>2. PICK f \in Exports : f = migration.file
    BY FileFacts DEF MigrationInv
  <2>3. /\ Staged(f) /\ Ahead(f) = {}
        /\ \A id \in Range(Bundle[f]) \cap Standard :
             Untouched(f, id) => row[f][id].status # "normalized"
        /\ \A id \in Legs(f) : Explained(f, id)
    BY <2>1, <2>2 DEF MigrationInv, RunSound, AtTheEnd
  <2>4. ASSUME NEW id \in Range(Bundle[f])
        PROVE  /\ row[f][id].status = "promoted" => Bound(id)
               /\ <<f, id>> \notin touched /\ id \in Standard => Bound(id)
    <3>1. id \in Id
      BY BundleFacts
    <3>2. row[f][id].status \in {"promoted", "duplicate"} => Bound(id)
      BY <3>1 DEF MigrationInv, RowsSound
    <3>3. ASSUME Untouched(f, id), id \in Standard
          PROVE  row[f][id].status \in {"promoted", "duplicate"}
      <4>1. row[f][id].status \in Status
        BY <3>1 DEF MigrationInv, RowsSound
      <4>2. row[f][id].status \notin {"absent", "normalized"}
        BY <2>3, <3>3 DEF Staged
      <4>3. row[f][id].status # "rejected"
        BY <3>1, <3>3 DEF MigrationInv, RowsSound
      <4>4. row[f][id].status # "confirmed"
        BY <2>3, <3>3 DEF Ahead, Confirmed
      <4>. QED  BY <4>1, <4>2, <4>3, <4>4 DEF Status
    <3>. QED  BY <3>2, <3>3 DEF Untouched
  <2>5. ASSUME NEW id \in Legs(f)
        PROVE  \/ Bound(id) \/ row[f][id].why
               \/ \E p \in Range(Pairs[f]) :
                    id \in Range(p) /\ \E g \in Exports :
                      \/ \E leg \in Range(p) : <<g, leg>> \in touched
                      \/ \E q \in Range(Pairs[g]) : q # p /\ Range(q) \cap Range(p) # {}
    BY <2>3 DEF Explained, Excepted
  <2>. QED  BY <2>2, <2>4, <2>5 DEF FinishedRunBooksAll
<1>. QED  BY <1>1, <1>2, <1>3 DEF RunKeepsItsWord

\* An entry of Sure is booked once, a run that has finished has booked or explained
\* every row, and no run confirms more than a chunk ahead: for any exports, bundles,
\* pairs and sums, any number of runs that die wherever they are, and a user who
\* reviews, promotes and deletes meanwhile (runSureMigrationForFamily).
THEOREM MigrationKept == MigrationSpec => []RunKeepsItsWord
<1>1. MigrationInit => MigrationInv
  BY MigrationInitInv
<1>2. MigrationInv /\ [MigrationNext]_migrationVars => MigrationInv'
  BY MigrationNextInv
<1>3. MigrationInv => RunKeepsItsWord
  BY MigrationKeepsItsWord
<1>. QED  BY <1>1, <1>2, <1>3, PTL DEF MigrationSpec

=============================================================================
