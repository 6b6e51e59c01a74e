------------------------------ MODULE Imports ------------------------------
(***************************************************************************)
(* Import staging, review and promotion (src/src/server/imports.ts,        *)
(* src/src/lib/import-staging.ts).                                         *)
(*                                                                         *)
(* A file is staged in four phases: a setup transaction that finds or      *)
(* creates the batch and reads the ledger, a classification in memory, a   *)
(* chunk of rows per transaction, and a rollup.  A run may die between any *)
(* two, and the client sends the file again: a batch that is still pending *)
(* is resumed after the rows that it counts.  Staged rows are then         *)
(* confirmed or rejected, and the confirmed ones promoted to the ledger.   *)
(*                                                                         *)
(* A row is known by its fingerprint.  File f holds the fingerprints       *)
(* (f + 1) \div 2, (f + 2) \div 2, ...: rows repeat within a file and      *)
(* files overlap, as exports of overlapping periods do.                    *)
(***************************************************************************)
EXTENDS Ordering, Integers, FiniteSets, Sequences, SequencesExt

CONSTANTS
  Handlers,    \* server-side staging runs that may overlap
  Files,       \* numbers of the files that are uploaded
  FileLength,  \* rows in a file
  ChunkSize,   \* STAGING_CHUNK_SIZE
  MaxRuns,     \* bound on the staging runs ever begun
  MaxTxns,     \* bound on the transactions ever promoted
  MaxReviewed, \* bound on the rows with a verdict, over all batches
  NoBatch

ASSUME ImportsAssumption ==
  /\ Files \subseteq Nat
  /\ FileLength \in Nat \ {0} /\ ChunkSize \in Nat \ {0}
  /\ MaxRuns \in Nat /\ MaxTxns \in Nat /\ MaxReviewed \in Nat

VARIABLES
  provider,    \* whether the rows carry the external ids of a provider
  batch,       \* Files -> the rollup of its ImportBatch, or NoBatch
  staged,      \* Files -> its RawImportedTransaction rows, in the order inserted
  ledger,      \* canonical transactions that were promoted, in order
  run,         \* Handlers -> the staging run it executes
  runs,        \* how many staging runs have begun
  overlapped   \* files on which two runs were ever open at once

vars == <<provider, batch, staged, ledger, run, runs, overlapped>>

-----------------------------------------------------------------------------
(* Files and rows. *)

Position == 1..FileLength
Fingerprint(f, n) == (f + n) \div 2
Fingerprints == {Fingerprint(f, n) : f \in Files, n \in Position}

RowStatus == {"normalized", "duplicate", "confirmed", "rejected", "promoted"}
BatchStatus == {"pending", "ready_for_review", "partially_promoted", "completed"}

\* pos: the row of the file.  clean: it was not found to be a duplicate.
Row == [pos: Position, clean: BOOLEAN, status: RowStatus, txn: 0..MaxTxns]
Transaction == [print: Fingerprints, live: BOOLEAN]
Rollup == [status: BatchStatus, duplicates: Nat, promoted: Nat]

\* The rows that are staged, each with its file and its place in the batch.
Rows == UNION {{f} \X DOMAIN staged[f] : f \in Files}

Idle == [pc |-> "idle"]

-----------------------------------------------------------------------------
(* Staging. *)

\* loadCanonicalDedupIndex: an external id is taken for good, a fingerprint by
\* live transactions.
Known(print) == \E t \in DOMAIN ledger : ledger[t].print = print
                                         /\ (provider \/ ledger[t].live)

\* Row n is new unless the ledger knows it, or a row of the file between first
\* and n has its fingerprint.
IsNew(f, n, first) ==
  ~Known(Fingerprint(f, n)) /\ \A k \in first..(n - 1) : Fingerprint(f, k) # Fingerprint(f, n)

\* Faulty variant: a resumed run compares only the rows it has still to insert.
ClassifyRest(f, from) == [n \in Position |-> IsNew(f, n, from + 1)]

\* The verdict on every row of the file, whatever is persisted already.
Classify(f, from) == [n \in Position |-> IsNew(f, n, 1)]

\* Faulty variant: a resumed run starts over.
ResumeAtStart(f) == 0

\* Resume by count.
ResumeAt(f) == Len(staged[f])

Count(rows, status) == Cardinality({n \in DOMAIN rows : rows[n].status = status})

\* deriveBatchStatus
StatusOf(rows) ==
  LET promoted == Count(rows, "promoted") IN
  CASE promoted = 0 -> "ready_for_review"
    [] promoted # 0 /\ promoted < Len(rows) -> "partially_promoted"
    [] OTHER -> "completed"

\* recomputeBatchRollup
RollupOf(rows) ==
  [status |-> StatusOf(rows), duplicates |-> Count(rows, "duplicate"),
   promoted |-> Count(rows, "promoted")]

Pending == [status |-> "pending", duplicates |-> 0, promoted |-> 0]
IsPending(f) == batch[f] = NoBatch \/ (batch[f] # NoBatch /\ batch[f].status = "pending")

\* Phases 1 and 2 of createImportBatchForFamily.  A batch that is no longer
\* pending is replayed, and one with too many rows refused: nothing happens.
Setup(h, f) ==
  /\ run[h] = Idle
  /\ runs < MaxRuns /\ runs' = runs + 1
  /\ IsPending(f) /\ ResumeAt(f) <= FileLength
  /\ batch' = [batch EXCEPT ![f] = Pending]
  /\ run' = [run EXCEPT ![h] =
       [pc |-> "insert", file |-> f, clean |-> Classify(f, ResumeAt(f)), next |-> ResumeAt(f)]]
  /\ overlapped' = IF \E g \in Handlers : run[g] # Idle /\ run[g].file = f
                   THEN overlapped \cup {f} ELSE overlapped
  /\ UNCHANGED <<provider, staged, ledger>>

Prepared(r, n) ==
  [pos |-> n, clean |-> r.clean[n],
   status |-> IF r.clean[n] THEN "normalized" ELSE "duplicate", txn |-> 0]

\* Phase 3, one chunk.
InsertChunk(h) ==
  LET r == run[h] IN
  /\ r # Idle /\ r.next < FileLength
  /\ LET last == IF r.next + ChunkSize < FileLength THEN r.next + ChunkSize ELSE FileLength
         rows == [i \in 1..(last - r.next) |-> Prepared(r, r.next + i)]
     IN /\ staged' = [staged EXCEPT ![r.file] = @ \o rows]
        /\ run' = [run EXCEPT ![h].next = last]
  /\ UNCHANGED <<provider, batch, ledger, runs, overlapped>>

\* Phase 4.
Finalize(h) ==
  LET r == run[h] IN
  /\ r # Idle /\ r.next >= FileLength
  /\ batch' = [batch EXCEPT ![r.file] = RollupOf(staged[r.file])]
  /\ run' = [run EXCEPT ![h] = Idle]
  /\ UNCHANGED <<provider, staged, ledger, runs, overlapped>>

\* The process dies; what it committed stays.
Die(h) ==
  /\ run[h] # Idle
  /\ run' = [run EXCEPT ![h] = Idle]
  /\ UNCHANGED <<provider, batch, staged, ledger, runs, overlapped>>

-----------------------------------------------------------------------------
(* Review and promotion, each one database transaction.  A client learns of a
   batch when its staging has replied. *)

Reviewable(row) == row.status # "promoted"

Reviewed == {r \in Rows : staged[r[1]][r[2]].status \in {"confirmed", "rejected", "promoted"}}

\* reviewImportRowsForFamily, one decision.
Review(f, n, verdict) ==
  /\ ~IsPending(f)
  /\ n \in DOMAIN staged[f] /\ Reviewable(staged[f][n])
  /\ staged[f][n].status # verdict
  /\ Cardinality(Reviewed \cup {<<f, n>>}) <= MaxReviewed
  /\ staged' = [staged EXCEPT ![f][n].status = verdict]
  /\ batch' = [batch EXCEPT ![f] = RollupOf(staged'[f])]
  /\ UNCHANGED <<provider, ledger, run, runs, overlapped>>

\* Faulty variant: whatever was not rejected is promoted.
ToPromoteLoose(f) == InOrder({n \in DOMAIN staged[f] : staged[f][n].status \in {"confirmed", "promoted"}})

\* The confirmed rows, in the order of insertion.
ToPromote(f) == InOrder({n \in DOMAIN staged[f] : staged[f][n].status = "confirmed"})

\* transaction_provider_binding: an external id is used once, dead or alive.
BindingFree(prints) ==
  provider =>
    /\ \A i, j \in DOMAIN prints : prints[i] = prints[j] => i = j
    /\ \A i \in DOMAIN prints : \A t \in DOMAIN ledger : ledger[t].print # prints[i]

PromotedRollup(f, rows) == RollupOf(rows)

\* promoteImportBatchForFamily: all the confirmed rows or none.
Promote(f) ==
  /\ ~IsPending(f)
  /\ LET todo == ToPromote(f)
         prints == [i \in DOMAIN todo |-> Fingerprint(f, staged[f][todo[i]].pos)]
         rows == [n \in DOMAIN staged[f] |->
                    IF \E i \in DOMAIN todo : todo[i] = n
                    THEN [staged[f][n] EXCEPT !.status = "promoted",
                            !.txn = Len(ledger) + CHOOSE i \in DOMAIN todo : todo[i] = n]
                    ELSE staged[f][n]]
     IN /\ todo # <<>>
        /\ Len(ledger) + Len(todo) <= MaxTxns
        /\ BindingFree(prints)
        /\ ledger' = ledger \o [i \in DOMAIN todo |-> [print |-> prints[i], live |-> TRUE]]
        /\ staged' = [staged EXCEPT ![f] = rows]
        /\ batch' = [batch EXCEPT ![f] = PromotedRollup(f, rows)]
  /\ UNCHANGED <<provider, run, runs, overlapped>>

\* deleteTransactionForFamily on a promoted transaction.
DeleteTransaction(t) ==
  /\ t \in DOMAIN ledger /\ ledger[t].live
  /\ ledger' = [ledger EXCEPT ![t].live = FALSE]
  /\ UNCHANGED <<provider, batch, staged, run, runs, overlapped>>

-----------------------------------------------------------------------------
(* Specification. *)

Init ==
  /\ provider \in BOOLEAN
  /\ batch = [f \in Files |-> NoBatch]
  /\ staged = [f \in Files |-> <<>>]
  /\ ledger = <<>>
  /\ run = [h \in Handlers |-> Idle]
  /\ runs = 0 /\ overlapped = {}

Next ==
  \/ \E h \in Handlers :
       \/ InsertChunk(h) \/ Finalize(h) \/ Die(h)
       \/ \E f \in Files : Setup(h, f)
  \/ \E f \in Files :
       \/ Promote(f)
       \/ \E n \in DOMAIN staged[f], v \in {"confirmed", "rejected"} : Review(f, n, v)
  \/ \E t \in DOMAIN ledger : DeleteTransaction(t)

Spec == Init /\ [][Next]_vars

-----------------------------------------------------------------------------
(* Properties. *)

\* Every variable has its type.
TypeOK ==
  /\ provider \in BOOLEAN
  /\ batch \in [Files -> Rollup \cup {NoBatch}]
  /\ staged \in [Files -> Seq(Row)]
  /\ ledger \in Seq(Transaction)
  /\ \A h \in Handlers :
       \/ run[h] = Idle
       \/ run[h] \in [pc: {"insert"}, file: Files, clean: [Position -> BOOLEAN],
                      next: 0..FileLength]
  /\ runs \in 0..MaxRuns
  /\ overlapped \subseteq Files

PromotedRows == {r \in Rows : staged[r[1]][r[2]].status = "promoted"}

\* Promotion books a staged row once and only once: promoted rows and the
\* transactions that came from them are in one-to-one correspondence, whatever
\* was promoted, reviewed again or deleted between; and an external id becomes a
\* transaction once for good, though two files that hold it are staged before
\* either is promoted (promoteImportBatchForFamily, transaction_provider_binding).
RowIsBookedOnce ==
  /\ \A r, s \in PromotedRows : staged[r[1]][r[2]].txn = staged[s[1]][s[2]].txn => r = s
  /\ \A t \in DOMAIN ledger : \E r \in PromotedRows :
       /\ staged[r[1]][r[2]].txn = t
       /\ ledger[t].print = Fingerprint(r[1], staged[r[1]][r[2]].pos)
  /\ \A f \in Files : \A n \in DOMAIN staged[f] :
       staged[f][n].txn # 0 <=> staged[f][n].status = "promoted"
  /\ provider => \A t, u \in DOMAIN ledger : ledger[t].print = ledger[u].print => t = u

\* However often a run died and the file was sent again, the rows staged are a
\* prefix of the file, and all of it once the batch can be reviewed, as long as
\* no two runs of one file were open at once (resume by count, imports.ts:283).
StagedIsThePrefix ==
  \A f \in Files \ overlapped :
    /\ Len(staged[f]) <= FileLength
    /\ \A n \in DOMAIN staged[f] : staged[f][n].pos = n
    /\ ~IsPending(f) => Len(staged[f]) = FileLength

\* A batch stages a fingerprint as new at most once, even when it was resumed
\* half-way (the classification pass covers the persisted prefix, imports.ts:370).
CleanOncePerBatch ==
  \A f \in Files \ overlapped : \A m, n \in DOMAIN staged[f] :
    /\ staged[f][m].clean /\ staged[f][n].clean
    /\ Fingerprint(f, staged[f][m].pos) = Fingerprint(f, staged[f][n].pos)
    => m = n

\* A batch is the file: every row once, in order, and each fingerprint new at most
\* once, however the runs that staged it died and resumed.
StagingIsFaithful == StagedIsThePrefix /\ CleanOncePerBatch

=============================================================================
