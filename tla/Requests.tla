------------------------------ MODULE Requests ------------------------------
(***************************************************************************)
(* Concurrent calls of createTransactionFn and deleteTransactionFn, their  *)
(* idempotency keys, and the retries of withSerializableRetry              *)
(* (src/src/server/transactions.ts, middleware/with-retry.ts,              *)
(* idempotency-records.ts).                                                *)
(*                                                                         *)
(* A handler runs a call in attempts.  An attempt takes a snapshot, looks  *)
(* the key up in it, and either answers from what it finds or goes on to   *)
(* write the account, the row and the key.  PostgreSQL lets it commit only *)
(* if nobody has written the same account since the snapshot, and may      *)
(* abort it (40001) when anybody has committed since: the retry loop then  *)
(* starts a new attempt, or gives up.  A key that another handler has      *)
(* inserted meanwhile is a unique violation (P2002), which the handler     *)
(* answers from a transaction of its own.  A crash, or a lost reply, makes *)
(* the handler vanish; the client may send the call again at any time.     *)
(*                                                                         *)
(* A call names one account and moves it by one unit: what a row looks     *)
(* like is the subject of module Ledger.                                   *)
(***************************************************************************)
EXTENDS Integers, FiniteSets

CONSTANTS
  Executions,    \* of handlers, on the servers; they may overlap
  Accounts,
  CreateKeys,    \* idempotency keys of create calls; a key names its row too
  DeleteKeys,    \* idempotency keys of delete calls
  MaxAttempts,   \* maxRetries + 1
  MaxCalls,      \* bound on the calls that reach the server
  None           \* no row, no record

ASSUME RequestsAssumption ==
  /\ IsFiniteSet(CreateKeys)
  /\ MaxAttempts \in Nat \ {0}
  /\ MaxCalls \in Nat
  /\ None \notin Accounts /\ None \notin CreateKeys

VARIABLES
  row,           \* CreateKeys -> Transaction row, or None
  record,        \* DeleteKeys -> IdempotencyRecord: the row it deleted, or None
  balance,       \* Accounts -> Account.balance
  execution,     \* Executions -> the state of the call it runs
  calls,         \* how many calls have reached the server
  told           \* the replies clients have received: [call, result]

requestsVars == <<row, record, balance, execution, calls, told>>

-----------------------------------------------------------------------------
LedgerRow == [account: Accounts, deleted: BOOLEAN]

ASSUME NoneAssumption == None \notin LedgerRow

CreateCall == [op: {"create"}, key: CreateKeys, account: Accounts]
DeleteCall == [op: {"delete"}, key: DeleteKeys, target: CreateKeys]
Call == CreateCall \cup DeleteCall

Results == {"ok", "conflict", "gone", "missing", "busy"}

NoCall == [pc |-> "idle"]
Running == [pc: {"ready", "open", "rescue"}, call: Call,
            attempt: 1..MaxAttempts, stale: SUBSET Accounts, raced: BOOLEAN]
Replying == [pc: {"reply"}, call: Call, result: Results]

Ready(call, attempt) ==
  [pc |-> "ready", call |-> call, attempt |-> attempt, stale |-> {}, raced |-> FALSE]
Reply(call, result) == [pc |-> "reply", call |-> call, result |-> result]

\* The unique indexes tx_family_idempotency and familyId_endpoint_key.
KeyFree(call) ==
  IF call.op = "create" THEN row[call.key] = None ELSE record[call.key] = None

\* canonicalRequestPayload: what of a request tells it from another.
PayloadOf(call) == IF call.op = "create" THEN call.account ELSE call.target

\* assertIdempotentPayloadMatches, or the comparison of request hashes.
Matches(call) ==
  IF call.op = "create" THEN row[call.key].account = PayloadOf(call)
  ELSE record[call.key] = PayloadOf(call)

\* What a lookup of a key that is taken answers.
Replay(call) == Reply(call, IF Matches(call) THEN "ok" ELSE "conflict")

Missing(call) == IF call.op = "delete" THEN row[call.target] = None ELSE FALSE

\* Faulty variant: a tombstoned row is deleted again.
NeverGone(call) == FALSE

Gone(call) ==
  IF call.op = "delete" /\ ~Missing(call) THEN row[call.target].deleted ELSE FALSE

AccountOf(call) ==
  IF call.op = "create" THEN call.account ELSE row[call.target].account

-----------------------------------------------------------------------------
RequestsInit ==
  /\ row = [k \in CreateKeys |-> None]
  /\ record = [k \in DeleteKeys |-> None]
  /\ balance = [a \in Accounts |-> 0]
  /\ execution = [h \in Executions |-> NoCall]
  /\ calls = 0
  /\ told = {}

\* A call reaches the server, for the first time or again.
Receive(h, call) ==
  /\ execution[h].pc = "idle"
  /\ calls < MaxCalls
  /\ calls' = calls + 1
  /\ execution' = [execution EXCEPT ![h] = Ready(call, 1)]
  /\ UNCHANGED <<row, record, balance, told>>

\* Faulty variant: the row is looked up before the key.
AttemptRowFirst(call) ==
  IF Missing(call) THEN Reply(call, "missing")
  ELSE IF Gone(call) THEN Reply(call, "gone")
  ELSE IF ~KeyFree(call) THEN Replay(call)
  ELSE [Ready(call, 1) EXCEPT !.pc = "open"]

\* What an attempt decides on its snapshot, the key before anything else.
Attempt(call) ==
  IF ~KeyFree(call) THEN Replay(call)
  ELSE IF Missing(call) THEN Reply(call, "missing")
  ELSE IF Gone(call) THEN Reply(call, "gone")
  ELSE [Ready(call, 1) EXCEPT !.pc = "open"]

\* The snapshot is taken.
BeginAttempt(h) ==
  LET decided == Attempt(execution[h].call) IN
  /\ execution[h].pc = "ready"
  /\ execution' = [execution EXCEPT ![h] =
                   IF decided.pc = "open"
                   THEN [decided EXCEPT !.attempt = execution[h].attempt]
                   ELSE decided]
  /\ UNCHANGED <<row, record, balance, calls, told>>

\* The open snapshots that a commit of h on account a outdates.
Outdated(h, a) ==
  [g \in Executions |->
     IF g # h /\ execution[g].pc = "open"
     THEN [execution[g] EXCEPT !.stale = @ \cup {a}, !.raced = TRUE]
     ELSE execution[g]]

Commit(h) ==
  LET call == execution[h].call IN
  /\ execution[h].pc = "open"
  /\ KeyFree(call)
  /\ AccountOf(call) \notin execution[h].stale
  /\ IF call.op = "create"
     THEN /\ row' = [row EXCEPT ![call.key] =
                       [account |-> call.account, deleted |-> FALSE]]
          /\ balance' = [balance EXCEPT ![call.account] = @ + 1]
          /\ UNCHANGED record
     ELSE /\ row' = [row EXCEPT ![call.target].deleted = TRUE]
          /\ balance' = [balance EXCEPT ![row[call.target].account] = @ - 1]
          /\ record' = [record EXCEPT ![call.key] = call.target]
  /\ execution' = [Outdated(h, AccountOf(call)) EXCEPT ![h] = Reply(call, "ok")]
  /\ UNCHANGED <<calls, told>>

\* Faulty variant: after the last attempt nothing is thrown.
SerializationFailureUnbounded(h) ==
  /\ execution[h].pc = "open"
  /\ execution[h].raced
  /\ execution[h].attempt < MaxAttempts
  /\ execution' = [execution EXCEPT ![h] =
                   Ready(execution[h].call, execution[h].attempt + 1)]
  /\ UNCHANGED <<row, record, balance, calls, told>>

\* 40001 or VersionDriftError: a new attempt, or BalanceConflictError.
SerializationFailure(h) ==
  /\ execution[h].pc = "open"
  /\ execution[h].raced
  /\ execution' = [execution EXCEPT ![h] =
                   IF execution[h].attempt < MaxAttempts
                   THEN Ready(execution[h].call, execution[h].attempt + 1)
                   ELSE Reply(execution[h].call, "busy")]
  /\ UNCHANGED <<row, record, balance, calls, told>>

\* P2002: the key was inserted since the snapshot, by a call on another
\* account.
UniqueViolation(h) ==
  /\ execution[h].pc = "open"
  /\ ~KeyFree(execution[h].call)
  /\ AccountOf(execution[h].call) \notin execution[h].stale
  /\ execution' = [execution EXCEPT ![h].pc = "rescue"]
  /\ UNCHANGED <<row, record, balance, calls, told>>

\* The catch block: look the key up again in a new transaction.
Rescue(h) ==
  /\ execution[h].pc = "rescue"
  /\ execution' = [execution EXCEPT ![h] = Replay(execution[h].call)]
  /\ UNCHANGED <<row, record, balance, calls, told>>

Answer(h) ==
  /\ execution[h].pc = "reply"
  /\ told' = told \cup {[call |-> execution[h].call, result |-> execution[h].result]}
  /\ execution' = [execution EXCEPT ![h] = NoCall]
  /\ UNCHANGED <<row, record, balance, calls>>

\* The process dies or the reply is lost; an open transaction rolls back.
Crash(h) ==
  /\ execution[h].pc # "idle"
  /\ execution' = [execution EXCEPT ![h] = NoCall]
  /\ UNCHANGED <<row, record, balance, calls, told>>

-----------------------------------------------------------------------------
Advance(h) ==
  BeginAttempt(h) \/ Commit(h) \/ SerializationFailure(h) \/ UniqueViolation(h)
    \/ Rescue(h) \/ Answer(h)

RequestsNext ==
  \E h \in Executions :
    \/ \E call \in Call : Receive(h, call)
    \/ BeginAttempt(h)
    \/ Commit(h)
    \/ SerializationFailure(h)
    \/ UniqueViolation(h)
    \/ Rescue(h)
    \/ Answer(h)
    \/ Crash(h)

RequestsSpec == RequestsInit /\ [][RequestsNext]_requestsVars

\* The event loop and the database make progress on every call that runs.
FairSpec == RequestsSpec /\ \A h \in Executions : WF_requestsVars(Advance(h))

-----------------------------------------------------------------------------
(* Properties. *)

\* The tables and handlers are of their types.
RequestsTypeOK ==
  /\ row \in [CreateKeys -> LedgerRow \cup {None}]
  /\ record \in [DeleteKeys -> CreateKeys \cup {None}]
  /\ balance \in [Accounts -> Int]
  /\ execution \in [Executions -> {NoCall} \cup Running \cup Replying]
  /\ calls \in 0..MaxCalls
  /\ told \subseteq [call: Call, result: Results]

LiveOn(a) ==
  {k \in CreateKeys : IF row[k] = None THEN FALSE
                      ELSE row[k].account = a /\ ~row[k].deleted}

\* ADR-0006: whatever is retried, resent or raced, an account holds one unit
\* for each live key, so no effect is applied twice and none is lost.
EachKeyCountsOnce == \A a \in Accounts : balance[a] = Cardinality(LiveOn(a))

\* The effect of exactly this call is in the tables.
Applied(call) ==
  IF call.op = "create"
  THEN row[call.key] # None /\ row[call.key].account = call.account
  ELSE record[call.key] = call.target /\ row[call.target].deleted

\* A client that was told "ok" can rely on it: the call it sent has taken
\* effect, also when another handler applied it.
OkMeansApplied ==
  \A t \in told : t.result = "ok" => Applied(t.call)

\* A client that was told of a conflict or of a row already gone can rely on
\* that too: the call it sent was not the one that took effect, not even in an
\* earlier attempt whose reply was lost.
RefusedMeansNotApplied ==
  \A t \in told : t.result \in {"gone", "conflict"} => ~Applied(t.call)

\* What a client is told stays true, whatever is resent, raced or lost later.
AnswersAreTrue == OkMeansApplied /\ RefusedMeansNotApplied

\* Every call that reaches a living server comes to an end, under any
\* contention: it is applied, replayed, refused, or given up after
\* MaxAttempts.
EveryCallEnds ==
  \A h \in Executions : execution[h].pc # "idle" ~> execution[h].pc = "idle"

\* Requests implements the abstract promise of idempotency keys.
Promise ==
  INSTANCE ExactlyOnce WITH
    created <- [k \in CreateKeys |-> IF row[k] = None THEN None ELSE row[k].account],
    undone <- record

KeepsPromise == Promise!Spec

=============================================================================
