--------------------------- MODULE RequestsProofs ---------------------------
(***************************************************************************)
(* Proofs about Requests, for any number of handlers, accounts and keys,   *)
(* any bound on attempts and any bound on calls; and about Replay and      *)
(* Dialog, for any accounts, currencies, sums, keys and inputs.            *)
(*                                                                         *)
(* A row agrees with every request that would have made it, and a request  *)
(* that agrees with a row would have made it: Replay's invariant has only  *)
(* to say that the row of a key is what the first request made of the      *)
(* accounts as they were then, and that an answer is the verdict on the    *)
(* accounts as they are.                                                   *)
(*                                                                         *)
(* Of the dialog it has to say what the form may hold that does not show.  *)
(* The rest is about pure functions: what is read of the screen, and what  *)
(* is read of the row that the same form becomes, aspect by aspect.        *)
(***************************************************************************)
EXTENDS Requests, Replay, Dialog, TLAPS, FiniteSetTheorems, SequenceTheorems

-----------------------------------------------------------------------------
(* Calls and handler states. *)

LEMMA CallKinds ==
  ASSUME NEW call \in Call
  PROVE  /\ call.op = "create" => call \in CreateCall
         /\ call.op # "create" => call \in DeleteCall /\ call.op = "delete"
BY DEF Call, CreateCall, DeleteCall

LEMMA ReadyType ==
  ASSUME NEW call \in Call, NEW n \in 1..MaxAttempts
  PROVE  Ready(call, n) \in Running
BY DEF Ready, Running

LEMMA OpenType ==
  ASSUME NEW call \in Call, NEW n \in 1..MaxAttempts
  PROVE  [[Ready(call, 1) EXCEPT !.pc = "open"] EXCEPT !.attempt = n] \in Running
BY DEF Ready, Running

LEMMA ReplyType ==
  ASSUME NEW call \in Call, NEW r \in Results
  PROVE  Reply(call, r) \in Replying
BY DEF Reply, Replying

LEMMA ReplayType ==
  ASSUME NEW call \in Call
  PROVE  Replay(call) \in Replying
BY ReplyType DEF Replay, Results

\* The program counter tells which kind of record a handler state is.
LEMMA StateKinds ==
  ASSUME RequestsTypeOK, NEW h \in Executions
  PROVE  /\ execution[h].pc = "idle" => execution[h] = NoCall
         /\ execution[h].pc \in {"ready", "open", "rescue"} => execution[h] \in Running
         /\ execution[h].pc = "reply" => execution[h] \in Replying
         /\ execution[h].pc \in {"idle", "ready", "open", "rescue", "reply"}
<1>1. execution[h] \in {NoCall} \cup Running \cup Replying
  BY DEF RequestsTypeOK
<1>2. CASE execution[h] = NoCall
  BY <1>2 DEF NoCall
<1>3. CASE execution[h] \in Running
  BY <1>3 DEF Running
<1>4. CASE execution[h] \in Replying
  BY <1>4 DEF Replying
<1>. QED  BY <1>1, <1>2, <1>3, <1>4

\* An attempt either answers, or goes on with a snapshot in which the key is
\* free and the row to delete is alive.
LEMMA AttemptDecides ==
  ASSUME RequestsTypeOK, NEW call \in Call
  PROVE  \/ /\ Attempt(call) \in Replying
            /\ Attempt(call).call = call
         \/ /\ Attempt(call) = [Ready(call, 1) EXCEPT !.pc = "open"]
            /\ KeyFree(call)
            /\ call.op = "delete" =>
                 row[call.target] # None /\ ~row[call.target].deleted
<1>1. CASE ~KeyFree(call)
  BY <1>1, ReplayType DEF Attempt, Replay, Reply
<1>2. CASE KeyFree(call) /\ (Missing(call) \/ Gone(call))
  BY <1>2, ReplyType DEF Attempt, Reply, Results
<1>3. CASE KeyFree(call) /\ ~Missing(call) /\ ~Gone(call)
  BY <1>3 DEF Attempt, Missing, Gone
<1>. QED  BY <1>1, <1>2, <1>3

-----------------------------------------------------------------------------
(* Type correctness.  It is not inductive alone: the row that an open      *)
(* delete is about to tombstone has to exist, and it has to be alive       *)
(* unless the attempt is bound to fail.                                    *)

TargetsStand ==
  \A h \in Executions :
    execution[h].pc = "open" /\ execution[h].call.op = "delete" =>
      LET r == row[execution[h].call.target]
      IN /\ r # None
         /\ r.deleted => r.account \in execution[h].stale

WellTyped == RequestsTypeOK /\ TargetsStand

\* What a commit writes, with the facts that make it well defined.
LEMMA CommitWrites ==
  ASSUME WellTyped, NEW h \in Executions, Commit(h)
  PROVE  LET call == execution[h].call IN
         /\ execution[h] \in Running
         /\ call \in Call
         /\ AccountOf(call) \in Accounts
         /\ \/ /\ call \in CreateCall
               /\ call.op = "create"
               /\ row[call.key] = None
               /\ AccountOf(call) = call.account
               /\ row' = [row EXCEPT ![call.key] =
                            [account |-> call.account, deleted |-> FALSE]]
               /\ balance' = [balance EXCEPT ![call.account] = @ + 1]
               /\ record' = record
            \/ /\ call \in DeleteCall
               /\ call.op = "delete"
               /\ record[call.key] = None
               /\ row[call.target] \in LedgerRow
               /\ ~row[call.target].deleted
               /\ AccountOf(call) = row[call.target].account
               /\ row' = [row EXCEPT ![call.target].deleted = TRUE]
               /\ balance' = [balance EXCEPT ![row[call.target].account] = @ - 1]
               /\ record' = [record EXCEPT ![call.key] = call.target]
<1>. DEFINE call == execution[h].call
<1>1. execution[h] \in Running /\ execution[h].pc = "open"
  BY StateKinds DEF Commit, WellTyped
<1>2. call \in Call
  BY <1>1 DEF Running
<1>3. CASE call.op = "create"
  <2>1. call \in CreateCall
    BY <1>2, <1>3, CallKinds
  <2>2. call.key \in CreateKeys /\ call.account \in Accounts
    BY <2>1 DEF CreateCall
  <2>. QED  BY <1>1, <1>2, <1>3, <2>1, <2>2 DEF Commit, KeyFree, AccountOf
<1>4. CASE call.op # "create"
  <2>1. call \in DeleteCall /\ call.op = "delete"
    BY <1>2, <1>4, CallKinds
  <2>2. call.target \in CreateKeys /\ call.key \in DeleteKeys
    BY <2>1 DEF DeleteCall
  <2>3. row[call.target] \in LedgerRow
    BY <1>1, <2>1, <2>2 DEF WellTyped, RequestsTypeOK, TargetsStand
  <2>4. row[call.target].account \in Accounts
    BY <2>3 DEF LedgerRow
  <2>5. row[call.target].account \notin execution[h].stale
    BY <2>1 DEF Commit, AccountOf
  <2>6. ~row[call.target].deleted
    BY <1>1, <2>1, <2>5 DEF WellTyped, TargetsStand
  <2>7. record[call.key] = None
    BY <2>1 DEF Commit, KeyFree
  <2>. QED  BY <1>1, <1>2, <2>1, <2>2, <2>3, <2>4, <2>6, <2>7 DEF Commit, AccountOf
<1>. QED  BY <1>3, <1>4

\* The states of the handlers after a commit.
LEMMA CommitHandlers ==
  ASSUME WellTyped, NEW h \in Executions, Commit(h)
  PROVE  /\ execution' \in [Executions -> {NoCall} \cup Running \cup Replying]
         /\ execution'[h] = Reply(execution[h].call, "ok")
         /\ \A g \in Executions \ {h} :
              \/ /\ execution[g].pc = "open"
                 /\ execution'[g] \in Running
                 /\ execution'[g] = [execution[g] EXCEPT
                      !.stale = execution[g].stale \cup {AccountOf(execution[h].call)},
                      !.raced = TRUE]
              \/ /\ execution[g].pc # "open"
                 /\ execution'[g] = execution[g]
<1>. DEFINE a == AccountOf(execution[h].call)
<1>1. execution[h].call \in Call /\ a \in Accounts
  BY CommitWrites
<1>2. execution' = [Outdated(h, a) EXCEPT ![h] = Reply(execution[h].call, "ok")]
  BY DEF Commit
<1>3. execution'[h] = Reply(execution[h].call, "ok")
  BY <1>2 DEF Outdated
<1>4. ASSUME NEW g \in Executions \ {h}, execution[g].pc = "open"
      PROVE  /\ execution'[g] = [execution[g] EXCEPT !.stale = execution[g].stale \cup {a},
                                                 !.raced = TRUE]
             /\ execution'[g] \in Running
  <2>1. execution'[g] = [execution[g] EXCEPT !.stale = execution[g].stale \cup {a},
                                         !.raced = TRUE]
    BY <1>2, <1>4 DEF Outdated
  <2>2. execution[g] \in Running
    BY <1>4, StateKinds DEF WellTyped
  <2>. QED  BY <2>1, <2>2, <1>1 DEF Running
<1>5. ASSUME NEW g \in Executions \ {h}, execution[g].pc # "open"
      PROVE  execution'[g] = execution[g]
  BY <1>2, <1>5 DEF Outdated
<1>6. execution'[h] \in Replying
  BY <1>1, <1>3, ReplyType DEF Results
<1>7. DOMAIN execution' = Executions /\ execution' = [g \in Executions |-> execution'[g]]
  BY <1>2 DEF Outdated
<1>8. \A g \in Executions : execution'[g] \in {NoCall} \cup Running \cup Replying
  BY <1>4, <1>5, <1>6 DEF WellTyped, RequestsTypeOK
<1>. QED  BY <1>3, <1>4, <1>5, <1>7, <1>8

\* An attempt that is open after a commit was open before it, on the same
\* call, and has learnt of the account that the commit wrote.
LEMMA CommitOutdates ==
  ASSUME WellTyped, NEW h \in Executions, Commit(h),
         NEW g \in Executions, execution'[g].pc = "open"
  PROVE  /\ g # h
         /\ execution[g].pc = "open"
         /\ execution[g] \in Running
         /\ execution'[g].call = execution[g].call
         /\ execution'[g].stale = execution[g].stale \cup {AccountOf(execution[h].call)}
<1>. DEFINE a == AccountOf(execution[h].call)
<1>1. execution'[h].pc = "reply"
  <2>1. execution'[h] = Reply(execution[h].call, "ok")
    BY CommitHandlers
  <2>. QED  BY <2>1 DEF Reply
<1>2. g \in Executions \ {h}
  BY <1>1
<1>3. \/ /\ execution[g].pc = "open"
         /\ execution'[g] = [execution[g] EXCEPT !.stale = execution[g].stale \cup {a},
                                             !.raced = TRUE]
      \/ execution[g].pc # "open" /\ execution'[g] = execution[g]
  BY <1>2, CommitHandlers
<1>4. /\ execution[g].pc = "open"
      /\ execution'[g] = [execution[g] EXCEPT !.stale = execution[g].stale \cup {a},
                                          !.raced = TRUE]
  BY <1>3
<1>5. execution[g] \in Running
  BY <1>4, StateKinds DEF WellTyped
<1>. QED  BY <1>2, <1>4, <1>5 DEF Running

LEMMA TypedInit == RequestsInit => WellTyped
<1>. SUFFICES ASSUME RequestsInit PROVE WellTyped
  OBVIOUS
<1>1. RequestsTypeOK
  BY RequestsAssumption DEF RequestsInit, RequestsTypeOK
<1>2. TargetsStand
  BY DEF RequestsInit, TargetsStand, NoCall
<1>. QED  BY <1>1, <1>2 DEF WellTyped

LEMMA TypedStep == WellTyped /\ [RequestsNext]_requestsVars => WellTyped'
<1>. SUFFICES ASSUME WellTyped, [RequestsNext]_requestsVars PROVE WellTyped'
  OBVIOUS
<1>. USE RequestsAssumption
<1>1. CASE UNCHANGED requestsVars
  BY <1>1 DEF requestsVars, WellTyped, RequestsTypeOK, TargetsStand
<1>2. ASSUME NEW h \in Executions, NEW call \in Call, Receive(h, call)
      PROVE  WellTyped'
  <2>1. Ready(call, 1) \in Running
    BY ReadyType
  <2>2. RequestsTypeOK'
    BY <1>2, <2>1 DEF Receive, WellTyped, RequestsTypeOK
  <2>3. TargetsStand'
    BY <1>2 DEF Receive, WellTyped, RequestsTypeOK, TargetsStand, Ready
  <2>. QED  BY <2>2, <2>3 DEF WellTyped
<1>3. ASSUME NEW h \in Executions, BeginAttempt(h)
      PROVE  WellTyped'
  <2>. DEFINE call == execution[h].call
              n == execution[h].attempt
  <2>1. execution[h] \in Running
    BY <1>3, StateKinds DEF BeginAttempt, WellTyped
  <2>2. call \in Call /\ n \in 1..MaxAttempts
    BY <2>1 DEF Running
  <2>3. CASE Attempt(call) \in Replying
    <3>1. Attempt(call).pc = "reply"
      BY <2>3 DEF Replying
    <3>2. execution' = [execution EXCEPT ![h] = Attempt(call)]
      BY <1>3, <3>1 DEF BeginAttempt
    <3>3. RequestsTypeOK'
      BY <1>3, <2>3, <3>2 DEF BeginAttempt, WellTyped, RequestsTypeOK
    <3>4. TargetsStand'
      BY <1>3, <3>1, <3>2 DEF BeginAttempt, WellTyped, RequestsTypeOK, TargetsStand
    <3>. QED  BY <3>3, <3>4 DEF WellTyped
  <2>4. CASE Attempt(call) \notin Replying
    <3>. DEFINE new == [[Ready(call, 1) EXCEPT !.pc = "open"] EXCEPT !.attempt = n]
    <3>1. /\ Attempt(call) = [Ready(call, 1) EXCEPT !.pc = "open"]
          /\ call.op = "delete" =>
               row[call.target] # None /\ ~row[call.target].deleted
      BY <2>2, <2>4, AttemptDecides DEF WellTyped
    <3>2. Attempt(call).pc = "open"
      BY <3>1 DEF Ready
    <3>3. execution' = [execution EXCEPT ![h] = new]
      BY <1>3, <3>1, <3>2 DEF BeginAttempt
    <3>4. new \in Running
      BY <2>2, OpenType
    <3>5. new.call = call
      BY DEF Ready
    <3>6. RequestsTypeOK'
      BY <1>3, <3>3, <3>4 DEF BeginAttempt, WellTyped, RequestsTypeOK
    <3>7. TargetsStand'
      BY <1>3, <3>1, <3>3, <3>5 DEF BeginAttempt, WellTyped, RequestsTypeOK, TargetsStand
    <3>. QED  BY <3>6, <3>7 DEF WellTyped
  <2>. QED  BY <2>3, <2>4
<1>4. ASSUME NEW h \in Executions, Commit(h)
      PROVE  WellTyped'
  <2>. DEFINE call == execution[h].call
  <2>1. execution' \in [Executions -> {NoCall} \cup Running \cup Replying]
    BY <1>4, CommitHandlers
  <2>2. calls' = calls /\ told' = told
    BY <1>4 DEF Commit
  <2>3. CASE call.op = "create"
    <3>1. /\ call \in CreateCall
          /\ row[call.key] = None
          /\ row' = [row EXCEPT ![call.key] =
                       [account |-> call.account, deleted |-> FALSE]]
          /\ balance' = [balance EXCEPT ![call.account] = @ + 1]
          /\ record' = record
      BY <1>4, <2>3, CommitWrites
    <3>2. call.account \in Accounts /\ call.key \in CreateKeys
      BY <3>1 DEF CreateCall
    <3>3. RequestsTypeOK'
      BY <2>1, <2>2, <3>1, <3>2 DEF WellTyped, RequestsTypeOK, LedgerRow
    <3>4. ASSUME NEW g \in Executions, execution'[g].pc = "open",
                 execution'[g].call.op = "delete"
          PROVE  LET r == row'[execution'[g].call.target]
                 IN r # None /\ (r.deleted => r.account \in execution'[g].stale)
      <4>2. /\ execution[g].pc = "open"
            /\ execution[g] \in Running
            /\ execution'[g].call = execution[g].call
            /\ execution'[g].stale = execution[g].stale \cup {AccountOf(call)}
        BY <1>4, <3>4, CommitOutdates
      <4>3. /\ row[execution[g].call.target] # None
            /\ row[execution[g].call.target].deleted =>
                 row[execution[g].call.target].account \in execution[g].stale
        BY <3>4, <4>2 DEF WellTyped, TargetsStand
      <4>4. execution[g].call \in DeleteCall
        BY <3>4, <4>2, CallKinds DEF Running
      <4>5. execution[g].call.target \in CreateKeys
        BY <4>4 DEF DeleteCall
      <4>6. row'[execution[g].call.target] = row[execution[g].call.target]
        BY <3>1, <3>2, <4>3, <4>5 DEF WellTyped, RequestsTypeOK
      <4>. QED  BY <4>2, <4>3, <4>6
    <3>. QED  BY <3>3, <3>4 DEF WellTyped, TargetsStand
  <2>4. CASE call.op # "create"
    <3>1. /\ call \in DeleteCall
          /\ row[call.target] \in LedgerRow
          /\ AccountOf(call) = row[call.target].account
          /\ row' = [row EXCEPT ![call.target].deleted = TRUE]
          /\ balance' = [balance EXCEPT ![row[call.target].account] = @ - 1]
          /\ record' = [record EXCEPT ![call.key] = call.target]
      BY <1>4, <2>4, CommitWrites
    <3>2. call.target \in CreateKeys /\ call.key \in DeleteKeys
      BY <3>1 DEF DeleteCall
    <3>3. row[call.target].account \in Accounts
      BY <3>1 DEF LedgerRow
    <3>4. RequestsTypeOK'
      <4>1. row' \in [CreateKeys -> LedgerRow \cup {None}]
        BY <3>1, <3>2 DEF WellTyped, RequestsTypeOK, LedgerRow
      <4>2. balance' \in [Accounts -> Int] /\ record' \in [DeleteKeys -> CreateKeys \cup {None}]
        BY <3>1, <3>2, <3>3 DEF WellTyped, RequestsTypeOK
      <4>. QED  BY <2>1, <2>2, <4>1, <4>2 DEF WellTyped, RequestsTypeOK
    <3>6. \A r \in LedgerRow : r # None
      BY NoneAssumption
    <3>5. ASSUME NEW g \in Executions, execution'[g].pc = "open",
                 execution'[g].call.op = "delete"
          PROVE  LET r == row'[execution'[g].call.target]
                 IN r # None /\ (r.deleted => r.account \in execution'[g].stale)
      <4>2. /\ execution[g].pc = "open"
            /\ execution[g] \in Running
            /\ execution'[g].call = execution[g].call
            /\ execution'[g].stale = execution[g].stale \cup {AccountOf(call)}
        BY <1>4, <3>5, CommitOutdates
      <4>3. /\ row[execution[g].call.target] # None
            /\ row[execution[g].call.target].deleted =>
                 row[execution[g].call.target].account \in execution[g].stale
        BY <3>5, <4>2 DEF WellTyped, TargetsStand
      <4>4. execution[g].call \in DeleteCall
        BY <3>5, <4>2, CallKinds DEF Running
      <4>5. execution[g].call.target \in CreateKeys
        BY <4>4 DEF DeleteCall
      <4>6. row[execution[g].call.target] \in LedgerRow
        BY <4>3, <4>5 DEF WellTyped, RequestsTypeOK
      <4>7. CASE execution[g].call.target = call.target
        <5>1. row'[call.target] = [row[call.target] EXCEPT !.deleted = TRUE]
          BY <3>1, <3>2 DEF WellTyped, RequestsTypeOK
        <5>2. row'[call.target] \in LedgerRow /\ row'[call.target].account = row[call.target].account
          BY <5>1, <3>1 DEF LedgerRow
        <5>3. row'[execution'[g].call.target] # None
          BY <4>2, <4>7, <3>6, <5>2
        <5>4. row'[execution'[g].call.target].account \in execution'[g].stale
          BY <4>2, <4>7, <5>2, <3>1
        <5>. QED  BY <5>3, <5>4
      <4>8. CASE execution[g].call.target # call.target
        <5>1. row'[execution[g].call.target] = row[execution[g].call.target]
          BY <3>1, <3>2, <4>5, <4>8 DEF WellTyped, RequestsTypeOK
        <5>. QED  BY <4>2, <4>3, <5>1
      <4>. QED  BY <4>7, <4>8
    <3>. QED  BY <3>4, <3>5 DEF WellTyped, TargetsStand
  <2>. QED  BY <2>3, <2>4
<1>5. ASSUME NEW h \in Executions, SerializationFailure(h)
      PROVE  WellTyped'
  <2>. DEFINE call == execution[h].call
              n == execution[h].attempt
              new == IF n < MaxAttempts THEN Ready(call, n + 1) ELSE Reply(call, "busy")
  <2>1. execution[h] \in Running
    BY <1>5, StateKinds DEF SerializationFailure, WellTyped
  <2>2. call \in Call /\ n \in 1..MaxAttempts
    BY <2>1 DEF Running
  <2>3. new \in Running \cup Replying /\ new.pc # "open"
    <3>1. CASE n < MaxAttempts
      <4>1. n + 1 \in 1..MaxAttempts
        BY <2>2, <3>1
      <4>2. Ready(call, n + 1) \in Running
        BY <2>2, <4>1, ReadyType
      <4>. QED  BY <3>1, <4>2 DEF Ready
    <3>2. CASE ~(n < MaxAttempts)
      <4>1. Reply(call, "busy") \in Replying
        BY <2>2, ReplyType DEF Results
      <4>. QED  BY <3>2, <4>1 DEF Reply
    <3>. QED  BY <3>1, <3>2
  <2>4. execution' = [execution EXCEPT ![h] = new]
    BY <1>5 DEF SerializationFailure
  <2>5. RequestsTypeOK'
    BY <1>5, <2>3, <2>4 DEF SerializationFailure, WellTyped, RequestsTypeOK
  <2>6. TargetsStand'
    BY <1>5, <2>3, <2>4 DEF SerializationFailure, WellTyped, RequestsTypeOK, TargetsStand
  <2>. QED  BY <2>5, <2>6 DEF WellTyped
<1>6. ASSUME NEW h \in Executions, UniqueViolation(h)
      PROVE  WellTyped'
  <2>1. execution[h] \in Running
    BY <1>6, StateKinds DEF UniqueViolation, WellTyped
  <2>2. [execution[h] EXCEPT !.pc = "rescue"] \in Running
    BY <2>1 DEF Running
  <2>3. execution' = [execution EXCEPT ![h] = [execution[h] EXCEPT !.pc = "rescue"]]
    BY <1>6 DEF UniqueViolation
  <2>4. [execution[h] EXCEPT !.pc = "rescue"].pc = "rescue"
    BY <2>1 DEF Running
  <2>5. RequestsTypeOK'
    BY <1>6, <2>2, <2>3 DEF UniqueViolation, WellTyped, RequestsTypeOK
  <2>6. TargetsStand'
    BY <1>6, <2>3, <2>4 DEF UniqueViolation, WellTyped, RequestsTypeOK, TargetsStand
  <2>. QED  BY <2>5, <2>6 DEF WellTyped
<1>7. ASSUME NEW h \in Executions, Rescue(h)
      PROVE  WellTyped'
  <2>1. execution[h].call \in Call
    BY <1>7, StateKinds DEF Rescue, WellTyped, Running
  <2>2. Replay(execution[h].call) \in Replying /\ Replay(execution[h].call).pc = "reply"
    BY <2>1, ReplayType DEF Replying
  <2>3. RequestsTypeOK'
    BY <1>7, <2>2 DEF Rescue, WellTyped, RequestsTypeOK
  <2>4. TargetsStand'
    BY <1>7, <2>2 DEF Rescue, WellTyped, RequestsTypeOK, TargetsStand
  <2>. QED  BY <2>3, <2>4 DEF WellTyped
<1>8. ASSUME NEW h \in Executions, Answer(h)
      PROVE  WellTyped'
  <2>1. execution[h] \in Replying
    BY <1>8, StateKinds DEF Answer, WellTyped
  <2>2. [call |-> execution[h].call, result |-> execution[h].result]
          \in [call: Call, result: Results]
    BY <2>1 DEF Replying
  <2>3. RequestsTypeOK'
    BY <1>8, <2>2 DEF Answer, WellTyped, RequestsTypeOK
  <2>4. TargetsStand'
    BY <1>8 DEF Answer, WellTyped, RequestsTypeOK, TargetsStand, NoCall
  <2>. QED  BY <2>3, <2>4 DEF WellTyped
<1>9. ASSUME NEW h \in Executions, Crash(h)
      PROVE  WellTyped'
  BY <1>9 DEF Crash, WellTyped, RequestsTypeOK, TargetsStand, NoCall
<1>. QED  BY <1>1, <1>2, <1>3, <1>4, <1>5, <1>6, <1>7, <1>8, <1>9 DEF RequestsNext

\* Type correctness: the tables, handlers and replies stay in their types.
THEOREM TypeCorrect == RequestsSpec => []RequestsTypeOK
<1>1. WellTyped => RequestsTypeOK
  BY DEF WellTyped
<1>. QED  BY TypedInit, TypedStep, <1>1, PTL DEF RequestsSpec

-----------------------------------------------------------------------------
(* What a step may do to the tables. *)

\* Nothing but a commit writes a table.
LEMMA OnlyCommitWrites ==
  ASSUME [RequestsNext]_requestsVars
  PROVE  \/ \E h \in Executions : Commit(h)
         \/ row' = row /\ record' = record /\ balance' = balance
<1>1. CASE UNCHANGED requestsVars
  BY <1>1 DEF requestsVars
<1>2. CASE RequestsNext
  <2>1. PICK h \in Executions :
          \/ \E call \in Call : Receive(h, call)
          \/ BeginAttempt(h)
          \/ Commit(h)
          \/ SerializationFailure(h)
          \/ UniqueViolation(h)
          \/ Rescue(h)
          \/ Answer(h)
          \/ Crash(h)
    BY <1>2 DEF RequestsNext
  <2>2. CASE Commit(h)
    BY <2>2
  <2>3. CASE ~Commit(h)
    BY <2>1, <2>3
      DEF Receive, BeginAttempt, SerializationFailure, UniqueViolation, Rescue, Answer, Crash
  <2>. QED  BY <2>2, <2>3
<1>. QED  BY <1>1, <1>2

\* Rows and records are never rebound: a row stays and keeps its account, a
\* tombstone stays one, a record stays, and a record that is new names a row
\* that the same step tombstoned.
TablesGrow ==
  /\ \A k \in CreateKeys :
       row[k] # None =>
         /\ row'[k] # None
         /\ row'[k].account = row[k].account
         /\ row[k].deleted => row'[k].deleted
  /\ \A d \in DeleteKeys :
       \/ record'[d] = record[d]
       \/ /\ record[d] = None
          /\ record'[d] \in CreateKeys
          /\ row[record'[d]] # None
          /\ ~row[record'[d]].deleted
          /\ row'[record'[d]].deleted

LEMMA TablesOnlyGrow ==
  ASSUME WellTyped, [RequestsNext]_requestsVars
  PROVE  TablesGrow
<1>1. CASE row' = row /\ record' = record
  BY <1>1 DEF TablesGrow
<1>2. ASSUME NEW h \in Executions, Commit(h)
      PROVE  TablesGrow
  <2>. DEFINE call == execution[h].call
  <2>1. CASE call.op = "create"
    <3>1. /\ call \in CreateCall
          /\ row[call.key] = None
          /\ row' = [row EXCEPT ![call.key] =
                       [account |-> call.account, deleted |-> FALSE]]
          /\ record' = record
      BY <1>2, <2>1, CommitWrites
    <3>2. \A k \in CreateKeys : row[k] # None => row'[k] = row[k]
      BY <3>1 DEF WellTyped, RequestsTypeOK
    <3>. QED  BY <3>1, <3>2 DEF TablesGrow
  <2>2. CASE call.op # "create"
    <3>1. /\ call \in DeleteCall
          /\ record[call.key] = None
          /\ row[call.target] \in LedgerRow
          /\ ~row[call.target].deleted
          /\ row' = [row EXCEPT ![call.target].deleted = TRUE]
          /\ record' = [record EXCEPT ![call.key] = call.target]
      BY <1>2, <2>2, CommitWrites
    <3>2. call.target \in CreateKeys /\ call.key \in DeleteKeys
      BY <3>1 DEF DeleteCall
    <3>3. row'[call.target] = [row[call.target] EXCEPT !.deleted = TRUE]
      BY <3>1, <3>2 DEF WellTyped, RequestsTypeOK
    <3>4. /\ row'[call.target] \in LedgerRow
          /\ row'[call.target].account = row[call.target].account
          /\ row'[call.target].deleted
      BY <3>1, <3>3 DEF LedgerRow
    <3>5. \A k \in CreateKeys \ {call.target} : row'[k] = row[k]
      BY <3>1 DEF WellTyped, RequestsTypeOK
    <3>6. \A r \in LedgerRow : r # None
      BY NoneAssumption
    <3>7. \A d \in DeleteKeys \ {call.key} : record'[d] = record[d]
      BY <3>1 DEF WellTyped, RequestsTypeOK
    <3>8. record'[call.key] = call.target
      BY <3>1, <3>2 DEF WellTyped, RequestsTypeOK
    <3>9. \A k \in CreateKeys :
            row[k] # None =>
              /\ row'[k] # None
              /\ row'[k].account = row[k].account
              /\ row[k].deleted => row'[k].deleted
      BY <3>4, <3>5, <3>6
    <3>10. \A d \in DeleteKeys :
             \/ record'[d] = record[d]
             \/ /\ record[d] = None
                /\ record'[d] \in CreateKeys
                /\ row[record'[d]] # None
                /\ ~row[record'[d]].deleted
                /\ row'[record'[d]].deleted
      BY <3>1, <3>2, <3>4, <3>6, <3>7, <3>8
    <3>. QED  BY <3>9, <3>10 DEF TablesGrow
  <2>. QED  BY <2>1, <2>2
<1>. QED  BY <1>1, <1>2, OnlyCommitWrites

-----------------------------------------------------------------------------
(* Every key counts once. *)

LEMMA LiveOnFinite == \A a \in Accounts : IsFiniteSet(LiveOn(a))
<1>1. \A a \in Accounts : LiveOn(a) \subseteq CreateKeys
  BY DEF LiveOn
<1>. QED  BY <1>1, RequestsAssumption, FS_Subset

LEMMA CountStep ==
  ASSUME WellTyped, EachKeyCountsOnce, [RequestsNext]_requestsVars
  PROVE  EachKeyCountsOnce'
<1>1. CASE row' = row /\ balance' = balance
  BY <1>1 DEF EachKeyCountsOnce, LiveOn
<1>2. ASSUME NEW h \in Executions, Commit(h)
      PROVE  EachKeyCountsOnce'
  <2>. DEFINE call == execution[h].call
  <2>. SUFFICES ASSUME NEW a \in Accounts
                PROVE  balance'[a] = Cardinality(LiveOn(a)')
    BY DEF EachKeyCountsOnce
  <2>1. balance[a] = Cardinality(LiveOn(a)) /\ IsFiniteSet(LiveOn(a)) /\ balance[a] \in Int
    BY LiveOnFinite DEF EachKeyCountsOnce, WellTyped, RequestsTypeOK
  <2>2. CASE call.op = "create"
    <3>1. /\ call \in CreateCall
          /\ row[call.key] = None
          /\ row' = [row EXCEPT ![call.key] =
                       [account |-> call.account, deleted |-> FALSE]]
          /\ balance' = [balance EXCEPT ![call.account] = @ + 1]
      BY <1>2, <2>2, CommitWrites
    <3>2. call.key \in CreateKeys /\ call.account \in Accounts
      BY <3>1 DEF CreateCall
    <3>3. row'[call.key] = [account |-> call.account, deleted |-> FALSE]
      BY <3>1, <3>2 DEF WellTyped, RequestsTypeOK
    <3>4. row'[call.key] # None
      <4>1. row'[call.key] \in LedgerRow
        BY <3>2, <3>3 DEF LedgerRow
      <4>. QED  BY <4>1, NoneAssumption
    <3>5. \A k \in CreateKeys \ {call.key} : row'[k] = row[k]
      BY <3>1 DEF WellTyped, RequestsTypeOK
    <3>6. call.key \notin LiveOn(a)
      BY <3>1 DEF LiveOn
    <3>7. CASE a = call.account
      <4>1. LiveOn(a)' = LiveOn(a) \cup {call.key}
        BY <3>2, <3>3, <3>4, <3>5, <3>7 DEF LiveOn
      <4>2. Cardinality(LiveOn(a)') = Cardinality(LiveOn(a)) + 1
        BY <2>1, <3>6, <4>1, FS_AddElement
      <4>3. balance'[a] = balance[a] + 1
        BY <3>1, <3>2, <3>7 DEF WellTyped, RequestsTypeOK
      <4>. QED  BY <2>1, <4>2, <4>3
    <3>8. CASE a # call.account
      <4>1. LiveOn(a)' = LiveOn(a)
        BY <3>2, <3>3, <3>5, <3>6, <3>8 DEF LiveOn
      <4>2. balance'[a] = balance[a]
        BY <3>1, <3>8 DEF WellTyped, RequestsTypeOK
      <4>. QED  BY <2>1, <4>1, <4>2
    <3>. QED  BY <3>7, <3>8
  <2>3. CASE call.op # "create"
    <3>. DEFINE acct == row[call.target].account
    <3>1. /\ call \in DeleteCall
          /\ row[call.target] \in LedgerRow
          /\ ~row[call.target].deleted
          /\ row' = [row EXCEPT ![call.target].deleted = TRUE]
          /\ balance' = [balance EXCEPT ![acct] = @ - 1]
      BY <1>2, <2>3, CommitWrites
    <3>2. call.target \in CreateKeys
      BY <3>1 DEF DeleteCall
    <3>3. row'[call.target] = [row[call.target] EXCEPT !.deleted = TRUE]
      BY <3>1, <3>2 DEF WellTyped, RequestsTypeOK
    <3>4. row'[call.target].deleted /\ acct \in Accounts
      BY <3>1, <3>3 DEF LedgerRow
    <3>5. \A k \in CreateKeys \ {call.target} : row'[k] = row[k]
      BY <3>1 DEF WellTyped, RequestsTypeOK
    <3>6. row[call.target] # None
      BY <3>1, NoneAssumption
    <3>7. LiveOn(a)' = LiveOn(a) \ {call.target}
      BY <3>2, <3>4, <3>5 DEF LiveOn
    <3>8. CASE a = acct
      <4>1. call.target \in LiveOn(a)
        BY <3>1, <3>2, <3>6, <3>8 DEF LiveOn
      <4>2. Cardinality(LiveOn(a)') = Cardinality(LiveOn(a)) - 1
        <5>1. Cardinality(LiveOn(a) \ {call.target}) = Cardinality(LiveOn(a)) - 1
          BY ONLY <2>1, <4>1, FS_RemoveElement
        <5>. QED  BY <3>7, <5>1
      <4>3. balance'[a] = balance[a] - 1
        BY <3>1, <3>4, <3>8 DEF WellTyped, RequestsTypeOK
      <4>. QED  BY <2>1, <4>2, <4>3
    <3>9. CASE a # acct
      <4>1. call.target \notin LiveOn(a)
        BY <3>6, <3>9 DEF LiveOn
      <4>2. LiveOn(a)' = LiveOn(a)
        BY <3>7, <4>1
      <4>3. balance'[a] = balance[a]
        BY <3>1, <3>9 DEF WellTyped, RequestsTypeOK
      <4>. QED  BY <2>1, <4>2, <4>3
    <3>. QED  BY <3>8, <3>9
  <2>. QED  BY <2>2, <2>3
<1>. QED  BY <1>1, <1>2, OnlyCommitWrites

\* However calls are retried, resent and raced, an account's balance counts
\* each of its live keys exactly once.
THEOREM EffectsExactlyOnce == RequestsSpec => []EachKeyCountsOnce
<1>1. RequestsInit => EachKeyCountsOnce
  <2>. SUFFICES ASSUME RequestsInit, NEW a \in Accounts
                PROVE  balance[a] = Cardinality(LiveOn(a))
    BY DEF EachKeyCountsOnce
  <2>1. LiveOn(a) = {}
    BY DEF RequestsInit, LiveOn
  <2>. QED  BY <2>1, FS_EmptySet DEF RequestsInit
<1>. QED  BY <1>1, TypedInit, TypedStep, CountStep, PTL DEF RequestsSpec

-----------------------------------------------------------------------------
(* Replies can be relied on.  The invariant behind it: a record names a row *)
(* that is a tombstone, a handler that answers a unique violation has found *)
(* the key taken, and a reply that is under way is already true.            *)

RecordsNameTombstones ==
  \A d \in DeleteKeys : record[d] # None =>
    row[record[d]] # None /\ row[record[d]].deleted

RescueFindsKey ==
  \A h \in Executions : execution[h].pc = "rescue" => ~KeyFree(execution[h].call)

\* The effect of this call can never be in the tables any more.
RuledOut(call) ==
  IF call.op = "create"
  THEN row[call.key] # None /\ row[call.key].account # call.account
  ELSE /\ record[call.key] # call.target
       /\ \/ record[call.key] # None
          \/ row[call.target] # None /\ row[call.target].deleted

Holds(call, result) ==
  /\ result = "ok" => Applied(call)
  /\ result \in {"gone", "conflict"} => RuledOut(call)

RepliesHold ==
  \A h \in Executions :
    execution[h].pc = "reply" => Holds(execution[h].call, execution[h].result)

ToldHolds == \A t \in told : Holds(t.call, t.result)

Truth == RecordsNameTombstones /\ RescueFindsKey /\ RepliesHold /\ ToldHolds

LEMMA KeyStaysTaken ==
  ASSUME TablesGrow, NEW call \in Call, ~KeyFree(call)
  PROVE  ~KeyFree(call)'
<1>1. CASE call.op = "create"
  BY <1>1, CallKinds DEF TablesGrow, KeyFree, CreateCall
<1>2. CASE call.op # "create"
  BY <1>2, CallKinds DEF TablesGrow, KeyFree, DeleteCall
<1>. QED  BY <1>1, <1>2

LEMMA HoldsForGood ==
  ASSUME RecordsNameTombstones, TablesGrow,
         NEW call \in Call, NEW result, Holds(call, result)
  PROVE  Holds(call, result)'
<1>1. CASE call.op = "create"
  <2>1. call.key \in CreateKeys
    BY <1>1, CallKinds DEF CreateCall
  <2>. QED  BY <1>1, <2>1 DEF TablesGrow, Holds, Applied, RuledOut
<1>2. CASE call.op # "create"
  <2>1. call.key \in DeleteKeys /\ call.target \in CreateKeys
    BY <1>2, CallKinds DEF DeleteCall
  <2>2. Applied(call) => Applied(call)'
    <3>1. SUFFICES ASSUME Applied(call)
                   PROVE  record'[call.key] = call.target /\ row'[call.target].deleted
      BY <1>2 DEF Applied
    <3>2. record[call.key] = call.target /\ row[call.target].deleted
      BY <1>2, <3>1 DEF Applied
    <3>3. record[call.key] # None
      BY <2>1, <3>2, RequestsAssumption
    <3>4. record'[call.key] = call.target
      BY <2>1, <3>2, <3>3 DEF TablesGrow
    <3>5. row[call.target] # None
      BY <2>1, <3>2, <3>3 DEF RecordsNameTombstones
    <3>. QED  BY <2>1, <3>2, <3>4, <3>5 DEF TablesGrow
  <2>3. RuledOut(call) => RuledOut(call)'
    BY <1>2, <2>1 DEF TablesGrow, RuledOut
  <2>. QED  BY <2>2, <2>3 DEF Holds
<1>. QED  BY <1>1, <1>2

\* A lookup that finds the key answers truthfully.
LEMMA ReplayHolds ==
  ASSUME RequestsTypeOK, RecordsNameTombstones, NEW call \in Call, ~KeyFree(call)
  PROVE  /\ Replay(call).call = call
         /\ Holds(call, Replay(call).result)
<1>1. CASE call.op = "create"
  BY <1>1 DEF Replay, Reply, Matches, PayloadOf, KeyFree, Holds, Applied, RuledOut
<1>2. CASE call.op # "create"
  <2>1. call.key \in DeleteKeys /\ call.target \in CreateKeys
    BY <1>2, CallKinds DEF DeleteCall
  <2>. QED
    BY <1>2, <2>1
      DEF Replay, Reply, Matches, PayloadOf, KeyFree, Holds, Applied, RuledOut,
          RecordsNameTombstones
<1>. QED  BY <1>1, <1>2

\* So does a whole attempt that ends in an answer.
LEMMA AttemptHolds ==
  ASSUME RequestsTypeOK, RecordsNameTombstones, NEW call \in Call,
         Attempt(call).pc = "reply"
  PROVE  /\ Attempt(call).call = call
         /\ Holds(call, Attempt(call).result)
<1>1. CASE ~KeyFree(call)
  BY <1>1, ReplayHolds DEF Attempt
<1>2. CASE KeyFree(call) /\ Missing(call)
  BY <1>2 DEF Attempt, Reply, Holds
<1>3. CASE KeyFree(call) /\ ~Missing(call) /\ Gone(call)
  <2>1. Attempt(call) = Reply(call, "gone")
    BY <1>3 DEF Attempt
  <2>2. /\ call.op = "delete"
        /\ row[call.target] # None
        /\ row[call.target].deleted
        /\ record[call.key] = None
    BY <1>3 DEF Gone, Missing, KeyFree
  <2>3. call.target # None
    BY <2>2, CallKinds, RequestsAssumption DEF DeleteCall
  <2>. QED  BY <2>1, <2>2, <2>3 DEF Reply, Holds, RuledOut
<1>4. CASE KeyFree(call) /\ ~Missing(call) /\ ~Gone(call)
  BY <1>4 DEF Attempt, Ready
<1>. QED  BY <1>1, <1>2, <1>3, <1>4

LEMMA TombstonesStep ==
  ASSUME WellTyped, RecordsNameTombstones, TablesGrow
  PROVE  RecordsNameTombstones'
<1>. SUFFICES ASSUME NEW d \in DeleteKeys, record'[d] # None
              PROVE  row'[record'[d]] # None /\ row'[record'[d]].deleted
  BY DEF RecordsNameTombstones
<1>1. CASE record'[d] = record[d]
  <2>1. record[d] \in CreateKeys
    BY <1>1 DEF WellTyped, RequestsTypeOK
  <2>. QED  BY <1>1, <2>1 DEF RecordsNameTombstones, TablesGrow
<1>2. CASE record'[d] # record[d]
  BY <1>2 DEF TablesGrow
<1>. QED  BY <1>1, <1>2

\* A step leaves the other handlers' calls, answers and rescues alone.
LEMMA OthersStand ==
  ASSUME WellTyped, [RequestsNext]_requestsVars, NEW g \in Executions, execution'[g].pc \in {"rescue", "reply"}
  PROVE  \/ execution'[g] = execution[g]
         \/ BeginAttempt(g) \/ Commit(g) \/ SerializationFailure(g)
         \/ UniqueViolation(g) \/ Rescue(g)
<1>1. CASE UNCHANGED requestsVars
  BY <1>1 DEF requestsVars
<1>2. CASE RequestsNext
  <2>1. PICK h \in Executions :
          \/ \E call \in Call : Receive(h, call)
          \/ BeginAttempt(h)
          \/ Commit(h)
          \/ SerializationFailure(h)
          \/ UniqueViolation(h)
          \/ Rescue(h)
          \/ Answer(h)
          \/ Crash(h)
    BY <1>2 DEF RequestsNext
  <2>2. CASE Commit(h) /\ g # h
    <3>1. \/ execution[g].pc = "open" /\ execution'[g].pc = "open"
          \/ execution'[g] = execution[g]
      <4>1. CASE execution[g].pc = "open"
        <5>1. execution[g] \in Running
          BY <4>1, StateKinds DEF WellTyped
        <5>2. execution'[g] = [execution[g] EXCEPT
                !.stale = execution[g].stale \cup {AccountOf(execution[h].call)},
                !.raced = TRUE]
          BY <2>2, <4>1, CommitHandlers
        <5>. QED  BY <4>1, <5>1, <5>2 DEF Running
      <4>2. CASE execution[g].pc # "open"
        BY <2>2, <4>2, CommitHandlers
      <4>. QED  BY <4>1, <4>2
    <3>. QED  BY <3>1
  <2>3. CASE ~Commit(h) /\ g # h
    <3>1. execution'[g] = execution[g]
      BY <2>1, <2>3
        DEF Receive, BeginAttempt, SerializationFailure, UniqueViolation, Rescue, Answer,
            Crash, WellTyped, RequestsTypeOK
    <3>. QED  BY <3>1
  <2>4. CASE g = h
    <3>1. ASSUME NEW call \in Call, Receive(h, call)
          PROVE  execution'[h].pc = "ready"
      BY <3>1 DEF Receive, Ready, WellTyped, RequestsTypeOK
    <3>2. Answer(h) \/ Crash(h) => execution'[h].pc = "idle"
      BY DEF Answer, Crash, NoCall, WellTyped, RequestsTypeOK
    <3>. QED  BY <2>1, <2>4, <3>1, <3>2
  <2>. QED  BY <2>2, <2>3, <2>4
<1>. QED  BY <1>1, <1>2

LEMMA TruthInit == RequestsInit => Truth
<1>. SUFFICES ASSUME RequestsInit PROVE Truth
  OBVIOUS
<1>1. RecordsNameTombstones
  BY DEF RequestsInit, RecordsNameTombstones
<1>2. RescueFindsKey /\ RepliesHold /\ ToldHolds
  BY DEF RequestsInit, RescueFindsKey, RepliesHold, ToldHolds, NoCall
<1>. QED  BY <1>1, <1>2 DEF Truth

LEMMA TruthStep ==
  ASSUME WellTyped, Truth, [RequestsNext]_requestsVars
  PROVE  Truth'
<1>1. TablesGrow
  BY TablesOnlyGrow
<1>2. RecordsNameTombstones'
  BY <1>1, TombstonesStep DEF Truth
<1>3. RequestsTypeOK /\ RequestsTypeOK' /\ RecordsNameTombstones
  BY TypedStep DEF WellTyped, Truth
<1>4. ASSUME NEW g \in Executions, NEW c,
             execution'[g].pc = "rescue", execution'[g].call = c
      PROVE  ~KeyFree(c)'
  <2>1. c \in Call /\ ~KeyFree(c)
    <3>1. CASE execution'[g] = execution[g]
      <4>1. execution[g] \in Running
        BY <1>3, <1>4, <3>1, StateKinds
      <4>. QED  BY <1>4, <3>1, <4>1 DEF Truth, RescueFindsKey, Running
    <3>2. CASE UniqueViolation(g)
      <4>1. execution[g] \in Running
        BY <1>3, <3>2, StateKinds DEF UniqueViolation
      <4>. QED  BY <1>4, <3>2, <4>1 DEF UniqueViolation, WellTyped, RequestsTypeOK, Running
    <3>3. CASE BeginAttempt(g)
      <4>1. execution[g] \in Running
        BY <1>3, <3>3, StateKinds DEF BeginAttempt
      <4>2. Attempt(execution[g].call).pc \in {"reply", "open"}
        BY <1>3, <4>1, AttemptDecides DEF Running, Replying, Ready
      <4>3. execution'[g].pc \in {"reply", "open"}
        BY <3>3, <4>2 DEF BeginAttempt, Attempt, Ready, Reply, Replay, WellTyped, RequestsTypeOK
      <4>. QED  BY <1>4, <4>3
    <3>4. CASE Commit(g)
      <4>1. execution'[g] = Reply(execution[g].call, "ok")
        BY <3>4, CommitHandlers
      <4>. QED  BY <1>4, <4>1 DEF Reply
    <3>5. CASE SerializationFailure(g) \/ Rescue(g)
      <4>1. execution'[g].pc \in {"ready", "reply"}
        BY <3>5 DEF SerializationFailure, Rescue, Ready, Reply, Replay, WellTyped, RequestsTypeOK
      <4>. QED  BY <1>4, <4>1
    <3>. QED  BY <1>4, <3>1, <3>2, <3>3, <3>4, <3>5, OthersStand
  <2>. QED  BY <1>1, <2>1, KeyStaysTaken
<1>5. ASSUME NEW g \in Executions, NEW c, NEW r,
             execution'[g].pc = "reply", execution'[g].call = c, execution'[g].result = r
      PROVE  Holds(c, r)'
  <2>1. CASE execution'[g] = execution[g]
    <3>1. execution[g] \in Replying
      BY <1>3, <1>5, <2>1, StateKinds
    <3>2. Holds(c, r) /\ c \in Call
      BY <1>5, <2>1, <3>1 DEF Truth, RepliesHold, Replying
    <3>. QED  BY <1>1, <1>3, <3>2, HoldsForGood
  <2>2. CASE BeginAttempt(g)
    <3>1. execution[g] \in Running
      BY <1>3, <2>2, StateKinds DEF BeginAttempt
    <3>2. execution[g].call \in Call
      BY <3>1 DEF Running
    <3>3. execution'[g] = Attempt(execution[g].call) /\ Attempt(execution[g].call).pc = "reply"
      BY <1>5, <2>2, <3>2, AttemptDecides, <1>3
        DEF BeginAttempt, Attempt, Ready, Reply, Replay, Replying, WellTyped, RequestsTypeOK
    <3>4. c \in Call /\ Holds(c, r)
      BY <1>3, <1>5, <3>2, <3>3, AttemptHolds
    <3>. QED  BY <1>1, <1>3, <3>4, HoldsForGood
  <2>3. CASE Rescue(g)
    <3>1. execution[g] \in Running
      BY <1>3, <2>3, StateKinds DEF Rescue
    <3>2. execution[g].call \in Call /\ ~KeyFree(execution[g].call)
      BY <2>3, <3>1 DEF Running, Rescue, Truth, RescueFindsKey
    <3>3. execution'[g] = Replay(execution[g].call)
      BY <2>3 DEF Rescue, WellTyped, RequestsTypeOK
    <3>4. c \in Call /\ Holds(c, r)
      BY <1>3, <1>5, <3>2, <3>3, ReplayHolds
    <3>. QED  BY <1>1, <1>3, <3>4, HoldsForGood
  <2>4. CASE SerializationFailure(g)
    <3>1. execution'[g] = Reply(execution[g].call, "busy")
      BY <1>5, <2>4 DEF SerializationFailure, Ready, WellTyped, RequestsTypeOK
    <3>2. r = "busy"
      BY <1>5, <3>1 DEF Reply
    <3>. QED  BY <3>2 DEF Holds
  <2>5. CASE Commit(g)
    <3>1. execution[g].call = c /\ r = "ok"
      <4>1. execution'[g] = Reply(execution[g].call, "ok")
        BY <2>5, CommitHandlers
      <4>. QED  BY <1>5, <4>1 DEF Reply
    <3>2. Applied(c)'
      <4>1. CASE c.op = "create"
        <5>1. /\ c \in CreateCall
              /\ row' = [row EXCEPT ![c.key] =
                           [account |-> c.account, deleted |-> FALSE]]
          BY <2>5, <3>1, <4>1, CommitWrites
        <5>2. c.key \in CreateKeys /\ c.account \in Accounts
          BY <5>1 DEF CreateCall
        <5>3. row'[c.key] = [account |-> c.account, deleted |-> FALSE]
          BY <5>1, <5>2 DEF WellTyped, RequestsTypeOK
        <5>4. row'[c.key] \in LedgerRow
          BY <5>2, <5>3 DEF LedgerRow
        <5>5. row'[c.key] # None
          BY <5>4, NoneAssumption
        <5>. QED  BY <4>1, <5>3, <5>5 DEF Applied
      <4>2. CASE c.op # "create"
        <5>1. /\ c \in DeleteCall
              /\ row[c.target] \in LedgerRow
              /\ row' = [row EXCEPT ![c.target].deleted = TRUE]
              /\ record' = [record EXCEPT ![c.key] = c.target]
          BY <2>5, <3>1, <4>2, CommitWrites
        <5>2. c.target \in CreateKeys /\ c.key \in DeleteKeys
          BY <5>1 DEF DeleteCall
        <5>3. record'[c.key] = c.target
          BY <5>1, <5>2 DEF WellTyped, RequestsTypeOK
        <5>4. row'[c.target] = [row[c.target] EXCEPT !.deleted = TRUE]
          BY <5>1, <5>2 DEF WellTyped, RequestsTypeOK
        <5>5. row'[c.target].deleted
          BY <5>1, <5>4 DEF LedgerRow
        <5>. QED  BY <4>2, <5>3, <5>5 DEF Applied
      <4>. QED  BY <4>1, <4>2
    <3>. QED  BY <3>1, <3>2 DEF Holds
  <2>6. ~UniqueViolation(g)
    <3>1. SUFFICES ASSUME UniqueViolation(g) PROVE FALSE
      OBVIOUS
    <3>2. execution[g] \in Running
      BY <1>3, <3>1, StateKinds DEF UniqueViolation
    <3>. QED  BY <1>5, <3>1, <3>2 DEF UniqueViolation, WellTyped, RequestsTypeOK, Running
  <2>. QED  BY <1>5, <2>1, <2>2, <2>3, <2>4, <2>5, <2>6, OthersStand
<1>6. ASSUME NEW t \in told'
      PROVE  Holds(t.call, t.result)'
  <2>1. t.call \in Call
    BY <1>3, <1>6 DEF RequestsTypeOK
  <2>2. Holds(t.call, t.result)
    <3>1. CASE t \in told
      BY <3>1 DEF Truth, ToldHolds
    <3>2. CASE t \notin told
      <4>1. PICK h \in Executions :
              /\ execution[h].pc = "reply"
              /\ told' = told \cup
                   {[call |-> execution[h].call, result |-> execution[h].result]}
        BY <1>6, <3>2
          DEF RequestsNext, requestsVars, Receive, BeginAttempt, Commit, SerializationFailure,
              UniqueViolation, Rescue, Answer, Crash
      <4>2. t = [call |-> execution[h].call, result |-> execution[h].result]
        BY <1>6, <3>2, <4>1
      <4>. QED  BY <4>1, <4>2 DEF Truth, RepliesHold
    <3>. QED  BY <3>1, <3>2
  <2>. QED  BY <1>1, <1>3, <2>1, <2>2, HoldsForGood
<1>7. RescueFindsKey'
  BY <1>4 DEF RescueFindsKey, KeyFree
<1>8. RepliesHold'
  BY <1>5 DEF RepliesHold, Holds, Applied, RuledOut
<1>9. ToldHolds'
  BY <1>6 DEF ToldHolds, Holds, Applied, RuledOut
<1>. QED  BY <1>2, <1>7, <1>8, <1>9 DEF Truth

LEMMA TruthAlways == RequestsSpec => [](WellTyped /\ Truth)
<1>. QED  BY TypedInit, TypedStep, TruthInit, TruthStep, PTL DEF RequestsSpec

\* A client that was told "ok" can rely on it for good.
THEOREM OkIsTrue == RequestsSpec => []OkMeansApplied
<1>1. Truth => OkMeansApplied
  BY DEF Truth, ToldHolds, Holds, OkMeansApplied
<1>. QED  BY <1>1, TruthAlways, PTL

\* A client that was refused can rely on that for good: no earlier attempt of
\* the call has taken effect, and none that is still under way ever will.
THEOREM RefusalIsTrue == RequestsSpec => []RefusedMeansNotApplied
<1>1. WellTyped /\ Truth => RefusedMeansNotApplied
  <2>. SUFFICES ASSUME WellTyped, Truth, NEW t \in told,
                       t.result \in {"gone", "conflict"}
                PROVE  ~Applied(t.call)
    BY DEF RefusedMeansNotApplied
  <2>1. RuledOut(t.call)
    BY DEF Truth, ToldHolds, Holds
  <2>. QED  BY <2>1 DEF RuledOut, Applied
<1>. QED  BY <1>1, TruthAlways, PTL

\* Every answer that a client gets can be relied on.
THEOREM AnswersHold == RequestsSpec => []AnswersAreTrue
<1>1. OkMeansApplied /\ RefusedMeansNotApplied => AnswersAreTrue
  BY DEF AnswersAreTrue
<1>. QED  BY <1>1, OkIsTrue, RefusalIsTrue, PTL

-----------------------------------------------------------------------------
(* Requests implements ExactlyOnce: Init implies its initial states, a      *)
(* commit is one of its steps, and everything else a handler does leaves    *)
(* its variables alone.                                                     *)

CreatedBar == [k \in CreateKeys |-> IF row[k] = None THEN None ELSE row[k].account]

LEMMA PromiseInit == RequestsInit => Promise!Init
BY DEF RequestsInit, Promise!Init

LEMMA PromiseStep ==
  ASSUME WellTyped, RecordsNameTombstones, [RequestsNext]_requestsVars
  PROVE  [Promise!Next]_(Promise!vars)
<1>1. CASE row' = row /\ record' = record /\ balance' = balance
  BY <1>1 DEF Promise!vars
<1>2. ASSUME NEW h \in Executions, Commit(h)
      PROVE  Promise!Next
  <2>. DEFINE call == execution[h].call
  <2>1. CASE call.op = "create"
    <3>1. /\ call \in CreateCall
          /\ row[call.key] = None
          /\ row' = [row EXCEPT ![call.key] =
                       [account |-> call.account, deleted |-> FALSE]]
          /\ balance' = [balance EXCEPT ![call.account] = @ + 1]
          /\ record' = record
      BY <1>2, <2>1, CommitWrites
    <3>2. call.key \in CreateKeys /\ call.account \in Accounts
      BY <3>1 DEF CreateCall
    <3>3. row'[call.key] = [account |-> call.account, deleted |-> FALSE]
      BY <3>1, <3>2 DEF WellTyped, RequestsTypeOK
    <3>4. row'[call.key] # None
      <4>1. row'[call.key] \in LedgerRow
        BY <3>2, <3>3 DEF LedgerRow
      <4>. QED  BY <4>1, NoneAssumption
    <3>5. \A k \in CreateKeys \ {call.key} : row'[k] = row[k]
      BY <3>1 DEF WellTyped, RequestsTypeOK
    <3>6. CreatedBar' = [CreatedBar EXCEPT ![call.key] = call.account]
      <4>1. row'[call.key].account = call.account
        BY <3>3
      <4>2. \A k \in CreateKeys :
              (IF row'[k] = None THEN None ELSE row'[k].account)
                = IF k = call.key THEN call.account ELSE CreatedBar[k]
        BY <3>4, <3>5, <4>1 DEF CreatedBar
      <4>. QED  BY <4>2 DEF CreatedBar
    <3>7. CreatedBar[call.key] = None
      BY <3>1, <3>2 DEF CreatedBar
    <3>8. PICK k \in CreateKeys, a \in Accounts : k = call.key /\ a = call.account
      BY <3>2
    <3>9. Promise!Apply(k, a)
      BY <3>1, <3>6, <3>7, <3>8 DEF Promise!Apply, CreatedBar
    <3>. QED  BY <3>9 DEF Promise!Next
  <2>2. CASE call.op # "create"
    <3>1. /\ call \in DeleteCall
          /\ record[call.key] = None
          /\ row[call.target] \in LedgerRow
          /\ ~row[call.target].deleted
          /\ row' = [row EXCEPT ![call.target].deleted = TRUE]
          /\ balance' = [balance EXCEPT ![row[call.target].account] = @ - 1]
          /\ record' = [record EXCEPT ![call.key] = call.target]
      BY <1>2, <2>2, CommitWrites
    <3>2. call.target \in CreateKeys /\ call.key \in DeleteKeys
      BY <3>1 DEF DeleteCall
    <3>3. row'[call.target] = [row[call.target] EXCEPT !.deleted = TRUE]
      BY <3>1, <3>2 DEF WellTyped, RequestsTypeOK
    <3>4. row'[call.target] \in LedgerRow /\ row'[call.target].account = row[call.target].account
      BY <3>1, <3>3 DEF LedgerRow
    <3>5. row[call.target] # None /\ row'[call.target] # None
      BY <3>1, <3>4, NoneAssumption
    <3>6. \A k \in CreateKeys \ {call.target} : row'[k] = row[k]
      BY <3>1 DEF WellTyped, RequestsTypeOK
    <3>7. CreatedBar' = CreatedBar
      BY <3>2, <3>4, <3>5, <3>6 DEF CreatedBar
    <3>8. CreatedBar[call.target] = row[call.target].account /\ row[call.target].account \in Accounts
      BY <3>1, <3>2, <3>5 DEF CreatedBar, LedgerRow
    <3>9. \A e \in DeleteKeys : record[e] # call.target
      BY <3>1, <3>2, RequestsAssumption DEF RecordsNameTombstones
    <3>10. CreatedBar[call.target] # None
      BY <3>8, RequestsAssumption
    <3>11. Promise!Undo(call.key, call.target)
      BY <3>1, <3>7, <3>8, <3>9, <3>10 DEF Promise!Undo, CreatedBar
    <3>. QED  BY <3>2, <3>11 DEF Promise!Next
  <2>. QED  BY <2>1, <2>2
<1>. QED  BY <1>1, <1>2, OnlyCommitWrites

\* Retries, races, crashes and resent calls are invisible behind the promise:
\* a key takes effect at most once and is never rebound.
THEOREM PromiseKept == RequestsSpec => KeepsPromise
<1>1. WellTyped /\ Truth /\ [RequestsNext]_requestsVars => [Promise!Next]_(Promise!vars)
  BY PromiseStep DEF Truth
<1>. QED  BY <1>1, PromiseInit, TruthAlways, PTL DEF RequestsSpec, KeepsPromise, Promise!Spec

-----------------------------------------------------------------------------
(* Requests and records, field by field.                                   *)

IsRequest(r) ==
  /\ r = [type |-> r.type, kind |-> r.kind, from |-> r.from, to |-> r.to, amount |-> r.amount,
          hint |-> r.hint, dest |-> r.dest, destHint |-> r.destHint, fee |-> r.fee,
          feeOn |-> r.feeOn, purpose |-> r.purpose, notes |-> r.notes, value |-> r.value,
          parts |-> r.parts]
  /\ r.from \in AccountIds /\ (Moves(r) => r.to \in AccountIds)

IsRecord(kept) ==
  kept = [type |-> kept.type, kind |-> kept.kind, from |-> kept.from, to |-> kept.to,
         amount |-> kept.amount, currency |-> kept.currency, dest |-> kept.dest,
         destHint |-> kept.destHint, fee |-> kept.fee, purpose |-> kept.purpose,
         notes |-> kept.notes, parts |-> kept.parts, partner |-> kept.partner, value |-> kept.value]

\* What is read back of a row is the row without its valuation.
LEMMA StoredFields ==
  ASSUME NEW kept, IsRecord(kept)
  PROVE  StoredPayload(kept) =
           [type |-> kept.type, kind |-> kept.kind, from |-> kept.from, to |-> kept.to,
            amount |-> kept.amount, currency |-> kept.currency, dest |-> kept.dest,
            destHint |-> kept.destHint, fee |-> kept.fee, purpose |-> kept.purpose,
            notes |-> kept.notes, parts |-> kept.parts, partner |-> kept.partner]
<1>1. PICK a, b, c, d, e, f, g, h, i, j, k, l, m, n :
        kept = [type |-> a, kind |-> b, from |-> c, to |-> d, amount |-> e, currency |-> f,
               dest |-> g, destHint |-> h, fee |-> i, purpose |-> j, notes |-> k, parts |-> l,
               partner |-> m, value |-> n]
  BY DEF IsRecord
<1>2. DOMAIN kept \ {"value"} =
        {"type", "kind", "from", "to", "amount", "currency", "dest", "destHint", "fee", "purpose",
         "notes", "parts", "partner"}
  BY <1>1
<1>. QED  BY <1>1, <1>2 DEF StoredPayload

\* A request agrees with a row when every field does.
LEMMA SameFields ==
  ASSUME NEW r, NEW kept, IsRecord(kept)
  PROVE  SamePayload(r, kept) <=>
           /\ r.type = kept.type /\ (IF Moves(r) THEN Unset ELSE r.kind) = kept.kind
           /\ r.from = kept.from /\ r.to = kept.to /\ r.amount = kept.amount
           /\ r.hint = kept.currency /\ r.dest = kept.dest /\ r.destHint = kept.destHint
           /\ FeeOf(r) = kept.fee /\ r.purpose = kept.purpose /\ r.notes = kept.notes
           /\ r.parts = kept.parts
           /\ kept.partner =
                IF Moves(r) /\ kept.partner # NoPartner
                THEN [on |-> r.to, amount |-> IF r.dest = 0 THEN r.amount ELSE r.dest,
                      currency |-> IF r.destHint = Unset THEN r.hint ELSE r.destHint,
                      dest |-> r.dest, destHint |-> r.destHint]
                ELSE NoPartner
<1>1. PICK kind : kind = IF Moves(r) THEN Unset ELSE r.kind
  OBVIOUS
<1>2. PICK fee : fee = FeeOf(r)
  OBVIOUS
<1>3. PICK partner : partner =
        IF Moves(r) /\ kept.partner # NoPartner
        THEN [on |-> r.to, amount |-> IF r.dest = 0 THEN r.amount ELSE r.dest,
              currency |-> IF r.destHint = Unset THEN r.hint ELSE r.destHint,
              dest |-> r.dest, destHint |-> r.destHint]
        ELSE NoPartner
  OBVIOUS
<1>4. RequestPayload(r, kept.partner # NoPartner) =
        [type |-> r.type, kind |-> kind, from |-> r.from, to |-> r.to, amount |-> r.amount,
         currency |-> r.hint, dest |-> r.dest, destHint |-> r.destHint, fee |-> fee,
         purpose |-> r.purpose, notes |-> r.notes, parts |-> r.parts, partner |-> partner]
  BY <1>1, <1>2, <1>3 DEF RequestPayload
<1>. QED  BY <1>1, <1>2, <1>3, <1>4, StoredFields DEF SamePayload

LEMMA ResolvedFields ==
  ASSUME NEW r, IsRequest(r), NEW acc, NEW q, q = Resolved(r, acc)
  PROVE  /\ IsRequest(q) /\ Moves(q) = Moves(r)
         /\ q.type = r.type /\ q.kind = r.kind /\ q.from = r.from /\ q.to = r.to
         /\ q.amount = r.amount /\ q.hint = r.hint /\ q.dest = r.dest /\ q.destHint = r.destHint
         /\ q.fee = r.fee /\ q.notes = r.notes /\ q.value = r.value /\ q.parts = r.parts
         /\ q.purpose = IF MovesFunds(r) /\ r.purpose = Unset THEN Purpose(r.from, r.to, acc)
                        ELSE r.purpose
         /\ q.feeOn = IF Moves(r) /\ r.fee # 0 /\ r.feeOn = Unset
                      THEN (IF r.from \in Tracked(acc) THEN r.to ELSE r.from) ELSE r.feeOn
<1>1. CASE ~Moves(r)
  BY <1>1 DEF Resolved, MovesFunds
<1>2. CASE Moves(r)
  <2>1. PICK purpose : purpose = IF MovesFunds(r) /\ r.purpose = Unset
                                 THEN Purpose(r.from, r.to, acc) ELSE r.purpose
    OBVIOUS
  <2>2. PICK feeOn : feeOn = IF r.fee # 0 /\ r.feeOn = Unset
                             THEN (IF r.from \in Tracked(acc) THEN r.to ELSE r.from) ELSE r.feeOn
    OBVIOUS
  <2>3. q = [type |-> r.type, kind |-> r.kind, from |-> r.from, to |-> r.to, amount |-> r.amount,
             hint |-> r.hint, dest |-> r.dest, destHint |-> r.destHint, fee |-> r.fee,
             feeOn |-> feeOn, purpose |-> purpose, notes |-> r.notes, value |-> r.value,
             parts |-> r.parts]
    BY <1>2, <2>1, <2>2 DEF Resolved, IsRequest
  <2>. QED  BY <1>2, <2>1, <2>2, <2>3 DEF IsRequest, Moves
<1>. QED  BY <1>1, <1>2

\* The row of a request: what the three paths have in common, and what not.
MadeOf(r, acc, kept) ==
  /\ IsRecord(kept)
  /\ kept.type = r.type /\ kept.amount = r.amount /\ kept.currency = CurrencyOf[r.from]
  /\ kept.notes = Text(r.notes)
  /\ Moves(r) => kept.kind = Unset /\ kept.parts = <<>> /\ kept.fee = FeeOf(r)
                 /\ kept.purpose = r.purpose
  /\ ~Moves(r) => kept.kind = r.kind /\ kept.parts = r.parts /\ kept.fee = NoFee
                  /\ kept.purpose = Unset
  /\ Linked(r, acc) =>
       /\ kept.from = (IF r.from \in Tracked(acc) THEN r.to ELSE r.from)
       /\ kept.to = (IF r.from \in Tracked(acc) THEN r.from ELSE r.to)
       /\ kept.value = r.value
  /\ ~Linked(r, acc) => kept.from = r.from /\ kept.to = r.to /\ kept.value = 0
  /\ Moves(r) /\ ~Linked(r, acc) =>
       /\ kept.dest = r.dest /\ kept.destHint = r.destHint
       /\ kept.partner =
            [on |-> r.to, amount |-> IF r.dest = 0 THEN r.amount ELSE r.dest,
             currency |-> CurrencyOf[r.to], dest |-> r.dest, destHint |-> r.destHint]
  /\ ~Moves(r) \/ Linked(r, acc) =>
       kept.dest = 0 /\ kept.destHint = Unset /\ kept.partner = NoPartner

LEMMA RecordFields ==
  ASSUME NEW r, NEW acc, NEW kept, kept = RecordOf(r, acc)
  PROVE  MadeOf(r, acc, kept)
<1>1. PICK notes : notes = Text(r.notes)
  OBVIOUS
<1>2. PICK fee : fee = FeeOf(r)
  OBVIOUS
<1>3. PICK plain : plain = PlainRecord(r)
  OBVIOUS
<1>4. plain =
        [type |-> r.type, kind |-> r.kind, from |-> r.from, to |-> r.to, amount |-> r.amount,
         currency |-> CurrencyOf[r.from], dest |-> 0, destHint |-> Unset, fee |-> NoFee,
         purpose |-> Unset, notes |-> notes, parts |-> r.parts, partner |-> NoPartner, value |-> 0]
  BY <1>1, <1>3 DEF PlainRecord
<1>5. CASE ~Moves(r)
  BY <1>1, <1>3, <1>4, <1>5 DEF RecordOf, Linked, IsRecord, MadeOf
<1>6. CASE Moves(r) /\ ~Linked(r, acc)
  <2>1. PICK partner : partner =
          [on |-> r.to, amount |-> IF r.dest = 0 THEN r.amount ELSE r.dest,
           currency |-> CurrencyOf[r.to], dest |-> r.dest, destHint |-> r.destHint]
    OBVIOUS
  <2>2. kept = [type |-> r.type, kind |-> Unset, from |-> r.from, to |-> r.to, amount |-> r.amount,
               currency |-> CurrencyOf[r.from], dest |-> r.dest, destHint |-> r.destHint, fee |-> fee,
               purpose |-> r.purpose, notes |-> notes, parts |-> <<>>, partner |-> partner, value |-> 0]
    <3>1. kept = [plain EXCEPT !.kind = Unset, !.parts = <<>>, !.dest = r.dest,
                              !.destHint = r.destHint, !.fee = fee, !.purpose = r.purpose,
                              !.partner = partner]
      BY <1>2, <1>3, <1>6, <2>1 DEF RecordOf, ClassicRecord
    <3>. QED  BY <1>4, <3>1
  <2>. QED  BY <1>1, <1>2, <1>6, <2>1, <2>2 DEF IsRecord, MadeOf
<1>7. CASE Linked(r, acc)
  <2>1. PICK from : from = IF r.from \in Tracked(acc) THEN r.to ELSE r.from
    OBVIOUS
  <2>2. PICK to : to = IF r.from \in Tracked(acc) THEN r.from ELSE r.to
    OBVIOUS
  <2>3. kept = [type |-> r.type, kind |-> Unset, from |-> from, to |-> to, amount |-> r.amount,
               currency |-> CurrencyOf[r.from], dest |-> 0, destHint |-> Unset, fee |-> fee,
               purpose |-> r.purpose, notes |-> notes, parts |-> <<>>, partner |-> NoPartner,
               value |-> r.value]
    <3>1. kept = [plain EXCEPT !.kind = Unset, !.parts = <<>>, !.fee = fee, !.purpose = r.purpose,
                              !.value = r.value, !.from = from, !.to = to]
      BY <1>2, <1>3, <1>7, <2>1, <2>2 DEF RecordOf, LinkedRecord
    <3>. QED  BY <1>4, <3>1
  <2>4. Moves(r)
    BY <1>7 DEF Linked
  <2>. QED  BY <1>1, <1>2, <1>7, <2>1, <2>2, <2>3, <2>4 DEF IsRecord, MadeOf
<1>. QED  BY <1>5, <1>6, <1>7

-----------------------------------------------------------------------------
(* The two halves of the argument, about one request and one row. *)

\* A request that made the row agrees with it, whatever has become of the accounts,
\* unless the row has lost something of it or something comes out otherwise.
LEMMA ComesBackTheSame ==
  ASSUME NEW r, IsRequest(r), NEW then, NEW acc, NEW kept, kept = RecordOf(Resolved(r, then), then),
         Accepted(Resolved(r, then), then),
         ~LostInTheRow(r, kept),
         ~(r.purpose = Unset /\ r.to # Unset /\ acc[r.to].savings # then[r.to].savings),
         ~(r.fee # 0 /\ r.feeOn = Unset /\ acc[r.from].source # then[r.from].source)
  PROVE  SamePayload(Resolved(r, acc), kept)
<1>1. PICK q : q = Resolved(r, then)
  OBVIOUS
<1>2. PICK p : p = Resolved(r, acc)
  OBVIOUS
<1>3. /\ q.type = r.type /\ q.kind = r.kind /\ q.from = r.from /\ q.to = r.to
      /\ q.amount = r.amount /\ q.hint = r.hint /\ q.dest = r.dest /\ q.destHint = r.destHint
      /\ q.fee = r.fee /\ q.notes = r.notes /\ q.parts = r.parts /\ Moves(q) = Moves(r)
  BY <1>1, ResolvedFields
<1>4. /\ p.type = r.type /\ p.kind = r.kind /\ p.from = r.from /\ p.to = r.to
      /\ p.amount = r.amount /\ p.hint = r.hint /\ p.dest = r.dest /\ p.destHint = r.destHint
      /\ p.fee = r.fee /\ p.notes = r.notes /\ p.parts = r.parts /\ Moves(p) = Moves(r)
  BY <1>2, ResolvedFields
<1>5. p.purpose = q.purpose
  <2>1. CASE MovesFunds(r) /\ r.purpose = Unset
    <3>1. acc[r.to].savings = then[r.to].savings
      BY <2>1, UnsetAssumption DEF IsRequest, MovesFunds
    <3>2. Purpose(r.from, r.to, acc) = Purpose(r.from, r.to, then)
      BY <3>1 DEF Purpose
    <3>. QED  BY <1>1, <1>2, <3>2, ResolvedFields
  <2>2. CASE ~(MovesFunds(r) /\ r.purpose = Unset)
    BY <1>1, <1>2, <2>2, ResolvedFields
  <2>. QED  BY <2>1, <2>2
<1>6. p.feeOn = q.feeOn
  <2>1. CASE Moves(r) /\ r.fee # 0 /\ r.feeOn = Unset
    <3>1. acc[r.from].source = then[r.from].source
      BY <2>1
    <3>2. r.from \in Tracked(acc) <=> r.from \in Tracked(then)
      BY <3>1 DEF Tracked
    <3>. QED  BY <1>1, <1>2, <3>2, ResolvedFields
  <2>2. CASE ~(Moves(r) /\ r.fee # 0 /\ r.feeOn = Unset)
    BY <1>1, <1>2, <2>2, ResolvedFields
  <2>. QED  BY <2>1, <2>2
<1>7. FeeOf(p) = FeeOf(q)
  BY <1>3, <1>4, <1>6 DEF FeeOf
<1>14. MadeOf(q, then, kept)
  BY <1>1, RecordFields
<1>8. /\ IsRecord(kept) /\ kept.type = q.type /\ kept.amount = q.amount /\ kept.notes = Text(q.notes)
      /\ Moves(q) => kept.kind = Unset /\ kept.parts = <<>> /\ kept.fee = FeeOf(q)
                     /\ kept.purpose = q.purpose
      /\ ~Moves(q) => kept.kind = q.kind /\ kept.parts = q.parts /\ kept.fee = NoFee
                      /\ kept.purpose = Unset
  BY <1>14 DEF MadeOf
<1>9. /\ r.hint = kept.currency /\ r.notes # "empty" /\ kept.from = r.from /\ r.dest = kept.dest
      /\ r.destHint = kept.destHint /\ r.parts = kept.parts
      /\ kept.partner # NoPartner =>
           kept.partner.currency = IF r.destHint = Unset THEN r.hint ELSE r.destHint
  BY DEF LostInTheRow
<1>10. kept.notes = r.notes
  BY <1>3, <1>8, <1>9 DEF Text
<1>11. CASE ~Moves(r)
  <2>1. kept.partner = NoPartner /\ kept.to = q.to
    <3>1. ~Linked(q, then) /\ ~Moves(q)
      BY <1>3, <1>11 DEF Linked
    <3>. QED  BY <1>14, <3>1 DEF MadeOf
  <2>2. q.fee = 0 /\ q.purpose = Unset
    BY <1>1, <1>3, <1>11 DEF Accepted, WellFormed
  <2>3. FeeOf(p) = kept.fee
    BY <1>3, <1>7, <1>8, <1>11, <2>2 DEF FeeOf
  <2>4. (IF Moves(p) THEN Unset ELSE p.kind) = kept.kind
    BY <1>3, <1>4, <1>8, <1>11
  <2>5. SamePayload(p, kept)
    <3>1. /\ p.type = kept.type /\ p.from = kept.from /\ p.to = kept.to
          /\ p.amount = kept.amount /\ p.hint = kept.currency /\ p.dest = kept.dest
          /\ p.destHint = kept.destHint /\ p.purpose = kept.purpose
          /\ p.notes = kept.notes /\ p.parts = kept.parts
      BY <1>3, <1>4, <1>5, <1>8, <1>9, <1>10, <1>11, <2>1, <2>2
    <3>. QED  BY <1>8, <2>1, <2>3, <2>4, <3>1, SameFields
  <2>. QED  BY <1>2, <2>5
<1>12. CASE Moves(r) /\ ~Linked(q, then)
  <2>1. /\ kept.to = q.to
        /\ kept.partner =
             [on |-> q.to, amount |-> IF q.dest = 0 THEN q.amount ELSE q.dest,
              currency |-> CurrencyOf[q.to], dest |-> q.dest, destHint |-> q.destHint]
    BY <1>3, <1>12, <1>14 DEF MadeOf
  <2>2. kept.partner.on \in AccountIds
    BY <1>3, <1>12, <2>1 DEF IsRequest
  <2>3. kept.partner # NoPartner
    BY <2>2, UnsetAssumption DEF NoPartner
  <2>4. kept.partner.currency = CurrencyOf[q.to]
    BY <2>1
  <2>6. CurrencyOf[q.to] = IF p.destHint = Unset THEN p.hint ELSE p.destHint
    BY <1>4, <1>9, <2>3, <2>4
  <2>7. kept.partner =
          [on |-> p.to, amount |-> IF p.dest = 0 THEN p.amount ELSE p.dest,
           currency |-> IF p.destHint = Unset THEN p.hint ELSE p.destHint,
           dest |-> p.dest, destHint |-> p.destHint]
    BY <1>3, <1>4, <2>1, <2>6
  <2>5. SamePayload(p, kept)
    <3>1. /\ p.type = kept.type /\ (IF Moves(p) THEN Unset ELSE p.kind) = kept.kind
          /\ p.from = kept.from /\ p.to = kept.to /\ p.amount = kept.amount
          /\ p.hint = kept.currency /\ p.dest = kept.dest /\ p.destHint = kept.destHint
          /\ FeeOf(p) = kept.fee /\ p.purpose = kept.purpose /\ p.notes = kept.notes
          /\ p.parts = kept.parts
      BY <1>3, <1>4, <1>5, <1>7, <1>8, <1>9, <1>10, <1>12, <2>1
    <3>2. kept.partner =
            IF Moves(p) /\ kept.partner # NoPartner
            THEN [on |-> p.to, amount |-> IF p.dest = 0 THEN p.amount ELSE p.dest,
                  currency |-> IF p.destHint = Unset THEN p.hint ELSE p.destHint,
                  dest |-> p.dest, destHint |-> p.destHint]
            ELSE NoPartner
      BY <1>4, <1>12, <2>3, <2>7
    <3>. QED  BY <1>8, <3>1, <3>2, SameFields
  <2>. QED  BY <1>2, <2>5
<1>13. CASE Moves(r) /\ Linked(q, then)
  <2>1. /\ kept.from = (IF q.from \in Tracked(then) THEN q.to ELSE q.from)
        /\ kept.to = (IF q.from \in Tracked(then) THEN q.from ELSE q.to)
        /\ kept.partner = NoPartner
    BY <1>13, <1>14 DEF MadeOf
  <2>2. q.from # q.to
    BY <1>1, <1>3, <1>13 DEF Accepted, TransferAccepted
  <2>3. kept.to = r.to
    BY <1>3, <1>9, <2>1, <2>2
  <2>4. SamePayload(p, kept)
    <3>1. /\ p.type = kept.type /\ (IF Moves(p) THEN Unset ELSE p.kind) = kept.kind
          /\ p.from = kept.from /\ p.to = kept.to /\ p.amount = kept.amount
          /\ p.hint = kept.currency /\ p.dest = kept.dest /\ p.destHint = kept.destHint
          /\ FeeOf(p) = kept.fee /\ p.purpose = kept.purpose /\ p.notes = kept.notes
          /\ p.parts = kept.parts
      BY <1>3, <1>4, <1>5, <1>7, <1>8, <1>9, <1>10, <1>13, <2>3
    <3>. QED  BY <1>8, <2>1, <3>1, SameFields
  <2>. QED  BY <1>2, <2>4
<1>. QED  BY <1>11, <1>12, <1>13

\* A request that agrees with a row would have made that row, but for the value of
\* the tracked account.
LEMMA SameMakesTheSame ==
  ASSUME NEW q, IsRequest(q), NEW then, Accepted(q, then), NEW kept, kept = RecordOf(q, then),
         NEW p, IsRequest(p), SamePayload(p, kept), NEW anew, anew = RecordOf(p, then)
  PROVE  anew = [kept EXCEPT !.value = anew.value]
<1>10. MadeOf(q, then, kept) /\ MadeOf(p, then, anew)
  BY RecordFields
<1>1. IsRecord(kept) /\ IsRecord(anew)
  BY <1>10 DEF MadeOf
<1>2. /\ p.type = kept.type /\ (IF Moves(p) THEN Unset ELSE p.kind) = kept.kind
      /\ p.from = kept.from /\ p.to = kept.to /\ p.amount = kept.amount
      /\ p.hint = kept.currency /\ p.dest = kept.dest /\ p.destHint = kept.destHint
      /\ FeeOf(p) = kept.fee /\ p.purpose = kept.purpose /\ p.notes = kept.notes
      /\ p.parts = kept.parts
      /\ kept.partner =
           IF Moves(p) /\ kept.partner # NoPartner
           THEN [on |-> p.to, amount |-> IF p.dest = 0 THEN p.amount ELSE p.dest,
                 currency |-> IF p.destHint = Unset THEN p.hint ELSE p.destHint,
                 dest |-> p.dest, destHint |-> p.destHint]
           ELSE NoPartner
  BY <1>1, SameFields
<1>3. kept.type = q.type /\ Moves(p) = Moves(q)
  BY <1>2, <1>10 DEF Moves, MadeOf
<1>4. Text(p.notes) = kept.notes
  BY <1>2, <1>10 DEF Text, MadeOf
<1>5. anew.type = kept.type /\ anew.amount = kept.amount /\ anew.notes = kept.notes
      /\ anew.currency = CurrencyOf[kept.from]
  BY <1>2, <1>4, <1>10 DEF MadeOf
<1>6. kept.currency = CurrencyOf[q.from]
  BY <1>10 DEF MadeOf
<1>7. CASE ~Moves(q)
  <2>1. kept.from = q.from /\ kept.to = q.to /\ kept.fee = NoFee /\ kept.purpose = Unset
        /\ kept.dest = 0 /\ kept.destHint = Unset /\ kept.partner = NoPartner
    <3>1. ~Linked(q, then)
      BY <1>7 DEF Linked
    <3>. QED  BY <1>7, <1>10, <3>1 DEF MadeOf
  <2>2. /\ anew.kind = p.kind /\ anew.parts = p.parts /\ anew.fee = NoFee /\ anew.purpose = Unset
        /\ anew.from = p.from /\ anew.to = p.to /\ anew.dest = 0 /\ anew.destHint = Unset
        /\ anew.partner = NoPartner
    <3>1. ~Linked(p, then) /\ ~Moves(p)
      BY <1>3, <1>7 DEF Linked
    <3>. QED  BY <1>10, <3>1 DEF MadeOf
  <2>3. anew.kind = kept.kind
    BY <1>2, <1>3, <1>7, <2>2
  <2>. QED  BY <1>1, <1>2, <1>5, <1>6, <2>1, <2>2, <2>3 DEF IsRecord
<1>8. CASE Moves(q) /\ ~Linked(q, then)
  <2>1. /\ kept.from = q.from /\ kept.to = q.to /\ kept.kind = Unset /\ kept.parts = <<>>
        /\ kept.partner =
             [on |-> q.to, amount |-> IF q.dest = 0 THEN q.amount ELSE q.dest,
              currency |-> CurrencyOf[q.to], dest |-> q.dest, destHint |-> q.destHint]
        /\ kept.dest = q.dest /\ kept.destHint = q.destHint /\ kept.amount = q.amount
    BY <1>8, <1>10 DEF MadeOf
  <2>2. ~Linked(p, then)
    BY <1>2, <1>3, <1>8, <2>1 DEF Linked
  <2>3. /\ anew.from = p.from /\ anew.to = p.to /\ anew.kind = Unset /\ anew.parts = <<>>
        /\ anew.fee = FeeOf(p) /\ anew.purpose = p.purpose
        /\ anew.partner =
             [on |-> p.to, amount |-> IF p.dest = 0 THEN p.amount ELSE p.dest,
              currency |-> CurrencyOf[p.to], dest |-> p.dest, destHint |-> p.destHint]
        /\ anew.dest = p.dest /\ anew.destHint = p.destHint
    BY <1>3, <1>8, <1>10, <2>2 DEF MadeOf
  <2>4. anew.partner = kept.partner
    BY <1>2, <2>1, <2>3
  <2>. QED  BY <1>1, <1>2, <1>5, <1>6, <2>1, <2>3, <2>4 DEF IsRecord
<1>9. CASE Moves(q) /\ Linked(q, then)
  <2>1. /\ kept.from = (IF q.from \in Tracked(then) THEN q.to ELSE q.from)
        /\ kept.to = (IF q.from \in Tracked(then) THEN q.from ELSE q.to)
        /\ kept.partner = NoPartner /\ kept.dest = 0 /\ kept.destHint = Unset
        /\ kept.kind = Unset /\ kept.parts = <<>>
    BY <1>9, <1>10 DEF MadeOf
  <2>2. ~({q.from, q.to} \subseteq Tracked(then)) /\ ~Crosses(q.from, q.to)
    BY <1>9 DEF Accepted, TransferAccepted
  <2>3. {p.from, p.to} = {q.from, q.to} /\ p.from \notin Tracked(then)
    BY <1>2, <1>9, <2>1, <2>2 DEF Linked
  <2>4. Linked(p, then)
    BY <1>3, <1>9, <2>3 DEF Linked
  <2>5. /\ anew.from = p.from /\ anew.to = p.to /\ anew.kind = Unset /\ anew.parts = <<>>
        /\ anew.fee = FeeOf(p) /\ anew.purpose = p.purpose
        /\ anew.partner = NoPartner /\ anew.dest = 0 /\ anew.destHint = Unset
    BY <1>3, <1>9, <1>10, <2>3, <2>4 DEF MadeOf
  <2>6. anew.currency = kept.currency
    BY <1>5, <1>6, <2>1, <2>2 DEF Crosses
  <2>. QED  BY <1>1, <1>2, <1>5, <2>1, <2>5, <2>6 DEF IsRecord
<1>. QED  BY <1>7, <1>8, <1>9

-----------------------------------------------------------------------------
(* The inductive invariant. *)

\* The row of a key is what its request made of the accounts as they were then.
RowsTellRequests ==
  /\ DOMAIN stored = ReplayKeys /\ DOMAIN sent = ReplayKeys
  /\ \A k \in ReplayKeys : stored[k] # Unset =>
       LET r == sent[k].request
           then == sent[k].accounts
       IN /\ IsRequest(r) /\ PurposeAllowed(r) /\ Accepted(Resolved(r, then), then)
          /\ stored[k] = RecordOf(Resolved(r, then), then)

\* An answer is the verdict on the accounts as they are.
AnswerIsVerdict ==
  LET k == answer.key
      r == answer.of
  IN answer.is \notin {"none", "created"} =>
       /\ k \in ReplayKeys /\ stored[k] # Unset /\ IsRequest(r)
       /\ \/ answer.is = "refused" /\ (~ReferencesLive(r, account) \/ ~PurposeAllowed(r))
          \/ answer.is = Verdict(k, r)

ReplayInv == RowsTellRequests /\ AnswerIsVerdict

LEMMA VariantsAreRequests ==
  ASSUME NEW r, IsRequest(r), NEW v \in Variants(r)
  PROVE  IsRequest(v)
<1>1. PICK type, kind, from, to, amount, hint, dest, destHint, fee, feeOn, purpose, notes, value, parts :
        r = [type |-> type, kind |-> kind, from |-> from, to |-> to, amount |-> amount,
             hint |-> hint, dest |-> dest, destHint |-> destHint, fee |-> fee, feeOn |-> feeOn,
             purpose |-> purpose, notes |-> notes, value |-> value, parts |-> parts]
  BY DEF IsRequest
<1>2. from \in AccountIds /\ (type = "transfer" => to \in AccountIds)
  BY <1>1 DEF IsRequest, Moves
<1>3. \/ v = r
      \/ \E n : v = [r EXCEPT !.amount = n]
      \/ \E n : v = [r EXCEPT !.hint = n]
      \/ \E n : v = [r EXCEPT !.notes = n]
      \/ \E n : v = [r EXCEPT !.value = n]
      \/ \E n : v = [r EXCEPT !.parts = n]
      \/ \E n : v = [r EXCEPT !.purpose = n]
      \/ \E n : v = [r EXCEPT !.feeOn = n]
      \/ \E n : v = [r EXCEPT !.fee = n]
      \/ \E n, m : v = [r EXCEPT !.dest = n, !.destHint = m]
      \/ \E n : \E a \in AccountIds : v = [r EXCEPT !.kind = n, !.to = a]
      \/ \E a \in AccountIds : v = [r EXCEPT !.to = a]
  BY DEF Variants
<1>4. ASSUME NEW t, t \in AccountIds \/ t = to,
             NEW k, NEW n, NEW c, NEW d, NEW h, NEW f, NEW b, NEW p, NEW x, NEW w, NEW s
      PROVE  IsRequest([type |-> type, kind |-> k, from |-> from, to |-> t, amount |-> n, hint |-> c,
                        dest |-> d, destHint |-> h, fee |-> f, feeOn |-> b, purpose |-> p,
                        notes |-> x, value |-> w, parts |-> s])
  BY <1>2, <1>4 DEF IsRequest, Moves
<1>5. \E t, k, n, c, d, h, f, b, p, x, w, s :
        /\ t \in AccountIds \/ t = to
        /\ v = [type |-> type, kind |-> k, from |-> from, to |-> t, amount |-> n, hint |-> c,
                dest |-> d, destHint |-> h, fee |-> f, feeOn |-> b, purpose |-> p,
                notes |-> x, value |-> w, parts |-> s]
  <2>1. CASE v = r
    BY <1>1, <2>1
  <2>2. CASE \E n : v = [r EXCEPT !.amount = n]
    BY <1>1, <2>2
  <2>3. CASE \E n : v = [r EXCEPT !.hint = n]
    BY <1>1, <2>3
  <2>4. CASE \E n : v = [r EXCEPT !.notes = n]
    BY <1>1, <2>4
  <2>5. CASE \E n : v = [r EXCEPT !.value = n]
    BY <1>1, <2>5
  <2>6. CASE \E n : v = [r EXCEPT !.parts = n]
    BY <1>1, <2>6
  <2>7. CASE \E n : v = [r EXCEPT !.purpose = n]
    BY <1>1, <2>7
  <2>8. CASE \E n : v = [r EXCEPT !.feeOn = n]
    BY <1>1, <2>8
  <2>9. CASE \E n : v = [r EXCEPT !.fee = n]
    BY <1>1, <2>9
  <2>10. CASE \E n, m : v = [r EXCEPT !.dest = n, !.destHint = m]
    BY <1>1, <2>10
  <2>11. CASE \E n : \E a \in AccountIds : v = [r EXCEPT !.kind = n, !.to = a]
    <3>1. PICK n : \E a \in AccountIds : v = [r EXCEPT !.kind = n, !.to = a]
      BY <2>11
    <3>3. PICK a \in AccountIds : v = [r EXCEPT !.kind = n, !.to = a]
      BY <3>1
    <3>2. v = [type |-> type, kind |-> n, from |-> from, to |-> a, amount |-> amount, hint |-> hint,
               dest |-> dest, destHint |-> destHint, fee |-> fee, feeOn |-> feeOn,
               purpose |-> purpose, notes |-> notes, value |-> value, parts |-> parts]
      BY <1>1, <3>3
    <3>. QED  BY <3>2
  <2>12. CASE \E a \in AccountIds : v = [r EXCEPT !.to = a]
    <3>1. PICK a \in AccountIds : v = [r EXCEPT !.to = a]
      BY <2>12
    <3>2. v = [type |-> type, kind |-> kind, from |-> from, to |-> a, amount |-> amount, hint |-> hint,
               dest |-> dest, destHint |-> destHint, fee |-> fee, feeOn |-> feeOn,
               purpose |-> purpose, notes |-> notes, value |-> value, parts |-> parts]
      BY <1>1, <3>1
    <3>. QED  BY <3>2
  <2>. QED  BY <1>3, <2>1, <2>2, <2>3, <2>4, <2>5, <2>6, <2>7, <2>8, <2>9, <2>10, <2>11, <2>12
<1>. QED  BY <1>4, <1>5

LEMMA FormsAreRequests ==
  ASSUME NEW f \in EnteredForms, NEW acc
  PROVE  IsRequest(Sent(f, acc))
<1>1. f.from \in AccountIds /\ (Moves(f) => f.to \in AccountIds)
  <2>1. CASE f \in Moved
    <3>. DEFINE Form(pair, n, d, fee, b) ==
                  [Blank("transfer", pair[1], n) EXCEPT !.to = pair[2], !.dest = d, !.fee = fee,
                                                        !.bearer = b]
                Pairs == {p \in AccountIds \X AccountIds : p[1] # p[2]}
                Far == {0} \cup Sums
                Bearers == {Unset} \cup AccountIds
    <3>3. Moved = {Form(pair, n, d, fee, b) :
                  pair \in Pairs, n \in Sums, d \in Far, fee \in {0, 1}, b \in Bearers}
      BY DEF Moved
    <3>4. \A pair \in Pairs : pair[1] \in AccountIds /\ pair[2] \in AccountIds
      OBVIOUS
    <3>. HIDE DEF Form, Pairs, Far, Bearers
    <3>1. PICK pair \in Pairs, n \in Sums, d \in Far, fee \in {0, 1}, b \in Bearers :
            f = Form(pair, n, d, fee, b)
      BY <2>1, <3>3
    <3>2. pair[1] \in AccountIds /\ pair[2] \in AccountIds
      BY <3>4
    <3>. QED  BY <3>1, <3>2 DEF Blank, Form
  <2>2. CASE f \in Entries
    <3>1. CASE \E type \in {"expense", "income"}, from \in AccountIds, n \in Sums :
                 f = Blank(type, from, n)
      BY <3>1 DEF Blank, Moves
    <3>2. CASE \E from \in AccountIds, n \in Sums :
                 f = [Blank("expense", from, 2 * n) EXCEPT !.parts = <<n, n>>]
      BY <3>2 DEF Blank, Moves
    <3>. QED  BY <2>2, <3>1, <3>2 DEF Entries
  <2>. QED  BY <2>1, <2>2 DEF EnteredForms
<1>2. PICK dest, destHint, fee, feeOn, purpose, value, parts :
        Payload(f, acc) =
          [type |-> f.type, kind |-> "standard", from |-> f.from, to |-> f.to, amount |-> f.amount,
           hint |-> CurrencyOf[f.from], dest |-> dest, destHint |-> destHint, fee |-> fee,
           feeOn |-> feeOn, purpose |-> purpose, notes |-> Unset, value |-> value, parts |-> parts]
  BY DEF Payload
<1>3. Sent(f, acc) =
        [type |-> f.type, kind |-> "standard", from |-> f.from, to |-> f.to, amount |-> f.amount,
         hint |-> DefaultCurrency, dest |-> dest, destHint |-> destHint, fee |-> fee,
         feeOn |-> feeOn, purpose |-> purpose, notes |-> Unset, value |-> value, parts |-> parts]
  BY <1>2 DEF Sent
<1>. QED  BY <1>1, <1>3 DEF IsRequest, Moves

LEMMA ReplayInitSound == ReplayInit => ReplayInv
BY DEF ReplayInit, ReplayInv, RowsTellRequests, AnswerIsVerdict, NoAnswer

LEMMA StoreFirstKeeps ==
  ASSUME ReplayInv, NEW k \in ReplayKeys, NEW r, IsRequest(r), StoreFirst(k, r)
  PROVE  ReplayInv'
<1>1. PICK kept : kept = RecordOf(Resolved(r, account), account)
  OBVIOUS
<1>2. PICK mine : mine = [request |-> r, accounts |-> account]
  OBVIOUS
<1>3. /\ PurposeAllowed(r) /\ Accepted(Resolved(r, account), account)
      /\ stored' = [stored EXCEPT ![k] = kept] /\ sent' = [sent EXCEPT ![k] = mine]
      /\ answer'.is = "created"
  BY <1>1, <1>2 DEF StoreFirst, Answered
<1>4. mine.request = r /\ mine.accounts = account
  BY <1>2
<1>5. DOMAIN stored' = ReplayKeys /\ DOMAIN sent' = ReplayKeys
  BY <1>3 DEF ReplayInv, RowsTellRequests
<1>6. ASSUME NEW j \in ReplayKeys, stored'[j] # Unset
      PROVE  /\ IsRequest(sent'[j].request) /\ PurposeAllowed(sent'[j].request)
             /\ Accepted(Resolved(sent'[j].request, sent'[j].accounts), sent'[j].accounts)
             /\ stored'[j] = RecordOf(Resolved(sent'[j].request, sent'[j].accounts), sent'[j].accounts)
  <2>1. CASE j = k
    <3>1. sent'[j] = mine /\ stored'[j] = kept
      BY <1>3, <2>1 DEF ReplayInv, RowsTellRequests
    <3>. QED  BY <1>1, <1>3, <1>4, <3>1
  <2>2. CASE j # k
    <3>1. sent'[j] = sent[j] /\ stored'[j] = stored[j]
      BY <1>3, <2>2 DEF ReplayInv, RowsTellRequests
    <3>. QED  BY <1>6, <3>1 DEF ReplayInv, RowsTellRequests
  <2>. QED  BY <2>1, <2>2
<1>. QED  BY <1>3, <1>5, <1>6 DEF ReplayInv, RowsTellRequests, AnswerIsVerdict

LEMMA AnswerKeeps ==
  ASSUME ReplayInv, NEW k \in ReplayKeys, NEW r, IsRequest(r), CallAgain(k, r) \/ Rescued(k, r)
  PROVE  ReplayInv'
<1>1. UNCHANGED <<account, stored, sent>> /\ stored[k] # Unset
  BY DEF CallAgain, Rescued, Comes
<1>2. PICK is : /\ answer' = [is |-> is, of |-> r, key |-> k]
                /\ \/ is = "refused" /\ (~ReferencesLive(r, account) \/ ~PurposeAllowed(r))
                   \/ is = Verdict(k, r)
  BY DEF CallAgain, Rescued, Answered
<1>3. answer'.is = is /\ answer'.of = r /\ answer'.key = k
  BY <1>2
<1>4. RowsTellRequests'
  BY <1>1 DEF ReplayInv, RowsTellRequests
<1>5. AnswerIsVerdict'
  BY <1>1, <1>2, <1>3 DEF AnswerIsVerdict, Verdict
<1>. QED  BY <1>4, <1>5 DEF ReplayInv

LEMMA ReplayNextKeeps == ReplayInv /\ [ReplayNext]_replayVars => ReplayInv'
<1>. SUFFICES ASSUME ReplayInv, [ReplayNext]_replayVars PROVE ReplayInv'
  OBVIOUS
<1>1. ASSUME NEW k \in ReplayKeys, NEW f \in EnteredForms, NEW r \in Variants(Sent(f, account)),
             StoreFirst(k, r)
      PROVE  ReplayInv'
  BY <1>1, FormsAreRequests, VariantsAreRequests, StoreFirstKeeps
<1>2. ASSUME NEW k \in ReplayKeys, stored[k] # Unset, NEW r \in Variants(sent[k].request),
             CallAgain(k, r) \/ Rescued(k, r)
      PROVE  ReplayInv'
  <2>1. IsRequest(r)
    BY <1>2, VariantsAreRequests DEF ReplayInv, RowsTellRequests
  <2>. QED  BY <1>2, <2>1, AnswerKeeps
<1>3. ASSUME NEW a \in AccountIds, Relabel(a) \/ Track(a) \/ Close(a)
      PROVE  ReplayInv'
  <2>1. UNCHANGED <<stored, sent>> /\ answer' = NoAnswer
    BY <1>3 DEF Relabel, Track, Close, Change
  <2>2. RowsTellRequests'
    BY <2>1 DEF ReplayInv, RowsTellRequests
  <2>. QED  BY <2>1, <2>2 DEF ReplayInv, AnswerIsVerdict, NoAnswer
<1>4. CASE UNCHANGED replayVars
  BY <1>4 DEF replayVars, ReplayInv, RowsTellRequests, AnswerIsVerdict, Verdict
<1>. QED  BY <1>1, <1>2, <1>3, <1>4 DEF ReplayNext

LEMMA AnswersFollow == ReplayInv => SameIsReplayed
<1>. SUFFICES ASSUME ReplayInv PROVE SameIsReplayed
  OBVIOUS
<1>1. PICK k, r, is : k = answer.key /\ r = answer.of /\ is = answer.is
  OBVIOUS
<1>2. CASE is \in {"none", "created"}
  BY <1>1, <1>2 DEF SameIsReplayed, Again, AnsweredAs
<1>3. CASE is \notin {"none", "created"}
  <2>1. /\ k \in ReplayKeys /\ stored[k] # Unset /\ IsRequest(r)
        /\ \/ is = "refused" /\ (~ReferencesLive(r, account) \/ ~PurposeAllowed(r))
           \/ is = Verdict(k, r)
    BY <1>1, <1>3 DEF ReplayInv, AnswerIsVerdict
  <2>2. PICK q, then : q = sent[k].request /\ then = sent[k].accounts
    OBVIOUS
  <2>3. /\ IsRequest(q) /\ PurposeAllowed(q) /\ Accepted(Resolved(q, then), then)
        /\ stored[k] = RecordOf(Resolved(q, then), then)
    BY <2>1, <2>2 DEF ReplayInv, RowsTellRequests
  <2>4. ASSUME r = q
        PROVE  \/ is = "replayed"
               \/ is = "refused" /\ ~ReferencesLive(r, account)
               \/ is = "conflict" /\ (LostInTheRow(r, stored[k]) \/ DerivedAnew(k, r))
    <3>1. CASE ~LostInTheRow(r, stored[k]) /\ ~DerivedAnew(k, r)
      <4>1. SamePayload(Resolved(r, account), stored[k])
        BY <2>2, <2>3, <2>4, <3>1, ComesBackTheSame DEF DerivedAnew
      <4>2. Verdict(k, r) = "replayed"
        BY <4>1 DEF Verdict
      <4>3. PurposeAllowed(r)
        BY <2>3, <2>4
      <4>. QED  BY <2>1, <4>2, <4>3
    <3>2. CASE LostInTheRow(r, stored[k]) \/ DerivedAnew(k, r)
      <4>1. Verdict(k, r) \in {"replayed", "conflict"}
        BY DEF Verdict
      <4>2. PurposeAllowed(r)
        BY <2>3, <2>4
      <4>. QED  BY <2>1, <3>2, <4>1, <4>2
    <3>. QED  BY <3>1, <3>2
  <2>5. ASSUME is = "replayed"
        PROVE  \E accounts \in {account, then} :
                 RecordOf(Resolved(r, account), accounts)
                   = [stored[k] EXCEPT !.value = RecordOf(Resolved(r, account), accounts).value]
    <3>1. SamePayload(Resolved(r, account), stored[k])
      BY <2>1, <2>5 DEF Verdict
    <3>2. IsRequest(Resolved(r, account)) /\ IsRequest(Resolved(q, then))
      BY <2>1, <2>3, ResolvedFields
    <3>3. RecordOf(Resolved(r, account), then)
            = [stored[k] EXCEPT !.value = RecordOf(Resolved(r, account), then).value]
      BY <2>3, <3>1, <3>2, SameMakesTheSame
    <3>. QED  BY <3>3
  <2>. QED  BY <1>1, <2>2, <2>4, <2>5 DEF SameIsReplayed, Again, AnsweredAs
<1>. QED  BY <1>2, <1>3

\* A request that is sent again is answered with its row, whatever path it takes,
\* unless the row has lost something of it, the ledger derives something otherwise
\* by now, or an account is gone; and whoever is answered with a row would have made
\* that row (replayIdempotentTransaction): for any accounts, types, currencies, sums
\* and keys, and any number of changes in between.
THEOREM ResendsAreKnown == ReplaySpec => []SameIsReplayed
<1>1. ReplaySpec => []ReplayInv
  BY ReplayInitSound, ReplayNextKeeps, PTL DEF ReplaySpec
<1>. QED  BY <1>1, AnswersFollow, PTL


-----------------------------------------------------------------------------
(* The dialog: what its form may hold that does not show.                   *)

Tabs == {"expense", "income", "transfer"}

FormShape(f) ==
  /\ f = [type |-> f.type, from |-> f.from, to |-> f.to, amount |-> f.amount, dest |-> f.dest,
          fee |-> f.fee, bearer |-> f.bearer, purpose |-> f.purpose, value |-> f.value,
          category |-> f.category, notes |-> f.notes, status |-> f.status]
  /\ f.type \in Tabs /\ f.from \in AccountIds \cup {Unset} /\ f.to \in AccountIds \cup {Unset}
  /\ f.amount \in Nat /\ f.dest \in Nat /\ f.fee \in Nat /\ f.value \in Nat

\* The tab parts with the form only after a submit, which resets the form and the split.
\* The other account outlives its tab in the edit of a liability fee alone, and a category
\* that of a transfer that was filed under it.
Hidden ==
  /\ window.tab # form.type => form.type = "expense" /\ (Transferring => ~window.split)
  /\ ~Transferring => form.to = Unset \/ EditsLiabilityFee
  /\ Transferring /\ form.category # Unset => EditsFiledTransfer

\* An edit that nothing was entered into is as it was opened.
AsOpened ==
  window.edits # NotAnEdit =>
    /\ \E l \in Ledgered : window.edits = ListedRow(l)
    /\ inputs = 0 =>
         LET shown == Edited(window.edits) IN
         /\ form = shown.form /\ lines = shown.lines
         /\ window.split = shown.split /\ window.tab = window.edits.type

DialogInv ==
  /\ window = [open |-> window.open, tab |-> window.tab, split |-> window.split,
               edits |-> window.edits, default |-> window.default]
  /\ window.tab \in Tabs /\ window.split \in BOOLEAN
  /\ window.default \in AccountIds \cup {Unset}
  /\ FormShape(form) /\ inputs \in Nat
  /\ Hidden /\ AsOpened /\ WhatShowsIsBooked /\ UntouchedEditKeepsTheRow

-----------------------------------------------------------------------------
(* Conversion.                                                              *)

\* A multiple divides without a rest.
LEMMA ExactQuotient ==
  ASSUME NEW q \in Int, NEW d \in Nat \ {0}
  PROVE  (q * d) \div d = q /\ (q * d) % d = 0
OBVIOUS

\* Nothing is nothing in every currency, and what converts is not nothing.
LEMMA MinorOfSome ==
  ASSUME NEW n \in Nat, NEW c \in DOMAIN ScaleOf
  PROVE  /\ Minor(0, c) = 0
         /\ n # 0 /\ Exact(n, c) => Minor(n, c) # 0
         /\ Minor(n, c) \in Int
<1>1. ScaleOf[c] \in Nat \ {0} /\ Finest \in Nat \ {0}
  BY DialogAssumption
<1>2. 0 * ScaleOf[c] = 0 /\ 0 \div Finest = 0
  BY <1>1
<1>3. n * ScaleOf[c] \in Nat /\ (n # 0 => n * ScaleOf[c] # 0)
  BY <1>1
<1>. DEFINE m == n * ScaleOf[c]
<1>4. m \in Nat /\ (n # 0 => m # 0) /\ m \div Finest \in Int
  BY <1>1, <1>3
<1>5. m = Finest * (m \div Finest) + (m % Finest)
  <2>. HIDE DEF m
  <2>. QED  BY <1>1, <1>4
<1>6. n # 0 /\ m % Finest = 0 => m \div Finest # 0
  <2>. HIDE DEF m
  <2>. QED  BY <1>1, <1>4, <1>5
<1>. QED  BY <1>2, <1>4, <1>6 DEF Minor, Exact

\* What the form shows of an amount is the amount, in the same currency.
LEMMA ShownIsMinor ==
  ASSUME NEW n \in Nat, NEW c \in DOMAIN ScaleOf
  PROVE  Shown(n, c) \in Nat /\ Minor(Shown(n, c), c) = n
<1>. DEFINE s == ScaleOf[c]
<1>1. PICK k \in 1..Finest : Finest = k * s
  BY DialogAssumption
<1>2. s \in Nat \ {0} /\ k \in Nat /\ Finest \in Nat \ {0}
  BY DialogAssumption
<1>3. Shown(n, c) = n * k
  <2>1. n * Finest = (n * k) * s
    BY <1>1, <1>2
  <2>2. ((n * k) * s) \div s = n * k
    <3>1. n * k \in Int
      BY <1>2
    <3>. HIDE DEF s
    <3>. QED  BY <1>2, <3>1, ExactQuotient
  <2>. QED  BY <2>1, <2>2 DEF Shown
<1>4. Minor(n * k, c) = n
  <2>1. (n * k) * s = n * Finest
    BY <1>1, <1>2
  <2>2. (n * Finest) \div Finest = n
    BY <1>2, ExactQuotient
  <2>. QED  BY <2>1, <2>2 DEF Minor
<1>. QED  BY <1>2, <1>3, <1>4


-----------------------------------------------------------------------------
(* What is sent, and what becomes of it.                                    *)

Feed(value) ==
  LET f == InMinor IN
  [type |-> form.type, kind |-> "standard", from |-> form.from, to |-> form.to, amount |-> f.amount,
   hint |-> DefaultCurrency, dest |-> IF Moves(form) /\ f.dest # 0 THEN f.dest ELSE 0,
   destHint |-> IF Moves(form) /\ f.dest # 0 THEN CurrencyOf[form.to] ELSE Unset,
   fee |-> IF Moves(form) THEN f.fee ELSE 0,
   feeOn |-> IF ~Moves(form) \/ f.fee = 0 THEN Unset ELSE IF form.bearer = Unset THEN form.from ELSE form.bearer,
   purpose |-> SentPurpose(f, AccountsNow), notes |-> Unset, value |-> value,
   parts |-> IF Moves(form) THEN <<>> ELSE f.parts]

LEMMA InMinorFields ==
  /\ InMinor.type = form.type /\ InMinor.from = form.from /\ InMinor.to = form.to
  /\ InMinor.purpose = form.purpose /\ InMinor.bearer = form.bearer
  /\ InMinor.amount = Minor(form.amount, Currency)
  /\ InMinor.dest = Minor(form.dest, IF form.to = Unset THEN Currency ELSE CurrencyOf[form.to])
  /\ InMinor.fee = Minor(form.fee, IF form.bearer = Unset THEN Currency ELSE CurrencyOf[form.bearer])
  /\ InMinor.value = IF form.to = Unset THEN 0 ELSE Minor(form.value, CurrencyOf[TrackedSide])
  /\ InMinor.parts = IF window.split THEN [n \in DOMAIN lines |-> Minor(lines[n], Currency)] ELSE <<>>
BY DEF InMinor

LEMMA SentIsFeed ==
  /\ Sent(InMinor, AccountsNow) = Feed(IF Moves(form) THEN InMinor.value ELSE 0)
  /\ [Sent(InMinor, AccountsNow) EXCEPT !.value = 0] = Feed(0)
<1>. DEFINE f == InMinor
<1>1. /\ f.type = form.type /\ f.from = form.from /\ f.to = form.to /\ f.bearer = form.bearer
      /\ Moves(f) = Moves(form)
  BY InMinorFields DEF Moves
<1>2. Sent(f, AccountsNow) = Feed(IF Moves(form) THEN f.value ELSE 0)
  <2>. HIDE DEF f
  <2>. QED  BY <1>1 DEF Sent, Payload, Feed, f
<1>. QED  BY <1>2 DEF Feed

\* A row that moves nothing.
LEMMA PlainSaid ==
  ASSUME NEW value, ~Moves(form), NEW category, NEW notes, NEW status
  PROVE  LET r == Feed(value) IN
         Said(RecordOf(Resolved(r, AccountsNow), AccountsNow), category, notes, status) =
           [type |-> r.type, accounts |-> {r.from, r.to} \ {Unset}, amount |-> r.amount, arrives |-> 0,
            fee |-> NoFeePaid, purpose |-> Unset, parts |-> r.parts, value |-> 0,
            category |-> category, notes |-> notes, status |-> status, kind |-> r.kind]
<1>. DEFINE r == Feed(value)
<1>1. ~Moves(r)
  BY DEF Feed, Moves
<1>. HIDE DEF r
<1>2. RecordOf(Resolved(r, AccountsNow), AccountsNow) = PlainRecord(r)
  BY <1>1 DEF Resolved, RecordOf, Linked
<1>3. Said(PlainRecord(r), category, notes, status) =
        [type |-> r.type, accounts |-> {r.from, r.to} \ {Unset}, amount |-> r.amount, arrives |-> 0,
         fee |-> NoFeePaid, purpose |-> Unset, parts |-> r.parts, value |-> 0,
         category |-> category, notes |-> notes, status |-> status, kind |-> r.kind]
  BY DEF PlainRecord, Said, NoPartner, NoFee, NoFeePaid
<1>. QED  BY <1>2, <1>3 DEF r

\* A row of a transfer; it says the same of its accounts whichever way it is written.
Bears(r) == IF r.feeOn # Unset THEN r.feeOn ELSE IF r.from \in Tracked(AccountsNow) THEN r.to ELSE r.from
Aims(r) ==
  IF MovesFunds(r) /\ r.purpose = Unset THEN Purpose(r.from, r.to, AccountsNow) ELSE r.purpose

LEMMA TransferSaid ==
  ASSUME NEW value, Moves(form), NEW category, NEW notes, NEW status
  PROVE  LET r == Feed(value) IN
         Said(RecordOf(Resolved(r, AccountsNow), AccountsNow), category, notes, status) =
           [type |-> "transfer", accounts |-> {form.from, form.to} \ {Unset}, amount |-> r.amount,
            arrives |-> IF Linked(r, AccountsNow) THEN 0 ELSE IF r.dest = 0 THEN r.amount ELSE r.dest,
            fee |-> IF r.fee = 0 THEN NoFeePaid ELSE <<r.fee, Bears(r)>>,
            purpose |-> Aims(r), parts |-> <<>>,
            value |-> IF Linked(r, AccountsNow) THEN value ELSE 0,
            category |-> category, notes |-> notes, status |-> status, kind |-> Unset]
<1>. DEFINE r == Feed(value)
            full == Resolved(r, AccountsNow)
            entry == RecordOf(full, AccountsNow)
<1>1. /\ r.type = "transfer" /\ r.from = form.from /\ r.to = form.to /\ r.value = value /\ r.parts = <<>>
      /\ r = [type |-> r.type, kind |-> r.kind, from |-> r.from, to |-> r.to, amount |-> r.amount,
              hint |-> r.hint, dest |-> r.dest, destHint |-> r.destHint, fee |-> r.fee, feeOn |-> r.feeOn,
              purpose |-> r.purpose, notes |-> r.notes, value |-> r.value, parts |-> r.parts]
  BY DEF Feed, Moves
<1>. HIDE DEF r
<1>2. full = [r EXCEPT !.purpose = Aims(r), !.feeOn = IF r.fee # 0 /\ r.feeOn = Unset THEN Bears(r) ELSE r.feeOn]
  BY <1>1 DEF Resolved, Aims, Bears, Moves, MovesFunds
<1>3. /\ full.type = "transfer" /\ full.from = r.from /\ full.to = r.to /\ full.amount = r.amount
      /\ full.dest = r.dest /\ full.fee = r.fee /\ full.value = value /\ full.purpose = Aims(r)
      /\ r.fee # 0 => full.feeOn = Bears(r)
  <2>1. \A x, y : LET e == [r EXCEPT !.purpose = x, !.feeOn = y] IN
          /\ e.type = r.type /\ e.from = r.from /\ e.to = r.to /\ e.amount = r.amount
          /\ e.dest = r.dest /\ e.fee = r.fee /\ e.value = r.value /\ e.purpose = x /\ e.feeOn = y
    BY <1>1
  <2>2. r.fee # 0 => (IF r.fee # 0 /\ r.feeOn = Unset THEN Bears(r) ELSE r.feeOn) = Bears(r)
    BY DEF Bears
  <2>. HIDE DEF full
  <2>. QED  BY <1>1, <1>2, <2>1, <2>2
<1>. HIDE DEF full
<1>4. Linked(full, AccountsNow) = Linked(r, AccountsNow) /\ Moves(full)
  BY <1>1, <1>3 DEF Linked, Moves
<1>5. FeeOf(full) = IF r.fee = 0 THEN NoFee ELSE [amount |-> r.fee, on |-> Bears(r)]
  BY <1>3 DEF FeeOf
<1>6. (IF FeeOf(full) = NoFee THEN NoFeePaid ELSE <<FeeOf(full).amount, FeeOf(full).on>>)
        = IF r.fee = 0 THEN NoFeePaid ELSE <<r.fee, Bears(r)>>
  BY <1>5 DEF NoFee
<1>7. CASE Linked(r, AccountsNow)
  <2>1. entry = LinkedRecord(full, AccountsNow)
    BY <1>4, <1>7 DEF RecordOf
  <2>2. /\ entry.type = "transfer" /\ entry.kind = Unset /\ entry.amount = r.amount
        /\ {entry.from, entry.to} = {r.from, r.to} /\ entry.partner = NoPartner
        /\ entry.fee = FeeOf(full) /\ entry.purpose = Aims(r) /\ entry.parts = <<>> /\ entry.value = value
    BY <1>3, <2>1 DEF LinkedRecord, PlainRecord
  <2>3. entry.partner.amount = 0
    <3>. HIDE DEF entry
    <3>. QED  BY <2>2 DEF NoPartner
  <2>4. {entry.from, entry.to} \ {Unset} = {form.from, form.to} \ {Unset}
    <3>. HIDE DEF entry
    <3>1. {entry.from, entry.to} = {r.from, r.to}
      BY <2>2
    <3>2. {r.from, r.to} = {form.from, form.to}
      BY <1>1
    <3>. QED  BY <3>1, <3>2
  <2>. HIDE DEF entry
  <2>. QED  BY <1>6, <1>7, <2>2, <2>3, <2>4 DEF Said, r, full, entry
<1>8. CASE ~Linked(r, AccountsNow)
  <2>1. entry = ClassicRecord(full)
    BY <1>4, <1>8 DEF RecordOf
  <2>2. /\ entry.type = "transfer" /\ entry.kind = Unset /\ entry.amount = r.amount
        /\ entry.from = r.from /\ entry.to = r.to
        /\ entry.partner.amount = (IF r.dest = 0 THEN r.amount ELSE r.dest)
        /\ entry.fee = FeeOf(full) /\ entry.purpose = Aims(r) /\ entry.parts = <<>> /\ entry.value = 0
    BY <1>3, <2>1 DEF ClassicRecord, PlainRecord
  <2>. HIDE DEF entry
  <2>. QED  BY <1>1, <1>6, <1>8, <2>2 DEF Said, r, full, entry
<1>. QED  BY <1>7, <1>8


-----------------------------------------------------------------------------
(* The screen and the row, aspect by aspect.                                *)

LEMMA LeftBehindHas ==
  /\ window.tab # form.type =>
       {"type", "accounts", "arrives", "fee", "purpose", "value", "kind"} \subseteq LeftBehind
  /\ Transferring /\ form.bearer \notin BearerOptions \cup {Unset} => "fee" \in LeftBehind
  /\ form.dest # 0 /\ ~DestShows => "arrives" \in LeftBehind
  /\ CategoryShows /\ form.category # CategoryShown => "category" \in LeftBehind
  /\ Transferring /\ form.notes # Unset => "notes" \in LeftBehind
  /\ EditsLiabilityFee => "accounts" \in LeftBehind
  /\ Transferring /\ EditsFiledTransfer => "category" \in LeftBehind
BY DEF LeftBehind

Aspects == {"type", "accounts", "amount", "arrives", "fee", "purpose", "parts", "value",
            "category", "notes", "status", "kind"}

LEMMA ScreenAspects ==
  /\ DOMAIN OnScreen = Aspects
  /\ OnScreen.type = window.tab /\ OnScreen.amount = Minor(form.amount, Currency)
  /\ OnScreen.accounts = IF Transferring THEN {form.from, form.to} ELSE {form.from}
  /\ OnScreen.parts = IF Splitting THEN [n \in DOMAIN lines |-> Minor(lines[n], Currency)] ELSE <<>>
  /\ OnScreen.category = CategoryShown /\ OnScreen.status = form.status
  /\ OnScreen.notes = IF Transferring THEN Unset ELSE form.notes
  /\ OnScreen.kind = IF Transferring THEN Unset ELSE "standard"
  /\ OnScreen.arrives = IF ~Transferring \/ OneTracked THEN 0
                        ELSE IF DestShows /\ form.dest # 0 THEN Minor(form.dest, CurrencyOf[form.to])
                        ELSE Minor(form.amount, Currency)
  /\ OnScreen.fee = IF BothChosen /\ form.fee # 0
                    THEN <<Minor(form.fee, CurrencyOf[BearerShown]), BearerShown>> ELSE NoFeePaid
  /\ OnScreen.purpose = IF PurposeShows
                        THEN IF form.purpose = Unset THEN Purpose(form.from, form.to, AccountsNow)
                             ELSE form.purpose
                        ELSE Unset
  /\ OnScreen.value = IF OneTracked THEN Minor(form.value, CurrencyOf[TrackedSide]) ELSE 0
BY DEF OnScreen, Aspects

\* It is enough to go through the aspects.
LEMMA AspectByAspect ==
  ASSUME NEW said, \A aspect \in Aspects : OnScreen[aspect] = said[aspect] \/ aspect \in LeftBehind
  PROVE  Differs(OnScreen, said) \subseteq LeftBehind
BY ScreenAspects DEF Differs

LEMMA TextsMeet ==
  ASSUME DialogInv
  PROVE  /\ OnScreen.category = SentCategory \/ "category" \in LeftBehind
         /\ OnScreen.notes = form.notes \/ "notes" \in LeftBehind
<1>1. OnScreen.notes = form.notes \/ "notes" \in LeftBehind
  BY ScreenAspects, LeftBehindHas
<1>2. CASE Transferring
  <2>1. CategoryShown = Unset
    BY <1>2 DEF CategoryShown, CategoryShows
  <2>2. SentCategory = Unset \/ EditsFiledTransfer
    BY <1>2 DEF SentCategory, DialogInv, Hidden
  <2>. QED  BY <1>1, <1>2, <2>1, <2>2, ScreenAspects, LeftBehindHas
<1>3. CASE ~Transferring /\ window.split
  BY <1>1, <1>3, ScreenAspects DEF CategoryShown, CategoryShows, Splitting, SentCategory
<1>4. CASE ~Transferring /\ ~window.split
  <2>1. CategoryShows /\ SentCategory = form.category
    BY <1>4 DEF CategoryShows, Splitting, SentCategory
  <2>. QED  BY <1>1, <2>1, ScreenAspects, LeftBehindHas
<1>. QED  BY <1>2, <1>3, <1>4

LEMMA PlainMeets ==
  ASSUME DialogInv, Submittable, ~Moves(form), NEW value
  PROVE  LET said == Said(RecordOf(Resolved(Feed(value), AccountsNow), AccountsNow),
                          SentCategory, form.notes, form.status) IN
         Differs(OnScreen, said) \subseteq LeftBehind
<1>. DEFINE r == Feed(value)
            said == Said(RecordOf(Resolved(r, AccountsNow), AccountsNow), SentCategory, form.notes, form.status)
<1>1. /\ ~Moves(r) /\ r.type = form.type /\ r.from = form.from /\ r.to = form.to /\ r.kind = "standard"
      /\ r.amount = Minor(form.amount, Currency)
      /\ r.parts = IF window.split THEN [n \in DOMAIN lines |-> Minor(lines[n], Currency)] ELSE <<>>
  BY InMinorFields DEF Feed, Moves
<1>2. said = [type |-> r.type, accounts |-> {r.from, r.to} \ {Unset}, amount |-> r.amount, arrives |-> 0,
              fee |-> NoFeePaid, purpose |-> Unset, parts |-> r.parts, value |-> 0,
              category |-> SentCategory, notes |-> form.notes, status |-> form.status, kind |-> r.kind]
  BY PlainSaid
<1>3. /\ said.type = form.type /\ said.amount = Minor(form.amount, Currency) /\ said.arrives = 0
      /\ said.accounts = {form.from, form.to} \ {Unset} /\ said.fee = NoFeePaid
      /\ said.purpose = Unset /\ said.value = 0 /\ said.kind = "standard"
      /\ said.category = SentCategory /\ said.notes = form.notes /\ said.status = form.status
      /\ said.parts = IF window.split THEN [n \in DOMAIN lines |-> Minor(lines[n], Currency)] ELSE <<>>
  <2>. HIDE DEF said, r
  <2>. QED  BY <1>1, <1>2
<1>. HIDE DEF said
<1>4. OnScreen.parts = said.parts
  <2>1. Splitting = (window.split = TRUE)
    BY DEF DialogInv, Hidden, Splitting, Transferring, Moves, Tabs
  <2>. QED  BY <1>3, <2>1, ScreenAspects DEF DialogInv
<1>5. /\ OnScreen.amount = said.amount /\ OnScreen.status = said.status
      /\ OnScreen.category = said.category \/ "category" \in LeftBehind
      /\ OnScreen.notes = said.notes \/ "notes" \in LeftBehind
  BY <1>3, ScreenAspects, TextsMeet
<1>6. CASE window.tab # form.type
  <2>1. \A aspect \in Aspects : OnScreen[aspect] = said[aspect] \/ aspect \in LeftBehind
    BY <1>4, <1>5, <1>6, LeftBehindHas DEF Aspects
  <2>. QED  BY <2>1, AspectByAspect DEF said
<1>7. CASE window.tab = form.type
  <2>1. ~Transferring
    BY <1>7 DEF Transferring, Moves
  <2>2. OnScreen.accounts = said.accounts \/ "accounts" \in LeftBehind
    <3>1. form.from # Unset
      BY DEF Submittable
    <3>2. form.to = Unset \/ EditsLiabilityFee
      BY <2>1 DEF DialogInv, Hidden
    <3>. QED  BY <1>3, <2>1, <3>1, <3>2, ScreenAspects, LeftBehindHas
  <2>3. /\ OnScreen.type = said.type /\ OnScreen.arrives = said.arrives /\ OnScreen.fee = said.fee
        /\ OnScreen.purpose = said.purpose /\ OnScreen.value = said.value /\ OnScreen.kind = said.kind
    <3>1. ~BothChosen /\ ~PurposeShows /\ ~OneTracked
      BY <2>1 DEF BothChosen, PurposeShows, OneTracked
    <3>2. OnScreen.arrives = 0
      BY <2>1, ScreenAspects
    <3>. QED  BY <1>3, <1>7, <2>1, <3>1, <3>2, ScreenAspects
  <2>4. \A aspect \in Aspects : OnScreen[aspect] = said[aspect] \/ aspect \in LeftBehind
    BY <1>4, <1>5, <2>2, <2>3 DEF Aspects
  <2>. QED  BY <2>4, AspectByAspect DEF said
<1>. QED  BY <1>6, <1>7


LEMMA TransferMeets ==
  ASSUME DialogInv, Submittable, Moves(form), NEW value,
         LET full == Resolved(Feed(value), AccountsNow) IN Accepted(full, AccountsNow),
         value = InMinor.value \/ {form.from, form.to} \cap Tracked(AccountsNow) = {}
  PROVE  LET said == Said(RecordOf(Resolved(Feed(value), AccountsNow), AccountsNow),
                          SentCategory, form.notes, form.status) IN
         Differs(OnScreen, said) \subseteq LeftBehind
<1>. DEFINE r == Feed(value)
            full == Resolved(r, AccountsNow)
            said == Said(RecordOf(full, AccountsNow), SentCategory, form.notes, form.status)
            held == Tracked(AccountsNow)
<1>1. Transferring /\ window.tab = form.type /\ form.type = "transfer"
  BY DEF DialogInv, Hidden, Moves, Transferring
<1>2. /\ form.from \in AccountIds /\ form.to \in AccountIds /\ form.from # Unset /\ form.to # Unset
      /\ BothChosen /\ Currency \in DOMAIN ScaleOf /\ CurrencyOf[form.to] \in DOMAIN ScaleOf
  <2>1. form.from \in AccountIds /\ form.to \in AccountIds /\ form.from # Unset /\ form.to # Unset
    BY <1>1 DEF DialogInv, FormShape, Submittable
  <2>. QED  BY <1>1, <2>1, DialogAssumption DEF BothChosen, Currency
<1>3. /\ Moves(r) /\ r.from = form.from /\ r.to = form.to /\ r.amount = InMinor.amount
      /\ r.dest = InMinor.dest /\ r.fee = InMinor.fee /\ r.purpose = SentPurpose(InMinor, AccountsNow)
      /\ r.feeOn = IF InMinor.fee = 0 THEN Unset ELSE IF form.bearer = Unset THEN form.from ELSE form.bearer
  BY DEF Feed, Moves
<1>4. said = [type |-> "transfer", accounts |-> {form.from, form.to} \ {Unset}, amount |-> r.amount,
              arrives |-> IF Linked(r, AccountsNow) THEN 0 ELSE IF r.dest = 0 THEN r.amount ELSE r.dest,
              fee |-> IF r.fee = 0 THEN NoFeePaid ELSE <<r.fee, Bears(r)>>,
              purpose |-> Aims(r), parts |-> <<>>,
              value |-> IF Linked(r, AccountsNow) THEN value ELSE 0,
              category |-> SentCategory, notes |-> form.notes, status |-> form.status, kind |-> Unset]
  BY TransferSaid
<1>5. /\ said.type = "transfer" /\ said.accounts = {form.from, form.to} \ {Unset} /\ said.amount = r.amount
      /\ said.arrives = (IF Linked(r, AccountsNow) THEN 0 ELSE IF r.dest = 0 THEN r.amount ELSE r.dest)
      /\ said.fee = (IF r.fee = 0 THEN NoFeePaid ELSE <<r.fee, Bears(r)>>)
      /\ said.purpose = Aims(r) /\ said.parts = <<>>
      /\ said.value = (IF Linked(r, AccountsNow) THEN value ELSE 0)
      /\ said.category = SentCategory /\ said.notes = form.notes /\ said.status = form.status
      /\ said.kind = Unset
  <2>. HIDE DEF said, r
  <2>. QED  BY <1>4
<1>. HIDE DEF said
\* The server takes no transfer between two tracked accounts, and no fee on one.
<1>6. /\ ~(form.from \in held /\ form.to \in held)
      /\ r.fee # 0 => Bears(r) \notin held
  <2>1. /\ full.from = r.from /\ full.to = r.to /\ full.fee = r.fee /\ Moves(full)
        /\ r.fee # 0 => full.feeOn = r.feeOn /\ r.feeOn # Unset
    <3>1. r.fee # 0 => r.feeOn # Unset
      BY <1>2, <1>3
    <3>2. /\ r = [type |-> r.type, kind |-> r.kind, from |-> r.from, to |-> r.to, amount |-> r.amount,
                  hint |-> r.hint, dest |-> r.dest, destHint |-> r.destHint, fee |-> r.fee, feeOn |-> r.feeOn,
                  purpose |-> r.purpose, notes |-> r.notes, value |-> r.value, parts |-> r.parts]
      BY DEF Feed
    <3>. HIDE DEF r
    <3>. QED  BY <1>3, <3>1, <3>2 DEF Resolved, Moves
  <2>. HIDE DEF full, r
  <2>2. TransferAccepted(full, AccountsNow)
    BY <2>1 DEF Accepted, full, r
  <2>. QED  BY <1>3, <2>1, <2>2 DEF TransferAccepted, FeeAccepted, Bears
<1>7. Linked(r, AccountsNow) = OneTracked
  BY <1>2, <1>3, <1>6 DEF Linked, OneTracked
<1>. HIDE DEF full, r
<1>8. /\ OnScreen.type = said.type /\ OnScreen.accounts = said.accounts /\ OnScreen.amount = said.amount
      /\ OnScreen.parts = said.parts /\ OnScreen.status = said.status /\ OnScreen.kind = said.kind
  BY <1>1, <1>2, <1>3, <1>5, ScreenAspects, InMinorFields DEF Splitting
<1>9. /\ OnScreen.category = said.category \/ "category" \in LeftBehind
      /\ OnScreen.notes = said.notes \/ "notes" \in LeftBehind
  BY <1>5, TextsMeet
<1>10. OnScreen.arrives = said.arrives \/ "arrives" \in LeftBehind
  <2>1. /\ r.dest = Minor(form.dest, CurrencyOf[form.to]) /\ r.amount = Minor(form.amount, Currency)
    BY <1>2, <1>3, InMinorFields
  <2>2. Exact(form.dest, CurrencyOf[form.to])
    BY <1>2 DEF Submittable, Converts
  <2>3. form.dest \in Nat /\ (r.dest = 0) = (form.dest = 0)
    BY <1>2, <2>1, <2>2, MinorOfSome DEF DialogInv, FormShape
  <2>4. CASE OneTracked
    BY <1>5, <1>7, <2>4, ScreenAspects
  <2>5. CASE ~OneTracked /\ form.dest = 0
    BY <1>1, <1>5, <1>7, <2>1, <2>3, <2>5, ScreenAspects
  <2>6. CASE ~OneTracked /\ form.dest # 0 /\ DestShows
    BY <1>1, <1>5, <1>7, <2>1, <2>3, <2>6, ScreenAspects
  <2>. QED  BY <2>4, <2>5, <2>6, LeftBehindHas
<1>11. OnScreen.fee = said.fee \/ "fee" \in LeftBehind
  <2>. DEFINE code == IF form.bearer = Unset THEN Currency ELSE CurrencyOf[form.bearer]
  <2>1. SUFFICES ASSUME form.bearer \in BearerOptions \cup {Unset} PROVE OnScreen.fee = said.fee
    BY <1>1, LeftBehindHas
  <2>2. code \in DOMAIN ScaleOf /\ form.fee \in Nat
    BY <1>2, <2>1, DialogAssumption DEF BearerOptions, DialogInv, FormShape
  <2>3. r.fee = Minor(form.fee, code) /\ Exact(form.fee, code)
    BY <1>3, InMinorFields DEF Submittable, Converts
  <2>4. (r.fee = 0) = (form.fee = 0)
    BY <2>2, <2>3, MinorOfSome
  <2>5. ASSUME form.fee # 0
        PROVE  BearerShown = Bears(r) /\ CurrencyOf[BearerShown] = code
    <3>1. r.feeOn = IF form.bearer = Unset THEN form.from ELSE form.bearer
      BY <1>3, <2>4, <2>5
    <3>2. CASE form.bearer = Unset
      <4>1. r.feeOn = form.from /\ Bears(r) = form.from
        BY <1>2, <3>1, <3>2 DEF Bears
      <4>2. form.from \in BearerOptions /\ Unset \notin BearerOptions
        BY <1>2, <1>6, <2>4, <2>5, <4>1 DEF BearerOptions
      <4>. QED  BY <3>2, <4>1, <4>2 DEF BearerShown, Currency
    <3>3. CASE form.bearer # Unset
      BY <2>1, <3>1, <3>3 DEF BearerShown, Bears
    <3>. QED  BY <3>2, <3>3
  <2>6. CASE form.fee = 0
    BY <1>5, <2>4, <2>6, ScreenAspects
  <2>7. CASE form.fee # 0
    BY <1>2, <1>5, <2>3, <2>4, <2>5, <2>7, ScreenAspects
  <2>. QED  BY <2>6, <2>7
<1>12. OnScreen.purpose = said.purpose
  <2>1. /\ PurposeShows = (Kind(form.from, form.to) = "funds_movement")
        /\ MovesFunds(InMinor) = (Kind(form.from, form.to) = "funds_movement")
        /\ MovesFunds(r) = (Kind(form.from, form.to) = "funds_movement")
    BY <1>1, <1>2, <1>3, InMinorFields DEF PurposeShows, MovesFunds, Moves
  <2>. QED  BY <1>3, <1>5, <2>1, ScreenAspects, InMinorFields DEF SentPurpose, Aims
<1>13. OnScreen.value = said.value
  <2>1. CASE OneTracked
    <3>1. value = InMinor.value
      BY <1>2, <2>1 DEF OneTracked
    <3>. QED  BY <1>2, <1>5, <1>7, <2>1, <3>1, ScreenAspects, InMinorFields
  <2>2. CASE ~OneTracked
    BY <1>5, <1>7, <2>2, ScreenAspects
  <2>. QED  BY <2>1, <2>2
<1>14. \A aspect \in Aspects : OnScreen[aspect] = said[aspect] \/ aspect \in LeftBehind
  BY <1>8, <1>9, <1>10, <1>11, <1>12, <1>13 DEF Aspects
<1>. QED  BY <1>14, AspectByAspect DEF said, full, r


-----------------------------------------------------------------------------
(* An edit that changes nothing.                                            *)

LEMMA RowListed ==
  ASSUME NEW l \in Ledgered
  PROVE  LET listed == ListedRow(l)
             said == listed.said IN
         /\ listed.type = l.form.type /\ listed.type \in Tabs
         /\ listed.from \in AccountIds /\ listed.to \in AccountIds \cup {Unset}
         /\ listed.type = "transfer" => listed.to # Unset
         /\ listed.amount \in Nat /\ listed.parts \in Seq(Nat)
         /\ listed.parts # <<>> => listed.category = Unset /\ listed.type # "transfer"
         /\ DOMAIN said = Aspects /\ said.type = listed.type
         /\ said.accounts = {listed.from, listed.to} \ {Unset} /\ said.amount = listed.amount
         /\ said.parts = listed.parts /\ said.category = listed.category /\ said.notes = listed.notes
         /\ {listed.from, listed.to} \cap Tracked(AccountsNow) = {} =>
              /\ said.value = 0
              /\ listed.dest = 0 => said.arrives = IF listed.type = "transfer" THEN listed.amount ELSE 0
<1>. DEFINE f == l.form
            asked == Sent(f, AccountsNow)
            full == Resolved(asked, AccountsNow)
            r == [full EXCEPT !.kind = l.kind]
            entry == RecordOf(r, AccountsNow)
            listed == ListedRow(l)
            said == listed.said
<1>1. /\ f.type \in Tabs /\ f.from \in AccountIds /\ f.to \in AccountIds \cup {Unset}
      /\ f.type = "transfer" => f.to # Unset
      /\ f.amount \in Nat /\ f.parts \in Seq(Nat) /\ (f.parts # <<>> => l.category = Unset)
  BY LedgeredAssumption DEF Tabs
<1>2. /\ asked.type = f.type /\ asked.from = f.from /\ asked.to = f.to /\ asked.amount = f.amount
      /\ asked.parts = IF Moves(f) THEN <<>> ELSE f.parts
      /\ asked = [type |-> asked.type, kind |-> asked.kind, from |-> asked.from, to |-> asked.to,
                 amount |-> asked.amount, hint |-> asked.hint, dest |-> asked.dest,
                 destHint |-> asked.destHint, fee |-> asked.fee, feeOn |-> asked.feeOn,
                 purpose |-> asked.purpose, notes |-> asked.notes, value |-> asked.value,
                 parts |-> asked.parts]
  BY DEF Sent, Payload
<1>. HIDE DEF asked
<1>3. \A x, y, z : LET e == [[asked EXCEPT !.purpose = x, !.feeOn = y] EXCEPT !.kind = z]
                       g == [asked EXCEPT !.kind = z] IN
        /\ e.type = asked.type /\ e.from = asked.from /\ e.to = asked.to /\ e.amount = asked.amount
        /\ e.parts = asked.parts
        /\ g.type = asked.type /\ g.from = asked.from /\ g.to = asked.to /\ g.amount = asked.amount
        /\ g.parts = asked.parts
  BY <1>2
<1>4. r.type = f.type /\ r.from = f.from /\ r.to = f.to /\ r.amount = f.amount
      /\ r.parts = (IF Moves(f) THEN <<>> ELSE f.parts)
  <2>1. \E x, y, z : \/ r = [[asked EXCEPT !.purpose = x, !.feeOn = y] EXCEPT !.kind = z]
                     \/ r = [asked EXCEPT !.kind = z]
    BY DEF Resolved
  <2>. HIDE DEF r
  <2>. QED  BY <1>2, <1>3, <2>1
<1>. HIDE DEF r
<1>5. listed = [from |-> entry.from, to |-> entry.to, type |-> entry.type, amount |-> entry.amount,
             parts |-> entry.parts, category |-> l.category, notes |-> l.notes,
             said |-> Said(entry, l.category, l.notes, l.status), dest |-> entry.dest]
  BY DEF ListedRow, r, asked
<1>6. /\ DOMAIN said = Aspects /\ said.type = entry.type
      /\ said.accounts = {entry.from, entry.to} \ {Unset} /\ said.amount = entry.amount
      /\ said.arrives = entry.partner.amount /\ said.parts = entry.parts /\ said.value = entry.value
      /\ said.category = l.category /\ said.notes = l.notes
  <2>. HIDE DEF entry
  <2>. QED  BY <1>5 DEF Said, Aspects
<1>7. /\ entry.type = f.type /\ entry.amount = f.amount
      /\ entry.parts = IF Moves(f) THEN <<>> ELSE f.parts
      /\ {entry.from, entry.to} = {f.from, f.to} /\ entry.from \in AccountIds
      /\ entry.to \in AccountIds \cup {Unset} /\ (f.type = "transfer" => entry.to # Unset)
      /\ {f.from, f.to} \cap Tracked(AccountsNow) = {} =>
           /\ entry.value = 0
           /\ entry.dest = 0 => entry.partner.amount = IF Moves(f) THEN f.amount ELSE 0
  <2>1. CASE ~Moves(f)
    <3>1. entry = PlainRecord(r)
      BY <1>4, <2>1 DEF RecordOf, Linked, Moves
    <3>. QED  BY <1>1, <1>4, <2>1, <3>1 DEF PlainRecord, NoPartner, Moves
  <2>2. CASE Moves(f) /\ {f.from, f.to} \cap Tracked(AccountsNow) # {}
    <3>1. entry = LinkedRecord(r, AccountsNow)
      BY <1>4, <2>2 DEF RecordOf, Linked, Moves
    <3>2. /\ entry.type = r.type /\ entry.amount = r.amount /\ entry.parts = <<>>
          /\ entry.from = IF r.from \in Tracked(AccountsNow) THEN r.to ELSE r.from
          /\ entry.to = IF r.from \in Tracked(AccountsNow) THEN r.from ELSE r.to
      BY <3>1 DEF LinkedRecord, PlainRecord
    <3>. HIDE DEF entry
    <3>. QED  BY <1>1, <1>4, <2>2, <3>2, UnsetAssumption DEF Moves
  <2>3. CASE Moves(f) /\ {f.from, f.to} \cap Tracked(AccountsNow) = {}
    <3>1. entry = ClassicRecord(r)
      BY <1>4, <2>3 DEF RecordOf, Linked, Moves
    <3>2. /\ entry.type = r.type /\ entry.amount = r.amount /\ entry.parts = <<>>
          /\ entry.from = r.from /\ entry.to = r.to /\ entry.value = 0 /\ entry.dest = r.dest
          /\ entry.partner.amount = IF r.dest = 0 THEN r.amount ELSE r.dest
      BY <3>1 DEF ClassicRecord, PlainRecord
    <3>. HIDE DEF entry
    <3>. QED  BY <1>1, <1>4, <2>3, <3>2 DEF Moves
  <2>. QED  BY <2>1, <2>2, <2>3
<1>. HIDE DEF entry
<1>8. /\ listed.from = entry.from /\ listed.to = entry.to /\ listed.type = entry.type
      /\ listed.amount = entry.amount /\ listed.parts = entry.parts /\ listed.category = l.category
      /\ listed.notes = l.notes /\ listed.dest = entry.dest
  BY <1>5
<1>. HIDE DEF listed, said
<1>9. /\ listed.type = f.type /\ listed.type \in Tabs
      /\ listed.from \in AccountIds /\ listed.to \in AccountIds \cup {Unset}
      /\ listed.type = "transfer" => listed.to # Unset
      /\ listed.amount \in Nat /\ listed.parts \in Seq(Nat)
      /\ listed.parts # <<>> => listed.category = Unset /\ listed.type # "transfer"
  <2>1. <<>> \in Seq(Nat)
    OBVIOUS
  <2>. QED  BY <1>1, <1>7, <1>8, <2>1 DEF Moves
<1>10. {listed.from, listed.to} \cap Tracked(AccountsNow) = {} =>
         /\ said.value = 0
         /\ listed.dest = 0 => said.arrives = IF listed.type = "transfer" THEN listed.amount ELSE 0
  BY <1>6, <1>7, <1>8 DEF Moves
<1>. QED  BY <1>6, <1>8, <1>9, <1>10 DEF said, listed

LEMMA UntouchedMeets ==
  ASSUME DialogInv, window.edits # NotAnEdit, inputs = 0,
         {window.edits.from, window.edits.to} \cap Tracked(AccountsNow) = {}
  PROVE  LET said == Said(RecordOf(Resolved(Feed(0), AccountsNow), AccountsNow),
                          SentCategory, form.notes, form.status) IN
         Differs(window.edits.said, said) \subseteq Costs(window.edits)
<1>. DEFINE listed == window.edits
            r == Feed(0)
            said == Said(RecordOf(Resolved(r, AccountsNow), AccountsNow), SentCategory, form.notes, form.status)
            old == listed.said
            code == CurrencyOf[listed.from]
<1>1. PICK l \in Ledgered : listed = ListedRow(l)
  BY DEF DialogInv, AsOpened
<1>2. /\ listed.type \in Tabs /\ listed.from \in AccountIds /\ listed.to \in AccountIds \cup {Unset}
      /\ listed.type = "transfer" => listed.to # Unset
      /\ listed.amount \in Nat /\ listed.parts \in Seq(Nat)
      /\ listed.parts # <<>> => listed.category = Unset /\ listed.type # "transfer"
      /\ DOMAIN old = Aspects /\ old.type = listed.type
      /\ old.accounts = {listed.from, listed.to} \ {Unset} /\ old.amount = listed.amount
      /\ old.parts = listed.parts /\ old.category = listed.category /\ old.notes = listed.notes
      /\ old.value = 0
      /\ listed.dest = 0 => old.arrives = IF listed.type = "transfer" THEN listed.amount ELSE 0
  BY <1>1, RowListed
<1>3. /\ form.type = listed.type /\ form.from = listed.from /\ form.to = listed.to
      /\ form.amount = Shown(listed.amount, DefaultCurrency) /\ form.dest = 0
      /\ form.category = listed.category /\ form.notes = listed.notes
      /\ lines = [n \in DOMAIN listed.parts |-> Shown(listed.parts[n], DefaultCurrency)]
      /\ window.split = (listed.parts # <<>>)
  BY DEF DialogInv, AsOpened, Edited, EmptyForm
<1>4. /\ DefaultCurrency \in DOMAIN ScaleOf /\ code \in DOMAIN ScaleOf /\ Currency = code
      /\ listed.to # Unset => CurrencyOf[listed.to] \in DOMAIN ScaleOf
  BY <1>2, <1>3, DialogAssumption DEF Currency
<1>. HIDE DEF listed, old
<1>5. code = DefaultCurrency => Minor(form.amount, Currency) = listed.amount
  BY <1>2, <1>3, <1>4, ShownIsMinor
<1>6. code = DefaultCurrency => InMinor.parts = listed.parts
  <2>1. SUFFICES ASSUME code = DefaultCurrency PROVE InMinor.parts = listed.parts
    OBVIOUS
  <2>2. CASE listed.parts = <<>>
    BY <1>3, <2>2, InMinorFields
  <2>3. CASE listed.parts # <<>>
    <3>1. listed.parts = [n \in DOMAIN listed.parts |-> listed.parts[n]] /\ \A n \in DOMAIN listed.parts : listed.parts[n] \in Nat
      BY <1>2, LenProperties, ElementOfSeq
    <3>2. \A n \in DOMAIN listed.parts : Minor(lines[n], Currency) = listed.parts[n]
      BY <1>3, <1>4, <2>1, <3>1, ShownIsMinor
    <3>3. InMinor.parts = [n \in DOMAIN listed.parts |-> Minor(lines[n], Currency)]
      BY <1>3, <2>3, InMinorFields
    <3>. QED  BY <3>1, <3>2, <3>3
  <2>. QED  BY <2>2, <2>3
<1>7. SentCategory = listed.category
  BY <1>2, <1>3 DEF SentCategory
<1>8. /\ r.type = listed.type /\ r.from = listed.from /\ r.to = listed.to /\ r.amount = Minor(form.amount, Currency)
      /\ Moves(form) = (listed.type = "transfer") /\ Moves(r) = (listed.type = "transfer")
      /\ r.parts = (IF listed.type = "transfer" THEN <<>> ELSE InMinor.parts)
  BY <1>3, InMinorFields DEF Feed, Moves
<1>9. said.type = listed.type /\ said.accounts = {listed.from, listed.to} \ {Unset} /\ said.amount = r.amount
      /\ said.parts = r.parts /\ said.value = 0 /\ said.category = listed.category /\ said.notes = listed.notes
      /\ said.arrives = IF listed.type = "transfer" THEN r.amount ELSE 0
  <2>1. CASE listed.type = "transfer"
    <3>1. InMinor.dest = 0
      BY <1>2, <1>3, <1>4, <2>1, InMinorFields, MinorOfSome
    <3>2. r.dest = 0
      BY <3>1 DEF Feed
    <3>3. ~Linked(r, AccountsNow)
      BY <1>8 DEF Linked, listed
    <3>. DEFINE tells == [type |-> "transfer", accounts |-> {form.from, form.to} \ {Unset}, amount |-> r.amount,
                arrives |-> IF Linked(r, AccountsNow) THEN 0 ELSE IF r.dest = 0 THEN r.amount ELSE r.dest,
                fee |-> IF r.fee = 0 THEN NoFeePaid ELSE <<r.fee, Bears(r)>>,
                purpose |-> Aims(r), parts |-> <<>>,
                value |-> IF Linked(r, AccountsNow) THEN 0 ELSE 0,
                category |-> SentCategory, notes |-> form.notes, status |-> form.status, kind |-> Unset]
    <3>4. said = tells
      <4>1. Moves(form)
        BY <1>8, <2>1
      <4>. QED  BY <4>1, TransferSaid
    <3>5. /\ tells.type = "transfer" /\ tells.accounts = {form.from, form.to} \ {Unset} /\ tells.amount = r.amount
          /\ tells.parts = <<>> /\ tells.value = 0 /\ tells.category = SentCategory /\ tells.notes = form.notes
          /\ tells.arrives = r.amount
      BY <3>2, <3>3
    <3>. HIDE DEF tells, said, r
    <3>. QED  BY <1>3, <1>7, <1>8, <2>1, <3>4, <3>5
  <2>2. CASE listed.type # "transfer"
    <3>. DEFINE tells == [type |-> r.type, accounts |-> {r.from, r.to} \ {Unset}, amount |-> r.amount, arrives |-> 0,
                fee |-> NoFeePaid, purpose |-> Unset, parts |-> r.parts, value |-> 0,
                category |-> SentCategory, notes |-> form.notes, status |-> form.status, kind |-> r.kind]
    <3>1. said = tells
      <4>1. ~Moves(form)
        BY <1>8, <2>2
      <4>. QED  BY <4>1, PlainSaid
    <3>2. /\ tells.type = r.type /\ tells.accounts = {r.from, r.to} \ {Unset} /\ tells.amount = r.amount
          /\ tells.parts = r.parts /\ tells.value = 0 /\ tells.category = SentCategory /\ tells.notes = form.notes
          /\ tells.arrives = 0
      OBVIOUS
    <3>. HIDE DEF tells, said, r
    <3>. QED  BY <1>3, <1>7, <1>8, <2>2, <3>1, <3>2
  <2>. QED  BY <2>1, <2>2
<1>. HIDE DEF said, r
<1>10. \A aspect \in Aspects : old[aspect] = said[aspect] \/ aspect \in Costs(listed)
  <2>1. {"fee", "purpose", "status", "kind"} \subseteq Costs(listed)
    BY DEF Costs
  <2>2. code # DefaultCurrency => {"amount", "arrives", "parts"} \subseteq Costs(listed)
    BY DEF Costs
  <2>3. listed.dest # 0 => "arrives" \in Costs(listed)
    BY DEF Costs
  <2>4. old.amount = said.amount \/ "amount" \in Costs(listed)
    BY <1>2, <1>5, <1>8, <1>9, <2>2
  <2>5. old.arrives = said.arrives \/ "arrives" \in Costs(listed)
    BY <1>2, <1>5, <1>8, <1>9, <2>2, <2>3
  <2>6. old.parts = said.parts \/ "parts" \in Costs(listed)
    <3>1. listed.type = "transfer" => listed.parts = <<>>
      BY <1>2
    <3>. QED  BY <1>2, <1>6, <1>8, <1>9, <2>2, <3>1
  <2>. QED  BY <1>2, <1>9, <2>1, <2>4, <2>5, <2>6 DEF Aspects
<1>11. Differs(old, said) \subseteq Costs(listed)
  BY <1>2, <1>10 DEF Differs
<1>. QED  BY <1>11 DEF said, old, listed, r


-----------------------------------------------------------------------------
(* Every step.                                                              *)

LEMMA DialogStarts == ASSUME DialogInit PROVE DialogInv
<1>1. outcome = Nothing /\ inputs = 0
  BY DEF DialogInit
<1>2. WhatShowsIsBooked /\ UntouchedEditKeepsTheRow
  BY <1>1 DEF WhatShowsIsBooked, UntouchedEditKeepsTheRow, WasBooked, Nothing
<1>3. CASE \E default \in AccountIds \cup {Unset} :
             /\ window = [open |-> FALSE, tab |-> "expense", split |-> FALSE, edits |-> NotAnEdit,
                          default |-> default]
             /\ form = EmptyForm(default)
             /\ lines = TwoBlanks
  <2>1. PICK default \in AccountIds \cup {Unset} :
               /\ window = [open |-> FALSE, tab |-> "expense", split |-> FALSE, edits |-> NotAnEdit,
                            default |-> default]
               /\ form = EmptyForm(default)
    BY <1>3
  <2>2. FormShape(form)
    BY <2>1 DEF EmptyForm, FormShape, Tabs
  <2>3. Hidden /\ AsOpened
    BY <2>1 DEF EmptyForm, Hidden, AsOpened, Transferring
  <2>. QED  BY <1>1, <1>2, <2>1, <2>2, <2>3 DEF DialogInv, Tabs
<1>4. CASE \E l \in Ledgered :
             LET listed == ListedRow(l)
                 shown == Edited(listed)
             IN /\ window = [open |-> TRUE, tab |-> listed.type, split |-> shown.split, edits |-> listed,
                             default |-> Unset]
                /\ form = shown.form
                /\ lines = shown.lines
  <2>. PICK l \in Ledgered :
              LET listed == ListedRow(l)
                  shown == Edited(listed)
              IN /\ window = [open |-> TRUE, tab |-> listed.type, split |-> shown.split, edits |-> listed,
                              default |-> Unset]
                 /\ form = shown.form
                 /\ lines = shown.lines
    BY <1>4
  <2>. DEFINE listed == ListedRow(l)
  <2>1. /\ listed.type \in Tabs /\ listed.from \in AccountIds /\ listed.to \in AccountIds \cup {Unset}
        /\ listed.amount \in Nat
    BY RowListed
  <2>. HIDE DEF listed
  <2>2. /\ window = [open |-> TRUE, tab |-> listed.type, split |-> listed.parts # <<>>, edits |-> listed,
                     default |-> Unset]
        /\ form = [type |-> listed.type, from |-> listed.from, to |-> listed.to,
                   amount |-> Shown(listed.amount, DefaultCurrency), dest |-> 0, fee |-> 0, bearer |-> Unset,
                   purpose |-> Unset, value |-> 0, category |-> listed.category, notes |-> listed.notes,
                   status |-> "CLEARED"]
    BY DEF listed, Edited, EmptyForm
  <2>3. Shown(listed.amount, DefaultCurrency) \in Nat
    BY <2>1, ShownIsMinor, DialogAssumption
  <2>4. FormShape(form)
    BY <2>1, <2>2, <2>3 DEF FormShape
  <2>5. AsOpened
    BY <2>2 DEF listed, AsOpened, Edited
  <2>6. ASSUME window.edits # NotAnEdit PROVE Hidden
    BY <2>2, <2>6 DEF Hidden, Transferring, EditsLiabilityFee, EditsFiledTransfer
  <2>7. ASSUME window.edits = NotAnEdit PROVE FALSE
    <3>1. listed.type \in Tabs /\ DOMAIN listed = {"from", "to", "type", "amount", "parts", "category", "notes", "said", "dest"}
      BY <2>1 DEF listed, ListedRow
    <3>2. listed = NotAnEdit /\ DOMAIN NotAnEdit = {"row"}
      BY <2>2, <2>7 DEF NotAnEdit
    <3>3. "row" \in DOMAIN listed
      BY <3>2
    <3>. QED  BY <3>1, <3>3
  <2>8. /\ window = [open |-> window.open, tab |-> window.tab, split |-> window.split,
                     edits |-> window.edits, default |-> window.default]
        /\ window.tab \in Tabs /\ window.split \in BOOLEAN /\ window.default = Unset
    <3>. DEFINE split == listed.parts # <<>>
    <3>1. split \in BOOLEAN
      OBVIOUS
    <3>2. window = [open |-> TRUE, tab |-> listed.type, split |-> split, edits |-> listed, default |-> Unset]
      BY <2>2
    <3>. HIDE DEF split
    <3>. QED  BY <2>1, <3>1, <3>2
  <2>. QED  BY <1>1, <1>2, <2>4, <2>5, <2>6, <2>7, <2>8 DEF DialogInv
<1>. QED  BY <1>3, <1>4 DEF DialogInit

\* Steps that submit nothing.
LEMMA NothingBooked ==
  ASSUME DialogInv, outcome' = Nothing \/ (outcome' = outcome /\ window'.edits = window.edits)
  PROVE  WhatShowsIsBooked' /\ UntouchedEditKeepsTheRow'
<1>1. CASE outcome' = Nothing
  BY <1>1 DEF WhatShowsIsBooked, UntouchedEditKeepsTheRow, WasBooked, Nothing
<1>2. CASE outcome' = outcome /\ window'.edits = window.edits
  BY <1>2 DEF DialogInv, WhatShowsIsBooked, UntouchedEditKeepsTheRow, WasBooked
<1>. QED  BY <1>1, <1>2

LEMMA WindowMoves ==
  ASSUME DialogInv, Open \/ OpenByHotkey \/ Cancel
  PROVE  DialogInv'
<1>1. /\ form' = form /\ inputs' = inputs
      /\ window'.tab = window.tab /\ window'.edits = window.edits /\ window'.default = window.default
      /\ window'.split = window.split \/ (window'.split = FALSE /\ window.edits = NotAnEdit)
      /\ lines' = lines \/ window.edits = NotAnEdit
      /\ window' = [open |-> window'.open, tab |-> window'.tab, split |-> window'.split,
                    edits |-> window'.edits, default |-> window'.default]
      /\ outcome' = Nothing \/ outcome' = outcome
  BY DEF DialogInv, Open, OpenByHotkey, Cancel
<1>2. WhatShowsIsBooked' /\ UntouchedEditKeepsTheRow'
  BY <1>1, NothingBooked
<1>3. Hidden'
  BY <1>1 DEF DialogInv, Hidden, Transferring, EditsLiabilityFee, EditsFiledTransfer
<1>4. AsOpened'
  BY <1>1 DEF DialogInv, AsOpened
<1>. QED  BY <1>1, <1>2, <1>3, <1>4 DEF DialogInv

\* What a user does is counted, so the edit is not untouched.
LEMMA UsesCount ==
  ASSUME DialogInv, Uses, window'.edits = window.edits
  PROVE  /\ inputs' \in Nat /\ AsOpened' /\ WhatShowsIsBooked' /\ UntouchedEditKeepsTheRow'
<1>1. inputs' = inputs + 1 /\ inputs \in Nat /\ outcome' = Nothing
  BY DEF Uses, DialogInv
<1>2. AsOpened'
  BY <1>1 DEF AsOpened, DialogInv
<1>. QED  BY <1>1, <1>2, NothingBooked

LEMMA SelectTabKeeps ==
  ASSUME DialogInv, NEW tab \in Tabs, SelectTab(tab)
  PROVE  DialogInv'
<1>1. /\ Uses /\ window' = [window EXCEPT !.tab = tab]
      /\ form' = [form EXCEPT !.type = tab, !.category = IF tab = "transfer" THEN Unset ELSE form.category,
                              !.to = IF tab = "transfer" THEN form.to ELSE Unset]
  BY DEF SelectTab
<1>2. /\ window'.tab = tab /\ window'.edits = window.edits /\ window'.split = window.split
      /\ window'.default = window.default
      /\ window' = [open |-> window'.open, tab |-> window'.tab, split |-> window'.split,
                    edits |-> window'.edits, default |-> window'.default]
  BY <1>1 DEF DialogInv
<1>3. /\ form'.type = tab /\ form'.category = (IF tab = "transfer" THEN Unset ELSE form.category)
      /\ form'.to = (IF tab = "transfer" THEN form.to ELSE Unset)
      /\ FormShape(form')
  BY <1>1 DEF DialogInv, FormShape
<1>4. Hidden'
  BY <1>2, <1>3 DEF Hidden, Transferring
<1>. QED  BY <1>1, <1>2, <1>3, <1>4, UsesCount DEF DialogInv

\* A field that is entered, among those that a user can reach.
LEMMA EnterKeeps ==
  ASSUME DialogInv, NEW field, NEW value, Enter(field, value),
         \/ field \in {"amount", "dest", "fee", "value"} /\ value \in Nat
         \/ field = "from" /\ value \in AccountIds
         \/ field = "to" /\ Transferring /\ value \in AccountIds
         \/ field \in {"bearer", "purpose", "notes", "status"}
         \/ field = "category" /\ ~Transferring
  PROVE  DialogInv'
<1>1. /\ Uses /\ window' = window /\ form' = [form EXCEPT ![field] = value]
  BY DEF Enter
<1>2. /\ form'.type = form.type /\ FormShape(form')
      /\ form'.to = form.to \/ Transferring
      /\ form'.category = form.category \/ ~Transferring
  BY <1>1 DEF DialogInv, FormShape
<1>3. Hidden'
  BY <1>1, <1>2 DEF DialogInv, Hidden, Transferring, EditsLiabilityFee, EditsFiledTransfer
<1>. QED  BY <1>1, <1>2, <1>3, UsesCount DEF DialogInv

LEMMA FieldsKeep ==
  ASSUME DialogInv,
         \/ EnterAmount \/ EnterFrom \/ EnterTo \/ EnterDest \/ EnterFee \/ EnterBearer
         \/ EnterPurpose \/ EnterValue \/ EnterCategory \/ EnterNotes \/ EnterStatus
  PROVE  DialogInv'
<1>1. Typed \cup {0} \subseteq Nat
  BY DialogAssumption
<1>2. CASE EnterAmount
  BY <1>1, <1>2, EnterKeeps DEF EnterAmount
<1>3. CASE EnterFrom
  BY <1>3, EnterKeeps DEF EnterFrom
<1>4. CASE EnterTo
  BY <1>4, EnterKeeps DEF EnterTo
<1>5. CASE EnterDest
  BY <1>1, <1>5, EnterKeeps DEF EnterDest
<1>6. CASE EnterFee
  BY <1>1, <1>6, EnterKeeps DEF EnterFee
<1>7. CASE EnterBearer
  BY <1>7, EnterKeeps DEF EnterBearer
<1>8. CASE EnterPurpose
  BY <1>8, EnterKeeps DEF EnterPurpose
<1>9. CASE EnterValue
  BY <1>1, <1>9, EnterKeeps DEF EnterValue
<1>10. CASE EnterCategory
  BY <1>10, EnterKeeps DEF EnterCategory, CategoryShows
<1>11. CASE EnterNotes
  BY <1>11, EnterKeeps DEF EnterNotes
<1>12. CASE EnterStatus
  BY <1>12, EnterKeeps DEF EnterStatus
<1>. QED  BY <1>2, <1>3, <1>4, <1>5, <1>6, <1>7, <1>8, <1>9, <1>10, <1>11, <1>12

LEMMA SplitKeeps ==
  ASSUME DialogInv, ToggleSplit \/ EnterLine \/ AddLine \/ RemoveLine
  PROVE  DialogInv'
<1>1. /\ Uses /\ form' = form /\ window'.tab = window.tab /\ window'.edits = window.edits
      /\ window'.default = window.default /\ window'.split \in BOOLEAN
      /\ window'.split = window.split \/ ~Transferring
      /\ window' = [open |-> window'.open, tab |-> window'.tab, split |-> window'.split,
                    edits |-> window'.edits, default |-> window'.default]
  BY DEF DialogInv, ToggleSplit, EnterLine, AddLine, RemoveLine
<1>2. Hidden'
  BY <1>1 DEF DialogInv, Hidden, Transferring, EditsLiabilityFee, EditsFiledTransfer
<1>. QED  BY <1>1, <1>2, UsesCount DEF DialogInv


\* What is booked is what a submit has in hand, told as a row tells it.
Told(value) ==
  Said(RecordOf(Resolved(Feed(value), AccountsNow), AccountsNow), SentCategory, form.notes, form.status)

LEMMA CreateTold ==
  ASSUME DialogInv, Submittable, CreateOutcome.was = "booked"
  PROVE  Differs(OnScreen, CreateOutcome.said) \subseteq LeftBehind
<1>. DEFINE value == IF Moves(form) THEN InMinor.value ELSE 0
            full == Resolved(Feed(value), AccountsNow)
<1>1. Sent(InMinor, AccountsNow) = Feed(value)
  BY SentIsFeed
<1>. HIDE DEF value
<1>2. Accepted(full, AccountsNow) /\ CreateOutcome.said = Told(value)
  BY <1>1 DEF CreateOutcome, Booked, Refused, Told
<1>3. CASE Moves(form)
  <2>1. value = InMinor.value
    BY <1>3 DEF value
  <2>. QED  BY <1>2, <1>3, <2>1, TransferMeets DEF Told
<1>4. CASE ~Moves(form)
  BY <1>2, <1>4, PlainMeets DEF Told
<1>. QED  BY <1>3, <1>4

LEMMA UpdateTold ==
  ASSUME DialogInv, Submittable, NEW old, UpdateOutcome(old).was = "booked"
  PROVE  /\ UpdateOutcome(old).said = Told(0)
         /\ {old.from, old.to} \cap Tracked(AccountsNow) = {}
         /\ Differs(OnScreen, UpdateOutcome(old).said) \subseteq LeftBehind
<1>. DEFINE r == Feed(0)
            full == Resolved(r, AccountsNow)
            touched == {old.from, old.to, r.from} \cup IF Moves(r) THEN {r.to} ELSE {}
<1>1. [Sent(InMinor, AccountsNow) EXCEPT !.value = 0] = r
  BY SentIsFeed
<1>. HIDE DEF r
<1>2. /\ Accepted(full, AccountsNow) /\ UpdateOutcome(old).said = Told(0)
      /\ touched \cap Tracked(AccountsNow) = {}
  BY <1>1 DEF UpdateOutcome, Booked, Refused, Told, r
<1>3. CASE Moves(form)
  <2>1. {form.from, form.to} \cap Tracked(AccountsNow) = {}
    <3>1. Moves(r) /\ r.from = form.from /\ r.to = form.to
      BY <1>3 DEF r, Feed, Moves
    <3>. QED  BY <1>2, <3>1
  <2>. QED  BY <1>2, <1>3, <2>1, TransferMeets DEF Told, r
<1>4. CASE ~Moves(form)
  BY <1>2, <1>4, PlainMeets DEF Told
<1>. QED  BY <1>2, <1>3, <1>4

LEMMA SubmitNewKeeps ==
  ASSUME DialogInv, SubmitNew
  PROVE  DialogInv'
<1>1. /\ window.edits = NotAnEdit /\ Submittable /\ inputs' = inputs
      /\ outcome' = [is |-> "submitted", screen |-> OnScreen, left |-> LeftBehind,
                     untouched |-> inputs = 0, result |-> CreateOutcome]
      /\ window' = [window EXCEPT !.open = FALSE, !.split = FALSE]
      /\ form' = EmptyForm(window.default)
  BY DEF SubmitNew, Decided
<1>2. /\ window'.tab = window.tab /\ window'.edits = window.edits /\ window'.split = FALSE
      /\ window'.default = window.default
      /\ window' = [open |-> window'.open, tab |-> window'.tab, split |-> window'.split,
                    edits |-> window'.edits, default |-> window'.default]
  BY <1>1 DEF DialogInv
<1>3. FormShape(form') /\ form'.type = "expense" /\ form'.to = Unset /\ form'.category = Unset
  BY <1>1 DEF DialogInv, FormShape, EmptyForm, Tabs
<1>4. Hidden' /\ AsOpened'
  BY <1>1, <1>2, <1>3 DEF Hidden, AsOpened
<1>5. WhatShowsIsBooked'
  <2>1. /\ outcome'.screen = OnScreen /\ outcome'.left = LeftBehind
        /\ outcome'.result = CreateOutcome
    BY <1>1
  <2>2. CreateOutcome.was = "booked" => Differs(OnScreen, CreateOutcome.said) \subseteq LeftBehind
    BY <1>1, CreateTold
  <2>. QED  BY <2>1, <2>2 DEF WhatShowsIsBooked, WasBooked
<1>6. UntouchedEditKeepsTheRow'
  BY <1>1, <1>2 DEF UntouchedEditKeepsTheRow
<1>. QED  BY <1>1, <1>2, <1>3, <1>4, <1>5, <1>6 DEF DialogInv

LEMMA SubmitEditKeeps ==
  ASSUME DialogInv, SubmitEdit
  PROVE  DialogInv'
<1>. DEFINE listed == window.edits
<1>1. /\ listed # NotAnEdit /\ Submittable /\ UNCHANGED <<form, lines, inputs>>
      /\ outcome' = [is |-> "submitted", screen |-> OnScreen, left |-> LeftBehind,
                     untouched |-> inputs = 0, result |-> UpdateOutcome(listed)]
      /\ window' = [window EXCEPT !.open = FALSE]
  BY DEF SubmitEdit, Decided
<1>2. /\ window'.tab = window.tab /\ window'.edits = window.edits /\ window'.split = window.split
      /\ window'.default = window.default
      /\ window' = [open |-> window'.open, tab |-> window'.tab, split |-> window'.split,
                    edits |-> window'.edits, default |-> window'.default]
  BY <1>1 DEF DialogInv
<1>3. Hidden' /\ AsOpened'
  BY <1>1, <1>2 DEF DialogInv, Hidden, AsOpened, Transferring, EditsLiabilityFee, EditsFiledTransfer
<1>4. /\ outcome'.screen = OnScreen /\ outcome'.left = LeftBehind
      /\ outcome'.result = UpdateOutcome(listed) /\ (outcome'.untouched => inputs = 0)
  BY <1>1
<1>5. ASSUME UpdateOutcome(listed).was = "booked"
      PROVE  /\ UpdateOutcome(listed).said = Told(0)
             /\ {listed.from, listed.to} \cap Tracked(AccountsNow) = {}
             /\ Differs(OnScreen, UpdateOutcome(listed).said) \subseteq LeftBehind
  BY <1>1, <1>5, UpdateTold
<1>6. WhatShowsIsBooked'
  BY <1>4, <1>5 DEF WhatShowsIsBooked, WasBooked
<1>7. UntouchedEditKeepsTheRow'
  <2>1. SUFFICES ASSUME UpdateOutcome(listed).was = "booked", inputs = 0
                 PROVE  Differs(listed.said, UpdateOutcome(listed).said) \subseteq Costs(listed)
    BY <1>2, <1>4 DEF UntouchedEditKeepsTheRow, WasBooked
  <2>. QED  BY <1>1, <1>5, <2>1, UntouchedMeets DEF Told
<1>. QED  BY <1>1, <1>2, <1>3, <1>6, <1>7 DEF DialogInv

LEMMA DialogSteps ==
  ASSUME DialogInv, [DialogNext]_dialogVars
  PROVE  DialogInv'
<1>1. CASE Open \/ OpenByHotkey \/ Cancel
  BY <1>1, WindowMoves
<1>2. CASE \E tab \in {"expense", "income", "transfer"} : SelectTab(tab)
  BY <1>2, SelectTabKeeps DEF Tabs
<1>3. CASE \/ EnterAmount \/ EnterFrom \/ EnterTo \/ EnterDest \/ EnterFee \/ EnterBearer
           \/ EnterPurpose \/ EnterValue \/ EnterCategory \/ EnterNotes \/ EnterStatus
  BY <1>3, FieldsKeep
<1>4. CASE ToggleSplit \/ EnterLine \/ AddLine \/ RemoveLine
  BY <1>4, SplitKeeps
<1>5. CASE SubmitNew
  BY <1>5, SubmitNewKeeps
<1>6. CASE SubmitEdit
  BY <1>6, SubmitEditKeeps
<1>7. CASE UNCHANGED dialogVars
  <2>1. Hidden' /\ AsOpened' /\ WhatShowsIsBooked' /\ UntouchedEditKeepsTheRow'
    BY <1>7 DEF dialogVars, DialogInv, Hidden, AsOpened, Transferring, EditsLiabilityFee,
                EditsFiledTransfer, WhatShowsIsBooked, UntouchedEditKeepsTheRow, WasBooked
  <2>. QED  BY <1>7, <2>1 DEF dialogVars, DialogInv
<1>. QED  BY <1>1, <1>2, <1>3, <1>4, <1>5, <1>6, <1>7 DEF DialogNext

LEMMA DialogAlways == DialogSpec => []DialogInv
BY DialogStarts, DialogSteps, PTL DEF DialogSpec

\* Whatever was entered, hidden, switched or reset before, the ledger has what the screen
\* showed, but for the named aspects that something hidden reaches.
THEOREM ScreenIsBooked == DialogSpec => []WhatShowsIsBooked
<1>1. DialogInv => WhatShowsIsBooked
  BY DEF DialogInv
<1>. QED  BY <1>1, DialogAlways, PTL

\* An edit that is saved as it was opened gives the row back but for what it is named to
\* cost, through a conversion from one currency's units and back.
THEOREM EditsKeepRows == DialogSpec => []UntouchedEditKeepsTheRow
<1>1. DialogInv => UntouchedEditKeepsTheRow
  BY DEF DialogInv
<1>. QED  BY <1>1, DialogAlways, PTL
=============================================================================
