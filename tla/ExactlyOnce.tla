---------------------------- MODULE ExactlyOnce ----------------------------
(***************************************************************************)
(* What idempotency keys promise a client (ADR-0006, ADR-0032): a key      *)
(* stands for one effect on the ledger, applied at most once and never     *)
(* rebound to another payload, however often the call is sent.             *)
(***************************************************************************)
EXTENDS Integers

CONSTANTS Accounts, CreateKeys, DeleteKeys, None

VARIABLES
  created,   \* CreateKeys -> the account that the key's row was posted on
  undone,    \* DeleteKeys -> the create key whose row the key reversed
  balance    \* Accounts -> Int

vars == <<created, undone, balance>>

Init ==
  /\ created = [k \in CreateKeys |-> None]
  /\ undone = [k \in DeleteKeys |-> None]
  /\ balance = [a \in Accounts |-> 0]

\* A create key takes effect for the first time.
Apply(k, a) ==
  /\ created[k] = None
  /\ created' = [created EXCEPT ![k] = a]
  /\ balance' = [balance EXCEPT ![a] = @ + 1]
  /\ UNCHANGED undone

\* A delete key reverses a row that no other key has reversed.
Undo(d, k) ==
  /\ undone[d] = None
  /\ created[k] # None
  /\ \A e \in DeleteKeys : undone[e] # k
  /\ undone' = [undone EXCEPT ![d] = k]
  /\ balance' = [balance EXCEPT ![created[k]] = @ - 1]
  /\ UNCHANGED created

Next ==
  \/ \E k \in CreateKeys, a \in Accounts : Apply(k, a)
  \/ \E d \in DeleteKeys, k \in CreateKeys : Undo(d, k)

Spec == Init /\ [][Next]_vars

=============================================================================
