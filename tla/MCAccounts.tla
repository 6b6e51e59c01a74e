----------------------------- MODULE MCAccounts -----------------------------
(***************************************************************************)
(* Model-checking instance of Accounts and of Requests.  While one of the  *)
(* two moves, the other rests in its initial state, in which no handler of *)
(* it has anything to do.                                                  *)
(***************************************************************************)
EXTENDS Accounts, Requests, TLC

AccountSymmetry == Permutations(Ids \ Investments) \cup Permutations(Handlers)

AllVars == <<vars, requestsVars>>
MCInit == Init /\ RequestsInit
MCNext ==
  \/ RequestsInit /\ Next /\ UNCHANGED requestsVars
  \/ Init /\ RequestsNext /\ UNCHANGED vars
MCSpec ==
  /\ MCInit /\ [][MCNext]_AllVars
  /\ \A h \in Handlers : WF_vars(Step(h))
  /\ \A h \in Executions : WF_requestsVars(Advance(h))

=============================================================================
