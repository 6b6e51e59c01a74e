------------------------------ MODULE Ordering ------------------------------
(***************************************************************************)
(* Rows that a query returns in their order (ORDER BY): the numbers of a   *)
(* set, from the least to the greatest.                                    *)
(***************************************************************************)
EXTENDS Integers, FiniteSets

\* How many members of S come up to n.
Rank(S, n) == Cardinality({m \in S : m <= n})

\* The members of S in order.
InOrder(S) == [k \in 1..Cardinality(S) |-> CHOOSE n \in S : Rank(S, n) = k]

=============================================================================
