------------------------------ MODULE MCDebts ------------------------------
(* Model-checking instance of Debts, a loan of money each way and repayments
   that fit the debt once. *)
EXTENDS Debts, TLC

MCCalls == {
  [op |-> "lend", dir |-> "receivable", amount |-> 2, key |-> "lend", complete |-> TRUE],
  [op |-> "lend", dir |-> "receivable", amount |-> 1, key |-> "lend more", complete |-> FALSE],
  [op |-> "repay", dir |-> "receivable", amount |-> 2, key |-> "repaid", complete |-> TRUE],
  [op |-> "borrow", dir |-> "loan", amount |-> 1, key |-> "borrow", complete |-> TRUE],
  [op |-> "repay", dir |-> "loan", amount |-> 1, key |-> "pay back", complete |-> FALSE]}

MCSymmetry == Permutations(Handlers)

=============================================================================
