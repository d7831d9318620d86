---------------------------- MODULE MCTransactions ----------------------------
(* A small instance of Transactions for TLC. *)
EXTENDS Transactions

CONSTANTS c1, c2
===============================================================================
