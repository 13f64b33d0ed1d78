-------------------------- MODULE MCTransactionSetup --------------------------
(* Instances of TransactionSetup for TLC. *)
EXTENDS TransactionSetup

AllRequests == DOMAIN Factory
TwoLists == {{"interactive"}, {"background"}}
=============================================================================
