-------------------------- MODULE MCCallAggregate --------------------------
(* Exhaustive check of the call topology: three attempts, so that a hunt    *)
(* can give one up and a transfer can still replace the winner.             *)
EXTENDS CallAggregate
=============================================================================
