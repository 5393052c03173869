----------------------------- MODULE MCCdrSpool -----------------------------
(* Instances of the CDR pipeline for TLC. *)
EXTENDS CdrSpool

Low == [resume |-> 1, reject |-> 2]
Watermarks == {Low, [resume |-> 2, reject |-> 3]}
NoRaces == {}
=============================================================================
