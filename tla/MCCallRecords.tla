---------------------------- MODULE MCCallRecords ----------------------------
(* The instance of CallRecords for TLC. *)
EXTENDS CallRecords

NoRaces == {}
==============================================================================
