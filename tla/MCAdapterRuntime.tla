--------------------------- MODULE MCAdapterRuntime ---------------------------
(* The instance of AdapterRuntime for TLC. *)
EXTENDS AdapterRuntime

NoRaces == {}
===============================================================================
