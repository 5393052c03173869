------------------------- MODULE MCCallCoordinator -------------------------
(* Instances of the call coordinator for TLC: the race classes each run     *)
(* lets the environment show.                                               *)
EXTENDS CallCoordinator

NoRaces == {}
EveryRace == AllRaces
KeptDeadlines == AllRaces \ {"EndRefused"}
RefusedEnd == {"EndRefused"}
=============================================================================
