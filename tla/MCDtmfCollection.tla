-------------------------- MODULE MCDtmfCollection --------------------------
(* Two operations: the first wants two digits, for the second every key is a *)
(* terminator.                                                              *)
EXTENDS DtmfCollection

NoRaces == {}
TwoDigits == [o \in Ops |-> 2]
SecondEnds == [o \in Ops |-> IF o = 2 THEN Presses ELSE {}]
=============================================================================
