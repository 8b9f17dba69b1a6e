------------------------------ MODULE PollerMC ------------------------------
(***************************************************************************)
(* The calls of poll() for the model checker.                              *)
(***************************************************************************)
EXTENDS Poller

CONSTANTS a, x, y

MCLists == [f \in Pollers |-> IF f = a THEN {<<y, x>>} ELSE {<<x>>}]

MCTimeouts == {-1, 0, 1}
=============================================================================
