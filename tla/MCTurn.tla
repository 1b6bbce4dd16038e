-------------------------------- MODULE MCTurn --------------------------------
(* Bounds for the model checker: one busy client and one that asks once. *)
EXTENDS Turn

CONSTANTS c1, c2

MCMaxAsked == (c1 :> 3) @@ (c2 :> 1)
===============================================================================
