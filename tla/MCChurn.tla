-------------------------------- MODULE MCChurn --------------------------------
(* Values of the constants for the model checker. *)
EXTENDS Churn

MCEndpoints == Sides \X Places

MCMaxLines == [s \in Sides |-> IF s = "caller" THEN 2 ELSE 1]
================================================================================
