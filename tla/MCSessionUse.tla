--------------------------- MODULE MCSessionUse -----------------------------
(***************************************************************************)
(* The normal form of "b." (which is "b_") is written "b" here.            *)
(***************************************************************************)
EXTENDS SessionUse

MCNormalize == [k \in Keys |-> IF k = "b." THEN "b" ELSE k]
=============================================================================
