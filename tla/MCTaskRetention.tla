--------------------------- MODULE MCTaskRetention --------------------------
(***************************************************************************)
(* The normal form of "b." (which is "b_") is written "b" here.            *)
(***************************************************************************)
EXTENDS TaskRetention, TLC

MCNormalize == [k \in Keys |-> IF k = "b." THEN "b" ELSE k]

\* Where every key is its own normal form, no step prefers one key to another: a
\* run visits the sessions in the order their databases were made.
KeySymmetry == Permutations(Keys)
=============================================================================
