-------------------------- MODULE MCCmsPersistence --------------------------
(***************************************************************************)
(* The text of a set of rows is the longer the more rows there are, so     *)
(* that a shorter text can be written over a longer one.  Three requests   *)
(* are one that loads while two others save.                               *)
(***************************************************************************)
EXTENDS CmsPersistence, FiniteSets, TLC

MCItem == [row \in Rows |-> row]

MCTextLength == [rows \in SUBSET Rows |-> 1 + Cardinality(rows)]
=============================================================================
