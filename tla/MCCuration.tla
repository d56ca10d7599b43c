------------------------------ MODULE MCCuration ------------------------------
(***************************************************************************)
(* Instances of Curation for TLC.                                          *)
(***************************************************************************)
EXTENDS Curation

CONSTANTS d1, d2, q1, f1, y

\* On d1, names without a description; on d2, nothing.
MCMetadata ==
  [d \in Doc |-> IF d = d1 THEN {[people |-> y, description |-> Null]} ELSE {}]
=============================================================================
