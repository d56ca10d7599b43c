-------------------------- MODULE MCUploadLifecycle --------------------------
(***************************************************************************)
(* Instances of UploadLifecycle for TLC.                                   *)
(***************************************************************************)
EXTENDS UploadLifecycle

CONSTANTS d1, d2, d3, same, other

\* d1 and d2 carry the same file, d3 another one.
MCFileOf == [d \in Doc |-> IF d \in {d1, d2} THEN same ELSE other]
=============================================================================
