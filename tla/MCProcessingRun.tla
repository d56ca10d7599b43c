--------------------------- MODULE MCProcessingRun ---------------------------
(***************************************************************************)
(* Instances of ProcessingRun for TLC.                                     *)
(***************************************************************************)
EXTENDS ProcessingRun

CONSTANTS d1, r1, r2, c1, c2
=============================================================================
