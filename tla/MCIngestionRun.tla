---------------------------- MODULE MCIngestionRun ----------------------------
(***************************************************************************)
(* Instances of IngestionRun for TLC.                                      *)
(***************************************************************************)
EXTENDS IngestionRun

CONSTANTS r1, r2, f1, f2, f3, a, b, plain, scanned

\* All files are added to the first run; the second is there to sweep it.
MCRunOf == [f \in File |-> r1]

\* f3 shares its path with f1.
MCNameOf == [f \in File |-> IF f = f2 THEN scanned ELSE plain]

MCContentOf == [f \in File |-> IF f = f1 THEN a ELSE b]
=============================================================================
