---------------------------- MODULE MCVocabulary ----------------------------
(***************************************************************************)
(* Instances of Vocabulary for TLC.                                        *)
(***************************************************************************)
EXTENDS Vocabulary

CONSTANTS n1, n2, d1, d2, r1, r2, c1, c2

MCDocOf == [r \in Report |-> IF r = r1 THEN d1 ELSE d2]

\* Two reports name the same entities in opposite orders.
MCEntitiesOf == [r \in Report |-> IF r = r1 THEN <<n1, n2>> ELSE <<n2, n1>>]

MCRelatesOf == [r \in Report |-> {<<n1, n2>>}]

\* Only the first writes them as they are when normalised.
MCWrittenPlain == [r \in Report |-> IF r = r1 THEN {n1, n2} ELSE {n1}]
=============================================================================
