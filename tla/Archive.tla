------------------------------- MODULE Archive -------------------------------
(***************************************************************************)
(* What document intake promises, with no mention of staging areas, HTTP   *)
(* requests or restarts: the archive is a set of documents, no two of them *)
(* with the same content, and a document whose archivist was told it is    *)
(* archived is never taken out again.                                      *)
(***************************************************************************)

CONSTANTS
  Doc,        \* documents that can be submitted
  FileOf      \* FileOf[d]: the content of the file submitted as d

VARIABLES
  archived,   \* documents the archive holds
  confirmed   \* documents whose submitter was told so

archiveVars == <<archived, confirmed>>

Init ==
  /\ archived = {}
  /\ confirmed = {}

\* A batch is taken in as a whole, if its documents are new and no two
\* documents of the archive end up with the same content.
Accept(batch) ==
  /\ batch \cap archived = {}
  /\ \A d \in batch, e \in batch \cup archived : d # e => FileOf[d] # FileOf[e]
  /\ archived' = archived \cup batch
  /\ UNCHANGED confirmed

\* The submitter learns that the documents of a batch are archived.
Confirm(batch) ==
  /\ batch \subseteq archived
  /\ confirmed' = confirmed \cup batch
  /\ UNCHANGED archived

\* Documents may be withdrawn as long as they are not confirmed.
Withdraw(batch) ==
  /\ batch \subseteq archived \ confirmed
  /\ archived' = archived \ batch
  /\ UNCHANGED confirmed

Next == \E batch \in SUBSET Doc : Accept(batch) \/ Confirm(batch) \/ Withdraw(batch)

Spec == Init /\ [][Next]_archiveVars
=============================================================================
