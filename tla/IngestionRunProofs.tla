-------------------------- MODULE IngestionRunProofs --------------------------
(***************************************************************************)
(* Proofs about IngestionRun, for any set of runs, files, names and        *)
(* contents and any number of faults.  Types, the soundness of finalized   *)
(* documents and the startup sweep are proved for calls that overlap in    *)
(* any way; atomicity, ownership, the order of the sweeps and the          *)
(* refinement of Archive for a client that makes one call at a time.       *)
(***************************************************************************)
EXTENDS IngestionRun, TLAPS

(***************************************************************************)
(* Facts about paths and about the executions of _cleanupRunById.          *)
(***************************************************************************)
LEMMA PathFacts ==
  /\ \A f \in File : Slot(f) \in Path /\ Slot(f)[1] = RunOf[f]
  /\ \A p \in Path : p[1] \in Run /\ p[2] \in Name /\ p = <<p[1], p[2]>>
  /\ \A r \in Run, n \in Name : <<r, n>> \in Path /\ <<r, n>>[1] = r
BY IngestionAssumption DEF Path, Slot

LEMMA CleanerFacts ==
  /\ \A r \in Run : <<"sweep", r>> \in Cleaner /\ <<"remove", r>> \in Cleaner
  /\ \A q, r \in Run : <<"sweep", q>> # <<"remove", r>>
  /\ \A q, r \in Run : <<"sweep", q>> = <<"sweep", r>> => q = r
  /\ \A q, r \in Run : <<"remove", q>> = <<"remove", r>> => q = r
  /\ \A r \in Run : <<"sweep", r>> \in Sweeper /\ <<"remove", r>> \notin Sweeper
  /\ \A c \in Sweeper : c \in Cleaner /\ c[2] \in Run /\ c = <<"sweep", c[2]>>
  /\ \A c \in Cleaner : \E r \in Run : c = <<"sweep", r>> \/ c = <<"remove", r>>
BY DEF Cleaner, Sweeper, Remover

-----------------------------------------------------------------------------
(* Types, group by group: the rows, the paths, the calls, the executions   *)
(* of _cleanupRunById, the process.                                        *)

TypeTables ==
  /\ runStatus \in [Run -> {"none", "in_progress", "moving", "completed"}]
  /\ row \in [File -> {"none", "uploaded", "finalized"}]
  /\ linked \subseteq File /\ web \subseteq Content

TypeFiles ==
  /\ staging \in [Path -> Content \cup {NoFile}]
  /\ permanent \in [Path -> Content \cup {NoFile}]
  /\ kept \subseteq Path

TypeCalls ==
  /\ create \in [Run -> {"idle", "open", "failed"} \cup CreateRunning]
  /\ add \in [File -> {"idle", "accepted", "rejected", "failed"} \cup AddRunning]
  /\ complete \in [Run -> {"idle", "succeeded", "failed"} \cup CompleteRunning]
  /\ taken \in [Run -> SUBSET File] /\ toMove \in [Run -> SUBSET File]
  /\ spoiled \subseteq Run

TypeCleaning ==
  /\ clean \in [Cleaner -> {"idle", "done"} \cup CleanRunning]
  /\ queue \in [Cleaner -> SUBSET Run] /\ target \in [Cleaner -> SUBSET Run]
  /\ unlink \in [Cleaner -> SUBSET File] /\ doomed \in [Cleaner -> SUBSET File]

TypeServer ==
  /\ server \in {"up", "down", "sweeping"}
  /\ loose \subseteq File /\ bootRuns \subseteq Run /\ bootRun \subseteq Run
  /\ bootDocs \subseteq File /\ bootUnlinked \subseteq File
  /\ bootDropped \subseteq Run
  /\ faults \in Nat
  /\ skipped \subseteq Run \cup File

LEMMA TypeParts ==
  TypeOK <=> TypeTables /\ TypeFiles /\ TypeCalls /\ TypeCleaning /\ TypeServer
BY DEF TypeOK, TypeTables, TypeFiles, TypeCalls, TypeCleaning, TypeServer

LEMMA TypeInit == Init => TypeOK
BY IngestionAssumption DEF Init, TypeOK

LEMMA TypeTablesStep ==
  ASSUME TypeTables, [Next]_vars
  PROVE  TypeTables'
<1> USE DEF TypeTables, tables, files, completion, cleaning, booting, history
<1>1. ASSUME NEW r \in Run,
                \/ CreateSweeps(r)
                \/ CreateOpens(r)
                \/ CreateFaults(r)
      PROVE  TypeTables'
  BY <1>1 DEF CreateSweeps, MayCall, CreateOpens, CreateBecomes, CreateFaults,
     Fails
<1>2. ASSUME NEW r \in Run, CreateInserts(r)
      PROVE  TypeTables'
  BY <1>2 DEF CreateInserts, CreateBecomes
<1>3. ASSUME NEW r \in Run,
                \/ CompleteChecks(r)
                \/ CompleteReads(r)
                \/ \E f \in File : CompleteMoves(r, f)
                \/ CompleteReports(r)
                \/ CompleteFaults(r)
      PROVE  TypeTables'
  BY <1>3 DEF CompleteChecks, MayCall, CompleteBecomes, CompleteReads,
     DocumentsOf, CompleteMoves, CompleteReports, CompleteFaults, Fails
<1>4. ASSUME NEW r \in Run, CompleteMarks(r)
      PROVE  TypeTables'
  BY <1>4 DEF CompleteMarks, CompleteBecomes
<1>5. ASSUME NEW r \in Run, CompleteRecords(r)
      PROVE  TypeTables'
  BY <1>5 DEF CompleteRecords, CompleteBecomes
<1>6. ASSUME NEW r \in Run, RemoveRun(r)
      PROVE  TypeTables'
  BY <1>6 DEF RemoveRun, MayCall, CleanBecomes
<1>7. ASSUME NEW f \in File,
                \/ AddChecks(f)
                \/ AddStages(f)
                \/ AddLooksUpHash(f)
                \/ AddDropsDuplicate(f)
                \/ AddFaults(f)
      PROVE  TypeTables'
  BY <1>7 DEF AddChecks, MayCall, AddBecomes, AddStages, AddLooksUpHash,
     AddDropsDuplicate, Removes, Fails, AddFaults
<1>8. ASSUME NEW f \in File, AddRecords(f)
      PROVE  TypeTables'
  BY <1>8 DEF AddRecords, AddBecomes
<1>9. ASSUME NEW c \in Cleaner,
                \/ \E r \in Run : CleanReads(c, r)
                \/ \E f \in File : CleanUnlinks(c, f)
                \/ CleanDropsDirectory(c)
                \/ CleanFaults(c)
      PROVE  TypeTables'
  BY <1>9 DEF CleanReads, CleanBecomes, CleanUnlinks, Removes, Fails,
     CleanDropsDirectory, CleanFaults, CleanEnds
<1>10. ASSUME NEW c \in Cleaner, CleanCommits(c)
      PROVE  TypeTables'
  BY <1>10, ZenonT(30) DEF CleanCommits, CleanBecomes, RowsWithout, LinksWithout
<1>11. ASSUME NEW c \in Content, WebFinalizes(c)
      PROVE  TypeTables'
  BY <1>11 DEF WebFinalizes
<1>12. ASSUME Crash \/ Restart \/ Listen
      PROVE  TypeTables'
  BY <1>12 DEF Crash, Fails, Restart, Listen
<1>13. ASSUME NEW f \in File, BootDeletesLoose(f)
      PROVE  TypeTables'
  BY <1>13 DEF BootDeletesLoose, Boots, Fails
<1>14. ASSUME NEW r \in Run, BootReads(r) \/ BootDropsDirectory(r)
      PROVE  TypeTables'
  BY <1>14 DEF BootReads, Boots, BootDropsDirectory, Removes, Fails
<1>15. ASSUME NEW f \in File, BootUnlinks(f)
      PROVE  TypeTables'
  BY <1>15 DEF BootUnlinks, Boots, Removes, Fails
<1>16. ASSUME NEW f \in File, BootDeletesRow(f)
      PROVE  TypeTables'
  BY <1>16 DEF BootDeletesRow, Boots, Fails
<1>17. ASSUME NEW r \in Run, BootDeletesRun(r)
      PROVE  TypeTables'
  BY <1>17 DEF BootDeletesRun, Boots, LinksWithout, Fails
<1>18. CASE UNCHANGED vars
  BY <1>18 DEF vars
<1> QED BY <1>1, <1>2, <1>3, <1>4, <1>5, <1>6, <1>7, <1>8, <1>9, <1>10, <1>11,
   <1>12, <1>13, <1>14, <1>15, <1>16, <1>17, <1>18 DEF Next, CreateStep,
   CompleteStep, AddStep, CleanStep, BootStep

LEMMA TypeFilesStep ==
  ASSUME TypeFiles, TypeCleaning, [Next]_vars
  PROVE  TypeFiles'
<1> USE IngestionAssumption, PathFacts DEF TypeFiles, tables, files,
   completion, cleaning, booting, history
<1>1. ASSUME NEW r \in Run,
                \/ CreateSweeps(r)
                \/ CreateInserts(r)
                \/ CreateOpens(r)
                \/ CreateFaults(r)
      PROVE  TypeFiles'
  BY <1>1 DEF CreateSweeps, MayCall, CreateInserts, CreateBecomes,
     CreateOpens, CreateFaults, Fails
<1>2. ASSUME NEW r \in Run,
                \/ CompleteChecks(r)
                \/ CompleteMarks(r)
                \/ CompleteReads(r)
                \/ CompleteRecords(r)
                \/ CompleteReports(r)
                \/ CompleteFaults(r)
      PROVE  TypeFiles'
  BY <1>2 DEF CompleteChecks, MayCall, CompleteBecomes, CompleteMarks,
     CompleteReads, DocumentsOf, CompleteRecords, CompleteReports,
     CompleteFaults, Fails
<1>3. ASSUME NEW r \in Run, NEW f \in File, CompleteMoves(r, f)
      PROVE  TypeFiles'
  BY <1>3 DEF CompleteMoves, CompleteBecomes
<1>4. ASSUME NEW r \in Run, RemoveRun(r)
      PROVE  TypeFiles'
  BY <1>4 DEF RemoveRun, MayCall, CleanBecomes
<1>5. ASSUME NEW f \in File,
                \/ AddChecks(f)
                \/ AddLooksUpHash(f)
                \/ AddRecords(f)
                \/ AddFaults(f)
      PROVE  TypeFiles'
  BY <1>5 DEF AddChecks, MayCall, AddBecomes, AddLooksUpHash, AddRecords,
     AddFaults, Fails
<1>6. ASSUME NEW f \in File, AddStages(f)
      PROVE  TypeFiles'
  BY <1>6 DEF AddStages, AddBecomes
<1>7. ASSUME NEW f \in File, AddDropsDuplicate(f)
      PROVE  TypeFiles'
  BY <1>7 DEF AddDropsDuplicate, AddBecomes, Removes, Fails
<1>8. ASSUME NEW c \in Cleaner,
                \/ \E r \in Run : CleanReads(c, r)
                \/ CleanCommits(c)
                \/ CleanFaults(c)
      PROVE  TypeFiles'
  BY <1>8 DEF CleanReads, CleanBecomes, CleanCommits, RowsWithout,
     LinksWithout, CleanFaults, CleanEnds, Fails
<1>9. ASSUME NEW c \in Cleaner, NEW f \in File, CleanUnlinks(c, f)
      PROVE  TypeFiles'
  BY <1>9 DEF CleanUnlinks, CleanBecomes, Removes, Fails
<1>10. ASSUME NEW c \in Cleaner, CleanDropsDirectory(c)
      PROVE  TypeFiles'
  BY <1>10 DEF CleanDropsDirectory, CleanBecomes, Removes, Fails,
     TypeCleaning, Path
<1>11. ASSUME NEW c \in Content, WebFinalizes(c)
      PROVE  TypeFiles'
  BY <1>11 DEF WebFinalizes
<1>12. ASSUME Crash \/ Restart \/ Listen
      PROVE  TypeFiles'
  BY <1>12 DEF Crash, Fails, Restart, Listen
<1>13. ASSUME NEW f \in File, BootDeletesLoose(f) \/ BootDeletesRow(f)
      PROVE  TypeFiles'
  BY <1>13 DEF BootDeletesLoose, Boots, Fails, BootDeletesRow
<1>14. ASSUME NEW r \in Run, BootReads(r) \/ BootDeletesRun(r)
      PROVE  TypeFiles'
  BY <1>14 DEF BootReads, Boots, BootDeletesRun, LinksWithout, Fails
<1>15. ASSUME NEW f \in File, BootUnlinks(f)
      PROVE  TypeFiles'
  BY <1>15 DEF BootUnlinks, Boots, Removes, Fails
<1>16. ASSUME NEW r \in Run, BootDropsDirectory(r)
      PROVE  TypeFiles'
  BY <1>16 DEF BootDropsDirectory, Boots, Removes, Fails, Path
<1>17. CASE UNCHANGED vars
  BY <1>17 DEF vars
<1> QED BY <1>1, <1>2, <1>3, <1>4, <1>5, <1>6, <1>7, <1>8, <1>9, <1>10, <1>11,
   <1>12, <1>13, <1>14, <1>15, <1>16, <1>17 DEF Next, CreateStep,
   CompleteStep, AddStep, CleanStep, BootStep

LEMMA TypeCallsStep ==
  ASSUME TypeCalls, TypeTables, [Next]_vars
  PROVE  TypeCalls'
<1> USE DEF TypeCalls, tables, files, completion, cleaning, booting, history,
   CreateRunning, AddRunning, CompleteRunning, CleanRunning
<1>1. ASSUME NEW r \in Run, CreateSweeps(r)
      PROVE  TypeCalls'
  BY <1>1 DEF CreateSweeps, MayCall
<1>2. ASSUME NEW r \in Run, CreateInserts(r)
      PROVE  TypeCalls'
  BY <1>2 DEF CreateInserts, CreateBecomes
<1>3. ASSUME NEW r \in Run, CreateOpens(r)
      PROVE  TypeCalls'
  BY <1>3 DEF CreateOpens, CreateBecomes
<1>4. ASSUME NEW r \in Run, CreateFaults(r)
      PROVE  TypeCalls'
  BY <1>4 DEF CreateFaults, CreateBecomes, Fails
<1>5. ASSUME NEW r \in Run, CompleteChecks(r)
      PROVE  TypeCalls'
  BY <1>5 DEF CompleteChecks, MayCall, CompleteBecomes
<1>6. ASSUME NEW r \in Run, CompleteMarks(r)
      PROVE  TypeCalls'
  BY <1>6 DEF CompleteMarks, CompleteBecomes
<1>7. ASSUME NEW r \in Run, CompleteReads(r)
      PROVE  TypeCalls'
  BY <1>7 DEF CompleteReads, CompleteBecomes, DocumentsOf, TypeTables
<1>8. ASSUME NEW r \in Run, NEW f \in File, CompleteMoves(r, f)
      PROVE  TypeCalls'
  BY <1>8 DEF CompleteMoves, CompleteBecomes, HasMoved
<1>9. ASSUME NEW r \in Run, CompleteRecords(r)
      PROVE  TypeCalls'
  BY <1>9 DEF CompleteRecords, CompleteBecomes, HasMoved
<1>10. ASSUME NEW r \in Run, CompleteReports(r)
      PROVE  TypeCalls'
  BY <1>10 DEF CompleteReports, CompleteBecomes
<1>11. ASSUME NEW r \in Run, CompleteFaults(r)
      PROVE  TypeCalls'
  BY <1>11 DEF CompleteFaults, CompleteBecomes, Fails, HasMoved
<1>12. ASSUME NEW r \in Run, RemoveRun(r)
      PROVE  TypeCalls'
  BY <1>12 DEF RemoveRun, MayCall, CleanBecomes
<1>13. ASSUME NEW f \in File, AddChecks(f)
      PROVE  TypeCalls'
  BY <1>13 DEF AddChecks, MayCall, AddBecomes
<1>14. ASSUME NEW f \in File, AddStages(f)
      PROVE  TypeCalls'
  BY <1>14 DEF AddStages, AddBecomes
<1>15. ASSUME NEW f \in File, AddLooksUpHash(f)
      PROVE  TypeCalls'
  BY <1>15 DEF AddLooksUpHash, AddBecomes
<1>16. ASSUME NEW f \in File, AddDropsDuplicate(f)
      PROVE  TypeCalls'
  BY <1>16 DEF AddDropsDuplicate, AddBecomes, Removes, Fails
<1>17. ASSUME NEW f \in File, AddRecords(f)
      PROVE  TypeCalls'
  BY <1>17 DEF AddRecords, AddBecomes
<1>18. ASSUME NEW f \in File, AddFaults(f)
      PROVE  TypeCalls'
  BY <1>18 DEF AddFaults, AddBecomes, Fails
<1>19. ASSUME NEW c \in Cleaner,
                \/ \E r \in Run : CleanReads(c, r)
                \/ \E f \in File : CleanUnlinks(c, f)
                \/ CleanDropsDirectory(c)
                \/ CleanCommits(c)
      PROVE  TypeCalls'
  BY <1>19 DEF CleanReads, CleanBecomes, CleanUnlinks, Removes, Fails,
     CleanDropsDirectory, CleanCommits, RowsWithout, LinksWithout
<1>20. ASSUME NEW c \in Cleaner, CleanFaults(c)
      PROVE  TypeCalls'
  BY <1>20, CleanerFacts DEF CleanFaults, CleanEnds, Fails
<1>21. ASSUME NEW c \in Content, WebFinalizes(c)
      PROVE  TypeCalls'
  BY <1>21 DEF WebFinalizes
<1>22. ASSUME Crash
      PROVE  TypeCalls'
  BY <1>22 DEF Crash, Fails, HasMoved
<1>23. ASSUME Restart \/ Listen
      PROVE  TypeCalls'
  BY <1>23 DEF Restart, Listen
<1>24. ASSUME NEW f \in File,
                \/ BootDeletesLoose(f)
                \/ BootUnlinks(f)
                \/ BootDeletesRow(f)
      PROVE  TypeCalls'
  BY <1>24 DEF BootDeletesLoose, Boots, Fails, BootUnlinks, Removes,
     BootDeletesRow
<1>25. ASSUME NEW r \in Run,
                \/ BootReads(r)
                \/ BootDropsDirectory(r)
                \/ BootDeletesRun(r)
      PROVE  TypeCalls'
  BY <1>25 DEF BootReads, Boots, BootDropsDirectory, Removes, Fails,
     BootDeletesRun, LinksWithout
<1>26. CASE UNCHANGED vars
  BY <1>26 DEF vars
<1> QED BY <1>1, <1>2, <1>3, <1>4, <1>5, <1>6, <1>7, <1>8, <1>9, <1>10, <1>11,
   <1>12, <1>13, <1>14, <1>15, <1>16, <1>17, <1>18, <1>19, <1>20, <1>21,
   <1>22, <1>23, <1>24, <1>25, <1>26 DEF Next, CreateStep, CompleteStep,
   AddStep, CleanStep, BootStep

LEMMA TypeCleaningStep ==
  ASSUME TypeCleaning, TypeTables, [Next]_vars
  PROVE  TypeCleaning'
<1> USE CleanerFacts DEF TypeCleaning, tables, files, completion, cleaning,
   booting, history, CleanRunning
<1>1. ASSUME NEW r \in Run, CreateSweeps(r)
      PROVE  TypeCleaning'
  BY <1>1 DEF CreateSweeps, MayCall, Incomplete
<1>2. ASSUME NEW r \in Run,
                \/ CreateInserts(r)
                \/ CreateOpens(r)
                \/ CreateFaults(r)
      PROVE  TypeCleaning'
  BY <1>2 DEF CreateInserts, CreateBecomes, CreateOpens, CreateFaults, Fails
<1>3. ASSUME NEW r \in Run,
                \/ CompleteChecks(r)
                \/ CompleteMarks(r)
                \/ CompleteReads(r)
                \/ \E f \in File : CompleteMoves(r, f)
                \/ CompleteRecords(r)
                \/ CompleteReports(r)
                \/ CompleteFaults(r)
      PROVE  TypeCleaning'
  BY <1>3 DEF CompleteChecks, MayCall, CompleteBecomes, CompleteMarks,
     CompleteReads, DocumentsOf, CompleteMoves, CompleteRecords,
     CompleteReports, CompleteFaults, Fails
<1>4. ASSUME NEW r \in Run, RemoveRun(r)
      PROVE  TypeCleaning'
  BY <1>4, ZenonT(30) DEF RemoveRun, MayCall, CleanBecomes
<1>5. ASSUME NEW f \in File,
                \/ AddChecks(f)
                \/ AddStages(f)
                \/ AddLooksUpHash(f)
                \/ AddDropsDuplicate(f)
                \/ AddRecords(f)
                \/ AddFaults(f)
      PROVE  TypeCleaning'
  BY <1>5 DEF AddChecks, MayCall, AddBecomes, AddStages, AddLooksUpHash,
     AddDropsDuplicate, Removes, Fails, AddRecords, AddFaults
<1>6. ASSUME NEW c \in Cleaner, NEW r \in Run, CleanReads(c, r)
      PROVE  TypeCleaning'
  BY <1>6 DEF CleanReads, CleanBecomes, TypeTables, DocumentsOf
<1>7. ASSUME NEW c \in Cleaner, NEW f \in File, CleanUnlinks(c, f)
      PROVE  TypeCleaning'
  BY <1>7 DEF CleanUnlinks, CleanBecomes, Removes, Fails
<1>8. ASSUME NEW c \in Cleaner, CleanDropsDirectory(c)
      PROVE  TypeCleaning'
  BY <1>8 DEF CleanDropsDirectory, CleanBecomes, Removes, Fails
<1>9. ASSUME NEW c \in Cleaner, CleanCommits(c)
      PROVE  TypeCleaning'
  BY <1>9 DEF CleanCommits, CleanBecomes, RowsWithout, LinksWithout
<1>10. ASSUME NEW c \in Cleaner, CleanFaults(c)
      PROVE  TypeCleaning'
  BY <1>10 DEF CleanFaults, CleanEnds, Fails
<1>11. ASSUME NEW c \in Content, WebFinalizes(c)
      PROVE  TypeCleaning'
  BY <1>11 DEF WebFinalizes
<1>12. ASSUME Crash
      PROVE  TypeCleaning'
  BY <1>12 DEF Crash, Fails
<1>13. ASSUME Restart \/ Listen
      PROVE  TypeCleaning'
  BY <1>13 DEF Restart, Listen
<1>14. ASSUME NEW f \in File,
                \/ BootDeletesLoose(f)
                \/ BootUnlinks(f)
                \/ BootDeletesRow(f)
      PROVE  TypeCleaning'
  BY <1>14 DEF BootDeletesLoose, Boots, Fails, BootUnlinks, Removes,
     BootDeletesRow
<1>15. ASSUME NEW r \in Run,
                \/ BootReads(r)
                \/ BootDropsDirectory(r)
                \/ BootDeletesRun(r)
      PROVE  TypeCleaning'
  BY <1>15 DEF BootReads, Boots, BootDropsDirectory, Removes, Fails,
     BootDeletesRun, LinksWithout
<1>16. CASE UNCHANGED vars
  BY <1>16 DEF vars
<1> QED BY <1>1, <1>2, <1>3, <1>4, <1>5, <1>6, <1>7, <1>8, <1>9, <1>10, <1>11,
   <1>12, <1>13, <1>14, <1>15, <1>16 DEF Next, CreateStep, CompleteStep,
   AddStep, CleanStep, BootStep

LEMMA TypeServerStep ==
  ASSUME TypeServer, TypeTables, [Next]_vars
  PROVE  TypeServer'
<1> USE IngestionAssumption DEF TypeServer, tables, files, completion,
   cleaning, booting, history
<1>1. ASSUME NEW r \in Run,
                \/ CreateSweeps(r)
                \/ CreateInserts(r)
                \/ CreateOpens(r)
                \/ CreateFaults(r)
      PROVE  TypeServer'
  BY <1>1 DEF CreateSweeps, MayCall, CreateInserts, CreateBecomes,
     CreateOpens, CreateFaults, Fails
<1>2. ASSUME NEW r \in Run,
                \/ CompleteChecks(r)
                \/ CompleteMarks(r)
                \/ CompleteReads(r)
                \/ \E f \in File : CompleteMoves(r, f)
                \/ CompleteRecords(r)
                \/ CompleteReports(r)
                \/ CompleteFaults(r)
      PROVE  TypeServer'
  BY <1>2 DEF CompleteChecks, MayCall, CompleteBecomes, CompleteMarks,
     CompleteReads, DocumentsOf, CompleteMoves, CompleteRecords,
     CompleteReports, CompleteFaults, Fails
<1>3. ASSUME NEW r \in Run, RemoveRun(r)
      PROVE  TypeServer'
  BY <1>3 DEF RemoveRun, MayCall, CleanBecomes
<1>4. ASSUME NEW f \in File,
                \/ AddChecks(f)
                \/ AddStages(f)
                \/ AddLooksUpHash(f)
                \/ AddDropsDuplicate(f)
                \/ AddRecords(f)
                \/ AddFaults(f)
      PROVE  TypeServer'
  BY <1>4 DEF AddChecks, MayCall, AddBecomes, AddStages, AddLooksUpHash,
     AddDropsDuplicate, Removes, Fails, AddRecords, AddFaults
<1>5. ASSUME NEW c \in Cleaner,
                \/ \E r \in Run : CleanReads(c, r)
                \/ \E f \in File : CleanUnlinks(c, f)
                \/ CleanDropsDirectory(c)
                \/ CleanCommits(c)
                \/ CleanFaults(c)
      PROVE  TypeServer'
  BY <1>5 DEF CleanReads, CleanBecomes, CleanUnlinks, Removes, Fails,
     CleanDropsDirectory, CleanCommits, RowsWithout, LinksWithout,
     CleanFaults, CleanEnds
<1>6. ASSUME NEW c \in Content, WebFinalizes(c)
      PROVE  TypeServer'
  BY <1>6 DEF WebFinalizes
<1>7. ASSUME Crash
      PROVE  TypeServer'
  BY <1>7 DEF Crash, Fails
<1>8. ASSUME Restart
      PROVE  TypeServer'
  BY <1>8 DEF Restart, TypeTables, Incomplete
<1>9. ASSUME NEW f \in File, BootDeletesLoose(f)
      PROVE  TypeServer'
  BY <1>9 DEF BootDeletesLoose, Boots, Fails
<1>10. ASSUME NEW r \in Run, BootReads(r)
      PROVE  TypeServer'
  BY <1>10 DEF BootReads, Boots, TypeTables, DocumentsOf
<1>11. ASSUME NEW f \in File, BootUnlinks(f)
      PROVE  TypeServer'
  BY <1>11 DEF BootUnlinks, Boots, Removes, Fails
<1>12. ASSUME NEW f \in File, BootDeletesRow(f)
      PROVE  TypeServer'
  BY <1>12 DEF BootDeletesRow, Boots, Fails
<1>13. ASSUME NEW r \in Run, BootDropsDirectory(r)
      PROVE  TypeServer'
  BY <1>13 DEF BootDropsDirectory, Boots, Removes, Fails
<1>14. ASSUME NEW r \in Run, BootDeletesRun(r)
      PROVE  TypeServer'
  BY <1>14 DEF BootDeletesRun, Boots, LinksWithout, Fails
<1>15. ASSUME Listen
      PROVE  TypeServer'
  BY <1>15 DEF Listen
<1>16. CASE UNCHANGED vars
  BY <1>16 DEF vars
<1> QED BY <1>1, <1>2, <1>3, <1>4, <1>5, <1>6, <1>7, <1>8, <1>9, <1>10, <1>11,
   <1>12, <1>13, <1>14, <1>15, <1>16 DEF Next, CreateStep, CompleteStep,
   AddStep, CleanStep, BootStep

LEMMA TypeStep == TypeOK /\ [Next]_vars => TypeOK'
<1> SUFFICES ASSUME TypeOK, [Next]_vars
             PROVE  TypeOK'
  OBVIOUS
<1>1. TypeTables /\ TypeFiles /\ TypeCalls /\ TypeCleaning /\ TypeServer
  BY TypeParts
<1>2. TypeTables' /\ TypeFiles' /\ TypeCalls' /\ TypeCleaning' /\ TypeServer'
  BY <1>1, TypeTablesStep, TypeFilesStep, TypeCallsStep, TypeCleaningStep,
     TypeServerStep
<1> QED BY <1>2 DEF TypeOK, TypeTables, TypeFiles, TypeCalls, TypeCleaning,
   TypeServer

\* Each column, path and set keeps to its values, whatever the calls, the
\* faults and the crashes.
THEOREM TypeCorrect == Spec => []TypeOK
BY TypeInit, TypeStep, PTL DEF Spec

-----------------------------------------------------------------------------
(***************************************************************************)
(* What holds whatever calls overlap.  Submitted: a path holds what one of *)
(* its files held.  Moved: nothing is taken out of permanent storage, so   *)
(* what completeRun has moved is still there when it commits.  Unique: the *)
(* index on the hash.  ForeignKey: a link leads to a run.                  *)
(***************************************************************************)
Cleared(p) == staging[p] = NoFile \/ p \in kept

Submitted ==
  \A p \in Path :
    /\ staging[p] # NoFile =>
         \E g \in File : Slot(g) = p /\ staging[p] = ContentOf[g]
    /\ permanent[p] # NoFile =>
         \E g \in File : Slot(g) = p /\ permanent[p] = ContentOf[g]

Moved ==
  /\ \A r \in Run :
       /\ toMove[r] \subseteq taken[r]
       /\ \A f \in taken[r] : RunOf[f] = r
       /\ \A f \in taken[r] \ toMove[r] : permanent[Slot(f)] # NoFile
  /\ \A f \in File : row[f] = "finalized" => permanent[Slot(f)] # NoFile

Unique ==
  \A f \in File : row[f] = "finalized" =>
    /\ ContentOf[f] \notin web
    /\ \A g \in File : row[g] = "finalized" /\ g # f => ContentOf[g] # ContentOf[f]

ForeignKey == \A f \in linked : row[f] # "none" /\ runStatus[RunOf[f]] # "none"

\* The sweeps of start(): BootRest, what they work on is empty at any other
\* time, and no call is at work meanwhile; BootLists, the lists of the one are
\* rows without a run, those of the other unfinished runs, taken one by one;
\* BootFiles, files go before rows; Clears, what is unfinished is on a list.
BootRest ==
  /\ server # "up" => Quiet
  /\ server # "sweeping" =>
       /\ loose = {} /\ bootRuns = {} /\ bootRun = {} /\ bootDocs = {}
       /\ bootUnlinked = {} /\ bootDropped = {}

BootLists ==
  /\ \A f \in loose : row[f] = "uploaded" /\ f \notin linked
  /\ bootRuns \cup bootRun \cup bootDropped \subseteq Incomplete
  /\ bootRuns \cap (bootRun \cup bootDropped) = {}
  /\ \A q, r \in bootRun : q = r
  /\ \A q, r \in bootDropped : q = r
  /\ bootRun = {} \/ (loose = {} /\ bootDropped = {})
  /\ \A f \in bootDocs : RunOf[f] \in bootRun
  /\ bootUnlinked \subseteq bootDocs

BootFiles ==
  /\ \A f \in bootUnlinked : Cleared(Slot(f))
  /\ \A r \in bootDropped, n \in Name : Cleared(<<r, n>>)

Clears == server = "sweeping" =>
  /\ Incomplete \subseteq bootRuns \cup bootRun \cup bootDropped \cup skipped
  /\ \A f \in File : row[f] = "uploaded" =>
       \/ f \in skipped \cup loose \cup bootDocs
       \/ runStatus[RunOf[f]] = "completed"
       \/ f \in linked /\ RunOf[f] \in bootRuns

LEMMA SubmittedStep ==
  ASSUME TypeOK, Submitted, [Next]_vars
  PROVE  Submitted'
<1> USE IngestionAssumption, PathFacts, TypeParts DEF TypeFiles, Submitted,
   tables, files, completion, cleaning, booting, history
<1>1. ASSUME NEW r \in Run,
                \/ CreateSweeps(r)
                \/ CreateInserts(r)
                \/ CreateOpens(r)
                \/ CreateFaults(r)
      PROVE  Submitted'
  BY <1>1 DEF CreateSweeps, MayCall, CreateInserts, CreateBecomes,
     CreateOpens, CreateFaults, Fails
<1>2. ASSUME NEW r \in Run,
                \/ CompleteChecks(r)
                \/ CompleteMarks(r)
                \/ CompleteReads(r)
                \/ CompleteRecords(r)
                \/ CompleteReports(r)
                \/ CompleteFaults(r)
      PROVE  Submitted'
  BY <1>2 DEF CompleteChecks, MayCall, CompleteBecomes, CompleteMarks,
     CompleteReads, DocumentsOf, CompleteRecords, CompleteReports,
     CompleteFaults, Fails
<1>3. ASSUME NEW r \in Run, NEW f \in File, CompleteMoves(r, f)
      PROVE  Submitted'
  BY <1>3 DEF CompleteMoves, CompleteBecomes
<1>4. ASSUME NEW r \in Run, RemoveRun(r)
      PROVE  Submitted'
  BY <1>4 DEF RemoveRun, MayCall, CleanBecomes
<1>5. ASSUME NEW f \in File,
                \/ AddChecks(f)
                \/ AddLooksUpHash(f)
                \/ AddRecords(f)
                \/ AddFaults(f)
      PROVE  Submitted'
  BY <1>5 DEF AddChecks, MayCall, AddBecomes, AddLooksUpHash, AddRecords,
     AddFaults, Fails
<1>6. ASSUME NEW f \in File, AddStages(f)
      PROVE  Submitted'
  BY <1>6 DEF AddStages, AddBecomes
<1>7. ASSUME NEW f \in File, AddDropsDuplicate(f)
      PROVE  Submitted'
  BY <1>7 DEF AddDropsDuplicate, AddBecomes, Removes, Fails
<1>8. ASSUME NEW c \in Cleaner,
                \/ \E r \in Run : CleanReads(c, r)
                \/ CleanCommits(c)
                \/ CleanFaults(c)
      PROVE  Submitted'
  BY <1>8 DEF CleanReads, CleanBecomes, CleanCommits, RowsWithout,
     LinksWithout, CleanFaults, CleanEnds, Fails
<1>9. ASSUME NEW c \in Cleaner, NEW f \in File, CleanUnlinks(c, f)
      PROVE  Submitted'
  BY <1>9 DEF CleanUnlinks, CleanBecomes, Removes, Fails
<1>10. ASSUME NEW c \in Cleaner, CleanDropsDirectory(c)
      PROVE  Submitted'
  BY <1>10 DEF CleanDropsDirectory, CleanBecomes, Removes, Fails
<1>11. ASSUME NEW c \in Content, WebFinalizes(c)
      PROVE  Submitted'
  BY <1>11 DEF WebFinalizes
<1>12. ASSUME Crash \/ Restart \/ Listen
      PROVE  Submitted'
  BY <1>12 DEF Crash, Fails, Restart, Listen
<1>13. ASSUME NEW f \in File, BootDeletesLoose(f) \/ BootDeletesRow(f)
      PROVE  Submitted'
  BY <1>13 DEF BootDeletesLoose, Boots, Fails, BootDeletesRow
<1>14. ASSUME NEW r \in Run, BootReads(r) \/ BootDeletesRun(r)
      PROVE  Submitted'
  BY <1>14 DEF BootReads, Boots, BootDeletesRun, LinksWithout, Fails
<1>15. ASSUME NEW f \in File, BootUnlinks(f)
      PROVE  Submitted'
  BY <1>15 DEF BootUnlinks, Boots, Removes, Fails
<1>16. ASSUME NEW r \in Run, BootDropsDirectory(r)
      PROVE  Submitted'
  BY <1>16 DEF BootDropsDirectory, Boots, Removes, Fails
<1>17. CASE UNCHANGED vars
  BY <1>17 DEF vars
<1> QED BY <1>1, <1>2, <1>3, <1>4, <1>5, <1>6, <1>7, <1>8, <1>9, <1>10, <1>11,
   <1>12, <1>13, <1>14, <1>15, <1>16, <1>17 DEF Next, CreateStep,
   CompleteStep, AddStep, CleanStep, BootStep

LEMMA MovedStep ==
  ASSUME TypeOK, Moved, [Next]_vars
  PROVE  Moved'
<1> USE IngestionAssumption, PathFacts, TypeParts DEF TypeTables, TypeFiles,
   TypeCalls, Moved, tables, files, completion, cleaning, booting, history
<1>1. ASSUME NEW r \in Run,
                \/ CreateSweeps(r)
                \/ CreateInserts(r)
                \/ CreateOpens(r)
                \/ CreateFaults(r)
      PROVE  Moved'
  BY <1>1 DEF CreateSweeps, MayCall, CreateInserts, CreateBecomes,
     CreateOpens, CreateFaults, Fails
<1>2. ASSUME NEW r \in Run,
                \/ CompleteChecks(r)
                \/ CompleteMarks(r)
                \/ CompleteReports(r)
                \/ CompleteFaults(r)
      PROVE  Moved'
  BY <1>2 DEF CompleteChecks, MayCall, CompleteBecomes, CompleteMarks,
     CompleteReports, CompleteFaults, Fails
<1>3. ASSUME NEW r \in Run, CompleteReads(r)
      PROVE  Moved'
  BY <1>3 DEF CompleteReads, CompleteBecomes, DocumentsOf
<1>4. ASSUME NEW r \in Run, NEW f \in File, CompleteMoves(r, f)
      PROVE  Moved'
  <2>1. CASE staging[Slot(f)] # NoFile
    <3>1. \A p \in Path : permanent[p] # NoFile => permanent'[p] # NoFile
      BY <1>4, <2>1 DEF CompleteMoves
    <3>2. permanent'[Slot(f)] # NoFile
      BY <1>4, <2>1 DEF CompleteMoves
    <3>3. /\ taken' = taken /\ row' = row /\ f \in toMove[r]
          /\ toMove'[r] = toMove[r] \ {f}
          /\ \A q \in Run \ {r} : toMove'[q] = toMove[q]
      BY <1>4, <2>1 DEF CompleteMoves, CompleteBecomes
    <3> QED BY <3>1, <3>2, <3>3
  <2>2. CASE staging[Slot(f)] = NoFile
    BY <1>4, <2>2 DEF CompleteMoves, CompleteBecomes
  <2> QED BY <2>1, <2>2
<1>5. ASSUME NEW r \in Run, CompleteRecords(r)
      PROVE  Moved'
  BY <1>5 DEF CompleteRecords, CompleteBecomes
<1>6. ASSUME NEW r \in Run, RemoveRun(r)
      PROVE  Moved'
  BY <1>6 DEF RemoveRun, MayCall, CleanBecomes
<1>7. ASSUME NEW f \in File,
                \/ AddChecks(f)
                \/ AddStages(f)
                \/ AddLooksUpHash(f)
                \/ AddDropsDuplicate(f)
                \/ AddFaults(f)
      PROVE  Moved'
  BY <1>7 DEF AddChecks, MayCall, AddBecomes, AddStages, AddLooksUpHash,
     AddDropsDuplicate, Removes, Fails, AddFaults
<1>8. ASSUME NEW f \in File, AddRecords(f)
      PROVE  Moved'
  BY <1>8 DEF AddRecords, AddBecomes
<1>9. ASSUME NEW c \in Cleaner,
                \/ \E r \in Run : CleanReads(c, r)
                \/ \E f \in File : CleanUnlinks(c, f)
                \/ CleanDropsDirectory(c)
                \/ CleanFaults(c)
      PROVE  Moved'
  BY <1>9 DEF CleanReads, CleanBecomes, CleanUnlinks, Removes, Fails,
     CleanDropsDirectory, CleanFaults, CleanEnds
<1>10. ASSUME NEW c \in Cleaner, CleanCommits(c)
      PROVE  Moved'
  BY <1>10 DEF CleanCommits, CleanBecomes, RowsWithout, LinksWithout
<1>11. ASSUME NEW c \in Content, WebFinalizes(c)
      PROVE  Moved'
  BY <1>11 DEF WebFinalizes
<1>12. ASSUME Crash \/ Restart \/ Listen
      PROVE  Moved'
  BY <1>12 DEF Crash, Fails, Restart, Listen
<1>13. ASSUME NEW f \in File, BootDeletesLoose(f)
      PROVE  Moved'
  BY <1>13 DEF BootDeletesLoose, Boots, Fails
<1>14. ASSUME NEW r \in Run,
                \/ BootReads(r)
                \/ BootDropsDirectory(r)
                \/ BootDeletesRun(r)
      PROVE  Moved'
  BY <1>14 DEF BootReads, Boots, BootDropsDirectory, Removes, Fails,
     BootDeletesRun, LinksWithout
<1>15. ASSUME NEW f \in File, BootUnlinks(f)
      PROVE  Moved'
  BY <1>15 DEF BootUnlinks, Boots, Removes, Fails
<1>16. ASSUME NEW f \in File, BootDeletesRow(f)
      PROVE  Moved'
  BY <1>16 DEF BootDeletesRow, Boots, Fails
<1>17. CASE UNCHANGED vars
  BY <1>17 DEF vars
<1> QED BY <1>1, <1>2, <1>3, <1>4, <1>5, <1>6, <1>7, <1>8, <1>9, <1>10, <1>11,
   <1>12, <1>13, <1>14, <1>15, <1>16, <1>17 DEF Next, CreateStep,
   CompleteStep, AddStep, CleanStep, BootStep

LEMMA UniqueStep ==
  ASSUME TypeOK, Unique, [Next]_vars
  PROVE  Unique'
<1> USE IngestionAssumption, TypeParts DEF TypeTables, Unique, tables, files,
   completion, cleaning, booting, history
<1>1. ASSUME NEW r \in Run,
                \/ CreateSweeps(r)
                \/ CreateInserts(r)
                \/ CreateOpens(r)
                \/ CreateFaults(r)
      PROVE  Unique'
  BY <1>1 DEF CreateSweeps, MayCall, CreateInserts, CreateBecomes,
     CreateOpens, CreateFaults, Fails
<1>2. ASSUME NEW r \in Run,
                \/ CompleteChecks(r)
                \/ CompleteMarks(r)
                \/ CompleteReads(r)
                \/ \E f \in File : CompleteMoves(r, f)
                \/ CompleteReports(r)
                \/ CompleteFaults(r)
      PROVE  Unique'
  BY <1>2 DEF CompleteChecks, MayCall, CompleteBecomes, CompleteMarks,
     CompleteReads, DocumentsOf, CompleteMoves, CompleteReports,
     CompleteFaults, Fails
<1>3. ASSUME NEW r \in Run, CompleteRecords(r)
      PROVE  Unique'
  BY <1>3 DEF CompleteRecords, CompleteBecomes, IsArchived, TypeCalls
<1>4. ASSUME NEW r \in Run, RemoveRun(r)
      PROVE  Unique'
  BY <1>4 DEF RemoveRun, MayCall, CleanBecomes
<1>5. ASSUME NEW f \in File,
                \/ AddChecks(f)
                \/ AddStages(f)
                \/ AddLooksUpHash(f)
                \/ AddDropsDuplicate(f)
                \/ AddFaults(f)
      PROVE  Unique'
  BY <1>5 DEF AddChecks, MayCall, AddBecomes, AddStages, AddLooksUpHash,
     AddDropsDuplicate, Removes, Fails, AddFaults
<1>6. ASSUME NEW f \in File, AddRecords(f)
      PROVE  Unique'
  BY <1>6 DEF AddRecords, AddBecomes
<1>7. ASSUME NEW c \in Cleaner,
                \/ \E r \in Run : CleanReads(c, r)
                \/ \E f \in File : CleanUnlinks(c, f)
                \/ CleanDropsDirectory(c)
                \/ CleanFaults(c)
      PROVE  Unique'
  BY <1>7 DEF CleanReads, CleanBecomes, CleanUnlinks, Removes, Fails,
     CleanDropsDirectory, CleanFaults, CleanEnds
<1>8. ASSUME NEW c \in Cleaner, CleanCommits(c)
      PROVE  Unique'
  BY <1>8 DEF CleanCommits, CleanBecomes, RowsWithout, LinksWithout
<1>9. ASSUME NEW c \in Content, WebFinalizes(c)
      PROVE  Unique'
  BY <1>9 DEF WebFinalizes, IsArchived
<1>10. ASSUME Crash \/ Restart \/ Listen
      PROVE  Unique'
  BY <1>10 DEF Crash, Fails, Restart, Listen
<1>11. ASSUME NEW f \in File, BootDeletesLoose(f)
      PROVE  Unique'
  BY <1>11 DEF BootDeletesLoose, Boots, Fails
<1>12. ASSUME NEW r \in Run,
                \/ BootReads(r)
                \/ BootDropsDirectory(r)
                \/ BootDeletesRun(r)
      PROVE  Unique'
  BY <1>12 DEF BootReads, Boots, BootDropsDirectory, Removes, Fails,
     BootDeletesRun, LinksWithout
<1>13. ASSUME NEW f \in File, BootUnlinks(f)
      PROVE  Unique'
  BY <1>13 DEF BootUnlinks, Boots, Removes, Fails
<1>14. ASSUME NEW f \in File, BootDeletesRow(f)
      PROVE  Unique'
  BY <1>14 DEF BootDeletesRow, Boots, Fails
<1>15. CASE UNCHANGED vars
  BY <1>15 DEF vars
<1> QED BY <1>1, <1>2, <1>3, <1>4, <1>5, <1>6, <1>7, <1>8, <1>9, <1>10, <1>11,
   <1>12, <1>13, <1>14, <1>15 DEF Next, CreateStep, CompleteStep, AddStep,
   CleanStep, BootStep

LEMMA ForeignKeyStep ==
  ASSUME TypeOK, ForeignKey, BootLists, [Next]_vars
  PROVE  ForeignKey'
<1> USE IngestionAssumption, TypeParts DEF TypeTables, ForeignKey, tables,
   files, completion, cleaning, booting, history
<1>1. ASSUME NEW r \in Run,
                \/ CreateSweeps(r)
                \/ CreateOpens(r)
                \/ CreateFaults(r)
      PROVE  ForeignKey'
  BY <1>1 DEF CreateSweeps, MayCall, CreateOpens, CreateBecomes, CreateFaults,
     Fails
<1>2. ASSUME NEW r \in Run, CreateInserts(r)
      PROVE  ForeignKey'
  BY <1>2 DEF CreateInserts, CreateBecomes
<1>3. ASSUME NEW r \in Run,
                \/ CompleteChecks(r)
                \/ CompleteReads(r)
                \/ \E f \in File : CompleteMoves(r, f)
                \/ CompleteReports(r)
                \/ CompleteFaults(r)
      PROVE  ForeignKey'
  BY <1>3 DEF CompleteChecks, MayCall, CompleteBecomes, CompleteReads,
     DocumentsOf, CompleteMoves, CompleteReports, CompleteFaults, Fails
<1>4. ASSUME NEW r \in Run, CompleteMarks(r)
      PROVE  ForeignKey'
  BY <1>4 DEF CompleteMarks, CompleteBecomes
<1>5. ASSUME NEW r \in Run, CompleteRecords(r)
      PROVE  ForeignKey'
  BY <1>5 DEF CompleteRecords, CompleteBecomes
<1>6. ASSUME NEW r \in Run, RemoveRun(r)
      PROVE  ForeignKey'
  BY <1>6 DEF RemoveRun, MayCall, CleanBecomes
<1>7. ASSUME NEW f \in File,
                \/ AddChecks(f)
                \/ AddStages(f)
                \/ AddLooksUpHash(f)
                \/ AddDropsDuplicate(f)
                \/ AddFaults(f)
      PROVE  ForeignKey'
  BY <1>7 DEF AddChecks, MayCall, AddBecomes, AddStages, AddLooksUpHash,
     AddDropsDuplicate, Removes, Fails, AddFaults
<1>8. ASSUME NEW f \in File, AddRecords(f)
      PROVE  ForeignKey'
  BY <1>8 DEF AddRecords, AddBecomes
<1>9. ASSUME NEW c \in Cleaner,
                \/ \E r \in Run : CleanReads(c, r)
                \/ \E f \in File : CleanUnlinks(c, f)
                \/ CleanDropsDirectory(c)
                \/ CleanFaults(c)
      PROVE  ForeignKey'
  BY <1>9 DEF CleanReads, CleanBecomes, CleanUnlinks, Removes, Fails,
     CleanDropsDirectory, CleanFaults, CleanEnds
<1>10. ASSUME NEW c \in Cleaner, CleanCommits(c)
      PROVE  ForeignKey'
  BY <1>10 DEF CleanCommits, CleanBecomes, RowsWithout, LinksWithout
<1>11. ASSUME NEW c \in Content, WebFinalizes(c)
      PROVE  ForeignKey'
  BY <1>11 DEF WebFinalizes
<1>12. ASSUME Crash \/ Restart \/ Listen
      PROVE  ForeignKey'
  BY <1>12 DEF Crash, Fails, Restart, Listen
<1>13. ASSUME NEW f \in File, BootDeletesLoose(f)
      PROVE  ForeignKey'
  BY <1>13 DEF BootDeletesLoose, Boots, Fails, BootLists
<1>14. ASSUME NEW r \in Run, BootReads(r) \/ BootDropsDirectory(r)
      PROVE  ForeignKey'
  BY <1>14 DEF BootReads, Boots, BootDropsDirectory, Removes, Fails
<1>15. ASSUME NEW f \in File, BootUnlinks(f)
      PROVE  ForeignKey'
  BY <1>15 DEF BootUnlinks, Boots, Removes, Fails
<1>16. ASSUME NEW f \in File, BootDeletesRow(f)
      PROVE  ForeignKey'
  BY <1>16 DEF BootDeletesRow, Boots, Fails
<1>17. ASSUME NEW r \in Run, BootDeletesRun(r)
      PROVE  ForeignKey'
  BY <1>17 DEF BootDeletesRun, Boots, LinksWithout, Fails
<1>18. CASE UNCHANGED vars
  BY <1>18 DEF vars
<1> QED BY <1>1, <1>2, <1>3, <1>4, <1>5, <1>6, <1>7, <1>8, <1>9, <1>10, <1>11,
   <1>12, <1>13, <1>14, <1>15, <1>16, <1>17, <1>18 DEF Next, CreateStep,
   CompleteStep, AddStep, CleanStep, BootStep

LEMMA BootRestStep ==
  ASSUME TypeOK, BootRest, BootLists, [Next]_vars
  PROVE  BootRest'
<1> USE TypeParts DEF TypeServer, BootRest, tables, files, completion,
   cleaning, booting, history
<1>1. ASSUME NEW r \in Run,
                \/ CreateSweeps(r)
                \/ CreateInserts(r)
                \/ CreateOpens(r)
                \/ CreateFaults(r)
      PROVE  BootRest'
  BY <1>1 DEF CreateSweeps, MayCall, CreateInserts, CreateBecomes,
     CreateOpens, CreateFaults, Fails
<1>2. ASSUME NEW r \in Run,
                \/ CompleteChecks(r)
                \/ CompleteMarks(r)
                \/ CompleteReads(r)
                \/ \E f \in File : CompleteMoves(r, f)
                \/ CompleteRecords(r)
                \/ CompleteReports(r)
                \/ CompleteFaults(r)
      PROVE  BootRest'
  BY <1>2 DEF CompleteChecks, MayCall, CompleteBecomes, CompleteMarks,
     CompleteReads, DocumentsOf, CompleteMoves, CompleteRecords,
     CompleteReports, CompleteFaults, Fails
<1>3. ASSUME NEW r \in Run, RemoveRun(r)
      PROVE  BootRest'
  BY <1>3 DEF RemoveRun, MayCall, CleanBecomes
<1>4. ASSUME NEW f \in File,
                \/ AddChecks(f)
                \/ AddStages(f)
                \/ AddLooksUpHash(f)
                \/ AddDropsDuplicate(f)
                \/ AddRecords(f)
                \/ AddFaults(f)
      PROVE  BootRest'
  BY <1>4 DEF AddChecks, MayCall, AddBecomes, AddStages, AddLooksUpHash,
     AddDropsDuplicate, Removes, Fails, AddRecords, AddFaults
<1>5. ASSUME NEW c \in Cleaner,
                \/ \E r \in Run : CleanReads(c, r)
                \/ \E f \in File : CleanUnlinks(c, f)
                \/ CleanDropsDirectory(c)
                \/ CleanCommits(c)
                \/ CleanFaults(c)
      PROVE  BootRest'
  BY <1>5 DEF CleanReads, CleanBecomes, CleanUnlinks, Removes, Fails,
     CleanDropsDirectory, CleanCommits, RowsWithout, LinksWithout,
     CleanFaults, CleanEnds
<1>6. ASSUME NEW c \in Content, WebFinalizes(c)
      PROVE  BootRest'
  BY <1>6 DEF WebFinalizes
<1>7. ASSUME Crash
      PROVE  BootRest'
  BY <1>7 DEF Crash, Fails, Quiet, TypeCalls, TypeCleaning, CreateRunning,
     AddRunning, CompleteRunning, CleanRunning
<1>8. ASSUME Restart
      PROVE  BootRest'
  BY <1>8 DEF Restart, Quiet
<1>9. ASSUME NEW f \in File, BootDeletesLoose(f)
      PROVE  BootRest'
  BY <1>9 DEF BootDeletesLoose, Boots, Fails, Quiet
<1>10. ASSUME NEW r \in Run, BootReads(r)
      PROVE  BootRest'
  BY <1>10 DEF BootReads, Boots, Quiet
<1>11. ASSUME NEW f \in File, BootUnlinks(f)
      PROVE  BootRest'
  BY <1>11 DEF BootUnlinks, Boots, Removes, Fails, Quiet
<1>12. ASSUME NEW f \in File, BootDeletesRow(f)
      PROVE  BootRest'
  BY <1>12 DEF BootDeletesRow, Boots, Fails, Quiet
<1>13. ASSUME NEW r \in Run, BootDropsDirectory(r)
      PROVE  BootRest'
  BY <1>13 DEF BootDropsDirectory, Boots, Removes, Fails, Quiet
<1>14. ASSUME NEW r \in Run, BootDeletesRun(r)
      PROVE  BootRest'
  BY <1>14 DEF BootDeletesRun, Boots, LinksWithout, Fails, Quiet
<1>15. ASSUME Listen
      PROVE  BootRest'
  BY <1>15 DEF Listen, BootLists
<1>16. CASE UNCHANGED vars
  BY <1>16 DEF vars, Quiet
<1> QED BY <1>1, <1>2, <1>3, <1>4, <1>5, <1>6, <1>7, <1>8, <1>9, <1>10, <1>11,
   <1>12, <1>13, <1>14, <1>15, <1>16 DEF Next, CreateStep, CompleteStep,
   AddStep, CleanStep, BootStep

LEMMA BootListsStep ==
  ASSUME TypeOK, BootRest, BootLists, ForeignKey, [Next]_vars
  PROVE  BootLists'
<1> USE IngestionAssumption, TypeParts DEF TypeTables, TypeServer, BootRest,
   BootLists, Incomplete, tables, files, completion, cleaning, booting,
   history
<1>1. ASSUME NEW r \in Run,
                \/ CreateSweeps(r)
                \/ CreateOpens(r)
                \/ CreateFaults(r)
      PROVE  BootLists'
  BY <1>1 DEF CreateSweeps, MayCall, CreateOpens, CreateBecomes, CreateFaults,
     Fails
<1>2. ASSUME NEW r \in Run, CreateInserts(r)
      PROVE  BootLists'
  BY <1>2 DEF CreateInserts, CreateBecomes
<1>3. ASSUME NEW r \in Run,
                \/ CompleteChecks(r)
                \/ CompleteReads(r)
                \/ \E f \in File : CompleteMoves(r, f)
                \/ CompleteReports(r)
                \/ CompleteFaults(r)
      PROVE  BootLists'
  BY <1>3 DEF CompleteChecks, MayCall, CompleteBecomes, CompleteReads,
     DocumentsOf, CompleteMoves, CompleteReports, CompleteFaults, Fails
<1>4. ASSUME NEW r \in Run, CompleteMarks(r)
      PROVE  BootLists'
  BY <1>4 DEF CompleteMarks, CompleteBecomes
<1>5. ASSUME NEW r \in Run, CompleteRecords(r)
      PROVE  BootLists'
  BY <1>5 DEF CompleteRecords, CompleteBecomes
<1>6. ASSUME NEW r \in Run, RemoveRun(r)
      PROVE  BootLists'
  BY <1>6 DEF RemoveRun, MayCall, CleanBecomes
<1>7. ASSUME NEW f \in File,
                \/ AddChecks(f)
                \/ AddStages(f)
                \/ AddLooksUpHash(f)
                \/ AddDropsDuplicate(f)
                \/ AddFaults(f)
      PROVE  BootLists'
  BY <1>7 DEF AddChecks, MayCall, AddBecomes, AddStages, AddLooksUpHash,
     AddDropsDuplicate, Removes, Fails, AddFaults
<1>8. ASSUME NEW f \in File, AddRecords(f)
      PROVE  BootLists'
  BY <1>8 DEF AddRecords, AddBecomes
<1>9. ASSUME NEW c \in Cleaner,
                \/ \E r \in Run : CleanReads(c, r)
                \/ \E f \in File : CleanUnlinks(c, f)
                \/ CleanDropsDirectory(c)
                \/ CleanFaults(c)
      PROVE  BootLists'
  BY <1>9 DEF CleanReads, CleanBecomes, CleanUnlinks, Removes, Fails,
     CleanDropsDirectory, CleanFaults, CleanEnds
<1>10. ASSUME NEW c \in Cleaner, CleanCommits(c)
      PROVE  BootLists'
  BY <1>10 DEF CleanCommits, CleanBecomes, RowsWithout, LinksWithout
<1>11. ASSUME NEW c \in Content, WebFinalizes(c)
      PROVE  BootLists'
  BY <1>11 DEF WebFinalizes
<1>12. ASSUME Crash
      PROVE  BootLists'
  BY <1>12 DEF Crash, Fails
<1>13. ASSUME Restart
      PROVE  BootLists'
  BY <1>13 DEF Restart
<1>14. ASSUME NEW f \in File, BootDeletesLoose(f)
      PROVE  BootLists'
  BY <1>14 DEF BootDeletesLoose, Boots, Fails
<1>15. ASSUME NEW r \in Run, BootReads(r)
      PROVE  BootLists'
  BY <1>15 DEF BootReads, Boots, DocumentsOf
<1>16. ASSUME NEW f \in File, BootUnlinks(f)
      PROVE  BootLists'
  BY <1>16 DEF BootUnlinks, Boots, Removes, Fails
<1>17. ASSUME NEW f \in File, BootDeletesRow(f)
      PROVE  BootLists'
  BY <1>17 DEF BootDeletesRow, Boots, Fails
<1>18. ASSUME NEW r \in Run, BootDropsDirectory(r)
      PROVE  BootLists'
  BY <1>18 DEF BootDropsDirectory, Boots, Removes, Fails
<1>19. ASSUME NEW r \in Run, BootDeletesRun(r)
      PROVE  BootLists'
  BY <1>19 DEF BootDeletesRun, Boots, LinksWithout, Fails
<1>20. ASSUME Listen
      PROVE  BootLists'
  BY <1>20 DEF Listen
<1>21. CASE UNCHANGED vars
  BY <1>21 DEF vars
<1> QED BY <1>1, <1>2, <1>3, <1>4, <1>5, <1>6, <1>7, <1>8, <1>9, <1>10, <1>11,
   <1>12, <1>13, <1>14, <1>15, <1>16, <1>17, <1>18, <1>19, <1>20, <1>21 DEF
   Next, CreateStep, CompleteStep, AddStep, CleanStep, BootStep

LEMMA BootFilesStep ==
  ASSUME TypeOK, BootRest, BootLists, BootFiles, [Next]_vars
  PROVE  BootFiles'
<1> USE IngestionAssumption, PathFacts, TypeParts DEF TypeFiles, TypeServer,
   BootRest, BootFiles, Cleared, tables, files, completion, cleaning, booting,
   history
<1>1. ASSUME NEW r \in Run,
                \/ CreateSweeps(r)
                \/ CreateInserts(r)
                \/ CreateOpens(r)
                \/ CreateFaults(r)
      PROVE  BootFiles'
  BY <1>1 DEF CreateSweeps, MayCall, CreateInserts, CreateBecomes,
     CreateOpens, CreateFaults, Fails
<1>2. ASSUME NEW r \in Run,
                \/ CompleteChecks(r)
                \/ CompleteMarks(r)
                \/ CompleteReads(r)
                \/ CompleteRecords(r)
                \/ CompleteReports(r)
                \/ CompleteFaults(r)
      PROVE  BootFiles'
  BY <1>2 DEF CompleteChecks, MayCall, CompleteBecomes, CompleteMarks,
     CompleteReads, DocumentsOf, CompleteRecords, CompleteReports,
     CompleteFaults, Fails
<1>3. ASSUME NEW r \in Run, NEW f \in File, CompleteMoves(r, f)
      PROVE  BootFiles'
  BY <1>3 DEF CompleteMoves, CompleteBecomes
<1>4. ASSUME NEW r \in Run, RemoveRun(r)
      PROVE  BootFiles'
  BY <1>4 DEF RemoveRun, MayCall, CleanBecomes
<1>5. ASSUME NEW f \in File,
                \/ AddChecks(f)
                \/ AddLooksUpHash(f)
                \/ AddRecords(f)
                \/ AddFaults(f)
      PROVE  BootFiles'
  BY <1>5 DEF AddChecks, MayCall, AddBecomes, AddLooksUpHash, AddRecords,
     AddFaults, Fails
<1>6. ASSUME NEW f \in File, AddStages(f)
      PROVE  BootFiles'
  BY <1>6 DEF AddStages, AddBecomes
<1>7. ASSUME NEW f \in File, AddDropsDuplicate(f)
      PROVE  BootFiles'
  BY <1>7 DEF AddDropsDuplicate, AddBecomes, Removes, Fails
<1>8. ASSUME NEW c \in Cleaner,
                \/ \E r \in Run : CleanReads(c, r)
                \/ CleanCommits(c)
                \/ CleanFaults(c)
      PROVE  BootFiles'
  BY <1>8 DEF CleanReads, CleanBecomes, CleanCommits, RowsWithout,
     LinksWithout, CleanFaults, CleanEnds, Fails
<1>9. ASSUME NEW c \in Cleaner, NEW f \in File, CleanUnlinks(c, f)
      PROVE  BootFiles'
  BY <1>9 DEF CleanUnlinks, CleanBecomes, Removes, Fails
<1>10. ASSUME NEW c \in Cleaner, CleanDropsDirectory(c)
      PROVE  BootFiles'
  BY <1>10 DEF CleanDropsDirectory, CleanBecomes, Removes, Fails
<1>11. ASSUME NEW c \in Content, WebFinalizes(c)
      PROVE  BootFiles'
  BY <1>11 DEF WebFinalizes
<1>12. ASSUME Crash
      PROVE  BootFiles'
  BY <1>12 DEF Crash, Fails
<1>13. ASSUME Restart
      PROVE  BootFiles'
  BY <1>13 DEF Restart
<1>14. ASSUME NEW f \in File, BootDeletesLoose(f)
      PROVE  BootFiles'
  BY <1>14 DEF BootDeletesLoose, Boots, Fails
<1>15. ASSUME NEW r \in Run, BootReads(r)
      PROVE  BootFiles'
  BY <1>15 DEF BootReads, Boots
<1>16. ASSUME NEW f \in File, BootUnlinks(f)
      PROVE  BootFiles'
  BY <1>16 DEF BootUnlinks, Boots, Removes, Fails
<1>17. ASSUME NEW f \in File, BootDeletesRow(f)
      PROVE  BootFiles'
  BY <1>17 DEF BootDeletesRow, Boots, Fails
<1>18. ASSUME NEW r \in Run, BootDropsDirectory(r)
      PROVE  BootFiles'
  BY <1>18 DEF BootDropsDirectory, Boots, Removes, Fails, BootLists
<1>19. ASSUME NEW r \in Run, BootDeletesRun(r)
      PROVE  BootFiles'
  BY <1>19 DEF BootDeletesRun, Boots, LinksWithout, Fails
<1>20. ASSUME Listen
      PROVE  BootFiles'
  BY <1>20 DEF Listen
<1>21. CASE UNCHANGED vars
  BY <1>21 DEF vars
<1> QED BY <1>1, <1>2, <1>3, <1>4, <1>5, <1>6, <1>7, <1>8, <1>9, <1>10, <1>11,
   <1>12, <1>13, <1>14, <1>15, <1>16, <1>17, <1>18, <1>19, <1>20, <1>21 DEF
   Next, CreateStep, CompleteStep, AddStep, CleanStep, BootStep

LEMMA ClearsStep ==
  ASSUME TypeOK, BootRest, BootLists, ForeignKey, Clears, [Next]_vars
  PROVE  Clears'
<1> USE IngestionAssumption, TypeParts DEF TypeTables, TypeServer, BootRest,
   Clears, Incomplete, tables, files, completion, cleaning, booting, history
<1>1. ASSUME NEW r \in Run,
                \/ CreateSweeps(r)
                \/ CreateInserts(r)
                \/ CreateOpens(r)
                \/ CreateFaults(r)
      PROVE  Clears'
  BY <1>1 DEF CreateSweeps, MayCall, CreateInserts, CreateBecomes,
     CreateOpens, CreateFaults, Fails
<1>2. ASSUME NEW r \in Run,
                \/ CompleteChecks(r)
                \/ CompleteReads(r)
                \/ \E f \in File : CompleteMoves(r, f)
                \/ CompleteReports(r)
                \/ CompleteFaults(r)
      PROVE  Clears'
  BY <1>2 DEF CompleteChecks, MayCall, CompleteBecomes, CompleteReads,
     DocumentsOf, CompleteMoves, CompleteReports, CompleteFaults, Fails
<1>3. ASSUME NEW r \in Run, CompleteMarks(r)
      PROVE  Clears'
  BY <1>3 DEF CompleteMarks, CompleteBecomes
<1>4. ASSUME NEW r \in Run, CompleteRecords(r)
      PROVE  Clears'
  BY <1>4 DEF CompleteRecords, CompleteBecomes
<1>5. ASSUME NEW r \in Run, RemoveRun(r)
      PROVE  Clears'
  BY <1>5 DEF RemoveRun, MayCall, CleanBecomes
<1>6. ASSUME NEW f \in File,
                \/ AddChecks(f)
                \/ AddStages(f)
                \/ AddLooksUpHash(f)
                \/ AddDropsDuplicate(f)
                \/ AddFaults(f)
      PROVE  Clears'
  BY <1>6 DEF AddChecks, MayCall, AddBecomes, AddStages, AddLooksUpHash,
     AddDropsDuplicate, Removes, Fails, AddFaults
<1>7. ASSUME NEW f \in File, AddRecords(f)
      PROVE  Clears'
  BY <1>7 DEF AddRecords, AddBecomes
<1>8. ASSUME NEW c \in Cleaner,
                \/ \E r \in Run : CleanReads(c, r)
                \/ \E f \in File : CleanUnlinks(c, f)
                \/ CleanDropsDirectory(c)
                \/ CleanFaults(c)
      PROVE  Clears'
  BY <1>8 DEF CleanReads, CleanBecomes, CleanUnlinks, Removes, Fails,
     CleanDropsDirectory, CleanFaults, CleanEnds
<1>9. ASSUME NEW c \in Cleaner, CleanCommits(c)
      PROVE  Clears'
  BY <1>9 DEF CleanCommits, CleanBecomes, RowsWithout, LinksWithout
<1>10. ASSUME NEW c \in Content, WebFinalizes(c)
      PROVE  Clears'
  BY <1>10 DEF WebFinalizes
<1>11. ASSUME Crash
      PROVE  Clears'
  BY <1>11 DEF Crash, Fails
<1>12. ASSUME Restart
      PROVE  Clears'
  BY <1>12 DEF Restart, ForeignKey
<1>13. ASSUME NEW f \in File, BootDeletesLoose(f)
      PROVE  Clears'
  BY <1>13 DEF BootDeletesLoose, Boots, Fails
<1>14. ASSUME NEW r \in Run, BootReads(r)
      PROVE  Clears'
  BY <1>14 DEF BootReads, Boots, DocumentsOf, BootLists, ForeignKey
<1>15. ASSUME NEW f \in File, BootUnlinks(f)
      PROVE  Clears'
  BY <1>15 DEF BootUnlinks, Boots, Removes, Fails
<1>16. ASSUME NEW f \in File, BootDeletesRow(f)
      PROVE  Clears'
  BY <1>16 DEF BootDeletesRow, Boots, Fails
<1>17. ASSUME NEW r \in Run, BootDropsDirectory(r)
      PROVE  Clears'
  BY <1>17 DEF BootDropsDirectory, Boots, Removes, Fails, BootLists
<1>18. ASSUME NEW r \in Run, BootDeletesRun(r)
      PROVE  Clears'
  BY <1>18 DEF BootDeletesRun, Boots, LinksWithout, Fails, BootLists
<1>19. ASSUME Listen
      PROVE  Clears'
  BY <1>19 DEF Listen
<1>20. CASE UNCHANGED vars
  BY <1>20 DEF vars
<1> QED BY <1>1, <1>2, <1>3, <1>4, <1>5, <1>6, <1>7, <1>8, <1>9, <1>10, <1>11,
   <1>12, <1>13, <1>14, <1>15, <1>16, <1>17, <1>18, <1>19, <1>20 DEF Next,
   CreateStep, CompleteStep, AddStep, CleanStep, BootStep
\* Only Listen ends the sweeps with a server that listens.
LEMMA ServerStep ==
  ASSUME server = "sweeping", server' = "up", [Next]_vars
  PROVE  Listen
<1> USE DEF tables, files, completion, cleaning, booting, history
<1>1. ASSUME NEW r \in Run,
                \/ CreateSweeps(r)
                \/ CreateInserts(r)
                \/ CreateOpens(r)
                \/ CreateFaults(r)
      PROVE  Listen
  BY <1>1 DEF CreateSweeps, MayCall, CreateInserts, CreateBecomes,
     CreateOpens, CreateFaults, Fails
<1>2. ASSUME NEW r \in Run,
                \/ CompleteChecks(r)
                \/ CompleteMarks(r)
                \/ CompleteReads(r)
                \/ \E f \in File : CompleteMoves(r, f)
                \/ CompleteRecords(r)
                \/ CompleteReports(r)
                \/ CompleteFaults(r)
      PROVE  Listen
  BY <1>2 DEF CompleteChecks, MayCall, CompleteBecomes, CompleteMarks,
     CompleteReads, DocumentsOf, CompleteMoves, CompleteRecords,
     CompleteReports, CompleteFaults, Fails
<1>3. ASSUME NEW r \in Run, RemoveRun(r)
      PROVE  Listen
  BY <1>3 DEF RemoveRun, MayCall, CleanBecomes
<1>4. ASSUME NEW f \in File,
                \/ AddChecks(f)
                \/ AddStages(f)
                \/ AddLooksUpHash(f)
                \/ AddDropsDuplicate(f)
                \/ AddRecords(f)
                \/ AddFaults(f)
      PROVE  Listen
  BY <1>4 DEF AddChecks, MayCall, AddBecomes, AddStages, AddLooksUpHash,
     AddDropsDuplicate, Removes, Fails, AddRecords, AddFaults
<1>5. ASSUME NEW c \in Cleaner,
                \/ \E r \in Run : CleanReads(c, r)
                \/ \E f \in File : CleanUnlinks(c, f)
                \/ CleanDropsDirectory(c)
                \/ CleanCommits(c)
                \/ CleanFaults(c)
      PROVE  Listen
  BY <1>5 DEF CleanReads, CleanBecomes, CleanUnlinks, Removes, Fails,
     CleanDropsDirectory, CleanCommits, RowsWithout, LinksWithout,
     CleanFaults, CleanEnds
<1>6. ASSUME NEW c \in Content, WebFinalizes(c)
      PROVE  Listen
  BY <1>6 DEF WebFinalizes
<1>7. ASSUME Crash \/ Restart
      PROVE  Listen
  BY <1>7 DEF Crash, Fails, Restart
<1>8. ASSUME NEW f \in File,
                \/ BootDeletesLoose(f)
                \/ BootUnlinks(f)
                \/ BootDeletesRow(f)
      PROVE  Listen
  BY <1>8 DEF BootDeletesLoose, Boots, Fails, BootUnlinks, Removes,
     BootDeletesRow
<1>9. ASSUME NEW r \in Run,
                \/ BootReads(r)
                \/ BootDropsDirectory(r)
                \/ BootDeletesRun(r)
      PROVE  Listen
  BY <1>9 DEF BootReads, Boots, BootDropsDirectory, Removes, Fails,
     BootDeletesRun, LinksWithout
<1>10. ASSUME Listen
      PROVE  Listen
  BY <1>10
<1>11. CASE UNCHANGED vars
  BY <1>11 DEF vars
<1> QED BY <1>1, <1>2, <1>3, <1>4, <1>5, <1>6, <1>7, <1>8, <1>9, <1>10, <1>11
   DEF Next, CreateStep, CompleteStep, AddStep, CleanStep, BootStep

(***************************************************************************)
(* The invariant of overlapping calls, and what follows from it.           *)
(***************************************************************************)
IInv ==
  /\ TypeOK
  /\ Submitted /\ Moved /\ Unique /\ ForeignKey
  /\ BootRest /\ BootLists /\ BootFiles /\ Clears

LEMMA InvInit == Init => IInv
BY TypeInit, IngestionAssumption DEF Init, IInv, Submitted, Moved, Unique, ForeignKey,
   BootRest, BootLists, BootFiles, Clears, Quiet, Incomplete, CreateRunning,
   AddRunning, CompleteRunning, CleanRunning, Slot

LEMMA InvStep == IInv /\ [Next]_vars => IInv'
BY TypeStep, SubmittedStep, MovedStep, UniqueStep, ForeignKeyStep, BootRestStep,
   BootListsStep, BootFilesStep, ClearsStep DEF IInv

LEMMA InvHolds == Spec => []IInv
BY InvInit, InvStep, PTL DEF Spec

\* Whatever calls overlap, and whatever is added under one path: a finalized
\* document has a file in permanent storage that was submitted under its path,
\* and its content is in the archive once.
THEOREM Finalized == Spec => []FinalizedIsSound
<1>1. IInv => FinalizedIsSound
  <2> SUFFICES ASSUME IInv, NEW f \in File, row[f] = "finalized"
               PROVE  permanent[Slot(f)] \in
                        {ContentOf[g] : g \in {g \in File : Slot(g) = Slot(f)}}
    BY DEF FinalizedIsSound, IInv, Unique
  <2>1. Slot(f) \in Path /\ permanent[Slot(f)] # NoFile
    BY PathFacts DEF IInv, Moved
  <2>2. PICK g \in File : Slot(g) = Slot(f) /\ permanent[Slot(f)] = ContentOf[g]
    BY <2>1 DEF IInv, Submitted
  <2> QED BY <2>2
<1> QED BY <1>1, InvHolds, PTL

\* When Express begins to listen, what is unfinished has been cleaned up, but
\* for what the sweeps failed to delete and what slipped into a completed run.
THEOREM CleanStart == Spec => StartupClears
<1>1. IInv /\ [Next]_vars =>
        (server = "sweeping" /\ server' = "up" =>
           /\ Incomplete \subseteq skipped
           /\ \A f \in File : row[f] = "uploaded" =>
                f \in skipped \/ runStatus[RunOf[f]] = "completed")
  <2> SUFFICES ASSUME IInv, [Next]_vars, server = "sweeping", server' = "up"
               PROVE  /\ Incomplete \subseteq skipped
                      /\ \A f \in File : row[f] = "uploaded" =>
                           f \in skipped \/ runStatus[RunOf[f]] = "completed"
    OBVIOUS
  <2>1. Listen
    BY ServerStep
  <2> QED BY <2>1 DEF Listen, IInv, BootLists, Clears
<1>2. IInv /\ [Next]_vars =>
        [server = "sweeping" /\ server' = "up" =>
           /\ Incomplete \subseteq skipped
           /\ \A f \in File : row[f] = "uploaded" =>
                f \in skipped \/ runStatus[RunOf[f]] = "completed"]_vars
  BY <1>1
<1> QED BY <1>2, InvHolds, PTL DEF Spec, StartupClears

-----------------------------------------------------------------------------
(***************************************************************************)
(* One call at a time.  Accepted and Opened hold for overlapping calls as  *)
(* well, and Called: a row means that the call that added it was answered, *)
(* a call about a run comes after the answer that told its id, and a sweep *)
(* has a caller that waits for it.  OneCall: at most one call is at work.  *)
(***************************************************************************)
Accepted == \A f \in File : row[f] # "none" => add[f] = "accepted"

Opened ==
  /\ \A f \in File : add[f] # "idle" => create[RunOf[f]] = "open"
  /\ \A r \in Run : complete[r] # "idle" => create[r] = "open"

Called == \A r \in Run :
  clean[<<"sweep", r>>] \in CleanRunning => create[r] = "sweeping"

Creating == {r \in Run : create[r] \in CreateRunning}
Adding == {f \in File : add[f] \in AddRunning}
Completing == {r \in Run : complete[r] \in CompleteRunning}
Removing == {r \in Run : clean[<<"remove", r>>] \in CleanRunning}

OneCall ==
  /\ \A q, r \in Creating : q = r
  /\ \A f, g \in Adding : f = g
  /\ \A q, r \in Completing : q = r
  /\ \A q, r \in Removing : q = r
  /\ Creating # {} => Adding = {} /\ Completing = {} /\ Removing = {}
  /\ Adding # {} => Completing = {} /\ Removing = {}
  /\ Completing = {} \/ Removing = {}

\* What a call at work excludes.
LEMMA CreateAlone ==
  ASSUME Called, OneCall, NEW r \in Run, create[r] \in CreateRunning
  PROVE  /\ \A f \in File : add[f] \notin AddRunning
         /\ \A q \in Run : complete[q] \notin CompleteRunning
         /\ \A q \in Run \ {r} : create[q] \notin CreateRunning
         /\ \A c \in Cleaner : clean[c] \in CleanRunning => c = <<"sweep", r>>
BY CleanerFacts DEF Called, OneCall, Creating, Adding, Completing, Removing,
   CreateRunning

LEMMA AddAlone ==
  ASSUME Called, OneCall, NEW f \in File, add[f] \in AddRunning
  PROVE  /\ \A g \in File \ {f} : add[g] \notin AddRunning
         /\ \A q \in Run : create[q] \notin CreateRunning
         /\ \A q \in Run : complete[q] \notin CompleteRunning
         /\ \A c \in Cleaner : clean[c] \notin CleanRunning
BY CleanerFacts DEF Called, OneCall, Creating, Adding, Completing, Removing,
   CreateRunning

LEMMA CompleteAlone ==
  ASSUME Called, OneCall, NEW r \in Run, complete[r] \in CompleteRunning
  PROVE  /\ \A f \in File : add[f] \notin AddRunning
         /\ \A q \in Run : create[q] \notin CreateRunning
         /\ \A q \in Run \ {r} : complete[q] \notin CompleteRunning
         /\ \A c \in Cleaner : clean[c] \notin CleanRunning
BY CleanerFacts DEF Called, OneCall, Creating, Adding, Completing, Removing,
   CreateRunning

\* The only others are its caller's.
LEMMA CleanAlone ==
  ASSUME Called, OneCall, NEW c \in Cleaner, clean[c] \in CleanRunning
  PROVE  /\ \A f \in File : add[f] \notin AddRunning
         /\ \A q \in Run : complete[q] \notin CompleteRunning
         /\ \A q \in Run : create[q] \in CreateRunning => c = <<"sweep", q>>
         /\ \A b \in Cleaner \ {c} : clean[b] \notin CleanRunning
<1> USE DEF Called, OneCall, Creating, Adding, Completing, Removing, CreateRunning
<1>1. PICK r \in Run : c = <<"sweep", r>> \/ c = <<"remove", r>>
  BY CleanerFacts
<1>2. CASE c = <<"sweep", r>>
  <2>1. create[r] \in CreateRunning
    BY <1>2
  <2> QED BY <1>2, <2>1, CreateAlone
<1>3. CASE c = <<"remove", r>>
  <2>1. r \in Removing
    BY <1>3
  <2>2. Creating = {} /\ Adding = {} /\ Completing = {}
    BY <2>1
  <2>3. ASSUME NEW b \in Cleaner, clean[b] \in CleanRunning
        PROVE  b = c
    <3>1. PICK q \in Run : b = <<"sweep", q>> \/ b = <<"remove", q>>
      BY CleanerFacts
    <3>2. b = <<"remove", q>>
      BY <3>1, <2>2, <2>3
    <3> QED BY <3>2, <2>1, <2>3, <1>3
  <2> QED BY <2>2, <2>3
<1> QED BY <1>1, <1>2, <1>3

LEMMA AcceptedStep ==
  ASSUME TypeOK, Accepted, [Next]_vars
  PROVE  Accepted'
<1> USE TypeParts DEF TypeTables, TypeCalls, Accepted, tables, files,
   completion, cleaning, booting, history
<1>1. ASSUME NEW r \in Run,
                \/ CreateSweeps(r)
                \/ CreateInserts(r)
                \/ CreateOpens(r)
                \/ CreateFaults(r)
      PROVE  Accepted'
  BY <1>1 DEF CreateSweeps, MayCall, CreateInserts, CreateBecomes,
     CreateOpens, CreateFaults, Fails
<1>2. ASSUME NEW r \in Run,
                \/ CompleteChecks(r)
                \/ CompleteMarks(r)
                \/ CompleteReads(r)
                \/ \E f \in File : CompleteMoves(r, f)
                \/ CompleteReports(r)
                \/ CompleteFaults(r)
      PROVE  Accepted'
  BY <1>2 DEF CompleteChecks, MayCall, CompleteBecomes, CompleteMarks,
     CompleteReads, DocumentsOf, CompleteMoves, CompleteReports,
     CompleteFaults, Fails
<1>3. ASSUME NEW r \in Run, CompleteRecords(r)
      PROVE  Accepted'
  BY <1>3 DEF CompleteRecords, CompleteBecomes
<1>4. ASSUME NEW r \in Run, RemoveRun(r)
      PROVE  Accepted'
  BY <1>4 DEF RemoveRun, MayCall, CleanBecomes
<1>5. ASSUME NEW f \in File, AddChecks(f)
      PROVE  Accepted'
  BY <1>5 DEF AddChecks, MayCall, AddBecomes
<1>6. ASSUME NEW f \in File, AddStages(f)
      PROVE  Accepted'
  BY <1>6 DEF AddStages, AddBecomes
<1>7. ASSUME NEW f \in File, AddLooksUpHash(f)
      PROVE  Accepted'
  BY <1>7 DEF AddLooksUpHash, AddBecomes
<1>8. ASSUME NEW f \in File, AddDropsDuplicate(f)
      PROVE  Accepted'
  BY <1>8 DEF AddDropsDuplicate, AddBecomes, Removes, Fails
<1>9. ASSUME NEW f \in File, AddRecords(f)
      PROVE  Accepted'
  BY <1>9 DEF AddRecords, AddBecomes
<1>10. ASSUME NEW f \in File, AddFaults(f)
      PROVE  Accepted'
  BY <1>10 DEF AddFaults, AddBecomes, Fails, AddRunning
<1>11. ASSUME NEW c \in Cleaner,
                \/ \E r \in Run : CleanReads(c, r)
                \/ \E f \in File : CleanUnlinks(c, f)
                \/ CleanDropsDirectory(c)
                \/ CleanFaults(c)
      PROVE  Accepted'
  BY <1>11 DEF CleanReads, CleanBecomes, CleanUnlinks, Removes, Fails,
     CleanDropsDirectory, CleanFaults, CleanEnds
<1>12. ASSUME NEW c \in Cleaner, CleanCommits(c)
      PROVE  Accepted'
  BY <1>12 DEF CleanCommits, CleanBecomes, RowsWithout, LinksWithout
<1>13. ASSUME NEW c \in Content, WebFinalizes(c)
      PROVE  Accepted'
  BY <1>13 DEF WebFinalizes
<1>14. ASSUME Crash
      PROVE  Accepted'
  BY <1>14 DEF Crash, Fails, AddRunning
<1>15. ASSUME Restart \/ Listen
      PROVE  Accepted'
  BY <1>15 DEF Restart, Listen
<1>16. ASSUME NEW f \in File, BootDeletesLoose(f)
      PROVE  Accepted'
  BY <1>16 DEF BootDeletesLoose, Boots, Fails
<1>17. ASSUME NEW r \in Run,
                \/ BootReads(r)
                \/ BootDropsDirectory(r)
                \/ BootDeletesRun(r)
      PROVE  Accepted'
  BY <1>17 DEF BootReads, Boots, BootDropsDirectory, Removes, Fails,
     BootDeletesRun, LinksWithout
<1>18. ASSUME NEW f \in File, BootUnlinks(f)
      PROVE  Accepted'
  BY <1>18 DEF BootUnlinks, Boots, Removes, Fails
<1>19. ASSUME NEW f \in File, BootDeletesRow(f)
      PROVE  Accepted'
  BY <1>19 DEF BootDeletesRow, Boots, Fails
<1>20. CASE UNCHANGED vars
  BY <1>20 DEF vars
<1> QED BY <1>1, <1>2, <1>3, <1>4, <1>5, <1>6, <1>7, <1>8, <1>9, <1>10, <1>11,
   <1>12, <1>13, <1>14, <1>15, <1>16, <1>17, <1>18, <1>19, <1>20 DEF Next,
   CreateStep, CompleteStep, AddStep, CleanStep, BootStep

LEMMA OpenedStep ==
  ASSUME TypeOK, Opened, Called, [Next]_vars
  PROVE  Opened'
<1> USE IngestionAssumption, TypeParts DEF TypeCalls, Opened, tables, files,
   completion, cleaning, booting, history
<1>1. ASSUME NEW r \in Run, CreateSweeps(r)
      PROVE  Opened'
  BY <1>1 DEF CreateSweeps, MayCall
<1>2. ASSUME NEW r \in Run, CreateInserts(r)
      PROVE  Opened'
  BY <1>2 DEF CreateInserts, CreateBecomes
<1>3. ASSUME NEW r \in Run, CreateOpens(r)
      PROVE  Opened'
  BY <1>3 DEF CreateOpens, CreateBecomes
<1>4. ASSUME NEW r \in Run, CreateFaults(r)
      PROVE  Opened'
  BY <1>4 DEF CreateFaults, CreateBecomes, Fails, CreateRunning
<1>5. ASSUME NEW r \in Run, CompleteChecks(r)
      PROVE  Opened'
  BY <1>5 DEF CompleteChecks, MayCall, CompleteBecomes
<1>6. ASSUME NEW r \in Run, CompleteMarks(r)
      PROVE  Opened'
  BY <1>6 DEF CompleteMarks, CompleteBecomes
<1>7. ASSUME NEW r \in Run, CompleteReads(r)
      PROVE  Opened'
  BY <1>7 DEF CompleteReads, CompleteBecomes, DocumentsOf
<1>8. ASSUME NEW r \in Run, NEW f \in File, CompleteMoves(r, f)
      PROVE  Opened'
  BY <1>8 DEF CompleteMoves, CompleteBecomes
<1>9. ASSUME NEW r \in Run, CompleteRecords(r)
      PROVE  Opened'
  BY <1>9 DEF CompleteRecords, CompleteBecomes
<1>10. ASSUME NEW r \in Run, CompleteReports(r)
      PROVE  Opened'
  BY <1>10 DEF CompleteReports, CompleteBecomes
<1>11. ASSUME NEW r \in Run, CompleteFaults(r)
      PROVE  Opened'
  BY <1>11 DEF CompleteFaults, CompleteBecomes, Fails, CompleteRunning
<1>12. ASSUME NEW r \in Run, RemoveRun(r)
      PROVE  Opened'
  BY <1>12 DEF RemoveRun, MayCall, CleanBecomes
<1>13. ASSUME NEW f \in File, AddChecks(f)
      PROVE  Opened'
  BY <1>13 DEF AddChecks, MayCall, AddBecomes
<1>14. ASSUME NEW f \in File, AddStages(f)
      PROVE  Opened'
  BY <1>14 DEF AddStages, AddBecomes
<1>15. ASSUME NEW f \in File, AddLooksUpHash(f)
      PROVE  Opened'
  BY <1>15 DEF AddLooksUpHash, AddBecomes
<1>16. ASSUME NEW f \in File, AddDropsDuplicate(f)
      PROVE  Opened'
  BY <1>16 DEF AddDropsDuplicate, AddBecomes, Removes, Fails
<1>17. ASSUME NEW f \in File, AddRecords(f)
      PROVE  Opened'
  BY <1>17 DEF AddRecords, AddBecomes
<1>18. ASSUME NEW f \in File, AddFaults(f)
      PROVE  Opened'
  BY <1>18 DEF AddFaults, AddBecomes, Fails, AddRunning
<1>19. ASSUME NEW c \in Cleaner,
                \/ \E r \in Run : CleanReads(c, r)
                \/ \E f \in File : CleanUnlinks(c, f)
                \/ CleanDropsDirectory(c)
                \/ CleanCommits(c)
      PROVE  Opened'
  BY <1>19 DEF CleanReads, CleanBecomes, CleanUnlinks, Removes, Fails,
     CleanDropsDirectory, CleanCommits, RowsWithout, LinksWithout
<1>20. ASSUME NEW c \in Cleaner, CleanFaults(c)
      PROVE  Opened'
  BY <1>20, CleanerFacts DEF CleanFaults, CleanEnds, Fails, Called
<1>21. ASSUME NEW c \in Content, WebFinalizes(c)
      PROVE  Opened'
  BY <1>21 DEF WebFinalizes
<1>22. ASSUME Crash
      PROVE  Opened'
  BY <1>22 DEF Crash, Fails, CreateRunning, AddRunning, CompleteRunning,
     CleanRunning
<1>23. ASSUME Restart \/ Listen
      PROVE  Opened'
  BY <1>23 DEF Restart, Listen
<1>24. ASSUME NEW f \in File,
                \/ BootDeletesLoose(f)
                \/ BootUnlinks(f)
                \/ BootDeletesRow(f)
      PROVE  Opened'
  BY <1>24 DEF BootDeletesLoose, Boots, Fails, BootUnlinks, Removes,
     BootDeletesRow
<1>25. ASSUME NEW r \in Run,
                \/ BootReads(r)
                \/ BootDropsDirectory(r)
                \/ BootDeletesRun(r)
      PROVE  Opened'
  BY <1>25 DEF BootReads, Boots, BootDropsDirectory, Removes, Fails,
     BootDeletesRun, LinksWithout
<1>26. CASE UNCHANGED vars
  BY <1>26 DEF vars
<1> QED BY <1>1, <1>2, <1>3, <1>4, <1>5, <1>6, <1>7, <1>8, <1>9, <1>10, <1>11,
   <1>12, <1>13, <1>14, <1>15, <1>16, <1>17, <1>18, <1>19, <1>20, <1>21,
   <1>22, <1>23, <1>24, <1>25, <1>26 DEF Next, CreateStep, CompleteStep,
   AddStep, CleanStep, BootStep

LEMMA CalledStep ==
  ASSUME TypeOK, Called, [Next]_vars
  PROVE  Called'
<1> USE CleanerFacts, TypeParts DEF TypeCalls, TypeCleaning, Called,
   CleanRunning, tables, files, completion, cleaning, booting, history
<1>1. ASSUME NEW r \in Run, CreateSweeps(r)
      PROVE  Called'
  BY <1>1 DEF CreateSweeps, MayCall
<1>2. ASSUME NEW r \in Run, CreateInserts(r)
      PROVE  Called'
  BY <1>2 DEF CreateInserts, CreateBecomes
<1>3. ASSUME NEW r \in Run, CreateOpens(r)
      PROVE  Called'
  BY <1>3 DEF CreateOpens, CreateBecomes
<1>4. ASSUME NEW r \in Run, CreateFaults(r)
      PROVE  Called'
  BY <1>4 DEF CreateFaults, CreateBecomes, Fails
<1>5. ASSUME NEW r \in Run,
                \/ CompleteChecks(r)
                \/ CompleteMarks(r)
                \/ CompleteReads(r)
                \/ \E f \in File : CompleteMoves(r, f)
                \/ CompleteRecords(r)
                \/ CompleteReports(r)
                \/ CompleteFaults(r)
      PROVE  Called'
  BY <1>5 DEF CompleteChecks, MayCall, CompleteBecomes, CompleteMarks,
     CompleteReads, DocumentsOf, CompleteMoves, CompleteRecords,
     CompleteReports, CompleteFaults, Fails
<1>6. ASSUME NEW r \in Run, RemoveRun(r)
      PROVE  Called'
  BY <1>6 DEF RemoveRun, MayCall, CleanBecomes
<1>7. ASSUME NEW f \in File,
                \/ AddChecks(f)
                \/ AddStages(f)
                \/ AddLooksUpHash(f)
                \/ AddDropsDuplicate(f)
                \/ AddRecords(f)
                \/ AddFaults(f)
      PROVE  Called'
  BY <1>7 DEF AddChecks, MayCall, AddBecomes, AddStages, AddLooksUpHash,
     AddDropsDuplicate, Removes, Fails, AddRecords, AddFaults
<1>8. ASSUME NEW c \in Cleaner, NEW r \in Run, CleanReads(c, r)
      PROVE  Called'
  BY <1>8 DEF CleanReads, CleanBecomes
<1>9. ASSUME NEW c \in Cleaner, NEW f \in File, CleanUnlinks(c, f)
      PROVE  Called'
  BY <1>9 DEF CleanUnlinks, CleanBecomes, Removes, Fails
<1>10. ASSUME NEW c \in Cleaner, CleanDropsDirectory(c)
      PROVE  Called'
  BY <1>10 DEF CleanDropsDirectory, CleanBecomes, Removes, Fails
<1>11. ASSUME NEW c \in Cleaner, CleanCommits(c)
      PROVE  Called'
  BY <1>11 DEF CleanCommits, CleanBecomes, RowsWithout, LinksWithout
<1>12. ASSUME NEW c \in Cleaner, CleanFaults(c)
      PROVE  Called'
  BY <1>12 DEF CleanFaults, CleanEnds, Fails
<1>13. ASSUME NEW c \in Content, WebFinalizes(c)
      PROVE  Called'
  BY <1>13 DEF WebFinalizes
<1>14. ASSUME Crash
      PROVE  Called'
  BY <1>14 DEF Crash, Fails
<1>15. ASSUME Restart \/ Listen
      PROVE  Called'
  BY <1>15 DEF Restart, Listen
<1>16. ASSUME NEW f \in File,
                \/ BootDeletesLoose(f)
                \/ BootUnlinks(f)
                \/ BootDeletesRow(f)
      PROVE  Called'
  BY <1>16 DEF BootDeletesLoose, Boots, Fails, BootUnlinks, Removes,
     BootDeletesRow
<1>17. ASSUME NEW r \in Run,
                \/ BootReads(r)
                \/ BootDropsDirectory(r)
                \/ BootDeletesRun(r)
      PROVE  Called'
  BY <1>17 DEF BootReads, Boots, BootDropsDirectory, Removes, Fails,
     BootDeletesRun, LinksWithout
<1>18. CASE UNCHANGED vars
  BY <1>18 DEF vars
<1> QED BY <1>1, <1>2, <1>3, <1>4, <1>5, <1>6, <1>7, <1>8, <1>9, <1>10, <1>11,
   <1>12, <1>13, <1>14, <1>15, <1>16, <1>17, <1>18 DEF Next, CreateStep,
   CompleteStep, AddStep, CleanStep, BootStep

\* A step either begins a call, while no other is at work, or leaves no call
\* at work that was not.
Ends ==
  /\ Creating' \subseteq Creating
  /\ Adding' \subseteq Adding
  /\ Completing' \subseteq Completing
  /\ Removing' \subseteq Removing

LEMMA NoneAtWork ==
  ASSUME Sequential, MayCall
  PROVE  Creating = {} /\ Adding = {} /\ Completing = {} /\ Removing = {}
BY CleanerFacts DEF MayCall, Quiet, Creating, Adding, Completing, Removing

LEMMA EndsOneCall == ASSUME OneCall, Ends PROVE OneCall'
BY DEF OneCall, Ends

LEMMA OneCallStep ==
  ASSUME Sequential, TypeOK, OneCall, [Next]_vars
  PROVE  OneCall'
<1> USE CleanerFacts, TypeParts DEF TypeCalls, TypeCleaning, tables, files,
   completion, cleaning, booting, history
<1>1. ASSUME NEW r \in Run, CreateSweeps(r)
      PROVE  OneCall'
  <2>1. Creating = {} /\ Adding = {} /\ Completing = {} /\ Removing = {}
    BY <1>1, NoneAtWork DEF CreateSweeps
  <2>2. Creating' \subseteq {r} /\ Adding' = {} /\ Completing' = {} /\ Removing' = {}
    BY <1>1, <2>1 DEF Creating, Adding, Completing, Removing, CreateSweeps,
       MayCall, CreateRunning, AddRunning, CompleteRunning, CleanRunning
  <2> QED BY <2>2 DEF OneCall
<1>2. ASSUME NEW r \in Run, CreateInserts(r)
      PROVE  OneCall'
  <2>1. Ends
    BY <1>2 DEF Ends, Creating, Adding, Completing, Removing, CreateInserts,
       CreateBecomes, CreateRunning, AddRunning, CompleteRunning, CleanRunning
  <2> QED BY <2>1, EndsOneCall
<1>3. ASSUME NEW r \in Run, CreateOpens(r)
      PROVE  OneCall'
  <2>1. Ends
    BY <1>3 DEF Ends, Creating, Adding, Completing, Removing, CreateOpens,
       CreateBecomes, CreateRunning, AddRunning, CompleteRunning, CleanRunning
  <2> QED BY <2>1, EndsOneCall
<1>4. ASSUME NEW r \in Run, CreateFaults(r)
      PROVE  OneCall'
  <2>1. Ends
    BY <1>4 DEF Ends, Creating, Adding, Completing, Removing, CreateFaults,
       CreateBecomes, Fails, CreateRunning, AddRunning, CompleteRunning,
       CleanRunning
  <2> QED BY <2>1, EndsOneCall
<1>5. ASSUME NEW r \in Run, CompleteChecks(r)
      PROVE  OneCall'
  <2>1. Creating = {} /\ Adding = {} /\ Completing = {} /\ Removing = {}
    BY <1>5, NoneAtWork DEF CompleteChecks
  <2>2. Completing' \subseteq {r} /\ Creating' = {} /\ Adding' = {} /\ Removing' = {}
    BY <1>5, <2>1 DEF Creating, Adding, Completing, Removing, CompleteChecks,
       MayCall, CompleteBecomes, CreateRunning, AddRunning, CompleteRunning,
       CleanRunning
  <2> QED BY <2>2 DEF OneCall
<1>6. ASSUME NEW r \in Run, CompleteMarks(r)
      PROVE  OneCall'
  <2>1. Ends
    BY <1>6 DEF Ends, Creating, Adding, Completing, Removing, CompleteMarks,
       CompleteBecomes, CreateRunning, AddRunning, CompleteRunning,
       CleanRunning
  <2> QED BY <2>1, EndsOneCall
<1>7. ASSUME NEW r \in Run, CompleteReads(r)
      PROVE  OneCall'
  <2>1. Ends
    BY <1>7 DEF Ends, Creating, Adding, Completing, Removing, CompleteReads,
       CompleteBecomes, DocumentsOf, CreateRunning, AddRunning,
       CompleteRunning, CleanRunning
  <2> QED BY <2>1, EndsOneCall
<1>8. ASSUME NEW r \in Run, NEW f \in File, CompleteMoves(r, f)
      PROVE  OneCall'
  <2>1. Ends
    BY <1>8 DEF Ends, Creating, Adding, Completing, Removing, CompleteMoves,
       CompleteBecomes, CreateRunning, AddRunning, CompleteRunning,
       CleanRunning
  <2> QED BY <2>1, EndsOneCall
<1>9. ASSUME NEW r \in Run, CompleteRecords(r)
      PROVE  OneCall'
  <2>1. Ends
    BY <1>9 DEF Ends, Creating, Adding, Completing, Removing, CompleteRecords,
       CompleteBecomes, CreateRunning, AddRunning, CompleteRunning,
       CleanRunning
  <2> QED BY <2>1, EndsOneCall
<1>10. ASSUME NEW r \in Run, CompleteReports(r)
      PROVE  OneCall'
  <2>1. Ends
    BY <1>10 DEF Ends, Creating, Adding, Completing, Removing, CompleteReports,
       CompleteBecomes, CreateRunning, AddRunning, CompleteRunning,
       CleanRunning
  <2> QED BY <2>1, EndsOneCall
<1>11. ASSUME NEW r \in Run, CompleteFaults(r)
      PROVE  OneCall'
  <2>1. Ends
    BY <1>11 DEF Ends, Creating, Adding, Completing, Removing, CompleteFaults,
       CompleteBecomes, Fails, CreateRunning, AddRunning, CompleteRunning,
       CleanRunning
  <2> QED BY <2>1, EndsOneCall
<1>12. ASSUME NEW r \in Run, RemoveRun(r)
      PROVE  OneCall'
  <2>1. Creating = {} /\ Adding = {} /\ Completing = {} /\ Removing = {}
    BY <1>12, NoneAtWork DEF RemoveRun
  <2>2. /\ clean' = [clean EXCEPT ![<<"remove", r>>] = "next"]
        /\ UNCHANGED <<create, add, complete>>
    BY <1>12 DEF RemoveRun, CleanBecomes
  <2>3. Creating' = {} /\ Adding' = {} /\ Completing' = {}
    BY <2>1, <2>2 DEF Creating, Adding, Completing
  <2>4. \A q \in Run \ {r} : clean'[<<"remove", q>>] = clean[<<"remove", q>>]
    BY <2>2
  <2>5. Removing' \subseteq {r}
    BY <2>1, <2>4 DEF Removing
  <2> QED BY <2>3, <2>5 DEF OneCall
<1>13. ASSUME NEW f \in File, AddChecks(f)
      PROVE  OneCall'
  <2>1. Creating = {} /\ Adding = {} /\ Completing = {} /\ Removing = {}
    BY <1>13, NoneAtWork DEF AddChecks
  <2>2. Adding' \subseteq {f} /\ Creating' = {} /\ Completing' = {} /\ Removing' = {}
    BY <1>13, <2>1 DEF Creating, Adding, Completing, Removing, AddChecks, MayCall,
       AddBecomes, CreateRunning, AddRunning, CompleteRunning, CleanRunning
  <2> QED BY <2>2 DEF OneCall
<1>14. ASSUME NEW f \in File, AddStages(f)
      PROVE  OneCall'
  <2>1. Ends
    BY <1>14 DEF Ends, Creating, Adding, Completing, Removing, AddStages,
       AddBecomes, CreateRunning, AddRunning, CompleteRunning, CleanRunning
  <2> QED BY <2>1, EndsOneCall
<1>15. ASSUME NEW f \in File, AddLooksUpHash(f)
      PROVE  OneCall'
  <2>1. Ends
    BY <1>15 DEF Ends, Creating, Adding, Completing, Removing, AddLooksUpHash,
       AddBecomes, CreateRunning, AddRunning, CompleteRunning, CleanRunning
  <2> QED BY <2>1, EndsOneCall
<1>16. ASSUME NEW f \in File, AddDropsDuplicate(f)
      PROVE  OneCall'
  <2>1. Ends
    BY <1>16 DEF Ends, Creating, Adding, Completing, Removing, AddDropsDuplicate,
       AddBecomes, Removes, Fails, CreateRunning, AddRunning, CompleteRunning,
       CleanRunning
  <2> QED BY <2>1, EndsOneCall
<1>17. ASSUME NEW f \in File, AddRecords(f)
      PROVE  OneCall'
  <2>1. Ends
    BY <1>17 DEF Ends, Creating, Adding, Completing, Removing, AddRecords,
       AddBecomes, CreateRunning, AddRunning, CompleteRunning, CleanRunning
  <2> QED BY <2>1, EndsOneCall
<1>18. ASSUME NEW f \in File, AddFaults(f)
      PROVE  OneCall'
  <2>1. Ends
    BY <1>18 DEF Ends, Creating, Adding, Completing, Removing, AddFaults,
       AddBecomes, Fails, CreateRunning, AddRunning, CompleteRunning,
       CleanRunning
  <2> QED BY <2>1, EndsOneCall
<1>19. ASSUME NEW c \in Cleaner, NEW r \in Run, CleanReads(c, r)
      PROVE  OneCall'
  <2>1. Ends
    BY <1>19 DEF Ends, Creating, Adding, Completing, Removing, CleanReads,
       CleanBecomes, CreateRunning, AddRunning, CompleteRunning, CleanRunning
  <2> QED BY <2>1, EndsOneCall
<1>20. ASSUME NEW c \in Cleaner, NEW f \in File, CleanUnlinks(c, f)
      PROVE  OneCall'
  <2>1. Ends
    BY <1>20 DEF Ends, Creating, Adding, Completing, Removing, CleanUnlinks,
       CleanBecomes, Removes, Fails, CreateRunning, AddRunning,
       CompleteRunning, CleanRunning
  <2> QED BY <2>1, EndsOneCall
<1>21. ASSUME NEW c \in Cleaner, CleanDropsDirectory(c)
      PROVE  OneCall'
  <2>1. Ends
    BY <1>21 DEF Ends, Creating, Adding, Completing, Removing,
       CleanDropsDirectory, CleanBecomes, Removes, Fails, CreateRunning,
       AddRunning, CompleteRunning, CleanRunning
  <2> QED BY <2>1, EndsOneCall
<1>22. ASSUME NEW c \in Cleaner, CleanCommits(c)
      PROVE  OneCall'
  <2>1. /\ clean[c] = "dropped" /\ UNCHANGED <<create, add, complete>>
        /\ \E to \in {"done", "next"} : clean' = [clean EXCEPT ![c] = to]
    BY <1>22 DEF CleanCommits, CleanBecomes
  <2>2. Ends
    BY <2>1 DEF Ends, Creating, Adding, Completing, Removing, CleanRunning
  <2> QED BY <2>2, EndsOneCall
<1>23. ASSUME NEW c \in Cleaner, CleanFaults(c)
      PROVE  OneCall'
  <2>1. Ends
    BY <1>23 DEF Ends, Creating, Adding, Completing, Removing, CleanFaults,
       CleanEnds, Fails, CreateRunning, AddRunning, CompleteRunning,
       CleanRunning
  <2> QED BY <2>1, EndsOneCall
<1>24. ASSUME NEW c \in Content, WebFinalizes(c)
      PROVE  OneCall'
  BY <1>24, EndsOneCall DEF WebFinalizes, Ends, Creating, Adding, Completing,
     Removing
<1>25. ASSUME Crash
      PROVE  OneCall'
  <2>1. Ends
    BY <1>25 DEF Ends, Creating, Adding, Completing, Removing, Crash, Fails,
       CreateRunning, AddRunning, CompleteRunning, CleanRunning
  <2> QED BY <2>1, EndsOneCall
<1>26. ASSUME Restart \/ Listen
      PROVE  OneCall'
  BY <1>26, EndsOneCall, EndsOneCall DEF Restart, Ends, Creating, Adding,
     Completing, Removing, Listen
<1>27. ASSUME NEW f \in File,
                \/ BootDeletesLoose(f)
                \/ BootUnlinks(f)
                \/ BootDeletesRow(f)
      PROVE  OneCall'
  BY <1>27, EndsOneCall, EndsOneCall, EndsOneCall DEF BootDeletesLoose, Boots,
     Fails, Ends, Creating, Adding, Completing, Removing, BootUnlinks,
     Removes, BootDeletesRow
<1>28. ASSUME NEW r \in Run,
                \/ BootReads(r)
                \/ BootDropsDirectory(r)
                \/ BootDeletesRun(r)
      PROVE  OneCall'
  BY <1>28, EndsOneCall, EndsOneCall, EndsOneCall DEF BootReads, Boots, Ends,
     Creating, Adding, Completing, Removing, BootDropsDirectory, Removes,
     Fails, BootDeletesRun, LinksWithout
<1>29. CASE UNCHANGED vars
  BY <1>29, EndsOneCall DEF vars, Ends, Creating, Adding, Completing, Removing
<1> QED BY <1>1, <1>2, <1>3, <1>4, <1>5, <1>6, <1>7, <1>8, <1>9, <1>10, <1>11,
   <1>12, <1>13, <1>14, <1>15, <1>16, <1>17, <1>18, <1>19, <1>20, <1>21,
   <1>22, <1>23, <1>24, <1>25, <1>26, <1>27, <1>28, <1>29 DEF Next,
   CreateStep, CompleteStep, AddStep, CleanStep, BootStep

(***************************************************************************)
(* What one call at a time adds.  Stages: a call finds the run as it       *)
(* checked it, and completeRun commits the documents it has read.  Links:  *)
(* rows and runs agree.  Cleaning: _cleanupRunById deletes what it has     *)
(* read, after the files.  Sweeping: the sweep misses no run.  Owned: who  *)
(* a file belongs to.                                                      *)
(***************************************************************************)
Stages ==
  /\ \A f \in File : add[f] \in AddRunning => runStatus[RunOf[f]] = "in_progress"
  /\ \A r \in Run :
       /\ complete[r] = "checked" => runStatus[r] = "in_progress"
       /\ complete[r] \in {"marked", "moving"} => runStatus[r] = "moving"
       /\ complete[r] = "recorded" => runStatus[r] = "completed"

Batch ==
  \A r \in Run :
    /\ complete[r] = "moving" =>
         /\ taken[r] = {f \in File : RunOf[f] = r /\ row[f] = "uploaded"}
         /\ \A f \in taken[r] \ toMove[r] : staging[Slot(f)] = NoFile
    /\ complete[r] \in {"recorded", "succeeded"} =>
         \A f \in taken[r] : row[f] = "finalized"

Links ==
  \A f \in File :
    /\ row[f] = "finalized" => runStatus[RunOf[f]] \in {"completed", "none"}
    /\ row[f] = "uploaded" /\ f \in linked => RunOf[f] \in Incomplete
    /\ row[f] = "uploaded" /\ f \notin linked =>
         runStatus[RunOf[f]] = "none" /\ Cleared(Slot(f))

Targets ==
  \A c \in Cleaner :
    /\ clean[c] \notin CleanRunning => queue[c] = {}
    /\ clean[c] \in {"unlinking", "dropped"} => \E r \in queue[c] : target[c] = {r}

Cleaning ==
  \A c \in Cleaner :
    /\ clean[c] \in {"unlinking", "dropped"} =>
         \A f \in File : f \in doomed[c] <=>
           f \in linked /\ RunOf[f] \in target[c] /\ row[f] # "finalized"
    /\ clean[c] = "dropped" => \A r \in target[c], n \in Name : Cleared(<<r, n>>)

Sweeping ==
  \A r \in Run : create[r] = "sweeping" => Incomplete \subseteq queue[<<"sweep", r>>]

Owned ==
  \A p \in Path :
    /\ permanent[p] # NoFile =>
         \/ p[1] \in spoiled
         \/ \E f \in File : Slot(f) = p /\
              \/ row[f] = "finalized"
              \/ complete[p[1]] = "moving" /\ f \in taken[p[1]] \ toMove[p[1]]
    /\ staging[p] # NoFile =>
         \/ p \in kept
         \/ \E f \in File : Slot(f) = p /\
              \/ add[f] \in {"failed", "staged", "duplicate", "novel"}
              \/ row[f] = "uploaded" /\ f \in linked

LEMMA StagesStep ==
  ASSUME Sequential, TypeOK, BootRest, Opened, Called, OneCall, Stages,
         [Next]_vars
  PROVE  Stages'
<1> USE IngestionAssumption, TypeParts DEF TypeTables, TypeCalls, Stages,
   tables, files, completion, cleaning, booting, history
<1>1. ASSUME NEW r \in Run,
                \/ CreateSweeps(r)
                \/ CreateOpens(r)
                \/ CreateFaults(r)
      PROVE  Stages'
  BY <1>1 DEF CreateSweeps, MayCall, CreateOpens, CreateBecomes, CreateFaults,
     Fails
<1>2. ASSUME NEW r \in Run, CreateInserts(r)
      PROVE  Stages'
  BY <1>2 DEF CreateInserts, CreateBecomes, CreateRunning, AddRunning,
     CompleteRunning, CleanRunning, Opened
<1>3. ASSUME NEW r \in Run, CompleteChecks(r)
      PROVE  Stages'
  BY <1>3 DEF CompleteChecks, MayCall, CompleteBecomes
<1>4. ASSUME NEW r \in Run, CompleteMarks(r)
      PROVE  Stages'
  BY <1>4, CompleteAlone DEF CompleteMarks, CompleteBecomes, CreateRunning,
     AddRunning, CompleteRunning, CleanRunning
<1>5. ASSUME NEW r \in Run, CompleteReads(r)
      PROVE  Stages'
  BY <1>5 DEF CompleteReads, CompleteBecomes, DocumentsOf
<1>6. ASSUME NEW r \in Run, NEW f \in File, CompleteMoves(r, f)
      PROVE  Stages'
  BY <1>6 DEF CompleteMoves, CompleteBecomes
<1>7. ASSUME NEW r \in Run, CompleteRecords(r)
      PROVE  Stages'
  BY <1>7, CompleteAlone DEF CompleteRecords, CompleteBecomes, CreateRunning,
     AddRunning, CompleteRunning, CleanRunning
<1>8. ASSUME NEW r \in Run, CompleteReports(r)
      PROVE  Stages'
  BY <1>8 DEF CompleteReports, CompleteBecomes
<1>9. ASSUME NEW r \in Run, CompleteFaults(r)
      PROVE  Stages'
  BY <1>9 DEF CompleteFaults, CompleteBecomes, Fails
<1>10. ASSUME NEW r \in Run, RemoveRun(r)
      PROVE  Stages'
  BY <1>10 DEF RemoveRun, MayCall, CleanBecomes
<1>11. ASSUME NEW f \in File, AddChecks(f)
      PROVE  Stages'
  BY <1>11 DEF AddChecks, MayCall, AddBecomes, CreateRunning, AddRunning,
     CompleteRunning, CleanRunning
<1>12. ASSUME NEW f \in File, AddStages(f)
      PROVE  Stages'
  BY <1>12 DEF AddStages, AddBecomes, CreateRunning, AddRunning,
     CompleteRunning, CleanRunning
<1>13. ASSUME NEW f \in File, AddLooksUpHash(f)
      PROVE  Stages'
  BY <1>13 DEF AddLooksUpHash, AddBecomes, CreateRunning, AddRunning,
     CompleteRunning, CleanRunning
<1>14. ASSUME NEW f \in File, AddDropsDuplicate(f)
      PROVE  Stages'
  BY <1>14 DEF AddDropsDuplicate, AddBecomes, Removes, Fails, CreateRunning,
     AddRunning, CompleteRunning, CleanRunning
<1>15. ASSUME NEW f \in File, AddRecords(f)
      PROVE  Stages'
  BY <1>15 DEF AddRecords, AddBecomes, CreateRunning, AddRunning,
     CompleteRunning, CleanRunning
<1>16. ASSUME NEW f \in File, AddFaults(f)
      PROVE  Stages'
  BY <1>16 DEF AddFaults, AddBecomes, Fails, CreateRunning, AddRunning,
     CompleteRunning, CleanRunning
<1>17. ASSUME NEW c \in Cleaner,
                \/ \E r \in Run : CleanReads(c, r)
                \/ \E f \in File : CleanUnlinks(c, f)
                \/ CleanDropsDirectory(c)
                \/ CleanFaults(c)
      PROVE  Stages'
  BY <1>17 DEF CleanReads, CleanBecomes, CleanUnlinks, Removes, Fails,
     CleanDropsDirectory, CleanFaults, CleanEnds
<1>18. ASSUME NEW c \in Cleaner, CleanCommits(c)
      PROVE  Stages'
  BY <1>18, CleanAlone DEF CleanCommits, CleanBecomes, RowsWithout,
     LinksWithout, CreateRunning, AddRunning, CompleteRunning, CleanRunning
<1>19. ASSUME NEW c \in Content, WebFinalizes(c)
      PROVE  Stages'
  BY <1>19 DEF WebFinalizes
<1>20. ASSUME Crash
      PROVE  Stages'
  BY <1>20 DEF Crash, Fails, CreateRunning, AddRunning, CompleteRunning,
     CleanRunning
<1>21. ASSUME Restart \/ Listen
      PROVE  Stages'
  BY <1>21 DEF Restart, Listen
<1>22. ASSUME NEW f \in File,
                \/ BootDeletesLoose(f)
                \/ BootUnlinks(f)
                \/ BootDeletesRow(f)
      PROVE  Stages'
  BY <1>22 DEF BootDeletesLoose, Boots, Fails, BootUnlinks, Removes,
     BootDeletesRow
<1>23. ASSUME NEW r \in Run, BootReads(r) \/ BootDropsDirectory(r)
      PROVE  Stages'
  BY <1>23 DEF BootReads, Boots, BootDropsDirectory, Removes, Fails
<1>24. ASSUME NEW r \in Run, BootDeletesRun(r)
      PROVE  Stages'
  BY <1>24 DEF BootDeletesRun, Boots, LinksWithout, Fails, CreateRunning,
     AddRunning, CompleteRunning, CleanRunning, BootRest, Quiet
<1>25. CASE UNCHANGED vars
  BY <1>25 DEF vars
<1> QED BY <1>1, <1>2, <1>3, <1>4, <1>5, <1>6, <1>7, <1>8, <1>9, <1>10, <1>11,
   <1>12, <1>13, <1>14, <1>15, <1>16, <1>17, <1>18, <1>19, <1>20, <1>21,
   <1>22, <1>23, <1>24, <1>25 DEF Next, CreateStep, CompleteStep, AddStep,
   CleanStep, BootStep

LEMMA LinksStep ==
  ASSUME Sequential, TypeOK, BootRest, BootLists, BootFiles, ForeignKey,
         Accepted, Opened, Called, OneCall, Stages, Batch, Targets,
         Cleaning, Links, [Next]_vars
  PROVE  Links'
<1> USE IngestionAssumption, PathFacts, TypeParts DEF TypeTables, TypeFiles,
   TypeCalls, Links, Incomplete, Cleared, tables, files, completion, cleaning,
   booting, history
<1>1. ASSUME NEW r \in Run,
                \/ CreateSweeps(r)
                \/ CreateOpens(r)
                \/ CreateFaults(r)
      PROVE  Links'
  BY <1>1 DEF CreateSweeps, MayCall, CreateOpens, CreateBecomes, CreateFaults,
     Fails
<1>2. ASSUME NEW r \in Run, CreateInserts(r)
      PROVE  Links'
  BY <1>2, SMTT(30) DEF CreateInserts, CreateBecomes, Accepted, Opened
<1>3. ASSUME NEW r \in Run,
                \/ CompleteChecks(r)
                \/ CompleteReads(r)
                \/ CompleteReports(r)
                \/ CompleteFaults(r)
      PROVE  Links'
  BY <1>3 DEF CompleteChecks, MayCall, CompleteBecomes, CompleteReads,
     DocumentsOf, CompleteReports, CompleteFaults, Fails
<1>4. ASSUME NEW r \in Run, CompleteMarks(r)
      PROVE  Links'
  BY <1>4 DEF CompleteMarks, CompleteBecomes, Stages
<1>5. ASSUME NEW r \in Run, NEW f \in File, CompleteMoves(r, f)
      PROVE  Links'
  BY <1>5 DEF CompleteMoves, CompleteBecomes
<1>6. ASSUME NEW r \in Run, CompleteRecords(r)
      PROVE  Links'
  BY <1>6 DEF CompleteRecords, CompleteBecomes, Stages, Batch
<1>7. ASSUME NEW r \in Run, RemoveRun(r)
      PROVE  Links'
  BY <1>7 DEF RemoveRun, MayCall, CleanBecomes
<1>8. ASSUME NEW f \in File,
                \/ AddChecks(f)
                \/ AddLooksUpHash(f)
                \/ AddFaults(f)
      PROVE  Links'
  BY <1>8 DEF AddChecks, MayCall, AddBecomes, AddLooksUpHash, AddFaults, Fails
<1>9. ASSUME NEW f \in File, AddStages(f)
      PROVE  Links'
  BY <1>9 DEF AddStages, AddBecomes, Stages, CreateRunning, AddRunning,
     CompleteRunning, CleanRunning
<1>10. ASSUME NEW f \in File, AddDropsDuplicate(f)
      PROVE  Links'
  BY <1>10 DEF AddDropsDuplicate, AddBecomes, Removes, Fails
<1>11. ASSUME NEW f \in File, AddRecords(f)
      PROVE  Links'
  BY <1>11 DEF AddRecords, AddBecomes, Stages, CreateRunning, AddRunning,
     CompleteRunning, CleanRunning
<1>12. ASSUME NEW c \in Cleaner,
                \/ \E r \in Run : CleanReads(c, r)
                \/ CleanFaults(c)
      PROVE  Links'
  BY <1>12 DEF CleanReads, CleanBecomes, CleanFaults, CleanEnds, Fails
<1>13. ASSUME NEW c \in Cleaner, NEW f \in File, CleanUnlinks(c, f)
      PROVE  Links'
  BY <1>13 DEF CleanUnlinks, CleanBecomes, Removes, Fails
<1>14. ASSUME NEW c \in Cleaner, CleanDropsDirectory(c)
      PROVE  Links'
  BY <1>14 DEF CleanDropsDirectory, CleanBecomes, Removes, Fails
<1>15. ASSUME NEW c \in Cleaner, CleanCommits(c)
      PROVE  Links'
  BY <1>15 DEF CleanCommits, CleanBecomes, RowsWithout, LinksWithout, Targets,
     Cleaning, TypeCleaning
<1>16. ASSUME NEW c \in Content, WebFinalizes(c)
      PROVE  Links'
  BY <1>16 DEF WebFinalizes
<1>17. ASSUME Crash \/ Restart \/ Listen
      PROVE  Links'
  BY <1>17 DEF Crash, Fails, Restart, Listen
<1>18. ASSUME NEW f \in File, BootDeletesLoose(f)
      PROVE  Links'
  BY <1>18 DEF BootDeletesLoose, Boots, Fails
<1>19. ASSUME NEW r \in Run, BootReads(r)
      PROVE  Links'
  BY <1>19 DEF BootReads, Boots
<1>20. ASSUME NEW f \in File, BootUnlinks(f)
      PROVE  Links'
  BY <1>20 DEF BootUnlinks, Boots, Removes, Fails
<1>21. ASSUME NEW f \in File, BootDeletesRow(f)
      PROVE  Links'
  BY <1>21 DEF BootDeletesRow, Boots, Fails, BootLists, BootFiles
<1>22. ASSUME NEW r \in Run, BootDropsDirectory(r)
      PROVE  Links'
  BY <1>22 DEF BootDropsDirectory, Boots, Removes, Fails
<1>23. ASSUME NEW r \in Run, BootDeletesRun(r)
      PROVE  Links'
  BY <1>23 DEF BootDeletesRun, Boots, LinksWithout, Fails, BootLists,
     BootFiles
<1>24. CASE UNCHANGED vars
  BY <1>24 DEF vars
<1> QED BY <1>1, <1>2, <1>3, <1>4, <1>5, <1>6, <1>7, <1>8, <1>9, <1>10, <1>11,
   <1>12, <1>13, <1>14, <1>15, <1>16, <1>17, <1>18, <1>19, <1>20, <1>21,
   <1>22, <1>23, <1>24 DEF Next, CreateStep, CompleteStep, AddStep, CleanStep,
   BootStep

LEMMA BatchStep ==
  ASSUME Sequential, TypeOK, BootRest, BootLists, Moved, Accepted, Opened,
         Called, OneCall, Stages, Links, Cleaning, Batch, [Next]_vars
  PROVE  Batch'
<1> USE IngestionAssumption, PathFacts, TypeParts DEF TypeTables, TypeFiles,
   TypeCalls, Batch, tables, files, completion, cleaning, booting, history
<1>1. ASSUME NEW r \in Run,
                \/ CreateSweeps(r)
                \/ CreateInserts(r)
                \/ CreateOpens(r)
                \/ CreateFaults(r)
      PROVE  Batch'
  BY <1>1 DEF CreateSweeps, MayCall, CreateInserts, CreateBecomes,
     CreateOpens, CreateFaults, Fails
<1>2. ASSUME NEW r \in Run, CompleteChecks(r)
      PROVE  Batch'
  <2>1. /\ complete' = [complete EXCEPT ![r] = "checked"]
        /\ UNCHANGED <<taken, toMove, row, staging>>
    BY <1>2 DEF CompleteChecks, CompleteBecomes
  <2> QED BY <2>1
<1>3. ASSUME NEW r \in Run, CompleteMarks(r)
      PROVE  Batch'
  BY <1>3 DEF CompleteMarks, CompleteBecomes
<1>4. ASSUME NEW r \in Run, CompleteReads(r)
      PROVE  Batch'
  BY <1>4 DEF CompleteReads, CompleteBecomes, DocumentsOf, Links, Stages
<1>5. ASSUME NEW r \in Run, NEW f \in File, CompleteMoves(r, f)
      PROVE  Batch'
  <2>1. CASE staging[Slot(f)] # NoFile
    <3>1. /\ complete' = complete /\ taken' = taken /\ row' = row
          /\ toMove'[r] = toMove[r] \ {f}
          /\ \A q \in Run \ {r} : toMove'[q] = toMove[q]
      BY <1>5, <2>1 DEF CompleteMoves, CompleteBecomes
    <3>2. /\ staging'[Slot(f)] = NoFile
          /\ \A p \in Path : staging[p] = NoFile => staging'[p] = NoFile
      BY <1>5, <2>1 DEF CompleteMoves
    <3>3. ASSUME NEW q \in Run, NEW g \in taken[q] \ toMove'[q], complete[q] = "moving"
          PROVE  staging'[Slot(g)] = NoFile
      <4>1. g \in File /\ (g = f \/ g \in taken[q] \ toMove[q])
        BY <3>1, <3>3
      <4> QED BY <4>1, <3>2, <3>3
    <3> QED BY <3>1, <3>3
  <2>2. CASE staging[Slot(f)] = NoFile
    <3>1. /\ complete' = [complete EXCEPT ![r] = "failed"]
          /\ UNCHANGED <<taken, toMove, row, staging>>
      BY <1>5, <2>2 DEF CompleteMoves, CompleteBecomes
    <3> QED BY <3>1
  <2> QED BY <2>1, <2>2
<1>6. ASSUME NEW r \in Run, CompleteRecords(r)
      PROVE  Batch'
  BY <1>6, CompleteAlone DEF CompleteRecords, CompleteBecomes, Moved,
     CreateRunning, AddRunning, CompleteRunning, CleanRunning
<1>7. ASSUME NEW r \in Run, CompleteReports(r)
      PROVE  Batch'
  BY <1>7 DEF CompleteReports, CompleteBecomes
<1>8. ASSUME NEW r \in Run, CompleteFaults(r)
      PROVE  Batch'
  BY <1>8 DEF CompleteFaults, CompleteBecomes, Fails, CreateRunning,
     AddRunning, CompleteRunning, CleanRunning
<1>9. ASSUME NEW r \in Run, RemoveRun(r)
      PROVE  Batch'
  BY <1>9 DEF RemoveRun, MayCall, CleanBecomes
<1>10. ASSUME NEW f \in File,
                \/ AddChecks(f)
                \/ AddLooksUpHash(f)
                \/ AddFaults(f)
      PROVE  Batch'
  BY <1>10 DEF AddChecks, MayCall, AddBecomes, AddLooksUpHash, AddFaults,
     Fails
<1>11. ASSUME NEW f \in File, AddStages(f)
      PROVE  Batch'
  BY <1>11, AddAlone DEF AddStages, AddBecomes, CreateRunning, AddRunning,
     CompleteRunning, CleanRunning
<1>12. ASSUME NEW f \in File, AddDropsDuplicate(f)
      PROVE  Batch'
  BY <1>12 DEF AddDropsDuplicate, AddBecomes, Removes, Fails
<1>13. ASSUME NEW f \in File, AddRecords(f)
      PROVE  Batch'
  <2>1. /\ row[f] # "finalized"
        /\ \A q \in Run : complete[q] # "moving"
    BY <1>13, AddAlone DEF AddRecords, AddBecomes, Accepted, AddRunning, CompleteRunning
  <2>2. /\ UNCHANGED <<complete, taken, toMove, staging>>
        /\ \A g \in File \ {f} : row'[g] = row[g]
    BY <1>13 DEF AddRecords, AddBecomes
  <2> QED BY <2>1, <2>2
<1>14. ASSUME NEW c \in Cleaner,
                \/ \E r \in Run : CleanReads(c, r)
                \/ CleanFaults(c)
      PROVE  Batch'
  BY <1>14 DEF CleanReads, CleanBecomes, CleanFaults, CleanEnds, Fails
<1>15. ASSUME NEW c \in Cleaner, NEW f \in File, CleanUnlinks(c, f)
      PROVE  Batch'
  BY <1>15 DEF CleanUnlinks, CleanBecomes, Removes, Fails
<1>16. ASSUME NEW c \in Cleaner, CleanDropsDirectory(c)
      PROVE  Batch'
  BY <1>16 DEF CleanDropsDirectory, CleanBecomes, Removes, Fails
<1>17. ASSUME NEW c \in Cleaner, CleanCommits(c)
      PROVE  Batch'
  BY <1>17, CleanAlone DEF CleanCommits, CleanBecomes, RowsWithout,
     LinksWithout, Cleaning, TypeCleaning, CreateRunning, AddRunning,
     CompleteRunning, CleanRunning
<1>18. ASSUME NEW c \in Content, WebFinalizes(c)
      PROVE  Batch'
  BY <1>18 DEF WebFinalizes
<1>19. ASSUME Crash
      PROVE  Batch'
  BY <1>19 DEF Crash, Fails, CreateRunning, AddRunning, CompleteRunning,
     CleanRunning
<1>20. ASSUME Restart \/ Listen
      PROVE  Batch'
  BY <1>20 DEF Restart, Listen
<1>21. ASSUME NEW f \in File, BootDeletesLoose(f)
      PROVE  Batch'
  BY <1>21 DEF BootDeletesLoose, Boots, Fails, BootRest, BootLists, Quiet,
     CreateRunning, AddRunning, CompleteRunning, CleanRunning
<1>22. ASSUME NEW r \in Run, BootReads(r) \/ BootDeletesRun(r)
      PROVE  Batch'
  BY <1>22 DEF BootReads, Boots, BootDeletesRun, LinksWithout, Fails
<1>23. ASSUME NEW f \in File, BootUnlinks(f)
      PROVE  Batch'
  BY <1>23 DEF BootUnlinks, Boots, Removes, Fails
<1>24. ASSUME NEW f \in File, BootDeletesRow(f)
      PROVE  Batch'
  BY <1>24 DEF BootDeletesRow, Boots, Fails, BootRest, Quiet, CreateRunning,
     AddRunning, CompleteRunning, CleanRunning
<1>25. ASSUME NEW r \in Run, BootDropsDirectory(r)
      PROVE  Batch'
  BY <1>25 DEF BootDropsDirectory, Boots, Removes, Fails
<1>26. CASE UNCHANGED vars
  BY <1>26 DEF vars
<1> QED BY <1>1, <1>2, <1>3, <1>4, <1>5, <1>6, <1>7, <1>8, <1>9, <1>10, <1>11,
   <1>12, <1>13, <1>14, <1>15, <1>16, <1>17, <1>18, <1>19, <1>20, <1>21,
   <1>22, <1>23, <1>24, <1>25, <1>26 DEF Next, CreateStep, CompleteStep,
   AddStep, CleanStep, BootStep

LEMMA TargetsStep ==
  ASSUME TypeOK, Targets, [Next]_vars
  PROVE  Targets'
<1> USE CleanerFacts, TypeParts DEF TypeCleaning, Targets, CleanRunning,
   tables, files, completion, cleaning, booting, history
<1>1. ASSUME NEW r \in Run, CreateSweeps(r)
      PROVE  Targets'
  BY <1>1 DEF CreateSweeps, MayCall
<1>2. ASSUME NEW r \in Run,
                \/ CreateInserts(r)
                \/ CreateOpens(r)
                \/ CreateFaults(r)
      PROVE  Targets'
  BY <1>2 DEF CreateInserts, CreateBecomes, CreateOpens, CreateFaults, Fails
<1>3. ASSUME NEW r \in Run,
                \/ CompleteChecks(r)
                \/ CompleteMarks(r)
                \/ CompleteReads(r)
                \/ \E f \in File : CompleteMoves(r, f)
                \/ CompleteRecords(r)
                \/ CompleteReports(r)
                \/ CompleteFaults(r)
      PROVE  Targets'
  BY <1>3 DEF CompleteChecks, MayCall, CompleteBecomes, CompleteMarks,
     CompleteReads, DocumentsOf, CompleteMoves, CompleteRecords,
     CompleteReports, CompleteFaults, Fails
<1>4. ASSUME NEW r \in Run, RemoveRun(r)
      PROVE  Targets'
  BY <1>4, ZenonT(30) DEF RemoveRun, MayCall, CleanBecomes
<1>5. ASSUME NEW f \in File,
                \/ AddChecks(f)
                \/ AddStages(f)
                \/ AddLooksUpHash(f)
                \/ AddDropsDuplicate(f)
                \/ AddRecords(f)
                \/ AddFaults(f)
      PROVE  Targets'
  BY <1>5 DEF AddChecks, MayCall, AddBecomes, AddStages, AddLooksUpHash,
     AddDropsDuplicate, Removes, Fails, AddRecords, AddFaults
<1>6. ASSUME NEW c \in Cleaner, NEW r \in Run, CleanReads(c, r)
      PROVE  Targets'
  BY <1>6 DEF CleanReads, CleanBecomes
<1>7. ASSUME NEW c \in Cleaner, NEW f \in File, CleanUnlinks(c, f)
      PROVE  Targets'
  BY <1>7 DEF CleanUnlinks, CleanBecomes, Removes, Fails
<1>8. ASSUME NEW c \in Cleaner, CleanDropsDirectory(c)
      PROVE  Targets'
  BY <1>8 DEF CleanDropsDirectory, CleanBecomes, Removes, Fails
<1>9. ASSUME NEW c \in Cleaner, CleanCommits(c)
      PROVE  Targets'
  BY <1>9 DEF CleanCommits, CleanBecomes, RowsWithout, LinksWithout
<1>10. ASSUME NEW c \in Cleaner, CleanFaults(c)
      PROVE  Targets'
  BY <1>10 DEF CleanFaults, CleanEnds, Fails
<1>11. ASSUME NEW c \in Content, WebFinalizes(c)
      PROVE  Targets'
  BY <1>11 DEF WebFinalizes
<1>12. ASSUME Crash
      PROVE  Targets'
  BY <1>12 DEF Crash, Fails
<1>13. ASSUME Restart \/ Listen
      PROVE  Targets'
  BY <1>13 DEF Restart, Listen
<1>14. ASSUME NEW f \in File,
                \/ BootDeletesLoose(f)
                \/ BootUnlinks(f)
                \/ BootDeletesRow(f)
      PROVE  Targets'
  BY <1>14 DEF BootDeletesLoose, Boots, Fails, BootUnlinks, Removes,
     BootDeletesRow
<1>15. ASSUME NEW r \in Run,
                \/ BootReads(r)
                \/ BootDropsDirectory(r)
                \/ BootDeletesRun(r)
      PROVE  Targets'
  BY <1>15 DEF BootReads, Boots, BootDropsDirectory, Removes, Fails,
     BootDeletesRun, LinksWithout
<1>16. CASE UNCHANGED vars
  BY <1>16 DEF vars
<1> QED BY <1>1, <1>2, <1>3, <1>4, <1>5, <1>6, <1>7, <1>8, <1>9, <1>10, <1>11,
   <1>12, <1>13, <1>14, <1>15, <1>16 DEF Next, CreateStep, CompleteStep,
   AddStep, CleanStep, BootStep

LEMMA CleaningStep ==
  ASSUME Sequential, TypeOK, BootRest, BootLists, Opened, Called, OneCall,
         Targets, Cleaning, [Next]_vars
  PROVE  Cleaning'
<1> USE CleanerFacts, PathFacts, TypeParts DEF TypeTables, TypeFiles,
   TypeCleaning, Cleaning, Cleared, CleanRunning, tables, files, completion,
   cleaning, booting, history
<1>1. ASSUME NEW r \in Run, CreateSweeps(r)
      PROVE  Cleaning'
  BY <1>1 DEF CreateSweeps, MayCall
<1>2. ASSUME NEW r \in Run,
                \/ CreateInserts(r)
                \/ CreateOpens(r)
                \/ CreateFaults(r)
      PROVE  Cleaning'
  BY <1>2 DEF CreateInserts, CreateBecomes, CreateOpens, CreateFaults, Fails
<1>3. ASSUME NEW r \in Run,
                \/ CompleteChecks(r)
                \/ CompleteMarks(r)
                \/ CompleteReads(r)
                \/ CompleteReports(r)
                \/ CompleteFaults(r)
      PROVE  Cleaning'
  BY <1>3 DEF CompleteChecks, MayCall, CompleteBecomes, CompleteMarks,
     CompleteReads, DocumentsOf, CompleteReports, CompleteFaults, Fails
<1>4. ASSUME NEW r \in Run, NEW f \in File, CompleteMoves(r, f)
      PROVE  Cleaning'
  BY <1>4, CompleteAlone DEF CompleteMoves, CompleteBecomes, CompleteRunning
<1>5. ASSUME NEW r \in Run, CompleteRecords(r)
      PROVE  Cleaning'
  BY <1>5, CompleteAlone DEF CompleteRecords, CompleteBecomes, CompleteRunning
<1>6. ASSUME NEW r \in Run, RemoveRun(r)
      PROVE  Cleaning'
  <2>1. /\ clean' = [clean EXCEPT ![<<"remove", r>>] = "next"]
        /\ UNCHANGED <<target, doomed, row, linked, staging, kept>>
    BY <1>6 DEF RemoveRun, CleanBecomes
  <2> QED BY <2>1
<1>7. ASSUME NEW f \in File,
                \/ AddChecks(f)
                \/ AddLooksUpHash(f)
                \/ AddFaults(f)
      PROVE  Cleaning'
  BY <1>7 DEF AddChecks, MayCall, AddBecomes, AddLooksUpHash, AddFaults, Fails
<1>8. ASSUME NEW f \in File, AddStages(f)
      PROVE  Cleaning'
  BY <1>8, AddAlone DEF AddStages, AddBecomes, AddRunning
<1>9. ASSUME NEW f \in File, AddDropsDuplicate(f)
      PROVE  Cleaning'
  BY <1>9 DEF AddDropsDuplicate, AddBecomes, Removes, Fails
<1>10. ASSUME NEW f \in File, AddRecords(f)
      PROVE  Cleaning'
  BY <1>10, AddAlone DEF AddRecords, AddBecomes, AddRunning
<1>11. ASSUME NEW c \in Cleaner, NEW r \in Run, CleanReads(c, r)
      PROVE  Cleaning'
  BY <1>11, CleanAlone DEF CleanReads, CleanBecomes, DocumentsOf
<1>12. ASSUME NEW c \in Cleaner, NEW f \in File, CleanUnlinks(c, f)
      PROVE  Cleaning'
  BY <1>12, CleanAlone DEF CleanUnlinks, CleanBecomes, Removes, Fails
<1>13. ASSUME NEW c \in Cleaner, CleanDropsDirectory(c)
      PROVE  Cleaning'
  BY <1>13, CleanAlone DEF CleanDropsDirectory, CleanBecomes, Removes, Fails
<1>14. ASSUME NEW c \in Cleaner, CleanCommits(c)
      PROVE  Cleaning'
  BY <1>14, CleanAlone DEF CleanCommits, CleanBecomes, RowsWithout,
     LinksWithout
<1>15. ASSUME NEW c \in Cleaner, CleanFaults(c)
      PROVE  Cleaning'
  BY <1>15 DEF CleanFaults, CleanEnds, Fails
<1>16. ASSUME NEW c \in Content, WebFinalizes(c)
      PROVE  Cleaning'
  BY <1>16 DEF WebFinalizes
<1>17. ASSUME Crash
      PROVE  Cleaning'
  BY <1>17 DEF Crash, Fails
<1>18. ASSUME Restart \/ Listen
      PROVE  Cleaning'
  BY <1>18 DEF Restart, Listen, BootRest, Quiet
<1>19. ASSUME NEW f \in File, BootDeletesLoose(f)
      PROVE  Cleaning'
  BY <1>19 DEF BootDeletesLoose, Boots, Fails, BootRest, Quiet
<1>20. ASSUME NEW r \in Run, BootReads(r)
      PROVE  Cleaning'
  BY <1>20 DEF BootReads, Boots, BootRest, Quiet
<1>21. ASSUME NEW f \in File, BootUnlinks(f)
      PROVE  Cleaning'
  BY <1>21 DEF BootUnlinks, Boots, Removes, Fails, BootRest, Quiet
<1>22. ASSUME NEW f \in File, BootDeletesRow(f)
      PROVE  Cleaning'
  BY <1>22 DEF BootDeletesRow, Boots, Fails, BootRest, Quiet
<1>23. ASSUME NEW r \in Run, BootDropsDirectory(r)
      PROVE  Cleaning'
  BY <1>23 DEF BootDropsDirectory, Boots, Removes, Fails, BootRest, Quiet
<1>24. ASSUME NEW r \in Run, BootDeletesRun(r)
      PROVE  Cleaning'
  BY <1>24 DEF BootDeletesRun, Boots, LinksWithout, Fails, BootRest, Quiet
<1>25. CASE UNCHANGED vars
  BY <1>25 DEF vars
<1> QED BY <1>1, <1>2, <1>3, <1>4, <1>5, <1>6, <1>7, <1>8, <1>9, <1>10, <1>11,
   <1>12, <1>13, <1>14, <1>15, <1>16, <1>17, <1>18, <1>19, <1>20, <1>21,
   <1>22, <1>23, <1>24, <1>25 DEF Next, CreateStep, CompleteStep, AddStep,
   CleanStep, BootStep

LEMMA SweepingStep ==
  ASSUME Sequential, TypeOK, BootRest, Called, OneCall, Stages, Targets,
         Sweeping, [Next]_vars
  PROVE  Sweeping'
<1> USE CleanerFacts, TypeParts DEF TypeTables, TypeCalls, TypeCleaning,
   Sweeping, Incomplete, tables, files, completion, cleaning, booting, history
<1>1. ASSUME NEW r \in Run, CreateSweeps(r)
      PROVE  Sweeping'
  BY <1>1 DEF CreateSweeps, MayCall
<1>2. ASSUME NEW r \in Run, CreateInserts(r)
      PROVE  Sweeping'
  <2>1. \A q \in Run : create'[q] # "sweeping"
    BY <1>2, CreateAlone DEF CreateInserts, CreateBecomes, CreateRunning
  <2> QED BY <2>1
<1>3. ASSUME NEW r \in Run, CreateOpens(r)
      PROVE  Sweeping'
  BY <1>3 DEF CreateOpens, CreateBecomes
<1>4. ASSUME NEW r \in Run, CreateFaults(r)
      PROVE  Sweeping'
  BY <1>4 DEF CreateFaults, CreateBecomes, Fails
<1>5. ASSUME NEW r \in Run,
                \/ CompleteChecks(r)
                \/ CompleteReads(r)
                \/ \E f \in File : CompleteMoves(r, f)
                \/ CompleteReports(r)
                \/ CompleteFaults(r)
      PROVE  Sweeping'
  BY <1>5 DEF CompleteChecks, MayCall, CompleteBecomes, CompleteReads,
     DocumentsOf, CompleteMoves, CompleteReports, CompleteFaults, Fails
<1>6. ASSUME NEW r \in Run, CompleteMarks(r)
      PROVE  Sweeping'
  BY <1>6, CompleteAlone DEF CompleteMarks, CompleteBecomes, CreateRunning,
     AddRunning, CompleteRunning, CleanRunning
<1>7. ASSUME NEW r \in Run, CompleteRecords(r)
      PROVE  Sweeping'
  BY <1>7, CompleteAlone DEF CompleteRecords, CompleteBecomes, CreateRunning,
     AddRunning, CompleteRunning, CleanRunning
<1>8. ASSUME NEW r \in Run, RemoveRun(r)
      PROVE  Sweeping'
  BY <1>8 DEF RemoveRun, MayCall, CleanBecomes
<1>9. ASSUME NEW f \in File,
                \/ AddChecks(f)
                \/ AddStages(f)
                \/ AddLooksUpHash(f)
                \/ AddDropsDuplicate(f)
                \/ AddRecords(f)
                \/ AddFaults(f)
      PROVE  Sweeping'
  BY <1>9 DEF AddChecks, MayCall, AddBecomes, AddStages, AddLooksUpHash,
     AddDropsDuplicate, Removes, Fails, AddRecords, AddFaults
<1>10. ASSUME NEW c \in Cleaner, NEW r \in Run, CleanReads(c, r)
      PROVE  Sweeping'
  BY <1>10 DEF CleanReads, CleanBecomes
<1>11. ASSUME NEW c \in Cleaner, NEW f \in File, CleanUnlinks(c, f)
      PROVE  Sweeping'
  BY <1>11 DEF CleanUnlinks, CleanBecomes, Removes, Fails
<1>12. ASSUME NEW c \in Cleaner, CleanDropsDirectory(c)
      PROVE  Sweeping'
  BY <1>12 DEF CleanDropsDirectory, CleanBecomes, Removes, Fails
<1>13. ASSUME NEW c \in Cleaner, CleanCommits(c)
      PROVE  Sweeping'
  <2>1. PICK r \in target[c] :
          /\ runStatus' = [runStatus EXCEPT ![r] = "none"]
          /\ queue' = [queue EXCEPT ![c] = queue[c] \ {r}]
          /\ create' = create /\ clean[c] \in CleanRunning
    BY <1>13 DEF CleanCommits, CleanBecomes, CleanRunning
  <2>2. ASSUME NEW q \in Run, create[q] = "sweeping"
        PROVE  Incomplete' \subseteq queue'[<<"sweep", q>>]
    <3>1. c = <<"sweep", q>>
      BY <2>1, <2>2, CleanAlone DEF CreateRunning
    <3>2. Incomplete' \subseteq Incomplete \ {r}
      BY <2>1
    <3>3. queue'[<<"sweep", q>>] = queue[<<"sweep", q>>] \ {r}
      BY <2>1, <3>1
    <3> QED BY <2>2, <3>2, <3>3
  <2> QED BY <2>1, <2>2
<1>14. ASSUME NEW c \in Cleaner, CleanFaults(c)
      PROVE  Sweeping'
  <2>1. \A q \in Run : create'[q] # "sweeping"
    <3> SUFFICES ASSUME NEW q \in Run, create'[q] = "sweeping"
                 PROVE  FALSE
      OBVIOUS
    <3>1. create[q] = "sweeping" /\ clean[c] \in CleanRunning
      BY <1>14 DEF CleanFaults
    <3>2. c = <<"sweep", q>> /\ c[2] = q
      BY <3>1, CleanAlone DEF CreateRunning
    <3> QED BY <1>14, <3>1, <3>2 DEF CleanFaults
  <2> QED BY <2>1
<1>15. ASSUME NEW c \in Content, WebFinalizes(c)
      PROVE  Sweeping'
  BY <1>15 DEF WebFinalizes
<1>16. ASSUME Crash
      PROVE  Sweeping'
  BY <1>16 DEF Crash, Fails, CreateRunning, AddRunning, CompleteRunning,
     CleanRunning
<1>17. ASSUME Restart \/ Listen
      PROVE  Sweeping'
  BY <1>17 DEF Restart, Listen
<1>18. ASSUME NEW f \in File,
                \/ BootDeletesLoose(f)
                \/ BootUnlinks(f)
                \/ BootDeletesRow(f)
      PROVE  Sweeping'
  BY <1>18 DEF BootDeletesLoose, Boots, Fails, BootUnlinks, Removes,
     BootDeletesRow
<1>19. ASSUME NEW r \in Run, BootReads(r) \/ BootDropsDirectory(r)
      PROVE  Sweeping'
  BY <1>19 DEF BootReads, Boots, BootDropsDirectory, Removes, Fails
<1>20. ASSUME NEW r \in Run, BootDeletesRun(r)
      PROVE  Sweeping'
  BY <1>20 DEF BootDeletesRun, Boots, LinksWithout, Fails, BootRest, Quiet,
     CreateRunning, AddRunning, CompleteRunning, CleanRunning
<1>21. CASE UNCHANGED vars
  BY <1>21 DEF vars
<1> QED BY <1>1, <1>2, <1>3, <1>4, <1>5, <1>6, <1>7, <1>8, <1>9, <1>10, <1>11,
   <1>12, <1>13, <1>14, <1>15, <1>16, <1>17, <1>18, <1>19, <1>20, <1>21 DEF
   Next, CreateStep, CompleteStep, AddStep, CleanStep, BootStep

LEMMA OwnedStep ==
  ASSUME Sequential, TypeOK, BootRest, BootLists, BootFiles, Moved, Accepted,
         Called, OneCall, Batch, Targets, Cleaning, Links, Owned,
         [Next]_vars
  PROVE  Owned'
<1> USE IngestionAssumption, PathFacts, TypeParts DEF TypeTables, TypeFiles,
   TypeCalls, Owned, Cleared, tables, files, completion, cleaning, booting,
   history
<1>1. ASSUME NEW r \in Run,
                \/ CreateSweeps(r)
                \/ CreateInserts(r)
                \/ CreateOpens(r)
                \/ CreateFaults(r)
      PROVE  Owned'
  <2>1. UNCHANGED <<staging, permanent, row, linked, add, complete, taken, toMove,
                    spoiled, kept>>
    BY <1>1 DEF CreateSweeps, CreateInserts, CreateOpens, CreateFaults, CreateBecomes
  <2> QED BY <2>1
<1>2. ASSUME NEW r \in Run, CompleteChecks(r)
      PROVE  Owned'
  BY <1>2 DEF CompleteChecks, MayCall, CompleteBecomes
<1>3. ASSUME NEW r \in Run, CompleteMarks(r)
      PROVE  Owned'
  BY <1>3 DEF CompleteMarks, CompleteBecomes
<1>4. ASSUME NEW r \in Run, CompleteReads(r)
      PROVE  Owned'
  BY <1>4 DEF CompleteReads, CompleteBecomes, DocumentsOf, HasMoved
<1>5. ASSUME NEW r \in Run, NEW f \in File, CompleteMoves(r, f)
      PROVE  Owned'
  <2>1. /\ f \in toMove[r] /\ complete[r] = "moving"
        /\ UNCHANGED <<row, linked, add, taken, kept>>
    BY <1>5 DEF CompleteMoves, CompleteBecomes
  <2>2. CASE staging[Slot(f)] # NoFile
    <3>1. /\ complete' = complete /\ spoiled' = spoiled
          /\ toMove'[r] = toMove[r] \ {f}
          /\ \A q \in Run \ {r} : toMove'[q] = toMove[q]
      BY <1>5, <2>2 DEF CompleteMoves, CompleteBecomes
    <3>2. /\ \A p \in Path : staging'[p] # NoFile => staging'[p] = staging[p]
          /\ \A p \in Path \ {Slot(f)} : permanent'[p] = permanent[p]
      BY <1>5, <2>2 DEF CompleteMoves
    <3>3. f \in taken[r] /\ Slot(f)[1] = r
      BY <2>1 DEF Moved
    <3>4. ASSUME NEW p \in Path, permanent'[p] # NoFile, p[1] \notin spoiled'
          PROVE  \E g \in File : Slot(g) = p /\
                   \/ row'[g] = "finalized"
                   \/ complete'[p[1]] = "moving" /\ g \in taken'[p[1]] \ toMove'[p[1]]
      <4>1. CASE p = Slot(f)
        BY <2>1, <3>1, <3>3, <4>1
      <4>2. CASE p # Slot(f)
        <5>1. PICK g \in File : Slot(g) = p /\
                \/ row[g] = "finalized"
                \/ complete[p[1]] = "moving" /\ g \in taken[p[1]] \ toMove[p[1]]
          BY <3>1, <3>2, <3>4, <4>2
        <5> QED BY <2>1, <3>1, <5>1
      <4> QED BY <4>1, <4>2
    <3>5. \A p \in Path : staging'[p] # NoFile /\ p \notin kept' =>
            \E g \in File : Slot(g) = p /\
              \/ add'[g] \in {"failed", "staged", "duplicate", "novel"}
              \/ row'[g] = "uploaded" /\ g \in linked'
      BY <2>1, <3>2
    <3> QED BY <3>4, <3>5
  <2>3. CASE staging[Slot(f)] = NoFile
    <3>1. /\ complete' = [complete EXCEPT ![r] = "failed"]
          /\ UNCHANGED <<toMove, staging, permanent>>
          /\ spoiled' = spoiled \cup HasMoved(r)
      BY <1>5, <2>3 DEF CompleteMoves, CompleteBecomes
    <3>2. taken[r] \ toMove[r] # {} => r \in spoiled'
      BY <2>1, <3>1 DEF HasMoved
    <3> QED BY <2>1, <3>1, <3>2
  <2> QED BY <2>2, <2>3
<1>6. ASSUME NEW r \in Run, CompleteRecords(r)
      PROVE  Owned'
  BY <1>6 DEF CompleteRecords, CompleteBecomes, Moved, Batch, HasMoved
<1>7. ASSUME NEW r \in Run, CompleteReports(r)
      PROVE  Owned'
  BY <1>7 DEF CompleteReports, CompleteBecomes
<1>8. ASSUME NEW r \in Run, CompleteFaults(r)
      PROVE  Owned'
  BY <1>8 DEF CompleteFaults, CompleteBecomes, Fails, HasMoved
<1>9. ASSUME NEW r \in Run, RemoveRun(r)
      PROVE  Owned'
  BY <1>9 DEF RemoveRun, MayCall, CleanBecomes
<1>10. ASSUME NEW f \in File, AddChecks(f)
      PROVE  Owned'
  BY <1>10, ZenonT(30) DEF AddChecks, MayCall, AddBecomes
<1>11. ASSUME NEW f \in File, AddStages(f)
      PROVE  Owned'
  BY <1>11 DEF AddStages, AddBecomes
<1>12. ASSUME NEW f \in File, AddLooksUpHash(f)
      PROVE  Owned'
  BY <1>12 DEF AddLooksUpHash, AddBecomes
<1>13. ASSUME NEW f \in File, AddDropsDuplicate(f)
      PROVE  Owned'
  BY <1>13 DEF AddDropsDuplicate, AddBecomes, Removes, Fails
<1>14. ASSUME NEW f \in File, AddRecords(f)
      PROVE  Owned'
  <2>1. add[f] = "novel" /\ row[f] = "none"
    BY <1>14 DEF AddRecords, AddBecomes, Accepted
  <2>2. UNCHANGED <<staging, permanent, complete, taken, toMove, spoiled, kept>>
    BY <1>14 DEF AddRecords, AddBecomes
  <2>3. /\ \A g \in File \ {f} : add'[g] = add[g] /\ row'[g] = row[g]
        /\ \A g \in linked : g \in linked'
        /\ \/ add'[f] = "failed" /\ row'[f] = "none"
           \/ add'[f] = "accepted" /\ row'[f] = "uploaded" /\ f \in linked'
    BY <1>14, <2>1 DEF AddRecords, AddBecomes
  <2>4. ASSUME NEW p \in Path, permanent'[p] # NoFile, p[1] \notin spoiled'
        PROVE  \E g \in File : Slot(g) = p /\
                 \/ row'[g] = "finalized"
                 \/ complete'[p[1]] = "moving" /\ g \in taken'[p[1]] \ toMove'[p[1]]
    <3>1. PICK g \in File : Slot(g) = p /\
            \/ row[g] = "finalized"
            \/ complete[p[1]] = "moving" /\ g \in taken[p[1]] \ toMove[p[1]]
      BY <2>2, <2>4
    <3> QED BY <2>1, <2>2, <2>3, <3>1, SMTT(30)
  <2>5. ASSUME NEW p \in Path, staging'[p] # NoFile, p \notin kept'
        PROVE  \E g \in File : Slot(g) = p /\
                 \/ add'[g] \in {"failed", "staged", "duplicate", "novel"}
                 \/ row'[g] = "uploaded" /\ g \in linked'
    <3>1. PICK g \in File : Slot(g) = p /\
            \/ add[g] \in {"failed", "staged", "duplicate", "novel"}
            \/ row[g] = "uploaded" /\ g \in linked
      BY <2>2, <2>5
    <3> QED BY <2>1, <2>3, <3>1
  <2> QED BY <2>4, <2>5
<1>15. ASSUME NEW f \in File, AddFaults(f)
      PROVE  Owned'
  BY <1>15 DEF AddFaults, AddBecomes, Fails, CreateRunning, AddRunning,
     CompleteRunning, CleanRunning
<1>16. ASSUME NEW c \in Cleaner,
                \/ \E r \in Run : CleanReads(c, r)
                \/ CleanFaults(c)
      PROVE  Owned'
  BY <1>16 DEF CleanReads, CleanBecomes, CleanFaults, CleanEnds, Fails
<1>17. ASSUME NEW c \in Cleaner, NEW f \in File, CleanUnlinks(c, f)
      PROVE  Owned'
  BY <1>17 DEF CleanUnlinks, CleanBecomes, Removes, Fails
<1>18. ASSUME NEW c \in Cleaner, CleanDropsDirectory(c)
      PROVE  Owned'
  BY <1>18 DEF CleanDropsDirectory, CleanBecomes, Removes, Fails
<1>19. ASSUME NEW c \in Cleaner, CleanCommits(c)
      PROVE  Owned'
  BY <1>19 DEF CleanCommits, CleanBecomes, RowsWithout, LinksWithout, Targets,
     Cleaning, TypeCleaning
<1>20. ASSUME NEW c \in Content, WebFinalizes(c)
      PROVE  Owned'
  BY <1>20 DEF WebFinalizes
<1>21. ASSUME Crash
      PROVE  Owned'
  BY <1>21 DEF Crash, Fails, HasMoved, CreateRunning, AddRunning,
     CompleteRunning, CleanRunning
<1>22. ASSUME Restart \/ Listen
      PROVE  Owned'
  BY <1>22 DEF Restart, Listen
<1>23. ASSUME NEW f \in File, BootDeletesLoose(f)
      PROVE  Owned'
  BY <1>23 DEF BootDeletesLoose, Boots, Fails, BootLists, Links
<1>24. ASSUME NEW r \in Run, BootReads(r)
      PROVE  Owned'
  BY <1>24 DEF BootReads, Boots
<1>25. ASSUME NEW f \in File, BootUnlinks(f)
      PROVE  Owned'
  BY <1>25 DEF BootUnlinks, Boots, Removes, Fails
<1>26. ASSUME NEW f \in File, BootDeletesRow(f)
      PROVE  Owned'
  BY <1>26, SMTT(30) DEF BootDeletesRow, Boots, Fails, BootFiles, BootLists
<1>27. ASSUME NEW r \in Run, BootDropsDirectory(r)
      PROVE  Owned'
  BY <1>27 DEF BootDropsDirectory, Boots, Removes, Fails
<1>28. ASSUME NEW r \in Run, BootDeletesRun(r)
      PROVE  Owned'
  BY <1>28 DEF BootDeletesRun, Boots, LinksWithout, Fails, BootFiles
<1>29. CASE UNCHANGED vars
  BY <1>29 DEF vars
<1> QED BY <1>1, <1>2, <1>3, <1>4, <1>5, <1>6, <1>7, <1>8, <1>9, <1>10, <1>11,
   <1>12, <1>13, <1>14, <1>15, <1>16, <1>17, <1>18, <1>19, <1>20, <1>21,
   <1>22, <1>23, <1>24, <1>25, <1>26, <1>27, <1>28, <1>29 DEF Next,
   CreateStep, CompleteStep, AddStep, CleanStep, BootStep
LEMMA AtomicStep ==
  ASSUME Sequential, TypeOK, Batch, Stages, Links, RunIsAtomic, [Next]_vars
  PROVE  RunIsAtomic'
<1> USE IngestionAssumption, TypeParts DEF TypeTables, RunIsAtomic, tables,
   files, completion, cleaning, booting, history
<1>1. ASSUME NEW r \in Run,
                \/ CreateSweeps(r)
                \/ CreateInserts(r)
                \/ CreateOpens(r)
                \/ CreateFaults(r)
      PROVE  RunIsAtomic'
  BY <1>1 DEF CreateSweeps, MayCall, CreateInserts, CreateBecomes,
     CreateOpens, CreateFaults, Fails
<1>2. ASSUME NEW r \in Run,
                \/ CompleteChecks(r)
                \/ CompleteMarks(r)
                \/ CompleteReads(r)
                \/ \E f \in File : CompleteMoves(r, f)
                \/ CompleteReports(r)
                \/ CompleteFaults(r)
      PROVE  RunIsAtomic'
  BY <1>2 DEF CompleteChecks, MayCall, CompleteBecomes, CompleteMarks,
     CompleteReads, DocumentsOf, CompleteMoves, CompleteReports,
     CompleteFaults, Fails
<1>3. ASSUME NEW r \in Run, CompleteRecords(r)
      PROVE  RunIsAtomic'
  BY <1>3 DEF CompleteRecords, CompleteBecomes, Batch, Links, Stages,
     CreateRunning, AddRunning, CompleteRunning, CleanRunning
<1>4. ASSUME NEW r \in Run, RemoveRun(r)
      PROVE  RunIsAtomic'
  BY <1>4 DEF RemoveRun, MayCall, CleanBecomes
<1>5. ASSUME NEW f \in File,
                \/ AddChecks(f)
                \/ AddStages(f)
                \/ AddLooksUpHash(f)
                \/ AddDropsDuplicate(f)
                \/ AddFaults(f)
      PROVE  RunIsAtomic'
  BY <1>5 DEF AddChecks, MayCall, AddBecomes, AddStages, AddLooksUpHash,
     AddDropsDuplicate, Removes, Fails, AddFaults
<1>6. ASSUME NEW f \in File, AddRecords(f)
      PROVE  RunIsAtomic'
  BY <1>6 DEF AddRecords, AddBecomes, Stages, Links, CreateRunning,
     AddRunning, CompleteRunning, CleanRunning
<1>7. ASSUME NEW c \in Cleaner,
                \/ \E r \in Run : CleanReads(c, r)
                \/ \E f \in File : CleanUnlinks(c, f)
                \/ CleanDropsDirectory(c)
                \/ CleanFaults(c)
      PROVE  RunIsAtomic'
  BY <1>7 DEF CleanReads, CleanBecomes, CleanUnlinks, Removes, Fails,
     CleanDropsDirectory, CleanFaults, CleanEnds
<1>8. ASSUME NEW c \in Cleaner, CleanCommits(c)
      PROVE  RunIsAtomic'
  BY <1>8 DEF CleanCommits, CleanBecomes, RowsWithout, LinksWithout
<1>9. ASSUME NEW c \in Content, WebFinalizes(c)
      PROVE  RunIsAtomic'
  BY <1>9 DEF WebFinalizes
<1>10. ASSUME Crash \/ Restart \/ Listen
      PROVE  RunIsAtomic'
  BY <1>10 DEF Crash, Fails, Restart, Listen
<1>11. ASSUME NEW f \in File, BootDeletesLoose(f)
      PROVE  RunIsAtomic'
  BY <1>11 DEF BootDeletesLoose, Boots, Fails
<1>12. ASSUME NEW r \in Run,
                \/ BootReads(r)
                \/ BootDropsDirectory(r)
                \/ BootDeletesRun(r)
      PROVE  RunIsAtomic'
  BY <1>12 DEF BootReads, Boots, BootDropsDirectory, Removes, Fails,
     BootDeletesRun, LinksWithout
<1>13. ASSUME NEW f \in File, BootUnlinks(f)
      PROVE  RunIsAtomic'
  BY <1>13 DEF BootUnlinks, Boots, Removes, Fails
<1>14. ASSUME NEW f \in File, BootDeletesRow(f)
      PROVE  RunIsAtomic'
  BY <1>14 DEF BootDeletesRow, Boots, Fails
<1>15. CASE UNCHANGED vars
  BY <1>15 DEF vars
<1> QED BY <1>1, <1>2, <1>3, <1>4, <1>5, <1>6, <1>7, <1>8, <1>9, <1>10, <1>11,
   <1>12, <1>13, <1>14, <1>15 DEF Next, CreateStep, CompleteStep, AddStep,
   CleanStep, BootStep

(***************************************************************************)
(* The invariant of one call at a time, and what follows from it.          *)
(***************************************************************************)
SInv ==
  /\ Accepted /\ Opened /\ Called /\ OneCall
  /\ Stages /\ Batch /\ Links
  /\ Targets /\ Cleaning /\ Sweeping
  /\ Owned /\ RunIsAtomic

LEMMA SequentialInit == Init => SInv
<1> SUFFICES ASSUME Init
             PROVE  SInv
  OBVIOUS
<1> USE IngestionAssumption DEF Init
<1>1. Accepted /\ Opened /\ RunIsAtomic
  BY DEF Accepted, Opened, RunIsAtomic
<1>2. /\ \A r \in Run : create[r] \notin CreateRunning
      /\ \A r \in Run : complete[r] \notin CompleteRunning
      /\ \A f \in File : add[f] \notin AddRunning
      /\ \A c \in Cleaner : clean[c] \notin CleanRunning
  BY DEF CreateRunning, CompleteRunning, AddRunning, CleanRunning
<1>3. Called /\ OneCall
  BY <1>2, CleanerFacts DEF Called, OneCall, Creating, Adding, Completing, Removing
<1>4. Stages /\ Batch /\ Links
  BY <1>2 DEF Stages, Batch, Links
<1>5. Targets /\ Cleaning /\ Sweeping
  BY <1>2 DEF Targets, Cleaning, Sweeping
<1>6. Owned
  BY DEF Owned
<1> QED BY <1>1, <1>3, <1>4, <1>5, <1>6 DEF SInv

LEMMA SequentialStep ==
  ASSUME Sequential, IInv, SInv, [Next]_vars
  PROVE  SInv'
<1> USE DEF IInv, SInv
<1>1. Accepted' /\ Opened' /\ Called' /\ OneCall'
  BY AcceptedStep, OpenedStep, CalledStep, OneCallStep
<1>2. Stages' /\ Batch' /\ Links'
  BY StagesStep, BatchStep, LinksStep
<1>3. Targets' /\ Cleaning' /\ Sweeping'
  BY TargetsStep, CleaningStep, SweepingStep
<1>4. Owned' /\ RunIsAtomic'
  BY OwnedStep, AtomicStep
<1> QED BY <1>1, <1>2, <1>3, <1>4

LEMMA SequentialHolds == ASSUME Sequential PROVE Spec => [](IInv /\ SInv)
<1>1. Init => IInv /\ SInv
  BY InvInit, SequentialInit
<1>2. IInv /\ SInv /\ [Next]_vars => (IInv /\ SInv)'
  BY InvStep, SequentialStep
<1> QED BY <1>1, <1>2, PTL DEF Spec

\* UR-018, of one call at a time: whatever fails and whenever Express dies, of
\* the documents a run has accepted all are finalized or none.
THEOREM Atomic == ASSUME Sequential PROVE Spec => []RunIsAtomic
<1>1. SInv => RunIsAtomic
  BY DEF SInv
<1> QED BY <1>1, SequentialHolds, PTL

\* One call at a time: a file in permanent storage belongs to a finalized
\* document, to a completion under way or to one cut short; a file in staging to
\* a run that a sweep will find, or to a failed call or removal.
THEOREM Ownership == ASSUME Sequential PROVE Spec => []FilesAreOwned
<1>1. ASSUME IInv, SInv
      PROVE  FilesAreOwned
  <2> SUFFICES ASSUME NEW p \in Path
               PROVE  /\ permanent[p] # NoFile =>
                           \/ \E f \in File : Slot(f) = p /\ row[f] = "finalized"
                           \/ HasMoved(p[1]) # {}
                           \/ p[1] \in spoiled
                      /\ staging[p] # NoFile =>
                           \/ p[1] \in Incomplete
                           \/ p \in kept
                           \/ \E f \in File : Slot(f) = p /\ add[f] = "failed"
    BY DEF FilesAreOwned
  <2> USE <1>1, PathFacts DEF IInv, SInv
  <2>1. ASSUME permanent[p] # NoFile, p[1] \notin spoiled,
               \A f \in File : Slot(f) = p => row[f] # "finalized"
        PROVE  HasMoved(p[1]) # {}
    <3>1. PICK f \in File : /\ complete[p[1]] = "moving"
                            /\ f \in taken[p[1]] \ toMove[p[1]]
      BY <2>1 DEF Owned
    <3> QED BY <3>1 DEF HasMoved
  <2>2. ASSUME staging[p] # NoFile, p \notin kept,
               \A f \in File : Slot(f) = p => add[f] # "failed"
        PROVE  p[1] \in Incomplete
    <3>1. PICK f \in File : Slot(f) = p /\
            \/ add[f] \in {"staged", "duplicate", "novel"}
            \/ row[f] = "uploaded" /\ f \in linked
      BY <2>2 DEF Owned
    <3>2. RunOf[f] = p[1]
      BY <3>1
    <3> QED BY <3>1, <3>2 DEF Stages, Links, AddRunning, Incomplete
  <2> QED BY <2>1, <2>2
<1> QED BY <1>1, SequentialHolds, PTL

-----------------------------------------------------------------------------
(* The sweeps.                                                             *)

\* The row of a run is inserted by CreateInserts only.
LEMMA InsertStep ==
  ASSUME NEW q \in Run, TypeOK, create[q] = "sweeping", create'[q] =
         "inserted", [Next]_vars
  PROVE  CreateInserts(q)
<1> USE TypeParts DEF TypeCalls, tables, files, completion, cleaning, booting,
   history
<1>1. ASSUME NEW r \in Run, CreateSweeps(r)
      PROVE  CreateInserts(q)
  BY <1>1 DEF CreateSweeps, MayCall
<1>2. ASSUME NEW r \in Run, CreateInserts(r)
      PROVE  CreateInserts(q)
  BY <1>2 DEF CreateInserts, CreateBecomes
<1>3. ASSUME NEW r \in Run, CreateOpens(r)
      PROVE  CreateInserts(q)
  BY <1>3 DEF CreateOpens, CreateBecomes
<1>4. ASSUME NEW r \in Run, CreateFaults(r)
      PROVE  CreateInserts(q)
  BY <1>4 DEF CreateFaults, CreateBecomes, Fails, CreateRunning, AddRunning,
     CompleteRunning, CleanRunning
<1>5. ASSUME NEW r \in Run,
                \/ CompleteChecks(r)
                \/ CompleteMarks(r)
                \/ CompleteReads(r)
                \/ \E f \in File : CompleteMoves(r, f)
                \/ CompleteRecords(r)
                \/ CompleteReports(r)
                \/ CompleteFaults(r)
      PROVE  CreateInserts(q)
  BY <1>5 DEF CompleteChecks, MayCall, CompleteBecomes, CompleteMarks,
     CompleteReads, DocumentsOf, CompleteMoves, CompleteRecords,
     CompleteReports, CompleteFaults, Fails
<1>6. ASSUME NEW r \in Run, RemoveRun(r)
      PROVE  CreateInserts(q)
  BY <1>6 DEF RemoveRun, MayCall, CleanBecomes
<1>7. ASSUME NEW f \in File,
                \/ AddChecks(f)
                \/ AddStages(f)
                \/ AddLooksUpHash(f)
                \/ AddDropsDuplicate(f)
                \/ AddRecords(f)
                \/ AddFaults(f)
      PROVE  CreateInserts(q)
  BY <1>7 DEF AddChecks, MayCall, AddBecomes, AddStages, AddLooksUpHash,
     AddDropsDuplicate, Removes, Fails, AddRecords, AddFaults
<1>8. ASSUME NEW c \in Cleaner,
                \/ \E r \in Run : CleanReads(c, r)
                \/ \E f \in File : CleanUnlinks(c, f)
                \/ CleanDropsDirectory(c)
                \/ CleanCommits(c)
      PROVE  CreateInserts(q)
  BY <1>8 DEF CleanReads, CleanBecomes, CleanUnlinks, Removes, Fails,
     CleanDropsDirectory, CleanCommits, RowsWithout, LinksWithout
<1>9. ASSUME NEW c \in Cleaner, CleanFaults(c)
      PROVE  CreateInserts(q)
  BY <1>9 DEF CleanFaults, CleanEnds, Fails
<1>10. ASSUME NEW c \in Content, WebFinalizes(c)
      PROVE  CreateInserts(q)
  BY <1>10 DEF WebFinalizes
<1>11. ASSUME Crash
      PROVE  CreateInserts(q)
  BY <1>11 DEF Crash, Fails, CreateRunning, AddRunning, CompleteRunning,
     CleanRunning
<1>12. ASSUME Restart \/ Listen
      PROVE  CreateInserts(q)
  BY <1>12 DEF Restart, Listen
<1>13. ASSUME NEW f \in File,
                \/ BootDeletesLoose(f)
                \/ BootUnlinks(f)
                \/ BootDeletesRow(f)
      PROVE  CreateInserts(q)
  BY <1>13 DEF BootDeletesLoose, Boots, Fails, BootUnlinks, Removes,
     BootDeletesRow
<1>14. ASSUME NEW r \in Run,
                \/ BootReads(r)
                \/ BootDropsDirectory(r)
                \/ BootDeletesRun(r)
      PROVE  CreateInserts(q)
  BY <1>14 DEF BootReads, Boots, BootDropsDirectory, Removes, Fails,
     BootDeletesRun, LinksWithout
<1>15. CASE UNCHANGED vars
  BY <1>15 DEF vars
<1> QED BY <1>1, <1>2, <1>3, <1>4, <1>5, <1>6, <1>7, <1>8, <1>9, <1>10, <1>11,
   <1>12, <1>13, <1>14, <1>15 DEF Next, CreateStep, CompleteStep, AddStep,
   CleanStep, BootStep

\* While start() sweeps, a row changes in two ways only.
LEMMA SweptStep ==
  ASSUME NEW g \in File, TypeOK, server = "sweeping", row'[g] # row[g],
         [Next]_vars
  PROVE  (BootDeletesLoose(g) \/ BootDeletesRow(g))
<1> USE TypeParts DEF TypeTables, tables, files, completion, cleaning,
   booting, history
<1>1. ASSUME NEW r \in Run,
                \/ CreateSweeps(r)
                \/ CreateInserts(r)
                \/ CreateOpens(r)
                \/ CreateFaults(r)
      PROVE  (BootDeletesLoose(g) \/ BootDeletesRow(g))
  BY <1>1 DEF CreateSweeps, MayCall, CreateInserts, CreateBecomes,
     CreateOpens, CreateFaults, Fails
<1>2. ASSUME NEW r \in Run,
                \/ CompleteChecks(r)
                \/ CompleteMarks(r)
                \/ CompleteReads(r)
                \/ \E f \in File : CompleteMoves(r, f)
                \/ CompleteRecords(r)
                \/ CompleteReports(r)
                \/ CompleteFaults(r)
      PROVE  (BootDeletesLoose(g) \/ BootDeletesRow(g))
  BY <1>2 DEF CompleteChecks, MayCall, CompleteBecomes, CompleteMarks,
     CompleteReads, DocumentsOf, CompleteMoves, CompleteRecords,
     CompleteReports, CompleteFaults, Fails
<1>3. ASSUME NEW r \in Run, RemoveRun(r)
      PROVE  (BootDeletesLoose(g) \/ BootDeletesRow(g))
  BY <1>3 DEF RemoveRun, MayCall, CleanBecomes
<1>4. ASSUME NEW f \in File,
                \/ AddChecks(f)
                \/ AddStages(f)
                \/ AddLooksUpHash(f)
                \/ AddDropsDuplicate(f)
                \/ AddRecords(f)
                \/ AddFaults(f)
      PROVE  (BootDeletesLoose(g) \/ BootDeletesRow(g))
  BY <1>4 DEF AddChecks, MayCall, AddBecomes, AddStages, AddLooksUpHash,
     AddDropsDuplicate, Removes, Fails, AddRecords, AddFaults
<1>5. ASSUME NEW c \in Cleaner,
                \/ \E r \in Run : CleanReads(c, r)
                \/ \E f \in File : CleanUnlinks(c, f)
                \/ CleanDropsDirectory(c)
                \/ CleanCommits(c)
                \/ CleanFaults(c)
      PROVE  (BootDeletesLoose(g) \/ BootDeletesRow(g))
  BY <1>5 DEF CleanReads, CleanBecomes, CleanUnlinks, Removes, Fails,
     CleanDropsDirectory, CleanCommits, RowsWithout, LinksWithout,
     CleanFaults, CleanEnds
<1>6. ASSUME NEW c \in Content, WebFinalizes(c)
      PROVE  (BootDeletesLoose(g) \/ BootDeletesRow(g))
  BY <1>6 DEF WebFinalizes
<1>7. ASSUME Crash \/ Restart \/ Listen
      PROVE  (BootDeletesLoose(g) \/ BootDeletesRow(g))
  BY <1>7 DEF Crash, Fails, Restart, Listen
<1>8. ASSUME NEW f \in File, BootDeletesLoose(f)
      PROVE  (BootDeletesLoose(g) \/ BootDeletesRow(g))
  BY <1>8 DEF BootDeletesLoose, Boots, Fails
<1>9. ASSUME NEW r \in Run,
                \/ BootReads(r)
                \/ BootDropsDirectory(r)
                \/ BootDeletesRun(r)
      PROVE  (BootDeletesLoose(g) \/ BootDeletesRow(g))
  BY <1>9 DEF BootReads, Boots, BootDropsDirectory, Removes, Fails,
     BootDeletesRun, LinksWithout
<1>10. ASSUME NEW f \in File, BootUnlinks(f)
      PROVE  (BootDeletesLoose(g) \/ BootDeletesRow(g))
  BY <1>10 DEF BootUnlinks, Boots, Removes, Fails
<1>11. ASSUME NEW f \in File, BootDeletesRow(f)
      PROVE  (BootDeletesLoose(g) \/ BootDeletesRow(g))
  BY <1>11 DEF BootDeletesRow, Boots, Fails
<1>12. CASE UNCHANGED vars
  BY <1>12 DEF vars
<1> QED BY <1>1, <1>2, <1>3, <1>4, <1>5, <1>6, <1>7, <1>8, <1>9, <1>10, <1>11,
   <1>12 DEF Next, CreateStep, CompleteStep, AddStep, CleanStep, BootStep

\* UR-019, of one call at a time: when the row of a run is inserted, every earlier
\* run has been completed or cleaned up, and what start() deletes are unfinished
\* rows, each after its file.
THEOREM OrderlySweeps == ASSUME Sequential PROVE Spec => SweepsAreOrderly
<1> DEFINE Orderly ==
      /\ \A r \in Run : create[r] = "sweeping" /\ create'[r] = "inserted" =>
           /\ Incomplete = {}
           /\ \A f \in linked : row[f] = "finalized"
      /\ \A f \in File : server = "sweeping" /\ row'[f] # row[f] =>
           /\ row[f] = "uploaded" /\ row'[f] = "none"
           /\ staging[Slot(f)] # NoFile => Slot(f) \in kept
<1>1. ASSUME IInv, SInv, [Next]_vars
      PROVE  Orderly
  <2> USE <1>1 DEF IInv, SInv
  <2>1. ASSUME NEW r \in Run, create[r] = "sweeping", create'[r] = "inserted"
        PROVE  /\ Incomplete = {}
               /\ \A f \in linked : row[f] = "finalized"
    <3>1. clean[<<"sweep", r>>] = "done"
      BY <2>1, InsertStep DEF CreateInserts
    <3>2. queue[<<"sweep", r>>] = {}
      BY <3>1, CleanerFacts DEF Targets, CleanRunning
    <3>3. Incomplete = {}
      BY <2>1, <3>2 DEF Sweeping
    <3>4. \A f \in linked : row[f] = "finalized"
      BY <3>3, TypeParts DEF ForeignKey, Links, TypeTables
    <3> QED BY <3>3, <3>4
  <2>2. ASSUME NEW f \in File, server = "sweeping", row'[f] # row[f]
        PROVE  /\ row[f] = "uploaded" /\ row'[f] = "none"
               /\ staging[Slot(f)] # NoFile => Slot(f) \in kept
    <3>1. CASE BootDeletesLoose(f)
      BY <2>2, <3>1, TypeParts DEF BootDeletesLoose, BootLists, Links, Cleared,
         TypeTables
    <3>2. CASE BootDeletesRow(f)
      BY <2>2, <3>2, TypeParts DEF BootDeletesRow, BootFiles, Cleared, TypeTables
    <3> QED BY <2>2, <3>1, <3>2, SweptStep
  <2> QED BY <2>1, <2>2
<1>2. IInv /\ SInv /\ [Next]_vars => [Orderly]_vars
  BY <1>1
<1> QED BY <1>2, SequentialHolds, PTL DEF Spec, SweepsAreOrderly

-----------------------------------------------------------------------------
(***************************************************************************)
(* Refinement.  Same: the archive, as Archive sees it, stays as it is.     *)
(* Enters: the steps that change it, the web upload's, the commit of       *)
(* completeRun, and its answer.                                            *)
(***************************************************************************)
Same ==
  /\ \A f \in File : row'[f] = "finalized" <=> row[f] = "finalized"
  /\ web' = web
  /\ \A r \in Run : complete'[r] = "succeeded" <=> complete[r] = "succeeded"
  /\ \A r \in Run : complete[r] = "succeeded" => taken'[r] = taken[r]

Enters ==
  \/ \E c \in Content : WebFinalizes(c)
  \/ \E r \in Run : CompleteRecords(r) \/ CompleteReports(r)

LEMMA SameStep ==
  ASSUME Sequential, IInv, SInv, [Next]_vars
  PROVE  (Same \/ Enters)
<1> USE TypeParts DEF IInv, SInv, Same, TypeTables, TypeCalls, tables, files,
   completion, cleaning, booting, history
<1>1. ASSUME NEW r \in Run,
                \/ CreateSweeps(r)
                \/ CreateInserts(r)
                \/ CreateOpens(r)
                \/ CreateFaults(r)
      PROVE  (Same \/ Enters)
  BY <1>1 DEF CreateSweeps, MayCall, CreateInserts, CreateBecomes,
     CreateOpens, CreateFaults, Fails
<1>2. ASSUME NEW r \in Run, CompleteChecks(r)
      PROVE  (Same \/ Enters)
  BY <1>2 DEF CompleteChecks, MayCall, CompleteBecomes
<1>3. ASSUME NEW r \in Run, CompleteMarks(r)
      PROVE  (Same \/ Enters)
  BY <1>3 DEF CompleteMarks, CompleteBecomes
<1>4. ASSUME NEW r \in Run, CompleteReads(r)
      PROVE  (Same \/ Enters)
  BY <1>4 DEF CompleteReads, CompleteBecomes, DocumentsOf
<1>5. ASSUME NEW r \in Run, NEW f \in File, CompleteMoves(r, f)
      PROVE  (Same \/ Enters)
  BY <1>5 DEF CompleteMoves, CompleteBecomes
<1>6. ASSUME NEW r \in Run, CompleteRecords(r)
      PROVE  (Same \/ Enters)
  BY <1>6 DEF Enters
<1>7. ASSUME NEW r \in Run, CompleteReports(r)
      PROVE  (Same \/ Enters)
  BY <1>7 DEF Enters
<1>8. ASSUME NEW r \in Run, CompleteFaults(r)
      PROVE  (Same \/ Enters)
  BY <1>8 DEF CompleteFaults, CompleteBecomes, Fails, CreateRunning,
     AddRunning, CompleteRunning, CleanRunning
<1>9. ASSUME NEW r \in Run, RemoveRun(r)
      PROVE  (Same \/ Enters)
  BY <1>9 DEF RemoveRun, MayCall, CleanBecomes
<1>10. ASSUME NEW f \in File,
                \/ AddChecks(f)
                \/ AddStages(f)
                \/ AddLooksUpHash(f)
                \/ AddDropsDuplicate(f)
                \/ AddFaults(f)
      PROVE  (Same \/ Enters)
  BY <1>10 DEF AddChecks, MayCall, AddBecomes, AddStages, AddLooksUpHash,
     AddDropsDuplicate, Removes, Fails, AddFaults
<1>11. ASSUME NEW f \in File, AddRecords(f)
      PROVE  (Same \/ Enters)
  BY <1>11 DEF AddRecords, AddBecomes, Accepted
<1>12. ASSUME NEW c \in Cleaner,
                \/ \E r \in Run : CleanReads(c, r)
                \/ \E f \in File : CleanUnlinks(c, f)
                \/ CleanDropsDirectory(c)
                \/ CleanFaults(c)
      PROVE  (Same \/ Enters)
  BY <1>12 DEF CleanReads, CleanBecomes, CleanUnlinks, Removes, Fails,
     CleanDropsDirectory, CleanFaults, CleanEnds
<1>13. ASSUME NEW c \in Cleaner, CleanCommits(c)
      PROVE  (Same \/ Enters)
  BY <1>13 DEF CleanCommits, CleanBecomes, RowsWithout, LinksWithout,
     Cleaning, TypeCleaning
<1>14. ASSUME NEW c \in Content, WebFinalizes(c)
      PROVE  (Same \/ Enters)
  BY <1>14 DEF Enters
<1>15. ASSUME Crash
      PROVE  (Same \/ Enters)
  BY <1>15 DEF Crash, Fails, CreateRunning, AddRunning, CompleteRunning,
     CleanRunning
<1>16. ASSUME Restart \/ Listen
      PROVE  (Same \/ Enters)
  BY <1>16 DEF Restart, Listen
<1>17. ASSUME NEW f \in File, BootDeletesLoose(f)
      PROVE  (Same \/ Enters)
  BY <1>17 DEF BootDeletesLoose, Boots, Fails, BootLists
<1>18. ASSUME NEW r \in Run,
                \/ BootReads(r)
                \/ BootDropsDirectory(r)
                \/ BootDeletesRun(r)
      PROVE  (Same \/ Enters)
  BY <1>18 DEF BootReads, Boots, BootDropsDirectory, Removes, Fails,
     BootDeletesRun, LinksWithout
<1>19. ASSUME NEW f \in File, BootUnlinks(f)
      PROVE  (Same \/ Enters)
  BY <1>19 DEF BootUnlinks, Boots, Removes, Fails
<1>20. ASSUME NEW f \in File, BootDeletesRow(f)
      PROVE  (Same \/ Enters)
  BY <1>20 DEF BootDeletesRow, Boots, Fails
<1>21. CASE UNCHANGED vars
  BY <1>21 DEF vars
<1> QED BY <1>1, <1>2, <1>3, <1>4, <1>5, <1>6, <1>7, <1>8, <1>9, <1>10, <1>11,
   <1>12, <1>13, <1>14, <1>15, <1>16, <1>17, <1>18, <1>19, <1>20, <1>21 DEF
   Next, CreateStep, CompleteStep, AddStep, CleanStep, BootStep

\* Intake implements the archive: a run's documents enter it in one step, no two
\* of one content, and what completeRun has confirmed is never taken out.
THEOREM Refinement == ASSUME Sequential PROVE Spec => ImplementsArchive
<1> DEFINE FileOf == [d \in File \cup Content |->
                       IF d \in File THEN ContentOf[d] ELSE d]
           Archived == {f \in File : row[f] = "finalized"} \cup web
           Confirmed ==
             UNION {taken[r] : r \in {r \in Run : complete[r] = "succeeded"}}
<1>1. Init => ArchiveOf!Init
  BY DEF Init, ArchiveOf!Init
<1>2. ASSUME IInv, SInv, IInv', [Next]_vars
      PROVE  [ArchiveOf!Next]_(ArchiveOf!archiveVars)
  <2> USE <1>2, IngestionAssumption, TypeParts DEF IInv, SInv, TypeTables, TypeCalls,
      tables, files, completion, cleaning, booting, history
  <2>1. CASE Same
    <3>1. Archived' = Archived /\ Confirmed' = Confirmed
      BY <2>1 DEF Same
    <3> QED BY <3>1 DEF ArchiveOf!archiveVars
  <2>2. ASSUME NEW c \in Content, WebFinalizes(c)
        PROVE  ArchiveOf!Next
    <3>1. ArchiveOf!Accept({c})
      BY <2>2 DEF WebFinalizes, IsArchived, Unique, ArchiveOf!Accept
    <3> QED BY <3>1 DEF ArchiveOf!Next
  <2>3. ASSUME NEW r \in Run, CompleteReports(r)
        PROVE  ArchiveOf!Next
    <3>1. /\ complete[r] = "recorded" /\ complete' = [complete EXCEPT ![r] = "succeeded"]
          /\ UNCHANGED <<row, web, taken>>
      BY <2>3 DEF CompleteReports, CompleteBecomes
    <3>2. taken[r] \subseteq Archived /\ taken[r] \in SUBSET File
      BY <3>1 DEF Batch
    <3>3. Confirmed' = Confirmed \cup taken[r] /\ Archived' = Archived
      BY <3>1
    <3> QED BY <3>2, <3>3 DEF ArchiveOf!Next, ArchiveOf!Confirm
  <2>4. ASSUME NEW r \in Run, CompleteRecords(r)
        PROVE  Same \/ ArchiveOf!Next
    <3>1. complete[r] = "moving" /\ taken' = taken /\ web' = web
      BY <2>4 DEF CompleteRecords, CompleteBecomes
    <3>2. CASE complete' = [complete EXCEPT ![r] = "failed"] /\ row' = row
      BY <3>1, <3>2 DEF Same
    <3> DEFINE present == {f \in taken[r] : row[f] # "none"}
    <3>3. CASE /\ complete' = [complete EXCEPT ![r] = "recorded"]
               /\ row' = [f \in File |-> IF f \in present THEN "finalized" ELSE row[f]]
               /\ \A f \in present : /\ ~IsArchived(ContentOf[f])
                                     /\ \A g \in present \ {f} :
                                          ContentOf[g] # ContentOf[f]
      <4>1. \A f \in present : f \in File /\ row[f] = "uploaded"
        BY <3>1 DEF Batch
      <4>2. Archived' = Archived \cup present /\ Confirmed' = Confirmed
        BY <3>1, <3>3, <4>1
      <4>3. present \cap Archived = {}
        BY <4>1
      <4>4. \A d \in present, e \in present \cup Archived : d # e =>
              FileOf[d] # FileOf[e]
        BY <3>3, <4>1 DEF IsArchived
      <4>5. present \in SUBSET (File \cup Content)
        BY <4>1
      <4> HIDE DEF present, Archived, Confirmed, FileOf
      <4>6. \E batch \in SUBSET (File \cup Content) :
              /\ batch \cap Archived = {}
              /\ \A d \in batch, e \in batch \cup Archived : d # e =>
                   FileOf[d] # FileOf[e]
              /\ Archived' = Archived \cup batch /\ Confirmed' = Confirmed
        BY <4>2, <4>3, <4>4, <4>5
      <4> QED BY <4>6 DEF ArchiveOf!Next, ArchiveOf!Accept, Archived, Confirmed, FileOf
    <3> QED BY <2>4, <3>2, <3>3 DEF CompleteRecords, CompleteBecomes
  <2> QED BY <2>1, <2>2, <2>3, <2>4, SameStep DEF Enters
<1>3. IInv /\ SInv /\ IInv' /\ [Next]_vars => [ArchiveOf!Next]_(ArchiveOf!archiveVars)
  BY <1>2
<1> QED BY <1>1, <1>3, SequentialHolds, PTL DEF Spec, ImplementsArchive, ArchiveOf!Spec
===============================================================================
