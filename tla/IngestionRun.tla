----------------------------- MODULE IngestionRun -----------------------------
(***************************************************************************)
(* Bulk ingestion: the four operations of the ingestion service on runs    *)
(* and their files, the sweep that createIngestionRun begins with, and the *)
(* two sweeps that run when Express starts.                                *)
(*                                                                         *)
(* An action is the code between two awaits; a transaction that only talks *)
(* to the database is one action, at its commit.  The transaction of       *)
(* _cleanupRunById also unlinks files, so it is several: it reads the      *)
(* documents of the run, unlinks, deletes, and commits.  The calls         *)
(* come from a command line client outside this repository: any call may   *)
(* be made at any time, or, with Sequential, only when no other is at work.*)
(***************************************************************************)
EXTENDS Naturals

CONSTANTS
  Run,          \* runs, one per call of createIngestionRun
  File,         \* submissions, one per call of addFileToRun, and document ids
  Content,      \* file contents up to equality of their md5
  NoFile,       \* what a path without a file holds
  Name,         \* filenames
  RunOf,        \* RunOf[f]: the run that f is added to
  NameOf,       \* NameOf[f]: its filename
  ContentOf,    \* ContentOf[f]: its content
  Sequential,   \* TRUE: the client makes one call at a time
  MaxFaults     \* bound: crashes plus failing database and file operations

ASSUME IngestionAssumption ==
  /\ RunOf \in [File -> Run]
  /\ NameOf \in [File -> Name]
  /\ ContentOf \in [File -> Content]
  /\ NoFile \notin Content
  /\ File \cap Content = {}
  /\ Sequential \in BOOLEAN
  /\ MaxFaults \in Nat

VARIABLES
  runStatus,    \* the status column of each run, "none" when there is no row
  row,          \* the status column of each document, "none" without a row
  linked,       \* documents whose ingestion_run_id is not null
  web,          \* contents finalized by web uploads
  staging,      \* what each path of the staging directory holds
  permanent,    \* what each path of the permanent directory holds
  create, add, complete,  \* where each call of these operations stands
  taken,        \* the documents completeRun has read
  toMove,       \* those it has still to move
  clean,        \* where each execution of _cleanupRunById stands
  queue,        \* runs its caller has still to clean up
  target,       \* the run it cleans up now
  unlink,       \* documents whose staging file it has still to unlink
  doomed,       \* documents it will delete
  server,       \* the Express process
  loose,        \* startup: rows the upload sweep has still to clean up
  bootRuns,     \* startup: runs the ingestion sweep has still to clean up
  bootRun,      \* startup: the run it cleans up now
  bootDocs,     \* startup: that run's documents still to clean up
  bootUnlinked, \* startup: the one whose staging file it has just unlinked
  bootDropped,  \* startup: the run whose staging directory it has removed
  faults,       \* faults so far
  spoiled,      \* history: runs whose completion was cut short after a move
  kept,         \* history: paths whose removal from staging failed
  skipped       \* history: runs and documents the last startup failed to delete

tables == <<runStatus, row, linked, web>>
files == <<staging, permanent>>
completion == <<complete, taken, toMove>>
cleaning == <<clean, queue, target, unlink, doomed>>
booting == <<loose, bootRuns, bootRun, bootDocs, bootUnlinked, bootDropped>>
history == <<spoiled, kept, skipped>>
vars == <<tables, files, create, add, completion, cleaning, server, booting,
          faults, history>>

\* _cleanupRunById is called by the sweep of createIngestionRun, for every
\* incomplete run, and by cleanupRun, for one.
Sweeper == {"sweep"} \X Run
Remover == {"remove"} \X Run
Cleaner == Sweeper \cup Remover

CreateRunning == {"sweeping", "inserted"}
AddRunning == {"checked", "staged", "duplicate", "novel"}
CompleteRunning == {"checked", "marked", "moving", "recorded"}
CleanRunning == {"next", "unlinking", "dropped"}

Path == Run \X Name
Slot(f) == <<RunOf[f], NameOf[f]>>

TypeOK ==
  /\ runStatus \in [Run -> {"none", "in_progress", "moving", "completed"}]
  /\ row \in [File -> {"none", "uploaded", "finalized"}]
  /\ linked \subseteq File /\ web \subseteq Content
  /\ staging \in [Path -> Content \cup {NoFile}]
  /\ permanent \in [Path -> Content \cup {NoFile}]
  /\ create \in [Run -> {"idle", "open", "failed"} \cup CreateRunning]
  /\ add \in [File -> {"idle", "accepted", "rejected", "failed"} \cup AddRunning]
  /\ complete \in [Run -> {"idle", "succeeded", "failed"} \cup CompleteRunning]
  /\ taken \in [Run -> SUBSET File] /\ toMove \in [Run -> SUBSET File]
  /\ clean \in [Cleaner -> {"idle", "done"} \cup CleanRunning]
  /\ queue \in [Cleaner -> SUBSET Run] /\ target \in [Cleaner -> SUBSET Run]
  /\ unlink \in [Cleaner -> SUBSET File] /\ doomed \in [Cleaner -> SUBSET File]
  /\ server \in {"up", "down", "sweeping"}
  /\ loose \subseteq File /\ bootRuns \subseteq Run /\ bootRun \subseteq Run
  /\ bootDocs \subseteq File /\ bootUnlinked \subseteq File
  /\ bootDropped \subseteq Run
  /\ faults \in Nat
  /\ spoiled \subseteq Run /\ kept \subseteq Path /\ skipped \subseteq Run \cup File

Init ==
  /\ runStatus = [r \in Run |-> "none"]
  /\ row = [f \in File |-> "none"]
  /\ linked = {} /\ web = {}
  /\ staging = [p \in Path |-> NoFile]
  /\ permanent = [p \in Path |-> NoFile]
  /\ create = [r \in Run |-> "idle"]
  /\ add = [f \in File |-> "idle"]
  /\ complete = [r \in Run |-> "idle"]
  /\ taken = [r \in Run |-> {}] /\ toMove = [r \in Run |-> {}]
  /\ clean = [c \in Cleaner |-> "idle"]
  /\ queue = [c \in Cleaner |-> {}] /\ target = [c \in Cleaner |-> {}]
  /\ unlink = [c \in Cleaner |-> {}] /\ doomed = [c \in Cleaner |-> {}]
  /\ server = "up"
  /\ loose = {} /\ bootRuns = {} /\ bootRun = {} /\ bootDocs = {}
  /\ bootUnlinked = {} /\ bootDropped = {}
  /\ faults = 0
  /\ spoiled = {} /\ kept = {} /\ skipped = {}

-----------------------------------------------------------------------------

\* getIncomplete.
Incomplete == {r \in Run : runStatus[r] \in {"in_progress", "moving"}}

\* getDocumentsByRunId.
DocumentsOf(r) == {f \in linked : RunOf[f] = r}

\* A finalized row, of whatever origin, with this hash.
IsArchived(c) ==
  c \in web \/ \E f \in File : row[f] = "finalized" /\ ContentOf[f] = c

\* What deleting the rows of ds and the row of r leaves of the documents: the
\* foreign key of those that remain is set to null.
RowsWithout(ds) == [f \in File |-> IF f \in ds THEN "none" ELSE row[f]]
LinksWithout(ds, r) == {f \in linked \ ds : RunOf[f] # r}

\* An open transaction of _cleanupRunById has deleted rows of ds, and whoever
\* writes to them waits for it.
Locked(ds) == \E c \in Cleaner : clean[c] = "dropped" /\ doomed[c] \cap ds # {}

Quiet ==
  /\ \A r \in Run : create[r] \notin CreateRunning /\ complete[r] \notin CompleteRunning
  /\ \A f \in File : add[f] \notin AddRunning
  /\ \A c \in Cleaner : clean[c] \notin CleanRunning

\* A call reaches the service.
MayCall == server = "up" /\ (Sequential => Quiet)

\* unlink and rm -rf swallow their errors.
Fails == faults < MaxFaults /\ faults' = faults + 1
Removes(paths) ==
  \/ /\ staging' = [p \in Path |-> IF p \in paths THEN NoFile ELSE staging[p]]
     /\ UNCHANGED <<faults, kept>>
  \/ /\ kept' = kept \cup paths /\ Fails
     /\ UNCHANGED staging

-----------------------------------------------------------------------------
(* addFileToRun.                                                           *)

AddBecomes(f, from, to) ==
  /\ server = "up" /\ add[f] = from
  /\ add' = [add EXCEPT ![f] = to]
  /\ UNCHANGED <<create, completion, cleaning, server, booting, spoiled, skipped>>

\* The run must be in progress; extension, size or filename may be refused.
AddChecks(f) ==
  /\ create[RunOf[f]] = "open" /\ MayCall
  /\ \/ /\ runStatus[RunOf[f]] = "in_progress"
        /\ AddBecomes(f, "idle", "checked") \/ AddBecomes(f, "idle", "rejected")
     \/ /\ runStatus[RunOf[f]] # "in_progress"
        /\ AddBecomes(f, "idle", "failed")
  /\ UNCHANGED <<tables, files, faults, kept>>

\* Whatever the path held is overwritten.
AddStages(f) ==
  /\ AddBecomes(f, "checked", "staged")
  /\ staging' = [staging EXCEPT ![Slot(f)] = ContentOf[f]]
  /\ UNCHANGED <<tables, permanent, faults, kept>>

AddLooksUpHash(f) ==
  /\ AddBecomes(f, "staged", IF IsArchived(ContentOf[f]) THEN "duplicate" ELSE "novel")
  /\ UNCHANGED <<tables, files, faults, kept>>

\* Mutant: the duplicate branch forgets to answer.
AddDropsSilently(f) ==
  /\ AddBecomes(f, "duplicate", "duplicate")
  /\ Removes({Slot(f)})
  /\ UNCHANGED <<tables, permanent>>

AddDropsDuplicate(f) ==
  /\ AddBecomes(f, "duplicate", "rejected")
  /\ Removes({Slot(f)})
  /\ UNCHANGED <<tables, permanent>>

\* The insert, unless the foreign key refuses a run that is gone.  The group
\* check before it looks for rows with status 'failed', which no code writes,
\* so it never rejects anything.
AddRecords(f) ==
  /\ \/ /\ runStatus[RunOf[f]] = "none"
        /\ AddBecomes(f, "novel", "failed")
        /\ UNCHANGED <<row, linked>>
     \/ /\ runStatus[RunOf[f]] # "none"
        /\ AddBecomes(f, "novel", "accepted")
        /\ row' = [row EXCEPT ![f] = "uploaded"]
        /\ linked' = linked \cup {f}
  /\ UNCHANGED <<runStatus, web, files, faults, kept>>

AddFaults(f) ==
  /\ \E from \in AddRunning : AddBecomes(f, from, "failed")
  /\ Fails
  /\ UNCHANGED <<tables, files, kept>>

-----------------------------------------------------------------------------
(* completeRun.                                                            *)

CompleteBecomes(r, from, to) ==
  /\ server = "up" /\ complete[r] = from
  /\ complete' = [complete EXCEPT ![r] = to]
  /\ UNCHANGED <<create, add, cleaning, server, booting, kept, skipped>>

\* A call for a run that is not in progress is refused; one that failed before
\* it marked the run may be repeated.
CompleteChecks(r) ==
  /\ create[r] = "open" /\ MayCall
  /\ runStatus[r] = "in_progress"
  /\ CompleteBecomes(r, "idle", "checked") \/ CompleteBecomes(r, "failed", "checked")
  /\ UNCHANGED <<tables, files, taken, toMove, faults, spoiled>>

CompleteMarks(r) ==
  /\ CompleteBecomes(r, "checked", "marked")
  /\ runStatus' = [runStatus EXCEPT ![r] = IF @ = "none" THEN @ ELSE "moving"]
  /\ UNCHANGED <<row, linked, web, files, taken, toMove, faults, spoiled>>

CompleteReads(r) ==
  /\ CompleteBecomes(r, "marked", "moving")
  /\ LET uploaded == {f \in DocumentsOf(r) : row[f] = "uploaded"}
     IN  /\ taken' = [taken EXCEPT ![r] = uploaded]
         /\ toMove' = [toMove EXCEPT ![r] = uploaded]
  /\ UNCHANGED <<tables, files, faults, spoiled>>

\* {r} when the completion of r is between its first move and its commit.
HasMoved(r) == IF complete[r] = "moving" /\ toMove[r] # taken[r] THEN {r} ELSE {}

\* Mutant: files are copied.
CompleteCopies(r, f) ==
  /\ f \in toMove[r]
  /\ CompleteBecomes(r, "moving", "moving")
  /\ permanent' = [permanent EXCEPT ![Slot(f)] = staging[Slot(f)]]
  /\ toMove' = [toMove EXCEPT ![r] = @ \ {f}]
  /\ UNCHANGED <<tables, staging, taken, faults, spoiled>>

\* One rename; the first that finds no file ends the call.
CompleteMoves(r, f) ==
  /\ f \in toMove[r]
  /\ \/ /\ staging[Slot(f)] # NoFile
        /\ CompleteBecomes(r, "moving", "moving")
        /\ staging' = [staging EXCEPT ![Slot(f)] = NoFile]
        /\ permanent' = [permanent EXCEPT ![Slot(f)] = staging[Slot(f)]]
        /\ toMove' = [toMove EXCEPT ![r] = @ \ {f}]
        /\ UNCHANGED spoiled
     \/ /\ staging[Slot(f)] = NoFile
        /\ CompleteBecomes(r, "moving", "failed")
        /\ spoiled' = spoiled \cup HasMoved(r)
        /\ UNCHANGED <<staging, permanent, toMove>>
  /\ UNCHANGED <<tables, taken, faults>>

\* Mutants: a commit before the moves; one that leaves out the documents that
\* the index refuses; one without that index; one that stops at 'stored'.
CommitsWith(r, documents, status) ==
  /\ CompleteBecomes(r, "moving", "recorded")
  /\ row' = [f \in File |-> IF f \in documents THEN status ELSE row[f]]
  /\ runStatus' = [runStatus EXCEPT ![r] = IF @ = "none" THEN @ ELSE "completed"]
  /\ UNCHANGED <<linked, web, files, taken, toMove, faults, spoiled>>
CompleteRecordsEarly(r) ==
  CommitsWith(r, {f \in taken[r] : row[f] # "none"}, "finalized")
CompleteRecordsSome(r) ==
  /\ toMove[r] = {}
  /\ \E f \in taken[r] : CommitsWith(r, {f}, "finalized")
CompleteRecordsUnindexed(r) ==
  toMove[r] = {} /\ CommitsWith(r, taken[r], "finalized")
CompleteRecordsStored(r) ==
  toMove[r] = {} /\ CommitsWith(r, taken[r], "stored")

\* The transaction: every document that still has a row becomes finalized and
\* the run completed, unless the unique index on the hash refuses one of them.
CompleteRecords(r) ==
  LET present == {f \in taken[r] : row[f] # "none"}
      refused == \E f \in present :
                   \/ IsArchived(ContentOf[f])
                   \/ \E g \in present : g # f /\ ContentOf[g] = ContentOf[f]
  IN /\ toMove[r] = {} /\ ~Locked(taken[r])
     /\ \/ /\ refused
           /\ CompleteBecomes(r, "moving", "failed")
           /\ spoiled' = spoiled \cup HasMoved(r)
           /\ UNCHANGED <<row, runStatus>>
        \/ /\ ~refused
           /\ CompleteBecomes(r, "moving", "recorded")
           /\ row' = [f \in File |-> IF f \in present THEN "finalized" ELSE row[f]]
           /\ runStatus' = [runStatus EXCEPT ![r] = IF @ = "none" THEN @ ELSE "completed"]
           /\ UNCHANGED spoiled
     /\ UNCHANGED <<linked, web, files, taken, toMove, faults>>

\* The summary report is written, after the commit.
CompleteReports(r) ==
  /\ CompleteBecomes(r, "recorded", "succeeded")
  /\ UNCHANGED <<tables, files, taken, toMove, faults, spoiled>>

CompleteFaults(r) ==
  /\ \E from \in CompleteRunning : CompleteBecomes(r, from, "failed")
  /\ Fails
  /\ spoiled' = spoiled \cup HasMoved(r)
  /\ UNCHANGED <<tables, files, taken, toMove>>

-----------------------------------------------------------------------------
(* _cleanupRunById, called by createIngestionRun and by cleanupRun.        *)

CleanBecomes(c, from, to) ==
  /\ server = "up" /\ clean[c] = from
  /\ clean' = [clean EXCEPT ![c] = to]
  /\ UNCHANGED <<create, add, completion, server, booting, spoiled, skipped>>

CleanReads(c, r) ==
  /\ r \in queue[c]
  /\ CleanBecomes(c, "next", "unlinking")
  /\ target' = [target EXCEPT ![c] = {r}]
  /\ unlink' = [unlink EXCEPT ![c] = DocumentsOf(r)]
  /\ doomed' = [doomed EXCEPT ![c] = {f \in DocumentsOf(r) : row[f] # "finalized"}]
  /\ UNCHANGED <<tables, files, queue, faults, kept>>

\* The branch for status 'stored' is left out: that status is only ever
\* written inside the transaction of completeRun, which overwrites it.
CleanUnlinks(c, f) ==
  /\ f \in unlink[c]
  /\ CleanBecomes(c, "unlinking", "unlinking")
  /\ unlink' = [unlink EXCEPT ![c] = @ \ {f}]
  /\ Removes({Slot(f)})
  /\ UNCHANGED <<tables, permanent, queue, target, doomed>>

\* The rows are deleted, uncommitted, and the directory goes.
CleanDropsDirectory(c) ==
  /\ unlink[c] = {} /\ ~Locked(doomed[c])
  /\ CleanBecomes(c, "unlinking", "dropped")
  /\ Removes(target[c] \X Name)
  /\ UNCHANGED <<tables, permanent, queue, target, unlink, doomed>>

\* Commit: by id, whatever has become of the rows since they were read.
CleanCommits(c) ==
  \E r \in target[c] :
    /\ CleanBecomes(c, "dropped", IF queue[c] = {r} THEN "done" ELSE "next")
    /\ row' = RowsWithout(doomed[c])
    /\ linked' = LinksWithout(doomed[c], r)
    /\ runStatus' = [runStatus EXCEPT ![r] = "none"]
    /\ queue' = [queue EXCEPT ![c] = @ \ {r}]
    /\ target' = [target EXCEPT ![c] = {}]
    /\ doomed' = [doomed EXCEPT ![c] = {}]
    /\ UNCHANGED <<web, files, unlink, faults, kept>>

\* The transaction rolls back and the call ends; unlinked files stay unlinked.
CleanEnds(c) ==
  /\ clean' = [clean EXCEPT ![c] = "done"]
  /\ queue' = [queue EXCEPT ![c] = {}]
  /\ target' = [target EXCEPT ![c] = {}]
  /\ unlink' = [unlink EXCEPT ![c] = {}]
  /\ doomed' = [doomed EXCEPT ![c] = {}]

CleanFaults(c) ==
  /\ server = "up" /\ clean[c] \in CleanRunning
  /\ CleanEnds(c)
  /\ create' = IF c \in Sweeper THEN [create EXCEPT ![c[2]] = "failed"] ELSE create
  /\ Fails
  /\ UNCHANGED <<tables, files, add, completion, server, booting, history>>

\* cleanupRun, of any run that has a row.
RemoveRun(r) ==
  LET c == <<"remove", r>>
  IN /\ create[r] = "open" /\ MayCall
     /\ runStatus[r] # "none"
     /\ CleanBecomes(c, "idle", "next") \/ CleanBecomes(c, "done", "next")
     /\ queue' = [queue EXCEPT ![c] = {r}]
     /\ UNCHANGED <<tables, files, target, unlink, doomed, faults, kept>>

-----------------------------------------------------------------------------
(* createIngestionRun.                                                     *)

\* Mutant: runs that were interrupted while moving are not listed.
CreateSweepsInProgress(r) ==
  LET c == <<"sweep", r>>
      listed == {q \in Run : runStatus[q] = "in_progress"}
  IN /\ MayCall
     /\ create[r] = "idle" /\ create' = [create EXCEPT ![r] = "sweeping"]
     /\ queue' = [queue EXCEPT ![c] = listed]
     /\ clean' = [clean EXCEPT ![c] = IF listed = {} THEN "done" ELSE "next"]
     /\ UNCHANGED <<tables, files, add, completion, target, unlink, doomed,
                    server, booting, faults, history>>

\* runStartSweep lists the incomplete runs.
CreateSweeps(r) ==
  LET c == <<"sweep", r>>
  IN /\ MayCall
     /\ create[r] = "idle" /\ create' = [create EXCEPT ![r] = "sweeping"]
     /\ queue' = [queue EXCEPT ![c] = Incomplete]
     /\ clean' = [clean EXCEPT ![c] = IF Incomplete = {} THEN "done" ELSE "next"]
     /\ UNCHANGED <<tables, files, add, completion, target, unlink, doomed,
                    server, booting, faults, history>>

CreateBecomes(r, from, to) ==
  /\ server = "up" /\ create[r] = from
  /\ create' = [create EXCEPT ![r] = to]
  /\ UNCHANGED <<add, completion, cleaning, server, booting, history>>

CreateInserts(r) ==
  /\ clean[<<"sweep", r>>] = "done"
  /\ CreateBecomes(r, "sweeping", "inserted")
  /\ runStatus' = [runStatus EXCEPT ![r] = "in_progress"]
  /\ UNCHANGED <<row, linked, web, files, faults>>

\* The staging directory is made; the client learns the run's id.
CreateOpens(r) ==
  /\ CreateBecomes(r, "inserted", "open")
  /\ UNCHANGED <<tables, files, faults>>

CreateFaults(r) ==
  /\ clean[<<"sweep", r>>] = "done"
  /\ \E from \in CreateRunning : CreateBecomes(r, from, "failed")
  /\ Fails
  /\ UNCHANGED <<tables, files>>

-----------------------------------------------------------------------------
(* Web uploads, crashes, and the sweeps of start().                        *)

\* UploadLifecycle finalizes a document; the index refuses a hash it holds.
WebFinalizes(c) ==
  /\ server = "up" /\ ~IsArchived(c)
  /\ web' = web \cup {c}
  /\ UNCHANGED <<runStatus, row, linked, files, create, add, completion, cleaning,
                 server, booting, faults, history>>

Crash ==
  /\ server # "down" /\ Fails
  /\ server' = "down"
  /\ create' = [r \in Run |-> IF create[r] \in CreateRunning THEN "failed" ELSE create[r]]
  /\ add' = [f \in File |-> IF add[f] \in AddRunning THEN "failed" ELSE add[f]]
  /\ complete' = [r \in Run |-> IF complete[r] \in CompleteRunning
                                THEN "failed" ELSE complete[r]]
  /\ spoiled' = spoiled \cup UNION {HasMoved(r) : r \in Run}
  /\ clean' = [c \in Cleaner |-> IF clean[c] \in CleanRunning THEN "done" ELSE clean[c]]
  /\ queue' = [c \in Cleaner |-> {}] /\ target' = [c \in Cleaner |-> {}]
  /\ unlink' = [c \in Cleaner |-> {}] /\ doomed' = [c \in Cleaner |-> {}]
  /\ loose' = {} /\ bootRuns' = {} /\ bootRun' = {} /\ bootDocs' = {}
  /\ bootUnlinked' = {} /\ bootDropped' = {}
  /\ UNCHANGED <<tables, files, taken, toMove, kept, skipped>>

\* Mutant: likewise at startup.
RestartInProgress ==
  /\ server = "down" /\ server' = "sweeping"
  /\ loose' = {f \in File \ linked : row[f] = "uploaded"}
  /\ bootRuns' = {r \in Run : runStatus[r] = "in_progress"}
  /\ skipped' = {}
  /\ UNCHANGED <<tables, files, create, add, completion, cleaning, bootRun,
                 bootDocs, bootUnlinked, bootDropped, faults, spoiled, kept>>

\* uploadStartupSweep lists unfinished rows without a run; what the ingestion
\* sweep lists after it cannot change in between.
Restart ==
  /\ server = "down" /\ server' = "sweeping"
  /\ loose' = {f \in File \ linked : row[f] = "uploaded"}
  /\ bootRuns' = Incomplete
  /\ skipped' = {}
  /\ UNCHANGED <<tables, files, create, add, completion, cleaning, bootRun,
                 bootDocs, bootUnlinked, bootDropped, faults, spoiled, kept>>

\* Common to the steps of the startup sweeps.
Boots ==
  /\ server = "sweeping"
  /\ UNCHANGED <<web, permanent, create, add, completion, cleaning,
                 server, spoiled>>

\* The upload sweep takes the document's id for the staging directory, where
\* an ingested document has no file, and deletes its row.
BootDeletesLoose(f) ==
  /\ Boots
  /\ f \in loose /\ loose' = loose \ {f}
  /\ \/ /\ row' = [row EXCEPT ![f] = "none"]
        /\ UNCHANGED <<faults, skipped>>
     \/ /\ skipped' = skipped \cup {f} /\ Fails
        /\ UNCHANGED row
  /\ UNCHANGED <<runStatus, linked, staging, bootRuns, bootRun, bootDocs,
                 bootUnlinked, bootDropped, kept>>

BootReads(r) ==
  /\ Boots
  /\ loose = {} /\ bootRun = {} /\ bootDropped = {}
  /\ r \in bootRuns /\ bootRuns' = bootRuns \ {r}
  /\ bootRun' = {r}
  /\ bootDocs' = DocumentsOf(r)
  /\ UNCHANGED <<runStatus, row, linked, staging, loose, bootUnlinked,
                 bootDropped, faults, skipped, kept>>

BootUnlinks(f) ==
  /\ Boots
  /\ f \in bootDocs /\ bootUnlinked = {}
  /\ bootUnlinked' = {f}
  /\ Removes({Slot(f)})
  /\ UNCHANGED <<runStatus, row, linked, loose, bootRuns, bootRun, bootDocs,
                 bootDropped, skipped>>

\* Unless it is finalized; an error is logged and the document skipped.
BootDeletesRow(f) ==
  /\ Boots
  /\ f \in bootUnlinked
  /\ bootUnlinked' = {} /\ bootDocs' = bootDocs \ {f}
  /\ \/ /\ row' = [row EXCEPT ![f] = IF @ = "finalized" THEN @ ELSE "none"]
        /\ linked' = IF row[f] = "finalized" THEN linked ELSE linked \ {f}
        /\ UNCHANGED <<faults, skipped>>
     \/ /\ skipped' = skipped \cup {f} /\ Fails
        /\ UNCHANGED <<row, linked>>
  /\ UNCHANGED <<runStatus, staging, loose, bootRuns, bootRun, bootDropped, kept>>

BootDropsDirectory(r) ==
  /\ Boots
  /\ r \in bootRun /\ bootDocs = {}
  /\ bootRun' = {} /\ bootDropped' = {r}
  /\ Removes({r} \X Name)
  /\ UNCHANGED <<runStatus, row, linked, loose, bootRuns, bootDocs,
                 bootUnlinked, skipped>>

\* Documents that were skipped lose their link to the run.
BootDeletesRun(r) ==
  /\ Boots
  /\ r \in bootDropped /\ bootDropped' = {}
  /\ \/ /\ runStatus' = [runStatus EXCEPT ![r] = "none"]
        /\ linked' = LinksWithout({}, r)
        /\ UNCHANGED <<faults, skipped>>
     \/ /\ skipped' = skipped \cup {r} /\ Fails
        /\ UNCHANGED <<runStatus, linked>>
  /\ UNCHANGED <<row, staging, loose, bootRuns, bootRun, bootDocs, bootUnlinked, kept>>

Listen ==
  /\ server = "sweeping" /\ server' = "up"
  /\ loose = {} /\ bootRuns = {} /\ bootRun = {} /\ bootDropped = {}
  /\ UNCHANGED <<tables, files, create, add, completion, cleaning, booting,
                 faults, history>>

-----------------------------------------------------------------------------

CreateStep(r) == CreateInserts(r) \/ CreateOpens(r)

AddStep(f) ==
  AddStages(f) \/ AddLooksUpHash(f) \/ AddDropsDuplicate(f) \/ AddRecords(f)

CompleteStep(r) ==
  \/ CompleteMarks(r) \/ CompleteReads(r)
  \/ \E f \in File : CompleteMoves(r, f)
  \/ CompleteRecords(r) \/ CompleteReports(r)

CleanStep(c) ==
  \/ \E r \in Run : CleanReads(c, r)
  \/ \E f \in File : CleanUnlinks(c, f)
  \/ CleanDropsDirectory(c) \/ CleanCommits(c)

BootStep ==
  \/ \E f \in File : BootDeletesLoose(f) \/ BootUnlinks(f) \/ BootDeletesRow(f)
  \/ \E r \in Run : BootReads(r) \/ BootDropsDirectory(r) \/ BootDeletesRun(r)
  \/ Listen

Next ==
  \/ \E r \in Run :
       \/ CreateSweeps(r) \/ CreateStep(r) \/ CreateFaults(r)
       \/ CompleteChecks(r) \/ CompleteStep(r) \/ CompleteFaults(r)
       \/ RemoveRun(r)
  \/ \E f \in File : AddChecks(f) \/ AddStep(f) \/ AddFaults(f)
  \/ \E c \in Cleaner : CleanStep(c) \/ CleanFaults(c)
  \/ \E c \in Content : WebFinalizes(c)
  \/ Crash \/ Restart \/ BootStep

Spec == Init /\ [][Next]_vars

\* What a handler or start() has begun, the event loop goes on with.  No
\* fairness is asked of the client, of faults, or of whoever restarts Express.
FairSpec ==
  /\ Spec
  /\ \A r \in Run : WF_vars(CreateStep(r)) /\ WF_vars(CompleteStep(r))
  /\ \A f \in File : WF_vars(AddStep(f))
  /\ \A c \in Cleaner : WF_vars(CleanStep(c))
  /\ WF_vars(BootStep)

-----------------------------------------------------------------------------
(* Properties.                                                             *)

\* A finalized document has a file that was submitted under its path, its own
\* unless others share the path, and no finalized document has its content.
FinalizedIsSound ==
  \A f \in File : row[f] = "finalized" =>
    /\ permanent[Slot(f)] \in {ContentOf[g] : g \in {g \in File : Slot(g) = Slot(f)}}
    /\ ContentOf[f] \notin web
    /\ \A g \in File \ {f} : row[g] = "finalized" => ContentOf[g] # ContentOf[f]

\* UR-018: of the documents that a run has accepted, all are finalized or none,
\* whatever fails and whenever Express dies.
RunIsAtomic ==
  \A f, g \in File :
    RunOf[f] = RunOf[g] /\ row[f] = "finalized" => row[g] \in {"none", "finalized"}

\* A file in permanent storage belongs to a finalized document or to a
\* completion that is under way, unless such a completion was cut short, by a
\* fault, a missing file or a hash that the archive holds already.  A file in
\* staging belongs to a run that a later sweep will find.  What completed or
\* removed runs leave there was submitted by a call that failed between the
\* write and the row, or could not be removed.
FilesAreOwned ==
  \A p \in Path :
    /\ permanent[p] # NoFile => \/ \E f \in File : Slot(f) = p /\ row[f] = "finalized"
                               \/ HasMoved(p[1]) # {}
                               \/ p[1] \in spoiled
    /\ staging[p] # NoFile => \/ p[1] \in Incomplete
                             \/ p \in kept
                             \/ \E f \in File : Slot(f) = p /\ add[f] = "failed"

\* UR-019: when a run's row is inserted, every earlier run has been completed
\* or cleaned up, with its documents.  The startup sweeps delete unfinished rows
\* only, each after its file, so that they can be repeated.
SweepsAreOrderly ==
  [][/\ \A r \in Run : create[r] = "sweeping" /\ create'[r] = "inserted" =>
          /\ Incomplete = {}
          /\ \A f \in linked : row[f] = "finalized"
     /\ \A f \in File : server = "sweeping" /\ row'[f] # row[f] =>
          /\ row[f] = "uploaded" /\ row'[f] = "none"
          /\ staging[Slot(f)] # NoFile => Slot(f) \in kept]_vars

\* When Express begins to listen, no unfinished run or document is left but
\* for those that the sweeps failed to delete, and documents that slipped into
\* a completed run.
StartupClears ==
  [][server = "sweeping" /\ server' = "up" =>
       /\ Incomplete \subseteq skipped
       /\ \A f \in File : row[f] = "uploaded" =>
            f \in skipped \/ runStatus[RunOf[f]] = "completed"]_vars

\* Intake implements the archive: a run's documents enter it together, and are
\* confirmed by the answer of completeRun; a web upload is known by its content.
ArchiveOf == INSTANCE Archive WITH
  Doc <- File \cup Content,
  FileOf <- [d \in File \cup Content |-> IF d \in File THEN ContentOf[d] ELSE d],
  archived <- {f \in File : row[f] = "finalized"} \cup web,
  confirmed <- UNION {taken[r] : r \in {r \in Run : complete[r] = "succeeded"}}
ImplementsArchive == ArchiveOf!Spec

\* Calls are answered or cut off by a crash, and a startup sweep ends, in a
\* server that listens or in another crash: the service comes to rest again.
AtRest == Quiet /\ server # "sweeping"
ComesToRest == ~AtRest ~> AtRest
=============================================================================
