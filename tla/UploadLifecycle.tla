--------------------------- MODULE UploadLifecycle ---------------------------
(***************************************************************************)
(* The web upload of one document: the frontend's three-call upload        *)
(* handler, the Express document service that serves the calls, the        *)
(* documents table, the staging and permanent directories, and the sweep   *)
(* that runs when Express starts.                                          *)
(*                                                                         *)
(* Every action is the code between two awaits, so the handlers of a POST  *)
(* and of a DELETE for one upload, and those of different uploads,         *)
(* interleave as they do on the event loop.  A crash ends all of them and  *)
(* leaves the table and the two directories as they were.                  *)
(***************************************************************************)
EXTENDS Naturals

CONSTANTS
  Doc,        \* upload ids, one per call of the frontend's upload handler
  Content,    \* file contents up to equality of their md5
  FileOf,     \* FileOf[d]: the content submitted under d
  Impatient,  \* uploads whose client may time out or disappear
  MaxFaults   \* bound: crashes plus failing database and file operations

ASSUME UploadAssumption ==
  /\ FileOf \in [Doc -> Content]
  /\ Impatient \subseteq Doc
  /\ MaxFaults \in Nat

VARIABLES
  client,         \* where the frontend handler of each upload stands
  post,           \* its POST: in flight, in the service, or answered
  del,            \* its DELETE, likewise
  status,         \* the status column of its row, "none" when there is no row
  staging,        \* uploads with a file in the staging directory
  permanent,      \* uploads with a file in the permanent directory
  server,         \* the Express process
  sweepTodo,      \* rows the startup sweep has still to clean up
  sweepUnlinked,  \* the one whose staging file it has just unlinked
  faults,         \* faults so far
  gaveUp,         \* history: uploads whose client stopped waiting
  cutShort,       \* history: uploads interrupted between the move and the update
  unlinkFailed,   \* history: uploads whose staging file could not be unlinked
  skipped         \* history: rows the last sweep failed to delete

table == <<status>>
files == <<staging, permanent>>
process == <<server, sweepTodo, sweepUnlinked>>
history == <<gaveUp, cutShort, unlinkFailed, skipped>>
vars == <<client, post, del, table, files, process, faults, history>>

(***************************************************************************)
(* Where a POST can be.  The first set is on the wire, the second holds    *)
(* the points at which the service awaits the database or the file system, *)
(* the third is an answer.                                                 *)
(***************************************************************************)
PostSent == {"initiate", "upload", "finalize"}
PostRunning == {"uploadChecked", "uploadStaged", "uploadDuplicate",
                "uploadNovel", "finalizeChecked", "finalizeMoved"}
PostAnswered == {"initiateOk", "uploadOk", "finalizeOk", "error"}
DelRunning == {"deleteChecked", "deleteUnlinked"}
Waiting == {"initiating", "uploading", "finalizing"}
Unfinished == {"initiated", "uploaded"}

TypeOK ==
  /\ client \in [Doc -> {"idle", "cleaning", "succeeded", "failed"} \cup Waiting]
  /\ post \in [Doc -> {"none"} \cup PostSent \cup PostRunning \cup PostAnswered]
  /\ del \in [Doc -> {"none", "delete", "done"} \cup DelRunning]
  /\ status \in [Doc -> {"none", "finalized"} \cup Unfinished]
  /\ staging \subseteq Doc
  /\ permanent \subseteq Doc
  /\ server \in {"up", "down", "sweeping"}
  /\ sweepTodo \subseteq Doc
  /\ sweepUnlinked \subseteq Doc
  /\ faults \in Nat
  /\ gaveUp \subseteq Impatient
  /\ cutShort \subseteq Doc
  /\ unlinkFailed \subseteq Doc
  /\ skipped \subseteq Doc

Init ==
  /\ client = [d \in Doc |-> "idle"]
  /\ post = [d \in Doc |-> "none"]
  /\ del = [d \in Doc |-> "none"]
  /\ status = [d \in Doc |-> "none"]
  /\ staging = {} /\ permanent = {}
  /\ server = "up" /\ sweepTodo = {} /\ sweepUnlinked = {}
  /\ faults = 0
  /\ gaveUp = {} /\ cutShort = {} /\ unlinkFailed = {} /\ skipped = {}

\* Two uploads of the same file.
Twins(d, e) == d # e /\ FileOf[d] = FileOf[e]

\* Another finalized row holds the same hash: what the duplicate query finds,
\* and what the partial unique index refuses.
FinalizedTwin(d) == \E e \in Doc : Twins(d, e) /\ status[e] = "finalized"

-----------------------------------------------------------------------------
(* The frontend's upload handler.                                          *)

\* The archivist submits; the handler sends the first of its three calls.
StartUpload(d) ==
  /\ client[d] = "idle"
  /\ client' = [client EXCEPT ![d] = "initiating"]
  /\ post' = [post EXCEPT ![d] = "initiate"]
  /\ UNCHANGED <<del, table, files, process, faults, history>>

\* A call succeeded: the next one goes out, or the upload is reported done.
ClientAdvances(d) ==
  /\ \/ /\ client[d] = "initiating" /\ post[d] = "initiateOk"
        /\ client' = [client EXCEPT ![d] = "uploading"]
        /\ post' = [post EXCEPT ![d] = "upload"]
     \/ /\ client[d] = "uploading" /\ post[d] = "uploadOk"
        /\ client' = [client EXCEPT ![d] = "finalizing"]
        /\ post' = [post EXCEPT ![d] = "finalize"]
     \/ /\ client[d] = "finalizing" /\ post[d] = "finalizeOk"
        /\ client' = [client EXCEPT ![d] = "succeeded"]
        /\ post' = [post EXCEPT ![d] = "none"]
  /\ UNCHANGED <<del, table, files, process, faults, history>>

\* From here the handler only cleans up, which it can do once it has an id.
Abandon(d) ==
  IF client[d] = "initiating"
  THEN /\ client' = [client EXCEPT ![d] = "failed"]
       /\ UNCHANGED del
  ELSE /\ client' = [client EXCEPT ![d] = "cleaning"]
       /\ del' = [del EXCEPT ![d] = "delete"]

\* A call was answered with an error, or its connection broke.
ClientFails(d) ==
  /\ client[d] \in Waiting /\ post[d] = "error"
  /\ Abandon(d)
  /\ post' = [post EXCEPT ![d] = "none"]
  /\ UNCHANGED <<table, files, process, faults, history>>

\* Ky's timeout fires while the service is still at work, and does not stop it.
ClientTimesOut(d) ==
  /\ d \in Impatient /\ client[d] \in Waiting
  /\ Abandon(d)
  /\ gaveUp' = gaveUp \cup {d}
  /\ UNCHANGED <<post, table, files, process, faults, cutShort, unlinkFailed, skipped>>

\* The frontend process goes away and sends nothing more.
ClientVanishes(d) ==
  /\ d \in Impatient /\ client[d] \in Waiting \cup {"cleaning"}
  /\ client' = [client EXCEPT ![d] = "failed"]
  /\ gaveUp' = gaveUp \cup {d}
  /\ UNCHANGED <<post, del, table, files, process, faults, cutShort, unlinkFailed, skipped>>

\* The cleanup call is best effort: its outcome is ignored, and so is a
\* server that cannot be reached.
ClientEndsCleanup(d) ==
  /\ client[d] = "cleaning"
  /\ del[d] = "done" \/ server # "up"
  /\ client' = [client EXCEPT ![d] = "failed"]
  /\ del' = [del EXCEPT ![d] = "done"]
  /\ UNCHANGED <<post, table, files, process, faults, history>>

-----------------------------------------------------------------------------
(* initiateUpload, uploadFile and finalizeUpload.                          *)

\* The only thing a step of a POST always does: it moves to the next point.
PostBecomes(d, from, to) ==
  /\ server = "up" /\ post[d] = from
  /\ post' = [post EXCEPT ![d] = to]
  /\ UNCHANGED <<client, del, process, faults, history>>

\* Extension, size or description is refused, or the row is inserted.
InitiateUpload(d) ==
  \/ /\ PostBecomes(d, "initiate", "error")
     /\ UNCHANGED <<table, files>>
  \/ /\ PostBecomes(d, "initiate", "initiateOk")
     /\ status' = [status EXCEPT ![d] = "initiated"]
     /\ UNCHANGED files

UploadChecks(d) ==
  /\ \/ status[d] = "initiated" /\ PostBecomes(d, "upload", "uploadChecked")
     \/ PostBecomes(d, "upload", "error")     \* wrong status, or too large
  /\ UNCHANGED <<table, files>>

\* Mutant: the bytes go straight to the permanent directory.
UploadStagesInPlace(d) ==
  /\ PostBecomes(d, "uploadChecked", "uploadStaged")
  /\ permanent' = permanent \cup {d}
  /\ UNCHANGED <<table, staging>>

UploadStages(d) ==
  /\ PostBecomes(d, "uploadChecked", "uploadStaged")
  /\ staging' = staging \cup {d}
  /\ UNCHANGED <<table, permanent>>

UploadLooksUpHash(d) ==
  /\ PostBecomes(d, "uploadStaged",
                 IF FinalizedTwin(d) THEN "uploadDuplicate" ELSE "uploadNovel")
  /\ UNCHANGED <<table, files>>

\* Mutant: the duplicate branch forgets to answer.
UploadDropsSilently(d) ==
  /\ PostBecomes(d, "uploadDuplicate", "uploadDuplicate")
  /\ staging' = staging \ {d}
  /\ UNCHANGED <<table, permanent>>

\* Whether the unlink succeeds or not: the row stays, and its cleanup tries again.
UploadDropsDuplicate(d) ==
  /\ PostBecomes(d, "uploadDuplicate", "error")
  /\ staging' \in {staging \ {d}, staging}
  /\ UNCHANGED <<table, permanent>>

\* Mutant: the update sets the status of a later step.
UploadRecordsStored(d) ==
  /\ PostBecomes(d, "uploadNovel", "uploadOk")
  /\ status' = [status EXCEPT ![d] = IF @ = "none" THEN @ ELSE "stored"]
  /\ UNCHANGED files

\* UPDATE ... WHERE id: no row, no effect, and still a success.
UploadRecords(d) ==
  /\ PostBecomes(d, "uploadNovel", "uploadOk")
  /\ status' = [status EXCEPT ![d] = IF @ = "none" THEN @ ELSE "uploaded"]
  /\ UNCHANGED files

FinalizeChecks(d) ==
  /\ PostBecomes(d, "finalize",
                 IF status[d] = "uploaded" THEN "finalizeChecked" ELSE "error")
  /\ UNCHANGED <<table, files>>

\* rename: throws when the staging file is gone.
FinalizeMoves(d) ==
  /\ \/ /\ d \in staging
        /\ PostBecomes(d, "finalizeChecked", "finalizeMoved")
        /\ staging' = staging \ {d}
        /\ permanent' = permanent \cup {d}
     \/ /\ d \notin staging
        /\ PostBecomes(d, "finalizeChecked", "error")
        /\ UNCHANGED files
  /\ UNCHANGED table

\* Mutant: the migration without the partial unique index.
FinalizeRecordsUnindexed(d) ==
  /\ PostBecomes(d, "finalizeMoved", "finalizeOk")
  /\ status' = [status EXCEPT ![d] = IF @ = "none" THEN @ ELSE "finalized"]
  /\ UNCHANGED files

\* UPDATE ... WHERE id under the partial unique index on the hash.
FinalizeRecords(d) ==
  /\ \/ /\ status[d] = "none"
        /\ PostBecomes(d, "finalizeMoved", "finalizeOk")
        /\ UNCHANGED table
     \/ /\ status[d] # "none" /\ FinalizedTwin(d)
        /\ PostBecomes(d, "finalizeMoved", "error")
        /\ UNCHANGED table
     \/ /\ status[d] # "none" /\ ~FinalizedTwin(d)
        /\ PostBecomes(d, "finalizeMoved", "finalizeOk")
        /\ status' = [status EXCEPT ![d] = "finalized"]
  /\ UNCHANGED files

-----------------------------------------------------------------------------
(* cleanupUpload.  Its branch for status 'stored' is left out: no          *)
(* committed row of a web upload ever has that status.                     *)

DelBecomes(d, from, to) ==
  /\ server = "up" /\ del[d] = from
  /\ del' = [del EXCEPT ![d] = to]
  /\ UNCHANGED <<client, post, process, gaveUp, cutShort, skipped>>

CleanupChecks(d) ==
  /\ DelBecomes(d, "delete",
                IF status[d] \in Unfinished THEN "deleteChecked" ELSE "done")
  /\ UNCHANGED <<table, files, faults, unlinkFailed>>

\* unlink of a staging file: every error is logged and swallowed.
Unlink(d) ==
  \/ /\ staging' = staging \ {d}
     /\ UNCHANGED <<faults, unlinkFailed>>
  \/ /\ d \in staging /\ faults < MaxFaults
     /\ faults' = faults + 1
     /\ unlinkFailed' = unlinkFailed \cup {d}
     /\ UNCHANGED staging

CleanupUnlinks(d) ==
  /\ DelBecomes(d, "deleteChecked", "deleteUnlinked")
  /\ Unlink(d)
  /\ UNCHANGED <<table, permanent>>

CleanupDeletesRow(d) ==
  /\ DelBecomes(d, "deleteUnlinked", "done")
  /\ status' = [status EXCEPT ![d] = "none"]
  /\ UNCHANGED <<files, faults, unlinkFailed>>

-----------------------------------------------------------------------------
(* Failures, restart and the startup sweep.                                *)

\* A query or a file operation of a POST throws; the route answers 500.
PostFaults(d) ==
  /\ server = "up" /\ faults < MaxFaults
  /\ post[d] \in {"initiate", "upload", "finalize"} \cup PostRunning
  /\ post' = [post EXCEPT ![d] = "error"]
  /\ faults' = faults + 1
  /\ cutShort' = IF post[d] = "finalizeMoved" THEN cutShort \cup {d} ELSE cutShort
  /\ UNCHANGED <<client, del, table, files, process, gaveUp, unlinkFailed, skipped>>

\* A query of the DELETE throws; Ky sends a DELETE again unless it has used
\* up its retries.
CleanupFaults(d) ==
  /\ server = "up" /\ faults < MaxFaults
  /\ del[d] \in {"delete"} \cup DelRunning
  /\ \E next \in {"delete", "done"} : del' = [del EXCEPT ![d] = next]
  /\ faults' = faults + 1
  /\ UNCHANGED <<client, post, table, files, process, history>>

\* A POST cannot connect while Express is not listening.
ConnectionRefused(d) ==
  /\ server # "up" /\ post[d] \in PostSent
  /\ post' = [post EXCEPT ![d] = "error"]
  /\ UNCHANGED <<client, del, table, files, process, faults, history>>

\* The process dies: POSTs break, Ky will send the DELETEs again.
Crash ==
  /\ server # "down" /\ faults < MaxFaults
  /\ server' = "down"
  /\ faults' = faults + 1
  /\ post' = [d \in Doc |-> IF post[d] \in PostSent \cup PostRunning
                            THEN "error" ELSE post[d]]
  /\ del' = [d \in Doc |-> IF del[d] \in DelRunning THEN "delete" ELSE del[d]]
  /\ cutShort' = cutShort \cup {d \in Doc : post[d] = "finalizeMoved"}
  /\ sweepTodo' = {} /\ sweepUnlinked' = {}
  /\ UNCHANGED <<client, table, files, gaveUp, unlinkFailed, skipped>>

\* Mutants: the sweep lists every row, or forgets the uploaded ones.
RestartListingAll ==
  /\ server = "down"
  /\ server' = "sweeping"
  /\ sweepTodo' = {d \in Doc : status[d] # "none"}
  /\ skipped' = {}
  /\ UNCHANGED <<client, post, del, table, files, sweepUnlinked, faults,
                 gaveUp, cutShort, unlinkFailed>>

RestartListingInitiated ==
  /\ server = "down"
  /\ server' = "sweeping"
  /\ sweepTodo' = {d \in Doc : status[d] = "initiated"}
  /\ skipped' = {}
  /\ UNCHANGED <<client, post, del, table, files, sweepUnlinked, faults,
                 gaveUp, cutShort, unlinkFailed>>

\* start(): the sweep lists the unfinished rows before Express listens.
Restart ==
  /\ server = "down"
  /\ server' = "sweeping"
  /\ sweepTodo' = {d \in Doc : status[d] \in Unfinished}
  /\ skipped' = {}
  /\ UNCHANGED <<client, post, del, table, files, sweepUnlinked, faults,
                 gaveUp, cutShort, unlinkFailed>>

\* Mutants: the row goes before the file, or the file is not removed at all.
SweepDeletesRowFirst(d) ==
  /\ d \in sweepTodo /\ sweepUnlinked = {}
  /\ sweepUnlinked' = {d}
  /\ status' = [status EXCEPT ![d] = "none"]
  /\ UNCHANGED <<client, post, del, files, server, sweepTodo, faults, history>>

SweepKeepsFile(d) ==
  /\ d \in sweepTodo /\ sweepUnlinked = {}
  /\ sweepUnlinked' = {d}
  /\ UNCHANGED <<client, post, del, table, files, server, sweepTodo, faults,
                 history>>

SweepUnlinks(d) ==
  /\ d \in sweepTodo /\ sweepUnlinked = {}
  /\ sweepUnlinked' = {d}
  /\ Unlink(d)
  /\ UNCHANGED <<client, post, del, table, permanent, server, sweepTodo,
                 gaveUp, cutShort, skipped>>

SweepDeletesRow(d) ==
  /\ d \in sweepUnlinked
  /\ status' = [status EXCEPT ![d] = "none"]
  /\ sweepTodo' = sweepTodo \ {d}
  /\ sweepUnlinked' = {}
  /\ UNCHANGED <<client, post, del, files, server, faults, history>>

\* The delete throws: logged, and the sweep goes on with the next row.
SweepSkips(d) ==
  /\ d \in sweepUnlinked /\ faults < MaxFaults
  /\ faults' = faults + 1
  /\ sweepTodo' = sweepTodo \ {d}
  /\ sweepUnlinked' = {}
  /\ skipped' = skipped \cup {d}
  /\ UNCHANGED <<client, post, del, table, files, server,
                 gaveUp, cutShort, unlinkFailed>>

Listen ==
  /\ server = "sweeping" /\ sweepTodo = {}
  /\ server' = "up"
  /\ UNCHANGED <<client, post, del, table, files, sweepTodo, sweepUnlinked,
                 faults, history>>

-----------------------------------------------------------------------------

ClientStep(d) ==
  \/ ClientAdvances(d) \/ ClientFails(d) \/ ClientEndsCleanup(d)

PostStep(d) ==
  \/ InitiateUpload(d)
  \/ UploadChecks(d) \/ UploadStages(d) \/ UploadLooksUpHash(d)
  \/ UploadDropsDuplicate(d) \/ UploadRecords(d)
  \/ FinalizeChecks(d) \/ FinalizeMoves(d) \/ FinalizeRecords(d)
  \/ ConnectionRefused(d)

DelStep(d) ==
  \/ CleanupChecks(d) \/ CleanupUnlinks(d) \/ CleanupDeletesRow(d)

SweepStep(d) ==
  \/ SweepUnlinks(d) \/ SweepDeletesRow(d)

DocNext(d) ==
  \/ StartUpload(d) \/ ClientStep(d) \/ ClientTimesOut(d) \/ ClientVanishes(d)
  \/ PostStep(d) \/ PostFaults(d)
  \/ DelStep(d) \/ CleanupFaults(d)
  \/ SweepStep(d) \/ SweepSkips(d)

Next ==
  \/ \E d \in Doc : DocNext(d)
  \/ Crash \/ Restart \/ Listen

Spec == Init /\ [][Next]_vars

\* The event loop runs every continuation that is ready, an answer or a
\* broken connection reaches the waiting handler, and start() runs on.  No
\* fairness is asked of archivists, of faults, or of whoever restarts Express.
Fairness ==
  /\ \A d \in Doc : /\ WF_vars(ClientStep(d)) /\ WF_vars(PostStep(d))
                    /\ WF_vars(DelStep(d)) /\ WF_vars(SweepStep(d))
  /\ WF_vars(Listen)

FairSpec == Spec /\ Fairness

-----------------------------------------------------------------------------
(* Properties.                                                             *)

\* An archivist who was told "finalized" has a row and a file in the archive,
\* whatever crashes, sweeps and late DELETEs follow (uploadHandler.ts returns
\* success only after the third call).
ConfirmedIsArchived ==
  \A d \in Doc : client[d] = "succeeded" => status[d] = "finalized" /\ d \in permanent

\* A finalized row has its file in permanent storage, none left in staging,
\* and no finalized row with the same hash beside it.
FinalizedIsSound ==
  \A d \in Doc : status[d] = "finalized" =>
    /\ d \in permanent /\ d \notin staging
    /\ ~FinalizedTwin(d)

\* A file in staging has an unfinished row, through which the next sweep will
\* find it; the exceptions are a client that stopped waiting (its DELETE may
\* overtake the write) and an unlink that failed.  Crashes are none.
StagingIsOwned ==
  \A d \in staging : \/ status[d] \in Unfinished
                     \/ d \in gaveUp \cup unlinkFailed

\* The content of d has been finalized as another upload; only a client that
\* stopped waiting can have lost that row again.
LostToTwin(d) ==
  \E e \in Doc : Twins(d, e) /\ (status[e] = "finalized" \/ e \in gaveUp)

\* A file in permanent storage belongs to a finalized row or to a finalize
\* that is about to write it.  These are the only ways to leave one behind:
\* an interruption between the move and the update, a client that stopped
\* waiting, and losing the race against an upload of the same content.
PermanentIsOwned ==
  \A d \in permanent : \/ status[d] = "finalized" \/ post[d] = "finalizeMoved"
                       \/ d \in cutShort \cup gaveUp
                       \/ LostToTwin(d)

\* When Express begins to listen, every unfinished row is gone but for those
\* whose deletion the sweep saw fail (uploadSweep.ts, ADR-017 step 5).
SweepClearsUnfinished ==
  [][server = "sweeping" /\ server' = "up" =>
       \A d \in Doc : status'[d] \in Unfinished => d \in skipped]_vars

\* Only unfinished rows leave the table in a sweep, and each only after its
\* file: the rows a sweep removes have no staging file left behind them, so
\* that an interrupted sweep can be repeated.
SweepIsRepeatable ==
  [][server = "sweeping" =>
       \A d \in Doc : status'[d] # status[d] =>
         /\ status[d] \in Unfinished /\ status'[d] = "none"
         /\ d \in staging => d \in unlinkFailed \cup gaveUp]_vars

\* Every upload comes to an end for the archivist who waits for it, and a startup
\* sweep does, in a server that listens or in another crash.
RequestsEnd ==
  /\ \A d \in Doc : client[d] # "idle" ~> client[d] \in {"succeeded", "failed"}
  /\ server = "sweeping" ~> server # "sweeping"

\* Intake implements the archive: a document is in it from the update that
\* finalizes its row, and confirmed when the frontend has reported success.
ArchiveOf == INSTANCE Archive WITH
  archived <- {d \in Doc : status[d] = "finalized" /\ d \in permanent},
  confirmed <- {d \in Doc : client[d] = "succeeded"}
ImplementsArchive == ArchiveOf!Spec

\* documents.ts:351 tells the client that a finalized document "cannot be
\* deleted".
FinalizedIsNeverDeleted ==
  [][\A d \in Doc : status[d] = "finalized" => status'[d] = "finalized"]_vars
=============================================================================
