------------------------ MODULE UploadLifecycleProofs ------------------------
(***************************************************************************)
(* Proofs about UploadLifecycle, for any set of uploads, any assignment of *)
(* contents to them and any number of faults.                              *)
(***************************************************************************)
EXTENDS UploadLifecycle, TLAPS

(***************************************************************************)
(* The inductive invariant.  Calls: what the POST in flight tells about    *)
(* the client that sent it.  Rows: what the point a handler has reached    *)
(* tells about the row it read some awaits ago, which is where the client  *)
(* that stopped waiting makes the difference.  Disk: the files.  Sweep:    *)
(* while the sweep runs no handler does.                                   *)
(***************************************************************************)
UploadRunning == {"uploadChecked", "uploadStaged", "uploadDuplicate", "uploadNovel"}
FinalizeRunning == {"finalizeChecked", "finalizeMoved"}

Calls(d) ==
  /\ client[d] = "idle" => status[d] = "none" /\ post[d] = "none"
  /\ client[d] \in {"idle", "succeeded"} \cup Waiting => del[d] = "none"
  /\ client[d] \in {"idle"} \cup Waiting => d \notin gaveUp
  /\ client[d] \in {"succeeded", "cleaning", "failed"} =>
       post[d] = "none" \/ d \in gaveUp
  /\ client[d] = "initiating" => post[d] \in {"initiate", "initiateOk", "error"}
  /\ client[d] = "uploading" =>
       post[d] \in {"upload", "uploadOk", "error"} \cup UploadRunning
  /\ client[d] = "finalizing" =>
       post[d] \in {"finalize", "finalizeOk", "error"} \cup FinalizeRunning

Rows(d) ==
  /\ client[d] = "succeeded" => status[d] = "finalized"
  /\ client[d] = "finalizing" /\ post[d] = "finalizeOk" => status[d] = "finalized"
  /\ status[d] = "finalized" => post[d] \in {"none", "finalizeOk"}
  /\ status[d] = "finalized" /\ d \notin gaveUp =>   \* has been told, or will be
       \/ client[d] = "succeeded"
       \/ client[d] = "finalizing" /\ post[d] = "finalizeOk"
  /\ post[d] \in UploadRunning => status[d] = "initiated" \/ d \in gaveUp
  /\ post[d] \in FinalizeRunning => status[d] = "uploaded" \/ d \in gaveUp

Disk(d) ==
  /\ status[d] = "finalized" \/ post[d] = "finalizeMoved" =>
       d \in permanent /\ d \notin staging
  /\ d \in staging => status[d] \in Unfinished \/ d \in gaveUp \cup unlinkFailed
  /\ d \in permanent => \/ status[d] = "finalized" \/ post[d] = "finalizeMoved"
                        \/ d \in cutShort \cup gaveUp
                        \/ LostToTwin(d)
  /\ del[d] = "deleteUnlinked" => d \notin staging \/ d \in gaveUp \cup unlinkFailed

Sweep(d) ==
  /\ server # "up" => post[d] \notin PostRunning /\ del[d] \notin DelRunning
  /\ d \in sweepTodo => server = "sweeping" /\ status[d] \in Unfinished
  /\ d \in sweepUnlinked => /\ d \in sweepTodo
                            /\ d \notin staging \/ d \in unlinkFailed
  /\ server = "sweeping" /\ status[d] \in Unfinished => d \in sweepTodo \cup skipped

DocInv(d) == Calls(d) /\ Rows(d) /\ Disk(d) /\ Sweep(d)

NoTwins == \A d, e \in Doc :
  status[d] = "finalized" /\ status[e] = "finalized" => ~Twins(d, e)

IInv == TypeOK /\ NoTwins /\ \A d \in Doc : DocInv(d)

-----------------------------------------------------------------------------
(* Types.                                                                  *)

LEMMA TypeInit == Init => TypeOK
BY UploadAssumption DEF Init, TypeOK, Waiting, PostSent, PostRunning,
   PostAnswered, DelRunning, Unfinished

LEMMA TypeStep == TypeOK /\ [Next]_vars => TypeOK'
<1> SUFFICES ASSUME TypeOK, [Next]_vars
             PROVE  TypeOK'
  OBVIOUS
<1> USE UploadAssumption DEF TypeOK, Waiting, PostSent, PostRunning,
    PostAnswered, DelRunning, Unfinished, table, files, process, history
<1>1. ASSUME NEW d \in Doc, StartUpload(d)
      PROVE  TypeOK'
  BY <1>1 DEF StartUpload
<1>2. ASSUME NEW d \in Doc, ClientAdvances(d)
      PROVE  TypeOK'
  BY <1>2 DEF ClientAdvances
<1>3. ASSUME NEW d \in Doc, ClientFails(d)
      PROVE  TypeOK'
  BY <1>3 DEF ClientFails, Abandon
<1>4. ASSUME NEW d \in Doc, ClientTimesOut(d)
      PROVE  TypeOK'
  BY <1>4 DEF ClientTimesOut, Abandon
<1>5. ASSUME NEW d \in Doc, ClientVanishes(d)
      PROVE  TypeOK'
  BY <1>5 DEF ClientVanishes
<1>6. ASSUME NEW d \in Doc, ClientEndsCleanup(d)
      PROVE  TypeOK'
  BY <1>6 DEF ClientEndsCleanup
<1>7. ASSUME NEW d \in Doc, InitiateUpload(d)
      PROVE  TypeOK'
  BY <1>7 DEF InitiateUpload, PostBecomes
<1>8. ASSUME NEW d \in Doc, UploadChecks(d)
      PROVE  TypeOK'
  BY <1>8 DEF UploadChecks, PostBecomes
<1>9. ASSUME NEW d \in Doc, UploadStages(d)
      PROVE  TypeOK'
  BY <1>9 DEF UploadStages, PostBecomes
<1>10. ASSUME NEW d \in Doc, UploadLooksUpHash(d)
      PROVE  TypeOK'
  BY <1>10 DEF UploadLooksUpHash, PostBecomes
<1>11. ASSUME NEW d \in Doc, UploadDropsDuplicate(d)
      PROVE  TypeOK'
  BY <1>11 DEF UploadDropsDuplicate, PostBecomes
<1>12. ASSUME NEW d \in Doc, UploadRecords(d)
      PROVE  TypeOK'
  BY <1>12 DEF UploadRecords, PostBecomes
<1>13. ASSUME NEW d \in Doc, FinalizeChecks(d)
      PROVE  TypeOK'
  BY <1>13 DEF FinalizeChecks, PostBecomes
<1>14. ASSUME NEW d \in Doc, FinalizeMoves(d)
      PROVE  TypeOK'
  BY <1>14 DEF FinalizeMoves, PostBecomes
<1>15. ASSUME NEW d \in Doc, FinalizeRecords(d)
      PROVE  TypeOK'
  BY <1>15 DEF FinalizeRecords, PostBecomes
<1>16. ASSUME NEW d \in Doc, CleanupChecks(d)
      PROVE  TypeOK'
  BY <1>16 DEF CleanupChecks, DelBecomes
<1>17. ASSUME NEW d \in Doc, CleanupUnlinks(d)
      PROVE  TypeOK'
  BY <1>17 DEF CleanupUnlinks, DelBecomes, Unlink
<1>18. ASSUME NEW d \in Doc, CleanupDeletesRow(d)
      PROVE  TypeOK'
  BY <1>18 DEF CleanupDeletesRow, DelBecomes
<1>19. ASSUME NEW d \in Doc, PostFaults(d)
      PROVE  TypeOK'
  BY <1>19 DEF PostFaults
<1>20. ASSUME NEW d \in Doc, CleanupFaults(d)
      PROVE  TypeOK'
  BY <1>20 DEF CleanupFaults
<1>21. ASSUME NEW d \in Doc, ConnectionRefused(d)
      PROVE  TypeOK'
  BY <1>21 DEF ConnectionRefused
<1>22. ASSUME NEW d \in Doc, SweepUnlinks(d)
      PROVE  TypeOK'
  BY <1>22 DEF SweepUnlinks, Unlink
<1>23. ASSUME NEW d \in Doc, SweepDeletesRow(d)
      PROVE  TypeOK'
  BY <1>23 DEF SweepDeletesRow
<1>24. ASSUME NEW d \in Doc, SweepSkips(d)
      PROVE  TypeOK'
  BY <1>24 DEF SweepSkips
<1>25. CASE Crash
  BY <1>25 DEF Crash
<1>26. CASE Restart
  BY <1>26 DEF Restart
<1>27. CASE Listen
  BY <1>27 DEF Listen
<1>28. CASE UNCHANGED vars
  BY <1>28 DEF vars
<1> QED
  BY <1>1, <1>2, <1>3, <1>4, <1>5, <1>6, <1>7, <1>8, <1>9, <1>10, <1>11, <1>12, <1>13, <1>14, <1>15, <1>16, <1>17, <1>18, <1>19, <1>20, <1>21, <1>22, <1>23, <1>24, <1>25, <1>26, <1>27, <1>28
  DEF Next, DocNext, ClientStep, PostStep, DelStep, SweepStep

\* Every variable keeps its type, whatever the number of uploads and faults.
THEOREM TypeCorrect == Spec => []TypeOK
<1> QED
  BY TypeInit, TypeStep, PTL DEF Spec

-----------------------------------------------------------------------------
(* The invariant.  Of each action only the uploads it is about change, so  *)
(* the proof looks at an arbitrary upload e.                                *)

LEMMA InitInv == Init => IInv
BY UploadAssumption DEF Init, IInv, TypeOK, NoTwins, DocInv, Calls, Rows, Disk, Sweep,
   Waiting, PostSent, PostRunning, PostAnswered, DelRunning, Unfinished,
   UploadRunning, FinalizeRunning

\* Steps of the frontend.
LEMMA ClientPreserves ==
  ASSUME IInv, NEW d \in Doc, NEW e \in Doc,
         \/ StartUpload(d) \/ ClientAdvances(d) \/ ClientFails(d)
         \/ ClientTimesOut(d) \/ ClientVanishes(d) \/ ClientEndsCleanup(d)
  PROVE  DocInv(e)'
<1> USE DEF TypeOK, Waiting, PostSent, PostRunning, PostAnswered, DelRunning, Unfinished,
      UploadRunning, FinalizeRunning, table, files, process, history
<1>0. TypeOK /\ DocInv(d) /\ DocInv(e)
  BY DEF IInv
<1>1. CASE StartUpload(d)
  <2>1. Calls(e)'
    BY <1>0, <1>1 DEF DocInv, Calls, Rows, StartUpload
  <2>2. Rows(e)'
    BY <1>0, <1>1 DEF DocInv, Calls, Rows, Disk, Sweep, StartUpload
  <2>3. Disk(e)'
    BY <1>0, <1>1 DEF DocInv, Calls, Rows, Disk, Sweep, LostToTwin, Twins, FinalizedTwin, StartUpload
  <2>4. Sweep(e)'
    BY <1>0, <1>1 DEF DocInv, Calls, Rows, Sweep, StartUpload
  <2> QED
    BY <2>1, <2>2, <2>3, <2>4 DEF DocInv
<1>2. CASE ClientAdvances(d)
  <2>1. Calls(e)'
    BY <1>0, <1>2 DEF DocInv, Calls, Rows, ClientAdvances
  <2>2. Rows(e)'
    <3>1. CASE e = d
      BY <1>0, <1>2, <3>1 DEF DocInv, Calls, Rows, ClientAdvances
    <3>2. CASE e # d
      <4>1. client'[e] = client[e] /\ post'[e] = post[e]
        BY <1>0, <1>2, <3>2 DEF ClientAdvances
      <4> QED
        BY <1>0, <1>2, <4>1 DEF DocInv, Rows, ClientAdvances
    <3> QED
      BY <3>1, <3>2
  <2>3. Disk(e)'
    BY <1>0, <1>2 DEF DocInv, Calls, Rows, Disk, Sweep, LostToTwin, Twins, FinalizedTwin, ClientAdvances
  <2>4. Sweep(e)'
    BY <1>0, <1>2 DEF DocInv, Calls, Rows, Sweep, ClientAdvances
  <2> QED
    BY <2>1, <2>2, <2>3, <2>4 DEF DocInv
<1>3. CASE ClientFails(d)
  <2>1. Calls(e)'
    BY <1>0, <1>3 DEF DocInv, Calls, Rows, ClientFails, Abandon
  <2>2. Rows(e)'
    BY <1>0, <1>3 DEF DocInv, Calls, Rows, Disk, Sweep, ClientFails, Abandon
  <2>3. Disk(e)'
    BY <1>0, <1>3 DEF DocInv, Calls, Rows, Disk, Sweep, LostToTwin, Twins, FinalizedTwin, ClientFails, Abandon
  <2>4. Sweep(e)'
    BY <1>0, <1>3 DEF DocInv, Calls, Rows, Sweep, ClientFails, Abandon
  <2> QED
    BY <2>1, <2>2, <2>3, <2>4 DEF DocInv
<1>4. CASE ClientTimesOut(d)
  <2>1. Calls(e)'
    BY <1>0, <1>4 DEF DocInv, Calls, Rows, ClientTimesOut, Abandon
  <2>2. Rows(e)'
    BY <1>0, <1>4 DEF DocInv, Calls, Rows, Disk, Sweep, ClientTimesOut, Abandon
  <2>3. Disk(e)'
    BY <1>0, <1>4 DEF DocInv, Calls, Rows, Disk, Sweep, LostToTwin, Twins, FinalizedTwin, ClientTimesOut, Abandon
  <2>4. Sweep(e)'
    BY <1>0, <1>4 DEF DocInv, Calls, Rows, Sweep, ClientTimesOut, Abandon
  <2> QED
    BY <2>1, <2>2, <2>3, <2>4 DEF DocInv
<1>5. CASE ClientVanishes(d)
  <2>1. Calls(e)'
    BY <1>0, <1>5 DEF DocInv, Calls, Rows, ClientVanishes
  <2>2. Rows(e)'
    BY <1>0, <1>5 DEF DocInv, Calls, Rows, Disk, Sweep, ClientVanishes
  <2>3. Disk(e)'
    BY <1>0, <1>5 DEF DocInv, Calls, Rows, Disk, Sweep, LostToTwin, Twins, FinalizedTwin, ClientVanishes
  <2>4. Sweep(e)'
    BY <1>0, <1>5 DEF DocInv, Calls, Rows, Sweep, ClientVanishes
  <2> QED
    BY <2>1, <2>2, <2>3, <2>4 DEF DocInv
<1>6. CASE ClientEndsCleanup(d)
  <2>1. Calls(e)'
    BY <1>0, <1>6 DEF DocInv, Calls, Rows, ClientEndsCleanup
  <2>2. Rows(e)'
    BY <1>0, <1>6 DEF DocInv, Calls, Rows, Disk, Sweep, ClientEndsCleanup
  <2>3. Disk(e)'
    BY <1>0, <1>6 DEF DocInv, Calls, Rows, Disk, Sweep, LostToTwin, Twins, FinalizedTwin, ClientEndsCleanup
  <2>4. Sweep(e)'
    BY <1>0, <1>6 DEF DocInv, Calls, Rows, Sweep, ClientEndsCleanup
  <2> QED
    BY <2>1, <2>2, <2>3, <2>4 DEF DocInv
<1> QED
  BY <1>1, <1>2, <1>3, <1>4, <1>5, <1>6

\* Steps of a POST.
LEMMA PostPreserves ==
  ASSUME IInv, NEW d \in Doc, NEW e \in Doc,
         \/ InitiateUpload(d) \/ UploadChecks(d) \/ UploadStages(d)
         \/ UploadLooksUpHash(d) \/ UploadDropsDuplicate(d) \/ UploadRecords(d)
         \/ FinalizeChecks(d) \/ FinalizeMoves(d) \/ FinalizeRecords(d)
         \/ PostFaults(d) \/ ConnectionRefused(d)
  PROVE  DocInv(e)'
<1> USE DEF TypeOK, Waiting, PostSent, PostRunning, PostAnswered, DelRunning, Unfinished,
      UploadRunning, FinalizeRunning, table, files, process, history
<1>0. TypeOK /\ DocInv(d) /\ DocInv(e)
  BY DEF IInv
<1>1. CASE InitiateUpload(d)
  <2>1. Calls(e)'
    BY <1>0, <1>1 DEF DocInv, Calls, Rows, InitiateUpload, PostBecomes
  <2>2. Rows(e)'
    BY <1>0, <1>1 DEF DocInv, Calls, Rows, Disk, Sweep, InitiateUpload, PostBecomes
  <2>3. Disk(e)'
    BY <1>0, <1>1 DEF DocInv, Calls, Rows, Disk, Sweep, LostToTwin, Twins, FinalizedTwin, InitiateUpload, PostBecomes
  <2>4. Sweep(e)'
    BY <1>0, <1>1 DEF DocInv, Calls, Rows, Sweep, InitiateUpload, PostBecomes
  <2> QED
    BY <2>1, <2>2, <2>3, <2>4 DEF DocInv
<1>2. CASE UploadChecks(d)
  <2>1. Calls(e)'
    BY <1>0, <1>2 DEF DocInv, Calls, Rows, UploadChecks, PostBecomes
  <2>2. Rows(e)'
    BY <1>0, <1>2 DEF DocInv, Calls, Rows, Disk, Sweep, UploadChecks, PostBecomes
  <2>3. Disk(e)'
    BY <1>0, <1>2 DEF DocInv, Calls, Rows, Disk, Sweep, LostToTwin, Twins, FinalizedTwin, UploadChecks, PostBecomes
  <2>4. Sweep(e)'
    BY <1>0, <1>2 DEF DocInv, Calls, Rows, Sweep, UploadChecks, PostBecomes
  <2> QED
    BY <2>1, <2>2, <2>3, <2>4 DEF DocInv
<1>3. CASE UploadStages(d)
  <2>1. Calls(e)'
    BY <1>0, <1>3 DEF DocInv, Calls, Rows, UploadStages, PostBecomes
  <2>2. Rows(e)'
    BY <1>0, <1>3 DEF DocInv, Calls, Rows, Disk, Sweep, UploadStages, PostBecomes
  <2>3. Disk(e)'
    BY <1>0, <1>3 DEF DocInv, Calls, Rows, Disk, Sweep, LostToTwin, Twins, FinalizedTwin, UploadStages, PostBecomes
  <2>4. Sweep(e)'
    BY <1>0, <1>3 DEF DocInv, Calls, Rows, Sweep, UploadStages, PostBecomes
  <2> QED
    BY <2>1, <2>2, <2>3, <2>4 DEF DocInv
<1>4. CASE UploadLooksUpHash(d)
  <2>1. Calls(e)'
    BY <1>0, <1>4 DEF DocInv, Calls, Rows, UploadLooksUpHash, PostBecomes
  <2>2. Rows(e)'
    BY <1>0, <1>4 DEF DocInv, Calls, Rows, Disk, Sweep, UploadLooksUpHash, PostBecomes
  <2>3. Disk(e)'
    BY <1>0, <1>4 DEF DocInv, Calls, Rows, Disk, Sweep, LostToTwin, Twins, FinalizedTwin, UploadLooksUpHash, PostBecomes
  <2>4. Sweep(e)'
    BY <1>0, <1>4 DEF DocInv, Calls, Rows, Sweep, UploadLooksUpHash, PostBecomes
  <2> QED
    BY <2>1, <2>2, <2>3, <2>4 DEF DocInv
<1>5. CASE UploadDropsDuplicate(d)
  <2>1. Calls(e)'
    BY <1>0, <1>5 DEF DocInv, Calls, Rows, UploadDropsDuplicate, PostBecomes
  <2>2. Rows(e)'
    BY <1>0, <1>5 DEF DocInv, Calls, Rows, Disk, Sweep, UploadDropsDuplicate, PostBecomes
  <2>3. Disk(e)'
    BY <1>0, <1>5 DEF DocInv, Calls, Rows, Disk, Sweep, LostToTwin, Twins, FinalizedTwin, UploadDropsDuplicate, PostBecomes
  <2>4. Sweep(e)'
    BY <1>0, <1>5 DEF DocInv, Calls, Rows, Sweep, UploadDropsDuplicate, PostBecomes
  <2> QED
    BY <2>1, <2>2, <2>3, <2>4 DEF DocInv
<1>6. CASE UploadRecords(d)
  <2>1. Calls(e)'
    BY <1>0, <1>6 DEF DocInv, Calls, Rows, UploadRecords, PostBecomes
  <2>2. Rows(e)'
    BY <1>0, <1>6 DEF DocInv, Calls, Rows, Disk, Sweep, UploadRecords, PostBecomes
  <2>3. Disk(e)'
    BY <1>0, <1>6 DEF DocInv, Calls, Rows, Disk, Sweep, LostToTwin, Twins, FinalizedTwin, UploadRecords, PostBecomes
  <2>4. Sweep(e)'
    BY <1>0, <1>6 DEF DocInv, Calls, Rows, Sweep, UploadRecords, PostBecomes
  <2> QED
    BY <2>1, <2>2, <2>3, <2>4 DEF DocInv
<1>7. CASE FinalizeChecks(d)
  <2>1. Calls(e)'
    BY <1>0, <1>7 DEF DocInv, Calls, Rows, FinalizeChecks, PostBecomes
  <2>2. Rows(e)'
    BY <1>0, <1>7 DEF DocInv, Calls, Rows, Disk, Sweep, FinalizeChecks, PostBecomes
  <2>3. Disk(e)'
    BY <1>0, <1>7 DEF DocInv, Calls, Rows, Disk, Sweep, LostToTwin, Twins, FinalizedTwin, FinalizeChecks, PostBecomes
  <2>4. Sweep(e)'
    BY <1>0, <1>7 DEF DocInv, Calls, Rows, Sweep, FinalizeChecks, PostBecomes
  <2> QED
    BY <2>1, <2>2, <2>3, <2>4 DEF DocInv
<1>8. CASE FinalizeMoves(d)
  <2>1. Calls(e)'
    BY <1>0, <1>8 DEF DocInv, Calls, Rows, FinalizeMoves, PostBecomes
  <2>2. Rows(e)'
    BY <1>0, <1>8 DEF DocInv, Calls, Rows, Disk, Sweep, FinalizeMoves, PostBecomes
  <2>3. Disk(e)'
    BY <1>0, <1>8 DEF DocInv, Calls, Rows, Disk, Sweep, LostToTwin, Twins, FinalizedTwin, FinalizeMoves, PostBecomes
  <2>4. Sweep(e)'
    BY <1>0, <1>8 DEF DocInv, Calls, Rows, Sweep, FinalizeMoves, PostBecomes
  <2> QED
    BY <2>1, <2>2, <2>3, <2>4 DEF DocInv
<1>9. CASE FinalizeRecords(d)
  <2>1. Calls(e)'
    BY <1>0, <1>9 DEF DocInv, Calls, Rows, FinalizeRecords, PostBecomes
  <2>2. Rows(e)'
    BY <1>0, <1>9 DEF DocInv, Calls, Rows, Disk, Sweep, FinalizeRecords, PostBecomes
  <2>3. Disk(e)'
    BY <1>0, <1>9 DEF DocInv, Calls, Rows, Disk, Sweep, LostToTwin, Twins, FinalizedTwin, FinalizeRecords, PostBecomes
  <2>4. Sweep(e)'
    BY <1>0, <1>9 DEF DocInv, Calls, Rows, Sweep, FinalizeRecords, PostBecomes
  <2> QED
    BY <2>1, <2>2, <2>3, <2>4 DEF DocInv
<1>10. CASE PostFaults(d)
  <2>1. Calls(e)'
    BY <1>0, <1>10 DEF DocInv, Calls, Rows, PostFaults
  <2>2. Rows(e)'
    BY <1>0, <1>10 DEF DocInv, Calls, Rows, Disk, Sweep, PostFaults
  <2>3. Disk(e)'
    BY <1>0, <1>10 DEF DocInv, Calls, Rows, Disk, Sweep, LostToTwin, Twins, FinalizedTwin, PostFaults
  <2>4. Sweep(e)'
    BY <1>0, <1>10 DEF DocInv, Calls, Rows, Sweep, PostFaults
  <2> QED
    BY <2>1, <2>2, <2>3, <2>4 DEF DocInv
<1>11. CASE ConnectionRefused(d)
  <2>1. Calls(e)'
    BY <1>0, <1>11 DEF DocInv, Calls, Rows, ConnectionRefused
  <2>2. Rows(e)'
    BY <1>0, <1>11 DEF DocInv, Calls, Rows, Disk, Sweep, ConnectionRefused
  <2>3. Disk(e)'
    BY <1>0, <1>11 DEF DocInv, Calls, Rows, Disk, Sweep, LostToTwin, Twins, FinalizedTwin, ConnectionRefused
  <2>4. Sweep(e)'
    BY <1>0, <1>11 DEF DocInv, Calls, Rows, Sweep, ConnectionRefused
  <2> QED
    BY <2>1, <2>2, <2>3, <2>4 DEF DocInv
<1> QED
  BY <1>1, <1>2, <1>3, <1>4, <1>5, <1>6, <1>7, <1>8, <1>9, <1>10, <1>11

\* Steps of a DELETE.
LEMMA DeletePreserves ==
  ASSUME IInv, NEW d \in Doc, NEW e \in Doc,
         \/ CleanupChecks(d) \/ CleanupUnlinks(d) \/ CleanupDeletesRow(d)
         \/ CleanupFaults(d)
  PROVE  DocInv(e)'
<1> USE DEF TypeOK, Waiting, PostSent, PostRunning, PostAnswered, DelRunning, Unfinished,
      UploadRunning, FinalizeRunning, table, files, process, history
<1>0. TypeOK /\ DocInv(d) /\ DocInv(e)
  BY DEF IInv
<1>1. CASE CleanupChecks(d)
  <2>1. Calls(e)'
    BY <1>0, <1>1 DEF DocInv, Calls, Rows, CleanupChecks, DelBecomes
  <2>2. Rows(e)'
    BY <1>0, <1>1 DEF DocInv, Calls, Rows, Disk, Sweep, CleanupChecks, DelBecomes
  <2>3. Disk(e)'
    BY <1>0, <1>1 DEF DocInv, Calls, Rows, Disk, Sweep, LostToTwin, Twins, FinalizedTwin, CleanupChecks, DelBecomes
  <2>4. Sweep(e)'
    BY <1>0, <1>1 DEF DocInv, Calls, Rows, Sweep, CleanupChecks, DelBecomes
  <2> QED
    BY <2>1, <2>2, <2>3, <2>4 DEF DocInv
<1>2. CASE CleanupUnlinks(d)
  <2>1. Calls(e)'
    BY <1>0, <1>2 DEF DocInv, Calls, Rows, CleanupUnlinks, DelBecomes, Unlink
  <2>2. Rows(e)'
    BY <1>0, <1>2 DEF DocInv, Calls, Rows, Disk, Sweep, CleanupUnlinks, DelBecomes, Unlink
  <2>3. Disk(e)'
    BY <1>0, <1>2 DEF DocInv, Calls, Rows, Disk, Sweep, LostToTwin, Twins, FinalizedTwin, CleanupUnlinks, DelBecomes, Unlink
  <2>4. Sweep(e)'
    BY <1>0, <1>2 DEF DocInv, Calls, Rows, Sweep, CleanupUnlinks, DelBecomes, Unlink
  <2> QED
    BY <2>1, <2>2, <2>3, <2>4 DEF DocInv
<1>3. CASE CleanupDeletesRow(d)
  <2>1. Calls(e)'
    BY <1>0, <1>3 DEF DocInv, Calls, Rows, CleanupDeletesRow, DelBecomes
  <2>2. Rows(e)'
    BY <1>0, <1>3 DEF DocInv, Calls, Rows, Disk, Sweep, CleanupDeletesRow, DelBecomes
  <2>3. Disk(e)'
    BY <1>0, <1>3 DEF DocInv, Calls, Rows, Disk, Sweep, LostToTwin, Twins, FinalizedTwin, CleanupDeletesRow, DelBecomes
  <2>4. Sweep(e)'
    BY <1>0, <1>3 DEF DocInv, Calls, Rows, Sweep, CleanupDeletesRow, DelBecomes
  <2> QED
    BY <2>1, <2>2, <2>3, <2>4 DEF DocInv
<1>4. CASE CleanupFaults(d)
  <2>1. Calls(e)'
    BY <1>0, <1>4 DEF DocInv, Calls, Rows, CleanupFaults
  <2>2. Rows(e)'
    BY <1>0, <1>4 DEF DocInv, Calls, Rows, Disk, Sweep, CleanupFaults
  <2>3. Disk(e)'
    BY <1>0, <1>4 DEF DocInv, Calls, Rows, Disk, Sweep, LostToTwin, Twins, FinalizedTwin, CleanupFaults
  <2>4. Sweep(e)'
    BY <1>0, <1>4 DEF DocInv, Calls, Rows, Sweep, CleanupFaults
  <2> QED
    BY <2>1, <2>2, <2>3, <2>4 DEF DocInv
<1> QED
  BY <1>1, <1>2, <1>3, <1>4

\* Steps of the startup sweep.
LEMMA SweepPreserves ==
  ASSUME IInv, NEW d \in Doc, NEW e \in Doc,
         \/ SweepUnlinks(d) \/ SweepDeletesRow(d) \/ SweepSkips(d)
  PROVE  DocInv(e)'
<1> USE DEF TypeOK, Waiting, PostSent, PostRunning, PostAnswered, DelRunning, Unfinished,
      UploadRunning, FinalizeRunning, table, files, process, history
<1>0. TypeOK /\ DocInv(d) /\ DocInv(e)
  BY DEF IInv
<1>1. CASE SweepUnlinks(d)
  <2>1. Calls(e)'
    BY <1>0, <1>1 DEF DocInv, Calls, Rows, SweepUnlinks, Unlink
  <2>2. Rows(e)'
    BY <1>0, <1>1 DEF DocInv, Calls, Rows, Disk, Sweep, SweepUnlinks, Unlink
  <2>3. Disk(e)'
    BY <1>0, <1>1 DEF DocInv, Calls, Rows, Disk, Sweep, LostToTwin, Twins, FinalizedTwin, SweepUnlinks, Unlink
  <2>4. Sweep(e)'
    BY <1>0, <1>1 DEF DocInv, Calls, Rows, Sweep, SweepUnlinks, Unlink
  <2> QED
    BY <2>1, <2>2, <2>3, <2>4 DEF DocInv
<1>2. CASE SweepDeletesRow(d)
  <2>1. Calls(e)'
    BY <1>0, <1>2 DEF DocInv, Calls, Rows, SweepDeletesRow
  <2>2. Rows(e)'
    BY <1>0, <1>2 DEF DocInv, Calls, Rows, Disk, Sweep, SweepDeletesRow
  <2>3. Disk(e)'
    BY <1>0, <1>2 DEF DocInv, Calls, Rows, Disk, Sweep, LostToTwin, Twins, FinalizedTwin, SweepDeletesRow
  <2>4. Sweep(e)'
    BY <1>0, <1>2 DEF DocInv, Calls, Rows, Sweep, SweepDeletesRow
  <2> QED
    BY <2>1, <2>2, <2>3, <2>4 DEF DocInv
<1>3. CASE SweepSkips(d)
  <2>1. Calls(e)'
    BY <1>0, <1>3 DEF DocInv, Calls, Rows, SweepSkips
  <2>2. Rows(e)'
    BY <1>0, <1>3 DEF DocInv, Calls, Rows, Disk, Sweep, SweepSkips
  <2>3. Disk(e)'
    BY <1>0, <1>3 DEF DocInv, Calls, Rows, Disk, Sweep, LostToTwin, Twins, FinalizedTwin, SweepSkips
  <2>4. Sweep(e)'
    BY <1>0, <1>3 DEF DocInv, Calls, Rows, Sweep, SweepSkips
  <2> QED
    BY <2>1, <2>2, <2>3, <2>4 DEF DocInv
<1> QED
  BY <1>1, <1>2, <1>3

\* The steps that are not about one upload.
LEMMA ServerPreserves ==
  ASSUME IInv, NEW e \in Doc, Crash \/ Restart \/ Listen
  PROVE  DocInv(e)'
<1> USE DEF TypeOK, Waiting, PostSent, PostRunning, PostAnswered, DelRunning, Unfinished,
      UploadRunning, FinalizeRunning, table, files, process, history
<1>0. TypeOK /\ DocInv(e)
  BY DEF IInv
<1>1. CASE Crash
  BY <1>0, <1>1 DEF DocInv, Calls, Rows, Disk, Sweep, LostToTwin, Twins, Crash
<1>2. CASE Restart
  BY <1>0, <1>2 DEF DocInv, Calls, Rows, Disk, Sweep, LostToTwin, Twins, Restart
<1>3. CASE Listen
  BY <1>0, <1>3 DEF DocInv, Calls, Rows, Disk, Sweep, LostToTwin, Twins, Listen
<1> QED
  BY <1>1, <1>2, <1>3

\* Only the update of finalizeUpload makes a row finalized, and the unique
\* index refuses it beside a twin.
LEMMA FinalizingStep ==
  ASSUME TypeOK, [Next]_vars, NEW e \in Doc,
         status'[e] = "finalized", status[e] # "finalized"
  PROVE  FinalizeRecords(e) /\ ~FinalizedTwin(e)
<1> USE DEF TypeOK, Unfinished, table, files, process, history
<1>1. ASSUME NEW d \in Doc, DocNext(d)
      PROVE  FinalizeRecords(e) /\ ~FinalizedTwin(e)
  <2>1. CASE FinalizeRecords(d)
    BY <2>1 DEF FinalizeRecords, PostBecomes
  <2>2. CASE ~FinalizeRecords(d)
    BY <1>1, <2>2 DEF DocNext, ClientStep, PostStep, DelStep, SweepStep,
       StartUpload, ClientAdvances, ClientFails, ClientTimesOut,
       ClientVanishes, ClientEndsCleanup, InitiateUpload, UploadChecks,
       UploadStages, UploadLooksUpHash, UploadDropsDuplicate, UploadRecords,
       FinalizeChecks, FinalizeMoves, PostFaults, ConnectionRefused,
       CleanupChecks, CleanupUnlinks, CleanupDeletesRow, CleanupFaults,
       SweepUnlinks, SweepDeletesRow, SweepSkips, PostBecomes, DelBecomes
  <2> QED
    BY <2>1, <2>2
<1>2. ~(Crash \/ Restart \/ Listen \/ UNCHANGED vars)
  BY DEF Crash, Restart, Listen, vars
<1> QED
  BY <1>1, <1>2 DEF Next

LEMMA NoTwinsPreserved ==
  ASSUME IInv, [Next]_vars
  PROVE  NoTwins'
<1>1. SUFFICES ASSUME NEW d \in Doc, NEW e \in Doc, status'[d] = "finalized",
                      status'[e] = "finalized", Twins(d, e)
               PROVE  FALSE
  BY DEF NoTwins, Twins
<1>2. TypeOK /\ NoTwins
  BY DEF IInv
<1>3. CASE status[d] = "finalized" /\ status[e] = "finalized"
  BY <1>1, <1>2, <1>3 DEF NoTwins
<1>4. CASE status[d] # "finalized"
  <2>1. FinalizeRecords(d) /\ ~FinalizedTwin(d)
    BY <1>1, <1>2, <1>4, FinalizingStep
  <2>2. status'[e] = status[e]
    BY <1>1, <1>2, <2>1 DEF FinalizeRecords, TypeOK, Twins, table
  <2> QED
    BY <1>1, <2>1, <2>2 DEF FinalizedTwin
<1>5. CASE status[e] # "finalized"
  <2>1. FinalizeRecords(e) /\ ~FinalizedTwin(e)
    BY <1>1, <1>2, <1>5, FinalizingStep
  <2>2. status'[d] = status[d]
    BY <1>1, <1>2, <2>1 DEF FinalizeRecords, TypeOK, Twins, table
  <2> QED
    BY <1>1, <2>1, <2>2 DEF FinalizedTwin, Twins
<1> QED
  BY <1>3, <1>4, <1>5

LEMMA Inductive == IInv /\ [Next]_vars => IInv'
<1> SUFFICES ASSUME IInv, [Next]_vars
             PROVE  IInv'
  OBVIOUS
<1>1. TypeOK'
  BY TypeStep DEF IInv
<1>2. NoTwins'
  BY NoTwinsPreserved
<1>3. ASSUME NEW e \in Doc
      PROVE  DocInv(e)'
  <2>1. ASSUME NEW d \in Doc, DocNext(d)
        PROVE  DocInv(e)'
    BY <2>1, ClientPreserves, PostPreserves, DeletePreserves, SweepPreserves
    DEF DocNext, ClientStep, PostStep, DelStep, SweepStep
  <2>2. CASE Crash \/ Restart \/ Listen
    BY <2>2, ServerPreserves
  <2>3. CASE UNCHANGED vars
    BY <2>3 DEF IInv, vars, table, files, process, history, DocInv, Calls,
       Rows, Disk, Sweep, LostToTwin, Twins
  <2> QED
    BY <2>1, <2>2, <2>3 DEF Next
<1> QED
  BY <1>1, <1>2, <1>3 DEF IInv

THEOREM InvariantHolds == Spec => []IInv
<1> QED
  BY InitInv, Inductive, PTL DEF Spec

-----------------------------------------------------------------------------
(* What follows from it.                                                   *)

\* A document whose archivist was told so is archived, row and file, through
\* every crash, sweep and overtaking DELETE.
THEOREM ConfirmedTheorem == Spec => []ConfirmedIsArchived
<1>1. IInv => ConfirmedIsArchived
  BY DEF IInv, DocInv, Rows, Disk, ConfirmedIsArchived
<1> QED
  BY <1>1, InvariantHolds, PTL

\* Every finalized row has its file, in one place, and its content to itself.
THEOREM FinalizedTheorem == Spec => []FinalizedIsSound
<1>1. IInv => FinalizedIsSound
  BY DEF IInv, DocInv, Disk, NoTwins, FinalizedTwin, FinalizedIsSound
<1> QED
  BY <1>1, InvariantHolds, PTL

\* Crashes alone never leave a staging file that no row leads to.
THEOREM StagingTheorem == Spec => []StagingIsOwned
<1>1. IInv => StagingIsOwned
  BY DEF IInv, TypeOK, DocInv, Disk, StagingIsOwned
<1> QED
  BY <1>1, InvariantHolds, PTL

\* The three ways to orphan a permanent file are the only ones.
THEOREM PermanentTheorem == Spec => []PermanentIsOwned
<1>1. IInv => PermanentIsOwned
  BY DEF IInv, TypeOK, DocInv, Disk, PermanentIsOwned
<1> QED
  BY <1>1, InvariantHolds, PTL

\* Express listens only over a table swept of unfinished rows.
THEOREM SweepTheorem == Spec => SweepClearsUnfinished
<1>1. IInv /\ [Next]_vars =>
        (server = "sweeping" /\ server' = "up" =>
           \A d \in Doc : status'[d] \in Unfinished => d \in skipped)
  <2> SUFFICES ASSUME IInv, [Next]_vars, server = "sweeping", server' = "up",
                      NEW d \in Doc, status'[d] \in Unfinished
               PROVE  d \in skipped
    OBVIOUS
  <2>1. Listen
    BY DEF Next, vars, process, DocNext, ClientStep, PostStep, DelStep, SweepStep,
       StartUpload, ClientAdvances, ClientFails, ClientTimesOut, ClientVanishes,
       ClientEndsCleanup, InitiateUpload, UploadChecks, UploadStages,
       UploadLooksUpHash, UploadDropsDuplicate, UploadRecords, FinalizeChecks,
       FinalizeMoves, FinalizeRecords, PostFaults, ConnectionRefused,
       CleanupChecks, CleanupUnlinks, CleanupDeletesRow, CleanupFaults,
       SweepUnlinks, SweepDeletesRow, SweepSkips, PostBecomes, DelBecomes,
       Crash, Restart
  <2> QED
    BY <2>1 DEF Listen, IInv, DocInv, Sweep, table
<1> QED
  BY <1>1, InvariantHolds, PTL DEF Spec, SweepClearsUnfinished

\* A sweep removes unfinished rows only, each after its staging file, so that
\* a sweep that was interrupted can be repeated.
THEOREM RepeatableTheorem == Spec => SweepIsRepeatable
<1>1. IInv /\ [Next]_vars =>
        (server = "sweeping" =>
           \A d \in Doc : status'[d] # status[d] =>
             /\ status[d] \in Unfinished /\ status'[d] = "none"
             /\ d \in staging => d \in unlinkFailed \cup gaveUp)
  <2> SUFFICES ASSUME IInv, [Next]_vars, server = "sweeping",
                      NEW e \in Doc, status'[e] # status[e]
               PROVE  /\ status[e] \in Unfinished /\ status'[e] = "none"
                      /\ e \in staging => e \in unlinkFailed \cup gaveUp
    OBVIOUS
  <2>1. SweepDeletesRow(e)
    <3>1. ASSUME NEW d \in Doc, DocNext(d)
          PROVE  SweepDeletesRow(e)
      BY <3>1 DEF IInv, TypeOK, DocNext, ClientStep, PostStep, DelStep, SweepStep, table,
         StartUpload, ClientAdvances, ClientFails, ClientTimesOut, ClientVanishes,
         ClientEndsCleanup, InitiateUpload, UploadChecks, UploadStages,
         UploadLooksUpHash, UploadDropsDuplicate, UploadRecords, FinalizeChecks,
         FinalizeMoves, FinalizeRecords, PostFaults, ConnectionRefused,
         CleanupChecks, CleanupUnlinks, CleanupDeletesRow, CleanupFaults,
         SweepUnlinks, SweepDeletesRow, SweepSkips, PostBecomes, DelBecomes
    <3>2. ~(Crash \/ Restart \/ Listen \/ UNCHANGED vars)
      BY DEF Crash, Restart, Listen, vars, table
    <3> QED
      BY <3>1, <3>2 DEF Next
  <2> QED
    BY <2>1 DEF SweepDeletesRow, IInv, TypeOK, DocInv, Sweep
<1> QED
  BY <1>1, InvariantHolds, PTL DEF Spec, SweepIsRepeatable

-----------------------------------------------------------------------------
(* Refinement.                                                             *)

\* Under the invariant a finalized row always has its file, so the archive is
\* the set of finalized rows.
Finalized == {d \in Doc : status[d] = "finalized"}
Confirmed == {d \in Doc : client[d] = "succeeded"}

LEMMA ArchiveIsFinalized ==
  ASSUME IInv
  PROVE  Finalized = {d \in Doc : status[d] = "finalized" /\ d \in permanent}
BY DEF IInv, DocInv, Disk, Finalized

\* What a step does to the two sets: at most one of them changes, by one
\* document, and only in the three ways the archive knows.
LEMMA StepOfSets ==
  ASSUME IInv, [Next]_vars
  PROVE  \/ Finalized' = Finalized /\ Confirmed' = Confirmed
         \/ \E d \in Doc : /\ d \notin Finalized
                           /\ \A e \in Finalized : FileOf[e] # FileOf[d]
                           /\ Finalized' = Finalized \cup {d}
                           /\ Confirmed' = Confirmed
         \/ \E d \in Finalized : /\ Confirmed' = Confirmed \cup {d}
                                 /\ Finalized' = Finalized
         \/ \E d \in Finalized \ Confirmed : /\ Finalized' = Finalized \ {d}
                                             /\ Confirmed' = Confirmed
<1> USE DEF TypeOK, Finalized, Confirmed, table, files, process, history
<1>0. TypeOK /\ \A d \in Doc : DocInv(d)
  BY DEF IInv
<1>1. ASSUME NEW d \in Doc, FinalizeRecords(d)
      PROVE  \/ Finalized' = Finalized /\ Confirmed' = Confirmed
             \/ /\ d \notin Finalized
                /\ \A e \in Finalized : FileOf[e] # FileOf[d]
                /\ Finalized' = Finalized \cup {d}
                /\ Confirmed' = Confirmed
  <2>1. status[d] # "finalized" /\ client' = client
    BY <1>0, <1>1 DEF FinalizeRecords, PostBecomes, DocInv, Rows
  <2>2. CASE status' = status
    BY <2>1, <2>2
  <2>3. CASE ~FinalizedTwin(d) /\ status' = [status EXCEPT ![d] = "finalized"]
    BY <1>0, <2>1, <2>3 DEF FinalizedTwin, Twins
  <2> QED
    BY <1>1, <2>2, <2>3 DEF FinalizeRecords
<1>2. ASSUME NEW d \in Doc, ClientAdvances(d)
      PROVE  \/ Finalized' = Finalized /\ Confirmed' = Confirmed
             \/ /\ d \in Finalized
                /\ Confirmed' = Confirmed \cup {d}
                /\ Finalized' = Finalized
  BY <1>0, <1>2 DEF ClientAdvances, DocInv, Rows
<1>3. ASSUME NEW d \in Doc, CleanupDeletesRow(d)
      PROVE  \/ Finalized' = Finalized /\ Confirmed' = Confirmed
             \/ /\ d \in Finalized \ Confirmed
                /\ Finalized' = Finalized \ {d}
                /\ Confirmed' = Confirmed
  BY <1>0, <1>3 DEF CleanupDeletesRow, DelBecomes, DocInv, Calls
<1>4. ASSUME NEW d \in Doc,
             \/ StartUpload(d) \/ ClientFails(d) \/ ClientTimesOut(d)
             \/ ClientVanishes(d) \/ ClientEndsCleanup(d)
      PROVE  Finalized' = Finalized /\ Confirmed' = Confirmed
  BY <1>0, <1>4 DEF StartUpload, ClientFails, ClientTimesOut, ClientVanishes,
     ClientEndsCleanup, Abandon, Waiting
<1>5. ASSUME NEW d \in Doc,
             \/ InitiateUpload(d) \/ UploadChecks(d) \/ UploadStages(d)
             \/ UploadLooksUpHash(d) \/ UploadDropsDuplicate(d) \/ UploadRecords(d)
             \/ FinalizeChecks(d) \/ FinalizeMoves(d) \/ PostFaults(d)
             \/ ConnectionRefused(d)
      PROVE  Finalized' = Finalized /\ Confirmed' = Confirmed
  BY <1>0, <1>5 DEF InitiateUpload, UploadChecks, UploadStages, UploadLooksUpHash,
     UploadDropsDuplicate, UploadRecords, FinalizeChecks, FinalizeMoves,
     PostFaults, ConnectionRefused, PostBecomes, DocInv, Rows
<1>6. ASSUME NEW d \in Doc,
             \/ CleanupChecks(d) \/ CleanupUnlinks(d) \/ CleanupFaults(d)
             \/ SweepUnlinks(d) \/ SweepDeletesRow(d) \/ SweepSkips(d)
      PROVE  Finalized' = Finalized /\ Confirmed' = Confirmed
  BY <1>0, <1>6 DEF CleanupChecks, CleanupUnlinks, CleanupFaults, SweepUnlinks,
     SweepDeletesRow, SweepSkips, DelBecomes, DocInv, Sweep, Unfinished
<1>7. CASE Crash \/ Restart \/ Listen \/ UNCHANGED vars
  BY <1>7 DEF Crash, Restart, Listen, vars
<1> QED
  BY <1>1, <1>2, <1>3, <1>4, <1>5, <1>6, <1>7
  DEF Next, DocNext, ClientStep, PostStep, DelStep, SweepStep

\* The upload flow implements the archive: what it takes in, confirms and
\* withdraws is what Archive allows, for every set of uploads and any faults.
THEOREM Refinement == Spec => ImplementsArchive
<1>1. Init => ArchiveOf!Init
  BY DEF Init, ArchiveOf!Init
<1>2. IInv /\ IInv' /\ [Next]_vars => [ArchiveOf!Next]_(ArchiveOf!archiveVars)
  <2> SUFFICES ASSUME IInv, IInv', [Next]_vars
               PROVE  [ArchiveOf!Next]_(ArchiveOf!archiveVars)
    OBVIOUS
  <2>1. /\ Finalized = {d \in Doc : status[d] = "finalized" /\ d \in permanent}
        /\ Finalized' = {d \in Doc : status'[d] = "finalized" /\ d \in permanent'}
        /\ Confirmed = {d \in Doc : client[d] = "succeeded"}
        /\ Confirmed' = {d \in Doc : client'[d] = "succeeded"}
        /\ Finalized \subseteq Doc
    BY ArchiveIsFinalized, IInv' DEF Finalized, Confirmed, IInv, DocInv, Disk
  <2> HIDE DEF Finalized, Confirmed
  <2> USE DEF ArchiveOf!Next, ArchiveOf!archiveVars
  <2>2. CASE Finalized' = Finalized /\ Confirmed' = Confirmed
    BY <2>1, <2>2
  <2>3. ASSUME NEW d \in Doc, d \notin Finalized,
               \A e \in Finalized : FileOf[e] # FileOf[d],
               Finalized' = Finalized \cup {d}, Confirmed' = Confirmed
        PROVE  \E batch \in SUBSET Doc : ArchiveOf!Accept(batch)
    <3>1. ArchiveOf!Accept({d})
      BY <2>1, <2>3 DEF ArchiveOf!Accept
    <3> QED
      BY <3>1
  <2>4. ASSUME NEW d \in Finalized,
               Confirmed' = Confirmed \cup {d}, Finalized' = Finalized
        PROVE  \E batch \in SUBSET Doc : ArchiveOf!Confirm(batch)
    <3>1. ArchiveOf!Confirm({d})
      BY <2>1, <2>4 DEF ArchiveOf!Confirm
    <3> QED
      BY <2>1, <3>1
  <2>5. ASSUME NEW d \in Finalized \ Confirmed,
               Finalized' = Finalized \ {d}, Confirmed' = Confirmed
        PROVE  \E batch \in SUBSET Doc : ArchiveOf!Withdraw(batch)
    <3>1. ArchiveOf!Withdraw({d})
      BY <2>1, <2>5 DEF ArchiveOf!Withdraw
    <3> QED
      BY <2>1, <3>1
  <2> QED
    BY <2>2, <2>3, <2>4, <2>5, StepOfSets
<1> QED
  BY <1>1, <1>2, InvariantHolds, PTL DEF Spec, ImplementsArchive, ArchiveOf!Spec
=============================================================================
