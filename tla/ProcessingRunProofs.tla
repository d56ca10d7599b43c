------------------------- MODULE ProcessingRunProofs -------------------------
(***************************************************************************)
(* Proofs about ProcessingRun, for any documents, runs, requests, limits   *)
(* and number of faults, when triggers come one at a time.                 *)
(***************************************************************************)
EXTENDS ProcessingRun, FiniteSets, FiniteSetTheorems, TLAPS

(***************************************************************************)
(* The inductive invariant.  Alone: one trigger or loop is at work, and it *)
(* knows which run is in progress.  Requested: what a request owes to the  *)
(* loop that waits for it.  Settled: of a document whose reports all come  *)
(* in time, what the steps are while its loop marks them, waits for them   *)
(* and receives them twice.                                                *)
(***************************************************************************)
Alone ==
  /\ \A r, q \in Run : pc[r] # "idle" /\ pc[q] # "idle" => r = q
  /\ \A r \in Run : pc[r] \in Triggering => \A q \in Run : runStatus[q] # "in_progress"
  /\ \A r \in Run : pc[r] \in Looping =>
       \A q \in Run : runStatus[q] = "in_progress" <=> q = r

\* What Python reports: steps it was asked for, and chunks only with the
\* success of the embedding step.
Sound(report, steps) ==
  /\ DOMAIN report.results \subseteq steps
  /\ report.embedded => /\ "embedding_generation" \in DOMAIN report.results
                        /\ report.results["embedding_generation"] = "completed"

AtMostOne(S) == \A x, y \in S : x = y

Requested(c) ==
  /\ call[c].phase = "idle" => call[c].doc = {} /\ call[c].for = {}
  /\ AtMostOne(call[c].doc) /\ AtMostOne(call[c].report)
  /\ \A report \in call[c].report : Sound(report, call[c].asked)
  /\ call[c].phase = "posting" => call[c].tries > 0
  /\ \A r \in call[c].for :
       /\ pc[r] = "waiting"
       /\ \A e \in Call : r \in call[e].for => e = c

Settled(d) ==
  /\ \A post \in late : post.doc # d
  /\ \A c \in Call : d \in call[c].doc /\ call[c].phase \in {"working", "posting"} =>
       call[c].for # {} /\ \A s \in call[c].asked : step[d][s] = "running"
  /\ \A c \in Call : d \in call[c].doc /\ call[c].phase = "answering" /\ call[c].for # {} =>
       \A report \in call[c].report : \A s \in DOMAIN report.results :
         step[d][s] = report.results[s]
  /\ \A r \in Run : d \in target[r] =>
       /\ pc[r] = "listed" => \A s \in asked[r] : step[d][s] \in {"pending", "failed"}
       /\ pc[r] = "marked" => \A s \in asked[r] : step[d][s] = "running"
  /\ chunks[d] > 0 => step[d]["embedding_generation"] = "completed"

IInv ==
  /\ TypeOK
  /\ Alone
  /\ \A r \in Run : AtMostOne(target[r])
  /\ \A c \in Call : Requested(c)
  /\ stale \subseteq Running
  /\ \A d \in Doc \ abandoned : Settled(d)

-----------------------------------------------------------------------------
(* What Python can report.                                                 *)

\* A report has the statuses of some steps, all of them completed or failed.
LEMMA ReportShape ==
  ASSUME NEW report \in Report
  PROVE  /\ DOMAIN report.results \subseteq Step
         /\ \A s \in DOMAIN report.results : report.results[s] \in {"completed", "failed"}
         /\ report.flagged \in BOOLEAN /\ report.embedded \in BOOLEAN
<1>1. PICK steps \in SUBSET Step : report.results \in [steps -> {"completed", "failed"}]
  BY DEF Report
<1> QED
  BY <1>1 DEF Report

\* The record that HaltedReports and FullReport build is a report.
LEMMA ReportBuilt ==
  ASSUME NEW steps \in SUBSET Step, NEW results \in [steps -> {"completed", "failed"}],
         NEW flag \in BOOLEAN, NEW embedded \in BOOLEAN
  PROVE  [results |-> results, flagged |-> flag, embedded |-> embedded] \in Report
BY DEF Report

\* process reports steps that it was asked for, and no chunks without the
\* success of the embedding step, whether it halts after the extraction or not.
LEMMA ReportsAreSound ==
  ASSUME NEW steps \in SUBSET Step, NEW report \in Reports(steps)
  PROVE  report \in Report /\ Sound(report, steps)
<1>1. CASE report \in HaltedReports(steps)
  <2>1. PICK extraction \in steps \cap {"text_extraction"} :
          report = [results |-> [s \in {extraction} |-> "completed"],
                    flagged |-> TRUE, embedded |-> FALSE]
    BY <1>1 DEF HaltedReports
  <2>2. [s \in {extraction} |-> "completed"] \in [{extraction} -> {"completed", "failed"}]
    OBVIOUS
  <2>3. {extraction} \in SUBSET Step
    OBVIOUS
  <2>4. report \in Report
    BY <2>1, <2>2, <2>3, ReportBuilt
  <2> QED
    BY <2>1, <2>4 DEF Sound
<1>2. CASE report \in FullReports(steps)
  <2>1. PICK outcome \in Outcome :
          report \in {FullReport(steps, outcome, fails) :
                        fails \in MayFail(steps, HasText(steps, outcome))}
    BY <1>2 DEF FullReports
  <2>2. PICK fails \in BOOLEAN : report = FullReport(steps, outcome, fails)
    BY <2>1 DEF MayFail
  <2> DEFINE reported == ReportedSteps(steps, outcome)
             chunked == /\ "embedding_generation" \in reported
                        /\ outcome["embedding_generation"] = "completed"
  <2>3. reported \in SUBSET steps /\ reported \in SUBSET Step
    BY DEF ReportedSteps
  <2>4. Statuses(steps, outcome) \in [reported -> {"completed", "failed"}]
    BY DEF Statuses, Outcome
  <2>5. "embedding_generation" \in reported =>
          Statuses(steps, outcome)["embedding_generation"] = outcome["embedding_generation"]
    BY DEF Statuses, Fallible
  <2>6. report = [results |-> Statuses(steps, outcome), flagged |-> fails, embedded |-> chunked]
    BY <2>2 DEF FullReport
  <2>7. chunked \in BOOLEAN
    OBVIOUS
  <2> HIDE DEF reported
  <2>8. report \in Report
    BY <2>3, <2>4, <2>6, <2>7, ReportBuilt
  <2> QED
    BY <2>3, <2>4, <2>5, <2>6, <2>8 DEF Sound
<1> QED
  BY <1>1, <1>2 DEF Reports

-----------------------------------------------------------------------------
(* Types.                                                                  *)

\* What receiveProcessingResults does to each step and to the chunks.
LEMMA ReceivesEffect ==
  ASSUME TypeOK, NEW d \in Doc, NEW report \in Report, Receives(d, report)
  PROVE  /\ step' \in [Doc -> [Step -> {"pending", "running", "completed", "failed"}]]
         /\ attempts' \in [Doc -> [Step -> Nat]]
         /\ chunks' \in [Doc -> Nat]
         /\ stale' \subseteq stale
         /\ runStatus' = runStatus
         /\ \A e \in Doc, s \in Step : step'[e][s] =
              IF e = d /\ s \in DOMAIN report.results THEN report.results[s] ELSE step[e][s]
         /\ \A e \in Doc : chunks'[e] > 0 => chunks[e] > 0 \/ (e = d /\ report.embedded)
         /\ stale' = stale \ ({d} \X DOMAIN report.results)
<1>1. /\ DOMAIN report.results \subseteq Step
      /\ \A s \in DOMAIN report.results : report.results[s] \in {"completed", "failed"}
      /\ report.flagged \in BOOLEAN /\ report.embedded \in BOOLEAN
  BY ReportShape
<1>2. step' \in [Doc -> [Step -> {"pending", "running", "completed", "failed"}]]
  BY <1>1 DEF Receives, TypeOK
<1>3. attempts' \in [Doc -> [Step -> Nat]]
  BY <1>1 DEF Receives, TypeOK
<1>4. chunks' \in [Doc -> Nat]
  BY <1>1 DEF Receives, TypeOK
<1>5. \A e \in Doc, s \in Step : step'[e][s] =
        IF e = d /\ s \in DOMAIN report.results THEN report.results[s] ELSE step[e][s]
  BY <1>1 DEF Receives, TypeOK
<1>6. \A e \in Doc : chunks'[e] > 0 => chunks[e] > 0 \/ (e = d /\ report.embedded)
  BY <1>1 DEF Receives, TypeOK
<1> QED
  BY <1>2, <1>3, <1>4, <1>5, <1>6 DEF Receives

\* The states of a request stay well formed where a request is replaced, where
\* Python has built its report, and where it goes from one phase to the next.
LEMMA CallReplaced ==
  ASSUME TypeOK, NEW c \in Call, NEW k \in Calls, call' = [call EXCEPT ![c] = k]
  PROVE  call' \in [Call -> Calls]
BY DEF TypeOK

LEMMA RequestPosts ==
  ASSUME NEW k \in Calls, NEW report \in Report, NEW t \in 0..PostAttempts,
         NEW p \in {"posting"}
  PROVE  [k EXCEPT !.phase = p, !.report = {report}, !.tries = t] \in Calls
BY DEF Calls

LEMMA CallMoves ==
  ASSUME TypeOK, NEW c \in Call, NEW p \in {"answering", "failed"},
         call' = [call EXCEPT ![c].phase = p]
  PROVE  call' \in [Call -> Calls]
<1>1. [call[c] EXCEPT !.phase = p] \in Calls
  BY ZenonT(30) DEF TypeOK, Calls
<1> QED
  BY <1>1 DEF TypeOK

LEMMA CallTriesAgain ==
  ASSUME TypeOK, NEW c \in Call, TriesAgain(c), call[c].tries > 0
  PROVE  call' \in [Call -> Calls]
<1> DEFINE k(p) == [call[c] EXCEPT !.tries = call[c].tries - 1, !.phase = p]
<1>1. call[c] \in Calls /\ call[c].tries - 1 \in 0..PostAttempts
  BY ProcessingAssumption DEF TypeOK, Calls
<1>2. k("failed") \in Calls /\ k("posting") \in Calls
  BY <1>1 DEF Calls
<1>3. call' = [call EXCEPT ![c] = k("failed")] \/ call' = [call EXCEPT ![c] = k("posting")]
  BY DEF TriesAgain, TypeOK
<1> QED
  BY <1>2, <1>3, CallReplaced

LEMMA NoCallTyped == NoCall \in Calls
BY ProcessingAssumption DEF NoCall, Calls

LEMMA TypeInit == Init => TypeOK
BY ProcessingAssumption DEF Init, TypeOK, NoCall, Calls

LEMMA TypeStep ==
  ASSUME TypeOK, \A c \in Call : Requested(c), [Next]_vars
  PROVE  TypeOK'
<1> USE ProcessingAssumption DEF TypeOK, Triggering, Looping, tables, loop, python
<1>1. ASSUME NEW r \in Run, TriggerChecks(r)
      PROVE  TypeOK'
  BY <1>1 DEF TriggerChecks, Moves
<1>2. ASSUME NEW r \in Run, TriggerResets(r)
      PROVE  TypeOK'
  BY <1>2 DEF TriggerResets, Moves
<1>3. ASSUME NEW r \in Run, TriggerQueues(r)
      PROVE  TypeOK'
  BY <1>3 DEF TriggerQueues, Moves
<1>4. ASSUME NEW r \in Run, TriggerCreates(r)
      PROVE  TypeOK'
  BY <1>4 DEF TriggerCreates, Moves
<1>5. ASSUME NEW r \in Run, TriggerFaults(r)
      PROVE  TypeOK'
  BY <1>5 DEF TriggerFaults, Moves, Fails
<1>6. ASSUME NEW r \in Run, NEW d \in Doc, LoopLists(r, d)
      PROVE  TypeOK'
  BY <1>6 DEF LoopLists, Moves, Incomplete
<1>7. ASSUME NEW r \in Run, LoopMarks(r)
      PROVE  TypeOK'
  BY <1>7 DEF LoopMarks, Moves
<1>8. ASSUME NEW r \in Run, NEW c \in Call, LoopCalls(r, c)
      PROVE  TypeOK'
  <2> DEFINE k == [phase |-> "working", doc |-> target[r], asked |-> asked[r],
                   report |-> {}, tries |-> 0, for |-> {r}]
  <2>1. k \in Calls
    BY DEF Calls
  <2>2. call' = [call EXCEPT ![c] = k]
    BY <1>8 DEF LoopCalls
  <2>3. call' \in [Call -> Calls]
    BY <2>1, <2>2, CallReplaced
  <2> QED
    BY <1>8, <2>3 DEF LoopCalls, Moves
<1>9. ASSUME NEW r \in Run, NEW c \in Call, LoopReceives(r, c)
      PROVE  TypeOK'
  <2>0. call' \in [Call -> Calls]
    BY <1>9, NoCallTyped, CallReplaced DEF LoopReceives
  <2>1. /\ call' \in [Call -> Calls] /\ faults' \in 0..MaxFaults
        /\ target' \in [Run -> SUBSET Doc] /\ asked' \in [Run -> SUBSET Step]
        /\ errored' \in [Run -> BOOLEAN] /\ pc' \in [Run -> {"idle"} \cup Triggering \cup Looping]
    <3>1. faults' \in 0..MaxFaults /\ errored' \in [Run -> BOOLEAN]
      <4>1. \/ errored' = [errored EXCEPT ![r] = FALSE] /\ faults' = faults
            \/ errored' = errored /\ faults < MaxFaults /\ faults' = faults + 1
        BY <1>9 DEF LoopReceives, Fails
      <4>2. CASE errored' = [errored EXCEPT ![r] = FALSE] /\ faults' = faults
        BY <4>2
      <4>3. CASE errored' = errored /\ faults < MaxFaults /\ faults' = faults + 1
        BY <4>3
      <4> QED
        BY <4>1, <4>2, <4>3
    <3>2. pc' \in [Run -> {"idle"} \cup Triggering \cup Looping]
      BY <1>9 DEF LoopReceives, Moves
    <3>3. target' \in [Run -> SUBSET Doc] /\ asked' \in [Run -> SUBSET Step]
      BY <1>9 DEF LoopReceives
    <3> QED
      BY <2>0, <3>1, <3>2, <3>3
  <2>2. CASE UNCHANGED tables
    BY <1>9, <2>1, <2>2 DEF LoopReceives
  <2>3. ASSUME NEW d \in call[c].doc, NEW report \in call[c].report, Receives(d, report)
        PROVE  TypeOK'
    <3>1. d \in Doc /\ report \in Report
      BY DEF Calls
    <3> HIDE DEF TypeOK
    <3>2. /\ step' \in [Doc -> [Step -> {"pending", "running", "completed", "failed"}]]
          /\ attempts' \in [Doc -> [Step -> Nat]] /\ chunks' \in [Doc -> Nat]
          /\ stale' \subseteq stale /\ runStatus' = runStatus
      BY <2>3, <3>1, ReceivesEffect
    <3> QED
      BY <1>9, <2>1, <3>2 DEF LoopReceives, TypeOK
  <2> QED
    BY <1>9, <2>2, <2>3 DEF LoopReceives
<1>10. ASSUME NEW r \in Run, NEW c \in Call, LoopFails(r, c)
      PROVE  TypeOK'
  <2>1. call' \in [Call -> Calls]
    BY <1>10, NoCallTyped, CallReplaced DEF LoopFails
  <2> QED
    BY <1>10, <2>1 DEF LoopFails, LoopSkips, Moves
<1>11. ASSUME NEW r \in Run, LoopFaults(r)
      PROVE  TypeOK'
  <2>1. \A c \in Call : [call[c] EXCEPT !.for = @ \ {r}] \in Calls
    BY ZenonT(30) DEF Calls
  <2>2. call' \in [Call -> Calls]
    BY <1>11, <2>1 DEF LoopFaults
  <2>3. abandoned' \subseteq Doc
    BY <1>11 DEF LoopFaults, Abandons, Calls
  <2> QED
    BY <1>11, <2>2, <2>3 DEF LoopFaults, LoopSkips, Moves, Fails
<1>12. ASSUME NEW r \in Run, LoopEnds(r)
      PROVE  TypeOK'
  BY <1>12 DEF LoopEnds, Moves
<1>13. ASSUME NEW c \in Call, PythonProcesses(c)
      PROVE  TypeOK'
  <2>1. PICK report \in Reports(call[c].asked) :
          call' = [call EXCEPT ![c].phase = "posting", ![c].report = {report},
                               ![c].tries = PostAttempts]
    BY <1>13 DEF PythonProcesses
  <2>2. call[c] \in Calls /\ call[c].asked \in SUBSET Step
    BY DEF Calls
  <2>3. report \in Report
    BY <2>2, ReportsAreSound
  <2> DEFINE k == [call[c] EXCEPT !.phase = "posting", !.report = {report},
                                  !.tries = PostAttempts]
  <2>5. k \in Calls
    <3>1. \A j \in Calls, t \in 0..PostAttempts, p \in {"posting"} :
            [j EXCEPT !.phase = p, !.report = {report}, !.tries = t] \in Calls
      BY <2>3, RequestPosts
    <3>2. "posting" \in {"posting"} /\ PostAttempts \in 0..PostAttempts
      OBVIOUS
    <3> QED
      BY <2>2, <3>1, <3>2, Zenon
  <2>6. call' = [call EXCEPT ![c] = k]
    BY <2>1, <2>2
  <2>4. call' \in [Call -> Calls]
    BY <2>5, <2>6, CallReplaced
  <2> QED
    BY <1>13, <2>4 DEF PythonProcesses
<1>14. ASSUME NEW c \in Call, PythonPosts(c)
      PROVE  TypeOK'
  <2>1. PICK d \in call[c].doc, report \in call[c].report : Receives(d, report)
    BY <1>14 DEF PythonPosts
  <2>2. d \in Doc /\ report \in Report
    BY DEF Calls
  <2>3. call' \in [Call -> Calls]
    BY <1>14, CallMoves DEF PythonPosts
  <2> HIDE DEF TypeOK
  <2>4. /\ step' \in [Doc -> [Step -> {"pending", "running", "completed", "failed"}]]
        /\ attempts' \in [Doc -> [Step -> Nat]] /\ chunks' \in [Doc -> Nat]
        /\ stale' \subseteq stale /\ runStatus' = runStatus
    BY <2>1, <2>2, ReceivesEffect
  <2> QED
    BY <1>14, <2>3, <2>4 DEF PythonPosts, TypeOK
<1>15. ASSUME NEW c \in Call, PythonPostFails(c)
      PROVE  TypeOK'
  <2>1. call[c].tries > 0
    BY <1>15 DEF PythonPostFails, Requested
  <2>2. call' \in [Call -> Calls]
    BY <1>15, <2>1, CallTriesAgain DEF PythonPostFails
  <2> QED
    BY <1>15, <2>2 DEF PythonPostFails, Fails
<1>16. ASSUME NEW c \in Call, PythonIsAlone(c)
      PROVE  TypeOK'
  <2>1. call' \in [Call -> Calls]
    BY <1>16, NoCallTyped, CallReplaced DEF PythonIsAlone
  <2> QED
    BY <1>16, <2>1 DEF PythonIsAlone
<1>17. ASSUME NEW c \in Call, PythonPostTimesOut(c)
      PROVE  TypeOK'
  <2>1. call[c] \in Calls /\ call[c].tries \in 1..PostAttempts
    BY <1>17 DEF PythonPostTimesOut, Requested, Calls
  <2>2. call' \in [Call -> Calls]
    BY <1>17, <2>1, CallTriesAgain DEF PythonPostTimesOut
  <2>3. late' \subseteq [doc : Doc, report : Report, tries : 1..PostAttempts]
    BY <1>17, <2>1 DEF PythonPostTimesOut, Calls
  <2>4. abandoned' \subseteq Doc
    BY <1>17, <2>1 DEF PythonPostTimesOut, Calls
  <2> QED
    BY <1>17, <2>2, <2>3, <2>4 DEF PythonPostTimesOut, Fails
<1>18. ASSUME NEW c \in Call, PythonFaults(c) \/ PythonRaises(c)
      PROVE  TypeOK'
  <2>1. call' \in [Call -> Calls]
    BY <1>18, CallMoves DEF PythonFaults, PythonRaises, CallFails
  <2> QED
    BY <1>18, <2>1 DEF PythonFaults, PythonRaises, CallFails, Fails
<1>19. ASSUME NEW post \in late, LateArrives(post)
      PROVE  TypeOK'
  <2>1. post.doc \in Doc /\ post.report \in Report
    OBVIOUS
  <2> HIDE DEF TypeOK
  <2>2. /\ step' \in [Doc -> [Step -> {"pending", "running", "completed", "failed"}]]
        /\ attempts' \in [Doc -> [Step -> Nat]] /\ chunks' \in [Doc -> Nat]
        /\ stale' \subseteq stale /\ runStatus' = runStatus
    BY <1>19, <2>1, ReceivesEffect DEF LateArrives
  <2> QED
    BY <1>19, <2>2 DEF LateArrives, TypeOK
<1>21. CASE TimePasses
  BY <1>21 DEF TimePasses, Running
<1>22. CASE Crash
  <2>1. \A c \in Call : [call[c] EXCEPT !.for = {}] \in Calls
    BY ZenonT(30) DEF Calls
  <2>2. call' \in [Call -> Calls]
    BY <1>22, <2>1 DEF Crash
  <2>3. abandoned' \subseteq Doc
    BY <1>22 DEF Crash, Abandons, Calls
  <2> QED
    BY <1>22, <2>2, <2>3 DEF Crash, Fails
<1>23. CASE Restart
  BY <1>23 DEF Restart
<1>24. CASE UNCHANGED vars
  BY <1>24 DEF vars
<1> QED
  BY <1>1, <1>2, <1>3, <1>4, <1>5, <1>6, <1>7, <1>8, <1>9, <1>10, <1>11, <1>12, <1>13, <1>14,
     <1>15, <1>16, <1>17, <1>18, <1>19, <1>21, <1>22, <1>23, <1>24
     DEF Next, TriggerStep, LoopStep, PythonStep

-----------------------------------------------------------------------------
(* One trigger or loop is at work.                                      *)

\* triggerProcessing refuses a second run, and the runs that a loop works on is the
\* one that it has created.
LEMMA AloneStep ==
  ASSUME OneTrigger, TypeOK, Alone, [Next]_vars
  PROVE  Alone'
<1> USE DEF TypeOK, Alone, Triggering, Looping, tables, loop, python
<1>1. ASSUME NEW r \in Run, TriggerChecks(r)
      PROVE  Alone'
  BY <1>1 DEF TriggerChecks, Moves
<1>2. ASSUME NEW r \in Run, TriggerResets(r)
      PROVE  Alone'
  BY <1>2 DEF TriggerResets, Moves
<1>3. ASSUME NEW r \in Run, TriggerQueues(r)
      PROVE  Alone'
  BY <1>3 DEF TriggerQueues, Moves
<1>4. ASSUME NEW r \in Run, TriggerCreates(r)
      PROVE  Alone'
  BY <1>4 DEF TriggerCreates, Moves
<1>5. ASSUME NEW r \in Run, TriggerFaults(r)
      PROVE  Alone'
  BY <1>5 DEF TriggerFaults, Moves
<1>6. ASSUME NEW r \in Run, NEW d \in Doc, LoopLists(r, d)
      PROVE  Alone'
  BY <1>6 DEF LoopLists, Moves
<1>7. ASSUME NEW r \in Run, LoopMarks(r)
      PROVE  Alone'
  BY <1>7 DEF LoopMarks, Moves
<1>8. ASSUME NEW r \in Run, NEW c \in Call, LoopCalls(r, c)
      PROVE  Alone'
  BY <1>8 DEF LoopCalls, Moves
<1>9. ASSUME NEW r \in Run, NEW c \in Call, LoopReceives(r, c)
      PROVE  Alone'
  BY <1>9 DEF LoopReceives, Moves, Receives
<1>10. ASSUME NEW r \in Run, NEW c \in Call, LoopFails(r, c)
      PROVE  Alone'
  BY <1>10 DEF LoopFails, Moves, LoopSkips
<1>11. ASSUME NEW r \in Run, LoopFaults(r)
      PROVE  Alone'
  BY <1>11 DEF LoopFaults, Moves, LoopSkips
<1>12. ASSUME NEW r \in Run, LoopEnds(r)
      PROVE  Alone'
  BY <1>12 DEF LoopEnds, Moves
<1>13. ASSUME NEW c \in Call, PythonProcesses(c)
      PROVE  Alone'
  BY <1>13 DEF PythonProcesses
<1>14. ASSUME NEW c \in Call, PythonPosts(c)
      PROVE  Alone'
  BY <1>14 DEF PythonPosts, Receives
<1>15. ASSUME NEW c \in Call, PythonPostFails(c)
      PROVE  Alone'
  BY <1>15 DEF PythonPostFails
<1>16. ASSUME NEW c \in Call, PythonIsAlone(c)
      PROVE  Alone'
  BY <1>16 DEF PythonIsAlone
<1>17. ASSUME NEW c \in Call, PythonPostTimesOut(c)
      PROVE  Alone'
  BY <1>17 DEF PythonPostTimesOut
<1>18. ASSUME NEW c \in Call, PythonFaults(c) \/ PythonRaises(c)
      PROVE  Alone'
  BY <1>18 DEF PythonFaults, PythonRaises, CallFails
<1>19. ASSUME NEW post \in late, LateArrives(post)
      PROVE  Alone'
  BY <1>19 DEF LateArrives, Receives
<1>21. CASE TimePasses
  BY <1>21 DEF TimePasses
<1>22. CASE Crash
  BY <1>22 DEF Crash
<1>23. CASE Restart
  BY <1>23 DEF Restart
<1>24. CASE UNCHANGED vars
  BY <1>24 DEF vars
<1> QED
  BY <1>1, <1>2, <1>3, <1>4, <1>5, <1>6, <1>7, <1>8, <1>9, <1>10, <1>11, <1>12, <1>13, <1>14,
     <1>15, <1>16, <1>17, <1>18, <1>19, <1>21, <1>22, <1>23, <1>24
     DEF Next, TriggerStep, LoopStep, PythonStep

\* A loop is at one document at most.
LEMMA TargetStep ==
  ASSUME TypeOK, \A r \in Run : AtMostOne(target[r]), [Next]_vars
  PROVE  \A q \in Run : AtMostOne(target'[q])
<1> USE DEF TypeOK, AtMostOne, loop, python
<1>1. ASSUME NEW r \in Run, TriggerChecks(r)
      PROVE  \A q \in Run : AtMostOne(target'[q])
  BY <1>1 DEF TriggerChecks
<1>2. ASSUME NEW r \in Run, TriggerResets(r)
      PROVE  \A q \in Run : AtMostOne(target'[q])
  BY <1>2 DEF TriggerResets
<1>3. ASSUME NEW r \in Run, TriggerQueues(r)
      PROVE  \A q \in Run : AtMostOne(target'[q])
  BY <1>3 DEF TriggerQueues
<1>4. ASSUME NEW r \in Run, TriggerCreates(r)
      PROVE  \A q \in Run : AtMostOne(target'[q])
  BY <1>4 DEF TriggerCreates
<1>5. ASSUME NEW r \in Run, TriggerFaults(r)
      PROVE  \A q \in Run : AtMostOne(target'[q])
  BY <1>5 DEF TriggerFaults
<1>6. ASSUME NEW r \in Run, NEW d \in Doc, LoopLists(r, d)
      PROVE  \A q \in Run : AtMostOne(target'[q])
  BY <1>6 DEF LoopLists
<1>7. ASSUME NEW r \in Run, LoopMarks(r)
      PROVE  \A q \in Run : AtMostOne(target'[q])
  BY <1>7 DEF LoopMarks
<1>8. ASSUME NEW r \in Run, NEW c \in Call, LoopCalls(r, c)
      PROVE  \A q \in Run : AtMostOne(target'[q])
  BY <1>8 DEF LoopCalls
<1>9. ASSUME NEW r \in Run, NEW c \in Call, LoopReceives(r, c)
      PROVE  \A q \in Run : AtMostOne(target'[q])
  BY <1>9 DEF LoopReceives
<1>10. ASSUME NEW r \in Run, NEW c \in Call, LoopFails(r, c)
      PROVE  \A q \in Run : AtMostOne(target'[q])
  BY <1>10 DEF LoopFails, LoopSkips
<1>11. ASSUME NEW r \in Run, LoopFaults(r)
      PROVE  \A q \in Run : AtMostOne(target'[q])
  BY <1>11 DEF LoopFaults, LoopSkips
<1>12. ASSUME NEW r \in Run, LoopEnds(r)
      PROVE  \A q \in Run : AtMostOne(target'[q])
  BY <1>12 DEF LoopEnds
<1>13. ASSUME NEW c \in Call, PythonProcesses(c)
      PROVE  \A q \in Run : AtMostOne(target'[q])
  BY <1>13 DEF PythonProcesses
<1>14. ASSUME NEW c \in Call, PythonPosts(c)
      PROVE  \A q \in Run : AtMostOne(target'[q])
  BY <1>14 DEF PythonPosts
<1>15. ASSUME NEW c \in Call, PythonPostFails(c)
      PROVE  \A q \in Run : AtMostOne(target'[q])
  BY <1>15 DEF PythonPostFails
<1>16. ASSUME NEW c \in Call, PythonIsAlone(c)
      PROVE  \A q \in Run : AtMostOne(target'[q])
  BY <1>16 DEF PythonIsAlone
<1>17. ASSUME NEW c \in Call, PythonPostTimesOut(c)
      PROVE  \A q \in Run : AtMostOne(target'[q])
  BY <1>17 DEF PythonPostTimesOut
<1>18. ASSUME NEW c \in Call, PythonFaults(c) \/ PythonRaises(c)
      PROVE  \A q \in Run : AtMostOne(target'[q])
  BY <1>18 DEF PythonFaults, PythonRaises, CallFails
<1>19. ASSUME NEW post \in late, LateArrives(post)
      PROVE  \A q \in Run : AtMostOne(target'[q])
  BY <1>19 DEF LateArrives
<1>21. CASE TimePasses
  BY <1>21 DEF TimePasses
<1>22. CASE Crash
  BY <1>22 DEF Crash
<1>23. CASE Restart
  BY <1>23 DEF Restart
<1>24. CASE UNCHANGED vars
  BY <1>24 DEF vars
<1> QED
  BY <1>1, <1>2, <1>3, <1>4, <1>5, <1>6, <1>7, <1>8, <1>9, <1>10, <1>11, <1>12, <1>13, <1>14,
     <1>15, <1>16, <1>17, <1>18, <1>19, <1>21, <1>22, <1>23, <1>24
     DEF Next, TriggerStep, LoopStep, PythonStep

\* receiveProcessingResults ends the steps that it reports.
LEMMA ReceivedStale ==
  ASSUME TypeOK, stale \subseteq Running, NEW d \in Doc, NEW report \in Report, Receives(d, report)
  PROVE  stale' \subseteq Running'
<1>1. /\ \A e \in Doc, s \in Step : step'[e][s] =
           IF e = d /\ s \in DOMAIN report.results THEN report.results[s] ELSE step[e][s]
      /\ stale' = stale \ ({d} \X DOMAIN report.results)
  BY ReceivesEffect
<1> QED
  BY <1>1 DEF Running, TypeOK

\* Only running steps can be stale.
LEMMA StaleStep ==
  ASSUME TypeOK, stale \subseteq Running, [Next]_vars
  PROVE  stale' \subseteq Running'
<1> USE DEF TypeOK, Running, tables
<1>1. ASSUME NEW r \in Run, TriggerChecks(r)
      PROVE  stale' \subseteq Running'
  BY <1>1 DEF TriggerChecks
<1>2. ASSUME NEW r \in Run, TriggerResets(r)
      PROVE  stale' \subseteq Running'
  BY <1>2 DEF TriggerResets
<1>3. ASSUME NEW r \in Run, TriggerQueues(r)
      PROVE  stale' \subseteq Running'
  BY <1>3 DEF TriggerQueues
<1>4. ASSUME NEW r \in Run, TriggerCreates(r)
      PROVE  stale' \subseteq Running'
  BY <1>4 DEF TriggerCreates
<1>5. ASSUME NEW r \in Run, TriggerFaults(r)
      PROVE  stale' \subseteq Running'
  BY <1>5 DEF TriggerFaults
<1>6. ASSUME NEW r \in Run, NEW d \in Doc, LoopLists(r, d)
      PROVE  stale' \subseteq Running'
  BY <1>6 DEF LoopLists
<1>7. ASSUME NEW r \in Run, LoopMarks(r)
      PROVE  stale' \subseteq Running'
  BY <1>7 DEF LoopMarks
<1>8. ASSUME NEW r \in Run, NEW c \in Call, LoopCalls(r, c)
      PROVE  stale' \subseteq Running'
  BY <1>8 DEF LoopCalls
<1>9. ASSUME NEW r \in Run, NEW c \in Call, LoopReceives(r, c)
      PROVE  stale' \subseteq Running'
  <2>1. CASE UNCHANGED tables
    BY <2>1 DEF tables
  <2>2. ASSUME NEW d \in call[c].doc, NEW report \in call[c].report, Receives(d, report)
        PROVE  stale' \subseteq Running'
    <3>1. d \in Doc /\ report \in Report
      BY DEF TypeOK, Calls
    <3> QED
      BY <2>2, <3>1, ReceivedStale
  <2> QED
    BY <1>9, <2>1, <2>2 DEF LoopReceives
<1>10. ASSUME NEW r \in Run, NEW c \in Call, LoopFails(r, c)
      PROVE  stale' \subseteq Running'
  BY <1>10 DEF LoopFails, LoopSkips
<1>11. ASSUME NEW r \in Run, LoopFaults(r)
      PROVE  stale' \subseteq Running'
  BY <1>11 DEF LoopFaults, LoopSkips
<1>12. ASSUME NEW r \in Run, LoopEnds(r)
      PROVE  stale' \subseteq Running'
  BY <1>12 DEF LoopEnds
<1>13. ASSUME NEW c \in Call, PythonProcesses(c)
      PROVE  stale' \subseteq Running'
  BY <1>13 DEF PythonProcesses
<1>14. ASSUME NEW c \in Call, PythonPosts(c)
      PROVE  stale' \subseteq Running'
  <2>1. PICK d \in call[c].doc, report \in call[c].report : Receives(d, report)
    BY <1>14 DEF PythonPosts
  <2>2. d \in Doc /\ report \in Report
    BY DEF TypeOK, Calls
  <2> QED
    BY <2>1, <2>2, ReceivedStale
<1>15. ASSUME NEW c \in Call, PythonPostFails(c)
      PROVE  stale' \subseteq Running'
  BY <1>15 DEF PythonPostFails
<1>16. ASSUME NEW c \in Call, PythonIsAlone(c)
      PROVE  stale' \subseteq Running'
  BY <1>16 DEF PythonIsAlone
<1>17. ASSUME NEW c \in Call, PythonPostTimesOut(c)
      PROVE  stale' \subseteq Running'
  BY <1>17 DEF PythonPostTimesOut
<1>18. ASSUME NEW c \in Call, PythonFaults(c) \/ PythonRaises(c)
      PROVE  stale' \subseteq Running'
  BY <1>18 DEF PythonFaults, PythonRaises, CallFails
<1>19. ASSUME NEW post \in late, LateArrives(post)
      PROVE  stale' \subseteq Running'
  <2>1. post.doc \in Doc /\ post.report \in Report
    BY DEF TypeOK
  <2> QED
    BY <1>19, <2>1, ReceivedStale DEF LateArrives
<1>21. CASE TimePasses
  BY <1>21 DEF TimePasses
<1>22. CASE Crash
  BY <1>22 DEF Crash
<1>23. CASE Restart
  BY <1>23 DEF Restart
<1>24. CASE UNCHANGED vars
  BY <1>24 DEF vars
<1> QED
  BY <1>1, <1>2, <1>3, <1>4, <1>5, <1>6, <1>7, <1>8, <1>9, <1>10, <1>11, <1>12, <1>13, <1>14,
     <1>15, <1>16, <1>17, <1>18, <1>19, <1>21, <1>22, <1>23, <1>24
     DEF Next, TriggerStep, LoopStep, PythonStep

-----------------------------------------------------------------------------
(* The requests of Python.                                                 *)

\* A request is for one document and for at most one loop, which waits for no other;
\* it reports what it was asked for.
LEMMA RequestedStep ==
  ASSUME TypeOK, \A r \in Run : AtMostOne(target[r]),
         \A c \in Call : Requested(c), [Next]_vars
  PROVE  \A e \in Call : Requested(e)'
<1> USE DEF TypeOK, Calls, Requested, AtMostOne, tables, loop, python
<1>1. ASSUME NEW r \in Run, TriggerChecks(r)
      PROVE  \A e \in Call : Requested(e)'
  BY <1>1 DEF TriggerChecks, Moves
<1>2. ASSUME NEW r \in Run, TriggerResets(r)
      PROVE  \A e \in Call : Requested(e)'
  BY <1>2 DEF TriggerResets, Moves
<1>3. ASSUME NEW r \in Run, TriggerQueues(r)
      PROVE  \A e \in Call : Requested(e)'
  BY <1>3 DEF TriggerQueues, Moves
<1>4. ASSUME NEW r \in Run, TriggerCreates(r)
      PROVE  \A e \in Call : Requested(e)'
  BY <1>4 DEF TriggerCreates, Moves
<1>5. ASSUME NEW r \in Run, TriggerFaults(r)
      PROVE  \A e \in Call : Requested(e)'
  <2>1. pc[r] # "waiting" /\ pc' = [pc EXCEPT ![r] = "idle"] /\ call' = call
    BY <1>5 DEF TriggerFaults, Moves, Triggering
  <2> QED
    BY <2>1
<1>6. ASSUME NEW r \in Run, NEW d \in Doc, LoopLists(r, d)
      PROVE  \A e \in Call : Requested(e)'
  BY <1>6 DEF LoopLists, Moves
<1>7. ASSUME NEW r \in Run, LoopMarks(r)
      PROVE  \A e \in Call : Requested(e)'
  BY <1>7 DEF LoopMarks, Moves
<1>8. ASSUME NEW r \in Run, NEW c \in Call, LoopCalls(r, c)
      PROVE  \A e \in Call : Requested(e)'
  BY <1>8 DEF LoopCalls, Moves
<1>9. ASSUME NEW r \in Run, NEW c \in Call, LoopReceives(r, c)
      PROVE  \A e \in Call : Requested(e)'
  BY <1>9 DEF LoopReceives, Moves, NoCall
<1>10. ASSUME NEW r \in Run, NEW c \in Call, LoopFails(r, c)
      PROVE  \A e \in Call : Requested(e)'
  BY <1>10 DEF LoopFails, Moves, NoCall
<1>11. ASSUME NEW r \in Run, LoopFaults(r)
      PROVE  \A e \in Call : Requested(e)'
  <2>1. \A e \in Call :
          /\ call'[e].phase = call[e].phase /\ call'[e].doc = call[e].doc
          /\ call'[e].asked = call[e].asked /\ call'[e].report = call[e].report
          /\ call'[e].tries = call[e].tries /\ call'[e].for = call[e].for \ {r}
    BY <1>11 DEF LoopFaults
  <2>2. \A q \in Run \ {r} : pc'[q] = pc[q]
    BY <1>11 DEF LoopFaults, Moves
  <2> QED
    BY <2>1, <2>2
<1>12. ASSUME NEW r \in Run, LoopEnds(r)
      PROVE  \A e \in Call : Requested(e)'
  BY <1>12 DEF LoopEnds, Moves
<1>13. ASSUME NEW c \in Call, PythonProcesses(c)
      PROVE  \A e \in Call : Requested(e)'
  <2>1. PICK report \in Reports(call[c].asked) :
          call' = [call EXCEPT ![c].phase = "posting", ![c].report = {report},
                               ![c].tries = PostAttempts]
    BY <1>13 DEF PythonProcesses
  <2>2. call[c].asked \in SUBSET Step
    BY DEF Calls
  <2>3. Sound(report, call[c].asked)
    BY <2>2, ReportsAreSound
  <2>4. pc' = pc
    BY <1>13 DEF PythonProcesses
  <2> QED
    BY <2>1, <2>3, <2>4, ProcessingAssumption
<1>14. ASSUME NEW c \in Call, PythonPosts(c)
      PROVE  \A e \in Call : Requested(e)'
  BY <1>14 DEF PythonPosts
<1>15. ASSUME NEW c \in Call, PythonPostFails(c)
      PROVE  \A e \in Call : Requested(e)'
  BY <1>15 DEF PythonPostFails, TriesAgain
<1>16. ASSUME NEW c \in Call, PythonIsAlone(c)
      PROVE  \A e \in Call : Requested(e)'
  BY <1>16 DEF PythonIsAlone, NoCall
<1>17. ASSUME NEW c \in Call, PythonPostTimesOut(c)
      PROVE  \A e \in Call : Requested(e)'
  BY <1>17 DEF PythonPostTimesOut, TriesAgain
<1>18. ASSUME NEW c \in Call, PythonFaults(c) \/ PythonRaises(c)
      PROVE  \A e \in Call : Requested(e)'
  <2>1. CallFails(c) /\ call[c].phase \in {"working", "posting"}
    BY <1>18 DEF PythonFaults, PythonRaises
  <2>2. /\ call'[c].phase = "failed" /\ call'[c].doc = call[c].doc /\ call'[c].asked = call[c].asked
        /\ call'[c].report = call[c].report /\ call'[c].for = call[c].for
        /\ \A e \in Call \ {c} : call'[e] = call[e]
    BY <2>1 DEF CallFails
  <2>3. pc' = pc /\ \A e \in Call : call'[e].for = call[e].for
    BY <2>1, <2>2 DEF CallFails
  <2> QED
    BY <2>2, <2>3
<1>19. ASSUME NEW post \in late, LateArrives(post)
      PROVE  \A e \in Call : Requested(e)'
  BY <1>19 DEF LateArrives
<1>21. CASE TimePasses
  BY <1>21 DEF TimePasses
<1>22. CASE Crash
  <2>1. \A e \in Call :
          /\ call'[e].phase = call[e].phase /\ call'[e].doc = call[e].doc
          /\ call'[e].asked = call[e].asked /\ call'[e].report = call[e].report
          /\ call'[e].tries = call[e].tries /\ call'[e].for = {}
    BY <1>22 DEF Crash
  <2> QED
    BY <2>1
<1>23. CASE Restart
  BY <1>23 DEF Restart
<1>24. CASE UNCHANGED vars
  BY <1>24 DEF vars
<1> QED
  BY <1>1, <1>2, <1>3, <1>4, <1>5, <1>6, <1>7, <1>8, <1>9, <1>10, <1>11, <1>12, <1>13, <1>14,
     <1>15, <1>16, <1>17, <1>18, <1>19, <1>21, <1>22, <1>23, <1>24
     DEF Next, TriggerStep, LoopStep, PythonStep

-----------------------------------------------------------------------------
(* Documents whose reports come in time.                                   *)

\* While a trigger or a loop is at work, no request is waited for but its own.
LEMMA OneWaits ==
  ASSUME TypeOK, Alone, \A c \in Call : Requested(c)
  PROVE  /\ \A c, e \in Call : call[c].for # {} /\ call[e].for # {} => c = e
         /\ \A r \in Run, c \in Call : pc[r] \notin {"idle", "waiting"} => call[c].for = {}
<1>1. \A c \in Call : call[c].for \subseteq Run
  BY DEF TypeOK, Calls
<1>2. \A c \in Call : \A r \in call[c].for :
        pc[r] = "waiting" /\ \A e \in Call : r \in call[e].for => e = c
  BY DEF Requested
<1>3. \A r, q \in Run : pc[r] # "idle" /\ pc[q] # "idle" => r = q
  BY DEF Alone
<1>4. ASSUME NEW c \in Call, NEW e \in Call, call[c].for # {}, call[e].for # {}
      PROVE  c = e
  <2>1. PICK r \in call[c].for : TRUE
    BY <1>4
  <2>2. PICK q \in call[e].for : TRUE
    BY <1>4
  <2>3. r \in Run /\ q \in Run /\ pc[r] = "waiting" /\ pc[q] = "waiting"
    BY <1>1, <1>2
  <2> QED
    BY <1>2, <1>3, <2>3
<1>5. ASSUME NEW r \in Run, NEW c \in Call, pc[r] \notin {"idle", "waiting"}
      PROVE  call[c].for = {}
  <2> SUFFICES ASSUME NEW q \in call[c].for
               PROVE  FALSE
    OBVIOUS
  <2>1. q \in Run /\ pc[q] = "waiting"
    BY <1>1, <1>2
  <2> QED
    BY <1>3, <1>5, <2>1
<1> QED
  BY <1>4, <1>5

\* A document is never taken for one whose reports come in time again.
LEMMA AbandonedGrows == [Next]_vars => abandoned \subseteq abandoned'
BY DEF Next, vars, loop, tables, python, TriggerStep, LoopStep, PythonStep,
   TriggerChecks, TriggerResets, TriggerQueues, TriggerCreates, TriggerFaults,
   LoopLists, LoopMarks, LoopCalls, LoopReceives, LoopFails, LoopFaults, LoopEnds, Abandons,
   PythonProcesses, PythonPosts, PythonPostFails, PythonIsAlone, PythonPostTimesOut,
   PythonFaults, PythonRaises, CallFails, LateArrives, TimePasses, Crash, Restart

\* What a report leaves of a document that it is not about.
LEMMA ReceivedElsewhere ==
  ASSUME TypeOK, NEW d \in Doc, NEW report \in Report, Receives(d, report), NEW x \in Doc, x # d
  PROVE  step'[x] = step[x] /\ chunks'[x] = chunks[x]
BY DEF Receives, TypeOK

\* The document stays settled where its steps and its chunks are left alone, no
\* POST about it becomes late, no loop takes it up, and each request about it is
\* dropped, fails, or goes on for the loop that waits for it.
LEMMA SettledKept ==
  ASSUME NEW x \in Doc, Settled(x), step'[x] = step[x],
         chunks'[x] > 0 => chunks[x] > 0 \/ step[x]["embedding_generation"] = "completed",
         \A post \in late' : post.doc # x,
         \A c \in Call : x \in call'[c].doc =>
           \/ call'[c].phase \in {"idle", "failed"}
           \/ /\ call'[c].phase \in {"working", "posting"} /\ x \in call[c].doc
              /\ call[c].phase \in {"working", "posting"}
              /\ call'[c].asked = call[c].asked /\ call'[c].for = call[c].for
           \/ /\ call'[c].phase = "answering" /\ call[c].phase = "answering"
              /\ x \in call[c].doc /\ call'[c].report = call[c].report
              /\ call'[c].for \subseteq call[c].for,
         \A r \in Run : x \in target'[r] /\ pc'[r] \in {"listed", "marked"} =>
           x \in target[r] /\ pc'[r] = pc[r] /\ asked'[r] = asked[r]
  PROVE  Settled(x)'
<1>1. \A c \in Call : x \in call'[c].doc /\ call'[c].phase \in {"working", "posting"} =>
        call'[c].for # {} /\ \A s \in call'[c].asked : step'[x][s] = "running"
  BY DEF Settled
<1>2. \A c \in Call : x \in call'[c].doc /\ call'[c].phase = "answering" /\ call'[c].for # {} =>
        \A report \in call'[c].report : \A s \in DOMAIN report.results :
          step'[x][s] = report.results[s]
  BY DEF Settled
<1>3. \A r \in Run : x \in target'[r] =>
        /\ pc'[r] = "listed" => \A s \in asked'[r] : step'[x][s] \in {"pending", "failed"}
        /\ pc'[r] = "marked" => \A s \in asked'[r] : step'[x][s] = "running"
  BY DEF Settled
<1> QED
  BY <1>1, <1>2, <1>3 DEF Settled

\* The steps of a document whose reports come in time are changed by its loop alone.
LEMMA SettledStep ==
  ASSUME OneTrigger, TypeOK, Alone, \A r \in Run : AtMostOne(target[r]),
         \A c \in Call : Requested(c), stale \subseteq Running,
         NEW x \in Doc \ abandoned', Settled(x), [Next]_vars
  PROVE  Settled(x)'
<1>0. /\ \A c, e \in Call : call[c].for # {} /\ call[e].for # {} => c = e
      /\ \A r \in Run, c \in Call : pc[r] \notin {"idle", "waiting"} => call[c].for = {}
  BY OneWaits
<1>0a. /\ x \in Doc /\ \A post \in late : post.doc # x
       /\ \A c \in Call : call[c].phase \in {"idle", "working", "posting", "answering", "failed"}
       /\ call \in [Call -> Calls] /\ pc \in [Run -> {"idle"} \cup Triggering \cup Looping]
  BY DEF Settled, TypeOK, Calls
<1> USE DEF tables, loop, python
<1>1. ASSUME NEW r \in Run, TriggerChecks(r)
      PROVE  Settled(x)'
  BY <1>1, <1>0a, SettledKept DEF TriggerChecks, Moves
<1>2. ASSUME NEW r \in Run, TriggerResets(r)
      PROVE  Settled(x)'
  <2>1. /\ pc[r] = "checked" /\ pc' = [pc EXCEPT ![r] = "reset"] /\ late' = late
        /\ call' = call /\ target' = target /\ asked' = asked /\ chunks' = chunks
    BY <1>2 DEF TriggerResets, Moves
  <2>2. \A e \in Call : x \in call[e].doc => call[e].phase \notin {"working", "posting"}
    BY <1>0, <2>1 DEF Settled
  <2>3. \A e \in Call : call[e].for = {}
    BY <1>0, <2>1
  <2>4. \A q \in Run : pc'[q] \notin {"listed", "marked"}
    BY <1>0a, <2>1 DEF Alone
  <2>5. ASSUME chunks[x] > 0
        PROVE  step'[x]["embedding_generation"] = "completed"
    <3>1. step[x]["embedding_generation"] = "completed"
      BY <2>5 DEF Settled
    <3>2. <<x, "embedding_generation">> \notin stale
      BY <3>1 DEF Running
    <3> QED
      BY <1>2, <1>0a, <3>1, <3>2 DEF TriggerResets, Step
  <2> QED
    BY <1>0a, <2>1, <2>2, <2>3, <2>4, <2>5 DEF Settled
<1>3. ASSUME NEW r \in Run, TriggerQueues(r)
      PROVE  Settled(x)'
  BY <1>3, <1>0a, SettledKept DEF TriggerQueues, Moves
<1>4. ASSUME NEW r \in Run, TriggerCreates(r)
      PROVE  Settled(x)'
  BY <1>4, <1>0a, SettledKept DEF TriggerCreates, Moves
<1>5. ASSUME NEW r \in Run, TriggerFaults(r)
      PROVE  Settled(x)'
  BY <1>5, <1>0a, SettledKept DEF TriggerFaults, Moves
<1>6. ASSUME NEW r \in Run, NEW d \in Doc, LoopLists(r, d)
      PROVE  Settled(x)'
  <2>1. /\ pc[r] = "next" /\ pc' = [pc EXCEPT ![r] = "listed"] /\ late' = late
        /\ call' = call /\ step' = step /\ chunks' = chunks
        /\ target' = [target EXCEPT ![r] = {d}] /\ asked' = [asked EXCEPT ![r] = Incomplete(d)]
    BY <1>6 DEF LoopLists, Moves
  <2>2. \A q \in Run : pc'[q] \in {"listed", "marked"} => q = r /\ pc'[q] = "listed"
    BY <1>0a, <2>1 DEF Alone
  <2>3. x \in target'[r] => \A s \in asked'[r] : step[x][s] \in {"pending", "failed"}
    BY <2>1 DEF TypeOK, Incomplete
  <2> QED
    BY <1>0a, <2>1, <2>2, <2>3 DEF Settled
<1>7. ASSUME NEW r \in Run, LoopMarks(r)
      PROVE  Settled(x)'
  <2>1. /\ pc[r] = "listed" /\ pc' = [pc EXCEPT ![r] = "marked"] /\ late' = late
        /\ call' = call /\ target' = target /\ asked' = asked /\ chunks' = chunks
    BY <1>7 DEF LoopMarks, Moves
  <2>2. \A e \in Call : x \in call[e].doc => call[e].phase \notin {"working", "posting"}
    BY <1>0, <2>1 DEF Settled
  <2>3. \A e \in Call : call[e].for = {}
    BY <1>0, <2>1
  <2>4. \A q \in Run : pc'[q] \in {"listed", "marked"} => q = r /\ pc'[q] = "marked"
    BY <1>0a, <2>1 DEF Alone
  <2>5. x \in target[r] => \A s \in asked[r] : step'[x][s] = "running"
    BY <1>7, <1>0a DEF LoopMarks, TypeOK
  <2>6. ASSUME chunks[x] > 0
        PROVE  step'[x]["embedding_generation"] = "completed"
    <3>1. step[x]["embedding_generation"] = "completed"
      BY <2>6 DEF Settled
    <3>2. x \in target[r] => "embedding_generation" \notin asked[r]
      BY <2>1, <3>1 DEF Settled
    <3> QED
      BY <1>7, <1>0a, <3>1, <3>2 DEF LoopMarks, Step
  <2> QED
    BY <1>0a, <2>1, <2>2, <2>3, <2>4, <2>5, <2>6 DEF Settled
<1>8. ASSUME NEW r \in Run, NEW c \in Call, LoopCalls(r, c)
      PROVE  Settled(x)'
  <2>1. /\ pc[r] = "marked" /\ pc' = [pc EXCEPT ![r] = "waiting"] /\ late' = late
        /\ step' = step /\ target' = target /\ asked' = asked /\ chunks' = chunks
    BY <1>8 DEF LoopCalls, Moves
  <2>2. \A e \in Call \ {c} : call'[e] = call[e]
    BY <1>8, <1>0a DEF LoopCalls
  <2>3. /\ call'[c].phase = "working" /\ call'[c].doc = target[r]
        /\ call'[c].asked = asked[r] /\ call'[c].for = {r}
    BY <1>8, <1>0a DEF LoopCalls
  <2>4. \A q \in Run : pc'[q] \notin {"listed", "marked"}
    BY <1>0a, <2>1 DEF Alone
  <2>5. x \in target[r] => \A s \in asked[r] : step[x][s] = "running"
    BY <2>1 DEF Settled
  <2>6. \A e \in Call : x \in call'[e].doc /\ call'[e].phase \in {"working", "posting"} =>
          call'[e].for # {} /\ \A s \in call'[e].asked : step'[x][s] = "running"
    BY <2>1, <2>2, <2>3, <2>5 DEF Settled
  <2>7. \A e \in Call : x \in call'[e].doc /\ call'[e].phase = "answering" /\ call'[e].for # {} =>
          \A report \in call'[e].report : \A s \in DOMAIN report.results :
            step'[x][s] = report.results[s]
    BY <2>1, <2>2, <2>3 DEF Settled
  <2>8. \A q \in Run : x \in target'[q] =>
          /\ pc'[q] = "listed" => \A s \in asked'[q] : step'[x][s] \in {"pending", "failed"}
          /\ pc'[q] = "marked" => \A s \in asked'[q] : step'[x][s] = "running"
    BY <2>4
  <2> QED
    BY <1>0a, <2>1, <2>6, <2>7, <2>8 DEF Settled
<1>9. ASSUME NEW r \in Run, NEW c \in Call, LoopReceives(r, c)
      PROVE  Settled(x)'
  <2>1. /\ pc[r] = "waiting" /\ pc' = [pc EXCEPT ![r] = "next"] /\ late' = late
        /\ \A e \in Call \ {c} : call'[e] = call[e]
        /\ call'[c].doc = {} /\ call'[c].phase = "idle"
        /\ \A q \in Run \ {r} : target'[q] = target[q] /\ asked'[q] = asked[q]
    BY <1>9, <1>0a DEF LoopReceives, Moves, NoCall, TypeOK
  <2>2. CASE UNCHANGED tables
    BY <1>0a, <2>1, <2>2, SettledKept
  <2>3. ASSUME NEW d \in call[c].doc, NEW report \in call[c].report, Receives(d, report)
        PROVE  Settled(x)'
    <3>1. d \in Doc /\ report \in Report
      BY DEF TypeOK, Calls
    <3>2. CASE d # x
      <4>1. step'[x] = step[x] /\ chunks'[x] = chunks[x]
        BY <2>3, <3>1, <3>2, <1>0a, ReceivedElsewhere
      <4> QED
        BY <1>0a, <2>1, <4>1, SettledKept
    <3>3. CASE d = x
      <4>1. \A s \in DOMAIN report.results : step[x][s] = report.results[s]
        BY <1>9, <3>3 DEF Settled, LoopReceives
      <4>2. /\ \A s \in Step : step'[x][s] = step[x][s]
            /\ chunks'[x] > 0 => chunks[x] > 0 \/ report.embedded
            /\ step' \in [Doc -> [Step -> {"pending", "running", "completed", "failed"}]]
        BY <1>0a, <2>3, <3>1, <3>3, <4>1, ReceivesEffect
      <4>3. step'[x] = step[x]
        BY <1>0a, <4>2 DEF TypeOK
      <4>4. report.embedded => step[x]["embedding_generation"] = "completed"
        BY <4>1 DEF Requested, Sound
      <4> QED
        BY <1>0a, <2>1, <4>2, <4>3, <4>4, SettledKept
    <3> QED
      BY <3>2, <3>3
  <2> QED
    BY <1>9, <2>2, <2>3 DEF LoopReceives
<1>10. ASSUME NEW r \in Run, NEW c \in Call, LoopFails(r, c)
      PROVE  Settled(x)'
  BY <1>10, <1>0a, SettledKept DEF LoopFails, Moves, NoCall, LoopSkips
<1>11. ASSUME NEW r \in Run, LoopFaults(r)
      PROVE  Settled(x)'
  <2>1. \A e \in Call :
          /\ call'[e].phase = call[e].phase /\ call'[e].doc = call[e].doc
          /\ call'[e].asked = call[e].asked /\ call'[e].report = call[e].report
          /\ call'[e].for = call[e].for \ {r}
    BY <1>11, <1>0a DEF LoopFaults, Calls
  <2>2. \A e \in Call : x \in call[e].doc /\ call[e].phase \in {"working", "posting"} =>
          r \notin call[e].for
    BY <1>11 DEF LoopFaults, Abandons
  <2>3. \A q \in Run : pc'[q] \in {"listed", "marked"} =>
          pc'[q] = pc[q] /\ target'[q] = target[q] /\ asked'[q] = asked[q]
    BY <1>11, <1>0a DEF LoopFaults, LoopSkips, Moves, TypeOK
  <2>4. step' = step /\ chunks' = chunks /\ late' = late
    BY <1>11 DEF LoopFaults, LoopSkips
  <2>5. \A e \in Call : x \in call[e].doc /\ call[e].phase \in {"working", "posting"} =>
          call'[e].for = call[e].for
    <3>1. \A runs \in SUBSET Run : r \notin runs => runs \ {r} = runs
      OBVIOUS
    <3> QED
      BY <2>1, <2>2, <3>1 DEF TypeOK, Calls
  <2> QED
    BY <1>0a, <2>1, <2>3, <2>4, <2>5, SettledKept
<1>12. ASSUME NEW r \in Run, LoopEnds(r)
      PROVE  Settled(x)'
  BY <1>12, <1>0a, SettledKept DEF LoopEnds, Moves
<1>13. ASSUME NEW c \in Call, PythonProcesses(c)
      PROVE  Settled(x)'
  BY <1>13, <1>0a, SettledKept DEF PythonProcesses
<1>14. ASSUME NEW c \in Call, PythonPosts(c)
      PROVE  Settled(x)'
  <2>1. PICK d \in call[c].doc, report \in call[c].report : Receives(d, report)
    BY <1>14 DEF PythonPosts
  <2>2. d \in Doc /\ report \in Report
    BY DEF TypeOK, Calls
  <2>3. /\ pc' = pc /\ target' = target /\ asked' = asked /\ late' = late
        /\ call[c].phase = "posting" /\ call'[c].phase = "answering"
        /\ call'[c].doc = call[c].doc /\ call'[c].report = call[c].report
        /\ call'[c].for = call[c].for /\ \A e \in Call \ {c} : call'[e] = call[e]
    BY <1>14, <1>0a DEF PythonPosts
  <2>4. CASE d # x
    <3>1. step'[x] = step[x] /\ chunks'[x] = chunks[x]
      BY <2>1, <2>2, <2>4, <1>0a, ReceivedElsewhere
    <3>2. x \notin call[c].doc
      BY <2>4 DEF Requested, AtMostOne
    <3> QED
      BY <1>0a, <2>3, <3>1, <3>2, SettledKept
  <2>5. CASE d = x
    <3>1. call[c].for # {} /\ \A s \in call[c].asked : step[x][s] = "running"
      BY <2>3, <2>5 DEF Settled
    <3>2. \A e \in Call \ {c} : call[e].for = {}
      BY <1>0, <3>1
    <3>3. \A q \in Run : pc[q] \notin {"listed", "marked"}
      BY <1>0, <3>1
    <3>4. /\ \A s \in Step : step'[x][s] =
               IF s \in DOMAIN report.results THEN report.results[s] ELSE step[x][s]
          /\ chunks'[x] > 0 => chunks[x] > 0 \/ report.embedded
      BY <1>0a, <2>1, <2>2, <2>5, ReceivesEffect
    <3>5. DOMAIN report.results \subseteq Step
      BY <2>2, ReportShape
    <3>6. \A e \in Call : x \in call'[e].doc => call'[e].phase \notin {"working", "posting"}
      BY <2>3, <3>2 DEF Settled
    <3>7. \A e \in Call : x \in call'[e].doc /\ call'[e].phase = "answering" /\ call'[e].for # {} =>
            \A report1 \in call'[e].report : \A s \in DOMAIN report1.results :
              step'[x][s] = report1.results[s]
      <4>1. \A report1 \in call[c].report : report1 = report
        BY DEF Requested, AtMostOne
      <4> QED
        BY <2>3, <3>2, <3>4, <3>5, <4>1
    <3>8. ASSUME chunks'[x] > 0
          PROVE  step'[x]["embedding_generation"] = "completed"
      <4>1. Sound(report, call[c].asked)
        BY DEF Requested
      <4>2. CASE "embedding_generation" \in DOMAIN report.results
        <5>1. step[x]["embedding_generation"] = "running"
          BY <3>1, <4>1, <4>2 DEF Sound
        <5>2. report.embedded
          BY <3>4, <3>8, <5>1 DEF Settled
        <5> QED
          BY <3>4, <4>1, <5>2 DEF Sound, Step
      <4>3. CASE "embedding_generation" \notin DOMAIN report.results
        <5>1. chunks[x] > 0
          BY <3>4, <3>8, <4>1, <4>3 DEF Sound
        <5> QED
          BY <3>4, <4>3, <5>1 DEF Settled, Step
      <4> QED
        BY <4>2, <4>3
    <3>9. \A q \in Run : x \in target'[q] =>
            /\ pc'[q] = "listed" => \A s \in asked'[q] : step'[x][s] \in {"pending", "failed"}
            /\ pc'[q] = "marked" => \A s \in asked'[q] : step'[x][s] = "running"
      BY <2>3, <3>3
    <3>10. \A post \in late' : post.doc # x
      BY <1>0a, <2>3
    <3> QED
      BY <3>6, <3>7, <3>8, <3>9, <3>10 DEF Settled
  <2> QED
    BY <2>4, <2>5
<1>15. ASSUME NEW c \in Call, PythonPostFails(c)
      PROVE  Settled(x)'
  BY <1>15, <1>0a, SettledKept DEF PythonPostFails, TriesAgain
<1>16. ASSUME NEW c \in Call, PythonIsAlone(c)
      PROVE  Settled(x)'
  BY <1>16, <1>0a, SettledKept DEF PythonIsAlone, NoCall
<1>17. ASSUME NEW c \in Call, PythonPostTimesOut(c)
      PROVE  Settled(x)'
  BY <1>17, <1>0a, SettledKept DEF PythonPostTimesOut, TriesAgain
<1>18. ASSUME NEW c \in Call, PythonFaults(c) \/ PythonRaises(c)
      PROVE  Settled(x)'
  <2>1. CallFails(c) /\ call[c].phase \in {"working", "posting"}
    BY <1>18 DEF PythonFaults, PythonRaises
  <2>2. /\ call'[c].phase = "failed" /\ \A e \in Call \ {c} : call'[e] = call[e]
        /\ step' = step /\ chunks' = chunks /\ late' = late /\ pc' = pc /\ target' = target /\ asked' = asked
    BY <1>0a, <2>1 DEF CallFails
  <2> QED
    BY <1>0a, <2>1, <2>2, SettledKept
<1>19. ASSUME NEW post \in late, LateArrives(post)
      PROVE  Settled(x)'
  <2>1. post.doc \in Doc /\ post.report \in Report
    BY DEF TypeOK
  <2>2. step'[x] = step[x] /\ chunks'[x] = chunks[x]
    BY <1>19, <1>0a, <2>1, ReceivedElsewhere DEF LateArrives
  <2> QED
    BY <1>19, <1>0a, <2>2, SettledKept DEF LateArrives
<1>21. CASE TimePasses
  BY <1>21, <1>0a, SettledKept DEF TimePasses
<1>22. CASE Crash
  <2>1. \A e \in Call :
          /\ call'[e].phase = call[e].phase /\ call'[e].doc = call[e].doc
          /\ call'[e].asked = call[e].asked /\ call'[e].report = call[e].report
          /\ call'[e].for = {}
    BY <1>22, <1>0a DEF Crash, Calls
  <2>2. \A e \in Call : x \in call[e].doc /\ call[e].phase \in {"working", "posting"} =>
          call[e].for \cap Run = {}
    BY <1>22 DEF Crash, Abandons
  <2>3. \A e \in Call : call[e].for \subseteq Run
    BY DEF TypeOK, Calls
  <2>4. \A e \in Call : x \in call[e].doc => call[e].phase \notin {"working", "posting"}
    BY <2>2, <2>3 DEF Settled
  <2>5. \A q \in Run : pc'[q] = "idle"
    BY <1>22 DEF Crash
  <2>6. step' = step /\ chunks' = chunks /\ late' = {}
    BY <1>22 DEF Crash
  <2> QED
    BY <1>0a, <2>1, <2>4, <2>5, <2>6, SettledKept
<1>23. CASE Restart
  BY <1>23, <1>0a, SettledKept DEF Restart
<1>24. CASE UNCHANGED vars
  BY <1>24, <1>0a, SettledKept DEF vars
<1> QED
  BY <1>1, <1>2, <1>3, <1>4, <1>5, <1>6, <1>7, <1>8, <1>9, <1>10, <1>11, <1>12, <1>13, <1>14,
     <1>15, <1>16, <1>17, <1>18, <1>19, <1>21, <1>22, <1>23, <1>24
     DEF Next, TriggerStep, LoopStep, PythonStep

-----------------------------------------------------------------------------
(* The theorems.                                                           *)

LEMMA Begins == Init => IInv
<1> SUFFICES ASSUME Init
             PROVE  IInv
  OBVIOUS
<1>1. TypeOK
  BY TypeInit
<1>2. Alone
  BY DEF Init, Alone, Triggering, Looping
<1>3. \A r \in Run : AtMostOne(target[r])
  BY DEF Init, AtMostOne
<1>4. \A c \in Call : Requested(c)
  BY DEF Init, Requested, NoCall, AtMostOne
<1>5. stale \subseteq Running
  BY DEF Init
<1>6. \A d \in Doc \ abandoned : Settled(d)
  BY DEF Init, Settled, NoCall
<1> QED
  BY <1>1, <1>2, <1>3, <1>4, <1>5, <1>6 DEF IInv

LEMMA Continues ==
  ASSUME OneTrigger, IInv, [Next]_vars
  PROVE  IInv'
<1>1. TypeOK'
  BY TypeStep DEF IInv
<1>2. Alone'
  BY AloneStep DEF IInv
<1>3. (\A r \in Run : AtMostOne(target[r]))'
  BY TargetStep DEF IInv
<1>4. (\A c \in Call : Requested(c))'
  BY RequestedStep DEF IInv
<1>5. (stale \subseteq Running)'
  BY StaleStep DEF IInv
<1>6. ASSUME NEW d \in Doc \ abandoned'
      PROVE  Settled(d)'
  BY AbandonedGrows, SettledStep DEF IInv
<1> QED
  BY <1>1, <1>2, <1>3, <1>4, <1>5, <1>6 DEF IInv

\* Every reachable state is well typed, however many triggers are sent at a time.
THEOREM TypeCorrect == Spec => []TypeOK
<1> DEFINE Inv == /\ TypeOK
                  /\ \A r \in Run : AtMostOne(target[r])
                  /\ \A c \in Call : Requested(c)
<1>1. Init => Inv
  BY Begins DEF IInv
<1>2. Inv /\ [Next]_vars => Inv'
  BY TypeStep, TargetStep, RequestedStep
<1>3. Inv => TypeOK
  OBVIOUS
<1> QED
  BY <1>1, <1>2, <1>3, PTL DEF Spec

\* The invariant holds when triggers come one at a time.
THEOREM InvariantHolds ==
  ASSUME OneTrigger
  PROVE  Spec => []IInv
<1>1. Init => IInv
  BY Begins
<1>2. IInv /\ [Next]_vars => IInv'
  BY Continues
<1> QED
  BY <1>1, <1>2, PTL DEF Spec

\* The run of every loop at work is in progress, however many there are.
Underway == \A r \in Run : pc[r] \in Looping => runStatus[r] = "in_progress"

LEMMA UnderwayStep ==
  ASSUME TypeOK, Underway, [Next]_vars
  PROVE  Underway'
<1> USE DEF TypeOK, Underway, Triggering, Looping, tables, loop, python
<1>1. ASSUME NEW r \in Run, TriggerChecks(r) \/ TriggerStep(r) \/ TriggerFaults(r)
      PROVE  Underway'
  BY <1>1 DEF TriggerChecks, TriggerStep, TriggerResets, TriggerQueues, TriggerCreates, TriggerFaults, Moves
<1>2. ASSUME NEW r \in Run, NEW d \in Doc, LoopLists(r, d)
      PROVE  Underway'
  BY <1>2 DEF LoopLists, Moves
<1>3. ASSUME NEW r \in Run, LoopMarks(r) \/ LoopEnds(r) \/ LoopFaults(r)
      PROVE  Underway'
  BY <1>3 DEF LoopMarks, LoopEnds, LoopFaults, LoopSkips, Moves
<1>4. ASSUME NEW r \in Run, NEW c \in Call, LoopCalls(r, c) \/ LoopReceives(r, c) \/ LoopFails(r, c)
      PROVE  Underway'
  BY <1>4 DEF LoopCalls, LoopReceives, LoopFails, LoopSkips, Moves, Receives
<1>5. ASSUME NEW c \in Call, \/ PythonStep(c) \/ PythonPostTimesOut(c)
                            \/ PythonFaults(c) \/ PythonRaises(c)
      PROVE  Underway'
  BY <1>5 DEF PythonStep, PythonProcesses, PythonPosts, PythonPostFails, PythonIsAlone, PythonPostTimesOut,
     PythonFaults, PythonRaises, CallFails, Receives
<1>6. ASSUME NEW post \in late, LateArrives(post)
      PROVE  Underway'
  BY <1>6 DEF LateArrives, Receives
<1>7. CASE TimePasses \/ Crash \/ Restart \/ UNCHANGED vars
  BY <1>7 DEF TimePasses, Crash, Restart, vars
<1> QED
  BY <1>1, <1>2, <1>3, <1>4, <1>5, <1>6, <1>7 DEF Next, LoopStep

\* No trigger is accepted while a loop works, however many triggers are sent at a
\* time: of two that overlap, this is the one that comes after a loop has begun.
THEOREM TriggersTheorem == Spec => TriggersAreRefused
<1> DEFINE Refused == \A r \in Run : pc[r] = "idle" /\ pc'[r] # "idle" =>
                        \A q \in Run : pc[q] \notin Looping
<1>1. Init => Underway
  BY DEF Init, Underway, Looping
<1>2. TypeOK /\ Underway /\ [Next]_vars => Underway'
  BY UnderwayStep
<1>3. ASSUME TypeOK, Underway, [Next]_vars
      PROVE  [Refused]_vars
  <2> SUFFICES ASSUME NEW r \in Run, pc[r] = "idle", pc'[r] # "idle"
               PROVE  \A q \in Run : runStatus[q] # "in_progress"
    BY <1>3 DEF Underway
  <2>1. CASE \E q \in Run : TriggerChecks(q)
    BY <2>1 DEF TriggerChecks
  <2>2. ASSUME NEW q \in Run, TriggerStep(q) \/ TriggerFaults(q)
        PROVE  FALSE
    BY <1>3, <2>2 DEF TriggerStep, TriggerResets, TriggerQueues, TriggerCreates, TriggerFaults,
       Triggering, Moves, TypeOK
  <2>3. ASSUME NEW q \in Run, LoopStep(q) \/ LoopFaults(q)
        PROVE  FALSE
    BY <1>3, <2>3 DEF LoopStep, LoopLists, LoopMarks, LoopEnds, LoopCalls, LoopReceives, LoopFails,
       LoopFaults, Moves, TypeOK
  <2>4. ASSUME \/ UNCHANGED vars \/ TimePasses \/ Crash \/ Restart
               \/ \E post \in late : LateArrives(post)
               \/ \E c \in Call : \/ PythonStep(c) \/ PythonPostTimesOut(c)
                                  \/ PythonFaults(c) \/ PythonRaises(c)
        PROVE  FALSE
    BY <2>4 DEF vars, loop, TimePasses, Crash, Restart, LateArrives, PythonStep, PythonProcesses, PythonPosts,
       PythonPostFails, PythonIsAlone, PythonPostTimesOut, PythonFaults, PythonRaises, CallFails
  <2> QED
    BY <1>3, <2>1, <2>2, <2>3, <2>4 DEF Next
<1> QED
  BY TypeCorrect, <1>1, <1>2, <1>3, PTL DEF Spec, TriggersAreRefused

\* What is in the search index has been embedded, unless a report came too late.
THEOREM SearchableTheorem ==
  ASSUME OneTrigger
  PROVE  Spec => []SearchableIsEmbedded
<1>1. IInv => SearchableIsEmbedded
  BY DEF IInv, Settled, SearchableIsEmbedded
<1> QED
  BY <1>1, InvariantHolds, PTL

\* No step of the system takes the completion of a step back, of a document whose
\* reports come in time.
LEMMA CompletedStays ==
  ASSUME TypeOK, stale \subseteq Running, \A c \in Call : Requested(c),
         NEW x \in Doc, NEW s \in Step, Settled(x), step[x][s] = "completed", [Next]_vars
  PROVE  step'[x][s] = "completed"
<1> USE DEF tables
<1>1. ASSUME NEW r \in Run, TriggerChecks(r)
      PROVE  step'[x][s] = "completed"
  BY <1>1 DEF TriggerChecks
<1>2. ASSUME NEW r \in Run, TriggerResets(r)
      PROVE  step'[x][s] = "completed"
  <2>1. <<x, s>> \notin stale
    BY DEF Running
  <2> QED
    BY <1>2, <2>1 DEF TriggerResets
<1>3. ASSUME NEW r \in Run, TriggerQueues(r)
      PROVE  step'[x][s] = "completed"
  BY <1>3 DEF TriggerQueues
<1>4. ASSUME NEW r \in Run, TriggerCreates(r)
      PROVE  step'[x][s] = "completed"
  BY <1>4 DEF TriggerCreates
<1>5. ASSUME NEW r \in Run, TriggerFaults(r)
      PROVE  step'[x][s] = "completed"
  BY <1>5 DEF TriggerFaults
<1>6. ASSUME NEW r \in Run, NEW d \in Doc, LoopLists(r, d)
      PROVE  step'[x][s] = "completed"
  BY <1>6 DEF LoopLists
<1>7. ASSUME NEW r \in Run, LoopMarks(r)
      PROVE  step'[x][s] = "completed"
  <2>1. x \in target[r] => s \notin asked[r]
    BY <1>7 DEF LoopMarks, Moves, Settled
  <2> QED
    BY <1>7, <2>1 DEF LoopMarks
<1>8. ASSUME NEW r \in Run, NEW c \in Call, LoopCalls(r, c)
      PROVE  step'[x][s] = "completed"
  BY <1>8 DEF LoopCalls
<1>9. ASSUME NEW r \in Run, NEW c \in Call, LoopReceives(r, c)
      PROVE  step'[x][s] = "completed"
  <2>1. CASE UNCHANGED tables
    BY <2>1 DEF tables
  <2>2. ASSUME NEW d \in call[c].doc, NEW report \in call[c].report, Receives(d, report)
        PROVE  step'[x][s] = "completed"
    <3>1. d \in Doc /\ report \in Report
      BY DEF TypeOK, Calls
    <3>2. d = x => \A t \in DOMAIN report.results : step[x][t] = report.results[t]
      BY <1>9 DEF Settled, LoopReceives
    <3> QED
      BY <2>2, <3>1, <3>2, ReceivesEffect
  <2> QED
    BY <1>9, <2>1, <2>2 DEF LoopReceives
<1>10. ASSUME NEW r \in Run, NEW c \in Call, LoopFails(r, c)
      PROVE  step'[x][s] = "completed"
  BY <1>10 DEF LoopFails, LoopSkips
<1>11. ASSUME NEW r \in Run, LoopFaults(r)
      PROVE  step'[x][s] = "completed"
  BY <1>11 DEF LoopFaults, LoopSkips
<1>12. ASSUME NEW r \in Run, LoopEnds(r)
      PROVE  step'[x][s] = "completed"
  BY <1>12 DEF LoopEnds
<1>13. ASSUME NEW c \in Call, PythonProcesses(c)
      PROVE  step'[x][s] = "completed"
  BY <1>13 DEF PythonProcesses
<1>14. ASSUME NEW c \in Call, PythonPosts(c)
      PROVE  step'[x][s] = "completed"
  <2>1. PICK d \in call[c].doc, report \in call[c].report : Receives(d, report)
    BY <1>14 DEF PythonPosts
  <2>2. d \in Doc /\ report \in Report
    BY DEF TypeOK, Calls
  <2>3. d = x => \A t \in call[c].asked : step[x][t] = "running"
    BY <1>14 DEF Settled, PythonPosts
  <2>4. DOMAIN report.results \subseteq call[c].asked
    BY DEF Requested, Sound
  <2> QED
    BY <2>1, <2>2, <2>3, <2>4, ReceivesEffect
<1>15. ASSUME NEW c \in Call, PythonPostFails(c)
      PROVE  step'[x][s] = "completed"
  BY <1>15 DEF PythonPostFails
<1>16. ASSUME NEW c \in Call, PythonIsAlone(c)
      PROVE  step'[x][s] = "completed"
  BY <1>16 DEF PythonIsAlone
<1>17. ASSUME NEW c \in Call, PythonPostTimesOut(c)
      PROVE  step'[x][s] = "completed"
  BY <1>17 DEF PythonPostTimesOut
<1>18. ASSUME NEW c \in Call, PythonFaults(c) \/ PythonRaises(c)
      PROVE  step'[x][s] = "completed"
  BY <1>18 DEF PythonFaults, PythonRaises, CallFails
<1>19. ASSUME NEW post \in late, LateArrives(post)
      PROVE  step'[x][s] = "completed"
  <2>1. post.doc \in Doc /\ post.report \in Report /\ post.doc # x
    BY DEF TypeOK, Settled
  <2> QED
    BY <1>19, <2>1, ReceivesEffect DEF LateArrives
<1>21. CASE TimePasses
  BY <1>21 DEF TimePasses
<1>22. CASE Crash
  BY <1>22 DEF Crash
<1>23. CASE Restart
  BY <1>23 DEF Restart
<1>24. CASE UNCHANGED vars
  BY <1>24 DEF vars
<1> QED
  BY <1>1, <1>2, <1>3, <1>4, <1>5, <1>6, <1>7, <1>8, <1>9, <1>10, <1>11, <1>12, <1>13, <1>14,
     <1>15, <1>16, <1>17, <1>18, <1>19, <1>21, <1>22, <1>23, <1>24
     DEF Next, TriggerStep, LoopStep, PythonStep

\* A completed step stays completed, unless a report came too late.
THEOREM ResultsStandTheorem ==
  ASSUME OneTrigger
  PROVE  Spec => ResultsStand
<1>1. ASSUME IInv, [Next]_vars, NEW d \in Doc, NEW s \in Step,
             step[d][s] = "completed", d \notin abandoned
      PROVE  step'[d][s] = "completed"
  BY <1>1, CompletedStays DEF IInv
<1>2. IInv /\ [Next]_vars =>
        [\A d \in Doc, s \in Step :
           step[d][s] = "completed" /\ d \notin abandoned => step'[d][s] = "completed"]_vars
  BY <1>1
<1> QED
  BY <1>2, InvariantHolds, PTL DEF Spec, ResultsStand

(***************************************************************************)
(* The limit of the attempts of a step (UR-069).                           *)
(*                                                                         *)
(* What has been counted is not enough for an induction: reports that are  *)
(* still under way will be counted too.  The invariant counts them, in two *)
(* sets without a bound of their own, and pays for each of them with the   *)
(* fault that gave it up.                                                  *)
(***************************************************************************)

\* The reports that may still come for a step, besides those of the call that
\* a loop waits for: late POSTs, and requests that were given up.
LatePosts(d, s) == {post \in late : post.doc = d /\ s \in DOMAIN post.report.results}
Lost(d, s) ==
  {c \in Call : /\ d \in call[c].doc /\ s \in call[c].asked
                /\ call[c].phase \in {"working", "posting"} /\ call[c].for = {}}
Outstanding(d, s) == Cardinality(LatePosts(d, s)) + Cardinality(Lost(d, s))

Busy == {c \in Call : call[c].phase # "idle"}
Finite == IsFiniteSet(late) /\ IsFiniteSet(Busy)

\* The call that a loop is about to make, or waits for.
Asking(r, d, s) == pc[r] \in {"listed", "marked"} /\ d \in target[r] /\ s \in asked[r]
Awaited(c, d, s) == call[c].for # {} /\ d \in call[c].doc /\ s \in call[c].asked

Bound == MaxRetries + 1 + faults
Spent(d, s) == attempts[d][s] + Outstanding(d, s)

\* Faults pay for what is outstanding, and the limit for the two attempts that
\* a call may add, of which one remains when its POST has been received.
Counted(d, s) ==
  /\ Outstanding(d, s) <= faults
  /\ Spent(d, s) <= Bound
  /\ \A r \in Run : Asking(r, d, s) => Spent(d, s) + 2 <= Bound
  /\ \A c \in Call : Awaited(c, d, s) =>
       /\ call[c].phase \in {"working", "posting"} => Spent(d, s) + 2 <= Bound
       /\ call[c].phase = "answering" => Spent(d, s) + 1 <= Bound

CInv == Finite /\ \A d \in Doc, s \in Step : Counted(d, s)

-----------------------------------------------------------------------------
(* Cardinalities.                                                          *)

\* A set has no more members than one that contains it.
LEMMA NoMore ==
  ASSUME NEW S, NEW T, IsFiniteSet(S), T \subseteq S
  PROVE  /\ IsFiniteSet(T) /\ Cardinality(T) \in Nat /\ Cardinality(S) \in Nat
         /\ Cardinality(T) <= Cardinality(S)
BY FS_Subset, FS_CardinalityType

\* It has at most one member more than a set that contains all the others.
LEMMA OneMore ==
  ASSUME NEW S, NEW T, NEW x, IsFiniteSet(S), T \subseteq S \cup {x}
  PROVE  /\ IsFiniteSet(T) /\ Cardinality(T) \in Nat /\ Cardinality(S) \in Nat
         /\ Cardinality(T) <= Cardinality(S) + 1
<1>1. /\ IsFiniteSet(S \cup {x})
      /\ Cardinality(S \cup {x}) = IF x \in S THEN Cardinality(S) ELSE Cardinality(S) + 1
  BY FS_AddElement
<1>2. Cardinality(S) \in Nat
  BY FS_CardinalityType
<1>3. /\ IsFiniteSet(T) /\ Cardinality(T) \in Nat
      /\ Cardinality(T) <= Cardinality(S \cup {x})
  BY <1>1, NoMore
<1> QED
  BY <1>1, <1>2, <1>3

\* And fewer than a set that contains it and something else.
LEMMA OneLess ==
  ASSUME NEW S, NEW T, NEW x \in S, IsFiniteSet(S), T \subseteq S \ {x}
  PROVE  /\ IsFiniteSet(T) /\ Cardinality(T) \in Nat /\ Cardinality(S) \in Nat
         /\ Cardinality(T) + 1 <= Cardinality(S)
<1>1. IsFiniteSet(S \ {x}) /\ Cardinality(S \ {x}) = Cardinality(S) - 1
  BY FS_RemoveElement
<1>2. Cardinality(S) \in Nat
  BY FS_CardinalityType
<1>3. /\ IsFiniteSet(T) /\ Cardinality(T) \in Nat
      /\ Cardinality(T) <= Cardinality(S \ {x})
  BY <1>1, NoMore
<1> QED
  BY <1>1, <1>2, <1>3

\* What is outstanding is finite.
LEMMA FinitelyMany ==
  ASSUME Finite, NEW d, NEW s
  PROVE  /\ IsFiniteSet(LatePosts(d, s)) /\ IsFiniteSet(Lost(d, s))
         /\ Outstanding(d, s) \in Nat
<1>1. LatePosts(d, s) \subseteq late /\ Lost(d, s) \subseteq Busy
  BY DEF LatePosts, Lost, Busy
<1>2. /\ IsFiniteSet(LatePosts(d, s)) /\ Cardinality(LatePosts(d, s)) \in Nat
      /\ IsFiniteSet(Lost(d, s)) /\ Cardinality(Lost(d, s)) \in Nat
  BY <1>1, NoMore DEF Finite
<1> QED
  BY <1>2 DEF Outstanding

\* The same of the next state.
LEMMA FinitelyManyNext ==
  ASSUME Finite', NEW d, NEW s
  PROVE  Outstanding(d, s)' \in Nat
<1>1. LatePosts(d, s)' \subseteq late' /\ Lost(d, s)' \subseteq Busy'
  BY DEF LatePosts, Lost, Busy
<1>2. IsFiniteSet(late') /\ IsFiniteSet(Busy')
  BY DEF Finite
<1>3. Cardinality(LatePosts(d, s)') \in Nat /\ Cardinality(Lost(d, s)') \in Nat
  BY <1>1, <1>2, NoMore
<1> QED
  BY <1>3 DEF Outstanding

\* And so it is when at most one late POST and one request have come.
LEMMA StaysFinite ==
  ASSUME Finite, NEW x, NEW c, late' \subseteq late \cup {x}, Busy' \subseteq Busy \cup {c}
  PROVE  Finite'
BY OneMore DEF Finite

-----------------------------------------------------------------------------
(* What is outstanding, from one state to the next.                        *)

\* Nothing more, where no POST is late nor a request given up.
LEMMA NoMoreOutstanding ==
  ASSUME Finite, NEW d, NEW s,
         LatePosts(d, s)' \subseteq LatePosts(d, s), Lost(d, s)' \subseteq Lost(d, s)
  PROVE  Outstanding(d, s)' <= Outstanding(d, s)
<1>1. /\ Cardinality(LatePosts(d, s)') <= Cardinality(LatePosts(d, s))
      /\ Cardinality(LatePosts(d, s)') \in Nat /\ Cardinality(LatePosts(d, s)) \in Nat
  BY FinitelyMany, NoMore
<1>2. /\ Cardinality(Lost(d, s)') <= Cardinality(Lost(d, s))
      /\ Cardinality(Lost(d, s)') \in Nat /\ Cardinality(Lost(d, s)) \in Nat
  BY FinitelyMany, NoMore
<1> QED
  BY <1>1, <1>2 DEF Outstanding

\* One report more, where one request is given up, or one POST is late.
LEMMA OneMoreOutstanding ==
  ASSUME Finite, NEW d, NEW s, NEW x,
         \/ /\ LatePosts(d, s)' \subseteq LatePosts(d, s)
            /\ Lost(d, s)' \subseteq Lost(d, s) \cup {x}
         \/ /\ LatePosts(d, s)' \subseteq LatePosts(d, s) \cup {x}
            /\ Lost(d, s)' \subseteq Lost(d, s)
  PROVE  Outstanding(d, s)' <= Outstanding(d, s) + 1
<1>1. /\ Cardinality(LatePosts(d, s)) \in Nat /\ Cardinality(Lost(d, s)) \in Nat
      /\ IsFiniteSet(LatePosts(d, s)) /\ IsFiniteSet(Lost(d, s))
  BY FinitelyMany, FS_CardinalityType
<1>2. CASE /\ LatePosts(d, s)' \subseteq LatePosts(d, s)
           /\ Lost(d, s)' \subseteq Lost(d, s) \cup {x}
  <2>1. /\ Cardinality(LatePosts(d, s)') <= Cardinality(LatePosts(d, s))
        /\ Cardinality(LatePosts(d, s)') \in Nat
    BY <1>1, <1>2, NoMore
  <2>2. /\ Cardinality(Lost(d, s)') <= Cardinality(Lost(d, s)) + 1
        /\ Cardinality(Lost(d, s)') \in Nat
    BY <1>1, <1>2, OneMore
  <2> QED
    BY <1>1, <2>1, <2>2 DEF Outstanding
<1>3. CASE /\ LatePosts(d, s)' \subseteq LatePosts(d, s) \cup {x}
           /\ Lost(d, s)' \subseteq Lost(d, s)
  <2>1. /\ Cardinality(LatePosts(d, s)') <= Cardinality(LatePosts(d, s)) + 1
        /\ Cardinality(LatePosts(d, s)') \in Nat
    BY <1>1, <1>3, OneMore
  <2>2. /\ Cardinality(Lost(d, s)') <= Cardinality(Lost(d, s))
        /\ Cardinality(Lost(d, s)') \in Nat
    BY <1>1, <1>3, NoMore
  <2> QED
    BY <1>1, <2>1, <2>2 DEF Outstanding
<1> QED
  BY <1>2, <1>3

\* One report less, where one of them has come.
LEMMA OneLessOutstanding ==
  ASSUME Finite, NEW d, NEW s, NEW x,
         \/ /\ x \in LatePosts(d, s) /\ LatePosts(d, s)' \subseteq LatePosts(d, s) \ {x}
            /\ Lost(d, s)' \subseteq Lost(d, s)
         \/ /\ LatePosts(d, s)' \subseteq LatePosts(d, s)
            /\ x \in Lost(d, s) /\ Lost(d, s)' \subseteq Lost(d, s) \ {x}
  PROVE  Outstanding(d, s)' + 1 <= Outstanding(d, s)
<1>1. /\ Cardinality(LatePosts(d, s)) \in Nat /\ Cardinality(Lost(d, s)) \in Nat
      /\ IsFiniteSet(LatePosts(d, s)) /\ IsFiniteSet(Lost(d, s))
  BY FinitelyMany, FS_CardinalityType
<1>2. CASE /\ x \in LatePosts(d, s) /\ LatePosts(d, s)' \subseteq LatePosts(d, s) \ {x}
           /\ Lost(d, s)' \subseteq Lost(d, s)
  <2>1. /\ Cardinality(LatePosts(d, s)') + 1 <= Cardinality(LatePosts(d, s))
        /\ Cardinality(LatePosts(d, s)') \in Nat
    BY <1>1, <1>2, OneLess
  <2>2. /\ Cardinality(Lost(d, s)') <= Cardinality(Lost(d, s))
        /\ Cardinality(Lost(d, s)') \in Nat
    BY <1>1, <1>2, NoMore
  <2> QED
    BY <1>1, <2>1, <2>2 DEF Outstanding
<1>3. CASE /\ LatePosts(d, s)' \subseteq LatePosts(d, s)
           /\ x \in Lost(d, s) /\ Lost(d, s)' \subseteq Lost(d, s) \ {x}
  <2>1. /\ Cardinality(LatePosts(d, s)') <= Cardinality(LatePosts(d, s))
        /\ Cardinality(LatePosts(d, s)') \in Nat
    BY <1>1, <1>3, NoMore
  <2>2. /\ Cardinality(Lost(d, s)') + 1 <= Cardinality(Lost(d, s))
        /\ Cardinality(Lost(d, s)') \in Nat
    BY <1>1, <1>3, OneLess
  <2> QED
    BY <1>1, <2>1, <2>2 DEF Outstanding
<1> QED
  BY <1>2, <1>3

-----------------------------------------------------------------------------
(* Steps that count no attempt, or one of which something outstanding is   *)
(* the less.                                                               *)

\* A bound that grows with the faults is kept when no more is spent than they
\* have grown by, whatever room it has left.
LEMMA PaidFor ==
  ASSUME NEW spent \in Nat, NEW next \in Nat, NEW f \in Nat, NEW g \in Nat, NEW m \in Nat,
         NEW room \in Nat, spent + room <= m + 1 + f, next + f <= spent + g
  PROVE  next + room <= m + 1 + g
OBVIOUS

LEMMA Repaid ==
  ASSUME NEW spent \in Nat, NEW next \in Nat, NEW f \in Nat, NEW g \in Nat, next + f <= spent + g
  PROVE  /\ spent <= f => next <= g
         /\ \A m \in Nat : spent <= m + 1 + f => next <= m + 1 + g
OBVIOUS

\* The bound is kept when faults pay for what comes to be outstanding, and only
\* a step whose attempts leave room for two more is asked for.
LEMMA CountedFrom ==
  ASSUME TypeOK, TypeOK', Finite, Finite', NEW d \in Doc, NEW s \in Step, Counted(d, s),
         Outstanding(d, s)' + faults <= Outstanding(d, s) + faults',
         Spent(d, s)' + faults <= Spent(d, s) + faults',
         \A r \in Run : Asking(r, d, s)' => Asking(r, d, s) \/ Spent(d, s)' + 2 <= Bound',
         \A c \in Call : Awaited(c, d, s)' =>
           /\ call'[c].phase \in {"working", "posting"} =>
                \/ Awaited(c, d, s) /\ call[c].phase \in {"working", "posting"}
                \/ \E r \in Run : Asking(r, d, s)
           /\ call'[c].phase = "answering" =>
                Awaited(c, d, s) /\ call[c].phase \in {"posting", "answering"}
  PROVE  Counted(d, s)'
<1> DEFINE out == Outstanding(d, s)
           spent == Spent(d, s)
<1>1. /\ out \in Nat /\ out' \in Nat /\ spent \in Nat /\ spent' \in Nat
      /\ faults \in Nat /\ faults' \in Nat /\ MaxRetries \in Nat
  <2>1. out \in Nat /\ out' \in Nat
    BY FinitelyMany, FinitelyManyNext
  <2>2. attempts[d][s] \in Nat /\ attempts'[d][s] \in Nat /\ faults \in Nat /\ faults' \in Nat
    BY DEF TypeOK
  <2> QED
    BY <2>1, <2>2, ProcessingAssumption DEF Spent
<1>2. out' + faults <= out + faults' /\ spent' + faults <= spent + faults'
  OBVIOUS
<1>3. /\ out <= faults /\ spent <= MaxRetries + 1 + faults
      /\ \A r \in Run : Asking(r, d, s) => spent + 2 <= MaxRetries + 1 + faults
      /\ \A c \in Call : Awaited(c, d, s) =>
           /\ call[c].phase \in {"working", "posting"} => spent + 2 <= MaxRetries + 1 + faults
           /\ call[c].phase = "answering" => spent + 1 <= MaxRetries + 1 + faults
  BY DEF Counted, Bound
<1>4. /\ Bound' = MaxRetries + 1 + faults'
      /\ Counted(d, s)' <=>
           /\ out' <= faults' /\ spent' <= MaxRetries + 1 + faults'
           /\ \A r \in Run : Asking(r, d, s)' => spent' + 2 <= MaxRetries + 1 + faults'
           /\ \A c \in Call : Awaited(c, d, s)' =>
                /\ call'[c].phase \in {"working", "posting"} =>
                     spent' + 2 <= MaxRetries + 1 + faults'
                /\ call'[c].phase = "answering" => spent' + 1 <= MaxRetries + 1 + faults'
  BY DEF Counted, Bound
<1> HIDE DEF out, spent
<1>5. out' <= faults' /\ spent' <= MaxRetries + 1 + faults'
  <2>1. out <= faults /\ spent <= MaxRetries + 1 + faults
    BY <1>3
  <2>2. out' <= faults'
    BY <1>1, <1>2, <2>1, Repaid
  <2>3. spent' <= MaxRetries + 1 + faults'
    BY <1>1, <1>2, <2>1, Repaid
  <2> QED
    BY <2>2, <2>3
<1>6. ASSUME NEW r \in Run, Asking(r, d, s)'
      PROVE  spent' + 2 <= MaxRetries + 1 + faults'
  <2>1. CASE Asking(r, d, s)
    <3>1. spent + 2 <= MaxRetries + 1 + faults
      BY <1>3, <2>1
    <3> QED
      BY <1>1, <1>2, <3>1, PaidFor
  <2>2. CASE Spent(d, s)' + 2 <= Bound'
    BY <1>4, <2>2 DEF spent
  <2> QED
    BY <1>6, <2>1, <2>2
<1>7. ASSUME NEW c \in Call, Awaited(c, d, s)', call'[c].phase \in {"working", "posting"}
      PROVE  spent' + 2 <= MaxRetries + 1 + faults'
  <2>1. \/ Awaited(c, d, s) /\ call[c].phase \in {"working", "posting"}
        \/ \E r \in Run : Asking(r, d, s)
    BY <1>7
  <2>2. spent + 2 <= MaxRetries + 1 + faults
    BY <1>3, <2>1
  <2> QED
    BY <1>1, <1>2, <2>2, PaidFor
<1>8. ASSUME NEW c \in Call, Awaited(c, d, s)', call'[c].phase = "answering"
      PROVE  spent' + 1 <= MaxRetries + 1 + faults'
  <2>1. Awaited(c, d, s) /\ call[c].phase \in {"posting", "answering"}
    BY <1>8
  <2>2. spent + 2 <= MaxRetries + 1 + faults \/ spent + 1 <= MaxRetries + 1 + faults
    BY <1>3, <2>1
  <2> QED
    BY <1>1, <1>2, <2>2
<1> QED
  BY <1>4, <1>5, <1>6, <1>7, <1>8

\* So it is kept by a step that counts no attempt, makes no POST late and gives
\* up no request.
LEMMA CountedPlain ==
  ASSUME TypeOK, TypeOK', Finite, Finite', NEW d \in Doc, NEW s \in Step, Counted(d, s),
         attempts'[d][s] = attempts[d][s], late' \subseteq late,
         faults' = faults \/ faults' = faults + 1,
         \A r \in Run : Asking(r, d, s)' => Asking(r, d, s),
         \A c \in Call :
           \/ call'[c] = call[c]
           \/ call'[c].phase \in {"idle", "failed"}
           \/ /\ \/ call[c].phase \in {"working", "posting"} /\ call'[c].phase = "posting"
                 \/ call[c].phase = "posting" /\ call'[c].phase = "answering"
              /\ call'[c].doc = call[c].doc /\ call'[c].asked = call[c].asked
              /\ call'[c].for = call[c].for
           \/ /\ call'[c].phase = "working" /\ call'[c].for # {}
              /\ d \in call'[c].doc /\ s \in call'[c].asked => \E r \in Run : Asking(r, d, s)
  PROVE  Counted(d, s)'
<1>1. LatePosts(d, s)' \subseteq LatePosts(d, s)
  BY DEF LatePosts
<1>2. Lost(d, s)' \subseteq Lost(d, s)
  BY DEF Lost
<1>3. Outstanding(d, s)' <= Outstanding(d, s)
  BY <1>1, <1>2, NoMoreOutstanding
<1>4. /\ Outstanding(d, s) \in Nat /\ Outstanding(d, s)' \in Nat
      /\ attempts[d][s] \in Nat /\ faults \in Nat
  BY FinitelyMany, FinitelyManyNext DEF TypeOK
<1>5. /\ Outstanding(d, s)' + faults <= Outstanding(d, s) + faults'
      /\ Spent(d, s)' + faults <= Spent(d, s) + faults'
  BY <1>3, <1>4 DEF Spent
<1>6. ASSUME NEW c \in Call, Awaited(c, d, s)'
      PROVE  /\ call'[c].phase \in {"working", "posting"} =>
                  \/ Awaited(c, d, s) /\ call[c].phase \in {"working", "posting"}
                  \/ \E r \in Run : Asking(r, d, s)
             /\ call'[c].phase = "answering" =>
                  Awaited(c, d, s) /\ call[c].phase \in {"posting", "answering"}
  BY <1>6 DEF Awaited
<1> QED
  BY <1>5, <1>6, CountedFrom

-----------------------------------------------------------------------------
(* Steps that count attempts.                                              *)

\* What receiveProcessingResults does to the attempts.
LEMMA AttemptsEffect ==
  ASSUME TypeOK, NEW d \in Doc, NEW report \in Report, Receives(d, report)
  PROVE  \A e \in Doc, s \in Step : attempts'[e][s] =
           IF e = d /\ s \in DOMAIN report.results THEN attempts[e][s] + 1 ELSE attempts[e][s]
BY DEF Receives, TypeOK

\* An attempt that the loop's call adds takes up room that was left for it: no
\* other call is asked for or waited for.
LEMMA CountedAwaited ==
  ASSUME TypeOK, Alone, \A e \in Call : Requested(e), TypeOK', Finite, Finite',
         NEW d \in Doc, NEW s \in Step, Counted(d, s), NEW c \in Call, Awaited(c, d, s),
         attempts'[d][s] = attempts[d][s] + 1, late' = late, faults' = faults,
         \A r \in Run : Asking(r, d, s)' => Asking(r, d, s),
         \A e \in Call \ {c} : call'[e] = call[e],
         \/ call[c].phase = "answering" /\ call'[c] = NoCall
         \/ call[c].phase = "posting" /\ call'[c].phase = "answering"
  PROVE  Counted(d, s)'
<1> DEFINE out == Outstanding(d, s)
           spent == Spent(d, s)
           room == IF call[c].phase = "posting" THEN 2 ELSE 1
<1>1. \A r \in Run : ~ Asking(r, d, s)
  <2>1. call[c].for # {}
    BY DEF Awaited
  <2>2. \A r \in Run : pc[r] \notin {"idle", "waiting"} => call[c].for = {}
    BY OneWaits
  <2> QED
    BY <2>1, <2>2 DEF Asking
<1>2. \A e \in Call : Awaited(e, d, s)' => e = c
  <2>1. \A e \in Call : call[e].for # {} => e = c
    BY OneWaits DEF Awaited
  <2>2. \A e \in Call : Awaited(e, d, s)' => call'[e].for # {}
    BY DEF Awaited
  <2> QED
    BY <2>1, <2>2
<1>3. Lost(d, s)' \subseteq Lost(d, s)
  BY DEF Lost, NoCall
<1>4. LatePosts(d, s)' \subseteq LatePosts(d, s)
  BY DEF LatePosts
<1>5. out' <= out
  BY <1>3, <1>4, NoMoreOutstanding
<1>6. /\ out \in Nat /\ out' \in Nat /\ attempts[d][s] \in Nat
      /\ faults \in Nat /\ MaxRetries \in Nat
  BY FinitelyMany, FinitelyManyNext, ProcessingAssumption DEF TypeOK
<1>7. /\ spent = attempts[d][s] + out /\ spent' = attempts[d][s] + 1 + out'
      /\ out <= faults /\ spent + room <= MaxRetries + 1 + faults
      /\ Bound' = MaxRetries + 1 + faults
  BY DEF Spent, Bound, Counted
<1>8. room \in {1, 2}
  OBVIOUS
<1> HIDE DEF out, spent, room
<1>9. out' <= faults /\ spent' <= MaxRetries + 1 + faults
  BY <1>5, <1>6, <1>7, <1>8
<1>10. room = 2 => spent' + 1 <= MaxRetries + 1 + faults
  BY <1>5, <1>6, <1>7
<1>11. call'[c].phase = "idle" \/ (call'[c].phase = "answering" /\ room = 2)
  BY DEF NoCall, room
<1>12. ASSUME NEW e \in Call, Awaited(e, d, s)'
       PROVE  /\ call'[e].phase \notin {"working", "posting"}
              /\ call'[e].phase = "answering" => spent' + 1 <= MaxRetries + 1 + faults
  BY <1>2, <1>10, <1>11, <1>12
<1> QED
  BY <1>1, <1>7, <1>9, <1>12 DEF Counted, out, spent

-----------------------------------------------------------------------------
(* Every step of the system.                                               *)

\* At most one POST comes to be late and one request begins.
LEMMA FiniteStep ==
  ASSUME TypeOK, \A c \in Call : Requested(c), Finite, [Next]_vars
  PROVE  Finite'
<1>0. call \in [Call -> Calls]
  BY DEF TypeOK
<1>1. ASSUME late' \subseteq late, NEW c \in Call,
             \A e \in Call \ {c} : call'[e].phase \in {"idle", call[e].phase}
      PROVE  Finite'
  <2>1. Busy' \subseteq Busy \cup {c}
    BY <1>1 DEF Busy
  <2>2. late' \subseteq late \cup {c}
    BY <1>1
  <2> QED
    BY <2>1, <2>2, StaysFinite
<1>2. ASSUME late' \subseteq late, \A e \in Call : call'[e].phase = call[e].phase
      PROVE  Finite'
  <2>1. Busy' \subseteq Busy /\ late' \subseteq late
    BY <1>2 DEF Busy
  <2> QED
    BY <2>1, NoMore DEF Finite
<1>3. ASSUME NEW r \in Run, TriggerChecks(r) \/ TriggerStep(r) \/ TriggerFaults(r)
      PROVE  Finite'
  BY <1>2, <1>3 DEF TriggerChecks, TriggerStep, TriggerResets, TriggerQueues, TriggerCreates,
     TriggerFaults, python
<1>4. ASSUME NEW r \in Run, (\E d \in Doc : LoopLists(r, d)) \/ LoopMarks(r) \/ LoopEnds(r)
      PROVE  Finite'
  BY <1>2, <1>4 DEF LoopLists, LoopMarks, LoopEnds, python
<1>5. ASSUME NEW r \in Run, LoopFaults(r)
      PROVE  Finite'
  <2>1. \A e \in Call : call'[e].phase = call[e].phase
    BY <1>5 DEF LoopFaults, TypeOK, Calls
  <2>2. late' \subseteq late
    BY <1>5 DEF LoopFaults, LoopSkips
  <2> QED
    BY <1>2, <2>1, <2>2
<1>6. ASSUME NEW r \in Run, NEW c \in Call, LoopCalls(r, c) \/ LoopReceives(r, c) \/ LoopFails(r, c)
      PROVE  Finite'
  <2>1. late' \subseteq late
    BY <1>6 DEF LoopCalls, LoopReceives, LoopFails, LoopSkips
  <2>2. \A e \in Call \ {c} : call'[e] = call[e]
    BY <1>0, <1>6 DEF LoopCalls, LoopReceives, LoopFails
  <2> QED
    BY <1>1, <2>1, <2>2
<1>7. ASSUME NEW c \in Call, PythonStep(c) \/ PythonFaults(c) \/ PythonRaises(c)
      PROVE  Finite'
  <2>1. late' \subseteq late
    BY <1>7 DEF PythonStep, PythonProcesses, PythonPosts, PythonPostFails, PythonIsAlone,
       PythonFaults, PythonRaises, CallFails
  <2>2. \A e \in Call \ {c} : call'[e] = call[e]
    BY <1>0, <1>7 DEF PythonStep, PythonProcesses, PythonPosts, PythonPostFails, PythonIsAlone,
       PythonFaults, PythonRaises, CallFails, TriesAgain
  <2> QED
    BY <1>1, <2>1, <2>2
<1>8. ASSUME NEW c \in Call, PythonPostTimesOut(c)
      PROVE  Finite'
  <2>1. PICK x : [doc : call[c].doc, report : call[c].report, tries : {call[c].tries}] \subseteq {x}
    <3>1. AtMostOne(call[c].doc) /\ AtMostOne(call[c].report)
      BY DEF Requested
    <3>2. ASSUME NEW x \in [doc : call[c].doc, report : call[c].report, tries : {call[c].tries}],
                 NEW y \in [doc : call[c].doc, report : call[c].report, tries : {call[c].tries}]
          PROVE  x = y
      BY <3>1 DEF AtMostOne
    <3> QED
      BY <3>2
  <2>2. late' \subseteq late \cup {x}
    BY <1>8, <2>1 DEF PythonPostTimesOut
  <2>3. \A e \in Call \ {c} : call'[e] = call[e]
    BY <1>0, <1>8 DEF PythonPostTimesOut, TriesAgain
  <2>4. Busy' \subseteq Busy \cup {c}
    BY <2>3 DEF Busy
  <2> QED
    BY <2>2, <2>4, StaysFinite
<1>9. ASSUME NEW post \in late, LateArrives(post)
      PROVE  Finite'
  BY <1>2, <1>9 DEF LateArrives
<1>10. CASE TimePasses \/ Restart \/ UNCHANGED vars
  BY <1>2, <1>10 DEF TimePasses, Restart, vars, python
<1>11. CASE Crash
  <2>1. \A e \in Call : call'[e].phase = call[e].phase
    BY <1>11 DEF Crash, TypeOK, Calls
  <2>2. late' \subseteq late
    BY <1>11 DEF Crash
  <2> QED
    BY <1>2, <2>1, <2>2
<1> QED
  BY <1>3, <1>4, <1>5, <1>6, <1>7, <1>8, <1>9, <1>10, <1>11 DEF Next, LoopStep

\* The bound of one step of one document is kept by every step of the system.
LEMMA CountedStep ==
  ASSUME IInv, TypeOK', Finite, Finite', [Next]_vars,
         NEW d \in Doc, NEW s \in Step, Counted(d, s)
  PROVE  Counted(d, s)'
<1> USE DEF IInv
<1>1. call \in [Call -> Calls] /\ pc \in [Run -> {"idle"} \cup Triggering \cup Looping]
  BY DEF TypeOK
<1>2. ASSUME attempts' = attempts, late' = late, call' = call,
             faults' = faults \/ faults' = faults + 1,
             \A r \in Run : Asking(r, d, s)' => Asking(r, d, s)
      PROVE  Counted(d, s)'
  BY <1>2, CountedPlain
\* A report that reaches Express: it may not be about this step.
<1>3. ASSUME NEW x \in Doc, NEW report \in Report, Receives(x, report),
             ~ (d = x /\ s \in DOMAIN report.results)
      PROVE  attempts'[d][s] = attempts[d][s]
  BY <1>3, AttemptsEffect
<1>4. ASSUME NEW x \in Doc, NEW report \in Report, Receives(x, report),
             d = x /\ s \in DOMAIN report.results
      PROVE  attempts'[d][s] = attempts[d][s] + 1
  BY <1>4, AttemptsEffect
<1>5. ASSUME NEW r \in Run, TriggerChecks(r) \/ TriggerStep(r) \/ TriggerFaults(r)
      PROVE  Counted(d, s)'
  <2>1. /\ attempts' = attempts /\ late' = late /\ call' = call
        /\ target' = target /\ asked' = asked
    BY <1>5 DEF TriggerChecks, TriggerStep, TriggerResets, TriggerQueues, TriggerCreates,
       TriggerFaults, python, tables
  <2>2. faults' = faults \/ faults' = faults + 1
    BY <1>5 DEF TriggerChecks, TriggerStep, TriggerResets, TriggerQueues, TriggerCreates,
       TriggerFaults, Fails
  <2>3. \A q \in Run : pc'[q] \in {"listed", "marked"} => pc'[q] = pc[q]
    BY <1>1, <1>5 DEF TriggerChecks, TriggerStep, TriggerResets, TriggerQueues, TriggerCreates,
       TriggerFaults, Moves
  <2>4. \A q \in Run : Asking(q, d, s)' => Asking(q, d, s)
    BY <2>1, <2>3 DEF Asking
  <2> QED
    BY <1>2, <2>1, <2>2, <2>4
\* Only here is a step asked for: its attempts are below the limit.
<1>6. ASSUME NEW r \in Run, NEW x \in Doc, LoopLists(r, x)
      PROVE  Counted(d, s)'
  <2>1. /\ attempts' = attempts /\ late' = late /\ call' = call /\ faults' = faults
        /\ pc' = [pc EXCEPT ![r] = "listed"]
        /\ target' = [target EXCEPT ![r] = {x}] /\ asked' = [asked EXCEPT ![r] = Incomplete(x)]
    BY <1>6 DEF LoopLists, Moves, tables, python
  <2>2. /\ Outstanding(d, s)' = Outstanding(d, s) /\ Spent(d, s)' = Spent(d, s)
        /\ Bound' = Bound
    BY <2>1 DEF Outstanding, LatePosts, Lost, Spent, Bound
  <2>3. \A q \in Run \ {r} : Asking(q, d, s)' => Asking(q, d, s)
    BY <1>1, <2>1 DEF Asking, TypeOK
  <2>4. Asking(r, d, s)' => attempts[d][s] < MaxRetries
    BY <1>1, <2>1 DEF Asking, TypeOK, Incomplete
  <2>5. /\ Outstanding(d, s) \in Nat /\ faults \in Nat /\ attempts[d][s] \in Nat
        /\ MaxRetries \in Nat /\ Outstanding(d, s) <= faults
    BY FinitelyMany, ProcessingAssumption DEF TypeOK, Counted
  <2>6. attempts[d][s] < MaxRetries => Spent(d, s) + 2 <= Bound
    BY <2>5 DEF Spent, Bound
  <2>7. \A q \in Run : Asking(q, d, s)' => Asking(q, d, s) \/ Spent(d, s)' + 2 <= Bound'
    BY <2>2, <2>3, <2>4, <2>6
  <2>8. /\ Outstanding(d, s)' + faults <= Outstanding(d, s) + faults'
        /\ Spent(d, s)' + faults <= Spent(d, s) + faults'
    BY <2>1, <2>2, <2>5 DEF Spent
  <2>9. \A c \in Call : Awaited(c, d, s)' => Awaited(c, d, s)
    BY <2>1 DEF Awaited
  <2> QED
    BY <2>1, <2>7, <2>8, <2>9, CountedFrom
<1>7. ASSUME NEW r \in Run, LoopMarks(r) \/ LoopEnds(r)
      PROVE  Counted(d, s)'
  <2>1. /\ attempts' = attempts /\ late' = late /\ call' = call /\ faults' = faults
        /\ target' = target /\ asked' = asked
    BY <1>7 DEF LoopMarks, LoopEnds, tables, python
  <2>2. \A q \in Run : pc'[q] \in {"listed", "marked"} => pc[q] \in {"listed", "marked"}
    BY <1>1, <1>7 DEF LoopMarks, LoopEnds, Moves
  <2>3. \A q \in Run : Asking(q, d, s)' => Asking(q, d, s)
    BY <2>1, <2>2 DEF Asking
  <2> QED
    BY <1>2, <2>1, <2>3
<1>8. ASSUME NEW r \in Run, NEW c \in Call, LoopCalls(r, c)
      PROVE  Counted(d, s)'
  <2>1. /\ attempts' = attempts /\ late' = late /\ faults' = faults
        /\ target' = target /\ asked' = asked /\ pc[r] = "marked"
        /\ pc' = [pc EXCEPT ![r] = "waiting"]
        /\ \A e \in Call \ {c} : call'[e] = call[e]
    BY <1>1, <1>8 DEF LoopCalls, Moves, tables
  <2>2. /\ call'[c].phase = "working" /\ call'[c].for = {r}
        /\ call'[c].doc = target[r] /\ call'[c].asked = asked[r]
    BY <1>1, <1>8 DEF LoopCalls
  <2>3. \A q \in Run : Asking(q, d, s)' => Asking(q, d, s)
    BY <1>1, <2>1 DEF Asking
  <2>4. d \in call'[c].doc /\ s \in call'[c].asked => \E q \in Run : Asking(q, d, s)
    BY <2>1, <2>2 DEF Asking
  <2>5. call'[c].for # {}
    BY <2>2
  <2> QED
    BY <2>1, <2>2, <2>3, <2>4, <2>5, CountedPlain
<1>9. ASSUME NEW r \in Run, NEW c \in Call, LoopReceives(r, c)
      PROVE  Counted(d, s)'
  <2>1. /\ late' = late /\ call' = [call EXCEPT ![c] = NoCall]
        /\ pc' = [pc EXCEPT ![r] = "next"]
        /\ target' = [target EXCEPT ![r] = {}] /\ asked' = [asked EXCEPT ![r] = {}]
        /\ call[c].phase = "answering" /\ call[c].for # {}
    BY <1>9 DEF LoopReceives, Moves
  <2>2. call'[c] = NoCall /\ \A e \in Call \ {c} : call'[e] = call[e]
    BY <1>1, <2>1
  <2>3. \A q \in Run : Asking(q, d, s)' => Asking(q, d, s)
    BY <1>1, <2>1 DEF Asking, TypeOK
  <2>4. call'[c].phase = "idle"
    BY <2>2 DEF NoCall
  <2>5. ASSUME attempts'[d][s] = attempts[d][s], faults' = faults \/ faults' = faults + 1
        PROVE  Counted(d, s)'
    BY <2>1, <2>2, <2>3, <2>4, <2>5, CountedPlain
  <2>6. CASE UNCHANGED tables /\ Fails
    <3>1. attempts'[d][s] = attempts[d][s] /\ (faults' = faults \/ faults' = faults + 1)
      BY <2>6 DEF tables, Fails
    <3> QED
      BY <2>5, <3>1
  <2>7. ASSUME NEW x \in call[c].doc, NEW report \in call[c].report, Receives(x, report),
               UNCHANGED faults
        PROVE  Counted(d, s)'
    <3>1. x \in Doc /\ report \in Report /\ DOMAIN report.results \subseteq call[c].asked
      BY <1>1 DEF Calls, Requested, Sound
    <3>2. CASE d = x /\ s \in DOMAIN report.results
      <4>1. Awaited(c, d, s)
        BY <2>1, <3>1, <3>2 DEF Awaited
      <4>2. attempts'[d][s] = attempts[d][s] + 1
        BY <1>4, <2>7, <3>1, <3>2
      <4> QED
        BY <2>1, <2>2, <2>3, <2>7, <4>1, <4>2, CountedAwaited
    <3>3. CASE ~ (d = x /\ s \in DOMAIN report.results)
      BY <1>3, <2>5, <2>7, <3>1, <3>3
    <3> QED
      BY <3>2, <3>3
  <2> QED
    BY <1>9, <2>6, <2>7 DEF LoopReceives
<1>10. ASSUME NEW r \in Run, NEW c \in Call, LoopFails(r, c)
      PROVE  Counted(d, s)'
  <2>1. /\ attempts' = attempts /\ late' = late /\ faults' = faults
        /\ call' = [call EXCEPT ![c] = NoCall] /\ pc' = [pc EXCEPT ![r] = "next"]
        /\ target' = [target EXCEPT ![r] = {}] /\ asked' = [asked EXCEPT ![r] = {}]
    BY <1>10 DEF LoopFails, LoopSkips, Moves, tables
  <2>2. call'[c].phase = "idle" /\ \A e \in Call \ {c} : call'[e] = call[e]
    BY <1>1, <2>1 DEF NoCall
  <2>3. \A q \in Run : Asking(q, d, s)' => Asking(q, d, s)
    BY <1>1, <2>1 DEF Asking, TypeOK
  <2> QED
    BY <2>1, <2>2, <2>3, CountedPlain
\* The fault pays for the request that is given up.
<1>11. ASSUME NEW runs \in SUBSET Run, attempts' = attempts, late' \subseteq late,
              faults' = faults + 1,
              \A c \in Call : /\ call'[c].phase = call[c].phase /\ call'[c].doc = call[c].doc
                              /\ call'[c].asked = call[c].asked
                              /\ call'[c].for = call[c].for \ runs,
              \A r \in Run : Asking(r, d, s)' => Asking(r, d, s)
       PROVE  Counted(d, s)'
  <2>1. PICK e : \A c \in Call : call[c].for # {} => c = e
    BY OneWaits
  <2>2. LatePosts(d, s)' \subseteq LatePosts(d, s)
    BY <1>11 DEF LatePosts
  <2>3. Lost(d, s)' \subseteq Lost(d, s) \cup {e}
    <3>1. ASSUME NEW c \in Lost(d, s)', c # e
          PROVE  c \in Lost(d, s)
      <4>1. c \in Call /\ call[c].for = {}
        BY <2>1, <3>1 DEF Lost
      <4> QED
        BY <1>11, <3>1, <4>1 DEF Lost
    <3> QED
      BY <3>1
  <2>4. Outstanding(d, s)' <= Outstanding(d, s) + 1
    BY <2>2, <2>3, OneMoreOutstanding
  <2>5. /\ Outstanding(d, s) \in Nat /\ Outstanding(d, s)' \in Nat
        /\ attempts[d][s] \in Nat /\ faults \in Nat
    BY FinitelyMany, FinitelyManyNext DEF TypeOK
  <2>6. /\ Outstanding(d, s)' + faults <= Outstanding(d, s) + faults'
        /\ Spent(d, s)' + faults <= Spent(d, s) + faults'
    BY <1>11, <2>4, <2>5 DEF Spent
  <2>7. \A c \in Call : Awaited(c, d, s)' => Awaited(c, d, s) /\ call'[c].phase = call[c].phase
    BY <1>11 DEF Awaited
  <2> QED
    BY <1>11, <2>6, <2>7, CountedFrom
<1>12. ASSUME NEW r \in Run, LoopFaults(r)
       PROVE  Counted(d, s)'
  <2>1. /\ attempts' = attempts /\ late' \subseteq late /\ faults' = faults + 1
        /\ pc' = [pc EXCEPT ![r] = "next"]
        /\ target' = [target EXCEPT ![r] = {}] /\ asked' = [asked EXCEPT ![r] = {}]
    BY <1>12 DEF LoopFaults, LoopSkips, Moves, Fails, tables
  <2>2. \A c \in Call : /\ call'[c].phase = call[c].phase /\ call'[c].doc = call[c].doc
                        /\ call'[c].asked = call[c].asked
                        /\ call'[c].for = call[c].for \ {r}
    BY <1>1, <1>12 DEF LoopFaults, Calls
  <2>3. \A q \in Run : Asking(q, d, s)' => Asking(q, d, s)
    BY <1>1, <2>1 DEF Asking, TypeOK
  <2>4. {r} \in SUBSET Run
    OBVIOUS
  <2> QED
    BY <1>11, <2>1, <2>2, <2>3, <2>4
<1>13. CASE Crash
  <2>1. /\ attempts' = attempts /\ late' \subseteq late /\ faults' = faults + 1
        /\ pc' = [r \in Run |-> "idle"]
    BY <1>13 DEF Crash, Fails, tables
  <2>2. \A c \in Call : /\ call'[c].phase = call[c].phase /\ call'[c].doc = call[c].doc
                        /\ call'[c].asked = call[c].asked
                        /\ call'[c].for = call[c].for \ Run
    BY <1>1, <1>13 DEF Crash, Calls
  <2>3. \A q \in Run : Asking(q, d, s)' => Asking(q, d, s)
    BY <2>1 DEF Asking
  <2>4. Run \in SUBSET Run
    OBVIOUS
  <2> QED
    BY <1>11, <2>1, <2>2, <2>3, <2>4
<1>14. ASSUME NEW c \in Call, PythonProcesses(c) \/ PythonPostFails(c) \/ PythonFaults(c) \/ PythonRaises(c)
       PROVE  Counted(d, s)'
  <2>1. /\ attempts' = attempts /\ late' = late /\ pc' = pc /\ target' = target /\ asked' = asked
        /\ call[c].phase \in {"working", "posting"}
    BY <1>14 DEF PythonProcesses, PythonPostFails, PythonFaults, PythonRaises, CallFails, tables, loop
  <2>2. faults' = faults \/ faults' = faults + 1
    BY <1>14 DEF PythonProcesses, PythonPostFails, PythonFaults, PythonRaises, CallFails, Fails
  <2>3. \A e \in Call \ {c} : call'[e] = call[e]
    BY <1>1, <1>14 DEF PythonProcesses, PythonPostFails, PythonFaults, PythonRaises, CallFails, TriesAgain
  <2>4. /\ call'[c].phase \in {"posting", "failed"}
        /\ call'[c].doc = call[c].doc /\ call'[c].asked = call[c].asked
        /\ call'[c].for = call[c].for
    <3>1. CASE PythonProcesses(c)
      BY <1>1, <3>1 DEF PythonProcesses, Calls
    <3>2. CASE PythonPostFails(c)
      BY <1>1, <3>2 DEF PythonPostFails, TriesAgain, Calls
    <3>3. CASE PythonFaults(c) \/ PythonRaises(c)
      BY <1>1, <3>3 DEF PythonFaults, PythonRaises, CallFails, Calls
    <3> QED
      BY <1>14, <3>1, <3>2, <3>3
  <2>5. \A q \in Run : Asking(q, d, s)' => Asking(q, d, s)
    BY <2>1 DEF Asking
  <2> QED
    BY <2>1, <2>2, <2>3, <2>4, <2>5, CountedPlain
<1>15. ASSUME NEW c \in Call, PythonIsAlone(c)
       PROVE  Counted(d, s)'
  <2>1. /\ attempts' = attempts /\ late' = late /\ pc' = pc /\ target' = target /\ asked' = asked
        /\ call' = [call EXCEPT ![c] = NoCall] /\ faults' = faults
    BY <1>15 DEF PythonIsAlone, tables, loop
  <2>2. call'[c].phase = "idle" /\ \A e \in Call \ {c} : call'[e] = call[e]
    BY <1>1, <2>1 DEF NoCall
  <2>3. \A q \in Run : Asking(q, d, s)' => Asking(q, d, s)
    BY <2>1 DEF Asking
  <2> QED
    BY <2>1, <2>2, <2>3, CountedPlain
<1>16. ASSUME NEW c \in Call, PythonPosts(c)
       PROVE  Counted(d, s)'
  <2>1. /\ late' = late /\ pc' = pc /\ target' = target /\ asked' = asked /\ faults' = faults
        /\ call[c].phase = "posting"
    BY <1>16 DEF PythonPosts, loop
  <2>2. PICK x \in call[c].doc, report \in call[c].report : Receives(x, report)
    BY <1>16 DEF PythonPosts
  <2>3. x \in Doc /\ report \in Report /\ DOMAIN report.results \subseteq call[c].asked
    BY <1>1 DEF Calls, Requested, Sound
  <2>4. \A e \in Call \ {c} : call'[e] = call[e]
    BY <1>1, <1>16 DEF PythonPosts
  <2>5. /\ call'[c].phase = "answering"
        /\ call'[c].doc = call[c].doc /\ call'[c].asked = call[c].asked
        /\ call'[c].for = call[c].for
    BY <1>1, <1>16 DEF PythonPosts, Calls
  <2>6. \A q \in Run : Asking(q, d, s)' => Asking(q, d, s)
    BY <2>1 DEF Asking
  <2>7. CASE ~ (d = x /\ s \in DOMAIN report.results)
    <3>1. attempts'[d][s] = attempts[d][s]
      BY <1>3, <2>2, <2>3, <2>7
    <3> QED
      BY <2>1, <2>4, <2>5, <2>6, <3>1, CountedPlain
  <2>8. CASE d = x /\ s \in DOMAIN report.results /\ call[c].for # {}
    <3>1. Awaited(c, d, s)
      BY <2>3, <2>8 DEF Awaited
    <3>2. attempts'[d][s] = attempts[d][s] + 1
      BY <1>4, <2>2, <2>3, <2>8
    <3> QED
      BY <2>1, <2>4, <2>5, <2>6, <3>1, <3>2, CountedAwaited
  <2>9. CASE d = x /\ s \in DOMAIN report.results /\ call[c].for = {}
    <3>1. c \in Lost(d, s) /\ Lost(d, s)' \subseteq Lost(d, s) \ {c}
      BY <2>1, <2>3, <2>4, <2>5, <2>9 DEF Lost
    <3>2. LatePosts(d, s)' \subseteq LatePosts(d, s)
      BY <2>1 DEF LatePosts
    <3>3. Outstanding(d, s)' + 1 <= Outstanding(d, s)
      BY <3>1, <3>2, OneLessOutstanding
    <3>4. attempts'[d][s] = attempts[d][s] + 1
      BY <1>4, <2>2, <2>3, <2>9
    <3>5. /\ Outstanding(d, s) \in Nat /\ Outstanding(d, s)' \in Nat
          /\ attempts[d][s] \in Nat /\ faults \in Nat
      BY FinitelyMany, FinitelyManyNext DEF TypeOK
    <3>6. /\ Outstanding(d, s)' + faults <= Outstanding(d, s) + faults'
          /\ Spent(d, s)' + faults <= Spent(d, s) + faults'
      BY <2>1, <3>3, <3>4, <3>5 DEF Spent
    <3>7. \A e \in Call : Awaited(e, d, s)' => Awaited(e, d, s) /\ call'[e].phase = call[e].phase
      BY <2>4, <2>5, <2>9 DEF Awaited
    <3> QED
      BY <2>6, <3>6, <3>7, CountedFrom
  <2> QED
    BY <2>7, <2>8, <2>9
\* The fault pays for the POST that will come late.
<1>17. ASSUME NEW c \in Call, PythonPostTimesOut(c)
       PROVE  Counted(d, s)'
  <2>1. /\ attempts' = attempts /\ pc' = pc /\ target' = target /\ asked' = asked
        /\ faults' = faults + 1 /\ call[c].phase = "posting"
        /\ late' = late \cup [doc : call[c].doc, report : call[c].report, tries : {call[c].tries}]
    BY <1>17 DEF PythonPostTimesOut, Fails, tables, loop
  <2>2. \A e \in Call \ {c} : call'[e] = call[e]
    BY <1>1, <1>17 DEF PythonPostTimesOut, TriesAgain
  <2>3. /\ call'[c].phase \in {"posting", "failed"}
        /\ call'[c].doc = call[c].doc /\ call'[c].asked = call[c].asked
        /\ call'[c].for = call[c].for
    BY <1>1, <1>17 DEF PythonPostTimesOut, TriesAgain, Calls
  <2>4. PICK x : late' \subseteq late \cup {x}
    <3>1. AtMostOne(call[c].doc) /\ AtMostOne(call[c].report)
      BY DEF Requested
    <3>2. ASSUME NEW x \in [doc : call[c].doc, report : call[c].report, tries : {call[c].tries}],
                 NEW y \in [doc : call[c].doc, report : call[c].report, tries : {call[c].tries}]
          PROVE  x = y
      BY <3>1 DEF AtMostOne
    <3> QED
      BY <2>1, <3>2
  <2>5. LatePosts(d, s)' \subseteq LatePosts(d, s) \cup {x}
    BY <2>4 DEF LatePosts
  <2>6. Lost(d, s)' \subseteq Lost(d, s)
    BY <2>1, <2>2, <2>3 DEF Lost
  <2>7. Outstanding(d, s)' <= Outstanding(d, s) + 1
    BY <2>5, <2>6, OneMoreOutstanding
  <2>8. /\ Outstanding(d, s) \in Nat /\ Outstanding(d, s)' \in Nat
        /\ attempts[d][s] \in Nat /\ faults \in Nat
    BY FinitelyMany, FinitelyManyNext DEF TypeOK
  <2>9. /\ Outstanding(d, s)' + faults <= Outstanding(d, s) + faults'
        /\ Spent(d, s)' + faults <= Spent(d, s) + faults'
    BY <2>1, <2>7, <2>8 DEF Spent
  <2>10. \A e \in Call : Awaited(e, d, s)' =>
           Awaited(e, d, s) /\ (call'[e].phase = call[e].phase \/ call'[e].phase = "failed")
    BY <2>1, <2>2, <2>3 DEF Awaited
  <2>11. \A q \in Run : Asking(q, d, s)' => Asking(q, d, s)
    BY <2>1 DEF Asking
  <2> QED
    BY <2>9, <2>10, <2>11, CountedFrom
<1>18. ASSUME NEW post \in late, LateArrives(post)
       PROVE  Counted(d, s)'
  <2>1. /\ late' = late \ {post} /\ call' = call /\ faults' = faults
        /\ pc' = pc /\ target' = target /\ asked' = asked
        /\ Receives(post.doc, post.report)
    BY <1>18 DEF LateArrives, loop
  <2>2. post.doc \in Doc /\ post.report \in Report
    BY DEF TypeOK
  <2>3. \A q \in Run : Asking(q, d, s)' => Asking(q, d, s)
    BY <2>1 DEF Asking
  <2>4. CASE d = post.doc /\ s \in DOMAIN post.report.results
    <3>1. post \in LatePosts(d, s) /\ LatePosts(d, s)' \subseteq LatePosts(d, s) \ {post}
      BY <2>1, <2>4 DEF LatePosts
    <3>2. Lost(d, s)' \subseteq Lost(d, s)
      BY <2>1 DEF Lost
    <3>3. Outstanding(d, s)' + 1 <= Outstanding(d, s)
      BY <3>1, <3>2, OneLessOutstanding
    <3>4. attempts'[d][s] = attempts[d][s] + 1
      BY <1>4, <2>1, <2>2, <2>4
    <3>5. /\ Outstanding(d, s) \in Nat /\ Outstanding(d, s)' \in Nat
          /\ attempts[d][s] \in Nat /\ faults \in Nat
      BY FinitelyMany, FinitelyManyNext DEF TypeOK
    <3>6. /\ Outstanding(d, s)' + faults <= Outstanding(d, s) + faults'
          /\ Spent(d, s)' + faults <= Spent(d, s) + faults'
      BY <2>1, <3>3, <3>4, <3>5 DEF Spent
    <3>7. \A e \in Call : Awaited(e, d, s)' => Awaited(e, d, s) /\ call'[e].phase = call[e].phase
      BY <2>1 DEF Awaited
    <3> QED
      BY <2>3, <3>6, <3>7, CountedFrom
  <2>5. CASE ~ (d = post.doc /\ s \in DOMAIN post.report.results)
    <3>1. attempts'[d][s] = attempts[d][s]
      BY <1>3, <2>1, <2>2, <2>5
    <3> QED
      BY <2>1, <2>3, <3>1, CountedPlain
  <2> QED
    BY <2>4, <2>5
<1>19. CASE TimePasses \/ Restart \/ UNCHANGED vars
  <2>1. /\ attempts' = attempts /\ late' = late /\ call' = call /\ faults' = faults
        /\ pc' = pc /\ target' = target /\ asked' = asked
    BY <1>19 DEF TimePasses, Restart, vars, tables, loop, python
  <2>2. \A q \in Run : Asking(q, d, s)' => Asking(q, d, s)
    BY <2>1 DEF Asking
  <2> QED
    BY <1>2, <2>1, <2>2
<1> QED
  BY <1>5, <1>6, <1>7, <1>8, <1>9, <1>10, <1>12, <1>13, <1>14, <1>15, <1>16, <1>17, <1>18, <1>19
     DEF Next, LoopStep, PythonStep

\* The counting invariant holds when triggers come one at a time.
THEOREM CountingHolds ==
  ASSUME OneTrigger
  PROVE  Spec => []CInv
<1>1. Init => CInv
  <2> SUFFICES ASSUME Init
               PROVE  CInv
    OBVIOUS
  <2>1. late = {} /\ Busy = {}
    BY DEF Init, Busy, NoCall
  <2>2. Finite
    BY <2>1, FS_EmptySet DEF Finite
  <2>3. ASSUME NEW d \in Doc, NEW s \in Step
        PROVE  Counted(d, s)
    <3>1. LatePosts(d, s) = {} /\ Lost(d, s) = {}
      BY <2>1 DEF LatePosts, Lost, Busy
    <3>2. Outstanding(d, s) = 0
      BY <3>1, FS_EmptySet DEF Outstanding
    <3>3. attempts[d][s] = 0 /\ faults = 0 /\ MaxRetries \in Nat
      BY ProcessingAssumption DEF Init
    <3>4. \A r \in Run : ~ Asking(r, d, s)
      BY DEF Init, Asking
    <3>5. \A c \in Call : ~ Awaited(c, d, s)
      BY DEF Init, Awaited, NoCall
    <3> QED
      BY <3>2, <3>3, <3>4, <3>5 DEF Counted, Spent, Bound
  <2> QED
    BY <2>2, <2>3 DEF CInv
<1>2. IInv /\ IInv' /\ CInv /\ [Next]_vars => CInv'
  <2> SUFFICES ASSUME IInv, IInv', CInv, [Next]_vars
               PROVE  CInv'
    OBVIOUS
  <2>1. Finite'
    BY FiniteStep DEF IInv, CInv
  <2>2. ASSUME NEW d \in Doc, NEW s \in Step
        PROVE  Counted(d, s)'
    <3>1. TypeOK' /\ Finite /\ Counted(d, s)
      BY DEF IInv, CInv
    <3> QED
      BY <2>1, <3>1, CountedStep
  <2> QED
    BY <2>1, <2>2 DEF CInv
<1> QED
  BY <1>1, <1>2, InvariantHolds, PTL DEF Spec

\* UR-069: whatever fails, the attempts of a step stay within the retry limit, one
\* more for the double reception of the last report, and one for every fault.
THEOREM AttemptsTheorem ==
  ASSUME OneTrigger
  PROVE  Spec => []AttemptsAreBounded
<1>1. IInv /\ CInv => AttemptsAreBounded
  <2> SUFFICES ASSUME IInv, CInv, NEW d \in Doc, NEW s \in Step
               PROVE  attempts[d][s] <= MaxRetries + 1 + faults
    BY DEF AttemptsAreBounded
  <2>1. Counted(d, s) /\ Outstanding(d, s) \in Nat
    BY FinitelyMany DEF CInv
  <2>2. attempts[d][s] \in Nat /\ faults \in Nat /\ MaxRetries \in Nat
    BY ProcessingAssumption DEF IInv, TypeOK
  <2> QED
    BY <2>1, <2>2 DEF Counted, Spent, Bound
<1> QED
  BY <1>1, InvariantHolds, CountingHolds, PTL

=============================================================================
