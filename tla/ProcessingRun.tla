---------------------------- MODULE ProcessingRun ----------------------------
(***************************************************************************)
(* Document processing: the trigger of a run, its background loop, the     *)
(* calls of the Python service that the loop makes, the results that come  *)
(* back twice, by a POST of Python's and in the answer to the call.  Of    *)
(* what a report brings only the steps and the chunks are followed here:   *)
(* its flag and its metadata, which no run looks at, are in Curation, its  *)
(* entities in Vocabulary.                                                 *)
(*                                                                         *)
(* An action is the code between two awaits.  The transaction of           *)
(* receiveProcessingResults is one action, at its commit.                  *)
(***************************************************************************)
EXTENDS Naturals, Pipeline

CONSTANTS
  Doc,          \* documents whose pipeline steps have been seeded
  Run,          \* triggers; one whose run has ended may be used again
  Call,         \* bound: requests that Python has at hand at one time
  MaxRetries,   \* pipeline.maxRetries
  PostAttempts, \* SERVICE.HTTP.RETRY_COUNT
  OneTrigger,   \* TRUE: no trigger is sent before the last one is answered
  MaxFaults     \* bound: crashes, and failing operations and messages; but not
                \* the calls of Python that raise, which have no bound

ASSUME ProcessingAssumption ==
  /\ MaxRetries \in Nat \ {0}
  /\ PostAttempts \in Nat \ {0}
  /\ OneTrigger \in BOOLEAN
  /\ MaxFaults \in Nat

VARIABLES
  server,       \* the Express process
  runStatus,    \* the status column of each run, "none" without a row
  step,         \* step[d][s]: the status column of pipeline_steps
  attempts,     \* attempts[d][s]: its attempt_count column
  stale,        \* running steps that were started longer ago than the timeout
  chunks,       \* chunks[d]: how often its chunks have been inserted
  pc,           \* where the trigger of a run, and then its loop, stands
  queue,        \* documents that the loop has still to take up
  target,       \* the document it is at
  asked,        \* the steps it has found incomplete
  errored,      \* allErrored
  call,         \* the requests of Python
  late,         \* POSTs whose sender has ceased to wait, and Express not
  faults,       \* faults so far
  abandoned     \* history: documents with a report that came, or may come, when
                \* its receiver or its sender had ceased to wait

loop == <<pc, queue, target, asked, errored>>
tables == <<runStatus, step, attempts, stale, chunks>>
python == <<call, late, abandoned>>
vars == <<server, tables, loop, python, faults>>

Triggering == {"checked", "reset", "queued"}
Looping == {"next", "listed", "marked", "waiting"}

\* A request of Python: working on it, posting its report, having an answer or
\* an error for the run that waits for it, if there is one.
NoCall == [phase |-> "idle", doc |-> {}, asked |-> {}, report |-> {},
           tries |-> 0, for |-> {}]
Calls ==
  [phase : {"idle", "working", "posting", "answering", "failed"},
   doc : SUBSET Doc, asked : SUBSET Step, report : SUBSET Report,
   tries : 0..PostAttempts, for : SUBSET Run]

TypeOK ==
  /\ server \in {"up", "down"}
  /\ runStatus \in [Run -> {"none", "in_progress", "completed", "failed"}]
  /\ step \in [Doc -> [Step -> {"pending", "running", "completed", "failed"}]]
  /\ attempts \in [Doc -> [Step -> Nat]]
  /\ stale \subseteq Doc \X Step
  /\ late \subseteq [doc : Doc, report : Report, tries : 1..PostAttempts]
  /\ abandoned \subseteq Doc
  /\ chunks \in [Doc -> Nat]
  /\ pc \in [Run -> {"idle"} \cup Triggering \cup Looping]
  /\ queue \in [Run -> SUBSET Doc] /\ target \in [Run -> SUBSET Doc]
  /\ asked \in [Run -> SUBSET Step] /\ errored \in [Run -> BOOLEAN]
  /\ call \in [Call -> Calls]
  /\ faults \in 0..MaxFaults

Init ==
  /\ server = "up"
  /\ runStatus = [r \in Run |-> "none"]
  /\ step = [d \in Doc |-> [s \in Step |-> "pending"]]
  /\ attempts = [d \in Doc |-> [s \in Step |-> 0]]
  /\ stale = {}
  /\ chunks = [d \in Doc |-> 0]
  /\ late = {} /\ abandoned = {}
  /\ pc = [r \in Run |-> "idle"]
  /\ queue = [r \in Run |-> {}] /\ target = [r \in Run |-> {}]
  /\ asked = [r \in Run |-> {}] /\ errored = [r \in Run |-> FALSE]
  /\ call = [c \in Call |-> NoCall]
  /\ faults = 0

-----------------------------------------------------------------------------

\* Mutant: only steps that are still pending are held to the limit.
IncompleteUnlimited(d) ==
  {s \in Step : \/ step[d][s] = "pending" /\ attempts[d][s] < MaxRetries
                \/ step[d][s] = "failed"}

\* getIncompleteStepNames.
Incomplete(d) ==
  {s \in Step : step[d][s] \in {"pending", "failed"} /\ attempts[d][s] < MaxRetries}

Running == {ds \in Doc \X Step : step[ds[1]][ds[2]] = "running"}

Fails == faults < MaxFaults /\ faults' = faults + 1

\* Python goes on with the requests that nobody waits for any longer.
Abandons(runs) ==
  abandoned' = abandoned \cup
    UNION {call[c].doc : c \in {c \in Call : /\ call[c].for \cap runs # {}
                                            /\ call[c].phase \in {"working", "posting"}}}

\* The transaction of receiveProcessingResults, for a document and a report.
Receives(d, report) ==
  LET reported == DOMAIN report.results
  IN /\ step' = [step EXCEPT ![d] =
           [s \in Step |-> IF s \in reported THEN report.results[s] ELSE @[s]]]
     /\ attempts' = [attempts EXCEPT ![d] =
           [s \in Step |-> IF s \in reported THEN @[s] + 1 ELSE @[s]]]
     /\ stale' = stale \ ({d} \X reported)
     /\ chunks' = [chunks EXCEPT ![d] = IF report.embedded THEN @ + 1 ELSE @]
     /\ UNCHANGED runStatus

-----------------------------------------------------------------------------
(* triggerProcessing.                                                      *)

Moves(r, from, to) ==
  /\ server = "up" /\ pc[r] = from
  /\ pc' = [pc EXCEPT ![r] = to]

\* Mutant: a run in progress is overlooked.
TriggerChecksNothing(r) ==
  /\ OneTrigger => \A q \in Run : pc[q] \notin Triggering
  /\ Moves(r, "idle", "checked")
  /\ UNCHANGED <<server, tables, queue, target, asked, errored, python, faults>>

\* A run in progress refuses the trigger.
TriggerChecks(r) ==
  /\ OneTrigger => \A q \in Run : pc[q] \notin Triggering
  /\ \A q \in Run : runStatus[q] # "in_progress"
  /\ Moves(r, "idle", "checked")
  /\ UNCHANGED <<server, tables, queue, target, asked, errored, python, faults>>

\* Mutant: steps without an attempt are passed over.
TriggerResetsAttempted(r) ==
  LET tried == {ds \in stale : attempts[ds[1]][ds[2]] > 0}
  IN /\ Moves(r, "checked", "reset")
     /\ step' = [d \in Doc |-> [s \in Step |->
                   IF <<d, s>> \in tried THEN "failed" ELSE step[d][s]]]
     /\ stale' = stale \ tried
     /\ UNCHANGED <<server, runStatus, attempts, chunks,
                    queue, target, asked, errored, python, faults>>

\* resetStaleRunningSteps, which leaves the attempt count alone.
TriggerResets(r) ==
  /\ Moves(r, "checked", "reset")
  /\ step' = [d \in Doc |-> [s \in Step |->
                IF <<d, s>> \in stale THEN "failed" ELSE step[d][s]]]
  /\ stale' = {}
  /\ UNCHANGED <<server, runStatus, attempts, chunks,
                 queue, target, asked, errored, python, faults>>

TriggerQueues(r) ==
  /\ Moves(r, "reset", "queued")
  /\ queue' = [queue EXCEPT ![r] = {d \in Doc : Incomplete(d) # {}}]
  /\ UNCHANGED <<server, tables, target, asked, errored, python, faults>>

\* The run's row is inserted and its loop started.
TriggerCreates(r) ==
  /\ Moves(r, "queued", "next")
  /\ runStatus' = [runStatus EXCEPT ![r] = "in_progress"]
  /\ errored' = [errored EXCEPT ![r] = queue[r] # {}]
  /\ UNCHANGED <<server, step, attempts, stale, chunks,
                 queue, target, asked, python, faults>>

TriggerFaults(r) ==
  /\ \E from \in Triggering : Moves(r, from, "idle")
  /\ queue' = [queue EXCEPT ![r] = {}]
  /\ Fails
  /\ UNCHANGED <<server, tables, target, asked, errored, python>>

-----------------------------------------------------------------------------
(* runAsyncLoop.                                                           *)

LoopLists(r, d) ==
  /\ d \in queue[r]
  /\ Moves(r, "next", "listed")
  /\ queue' = [queue EXCEPT ![r] = @ \ {d}]
  /\ target' = [target EXCEPT ![r] = {d}]
  /\ asked' = [asked EXCEPT ![r] = Incomplete(d)]
  /\ UNCHANGED <<server, tables, errored, python, faults>>

\* Mutant: every step of the document is marked.
LoopMarksAll(r) ==
  /\ Moves(r, "listed", "marked")
  /\ step' = [d \in Doc |-> [s \in Step |->
                IF d \in target[r] THEN "running" ELSE step[d][s]]]
  /\ stale' = stale \ (target[r] \X Step)
  /\ UNCHANGED <<server, runStatus, attempts, chunks,
                 queue, target, asked, errored, python, faults>>

\* markStepsRunning takes the steps as they were listed.
LoopMarks(r) ==
  /\ Moves(r, "listed", "marked")
  /\ step' = [d \in Doc |-> [s \in Step |->
                IF d \in target[r] /\ s \in asked[r] THEN "running" ELSE step[d][s]]]
  /\ stale' = stale \ (target[r] \X asked[r])
  /\ UNCHANGED <<server, runStatus, attempts, chunks,
                 queue, target, asked, errored, python, faults>>

LoopCalls(r, c) ==
  /\ call[c].phase = "idle"
  /\ Moves(r, "marked", "waiting")
  /\ call' = [call EXCEPT ![c] =
       [phase |-> "working", doc |-> target[r], asked |-> asked[r], report |-> {},
        tries |-> 0, for |-> {r}]]
  /\ UNCHANGED <<server, tables, queue, target, asked, errored, late, abandoned, faults>>

\* The answer is applied like a POST; the error of a failing transaction is
\* caught and logged.
LoopReceives(r, c) ==
  /\ call[c].phase = "answering" /\ r \in call[c].for
  /\ Moves(r, "waiting", "next")
  /\ \/ /\ \E d \in call[c].doc, report \in call[c].report : Receives(d, report)
        /\ errored' = [errored EXCEPT ![r] = FALSE]
        /\ UNCHANGED faults
     \/ Fails /\ UNCHANGED <<tables, errored>>
  /\ call' = [call EXCEPT ![c] = NoCall]
  /\ target' = [target EXCEPT ![r] = {}] /\ asked' = [asked EXCEPT ![r] = {}]
  /\ UNCHANGED <<server, queue, late, abandoned>>

\* Whatever goes wrong with a document is caught and logged.
LoopSkips(r) ==
  /\ target' = [target EXCEPT ![r] = {}] /\ asked' = [asked EXCEPT ![r] = {}]
  /\ UNCHANGED <<server, tables, queue, errored, late>>

\* Mutant: only the error after the last retry ends the wait.
LoopFailsExhausted(r, c) ==
  /\ call[c].phase = "failed" /\ r \in call[c].for /\ call[c].tries = 0
  /\ Moves(r, "waiting", "next")
  /\ LoopSkips(r)
  /\ call' = [call EXCEPT ![c] = NoCall]
  /\ UNCHANGED <<abandoned, faults>>

LoopFails(r, c) ==
  /\ call[c].phase = "failed" /\ r \in call[c].for
  /\ Moves(r, "waiting", "next")
  /\ LoopSkips(r)
  /\ call' = [call EXCEPT ![c] = NoCall]
  /\ UNCHANGED <<abandoned, faults>>

\* A query fails, or the fetch does while Python goes on.
LoopFaults(r) ==
  /\ \E from \in {"listed", "marked", "waiting"} : Moves(r, from, "next")
  /\ LoopSkips(r)
  /\ call' = [c \in Call |-> [call[c] EXCEPT !.for = @ \ {r}]]
  /\ Abandons({r})
  /\ Fails

LoopEnds(r) ==
  /\ queue[r] = {}
  /\ Moves(r, "next", "idle")
  /\ runStatus' = [runStatus EXCEPT ![r] = IF errored[r] THEN "failed" ELSE "completed"]
  /\ errored' = [errored EXCEPT ![r] = FALSE]
  /\ UNCHANGED <<server, step, attempts, stale, chunks,
                 queue, target, asked, python, faults>>

-----------------------------------------------------------------------------
(* The Python service.                                                     *)

PythonProcesses(c) ==
  /\ call[c].phase = "working"
  /\ \E report \in Reports(call[c].asked) :
       call' = [call EXCEPT ![c].phase = "posting", ![c].report = {report},
                            ![c].tries = PostAttempts]
  /\ UNCHANGED <<server, tables, loop, late, abandoned, faults>>

\* A call ends without a report, and with a 500.
CallFails(c) ==
  /\ call' = [call EXCEPT ![c].phase = "failed"]
  /\ UNCHANGED <<server, tables, loop, late, abandoned>>

\* An exception that nobody catches, or a POST that Express refuses: neither is
\* tried again, and the next call may meet the same.
PythonRaises(c) ==
  /\ \/ call[c].phase = "working" /\ MayRaise(call[c].asked)
     \/ call[c].phase = "posting" /\ server = "up"
  /\ CallFails(c)
  /\ UNCHANGED faults

\* The end of the process.
PythonFaults(c) ==
  /\ call[c].phase \in {"working", "posting"}
  /\ CallFails(c)
  /\ Fails

\* Mutant: the attempts are not counted down.
TriesForEver(c) ==
  call' = [call EXCEPT ![c].tries = @ + 1]

\* _with_retry: an attempt that has got no answer is repeated, up to a limit.
TriesAgain(c) ==
  call' = [call EXCEPT ![c].tries = @ - 1,
                       ![c].phase = IF call[c].tries = 1 THEN "failed" ELSE "posting"]

PythonPosts(c) ==
  /\ server = "up" /\ call[c].phase = "posting"
  /\ \E d \in call[c].doc, report \in call[c].report : Receives(d, report)
  /\ call' = [call EXCEPT ![c].phase = "answering"]
  /\ UNCHANGED <<server, loop, late, abandoned, faults>>

\* The POST reaches Express, and its answer is lost or comes too late.
PythonPostTimesOut(c) ==
  /\ server = "up" /\ call[c].phase = "posting"
  /\ late' = late \cup [doc : call[c].doc, report : call[c].report, tries : {call[c].tries}]
  /\ abandoned' = abandoned \cup call[c].doc
  /\ TriesAgain(c) /\ Fails
  /\ UNCHANGED <<server, tables, loop>>

LateArrives(post) ==
  /\ server = "up" /\ post \in late
  /\ Receives(post.doc, post.report)
  /\ late' = late \ {post}
  /\ UNCHANGED <<server, loop, call, abandoned, faults>>

\* The POST does not get through, or its transaction is rolled back.
PythonPostFails(c) ==
  /\ call[c].phase = "posting"
  /\ TriesAgain(c)
  /\ IF server = "down" THEN UNCHANGED faults ELSE Fails
  /\ UNCHANGED <<server, tables, loop, late, abandoned>>

\* Nobody waits for the answer.
PythonIsAlone(c) ==
  /\ call[c].phase \in {"answering", "failed"} /\ call[c].for = {}
  /\ call' = [call EXCEPT ![c] = NoCall]
  /\ UNCHANGED <<server, tables, loop, late, abandoned, faults>>

-----------------------------------------------------------------------------
(* Time, and crashes of Express.                                           *)

\* The timeout passes for all steps that are running.
TimePasses ==
  /\ stale # Running /\ stale' = Running
  /\ UNCHANGED <<server, runStatus, step, attempts, chunks,
                 loop, python, faults>>

\* No sweep of start() touches runs or steps.
Crash ==
  /\ server = "up" /\ server' = "down"
  /\ pc' = [r \in Run |-> "idle"]
  /\ queue' = [r \in Run |-> {}] /\ target' = [r \in Run |-> {}]
  /\ asked' = [r \in Run |-> {}] /\ errored' = [r \in Run |-> FALSE]
  /\ call' = [c \in Call |-> [call[c] EXCEPT !.for = {}]]
  /\ late' = {} /\ Abandons(Run)
  /\ Fails
  /\ UNCHANGED tables

Restart ==
  /\ server = "down" /\ server' = "up"
  /\ UNCHANGED <<tables, loop, python, faults>>

-----------------------------------------------------------------------------

TriggerStep(r) == TriggerResets(r) \/ TriggerQueues(r) \/ TriggerCreates(r)

LoopStep(r) ==
  \/ \E d \in Doc : LoopLists(r, d)
  \/ LoopMarks(r) \/ LoopEnds(r)
  \/ \E c \in Call : LoopCalls(r, c) \/ LoopReceives(r, c) \/ LoopFails(r, c)

PythonStep(c) ==
  PythonProcesses(c) \/ PythonPosts(c) \/ PythonPostFails(c) \/ PythonIsAlone(c)

Next ==
  \/ \E r \in Run : \/ TriggerChecks(r) \/ TriggerStep(r) \/ TriggerFaults(r)
                    \/ LoopStep(r) \/ LoopFaults(r)
  \/ \E c \in Call : PythonStep(c) \/ PythonPostTimesOut(c) \/ PythonFaults(c)
                     \/ PythonRaises(c)
  \/ \E post \in late : LateArrives(post)
  \/ TimePasses \/ Crash \/ Restart

Spec == Init /\ [][Next]_vars

\* Both event loops go on with what they have begun, and Express is restarted.
Fairness ==
  /\ \A r \in Run : WF_vars(TriggerStep(r)) /\ WF_vars(LoopStep(r))
  /\ \A c \in Call : WF_vars(PythonStep(c))
  /\ WF_vars(Restart)

\* Besides, somebody goes on triggering runs, and time goes on.
Diligence == WF_vars(TimePasses) /\ WF_vars(\E r \in Run : TriggerChecks(r))

FairSpec == Spec /\ Fairness /\ Diligence

-----------------------------------------------------------------------------
(* Properties.                                                             *)

\* No trigger is accepted while a loop works, whatever has crashed or ended before.
TriggersAreRefused ==
  [][\A r \in Run : pc[r] = "idle" /\ pc'[r] # "idle" =>
       \A q \in Run : pc[q] \notin Looping]_vars

\* UR-069: a retry limit bounds the attempts.  Each is counted twice, when the
\* POST is received and when the answer is, and once more for a lost answer to
\* the POST or for a call that was given up.
AttemptsAreBounded ==
  \A d \in Doc, s \in Step : attempts[d][s] <= MaxRetries + 1 + faults

\* A completed step stays completed, unless a call for its document was given up
\* and has reported, or been overtaken, late.
ResultsStand ==
  [][\A d \in Doc, s \in Step :
       step[d][s] = "completed" /\ d \notin abandoned => step'[d][s] = "completed"]_vars

\* UR-065: the search index has a document only when its embedding step has been
\* completed, also while its other steps are taken up again.
SearchableIsEmbedded ==
  \A d \in Doc : chunks[d] > 0 =>
    step[d]["embedding_generation"] = "completed" \/ d \in abandoned

\* A trigger or a loop comes to its end, whatever fails.
RunsEnd == \A r \in Run : pc[r] # "idle" ~> pc[r] = "idle"

\* A run in progress that nobody works at: Express has died in the middle of it.
Interrupted == \E r \in Run : runStatus[r] = "in_progress" /\ pc[r] = "idle"

\* A step that no further run takes up.
IsSettled(d, s) ==
  \/ step[d][s] = "completed"
  \/ step[d][s] = "failed" /\ attempts[d][s] >= MaxRetries

Raises == \E c \in Call : PythonRaises(c)

\* However pipelines halt, steps fail, calls and answers are lost, and steps are
\* left running: unless a run is interrupted, there comes an end to the retries
\* of every step but the last, once calls no longer raise.
RetriesEnd ==
  <>[][~Raises]_vars =>
    <>[](Interrupted \/ \A d \in Doc, s \in Step \ {"embedding_generation"} : IsSettled(d, s))

\* UR-069: "A configurable retry limit must prevent infinite retry loops", of these
\* steps, whatever their calls do.
RetriesAreLimited ==
  <>[](Interrupted \/ \A d \in Doc, s \in Step \ {"embedding_generation"} : IsSettled(d, s))

\* The comment of resetStaleRunningSteps has it "recover from interrupted runs".
InterruptedStepsRecover == stale # {} ~> stale = {}
=============================================================================
