# Formal models of the institutional-knowledge archive

This directory holds TLA+ specifications of the document archive in this
repository, TLC configurations that model-check them on small instances, and
TLAPS proofs of the theorems that matter most for every instance.  All paths
below are relative to the repository's root.

## 1. The system and its parts

A Next.js/Hono **frontend** (`apps/frontend`) serves archivists.  It talks over
HTTP to an **Express backend** (`apps/backend`), which owns PostgreSQL and two
directory trees, *staging* and *permanent*.  A **Python service**
(`services/processing`) runs the six-step document pipeline when Express asks
it to, and answers natural-language queries over the search endpoints of
Express.  Express is one Node process: handlers interleave only at an `await`,
and every `await` of the database, the file system or another service is a
point at which anything else may run, or the process may die.

| part | state it keeps | operations | hard behaviour | what makes it correct |
|---|---|---|---|---|
| Web upload (`services/documents.ts`, `uploadHandler.ts`, `uploadSweep.ts`) | `documents` rows, staging and permanent files; the handler's position | initiate, upload, finalize, DELETE; startup sweep | client timeouts whose DELETE races a running POST; two uploads of one file; crashes between file and row | a confirmed document keeps row and file; no twins; every file has a row that leads to it |
| Bulk ingestion (`services/ingestion.ts`, `ingestionSweep.ts`) | `ingestion_runs`, run-linked `documents`, one staging directory per run | create (with sweep), add file, complete, cleanup; startup sweep | moves outside the transaction; sweeps of a run that is still working; same names, same contents | a run is all or nothing; a completed run's documents have their own bytes |
| Processing (`services/processing.ts`, repositories) | `processing_runs`, `pipeline_steps`, chunks, embeddings | trigger, background loop, receive results | crash of the loop; results applied twice; two triggers at once; stale steps | no trigger is accepted over a working loop, completed steps stay so, retries come to an end |
| Pipeline (`services/processing/pipeline`) | none between calls | `process`: six steps with gates, `_post_results` | partial results, halting gates, retries with no earlier outputs, one bad chunk | what is reported follows from the steps that ran, and the answer repeats what was posted |
| Curation (`services/curation.ts`, `routes/curation.ts`) | flags and metadata on `documents` | queue, detail, clear flag, save metadata | reports that come between a check and its update, or after a correction; a form sent over a newer row | flags go by clearing only and are surfaced in their turn; no description is lost |
| Vocabulary (`services/vocabulary.ts`, `graph.ts`) | `vocabulary_terms`, `rejected_terms`, relationships, occurrences | queue, accept, reject, add; upsert by processing | check-then-act across transactions | a term is not both accepted and rejected |
| Search and graph (`services/search.ts`, `graphstore`, `vectorstore`) | reads only | vector search, graph search, traversal | a recursive CTE with a depth bound and no check for cycles | the entities within the depth, each once; the nearest chunks |
| Query (`services/processing/query`) | none | understand, embed, search with retries, assemble context, synthesise | token budget; what ends a query, and what need not | citations refer to what was found; failures have a known cause |
| Frontend curation calls and pages (`server/requests/curation.ts`, `server/routes/curation.ts`, hooks of the pages) | the lists and forms that pages show | eight calls; refetch after a success | two status tables in a row; timeouts that leave a request running | what is refused is not told as done |
| Middleware (`middleware/auth.ts`, `validate.ts`, `errorHandler.ts`) | none | key, schema, error handler | their order | a refused request changes nothing |
| Configuration, logging, migrations, seed, administration | configuration | start-up; `REINDEX` | none | - |

Calls between the parts: the frontend calls Express (three POSTs and a
best-effort DELETE per upload; one call per curation request); Express calls Python
once per document and run, and Python both *posts* its results back to Express
and *returns* them in the answer to that call; Express and both sweeps share the
`documents` table; the sweeps run before Express listens.

## 2. Modules and the code they model

| module | what it models | state (variables) | actions and the code |
|---|---|---|---|
| `Archive` | what intake promises, abstractly | documents in the archive, documents whose submitter was told so | `Accept`, `Confirm`, `Withdraw` of a batch |
| `UploadLifecycle` | web upload: frontend handler, document service, table, directories, startup sweep | `client`, `post`, `del` (where each handler and call stands), `status`, `staging`, `permanent`, `server`, `sweepTodo`, ... | one action per stretch between two awaits of `uploadHandler.ts`, `documents.ts`, `uploadSweep.ts`; `Crash`, `Restart`, and a fault for every operation whose error the code handles |
| `IngestionRun` | bulk ingestion: the four operations, the sweep of `createIngestionRun`, both startup sweeps | `runStatus`, `row`, `linked`, `staging`, `permanent`, the position of each call | the same for `ingestion.ts`, `ingestionSweep.ts`, `uploadSweep.ts`; `WebFinalizes` is the effect of a web upload on the table, which `UploadLifecycle` models in full |
| `Pipeline` | what one call of the Python pipeline can report for the steps it is asked for | none | `Reports(asked)`: the gates, failures and flags of `orchestrator.py` and its steps; `MayRaise(asked)`: whether the call may end without a report |
| `PipelineSteps` | what it does report, post and answer for a file, patterns, an LLM and embeddings of every kind | - | one operator per step and per conversion of `orchestrator.py`; `Reported` is shown to be within `Pipeline!Reports` |
| `ProcessingRun` | trigger, background loop, reception of results | `runStatus`, `step`, `attempts`, `stale`, `chunks`, the position of each trigger and loop, the calls of Python | `Trigger*` and `Loop*` are `triggerProcessing` and `runAsyncLoop`, `Python*` the orchestrator with its POST and retries, `Receives` the transaction of `receiveProcessingResults`; a call may raise any number of times (`PythonRaises`), while the death of the service counts as a fault (`PythonFaults`) |
| `Curation` | document curation while reports come in | `row` (the metadata columns), `flagged`, `before` (the order of `flagged_at`), `owed` (reports posted and still to be answered), the queue pages with their requests, the detail pages with their forms, `late` (requests nobody waits for) | `Report*` are the metadata and flag part of `receiveProcessingResults`, `Clear*` and `Save*` the calls of `services/curation.ts` between two awaits, `Refetch`, `Click`, `Load`, `Submit` the hooks of the pages |
| `Gateway` | the way of a curation or vocabulary request through both servers and back | - | `ExpressAnswer` (middleware, routers), `KyResult`, `HonoAnswer`, `Hears`: status and error code at each stage |
| `Vocabulary` | terms, rejected names, relationships, occurrences | the four tables, `task`, `linked` and `altered` (a report's open transaction), `job` (a curator's call) | one action per SQL statement of `receiveProcessingResults` and `vocabulary.ts` at READ COMMITTED, waits for unique keys and for rows (`appendAlias`) and deadlocks included |
| `Chunking` | splitting and merging of chunks after the combined LLM pass | - | operators for `build_split_list`, `split_chunks`, `merge_chunks` and their callers |
| `QueryContext` | context assembly and citations | - | `AssembleContext`, `Synthesise` |
| `QueryService` | a whole query, with the vector search of Express that it calls | - | `Query`, `Handle` (`query_handler.py`), `WithRetry` (`http_client.py`), `VectorSearch`, `StoreSearch`, `Nearest` (service, store, SQL) |
| `GraphSearch` | graph traversal and search | - | `Walk`/`Rows` (the recursive CTE), `Traverse`, `Search` with its depth limit and the documents of each entity |
| `UploadLifecycleProofs`, `IngestionRunProofs`, `ProcessingRunProofs`, `VocabularyProofs`, `CurationProofs` | theorems about the state machines, section 6 | - | - |
| `GraphSearchProofs`, `AlgorithmProofs` | theorems about the algorithms, for every input | - | - |
| `ListLemmas` | what those rest on: induction, folds, concatenation and sorting of lists | - | - |
| `MC*` | instances for TLC | - | - |

How they compose: `UploadLifecycle` and `IngestionRun` both instantiate
`Archive` (`ArchiveOf`), which is how the two intake paths are shown to keep one
promise.  `ProcessingRun` extends `Pipeline`, and `PipelineSteps` instantiates it
(`Contract`) to show that a computed call is one of those `ProcessingRun` allows.
`Curation` extends `Gateway`, by which a queue page learns what has become of its
request (`Told`).  `QueryService` extends `QueryContext`.

The transaction of `receiveProcessingResults` is divided over three modules:
steps and chunks in `ProcessingRun`, entities and relationships in `Vocabulary`,
metadata and flag in `Curation`.  In the code no statement of one part reads what
another writes; a failure of one rolls back all, which each module has as a fault
of its own.

Conventions.  Names in comments are the source's.  An action of the Express
modules is the code from one `await` to the next; a database transaction that
talks to nothing but the database is one action at its commit, except in
`Vocabulary`, where its statements are separate because what they see matters.
Definitions whose comment begins with "Mutant:" are not part of a
specification: each is a plausible mistake in the definition that follows it,
kept to show that the property named in `PROJECT.json` would catch it.
A variable marked "history" exists for properties only and guards nothing.

Abstractions: contents are compared by their hash only; texts, vectors and page
scores are classes; wording and logging are left out.  In `Curation` one column
stands for document type, people, organisations and land references, which
reports and forms treat alike, and the date is left out, which only forms write.
A request that is refused before anything changes is, in the state machines, a
step that does not occur; what the curator is told of it is in `Gateway`.

## 3. Runs

Every bound is a constant of its configuration file.

| run | instance | bounds | what it shows |
|---|---|---|---|
| `upload_twins` | two uploads of one file, one with a client that may stop waiting | 2 faults (crashes or failing operations) | `ConfirmedIsArchived`, `FinalizedIsSound`: a document that was confirmed keeps row and file, with no twin; `StagingIsOwned`, `PermanentIsOwned`: the only ways in which files are left behind; `SweepClearsUnfinished`, `SweepIsRepeatable`; `ImplementsArchive`; `RequestsEnd` |
| `upload_late_delete` (violation) | one impatient upload | no fault | the DELETE sent after a timeout deletes a finalized row |
| `ingest_sequential` | a run of two files, a later run, web uploads of the same contents, one call at a time | 2 faults | `RunIsAtomic`, `FilesAreOwned` (in staging and in permanent storage), `SweepsAreOrderly`, `ImplementsArchive` |
| `ingest_overlap` | one run, two files of one name, calls overlapping in every way | 1 fault | `FinalizedIsSound`, `StartupClears`, `ComesToRest` |
| `processing_safe` | one document, two runs triggered again and again, two calls of Python, which may raise any number of times | retry limit 2, 2 POSTs, 1 fault | `TriggersAreRefused`, `AttemptsAreBounded`, `SearchableIsEmbedded`, `ResultsStand`; `RunsEnd`, `RetriesEnd` |
| `processing_retries` (violation) | one document, run and call | no fault | steps whose calls raise are asked for again for ever |
| `processing_stuck` (violation) | the same | 1 fault | after a crash in a run, stale steps are never reset |
| `vocabulary_together` | two reports with the same two entities in opposite orders, two curators with any number of calls | none needed: every statement may fail at any time | `TablesAgree`, `EntitiesAreKept`, `RelationshipsAreKept`, `RejectedStaysOut`, `AcceptedStands`; `WaitsEnd` |
| `vocabulary_accepted` (violation) | the same | - | an accepted term is deleted |
| `curation` | two documents, one queue page, a detail page for one of the documents | one row per answer of the queue, one value, 1 fault | `FlagsFallByClearing`, `FlagsAreSurfaced`, `DescriptionsStay` |
| `curation_overwritten` (violation) | one document, one detail page | no fault | the answer to a call overwrites what was corrected after its POST |
| `algorithms` | every input up to the bounds | texts of up to 7 tokens or up to 4 chunks of up to 4 letters, 0 < min < max <= 5; up to 3 results, budgets to 4, citations of 0 to 3; graphs of 3 entities and up to 3 relationships, depth up to 3 under a limit of 2; pipeline calls with up to 2 pages and chunks; queries with 2 stored chunks and 2 attempts; every request of a curator | `ChunkingIsExact`, `AnswersAreSound`, `ReportsAreKnown`, `SearchesAreExact`, `SuccessesAreEarned` |

Why the bounds are enough.  Uploads interact through the unique index and the
duplicate query alone, so that two uploads of one content show every
interaction; two faults allow a crash during the sweep that follows a crash.
Runs interact through the sweep that a later one begins with; files through a
shared path or a shared content, of which the two ingestion runs have one each.
Two faults again allow an interrupted recovery.  Documents do not interact in
`ProcessingRun` (a loop takes them one by one, and the tables are keyed by
document); what matters is that calls for one document overlap, and one fault is
enough to leave a call behind that nobody waits for.  A retry limit of 2 is the
least at which a count that goes up twice per attempt ends the retries of a step
after its first attempt, and one that goes up once does not.  In `Curation` a
queue that answers one row of two documents makes one wait for the other, the
least instance of a page that does not hold all; one document opened for editing
is enough because forms of different documents write different rows.  The pipeline's
weights and threshold are the shipped ones (`settings.json`), with which people
alone pass and document type with description do not.  The theorems of section 6
lift every safety property of a passing run from its instance to all, those of
bulk ingestion and processing with the same proviso on overlapping calls and
triggers as the runs.  The bounds matter most, therefore, for the liveness
properties and for the violations.
Deadlock is not checked (`CHECK_DEADLOCK FALSE`): all clients may have ended and
faults be used up, after which the system rightly stops; that nothing *hangs*
is what the liveness properties say.  No run uses symmetry.

## 4. Fairness

* `UploadLifecycle`, `IngestionRun`: weak fairness of whatever a handler or
  `start()` has begun, of answers, and of broken connections.  Node resumes
  every continuation whose await has settled.  Nothing is asked of archivists,
  of the ingestion client, of faults or crashes, or of whoever restarts Express.
* `ProcessingRun`: weak fairness of the event loops of Express and Python and
  of a restart (a supervisor's job), and *Diligence*: time goes on and somebody
  goes on triggering runs.  Without further triggers stale steps
  are not reset, because the reset is part of the trigger.  Nothing is asked of
  calls: each may raise, and go on doing so.  `RetriesEnd` therefore has the
  premise that some day they no longer do (`<>[][~Raises]_vars`); without it
  the property fails, which is the run `processing_retries`.
* `Vocabulary`: weak fairness per report and per call.  It covers waiting for a
  lock because PostgreSQL wakes the waiter when the holder ends, and its
  deadlock detection (`DeadlockAborts`) because that fires while the circle lasts.

* `Curation`: weak fairness of what Express and the browser owe: a request is
  answered, a list that was asked for (`mutate`) is fetched.  Besides *Diligence*:
  the curator at a queue page goes on clearing the flags it shows and comes back
  to a page that is empty.  Nothing is asked of reports, forms, faults, or requests
  that nobody waits for.

## 5. Findings that a run shows

1. `upload_late_delete`: `cleanupUpload` deletes by id a row whose status it
   checked two awaits earlier (`documents.ts:337-364`); a DELETE that the
   frontend sends after a timeout deletes a row that was finalized in between,
   which `documents.ts:351` says cannot be deleted.  Its permanent file stays.
2. `processing_stuck`: a crash during `runAsyncLoop` leaves its run `in_progress`;
   `triggerProcessing` refuses every later trigger (`processing.ts:219`) before
   it reaches the reset that should recover from interrupted runs
   (`pipelineSteps.ts:86-87`).
3. `processing_retries`: a call that raises, in a step (`docling_ocr.py:15` raises
   `NotImplementedError`) or because its report is refused (`orchestrator.py:407`),
   reports on nothing.  Attempts are counted per reported step
   (`processing.ts:75-85`) and stale steps are reset without one
   (`pipelineSteps.ts:89-95`), so that a document whose calls raise every time is
   called for in every run; `user-requirements.md:148` (UR-069) has "A
   configurable retry limit must prevent infinite retry loops".
4. `curation_overwritten`: Express applies a report when Python posts it and again
   when the call answers (`processing.ts:296`); what a curator has corrected in
   between is overwritten, which `phase-1-user-stories.md:758` lets a curator do
   for "any detected metadata field".
5. `vocabulary_accepted`: a rejection that read a candidate before its
   acceptance was written deletes the accepted term; both answer success.

## 6. Proofs

All theorems hold for every value of the constants under the assumptions named
in the modules (`UploadAssumption`, `IngestionAssumption`, `ProcessingAssumption`,
`VocabularyAssumption`, `CurationAssumption`, `QueryAssumption`,
`PipelineAssumption`), which say no more than what the constants are.  Every safety
property of a passing run, invariant or action property, is a theorem.

**`UploadLifecycleProofs`.**  `TypeCorrect`, `ConfirmedTheorem`,
`FinalizedTheorem`, `StagingTheorem`, `PermanentTheorem`, `SweepTheorem`,
`RepeatableTheorem`, and `Refinement`, which shows that the web upload implements
`Archive`.  None of the invariants is inductive: that a confirmed document is
never deleted rests on where its POST and DELETE can be.  The
inductive invariant `IInv` (`InvariantHolds`) therefore says, for each upload,
what the POST in flight tells about the client (`Calls`), what the point a
handler has reached tells about the row it read some awaits ago (`Rows`), what is
on disk (`Disk`), and that no handler runs during the sweep (`Sweep`).  A client
that stopped waiting weakens nearly every part; the history variable `gaveUp`
marks exactly those.

**`IngestionRunProofs`.**  Two invariants, the second on top of the first.  `IInv`
holds whatever calls overlap: files have contents that were submitted under their
path (`Submitted`), what a completion has taken and moved is in permanent storage
(`Moved`), the unique index and the foreign key hold (`Unique`, `ForeignKey`), and
the startup sweeps work on lists that hold all that is unfinished, files before
rows (`BootRest`, `BootLists`, `BootFiles`, `Clears`).  From it follow
`TypeCorrect`, `Finalized` and `CleanStart`.  `SInv` holds of a client that makes
one call at a time (`Sequential`): it waits for each answer, which nothing in the
server enforces.  One call is at work (`OneCall`), made when the client may
(`Accepted`, `Opened`, `Called`); the
point a completion has reached tells the status of its run (`Stages`) and what it
took is all of the run, uploaded (`Batch`, `Links`); a cleanup deletes what it has
read and misses no run (`Targets`, `Cleaning`, `Sweeping`); every file belongs to
somebody (`Owned`).  From it follow `Atomic`, `Ownership`, `OrderlySweeps` and
`Refinement`, that bulk ingestion implements `Archive`.  The assumption
`Sequential` is needed: a file that is added while its run is completed breaks
atomicity, and a cleanup during a completion deletes what was finalized
(section 7).

**`ProcessingRunProofs`.**  `TypeCorrect` and `TriggersTheorem` (no trigger is
accepted while a loop works, with the invariant that the run of a working loop is in
progress) without proviso; `SearchableTheorem`, `ResultsStandTheorem` under
`OneTrigger` (no trigger is sent while another is being answered, which the code
does not enforce; see section 7).  `IInv` has `Alone` (one
trigger or loop is at work, and a run is in progress exactly while its loop is),
`Requested` (at most one request per waiting loop, and its report is
about steps it was asked for), and `Settled` (for a document whose reports come
in time: steps asked for are running while Python works, and are what the
report says once it has been received, so that receiving it again changes
nothing).  Documents with a report that came late are exempt: `abandoned`.
`ReportsAreSound` is the lemma about the pipeline: it reports only steps it was
asked for, and chunks only with a completed embedding step.  `AttemptsTheorem`, also
under `OneTrigger`, has an invariant of its own, `CInv` (`CountingHolds`): the
attempts of a step, with the reports of it that are late and the calls that nobody
waits for any more, are within the limit plus one plus the faults, and a call
that is being made or waited for leaves room for the two it may add.  Each late
report is paid for by the fault that made it late.

**`VocabularyProofs`.**  All safety invariants of the module: `TypeCorrect`,
`TablesTheorem`, `EntitiesTheorem`, `RelationshipsTheorem`, `AcceptedTheorem`,
`RejectedTheorem`.  Four invariants build on each other.  `Agreed` adds to
`TablesAgree` that a report's own terms are committed with it (`Own`) and that a
curator adds under its own id (`Asked`).  `Kept` adds `Progress`: a report
remembers every entity that it has passed, as rejected or as linked, and what it
links it holds locked.  `Accepting` adds `OneCall`: the curator whose call is
alone still finds the candidate that it read.  `Rejecting` adds `OneReport` and
`Turns`: between the check of a name and its insertion nobody else makes a
candidate of that name, so nobody can reject it.

**`CurationProofs`.**  `TypeCorrect`; `FlagsTheorem` with the invariant
`OneDocument` (a request is about the one document that was clicked, so that an
update that follows a check clears the flag that was checked); `DescriptionsTheorem`
with the invariant `Described` (a form on its way has a description), and a lemma
for reports: what they leave blank leaves the row as it is.  Both hold for any
number of documents, pages and requests left behind, where the run has few.

**`ListLemmas`.**  No theorem of the library for induction takes a formula that
our provers can instantiate.  What they can use is induction over a *set* of
numbers: one that has zero and with a number its successor has all
(`EveryNumber`, from well-foundedness).  From it follows that a fold
of the community modules, which chooses a table of results by sets of indexes, ends
as a run of its steps does, one element after the other (`FoldRuns`); that
what holds of the empty sequence, and is kept by appending, holds of all
(`EverySequence`); that a fold over a sequence with one more element takes one more
step (`FoldAppended`); and that to sort by ranks is to sort (`RanksSort`).

**`GraphSearchProofs`.**  `TraversalTheorem`: the recursive query returns, of any
graph with or without cycles, the relationships that begin less than the
depth away, each with its distance; by induction on the depth, with paths on
one side and rounds of the recursion on the other.  `SearchTheorem` says the same
of the search over all names, with the documents of each entity
and the refusal of a depth above the limit.

**`AlgorithmProofs`.**  One theorem about arbitrary inputs for each algorithm, and
one per property of the run `algorithms`, whose bounds thereby lose their weight.
* `SearchesTheorem`, if the nodes include the two that the inputs start from
  (`{1, 2} \subseteq Node`) and `MaxDepth` and `DepthLimit` are numbers.
* `RequestTheorem`, `SuccessesTheorem`: by operation and outcome, through both servers.
* `PipelineTheorem`: for a file of any number of pages, any thresholds, any answer
  of the LLM (`PossibleCall` is the shape of a call, no more), a report is one that
  `Pipeline` allows, and is refused only where `Pipeline` lets a call raise.  `RepeatTheorem`: the answer repeats the POST.
* `ContextTheorem`, `CitationsTheorem`: for results with distinct ids (rows of a
  table), any scores, lengths and budget.  `RetriesTheorem`, `FailuresTheorem`,
  `FoundedTheorem`: for any query with a positive `topK`
  (`PossibleQuery`; the schema demands it, `schemas/search.ts:22`).
* `ChunksTheorem`: for any chunks and any two positive bounds.  Along the splitting
  goes that a block that a delimiter divided either fits or has that delimiter
  no more (`BuildFits`), so that what is cut up at last has none
  to count; along the merging, that what is done is large enough and what is open
  is not (`MergeSizes`); along both, that the letters are those of the text
  (`SplitLetters`, `BuildLetters`, `FlattenLists`, `MergeLetters`).

Definitions that the proofs fold over avoid recursive operators: they are
recursive functions or folds, and `QueryContext!Sorted` sorts by ranks.

**Only model-checked.**  Liveness under fairness is beyond the prover:
`RequestsEnd`, `ComesToRest`, `RunsEnd`, `RetriesEnd`, `WaitsEnd`,
`FlagsAreSurfaced`.

## 7. Where code and documents differ, without a run

These were met while modelling, and no run shows them.  The models have the code's
behaviour, so that a property which says otherwise would fail.  Several passing
properties exempt exactly one of these cases, and say so: `StagingIsOwned` (late
POST), `StartupClears` (file added to a completed run), `SearchableIsEmbedded` and
`ResultsStand` (late reports), `RetriesEnd` (the embedding step),
`RejectedStaysOut`, `RelationshipsAreKept`, `SuccessesAreEarned` (codes that the
frontend does not know).  They show that nothing else goes wrong.

Upload and ingestion
* The DELETE after a timeout may also come before `uploadFile`, still at
  work, writes the staging file (`documents.ts:237`).  No row leads to that file,
  and no sweep finds it, where ADR-010 (`architecture-decisions.md:229`) has "No
  partial state persists".
* `addFileToRun` checks its run at `ingestion.ts:313` and inserts
  at `:416`, perhaps into a run that has been completed meanwhile.  The document
  stays `uploaded`: no completion takes the run again, and no sweep looks at the
  documents of a completed run.  ADR-018 (`architecture-decisions.md:446`) has
  every file of such a run finalized.
* `_cleanupRunById` deletes by id the documents that were not
  finalized when it read them (`ingestion.ts:118-136`), and so deletes what
  `completeRun` has finalized since; its comment (`ingestion.ts:132`) speaks of
  "non-finalized document records".
* The loser of two uploads of one content moves its file before the unique index
  refuses its row (`documents.ts:307-312`); sweeps delete the row and leave the
  permanent file (`PermanentIsOwned` names this way).
* Files that `completeRun` has moved before a crash stay in permanent storage.
  ADR-018 (`architecture-decisions.md:464`) relies on the status `stored`, which no
  code writes: the branches for it (`ingestion.ts:126`, `ingestionSweep.ts:58`)
  never run.
* Two files of one name in a run share a path: the second overwrites the first
  (`ingestion.ts:365`), and a finalized document may have the other's bytes.
  `phase-1-user-stories.md:565` wants such groups rejected.
* Group rejection looks for documents with status `failed` (`ingestion.ts:386`),
  which no code writes.
* The report is written after the commit (`ingestion.ts:283`; ADR-018 at `:446`
  has it before), and completion does not remove the staging directory (`:466`).

Processing
* Of two triggers that overlap, both find no run in progress
  (`processing.ts:219`) before either inserts its own;
  `integration-lead-contracts.md:718` has the second refused.
* Embedding needs the combined pass of the same call (`orchestrator.py:290-291`).
  When the pass is completed and embedding has failed with an attempt left, a retry
  asks for embedding alone, Python does not report it, and its attempts are never
  counted.  Since an attempt counts twice, this takes a retry limit of at least 3,
  the value of `config.json5:48`.
* A run lists the steps of a document and marks them as running in two statements
  (`processing.ts:275-280`).  The late POST of a call given up earlier may come
  between them, with chunks: the document is in the search index while its
  embedding step is marked as running.  `user-requirements.md:137` (UR-065) wants
  no "transient visibility window".
* A document flagged below a threshold is embedded all the same
  (`orchestrator.py:185-196`, `:240-248`) and found by searches;
  `phase-1-user-stories.md:951` says it is not.
* No code creates rows in `pipeline_steps`, of which
  `architecture-decisions.md:682` has one per document and step: without them a
  document is never queued.  `ProcessingRun` begins, as the tests do, with
  documents whose steps are there and pending.
* A retry gets no earlier outputs (`integration-lead-contracts.md:884` describes
  resuming): with a completed extraction it works on an empty text, and people,
  organisations, land references and document type are overwritten with nothing.
* Reports are applied twice (section 5).  `integration-lead-contracts.md:817` has step
  rows updated "from `running`", which `updateStep` does not ask for: attempts
  count twice, chunks are inserted twice (`AttemptsAreBounded` has the bound that
  is left), and a flag is set again that a curator has cleared in between.
* `user-requirements.md:148` (UR-069) wants a document flagged when its retry limit
  is exceeded, which no code does.

Curation and vocabulary
* The table of the frontend's server (`server/routes/curation.ts:23-29`) lacks the
  codes `no_flag_to_clear`, `wrong_source`, `target_not_found` and `unauthorized` of
  Express; `c.json` without a status answers 200, and the hooks look at `res.ok`
  only.  A second click on a cleared flag, an acceptance of a term that is none of
  the LLM's, or a wrong key, is told as a success.  `server/routes/curation.ts:99`
  says "Propagates 404 and 409 from Express"; the tests
  (`server/__tests__/curation.test.ts:137`) answer with codes that Express does not
  use.
* A report that looked for a name before another report raised it and a curator
  rejected it inserts it as a candidate again (`processing.ts:144-153`;
  `addManualTerm` has the same gap at `vocabulary.ts:151-161`), contrary to
  `phase-1-user-stories.md:1316`.
* Relationships are looked up by names as written, against normalised names
  (`processing.ts:177-186`), and dropped if they are not found;
  `integration-lead-contracts.md:828` has them resolved.
* A flag that a report raises again between the check of a clear-flag request and its
  update (`curation.ts:137`, `:153`) falls unseen; `FlagsFallByClearing` permits it.
* What the POST of a halted pipeline carries instead of no metadata is empty
  metadata (`orchestrator.py:392-401`), which blanks people, organisations, land
  references and document type; the answer carries none and leaves them blank.
  Otherwise the answer repeats the POST, but for an empty document type, which it
  makes null again (`AnswersRepeatPosts`).
* The flag of a document that is processed anew gets a new place, at the end of the
  queue: one that is flagged anew for ever may never be shown
  (`FlagsAreSurfaced` excludes it).
* A description of blanks only is a description to the repository
  (`documents.ts:209`), though not to the pipeline (`orchestrator.py:317`).

Algorithms
* Merged chunks may exceed `CHUNKING_MAX_TOKENS` (`llm_combined_pass.py:124`), by at
  most the minimum.  Both bounds are compared with numbers of characters.
* When the best result alone exceeds the token budget the context is empty
  (`context_assembly.py:55`), and the answer is the one for "no matches"
  (`query_handler.py:71`).
* The schema of Express lets date and document type of a found document be null
  (`schemas/search.ts:30-31`), the generated model of Python does not
  (`models.py:291-292`), though `query_handler.py:141` speaks of empty ones: one
  such document among the nearest fails the query (`FailuresAreKnown`).

## 8. What is not modelled

REINDEX administration (one statement), configuration, logging, migrations and
seeds (start-up; the constraints of the migrations are in the actions that meet
them), the OpenAPI registry (declarations), rendering and navigation of the
React pages and the state of their input fields.
Within modelled parts: reading files back, single-query lookups of the graph
store, `writeEntity` and `writeRelationship` and the repository functions without
a caller, pages of the queue after the first (the frontend asks for none), the
wording of aliases, the splitting of lists at commas in forms, and the same
ingestion call made twice at once for one run or file.

## 9. What is left

1. That `before` orders the flagged documents, and with it a bound on how many
   flags are shown before a given one, as theorems of `Curation`.
2. Which properties of processing still hold when triggers overlap, beyond the type
   invariant and `TriggersAreRefused`.
3. What the safety part of the liveness arguments needs, as theorems: that a
   handler at each of its points has a step it can take unless it waits for one
   that has.
4. A composition of intake with processing, once something in the code creates the
   steps of a finalized document.
