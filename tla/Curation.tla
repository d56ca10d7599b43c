------------------------------- MODULE Curation -------------------------------
(***************************************************************************)
(* Document curation: the rows of processed documents, which reports of    *)
(* the processing service and curators write, each without a look at what  *)
(* the other has written; the queue pages, on which flags are cleared, and *)
(* the detail pages, whose form is sent as a whole.                        *)
(*                                                                         *)
(* An action is the code between two awaits.  What ProcessingRun says of   *)
(* steps and calls is reduced here to reports: each is applied when Python *)
(* posts it and, unless the call has been given up, again when its answer  *)
(* comes.                                                                  *)
(***************************************************************************)
EXTENDS Naturals, FiniteSets, Gateway

CONSTANTS
  Doc,        \* finalized documents
  Value,      \* document types, lists of names, descriptions, dates
  QueuePage,  \* browser tabs with the document queue
  FormPage,   \* browser tabs for the detail of a document
  PageSize,   \* documents in an answer of the queue: the page asks for the first
  Given,      \* descriptions of documents that come in, "" for some of a bulk run
  Metadata,   \* Metadata[d]: what a report on d may have detected
  Opened,     \* bound: documents whose detail is opened
  MaxFaults   \* bound: failing requests

Null == "null"
Blank == "blank"     \* "", and the empty list

\* people stands for the document type and the three lists, which are treated
\* alike; the date, which only forms write, is left out.
Column == {"people", "description"}
Detected == [people : Value \cup {Blank}, description : Value \cup {Null}]

ASSUME CurationAssumption ==
  /\ Null \notin Value /\ Blank \notin Value
  /\ Given \subseteq Value \cup {Blank}
  /\ PageSize \in Nat \ {0}
  /\ Opened \subseteq Doc
  /\ Metadata \in [Doc -> SUBSET Detected]
  /\ MaxFaults \in Nat

VARIABLES
  row,        \* row[d]: its metadata columns
  flagged,    \* documents with a flag_reason
  before,     \* pairs of flagged documents: the flagged_at of one is earlier
  owed,       \* owed[d]: the report that was posted and has still to be answered
  shown,      \* shown[q]: the documents that a queue page shows
  due,        \* queue pages whose mutate has been called
  clear,      \* clear[q]: the clear-flag request of a queue page
  form,       \* form[f]: the document of a detail page and the values in its form
  save,       \* where the request to save that form stands
  late,       \* clear-flag requests whose page has been told of an error
  faults,     \* faults so far
  corrected   \* history: corrected[d]: columns saved while an answer on d is owed

rows == <<row, flagged, before>>
queuePages == <<shown, due, clear>>
formPages == <<form, save>>
vars == <<rows, owed, queuePages, formPages, late, faults, corrected>>

Entry == Value \cup {Null, Blank}
Rows == [Column -> Entry]
Forms == [Column -> Value \cup {Blank}]

\* A report of a halted pipeline has no metadata.
Report == [metadata : SUBSET Detected, flag : BOOLEAN]

NoClear == [doc |-> {}, stage |-> "idle"]

TypeOK ==
  /\ row \in [Doc -> Rows]
  /\ flagged \subseteq Doc /\ before \subseteq flagged \X flagged
  /\ owed \in [Doc -> SUBSET Report]
  /\ shown \in [QueuePage -> SUBSET Doc] /\ due \subseteq QueuePage
  /\ clear \in [QueuePage -> [doc : SUBSET Doc,
                              stage : {"idle", "sent", "checked", "served", "refused"}]]
  /\ form \in [FormPage -> SUBSET [doc : Doc, values : Forms]]
  /\ save \in [FormPage -> {"idle", "sent"}]
  /\ late \subseteq [doc : Doc, checked : BOOLEAN]
  /\ faults \in 0..MaxFaults
  /\ corrected \in [Doc -> SUBSET Column]

\* As the intake inserts documents.
Init ==
  /\ row \in [Doc -> {r \in Rows : r.people = Null /\ r.description \in Given}]
  /\ flagged = {} /\ before = {}
  /\ owed = [d \in Doc |-> {}]
  /\ shown = [q \in QueuePage |-> {}] /\ due = {}
  /\ clear = [q \in QueuePage |-> NoClear]
  /\ form = [f \in FormPage |-> {}]
  /\ save = [f \in FormPage |-> "idle"]
  /\ late = {}
  /\ faults = 0
  /\ corrected = [d \in Doc |-> {}]

-----------------------------------------------------------------------------
(* The documents repository.                                               *)

\* Mutant: the youngest flags first.
FirstPageDescending ==
  {d \in flagged : Cardinality({e \in flagged : <<d, e>> \in before}) < PageSize}

\* getFlagged: the first page, by flagged_at.
FirstPage ==
  {d \in flagged : Cardinality({e \in flagged : <<e, d>> \in before}) < PageSize}

Without(d) == {pair \in before : pair[1] # d /\ pair[2] # d}

\* setFlag: whatever flag there was, the new one is the youngest.
SetsFlag(d) ==
  /\ flagged' = flagged \cup {d}
  /\ before' = Without(d) \cup ((flagged \ {d}) \X {d})

\* Mutant: the time of the flag stays.
UnsetsReason(d) == flagged' = flagged \ {d} /\ before' = before

\* clearFlag.
UnsetsFlag(d) == flagged' = flagged \ {d} /\ before' = Without(d)

\* Mutant: the description is overwritten as well.
WithAllMetadata(r, m) == [r EXCEPT !.people = m.people, !.description = m.description]

\* applyProcessingMetadata overwrites all but the description unconditionally.
WithMetadata(r, m) ==
  [r EXCEPT !.people = m.people,
            !.description = IF m.description \in {Null, Blank} THEN @ ELSE m.description]

\* updateMetadata.  A form has a value for every column.
WithForm(values) == [c \in Column |-> values[c]]

Fails == faults < MaxFaults /\ faults' = faults + 1

-----------------------------------------------------------------------------
(* Reports of the processing service.                                      *)

\* The body of a POST is never without metadata, nor these without a value.
NothingDetected == [people |-> Blank, description |-> Blank]
Filled(v) == IF v = Null THEN Blank ELSE v
Posted(report) ==
  IF report.metadata = {} THEN {NothingDetected}
  ELSE {[people |-> m.people, description |-> Filled(m.description)] : m \in report.metadata}

\* The transaction of receiveProcessingResults, as far as it concerns the row.
Receives(d, metadata, flag) ==
  /\ IF metadata = {} THEN UNCHANGED row
     ELSE \E m \in metadata : row' = [row EXCEPT ![d] = WithMetadata(row[d], m)]
  /\ IF flag THEN SetsFlag(d) ELSE UNCHANGED <<flagged, before>>

\* A pipeline that is halted raises a flag.
Reports(d) ==
  {[metadata |-> {}, flag |-> TRUE]} \cup
  [metadata : {{m} : m \in Metadata[d]}, flag : BOOLEAN]

ReportPosted(d) ==
  /\ owed[d] = {}
  /\ \E report \in Reports(d) : /\ Receives(d, Posted(report), report.flag)
                                /\ owed' = [owed EXCEPT ![d] = {report}]
  /\ UNCHANGED <<queuePages, formPages, late, faults, corrected>>

\* Mutant: a report without a flag takes the old one away.
ReportAnsweredAnew(d) ==
  /\ \E report \in owed[d] :
       /\ IF report.metadata = {} THEN UNCHANGED row
          ELSE \E m \in report.metadata : row' = [row EXCEPT ![d] = WithMetadata(row[d], m)]
       /\ IF report.flag THEN SetsFlag(d) ELSE UnsetsFlag(d)
  /\ owed' = [owed EXCEPT ![d] = {}]
  /\ corrected' = [corrected EXCEPT ![d] = {}]
  /\ UNCHANGED <<queuePages, formPages, late, faults>>

ReportAnswered(d) ==
  /\ \E report \in owed[d] : Receives(d, report.metadata, report.flag)
  /\ owed' = [owed EXCEPT ![d] = {}]
  /\ corrected' = [corrected EXCEPT ![d] = {}]
  /\ UNCHANGED <<queuePages, formPages, late, faults>>

\* The loop has given the call up.
ReportDropped(d) ==
  /\ owed[d] # {} /\ owed' = [owed EXCEPT ![d] = {}]
  /\ corrected' = [corrected EXCEPT ![d] = {}]
  /\ Fails
  /\ UNCHANGED <<rows, queuePages, formPages, late>>

-----------------------------------------------------------------------------
(* A queue page.                                                           *)

\* On focus, and when mutate has been called.
Refetch(q) ==
  /\ q \in due \/ shown[q] # FirstPage
  /\ shown' = [shown EXCEPT ![q] = FirstPage]
  /\ due' = due \ {q}
  /\ UNCHANGED <<rows, owed, clear, formPages, late, faults, corrected>>

ClearMoves(q, from, to) ==
  /\ clear[q].stage = from
  /\ clear' = [clear EXCEPT ![q].stage = to]
  /\ UNCHANGED <<owed, shown, due, formPages, late, faults, corrected>>

Click(q, d) ==
  /\ d \in shown[q] /\ clear[q].stage = "idle"
  /\ clear' = [clear EXCEPT ![q] = [doc |-> {d}, stage |-> "sent"]]
  /\ UNCHANGED <<rows, owed, shown, due, formPages, late, faults, corrected>>

\* clearFlag of the curation service: getById, and then the update.
ClearChecks(q) ==
  /\ ClearMoves(q, "sent", IF clear[q].doc \subseteq flagged THEN "checked" ELSE "refused")
  /\ UNCHANGED rows

ClearUpdates(q) ==
  /\ ClearMoves(q, "checked", "served")
  /\ \E d \in clear[q].doc : UnsetsFlag(d)
  /\ UNCHANGED row

ClearOutcome(q) == IF clear[q].stage = "served" THEN "served" ELSE "no_flag_to_clear"

\* onSuccess is mutate; an error leaves the list as it is.
ClearHeard(q) ==
  /\ clear[q].stage \in {"served", "refused"}
  /\ due' = IF Told("clear", ClearOutcome(q)) = "success" THEN due \cup {q} ELSE due
  /\ clear' = [clear EXCEPT ![q] = NoClear]
  /\ UNCHANGED <<rows, owed, shown, formPages, late, faults, corrected>>

\* A query fails, or Ky ceases to wait while Express goes on.
ClearFails(q) ==
  /\ clear[q].stage \in {"sent", "checked"}
  /\ \/ UNCHANGED late
     \/ late' = late \cup [doc : clear[q].doc, checked : {clear[q].stage = "checked"}]
  /\ clear' = [clear EXCEPT ![q] = NoClear]
  /\ Fails
  /\ UNCHANGED <<rows, owed, shown, due, formPages, corrected>>

-----------------------------------------------------------------------------
(* A detail page.                                                          *)

\* getDocument and toFormValues.
ToForm(r) == [c \in Column |-> Filled(r[c])]

Load(f, d) ==
  /\ save[f] = "idle" /\ form[f] # {[doc |-> d, values |-> ToForm(row[d])]}
  /\ form' = [form EXCEPT ![f] = {[doc |-> d, values |-> ToForm(row[d])]}]
  /\ UNCHANGED <<rows, owed, queuePages, save, late, faults, corrected>>

\* Some fields are changed, one of them or none at a time, and the form is sent.
\* MetadataEditSchema wants a description; nothing else is required.
Submit(f, c, v) ==
  /\ save[f] = "idle"
  /\ \E x \in form[f] :
       LET values == [x.values EXCEPT ![c] = v]
       IN  /\ values["description"] # Blank
           /\ form' = [form EXCEPT ![f] = {[doc |-> x.doc, values |-> values]}]
  /\ save' = [save EXCEPT ![f] = "sent"]
  /\ UNCHANGED <<rows, owed, queuePages, late, faults, corrected>>

Saves(d, values) ==
  /\ row' = [row EXCEPT ![d] = WithForm(values)]
  /\ corrected' = [corrected EXCEPT ![d] = IF owed[d] = {} THEN {}
                                  ELSE @ \cup {c \in Column : row[d][c] # values[c]}]
  /\ UNCHANGED <<flagged, before>>

\* updateDocumentMetadata: the whole form, over whatever the row holds by now.
SaveUpdates(f) ==
  /\ save[f] = "sent"
  /\ \E x \in form[f] : Saves(x.doc, x.values)
  /\ save' = [save EXCEPT ![f] = "idle"]
  /\ UNCHANGED <<owed, queuePages, form, late, faults>>

\* A query fails.  (If Ky ceases to wait, Express goes on: then the page is here
\* one that still waits, and the curator has turned to another.)
SaveFails(f) ==
  /\ save[f] = "sent"
  /\ save' = [save EXCEPT ![f] = "idle"]
  /\ Fails
  /\ UNCHANGED <<rows, owed, queuePages, form, late, corrected>>

-----------------------------------------------------------------------------
(* Clear-flag requests that Express finishes for nobody.                   *)

LateClearChecks(x) ==
  /\ x \in late /\ ~x.checked
  /\ late' = (late \ {x}) \cup {y \in {[x EXCEPT !.checked = TRUE]} : x.doc \in flagged}
  /\ UNCHANGED <<rows, owed, queuePages, formPages, faults, corrected>>

LateClearUpdates(x) ==
  /\ x \in late /\ x.checked
  /\ UnsetsFlag(x.doc)
  /\ late' = late \ {x}
  /\ UNCHANGED <<row, owed, queuePages, formPages, faults, corrected>>

-----------------------------------------------------------------------------

ReportStep(d) == ReportPosted(d) \/ ReportAnswered(d) \/ ReportDropped(d)

ClearStep(q) == ClearChecks(q) \/ ClearUpdates(q) \/ ClearHeard(q)

FormStep(f) ==
  \/ \E d \in Opened : Load(f, d)
  \/ \E c \in Column, v \in Value \cup {Blank} : Submit(f, c, v)
  \/ SaveUpdates(f) \/ SaveFails(f)

LateStep(x) == LateClearChecks(x) \/ LateClearUpdates(x)

Next ==
  \/ \E d \in Doc : ReportStep(d)
  \/ \E q \in QueuePage : \/ Refetch(q) \/ ClearStep(q) \/ ClearFails(q)
                          \/ \E d \in Doc : Click(q, d)
  \/ \E f \in FormPage : FormStep(f)
  \/ \E x \in late : LateStep(x)

Spec == Init /\ [][Next]_vars

\* A request is answered, a list that was asked for is fetched.
Fairness ==
  \A q \in QueuePage : WF_vars(ClearStep(q)) /\ WF_vars(q \in due /\ Refetch(q))

\* Besides, the curator at a queue page goes on clearing the flags on it, and
\* comes back to it when there are none.
Diligence ==
  \A q \in QueuePage : WF_vars(\E d \in Doc : Click(q, d)) /\ WF_vars(shown[q] = {} /\ Refetch(q))

FairSpec == Spec /\ Fairness /\ Diligence

-----------------------------------------------------------------------------
(* Properties.                                                             *)

\* US-054, UR-077: flags come from the system and go by a curator's request; no
\* report and no saved form takes one away.
FlagsFallByClearing ==
  [][\A d \in flagged \ flagged' :
       \/ \E q \in QueuePage : clear[q].stage = "checked" /\ clear[q].doc = {d}
       \/ \E x \in late : x.doc = d /\ x.checked]_vars

\* UR-076: a flag is surfaced, however many older ones there are and however
\* often other documents are flagged anew, if curators go on clearing the flags
\* that they are shown and the document itself is not processed for ever: a new
\* report gives an old flag a new place, at the end of the queue.
FlagsAreSurfaced ==
  \A d \in Doc :
    <>[](owed[d] = {}) => (d \in flagged ~> d \notin flagged \/ \E q \in QueuePage : d \in shown[q])

\* UR-053: a description is not lost: what a report leaves blank, or a form,
\* does not take its place.
DescriptionsStay ==
  [][\A d \in Doc : row[d].description # Blank => row'[d].description # Blank]_vars

\* US-037: "The curator can correct any detected metadata field via the curation
\* UI": what a report has detected is not written again over the correction.
CorrectionsStand ==
  [][\A d \in Doc : owed[d] # {} /\ owed'[d] = {} =>
       \A c \in corrected[d] : row'[d][c] = row[d][c]]_vars
=============================================================================
