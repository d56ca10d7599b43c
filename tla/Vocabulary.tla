------------------------------ MODULE Vocabulary ------------------------------
(***************************************************************************)
(* The vocabulary of the archive: services/vocabulary.ts, the tables of    *)
(* migration 002, and what the receiving transaction of                    *)
(* services/processing.ts does with the entities and relationships of a    *)
(* report.                                                                 *)
(*                                                                         *)
(* A term is identified by who inserts it and its normalised name: no      *)
(* request inserts one name twice, and every insertion draws a new UUID.   *)
(* Statements of PostgreSQL interleave at READ COMMITTED.  A report is the *)
(* one transaction whose statements are steps of their own: its insertions *)
(* show when it commits, yet at once keep others from inserting the same   *)
(* name (unique normalised_term) or deleting a term it refers to (foreign  *)
(* keys).  The transactions of rejectTerm and addTermWithRelationships run *)
(* in one step: what their first statement locks, nobody reads.            *)
(*                                                                         *)
(* Abstractions: the wording of terms, categories, confidences and aliases *)
(* (whether a term has the alias already is a choice; a row that gets one  *)
(* stays locked until the report ends); refused requests that change       *)
(* nothing (not_found, wrong_source) are steps that do not occur.          *)
(***************************************************************************)
EXTENDS Naturals, Sequences

CONSTANTS
  Name,           \* normalised names
  Doc,            \* documents
  Report,         \* deliveries of processing results; one sent again is another
  Curator,        \* clients of the curation pages, each with one call at a time
  DocOf,          \* the document of a report
  EntitiesOf,     \* the names of its entities, in the order of the report
  RelatesOf,      \* the pairs of names it relates
  WrittenPlain,   \* the names it writes just as they are when normalised
  NoId

ASSUME VocabularyAssumption ==
  /\ DocOf \in [Report -> Doc]
  /\ EntitiesOf \in [Report -> Seq(Name)]
  /\ RelatesOf \in [Report -> SUBSET (Name \X Name)]
  /\ WrittenPlain \in [Report -> SUBSET Name]
  /\ Report \cap Curator = {}
  /\ NoId \notin [by : Report \cup Curator, name : Name]

Ids     == [by : Report \cup Curator, name : Name]
Sources == {"llm_extracted", "candidate_accepted", "manual"}

VARIABLES
  terms,        \* vocabulary_terms: records of an id and its source
  edges,        \* vocabulary_relationships: pairs of ids
  occurrences,  \* entity_document_occurrences: pairs of an id and a document
  rejected,     \* rejected_terms: names
  task,         \* of a report: its next statement, its entity, what it found
  linked,       \* of a report: the ids of its uncommitted occurrences
  altered,      \* of a report: the ids of the rows that it has updated
  job,          \* of a curator: the next statement of the call and its ids
  accepted,     \* history: ids of the terms reported as accepted
  overlapped    \* history: which kinds of request ever ran two at a time

tables   == <<terms, edges, occurrences, rejected>>
requests == <<task, linked, altered, job>>
vars     == <<tables, requests, accepted, overlapped>>

(***************************************************************************)
(* What a statement sees, and what it waits for.                           *)
(***************************************************************************)
Committed == {t.id : t \in terms}

\* The terms of a name that a report sees: the committed ones and its own.
Seen(r, n) == {id \in Committed \cup linked[r] : id.name = n}

\* Another transaction has inserted the name and not yet committed.
Pending(n, a) == \E o \in Report \ {a} : [by |-> o, name |-> n] \in linked[o]

\* A report keeps a term it refers to from being deleted.
Locked(id) == \E r \in Report : id \in linked[r]

\* Another transaction has updated the row and not yet ended.
Altered(id, a) == \E o \in Report \ {a} : id \in altered[o]

Taken(n) == \E id \in Committed : id.name = n

Writing(r) == task[r].at \notin {"idle", "done", "failed"}

\* The first request of a kind to begin while another of it is at work.
Overlap(kind, busy) == overlapped' = IF busy THEN overlapped \cup {kind} ELSE overlapped

Idle == [at |-> "idle", id |-> NoId, target |-> NoId]
Task(at, pos, found) == [at |-> at, pos |-> pos, found |-> found]

Init ==
  /\ terms = {} /\ edges = {} /\ occurrences = {} /\ rejected = {}
  /\ task = [r \in Report |-> Task("idle", 1, NoId)]
  /\ linked = [r \in Report |-> {}]
  /\ altered = [r \in Report |-> {}]
  /\ job = [c \in Curator |-> Idle]
  /\ accepted = {} /\ overlapped = {}

(***************************************************************************)
(* receiveProcessingResults: the entities one by one, then the             *)
(* relationships, then the commit.                                         *)
(***************************************************************************)
Entity(r) == EntitiesOf[r][task[r].pos]

\* The next entity, or the relationships once there is none.
Onwards(r, pos) == Task(IF pos > Len(EntitiesOf[r]) THEN "relate" ELSE "look", pos, NoId)

ReportBegins(r) ==
  /\ task[r].at = "idle"
  /\ task' = [task EXCEPT ![r] = Onwards(r, 1)]
  /\ Overlap("reports", \E o \in Report \ {r} : Writing(o))
  /\ UNCHANGED <<tables, linked, altered, job, accepted>>

ReportMoves(r, next) ==
  /\ task' = [task EXCEPT ![r] = next]
  /\ UNCHANGED <<tables, job, accepted, overlapped>>

\* findVocabTermByNormalisedTerm; the term found has the alias, or it is appended.
ReportLooks(r) ==
  /\ task[r].at = "look"
  /\ \/ \E id \in Seen(r, Entity(r)), at \in {"link", "append"} :
          ReportMoves(r, Task(at, task[r].pos, id))
     \/ Seen(r, Entity(r)) = {} /\ ReportMoves(r, Task("check", task[r].pos, NoId))
  /\ UNCHANGED <<linked, altered>>

\* Mutant: a term found earlier gets the alias, but not the occurrence.
ReportLinksAliasOnly(r) ==
  /\ task[r].at \in {"link", "append"}
  /\ ReportMoves(r, Onwards(r, task[r].pos + 1))
  /\ UNCHANGED <<linked, altered>>

\* appendAlias and insertOccurrence for the term found.  The update waits for
\* another report that has updated the row, and may then find the alias there.
\* The foreign key of the occurrence refuses a term that has been deleted, and
\* the report rolls back.
ReportLinks(r) ==
  /\ task[r].at \in {"link", "append"}
  /\ task[r].at = "append" => ~Altered(task[r].found, r)
  /\ \/ /\ task[r].found \in Committed \cup linked[r]
        /\ linked' = [linked EXCEPT ![r] = @ \cup {task[r].found}]
        /\ \/ UNCHANGED altered
           \/ /\ task[r].at = "append"
              /\ altered' = [altered EXCEPT ![r] = @ \cup {task[r].found}]
        /\ ReportMoves(r, Onwards(r, task[r].pos + 1))
     \/ /\ task[r].found \notin Committed \cup linked[r]
        /\ linked' = [linked EXCEPT ![r] = {}]
        /\ altered' = [altered EXCEPT ![r] = {}]
        /\ ReportMoves(r, Task("failed", 1, NoId))

\* Mutant: the rejected names are not consulted.
ReportChecksNothing(r) ==
  /\ task[r].at = "check"
  /\ ReportMoves(r, Task("insert", task[r].pos, NoId))
  /\ UNCHANGED <<linked, altered>>

\* findNormalisedTermInRejected
ReportChecks(r) ==
  /\ task[r].at = "check"
  /\ ReportMoves(r, IF Entity(r) \in rejected THEN Onwards(r, task[r].pos + 1)
                                              ELSE Task("insert", task[r].pos, NoId))
  /\ UNCHANGED <<linked, altered>>

\* Mutant: the name is not unique.
ReportInsertsAnyway(r) ==
  /\ task[r].at = "insert"
  /\ linked' = [linked EXCEPT ![r] = @ \cup {[by |-> r, name |-> Entity(r)]}]
  /\ UNCHANGED altered
  /\ ReportMoves(r, Onwards(r, task[r].pos + 1))

\* upsertTerm and insertOccurrence.  The insertion waits for another one of
\* the same name, and fails with the report if that one has committed.
ReportInserts(r) ==
  /\ task[r].at = "insert"
  /\ ~Pending(Entity(r), r)
  /\ IF Taken(Entity(r))
       THEN /\ linked' = [linked EXCEPT ![r] = {}]
            /\ altered' = [altered EXCEPT ![r] = {}]
            /\ ReportMoves(r, Task("failed", 1, NoId))
       ELSE /\ linked' = [linked EXCEPT ![r] = @ \cup {[by |-> r, name |-> Entity(r)]}]
            /\ UNCHANGED altered
            /\ ReportMoves(r, Onwards(r, task[r].pos + 1))

\* Mutant: the lookups run outside the transaction.
ResolvesOutside(r) ==
  {p \in Committed \X Committed :
     /\ <<p[1].name, p[2].name>> \in RelatesOf[r]
     /\ {p[1].name, p[2].name} \subseteq WrittenPlain[r]}

\* The relationships are looked up by the names as the report writes them,
\* which match normalised names only where the two are the same.
Resolves(r) ==
  {p \in (Committed \cup linked[r]) \X (Committed \cup linked[r]) :
     /\ <<p[1].name, p[2].name>> \in RelatesOf[r]
     /\ {p[1].name, p[2].name} \subseteq WrittenPlain[r]}

ReportCommits(r) ==
  /\ task[r].at = "relate"
  /\ terms' = terms \cup {[id |-> id, source |-> "llm_extracted"] : id \in linked[r] \ Committed}
  /\ occurrences' = occurrences \cup (linked[r] \X {DocOf[r]})
  /\ edges' = edges \cup Resolves(r)
  /\ task' = [task EXCEPT ![r] = Task("done", 1, NoId)]
  /\ linked' = [linked EXCEPT ![r] = {}]
  /\ altered' = [altered EXCEPT ![r] = {}]
  /\ UNCHANGED <<rejected, job, accepted, overlapped>>

\* Any other statement or connection that fails, and a crash.
ReportFails(r) ==
  /\ Writing(r)
  /\ linked' = [linked EXCEPT ![r] = {}]
  /\ altered' = [altered EXCEPT ![r] = {}]
  /\ ReportMoves(r, Task("failed", 1, NoId))

(***************************************************************************)
(* Two reports that insert the same names, or append to the same terms, in *)
(* different orders wait for each other; PostgreSQL finds the circle and   *)
(* aborts one of them.                                                     *)
(***************************************************************************)
WaitsFor(r, o) ==
  \/ task[r].at = "insert" /\ [by |-> o, name |-> Entity(r)] \in linked[o]
  \/ task[r].at = "append" /\ task[r].found \in altered[o]

\* Mutant: nobody breaks the circle.
DeadlockStays(r) == FALSE

DeadlockAborts(r) ==
  /\ \E S \in SUBSET Report : r \in S /\ \A o \in S : \E p \in S \ {o} : WaitsFor(o, p)
  /\ linked' = [linked EXCEPT ![r] = {}]
  /\ altered' = [altered EXCEPT ![r] = {}]
  /\ ReportMoves(r, Task("failed", 1, NoId))

(***************************************************************************)
(* The calls of a curator.  Each reads, then writes in a later statement.  *)
(***************************************************************************)
Begins(c, next) ==
  /\ job[c] = Idle
  /\ job' = [job EXCEPT ![c] = next]
  /\ Overlap("curators", \E o \in Curator \ {c} : job[o] # Idle)
  /\ UNCHANGED <<tables, task, linked, altered, accepted>>

Ends(c) ==
  /\ job' = [job EXCEPT ![c] = Idle]
  /\ UNCHANGED <<task, linked, altered, overlapped>>

\* acceptCandidate: findVocabTermById and the check of its source.
AcceptReads(c) ==
  \E t \in terms :
    /\ t.source = "llm_extracted"
    /\ Begins(c, [at |-> "accept", id |-> t.id, target |-> NoId])

\* updateTermSource, which waits for reports that have updated the row and may
\* find none; the answer is success anyway.
AcceptWrites(c) ==
  /\ job[c].at = "accept"
  /\ \A r \in Report : job[c].id \notin altered[r]
  /\ terms' = {IF t.id = job[c].id THEN [t EXCEPT !.source = "candidate_accepted"] ELSE t : t \in terms}
  /\ accepted' = accepted \cup {job[c].id}
  /\ Ends(c)
  /\ UNCHANGED <<edges, occurrences, rejected>>

\* Mutant: the source of the term is not checked.
RejectReadsAny(c) ==
  \E t \in terms : Begins(c, [at |-> "reject", id |-> t.id, target |-> NoId])

\* rejectCandidate: findVocabTermById and the check of its source.
RejectReads(c) ==
  \E t \in terms :
    /\ t.source = "llm_extracted"
    /\ Begins(c, [at |-> "reject", id |-> t.id, target |-> NoId])

\* Mutant: the term's id is stored in place of its name.
RejectWritesId(c) ==
  LET id == job[c].id IN
  /\ job[c].at = "reject"
  /\ id.name \notin rejected /\ ~Locked(id)
  /\ rejected' = rejected \cup {id}
  /\ terms' = {t \in terms : t.id # id}
  /\ edges' = {e \in edges : id \notin {e[1], e[2]}}
  /\ occurrences' = {o \in occurrences : o[1] # id}
  /\ Ends(c)
  /\ UNCHANGED accepted

\* rejectTerm: the deletion waits for reports that refer to the term, and
\* cascades to what refers to it.
RejectWrites(c) ==
  LET id == job[c].id IN
  /\ job[c].at = "reject"
  /\ id.name \notin rejected /\ ~Locked(id)
  /\ rejected' = rejected \cup {id.name}
  /\ terms' = {t \in terms : t.id # id}
  /\ edges' = {e \in edges : id \notin {e[1], e[2]}}
  /\ occurrences' = {o \in occurrences : o[1] # id}
  /\ Ends(c)
  /\ UNCHANGED accepted

\* The name is in rejected_terms already: unique normalised_term.
RejectRefused(c) ==
  /\ job[c].at = "reject"
  /\ job[c].id.name \in rejected
  /\ Ends(c)
  /\ UNCHANGED <<tables, accepted>>

\* addManualTerm: first findNormalisedTermInVocabulary ...
AddLooks(c) ==
  \E n \in Name, target \in Committed \cup {NoId} :
    /\ ~Taken(n)
    /\ Begins(c, [at |-> "add", id |-> [by |-> c, name |-> n], target |-> target])

\* ... then findNormalisedTermInRejected ...
AddChecks(c) ==
  /\ job[c].at = "add"
  /\ job' = [job EXCEPT ![c] = IF job[c].id.name \in rejected THEN Idle ELSE [@ EXCEPT !.at = "targets"]]
  /\ UNCHANGED <<tables, task, linked, altered, accepted, overlapped>>

\* ... then termIdsExist ...
AddFindsTargets(c) ==
  /\ job[c].at = "targets"
  /\ job' = [job EXCEPT ![c] = IF job[c].target \in Committed \cup {NoId} THEN [@ EXCEPT !.at = "insert"] ELSE Idle]
  /\ UNCHANGED <<tables, task, linked, altered, accepted, overlapped>>

\* ... and addTermWithRelationships, which the unique name or the foreign
\* key of the target may refuse.
AddInserts(c) ==
  LET id == job[c].id  target == job[c].target IN
  /\ job[c].at = "insert"
  /\ ~Pending(id.name, c)
  /\ IF Taken(id.name) \/ target \notin Committed \cup {NoId}
       THEN UNCHANGED <<terms, edges>>
       ELSE /\ terms' = terms \cup {[id |-> id, source |-> "manual"]}
            /\ edges' = edges \cup ({id} \X ({target} \ {NoId}))
  /\ Ends(c)
  /\ UNCHANGED <<occurrences, rejected, accepted>>

\* A statement that fails, or a crash: nothing written, no answer.
CallFails(c) ==
  /\ job[c] # Idle
  /\ Ends(c)
  /\ UNCHANGED <<tables, accepted>>

ReportNext(r) ==
  \/ ReportLooks(r) \/ ReportLinks(r) \/ ReportChecks(r) \/ ReportInserts(r)
  \/ ReportCommits(r) \/ DeadlockAborts(r)

CallNext(c) ==
  \/ AcceptWrites(c) \/ RejectWrites(c) \/ RejectRefused(c)
  \/ AddChecks(c) \/ AddFindsTargets(c) \/ AddInserts(c)

Next ==
  \/ \E r \in Report : ReportBegins(r) \/ ReportNext(r) \/ ReportFails(r)
  \/ \E c \in Curator :
       AcceptReads(c) \/ RejectReads(c) \/ AddLooks(c) \/ CallNext(c) \/ CallFails(c)

Spec == Init /\ [][Next]_vars

\* Express and PostgreSQL go on with what has begun.  Nobody is obliged to
\* begin anything.
FairSpec ==
  /\ Spec
  /\ \A r \in Report : WF_vars(ReportNext(r))
  /\ \A c \in Curator : WF_vars(CallNext(c))

(***************************************************************************)
(* Properties.                                                             *)
(***************************************************************************)
TypeOK ==
  /\ terms \subseteq [id : Ids, source : Sources]
  /\ edges \subseteq Ids \X Ids
  /\ occurrences \subseteq Ids \X Doc
  /\ rejected \subseteq Name
  /\ task \in [Report -> [at : {"idle", "look", "link", "append", "check", "insert", "relate", "done", "failed"},
                          pos : Nat \ {0}, found : Ids \cup {NoId}]]
  /\ linked \in [Report -> SUBSET Ids]
  /\ altered \in [Report -> SUBSET Ids]
  /\ job \in [Curator -> [at : {"idle", "accept", "reject", "add", "targets", "insert"},
                          id : Ids \cup {NoId}, target : Ids \cup {NoId}]]
  /\ accepted \subseteq Ids
  /\ overlapped \subseteq {"reports", "curators"}

\* The tables agree with each other in every interleaving: a name has one
\* term, also counting the terms of a report that has not committed; and
\* what refers to a term, committed or about to be, finds it there.
TablesAgree ==
  /\ \A t, u \in terms : t.id.name = u.id.name => t = u
  /\ \A r \in Report : \A id \in linked[r] :
       IF id.by = r THEN ~Taken(id.name) /\ ~Pending(id.name, r) ELSE id \in Committed
  /\ \A e \in edges : {e[1], e[2]} \subseteq Committed
  /\ \A o \in occurrences : o[1] \in Committed

Named(r) == {EntitiesOf[r][i] : i \in DOMAIN EntitiesOf[r]}

\* A report that was accepted is not lost on the way: each of its entities
\* is a term that occurs in its document, unless a curator has rejected it,
\* whatever other reports and curators did at the same time.
EntitiesAreKept ==
  \A r \in Report : task[r].at = "done" =>
    \A n \in Named(r) :
      n \in rejected \/ \E o \in occurrences : o[1].name = n /\ o[2] = DocOf[r]

\* The same for its relationships between entities of its own that it
\* writes in their normalised form; the others are dropped.
RelationshipsAreKept ==
  \A r \in Report : task[r].at = "done" =>
    \A p \in RelatesOf[r] :
      {p[1], p[2]} \subseteq Named(r) \cap (WrittenPlain[r] \ rejected)
        => \E e \in edges : e[1].name = p[1] /\ e[2].name = p[2]

\* A rejected name is not in the vocabulary, and does not come back as a
\* candidate, as long as reports come one at a time and so do the calls of
\* curators.  Two that overlap may both look before either writes.
RejectedStaysOut == overlapped = {} => \A n \in rejected : ~Taken(n)

\* A term whose acceptance was confirmed stays in the vocabulary, accepted,
\* as long as the calls of curators come one at a time.
AcceptedStands ==
  "curators" \notin overlapped =>
    \A id \in accepted : [id |-> id, source |-> "candidate_accepted"] \in terms

\* The story's claim, without that proviso: an accepted term is permanent.
AcceptedIsPermanent ==
  [][\A t \in terms : t.source = "candidate_accepted" => t.id \in Committed']_vars

\* A report comes to an end, be it a failure, and every call is answered: also a
\* rejection and a report that wait for reports which wait for them.
WaitsEnd ==
  /\ \A r \in Report : Writing(r) ~> ~Writing(r)
  /\ \A c \in Curator : job[c] # Idle ~> job[c] = Idle
=============================================================================
