--------------------------- MODULE VocabularyProofs ---------------------------
(***************************************************************************)
(* Proofs about Vocabulary, for any names, documents, curators, reports    *)
(* and what these name and relate, in any interleaving of their statements.*)
(***************************************************************************)
EXTENDS Vocabulary, TLAPS

-----------------------------------------------------------------------------
(* Types.                                                                  *)

Tasks == [at : {"idle", "look", "link", "append", "check", "insert", "relate", "done", "failed"},
          pos : Nat \ {0}, found : Ids \cup {NoId}]
Jobs == {j \in [at : {"idle", "accept", "reject", "add", "targets", "insert"},
                id : Ids \cup {NoId}, target : Ids \cup {NoId}] :
           j.at # "idle" => j.id \in Ids}

\* A report that is at an entity has one, and it is past the last one when it
\* comes to its relationships.
AtEntity(r) == task[r].at \in {"look", "link", "append", "check", "insert"}
Placed(r) ==
  /\ AtEntity(r) => task[r].pos \in DOMAIN EntitiesOf[r]
  /\ task[r].at = "relate" => task[r].pos > Len(EntitiesOf[r])

Typed ==
  /\ TypeOK
  /\ \A r \in Report : Placed(r)
  /\ job \in [Curator -> Jobs]

LEMMA TaskTyped ==
  ASSUME NEW at \in {"idle", "look", "link", "append", "check", "insert", "relate", "done", "failed"},
         NEW pos \in Nat \ {0}, NEW found \in Ids \cup {NoId}
  PROVE  Task(at, pos, found) \in Tasks
BY DEF Task, Tasks

LEMMA JobTyped ==
  ASSUME NEW at \in {"idle", "accept", "reject", "add", "targets", "insert"},
         NEW id \in Ids \cup {NoId}, NEW target \in Ids \cup {NoId},
         at # "idle" => id \in Ids
  PROVE  [at |-> at, id |-> id, target |-> target] \in Jobs
BY DEF Jobs

\* What follows an entity is the next one, or the relationships.
LEMMA OnwardsTyped ==
  ASSUME NEW r \in Report, NEW pos \in Nat \ {0}
  PROVE  /\ Onwards(r, pos) \in Tasks
         /\ Onwards(r, pos).pos = pos
         /\ \/ Onwards(r, pos).at = "relate" /\ pos > Len(EntitiesOf[r])
            \/ Onwards(r, pos).at = "look" /\ pos \in DOMAIN EntitiesOf[r]
<1>1. EntitiesOf[r] \in Seq(Name)
  BY VocabularyAssumption
<1>2. Len(EntitiesOf[r]) \in Nat /\ DOMAIN EntitiesOf[r] = 1..Len(EntitiesOf[r])
  BY <1>1
<1>3. (IF pos > Len(EntitiesOf[r]) THEN "relate" ELSE "look")
        \in {"idle", "look", "link", "append", "check", "insert", "relate", "done", "failed"}
  OBVIOUS
<1>4. Onwards(r, pos) \in Tasks
  BY <1>3, TaskTyped DEF Onwards
<1> QED
  BY <1>2, <1>4 DEF Onwards, Task

\* The entity that a report is at has a name.
LEMMA EntityNamed ==
  ASSUME NEW r \in Report, Placed(r), AtEntity(r)
  PROVE  Entity(r) \in Name
<1>1. EntitiesOf[r] \in Seq(Name)
  BY VocabularyAssumption
<1> QED
  BY <1>1 DEF Entity, Placed

LEMMA TypeInit == Init => Typed
<1> SUFFICES ASSUME Init PROVE Typed
  OBVIOUS
<1>1. Task("idle", 1, NoId) \in Tasks
  BY TaskTyped
<1>2. Idle \in Jobs
  BY JobTyped DEF Idle
<1>3. TypeOK
  BY <1>1, <1>2 DEF Init, TypeOK, Tasks, Jobs
<1>4. ASSUME NEW r \in Report PROVE Placed(r)
  BY DEF Init, Placed, AtEntity, Task
<1> QED
  BY <1>2, <1>3, <1>4 DEF Typed, Init

\* A step of a report that ends in a well-placed task, whatever it has written.
LEMMA TaskStep ==
  ASSUME Typed, NEW r \in Report, NEW next \in Tasks, ReportMoves(r, next),
         linked' \in [Report -> SUBSET Ids], altered' \in [Report -> SUBSET Ids],
         next.at \in {"look", "link", "append", "check", "insert"} => next.pos \in DOMAIN EntitiesOf[r],
         next.at = "relate" => next.pos > Len(EntitiesOf[r])
  PROVE  Typed'
<1>1. task' \in [Report -> Tasks]
  BY DEF Typed, TypeOK, ReportMoves, Tasks
<1>2. TypeOK'
  BY <1>1 DEF Typed, TypeOK, ReportMoves, tables, Tasks
<1>3. ASSUME NEW q \in Report PROVE Placed(q)'
  BY <1>1 DEF Typed, TypeOK, Placed, AtEntity, ReportMoves
<1> QED
  BY <1>2, <1>3 DEF Typed, ReportMoves

\* A step that leaves the reports alone.
LEMMA TypeKept ==
  ASSUME Typed, UNCHANGED <<task, linked, altered>>,
         terms' \subseteq [id : Ids, source : Sources], edges' \subseteq Ids \X Ids,
         occurrences' \subseteq Ids \X Doc, rejected' \subseteq Name,
         job' \in [Curator -> Jobs], accepted' \subseteq Ids,
         overlapped' \subseteq {"reports", "curators"}
  PROVE  Typed'
<1>1. TypeOK'
  BY DEF Typed, TypeOK, Jobs
<1>2. ASSUME NEW r \in Report PROVE Placed(r)'
  BY DEF Typed, Placed, AtEntity
<1> QED
  BY <1>1, <1>2 DEF Typed

\* acceptCandidate rewrites the source of one term and no id.
LEMMA AcceptEffect ==
  ASSUME TypeOK, NEW c \in Curator, AcceptWrites(c)
  PROVE  /\ \A u \in terms' : \E t \in terms :
              /\ u.id = t.id
              /\ u = IF t.id = job[c].id THEN [id |-> t.id, source |-> "candidate_accepted"]
                                        ELSE t
         /\ \A t \in terms :
              IF t.id = job[c].id THEN [id |-> t.id, source |-> "candidate_accepted"] \in terms'
                                  ELSE t \in terms'
         /\ Committed' = Committed
<1> DEFINE W(t) == IF t.id = job[c].id THEN [t EXCEPT !.source = "candidate_accepted"] ELSE t
<1>1. terms' = {W(t) : t \in terms}
  BY DEF AcceptWrites
<1>2. ASSUME NEW t \in terms
      PROVE  /\ W(t).id = t.id
             /\ t.id = job[c].id => W(t) = [id |-> t.id, source |-> "candidate_accepted"]
             /\ t.id # job[c].id => W(t) = t
  <2>1. t \in [id : Ids, source : Sources]
    BY DEF TypeOK
  <2> QED
    BY <2>1
<1>3. \A t \in terms : W(t) \in terms'
  BY <1>1
<1>4. \A u \in terms' : \E t \in terms : u = W(t)
  BY <1>1
<1> HIDE DEF W
<1> QED
  BY <1>2, <1>3, <1>4 DEF Committed

\* The call of a curator goes on to another point, or begins.
LEMMA JobMoves ==
  ASSUME Typed, NEW c \in Curator, job[c].at # "idle",
         NEW at \in {"idle", "accept", "reject", "add", "targets", "insert"}
  PROVE  /\ [job[c] EXCEPT !.at = at] \in Jobs
         /\ [job[c] EXCEPT !.at = at].at = at
         /\ [job[c] EXCEPT !.at = at].id = job[c].id
         /\ [job[c] EXCEPT !.at = at].target = job[c].target
<1>1. job[c] \in Jobs
  BY DEF Typed
<1> QED
  BY <1>1 DEF Jobs

\* ReportInserts and ReportLinks add an id, or the report fails.
LEMMA LinkedTyped ==
  ASSUME Typed, NEW r \in Report
  PROVE  /\ [linked EXCEPT ![r] = {}] \in [Report -> SUBSET Ids]
         /\ \A id \in Ids : [linked EXCEPT ![r] = @ \cup {id}] \in [Report -> SUBSET Ids]
         /\ linked[r] \subseteq Ids /\ Committed \subseteq Ids
BY DEF Typed, TypeOK, Committed

\* The rows that a report updates are terms.
LEMMA AlteredTyped ==
  ASSUME Typed, NEW r \in Report,
         ReportBegins(r) \/ ReportNext(r) \/ ReportFails(r)
  PROVE  altered' \in [Report -> SUBSET Ids]
<1>1. altered \in [Report -> SUBSET Ids] /\ Committed \cup linked[r] \subseteq Ids
  BY LinkedTyped DEF Typed, TypeOK
<1>2. \/ UNCHANGED altered
      \/ altered' = [altered EXCEPT ![r] = {}]
      \/ /\ task[r].found \in Committed \cup linked[r]
         /\ altered' = [altered EXCEPT ![r] = @ \cup {task[r].found}]
  BY DEF ReportNext, ReportBegins, ReportLooks, ReportLinks, ReportChecks, ReportInserts,
     ReportCommits, DeadlockAborts, ReportFails
<1> QED
  BY <1>1, <1>2

LEMMA ReportTypes ==
  ASSUME Typed, NEW r \in Report,
         ReportBegins(r) \/ ReportNext(r) \/ ReportFails(r)
  PROVE  Typed'
<1>0. altered' \in [Report -> SUBSET Ids]
  BY AlteredTyped
<1>1. task[r] \in Tasks /\ Placed(r)
  BY DEF Typed, TypeOK, Tasks
<1>2. task[r].pos \in Nat \ {0} /\ task[r].pos + 1 \in Nat \ {0}
  BY <1>1 DEF Tasks
<1> DEFINE failed == Task("failed", 1, NoId)
<1>3. failed \in Tasks /\ failed.at = "failed"
  BY TaskTyped DEF Task
<1>4. CASE ReportBegins(r)
  <2>1. task' = [task EXCEPT ![r] = Onwards(r, 1)]
    BY <1>4 DEF ReportBegins
  <2>2. task' \in [Report -> Tasks] /\ task'[r] = Onwards(r, 1)
    BY <2>1, OnwardsTyped DEF Typed, TypeOK, Tasks
  <2>3. TypeOK'
    BY <1>0, <1>4, <2>2 DEF ReportBegins, Typed, TypeOK, Tasks, Overlap, tables
  <2>4. ASSUME NEW q \in Report PROVE Placed(q)'
    <3>1. CASE q = r
      BY <3>1, <2>2, OnwardsTyped DEF Placed, AtEntity
    <3>2. CASE q # r
      BY <3>2, <2>1 DEF Typed, TypeOK, Placed, AtEntity
    <3> QED
      BY <3>1, <3>2
  <2> QED
    BY <1>4, <2>3, <2>4 DEF Typed, ReportBegins
<1>5. CASE ReportLooks(r)
  <2>1. PICK next : /\ ReportMoves(r, next)
                    /\ \/ \E id \in Seen(r, Entity(r)), at \in {"link", "append"} :
                            next = Task(at, task[r].pos, id)
                       \/ next = Task("check", task[r].pos, NoId)
    BY <1>5 DEF ReportLooks
  <2>2. Seen(r, Entity(r)) \subseteq Ids
    BY LinkedTyped DEF Seen
  <2>3. next \in Tasks /\ next.pos = task[r].pos /\ next.at \in {"link", "append", "check"}
    BY <2>1, <2>2, <1>2, TaskTyped DEF Task
  <2>4. linked' \in [Report -> SUBSET Ids]
    BY <1>5 DEF ReportLooks, Typed, TypeOK
  <2>5. task[r].pos \in DOMAIN EntitiesOf[r]
    BY <1>1, <1>5 DEF Placed, AtEntity, ReportLooks
  <2> QED
    BY <2>1, <2>3, <2>4, <2>5, TaskStep, <1>0
<1>6. CASE ReportLinks(r)
  <2>1. CASE ReportMoves(r, Onwards(r, task[r].pos + 1)) /\ linked' \in [Report -> SUBSET Ids]
    BY <2>1, <1>2, OnwardsTyped, TaskStep, <1>0
  <2>2. CASE ReportMoves(r, failed) /\ linked' \in [Report -> SUBSET Ids]
    BY <2>2, <1>3, TaskStep, <1>0
  <2> QED
    BY <1>6, <2>1, <2>2, LinkedTyped DEF ReportLinks
<1>7. CASE ReportChecks(r)
  <2>1. linked' \in [Report -> SUBSET Ids]
    BY <1>7 DEF ReportChecks, Typed, TypeOK
  <2>2. CASE ReportMoves(r, Onwards(r, task[r].pos + 1))
    BY <2>1, <2>2, <1>2, OnwardsTyped, TaskStep, <1>0
  <2>3. CASE ReportMoves(r, Task("insert", task[r].pos, NoId))
    <3>1. Task("insert", task[r].pos, NoId) \in Tasks
      BY <1>2, TaskTyped
    <3>2. task[r].pos \in DOMAIN EntitiesOf[r]
      BY <1>1, <1>7 DEF Placed, AtEntity, ReportChecks
    <3> QED
      BY <2>1, <2>3, <3>1, <3>2, TaskStep, <1>0 DEF Task
  <2> QED
    BY <1>7, <2>2, <2>3 DEF ReportChecks
<1>8. CASE ReportInserts(r)
  <2>1. [by |-> r, name |-> Entity(r)] \in Ids
    BY <1>8, <1>1, EntityNamed DEF Ids, ReportInserts, AtEntity
  <2>2. CASE ReportMoves(r, Onwards(r, task[r].pos + 1)) /\ linked' \in [Report -> SUBSET Ids]
    BY <2>2, <1>2, OnwardsTyped, TaskStep, <1>0
  <2>3. CASE ReportMoves(r, failed) /\ linked' \in [Report -> SUBSET Ids]
    BY <2>3, <1>3, TaskStep, <1>0
  <2> QED
    BY <1>8, <2>1, <2>2, <2>3, LinkedTyped DEF ReportInserts
<1>9. CASE ReportCommits(r)
  <2> DEFINE done == Task("done", 1, NoId)
  <2>1. task' = [task EXCEPT ![r] = done] /\ done \in Tasks /\ done.at = "done"
    BY <1>9, TaskTyped DEF ReportCommits, Task
  <2>2. terms' \subseteq [id : Ids, source : Sources]
    BY <1>9, LinkedTyped DEF ReportCommits, Typed, TypeOK, Sources
  <2>3. occurrences' \subseteq Ids \X Doc /\ edges' \subseteq Ids \X Ids
    BY <1>9, LinkedTyped, VocabularyAssumption DEF ReportCommits, Typed, TypeOK, Resolves
  <2>4. linked' \in [Report -> SUBSET Ids]
    BY <1>9, LinkedTyped DEF ReportCommits
  <2>5. task' \in [Report -> Tasks]
    BY <2>1 DEF Typed, TypeOK, Tasks
  <2>6. TypeOK'
    BY <1>0, <1>9, <2>2, <2>3, <2>4, <2>5 DEF ReportCommits, Typed, TypeOK, Tasks
  <2>7. ASSUME NEW q \in Report PROVE Placed(q)'
    BY <2>1 DEF Typed, TypeOK, Placed, AtEntity
  <2> QED
    BY <1>9, <2>6, <2>7 DEF Typed, ReportCommits
<1>10. CASE DeadlockAborts(r) \/ ReportFails(r)
  BY <1>10, <1>3, LinkedTyped, TaskStep, <1>0 DEF DeadlockAborts, ReportFails
<1> QED
  BY <1>4, <1>5, <1>6, <1>7, <1>8, <1>9, <1>10 DEF ReportNext

LEMMA CallTypes ==
  ASSUME Typed, NEW c \in Curator,
         \/ AcceptReads(c) \/ RejectReads(c) \/ AddLooks(c)
         \/ CallNext(c) \/ CallFails(c)
  PROVE  Typed'
<1>1. TypeOK /\ job \in [Curator -> Jobs] /\ Committed \subseteq Ids
  BY DEF Typed, TypeOK, Committed
<1>2. Idle \in Jobs
  BY JobTyped DEF Idle
<1>3. /\ job[c].id \in Ids \cup {NoId} /\ job[c].target \in Ids \cup {NoId}
      /\ job[c].at # "idle" => job[c].id \in Ids
  BY <1>1 DEF Jobs
<1>4. ASSUME NEW next \in Jobs, Begins(c, next)
      PROVE  Typed'
  BY <1>4, <1>1, TypeKept DEF Begins, Overlap, TypeOK, tables
<1>5. CASE AcceptReads(c) \/ RejectReads(c)
  BY <1>5, <1>1, <1>4, JobTyped DEF AcceptReads, RejectReads, TypeOK
<1>6. CASE AddLooks(c)
  <2>1. PICK n \in Name, target \in Committed \cup {NoId} :
          Begins(c, [at |-> "add", id |-> [by |-> c, name |-> n], target |-> target])
    BY <1>6 DEF AddLooks
  <2>2. [by |-> c, name |-> n] \in Ids /\ target \in Ids \cup {NoId}
    BY <1>1 DEF Ids
  <2> QED
    BY <2>1, <2>2, <1>4, JobTyped
<1>7. ASSUME Ends(c), terms' \subseteq [id : Ids, source : Sources], edges' \subseteq Ids \X Ids,
             occurrences' \subseteq Ids \X Doc, rejected' \subseteq Name, accepted' \subseteq Ids
      PROVE  Typed'
  BY <1>7, <1>1, <1>2, TypeKept DEF Ends, TypeOK
<1>8. CASE AcceptWrites(c)
  <2>1. terms' \subseteq [id : Ids, source : Sources]
    <3>1. SUFFICES ASSUME NEW u \in terms' PROVE u \in [id : Ids, source : Sources]
      OBVIOUS
    <3>2. PICK t \in terms : u = t \/ u = [id |-> t.id, source |-> "candidate_accepted"]
      BY <1>8, <1>1, AcceptEffect
    <3> QED
      BY <3>2, <1>1 DEF TypeOK, Sources
  <2>2. accepted' \subseteq Ids
    <3>1. job[c].at = "accept"
      BY <1>8 DEF AcceptWrites
    <3> QED
      BY <1>8, <1>1, <1>3, <3>1 DEF AcceptWrites, TypeOK
  <2> QED
    BY <1>8, <1>7, <1>1, <2>1, <2>2 DEF AcceptWrites, TypeOK
<1>9. CASE RejectWrites(c)
  BY <1>9, <1>7, <1>1, <1>3 DEF RejectWrites, TypeOK, Ids
<1>10. CASE RejectRefused(c) \/ CallFails(c)
  BY <1>10, <1>7, <1>1 DEF RejectRefused, CallFails, TypeOK, tables
<1>11. CASE AddChecks(c) \/ AddFindsTargets(c)
  <2>1. job' \in [Curator -> Jobs]
    BY <1>11, <1>1, <1>2, JobMoves DEF AddChecks, AddFindsTargets
  <2> QED
    BY <1>11, <2>1, <1>1, TypeKept DEF AddChecks, AddFindsTargets, TypeOK, tables
<1>12. CASE AddInserts(c)
  <2>1. CASE UNCHANGED <<terms, edges>>
    BY <1>12, <2>1, <1>7, <1>1 DEF AddInserts, TypeOK
  <2>2. CASE /\ terms' = terms \cup {[id |-> job[c].id, source |-> "manual"]}
             /\ edges' = edges \cup ({job[c].id} \X ({job[c].target} \ {NoId}))
    BY <1>12, <2>2, <1>7, <1>1, <1>3 DEF AddInserts, TypeOK, Sources
  <2> QED
    BY <1>12, <2>1, <2>2 DEF AddInserts
<1> QED
  BY <1>5, <1>6, <1>8, <1>9, <1>10, <1>11, <1>12 DEF CallNext

LEMMA TypeStep == Typed /\ [Next]_vars => Typed'
<1> SUFFICES ASSUME Typed, [Next]_vars
             PROVE  Typed'
  OBVIOUS
<1>1. CASE UNCHANGED vars
  BY <1>1 DEF vars, tables, requests, Typed, TypeOK, Placed, AtEntity
<1> QED
  BY <1>1, ReportTypes, CallTypes DEF Next

\* The types of the tables, of the requests and of what they remember.
THEOREM TypeCorrect == Spec => []TypeOK
<1>1. Typed => TypeOK
  BY DEF Typed
<1> QED
  BY <1>1, TypeInit, TypeStep, PTL DEF Spec

-----------------------------------------------------------------------------
(* The tables agree.                                                       *)

\* A report that is not at work has nothing uncommitted, and its own terms
\* are committed with it.
Own(r) ==
  /\ Writing(r) \/ linked[r] = {}
  /\ \A id \in Committed : id.by = r => task[r].at = "done"

\* A curator adds a term under its own id.
Asked(c) == job[c].at \in {"add", "targets", "insert"} => job[c].id.by = c

Agreed ==
  /\ Typed /\ TablesAgree
  /\ \A r \in Report : Own(r)
  /\ \A c \in Curator : Asked(c)

LEMMA AgreeInit == Init => Agreed
<1> SUFFICES ASSUME Init PROVE Agreed
  OBVIOUS
<1>1. TablesAgree
  BY DEF Init, TablesAgree
<1>2. ASSUME NEW r \in Report PROVE Own(r)
  BY DEF Init, Own, Committed
<1>3. ASSUME NEW c \in Curator PROVE Asked(c)
  BY DEF Init, Asked, Idle
<1> QED
  BY <1>1, <1>2, <1>3, TypeInit DEF Agreed

\* An id is its two parts.
LEMMA IdParts == \A id, e \in Ids : id.by = e.by /\ id.name = e.name => id = e
BY DEF Ids

\* Nothing is written, and no report commits.
LEMMA AgreeKept ==
  ASSUME TablesAgree, UNCHANGED <<terms, edges, occurrences, linked>>
  PROVE  TablesAgree'
BY DEF TablesAgree, Committed, Taken, Pending

\* A report that fails takes back what it wrote.
Aborts(r) ==
  /\ linked' = [linked EXCEPT ![r] = {}]
  /\ ReportMoves(r, Task("failed", 1, NoId))

LEMMA AgreeAborts ==
  ASSUME Typed, TablesAgree, NEW r \in Report, Aborts(r)
  PROVE  TablesAgree'
<1>1. \A q \in Report : linked'[q] \subseteq linked[q]
  BY DEF Typed, TypeOK, Aborts
<1>2. Committed' = Committed /\ UNCHANGED <<terms, edges, occurrences>>
  BY DEF Aborts, ReportMoves, tables, Committed
<1> QED
  BY <1>1, <1>2 DEF TablesAgree, Taken, Pending

LEMMA AgreeLinks ==
  ASSUME Agreed, NEW r \in Report, NEW id \in Ids, UNCHANGED <<terms, edges, occurrences>>,
         linked' = [linked EXCEPT ![r] = @ \cup {id}],
         IF id.by = r THEN ~Taken(id.name) /\ ~Pending(id.name, r) ELSE id \in Committed
  PROVE  TablesAgree'
<1>1. linked'[r] = linked[r] \cup {id} /\ \A q \in Report \ {r} : linked'[q] = linked[q]
  BY DEF Agreed, Typed, TypeOK
<1>2. Committed' = Committed
  BY DEF Committed
<1>3. ASSUME NEW q \in Report, NEW e \in linked'[q]
      PROVE  IF e.by = q THEN ~Taken(e.name)' /\ ~Pending(e.name, q)' ELSE e \in Committed'
  <2>1. e \in Ids
    BY <1>1 DEF Agreed, Typed, TypeOK
  <2>2. CASE q = r
    <3>1. IF e.by = r THEN ~Taken(e.name) /\ ~Pending(e.name, r) ELSE e \in Committed
      BY <1>1, <2>2 DEF Agreed, TablesAgree
    <3>2. ~Pending(e.name, r) => ~Pending(e.name, r)'
      BY <1>1 DEF Pending
    <3>3. Taken(e.name)' = Taken(e.name)
      BY <1>2 DEF Taken
    <3> QED
      BY <1>2, <2>2, <3>1, <3>2, <3>3
  <2>3. CASE q # r
    <3>1. e \in linked[q]
      BY <1>1, <2>3
    <3>2. IF e.by = q THEN ~Taken(e.name) /\ ~Pending(e.name, q) ELSE e \in Committed
      BY <3>1 DEF Agreed, TablesAgree
    <3>3. CASE e.by = q
      <4>1. e = [by |-> q, name |-> e.name]
        BY <2>1, <3>3 DEF Ids
      <4>2. SUFFICES [by |-> r, name |-> e.name] \notin linked'[r]
        BY <1>1, <1>2, <3>2, <3>3, <4>1 DEF Taken, Pending
      <4>3. [by |-> r, name |-> e.name] \notin linked[r]
        BY <2>3, <3>2, <3>3 DEF Pending
      <4>4. id # [by |-> r, name |-> e.name]
        BY <2>3, <3>1, <4>1 DEF Pending
      <4> QED
        BY <1>1, <4>3, <4>4
    <3>4. CASE e.by # q
      BY <3>2, <3>4, <1>2
    <3> QED
      BY <3>3, <3>4
  <2> QED
    BY <2>2, <2>3
<1> QED
  BY <1>2, <1>3 DEF Agreed, TablesAgree

LEMMA AgreeCommits ==
  ASSUME Agreed, NEW r \in Report, ReportCommits(r)
  PROVE  TablesAgree'
<1> DEFINE new == {[id |-> id, source |-> "llm_extracted"] : id \in linked[r] \ Committed}
<1>1. /\ terms' = terms \cup new
      /\ occurrences' = occurrences \cup (linked[r] \X {DocOf[r]})
      /\ edges' = edges \cup Resolves(r)
      /\ linked' = [linked EXCEPT ![r] = {}]
  BY DEF ReportCommits
<1>2. linked'[r] = {} /\ \A q \in Report \ {r} : linked'[q] = linked[q]
  BY <1>1 DEF Agreed, Typed, TypeOK
<1>3. Committed' = Committed \cup linked[r]
  <2>1. \A u \in new : u.id \in linked[r] \ Committed
    OBVIOUS
  <2>2. \A id \in linked[r] \ Committed : \E u \in new : u.id = id
    <3>1. SUFFICES ASSUME NEW id \in linked[r] \ Committed PROVE \E u \in new : u.id = id
      OBVIOUS
    <3> WITNESS [id |-> id, source |-> "llm_extracted"] \in new
    <3> QED
      OBVIOUS
  <2> HIDE DEF new
  <2> QED
    BY <1>1, <2>1, <2>2 DEF Committed
<1>4. \A id \in linked[r] \ Committed :
        /\ id = [by |-> r, name |-> id.name]
        /\ ~Taken(id.name) /\ ~Pending(id.name, r)
  BY DEF Agreed, Typed, TypeOK, TablesAgree, Ids
<1>5. \A t \in terms : t.id \in Committed
  BY DEF Committed
<1>6. ASSUME NEW t \in terms', NEW u \in terms', t.id.name = u.id.name
      PROVE  t = u
  <2>1. CASE t \in terms /\ u \in terms
    BY <2>1, <1>6 DEF Agreed, TablesAgree
  <2>2. CASE t \in new /\ u \in new
    <3>1. PICK id \in linked[r] \ Committed : t = [id |-> id, source |-> "llm_extracted"]
      BY <2>2
    <3>2. PICK e \in linked[r] \ Committed : u = [id |-> e, source |-> "llm_extracted"]
      BY <2>2
    <3>3. id.name = e.name
      BY <3>1, <3>2, <1>6
    <3> QED
      BY <3>1, <3>2, <3>3, <1>4
  <2>3. ASSUME NEW x \in terms, NEW y \in new
        PROVE  x.id.name # y.id.name
    <3>1. y.id \in linked[r] \ Committed
      OBVIOUS
    <3> QED
      BY <3>1, <1>4, <1>5 DEF Taken
  <2> QED
    BY <1>1, <1>6, <2>1, <2>2, <2>3
<1>7. ASSUME NEW q \in Report, NEW e \in linked'[q]
      PROVE  IF e.by = q THEN ~Taken(e.name)' /\ ~Pending(e.name, q)' ELSE e \in Committed'
  <2>1. q # r /\ e \in linked[q]
    BY <1>2
  <2>2. IF e.by = q THEN ~Taken(e.name) /\ ~Pending(e.name, q) ELSE e \in Committed
    BY <2>1 DEF Agreed, TablesAgree
  <2>3. CASE e.by = q
    <3>1. e = [by |-> q, name |-> e.name]
      BY <2>1, <2>3 DEF Agreed, Typed, TypeOK, Ids
    <3>2. ~Taken(e.name)'
      <4>1. ASSUME NEW id \in linked[r] \ Committed PROVE id.name # e.name
        BY <1>4, <2>1, <3>1 DEF Pending
      <4> QED
        BY <4>1, <1>3, <2>2, <2>3 DEF Taken
    <3>3. ~Pending(e.name, q)'
      BY <1>2, <2>2, <2>3 DEF Pending
    <3> QED
      BY <2>3, <3>2, <3>3
  <2>4. CASE e.by # q
    BY <2>2, <2>4, <1>3
  <2> QED
    BY <2>3, <2>4
<1>8. \A e \in edges' : {e[1], e[2]} \subseteq Committed'
  <2>1. \A e \in edges : {e[1], e[2]} \subseteq Committed
    BY DEF Agreed, TablesAgree
  <2>2. \A e \in Resolves(r) : {e[1], e[2]} \subseteq Committed \cup linked[r]
    BY DEF Resolves
  <2> QED
    BY <1>1, <1>3, <2>1, <2>2
<1>9. \A o \in occurrences' : o[1] \in Committed'
  <2>1. \A o \in occurrences : o[1] \in Committed
    BY DEF Agreed, TablesAgree
  <2> QED
    BY <1>1, <1>3, <2>1
<1> QED
  BY <1>6, <1>7, <1>8, <1>9 DEF TablesAgree

\* DeadlockAborts and ReportFails only abort; the others abort or write.
LEMMA AgreeReport ==
  ASSUME Agreed, NEW r \in Report,
         ReportBegins(r) \/ ReportNext(r) \/ ReportFails(r)
  PROVE  TablesAgree'
<1>1. Typed /\ TablesAgree /\ Own(r) /\ linked[r] \subseteq Ids /\ Committed \subseteq Ids
  BY LinkedTyped DEF Agreed
<1>2. CASE ReportBegins(r) \/ ReportLooks(r) \/ ReportChecks(r)
  BY <1>2, <1>1, AgreeKept DEF ReportBegins, ReportLooks, ReportChecks, ReportMoves, tables
<1>3. CASE Aborts(r)
  BY <1>3, <1>1, AgreeAborts
<1>4. CASE ReportLinks(r)
  <2>1. CASE /\ task[r].found \in Committed \cup linked[r]
             /\ linked' = [linked EXCEPT ![r] = @ \cup {task[r].found}]
    <3>1. task[r].found \in Ids
      BY <2>1, <1>1
    <3>2. IF task[r].found.by = r
          THEN ~Taken(task[r].found.name) /\ ~Pending(task[r].found.name, r)
          ELSE task[r].found \in Committed
      <4>1. task[r].found \in Committed => task[r].found.by # r
        BY <1>1, <1>4 DEF Own, ReportLinks
      <4> QED
        BY <2>1, <4>1, <1>1 DEF TablesAgree
    <3>3. UNCHANGED <<terms, edges, occurrences>>
      BY <1>4 DEF ReportLinks, ReportMoves, tables
    <3> QED
      BY <2>1, <3>1, <3>2, <3>3, AgreeLinks
  <2> QED
    BY <1>4, <1>3, <2>1 DEF ReportLinks, Aborts
<1>5. CASE ReportInserts(r)
  <2> DEFINE id == [by |-> r, name |-> Entity(r)]
  <2>1. CASE ~Taken(Entity(r)) /\ linked' = [linked EXCEPT ![r] = @ \cup {id}]
    <3>1. id \in Ids
      BY <1>5, <1>1, EntityNamed DEF Ids, ReportInserts, AtEntity, Typed
    <3>2. UNCHANGED <<terms, edges, occurrences>> /\ ~Pending(Entity(r), r)
      BY <1>5 DEF ReportInserts, ReportMoves, tables
    <3> QED
      BY <2>1, <3>1, <3>2, AgreeLinks
  <2> QED
    BY <1>5, <1>3, <2>1 DEF ReportInserts, Aborts
<1>6. CASE DeadlockAborts(r) \/ ReportFails(r)
  BY <1>6, <1>3 DEF DeadlockAborts, ReportFails, Aborts
<1> QED
  BY <1>2, <1>4, <1>5, <1>6, AgreeCommits DEF ReportNext

\* A report's own terms: it has none in the table before it is done.
LEMMA OwnReport ==
  ASSUME Agreed, NEW r \in Report,
         ReportBegins(r) \/ ReportNext(r) \/ ReportFails(r)
  PROVE  \A q \in Report : Own(q)'
<1>1. task \in [Report -> Tasks] /\ linked \in [Report -> SUBSET Ids] /\ \A q \in Report : Own(q)
  BY DEF Agreed, Typed, TypeOK, Tasks
<1>2. /\ Committed' = Committed \/ ReportCommits(r)
      /\ Committed' \subseteq Committed \cup linked[r]
  <2>1. CASE ReportCommits(r)
    BY <2>1 DEF ReportCommits, Committed
  <2>2. CASE ~ReportCommits(r)
    BY <2>2 DEF ReportNext, ReportBegins, ReportLooks, ReportLinks, ReportChecks, ReportInserts,
       DeadlockAborts, ReportFails, ReportMoves, tables, Committed
  <2> QED
    BY <2>1, <2>2
<1>3. /\ task[r].at # "done"
      /\ \/ task'[r].at \notin {"idle", "done", "failed"}
         \/ linked' = [linked EXCEPT ![r] = {}]
  <2>1. \A pos \in Nat \ {0} : Onwards(r, pos).at \in {"look", "relate"}
    BY OnwardsTyped
  <2>2. task[r].pos + 1 \in Nat \ {0}
    BY <1>1 DEF Tasks
  <2>3. CASE ReportBegins(r)
    BY <1>1, <2>1, <2>3 DEF ReportBegins
  <2>4. CASE ReportLooks(r)
    BY <1>1, <2>4 DEF ReportLooks, ReportMoves, Task
  <2>5. CASE ReportLinks(r)
    BY <1>1, <2>1, <2>2, <2>5 DEF ReportLinks, ReportMoves
  <2>6. CASE ReportChecks(r)
    BY <1>1, <2>1, <2>2, <2>6 DEF ReportChecks, ReportMoves, Task
  <2>7. CASE ReportInserts(r)
    BY <1>1, <2>1, <2>2, <2>7 DEF ReportInserts, ReportMoves
  <2>8. CASE ReportCommits(r)
    BY <2>8 DEF ReportCommits
  <2>9. CASE DeadlockAborts(r)
    <3>1. \E o \in Report : WaitsFor(r, o)
      BY <2>9 DEF DeadlockAborts
    <3> QED
      BY <2>9, <3>1 DEF DeadlockAborts, WaitsFor
  <2>10. CASE ReportFails(r)
    BY <2>10 DEF ReportFails, Writing
  <2> QED
    BY <2>3, <2>4, <2>5, <2>6, <2>7, <2>8, <2>9, <2>10 DEF ReportNext
<1>4. \A q \in Report \ {r} : task'[q] = task[q] /\ linked'[q] = linked[q]
  BY <1>1 DEF ReportNext, ReportBegins, ReportLooks, ReportLinks, ReportChecks, ReportInserts,
     ReportCommits, DeadlockAborts, ReportFails, ReportMoves
<1>5. ReportCommits(r) => task'[r].at = "done"
  BY <1>1 DEF ReportCommits, Task
<1>6. ASSUME NEW q \in Report \ {r}
      PROVE  Own(q)'
  <2>1. Writing(q)' = Writing(q)
    BY <1>4 DEF Writing
  <2>2. \A id \in linked[r] : id.by = q => id \in Committed
    BY DEF Agreed, TablesAgree
  <2> QED
    BY <1>1, <1>2, <1>4, <2>1, <2>2 DEF Own
<1>7. Own(r)'
  <2>1. Writing(r)' \/ linked'[r] = {}
    BY <1>1, <1>3 DEF Writing
  <2>2. \A id \in Committed' : id.by = r => task'[r].at = "done"
    BY <1>1, <1>2, <1>3, <1>5 DEF Own
  <2> QED
    BY <2>1, <2>2 DEF Own
<1> QED
  BY <1>6, <1>7

\* A rejection takes out a term that no report refers to, with all that does.
LEMMA AgreeRejects ==
  ASSUME Agreed, NEW c \in Curator, RejectWrites(c)
  PROVE  TablesAgree'
<1> DEFINE id == job[c].id
<1>1. /\ terms' = {t \in terms : t.id # id} /\ UNCHANGED linked
      /\ edges' = {e \in edges : id \notin {e[1], e[2]}}
      /\ occurrences' = {o \in occurrences : o[1] # id}
      /\ ~Locked(id)
  BY DEF RejectWrites, Ends
<1>2. Committed' = Committed \ {id}
  BY <1>1 DEF Committed
<1>3. \A r \in Report : \A e \in linked[r] : e # id
  BY <1>1 DEF Locked
<1>4. ASSUME NEW r \in Report, NEW e \in linked'[r]
      PROVE  IF e.by = r THEN ~Taken(e.name)' /\ ~Pending(e.name, r)' ELSE e \in Committed'
  BY <1>1, <1>2, <1>3 DEF Agreed, TablesAgree, Taken, Pending
<1>5. /\ \A t, u \in terms' : t.id.name = u.id.name => t = u
      /\ \A e \in edges' : {e[1], e[2]} \subseteq Committed'
      /\ \A o \in occurrences' : o[1] \in Committed'
  BY <1>1, <1>2 DEF Agreed, TablesAgree
<1> QED
  BY <1>4, <1>5 DEF TablesAgree

\* An addition puts in a term whose name nobody has, and refers to a term
\* that is there.
LEMMA AgreeAdds ==
  ASSUME Agreed, NEW c \in Curator, AddInserts(c)
  PROVE  TablesAgree' /\ \A id \in Committed' : id \in Committed \/ id.by = c
<1> DEFINE id == job[c].id
           target == job[c].target
           term == [id |-> id, source |-> "manual"]
<1>1. CASE UNCHANGED <<terms, edges>>
  <2>1. UNCHANGED <<occurrences, linked>>
    BY DEF AddInserts, Ends
  <2> QED
    BY <1>1, <2>1, AgreeKept DEF Agreed, Committed
<1>2. CASE /\ ~Taken(id.name) /\ target \in Committed \cup {NoId}
           /\ terms' = terms \cup {term}
           /\ edges' = edges \cup ({id} \X ({target} \ {NoId}))
  <2>1. UNCHANGED <<occurrences, linked>> /\ ~Pending(id.name, c) /\ id.by = c /\ id \in Ids
    <3>1. job[c].at = "insert" /\ job[c] \in Jobs
      BY DEF AddInserts, Agreed, Typed
    <3> QED
      BY <3>1 DEF AddInserts, Ends, Agreed, Asked, Jobs
  <2>2. c \notin Report
    BY VocabularyAssumption
  <2>3. Committed' = Committed \cup {id}
    <3>1. term.id = id
      OBVIOUS
    <3> HIDE DEF term
    <3> QED
      BY <1>2, <3>1 DEF Committed
  <2>4. ASSUME NEW r \in Report, NEW e \in linked'[r]
        PROVE  IF e.by = r THEN ~Taken(e.name)' /\ ~Pending(e.name, r)' ELSE e \in Committed'
    <3>1. IF e.by = r THEN ~Taken(e.name) /\ ~Pending(e.name, r) ELSE e \in Committed
      BY <2>1, <2>4 DEF Agreed, TablesAgree
    <3>2. CASE e.by = r
      <4>1. e = [by |-> r, name |-> e.name]
        BY <2>1, <3>2, <2>4 DEF Agreed, Typed, TypeOK, Ids
      <4>2. e.name # id.name
        BY <2>1, <2>2, <2>4, <4>1 DEF Pending
      <4> QED
        BY <2>1, <2>3, <3>1, <3>2, <4>2 DEF Taken, Pending
    <3>3. CASE e.by # r
      BY <2>3, <3>1, <3>3
    <3> QED
      BY <3>2, <3>3
  <2>5. ASSUME NEW t \in terms', NEW u \in terms', t.id.name = u.id.name
        PROVE  t = u
    <3>1. \A x \in terms : x.id \in Committed
      BY DEF Committed
    <3>2. \A x \in terms : x.id.name # id.name
      BY <1>2, <3>1 DEF Taken
    <3> QED
      BY <1>2, <2>5, <3>2 DEF Agreed, TablesAgree
  <2>6. \A e \in edges' : {e[1], e[2]} \subseteq Committed'
    <3>1. \A e \in edges : {e[1], e[2]} \subseteq Committed
      BY DEF Agreed, TablesAgree
    <3>2. \A e \in {id} \X ({target} \ {NoId}) : e[1] = id /\ e[2] = target /\ target \in Committed
      BY <1>2
    <3> QED
      BY <1>2, <2>3, <3>1, <3>2
  <2>7. \A o \in occurrences' : o[1] \in Committed'
    BY <2>1, <2>3 DEF Agreed, TablesAgree
  <2>8. TablesAgree'
    BY <2>4, <2>5, <2>6, <2>7 DEF TablesAgree
  <2> QED
    BY <2>1, <2>3, <2>8
<1> QED
  BY <1>1, <1>2 DEF AddInserts

LEMMA AgreeCall ==
  ASSUME Agreed, NEW c \in Curator,
         \/ AcceptReads(c) \/ RejectReads(c) \/ AddLooks(c)
         \/ CallNext(c) \/ CallFails(c)
  PROVE  TablesAgree' /\ \A id \in Committed' : id \in Committed \/ id.by = c
<1>1. CASE UNCHANGED <<terms, edges, occurrences, linked>>
  BY <1>1, AgreeKept DEF Agreed, Committed
<1>2. CASE \/ AcceptReads(c) \/ RejectReads(c) \/ AddLooks(c) \/ RejectRefused(c)
           \/ AddChecks(c) \/ AddFindsTargets(c) \/ CallFails(c)
  BY <1>1, <1>2 DEF AcceptReads, RejectReads, AddLooks, RejectRefused, AddChecks,
     AddFindsTargets, CallFails, Begins, Ends, tables
<1>3. CASE AcceptWrites(c)
  <2>1. Committed' = Committed /\ UNCHANGED <<edges, occurrences, linked>>
    BY <1>3, AcceptEffect DEF AcceptWrites, Ends, Agreed, Typed
  <2>2. ASSUME NEW u \in terms', NEW v \in terms', u.id.name = v.id.name
        PROVE  u = v
    <3>1. PICK t \in terms : /\ u.id = t.id
                             /\ u = IF t.id = job[c].id THEN [id |-> t.id, source |-> "candidate_accepted"]
                                                       ELSE t
      BY <1>3, AcceptEffect DEF Agreed, Typed
    <3>2. PICK w \in terms : /\ v.id = w.id
                             /\ v = IF w.id = job[c].id THEN [id |-> w.id, source |-> "candidate_accepted"]
                                                       ELSE w
      BY <1>3, AcceptEffect DEF Agreed, Typed
    <3>3. t = w
      BY <2>2, <3>1, <3>2 DEF Agreed, TablesAgree
    <3> QED
      BY <3>1, <3>2, <3>3
  <2> QED
    BY <2>1, <2>2 DEF Agreed, TablesAgree, Taken, Pending
<1>4. CASE RejectWrites(c)
  <2>1. Committed' \subseteq Committed
    BY <1>4 DEF RejectWrites, Committed
  <2> QED
    BY <1>4, <2>1, AgreeRejects
<1> QED
  BY <1>2, <1>3, <1>4, AgreeAdds DEF CallNext

\* The id of a call of a curator stays what the call began with.
LEMMA AskedStep ==
  ASSUME Agreed, NEW c \in Curator,
         \/ AcceptReads(c) \/ RejectReads(c) \/ AddLooks(c)
         \/ CallNext(c) \/ CallFails(c)
  PROVE  \A e \in Curator : Asked(e)'
<1>1. job \in [Curator -> Jobs] /\ Asked(c)
  BY DEF Agreed, Typed
<1>2. ASSUME NEW next, job' = [job EXCEPT ![c] = next],
             next.at \in {"add", "targets", "insert"} => next.id.by = c
      PROVE  \A e \in Curator : Asked(e)'
  BY <1>1, <1>2 DEF Agreed, Asked
<1>3. Idle.at = "idle"
  BY DEF Idle
<1>4. CASE AcceptReads(c) \/ RejectReads(c)
  BY <1>2, <1>4 DEF AcceptReads, RejectReads, Begins
<1>5. CASE AddLooks(c)
  BY <1>2, <1>5 DEF AddLooks, Begins
<1>6. CASE AddChecks(c) \/ AddFindsTargets(c)
  <2>1. job[c].at \in {"add", "targets"} /\ job[c].id.by = c
    BY <1>1, <1>6 DEF AddChecks, AddFindsTargets, Asked
  <2>2. \A at \in {"targets", "insert"} : [job[c] EXCEPT !.at = at].id = job[c].id
    BY <2>1, JobMoves DEF Agreed
  <2> QED
    BY <1>2, <1>3, <1>6, <2>1, <2>2 DEF AddChecks, AddFindsTargets
<1>7. CASE Ends(c)
  BY <1>2, <1>3, <1>7 DEF Ends
<1> QED
  BY <1>4, <1>5, <1>6, <1>7 DEF CallNext, CallFails, AcceptWrites, RejectWrites, RejectRefused, AddInserts

LEMMA AgreeStep == Agreed /\ [Next]_vars => Agreed'
<1> SUFFICES ASSUME Agreed, [Next]_vars
             PROVE  Agreed'
  OBVIOUS
<1>1. Typed'
  BY TypeStep DEF Agreed
<1>2. ASSUME NEW r \in Report, ReportBegins(r) \/ ReportNext(r) \/ ReportFails(r)
      PROVE  Agreed'
  <2>1. job' = job
    BY <1>2 DEF ReportNext, ReportBegins, ReportLooks, ReportLinks, ReportChecks, ReportInserts,
       ReportCommits, DeadlockAborts, ReportFails, ReportMoves
  <2>2. \A c \in Curator : Asked(c)'
    BY <2>1 DEF Agreed, Asked
  <2> QED
    BY <1>1, <1>2, <2>2, AgreeReport, OwnReport DEF Agreed
<1>3. ASSUME NEW c \in Curator,
             \/ AcceptReads(c) \/ RejectReads(c) \/ AddLooks(c)
             \/ CallNext(c) \/ CallFails(c)
      PROVE  Agreed'
  <2>1. UNCHANGED <<task, linked>>
    BY <1>3 DEF AcceptReads, RejectReads, AddLooks, CallNext, CallFails, Begins, Ends, AcceptWrites,
       RejectWrites, RejectRefused, AddChecks, AddFindsTargets, AddInserts
  <2>2. \A id \in Committed' : id \in Committed \/ id.by = c
    BY <1>3, AgreeCall
  <2>3. ASSUME NEW r \in Report PROVE Own(r)'
    <3>1. r # c
      BY VocabularyAssumption
    <3> QED
      BY <2>1, <2>2, <3>1 DEF Agreed, Own, Writing
  <2> QED
    BY <1>1, <1>3, <2>3, AgreeCall, AskedStep DEF Agreed
<1>4. CASE UNCHANGED vars
  <2>1. UNCHANGED <<terms, edges, occurrences, task, linked, job>>
    BY <1>4 DEF vars, tables, requests
  <2>2. TablesAgree'
    BY <2>1, AgreeKept DEF Agreed
  <2>3. (\A r \in Report : Own(r)') /\ \A c \in Curator : Asked(c)'
    BY <2>1 DEF Agreed, Own, Asked, Writing, Committed
  <2> QED
    BY <1>1, <2>2, <2>3 DEF Agreed
<1> QED
  BY <1>2, <1>3, <1>4 DEF Next

\* The tables agree with each other and with what open transactions have
\* written, in every interleaving of any reports and curators.
THEOREM TablesTheorem == Spec => []TablesAgree
<1>1. Agreed => TablesAgree
  BY DEF Agreed
<1> QED
  BY <1>1, AgreeInit, AgreeStep, PTL DEF Spec

-----------------------------------------------------------------------------
(* Nothing that a report says is lost.                                     *)

\* What a report is sure of: of the entities it has passed, each has been
\* rejected or is linked, and the term it is about to link has its name.
Remembered(r, n) == n \in rejected \/ \E id \in linked[r] : id.name = n

Progress(r) ==
  /\ task[r].at \in {"link", "append"} => task[r].found \in Ids /\ task[r].found.name = Entity(r)
  /\ Writing(r) =>
       \A i \in DOMAIN EntitiesOf[r] : i < task[r].pos => Remembered(r, EntitiesOf[r][i])

Kept ==
  /\ Agreed
  /\ \A r \in Report : Progress(r)
  /\ EntitiesAreKept /\ RelationshipsAreKept

LEMMA KeptInit == Init => Kept
<1> SUFFICES ASSUME Init PROVE Kept
  OBVIOUS
<1>1. \A r \in Report : task[r].at = "idle"
  BY DEF Init, Task
<1> QED
  BY <1>1, AgreeInit DEF Kept, Progress, Writing, EntitiesAreKept, RelationshipsAreKept

\* Only a rejection takes something out of the tables.
LEMMA TablesMove ==
  ASSUME [Next]_vars
  PROVE  /\ rejected \subseteq rejected'
         /\ \A o \in occurrences : o \in occurrences' \/ o[1].name \in rejected'
         /\ \A e \in edges : e \in edges' \/ {e[1].name, e[2].name} \cap rejected' # {}
<1>1. ASSUME NEW c \in Curator, RejectWrites(c)
      PROVE  /\ rejected \subseteq rejected'
             /\ \A o \in occurrences : o \in occurrences' \/ o[1].name \in rejected'
             /\ \A e \in edges : e \in edges' \/ {e[1].name, e[2].name} \cap rejected' # {}
  BY <1>1 DEF RejectWrites
<1>2. CASE ~\E c \in Curator : RejectWrites(c)
  <2> DEFINE grows == rejected' = rejected /\ occurrences \subseteq occurrences' /\ edges \subseteq edges'
  <2>1. ASSUME NEW r \in Report, ReportBegins(r) \/ ReportNext(r) \/ ReportFails(r)
        PROVE  grows
    BY <2>1 DEF tables, ReportNext, ReportBegins, ReportLooks, ReportLinks, ReportChecks,
       ReportInserts, ReportCommits, DeadlockAborts, ReportFails, ReportMoves
  <2>2. ASSUME NEW c \in Curator,
               \/ AcceptReads(c) \/ RejectReads(c) \/ AddLooks(c)
               \/ CallNext(c) \/ CallFails(c)
        PROVE  grows
    BY <1>2, <2>2 DEF tables, AcceptReads, RejectReads, AddLooks, CallNext, CallFails, Begins,
       AcceptWrites, RejectRefused, AddChecks, AddFindsTargets, AddInserts
  <2>3. CASE UNCHANGED vars
    BY <2>3 DEF vars, tables
  <2> QED
    BY <2>1, <2>2, <2>3 DEF Next
<1> QED
  BY <1>1, <1>2

\* A report is done by its commit, and everything else leaves it alone.
LEMMA OnlyItself ==
  ASSUME Typed, [Next]_vars, NEW r \in Report
  PROVE  \/ ReportBegins(r) \/ ReportNext(r) \/ ReportFails(r)
         \/ task'[r] = task[r] /\ linked'[r] = linked[r]
<1>1. task \in [Report -> Tasks] /\ linked \in [Report -> SUBSET Ids]
  BY DEF Typed, TypeOK, Tasks
<1>2. ASSUME NEW q \in Report \ {r}, ReportBegins(q) \/ ReportNext(q) \/ ReportFails(q)
      PROVE  task'[r] = task[r] /\ linked'[r] = linked[r]
  BY <1>1, <1>2 DEF ReportNext, ReportBegins, ReportLooks, ReportLinks, ReportChecks, ReportInserts,
     ReportCommits, DeadlockAborts, ReportFails, ReportMoves
<1>3. ASSUME NEW c \in Curator,
             \/ AcceptReads(c) \/ RejectReads(c) \/ AddLooks(c)
             \/ CallNext(c) \/ CallFails(c)
      PROVE  UNCHANGED <<task, linked>>
  BY <1>3 DEF AcceptReads, RejectReads, AddLooks, CallNext, CallFails, Begins, Ends, AcceptWrites,
     RejectWrites, RejectRefused, AddChecks, AddFindsTargets, AddInserts
<1>4. CASE UNCHANGED vars
  BY <1>4 DEF vars, requests
<1> QED
  BY <1>2, <1>3, <1>4 DEF Next

LEMMA ProgressStep ==
  ASSUME Agreed, [Next]_vars, NEW r \in Report, Progress(r)
  PROVE  Progress(r)'
<1>1. /\ task \in [Report -> Tasks] /\ linked \in [Report -> SUBSET Ids] /\ Placed(r)
      /\ Committed \subseteq Ids /\ rejected \subseteq rejected'
  BY TablesMove DEF Agreed, Typed, TypeOK, Tasks, Committed
<1>2. task[r].pos \in Nat \ {0} /\ task[r].pos + 1 \in Nat \ {0}
  BY <1>1 DEF Tasks
<1>3. DOMAIN EntitiesOf[r] \subseteq Nat \ {0}
  <2>1. EntitiesOf[r] \in Seq(Name)
    BY VocabularyAssumption
  <2> QED
    BY <2>1
<1>4. \A pos \in Nat \ {0} : Onwards(r, pos).pos = pos /\ Onwards(r, pos).at \in {"look", "relate"}
  BY OnwardsTyped
\* The report passes an entity that it remembers, or none.
<1>5. ASSUME task' = [task EXCEPT ![r] = Onwards(r, task[r].pos + 1)], AtEntity(r),
             linked[r] \subseteq linked'[r],
             Entity(r) \in rejected' \/ \E id \in linked'[r] : id.name = Entity(r)
      PROVE  Progress(r)'
  <2>1. task'[r] = Onwards(r, task[r].pos + 1)
    BY <1>1, <1>5
  <2>2. task'[r].pos = task[r].pos + 1 /\ task'[r].at \notin {"link", "append"}
    BY <1>2, <1>4, <2>1
  <2>3. Writing(r)
    BY <1>5 DEF AtEntity, Writing
  <2>4. ASSUME NEW i \in DOMAIN EntitiesOf[r], i < task[r].pos + 1
        PROVE  Remembered(r, EntitiesOf[r][i])'
    <3>1. CASE i < task[r].pos
      BY <1>1, <1>5, <2>3, <3>1 DEF Progress, Remembered
    <3>2. CASE i = task[r].pos
      BY <1>5, <3>2 DEF Entity, Remembered
    <3> QED
      BY <1>2, <1>3, <2>4, <3>1, <3>2
  <2> QED
    BY <2>2, <2>4 DEF Progress
\* The report stays at its entity.
<1>6. ASSUME NEW next, task' = [task EXCEPT ![r] = next], next.pos = task[r].pos, Writing(r),
             linked' = linked,
             next.at \in {"link", "append"} => next.found \in Ids /\ next.found.name = Entity(r)
      PROVE  Progress(r)'
  <2>1. task'[r] = next
    BY <1>1, <1>6
  <2> QED
    BY <1>1, <1>6, <2>1 DEF Progress, Remembered, Entity
<1>7. ASSUME task'[r].at \in {"done", "failed"}
      PROVE  Progress(r)'
  BY <1>7 DEF Progress, Writing
<1>8. CASE ReportBegins(r)
  <2>1. task'[r] = Onwards(r, 1)
    BY <1>1, <1>8 DEF ReportBegins
  <2>2. task'[r].at \notin {"link", "append"} /\ task'[r].pos = 1
    BY <2>1, <1>4
  <2>3. \A i \in DOMAIN EntitiesOf[r] : ~(i < 1)
    BY <1>3
  <2> QED
    BY <2>2, <2>3 DEF Progress
<1>9. CASE ReportLooks(r)
  <2>1. AtEntity(r) /\ Writing(r) /\ linked' = linked
    BY <1>9 DEF ReportLooks, AtEntity, Writing
  <2>2. PICK next : /\ ReportMoves(r, next)
                    /\ \/ \E id \in Seen(r, Entity(r)), at \in {"link", "append"} :
                            next = Task(at, task[r].pos, id)
                       \/ next = Task("check", task[r].pos, NoId)
    BY <1>9 DEF ReportLooks
  <2>3. \A id \in Seen(r, Entity(r)) : id \in Ids /\ id.name = Entity(r)
    BY <1>1 DEF Seen
  <2>4. /\ next.pos = task[r].pos
        /\ next.at \in {"link", "append"} => next.found \in Ids /\ next.found.name = Entity(r)
    BY <2>2, <2>3 DEF Task
  <2> QED
    BY <1>6, <2>1, <2>2, <2>4 DEF ReportMoves
<1>10. CASE ReportLinks(r)
  <2>1. AtEntity(r) /\ task[r].found.name = Entity(r)
    BY <1>10 DEF ReportLinks, AtEntity, Progress
  <2>2. CASE /\ linked' = [linked EXCEPT ![r] = @ \cup {task[r].found}]
             /\ ReportMoves(r, Onwards(r, task[r].pos + 1))
    <3>1. linked'[r] = linked[r] \cup {task[r].found}
      BY <1>1, <2>2
    <3>2. \E id \in linked'[r] : id.name = Entity(r)
      BY <2>1, <3>1
    <3> QED
      BY <1>5, <2>1, <2>2, <3>1, <3>2 DEF ReportMoves
  <2>3. CASE ReportMoves(r, Task("failed", 1, NoId))
    BY <1>1, <1>7, <2>3 DEF ReportMoves, Task
  <2> QED
    BY <1>10, <2>2, <2>3 DEF ReportLinks
<1>11. CASE ReportChecks(r)
  <2>1. AtEntity(r) /\ Writing(r) /\ linked' = linked
    BY <1>11 DEF ReportChecks, AtEntity, Writing
  <2>2. CASE Entity(r) \in rejected /\ ReportMoves(r, Onwards(r, task[r].pos + 1))
    BY <1>1, <1>5, <2>1, <2>2 DEF ReportMoves
  <2>3. CASE ReportMoves(r, Task("insert", task[r].pos, NoId))
    BY <1>6, <2>1, <2>3 DEF ReportMoves, Task
  <2> QED
    BY <1>11, <2>2, <2>3 DEF ReportChecks
<1>12. CASE ReportInserts(r)
  <2> DEFINE id == [by |-> r, name |-> Entity(r)]
  <2>1. AtEntity(r)
    BY <1>12 DEF ReportInserts, AtEntity
  <2>2. CASE /\ linked' = [linked EXCEPT ![r] = @ \cup {id}]
             /\ ReportMoves(r, Onwards(r, task[r].pos + 1))
    <3>1. linked'[r] = linked[r] \cup {id}
      BY <1>1, <2>2
    <3>2. id \in linked'[r] /\ id.name = Entity(r)
      BY <3>1
    <3> QED
      BY <1>5, <2>1, <2>2, <3>1, <3>2 DEF ReportMoves
  <2>3. CASE ReportMoves(r, Task("failed", 1, NoId))
    BY <1>1, <1>7, <2>3 DEF ReportMoves, Task
  <2> QED
    BY <1>12, <2>2, <2>3 DEF ReportInserts
<1>13. CASE ReportCommits(r) \/ DeadlockAborts(r) \/ ReportFails(r)
  BY <1>1, <1>7, <1>13 DEF ReportCommits, DeadlockAborts, ReportFails, ReportMoves, Task
<1>14. CASE task'[r] = task[r] /\ linked'[r] = linked[r]
  BY <1>1, <1>14 DEF Progress, Remembered, Writing, Entity
<1> QED
  BY OnlyItself, <1>8, <1>9, <1>10, <1>11, <1>12, <1>13, <1>14 DEF Agreed, ReportNext

\* A report is done since before, or by the commit that is being made.
LEMMA DoneByCommit ==
  ASSUME Typed, [Next]_vars, NEW r \in Report, task'[r].at = "done"
  PROVE  task[r].at = "done" \/ ReportCommits(r)
<1>1. task \in [Report -> Tasks] /\ task[r].pos \in Nat \ {0} /\ task[r].pos + 1 \in Nat \ {0}
  BY DEF Typed, TypeOK, Tasks
<1>2. \A pos \in Nat \ {0} : Onwards(r, pos).at # "done"
  BY OnwardsTyped
<1>3. \A at, pos, found : Task(at, pos, found).at = at
  BY DEF Task
<1>4. ~ReportBegins(r)
  <2>1. Onwards(r, 1).at # "done"
    BY <1>2
  <2> QED
    BY <1>1, <2>1 DEF ReportBegins
<1>5. /\ ~ReportLooks(r) /\ ~ReportLinks(r) /\ ~ReportChecks(r) /\ ~ReportInserts(r)
      /\ ~DeadlockAborts(r) /\ ~ReportFails(r)
  <2>1. \A next : ReportMoves(r, next) => task'[r] = next
    BY <1>1 DEF ReportMoves
  <2> QED
    BY <1>1, <1>2, <1>3, <2>1 DEF ReportLooks, ReportLinks, ReportChecks, ReportInserts,
       DeadlockAborts, ReportFails
<1> QED
  BY <1>4, <1>5, OnlyItself DEF ReportNext

\* At its commit a report remembers all of its entities.
LEMMA CommitRemembers ==
  ASSUME Agreed, NEW r \in Report, Progress(r), ReportCommits(r)
  PROVE  \A n \in Named(r) : Remembered(r, n)
<1>1. EntitiesOf[r] \in Seq(Name)
  BY VocabularyAssumption
<1>2. task[r].at = "relate" /\ task[r].pos > Len(EntitiesOf[r]) /\ task[r].pos \in Nat
  BY DEF ReportCommits, Agreed, Typed, TypeOK, Placed
<1>3. \A i \in DOMAIN EntitiesOf[r] : i < task[r].pos
  BY <1>1, <1>2
<1> QED
  BY <1>2, <1>3 DEF Named, Progress, Writing

LEMMA KeptStep == Kept /\ [Next]_vars => Kept'
<1> SUFFICES ASSUME Kept, [Next]_vars
             PROVE  Kept'
  OBVIOUS
<1>1. Agreed /\ Typed /\ linked \in [Report -> SUBSET Ids]
  BY DEF Kept, Agreed, Typed, TypeOK
<1>2. ASSUME NEW r \in Report, task'[r].at = "done", NEW n \in Named(r)
      PROVE  n \in rejected' \/ \E o \in occurrences' : o[1].name = n /\ o[2] = DocOf[r]
  <2>1. CASE task[r].at = "done"
    <3>1. n \in rejected \/ \E o \in occurrences : o[1].name = n /\ o[2] = DocOf[r]
      BY <2>1 DEF Kept, EntitiesAreKept
    <3> QED
      BY <3>1, TablesMove
  <2>2. CASE ReportCommits(r)
    <3>1. Remembered(r, n)
      BY <1>1, <2>2, CommitRemembers DEF Kept
    <3>2. rejected' = rejected /\ occurrences' = occurrences \cup (linked[r] \X {DocOf[r]})
      BY <2>2 DEF ReportCommits
    <3>3. ASSUME NEW id \in linked[r], id.name = n
          PROVE  \E o \in occurrences' : o[1].name = n /\ o[2] = DocOf[r]
      <4>1. <<id, DocOf[r]>> \in occurrences'
        BY <3>2
      <4> QED
        BY <3>3, <4>1
    <3> QED
      BY <3>1, <3>2, <3>3 DEF Remembered
  <2> QED
    BY <1>1, <1>2, <2>1, <2>2, DoneByCommit
<1>3. ASSUME NEW r \in Report, task'[r].at = "done", NEW p \in RelatesOf[r],
             {p[1], p[2]} \subseteq Named(r) \cap (WrittenPlain[r] \ rejected')
      PROVE  \E e \in edges' : e[1].name = p[1] /\ e[2].name = p[2]
  <2>1. p \in Name \X Name
    BY VocabularyAssumption
  <2>2. CASE task[r].at = "done"
    <3>1. PICK e \in edges : e[1].name = p[1] /\ e[2].name = p[2]
      BY <1>3, <2>2, TablesMove DEF Kept, RelationshipsAreKept
    <3> QED
      BY <1>3, <3>1, TablesMove
  <2>3. CASE ReportCommits(r)
    <3>1. rejected' = rejected /\ edges' = edges \cup Resolves(r)
      BY <2>3 DEF ReportCommits
    <3>2. Remembered(r, p[1]) /\ Remembered(r, p[2])
      BY <1>1, <1>3, <2>3, CommitRemembers DEF Kept
    <3>3. PICK id \in linked[r], e \in linked[r] : id.name = p[1] /\ e.name = p[2]
      BY <1>3, <3>1, <3>2 DEF Remembered
    <3>4. <<id, e>> \in Resolves(r)
      <4>1. <<id.name, e.name>> = p
        BY <2>1, <3>3
      <4> QED
        BY <1>3, <3>3, <4>1 DEF Resolves
    <3> QED
      BY <3>1, <3>3, <3>4
  <2> QED
    BY <1>1, <1>3, <2>2, <2>3, DoneByCommit
<1>4. EntitiesAreKept'
  BY <1>2 DEF EntitiesAreKept, Named
<1>5. RelationshipsAreKept'
  BY <1>3 DEF RelationshipsAreKept, Named
<1>6. \A r \in Report : Progress(r)'
  BY <1>1, ProgressStep DEF Kept
<1> QED
  BY <1>1, <1>4, <1>5, <1>6, AgreeStep DEF Kept

\* No entity of a report that was accepted is lost, whatever other reports and
\* curators do.
THEOREM EntitiesTheorem == Spec => []EntitiesAreKept
<1>1. Kept => EntitiesAreKept
  BY DEF Kept
<1> QED
  BY <1>1, KeptInit, KeptStep, PTL DEF Spec

\* Nor is a relationship between entities of its own, written in their normalised form.
THEOREM RelationshipsTheorem == Spec => []RelationshipsAreKept
<1>1. Kept => RelationshipsAreKept
  BY DEF Kept
<1> QED
  BY <1>1, KeptInit, KeptStep, PTL DEF Spec

-----------------------------------------------------------------------------
(* Decisions of curators stand, as long as requests take turns.            *)

\* One call at a time, and the candidate it is about is still one.
OneCall ==
  "curators" \notin overlapped =>
    /\ \A c, e \in Curator : job[c] # Idle /\ job[e] # Idle => c = e
    /\ \A c \in Curator : job[c].at \in {"accept", "reject"} =>
         [id |-> job[c].id, source |-> "llm_extracted"] \in terms

OneReport ==
  "reports" \notin overlapped => \A r, q \in Report : Writing(r) /\ Writing(q) => r = q

Accepting == Agreed /\ OneCall /\ AcceptedStands

LEMMA OverlapGrows == [Next]_vars => overlapped \subseteq overlapped'
<1> SUFFICES ASSUME [Next]_vars PROVE overlapped \subseteq overlapped'
  OBVIOUS
<1>1. ASSUME NEW r \in Report, ReportBegins(r) \/ ReportNext(r) \/ ReportFails(r)
      PROVE  overlapped \subseteq overlapped'
  BY <1>1 DEF ReportNext, ReportBegins, ReportLooks, ReportLinks, ReportChecks,
     ReportInserts, ReportCommits, DeadlockAborts, ReportFails, ReportMoves, Overlap
<1>2. ASSUME NEW c \in Curator,
             \/ AcceptReads(c) \/ RejectReads(c) \/ AddLooks(c)
             \/ CallNext(c) \/ CallFails(c)
      PROVE  overlapped \subseteq overlapped'
  BY <1>2 DEF AcceptReads, RejectReads, AddLooks, CallNext, CallFails, Begins, Ends, AcceptWrites,
     RejectWrites, RejectRefused, AddChecks, AddFindsTargets, AddInserts, Overlap
<1>3. CASE UNCHANGED vars
  BY <1>3 DEF vars
<1> QED
  BY <1>1, <1>2, <1>3 DEF Next

\* Reports only add terms, and leave curators alone.
LEMMA ReportsAdd ==
  ASSUME NEW r \in Report, ReportBegins(r) \/ ReportNext(r) \/ ReportFails(r)
  PROVE  UNCHANGED <<job, accepted, rejected>> /\ terms \subseteq terms'
BY DEF tables, ReportNext, ReportBegins, ReportLooks, ReportLinks, ReportChecks,
   ReportInserts, ReportCommits, DeadlockAborts, ReportFails, ReportMoves

LEMMA AcceptingInit == Init => Accepting
<1> SUFFICES ASSUME Init PROVE Accepting
  OBVIOUS
<1>1. \A c \in Curator : job[c] = Idle /\ Idle.at = "idle"
  BY DEF Init, Idle
<1> QED
  BY <1>1, AgreeInit DEF Init, Accepting, OneCall, AcceptedStands

\* The call that is alone.
LEMMA Alone ==
  ASSUME Accepting, "curators" \notin overlapped, NEW c \in Curator, job[c].at # "idle",
         NEW next, job' = [job EXCEPT ![c] = next]
  PROVE  \A e \in Curator \ {c} : job[e] = Idle /\ job'[e] = Idle
<1>1. job[c] # Idle
  BY DEF Idle
<1>2. \A e \in Curator \ {c} : job[e] = Idle
  BY <1>1 DEF Accepting, OneCall
<1> QED
  BY <1>2 DEF Accepting, Agreed, Typed

LEMMA AcceptingCall ==
  ASSUME Accepting, NEW c \in Curator, "curators" \notin overlapped,
         \/ AcceptReads(c) \/ RejectReads(c) \/ AddLooks(c)
         \/ CallNext(c) \/ CallFails(c)
  PROVE  OneCall' /\ AcceptedStands'
<1>1. /\ Agreed /\ Typed /\ TypeOK /\ TablesAgree /\ job \in [Curator -> Jobs]
      /\ \A id \in accepted : [id |-> id, source |-> "candidate_accepted"] \in terms
  BY DEF Accepting, Agreed, Typed, AcceptedStands
<1>2. Idle.at = "idle"
  BY DEF Idle
<1>3. \A t \in terms : t = [id |-> t.id, source |-> t.source]
  BY <1>1 DEF TypeOK
<1>4. ASSUME NEW next, Begins(c, next),
             next.at \in {"accept", "reject"} => [id |-> next.id, source |-> "llm_extracted"] \in terms
      PROVE  OneCall' /\ AcceptedStands'
  <2>1. UNCHANGED <<terms, accepted>> /\ job'[c] = next
        /\ \A e \in Curator \ {c} : job'[e] = job[e]
    BY <1>1, <1>4 DEF Begins, tables
  <2>2. SUFFICES ASSUME "curators" \notin overlapped'
                 PROVE  OneCall' /\ AcceptedStands'
    BY DEF OneCall, AcceptedStands
  <2>3. \A e \in Curator \ {c} : job'[e] = Idle
    BY <1>4, <2>1, <2>2 DEF Begins, Overlap
  <2> QED
    BY <1>1, <1>2, <1>4, <2>1, <2>3 DEF OneCall, AcceptedStands
<1>5. CASE AcceptReads(c) \/ RejectReads(c)
  <2>1. PICK t \in terms, at \in {"accept", "reject"} :
          t.source = "llm_extracted" /\ Begins(c, [at |-> at, id |-> t.id, target |-> NoId])
    BY <1>5 DEF AcceptReads, RejectReads
  <2>2. [id |-> t.id, source |-> "llm_extracted"] \in terms
    BY <1>3, <2>1
  <2> QED
    BY <1>4, <2>1, <2>2
<1>6. CASE AddLooks(c)
  BY <1>4, <1>6 DEF AddLooks
<1>7. ASSUME job[c].at # "idle", NEW next, job' = [job EXCEPT ![c] = next],
             next.at \notin {"accept", "reject"},
             \A id \in accepted' : [id |-> id, source |-> "candidate_accepted"] \in terms'
      PROVE  OneCall' /\ AcceptedStands'
  <2>1. job'[c] = next /\ \A e \in Curator \ {c} : job'[e] = Idle
    BY <1>1, <1>7, Alone
  <2> QED
    BY <1>2, <1>7, <2>1 DEF OneCall, AcceptedStands
<1>8. CASE AddChecks(c) \/ AddFindsTargets(c)
  <2>1. job[c].at \in {"add", "targets"} /\ UNCHANGED <<terms, accepted>>
    BY <1>8 DEF AddChecks, AddFindsTargets, tables
  <2>2. \A at \in {"targets", "insert"} : [job[c] EXCEPT !.at = at].at = at
    BY <1>1, <2>1, JobMoves
  <2> QED
    BY <1>1, <1>2, <1>7, <1>8, <2>1, <2>2 DEF AddChecks, AddFindsTargets
<1>9. CASE AcceptWrites(c)
  <2>1. job[c].at = "accept" /\ accepted' = accepted \cup {job[c].id} /\ job' = [job EXCEPT ![c] = Idle]
    BY <1>9 DEF AcceptWrites, Ends
  <2>2. [id |-> job[c].id, source |-> "llm_extracted"] \in terms
    BY <2>1 DEF Accepting, OneCall
  <2>3. ASSUME NEW t \in terms
        PROVE  IF t.id = job[c].id THEN [id |-> t.id, source |-> "candidate_accepted"] \in terms'
                                   ELSE t \in terms'
    BY <1>1, <1>9, AcceptEffect
  <2>4. [id |-> job[c].id, source |-> "candidate_accepted"] \in terms'
    BY <2>2, <2>3
  <2>5. ASSUME NEW id \in accepted'
        PROVE  [id |-> id, source |-> "candidate_accepted"] \in terms'
    <3>1. CASE id = job[c].id
      BY <2>4, <3>1
    <3>2. CASE id # job[c].id
      BY <1>1, <2>1, <2>3, <2>5, <3>2
    <3> QED
      BY <3>1, <3>2
  <2> QED
    BY <1>2, <1>7, <2>1, <2>5
<1>10. CASE RejectWrites(c)
  <2>1. /\ job[c].at = "reject" /\ accepted' = accepted /\ job' = [job EXCEPT ![c] = Idle]
        /\ terms' = {t \in terms : t.id # job[c].id}
    BY <1>10 DEF RejectWrites, Ends
  <2>2. [id |-> job[c].id, source |-> "llm_extracted"] \in terms
    BY <2>1 DEF Accepting, OneCall
  <2>3. ASSUME NEW id \in accepted
        PROVE  [id |-> id, source |-> "candidate_accepted"] \in terms'
    <3>1. [id |-> id, source |-> "candidate_accepted"] \in terms
      BY <1>1
    <3>2. id # job[c].id
      BY <1>1, <2>2, <3>1 DEF TablesAgree
    <3> QED
      BY <2>1, <3>1, <3>2
  <2> QED
    BY <1>2, <1>7, <2>1, <2>3
<1>11. CASE AddInserts(c)
  <2>1. /\ job[c].at = "insert" /\ accepted' = accepted /\ job' = [job EXCEPT ![c] = Idle]
        /\ terms \subseteq terms'
    BY <1>11 DEF AddInserts, Ends
  <2> QED
    BY <1>1, <1>2, <1>7, <2>1
<1>12. CASE RejectRefused(c) \/ CallFails(c)
  <2>1. /\ job[c] # Idle /\ accepted' = accepted /\ job' = [job EXCEPT ![c] = Idle]
        /\ terms' = terms
    BY <1>2, <1>12 DEF RejectRefused, CallFails, Ends, tables
  <2>2. \A e \in Curator \ {c} : job[e] = Idle
    BY <2>1 DEF Accepting, OneCall
  <2>3. \A e \in Curator : job'[e] = Idle
    BY <1>1, <2>1, <2>2
  <2> QED
    BY <1>1, <1>2, <2>1, <2>3 DEF OneCall, AcceptedStands
<1> QED
  BY <1>5, <1>6, <1>8, <1>9, <1>10, <1>11, <1>12 DEF CallNext

LEMMA AcceptingStep == Accepting /\ [Next]_vars => Accepting'
<1> SUFFICES ASSUME Accepting, [Next]_vars
             PROVE  OneCall' /\ AcceptedStands'
  BY AgreeStep DEF Accepting
<1>1. CASE "curators" \in overlapped'
  BY <1>1 DEF OneCall, AcceptedStands
<1>2. CASE "curators" \notin overlapped'
  <2>1. "curators" \notin overlapped
    BY <1>2, OverlapGrows
  <2>2. ASSUME UNCHANGED <<job, accepted>>, terms \subseteq terms'
        PROVE  OneCall' /\ AcceptedStands'
    BY <2>1, <2>2 DEF Accepting, OneCall, AcceptedStands
  <2>3. ASSUME NEW r \in Report, ReportBegins(r) \/ ReportNext(r) \/ ReportFails(r)
        PROVE  OneCall' /\ AcceptedStands'
    BY <2>2, <2>3, ReportsAdd
  <2>4. CASE UNCHANGED vars
    BY <2>2, <2>4 DEF vars, tables, requests
  <2> QED
    BY <2>1, <2>3, <2>4, AcceptingCall DEF Next
<1> QED
  BY <1>1, <1>2

\* An acceptance that was confirmed stands, if the calls of curators take turns.
THEOREM AcceptedTheorem == Spec => []AcceptedStands
<1>1. Accepting => AcceptedStands
  BY DEF Accepting
<1> QED
  BY <1>1, AcceptingInit, AcceptingStep, PTL DEF Spec

\* What stands between a lookup and the insertion that relies on it, when one
\* report and one call are at work: a name that has been rejected since was a
\* candidate, and no report but this one makes candidates.
Turns ==
  overlapped = {} =>
    /\ \A r \in Report : \A id \in linked[r] : id.name \notin rejected
    /\ \A r \in Report : task[r].at \in {"check", "insert"} =>
         \A t \in terms : t.id.name = Entity(r) => t.source # "llm_extracted"
    /\ \A r \in Report : task[r].at = "insert" => Entity(r) \notin rejected
    /\ \A c \in Curator : job[c].at \in {"targets", "insert"} => job[c].id.name \notin rejected

Rejecting ==
  Accepting /\ OneReport /\ (\A r \in Report : Progress(r)) /\ Turns /\ RejectedStaysOut

LEMMA RejectingInit == Init => Rejecting
<1> SUFFICES ASSUME Init PROVE Rejecting
  OBVIOUS
<1>1. (\A r \in Report : task[r].at = "idle") /\ (\A c \in Curator : job[c].at = "idle")
  BY DEF Init, Task, Idle
<1>2. OneReport /\ Turns /\ RejectedStaysOut
  BY <1>1 DEF Init, OneReport, Writing, Turns, RejectedStaysOut
<1> QED
  BY <1>2, AcceptingInit, KeptInit DEF Rejecting, Kept

\* A report at work was at work before, or has begun when no other was.
LEMMA OneReportStep ==
  ASSUME Agreed, OneReport, [Next]_vars
  PROVE  OneReport'
<1> SUFFICES ASSUME "reports" \notin overlapped', NEW r \in Report, NEW q \in Report,
                    Writing(r)', Writing(q)', r # q
             PROVE  FALSE
  BY DEF OneReport
<1>1. task \in [Report -> Tasks] /\ Typed
  BY DEF Agreed, Typed, TypeOK, Tasks
<1>2. "reports" \notin overlapped
  BY OverlapGrows
<1>3. ASSUME NEW s \in Report, ReportBegins(s)
      PROVE  \A o \in Report \ {s} : ~Writing(o) /\ task'[o] = task[o]
  <2>1. ~\E o \in Report \ {s} : Writing(o)
    BY <1>3 DEF ReportBegins, Overlap
  <2> QED
    BY <1>1, <1>3, <2>1 DEF ReportBegins
<1>4. ~ReportBegins(r) /\ ~ReportBegins(q)
  BY <1>3 DEF Writing
<1>5. ASSUME NEW s \in Report, ReportNext(s) \/ ReportFails(s)
      PROVE  Writing(s)
  <2>1. ASSUME DeadlockAborts(s) PROVE Writing(s)
    <3>1. \E o \in Report : WaitsFor(s, o)
      BY <2>1 DEF DeadlockAborts
    <3> QED
      BY <3>1 DEF WaitsFor, Writing
  <2> QED
    BY <1>5, <2>1 DEF ReportNext, ReportLooks, ReportLinks, ReportChecks, ReportInserts,
       ReportCommits, ReportFails, Writing
<1>6. ASSUME NEW s \in Report, Writing(s)', ~ReportBegins(s)
      PROVE  Writing(s)
  BY <1>1, <1>5, <1>6, OnlyItself DEF Writing
<1> QED
  BY <1>2, <1>4, <1>6 DEF OneReport

LEMMA TurnsReport ==
  ASSUME Rejecting, overlapped = {}, NEW r \in Report,
         ReportBegins(r) \/ ReportNext(r) \/ ReportFails(r)
  PROVE  Turns' /\ RejectedStaysOut'
<1>1. /\ Agreed /\ Typed /\ TablesAgree /\ Progress(r)
      /\ task \in [Report -> Tasks] /\ linked \in [Report -> SUBSET Ids]
      /\ UNCHANGED <<job, rejected>>
  BY ReportsAdd DEF Rejecting, Accepting, Agreed, Typed, TypeOK, Tasks
<1>2. \A q \in Report \ {r} : task'[q] = task[q] /\ linked'[q] = linked[q]
  BY <1>1 DEF ReportNext, ReportBegins, ReportLooks, ReportLinks, ReportChecks, ReportInserts,
     ReportCommits, DeadlockAborts, ReportFails, ReportMoves
<1>3. \A n \in rejected : ~Taken(n)
  BY DEF Rejecting, RejectedStaysOut
<1>4. /\ \A q \in Report : \A id \in linked[q] : id.name \notin rejected
      /\ \A q \in Report : task[q].at \in {"check", "insert"} =>
           \A t \in terms : t.id.name = Entity(q) => t.source # "llm_extracted"
      /\ \A q \in Report : task[q].at = "insert" => Entity(q) \notin rejected
      /\ \A c \in Curator : job[c].at \in {"targets", "insert"} => job[c].id.name \notin rejected
  BY DEF Rejecting, Turns
<1>5. \A pos \in Nat \ {0} : Onwards(r, pos).at \in {"look", "relate"}
  BY OnwardsTyped
<1>6. task[r].pos \in Nat \ {0} /\ task[r].pos + 1 \in Nat \ {0}
  BY <1>1 DEF Tasks
\* The table is left as it is.
<1>7. ASSUME terms' = terms,
             \A id \in linked'[r] : id.name \notin rejected,
             task'[r].at \in {"check", "insert"} =>
               \A t \in terms : t.id.name = Entity(r)' => t.source # "llm_extracted",
             task'[r].at = "insert" => Entity(r)' \notin rejected
      PROVE  Turns' /\ RejectedStaysOut'
  <2>1. ASSUME NEW q \in Report PROVE \A id \in linked'[q] : id.name \notin rejected'
    BY <1>1, <1>2, <1>4, <1>7
  <2>2. ASSUME NEW q \in Report, task'[q].at \in {"check", "insert"}
        PROVE  \A t \in terms' : t.id.name = Entity(q)' => t.source # "llm_extracted"
    BY <1>2, <1>4, <1>7, <2>2 DEF Entity
  <2>3. ASSUME NEW q \in Report, task'[q].at = "insert"
        PROVE  Entity(q)' \notin rejected'
    BY <1>1, <1>2, <1>4, <1>7, <2>3 DEF Entity
  <2>4. Turns'
    BY <1>1, <1>4, <2>1, <2>2, <2>3 DEF Turns
  <2> QED
    BY <1>1, <1>3, <1>7, <2>4 DEF RejectedStaysOut, Taken, Committed
<1>8. \A id \in linked[r] : id.name \notin rejected
  BY <1>4
<1>9. CASE ReportBegins(r)
  <2>1. task'[r].at \in {"look", "relate"} /\ UNCHANGED <<terms, linked>>
    BY <1>1, <1>5, <1>9 DEF ReportBegins, tables
  <2> QED
    BY <1>7, <1>8, <2>1
<1>10. \A next : ReportMoves(r, next) => task'[r] = next /\ terms' = terms
  BY <1>1 DEF ReportMoves, tables
<1>11. \A at, pos, found : Task(at, pos, found).at = at /\ Task(at, pos, found).pos = pos
  BY DEF Task
<1>12. CASE ReportLooks(r)
  <2>1. linked' = linked
    BY <1>12 DEF ReportLooks
  <2>2. CASE \E id \in Seen(r, Entity(r)), at \in {"link", "append"} :
               ReportMoves(r, Task(at, task[r].pos, id))
    <3>1. task'[r].at \in {"link", "append"} /\ terms' = terms
      BY <1>10, <1>11, <2>2
    <3> QED
      BY <1>7, <1>8, <2>1, <3>1
  <2>3. CASE Seen(r, Entity(r)) = {} /\ ReportMoves(r, Task("check", task[r].pos, NoId))
    <3>1. task'[r].at = "check" /\ task'[r].pos = task[r].pos /\ terms' = terms
      BY <1>10, <1>11, <2>3
    <3>2. \A t \in terms : t.id.name # Entity(r)
      BY <2>3 DEF Seen, Committed
    <3>3. Entity(r)' = Entity(r)
      BY <3>1 DEF Entity
    <3> QED
      BY <1>7, <1>8, <2>1, <3>1, <3>2, <3>3
  <2> QED
    BY <1>12, <2>2, <2>3 DEF ReportLooks
<1>13. ASSUME ReportMoves(r, Task("failed", 1, NoId)), linked' = [linked EXCEPT ![r] = {}]
       PROVE  Turns' /\ RejectedStaysOut'
  <2>1. task'[r].at = "failed" /\ terms' = terms /\ linked'[r] = {}
    BY <1>1, <1>10, <1>11, <1>13
  <2> QED
    BY <1>7, <2>1
<1>14. ASSUME ReportMoves(r, Onwards(r, task[r].pos + 1)), NEW id,
              linked' = [linked EXCEPT ![r] = @ \cup {id}], id.name \notin rejected
       PROVE  Turns' /\ RejectedStaysOut'
  <2>1. task'[r].at \in {"look", "relate"} /\ terms' = terms /\ linked'[r] = linked[r] \cup {id}
    BY <1>1, <1>5, <1>6, <1>10, <1>14
  <2> QED
    BY <1>7, <1>8, <1>14, <2>1
<1>15. CASE ReportLinks(r)
  <2>1. task[r].found \in Committed \cup linked[r] => task[r].found.name \notin rejected
    BY <1>3, <1>8 DEF Taken
  <2> QED
    BY <1>13, <1>14, <1>15, <2>1 DEF ReportLinks
<1>16. CASE ReportChecks(r)
  <2>1. linked' = linked /\ task[r].at = "check"
    BY <1>16 DEF ReportChecks
  <2>2. CASE Entity(r) \in rejected /\ ReportMoves(r, Onwards(r, task[r].pos + 1))
    <3>1. task'[r].at \in {"look", "relate"} /\ terms' = terms
      BY <1>5, <1>6, <1>10, <2>2
    <3> QED
      BY <1>7, <1>8, <2>1, <3>1
  <2>3. CASE Entity(r) \notin rejected /\ ReportMoves(r, Task("insert", task[r].pos, NoId))
    <3>1. task'[r].at = "insert" /\ task'[r].pos = task[r].pos /\ terms' = terms
      BY <1>10, <1>11, <2>3
    <3>2. Entity(r)' = Entity(r)
      BY <3>1 DEF Entity
    <3> QED
      BY <1>4, <1>7, <1>8, <2>1, <2>3, <3>1, <3>2
  <2> QED
    BY <1>16, <2>2, <2>3 DEF ReportChecks
<1>17. CASE ReportInserts(r)
  <2>1. [by |-> r, name |-> Entity(r)].name \notin rejected
    BY <1>4, <1>17 DEF ReportInserts
  <2> QED
    BY <1>13, <1>14, <1>17, <2>1 DEF ReportInserts
<1>18. CASE ReportCommits(r)
  <2>1. /\ task[r].at = "relate" /\ task' = [task EXCEPT ![r] = Task("done", 1, NoId)]
        /\ terms' = terms \cup {[id |-> id, source |-> "llm_extracted"] : id \in linked[r] \ Committed}
        /\ linked' = [linked EXCEPT ![r] = {}]
    BY <1>18 DEF ReportCommits
  <2>2. task'[r].at = "done" /\ linked'[r] = {}
    BY <1>1, <1>11, <2>1
  <2>3. \A q \in Report \ {r} : ~Writing(q)
    BY <2>1 DEF Rejecting, OneReport, Writing
  <2>4. \A q \in Report : task'[q].at \notin {"check", "insert"}
    BY <1>2, <2>2, <2>3 DEF Writing
  <2>5. Turns'
    BY <1>1, <1>2, <1>4, <2>2, <2>4 DEF Turns
  <2>6. ASSUME NEW id \in Committed' PROVE id.name \notin rejected
    <3>1. id \in Committed \cup linked[r]
      BY <2>1 DEF Committed
    <3> QED
      BY <1>3, <1>8, <3>1 DEF Taken
  <2> QED
    BY <1>1, <2>5, <2>6 DEF RejectedStaysOut, Taken
<1> QED
  BY <1>9, <1>12, <1>13, <1>15, <1>16, <1>17, <1>18 DEF ReportNext, DeadlockAborts, ReportFails

LEMMA TurnsCall ==
  ASSUME Rejecting, overlapped = {}, overlapped' = {}, NEW c \in Curator,
         \/ AcceptReads(c) \/ RejectReads(c) \/ AddLooks(c)
         \/ CallNext(c) \/ CallFails(c)
  PROVE  Turns' /\ RejectedStaysOut'
<1>1. /\ Accepting /\ Agreed /\ Typed /\ TypeOK /\ TablesAgree /\ job \in [Curator -> Jobs]
      /\ UNCHANGED <<task, linked>>
  BY DEF Rejecting, Accepting, Agreed, Typed, AcceptReads, RejectReads, AddLooks, CallNext, CallFails,
     Begins, Ends, AcceptWrites, RejectWrites, RejectRefused, AddChecks, AddFindsTargets, AddInserts
<1>2. \A n \in rejected : ~Taken(n)
  BY DEF Rejecting, RejectedStaysOut
<1>3. /\ \A r \in Report : \A id \in linked[r] : id.name \notin rejected
      /\ \A r \in Report : task[r].at \in {"check", "insert"} =>
           \A t \in terms : t.id.name = Entity(r) => t.source # "llm_extracted"
      /\ \A r \in Report : task[r].at = "insert" => Entity(r) \notin rejected
      /\ \A e \in Curator : job[e].at \in {"targets", "insert"} => job[e].id.name \notin rejected
  BY DEF Rejecting, Turns
<1>4. \A r \in Report : Entity(r)' = Entity(r)
  BY <1>1 DEF Entity
<1>5. Idle.at = "idle"
  BY DEF Idle
\* Nothing is rejected, and no candidate added.
<1>6. ASSUME rejected' = rejected,
             \A u \in terms' : \/ u.id.name \notin rejected /\ u.source # "llm_extracted"
                               \/ \E t \in terms : u.id = t.id /\ (u = t \/ u.source # "llm_extracted"),
             NEW next, job' = [job EXCEPT ![c] = next],
             next.at \in {"targets", "insert"} => next.id.name \notin rejected
      PROVE  Turns' /\ RejectedStaysOut'
  <2>1. \A r \in Report : task'[r].at \in {"check", "insert"} =>
          \A u \in terms' : u.id.name = Entity(r)' => u.source # "llm_extracted"
    BY <1>1, <1>3, <1>4, <1>6
  <2>2. \A e \in Curator : job'[e].at \in {"targets", "insert"} => job'[e].id.name \notin rejected
    BY <1>1, <1>3, <1>6
  <2>3. Turns'
    BY <1>1, <1>3, <1>4, <1>6, <2>1, <2>2 DEF Turns
  <2>4. \A t \in terms : t.id.name \notin rejected
    BY <1>2 DEF Taken, Committed
  <2>5. \A u \in terms' : u.id.name \notin rejected
    BY <1>6, <2>4
  <2> QED
    BY <1>6, <2>3, <2>5 DEF RejectedStaysOut, Taken, Committed
<1>7. ASSUME UNCHANGED <<terms, rejected>>, NEW next, job' = [job EXCEPT ![c] = next],
             next.at \in {"targets", "insert"} => next.id.name \notin rejected
      PROVE  Turns' /\ RejectedStaysOut'
  BY <1>6, <1>7
<1>8. CASE AcceptReads(c) \/ RejectReads(c) \/ AddLooks(c)
  BY <1>7, <1>8 DEF AcceptReads, RejectReads, AddLooks, Begins, tables
<1>9. CASE AddChecks(c)
  <2>1. [job[c] EXCEPT !.at = "targets"].id = job[c].id
    BY <1>1, <1>9, JobMoves DEF AddChecks
  <2>2. CASE job[c].id.name \in rejected /\ job' = [job EXCEPT ![c] = Idle]
    BY <1>5, <1>7, <1>9, <2>2 DEF AddChecks, tables
  <2>3. CASE /\ job[c].id.name \notin rejected
             /\ job' = [job EXCEPT ![c] = [job[c] EXCEPT !.at = "targets"]]
    BY <1>7, <1>9, <2>1, <2>3 DEF AddChecks, tables
  <2> QED
    BY <1>9, <2>2, <2>3 DEF AddChecks
<1>10. CASE AddFindsTargets(c)
  <2>1. /\ [job[c] EXCEPT !.at = "insert"].id = job[c].id
        /\ job[c].id.name \notin rejected
    BY <1>1, <1>3, <1>10, JobMoves DEF AddFindsTargets
  <2>2. CASE job' = [job EXCEPT ![c] = Idle]
    BY <1>5, <1>7, <1>10, <2>2 DEF AddFindsTargets, tables
  <2>3. CASE job' = [job EXCEPT ![c] = [job[c] EXCEPT !.at = "insert"]]
    BY <1>7, <1>10, <2>1, <2>3 DEF AddFindsTargets, tables
  <2> QED
    BY <1>10, <2>2, <2>3 DEF AddFindsTargets
<1>11. CASE AddInserts(c)
  <2>1. /\ job[c].id.name \notin rejected /\ rejected' = rejected
        /\ job' = [job EXCEPT ![c] = Idle]
        /\ terms' \subseteq terms \cup {[id |-> job[c].id, source |-> "manual"]}
    BY <1>3, <1>11 DEF AddInserts, Ends
  <2>2. \A u \in terms' : \/ u.id.name \notin rejected /\ u.source # "llm_extracted"
                          \/ \E t \in terms : u.id = t.id /\ (u = t \/ u.source # "llm_extracted")
    <3>1. SUFFICES ASSUME NEW u \in terms', u \notin terms
                   PROVE  u.id.name \notin rejected /\ u.source # "llm_extracted"
      OBVIOUS
    <3>2. u = [id |-> job[c].id, source |-> "manual"]
      BY <2>1, <3>1
    <3> QED
      BY <2>1, <3>2
  <2> QED
    BY <1>5, <1>6, <2>1, <2>2
<1>12. CASE AcceptWrites(c)
  <2>1. \A u \in terms' : \E t \in terms : u.id = t.id /\ (u = t \/ u.source # "llm_extracted")
    <3>1. SUFFICES ASSUME NEW u \in terms'
                   PROVE  \E t \in terms : u.id = t.id /\ (u = t \/ u.source # "llm_extracted")
      OBVIOUS
    <3>2. PICK t \in terms : /\ u.id = t.id
                             /\ u = t \/ u = [id |-> t.id, source |-> "candidate_accepted"]
      BY <1>1, <1>12, AcceptEffect
    <3> QED
      BY <3>2
  <2>2. rejected' = rejected /\ job' = [job EXCEPT ![c] = Idle]
    BY <1>12 DEF AcceptWrites, Ends
  <2> QED
    BY <1>5, <1>6, <2>1, <2>2
<1>13. CASE RejectWrites(c)
  <2> DEFINE id == job[c].id
  <2>1. /\ job[c].at = "reject" /\ job' = [job EXCEPT ![c] = Idle]
        /\ rejected' = rejected \cup {id.name}
        /\ terms' = {t \in terms : t.id # id} /\ ~Locked(id)
    BY <1>13 DEF RejectWrites, Ends
  <2>2. [id |-> id, source |-> "llm_extracted"] \in terms
    BY <2>1 DEF Rejecting, Accepting, OneCall
  <2>3. id \in Committed
    BY <2>2 DEF Committed
  <2>4. \A r \in Report : \A e \in linked[r] : e.name # id.name
    <3>1. SUFFICES ASSUME NEW r \in Report, NEW e \in linked[r], e.name = id.name PROVE FALSE
      OBVIOUS
    <3>2. Taken(e.name)
      BY <2>3, <3>1 DEF Taken
    <3>3. e \in Committed
      BY <1>1, <3>2 DEF TablesAgree
    <3>4. PICK t \in terms : t.id = e
      BY <3>3 DEF Committed
    <3>5. t = [id |-> id, source |-> "llm_extracted"]
      BY <1>1, <2>2, <3>1, <3>4 DEF TablesAgree
    <3> QED
      BY <2>1, <3>1, <3>4, <3>5 DEF Locked
  <2>5. \A r \in Report : task[r].at = "insert" => Entity(r) # id.name
    BY <1>3, <2>2
  <2>6. \A e \in Curator : job'[e].at = "idle"
    <3>1. \A e \in Curator \ {c} : job'[e] = Idle
      BY <1>1, <2>1, Alone
    <3> QED
      BY <1>1, <1>5, <2>1, <3>1
  <2>7. Turns'
    BY <1>1, <1>3, <1>4, <2>1, <2>4, <2>5, <2>6 DEF Turns
  <2>8. \A t \in terms' : t.id.name \notin rejected'
    <3>1. SUFFICES ASSUME NEW t \in terms' PROVE t.id.name \notin rejected'
      OBVIOUS
    <3>2. t \in terms /\ t.id # id /\ t.id.name \notin rejected
      BY <1>2, <2>1 DEF Taken, Committed
    <3>3. t.id.name # id.name
      BY <1>1, <2>2, <3>2 DEF TablesAgree
    <3> QED
      BY <2>1, <3>2, <3>3
  <2> QED
    BY <2>7, <2>8 DEF RejectedStaysOut, Taken, Committed
<1>14. CASE RejectRefused(c) \/ CallFails(c)
  BY <1>5, <1>7, <1>14 DEF RejectRefused, CallFails, Ends, tables
<1> QED
  BY <1>8, <1>9, <1>10, <1>11, <1>12, <1>13, <1>14 DEF CallNext

LEMMA RejectingStep == Rejecting /\ [Next]_vars => Rejecting'
<1> SUFFICES ASSUME Rejecting, [Next]_vars
             PROVE  Rejecting'
  OBVIOUS
<1>1. Accepting' /\ OneReport' /\ (\A r \in Report : Progress(r)')
  BY AcceptingStep, OneReportStep, ProgressStep DEF Rejecting, Accepting
<1>2. Turns' /\ RejectedStaysOut'
  <2>1. CASE overlapped' # {}
    BY <2>1 DEF Turns, RejectedStaysOut
  <2>2. CASE overlapped' = {}
    <3>1. overlapped = {}
      BY <2>2, OverlapGrows
    <3>2. CASE UNCHANGED vars
      BY <3>2 DEF vars, tables, requests, Rejecting, Turns, RejectedStaysOut, Taken, Committed, Entity
    <3> QED
      BY <2>2, <3>1, <3>2, TurnsReport, TurnsCall DEF Next
  <2> QED
    BY <2>1, <2>2
<1> QED
  BY <1>1, <1>2 DEF Rejecting

\* A rejected name is not in the vocabulary, if reports take turns and so do
\* the calls of curators, a report and a call running side by side or not.
THEOREM RejectedTheorem == Spec => []RejectedStaysOut
<1>1. Rejecting => RejectedStaysOut
  BY DEF Rejecting
<1> QED
  BY <1>1, RejectingInit, RejectingStep, PTL DEF Spec
=============================================================================
