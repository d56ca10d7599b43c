---------------------------- MODULE CurationProofs ----------------------------
(***************************************************************************)
(* Theorems about Curation, for any documents, pages and reports.          *)
(***************************************************************************)
EXTENDS Curation, TLAPS

\* What a report brings for a row: metadata as detected or as posted.
Brought == [people : Value \cup {Blank}, description : Entry]

LEMMA WithMetadataRows ==
  ASSUME NEW r \in Rows, NEW m \in Brought
  PROVE  WithMetadata(r, m) \in Rows
BY DEF Rows, Brought, Column, Entry, WithMetadata

\* A report has metadata of the kind that was detected, and is posted without nulls.
LEMMA ReportTypes ==
  ASSUME NEW d \in Doc, NEW report \in Reports(d)
  PROVE  report \in Report /\ Posted(report) \in SUBSET Brought
<1>1. report \in Report
  <2>1. \A m \in Metadata[d] : {m} \in SUBSET Detected
    BY CurationAssumption
  <2>2. \A M \in {{m} : m \in Metadata[d]} : M \in SUBSET Detected
    BY <2>1
  <2>3. [metadata : {{m} : m \in Metadata[d]}, flag : BOOLEAN] \subseteq Report
    BY <2>2 DEF Report
  <2>4. [metadata |-> {}, flag |-> TRUE] \in Report
    BY DEF Report
  <2>5. Reports(d) \subseteq Report
    BY <2>3, <2>4, Zenon DEF Reports
  <2>. QED BY <2>5
<1>2. NothingDetected \in Brought
  BY DEF NothingDetected, Brought, Entry
<1>3. ASSUME NEW m \in Detected
      PROVE  [people |-> m.people, description |-> Filled(m.description)] \in Brought
  BY DEF Detected, Brought, Entry, Filled
<1>4. Posted(report) \in SUBSET Brought
  BY <1>1, <1>2, <1>3 DEF Posted, Report
<1>. QED BY <1>1, <1>4

LEMMA DetectedBrought == Detected \subseteq Brought
BY DEF Detected, Brought, Entry

\* Receiving a report keeps the types of the row and of its flag.
LEMMA ReceivesTypes ==
  ASSUME TypeOK, NEW d \in Doc, NEW metadata \in SUBSET Brought, NEW flag \in BOOLEAN,
         Receives(d, metadata, flag)
  PROVE  row' \in [Doc -> Rows] /\ flagged' \subseteq Doc /\ before' \subseteq flagged' \X flagged'
<1>1. row' \in [Doc -> Rows]
  <2>1. CASE metadata = {}
    BY <2>1 DEF Receives, TypeOK
  <2>2. CASE metadata # {}
    <3>1. PICK m \in metadata : row' = [row EXCEPT ![d] = WithMetadata(row[d], m)]
      BY <2>2 DEF Receives
    <3>2. WithMetadata(row[d], m) \in Rows
      BY WithMetadataRows DEF TypeOK
    <3>. QED BY <3>1, <3>2 DEF TypeOK
  <2>. QED BY <2>1, <2>2
<1>2. flagged' \subseteq Doc /\ before' \subseteq flagged' \X flagged'
  <2>1. CASE flag
    BY <2>1 DEF Receives, SetsFlag, Without, TypeOK
  <2>2. CASE ~flag
    BY <2>2 DEF Receives, TypeOK
  <2>. QED BY <2>1, <2>2
<1>. QED BY <1>1, <1>2

LEMMA UnsetsFlagTypes ==
  ASSUME TypeOK, NEW d, UnsetsFlag(d)
  PROVE  flagged' \subseteq Doc /\ before' \subseteq flagged' \X flagged'
BY DEF TypeOK, UnsetsFlag, Without

LEMMA FaultsType ==
  ASSUME TypeOK, Fails PROVE faults' \in 0..MaxFaults
BY CurationAssumption DEF TypeOK, Fails

LEMMA ToFormTypes ==
  ASSUME NEW r \in Rows PROVE ToForm(r) \in Forms
BY DEF ToForm, Rows, Forms, Filled, Entry, Column

-----------------------------------------------------------------------------
LEMMA TypeInit == Init => TypeOK
BY CurationAssumption DEF Init, TypeOK, Rows, NoClear

LEMMA TypeReport ==
  ASSUME TypeOK, NEW d \in Doc, ReportStep(d)
  PROVE  TypeOK'
<1>1. CASE ReportPosted(d)
  <2>1. PICK report \in Reports(d) : /\ Receives(d, Posted(report), report.flag)
                                     /\ owed' = [owed EXCEPT ![d] = {report}]
    BY <1>1 DEF ReportPosted
  <2>2. report \in Report /\ Posted(report) \in SUBSET Brought
    BY ReportTypes
  <2>3. report.flag \in BOOLEAN
    BY <2>2 DEF Report
  <2>4. row' \in [Doc -> Rows] /\ flagged' \subseteq Doc /\ before' \subseteq flagged' \X flagged'
    BY <2>1, <2>2, <2>3, ReceivesTypes
  <2>5. owed' \in [Doc -> SUBSET Report]
    BY <2>1, <2>2 DEF TypeOK
  <2>. QED BY <1>1, <2>4, <2>5 DEF ReportPosted, TypeOK, queuePages, formPages
<1>2. CASE ReportAnswered(d)
  <2>1. PICK report \in owed[d] : Receives(d, report.metadata, report.flag)
    BY <1>2 DEF ReportAnswered
  <2>2. report.metadata \in SUBSET Brought /\ report.flag \in BOOLEAN
    BY DetectedBrought DEF TypeOK, Report
  <2>3. row' \in [Doc -> Rows] /\ flagged' \subseteq Doc /\ before' \subseteq flagged' \X flagged'
    BY <2>1, <2>2, ReceivesTypes
  <2>4. owed' \in [Doc -> SUBSET Report] /\ corrected' \in [Doc -> SUBSET Column]
    BY <1>2 DEF ReportAnswered, TypeOK
  <2>. QED BY <1>2, <2>3, <2>4 DEF ReportAnswered, TypeOK, queuePages, formPages
<1>3. CASE ReportDropped(d)
  BY <1>3, FaultsType DEF ReportDropped, TypeOK, rows, queuePages, formPages
<1>. QED BY <1>1, <1>2, <1>3 DEF ReportStep

LEMMA TypeQueue ==
  ASSUME TypeOK, NEW q \in QueuePage,
         Refetch(q) \/ ClearStep(q) \/ ClearFails(q) \/ \E d \in Doc : Click(q, d)
  PROVE  TypeOK'
<1>1. CASE Refetch(q)
  BY <1>1 DEF Refetch, FirstPage, TypeOK, rows, formPages
<1>2. CASE \E d \in Doc : Click(q, d)
  BY <1>2 DEF Click, TypeOK, rows, formPages
<1>3. CASE ClearChecks(q)
  BY <1>3 DEF ClearChecks, ClearMoves, TypeOK, formPages, rows
<1>4. CASE ClearUpdates(q)
  <2>1. PICK d \in clear[q].doc : UnsetsFlag(d)
    BY <1>4 DEF ClearUpdates
  <2>2. flagged' \subseteq Doc /\ before' \subseteq flagged' \X flagged'
    BY <2>1, UnsetsFlagTypes
  <2>. QED BY <1>4, <2>2 DEF ClearUpdates, ClearMoves, TypeOK, formPages
<1>5. CASE ClearHeard(q)
  BY <1>5 DEF ClearHeard, NoClear, TypeOK, rows, formPages
<1>6. CASE ClearFails(q)
  <2>1. late' \subseteq [doc : Doc, checked : BOOLEAN]
    <3>1. clear[q].doc \subseteq Doc
      BY DEF TypeOK
    <3>2. [doc : clear[q].doc, checked : {clear[q].stage = "checked"}] \subseteq [doc : Doc, checked : BOOLEAN]
      BY <3>1
    <3>. QED BY <1>6, <3>2 DEF ClearFails, TypeOK
  <2>. QED BY <1>6, <2>1, FaultsType DEF ClearFails, NoClear, TypeOK, rows, formPages
<1>. QED BY <1>1, <1>2, <1>3, <1>4, <1>5, <1>6 DEF ClearStep

LEMMA TypeForm ==
  ASSUME TypeOK, NEW f \in FormPage, FormStep(f)
  PROVE  TypeOK'
<1>1. ASSUME NEW d \in Opened, Load(f, d) PROVE TypeOK'
  <2>1. d \in Doc /\ ToForm(row[d]) \in Forms
    BY CurationAssumption, ToFormTypes DEF TypeOK
  <2>2. form' \in [FormPage -> SUBSET [doc : Doc, values : Forms]]
    BY <1>1, <2>1 DEF Load, TypeOK
  <2>. QED BY <1>1, <2>2 DEF Load, TypeOK, rows, queuePages
<1>2. ASSUME NEW c \in Column, NEW v \in Value \cup {Blank}, Submit(f, c, v) PROVE TypeOK'
  <2>1. PICK x \in form[f] : form' = [form EXCEPT ![f] = {[doc |-> x.doc, values |-> [x.values EXCEPT ![c] = v]]}]
    BY <1>2 DEF Submit
  <2>2. x.doc \in Doc /\ x.values \in Forms
    BY DEF TypeOK
  <2>3. [x.values EXCEPT ![c] = v] \in Forms
    BY <2>2 DEF Forms
  <2>4. form' \in [FormPage -> SUBSET [doc : Doc, values : Forms]]
    BY <2>1, <2>2, <2>3 DEF TypeOK
  <2>. QED BY <1>2, <2>4 DEF Submit, TypeOK, rows, queuePages
<1>3. CASE SaveUpdates(f)
  <2>1. PICK x \in form[f] : Saves(x.doc, x.values)
    BY <1>3 DEF SaveUpdates
  <2>2. x.doc \in Doc /\ x.values \in Forms
    BY DEF TypeOK
  <2>3. row' \in [Doc -> Rows]
    BY <2>1, <2>2 DEF Saves, WithForm, Forms, Rows, Entry, TypeOK
  <2>4. corrected' \in [Doc -> SUBSET Column]
    BY <2>1, <2>2 DEF Saves, TypeOK
  <2>. QED BY <1>3, <2>1, <2>3, <2>4 DEF SaveUpdates, Saves, TypeOK, queuePages
<1>4. CASE SaveFails(f)
  BY <1>4, FaultsType DEF SaveFails, TypeOK, rows, queuePages
<1>. QED BY <1>1, <1>2, <1>3, <1>4 DEF FormStep

LEMMA TypeLate ==
  ASSUME TypeOK, NEW x \in late, LateStep(x)
  PROVE  TypeOK'
<1>1. CASE LateClearChecks(x)
  BY <1>1 DEF LateClearChecks, TypeOK, rows, queuePages, formPages
<1>2. CASE LateClearUpdates(x)
  BY <1>2, UnsetsFlagTypes DEF LateClearUpdates, TypeOK, queuePages, formPages
<1>. QED BY <1>1, <1>2 DEF LateStep

LEMMA TypeStep == TypeOK /\ [Next]_vars => TypeOK'
<1>. SUFFICES ASSUME TypeOK, [Next]_vars PROVE TypeOK'
  OBVIOUS
<1>1. ASSUME NEW d \in Doc, ReportStep(d) PROVE TypeOK'
  BY <1>1, TypeReport
<1>2. ASSUME NEW q \in QueuePage,
             Refetch(q) \/ ClearStep(q) \/ ClearFails(q) \/ \E d \in Doc : Click(q, d)
      PROVE  TypeOK'
  BY <1>2, TypeQueue
<1>3. ASSUME NEW f \in FormPage, FormStep(f) PROVE TypeOK'
  BY <1>3, TypeForm
<1>4. ASSUME NEW x \in late, LateStep(x) PROVE TypeOK'
  BY <1>4, TypeLate
<1>5. CASE UNCHANGED vars
  BY <1>5 DEF TypeOK, vars, rows, queuePages, formPages
<1>. QED BY <1>1, <1>2, <1>3, <1>4, <1>5 DEF Next

\* Every variable keeps its type.
THEOREM TypeCorrect == Spec => []TypeOK
BY TypeInit, TypeStep, PTL DEF Spec

-----------------------------------------------------------------------------
(* Flags.                                                                  *)

FlagStep ==
  \A d \in flagged \ flagged' :
    \/ \E q \in QueuePage : clear[q].stage = "checked" /\ clear[q].doc = {d}
    \/ \E x \in late : x.doc = d /\ x.checked

\* A click is about one document.
OneDocument == \A q \in QueuePage : clear[q].stage # "idle" => \E d \in Doc : clear[q].doc = {d}

LEMMA OneDocumentInit == Init => OneDocument
BY DEF Init, OneDocument, NoClear

LEMMA OneDocumentStep == TypeOK /\ OneDocument /\ [Next]_vars => OneDocument'
<1>. SUFFICES ASSUME TypeOK, OneDocument, [Next]_vars PROVE OneDocument'
  OBVIOUS
<1>1. CASE UNCHANGED clear
  BY <1>1 DEF OneDocument
<1>2. ASSUME NEW q \in QueuePage, ClearStep(q) \/ ClearFails(q) PROVE OneDocument'
  <2>1. CASE ClearChecks(q) \/ ClearUpdates(q)
    BY <2>1 DEF ClearChecks, ClearUpdates, ClearMoves, OneDocument, TypeOK
  <2>2. CASE ClearHeard(q) \/ ClearFails(q)
    BY <2>2 DEF ClearHeard, ClearFails, NoClear, OneDocument, TypeOK
  <2>. QED BY <1>2, <2>1, <2>2 DEF ClearStep
<1>3. ASSUME NEW q \in QueuePage, NEW d \in Doc, Click(q, d) PROVE OneDocument'
  BY <1>3 DEF Click, OneDocument, TypeOK
<1>4. CASE UNCHANGED vars
  BY <1>4, <1>1 DEF vars, queuePages
<1>5. ASSUME NEW d \in Doc, ReportStep(d) PROVE UNCHANGED clear
  BY <1>5 DEF ReportStep, ReportPosted, ReportAnswered, ReportDropped, queuePages
<1>6. ASSUME NEW f \in FormPage, FormStep(f) PROVE UNCHANGED clear
  BY <1>6 DEF FormStep, Load, Submit, SaveUpdates, SaveFails, queuePages
<1>7. ASSUME NEW x \in late, LateStep(x) PROVE UNCHANGED clear
  BY <1>7 DEF LateStep, LateClearChecks, LateClearUpdates, queuePages
<1>8. ASSUME NEW q \in QueuePage, Refetch(q) PROVE UNCHANGED clear
  BY <1>8 DEF Refetch
<1>. QED BY <1>1, <1>2, <1>3, <1>4, <1>5, <1>6, <1>7, <1>8 DEF Next

\* Receiving a report takes no flag away.
LEMMA ReceivesKeeps ==
  ASSUME NEW d, NEW metadata, NEW flag, Receives(d, metadata, flag)
  PROVE  flagged \subseteq flagged'
BY DEF Receives, SetsFlag

LEMMA FlagsStep == OneDocument /\ [Next]_vars => FlagStep
<1>. SUFFICES ASSUME OneDocument, [Next]_vars PROVE FlagStep
  OBVIOUS
<1>1. CASE flagged \subseteq flagged'
  BY <1>1 DEF FlagStep
<1>2. ASSUME NEW d \in Doc, ReportStep(d) PROVE flagged \subseteq flagged'
  <2>1. CASE ReportPosted(d) \/ ReportAnswered(d)
    BY <2>1, ReceivesKeeps DEF ReportPosted, ReportAnswered
  <2>2. CASE ReportDropped(d)
    BY <2>2 DEF ReportDropped, rows
  <2>. QED BY <1>2, <2>1, <2>2 DEF ReportStep
<1>3. ASSUME NEW q \in QueuePage, ClearUpdates(q) PROVE FlagStep
  <2>1. PICK d \in clear[q].doc : UnsetsFlag(d)
    BY <1>3 DEF ClearUpdates
  <2>2. clear[q].stage = "checked" /\ clear[q].doc = {d}
    BY <1>3, <2>1 DEF ClearUpdates, ClearMoves, OneDocument
  <2>3. \A e \in flagged \ flagged' : e = d
    BY <2>1 DEF UnsetsFlag
  <2>. QED BY <2>2, <2>3 DEF FlagStep
<1>4. ASSUME NEW q \in QueuePage,
             Refetch(q) \/ ClearChecks(q) \/ ClearHeard(q) \/ ClearFails(q) \/ \E d \in Doc : Click(q, d)
      PROVE  flagged \subseteq flagged'
  BY <1>4 DEF Refetch, ClearChecks, ClearHeard, ClearFails, Click, rows
<1>5. ASSUME NEW f \in FormPage, FormStep(f) PROVE flagged \subseteq flagged'
  BY <1>5 DEF FormStep, Load, Submit, SaveUpdates, Saves, SaveFails, rows
<1>6. ASSUME NEW x \in late, LateStep(x) PROVE FlagStep
  <2>1. CASE LateClearChecks(x)
    BY <2>1 DEF LateClearChecks, rows, FlagStep
  <2>2. CASE LateClearUpdates(x)
    BY <2>2 DEF LateClearUpdates, UnsetsFlag, FlagStep
  <2>. QED BY <1>6, <2>1, <2>2 DEF LateStep
<1>7. CASE UNCHANGED vars
  BY <1>7, <1>1 DEF vars, rows
<1>. QED BY <1>1, <1>2, <1>3, <1>4, <1>5, <1>6, <1>7 DEF Next, ClearStep

\* US-054, UR-077: a flag goes only by the update of a clear-flag request that has
\* seen one on that document, with any number of curators, pages and late calls.
THEOREM FlagsTheorem == Spec => FlagsFallByClearing
<1>1. Spec => []OneDocument
  BY TypeCorrect, OneDocumentInit, OneDocumentStep, PTL DEF Spec
<1>2. Spec => [][FlagStep]_vars
  BY <1>1, FlagsStep, PTL DEF Spec
<1>. QED BY <1>2 DEF FlagsFallByClearing, FlagStep

-----------------------------------------------------------------------------
(* Descriptions.                                                           *)

\* What is on its way to be saved has a description.
Described ==
  \A f \in FormPage : save[f] = "sent" => \A x \in form[f] : x.values["description"] # Blank

LEMMA DescribedInit == Init => Described
BY DEF Init, Described

LEMMA DescribedStep == TypeOK /\ Described /\ [Next]_vars => Described'
<1>. SUFFICES ASSUME TypeOK, Described, [Next]_vars PROVE Described'
  OBVIOUS
<1>1. CASE UNCHANGED formPages
  BY <1>1 DEF Described, formPages
<1>2. ASSUME NEW f \in FormPage, NEW d \in Opened, Load(f, d) PROVE Described'
  BY <1>2 DEF Load, Described, TypeOK
<1>3. ASSUME NEW f \in FormPage, NEW c \in Column, NEW v \in Value \cup {Blank}, Submit(f, c, v)
      PROVE  Described'
  <2>1. PICK x \in form[f] :
          /\ [x.values EXCEPT ![c] = v]["description"] # Blank
          /\ form' = [form EXCEPT ![f] = {[doc |-> x.doc, values |-> [x.values EXCEPT ![c] = v]]}]
    BY <1>3 DEF Submit
  <2>2. \A y \in form'[f] : y.values["description"] # Blank
    <3>. DEFINE sent == [doc |-> x.doc, values |-> [x.values EXCEPT ![c] = v]]
    <3>1. form'[f] = {sent}
      BY <2>1 DEF TypeOK
    <3>2. sent.values["description"] # Blank
      BY <2>1
    <3>. HIDE DEF sent
    <3>. QED BY <3>1, <3>2
  <2>3. \A g \in FormPage \ {f} : form'[g] = form[g] /\ save'[g] = save[g]
    BY <1>3, <2>1 DEF Submit, TypeOK
  <2>. QED BY <2>2, <2>3 DEF Described
<1>4. ASSUME NEW f \in FormPage, SaveUpdates(f) \/ SaveFails(f) PROVE Described'
  BY <1>4 DEF SaveUpdates, SaveFails, Described, TypeOK
<1>5. ASSUME NEW d \in Doc, ReportStep(d) PROVE UNCHANGED formPages
  BY <1>5 DEF ReportStep, ReportPosted, ReportAnswered, ReportDropped
<1>6. ASSUME NEW q \in QueuePage,
             Refetch(q) \/ ClearStep(q) \/ ClearFails(q) \/ \E d \in Doc : Click(q, d)
      PROVE  UNCHANGED formPages
  BY <1>6 DEF Refetch, ClearStep, ClearChecks, ClearUpdates, ClearMoves, ClearHeard, ClearFails, Click
<1>7. ASSUME NEW x \in late, LateStep(x) PROVE UNCHANGED formPages
  BY <1>7 DEF LateStep, LateClearChecks, LateClearUpdates
<1>8. CASE UNCHANGED vars
  BY <1>8, <1>1 DEF vars
<1>. QED BY <1>1, <1>2, <1>3, <1>4, <1>5, <1>6, <1>7, <1>8 DEF Next, FormStep

DescriptionStep == \A d \in Doc : row[d].description # Blank => row'[d].description # Blank

\* Receiving a report leaves no description blank that was not.
LEMMA ReceivesDescribed ==
  ASSUME TypeOK, NEW d \in Doc, NEW metadata, NEW flag, Receives(d, metadata, flag)
  PROVE  DescriptionStep
<1>1. CASE metadata = {}
  BY <1>1 DEF Receives, DescriptionStep
<1>2. CASE metadata # {}
  <2>1. PICK m \in metadata : row' = [row EXCEPT ![d] = WithMetadata(row[d], m)]
    BY <1>2 DEF Receives
  <2>2. row[d] \in Rows
    BY DEF TypeOK
  <2>3. row[d].description # Blank => WithMetadata(row[d], m).description # Blank
    BY <2>2 DEF WithMetadata, Rows, Column
  <2>. QED BY <2>1, <2>3 DEF TypeOK, DescriptionStep
<1>. QED BY <1>1, <1>2

LEMMA DescriptionsStep == TypeOK /\ Described /\ [Next]_vars => DescriptionStep
<1>. SUFFICES ASSUME TypeOK, Described, [Next]_vars PROVE DescriptionStep
  OBVIOUS
<1>1. CASE UNCHANGED row
  BY <1>1 DEF DescriptionStep
<1>2. ASSUME NEW d \in Doc, ReportStep(d) PROVE DescriptionStep
  <2>1. CASE ReportPosted(d) \/ ReportAnswered(d)
    BY <2>1, ReceivesDescribed DEF ReportPosted, ReportAnswered
  <2>2. CASE ReportDropped(d)
    BY <2>2, <1>1 DEF ReportDropped, rows
  <2>. QED BY <1>2, <2>1, <2>2 DEF ReportStep
<1>3. ASSUME NEW f \in FormPage, SaveUpdates(f) PROVE DescriptionStep
  <2>1. PICK x \in form[f] : Saves(x.doc, x.values)
    BY <1>3 DEF SaveUpdates
  <2>2. x.values["description"] # Blank /\ x.doc \in Doc
    BY <1>3 DEF SaveUpdates, Described, TypeOK
  <2>3. WithForm(x.values).description # Blank
    BY <2>2 DEF WithForm, Column
  <2>. QED BY <2>1, <2>2, <2>3 DEF Saves, DescriptionStep, TypeOK
<1>4. ASSUME NEW f \in FormPage, SaveFails(f) \/ \E d \in Opened : Load(f, d) PROVE UNCHANGED row
  BY <1>4 DEF SaveFails, Load, rows
<1>5. ASSUME NEW f \in FormPage, NEW c \in Column, NEW v \in Value \cup {Blank}, Submit(f, c, v)
      PROVE  UNCHANGED row
  BY <1>5 DEF Submit, rows
<1>6. ASSUME NEW q \in QueuePage,
             Refetch(q) \/ ClearStep(q) \/ ClearFails(q) \/ \E d \in Doc : Click(q, d)
      PROVE  UNCHANGED row
  BY <1>6 DEF Refetch, ClearStep, ClearChecks, ClearUpdates, ClearHeard, ClearFails, Click, rows
<1>7. ASSUME NEW x \in late, LateStep(x) PROVE UNCHANGED row
  BY <1>7 DEF LateStep, LateClearChecks, LateClearUpdates, rows
<1>8. CASE UNCHANGED vars
  BY <1>8, <1>1 DEF vars, rows
<1>. QED BY <1>1, <1>2, <1>3, <1>4, <1>5, <1>6, <1>7, <1>8 DEF Next, FormStep

\* UR-053: neither reports, posted or answered, nor forms, however old, leave a
\* document without the description that it had.
THEOREM DescriptionsTheorem == Spec => DescriptionsStay
<1>1. Spec => []Described
  BY TypeCorrect, DescribedInit, DescribedStep, PTL DEF Spec
<1>2. Spec => [][DescriptionStep]_vars
  BY <1>1, TypeCorrect, DescriptionsStep, PTL DEF Spec
<1>. QED BY <1>2 DEF DescriptionsStay, DescriptionStep
=============================================================================
