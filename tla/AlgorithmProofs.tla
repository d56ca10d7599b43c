---------------------------- MODULE AlgorithmProofs ----------------------------
(***************************************************************************)
(* The pure algorithms, for every input.                                   *)
(***************************************************************************)
EXTENDS MCAlgorithms, GraphSearchProofs

-----------------------------------------------------------------------------
(* The search over the graph.                                              *)

\* The search over the graph finds what it should, for every graph, depth and
\* type: the entities that the inputs start from are among its nodes.
THEOREM SearchesTheorem ==
  ASSUME {1, 2} \subseteq Node, MaxDepth \in Nat, DepthLimit \in Nat
  PROVE  Spec => []SearchesAreExact
<1>1. ASSUME input \in GraphInputs
      PROVE  /\ IsGraph(input.edges, Node) /\ input.depth \in Nat \ {0}
             /\ input.names \subseteq Node /\ input.kind = "graph"
  <2>3. input.edges \in {{[from |-> p[1], to |-> p[2], type |-> f[p]] : p \in DOMAIN f} :
              f \in UNION {[D -> Type] : D \in {E \in SUBSET (Node \X Node) : Cardinality(E) <= MaxEdges}}}
    BY <1>1 DEF GraphInputs
  <2>1. PICK D \in SUBSET (Node \X Node) : \E f \in [D -> Type] :
          input.edges = {[from |-> p[1], to |-> p[2], type |-> f[p]] : p \in DOMAIN f}
    BY <2>3
  <2>2. IsGraph(input.edges, Node)
    BY <2>1 DEF IsGraph
  <2> QED
    BY <1>1, <2>2 DEF GraphInputs
<1>2. ASSUME input \in GraphInputs
      PROVE  SearchesAreExact
  <2>1. \A start \in input.names : TraversalIsExact(input.edges, Node, start, input.depth, input.types)
    BY <1>1, <1>2, TraversalTheorem
  <2>2. SearchIsExact(input.edges, Node, input.documents, input.names, input.depth, input.types, DepthLimit)
    BY <1>1, <1>2, SearchTheorem
  <2> QED
    BY <2>1, <2>2 DEF SearchesAreExact
<1>3. Init => SearchesAreExact
  <2>1. input \in GraphInputs \/ input.kind # "graph" => SearchesAreExact
    BY <1>2 DEF SearchesAreExact
  <2>2. Init => input \in GraphInputs \/ input.kind # "graph"
    BY DEF Init, ChunkInputs, QueryInputs, PipelineInputs, ServiceInputs, RequestInputs
  <2> QED
    BY <2>1, <2>2
<1>4. SearchesAreExact /\ [Next]_input => SearchesAreExact'
  BY DEF Next, SearchesAreExact
<1> QED
  BY <1>3, <1>4, PTL DEF Spec

-----------------------------------------------------------------------------
(* The answers on their way to the browser.                                *)

\* The errors of a service, by operation.
LEMMA Outcomes ==
  ASSUME NEW q \in Gate!Request, Gate!Possible(q)
  PROVE  /\ q.wellFormed \in BOOLEAN /\ q.knownKey \in BOOLEAN
         /\ q.op \in Gate!Operation
         /\ \/ q.outcome \in {"served", "thrown", "unreachable"}
            \/ q.op \in {"detail", "save", "clear", "accept", "reject"} /\ q.outcome = "not_found"
            \/ q.op = "clear" /\ q.outcome = "no_flag_to_clear"
            \/ q.op \in {"accept", "reject"} /\ q.outcome = "wrong_source"
            \/ q.op = "add" /\ q.outcome \in {"duplicate_term", "target_not_found"}
<1>1. /\ q.op \in Gate!Operation /\ q.wellFormed \in BOOLEAN /\ q.knownKey \in BOOLEAN
  BY DEF Gate!Request
<1>2. Gate!ServiceErrors(q.op) =
        IF q.op \in {"detail", "save"} THEN {"not_found"}
        ELSE IF q.op = "clear" THEN {"not_found", "no_flag_to_clear"}
        ELSE IF q.op \in {"accept", "reject"} THEN {"not_found", "wrong_source"}
        ELSE IF q.op = "add" THEN {"duplicate_term", "target_not_found"} ELSE {}
  BY <1>1 DEF Gate!ServiceErrors, Gate!CurationErrors, Gate!VocabularyErrors, Gate!Operation
<1> QED
  BY <1>1, <1>2 DEF Gate!Possible

\* What the routes of the frontend's server make of an answer of Express.
LEMMA Relayed ==
  ASSUME NEW q \in Gate!Request, q.wellFormed, q.outcome # "unreachable",
         NEW status \in Nat, NEW error, Gate!ExpressAnswer(q) = Gate!Answer(status, error)
  PROVE  Gate!HonoAnswer(q) =
           IF error = "none" THEN Gate!Success(q)
           ELSE IF q.op \in Gate!Listing \/ status >= 500 THEN Gate!Answer(500, "failed")
           ELSE Gate!HonoRelays(q, error)
<1>1. Gate!ExpressAnswer(q).status = status /\ Gate!ExpressAnswer(q).error = error
  BY DEF Gate!Answer
<1>2. Gate!KyResult(q) =
        IF error = "none" THEN "success"
        ELSE IF q.op \in Gate!Listing \/ status >= 500 THEN "throws" ELSE error
  BY <1>1 DEF Gate!KyResult
<1>3. Gate!HonoAnswer(q) = Gate!HonoRelays(q, Gate!KyResult(q))
  BY DEF Gate!HonoAnswer
<1>4. /\ Gate!HonoRelays(q, "success") = Gate!Success(q)
      /\ Gate!HonoRelays(q, "throws") = Gate!Answer(500, "failed")
  BY DEF Gate!HonoRelays
<1> QED
  BY <1>2, <1>3, <1>4

\* A code that is relayed has the status of its table, or that of a success.
LEMMA RelayedCode ==
  ASSUME NEW q, NEW error \in {"unauthorized", "not_found", "no_flag_to_clear", "wrong_source",
                               "duplicate_term", "target_not_found"}
  PROVE  Gate!Hears(Gate!HonoRelays(q, error)) =
           IF error \in {"not_found", "duplicate_term"} THEN "error" ELSE "success"
<1>1. Gate!HonoRelays(q, error) = Gate!Answer(Gate!HonoStatus(error), error)
  BY DEF Gate!HonoRelays
<1>2. DOMAIN Gate!HonoTable =
        {"not_found", "no_active_flag", "invalid_params", "invalid_state", "duplicate_term"}
  BY DEF Gate!HonoTable
<1>3. Gate!HonoTable["not_found"] = 404 /\ Gate!HonoTable["duplicate_term"] = 409
  BY DEF Gate!HonoTable
<1>4. Gate!HonoStatus(error) =
        IF error = "not_found" THEN 404 ELSE IF error = "duplicate_term" THEN 409 ELSE 200
  BY <1>2, <1>3 DEF Gate!HonoStatus, Gate!DefaultStatus
<1> QED
  BY <1>1, <1>4 DEF Gate!Answer, Gate!Hears

\* What Express answers to a well-formed request that it gets.
LEMMA AnswerOfExpress ==
  ASSUME NEW q \in Gate!Request, Gate!Possible(q), q.wellFormed, q.outcome # "unreachable"
  PROVE  Gate!ExpressAnswer(q) =
           IF ~q.knownKey THEN Gate!Answer(401, "unauthorized")
           ELSE IF q.outcome = "thrown" THEN Gate!Answer(500, "internal_error")
           ELSE IF q.outcome = "served" THEN Gate!Answer(IF q.op = "add" THEN 201 ELSE 200, "none")
           ELSE Gate!Answer(IF q.outcome \in {"not_found", "target_not_found"} THEN 404 ELSE 409,
                            q.outcome)
<1>1. CASE ~q.knownKey
  BY <1>1 DEF Gate!ExpressAnswer, Gate!Unauthorized
<1>2. CASE q.knownKey /\ q.outcome = "thrown"
  BY <1>2 DEF Gate!ExpressAnswer, Gate!Unhandled
<1>3. CASE q.knownKey /\ q.outcome # "thrown"
  <2>1. Gate!ExpressAnswer(q) =
          IF q.op \in {"documents", "detail", "clear", "save"}
          THEN Gate!CurationAnswer(q) ELSE Gate!VocabularyAnswer(q)
    BY <1>3 DEF Gate!ExpressAnswer
  <2>2. CASE q.outcome = "served"
    BY <1>3, <2>1, <2>2 DEF Gate!CurationAnswer, Gate!VocabularyAnswer, Gate!Success
  <2>3. CASE q.outcome # "served"
    <3>1. \/ q.op \in {"detail", "save", "clear"} /\ q.outcome = "not_found"
          \/ q.op = "clear" /\ q.outcome = "no_flag_to_clear"
          \/ q.op \in {"accept", "reject"} /\ q.outcome \in {"not_found", "wrong_source"}
          \/ q.op = "add" /\ q.outcome \in {"duplicate_term", "target_not_found"}
      BY <1>3, <2>3, Outcomes
    <3>2. Gate!CurationStatus["not_found"] = 404 /\ Gate!CurationStatus["no_flag_to_clear"] = 409
      BY DEF Gate!CurationStatus
    <3>3. /\ Gate!VocabularyStatus["not_found"] = 404 /\ Gate!VocabularyStatus["wrong_source"] = 409
          /\ Gate!VocabularyStatus["duplicate_term"] = 409
          /\ Gate!VocabularyStatus["target_not_found"] = 404
      BY DEF Gate!VocabularyStatus
    <3>4. CASE q.op \in {"detail", "save", "clear"}
      <4>1. Gate!ExpressAnswer(q) = Gate!Answer(Gate!CurationStatus[q.outcome], q.outcome)
        BY <2>1, <2>3, <3>4 DEF Gate!CurationAnswer
      <4> QED
        BY <1>3, <2>3, <3>1, <3>2, <3>4, <4>1
    <3>5. CASE q.op \in {"accept", "reject", "add"}
      <4>1. Gate!ExpressAnswer(q) = Gate!Answer(Gate!VocabularyStatus[q.outcome], q.outcome)
        BY <2>1, <2>3, <3>5 DEF Gate!VocabularyAnswer
      <4> QED
        BY <1>3, <2>3, <3>1, <3>3, <3>5, <4>1
    <3> QED
      BY <3>1, <3>4, <3>5
  <2> QED
    BY <2>2, <2>3
<1> QED
  BY <1>1, <1>2, <1>3, Outcomes

\* A curator is told of what is done, and of a success only if there is one or the
\* refusal has no status: whatever is asked for and whatever becomes of it.
THEOREM RequestTheorem ==
  ASSUME NEW q \in Gate!Request, Gate!Possible(q)
  PROVE  Gate!SuccessIsEarned(q)
<1> DEFINE heard == Gate!Hears(Gate!HonoAnswer(q))
<1>1. \A error : /\ Gate!Hears(Gate!Answer(500, error)) = "error"
                 /\ Gate!Hears(Gate!Answer(400, error)) = "error"
  BY DEF Gate!Hears, Gate!Answer
<1>2. Gate!Hears(Gate!Success(q)) = "success"
  BY DEF Gate!Hears, Gate!Answer, Gate!Success
<1> DEFINE expected == /\ q.wellFormed /\ q.outcome # "unreachable"
                       /\ \/ q.knownKey /\ q.outcome = "served"
                          \/ ~q.knownKey /\ q.op \notin Gate!Listing
                          \/ /\ q.knownKey
                             /\ q.outcome \in {"no_flag_to_clear", "wrong_source", "target_not_found"}
<1>3. (heard = "success" <=> expected) => Gate!SuccessIsEarned(q)
  <2>1. Gate!IsDone(q) => expected
    BY DEF Gate!IsDone
  <2>2. expected => Gate!IsDone(q) \/ Gate!IsUnlisted(q)
    <3>1. ASSUME expected, q.op \notin Gate!Listing
          PROVE  Gate!IsDone(q) \/ Gate!IsUnlisted(q)
      BY <3>1, Zenon DEF Gate!IsDone, Gate!IsUnlisted
    <3>2. ASSUME expected, q.op \in Gate!Listing
          PROVE  Gate!IsDone(q)
      <4>1. q.outcome \in {"served", "thrown", "unreachable"}
        BY <3>2, Outcomes DEF Gate!Listing
      <4> QED
        BY <3>2, <4>1 DEF Gate!IsDone
    <3> QED
      BY <3>1, <3>2, Zenon
  <2>3. Gate!IsTold(q) <=> heard = "success"
    BY DEF Gate!IsTold
  <2> HIDE DEF expected, heard
  <2> QED
    BY <2>1, <2>2, <2>3, Zenon DEF Gate!SuccessIsEarned
<1> HIDE DEF heard
<1>4. CASE ~q.wellFormed
  BY <1>1, <1>3, <1>4 DEF heard, Gate!HonoAnswer
<1>5. CASE q.wellFormed /\ q.outcome = "unreachable"
  <2>1. Gate!HonoAnswer(q) = Gate!Answer(500, "failed")
    BY <1>5 DEF Gate!HonoAnswer, Gate!KyResult, Gate!HonoRelays
  <2> QED
    BY <1>1, <1>3, <1>5, <2>1 DEF heard
<1>6. CASE q.wellFormed /\ q.outcome # "unreachable"
  <2>1. CASE ~q.knownKey
    <3>1. Gate!ExpressAnswer(q) = Gate!Answer(401, "unauthorized")
      BY <1>6, <2>1, AnswerOfExpress
    <3>2. Gate!HonoAnswer(q) = IF q.op \in Gate!Listing THEN Gate!Answer(500, "failed")
                               ELSE Gate!HonoRelays(q, "unauthorized")
      BY <1>6, <3>1, Relayed
    <3> QED
      BY <1>1, <1>3, <1>6, <2>1, <3>2, RelayedCode DEF heard
  <2>2. CASE q.knownKey /\ q.outcome = "thrown"
    <3>1. Gate!ExpressAnswer(q) = Gate!Answer(500, "internal_error")
      BY <1>6, <2>2, AnswerOfExpress
    <3>2. Gate!HonoAnswer(q) = Gate!Answer(500, "failed")
      BY <1>6, <3>1, Relayed
    <3> QED
      BY <1>1, <1>3, <1>6, <2>2, <3>2 DEF heard
  <2>3. CASE q.knownKey /\ q.outcome = "served"
    <3>1. PICK status \in Nat : Gate!ExpressAnswer(q) = Gate!Answer(status, "none")
      BY <1>6, <2>3, AnswerOfExpress
    <3>2. Gate!HonoAnswer(q) = Gate!Success(q)
      BY <1>6, <3>1, Relayed
    <3> QED
      BY <1>2, <1>3, <1>6, <2>3, <3>2 DEF heard
  <2>4. CASE q.knownKey /\ q.outcome \notin {"thrown", "served"}
    <3>1. PICK status \in {404, 409} : Gate!ExpressAnswer(q) = Gate!Answer(status, q.outcome)
      BY <1>6, <2>4, AnswerOfExpress
    <3>2. /\ q.outcome \in {"not_found", "no_flag_to_clear", "wrong_source", "duplicate_term",
                            "target_not_found"}
          /\ q.op \notin Gate!Listing
      BY <1>6, <2>4, Outcomes DEF Gate!Listing
    <3>3. Gate!HonoAnswer(q) = Gate!HonoRelays(q, q.outcome)
      BY <1>6, <3>1, <3>2, Relayed
    <3> QED
      BY <1>3, <1>6, <2>4, <3>2, <3>3, RelayedCode DEF heard
  <2> QED
    BY <2>1, <2>2, <2>3, <2>4, Outcomes
<1> QED
  BY <1>4, <1>5, <1>6, Outcomes

\* What is told as done is done, but for the refusals without a status.
THEOREM SuccessesTheorem == Spec => []SuccessesAreEarned
<1>1. Init => SuccessesAreEarned
  <2>1. ASSUME input \in RequestInputs
        PROVE  Gate!SuccessIsEarned(input.request)
    BY <2>1, RequestTheorem DEF RequestInputs
  <2>2. Init => input \in RequestInputs \/ input.kind # "request"
    BY DEF Init, ChunkInputs, QueryInputs, GraphInputs, PipelineInputs, ServiceInputs
  <2> QED
    BY <2>1, <2>2 DEF SuccessesAreEarned
<1>2. SuccessesAreEarned /\ [Next]_input => SuccessesAreEarned'
  BY DEF Next, SuccessesAreEarned
<1> QED
  BY <1>1, <1>2, PTL DEF Spec

-----------------------------------------------------------------------------
(* Sums over sets.                                                         *)

\* A family of subsets of a finite set has one that contains no other.
LEMMA SmallestSubset ==
  ASSUME NEW S, IsFiniteSet(S), NEW T, T \subseteq SUBSET S, T # {}
  PROVE  \E s \in T : \A t \in T : t \subseteq s => t = s
<1>1. IsWellFoundedOn(StrictSubsetOrdering(S), SUBSET S)
  BY FS_StrictSubsetOrderingWellFounded, FS_FiniteSubsetsOfFinite
<1>2. PICK s \in T : \A t \in T : ~ (<<t, s>> \in StrictSubsetOrdering(S))
  BY <1>1, WFMin
<1>3. ASSUME NEW t \in T, t \subseteq s, t # s
      PROVE  FALSE
  BY <1>2, <1>3 DEF StrictSubsetOrdering
<1> QED
  BY <1>3

\* The weight of a field that is in a set.
WeightIn(fields, f) == IF f \in fields THEN Weight[f] ELSE 0
WeightOf(fields) ==
  WeightIn(fields, "document_type") + WeightIn(fields, "people") + WeightIn(fields, "description")

\* Summing a set of fields up in any order gives the weights of those in it.
LEMMA Weighs ==
  ASSUME NEW fields \in SUBSET Field
  PROVE  MapThenSumSet(LAMBDA f : Weight[f], fields) = WeightOf(fields)
<1> DEFINE one(s) == CHOOSE x \in s : TRUE
           Sum(g) == [s \in SUBSET fields |->
                        IF s = {} THEN 0 ELSE Weight[one(s)] + g[s \ {one(s)}]]
           sum == CHOOSE g : g = Sum(g)
           all == [s \in SUBSET fields |-> WeightOf(s)]
<1>1. MapThenSumSet(LAMBDA f : Weight[f], fields) = sum[fields]
  BY DEF MapThenSumSet, MapThenFoldSet
<1>2. \A s \in SUBSET fields : s # {} => one(s) \in s
  OBVIOUS
<1>3. \A f \in Field : Weight[f] \in Nat
  BY PipelineAssumption
<1> HIDE DEF one
<1>4. ASSUME NEW s \in SUBSET fields, s # {}
      PROVE  WeightOf(s) = Weight[one(s)] + WeightOf(s \ {one(s)})
  <2>1. one(s) \in s /\ one(s) \in Field
    BY <1>2, <1>4
  <2> QED
    BY <1>3, <2>1 DEF WeightOf, WeightIn, Field
<1>5. WeightOf({}) = 0
  BY DEF WeightOf, WeightIn
<1>6. all = Sum(all)
  BY <1>4, <1>5
<1>7. sum = Sum(sum)
  BY <1>6
<1> HIDE DEF sum
<1> DEFINE Wrong == {s \in SUBSET fields : sum[s] # WeightOf(s)}
<1>8. Wrong = {}
  <2> SUFFICES ASSUME Wrong # {}
               PROVE  FALSE
    OBVIOUS
  <2>1. IsFiniteSet(fields)
    <3>1. IsFiniteSet({"document_type", "people", "description"})
      <4>1. {"document_type", "people", "description"}
              = (({} \cup {"document_type"}) \cup {"people"}) \cup {"description"}
        OBVIOUS
      <4>2. IsFiniteSet({} \cup {"document_type"})
        BY FS_EmptySet, FS_AddElement
      <4>3. IsFiniteSet(({} \cup {"document_type"}) \cup {"people"})
        BY <4>2, FS_AddElement
      <4>4. IsFiniteSet((({} \cup {"document_type"}) \cup {"people"}) \cup {"description"})
        BY <4>3, FS_AddElement
      <4> QED
        BY <4>1, <4>4
    <3> QED
      BY <3>1, FS_Subset DEF Field
  <2>2. PICK s \in Wrong : \A t \in Wrong : t \subseteq s => t = s
    <3>1. Wrong \subseteq SUBSET fields
      OBVIOUS
    <3> HIDE DEF Wrong
    <3> QED
      BY <2>1, <3>1, SmallestSubset
  <2>3. sum[s] = IF s = {} THEN 0 ELSE Weight[one(s)] + sum[s \ {one(s)}]
    BY <1>7
  <2>4. s # {} => s \ {one(s)} \in SUBSET fields /\ s \ {one(s)} # s
    BY <1>2
  <2>5. s # {} => sum[s \ {one(s)}] = WeightOf(s \ {one(s)})
    BY <2>2, <2>4
  <2> QED
    BY <1>4, <1>5, <2>3, <2>5
<1> QED
  BY <1>1, <1>8

\* Without a field there is no weight, and with all of them there is some.
LEMMA WeighsSome ==
  /\ MapThenSumSet(LAMBDA f : Weight[f], {}) = 0
  /\ MapThenSumSet(LAMBDA f : Weight[f], Field) \in Nat \ {0}
<1>1. WeightOf({}) = 0
  BY DEF WeightOf, WeightIn
<1>2. WeightOf(Field) \in Nat \ {0}
  BY PipelineAssumption DEF WeightOf, WeightIn, Field
<1> QED
  BY <1>1, <1>2, Weighs

-----------------------------------------------------------------------------
(* What a call of the pipeline reports.                                    *)

\* What a call of the pipeline meets: a file of any pages, if it can be opened,
\* fields that the patterns match, and at most one result of the combined pass.
PossibleCall(call) ==
  /\ call.asked \subseteq Contract!Step
  /\ call.file = {} \/ \E f \in Seq(Page) : call.file = {f}
  /\ call.found \subseteq Field
  /\ call.pass = {} \/ \E p : call.pass = {p}

\* Pages without text raise one flag, and there are none if the file cannot be
\* opened.  Where there is no flag, there is text.
LEMMA ExtractionFlagged ==
  ASSUME NEW call, PossibleCall(call)
  PROVE  /\ ExtractionFlags(call) # {} =>
              /\ Asks(call, "text_extraction") /\ call.file # {}
              /\ \E flag : ExtractionFlags(call) = {flag}
         /\ ExtractionFlags(call) = {} /\ Asks(call, "text_extraction") /\ call.file # {} =>
              Pages(call) # {}
         /\ ~ (Asks(call, "text_extraction") /\ call.file # {}) => Pages(call) = {}
<1>1. CASE ~Asks(call, "text_extraction") \/ call.file = {}
  BY <1>1 DEF ExtractionFlags, Pages
<1>2. CASE Asks(call, "text_extraction") /\ call.file # {}
  <2>1. PICK f \in Seq(Page) : call.file = {f}
    BY <1>2 DEF PossibleCall
  <2>2. Pages(call) = ToSet(f)
    BY <1>2, <2>1 DEF Pages
  <2>3. CASE f = <<>> \/ "blank" \in ToSet(f)
    <3>1. {g \in call.file : g = <<>> \/ "blank" \in ToSet(g)} = {f}
      BY <2>1, <2>3
    <3>2. ExtractionFlags(call) =
            {IF ToSet(pages) \subseteq {"blank"} THEN "extraction_failure" ELSE "partial_extraction" :
               pages \in {f}}
      BY <1>2, <3>1 DEF ExtractionFlags
    <3>3. ExtractionFlags(call) =
            {IF ToSet(f) \subseteq {"blank"} THEN "extraction_failure" ELSE "partial_extraction"}
      BY <3>2
    <3> QED
      BY <1>2, <3>3
  <2>4. CASE ~ (f = <<>> \/ "blank" \in ToSet(f))
    <3>1. ExtractionFlags(call) = {}
      BY <1>2, <2>1, <2>4 DEF ExtractionFlags
    <3>2. f[1] \in ToSet(f)
      BY <2>4 DEF ToSet
    <3> QED
      BY <1>2, <2>2, <3>1, <3>2
  <2> QED
    BY <2>3, <2>4
<1> QED
  BY <1>1, <1>2

\* Two scores that fail make one flag.
LEMMA ScoresFlagged ==
  ASSUME NEW call
  PROVE  /\ ScoreFlags(call) # {} <=> QualityFails(call) \/ CompletenessFails(call)
         /\ ScoreFlags(call) # {} => \E flag : ScoreFlags(call) = {flag}
<1>1. QualityFails(call) \in BOOLEAN /\ CompletenessFails(call) \in BOOLEAN
  BY DEF QualityFails, CompletenessFails, Asks
<1>2. CASE QualityFails(call) /\ CompletenessFails(call)
  BY <1>2 DEF ScoreFlags
<1>3. CASE QualityFails(call) /\ ~CompletenessFails(call)
  BY <1>3 DEF ScoreFlags
<1>4. CASE ~QualityFails(call) /\ CompletenessFails(call)
  BY <1>4 DEF ScoreFlags
<1>5. CASE ~QualityFails(call) /\ ~CompletenessFails(call)
  BY <1>5 DEF ScoreFlags
<1> QED
  BY <1>1, <1>2, <1>3, <1>4, <1>5

\* Nothing that is found cannot be complete.
LEMMA NothingIsIncomplete ==
  ASSUME NEW call, Asks(call, "metadata_completeness_scoring"), Found(call) = {}
  PROVE  CompletenessFails(call)
<1> DEFINE some == MapThenSumSet(LAMBDA f : Weight[f], {})
           every == MapThenSumSet(LAMBDA f : Weight[f], Field)
<1>1. some = 0 /\ every \in Nat \ {0}
  BY WeighsSome
<1>2. CompletenessFails(call) <=> 100 * some < Threshold * every
  BY DEF CompletenessFails
<1> HIDE DEF some, every
<1>3. Threshold \in Nat \ {0}
  BY PipelineAssumption
<1>4. ASSUME NEW x \in Nat \ {0}, NEW y \in Nat \ {0}
      PROVE  x * y > 0
  BY <1>4
<1> QED
  BY <1>1, <1>2, <1>3, <1>4

\* There are embeddings only if they are asked for, and so is the combined pass.
LEMMA PassedOn ==
  ASSUME NEW call
  PROVE  /\ Embeds(call) <=> /\ {"embedding_generation", "llm_combined_pass"} \subseteq call.asked
                              /\ call.pass # {}
         /\ Embedded(call) # {} => Embeds(call)
<1>1. Pass(call) # {} <=> "llm_combined_pass" \in call.asked /\ call.pass # {}
  BY DEF Pass, Asks
<1>2. Embedded(call) # {} => Asks(call, "embedding_generation") /\ Pass(call) # {}
  BY DEF Embedded
<1> QED
  BY <1>1, <1>2 DEF Embeds, Asks

\* A call reports only what Pipeline lets it report, with one flag at most.
THEOREM PipelineTheorem ==
  ASSUME NEW call, PossibleCall(call)
  PROVE  ReportsAreAllowed(call)
<1>0. PostAccepted(call) \/ Contract!MayRaise(call.asked)
  BY DEF PostAccepted, Carried, Pass, Asks, Contract!MayRaise
<1>1. Cardinality(Response(call).flags) <= 1
  <2>1. \A flag : Cardinality({}) = 0 /\ Cardinality({flag}) = 1
    BY FS_EmptySet, FS_Singleton
  <2>2. \/ Response(call).flags = ExtractionFlags(call)
        \/ ExtractionFlags(call) = {} /\ Response(call).flags = ScoreFlags(call)
    BY DEF Response, HaltedResponse, FullResponse
  <2>3. Response(call).flags = {} \/ \E flag : Response(call).flags = {flag}
    BY <2>2, ExtractionFlagged, ScoresFlagged
  <2> QED
    BY <2>1, <2>3
<1>2. CASE ExtractionFlags(call) # {}
  <2>1. Asks(call, "text_extraction") /\ call.file # {}
    BY <1>2, ExtractionFlagged
  <2>2. Response(call) = HaltedResponse(call)
    BY <1>2 DEF Response
  <2>3. Reported(call) = [results |-> [s \in {"text_extraction"} |-> Status(call, s)],
                          flagged |-> TRUE, embedded |-> FALSE]
    <3>1. /\ Response(call).steps = {"text_extraction"} /\ Response(call).chunks = {}
          /\ Response(call).flags # {}
      BY <1>2, <2>2 DEF HaltedResponse
    <3>2. (Response(call).flags # {}) = TRUE /\ (Response(call).chunks # {}) = FALSE
      BY <3>1
    <3>3. Reported(call) = [results |-> [s \in Response(call).steps |-> Status(call, s)],
                            flagged |-> Response(call).flags # {},
                            embedded |-> Response(call).chunks # {}]
      BY DEF Reported
    <3> QED
      BY <3>1, <3>2, <3>3
  <2>4. Status(call, "text_extraction") = "completed"
    BY <2>1 DEF Status
  <2>5. [s \in {"text_extraction"} |-> Status(call, s)] = [s \in {"text_extraction"} |-> "completed"]
    BY <2>4
  <2>6. "text_extraction" \in call.asked \cap {"text_extraction"}
    BY <2>1 DEF Asks
  <2>7. Reported(call) \in Contract!HaltedReports(call.asked)
    BY <2>3, <2>5, <2>6 DEF Contract!HaltedReports
  <2> QED
    BY <1>0, <1>1, <2>7 DEF ReportsAreAllowed, Contract!Reports
<1>3. CASE ExtractionFlags(call) = {}
  <2> DEFINE outcome == [s \in Contract!Fallible |-> Status(call, s)]
             fails == ScoreFlags(call) # {}
             ran == Contract!ReportedSteps(call.asked, outcome)
             text == Contract!HasText(call.asked, outcome)
  <2>1. /\ outcome \in Contract!Outcome
        /\ outcome["text_extraction"] = "completed" <=> call.file # {}
        /\ outcome["llm_combined_pass"] = "completed" <=> call.pass # {}
        /\ outcome["embedding_generation"] = "completed" <=> Embedded(call) # {}
    BY DEF Status, Contract!Outcome, Contract!Fallible
  <2> HIDE DEF outcome
  <2>2. Response(call) = FullResponse(call)
    BY <1>3 DEF Response
  <2>3. Response(call).steps = ran
    <3>1. Response(call).steps =
            IF Embeds(call) THEN call.asked ELSE call.asked \ {"embedding_generation"}
      BY <2>2 DEF FullResponse
    <3> QED
      BY <2>1, <3>1, PassedOn DEF Contract!ReportedSteps
  <2>4. ran \subseteq Contract!Step
    BY DEF Contract!ReportedSteps, PossibleCall
  <2>5. [s \in ran |-> Status(call, s)] = Contract!Statuses(call.asked, outcome)
    <3>1. ASSUME NEW s \in ran
          PROVE  Status(call, s) = IF s \in Contract!Fallible THEN outcome[s] ELSE "completed"
      BY <2>4 DEF Status, outcome, Contract!Fallible
    <3> QED
      BY <3>1 DEF Contract!Statuses
  <2>6. Response(call).flags = ScoreFlags(call)
    BY <1>3, <2>2 DEF FullResponse
  <2>7. Response(call).chunks # {} <=>
          /\ "embedding_generation" \in ran
          /\ outcome["embedding_generation"] = "completed"
    <3>1. Response(call).chunks = Embedded(call)
      BY <2>2 DEF FullResponse
    <3> QED
      BY <2>1, <3>1, PassedOn DEF Contract!ReportedSteps
  <2>8. Reported(call) = Contract!FullReport(call.asked, outcome, fails)
    BY <2>3, <2>5, <2>6, <2>7 DEF Reported, Contract!FullReport
  <2>9. fails \in Contract!MayFail(call.asked, text)
    <3>1. text <=> Asks(call, "text_extraction") /\ call.file # {}
      BY <2>1 DEF Contract!HasText, Asks
    <3>2. text <=> Pages(call) # {}
      BY <1>3, <3>1, ExtractionFlagged
    <3>3. fails <=> QualityFails(call) \/ CompletenessFails(call)
      BY ScoresFlagged
    <3>4. CASE call.asked \cap {"text_quality_scoring", "metadata_completeness_scoring"} = {}
      <4>1. ~QualityFails(call) /\ ~CompletenessFails(call)
        BY <3>4 DEF QualityFails, CompletenessFails, Asks
      <4> QED
        BY <3>3, <3>4, <4>1 DEF Contract!MayFail
    <3>5. CASE "text_quality_scoring" \in call.asked /\ ~text
      <4>1. QualityFails(call)
        BY <3>2, <3>5 DEF QualityFails, Asks
      <4> QED
        BY <3>3, <3>5, <4>1 DEF Contract!MayFail
    <3>6. CASE /\ "metadata_completeness_scoring" \in call.asked
               /\ ~text \/ "pattern_metadata_extraction" \notin call.asked
      <4>1. Found(call) = {}
        BY <3>2, <3>6 DEF Found, Asks
      <4>2. CompletenessFails(call)
        BY <3>6, <4>1, NothingIsIncomplete DEF Asks
      <4> QED
        BY <3>3, <3>6, <4>2 DEF Contract!MayFail
    <3>7. fails \in BOOLEAN
      OBVIOUS
    <3> HIDE DEF fails, text
    <3> QED
      BY <3>4, <3>5, <3>6, <3>7 DEF Contract!MayFail
  <2>10. Reported(call) \in Contract!FullReports(call.asked)
    BY <2>1, <2>8, <2>9 DEF Contract!FullReports
  <2> QED
    BY <1>0, <1>1, <2>10 DEF ReportsAreAllowed, Contract!Reports
<1> QED
  BY <1>2, <1>3

\* A report that could be posted is not refused when it comes again in the answer
\* of the call, and repeats what the POST has said, whatever rows it finds.
THEOREM RepeatTheorem ==
  ASSUME NEW call, NEW rows
  PROVE  AnswersRepeatPosts(call, rows)
<1>1. PostAccepted(call) => AnswerAccepted(call)
  BY DEF PostAccepted, AnswerAccepted, TokenCount
<1> DEFINE response == Response(call)
           once(row) == Applied(row, Posted(response))
           twice(row) == Applied(once(row), Answered(response))
<1>2. ASSUME NEW row \in rows
      PROVE  \/ twice(row) = once(row)
             \/ /\ once(row).documentType = Empty
                /\ twice(row) = [once(row) EXCEPT !.documentType = Null]
  <2>1. CASE response.metadata = {}
    BY <2>1 DEF Applied, Answered
  <2>2. CASE response.metadata # {}
    <3>1. response = FullResponse(call)
      BY <2>2 DEF Response, HaltedResponse
    <3>2. PICK t \in {"pattern", Null}, p \in {"pattern", Empty}, d \in {"llm", "pattern", Null} :
            response.metadata = {[documentType |-> t, people |-> p, description |-> d]}
      BY <3>1 DEF FullResponse, Description
    <3> DEFINE m == [documentType |-> t, people |-> p, description |-> d]
               posted == [documentType |-> IF t = Null THEN Empty ELSE t, people |-> p,
                          description |-> IF d = Null THEN Empty ELSE d]
               kept == IF d = Null THEN row.description ELSE d
    <3>3. Filled(m) = posted
      BY DEF Filled, Null, Empty
    <3>4. Posted(response) = {posted} /\ Answered(response) = {m}
      BY <3>2, <3>3 DEF Posted, Answered
    <3>5. once(row) = [posted EXCEPT !.description = kept]
      BY <3>4 DEF Applied, Null, Empty
    <3>6. once(row) = [documentType |-> IF t = Null THEN Empty ELSE t, people |-> p, description |-> kept]
      BY <3>5
    <3> HIDE DEF once
    <3>7. twice(row) = [m EXCEPT !.description = kept]
      BY <3>4, <3>6 DEF Applied, Null, Empty
    <3>8. twice(row) = [documentType |-> t, people |-> p, description |-> kept]
      BY <3>7
    <3> HIDE DEF twice, kept
    <3> QED
      BY <3>6, <3>8
  <2> QED
    BY <2>1, <2>2
<1> QED
  BY <1>1, <1>2 DEF AnswersRepeatPosts

\* The sequences up to a length are sequences.
LEMMA BoundedAreSequences ==
  ASSUME NEW S, NEW n
  PROVE  BoundedSeq(S, n) \subseteq Seq(S)
BY DEF BoundedSeq, SeqOf

\* The inputs of the runs are calls of that kind, so what each reports is known.
THEOREM ReportsTheorem == Spec => []ReportsAreKnown
<1>1. ASSUME input \in PipelineInputs
      PROVE  PossibleCall(input)
  <2>1. BoundedSeq(Page, MaxPages) \subseteq Seq(Page)
    BY BoundedAreSequences
  <2>2. input.file = {} \/ \E f \in Seq(Page) : input.file = {f}
    BY <1>1, <2>1 DEF PipelineInputs
  <2>3. input.pass = {} \/ \E p : input.pass = {p}
    BY <1>1 DEF PipelineInputs
  <2> QED
    BY <1>1, <2>2, <2>3 DEF PipelineInputs, PossibleCall, Field
<1>2. Init => ReportsAreKnown
  <2>1. Init => input \in PipelineInputs \/ input.kind # "pipeline"
    BY DEF Init, ChunkInputs, QueryInputs, GraphInputs, ServiceInputs, RequestInputs
  <2> QED
    BY <1>1, <2>1, PipelineTheorem, RepeatTheorem DEF ReportsAreKnown
<1>3. ReportsAreKnown /\ [Next]_input => ReportsAreKnown'
  BY DEF Next, ReportsAreKnown
<1> QED
  BY <1>2, <1>3, PTL DEF Spec

-----------------------------------------------------------------------------
(* The size of a context.                                                  *)

\* Results have a score and a length.
AreResults(Item) == \A r \in Item : r.score \in Nat /\ r.length \in Nat

\* A text has a number of tokens.
LEMMA TokensCount ==
  ASSUME NEW r, r.length \in Nat
  PROVE  Tokens(r) \in Nat
<1> DEFINE x == r.length
<1>1. x \in Nat
  OBVIOUS
<1> HIDE DEF x
<1>2. x \div 4 \in Nat
  BY <1>1
<1> QED
  BY <1>2 DEF Tokens, x

\* The sum over a sequence is the end of its partial sums.
LEMMA TokensRun ==
  ASSUME NEW n \in Nat, NEW seq, DOMAIN seq = 1..n, \A i \in 1..n : seq[i].length \in Nat
  PROVE  \E run \in [0..n -> Nat] :
           /\ run[0] = 0 /\ run[n] = TotalTokens(seq)
           /\ \A k \in 1..n : run[k] = run[k - 1] + Tokens(seq[k])
<1> DEFINE step == [p \in Nat \X (1..n) |-> p[1] + Tokens(seq[p[2]])]
           G(f) == [s \in SUBSET DOMAIN seq |->
                      IF s = {} THEN 0 ELSE f[s \ {Max(s)}] + Tokens(seq[Max(s)])]
           g == CHOOSE f : f = G(f)
<1>1. TotalTokens(seq) = g[DOMAIN seq]
  BY DEF TotalTokens, FoldLeft, MapThenFoldSet
<1>2. \A i \in 1..n : Tokens(seq[i]) \in Nat
  BY DEF Tokens
<1>3. step \in [Nat \X (1..n) -> Nat]
  BY <1>2
<1>4. \A s \in SUBSET (1..n) : s # {} => Max(s) \in 1..n /\ s \ {Max(s)} \in SUBSET (1..n)
  BY LargestExists
<1>5. PICK f \in [SUBSET (1..n) -> Nat] : Folded(n, 0, step, f)
  BY <1>3, FoldExists DEF Foldable
<1>6. f = G(f)
  <2>1. ASSUME NEW s \in SUBSET (1..n)
        PROVE  f[s] = IF s = {} THEN 0 ELSE f[s \ {Max(s)}] + Tokens(seq[Max(s)])
    BY <1>4, <1>5 DEF Folded
  <2> QED
    BY <2>1
<1>7. g = G(g)
  BY <1>6
<1> HIDE DEF g
<1>8. g[{}] = 0
  BY <1>7
<1>9. ASSUME NEW s \in SUBSET (1..n), s # {}, g[s \ {Max(s)}] \in Nat
      PROVE  g[s] = step[<<g[s \ {Max(s)}], Max(s)>>]
  BY <1>4, <1>7, <1>9
<1>10. PICK run \in [0..n -> Nat] : Running(n, 0, step, run) /\ run[n] = g[1..n]
  <2> DEFINE V == Nat
             base == 0
  <2>1. \A s \in SUBSET (1..n) :
          s # {} /\ g[s \ {Max(s)}] \in V => g[s] = step[<<g[s \ {Max(s)}], Max(s)>>]
    BY <1>9
  <2>2. base \in V /\ step \in [V \X (1..n) -> V]
    BY <1>3
  <2> HIDE DEF step, G
  <2>3. Folding(n, V, base, step, g)
    BY <1>8, <2>1 DEF Folding
  <2>4. Ends(n, V, base, step, g[1..n])
    <3> HIDE DEF V, base
    <3> QED
      BY <2>2, <2>3, FoldRuns
  <2> QED
    BY <2>4 DEF Ends
<1>11. ASSUME NEW k \in 1..n
       PROVE  run[k] = run[k - 1] + Tokens(seq[k])
  <2>1. run[k - 1] \in Nat
    OBVIOUS
  <2>2. run[k] = step[<<run[k - 1], k>>]
    <3> HIDE DEF step, G
    <3> QED
      BY <1>10 DEF Running
  <2> QED
    BY <2>1, <2>2
<1> QED
  BY <1>1, <1>10, <1>11 DEF Running

\* There are no other partial sums.
LEMMA SumsAgree ==
  ASSUME NEW n \in Nat, NEW w \in [1..n -> Nat], NEW f \in [0..n -> Nat], NEW g \in [0..n -> Nat],
         f[0] = g[0], \A k \in 1..n : f[k] = f[k - 1] + w[k],
         \A k \in 1..n : g[k] = g[k - 1] + w[k]
  PROVE  f[n] = g[n]
<1> DEFINE T == {m \in Nat : m <= n => f[m] = g[m]}
<1>1. 0 \in T
  OBVIOUS
<1>2. ASSUME NEW m \in Nat, m \in T
      PROVE  m + 1 \in T
  <2> SUFFICES ASSUME m + 1 <= n
               PROVE  f[m + 1] = g[m + 1]
    OBVIOUS
  <2>1. m + 1 \in 1..n /\ (m + 1) - 1 = m /\ f[m] = g[m]
    BY <1>2
  <2>2. f[m + 1] = f[m] + w[m + 1] /\ g[m + 1] = g[m] + w[m + 1]
    BY <2>1
  <2> QED
    BY <2>1, <2>2
<1>3. n \in T
  <2> HIDE DEF T
  <2> QED
    BY <1>1, <1>2, EveryNumber
<1> QED
  BY <1>3

\* With each result the size of a context grows by its tokens.
LEMMA TokensGrow ==
  ASSUME NEW Item, AreResults(Item), NEW seq \in Seq(Item), NEW k \in 0..Len(seq)
  PROVE  /\ TotalTokens(SubSeq(seq, 1, k)) \in Nat
         /\ k = 0 => TotalTokens(SubSeq(seq, 1, k)) = 0
         /\ k < Len(seq) =>
              TotalTokens(SubSeq(seq, 1, k + 1)) = TotalTokens(SubSeq(seq, 1, k)) + Tokens(seq[k + 1])
<1> DEFINE part(m) == SubSeq(seq, 1, m)
           Adds(m, run) == /\ run[0] = 0 /\ run[m] = TotalTokens(part(m))
                           /\ \A i \in 1..m : run[i] = run[i - 1] + Tokens(seq[i])
<1>1. ASSUME NEW m \in 0..Len(seq)
      PROVE  \E run \in [0..m -> Nat] : Adds(m, run)
  <2>1. DOMAIN part(m) = 1..m /\ m \in Nat /\ \A i \in 1..m : part(m)[i] = seq[i] /\ seq[i] \in Item
    OBVIOUS
  <2> HIDE DEF part
  <2>2. \A i \in 1..m : part(m)[i].length \in Nat
    BY <2>1 DEF AreResults
  <2>3. PICK run \in [0..m -> Nat] :
          /\ run[0] = 0 /\ run[m] = TotalTokens(part(m))
          /\ \A i \in 1..m : run[i] = run[i - 1] + Tokens(part(m)[i])
    BY <2>1, <2>2, TokensRun
  <2> QED
    BY <2>1, <2>3
<1>2. k \in Nat /\ k \in 0..Len(seq)
  OBVIOUS
<1>3. PICK run \in [0..k -> Nat] : Adds(k, run)
  BY <1>1, <1>2
<1>4. CASE k = Len(seq)
  BY <1>2, <1>3, <1>4
<1>5. CASE k < Len(seq)
  <2>1. k + 1 \in 0..Len(seq)
    BY <1>2, <1>5
  <2>2. PICK longer \in [0..(k + 1) -> Nat] : Adds(k + 1, longer)
    BY <1>1, <2>1
  <2> DEFINE w == [i \in 1..k |-> Tokens(seq[i])]
             g == [i \in 0..k |-> longer[i]]
  <2>3. \A i \in 1..k : Tokens(seq[i]) \in Nat
    <3> SUFFICES ASSUME NEW i \in 1..k
                 PROVE  Tokens(seq[i]) \in Nat
      OBVIOUS
    <3>1. seq[i] \in Item
      BY <1>2
    <3>2. seq[i].length \in Nat
      BY <3>1 DEF AreResults
    <3> QED
      BY <3>2, TokensCount
  <2>4. w \in [1..k -> Nat] /\ \A i \in 1..k : run[i] = run[i - 1] + w[i]
    BY <1>3, <2>3
  <2>5. g \in [0..k -> Nat]
    BY <1>2
  <2>6. \A i \in 1..k : g[i] = g[i - 1] + w[i]
    <3> SUFFICES ASSUME NEW i \in 1..k
                 PROVE  g[i] = g[i - 1] + w[i]
      OBVIOUS
    <3>1. i \in 1..(k + 1) /\ i \in 0..k /\ i - 1 \in 0..k
      BY <1>2
    <3> QED
      BY <2>2, <3>1
  <2>7. run[0] = g[0]
    BY <1>2, <1>3, <2>2
  <2>8. run[k] = g[k]
    <3> HIDE DEF w, g
    <3> QED
      BY <1>2, <2>4, <2>5, <2>6, <2>7, SumsAgree
  <2>9. longer[k + 1] = longer[k] + Tokens(seq[k + 1])
    BY <1>2, <2>2
  <2>10. longer[k] = run[k]
    BY <1>2, <2>8
  <2> QED
    BY <1>2, <1>3, <2>2, <2>9, <2>10
<1> QED
  BY <1>2, <1>4, <1>5

-----------------------------------------------------------------------------
(* The context of a query.                                                 *)

\* The order by score, equal ones by position.
LEMMA ScoresOrder ==
  ASSUME NEW D \in SUBSET Nat, NEW score \in [D -> Nat], NEW R,
         \A x, y \in D : <<x, y>> \in R <=> score[x] > score[y] \/ (score[x] = score[y] /\ x < y)
  PROVE  Orders(R, D)
<1>1. \A x \in D : x \in Nat /\ score[x] \in Nat
  OBVIOUS
<1>2. ASSUME NEW x \in D, NEW y \in D
      PROVE  /\ <<x, y>> \in R => <<y, x>> \notin R
             /\ x = y \/ <<x, y>> \in R \/ <<y, x>> \in R
  <2>1. /\ x \in Nat /\ score[x] \in Nat /\ y \in Nat /\ score[y] \in Nat
        /\ <<x, y>> \in R <=> score[x] > score[y] \/ (score[x] = score[y] /\ x < y)
        /\ <<y, x>> \in R <=> score[y] > score[x] \/ (score[y] = score[x] /\ y < x)
    BY <1>1
  <2> QED
    BY <2>1
<1>3. ASSUME NEW x \in D, NEW y \in D, NEW z \in D, <<x, y>> \in R, <<y, z>> \in R
      PROVE  <<x, z>> \in R
  <2>1. /\ x \in Nat /\ score[x] \in Nat /\ y \in Nat /\ score[y] \in Nat
        /\ z \in Nat /\ score[z] \in Nat
        /\ score[x] > score[y] \/ (score[x] = score[y] /\ x < y)
        /\ score[y] > score[z] \/ (score[y] = score[z] /\ y < z)
        /\ score[x] > score[z] \/ (score[x] = score[z] /\ x < z) => <<x, z>> \in R
    BY <1>1, <1>3
  <2> QED
    BY <2>1
<1> QED
  BY <1>2, <1>3 DEF Orders

\* Sorted by score, the results are still the same, each as often as before.
LEMMA ByScoreSorts ==
  ASSUME NEW Item, AreResults(Item), NEW results \in Seq(Item)
  PROVE  LET sorted == ByScore(results) IN
         /\ sorted \in Seq(Item) /\ Len(sorted) = Len(results)
         /\ ToSet(sorted) = ToSet(results)
         /\ \A i, j \in 1..Len(results) : i < j => sorted[i].score >= sorted[j].score
         /\ IsInjective(results) => IsInjective(sorted)
<1> DEFINE D == DOMAIN results
           n == Len(results)
           R == {p \in D \X D : \/ results[p[1]].score > results[p[2]].score
                                \/ results[p[1]].score = results[p[2]].score /\ p[1] < p[2]}
           order == ByRank(R, D)
           sorted == ByScore(results)
<1>1. D = 1..n /\ n \in Nat /\ \A i \in D : results[i] \in Item /\ results[i].score \in Nat
  BY DEF AreResults
<1>2. IsFiniteSet(D) /\ Cardinality(D) = n
  BY <1>1, FS_Interval
<1>3. \A x, y \in D : <<x, y>> \in R <=> \/ results[x].score > results[y].score
                                         \/ results[x].score = results[y].score /\ x < y
  OBVIOUS
<1>4. Orders(R, D)
  <2> HIDE DEF R
  <2> DEFINE score == [x \in D |-> results[x].score]
  <2>1. D \subseteq Nat /\ score \in [D -> Nat]
    BY <1>1
  <2>2. \A x, y \in D : <<x, y>> \in R <=> score[x] > score[y] \/ (score[x] = score[y] /\ x < y)
    BY <1>3
  <2> HIDE DEF D, score
  <2> QED
    BY <2>1, <2>2, ScoresOrder
<1>5. sorted = [k \in 1..n |-> results[order[k]]]
  <2>1. \A x \in D : Below(R, D, x) = {y \in D : \/ results[y].score > results[x].score
                                                 \/ results[y].score = results[x].score /\ y < x}
    BY <1>3 DEF Below
  <2> DEFINE o == [k \in 1..Cardinality(D) |->
                     CHOOSE x \in D : Cardinality({y \in D :
                       \/ results[y].score > results[x].score
                       \/ results[y].score = results[x].score /\ y < x}) = k - 1]
  <2>2. o = order
    <3>1. \A x \in D : \A k \in Nat :
            Cardinality(Below(R, D, x)) = k - 1 <=>
            Cardinality({y \in D : \/ results[y].score > results[x].score
                                   \/ results[y].score = results[x].score /\ y < x}) = k - 1
      BY <2>1
    <3>2. Cardinality(D) = n /\ n \in Nat
      BY <1>1, <1>2
    <3>3. \A k \in 1..n : order[k] = CHOOSE x \in D : Cardinality(Below(R, D, x)) = k - 1
      BY <3>2 DEF ByRank
    <3>4. \A k \in 1..n : o[k] = order[k]
      <4> SUFFICES ASSUME NEW k \in 1..n
                   PROVE  o[k] = order[k]
        OBVIOUS
      <4>1. \A x \in D : Cardinality(Below(R, D, x)) = k - 1 <=>
              Cardinality({y \in D : \/ results[y].score > results[x].score
                                     \/ results[y].score = results[x].score /\ y < x}) = k - 1
        BY <2>1
      <4> HIDE DEF R, D
      <4>2. (CHOOSE x \in D : Cardinality(Below(R, D, x)) = k - 1) =
            (CHOOSE x \in D : Cardinality({y \in D :
                       \/ results[y].score > results[x].score
                       \/ results[y].score = results[x].score /\ y < x}) = k - 1)
        BY <4>1
      <4> QED
        BY <3>2, <3>3, <4>2
    <3>5. DOMAIN o = 1..n /\ DOMAIN order = 1..n
      BY <3>2 DEF ByRank
    <3> QED
      BY <3>4, <3>5 DEF ByRank
  <2>3. sorted = [k \in DOMAIN o |-> results[o[k]]]
    BY DEF ByScore, Sorted
  <2>4. DOMAIN order = 1..n
    BY <1>2 DEF ByRank
  <2> HIDE DEF o, order
  <2> QED
    BY <2>2, <2>3, <2>4
<1>6. /\ order \in [1..n -> D]
      /\ \A x \in D : \E k \in 1..n : order[k] = x
      /\ \A i, j \in 1..n : i < j => <<order[i], order[j]>> \in R
  <2> HIDE DEF R, D, order
  <2> QED
    BY <1>2, <1>4, RanksSort DEF order
<1> HIDE DEF R, order, sorted
<1>7. sorted \in Seq(Item) /\ Len(sorted) = n
  <2>1. \A k \in 1..n : results[order[k]] \in Item
    BY <1>1, <1>6
  <2> QED
    BY <1>1, <1>5, <2>1
<1>8. ToSet(sorted) = ToSet(results)
  <2>1. \A k \in 1..n : sorted[k] = results[order[k]] /\ order[k] \in D
    BY <1>5, <1>6
  <2>2. ToSet(sorted) = {sorted[k] : k \in 1..n}
    BY <1>5 DEF ToSet
  <2>3. ToSet(results) = {results[x] : x \in D}
    BY DEF ToSet
  <2> HIDE DEF D
  <2> QED
    BY <1>6, <2>1, <2>2, <2>3
<1>9. \A i, j \in 1..n : i < j => sorted[i].score >= sorted[j].score
  <2> SUFFICES ASSUME NEW i \in 1..n, NEW j \in 1..n, i < j
               PROVE  sorted[i].score >= sorted[j].score
    OBVIOUS
  <2> DEFINE x == results[order[i]].score
             y == results[order[j]].score
  <2>1. order[i] \in D /\ order[j] \in D /\ <<order[i], order[j]>> \in R
    BY <1>6
  <2>2. x \in Nat /\ y \in Nat
    BY <1>1, <2>1
  <2>3. x > y \/ x = y
    BY <1>3, <2>1
  <2>4. sorted[i].score = x /\ sorted[j].score = y
    BY <1>5
  <2> HIDE DEF x, y
  <2> QED
    BY <2>2, <2>3, <2>4
<1>10. ASSUME IsInjective(results)
       PROVE  IsInjective(sorted)
  <2> SUFFICES ASSUME NEW i \in 1..n, NEW j \in 1..n, sorted[i] = sorted[j], i < j
               PROVE  FALSE
    BY <1>1, <1>5 DEF IsInjective
  <2>1. order[i] \in D /\ order[j] \in D /\ <<order[i], order[j]>> \in R
    BY <1>6
  <2>2. order[i] = order[j]
    BY <1>5, <1>10, <2>1 DEF IsInjective
  <2> QED
    BY <1>4, <2>1, <2>2 DEF Orders
<1> HIDE DEF n, D
<1> QED
  BY <1>7, <1>8, <1>9, <1>10 DEF n, sorted

\* How many of the best results are taken.
Fits(results, budget, k) == TotalTokens(SubSeq(ByScore(results), 1, k)) <= budget
IsCut(results, budget, k) ==
  /\ \A j \in 0..k : Fits(results, budget, j)
  /\ k < Len(results) => ~Fits(results, budget, k + 1)

IsContext(results, budget, k) ==
  /\ IsCut(results, budget, k)
  /\ AssembleContext(results, budget) =
       [chunks |-> SubSeq(ByScore(results), 1, k),
        total |-> TotalTokens(SubSeq(ByScore(results), 1, k)), truncated |-> k < Len(results)]

\* The context is a beginning of the sorted results that fits, and would not
\* with the next one.
LEMMA ContextIsCut ==
  ASSUME NEW Item, AreResults(Item), NEW results \in Seq(Item), NEW budget \in Nat
  PROVE  \E k \in 0..Len(results) : IsContext(results, budget, k)
<1> DEFINE sorted == ByScore(results)
           n == Len(results)
           T == {k \in 0..n : k = n \/ ~Fits(results, budget, k + 1)}
           taken == CHOOSE k \in 0..Len(sorted) :
                      /\ \A j \in 0..k : TotalTokens(SubSeq(sorted, 1, j)) <= budget
                      /\ k < Len(sorted) => ~ (TotalTokens(SubSeq(sorted, 1, k + 1)) <= budget)
<1>1. n \in Nat /\ Len(sorted) = n /\ sorted \in Seq(Item)
  BY ByScoreSorts
<1>2. Fits(results, budget, 0)
  <2>1. TotalTokens(SubSeq(sorted, 1, 0)) = 0
    <3> HIDE DEF sorted
    <3> QED
      BY <1>1, TokensGrow
  <2> QED
    BY <2>1 DEF Fits
<1>3. \E k \in 0..n : IsCut(results, budget, k)
  <2>1. T # {} /\ T \subseteq Nat
    BY <1>1
  <2>2. PICK k \in T : \A m \in T : k <= m
    <3> HIDE DEF T
    <3> QED
      BY <2>1, LeastNumber
  <2>3. k \in 0..n /\ (k < n => ~Fits(results, budget, k + 1))
    BY <1>1
  <2>4. ASSUME NEW j \in 0..k
        PROVE  Fits(results, budget, j)
    <3>1. CASE j = 0
      BY <1>2, <3>1
    <3>2. CASE j # 0
      <4>1. j - 1 \in 0..n /\ j - 1 < k /\ (j - 1) + 1 = j
        BY <1>1, <2>3, <3>2
      <4>2. j - 1 \notin T
        <5> HIDE DEF T
        <5> QED
          BY <2>2, <2>3, <4>1
      <4> QED
        BY <4>1, <4>2
    <3> QED
      BY <3>1, <3>2
  <2> QED
    BY <2>3, <2>4 DEF IsCut
<1>4. taken \in 0..n /\ IsCut(results, budget, taken)
  <2> DEFINE Cut(k) == /\ \A j \in 0..k : TotalTokens(SubSeq(sorted, 1, j)) <= budget
                       /\ k < Len(sorted) => ~ (TotalTokens(SubSeq(sorted, 1, k + 1)) <= budget)
  <2>1. \A k : Cut(k) <=> IsCut(results, budget, k)
    BY <1>1 DEF IsCut, Fits
  <2>2. taken = CHOOSE k \in 0..Len(sorted) : Cut(k)
    OBVIOUS
  <2> HIDE DEF Cut, taken
  <2> QED
    BY <1>1, <1>3, <2>1, <2>2
<1>5. AssembleContext(results, budget) =
        [chunks |-> SubSeq(sorted, 1, taken), total |-> TotalTokens(SubSeq(sorted, 1, taken)),
         truncated |-> taken < Len(sorted)]
  BY DEF AssembleContext
<1> HIDE DEF taken
<1>6. IsContext(results, budget, taken)
  BY <1>1, <1>4, <1>5 DEF IsContext
<1> QED
  BY <1>4, <1>6

\* The context stays within its budget and is as large as a selection of the
\* best results can be.
THEOREM ContextTheorem ==
  ASSUME NEW Item, AreResults(Item), NEW results \in Seq(Item), IsInjective(results),
         NEW budget \in Nat
  PROVE  ContextIsBest(results, budget)
<1> DEFINE sorted == ByScore(results)
           n == Len(results)
           context == AssembleContext(results, budget)
           taken == ToSet(context.chunks)
           left == ToSet(results) \ taken
<1>1. /\ n \in Nat /\ sorted \in Seq(Item) /\ Len(sorted) = n
      /\ ToSet(sorted) = ToSet(results)
      /\ \A i, j \in 1..n : i < j => sorted[i].score >= sorted[j].score
      /\ IsInjective(sorted)
  BY ByScoreSorts
<1>2. PICK k \in 0..n :
        /\ IsCut(results, budget, k)
        /\ context = [chunks |-> SubSeq(sorted, 1, k), total |-> TotalTokens(SubSeq(sorted, 1, k)),
                      truncated |-> k < n]
  BY ContextIsCut DEF IsContext
<1>3. context.chunks = SubSeq(sorted, 1, k) /\ context.truncated = (k < n)
  BY <1>2
<1> HIDE DEF sorted, context, n
<1>4. taken = {sorted[i] : i \in 1..k}
  <2>1. DOMAIN SubSeq(sorted, 1, k) = 1..k /\ \A i \in 1..k : SubSeq(sorted, 1, k)[i] = sorted[i]
    BY <1>1
  <2> QED
    BY <1>3, <2>1 DEF ToSet
<1>5. left = {sorted[i] : i \in (k + 1)..n}
  <2>1. ToSet(results) = {sorted[i] : i \in 1..n}
    <3>1. DOMAIN sorted = 1..n
      BY <1>1
    <3>2. ToSet(sorted) = {sorted[i] : i \in DOMAIN sorted}
      BY DEF ToSet
    <3> QED
      BY <1>1, <3>1, <3>2
  <2>2. \A i, j \in 1..n : sorted[i] = sorted[j] => i = j
    <3>1. DOMAIN sorted = 1..n
      BY <1>1
    <3> QED
      BY <1>1, <3>1 DEF IsInjective
  <2>3. 1..n = (1..k) \cup ((k + 1)..n) /\ (1..k) \cap ((k + 1)..n) = {}
    BY <1>1
  <2> HIDE DEF taken
  <2> QED
    BY <1>4, <2>1, <2>2, <2>3
<1> HIDE DEF taken, left
<1>6. TotalTokens(context.chunks) <= budget
  <2>1. k \in 0..k
    BY <1>1
  <2> QED
    BY <1>2, <1>3, <2>1 DEF IsCut, Fits, sorted
<1>7. \A i \in 1..n : sorted[i].score \in Nat
  BY <1>1 DEF AreResults
<1>8. \A r \in left, t \in taken : r.score <= t.score
  <2> SUFFICES ASSUME NEW i \in (k + 1)..n, NEW j \in 1..k
               PROVE  sorted[i].score <= sorted[j].score
    BY <1>4, <1>5
  <2>1. i \in 1..n /\ j \in 1..n /\ j < i
    BY <1>1
  <2> QED
    BY <1>1, <1>7, <2>1
<1>9. k < n <=> left # {}
  <2>1. k < n => k + 1 \in (k + 1)..n
    BY <1>1
  <2>2. ~ (k < n) => \A i \in (k + 1)..n : FALSE
    BY <1>1
  <2> QED
    BY <1>5, <2>1, <2>2
<1>10. ASSUME left # {}
       PROVE  \E r \in left :
                /\ \A q \in left : q.score <= r.score
                /\ TotalTokens(context.chunks) + Tokens(r) > budget
  <2>1. k < n /\ k + 1 \in (k + 1)..n /\ k + 1 \in 1..n /\ k \in 0..Len(sorted)
    <3>1. k < n
      BY <1>9, <1>10
    <3> QED
      BY <1>1, <3>1
  <2> DEFINE r == sorted[k + 1]
  <2>2. r \in left
    BY <1>5, <2>1
  <2>3. \A q \in left : q.score <= r.score
    <3> SUFFICES ASSUME NEW i \in (k + 1)..n
                 PROVE  sorted[i].score <= r.score
      BY <1>5
    <3>1. i = k + 1 \/ (k + 1 < i /\ i \in 1..n)
      BY <1>1
    <3> QED
      BY <1>1, <1>7, <2>1, <3>1
  <2>4. /\ TotalTokens(SubSeq(sorted, 1, k)) \in Nat
        /\ TotalTokens(SubSeq(sorted, 1, k + 1)) = TotalTokens(SubSeq(sorted, 1, k)) + Tokens(r)
    BY <1>1, <2>1, TokensGrow
  <2>5. ~ (TotalTokens(SubSeq(sorted, 1, k + 1)) <= budget)
    BY <1>2, <2>1 DEF IsCut, Fits, sorted, n
  <2>6. Tokens(r) \in Nat
    <3>1. sorted[k + 1] \in Item
      BY <1>1, <2>1
    <3>2. r.length \in Nat
      BY <3>1 DEF AreResults
    <3> QED
      BY <3>2, TokensCount
  <2> HIDE DEF r
  <2>7. TotalTokens(context.chunks) + Tokens(r) > budget
    BY <1>3, <2>4, <2>5, <2>6
  <2> QED
    BY <2>2, <2>3, <2>7
<1>11. context.truncated <=> left # {}
  BY <1>3, <1>9
<1> QED
  BY <1>6, <1>8, <1>10, <1>11 DEF ContextIsBest, left, taken, context

\* A set of numbers in their order.
InOrder(S) ==
  [k \in 1..Cardinality(S) |-> CHOOSE x \in S : Cardinality({y \in S : y < x}) = k - 1]

\* Numbers sorted by their ranks are all there.
LEMMA NumbersSort ==
  ASSUME NEW S \in SUBSET Nat, IsFiniteSet(S)
  PROVE  /\ InOrder(S) \in [1..Cardinality(S) -> S]
         /\ \A x \in S : \E k \in 1..Cardinality(S) : InOrder(S)[k] = x
<1> DEFINE R == {p \in S \X S : p[1] < p[2]}
<1>1. \A x, y \in S : <<x, y>> \in R <=> x < y
  OBVIOUS
<1> HIDE DEF R
<1>2. Orders(R, S)
  BY <1>1 DEF Orders
<1>3. \A x \in S : Below(R, S, x) = {y \in S : y < x}
  BY <1>1 DEF Below
<1>4. InOrder(S) = ByRank(R, S)
  <2>1. ASSUME NEW k \in 1..Cardinality(S)
        PROVE  ByRank(R, S)[k] = CHOOSE x \in S : Cardinality({y \in S : y < x}) = k - 1
    <3>1. ByRank(R, S)[k] = CHOOSE x \in S : Cardinality(Below(R, S, x)) = k - 1
      BY DEF ByRank
    <3>2. \A x \in S : Cardinality(Below(R, S, x)) = k - 1 <=> Cardinality({y \in S : y < x}) = k - 1
      BY <1>3
    <3> QED
      BY <3>1, <3>2
  <2>2. DOMAIN ByRank(R, S) = 1..Cardinality(S)
    BY DEF ByRank
  <2> QED
    BY <2>1, <2>2 DEF ByRank, InOrder
<1> DEFINE order == ByRank(R, S)
<1>5. /\ order \in [1..Cardinality(S) -> S]
      /\ \A x \in S : \E k \in 1..Cardinality(S) : order[k] = x
  <2> HIDE DEF order
  <2> QED
    BY <1>2, RanksSort DEF order
<1> HIDE DEF order
<1> QED
  BY <1>4, <1>5 DEF order

\* Every citation is the excerpt that was shown under the number mentioned.
THEOREM CitationsTheorem ==
  ASSUME NEW Item, AreResults(Item), NEW results \in Seq(Item), NEW budget \in Nat,
         NEW mentions \in SUBSET Nat
  PROVE  CitationsAreShown(results, budget, mentions)
<1> DEFINE context == AssembleContext(results, budget)
           chunks == context.chunks
           shown == mentions \cap DOMAIN chunks
           cited == Synthesise(context, mentions).citations
<1>1. PICK k \in 0..Len(results) : chunks = SubSeq(ByScore(results), 1, k)
  BY ContextIsCut DEF IsContext
<1>2. chunks \in Seq(Item) /\ Len(chunks) \in Nat /\ DOMAIN chunks = 1..Len(chunks)
  BY <1>1, ByScoreSorts
<1> HIDE DEF chunks
<1>3. shown = {n \in mentions : n - 1 >= 0 /\ n - 1 < Len(chunks)}
  <2>1. \A n \in Nat : n \in 1..Len(chunks) <=> n - 1 >= 0 /\ n - 1 < Len(chunks)
    BY <1>2
  <2> QED
    BY <1>2, <2>1
<1>4. shown \in SUBSET Nat /\ IsFiniteSet(shown)
  <2>1. IsFiniteSet(1..Len(chunks)) /\ shown \in SUBSET (1..Len(chunks))
    BY <1>2, FS_Interval
  <2> HIDE DEF shown
  <2>2. IsFiniteSet(shown)
    BY <2>1, FS_Subset
  <2> QED
    BY <2>2 DEF shown
<1>5. CASE chunks = <<>>
  <2>1. shown = {}
    BY <1>2, <1>5
  <2>2. cited = <<>>
    <3>1. context.chunks = <<>>
      BY <1>5 DEF chunks
    <3> HIDE DEF context
    <3>2. Synthesise(context, mentions) = [citations |-> <<>>, noResults |-> TRUE]
      BY <3>1 DEF Synthesise
    <3> QED
      BY <3>2
  <2>3. Len(cited) = 0 /\ ToSet(cited) = {} /\ Cardinality(shown) = 0
    <3>1. Len(<<>>) = 0 /\ ToSet(<<>>) = {}
      BY DEF ToSet
    <3> HIDE DEF cited, shown
    <3> QED
      BY <2>1, <2>2, <3>1, FS_EmptySet
  <2>4. {chunks[x] : x \in shown} = {}
    BY <2>1
  <2> HIDE DEF cited, shown
  <2> QED
    BY <2>3, <2>4 DEF CitationsAreShown, cited, shown, chunks, context
<1>6. CASE chunks # <<>>
  <2> DEFINE numbers == InOrder(shown)
  <2>1. cited = Citations(chunks, mentions)
    BY <1>6 DEF Synthesise, chunks
  <2>2. cited = [i \in DOMAIN numbers |-> chunks[numbers[i]]]
    <3> DEFINE S == {n \in mentions : n - 1 >= 0 /\ n - 1 < Len(chunks)}
               sorted == InOrder(S)
    <3>1. Citations(chunks, mentions) = [i \in DOMAIN sorted |-> chunks[sorted[i]]]
      BY DEF Citations, Sorted, InOrder
    <3> HIDE DEF S, shown, cited
    <3> QED
      BY <1>3, <2>1, <3>1 DEF S
  <2> HIDE DEF shown
  <2>3. /\ numbers \in [1..Cardinality(shown) -> shown]
        /\ \A x \in shown : \E i \in 1..Cardinality(shown) : numbers[i] = x
    BY <1>4, NumbersSort
  <2>4. Cardinality(shown) \in Nat
    BY <1>4, FS_CardinalityType
  <2> HIDE DEF numbers, cited
  <2>5. DOMAIN cited = 1..Cardinality(shown) /\ Len(cited) = Cardinality(shown)
    BY <2>2, <2>3, <2>4
  <2>6. ToSet(cited) = {chunks[x] : x \in shown}
    BY <2>2, <2>3 DEF ToSet
  <2> QED
    BY <2>5, <2>6 DEF CitationsAreShown, cited, shown, chunks, context
<1> QED
  BY <1>5, <1>6

-----------------------------------------------------------------------------
(* A query.                                                                *)

\* What a query meets.  The results that are stored are told apart by their
\* ids, and at least one of them is asked for.
PossibleQuery(call, Item) ==
  /\ call.attempts \in [1..RetryCount -> Attempt]
  /\ call.stored \in Seq(Item) /\ IsInjective(call.stored) /\ AreResults(Item)
  /\ call.topK \in Nat \ {0} /\ call.budget \in Nat /\ call.mentions \in SUBSET Nat

\* Only an attempt that reaches Express settles the search.
Settling(call, a) == StatusOf(call, a) \in 1..499

\* An attempt settles the search if it reaches Express, and succeeds if the
\* dimension fits besides.
LEMMA Statuses ==
  ASSUME NEW call, NEW a \in Attempt
  PROVE  /\ Settling(call, a) <=> a = "reached"
         /\ StatusOf(call, a) = 200 <=> a = "reached" /\ call.fits
<1>1. SearchStatus(call) = IF call.fits THEN 200 ELSE 400
  BY DEF SearchStatus, VectorSearch, StoreSearch
<1>2. StatusOf(call, "reached") = SearchStatus(call)
  BY DEF StatusOf
<1>3. StatusOf(call, "fails") = 500 /\ StatusOf(call, "lost") = 0
  BY DEF StatusOf
<1>4. /\ StatusOf(call, "reached") \in 1..499 /\ StatusOf(call, "fails") \notin 1..499
      /\ StatusOf(call, "lost") \notin 1..499
  BY <1>1, <1>2, <1>3
<1>5. StatusOf(call, "reached") = 200 <=> call.fits
  BY <1>1, <1>2
<1> QED
  BY <1>3, <1>4, <1>5 DEF Attempt, Settling

\* The retries end at the first attempt that settles the search, or the last.
Settles(call, k) == Settling(call, call.attempts[k]) \/ k = RetryCount

\* WithRetry makes the attempts up to the first such one.
LEMMA RetriesEnd ==
  ASSUME NEW call, call.attempts \in [1..RetryCount -> Attempt]
  PROVE  LET last == WithRetry(call).tries IN
         /\ last \in 1..RetryCount /\ Settles(call, last)
         /\ \A k \in 1..RetryCount : Settles(call, k) => last <= k
         /\ WithRetry(call).status = StatusOf(call, call.attempts[last])
<1> DEFINE T == {k \in 1..RetryCount : Settles(call, k)}
           S == {k \in 1..RetryCount : StatusOf(call, call.attempts[k]) \in 1..499 \/ k = RetryCount}
           last == CHOOSE k \in S : \A j \in S : k <= j
<1>1. S = T
  BY DEF Settles, Settling
<1>2. RetryCount \in T /\ T \subseteq Nat
  BY QueryAssumption DEF Settles
<1>3. \E k \in T : \A j \in T : k <= j
  <2> HIDE DEF T
  <2> QED
    BY <1>2, LeastNumber
<1>4. last \in T /\ \A j \in T : last <= j
  <2> HIDE DEF S, T
  <2> QED
    BY <1>1, <1>3
<1>5. WithRetry(call) = [tries |-> last, status |-> StatusOf(call, call.attempts[last])]
  BY DEF WithRetry
<1> HIDE DEF last
<1>6. WithRetry(call).tries = last /\ WithRetry(call).status = StatusOf(call, call.attempts[last])
  BY <1>5
<1> QED
  BY <1>4, <1>6

\* A search is repeated only after an answer, or none, that may be another one
\* next time.
THEOREM RetriesTheorem ==
  ASSUME NEW call, call.attempts \in [1..RetryCount -> Attempt]
  PROVE  RetriesAreMeasured(call)
<1> DEFINE tries == WithRetry(call).tries
<1>1. /\ tries \in 1..RetryCount /\ Settles(call, tries)
      /\ \A k \in 1..RetryCount : Settles(call, k) => tries <= k
  BY RetriesEnd
<1> HIDE DEF tries
<1>2. RetryCount \in Nat
  BY QueryAssumption
<1>3. \A k \in 1..RetryCount : call.attempts[k] \in Attempt
  OBVIOUS
<1>4. ASSUME NEW k \in 1..(tries - 1)
      PROVE  call.attempts[k] \in {"fails", "lost"}
  <2>1. k \in 1..RetryCount /\ k < tries
    BY <1>1, <1>2
  <2>2. ~Settles(call, k)
    BY <1>1, <1>2, <2>1
  <2>3. call.attempts[k] # "reached"
    <3>1. call.attempts[k] \in Attempt
      BY <1>3, <2>1
    <3>2. Settling(call, call.attempts[k]) <=> call.attempts[k] = "reached"
      BY <3>1, Statuses
    <3> QED
      BY <2>2, <3>2 DEF Settles
  <2> QED
    BY <1>3, <2>1, <2>3 DEF Attempt
<1>5. ASSUME tries < RetryCount
      PROVE  call.attempts[tries] = "reached"
  <2>1. Settling(call, call.attempts[tries])
    <3>1. tries # RetryCount
      BY <1>1, <1>2, <1>5
    <3> QED
      BY <1>1, <3>1 DEF Settles
  <2> QED
    BY <1>1, <1>3, <2>1, Statuses
<1> QED
  BY <1>4, <1>5 DEF RetriesAreMeasured, tries

\* The search succeeds if an attempt reaches Express, with the dimension it wants.
LEMMA SearchSucceeds ==
  ASSUME NEW call, call.attempts \in [1..RetryCount -> Attempt]
  PROVE  WithRetry(call).status = 200 <=> "reached" \in Range(call.attempts) /\ call.fits
<1> DEFINE last == WithRetry(call).tries
<1>1. /\ last \in 1..RetryCount /\ Settles(call, last)
      /\ \A k \in 1..RetryCount : Settles(call, k) => last <= k
      /\ WithRetry(call).status = StatusOf(call, call.attempts[last])
  BY RetriesEnd
<1> HIDE DEF last
<1>2. RetryCount \in Nat /\ \A k \in 1..RetryCount : call.attempts[k] \in Attempt
  BY QueryAssumption
<1>3. ASSUME "reached" \in Range(call.attempts)
      PROVE  call.attempts[last] = "reached"
  <2>1. PICK k \in 1..RetryCount : call.attempts[k] = "reached"
    BY <1>3 DEF Range
  <2>2. Settles(call, k)
    <3>1. call.attempts[k] \in Attempt
      BY <1>2
    <3>2. Settling(call, call.attempts[k]) <=> call.attempts[k] = "reached"
      BY <3>1, Statuses
    <3> QED
      BY <2>1, <3>2 DEF Settles
  <2>3. last <= k
    BY <1>1, <2>2
  <2>4. CASE last = RetryCount
    <3>1. last = k
      BY <1>2, <2>3, <2>4
    <3> QED
      BY <2>1, <3>1
  <2>5. CASE last # RetryCount
    <3>1. Settling(call, call.attempts[last])
      BY <1>1, <2>5 DEF Settles
    <3> QED
      BY <1>1, <1>2, <3>1, Statuses
  <2> QED
    BY <2>4, <2>5
<1>4. call.attempts[last] = "reached" => "reached" \in Range(call.attempts)
  BY <1>1 DEF Range
<1>5. StatusOf(call, call.attempts[last]) = 200 <=> call.attempts[last] = "reached" /\ call.fits
  BY <1>1, <1>2, Statuses
<1> QED
  BY <1>1, <1>3, <1>4, <1>5

\* The chunks whose embeddings are nearest are results of their own.
LEMMA NearestAre ==
  ASSUME NEW Item, AreResults(Item), NEW stored \in Seq(Item), IsInjective(stored), NEW topK \in Nat \ {0}
  PROVE  \E k \in 0..Len(stored) :
           /\ Nearest(stored, topK) = SubSeq(ByScore(stored), 1, k)
           /\ k <= topK /\ (k = 0 => stored = <<>>)
           /\ Nearest(stored, topK) \in Seq(Item) /\ IsInjective(Nearest(stored, topK))
           /\ Len(Nearest(stored, topK)) = k
<1> DEFINE sorted == ByScore(stored)
           n == Len(stored)
           k == IF topK < n THEN topK ELSE n
           nearest == Nearest(stored, topK)
<1>1. n \in Nat /\ sorted \in Seq(Item) /\ Len(sorted) = n /\ IsInjective(sorted)
  BY ByScoreSorts
<1>2. nearest = SubSeq(sorted, 1, k)
  <2> DEFINE s == ByScore(stored)
  <2>1. nearest = SubSeq(s, 1, IF topK < Len(s) THEN topK ELSE Len(s))
    BY DEF Nearest
  <2> HIDE DEF nearest
  <2> QED
    BY <1>1, <2>1
<1> HIDE DEF sorted, nearest
<1>3. k \in 0..n /\ k <= topK /\ (k = 0 => n = 0)
  BY <1>1
<1> HIDE DEF k
<1>4. nearest \in Seq(Item) /\ Len(nearest) = k /\ \A i \in 1..k : nearest[i] = sorted[i]
  BY <1>1, <1>2, <1>3
<1>5. IsInjective(nearest)
  <2>1. DOMAIN nearest = 1..k /\ 1..k \subseteq 1..n /\ DOMAIN sorted = 1..n
    BY <1>1, <1>3, <1>4
  <2> QED
    BY <1>1, <1>4, <2>1 DEF IsInjective
<1>6. n = 0 => stored = <<>>
  OBVIOUS
<1> QED
  BY <1>2, <1>3, <1>4, <1>5, <1>6 DEF sorted, nearest

\* A query is not answered if a service it needs fails, and in one case besides.
THEOREM FailuresTheorem ==
  ASSUME NEW call, NEW Item, PossibleQuery(call, Item)
  PROVE  FailuresAreKnown(call)
<1> DEFINE nearest == Nearest(call.stored, call.topK)
           search == call.embedded[Terms(call)] /\ "reached" \in Range(call.attempts) /\ call.fits
           needed == AssembleContext(nearest, call.budget).chunks # <<>>
           missing == \E i \in DOMAIN nearest : ~nearest[i].complete
<1> SUFFICES ASSUME call.keyKnown, ~call.blank
             PROVE  (Query(call).status # 200) <=> ~search \/ missing \/ (needed /\ ~call.answers)
  BY DEF FailuresAreKnown
<1>1. Query(call) = Handle(call)
  BY DEF Query
<1>2. search <=> call.embedded[Terms(call)] /\ WithRetry(call).status = 200
  BY SearchSucceeds DEF PossibleQuery
<1>3. search => SearchResults(call) = IF missing THEN {} ELSE {nearest}
  <2> SUFFICES ASSUME call.fits
               PROVE  SearchResults(call) = IF missing THEN {} ELSE {nearest}
    OBVIOUS
  <2>1. VectorSearch(call).data = nearest
    BY DEF VectorSearch, StoreSearch
  <2> HIDE DEF nearest
  <2> QED
    BY <2>1 DEF SearchResults
<1>4. CASE ~search
  <2>1. Handle(call) = Failure(500)
    BY <1>2, <1>4 DEF Handle
  <2> QED
    BY <1>1, <1>4, <2>1 DEF Failure
<1>5. CASE search /\ missing
  <2>1. Handle(call) = Failure(500)
    BY <1>3, <1>5 DEF Handle
  <2> QED
    BY <1>1, <1>5, <2>1 DEF Failure
<1>6. CASE search /\ ~missing
  <2>1. Handle(call) = Synthesised(call, nearest)
    <3>1. SearchResults(call) = {nearest}
      BY <1>3, <1>6
    <3>2. (CHOOSE r \in {nearest} : TRUE) = nearest
      OBVIOUS
    <3> HIDE DEF nearest
    <3> QED
      BY <1>2, <1>6, <3>1, <3>2 DEF Handle
  <2>2. Synthesised(call, nearest).status = IF needed /\ ~call.answers THEN 500 ELSE 200
    BY DEF Synthesised, Failure
  <2> QED
    BY <1>1, <1>6, <2>1, <2>2
<1> QED
  BY <1>4, <1>5, <1>6

\* An answer with the status of success is made from the nearest chunks.
LEMMA SuccessIsSynthesised ==
  ASSUME NEW call, call.attempts \in [1..RetryCount -> Attempt], Query(call).status = 200
  PROVE  LET context == AssembleContext(Nearest(call.stored, call.topK), call.budget)
             result  == Synthesise(context, call.mentions)
         IN  Query(call).citations = result.citations /\ Query(call).noResults = result.noResults
<1> DEFINE nearest == Nearest(call.stored, call.topK)
           context == AssembleContext(nearest, call.budget)
           result  == Synthesise(context, call.mentions)
<1>1. \A status : Failure(status).status = status
  BY DEF Failure
<1>2. Query(call) = Handle(call)
  BY <1>1 DEF Query
<1>3. /\ SearchResults(call) # {} /\ WithRetry(call).status = 200
      /\ Handle(call) = Synthesised(call, CHOOSE r \in SearchResults(call) : TRUE)
  BY <1>1, <1>2 DEF Handle
<1>4. SearchResults(call) = {nearest}
  <2>1. call.fits
    BY <1>3, SearchSucceeds
  <2>2. VectorSearch(call).data = nearest
    BY <2>1 DEF VectorSearch, StoreSearch
  <2> HIDE DEF nearest
  <2> QED
    BY <1>3, <2>2 DEF SearchResults
<1>5. (CHOOSE r \in {nearest} : TRUE) = nearest
  OBVIOUS
<1> HIDE DEF nearest
<1>6. Handle(call) = Synthesised(call, nearest)
  BY <1>3, <1>4, <1>5
<1>7. Synthesised(call, nearest) =
        [status |-> 200, citations |-> result.citations, noResults |-> result.noResults]
  BY <1>1, <1>2, <1>6 DEF Synthesised
<1> HIDE DEF context, result
<1>8. Query(call).citations = result.citations /\ Query(call).noResults = result.noResults
  BY <1>2, <1>6, <1>7
<1> QED
  BY <1>8 DEF result, context, nearest

Better(results, r) == {q \in ToSet(results) : q.score > r.score}

\* Before the k-th of the sorted results there are fewer than k better ones.
LEMMA FewAreBetter ==
  ASSUME NEW Item, AreResults(Item), NEW results \in Seq(Item), NEW k \in 1..Len(results)
  PROVE  /\ Cardinality(Better(results, ByScore(results)[k])) < k
         /\ k = 1 => Better(results, ByScore(results)[k]) = {}
<1> DEFINE sorted == ByScore(results)
           n == Len(results)
           better == {q \in ToSet(results) : q.score > sorted[k].score}
           f == [i \in {i \in 1..(k - 1) : sorted[i] \in better} |-> sorted[i]]
<1>1. /\ n \in Nat /\ sorted \in Seq(Item) /\ Len(sorted) = n /\ ToSet(sorted) = ToSet(results)
      /\ \A i, j \in 1..n : i < j => sorted[i].score >= sorted[j].score
  BY ByScoreSorts
<1> HIDE DEF sorted, n
<1>2. k \in 1..n
  BY DEF n
<1>3. \A i \in 1..n : sorted[i].score \in Nat
  BY <1>1 DEF AreResults
<1>4. \A q \in better : \E i \in 1..(k - 1) : sorted[i] = q
  <2> SUFFICES ASSUME NEW q \in better
               PROVE  \E i \in 1..(k - 1) : sorted[i] = q
    OBVIOUS
  <2>1. PICK i \in 1..n : sorted[i] = q
    <3>1. DOMAIN sorted = 1..n
      BY <1>1
    <3> QED
      BY <1>1, <3>1 DEF ToSet
  <2>2. sorted[i].score > sorted[k].score
    BY <2>1
  <2>3. i < k
    <3> SUFFICES ASSUME ~ (i < k)
                 PROVE  FALSE
      OBVIOUS
    <3>1. i = k \/ k < i
      BY <1>2
    <3>2. sorted[k].score >= sorted[i].score
      BY <1>1, <1>2, <1>3, <3>1
    <3> QED
      BY <1>2, <1>3, <2>2, <3>2
  <2> QED
    BY <1>2, <2>1, <2>3
<1> HIDE DEF better
<1> DEFINE D == DOMAIN f
<1>5. D \in SUBSET (1..(k - 1)) /\ f \in Surjection(D, better)
  <2>1. \A q \in better : \E i \in D : f[i] = q
    BY <1>4
  <2>2. f \in [D -> better]
    OBVIOUS
  <2> QED
    BY <2>1, <2>2 DEF Surjection
<1> HIDE DEF f, D
<1>6. IsFiniteSet(1..(k - 1)) /\ Cardinality(1..(k - 1)) = k - 1 /\ k \in Nat \ {0}
  BY <1>1, <1>2, FS_Interval
<1>7. IsFiniteSet(D) /\ Cardinality(D) <= k - 1
  BY <1>5, <1>6, FS_Subset
<1>8. Cardinality(better) <= Cardinality(D) /\ IsFiniteSet(better)
  BY <1>5, <1>7, FS_Surjection
<1>9. Cardinality(better) \in Nat /\ Cardinality(D) \in Nat
  BY <1>7, <1>8, FS_CardinalityType
<1>10. Cardinality(better) < k
  BY <1>6, <1>7, <1>8, <1>9
<1>11. k = 1 => better = {}
  BY <1>4
<1> QED
  BY <1>10, <1>11 DEF better, sorted, Better

\* What a sequence ranges over is finite.
LEMMA RangeIsFinite ==
  ASSUME NEW f, IsFiniteSet(DOMAIN f)
  PROVE  IsFiniteSet(ToSet(f))
<1> DEFINE g == [i \in DOMAIN f |-> f[i]]
<1>1. g \in Surjection(DOMAIN f, ToSet(f))
  BY DEF Surjection, ToSet
<1> HIDE DEF g
<1> QED
  BY <1>1, FS_Surjection

\* An answer cites only chunks that are stored, and the nearest of them.  It says
\* that there is no result if none is stored, but also if the best one does not
\* fit a context.
THEOREM FoundedTheorem ==
  ASSUME NEW call, NEW Item, PossibleQuery(call, Item)
  PROVE  AnswersAreFounded(call)
<1> DEFINE answer == Query(call)
           all == call.stored
           topK == call.topK
           budget == call.budget
           mentions == call.mentions
           stored == ToSet(all)
           better(r) == {q \in stored : q.score > r.score}
           best == {r \in stored : better(r) = {}}
           large == {r \in best : Tokens(r) > budget}
           sorted == ByScore(all)
           nearest == Nearest(all, topK)
           first == ByScore(nearest)
           context == AssembleContext(nearest, budget)
           result == Synthesise(context, mentions)
<1> SUFFICES ASSUME answer.status = 200
             PROVE  /\ \A r \in ToSet(answer.citations) : r \in stored /\ Cardinality(better(r)) < topK
                    /\ best \subseteq large => answer.noResults
                    /\ answer.noResults => stored = {} \/ large # {}
  BY DEF AnswersAreFounded
<1>1. /\ all \in Seq(Item) /\ IsInjective(all) /\ AreResults(Item)
      /\ topK \in Nat \ {0} /\ budget \in Nat /\ mentions \in SUBSET Nat
      /\ call.attempts \in [1..RetryCount -> Attempt]
  BY DEF PossibleQuery
<1>2. answer.citations = result.citations /\ answer.noResults = result.noResults
  BY <1>1, SuccessIsSynthesised
<1> HIDE DEF all, topK, budget, mentions
<1>3. PICK k \in 0..Len(all) :
        /\ nearest = SubSeq(sorted, 1, k) /\ k <= topK /\ (k = 0 => all = <<>>)
        /\ nearest \in Seq(Item) /\ IsInjective(nearest) /\ Len(nearest) = k
  BY <1>1, NearestAre
<1>4. /\ sorted \in Seq(Item) /\ Len(sorted) = Len(all) /\ ToSet(sorted) = stored
      /\ \A i, j \in 1..Len(all) : i < j => sorted[i].score >= sorted[j].score
  BY <1>1, ByScoreSorts
<1> HIDE DEF answer, nearest, sorted
<1>5. /\ first \in Seq(Item) /\ Len(first) = k /\ ToSet(first) = ToSet(nearest)
      /\ \A i, j \in 1..k : i < j => first[i].score >= first[j].score
  <2>1. AreResults(Item) /\ nearest \in Seq(Item) /\ Len(nearest) = k
    BY <1>1, <1>3
  <2>2. /\ first \in Seq(Item) /\ Len(first) = Len(nearest) /\ ToSet(first) = ToSet(nearest)
        /\ \A i, j \in 1..Len(nearest) : i < j => first[i].score >= first[j].score
    BY <2>1, ByScoreSorts
  <2> HIDE DEF first
  <2> QED
    BY <2>1, <2>2
<1>6. PICK c \in 0..k :
        /\ IsCut(nearest, budget, c)
        /\ context = [chunks |-> SubSeq(first, 1, c), total |-> TotalTokens(SubSeq(first, 1, c)),
                      truncated |-> c < k]
  <2>1. AreResults(Item) /\ nearest \in Seq(Item) /\ Len(nearest) = k /\ budget \in Nat
    BY <1>1, <1>3
  <2>2. PICK m \in 0..Len(nearest) : IsContext(nearest, budget, m)
    BY <2>1, ContextIsCut
  <2>3. /\ IsCut(nearest, budget, m)
        /\ context = [chunks |-> SubSeq(first, 1, m), total |-> TotalTokens(SubSeq(first, 1, m)),
                      truncated |-> m < Len(nearest)]
    BY <2>2 DEF IsContext
  <2> HIDE DEF first, context
  <2> QED
    BY <2>1, <2>3
<1> HIDE DEF first, context
<1>7. /\ k \in Nat /\ c \in Nat /\ c <= k /\ k <= Len(all) /\ Len(all) \in Nat
      /\ context.chunks = SubSeq(first, 1, c)
  BY <1>1, <1>3, <1>6
<1>8. \A r \in ToSet(nearest) : r \in stored /\ Cardinality(better(r)) < topK
  <2> SUFFICES ASSUME NEW r \in ToSet(nearest)
               PROVE  r \in stored /\ Cardinality(better(r)) < topK
    OBVIOUS
  <2>1. PICK i \in 1..k : r = sorted[i]
    <3>1. DOMAIN nearest = 1..k /\ \A i \in 1..k : nearest[i] = sorted[i]
      BY <1>3, <1>4, <1>7
    <3> QED
      BY <3>1 DEF ToSet
  <2>2. i \in 1..Len(all)
    BY <1>7
  <2>3. r \in stored
    <3>1. i \in DOMAIN sorted
      BY <1>4, <2>2
    <3>2. sorted[i] \in ToSet(sorted)
      BY <3>1 DEF ToSet
    <3> QED
      BY <1>4, <2>1, <3>2
  <2>4. Cardinality(better(r)) < i
    <3>1. Cardinality(Better(all, sorted[i])) < i
      BY <1>1, <2>2, FewAreBetter DEF sorted
    <3> QED
      BY <2>1, <3>1 DEF Better
  <2>5. Cardinality(better(r)) \in Nat
    <3>1. IsFiniteSet(stored)
      <4>1. DOMAIN sorted = 1..Len(all) /\ Len(all) \in Nat
        BY <1>4
      <4> QED
        BY <1>4, <4>1, FS_Interval, RangeIsFinite
    <3> QED
      BY <3>1, FS_Subset, FS_CardinalityType
  <2> QED
    <3> HIDE DEF better
    <3>1. i \in Nat /\ i <= topK /\ topK \in Nat
      BY <1>1, <1>3, <1>7, <2>1
    <3> QED
      BY <2>3, <2>4, <2>5, <3>1
<1>9. ToSet(answer.citations) \subseteq ToSet(nearest)
  <2>1. CitationsAreShown(nearest, budget, mentions)
    BY <1>1, <1>3, CitationsTheorem
  <2>2. ToSet(answer.citations) = {context.chunks[m] : m \in mentions \cap DOMAIN context.chunks}
    BY <1>2, <2>1 DEF CitationsAreShown, context
  <2>3. DOMAIN context.chunks = 1..c /\ \A m \in 1..c : context.chunks[m] = first[m]
    BY <1>5, <1>7
  <2>4. \A m \in 1..c : first[m] \in ToSet(first)
    <3>1. 1..c \subseteq DOMAIN first
      BY <1>5, <1>7
    <3> QED
      BY <3>1 DEF ToSet
  <2> QED
    BY <1>5, <2>2, <2>3, <2>4
<1>10. answer.noResults <=> c = 0
  <2>1. context.chunks = <<>> <=> c = 0
    BY <1>5, <1>7
  <2>2. result.noResults <=> context.chunks = <<>>
    BY DEF Synthesise
  <2> QED
    BY <1>2, <2>1, <2>2
<1>11. ASSUME k # 0
       PROVE  /\ first[1] \in best
              /\ c = 0 <=> Tokens(first[1]) > budget
  <2>1. 1 \in 1..k /\ 1 \in 1..Len(all) /\ 1 \in 0..k
    BY <1>7, <1>11
  <2>2. /\ DOMAIN first = 1..k /\ first[1] \in Item
        /\ nearest[1] = sorted[1] /\ DOMAIN nearest = 1..k
        /\ sorted[1] \in Item
    BY <1>3, <1>4, <1>5, <1>7, <2>1
  <2>3. first[1] \in ToSet(nearest) /\ nearest[1] \in ToSet(first)
    <3>1. first[1] \in ToSet(first) /\ nearest[1] \in ToSet(nearest)
      BY <2>1, <2>2 DEF ToSet
    <3> QED
      BY <1>5, <3>1
  <2>4. first[1].score >= sorted[1].score
    <3>1. PICK i \in 1..k : first[i] = nearest[1]
      BY <2>2, <2>3 DEF ToSet
    <3>2. first[i].score \in Nat
      BY <1>1, <2>2, <3>1 DEF AreResults
    <3>3. i = 1 \/ first[1].score >= first[i].score
      BY <1>5, <1>7, <2>1, <3>1
    <3> QED
      BY <2>2, <3>1, <3>2, <3>3
  <2>5. better(sorted[1]) = {}
    <3>1. all \in Seq(Item) /\ AreResults(Item)
      BY <1>1
    <3>2. PICK one \in 1..Len(all) : one = 1
      BY <2>1
    <3>3. Better(all, sorted[one]) = {}
      BY <3>1, <3>2, FewAreBetter DEF sorted
    <3> QED
      BY <3>2, <3>3 DEF Better
  <2>6. first[1] \in stored
    <3> HIDE DEF better, stored
    <3> QED
      BY <1>8, <2>3
  <2>7. \A q \in stored : q.score \in Nat
    <3>1. \A i \in 1..Len(all) : sorted[i] \in Item
      BY <1>4
    <3>2. DOMAIN sorted = 1..Len(all)
      BY <1>4
    <3>3. \A q \in ToSet(sorted) : q \in Item
      BY <3>1, <3>2 DEF ToSet
    <3> QED
      BY <1>1, <1>4, <3>3 DEF AreResults
  <2>8. better(first[1]) = {}
    <3> SUFFICES ASSUME NEW q \in stored, q.score > first[1].score
                 PROVE  FALSE
      OBVIOUS
    <3>1. ~ (q.score > sorted[1].score)
      BY <2>5
    <3>2. q.score \in Nat /\ sorted[1].score \in Nat /\ first[1].score \in Nat
      BY <1>1, <2>2, <2>7 DEF AreResults
    <3> QED
      BY <2>4, <3>1, <3>2
  <2>9. first[1] \in best
    BY <2>6, <2>8
  <2>10. Fits(nearest, budget, 1) <=> ~ (Tokens(first[1]) > budget)
    <3>1. 0 \in 0..Len(first) /\ 0 < Len(first)
      BY <1>5, <1>7, <1>11
    <3>2. /\ TotalTokens(SubSeq(first, 1, 0)) = 0
          /\ TotalTokens(SubSeq(first, 1, 0 + 1)) = TotalTokens(SubSeq(first, 1, 0)) + Tokens(first[0 + 1])
      BY <1>1, <1>5, <3>1, TokensGrow
    <3>3. Tokens(first[1]) \in Nat
      <4>1. first[1].length \in Nat
        BY <1>1, <2>2 DEF AreResults
      <4> QED
        BY <4>1, TokensCount
    <3>4. TotalTokens(SubSeq(first, 1, 1)) = Tokens(first[1])
      BY <3>2, <3>3
    <3> QED
      BY <1>1, <3>3, <3>4 DEF Fits, first
  <2>11. c = 0 <=> ~Fits(nearest, budget, 1)
    <3>1. c # 0 => Fits(nearest, budget, 1)
      <4>1. c # 0 => 1 \in 0..c
        BY <1>7
      <4> QED
        BY <1>6, <4>1 DEF IsCut
    <3>2. c = 0 => ~Fits(nearest, budget, 1)
      <4>1. c = 0 => c < Len(nearest) /\ c + 1 = 1
        BY <1>3, <1>7, <1>11
      <4> QED
        BY <1>6, <4>1 DEF IsCut
    <3> QED
      BY <3>1, <3>2
  <2> HIDE DEF best
  <2> QED
    BY <2>9, <2>10, <2>11
<1>12. k = 0 => stored = {}
  BY <1>3 DEF ToSet
<1>13. \A r \in ToSet(answer.citations) : r \in stored /\ Cardinality(better(r)) < topK
  <2> HIDE DEF better, stored
  <2> QED
    BY <1>8, <1>9
<1>14. best \subseteq large => answer.noResults
  <2>1. k = 0 => c = 0
    BY <1>7
  <2>2. k # 0 => first[1] \in best /\ (c = 0 <=> Tokens(first[1]) > budget)
    BY <1>11
  <2>3. best \subseteq large => \A r \in best : Tokens(r) > budget
    OBVIOUS
  <2> HIDE DEF best, large
  <2> QED
    BY <1>10, <2>1, <2>2, <2>3
<1>15. answer.noResults => stored = {} \/ large # {}
  <2>1. k # 0 /\ c = 0 => first[1] \in large
    BY <1>11
  <2> HIDE DEF large, stored
  <2> QED
    BY <1>10, <1>12, <2>1
<1> QED
  BY <1>13, <1>14, <1>15 DEF all, topK, budget

\* What a query is answered with is founded on what the search has found: the
\* inputs of the runs are such queries.
THEOREM AnswersTheorem == Spec => []AnswersAreSound
<1> DEFINE Item == [id : Nat, score : Nat, length : Nat]
           Stored == [id : Nat, score : Nat, length : Nat, complete : BOOLEAN]
<1>1. AreResults(Item) /\ AreResults(Stored)
  BY DEF AreResults
<1>2. ASSUME input \in QueryInputs
      PROVE  /\ input.results \in Seq(Item) /\ IsInjective(input.results)
             /\ input.budget \in Nat /\ input.mentions \in SUBSET Nat /\ input.kind = "query"
  <2>1. /\ input.budget \in Nat /\ input.mentions \in SUBSET Nat /\ input.kind = "query"
    BY <1>2 DEF QueryInputs
  <2>2. PICK s \in BoundedSeq((1..2) \X {0, 4, 11}, MaxResults) :
          input.results = [i \in DOMAIN s |-> [id |-> i, score |-> s[i][1], length |-> s[i][2]]]
    BY <1>2 DEF QueryInputs
  <2>3. s \in Seq((1..2) \X {0, 4, 11})
    BY <2>2, BoundedAreSequences
  <2>4. \A i \in DOMAIN s : i \in Nat /\ s[i][1] \in Nat /\ s[i][2] \in Nat
    BY <2>3
  <2>5. input.results \in Seq(Item)
    <3>1. Len(s) \in Nat /\ DOMAIN s = 1..Len(s)
      BY <2>3
    <3>2. \A i \in 1..Len(s) : [id |-> i, score |-> s[i][1], length |-> s[i][2]] \in Item
      BY <2>4, <3>1
    <3>3. input.results \in [1..Len(s) -> Item]
      BY <2>2, <3>1, <3>2
    <3> HIDE DEF Item
    <3> QED
      BY <3>1, <3>3
  <2>6. IsInjective(input.results)
    BY <2>2 DEF IsInjective
  <2> QED
    BY <2>1, <2>5, <2>6
<1>3. ASSUME input \in ServiceInputs
      PROVE  PossibleQuery(input, Stored) /\ input.kind = "service"
  <2>1. /\ input.attempts \in [1..RetryCount -> Attempt]
        /\ input.topK \in Nat \ {0} /\ input.budget \in Nat /\ input.mentions \in SUBSET Nat
        /\ input.kind = "service"
    BY <1>3 DEF ServiceInputs
  <2>2. PICK s \in BoundedSeq((1..2) \X {4, 11} \X BOOLEAN, 2) :
          input.stored = [i \in DOMAIN s |->
                            [id |-> i, score |-> s[i][1], length |-> s[i][2], complete |-> s[i][3]]]
    BY <1>3 DEF ServiceInputs
  <2>3. s \in Seq((1..2) \X {4, 11} \X BOOLEAN)
    BY <2>2, BoundedAreSequences
  <2>4. \A i \in DOMAIN s : i \in Nat /\ s[i][1] \in Nat /\ s[i][2] \in Nat /\ s[i][3] \in BOOLEAN
    BY <2>3
  <2>5. input.stored \in Seq(Stored)
    <3>1. Len(s) \in Nat /\ DOMAIN s = 1..Len(s)
      BY <2>3
    <3>2. \A i \in 1..Len(s) :
            [id |-> i, score |-> s[i][1], length |-> s[i][2], complete |-> s[i][3]] \in Stored
      BY <2>4, <3>1
    <3>3. input.stored \in [1..Len(s) -> Stored]
      BY <2>2, <3>1, <3>2
    <3> HIDE DEF Stored
    <3> QED
      BY <3>1, <3>3
  <2>6. IsInjective(input.stored)
    BY <2>2 DEF IsInjective
  <2> QED
    BY <1>1, <2>1, <2>5, <2>6 DEF PossibleQuery
<1> HIDE DEF Item, Stored
<1>4. Init => AnswersAreSound
  <2>1. ASSUME input \in QueryInputs
        PROVE  AnswersAreSound
    <3>1. ContextIsBest(input.results, input.budget)
      BY <1>1, <1>2, <2>1, ContextTheorem
    <3>2. CitationsAreShown(input.results, input.budget, input.mentions)
      BY <1>1, <1>2, <2>1, CitationsTheorem
    <3> QED
      BY <1>2, <2>1, <3>1, <3>2 DEF AnswersAreSound
  <2>2. ASSUME input \in ServiceInputs
        PROVE  AnswersAreSound
    <3>1. RetriesAreMeasured(input)
      BY <1>3, <2>2, RetriesTheorem DEF PossibleQuery
    <3>2. AnswersAreFounded(input)
      BY <1>3, <2>2, FoundedTheorem
    <3>3. FailuresAreKnown(input)
      BY <1>3, <2>2, FailuresTheorem
    <3> QED
      BY <1>3, <2>2, <3>1, <3>2, <3>3 DEF AnswersAreSound
  <2>3. Init => \/ input \in QueryInputs \/ input \in ServiceInputs
                \/ input.kind \notin {"query", "service"}
    BY DEF Init, ChunkInputs, GraphInputs, PipelineInputs, RequestInputs
  <2> QED
    BY <2>1, <2>2, <2>3 DEF AnswersAreSound
<1>5. AnswersAreSound /\ [Next]_input => AnswersAreSound'
  BY DEF Next, AnswersAreSound
<1> QED
  BY <1>4, <1>5, PTL DEF Spec

-----------------------------------------------------------------------------
(* The chunks: texts, their letters and their lengths.                     *)

Text == Seq(Nat)
Keeps == [p \in Text \X Nat |-> IF IsLetter(p[2]) THEN Append(p[1], p[2]) ELSE p[1]]

\* The letters of a text are collected by a fold.
LEMMA LettersEnd ==
  ASSUME NEW text \in Text
  PROVE  /\ IsFold(Text, Nat, <<>>, Keeps)
         /\ FoldEnd(Text, <<>>, Keeps, text, LettersOf(text))
<1> DEFINE V == Text
           step == Keeps
           base == <<>>
           G(f) == [s \in SUBSET DOMAIN text |->
                      IF s = {} THEN <<>>
                      ELSE IF IsLetter(text[Max(s)]) THEN Append(f[s \ {Max(s)}], text[Max(s)])
                           ELSE f[s \ {Max(s)}]]
           g == CHOOSE f : f = G(f)
<1>1. LettersOf(text) = g[DOMAIN text]
  BY DEF LettersOf, FoldLeft, MapThenFoldSet
<1>2. IsFold(V, Nat, base, step) /\ text \in Seq(Nat)
  BY DEF IsFold, Keeps, Text
<1>3. ASSUME NEW t \in V, NEW x \in Nat
      PROVE  step[<<t, x>>] = IF IsLetter(x) THEN Append(t, x) ELSE t
  BY DEF Keeps
<1> HIDE DEF V, step, base
<1>4. PICK f \in [SUBSET DOMAIN text -> V] : FoldTable(V, Nat, base, step, text, f)
  BY <1>2, TableExists
<1>5. f = G(f)
  <2>1. ASSUME NEW s \in SUBSET DOMAIN text
        PROVE  f[s] = G(f)[s]
    BY <1>3, <1>4 DEF FoldTable, base
  <2> QED
    BY <2>1
<1>6. g = G(g)
  BY <1>5
<1> HIDE DEF g
<1>7. FoldRules(V, Nat, base, step, text, g)
  <2>1. g[{}] = base
    BY <1>6 DEF base
  <2>2. ASSUME NEW s \in SUBSET DOMAIN text, s # {}, g[s \ {Max(s)}] \in V
        PROVE  g[s] = step[<<g[s \ {Max(s)}], text[Max(s)]>>]
    <3>1. text[Max(s)] \in Nat
      BY <1>4, <2>2 DEF FoldTable
    <3> QED
      BY <1>3, <1>6, <2>2, <3>1
  <2> QED
    BY <2>1, <2>2 DEF FoldRules
<1>8. FoldEnd(V, base, step, text, g[DOMAIN text])
  BY <1>2, <1>7, RulesEnd
<1> QED
  BY <1>1, <1>2, <1>8 DEF V, base, step

\* Joining texts is associative, and a token may be appended before or after.
Joined(a, b, c) == (a \o b) \o c = a \o (b \o c)
Appended(a, b, x) == Append(a \o b, x) = a \o Append(b, x)

LEMMA JoinTexts ==
  ASSUME NEW a \in Text, NEW b \in Text, NEW c \in Text
  PROVE  Joined(a, b, c)
<1> DEFINE l == (a \o b) \o c
           r == a \o (b \o c)
           n == Len(a) + Len(b) + Len(c)
<1>1. a \in Seq(Nat) /\ b \in Seq(Nat) /\ c \in Seq(Nat)
  BY DEF Text
<1>2. l \in Seq(Nat) /\ r \in Seq(Nat) /\ Len(l) = n /\ Len(r) = n /\ n \in Nat
  BY <1>1
<1>3. ASSUME NEW i \in 1..n
      PROVE  l[i] = r[i]
  <2>1. CASE i <= Len(a)
    BY <1>1, <2>1
  <2>2. CASE i > Len(a) /\ i <= Len(a) + Len(b)
    BY <1>1, <2>2
  <2>3. CASE i > Len(a) + Len(b)
    BY <1>1, <2>3
  <2> QED
    BY <1>1, <2>1, <2>2, <2>3
<1> HIDE DEF l, r, n
<1>4. l = r
  BY <1>2, <1>3
<1> QED
  BY <1>4 DEF l, r, Joined

LEMMA AppendTokens ==
  ASSUME NEW a \in Text, NEW b \in Text, NEW x \in Nat
  PROVE  Appended(a, b, x)
<1> DEFINE l == Append(a \o b, x)
           r == a \o Append(b, x)
           n == Len(a) + Len(b) + 1
<1>1. a \in Seq(Nat) /\ b \in Seq(Nat)
  BY DEF Text
<1>2. l \in Seq(Nat) /\ r \in Seq(Nat) /\ Len(l) = n /\ Len(r) = n /\ n \in Nat
  BY <1>1
<1>3. ASSUME NEW i \in 1..n
      PROVE  l[i] = r[i]
  <2>1. CASE i <= Len(a)
    BY <1>1, <2>1
  <2>2. CASE i > Len(a) /\ i <= Len(a) + Len(b)
    BY <1>1, <2>2
  <2>3. CASE i > Len(a) + Len(b)
    BY <1>1, <2>3
  <2> QED
    BY <1>1, <2>1, <2>2, <2>3
<1> HIDE DEF l, r, n
<1>4. l = r
  BY <1>2, <1>3
<1> QED
  BY <1>4 DEF l, r, Appended

LEMMA LettersAppend ==
  ASSUME NEW text \in Text, NEW x \in Nat
  PROVE  /\ LettersOf(text) \in Text /\ LettersOf(<<>>) = <<>>
         /\ LettersOf(Append(text, x)) =
              IF IsLetter(x) THEN Append(LettersOf(text), x) ELSE LettersOf(text)
<1> DEFINE V == Text
           step == Keeps
           base == <<>>
           more == Append(text, x)
           end == LettersOf(text)
           next == LettersOf(more)
           none == LettersOf(base)
<1>1. more \in V /\ base \in V /\ text \in Seq(Nat)
  BY DEF Text
<1>2. /\ IsFold(V, Nat, base, step) /\ FoldEnd(V, base, step, text, end)
      /\ FoldEnd(V, base, step, more, next) /\ FoldEnd(V, base, step, <<>>, none)
  <2> HIDE DEF more
  <2> QED
    BY <1>1, LettersEnd
<1> HIDE DEF V, step, end, next, none
<1>3. end \in V /\ next = step[<<end, x>>]
  <2> HIDE DEF base
  <2> QED
    BY <1>1, <1>2, FoldAppended DEF more
<1>4. none = base
  <2> HIDE DEF base
  <2> QED
    BY <1>2, FoldEmpty
<1> QED
  BY <1>3, <1>4 DEF V, step, end, next, none, Keeps

\* Letters are collected of one part after the other.
LEMMA LettersConcat ==
  ASSUME NEW s \in Text, NEW t \in Text
  PROVE  LettersOf(s \o t) = LettersOf(s) \o LettersOf(t)
<1> DEFINE P == {u \in Text : LettersOf(s \o u) = LettersOf(s) \o LettersOf(u)}
<1>1. <<>> \in P
  <2>1. s \o <<>> = s /\ <<>> \in Text
    BY DEF Text
  <2>2. LettersOf(s) \in Text /\ LettersOf(<<>>) = <<>>
    <3>1. 0 \in Nat
      OBVIOUS
    <3> QED
      BY <3>1, LettersAppend
  <2>3. LettersOf(s) \o <<>> = LettersOf(s)
    BY <2>2 DEF Text
  <2> QED
    BY <2>1, <2>2, <2>3
<1>2. ASSUME NEW u \in Text, NEW x \in Nat, u \in P
      PROVE  Append(u, x) \in P
  <2>1. s \o u \in Text /\ Append(u, x) \in Text /\ s \o Append(u, x) = Append(s \o u, x)
    BY DEF Text
  <2>2. LettersOf(s \o u) = LettersOf(s) \o LettersOf(u)
    BY <1>2
  <2>3. LettersOf(s) \in Text /\ LettersOf(u) \in Text
    BY LettersAppend
  <2>4. /\ LettersOf(Append(s \o u, x)) =
             IF IsLetter(x) THEN Append(LettersOf(s \o u), x) ELSE LettersOf(s \o u)
        /\ LettersOf(Append(u, x)) =
             IF IsLetter(x) THEN Append(LettersOf(u), x) ELSE LettersOf(u)
    BY <2>1, LettersAppend
  <2>5. Appended(LettersOf(s), LettersOf(u), x)
    BY <2>3, AppendTokens
  <2> QED
    BY <2>1, <2>2, <2>4, <2>5 DEF Appended
<1>3. Seq(Nat) \subseteq P
  <2> HIDE DEF P
  <2> QED
    BY <1>1, <1>2, EverySequence DEF Text
<1> QED
  BY <1>3 DEF Text

\* Also of one text after the other.
LEMMA LettersOfTexts ==
  ASSUME NEW texts \in Seq(Text), NEW t \in Text
  PROVE  /\ Letters(texts) \in Text /\ Letters(<<>>) = <<>> /\ FlattenSeq(texts) \in Text
         /\ Letters(Append(texts, t)) = Letters(texts) \o LettersOf(t)
<1>1. /\ FlattenSeq(<<>>) = <<>> /\ FlattenSeq(texts) \in Text
      /\ FlattenSeq(Append(texts, t)) = FlattenSeq(texts) \o t
  BY FlattenAppend DEF Text
<1>2. LettersOf(FlattenSeq(texts)) \in Text /\ LettersOf(<<>>) = <<>>
  <2>1. 0 \in Nat
    OBVIOUS
  <2> QED
    BY <1>1, <2>1, LettersAppend
<1>3. LettersOf(FlattenSeq(texts) \o t) = LettersOf(FlattenSeq(texts)) \o LettersOf(t)
  BY <1>1, LettersConcat
<1> QED
  BY <1>1, <1>2, <1>3 DEF Letters

\* One text alone, and a list after another.
LEMMA LettersOfLists ==
  ASSUME NEW texts \in Seq(Text), NEW more \in Seq(Text)
  PROVE  Letters(texts \o more) = Letters(texts) \o Letters(more)
<1> DEFINE P == {u \in Seq(Text) : Letters(texts \o u) = Letters(texts) \o Letters(u)}
<1>0. <<>> \in Text
  BY DEF Text
<1>1. <<>> \in P
  <2>1. texts \o <<>> = texts /\ <<>> \in Seq(Text)
    OBVIOUS
  <2>2. Letters(texts) \in Text /\ Letters(<<>>) = <<>>
    BY <1>0, LettersOfTexts
  <2>3. Letters(texts) \o <<>> = Letters(texts)
    BY <2>2 DEF Text
  <2> QED
    BY <2>1, <2>2, <2>3
<1>2. ASSUME NEW u \in Seq(Text), NEW x \in Text, u \in P
      PROVE  Append(u, x) \in P
  <2>1. /\ texts \o u \in Seq(Text) /\ Append(u, x) \in Seq(Text)
        /\ texts \o Append(u, x) = Append(texts \o u, x)
    OBVIOUS
  <2>2. Letters(texts \o u) = Letters(texts) \o Letters(u)
    BY <1>2
  <2>3. Letters(texts) \in Text /\ Letters(u) \in Text
    BY <1>0, LettersOfTexts
  <2>4. /\ Letters(Append(texts \o u, x)) = Letters(texts \o u) \o LettersOf(x)
        /\ Letters(Append(u, x)) = Letters(u) \o LettersOf(x)
    BY <2>1, LettersOfTexts
  <2>5. LettersOf(x) \in Text
    <3>1. 0 \in Nat
      OBVIOUS
    <3> QED
      BY <3>1, LettersAppend
  <2>6. Joined(Letters(texts), Letters(u), LettersOf(x))
    BY <2>3, <2>5, JoinTexts
  <2> QED
    BY <2>1, <2>2, <2>4, <2>6 DEF Joined
<1>3. Seq(Text) \subseteq P
  <2> HIDE DEF P
  <2> QED
    BY <1>1, <1>2, EverySequence
<1> QED
  BY <1>3

LEMMA LettersOfOne ==
  ASSUME NEW t \in Text
  PROVE  Letters(<<t>>) = LettersOf(t)
<1>1. <<>> \in Seq(Text) /\ Append(<<>>, t) = <<t>>
  OBVIOUS
<1>2. Letters(<<>>) = <<>> /\ Letters(Append(<<>>, t)) = Letters(<<>>) \o LettersOf(t)
  BY <1>1, LettersOfTexts
<1>3. LettersOf(t) \in Text
  <2>1. 0 \in Nat
    OBVIOUS
  <2> QED
    BY <2>1, LettersAppend
<1>4. <<>> \o LettersOf(t) = LettersOf(t)
  BY <1>3 DEF Text
<1> QED
  BY <1>1, <1>2, <1>4

\* A token goes to the last item, a delimiter begins another one.
Divides(d) ==
  [p \in (Seq(Text) \ {<<>>}) \X Nat |->
     IF p[2] = d THEN Append(p[1], <<>>)
     ELSE Append(Front(p[1]), Append(Last(p[1]), p[2]))]

\* Dividing a text is a fold.
LEMMA SplitEnd ==
  ASSUME NEW text \in Text, NEW d \in Nat
  PROVE  /\ IsFold(Seq(Text) \ {<<>>}, Nat, << <<>> >>, Divides(d))
         /\ FoldEnd(Seq(Text) \ {<<>>}, << <<>> >>, Divides(d), text, SplitAt(text, d))
<1> DEFINE V == Seq(Text) \ {<<>>}
           step == Divides(d)
           base == << <<>> >>
           G(f) == [s \in SUBSET DOMAIN text |->
                      IF s = {} THEN << <<>> >>
                      ELSE IF text[Max(s)] = d THEN Append(f[s \ {Max(s)}], <<>>)
                           ELSE Append(Front(f[s \ {Max(s)}]), Append(Last(f[s \ {Max(s)}]), text[Max(s)]))]
           g == CHOOSE f : f = G(f)
<1>1. SplitAt(text, d) = g[DOMAIN text]
  BY DEF SplitAt, FoldLeft, MapThenFoldSet
<1>2. IsFold(V, Nat, base, step) /\ text \in Seq(Nat)
  <2>1. <<>> \in Text /\ text \in Seq(Nat)
    BY DEF Text
  <2>2. base \in V
    BY <2>1
  <2>3. ASSUME NEW items \in V, NEW x \in Nat
        PROVE  Append(items, <<>>) \in V /\ Append(Front(items), Append(Last(items), x)) \in V
    <3>1. Front(items) \in Seq(Text) /\ Last(items) \in Text
      BY LastAppended
    <3>2. Append(Last(items), x) \in Text
      BY <3>1 DEF Text
    <3>3. \A list \in Seq(Text), t \in Text : Append(list, t) \in V
      OBVIOUS
    <3>4. items \in Seq(Text)
      OBVIOUS
    <3> HIDE DEF V
    <3> QED
      BY <2>1, <3>1, <3>2, <3>3, <3>4
  <2> HIDE DEF V, base
  <2>4. step \in [V \X Nat -> V]
    BY <2>3 DEF Divides, V
  <2> QED
    BY <2>1, <2>2, <2>4 DEF IsFold
<1>3. ASSUME NEW items \in V, NEW x \in Nat
      PROVE  step[<<items, x>>] = IF x = d THEN Append(items, <<>>)
                                  ELSE Append(Front(items), Append(Last(items), x))
  BY DEF Divides
<1> HIDE DEF V, step, base
<1>4. PICK f \in [SUBSET DOMAIN text -> V] : FoldTable(V, Nat, base, step, text, f)
  BY <1>2, TableExists
<1>5. f = G(f)
  <2>1. ASSUME NEW s \in SUBSET DOMAIN text
        PROVE  f[s] = G(f)[s]
    BY <1>3, <1>4 DEF FoldTable, base
  <2> QED
    BY <2>1
<1>6. g = G(g)
  BY <1>5
<1> HIDE DEF g
<1>7. FoldRules(V, Nat, base, step, text, g)
  <2>1. g[{}] = base
    BY <1>6 DEF base
  <2>2. ASSUME NEW s \in SUBSET DOMAIN text, s # {}, g[s \ {Max(s)}] \in V
        PROVE  g[s] = step[<<g[s \ {Max(s)}], text[Max(s)]>>]
    <3>1. text[Max(s)] \in Nat
      BY <1>4, <2>2 DEF FoldTable
    <3> QED
      BY <1>3, <1>6, <2>2, <3>1
  <2> QED
    BY <2>1, <2>2 DEF FoldRules
<1>8. FoldEnd(V, base, step, text, g[DOMAIN text])
  BY <1>2, <1>7, RulesEnd
<1> QED
  BY <1>1, <1>2, <1>8 DEF V, base, step

LEMMA SplitAppend ==
  ASSUME NEW text \in Text, NEW x \in Nat, NEW d \in Nat
  PROVE  /\ SplitAt(text, d) \in Seq(Text) \ {<<>>} /\ SplitAt(<<>>, d) = << <<>> >>
         /\ SplitAt(Append(text, x), d) =
              IF x = d THEN Append(SplitAt(text, d), <<>>)
              ELSE Append(Front(SplitAt(text, d)), Append(Last(SplitAt(text, d)), x))
<1> DEFINE V == Seq(Text) \ {<<>>}
           step == Divides(d)
           base == << <<>> >>
           more == Append(text, x)
           end == SplitAt(text, d)
           next == SplitAt(more, d)
           none == SplitAt(<<>>, d)
<1>1. more \in Text /\ <<>> \in Text /\ text \in Seq(Nat)
  BY DEF Text
<1>2. /\ IsFold(V, Nat, base, step) /\ FoldEnd(V, base, step, text, end)
      /\ FoldEnd(V, base, step, more, next) /\ FoldEnd(V, base, step, <<>>, none)
  <2> HIDE DEF more
  <2> QED
    BY <1>1, SplitEnd
<1> HIDE DEF V, step, end, next, none, base
<1>3. end \in V /\ next = step[<<end, x>>]
  BY <1>1, <1>2, FoldAppended DEF more
<1>4. none = base
  BY <1>2, FoldEmpty
<1>5. step[<<end, x>>] = IF x = d THEN Append(end, <<>>)
                         ELSE Append(Front(end), Append(Last(end), x))
  BY <1>3 DEF step, Divides, V
<1> QED
  BY <1>3, <1>4, <1>5 DEF V, base, end, next, none

\* The items between delimiters have none.
LEMMA SplitItems ==
  ASSUME NEW T \in SUBSET Nat, NEW text \in Seq(T), NEW d \in Nat
  PROVE  SplitAt(text, d) \in Seq(Seq(T \ {d}))
<1> DEFINE Item == Seq(T \ {d})
           P == {u \in Seq(T) : SplitAt(u, d) \in Seq(Item)}
<1>1. <<>> \in Item /\ Seq(T) \subseteq Text
  <2>1. ASSUME NEW u \in Seq(T)
        PROVE  u \in Seq(Nat)
    <3>1. Len(u) \in Nat /\ u \in [1..Len(u) -> T]
      OBVIOUS
    <3>2. u \in [1..Len(u) -> Nat]
      BY <3>1
    <3> QED
      BY <3>1, <3>2
  <2> QED
    BY <2>1 DEF Text
<1>2. <<>> \in P
  <2>1. SplitAt(<<>>, d) = << <<>> >>
    <3>1. 0 \in Nat /\ <<>> \in Text
      BY DEF Text
    <3> QED
      BY <3>1, SplitAppend
  <2>2. << <<>> >> \in Seq(Item)
    BY <1>1
  <2>3. <<>> \in Seq(T)
    OBVIOUS
  <2> HIDE DEF Item
  <2> QED
    BY <2>1, <2>2, <2>3
<1>3. ASSUME NEW u \in Seq(T), NEW x \in T, u \in P
      PROVE  Append(u, x) \in P
  <2> DEFINE items == SplitAt(u, d)
  <2>1. /\ items \in Seq(Text) \ {<<>>}
        /\ SplitAt(Append(u, x), d) = IF x = d THEN Append(items, <<>>)
                                      ELSE Append(Front(items), Append(Last(items), x))
    <3>1. u \in Text /\ x \in Nat
      BY <1>1
    <3> QED
      BY <3>1, SplitAppend
  <2>2. items \in Seq(Item) /\ items # <<>>
    BY <1>3, <2>1
  <2> HIDE DEF items
  <2>3. Front(items) \in Seq(Item) /\ Last(items) \in Item
    <3> HIDE DEF Item
    <3> QED
      BY <2>2, LastAppended
  <2>4. x # d => Append(Last(items), x) \in Item
    BY <2>3
  <2>5. Append(u, x) \in Seq(T)
    OBVIOUS
  <2>6. \A list \in Seq(Item), t \in Item : Append(list, t) \in Seq(Item)
    OBVIOUS
  <2>7. SplitAt(Append(u, x), d) \in Seq(Item)
    <3> HIDE DEF Item, P
    <3> QED
      BY <1>1, <2>1, <2>2, <2>3, <2>4, <2>6
  <2> QED
    BY <2>5, <2>7
<1>4. Seq(T) \subseteq P
  <2> HIDE DEF P
  <2> QED
    BY <1>2, <1>3, EverySequence
<1> QED
  BY <1>4

\* Delimiters are no letters, so that their items have the letters of the text.
LEMMA SplitLetters ==
  ASSUME NEW text \in Text, NEW d \in Nat, ~IsLetter(d)
  PROVE  Letters(SplitAt(text, d)) = LettersOf(text)
<1> DEFINE P == {u \in Text : Letters(SplitAt(u, d)) = LettersOf(u)}
<1>1. <<>> \in Text
  BY DEF Text
<1>2. \A t \in Text : LettersOf(t) \in Text /\ LettersOf(<<>>) = <<>> /\ LettersOf(t) \o <<>> = LettersOf(t)
  <2> SUFFICES ASSUME NEW t \in Text
               PROVE  LettersOf(t) \in Text /\ LettersOf(<<>>) = <<>> /\ LettersOf(t) \o <<>> = LettersOf(t)
    OBVIOUS
  <2>1. 0 \in Nat
    OBVIOUS
  <2>2. LettersOf(t) \in Text /\ LettersOf(<<>>) = <<>>
    BY <2>1, LettersAppend
  <2> QED
    BY <2>2 DEF Text
<1>3. <<>> \in P
  <2>1. SplitAt(<<>>, d) = << <<>> >>
    BY <1>1, SplitAppend
  <2>2. Letters(<< <<>> >>) = LettersOf(<<>>)
    BY <1>1, LettersOfOne
  <2> QED
    BY <1>1, <2>1, <2>2
<1>4. ASSUME NEW u \in Text, NEW x \in Nat, u \in P
      PROVE  Append(u, x) \in P
  <2> DEFINE items == SplitAt(u, d)
             last == Last(items)
             front == Front(items)
  <2>1. /\ items \in Seq(Text) \ {<<>>}
        /\ SplitAt(Append(u, x), d) = IF x = d THEN Append(items, <<>>)
                                      ELSE Append(front, Append(last, x))
    BY SplitAppend
  <2>2. Letters(items) = LettersOf(u) /\ Append(u, x) \in Text
    BY <1>4 DEF Text
  <2> HIDE DEF items
  <2>3. front \in Seq(Text) /\ last \in Text /\ items = Append(front, last)
    BY <2>1, LastAppended
  <2> HIDE DEF last, front, P
  <2>4. LettersOf(Append(u, x)) = IF IsLetter(x) THEN Append(LettersOf(u), x) ELSE LettersOf(u)
    BY LettersAppend
  <2>5. CASE x = d
    <3>1. Letters(Append(items, <<>>)) = Letters(items) \o LettersOf(<<>>)
      BY <1>1, <2>1, LettersOfTexts
    <3>2. Letters(items) \o LettersOf(<<>>) = LettersOf(u)
      BY <1>2, <2>2
    <3> QED
      BY <2>1, <2>2, <2>4, <2>5, <3>1, <3>2 DEF P
  <2>6. CASE x # d
    <3>1. Append(last, x) \in Text
      BY <2>3 DEF Text
    <3>2. Letters(Append(front, Append(last, x))) = Letters(front) \o LettersOf(Append(last, x))
      BY <2>3, <3>1, LettersOfTexts
    <3>3. LettersOf(Append(last, x)) = IF IsLetter(x) THEN Append(LettersOf(last), x) ELSE LettersOf(last)
      BY <2>3, LettersAppend
    <3>4. Letters(items) = Letters(front) \o LettersOf(last)
      BY <2>3, LettersOfTexts
    <3>5. Letters(front) \in Text /\ LettersOf(last) \in Text
      BY <1>2, <2>3, LettersOfTexts
    <3>6. Appended(Letters(front), LettersOf(last), x)
      BY <3>5, AppendTokens
    <3> QED
      BY <2>1, <2>2, <2>4, <2>6, <3>2, <3>3, <3>4, <3>6 DEF P, Appended
  <2> QED
    BY <2>5, <2>6
<1>5. Seq(Nat) \subseteq P
  <2> HIDE DEF P
  <2> QED
    BY <1>3, <1>4, EverySequence DEF Text
<1> QED
  BY <1>5 DEF Text

\* The length of a text, by its last token.
LEMMA LengthAppend ==
  ASSUME NEW text \in Text, NEW x \in Nat
  PROVE  /\ TextLen(text) \in Nat /\ TextLen(<<>>) = 0
         /\ TextLen(Append(text, x)) = TextLen(text) + (IF x < Blank THEN 2 ELSE 1)
<1> DEFINE n == Len(text)
           more == Append(text, x)
           S == {i \in DOMAIN text : text[i] < Blank}
           M == {i \in DOMAIN more : more[i] < Blank}
<1>1. /\ n \in Nat /\ DOMAIN text = 1..n /\ DOMAIN more = 1..(n + 1) /\ Len(more) = n + 1
      /\ more[n + 1] = x /\ \A i \in 1..n : more[i] = text[i]
  BY DEF Text
<1> HIDE DEF n, more
<1>2. /\ IsFiniteSet(1..n) /\ S \in SUBSET (1..n)
      /\ M = IF x < Blank THEN S \cup {n + 1} ELSE S
      /\ n + 1 \notin S
  <2>1. IsFiniteSet(1..n)
    BY <1>1, FS_Interval
  <2>2. S \in SUBSET (1..n) /\ n + 1 \notin S
    BY <1>1
  <2>3. ASSUME NEW i
        PROVE  i \in M <=> i \in S \/ (i = n + 1 /\ x < Blank)
    BY <1>1
  <2> HIDE DEF S, M
  <2> QED
    BY <2>1, <2>2, <2>3
<1> HIDE DEF S, M
<1>3. IsFiniteSet(S)
  BY <1>2, FS_Subset
<1>4. Cardinality(S) \in Nat /\ Cardinality(S \cup {n + 1}) = Cardinality(S) + 1
  BY <1>2, <1>3, FS_CardinalityType, FS_AddElement
<1>5. TextLen(text) = n + Cardinality(S) /\ TextLen(more) = (n + 1) + Cardinality(M)
  BY <1>1 DEF TextLen, S, M, n
<1>6. TextLen(<<>>) = 0
  <2>1. {i \in DOMAIN <<>> : <<>>[i] < Blank} = {}
    OBVIOUS
  <2>2. Cardinality({}) = 0 /\ Len(<<>>) = 0
    BY FS_EmptySet
  <2> QED
    BY <2>1, <2>2 DEF TextLen
<1>7. TextLen(more) = TextLen(text) + (IF x < Blank THEN 2 ELSE 1)
  <2>1. CASE x < Blank
    BY <1>1, <1>2, <1>4, <1>5, <2>1
  <2>2. CASE ~(x < Blank)
    BY <1>1, <1>2, <1>4, <1>5, <2>2
  <2> QED
    BY <2>1, <2>2
<1> QED
  BY <1>1, <1>4, <1>5, <1>6, <1>7 DEF more

\* A text without delimiters has the length of its sequence.
LEMMA PlainLength ==
  ASSUME NEW T, T \subseteq {x \in Nat : x >= Blank}, NEW text \in Seq(T)
  PROVE  TextLen(text) = Len(text)
<1>1. {i \in DOMAIN text : text[i] < Blank} = {}
  <2>1. ASSUME NEW i \in DOMAIN text
        PROVE  ~(text[i] < Blank)
    <3>1. text[i] \in T
      OBVIOUS
    <3>2. text[i] \in Nat /\ text[i] >= Blank
      BY <3>1
    <3> QED
      BY <3>2 DEF Blank
  <2> QED
    BY <2>1
<1>2. Cardinality({}) = 0 /\ Len(text) \in Nat
  BY FS_EmptySet
<1>3. TextLen(text) = Len(text) + 0
  BY <1>1, <1>2 DEF TextLen
<1> QED
  BY <1>2, <1>3

\* Lengths add up.
LEMMA LengthConcat ==
  ASSUME NEW s \in Text, NEW t \in Text
  PROVE  TextLen(s \o t) = TextLen(s) + TextLen(t)
<1> DEFINE P == {u \in Text : TextLen(s \o u) = TextLen(s) + TextLen(u)}
<1>1. <<>> \in P
  <2>1. s \o <<>> = s /\ <<>> \in Text /\ 0 \in Nat
    BY DEF Text
  <2>2. TextLen(s) \in Nat /\ TextLen(<<>>) = 0
    BY <2>1, LengthAppend
  <2> QED
    BY <2>1, <2>2
<1>2. ASSUME NEW u \in Text, NEW x \in Nat, u \in P
      PROVE  Append(u, x) \in P
  <2> DEFINE k == IF x < Blank THEN 2 ELSE 1
  <2>1. s \o u \in Text /\ Append(u, x) \in Text /\ s \o Append(u, x) = Append(s \o u, x)
    BY DEF Text
  <2>2. TextLen(s \o u) = TextLen(s) + TextLen(u) /\ k \in Nat
    BY <1>2
  <2>3. TextLen(s) \in Nat /\ TextLen(u) \in Nat
    BY LengthAppend
  <2>4. TextLen(Append(s \o u, x)) = TextLen(s \o u) + k /\ TextLen(Append(u, x)) = TextLen(u) + k
    BY <2>1, LengthAppend
  <2> HIDE DEF k
  <2>5. TextLen(s \o Append(u, x)) = TextLen(s) + TextLen(Append(u, x))
    BY <2>1, <2>2, <2>3, <2>4
  <2> QED
    BY <2>1, <2>5
<1>3. Seq(Nat) \subseteq P
  <2> HIDE DEF P
  <2> QED
    BY <1>1, <1>2, EverySequence DEF Text
<1> QED
  BY <1>3 DEF Text

\* What BuildSplitList makes of its items, one by one.
Group == [blocks : Seq(Text), tmp : Text]

Added(acc, item, d, max) ==
  LET joined == acc.tmp \o <<d>> \o item IN
  IF TextLen(joined) > max
    THEN IF acc.tmp = <<>> THEN [acc EXCEPT !.blocks = Append(@, item)]
         ELSE [blocks |-> Append(acc.blocks, acc.tmp), tmp |-> item]
    ELSE [acc EXCEPT !.tmp = IF @ = <<>> THEN item ELSE joined]

Grouped(items, d, max) ==
  FoldLeft(LAMBDA acc, item : Added(acc, item, d, max), [blocks |-> <<>>, tmp |-> <<>>], items)

LEMMA BuildGroups ==
  ASSUME NEW text, NEW d, NEW max
  PROVE  LET end == Grouped(SplitAt(text, d), d, max) IN
         BuildSplitList(text, d, max) = AppendText(end.blocks, end.tmp)
BY DEF BuildSplitList, Grouped, Added, FoldLeft, MapThenFoldSet

\* The cases of an item that is added.
LEMMA AddedCases ==
  ASSUME NEW acc \in Group, NEW item \in Text, NEW d \in Nat, NEW max
  PROVE  LET joined == acc.tmp \o <<d>> \o item
             new == Added(acc, item, d, max) IN
         /\ joined \in Text
         /\ new \in Group
         /\ TextLen(joined) > max /\ acc.tmp = <<>> =>
              new.blocks = Append(acc.blocks, item) /\ new.tmp = acc.tmp
         /\ TextLen(joined) > max /\ acc.tmp # <<>> =>
              new.blocks = Append(acc.blocks, acc.tmp) /\ new.tmp = item
         /\ ~(TextLen(joined) > max) =>
              new.blocks = acc.blocks /\ new.tmp = IF acc.tmp = <<>> THEN item ELSE joined
<1> DEFINE joined == acc.tmp \o <<d>> \o item
<1>1. acc.blocks \in Seq(Text) /\ acc.tmp \in Text /\ acc = [blocks |-> acc.blocks, tmp |-> acc.tmp]
  BY DEF Group
<1>2. joined \in Text
  BY <1>1 DEF Text
<1>3. \A list \in Seq(Text), t \in Text : Append(list, t) \in Seq(Text)
  OBVIOUS
<1> HIDE DEF joined
<1>4. Added(acc, item, d, max) =
        IF TextLen(joined) > max
        THEN IF acc.tmp = <<>> THEN [acc EXCEPT !.blocks = Append(@, item)]
             ELSE [blocks |-> Append(acc.blocks, acc.tmp), tmp |-> item]
        ELSE [acc EXCEPT !.tmp = IF @ = <<>> THEN item ELSE joined]
  BY DEF Added, joined
<1>5. CASE TextLen(joined) > max /\ acc.tmp = <<>>
  BY <1>1, <1>2, <1>3, <1>4, <1>5 DEF Group, joined
<1>6. CASE TextLen(joined) > max /\ acc.tmp # <<>>
  BY <1>1, <1>2, <1>3, <1>4, <1>6 DEF Group, joined
<1>7. CASE ~(TextLen(joined) > max)
  BY <1>1, <1>2, <1>3, <1>4, <1>7 DEF Group, joined
<1> QED
  BY <1>5, <1>6, <1>7

Adds(d, max) == [p \in Group \X Text |-> Added(p[1], p[2], d, max)]

\* Grouping is a fold of the items.
LEMMA GroupEnd ==
  ASSUME NEW items \in Seq(Text), NEW d \in Nat, NEW max
  PROVE  /\ IsFold(Group, Text, [blocks |-> <<>>, tmp |-> <<>>], Adds(d, max))
         /\ FoldEnd(Group, [blocks |-> <<>>, tmp |-> <<>>], Adds(d, max), items, Grouped(items, d, max))
<1> DEFINE V == Group
           step == Adds(d, max)
           base == [blocks |-> <<>>, tmp |-> <<>>]
           G(f) == [s \in SUBSET DOMAIN items |->
                      IF s = {} THEN base
                      ELSE Added(f[s \ {Max(s)}], items[Max(s)], d, max)]
           g == CHOOSE f : f = G(f)
<1>1. Grouped(items, d, max) = g[DOMAIN items]
  BY DEF Grouped, FoldLeft, MapThenFoldSet
<1>2. IsFold(V, Text, base, step)
  <2>1. base \in V
    BY DEF Group, Text
  <2>2. \A p \in V \X Text : Added(p[1], p[2], d, max) \in V
    BY AddedCases
  <2>3. step \in [V \X Text -> V]
    BY <2>2 DEF Adds
  <2> HIDE DEF base, V, step
  <2> QED
    BY <2>1, <2>3 DEF IsFold
<1>3. ASSUME NEW acc \in V, NEW item \in Text
      PROVE  step[<<acc, item>>] = Added(acc, item, d, max)
  BY DEF Adds
<1> HIDE DEF V, step, base
<1>4. PICK f \in [SUBSET DOMAIN items -> V] : FoldTable(V, Text, base, step, items, f)
  BY <1>2, TableExists
<1>5. f = G(f)
  <2>1. ASSUME NEW s \in SUBSET DOMAIN items
        PROVE  f[s] = G(f)[s]
    BY <1>3, <1>4 DEF FoldTable
  <2> QED
    BY <2>1
<1>6. g = G(g)
  BY <1>5
<1> HIDE DEF g
<1>7. FoldRules(V, Text, base, step, items, g)
  <2>1. g[{}] = base
    BY <1>6
  <2>2. ASSUME NEW s \in SUBSET DOMAIN items, s # {}, g[s \ {Max(s)}] \in V
        PROVE  g[s] = step[<<g[s \ {Max(s)}], items[Max(s)]>>]
    <3>1. items[Max(s)] \in Text
      BY <1>4, <2>2 DEF FoldTable
    <3> QED
      BY <1>3, <1>6, <2>2, <3>1
  <2> QED
    BY <2>1, <2>2 DEF FoldRules
<1>8. FoldEnd(V, base, step, items, g[DOMAIN items])
  BY <1>2, <1>7, RulesEnd
<1> QED
  BY <1>1, <1>2, <1>8 DEF V, base, step

LEMMA GroupAppend ==
  ASSUME NEW items \in Seq(Text), NEW item \in Text, NEW d \in Nat, NEW max
  PROVE  /\ Grouped(items, d, max) \in Group
         /\ Grouped(<<>>, d, max) = [blocks |-> <<>>, tmp |-> <<>>]
         /\ Grouped(Append(items, item), d, max) = Added(Grouped(items, d, max), item, d, max)
<1> DEFINE V == Group
           step == Adds(d, max)
           base == [blocks |-> <<>>, tmp |-> <<>>]
           more == Append(items, item)
           end == Grouped(items, d, max)
           next == Grouped(more, d, max)
           none == Grouped(<<>>, d, max)
<1>1. more \in Seq(Text) /\ <<>> \in Seq(Text)
  OBVIOUS
<1>2. /\ IsFold(V, Text, base, step) /\ FoldEnd(V, base, step, items, end)
      /\ FoldEnd(V, base, step, more, next) /\ FoldEnd(V, base, step, <<>>, none)
  <2> HIDE DEF more
  <2> QED
    BY <1>1, GroupEnd
<1> HIDE DEF V, step, end, next, none, base
<1>3. end \in V /\ next = step[<<end, item>>]
  BY <1>1, <1>2, FoldAppended DEF more
<1>4. none = base
  BY <1>2, FoldEmpty
<1>5. step[<<end, item>>] = Added(end, item, d, max)
  BY <1>3 DEF step, Adds, V
<1> QED
  BY <1>3, <1>4, <1>5 DEF V, base, end, next, none

\* Nothing has been grouped before.
LEMMA GroupNone ==
  ASSUME NEW d \in Nat, NEW max
  PROVE  Grouped(<<>>, d, max) = [blocks |-> <<>>, tmp |-> <<>>]
<1>1. <<>> \in Text /\ <<>> \in Seq(Text)
  BY DEF Text
<1> QED
  BY <1>1, GroupAppend

\* A block has a size that fits, or it is an item and has no delimiter.
LEMMA BuildFits ==
  ASSUME NEW T \in SUBSET Nat, NEW text \in Seq(T), NEW d \in T, NEW max \in Nat
  PROVE  BuildSplitList(text, d, max) \in
           Seq({t \in Seq(T) : TextLen(t) <= max \/ t \in Seq(T \ {d})})
<1> DEFINE Item == Seq(T \ {d})
           Block == {t \in Seq(T) : TextLen(t) <= max \/ t \in Item}
           Good(acc) == acc.blocks \in Seq(Block) /\ acc.tmp \in Block
           P == {u \in Seq(Item) : Good(Grouped(u, d, max))}
<1>1. /\ <<>> \in Item /\ Item \subseteq Seq(T) /\ Seq(T) \subseteq Text /\ d \in Nat
      /\ Seq(Item) \subseteq Seq(Text)
  <2>1. Item \subseteq Seq(T) /\ Seq(T) \subseteq Text
    BY SmallerSequences DEF Text
  <2>2. Seq(Item) \subseteq Seq(Text)
    <3> HIDE DEF Item
    <3>1. Item \subseteq Text
      BY <2>1
    <3> QED
      BY <3>1, SmallerSequences
  <2> QED
    BY <2>1, <2>2
<1>2. Item \subseteq Block /\ Block \subseteq Seq(T) /\ <<>> \in Block
  BY <1>1
<1>3. \A list \in Seq(Block), t \in Block : Append(list, t) \in Seq(Block)
  OBVIOUS
<1>4. \A s \in Seq(T), t \in Seq(T) : s \o <<d>> \o t \in Seq(T)
  OBVIOUS
<1>5. \A t \in Seq(T) : TextLen(t) <= max => t \in Block
  OBVIOUS
<1>6. \A t \in Seq(T) : TextLen(t) \in Nat
  <2> SUFFICES ASSUME NEW t \in Seq(T)
               PROVE  TextLen(t) \in Nat
    OBVIOUS
  <2>1. t \in Text /\ 0 \in Nat
    BY <1>1
  <2> QED
    BY <2>1, LengthAppend
<1> HIDE DEF Item, Block
<1>7. <<>> \in P
  <2>1. <<>> \in Text /\ <<>> \in Seq(Text) /\ <<>> \in Seq(Item) /\ <<>> \in Seq(Block)
    BY DEF Text
  <2>2. Grouped(<<>>, d, max) = [blocks |-> <<>>, tmp |-> <<>>]
    BY <1>1, GroupNone
  <2> QED
    BY <1>2, <2>1, <2>2
<1>8. ASSUME NEW u \in Seq(Item), NEW item \in Item, u \in P
      PROVE  Append(u, item) \in P
  <2> DEFINE acc == Grouped(u, d, max)
             joined == acc.tmp \o <<d>> \o item
             new == Added(acc, item, d, max)
  <2>1. acc \in Group /\ new = Grouped(Append(u, item), d, max)
    <3>1. u \in Seq(Text) /\ item \in Text
      BY <1>1
    <3> QED
      BY <1>1, <3>1, GroupAppend
  <2>2. Good(acc) /\ Append(u, item) \in Seq(Item)
    BY <1>8
  <2>3. item \in Text /\ item \in Block /\ acc.tmp \in Seq(T) /\ item \in Seq(T)
    BY <1>1, <1>2, <2>2
  <2>4. joined \in Seq(T)
    BY <1>4, <2>3
  <2>5. /\ TextLen(joined) > max /\ acc.tmp = <<>> =>
             new.blocks = Append(acc.blocks, item) /\ new.tmp = acc.tmp
        /\ TextLen(joined) > max /\ acc.tmp # <<>> =>
             new.blocks = Append(acc.blocks, acc.tmp) /\ new.tmp = item
        /\ ~(TextLen(joined) > max) =>
             new.blocks = acc.blocks /\ new.tmp = IF acc.tmp = <<>> THEN item ELSE joined
    <3>1. acc \in Group /\ item \in Text /\ d \in Nat
      BY <1>1, <2>1, <2>3
    <3> HIDE DEF acc
    <3> QED
      BY <3>1, AddedCases
  <2>6. ~(TextLen(joined) > max) => joined \in Block
    <3>1. TextLen(joined) \in Nat
      BY <1>6, <2>4
    <3>2. ~(TextLen(joined) > max) => TextLen(joined) <= max
      BY <3>1
    <3> QED
      BY <1>5, <2>4, <3>2
  <2> HIDE DEF acc, joined, new, P
  <2>7. Good(new)
    BY <1>3, <2>2, <2>3, <2>5, <2>6
  <2> QED
    BY <2>1, <2>2, <2>7 DEF P
<1>9. SplitAt(text, d) \in Seq(Item)
  BY <1>1, SplitItems DEF Item
<1>10. Good(Grouped(SplitAt(text, d), d, max))
  <2>1. Seq(Item) \subseteq P
    <3> HIDE DEF P
    <3> QED
      BY <1>7, <1>8, EverySequence
  <2> QED
    BY <1>9, <2>1
<1>11. BuildSplitList(text, d, max) \in Seq(Block)
  <2> DEFINE end == Grouped(SplitAt(text, d), d, max)
  <2>1. BuildSplitList(text, d, max) = AppendText(end.blocks, end.tmp)
    BY BuildGroups
  <2> QED
    BY <1>3, <1>10, <2>1 DEF AppendText
<1> QED
  BY <1>11 DEF Block, Item

\* The blocks have the letters of the text.
LEMMA BuildLetters ==
  ASSUME NEW text \in Text, NEW d \in Nat, ~IsLetter(d), NEW max \in Nat
  PROVE  /\ BuildSplitList(text, d, max) \in Seq(Text)
         /\ Letters(BuildSplitList(text, d, max)) = LettersOf(text)
<1> DEFINE All(acc) == Letters(acc.blocks) \o LettersOf(acc.tmp)
           P == {u \in Seq(Text) : All(Grouped(u, d, max)) = Letters(u)}
<1>1. /\ <<>> \in Text /\ LettersOf(<<>>) = <<>> /\ Letters(<<>>) = <<>>
      /\ \A t \in Text : LettersOf(t) \in Text
      /\ \A list \in Seq(Text) : Letters(list) \in Text
      /\ \A s \in Text : s \o <<>> = s /\ <<>> \o s = s
  <2>1. <<>> \in Text /\ 0 \in Nat /\ <<>> \in Seq(Text)
    BY DEF Text
  <2>2. \A s \in Text : s \o <<>> = s /\ <<>> \o s = s
    BY DEF Text
  <2>3. LettersOf(<<>>) = <<>> /\ \A t \in Text : LettersOf(t) \in Text
    BY <2>1, LettersAppend
  <2>4. Letters(<<>>) = <<>> /\ \A list \in Seq(Text) : Letters(list) \in Text
    BY <2>1, LettersOfTexts
  <2> QED
    BY <2>1, <2>2, <2>3, <2>4
<1>2. <<>> \in P
  <2>1. Grouped(<<>>, d, max) = [blocks |-> <<>>, tmp |-> <<>>]
    BY GroupNone
  <2>2. Grouped(<<>>, d, max).blocks = <<>> /\ Grouped(<<>>, d, max).tmp = <<>>
    BY <2>1
  <2>3. All(Grouped(<<>>, d, max)) = <<>> \o <<>>
    BY <1>1, <2>2
  <2>4. <<>> \in Seq(Text) /\ <<>> \o <<>> = <<>>
    BY <1>1
  <2> QED
    BY <1>1, <2>3, <2>4
<1>3. ASSUME NEW u \in Seq(Text), NEW item \in Text, u \in P
      PROVE  Append(u, item) \in P
  <2> DEFINE acc == Grouped(u, d, max)
             joined == acc.tmp \o <<d>> \o item
             new == Added(acc, item, d, max)
             B == Letters(acc.blocks)
             K == LettersOf(acc.tmp)
             L == LettersOf(item)
  <2>1. acc \in Group /\ new = Grouped(Append(u, item), d, max)
    BY GroupAppend
  <2>2. B \o K = Letters(u) /\ Append(u, item) \in Seq(Text) /\ Letters(Append(u, item)) = Letters(u) \o L
    <3>1. All(acc) = Letters(u)
      BY <1>3
    <3> QED
      BY <3>1, LettersOfTexts
  <2>3. /\ joined \in Text
        /\ TextLen(joined) > max /\ acc.tmp = <<>> =>
             new.blocks = Append(acc.blocks, item) /\ new.tmp = acc.tmp
        /\ TextLen(joined) > max /\ acc.tmp # <<>> =>
             new.blocks = Append(acc.blocks, acc.tmp) /\ new.tmp = item
        /\ ~(TextLen(joined) > max) =>
             new.blocks = acc.blocks /\ new.tmp = IF acc.tmp = <<>> THEN item ELSE joined
    BY <2>1, AddedCases
  <2>4. acc.blocks \in Seq(Text) /\ acc.tmp \in Text
    BY <2>1 DEF Group
  <2>5. LettersOf(joined) = K \o L
    <3>1. <<d>> \in Text /\ LettersOf(<<d>>) = <<>>
      <4>1. <<d>> = Append(<<>>, d) /\ <<d>> \in Text
        BY DEF Text
      <4> QED
        BY <1>1, <4>1, LettersAppend
    <3>2. acc.tmp \o <<d>> \in Text
      BY <2>4, <3>1 DEF Text
    <3>3. LettersOf(joined) = LettersOf(acc.tmp \o <<d>>) \o L
      BY <3>2, LettersConcat
    <3>4. LettersOf(acc.tmp \o <<d>>) = K \o <<>>
      BY <2>4, <3>1, LettersConcat
    <3>5. K \o <<>> = K
      BY <1>1, <2>4
    <3> QED
      BY <3>3, <3>4, <3>5
  <2>6. /\ Letters(Append(acc.blocks, item)) = B \o L
        /\ Letters(Append(acc.blocks, acc.tmp)) = B \o K
    BY <2>4, LettersOfTexts
  <2>7. B \in Text /\ K \in Text /\ L \in Text
    BY <1>1, <2>4
  <2>8. acc.tmp = <<>> => K = <<>>
    BY <1>1
  <2> HIDE DEF acc, joined, new, B, K, L, P
  <2>9. (B \o K) \o L = B \o (K \o L) /\ B \o <<>> = B /\ <<>> \o L = L /\ (B \o L) \o <<>> = B \o L
    <3>1. Joined(B, K, L)
      BY <2>7, JoinTexts
    <3> DEFINE BL == B \o L
    <3>2. BL \in Text
      BY <2>7 DEF Text
    <3> HIDE DEF BL
    <3>3. B \o <<>> = B /\ <<>> \o L = L /\ BL \o <<>> = BL
      BY <1>1, <2>7, <3>2
    <3> QED
      BY <3>1, <3>3 DEF Joined, BL
  <2>10. All(new) = (B \o K) \o L
    <3>1. CASE TextLen(joined) > max /\ acc.tmp = <<>>
      BY <1>1, <2>3, <2>6, <2>8, <2>9, <3>1
    <3>2. CASE TextLen(joined) > max /\ acc.tmp # <<>>
      BY <2>3, <2>6, <2>9, <3>2 DEF L
    <3>3. CASE ~(TextLen(joined) > max) /\ acc.tmp = <<>>
      BY <2>3, <2>8, <2>9, <3>3 DEF B, L
    <3>4. CASE ~(TextLen(joined) > max) /\ acc.tmp # <<>>
      BY <2>3, <2>5, <2>9, <3>4 DEF B
    <3> QED
      BY <3>1, <3>2, <3>3, <3>4
  <2> QED
    BY <2>1, <2>2, <2>10 DEF P
<1>4. Seq(Text) \subseteq P
  <2> HIDE DEF P
  <2> QED
    BY <1>2, <1>3, EverySequence
<1> DEFINE items == SplitAt(text, d)
           end == Grouped(items, d, max)
<1>5. items \in Seq(Text) /\ Letters(items) = LettersOf(text)
  <2>1. items \in Seq(Text)
    <3>1. 0 \in Nat
      OBVIOUS
    <3> QED
      BY <3>1, SplitAppend
  <2> QED
    BY <2>1, SplitLetters
<1>6. All(end) = LettersOf(text) /\ end \in Group
  <2>1. items \in P
    BY <1>4, <1>5
  <2>2. end \in Group
    BY <1>1, <1>5, GroupAppend
  <2> QED
    BY <1>5, <2>1, <2>2
<1>7. BuildSplitList(text, d, max) = AppendText(end.blocks, end.tmp)
  BY BuildGroups
<1>8. end.blocks \in Seq(Text) /\ end.tmp \in Text
  BY <1>6 DEF Group
<1> HIDE DEF end
<1>9. Letters(Append(end.blocks, end.tmp)) = Letters(end.blocks) \o LettersOf(end.tmp)
  BY <1>8, LettersOfTexts
<1>10. CASE end.tmp = <<>>
  BY <1>1, <1>6, <1>7, <1>8, <1>10 DEF AppendText
<1>11. CASE end.tmp # <<>>
  <2>1. Append(end.blocks, end.tmp) \in Seq(Text)
    BY <1>8
  <2> QED
    BY <1>6, <1>7, <1>9, <1>11, <2>1 DEF AppendText
<1> QED
  BY <1>10, <1>11

\* The slices follow each other, fit, and end where the text does.
LEMMA CutUpParts ==
  ASSUME NEW T \in SUBSET Nat, NEW text \in Seq(T), NEW max \in Nat \ {0}
  PROVE  /\ CutUp(text, max) \in Seq({t \in Seq(T) : Len(t) <= max})
         /\ FlattenSeq(CutUp(text, max)) = text
<1> DEFINE n == Len(text)
           q == (n + max - 1) \div max
           upTo == [k \in Nat |-> IF k * max < n THEN k * max ELSE n]
           slice == [k \in Nat \ {0} |-> SubSeq(text, upTo[k - 1] + 1, upTo[k])]
           cut == [k \in Nat |-> [j \in 1..k |-> slice[j]]]
           P == {k \in Nat : k <= q => /\ cut[k] \in Seq(Seq(T))
                                        /\ FlattenSeq(cut[k]) = SubSeq(text, 1, upTo[k])}
<1>1. n \in Nat /\ n + max - 1 \in Nat
  OBVIOUS
<1>2. q \in Nat /\ n <= q * max /\ \A k \in Nat : k < q => k * max < n
  <2>1. q \in Nat /\ q * max <= n + max - 1 /\ n + max - 1 < q * max + max
    BY <1>1, Quotient
  <2> HIDE DEF q
  <2>2. q * max \in Nat
    BY <2>1, Multiples
  <2>3. n <= q * max
    BY <1>1, <2>1, <2>2
  <2>4. ASSUME NEW k \in Nat, k < q
        PROVE  k * max < n
    <3>1. k + 1 \in Nat /\ k + 1 <= q
      BY <2>1, <2>4
    <3>2. k * max \in Nat /\ (k + 1) * max = k * max + max /\ (k + 1) * max <= q * max
      BY <2>1, <3>1, Multiples
    <3> QED
      BY <1>1, <2>1, <2>2, <3>2
  <2> QED
    BY <2>1, <2>3, <2>4
<1>3. CutUp(text, max) = cut[q]
  <2>1. ASSUME NEW k \in 1..q
        PROVE  slice[k] = SubSeq(text, (k - 1) * max + 1, IF k * max < n THEN k * max ELSE n)
    <3>1. k \in Nat \ {0} /\ k - 1 \in Nat /\ k - 1 < q
      BY <1>2
    <3>2. (k - 1) * max < n
      BY <1>2, <3>1
    <3>3. upTo[k - 1] = (k - 1) * max
      BY <3>1, <3>2
    <3> QED
      BY <3>1, <3>3
  <2> HIDE DEF q, slice
  <2>2. [k \in 1..q |-> SubSeq(text, (k - 1) * max + 1, IF k * max < n THEN k * max ELSE n)]
          = [k \in 1..q |-> slice[k]]
    BY <2>1
  <2>3. cut[q] = [k \in 1..q |-> slice[k]]
    BY <1>2
  <2> QED
    BY <2>2, <2>3 DEF CutUp, q
<1> HIDE DEF q
<1>4. ASSUME NEW k \in Nat
      PROVE  upTo[k] \in Nat /\ upTo[k] <= n /\ upTo[k] <= upTo[k + 1] /\ upTo[k + 1] <= upTo[k] + max
  <2>1. k * max \in Nat /\ (k + 1) * max = k * max + max /\ k + 1 \in Nat
    BY Multiples
  <2>2. /\ upTo[k] = IF k * max < n THEN k * max ELSE n
        /\ upTo[k + 1] = IF (k + 1) * max < n THEN (k + 1) * max ELSE n
    BY <2>1
  <2> HIDE DEF upTo
  <2> DEFINE km == k * max
  <2> HIDE DEF km, n
  <2>3. upTo[k] = IF km < n THEN km ELSE n
    BY <2>2 DEF km
  <2>4. upTo[k + 1] = IF km + max < n THEN km + max ELSE n
    BY <2>1, <2>2 DEF km
  <2>5. km \in Nat
    BY <2>1 DEF km
  <2> QED
    BY <1>1, <2>3, <2>4, <2>5
<1>5. upTo[0] = 0 /\ upTo[q] = n
  <2>1. 0 * max = 0
    OBVIOUS
  <2>2. upTo[0] = 0
    BY <1>1, <2>1
  <2>3. q * max \in Nat
    BY <1>2, Multiples
  <2>4. ~(q * max < n)
    BY <1>1, <1>2, <2>3
  <2> QED
    BY <1>2, <2>2, <2>4
<1> HIDE DEF upTo, n
<1>6. ASSUME NEW k \in Nat
      PROVE  /\ slice[k + 1] \in Seq(T) /\ Len(slice[k + 1]) <= max
             /\ SubSeq(text, 1, upTo[k]) \o slice[k + 1] = SubSeq(text, 1, upTo[k + 1])
  <2>1. k + 1 \in Nat \ {0} /\ (k + 1) - 1 = k
    OBVIOUS
  <2>2. slice[k + 1] = SubSeq(text, upTo[k] + 1, upTo[k + 1])
    BY <2>1
  <2> DEFINE a == upTo[k]
             b == upTo[k + 1]
  <2>3. a \in Nat /\ b \in Nat /\ a <= b /\ b <= a + max /\ b <= n
    BY <1>4, <2>1
  <2> HIDE DEF a, b, slice
  <2>4. SubSeq(text, a + 1, b) \in Seq(T) /\ Len(SubSeq(text, a + 1, b)) <= max
    BY <2>3 DEF n
  <2>5. SubSeq(text, 1, a) \o SubSeq(text, a + 1, b) = SubSeq(text, 1, b)
    BY <2>3, PartsJoin DEF n
  <2> QED
    BY <2>2, <2>4, <2>5 DEF a, b
<1> HIDE DEF slice
<1>7. cut[0] = <<>> /\ cut[q] = [j \in 1..q |-> slice[j]]
  BY <1>2
<1>8. ASSUME NEW k \in Nat
       PROVE  cut[k + 1] = Append(cut[k], slice[k + 1])
  <2>1. cut[k + 1] = [j \in 1..(k + 1) |-> slice[j]] /\ cut[k] = [j \in 1..k |-> slice[j]]
    OBVIOUS
  <2> HIDE DEF cut
  <2> QED
    BY <2>1
<1> HIDE DEF cut
<1>9. 0 \in P
  <2>1. <<>> \in Seq(Seq(T)) /\ FlattenSeq(<<>>) = <<>>
    BY DEF FlattenSeq
  <2>2. SubSeq(text, 1, upTo[0]) = <<>>
    BY <1>5
  <2> QED
    BY <1>7, <2>1, <2>2
<1>10. ASSUME NEW k \in Nat, k \in P
      PROVE  k + 1 \in P
  <2> SUFFICES ASSUME k + 1 <= q
               PROVE  /\ cut[k + 1] \in Seq(Seq(T))
                      /\ FlattenSeq(cut[k + 1]) = SubSeq(text, 1, upTo[k + 1])
    OBVIOUS
  <2>1. k <= q
    BY <1>2
  <2>2. cut[k] \in Seq(Seq(T)) /\ FlattenSeq(cut[k]) = SubSeq(text, 1, upTo[k])
    BY <1>10, <2>1
  <2>3. slice[k + 1] \in Seq(T)
    BY <1>6
  <2>4. FlattenSeq(Append(cut[k], slice[k + 1])) = FlattenSeq(cut[k]) \o slice[k + 1]
    BY <2>2, <2>3, FlattenAppend
  <2>5. FlattenSeq(cut[k]) \o slice[k + 1] = SubSeq(text, 1, upTo[k + 1])
    BY <1>6, <2>2
  <2>6. Append(cut[k], slice[k + 1]) \in Seq(Seq(T))
    BY <2>2, <2>3
  <2> QED
    BY <1>8, <2>4, <2>5, <2>6
<1>11. FlattenSeq(cut[q]) = text
  <2>1. Nat \subseteq P
    <3> HIDE DEF P
    <3> QED
      BY <1>9, <1>10, EveryNumber
  <2>2. FlattenSeq(cut[q]) = SubSeq(text, 1, upTo[q])
    <3>1. q \in P /\ q <= q
      BY <1>2, <2>1
    <3> QED
      BY <3>1
  <2>3. SubSeq(text, 1, n) = text
    BY DEF n
  <2> QED
    BY <1>5, <2>2, <2>3
<1>12. cut[q] \in Seq({t \in Seq(T) : Len(t) <= max})
  <2>1. ASSUME NEW j \in 1..q
        PROVE  slice[j] \in {t \in Seq(T) : Len(t) <= max}
    <3>1. j - 1 \in Nat /\ (j - 1) + 1 = j
      OBVIOUS
    <3> QED
      BY <1>6, <3>1
  <2> QED
    BY <1>2, <1>7, <2>1
<1> QED
  BY <1>3, <1>11, <1>12

\* The texts that fit.
Fitting(max) == {t \in Text : TextLen(t) <= max}

\* Lists that stand each for a text, one after the other, stand for the texts.
EachStandsFor(lists, texts, F) ==
  /\ lists \in Seq(Seq(F)) /\ Len(lists) = Len(texts)
  /\ \A i \in 1..Len(texts) : Letters(lists[i]) = LettersOf(texts[i])
StandsFor(list, texts, F) == list \in Seq(F) /\ Letters(list) = Letters(texts)

LEMMA FlattenLists ==
  ASSUME NEW F, F \subseteq Text, NEW texts \in Seq(Text),
         NEW lists, EachStandsFor(lists, texts, F)
  PROVE  StandsFor(FlattenSeq(lists), texts, F)
<1>0. /\ lists \in Seq(Seq(F)) /\ Len(lists) = Len(texts)
      /\ \A i \in 1..Len(texts) : Letters(lists[i]) = LettersOf(texts[i])
  BY DEF EachStandsFor
<1> DEFINE n == Len(texts)
           l == [m \in Nat |-> SubSeq(lists, 1, m)]
           t == [m \in Nat |-> SubSeq(texts, 1, m)]
           P == {m \in Nat : m <= n => Letters(FlattenSeq(l[m])) = Letters(t[m])}
<1>1. /\ n \in Nat /\ l[0] = <<>> /\ t[0] = <<>> /\ l[n] = lists /\ t[n] = texts
      /\ \A i \in 1..n : texts[i] \in Text /\ lists[i] \in Seq(F)
  BY <1>0
<1>2. ASSUME NEW m \in Nat, m <= n
      PROVE  l[m] \in Seq(Seq(F)) /\ t[m] \in Seq(Text)
  BY <1>0, <1>2, FirstElements
<1>3. ASSUME NEW m \in Nat, m + 1 <= n
      PROVE  l[m + 1] = Append(l[m], lists[m + 1]) /\ t[m + 1] = Append(t[m], texts[m + 1])
  <2>1. m + 1 \in Nat /\ m <= n
    BY <1>1, <1>3
  <2>2. SubSeq(lists, 1, m + 1) = Append(SubSeq(lists, 1, m), lists[m + 1])
    BY <1>0, <1>3, <2>1, FirstElements
  <2>3. SubSeq(texts, 1, m + 1) = Append(SubSeq(texts, 1, m), texts[m + 1])
    BY <1>3, <2>1, FirstElements
  <2>4. /\ l[m + 1] = SubSeq(lists, 1, m + 1) /\ l[m] = SubSeq(lists, 1, m)
        /\ t[m + 1] = SubSeq(texts, 1, m + 1) /\ t[m] = SubSeq(texts, 1, m)
    BY <2>1
  <2> HIDE DEF l, t, n
  <2> QED
    BY <2>2, <2>3, <2>4
<1>4. <<>> \in Text /\ Seq(F) \subseteq Seq(Text)
  BY SmallerSequences DEF Text
<1>5. FlattenSeq(<<>>) = <<>> /\ Letters(<<>>) = <<>>
  <2>1. <<>> \in Seq(Text) /\ <<>> \in Seq(Seq(F)) /\ <<>> \in Seq(F)
    OBVIOUS
  <2> QED
    BY <1>4, <2>1, FlattenAppend, LettersOfTexts
<1> HIDE DEF n, l, t
<1>6. 0 \in P
  BY <1>1, <1>5
<1>7. ASSUME NEW m \in Nat, m \in P
      PROVE  m + 1 \in P
  <2> SUFFICES ASSUME m + 1 <= n
               PROVE  Letters(FlattenSeq(l[m + 1])) = Letters(t[m + 1])
    OBVIOUS
  <2> DEFINE list == lists[m + 1]
             text == texts[m + 1]
             before == FlattenSeq(l[m])
  <2>1. m <= n /\ m + 1 \in 1..n
    BY <1>1
  <2>2. l[m] \in Seq(Seq(F)) /\ t[m] \in Seq(Text) /\ list \in Seq(F) /\ text \in Text
    BY <1>1, <1>2, <2>1
  <2>3. Letters(before) = Letters(t[m]) /\ Letters(list) = LettersOf(text)
    BY <1>0, <1>7, <2>1 DEF n
  <2>4. l[m + 1] = Append(l[m], list) /\ t[m + 1] = Append(t[m], text)
    BY <1>3
  <2> HIDE DEF list, text
  <2>5. FlattenSeq(Append(l[m], list)) = before \o list /\ before \in Seq(F)
    BY <2>2, FlattenAppend
  <2>6. before \in Seq(Text) /\ list \in Seq(Text)
    BY <1>4, <2>2, <2>5
  <2> HIDE DEF before
  <2>7. Letters(before \o list) = Letters(before) \o Letters(list)
    BY <2>6, LettersOfLists
  <2>8. Letters(Append(t[m], text)) = Letters(t[m]) \o LettersOf(text)
    BY <2>2, LettersOfTexts
  <2> QED
    BY <2>3, <2>4, <2>5, <2>7, <2>8
<1>8. Letters(FlattenSeq(lists)) = Letters(texts)
  <2>1. Nat \subseteq P
    <3> HIDE DEF P
    <3> QED
      BY <1>6, <1>7, EveryNumber
  <2>2. n \in P /\ n <= n
    BY <1>1, <2>1
  <2> QED
    BY <1>1, <2>2
<1>9. FlattenSeq(lists) \in Seq(F)
  <2>1. <<>> \in Seq(F)
    OBVIOUS
  <2> QED
    BY <1>0, <2>1, FlattenAppend
<1> QED
  BY <1>8, <1>9 DEF StandsFor

\* A text that fits is left alone.
LEMMA LeftAlone ==
  ASSUME NEW text \in Text, NEW max, TextLen(text) <= max
  PROVE  <<text>> \in Seq(Fitting(max)) /\ Letters(<<text>>) = LettersOf(text)
<1>1. text \in Fitting(max)
  BY DEF Fitting
<1> QED
  BY <1>1, LettersOfOne

\* Sentences that do not fit are cut up; they have no delimiters any more.
LEMMA SentenceSplit ==
  ASSUME NEW text \in Text, NEW max \in Nat \ {0},
         TextLen(text) <= max \/ text \in Seq((Nat \ {Paragraph}) \ {Sentence})
  PROVE  /\ SplitSentence(text, max) \in Seq(Fitting(max))
         /\ Letters(SplitSentence(text, max)) = LettersOf(text)
<1>1. CASE TextLen(text) <= max
  BY <1>1, LeftAlone DEF SplitSentence
<1>2. CASE ~(TextLen(text) <= max)
  <2> DEFINE T == (Nat \ {Paragraph}) \ {Sentence}
             Short == {t \in Seq(T) : Len(t) <= max}
  <2>1. text \in Seq(T) /\ T \in SUBSET Nat /\ T \subseteq {x \in Nat : x >= Blank}
    BY <1>2 DEF Paragraph, Sentence, Blank
  <2> HIDE DEF T
  <2>2. CutUp(text, max) \in Seq(Short) /\ FlattenSeq(CutUp(text, max)) = text
    BY <2>1, CutUpParts
  <2>3. Short \subseteq Fitting(max)
    <3> SUFFICES ASSUME NEW t \in Short
                 PROVE  t \in Fitting(max)
      OBVIOUS
    <3>1. t \in Seq(T) /\ Len(t) <= max /\ t \in Text
      BY <2>1, SmallerSequences DEF Text
    <3>2. TextLen(t) = Len(t)
      BY <2>1, <3>1, PlainLength
    <3> QED
      BY <3>1, <3>2 DEF Fitting
  <2>4. CutUp(text, max) \in Seq(Fitting(max))
    <3> HIDE DEF Short
    <3> QED
      BY <2>2, <2>3, SmallerSequences
  <2>5. Letters(CutUp(text, max)) = LettersOf(text)
    BY <2>2 DEF Letters
  <2> QED
    BY <1>2, <2>4, <2>5 DEF SplitSentence
<1> QED
  BY <1>1, <1>2

\* Paragraphs that do not fit are divided into sentences.
LEMMA ParagraphSplit ==
  ASSUME NEW text \in Text, NEW max \in Nat \ {0},
         TextLen(text) <= max \/ text \in Seq(Nat \ {Paragraph})
  PROVE  /\ SplitParagraph(text, max) \in Seq(Fitting(max))
         /\ Letters(SplitParagraph(text, max)) = LettersOf(text)
<1>1. CASE TextLen(text) <= max
  BY <1>1, LeftAlone DEF SplitParagraph
<1>2. CASE ~(TextLen(text) <= max)
  <2> DEFINE T == Nat \ {Paragraph}
             Block == {t \in Seq(T) : TextLen(t) <= max \/ t \in Seq(T \ {Sentence})}
             sentences == BuildSplitList(text, Sentence, max)
             lists == [i \in DOMAIN sentences |-> SplitSentence(sentences[i], max)]
  <2>1. text \in Seq(T) /\ T \in SUBSET Nat /\ Sentence \in T /\ Sentence \in Nat /\ ~IsLetter(Sentence)
    BY <1>2 DEF Paragraph, Sentence, IsLetter
  <2>2. sentences \in Seq(Block)
    <3> HIDE DEF T
    <3> QED
      BY <2>1, BuildFits
  <2>3. sentences \in Seq(Text) /\ Letters(sentences) = LettersOf(text)
    BY <2>1, BuildLetters
  <2> HIDE DEF sentences
  <2>4. ASSUME NEW i \in 1..Len(sentences)
        PROVE  /\ SplitSentence(sentences[i], max) \in Seq(Fitting(max))
               /\ Letters(SplitSentence(sentences[i], max)) = LettersOf(sentences[i])
    <3>1. sentences[i] \in Block /\ sentences[i] \in Text
      <4> HIDE DEF Block
      <4> QED
        BY <2>2, <2>3
    <3> QED
      BY <3>1, SentenceSplit
  <2>5. /\ lists \in Seq(Seq(Fitting(max))) /\ Len(lists) = Len(sentences)
        /\ \A i \in 1..Len(sentences) : Letters(lists[i]) = LettersOf(sentences[i])
    <3>1. DOMAIN sentences = 1..Len(sentences) /\ Len(sentences) \in Nat
      BY <2>3
    <3>2. \A i \in 1..Len(sentences) : lists[i] = SplitSentence(sentences[i], max)
      BY <3>1
    <3>3. lists \in [1..Len(sentences) -> Seq(Fitting(max))]
      BY <2>4, <3>1
    <3> HIDE DEF lists
    <3> QED
      BY <2>4, <3>1, <3>2, <3>3
  <2> HIDE DEF lists
  <2>6. FlattenSeq(lists) \in Seq(Fitting(max)) /\ Letters(FlattenSeq(lists)) = Letters(sentences)
    <3>1. Fitting(max) \subseteq Text
      BY DEF Fitting
    <3>2. EachStandsFor(lists, sentences, Fitting(max))
      BY <2>5 DEF EachStandsFor
    <3>3. StandsFor(FlattenSeq(lists), sentences, Fitting(max))
      BY <2>3, <3>1, <3>2, FlattenLists
    <3> QED
      BY <3>3 DEF StandsFor
  <2> QED
    BY <1>2, <2>3, <2>6 DEF SplitParagraph, sentences, lists
<1> QED
  BY <1>1, <1>2

\* Chunks that do not fit are divided into paragraphs.
LEMMA ChunkSplit ==
  ASSUME NEW text \in Text, NEW max \in Nat \ {0}
  PROVE  /\ SplitChunk(text, max) \in Seq(Fitting(max))
         /\ Letters(SplitChunk(text, max)) = LettersOf(text)
<1>1. CASE TextLen(text) <= max
  BY <1>1, LeftAlone DEF SplitChunk
<1>2. CASE ~(TextLen(text) <= max)
  <2> DEFINE T == Nat
             Block == {t \in Seq(T) : TextLen(t) <= max \/ t \in Seq(T \ {Paragraph})}
             paragraphs == BuildSplitList(text, Paragraph, max)
             lists == [i \in DOMAIN paragraphs |-> SplitParagraph(paragraphs[i], max)]
  <2>1. text \in Seq(T) /\ T \in SUBSET Nat /\ Paragraph \in T /\ Paragraph \in Nat /\ ~IsLetter(Paragraph)
    BY DEF Text, Paragraph, IsLetter
  <2>2. paragraphs \in Seq(Block)
    <3> HIDE DEF T
    <3> QED
      BY <2>1, BuildFits
  <2>3. paragraphs \in Seq(Text) /\ Letters(paragraphs) = LettersOf(text)
    BY <2>1, BuildLetters
  <2> HIDE DEF paragraphs
  <2>4. ASSUME NEW i \in 1..Len(paragraphs)
        PROVE  /\ SplitParagraph(paragraphs[i], max) \in Seq(Fitting(max))
               /\ Letters(SplitParagraph(paragraphs[i], max)) = LettersOf(paragraphs[i])
    <3>1. paragraphs[i] \in Block /\ paragraphs[i] \in Text
      <4> HIDE DEF Block
      <4> QED
        BY <2>2, <2>3
    <3> QED
      BY <3>1, ParagraphSplit
  <2>5. /\ lists \in Seq(Seq(Fitting(max))) /\ Len(lists) = Len(paragraphs)
        /\ \A i \in 1..Len(paragraphs) : Letters(lists[i]) = LettersOf(paragraphs[i])
    <3>1. DOMAIN paragraphs = 1..Len(paragraphs) /\ Len(paragraphs) \in Nat
      BY <2>3
    <3>2. \A i \in 1..Len(paragraphs) : lists[i] = SplitParagraph(paragraphs[i], max)
      BY <3>1
    <3>3. lists \in [1..Len(paragraphs) -> Seq(Fitting(max))]
      BY <2>4, <3>1
    <3> HIDE DEF lists
    <3> QED
      BY <2>4, <3>1, <3>2, <3>3
  <2> HIDE DEF lists
  <2>6. FlattenSeq(lists) \in Seq(Fitting(max)) /\ Letters(FlattenSeq(lists)) = Letters(paragraphs)
    <3>1. Fitting(max) \subseteq Text
      BY DEF Fitting
    <3>2. EachStandsFor(lists, paragraphs, Fitting(max))
      BY <2>5 DEF EachStandsFor
    <3>3. StandsFor(FlattenSeq(lists), paragraphs, Fitting(max))
      BY <2>3, <3>1, <3>2, FlattenLists
    <3> QED
      BY <3>3 DEF StandsFor
  <2> QED
    BY <1>2, <2>3, <2>6 DEF SplitChunk, paragraphs, lists
<1> QED
  BY <1>1, <1>2

\* All chunks, one after the other.
LEMMA ChunksSplit ==
  ASSUME NEW chunks \in Seq(Text), NEW max \in Nat \ {0}
  PROVE  /\ SplitChunks(chunks, max) \in Seq(Fitting(max))
         /\ Letters(SplitChunks(chunks, max)) = Letters(chunks)
<1> DEFINE lists == [i \in DOMAIN chunks |-> SplitChunk(chunks[i], max)]
<1>1. ASSUME NEW i \in 1..Len(chunks)
      PROVE  /\ SplitChunk(chunks[i], max) \in Seq(Fitting(max))
             /\ Letters(SplitChunk(chunks[i], max)) = LettersOf(chunks[i])
  <2>1. chunks[i] \in Text
    OBVIOUS
  <2> QED
    BY <2>1, ChunkSplit
<1>2. /\ lists \in Seq(Seq(Fitting(max))) /\ Len(lists) = Len(chunks)
      /\ \A i \in 1..Len(chunks) : Letters(lists[i]) = LettersOf(chunks[i])
  BY <1>1
<1> HIDE DEF lists
<1>3. FlattenSeq(lists) \in Seq(Fitting(max)) /\ Letters(FlattenSeq(lists)) = Letters(chunks)
  <2>1. Fitting(max) \subseteq Text
    BY DEF Fitting
  <2>2. EachStandsFor(lists, chunks, Fitting(max))
    BY <1>2 DEF EachStandsFor
  <2>3. StandsFor(FlattenSeq(lists), chunks, Fitting(max))
    BY <2>1, <2>2, FlattenLists
  <2> QED
    BY <2>3 DEF StandsFor
<1> QED
  BY <1>3 DEF SplitChunks, lists

\* Texts that a token joins which is no letter.
LEMMA Glued ==
  ASSUME NEW s \in Text, NEW d \in Nat, ~IsLetter(d), NEW t \in Text
  PROVE  /\ s \o <<d>> \o t \in Text
         /\ LettersOf(s \o <<d>> \o t) = LettersOf(s) \o LettersOf(t)
         /\ TextLen(s \o <<d>> \o t) = TextLen(s) + (IF d < Blank THEN 2 ELSE 1) + TextLen(t)
<1>1. <<>> \in Text /\ <<d>> = Append(<<>>, d) /\ <<d>> \in Text /\ s \o <<d>> = Append(s, d)
  BY DEF Text
<1>2. s \o <<d>> \in Text
  BY <1>1 DEF Text
<1>3. LettersOf(s \o <<d>>) = LettersOf(s)
  BY <1>1, LettersAppend
<1>4. LettersOf(s \o <<d>> \o t) = LettersOf(s) \o LettersOf(t)
  BY <1>2, <1>3, LettersConcat
<1>5. TextLen(s \o <<d>>) = TextLen(s) + (IF d < Blank THEN 2 ELSE 1)
  BY <1>1, LengthAppend
<1>6. TextLen(s \o <<d>> \o t) = TextLen(s) + (IF d < Blank THEN 2 ELSE 1) + TextLen(t)
  BY <1>2, <1>5, LengthConcat
<1>7. s \o <<d>> \o t \in Text
  BY <1>2 DEF Text
<1> QED
  BY <1>4, <1>6, <1>7

\* What MergeChunks makes of its chunks, one by one.
Merging == [done : Seq(Text), open : {<<>>} \cup {<<t>> : t \in Text}]

Taken(acc, chunk, min, max) ==
  LET text == IF acc.open = <<>> THEN chunk ELSE acc.open[1] \o <<Blank>> \o chunk IN
  IF TextLen(text) < min THEN [acc EXCEPT !.open = <<text>>]
  ELSE [done |-> IF acc.open = <<>> THEN Append(acc.done, text) ELSE Place(acc.done, text, max),
        open |-> <<>>]

Merged(chunks, min, max) ==
  FoldLeft(LAMBDA acc, chunk : Taken(acc, chunk, min, max), [done |-> <<>>, open |-> <<>>], chunks)

LEMMA MergeEnds ==
  ASSUME NEW chunks, NEW min, NEW max
  PROVE  LET end == Merged(chunks, min, max) IN
         MergeChunks(chunks, min, max) =
           IF end.open = <<>> THEN end.done ELSE Place(end.done, end.open[1], max)
BY DEF MergeChunks, Merged, Taken, FoldLeft, MapThenFoldSet

\* A chunk is placed as another one, or on the last one.
IsPlaced(done, text, max, new) ==
  \/ new = Append(done, text)
  \/ \E front \in Seq(Text), last \in Text :
       /\ done = Append(front, last) /\ TextLen(last) + TextLen(text) <= max
       /\ new = Append(front, last \o <<Blank>> \o text)

LEMMA Placed ==
  ASSUME NEW done \in Seq(Text), NEW text \in Text, NEW max \in Nat
  PROVE  /\ Place(done, text, max) \in Seq(Text)
         /\ IsPlaced(done, text, max, Place(done, text, max))
<1> DEFINE front == Front(done)
           last == Last(done)
           glued == last \o <<Blank>> \o text
<1>1. CASE done # <<>> /\ TextLen(last) + TextLen(text) <= max
  <2>1. front \in Seq(Text) /\ last \in Text /\ done = Append(front, last)
    BY <1>1, LastAppended
  <2>2. Place(done, text, max) = Append(front, glued)
    BY <1>1 DEF Place
  <2> HIDE DEF front
  <2>3. glued \in Text
    <3> HIDE DEF last
    <3>1. Blank \in Nat /\ ~IsLetter(Blank)
      BY DEF Blank, IsLetter
    <3> QED
      BY <2>1, <3>1, Glued
  <2>4. Append(front, glued) \in Seq(Text)
    <3> HIDE DEF glued
    <3> QED
      BY <2>1, <2>3
  <2> HIDE DEF last
  <2> QED
    BY <1>1, <2>1, <2>2, <2>4 DEF IsPlaced
<1>2. CASE ~(done # <<>> /\ TextLen(last) + TextLen(text) <= max)
  <2>1. Place(done, text, max) = Append(done, text)
    BY <1>2 DEF Place
  <2> QED
    BY <2>1 DEF IsPlaced
<1> QED
  BY <1>1, <1>2

\* Placing keeps the letters.
LEMMA PlacedLetters ==
  ASSUME NEW done \in Seq(Text), NEW text \in Text, NEW max \in Nat
  PROVE  Letters(Place(done, text, max)) = Letters(done) \o LettersOf(text)
<1>1. CASE Place(done, text, max) = Append(done, text)
  BY <1>1, LettersOfTexts
<1>2. ASSUME NEW front \in Seq(Text), NEW last \in Text, done = Append(front, last),
             Place(done, text, max) = Append(front, last \o <<Blank>> \o text)
      PROVE  Letters(Place(done, text, max)) = Letters(done) \o LettersOf(text)
  <2> DEFINE F == Letters(front)
             L == LettersOf(last)
             M == LettersOf(text)
             glued == last \o <<Blank>> \o text
  <2>1. Blank \in Nat /\ ~IsLetter(Blank) /\ 0 \in Nat
    BY DEF Blank, IsLetter
  <2>2. glued \in Text /\ LettersOf(glued) = L \o M
    BY <2>1, Glued
  <2> HIDE DEF glued
  <2>3. Letters(Append(front, glued)) = F \o LettersOf(glued) /\ F \in Text
    BY <2>2, LettersOfTexts
  <2>4. Letters(Append(front, last)) = F \o L
    BY LettersOfTexts
  <2>5. L \in Text /\ M \in Text
    BY <2>1, LettersAppend
  <2>6. Place(done, text, max) = Append(front, glued)
    BY <1>2 DEF glued
  <2> HIDE DEF F, L, M
  <2>7. Joined(F, L, M)
    BY <2>3, <2>5, JoinTexts
  <2> QED
    BY <1>2, <2>2, <2>3, <2>4, <2>6, <2>7 DEF M, Joined
<1>3. IsPlaced(done, text, max, Place(done, text, max))
  BY Placed
<1> QED
  BY <1>1, <1>2, <1>3 DEF IsPlaced

\* The cases of a chunk that is taken in.
IsTaken(acc, chunk, min, max, new) ==
  LET text == IF acc.open = <<>> THEN chunk ELSE acc.open[1] \o <<Blank>> \o chunk IN
  /\ acc.done \in Seq(Text) /\ text \in Text
  /\ acc.open # <<>> => acc.open[1] \in Text /\ acc.open = <<acc.open[1]>>
  /\ TextLen(text) < min => new.done = acc.done /\ new.open = <<text>>
  /\ ~(TextLen(text) < min) =>
       /\ new.done = IF acc.open = <<>> THEN Append(acc.done, text) ELSE Place(acc.done, text, max)
       /\ new.open = <<>>

LEMMA TakenCases ==
  ASSUME NEW acc \in Merging, NEW chunk \in Text, NEW min \in Nat, NEW max \in Nat
  PROVE  /\ Taken(acc, chunk, min, max) \in Merging
         /\ IsTaken(acc, chunk, min, max, Taken(acc, chunk, min, max))
<1> DEFINE text == IF acc.open = <<>> THEN chunk ELSE acc.open[1] \o <<Blank>> \o chunk
           new == Taken(acc, chunk, min, max)
<1>1. /\ acc.done \in Seq(Text) /\ acc = [done |-> acc.done, open |-> acc.open]
      /\ acc.open = <<>> \/ \E t \in Text : acc.open = <<t>>
  BY DEF Merging
<1>2. acc.open # <<>> => acc.open[1] \in Text /\ acc.open = <<acc.open[1]>>
  BY <1>1
<1>3. text \in Text
  <2>1. Blank \in Nat /\ ~IsLetter(Blank)
    BY DEF Blank, IsLetter
  <2> QED
    BY <1>2, <2>1, Glued
<1>4. new = IF TextLen(text) < min THEN [acc EXCEPT !.open = <<text>>]
            ELSE [done |-> IF acc.open = <<>> THEN Append(acc.done, text) ELSE Place(acc.done, text, max),
                  open |-> <<>>]
  BY DEF Taken
<1> HIDE DEF text, new
<1>5. TextLen(text) < min =>
        /\ new.done = acc.done /\ new.open = <<text>>
        /\ new = [done |-> new.done, open |-> new.open]
  BY <1>1, <1>4
<1>6. ~(TextLen(text) < min) =>
        /\ new.done = IF acc.open = <<>> THEN Append(acc.done, text) ELSE Place(acc.done, text, max)
        /\ new.open = <<>> /\ new = [done |-> new.done, open |-> new.open]
  BY <1>4
<1>7. Append(acc.done, text) \in Seq(Text) /\ Place(acc.done, text, max) \in Seq(Text)
  BY <1>1, <1>3, Placed
<1>8. new \in Merging
  BY <1>1, <1>3, <1>5, <1>6, <1>7 DEF Merging
<1> QED
  BY <1>1, <1>2, <1>3, <1>5, <1>6, <1>8 DEF text, new, IsTaken

Takes(min, max) == [p \in Merging \X Text |-> Taken(p[1], p[2], min, max)]

\* Merging is a fold of the chunks.
LEMMA MergeEnd ==
  ASSUME NEW chunks \in Seq(Text), NEW min \in Nat, NEW max \in Nat
  PROVE  /\ IsFold(Merging, Text, [done |-> <<>>, open |-> <<>>], Takes(min, max))
         /\ FoldEnd(Merging, [done |-> <<>>, open |-> <<>>], Takes(min, max), chunks,
                    Merged(chunks, min, max))
<1> DEFINE V == Merging
           step == Takes(min, max)
           base == [done |-> <<>>, open |-> <<>>]
           G(f) == [s \in SUBSET DOMAIN chunks |->
                      IF s = {} THEN base
                      ELSE Taken(f[s \ {Max(s)}], chunks[Max(s)], min, max)]
           g == CHOOSE f : f = G(f)
<1>1. Merged(chunks, min, max) = g[DOMAIN chunks]
  BY DEF Merged, FoldLeft, MapThenFoldSet
<1>2. IsFold(V, Text, base, step)
  <2>1. base \in V
    BY DEF Merging
  <2>2. \A p \in V \X Text : Taken(p[1], p[2], min, max) \in V
    BY TakenCases
  <2>3. step \in [V \X Text -> V]
    BY <2>2 DEF Takes
  <2> HIDE DEF base, V, step
  <2> QED
    BY <2>1, <2>3 DEF IsFold
<1>3. ASSUME NEW acc \in V, NEW chunk \in Text
      PROVE  step[<<acc, chunk>>] = Taken(acc, chunk, min, max)
  BY DEF Takes
<1> HIDE DEF V, step, base
<1>4. PICK f \in [SUBSET DOMAIN chunks -> V] : FoldTable(V, Text, base, step, chunks, f)
  BY <1>2, TableExists
<1>5. f = G(f)
  <2>1. ASSUME NEW s \in SUBSET DOMAIN chunks
        PROVE  f[s] = G(f)[s]
    BY <1>3, <1>4 DEF FoldTable
  <2> QED
    BY <2>1
<1>6. g = G(g)
  BY <1>5
<1> HIDE DEF g
<1>7. FoldRules(V, Text, base, step, chunks, g)
  <2>1. g[{}] = base
    BY <1>6
  <2>2. ASSUME NEW s \in SUBSET DOMAIN chunks, s # {}, g[s \ {Max(s)}] \in V
        PROVE  g[s] = step[<<g[s \ {Max(s)}], chunks[Max(s)]>>]
    <3>1. chunks[Max(s)] \in Text
      BY <1>4, <2>2 DEF FoldTable
    <3> QED
      BY <1>3, <1>6, <2>2, <3>1
  <2> QED
    BY <2>1, <2>2 DEF FoldRules
<1>8. FoldEnd(V, base, step, chunks, g[DOMAIN chunks])
  BY <1>2, <1>7, RulesEnd
<1> QED
  BY <1>1, <1>2, <1>8 DEF V, base, step

LEMMA MergeAppend ==
  ASSUME NEW chunks \in Seq(Text), NEW chunk \in Text, NEW min \in Nat, NEW max \in Nat
  PROVE  /\ Merged(chunks, min, max) \in Merging
         /\ Merged(<<>>, min, max) = [done |-> <<>>, open |-> <<>>]
         /\ Merged(Append(chunks, chunk), min, max) = Taken(Merged(chunks, min, max), chunk, min, max)
<1> DEFINE V == Merging
           step == Takes(min, max)
           base == [done |-> <<>>, open |-> <<>>]
           more == Append(chunks, chunk)
           end == Merged(chunks, min, max)
           next == Merged(more, min, max)
           none == Merged(<<>>, min, max)
<1>1. more \in Seq(Text) /\ <<>> \in Seq(Text)
  OBVIOUS
<1>2. /\ IsFold(V, Text, base, step) /\ FoldEnd(V, base, step, chunks, end)
      /\ FoldEnd(V, base, step, more, next) /\ FoldEnd(V, base, step, <<>>, none)
  <2> HIDE DEF more
  <2> QED
    BY <1>1, MergeEnd
<1> HIDE DEF V, step, end, next, none, base
<1>3. end \in V /\ next = step[<<end, chunk>>]
  BY <1>1, <1>2, FoldAppended DEF more
<1>4. none = base
  BY <1>2, FoldEmpty
<1>5. step[<<end, chunk>>] = Taken(end, chunk, min, max)
  BY <1>3 DEF step, Takes, V
<1> QED
  BY <1>3, <1>4, <1>5 DEF V, base, end, next, none

\* Merging keeps the letters: those of the chunks that are done, and then of the
\* open one.
LEMMA MergeLetters ==
  ASSUME NEW chunks \in Seq(Text), NEW min \in Nat, NEW max \in Nat
  PROVE  Letters(MergeChunks(chunks, min, max)) = Letters(chunks)
<1> DEFINE All(acc) == Letters(acc.done) \o Letters(acc.open)
           P == {u \in Seq(Text) : All(Merged(u, min, max)) = Letters(u)}
<1>1. /\ <<>> \in Text /\ <<>> \in Seq(Text) /\ Letters(<<>>) = <<>>
      /\ Blank \in Nat /\ ~IsLetter(Blank)
      /\ \A t \in Text : LettersOf(t) \in Text /\ Letters(<<t>>) = LettersOf(t)
      /\ \A list \in Seq(Text) : Letters(list) \in Text
      /\ \A s \in Text : s \o <<>> = s /\ <<>> \o s = s
  <2>1. <<>> \in Text /\ <<>> \in Seq(Text)
    BY DEF Text
  <2>2. Blank \in Nat /\ ~IsLetter(Blank)
    BY DEF Blank, IsLetter
  <2>3. \A t \in Text : LettersOf(t) \in Text
    BY <2>2, LettersAppend
  <2>4. \A t \in Text : Letters(<<t>>) = LettersOf(t)
    BY LettersOfOne
  <2>5. Letters(<<>>) = <<>> /\ \A list \in Seq(Text) : Letters(list) \in Text
    BY <2>1, LettersOfTexts
  <2>6. \A s \in Text : s \o <<>> = s /\ <<>> \o s = s
    BY DEF Text
  <2> QED
    BY <2>1, <2>2, <2>3, <2>4, <2>5, <2>6
<1>2. <<>> \in P
  <2> DEFINE none == Merged(<<>>, min, max)
  <2>1. none = [done |-> <<>>, open |-> <<>>]
    BY <1>1, MergeAppend
  <2>2. none.done = <<>> /\ none.open = <<>>
    BY <2>1
  <2> HIDE DEF none
  <2>3. All(none) = <<>> \o <<>>
    BY <1>1, <2>2
  <2>4. <<>> \o <<>> = <<>>
    BY <1>1
  <2> QED
    BY <1>1, <2>3, <2>4 DEF none
<1>3. ASSUME NEW u \in Seq(Text), NEW chunk \in Text, u \in P
      PROVE  Append(u, chunk) \in P
  <2> DEFINE acc == Merged(u, min, max)
             text == IF acc.open = <<>> THEN chunk ELSE acc.open[1] \o <<Blank>> \o chunk
             new == Taken(acc, chunk, min, max)
             D == Letters(acc.done)
             K == Letters(acc.open)
             L == LettersOf(chunk)
  <2>1. acc \in Merging /\ new = Merged(Append(u, chunk), min, max)
    BY MergeAppend
  <2>2. D \o K = Letters(u) /\ Append(u, chunk) \in Seq(Text) /\ Letters(Append(u, chunk)) = Letters(u) \o L
    <3>1. All(acc) = Letters(u)
      BY <1>3
    <3>2. Append(u, chunk) \in Seq(Text) /\ Letters(Append(u, chunk)) = Letters(u) \o L
      BY LettersOfTexts
    <3> HIDE DEF acc, L
    <3> QED
      BY <3>1, <3>2
  <2>3. /\ acc.done \in Seq(Text) /\ text \in Text
        /\ acc.open # <<>> => acc.open[1] \in Text /\ acc.open = <<acc.open[1]>>
        /\ TextLen(text) < min => new.done = acc.done /\ new.open = <<text>>
        /\ ~(TextLen(text) < min) =>
             /\ new.done = IF acc.open = <<>> THEN Append(acc.done, text) ELSE Place(acc.done, text, max)
             /\ new.open = <<>>
    <3>1. IsTaken(acc, chunk, min, max, new)
      BY <2>1, TakenCases
    <3> HIDE DEF acc, new
    <3> QED
      BY <3>1 DEF IsTaken
  <2> HIDE DEF acc, new
  <2> DEFINE first == acc.open[1]
             open == acc.open
  <2>4. open = <<>> \/ (open = <<first>> /\ first \in Text)
    BY <2>3
  <2> HIDE DEF first, open
  <2>5. (open = <<>> /\ K = <<>>) \/ (open # <<>> /\ first \in Text /\ K = LettersOf(first))
    <3>1. CASE open = <<>>
      <4>1. K = Letters(<<>>)
        BY <3>1 DEF open
      <4> QED
        BY <1>1, <3>1, <4>1
    <3>2. CASE open = <<first>> /\ first \in Text
      <4>1. K = Letters(<<first>>)
        BY <3>2 DEF open
      <4>2. Letters(<<first>>) = LettersOf(first)
        BY <3>2, LettersOfOne
      <4>3. <<first>> # <<>>
        OBVIOUS
      <4> QED
        BY <3>2, <4>1, <4>2, <4>3
    <3> QED
      BY <2>4, <3>1, <3>2
  <2>6. D \in Text /\ L \in Text /\ K \in Text
    BY <1>1, <2>3, <2>5
  <2> HIDE DEF K
  <2>7. LettersOf(text) = K \o L
    <3>1. CASE open = <<>>
      <4>1. text = chunk /\ K = <<>> /\ <<>> \o L = L
        BY <1>1, <2>6, <2>5, <3>1 DEF open
      <4> QED
        BY <4>1
    <3>2. CASE open # <<>>
      <4>1. text = first \o <<Blank>> \o chunk
        BY <3>2 DEF open, first
      <4>2. Blank \in Nat /\ ~IsLetter(Blank) /\ first \in Text /\ K = LettersOf(first)
        BY <1>1, <2>5, <3>2
      <4>3. LettersOf(first \o <<Blank>> \o chunk) = LettersOf(first) \o LettersOf(chunk)
        BY <4>2, Glued
      <4> QED
        BY <4>1, <4>2, <4>3
    <3> QED
      BY <3>1, <3>2
  <2> HIDE DEF text, L, P
  <2>8. Letters(<<text>>) = LettersOf(text) /\ LettersOf(text) \in Text
    BY <1>1, <2>3
  <2>9. /\ Letters(Append(acc.done, text)) = D \o LettersOf(text)
        /\ Letters(Place(acc.done, text, max)) = D \o LettersOf(text)
    BY <2>3, LettersOfTexts, PlacedLetters
  <2>10. All(new) = D \o LettersOf(text)
    <3>1. CASE TextLen(text) < min
      BY <2>3, <2>8, <3>1
    <3>2. CASE ~(TextLen(text) < min)
      <4> DEFINE E == D \o LettersOf(text)
      <4>1. E \in Text
        BY <2>6, <2>8 DEF Text
      <4>2. Letters(new.done) = E /\ Letters(new.open) = <<>>
        BY <1>1, <2>3, <2>9, <3>2
      <4> HIDE DEF E
      <4>3. All(new) = E
        BY <1>1, <4>1, <4>2
      <4> QED
        BY <4>3 DEF E
    <3> QED
      BY <3>1, <3>2
  <2> HIDE DEF D
  <2>11. Joined(D, K, L)
    BY <2>6, JoinTexts
  <2> QED
    BY <2>1, <2>2, <2>7, <2>10, <2>11 DEF P, Joined
<1>4. Seq(Text) \subseteq P
  <2> HIDE DEF P
  <2> QED
    BY <1>2, <1>3, EverySequence
<1> DEFINE end == Merged(chunks, min, max)
<1>5. All(end) = Letters(chunks) /\ end \in Merging
  <2>1. chunks \in P
    BY <1>4
  <2>2. end \in Merging
    BY <1>1, MergeAppend
  <2> QED
    BY <2>1, <2>2
<1>6. MergeChunks(chunks, min, max) = IF end.open = <<>> THEN end.done ELSE Place(end.done, end.open[1], max)
  BY MergeEnds
<1>7. /\ end.done \in Seq(Text)
      /\ end.open # <<>> => end.open[1] \in Text /\ end.open = <<end.open[1]>>
  <2>1. end.open = <<>> \/ \E t \in Text : end.open = <<t>>
    BY <1>5 DEF Merging
  <2> QED
    BY <1>5, <2>1 DEF Merging
<1> HIDE DEF end
<1>8. CASE end.open = <<>>
  BY <1>1, <1>5, <1>6, <1>7, <1>8
<1>9. CASE end.open # <<>>
  <2>1. Letters(Place(end.done, end.open[1], max)) = Letters(end.done) \o LettersOf(end.open[1])
    BY <1>7, <1>9, PlacedLetters
  <2>2. Letters(end.open) = LettersOf(end.open[1])
    BY <1>1, <1>7, <1>9
  <2> QED
    BY <1>5, <1>6, <1>9, <2>1, <2>2
<1> QED
  BY <1>8, <1>9

\* What merging makes of chunks that fit: large enough, and at most as long as
\* the two bounds together.
Large(min, max) == {t \in Text : min <= TextLen(t) /\ TextLen(t) <= min + max}

IsPlacedAs(text, min, max, new) ==
  \E front \in Seq(Large(min, max)), last \in Text :
    /\ new = Append(front, last)
    /\ TextLen(last) <= min + max
    /\ TextLen(text) >= min => last \in Large(min, max)

LEMMA PlacedSizes ==
  ASSUME NEW min \in Nat \ {0}, NEW max \in Nat, NEW done \in Seq(Large(min, max)),
         NEW text \in Text, TextLen(text) <= min + max
  PROVE  IsPlacedAs(text, min, max, Place(done, text, max))
<1>1. done \in Seq(Text) /\ Large(min, max) \subseteq Text
  <2>1. Large(min, max) \subseteq Text
    BY DEF Large
  <2> QED
    BY <2>1, SmallerSequences
<1>2. \A t \in Text : TextLen(t) \in Nat
  <2>1. 0 \in Nat
    OBVIOUS
  <2> QED
    BY <2>1, LengthAppend
<1>3. CASE Place(done, text, max) = Append(done, text)
  BY <1>3 DEF Large, IsPlacedAs
<1>4. ASSUME done # <<>>, TextLen(Last(done)) + TextLen(text) <= max
      PROVE  IsPlacedAs(text, min, max, Place(done, text, max))
  <2> DEFINE front == Front(done)
             end == Last(done)
             glued == end \o <<Blank>> \o text
  <2>1. front \in Seq(Large(min, max)) /\ end \in Large(min, max)
    BY <1>4, LastAppended
  <2>2. Place(done, text, max) = Append(front, glued)
    BY <1>4 DEF Place
  <2>3. TextLen(end) + TextLen(text) <= max
    BY <1>4
  <2> HIDE DEF front, end
  <2>4. end \in Text /\ TextLen(end) >= min
    BY <2>1 DEF Large
  <2>5. glued \in Text /\ TextLen(glued) = TextLen(end) + 1 + TextLen(text)
    <3>1. Blank \in Nat /\ ~IsLetter(Blank) /\ ~(Blank < Blank)
      BY DEF Blank, IsLetter
    <3> QED
      BY <2>4, <3>1, Glued
  <2>6. TextLen(end) \in Nat /\ TextLen(text) \in Nat
    BY <1>2, <2>4
  <2> HIDE DEF glued
  <2>7. min <= TextLen(glued) /\ TextLen(glued) <= min + max
    BY <2>3, <2>4, <2>5, <2>6
  <2>8. glued \in Large(min, max)
    BY <2>5, <2>7 DEF Large
  <2> QED
    BY <2>1, <2>2, <2>5, <2>7, <2>8 DEF IsPlacedAs
<1> QED
  BY <1>3, <1>4 DEF Place

LEMMA MergeSizes ==
  ASSUME NEW min \in Nat \ {0}, NEW max \in Nat, NEW chunks \in Seq(Fitting(max))
  PROVE  \A i \in DOMAIN MergeChunks(chunks, min, max) :
           /\ i < Len(MergeChunks(chunks, min, max)) => TextLen(MergeChunks(chunks, min, max)[i]) >= min
           /\ TextLen(MergeChunks(chunks, min, max)[i]) <= min + max
<1> DEFINE All == Large(min, max)
           Good(acc) == /\ acc.done \in Seq(All)
                        /\ acc.open # <<>> => TextLen(acc.open[1]) < min
           P == {u \in Seq(Fitting(max)) : Good(Merged(u, min, max))}
<1>1. /\ Fitting(max) \subseteq Text /\ Seq(Fitting(max)) \subseteq Seq(Text)
      /\ min \in Nat /\ Blank \in Nat /\ ~IsLetter(Blank) /\ ~(Blank < Blank)
      /\ <<>> \in Text /\ <<>> \in Seq(Text) /\ <<>> \in Seq(Fitting(max)) /\ <<>> \in Seq(All)
      /\ \A t \in Text : TextLen(t) \in Nat
  <2>1. Fitting(max) \subseteq Text
    BY DEF Fitting
  <2>2. Seq(Fitting(max)) \subseteq Seq(Text)
    BY <2>1, SmallerSequences
  <2>3. <<>> \in Text /\ <<>> \in Seq(Text) /\ <<>> \in Seq(Fitting(max)) /\ <<>> \in Seq(All)
    BY DEF Text
  <2>4. Blank \in Nat /\ ~IsLetter(Blank) /\ ~(Blank < Blank)
    BY DEF Blank, IsLetter
  <2>5. \A t \in Text : TextLen(t) \in Nat
    BY <2>4, LengthAppend
  <2> QED
    BY <2>1, <2>2, <2>3, <2>4, <2>5
<1>2. <<>> \in P
  <2> DEFINE none == Merged(<<>>, min, max)
  <2>1. none = [done |-> <<>>, open |-> <<>>]
    BY <1>1, MergeAppend
  <2>2. none.done = <<>> /\ none.open = <<>>
    BY <2>1
  <2> HIDE DEF none
  <2>3. Good(none)
    BY <1>1, <2>2
  <2> HIDE DEF Good
  <2> QED
    BY <1>1, <2>3 DEF none
<1>3. ASSUME NEW u \in Seq(Fitting(max)), NEW chunk \in Fitting(max), u \in P
      PROVE  Append(u, chunk) \in P
  <2> DEFINE acc == Merged(u, min, max)
             text == IF acc.open = <<>> THEN chunk ELSE acc.open[1] \o <<Blank>> \o chunk
             new == Taken(acc, chunk, min, max)
  <2>1. acc \in Merging /\ new = Merged(Append(u, chunk), min, max) /\ chunk \in Text
    <3>1. u \in Seq(Text) /\ chunk \in Text
      BY <1>1
    <3> QED
      BY <1>1, <3>1, MergeAppend
  <2>2. Good(acc) /\ Append(u, chunk) \in Seq(Fitting(max))
    BY <1>3
  <2>3. /\ text \in Text
        /\ acc.open # <<>> => acc.open[1] \in Text /\ acc.open = <<acc.open[1]>>
        /\ TextLen(text) < min => new.done = acc.done /\ new.open = <<text>>
        /\ ~(TextLen(text) < min) =>
             /\ new.done = IF acc.open = <<>> THEN Append(acc.done, text) ELSE Place(acc.done, text, max)
             /\ new.open = <<>>
    <3>1. min \in Nat
      OBVIOUS
    <3>2. IsTaken(acc, chunk, min, max, new)
      BY <2>1, <3>1, TakenCases
    <3> HIDE DEF acc, new
    <3> QED
      BY <3>2 DEF IsTaken
  <2>4. TextLen(text) \in Nat /\ TextLen(text) <= min + max
    <3>1. TextLen(chunk) \in Nat /\ TextLen(chunk) <= max
      BY <1>1 DEF Fitting
    <3>2. CASE acc.open = <<>>
      BY <3>1, <3>2
    <3>3. CASE acc.open # <<>>
      <4>1. /\ acc.open[1] \in Text /\ TextLen(acc.open[1]) < min /\ TextLen(acc.open[1]) \in Nat
        BY <1>1, <2>2, <2>3, <3>3
      <4>2. TextLen(acc.open[1] \o <<Blank>> \o chunk) = TextLen(acc.open[1]) + 1 + TextLen(chunk)
        BY <1>1, <2>1, <4>1, Glued
      <4> QED
        BY <3>1, <3>3, <4>1, <4>2
    <3> QED
      BY <3>2, <3>3
  <2> HIDE DEF acc, text, new, P
  <2>5. CASE TextLen(text) < min
    BY <2>1, <2>2, <2>3, <2>5 DEF P
  <2>6. CASE ~(TextLen(text) < min)
    <3>1. text \in All /\ TextLen(text) >= min
      BY <2>3, <2>4, <2>6 DEF Large
    <3>2. acc.done \in Seq(All)
      BY <2>2
    <3>3. Append(acc.done, text) \in Seq(All)
      BY <3>1, <3>2
    <3>4. Place(acc.done, text, max) \in Seq(All)
      <4>1. IsPlacedAs(text, min, max, Place(acc.done, text, max))
        BY <2>3, <2>4, <3>2, PlacedSizes
      <4>2. PICK front \in Seq(All), last \in All : Place(acc.done, text, max) = Append(front, last)
        BY <3>1, <4>1 DEF IsPlacedAs
      <4> QED
        BY <4>2
    <3>5. Good(new)
      BY <2>3, <2>6, <3>3, <3>4
    <3> QED
      BY <2>1, <2>2, <3>5 DEF P
  <2> QED
    BY <2>5, <2>6
<1>4. Seq(Fitting(max)) \subseteq P
  <2> HIDE DEF P
  <2> QED
    BY <1>2, <1>3, EverySequence
<1> DEFINE end == Merged(chunks, min, max)
           final == MergeChunks(chunks, min, max)
<1>5. Good(end) /\ end \in Merging
  <2>1. chunks \in P
    BY <1>4
  <2>2. end \in Merging
    BY <1>1, MergeAppend
  <2> QED
    BY <2>1, <2>2
<1>6. final = IF end.open = <<>> THEN end.done ELSE Place(end.done, end.open[1], max)
  BY MergeEnds
<1>7. end.open # <<>> => end.open[1] \in Text
  BY <1>5 DEF Merging
<1> HIDE DEF end, final
<1>8. \A list \in Seq(All) : \A i \in DOMAIN list : TextLen(list[i]) >= min /\ TextLen(list[i]) <= min + max
  <2> SUFFICES ASSUME NEW list \in Seq(All), NEW i \in DOMAIN list
               PROVE  TextLen(list[i]) >= min /\ TextLen(list[i]) <= min + max
    OBVIOUS
  <2>1. list[i] \in All
    <3> HIDE DEF All
    <3> QED
      OBVIOUS
  <2>2. TextLen(list[i]) \in Nat
    BY <1>1, <2>1 DEF Large
  <2> QED
    BY <2>1, <2>2 DEF Large
<1>9. \A i \in DOMAIN final : /\ i < Len(final) => TextLen(final[i]) >= min
                              /\ TextLen(final[i]) <= min + max
  <2>1. CASE end.open = <<>>
    BY <1>5, <1>6, <1>8, <2>1
  <2>2. CASE end.open # <<>>
    <3>1. TextLen(end.open[1]) \in Nat /\ TextLen(end.open[1]) < min /\ end.open[1] \in Text
      BY <1>1, <1>5, <1>7, <2>2
    <3>2. TextLen(end.open[1]) <= min + max
      BY <3>1
    <3>3. IsPlacedAs(end.open[1], min, max, Place(end.done, end.open[1], max))
      BY <1>5, <3>1, <3>2, PlacedSizes
    <3>4. PICK front \in Seq(Large(min, max)), last \in Text :
            Place(end.done, end.open[1], max) = Append(front, last) /\ TextLen(last) <= min + max
      BY <3>3 DEF IsPlacedAs
    <3>5. final = Append(front, last)
      BY <1>6, <2>2, <3>4
    <3> SUFFICES ASSUME NEW i \in DOMAIN final
                 PROVE  /\ i < Len(final) => TextLen(final[i]) >= min
                        /\ TextLen(final[i]) <= min + max
      OBVIOUS
    <3> DEFINE n == Len(front)
    <3>6. n \in Nat /\ Len(final) = n + 1 /\ i \in 1..(n + 1) /\ final[n + 1] = last
      BY <3>5
    <3>7. i \in 1..n => i \in DOMAIN front /\ final[i] = front[i]
      BY <3>5
    <3> HIDE DEF n
    <3>8. CASE i \in 1..n
      BY <1>8, <3>4, <3>7, <3>8
    <3>9. CASE i = n + 1
      BY <3>4, <3>6, <3>9
    <3> QED
      BY <3>6, <3>8, <3>9
  <2> QED
    BY <2>1, <2>2
<1> QED
  BY <1>9 DEF final

\* For every document and every two bounds: no chunk that splitting leaves is too
\* long, the chunks keep every letter in its order, and merging leaves only the
\* last one too short and none longer than the bounds together.
THEOREM ChunksTheorem ==
  ASSUME NEW chunks \in Seq(Text), NEW min \in Nat \ {0}, NEW max \in Nat \ {0}
  PROVE  /\ SplitFits(chunks, max)
         /\ KeepsLetters(chunks, min, max)
         /\ MergedSizes(chunks, min, max)
<1> DEFINE split == SplitChunks(chunks, max)
<1>1. split \in Seq(Fitting(max)) /\ Letters(split) = Letters(chunks)
  BY ChunksSplit
<1>2. split \in Seq(Text) /\ min \in Nat /\ max \in Nat
  <2>1. Fitting(max) \subseteq Text
    BY DEF Fitting
  <2> HIDE DEF split
  <2> QED
    BY <1>1, <2>1, SmallerSequences
<1> HIDE DEF split
<1>3. SplitFits(chunks, max)
  <2>1. \A i \in DOMAIN split : split[i] \in Fitting(max)
    BY <1>1
  <2>2. \A text \in ToSet(split) : TextLen(text) <= max
    BY <2>1 DEF ToSet, Fitting
  <2> QED
    BY <2>2 DEF SplitFits, split
<1>4. KeepsLetters(chunks, min, max)
  <2>1. Letters(MergeChunks(split, min, max)) = Letters(chunks)
    BY <1>1, <1>2, MergeLetters
  <2> QED
    BY <2>1 DEF KeepsLetters, FinalChunks, split
<1>5. MergedSizes(chunks, min, max)
  <2> DEFINE final == MergeChunks(split, min, max)
  <2>1. \A i \in DOMAIN final : /\ i < Len(final) => TextLen(final[i]) >= min
                                /\ TextLen(final[i]) <= min + max
    BY <1>1, <1>2, MergeSizes
  <2> QED
    BY <2>1 DEF MergedSizes, FinalChunks, split
<1> QED
  BY <1>3, <1>4, <1>5

\* Hence the chunks of every input are what they should be.
THEOREM ChunkingTheorem == Spec => []ChunkingIsExact
<1>1. ASSUME input \in ChunkInputs
      PROVE  /\ input.chunks \in Seq(Text)
             /\ input.size[1] \in Nat \ {0} /\ input.size[2] \in Nat \ {0}
  <2>1. input.size[1] \in Nat \ {0} /\ input.size[2] \in Nat \ {0}
    BY <1>1 DEF ChunkInputs, Sizes
  <2>2. CASE input.chunks \in {<<Lettered(s)>> : s \in Shapes}
    <3>1. PICK s \in Shapes : input.chunks = <<Lettered(s)>>
      BY <2>2
    <3>2. s \in Seq({Paragraph, Sentence, Blank + 1})
      BY <3>1, BoundedAreSequences DEF Shapes
    <3>3. Len(s) \in Nat /\ DOMAIN s = 1..Len(s) /\ \A i \in 1..Len(s) : s[i] \in Nat
      <4>1. \A i \in 1..Len(s) : s[i] \in {Paragraph, Sentence, Blank + 1}
        BY <3>2
      <4> QED
        BY <3>2, <4>1 DEF Paragraph, Sentence, Blank
    <3>4. Lettered(s) \in [1..Len(s) -> Nat]
      BY <3>3 DEF Lettered, Blank
    <3>5. Lettered(s) \in Text
      BY <3>3, <3>4 DEF Text
    <3> QED
      BY <2>1, <3>1, <3>5
  <2>3. CASE input.chunks \in {OfLengths(l) : l \in BoundedSeq(0..MaxLength, MaxChunks)}
    <3>1. PICK l \in BoundedSeq(0..MaxLength, MaxChunks) : input.chunks = OfLengths(l)
      BY <2>3
    <3>2. l \in Seq(0..MaxLength)
      BY <3>1, BoundedAreSequences
    <3>3. Len(l) \in Nat /\ DOMAIN l = 1..Len(l) /\ \A i \in 1..Len(l) : l[i] \in Nat
      <4> DEFINE S == 0..MaxLength
      <4>1. S \subseteq Nat /\ l \in Seq(S)
        BY <3>2
      <4> HIDE DEF S
      <4>2. Len(l) \in Nat /\ DOMAIN l = 1..Len(l) /\ \A i \in 1..Len(l) : l[i] \in S
        BY <4>1
      <4> QED
        BY <4>1, <4>2
    <3>4. ASSUME NEW i \in 1..Len(l)
          PROVE  [j \in 1..l[i] |-> Blank + 10 * i + j] \in Text
      <4>1. l[i] \in Nat
        BY <3>3
      <4>2. [j \in 1..l[i] |-> Blank + 10 * i + j] \in [1..l[i] -> Nat]
        BY <3>3 DEF Blank
      <4> QED
        BY <4>1, <4>2 DEF Text
    <3>5. OfLengths(l) \in [1..Len(l) -> Text]
      BY <3>3, <3>4 DEF OfLengths
    <3> QED
      <4>1. OfLengths(l) \in Seq(Text)
        BY <3>3, <3>5
      <4> QED
        BY <2>1, <3>1, <4>1
  <2> QED
    BY <1>1, <2>1, <2>2, <2>3 DEF ChunkInputs
<1>2. Init => ChunkingIsExact
  <2>1. Init => input \in ChunkInputs \/ input.kind # "chunks"
    BY DEF Init, QueryInputs, GraphInputs, PipelineInputs, ServiceInputs, RequestInputs
  <2> QED
    BY <1>1, <2>1, ChunksTheorem DEF ChunkingIsExact
<1>3. ChunkingIsExact /\ [Next]_input => ChunkingIsExact'
  BY DEF Next, ChunkingIsExact
<1> QED
  BY <1>2, <1>3, PTL DEF Spec
=============================================================================
