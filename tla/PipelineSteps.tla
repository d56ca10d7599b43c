----------------------------- MODULE PipelineSteps -----------------------------
(***************************************************************************)
(* One call of PipelineOrchestrator.process, computed from what the call   *)
(* meets: the file, the patterns, the LLM, the embedding service.  Module  *)
(* Pipeline has only what such a call can report; here is what it reports, *)
(* what it posts, and what it answers with.                                *)
(***************************************************************************)
EXTENDS Naturals, FiniteSets, Sequences, FiniteSetsExt, SequencesExt

CONSTANTS
  Weight,     \* COMPLETENESS_WEIGHTS
  Threshold   \* COMPLETENESS_THRESHOLD, in per cent

\* people stands for the four lists, which are treated alike.
Field == {"document_type", "people", "description"}

ASSUME PipelineAssumption ==
  /\ Weight \in [Field -> Nat] /\ \E f \in Field : Weight[f] > 0
  /\ Threshold \in Nat \ {0}

Contract == INSTANCE Pipeline

\* A page without text, one whose score is below the threshold, one that is not.
Page == {"blank", "poor", "good"}

Null == "null"
Empty == "blank"   \* "", and the empty list

(* A call: the steps it is asked for; the pages of the file, {} if it cannot *)
(* be opened; the fields that the patterns match in a text; the result of    *)
(* the combined pass, {} for none: its description, its chunks, whether      *)
(* the names and the confidences of its entities and relationships are as    *)
(* the schema wants them; and the first chunk that has no proper embedding,  *)
(* 0 for none.                                                               *)

Asks(call, step) == step \in call.asked

-------------------------------------------------------------------------------
(* The steps.                                                              *)

\* run_ocr_extraction.
ExtractionFlags(call) ==
  IF ~Asks(call, "text_extraction") THEN {}
  ELSE {IF ToSet(pages) \subseteq {"blank"} THEN "extraction_failure" ELSE "partial_extraction" :
          pages \in {f \in call.file : f = <<>> \/ "blank" \in ToSet(f)}}

\* Without earlier outputs there is no text but this call's.
Pages(call) ==
  IF Asks(call, "text_extraction") THEN UNION {ToSet(f) : f \in call.file} ELSE {}

\* WeightedTextQualityScorer.score: every page counts for itself.
QualityFails(call) ==
  Asks(call, "text_quality_scoring") /\ (Pages(call) = {} \/ "poor" \in Pages(call))

\* RegexPatternExtractor.extract.
Found(call) ==
  IF Asks(call, "pattern_metadata_extraction") /\ Pages(call) # {} THEN call.found ELSE {}

\* WeightedFieldPresenceScorer.score.
CompletenessFails(call) ==
  LET Weighs(fields) == MapThenSumSet(LAMBDA f : Weight[f], fields)
  IN  /\ Asks(call, "metadata_completeness_scoring")
      /\ 100 * Weighs(Found(call)) < Threshold * Weighs(Field)

\* Two failures make one flag, with both reasons.
ScoreFlags(call) ==
  CASE QualityFails(call) /\ CompletenessFails(call) -> {"quality_and_completeness_failure"}
    [] QualityFails(call) /\ ~CompletenessFails(call) -> {"quality_threshold_failure"}
    [] ~QualityFails(call) /\ CompletenessFails(call) -> {"completeness_threshold_failure"}
    [] OTHER -> {}

\* run_llm_combined_pass.
Pass(call) == IF Asks(call, "llm_combined_pass") THEN call.pass ELSE {}

\* run_embedding_generation gives up at the first chunk that it cannot embed.
Embeds(call) == Asks(call, "embedding_generation") /\ Pass(call) # {}
Embedded(call) ==
  IF Asks(call, "embedding_generation")
  THEN {p.chunks : p \in {q \in Pass(call) : call.failing \notin DOMAIN q.chunks}} ELSE {}

\* The LLM's description goes before the pattern's, if it is not blank.
Description(call) ==
  IF \E p \in Pass(call) : p.description \notin {Null, Empty} THEN "llm"
  ELSE IF "description" \in Found(call) THEN "pattern" ELSE Null

Status(call, step) ==
  IF \/ step = "text_extraction" /\ call.file = {}
     \/ step = "llm_combined_pass" /\ call.pass = {}
     \/ step = "embedding_generation" /\ Embedded(call) = {}
  THEN "failed" ELSE "completed"

-------------------------------------------------------------------------------
(* The response.                                                           *)

HaltedResponse(call) ==
  [steps |-> {"text_extraction"}, flags |-> ExtractionFlags(call), metadata |-> {}, chunks |-> {}]

FullResponse(call) ==
  [steps |-> IF Embeds(call) THEN call.asked ELSE call.asked \ {"embedding_generation"},
   flags |-> ExtractionFlags(call) \cup ScoreFlags(call),
   metadata |-> {[documentType |-> IF "document_type" \in Found(call) THEN "pattern" ELSE Null,
                  people |-> IF "people" \in Found(call) THEN "pattern" ELSE Empty,
                  description |-> Description(call)]},
   chunks |-> Embedded(call)]

\* Mutant: the pipeline goes on if there is some text.
ResponseHaltsLate(call) ==
  IF "extraction_failure" \in ExtractionFlags(call) THEN HaltedResponse(call) ELSE FullResponse(call)

\* The flag gate.
Response(call) ==
  IF ExtractionFlags(call) # {} THEN HaltedResponse(call) ELSE FullResponse(call)

\* _post_results: what is posted has neither nulls nor missing metadata.
NoMetadata == [documentType |-> Empty, people |-> Empty, description |-> Empty]
Filled(m) == [f \in DOMAIN m |-> IF m[f] = Null THEN Empty ELSE m[f]]
Posted(response) ==
  IF response.metadata = {} THEN {NoMetadata} ELSE {Filled(m) : m \in response.metadata}

\* The combined pass whose chunks and entities a response carries.
Carried(call) == {p \in Pass(call) : ExtractionFlags(call) = {} /\ p.chunks \in Embedded(call)}

TokenCount(chunk) == IF chunk = "empty" THEN 0 ELSE 1
AtLeastOne(count) == IF count > 0 THEN count ELSE 1

\* The generated models want texts, names, and counts and confidences in range;
\* otherwise _post_results raises, and the call fails without a report.
PostAccepted(call) ==
  \A p \in Carried(call) :
    p.sound /\ \A chunk \in ToSet(p.chunks) : chunk # "empty" /\ AtLeastOne(TokenCount(chunk)) > 0

\* So do the schemas by which callPythonProcess parses the answer.
AnswerAccepted(call) ==
  \A p \in Carried(call) :
    p.sound /\ \A chunk \in ToSet(p.chunks) : chunk # "empty" /\ TokenCount(chunk) > 0

\* _map_processing_response: the answer has them.
Answered(response) == response.metadata

\* applyProcessingMetadata.
Applied(row, metadata) ==
  IF metadata = {} THEN row
  ELSE LET m == CHOOSE x \in metadata : TRUE
       IN  [m EXCEPT !.description = IF @ \in {Null, Empty} THEN row.description ELSE @]

-------------------------------------------------------------------------------
\* What Pipeline!Reports says of a call: the statuses, whether there is a flag,
\* whether there are chunks.
Reported(call) ==
  LET response == Response(call)
  IN  [results |-> [s \in response.steps |-> Status(call, s)],
       flagged |-> response.flags # {}, embedded |-> response.chunks # {}]

\* Every call reports what Pipeline lets it report, unless its report is refused
\* where Pipeline says that a call may raise; and with one flag at most, of which
\* Express keeps the first.
ReportsAreAllowed(call) ==
  /\ Reported(call) \in Contract!Reports(call.asked)
  /\ PostAccepted(call) \/ Contract!MayRaise(call.asked)
  /\ Cardinality(Response(call).flags) <= 1

\* A report that could be posted is not refused when it comes again, in the answer
\* of the call, and repeats what the POST has said: over whatever row the POST
\* finds, it only makes an empty document type of the POST null again.
AnswersRepeatPosts(call, rows) ==
  LET response == Response(call)
  IN  PostAccepted(call) =>
        /\ AnswerAccepted(call)
        /\ \A row \in rows :
             LET once  == Applied(row, Posted(response))
                 twice == Applied(once, Answered(response))
             IN  twice = once \/ /\ once.documentType = Empty
                                 /\ twice = [once EXCEPT !.documentType = Null]
=============================================================================
