------------------------------- MODULE Pipeline -------------------------------
(***************************************************************************)
(* The processing pipeline of the Python service: what one call of         *)
(* PipelineOrchestrator.process can report for the steps it was asked to   *)
(* run.  Nothing is kept between calls, and Express sends no earlier       *)
(* outputs: a step that needs the text, the metadata or the combined pass  *)
(* of an earlier call finds them empty.                                    *)
(***************************************************************************)

Step == {"text_extraction", "text_quality_scoring", "pattern_metadata_extraction",
         "metadata_completeness_scoring", "llm_combined_pass", "embedding_generation"}

\* What a call reports: the status of each step it ran, whether it raises a
\* flag, and whether it carries chunks with their embeddings.
Report ==
  [results : UNION {[asked -> {"completed", "failed"}] : asked \in SUBSET Step},
   flagged : BOOLEAN, embedded : BOOLEAN]

\* Pages without text raise a flag, which halts the pipeline: nothing else is run.
HaltedReports(asked) ==
  {[results |-> [s \in {extraction} |-> "completed"],
    flagged |-> TRUE, embedded |-> FALSE] :
     extraction \in asked \cap {"text_extraction"}}

\* A score below its threshold raises a flag too, and halts nothing.  Without
\* text, or with no metadata at hand, a score cannot reach its threshold.
MayFail(asked, hasText) ==
  LET doomed == \/ "text_quality_scoring" \in asked /\ ~hasText
                \/ /\ "metadata_completeness_scoring" \in asked
                   /\ ~hasText \/ "pattern_metadata_extraction" \notin asked
  IN IF asked \cap {"text_quality_scoring", "metadata_completeness_scoring"} = {}
     THEN {FALSE}
     ELSE IF doomed THEN {TRUE} ELSE BOOLEAN

\* The steps whose failure the pipeline handles.
Fallible == {"text_extraction", "llm_combined_pass", "embedding_generation"}
Outcome == [Fallible -> {"completed", "failed"}]

\* Embeddings are made from the result of this call's combined pass, and the
\* step goes unreported when there is none.
ReportedSteps(asked, outcome) ==
  IF "llm_combined_pass" \in asked /\ outcome["llm_combined_pass"] = "completed"
  THEN asked ELSE asked \ {"embedding_generation"}

Statuses(asked, outcome) ==
  [s \in ReportedSteps(asked, outcome) |->
     IF s \in Fallible THEN outcome[s] ELSE "completed"]

\* Mutant: the chunks are reported whatever becomes of their embeddings.
FullReportChunks(asked, outcome, fails) ==
  [results |-> Statuses(asked, outcome), flagged |-> fails,
   embedded |-> "embedding_generation" \in ReportedSteps(asked, outcome)]

FullReport(asked, outcome, fails) ==
  [results |-> Statuses(asked, outcome), flagged |-> fails,
   embedded |-> /\ "embedding_generation" \in ReportedSteps(asked, outcome)
                /\ outcome["embedding_generation"] = "completed"]

\* A file that cannot be opened fails its step and raises no flag: the others
\* go on, with no text.
HasText(asked, outcome) ==
  "text_extraction" \in asked /\ outcome["text_extraction"] = "completed"

FullReports(asked) ==
  UNION {{FullReport(asked, outcome, fails) :
            fails \in MayFail(asked, HasText(asked, outcome))} : outcome \in Outcome}

\* What a call reports, if it reports.
Reports(asked) == HaltedReports(asked) \cup FullReports(asked)

\* Of the OCR service only the file that cannot be opened is handled, of the LLM no
\* answer that is not of the schema, nor the refusal of a report made from one:
\* the call then ends without a report.
MayRaise(asked) == asked \cap {"text_extraction", "llm_combined_pass"} # {}
=============================================================================
