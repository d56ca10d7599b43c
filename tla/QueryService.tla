----------------------------- MODULE QueryService -----------------------------
(***************************************************************************)
(* One query of the Python service: the steps of QueryHandler.handle and   *)
(* what may end it, the search of Express that it calls, with retries, and *)
(* the status it answers with.                                             *)
(***************************************************************************)
EXTENDS QueryContext

CONSTANT RetryCount   \* SERVICE.HTTP.RETRY_COUNT

ASSUME QueryAssumption == RetryCount \in Nat \ {0}

(* A call: whether the key is right, the text is blank, the LLM understands *)
(* it, the terms can be embedded, their embedding has the dimension that    *)
(* Express wants, each attempt to reach Express gets there, fails (5xx) or  *)
(* is lost, what is stored and how much of it is asked for, whether the LLM *)
(* answers, and the numbers it mentions.  A result is complete if its       *)
(* document has a date and a type.                                          *)

Attempt == {"reached", "fails", "lost"}

\* understand_query never raises: without an answer the query itself is used.
Terms(call) == IF call.understood THEN "refined" ELSE "query"

\* The embeddings repository: the chunks whose embeddings are nearest.
Nearest(stored, topK) ==
  LET sorted == ByScore(stored)
  IN  SubSeq(sorted, 1, IF topK < Len(sorted) THEN topK ELSE Len(sorted))

\* PgVectorStore.search checks the dimension, as the service has done before.
StoreSearch(call) ==
  IF call.fits THEN [outcome |-> "success", data |-> Nearest(call.stored, call.topK)]
  ELSE [outcome |-> "dimension_mismatch", data |-> <<>>]

VectorSearch(call) ==
  IF call.fits THEN StoreSearch(call) ELSE [outcome |-> "dimension_mismatch", data |-> <<>>]

\* QUERY-001.
SearchStatus(call) == IF VectorSearch(call).outcome = "success" THEN 200 ELSE 400

\* What comes of an attempt; 0 is no answer.
StatusOf(call, attempt) ==
  CASE attempt = "reached" -> SearchStatus(call)
    [] attempt = "fails" -> 500
    [] attempt = "lost" -> 0

\* HttpClient._with_retry.
WithRetry(call) ==
  LET Settled == {k \in 1..RetryCount : StatusOf(call, call.attempts[k]) \in 1..499 \/ k = RetryCount}
      last == CHOOSE k \in Settled : \A j \in Settled : k <= j
  IN  [tries |-> last, status |-> StatusOf(call, call.attempts[last])]

\* ApiSearchVectorPostResponse: documentType and date are strings there, and an
\* answer of Express with a null is refused as a whole.
SearchResults(call) ==
  LET results == VectorSearch(call).data
  IN  IF \A i \in DOMAIN results : results[i].complete THEN {results} ELSE {}

Failure(status) ==
  [status |-> status, citations |-> <<>>, noResults |-> FALSE]

Synthesised(call, results) ==
  LET context == AssembleContext(results, call.budget)
  IN  IF context.chunks # <<>> /\ ~call.answers THEN Failure(500)
      ELSE LET result == Synthesise(context, call.mentions)
           IN  [status |-> 200, citations |-> result.citations, noResults |-> result.noResults]

\* Whatever is raised on the way ends the query.
Handle(call) ==
  IF ~call.embedded[Terms(call)] \/ WithRetry(call).status # 200 \/ SearchResults(call) = {}
  THEN Failure(500)
  ELSE Synthesised(call, CHOOSE r \in SearchResults(call) : TRUE)

\* POST /query.
Query(call) ==
  CASE ~call.keyKnown -> Failure(401)
    [] call.keyKnown /\ call.blank -> Failure(400)
    [] OTHER -> Handle(call)

-------------------------------------------------------------------------------
\* A search is repeated only after an answer, or none, that may be another one
\* next time, and not more often than configured.
RetriesAreMeasured(call) ==
  LET tries == WithRetry(call).tries
  IN  /\ \A k \in 1..(tries - 1) : call.attempts[k] \in {"fails", "lost"}
      /\ tries < RetryCount => call.attempts[tries] = "reached"

\* An answer cites only chunks that are stored, and the nearest topK of them.  It
\* says that there is no result if none is stored, but also if the best one does
\* not fit a context.
AnswersAreFounded(call) ==
  LET answer == Query(call)
      stored == ToSet(call.stored)
      better(r) == {q \in stored : q.score > r.score}
      best   == {r \in stored : better(r) = {}}
      large  == {r \in best : Tokens(r) > call.budget} IN
  answer.status = 200 =>
    /\ \A r \in ToSet(answer.citations) : r \in stored /\ Cardinality(better(r)) < call.topK
    /\ best \subseteq large => answer.noResults
    /\ answer.noResults => stored = {} \/ large # {}

\* A query is not answered if a service it needs fails, and in one case besides:
\* a document among the nearest has no date or no type, wherever its excerpt
\* stands.  That the LLM has not understood the query is no failure.
FailuresAreKnown(call) ==
  LET reached == "reached" \in Range(call.attempts)
      search == call.embedded[Terms(call)] /\ reached /\ call.fits
      nearest == Nearest(call.stored, call.topK)
      needed == AssembleContext(nearest, call.budget).chunks # <<>> IN
  (call.keyKnown /\ ~call.blank) =>
    ((Query(call).status # 200) <=>
       \/ ~search
       \/ \E i \in DOMAIN nearest : ~nearest[i].complete
       \/ needed /\ ~call.answers)
=============================================================================
