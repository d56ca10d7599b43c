-------------------------------- MODULE Gateway --------------------------------
(***************************************************************************)
(* What a curator's request meets on its way and what is made of the       *)
(* answer: the checks of the frontend's server (Hono), those of Express,   *)
(* the service, the error status either side gives, and what the browser   *)
(* takes the answer for.                                                   *)
(***************************************************************************)
EXTENDS Naturals

\* DOC-006 to DOC-009 and VOC-001 to VOC-004.
Operation == {"documents", "detail", "clear", "save", "vocabulary", "add", "accept", "reject"}
Listing == {"documents", "vocabulary"}

\* A request: its id and its body, or query, keep to the schemas of both servers;
\* the key is one that Express knows; what becomes of it in Express, if it gets
\* to the service.
Request ==
  [op : Operation, wellFormed : BOOLEAN, knownKey : BOOLEAN,
   outcome : {"served", "thrown", "unreachable", "not_found", "no_flag_to_clear",
              "wrong_source", "duplicate_term", "target_not_found"}]

\* The errors that the services answer with.  The lists know none.
CurationErrors(op) ==
  CASE op = "clear" -> {"not_found", "no_flag_to_clear"}
    [] op \in {"detail", "save"} -> {"not_found"}
    [] OTHER -> {}
VocabularyErrors(op) ==
  CASE op \in {"accept", "reject"} -> {"not_found", "wrong_source"}
    [] op = "add" -> {"duplicate_term", "target_not_found"}
    [] OTHER -> {}
ServiceErrors(op) == CurationErrors(op) \cup VocabularyErrors(op)

\* A service is not reached, throws, or answers with a success or an error of its.
Possible(q) == q.outcome \in {"served", "thrown", "unreachable"} \cup ServiceErrors(q.op)

-----------------------------------------------------------------------------
(* Express.                                                                *)

Answer(status, error) == [status |-> status, error |-> error]

Success(q) == Answer(IF q.op = "add" THEN 201 ELSE 200, "none")

\* The ERROR_STATUS tables of the two routers.
CurationStatus == [not_found |-> 404, no_flag_to_clear |-> 409]
VocabularyStatus ==
  [not_found |-> 404, wrong_source |-> 409, duplicate_term |-> 409, target_not_found |-> 404]

CurationAnswer(q) ==
  IF q.outcome = "served" THEN Success(q) ELSE Answer(CurationStatus[q.outcome], q.outcome)

VocabularyAnswer(q) ==
  IF q.outcome = "served" THEN Success(q) ELSE Answer(VocabularyStatus[q.outcome], q.outcome)

Unhandled == Answer(500, "internal_error")
Unauthorized == Answer(401, "unauthorized")
Invalid == Answer(400, "validation_error")

\* The middleware, in its order.
ExpressAnswer(q) ==
  CASE ~q.knownKey -> Unauthorized
    [] q.knownKey /\ ~q.wellFormed -> Invalid
    [] q.knownKey /\ q.wellFormed /\ q.outcome = "thrown" -> Unhandled
    [] OTHER -> IF q.op \in {"documents", "detail", "clear", "save"}
                THEN CurationAnswer(q) ELSE VocabularyAnswer(q)

-----------------------------------------------------------------------------
(* The frontend's server.                                                  *)

\* The codes that its ERROR_STATUS table knows.
HonoTable ==
  [not_found |-> 404, no_active_flag |-> 409, invalid_params |-> 400,
   invalid_state |-> 409, duplicate_term |-> 409]

\* c.json without a status.
DefaultStatus == 200

HonoStatus(error) ==
  IF error \in DOMAIN HonoTable THEN HonoTable[error] ELSE DefaultStatus

\* Mutant: what Express throws is relayed, too.
KyResultOfAll(q) ==
  LET answer == ExpressAnswer(q)
  IN CASE q.outcome = "unreachable" -> "throws"
       [] q.outcome # "unreachable" /\ answer.error = "none" -> "success"
       [] OTHER -> IF q.op \in Listing THEN "throws" ELSE answer.error

\* Ky throws for an error status and when there is no answer.  The code of a 4xx
\* is taken from the body, anything else is thrown on, as is every error of a list.
KyResult(q) ==
  LET answer == ExpressAnswer(q)
  IN CASE q.outcome = "unreachable" -> "throws"
       [] q.outcome # "unreachable" /\ answer.error = "none" -> "success"
       [] OTHER -> IF q.op \in Listing \/ answer.status >= 500 THEN "throws" ELSE answer.error

\* What the routes make of the result.
HonoRelays(q, result) ==
  CASE result = "success" -> Success(q)
    [] result = "throws" -> Answer(500, "failed")
    [] OTHER -> Answer(HonoStatus(result), result)

\* The routes check the id, the body and the query first.
HonoAnswer(q) ==
  IF q.wellFormed THEN HonoRelays(q, KyResult(q)) ELSE Answer(400, "invalid_params")

-----------------------------------------------------------------------------
(* The browser.                                                            *)

\* res.ok is all that the hooks look at.
Hears(answer) == IF answer.status \in 200..299 THEN "success" ELSE "error"

\* What the curator is told of a well-formed request that Express answers.
Told(op, outcome) ==
  Hears(HonoAnswer([op |-> op, wellFormed |-> TRUE, knownKey |-> TRUE, outcome |-> outcome]))

-----------------------------------------------------------------------------
IsTold(q) == Hears(HonoAnswer(q)) = "success"
IsDone(q) == q.wellFormed /\ q.knownKey /\ q.outcome = "served"

\* The refusals whose codes the table of the frontend's server lacks: those of
\* requests with a wrong key, and three errors of the services.
IsUnlisted(q) ==
  /\ q.wellFormed /\ q.outcome # "unreachable" /\ q.op \notin Listing
  /\ ~q.knownKey \/ q.outcome \in {"no_flag_to_clear", "wrong_source", "target_not_found"}

\* Whatever is done is told as a success, and what is told as one is done; only
\* the refusals without a status (curation.ts:23) may be taken for successes.
SuccessIsEarned(q) ==
  /\ IsDone(q) => IsTold(q)
  /\ IsTold(q) => IsDone(q) \/ IsUnlisted(q)
=============================================================================
