----------------------------- MODULE MCAlgorithms -----------------------------
(***************************************************************************)
(* The pure algorithms over bounded inputs.  A state is an input.          *)
(***************************************************************************)
EXTENDS Chunking, QueryService, GraphSearch, PipelineSteps

CONSTANTS MaxTokens, MaxChunks, MaxLength, MaxSize, MaxResults, MaxEdges, MaxDepth, Node, Type

CONSTANTS MaxPages, DepthLimit

\* As shipped, in twentieths; people stands for the dates, too.
MCWeight == [document_type |-> 4, people |-> 13, description |-> 3]

Gate == INSTANCE Gateway

VARIABLE input

\* Chunks to be split: one text of any shape.
Shapes == BoundedSeq({Paragraph, Sentence, Blank + 1}, MaxTokens)
Lettered(shape) == [i \in DOMAIN shape |-> IF IsLetter(shape[i]) THEN Blank + i ELSE shape[i]]

\* Chunks to be merged: texts of letters, of any lengths.
OfLengths(lengths) ==
  [i \in DOMAIN lengths |-> [j \in 1..lengths[i] |-> Blank + 10 * i + j]]

\* The configuration demands 0 < min < max.
Sizes == {s \in (1..MaxSize) \X (1..MaxSize) : s[1] < s[2]}

ChunkInputs ==
  [kind : {"chunks"},
   chunks : {<<Lettered(s)>> : s \in Shapes} \cup {OfLengths(l) : l \in BoundedSeq(0..MaxLength, MaxChunks)},
   size : Sizes]

QueryInputs ==
  [kind : {"query"},
   results : {[i \in DOMAIN s |-> [id |-> i, score |-> s[i][1], length |-> s[i][2]]] :
                s \in BoundedSeq((1..2) \X {0, 4, 11}, MaxResults)},
   budget : 0..4,
   mentions : SUBSET (0..3)]

\* A few relationships, of any types, between any entities, but at most one
\* from one to another; and searches that start at the first of them.
GraphInputs ==
  [kind : {"graph"},
   edges : {{[from |-> p[1], to |-> p[2], type |-> f[p]] : p \in DOMAIN f} :
              f \in UNION {[D -> Type] : D \in {E \in SUBSET (Node \X Node) : Cardinality(E) <= MaxEdges}}},
   depth : 1..MaxDepth,
   names : {{1}, {1, 2}},
   documents : {[n \in Node |-> IF n \in e THEN {n} ELSE {}] : e \in {{1}, Node}},
   types : {{}, {CHOOSE t \in Type : TRUE}}]

\* Calls of the pipeline.
Passes ==
  [chunks : {<<>>, <<"text">>, <<"text", "empty">>}, sound : BOOLEAN, description : {Empty, "text"}]

PipelineInputs ==
  [kind : {"pipeline"}, asked : SUBSET Contract!Step,
   file : {{}} \cup {{f} : f \in BoundedSeq(Page, MaxPages)},
   found : {{}, {"people"}, {"document_type", "description"}},
   pass : {{}} \cup {{p} : p \in Passes}, failing : 0..1]

\* Queries.
ServiceInputs ==
  [kind : {"service"}, keyKnown : BOOLEAN, blank : BOOLEAN, understood : BOOLEAN,
   embedded : [{"refined", "query"} -> BOOLEAN], fits : BOOLEAN, attempts : [1..RetryCount -> Attempt],
   stored : {[i \in DOMAIN s |-> [id |-> i, score |-> s[i][1], length |-> s[i][2], complete |-> s[i][3]]] :
               s \in BoundedSeq((1..2) \X {4, 11} \X BOOLEAN, 2)},
   topK : 1..2, budget : {1}, answers : BOOLEAN, mentions : {0..2}]

RequestInputs == {[kind |-> "request", request |-> q] : q \in {r \in Gate!Request : Gate!Possible(r)}}

\* Rows that a call finds: of a document that came in, or was processed, or edited.
PipelineRows ==
  [documentType : {Null, Empty, "edited"}, people : {Null, "edited"},
   description : {Empty, "edited"}]

Init ==
  input \in ChunkInputs \cup QueryInputs \cup GraphInputs \cup PipelineInputs \cup ServiceInputs \cup RequestInputs
Next == UNCHANGED input
Spec == Init /\ [][Next]_input

-------------------------------------------------------------------------------
\* The lemmas of the modules, on the inputs they are about.

\* Splitting and merging keep every letter of a text, in its order, and the
\* chunks within their bounds.
ChunkingIsExact ==
  input.kind = "chunks" =>
    /\ SplitFits(input.chunks, input.size[2])
    /\ KeepsLetters(input.chunks, input.size[1], input.size[2])
    /\ MergedSizes(input.chunks, input.size[1], input.size[2])

\* What a query is answered with is founded on what the search has found.
AnswersAreSound ==
  /\ input.kind = "query" =>
       /\ ContextIsBest(input.results, input.budget)
       /\ CitationsAreShown(input.results, input.budget, input.mentions)
  /\ input.kind = "service" =>
       /\ RetriesAreMeasured(input) /\ AnswersAreFounded(input) /\ FailuresAreKnown(input)

\* A call of the pipeline reports what Pipeline says, to Express twice the same.
ReportsAreKnown ==
  input.kind = "pipeline" =>
    /\ ReportsAreAllowed(input)
    /\ AnswersRepeatPosts(input, PipelineRows)

\* What is done is told as done, and nothing else is, but for refusals whose codes
\* the frontend's server does not know.
SuccessesAreEarned == input.kind = "request" => Gate!SuccessIsEarned(input.request)

\* The traversal finds what it should, and so does the search.
SearchesAreExact ==
  input.kind = "graph" =>
    /\ \A start \in input.names : TraversalIsExact(input.edges, Node, start, input.depth, input.types)
    /\ SearchIsExact(input.edges, Node, input.documents, input.names, input.depth, input.types, DepthLimit)
=============================================================================
