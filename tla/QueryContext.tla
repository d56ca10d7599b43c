----------------------------- MODULE QueryContext -----------------------------
(***************************************************************************)
(* What the query service makes of the results of a search: the context    *)
(* for the LLM (query/context_assembly.py) and the citations of its answer *)
(* (query/response_synthesis.py).                                          *)
(*                                                                         *)
(* A result is a record of its score, the length of its text, and an id.   *)
(***************************************************************************)
EXTENDS Naturals, Sequences, SequencesExt, FiniteSetsExt

Tokens(result) == result.length \div 4

\* The elements of a set by their ranks: as many as its rank come before one.
Sorted(S, Before(_, _)) ==
  [k \in 1..Cardinality(S) |-> CHOOSE x \in S : Cardinality({y \in S : Before(y, x)}) = k - 1]

\* sorted(..., reverse=True): by score, equal ones in their order.
ByScore(results) ==
  LET Before(i, j) == \/ results[i].score > results[j].score
                      \/ results[i].score = results[j].score /\ i < j
      order == Sorted(DOMAIN results, Before)
  IN  [i \in DOMAIN order |-> results[order[i]]]

TotalTokens(chunks) == FoldLeft(LAMBDA sum, result : sum + Tokens(result), 0, chunks)

\* Mutant: a result that does not fit is passed over.
AssembleContextSkips(results, budget) ==
  LET Add(chunks, result) ==
        IF TotalTokens(chunks) + Tokens(result) > budget THEN chunks ELSE Append(chunks, result)
      chunks == FoldLeft(Add, <<>>, ByScore(results))
  IN  [chunks |-> chunks, total |-> TotalTokens(chunks), truncated |-> Len(chunks) < Len(results)]

\* The best results, up to the first that would exceed the budget.
AssembleContext(results, budget) ==
  LET sorted == ByScore(results)
      Fits(k) == TotalTokens(SubSeq(sorted, 1, k)) <= budget
      taken  == CHOOSE k \in 0..Len(sorted) :
                  /\ \A j \in 0..k : Fits(j)
                  /\ k < Len(sorted) => ~Fits(k + 1)
      chunks == SubSeq(sorted, 1, taken)
  IN  [chunks |-> chunks, total |-> TotalTokens(chunks), truncated |-> taken < Len(sorted)]

\* The numbers mentioned in the answer, each once and sorted; those without
\* an excerpt are skipped.
Citations(chunks, mentions) ==
  LET numbers == Sorted({n \in mentions : n - 1 >= 0 /\ n - 1 < Len(chunks)}, <)
  IN  [i \in DOMAIN numbers |-> chunks[numbers[i]]]

\* synthesize_response: without a context the LLM is not asked.
Synthesise(context, mentions) ==
  IF context.chunks = <<>> THEN [citations |-> <<>>, noResults |-> TRUE]
  ELSE [citations |-> Citations(context.chunks, mentions), noResults |-> FALSE]

-------------------------------------------------------------------------------
\* The context stays within its budget and is as large as a selection of the
\* best results can be: nothing left out scores better than something taken,
\* and the next best one would not have fitted.
ContextIsBest(results, budget) ==
  LET context == AssembleContext(results, budget)
      taken   == ToSet(context.chunks)
      left    == ToSet(results) \ taken IN
  /\ TotalTokens(context.chunks) <= budget
  /\ \A r \in left, t \in taken : r.score <= t.score
  /\ context.truncated <=> left # {}
  /\ left # {} => \E r \in left :
       /\ \A q \in left : q.score <= r.score
       /\ TotalTokens(context.chunks) + Tokens(r) > budget

\* Every citation is the excerpt that was shown under the number mentioned,
\* none twice, none for a number that was not shown.
CitationsAreShown(results, budget, mentions) ==
  LET context == AssembleContext(results, budget)
      cited   == Synthesise(context, mentions).citations
      shown   == mentions \cap DOMAIN context.chunks IN
  /\ ToSet(cited) = {context.chunks[n] : n \in shown}
  /\ Len(cited) = Cardinality(shown)
=============================================================================
