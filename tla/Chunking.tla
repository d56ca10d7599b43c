------------------------------- MODULE Chunking -------------------------------
(***************************************************************************)
(* The post-processing of the chunks that the LLM proposes                 *)
(* (pipeline/steps/llm_combined_pass.py): chunks longer than a maximum are *)
(* split at paragraphs, then at sentences, then anywhere; then chunks      *)
(* shorter than a minimum are merged with their neighbours.                *)
(*                                                                         *)
(* A text is a sequence of tokens: two delimiters, the blank that merging  *)
(* inserts, and letters, which are numbers so that texts can number them.  *)
(* Its length is that of the Python string, in which a delimiter counts    *)
(* two.  Abstraction: no letters of the text form a delimiter by chance.   *)
(***************************************************************************)
EXTENDS Naturals, FiniteSets, Sequences, SequencesExt

Paragraph == 0
Sentence  == 1
Blank     == 2
IsLetter(token) == token > 2

TextLen(text) == Len(text) + Cardinality({i \in DOMAIN text : text[i] < Blank})

\* str.split(delimiter)
SplitAt(text, delimiter) ==
  FoldLeft(LAMBDA items, token :
             IF token = delimiter THEN Append(items, <<>>)
             ELSE Append(Front(items), Append(Last(items), token)),
           << <<>> >>, text)

AppendText(texts, text) == IF text = <<>> THEN texts ELSE Append(texts, text)

\* Mutant: the delimiter between two items is not counted.
BuildSplitListUncounted(text, delimiter, max) ==
  LET Add(acc, item) ==
        LET joined == acc.tmp \o <<delimiter>> \o item IN
        IF TextLen(acc.tmp) + TextLen(item) > max
          THEN IF acc.tmp = <<>> THEN [acc EXCEPT !.blocks = Append(@, item)]
               ELSE [blocks |-> Append(acc.blocks, acc.tmp), tmp |-> item]
          ELSE [acc EXCEPT !.tmp = IF @ = <<>> THEN item ELSE joined]
      end == FoldLeft(Add, [blocks |-> <<>>, tmp |-> <<>>], SplitAt(text, delimiter))
  IN  AppendText(end.blocks, end.tmp)

\* Items are joined as long as they fit.  One that does not fit even alone
\* becomes, or ends as, a block of its own.
BuildSplitList(text, delimiter, max) ==
  LET Add(acc, item) ==
        LET joined == acc.tmp \o <<delimiter>> \o item IN
        IF TextLen(joined) > max
          THEN IF acc.tmp = <<>> THEN [acc EXCEPT !.blocks = Append(@, item)]
               ELSE [blocks |-> Append(acc.blocks, acc.tmp), tmp |-> item]
          ELSE [acc EXCEPT !.tmp = IF @ = <<>> THEN item ELSE joined]
      end == FoldLeft(Add, [blocks |-> <<>>, tmp |-> <<>>], SplitAt(text, delimiter))
  IN  AppendText(end.blocks, end.tmp)

\* Slices of the maximal length; there are no delimiters left to count.
CutUp(text, max) ==
  LET pieces == (Len(text) + max - 1) \div max IN
  [k \in 1..pieces |->
     SubSeq(text, (k - 1) * max + 1, IF k * max < Len(text) THEN k * max ELSE Len(text))]

SplitSentence(text, max)  == IF TextLen(text) <= max THEN <<text>> ELSE CutUp(text, max)

SplitParagraph(text, max) ==
  IF TextLen(text) <= max THEN <<text>>
  ELSE LET sentences == BuildSplitList(text, Sentence, max)
       IN  FlattenSeq([i \in DOMAIN sentences |-> SplitSentence(sentences[i], max)])

SplitChunk(text, max) ==
  IF TextLen(text) <= max THEN <<text>>
  ELSE LET paragraphs == BuildSplitList(text, Paragraph, max)
       IN  FlattenSeq([i \in DOMAIN paragraphs |-> SplitParagraph(paragraphs[i], max)])

SplitChunks(chunks, max) ==
  FlattenSeq([i \in DOMAIN chunks |-> SplitChunk(chunks[i], max)])

\* A small chunk is glued to the one before it, if the two fit together
\* (the blank between them is not counted).
Place(done, text, max) ==
  IF done # <<>> /\ TextLen(Last(done)) + TextLen(text) <= max
    THEN Append(Front(done), Last(done) \o <<Blank>> \o text)
    ELSE Append(done, text)

\* A small chunk takes in those after it until it is large enough, without
\* regard to the maximum, and is then placed.  "open" holds it meanwhile.
MergeChunks(chunks, min, max) ==
  LET Add(acc, chunk) ==
        LET text == IF acc.open = <<>> THEN chunk ELSE acc.open[1] \o <<Blank>> \o chunk IN
        IF TextLen(text) < min THEN [acc EXCEPT !.open = <<text>>]
        ELSE [done |-> IF acc.open = <<>> THEN Append(acc.done, text) ELSE Place(acc.done, text, max),
              open |-> <<>>]
      end == FoldLeft(Add, [done |-> <<>>, open |-> <<>>], chunks)
  IN  IF end.open = <<>> THEN end.done ELSE Place(end.done, end.open[1], max)

\* run_llm_combined_pass, as far as the chunks go.
FinalChunks(chunks, min, max) == MergeChunks(SplitChunks(chunks, max), min, max)

-------------------------------------------------------------------------------
LettersOf(text) ==
  FoldLeft(LAMBDA letters, token : IF IsLetter(token) THEN Append(letters, token) ELSE letters,
           <<>>, text)
Letters(texts) == LettersOf(FlattenSeq(texts))

\* After splitting no chunk exceeds the maximum, whatever its delimiters.
SplitFits(chunks, max) ==
  \A text \in ToSet(SplitChunks(chunks, max)) : TextLen(text) <= max

\* Splitting and merging lose, repeat and reorder no letter of the document.
KeepsLetters(chunks, min, max) == Letters(FinalChunks(chunks, min, max)) = Letters(chunks)

\* After merging only the last chunk can be below the minimum; and no chunk
\* exceeds the sum of the two bounds.  (That it stays below the maximum, as
\* the configuration suggests, is not so.)
MergedSizes(chunks, min, max) ==
  LET final == FinalChunks(chunks, min, max) IN
  \A i \in DOMAIN final : /\ i < Len(final) => TextLen(final[i]) >= min
                          /\ TextLen(final[i]) <= min + max
=============================================================================
