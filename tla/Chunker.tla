------------------------------- MODULE Chunker -------------------------------
(***************************************************************************)
(* DocumentChunker of brain/rag.py: whole sentences are packed into chunks *)
(* of about ChunkSize characters, each beginning with the last sentences   *)
(* of the one before.  A text is the sequence of its sentences' lengths, a *)
(* chunk the pair of its first and last sentence.                          *)
(***************************************************************************)
EXTENDS Integers, Sequences, SequencesExt, FiniteSetsExt

CONSTANTS ChunkSize, ChunkOverlap, MaxLength, MaxSentences

\* The constructor refuses other sizes.
ASSUME ChunkerAssumption ==
  /\ ChunkSize \in Nat /\ ChunkOverlap \in Nat /\ ChunkSize > ChunkOverlap
  /\ MaxLength \in Nat \ {0} /\ MaxSentences \in Nat

VARIABLE sentences   \* the document, which grows by one sentence at a time

ChunkerInit == sentences = <<>>

AddSentence(n) ==
  /\ Len(sentences) < MaxSentences
  /\ sentences' = Append(sentences, n)

ChunkerNext == \E n \in 1..MaxLength : AddSentence(n)

ChunkerSpec == ChunkerInit /\ [][ChunkerNext]_sentences
------------------------------------------------------------------------------
Letters(s, a, b) == FoldLeft(LAMBDA x, y : x + y, 0, SubSeq(s, a, b))

\* The length of sentences a to b joined by single spaces.
Joined(s, a, b) == IF a > b THEN 0 ELSE Letters(s, a, b) + (b - a)

\* The first sentence the next chunk repeats of a chunk a..b: going backwards, a
\* sentence is taken while what was taken and it fit in the overlap, a space aside.
OverlapFrom(s, a, b) ==
  Min({j \in a..b + 1 : \A m \in j..b : Joined(s, m + 1, b) + s[m] <= ChunkOverlap})

\* Slip: the overlap forgotten together with the sentence that did not fit.
NextChunkSkips(s, acc, i) ==
  IF acc.len + s[i] > ChunkSize /\ acc.from < i
  THEN [done |-> Append(acc.done, <<acc.from, i - 1>>), from |-> i + 1, len |-> 0]
  ELSE [acc EXCEPT !.len = @ + s[i]]

\* One sentence of the loop: the current chunk is closed if the sentence would make
\* it too long, and the next one starts with the overlap.  The length kept is that
\* of the joined overlap and of the sentences, without the spaces between them.
NextChunk(s, acc, i) ==
  IF acc.len + s[i] > ChunkSize /\ acc.from < i
  THEN LET j == OverlapFrom(s, acc.from, i - 1)
       IN [done |-> Append(acc.done, <<acc.from, i - 1>>), from |-> j, len |-> Joined(s, j, i - 1) + s[i]]
  ELSE [acc EXCEPT !.len = @ + s[i]]

\* chunk: the loop and the final chunk; no text, no chunk.
Chunks(s) ==
  LET end == FoldLeftDomain(LAMBDA acc, i : NextChunk(s, acc, i), [done |-> <<>>, from |-> 1, len |-> 0], s)
  IN IF s = <<>> THEN <<>> ELSE Append(end.done, <<end.from, Len(s)>>)
------------------------------------------------------------------------------
\* chunk's docstring: "Split text into overlapping chunks".  Nothing of the text is
\* lost and the order is kept: the chunks begin with the first sentence and end with
\* the last, each takes up at the latest behind the one before and goes on beyond
\* it, what two of them share fits in the overlap, and a chunk is longer than
\* ChunkSize, spaces aside, only by one sentence that follows its overlap.
ChunksCoverText ==
  LET cs == Chunks(sentences)
  IN sentences # <<>> =>
       /\ cs[1][1] = 1 /\ Last(cs)[2] = Len(sentences)
       /\ \A k \in 1..Len(cs) : cs[k][1] <= cs[k][2]
       /\ \A k \in 1..Len(cs) - 1 :
            /\ cs[k][1] <= cs[k + 1][1] /\ cs[k + 1][1] <= cs[k][2] + 1 /\ cs[k][2] < cs[k + 1][2]
            /\ Letters(sentences, cs[k + 1][1], cs[k][2]) <= ChunkOverlap
       /\ \A k \in 1..Len(cs) :
            \/ Letters(sentences, cs[k][1], cs[k][2]) <= ChunkSize
            \/ Letters(sentences, cs[k][1], cs[k][2] - 1) <= ChunkOverlap
==============================================================================
