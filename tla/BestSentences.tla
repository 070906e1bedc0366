--------------------------- MODULE BestSentences ----------------------------
(***************************************************************************)
(* What generate_summary (nlp.c) promises, without its loops: an answer of *)
(* as many sentences as asked for, none of them twice, none of the others  *)
(* with a higher score, put in the order in which their words first occur  *)
(* in the text; whatever a sentence, a score and an occurrence are.        *)
(* Summary implements this specification with those of Text.               *)
(***************************************************************************)
EXTENDS Integers, SequencesExt, FiniteSetsExt

CONSTANTS
  Chars,                  \* what a text is made of
  split_sentences(_),     \* the sentences of a text, in order
  strstr(_, _),           \* the first place of a sentence in a text
  Score(_, _, _),         \* the score of sentence n of a text in a collection
  Higher(_, _),           \* the order of scores
  MAX_SENTENCES           \* max_sentences: how many sentences are asked for

VARIABLES
  documents,      \* the texts processed before and the one to summarise, last
  answer          \* the numbers of the answered sentences, <<>> until then

Answers(collection) ==
  LET text == Last(collection)
      sentences == split_sentences(text)
      N == Len(sentences)
      score == [n \in 1 .. N |-> Score(text, n, collection)]
      place == [n \in 1 .. N |-> strstr(text, sentences[n])]
  IN  {a \in [1 .. Min({MAX_SENTENCES, N}) -> 1 .. N] :
         /\ IsInjective(a)
         /\ \A n \in ToSet(a), other \in 1 .. N \ ToSet(a) : ~Higher(score[other], score[n])
         /\ \A k, l \in DOMAIN a : k < l => place[a[k]] <= place[a[l]]}

Init ==
  /\ documents \in Seq(Seq(Chars)) \ {<<>>}
  /\ answer = <<>>

Answer ==
  /\ answer = <<>> /\ answer' # <<>>
  /\ answer' \in Answers(documents)
  /\ UNCHANGED documents

Spec == Init /\ [][Answer]_<<documents, answer>>
=============================================================================
