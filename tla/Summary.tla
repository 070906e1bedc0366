------------------------------ MODULE Summary -------------------------------
(***************************************************************************)
(* generate_summary of nlp.c: the sentences of a text are scored, sorted   *)
(* by an exchange sort, the first of them chosen, and those sorted again   *)
(* by the place where strstr finds them.  One step is one turn of an inner *)
(* loop.  A sentence is known by its number in the text.                   *)
(***************************************************************************)
EXTENDS Text

CONSTANTS
  Collections,    \* the texts processed before and the one to summarise, last
  MAX_SENTENCES   \* max_sentences: how many sentences are asked for

ASSUME SummaryAssumption ==
  /\ \A c \in Collections : /\ c \in Seq(Seq(Chars)) /\ c # <<>>
                            /\ 1 .. Len(c) + 1 \subseteq DOMAIN Ln
  /\ MAX_SENTENCES \in Nat \ {0}

VARIABLES
  documents,      \* the collection of the processing thread
  sentences,      \* the array of sentences: number in the text, and score
  selected,       \* the array of the chosen ones
  i, j,           \* the loop variables, from 1
  phase           \* where the function is: see Phases

summaryVars == <<documents, sentences, selected, i, j, phase>>

(* split: not yet scored; rank and order: in the first and the second sort; *)
(* done: the summary is answered; error: so is the text that says there is  *)
(* no sentence.                                                             *)
Phases == {"split", "rank", "order", "done", "error"}

Subject == Last(documents)

TextOf(sentence) == split_sentences(Subject)[sentence.number]

Swap(s, a, b) == [s EXCEPT ![a] = s[b], ![b] = s[a]]

(* The head of the two loops  for i < n - 1, for j from i + 1 to n - 1.     *)
(* Variants named ...Bug hold a plausible mistake each, see RequestQueue.    *)
NextPairBug(n) ==  \* the last j is left out
  IF j < n - 1 THEN j' = j + 1 /\ UNCHANGED i ELSE i' = i + 1 /\ j' = i + 2

NextPairLoopBug(n) ==  \* i starts over
  IF j < n THEN j' = j + 1 /\ UNCHANGED i ELSE i' = 1 /\ j' = 2

NextPair(n) ==
  IF j < n THEN j' = j + 1 /\ UNCHANGED i ELSE i' = i + 1 /\ j' = i + 2

-----------------------------------------------------------------------------
SummaryInit ==
  /\ documents \in Collections
  /\ sentences = <<>>
  /\ selected = <<>>
  /\ i = 1 /\ j = 2
  /\ phase = "split"

(* No sentence ends: split_sentences returns NULL. *)
NoSentence ==
  /\ phase = "split"
  /\ SentenceEnds(Subject) = {}
  /\ phase' = "error"
  /\ UNCHANGED <<documents, sentences, selected, i, j>>

ScoreSentences ==
  /\ phase = "split"
  /\ SentenceEnds(Subject) # {}
  /\ sentences' = [n \in DOMAIN split_sentences(Subject) |->
                     [number |-> n, score |-> Score(Subject, n, documents)]]
  /\ phase' = "rank"
  /\ UNCHANGED <<documents, selected, i, j>>

RankHalfBug ==  \* temp forgotten: sentences[i] is overwritten
  /\ phase = "rank" /\ i < Len(sentences)
  /\ sentences' = IF Higher(sentences[j].score, sentences[i].score)
                  THEN [sentences EXCEPT ![i] = sentences[j]] ELSE sentences
  /\ NextPair(Len(sentences))
  /\ UNCHANGED <<documents, selected, phase>>

Rank ==
  /\ phase = "rank" /\ i < Len(sentences)
  /\ sentences' = IF Higher(sentences[j].score, sentences[i].score)
                  THEN Swap(sentences, i, j) ELSE sentences
  /\ NextPair(Len(sentences))
  /\ UNCHANGED <<documents, selected, phase>>

(* There is a sentence, so summary_length is at least 1 without its test. *)
Select ==
  /\ phase = "rank" /\ i >= Len(sentences)
  /\ selected' = SubSeq(sentences, 1, Min({MAX_SENTENCES, Len(sentences)}))
  /\ i' = 1 /\ j' = 2
  /\ phase' = "order"
  /\ UNCHANGED <<documents, sentences>>

Order ==
  /\ phase = "order" /\ i < Len(selected)
  /\ selected' = IF strstr(Subject, TextOf(selected[j])) < strstr(Subject, TextOf(selected[i]))
                 THEN Swap(selected, i, j) ELSE selected
  /\ NextPair(Len(selected))
  /\ UNCHANGED <<documents, sentences, phase>>

(* The chosen texts are joined and returned. *)
Join ==
  /\ phase = "order" /\ i >= Len(selected)
  /\ phase' = "done"
  /\ UNCHANGED <<documents, sentences, selected, i, j>>

SummaryNext == NoSentence \/ ScoreSentences \/ Rank \/ Select \/ Order \/ Join

(* The processing thread runs on. *)
SummarySpec == SummaryInit /\ [][SummaryNext]_summaryVars /\ WF_summaryVars(SummaryNext)

-----------------------------------------------------------------------------
(* Properties. *)

Numbers(s) == [k \in DOMAIN s |-> s[k].number]
Count == Len(split_sentences(Subject))

(* The array of sentences is at any time a permutation of the sentences of  *)
(* the text with their scores, and the loops of generate_summary stay       *)
(* inside the arrays that they index.                                       *)
SummaryTypeOK ==
  /\ documents \in Seq(Seq(Chars)) /\ documents # <<>>
  /\ phase \in Phases
  /\ phase \in {"split", "error"} => sentences = <<>>
  /\ phase \in {"rank", "order", "done"} =>
       /\ Len(sentences) = Count /\ Count > 0
       /\ ToSet(Numbers(sentences)) = 1 .. Count
  /\ ToSet(selected) \subseteq ToSet(sentences)
  /\ (selected = <<>>) = (phase \in {"split", "error", "rank"})
  /\ i \in Nat \ {0} /\ j > i
  /\ phase = "rank" => i >= Len(sentences) \/ j <= Len(sentences)
  /\ phase = "order" => i >= Len(selected) \/ j <= Len(selected)

(* What generate_summary answers is a best choice: the two exchange sorts   *)
(* (nlp.c:550-583) lose no sentence, repeat none, pass none over for one    *)
(* with a lower score, and leave the chosen ones in the order of their      *)
(* first occurrence.                                                        *)
Best == INSTANCE BestSentences
          WITH answer <- IF phase = "done" THEN Numbers(selected) ELSE <<>>
ImplementsBest == Best!Spec

(* When the server has seen no other text, as on its first request, no word *)
(* sets a sentence apart (the text is in the collection, server.c:142, and  *)
(* log(2 / 2) is 0), and the sentences chosen are the first of the text.    *)
LeadWithoutContrast ==
  phase = "done" /\ ToSet(documents) = {Subject} =>
    ToSet(Numbers(selected)) = 1 .. Min({MAX_SENTENCES, Count})

(* A token of two letters or more, of any sentence, is a token of the text, *)
(* and strcasestr finds it in both: calculate_tf_idf counts the text among  *)
(* the documents with the term, and the sentence gets its score, although   *)
(* the search (nlp.c:619-636) gives up a match without looking back.        *)
OwnWordsFound ==
  phase = "split" =>
    \A n \in 1 .. Count :
      LET sentence == split_sentences(Subject)[n] IN
        \A t \in DOMAIN tokenize_text(sentence) :
          /\ t \in DOMAIN tokenize_text(Subject)
          /\ Len(t) > 1 => Occurs(t, sentence) /\ Occurs(t, Subject)

(* Where strcasestr says it found a token, the token is, whatever its case; *)
(* a partial match before (as of aab in aaab) may hide one, never make one. *)
FoundIsThere ==
  phase = "split" =>
    \A t \in UNION {DOMAIN tokenize_text(d) : d \in ToSet(documents)}, d \in ToSet(documents) :
      LET k == strcasestr(d, t) IN
        k # 0 => /\ k + Len(t) - 1 <= Len(d)
                 /\ \A m \in DOMAIN t : Lower[d[k + m - 1]] = t[m]

(* generate_summary returns. *)
Answered == <>(phase \in {"done", "error"})

(* The chosen sentences keep their order in the text (README.md:217).       *)
(* Expected to fail.                                                        *)
MaintainsOrder ==
  phase = "done" => \A k, l \in DOMAIN selected : k < l => selected[k].number < selected[l].number
=============================================================================
