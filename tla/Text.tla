-------------------------------- MODULE Text --------------------------------
(***************************************************************************)
(* The functions of nlp.c on texts that keep no state: what the regular    *)
(* expressions select, the tokens, the two searches, and the score of a    *)
(* sentence.  A text is a sequence of characters, without its final NUL.   *)
(***************************************************************************)
EXTENDS Integers, SequencesExt, FiniteSetsExt, Bags

CONSTANTS
  Letters,      \* the letters a-z and A-Z
  Digits,       \* the other characters of a PCRE word: digits and _
  Terminators,  \* what ends a sentence: . ! ?
  Others,       \* all other characters
  Lower,        \* tolower; two characters have one toupper iff one tolower
  Stopwords,    \* the stopwords, each a text
  TokenBuffer,  \* sizeof(token_buffer)
  Ln            \* Ln[n]: the natural logarithm of n, scaled and rounded;
                \* Ln[0], minus infinity, is a number below all others

Chars == Letters \union Digits \union Terminators \union Others

ASSUME TextAssumption ==
  /\ Letters \intersect (Digits \union Terminators \union Others) = {}
  /\ Digits \intersect (Terminators \union Others) = {}
  /\ Terminators \intersect Others = {}
  /\ Lower \in [Chars -> Chars]
  /\ \A c \in Chars : c \in Letters <=> Lower[c] \in Letters
  /\ \A c \in Chars \ Letters : Lower[c] = c
  /\ \A c \in Chars : Lower[Lower[c]] = Lower[c]
  /\ Stopwords \subseteq Seq(Letters)
  /\ TokenBuffer \in Nat
  /\ Ln[1] = 0
  /\ \A n \in DOMAIN Ln : Ln[n] \in Int
  /\ \A m, n \in DOMAIN Ln : m < n => Ln[m] < Ln[n]

-----------------------------------------------------------------------------
(* Words: what repeated matches of \b[a-zA-Z]+\b select, each search from   *)
(* the end of the last match.  A run of word characters with a digit in it  *)
(* has no match inside.                                                     *)

IsWordChar(c) == c \in Letters \union Digits

RunStarts(text) ==
  {k \in DOMAIN text : IsWordChar(text[k]) /\ (k > 1 => ~IsWordChar(text[k - 1]))}

RunEnd(text, k) ==
  Min({e \in k .. Len(text) : e < Len(text) => ~IsWordChar(text[e + 1])})

WordStarts(text) ==
  {k \in RunStarts(text) : \A i \in k .. RunEnd(text, k) : text[i] \in Letters}

count_words(text) == Cardinality(WordStarts(text))

LowerWord(text, k) == [i \in 1 .. RunEnd(text, k) - k + 1 |-> Lower[text[k + i - 1]]]

is_stopword(word) == word \in Stopwords

(* The tokens with their counts; a word that fills the buffer is passed     *)
(* over, as is a stopword.                                                  *)
tokenize_text(text) ==
  LET starts == {k \in WordStarts(text) :
                   LET w == LowerWord(text, k) IN
                     Len(w) < TokenBuffer /\ ~is_stopword(w)}
  IN  [w \in {LowerWord(text, k) : k \in starts} |->
         Cardinality({k \in starts : LowerWord(text, k) = w})]

-----------------------------------------------------------------------------
(* Sentences: what repeated matches of [^.!?]+[.!?] select, in order.  Text *)
(* after the last terminator belongs to none.                               *)

SentenceEnds(text) ==
  {e \in 2 .. Len(text) : text[e] \in Terminators /\ text[e - 1] \notin Terminators}

SentenceStart(text, e) ==
  1 + Max({0} \union {k \in 1 .. e - 1 : text[k] \in Terminators})

split_sentences(text) ==
  LET ends == SentenceEnds(text)
      EndOf(n) == CHOOSE e \in ends : Cardinality({d \in ends : d <= e}) = n
  IN  [n \in 1 .. Cardinality(ends) |-> SubSeq(text, SentenceStart(text, EndOf(n)), EndOf(n))]

(* The first place of a sentence of the text in the text. *)
strstr(text, sentence) ==
  Min({k \in DOMAIN text : IsPrefix(sentence, SubSeq(text, k, Len(text)))})

-----------------------------------------------------------------------------
(* strcasestr as nlp.c has it.  The state of its loop: p goes through the   *)
(* haystack once, np is the place in the needle to compare next (0: NULL),  *)
(* startn where the match began.  The NUL of the needle equals no           *)
(* character, so a needle of one letter is never found; after a mismatch    *)
(* the character is not compared with the first of the needle.  The result  *)
(* is startn, or 0 for NULL.                                                *)
(* Variants named ...Bug hold a plausible mistake each, see RequestQueue.    *)

SearchStates == [p : Nat \ {0}, np : Nat, startn : Nat]

SameLetterBug(needle, k, c) ==  \* compares without toupper
  k <= Len(needle) /\ needle[k] = c

SameLetter(needle, k, c) == k <= Len(needle) /\ Lower[needle[k]] = Lower[c]

TurnBug(needle, s, c) ==  \* a mismatch does not set np to NULL
  LET k == IF s.np = 0 THEN 1 ELSE s.np
      same == SameLetter(needle, k, c)
  IN  [p |-> s.p + 1, np |-> IF same THEN k + 1 ELSE s.np,
       startn |-> IF same /\ s.np = 0 THEN s.p ELSE s.startn]

(* One turn, for the character c at p: it is compared with *np or *needle.  *)
Turn(needle, s, c) ==
  LET k == IF s.np = 0 THEN 1 ELSE s.np
      same == SameLetter(needle, k, c)
  IN  [p |-> s.p + 1, np |-> IF same THEN k + 1 ELSE 0,
       startn |-> IF same /\ s.np = 0 THEN s.p ELSE s.startn]

(* The turn that finds the last letter of the needle. *)
Completes(needle, s, c) == s.np # 0 /\ s.np = Len(needle) /\ SameLetter(needle, s.np, c)

strcasestr(haystack, needle) ==
  LET Scan[s \in SearchStates] ==
        IF s.p > Len(haystack) THEN 0
        ELSE IF Completes(needle, s, haystack[s.p]) THEN s.startn
        ELSE Scan[Turn(needle, s, haystack[s.p])]
  IN  Scan[[p |-> 1, np |-> 0, startn |-> 0]]

Occurs(token, text) == strcasestr(text, token) # 0

-----------------------------------------------------------------------------
(* Scores.  A score is a fraction <<numerator, denominator>>; the factor    *)
(* 1 / doc_length, which all sentences of a text share, is left out.        *)

DocumentsWith(token, documents) ==
  Cardinality({d \in DOMAIN documents : Occurs(token, documents[d])})

IdfBug(token, documents) ==  \* nothing added to doc_with_term, lest 0
  Ln[Len(documents) + 1] - Ln[Max({1, DocumentsWith(token, documents)})]

Idf(token, documents) == Ln[Len(documents) + 1] - Ln[DocumentsWith(token, documents) + 1]

(* calculate_tf_idf, for one of the tokens. *)
TfIdf(token, tokens, documents) == tokens[token] * Idf(token, documents)

Score(text, n, documents) ==
  LET sentence == split_sentences(text)[n]
      tokens == tokenize_text(text)
      sum == MapThenSumSet(LAMBDA t : TfIdf(t, tokens, documents),
                           {t \in DOMAIN tokens : Occurs(t, sentence)})
      AtAnEnd == n \in {1, Len(split_sentences(text))}
  IN  <<IF AtAnEnd THEN 3 * sum ELSE 2 * sum, 2 * Max({1, count_words(sentence)})>>

Higher(s, t) == s[1] * t[2] > t[1] * s[2]
=============================================================================
