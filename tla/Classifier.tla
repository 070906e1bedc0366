----------------------------- MODULE Classifier -----------------------------
(***************************************************************************)
(* The two ways in which nlp.c finds the topic of a text: the Bayes        *)
(* classifier, a value that training changes, and the fixed keywords.      *)
(***************************************************************************)
EXTENDS Text

CONSTANTS
  Domains,    \* the domains, in the order of the arrays
  Unknown,    \* "Necunoscut"
  Keywords,   \* Keywords[d]: the keywords of domain d, in lower case
  Unit        \* the scale of Ln: what stands for 1.0

ASSUME ClassifierAssumption ==
  /\ Domains \in Seq(STRING) /\ Unknown \in STRING
  /\ IsInjective(Domains)
  /\ Unknown \notin ToSet(Domains)
  /\ "" \notin ToSet(Domains) \union {Unknown}
  /\ Keywords \in [ToSet(Domains) -> SUBSET Seq(Chars)]
  /\ Unit \in Nat
  \* of logarithms: a * b is at most a quarter of the square of a + b
  /\ \A a, b, n \in DOMAIN Ln :
       a > 0 /\ b > 0 /\ a + b <= n => Ln[a] + Ln[b] <= 2 * Ln[n] - Unit
  \* 3 is more than e
  /\ \A n \in DOMAIN Ln : n >= 3 => Ln[n] >= Unit
  \* a / b grows if the same is added to both, a <= b
  /\ \A a, b, n \in DOMAIN Ln :
       0 < a /\ a <= b /\ b <= n /\ a + (n - b) \in DOMAIN Ln
         => Ln[a] - Ln[b] <= Ln[a + (n - b)] - Ln[n]

(* document_count and word_counts of each domain; the fields probability,   *)
(* total_documents and word_count_size follow from them.                    *)
init_bayes_classifier ==
  [d \in ToSet(Domains) |-> [document_count |-> 0, word_counts |-> EmptyBag]]

train_bayes_classifier(classifier, text, domain) ==
  IF domain \notin DOMAIN classifier THEN classifier
  ELSE [classifier EXCEPT ![domain] =
          [document_count |-> @.document_count + 1,
           word_counts |-> @.word_counts (+) tokenize_text(text)]]

(* The sum of the values of a function, of a bag the number of all copies.  *)
Total(f) == MapThenSumSet(LAMBDA n : f[n], DOMAIN f)

total_documents(classifier) ==
  Total([d \in DOMAIN classifier |-> classifier[d].document_count])

(* token_count: the count of a token in the words of a domain, 0 if it is   *)
(* not found.                                                               *)
Copies(token, words) == IF token \in DOMAIN words THEN words[token] ELSE 0

(* The logarithm of the conditional probability of a token in a domain,     *)
(* with one added to each count and to the number of all.                   *)
LnConditional(token, words) ==
  Ln[Copies(token, words) + 1] - Ln[Total(words) + Cardinality(DOMAIN words) + 1]

LnProbability(classifier, text, domain) ==
  LET words == classifier[domain].word_counts
      tokens == tokenize_text(text)
  IN  Ln[classifier[domain].document_count] - Ln[total_documents(classifier)]
        + Total([t \in DOMAIN tokens |-> tokens[t] * LnConditional(t, words)])

(* The loop over the domains that keeps the first with the largest value    *)
(* above the floor.                                                         *)
FirstLargest(value, floor) ==
  LET best[n \in 0 .. Len(Domains)] ==
        IF n = 0 THEN [domain |-> Unknown, value |-> floor]
        ELSE IF value[n] > best[n - 1].value THEN [domain |-> Domains[n], value |-> value[n]]
        ELSE best[n - 1]
  IN  best[Len(Domains)].domain

(* max_prob begins at -1.0, so a probability of 1 / e or less never counts. *)
classify_text_bayes(classifier, text) ==
  FirstLargest([n \in DOMAIN Domains |-> LnProbability(classifier, text, Domains[n])], -Unit)

(* max_score begins at -1, but a score of 0 is then refused.                *)
determine_topic(text) ==
  LET tokens == tokenize_text(text)
      KeywordsOf(n) == DOMAIN tokens \intersect Keywords[Domains[n]]
  IN  FirstLargest([n \in DOMAIN Domains |-> MapThenSumSet(LAMBDA t : tokens[t], KeywordsOf(n))], 0)
=============================================================================
