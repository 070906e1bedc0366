--------------------------- MODULE SummaryProofs ----------------------------
(***************************************************************************)
(* Theorems about Summary, for any texts, any scores that are numbers and  *)
(* any number of sentences asked for: generate_summary keeps its arrays in *)
(* order, and what it answers is a best choice of sentences.  The sort is  *)
(* treated once, for a sequence and a strict order of its elements; both   *)
(* loops of the function are instances of it.                              *)
(***************************************************************************)
EXTENDS Summary, TextProofs

-----------------------------------------------------------------------------
(* The exchange sort, for any elements and any strict order of them.        *)

(* W holds the pairs of which the first should stand before the second.     *)
StrictOrder(W, E) ==
  /\ \A x \in E, y \in E : <<x, y>> \in W => <<y, x>> \notin W
  /\ \A x \in E, y \in E, z \in E : <<x, y>> \in W /\ <<y, z>> \in W => <<x, z>> \in W

(* Before the turn for a and b: the places before a have their elements for *)
(* good, and of those after a, up to b, none should stand before that at a. *)
SortedSoFar(s, a, b, W) ==
  /\ \A p \in 1 .. a - 1 : \A q \in p + 1 .. Len(s) : <<s[q], s[p]>> \notin W
  /\ \A q \in a + 1 .. b - 1 : <<s[q], s[a]>> \notin W

Sorted(s, W) == \A p \in 1 .. Len(s) : \A q \in p + 1 .. Len(s) : <<s[q], s[p]>> \notin W

Exchanged(s, a, b, W) == IF <<s[b], s[a]>> \in W THEN Swap(s, a, b) ELSE s

(* An exchange loses no element and repeats none.                           *)
LEMMA SwapPermutes ==
  ASSUME NEW E, NEW s \in Seq(E), NEW a \in 1 .. Len(s), NEW b \in 1 .. Len(s)
  PROVE  /\ Swap(s, a, b) \in Seq(E)
         /\ Len(Swap(s, a, b)) = Len(s)
         /\ ToSet(Swap(s, a, b)) = ToSet(s)
         /\ IsInjective(s) => IsInjective(Swap(s, a, b))
         /\ Swap(s, a, b)[a] = s[b] /\ Swap(s, a, b)[b] = s[a]
         /\ \A k \in 1 .. Len(s) : k # a /\ k # b => Swap(s, a, b)[k] = s[k]
<1> DEFINE t == Swap(s, a, b)
           n == Len(s)
<1>1. n \in Nat /\ DOMAIN s = 1 .. n /\ \A k \in 1 .. n : s[k] \in E
  OBVIOUS
<1>2. t \in Seq(E) /\ Len(t) = n /\ DOMAIN t = 1 .. n
  BY DEF Swap
<1>3. /\ t[a] = s[b] /\ t[b] = s[a]
      /\ \A k \in 1 .. n : k # a /\ k # b => t[k] = s[k]
  BY <1>1 DEF Swap
<1>4. a \in 1 .. n /\ b \in 1 .. n
  OBVIOUS
<1> HIDE DEF t, n
<1>5. ToSet(t) = ToSet(s)
  <2>1. ASSUME NEW k \in 1 .. n PROVE t[k] \in {s[m] : m \in 1 .. n}
    BY <1>3, <1>4
  <2>2. ASSUME NEW k \in 1 .. n PROVE s[k] \in {t[m] : m \in 1 .. n}
    BY <1>3, <1>4
  <2> QED BY <1>1, <1>2, <2>1, <2>2 DEF ToSet
<1>6. ASSUME IsInjective(s) PROVE IsInjective(t)
  <2>1. \A k \in 1 .. n, m \in 1 .. n : s[k] = s[m] => k = m
    BY <1>1, <1>6 DEF IsInjective
  <2>2. ASSUME NEW k \in 1 .. n, NEW m \in 1 .. n, t[k] = t[m] PROVE k = m
    BY <1>3, <1>4, <2>1, <2>2
  <2> QED BY <1>2, <2>2 DEF IsInjective
<1> QED BY <1>2, <1>3, <1>5, <1>6 DEF t, n

(* One turn of the inner loop.                                              *)
LEMMA ExchangeSorts ==
  ASSUME NEW E, NEW W, StrictOrder(W, E), NEW s \in Seq(E),
         NEW a \in Nat \ {0}, NEW b \in Nat, a < b, b <= Len(s),
         SortedSoFar(s, a, b, W)
  PROVE  /\ Exchanged(s, a, b, W) \in Seq(E)
         /\ Len(Exchanged(s, a, b, W)) = Len(s)
         /\ ToSet(Exchanged(s, a, b, W)) = ToSet(s)
         /\ IsInjective(s) => IsInjective(Exchanged(s, a, b, W))
         /\ SortedSoFar(Exchanged(s, a, b, W), a, b + 1, W)
<1> DEFINE n == Len(s)
<1>1. n \in Nat /\ a \in 1 .. n /\ b \in 1 .. n /\ \A k \in 1 .. n : s[k] \in E
  OBVIOUS
<1>2. /\ \A p \in 1 .. a - 1 : \A q \in p + 1 .. n : <<s[q], s[p]>> \notin W
      /\ \A q \in a + 1 .. b - 1 : <<s[q], s[a]>> \notin W
  BY DEF SortedSoFar
<1>3. CASE <<s[b], s[a]>> \notin W
  <2>1. Exchanged(s, a, b, W) = s
    BY <1>3 DEF Exchanged
  <2>2. ASSUME NEW q \in a + 1 .. b PROVE <<s[q], s[a]>> \notin W
    <3>1. q \in a + 1 .. b - 1 \/ q = b
      OBVIOUS
    <3> QED BY <3>1, <1>2, <1>3
  <2>3. (b + 1) - 1 = b
    OBVIOUS
  <2>4. SortedSoFar(s, a, b + 1, W)
    BY <1>2, <2>2, <2>3 DEF SortedSoFar
  <2> QED BY <2>1, <2>4
<1>4. CASE <<s[b], s[a]>> \in W
  <2> DEFINE t == Swap(s, a, b)
  <2>1. Exchanged(s, a, b, W) = t
    BY <1>4 DEF Exchanged
  <2>2. /\ t \in Seq(E) /\ Len(t) = n /\ ToSet(t) = ToSet(s)
        /\ IsInjective(s) => IsInjective(t)
        /\ t[a] = s[b] /\ t[b] = s[a]
        /\ \A k \in 1 .. n : k # a /\ k # b => t[k] = s[k]
    BY <1>1, SwapPermutes
  <2> HIDE DEF t, n
  <2>3. ASSUME NEW p \in 1 .. a - 1, NEW q \in p + 1 .. n PROVE <<t[q], t[p]>> \notin W
    <3>1. p \in 1 .. n /\ p # a /\ p # b /\ q \in 1 .. n
      BY <1>1
    <3>2. t[p] = s[p]
      BY <3>1, <2>2
    <3>3. \E m \in p + 1 .. n : t[q] = s[m]
      <4>1. CASE q = a
        <5>1. b \in p + 1 .. n
          BY <1>1
        <5> QED BY <4>1, <5>1, <2>2
      <4>2. CASE q = b
        <5>1. a \in p + 1 .. n
          BY <1>1
        <5> QED BY <4>2, <5>1, <2>2
      <4>3. CASE q # a /\ q # b
        BY <4>3, <3>1, <2>2
      <4> QED BY <4>1, <4>2, <4>3
    <3> QED BY <3>2, <3>3, <1>2
  <2>4. ASSUME NEW q \in a + 1 .. b PROVE <<t[q], t[a]>> \notin W
    <3>1. CASE q = b
      <4>1. s[a] \in E /\ s[b] \in E
        BY <1>1
      <4> QED BY <3>1, <4>1, <1>4, <2>2 DEF StrictOrder
    <3>2. CASE q # b
      <4>1. q \in a + 1 .. b - 1 /\ q \in 1 .. n /\ q # a
        BY <1>1, <3>2
      <4>2. s[q] \in E /\ s[a] \in E /\ s[b] \in E
        BY <1>1, <4>1
      <4>3. <<s[q], s[a]>> \notin W
        BY <4>1, <1>2
      <4>4. <<s[q], s[b]>> \notin W
        BY <4>2, <4>3, <1>4 DEF StrictOrder
      <4>5. t[q] = s[q] /\ t[a] = s[b]
        BY <3>2, <4>1, <2>2
      <4> QED BY <4>4, <4>5
    <3> QED BY <3>1, <3>2
  <2>5. (b + 1) - 1 = b
    OBVIOUS
  <2>6. SortedSoFar(t, a, b + 1, W)
    BY <2>2, <2>3, <2>4, <2>5 DEF SortedSoFar
  <2> QED BY <2>1, <2>2, <2>6 DEF n
<1> QED BY <1>3, <1>4

(* The inner loop has come to its end, and the outer one goes on.           *)
LEMMA RowSorts ==
  ASSUME NEW s, Len(s) \in Nat, NEW W, NEW a \in Nat \ {0}, NEW b \in Nat, b > Len(s),
         SortedSoFar(s, a, b, W)
  PROVE  SortedSoFar(s, a + 1, a + 2, W)
<1>1. ASSUME NEW p \in 1 .. (a + 1) - 1, NEW q \in p + 1 .. Len(s)
      PROVE  <<s[q], s[p]>> \notin W
  <2>1. CASE p \in 1 .. a - 1
    BY <2>1 DEF SortedSoFar
  <2>2. CASE p = a
    <3>1. q \in a + 1 .. b - 1
      BY <2>2
    <3> QED BY <2>2, <3>1 DEF SortedSoFar
  <2> QED BY <2>1, <2>2
<1>2. \A q : q \notin (a + 1) + 1 .. (a + 2) - 1
  OBVIOUS
<1> QED BY <1>1, <1>2 DEF SortedSoFar

(* The outer loop has come to its end.                                      *)
LEMMA SortEnds ==
  ASSUME NEW s, Len(s) \in Nat, NEW W, NEW a \in Nat \ {0}, NEW b, a >= Len(s),
         SortedSoFar(s, a, b, W)
  PROVE  Sorted(s, W)
<1> SUFFICES ASSUME NEW p \in 1 .. Len(s), NEW q \in p + 1 .. Len(s)
             PROVE  <<s[q], s[p]>> \notin W
  BY DEF Sorted
<1>1. p \in 1 .. a - 1
  OBVIOUS
<1> QED BY <1>1 DEF SortedSoFar

(* Before the first turn.                                                   *)
LEMMA SortBegins ==
  ASSUME NEW s, NEW W
  PROVE  SortedSoFar(s, 1, 2, W)
BY DEF SortedSoFar


-----------------------------------------------------------------------------
(* The invariant.                                                           *)

(* The sentences of the text with their scores, as the array holds them.    *)
Scored == {[number |-> n, score |-> Score(Subject, n, documents)] : n \in 1 .. Count}

(* The order of each of the two sorts.                                      *)
HigherFirst == {p \in Scored \X Scored : Higher(p[1].score, p[2].score)}

Place(sentence) == strstr(Subject, TextOf(sentence))

EarlierFirst == {p \in Scored \X Scored : Place(p[1]) < Place(p[2])}

(* The array holds every sentence once, with its score.                     *)
ArrayInv ==
  /\ sentences \in Seq(Scored)
  /\ IsInjective(sentences)
  /\ ToSet(sentences) = Scored
  /\ Len(sentences) = Count

(* The chosen ones are the first of the sorted array, each once.            *)
ChoiceInv ==
  /\ Sorted(sentences, HigherFirst)
  /\ selected \in Seq(Scored)
  /\ IsInjective(selected)
  /\ Len(selected) = Min({MAX_SENTENCES, Count})
  /\ ToSet(selected) = {sentences[k] : k \in 1 .. Len(selected)}

LoopInv ==
  /\ i \in Nat \ {0} /\ j \in Nat /\ j > i
  /\ phase = "rank" => i >= Len(sentences) \/ j <= Len(sentences)
  /\ phase = "order" => i >= Len(selected) \/ j <= Len(selected)

IInv ==
  /\ documents \in Collections
  /\ phase \in Phases
  /\ phase = "split" => i = 1 /\ j = 2
  /\ phase \in {"split", "error"} => sentences = <<>>
  /\ phase \in {"split", "error", "rank"} => selected = <<>>
  /\ phase \in {"rank", "order", "done"} => Count > 0 /\ ArrayInv
  /\ phase = "rank" => SortedSoFar(sentences, i, j, HigherFirst)
  /\ phase \in {"order", "done"} => ChoiceInv
  /\ phase = "order" => SortedSoFar(selected, i, j, EarlierFirst)
  /\ phase = "done" => Sorted(selected, EarlierFirst)
  /\ LoopInv


-----------------------------------------------------------------------------
(* What the invariant rests on.                                             *)

(* The text is one, and has as many sentences as ends of sentences.         *)
LEMMA SubjectFacts ==
  ASSUME documents \in Collections
  PROVE  /\ documents \in Seq(Seq(Chars)) /\ documents # <<>>
         /\ Subject \in Seq(Chars)
         /\ Count \in Nat
         /\ DOMAIN split_sentences(Subject) = 1 .. Count
         /\ Count = 0 <=> SentenceEnds(Subject) = {}
<1>1. documents \in Seq(Seq(Chars)) /\ documents # <<>>
  BY SummaryAssumption
<1>2. Subject \in Seq(Chars)
  BY <1>1 DEF Subject, Last
<1> QED BY <1>1, <1>2, SentencesOfText DEF Count

(* An element of the arrays is a sentence of the text, its number says      *)
(* which, and both keys by which it is sorted are numbers.                  *)
LEMMA ElementFacts ==
  ASSUME documents \in Collections, NEW x \in Scored
  PROVE  /\ x.number \in 1 .. Count
         /\ x = [number |-> x.number, score |-> Score(Subject, x.number, documents)]
         /\ x.score = Score(Subject, x.number, documents)
         /\ x.score \in Fractions
         /\ Place(x) \in Nat
<1>1. PICK n \in 1 .. Count :
        x = [number |-> n, score |-> Score(Subject, n, documents)]
  BY DEF Scored
<1>2. x.number = n /\ x.score = Score(Subject, n, documents)
  BY <1>1
<1>3. n \in DOMAIN split_sentences(Subject) /\ Subject \in Seq(Chars)
      /\ documents \in Seq(Seq(Chars))
  BY SubjectFacts
<1>4. Score(Subject, n, documents) \in Fractions
  BY <1>3, ScoreIsFraction, SummaryAssumption
<1>5. Place(x) \in Nat
  <2>1. strstr(Subject, split_sentences(Subject)[n]) \in DOMAIN Subject
    BY <1>3, SentenceIsFound
  <2>2. DOMAIN Subject \subseteq Nat
    BY <1>3
  <2> QED BY <1>2, <2>1, <2>2 DEF Place, TextOf
<1> QED BY <1>1, <1>2, <1>4, <1>5

(* The first sort is by a strict order.                                     *)
LEMMA HigherFirstIsStrict ==
  ASSUME documents \in Collections
  PROVE  StrictOrder(HigherFirst, Scored)
<1>1. \A x \in Scored, y \in Scored : <<x, y>> \in HigherFirst <=> Higher(x.score, y.score)
  BY DEF HigherFirst
<1>2. \A x \in Scored : x.score \in Fractions
  BY ElementFacts
<1>3. ASSUME NEW x \in Scored, NEW y \in Scored, <<x, y>> \in HigherFirst
      PROVE  <<y, x>> \notin HigherFirst
  <2>1. x.score \in Fractions /\ y.score \in Fractions /\ Higher(x.score, y.score)
    BY <1>1, <1>2, <1>3
  <2>2. ~ Higher(y.score, x.score)
    BY <2>1, HigherIsStrict
  <2> QED BY <1>1, <2>2
<1>4. ASSUME NEW x \in Scored, NEW y \in Scored, NEW z \in Scored,
             <<x, y>> \in HigherFirst, <<y, z>> \in HigherFirst
      PROVE  <<x, z>> \in HigherFirst
  <2>1. /\ x.score \in Fractions /\ y.score \in Fractions /\ z.score \in Fractions
        /\ Higher(x.score, y.score) /\ Higher(y.score, z.score)
    BY <1>1, <1>2, <1>4
  <2>2. Higher(x.score, z.score)
    BY <2>1, HigherIsTransitive
  <2> QED BY <1>1, <2>2
<1> QED BY <1>3, <1>4 DEF StrictOrder

(* The second sort is by a strict order; two sentences of equal words have  *)
(* the same place in it.                                                    *)
LEMMA EarlierFirstIsStrict ==
  ASSUME documents \in Collections
  PROVE  StrictOrder(EarlierFirst, Scored)
<1>1. \A x \in Scored, y \in Scored : <<x, y>> \in EarlierFirst <=> Place(x) < Place(y)
  BY DEF EarlierFirst
<1>2. \A x \in Scored : Place(x) \in Nat
  BY ElementFacts
<1> QED BY <1>1, <1>2 DEF StrictOrder

(* The texts stay what they are.                                            *)
LEMMA SameTexts ==
  ASSUME documents' = documents
  PROVE  /\ Subject' = Subject /\ Count' = Count /\ Scored' = Scored
         /\ HigherFirst' = HigherFirst /\ EarlierFirst' = EarlierFirst
<1>1. Subject' = Subject
  BY DEF Subject
<1>2. Count' = Count
  BY <1>1 DEF Count
<1>3. Scored' = Scored
  BY <1>1, <1>2 DEF Scored
<1>4. \A x : Place(x)' = Place(x)
  BY <1>1 DEF Place, TextOf
<1> QED BY <1>1, <1>2, <1>3, <1>4 DEF HigherFirst, EarlierFirst

(* A turn of one of the two sorts.                                          *)
LEMMA TurnSorts ==
  ASSUME NEW E, NEW W, StrictOrder(W, E), NEW s \in Seq(E),
         i \in Nat \ {0}, j \in Nat, j > i, i < Len(s), j <= Len(s),
         SortedSoFar(s, i, j, W), NextPair(Len(s))
  PROVE  /\ Exchanged(s, i, j, W) \in Seq(E)
         /\ Len(Exchanged(s, i, j, W)) = Len(s)
         /\ ToSet(Exchanged(s, i, j, W)) = ToSet(s)
         /\ IsInjective(s) => IsInjective(Exchanged(s, i, j, W))
         /\ SortedSoFar(Exchanged(s, i, j, W), i', j', W)
         /\ i' \in Nat \ {0} /\ j' \in Nat /\ j' > i'
         /\ i' >= Len(s) \/ j' <= Len(s)
<1> DEFINE t == Exchanged(s, i, j, W)
<1>1. /\ t \in Seq(E) /\ Len(t) = Len(s) /\ ToSet(t) = ToSet(s)
      /\ IsInjective(s) => IsInjective(t)
      /\ SortedSoFar(t, i, j + 1, W)
  BY ExchangeSorts
<1> HIDE DEF t
<1>2. Len(s) \in Nat
  OBVIOUS
<1>3. CASE j < Len(s)
  <2>1. i' = i /\ j' = j + 1
    BY <1>3 DEF NextPair
  <2> QED BY <1>1, <1>2, <1>3, <2>1 DEF t
<1>4. CASE ~ (j < Len(s))
  <2>1. i' = i + 1 /\ j' = i + 2
    BY <1>4 DEF NextPair
  <2>2. j + 1 \in Nat /\ j + 1 > Len(t)
    BY <1>1, <1>2, <1>4
  <2>3. SortedSoFar(t, i + 1, i + 2, W)
    BY <1>1, <1>2, <2>2, RowSorts
  <2> QED BY <1>1, <1>2, <1>4, <2>1, <2>3 DEF t
<1> QED BY <1>3, <1>4


(* There is at least one sentence to choose.                                *)
LEMMA ChosenCount ==
  ASSUME NEW n \in Nat, n > 0
  PROVE  /\ Min({MAX_SENTENCES, n}) \in 1 .. n
         /\ Min({MAX_SENTENCES, n}) \in {MAX_SENTENCES, n}
<1>1. MAX_SENTENCES \in Nat /\ MAX_SENTENCES > 0
  BY SummaryAssumption
<1>2. {MAX_SENTENCES, n} \in SUBSET Nat /\ {MAX_SENTENCES, n} # {}
  BY <1>1
<1>3. /\ Min({MAX_SENTENCES, n}) \in {MAX_SENTENCES, n}
      /\ \A y \in {MAX_SENTENCES, n} : Min({MAX_SENTENCES, n}) <= y
  BY <1>2, LeastNumber
<1> HIDE DEF Min
<1> QED BY <1>1, <1>3

-----------------------------------------------------------------------------
(* The invariant holds.                                                     *)

(* The function starts with the invariant.                                  *)
LEMMA InitInv == SummaryInit => IInv
<1> SUFFICES ASSUME SummaryInit PROVE IInv
  OBVIOUS
<1>1. /\ documents \in Collections /\ sentences = <<>> /\ selected = <<>>
      /\ i = 1 /\ j = 2 /\ phase = "split"
  BY DEF SummaryInit
<1>2. LoopInv
  BY <1>1 DEF LoopInv
<1> QED BY <1>1, <1>2 DEF IInv, Phases

(* A text without a sentence needs no arrays.                               *)
LEMMA NoSentenceInv == IInv /\ NoSentence => IInv'
<1> SUFFICES ASSUME IInv, NoSentence PROVE IInv'
  OBVIOUS
<1>1. phase = "split" /\ phase' = "error" /\ documents' = documents
      /\ sentences' = sentences /\ selected' = selected /\ i' = i /\ j' = j
  BY DEF NoSentence
<1>2. /\ documents \in Collections /\ sentences = <<>> /\ selected = <<>> /\ LoopInv
  BY <1>1 DEF IInv
<1>3. LoopInv'
  BY <1>1, <1>2 DEF LoopInv
<1> QED BY <1>1, <1>2, <1>3 DEF IInv, Phases

(* The array begins with every sentence once, in the order of the text.     *)
LEMMA ScoreSentencesInv == IInv /\ ScoreSentences => IInv'
<1> SUFFICES ASSUME IInv, ScoreSentences PROVE IInv'
  OBVIOUS
<1>1. /\ phase = "split" /\ phase' = "rank" /\ documents' = documents
      /\ selected' = selected /\ i' = i /\ j' = j
      /\ SentenceEnds(Subject) # {}
      /\ sentences' = [n \in DOMAIN split_sentences(Subject) |->
                         [number |-> n, score |-> Score(Subject, n, documents)]]
  BY DEF ScoreSentences
<1>2. documents \in Collections /\ selected = <<>> /\ i = 1 /\ j = 2
  BY <1>1 DEF IInv
<1>3. /\ DOMAIN split_sentences(Subject) = 1 .. Count
      /\ Count \in Nat /\ Count > 0
  BY <1>1, <1>2, SubjectFacts
<1>4. Count' = Count /\ Scored' = Scored
  BY <1>1, SameTexts
<1> DEFINE entry(n) == [number |-> n, score |-> Score(Subject, n, documents)]
<1>5. sentences' = [n \in 1 .. Count |-> entry(n)] /\ Scored = {entry(n) : n \in 1 .. Count}
  BY <1>1, <1>3 DEF Scored
<1>6. \A m, n \in 1 .. Count : entry(m) = entry(n) => m = n
  <2> SUFFICES ASSUME NEW m \in 1 .. Count, NEW n \in 1 .. Count, entry(m) = entry(n)
               PROVE  m = n
    OBVIOUS
  <2>1. entry(m).number = m /\ entry(n).number = n
    OBVIOUS
  <2> QED BY <2>1
<1> HIDE DEF entry
<1>7. ArrayInv'
  <2>1. sentences' \in Seq(Scored) /\ Len(sentences') = Count
    BY <1>3, <1>5
  <2>2. IsInjective(sentences')
    BY <1>5, <1>6 DEF IsInjective
  <2>3. ToSet(sentences') = Scored
    BY <1>5 DEF ToSet
  <2> QED BY <1>4, <2>1, <2>2, <2>3 DEF ArrayInv
<1>8. Len(sentences') = Count
  BY <1>4, <1>7 DEF ArrayInv
<1>9. LoopInv'
  BY <1>1, <1>2, <1>3, <1>8 DEF LoopInv
<1>10. SortedSoFar(sentences, i, j, HigherFirst)'
  BY <1>1, <1>2 DEF SortedSoFar
<1>11. documents' \in Collections /\ selected' = <<>> /\ Count' > 0
  BY <1>1, <1>2, <1>3, <1>4
<1> QED BY <1>1, <1>7, <1>9, <1>10, <1>11 DEF IInv, Phases

(* A turn of the first sort.                                                *)
LEMMA RankInv == IInv /\ Rank => IInv'
<1> SUFFICES ASSUME IInv, Rank PROVE IInv'
  OBVIOUS
<1>1. /\ phase = "rank" /\ phase' = phase /\ documents' = documents
      /\ selected' = selected /\ i < Len(sentences) /\ NextPair(Len(sentences))
      /\ sentences' = IF Higher(sentences[j].score, sentences[i].score)
                      THEN Swap(sentences, i, j) ELSE sentences
  BY DEF Rank
<1>2. /\ documents \in Collections /\ selected = <<>> /\ Count > 0 /\ ArrayInv
      /\ SortedSoFar(sentences, i, j, HigherFirst) /\ LoopInv
  BY <1>1 DEF IInv
<1>3. /\ sentences \in Seq(Scored) /\ IsInjective(sentences)
      /\ ToSet(sentences) = Scored /\ Len(sentences) = Count
  BY <1>2 DEF ArrayInv
<1>4. i \in Nat \ {0} /\ j \in Nat /\ j > i /\ j <= Len(sentences)
  BY <1>1, <1>2, <1>3 DEF LoopInv
<1>5. sentences' = Exchanged(sentences, i, j, HigherFirst)
  <2>1. sentences[i] \in Scored /\ sentences[j] \in Scored
    BY <1>1, <1>3, <1>4
  <2>2. <<sentences[j], sentences[i]>> \in HigherFirst
          <=> Higher(sentences[j].score, sentences[i].score)
    BY <2>1 DEF HigherFirst
  <2> QED BY <1>1, <2>2 DEF Exchanged
<1>6. StrictOrder(HigherFirst, Scored)
  BY <1>2, HigherFirstIsStrict
<1>7. /\ sentences' \in Seq(Scored) /\ Len(sentences') = Len(sentences)
      /\ ToSet(sentences') = ToSet(sentences)
      /\ IsInjective(sentences) => IsInjective(sentences')
      /\ SortedSoFar(sentences', i', j', HigherFirst)
      /\ i' \in Nat \ {0} /\ j' \in Nat /\ j' > i'
      /\ i' >= Len(sentences) \/ j' <= Len(sentences)
  <2>1. /\ sentences \in Seq(Scored) /\ i < Len(sentences) /\ NextPair(Len(sentences))
        /\ SortedSoFar(sentences, i, j, HigherFirst)
    BY <1>1, <1>2, <1>3
  <2> QED BY <2>1, <1>4, <1>5, <1>6, TurnSorts
<1>8. /\ Subject' = Subject /\ Count' = Count /\ Scored' = Scored
      /\ HigherFirst' = HigherFirst
  BY <1>1, SameTexts
<1>9. ArrayInv'
  BY <1>3, <1>7, <1>8 DEF ArrayInv
<1>10. LoopInv'
  BY <1>1, <1>7 DEF LoopInv
<1>11. SortedSoFar(sentences, i, j, HigherFirst)'
  BY <1>7, <1>8
<1> QED BY <1>1, <1>2, <1>8, <1>9, <1>10, <1>11 DEF IInv

(* The first sort is complete when the chosen ones are copied from the front*)
(* of the array.                                                            *)
LEMMA SelectInv == IInv /\ Select => IInv'
<1> SUFFICES ASSUME IInv, Select PROVE IInv'
  OBVIOUS
<1> DEFINE m == Min({MAX_SENTENCES, Len(sentences)})
<1>1. /\ phase = "rank" /\ phase' = "order" /\ documents' = documents
      /\ sentences' = sentences /\ i >= Len(sentences) /\ i' = 1 /\ j' = 2
      /\ selected' = SubSeq(sentences, 1, m)
  BY DEF Select
<1>2. /\ documents \in Collections /\ Count > 0 /\ ArrayInv
      /\ SortedSoFar(sentences, i, j, HigherFirst) /\ LoopInv
  BY <1>1 DEF IInv
<1>3. /\ sentences \in Seq(Scored) /\ IsInjective(sentences)
      /\ ToSet(sentences) = Scored /\ Len(sentences) = Count
  BY <1>2 DEF ArrayInv
<1>4. /\ Subject' = Subject /\ Count' = Count /\ Scored' = Scored
      /\ HigherFirst' = HigherFirst /\ EarlierFirst' = EarlierFirst
  BY <1>1, SameTexts
<1>5. m \in 1 .. Len(sentences) /\ Len(sentences) \in Nat
  BY <1>2, <1>3, ChosenCount
<1>6. m = Min({MAX_SENTENCES, Count})
  BY <1>3
<1> HIDE DEF m
<1>7. /\ selected' \in Seq(Scored) /\ Len(selected') = m
      /\ DOMAIN selected' = 1 .. m
      /\ \A k \in 1 .. m : selected'[k] = sentences[k]
  BY <1>1, <1>3, <1>5
<1>8. IsInjective(selected')
  <2>1. \A k, l \in 1 .. Len(sentences) : sentences[k] = sentences[l] => k = l
    BY <1>3 DEF IsInjective
  <2>2. 1 .. m \subseteq 1 .. Len(sentences)
    BY <1>5
  <2> QED BY <1>7, <2>1, <2>2 DEF IsInjective
<1>9. ToSet(selected') = {sentences[k] : k \in 1 .. m}
  BY <1>7 DEF ToSet
<1>10. Sorted(sentences, HigherFirst)
  <2>1. i \in Nat \ {0}
    BY <1>2 DEF LoopInv
  <2> QED BY <1>1, <1>2, <1>5, <2>1, SortEnds
<1>11. ChoiceInv'
  BY <1>1, <1>4, <1>6, <1>7, <1>8, <1>9, <1>10 DEF ChoiceInv
<1>12. ArrayInv'
  BY <1>1, <1>3, <1>4 DEF ArrayInv
<1>13. LoopInv'
  BY <1>1, <1>5, <1>7 DEF LoopInv
<1>14. SortedSoFar(selected, i, j, EarlierFirst)'
  BY <1>1 DEF SortedSoFar
<1> QED BY <1>1, <1>2, <1>4, <1>11, <1>12, <1>13, <1>14 DEF IInv, Phases

(* A turn of the second sort, which moves chosen ones only.                 *)
LEMMA OrderInv == IInv /\ Order => IInv'
<1> SUFFICES ASSUME IInv, Order PROVE IInv'
  OBVIOUS
<1>1. /\ phase = "order" /\ phase' = phase /\ documents' = documents
      /\ sentences' = sentences /\ i < Len(selected) /\ NextPair(Len(selected))
      /\ selected' = IF Place(selected[j]) < Place(selected[i])
                     THEN Swap(selected, i, j) ELSE selected
  BY DEF Order, Place
<1>2. /\ documents \in Collections /\ Count > 0 /\ ArrayInv /\ ChoiceInv
      /\ SortedSoFar(selected, i, j, EarlierFirst) /\ LoopInv
  BY <1>1 DEF IInv
<1>3. /\ selected \in Seq(Scored) /\ IsInjective(selected)
      /\ Sorted(sentences, HigherFirst)
      /\ Len(selected) = Min({MAX_SENTENCES, Count})
      /\ ToSet(selected) = {sentences[k] : k \in 1 .. Len(selected)}
  BY <1>2 DEF ChoiceInv
<1>4. i \in Nat \ {0} /\ j \in Nat /\ j > i /\ j <= Len(selected)
  BY <1>1, <1>2, <1>3 DEF LoopInv
<1>5. selected' = Exchanged(selected, i, j, EarlierFirst)
  <2>1. selected[i] \in Scored /\ selected[j] \in Scored
    BY <1>1, <1>3, <1>4
  <2>2. <<selected[j], selected[i]>> \in EarlierFirst
          <=> Place(selected[j]) < Place(selected[i])
    BY <2>1 DEF EarlierFirst
  <2> QED BY <1>1, <2>2 DEF Exchanged
<1>6. StrictOrder(EarlierFirst, Scored)
  BY <1>2, EarlierFirstIsStrict
<1>7. /\ selected' \in Seq(Scored) /\ Len(selected') = Len(selected)
      /\ ToSet(selected') = ToSet(selected)
      /\ IsInjective(selected) => IsInjective(selected')
      /\ SortedSoFar(selected', i', j', EarlierFirst)
      /\ i' \in Nat \ {0} /\ j' \in Nat /\ j' > i'
      /\ i' >= Len(selected) \/ j' <= Len(selected)
  <2>1. /\ selected \in Seq(Scored) /\ i < Len(selected) /\ NextPair(Len(selected))
        /\ SortedSoFar(selected, i, j, EarlierFirst)
    BY <1>1, <1>2, <1>3
  <2> QED BY <2>1, <1>4, <1>5, <1>6, TurnSorts
<1>8. /\ Subject' = Subject /\ Count' = Count /\ Scored' = Scored
      /\ HigherFirst' = HigherFirst /\ EarlierFirst' = EarlierFirst
  BY <1>1, SameTexts
<1>9. ChoiceInv'
  BY <1>1, <1>3, <1>7, <1>8 DEF ChoiceInv
<1>10. ArrayInv'
  BY <1>1, <1>2, <1>8 DEF ArrayInv
<1>11. LoopInv'
  BY <1>1, <1>7 DEF LoopInv
<1>12. SortedSoFar(selected, i, j, EarlierFirst)'
  BY <1>7, <1>8
<1> QED BY <1>1, <1>2, <1>8, <1>9, <1>10, <1>11, <1>12 DEF IInv

(* The second sort is complete when the chosen ones are joined.             *)
LEMMA JoinInv == IInv /\ Join => IInv'
<1> SUFFICES ASSUME IInv, Join PROVE IInv'
  OBVIOUS
<1>1. /\ phase = "order" /\ phase' = "done" /\ documents' = documents
      /\ sentences' = sentences /\ selected' = selected /\ i' = i /\ j' = j
      /\ i >= Len(selected)
  BY DEF Join
<1>2. /\ documents \in Collections /\ Count > 0 /\ ArrayInv /\ ChoiceInv
      /\ SortedSoFar(selected, i, j, EarlierFirst) /\ LoopInv
  BY <1>1 DEF IInv
<1>3. /\ Subject' = Subject /\ Count' = Count /\ Scored' = Scored
      /\ HigherFirst' = HigherFirst /\ EarlierFirst' = EarlierFirst
  BY <1>1, SameTexts
<1>4. Sorted(selected, EarlierFirst)
  <2>1. Len(selected) \in Nat /\ i \in Nat \ {0}
    BY <1>2 DEF ChoiceInv, LoopInv
  <2> QED BY <1>1, <1>2, <2>1, SortEnds
<1>5. ArrayInv' /\ ChoiceInv' /\ LoopInv'
  BY <1>1, <1>2, <1>3 DEF ArrayInv, ChoiceInv, LoopInv
<1>6. Sorted(selected, EarlierFirst)'
  BY <1>1, <1>3, <1>4
<1> QED BY <1>1, <1>2, <1>3, <1>5, <1>6 DEF IInv, Phases

(* No step breaks the invariant.                                            *)
LEMMA NextInv == IInv /\ [SummaryNext]_summaryVars => IInv'
<1> SUFFICES ASSUME IInv, [SummaryNext]_summaryVars PROVE IInv'
  OBVIOUS
<1>1. CASE NoSentence
  BY <1>1, NoSentenceInv
<1>2. CASE ScoreSentences
  BY <1>2, ScoreSentencesInv
<1>3. CASE Rank
  BY <1>3, RankInv
<1>4. CASE Select
  BY <1>4, SelectInv
<1>5. CASE Order
  BY <1>5, OrderInv
<1>6. CASE Join
  BY <1>6, JoinInv
<1>7. CASE UNCHANGED summaryVars
  <2>1. /\ documents' = documents /\ sentences' = sentences /\ selected' = selected
        /\ i' = i /\ j' = j /\ phase' = phase
    BY <1>7 DEF summaryVars
  <2>2. /\ Count' = Count /\ Scored' = Scored
        /\ HigherFirst' = HigherFirst /\ EarlierFirst' = EarlierFirst
    BY <2>1, SameTexts
  <2>3. /\ ArrayInv' = ArrayInv /\ ChoiceInv' = ChoiceInv /\ LoopInv' = LoopInv
    BY <2>1, <2>2 DEF ArrayInv, ChoiceInv, LoopInv
  <2> QED BY <2>1, <2>2, <2>3 DEF IInv
<1> QED BY <1>1, <1>2, <1>3, <1>4, <1>5, <1>6, <1>7 DEF SummaryNext

(* The invariant holds in every state of every run of the function.         *)
LEMMA InvHolds == SummarySpec => []IInv
<1> QED BY InitInv, NextInv, PTL DEF SummarySpec


-----------------------------------------------------------------------------
(* The theorems.                                                            *)

(* The invariant says more than the type invariant.                         *)
LEMMA InvTypes == IInv => SummaryTypeOK
<1> SUFFICES ASSUME IInv PROVE SummaryTypeOK
  OBVIOUS
<1>1. /\ documents \in Collections /\ phase \in Phases /\ LoopInv
      /\ phase \in {"split", "error"} => sentences = <<>>
      /\ phase \in {"split", "error", "rank"} => selected = <<>>
      /\ phase \in {"rank", "order", "done"} => Count > 0 /\ ArrayInv
      /\ phase \in {"order", "done"} => ChoiceInv
  BY DEF IInv
<1>2. documents \in Seq(Seq(Chars)) /\ documents # <<>> /\ Count \in Nat
  BY <1>1, SubjectFacts
<1>3. ASSUME phase \in {"rank", "order", "done"}
      PROVE  ToSet(Numbers(sentences)) = 1 .. Count
  <2>1. sentences \in Seq(Scored) /\ ToSet(sentences) = Scored
    BY <1>1, <1>3 DEF ArrayInv
  <2>2. /\ DOMAIN Numbers(sentences) = DOMAIN sentences
        /\ \A k \in DOMAIN sentences : Numbers(sentences)[k] = sentences[k].number
    BY DEF Numbers
  <2>3. ASSUME NEW k \in DOMAIN sentences PROVE Numbers(sentences)[k] \in 1 .. Count
    <3>1. sentences[k] \in Scored
      BY <2>1
    <3> QED BY <3>1, <2>2, <1>1, ElementFacts
  <2>4. ASSUME NEW n \in 1 .. Count
        PROVE  \E k \in DOMAIN sentences : Numbers(sentences)[k] = n
    <3>1. [number |-> n, score |-> Score(Subject, n, documents)] \in ToSet(sentences)
      BY <2>1 DEF Scored
    <3>2. PICK k \in DOMAIN sentences :
            sentences[k] = [number |-> n, score |-> Score(Subject, n, documents)]
      BY <3>1 DEF ToSet
    <3>3. sentences[k].number = n
      BY <3>2
    <3> QED BY <3>3, <2>2
  <2> QED BY <2>2, <2>3, <2>4 DEF ToSet
<1>4. ASSUME phase \in {"order", "done"}
      PROVE  /\ selected # <<>>
             /\ ToSet(selected) \subseteq ToSet(sentences)
  <2>1. /\ Count > 0
        /\ sentences \in Seq(Scored) /\ ToSet(sentences) = Scored
        /\ selected \in Seq(Scored) /\ Len(selected) = Min({MAX_SENTENCES, Count})
    BY <1>1, <1>4 DEF ArrayInv, ChoiceInv
  <2>2. Len(selected) \in 1 .. Count
    BY <1>2, <2>1, ChosenCount
  <2>3. selected # <<>>
    BY <2>2
  <2>4. ToSet(selected) \subseteq Scored
    <3>1. \A k \in DOMAIN selected : selected[k] \in Scored
      BY <2>1
    <3> QED BY <3>1 DEF ToSet
  <2> QED BY <2>1, <2>3, <2>4
<1>5. ToSet(<<>>) = {}
  BY DEF ToSet
<1>6. phase \in {"rank", "order", "done"} => Len(sentences) = Count
  BY <1>1 DEF ArrayInv
<1>7. /\ i \in Nat \ {0} /\ j > i
      /\ phase = "rank" => i >= Len(sentences) \/ j <= Len(sentences)
      /\ phase = "order" => i >= Len(selected) \/ j <= Len(selected)
  BY <1>1 DEF LoopInv
<1>8. phase \in {"split", "error", "rank"} \/ phase \in {"order", "done"}
  BY <1>1 DEF Phases
<1>9. ToSet(selected) \subseteq ToSet(sentences)
  BY <1>1, <1>4, <1>5, <1>8
<1>10. (selected = <<>>) = (phase \in {"split", "error", "rank"})
  <2>1. CASE phase \in {"split", "error", "rank"}
    BY <2>1, <1>1
  <2>2. CASE phase \in {"order", "done"}
    BY <2>2, <1>4
  <2> QED BY <2>1, <2>2, <1>8
<1> QED BY <1>1, <1>2, <1>3, <1>6, <1>7, <1>9, <1>10 DEF SummaryTypeOK

(* The array of sentences stays a permutation of the sentences of the text, *)
(* and the loops of generate_summary stay inside the arrays.                *)
THEOREM SummaryTypes == SummarySpec => []SummaryTypeOK
<1> QED BY InvHolds, InvTypes, PTL

(* The operators that the abstract specification takes from its own copy of *)
(* the libraries are the same.                                              *)
LEMMA SameOperators ==
  /\ \A s : Best!Last(s) = Last(s)
  /\ \A S : Best!Min(S) = Min(S)
  /\ \A s : Best!ToSet(s) = ToSet(s)
  /\ \A f : Best!IsInjective(f) = IsInjective(f)
BY DEF Best!Last, Last, Best!Min, Min, Best!ToSet, ToSet, Best!IsInjective, IsInjective

(* What stands in the array when both sorts are done is a best choice.      *)
LEMMA ChoiceIsBest ==
  ASSUME documents \in Collections, Count > 0, ArrayInv, ChoiceInv,
         Sorted(selected, EarlierFirst)
  PROVE  Numbers(selected) \in Best!Answers(documents) /\ Numbers(selected) # <<>>
<1> DEFINE a == Numbers(selected)
           m == Min({MAX_SENTENCES, Count})
           score == [n \in 1 .. Count |-> Score(Subject, n, documents)]
           place == [n \in 1 .. Count |-> strstr(Subject, split_sentences(Subject)[n])]
<1>1. /\ sentences \in Seq(Scored) /\ ToSet(sentences) = Scored /\ Len(sentences) = Count
      /\ IsInjective(sentences)
      /\ selected \in Seq(Scored) /\ IsInjective(selected) /\ Len(selected) = m
      /\ Sorted(sentences, HigherFirst)
      /\ ToSet(selected) = {sentences[k] : k \in 1 .. Len(selected)}
  BY DEF ArrayInv, ChoiceInv
<1>2. m \in 1 .. Count /\ Count \in Nat
  BY SubjectFacts, ChosenCount
<1> HIDE DEF m
<1>3. DOMAIN selected = 1 .. m /\ DOMAIN sentences = 1 .. Count
  BY <1>1, <1>2
<1>4. /\ DOMAIN a = 1 .. m
      /\ \A k \in 1 .. m : a[k] = selected[k].number
      /\ a = [k \in 1 .. m |-> selected[k].number]
  BY <1>3 DEF Numbers
<1>5. \A k \in 1 .. m : selected[k] \in Scored
  BY <1>1, <1>3
<1>6. \A x \in Scored : /\ x.number \in 1 .. Count
                        /\ x = [number |-> x.number, score |-> score[x.number]]
                        /\ x.score = score[x.number]
                        /\ Place(x) = place[x.number]
                        /\ Place(x) \in Nat
  <2> SUFFICES ASSUME NEW x \in Scored
               PROVE  /\ x.number \in 1 .. Count
                      /\ x = [number |-> x.number, score |-> score[x.number]]
                      /\ x.score = score[x.number]
                      /\ Place(x) = place[x.number]
                      /\ Place(x) \in Nat
    OBVIOUS
  <2>1. /\ x.number \in 1 .. Count
        /\ x = [number |-> x.number, score |-> Score(Subject, x.number, documents)]
        /\ x.score = Score(Subject, x.number, documents)
        /\ Place(x) \in Nat
    BY ElementFacts
  <2>2. Place(x) = place[x.number]
    BY <2>1 DEF Place, TextOf
  <2> QED BY <2>1, <2>2
<1> HIDE DEF a
<1>7. a \in [1 .. m -> 1 .. Count]
  BY <1>4, <1>5, <1>6
<1> HIDE DEF score, place
<1>8. Best!IsInjective(a)
  <2>1. ASSUME NEW k \in 1 .. m, NEW l \in 1 .. m, a[k] = a[l] PROVE k = l
    <3>1. selected[k] = selected[l]
      BY <2>1, <1>4, <1>5, <1>6
    <3> QED BY <3>1, <1>1, <1>3 DEF IsInjective
  <2>2. IsInjective(a)
    BY <1>4, <2>1 DEF IsInjective
  <2> QED BY <2>2, SameOperators
<1>9. ASSUME NEW n \in Best!ToSet(a), NEW other \in 1 .. Count \ Best!ToSet(a)
      PROVE  ~ Higher(score[other], score[n])
  <2>1. PICK k \in 1 .. m : n = a[k]
    <3>1. n \in ToSet(a)
      BY SameOperators
    <3> QED BY <3>1, <1>4 DEF ToSet
  <2>2. \A l \in 1 .. m : a[l] # other
    <3>1. other \notin ToSet(a)
      BY SameOperators
    <3> QED BY <3>1, <1>4 DEF ToSet
  <2>3. PICK p \in 1 .. m : selected[k] = sentences[p]
    <3>1. selected[k] \in ToSet(selected)
      BY <1>3 DEF ToSet
    <3> QED BY <3>1, <1>1
  <2>4. PICK q \in 1 .. Count : sentences[q].number = other
    <3>1. [number |-> other, score |-> score[other]] \in Scored
      BY DEF Scored, score
    <3>2. PICK q \in 1 .. Count : sentences[q] = [number |-> other, score |-> score[other]]
      BY <3>1, <1>1, <1>3 DEF ToSet
    <3>3. sentences[q].number = other
      BY <3>2
    <3> QED BY <3>3
  <2>5. q \notin 1 .. m
    <3> SUFFICES ASSUME q \in 1 .. m PROVE FALSE
      OBVIOUS
    <3>1. sentences[q] \in ToSet(selected)
      BY <1>1
    <3>2. PICK l \in 1 .. m : selected[l] = sentences[q]
      BY <3>1, <1>3 DEF ToSet
    <3> QED BY <3>2, <2>2, <2>4, <1>4
  <2>6. q \in p + 1 .. Len(sentences) /\ p \in 1 .. Len(sentences)
    BY <2>5, <1>1, <1>2
  <2>7. <<sentences[q], sentences[p]>> \notin HigherFirst
    BY <2>6, <1>1 DEF Sorted
  <2>8. sentences[q] \in Scored /\ sentences[p] \in Scored
    BY <2>6, <1>1
  <2>9. ~ Higher(sentences[q].score, sentences[p].score)
    BY <2>7, <2>8 DEF HigherFirst
  <2>10. sentences[q].score = score[other] /\ sentences[p].score = score[n]
    BY <2>8, <2>1, <2>3, <2>4, <1>4, <1>6
  <2> QED BY <2>9, <2>10
<1>10. ASSUME NEW k \in DOMAIN a, NEW l \in DOMAIN a, k < l
       PROVE  place[a[k]] <= place[a[l]]
  <2>1. k \in 1 .. Len(selected) /\ l \in k + 1 .. Len(selected)
    BY <1>10, <1>4, <1>1, <1>2
  <2>2. <<selected[l], selected[k]>> \notin EarlierFirst
    BY <2>1 DEF Sorted
  <2>3. selected[k] \in Scored /\ selected[l] \in Scored
    BY <1>4, <1>5
  <2>4. ~ (Place(selected[l]) < Place(selected[k]))
    BY <2>2, <2>3 DEF EarlierFirst
  <2>5. Place(selected[l]) = place[a[l]] /\ Place(selected[k]) = place[a[k]]
    BY <2>3, <1>4, <1>6
  <2>6. Place(selected[l]) \in Nat /\ Place(selected[k]) \in Nat
    BY <2>3, <1>6
  <2> QED BY <2>4, <2>5, <2>6
<1>11. a \in {b \in [1 .. m -> 1 .. Count] :
                /\ Best!IsInjective(b)
                /\ \A n \in Best!ToSet(b), other \in 1 .. Count \ Best!ToSet(b) :
                     ~ Higher(score[other], score[n])
                /\ \A k, l \in DOMAIN b : k < l => place[b[k]] <= place[b[l]]}
  BY <1>7, <1>8, <1>9, <1>10
<1>12. Best!Answers(documents) =
         {b \in [1 .. m -> 1 .. Count] :
            /\ Best!IsInjective(b)
            /\ \A n \in Best!ToSet(b), other \in 1 .. Count \ Best!ToSet(b) :
                 ~ Higher(score[other], score[n])
            /\ \A k, l \in DOMAIN b : k < l => place[b[k]] <= place[b[l]]}
  <2>1. Best!Last(documents) = Subject
    BY SameOperators DEF Subject
  <2>2. Best!Min({MAX_SENTENCES, Len(split_sentences(Subject))}) = m
    BY SameOperators DEF m, Count
  <2> QED BY <2>1, <2>2 DEF Best!Answers, score, place, Count
<1>13. a # <<>>
  BY <1>2, <1>4
<1> QED BY <1>11, <1>12, <1>13 DEF a

(* The two exchange sorts and the copy between them implement the abstract  *)
(* specification: joining the sentences is its one step.                    *)
THEOREM SummaryIsBest == SummarySpec => ImplementsBest
<1>1. SummaryInit => Best!Init
  <2> SUFFICES ASSUME SummaryInit PROVE Best!Init
    OBVIOUS
  <2>1. documents \in Seq(Seq(Chars)) /\ documents # <<>> /\ phase = "split"
    BY SubjectFacts DEF SummaryInit
  <2> QED BY <2>1 DEF Best!Init
<1>2. IInv /\ IInv' /\ [SummaryNext]_summaryVars
        => [Best!Answer]_<<documents, IF phase = "done" THEN Numbers(selected) ELSE <<>> >>
  <2> SUFFICES ASSUME IInv, IInv', [SummaryNext]_summaryVars
               PROVE  [Best!Answer]_<<documents, IF phase = "done" THEN Numbers(selected) ELSE <<>> >>
    OBVIOUS
  <2>1. CASE Join
    <3>1. /\ phase = "order" /\ phase' = "done" /\ documents' = documents
          /\ sentences' = sentences /\ selected' = selected
      BY <2>1 DEF Join
    <3>2. /\ documents \in Collections /\ Count > 0 /\ ArrayInv /\ ChoiceInv
      BY <3>1 DEF IInv
    <3>3. Sorted(selected, EarlierFirst)
      <4>1. Sorted(selected, EarlierFirst)'
        BY <3>1 DEF IInv
      <4>2. EarlierFirst' = EarlierFirst
        BY <3>1, SameTexts
      <4> QED BY <3>1, <4>1, <4>2
    <3>4. Numbers(selected) \in Best!Answers(documents) /\ Numbers(selected) # <<>>
      BY <3>2, <3>3, ChoiceIsBest
    <3>5. Numbers(selected') = Numbers(selected)
      BY <3>1
    <3>6. Best!Answer
      BY <3>1, <3>4, <3>5 DEF Best!Answer
    <3> QED BY <3>6
  <2>2. CASE NoSentence \/ ScoreSentences \/ Rank \/ Select \/ Order
    <3>1. phase # "done" /\ phase' # "done" /\ documents' = documents
      BY <2>2 DEF NoSentence, ScoreSentences, Rank, Select, Order
    <3> QED BY <3>1
  <2>3. CASE UNCHANGED summaryVars
    <3>1. phase' = phase /\ documents' = documents /\ selected' = selected
      BY <2>3 DEF summaryVars
    <3>2. Numbers(selected') = Numbers(selected)
      BY <3>1
    <3> QED BY <3>1, <3>2
  <2> QED BY <2>1, <2>2, <2>3 DEF SummaryNext
<1> QED BY <1>1, <1>2, InvHolds, PTL DEF SummarySpec, ImplementsBest, Best!Spec

-----------------------------------------------------------------------------
(* What the scores rest on.                                                 *)

(* strcasestr makes no match up: it would give a token a lower idf, and a   *)
(* sentence a token that it does not have.                                  *)
LEMMA InvFinds == IInv => FoundIsThere
<1> SUFFICES ASSUME IInv,
                    NEW t \in UNION {DOMAIN tokenize_text(d) : d \in ToSet(documents)},
                    NEW d \in ToSet(documents), strcasestr(d, t) # 0
             PROVE  LET k == strcasestr(d, t) IN
                      /\ k + Len(t) - 1 <= Len(d)
                      /\ \A m \in DOMAIN t : Lower[d[k + m - 1]] = t[m]
  BY DEF FoundIsThere
<1>1. \A c \in ToSet(documents) : c \in Seq(Chars)
  <2>1. documents \in Seq(Seq(Chars))
    BY SubjectFacts DEF IInv
  <2> QED BY <2>1 DEF ToSet
<1>2. PICK c \in ToSet(documents) : t \in DOMAIN tokenize_text(c)
  OBVIOUS
<1>3. t \in Seq(Chars) /\ \A m \in 1 .. Len(t) : Lower[t[m]] = t[m]
  BY <1>1, <1>2, TokenIsFound
<1>4. Matches(d, t, strcasestr(d, t))
  BY <1>1, <1>3, SearchIsSound
<1>5. DOMAIN t = 1 .. Len(t)
  BY <1>3
<1> QED BY <1>3, <1>4, <1>5 DEF Matches

(* In every state that the function reaches.                                *)
THEOREM SearchMakesNothingUp == SummarySpec => []FoundIsThere
<1> QED BY InvHolds, InvFinds, PTL

(* The words of a sentence are words of its text, and strcasestr finds them *)
(* in both.                                                                 *)
LEMMA InvKnowsWords == IInv => OwnWordsFound
<1> SUFFICES ASSUME IInv, NEW n \in 1 .. Count,
                    NEW t \in DOMAIN tokenize_text(split_sentences(Subject)[n])
             PROVE  /\ t \in DOMAIN tokenize_text(Subject)
                    /\ Len(t) > 1 => /\ Occurs(t, split_sentences(Subject)[n])
                                     /\ Occurs(t, Subject)
  BY DEF OwnWordsFound
<1> DEFINE sentence == split_sentences(Subject)[n]
<1>1. Subject \in Seq(Chars) /\ n \in DOMAIN split_sentences(Subject)
  BY SubjectFacts DEF IInv
<1>2. PICK e \in SentenceEnds(Subject) :
        sentence = SubSeq(Subject, SentenceStart(Subject, e), e)
  BY <1>1, SentencesOfText
<1>3. PICK b : b = SentenceStart(Subject, e)
  OBVIOUS
<1>4. /\ b \in 1 .. e /\ e \in 1 .. Len(Subject) /\ Subject[e] \in Terminators
      /\ b > 1 => Subject[b - 1] \in Terminators
  BY <1>1, <1>3, SentenceBounds
<1>5. b \in 1 .. Len(Subject) /\ e \in b .. Len(Subject)
  <2>1. Len(Subject) \in Nat
    BY <1>1
  <2> QED BY <1>4, <2>1
<1>6. sentence = SubSeq(Subject, b, e)
  BY <1>2, <1>3
<1>7. sentence \in Seq(Chars)
  BY <1>1, <1>5, <1>6
<1> HIDE DEF sentence
<1>8. t \in DOMAIN tokenize_text(sentence)
  BY DEF sentence
<1>9. PICK k \in WordStarts(sentence) :
        t = LowerWord(sentence, k) /\ Len(t) < TokenBuffer /\ ~ is_stopword(t)
  BY <1>8, TokensOfText
<1>10. b + k - 1 \in WordStarts(Subject) /\ LowerWord(Subject, b + k - 1) = t
  BY <1>1, <1>4, <1>5, <1>6, <1>9, SentenceWord
<1>11. t \in DOMAIN tokenize_text(Subject)
  BY <1>9, <1>10, TokensOfText
<1>12. Len(t) > 1 => Occurs(t, sentence) /\ Occurs(t, Subject)
  BY <1>1, <1>7, <1>8, <1>11, TokenIsFound
<1> QED BY <1>11, <1>12 DEF sentence

(* In every state that the function reaches.                                *)
THEOREM SentencesHaveTheirWords == SummarySpec => []OwnWordsFound
<1> QED BY InvHolds, InvKnowsWords, PTL

-----------------------------------------------------------------------------
(* The first summary.                                                       *)

(* Where all scores are 0, the first sort exchanges nothing.                *)
LeadInv ==
  ToSet(documents) = {Subject} /\ phase \in {"rank", "order", "done"} =>
    \A k \in 1 .. Count : sentences[k].number = k

LEMMA NoScoreIsHigher ==
  ASSUME documents \in Collections, ToSet(documents) = {Subject},
         NEW x \in Scored, NEW y \in Scored
  PROVE  ~ Higher(x.score, y.score)
<1>1. \A d \in DOMAIN documents : documents[d] = Subject
  BY DEF ToSet
<1>2. documents \in Seq(Seq(Chars)) /\ Subject \in Seq(Chars)
      /\ 1 .. Len(documents) + 1 \subseteq DOMAIN Ln
      /\ DOMAIN split_sentences(Subject) = 1 .. Count
  BY SubjectFacts, SummaryAssumption
<1>3. ASSUME NEW z \in Scored PROVE z.score \in Fractions /\ z.score[1] = 0
  <2>1. z.number \in DOMAIN split_sentences(Subject)
        /\ z.score = Score(Subject, z.number, documents)
    BY <1>2, ElementFacts
  <2> QED BY <1>1, <1>2, <2>1, ScoreIsFraction, ZenonT(60)
<1>4. /\ x.score[1] = 0 /\ y.score[1] = 0
      /\ x.score[2] \in Nat /\ y.score[2] \in Nat
  BY <1>3 DEF Fractions
<1> QED BY <1>4 DEF Higher

LEMMA NextLeads == IInv /\ LeadInv /\ [SummaryNext]_summaryVars => LeadInv'
<1> SUFFICES ASSUME IInv, LeadInv, [SummaryNext]_summaryVars,
                    (ToSet(documents) = {Subject})', phase' \in {"rank", "order", "done"}
             PROVE  (\A k \in 1 .. Count : sentences[k].number = k)'
  BY DEF LeadInv
<1>1. documents' = documents
  BY DEF SummaryNext, NoSentence, ScoreSentences, Rank, Select, Order, Join, summaryVars
<1>2. Subject' = Subject /\ Count' = Count /\ ToSet(documents) = {Subject}
  BY <1>1, SameTexts
<1>3. documents \in Collections
  BY DEF IInv
<1>4. CASE ScoreSentences
  <2>1. sentences' = [n \in 1 .. Count |->
                        [number |-> n, score |-> Score(Subject, n, documents)]]
    BY <1>3, <1>4, SubjectFacts DEF ScoreSentences
  <2> QED BY <1>2, <2>1
<1>5. CASE Rank
  <2>1. phase = "rank" /\ ArrayInv /\ LoopInv /\ i < Len(sentences)
    BY <1>5 DEF IInv, Rank
  <2>2. sentences[i] \in Scored /\ sentences[j] \in Scored
    <3>1. sentences \in Seq(Scored)
      BY <2>1 DEF ArrayInv
    <3>2. i \in 1 .. Len(sentences) /\ j \in 1 .. Len(sentences)
      BY <2>1, <3>1 DEF LoopInv
    <3> QED BY <3>1, <3>2
  <2>3. sentences' = sentences
    BY <1>2, <1>3, <1>5, <2>2, NoScoreIsHigher DEF Rank
  <2> QED BY <1>2, <2>1, <2>3 DEF LeadInv
<1>6. CASE Select \/ Order \/ Join
  <2>1. sentences' = sentences /\ phase \in {"rank", "order"}
    BY <1>6 DEF Select, Order, Join
  <2> QED BY <1>2, <2>1 DEF LeadInv
<1>7. CASE NoSentence
  BY <1>7 DEF NoSentence
<1>8. CASE UNCHANGED summaryVars
  <2>1. sentences' = sentences /\ phase' = phase
    BY <1>8 DEF summaryVars
  <2> QED BY <1>2, <2>1 DEF LeadInv
<1> QED BY <1>4, <1>5, <1>6, <1>7, <1>8 DEF SummaryNext

LEMMA InvLeads == IInv /\ LeadInv => LeadWithoutContrast
<1> SUFFICES ASSUME IInv, LeadInv, phase = "done", ToSet(documents) = {Subject}
             PROVE  ToSet(Numbers(selected)) = 1 .. Min({MAX_SENTENCES, Count})
  BY DEF LeadWithoutContrast
<1>1. documents \in Collections /\ Count > 0 /\ ArrayInv /\ ChoiceInv
  BY DEF IInv
<1>2. PICK m : m = Min({MAX_SENTENCES, Count})
  OBVIOUS
<1>3. m \in 1 .. Count /\ Count \in Nat
  BY <1>1, <1>2, SubjectFacts, ChosenCount
<1>4. /\ selected \in Seq(Scored) /\ Len(selected) = m
      /\ ToSet(selected) = {sentences[k] : k \in 1 .. m}
  BY <1>1, <1>2 DEF ChoiceInv
<1>5. \A k \in 1 .. Count : sentences[k].number = k
  BY DEF LeadInv
<1>6. DOMAIN selected = 1 .. m
  BY <1>4
<1>7. ToSet(Numbers(selected)) = {selected[k].number : k \in 1 .. m}
  BY <1>6 DEF ToSet, Numbers
<1>8. ASSUME NEW k \in 1 .. m PROVE selected[k].number \in 1 .. m
  <2>1. PICK l \in 1 .. m : selected[k] = sentences[l]
    BY <1>4, <1>6 DEF ToSet
  <2>2. l \in 1 .. Count
    BY <1>3
  <2> QED BY <1>5, <2>1, <2>2
<1>9. ASSUME NEW l \in 1 .. m PROVE \E k \in 1 .. m : selected[k].number = l
  <2>1. PICK k \in 1 .. m : selected[k] = sentences[l]
    BY <1>4, <1>6 DEF ToSet
  <2>2. l \in 1 .. Count
    BY <1>3
  <2> QED BY <1>5, <2>1, <2>2
<1> QED BY <1>2, <1>7, <1>8, <1>9

(* The first summary of a server is the first sentences of the text.        *)
THEOREM FirstSummaryLeads == SummarySpec => []LeadWithoutContrast
<1>1. SummaryInit => LeadInv
  BY DEF SummaryInit, LeadInv
<1> QED BY <1>1, InitInv, NextInv, NextLeads, InvLeads, PTL DEF SummarySpec
=============================================================================
