----------------------------- MODULE TextProofs -----------------------------
(***************************************************************************)
(* What the functions of Text return, for every text: the sentences, the   *)
(* words and tokens, what strcasestr finds, and scores.  Two of them are   *)
(* defined by recursion, the search and the sum of a score; the lemmas     *)
(* about recursion say that such a function exists.                        *)
(***************************************************************************)
EXTENDS Text, FiniteSetTheorems, FunctionTheorems, WellFoundedInduction, TLAPS

-----------------------------------------------------------------------------
(* Sets of numbers.                                                         *)

(* Min, as the text functions use it, is the least number of a set.         *)
LEMMA LeastNumber ==
  ASSUME NEW S \in SUBSET Nat, S # {}
  PROVE  Min(S) \in S /\ \A y \in S : Min(S) <= y
<1> DEFINE Below == {0 .. x : x \in S}
<1>1. IsWellFoundedOn(StrictSubsetOrdering(Nat), FiniteSubsetsOf(Nat))
  BY FS_StrictSubsetOrderingWellFounded
<1>2. Below \subseteq FiniteSubsetsOf(Nat)
  <2> SUFFICES ASSUME NEW x \in S PROVE 0 .. x \in FiniteSubsetsOf(Nat)
    OBVIOUS
  <2>1. IsFiniteSet(0 .. x)
    BY FS_Interval
  <2> QED BY <2>1 DEF FiniteSubsetsOf
<1>3. Below # {}
  OBVIOUS
<1> HIDE DEF Below
<1>4. PICK T \in Below : \A U \in Below : ~ (<<U, T>> \in StrictSubsetOrdering(Nat))
  BY <1>1, <1>2, <1>3, WFMin
<1>5. PICK x \in S : T = 0 .. x
  BY <1>4 DEF Below
<1>6. ASSUME NEW y \in S PROVE x <= y
  <2>1. 0 .. y \in Below
    BY DEF Below
  <2>2. <<0 .. y, 0 .. x>> \notin StrictSubsetOrdering(Nat)
    BY <2>1, <1>4, <1>5
  <2>3. CASE y < x
    <3>1. 0 .. y \subseteq 0 .. x /\ x \in 0 .. x /\ x \notin 0 .. y
      BY <2>3
    <3> QED BY <3>1, <2>2 DEF StrictSubsetOrdering
  <2> QED BY <2>3
<1> QED BY <1>6 DEF Min

(* Max is the greatest number of a set that has a bound.                    *)
LEMMA GreatestNumber ==
  ASSUME NEW S \in SUBSET Nat, S # {}, NEW bound \in Nat, \A x \in S : x <= bound
  PROVE  Max(S) \in S /\ \A y \in S : y <= Max(S)
<1> DEFINE Gaps == {bound - x : x \in S}
<1>1. Gaps \in SUBSET Nat /\ Gaps # {}
  <2>1. \A x \in S : bound - x \in Nat
    OBVIOUS
  <2> QED BY <2>1
<1> HIDE DEF Gaps
<1>2. Min(Gaps) \in Gaps /\ \A y \in Gaps : Min(Gaps) <= y
  BY <1>1, LeastNumber
<1>3. PICK x \in S : Min(Gaps) = bound - x
  BY <1>2 DEF Gaps
<1>4. ASSUME NEW y \in S PROVE x >= y
  <2>1. bound - y \in Gaps
    BY DEF Gaps
  <2> QED BY <2>1, <1>2, <1>3
<1> QED BY <1>4 DEF Max

(* The numbers of a finite set have the ranks from 1 to their count: each   *)
(* sentence that split_sentences returns ends somewhere.                    *)
LEMMA RankIsTaken ==
  ASSUME NEW E \in SUBSET Nat, IsFiniteSet(E), NEW n \in 1 .. Cardinality(E)
  PROVE  \E e \in E : Cardinality({d \in E : d <= e}) = n
<1> DEFINE Upto(e) == {d \in E : d <= e}
           rank == [e \in E |-> Cardinality(Upto(e))]
           Ranks == 1 .. Cardinality(E)
<1>1. Cardinality(E) \in Nat
  BY FS_CardinalityType
<1>2. ASSUME NEW e \in E PROVE IsFiniteSet(Upto(e)) /\ Cardinality(Upto(e)) \in Ranks
  <2>1. Upto(e) \in SUBSET E /\ e \in Upto(e)
    OBVIOUS
  <2> HIDE DEF Upto
  <2>2. IsFiniteSet(Upto(e)) /\ Cardinality(Upto(e)) <= Cardinality(E)
    BY <2>1, FS_Subset
  <2>3. Cardinality(Upto(e)) \in Nat
    BY <2>2, FS_CardinalityType
  <2>4. Cardinality(Upto(e)) # 0
    BY <2>1, <2>2, FS_EmptySet
  <2> QED BY <2>2, <2>3, <2>4, <1>1
<1>3. ASSUME NEW d \in E, NEW e \in E, d < e
      PROVE  Cardinality(Upto(d)) # Cardinality(Upto(e))
  <2>1. e \in Upto(e) /\ e \notin Upto(d)
    <3>1. e <= e /\ ~ (e <= d)
      BY <1>3
    <3> QED BY <3>1
  <2>2. Upto(d) \in SUBSET Upto(e)
    <3> SUFFICES ASSUME NEW x \in E, x <= d PROVE x <= e
      OBVIOUS
    <3> QED BY <1>3
  <2>3. IsFiniteSet(Upto(e))
    BY <1>2
  <2> HIDE DEF Upto
  <2> QED BY <2>1, <2>2, <2>3, FS_Subset
<1>4. rank \in [E -> Ranks]
  BY <1>2
<1>5. ASSUME NEW d \in E, NEW e \in E, rank[d] = rank[e] PROVE d = e
  <2>1. Cardinality(Upto(d)) = Cardinality(Upto(e))
    BY <1>5
  <2>2. ~ (d < e) /\ ~ (e < d)
    BY <2>1, <1>3
  <2> QED BY <2>2
<1>6. IsFiniteSet(Ranks) /\ Cardinality(Ranks) = Cardinality(E)
  BY <1>1, FS_Interval
<1> HIDE DEF rank, Ranks
<1>7. rank \in Injection(E, Ranks)
  BY <1>4, <1>5, Fun_IsInj
<1>8. rank \in Surjection(E, Ranks)
  <2>1. Cardinality(E) = Cardinality(Ranks) <=> rank \in Surjection(E, Ranks)
    BY <1>6, <1>7, FS_Injection, Zenon
  <2> QED BY <2>1, <1>6, Zenon
<1>9. \A m \in Ranks : \E e \in E : rank[e] = m
  BY <1>8, Fun_SurjectionProperties, Zenon
<1>10. PICK e \in E : rank[e] = n
  BY <1>9 DEF Ranks
<1> QED BY <1>10 DEF rank

-----------------------------------------------------------------------------
(* The sentences of a text.                                                 *)

(* There are as many sentences as places where one ends, and each is what   *)
(* stands between the terminator before and its own.                        *)
LEMMA SentencesOfText ==
  ASSUME NEW text \in Seq(Chars)
  PROVE  /\ Len(split_sentences(text)) \in Nat
         /\ DOMAIN split_sentences(text) = 1 .. Len(split_sentences(text))
         /\ Len(split_sentences(text)) = 0 <=> SentenceEnds(text) = {}
         /\ \A n \in DOMAIN split_sentences(text) :
              \E e \in SentenceEnds(text) :
                split_sentences(text)[n] = SubSeq(text, SentenceStart(text, e), e)
<1> DEFINE ends == SentenceEnds(text)
           EndOf(n) == CHOOSE e \in ends : Cardinality({d \in ends : d <= e}) = n
<1>1. ends \in SUBSET Nat /\ ends \in SUBSET (2 .. Len(text)) /\ Len(text) \in Nat
  BY DEF SentenceEnds
<1>2. IsFiniteSet(ends)
  <2>1. IsFiniteSet(2 .. Len(text))
    BY <1>1, FS_Interval
  <2> QED BY <1>1, <2>1, FS_Subset
<1>3. split_sentences(text) =
        [n \in 1 .. Cardinality(ends) |-> SubSeq(text, SentenceStart(text, EndOf(n)), EndOf(n))]
  BY DEF split_sentences
<1>4. Cardinality(ends) \in Nat /\ (Cardinality(ends) = 0 <=> ends = {})
  BY <1>2, FS_CardinalityType, FS_EmptySet
<1>5. ASSUME NEW n \in 1 .. Cardinality(ends) PROVE EndOf(n) \in ends
  <2> HIDE DEF ends
  <2>1. \E e \in ends : Cardinality({d \in ends : d <= e}) = n
    BY <1>1, <1>2, RankIsTaken
  <2> QED BY <2>1
<1> HIDE DEF ends, EndOf
<1>6. DOMAIN split_sentences(text) = 1 .. Cardinality(ends)
  BY <1>3
<1>7. Len(split_sentences(text)) = Cardinality(ends)
  BY <1>3, <1>4
<1>8. ASSUME NEW n \in DOMAIN split_sentences(text)
      PROVE  \E e \in ends : split_sentences(text)[n] = SubSeq(text, SentenceStart(text, e), e)
  BY <1>3, <1>5, <1>6
<1> QED BY <1>4, <1>6, <1>7, <1>8 DEF ends

(* A sentence begins before it ends.                                        *)
LEMMA SentenceBegins ==
  ASSUME NEW text \in Seq(Chars), NEW e \in SentenceEnds(text)
  PROVE  SentenceStart(text, e) \in 1 .. e
<1> DEFINE S == {0} \union {k \in 1 .. e - 1 : text[k] \in Terminators}
<1>1. e \in Nat /\ e >= 2
  BY DEF SentenceEnds
<1>2. S \in SUBSET Nat /\ S # {} /\ \A x \in S : x <= e - 1
  BY <1>1
<1>3. Max(S) \in Nat /\ Max(S) <= e - 1
  <2> HIDE DEF S
  <2>1. e - 1 \in Nat
    BY <1>1
  <2> QED BY <1>2, <2>1, GreatestNumber
<1>4. SentenceStart(text, e) = 1 + Max(S)
  BY DEF SentenceStart
<1> HIDE DEF S
<1> QED BY <1>1, <1>3, <1>4

(* strstr finds every sentence of a text in it: the second sort of          *)
(* generate_summary never compares a NULL.                                  *)
LEMMA SentenceIsFound ==
  ASSUME NEW text \in Seq(Chars), NEW n \in DOMAIN split_sentences(text)
  PROVE  strstr(text, split_sentences(text)[n]) \in DOMAIN text
<1>1. PICK e \in SentenceEnds(text) :
        split_sentences(text)[n] = SubSeq(text, SentenceStart(text, e), e)
  BY SentencesOfText
<1> DEFINE b == SentenceStart(text, e)
           sentence == SubSeq(text, b, e)
           places == {k \in DOMAIN text : IsPrefix(sentence, SubSeq(text, k, Len(text)))}
<1>2. b \in 1 .. e /\ e \in 2 .. Len(text) /\ Len(text) \in Nat
  BY SentenceBegins DEF SentenceEnds
<1> HIDE DEF b
<1>3. IsPrefix(sentence, SubSeq(text, b, Len(text)))
  <2> DEFINE rest == SubSeq(text, b, Len(text))
  <2>1. /\ sentence \in Seq(Chars) /\ Len(sentence) = e - b + 1
        /\ \A k \in 1 .. e - b + 1 : sentence[k] = text[b + k - 1]
    BY <1>2
  <2>2. /\ rest \in Seq(Chars) /\ Len(rest) = Len(text) - b + 1
        /\ \A k \in 1 .. Len(text) - b + 1 : rest[k] = text[b + k - 1]
    BY <1>2
  <2> HIDE DEF sentence, rest
  <2>3. Len(sentence) <= Len(rest)
    BY <1>2, <2>1, <2>2
  <2>4. SubSeq(sentence, 1, Len(sentence)) = SubSeq(rest, 1, Len(sentence))
    <3>1. \A k \in 1 .. Len(sentence) : sentence[k] = rest[k]
      BY <1>2, <2>1, <2>2
    <3> QED BY <3>1, <2>1, <2>2, <2>3
  <2> QED BY <2>3, <2>4 DEF IsPrefix, rest
<1>4. b \in places
  BY <1>2, <1>3
<1>5. places \in SUBSET Nat /\ places \in SUBSET DOMAIN text
  OBVIOUS
<1>6. Min(places) \in places
  <2> HIDE DEF places
  <2> QED BY <1>4, <1>5, LeastNumber
<1>7. strstr(text, split_sentences(text)[n]) = Min(places)
  BY <1>1 DEF strstr, b
<1> QED BY <1>5, <1>6, <1>7

-----------------------------------------------------------------------------
(* Scores.                                                                  *)

Fractions == Int \X (Nat \ {0})

(* Products keep an order that holds before multiplying.                    *)
LEMMA ProductOrder ==
  ASSUME NEW x \in Int, NEW y \in Int, NEW z \in Nat \ {0}
  PROVE  x > y <=> x * z > y * z
OBVIOUS

(* The comparison of two fractions by their cross products is transitive.   *)
LEMMA HigherIsTransitive ==
  ASSUME NEW s \in Fractions, NEW t \in Fractions, NEW u \in Fractions,
         Higher(s, t), Higher(t, u)
  PROVE  Higher(s, u)
<1> DEFINE a == s[1]  b == s[2]  p == t[1]  q == t[2]  x == u[1]  y == u[2]
<1>1. a \in Int /\ p \in Int /\ x \in Int
  BY DEF Fractions
<1>2. b \in Nat \ {0} /\ q \in Nat \ {0} /\ y \in Nat \ {0}
  BY DEF Fractions
<1>3. a * q > p * b /\ p * y > x * q
  BY DEF Higher
<1> HIDE DEF a, b, p, q, x, y
<1>4. (a * q) * y > (p * b) * y /\ (p * y) * b > (x * q) * b
  BY <1>1, <1>2, <1>3
<1>5. (p * b) * y = (p * y) * b
  BY <1>1, <1>2
<1>6. (a * q) * y > (x * q) * b
  <2>1. a * q \in Int /\ p * b \in Int /\ p * y \in Int /\ x * q \in Int
    BY <1>1, <1>2
  <2> QED BY <1>1, <1>2, <1>4, <1>5, <2>1
<1>7. (a * q) * y = (a * y) * q /\ (x * q) * b = (x * b) * q
  BY <1>1, <1>2
<1>8. a * y \in Int /\ x * b \in Int
  BY <1>1, <1>2
<1>9. (a * y) * q > (x * b) * q
  BY <1>6, <1>7
<1>10. a * y > x * b
  BY <1>2, <1>8, <1>9, ProductOrder
<1> QED BY <1>10 DEF Higher, a, b, x, y

(* Of two scores at most one is higher.                                     *)
LEMMA HigherIsStrict ==
  ASSUME NEW s \in Fractions, NEW t \in Fractions, Higher(s, t)
  PROVE  ~ Higher(t, s)
<1>1. s[1] * t[2] \in Int /\ t[1] * s[2] \in Int
  BY DEF Fractions
<1> QED BY <1>1 DEF Higher

-----------------------------------------------------------------------------
(* Recursion.  The library's theorems about recursive definitions are about *)
(* operators; these are about functions: f[x] is base[x] if x is in Ends,   *)
(* and otherwise what step makes of x and of f at the next x.               *)

Follows(f, D, Ends, base, step, next) ==
  f = [x \in D |-> IF x \in Ends THEN base[x] ELSE step[<<x, f[next[x]]>>]]

(* The recursion comes to an end: rank becomes less.                        *)
Descends(D, Ends, next, rank) ==
  /\ next \in [D -> D] /\ rank \in [D -> Nat]
  /\ \A x \in D : x \notin Ends => rank[next[x]] < rank[x]

(* f follows the recursion as far as rank n. *)
Approximates(f, n, D, Ends, base, step, next, rank, V) ==
  /\ f \in [D -> V]
  /\ \A x \in D : rank[x] < n =>
       f[x] = IF x \in Ends THEN base[x] ELSE step[<<x, f[next[x]]>>]

(* As far as any rank there is such a function. *)
LEMMA ApproximationExists ==
  ASSUME NEW D, NEW Ends, NEW V, NEW base \in [D -> V], NEW step \in [D \X V -> V],
         NEW next, NEW rank, Descends(D, Ends, next, rank), NEW n \in Nat
  PROVE  \E f : Approximates(f, n, D, Ends, base, step, next, rank, V)
<1> DEFINE Fails == {m \in Nat : ~ \E f : Approximates(f, m, D, Ends, base, step, next, rank, V)}
<1> SUFFICES ASSUME Fails # {} PROVE FALSE
  OBVIOUS
<1>1. PICK m \in Fails : \A k \in Fails : m <= k
  <2>1. Fails \in SUBSET Nat
    OBVIOUS
  <2> HIDE DEF Fails
  <2> QED BY <2>1, LeastNumber
<1>2. m \in Nat /\ ~ \E f : Approximates(f, m, D, Ends, base, step, next, rank, V)
  OBVIOUS
<1>3. m # 0
  <2>1. \A x \in D : ~ (rank[x] < 0)
    BY DEF Descends
  <2>2. Approximates(base, 0, D, Ends, base, step, next, rank, V)
    BY <2>1 DEF Approximates
  <2> QED BY <2>2, <1>2
<1>4. m - 1 \in Nat /\ m - 1 \notin Fails
  <2>1. m - 1 \in Nat /\ ~ (m <= m - 1)
    BY <1>2, <1>3
  <2> HIDE DEF Fails
  <2> QED BY <2>1, <1>1
<1>5. PICK f : Approximates(f, m - 1, D, Ends, base, step, next, rank, V)
  BY <1>4
<1> DEFINE g == [x \in D |-> IF x \in Ends THEN base[x] ELSE step[<<x, f[next[x]]>>]]
<1>6. g \in [D -> V]
  <2>1. ASSUME NEW x \in D PROVE step[<<x, f[next[x]]>>] \in V
    <3>1. f[next[x]] \in V
      BY <1>5 DEF Approximates, Descends
    <3> QED BY <3>1
  <2> QED BY <2>1
<1>7. \A x \in D : rank[x] < m - 1 => g[x] = f[x]
  BY <1>5 DEF Approximates
<1> HIDE DEF Fails
<1>8. ASSUME NEW x \in D, rank[x] < m
      PROVE  g[x] = IF x \in Ends THEN base[x] ELSE step[<<x, g[next[x]]>>]
  <2>1. CASE x \in Ends
    BY <2>1
  <2>2. CASE x \notin Ends
    <3>1. next[x] \in D /\ rank[next[x]] < m - 1
      <4>1. /\ next[x] \in D /\ rank[x] \in Nat /\ rank[next[x]] \in Nat
            /\ rank[next[x]] < rank[x]
        BY <2>2 DEF Descends
      <4> QED BY <4>1, <1>2, <1>8
    <3>2. g[next[x]] = f[next[x]]
      BY <3>1, <1>7
    <3> QED BY <2>2, <3>2
  <2> QED BY <2>1, <2>2
<1> HIDE DEF g
<1>9. Approximates(g, m, D, Ends, base, step, next, rank, V)
  BY <1>6, <1>8 DEF Approximates
<1> QED BY <1>9, <1>2

(* And no other with the same values. *)
LEMMA ApproximationsAgree ==
  ASSUME NEW D, NEW Ends, NEW V, NEW base, NEW step,
         NEW next, NEW rank, Descends(D, Ends, next, rank),
         NEW n \in Nat, NEW f, Approximates(f, n, D, Ends, base, step, next, rank, V),
         NEW m \in Nat, NEW g, Approximates(g, m, D, Ends, base, step, next, rank, V),
         NEW x \in D, rank[x] < n, rank[x] < m
  PROVE  f[x] = g[x]
<1> DEFINE Ranks == {rank[y] : y \in {z \in D : rank[z] < n /\ rank[z] < m /\ f[z] # g[z]}}
<1> SUFFICES ASSUME f[x] # g[x] PROVE FALSE
  OBVIOUS
<1>1. Ranks \in SUBSET Nat /\ Ranks # {}
  BY DEF Descends
<1>2. PICK k \in Ranks : \A l \in Ranks : k <= l
  <2> HIDE DEF Ranks
  <2> QED BY <1>1, LeastNumber
<1>3. PICK y \in D : rank[y] = k /\ rank[y] < n /\ rank[y] < m /\ f[y] # g[y]
  OBVIOUS
<1>4. y \notin Ends
  BY <1>3 DEF Approximates
<1>5. /\ next[y] \in D /\ rank[y] \in Nat /\ rank[next[y]] \in Nat
      /\ rank[next[y]] < rank[y]
  BY <1>4 DEF Descends
<1>6. rank[next[y]] < n /\ rank[next[y]] < m /\ ~ (k <= rank[next[y]])
  BY <1>3, <1>5
<1>7. rank[next[y]] \notin Ranks
  <2> HIDE DEF Ranks
  <2> QED BY <1>2, <1>6
<1>8. f[next[y]] = g[next[y]]
  BY <1>5, <1>6, <1>7
<1> HIDE DEF Ranks
<1>9. f[y] = step[<<y, f[next[y]]>>] /\ g[y] = step[<<y, g[next[y]]>>]
  BY <1>3, <1>4 DEF Approximates
<1> QED BY <1>3, <1>8, <1>9

(* So a recursion that descends defines a function.                         *)
LEMMA RecursionDefines ==
  ASSUME NEW D, NEW Ends, NEW V, NEW base \in [D -> V], NEW step \in [D \X V -> V],
         NEW next, NEW rank, Descends(D, Ends, next, rank)
  PROVE  \E f \in [D -> V] : Follows(f, D, Ends, base, step, next)
<1> DEFINE App(f, n) == Approximates(f, n, D, Ends, base, step, next, rank, V)
           upto(n) == CHOOSE f : App(f, n)
           f == [x \in D |-> upto(rank[x] + 1)[x]]
<1>1. ASSUME NEW n \in Nat PROVE App(upto(n), n)
  <2>1. \E h : App(h, n)
    BY ApproximationExists
  <2> HIDE DEF App
  <2> QED BY <2>1
<1>2. \A x \in D : next[x] \in D /\ rank[x] \in Nat
  BY DEF Descends
<1> HIDE DEF upto
<1> HIDE DEF App
<1>3. ASSUME NEW x \in D, NEW n \in Nat, rank[x] < n PROVE f[x] = upto(n)[x]
  <2>1. rank[x] + 1 \in Nat /\ rank[x] < rank[x] + 1
    BY <1>2
  <2>2. App(upto(rank[x] + 1), rank[x] + 1) /\ App(upto(n), n)
    BY <1>1, <2>1
  <2>3. \A F, G : \A k, m \in Nat :
          App(F, k) /\ App(G, m) /\ rank[x] < k /\ rank[x] < m => F[x] = G[x]
    BY ApproximationsAgree, SMTT(30) DEF App
  <2>4. PICK k : k = rank[x] + 1
    OBVIOUS
  <2>5. PICK F : F = upto(k)
    OBVIOUS
  <2>6. PICK G : G = upto(n)
    OBVIOUS
  <2>7. k \in Nat /\ App(F, k) /\ App(G, n) /\ rank[x] < k /\ rank[x] < n
    BY <1>3, <2>1, <2>2, <2>4, <2>5, <2>6, Zenon
  <2>8. F[x] = G[x]
    BY <2>3, <2>7, Zenon
  <2> QED BY <2>4, <2>5, <2>6, <2>8, Zenon
<1> USE DEF App
<1>4. ASSUME NEW x \in D PROVE f[x] \in V
  <2>1. rank[x] + 1 \in Nat
    BY <1>2
  <2>2. App(upto(rank[x] + 1), rank[x] + 1)
    BY <1>1, <2>1
  <2> QED BY <2>2 DEF Approximates
<1>5. ASSUME NEW x \in D
      PROVE  f[x] = IF x \in Ends THEN base[x] ELSE step[<<x, f[next[x]]>>]
  <2> DEFINE n == rank[x] + 1
  <2>1. n \in Nat /\ rank[x] < n
    BY <1>2
  <2>2. App(upto(n), n)
    BY <1>1, <2>1
  <2> HIDE DEF n
  <2>3. f[x] = upto(n)[x]
    BY <2>1, <1>3
  <2>4. CASE x \in Ends
    BY <2>1, <2>2, <2>3, <2>4 DEF Approximates
  <2>5. CASE x \notin Ends
    <3>1. next[x] \in D /\ rank[next[x]] < n
      <4>1. /\ next[x] \in D /\ rank[x] \in Nat /\ rank[next[x]] \in Nat
            /\ rank[next[x]] < rank[x]
        BY <2>5 DEF Descends
      <4> QED BY <4>1, <2>1
    <3>2. f[next[x]] = upto(n)[next[x]]
      BY <2>1, <3>1, <1>3
    <3>3. upto(n)[x] = step[<<x, upto(n)[next[x]]>>]
      BY <2>1, <2>2, <2>5 DEF Approximates
    <3> HIDE DEF f
    <3> QED BY <2>3, <2>5, <3>2, <3>3
  <2> QED BY <2>4, <2>5
<1>6. f = [x \in D |-> f[x]] /\ f \in [D -> V]
  BY <1>4
<1> HIDE DEF f
<1>7. f = [x \in D |-> IF x \in Ends THEN base[x] ELSE step[<<x, f[next[x]]>>]]
  BY <1>5, <1>6
<1> QED BY <1>6, <1>7 DEF Follows

(* Induction along a recursion that descends.                               *)
LEMMA DescentInduction ==
  ASSUME NEW D, NEW Ends, NEW next, NEW rank, Descends(D, Ends, next, rank),
         NEW Good, \A x \in D : x \in Ends \/ next[x] \in Good => x \in Good
  PROVE  \A x \in D : x \in Good
<1> DEFINE Ranks == {rank[x] : x \in {y \in D : y \notin Good}}
<1> SUFFICES ASSUME Ranks # {} PROVE FALSE
  OBVIOUS
<1>1. Ranks \in SUBSET Nat
  BY DEF Descends
<1>2. PICK m \in Ranks : \A k \in Ranks : m <= k
  <2> HIDE DEF Ranks
  <2> QED BY <1>1, LeastNumber
<1>3. PICK x \in D : x \notin Good /\ rank[x] = m
  OBVIOUS
<1>4. /\ next[x] \in D /\ rank[x] \in Nat /\ rank[next[x]] \in Nat
      /\ rank[next[x]] < rank[x] /\ next[x] \notin Good
  BY <1>3 DEF Descends
<1>5. rank[next[x]] \in Ranks
  BY <1>4
<1> HIDE DEF Ranks
<1> QED BY <1>2, <1>3, <1>4, <1>5

-----------------------------------------------------------------------------
(* The search.                                                              *)

SearchBegins == [p |-> 1, np |-> 0, startn |-> 0]

(* A turn leads to a state of the loop.                                     *)
LEMMA TurnType ==
  ASSUME NEW needle, NEW s \in SearchStates, NEW c
  PROVE  Turn(needle, s, c) \in SearchStates /\ Turn(needle, s, c).p = s.p + 1
BY DEF Turn, SearchStates

(* strcasestr is what its loop makes of its first state.                    *)
LEMMA SearchScans ==
  ASSUME NEW haystack \in Seq(Chars), NEW needle
  PROVE  \E scan : /\ \A s \in SearchStates :
                        scan[s] = IF s.p > Len(haystack) THEN 0
                                  ELSE IF Completes(needle, s, haystack[s.p]) THEN s.startn
                                  ELSE scan[Turn(needle, s, haystack[s.p])]
                   /\ strcasestr(haystack, needle) = scan[SearchBegins]
<1> DEFINE Equation(f) == f = [s \in SearchStates |->
                                 IF s.p > Len(haystack) THEN 0
                                 ELSE IF Completes(needle, s, haystack[s.p]) THEN s.startn
                                 ELSE f[Turn(needle, s, haystack[s.p])]]
           Ends == {s \in SearchStates : s.p > Len(haystack)
                                           \/ Completes(needle, s, haystack[s.p])}
           base == [s \in SearchStates |-> IF s.p > Len(haystack) THEN 0 ELSE s.startn]
           step == [q \in SearchStates \X Nat |-> q[2]]
           next == [s \in SearchStates |-> Turn(needle, s, haystack[s.p])]
           rank == [s \in SearchStates |->
                      IF s.p > Len(haystack) THEN 0 ELSE Len(haystack) + 1 - s.p]
<1>1. \A s \in SearchStates : s.p \in Nat /\ s.startn \in Nat
  BY DEF SearchStates
<1>2. Descends(SearchStates, Ends, next, rank)
  <2>1. next \in [SearchStates -> SearchStates]
    BY TurnType
  <2>2. rank \in [SearchStates -> Nat]
    BY <1>1
  <2>3. ASSUME NEW s \in SearchStates, s \notin Ends PROVE rank[next[s]] < rank[s]
    <3>1. ~ (s.p > Len(haystack)) /\ s.p \in Nat /\ Len(haystack) \in Nat
      BY <2>3, <1>1
    <3>2. next[s] \in SearchStates /\ next[s].p = s.p + 1
      BY TurnType
    <3>3. rank[s] = Len(haystack) + 1 - s.p
      BY <3>1
    <3>4. rank[next[s]] = IF s.p + 1 > Len(haystack) THEN 0 ELSE Len(haystack) + 1 - (s.p + 1)
      BY <3>2
    <3> HIDE DEF rank, next
    <3> QED BY <3>1, <3>3, <3>4
  <2> HIDE DEF Ends, next, rank
  <2> QED BY <2>1, <2>2, <2>3 DEF Descends
<1>3. base \in [SearchStates -> Nat] /\ step \in [SearchStates \X Nat -> Nat]
  BY <1>1
<1>4. PICK f \in [SearchStates -> Nat] : Follows(f, SearchStates, Ends, base, step, next)
  <2> HIDE DEF Ends, base, step, next, rank
  <2> QED BY <1>2, <1>3, RecursionDefines
<1>5. Equation(f)
  <2>1. f = [s \in SearchStates |-> IF s \in Ends THEN base[s] ELSE step[<<s, f[next[s]]>>]]
    BY <1>4 DEF Follows
  <2>2. ASSUME NEW s \in SearchStates
        PROVE  (IF s \in Ends THEN base[s] ELSE step[<<s, f[next[s]]>>])
                 = IF s.p > Len(haystack) THEN 0
                   ELSE IF Completes(needle, s, haystack[s.p]) THEN s.startn
                   ELSE f[Turn(needle, s, haystack[s.p])]
    <3>1. Turn(needle, s, haystack[s.p]) \in SearchStates
      BY TurnType
    <3>2. f[Turn(needle, s, haystack[s.p])] \in Nat
      BY <3>1
    <3>3. step[<<s, f[next[s]]>>] = f[Turn(needle, s, haystack[s.p])]
      BY <3>2
    <3>4. base[s] = IF s.p > Len(haystack) THEN 0 ELSE s.startn
      OBVIOUS
    <3>5. s \in Ends <=> s.p > Len(haystack) \/ Completes(needle, s, haystack[s.p])
      OBVIOUS
    <3> HIDE DEF Ends, base, step, next
    <3> QED BY <3>3, <3>4, <3>5, Zenon
  <2> HIDE DEF Ends, base, step, next
  <2> QED BY <2>1, <2>2
<1> DEFINE scan == CHOOSE g : Equation(g)
<1>6. Equation(scan)
  <2> HIDE DEF Equation
  <2> QED BY <1>5
<1>7. strcasestr(haystack, needle) = scan[SearchBegins]
  BY DEF strcasestr, SearchBegins
<1>8. \E g : Equation(g) /\ strcasestr(haystack, needle) = g[SearchBegins]
  <2> HIDE DEF Equation, scan
  <2> QED BY <1>6, <1>7
<1> QED BY <1>8

(* A set of states that the loop does not leave holds what it returns.      *)
LEMMA SearchReturns ==
  ASSUME NEW haystack \in Seq(Chars), NEW needle,
         NEW Inv \in SUBSET SearchStates, SearchBegins \in Inv, NEW Results,
         \A s \in Inv : s.p > Len(haystack) => 0 \in Results,
         \A s \in Inv : s.p <= Len(haystack) /\ Completes(needle, s, haystack[s.p])
                          => s.startn \in Results,
         \A s \in Inv : s.p <= Len(haystack) /\ ~ Completes(needle, s, haystack[s.p])
                          => Turn(needle, s, haystack[s.p]) \in Inv
  PROVE  strcasestr(haystack, needle) \in Results
<1>1. PICK scan :
        /\ \A s \in SearchStates :
             scan[s] = IF s.p > Len(haystack) THEN 0
                       ELSE IF Completes(needle, s, haystack[s.p]) THEN s.startn
                       ELSE scan[Turn(needle, s, haystack[s.p])]
        /\ strcasestr(haystack, needle) = scan[SearchBegins]
  BY SearchScans
<1> DEFINE left(s) == IF s.p > Len(haystack) THEN 0 ELSE Len(haystack) + 1 - s.p
           Failures == {left(s) : s \in {r \in Inv : scan[r] \notin Results}}
<1> SUFFICES ASSUME Failures # {} PROVE FALSE
  <2>1. scan[SearchBegins] \in Results
    OBVIOUS
  <2> QED BY <2>1, <1>1
<1>2. \A s \in Inv : s.p \in Nat /\ left(s) \in Nat
  BY DEF SearchStates
<1>3. Failures \in SUBSET Nat
  BY <1>2
<1>4. PICK m \in Failures : \A k \in Failures : m <= k
  <2> HIDE DEF Failures
  <2> QED BY <1>3, LeastNumber
<1>5. PICK s \in Inv : scan[s] \notin Results /\ left(s) = m
  BY <1>4
<1>6. ~ (s.p > Len(haystack)) /\ ~ Completes(needle, s, haystack[s.p])
  BY <1>1, <1>2, <1>5
<1> DEFINE t == Turn(needle, s, haystack[s.p])
<1>7. t \in Inv /\ t.p = s.p + 1 /\ scan[s] = scan[t]
  <2>1. s.p \in Nat /\ Len(haystack) \in Nat /\ s \in SearchStates
    BY <1>2
  <2>2. s.p <= Len(haystack)
    BY <2>1, <1>6
  <2> QED BY <2>1, <2>2, <1>1, <1>6, TurnType
<1> HIDE DEF t
<1>8. left(t) \in Failures
  BY <1>5, <1>7
<1>9. left(t) < left(s)
  <2>1. s.p \in Nat /\ Len(haystack) \in Nat
    BY <1>2
  <2> QED BY <2>1, <1>6, <1>7
<1>10. m <= left(t) /\ left(t) \in Nat /\ m \in Nat
  BY <1>2, <1>3, <1>4, <1>7, <1>8
<1> HIDE DEF left, Failures
<1> QED BY <1>5, <1>9, <1>10

(* The needle is in the haystack at k, whatever the case of its letters.    *)
Matches(haystack, needle, k) ==
  /\ k + Len(needle) - 1 <= Len(haystack)
  /\ \A m \in 1 .. Len(needle) : Lower[haystack[k + m - 1]] = Lower[needle[m]]

(* Where strcasestr says it found the needle, the needle is.                *)
LEMMA SearchIsSound ==
  ASSUME NEW haystack \in Seq(Chars), NEW needle \in Seq(Chars),
         strcasestr(haystack, needle) # 0
  PROVE  Matches(haystack, needle, strcasestr(haystack, needle))
<1> DEFINE Partial(s) ==
             /\ s.startn + s.np - 1 = s.p
             /\ \A m \in 1 .. s.np - 1 : Lower[haystack[s.startn + m - 1]] = Lower[needle[m]]
           Inv == {s \in SearchStates : s.np # 0 => Partial(s)}
           Results == {0} \union {k \in Nat : Matches(haystack, needle, k)}
<1>1. \A s \in SearchStates : s.p \in Nat \ {0} /\ s.np \in Nat /\ s.startn \in Nat
  BY DEF SearchStates
<1>2. Len(haystack) \in Nat /\ Len(needle) \in Nat
  OBVIOUS
<1>3. SearchBegins \in Inv
  BY DEF SearchBegins, SearchStates
<1>4. ASSUME NEW s \in Inv, s.p <= Len(haystack), Completes(needle, s, haystack[s.p])
      PROVE  s.startn \in Results
  <2>1. /\ s.np # 0 /\ s.np = Len(needle) /\ Lower[needle[s.np]] = Lower[haystack[s.p]]
        /\ Partial(s)
    BY <1>4 DEF Completes, SameLetter
  <2>2. s.startn + Len(needle) - 1 <= Len(haystack)
    BY <2>1, <1>4
  <2>3. ASSUME NEW m \in 1 .. Len(needle)
        PROVE  Lower[haystack[s.startn + m - 1]] = Lower[needle[m]]
    <3>1. CASE m \in 1 .. s.np - 1
      BY <3>1, <2>1
    <3>2. CASE m = s.np
      <4>1. s.startn + m - 1 = s.p
        BY <3>2, <2>1
      <4> QED BY <4>1, <3>2, <2>1
    <3> QED BY <3>1, <3>2, <2>1, <1>1, <1>2
  <2>4. s.startn \in Nat
    BY <1>1
  <2> QED BY <2>2, <2>3, <2>4 DEF Matches
<1>5. ASSUME NEW s \in Inv, s.p <= Len(haystack), ~ Completes(needle, s, haystack[s.p])
      PROVE  Turn(needle, s, haystack[s.p]) \in Inv
  <2> DEFINE t == Turn(needle, s, haystack[s.p])
             c == haystack[s.p]
  <2>1. t \in SearchStates /\ s \in SearchStates
    BY TurnType
  <2>2. CASE s.np = 0 /\ SameLetter(needle, 1, c)
    <3>1. t.p = s.p + 1 /\ t.np = 2 /\ t.startn = s.p
      BY <2>2 DEF Turn
    <3>2. Lower[needle[1]] = Lower[c]
      BY <2>2 DEF SameLetter
    <3> HIDE DEF t
    <3>3. t.startn + t.np - 1 = t.p
      BY <3>1, <2>1, <1>1
    <3>4. ASSUME NEW m \in 1 .. t.np - 1
          PROVE  Lower[haystack[t.startn + m - 1]] = Lower[needle[m]]
      <4>1. m = 1
        BY <3>1
      <4>2. t.startn + m - 1 = s.p
        BY <4>1, <3>1, <2>1, <1>1
      <4> QED BY <4>1, <4>2, <3>2
    <3> QED BY <3>3, <3>4, <2>1 DEF t
  <2>3. CASE s.np # 0 /\ SameLetter(needle, s.np, c)
    <3>1. t.p = s.p + 1 /\ t.np = s.np + 1 /\ t.startn = s.startn
      BY <2>3 DEF Turn
    <3>2. Lower[needle[s.np]] = Lower[c] /\ Partial(s)
      BY <2>3 DEF SameLetter
    <3> HIDE DEF t
    <3>3. t.startn + t.np - 1 = t.p
      BY <3>1, <3>2, <2>1, <1>1, SMTT(30)
    <3>4. ASSUME NEW m \in 1 .. t.np - 1
          PROVE  Lower[haystack[t.startn + m - 1]] = Lower[needle[m]]
      <4>1. CASE m \in 1 .. s.np - 1
        BY <4>1, <3>1, <3>2
      <4>2. CASE m = s.np
        <5>1. t.startn + m - 1 = s.p
          BY <4>2, <3>1, <3>2
        <5> QED BY <5>1, <4>2, <3>2
      <4> QED BY <4>1, <4>2, <3>1, <2>1, <1>1
    <3> QED BY <3>3, <3>4, <2>1 DEF t
  <2>4. CASE ~ (s.np = 0 /\ SameLetter(needle, 1, c)) /\ ~ (s.np # 0 /\ SameLetter(needle, s.np, c))
    <3>1. t.np = 0
      BY <2>4 DEF Turn
    <3> HIDE DEF t
    <3> QED BY <3>1, <2>1 DEF t
  <2> QED BY <2>2, <2>3, <2>4
<1>6. Inv \in SUBSET SearchStates /\ 0 \in Results
  OBVIOUS
<1> HIDE DEF Inv, Results
<1>7. strcasestr(haystack, needle) \in Results
  BY <1>3, <1>4, <1>5, <1>6, SearchReturns
<1> QED BY <1>7 DEF Results

-----------------------------------------------------------------------------
(* Words.                                                                   *)

(* tolower leaves letters letters, and lower case as it is.                *)
LEMMA LowerFacts ==
  ASSUME NEW c \in Chars
  PROVE  /\ Lower[c] \in Chars /\ Lower[Lower[c]] = Lower[c]
         /\ c \in Letters <=> Lower[c] \in Letters
BY TextAssumption

(* A run ends where no word character follows.                              *)
LEMMA RunEndFacts ==
  ASSUME NEW text \in Seq(Chars), NEW k \in 1 .. Len(text)
  PROVE  /\ RunEnd(text, k) \in k .. Len(text)
         /\ RunEnd(text, k) < Len(text) => ~ IsWordChar(text[RunEnd(text, k) + 1])
         /\ \A e \in k .. Len(text) :
              (e < Len(text) => ~ IsWordChar(text[e + 1])) => RunEnd(text, k) <= e
<1> DEFINE ends == {e \in k .. Len(text) : e < Len(text) => ~ IsWordChar(text[e + 1])}
<1>1. ends \in SUBSET Nat
  OBVIOUS
<1>2. Len(text) \in ends
  OBVIOUS
<1>3. RunEnd(text, k) = Min(ends)
  BY DEF RunEnd
<1>4. Min(ends) \in ends /\ \A e \in ends : Min(ends) <= e
  <2> HIDE DEF ends
  <2> QED BY <1>1, <1>2, LeastNumber
<1> QED BY <1>3, <1>4

(* And nowhere else.                                                        *)
LEMMA RunEndIs ==
  ASSUME NEW text \in Seq(Chars), NEW k \in 1 .. Len(text), NEW r \in k .. Len(text),
         r < Len(text) => ~ IsWordChar(text[r + 1]),
         \A m \in k .. r : IsWordChar(text[m])
  PROVE  RunEnd(text, k) = r
<1>1. /\ RunEnd(text, k) \in k .. Len(text) /\ RunEnd(text, k) <= r
      /\ RunEnd(text, k) < Len(text) => ~ IsWordChar(text[RunEnd(text, k) + 1])
  BY RunEndFacts
<1>2. ASSUME RunEnd(text, k) < r PROVE FALSE
  <2>1. RunEnd(text, k) + 1 \in k .. r /\ RunEnd(text, k) < Len(text)
    BY <1>1, <1>2
  <2> QED BY <2>1, <1>1
<1> QED BY <1>1, <1>2

(* A word is a run of letters.                                              *)
LEMMA WordShape ==
  ASSUME NEW text \in Seq(Chars), NEW k \in WordStarts(text)
  PROVE  /\ k \in 1 .. Len(text) /\ RunEnd(text, k) \in k .. Len(text)
         /\ \A m \in k .. RunEnd(text, k) : text[m] \in Letters
         /\ k > 1 => ~ IsWordChar(text[k - 1])
         /\ RunEnd(text, k) < Len(text) => ~ IsWordChar(text[RunEnd(text, k) + 1])
<1>1. /\ k \in 1 .. Len(text) /\ (k > 1 => ~ IsWordChar(text[k - 1]))
      /\ \A m \in k .. RunEnd(text, k) : text[m] \in Letters
  BY DEF WordStarts, RunStarts
<1> QED BY <1>1, RunEndFacts

(* The letters of a token are lower case letters of its word.               *)
LEMMA LowerWordShape ==
  ASSUME NEW text \in Seq(Chars), NEW k \in WordStarts(text)
  PROVE  /\ LowerWord(text, k) \in Seq(Chars)
         /\ Len(LowerWord(text, k)) = RunEnd(text, k) - k + 1
         /\ \A m \in 1 .. RunEnd(text, k) - k + 1 :
              /\ LowerWord(text, k)[m] = Lower[text[k + m - 1]]
              /\ LowerWord(text, k)[m] \in Letters
              /\ Lower[LowerWord(text, k)[m]] = LowerWord(text, k)[m]
<1> DEFINE n == RunEnd(text, k) - k + 1
<1>1. /\ k \in Nat /\ n \in Nat
      /\ \A m \in k .. RunEnd(text, k) : text[m] \in Letters
      /\ RunEnd(text, k) \in Nat
  BY WordShape
<1>2. LowerWord(text, k) = [m \in 1 .. n |-> Lower[text[k + m - 1]]]
  BY DEF LowerWord
<1>3. ASSUME NEW m \in 1 .. n
      PROVE  LET c == text[k + m - 1]
             IN  c \in Letters /\ Lower[c] \in Chars /\ Lower[c] \in Letters
                   /\ Lower[Lower[c]] = Lower[c]
  <2>1. k + m - 1 \in k .. RunEnd(text, k)
    BY <1>1
  <2>2. text[k + m - 1] \in Letters /\ text[k + m - 1] \in Chars
    BY <1>1, <2>1 DEF Chars
  <2> QED BY <2>2, LowerFacts
<1> HIDE DEF n
<1>4. LowerWord(text, k) \in Seq(Chars) /\ Len(LowerWord(text, k)) = n
  <2>1. \A m \in 1 .. n : Lower[text[k + m - 1]] \in Chars
    BY <1>3
  <2>2. LowerWord(text, k) \in [1 .. n -> Chars]
    BY <1>2, <2>1
  <2>3. n \in Nat
    BY <1>1
  <2> QED BY <2>2, <2>3
<1> QED BY <1>2, <1>3, <1>4 DEF n

(* strcasestr finds a word of two letters or more in any text that has it.  *)
(* No part of the match before the word reaches into it, since what comes   *)
(* before the word is not a letter; so the comparison begins with the word. *)
LEMMA WordIsFound ==
  ASSUME NEW text \in Seq(Chars), NEW k \in WordStarts(text), Len(LowerWord(text, k)) > 1
  PROVE  strcasestr(text, LowerWord(text, k)) # 0
<1> DEFINE word == LowerWord(text, k)
           n == Len(word)
           Inv == {s \in SearchStates :
                     /\ s.np # 0 => s.startn # 0
                     /\ \/ s.p < k
                        \/ s.p = k /\ s.np = 0
                        \/ s.p = k + s.np - 1 /\ s.np \in 2 .. n}
<1>1. /\ k \in Nat \ {0} /\ k + n - 1 <= Len(text) /\ n \in Nat /\ n > 1
      /\ Len(text) \in Nat
      /\ k > 1 => text[k - 1] \notin Letters /\ text[k - 1] \in Chars
  BY WordShape, LowerWordShape DEF IsWordChar
<1>2. \A m \in 1 .. n : /\ word[m] = Lower[text[k + m - 1]] /\ word[m] \in Letters
                        /\ Lower[word[m]] = word[m]
  BY LowerWordShape
<1>3. \A s \in SearchStates : s.p \in Nat \ {0} /\ s.np \in Nat /\ s.startn \in Nat
  BY DEF SearchStates
<1> HIDE DEF word, n
<1>4. SearchBegins \in Inv
  BY <1>1 DEF SearchBegins, SearchStates
<1>5. ASSUME NEW s \in Inv PROVE ~ (s.p > Len(text))
  BY <1>1, <1>3
<1>6. ASSUME NEW s \in Inv, Completes(word, s, text[s.p]) PROVE s.startn \in Nat \ {0}
  BY <1>3, <1>6 DEF Completes
<1>7. ASSUME NEW c \in Chars, c \notin Letters, NEW m \in Nat \ {0}
      PROVE  ~ SameLetter(word, m, c)
  <2>1. Lower[c] \notin Letters
    BY <1>7, LowerFacts
  <2>2. m \in 1 .. n => Lower[word[m]] \in Letters
    BY <1>2
  <2> QED BY <2>1, <2>2, <1>1 DEF SameLetter, n
<1>8. ASSUME NEW m \in 1 .. n PROVE SameLetter(word, m, text[k + m - 1])
  BY <1>1, <1>2 DEF SameLetter, n
<1>9. ASSUME NEW s \in Inv, ~ Completes(word, s, text[s.p])
      PROVE  Turn(word, s, text[s.p]) \in Inv
  <2> DEFINE t == Turn(word, s, text[s.p])
             j == IF s.np = 0 THEN 1 ELSE s.np
             same == SameLetter(word, j, text[s.p])
  <2>1. t \in SearchStates /\ s.p \in Nat \ {0} /\ s.np \in Nat /\ s.startn \in Nat
    BY <1>3, TurnType
  <2>2. /\ t.p = s.p + 1 /\ t.np = IF same THEN j + 1 ELSE 0
        /\ t.startn = IF same /\ s.np = 0 THEN s.p ELSE s.startn
    BY DEF Turn
  <2>3. j \in Nat \ {0}
    BY <2>1
  <2>4. s.np # 0 => s.startn # 0
    OBVIOUS
  <2>5. t.np # 0 => t.startn # 0
    <3> HIDE DEF t, same, j
    <3> QED BY <2>1, <2>2, <2>4
  <2>6. CASE s.p + 1 < k
    <3> HIDE DEF t
    <3> QED BY <2>1, <2>2, <2>5, <2>6 DEF t
  <2>7. CASE s.p + 1 = k
    <3>1. s.p = k - 1 /\ k > 1
      BY <2>7, <2>1, <1>1
    <3>2. ~ same
      BY <3>1, <2>3, <1>1, <1>7
    <3> HIDE DEF t, same
    <3> QED BY <3>2, <2>1, <2>2, <2>5, <2>7 DEF t
  <2>8. CASE s.p = k /\ s.np = 0
    <3>1. same /\ j = 1
      <4>1. SameLetter(word, 1, text[k + 1 - 1]) /\ k + 1 - 1 = k
        BY <1>1, <1>8
      <4> QED BY <4>1, <2>8
    <3>2. t.np = 2 /\ t.p = k + 2 - 1
      <4> HIDE DEF t, same, j
      <4> QED BY <3>1, <2>2, <2>8, <1>1
    <3> HIDE DEF t, same, j
    <3> QED BY <3>2, <2>1, <2>5, <1>1 DEF t
  <2>9. CASE s.p = k + s.np - 1 /\ s.np \in 2 .. n
    <3>1. same /\ j = s.np
      <4>1. SameLetter(word, s.np, text[k + s.np - 1])
        BY <2>9, <1>1, <1>8
      <4> QED BY <4>1, <2>9
    <3>2. s.np # n
      <4>1. ~ (s.np # 0 /\ s.np = n /\ SameLetter(word, s.np, text[s.p]))
        BY <1>9 DEF Completes, n
      <4> QED BY <4>1, <3>1, <2>9
    <3>3. t.np = s.np + 1 /\ t.p = k + (s.np + 1) - 1
      <4> HIDE DEF t, same, j
      <4> QED BY <3>1, <2>1, <2>2, <2>9, <1>1
    <3>4. s.np + 1 \in 2 .. n
      BY <3>2, <2>1, <2>9, <1>1
    <3> HIDE DEF t, same, j
    <3> QED BY <3>3, <3>4, <2>1, <2>5, <1>1 DEF t
  <2>10. s.p < k \/ (s.p = k /\ s.np = 0) \/ (s.p = k + s.np - 1 /\ s.np \in 2 .. n)
    OBVIOUS
  <2>11. s.p < k => s.p + 1 < k \/ s.p + 1 = k
    BY <2>1, <1>1
  <2> HIDE DEF t, Inv
  <2> QED BY <2>6, <2>7, <2>8, <2>9, <2>10, <2>11 DEF t
<1>10. Inv \in SUBSET SearchStates
  OBVIOUS
<1> HIDE DEF Inv
<1>11. strcasestr(text, word) \in Nat \ {0}
  <2>1. \A s \in Inv : s.p > Len(text) => 0 \in Nat \ {0}
    BY <1>5
  <2> QED BY <2>1, <1>4, <1>6, <1>9, <1>10, SearchReturns
<1> QED BY <1>11 DEF word

(* A single letter is never found.                                          *)
LEMMA LetterIsNotFound ==
  ASSUME NEW haystack \in Seq(Chars), NEW needle, Len(needle) = 1
  PROVE  strcasestr(haystack, needle) = 0
<1> DEFINE Inv == {s \in SearchStates : s.np # 1}
<1>1. SearchBegins \in Inv
  BY DEF SearchBegins, SearchStates
<1>2. ASSUME NEW s \in Inv PROVE ~ Completes(needle, s, haystack[s.p])
  BY DEF Completes
<1>3. ASSUME NEW s \in Inv PROVE Turn(needle, s, haystack[s.p]) \in Inv
  <2>1. s \in SearchStates /\ s.np \in Nat
    BY DEF SearchStates
  <2>2. Turn(needle, s, haystack[s.p]) \in SearchStates
    BY <2>1, TurnType
  <2>3. Turn(needle, s, haystack[s.p]).np # 1
    BY <2>1 DEF Turn
  <2> QED BY <2>2, <2>3
<1>4. Inv \in SUBSET SearchStates
  OBVIOUS
<1> HIDE DEF Inv
<1>5. strcasestr(haystack, needle) \in {0}
  BY <1>1, <1>2, <1>3, <1>4, SearchReturns
<1> QED BY <1>5

-----------------------------------------------------------------------------
(* Tokens.                                                                  *)

(* The tokens are the words in lower case that fit and are no stopwords.    *)
LEMMA TokensOfText ==
  ASSUME NEW text
  PROVE  \A t : t \in DOMAIN tokenize_text(text)
                  <=> \E k \in WordStarts(text) :
                        /\ t = LowerWord(text, k)
                        /\ Len(t) < TokenBuffer /\ ~ is_stopword(t)
BY DEF tokenize_text

(* A token is counted.                                                      *)
LEMMA TokenCounts ==
  ASSUME NEW text \in Seq(Chars)
  PROVE  /\ IsFiniteSet(DOMAIN tokenize_text(text))
         /\ \A t \in DOMAIN tokenize_text(text) :
              tokenize_text(text)[t] \in Nat /\ tokenize_text(text)[t] > 0
<1> DEFINE starts == {k \in WordStarts(text) :
                        LET w == LowerWord(text, k) IN
                          Len(w) < TokenBuffer /\ ~is_stopword(w)}
           word == [k \in starts |-> LowerWord(text, k)]
<1>1. starts \in SUBSET (1 .. Len(text))
  BY DEF WordStarts, RunStarts
<1>2. IsFiniteSet(starts)
  <2>1. IsFiniteSet(1 .. Len(text))
    BY FS_Interval
  <2> HIDE DEF starts
  <2> QED BY <1>1, <2>1, FS_Subset
<1>3. tokenize_text(text) = [w \in {LowerWord(text, k) : k \in starts} |->
                               Cardinality({k \in starts : LowerWord(text, k) = w})]
  BY DEF tokenize_text
<1> HIDE DEF starts
<1>4. DOMAIN tokenize_text(text) = {word[k] : k \in starts}
  BY <1>3
<1>5. IsFiniteSet(DOMAIN tokenize_text(text))
  <2>1. DOMAIN word = starts /\ Range(word) = DOMAIN tokenize_text(text)
    BY <1>4 DEF Range
  <2> HIDE DEF word
  <2>2. word \in Surjection(starts, DOMAIN tokenize_text(text))
    BY <1>4, <2>1, <1>3 DEF Surjection, word
  <2> QED BY <1>2, <2>2, FS_Surjection
<1>6. ASSUME NEW t \in DOMAIN tokenize_text(text)
      PROVE  tokenize_text(text)[t] \in Nat /\ tokenize_text(text)[t] > 0
  <2> DEFINE places == {k \in starts : LowerWord(text, k) = t}
  <2>1. places \in SUBSET starts /\ places # {}
    BY <1>3
  <2>2. tokenize_text(text)[t] = Cardinality(places)
    BY <1>3
  <2> HIDE DEF places
  <2>3. IsFiniteSet(places)
    BY <1>2, <2>1, FS_Subset
  <2>4. Cardinality(places) \in Nat /\ Cardinality(places) # 0
    BY <2>1, <2>3, FS_CardinalityType, FS_EmptySet
  <2> QED BY <2>2, <2>4
<1> QED BY <1>5, <1>6

(* A text has its own tokens, but for single letters, as strcasestr sees it.*)
LEMMA TokenIsFound ==
  ASSUME NEW text \in Seq(Chars), NEW t \in DOMAIN tokenize_text(text)
  PROVE  /\ t \in Seq(Chars) /\ Len(t) >= 1
         /\ \A m \in 1 .. Len(t) : Lower[t[m]] = t[m]
         /\ Len(t) > 1 => Occurs(t, text)
<1>1. PICK k \in WordStarts(text) : t = LowerWord(text, k)
  BY TokensOfText
<1>2. /\ t \in Seq(Chars) /\ Len(t) = RunEnd(text, k) - k + 1
      /\ \A m \in 1 .. Len(t) : Lower[t[m]] = t[m]
  BY <1>1, LowerWordShape
<1>3. Len(t) >= 1
  BY <1>2, WordShape
<1>4. Len(t) > 1 => Occurs(t, text)
  BY <1>1, WordIsFound DEF Occurs
<1> QED BY <1>2, <1>3, <1>4

(* Sentences stand between terminators.                                     *)
LEMMA SentenceBounds ==
  ASSUME NEW text \in Seq(Chars), NEW e \in SentenceEnds(text)
  PROVE  /\ e \in 1 .. Len(text) /\ SentenceStart(text, e) \in 1 .. e
         /\ text[e] \in Terminators
         /\ SentenceStart(text, e) > 1 => text[SentenceStart(text, e) - 1] \in Terminators
<1> DEFINE S == {0} \union {k \in 1 .. e - 1 : text[k] \in Terminators}
<1>1. e \in 2 .. Len(text) /\ text[e] \in Terminators /\ SentenceStart(text, e) \in 1 .. e
  BY SentenceBegins DEF SentenceEnds
<1>2. S \in SUBSET Nat /\ S # {} /\ \A x \in S : x <= e - 1
  BY <1>1
<1>3. Max(S) \in S
  <2> HIDE DEF S
  <2>1. e - 1 \in Nat
    BY <1>1
  <2> QED BY <1>2, <2>1, GreatestNumber
<1>4. SentenceStart(text, e) = 1 + Max(S)
  BY DEF SentenceStart
<1>5. PICK b : b = Max(S)
  OBVIOUS
<1>6. b = 0 \/ (b \in Nat /\ text[b] \in Terminators)
  BY <1>3, <1>5
<1>7. SentenceStart(text, e) = 1 + b
  BY <1>4, <1>5
<1> QED BY <1>1, <1>6, <1>7

(* A word of a sentence is a word of its text.                              *)
LEMMA SentenceWord ==
  ASSUME NEW text \in Seq(Chars), NEW b \in 1 .. Len(text), NEW e \in b .. Len(text),
         text[e] \in Terminators, b > 1 => text[b - 1] \in Terminators,
         NEW k \in WordStarts(SubSeq(text, b, e))
  PROVE  /\ b + k - 1 \in WordStarts(text)
         /\ LowerWord(text, b + k - 1) = LowerWord(SubSeq(text, b, e), k)
<1> DEFINE sentence == SubSeq(text, b, e)
           r == RunEnd(sentence, k)
<1>1. /\ sentence \in Seq(Chars) /\ Len(sentence) = e - b + 1
      /\ \A m \in 1 .. e - b + 1 : sentence[m] = text[b + m - 1]
  OBVIOUS
<1> HIDE DEF sentence
<1>2. /\ k \in 1 .. Len(sentence) /\ r \in k .. Len(sentence)
      /\ \A m \in k .. r : sentence[m] \in Letters
      /\ k > 1 => ~ IsWordChar(sentence[k - 1])
      /\ r < Len(sentence) => ~ IsWordChar(sentence[r + 1])
  BY <1>1, WordShape DEF sentence
<1> HIDE DEF r
<1>3. \A c \in Terminators : ~ IsWordChar(c)
  BY TextAssumption DEF IsWordChar
<1>4. Len(text) \in Nat /\ k \in Nat \ {0} /\ r \in Nat /\ b \in Nat \ {0} /\ e \in Nat
  <2>1. Len(text) \in Nat /\ b \in Nat \ {0} /\ e \in Nat
    OBVIOUS
  <2>2. e - b + 1 \in Int
    BY <2>1
  <2> QED BY <1>1, <1>2, <2>1, <2>2
<1>5. r # e - b + 1
  <2> SUFFICES ASSUME r = e - b + 1 PROVE FALSE
    OBVIOUS
  <2>1. sentence[r] = text[b + r - 1] /\ b + r - 1 = e
    BY <1>1, <1>2, <1>4
  <2>2. sentence[r] \in Letters
    BY <1>2, <1>4
  <2> QED BY <2>1, <2>2, <1>3 DEF IsWordChar
<1>6. r < e - b + 1
  BY <1>1, <1>2, <1>4, <1>5
<1> DEFINE first == b + k - 1
           last == b + r - 1
<1>7. first \in 1 .. Len(text) /\ last \in first .. Len(text) /\ last < e
  <2>1. k <= r /\ e <= Len(text)
    BY <1>2
  <2> QED BY <1>4, <1>6, <2>1
<1>8. ASSUME NEW m \in first .. last PROVE text[m] \in Letters
  <2>1. m - b + 1 \in k .. r /\ m - b + 1 \in 1 .. e - b + 1 /\ b + (m - b + 1) - 1 = m
    BY <1>4, <1>6
  <2> QED BY <2>1, <1>1, <1>2
<1>9. ~ IsWordChar(text[last + 1])
  <2>1. sentence[r + 1] = text[b + (r + 1) - 1] /\ b + (r + 1) - 1 = last + 1
    BY <1>1, <1>4, <1>6
  <2> QED BY <2>1, <1>1, <1>2, <1>6
<1>10. first > 1 => ~ IsWordChar(text[first - 1])
  <2>1. CASE k > 1
    <3>1. sentence[k - 1] = text[b + (k - 1) - 1] /\ b + (k - 1) - 1 = first - 1
      BY <1>1, <1>2, <1>4, <2>1
    <3> QED BY <3>1, <2>1, <1>2
  <2>2. CASE k = 1
    <3>1. first = b
      BY <2>2, <1>4
    <3> QED BY <3>1, <1>3
  <2> QED BY <2>1, <2>2, <1>4
<1> HIDE DEF first, last
<1>11. RunEnd(text, first) = last
  <2>1. \A m \in first .. last : IsWordChar(text[m])
    BY <1>8 DEF IsWordChar
  <2> QED BY <2>1, <1>7, <1>9, RunEndIs
<1>12. first \in WordStarts(text)
  <2>1. first \in DOMAIN text /\ IsWordChar(text[first])
    BY <1>7, <1>8 DEF IsWordChar
  <2> QED BY <2>1, <1>8, <1>10, <1>11 DEF WordStarts, RunStarts
<1>13. LowerWord(text, first) = LowerWord(sentence, k)
  <2>1. LowerWord(text, first) = [m \in 1 .. last - first + 1 |-> Lower[text[first + m - 1]]]
    BY <1>11 DEF LowerWord
  <2>2. LowerWord(sentence, k) = [m \in 1 .. r - k + 1 |-> Lower[sentence[k + m - 1]]]
    BY DEF LowerWord, r
  <2>3. last - first + 1 = r - k + 1
    BY <1>4 DEF first, last
  <2>4. ASSUME NEW m \in 1 .. r - k + 1 PROVE sentence[k + m - 1] = text[first + m - 1]
    <3>1. k + m - 1 \in 1 .. e - b + 1 /\ b + (k + m - 1) - 1 = first + m - 1
      BY <1>4, <1>6 DEF first
    <3> QED BY <3>1, <1>1
  <2> QED BY <2>1, <2>2, <2>3, <2>4
<1> QED BY <1>12, <1>13 DEF first, sentence

-----------------------------------------------------------------------------
(* Sums.                                                                    *)

TermSum(tokens, documents, S) == MapThenSumSet(LAMBDA t : TfIdf(t, tokens, documents), S)

(* The sum of tf_idf over a set of tokens is in any set that has 0, the     *)
(* terms and, of two numbers, their sum.                                    *)
LEMMA SumIsIn ==
  ASSUME NEW tokens, NEW documents, NEW S, IsFiniteSet(S),
         NEW V, 0 \in V, \A x, y \in V : x + y \in V,
         \A t \in S : TfIdf(t, tokens, documents) \in V
  PROVE  TermSum(tokens, documents, S) \in V
<1> DEFINE one(s) == CHOOSE x \in s : TRUE
           Equation(f) == f = [s \in SUBSET S |->
                                 IF s = {} THEN 0
                                 ELSE LET x == CHOOSE x \in s : TRUE
                                      IN  TfIdf(x, tokens, documents) + f[s \ {x}]]
           Ends == {{}}
           base == [s \in SUBSET S |-> 0]
           step == [q \in (SUBSET S) \X V |->
                      IF q[1] = {} THEN 0 ELSE TfIdf(one(q[1]), tokens, documents) + q[2]]
           next == [s \in SUBSET S |-> s \ {one(s)}]
           rank == [s \in SUBSET S |-> Cardinality(s)]
<1>1. \A s \in SUBSET S : s # {} => one(s) \in s
  OBVIOUS
<1> HIDE DEF one
<1>2. Descends(SUBSET S, Ends, next, rank)
  <2>1. next \in [SUBSET S -> SUBSET S]
    OBVIOUS
  <2>2. ASSUME NEW s \in SUBSET S PROVE IsFiniteSet(s) /\ Cardinality(s) \in Nat
    BY FS_Subset, FS_CardinalityType
  <2>3. rank \in [SUBSET S -> Nat]
    BY <2>2
  <2>4. ASSUME NEW s \in SUBSET S, s \notin Ends PROVE rank[next[s]] < rank[s]
    <3>1. IsFiniteSet(s) /\ one(s) \in s
      BY <2>2, <2>4, <1>1
    <3>2. Cardinality(s \ {one(s)}) = Cardinality(s) - 1 /\ Cardinality(s) \in Nat
      BY <3>1, <2>2, FS_RemoveElement
    <3>3. s \ {one(s)} \in SUBSET S
      OBVIOUS
    <3>4. rank[next[s]] = Cardinality(s \ {one(s)}) /\ rank[s] = Cardinality(s)
      BY <3>3
    <3> QED BY <3>2, <3>4
  <2> HIDE DEF Ends, next, rank
  <2> QED BY <2>1, <2>3, <2>4 DEF Descends
<1>3. base \in [SUBSET S -> V]
  OBVIOUS
<1>4. step \in [(SUBSET S) \X V -> V]
  <2>1. ASSUME NEW q \in (SUBSET S) \X V, q[1] # {}
        PROVE  TfIdf(one(q[1]), tokens, documents) + q[2] \in V
    <3>1. one(q[1]) \in S /\ q[2] \in V
      BY <2>1, <1>1
    <3> QED BY <3>1
  <2> QED BY <2>1
<1>5. PICK f \in [SUBSET S -> V] : Follows(f, SUBSET S, Ends, base, step, next)
  <2> HIDE DEF Ends, base, step, next, rank
  <2> QED BY <1>2, <1>3, <1>4, RecursionDefines
<1>6. Equation(f)
  <2>1. f = [s \in SUBSET S |-> IF s \in Ends THEN base[s] ELSE step[<<s, f[next[s]]>>]]
    BY <1>5 DEF Follows
  <2>2. ASSUME NEW s \in SUBSET S
        PROVE  (IF s \in Ends THEN base[s] ELSE step[<<s, f[next[s]]>>])
                 = IF s = {} THEN 0
                   ELSE LET x == CHOOSE x \in s : TRUE
                        IN  TfIdf(x, tokens, documents) + f[s \ {x}]
    <3>1. s \in Ends <=> s = {}
      OBVIOUS
    <3>2. base[s] = 0
      OBVIOUS
    <3>3. s \ {one(s)} \in SUBSET S /\ next[s] = s \ {one(s)}
      OBVIOUS
    <3>4. f[s \ {one(s)}] \in V
      BY <3>3
    <3>5. s # {} => step[<<s, f[next[s]]>>]
                      = TfIdf(one(s), tokens, documents) + f[s \ {one(s)}]
      BY <3>3, <3>4
    <3> HIDE DEF Ends, base, step, next
    <3> QED BY <3>1, <3>2, <3>5, Zenon DEF one
  <2> HIDE DEF Ends, base, step, next
  <2> QED BY <2>1, <2>2
<1> DEFINE sum == CHOOSE g : Equation(g)
<1>7. TermSum(tokens, documents, S) = sum[S]
  BY DEF TermSum, MapThenSumSet, MapThenFoldSet
<1>8. Equation(sum)
  <2> HIDE DEF Equation
  <2> QED BY <1>6
<1> HIDE DEF sum
<1>9. \A s \in SUBSET S :
        sum[s] = IF s = {} THEN 0 ELSE TfIdf(one(s), tokens, documents) + sum[s \ {one(s)}]
  BY <1>8 DEF one
<1> DEFINE Good == {s \in SUBSET S : sum[s] \in V}
<1>10. ASSUME NEW s \in SUBSET S, s \in Ends \/ next[s] \in Good PROVE s \in Good
  <2>1. CASE s = {}
    BY <2>1, <1>9
  <2>2. CASE s # {}
    <3>1. next[s] = s \ {one(s)} /\ next[s] \in Good
      BY <2>2, <1>10
    <3>2. sum[s \ {one(s)}] \in V
      BY <3>1
    <3>3. TfIdf(one(s), tokens, documents) \in V
      BY <2>2, <1>1
    <3> QED BY <3>2, <3>3, <2>2, <1>9
  <2> QED BY <2>1, <2>2
<1>11. \A s \in SUBSET S : s \in Good
  <2> HIDE DEF Ends, next, rank, Good, base, step
  <2> QED BY <1>2, <1>10, DescentInduction
<1>12. sum[S] \in V
  BY <1>11
<1> QED BY <1>7, <1>12

-----------------------------------------------------------------------------
(* Scores.                                                                  *)

(* A token is in some of the texts.                                         *)
LEMMA DocumentsAreCounted ==
  ASSUME NEW documents, Len(documents) \in Nat, DOMAIN documents = 1 .. Len(documents),
         NEW token
  PROVE  /\ DocumentsWith(token, documents) \in 0 .. Len(documents)
         /\ (\A d \in DOMAIN documents : Occurs(token, documents[d]))
              => DocumentsWith(token, documents) = Len(documents)
<1> DEFINE having == {d \in DOMAIN documents : Occurs(token, documents[d])}
<1>1. IsFiniteSet(1 .. Len(documents)) /\ Cardinality(1 .. Len(documents)) = Len(documents)
  <2>1. \A m \in Nat : IsFiniteSet(1 .. m) /\ Cardinality(1 .. m) = m
    BY FS_Interval
  <2> QED BY <2>1
<1>2. having \in SUBSET (1 .. Len(documents))
  OBVIOUS
<1>3. DocumentsWith(token, documents) = Cardinality(having)
  BY DEF DocumentsWith
<1>4. (\A d \in DOMAIN documents : Occurs(token, documents[d])) => having = 1 .. Len(documents)
  OBVIOUS
<1> HIDE DEF having
<1>5. Cardinality(having) <= Len(documents) /\ IsFiniteSet(having)
  <2>1. Cardinality(having) <= Cardinality(1 .. Len(documents)) /\ IsFiniteSet(having)
    BY <1>1, <1>2, FS_Subset
  <2> QED BY <1>1, <2>1
<1>6. Cardinality(having) \in Nat
  BY <1>5, FS_CardinalityType
<1> QED BY <1>1, <1>3, <1>4, <1>5, <1>6

(* A denominator is positive.                                              *)
LEMMA AtLeastOne ==
  ASSUME NEW w \in Nat
  PROVE  Max({1, w}) \in Nat \ {0}
<1>1. PICK m \in Nat : 1 <= m /\ w <= m
  OBVIOUS
<1>2. Max({1, w}) \in {1, w} /\ \A y \in {1, w} : y <= Max({1, w})
  BY <1>1, GreatestNumber
<1> QED BY <1>2

(* The scores of a collection for which the logarithms are known are        *)
(* numbers; without contrast to another text they are 0.                    *)
LEMMA ScoreIsFraction ==
  ASSUME NEW documents \in Seq(Seq(Chars)), 1 .. Len(documents) + 1 \subseteq DOMAIN Ln,
         NEW text \in Seq(Chars), NEW n \in DOMAIN split_sentences(text)
  PROVE  /\ Score(text, n, documents) \in Fractions
         /\ (\A d \in DOMAIN documents : documents[d] = text)
              => Score(text, n, documents)[1] = 0
<1> DEFINE sentence == split_sentences(text)[n]
           words == WordStarts(sentence)
           tokens == tokenize_text(text)
           here == {t \in DOMAIN tokens : Occurs(t, sentence)}
           sum == TermSum(tokens, documents, here)
           AtAnEnd == n \in {1, Len(split_sentences(text))}
<1>1. PICK e \in SentenceEnds(text) : sentence = SubSeq(text, SentenceStart(text, e), e)
  BY SentencesOfText
<1>2. sentence \in Seq(Chars)
  <2>1. SentenceStart(text, e) \in 1 .. e /\ e \in 2 .. Len(text)
    BY SentenceBegins DEF SentenceEnds
  <2> QED BY <1>1, <2>1
<1>3. Score(text, n, documents) = <<IF AtAnEnd THEN 3 * sum ELSE 2 * sum,
                                    2 * Max({1, count_words(sentence)})>>
  BY DEF Score, TermSum
<1>4. 2 * Max({1, count_words(sentence)}) \in Nat \ {0}
  <2> HIDE DEF sentence
  <2>1. words \in SUBSET (1 .. Len(sentence)) /\ Len(sentence) \in Nat
    BY <1>2 DEF WordStarts, RunStarts
  <2>2. IsFiniteSet(1 .. Len(sentence))
    BY <2>1, FS_Interval
  <2> HIDE DEF words
  <2>3. Cardinality(words) \in Nat
    BY <2>1, <2>2, FS_Subset, FS_CardinalityType
  <2>4. count_words(sentence) \in Nat
    BY <2>3 DEF count_words, words
  <2>5. Max({1, count_words(sentence)}) \in Nat \ {0}
    BY <2>4, AtLeastOne
  <2> QED BY <2>5
<1>5. IsFiniteSet(here) /\ \A t \in here : tokens[t] \in Nat
  <2>1. IsFiniteSet(DOMAIN tokens) /\ \A t \in DOMAIN tokens : tokens[t] \in Nat
    BY TokenCounts
  <2>2. here \in SUBSET DOMAIN tokens
    OBVIOUS
  <2> HIDE DEF tokens, here
  <2> QED BY <2>1, <2>2, FS_Subset
<1>6. Len(documents) \in Nat /\ DOMAIN documents = 1 .. Len(documents)
  OBVIOUS
<1>7. ASSUME NEW t \in here PROVE TfIdf(t, tokens, documents) \in Int
  <2>1. DocumentsWith(t, documents) \in 0 .. Len(documents)
    BY <1>6, DocumentsAreCounted
  <2>2. /\ Len(documents) + 1 \in DOMAIN Ln
        /\ DocumentsWith(t, documents) + 1 \in DOMAIN Ln
    <3>1. Len(documents) + 1 \in 1 .. Len(documents) + 1
      BY <1>6
    <3>2. DocumentsWith(t, documents) + 1 \in 1 .. Len(documents) + 1
      BY <1>6, <2>1
    <3> QED BY <3>1, <3>2
  <2>3. Idf(t, documents) \in Int
    BY <2>2, TextAssumption DEF Idf
  <2>4. tokens[t] \in Nat
    BY <1>5
  <2> HIDE DEF tokens, here
  <2> QED BY <2>3, <2>4 DEF TfIdf
<1> HIDE DEF here, sentence, tokens
<1>8. sum \in Int
  <2>1. 0 \in Int /\ \A x, y \in Int : x + y \in Int
    OBVIOUS
  <2> QED BY <2>1, <1>5, <1>7, SumIsIn
<1>9. ASSUME \A d \in DOMAIN documents : documents[d] = text PROVE sum = 0
  <2>1. ASSUME NEW t \in here PROVE TfIdf(t, tokens, documents) = 0
    <3>1. t \in DOMAIN tokenize_text(text) /\ Occurs(t, sentence)
      BY DEF here, tokens
    <3>2. Len(t) # 1
      BY <3>1, <1>2, LetterIsNotFound DEF Occurs
    <3>3. Occurs(t, text)
      <4>1. t \in Seq(Chars) /\ Len(t) >= 1 /\ (Len(t) > 1 => Occurs(t, text))
        BY <3>1, TokenIsFound
      <4>2. PICK l \in Nat : l = Len(t)
        BY <4>1
      <4>3. l >= 1 /\ l # 1
        BY <4>1, <4>2, <3>2
      <4>4. l > 1
        BY <4>2, <4>3
      <4> QED BY <4>1, <4>2, <4>4
    <3>4. DocumentsWith(t, documents) = Len(documents)
      BY <3>3, <1>6, <1>9, DocumentsAreCounted
    <3>5. Len(documents) + 1 \in DOMAIN Ln
      BY <1>6
    <3>6. Idf(t, documents) = 0
      BY <3>4, <3>5, TextAssumption DEF Idf
    <3>7. tokens[t] \in Nat
      BY <1>5
    <3> QED BY <3>6, <3>7 DEF TfIdf
  <2>2. 0 \in {0} /\ \A x, y \in {0} : x + y \in {0}
    OBVIOUS
  <2>3. sum \in {0}
    BY <2>1, <2>2, <1>5, SumIsIn
  <2> QED BY <2>3
<1>10. PICK x : x = sum
  OBVIOUS
<1>11. Score(text, n, documents)[1] = IF AtAnEnd THEN 3 * x ELSE 2 * x
  BY <1>3, <1>10
<1>12. /\ 3 * x \in Int /\ 2 * x \in Int
       /\ (\A d \in DOMAIN documents : documents[d] = text) => 3 * x = 0 /\ 2 * x = 0
  BY <1>8, <1>9, <1>10
<1> HIDE DEF sum
<1>13. Score(text, n, documents) \in Fractions
  BY <1>3, <1>4, <1>10, <1>12 DEF Fractions
<1>14. (\A d \in DOMAIN documents : documents[d] = text) => Score(text, n, documents)[1] = 0
  BY <1>11, <1>12
<1> QED BY <1>13, <1>14

=============================================================================
