-------------------------- MODULE ProcessingProofs --------------------------
(***************************************************************************)
(* Theorems about Processing, for any requests, any initial texts and any  *)
(* logarithms: what the classifier has learnt, what the summaries sent are *)
(* chosen from, the state of the thread, that the keywords decide texts of *)
(* two tokens, and that a text asked for again gets its topic again.       *)
(* First sums, bags and the classifier, then the invariant and its steps;  *)
(* the steps of a call of generate_summary are those of SummaryProofs.     *)
(***************************************************************************)
EXTENDS Processing, SummaryProofs

-----------------------------------------------------------------------------
(* Sums of the values of a function, over a finite set.                     *)

(* The element that the library takes first.                               *)
One(s) == CHOOSE x \in s : TRUE

SumOver(f, S) == MapThenSumSet(LAMBDA n : f[n], S)

(* sum[s] is the sum over the subset s of S, as the library computes it.    *)
SumsOf(sum, f, S) ==
  sum = [s \in SUBSET S |-> IF s = {} THEN 0 ELSE f[One(s)] + sum[s \ {One(s)}]]

(* One element less, and how many there are.                               *)
Rest(S) == [s \in SUBSET S |-> s \ {One(s)}]
Size(S) == [s \in SUBSET S |-> Cardinality(s)]

(* An element is taken out of a subset until none is left.                  *)
LEMMA SubsetsDescend ==
  ASSUME NEW S, IsFiniteSet(S)
  PROVE  /\ Descends(SUBSET S, {{}}, Rest(S), Size(S))
         /\ \A s \in SUBSET S : s # {} => One(s) \in s /\ Rest(S)[s] = s \ {One(s)}
<1>1. Rest(S) \in [SUBSET S -> SUBSET S]
  BY DEF Rest
<1>2. ASSUME NEW s \in SUBSET S PROVE IsFiniteSet(s) /\ Cardinality(s) \in Nat
  BY FS_Subset, FS_CardinalityType
<1>3. Size(S) \in [SUBSET S -> Nat]
  BY <1>2 DEF Size
<1>4. ASSUME NEW s \in SUBSET S, s # {}
      PROVE  One(s) \in s /\ Rest(S)[s] = s \ {One(s)}
  BY <1>4 DEF One, Rest
<1>5. ASSUME NEW s \in SUBSET S, s \notin {{}} PROVE Size(S)[Rest(S)[s]] < Size(S)[s]
  <2>1. IsFiniteSet(s) /\ One(s) \in s /\ Rest(S)[s] = s \ {One(s)}
    BY <1>2, <1>4, <1>5
  <2>2. Cardinality(s \ {One(s)}) = Cardinality(s) - 1 /\ Cardinality(s) \in Nat
    BY <2>1, <1>2, FS_RemoveElement
  <2>3. s \ {One(s)} \in SUBSET S
    OBVIOUS
  <2>4. Size(S)[Rest(S)[s]] = Cardinality(s \ {One(s)}) /\ Size(S)[s] = Cardinality(s)
    BY <2>1, <2>3 DEF Size
  <2> QED BY <2>2, <2>4
<1> QED BY <1>1, <1>3, <1>4, <1>5 DEF Descends

(* The sum is one of the sums over the subsets.                             *)
LEMMA SumsExist ==
  ASSUME NEW S, IsFiniteSet(S), NEW f, \A x \in S : f[x] \in Int
  PROVE  \E sum \in [SUBSET S -> Int] : SumsOf(sum, f, S) /\ SumOver(f, S) = sum[S]
<1> DEFINE base == [s \in SUBSET S |-> 0]
           step == [q \in (SUBSET S) \X Int |-> IF q[1] = {} THEN 0 ELSE f[One(q[1])] + q[2]]
<1>1. /\ Descends(SUBSET S, {{}}, Rest(S), Size(S))
      /\ \A s \in SUBSET S : s # {} => One(s) \in s /\ Rest(S)[s] = s \ {One(s)}
  BY SubsetsDescend
<1>2. base \in [SUBSET S -> Int]
  OBVIOUS
<1>3. step \in [(SUBSET S) \X Int -> Int]
  <2>1. ASSUME NEW q \in (SUBSET S) \X Int, q[1] # {} PROVE f[One(q[1])] + q[2] \in Int
    <3>1. One(q[1]) \in S /\ q[2] \in Int
      BY <2>1, <1>1
    <3> QED BY <3>1
  <2> QED BY <2>1
<1>4. PICK g \in [SUBSET S -> Int] : Follows(g, SUBSET S, {{}}, base, step, Rest(S))
  <2> HIDE DEF base, step
  <2> QED BY <1>1, <1>2, <1>3, RecursionDefines
<1>5. SumsOf(g, f, S)
  <2>1. g = [s \in SUBSET S |-> IF s \in {{}} THEN base[s] ELSE step[<<s, g[Rest(S)[s]]>>]]
    BY <1>4 DEF Follows
  <2>2. ASSUME NEW s \in SUBSET S
        PROVE  (IF s \in {{}} THEN base[s] ELSE step[<<s, g[Rest(S)[s]]>>])
                 = IF s = {} THEN 0 ELSE f[One(s)] + g[s \ {One(s)}]
    <3>1. s \ {One(s)} \in SUBSET S /\ g[s \ {One(s)}] \in Int
      OBVIOUS
    <3>2. s # {} => step[<<s, g[Rest(S)[s]]>>] = f[One(s)] + g[s \ {One(s)}]
      BY <3>1, <1>1
    <3> QED BY <3>2
  <2> HIDE DEF base, step
  <2> QED BY <2>1, <2>2 DEF SumsOf
<1> DEFINE sum == CHOOSE h : SumsOf(h, f, S)
<1>6. SumOver(f, S) = sum[S]
  BY DEF SumOver, MapThenSumSet, MapThenFoldSet, SumsOf, One
<1>7. SumsOf(sum, f, S)
  BY <1>5
<1> HIDE DEF sum
<1> DEFINE Good == {s \in SUBSET S : sum[s] \in Int}
<1>8. ASSUME NEW s \in SUBSET S, s \in {{}} \/ Rest(S)[s] \in Good PROVE s \in Good
  <2>1. sum[s] = IF s = {} THEN 0 ELSE f[One(s)] + sum[s \ {One(s)}]
    BY <1>7 DEF SumsOf
  <2>2. s # {} => f[One(s)] \in Int /\ sum[s \ {One(s)}] \in Int
    BY <1>1, <1>8
  <2> QED BY <2>1, <2>2
<1>9. \A s \in SUBSET S : s \in Good
  <2> DEFINE none == {{}}
  <2>1. /\ Descends(SUBSET S, none, Rest(S), Size(S))
        /\ \A s \in SUBSET S : s \in none \/ Rest(S)[s] \in Good => s \in Good
    BY <1>1, <1>8
  <2> HIDE DEF Good, none
  <2> QED BY <2>1, DescentInduction
<1>10. sum \in [SUBSET S -> Int]
  BY <1>7, <1>9 DEF SumsOf
<1> QED BY <1>6, <1>7, <1>10

(* The sums over the subsets do not depend on the set that they are subsets *)
(* of, and on f only inside it.                                             *)
LEMMA SumsAgree ==
  ASSUME NEW S, NEW T \in SUBSET S, IsFiniteSet(S), NEW f, NEW g, \A x \in T : f[x] = g[x],
         NEW sum, SumsOf(sum, f, S), NEW part, SumsOf(part, g, T)
  PROVE  sum[T] = part[T]
<1> DEFINE Good == {s \in SUBSET T : sum[s] = part[s]}
<1>1. /\ Descends(SUBSET T, {{}}, Rest(T), Size(T))
      /\ \A s \in SUBSET T : s # {} => One(s) \in s /\ Rest(T)[s] = s \ {One(s)}
  BY SubsetsDescend, FS_Subset
<1>2. ASSUME NEW s \in SUBSET T, s \in {{}} \/ Rest(T)[s] \in Good PROVE s \in Good
  <2>1. /\ sum[s] = IF s = {} THEN 0 ELSE f[One(s)] + sum[s \ {One(s)}]
        /\ part[s] = IF s = {} THEN 0 ELSE g[One(s)] + part[s \ {One(s)}]
    BY DEF SumsOf
  <2>2. s # {} => f[One(s)] = g[One(s)] /\ sum[s \ {One(s)}] = part[s \ {One(s)}]
    BY <1>1, <1>2
  <2> QED BY <2>1, <2>2
<1>3. \A s \in SUBSET T : s \in Good
  <2> DEFINE none == {{}}
  <2>1. /\ Descends(SUBSET T, none, Rest(T), Size(T))
        /\ \A s \in SUBSET T : s \in none \/ Rest(T)[s] \in Good => s \in Good
    BY <1>1, <1>2
  <2> HIDE DEF Good, none
  <2> QED BY <2>1, DescentInduction
<1> QED BY <1>3

(* The terms are numbers.                                                  *)
ProperSums(sum, f, S) ==
  /\ IsFiniteSet(S) /\ \A x \in S : f[x] \in Int
  /\ sum \in [SUBSET S -> Int] /\ SumsOf(sum, f, S)

(* Any element may be taken out first.                                      *)
LEMMA SumWithout ==
  ASSUME NEW S, NEW f, NEW sum, ProperSums(sum, f, S), NEW y \in S
  PROVE  sum[S] = f[y] + sum[S \ {y}]
<1>0. /\ IsFiniteSet(S) /\ \A x \in S : f[x] \in Int
      /\ sum \in [SUBSET S -> Int] /\ SumsOf(sum, f, S)
  BY DEF ProperSums
<1> DEFINE Good == {n \in Nat : \A s \in SUBSET S : Cardinality(s) = n =>
                                  \A z \in s : sum[s] = f[z] + sum[s \ {z}]}
           before == [n \in Nat |-> IF n = 0 THEN 0 ELSE n - 1]
           itself == [n \in Nat |-> n]
<1>1. ASSUME NEW n \in Nat, n \in {0} \/ before[n] \in Good,
             NEW s \in SUBSET S, Cardinality(s) = n, NEW z \in s
      PROVE  sum[s] = f[z] + sum[s \ {z}]
  <2> DEFINE x == One(s)
  <2>1. x \in s /\ sum[s] = f[x] + sum[s \ {x}]
    BY <1>0 DEF SumsOf, One
  <2>2. IsFiniteSet(s) /\ n # 0
    BY <1>0, <1>1, FS_Subset, FS_EmptySet
  <2> HIDE DEF x
  <2>3. CASE x = z
    BY <2>1, <2>3
  <2>4. CASE x # z
    <3>1. n - 1 \in Good
      BY <1>1, <2>2
    <3>2. Cardinality(s \ {x}) = n - 1 /\ Cardinality(s \ {z}) = n - 1
      BY <1>1, <2>1, <2>2, FS_RemoveElement
    <3>3. sum[s \ {x}] = f[z] + sum[(s \ {x}) \ {z}]
      BY <3>1, <3>2, <2>4
    <3>4. sum[s \ {z}] = f[x] + sum[(s \ {z}) \ {x}]
      BY <3>1, <3>2, <2>1, <2>4
    <3>5. (s \ {x}) \ {z} = (s \ {z}) \ {x}
      OBVIOUS
    <3>6. PICK r \in Int : r = sum[(s \ {x}) \ {z}]
      BY <1>0
    <3>7. sum[(s \ {z}) \ {x}] = r
      BY <3>5, <3>6
    <3>8. f[x] \in Int /\ f[z] \in Int
      BY <2>1, <1>0
    <3>9. sum[s] = f[x] + (f[z] + r) /\ sum[s \ {z}] = f[x] + r
      BY <2>1, <3>3, <3>4, <3>6, <3>7
    <3> QED BY <3>6, <3>8, <3>9
  <2> QED BY <2>3, <2>4
<1>2. ASSUME NEW n \in Nat, n \in {0} \/ before[n] \in Good PROVE n \in Good
  BY <1>1, <1>2
<1>3. Descends(Nat, {0}, before, itself)
  BY DEF Descends
<1>4. \A n \in Nat : n \in Good
  <2> HIDE DEF Good, before, itself
  <2> QED BY <1>2, <1>3, DescentInduction
<1>5. Cardinality(S) \in Nat
  BY <1>0, FS_CardinalityType
<1> QED BY <1>0, <1>4, <1>5

(* One more term.                                                           *)
LEMMA SumOfOneMore ==
  ASSUME NEW S, IsFiniteSet(S), NEW y, y \notin S, NEW f, NEW g, g[y] \in Int,
         \A x \in S : f[x] \in Int /\ g[x] = f[x]
  PROVE  SumOver(g, S \union {y}) = SumOver(f, S) + g[y] /\ SumOver(f, S) \in Int
<1> DEFINE all == S \union {y}
<1>1. IsFiniteSet(all)
  BY FS_AddElement
<1>2. \A x \in all : g[x] \in Int
  OBVIOUS
<1>3. S = all \ {y} /\ S \in SUBSET all /\ y \in all
  OBVIOUS
<1> HIDE DEF all
<1>4. PICK part \in [SUBSET S -> Int] : SumsOf(part, f, S) /\ SumOver(f, S) = part[S]
  BY SumsExist
<1>5. PICK sum \in [SUBSET all -> Int] : SumsOf(sum, g, all) /\ SumOver(g, all) = sum[all]
  BY <1>1, <1>2, SumsExist
<1>6. sum[all] = g[y] + sum[S]
  <2>1. sum[all] = g[y] + sum[all \ {y}]
    <3>1. ProperSums(sum, g, all) /\ y \in all
      BY <1>1, <1>2, <1>3, <1>5 DEF ProperSums
    <3> QED BY <3>1, SumWithout
  <2> QED BY <2>1, <1>3
<1>7. sum[S] = part[S]
  BY <1>1, <1>3, <1>4, <1>5, SumsAgree
<1>8. part[S] \in Int
  OBVIOUS
<1> QED BY <1>4, <1>5, <1>6, <1>7, <1>8 DEF all

(* Nothing sums to 0.                                                       *)
LEMMA SumOfNone ==
  ASSUME NEW f
  PROVE  SumOver(f, {}) = 0
<1>1. IsFiniteSet({})
  BY FS_EmptySet
<1>2. PICK sum \in [SUBSET {} -> Int] : SumsOf(sum, f, {}) /\ SumOver(f, {}) = sum[{}]
  BY <1>1, SumsExist
<1> QED BY <1>2 DEF SumsOf

(* Any element may be taken out of a sum.                                   *)
LEMMA SumTakesOut ==
  ASSUME NEW S, IsFiniteSet(S), NEW f, \A x \in S : f[x] \in Int, NEW y \in S
  PROVE  /\ SumOver(f, S) = f[y] + SumOver(f, S \ {y})
         /\ f[y] \in Int /\ SumOver(f, S \ {y}) \in Int /\ SumOver(f, S) \in Int
<1> DEFINE R == S \ {y}
<1>1. IsFiniteSet(R) /\ y \notin R /\ R \union {y} = S
  BY FS_RemoveElement
<1>2. f[y] \in Int /\ \A x \in R : f[x] \in Int /\ f[x] = f[x]
  OBVIOUS
<1> HIDE DEF R
<1>3. SumOver(f, R \union {y}) = SumOver(f, R) + f[y] /\ SumOver(f, R) \in Int
  BY <1>1, <1>2, SumOfOneMore
<1>4. SumOver(f, S) = SumOver(f, R) + f[y]
  BY <1>1, <1>3
<1>5. SumOver(f, S) = f[y] + SumOver(f, R)
  BY <1>2, <1>3, <1>4
<1>6. SumOver(f, S) \in Int
  BY <1>2, <1>3, <1>4
<1> QED BY <1>2, <1>3, <1>5, <1>6 DEF R

(* What holds of the sum over nothing, and of one more if without, holds.   *)
LEMMA SumInduction ==
  ASSUME NEW S, IsFiniteSet(S), NEW Good, {} \in Good,
         \A s \in SUBSET S : \A x \in s : s \ {x} \in Good => s \in Good
  PROVE  S \in Good
<1> DEFINE none == {{}}
<1>1. /\ Descends(SUBSET S, none, Rest(S), Size(S))
      /\ \A s \in SUBSET S : s # {} => One(s) \in s /\ Rest(S)[s] = s \ {One(s)}
  BY SubsetsDescend
<1>2. ASSUME NEW s \in SUBSET S, s \in none \/ Rest(S)[s] \in Good PROVE s \in Good
  BY <1>1, <1>2
<1>3. \A s \in SUBSET S : s \in Good
  <2> HIDE DEF none
  <2> QED BY <1>1, <1>2, DescentInduction
<1> QED BY <1>3

(* Sums compare as their terms do.                                          *)
LEMMA SumsCompare ==
  ASSUME NEW S, IsFiniteSet(S), NEW f, NEW g,
         \A x \in S : f[x] \in Int /\ g[x] \in Int /\ f[x] <= g[x]
  PROVE  /\ SumOver(f, S) \in Int /\ SumOver(g, S) \in Int
         /\ SumOver(f, S) <= SumOver(g, S)
<1> DEFINE Compare(s) == /\ SumOver(f, s) \in Int /\ SumOver(g, s) \in Int
                         /\ SumOver(f, s) <= SumOver(g, s)
           Good == {s \in SUBSET S : Compare(s)}
<1>1. {} \in Good
  BY SumOfNone
<1>2. ASSUME NEW s \in SUBSET S, NEW x \in s, s \ {x} \in Good PROVE s \in Good
  <2>1. IsFiniteSet(s) /\ \A z \in s : f[z] \in Int /\ g[z] \in Int
    BY FS_Subset
  <2>2. /\ SumOver(f, s) = f[x] + SumOver(f, s \ {x})
        /\ SumOver(g, s) = g[x] + SumOver(g, s \ {x})
    BY <2>1, SumTakesOut
  <2>3. Compare(s \ {x}) /\ f[x] \in Int /\ g[x] \in Int /\ f[x] <= g[x]
    BY <1>2
  <2> QED BY <2>2, <2>3
<1>3. S \in Good
  <2> HIDE DEF Good
  <2> QED BY <1>1, <1>2, SumInduction
<1> QED BY <1>3

(* A sum depends on the terms inside the set only.                          *)
LEMMA SumsSame ==
  ASSUME NEW S, IsFiniteSet(S), NEW f, NEW g, \A x \in S : f[x] \in Int /\ g[x] = f[x]
  PROVE  SumOver(g, S) = SumOver(f, S) /\ SumOver(f, S) \in Int
<1>1. \A x \in S : /\ f[x] \in Int /\ g[x] \in Int /\ f[x] <= g[x] /\ g[x] <= f[x]
  OBVIOUS
<1>2. /\ SumOver(f, S) \in Int /\ SumOver(g, S) \in Int
      /\ SumOver(f, S) <= SumOver(g, S)
  BY <1>1, SumsCompare
<1>3. SumOver(g, S) <= SumOver(f, S)
  BY <1>1, SumsCompare
<1> QED BY <1>2, <1>3

(* The sum of sums.                                                         *)
LEMMA SumsAdd ==
  ASSUME NEW S, IsFiniteSet(S), NEW f, NEW g, NEW h,
         \A x \in S : f[x] \in Int /\ g[x] \in Int /\ h[x] = f[x] + g[x]
  PROVE  SumOver(h, S) = SumOver(f, S) + SumOver(g, S)
<1> DEFINE Adds(s) == SumOver(h, s) = SumOver(f, s) + SumOver(g, s)
           Good == {s \in SUBSET S : Adds(s)}
<1>1. {} \in Good
  BY SumOfNone
<1>2. ASSUME NEW s \in SUBSET S, NEW x \in s, s \ {x} \in Good PROVE s \in Good
  <2>1. IsFiniteSet(s) /\ \A z \in s : f[z] \in Int /\ g[z] \in Int /\ h[z] \in Int
    BY FS_Subset
  <2>2. /\ SumOver(f, s) = f[x] + SumOver(f, s \ {x}) /\ SumOver(f, s \ {x}) \in Int
        /\ SumOver(g, s) = g[x] + SumOver(g, s \ {x}) /\ SumOver(g, s \ {x}) \in Int
        /\ SumOver(h, s) = h[x] + SumOver(h, s \ {x})
    BY <2>1, SumTakesOut
  <2>3. Adds(s \ {x}) /\ f[x] \in Int /\ g[x] \in Int /\ h[x] = f[x] + g[x]
    BY <1>2
  <2> QED BY <2>2, <2>3
<1>3. S \in Good
  <2> HIDE DEF Good
  <2> QED BY <1>1, <1>2, SumInduction
<1> QED BY <1>3

(* Terms that are 0 do not count.                                           *)
LEMMA SumWithZeros ==
  ASSUME NEW T, IsFiniteSet(T), NEW S, S \subseteq T, NEW f,
         \A x \in T : f[x] \in Int /\ (x \notin S => f[x] = 0)
  PROVE  SumOver(f, T) = SumOver(f, S)
<1> DEFINE Same(s) == SumOver(f, s) = SumOver(f, s \intersect S)
           Good == {s \in SUBSET T : Same(s)}
<1>1. {} \in Good
  <2>1. {} \intersect S = {}
    OBVIOUS
  <2> QED BY <2>1
<1>2. ASSUME NEW s \in SUBSET T, NEW x \in s, s \ {x} \in Good PROVE s \in Good
  <2>1. IsFiniteSet(s) /\ \A z \in s : f[z] \in Int
    BY FS_Subset
  <2>2. SumOver(f, s) = f[x] + SumOver(f, s \ {x}) /\ SumOver(f, s \ {x}) \in Int
    BY <2>1, SumTakesOut
  <2>3. SumOver(f, s \ {x}) = SumOver(f, (s \ {x}) \intersect S)
    BY <1>2
  <2>4. CASE x \in S
    <3> DEFINE q == s \intersect S
    <3>1. IsFiniteSet(q) /\ x \in q /\ \A z \in q : f[z] \in Int
      BY <2>1, <2>4, FS_Subset
    <3>2. (s \ {x}) \intersect S = q \ {x}
      OBVIOUS
    <3> HIDE DEF q
    <3>3. SumOver(f, q) = f[x] + SumOver(f, q \ {x})
      BY <3>1, SumTakesOut
    <3>4. SumOver(f, s) = SumOver(f, q)
      BY <2>2, <2>3, <3>2, <3>3
    <3> QED BY <3>4 DEF q
  <2>5. CASE x \notin S
    <3> DEFINE q == s \intersect S
    <3>1. (s \ {x}) \intersect S = q
      BY <2>5
    <3>2. f[x] = 0
      BY <2>5
    <3> HIDE DEF q
    <3>3. SumOver(f, s \ {x}) = SumOver(f, q)
      BY <2>3, <3>1
    <3>4. SumOver(f, s) = SumOver(f, q)
      BY <2>2, <3>2, <3>3
    <3> QED BY <3>4 DEF q
  <2> QED BY <2>4, <2>5
<1>3. T \in Good
  <2> HIDE DEF Good
  <2> QED BY <1>1, <1>2, SumInduction
<1>4. T \intersect S = S
  OBVIOUS
<1> QED BY <1>3, <1>4

(* How many elements there are is the sum of 1 for each.                    *)
LEMMA SumOfOnes ==
  ASSUME NEW S, IsFiniteSet(S), NEW f, \A x \in S : f[x] = 1
  PROVE  SumOver(f, S) = Cardinality(S)
<1> DEFINE Good == {s \in SUBSET S : SumOver(f, s) = Cardinality(s)}
<1>1. {} \in Good
  BY SumOfNone, FS_EmptySet
<1>2. ASSUME NEW s \in SUBSET S, NEW x \in s, s \ {x} \in Good PROVE s \in Good
  <2>1. IsFiniteSet(s) /\ \A z \in s : f[z] \in Int
    BY FS_Subset
  <2>2. SumOver(f, s) = f[x] + SumOver(f, s \ {x})
    BY <2>1, SumTakesOut
  <2>3. Cardinality(s \ {x}) = Cardinality(s) - 1 /\ Cardinality(s) \in Nat
    BY <2>1, FS_RemoveElement, FS_CardinalityType
  <2>4. SumOver(f, s \ {x}) = Cardinality(s \ {x}) /\ f[x] = 1
    BY <1>2
  <2> QED BY <2>2, <2>3, <2>4
<1>3. S \in Good
  <2> HIDE DEF Good
  <2> QED BY <1>1, <1>2, SumInduction
<1> QED BY <1>3

(* Terms of one sign have a sum of that sign.                               *)
LEMMA SumSigns ==
  ASSUME NEW S, IsFiniteSet(S), NEW f, \A x \in S : f[x] \in Int
  PROVE  /\ SumOver(f, S) \in Int
         /\ (\A x \in S : f[x] >= 0) => SumOver(f, S) >= 0
         /\ (\A x \in S : f[x] <= 0) => SumOver(f, S) <= 0
<1> DEFINE zero == [x \in S |-> 0]
<1>1. \A x \in S : zero[x] \in Int /\ zero[x] = 0
  OBVIOUS
<1> HIDE DEF zero
<1>2. SumOver(zero, S) = 0
  <2>1. SumOver(zero, S) = SumOver(zero, {})
    BY <1>1, SumWithZeros
  <2> QED BY <2>1, SumOfNone
<1>3. SumOver(f, S) \in Int
  <2>1. \A x \in S : f[x] \in Int /\ f[x] = f[x]
    OBVIOUS
  <2> QED BY <2>1, SumsSame
<1>4. ASSUME \A x \in S : f[x] >= 0 PROVE SumOver(f, S) >= 0
  <2>1. \A x \in S : zero[x] \in Int /\ f[x] \in Int /\ zero[x] <= f[x]
    BY <1>1, <1>4
  <2>2. SumOver(zero, S) <= SumOver(f, S)
    BY <2>1, SumsCompare
  <2> QED BY <2>2, <1>2, <1>3
<1>5. ASSUME \A x \in S : f[x] <= 0 PROVE SumOver(f, S) <= 0
  <2>1. \A x \in S : zero[x] \in Int /\ f[x] \in Int /\ f[x] <= zero[x]
    BY <1>1, <1>5
  <2>2. SumOver(f, S) <= SumOver(zero, S)
    BY <2>1, SumsCompare
  <2> QED BY <2>2, <1>2, <1>3
<1> QED BY <1>3, <1>4, <1>5

(* One term, and two, of a sum whose other terms have the same sign.        *)
LEMMA TermsOfSum ==
  ASSUME NEW S, IsFiniteSet(S), NEW f, \A x \in S : f[x] \in Int
  PROVE  /\ (\A x \in S : f[x] >= 0) =>
              /\ \A t \in S : f[t] <= SumOver(f, S)
              /\ \A t, u \in S : t # u => f[t] + f[u] <= SumOver(f, S)
         /\ (\A x \in S : f[x] <= 0) =>
              \A t, u \in S : t # u => SumOver(f, S) <= f[t] + f[u]
<1>1. ASSUME NEW t \in S
      PROVE  /\ SumOver(f, S) = f[t] + SumOver(f, S \ {t}) /\ f[t] \in Int
             /\ IsFiniteSet(S \ {t})
             /\ SumOver(f, S \ {t}) \in Int
             /\ (\A x \in S : f[x] >= 0) => SumOver(f, S \ {t}) >= 0
  <2>1. SumOver(f, S) = f[t] + SumOver(f, S \ {t}) /\ f[t] \in Int
    BY SumTakesOut
  <2>2. IsFiniteSet(S \ {t}) /\ \A x \in S \ {t} : f[x] \in Int
    BY FS_RemoveElement
  <2> QED BY <2>1, <2>2, SumSigns
<1>2. ASSUME NEW t \in S, NEW u \in S, t # u
      PROVE  \E r \in Int : /\ SumOver(f, S) = f[t] + (f[u] + r)
                            /\ f[t] \in Int /\ f[u] \in Int
                            /\ (\A x \in S : f[x] >= 0) => r >= 0
                            /\ (\A x \in S : f[x] <= 0) => r <= 0
  <2> DEFINE R == S \ {t}
             Q == R \ {u}
  <2>1. SumOver(f, S) = f[t] + SumOver(f, R) /\ f[t] \in Int /\ IsFiniteSet(R)
    BY <1>1
  <2>2. u \in R /\ \A x \in R : f[x] \in Int
    BY <1>2
  <2>3. \A x \in Q : x \in S /\ f[x] \in Int
    OBVIOUS
  <2> HIDE DEF R
  <2>4. SumOver(f, R) = f[u] + SumOver(f, Q) /\ f[u] \in Int
    BY <2>1, <2>2, SumTakesOut
  <2>5. IsFiniteSet(Q)
    BY <2>1, FS_RemoveElement
  <2> HIDE DEF Q
  <2>6. /\ SumOver(f, Q) \in Int
        /\ (\A x \in Q : f[x] >= 0) => SumOver(f, Q) >= 0
        /\ (\A x \in Q : f[x] <= 0) => SumOver(f, Q) <= 0
    BY <2>3, <2>5, SumSigns
  <2>7. /\ SumOver(f, S) = f[t] + (f[u] + SumOver(f, Q))
        /\ f[t] \in Int /\ f[u] \in Int
    BY <2>1, <2>4
  <2>8. /\ (\A x \in S : f[x] >= 0) => SumOver(f, Q) >= 0
        /\ (\A x \in S : f[x] <= 0) => SumOver(f, Q) <= 0
    BY <2>3, <2>6
  <2>9. PICK r \in Int : r = SumOver(f, Q)
    BY <2>6
  <2>10. /\ SumOver(f, S) = f[t] + (f[u] + r) /\ f[t] \in Int /\ f[u] \in Int
         /\ (\A x \in S : f[x] >= 0) => r >= 0
         /\ (\A x \in S : f[x] <= 0) => r <= 0
    BY <2>7, <2>8, <2>9
  <2> QED BY <2>9, <2>10
<1>3. ASSUME \A x \in S : f[x] >= 0, NEW t \in S PROVE f[t] <= SumOver(f, S)
  <2>1. /\ SumOver(f, S) = f[t] + SumOver(f, S \ {t}) /\ f[t] \in Int
        /\ SumOver(f, S \ {t}) \in Int
    BY <1>1
  <2>2. SumOver(f, S \ {t}) >= 0
    BY <1>1, <1>3
  <2> QED BY <2>1, <2>2
<1>4. ASSUME \A x \in S : f[x] >= 0, NEW t \in S, NEW u \in S, t # u
      PROVE  f[t] + f[u] <= SumOver(f, S)
  <2>1. PICK r \in Int : /\ SumOver(f, S) = f[t] + (f[u] + r)
                         /\ f[t] \in Int /\ f[u] \in Int /\ r >= 0
    BY <1>2, <1>4
  <2> QED BY <2>1
<1>5. ASSUME \A x \in S : f[x] <= 0, NEW t \in S, NEW u \in S, t # u
      PROVE  SumOver(f, S) <= f[t] + f[u]
  <2>1. PICK r \in Int : /\ SumOver(f, S) = f[t] + (f[u] + r)
                         /\ f[t] \in Int /\ f[u] \in Int /\ r <= 0
    BY <1>2, <1>5
  <2> QED BY <2>1
<1> QED BY <1>3, <1>4, <1>5

-----------------------------------------------------------------------------
(* Numbered texts, and how often a token is in all of them.                 *)

TextMap(f) ==
  /\ IsFiniteSet(DOMAIN f)
  /\ \A n \in DOMAIN f : f[n] \in Seq(Chars)

(* g is f with one more text. *)
OneMoreText(f, g, y, text) ==
  /\ y \notin DOMAIN f /\ DOMAIN g = DOMAIN f \union {y}
  /\ g[y] = text
  /\ \A n \in DOMAIN f : g[n] = f[n]

(* A token is in a text a number of times.                                  *)
LEMMA TokensAreABag ==
  ASSUME NEW text \in Seq(Chars)
  PROVE  /\ IsABag(tokenize_text(text))
         /\ \A t : Copies(t, tokenize_text(text)) \in Nat
<1> DEFINE tokens == tokenize_text(text)
<1>1. \A t \in DOMAIN tokens : tokens[t] \in Nat /\ tokens[t] > 0
  BY TokenCounts
<1>2. tokens = [t \in DOMAIN tokens |-> tokens[t]]
  BY DEF tokenize_text
<1> HIDE DEF tokens
<1>3. IsABag(tokens)
  BY <1>1, <1>2 DEF IsABag
<1>4. \A t : Copies(t, tokens) \in Nat
  BY <1>1 DEF Copies
<1> QED BY <1>3, <1>4 DEF tokens

(* The union of two bags has the copies of both.                            *)
LEMMA CopiesOfBoth ==
  ASSUME NEW a, NEW b, IsABag(a), IsABag(b)
  PROVE  /\ IsABag(a (+) b)
         /\ \A t : Copies(t, a (+) b) = Copies(t, a) + Copies(t, b)
<1> DEFINE both == a (+) b
<1>1. /\ \A t \in DOMAIN a : a[t] \in Nat /\ a[t] > 0
      /\ \A t \in DOMAIN b : b[t] \in Nat /\ b[t] > 0
  BY DEF IsABag
<1>2. both = [t \in DOMAIN a \union DOMAIN b |-> Copies(t, a) + Copies(t, b)]
  BY DEF Copies, (+)
<1> HIDE DEF both
<1>3. ASSUME NEW t PROVE Copies(t, a) \in Nat /\ Copies(t, b) \in Nat
  BY <1>1 DEF Copies
<1>4. ASSUME NEW t \in DOMAIN a \union DOMAIN b
      PROVE  Copies(t, a) + Copies(t, b) \in Nat /\ Copies(t, a) + Copies(t, b) > 0
  <2>1. Copies(t, a) > 0 \/ Copies(t, b) > 0
    BY <1>1, <1>4 DEF Copies
  <2> QED BY <2>1, <1>3
<1>5. IsABag(both)
  BY <1>2, <1>4 DEF IsABag
<1>6. ASSUME NEW t PROVE Copies(t, both) = Copies(t, a) + Copies(t, b)
  <2>1. CASE t \in DOMAIN a \union DOMAIN b
    BY <2>1, <1>2 DEF Copies
  <2>2. CASE t \notin DOMAIN a \union DOMAIN b
    BY <2>2, <1>2 DEF Copies
  <2> QED BY <2>1, <2>2
<1> QED BY <1>5, <1>6 DEF both

(* One more text adds its copies.                                           *)
LEMMA CopiesOfOneMore ==
  ASSUME NEW f, TextMap(f), NEW g, NEW y, NEW text \in Seq(Chars), OneMoreText(f, g, y, text)
  PROVE  /\ TextMap(g)
         /\ Cardinality(DOMAIN f) \in Nat
         /\ Cardinality(DOMAIN g) = Cardinality(DOMAIN f) + 1
         /\ \A t : /\ CopiesInAll(t, f) \in Int
                   /\ CopiesInAll(t, g) = CopiesInAll(t, f) + Copies(t, tokenize_text(text))
<1>1. /\ IsFiniteSet(DOMAIN f) /\ y \notin DOMAIN f /\ DOMAIN g = DOMAIN f \union {y}
      /\ g[y] = text /\ \A n \in DOMAIN f : g[n] = f[n] /\ f[n] \in Seq(Chars)
  BY DEF TextMap, OneMoreText
<1>2. TextMap(g)
  BY <1>1, FS_AddElement DEF TextMap
<1>3. Cardinality(DOMAIN f) \in Nat /\ Cardinality(DOMAIN g) = Cardinality(DOMAIN f) + 1
  BY <1>1, FS_AddElement, FS_CardinalityType
<1>4. ASSUME NEW t
      PROVE  /\ CopiesInAll(t, f) \in Int
             /\ CopiesInAll(t, g) = CopiesInAll(t, f) + Copies(t, tokenize_text(text))
  <2> DEFINE F == [n \in DOMAIN f |-> Copies(t, tokenize_text(f[n]))]
             G == [n \in DOMAIN g |-> Copies(t, tokenize_text(g[n]))]
  <2>1. CopiesInAll(t, f) = SumOver(F, DOMAIN f)
    BY DEF CopiesInAll, Total, SumOver
  <2>2. CopiesInAll(t, g) = SumOver(G, DOMAIN f \union {y})
    BY <1>1 DEF CopiesInAll, Total, SumOver
  <2>3. \A n \in DOMAIN f : F[n] \in Int /\ G[n] = F[n]
    BY <1>1, TokensAreABag
  <2>4. G[y] = Copies(t, tokenize_text(text)) /\ G[y] \in Int
    BY <1>1, TokensAreABag
  <2> HIDE DEF F, G
  <2>5. /\ SumOver(G, DOMAIN f \union {y}) = SumOver(F, DOMAIN f) + G[y]
        /\ SumOver(F, DOMAIN f) \in Int
    BY <1>1, <2>3, <2>4, SumOfOneMore
  <2> QED BY <2>1, <2>2, <2>4, <2>5
<1> QED BY <1>2, <1>3, <1>4

(* No text has no copies.                                                   *)
LEMMA CopiesOfNone ==
  ASSUME NEW f, DOMAIN f = {}
  PROVE  TextMap(f) /\ Cardinality(DOMAIN f) = 0 /\ \A t : CopiesInAll(t, f) = 0
<1>1. TextMap(f) /\ Cardinality(DOMAIN f) = 0
  BY FS_EmptySet DEF TextMap
<1>2. ASSUME NEW t PROVE CopiesInAll(t, f) = 0
  <2> DEFINE F == [n \in DOMAIN f |-> Copies(t, tokenize_text(f[n]))]
  <2>1. CopiesInAll(t, f) = SumOver(F, DOMAIN f)
    BY DEF CopiesInAll, Total, SumOver
  <2> HIDE DEF F
  <2> QED BY <2>1, SumOfNone
<1> QED BY <1>1, <1>2

-----------------------------------------------------------------------------
(* How many words a bag has.                                                *)

FiniteBag(a) == IsABag(a) /\ IsFiniteSet(DOMAIN a)

(* No token, and no two tokens, have more copies than there are words, of   *)
(* which each token has one at least.                                       *)
LEMMA WordsTotal ==
  ASSUME NEW a, FiniteBag(a)
  PROVE  /\ Total(a) \in Nat /\ Cardinality(DOMAIN a) \in Nat
         /\ Cardinality(DOMAIN a) <= Total(a)
         /\ DOMAIN a # {} => Cardinality(DOMAIN a) >= 1
         /\ \A t : Copies(t, a) \in Nat /\ Copies(t, a) <= Total(a)
         /\ \A t, u : t # u => Copies(t, a) + Copies(u, a) <= Total(a)
<1> DEFINE S == DOMAIN a
<1>1. IsFiniteSet(S) /\ \A t \in S : a[t] \in Nat /\ a[t] > 0
  BY DEF FiniteBag, IsABag
<1>2. Total(a) = SumOver(a, S)
  BY DEF Total, SumOver
<1>3. \A t : Copies(t, a) = IF t \in S THEN a[t] ELSE 0
  BY DEF Copies
<1> HIDE DEF S
<1>4. \A t \in S : a[t] \in Int /\ a[t] >= 0 /\ a[t] >= 1
  BY <1>1
<1>5. Total(a) \in Int /\ Total(a) >= 0
  BY <1>1, <1>2, <1>4, SumSigns
<1>6. Cardinality(S) \in Nat /\ (S # {} => Cardinality(S) # 0)
  BY <1>1, FS_CardinalityType, FS_EmptySet
<1>7. Cardinality(S) <= Total(a)
  <2> DEFINE ones == [t \in S |-> 1]
  <2>1. \A t \in S : ones[t] = 1
    OBVIOUS
  <2> HIDE DEF ones
  <2>2. SumOver(ones, S) = Cardinality(S)
    BY <1>1, <2>1, SumOfOnes
  <2>3. \A t \in S : ones[t] \in Int /\ a[t] \in Int /\ ones[t] <= a[t]
    BY <1>4, <2>1
  <2>4. SumOver(ones, S) <= SumOver(a, S)
    BY <1>1, <2>3, SumsCompare
  <2> QED BY <2>2, <2>4, <1>2
<1>8. /\ \A t \in S : a[t] <= Total(a)
      /\ \A t, u \in S : t # u => a[t] + a[u] <= Total(a)
  BY <1>1, <1>2, <1>4, TermsOfSum
<1>9. \A t : Copies(t, a) \in Nat /\ Copies(t, a) <= Total(a)
  BY <1>1, <1>3, <1>5, <1>8
<1>10. ASSUME NEW t, NEW u, t # u PROVE Copies(t, a) + Copies(u, a) <= Total(a)
  <2>1. CASE t \in S /\ u \in S
    BY <2>1, <1>3, <1>8, <1>10
  <2>2. CASE t \notin S \/ u \notin S
    <3>1. Copies(t, a) = 0 \/ Copies(u, a) = 0
      BY <2>2, <1>3
    <3> QED BY <3>1, <1>5, <1>9
  <2> QED BY <2>1, <2>2
<1> QED BY <1>5, <1>6, <1>7, <1>9, <1>10 DEF S

(* Two bags together have the words of both.                                *)
LEMMA WordsOfBoth ==
  ASSUME NEW a, NEW b, FiniteBag(a), FiniteBag(b)
  PROVE  /\ FiniteBag(a (+) b) /\ DOMAIN (a (+) b) = DOMAIN a \union DOMAIN b
         /\ Total(a (+) b) = Total(a) + Total(b)
<1> DEFINE U == DOMAIN a \union DOMAIN b
           both == a (+) b
           ofA == [t \in U |-> Copies(t, a)]
           ofB == [t \in U |-> Copies(t, b)]
<1>1. both = [t \in U |-> Copies(t, a) + Copies(t, b)]
  BY DEF Copies, (+)
<1>2. IsABag(both)
  BY CopiesOfBoth DEF FiniteBag
<1>3. IsFiniteSet(U)
  BY FS_Union DEF FiniteBag
<1>4. \A t \in U : Copies(t, a) \in Int /\ Copies(t, b) \in Int
  BY WordsTotal
<1>5. DOMAIN both = U /\ \A t \in U : both[t] = ofA[t] + ofB[t]
  BY <1>1
<1>6. \A t \in U : ofA[t] \in Int /\ ofB[t] \in Int
  BY <1>4
<1>7. /\ \A t \in U : t \notin DOMAIN a => ofA[t] = 0
      /\ \A t \in DOMAIN a : ofA[t] = a[t] /\ t \in U
      /\ \A t \in U : t \notin DOMAIN b => ofB[t] = 0
      /\ \A t \in DOMAIN b : ofB[t] = b[t] /\ t \in U
  BY DEF Copies
<1>8. DOMAIN a \subseteq U /\ DOMAIN b \subseteq U
  OBVIOUS
<1> HIDE DEF both, ofA, ofB, U
<1>9. SumOver(both, U) = SumOver(ofA, U) + SumOver(ofB, U)
  BY <1>3, <1>5, <1>6, SumsAdd
<1>10. SumOver(ofA, U) = SumOver(a, DOMAIN a)
  <2>1. SumOver(ofA, U) = SumOver(ofA, DOMAIN a)
    BY <1>3, <1>6, <1>7, <1>8, SumWithZeros
  <2>2. \A t \in DOMAIN a : a[t] \in Int /\ ofA[t] = a[t]
    BY <1>6, <1>7
  <2>3. SumOver(ofA, DOMAIN a) = SumOver(a, DOMAIN a)
    BY <2>2, SumsSame DEF FiniteBag
  <2> QED BY <2>1, <2>3
<1>11. SumOver(ofB, U) = SumOver(b, DOMAIN b)
  <2>1. SumOver(ofB, U) = SumOver(ofB, DOMAIN b)
    BY <1>3, <1>6, <1>7, <1>8, SumWithZeros
  <2>2. \A t \in DOMAIN b : b[t] \in Int /\ ofB[t] = b[t]
    BY <1>6, <1>7
  <2>3. SumOver(ofB, DOMAIN b) = SumOver(b, DOMAIN b)
    BY <2>2, SumsSame DEF FiniteBag
  <2> QED BY <2>1, <2>3
<1>12. /\ Total(both) = SumOver(both, U) /\ Total(a) = SumOver(a, DOMAIN a)
       /\ Total(b) = SumOver(b, DOMAIN b)
  BY <1>5 DEF Total, SumOver
<1>13. Total(both) = Total(a) + Total(b)
  BY <1>9, <1>10, <1>11, <1>12
<1>14. FiniteBag(both) /\ DOMAIN both = U
  BY <1>2, <1>3, <1>5 DEF FiniteBag
<1> QED BY <1>13, <1>14 DEF both, U

-----------------------------------------------------------------------------
(* Logarithms, as far as the table reaches.                                 *)

(* The table grows.                                                         *)
LEMMA LogsGrow ==
  ASSUME NEW R \in Nat, 1 .. R \subseteq DOMAIN Ln, NEW m \in 1 .. R, NEW n \in 1 .. R, m <= n
  PROVE  Ln[m] \in Int /\ Ln[n] \in Int /\ Ln[m] <= Ln[n]
<1>1. m \in DOMAIN Ln /\ n \in DOMAIN Ln
  OBVIOUS
<1>2. Ln[m] \in Int /\ Ln[n] \in Int /\ (m < n => Ln[m] < Ln[n])
  BY <1>1, TextAssumption
<1>3. CASE m < n
  BY <1>2, <1>3
<1>4. CASE m = n
  BY <1>2, <1>4
<1> QED BY <1>2, <1>3, <1>4

LEMMA UnitIsNat == Unit \in Nat
BY ClassifierAssumption

(* A fraction grows if the same is added to both its parts.                 *)
LEMMA LogsFlatten ==
  ASSUME NEW R \in Nat, 1 .. R \subseteq DOMAIN Ln,
         NEW a \in 1 .. R, NEW b \in 1 .. R, a <= b, NEW k \in Nat, b + k <= R
  PROVE  /\ Ln[a] \in Int /\ Ln[b] \in Int /\ Ln[a + k] \in Int /\ Ln[b + k] \in Int
         /\ Ln[a] - Ln[b] <= Ln[a + k] - Ln[b + k]
<1>1. a \in 1 .. R /\ b \in 1 .. R /\ a + k \in 1 .. R /\ b + k \in 1 .. R
  OBVIOUS
<1>2. \A n \in 1 .. R : n \in DOMAIN Ln /\ Ln[n] \in Int
  BY TextAssumption
<1>3. b + k \in DOMAIN Ln /\ a + ((b + k) - b) = a + k /\ b <= b + k /\ 0 < a
  BY <1>1, <1>2
<1>4. Ln[a] - Ln[b] <= Ln[a + ((b + k) - b)] - Ln[b + k]
  BY <1>1, <1>2, <1>3, ClassifierAssumption
<1> QED BY <1>1, <1>2, <1>3, <1>4

(* No token is certain in a domain, and two tokens have at most a           *)
(* probability of a quarter together.                                       *)
LEMMA TwoAreUnlikely ==
  ASSUME NEW words, FiniteBag(words), DOMAIN words # {},
         NEW R \in Nat, 1 .. R \subseteq DOMAIN Ln,
         Total(words) + Cardinality(DOMAIN words) + 1 <= R
  PROVE  /\ \A t : LnConditional(t, words) \in Int /\ LnConditional(t, words) <= 0
         /\ \A t, u : t # u => LnConditional(t, words) + LnConditional(u, words) <= -Unit
<1> DEFINE n == Total(words) + Cardinality(DOMAIN words) + 1
           k(t) == Copies(t, words) + 1
<1>1. /\ Total(words) \in Nat /\ Cardinality(DOMAIN words) \in Nat
      /\ Cardinality(DOMAIN words) >= 1
      /\ \A t : Copies(t, words) \in Nat /\ Copies(t, words) <= Total(words)
      /\ \A t, u : t # u => Copies(t, words) + Copies(u, words) <= Total(words)
  BY WordsTotal
<1>2. \A t : LnConditional(t, words) = Ln[k(t)] - Ln[n]
  BY DEF LnConditional
<1>3. n \in 1 .. R /\ \A t : k(t) \in 1 .. R /\ k(t) <= n
  BY <1>1
<1>4. \A t, u : t # u => k(t) + k(u) <= n
  BY <1>1
<1> HIDE DEF n, k
<1>5. ASSUME NEW t PROVE Ln[k(t)] \in Int /\ Ln[n] \in Int /\ Ln[k(t)] <= Ln[n]
  BY <1>3, LogsGrow
<1>6. ASSUME NEW t, NEW u, t # u PROVE Ln[k(t)] + Ln[k(u)] <= 2 * Ln[n] - Unit
  <2>1. /\ k(t) \in DOMAIN Ln /\ k(u) \in DOMAIN Ln /\ n \in DOMAIN Ln
        /\ k(t) > 0 /\ k(u) > 0
    BY <1>3
  <2> QED BY <2>1, <1>4, <1>6, ClassifierAssumption
<1>7. ASSUME NEW t PROVE LnConditional(t, words) \in Int /\ LnConditional(t, words) <= 0
  BY <1>2, <1>5
<1>8. ASSUME NEW t, NEW u, t # u
      PROVE  LnConditional(t, words) + LnConditional(u, words) <= -Unit
  BY <1>2, <1>5, <1>6, <1>8, UnitIsNat
<1> QED BY <1>7, <1>8

(* A set of more than one has two.                                          *)
LEMMA TwoDiffer ==
  ASSUME NEW S, IsFiniteSet(S), Cardinality(S) > 1
  PROVE  \E t, u \in S : t # u
<1>1. PICK t \in S : TRUE
  BY FS_EmptySet
<1>2. IsFiniteSet(S \ {t}) /\ Cardinality(S \ {t}) = Cardinality(S) - 1 /\ Cardinality(S) \in Nat
  BY <1>1, FS_RemoveElement, FS_CardinalityType
<1>3. S \ {t} # {}
  BY <1>2, FS_EmptySet
<1> QED BY <1>1, <1>3

(* A domain is not likely enough for a text of two tokens.                  *)
LEMMA TextIsUnlikely ==
  ASSUME NEW c, NEW d, NEW text \in Seq(Chars), Cardinality(DOMAIN tokenize_text(text)) > 1,
         FiniteBag(c[d].word_counts), DOMAIN c[d].word_counts # {},
         NEW R \in Nat, 1 .. R \subseteq DOMAIN Ln,
         Total(c[d].word_counts) + Cardinality(DOMAIN c[d].word_counts) + 1 <= R,
         c[d].document_count \in 1 .. R, total_documents(c) \in 1 .. R,
         c[d].document_count <= total_documents(c)
  PROVE  LnProbability(c, text, d) \in Int /\ LnProbability(c, text, d) <= -Unit
<1> DEFINE words == c[d].word_counts
           tokens == tokenize_text(text)
           terms == [t \in DOMAIN tokens |-> tokens[t] * LnConditional(t, words)]
           prior == Ln[c[d].document_count] - Ln[total_documents(c)]
<1>1. LnProbability(c, text, d) = prior + SumOver(terms, DOMAIN tokens)
  <2>1. DOMAIN terms = DOMAIN tokens
    OBVIOUS
  <2>2. LnProbability(c, text, d) = prior + Total(terms)
    BY DEF LnProbability
  <2> HIDE DEF terms, prior, tokens
  <2> QED BY <2>1, <2>2 DEF Total, SumOver
<1>2. prior \in Int /\ prior <= 0
  BY LogsGrow
<1>3. /\ \A t : LnConditional(t, words) \in Int /\ LnConditional(t, words) <= 0
      /\ \A t, u : t # u => LnConditional(t, words) + LnConditional(u, words) <= -Unit
  BY TwoAreUnlikely
<1>4. /\ IsFiniteSet(DOMAIN tokens)
      /\ \A t \in DOMAIN tokens : tokens[t] \in Nat /\ tokens[t] > 0
  BY TokenCounts
<1> HIDE DEF words, prior
<1>5. ASSUME NEW t \in DOMAIN tokens
      PROVE  terms[t] \in Int /\ terms[t] <= 0 /\ terms[t] <= LnConditional(t, words)
  <2>1. terms[t] = tokens[t] * LnConditional(t, words)
    OBVIOUS
  <2> HIDE DEF terms, tokens
  <2>2. PICK n \in Nat : n = tokens[t] /\ n > 0
    BY <1>4
  <2>3. PICK x \in Int : x = LnConditional(t, words) /\ x <= 0
    BY <1>3
  <2>4. n * x \in Int /\ n * x <= x
    BY <2>2, <2>3
  <2> QED BY <2>1, <2>2, <2>3, <2>4
<1>6. PICK t \in DOMAIN tokens, u \in DOMAIN tokens : t # u
  BY <1>4, TwoDiffer
<1> HIDE DEF terms, tokens
<1>7. SumOver(terms, DOMAIN tokens) \in Int
  BY <1>4, <1>5, SumSigns
<1>8. SumOver(terms, DOMAIN tokens) <= terms[t] + terms[u]
  BY <1>4, <1>5, <1>6, TermsOfSum
<1>9. terms[t] + terms[u] <= -Unit
  <2>1. LnConditional(t, words) + LnConditional(u, words) <= -Unit
    BY <1>3, <1>6
  <2> QED BY <2>1, <1>3, <1>5, UnitIsNat
<1> QED BY <1>1, <1>2, <1>5, <1>7, <1>8, <1>9, UnitIsNat

-----------------------------------------------------------------------------
(* The classifier.                                                          *)

(* What domain d of a classifier has learnt: the initial and the taught.    *)
HasLearnt(c, d, initial, taught) ==
  /\ c[d].document_count = Cardinality(DOMAIN initial) + Cardinality(DOMAIN taught)
  /\ IsABag(c[d].word_counts)
  /\ \A t : Copies(t, c[d].word_counts) = CopiesInAll(t, initial) + CopiesInAll(t, taught)

(* Training changes the domain that it is for.                              *)
LEMMA TrainingIs ==
  ASSUME NEW c, DOMAIN c = ToSet(Domains), NEW text, NEW domain,
         NEW d \in ToSet(Domains)
  PROVE  LET c2 == train_bayes_classifier(c, text, domain) IN
           /\ DOMAIN c2 = ToSet(Domains)
           /\ d # domain => c2[d] = c[d]
           /\ d = domain =>
                /\ c2[d].document_count = c[d].document_count + 1
                /\ c2[d].word_counts = c[d].word_counts (+) tokenize_text(text)
BY DEF train_bayes_classifier

(* The domains are different, and none is unknown.                          *)
LEMMA DomainsAreListed ==
  /\ Len(Domains) \in Nat /\ DOMAIN Domains = 1 .. Len(Domains)
  /\ \A m, n \in 1 .. Len(Domains) : Domains[m] = Domains[n] => m = n
  /\ \A n \in 1 .. Len(Domains) : Domains[n] \in ToSet(Domains) /\ Domains[n] # Unknown
<1>1. Domains \in Seq(STRING)
  BY ClassifierAssumption
<1>2. Len(Domains) \in Nat /\ DOMAIN Domains = 1 .. Len(Domains)
  BY <1>1
<1>3. \A m, n \in DOMAIN Domains : Domains[m] = Domains[n] => m = n
  BY ClassifierAssumption DEF IsInjective
<1>4. \A n \in DOMAIN Domains : Domains[n] \in ToSet(Domains)
  BY DEF ToSet
<1> QED BY <1>2, <1>3, <1>4, ClassifierAssumption

(* One turn of the loop over the domains.                                   *)
Turned(value, n, before) ==
  IF value[n] > before.value THEN [domain |-> Domains[n], value |-> value[n]] ELSE before

(* What holds before the loop, and after a turn if before it, holds at the  *)
(* end: V[n] is what best can be after n turns.                             *)
LEMMA FirstLargestIn ==
  ASSUME NEW value, NEW floor, NEW V, [domain |-> Unknown, value |-> floor] \in V[0],
         \A n \in 1 .. Len(Domains) : \A before \in V[n - 1] : Turned(value, n, before) \in V[n]
  PROVE  \E b \in V[Len(Domains)] : FirstLargest(value, floor) = b.domain
<1> DEFINE L == Len(Domains)
           none == [domain |-> Unknown, value |-> floor]
           W == {none} \union {[domain |-> Domains[n], value |-> value[n]] : n \in 1 .. L}
           Equation(f) == f = [n \in 0 .. L |-> IF n = 0 THEN none ELSE Turned(value, n, f[n - 1])]
           Ends == {0}
           base == [n \in 0 .. L |-> none]
           step == [q \in (0 .. L) \X W |-> IF q[1] = 0 THEN none ELSE Turned(value, q[1], q[2])]
           next == [n \in 0 .. L |-> IF n = 0 THEN 0 ELSE n - 1]
           rank == [n \in 0 .. L |-> n]
<1>1. L \in Nat
  BY DomainsAreListed
<1>2. none \in W
  OBVIOUS
<1>3. ASSUME NEW n \in 1 .. L, NEW before \in W PROVE Turned(value, n, before) \in W
  BY DEF Turned
<1>4. Descends(0 .. L, Ends, next, rank)
  <2> HIDE DEF L
  <2> QED BY <1>1 DEF Descends
<1> HIDE DEF W
<1>5. base \in [0 .. L -> W] /\ step \in [(0 .. L) \X W -> W]
  <2> HIDE DEF none, L
  <2>1. ASSUME NEW q \in (0 .. L) \X W PROVE (IF q[1] = 0 THEN none ELSE Turned(value, q[1], q[2])) \in W
    <3>1. q[1] # 0 => q[1] \in 1 .. L /\ q[2] \in W
      BY <1>1
    <3> QED BY <3>1, <1>2, <1>3
  <2> QED BY <2>1, <1>2
<1>6. PICK f \in [0 .. L -> W] : Follows(f, 0 .. L, Ends, base, step, next)
  <2> HIDE DEF Ends, base, step, next, rank, L
  <2> QED BY <1>4, <1>5, RecursionDefines
<1>7. Equation(f)
  <2> HIDE DEF none, L
  <2>1. f = [n \in 0 .. L |-> IF n \in Ends THEN base[n] ELSE step[<<n, f[next[n]]>>]]
    BY <1>6 DEF Follows
  <2>2. ASSUME NEW n \in 0 .. L
        PROVE  (IF n \in Ends THEN base[n] ELSE step[<<n, f[next[n]]>>])
                 = IF n = 0 THEN none ELSE Turned(value, n, f[n - 1])
    <3>1. CASE n = 0
      BY <3>1
    <3>2. CASE n # 0
      <4>1. n - 1 \in 0 .. L /\ next[n] = n - 1
        BY <3>2, <1>1
      <4>2. f[n - 1] \in W
        BY <4>1
      <4>3. step[<<n, f[n - 1]>>] = Turned(value, n, f[n - 1])
        BY <4>2, <3>2
      <4> HIDE DEF step, next
      <4> QED BY <4>1, <4>3, <3>2
    <3> QED BY <3>1, <3>2
  <2> HIDE DEF Ends, base, step, next
  <2> QED BY <2>1, <2>2
<1> DEFINE best == CHOOSE g : Equation(g)
<1>8. FirstLargest(value, floor) = best[L].domain
  BY DEF FirstLargest, Turned
<1>9. Equation(best)
  <2> HIDE DEF Equation
  <2> QED BY <1>7
<1> HIDE DEF best
<1>10. \A n \in 0 .. L : best[n] = IF n = 0 THEN none ELSE Turned(value, n, best[n - 1])
  <2> HIDE DEF none, L
  <2> QED BY <1>9
<1> DEFINE Good == {n \in 0 .. L : best[n] \in V[n]}
<1>11. ASSUME NEW n \in 0 .. L, n \in Ends \/ next[n] \in Good PROVE n \in Good
  <2>1. CASE n = 0
    <3>1. none \in V[0]
      OBVIOUS
    <3> HIDE DEF none, L
    <3> QED BY <2>1, <3>1, <1>10
  <2>2. CASE n # 0
    <3>0. \A m \in 1 .. L : \A before \in V[m - 1] : Turned(value, m, before) \in V[m]
      OBVIOUS
    <3> HIDE DEF none, L
    <3>1. n \in 1 .. L /\ n - 1 \in 0 .. L /\ next[n] = n - 1
      BY <2>2, <1>1
    <3>2. best[n - 1] \in V[n - 1]
      BY <3>1, <2>2, <1>11
    <3> QED BY <3>0, <3>1, <3>2, <2>2, <1>10
  <2> QED BY <2>1, <2>2
<1>12. \A n \in 0 .. L : n \in Good
  <2> DEFINE D == 0 .. L
  <2>1. Descends(D, Ends, next, rank) /\ \A n \in D : n \in Ends \/ next[n] \in Good => n \in Good
    BY <1>4, <1>11
  <2> HIDE DEF Ends, next, rank, Good, D
  <2>2. \A n \in D : n \in Good
    BY <2>1, DescentInduction
  <2> QED BY <2>2 DEF D
<1>13. best[L] \in V[L]
  <2>1. L \in 0 .. L
    BY <1>1
  <2> HIDE DEF L
  <2> QED BY <2>1, <1>12
<1> QED BY <1>8, <1>13

(* What the loop over the domains keeps is one of them or unknown.          *)
LEMMA FirstLargestIs ==
  ASSUME NEW value, NEW floor
  PROVE  FirstLargest(value, floor) \in ToSet(Domains) \union {Unknown}
<1> DEFINE W == [domain : ToSet(Domains) \union {Unknown},
                 value : {floor} \union {value[n] : n \in 1 .. Len(Domains)}]
           V == [n \in 0 .. Len(Domains) |-> W]
<1>1. \A n \in 1 .. Len(Domains) : Domains[n] \in ToSet(Domains)
  BY DomainsAreListed
<1>2. [domain |-> Unknown, value |-> floor] \in W
  OBVIOUS
<1>3. ASSUME NEW n \in 1 .. Len(Domains), NEW before \in W PROVE Turned(value, n, before) \in W
  BY <1>1 DEF Turned
<1>4. \A b \in W : b.domain \in ToSet(Domains) \union {Unknown}
  OBVIOUS
<1>5. Len(Domains) \in Nat
  BY DomainsAreListed
<1> HIDE DEF W
<1>6. \A n \in 1 .. Len(Domains) : n - 1 \in 0 .. Len(Domains) /\ n \in 0 .. Len(Domains)
  BY <1>5
<1>7. V[0] = W /\ V[Len(Domains)] = W /\ \A n \in 1 .. Len(Domains) : V[n - 1] = W /\ V[n] = W
  BY <1>5, <1>6
<1> HIDE DEF V
<1>8. PICK b \in V[Len(Domains)] : FirstLargest(value, floor) = b.domain
  BY <1>2, <1>3, <1>7, FirstLargestIn
<1> QED BY <1>4, <1>7, <1>8

(* k is, of the first n domains, the first with the largest value.          *)
Leads(value, k, n) ==
  /\ \A m \in 1 .. k - 1 : value[m] < value[k]
  /\ \A m \in k + 1 .. n : value[m] <= value[k]

(* The loop over the domains ends with the first largest, if one is above   *)
(* the floor.                                                               *)
LEMMA LargestIsFound ==
  ASSUME NEW value, NEW floor \in Int, \A n \in 1 .. Len(Domains) : value[n] \in Int
  PROVE  \/ /\ FirstLargest(value, floor) = Unknown
            /\ \A n \in 1 .. Len(Domains) : value[n] <= floor
         \/ \E k \in 1 .. Len(Domains) :
              /\ FirstLargest(value, floor) = Domains[k]
              /\ value[k] > floor /\ Leads(value, k, Len(Domains))
<1> DEFINE L == Len(Domains)
           none == [domain |-> Unknown, value |-> floor]
           kept(k) == [domain |-> Domains[k], value |-> value[k]]
           None(b, n) == b = none /\ \A m \in 1 .. n : value[m] <= floor
           Some(b, n) == \E k \in 1 .. n : b = kept(k) /\ value[k] > floor /\ Leads(value, k, n)
           V == [n \in 0 .. L |-> {b \in {none} \union {kept(k) : k \in 1 .. L} : None(b, n) \/ Some(b, n)}]
<1>1. L \in Nat
  BY DomainsAreListed
<1>2. none \in V[0]
  BY <1>1
<1>3. ASSUME NEW n \in 1 .. L, NEW b \in V[n - 1] PROVE Turned(value, n, b) \in V[n]
  <2>1. n - 1 \in 0 .. L /\ n \in 0 .. L /\ n \in Nat
    BY <1>1
  <2>2. None(b, n - 1) \/ Some(b, n - 1)
    BY <2>1
  <2>3. Turned(value, n, b) = IF value[n] > b.value THEN kept(n) ELSE b
    BY DEF Turned
  <2>4. Turned(value, n, b) \in {none} \union {kept(k) : k \in 1 .. L}
    BY <2>1, <2>3
  <2>5. SUFFICES None(Turned(value, n, b), n) \/ Some(Turned(value, n, b), n)
    BY <2>1, <2>4
  <2>6. b.value \in Int
    BY <2>1
  <2>7. CASE None(b, n - 1) /\ value[n] <= floor
    <3>1. Turned(value, n, b) = none
      BY <2>3, <2>7
    <3>2. \A m \in 1 .. n : value[m] <= floor
      BY <2>1, <2>7
    <3> QED BY <3>1, <3>2
  <2>8. CASE None(b, n - 1) /\ value[n] > floor
    <3>1. Turned(value, n, b) = kept(n)
      BY <2>3, <2>8
    <3>2. Leads(value, n, n)
      BY <2>1, <2>8, <1>1 DEF Leads
    <3> QED BY <2>1, <2>8, <3>1, <3>2
  <2>9. CASE Some(b, n - 1) /\ value[n] > b.value
    <3>1. PICK k \in 1 .. n - 1 : b = kept(k) /\ value[k] > floor /\ Leads(value, k, n - 1)
      BY <2>9
    <3>2. Turned(value, n, b) = kept(n) /\ value[n] > value[k]
      BY <2>9, <2>3, <3>1
    <3>3. \A m \in 1 .. n - 1 : value[m] <= value[k] /\ value[m] \in Int /\ value[n] \in Int
      BY <2>1, <3>1, <1>1 DEF Leads
    <3>4. Leads(value, n, n) /\ value[n] > floor
      BY <2>1, <3>1, <3>2, <3>3, <1>1 DEF Leads
    <3> QED BY <2>1, <3>2, <3>4
  <2>10. CASE Some(b, n - 1) /\ ~(value[n] > b.value)
    <3>1. PICK k \in 1 .. n - 1 : b = kept(k) /\ value[k] > floor /\ Leads(value, k, n - 1)
      BY <2>10
    <3>2. Turned(value, n, b) = kept(k) /\ value[n] <= value[k]
      BY <2>10, <2>1, <2>3, <2>6, <3>1
    <3>3. Leads(value, k, n)
      BY <2>1, <3>1, <3>2, <1>1 DEF Leads
    <3> QED BY <2>1, <3>1, <3>2, <3>3
  <2> QED BY <2>1, <2>2, <2>7, <2>8, <2>9, <2>10
<1>4. V[L] = {b \in {none} \union {kept(k) : k \in 1 .. L} : None(b, L) \/ Some(b, L)}
  BY <1>1
<1>5. PICK b \in V[L] : FirstLargest(value, floor) = b.domain
  <2> HIDE DEF V
  <2> QED BY <1>2, <1>3, FirstLargestIn
<1>6. None(b, L) \/ Some(b, L)
  BY <1>4, <1>5
<1> HIDE DEF V
<1>7. CASE None(b, L)
  BY <1>5, <1>7
<1>8. CASE Some(b, L)
  BY <1>5, <1>8
<1> QED BY <1>6, <1>7, <1>8

(* Where no domain is above the floor, the answer is unknown.               *)
LEMMA NoneIsLargest ==
  ASSUME NEW value, NEW floor \in Int,
         \A n \in 1 .. Len(Domains) : value[n] \in Int /\ value[n] <= floor
  PROVE  FirstLargest(value, floor) = Unknown
BY LargestIsFound

(* The first largest stays it if no other value grows and its own does not  *)
(* shrink.                                                                  *)
LEMMA LargestStays ==
  ASSUME NEW v, NEW w, NEW floor \in Int,
         \A n \in 1 .. Len(Domains) : v[n] \in Int /\ w[n] \in Int,
         NEW d, d # Unknown, FirstLargest(v, floor) = d,
         \A n \in 1 .. Len(Domains) : IF Domains[n] = d THEN v[n] <= w[n] ELSE w[n] <= v[n]
  PROVE  FirstLargest(w, floor) = d
<1>1. PICK k \in 1 .. Len(Domains) :
        d = Domains[k] /\ v[k] > floor /\ Leads(v, k, Len(Domains))
  BY LargestIsFound
<1>2. Len(Domains) \in Nat
  BY DomainsAreListed
<1>3. v[k] <= w[k] /\ \A n \in 1 .. Len(Domains) : n # k => w[n] <= v[n]
  BY <1>1, DomainsAreListed
<1>4. \E n \in 1 .. Len(Domains) : ~(w[n] <= floor)
  BY <1>1, <1>3
<1>5. PICK m \in 1 .. Len(Domains) :
        FirstLargest(w, floor) = Domains[m] /\ Leads(w, m, Len(Domains))
  BY <1>4, LargestIsFound
<1>6. CASE m < k
  <2>1. w[m] <= v[m] /\ v[m] < v[k] /\ w[k] <= w[m]
    BY <1>1, <1>2, <1>3, <1>5, <1>6 DEF Leads
  <2> QED BY <2>1, <1>3
<1>7. CASE m > k
  <2>1. w[m] <= v[m] /\ v[m] <= v[k] /\ w[k] < w[m]
    BY <1>1, <1>2, <1>3, <1>5, <1>7 DEF Leads
  <2> QED BY <2>1, <1>3
<1> QED BY <1>1, <1>5, <1>6, <1>7

(* An answer for a topic is never without one.                              *)
LEMMA TopicIs ==
  ASSUME NEW c, NEW text
  PROVE  /\ classify_text_bayes(c, text) \in ToSet(Domains) \union {Unknown}
         /\ determine_topic(text) \in ToSet(Domains) \union {Unknown}
BY FirstLargestIs DEF classify_text_bayes, determine_topic

-----------------------------------------------------------------------------
(* The invariant.                                                           *)

(* The answers that are sent.                                              *)
Answer ==
  [request : Requests, status : {"ok", "error"},
   topic : ToSet(Domains) \union {Unknown, ""}, summary : Seq(Nat), word_count : Nat]

(* The texts of the first n responses rs.                                  *)
TextsOf(rs, n) == [k \in 1 .. n |-> rs[k].request.text]

(* The texts that LearntOf has of the first k, and TaughtBy of rs.         *)
Initial(k, d) ==
  [n \in {m \in 1 .. k : InitialTraining[m].domain = d} |-> InitialTraining[n].text]

Taught(rs, d) ==
  [n \in {k \in DOMAIN rs : rs[k].request.type = "determine_topic" /\ rs[k].topic = d} |->
     rs[n].request.text]

(* The variables of generate_summary while it does not run.                *)
NoCall == sentences = <<>> /\ selected = <<>> /\ i = 1 /\ j = 2 /\ phase = "split"

(* What SummaryOfHistory says of response n of rs.                         *)
RightSummary(rs, n) ==
  LET texts == TextsOf(rs, n) IN
    rs[n].request.type = "generate_summary" =>
      IF SentenceEnds(texts[n]) = {} THEN rs[n].summary = <<0>>
      ELSE rs[n].summary \in Best!Answers(texts)

(* What TypeOK says of a response.                                         *)
RightShape(r) ==
  /\ (r.topic # "") = (r.request.type = "determine_topic")
  /\ (r.summary # <<>>) = (r.request.type = "generate_summary")

(* Where the thread is.                                                    *)
ThreadInv ==
  /\ trained \in 0 .. Len(InitialTraining)
  /\ request # NoRequest \/ responses # <<>> => trained = Len(InitialTraining)
  /\ request \in Requests \union {NoRequest}
  /\ responses \in Seq(Answer)
  /\ Len(responses) <= MaxRequests
  /\ request # NoRequest => Len(responses) < MaxRequests

(* The collection holds the text of each request, of the current one last.  *)
CollectionInv ==
  LET before == TextsOf(responses, Len(responses)) IN
    documents = IF request = NoRequest THEN before ELSE Append(before, request.text)

(* A call of generate_summary has its invariant.                           *)
CallInv ==
  /\ documents # <<>> => IInv
  /\ request = NoRequest \/ request.type # "generate_summary" => NoCall
  /\ phase = "error" => SentenceEnds(Subject) = {}

(* Domain d of classifier c knows these texts and no others.               *)
Knows(c, d, initial, taught) ==
  TextMap(initial) /\ TextMap(taught) /\ HasLearnt(c, d, initial, taught)

ClassifierInv ==
  /\ DOMAIN classifier = ToSet(Domains)
  /\ \A d \in ToSet(Domains) : Knows(classifier, d, Initial(trained, d), Taught(responses, d))

(* The answers sent are right.                                             *)
AnswersInv ==
  \A n \in 1 .. Len(responses) : RightShape(responses[n]) /\ RightSummary(responses, n)

(* The inductive invariant.                                                *)
HistoryInv == ThreadInv /\ CollectionInv /\ CallInv /\ ClassifierInv /\ AnswersInv

-----------------------------------------------------------------------------
(* What the invariant rests on.                                             *)

(* A request is one that clients make.                                     *)
LEMMA RequestIs ==
  ASSUME NEW r \in Requests
  PROVE  r.type \in Types /\ r.text \in Seq(Chars) /\ r # NoRequest
BY ProcessingAssumption

(* The texts of one response more. *)
LEMMA TextsOfOneMore ==
  ASSUME NEW rs \in Seq(Answer), NEW x \in Answer
  PROVE  /\ \A n \in 1 .. Len(rs) : TextsOf(Append(rs, x), n) = TextsOf(rs, n)
         /\ TextsOf(Append(rs, x), Len(rs) + 1) = Append(TextsOf(rs, Len(rs)), x.request.text)
<1> DEFINE new == Append(rs, x)
           l == Len(rs)
<1>1. /\ l \in Nat /\ new[l + 1] = x
      /\ \A n \in 1 .. l : new[n] = rs[n]
  OBVIOUS
<1> HIDE DEF new, l
<1>2. ASSUME NEW n \in 1 .. l PROVE TextsOf(new, n) = TextsOf(rs, n)
  <2>1. \A k \in 1 .. n : k \in 1 .. l
    BY <1>1
  <2> QED BY <2>1, <1>1 DEF TextsOf
<1>3. TextsOf(new, l + 1) = Append(TextsOf(rs, l), x.request.text)
  <2> DEFINE texts == TextsOf(rs, l)
             T == {rs[k].request.text : k \in 1 .. l} \union {x.request.text}
  <2>1. texts \in Seq(T) /\ Len(texts) = l /\ \A k \in 1 .. l : texts[k] = rs[k].request.text
    BY <1>1 DEF TextsOf
  <2>2. x.request.text \in T
    OBVIOUS
  <2> HIDE DEF texts, T
  <2>3. Append(texts, x.request.text)
          = [k \in 1 .. l + 1 |-> IF k = l + 1 THEN x.request.text ELSE texts[k]]
    BY <1>1, <2>1, <2>2
  <2>4. ASSUME NEW k \in 1 .. l + 1
        PROVE  new[k].request.text = IF k = l + 1 THEN x.request.text ELSE texts[k]
    BY <1>1, <2>1
  <2> QED BY <2>3, <2>4 DEF TextsOf, texts
<1> QED BY <1>2, <1>3 DEF new, l

(* What is in the collection while the thread has it.                       *)
LEMMA CollectionFacts ==
  ASSUME ThreadInv, CollectionInv
  PROVE  /\ documents \in [1 .. Len(documents) -> {r.text : r \in Requests}]
         /\ documents \in Seq(Seq(Chars))
         /\ Len(documents) = Len(responses) + (IF request = NoRequest THEN 0 ELSE 1)
         /\ request # NoRequest => documents # <<>> /\ Subject = request.text
<1> DEFINE T == {r.text : r \in Requests}
           before == TextsOf(responses, Len(responses))
<1>1. /\ responses \in Seq(Answer) /\ request \in Requests \union {NoRequest}
      /\ Len(responses) \in Nat
  BY DEF ThreadInv
<1>2. \A k \in 1 .. Len(responses) : responses[k].request \in Requests
  <2>1. \A k \in 1 .. Len(responses) : responses[k] \in Answer
    BY <1>1
  <2>2. \A a \in Answer : a.request \in Requests
    BY DEF Answer
  <2> QED BY <2>1, <2>2
<1>3. T \subseteq Seq(Chars)
  BY RequestIs
<1>4. before \in Seq(T) /\ Len(before) = Len(responses)
  BY <1>1, <1>2 DEF TextsOf
<1>5. documents = IF request = NoRequest THEN before ELSE Append(before, request.text)
  BY DEF CollectionInv
<1> HIDE DEF before
<1>6. request # NoRequest => request.text \in T
  BY <1>1
<1> HIDE DEF T
<1>7. /\ documents \in Seq(T)
      /\ Len(documents) = Len(responses) + (IF request = NoRequest THEN 0 ELSE 1)
  BY <1>1, <1>4, <1>5, <1>6
<1>8. documents \in Seq(Seq(Chars))
  BY <1>3, <1>7
<1>9. documents \in [1 .. Len(documents) -> T]
  BY <1>7
<1>10. ASSUME request # NoRequest PROVE documents # <<>> /\ Subject = request.text
  <2>1. documents = Append(before, request.text)
    BY <1>5, <1>10
  <2>2. Len(documents) = Len(before) + 1 /\ documents[Len(before) + 1] = request.text
    BY <1>4, <1>6, <1>10, <2>1
  <2>3. documents # <<>>
    BY <1>1, <1>4, <2>2
  <2> QED BY <2>2, <2>3 DEF Subject, Last
<1> QED BY <1>7, <1>8, <1>9, <1>10 DEF T

(* A text joins the collection.                                             *)
LEMMA CollectionGrows ==
  ASSUME ThreadInv, CollectionInv, request = NoRequest, Len(responses) < MaxRequests,
         NEW r \in Requests
  PROVE  Append(documents, r.text) \in Collections
<1> DEFINE T == {q.text : q \in Requests}
           m == Len(documents) + 1
<1>1. documents \in [1 .. Len(documents) -> T] /\ Len(documents) = Len(responses)
  BY CollectionFacts
<1>2. Len(responses) \in Nat /\ MaxRequests \in Nat
  BY ProcessingAssumption DEF ThreadInv
<1>3. m \in 1 .. MaxRequests
  BY <1>1, <1>2
<1>4. r.text \in T
  OBVIOUS
<1>5. [1 .. m -> T] \subseteq Collections
  BY <1>3, ProcessingAssumption
<1>6. documents \in Seq(T)
  BY <1>1, <1>2
<1> HIDE DEF T
<1>7. Append(documents, r.text) \in Seq(T) /\ Len(Append(documents, r.text)) = m
  BY <1>4, <1>6
<1>8. \A s \in Seq(T) : Len(s) = m => s \in [1 .. m -> T]
  OBVIOUS
<1> QED BY <1>5, <1>7, <1>8

(* A right summary stays one.                                               *)
LEMMA RightSummaryStays ==
  ASSUME NEW rs \in Seq(Answer), NEW x \in Answer, NEW n \in 1 .. Len(rs), RightSummary(rs, n)
  PROVE  RightSummary(Append(rs, x), n)
<1>1. Append(rs, x)[n] = rs[n] /\ TextsOf(Append(rs, x), n) = TextsOf(rs, n)
  BY TextsOfOneMore
<1> QED BY <1>1 DEF RightSummary

(* The domain that a text is learnt for knows one text more.                *)
LEMMA Learns ==
  ASSUME NEW c, DOMAIN c = ToSet(Domains), NEW d \in ToSet(Domains),
         NEW a, NEW b, Knows(c, d, a, b), NEW text \in Seq(Chars), NEW y, NEW a2, NEW b2,
         \/ OneMoreText(a, a2, y, text) /\ b2 = b
         \/ OneMoreText(b, b2, y, text) /\ a2 = a
  PROVE  Knows(train_bayes_classifier(c, text, d), d, a2, b2)
<1> DEFINE c2 == train_bayes_classifier(c, text, d)
           words == tokenize_text(text)
<1>1. /\ c2[d].document_count = c[d].document_count + 1
      /\ c2[d].word_counts = c[d].word_counts (+) words
  BY TrainingIs
<1>2. /\ TextMap(a) /\ TextMap(b) /\ IsABag(c[d].word_counts)
      /\ c[d].document_count = Cardinality(DOMAIN a) + Cardinality(DOMAIN b)
      /\ \A t : Copies(t, c[d].word_counts) = CopiesInAll(t, a) + CopiesInAll(t, b)
  BY DEF Knows, HasLearnt
<1>3. IsABag(words) /\ \A t : Copies(t, words) \in Nat
  BY TokensAreABag
<1> HIDE DEF c2, words
<1>4. /\ IsABag(c2[d].word_counts)
      /\ \A t : Copies(t, c2[d].word_counts) = Copies(t, c[d].word_counts) + Copies(t, words)
  BY <1>1, <1>2, <1>3, CopiesOfBoth
<1>5. /\ Cardinality(DOMAIN a) \in Nat /\ Cardinality(DOMAIN b) \in Nat
      /\ \A t : CopiesInAll(t, a) \in Int /\ CopiesInAll(t, b) \in Int
  <2>1. ASSUME NEW f, TextMap(f)
        PROVE  Cardinality(DOMAIN f) \in Nat /\ \A t : CopiesInAll(t, f) \in Int
    <3>1. IsFiniteSet(DOMAIN f)
      BY <2>1 DEF TextMap
    <3>2. ASSUME NEW t PROVE CopiesInAll(t, f) \in Int
      <4> DEFINE F == [n \in DOMAIN f |-> Copies(t, tokenize_text(f[n]))]
      <4>1. CopiesInAll(t, f) = SumOver(F, DOMAIN f)
        BY DEF CopiesInAll, Total, SumOver
      <4>2. \A n \in DOMAIN f : F[n] \in Int
        BY <2>1, TokensAreABag DEF TextMap
      <4> HIDE DEF F
      <4>3. PICK sum \in [SUBSET DOMAIN f -> Int] : SumOver(F, DOMAIN f) = sum[DOMAIN f]
        BY <3>1, <4>2, SumsExist
      <4> QED BY <4>1, <4>3
    <3> QED BY <3>1, <3>2, FS_CardinalityType
  <2> QED BY <2>1, <1>2
<1>6. CASE OneMoreText(a, a2, y, text) /\ b2 = b
  <2>1. /\ TextMap(a2) /\ Cardinality(DOMAIN a2) = Cardinality(DOMAIN a) + 1
        /\ \A t : CopiesInAll(t, a2) = CopiesInAll(t, a) + Copies(t, words)
    BY <1>2, <1>6, CopiesOfOneMore DEF words
  <2>2. c2[d].document_count = Cardinality(DOMAIN a2) + Cardinality(DOMAIN b2)
    BY <1>1, <1>2, <1>5, <1>6, <2>1
  <2>3. ASSUME NEW t
        PROVE  Copies(t, c2[d].word_counts) = CopiesInAll(t, a2) + CopiesInAll(t, b2)
    <3>1. /\ Copies(t, c2[d].word_counts)
               = (CopiesInAll(t, a) + CopiesInAll(t, b)) + Copies(t, words)
          /\ CopiesInAll(t, a2) = CopiesInAll(t, a) + Copies(t, words)
          /\ CopiesInAll(t, b2) = CopiesInAll(t, b)
      BY <1>2, <1>4, <1>6, <2>1
    <3> QED BY <3>1, <1>3, <1>5
  <2> QED BY <1>2, <1>4, <1>6, <2>1, <2>2, <2>3 DEF Knows, HasLearnt, c2
<1>7. CASE OneMoreText(b, b2, y, text) /\ a2 = a
  <2>1. /\ TextMap(b2) /\ Cardinality(DOMAIN b2) = Cardinality(DOMAIN b) + 1
        /\ \A t : CopiesInAll(t, b2) = CopiesInAll(t, b) + Copies(t, words)
    BY <1>2, <1>7, CopiesOfOneMore DEF words
  <2>2. c2[d].document_count = Cardinality(DOMAIN a2) + Cardinality(DOMAIN b2)
    BY <1>1, <1>2, <1>5, <1>7, <2>1
  <2>3. ASSUME NEW t
        PROVE  Copies(t, c2[d].word_counts) = CopiesInAll(t, a2) + CopiesInAll(t, b2)
    <3>1. /\ Copies(t, c2[d].word_counts)
               = (CopiesInAll(t, a) + CopiesInAll(t, b)) + Copies(t, words)
          /\ CopiesInAll(t, b2) = CopiesInAll(t, b) + Copies(t, words)
          /\ CopiesInAll(t, a2) = CopiesInAll(t, a)
      BY <1>2, <1>4, <1>7, <2>1
    <3> QED BY <3>1, <1>3, <1>5
  <2> QED BY <1>2, <1>4, <1>7, <2>1, <2>2, <2>3 DEF Knows, HasLearnt, c2
<1> QED BY <1>6, <1>7

(* The others know what they did.                                           *)
LEMMA OthersLearnNothing ==
  ASSUME NEW c, DOMAIN c = ToSet(Domains), NEW domain, NEW d \in ToSet(Domains), d # domain,
         NEW a, NEW b, Knows(c, d, a, b), NEW text
  PROVE  Knows(train_bayes_classifier(c, text, domain), d, a, b)
<1>1. train_bayes_classifier(c, text, domain)[d] = c[d]
  BY TrainingIs
<1> QED BY <1>1 DEF Knows, HasLearnt

(* A text after the first k.                                                *)
LEMMA InitialOfOneMore ==
  ASSUME NEW k \in Nat, NEW d
  PROVE  LET t == InitialTraining[k + 1] IN
           /\ t.domain = d => OneMoreText(Initial(k, d), Initial(k + 1, d), k + 1, t.text)
           /\ t.domain # d => Initial(k + 1, d) = Initial(k, d)
<1>1. \A n : n \in 1 .. k + 1 <=> n \in 1 .. k \/ n = k + 1
  OBVIOUS
<1>2. k + 1 \notin 1 .. k
  OBVIOUS
<1>3. ASSUME InitialTraining[k + 1].domain = d
      PROVE  OneMoreText(Initial(k, d), Initial(k + 1, d), k + 1, InitialTraining[k + 1].text)
  BY <1>1, <1>2, <1>3 DEF OneMoreText, Initial
<1>4. ASSUME InitialTraining[k + 1].domain # d PROVE Initial(k + 1, d) = Initial(k, d)
  <2>1. {m \in 1 .. k + 1 : InitialTraining[m].domain = d}
          = {m \in 1 .. k : InitialTraining[m].domain = d}
    BY <1>1, <1>4
  <2> QED BY <2>1 DEF Initial
<1> QED BY <1>3, <1>4

(* A response more.                                                         *)
LEMMA TaughtOfOneMore ==
  ASSUME NEW rs \in Seq(Answer), NEW x \in Answer, NEW d
  PROVE  LET taught == x.request.type = "determine_topic" /\ x.topic = d IN
           /\ taught => OneMoreText(Taught(rs, d), Taught(Append(rs, x), d), Len(rs) + 1,
                                    x.request.text)
           /\ ~ taught => Taught(Append(rs, x), d) = Taught(rs, d)
<1> DEFINE new == Append(rs, x)
           l == Len(rs)
           Teaches(r) == r.request.type = "determine_topic" /\ r.topic = d
<1>1. /\ l \in Nat /\ new[l + 1] = x /\ DOMAIN rs = 1 .. l /\ DOMAIN new = 1 .. l + 1
      /\ \A n \in 1 .. l : new[n] = rs[n]
  OBVIOUS
<1> HIDE DEF new, l
<1>2. (\A n : n \in 1 .. l + 1 <=> n \in 1 .. l \/ n = l + 1) /\ l + 1 \notin 1 .. l
  BY <1>1
<1>3. /\ Taught(rs, d) = [n \in {k \in 1 .. l : Teaches(rs[k])} |-> rs[n].request.text]
      /\ Taught(new, d) = [n \in {k \in 1 .. l + 1 : Teaches(new[k])} |-> new[n].request.text]
  BY <1>1 DEF Taught
<1> HIDE DEF Teaches
<1>4. ASSUME Teaches(x) PROVE OneMoreText(Taught(rs, d), Taught(new, d), l + 1, x.request.text)
  BY <1>1, <1>2, <1>3, <1>4 DEF OneMoreText
<1>5. ASSUME ~ Teaches(x) PROVE Taught(new, d) = Taught(rs, d)
  <2>1. {k \in 1 .. l + 1 : Teaches(new[k])} = {k \in 1 .. l : Teaches(rs[k])}
    BY <1>1, <1>2, <1>5
  <2> QED BY <2>1, <1>1, <1>3
<1> QED BY <1>4, <1>5 DEF Teaches, new, l

(* Words are counted.                                                       *)
LEMMA WordsAreCounted ==
  ASSUME NEW text \in Seq(Chars)
  PROVE  count_words(text) \in Nat
<1>1. WordStarts(text) \in SUBSET (1 .. Len(text)) /\ Len(text) \in Nat
  BY DEF WordStarts, RunStarts
<1>2. IsFiniteSet(1 .. Len(text))
  BY <1>1, FS_Interval
<1>3. Cardinality(WordStarts(text)) \in Nat
  BY <1>1, <1>2, FS_Subset, FS_CardinalityType
<1> QED BY <1>3 DEF count_words

-----------------------------------------------------------------------------
(* The invariant holds.                                                     *)

(* The thread starts with the invariant.                                   *)
LEMMA InitHistory == Init => HistoryInv
<1> SUFFICES ASSUME Init PROVE HistoryInv
  OBVIOUS
<1>1. /\ trained = 0 /\ request = NoRequest /\ documents = <<>> /\ responses = <<>>
      /\ classifier = init_bayes_classifier /\ NoCall
  BY DEF Init, NoCall
<1>2. Len(responses) = 0 /\ responses \in Seq(Answer)
  BY <1>1
<1>3. ThreadInv
  <2>1. MaxRequests \in Nat /\ Len(InitialTraining) \in Nat
    BY ProcessingAssumption
  <2> QED BY <1>1, <1>2, <2>1 DEF ThreadInv
<1>4. CollectionInv
  BY <1>1, <1>2 DEF CollectionInv, TextsOf
<1>5. CallInv
  BY <1>1 DEF CallInv, NoCall
<1>6. ClassifierInv
  <2>1. DOMAIN classifier = ToSet(Domains)
    BY <1>1 DEF init_bayes_classifier
  <2>2. ASSUME NEW d \in ToSet(Domains)
        PROVE  Knows(classifier, d, Initial(trained, d), Taught(responses, d))
    <3>1. DOMAIN Initial(trained, d) = {} /\ DOMAIN Taught(responses, d) = {}
      BY <1>1 DEF Initial, Taught
    <3>2. /\ TextMap(Initial(trained, d)) /\ TextMap(Taught(responses, d))
          /\ Cardinality(DOMAIN Initial(trained, d)) = 0
          /\ Cardinality(DOMAIN Taught(responses, d)) = 0
          /\ \A t : /\ CopiesInAll(t, Initial(trained, d)) = 0
                    /\ CopiesInAll(t, Taught(responses, d)) = 0
      BY <3>1, CopiesOfNone
    <3>3. classifier[d].document_count = 0 /\ classifier[d].word_counts = EmptyBag
      BY <1>1 DEF init_bayes_classifier
    <3>4. IsABag(EmptyBag) /\ \A t : Copies(t, EmptyBag) = 0
      BY DEF IsABag, EmptyBag, SetToBag, Copies
    <3> QED BY <3>2, <3>3, <3>4 DEF Knows, HasLearnt
  <2> QED BY <2>1, <2>2 DEF ClassifierInv
<1>7. AnswersInv
  BY <1>2 DEF AnswersInv
<1> QED BY <1>3, <1>4, <1>5, <1>6, <1>7 DEF HistoryInv

(* Where no variable of the call changes, nor the collection.               *)
LEMMA CallStays ==
  ASSUME UNCHANGED <<documents, callVars>>
  PROVE  IInv' = IInv /\ NoCall' = NoCall /\ Subject' = Subject
<1>1. /\ documents' = documents /\ sentences' = sentences /\ selected' = selected
      /\ i' = i /\ j' = j /\ phase' = phase
  BY DEF callVars
<1>2. /\ Subject' = Subject /\ Count' = Count /\ Scored' = Scored
      /\ HigherFirst' = HigherFirst /\ EarlierFirst' = EarlierFirst
  BY <1>1, SameTexts
<1>3. ArrayInv' = ArrayInv /\ ChoiceInv' = ChoiceInv /\ LoopInv' = LoopInv
  BY <1>1, <1>2 DEF ArrayInv, ChoiceInv, LoopInv
<1>4. IInv' = IInv
  BY <1>1, <1>2, <1>3 DEF IInv
<1> QED BY <1>1, <1>2, <1>4 DEF NoCall

(* A text more of the initial ones.                                        *)
LEMMA TrainHistory == HistoryInv /\ Train => HistoryInv'
<1> SUFFICES ASSUME HistoryInv, Train PROVE HistoryInv'
  OBVIOUS
<1> DEFINE t == InitialTraining[trained + 1]
<1>1. /\ trained < Len(InitialTraining) /\ trained' = trained + 1
      /\ classifier' = train_bayes_classifier(classifier, t.text, t.domain)
      /\ request' = request /\ documents' = documents /\ responses' = responses
      /\ UNCHANGED <<documents, callVars>>
  BY DEF Train
<1>2. ThreadInv /\ CollectionInv /\ CallInv /\ ClassifierInv /\ AnswersInv
  BY DEF HistoryInv
<1>3. trained \in Nat /\ Len(InitialTraining) \in Nat
  <2>1. Len(InitialTraining) \in Nat
    BY ProcessingAssumption
  <2> QED BY <1>2, <2>1 DEF ThreadInv
<1>4. request = NoRequest /\ responses = <<>>
  BY <1>1, <1>2, <1>3 DEF ThreadInv
<1>5. ThreadInv'
  <2>1. trained' \in 0 .. Len(InitialTraining)
    BY <1>1, <1>3
  <2> QED BY <2>1, <1>1, <1>2, <1>4 DEF ThreadInv
<1>6. CollectionInv' /\ AnswersInv'
  BY <1>1, <1>2 DEF CollectionInv, AnswersInv
<1>7. CallInv'
  BY <1>1, <1>2, CallStays DEF CallInv, callVars
<1>8. ClassifierInv'
  <2>1. t.text \in Seq(Chars)
    <3>1. trained + 1 \in 1 .. Len(InitialTraining)
      BY <1>1, <1>3
    <3> DEFINE P == [text : Seq(Chars), domain : ToSet(Domains)]
    <3>2. InitialTraining \in Seq(P)
      BY ProcessingAssumption
    <3>3. \A p \in P : p.text \in Seq(Chars)
      OBVIOUS
    <3> HIDE DEF P
    <3>4. t \in P
      BY <3>1, <3>2
    <3> QED BY <3>3, <3>4
  <2>2. DOMAIN classifier = ToSet(Domains)
    BY <1>2 DEF ClassifierInv
  <2>3. DOMAIN classifier' = ToSet(Domains)
    BY <1>1, <2>2 DEF train_bayes_classifier
  <2>4. ASSUME NEW d \in ToSet(Domains)
        PROVE  Knows(classifier', d, Initial(trained', d), Taught(responses', d))
    <3> DEFINE a == Initial(trained, d)
               b == Taught(responses, d)
               a2 == Initial(trained + 1, d)
    <3>1. Knows(classifier, d, a, b)
      BY <1>2 DEF ClassifierInv
    <3>2. /\ t.domain = d => OneMoreText(a, a2, trained + 1, t.text)
          /\ t.domain # d => a2 = a
      BY <1>3, InitialOfOneMore
    <3> HIDE DEF a, b, a2, t
    <3>3. CASE t.domain = d
      <4>1. Knows(train_bayes_classifier(classifier, t.text, d), d, a2, b)
        BY <2>1, <2>2, <3>1, <3>2, <3>3, Learns
      <4> QED BY <4>1, <3>3, <1>1 DEF a2, b
    <3>4. CASE t.domain # d
      <4>1. Knows(train_bayes_classifier(classifier, t.text, t.domain), d, a, b)
        BY <2>2, <3>1, <3>4, OthersLearnNothing
      <4> QED BY <4>1, <3>2, <3>4, <1>1 DEF a2, b
    <3> QED BY <3>3, <3>4
  <2> QED BY <2>3, <2>4 DEF ClassifierInv
<1> QED BY <1>5, <1>6, <1>7, <1>8 DEF HistoryInv

(* A request comes, and its text joins the collection.                     *)
LEMMA DequeueHistory == HistoryInv /\ Dequeue => HistoryInv'
<1> SUFFICES ASSUME HistoryInv, Dequeue PROVE HistoryInv'
  OBVIOUS
<1>1. PICK r \in Requests : request' = r /\ documents' = Append(documents, r.text)
  BY DEF Dequeue
<1>2. /\ trained = Len(InitialTraining) /\ request = NoRequest
      /\ Len(responses) < MaxRequests
      /\ trained' = trained /\ classifier' = classifier /\ responses' = responses
      /\ sentences' = sentences /\ selected' = selected /\ i' = i /\ j' = j /\ phase' = phase
  BY DEF Dequeue, callVars
<1>3. ThreadInv /\ CollectionInv /\ CallInv /\ ClassifierInv /\ AnswersInv
  BY DEF HistoryInv
<1>4. r # NoRequest
  BY RequestIs
<1>5. ThreadInv'
  BY <1>1, <1>2, <1>3 DEF ThreadInv
<1>6. CollectionInv'
  BY <1>1, <1>2, <1>3, <1>4 DEF CollectionInv
<1>7. CallInv'
  <2>1. NoCall /\ NoCall'
    BY <1>2, <1>3 DEF CallInv, NoCall
  <2>2. Append(documents, r.text) \in Collections
    BY <1>2, <1>3, CollectionGrows
  <2>3. SummaryInit'
    BY <1>1, <2>1, <2>2 DEF SummaryInit, NoCall
  <2>4. SummaryInit' => IInv'
    BY InitInv, PTL
  <2> QED BY <2>1, <2>3, <2>4 DEF CallInv, NoCall
<1>8. ClassifierInv' /\ AnswersInv'
  BY <1>2, <1>3 DEF ClassifierInv, AnswersInv
<1> QED BY <1>5, <1>6, <1>7, <1>8 DEF HistoryInv

(* What the sending of an answer keeps.                                     *)
LEMMA SendHistory ==
  ASSUME HistoryInv, request # NoRequest, NEW x \in Answer, x.request = request,
         responses' = Append(responses, x), request' = NoRequest,
         trained' = trained, documents' = documents,
         RightShape(x), RightSummary(responses', Len(responses) + 1)
  PROVE  ThreadInv' /\ CollectionInv' /\ AnswersInv'
<1>1. ThreadInv /\ CollectionInv /\ AnswersInv
  BY DEF HistoryInv
<1>2. /\ responses \in Seq(Answer) /\ Len(responses) \in Nat /\ Len(responses) < MaxRequests
      /\ trained = Len(InitialTraining) /\ trained \in 0 .. Len(InitialTraining)
      /\ MaxRequests \in Nat
  BY <1>1, ProcessingAssumption DEF ThreadInv
<1>3. /\ responses' \in Seq(Answer) /\ Len(responses') = Len(responses) + 1
      /\ responses'[Len(responses) + 1] = x
      /\ \A n \in 1 .. Len(responses) : responses'[n] = responses[n]
  BY <1>2
<1>4. ThreadInv'
  BY <1>2, <1>3 DEF ThreadInv
<1>5. CollectionInv'
  <2>1. documents = Append(TextsOf(responses, Len(responses)), request.text)
    BY <1>1 DEF CollectionInv
  <2>2. TextsOf(Append(responses, x), Len(responses) + 1)
          = Append(TextsOf(responses, Len(responses)), x.request.text)
    BY <1>2, TextsOfOneMore
  <2> QED BY <2>1, <2>2, <1>3 DEF CollectionInv
<1>6. AnswersInv'
  <2>1. ASSUME NEW n \in 1 .. Len(responses)
        PROVE  RightShape(responses'[n]) /\ RightSummary(responses', n)
    <3>1. RightShape(responses[n]) /\ RightSummary(responses, n)
      BY <1>1 DEF AnswersInv
    <3> QED BY <3>1, <1>2, <1>3, RightSummaryStays
  <2>2. \A n \in 1 .. Len(responses') : n \in 1 .. Len(responses) \/ n = Len(responses) + 1
    BY <1>2, <1>3
  <2> QED BY <2>1, <2>2, <1>3 DEF AnswersInv
<1> QED BY <1>4, <1>5, <1>6

(* No request for a topic teaches anything else.                            *)
LEMMA NothingTaught ==
  ASSUME HistoryInv, NEW x \in Answer, responses' = Append(responses, x),
         trained' = trained, classifier' = classifier,
         x.request.type # "determine_topic"
  PROVE  ClassifierInv'
<1>1. ThreadInv /\ ClassifierInv
  BY DEF HistoryInv
<1>2. \A d : Taught(responses', d) = Taught(responses, d)
  BY <1>1, TaughtOfOneMore DEF ThreadInv
<1> QED BY <1>1, <1>2 DEF ClassifierInv

(* The answer that is sent last.                                            *)
LEMMA LastAnswer ==
  ASSUME ThreadInv
  PROVE  /\ responses \in Seq(Answer) /\ Len(responses) \in Nat
         /\ \A x \in Answer : Append(responses, x)[Len(responses) + 1] = x
         /\ request # NoRequest => request \in Requests
         /\ <<>> \in Seq(Nat)
<1>1. responses \in Seq(Answer) /\ request \in Requests \union {NoRequest}
  BY DEF ThreadInv
<1>2. Len(responses) \in Nat
  BY <1>1
<1>3. \A x \in Answer : Append(responses, x)[Len(responses) + 1] = x
  BY <1>1
<1>4. <<>> \in Seq(Nat)
  OBVIOUS
<1> QED BY <1>1, <1>2, <1>3, <1>4

(* An answer without a summary or a topic.                                  *)
LEMMA PlainHistory ==
  ASSUME HistoryInv, request # NoRequest,
         request.type # "determine_topic", request.type # "generate_summary",
         NEW status \in {"ok", "error"}, Send(status, "", <<>>),
         UNCHANGED <<trained, documents, classifier, callVars>>
  PROVE  HistoryInv'
<1> DEFINE x == [request |-> request, status |-> status, topic |-> "", summary |-> <<>>,
                 word_count |-> IF status = "ok" THEN count_words(request.text) ELSE 0]
<1>1. /\ responses' = Append(responses, x) /\ request' = NoRequest /\ x.request = request
      /\ trained' = trained /\ documents' = documents /\ classifier' = classifier
      /\ UNCHANGED <<documents, callVars>>
  BY DEF Send
<1>2. ThreadInv /\ CollectionInv /\ CallInv /\ ClassifierInv /\ AnswersInv
  BY DEF HistoryInv
<1>3. request \in Requests /\ responses \in Seq(Answer) /\ Len(responses) \in Nat
  BY <1>2, LastAnswer
<1>4. x \in Answer
  <2>1. request.text \in Seq(Chars)
    BY <1>3, RequestIs
  <2>2. count_words(request.text) \in Nat /\ <<>> \in Seq(Nat)
    BY <1>2, <2>1, WordsAreCounted, LastAnswer
  <2> QED BY <1>3, <2>1, <2>2 DEF Answer
<1>5. RightShape(x)
  BY DEF RightShape
<1>6. responses'[Len(responses) + 1] = x
  <2> HIDE DEF x
  <2> QED BY <1>1, <1>2, <1>4, LastAnswer
<1>7. x.request.type # "determine_topic"
  OBVIOUS
<1>8. RightSummary(responses', Len(responses) + 1)
  BY <1>1, <1>6 DEF RightSummary
<1> HIDE DEF x
<1>9. ThreadInv' /\ CollectionInv' /\ AnswersInv'
  BY <1>1, <1>4, <1>5, <1>8, SendHistory
<1>10. ClassifierInv'
  BY <1>1, <1>4, <1>7, NothingTaught
<1>11. CallInv'
  BY <1>1, <1>2, CallStays DEF CallInv, callVars
<1> QED BY <1>9, <1>10, <1>11 DEF HistoryInv

(* Words are counted.                                                      *)
LEMMA CountWordsHistory == HistoryInv /\ CountWords => HistoryInv'
BY PlainHistory DEF CountWords

(* A request of no known type gets an error.                               *)
LEMMA UnknownTypeHistory == HistoryInv /\ UnknownType => HistoryInv'
BY PlainHistory DEF UnknownType

(* A topic is answered and learnt.                                         *)
LEMMA DetermineTopicHistory == HistoryInv /\ DetermineTopic => HistoryInv'
<1> SUFFICES ASSUME HistoryInv, DetermineTopic PROVE HistoryInv'
  OBVIOUS
<1>1. PICK topic \in ToSet(Domains) \union {Unknown} :
        /\ classifier' = train_bayes_classifier(classifier, request.text, topic)
        /\ Send("ok", topic, <<>>)
  BY TopicIs DEF DetermineTopic
<1> DEFINE x == [request |-> request, status |-> "ok", topic |-> topic, summary |-> <<>>,
                 word_count |-> count_words(request.text)]
<1>2. /\ responses' = Append(responses, x) /\ request' = NoRequest /\ x.request = request
      /\ x.topic = topic
  BY <1>1 DEF Send
<1>3. /\ trained' = trained /\ documents' = documents
      /\ request # NoRequest /\ request.type = "determine_topic"
      /\ UNCHANGED <<documents, callVars>>
  BY DEF DetermineTopic
<1>4. ThreadInv /\ CollectionInv /\ CallInv /\ ClassifierInv /\ AnswersInv
  BY DEF HistoryInv
<1>5. request \in Requests /\ responses \in Seq(Answer) /\ Len(responses) \in Nat
  BY <1>3, <1>4 DEF ThreadInv
<1>6. request.text \in Seq(Chars)
  BY <1>5, RequestIs
<1>7. x \in Answer
  <2>1. count_words(request.text) \in Nat /\ <<>> \in Seq(Nat)
    BY <1>6, WordsAreCounted
  <2> QED BY <1>5, <2>1 DEF Answer
<1>8. RightShape(x)
  <2>1. topic # ""
    BY ClassifierAssumption
  <2> QED BY <1>3, <2>1 DEF RightShape
<1> HIDE DEF x
<1>9. responses'[Len(responses) + 1] = x
  BY <1>2, <1>5, <1>7
<1>10. RightSummary(responses', Len(responses) + 1)
  BY <1>2, <1>3, <1>9 DEF RightSummary
<1>11. ThreadInv' /\ CollectionInv' /\ AnswersInv'
  BY <1>2, <1>3, <1>7, <1>8, <1>10, SendHistory
<1>12. ClassifierInv'
  <2>1. DOMAIN classifier = ToSet(Domains)
    BY <1>4 DEF ClassifierInv
  <2>2. DOMAIN classifier' = ToSet(Domains)
    BY <1>1, <2>1 DEF train_bayes_classifier
  <2>3. ASSUME NEW d \in ToSet(Domains)
        PROVE  Knows(classifier', d, Initial(trained', d), Taught(responses', d))
    <3> DEFINE a == Initial(trained, d)
               b == Taught(responses, d)
               b2 == Taught(responses', d)
    <3>1. Knows(classifier, d, a, b)
      BY <1>4 DEF ClassifierInv
    <3>2. /\ topic = d => OneMoreText(b, b2, Len(responses) + 1, request.text)
          /\ topic # d => b2 = b
      BY <1>2, <1>3, <1>5, <1>7, TaughtOfOneMore
    <3> HIDE DEF a, b, b2
    <3>3. CASE topic = d
      <4>1. Knows(train_bayes_classifier(classifier, request.text, d), d, a, b2)
        BY <1>6, <2>1, <3>1, <3>2, <3>3, Learns
      <4> QED BY <4>1, <3>3, <1>1, <1>3 DEF a, b2
    <3>4. CASE topic # d
      <4>1. Knows(train_bayes_classifier(classifier, request.text, topic), d, a, b)
        BY <2>1, <3>1, <3>4, OthersLearnNothing
      <4> QED BY <4>1, <3>2, <3>4, <1>1, <1>3 DEF a, b2
    <3> QED BY <3>3, <3>4
  <2> QED BY <2>2, <2>3 DEF ClassifierInv
<1>13. CallInv'
  <2>1. NoCall
    BY <1>3, <1>4 DEF CallInv
  <2> QED BY <1>3, <1>4, <2>1, CallStays DEF CallInv, callVars
<1> QED BY <1>11, <1>12, <1>13 DEF HistoryInv

(* generate_summary runs.                                                  *)
LEMMA SummariseHistory == HistoryInv /\ Summarise => HistoryInv'
<1> SUFFICES ASSUME HistoryInv, Summarise PROVE HistoryInv'
  OBVIOUS
<1>1. /\ request # NoRequest /\ request.type = "generate_summary" /\ SummaryNext
      /\ trained' = trained /\ request' = request /\ classifier' = classifier
      /\ responses' = responses
  BY DEF Summarise
<1>2. ThreadInv /\ CollectionInv /\ CallInv /\ ClassifierInv /\ AnswersInv
  BY DEF HistoryInv
<1>3. documents' = documents
  BY <1>1 DEF SummaryNext, NoSentence, ScoreSentences, Rank, Select, Order, Join
<1>4. ThreadInv' /\ CollectionInv' /\ ClassifierInv' /\ AnswersInv'
  BY <1>1, <1>2, <1>3 DEF ThreadInv, CollectionInv, ClassifierInv, AnswersInv
<1>5. CallInv'
  <2>1. documents # <<>>
    BY <1>1, <1>2, CollectionFacts
  <2>2. IInv'
    BY <1>1, <1>2, <2>1, NextInv DEF CallInv
  <2>3. phase' = "error" => SentenceEnds(Subject') = {}
    <3>1. Subject' = Subject
      BY <1>3 DEF Subject
    <3>2. phase' = "error" => SentenceEnds(Subject) = {}
      BY <1>1 DEF SummaryNext, NoSentence, ScoreSentences, Rank, Select, Order, Join
    <3> QED BY <3>1, <3>2
  <2> QED BY <1>1, <2>2, <2>3 DEF CallInv
<1> QED BY <1>4, <1>5 DEF HistoryInv

(* A summary is answered.                                                  *)
LEMMA SendSummaryHistory == HistoryInv /\ SendSummary => HistoryInv'
<1> SUFFICES ASSUME HistoryInv, SendSummary PROVE HistoryInv'
  OBVIOUS
<1> DEFINE summary == IF phase = "done" THEN Numbers(selected) ELSE <<0>>
           x == [request |-> request, status |-> "ok", topic |-> "", summary |-> summary,
                 word_count |-> count_words(request.text)]
<1>1. /\ responses' = Append(responses, x) /\ request' = NoRequest /\ x.request = request
      /\ trained' = trained /\ documents' = documents /\ classifier' = classifier
      /\ request # NoRequest /\ request.type = "generate_summary"
      /\ phase \in {"done", "error"} /\ NoCall'
  BY DEF SendSummary, Send, NoCall
<1>2. ThreadInv /\ CollectionInv /\ CallInv /\ ClassifierInv /\ AnswersInv
  BY DEF HistoryInv
<1>3. request \in Requests /\ responses \in Seq(Answer) /\ Len(responses) \in Nat
  BY <1>1, <1>2, LastAnswer
<1>4. request.text \in Seq(Chars)
  BY <1>3, RequestIs
<1>5. documents # <<>> /\ Subject = request.text /\ documents \in Collections /\ IInv
  BY <1>1, <1>2, CollectionFacts DEF CallInv, IInv
<1>6. phase = "done" => /\ SentenceEnds(Subject) # {}
                        /\ summary \in Best!Answers(documents) /\ summary # <<>>
                        /\ summary \in Seq(Nat)
  <2> SUFFICES ASSUME phase = "done"
               PROVE  /\ SentenceEnds(Subject) # {}
                      /\ Numbers(selected) \in Best!Answers(documents)
                      /\ Numbers(selected) # <<>> /\ Numbers(selected) \in Seq(Nat)
    OBVIOUS
  <2>1. Count > 0 /\ ArrayInv /\ ChoiceInv /\ Sorted(selected, EarlierFirst)
    BY <1>5 DEF IInv
  <2>2. SentenceEnds(Subject) # {}
    BY <1>5, <2>1, SubjectFacts
  <2>3. Numbers(selected) \in Best!Answers(documents) /\ Numbers(selected) # <<>>
    BY <1>5, <2>1, ChoiceIsBest
  <2>4. Numbers(selected) \in Seq(Nat)
    <3>1. selected \in Seq(Scored)
      BY <2>1 DEF ChoiceInv
    <3>2. \A k \in 1 .. Len(selected) : selected[k].number \in Nat
      <4>1. \A k \in 1 .. Len(selected) : selected[k] \in Scored
        BY <3>1
      <4>2. \A y \in Scored : y.number \in 1 .. Count
        BY <1>5, ElementFacts
      <4>3. Count \in Nat
        BY <1>5, SubjectFacts
      <4> QED BY <4>1, <4>2, <4>3
    <3> QED BY <3>1, <3>2 DEF Numbers
  <2> QED BY <2>2, <2>3, <2>4
<1>7. phase # "done" => SentenceEnds(Subject) = {} /\ summary = <<0>>
  BY <1>1, <1>2 DEF CallInv
<1>8. summary \in Seq(Nat) /\ summary # <<>>
  BY <1>6, <1>7
<1> HIDE DEF summary
<1>9. x \in Answer
  BY <1>3, <1>4, <1>8, WordsAreCounted DEF Answer
<1>10. RightShape(x) /\ x.request.type = "generate_summary" /\ x.summary = summary
  BY <1>1, <1>8 DEF RightShape
<1> HIDE DEF x
<1>11. responses'[Len(responses) + 1] = x
  BY <1>1, <1>3, <1>9
<1>12. RightSummary(responses', Len(responses) + 1)
  <2>1. TextsOf(responses', Len(responses) + 1) = documents
    <3>1. documents = Append(TextsOf(responses, Len(responses)), request.text)
      BY <1>1, <1>2 DEF CollectionInv
    <3>2. TextsOf(Append(responses, x), Len(responses) + 1)
            = Append(TextsOf(responses, Len(responses)), x.request.text)
      BY <1>3, <1>9, TextsOfOneMore
    <3> QED BY <3>1, <3>2, <1>1
  <2>2. documents[Len(responses) + 1] = Subject
    <3>1. Len(documents) = Len(responses) + 1
      BY <1>1, <1>2, CollectionFacts
    <3> QED BY <3>1 DEF Subject, Last
  <2> QED BY <1>6, <1>7, <1>10, <1>11, <2>1, <2>2 DEF RightSummary
<1>13. ThreadInv' /\ CollectionInv' /\ AnswersInv'
  BY <1>1, <1>9, <1>10, <1>12, SendHistory
<1>14. ClassifierInv'
  <2>1. x.request.type # "determine_topic"
    BY <1>10
  <2> QED BY <1>1, <1>9, <2>1, NothingTaught
<1>15. CallInv'
  <2>1. SummaryInit'
    BY <1>1, <1>5 DEF SummaryInit, NoCall
  <2>2. SummaryInit' => IInv'
    BY InitInv, PTL
  <2> QED BY <1>1, <2>1, <2>2 DEF CallInv, NoCall
<1> QED BY <1>13, <1>14, <1>15 DEF HistoryInv

(* Every step keeps the invariant.                                         *)
LEMMA NextHistory == HistoryInv /\ [Next]_vars => HistoryInv'
<1> SUFFICES ASSUME HistoryInv, [Next]_vars PROVE HistoryInv'
  OBVIOUS
<1>1. CASE UNCHANGED vars
  <2>1. /\ trained' = trained /\ request' = request /\ classifier' = classifier
        /\ responses' = responses /\ documents' = documents
        /\ UNCHANGED <<documents, callVars>>
    BY <1>1 DEF vars
  <2>2. phase' = phase
    BY <2>1 DEF callVars
  <2> QED BY <2>1, <2>2, CallStays
      DEF HistoryInv, ThreadInv, CollectionInv, CallInv, ClassifierInv, AnswersInv
<1> QED BY <1>1, TrainHistory, DequeueHistory, CountWordsHistory, DetermineTopicHistory,
           UnknownTypeHistory, SummariseHistory, SendSummaryHistory DEF Next

(* So it always holds.                                                     *)
LEMMA HistoryHolds == Spec => []HistoryInv
<1> QED BY InitHistory, NextHistory, PTL DEF Spec

-----------------------------------------------------------------------------
(* The theorems.                                                            *)

(* The classifier part of the invariant is the property.                   *)
LEMMA HistoryLearns == HistoryInv => LearnsItsAnswers
<1> SUFFICES ASSUME HistoryInv, NEW d \in ToSet(Domains)
             PROVE  /\ classifier[d].document_count
                         = Cardinality(DOMAIN LearntOf(d)) + Cardinality(DOMAIN TaughtBy(d))
                    /\ \A t : Copies(t, classifier[d].word_counts)
                                = CopiesInAll(t, LearntOf(d)) + CopiesInAll(t, TaughtBy(d))
  BY DEF LearnsItsAnswers
<1>1. LearntOf(d) = Initial(trained, d) /\ TaughtBy(d) = Taught(responses, d)
  <2>1. LearntOf(d) = Initial(trained, d)
    BY DEF LearntOf, Initial
  <2>2. {k \in TopicAnswers : responses[k].topic = d}
          = {k \in DOMAIN responses : responses[k].request.type = "determine_topic"
                                        /\ responses[k].topic = d}
    BY DEF TopicAnswers
  <2> QED BY <2>1, <2>2 DEF TaughtBy, Taught
<1>2. HasLearnt(classifier, d, Initial(trained, d), Taught(responses, d))
  BY DEF HistoryInv, ClassifierInv, Knows
<1> QED BY <1>1, <1>2 DEF HasLearnt

(* The classifier counts each text that it was trained with, of the initial *)
(* ones and of the requests, once and in the domain that was answered.      *)
THEOREM ClassifierLearnsAnswers == Spec => []LearnsItsAnswers
<1> QED BY HistoryHolds, HistoryLearns, PTL

(* So is the part about the answers.                                       *)
LEMMA HistorySummaries == HistoryInv => SummaryOfHistory
<1> SUFFICES ASSUME HistoryInv, NEW n \in DOMAIN responses
             PROVE  RightSummary(responses, n)
  BY DEF SummaryOfHistory, RightSummary, TextsOf
<1>1. n \in 1 .. Len(responses)
  BY DEF HistoryInv, ThreadInv
<1> QED BY <1>1 DEF HistoryInv, AnswersInv

(* Each summary sent is a best choice with respect to all the texts that    *)
(* came before it, for whatever service, and to no later one.               *)
THEOREM SummariesFollowHistory == Spec => []SummaryOfHistory
<1> QED BY HistoryHolds, HistorySummaries, PTL

(* The invariant says more than the type invariant.                        *)
LEMMA HistoryTypes == HistoryInv => TypeOK
<1> SUFFICES ASSUME HistoryInv PROVE TypeOK
  OBVIOUS
<1>1. ThreadInv /\ CollectionInv /\ CallInv /\ ClassifierInv /\ AnswersInv
  BY DEF HistoryInv
<1>2. ASSUME NEW d \in ToSet(Domains)
      PROVE  /\ classifier[d].document_count \in Nat /\ IsABag(classifier[d].word_counts)
             /\ trained = Len(InitialTraining) => classifier[d].document_count > 0
  <2> DEFINE a == Initial(trained, d)
             b == Taught(responses, d)
  <2>1. /\ classifier[d].document_count = Cardinality(DOMAIN a) + Cardinality(DOMAIN b)
        /\ IsABag(classifier[d].word_counts)
        /\ IsFiniteSet(DOMAIN a) /\ IsFiniteSet(DOMAIN b)
    BY <1>1 DEF ClassifierInv, Knows, HasLearnt, TextMap
  <2>2. Cardinality(DOMAIN a) \in Nat /\ Cardinality(DOMAIN b) \in Nat
    BY <2>1, FS_CardinalityType
  <2>3. ASSUME trained = Len(InitialTraining) PROVE Cardinality(DOMAIN a) # 0
    <3>1. PICK t \in ToSet(InitialTraining) : t.domain = d
      BY ProcessingAssumption
    <3>2. PICK n \in 1 .. Len(InitialTraining) : t = InitialTraining[n]
      <4>1. DOMAIN InitialTraining = 1 .. Len(InitialTraining)
        BY ProcessingAssumption
      <4> QED BY <4>1 DEF ToSet
    <3>3. n \in DOMAIN a
      BY <2>3, <3>1, <3>2 DEF Initial
    <3> HIDE DEF a
    <3> QED BY <2>1, <3>3, FS_EmptySet
  <2> HIDE DEF a, b
  <2> QED BY <2>1, <2>2, <2>3
<1>3. documents # <<>> => SummaryTypeOK
  BY <1>1, InvTypes DEF CallInv
<1>4. /\ documents \in Seq(Seq(Chars))
      /\ Len(documents) = Len(responses) + (IF request = NoRequest THEN 0 ELSE 1)
  BY <1>1, CollectionFacts
<1>5. ASSUME NEW n \in DOMAIN responses
      PROVE  /\ (responses[n].topic # "") = (n \in TopicAnswers)
             /\ (responses[n].summary # <<>>) = (responses[n].request.type = "generate_summary")
  <2>1. n \in 1 .. Len(responses)
    BY <1>1 DEF ThreadInv
  <2>2. RightShape(responses[n])
    BY <2>1, <1>1 DEF AnswersInv
  <2>3. (n \in TopicAnswers) = (responses[n].request.type = "determine_topic")
    BY DEF TopicAnswers
  <2>4. /\ (responses[n].topic # "") = (responses[n].request.type = "determine_topic")
        /\ (responses[n].summary # <<>>) = (responses[n].request.type = "generate_summary")
    BY <2>2 DEF RightShape
  <2> QED BY <2>3, <2>4
<1> QED BY <1>1, <1>2, <1>3, <1>4, <1>5 DEF TypeOK, ThreadInv, ClassifierInv

(* The thread keeps a document for each request, an answer has a topic or a *)
(* summary if it was asked for one, and no domain is without a text when    *)
(* the first request is answered.                                           *)
THEOREM ProcessingTypes == Spec => []TypeOK
<1> QED BY HistoryHolds, HistoryTypes, PTL

-----------------------------------------------------------------------------
(* How much the classifier counts, and what follows for long texts.         *)

(* The classifier has counted no more words than its texts have, and a      *)
(* domain that has a text has a word.                                       *)
DomainCounts(c, d) ==
  /\ c[d].document_count \in Nat
  /\ FiniteBag(c[d].word_counts)
  /\ Total(c[d].word_counts) <= MaxTokens * c[d].document_count
  /\ c[d].document_count > 0 => DOMAIN c[d].word_counts # {}

CountsInv ==
  /\ total_documents(classifier) <= trained + Len(responses)
  /\ \A d \in ToSet(Domains) : DomainCounts(classifier, d)

(* A text with two different tokens or more gets the topic its keywords     *)
(* give, whatever the server was asked before: classify_text_bayes accepts  *)
(* a probability above 1 / e only (nlp.c:188), which at most one token can  *)
(* have, so the training with its own answers (server.c:167) does not reach *)
(* such texts.                                                              *)
KeywordsDecide ==
  \A n \in TopicAnswers :
    LET text == responses[n].request.text IN
      Cardinality(DOMAIN tokenize_text(text)) > 1 => responses[n].topic = determine_topic(text)

KeywordsInv == HistoryInv /\ CountsInv /\ KeywordsDecide

(* Each domain of a classifier has a text, and there are not too many.      *)
Counted(c) ==
  /\ DOMAIN c = ToSet(Domains)
  /\ \A d \in ToSet(Domains) : DomainCounts(c, d) /\ c[d].document_count > 0
  /\ total_documents(c) <= Len(InitialTraining) + MaxRequests

(* As far as the table of logarithms reaches for sure.                      *)
Reach == 2 * MaxTokens * (Len(InitialTraining) + MaxRequests) + 1

(* There are finitely many domains.                                         *)
LEMMA DomainsAreFinite == IsFiniteSet(ToSet(Domains))
<1>1. Domains \in Seq(STRING)
  BY ClassifierAssumption
<1>2. Domains \in Surjection(1 .. Len(Domains), ToSet(Domains))
  BY <1>1 DEF Surjection, Range, ToSet
<1>3. IsFiniteSet(1 .. Len(Domains))
  BY <1>1, FS_Interval
<1> QED BY <1>2, <1>3, FS_Surjection

(* No domain has more texts than there are.                                 *)
LEMMA DocumentsInAll ==
  ASSUME NEW c, DOMAIN c = ToSet(Domains),
         \A d \in ToSet(Domains) : c[d].document_count \in Nat
  PROVE  /\ total_documents(c) \in Nat
         /\ \A d \in ToSet(Domains) : c[d].document_count <= total_documents(c)
         /\ (\A d \in ToSet(Domains) : c[d].document_count = 0) => total_documents(c) = 0
<1> DEFINE S == ToSet(Domains)
           F == [d \in S |-> c[d].document_count]
<1>1. total_documents(c) = SumOver(F, S)
  BY DEF total_documents, Total, SumOver
<1>2. \A d \in S : F[d] = c[d].document_count /\ F[d] \in Int /\ F[d] >= 0
  OBVIOUS
<1>3. IsFiniteSet(S)
  BY DomainsAreFinite
<1> HIDE DEF S, F
<1>4. SumOver(F, S) \in Int /\ SumOver(F, S) >= 0
  BY <1>2, <1>3, SumSigns
<1>5. \A d \in S : F[d] <= SumOver(F, S)
  BY <1>2, <1>3, TermsOfSum
<1>6. ASSUME \A d \in S : F[d] = 0 PROVE SumOver(F, S) = 0
  <2>1. \A d \in S : F[d] <= 0
    BY <1>6
  <2>2. SumOver(F, S) <= 0
    BY <2>1, <1>2, <1>3, SumSigns
  <2> QED BY <2>2, <1>4
<1> QED BY <1>1, <1>2, <1>4, <1>5, <1>6 DEF S

(* The tokens of a text are a finite bag.                                   *)
LEMMA TokensAreAFiniteBag ==
  ASSUME NEW text \in Seq(Chars)
  PROVE  FiniteBag(tokenize_text(text))
BY TokensAreABag, TokenCounts DEF FiniteBag

(* Training adds one to the texts, if it is for a domain.                   *)
LEMMA TrainingAddsOne ==
  ASSUME NEW c, DOMAIN c = ToSet(Domains),
         \A d \in ToSet(Domains) : c[d].document_count \in Nat,
         NEW text, NEW domain
  PROVE  LET c2 == train_bayes_classifier(c, text, domain) IN
           total_documents(c2)
             = total_documents(c) + (IF domain \in ToSet(Domains) THEN 1 ELSE 0)
<1> DEFINE c2 == train_bayes_classifier(c, text, domain)
           S == ToSet(Domains)
           F == [d \in S |-> c[d].document_count]
           G == [d \in S |-> c2[d].document_count]
<1>1. DOMAIN c2 = S
  BY DEF train_bayes_classifier
<1>2. \A d \in S : c2[d].document_count = c[d].document_count + (IF d = domain THEN 1 ELSE 0)
  BY TrainingIs
<1>3. total_documents(c) = SumOver(F, S) /\ total_documents(c2) = SumOver(G, S)
  BY <1>1 DEF total_documents, Total, SumOver
<1>4. \A d \in S : F[d] \in Int /\ G[d] \in Int /\ G[d] = F[d] + (IF d = domain THEN 1 ELSE 0)
  BY <1>2
<1>5. IsFiniteSet(S)
  BY DomainsAreFinite
<1> HIDE DEF F, G, S, c2
<1>6. CASE domain \in S
  <2> DEFINE R == S \ {domain}
  <2>1. /\ SumOver(F, S) = F[domain] + SumOver(F, R)
        /\ SumOver(G, S) = G[domain] + SumOver(G, R)
    BY <1>4, <1>5, <1>6, SumTakesOut
  <2>2. IsFiniteSet(R) /\ \A d \in R : F[d] \in Int /\ G[d] = F[d]
    BY <1>4, <1>5, FS_RemoveElement
  <2> HIDE DEF R
  <2>3. SumOver(G, R) = SumOver(F, R) /\ SumOver(F, R) \in Int
    BY <2>2, SumsSame
  <2>4. G[domain] = F[domain] + 1 /\ F[domain] \in Int
    BY <1>4, <1>6
  <2> QED BY <1>3, <1>6, <2>1, <2>3, <2>4 DEF c2, S
<1>7. CASE domain \notin S
  <2>1. \A d \in S : F[d] \in Int /\ G[d] = F[d]
    BY <1>4, <1>7
  <2>2. SumOver(G, S) = SumOver(F, S) /\ SumOver(F, S) \in Int
    BY <1>5, <2>1, SumsSame
  <2> QED BY <1>3, <1>7, <2>2 DEF c2, S
<1> QED BY <1>6, <1>7

(* Training counts one text more, and its words.                            *)
LEMMA TrainingCounts ==
  ASSUME NEW c, DOMAIN c = ToSet(Domains), \A d \in ToSet(Domains) : DomainCounts(c, d),
         NEW text \in Seq(Chars), Total(tokenize_text(text)) <= MaxTokens, NEW domain,
         domain \in ToSet(Domains) /\ c[domain].document_count = 0
           => DOMAIN tokenize_text(text) # {}
  PROVE  LET c2 == train_bayes_classifier(c, text, domain) IN
           /\ \A d \in ToSet(Domains) : DomainCounts(c2, d)
           /\ total_documents(c2) <= total_documents(c) + 1
<1> DEFINE c2 == train_bayes_classifier(c, text, domain)
           S == ToSet(Domains)
           tokens == tokenize_text(text)
<1>1. DOMAIN c2 = S
  BY DEF train_bayes_classifier
<1>2. \A d \in S :
        /\ d # domain => c2[d] = c[d]
        /\ d = domain => /\ c2[d].document_count = c[d].document_count + 1
                         /\ c2[d].word_counts = c[d].word_counts (+) tokens
  BY TrainingIs
<1>3. FiniteBag(tokens) /\ Total(tokens) \in Nat /\ Total(tokens) <= MaxTokens
  BY TokensAreAFiniteBag, WordsTotal
<1>4. domain \in S /\ c[domain].document_count = 0 => DOMAIN tokens # {}
  OBVIOUS
<1>5. MaxTokens \in Nat
  BY ProcessingAssumption
<1> HIDE DEF c2, S, tokens
<1>6. ASSUME NEW d \in S PROVE DomainCounts(c2, d)
  <2>1. DomainCounts(c, d)
    BY DEF S
  <2>2. CASE d # domain
    BY <2>1, <2>2, <1>2 DEF DomainCounts
  <2>3. CASE d = domain
    <3> DEFINE words == c[d].word_counts
               n == c[d].document_count
    <3>1. n \in Nat /\ FiniteBag(words) /\ Total(words) <= MaxTokens * n
          /\ (n > 0 => DOMAIN words # {})
      BY <2>1 DEF DomainCounts
    <3>2. c2[d].document_count = n + 1 /\ c2[d].word_counts = words (+) tokens
      BY <1>2, <2>3
    <3>3. n = 0 => DOMAIN tokens # {}
      BY <1>4, <2>3
    <3> HIDE DEF words, n
    <3>4. /\ FiniteBag(words (+) tokens)
          /\ DOMAIN (words (+) tokens) = DOMAIN words \union DOMAIN tokens
          /\ Total(words (+) tokens) = Total(words) + Total(tokens)
      BY <1>3, <3>1, WordsOfBoth
    <3>5. Total(words) \in Nat
      BY <3>1, WordsTotal
    <3>6. Total(words) + Total(tokens) <= MaxTokens * (n + 1)
      <4>1. MaxTokens * (n + 1) = MaxTokens * n + MaxTokens /\ MaxTokens * n \in Nat
        BY <1>5, <3>1
      <4> QED BY <4>1, <1>3, <1>5, <3>1, <3>5
    <3>7. DOMAIN (words (+) tokens) # {}
      BY <3>1, <3>3, <3>4
    <3> QED BY <3>1, <3>2, <3>4, <3>6, <3>7 DEF DomainCounts
  <2> QED BY <2>2, <2>3
<1>7. total_documents(c2) <= total_documents(c) + 1
  <2>1. \A d \in S : c[d].document_count \in Nat
    BY DEF DomainCounts, S
  <2>2. total_documents(c) \in Nat
    BY <2>1, DocumentsInAll DEF S
  <2>3. total_documents(c2) = total_documents(c) + (IF domain \in S THEN 1 ELSE 0)
    BY <2>1, TrainingAddsOne DEF c2, S
  <2> QED BY <2>2, <2>3
<1> QED BY <1>6, <1>7 DEF c2, S

(* Products of bounded numbers are bounded.                                 *)
LEMMA WithinReach ==
  ASSUME NEW k \in Nat, NEW m \in Nat, NEW n \in Nat, NEW w \in Nat, NEW v \in Nat,
         m <= n, w <= k * m, v <= w, v >= 1
  PROVE  w + v + 1 <= 2 * k * n + 1 /\ n <= 2 * k * n + 1
<1>1. k * m <= k * n /\ k * n \in Nat /\ k * m \in Nat
  OBVIOUS
<1>2. k >= 1
  <2>1. k = 0 => k * m = 0
    OBVIOUS
  <2> QED BY <2>1, <1>1
<1>3. n <= k * n
  BY <1>2
<1>4. 2 * k * n = 2 * (k * n)
  OBVIOUS
<1> QED BY <1>1, <1>3, <1>4

(* The table has the logarithms of all that is counted.                     *)
LEMMA ReachIsFar == Reach \in Nat /\ 1 .. Reach \subseteq DOMAIN Ln
<1>1. MaxTokens \in Nat /\ Len(InitialTraining) + MaxRequests \in Nat
  BY ProcessingAssumption
<1> QED BY <1>1, ProcessingAssumption DEF Reach

LEMMA CountsAreInReach ==
  ASSUME NEW c, Counted(c), NEW d \in ToSet(Domains)
  PROVE  /\ FiniteBag(c[d].word_counts) /\ DOMAIN c[d].word_counts # {}
         /\ Total(c[d].word_counts) + Cardinality(DOMAIN c[d].word_counts) + 1 <= Reach
         /\ c[d].document_count \in 1 .. Reach /\ total_documents(c) \in 1 .. Reach
         /\ c[d].document_count <= total_documents(c)
<1> DEFINE N == Len(InitialTraining) + MaxRequests
           words == c[d].word_counts
           m == c[d].document_count
<1>1. MaxTokens \in Nat /\ N \in Nat /\ Reach = 2 * MaxTokens * N + 1
  BY ProcessingAssumption DEF Reach
<1>2. /\ m \in Nat /\ m > 0 /\ FiniteBag(words) /\ Total(words) <= MaxTokens * m
      /\ DOMAIN words # {}
  BY DEF Counted, DomainCounts
<1>3. total_documents(c) \in Nat /\ m <= total_documents(c)
  BY DocumentsInAll DEF Counted, DomainCounts
<1>4. total_documents(c) <= N
  BY DEF Counted
<1> HIDE DEF words, m, N
<1>5. /\ Total(words) \in Nat /\ Cardinality(DOMAIN words) \in Nat
      /\ Cardinality(DOMAIN words) <= Total(words) /\ Cardinality(DOMAIN words) >= 1
  BY <1>2, WordsTotal
<1>6. m <= N
  BY <1>1, <1>2, <1>3, <1>4
<1>7. Total(words) + Cardinality(DOMAIN words) + 1 <= Reach /\ N <= Reach
  BY <1>1, <1>2, <1>5, <1>6, WithinReach
<1>8. Reach \in Nat
  BY ReachIsFar
<1>9. m \in 1 .. Reach /\ total_documents(c) \in 1 .. Reach
  BY <1>1, <1>2, <1>3, <1>4, <1>6, <1>7, <1>8
<1> QED BY <1>2, <1>3, <1>7, <1>9 DEF words, m

(* Once it has the initial texts, the classifier of the thread is counted.  *)
LEMMA ThreadIsCounted ==
  HistoryInv /\ CountsInv /\ trained = Len(InitialTraining) => Counted(classifier)
<1> SUFFICES ASSUME HistoryInv, CountsInv, trained = Len(InitialTraining)
             PROVE  Counted(classifier)
  OBVIOUS
<1>1. /\ DOMAIN classifier = ToSet(Domains)
      /\ \A d \in ToSet(Domains) : classifier[d].document_count > 0
  <2>1. TypeOK
    BY HistoryTypes
  <2> QED BY <2>1 DEF TypeOK
<1>2. \A d \in ToSet(Domains) : DomainCounts(classifier, d)
  BY DEF CountsInv
<1>3. total_documents(classifier) \in Nat
  BY <1>1, <1>2, DocumentsInAll DEF DomainCounts
<1>4. total_documents(classifier) <= Len(InitialTraining) + MaxRequests
  <2>1. Len(responses) \in Nat /\ Len(responses) <= MaxRequests
    BY DEF HistoryInv, ThreadInv
  <2>2. total_documents(classifier) <= trained + Len(responses)
    BY DEF CountsInv
  <2>3. Len(InitialTraining) \in Nat /\ MaxRequests \in Nat
    BY ProcessingAssumption
  <2> QED BY <2>1, <2>2, <2>3, <1>3
<1> QED BY <1>1, <1>2, <1>4 DEF Counted

(* The values that classify_text_bayes compares.                            *)
Values(c, text) == [n \in 1 .. Len(Domains) |-> LnProbability(c, text, Domains[n])]

LEMMA BayesCompares ==
  ASSUME NEW c, NEW text
  PROVE  /\ classify_text_bayes(c, text) = FirstLargest(Values(c, text), -Unit)
         /\ -Unit \in Int
BY DomainsAreListed, UnitIsNat DEF classify_text_bayes, Values

(* The classifier does not know the topic of a text with two tokens.        *)
LEMMA LongTextIsUnknown ==
  ASSUME NEW c, Counted(c),
         NEW text \in Seq(Chars), Cardinality(DOMAIN tokenize_text(text)) > 1
  PROVE  classify_text_bayes(c, text) = Unknown
<1>1. ASSUME NEW d \in ToSet(Domains)
      PROVE  LnProbability(c, text, d) \in Int /\ LnProbability(c, text, d) <= -Unit
  BY CountsAreInReach, ReachIsFar, TextIsUnlikely
<1>2. \A n \in 1 .. Len(Domains) : Values(c, text)[n] \in Int /\ Values(c, text)[n] <= -Unit
  BY <1>1, DomainsAreListed DEF Values
<1> QED BY <1>2, BayesCompares, NoneIsLargest

(* No text is longer than the most.                                         *)
LEMMA TextsAreShort ==
  /\ \A r \in Requests : Total(tokenize_text(r.text)) <= MaxTokens
  /\ \A n \in 1 .. Len(InitialTraining) :
       /\ InitialTraining[n].text \in Seq(Chars)
       /\ Total(tokenize_text(InitialTraining[n].text)) <= MaxTokens
       /\ DOMAIN tokenize_text(InitialTraining[n].text) # {}
<1> DEFINE P == [text : Seq(Chars), domain : ToSet(Domains)]
<1>1. InitialTraining \in Seq(P) /\ \A p \in P : p.text \in Seq(Chars)
  BY ProcessingAssumption
<1> HIDE DEF P
<1>2. ASSUME NEW n \in 1 .. Len(InitialTraining)
      PROVE  InitialTraining[n] \in ToSet(InitialTraining) /\ InitialTraining[n] \in P
  BY <1>1 DEF ToSet
<1>3. ASSUME NEW t \in ToSet(InitialTraining) \union Requests
      PROVE  Total(tokenize_text(t.text)) <= MaxTokens
  <2>1. t.text \in {u.text : u \in ToSet(InitialTraining) \union Requests}
    OBVIOUS
  <2> QED BY <2>1, ProcessingAssumption
<1>4. \A t \in ToSet(InitialTraining) : DOMAIN tokenize_text(t.text) # {}
  BY ProcessingAssumption
<1> QED BY <1>1, <1>2, <1>3, <1>4

(* Nothing is counted at first.                                             *)
LEMMA InitKeywords == Init => KeywordsInv
<1> SUFFICES ASSUME Init PROVE KeywordsInv
  OBVIOUS
<1>1. HistoryInv
  BY InitHistory
<1>2. trained = 0 /\ responses = <<>> /\ classifier = init_bayes_classifier
  BY DEF Init
<1>3. ASSUME NEW d \in ToSet(Domains)
      PROVE  classifier[d].document_count = 0 /\ DomainCounts(classifier, d)
  <2>1. classifier[d].document_count = 0 /\ classifier[d].word_counts = EmptyBag
    BY <1>2 DEF init_bayes_classifier
  <2>2. DOMAIN EmptyBag = {} /\ IsABag(EmptyBag)
    BY DEF EmptyBag, SetToBag, IsABag
  <2>3. FiniteBag(EmptyBag)
    BY <2>2, FS_EmptySet DEF FiniteBag
  <2>4. Total(EmptyBag) = 0
    <3>1. Total(EmptyBag) = SumOver(EmptyBag, {})
      BY <2>2 DEF Total, SumOver
    <3> QED BY <3>1, SumOfNone
  <2>5. MaxTokens \in Nat
    BY ProcessingAssumption
  <2> QED BY <2>1, <2>3, <2>4, <2>5 DEF DomainCounts
<1>4. total_documents(classifier) = 0
  <2>1. DOMAIN classifier = ToSet(Domains)
    BY <1>2 DEF init_bayes_classifier
  <2>2. \A d \in ToSet(Domains) : classifier[d].document_count = 0
    BY <1>3
  <2>3. \A d \in ToSet(Domains) : classifier[d].document_count \in Nat
    BY <2>2
  <2> QED BY <2>1, <2>2, <2>3, DocumentsInAll
<1>5. CountsInv
  BY <1>2, <1>3, <1>4 DEF CountsInv
<1>6. KeywordsDecide
  BY <1>2 DEF KeywordsDecide, TopicAnswers
<1> QED BY <1>1, <1>5, <1>6 DEF KeywordsInv

(* What an answer must be for the keywords to have decided.                 *)
LEMMA OneMoreDecided ==
  ASSUME KeywordsDecide, responses \in Seq(Answer), NEW x \in Answer,
         responses' = Append(responses, x),
         x.request.type = "determine_topic" /\ Cardinality(DOMAIN tokenize_text(x.request.text)) > 1
           => x.topic = determine_topic(x.request.text)
  PROVE  KeywordsDecide'
<1> SUFFICES ASSUME NEW n \in DOMAIN responses', responses'[n].request.type = "determine_topic",
                    Cardinality(DOMAIN tokenize_text(responses'[n].request.text)) > 1
             PROVE  responses'[n].topic = determine_topic(responses'[n].request.text)
  BY DEF KeywordsDecide, TopicAnswers
<1>1. \/ n \in DOMAIN responses /\ responses'[n] = responses[n]
      \/ responses'[n] = x
  OBVIOUS
<1> QED BY <1>1 DEF KeywordsDecide, TopicAnswers

(* A step that is not of the classifier.                                    *)
LEMMA CountsStay ==
  ASSUME CountsInv, HistoryInv, classifier' = classifier, trained' = trained,
         Len(responses') \in Nat, Len(responses) <= Len(responses')
  PROVE  CountsInv'
<1>1. trained \in Nat /\ Len(responses) \in Nat
  BY ProcessingAssumption DEF HistoryInv, ThreadInv
<1>2. \A d \in ToSet(Domains) : DomainCounts(classifier, d)
  BY DEF CountsInv
<1>3. \A d \in ToSet(Domains) : DomainCounts(classifier', d)
  BY <1>2
<1>4. total_documents(classifier) \in Nat
  <2>1. DOMAIN classifier = ToSet(Domains)
    BY DEF HistoryInv, ClassifierInv
  <2> QED BY <1>2, <2>1, DocumentsInAll DEF DomainCounts
<1>5. total_documents(classifier) <= trained + Len(responses)
  BY DEF CountsInv
<1>6. total_documents(classifier') <= trained' + Len(responses')
  BY <1>1, <1>4, <1>5
<1> QED BY <1>3, <1>6 DEF CountsInv

(* The classifier learns an initial text.                                   *)
LEMMA TrainKeywords == KeywordsInv /\ Train => CountsInv' /\ KeywordsDecide'
<1> SUFFICES ASSUME KeywordsInv, Train PROVE CountsInv' /\ KeywordsDecide'
  OBVIOUS
<1> DEFINE t == InitialTraining[trained + 1]
<1>1. /\ trained < Len(InitialTraining) /\ trained' = trained + 1
      /\ classifier' = train_bayes_classifier(classifier, t.text, t.domain)
      /\ responses' = responses
  BY DEF Train
<1>2. HistoryInv /\ CountsInv /\ KeywordsDecide
  BY DEF KeywordsInv
<1>3. /\ trained \in Nat /\ Len(InitialTraining) \in Nat /\ Len(responses) \in Nat
      /\ DOMAIN classifier = ToSet(Domains)
  BY <1>2, ProcessingAssumption DEF HistoryInv, ThreadInv, ClassifierInv
<1>4. /\ t.text \in Seq(Chars) /\ Total(tokenize_text(t.text)) <= MaxTokens
      /\ DOMAIN tokenize_text(t.text) # {}
  <2>1. trained + 1 \in 1 .. Len(InitialTraining)
    BY <1>1, <1>3
  <2> QED BY <2>1, TextsAreShort
<1>5. /\ \A d \in ToSet(Domains) : DomainCounts(classifier, d)
      /\ total_documents(classifier) <= trained + Len(responses)
  BY <1>2 DEF CountsInv
<1> HIDE DEF t
<1>6. /\ \A d \in ToSet(Domains) : DomainCounts(classifier', d)
      /\ total_documents(classifier') <= total_documents(classifier) + 1
  BY <1>1, <1>3, <1>4, <1>5, TrainingCounts
<1>7. total_documents(classifier) \in Nat
  BY <1>3, <1>5, DocumentsInAll DEF DomainCounts
<1>8. total_documents(classifier') \in Nat
  <2>1. DOMAIN classifier' = ToSet(Domains)
    BY <1>1, <1>3 DEF train_bayes_classifier
  <2> QED BY <2>1, <1>6, DocumentsInAll DEF DomainCounts
<1>9. total_documents(classifier') <= trained' + Len(responses')
  BY <1>1, <1>3, <1>5, <1>6, <1>7, <1>8
<1>10. KeywordsDecide'
  BY <1>1, <1>2 DEF KeywordsDecide, TopicAnswers
<1> QED BY <1>6, <1>9, <1>10 DEF CountsInv

(* A topic is answered: by the keywords, if the text is long.               *)
LEMMA DetermineTopicKeywords ==
  KeywordsInv /\ DetermineTopic => CountsInv' /\ KeywordsDecide'
<1> SUFFICES ASSUME KeywordsInv, DetermineTopic PROVE CountsInv' /\ KeywordsDecide'
  OBVIOUS
<1> DEFINE text == request.text
           bayes == classify_text_bayes(classifier, text)
           topic == IF bayes = Unknown THEN determine_topic(text) ELSE bayes
           x == [request |-> request, status |-> "ok", topic |-> topic, summary |-> <<>>,
                 word_count |-> count_words(text)]
<1>1. /\ classifier' = train_bayes_classifier(classifier, text, topic)
      /\ responses' = Append(responses, x)
      /\ trained' = trained /\ request # NoRequest /\ request.type = "determine_topic"
  BY DEF DetermineTopic, Send
<1>2. HistoryInv /\ CountsInv /\ KeywordsDecide
  BY DEF KeywordsInv
<1>3. /\ trained \in Nat /\ trained = Len(InitialTraining)
      /\ responses \in Seq(Answer) /\ request \in Requests
      /\ DOMAIN classifier = ToSet(Domains)
  BY <1>1, <1>2, ProcessingAssumption DEF HistoryInv, ThreadInv, ClassifierInv
<1>4. text \in Seq(Chars) /\ Total(tokenize_text(text)) <= MaxTokens
  BY <1>3, RequestIs, TextsAreShort
<1>5. topic \in ToSet(Domains) \union {Unknown}
  BY TopicIs
<1>6. x \in Answer
  <2>1. count_words(text) \in Nat /\ <<>> \in Seq(Nat)
    BY <1>4, WordsAreCounted
  <2> HIDE DEF topic, text
  <2> QED BY <1>3, <1>5, <2>1 DEF Answer
<1>7. Cardinality(DOMAIN tokenize_text(text)) > 1 => topic = determine_topic(text)
  BY <1>2, <1>3, <1>4, ThreadIsCounted, LongTextIsUnknown
<1>8. x.request = request /\ x.topic = topic
  OBVIOUS
<1>9. \A d \in ToSet(Domains) : classifier[d].document_count > 0
  <2>1. TypeOK
    BY <1>2, HistoryTypes
  <2> QED BY <2>1, <1>3 DEF TypeOK
<1>10. /\ \A d \in ToSet(Domains) : DomainCounts(classifier, d)
       /\ total_documents(classifier) <= trained + Len(responses)
  BY <1>2 DEF CountsInv
<1>11. Len(responses) \in Nat /\ Len(responses') = Len(responses) + 1
  BY <1>1, <1>3
<1> HIDE DEF x, topic, bayes
<1>12. KeywordsDecide'
  BY <1>1, <1>2, <1>3, <1>6, <1>7, <1>8, OneMoreDecided
<1> HIDE DEF text
<1>13. /\ \A d \in ToSet(Domains) : DomainCounts(classifier', d)
       /\ total_documents(classifier') <= total_documents(classifier) + 1
  <2>1. \A d \in ToSet(Domains) : classifier[d].document_count # 0
    BY <1>9
  <2> QED BY <2>1, <1>1, <1>3, <1>4, <1>10, TrainingCounts
<1>14. total_documents(classifier) \in Nat
  BY <1>3, <1>10, DocumentsInAll DEF DomainCounts
<1>15. total_documents(classifier') \in Nat
  <2>1. DOMAIN classifier' = ToSet(Domains)
    BY <1>1, <1>3 DEF train_bayes_classifier
  <2> QED BY <2>1, <1>13, DocumentsInAll DEF DomainCounts
<1>16. total_documents(classifier') <= trained' + Len(responses')
  BY <1>1, <1>3, <1>10, <1>11, <1>13, <1>14, <1>15
<1> QED BY <1>12, <1>13, <1>16 DEF CountsInv

(* A step that answers nothing and learns nothing.                          *)
LEMMA QuietKeywords ==
  ASSUME KeywordsInv, UNCHANGED <<trained, classifier, responses>>
  PROVE  CountsInv' /\ KeywordsDecide'
<1>1. HistoryInv /\ CountsInv /\ KeywordsDecide
  BY DEF KeywordsInv
<1>2. Len(responses) \in Nat
  BY <1>1 DEF HistoryInv, ThreadInv
<1>3. CountsInv'
  BY <1>1, <1>2, CountsStay
<1> QED BY <1>1, <1>3 DEF KeywordsDecide, TopicAnswers

(* What is appended to a sequence of things of a kind is of that kind.      *)
LEMMA LastIsIn ==
  ASSUME NEW A, NEW s \in Seq(A), NEW x, Append(s, x) \in Seq(A)
  PROVE  x \in A /\ Len(s) \in Nat /\ Len(Append(s, x)) = Len(s) + 1
<1>1. Len(s) \in Nat /\ s \in [1 .. Len(s) -> A \union {x}]
  OBVIOUS
<1>2. s \in Seq(A \union {x}) /\ x \in A \union {x}
  BY <1>1
<1>3. Len(Append(s, x)) = Len(s) + 1 /\ Append(s, x)[Len(s) + 1] = x
  BY <1>1, <1>2
<1>4. Len(s) + 1 \in 1 .. Len(Append(s, x))
  BY <1>1, <1>3
<1>5. Append(s, x)[Len(s) + 1] \in A
  BY <1>4
<1> QED BY <1>1, <1>3, <1>5

(* An answer that is not a topic.                                           *)
LEMMA OtherKeywords ==
  ASSUME KeywordsInv, classifier' = classifier, trained' = trained,
         NEW x, responses' = Append(responses, x), responses' \in Seq(Answer),
         x.request.type # "determine_topic"
  PROVE  CountsInv' /\ KeywordsDecide'
<1>1. HistoryInv /\ CountsInv /\ KeywordsDecide
  BY DEF KeywordsInv
<1>2. responses \in Seq(Answer)
  BY <1>1 DEF HistoryInv, ThreadInv
<1>3. /\ x \in Answer
      /\ Len(responses) \in Nat /\ Len(responses') = Len(responses) + 1
  BY <1>2, LastIsIn
<1>4. Len(responses') \in Nat /\ Len(responses) <= Len(responses')
  BY <1>3
<1>5. KeywordsDecide'
  BY <1>1, <1>2, <1>3, OneMoreDecided
<1>6. CountsInv'
  BY <1>1, <1>4, CountsStay
<1> QED BY <1>5, <1>6

(* What is sent last answers the request in hand.                           *)
LEMMA SentAnswers ==
  ASSUME NEW status, NEW topic, NEW summary, Send(status, topic, summary)
  PROVE  \E x : responses' = Append(responses, x) /\ x.request = request
BY DEF Send

(* Every step keeps the invariant.                                          *)
LEMMA NextKeywords == KeywordsInv /\ [Next]_vars => KeywordsInv'
<1> SUFFICES ASSUME KeywordsInv, [Next]_vars PROVE KeywordsInv'
  OBVIOUS
<1>0. HistoryInv'
  BY NextHistory DEF KeywordsInv
<1>1. HistoryInv' /\ responses' \in Seq(Answer)
  BY <1>0 DEF HistoryInv, ThreadInv
<1>2. CASE Train
  BY <1>1, <1>2, TrainKeywords DEF KeywordsInv
<1>3. CASE Dequeue
  <2>1. UNCHANGED <<trained, classifier, responses>>
    BY <1>3 DEF Dequeue
  <2> QED BY <1>1, <2>1, QuietKeywords DEF KeywordsInv
<1>4. CASE CountWords
  <2>1. /\ classifier' = classifier /\ trained' = trained
        /\ request.type # "determine_topic" /\ Send("ok", "", <<>>)
    BY <1>4 DEF CountWords
  <2>2. PICK x : responses' = Append(responses, x) /\ x.request = request
    BY <2>1, SentAnswers
  <2> QED BY <1>1, <2>1, <2>2, OtherKeywords DEF KeywordsInv
<1>5. CASE DetermineTopic
  BY <1>1, <1>5, DetermineTopicKeywords DEF KeywordsInv
<1>6. CASE UnknownType
  <2>1. /\ classifier' = classifier /\ trained' = trained
        /\ request.type # "determine_topic" /\ Send("error", "", <<>>)
    BY <1>6 DEF UnknownType
  <2>2. PICK x : responses' = Append(responses, x) /\ x.request = request
    BY <2>1, SentAnswers
  <2> QED BY <1>1, <2>1, <2>2, OtherKeywords DEF KeywordsInv
<1>7. CASE Summarise
  <2>1. UNCHANGED <<trained, classifier, responses>>
    BY <1>7 DEF Summarise
  <2> QED BY <1>1, <2>1, QuietKeywords DEF KeywordsInv
<1>8. CASE SendSummary
  <2> DEFINE summary == IF phase = "done" THEN Numbers(selected) ELSE <<0>>
  <2>1. /\ classifier' = classifier /\ trained' = trained
        /\ request.type # "determine_topic" /\ Send("ok", "", summary)
    BY <1>8 DEF SendSummary
  <2> HIDE DEF summary
  <2>2. PICK x : responses' = Append(responses, x) /\ x.request = request
    BY <2>1, SentAnswers
  <2> QED BY <1>1, <2>1, <2>2, OtherKeywords DEF KeywordsInv
<1>9. CASE UNCHANGED vars
  <2>1. UNCHANGED <<trained, classifier, responses>>
    BY <1>9 DEF vars
  <2> QED BY <1>1, <2>1, QuietKeywords DEF KeywordsInv
<1> QED BY <1>2, <1>3, <1>4, <1>5, <1>6, <1>7, <1>8, <1>9 DEF Next

(* However long the server runs and learns its own answers, the floor of    *)
(* nlp.c:188 keeps the classifier from deciding a text of two different     *)
(* tokens or more: LikeliestAnswered fails for all of them.                 *)
LEMMA KeywordsGiveTopic == Spec => []KeywordsDecide
<1>1. KeywordsInv => KeywordsDecide
  BY DEF KeywordsInv
<1> QED BY <1>1, InitKeywords, NextKeywords, PTL DEF Spec
-----------------------------------------------------------------------------
(* A text asked for again.                                                  *)

(* What is answered for a text, with this classifier.                       *)
TopicOf(c, text) ==
  LET bayes == classify_text_bayes(c, text)
  IN  IF bayes = Unknown THEN determine_topic(text) ELSE bayes

Prior(c, d) == Ln[c[d].document_count] - Ln[total_documents(c)]

(* The probability of a domain for a text with one token or none.           *)
LEMMA ShortProbability ==
  ASSUME NEW c, Counted(c), NEW d \in ToSet(Domains), NEW text \in Seq(Chars)
  PROVE  /\ Prior(c, d) \in Int /\ Prior(c, d) <= 0
         /\ \A t : LnConditional(t, c[d].word_counts) \in Int
         /\ DOMAIN tokenize_text(text) = {} => LnProbability(c, text, d) = Prior(c, d)
         /\ \A t : DOMAIN tokenize_text(text) = {t} =>
              LnProbability(c, text, d)
                = Prior(c, d) + tokenize_text(text)[t] * LnConditional(t, c[d].word_counts)
<1> DEFINE words == c[d].word_counts
           tokens == tokenize_text(text)
           terms == [t \in DOMAIN tokens |-> tokens[t] * LnConditional(t, words)]
<1>1. Reach \in Nat /\ 1 .. Reach \subseteq DOMAIN Ln
  BY ReachIsFar
<1>2. /\ FiniteBag(words) /\ DOMAIN words # {}
      /\ Total(words) + Cardinality(DOMAIN words) + 1 <= Reach
      /\ c[d].document_count \in 1 .. Reach /\ total_documents(c) \in 1 .. Reach
      /\ c[d].document_count <= total_documents(c)
  BY CountsAreInReach
<1>3. Prior(c, d) \in Int /\ Prior(c, d) <= 0
  BY <1>1, <1>2, LogsGrow DEF Prior
<1>4. \A t : LnConditional(t, words) \in Int
  BY <1>1, <1>2, TwoAreUnlikely
<1>5. LnProbability(c, text, d) = Prior(c, d) + SumOver(terms, DOMAIN tokens)
  <2>1. DOMAIN terms = DOMAIN tokens
    OBVIOUS
  <2>2. LnProbability(c, text, d) = Prior(c, d) + Total(terms)
    BY DEF LnProbability, Prior
  <2> HIDE DEF terms, tokens
  <2> QED BY <2>1, <2>2 DEF Total, SumOver
<1> HIDE DEF words
<1>6. ASSUME DOMAIN tokens = {} PROVE SumOver(terms, DOMAIN tokens) = 0
  <2> HIDE DEF terms
  <2> QED BY <1>6, SumOfNone
<1>7. ASSUME NEW t, DOMAIN tokens = {t}
      PROVE  SumOver(terms, DOMAIN tokens) = tokens[t] * LnConditional(t, words)
  <2>1. tokens[t] \in Nat /\ IsFiniteSet({t})
    BY <1>7, TokenCounts
  <2>2. terms[t] = tokens[t] * LnConditional(t, words)
    BY <1>7
  <2> HIDE DEF terms, tokens
  <2>3. terms[t] \in Int
    BY <1>4, <2>1, <2>2
  <2>4. SumOver(terms, {t}) = terms[t] + SumOver(terms, {t} \ {t})
    BY <2>1, <2>3, SumTakesOut
  <2>5. SumOver(terms, {t} \ {t}) = 0
    BY SumOfNone
  <2> QED BY <1>7, <2>2, <2>3, <2>4, <2>5
<1> HIDE DEF terms, tokens
<1> QED BY <1>3, <1>4, <1>5, <1>6, <1>7 DEF words, tokens

(* One token or none.                                                       *)
Short(text) == DOMAIN tokenize_text(text) = {} \/ \E t : DOMAIN tokenize_text(text) = {t}

LEMMA ShortOrLong ==
  ASSUME NEW text \in Seq(Chars)
  PROVE  Short(text) \/ Cardinality(DOMAIN tokenize_text(text)) > 1
<1> DEFINE T == DOMAIN tokenize_text(text)
<1>1. IsFiniteSet(T)
  BY TokenCounts
<1> HIDE DEF T
<1>2. CASE T = {}
  BY <1>2 DEF Short, T
<1>3. CASE T # {}
  <2>1. PICK t \in T : TRUE
    BY <1>3
  <2>2. /\ IsFiniteSet(T \ {t}) /\ Cardinality(T \ {t}) = Cardinality(T) - 1
        /\ Cardinality(T) \in Nat /\ Cardinality(T \ {t}) \in Nat
    BY <1>1, <2>1, FS_RemoveElement, FS_CardinalityType
  <2>3. CASE Cardinality(T) > 1
    BY <2>3 DEF T
  <2>4. CASE ~(Cardinality(T) > 1)
    <3>1. Cardinality(T \ {t}) = 0
      BY <2>2, <2>4
    <3>2. T \ {t} = {}
      BY <2>2, <3>1, FS_EmptySet
    <3>3. T = {t}
      BY <2>1, <3>2
    <3> QED BY <3>3 DEF Short, T
  <2> QED BY <2>3, <2>4
<1> QED BY <1>2, <1>3

LEMMA ShortValues ==
  ASSUME NEW c, Counted(c), NEW d \in ToSet(Domains), NEW text \in Seq(Chars), Short(text)
  PROVE  LnProbability(c, text, d) \in Int
<1>1. CASE DOMAIN tokenize_text(text) = {}
  BY <1>1, ShortProbability
<1>2. ASSUME NEW t, DOMAIN tokenize_text(text) = {t} PROVE LnProbability(c, text, d) \in Int
  <2>1. PICK n \in Nat : n = tokenize_text(text)[t]
    BY <1>2, TokenCounts
  <2>2. PICK x \in Int : x = LnConditional(t, c[d].word_counts)
    BY ShortProbability
  <2>3. n * x \in Int
    BY <2>1, <2>2
  <2>4. Prior(c, d) \in Int /\ LnProbability(c, text, d) = Prior(c, d) + n * x
    BY <1>2, <2>1, <2>2, ShortProbability
  <2> QED BY <2>3, <2>4
<1> QED BY <1>1, <1>2 DEF Short

(* A text learnt for one domain makes no other likelier.                    *)
LEMMA OthersGetNoLikelier ==
  ASSUME NEW c, Counted(c), NEW text \in Seq(Chars), Short(text), NEW domain \in ToSet(Domains),
         Counted(train_bayes_classifier(c, text, domain)),
         NEW d \in ToSet(Domains), d # domain
  PROVE  LnProbability(train_bayes_classifier(c, text, domain), text, d)
           <= LnProbability(c, text, d)
<1> DEFINE c2 == train_bayes_classifier(c, text, domain)
<1>1. c2[d] = c[d]
  BY TrainingIs DEF Counted
<1>2. total_documents(c2) = total_documents(c) + 1
  BY TrainingAddsOne DEF Counted, DomainCounts
<1> HIDE DEF c2
<1>3. Counted(c2)
  BY DEF c2
<1>4. total_documents(c) \in 1 .. Reach /\ total_documents(c2) \in 1 .. Reach
  BY <1>3, CountsAreInReach
<1>5. c[d].document_count \in 1 .. Reach
  BY CountsAreInReach
<1>6. Prior(c2, d) <= Prior(c, d)
  <2>1. /\ Ln[total_documents(c)] \in Int /\ Ln[total_documents(c2)] \in Int
        /\ Ln[total_documents(c)] <= Ln[total_documents(c2)]
    BY <1>2, <1>4, ReachIsFar, LogsGrow
  <2>2. Ln[c[d].document_count] \in Int
    BY <1>5, ReachIsFar, LogsGrow
  <2> QED BY <2>1, <2>2, <1>1 DEF Prior
<1>7. Prior(c, d) \in Int /\ Prior(c2, d) \in Int
  BY <1>3, ShortProbability
<1>8. CASE DOMAIN tokenize_text(text) = {}
  <2>1. LnProbability(c, text, d) = Prior(c, d) /\ LnProbability(c2, text, d) = Prior(c2, d)
    BY <1>3, <1>8, ShortProbability
  <2> QED BY <2>1, <1>6 DEF c2
<1>9. ASSUME NEW t, DOMAIN tokenize_text(text) = {t}
      PROVE  LnProbability(c2, text, d) <= LnProbability(c, text, d)
  <2> DEFINE x == tokenize_text(text)[t] * LnConditional(t, c[d].word_counts)
  <2>1. LnProbability(c, text, d) = Prior(c, d) + x
    BY <1>9, ShortProbability
  <2>2. LnProbability(c2, text, d) = Prior(c2, d) + x
    BY <1>1, <1>3, <1>9, ShortProbability
  <2>3. x \in Int
    <3>1. tokenize_text(text)[t] \in Nat
      BY <1>9, TokenCounts
    <3>2. LnConditional(t, c[d].word_counts) \in Int
      BY ShortProbability
    <3> QED BY <3>1, <3>2
  <2> HIDE DEF x
  <2> QED BY <1>6, <1>7, <2>1, <2>2, <2>3
<1> QED BY <1>8, <1>9 DEF Short, c2

(* A token that is likely in a domain is as likely, or likelier, there once *)
(* a text of n of it is learnt.                                             *)
LEMMA TokenGetsLikelier ==
  ASSUME NEW words, FiniteBag(words), DOMAIN words # {}, NEW tokens, FiniteBag(tokens),
         NEW t, DOMAIN tokens = {t},
         Total(words (+) tokens) + Cardinality(DOMAIN (words (+) tokens)) + 1 <= Reach,
         LnConditional(t, words) > -Unit
  PROVE  LnConditional(t, words) <= LnConditional(t, words (+) tokens)
<1> DEFINE n == tokens[t]
           k == Copies(t, words) + 1
           all == Total(words) + Cardinality(DOMAIN words) + 1
<1>1. n \in Nat /\ n > 0 /\ Total(tokens) = n
  <2>1. tokens[t] \in Nat /\ tokens[t] > 0 /\ IsFiniteSet({t})
    BY DEF FiniteBag, IsABag
  <2>2. Total(tokens) = SumOver(tokens, {t})
    BY DEF Total, SumOver
  <2>3. SumOver(tokens, {t}) = tokens[t] + SumOver(tokens, {t} \ {t})
    BY <2>1, SumTakesOut
  <2>4. SumOver(tokens, {t} \ {t}) = 0
    BY SumOfNone
  <2> QED BY <2>1, <2>2, <2>3, <2>4
<1>2. /\ FiniteBag(words (+) tokens) /\ DOMAIN (words (+) tokens) = DOMAIN words \union {t}
      /\ Total(words (+) tokens) = Total(words) + n
  BY <1>1, WordsOfBoth
<1>3. Copies(t, words (+) tokens) = Copies(t, words) + n
  <2>1. Copies(t, tokens) = n
    BY DEF Copies
  <2> QED BY <2>1, CopiesOfBoth DEF FiniteBag
<1>4. /\ Total(words) \in Nat /\ Cardinality(DOMAIN words) \in Nat
      /\ Cardinality(DOMAIN words) >= 1 /\ Cardinality(DOMAIN words) <= Total(words)
      /\ Copies(t, words) \in Nat /\ Copies(t, words) <= Total(words)
  BY WordsTotal
<1>5. LnConditional(t, words) = Ln[k] - Ln[all]
  BY DEF LnConditional
<1>6. Cardinality(DOMAIN (words (+) tokens)) \in Nat
  BY <1>2, WordsTotal
<1>7. Cardinality(DOMAIN words) <= Cardinality(DOMAIN (words (+) tokens))
  <2>1. IsFiniteSet(DOMAIN (words (+) tokens)) /\ DOMAIN words \subseteq DOMAIN (words (+) tokens)
    BY <1>2 DEF FiniteBag
  <2> QED BY <2>1, FS_Subset
<1>8. all + n <= Reach /\ k <= all /\ all >= 3 /\ all \in Nat /\ k \in Nat
  <2> DEFINE W == Total(words)
             C == Cardinality(DOMAIN words)
             D == Cardinality(DOMAIN (words (+) tokens))
             V == Total(words (+) tokens)
             q == Copies(t, words)
  <2>1. k = q + 1 /\ all = W + C + 1 /\ V = W + n /\ V + D + 1 <= Reach
    BY <1>2
  <2>2. W \in Nat /\ C \in Nat /\ D \in Nat /\ q \in Nat /\ n \in Nat /\ Reach \in Nat
    BY <1>1, <1>4, <1>6, ReachIsFar
  <2>3. C >= 1 /\ C <= W /\ q <= W /\ C <= D
    BY <1>4, <1>7
  <2> HIDE DEF W, C, D, V, q, n, k, all
  <2> QED BY <2>1, <2>2, <2>3
<1>9. Reach \in Nat /\ 1 .. Reach \subseteq DOMAIN Ln
  BY ReachIsFar
<1>10. t \in DOMAIN words
  <2>1. SUFFICES ASSUME t \notin DOMAIN words PROVE FALSE
    OBVIOUS
  <2>2. k = 1
    BY <2>1 DEF Copies
  <2>3. all \in DOMAIN Ln /\ Ln[all] \in Int
    BY <1>1, <1>8, <1>9, TextAssumption
  <2>4. Ln[all] >= Unit /\ Ln[1] = 0
    BY <1>8, <2>3, ClassifierAssumption, TextAssumption
  <2> HIDE DEF all, k
  <2> QED BY <1>5, <2>2, <2>3, <2>4, UnitIsNat
<1>11. DOMAIN (words (+) tokens) = DOMAIN words
  BY <1>2, <1>10
<1>12. LnConditional(t, words (+) tokens) = Ln[k + n] - Ln[all + n]
  <2>1. /\ Copies(t, words (+) tokens) + 1 = k + n
        /\ Total(words (+) tokens) + Cardinality(DOMAIN (words (+) tokens)) + 1 = all + n
    BY <1>1, <1>2, <1>3, <1>4, <1>11
  <2> HIDE DEF k, all
  <2> QED BY <2>1 DEF LnConditional
<1>13. k \in 1 .. Reach /\ all \in 1 .. Reach
  BY <1>1, <1>4, <1>8, <1>9
<1> HIDE DEF k, all, n
<1>14. Ln[k] - Ln[all] <= Ln[k + n] - Ln[all + n]
  BY <1>1, <1>8, <1>9, <1>13, LogsFlatten
<1> QED BY <1>5, <1>12, <1>14

(* The domain that is learnt gets no less likely.                           *)
LEMMA OwnGetsLikelier ==
  ASSUME NEW c, Counted(c), NEW text \in Seq(Chars), Short(text), NEW d \in ToSet(Domains),
         Counted(train_bayes_classifier(c, text, d)),
         LnProbability(c, text, d) > -Unit
  PROVE  LnProbability(c, text, d)
           <= LnProbability(train_bayes_classifier(c, text, d), text, d)
<1> DEFINE c2 == train_bayes_classifier(c, text, d)
           m == c[d].document_count
           N == total_documents(c)
           words == c[d].word_counts
           tokens == tokenize_text(text)
<1>1. c2[d].document_count = m + 1 /\ c2[d].word_counts = words (+) tokens
  BY TrainingIs DEF Counted
<1>2. total_documents(c2) = N + 1
  BY TrainingAddsOne DEF Counted, DomainCounts
<1> HIDE DEF c2
<1>3. Counted(c2)
  BY DEF c2
<1>4. /\ m \in 1 .. Reach /\ N \in 1 .. Reach /\ m <= N
      /\ FiniteBag(words) /\ DOMAIN words # {}
  BY CountsAreInReach
<1>5. /\ total_documents(c2) \in 1 .. Reach
      /\ Total(c2[d].word_counts) + Cardinality(DOMAIN c2[d].word_counts) + 1 <= Reach
  BY <1>3, CountsAreInReach
<1>6. Reach \in Nat /\ 1 .. Reach \subseteq DOMAIN Ln
  BY ReachIsFar
<1>7. Prior(c, d) = Ln[m] - Ln[N] /\ Prior(c2, d) = Ln[m + 1] - Ln[N + 1]
  BY <1>1, <1>2 DEF Prior
<1>8. /\ Prior(c, d) \in Int /\ Prior(c, d) <= 0 /\ Prior(c2, d) \in Int
      /\ \A t : LnConditional(t, words) \in Int
      /\ \A t : LnConditional(t, words (+) tokens) \in Int
  BY <1>1, <1>3, ShortProbability
<1>9. FiniteBag(tokens) /\ \A t \in DOMAIN tokens : tokens[t] \in Nat /\ tokens[t] > 0
  BY TokensAreAFiniteBag, TokenCounts
<1>10. ASSUME DOMAIN tokens = {}
       PROVE  LnProbability(c, text, d) = Prior(c, d) /\ LnProbability(c2, text, d) = Prior(c2, d)
  BY <1>3, <1>10, ShortProbability
<1>11. ASSUME NEW t, DOMAIN tokens = {t}
       PROVE  /\ LnProbability(c, text, d) = Prior(c, d) + tokens[t] * LnConditional(t, words)
              /\ LnProbability(c2, text, d)
                   = Prior(c2, d) + tokens[t] * LnConditional(t, words (+) tokens)
  BY <1>1, <1>3, <1>11, ShortProbability
<1> HIDE DEF m, N, words, tokens
<1>12. Prior(c, d) <= Prior(c2, d)
  <2>1. N + 1 <= Reach
    BY <1>2, <1>5
  <2> QED BY <1>4, <1>6, <1>7, <2>1, LogsFlatten
<1>13. CASE DOMAIN tokens = {}
  BY <1>10, <1>12, <1>13 DEF c2
<1>14. ASSUME NEW t, DOMAIN tokens = {t}
       PROVE  LnProbability(c, text, d) <= LnProbability(c2, text, d)
  <2>1. PICK n \in Nat : n = tokens[t] /\ n > 0
    BY <1>9, <1>14
  <2>2. PICK x \in Int : x = LnConditional(t, words)
    BY <1>8
  <2>3. PICK y \in Int : y = LnConditional(t, words (+) tokens)
    BY <1>8
  <2>4. /\ LnProbability(c, text, d) = Prior(c, d) + n * x
        /\ LnProbability(c2, text, d) = Prior(c2, d) + n * y
    BY <1>11, <1>14, <2>1, <2>2, <2>3
  <2>5. x > -Unit
    <3>1. n * x \in Int /\ (x <= 0 => n * x <= x)
      BY <2>1, <2>2
    <3>2. n * x > -Unit
      BY <1>8, <2>4, <3>1, UnitIsNat
    <3> QED BY <2>2, <3>1, <3>2, UnitIsNat
  <2>6. x <= y
    BY <1>1, <1>4, <1>5, <1>9, <1>14, <2>2, <2>3, <2>5, TokenGetsLikelier
  <2>7. n * x <= n * y /\ n * x \in Int /\ n * y \in Int
    BY <2>1, <2>2, <2>3, <2>6
  <2> QED BY <1>8, <1>12, <2>4, <2>7
<1> QED BY <1>13, <1>14 DEF Short, c2, tokens

(* To learn an answer does not undo it.                                     *)
LEMMA AnswerStays ==
  ASSUME NEW c, Counted(c), NEW text \in Seq(Chars),
         Counted(train_bayes_classifier(c, text, TopicOf(c, text)))
  PROVE  TopicOf(train_bayes_classifier(c, text, TopicOf(c, text)), text) = TopicOf(c, text)
<1> DEFINE topic == TopicOf(c, text)
           c2 == train_bayes_classifier(c, text, topic)
           v == Values(c, text)
           w == Values(c2, text)
<1>1. CASE topic = Unknown
  <2>1. c2 = c
    BY <1>1, ClassifierAssumption DEF train_bayes_classifier, Counted
  <2> QED BY <2>1
<1>2. CASE Cardinality(DOMAIN tokenize_text(text)) > 1
  <2>1. classify_text_bayes(c, text) = Unknown
    BY <1>2, LongTextIsUnknown
  <2> HIDE DEF topic
  <2>2. classify_text_bayes(c2, text) = Unknown
    BY <1>2, LongTextIsUnknown DEF topic
  <2> QED BY <2>1, <2>2 DEF TopicOf, topic
<1>3. ASSUME topic # Unknown, Short(text) PROVE TopicOf(c2, text) = topic
  <2>1. topic \in ToSet(Domains)
    BY <1>3, TopicIs DEF TopicOf
  <2>2. Counted(c2)
    OBVIOUS
  <2>3. \A n \in 1 .. Len(Domains) : v[n] \in Int /\ w[n] \in Int
    <3> HIDE DEF c2
    <3> QED BY <1>3, <2>2, ShortValues, DomainsAreListed DEF Values
  <2>4. \A n \in 1 .. Len(Domains) : Domains[n] # topic => w[n] <= v[n]
    <3> HIDE DEF topic
    <3> QED BY <1>3, <2>1, <2>2, OthersGetNoLikelier, DomainsAreListed DEF Values
  <2>5. \A n \in 1 .. Len(Domains) : Domains[n] = topic /\ v[n] > -Unit => v[n] <= w[n]
    <3> HIDE DEF topic
    <3> QED BY <1>3, <2>1, <2>2, OwnGetsLikelier, DomainsAreListed DEF Values
  <2>6. /\ classify_text_bayes(c, text) = FirstLargest(v, -Unit)
        /\ classify_text_bayes(c2, text) = FirstLargest(w, -Unit) /\ -Unit \in Int
    BY BayesCompares
  <2>7. \/ classify_text_bayes(c, text) = topic
        \/ classify_text_bayes(c, text) = Unknown /\ determine_topic(text) = topic
    BY <1>3 DEF TopicOf
  <2> HIDE DEF topic, c2, v, w
  <2>8. CASE classify_text_bayes(c, text) = topic
    <3>1. PICK k \in 1 .. Len(Domains) :
            topic = Domains[k] /\ v[k] > -Unit /\ Leads(v, k, Len(Domains))
      BY <1>3, <2>3, <2>6, <2>8, LargestIsFound
    <3>2. \A n \in 1 .. Len(Domains) : IF Domains[n] = topic THEN v[n] <= w[n] ELSE w[n] <= v[n]
      BY <3>1, <2>4, <2>5, DomainsAreListed
    <3>3. FirstLargest(w, -Unit) = topic
      BY <1>3, <2>3, <2>6, <2>8, <3>2, LargestStays
    <3> QED BY <1>3, <2>6, <3>3 DEF TopicOf
  <2>9. CASE classify_text_bayes(c, text) = Unknown /\ determine_topic(text) = topic
    <3>1. \A n \in 1 .. Len(Domains) : v[n] <= -Unit
      BY <2>3, <2>6, <2>9, LargestIsFound, DomainsAreListed
    <3>2. \A n \in 1 .. Len(Domains) : w[n] > -Unit => Domains[n] = topic
      BY <2>3, <2>4, <2>6, <3>1
    <3>3. classify_text_bayes(c2, text) = Unknown \/ classify_text_bayes(c2, text) = topic
      BY <2>3, <2>6, <3>2, LargestIsFound
    <3> QED BY <1>3, <2>9, <3>3 DEF TopicOf
  <2> QED BY <2>7, <2>8, <2>9
<1> QED BY <1>1, <1>2, <1>3, ShortOrLong

(* The last answer for a topic holds: the same text would get it again.     *)
LastHolds ==
  \A m \in TopicAnswers :
    TopicAnswers \intersect (m + 1 .. Len(responses)) = {} =>
      TopicOf(classifier, responses[m].request.text) = responses[m].topic

AskedInv == AskedAgain /\ LastHolds

(* One response more.                                                       *)
LEMMA TopicAnswersOfOneMore ==
  ASSUME responses \in Seq(Answer), NEW x \in Answer, responses' = Append(responses, x)
  PROVE  /\ Len(responses) \in Nat /\ Len(responses') = Len(responses) + 1
         /\ TopicAnswers \subseteq 1 .. Len(responses)
         /\ responses'[Len(responses) + 1] = x
         /\ \A n \in TopicAnswers : responses'[n] = responses[n]
         /\ TopicAnswers' = TopicAnswers \union
              (IF x.request.type = "determine_topic" THEN {Len(responses) + 1} ELSE {})
<1> DEFINE l == Len(responses)
<1>1. /\ l \in Nat /\ DOMAIN responses = 1 .. l /\ DOMAIN responses' = 1 .. l + 1
      /\ Len(responses') = l + 1
      /\ responses'[l + 1] = x /\ \A n \in 1 .. l : responses'[n] = responses[n]
  OBVIOUS
<1> HIDE DEF l
<1>2. \A n : n \in 1 .. l + 1 <=> n \in 1 .. l \/ n = l + 1
  BY <1>1
<1>3. TopicAnswers \subseteq 1 .. l
  BY <1>1 DEF TopicAnswers
<1>4. \A n : n \in TopicAnswers' <=>
        n \in TopicAnswers \/ (n = l + 1 /\ x.request.type = "determine_topic")
  BY <1>1, <1>2 DEF TopicAnswers
<1>5. TopicAnswers' = TopicAnswers \union
        (IF x.request.type = "determine_topic" THEN {l + 1} ELSE {})
  BY <1>4
<1> QED BY <1>1, <1>3, <1>5 DEF l

(* An answer that is not a topic.                                           *)
LEMMA OtherAsked ==
  ASSUME AskedInv, responses \in Seq(Answer), NEW x \in Answer, responses' = Append(responses, x),
         classifier' = classifier, x.request.type # "determine_topic"
  PROVE  AskedInv'
<1> DEFINE l == Len(responses)
<1>1. /\ l \in Nat /\ Len(responses') = l + 1 /\ TopicAnswers \subseteq 1 .. l
      /\ \A n \in TopicAnswers : responses'[n] = responses[n]
      /\ TopicAnswers' = TopicAnswers
  BY TopicAnswersOfOneMore
<1>2. AskedAgain'
  BY <1>1 DEF AskedInv, AskedAgain
<1>3. LastHolds'
  <2> SUFFICES ASSUME NEW m \in TopicAnswers, TopicAnswers \intersect (m + 1 .. l + 1) = {}
               PROVE  TopicOf(classifier, responses[m].request.text) = responses[m].topic
    BY <1>1 DEF LastHolds
  <2>1. TopicAnswers \intersect (m + 1 .. l) = {}
    BY <1>1
  <2> QED BY <2>1 DEF AskedInv, LastHolds
<1> QED BY <1>2, <1>3 DEF AskedInv

(* A topic is answered, as before if it was asked for before, and learnt,   *)
(* which does not undo it.                                                  *)
LEMMA DetermineTopicAsked ==
  KeywordsInv /\ KeywordsInv' /\ AskedInv /\ DetermineTopic => AskedInv'
<1> SUFFICES ASSUME KeywordsInv, KeywordsInv', AskedInv, DetermineTopic PROVE AskedInv'
  OBVIOUS
<1> DEFINE text == request.text
           topic == TopicOf(classifier, text)
           x == [request |-> request, status |-> "ok", topic |-> topic, summary |-> <<>>,
                 word_count |-> count_words(text)]
           l == Len(responses)
<1>1. /\ classifier' = train_bayes_classifier(classifier, text, topic)
      /\ responses' = Append(responses, x)
      /\ trained' = trained /\ request # NoRequest /\ request.type = "determine_topic"
  BY DEF DetermineTopic, Send, TopicOf
<1>2. HistoryInv /\ CountsInv /\ HistoryInv' /\ CountsInv'
  BY DEF KeywordsInv
<1>3. /\ trained = Len(InitialTraining) /\ responses \in Seq(Answer)
      /\ request \in Requests /\ responses' \in Seq(Answer)
  BY <1>1, <1>2 DEF HistoryInv, ThreadInv
<1>4. text \in Seq(Chars)
  BY <1>3, RequestIs
<1>5. Counted(classifier)
  BY <1>2, <1>3, ThreadIsCounted
<1>6. Counted(classifier')
  <2>1. trained' = Len(InitialTraining)
    BY <1>1, <1>3
  <2>2. (HistoryInv /\ CountsInv /\ trained = Len(InitialTraining))' => Counted(classifier)'
    BY ThreadIsCounted, PTL
  <2> QED BY <1>2, <2>1, <2>2
<1>7. TopicOf(classifier', text) = topic
  BY <1>1, <1>4, <1>5, <1>6, AnswerStays
<1>8. x \in Answer
  BY <1>1, <1>3, LastIsIn
<1>9. x.request = request /\ x.topic = topic
  OBVIOUS
<1> HIDE DEF x
<1>10. /\ l \in Nat /\ Len(responses') = l + 1 /\ TopicAnswers \subseteq 1 .. l
       /\ responses'[l + 1] = x
       /\ \A n \in TopicAnswers : responses'[n] = responses[n]
       /\ TopicAnswers' = TopicAnswers \union {l + 1}
  BY <1>1, <1>3, <1>8, <1>9, TopicAnswersOfOneMore
<1> HIDE DEF topic, l
<1>11. AskedAgain'
  <2> SUFFICES ASSUME NEW m \in TopicAnswers', NEW n \in TopicAnswers', m < n,
                      TopicAnswers' \intersect (m + 1 .. n - 1) = {},
                      responses'[m].request = responses'[n].request
               PROVE  responses'[m].topic = responses'[n].topic
    BY DEF AskedAgain
  <2>1. CASE n \in TopicAnswers
    <3>1. m \in TopicAnswers
      BY <2>1, <1>10
    <3>2. TopicAnswers \intersect (m + 1 .. n - 1) = {}
      BY <1>10
    <3> QED BY <2>1, <3>1, <3>2, <1>10 DEF AskedInv, AskedAgain
  <2>2. CASE n = l + 1
    <3>1. m \in TopicAnswers
      BY <2>2, <1>10
    <3>2. TopicAnswers \intersect (m + 1 .. l) = {}
      BY <2>2, <1>10
    <3>3. TopicOf(classifier, responses[m].request.text) = responses[m].topic
      BY <3>1, <3>2 DEF AskedInv, LastHolds, l
    <3>4. responses[m].request = request
      BY <2>2, <3>1, <1>9, <1>10
    <3> QED BY <2>2, <3>1, <3>3, <3>4, <1>9, <1>10 DEF topic
  <2> QED BY <2>1, <2>2, <1>10
<1>12. LastHolds'
  <2> SUFFICES ASSUME NEW m \in TopicAnswers', TopicAnswers' \intersect (m + 1 .. l + 1) = {}
               PROVE  TopicOf(classifier', responses'[m].request.text) = responses'[m].topic
    BY <1>10 DEF LastHolds
  <2>1. m = l + 1
    <3>1. m \in TopicAnswers => l + 1 \in m + 1 .. l + 1
      BY <1>10
    <3> QED BY <3>1, <1>10
  <2> QED BY <2>1, <1>7, <1>9, <1>10
<1> QED BY <1>11, <1>12 DEF AskedInv

(* Every step keeps the last answer.                                        *)
LEMMA NextAsked == KeywordsInv /\ KeywordsInv' /\ AskedInv /\ [Next]_vars => AskedInv'
<1> SUFFICES ASSUME KeywordsInv, KeywordsInv', AskedInv, [Next]_vars PROVE AskedInv'
  OBVIOUS
<1>1. /\ responses \in Seq(Answer) /\ responses' \in Seq(Answer)
      /\ responses # <<>> => trained = Len(InitialTraining)
  BY DEF KeywordsInv, HistoryInv, ThreadInv
<1>2. ASSUME UNCHANGED <<classifier, responses>> PROVE AskedInv'
  BY <1>2 DEF AskedInv, AskedAgain, LastHolds, TopicAnswers
<1>3. ASSUME NEW x, responses' = Append(responses, x), x.request.type # "determine_topic",
             classifier' = classifier
      PROVE  AskedInv'
  <2>1. x \in Answer
    BY <1>1, <1>3, LastIsIn
  <2> QED BY <1>1, <1>3, <2>1, OtherAsked
<1>4. CASE Train
  <2>1. responses = <<>> /\ responses' = <<>>
    BY <1>1, <1>4, ProcessingAssumption DEF Train
  <2>2. TopicAnswers' = {}
    BY <2>1 DEF TopicAnswers
  <2> QED BY <2>2 DEF AskedInv, AskedAgain, LastHolds
<1>5. CASE Dequeue
  BY <1>2, <1>5 DEF Dequeue
<1>6. CASE CountWords
  <2>1. /\ classifier' = classifier /\ request.type # "determine_topic"
        /\ Send("ok", "", <<>>)
    BY <1>6 DEF CountWords
  <2>2. PICK x : responses' = Append(responses, x) /\ x.request = request
    BY <2>1, SentAnswers
  <2> QED BY <1>3, <2>1, <2>2
<1>7. CASE DetermineTopic
  BY <1>7, DetermineTopicAsked
<1>8. CASE UnknownType
  <2>1. /\ classifier' = classifier /\ request.type # "determine_topic"
        /\ Send("error", "", <<>>)
    BY <1>8 DEF UnknownType
  <2>2. PICK x : responses' = Append(responses, x) /\ x.request = request
    BY <2>1, SentAnswers
  <2> QED BY <1>3, <2>1, <2>2
<1>9. CASE Summarise
  BY <1>2, <1>9 DEF Summarise
<1>10. CASE SendSummary
  <2> DEFINE summary == IF phase = "done" THEN Numbers(selected) ELSE <<0>>
  <2>1. /\ classifier' = classifier /\ request.type # "determine_topic"
        /\ Send("ok", "", summary)
    BY <1>10 DEF SendSummary
  <2> HIDE DEF summary
  <2>2. PICK x : responses' = Append(responses, x) /\ x.request = request
    BY <2>1, SentAnswers
  <2> QED BY <1>3, <2>1, <2>2
<1>11. CASE UNCHANGED vars
  BY <1>2, <1>11 DEF vars
<1> QED BY <1>4, <1>5, <1>6, <1>7, <1>8, <1>9, <1>10, <1>11 DEF Next

(* A text asked for twice, with no other topic in between, gets the same    *)
(* topic: a text with two tokens from its keywords both times; any other    *)
(* since what the server answers it learns, which makes the domain that was *)
(* answered no less likely for the text, and no other one likelier.         *)
THEOREM AnswersRepeat == Spec => []AskedAgain
<1>1. Init => AskedInv
  <2>1. Init => TopicAnswers = {}
    BY DEF Init, TopicAnswers
  <2> QED BY <2>1 DEF AskedInv, AskedAgain, LastHolds
<1>2. AskedInv => AskedAgain
  BY DEF AskedInv
<1> QED BY <1>1, <1>2, InitKeywords, NextKeywords, NextAsked, PTL DEF Spec
=============================================================================
