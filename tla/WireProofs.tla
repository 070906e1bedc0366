----------------------------- MODULE WireProofs -----------------------------
(***************************************************************************)
(* Proofs about Wire: the receiver always knows the length of the field it *)
(* reads, and, where writes arrive whole or the receiver reads on, it gets *)
(* the messages that were sent and gives up for a cause only.  The bytes   *)
(* between sender and receiver are a stream of whole fields, from the next *)
(* field to receive to the next one to write.                              *)
(***************************************************************************)
EXTENDS Wire, FiniteSetTheorems, SequenceTheorems, TLAPS

-----------------------------------------------------------------------------
(* Sequences and messages: what is asked for is what was written.           *)

(* The concatenation of two sequences, as a function. *)
LEMMA ConcatIs ==
  ASSUME NEW S, NEW s \in Seq(S), NEW t \in Seq(S), NEW m, NEW n,
         Len(s) = m, Len(s) + Len(t) = n
  PROVE  s \o t = [i \in 1 .. n |-> IF i <= m THEN s[i] ELSE t[i - m]]
BY ConcatProperties, LenProperties, ZenonT(60)

(* The concatenations of fields and of sizes that make a message: Tuple21   *)
(* is that of two and one.                                                  *)
LEMMA Tuple11 ==
  ASSUME NEW a, NEW b
  PROVE  <<a>> \o <<b>> = <<a, b>>
<1> DEFINE S == {a, b}
<1>1. /\ <<a>> \in Seq(S) /\ <<b>> \in Seq(S)
      /\ Len(<<a>>) = 1 /\ Len(<<a>>) + Len(<<b>>) = 2
  OBVIOUS
<1>2. <<a>> \o <<b>>
        = [i \in 1 .. 2 |-> IF i <= 1 THEN <<a>>[i] ELSE <<b>>[i - 1]]
  BY <1>1, ConcatIs
<1>3. [i \in 1 .. 2 |-> IF i <= 1 THEN <<a>>[i] ELSE <<b>>[i - 1]]
        = <<a, b>>
  OBVIOUS
<1> QED
  BY <1>2, <1>3, Zenon

(* One and two.                                                             *)
LEMMA Tuple12 ==
  ASSUME NEW a, NEW b, NEW c
  PROVE  <<a>> \o <<b, c>> = <<a, b, c>>
<1> DEFINE S == {a, b, c}
<1>1. /\ <<a>> \in Seq(S) /\ <<b, c>> \in Seq(S)
      /\ Len(<<a>>) = 1 /\ Len(<<a>>) + Len(<<b, c>>) = 3
  OBVIOUS
<1>2. <<a>> \o <<b, c>>
        = [i \in 1 .. 3 |-> IF i <= 1 THEN <<a>>[i] ELSE <<b, c>>[i - 1]]
  BY <1>1, ConcatIs
<1>3. [i \in 1 .. 3 |-> IF i <= 1 THEN <<a>>[i] ELSE <<b, c>>[i - 1]]
        = <<a, b, c>>
  OBVIOUS
<1> QED
  BY <1>2, <1>3, Zenon

(* One and three.                                                           *)
LEMMA Tuple13 ==
  ASSUME NEW a, NEW b, NEW c, NEW d
  PROVE  <<a>> \o <<b, c, d>> = <<a, b, c, d>>
<1> DEFINE S == {a, b, c, d}
<1>1. /\ <<a>> \in Seq(S) /\ <<b, c, d>> \in Seq(S)
      /\ Len(<<a>>) = 1 /\ Len(<<a>>) + Len(<<b, c, d>>) = 4
  OBVIOUS
<1>2. <<a>> \o <<b, c, d>>
        = [i \in 1 .. 4 |-> IF i <= 1 THEN <<a>>[i] ELSE <<b, c, d>>[i - 1]]
  BY <1>1, ConcatIs
<1>3. [i \in 1 .. 4 |-> IF i <= 1 THEN <<a>>[i] ELSE <<b, c, d>>[i - 1]]
        = <<a, b, c, d>>
  OBVIOUS
<1> QED
  BY <1>2, <1>3, Zenon

(* One and four.                                                            *)
LEMMA Tuple14 ==
  ASSUME NEW a, NEW b, NEW c, NEW d, NEW e
  PROVE  <<a>> \o <<b, c, d, e>> = <<a, b, c, d, e>>
<1> DEFINE S == {a, b, c, d, e}
<1>1. /\ <<a>> \in Seq(S) /\ <<b, c, d, e>> \in Seq(S)
      /\ Len(<<a>>) = 1 /\ Len(<<a>>) + Len(<<b, c, d, e>>) = 5
  OBVIOUS
<1>2. <<a>> \o <<b, c, d, e>>
        = [i \in 1 .. 5 |-> IF i <= 1 THEN <<a>>[i] ELSE <<b, c, d, e>>[i - 1]]
  BY <1>1, ConcatIs
<1>3. [i \in 1 .. 5 |-> IF i <= 1 THEN <<a>>[i] ELSE <<b, c, d, e>>[i - 1]]
        = <<a, b, c, d, e>>
  OBVIOUS
<1> QED
  BY <1>2, <1>3, Zenon

(* One and five.                                                            *)
LEMMA Tuple15 ==
  ASSUME NEW a, NEW b, NEW c, NEW d, NEW e, NEW f
  PROVE  <<a>> \o <<b, c, d, e, f>> = <<a, b, c, d, e, f>>
<1> DEFINE S == {a, b, c, d, e, f}
<1>1. /\ <<a>> \in Seq(S) /\ <<b, c, d, e, f>> \in Seq(S)
      /\ Len(<<a>>) = 1 /\ Len(<<a>>) + Len(<<b, c, d, e, f>>) = 6
  OBVIOUS
<1>2. <<a>> \o <<b, c, d, e, f>>
        = [i \in 1 .. 6 |-> IF i <= 1 THEN <<a>>[i] ELSE <<b, c, d, e, f>>[i - 1]]
  BY <1>1, ConcatIs
<1>3. [i \in 1 .. 6 |-> IF i <= 1 THEN <<a>>[i] ELSE <<b, c, d, e, f>>[i - 1]]
        = <<a, b, c, d, e, f>>
  OBVIOUS
<1> QED
  BY <1>2, <1>3, Zenon

(* One and six.                                                             *)
LEMMA Tuple16 ==
  ASSUME NEW a, NEW b, NEW c, NEW d, NEW e, NEW f, NEW g
  PROVE  <<a>> \o <<b, c, d, e, f, g>> = <<a, b, c, d, e, f, g>>
<1> DEFINE S == {a, b, c, d, e, f, g}
<1>1. /\ <<a>> \in Seq(S) /\ <<b, c, d, e, f, g>> \in Seq(S)
      /\ Len(<<a>>) = 1 /\ Len(<<a>>) + Len(<<b, c, d, e, f, g>>) = 7
  OBVIOUS
<1>2. <<a>> \o <<b, c, d, e, f, g>>
        = [i \in 1 .. 7 |-> IF i <= 1 THEN <<a>>[i] ELSE <<b, c, d, e, f, g>>[i - 1]]
  BY <1>1, ConcatIs
<1>3. [i \in 1 .. 7 |-> IF i <= 1 THEN <<a>>[i] ELSE <<b, c, d, e, f, g>>[i - 1]]
        = <<a, b, c, d, e, f, g>>
  OBVIOUS
<1> QED
  BY <1>2, <1>3, Zenon

(* Two and one.                                                             *)
LEMMA Tuple21 ==
  ASSUME NEW a, NEW b, NEW c
  PROVE  <<a, b>> \o <<c>> = <<a, b, c>>
<1> DEFINE S == {a, b, c}
<1>1. /\ <<a, b>> \in Seq(S) /\ <<c>> \in Seq(S)
      /\ Len(<<a, b>>) = 2 /\ Len(<<a, b>>) + Len(<<c>>) = 3
  OBVIOUS
<1>2. <<a, b>> \o <<c>>
        = [i \in 1 .. 3 |-> IF i <= 2 THEN <<a, b>>[i] ELSE <<c>>[i - 2]]
  BY <1>1, ConcatIs
<1>3. [i \in 1 .. 3 |-> IF i <= 2 THEN <<a, b>>[i] ELSE <<c>>[i - 2]]
        = <<a, b, c>>
  OBVIOUS
<1> QED
  BY <1>2, <1>3, Zenon

(* Two and two.                                                             *)
LEMMA Tuple22 ==
  ASSUME NEW a, NEW b, NEW c, NEW d
  PROVE  <<a, b>> \o <<c, d>> = <<a, b, c, d>>
<1> DEFINE S == {a, b, c, d}
<1>1. /\ <<a, b>> \in Seq(S) /\ <<c, d>> \in Seq(S)
      /\ Len(<<a, b>>) = 2 /\ Len(<<a, b>>) + Len(<<c, d>>) = 4
  OBVIOUS
<1>2. <<a, b>> \o <<c, d>>
        = [i \in 1 .. 4 |-> IF i <= 2 THEN <<a, b>>[i] ELSE <<c, d>>[i - 2]]
  BY <1>1, ConcatIs
<1>3. [i \in 1 .. 4 |-> IF i <= 2 THEN <<a, b>>[i] ELSE <<c, d>>[i - 2]]
        = <<a, b, c, d>>
  OBVIOUS
<1> QED
  BY <1>2, <1>3, Zenon

(* Three and one.                                                           *)
LEMMA Tuple31 ==
  ASSUME NEW a, NEW b, NEW c, NEW d
  PROVE  <<a, b, c>> \o <<d>> = <<a, b, c, d>>
<1> DEFINE S == {a, b, c, d}
<1>1. /\ <<a, b, c>> \in Seq(S) /\ <<d>> \in Seq(S)
      /\ Len(<<a, b, c>>) = 3 /\ Len(<<a, b, c>>) + Len(<<d>>) = 4
  OBVIOUS
<1>2. <<a, b, c>> \o <<d>>
        = [i \in 1 .. 4 |-> IF i <= 3 THEN <<a, b, c>>[i] ELSE <<d>>[i - 3]]
  BY <1>1, ConcatIs
<1>3. [i \in 1 .. 4 |-> IF i <= 3 THEN <<a, b, c>>[i] ELSE <<d>>[i - 3]]
        = <<a, b, c, d>>
  OBVIOUS
<1> QED
  BY <1>2, <1>3, Zenon

(* Three and two.                                                           *)
LEMMA Tuple32 ==
  ASSUME NEW a, NEW b, NEW c, NEW d, NEW e
  PROVE  <<a, b, c>> \o <<d, e>> = <<a, b, c, d, e>>
<1> DEFINE S == {a, b, c, d, e}
<1>1. /\ <<a, b, c>> \in Seq(S) /\ <<d, e>> \in Seq(S)
      /\ Len(<<a, b, c>>) = 3 /\ Len(<<a, b, c>>) + Len(<<d, e>>) = 5
  OBVIOUS
<1>2. <<a, b, c>> \o <<d, e>>
        = [i \in 1 .. 5 |-> IF i <= 3 THEN <<a, b, c>>[i] ELSE <<d, e>>[i - 3]]
  BY <1>1, ConcatIs
<1>3. [i \in 1 .. 5 |-> IF i <= 3 THEN <<a, b, c>>[i] ELSE <<d, e>>[i - 3]]
        = <<a, b, c, d, e>>
  OBVIOUS
<1> QED
  BY <1>2, <1>3, Zenon

(* Four and one.                                                            *)
LEMMA Tuple41 ==
  ASSUME NEW a, NEW b, NEW c, NEW d, NEW e
  PROVE  <<a, b, c, d>> \o <<e>> = <<a, b, c, d, e>>
<1> DEFINE S == {a, b, c, d, e}
<1>1. /\ <<a, b, c, d>> \in Seq(S) /\ <<e>> \in Seq(S)
      /\ Len(<<a, b, c, d>>) = 4 /\ Len(<<a, b, c, d>>) + Len(<<e>>) = 5
  OBVIOUS
<1>2. <<a, b, c, d>> \o <<e>>
        = [i \in 1 .. 5 |-> IF i <= 4 THEN <<a, b, c, d>>[i] ELSE <<e>>[i - 4]]
  BY <1>1, ConcatIs
<1>3. [i \in 1 .. 5 |-> IF i <= 4 THEN <<a, b, c, d>>[i] ELSE <<e>>[i - 4]]
        = <<a, b, c, d, e>>
  OBVIOUS
<1> QED
  BY <1>2, <1>3, Zenon

(* Four and two.                                                            *)
LEMMA Tuple42 ==
  ASSUME NEW a, NEW b, NEW c, NEW d, NEW e, NEW f
  PROVE  <<a, b, c, d>> \o <<e, f>> = <<a, b, c, d, e, f>>
<1> DEFINE S == {a, b, c, d, e, f}
<1>1. /\ <<a, b, c, d>> \in Seq(S) /\ <<e, f>> \in Seq(S)
      /\ Len(<<a, b, c, d>>) = 4 /\ Len(<<a, b, c, d>>) + Len(<<e, f>>) = 6
  OBVIOUS
<1>2. <<a, b, c, d>> \o <<e, f>>
        = [i \in 1 .. 6 |-> IF i <= 4 THEN <<a, b, c, d>>[i] ELSE <<e, f>>[i - 4]]
  BY <1>1, ConcatIs
<1>3. [i \in 1 .. 6 |-> IF i <= 4 THEN <<a, b, c, d>>[i] ELSE <<e, f>>[i - 4]]
        = <<a, b, c, d, e, f>>
  OBVIOUS
<1> QED
  BY <1>2, <1>3, Zenon

(* A number, two more, and two texts with their lengths, or without a text. *)
LEMMA Response11 ==
  ASSUME NEW a, NEW b, NEW c, NEW d, NEW e
  PROVE  <<a>> \o ((<<b, c>> \o <<d>>) \o <<e>>) = <<a, b, c, d, e>>
<1>1. <<b, c>> \o <<d>> = <<b, c, d>>
  BY Tuple21
<1>2. <<b, c, d>> \o <<e>> = <<b, c, d, e>>
  BY Tuple31
<1>3. <<a>> \o <<b, c, d, e>> = <<a, b, c, d, e>>
  BY Tuple14
<1> QED
  BY <1>1, <1>2, <1>3, Zenon

(* The fields of a response, with one and with two fields in each text.     *)
LEMMA Response12 ==
  ASSUME NEW a, NEW b, NEW c, NEW d, NEW e, NEW f
  PROVE  <<a>> \o ((<<b, c>> \o <<d>>) \o <<e, f>>) = <<a, b, c, d, e, f>>
<1>1. <<b, c>> \o <<d>> = <<b, c, d>>
  BY Tuple21
<1>2. <<b, c, d>> \o <<e, f>> = <<b, c, d, e, f>>
  BY Tuple32
<1>3. <<a>> \o <<b, c, d, e, f>> = <<a, b, c, d, e, f>>
  BY Tuple15
<1> QED
  BY <1>1, <1>2, <1>3, Zenon

(* Likewise with two fields and one.                                        *)
LEMMA Response21 ==
  ASSUME NEW a, NEW b, NEW c, NEW d, NEW e, NEW f
  PROVE  <<a>> \o ((<<b, c>> \o <<d, e>>) \o <<f>>) = <<a, b, c, d, e, f>>
<1>1. <<b, c>> \o <<d, e>> = <<b, c, d, e>>
  BY Tuple22
<1>2. <<b, c, d, e>> \o <<f>> = <<b, c, d, e, f>>
  BY Tuple41
<1>3. <<a>> \o <<b, c, d, e, f>> = <<a, b, c, d, e, f>>
  BY Tuple15
<1> QED
  BY <1>1, <1>2, <1>3, Zenon

(* Likewise with two fields and two.                                        *)
LEMMA Response22 ==
  ASSUME NEW a, NEW b, NEW c, NEW d, NEW e, NEW f, NEW g
  PROVE  <<a>> \o ((<<b, c>> \o <<d, e>>) \o <<f, g>>) = <<a, b, c, d, e, f, g>>
<1>1. <<b, c>> \o <<d, e>> = <<b, c, d, e>>
  BY Tuple22
<1>2. <<b, c, d, e>> \o <<f, g>> = <<b, c, d, e, f, g>>
  BY Tuple42
<1>3. <<a>> \o <<b, c, d, e, f, g>> = <<a, b, c, d, e, f, g>>
  BY Tuple16
<1> QED
  BY <1>1, <1>2, <1>3, Zenon

(* The elements of a concatenation. *)
LEMMA ConcatElements ==
  ASSUME NEW S, NEW s \in Seq(S), NEW t \in Seq(S)
  PROVE  /\ s \o t \in Seq(S) /\ Len(s \o t) = Len(s) + Len(t)
         /\ \A i \in 1 .. Len(s) : (s \o t)[i] = s[i]
         /\ \A i \in 1 .. Len(t) : (s \o t)[Len(s) + i] = t[i]
<1> DEFINE m == Len(s)
           n == Len(t)
           r == s \o t
<1>1. m \in Nat /\ n \in Nat
  BY LenProperties
<1>2. /\ r \in Seq(S) /\ Len(r) = m + n
      /\ \A i \in 1 .. m + n : r[i] = IF i <= m THEN s[i] ELSE t[i - m]
  BY ConcatProperties
<1> HIDE DEF m, n, r
<1>3. ASSUME NEW i \in 1 .. m PROVE r[i] = s[i]
  BY <1>1, <1>2
<1>4. ASSUME NEW i \in 1 .. n PROVE r[m + i] = t[i]
  <2>1. PICK k : k = m + i
    OBVIOUS
  <2>2. k \in 1 .. m + n /\ ~ k <= m /\ k - m = i
    BY <1>1, <2>1
  <2> QED
    BY <1>2, <2>1, <2>2
<1> QED
  BY <1>2, <1>3, <1>4 DEF m, n, r

(* The minimum that cuts a text and a read.                                 *)
LEMMA MinOfTwo ==
  ASSUME NEW a \in Int, NEW b \in Int
  PROVE  Min({a, b}) = IF a <= b THEN a ELSE b
BY DEF Min

-----------------------------------------------------------------------------
(* Sizes and fields as tuples. *)

FieldSet == [value : Values, width : Nat \ {0}]

IntField(value) == [value |-> value, width |-> Width["int"]]
SizeField(len) == [value |-> len, width |-> Width["size_t"]]
TextField(len) == [value |-> Opaque, width |-> len]
DoubleField == [value |-> Opaque, width |-> Width["double"]]

(* A type has one byte or more.                                             *)
LEMMA Widths == \A w \in {"int", "size_t", "double", "client_info"} :
                  Width[w] \in Nat \ {0} /\ Width[w] \in Int
BY WireAssumption

(* A text is its length and, if it has any, its bytes.                      *)
LEMMA FieldsOfText ==
  ASSUME NEW len \in Nat
  PROVE  /\ SizeField(len) \in FieldSet /\ (len > 0 => TextField(len) \in FieldSet)
         /\ Text(len) = IF len > 0 THEN <<SizeField(len), TextField(len)>> ELSE <<SizeField(len)>>
<1>1. SizeField(len) \in FieldSet /\ (len > 0 => TextField(len) \in FieldSet)
  BY Widths DEF SizeField, TextField, FieldSet, Values, Opaque
<1>2. CASE len > 0
  <2>1. Text(len) = <<SizeField(len)>> \o <<TextField(len)>>
    BY <1>2 DEF Text, SizeField, TextField
  <2> HIDE DEF SizeField, TextField
  <2> QED
    BY <1>1, <1>2, <2>1, Tuple11
<1>3. CASE ~ len > 0
  <2>1. Text(len) = <<SizeField(len)>> \o <<>>
    BY <1>3 DEF Text, SizeField
  <2>2. <<SizeField(len)>> \in Seq(FieldSet)
    BY <1>1
  <2> QED
    BY <1>1, <1>3, <2>1, <2>2, ConcatEmptySeq
<1> QED
  BY <1>2, <1>3

(* A number and a double are one field each.                                *)
LEMMA OtherFields ==
  /\ \A value \in Values : IntField(value) \in FieldSet /\ Number(value) = <<IntField(value)>>
  /\ DoubleField \in FieldSet /\ Double = <<DoubleField>>
BY Widths DEF IntField, DoubleField, FieldSet, Values, Opaque, Number, Double

(* What a receiver expects of a text.                                       *)
LEMMA SizesOfText ==
  ASSUME NEW v \in Seq(Values), NEW k \in Nat \ {0}
  PROVE  TextAt(v, k) = IF Len(v) >= k /\ v[k] > 0 THEN <<Width["size_t"], v[k]>>
                        ELSE <<Width["size_t"]>>
<1> DEFINE w == Width["size_t"]
<1>1. w \in Int /\ <<w>> \in Seq(Int)
  BY Widths
<1> HIDE DEF w
<1>2. TextAt(v, k) = <<w>> \o (IF Len(v) >= k /\ v[k] > 0 THEN <<v[k]>> ELSE <<>>)
  BY DEF TextAt, w
<1>3. CASE Len(v) >= k /\ v[k] > 0
  <2>1. v[k] \in Int
    BY <1>3, ElementOfSeq, LenProperties DEF Values, Opaque
  <2>2. <<w>> \o <<v[k]>> = <<w, v[k]>>
    BY <1>1, <2>1, Tuple11
  <2> QED
    BY <1>2, <1>3, <2>2 DEF w
<1>4. CASE ~ (Len(v) >= k /\ v[k] > 0)
  <2>1. <<w>> \o <<>> = <<w>>
    BY <1>1, ConcatEmptySeq
  <2> QED
    BY <1>2, <1>4, <2>1 DEF w
<1> QED
  BY <1>3, <1>4

(* As ResponseSizes, with the tuple of each case. *)
LEMMA SizesOfResponse ==
  ASSUME NEW v \in Seq(Values), NEW I, NEW S, NEW D,
         I = Width["int"], S = Width["size_t"], D = Width["double"]
  PROVE  /\ Len(v) = 0 => ResponseSizes(v) = <<I>>
         /\ Len(v) > 0 /\ v[1] # STATUS_OK => ResponseSizes(v) = <<I>> \o TextAt(v, 2)
         /\ Len(v) > 0 /\ v[1] = STATUS_OK =>
              /\ Len(v) < 4 => ResponseSizes(v) = <<I, I, D, S>>
              /\ Len(v) >= 4 /\ v[4] > 0 =>
                   /\ Len(v) >= 6 /\ v[6] > 0 =>
                        ResponseSizes(v) = <<I, I, D, S, v[4], S, v[6]>>
                   /\ ~ (Len(v) >= 6 /\ v[6] > 0) =>
                        ResponseSizes(v) = <<I, I, D, S, v[4], S>>
              /\ Len(v) >= 4 /\ ~ v[4] > 0 =>
                   /\ Len(v) >= 5 /\ v[5] > 0 => ResponseSizes(v) = <<I, I, D, S, S, v[5]>>
                   /\ ~ (Len(v) >= 5 /\ v[5] > 0) => ResponseSizes(v) = <<I, I, D, S, S>>
<1>1. Len(v) \in Nat /\ (Len(v) > 0 => v # <<>>) /\ (Len(v) = 0 => v = <<>>)
  BY LenProperties, EmptySeq
<1>2. ResponseSizes(v) =
        <<I>> \o
          (IF v = <<>> THEN <<>>
           ELSE IF v[1] # STATUS_OK THEN TextAt(v, 2)
           ELSE <<I, D>> \o TextAt(v, 4) \o
                  (IF Len(v) < 4 THEN <<>> ELSE TextAt(v, IF v[4] > 0 THEN 6 ELSE 5)))
  BY DEF ResponseSizes
<1>3. ASSUME Len(v) = 0 PROVE ResponseSizes(v) = <<I>>
  <2>1. ResponseSizes(v) = <<I>> \o <<>>
    BY <1>1, <1>2, <1>3, Zenon
  <2>2. <<I>> \in Seq({I})
    OBVIOUS
  <2> QED
    BY <2>1, <2>2, ConcatEmptySeq
<1>4. ASSUME Len(v) > 0, v[1] # STATUS_OK PROVE ResponseSizes(v) = <<I>> \o TextAt(v, 2)
  BY <1>1, <1>2, <1>4, Zenon
<1>5. ASSUME Len(v) > 0, v[1] = STATUS_OK, Len(v) < 4 PROVE ResponseSizes(v) = <<I, I, D, S>>
  <2>1. TextAt(v, 4) = <<S>>
    BY <1>5, <1>1, SizesOfText
  <2>2. ResponseSizes(v) = <<I>> \o ((<<I, D>> \o <<S>>) \o <<>>)
    BY <1>1, <1>2, <1>5, <2>1, Zenon
  <2>3. <<I, D, S>> \in Seq({I, D, S})
    OBVIOUS
  <2>4. <<I, D, S>> \o <<>> = <<I, D, S>>
    BY <2>3, ConcatEmptySeq
  <2> QED
    BY <2>2, <2>4, Tuple21, Tuple13, ZenonT(60)
<1>6. ASSUME Len(v) > 0, v[1] = STATUS_OK, Len(v) >= 4, v[4] > 0, NEW x, x = v[4]
      PROVE  /\ Len(v) >= 6 /\ v[6] > 0 =>
                  ResponseSizes(v) = <<I, I, D, S, x, S, v[6]>>
             /\ ~ (Len(v) >= 6 /\ v[6] > 0) => ResponseSizes(v) = <<I, I, D, S, x, S>>
  <2>1. TextAt(v, 4) = <<S, x>> /\ ~ Len(v) < 4
    BY <1>6, <1>1, SizesOfText
  <2>2. ResponseSizes(v) = <<I>> \o ((<<I, D>> \o <<S, x>>) \o TextAt(v, 6))
    BY <1>1, <1>2, <1>6, <2>1, Zenon
  <2>3. CASE Len(v) >= 6 /\ v[6] > 0
    <3>1. TextAt(v, 6) = <<S, v[6]>>
      BY <2>3, SizesOfText
    <3>2. <<I>> \o ((<<I, D>> \o <<S, x>>) \o <<S, v[6]>>) = <<I, I, D, S, x, S, v[6]>>
      BY Response22
    <3>3. ResponseSizes(v) = <<I>> \o ((<<I, D>> \o <<S, x>>) \o <<S, v[6]>>)
      BY <2>2, <3>1, Zenon
    <3> QED
      BY <2>3, <3>2, <3>3, Zenon
  <2>4. CASE ~ (Len(v) >= 6 /\ v[6] > 0)
    <3>1. TextAt(v, 6) = <<S>>
      BY <2>4, SizesOfText
    <3>2. <<I>> \o ((<<I, D>> \o <<S, x>>) \o <<S>>) = <<I, I, D, S, x, S>>
      BY Response21
    <3>3. ResponseSizes(v) = <<I>> \o ((<<I, D>> \o <<S, x>>) \o <<S>>)
      BY <2>2, <3>1, Zenon
    <3> QED
      BY <2>4, <3>2, <3>3, Zenon
  <2> QED
    BY <2>3, <2>4
<1>7. ASSUME Len(v) > 0, v[1] = STATUS_OK, Len(v) >= 4, ~ v[4] > 0
      PROVE  /\ Len(v) >= 5 /\ v[5] > 0 => ResponseSizes(v) = <<I, I, D, S, S, v[5]>>
             /\ ~ (Len(v) >= 5 /\ v[5] > 0) => ResponseSizes(v) = <<I, I, D, S, S>>
  <2>1. TextAt(v, 4) = <<S>> /\ ~ Len(v) < 4
    BY <1>7, <1>1, SizesOfText
  <2>2. ResponseSizes(v) = <<I>> \o ((<<I, D>> \o <<S>>) \o TextAt(v, 5))
    BY <1>1, <1>2, <1>7, <2>1, Zenon
  <2>3. CASE Len(v) >= 5 /\ v[5] > 0
    <3>1. TextAt(v, 5) = <<S, v[5]>>
      BY <2>3, SizesOfText
    <3>2. <<I>> \o ((<<I, D>> \o <<S>>) \o <<S, v[5]>>) = <<I, I, D, S, S, v[5]>>
      BY Response12
    <3>3. ResponseSizes(v) = <<I>> \o ((<<I, D>> \o <<S>>) \o <<S, v[5]>>)
      BY <2>2, <3>1, Zenon
    <3> QED
      BY <2>3, <3>2, <3>3, Zenon
  <2>4. CASE ~ (Len(v) >= 5 /\ v[5] > 0)
    <3>1. TextAt(v, 5) = <<S>>
      BY <2>4, SizesOfText
    <3>2. <<I>> \o ((<<I, D>> \o <<S>>) \o <<S>>) = <<I, I, D, S, S>>
      BY Response11
    <3>3. ResponseSizes(v) = <<I>> \o ((<<I, D>> \o <<S>>) \o <<S>>)
      BY <2>2, <3>1, Zenon
    <3> QED
      BY <2>4, <3>2, <3>3, Zenon
  <2> QED
    BY <2>3, <2>4
<1> QED
  BY <1>3, <1>4, <1>5, <1>6, <1>7, Zenon

-----------------------------------------------------------------------------
(* A reader that has got the first fields of a message knows how long the   *)
(* next one is, and when there is none.                                     *)

Matches(v, F) == Len(v) <= Len(F) /\ \A k \in 1 .. Len(v) : v[k] = F[k].value

Agrees(kind, F) ==
  /\ F \in Seq(FieldSet) /\ Len(F) \in Nat \ {0}
  /\ \A v \in Seq(Values) : Matches(v, F) =>
       IF Len(v) = Len(F) THEN Len(Sizes(kind, v)) = Len(F)
       ELSE /\ Len(Sizes(kind, v)) > Len(v)
            /\ Sizes(kind, v)[Len(v) + 1] = F[Len(v) + 1].width

(* The sizes of a request and of an error, with the tuple of each case.     *)
ErrorSizes(v) == <<Width["int"]>> \o TextAt(v, 2)

(* A receiver of an error expects its length, then as many bytes.           *)
LEMMA SizesOfError ==
  ASSUME NEW v \in Seq(Values)
  PROVE  /\ Len(v) >= 2 /\ v[2] > 0 =>
              ErrorSizes(v) = <<Width["int"], Width["size_t"], v[2]>>
         /\ ~ (Len(v) >= 2 /\ v[2] > 0) => ErrorSizes(v) = <<Width["int"], Width["size_t"]>>
<1> PICK x : x = v[2]
  OBVIOUS
<1>1. CASE Len(v) >= 2 /\ v[2] > 0
  <2>1. TextAt(v, 2) = <<Width["size_t"], x>>
    BY <1>1, SizesOfText
  <2> QED
    BY <1>1, <2>1, Tuple12 DEF ErrorSizes
<1>2. CASE ~ (Len(v) >= 2 /\ v[2] > 0)
  <2>1. TextAt(v, 2) = <<Width["size_t"]>>
    BY <1>2, SizesOfText
  <2> QED
    BY <1>2, <2>1, Tuple11 DEF ErrorSizes
<1> QED
  BY <1>1, <1>2

(* A number and a text of one byte or more. *)
LEMMA NumberAndText ==
  ASSUME NEW x \in Values, NEW len \in Nat \ {0}
  PROVE  /\ Number(x) \o Text(len) = <<IntField(x), SizeField(len), TextField(len)>>
         /\ IntField(x) \in FieldSet /\ SizeField(len) \in FieldSet /\ TextField(len) \in FieldSet
<1>1. /\ Number(x) = <<IntField(x)>> /\ Text(len) = <<SizeField(len), TextField(len)>>
      /\ IntField(x) \in FieldSet /\ SizeField(len) \in FieldSet /\ TextField(len) \in FieldSet
  BY OtherFields, FieldsOfText
<1> QED
  BY <1>1, Tuple12

(* Whoever reads a number, then a text, agrees with who writes them.        *)
LEMMA NumberAndTextAgree ==
  ASSUME NEW kind, NEW x \in Values, NEW len \in Nat \ {0},
         \A v \in Seq(Values) : Len(v) > 0 /\ v[1] = x =>
           Sizes(kind, v) = ErrorSizes(v),
         \A v \in Seq(Values) : Len(v) = 0 =>
           Len(Sizes(kind, v)) > 0 /\ Sizes(kind, v)[1] = Width["int"]
  PROVE  Agrees(kind, Number(x) \o Text(len))
<1>0. PICK F : F = Number(x) \o Text(len)
  OBVIOUS
<1>4. F = <<IntField(x), SizeField(len), TextField(len)>>
  BY <1>0, NumberAndText
<1>1. F \in Seq(FieldSet) /\ Len(F) = 3
  BY <1>4, NumberAndText
<1>2. /\ F[1].value = x /\ F[2].value = len /\ F[1].width = Width["int"]
      /\ F[2].width = Width["size_t"] /\ F[3].width = len
  BY <1>4 DEF IntField, SizeField, TextField
<1>3. ASSUME NEW v \in Seq(Values), Matches(v, F)
      PROVE  IF Len(v) = Len(F) THEN Len(Sizes(kind, v)) = Len(F)
             ELSE /\ Len(Sizes(kind, v)) > Len(v)
                  /\ Sizes(kind, v)[Len(v) + 1] = F[Len(v) + 1].width
  <2>0. PICK n : n = Len(v)
    OBVIOUS
  <2>1. n \in 0 .. 3 /\ \A k \in 1 .. n : v[k] = F[k].value
    <3>1. n \in Nat
      BY <2>0, LenProperties
    <3>2. n <= Len(F) /\ \A k \in 1 .. n : v[k] = F[k].value
      BY <1>3, <2>0, Zenon DEF Matches
    <3> QED
      BY <1>1, <3>1, <3>2
  <2>2. IF n = 3 THEN Len(Sizes(kind, v)) = 3
        ELSE Len(Sizes(kind, v)) > n /\ Sizes(kind, v)[n + 1] = F[n + 1].width
    <3>1. CASE n = 0
      <4>1. Len(Sizes(kind, v)) > 0 /\ Sizes(kind, v)[1] = Width["int"]
        BY <2>0, <3>1
      <4> QED
        BY <1>2, <3>1, <4>1
    <3>2. CASE n # 0
      <4>1. v[1] = x /\ (n >= 2 => v[2] = len)
        BY <1>2, <2>1, <3>2
      <4>2. Sizes(kind, v) = ErrorSizes(v)
        BY <2>0, <2>1, <3>2, <4>1
      <4>3. CASE n = 1
        <5>1. Sizes(kind, v) = <<Width["int"], Width["size_t"]>>
          <6>1. ~ Len(v) >= 2
            BY <2>0, <4>3
          <6> QED
            BY <4>2, <6>1, SizesOfError, Zenon
        <5> QED
          BY <1>2, <4>3, <5>1
      <4>4. CASE n \in {2, 3}
        <5>1. Sizes(kind, v) = <<Width["int"], Width["size_t"], len>>
          BY <2>0, <4>1, <4>2, <4>4, SizesOfError
        <5> QED
          BY <1>2, <4>4, <5>1
      <4> QED
        BY <2>1, <3>2, <4>3, <4>4
    <3> QED
      BY <3>1, <3>2
  <2> QED
    BY <1>1, <2>0, <2>2
<1>5. F \in Seq(FieldSet) /\ Len(F) \in Nat \ {0}
  BY <1>1
<1>6. Agrees(kind, F)
  BY <1>3, <1>5, Zenon DEF Agrees
<1> QED
  BY <1>0, <1>6, Zenon

(* The server asks for the fields of a request as both clients write them,  *)
(* and only the Python client's text may be longer than the server allows.  *)
LEMMA RequestAgrees ==
  ASSUME NEW m \in Messages("request")
  PROVE  LET F == Fields("request", m) IN
           /\ Agrees("request", F) /\ F[2].value = RequestText(m)
           /\ RequestText(m) \in Nat \ {0} /\ m.client \in {"c", "python"}
           /\ RequestText(m) > MAX_TEXT_SIZE =>
                m.client = "python" /\ m.bytes >= MAX_TEXT_SIZE
<1>1. m.bytes \in Nat
  BY WireAssumption DEF Messages, Files
<1>2. MAX_TEXT_SIZE - 1 \in Nat
  BY WireAssumption
<1>3. RequestText(m) \in Nat \ {0}
  BY <1>1, <1>2, MinOfTwo DEF RequestText
<1>4. Fields("request", m) = Number(Opaque) \o Text(RequestText(m))
  BY DEF Fields, RequestFields
<1>5. \A v : Sizes("request", v) = ErrorSizes(v)
  BY DEF Sizes, RequestSizes, ErrorSizes
<1>6. ASSUME NEW v \in Seq(Values), Len(v) = 0
      PROVE  Len(Sizes("request", v)) > 0 /\ Sizes("request", v)[1] = Width["int"]
  <2>1. Sizes("request", v) = <<Width["int"], Width["size_t"]>>
    <3>1. ~ Len(v) >= 2
      BY <1>6
    <3> QED
      BY <1>5, <3>1, SizesOfError, Zenon
  <2> QED
    BY <2>1
<1>7. Agrees("request", Number(Opaque) \o Text(RequestText(m)))
  BY <1>3, <1>5, <1>6, NumberAndTextAgree DEF Values
<1>8. Fields("request", m)
        = <<IntField(Opaque), SizeField(RequestText(m)), TextField(RequestText(m))>>
  BY <1>3, <1>4, NumberAndText DEF Values
<1>9. Fields("request", m)[2].value = RequestText(m)
  BY <1>8 DEF SizeField
<1>10. m.client \in {"c", "python"}
  BY DEF Messages, Files
<1>11. ASSUME RequestText(m) > MAX_TEXT_SIZE
       PROVE  m.client = "python" /\ m.bytes >= MAX_TEXT_SIZE
  <2>1. CASE m.client = "c"
    BY <1>1, <1>2, <1>11, <2>1, MinOfTwo, WireAssumption DEF RequestText
  <2>2. CASE m.client # "c"
    BY <1>1, <1>10, <1>11, <2>2, WireAssumption DEF RequestText
  <2> QED
    BY <2>1, <2>2
<1> QED
  BY <1>3, <1>4, <1>7, <1>9, <1>10, <1>11, Zenon


(* What response fields a topic of length t and a summary of length u make. *)
OkFields(t, u) ==
  Number(STATUS_OK) \o (Number(Opaque) \o Double \o Text(t) \o Text(u))

(* A client asks for the fields of a response with a topic and a summary.   *)
LEMMA TopicAndSummary ==
  ASSUME NEW t \in Nat, NEW u \in Nat, t > 0, u > 0
  PROVE  Agrees("response", OkFields(t, u)) /\ OkFields(t, u)[1].value = STATUS_OK
<1>1. PICK I, S, D : I = Width["int"] /\ S = Width["size_t"] /\ D = Width["double"]
  OBVIOUS
<1>2. PICK F : F = <<IntField(STATUS_OK), IntField(Opaque), DoubleField, SizeField(t), TextField(t), SizeField(u), TextField(u)>>
  OBVIOUS
<1>3. OkFields(t, u) = F
  <2>1. /\ Number(STATUS_OK) = <<IntField(STATUS_OK)>> /\ Number(Opaque) = <<IntField(Opaque)>>
        /\ Double = <<DoubleField>>
        /\ Text(t) = <<SizeField(t), TextField(t)>> /\ Text(u) = <<SizeField(u), TextField(u)>>
    BY OtherFields, FieldsOfText DEF Values, STATUS_OK
  <2>2. Number(Opaque) \o Double = <<IntField(Opaque), DoubleField>>
    BY <2>1, Tuple11
  <2>3. OkFields(t, u)
          = <<IntField(STATUS_OK)>> \o
              ((<<IntField(Opaque), DoubleField>> \o <<SizeField(t), TextField(t)>>) \o <<SizeField(u), TextField(u)>>)
    BY <2>1, <2>2, Zenon DEF OkFields
  <2> QED
    BY <1>2, <2>3, Response22
<1>4. F \in Seq(FieldSet) /\ Len(F) = 7
  <2>1. /\ IntField(STATUS_OK) \in FieldSet /\ IntField(Opaque) \in FieldSet
        /\ DoubleField \in FieldSet /\ SizeField(t) \in FieldSet /\ SizeField(u) \in FieldSet
        /\ TextField(t) \in FieldSet /\ TextField(u) \in FieldSet
    BY OtherFields, FieldsOfText DEF Values, STATUS_OK
  <2> QED
    BY <1>2, <2>1
<1>5. /\ F[1].value = STATUS_OK /\ F[4].value = t /\ F[6].value = u
      /\ F[1].width = I /\ F[2].width = I /\ F[3].width = D /\ F[4].width = S
      /\ F[5].width = t /\ F[6].width = S /\ F[7].width = u
  BY <1>1, <1>2 DEF IntField, SizeField, TextField, DoubleField
<1>6. ASSUME NEW v \in Seq(Values), Matches(v, F)
      PROVE  IF Len(v) = Len(F) THEN Len(Sizes("response", v)) = Len(F)
             ELSE /\ Len(Sizes("response", v)) > Len(v)
                  /\ Sizes("response", v)[Len(v) + 1] = F[Len(v) + 1].width
  <2>1. PICK n : n = Len(v)
    OBVIOUS
  <2>2. n \in 0 .. 7 /\ \A k \in 1 .. n : v[k] = F[k].value
    <3>1. n \in Nat
      BY <2>1, LenProperties
    <3>2. n <= Len(F) /\ \A k \in 1 .. n : v[k] = F[k].value
      BY <1>6, <2>1, Zenon DEF Matches
    <3> QED
      BY <1>4, <3>1, <3>2
  <2>3. /\ n > 0 => v[1] = STATUS_OK
        /\ n >= 4 => v[4] = t
        /\ n >= 6 => v[6] = u
    BY <1>5, <2>2
  <2>4. PICK Z : Z = Sizes("response", v)
    OBVIOUS
  <2>5. Z = ResponseSizes(v)
    BY <2>4 DEF Sizes
  <2>6. IF n = 7 THEN Len(Z) = 7 ELSE Len(Z) > n /\ Z[n + 1] = F[n + 1].width
    <3>1. CASE n = 0
      <4>1. Z = <<I>>
        BY <1>1, <2>1, <2>5, <3>1, SizesOfResponse
      <4> QED
        BY <1>5, <3>1, <4>1
    <3>2. CASE n \in 1 .. 3
      <4>1. Len(v) > 0 /\ v[1] = STATUS_OK /\ Len(v) < 4
        <5>1. n > 0 /\ n < 4 /\ Len(v) = n
          BY <2>1, <3>2
        <5> QED
          BY <2>3, <5>1, Zenon
      <4>2. Z = <<I, I, D, S>>
        BY <1>1, <2>5, <4>1, SizesOfResponse
      <4> QED
        BY <1>5, <3>2, <4>2
    <3>3. CASE n \in {4, 5}
      <4>1. Len(v) > 0 /\ v[1] = STATUS_OK /\ Len(v) >= 4 /\ v[4] > 0 /\ ~ Len(v) >= 6
        <5>1. Len(v) = n /\ v[4] = t /\ n >= 4 /\ ~ n >= 6 /\ v[1] = STATUS_OK
          BY <2>1, <2>3, <3>3
        <5> QED
          BY <5>1
      <4>2. Z = <<I, I, D, S, v[4], S>>
        BY <1>1, <2>5, <4>1, SizesOfResponse
      <4>3. Z = <<I, I, D, S, t, S>>
        BY <2>3, <3>3, <4>2
      <4> QED
        BY <1>5, <3>3, <4>3
    <3>4. CASE n \in {6, 7}
      <4>1. Len(v) > 0 /\ v[1] = STATUS_OK /\ Len(v) >= 4 /\ v[4] > 0 /\ Len(v) >= 6 /\ v[6] > 0
        BY <2>1, <2>3, <3>4
      <4>2. Z = <<I, I, D, S, v[4], S, v[6]>>
        BY <1>1, <2>5, <4>1, SizesOfResponse
      <4>3. Z = <<I, I, D, S, t, S, u>>
        BY <2>3, <3>4, <4>2
      <4> QED
        BY <1>5, <3>4, <4>3
    <3> QED
      BY <2>2, <3>1, <3>2, <3>3, <3>4
  <2> QED
    BY <1>4, <2>1, <2>4, <2>6
<1>7. Len(F) \in Nat \ {0}
  BY <1>4
<1> QED
  BY <1>3, <1>4, <1>5, <1>6, <1>7, Zenon DEF Agrees

(* Likewise with a topic and no summary.                                    *)
LEMMA TopicOnly ==
  ASSUME NEW t \in Nat, NEW u \in Nat, t > 0, ~ u > 0
  PROVE  Agrees("response", OkFields(t, u)) /\ OkFields(t, u)[1].value = STATUS_OK
<1>1. PICK I, S, D : I = Width["int"] /\ S = Width["size_t"] /\ D = Width["double"]
  OBVIOUS
<1>2. PICK F : F = <<IntField(STATUS_OK), IntField(Opaque), DoubleField, SizeField(t), TextField(t), SizeField(u)>>
  OBVIOUS
<1>3. OkFields(t, u) = F
  <2>1. /\ Number(STATUS_OK) = <<IntField(STATUS_OK)>> /\ Number(Opaque) = <<IntField(Opaque)>>
        /\ Double = <<DoubleField>>
        /\ Text(t) = <<SizeField(t), TextField(t)>> /\ Text(u) = <<SizeField(u)>>
    BY OtherFields, FieldsOfText DEF Values, STATUS_OK
  <2>2. Number(Opaque) \o Double = <<IntField(Opaque), DoubleField>>
    BY <2>1, Tuple11
  <2>3. OkFields(t, u)
          = <<IntField(STATUS_OK)>> \o
              ((<<IntField(Opaque), DoubleField>> \o <<SizeField(t), TextField(t)>>) \o <<SizeField(u)>>)
    BY <2>1, <2>2, Zenon DEF OkFields
  <2> QED
    BY <1>2, <2>3, Response21
<1>4. F \in Seq(FieldSet) /\ Len(F) = 6
  <2>1. /\ IntField(STATUS_OK) \in FieldSet /\ IntField(Opaque) \in FieldSet
        /\ DoubleField \in FieldSet /\ SizeField(t) \in FieldSet /\ SizeField(u) \in FieldSet
        /\ TextField(t) \in FieldSet 
    BY OtherFields, FieldsOfText DEF Values, STATUS_OK
  <2> QED
    BY <1>2, <2>1
<1>5. /\ F[1].value = STATUS_OK /\ F[4].value = t /\ F[6].value = u
      /\ F[1].width = I /\ F[2].width = I /\ F[3].width = D /\ F[4].width = S
      /\ F[5].width = t /\ F[6].width = S
  BY <1>1, <1>2 DEF IntField, SizeField, TextField, DoubleField
<1>6. ASSUME NEW v \in Seq(Values), Matches(v, F)
      PROVE  IF Len(v) = Len(F) THEN Len(Sizes("response", v)) = Len(F)
             ELSE /\ Len(Sizes("response", v)) > Len(v)
                  /\ Sizes("response", v)[Len(v) + 1] = F[Len(v) + 1].width
  <2>1. PICK n : n = Len(v)
    OBVIOUS
  <2>2. n \in 0 .. 6 /\ \A k \in 1 .. n : v[k] = F[k].value
    <3>1. n \in Nat
      BY <2>1, LenProperties
    <3>2. n <= Len(F) /\ \A k \in 1 .. n : v[k] = F[k].value
      BY <1>6, <2>1, Zenon DEF Matches
    <3> QED
      BY <1>4, <3>1, <3>2
  <2>3. /\ n > 0 => v[1] = STATUS_OK
        /\ n >= 4 => v[4] = t
        /\ n >= 6 => v[6] = u
    BY <1>5, <2>2
  <2>4. PICK Z : Z = Sizes("response", v)
    OBVIOUS
  <2>5. Z = ResponseSizes(v)
    BY <2>4 DEF Sizes
  <2>6. IF n = 6 THEN Len(Z) = 6 ELSE Len(Z) > n /\ Z[n + 1] = F[n + 1].width
    <3>1. CASE n = 0
      <4>1. Z = <<I>>
        BY <1>1, <2>1, <2>5, <3>1, SizesOfResponse
      <4> QED
        BY <1>5, <3>1, <4>1
    <3>2. CASE n \in 1 .. 3
      <4>1. Len(v) > 0 /\ v[1] = STATUS_OK /\ Len(v) < 4
        <5>1. n > 0 /\ n < 4 /\ Len(v) = n
          BY <2>1, <3>2
        <5> QED
          BY <2>3, <5>1, Zenon
      <4>2. Z = <<I, I, D, S>>
        BY <1>1, <2>5, <4>1, SizesOfResponse
      <4> QED
        BY <1>5, <3>2, <4>2
    <3>3. CASE n \in {4, 5}
      <4>1. Len(v) > 0 /\ v[1] = STATUS_OK /\ Len(v) >= 4 /\ v[4] > 0 /\ ~ Len(v) >= 6
        <5>1. Len(v) = n /\ v[4] = t /\ n >= 4 /\ ~ n >= 6 /\ v[1] = STATUS_OK
          BY <2>1, <2>3, <3>3
        <5> QED
          BY <5>1
      <4>2. Z = <<I, I, D, S, v[4], S>>
        BY <1>1, <2>5, <4>1, SizesOfResponse
      <4>3. Z = <<I, I, D, S, t, S>>
        BY <2>3, <3>3, <4>2
      <4> QED
        BY <1>5, <3>3, <4>3
    <3>4. CASE n \in {6}
      <4>1. Len(v) > 0 /\ v[1] = STATUS_OK /\ Len(v) >= 4 /\ v[4] > 0 /\ Len(v) >= 6 /\ ~ v[6] > 0
        <5>1. n = 6 /\ Len(v) = n
          BY <2>1, <3>4
        <5>2. v[1] = STATUS_OK /\ v[4] = t /\ v[6] = u
          BY <2>3, <5>1
        <5> QED
          BY <5>1, <5>2
      <4>2. Z = <<I, I, D, S, v[4], S>>
        BY <1>1, <2>5, <4>1, SizesOfResponse
      <4>3. Z = <<I, I, D, S, t, S>>
        BY <2>3, <3>4, <4>2
      <4> QED
        BY <1>5, <3>4, <4>3
    <3> QED
      BY <2>2, <3>1, <3>2, <3>3, <3>4
  <2> QED
    BY <1>4, <2>1, <2>4, <2>6
<1>7. Len(F) \in Nat \ {0}
  BY <1>4
<1> QED
  BY <1>3, <1>4, <1>5, <1>6, <1>7, Zenon DEF Agrees

(* Likewise with a summary and no topic.                                    *)
LEMMA SummaryOnly ==
  ASSUME NEW t \in Nat, NEW u \in Nat, ~ t > 0, u > 0
  PROVE  Agrees("response", OkFields(t, u)) /\ OkFields(t, u)[1].value = STATUS_OK
<1>1. PICK I, S, D : I = Width["int"] /\ S = Width["size_t"] /\ D = Width["double"]
  OBVIOUS
<1>2. PICK F : F = <<IntField(STATUS_OK), IntField(Opaque), DoubleField, SizeField(t), SizeField(u), TextField(u)>>
  OBVIOUS
<1>3. OkFields(t, u) = F
  <2>1. /\ Number(STATUS_OK) = <<IntField(STATUS_OK)>> /\ Number(Opaque) = <<IntField(Opaque)>>
        /\ Double = <<DoubleField>>
        /\ Text(t) = <<SizeField(t)>> /\ Text(u) = <<SizeField(u), TextField(u)>>
    BY OtherFields, FieldsOfText DEF Values, STATUS_OK
  <2>2. Number(Opaque) \o Double = <<IntField(Opaque), DoubleField>>
    BY <2>1, Tuple11
  <2>3. OkFields(t, u)
          = <<IntField(STATUS_OK)>> \o
              ((<<IntField(Opaque), DoubleField>> \o <<SizeField(t)>>) \o <<SizeField(u), TextField(u)>>)
    BY <2>1, <2>2, Zenon DEF OkFields
  <2> QED
    BY <1>2, <2>3, Response12
<1>4. F \in Seq(FieldSet) /\ Len(F) = 6
  <2>1. /\ IntField(STATUS_OK) \in FieldSet /\ IntField(Opaque) \in FieldSet
        /\ DoubleField \in FieldSet /\ SizeField(t) \in FieldSet /\ SizeField(u) \in FieldSet
        /\ TextField(u) \in FieldSet
    BY OtherFields, FieldsOfText DEF Values, STATUS_OK
  <2> QED
    BY <1>2, <2>1
<1>5. /\ F[1].value = STATUS_OK /\ F[4].value = t /\ F[5].value = u
      /\ F[1].width = I /\ F[2].width = I /\ F[3].width = D /\ F[4].width = S
      /\ F[5].width = S /\ F[6].width = u
  BY <1>1, <1>2 DEF IntField, SizeField, TextField, DoubleField
<1>6. ASSUME NEW v \in Seq(Values), Matches(v, F)
      PROVE  IF Len(v) = Len(F) THEN Len(Sizes("response", v)) = Len(F)
             ELSE /\ Len(Sizes("response", v)) > Len(v)
                  /\ Sizes("response", v)[Len(v) + 1] = F[Len(v) + 1].width
  <2>1. PICK n : n = Len(v)
    OBVIOUS
  <2>2. n \in 0 .. 6 /\ \A k \in 1 .. n : v[k] = F[k].value
    <3>1. n \in Nat
      BY <2>1, LenProperties
    <3>2. n <= Len(F) /\ \A k \in 1 .. n : v[k] = F[k].value
      BY <1>6, <2>1, Zenon DEF Matches
    <3> QED
      BY <1>4, <3>1, <3>2
  <2>3. /\ n > 0 => v[1] = STATUS_OK
        /\ n >= 4 => v[4] = t
        /\ n >= 5 => v[5] = u
    BY <1>5, <2>2
  <2>4. PICK Z : Z = Sizes("response", v)
    OBVIOUS
  <2>5. Z = ResponseSizes(v)
    BY <2>4 DEF Sizes
  <2>6. IF n = 6 THEN Len(Z) = 6 ELSE Len(Z) > n /\ Z[n + 1] = F[n + 1].width
    <3>1. CASE n = 0
      <4>1. Z = <<I>>
        BY <1>1, <2>1, <2>5, <3>1, SizesOfResponse
      <4> QED
        BY <1>5, <3>1, <4>1
    <3>2. CASE n \in 1 .. 3
      <4>1. Len(v) > 0 /\ v[1] = STATUS_OK /\ Len(v) < 4
        <5>1. n > 0 /\ n < 4 /\ Len(v) = n
          BY <2>1, <3>2
        <5> QED
          BY <2>3, <5>1, Zenon
      <4>2. Z = <<I, I, D, S>>
        BY <1>1, <2>5, <4>1, SizesOfResponse
      <4> QED
        BY <1>5, <3>2, <4>2
    <3>3. CASE n = 4
      <4>1. Len(v) > 0 /\ v[1] = STATUS_OK /\ Len(v) >= 4 /\ ~ v[4] > 0 /\ ~ Len(v) >= 5
        <5>1. Len(v) = n /\ v[4] = t /\ n >= 4 /\ ~ n >= 5 /\ v[1] = STATUS_OK
          BY <2>1, <2>3, <3>3
        <5> QED
          BY <5>1
      <4>2. Z = <<I, I, D, S, S>>
        BY <1>1, <2>5, <4>1, SizesOfResponse
      <4>3. Z = <<I, I, D, S, S>>
        BY <2>3, <3>3, <4>2
      <4> QED
        BY <1>5, <3>3, <4>3
    <3>4. CASE n \in {5, 6}
      <4>1. Len(v) > 0 /\ v[1] = STATUS_OK /\ Len(v) >= 4 /\ ~ v[4] > 0 /\ Len(v) >= 5 /\ v[5] > 0
        BY <2>1, <2>3, <3>4
      <4>2. Z = <<I, I, D, S, S, v[5]>>
        BY <1>1, <2>5, <4>1, SizesOfResponse
      <4>3. Z = <<I, I, D, S, S, u>>
        BY <2>3, <3>4, <4>2
      <4> QED
        BY <1>5, <3>4, <4>3
    <3> QED
      BY <2>2, <3>1, <3>2, <3>3, <3>4
  <2> QED
    BY <1>4, <2>1, <2>4, <2>6
<1>7. Len(F) \in Nat \ {0}
  BY <1>4
<1> QED
  BY <1>3, <1>4, <1>5, <1>6, <1>7, Zenon DEF Agrees

(* Likewise with neither of them.                                           *)
LEMMA NeitherOfThem ==
  ASSUME NEW t \in Nat, NEW u \in Nat, ~ t > 0, ~ u > 0
  PROVE  Agrees("response", OkFields(t, u)) /\ OkFields(t, u)[1].value = STATUS_OK
<1>1. PICK I, S, D : I = Width["int"] /\ S = Width["size_t"] /\ D = Width["double"]
  OBVIOUS
<1>2. PICK F : F = <<IntField(STATUS_OK), IntField(Opaque), DoubleField, SizeField(t), SizeField(u)>>
  OBVIOUS
<1>3. OkFields(t, u) = F
  <2>1. /\ Number(STATUS_OK) = <<IntField(STATUS_OK)>> /\ Number(Opaque) = <<IntField(Opaque)>>
        /\ Double = <<DoubleField>>
        /\ Text(t) = <<SizeField(t)>> /\ Text(u) = <<SizeField(u)>>
    BY OtherFields, FieldsOfText DEF Values, STATUS_OK
  <2>2. Number(Opaque) \o Double = <<IntField(Opaque), DoubleField>>
    BY <2>1, Tuple11
  <2>3. OkFields(t, u)
          = <<IntField(STATUS_OK)>> \o
              ((<<IntField(Opaque), DoubleField>> \o <<SizeField(t)>>) \o <<SizeField(u)>>)
    BY <2>1, <2>2, Zenon DEF OkFields
  <2> QED
    BY <1>2, <2>3, Response11
<1>4. F \in Seq(FieldSet) /\ Len(F) = 5
  <2>1. /\ IntField(STATUS_OK) \in FieldSet /\ IntField(Opaque) \in FieldSet
        /\ DoubleField \in FieldSet /\ SizeField(t) \in FieldSet /\ SizeField(u) \in FieldSet
    BY OtherFields, FieldsOfText DEF Values, STATUS_OK
  <2> QED
    BY <1>2, <2>1
<1>5. /\ F[1].value = STATUS_OK /\ F[4].value = t /\ F[5].value = u
      /\ F[1].width = I /\ F[2].width = I /\ F[3].width = D /\ F[4].width = S
      /\ F[5].width = S
  BY <1>1, <1>2 DEF IntField, SizeField, TextField, DoubleField
<1>6. ASSUME NEW v \in Seq(Values), Matches(v, F)
      PROVE  IF Len(v) = Len(F) THEN Len(Sizes("response", v)) = Len(F)
             ELSE /\ Len(Sizes("response", v)) > Len(v)
                  /\ Sizes("response", v)[Len(v) + 1] = F[Len(v) + 1].width
  <2>1. PICK n : n = Len(v)
    OBVIOUS
  <2>2. n \in 0 .. 5 /\ \A k \in 1 .. n : v[k] = F[k].value
    <3>1. n \in Nat
      BY <2>1, LenProperties
    <3>2. n <= Len(F) /\ \A k \in 1 .. n : v[k] = F[k].value
      BY <1>6, <2>1, Zenon DEF Matches
    <3> QED
      BY <1>4, <3>1, <3>2
  <2>3. /\ n > 0 => v[1] = STATUS_OK
        /\ n >= 4 => v[4] = t
        /\ n >= 5 => v[5] = u
    BY <1>5, <2>2
  <2>4. PICK Z : Z = Sizes("response", v)
    OBVIOUS
  <2>5. Z = ResponseSizes(v)
    BY <2>4 DEF Sizes
  <2>6. IF n = 5 THEN Len(Z) = 5 ELSE Len(Z) > n /\ Z[n + 1] = F[n + 1].width
    <3>1. CASE n = 0
      <4>1. Z = <<I>>
        BY <1>1, <2>1, <2>5, <3>1, SizesOfResponse
      <4> QED
        BY <1>5, <3>1, <4>1
    <3>2. CASE n \in 1 .. 3
      <4>1. Len(v) > 0 /\ v[1] = STATUS_OK /\ Len(v) < 4
        <5>1. n > 0 /\ n < 4 /\ Len(v) = n
          BY <2>1, <3>2
        <5> QED
          BY <2>3, <5>1, Zenon
      <4>2. Z = <<I, I, D, S>>
        BY <1>1, <2>5, <4>1, SizesOfResponse
      <4> QED
        BY <1>5, <3>2, <4>2
    <3>3. CASE n = 4
      <4>1. Len(v) > 0 /\ v[1] = STATUS_OK /\ Len(v) >= 4 /\ ~ v[4] > 0 /\ ~ Len(v) >= 5
        <5>1. Len(v) = n /\ v[4] = t /\ n >= 4 /\ ~ n >= 5 /\ v[1] = STATUS_OK
          BY <2>1, <2>3, <3>3
        <5> QED
          BY <5>1
      <4>2. Z = <<I, I, D, S, S>>
        BY <1>1, <2>5, <4>1, SizesOfResponse
      <4>3. Z = <<I, I, D, S, S>>
        BY <2>3, <3>3, <4>2
      <4> QED
        BY <1>5, <3>3, <4>3
    <3>4. CASE n \in {5}
      <4>1. Len(v) > 0 /\ v[1] = STATUS_OK /\ Len(v) >= 4 /\ ~ v[4] > 0 /\ Len(v) >= 5 /\ ~ v[5] > 0
        BY <2>1, <2>3, <3>4
      <4>2. Z = <<I, I, D, S, S>>
        BY <1>1, <2>5, <4>1, SizesOfResponse
      <4>3. Z = <<I, I, D, S, S>>
        BY <2>3, <3>4, <4>2
      <4> QED
        BY <1>5, <3>4, <4>3
    <3> QED
      BY <2>2, <3>1, <3>2, <3>3, <3>4
  <2> QED
    BY <1>4, <2>1, <2>4, <2>6
<1>7. Len(F) \in Nat \ {0}
  BY <1>4
<1> QED
  BY <1>3, <1>4, <1>5, <1>6, <1>7, Zenon DEF Agrees

(* A client asks for the fields of any response as the server writes them.  *)
LEMMA ResponseAgrees ==
  ASSUME NEW m \in Messages("response")
  PROVE  LET F == Fields("response", m) IN
           /\ Agrees("response", F) /\ F[1].value = m.status
           /\ m.status # STATUS_OK => F[2].value = m.error
<1>1. Fields("response", m) =
        Number(m.status) \o
          (IF m.status = STATUS_OK
           THEN Number(Opaque) \o Double \o Text(m.topic) \o Text(m.summary)
           ELSE Text(m.error))
  BY DEF Fields, ResponseFields
<1>2. CASE m.status = STATUS_OK
  <2>1. m.topic \in Nat /\ m.summary \in Nat
    BY <1>2, WireAssumption DEF Messages, STATUS_OK, STATUS_ERROR
  <2>2. Fields("response", m) = OkFields(m.topic, m.summary)
    BY <1>1, <1>2, Zenon DEF OkFields
  <2>3. /\ Agrees("response", OkFields(m.topic, m.summary))
        /\ OkFields(m.topic, m.summary)[1].value = STATUS_OK
    BY <2>1, TopicAndSummary, TopicOnly, SummaryOnly, NeitherOfThem
  <2> QED
    BY <1>2, <2>2, <2>3, Zenon
<1>3. CASE m.status # STATUS_OK
  <2>1. m.status = STATUS_ERROR /\ m.error \in Nat \ {0}
    BY <1>3, WireAssumption DEF Messages, STATUS_OK, ErrorLens
  <2>2. Fields("response", m) = Number(STATUS_ERROR) \o Text(m.error)
    BY <1>1, <1>3, <2>1, Zenon
  <2>3. ASSUME NEW v \in Seq(Values), Len(v) > 0, v[1] = STATUS_ERROR
        PROVE  Sizes("response", v) = ErrorSizes(v)
    <3>1. v[1] # STATUS_OK
      BY <2>3 DEF STATUS_OK, STATUS_ERROR
    <3> QED
      BY <2>3, <3>1, SizesOfResponse DEF Sizes, ErrorSizes
  <2>4. ASSUME NEW v \in Seq(Values), Len(v) = 0
        PROVE  Len(Sizes("response", v)) > 0 /\ Sizes("response", v)[1] = Width["int"]
    <3>1. Sizes("response", v) = <<Width["int"]>>
      BY <2>4, SizesOfResponse DEF Sizes
    <3> QED
      BY <3>1
  <2>5. STATUS_ERROR \in Values
    BY DEF Values, STATUS_ERROR
  <2>6. Agrees("response", Number(STATUS_ERROR) \o Text(m.error))
    BY <2>1, <2>3, <2>4, <2>5, NumberAndTextAgree
  <2>7. PICK F : F = Fields("response", m)
    OBVIOUS
  <2>8. F = <<IntField(STATUS_ERROR), SizeField(m.error), TextField(m.error)>>
    BY <2>1, <2>2, <2>5, <2>7, NumberAndText
  <2>9. F[1].value = STATUS_ERROR /\ F[2].value = m.error
    BY <2>8 DEF IntField, SizeField
  <2> QED
    BY <1>3, <2>1, <2>2, <2>6, <2>7, <2>9, Zenon
<1> QED
  BY <1>2, <1>3

(* An administration request is one number.                                 *)
LEMMA AdminRequestAgrees ==
  ASSUME NEW m \in Messages("admin_request")
  PROVE  Agrees("admin_request", Fields("admin_request", m))
<1>1. m.command \in Values
  BY DEF Messages, Values
<1>2. PICK F : F = Fields("admin_request", m)
  OBVIOUS
<1>3. F = <<IntField(m.command)>> /\ IntField(m.command) \in FieldSet
  BY <1>1, <1>2, OtherFields DEF Fields, AdminRequestFields
<1>4. F \in Seq(FieldSet) /\ Len(F) = 1 /\ F[1].width = Width["int"] /\ Len(F) \in Nat \ {0}
  BY <1>3 DEF IntField
<1>5. ASSUME NEW v \in Seq(Values), Matches(v, F)
      PROVE  IF Len(v) = Len(F) THEN Len(Sizes("admin_request", v)) = Len(F)
             ELSE /\ Len(Sizes("admin_request", v)) > Len(v)
                  /\ Sizes("admin_request", v)[Len(v) + 1] = F[Len(v) + 1].width
  <2>1. Len(v) \in {0, 1}
    BY <1>4, <1>5, LenProperties DEF Matches
  <2>2. Sizes("admin_request", v) = <<Width["int"]>>
    BY DEF Sizes, AdminRequestSizes
  <2> QED
    BY <1>4, <2>1, <2>2
<1> QED
  BY <1>2, <1>4, <1>5, Zenon DEF Agrees

(* One more than three, and then a sequence. *)
LEMMA FourAndMore ==
  ASSUME NEW S, NEW a \in S, NEW b \in S, NEW c \in S, NEW d \in S, NEW s \in Seq(S)
  PROVE  LET r == <<a>> \o (<<b, c, d>> \o s) IN
           /\ r \in Seq(S) /\ Len(r) = 4 + Len(s)
           /\ r[1] = a /\ r[2] = b /\ r[3] = c /\ r[4] = d
           /\ \A i \in 1 .. Len(s) : r[4 + i] = s[i]
<1>1. PICK x, y, q, r : x = <<a>> /\ y = <<b, c, d>> /\ q = y \o s /\ r = x \o q
  OBVIOUS
<1>2. /\ x \in Seq(S) /\ Len(x) = 1 /\ x[1] = a
      /\ y \in Seq(S) /\ Len(y) = 3 /\ y[1] = b /\ y[2] = c /\ y[3] = d
  BY <1>1
<1>3. /\ q \in Seq(S) /\ Len(q) = 3 + Len(s)
      /\ (\A i \in 1 .. 3 : q[i] = y[i]) /\ \A i \in 1 .. Len(s) : q[3 + i] = s[i]
  BY <1>1, <1>2, ConcatElements
<1>4. /\ r \in Seq(S) /\ Len(r) = 1 + Len(q)
      /\ (\A i \in 1 .. 1 : r[i] = x[i]) /\ \A i \in 1 .. Len(q) : r[1 + i] = q[i]
  BY <1>1, <1>2, <1>3, ConcatElements
<1>5. Len(s) \in Nat
  BY LenProperties
<1>6. r[1 + 1] = q[1] /\ r[1 + 2] = q[2] /\ r[1 + 3] = q[3]
  BY <1>3, <1>4, <1>5
<1>7. ASSUME NEW i \in 1 .. Len(s) PROVE r[4 + i] = s[i]
  <2>1. 3 + i \in 1 .. Len(q) /\ 1 + (3 + i) = 4 + i
    BY <1>3, <1>5
  <2>2. r[1 + (3 + i)] = q[3 + i]
    BY <1>4, <2>1
  <2> QED
    BY <1>3, <2>1, <2>2
<1>8. /\ r \in Seq(S) /\ Len(r) = 4 + Len(s)
      /\ r[1] = a /\ r[2] = b /\ r[3] = c /\ r[4] = d
  BY <1>2, <1>3, <1>4, <1>5, <1>6
<1> QED
  BY <1>1, <1>7, <1>8, Zenon

(* As AdminResponseSizes, for status OK and c clients. *)
LEMMA SizesOfClients ==
  ASSUME NEW v \in Seq(Values), Len(v) > 0, v[1] = STATUS_OK, NEW c \in Nat,
         Len(v) >= 2 /\ v[2] > 0 => c = v[2],
         ~ (Len(v) >= 2 /\ v[2] > 0) => c = 0,
         NEW Z, Z = AdminResponseSizes(v), NEW I, I = Width["int"]
  PROVE  /\ Z \in Seq(Nat \ {0}) /\ Len(Z) = 4 + c
         /\ Z[1] = I /\ Z[2] = I /\ Z[3] = I /\ Z[4] = I
         /\ \A i \in 1 .. c : Z[4 + i] = Width["client_info"]
<1>1. PICK C : C = Width["client_info"]
  OBVIOUS
<1>2. I \in Nat \ {0} /\ C \in Nat \ {0}
  BY <1>1, Widths
<1>3. PICK s : s = [i \in 1 .. c |-> C]
  OBVIOUS
<1>4. s \in Seq(Nat \ {0}) /\ Len(s) = c /\ \A i \in 1 .. c : s[i] = C
  BY <1>2, <1>3
<1>5. (IF Len(v) < 2 THEN <<>> ELSE [i \in 1 .. v[2] |-> C]) = s
  <2>1. Len(v) \in Nat /\ (Len(v) >= 2 => v[2] \in Int)
    BY LenProperties, ElementOfSeq DEF Values, Opaque
  <2>2. CASE Len(v) < 2
    <3>1. c = 0
      BY <2>1, <2>2
    <3> QED
      BY <1>3, <2>2, <3>1
  <2>3. CASE Len(v) >= 2 /\ v[2] > 0
    <3>1. c = v[2] /\ ~ Len(v) < 2
      BY <2>1, <2>3
    <3> QED
      BY <1>3, <3>1, Zenon
  <2>4. CASE Len(v) >= 2 /\ ~ v[2] > 0
    <3>1. c = 0 /\ ~ Len(v) < 2 /\ 1 .. v[2] = {} /\ 1 .. c = {}
      BY <2>1, <2>4
    <3> QED
      BY <1>3, <3>1, Zenon
  <2> QED
    BY <2>1, <2>2, <2>3, <2>4
<1>6. Z = <<I>> \o (<<I, I, I>> \o s)
  <2>1. v # <<>>
    BY EmptySeq
  <2>2. [i \in 1 .. 3 |-> I] = <<I, I, I>>
    OBVIOUS
  <2>3. Z = <<I>> \o ([i \in 1 .. 3 |-> I] \o
                        (IF Len(v) < 2 THEN <<>> ELSE [i \in 1 .. v[2] |-> C]))
    BY <1>1, <2>1, Zenon DEF AdminResponseSizes
  <2> QED
    BY <1>5, <2>2, <2>3, Zenon
<1>7. /\ Z \in Seq(Nat \ {0}) /\ Len(Z) = 4 + c
      /\ Z[1] = I /\ Z[2] = I /\ Z[3] = I /\ Z[4] = I
      /\ \A i \in 1 .. c : Z[4 + i] = s[i]
  BY <1>2, <1>4, <1>6, FourAndMore
<1> QED
  BY <1>1, <1>4, <1>7

(* What the administration client expects, before and after the status.     *)
LEMMA SizesOfAdminResponse ==
  ASSUME NEW v \in Seq(Values)
  PROVE  /\ Len(v) = 0 => AdminResponseSizes(v) = <<Width["int"]>>
         /\ Len(v) > 0 /\ v[1] # STATUS_OK => AdminResponseSizes(v) = ErrorSizes(v)
<1>1. ASSUME Len(v) = 0 PROVE AdminResponseSizes(v) = <<Width["int"]>>
  <2>1. v = <<>>
    BY <1>1, EmptySeq
  <2>2. AdminResponseSizes(v) = <<Width["int"]>> \o <<>>
    BY <2>1, Zenon DEF AdminResponseSizes
  <2>3. <<Width["int"]>> \in Seq({Width["int"]})
    OBVIOUS
  <2> QED
    BY <2>2, <2>3, ConcatEmptySeq
<1>2. ASSUME Len(v) > 0, v[1] # STATUS_OK PROVE AdminResponseSizes(v) = ErrorSizes(v)
  <2>1. v # <<>>
    BY <1>2, EmptySeq
  <2> QED
    BY <1>2, <2>1, Zenon DEF AdminResponseSizes, ErrorSizes
<1> QED
  BY <1>1, <1>2

(* The administration client asks for the fields of any response as the     *)
(* server writes them.                                                      *)
LEMMA AdminResponseAgrees ==
  ASSUME NEW m \in Messages("admin_response")
  PROVE  LET F == Fields("admin_response", m) IN
           /\ Agrees("admin_response", F) /\ F[1].value = m.status
           /\ F[2].value = IF m.status = STATUS_OK THEN m.clients ELSE m.error
<1>1. CASE m.status = STATUS_OK
  <2>1. PICK c, I, C : c = m.clients /\ I = Width["int"] /\ C = Width["client_info"]
    OBVIOUS
  <2>2. c \in Nat /\ I \in Nat \ {0} /\ C \in Nat \ {0}
    BY <1>1, <2>1, Widths, WireAssumption DEF Messages, STATUS_OK, STATUS_ERROR
  <2>3. PICK F : F = Fields("admin_response", m)
    OBVIOUS
  <2>4. PICK s : s = [i \in 1 .. c |-> [value |-> Opaque, width |-> C]]
    OBVIOUS
  <2>5. s \in Seq(FieldSet) /\ Len(s) = c /\ \A i \in 1 .. c : s[i].width = C
    BY <2>2, <2>4 DEF FieldSet, Values, Opaque
  <2>6. PICK z, k, o : z = IntField(STATUS_OK) /\ k = IntField(c) /\ o = IntField(Opaque)
    OBVIOUS
  <2>7. /\ z \in FieldSet /\ k \in FieldSet /\ o \in FieldSet
        /\ Number(STATUS_OK) = <<z>> /\ Number(c) = <<k>> /\ Number(Opaque) = <<o>>
    BY <2>2, <2>6, OtherFields DEF Values, STATUS_OK
  <2>8. /\ z.value = STATUS_OK /\ k.value = c /\ z.width = I /\ k.width = I /\ o.width = I
    BY <2>1, <2>6 DEF IntField
  <2>9. F = <<z>> \o (<<k, o, o>> \o s)
    <3>1. <<k>> \o <<o>> = <<k, o>> /\ <<k, o>> \o <<o>> = <<k, o, o>>
      BY Tuple11, Tuple21
    <3>2. F = <<z>> \o (((<<k>> \o <<o>>) \o <<o>>) \o s)
      BY <1>1, <2>1, <2>3, <2>4, <2>7, Zenon DEF Fields, AdminResponseFields
    <3> QED
      BY <3>1, <3>2, Zenon
  <2>10. /\ F \in Seq(FieldSet) /\ Len(F) = 4 + c
         /\ F[1] = z /\ F[2] = k /\ F[3] = o /\ F[4] = o
         /\ \A i \in 1 .. c : F[4 + i] = s[i]
    BY <2>5, <2>7, <2>9, FourAndMore
  <2>11. ASSUME NEW v \in Seq(Values), Matches(v, F)
         PROVE  IF Len(v) = Len(F) THEN Len(Sizes("admin_response", v)) = Len(F)
                ELSE /\ Len(Sizes("admin_response", v)) > Len(v)
                     /\ Sizes("admin_response", v)[Len(v) + 1] = F[Len(v) + 1].width
    <3>1. PICK n, Z : n = Len(v) /\ Z = Sizes("admin_response", v)
      OBVIOUS
    <3>2. n \in 0 .. 4 + c /\ \A j \in 1 .. n : v[j] = F[j].value
      <4>1. n \in Nat
        BY <3>1, LenProperties
      <4>2. n <= Len(F) /\ \A j \in 1 .. n : v[j] = F[j].value
        BY <2>11, <3>1, Zenon DEF Matches
      <4> QED
        BY <2>2, <2>10, <4>1, <4>2
    <3>3. Z = AdminResponseSizes(v)
      BY <3>1 DEF Sizes
    <3>4. IF n = 4 + c THEN Len(Z) = 4 + c ELSE Len(Z) > n /\ Z[n + 1] = F[n + 1].width
      <4>1. CASE n = 0
        <5>1. Z = <<I>>
          BY <2>1, <3>1, <3>3, <4>1, SizesOfAdminResponse
        <5> QED
          BY <2>2, <2>8, <2>10, <4>1, <5>1
      <4>2. CASE n > 0
        <5>1. v[1] = STATUS_OK /\ (n >= 2 => v[2] = c)
          BY <2>8, <2>10, <3>2, <4>2
        <5>2. PICK d \in Nat : /\ n >= 2 /\ v[2] > 0 => d = v[2]
                               /\ ~ (n >= 2 /\ v[2] > 0) => d = 0
                               /\ n >= 2 => d = c
          <6>1. CASE n >= 2
            BY <2>2, <5>1, <6>1
          <6>2. CASE ~ n >= 2
            BY <6>2
          <6> QED
            BY <6>1, <6>2
        <5>3. /\ Len(Z) = 4 + d /\ Z[1] = I /\ Z[2] = I /\ Z[3] = I /\ Z[4] = I
              /\ \A i \in 1 .. d : Z[4 + i] = C
          BY <2>1, <3>1, <3>3, <4>2, <5>1, <5>2, SizesOfClients
        <5>4. CASE n \in {1, 2, 3}
          BY <2>2, <2>8, <2>10, <5>3, <5>4
        <5>5. CASE n >= 4
          <6>1. d = c
            <7>1. n >= 2
              BY <3>2, <5>5
            <7> QED
              BY <5>2, <7>1
          <6>2. CASE n = 4 + c
            BY <5>3, <6>1, <6>2
          <6>3. CASE n # 4 + c
            <7>1. PICK i : i = n - 3
              OBVIOUS
            <7>2. i \in 1 .. c /\ 4 + i = n + 1
              BY <2>2, <3>2, <5>5, <6>3, <7>1
            <7>3. Z[n + 1] = C /\ F[n + 1] = s[i]
              BY <2>10, <5>3, <6>1, <7>2
            <7>4. Len(Z) > n
              BY <2>2, <3>2, <5>3, <6>1, <6>3
            <7> QED
              BY <2>5, <6>3, <7>2, <7>3, <7>4
          <6> QED
            BY <6>2, <6>3
        <5> QED
          BY <3>2, <4>2, <5>4, <5>5
      <4> QED
        BY <3>2, <4>1, <4>2
    <3> QED
      BY <2>10, <3>1, <3>4
  <2>12. Len(F) \in Nat \ {0}
    BY <2>2, <2>10
  <2>13. Agrees("admin_response", F)
    BY <2>10, <2>11, <2>12, Zenon DEF Agrees
  <2>14. F[1].value = m.status /\ F[2].value = m.clients
    BY <1>1, <2>1, <2>8, <2>10
  <2> QED
    BY <1>1, <2>3, <2>13, <2>14
<1>2. CASE m.status # STATUS_OK
  <2>1. m.status = STATUS_ERROR /\ m.error \in Nat \ {0}
    BY <1>2, WireAssumption DEF Messages, STATUS_OK, ErrorLens
  <2>2. Fields("admin_response", m) = Number(STATUS_ERROR) \o Text(m.error)
    BY <1>2, <2>1, Zenon DEF Fields, AdminResponseFields
  <2>3. ASSUME NEW v \in Seq(Values), Len(v) > 0, v[1] = STATUS_ERROR
        PROVE  Sizes("admin_response", v) = ErrorSizes(v)
    <3>1. v[1] # STATUS_OK
      BY <2>3 DEF STATUS_OK, STATUS_ERROR
    <3> QED
      BY <2>3, <3>1, SizesOfAdminResponse DEF Sizes
  <2>4. ASSUME NEW v \in Seq(Values), Len(v) = 0
        PROVE  Len(Sizes("admin_response", v)) > 0 /\ Sizes("admin_response", v)[1] = Width["int"]
    <3>1. Sizes("admin_response", v) = <<Width["int"]>>
      BY <2>4, SizesOfAdminResponse DEF Sizes
    <3> QED
      BY <3>1
  <2>5. STATUS_ERROR \in Values
    BY DEF Values, STATUS_ERROR
  <2>6. Agrees("admin_response", Number(STATUS_ERROR) \o Text(m.error))
    BY <2>1, <2>3, <2>4, <2>5, NumberAndTextAgree
  <2>7. PICK F : F = Fields("admin_response", m)
    OBVIOUS
  <2>8. F = <<IntField(STATUS_ERROR), SizeField(m.error), TextField(m.error)>>
    BY <2>1, <2>2, <2>5, <2>7, NumberAndText
  <2>9. F[1].value = STATUS_ERROR /\ F[2].value = m.error
    BY <2>8 DEF IntField, SizeField
  <2> QED
    BY <1>2, <2>1, <2>2, <2>6, <2>7, <2>9, Zenon
<1> QED
  BY <1>1, <1>2

-----------------------------------------------------------------------------
(* All kinds of messages. *)

Kinds == {"request", "response", "admin_request", "admin_response"}

(* Whoever receives a message of any kind agrees with who sends it.         *)
LEMMA MessagesAgree ==
  ASSUME NEW kind \in Kinds, NEW m \in Messages(kind)
  PROVE  Agrees(kind, Fields(kind, m))
BY RequestAgrees, ResponseAgrees, AdminRequestAgrees, AdminResponseAgrees DEF Kinds

(* What the senders write passes the tests of the receivers, but for a text *)
(* of the Python client that leaves no room for the NUL.                    *)
LEMMA NotRefused ==
  ASSUME NEW kind \in Kinds, NEW m \in Messages(kind), NEW v \in Seq(Values),
         Len(v) > 0, Matches(v, Fields(kind, m)), Refused(kind, v)
  PROVE  kind = "request" /\ m.client = "python" /\ m.bytes >= MAX_TEXT_SIZE
<1>1. PICK F : F = Fields(kind, m)
  OBVIOUS
<1>2. /\ Len(v) \in Nat \ {0} /\ v[1] = F[1].value
      /\ Len(v) >= 2 => v[2] = F[2].value
  <2>1. Len(v) \in Nat /\ \A k \in 1 .. Len(v) : v[k] = F[k].value
    BY <1>1, LenProperties DEF Matches
  <2> QED
    BY <2>1
<1>3. CASE kind = "request"
  <2>1. v[2] = RequestText(m) /\ (v[2] > MAX_TEXT_SIZE \/ v[2] = 0)
    <3>1. RefusedRequest(v)
      BY <1>3 DEF Refused
    <3> QED
      BY <1>1, <1>2, <1>3, <3>1, RequestAgrees DEF RefusedRequest
  <2> QED
    BY <1>3, <2>1, RequestAgrees
<1>4. ASSUME kind \in {"response", "admin_response"}, RefusedError(v)
      PROVE  FALSE
  <2>1. v[1] = m.status /\ v[1] # STATUS_OK /\ v[2] = m.error
        /\ (v[2] > MAX_ERROR_MSG \/ v[2] = 0)
    BY <1>1, <1>2, <1>4, ResponseAgrees, AdminResponseAgrees DEF RefusedError
  <2>2. PICK e : e = m.error
    OBVIOUS
  <2>3. e \in TextLens /\ e <= MAX_ERROR_MSG
    BY <1>4, <2>1, <2>2 DEF Messages, ErrorLens
  <2>4. e \in Nat \ {0} /\ MAX_ERROR_MSG \in Nat
    BY <2>3, WireAssumption
  <2> QED
    BY <2>1, <2>2, <2>3, <2>4
<1>5. ASSUME kind = "admin_response", RefusedClients(v)
      PROVE  FALSE
  <2>1. m.status = STATUS_OK /\ v[2] = m.clients /\ v[2] > MAX_CLIENTS
    BY <1>1, <1>2, <1>5, AdminResponseAgrees DEF RefusedClients
  <2>2. m.clients \in 0 .. MAX_CLIENTS
    BY <1>5, <2>1 DEF Messages, STATUS_OK, STATUS_ERROR
  <2> QED
    BY <2>1, <2>2, WireAssumption
<1> QED
  BY <1>3, <1>4, <1>5 DEF Kinds, Refused

(* Whatever a receiver has got, it asks for fields of one byte or more.     *)
LEMMA SizesArePositive ==
  ASSUME NEW kind \in Kinds, NEW v \in Seq(Values)
  PROVE  Sizes(kind, v) \in Seq(Nat \ {0}) /\ Len(Sizes(kind, v)) > 0
<1>1. PICK Z : Z = Sizes(kind, v)
  OBVIOUS
<1>2. PICK I, S, D : I = Width["int"] /\ S = Width["size_t"] /\ D = Width["double"]
  OBVIOUS
<1>3. /\ I \in Nat \ {0} /\ S \in Nat \ {0} /\ D \in Nat \ {0} /\ Len(v) \in Nat
      /\ \A k \in 1 .. Len(v) : v[k] \in Int /\ (v[k] > 0 => v[k] \in Nat \ {0})
  BY <1>2, Widths, LenProperties, ElementOfSeq DEF Values, Opaque
<1>4. ASSUME Z = ErrorSizes(v)
      PROVE  Z \in Seq(Nat \ {0}) /\ Len(Z) > 0
  <2>1. CASE Len(v) >= 2 /\ v[2] > 0
    <3>1. PICK x : x = v[2]
      OBVIOUS
    <3>2. Z = <<I, S, x>> /\ x \in Nat \ {0}
      BY <1>2, <1>3, <1>4, <2>1, <3>1, SizesOfError
    <3> QED
      BY <1>3, <3>2
  <2>2. CASE ~ (Len(v) >= 2 /\ v[2] > 0)
    <3>1. Z = <<I, S>>
      BY <1>2, <1>4, <2>2, SizesOfError
    <3> QED
      BY <1>3, <3>1
  <2> QED
    BY <2>1, <2>2
<1>5. CASE kind = "request"
  BY <1>1, <1>4, <1>5 DEF Sizes, RequestSizes, ErrorSizes
<1>6. CASE kind = "admin_request"
  BY <1>1, <1>2, <1>3, <1>6 DEF Sizes, AdminRequestSizes
<1>7. CASE Len(v) = 0 /\ kind \in {"response", "admin_response"}
  <2>1. Z = <<I>>
    BY <1>1, <1>2, <1>7, SizesOfResponse, SizesOfAdminResponse DEF Sizes
  <2> QED
    BY <1>1, <1>3, <2>1
<1>8. CASE Len(v) > 0 /\ v[1] # STATUS_OK /\ kind \in {"response", "admin_response"}
  <2>1. Z = ErrorSizes(v)
    BY <1>1, <1>2, <1>8, SizesOfResponse, SizesOfAdminResponse DEF Sizes, ErrorSizes
  <2> QED
    BY <1>1, <1>4, <2>1
<1>9. CASE Len(v) > 0 /\ v[1] = STATUS_OK /\ kind = "response"
  <2>1. Z = ResponseSizes(v)
    BY <1>1, <1>9 DEF Sizes
  <2>2. CASE Len(v) < 4
    <3>1. Z = <<I, I, D, S>>
      BY <1>2, <1>9, <2>1, <2>2, SizesOfResponse
    <3> QED
      BY <1>1, <1>3, <3>1
  <2>3. CASE Len(v) >= 4 /\ v[4] > 0
    <3>1. PICK x, y : x = v[4] /\ y = v[6]
      OBVIOUS
    <3>2. x \in Nat \ {0} /\ (Len(v) >= 6 /\ v[6] > 0 => y \in Nat \ {0})
      BY <1>3, <2>3, <3>1
    <3>3. CASE Len(v) >= 6 /\ v[6] > 0
      <4>1. Z = <<I, I, D, S, x, S, y>>
        BY <1>2, <1>9, <2>1, <2>3, <3>1, <3>3, SizesOfResponse
      <4>2. Z \in Seq(Nat \ {0}) /\ Len(Z) > 0
        BY <1>3, <3>2, <3>3, <4>1
      <4> QED
        BY <1>1, <4>2
    <3>4. CASE ~ (Len(v) >= 6 /\ v[6] > 0)
      <4>1. Z = <<I, I, D, S, x, S>>
        BY <1>2, <1>9, <2>1, <2>3, <3>1, <3>4, SizesOfResponse
      <4>2. Z \in Seq(Nat \ {0}) /\ Len(Z) > 0
        BY <1>3, <3>2, <4>1
      <4> QED
        BY <1>1, <4>2
    <3> QED
      BY <3>3, <3>4
  <2>4. CASE Len(v) >= 4 /\ ~ v[4] > 0
    <3>1. PICK y : y = v[5]
      OBVIOUS
    <3>2. Len(v) >= 5 /\ v[5] > 0 => y \in Nat \ {0}
      BY <1>3, <2>4, <3>1
    <3>3. CASE Len(v) >= 5 /\ v[5] > 0
      <4>1. Z = <<I, I, D, S, S, y>>
        BY <1>2, <1>9, <2>1, <2>4, <3>1, <3>3, SizesOfResponse
      <4>2. Z \in Seq(Nat \ {0}) /\ Len(Z) > 0
        BY <1>3, <3>2, <3>3, <4>1
      <4> QED
        BY <1>1, <4>2
    <3>4. CASE ~ (Len(v) >= 5 /\ v[5] > 0)
      <4>1. Z = <<I, I, D, S, S>>
        BY <1>2, <1>9, <2>1, <2>4, <3>4, SizesOfResponse
      <4>2. Z \in Seq(Nat \ {0}) /\ Len(Z) > 0
        BY <1>3, <4>1
      <4> QED
        BY <1>1, <4>2
    <3> QED
      BY <3>3, <3>4
  <2> QED
    BY <1>3, <2>2, <2>3, <2>4
<1>10. CASE Len(v) > 0 /\ v[1] = STATUS_OK /\ kind = "admin_response"
  <2>1. PICK c \in Nat : /\ Len(v) >= 2 /\ v[2] > 0 => c = v[2]
                         /\ ~ (Len(v) >= 2 /\ v[2] > 0) => c = 0
    <3>1. CASE Len(v) >= 2 /\ v[2] > 0
      BY <1>3, <3>1
    <3>2. CASE ~ (Len(v) >= 2 /\ v[2] > 0)
      BY <3>2
    <3> QED
      BY <3>1, <3>2
  <2>2. Z = AdminResponseSizes(v)
    BY <1>1, <1>10 DEF Sizes
  <2>3. Z \in Seq(Nat \ {0}) /\ Len(Z) = 4 + c
    BY <1>2, <1>10, <2>1, <2>2, SizesOfClients
  <2> QED
    BY <1>1, <2>3
<1> QED
  BY <1>1, <1>3, <1>5, <1>6, <1>7, <1>8, <1>9, <1>10 DEF Kinds

(* How many fields the sizes of a response are, and those of an error.      *)
LEMMA LengthOfError ==
  ASSUME NEW v \in Seq(Values)
  PROVE  /\ Len(v) >= 2 /\ v[2] > 0 => Len(ErrorSizes(v)) = 3
         /\ ~ (Len(v) >= 2 /\ v[2] > 0) => Len(ErrorSizes(v)) = 2
<1>1. PICK I, S, x : I = Width["int"] /\ S = Width["size_t"] /\ x = v[2]
  OBVIOUS
<1>2. Len(<<I, S, x>>) = 3 /\ Len(<<I, S>>) = 2
  OBVIOUS
<1> QED
  BY <1>1, <1>2, SizesOfError, Zenon

(* How many fields a response has, as far as they are known.                *)
LEMMA LengthOfResponse ==
  ASSUME NEW v \in Seq(Values), Len(v) > 0, v[1] = STATUS_OK
  PROVE  /\ Len(v) < 4 => Len(ResponseSizes(v)) = 4
         /\ Len(v) >= 4 /\ v[4] > 0 =>
              /\ Len(v) >= 6 /\ v[6] > 0 => Len(ResponseSizes(v)) = 7
              /\ ~ (Len(v) >= 6 /\ v[6] > 0) => Len(ResponseSizes(v)) = 6
         /\ Len(v) >= 4 /\ ~ v[4] > 0 =>
              /\ Len(v) >= 5 /\ v[5] > 0 => Len(ResponseSizes(v)) = 6
              /\ ~ (Len(v) >= 5 /\ v[5] > 0) => Len(ResponseSizes(v)) = 5
<1>1. PICK I, S, D, x, y, z : /\ I = Width["int"] /\ S = Width["size_t"] /\ D = Width["double"]
                              /\ x = v[4] /\ y = v[5] /\ z = v[6]
  OBVIOUS
<1>2. /\ Len(<<I, I, D, S>>) = 4 /\ Len(<<I, I, D, S, S>>) = 5 /\ Len(<<I, I, D, S, S, y>>) = 6
      /\ Len(<<I, I, D, S, x, S>>) = 6 /\ Len(<<I, I, D, S, x, S, z>>) = 7
  OBVIOUS
<1>3. Len(v) < 4 => Len(ResponseSizes(v)) = 4
  BY <1>1, <1>2, SizesOfResponse, Zenon
<1>4. ASSUME Len(v) >= 4, v[4] > 0
      PROVE  /\ Len(v) >= 6 /\ v[6] > 0 => Len(ResponseSizes(v)) = 7
             /\ ~ (Len(v) >= 6 /\ v[6] > 0) => Len(ResponseSizes(v)) = 6
  <2>1. /\ Len(v) >= 6 /\ v[6] > 0 => ResponseSizes(v) = <<I, I, D, S, x, S, z>>
        /\ ~ (Len(v) >= 6 /\ v[6] > 0) => ResponseSizes(v) = <<I, I, D, S, x, S>>
    BY <1>1, <1>4, SizesOfResponse
  <2> QED
    BY <1>2, <2>1, Zenon
<1>5. ASSUME Len(v) >= 4, ~ v[4] > 0
      PROVE  /\ Len(v) >= 5 /\ v[5] > 0 => Len(ResponseSizes(v)) = 6
             /\ ~ (Len(v) >= 5 /\ v[5] > 0) => Len(ResponseSizes(v)) = 5
  <2>1. /\ Len(v) >= 5 /\ v[5] > 0 => ResponseSizes(v) = <<I, I, D, S, S, y>>
        /\ ~ (Len(v) >= 5 /\ v[5] > 0) => ResponseSizes(v) = <<I, I, D, S, S>>
    BY <1>1, <1>5, SizesOfResponse
  <2> QED
    BY <1>2, <2>1, Zenon
<1> QED
  BY <1>3, <1>4, <1>5, Zenon

(* How many fields a successful response has, of which one more is known.  *)
LEMMA ResponseGrows ==
  ASSUME NEW n \in Nat, NEW a \in Nat, NEW b \in Nat, NEW m \in Nat, n < a, m = n + 1,
         NEW p, NEW q, NEW s, NEW P, NEW Q, NEW S,
         n >= 4 => P = p, n >= 5 => Q = q, n >= 6 => S = s,
         n >= 4 /\ p > 0 => (n >= 6 /\ s > 0 => a = 7) /\ (~ (n >= 6 /\ s > 0) => a = 6),
         n >= 4 /\ ~ p > 0 => (n >= 5 /\ q > 0 => a = 6) /\ (~ (n >= 5 /\ q > 0) => a = 5),
         m < 4 => b = 4,
         m >= 4 /\ P > 0 => (m >= 6 /\ S > 0 => b = 7) /\ (~ (m >= 6 /\ S > 0) => b = 6),
         m >= 4 /\ ~ P > 0 => (m >= 5 /\ Q > 0 => b = 6) /\ (~ (m >= 5 /\ Q > 0) => b = 5)
  PROVE  m <= b
OBVIOUS

(* A field that has been asked for is one of the message, however it is     *)
(* decoded.                                                                 *)
LEMMA SizesGrow ==
  ASSUME NEW kind \in Kinds, NEW v \in Seq(Values), NEW x \in Values,
         Len(v) < Len(Sizes(kind, v)), NEW w, w = Append(v, x)
  PROVE  /\ w \in Seq(Values) /\ Len(w) = Len(v) + 1
         /\ Len(w) <= Len(Sizes(kind, w))
<1>1. PICK n : n = Len(v)
  OBVIOUS
<1>2. /\ n \in Nat /\ w \in Seq(Values) /\ Len(w) = n + 1
      /\ \A k \in 1 .. n : w[k] = v[k]
  BY <1>1, LenProperties, AppendProperties
<1>3. PICK a, b : a = Len(Sizes(kind, v)) /\ b = Len(Sizes(kind, w))
  OBVIOUS
<1>4. n < a /\ b > 0
  BY <1>1, <1>2, <1>3, SizesArePositive
<1>5. b \in Nat /\ a \in Nat
  BY <1>2, <1>3, SizesArePositive, LenProperties
<1>6. CASE n = 0
  BY <1>2, <1>3, <1>4, <1>5, <1>6
<1>7. ASSUME n > 0, Sizes(kind, v) = ErrorSizes(v), Sizes(kind, w) = ErrorSizes(w)
      PROVE  n + 1 <= b
  <2>1. /\ n >= 2 /\ v[2] > 0 => a = 3
        /\ ~ (n >= 2 /\ v[2] > 0) => a = 2
    BY <1>1, <1>3, <1>7, LengthOfError
  <2>2. /\ n + 1 >= 2 /\ w[2] > 0 => b = 3
        /\ ~ (n + 1 >= 2 /\ w[2] > 0) => b = 2
    BY <1>2, <1>3, <1>7, LengthOfError
  <2>9. n = 1 => n + 1 >= 2
    BY <1>2
  <2>3. n >= 2 => w[2] = v[2]
    BY <1>2
  <2>4. CASE n = 1
    <3>1. b = 2 \/ b = 3
      BY <1>2, <2>2, Zenon, <2>4, <2>9
    <3> QED
      BY <2>4, <3>1
  <2>5. CASE n # 1
    BY <1>2, <1>4, <1>5, <1>7, <2>1, <2>2, <2>3, <2>5
  <2> QED
    BY <2>4, <2>5
<1>8. CASE kind = "request"
  <2>1. Sizes(kind, v) = ErrorSizes(v) /\ Sizes(kind, w) = ErrorSizes(w)
    BY <1>8 DEF Sizes, RequestSizes, ErrorSizes
  <2> QED
    BY <1>2, <1>3, <1>6, <1>7, <2>1
<1>9. CASE kind = "admin_request"
  <2>1. a = 1
    <3>1. Sizes(kind, v) = <<Width["int"]>>
      BY <1>9 DEF Sizes, AdminRequestSizes
    <3> QED
      BY <1>3, <3>1
  <2> QED
    BY <1>2, <1>3, <1>4, <1>6, <2>1
<1>10. CASE n > 0 /\ kind \in {"response", "admin_response"} /\ v[1] # STATUS_OK
  <2>1. w[1] # STATUS_OK /\ Len(v) > 0 /\ Len(w) > 0
    BY <1>1, <1>2, <1>10
  <2>2. Sizes(kind, v) = ErrorSizes(v) /\ Sizes(kind, w) = ErrorSizes(w)
    BY <1>2, <1>10, <2>1, SizesOfResponse, SizesOfAdminResponse DEF Sizes, ErrorSizes
  <2> QED
    BY <1>2, <1>3, <1>7, <1>10, <2>2
<1>11. CASE n > 0 /\ kind = "response" /\ v[1] = STATUS_OK
  <2>1. w[1] = STATUS_OK /\ Len(v) > 0 /\ Len(w) > 0
    BY <1>1, <1>2, <1>11
  <2>2. PICK p, q, r, s : p = v[4] /\ q = v[5] /\ r = w[5] /\ s = v[6]
    OBVIOUS
  <2>3. /\ n < 4 => a = 4
        /\ n >= 4 /\ p > 0 => (n >= 6 /\ s > 0 => a = 7) /\ (~ (n >= 6 /\ s > 0) => a = 6)
        /\ n >= 4 /\ ~ p > 0 => (n >= 5 /\ q > 0 => a = 6) /\ (~ (n >= 5 /\ q > 0) => a = 5)
    BY <1>1, <1>3, <1>11, <2>1, <2>2, LengthOfResponse DEF Sizes
  <2>4. PICK P, Q, S : P = w[4] /\ Q = w[5] /\ S = w[6]
    OBVIOUS
  <2>5. PICK m \in Nat : m = n + 1 /\ n \in Nat
    BY <1>2
  <2>6. /\ m < 4 => b = 4
        /\ m >= 4 /\ P > 0 => (m >= 6 /\ S > 0 => b = 7) /\ (~ (m >= 6 /\ S > 0) => b = 6)
        /\ m >= 4 /\ ~ P > 0 => (m >= 5 /\ Q > 0 => b = 6) /\ (~ (m >= 5 /\ Q > 0) => b = 5)
    BY <1>2, <1>3, <1>11, <2>1, <2>4, <2>5, LengthOfResponse DEF Sizes
  <2>7. (n >= 4 => P = p) /\ (n >= 5 => Q = q) /\ (n >= 6 => S = s)
    BY <1>2, <2>2, <2>4
  <2>8. m <= b
    BY <1>4, <1>5, <2>3, <2>5, <2>6, <2>7, ResponseGrows
  <2> QED
    BY <1>1, <1>2, <1>3, <2>5, <2>8, Zenon
<1>12. CASE n > 0 /\ kind = "admin_response" /\ v[1] = STATUS_OK
  <2>1. w[1] = STATUS_OK /\ Len(v) > 0 /\ Len(w) > 0
    BY <1>1, <1>2, <1>12
  <2>2. \A u \in Seq(Values) : Len(u) >= 2 => u[2] \in Int
    BY ElementOfSeq, LenProperties DEF Values, Opaque
  <2>3. PICK c \in Nat : /\ Len(v) >= 2 /\ v[2] > 0 => c = v[2]
                         /\ ~ (Len(v) >= 2 /\ v[2] > 0) => c = 0
    <3>1. CASE Len(v) >= 2 /\ v[2] > 0
      BY <2>2, <3>1
    <3>2. CASE ~ (Len(v) >= 2 /\ v[2] > 0)
      BY <3>2
    <3> QED
      BY <3>1, <3>2
  <2>4. PICK d \in Nat : /\ Len(w) >= 2 /\ w[2] > 0 => d = w[2]
                         /\ ~ (Len(w) >= 2 /\ w[2] > 0) => d = 0
    <3>1. CASE Len(w) >= 2 /\ w[2] > 0
      BY <1>2, <2>2, <3>1
    <3>2. CASE ~ (Len(w) >= 2 /\ w[2] > 0)
      BY <3>2
    <3> QED
      BY <3>1, <3>2
  <2>5. Sizes(kind, v) = AdminResponseSizes(v) /\ Sizes(kind, w) = AdminResponseSizes(w)
    BY <1>12 DEF Sizes
  <2>6. a = 4 + c
    <3>1. Len(v) > 0 /\ v[1] = STATUS_OK /\ a = Len(AdminResponseSizes(v))
      BY <1>3, <1>12, <2>1, <2>5
    <3> QED
      BY <2>3, <3>1, SizesOfClients
  <2>7. b = 4 + d
    <3>1. w \in Seq(Values) /\ Len(w) > 0 /\ w[1] = STATUS_OK /\ b = Len(AdminResponseSizes(w))
      BY <1>2, <1>3, <2>1, <2>5
    <3> QED
      BY <2>4, <3>1, SizesOfClients, ZenonT(60)
  <2>8. n >= 2 => c = d
    <3>1. ASSUME n >= 2 PROVE w[2] = v[2] /\ Len(v) >= 2 /\ Len(w) >= 2
      BY <1>1, <1>2, <3>1
    <3> QED
      BY <2>3, <2>4, <3>1, Zenon
  <2>9. n + 1 <= b
    BY <1>2, <1>4, <2>6, <2>7, <2>8
  <2> QED
    BY <1>2, <1>3, <2>9
<1> QED
  BY <1>1, <1>2, <1>3, <1>6, <1>8, <1>9, <1>10, <1>11, <1>12 DEF Kinds

-----------------------------------------------------------------------------
(* Streams of fields, as functions of the fields out of each message.       *)

(* The place after the field k of message n.                                *)
NextMessage(out, n, k) == IF k = Len(out[n]) THEN n + 1 ELSE n
NextField(out, n, k) == IF k = Len(out[n]) THEN 1 ELSE k + 1

WidthAt(out, n, k) == out[n][k].width
Places(out) == \A n \in DOMAIN out : \A k \in DOMAIN out[n] : WidthAt(out, n, k) \in Nat \ {0}

(* At place i of s the field k of message n begins: it is there as a whole, *)
(* and what follows is the next field, or nothing and <<N, K>> is its place.    *)
FieldAt(out, s, i, n, k, N, K) ==
  LET w == WidthAt(out, n, k) IN
    /\ n \in DOMAIN out /\ k \in DOMAIN out[n]
    /\ i + w <= Len(s) + 1
    /\ \A b \in 1 .. w : s[i + b - 1] = <<n, k, b>>
    /\ i + w = Len(s) + 1 => N = NextMessage(out, n, k) /\ K = NextField(out, n, k)
    /\ i + w # Len(s) + 1 => s[i + w] = <<NextMessage(out, n, k), NextField(out, n, k), 1>>

(* The bytes of s are whole fields of the messages out, one after the other *)
(* from place <<n, k>> up to place <<N, K>>.                                *)
Stream(out, s, n, k, N, K) ==
  /\ Len(s) = 0 => n = N /\ k = K
  /\ Len(s) > 0 => s[1] = <<n, k, 1>>
  /\ \A i \in 1 .. Len(s) : s[i][3] = 1 => FieldAt(out, s, i, s[i][1], s[i][2], N, K)

(* A field that begins at place i after the first w bytes.                  *)
LEMMA Shifted ==
  ASSUME NEW L \in Nat, NEW M \in Nat, NEW w \in Nat, NEW i \in Nat, NEW W \in Nat,
         M = L - w, i + w + W <= L + 1
  PROVE  /\ i + W <= M + 1
         /\ i + W = M + 1 <=> i + w + W = L + 1
         /\ i > 0 /\ W > 0 /\ i + W # M + 1 => i + W \in 1 .. M
         /\ (i + W) + w = i + w + W
OBVIOUS

(* A stream begins with the whole field at its first place, and what is left *)
(* without it is a stream from the place after that.                        *)
LEMMA StreamTaken ==
  ASSUME NEW out, NEW S, NEW s \in Seq(S), NEW n, NEW k, NEW N, NEW K,
         Places(out),
         Stream(out, s, n, k, N, K), Len(s) > 0,
         NEW w \in Nat \ {0}, w = WidthAt(out, n, k)
  PROVE  /\ n \in DOMAIN out /\ k \in DOMAIN out[n]
         /\ w <= Len(s) /\ \A b \in 1 .. w : s[b] = <<n, k, b>>
         /\ \A t \in Seq(S) :
              Len(t) = Len(s) - w /\ (\A i \in 1 .. Len(t) : t[i] = s[i + w]) =>
                Stream(out, t, NextMessage(out, n, k), NextField(out, n, k), N, K)
<1>1. PICK L \in Nat \ {0} : L = Len(s)
  BY LenProperties
<1>2. FieldAt(out, s, 1, n, k, N, K)
  BY <1>1 DEF Stream
<1>3. PICK a, c : a = NextMessage(out, n, k) /\ c = NextField(out, n, k)
  OBVIOUS
<1>4. /\ n \in DOMAIN out /\ k \in DOMAIN out[n]
      /\ w <= L /\ \A b \in 1 .. w : s[b] = <<n, k, b>>
      /\ w = L => N = a /\ K = c
      /\ w # L => s[1 + w] = <<a, c, 1>>
  BY <1>1, <1>2, <1>3 DEF FieldAt
<1>5. ASSUME NEW t \in Seq(S), NEW M \in Nat, M = Len(t), M = L - w,
             \A i \in 1 .. M : t[i] = s[i + w]
      PROVE  Stream(out, t, a, c, N, K)
  <2>1. M \in Nat /\ M = L - w /\ M = Len(t) /\ L \in Nat /\ w \in Nat \ {0}
    BY <1>1, <1>5
  <2>2. Len(t) = 0 => a = N /\ c = K
    BY <1>4, <2>1
  <2>3. Len(t) > 0 => t[1] = <<a, c, 1>>
    <3>1. ASSUME Len(t) > 0 PROVE 1 \in 1 .. M /\ w # L
      BY <2>1, <3>1
    <3>2. ASSUME Len(t) > 0 PROVE t[1] = s[1 + w]
      BY <1>5, <3>1, <3>2
    <3> QED
      BY <1>4, <3>1, <3>2, Zenon
  <2>4. ASSUME NEW i \in 1 .. M, t[i][3] = 1
        PROVE  FieldAt(out, t, i, t[i][1], t[i][2], N, K)
    <3>1. PICK p, q : p = t[i][1] /\ q = t[i][2]
      OBVIOUS
    <3>2. i + w \in 1 .. L /\ t[i] = s[i + w]
      BY <1>5, <2>1
    <3>3. FieldAt(out, s, i + w, p, q, N, K)
      BY <1>1, <2>4, <3>1, <3>2 DEF Stream
    <3>4. PICK W : W = WidthAt(out, p, q)
      OBVIOUS
    <3>5. PICK x, y : x = NextMessage(out, p, q) /\ y = NextField(out, p, q)
      OBVIOUS
    <3>6. /\ p \in DOMAIN out /\ q \in DOMAIN out[p]
          /\ \A b \in 1 .. W : s[i + w + b - 1] = <<p, q, b>>
          /\ i + w + W = L + 1 => N = x /\ K = y
          /\ i + w + W # L + 1 => s[i + w + W] = <<x, y, 1>>
      BY <1>1, <3>3, <3>4, <3>5 DEF FieldAt
    <3>11. i + w + W <= L + 1
      BY <1>1, <3>3, <3>4 DEF FieldAt
    <3>7. W \in Nat \ {0}
      BY <3>4, <3>6 DEF Places
    <3>13. L \in Nat /\ M \in Nat /\ w \in Nat /\ i \in Nat /\ W \in Nat
      BY <2>1, <3>7
    <3>14. M = L - w
      BY <2>1
    <3>15. i > 0 /\ W > 0
      BY <2>1, <3>7
    <3>12. /\ i + W <= M + 1
           /\ i + W = M + 1 => i + w + W = L + 1
           /\ i + w + W = L + 1 => i + W = M + 1
      <4>1. i + W = (i + w + W) - w /\ M + 1 = (L + 1) - w
        BY <3>13, <3>14
      <4>2. PICK e \in Nat : e = i + w + W
        BY <3>13
      <4>3. PICK l \in Nat : l = L + 1
        BY <3>13
      <4>4. /\ e <= l => e - w <= l - w
            /\ e - w = l - w <=> e = l
        BY <3>13
      <4> QED BY <4>1, <4>2, <4>3, <4>4, <3>11
    <3>8. i + W <= M + 1 /\ (i + W = M + 1 => N = x /\ K = y)
      BY <3>6, <3>12, Zenon
    <3>9. \A b \in 1 .. W : t[i + b - 1] = <<p, q, b>>
      <4>1. ASSUME NEW b \in 1 .. W PROVE t[i + b - 1] = <<p, q, b>>
        <5>1. i + b - 1 \in 1 .. M /\ (i + b - 1) + w = i + w + b - 1
          BY <2>1, <3>7, <3>8
        <5>2. t[i + b - 1] = s[i + w + b - 1]
          BY <1>5, <5>1
        <5> QED
          BY <3>6, <5>2
      <4> QED
        BY <4>1
    <3>10. i + W # M + 1 => t[i + W] = <<x, y, 1>>
      <4>1. ASSUME i + W # M + 1 PROVE t[i + W] = <<x, y, 1>>
        <5>1. i + W \in 1 .. M /\ (i + W) + w = i + w + W /\ i + w + W # L + 1
          BY <3>11, <3>13, <3>14, <3>15, <3>12, <4>1, Shifted
        <5>2. t[i + W] = s[i + w + W]
          BY <1>5, <5>1
        <5> QED
          BY <3>6, <5>1, <5>2
      <4> QED
        BY <4>1
    <3> QED
      BY <2>1, <3>1, <3>4, <3>5, <3>6, <3>8, <3>9, <3>10 DEF FieldAt
  <2> QED
    BY <2>1, <2>2, <2>3, <2>4 DEF Stream
<1>6. ASSUME NEW t \in Seq(S), Len(t) = Len(s) - w, \A i \in 1 .. Len(t) : t[i] = s[i + w]
      PROVE  Stream(out, t, a, c, N, K)
  BY <1>1, <1>5, <1>6, LenProperties
<1> QED
  BY <1>1, <1>3, <1>4, <1>6

(* Sequence t is s with the field at place <<N, K>> after it, where the     *)
(* messages more are those of out and may be one more.                      *)
Grown(out, more, s, t, N, K) ==
  /\ Places(out)
  /\ \A p \in DOMAIN out : p \in DOMAIN more /\ more[p] = out[p]
  /\ N \in DOMAIN more /\ K \in DOMAIN more[N]
  /\ WidthAt(more, N, K) \in Nat \ {0}
  /\ Len(t) = Len(s) + WidthAt(more, N, K)
  /\ \A i \in 1 .. Len(s) : t[i] = s[i]
  /\ \A b \in 1 .. WidthAt(more, N, K) : t[Len(s) + b] = <<N, K, b>>

(* A write at the last place of a stream makes a longer stream.             *)
LEMMA StreamGrows ==
  ASSUME NEW out, NEW more, NEW S, NEW s \in Seq(S), NEW t \in Seq(S), NEW n, NEW k, NEW N, NEW K,
         Stream(out, s, n, k, N, K), Grown(out, more, s, t, N, K)
  PROVE  Stream(more, t, n, k, NextMessage(more, N, K), NextField(more, N, K))
<1> PICK w \in Nat \ {0} : w = WidthAt(more, N, K)
  BY DEF Grown
<1>12. /\ Places(out)
       /\ \A p \in DOMAIN out : p \in DOMAIN more /\ more[p] = out[p]
       /\ N \in DOMAIN more /\ K \in DOMAIN more[N]
  BY DEF Grown
<1>1. PICK L \in Nat : L = Len(s)
  BY LenProperties
<1>2. PICK M \in Nat : M = Len(t)
  BY LenProperties
<1>3. PICK a, c : a = NextMessage(more, N, K) /\ c = NextField(more, N, K)
  OBVIOUS
<1>4. M = L + w
  BY <1>1, <1>2 DEF Grown
<1>5. \A i \in 1 .. L : t[i] = s[i]
  BY <1>1 DEF Grown
<1>6. \A b \in 1 .. w : t[L + b] = <<N, K, b>>
  BY <1>1 DEF Grown
<1>7. t[L + 1] = <<N, K, 1>> /\ L + 1 \in 1 .. M /\ 1 \in 1 .. M
  BY <1>4, <1>6
<1>8. t[1] = <<n, k, 1>>
  <2>1. CASE L = 0
    BY <1>1, <1>7, <2>1 DEF Stream
  <2>2. CASE L > 0
    BY <1>1, <1>5, <2>2 DEF Stream
  <2> QED
    BY <1>1, <2>1, <2>2
<1>9. ASSUME NEW i \in 1 .. L, t[i][3] = 1
      PROVE  FieldAt(more, t, i, t[i][1], t[i][2], a, c)
  <2>1. PICK p, q : p = t[i][1] /\ q = t[i][2]
    OBVIOUS
  <2>2. FieldAt(out, s, i, p, q, N, K)
    BY <1>1, <1>5, <1>9, <2>1 DEF Stream
  <2>3. PICK W : W = WidthAt(out, p, q)
    OBVIOUS
  <2>4. PICK x, y : x = NextMessage(out, p, q) /\ y = NextField(out, p, q)
    OBVIOUS
  <2>5. /\ p \in DOMAIN out /\ q \in DOMAIN out[p]
        /\ \A b \in 1 .. W : s[i + b - 1] = <<p, q, b>>
        /\ i + W = L + 1 => N = x /\ K = y
        /\ i + W # L + 1 => s[i + W] = <<x, y, 1>>
    BY <1>1, <2>2, <2>3, <2>4 DEF FieldAt
  <2>6. i + W <= L + 1
    BY <1>1, <2>2, <2>3 DEF FieldAt
  <2>7. /\ p \in DOMAIN more /\ q \in DOMAIN more[p] /\ W = WidthAt(more, p, q)
        /\ x = NextMessage(more, p, q) /\ y = NextField(more, p, q)
    <3>1. p \in DOMAIN more /\ more[p] = out[p]
      BY <1>12, <2>5
    <3> QED
      BY <2>3, <2>4, <2>5, <3>1 DEF WidthAt, NextMessage, NextField
  <2>8. W \in Nat \ {0}
    BY <1>12, <2>3, <2>5 DEF Places
  <2>9. L \in Nat /\ i \in Nat /\ i > 0 /\ W \in Nat /\ W > 0 /\ w \in Nat /\ w > 0
    BY <1>1, <2>8
  <2>10. i + W <= M + 1 /\ i + W # M + 1 /\ i + W \in 1 .. M
    BY <1>4, <2>6, <2>9
  <2>11. ASSUME NEW b \in 1 .. W PROVE t[i + b - 1] = <<p, q, b>>
    <3>1. i + b - 1 \in 1 .. L
      BY <2>6, <2>9
    <3> QED
      BY <1>5, <2>5, <3>1
  <2>12. t[i + W] = <<x, y, 1>>
    <3>1. CASE i + W = L + 1
      BY <1>7, <2>5, <3>1
    <3>2. CASE i + W # L + 1
      <4>1. i + W \in 1 .. L
        BY <2>6, <2>9, <3>2
      <4> QED
        BY <1>5, <2>5, <3>2, <4>1
    <3> QED
      BY <3>1, <3>2
  <2> QED
    BY <1>2, <2>1, <2>5, <2>7, <2>10, <2>11, <2>12 DEF FieldAt
<1>10. FieldAt(more, t, L + 1, N, K, a, c)
  <2>1. (L + 1) + w = M + 1
    BY <1>4
  <2>2. ASSUME NEW b \in 1 .. w PROVE t[(L + 1) + b - 1] = <<N, K, b>>
    <3>1. (L + 1) + b - 1 = L + b
      OBVIOUS
    <3> QED
      BY <1>6, <3>1
  <2> QED
    BY <1>2, <1>3, <1>12, <2>1, <2>2 DEF FieldAt
<1>11. ASSUME NEW i \in 1 .. M, t[i][3] = 1
       PROVE  FieldAt(more, t, i, t[i][1], t[i][2], a, c)
  <2>1. CASE i <= L
    <3>1. i \in 1 .. L
      BY <2>1
    <3> QED
      BY <1>9, <1>11, <3>1
  <2>2. CASE ~ i <= L
    <3>1. PICK b \in 1 .. w : i = L + b
      <4>1. i - L \in 1 .. w /\ i = L + (i - L)
        BY <1>4, <2>2
      <4> QED
        BY <4>1
    <3>2. t[i] = <<N, K, b>>
      BY <1>6, <3>1
    <3>3. b = 1
      BY <1>11, <3>2
    <3> QED
      BY <1>10, <3>1, <3>2, <3>3
  <2> QED
    BY <2>1, <2>2
<1> QED
  BY <1>2, <1>3, <1>7, <1>8, <1>11 DEF Stream

-----------------------------------------------------------------------------
(* Sequences. *)

(* A sequence over a set is one over a larger set.                          *)
LEMMA LargerSet ==
  ASSUME NEW S, NEW T, S \subseteq T, NEW s \in Seq(S)
  PROVE  s \in Seq(T)
BY LenProperties, ElementOfSeq

(* A sequence cut in two. *)
LEMMA Cut ==
  ASSUME NEW S, NEW s \in Seq(S), NEW m \in Nat, m <= Len(s), NEW n, n = Len(s)
  PROVE  /\ SubSeq(s, 1, m) \in Seq(S) /\ Len(SubSeq(s, 1, m)) = m
         /\ \A i \in 1 .. m : SubSeq(s, 1, m)[i] = s[i]
         /\ SubSeq(s, m + 1, n) \in Seq(S) /\ Len(SubSeq(s, m + 1, n)) = n - m
         /\ \A i \in 1 .. n - m : SubSeq(s, m + 1, n)[i] = s[m + i]
         /\ SubSeq(s, 1, m) \o SubSeq(s, m + 1, n) = s
<1>1. n \in Nat /\ \A i \in 1 .. n : s[i] \in S
  BY LenProperties, ElementOfSeq
<1>2. /\ SubSeq(s, 1, m) \in Seq(S) /\ Len(SubSeq(s, 1, m)) = m
      /\ \A i \in 1 .. m : SubSeq(s, 1, m)[i] = s[i]
  BY <1>1, SubSeqProperties
<1>3. /\ SubSeq(s, m + 1, n) \in Seq(S) /\ Len(SubSeq(s, m + 1, n)) = n - m
      /\ \A i \in 1 .. n - m : SubSeq(s, m + 1, n)[i] = s[m + i]
  BY <1>1, SubSeqProperties
<1>4. SubSeq(s, 1, m) \o SubSeq(s, m + 1, n) = SubSeq(s, 1, n)
  <2>1. 1 \in 1 .. n + 1 /\ m \in 1 - 1 .. n /\ n \in m .. n
    BY <1>1
  <2> QED
    BY <2>1, ConcatAdjacentSubSeq
<1> QED
  BY <1>2, <1>3, <1>4, SubSeqFull

-----------------------------------------------------------------------------
(* Types. *)

(* The bytes of the fields that have been written. *)
KnownBytes == {b \in Bytes : b[1] \in DOMAIN messages /\ b[2] \in DOMAIN Outgoing(b[1])}

(* The sender is inside a message when it has begun one, and every byte on  *)
(* its way is of a field that has been written.                             *)
SenderInv ==
  /\ messages \in Seq(Messages(link.kind))
  /\ Len(messages) = 0 => field = 1
  /\ Len(messages) > 0 => field \in DOMAIN Outgoing(Len(messages))
  /\ {net, buffer, part} \subseteq Seq(KnownBytes)
  /\ link.reader = "read" => part = <<>>

TInv == TypeOK /\ SenderInv

(* The kind of a connection is one of the four.                             *)
LEMMA LinkKind == TypeOK => link.kind \in Kinds
BY WireAssumption DEF TypeOK, LinkType, Kinds

(* What a message of the sender is made of.                                 *)
LEMMA OutgoingFields ==
  ASSUME TInv, NEW n \in DOMAIN messages
  PROVE  /\ Agrees(link.kind, Outgoing(n))
         /\ Outgoing(n) \in Seq(FieldSet) /\ Len(Outgoing(n)) \in Nat \ {0}
         /\ DOMAIN Outgoing(n) = 1 .. Len(Outgoing(n))
         /\ \A k \in DOMAIN Outgoing(n) :
              Outgoing(n)[k].value \in Values /\ Outgoing(n)[k].width \in Nat \ {0}
<1>1. link.kind \in Kinds /\ messages[n] \in Messages(link.kind)
  BY LinkKind DEF TInv, TypeOK
<1>2. PICK F : F = Outgoing(n)
  OBVIOUS
<1>3. Agrees(link.kind, F)
  BY <1>1, <1>2, MessagesAgree DEF Outgoing
<1>4. F \in Seq(FieldSet) /\ Len(F) \in Nat \ {0}
  BY <1>3 DEF Agrees
<1>5. DOMAIN F = 1 .. Len(F) /\ \A k \in DOMAIN F : F[k] \in FieldSet
  BY <1>4, LenProperties, ElementOfSeq
<1>6. \A k \in DOMAIN F : F[k].value \in Values /\ F[k].width \in Nat \ {0}
  BY <1>5 DEF FieldSet
<1> QED
  BY <1>2, <1>3, <1>4, <1>5, <1>6

(* Bytes are decoded to a number, or to what no text is made of.            *)
LEMMA DecodedValues ==
  ASSUME TInv, NEW bytes, NEW size, bytes[1] \in KnownBytes
  PROVE  Decoded(bytes, size) \subseteq Values
<1>1. Outgoing(bytes[1][1])[bytes[1][2]].value \in Values
  BY OutgoingFields DEF KnownBytes
<1>2. Garbage \subseteq Values
  BY WireAssumption DEF Values
<1> QED
  BY <1>1, <1>2 DEF Decoded

(* A field taken leaves the receiver in a message that lacks a field, or    *)
(* before one.                                                              *)
LEMMA TakeFieldTypes ==
  ASSUME TInv, state = "receiving", UNCHANGED link, NEW value \in Values, TakeField(value)
  PROVE  /\ values' \in Seq(Values) /\ received' \in Seq(Seq(Values))
         /\ state' \in {"receiving", "failed"}
         /\ Len(values') < Len(Sizes(link.kind, values'))
         /\ NextSize' \in Nat \ {0}
<1>1. PICK v : v = Append(values, value)
  OBVIOUS
<1>2. /\ link.kind \in Kinds /\ values \in Seq(Values) /\ received \in Seq(Seq(Values))
      /\ Len(values) < Len(Sizes(link.kind, values))
  BY LinkKind DEF TInv, TypeOK
<1>3. v \in Seq(Values) /\ Len(v) \in Nat /\ Len(v) <= Len(Sizes(link.kind, v))
  BY <1>1, <1>2, SizesGrow, LenProperties
<1>4. <<>> \in Seq(Values) /\ Len(<<>>) = 0
  BY EmptySeq
<1>5. Append(received, v) \in Seq(Seq(Values))
  BY <1>2, <1>3, AppendProperties
<1>6. Len(Sizes(link.kind, v)) \in Nat /\ Len(<<>>) < Len(Sizes(link.kind, <<>>))
  BY <1>2, <1>3, <1>4, SizesArePositive, LenProperties
<1>7. /\ values' \in Seq(Values) /\ received' \in Seq(Seq(Values))
      /\ state' \in {"receiving", "failed"}
      /\ Len(values') < Len(Sizes(link.kind, values'))
  <2>1. CASE link.reader = "read" /\ Refused(link.kind, v)
    BY <1>1, <1>2, <2>1 DEF TakeField
  <2>2. CASE ~ (link.reader = "read" /\ Refused(link.kind, v))
    <3>1. CASE Len(v) = Len(Sizes(link.kind, v))
      BY <1>1, <1>4, <1>5, <1>6, <2>2, <3>1 DEF TakeField
    <3>2. CASE Len(v) # Len(Sizes(link.kind, v))
      <4>1. Len(v) < Len(Sizes(link.kind, v))
        BY <1>3, <1>6, <3>2
      <4> QED
        BY <1>1, <1>2, <1>3, <2>2, <3>2, <4>1 DEF TakeField
    <3> QED
      BY <3>1, <3>2
  <2> QED
    BY <2>1, <2>2
<1>8. NextSize' \in Nat \ {0}
  <2>1. PICK z : z = values'
    OBVIOUS
  <2>2. NextSize' = Sizes(link.kind, z)[Len(z) + 1]
    BY <2>1 DEF NextSize
  <2>3. Sizes(link.kind, z) \in Seq(Nat \ {0}) /\ Len(z) \in Nat
    BY <1>2, <1>7, <2>1, SizesArePositive, LenProperties
  <2>4. Len(z) + 1 \in 1 .. Len(Sizes(link.kind, z))
    BY <1>7, <2>1, <2>3, LenProperties
  <2> QED
    BY <2>2, <2>3, <2>4, ElementOfSeq
<1> QED
  BY <1>7, <1>8

(* The first field of a message has a size. *)
LEMMA SizeOfNext ==
  ASSUME TInv
  PROVE  NextSize \in Nat \ {0} /\ (link.kind \in Kinds)
<1>1. link.kind \in Kinds /\ values \in Seq(Values) /\ Len(values) < Len(Sizes(link.kind, values))
  BY LinkKind DEF TInv, TypeOK
<1>2. Sizes(link.kind, values) \in Seq(Nat \ {0}) /\ Len(values) \in Nat
  BY <1>1, SizesArePositive, LenProperties
<1>3. Len(values) + 1 \in 1 .. Len(Sizes(link.kind, values))
  BY <1>1, <1>2, LenProperties
<1> QED
  BY <1>1, <1>2, <1>3, ElementOfSeq DEF NextSize

(* A connection begins with nothing sent or received.                       *)
LEMMA TypesInitially == Init => TInv
<1> SUFFICES ASSUME Init PROVE TInv
  OBVIOUS
<1>1. link \in Links /\ link.kind \in Kinds
  BY WireAssumption DEF Init, LinkType, Kinds
<1>2. Sizes(link.kind, <<>>) \in Seq(Nat \ {0}) /\ Len(Sizes(link.kind, <<>>)) > 0
  BY <1>1, EmptySeq, SizesArePositive
<1>3. Sizes(link.kind, <<>>)[1] \in Nat \ {0}
  <2>1. 1 \in 1 .. Len(Sizes(link.kind, <<>>))
    BY <1>2, LenProperties
  <2> QED
    BY <1>2, <2>1, ElementOfSeq
<1>4. /\ messages = <<>> /\ values = <<>> /\ received = <<>> /\ part = <<>>
      /\ net = <<>> /\ buffer = <<>> /\ field = 1 /\ open = TRUE /\ state = "receiving"
  BY DEF Init
<1>5. Len(<<>>) = 0 /\ DOMAIN <<>> = {} /\ \A S : <<>> \in Seq(S)
  BY EmptySeq
<1>6. Len(values) < Len(Sizes(link.kind, values)) /\ Len(part) < NextSize
  BY <1>2, <1>3, <1>4, <1>5 DEF NextSize
<1>7. Len(messages) <= MaxMessages
  BY <1>4, <1>5, WireAssumption
<1>8. TypeOK
  BY <1>1, <1>4, <1>5, <1>6, <1>7 DEF TypeOK
<1>9. SenderInv
  BY <1>4, <1>5 DEF SenderInv
<1> QED
  BY <1>8, <1>9 DEF TInv

(* What a write adds: the message begun if there is none, and one field.    *)
LEMMA Written ==
  ASSUME TInv, Write
  PROVE  \E N, w, G :
           /\ N = Len(messages') /\ N \in 1 .. MaxMessages
           /\ N = (IF field = 1 THEN Len(messages) + 1 ELSE Len(messages))
           /\ messages' \in Seq(Messages(link.kind))
           /\ \A n \in DOMAIN messages :
                n \in DOMAIN messages' /\ messages'[n] = messages[n] /\ Outgoing(n)' = Outgoing(n)
           /\ N \in DOMAIN messages' /\ DOMAIN messages' = 1 .. N
           /\ Agrees(link.kind, Outgoing(N)') /\ field \in DOMAIN Outgoing(N)'
           /\ w \in Nat \ {0} /\ w = Outgoing(N)'[field].width
           /\ G \in Seq(Bytes) /\ Len(G) = w /\ \A b \in 1 .. w : G[b] = <<N, field, b>>
           /\ net' = net \o G
           /\ field' = IF field = Len(Outgoing(N)') THEN 1 ELSE field + 1
<1>1. PICK N : N = Len(messages')
  OBVIOUS
<1>2. /\ messages \in Seq(Messages(link.kind)) /\ Len(messages) \in Nat
      /\ DOMAIN messages = 1 .. Len(messages) /\ Len(messages) <= MaxMessages
      /\ MaxMessages \in Nat /\ field \in Nat \ {0} /\ link' = link
  BY LenProperties, WireAssumption DEF TInv, TypeOK, SenderInv, Write
<1>3. /\ messages' \in Seq(Messages(link.kind)) /\ N \in 1 .. MaxMessages
      /\ N = (IF field = 1 THEN Len(messages) + 1 ELSE Len(messages))
      /\ \A n \in DOMAIN messages : n \in 1 .. N /\ messages'[n] = messages[n]
  <2>1. CASE field = 1
    <3>1. /\ Len(messages) < MaxMessages
          /\ \E m \in Messages(link.kind) : messages' = Append(messages, m)
      BY <2>1 DEF Write
    <3>2. PICK m \in Messages(link.kind) : messages' = Append(messages, m)
      BY <3>1
    <3>3. /\ messages' \in Seq(Messages(link.kind)) /\ N = Len(messages) + 1
          /\ \A n \in 1 .. Len(messages) : messages'[n] = messages[n]
      BY <1>1, <1>2, <3>2, AppendProperties
    <3> QED
      BY <1>2, <2>1, <3>1, <3>3
  <2>2. CASE field # 1
    <3>1. messages' = messages
      BY <2>2 DEF Write
    <3>2. Len(messages) # 0
      BY <2>2 DEF TInv, SenderInv
    <3> QED
      BY <1>1, <1>2, <2>2, <3>1, <3>2
  <2> QED
    BY <2>1, <2>2
<1>4. DOMAIN messages' = 1 .. N /\ N \in DOMAIN messages' /\ messages'[N] \in Messages(link.kind)
  <2>1. PICK s : s = messages'
    OBVIOUS
  <2>4. N \in 1 .. N
    <3>1. \A a \in Nat : \A b \in 1 .. a : b \in 1 .. b
      OBVIOUS
    <3> QED
      BY <1>2, <1>3, <3>1, Zenon
  <2>2. s \in Seq(Messages(link.kind)) /\ N = Len(s) /\ N \in 1 .. N
    BY <1>1, <1>3, <2>1, <2>4, Zenon
  <2>3. DOMAIN s = 1 .. N /\ s[N] \in Messages(link.kind)
    BY <2>2, LenProperties, ElementOfSeq
  <2> QED
    BY <2>1, <2>2, <2>3
<1>5. \A n \in DOMAIN messages :
         n \in DOMAIN messages' /\ messages'[n] = messages[n] /\ Outgoing(n)' = Outgoing(n)
  BY <1>2, <1>3, <1>4 DEF Outgoing
<1>6. PICK F : F = Fields(link.kind, messages'[N])
  OBVIOUS
<1>7. F = Outgoing(N)'
  BY <1>2, <1>6 DEF Outgoing
<1>8. Agrees(link.kind, F)
  BY <1>4, <1>6, LinkKind, MessagesAgree DEF TInv
<1>9. F \in Seq(FieldSet) /\ Len(F) \in Nat \ {0} /\ DOMAIN F = 1 .. Len(F)
  BY <1>8, LenProperties DEF Agrees
<1>10. field \in DOMAIN F
  <2>1. CASE field = 1
    BY <1>9, <2>1
  <2>2. CASE field # 1
    <3>1. N = Len(messages) /\ N \in DOMAIN messages /\ Len(messages) > 0
      BY <1>2, <1>3, <2>2
    <3>2. F = Outgoing(Len(messages))
      BY <1>5, <1>7, <3>1
    <3> QED
      BY <3>1, <3>2 DEF TInv, SenderInv
  <2> QED
    BY <2>1, <2>2
<1>11. PICK w : w = F[field].width
  OBVIOUS
<1>12. w \in Nat \ {0}
  <2>1. F[field] \in FieldSet
    BY <1>9, <1>10, ElementOfSeq
  <2> QED
    BY <1>11, <2>1 DEF FieldSet
<1>13. PICK G : G = [b \in 1 .. w |-> <<N, field, b>>]
  OBVIOUS
<1>14. \A b \in 1 .. w : <<N, field, b>> \in Bytes
  <2>1. field \in Nat \ {0} /\ N \in 1 .. MaxMessages
    BY <1>2, <1>3
  <2>2. \A b \in 1 .. w : b \in Nat \ {0}
    BY <1>12
  <2> QED
    BY <2>1, <2>2, Zenon DEF Bytes
<1>15. G \in Seq(Bytes) /\ Len(G) = w /\ \A b \in 1 .. w : G[b] = <<N, field, b>>
  BY <1>12, <1>13, <1>14
<1>16. net' = net \o G /\ field' = IF field = Len(F) THEN 1 ELSE field + 1
  BY <1>1, <1>6, <1>11, <1>13 DEF Write
<1> QED
  BY <1>1, <1>3, <1>4, <1>5, <1>7, <1>8, <1>10, <1>11, <1>12, <1>15, <1>16

(* A write puts bytes of a known field on the way.                          *)
LEMMA WriteTypes == TInv /\ Write => TInv'
<1> SUFFICES ASSUME TInv, Write PROVE TInv'
  OBVIOUS
<1>1. PICK N, w, G :
           /\ N = Len(messages') /\ N \in 1 .. MaxMessages
           /\ N = (IF field = 1 THEN Len(messages) + 1 ELSE Len(messages))
           /\ messages' \in Seq(Messages(link.kind))
           /\ \A n \in DOMAIN messages :
                n \in DOMAIN messages' /\ messages'[n] = messages[n] /\ Outgoing(n)' = Outgoing(n)
           /\ N \in DOMAIN messages' /\ DOMAIN messages' = 1 .. N
           /\ Agrees(link.kind, Outgoing(N)') /\ field \in DOMAIN Outgoing(N)'
           /\ w \in Nat \ {0} /\ w = Outgoing(N)'[field].width
           /\ G \in Seq(Bytes) /\ Len(G) = w /\ \A b \in 1 .. w : G[b] = <<N, field, b>>
           /\ net' = net \o G
           /\ field' = IF field = Len(Outgoing(N)') THEN 1 ELSE field + 1
  BY Written
<1>2. /\ link' = link /\ buffer' = buffer /\ part' = part /\ values' = values
      /\ received' = received /\ state' = state /\ open' = open
  BY DEF Write
<1>3. /\ {net, buffer, part} \subseteq Seq(KnownBytes)
      /\ link \in Links /\ field \in Nat \ {0} /\ open \in BOOLEAN
      /\ values \in Seq(Values) /\ received \in Seq(Seq(Values))
      /\ state \in {"receiving", "failed"}
      /\ Len(values) < Len(Sizes(link.kind, values)) /\ Len(part) < NextSize
      /\ link.reader = "read" => part = <<>>
  BY DEF TInv, TypeOK, SenderInv
<1>4. PICK known : known = KnownBytes'
  OBVIOUS
<1>5. KnownBytes \subseteq known
  BY <1>1, <1>4 DEF KnownBytes
<1>6. {net, buffer, part} \subseteq Seq(known)
  BY <1>3, <1>5, LargerSet
<1>7. G \in Seq(known)
  <2>1. ASSUME NEW b \in 1 .. w PROVE G[b] \in known
    <3>1. G[b] \in Bytes /\ G[b] = <<N, field, b>>
      BY <1>1, ElementOfSeq
    <3>2. known = {c \in Bytes : c[1] \in DOMAIN messages' /\ c[2] \in DOMAIN Outgoing(c[1])'}
      BY <1>4 DEF KnownBytes
    <3> QED
      BY <1>1, <3>1, <3>2
  <2> QED
    BY <1>1, <2>1, LenProperties
<1>8. {net', buffer', part'} \subseteq Seq(known)
  <2>1. net \o G \in Seq(known)
    BY <1>6, <1>7, ConcatProperties
  <2> QED
    BY <1>1, <1>2, <1>6, <2>1
<1>9. {net', buffer', part'} \subseteq Seq(Bytes)
  <2>1. known \subseteq Bytes
    BY <1>4 DEF KnownBytes
  <2> QED
    BY <1>8, <2>1, LargerSet
<1>10. PICK F : F = Outgoing(N)'
  OBVIOUS
<1>11. DOMAIN F = 1 .. Len(F) /\ Len(F) \in Nat \ {0}
  BY <1>1, <1>10, LenProperties DEF Agrees
<1>12. field' \in DOMAIN F /\ field' \in Nat \ {0}
  BY <1>1, <1>10, <1>11
<1>13. NextSize' = NextSize
  BY <1>2 DEF NextSize
<1>14. \A n \in DOMAIN messages' : messages'[n] \in Messages(link.kind)
  <2>1. PICK s : s = messages'
    OBVIOUS
  <2>2. s \in Seq(Messages(link.kind))
    BY <1>1, <2>1
  <2> QED
    BY <2>1, <2>2, LenProperties, ElementOfSeq
<1>15. Len(messages') <= MaxMessages /\ Len(messages') > 0
  <2>1. \A a \in Nat : \A b \in 1 .. a : b <= a /\ b > 0
    OBVIOUS
  <2> QED
    BY <1>1, <2>1, WireAssumption
<1>16. TypeOK'
  BY <1>2, <1>3, <1>9, <1>12, <1>13, <1>14, <1>15 DEF TypeOK
<1>17. SenderInv'
  <2>1. Len(messages') # 0
    BY <1>15
  <2>2. field' \in DOMAIN Outgoing(Len(messages))'
    BY <1>1, <1>10, <1>12, Zenon DEF Outgoing
  <2> QED
    BY <1>1, <1>2, <1>3, <1>4, <1>8, <2>1, <2>2 DEF SenderInv
<1> QED
  BY <1>16, <1>17 DEF TInv

(* What the steps that write nothing have to show. *)
LEMMA StreamTypes ==
  ASSUME TInv, UNCHANGED <<link, messages, field, open>>,
         {net', buffer', part'} \subseteq Seq(KnownBytes),
         values' \in Seq(Values), received' \in Seq(Seq(Values)),
         state' \in {"receiving", "failed"},
         Len(values') < Len(Sizes(link.kind, values')), Len(part') < NextSize',
         link.reader = "read" => part' = <<>>
  PROVE  TInv'
<1>1. KnownBytes' = KnownBytes /\ KnownBytes \subseteq Bytes
  BY DEF KnownBytes, Outgoing
<1>2. {net', buffer', part'} \subseteq Seq(Bytes)
  BY <1>1, LargerSet
<1>3. TypeOK'
  BY <1>2 DEF TInv, TypeOK
<1>4. SenderInv'
  BY <1>1 DEF TInv, SenderInv, Outgoing
<1> QED
  BY <1>3, <1>4 DEF TInv

(* An arrival takes bytes from the network to the buffer.                   *)
LEMMA ArriveTypes == TInv /\ Arrive => TInv'
<1> SUFFICES ASSUME TInv, Arrive PROVE TInv'
  OBVIOUS
<1>1. PICK i \in 1 .. Len(net) : /\ buffer' = buffer \o SubSeq(net, 1, i)
                                 /\ net' = SubSeq(net, i + 1, Len(net))
  BY DEF Arrive
<1>2. UNCHANGED <<link, messages, field, open, part, values, received, state>>
  BY DEF Arrive
<1>3. {net, buffer, part} \subseteq Seq(KnownBytes)
  BY DEF TInv, SenderInv
<1>4. i \in Nat /\ i <= Len(net)
  BY <1>3, LenProperties
<1>5. {net', buffer', part'} \subseteq Seq(KnownBytes)
  <2>1. SubSeq(net, 1, i) \in Seq(KnownBytes) /\ SubSeq(net, i + 1, Len(net)) \in Seq(KnownBytes)
    BY <1>3, <1>4, Cut
  <2>2. buffer \o SubSeq(net, 1, i) \in Seq(KnownBytes)
    BY <1>3, <2>1, ConcatProperties
  <2> QED
    BY <1>1, <1>2, <1>3, <2>1, <2>2
<1>6. /\ values' \in Seq(Values) /\ received' \in Seq(Seq(Values))
      /\ state' \in {"receiving", "failed"}
      /\ Len(values') < Len(Sizes(link.kind, values')) /\ Len(part') < NextSize'
      /\ link.reader = "read" => part' = <<>>
  BY <1>2 DEF TInv, TypeOK, SenderInv, NextSize
<1> QED
  BY <1>2, <1>5, <1>6, StreamTypes

(* A reader takes bytes from the front of the buffer. *)
LEMMA ReadTypes == TInv /\ Read => TInv'
<1> SUFFICES ASSUME TInv, Read PROVE TInv'
  OBVIOUS
<1>1. PICK m : m = Min({NextSize, Len(buffer)})
  OBVIOUS
<1>2. {net, buffer, part} \subseteq Seq(KnownBytes) /\ part = <<>>
  BY DEF TInv, SenderInv, Read
<1>3. m \in Nat \ {0} /\ m <= Len(buffer)
  <2>1. NextSize \in Nat \ {0} /\ Len(buffer) \in Nat \ {0}
    BY <1>2, SizeOfNext, EmptySeq DEF Read
  <2> QED
    BY <1>1, <2>1, MinOfTwo
<1>4. PICK bytes : bytes = SubSeq(buffer, 1, m)
  OBVIOUS
<1>5. /\ bytes \in Seq(KnownBytes) /\ Len(bytes) = m
      /\ SubSeq(buffer, m + 1, Len(buffer)) \in Seq(KnownBytes)
  BY <1>2, <1>3, <1>4, Cut
<1>6. PICK value \in Decoded(bytes, NextSize) : TakeField(value)
  BY <1>1, <1>4 DEF Read
<1>7. UNCHANGED <<link, messages, field, open, net, part>> /\ state = "receiving"
  BY DEF Read
<1>8. value \in Values
  <2>1. bytes[1] \in KnownBytes
    <3>1. 1 \in 1 .. Len(bytes)
      BY <1>3, <1>5
    <3> QED
      BY <1>5, <3>1, ElementOfSeq
  <2> QED
    BY <1>6, <2>1, DecodedValues
<1>9. {net', buffer', part'} \subseteq Seq(KnownBytes)
  <2>1. buffer' = SubSeq(buffer, m + 1, Len(buffer))
    BY <1>1, <1>4, <1>5 DEF Read
  <2> QED
    BY <1>2, <1>5, <1>7, <2>1
<1>10. /\ values' \in Seq(Values) /\ received' \in Seq(Seq(Values))
       /\ state' \in {"receiving", "failed"}
       /\ Len(values') < Len(Sizes(link.kind, values'))
       /\ NextSize' \in Nat \ {0}
  BY <1>6, <1>7, <1>8, TakeFieldTypes
<1>11. Len(part') < NextSize'
  BY <1>2, <1>7, <1>10
<1>12. UNCHANGED <<link, messages, field, open>> /\ part' = <<>>
  BY <1>2, <1>7
<1> QED
  BY <1>9, <1>10, <1>11, <1>12, StreamTypes

(* What _recv_exact does with a chunk: it is what the field lacks, or all   *)
(* there is.                                                                *)
LEMMA ChunkTaken ==
  ASSUME TInv, RecvExact
  PROVE  \E m, chunk, data :
           /\ m \in Nat \ {0} /\ m <= Len(buffer)
           /\ Len(part) + m <= NextSize /\ (Len(part) + m < NextSize => m = Len(buffer))
           /\ chunk = SubSeq(buffer, 1, m) /\ data = part \o chunk
           /\ buffer' = SubSeq(buffer, m + 1, Len(buffer))
           /\ chunk \in Seq(KnownBytes) /\ Len(chunk) = m
           /\ data \in Seq(KnownBytes) /\ Len(data) = Len(part) + m
           /\ Len(part) \in Nat /\ data[1] \in KnownBytes
           /\ Len(data) = NextSize =>
                part' = <<>> /\ \E value \in Decoded(data, NextSize) : TakeField(value)
           /\ Len(data) # NextSize => part' = data /\ UNCHANGED <<values, received, state>>
<1>1. PICK m : m = Min({NextSize - Len(part), Len(buffer)})
  OBVIOUS
<1>2. {net, buffer, part} \subseteq Seq(KnownBytes)
  BY DEF TInv, SenderInv
<1>3. PICK p \in Nat : p = Len(part)
  BY <1>2, LenProperties
<1>4. PICK l \in Nat : l = Len(buffer) /\ l > 0
  BY <1>2, EmptySeq DEF RecvExact
<1>5. PICK z \in Nat : z = NextSize /\ p < z
  BY <1>3, SizeOfNext DEF TInv, TypeOK
<1>6. m \in Nat \ {0} /\ m <= l /\ p + m <= z /\ (p + m < z => m = l)
  BY <1>1, <1>3, <1>4, <1>5, MinOfTwo
<1>7. PICK chunk : chunk = SubSeq(buffer, 1, m)
  OBVIOUS
<1>8. chunk \in Seq(KnownBytes) /\ Len(chunk) = m
  BY <1>2, <1>4, <1>6, <1>7, Cut
<1>9. PICK data : data = part \o chunk
  OBVIOUS
<1>10. data \in Seq(KnownBytes) /\ Len(data) = p + m
  BY <1>2, <1>3, <1>8, <1>9, ConcatProperties
<1>11. data[1] \in KnownBytes
  <2>1. 1 \in 1 .. Len(data)
    BY <1>6, <1>10
  <2> QED
    BY <1>10, <2>1, ElementOfSeq
<1>12. /\ buffer' = SubSeq(buffer, m + 1, Len(buffer))
       /\ Len(data) = NextSize =>
                part' = <<>> /\ \E value \in Decoded(data, NextSize) : TakeField(value)
       /\ Len(data) # NextSize => part' = data /\ UNCHANGED <<values, received, state>>
  BY <1>1, <1>7, <1>8, <1>9 DEF RecvExact
<1> QED
  BY <1>3, <1>4, <1>5, <1>6, <1>7, <1>8, <1>9, <1>10, <1>11, <1>12

(* A chunk completes the field, or becomes the part read so far.            *)
LEMMA RecvTypes == TInv /\ RecvExact => TInv'
<1> SUFFICES ASSUME TInv, RecvExact PROVE TInv'
  OBVIOUS
<1>1. PICK m, chunk, data :
           /\ m \in Nat \ {0} /\ m <= Len(buffer)
           /\ Len(part) + m <= NextSize /\ (Len(part) + m < NextSize => m = Len(buffer))
           /\ chunk = SubSeq(buffer, 1, m) /\ data = part \o chunk
           /\ buffer' = SubSeq(buffer, m + 1, Len(buffer))
           /\ chunk \in Seq(KnownBytes) /\ Len(chunk) = m
           /\ data \in Seq(KnownBytes) /\ Len(data) = Len(part) + m
           /\ Len(part) \in Nat /\ data[1] \in KnownBytes
           /\ Len(data) = NextSize =>
                part' = <<>> /\ \E value \in Decoded(data, NextSize) : TakeField(value)
           /\ Len(data) # NextSize => part' = data /\ UNCHANGED <<values, received, state>>
  BY ChunkTaken
<1>2. UNCHANGED <<link, messages, field, open>> /\ net' = net
  BY DEF RecvExact
<1>3. /\ {net, buffer, part} \subseteq Seq(KnownBytes) /\ link.reader # "read"
      /\ state = "receiving" /\ NextSize \in Nat \ {0}
  BY SizeOfNext DEF TInv, SenderInv, RecvExact
<1>4. buffer' \in Seq(KnownBytes)
  BY <1>1, <1>3, Cut
<1>5. CASE Len(data) = NextSize
  <2>1. PICK value \in Decoded(data, NextSize) : TakeField(value)
    BY <1>1, <1>5
  <2>2. value \in Values
    BY <1>1, <2>1, DecodedValues
  <2>3. /\ values' \in Seq(Values) /\ received' \in Seq(Seq(Values))
        /\ state' \in {"receiving", "failed"}
        /\ Len(values') < Len(Sizes(link.kind, values'))
        /\ NextSize' \in Nat \ {0}
    BY <1>2, <1>3, <2>1, <2>2, TakeFieldTypes
  <2>4. part' = <<>> /\ part' \in Seq(KnownBytes) /\ Len(part') < NextSize'
    <3>1. part' = <<>>
      BY <1>1, <1>5
    <3>2. <<>> \in Seq(KnownBytes) /\ Len(<<>>) = 0
      BY EmptySeq
    <3> QED
      BY <2>3, <3>1, <3>2
  <2>5. {net', buffer', part'} \subseteq Seq(KnownBytes)
    BY <1>2, <1>3, <1>4, <2>4
  <2> QED
    BY <1>2, <2>3, <2>4, <2>5, StreamTypes
<1>6. CASE Len(data) # NextSize
  <2>1. part' = data /\ UNCHANGED <<values, received, state>>
    BY <1>1, <1>6
  <2>2. NextSize' = NextSize
    BY <1>2, <2>1 DEF NextSize
  <2>3. Len(part') < NextSize'
    <3>1. PICK d, z \in Int : d = Len(data) /\ z = NextSize /\ d <= z /\ d # z
      BY <1>1, <1>3, <1>6, LenProperties
    <3> QED
      BY <2>1, <2>2, <3>1
  <2>4. {net', buffer', part'} \subseteq Seq(KnownBytes)
    BY <1>1, <1>2, <1>3, <1>4, <2>1
  <2>5. /\ values' \in Seq(Values) /\ received' \in Seq(Seq(Values))
        /\ state' \in {"receiving", "failed"}
        /\ Len(values') < Len(Sizes(link.kind, values'))
    BY <2>1 DEF TInv, TypeOK
  <2> QED
    BY <1>2, <1>3, <2>3, <2>4, <2>5, StreamTypes
<1> QED
  BY <1>5, <1>6

(* Every step leaves the types as they are.                                 *)
LEMMA TypesPreserved == TInv /\ [Next]_vars => TInv'
<1> SUFFICES ASSUME TInv, [Next]_vars PROVE TInv'
  OBVIOUS
<1>1. CASE Write
  BY <1>1, WriteTypes
<1>2. CASE CloseSender
  BY <1>2 DEF TInv, TypeOK, SenderInv, KnownBytes, Outgoing, NextSize, CloseSender
<1>3. CASE Arrive
  BY <1>3, ArriveTypes
<1>4. CASE Read
  BY <1>4, ReadTypes
<1>5. CASE RecvExact
  BY <1>5, RecvTypes
<1>6. CASE EndOfStream
  BY <1>6 DEF TInv, TypeOK, SenderInv, KnownBytes, Outgoing, NextSize, EndOfStream
<1>7. CASE UNCHANGED vars
  BY <1>7 DEF TInv, TypeOK, SenderInv, KnownBytes, Outgoing, NextSize, vars
<1> QED
  BY <1>1, <1>2, <1>3, <1>4, <1>5, <1>6, <1>7 DEF Next

(* Whatever the network does with the pieces and whatever a receiver takes  *)
(* bytes of two fields for, the receiver knows how long the field is that   *)
(* it reads, and has not got more of it.                                    *)
THEOREM WireTypes == Spec => []TypeOK
<1>1. TInv => TypeOK
  BY DEF TInv
<1> QED
  BY <1>1, TypesInitially, TypesPreserved, PTL DEF Spec

-----------------------------------------------------------------------------
(* What is received is what was sent, where a reader gets whole fields.     *)

(* Every write arrives as a whole, or the receiver reads until the field is *)
(* whole.                                                                   *)
Sound == \A l \in Links : l.reader = "recv_exact" \/ ~ l.split

(* The fields of each message whose sending has begun. *)
Out == [n \in DOMAIN messages |-> Outgoing(n)]

(* The bytes of which the receiver has not made fields yet. *)
Ahead == part \o buffer \o net

(* The message that the next field to write belongs to. *)
NextToWrite == IF field = 1 THEN Len(messages) + 1 ELSE Len(messages)

(* They are whole fields in the order of the writes, from the next field to *)
(* receive to the next one to write.                                        *)
InOrder == Stream(Out, Ahead, Len(received) + 1, Len(values) + 1, NextToWrite, field)

(* Where a read returns a piece, the piece begins with a write.             *)
Whole(s) == Len(s) > 0 => s[1][3] = 1
Pieces == link.reader = "read" => Whole(buffer) /\ Whole(net)

(* The fields received so far are those of the messages.                    *)
Taken ==
  /\ Len(received) <= Len(messages)
  /\ \A n \in DOMAIN received : received[n] = ValuesOf(n)
  /\ \A k \in DOMAIN values :
       /\ Len(received) + 1 \in DOMAIN messages
       /\ k \in DOMAIN Outgoing(Len(received) + 1)
       /\ values[k] = Outgoing(Len(received) + 1)[k].value

SInv ==
  /\ TInv /\ Taken /\ FailsForCause
  /\ state = "receiving" => InOrder /\ Pieces

(* What is put after three sequences is put after the last of them.         *)
LEMMA JoinAssociative ==
  ASSUME NEW S, NEW p \in Seq(S), NEW b \in Seq(S), NEW x \in Seq(S), NEW y \in Seq(S)
  PROVE  p \o b \o (x \o y) = p \o b \o x \o y
<1>1. PICK r : r = p \o b
  OBVIOUS
<1>2. r \in Seq(S)
  BY <1>1, ConcatProperties
<1>3. (r \o x) \o y = r \o (x \o y)
  BY <1>2, ConcatAssociative, SMTT(30)
<1> QED
  BY <1>1, <1>3, Zenon

(* The widths of the fields sent. *)
LEMMA OutPlaces ==
  ASSUME TInv
  PROVE  /\ Places(Out) /\ DOMAIN Out = DOMAIN messages
         /\ \A n \in DOMAIN messages : Out[n] = Outgoing(n)
         /\ \A n \in DOMAIN messages : \A k \in DOMAIN Outgoing(n) :
              WidthAt(Out, n, k) = Outgoing(n)[k].width
BY OutgoingFields DEF Out, Places, WidthAt

(* The bytes ahead as one sequence. *)
LEMMA AheadElements ==
  ASSUME TInv
  PROVE  /\ Ahead \in Seq(Bytes) /\ Len(Ahead) = Len(part) + Len(buffer) + Len(net)
         /\ part \in Seq(Bytes) /\ buffer \in Seq(Bytes) /\ net \in Seq(Bytes)
         /\ part \o buffer \in Seq(Bytes)
         /\ Len(part) \in Nat /\ Len(buffer) \in Nat /\ Len(net) \in Nat
<1>1. part \in Seq(Bytes) /\ buffer \in Seq(Bytes) /\ net \in Seq(Bytes)
  BY DEF TInv, TypeOK
<1>2. PICK r : r = part \o buffer
  OBVIOUS
<1>3. r \in Seq(Bytes) /\ Len(r) = Len(part) + Len(buffer)
  BY <1>1, <1>2, ConcatElements
<1>4. r \o net \in Seq(Bytes) /\ Len(r \o net) = Len(r) + Len(net)
  BY <1>1, <1>3, ConcatElements
<1> QED
  BY <1>1, <1>2, <1>3, <1>4, LenProperties DEF Ahead

(* The field after the ones received, once the receiver has taken it.       *)
LEMMA FieldTaken ==
  ASSUME TInv, Taken, state = "receiving", UNCHANGED <<link, messages>>,
         NEW n, n = Len(received) + 1, NEW k, k = Len(values) + 1,
         n \in DOMAIN messages, k \in DOMAIN Outgoing(n),
         NEW value, value = Outgoing(n)[k].value, TakeField(value)
  PROVE  /\ Taken'
         /\ \/ /\ state' = "failed" /\ link.kind = "request"
               /\ messages[n].client = "python" /\ messages[n].bytes >= MAX_TEXT_SIZE
            \/ /\ state' = "receiving"
               /\ Len(received') + 1 = NextMessage(Out, n, k)
               /\ Len(values') + 1 = NextField(Out, n, k)
<1>1. PICK F : F = Outgoing(n)
  OBVIOUS
<1>2. /\ Agrees(link.kind, F) /\ F \in Seq(FieldSet) /\ Len(F) \in Nat \ {0}
      /\ DOMAIN F = 1 .. Len(F) /\ k \in 1 .. Len(F) /\ value \in Values
      /\ link.kind \in Kinds /\ messages[n] \in Messages(link.kind)
  BY <1>1, OutgoingFields, LinkKind DEF TInv, TypeOK
<1>3. PICK v : v = Append(values, value)
  OBVIOUS
<1>4. /\ values \in Seq(Values) /\ Len(values) \in Nat /\ DOMAIN values = 1 .. Len(values)
      /\ received \in Seq(Seq(Values)) /\ Len(received) \in Nat
      /\ DOMAIN received = 1 .. Len(received)
  BY LenProperties DEF TInv, TypeOK
<1>5. v \in Seq(Values) /\ Len(v) = k /\ DOMAIN v = 1 .. k /\ k \in Nat \ {0}
  BY <1>2, <1>3, <1>4, AppendProperties, LenProperties
<1>6. \A j \in 1 .. k : v[j] = F[j].value
  <2>1. \A j \in 1 .. Len(values) : v[j] = values[j] /\ values[j] = F[j].value
    <3>1. \A j \in 1 .. Len(values) : v[j] = values[j]
      BY <1>2, <1>3, <1>4, AppendProperties
    <3>2. \A j \in 1 .. Len(values) : values[j] = F[j].value
      BY <1>1, <1>4, Zenon DEF Taken
    <3> QED
      BY <3>1, <3>2
  <2>2. v[k] = F[k].value
    BY <1>1, <1>2, <1>3, <1>4, AppendProperties
  <2> QED
    BY <1>4, <2>1, <2>2
<1>7. Matches(v, F)
  BY <1>2, <1>5, <1>6 DEF Matches
<1>8. /\ k = Len(F) => Len(Sizes(link.kind, v)) = k
      /\ k # Len(F) => Len(Sizes(link.kind, v)) > k
  BY <1>2, <1>5, <1>7, Zenon DEF Agrees
<1>9. Out[n] = F
  BY <1>1, OutPlaces
<1>10. CASE link.reader = "read" /\ Refused(link.kind, v)
  <2>1. state' = "failed" /\ UNCHANGED <<values, received>>
    BY <1>3, <1>10 DEF TakeField
  <2>2. Taken'
    BY <2>1 DEF Taken, ValuesOf, Outgoing
  <2>3. F = Fields(link.kind, messages[n])
    BY <1>1 DEF Outgoing
  <2>4. link.kind = "request" /\ messages[n].client = "python" /\ messages[n].bytes >= MAX_TEXT_SIZE
    BY <1>2, <1>5, <1>7, <1>10, <2>3, NotRefused
  <2> QED
    BY <2>1, <2>2, <2>4
<1>11. CASE ~ (link.reader = "read" /\ Refused(link.kind, v)) /\ k = Len(F)
  <2>1. received' = Append(received, v) /\ values' = <<>> /\ state' = "receiving"
    BY <1>3, <1>5, <1>8, <1>11 DEF TakeField
  <2>2. v = ValuesOf(n)
    BY <1>1, <1>2, <1>5, <1>6, <1>11, LenProperties DEF ValuesOf
  <2>3. /\ Len(received') = n /\ DOMAIN received' = 1 .. n /\ received'[n] = v
        /\ \A j \in 1 .. Len(received) : received'[j] = received[j]
    <3>1. PICK r : r = Append(received, v)
      OBVIOUS
    <3>2. r \in Seq(Seq(Values)) /\ Len(r) = n /\ r[n] = v
          /\ \A j \in 1 .. Len(received) : r[j] = received[j]
      BY <1>4, <1>5, <3>1, AppendProperties
    <3> QED
      BY <2>1, <3>1, <3>2, LenProperties
  <2>4. n \in 1 .. Len(messages) /\ Len(messages) \in Nat
    BY LenProperties DEF TInv, SenderInv
  <2>5. Taken'
    <3>1. Len(received') <= Len(messages')
      BY <2>3, <2>4
    <3>2. ASSUME NEW j \in DOMAIN received' PROVE received'[j] = ValuesOf(j)'
      <4>1. received'[j] = ValuesOf(j)
        BY <1>4, <2>2, <2>3, SMTT(30) DEF Taken
      <4> QED
        BY <4>1 DEF ValuesOf, Outgoing
    <3>3. DOMAIN values' = {}
      BY <2>1
    <3> QED
      BY <3>1, <3>2, <3>3 DEF Taken
  <2>6. Len(values') + 1 = NextField(Out, n, k) /\ Len(received') + 1 = NextMessage(Out, n, k)
    <3>1. Len(values') = 0
      BY <2>1
    <3> QED
      BY <1>9, <1>11, <2>3, <3>1 DEF NextField, NextMessage
  <2> QED
    BY <2>1, <2>5, <2>6
<1>12. CASE ~ (link.reader = "read" /\ Refused(link.kind, v)) /\ k # Len(F)
  <2>1. Len(Sizes(link.kind, v)) # Len(v)
    <3>1. \A a \in Nat : \A b : b > a => b # a
      OBVIOUS
    <3> QED
      BY <1>5, <1>8, <1>12, <3>1
  <2>2. received' = received /\ values' = v /\ state' = "receiving"
    BY <1>3, <1>12, <2>1 DEF TakeField
  <2>3. Taken'
    <3>1. /\ Len(received') <= Len(messages')
          /\ \A j \in DOMAIN received' : received'[j] = ValuesOf(j)'
      BY <2>2 DEF Taken, ValuesOf, Outgoing
    <3>2. ASSUME NEW j \in 1 .. k
          PROVE  j \in DOMAIN F /\ v[j] = F[j].value
      BY <1>2, <1>6
    <3>3. DOMAIN values' = 1 .. k /\ Len(received') + 1 = n /\ n \in DOMAIN messages'
      BY <1>5, <2>2
    <3>4. Outgoing(n)' = F
      BY <1>1 DEF Outgoing
    <3>5. \A j \in DOMAIN values' :
            /\ n \in DOMAIN messages'
            /\ j \in DOMAIN Outgoing(n)' /\ values'[j] = Outgoing(n)'[j].value
      BY <2>2, <3>2, <3>3, <3>4
    <3>6. Outgoing(Len(received) + 1)' = Outgoing(n)'
      BY <2>2 DEF Outgoing
    <3> QED
      BY <3>1, <3>3, <3>5, <3>6 DEF Taken
  <2>4. Len(values') + 1 = NextField(Out, n, k) /\ Len(received') + 1 = NextMessage(Out, n, k)
    BY <1>5, <1>9, <1>12, <2>2 DEF NextField, NextMessage
  <2> QED
    BY <2>2, <2>3, <2>4
<1> QED
  BY <1>10, <1>11, <1>12

(* The bytes ahead begin with the field that the receiver asks for.         *)
LEMMA FrontOfStream ==
  ASSUME TInv, Taken, InOrder, Len(Ahead) > 0,
         NEW n, n = Len(received) + 1, NEW k, k = Len(values) + 1
  PROVE  /\ n \in DOMAIN messages /\ k \in DOMAIN Outgoing(n)
         /\ NextSize = Outgoing(n)[k].width /\ NextSize <= Len(Ahead)
         /\ \A b \in 1 .. NextSize : Ahead[b] = <<n, k, b>>
         /\ \A t \in Seq(Bytes) :
              /\ Len(t) = Len(Ahead) - NextSize
              /\ \A i \in 1 .. Len(t) : t[i] = Ahead[i + NextSize]
              => Stream(Out, t, NextMessage(Out, n, k), NextField(Out, n, k), NextToWrite, field)
<1>1. Stream(Out, Ahead, n, k, NextToWrite, field) /\ Ahead \in Seq(Bytes) /\ Places(Out)
  BY OutPlaces, AheadElements DEF InOrder
<1>2. FieldAt(Out, Ahead, 1, n, k, NextToWrite, field)
  <2>1. Len(Ahead) \in Nat
    BY AheadElements
  <2>2. 1 \in 1 .. Len(Ahead) /\ Ahead[1] = <<n, k, 1>>
    BY <1>1, <2>1 DEF Stream
  <2> QED
    BY <1>1, <2>2 DEF Stream
<1>3. n \in DOMAIN messages /\ k \in DOMAIN Outgoing(n)
  BY <1>2, OutPlaces DEF FieldAt
<1>4. PICK w \in Nat \ {0} : w = Outgoing(n)[k].width
  BY <1>3, OutgoingFields
<1>5. w = WidthAt(Out, n, k)
  BY <1>3, <1>4, OutPlaces
<1>6. /\ w <= Len(Ahead) /\ \A b \in 1 .. w : Ahead[b] = <<n, k, b>>
      /\ \A t \in Seq(Bytes) :
           Len(t) = Len(Ahead) - w /\ (\A i \in 1 .. Len(t) : t[i] = Ahead[i + w]) =>
             Stream(Out, t, NextMessage(Out, n, k), NextField(Out, n, k), NextToWrite, field)
  BY <1>1, <1>5, StreamTaken, SMTT(60)
<1>7. NextSize = w
  <2>1. PICK F : F = Outgoing(n)
    OBVIOUS
  <2>2. Agrees(link.kind, F) /\ DOMAIN F = 1 .. Len(F) /\ Len(F) \in Nat
    BY <1>3, <2>1, OutgoingFields
  <2>3. values \in Seq(Values) /\ Len(values) \in Nat /\ DOMAIN values = 1 .. Len(values)
    BY LenProperties DEF TInv, TypeOK
  <2>4. k \in 1 .. Len(F)
    BY <1>3, <2>1, <2>2
  <2>5. Len(values) <= Len(F) /\ Len(values) # Len(F)
    <3>1. \A a \in Nat : \A b \in Nat : a + 1 \in 1 .. b => a <= b /\ a # b
      OBVIOUS
    <3> QED
      BY <2>2, <2>3, <2>4, <3>1, Zenon
  <2>6. \A j \in 1 .. Len(values) : values[j] = F[j].value
    BY <2>1, <2>3, Zenon DEF Taken
  <2>7. Matches(values, F)
    BY <2>5, <2>6 DEF Matches
  <2>8. Sizes(link.kind, values)[Len(values) + 1] = F[Len(values) + 1].width
    BY <2>2, <2>3, <2>5, <2>7, Zenon DEF Agrees
  <2> QED
    BY <1>4, <2>1, <2>8 DEF NextSize
<1> QED
  BY <1>3, <1>4, <1>6, <1>7

(* The whole field is taken off the front of the bytes ahead.               *)
LEMMA FieldRead ==
  ASSUME SInv, state = "receiving", UNCHANGED <<link, messages, field, net, open>>,
         NEW bytes \in Seq(Bytes), NEW rest \in Seq(Bytes),
         Ahead = bytes \o rest, Ahead' = rest, Len(bytes) = NextSize,
         NEW value \in Decoded(bytes, NextSize), TakeField(value)
  PROVE  /\ Taken' /\ FailsForCause'
         /\ state' = "receiving" => InOrder'
<1>1. PICK n, k : n = Len(received) + 1 /\ k = Len(values) + 1
  OBVIOUS
<1>2. TInv /\ Taken /\ InOrder /\ Pieces
  BY DEF SInv
<1>9. /\ Len(Ahead) > 0 /\ Len(rest) = Len(Ahead) - NextSize
      /\ \A i \in 1 .. Len(rest) : rest[i] = Ahead[i + NextSize]
      /\ \A b \in 1 .. NextSize : bytes[b] = Ahead[b]
  <2>1. PICK a, z \in Nat : a = Len(rest) /\ z = NextSize /\ z > 0
    BY <1>2, SizeOfNext, LenProperties
  <2>2. /\ Len(Ahead) = z + a
        /\ \A b \in 1 .. z : Ahead[b] = bytes[b]
        /\ \A i \in 1 .. a : Ahead[z + i] = rest[i]
    <3>1. PICK r : r = bytes \o rest
      OBVIOUS
    <3>2. /\ Len(r) = Len(bytes) + Len(rest)
          /\ \A b \in 1 .. Len(bytes) : r[b] = bytes[b]
          /\ \A i \in 1 .. Len(rest) : r[Len(bytes) + i] = rest[i]
      <4>1. \A p, q \in Seq(Bytes) :
              /\ Len(p \o q) = Len(p) + Len(q)
              /\ \A b \in 1 .. Len(p) : (p \o q)[b] = p[b]
              /\ \A i \in 1 .. Len(q) : (p \o q)[Len(p) + i] = q[i]
        BY ConcatElements
      <4> QED
        BY <3>1, <4>1, Zenon
    <3> QED
      BY <2>1, <3>1, <3>2, Zenon
  <2>3. Len(Ahead) > 0 /\ a = Len(Ahead) - z
    BY <2>1, <2>2
  <2>4. \A i \in 1 .. a : z + i = i + z
    BY <2>1
  <2> QED
    BY <2>1, <2>2, <2>3, <2>4, Zenon
<1>3. /\ n \in DOMAIN messages /\ k \in DOMAIN Outgoing(n)
      /\ NextSize = Outgoing(n)[k].width /\ NextSize <= Len(Ahead)
      /\ \A b \in 1 .. NextSize : Ahead[b] = <<n, k, b>>
  BY <1>1, <1>2, <1>9, FrontOfStream
<1>4. \A t \in Seq(Bytes) :
              /\ Len(t) = Len(Ahead) - NextSize
              /\ \A i \in 1 .. Len(t) : t[i] = Ahead[i + NextSize]
              => Stream(Out, t, NextMessage(Out, n, k), NextField(Out, n, k), NextToWrite, field)
  BY <1>1, <1>2, <1>9, FrontOfStream
<1>5. value = Outgoing(n)[k].value
  <2>1. NextSize \in Nat \ {0} /\ 1 \in 1 .. NextSize
    BY <1>2, SizeOfNext
  <2>2. \A b \in 1 .. NextSize : bytes[b] = <<n, k, b>>
    BY <1>3, <1>9
  <2>3. bytes[1][1] = n /\ bytes[1][2] = k
    BY <2>1, <2>2
  <2>4. bytes = [b \in 1 .. NextSize |-> <<n, k, b>>]
    BY <2>1, <2>2, LenProperties
  <2> QED
    BY <1>3, <2>3, <2>4 DEF Decoded
<1>6. /\ Taken'
      /\ \/ /\ state' = "failed" /\ link.kind = "request"
            /\ messages[n].client = "python" /\ messages[n].bytes >= MAX_TEXT_SIZE
         \/ /\ state' = "receiving"
            /\ Len(received') + 1 = NextMessage(Out, n, k)
            /\ Len(values') + 1 = NextField(Out, n, k)
  BY <1>1, <1>2, <1>3, <1>5, FieldTaken
<1>7. FailsForCause'
  BY <1>3, <1>6 DEF FailsForCause
<1>8. ASSUME state' = "receiving" PROVE InOrder'
  <2>1. Stream(Out, Ahead', NextMessage(Out, n, k), NextField(Out, n, k), NextToWrite, field)
    BY <1>4, <1>9
  <2>2. Out' = Out /\ NextToWrite' = NextToWrite /\ field' = field
    BY DEF Out, Outgoing, NextToWrite
  <2>3. Len(received') + 1 = NextMessage(Out, n, k) /\ Len(values') + 1 = NextField(Out, n, k)
    BY <1>6, <1>8
  <2> QED
    BY <2>1, <2>2, <2>3 DEF InOrder
<1> QED
  BY <1>6, <1>7, <1>8

(* A write continues the stream. *)
LEMMA WriteInOrder ==
  ASSUME SInv, Write, state = "receiving"
  PROVE  InOrder' /\ Pieces'
<1>1. PICK N, w, G :
           /\ N = Len(messages') /\ N \in 1 .. MaxMessages
           /\ N = (IF field = 1 THEN Len(messages) + 1 ELSE Len(messages))
           /\ messages' \in Seq(Messages(link.kind))
           /\ \A n \in DOMAIN messages :
                n \in DOMAIN messages' /\ messages'[n] = messages[n] /\ Outgoing(n)' = Outgoing(n)
           /\ N \in DOMAIN messages' /\ DOMAIN messages' = 1 .. N
           /\ Agrees(link.kind, Outgoing(N)') /\ field \in DOMAIN Outgoing(N)'
           /\ w \in Nat \ {0} /\ w = Outgoing(N)'[field].width
           /\ G \in Seq(Bytes) /\ Len(G) = w /\ \A b \in 1 .. w : G[b] = <<N, field, b>>
           /\ net' = net \o G
           /\ field' = IF field = Len(Outgoing(N)') THEN 1 ELSE field + 1
  BY Written DEF SInv
<1>2. /\ link' = link /\ buffer' = buffer /\ part' = part /\ values' = values
      /\ received' = received /\ state' = state /\ open' = open
  BY DEF Write
<1>3. TInv /\ InOrder /\ Pieces
  BY DEF SInv
<1>4. PICK s, t : s = Ahead /\ t = Ahead'
  OBVIOUS
<1>5. /\ s \in Seq(Bytes) /\ part \in Seq(Bytes) /\ buffer \in Seq(Bytes) /\ net \in Seq(Bytes)
      /\ part \o buffer \in Seq(Bytes) /\ Len(net) \in Nat
  BY <1>3, <1>4, AheadElements
<1>6. t = s \o G
  <2>1. t = part \o buffer \o (net \o G)
    BY <1>1, <1>2, <1>4 DEF Ahead
  <2>2. s = part \o buffer \o net
    BY <1>4 DEF Ahead
  <2>3. part \o buffer \o (net \o G) = part \o buffer \o net \o G
    <3>1. /\ part \in Seq(Bytes) /\ buffer \in Seq(Bytes) /\ net \in Seq(Bytes)
          /\ G \in Seq(Bytes)
      BY <1>1, <1>5, Zenon
    <3> QED
      BY <3>1, JoinAssociative
  <2> QED
    BY <2>1, <2>2, <2>3, Zenon
<1>7. /\ t \in Seq(Bytes) /\ Len(t) = Len(s) + w
      /\ \A i \in 1 .. Len(s) : t[i] = s[i]
      /\ \A b \in 1 .. w : t[Len(s) + b] = <<N, field, b>>
  <2>1. G \in Seq(Bytes) /\ Len(G) = w /\ s \in Seq(Bytes)
    BY <1>1, <1>5
  <2>2. /\ t \in Seq(Bytes) /\ Len(t) = Len(s) + Len(G)
        /\ \A i \in 1 .. Len(s) : t[i] = s[i]
        /\ \A b \in 1 .. Len(G) : t[Len(s) + b] = G[b]
    <3>1. \A p, q \in Seq(Bytes) :
            /\ p \o q \in Seq(Bytes) /\ Len(p \o q) = Len(p) + Len(q)
            /\ \A b \in 1 .. Len(p) : (p \o q)[b] = p[b]
            /\ \A i \in 1 .. Len(q) : (p \o q)[Len(p) + i] = q[i]
      BY ConcatElements
    <3> QED
      BY <1>6, <2>1, <3>1, Zenon
  <2>3. \A b \in 1 .. w : G[b] = <<N, field, b>>
    BY <1>1
  <2> QED
    BY <2>1, <2>2, <2>3, Zenon
<1>8. PICK more : more = Out'
  OBVIOUS
<1>9. /\ DOMAIN more = DOMAIN messages' /\ \A n \in DOMAIN more : more[n] = Outgoing(n)'
  BY <1>8 DEF Out
<1>10. /\ \A n \in DOMAIN Out : n \in DOMAIN more /\ more[n] = Out[n]
       /\ N \in DOMAIN more /\ field \in DOMAIN more[N] /\ w = WidthAt(more, N, field)
  BY <1>1, <1>3, <1>9, OutPlaces DEF WidthAt
<1>11. N = NextToWrite
  BY <1>1 DEF NextToWrite
<1>12. Stream(more, t, Len(received) + 1, Len(values) + 1,
              NextMessage(more, N, field), NextField(more, N, field))
  <2>1. Places(Out) /\ Stream(Out, s, Len(received) + 1, Len(values) + 1, N, field)
    BY <1>3, <1>4, <1>11, OutPlaces DEF InOrder
  <2>2. w \in Nat \ {0}
    BY <1>1
  <2>3. Grown(Out, more, s, t, N, field)
    BY <1>7, <1>10, <2>1, <2>2 DEF Grown
  <2> QED
    BY <1>5, <1>7, <2>1, <2>3, StreamGrows
<1>13. NextToWrite' = NextMessage(more, N, field) /\ field' = NextField(more, N, field)
  <2>1. more[N] = Outgoing(N)' /\ field \in Nat \ {0} /\ N \in Nat
    <3>1. field \in Nat \ {0}
      BY <1>3 DEF TInv, TypeOK
    <3>2. N \in Nat
      BY <1>1, WireAssumption
    <3> QED
      BY <1>1, <1>9, <3>1, <3>2, Zenon
  <2>2. field' = NextField(more, N, field)
    BY <1>1, <2>1 DEF NextField
  <2>3. NextToWrite' = IF field' = 1 THEN N + 1 ELSE N
    BY <1>1 DEF NextToWrite
  <2>4. field + 1 # 1
    BY <2>1
  <2> QED
    BY <2>1, <2>2, <2>3, <2>4 DEF NextField, NextMessage
<1>14. InOrder'
  BY <1>2, <1>4, <1>8, <1>12, <1>13 DEF InOrder
<1>15. Pieces'
  <2>1. G[1][3] = 1
    <3>1. G[1] = <<N, field, 1>>
      BY <1>1
    <3> QED
      BY <3>1
  <2>2. Whole(net) => Whole(net \o G)
    <3>1. Len(net) = 0 => (net \o G)[1] = G[1]
      BY <1>1, <1>5, ConcatElements
    <3>2. Len(net) > 0 => (net \o G)[1] = net[1]
      BY <1>1, <1>5, ConcatElements
    <3> QED
      BY <1>5, <2>1, <3>1, <3>2 DEF Whole
  <2> QED
    BY <1>1, <1>2, <1>3, <2>2 DEF Pieces, Whole
<1> QED
  BY <1>14, <1>15

(* An arrival leaves the stream as it is. *)
LEMMA ArriveInOrder ==
  ASSUME Sound, SInv, Arrive, state = "receiving"
  PROVE  InOrder' /\ Pieces'
<1>1. PICK i \in 1 .. Len(net) : /\ link.split \/ EndsWrite(i)
                                 /\ buffer' = buffer \o SubSeq(net, 1, i)
                                 /\ net' = SubSeq(net, i + 1, Len(net))
  BY DEF Arrive
<1>2. UNCHANGED <<link, messages, field, open, part, values, received, state>>
  BY DEF Arrive
<1>3. TInv /\ InOrder /\ Pieces
  BY DEF SInv
<1>4. /\ part \in Seq(Bytes) /\ buffer \in Seq(Bytes) /\ net \in Seq(Bytes)
      /\ part \o buffer \in Seq(Bytes) /\ Len(net) \in Nat /\ Len(buffer) \in Nat
  BY <1>3, AheadElements
<1>5. PICK A, B : A = SubSeq(net, 1, i) /\ B = SubSeq(net, i + 1, Len(net))
  OBVIOUS
<1>6. /\ A \in Seq(Bytes) /\ Len(A) = i /\ \A j \in 1 .. i : A[j] = net[j]
      /\ B \in Seq(Bytes) /\ Len(B) = Len(net) - i
      /\ \A j \in 1 .. Len(net) - i : B[j] = net[i + j]
      /\ A \o B = net /\ i \in Nat /\ i <= Len(net) /\ i > 0
  <2>1. i \in Nat /\ i <= Len(net) /\ i > 0
    BY <1>4
  <2> QED
    BY <1>4, <1>5, <2>1, Cut
<1>7. Ahead' = Ahead
  <2>1. Ahead' = part \o (buffer \o A) \o B
    BY <1>1, <1>2, <1>5 DEF Ahead
  <2>2. part \o (buffer \o A) \o B = part \o buffer \o (A \o B)
    <3>1. /\ part \in Seq(Bytes) /\ buffer \in Seq(Bytes) /\ A \in Seq(Bytes)
          /\ B \in Seq(Bytes)
      BY <1>4, <1>6, Zenon
    <3>2. part \o buffer \o (A \o B) = part \o buffer \o A \o B
      <4>1. PICK r : r = part \o buffer
        OBVIOUS
      <4>2. r \in Seq(Bytes)
        BY <1>4, <4>1, Zenon
      <4>3. (r \o A) \o B = r \o (A \o B)
        BY <3>1, <4>2, ConcatAssociative, SMTT(30)
      <4> QED
        BY <4>1, <4>3, Zenon
    <3>3. part \o buffer \o A = part \o (buffer \o A)
      BY <3>1, ConcatAssociative
    <3> QED
      BY <3>2, <3>3, Zenon
  <2> QED
    BY <1>6, <2>1, <2>2, Zenon DEF Ahead
<1>8. InOrder'
  <2>1. Out' = Out /\ NextToWrite' = NextToWrite
    BY <1>2 DEF Out, Outgoing, NextToWrite
  <2> QED
    BY <1>2, <1>3, <1>7, <2>1 DEF InOrder
<1>9. ASSUME link.reader = "read" PROVE Whole(buffer') /\ Whole(net')
  <2>1. Whole(buffer) /\ Whole(net)
    BY <1>3, <1>9 DEF Pieces
  <2>2. ~ link.split
    BY <1>3, <1>9 DEF TInv, TypeOK, Sound
  <2>3. i < Len(net) => net[i + 1][3] = 1
    BY <1>1, <2>2 DEF EndsWrite
  <2>4. Whole(B)
    <3>2. Len(B) > 0 => 1 \in 1 .. Len(net) - i /\ i < Len(net)
      BY <1>4, <1>6
    <3>1. Len(B) > 0 => B[1] = net[i + 1] /\ i < Len(net)
      BY <1>6, <3>2
    <3> QED
      BY <2>3, <3>1 DEF Whole
  <2>5. Whole(buffer \o A)
    <3>1. Len(buffer) = 0 => (buffer \o A)[1] = A[1]
      BY <1>4, <1>6, ConcatElements
    <3>2. Len(buffer) > 0 => (buffer \o A)[1] = buffer[1]
      BY <1>4, <1>6, ConcatElements
    <3>3. A[1] = net[1] /\ Len(net) > 0
      BY <1>4, <1>6
    <3> QED
      BY <1>4, <2>1, <3>1, <3>2, <3>3 DEF Whole
  <2> QED
    BY <1>1, <1>5, <2>4, <2>5
<1> QED
  BY <1>2, <1>8, <1>9 DEF Pieces

(* One read returns one field. *)
LEMMA ReadInOrder ==
  ASSUME SInv, Read
  PROVE  Taken' /\ FailsForCause' /\ (state' = "receiving" => InOrder' /\ Pieces')
<1>1. TInv /\ Taken /\ InOrder /\ Pieces /\ link.reader = "read" /\ state = "receiving"
  BY DEF SInv, Read
<1>2. UNCHANGED <<link, messages, field, open, net, part>>
  BY DEF Read
<1>3. PICK z, l, a \in Nat : z = NextSize /\ z > 0 /\ l = Len(buffer) /\ l > 0 /\ a = Len(net)
  <2>1. NextSize \in Nat \ {0} /\ Len(buffer) \in Nat \ {0} /\ Len(net) \in Nat
    BY <1>1, AheadElements, SizeOfNext, EmptySeq DEF Read
  <2>2. \E z, l, a \in Nat :
          z = NextSize /\ z > 0 /\ l = Len(buffer) /\ l > 0 /\ a = Len(net)
    <3>1. \A y \in Nat \ {0} : y \in Nat /\ y > 0
      OBVIOUS
    <3> QED
      BY <2>1, <3>1, Zenon
  <2> QED
    BY <2>2
<1>4. part = <<>> /\ buffer \in Seq(Bytes) /\ net \in Seq(Bytes)
  BY <1>1, AheadElements DEF TInv, SenderInv
<1>5. Ahead = buffer \o net
  BY <1>4, ConcatEmptySeq DEF Ahead
<1>6. /\ Len(Ahead) = l + a /\ \A i \in 1 .. l : Ahead[i] = buffer[i]
      /\ \A i \in 1 .. a : Ahead[l + i] = net[i]
  BY <1>3, <1>4, <1>5, ConcatElements
<1>7. z <= l
  <2>1. PICK n, k : n = Len(received) + 1 /\ k = Len(values) + 1
    OBVIOUS
  <2>2. Len(Ahead) > 0
    BY <1>3, <1>6
  <2>3. z <= l + a /\ \A b \in 1 .. z : Ahead[b] = <<n, k, b>>
    BY <1>1, <1>3, <1>6, <2>1, <2>2, FrontOfStream
  <2>4. SUFFICES ASSUME ~ z <= l PROVE FALSE
    OBVIOUS
  <2>5. l + 1 \in 1 .. z /\ 1 \in 1 .. a
    BY <1>3, <2>3, <2>4
  <2>6. net[1] = <<n, k, l + 1>>
    BY <1>6, <2>3, <2>5
  <2>7. net[1][3] = 1
    BY <1>1, <1>3, <2>5 DEF Pieces, Whole
  <2> QED
    BY <1>3, <2>6, <2>7
<1>8. PICK bytes, over : bytes = SubSeq(buffer, 1, z) /\ over = SubSeq(buffer, z + 1, Len(buffer))
  OBVIOUS
<1>9. /\ bytes \in Seq(Bytes) /\ Len(bytes) = z
      /\ over \in Seq(Bytes) /\ bytes \o over = buffer
  BY <1>3, <1>4, <1>7, <1>8, Cut
<1>10. Min({NextSize, Len(buffer)}) = z
  BY <1>3, <1>7, MinOfTwo
<1>11. buffer' = over /\ \E value \in Decoded(bytes, NextSize) : TakeField(value)
  BY <1>3, <1>8, <1>9, <1>10 DEF Read
<1>12. PICK value \in Decoded(bytes, NextSize) : TakeField(value)
  BY <1>11
<1>13. PICK rest : rest = over \o net
  OBVIOUS
<1>14. rest \in Seq(Bytes) /\ Ahead = bytes \o rest
  <2>1. rest \in Seq(Bytes)
    BY <1>4, <1>9, <1>13, ConcatElements
  <2>2. (bytes \o over) \o net = bytes \o (over \o net)
    <3>1. bytes \in Seq(Bytes) /\ over \in Seq(Bytes) /\ net \in Seq(Bytes)
      BY <1>4, <1>9, Zenon
    <3> QED
      BY <3>1, ConcatAssociative
  <2> QED
    BY <1>5, <1>9, <1>13, <2>1, <2>2, Zenon
<1>15. Ahead' = rest
  <2>1. <<>> \o over = over
    BY <1>9, ConcatEmptySeq
  <2> QED
    BY <1>2, <1>4, <1>11, <1>13, <2>1 DEF Ahead
<1>16. Taken' /\ FailsForCause' /\ (state' = "receiving" => InOrder')
  <2>1. UNCHANGED <<link, messages, field, net, open>> /\ Len(bytes) = NextSize
    BY <1>2, <1>3, <1>9
  <2> QED
    BY <1>1, <1>9, <1>12, <1>14, <1>15, <2>1, FieldRead
<1>17. ASSUME state' = "receiving" PROVE Whole(over)
  <2>1. InOrder'
    BY <1>16, <1>17
  <2>2. Len(rest) > 0 => rest[1][3] = 1
    BY <1>15, <2>1 DEF InOrder, Stream
  <2>3. Len(over) > 0 => rest[1] = over[1] /\ Len(rest) > 0
    BY <1>3, <1>4, <1>9, <1>13, ConcatElements, LenProperties
  <2> QED
    BY <2>2, <2>3 DEF Whole
<1> QED
  BY <1>1, <1>2, <1>11, <1>16, <1>17 DEF Pieces

(* _recv_exact adds a chunk to the bytes of its field. *)
LEMMA RecvInOrder ==
  ASSUME SInv, RecvExact
  PROVE  Taken' /\ FailsForCause' /\ (state' = "receiving" => InOrder' /\ Pieces')
<1>1. TInv /\ Taken /\ InOrder /\ link.reader # "read" /\ state = "receiving"
  BY DEF SInv, RecvExact
<1>2. UNCHANGED <<link, messages, field, open, net>>
  BY DEF RecvExact
<1>3. PICK m, chunk, data :
           /\ m \in Nat \ {0} /\ m <= Len(buffer)
           /\ Len(part) + m <= NextSize /\ (Len(part) + m < NextSize => m = Len(buffer))
           /\ chunk = SubSeq(buffer, 1, m) /\ data = part \o chunk
           /\ buffer' = SubSeq(buffer, m + 1, Len(buffer))
           /\ chunk \in Seq(KnownBytes) /\ Len(chunk) = m
           /\ data \in Seq(KnownBytes) /\ Len(data) = Len(part) + m
           /\ Len(part) \in Nat /\ data[1] \in KnownBytes
           /\ Len(data) = NextSize =>
                part' = <<>> /\ \E value \in Decoded(data, NextSize) : TakeField(value)
           /\ Len(data) # NextSize => part' = data /\ UNCHANGED <<values, received, state>>
  BY <1>1, ChunkTaken
<1>4. part \in Seq(Bytes) /\ buffer \in Seq(Bytes) /\ net \in Seq(Bytes)
  BY <1>1, AheadElements
<1>5. PICK over : over = SubSeq(buffer, m + 1, Len(buffer))
  OBVIOUS
<1>6. /\ chunk \in Seq(Bytes) /\ over \in Seq(Bytes) /\ chunk \o over = buffer
      /\ m \in Nat
  <2>1. m \in Nat /\ m <= Len(buffer) /\ chunk = SubSeq(buffer, 1, m)
    BY <1>3
  <2> QED
    BY <1>4, <1>5, <2>1, Cut
<1>7. data \in Seq(Bytes)
  BY <1>3, <1>4, <1>6, ConcatProperties
<1>8. buffer = chunk \o over /\ data = part \o chunk /\ buffer' = over
  BY <1>3, <1>5, <1>6
<1>9. Ahead = data \o over \o net
  <2>1. (part \o chunk) \o over = part \o (chunk \o over)
    <3>1. part \in Seq(Bytes) /\ chunk \in Seq(Bytes) /\ over \in Seq(Bytes)
      BY <1>4, <1>6, Zenon
    <3> QED
      BY <3>1, ConcatAssociative
  <2> QED
    BY <1>8, <2>1, Zenon DEF Ahead
<1>10. CASE Len(data) = NextSize
  <2>1. PICK value \in Decoded(data, NextSize) : TakeField(value)
    BY <1>3, <1>10
  <2>2. PICK rest : rest = over \o net
    OBVIOUS
  <2>3. rest \in Seq(Bytes)
    BY <1>4, <1>6, <2>2, ConcatProperties
  <2>4. (data \o over) \o net = data \o (over \o net)
    BY <1>4, <1>6, <1>7, ConcatAssociative, SMTT(30)
  <2>5. Ahead = data \o rest
    BY <1>9, <2>2, <2>4, Zenon
  <2>6. Ahead' = rest
    <3>1. <<>> \o over = over
      BY <1>6, ConcatEmptySeq
    <3>2. part' = <<>>
      BY <1>3, <1>10
    <3> QED
      BY <1>2, <1>8, <2>2, <3>1, <3>2 DEF Ahead
  <2>7. Taken' /\ FailsForCause' /\ (state' = "receiving" => InOrder')
    BY <1>1, <1>2, <1>7, <1>10, <2>1, <2>3, <2>5, <2>6, FieldRead
  <2> QED
    BY <1>1, <1>2, <2>7 DEF Pieces
<1>11. CASE Len(data) # NextSize
  <2>1. part' = data /\ UNCHANGED <<values, received, state>>
    BY <1>3, <1>11
  <2>2. Ahead' = Ahead
    BY <1>2, <1>8, <1>9, <2>1 DEF Ahead
  <2>3. InOrder'
    <3>1. Out' = Out /\ NextToWrite' = NextToWrite
      BY <1>2 DEF Out, Outgoing, NextToWrite
    <3> QED
      BY <1>1, <1>2, <2>1, <2>2, <3>1 DEF InOrder
  <2>4. Taken' /\ FailsForCause' /\ Pieces'
    BY <1>1, <1>2, <2>1 DEF Taken, ValuesOf, Outgoing, FailsForCause, Pieces
  <2> QED
    BY <2>3, <2>4
<1> QED
  BY <1>10, <1>11

(* An empty stream goes from the first field to the first field.            *)
LEMMA SInvInitially == Init => SInv
<1> SUFFICES ASSUME Init PROVE SInv
  OBVIOUS
<1>1. TInv
  BY TypesInitially
<1>2. /\ messages = <<>> /\ values = <<>> /\ received = <<>> /\ part = <<>>
      /\ net = <<>> /\ buffer = <<>> /\ field = 1 /\ state = "receiving"
  BY DEF Init
<1>3. Len(<<>>) = 0 /\ DOMAIN <<>> = {}
  BY EmptySeq
<1>4. Taken /\ FailsForCause /\ Pieces
  BY <1>2, <1>3 DEF Taken, FailsForCause, Pieces, Whole
<1>5. Len(Ahead) = 0
  <2>1. Len(part) = 0 /\ Len(buffer) = 0 /\ Len(net) = 0
    BY <1>2, <1>3
  <2> QED
    BY <1>1, <2>1, AheadElements
<1>6. NextToWrite = 1 /\ field = 1 /\ Len(received) + 1 = 1 /\ Len(values) + 1 = 1
  BY <1>2, <1>3 DEF NextToWrite
<1>7. InOrder
  BY <1>5, <1>6 DEF InOrder, Stream
<1> QED
  BY <1>1, <1>4, <1>7 DEF SInv

(* At the end of the stream every complete message has been received.       *)
LEMMA EndFound ==
  ASSUME SInv, EndOfStream
  PROVE  SInv'
<1>1. TInv /\ Taken /\ InOrder
  BY DEF SInv, EndOfStream
<1>2. TInv'
  BY <1>1, TypesPreserved DEF Next
<1>3. Taken'
  BY <1>1 DEF Taken, ValuesOf, Outgoing, EndOfStream
<1>4. PICK p, r, c \in Nat : p = Len(part) /\ r = Len(received) /\ c = Len(messages)
  BY <1>1, LenProperties, AheadElements DEF TInv, TypeOK, SenderInv
<1>5. Len(Ahead) = p
  <2>1. Len(buffer) = 0 /\ Len(net) = 0
    BY EmptySeq DEF EndOfStream
  <2> QED
    BY <1>1, <1>4, <2>1, AheadElements
<1>6. p = 0
  <2>1. SUFFICES ASSUME p > 0 PROVE FALSE
    BY <1>4
  <2>2. NextSize <= Len(Ahead)
    BY <1>1, <1>5, <2>1, FrontOfStream
  <2>3. p < NextSize /\ NextSize \in Nat
    BY <1>1, <1>4, SizeOfNext DEF TInv, TypeOK
  <2> QED
    BY <1>5, <2>2, <2>3
<1>7. r + 1 = NextToWrite
  BY <1>4, <1>5, <1>6, <1>1 DEF InOrder, Stream
<1>8. Len(received) = Complete
  BY <1>4, <1>7 DEF NextToWrite, Complete
<1>9. FailsForCause' /\ state' # "receiving"
  BY <1>8 DEF FailsForCause, Complete, EndOfStream
<1> QED
  BY <1>2, <1>3, <1>9 DEF SInv

(* Every step leaves the stream in order, and what was taken off it as sent. *)
LEMMA SInvPreserved ==
  ASSUME Sound, SInv, [Next]_vars
  PROVE  SInv'
<1>1. TInv /\ TInv' /\ Taken /\ FailsForCause
  BY TypesPreserved DEF SInv
<1>2. CASE Write
  <2>1. /\ link' = link /\ received' = received /\ values' = values /\ state' = state
        /\ open' = open /\ open
    BY <1>2 DEF Write
  <2>2. /\ Len(messages) \in Nat /\ DOMAIN messages = 1 .. Len(messages)
        /\ Len(messages') \in Nat /\ DOMAIN messages' = 1 .. Len(messages')
        /\ \A n \in DOMAIN messages :
             n \in DOMAIN messages' /\ messages'[n] = messages[n] /\ Outgoing(n)' = Outgoing(n)
        /\ Len(messages) <= Len(messages')
    <3>1. Len(messages) \in Nat /\ DOMAIN messages = 1 .. Len(messages)
      BY <1>1, LenProperties DEF TInv, SenderInv
    <3>2. /\ Len(messages') \in 1 .. MaxMessages /\ DOMAIN messages' = 1 .. Len(messages')
          /\ Len(messages') = (IF field = 1 THEN Len(messages) + 1 ELSE Len(messages))
          /\ \A n \in DOMAIN messages :
               n \in DOMAIN messages' /\ messages'[n] = messages[n] /\ Outgoing(n)' = Outgoing(n)
      BY <1>1, <1>2, Written
    <3>3. Len(messages') \in Nat
      BY <3>2, WireAssumption
    <3>4. Len(messages) <= Len(messages')
      BY <3>1, <3>2
    <3> QED
      BY <3>1, <3>2, <3>3, <3>4, Zenon
  <2>3. Taken'
    <3>1. received \in Seq(Seq(Values)) /\ Len(received) \in Nat /\ DOMAIN received = 1 .. Len(received)
      BY <1>1, LenProperties DEF TInv, TypeOK
    <3>2. Len(received') <= Len(messages')
      <4>1. \A a, b, c \in Nat : a <= b /\ b <= c => a <= c
        OBVIOUS
      <4> QED
        BY <1>1, <2>1, <2>2, <3>1, <4>1, Zenon DEF Taken
    <3>3. \A n \in DOMAIN received : n \in DOMAIN messages
      BY <1>1, <2>2, <3>1 DEF Taken
    <3>4. \A n \in DOMAIN received : received[n] = ValuesOf(n)'
      BY <1>1, <2>2, <3>3, Zenon DEF Taken, ValuesOf
    <3>5. PICK q : q = Len(received) + 1
      OBVIOUS
    <3>6. Outgoing(Len(received) + 1)' = Outgoing(q)'
      BY <2>1, <3>5 DEF Outgoing
    <3>7. \A k \in DOMAIN values :
            /\ q \in DOMAIN messages'
            /\ k \in DOMAIN Outgoing(q)' /\ values[k] = Outgoing(q)'[k].value
      BY <1>1, <2>2, <3>5 DEF Taken
    <3> QED
      BY <2>1, <3>2, <3>4, <3>5, <3>6, <3>7 DEF Taken
  <2>4. FailsForCause'
    BY <1>1, <2>1, <2>2 DEF FailsForCause
  <2>5. state' = "receiving" => InOrder' /\ Pieces'
    BY <1>2, <2>1, WriteInOrder
  <2> QED
    BY <1>1, <2>3, <2>4, <2>5 DEF SInv
<1>3. CASE CloseSender
  <2>1. open /\ UNCHANGED <<link, messages, field, net, buffer, part, values, received, state>>
    BY <1>3 DEF CloseSender
  <2> QED
    BY <1>1, <2>1 DEF SInv, Taken, ValuesOf, Outgoing, FailsForCause, InOrder, Pieces,
                      Out, Ahead, NextToWrite
<1>4. CASE Arrive
  <2>1. UNCHANGED <<link, messages, field, open, part, values, received, state>>
    BY <1>4 DEF Arrive
  <2>2. Taken' /\ FailsForCause'
    BY <1>1, <2>1 DEF Taken, ValuesOf, Outgoing, FailsForCause, Complete
  <2>3. state' = "receiving" => InOrder' /\ Pieces'
    BY <1>4, <2>1, ArriveInOrder
  <2> QED
    BY <1>1, <2>2, <2>3 DEF SInv
<1>5. CASE Read
  BY <1>1, <1>5, ReadInOrder DEF SInv
<1>6. CASE RecvExact
  BY <1>1, <1>6, RecvInOrder DEF SInv
<1>7. CASE EndOfStream
  BY <1>7, EndFound
<1>8. CASE UNCHANGED vars
  BY <1>1, <1>8 DEF SInv, Taken, ValuesOf, Outgoing, FailsForCause, Complete, InOrder, Pieces,
                    Out, Ahead, NextToWrite, vars
<1> QED
  BY <1>2, <1>3, <1>4, <1>5, <1>6, <1>7, <1>8 DEF Next

(* The invariant of the connections whose readers get whole fields.         *)
LEMMA SInvAlways == ASSUME Sound PROVE Spec => []SInv
<1>1. SInv /\ [Next]_vars => SInv'
  BY SInvPreserved
<1> QED
  BY <1>1, SInvInitially, PTL DEF Spec

(* Where writes arrive whole or the receiver reads on, the messages it gets *)
(* are the first of those sent, field by field.                             *)
THEOREM MessagesArrive == ASSUME Sound PROVE Spec => []ReceivedAsSent
<1>1. SInv => ReceivedAsSent
  <2> SUFFICES ASSUME SInv PROVE ReceivedAsSent
    OBVIOUS
  <2>1. TInv /\ Taken
    BY DEF SInv
  <2>2. PICK sent : sent = [n \in DOMAIN messages |-> ValuesOf(n)]
    OBVIOUS
  <2>3. PICK r, c \in Nat : r = Len(received) /\ c = Len(messages)
    BY <2>1, LenProperties DEF TInv, TypeOK, SenderInv
  <2>4. DOMAIN messages = 1 .. c /\ DOMAIN received = 1 .. r /\ r <= c
    BY <2>1, <2>3, LenProperties DEF TInv, TypeOK, SenderInv, Taken
  <2>5. Len(sent) = c
    BY <2>2, <2>3, <2>4
  <2>6. \A i \in 1 .. r : sent[i] = received[i] /\ received[i] \in Seq(Values)
    <3>1. \A i \in 1 .. r : received[i] = ValuesOf(i)
      BY <2>1, <2>4 DEF Taken
    <3>2. \A i \in 1 .. r : sent[i] = ValuesOf(i)
      BY <2>2, <2>3, <2>4
    <3>3. \A i \in 1 .. r : received[i] \in Seq(Values)
      BY <2>1, <2>3, ElementOfSeq DEF TInv, TypeOK
    <3> QED
      BY <3>1, <3>2, <3>3
  <2>7. SubSeq(received, 1, r) = SubSeq(sent, 1, r)
    <3>1. /\ SubSeq(received, 1, r) \in Seq(Seq(Values)) /\ Len(SubSeq(received, 1, r)) = r
          /\ \A i \in 1 .. r : SubSeq(received, 1, r)[i] = received[i]
      BY <2>6, SubSeqProperties
    <3>2. /\ SubSeq(sent, 1, r) \in Seq(Seq(Values)) /\ Len(SubSeq(sent, 1, r)) = r
          /\ \A i \in 1 .. r : SubSeq(sent, 1, r)[i] = sent[i]
      BY <2>6, SubSeqProperties
    <3> QED
      BY <2>6, <3>1, <3>2, SeqEqual
  <2> QED
    BY <2>2, <2>3, <2>4, <2>5, <2>7 DEF ReceivedAsSent, IsPrefix
<1> QED
  BY <1>1, SInvAlways, PTL

(* There, a receiver gives up only on a Python text that leaves no room for *)
(* the NUL, or when it has every message that its sender completed.         *)
THEOREM GivesUpForCause == ASSUME Sound PROVE Spec => []FailsForCause
<1>1. SInv => FailsForCause
  BY DEF SInv
<1> QED
  BY <1>1, SInvAlways, PTL
=============================================================================
