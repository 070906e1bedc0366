---------------------------- MODULE ServerProofs ----------------------------
(***************************************************************************)
(* Proofs about Server, for any connections, descriptors, commands and     *)
(* bounds: the way of a request from its client to the processing thread,  *)
(* and the theorems that follow from its invariant and that of             *)
(* ServerRegistryProofs.                                                   *)
(***************************************************************************)
EXTENDS ServerRegistryProofs

(* What of a connection has been sent, read and queued. *)
Inboxes ==
  \A c \in Conns :
    /\ Enqueued(c) <= Len(sent[c]) /\ Len(sent[c]) <= MaxRequests
    /\ pc[c] \in {"none", "unborn"} => Len(inbox[c]) = Len(sent[c])

IInv == OwnerInv /\ Inboxes /\ NothingLost /\ RequestCountExact

-----------------------------------------------------------------------------
(* The texts of some messages, and of the messages with one more or less.   *)
LEMMA TextsOfSeq ==
  ASSUME NEW S, \A m \in S : m.text \in Texts, NEW s \in Seq(S)
  PROVE  /\ TextsOf(s) \in Seq(Texts) /\ Len(TextsOf(s)) = Len(s)
         /\ \A i \in 1 .. Len(s) : TextsOf(s)[i] = s[i].text
<1>1. Len(s) \in Nat /\ DOMAIN s = 1 .. Len(s) /\ \A i \in 1 .. Len(s) : s[i] \in S
  BY LenProperties, ElementOfSeq
<1>2. TextsOf(s) \in [1 .. Len(s) -> Texts]
  BY <1>1 DEF TextsOf
<1> QED
  BY <1>1, <1>2, FunctionIsSeq DEF TextsOf

(* The text of one message more comes last.                                 *)
LEMMA TextsOfAppend ==
  ASSUME NEW S, \A m \in S : m.text \in Texts, NEW s \in Seq(S), NEW m \in S
  PROVE  TextsOf(Append(s, m)) = Append(TextsOf(s), m.text)
<1> DEFINE t == Append(s, m)
           u == TextsOf(t)
           v == Append(TextsOf(s), m.text)
<1>1. /\ t \in Seq(S) /\ Len(t) = Len(s) + 1 /\ Len(s) \in Nat
      /\ \A i \in 1 .. Len(s) : t[i] = s[i]
      /\ t[Len(s) + 1] = m
  BY AppendProperties, LenProperties
<1> HIDE DEF t
<1>2. u \in Seq(Texts) /\ Len(u) = Len(s) + 1 /\ \A i \in 1 .. Len(s) + 1 : u[i] = t[i].text
  BY <1>1, TextsOfSeq
<1>3. TextsOf(s) \in Seq(Texts) /\ Len(TextsOf(s)) = Len(s)
      /\ \A i \in 1 .. Len(s) : TextsOf(s)[i] = s[i].text
  BY TextsOfSeq
<1>4. /\ v \in Seq(Texts) /\ Len(v) = Len(s) + 1
      /\ \A i \in 1 .. Len(s) : v[i] = s[i].text
      /\ v[Len(s) + 1] = m.text
  BY <1>1, <1>3, AppendProperties
<1> HIDE DEF u, v
<1>5. ASSUME NEW i \in 1 .. Len(u)
      PROVE  u[i] = v[i]
  <2>1. CASE i \in 1 .. Len(s)
    BY <1>1, <1>2, <1>4, <2>1
  <2>2. CASE i = Len(s) + 1
    BY <1>1, <1>2, <1>4, <2>2
  <2> QED
    BY <1>1, <1>2, <2>1, <2>2
<1>6. u = v
  BY <1>2, <1>4, <1>5, SeqEqual
<1> QED
  BY <1>6 DEF u, v, t

(* The text of the first message comes first.                               *)
LEMMA TextsOfTail ==
  ASSUME NEW S, \A m \in S : m.text \in Texts, NEW s \in Seq(S), s # <<>>
  PROVE  /\ TextsOf(Tail(s)) \in Seq(Texts) /\ Head(s) \in S /\ Head(s).text \in Texts
         /\ TextsOf(s) = <<Head(s).text>> \o TextsOf(Tail(s))
<1> DEFINE t == Tail(s)
           u == TextsOf(s)
           h == <<Head(s).text>>
           v == h \o TextsOf(t)
<1>1. /\ t \in Seq(S) /\ Len(t) = Len(s) - 1 /\ Len(s) \in Nat \ {0}
      /\ \A i \in 1 .. Len(t) : t[i] = s[i + 1]
      /\ Head(s) \in S /\ Head(s) = s[1]
  BY HeadTailProperties, EmptySeq
<1> HIDE DEF t
<1>2. u \in Seq(Texts) /\ Len(u) = Len(s) /\ \A i \in 1 .. Len(s) : u[i] = s[i].text
  BY <1>1, TextsOfSeq
<1>3. TextsOf(t) \in Seq(Texts) /\ Len(TextsOf(t)) = Len(s) - 1
      /\ \A i \in 1 .. Len(s) - 1 : TextsOf(t)[i] = t[i].text
  BY <1>1, TextsOfSeq
<1>4. h \in Seq(Texts) /\ Len(h) = 1 /\ h[1] = s[1].text
  BY <1>1
<1> HIDE DEF h
<1>5. /\ v \in Seq(Texts) /\ Len(v) = Len(s)
      /\ \A i \in 1 .. Len(s) : v[i] = IF i <= 1 THEN h[i] ELSE TextsOf(t)[i - 1]
  <2> DEFINE w == TextsOf(t)
  <2>1. w \in Seq(Texts) /\ Len(w) = Len(s) - 1 /\ v = h \o w
    BY <1>3
  <2> HIDE DEF v, w
  <2>2. /\ h \o w \in Seq(Texts) /\ Len(h \o w) = Len(h) + Len(w)
        /\ \A i \in 1 .. Len(h) + Len(w) : (h \o w)[i] = IF i <= Len(h) THEN h[i] ELSE w[i - Len(h)]
    BY <1>4, <2>1, ConcatProperties
  <2>3. Len(h) = 1 /\ Len(h) + Len(w) = Len(s)
    BY <1>1, <1>4, <2>1
  <2>4. \A i \in 1 .. Len(s) : v[i] = IF i <= 1 THEN h[i] ELSE w[i - 1]
    BY <2>1, <2>2, <2>3
  <2> QED
    BY <2>1, <2>2, <2>3, <2>4 DEF w
<1> HIDE DEF u, v
<1>6. ASSUME NEW i \in 1 .. Len(u)
      PROVE  u[i] = v[i]
  <2>1. CASE i = 1
    BY <1>1, <1>2, <1>4, <1>5, <2>1
  <2>2. CASE i # 1
    <3>1. i - 1 \in 1 .. Len(s) - 1 /\ i - 1 + 1 = i /\ i \in 1 .. Len(s)
      BY <1>1, <1>2, <2>2
    <3>2. v[i] = TextsOf(t)[i - 1]
      BY <1>5, <2>2, <3>1
    <3>3. TextsOf(t)[i - 1] = s[i].text
      BY <1>1, <1>3, <3>1
    <3> QED
      BY <1>2, <3>1, <3>2, <3>3
  <2> QED
    BY <2>1, <2>2
<1>7. u = v
  BY <1>2, <1>5, <1>6, SeqEqual
<1> QED
  BY <1>1, <1>3, <1>7 DEF u, v, t, h

-----------------------------------------------------------------------------
(* The types of the messages and requests whose texts the lemmas take.      *)
LEMMA MessageTexts ==
  /\ \A m \in ProcessingRequests : m.text \in Texts
  /\ \A m \in [text : Texts, type : Types] : m.text \in Texts
BY DEF ProcessingRequests

(* The text in the processing thread's hands that is not in the collection. *)
InHand == IF worker_pc = "process" THEN <<request.text>> ELSE <<>>

(* Entered is made of three sequences of texts.                             *)
LEMMA EnteredParts ==
  ASSUME OwnerInv
  PROVE  /\ documents \in Seq(Texts) /\ InHand \in Seq(Texts) /\ TextsOf(request_queue) \in Seq(Texts)
         /\ documents \o InHand \in Seq(Texts)
         /\ Entered = (documents \o InHand) \o TextsOf(request_queue)
         /\ Entered \in Seq(Texts)
<1>1. documents \in Seq(Texts) /\ request_queue \in Seq(ProcessingRequests)
  BY DEF OwnerInv, TypeOK
<1>2. TextsOf(request_queue) \in Seq(Texts)
  BY <1>1, MessageTexts, TextsOfSeq
<1>3. InHand \in Seq(Texts)
  <2>1. worker_pc = "process" => request.text \in Texts
    BY MessageTexts DEF OwnerInv, Kinds
  <2> QED
    BY <2>1 DEF InHand
<1>4. documents \o InHand \in Seq(Texts)
  BY <1>1, <1>3, ConcatProperties
<1>5. Entered = (documents \o InHand) \o TextsOf(request_queue)
  BY DEF Entered, InHand
<1> QED
  BY <1>1, <1>2, <1>3, <1>4, <1>5, ConcatProperties

(* Enqueuing is the only step that makes a text enter, behind the others;   *)
(* the processing thread moves texts on, and none is lost on the way.       *)
LEMMA EnteredChanges ==
  ASSUME OwnerInv, OwnerInv', [Next]_vars
  PROVE  /\ \A c \in Conns : HandlerEnqueue(c) => Entered' = Append(Entered, proc_req[c].text)
         /\ (~ \E c \in Conns : HandlerEnqueue(c)) => Entered' = Entered
<1> USE DEF worker
<1>1. Writers /\ TypeOK
  BY OnlyWriters DEF OwnerInv
<1> DEFINE D == documents
           H == InHand
           Q == TextsOf(request_queue)
<1>2. D \in Seq(Texts) /\ H \in Seq(Texts) /\ Q \in Seq(Texts) /\ D \o H \in Seq(Texts)
      /\ Entered = (D \o H) \o Q
  BY EnteredParts
<1>3. Entered' = (D' \o H') \o Q'
  BY DEF Entered, InHand
<1>4. ASSUME NEW c \in Conns, HandlerEnqueue(c)
      PROVE  Entered' = Append(Entered, proc_req[c].text)
  <2> DEFINE t == proc_req[c].text
  <2>1. proc_req[c] \in ProcessingRequests
    BY <1>4 DEF HandlerEnqueue, HandlerAt, OwnerInv, Kinds
  <2>2. request_queue' = Append(request_queue, proc_req[c]) /\ D' = D /\ H' = H
    BY <1>4 DEF HandlerEnqueue, Queue!Put, InHand
  <2>3. Q' = Append(Q, t)
    <3>1. request_queue \in Seq(ProcessingRequests)
      BY <1>1 DEF TypeOK
    <3>2. TextsOf(Append(request_queue, proc_req[c])) = Append(TextsOf(request_queue), proc_req[c].text)
      BY <2>1, <3>1, MessageTexts, TextsOfAppend
    <3>3. Q' = TextsOf(request_queue')
      BY DEF TextsOf
    <3> QED
      BY <2>2, <3>2, <3>3
  <2>4. t \in Texts
    BY <2>1, MessageTexts
  <2> HIDE DEF D, H, Q, t
  <2>5. Append(Q, t) = Q \o <<t>> /\ <<t>> \in Seq(Texts)
    BY <1>2, <2>4, AppendIsConcat
  <2>6. (D \o H) \o (Q \o <<t>>) = ((D \o H) \o Q) \o <<t>>
    BY <1>2, <2>5, ConcatAssociative
  <2>7. ((D \o H) \o Q) \in Seq(Texts)
    BY <1>2, ConcatProperties
  <2>8. ((D \o H) \o Q) \o <<t>> = Append((D \o H) \o Q, t)
    BY <2>4, <2>7, AppendIsConcat
  <2>9. Entered' = Append(Entered, t)
    BY <1>2, <1>3, <2>2, <2>3, <2>5, <2>6, <2>8
  <2> QED
    BY <2>9 DEF t
<1>5. ASSUME Dequeue
      PROVE  Entered' = Entered
  <2> DEFINE t == Head(request_queue).text
             R == TextsOf(Tail(request_queue))
  <2>1. /\ worker_pc = "dequeue" /\ worker_pc' = "process" /\ documents' = documents
        /\ request_queue # <<>> /\ request' = Head(request_queue) /\ request_queue' = Tail(request_queue)
    BY <1>5 DEF Dequeue, WorkerAt, Queue!Get
  <2>2. R \in Seq(Texts) /\ t \in Texts /\ Q = <<t>> \o R
    <3>1. request_queue \in Seq(ProcessingRequests)
      BY <1>1 DEF TypeOK
    <3> QED
      BY <2>1, <3>1, MessageTexts, TextsOfTail
  <2>3. D' = D /\ H = <<>> /\ H' = <<t>> /\ Q' = R
    BY <2>1 DEF InHand, TextsOf
  <2> HIDE DEF D, H, Q, t, R
  <2>4. D \o H = D
    BY <1>2, <2>3, ConcatEmptySeq
  <2>5. (D \o <<t>>) \o R = D \o (<<t>> \o R)
    BY <1>2, <2>2, ConcatAssociative
  <2> QED
    BY <1>2, <1>3, <2>2, <2>3, <2>4, <2>5
<1>6. ASSUME Process
      PROVE  Entered' = Entered
  <2> DEFINE t == request.text
  <2>1. /\ worker_pc = "process" /\ worker_pc' = "send" /\ documents' = Append(documents, request.text)
        /\ request_queue' = request_queue
    BY <1>6 DEF Process, WorkerAt
  <2>2. t \in Texts
    BY <2>1, MessageTexts DEF OwnerInv, Kinds
  <2>3. D' = Append(D, t) /\ H = <<t>> /\ H' = <<>> /\ Q' = Q
    BY <2>1 DEF InHand, TextsOf
  <2> HIDE DEF D, H, Q, t
  <2>4. Append(D, t) = D \o <<t>>
    BY <1>2, <2>2, AppendIsConcat
  <2>5. (D \o H) \o <<>> = D \o H
    BY <1>2, ConcatEmptySeq
  <2> QED
    BY <1>2, <1>3, <2>3, <2>4, <2>5
<1>7. ASSUME UNCHANGED request_queue /\ (SendPart \/ UNCHANGED worker)
      PROVE  Entered' = Entered
  <2>1. D' = D /\ (worker_pc' = "process" <=> worker_pc = "process") /\ request' = request
    BY <1>7 DEF SendPart, WorkerAt, NextPart, FinishSend
  <2>2. H' = H
    BY <2>1 DEF InHand
  <2>3. Q' = Q
    BY <1>7 DEF TextsOf
  <2> QED
    BY <1>2, <1>3, <2>1, <2>2, <2>3
<1>8. ASSUME ~ \E c \in Conns : HandlerEnqueue(c)
      PROVE  Entered' = Entered
  <2>1. SendPart => UNCHANGED request_queue
    BY DEF SendPart
  <2> QED
    BY <1>1, <1>5, <1>6, <1>7, <1>8, <2>1 DEF Writers, Worker
<1> QED
  BY <1>4, <1>8

(* The places at which the texts of a connection have entered are finitely  *)
(* many numbers.                                                            *)
LEMMA EnteredOfFinite ==
  ASSUME OwnerInv, NEW c
  PROVE  /\ Len(Entered) \in Nat /\ DOMAIN Entered = 1 .. Len(Entered)
         /\ EnteredOf(c) \subseteq 1 .. Len(Entered)
         /\ IsFiniteSet(EnteredOf(c)) /\ Enqueued(c) \in Nat
<1>1. Len(Entered) \in Nat /\ DOMAIN Entered = 1 .. Len(Entered)
  BY EnteredParts, LenProperties
<1>2. EnteredOf(c) \subseteq 1 .. Len(Entered)
  BY <1>1 DEF EnteredOf
<1>3. IsFiniteSet(EnteredOf(c))
  <2>1. IsFiniteSet(1 .. Len(Entered))
    BY <1>1, FS_Interval
  <2> QED
    BY <1>2, <2>1, FS_Subset
<1> QED
  BY <1>1, <1>2, <1>3, FS_CardinalityType DEF Enqueued

(* A step in which no text enters leaves the places alone. *)
LEMMA SameEntered ==
  ASSUME Entered' = Entered
  PROVE  \A c : EnteredOf(c)' = EnteredOf(c) /\ Enqueued(c)' = Enqueued(c)
<1>1. ASSUME NEW c
      PROVE  EnteredOf(c)' = EnteredOf(c) /\ Enqueued(c)' = Enqueued(c)
  <2>1. EnteredOf(c)' = EnteredOf(c)
    BY DEF EnteredOf
  <2> QED
    BY <2>1 DEF Enqueued
<1> QED
  BY <1>1

(* A text that enters is one more of its connection's, and the last. *)
LEMMA OneMoreEntered ==
  ASSUME OwnerInv, OwnerInv', [Next]_vars,
         NEW c \in Conns, HandlerEnqueue(c), proc_req[c].text[1] = c
  PROVE  /\ EnteredOf(c)' = EnteredOf(c) \union {Len(Entered) + 1}
         /\ Enqueued(c)' = Enqueued(c) + 1
         /\ Entered'[Len(Entered) + 1] = proc_req[c].text
         /\ \A i \in 1 .. Len(Entered) : Entered'[i] = Entered[i]
         /\ \A d \in Conns \ {c} : EnteredOf(d)' = EnteredOf(d) /\ Enqueued(d)' = Enqueued(d)
<1> DEFINE n == Len(Entered)
           t == proc_req[c].text
<1>1. Entered' = Append(Entered, t) /\ t \in Texts
  BY EnteredChanges, MessageTexts DEF HandlerEnqueue, HandlerAt, OwnerInv, Kinds
<1>2. n \in Nat /\ DOMAIN Entered = 1 .. n /\ Entered \in Seq(Texts)
  BY EnteredParts, EnteredOfFinite
<1>3. /\ Entered' \in Seq(Texts) /\ Len(Entered') = n + 1
      /\ \A i \in 1 .. n : Entered'[i] = Entered[i]
      /\ Entered'[n + 1] = t
  BY <1>1, <1>2, AppendProperties
<1>4. DOMAIN Entered' = 1 .. n + 1
  BY <1>3, LenProperties
<1> HIDE DEF n, t
<1>5. \A i \in DOMAIN Entered' : i \in 1 .. n \/ i = n + 1
  BY <1>2, <1>4
<1>6. t[1] = c
  BY DEF t
<1>7. ASSUME NEW d \in Conns
      PROVE  EnteredOf(d)' = IF d = c THEN EnteredOf(d) \union {n + 1} ELSE EnteredOf(d)
  <2>1. EnteredOf(d)' = {i \in 1 .. n + 1 : Entered'[i][1] = d}
    BY <1>4 DEF EnteredOf
  <2>2. EnteredOf(d) = {i \in 1 .. n : Entered[i][1] = d}
    BY <1>2 DEF EnteredOf
  <2>3. \A i \in 1 .. n : i \in EnteredOf(d)' <=> i \in EnteredOf(d)
    BY <1>2, <1>3, <2>1, <2>2
  <2>4. n + 1 \in EnteredOf(d)' <=> d = c
    BY <1>2, <1>3, <1>6, <2>1
  <2>5. EnteredOf(d)' \subseteq 1 .. n + 1 /\ EnteredOf(d) \subseteq 1 .. n
        /\ \A i \in 1 .. n + 1 : i \in 1 .. n \/ i = n + 1
    BY <1>2, <2>1, <2>2
  <2> HIDE DEF EnteredOf
  <2>6. CASE d = c
    BY <2>3, <2>4, <2>5, <2>6
  <2>7. CASE d # c
    BY <2>3, <2>4, <2>5, <2>7
  <2> QED
    BY <2>6, <2>7
<1>8. n + 1 \notin EnteredOf(c) /\ IsFiniteSet(EnteredOf(c)) /\ EnteredOf(c)' = EnteredOf(c) \union {n + 1}
  <2>1. EnteredOf(c) \subseteq 1 .. n /\ n + 1 \notin 1 .. n
    BY <1>2, EnteredOfFinite DEF n
  <2> QED
    BY <1>7, <2>1, EnteredOfFinite
<1>9. Enqueued(c)' = Enqueued(c) + 1
  BY <1>8, FS_AddElement DEF Enqueued
<1>10. \A d \in Conns \ {c} : EnteredOf(d)' = EnteredOf(d) /\ Enqueued(d)' = Enqueued(d)
  BY <1>7 DEF Enqueued
<1> QED
  BY <1>3, <1>8, <1>9, <1>10 DEF n, t

-----------------------------------------------------------------------------
(* The requests of connection c after the first k, of n it has sent. *)
Pending(c, k, n) == [i \in 1 .. n - k |-> <<c, k + i>>]

(* What is pending is a sequence of texts.                                  *)
LEMMA PendingSeq ==
  ASSUME NEW c \in Conns, NEW k \in Nat, NEW n \in 0 .. MaxRequests, k <= n
  PROVE  /\ Pending(c, k, n) \in Seq(Texts) /\ Len(Pending(c, k, n)) = n - k
         /\ \A i \in 1 .. n - k : Pending(c, k, n)[i] = <<c, k + i>>
<1>1. MaxRequests \in Nat /\ n - k \in Nat
  BY ServerAssumption
<1>2. \A i \in 1 .. n - k : <<c, k + i>> \in Texts
  BY <1>1 DEF Texts, Endpoints
<1>3. Pending(c, k, n) \in [1 .. n - k -> Texts]
  BY <1>2 DEF Pending
<1> QED
  BY <1>1, <1>3, FunctionIsSeq DEF Pending

(* One request more is sent. *)
LEMMA PendingAppend ==
  ASSUME NEW c \in Conns, NEW k \in Nat, NEW n \in 0 .. MaxRequests, k <= n, n < MaxRequests
  PROVE  Append(Pending(c, k, n), <<c, n + 1>>) = Pending(c, k, n + 1)
<1> DEFINE p == Pending(c, k, n)
           q == Pending(c, k, n + 1)
           t == <<c, n + 1>>
<1> DEFINE m == n + 1
<1>1. /\ MaxRequests \in Nat /\ m \in 0 .. MaxRequests /\ k <= m /\ n - k \in Nat
      /\ m - k = n - k + 1 /\ k + (n - k + 1) = m /\ m \in Nat
  BY ServerAssumption
<1>2. p \in Seq(Texts) /\ Len(p) = n - k /\ \A i \in 1 .. n - k : p[i] = <<c, k + i>>
  BY PendingSeq
<1>3. t = <<c, m>> /\ q = Pending(c, k, m)
  OBVIOUS
<1> HIDE DEF m, p, q, t
<1>4. q \in Seq(Texts) /\ Len(q) = m - k /\ \A i \in 1 .. m - k : q[i] = <<c, k + i>>
  BY <1>1, <1>3, PendingSeq
<1>5. t \in Texts
  BY <1>1, <1>3 DEF Texts, Endpoints, m
<1>6. /\ Append(p, t) \in Seq(Texts) /\ Len(Append(p, t)) = n - k + 1
      /\ \A i \in 1 .. n - k : Append(p, t)[i] = p[i]
      /\ Append(p, t)[n - k + 1] = t
  BY <1>2, <1>5, AppendProperties
<1>7. ASSUME NEW i \in 1 .. n - k + 1
      PROVE  q[i] = Append(p, t)[i]
  <2>1. CASE i \in 1 .. n - k
    BY <1>1, <1>2, <1>4, <1>6, <2>1
  <2>2. CASE i = n - k + 1
    BY <1>1, <1>3, <1>4, <1>6, <2>2
  <2>3. i \in 1 .. n - k \/ i = n - k + 1
    BY <1>1
  <2> QED
    BY <2>1, <2>2, <2>3
<1>8. q = Append(p, t)
  BY <1>1, <1>4, <1>6, <1>7, SeqEqual
<1> QED
  BY <1>8 DEF p, q, t, m

(* The first of them is taken. *)
LEMMA PendingTake ==
  ASSUME NEW c \in Conns, NEW k \in Nat, NEW n \in 0 .. MaxRequests, k <= n,
         NEW t \in Texts, NEW s \in Seq(Texts), Pending(c, k, n) = <<t>> \o s
  PROVE  k < n /\ t = <<c, k + 1>> /\ s = Pending(c, k + 1, n)
<1> DEFINE p == Pending(c, k, n)
           h == <<t>>
<1>1. MaxRequests \in Nat /\ n - k \in Nat
  BY ServerAssumption
<1>2. p \in Seq(Texts) /\ Len(p) = n - k /\ \A i \in 1 .. n - k : p[i] = <<c, k + i>>
  BY PendingSeq
<1>3. h \in Seq(Texts) /\ Len(h) = 1 /\ h[1] = t /\ Len(s) \in Nat
  BY LenProperties
<1>4. p = h \o s
  OBVIOUS
<1> HIDE DEF p, h
<1>5. /\ Len(p) = Len(h) + Len(s)
      /\ \A i \in 1 .. Len(h) + Len(s) : p[i] = IF i <= Len(h) THEN h[i] ELSE s[i - Len(h)]
  BY <1>3, <1>4, ConcatProperties
<1>6. n - k = 1 + Len(s) /\ k < n /\ k + 1 \in Nat /\ k + 1 <= n /\ n - (k + 1) = Len(s)
  BY <1>1, <1>2, <1>3, <1>5
<1>7. t = <<c, k + 1>>
  <2>1. 1 \in 1 .. n - k /\ 1 \in 1 .. Len(h) + Len(s) /\ 1 <= Len(h)
    BY <1>3, <1>6
  <2> QED
    BY <1>2, <1>3, <1>5, <2>1
<1> DEFINE q == Pending(c, k + 1, n)
<1>8. q \in Seq(Texts) /\ Len(q) = Len(s) /\ \A i \in 1 .. Len(s) : q[i] = <<c, k + 1 + i>>
  BY <1>6, PendingSeq
<1> HIDE DEF q
<1>9. ASSUME NEW i \in 1 .. Len(s)
      PROVE  s[i] = q[i]
  <2>1. i + 1 \in 1 .. Len(h) + Len(s) /\ i + 1 \in 1 .. n - k /\ ~ (i + 1 <= Len(h))
        /\ i + 1 - Len(h) = i /\ k + (i + 1) = k + 1 + i
    BY <1>3, <1>6
  <2>2. p[i + 1] = s[i]
    BY <1>5, <2>1
  <2>3. p[i + 1] = <<c, k + 1 + i>>
    BY <1>2, <2>1
  <2> QED
    BY <1>8, <2>2, <2>3
<1>10. s = q
  BY <1>8, <1>9, SeqEqual
<1> QED
  BY <1>6, <1>7, <1>10 DEF q

-----------------------------------------------------------------------------
(* The text that a handler has in hand, if any. *)
AtHandler(c) == IF pc[c] = "enqueue" THEN <<proc_req[c].text>> ELSE <<>>

(* ToEnter is made of two sequences of texts.                               *)
LEMMA ToEnterParts ==
  ASSUME OwnerInv, NEW c \in Conns
  PROVE  /\ AtHandler(c) \in Seq(Texts) /\ TextsOf(inbox[c]) \in Seq(Texts)
         /\ ToEnter(c) = AtHandler(c) \o TextsOf(inbox[c]) /\ ToEnter(c) \in Seq(Texts)
         /\ Len(inbox[c]) \in Nat
         /\ Len(ToEnter(c)) = (IF pc[c] = "enqueue" THEN 1 ELSE 0) + Len(inbox[c])
<1>1. inbox[c] \in Seq([text : Texts, type : Types])
  BY DEF OwnerInv, Kinds
<1>2. TextsOf(inbox[c]) \in Seq(Texts) /\ Len(TextsOf(inbox[c])) = Len(inbox[c]) /\ Len(inbox[c]) \in Nat
  BY <1>1, MessageTexts, TextsOfSeq, LenProperties
<1>3. AtHandler(c) \in Seq(Texts) /\ Len(AtHandler(c)) = IF pc[c] = "enqueue" THEN 1 ELSE 0
  <2>1. pc[c] = "enqueue" => proc_req[c].text \in Texts
    BY MessageTexts DEF OwnerInv, Kinds
  <2> QED
    BY <2>1 DEF AtHandler
<1>4. ToEnter(c) = AtHandler(c) \o TextsOf(inbox[c])
  BY DEF ToEnter, AtHandler
<1>5. ToEnter(c) \in Seq(Texts) /\ Len(ToEnter(c)) = Len(AtHandler(c)) + Len(TextsOf(inbox[c]))
  BY <1>2, <1>3, <1>4, ConcatProperties
<1> QED
  BY <1>2, <1>3, <1>4, <1>5

(* What a step does to the texts of c on their way to the queue: its client *)
(* adds one behind them, its handler takes the first, nobody else touches   *)
(* them.                                                                    *)
LEMMA ToEnterChanges ==
  ASSUME OwnerInv, OwnerInv', [Next]_vars, NEW c \in Conns
  PROVE  \/ /\ \E type \in Types : ClientSend(c, type)
            /\ ~ \E d \in Conns : HandlerEnqueue(d)
            /\ ToEnter(c)' = Append(ToEnter(c), <<c, Len(sent[c]) + 1>>)
            /\ Len(sent'[c]) = Len(sent[c]) + 1 /\ Len(sent[c]) \in Nat
            /\ Len(inbox'[c]) = Len(inbox[c]) + 1 /\ pc' = pc
         \/ /\ HandlerEnqueue(c)
            /\ sent'[c] = sent[c] /\ ToEnter(c)' \in Seq(Texts) /\ proc_req[c].text \in Texts
            /\ ToEnter(c) = <<proc_req[c].text>> \o ToEnter(c)'
         \/ ~ HandlerEnqueue(c) /\ ToEnter(c)' = ToEnter(c) /\ sent'[c] = sent[c]
<1> USE DEF world, handlers
<1>1. Writers /\ TypeOK /\ c \in Endpoints /\ c \notin Admins
  BY OnlyWriters, ServerAssumption DEF OwnerInv, Endpoints
<1>2. inbox[c] \in Seq([text : Texts, type : Types]) /\ AtHandler(c) \in Seq(Texts)
      /\ TextsOf(inbox[c]) \in Seq(Texts) /\ ToEnter(c) = AtHandler(c) \o TextsOf(inbox[c])
  BY ToEnterParts DEF OwnerInv, Kinds
<1>3. ToEnter(c)' = AtHandler(c)' \o TextsOf(inbox'[c])
  BY DEF ToEnter, AtHandler
<1>4. ASSUME NEW type \in Types, ClientSend(c, type)
      PROVE  /\ ToEnter(c)' = Append(ToEnter(c), <<c, Len(sent[c]) + 1>>)
             /\ Len(sent'[c]) = Len(sent[c]) + 1 /\ Len(sent[c]) \in Nat
             /\ Len(inbox'[c]) = Len(inbox[c]) + 1 /\ pc' = pc
             /\ ~ \E d \in Conns : HandlerEnqueue(d)
  <2> DEFINE m == [text |-> <<c, Len(sent'[c])>>, type |-> type]
             t == <<c, Len(sent[c]) + 1>>
  <2>1. /\ sent' = [sent EXCEPT ![c] = Append(@, type)] /\ inbox' = [inbox EXCEPT ![c] = Append(@, m)]
        /\ pc' = pc /\ proc_req' = proc_req /\ Len(sent[c]) < MaxRequests
    BY <1>4 DEF ClientSend, Send
  <2>2. Len(Append(sent[c], type)) = Len(sent[c]) + 1 /\ Len(sent[c]) \in Nat
    <3>1. sent[c] \in Seq(Types \union Commands)
      BY <1>1 DEF TypeOK
    <3> QED
      BY <3>1, AppendProperties, LenProperties
  <2>3. Len(sent'[c]) = Len(sent[c]) + 1
    BY <1>1, <2>1, <2>2 DEF TypeOK
  <2>4. m \in [text : Texts, type : Types] /\ m.text = t /\ t \in Texts
    <3>1. Len(sent'[c]) \in 1 .. MaxRequests
      BY <2>1, <2>2, <2>3, ServerAssumption
    <3> QED
      BY <1>1, <2>3, <3>1 DEF Texts
  <2>5. inbox'[c] = Append(inbox[c], m)
    BY <1>1, <2>1 DEF TypeOK
  <2> HIDE DEF m, t
  <2>6. TextsOf(inbox'[c]) = Append(TextsOf(inbox[c]), t) /\ Len(inbox'[c]) = Len(inbox[c]) + 1
    <3>1. TextsOf(Append(inbox[c], m)) = Append(TextsOf(inbox[c]), m.text)
      BY <1>2, <2>4, MessageTexts, TextsOfAppend
    <3>2. Len(Append(inbox[c], m)) = Len(inbox[c]) + 1
      BY <1>2, <2>4, AppendProperties
    <3> QED
      BY <2>4, <2>5, <3>1, <3>2
  <2>7. AtHandler(c)' = AtHandler(c)
    BY <2>1 DEF AtHandler
  <2>8. AtHandler(c) \o Append(TextsOf(inbox[c]), t) = Append(ToEnter(c), t)
    <3>1. Append(TextsOf(inbox[c]), t) = TextsOf(inbox[c]) \o <<t>> /\ <<t>> \in Seq(Texts)
      BY <1>2, <2>4, AppendIsConcat
    <3>2. AtHandler(c) \o (TextsOf(inbox[c]) \o <<t>>) = ToEnter(c) \o <<t>>
      BY <1>2, <3>1, ConcatAssociative
    <3>3. ToEnter(c) \o <<t>> = Append(ToEnter(c), t)
      BY <2>4, ToEnterParts, AppendIsConcat
    <3> QED
      BY <3>1, <3>2, <3>3
  <2>9. ToEnter(c)' = Append(ToEnter(c), t)
    BY <1>3, <2>6, <2>7, <2>8
  <2>10. ~ \E d \in Conns : HandlerEnqueue(d)
    BY <1>1, <2>1 DEF HandlerEnqueue, HandlerAt, HandlerGoto, TypeOK
  <2> QED
    BY <2>1, <2>2, <2>3, <2>6, <2>9, <2>10 DEF t
<1>5. ASSUME HandlerEnqueue(c)
      PROVE  /\ sent'[c] = sent[c] /\ ToEnter(c)' \in Seq(Texts) /\ proc_req[c].text \in Texts
             /\ ToEnter(c) = <<proc_req[c].text>> \o ToEnter(c)'
  <2>1. /\ pc[c] = "enqueue" /\ pc' = [pc EXCEPT ![c] = "count"] /\ sent' = sent /\ inbox' = inbox
    BY <1>5 DEF HandlerEnqueue, HandlerAt, HandlerGoto
  <2>2. AtHandler(c) = <<proc_req[c].text>> /\ AtHandler(c)' = <<>>
    BY <1>1, <2>1 DEF AtHandler, TypeOK
  <2>3. ToEnter(c)' = TextsOf(inbox[c])
    BY <1>2, <1>3, <2>1, <2>2, ConcatEmptySeq
  <2>4. proc_req[c].text \in Texts
    BY <2>1, MessageTexts DEF OwnerInv, Kinds
  <2> QED
    BY <1>2, <2>1, <2>2, <2>3, <2>4
<1>6. ASSUME HandlerReceive(c)
      PROVE  ToEnter(c)' = ToEnter(c)
  <2> DEFINE t == Head(inbox[c]).text
  <2>1. /\ pc[c] = "read" /\ pc' = [pc EXCEPT ![c] = "enqueue"] /\ inbox[c] # <<>>
        /\ inbox' = [inbox EXCEPT ![c] = Tail(@)] /\ proc_req' = [proc_req EXCEPT ![c] =
             [client_fd |-> client_fd[c], text |-> t, type |-> Head(inbox[c]).type]]
    BY <1>6 DEF HandlerReceive, HandlerAt, HandlerGoto
  <2>2. /\ TextsOf(Tail(inbox[c])) \in Seq(Texts) /\ t \in Texts
        /\ TextsOf(inbox[c]) = <<t>> \o TextsOf(Tail(inbox[c]))
    BY <1>2, <2>1, MessageTexts, TextsOfTail
  <2>3. AtHandler(c) = <<>> /\ AtHandler(c)' = <<t>> /\ inbox'[c] = Tail(inbox[c])
    BY <1>1, <2>1 DEF AtHandler, TypeOK
  <2>4. ToEnter(c) = TextsOf(inbox[c])
    BY <1>2, <2>3, ConcatEmptySeq
  <2> QED
    BY <1>3, <2>2, <2>3, <2>4
<1>7. ASSUME inbox'[c] = inbox[c], pc'[c] = "enqueue" <=> pc[c] = "enqueue",
             pc[c] = "enqueue" => proc_req'[c] = proc_req[c]
      PROVE  ToEnter(c)' = ToEnter(c)
  <2>1. AtHandler(c)' = AtHandler(c)
    BY <1>7 DEF AtHandler
  <2> QED
    BY <1>2, <1>3, <1>7, <2>1
<1>8. CASE (~ \E type \in Types : ClientSend(c, type)) /\ ~ HandlerReceive(c) /\ ~ HandlerEnqueue(c)
  <2>1. ASSUME NEW x \in Endpoints, x # c, NEW type, Send(x, type)
        PROVE  sent'[c] = sent[c] /\ inbox'[c] = inbox[c]
    BY <1>1, <2>1 DEF Send, TypeOK
  <2>2. sent'[c] = sent[c]
    BY <1>1, <1>8, <2>1 DEF Writers, ClientSend, AdminSend, Endpoints
  <2>3. inbox'[c] = inbox[c]
    <3>1. CASE AdminReceive
      <4>1. fds[new_fd] \in Admins
        BY <3>1 DEF AdminReceive, MainAt, OwnerInv, MainThread, AdminLocations
      <4> QED
        BY <1>1, <3>1, <4>1 DEF AdminReceive, TypeOK
    <3>2. ASSUME NEW d \in Conns, HandlerReceive(d)
          PROVE  inbox'[c] = inbox[c]
      BY <1>1, <1>8, <3>2 DEF HandlerReceive, TypeOK
    <3> QED
      BY <1>1, <1>8, <2>1, <3>1, <3>2 DEF Writers, ClientSend, AdminSend, Endpoints
  <2>4. /\ pc'[c] = "enqueue" <=> pc[c] = "enqueue"
        /\ pc[c] = "enqueue" => proc_req'[c] = proc_req[c]
    <3>1. ASSUME NEW d \in Conns, Handler(d), d # c
          PROVE  pc'[c] = pc[c] /\ proc_req'[c] = proc_req[c]
      BY <1>1, <3>1
      DEF Handler, HandlerReceive, HandlerFail, HandlerEnqueue, HandlerCount, HandlerRemove,
          HandlerClose, HandlerGoto, TypeOK
    <3>2. CASE HandlerFail(c) \/ HandlerCount(c) \/ HandlerRemove(c) \/ HandlerClose(c)
      BY <1>1, <3>2
      DEF HandlerFail, HandlerCount, HandlerRemove, HandlerClose, HandlerAt, HandlerGoto, TypeOK
    <3>3. CASE SpawnHandler \/ SpawnFails
      <4> DEFINE x == fds[new_fd]
      <4>1. pc[x] = "none" /\ x \in Conns
        BY <3>3 DEF SpawnHandler, SpawnFails, MainAt, OwnerInv, MainThread
      <4>2. proc_req' = proc_req /\ (pc' = [pc EXCEPT ![x] = "read"] \/ pc' = [pc EXCEPT ![x] = "unborn"])
        BY <3>3 DEF SpawnHandler, SpawnFails, StartHandler, HandlerGoto
      <4> HIDE DEF x
      <4> QED
        BY <1>1, <4>1, <4>2 DEF TypeOK
    <3> QED
      BY <1>1, <1>8, <3>1, <3>2, <3>3 DEF Writers, Handler
  <2> QED
    BY <1>7, <1>8, <2>2, <2>3, <2>4
<1>9. HandlerReceive(c) => sent'[c] = sent[c] /\ ~ HandlerEnqueue(c)
  BY DEF HandlerReceive, HandlerEnqueue, HandlerAt
<1> QED
  BY <1>4, <1>5, <1>6, <1>8, <1>9

-----------------------------------------------------------------------------
(* The request that a handler enqueues is the first of its connection that  *)
(* has not entered yet.                                                     *)
LEMMA FirstToEnter ==
  ASSUME IInv, OwnerInv', [Next]_vars, NEW c \in Conns, HandlerEnqueue(c)
  PROVE  /\ Enqueued(c) < Len(sent[c]) /\ sent'[c] = sent[c]
         /\ proc_req[c].text = <<c, Enqueued(c) + 1>>
         /\ ToEnter(c)' = Pending(c, Enqueued(c) + 1, Len(sent[c]))
<1> DEFINE k == Enqueued(c)
           n == Len(sent[c])
           t == proc_req[c].text
           s == ToEnter(c)'
<1>1. OwnerInv /\ TypeOK /\ c \in Endpoints
  BY DEF IInv, OwnerInv, Endpoints
<1>2. sent'[c] = sent[c] /\ s \in Seq(Texts) /\ t \in Texts /\ ToEnter(c) = <<t>> \o s
  <2>1. ~ \E type \in Types : ClientSend(c, type)
    BY <1>1 DEF HandlerEnqueue, HandlerGoto, HandlerAt, ClientSend, Send, handlers, TypeOK
  <2> QED
    BY <1>1, <2>1, ToEnterChanges
<1>3. k \in Nat /\ n \in 0 .. MaxRequests /\ k <= n /\ ToEnter(c) = Pending(c, k, n)
  <2>1. n \in Nat
    BY <1>1, LenProperties DEF TypeOK
  <2> QED
    BY <1>1, <2>1, EnteredOfFinite, ServerAssumption DEF IInv, Inboxes, NothingLost, Pending
<1> HIDE DEF k, n, t, s
<1>4. k < n /\ t = <<c, k + 1>> /\ s = Pending(c, k + 1, n)
  BY <1>2, <1>3, PendingTake
<1> QED
  BY <1>2, <1>4 DEF k, n, t, s

(* One request more of a connection has entered when its handler has        *)
(* enqueued one, and at no other step.                                      *)
LEMMA EnqueuedChanges ==
  ASSUME IInv, OwnerInv', [Next]_vars, NEW c \in Conns
  PROVE  /\ HandlerEnqueue(c) => Enqueued(c)' = Enqueued(c) + 1
         /\ ~ HandlerEnqueue(c) =>
              /\ EnteredOf(c)' = EnteredOf(c) /\ Enqueued(c)' = Enqueued(c)
              /\ \A i \in EnteredOf(c) : Entered'[i] = Entered[i]
<1>1. OwnerInv
  BY DEF IInv
<1>2. ASSUME NEW d \in Conns, HandlerEnqueue(d)
      PROVE  /\ Enqueued(d)' = Enqueued(d) + 1
             /\ c # d => EnteredOf(c)' = EnteredOf(c) /\ Enqueued(c)' = Enqueued(c)
             /\ \A i \in EnteredOf(c) : Entered'[i] = Entered[i]
  <2>1. proc_req[d].text[1] = d
    BY <1>2, FirstToEnter
  <2>2. EnteredOf(c) \subseteq 1 .. Len(Entered)
    BY <1>1, EnteredOfFinite
  <2> QED
    BY <1>1, <1>2, <2>1, <2>2, OneMoreEntered
<1>3. CASE ~ \E d \in Conns : HandlerEnqueue(d)
  <2>1. Entered' = Entered
    BY <1>1, <1>3, EnteredChanges
  <2> QED
    BY <1>3, <2>1, SameEntered
<1> QED
  BY <1>2, <1>3

-----------------------------------------------------------------------------
(* No request is lost, repeated or overtaken by any step, and what a        *)
(* connection has sent stays ahead of what has entered.                     *)
LEMMA NextNothingLost ==
  IInv /\ OwnerInv' /\ [Next]_vars => NothingLost' /\ Inboxes'
<1> SUFFICES ASSUME IInv, OwnerInv', [Next]_vars, NEW c \in Conns
             PROVE  /\ \A i \in EnteredOf(c)' :
                         Entered'[i] = <<c, Cardinality({j \in EnteredOf(c)' : j <= i})>>
                    /\ ToEnter(c)' = Pending(c, Enqueued(c)', Len(sent'[c]))
                    /\ Enqueued(c)' <= Len(sent'[c]) /\ Len(sent'[c]) <= MaxRequests
                    /\ pc'[c] \in {"none", "unborn"} => Len(inbox'[c]) = Len(sent'[c])
  BY DEF NothingLost, Inboxes, Pending
<1>1. OwnerInv /\ TypeOK /\ Writers /\ c \in Endpoints
  BY OnlyWriters DEF IInv, OwnerInv, Endpoints
<1> DEFINE k == Enqueued(c)
           n == Len(sent[c])
<1>2. k \in Nat /\ n \in 0 .. MaxRequests /\ k <= n
  <2>1. n \in Nat
    BY <1>1, LenProperties DEF TypeOK
  <2> QED
    BY <1>1, <2>1, EnteredOfFinite, ServerAssumption DEF IInv, Inboxes
<1>3. ToEnter(c) = Pending(c, k, n)
  BY DEF IInv, NothingLost, Pending
<1>4. \A i \in EnteredOf(c) : Entered[i] = <<c, Cardinality({j \in EnteredOf(c) : j <= i})>>
  BY DEF IInv, NothingLost
<1>5. pc[c] \in {"none", "unborn"} => Len(inbox[c]) = n
  BY DEF IInv, Inboxes
<1> HIDE DEF k, n
(* Where the texts that have entered stay the same. *)
<1>6. ASSUME EnteredOf(c)' = EnteredOf(c), \A i \in EnteredOf(c) : Entered'[i] = Entered[i]
      PROVE  \A i \in EnteredOf(c)' :
               Entered'[i] = <<c, Cardinality({j \in EnteredOf(c)' : j <= i})>>
  BY <1>4, <1>6
(* A handler is spawned for a connection of which nothing has been read.    *)
<1>7. ASSUME ToEnter(c)' = ToEnter(c), sent'[c] = sent[c]
      PROVE  pc'[c] \in {"none", "unborn"} => Len(inbox'[c]) = Len(sent'[c])
  <2>1. SUFFICES ASSUME pc'[c] \in {"none", "unborn"}
                 PROVE  Len(inbox'[c]) = Len(sent'[c])
    OBVIOUS
  <2>2. pc[c] \in {"none", "unborn"}
    <3>1. ASSUME NEW d \in Conns, Handler(d)
          PROVE  pc[d] \notin {"none", "unborn"} /\ pc'[d] \notin {"none", "unborn"}
                 /\ (d # c => pc'[c] = pc[c])
      BY <1>1, <3>1
      DEF Handler, HandlerReceive, HandlerFail, HandlerEnqueue, HandlerCount, HandlerRemove,
          HandlerClose, HandlerAt, HandlerGoto, TypeOK
    <3>2. CASE SpawnHandler \/ SpawnFails
      <4> DEFINE x == fds[new_fd]
      <4>1. pc[x] = "none" /\ x \in Conns
        BY <1>1, <3>2 DEF SpawnHandler, SpawnFails, MainAt, OwnerInv, MainThread
      <4>2. pc' = [pc EXCEPT ![x] = "read"] \/ pc' = [pc EXCEPT ![x] = "unborn"]
        BY <3>2 DEF SpawnHandler, SpawnFails, StartHandler, HandlerGoto
      <4> HIDE DEF x
      <4> QED
        BY <1>1, <2>1, <4>1, <4>2 DEF TypeOK
    <3>3. CASE UNCHANGED handlers
      BY <2>1, <3>3 DEF handlers
    <3> QED
      BY <1>1, <2>1, <3>1, <3>2, <3>3 DEF Writers
  <2>3. Len(ToEnter(c)) = Len(inbox[c]) /\ Len(ToEnter(c)') = Len(inbox'[c])
    <3>1. Len(inbox[c]) \in Nat /\ Len(ToEnter(c)) = 0 + Len(inbox[c])
      BY <1>1, <2>2, ToEnterParts
    <3>2. inbox'[c] \in Seq([text : Texts, type : Types])
      BY DEF OwnerInv, Kinds
    <3>3. TextsOf(inbox'[c]) \in Seq(Texts) /\ Len(TextsOf(inbox'[c])) = Len(inbox'[c])
      BY <3>2, MessageTexts, TextsOfSeq
    <3>4. ToEnter(c)' = <<>> \o TextsOf(inbox'[c])
      BY <2>1 DEF ToEnter
    <3>5. ToEnter(c)' = TextsOf(inbox'[c])
      BY <3>3, <3>4, ConcatEmptySeq
    <3> QED
      BY <3>1, <3>3, <3>5
  <2> QED
    BY <1>5, <1>7, <2>2, <2>3 DEF n
<1>8. CASE HandlerEnqueue(c)
  <2>1. k < n /\ sent'[c] = sent[c] /\ proc_req[c].text = <<c, k + 1>>
        /\ ToEnter(c)' = Pending(c, k + 1, n)
    BY <1>8, FirstToEnter DEF k, n
  <2> DEFINE m == Len(Entered) + 1
  <2>3. /\ EnteredOf(c)' = EnteredOf(c) \union {m} /\ Enqueued(c)' = k + 1
        /\ Entered'[m] = <<c, k + 1>>
        /\ \A i \in 1 .. Len(Entered) : Entered'[i] = Entered[i]
    <3>1. proc_req[c].text[1] = c
      BY <2>1
    <3> QED
      BY <1>1, <1>8, <2>1, <3>1, OneMoreEntered DEF k
  <2>4. Len(Entered) \in Nat /\ EnteredOf(c) \subseteq 1 .. Len(Entered) /\ m \in Nat
        /\ IsFiniteSet(EnteredOf(c)) /\ m \notin EnteredOf(c)
    BY <1>1, EnteredOfFinite
  <2>5. ASSUME NEW i \in EnteredOf(c)'
        PROVE  Entered'[i] = <<c, Cardinality({j \in EnteredOf(c)' : j <= i})>>
    <3> HIDE DEF m
    <3>1. CASE i = m
      <4>1. \A j \in EnteredOf(c)' : j <= i
        BY <2>3, <2>4, <3>1 DEF m
      <4>2. {j \in EnteredOf(c)' : j <= i} = EnteredOf(c) \union {m}
        BY <2>3, <4>1
      <4>3. Cardinality(EnteredOf(c) \union {m}) = k + 1
        BY <2>4, FS_AddElement DEF k, Enqueued
      <4> QED
        BY <2>3, <3>1, <4>2, <4>3
    <3>2. CASE i \in EnteredOf(c)
      <4>1. i \in 1 .. Len(Entered) /\ ~ (m <= i)
        BY <2>4, <3>2 DEF m
      <4>2. {j \in EnteredOf(c)' : j <= i} = {j \in EnteredOf(c) : j <= i}
        BY <2>3, <4>1
      <4> QED
        BY <1>4, <2>3, <3>2, <4>1, <4>2
    <3> QED
      BY <2>3, <3>1, <3>2
  <2>6. pc'[c] = "count"
    BY <1>1, <1>8 DEF HandlerEnqueue, HandlerGoto, TypeOK
  <2>7. Len(sent'[c]) = n /\ Enqueued(c)' = k + 1 /\ k + 1 <= n /\ n <= MaxRequests
    BY <1>2, <2>1, <2>3, ServerAssumption DEF n
  <2> QED
    BY <2>1, <2>5, <2>6, <2>7
<1>9. CASE \E type \in Types : ClientSend(c, type)
  <2>1. PICK type \in Types : ClientSend(c, type)
    BY <1>9
  <2>2. /\ ToEnter(c)' = Append(ToEnter(c), <<c, n + 1>>)
        /\ Len(sent'[c]) = n + 1 /\ Len(inbox'[c]) = Len(inbox[c]) + 1 /\ pc' = pc
        /\ ~ \E d \in Conns : HandlerEnqueue(d)
    <3>1. sent'[c] # sent[c]
      <4>1. sent[c] \in Seq(Types \union Commands) /\ Len(sent[c]) \in Nat
        BY <1>1, LenProperties DEF TypeOK
      <4>2. Len(Append(sent[c], type)) = Len(sent[c]) + 1
        BY <4>1, AppendProperties
      <4>3. sent'[c] = Append(sent[c], type)
        BY <1>1, <2>1 DEF ClientSend, Send, TypeOK
      <4> QED
        BY <4>1, <4>2, <4>3
    <3> QED
      BY <1>1, <3>1, ToEnterChanges DEF n
  <2>3. n < MaxRequests
    BY <2>1 DEF ClientSend, n
  <2>4. ToEnter(c)' = Pending(c, k, n + 1)
    BY <1>2, <1>3, <2>2, <2>3, PendingAppend
  <2>5. Entered' = Entered
    BY <1>1, <2>2, EnteredChanges
  <2>6. EnteredOf(c)' = EnteredOf(c) /\ Enqueued(c)' = k
    BY <2>5, SameEntered DEF k
  <2>7. k <= n + 1 /\ n + 1 <= MaxRequests
    BY <1>2, <2>3, ServerAssumption
  <2> QED
    BY <1>5, <1>6, <2>2, <2>4, <2>5, <2>6, <2>7
<1>10. CASE ~ HandlerEnqueue(c) /\ ~ \E type \in Types : ClientSend(c, type)
  <2>1. ToEnter(c)' = ToEnter(c) /\ sent'[c] = sent[c]
    BY <1>1, <1>10, ToEnterChanges
  <2>2. EnteredOf(c)' = EnteredOf(c) /\ Enqueued(c)' = k
        /\ \A i \in EnteredOf(c) : Entered'[i] = Entered[i]
    BY <1>10, EnqueuedChanges DEF k
  <2> QED
    BY <1>2, <1>3, <1>6, <1>7, <2>1, <2>2 DEF n
<1> QED
  BY <1>8, <1>9, <1>10

-----------------------------------------------------------------------------
(* Every step keeps the counts of the list exact. *)
LEMMA NextCounts == IInv /\ OwnerInv' /\ [Next]_vars => RequestCountExact'
<1> SUFFICES ASSUME IInv, OwnerInv', [Next]_vars
             PROVE  RequestCountExact'
  OBVIOUS
<1> USE DEF handlers
<1>1. OwnerInv /\ TypeOK /\ Writers /\ RequestCountExact
      /\ MainThread /\ Descriptors /\ Registry
  BY OnlyWriters DEF IInv, OwnerInv
<1>2. DOMAIN clients = 1 .. Len(clients) /\ Len(clients) \in Nat
      /\ \A i \in DOMAIN clients :
           clients[i].fd \in Fds /\ clients[i].conn \in Conns /\ clients[i].request_count \in Nat
  <2>1. clients \in Seq(Entries)
    BY <1>1 DEF TypeOK
  <2>2. DOMAIN clients = 1 .. Len(clients) /\ Len(clients) \in Nat
        /\ \A i \in DOMAIN clients : clients[i] \in Entries
    BY <2>1, LenProperties, ElementOfSeq
  <2> QED
    BY <2>2, ServerAssumption DEF Entries
<1>3. \A c \in Conns : Enqueued(c) \in Nat
  BY <1>1, EnteredOfFinite
(* What an entry has to count, before the step and after it.                *)
<1> DEFINE Exact(n, c) == n + (IF pc[c] = "count" THEN 1 ELSE 0) = Enqueued(c)
           EnqueuedThen(c) == Cardinality({i \in DOMAIN Entered' : Entered'[i][1] = c})
           StillExact(n, c) == n + (IF pc'[c] = "count" THEN 1 ELSE 0) = EnqueuedThen(c)
<1>4. \A i \in DOMAIN clients : Exact(clients[i].request_count, clients[i].conn)
  BY <1>1 DEF RequestCountExact
<1>5. ASSUME \A i \in DOMAIN clients' : StillExact(clients'[i].request_count, clients'[i].conn)
      PROVE  RequestCountExact'
  BY <1>5 DEF RequestCountExact, Enqueued, EnteredOf
<1>6. \A c \in Conns : Enqueued(c)' = EnqueuedThen(c)
  BY DEF Enqueued, EnteredOf
<1> HIDE DEF EnqueuedThen
(* Between a request's entering the queue and its being counted, its        *)
(* handler is at "count", and at no other time.                             *)
<1>7. ASSUME NEW c \in Conns, NEW n \in Nat, Exact(n, c), ~ HandlerCount(c)
      PROVE  StillExact(n, c)
  <2>1. CASE HandlerEnqueue(c)
    <3>1. pc[c] = "enqueue" /\ pc'[c] = "count"
      BY <1>1, <2>1 DEF HandlerEnqueue, HandlerAt, HandlerGoto, TypeOK
    <3>2. EnqueuedThen(c) = Enqueued(c) + 1
      BY <1>6, <2>1, EnqueuedChanges
    <3>3. n = Enqueued(c)
      BY <1>3, <1>7, <3>1
    <3> QED
      BY <1>3, <1>7, <3>1, <3>2, <3>3
  <2>2. CASE ~ HandlerEnqueue(c)
    <3>1. EnqueuedThen(c) = Enqueued(c)
      BY <1>6, <2>2, EnqueuedChanges
    <3>2. pc'[c] = "count" <=> pc[c] = "count"
      <4>1. ASSUME NEW d \in Conns, Handler(d)
            PROVE  pc'[c] = "count" <=> pc[c] = "count"
        BY <1>1, <1>7, <2>2, <4>1
        DEF Handler, HandlerReceive, HandlerFail, HandlerEnqueue, HandlerCount, HandlerRemove,
            HandlerClose, HandlerAt, HandlerGoto, TypeOK
      <4>2. CASE SpawnHandler \/ SpawnFails
        <5> DEFINE x == fds[new_fd]
        <5>1. pc[x] = "none" /\ x \in Conns
          BY <1>1, <4>2 DEF SpawnHandler, SpawnFails, MainAt, OwnerInv, MainThread
        <5>2. pc' = [pc EXCEPT ![x] = "read"] \/ pc' = [pc EXCEPT ![x] = "unborn"]
          BY <4>2 DEF SpawnHandler, SpawnFails, StartHandler, HandlerGoto
        <5> HIDE DEF x
        <5> QED
          BY <1>1, <5>1, <5>2 DEF TypeOK
      <4> QED
        BY <1>1, <4>1, <4>2 DEF Writers
    <3> QED
      BY <1>7, <3>1, <3>2
  <2> QED
    BY <2>1, <2>2
<1>8. ASSUME NEW d \in Conns, HandlerCount(d)
      PROVE  RequestCountExact'
  <2> DEFINE fd == client_fd[d]
  <2>1. /\ DOMAIN clients' = DOMAIN clients
        /\ \A i \in DOMAIN clients :
             /\ clients'[i].fd = clients[i].fd /\ clients'[i].conn = clients[i].conn
             /\ clients'[i].request_count
                  = clients[i].request_count + IF clients[i].fd = fd THEN 1 ELSE 0
    BY <1>1, <1>8, CountRequestCounts DEF HandlerCount, TypeOK
  <2>2. pc[d] = "count" /\ pc'[d] = "read" /\ \A c \in Conns : ~ HandlerEnqueue(c)
    BY <1>1, <1>8 DEF HandlerCount, HandlerEnqueue, HandlerAt, HandlerGoto, Queue!Put, TypeOK
  <2>3. ASSUME NEW i \in DOMAIN clients
        PROVE  StillExact(clients'[i].request_count, clients'[i].conn)
    <3> DEFINE c == clients[i].conn
               n == clients[i].request_count
    <3>1. clients'[i].conn = c /\ n \in Nat /\ c \in Conns /\ Exact(n, c)
      BY <1>2, <1>4, <2>1
    <3>2. clients[i].fd = fd <=> c = d
      <4>1. clients[i].fd = fd => c = d
        BY <1>1, <2>2 DEF Registry, Descriptors
      <4>2. c = d => clients[i].fd = fd
        <5>1. fds[clients[i].fd] = c /\ clients[i].fd \in Fds
          BY <1>1, <1>2 DEF Registry
        <5> QED
          BY <1>1, <2>2, <5>1 DEF Descriptors, MainThread
      <4> QED
        BY <4>1, <4>2
    <3>3. CASE c = d
      <4>1. clients'[i].request_count = n + 1
        BY <2>1, <3>2, <3>3
      <4>2. EnqueuedThen(c) = Enqueued(c)
        BY <1>6, <2>2, <3>1, EnqueuedChanges
      <4>3. n + 1 = Enqueued(c)
        BY <2>2, <3>1, <3>3
      <4>4. pc'[c] # "count"
        BY <2>2, <3>3
      <4> HIDE DEF c, n
      <4> QED
        BY <1>3, <3>1, <4>1, <4>2, <4>3, <4>4
    <3>4. CASE c # d
      <4>1. clients'[i].request_count = n
        BY <2>1, <3>1, <3>2, <3>4
      <4>2. ~ HandlerCount(c)
        BY <1>1, <1>8, <3>4 DEF HandlerCount, HandlerGoto, HandlerAt, TypeOK
      <4> HIDE DEF Exact, StillExact
      <4> QED
        BY <1>7, <3>1, <4>1, <4>2
    <3> QED
      BY <3>3, <3>4
  <2> HIDE DEF StillExact
  <2> QED
    BY <1>5, <2>1, <2>3
<1>9. ASSUME NEW d \in Conns, HandlerRemove(d)
      PROVE  RequestCountExact'
  <2>1. \A k \in DOMAIN clients' : \E i \in DOMAIN clients : clients'[k] = clients[i]
    BY <1>1, <1>9, RemoveClientLeaves DEF HandlerRemove, TypeOK
  <2>2. \A c \in Conns : ~ HandlerCount(c)
    BY <1>1, <1>9 DEF HandlerRemove, HandlerCount, HandlerGoto, HandlerAt, TypeOK
  <2> HIDE DEF Exact, StillExact
  <2>3. \A i \in DOMAIN clients : StillExact(clients[i].request_count, clients[i].conn)
    BY <1>2, <1>4, <1>7, <2>2
  <2> QED
    BY <1>5, <2>1, <2>3
<1>10. CASE RegisterClient
  <2> DEFINE c == fds[new_fd]
             entry == [fd |-> new_fd, conn |-> fds[new_fd], request_count |-> 0]
  <2>1. clients' = clients \/ clients' = Append(clients, entry)
    BY <1>10 DEF RegisterClient
  <2>2. new_fd \in Fds /\ c \in Conns /\ pc[c] = "none"
    BY <1>1, <1>10 DEF RegisterClient, MainAt, MainThread
  <2>3. \A d \in Conns : ~ HandlerCount(d)
    BY <1>1, <1>10 DEF RegisterClient, HandlerCount, HandlerGoto, HandlerAt, TypeOK
  <2>4. \A i \in DOMAIN clients : StillExact(clients[i].request_count, clients[i].conn)
    <3> HIDE DEF Exact, StillExact
    <3> QED
      BY <1>2, <1>4, <1>7, <2>3
  <2>5. Exact(0, c)
    <3>1. Len(inbox[c]) = Len(sent[c]) /\ Enqueued(c) <= Len(sent[c])
          /\ ToEnter(c) = Pending(c, Enqueued(c), Len(sent[c])) /\ Len(sent[c]) <= MaxRequests
      BY <2>2 DEF IInv, Inboxes, NothingLost, Pending
    <3>2. Len(ToEnter(c)) = 0 + Len(inbox[c]) /\ Len(inbox[c]) \in Nat
      BY <1>1, <2>2, ToEnterParts
    <3> DEFINE k == Enqueued(c)
               m == Len(sent[c])
    <3>3. k \in Nat /\ m \in 0 .. MaxRequests /\ k <= m /\ m = Len(inbox[c])
          /\ ToEnter(c) = Pending(c, k, m)
      BY <1>3, <2>2, <3>1, <3>2, ServerAssumption
    <3> HIDE DEF c, k, m
    <3>4. Len(ToEnter(c)) = m - k
      BY <2>2, <3>3, PendingSeq
    <3>5. k = 0
      BY <3>2, <3>3, <3>4, ServerAssumption
    <3> QED
      BY <2>2, <3>5 DEF k
  <2>6. entry \in Entries /\ entry.conn = c /\ entry.request_count = 0
    BY <2>2, ServerAssumption DEF Entries
  <2>7. StillExact(entry.request_count, entry.conn)
    <3> HIDE DEF Exact, StillExact, c, entry
    <3> QED
      BY <1>7, <2>2, <2>3, <2>5, <2>6
  <2> HIDE DEF Exact, StillExact, c, entry
  <2>8. CASE clients' = Append(clients, entry)
    <3>1. clients \in Seq(Entries)
      BY <1>1 DEF TypeOK
    <3>2. /\ clients' \in Seq(Entries) /\ Len(clients') = Len(clients) + 1
          /\ \A i \in 1 .. Len(clients) : clients'[i] = clients[i]
          /\ clients'[Len(clients) + 1] = entry
      BY <2>6, <2>8, <3>1, AppendProperties
    <3>3. DOMAIN clients' = 1 .. Len(clients) + 1
      BY <3>2, LenProperties
    <3>4. \A i \in DOMAIN clients' : i \in DOMAIN clients \/ i = Len(clients) + 1
      BY <1>2, <3>3
    <3> QED
      BY <1>2, <1>5, <2>4, <2>7, <3>2, <3>4
  <2>9. CASE clients' = clients
    BY <1>5, <2>4, <2>9
  <2> QED
    BY <2>1, <2>8, <2>9
<1>11. CASE UNCHANGED clients /\ \A c \in Conns : ~ HandlerCount(c)
  <2> HIDE DEF Exact, StillExact
  <2> QED
    BY <1>2, <1>4, <1>5, <1>7, <1>11
<1> QED
  BY <1>1, <1>8, <1>9, <1>10, <1>11 DEF Writers

-----------------------------------------------------------------------------
(* A request that is to be counted is one that was sent, so that there is   *)
(* room for it in the count.                                                *)
LEMMA CountHasRoom == IInv => RoomToCount
<1> SUFFICES ASSUME IInv, NEW i \in DOMAIN clients, pc[clients[i].conn] = "count"
             PROVE  clients[i].request_count < MaxRequests
  BY DEF RoomToCount
<1> DEFINE c == clients[i].conn
           n == clients[i].request_count
<1>1. c \in Conns /\ n \in Nat
  <2>1. clients \in Seq(Entries)
    BY DEF IInv, OwnerInv, TypeOK
  <2>2. clients[i] \in Entries
    BY <2>1, LenProperties, ElementOfSeq
  <2> QED
    BY <2>2, ServerAssumption DEF Entries
<1>2. n + 1 = Enqueued(c)
  BY DEF IInv, RequestCountExact
<1>3. Enqueued(c) <= Len(sent[c]) /\ Len(sent[c]) <= MaxRequests
  BY <1>1 DEF IInv, Inboxes
<1>4. Len(sent[c]) \in Nat
  <2>1. sent[c] \in Seq(Types \union Commands)
    BY <1>1 DEF IInv, OwnerInv, TypeOK, Endpoints
  <2> QED
    BY <2>1, LenProperties
<1> HIDE DEF c, n
<1>5. n < MaxRequests
  BY <1>1, <1>2, <1>3, <1>4, ServerAssumption
<1> QED
  BY <1>5 DEF n

(* No text, no client: the first state.                                     *)
LEMMA InitInv == Init => IInv
<1> SUFFICES ASSUME Init PROVE IInv
  OBVIOUS
<1>1. OwnerInv
  BY InitOwner
<1>2. Entered = <<>>
  <2>1. documents \in Seq(Texts) /\ InHand = <<>> /\ TextsOf(request_queue) = <<>> /\ documents = <<>>
    BY EmptySeq DEF Init, Queue!Init, InHand, TextsOf
  <2> QED
    BY <1>1, <2>1, EnteredParts, ConcatEmptySeq
<1>3. \A c \in Conns : EnteredOf(c) = {} /\ Enqueued(c) = 0
  BY <1>2, FS_EmptySet DEF EnteredOf, Enqueued
<1>4. Inboxes
  BY <1>3, EmptySeq, ServerAssumption DEF Init, Inboxes, Endpoints
<1>5. NothingLost
  <2>1. SUFFICES ASSUME NEW c \in Conns
                 PROVE  ToEnter(c) = Pending(c, 0, 0) /\ Len(sent[c]) = 0
    BY <1>3 DEF NothingLost, Pending
  <2>2. sent[c] = <<>> /\ inbox[c] = <<>> /\ pc[c] = "none"
    BY DEF Init, Endpoints
  <2>3. Len(sent[c]) = 0 /\ Len(inbox[c]) = 0
    BY <2>2, EmptySeq
  <2>4. ToEnter(c) \in Seq(Texts) /\ Len(ToEnter(c)) = 0
    <3>1. /\ ToEnter(c) \in Seq(Texts)
          /\ Len(ToEnter(c)) = (IF pc[c] = "enqueue" THEN 1 ELSE 0) + Len(inbox[c])
      BY <1>1, ToEnterParts
    <3> HIDE DEF Init
    <3>2. (IF pc[c] = "enqueue" THEN 1 ELSE 0) = 0
      BY <2>2
    <3> QED
      BY <2>3, <3>1, <3>2
  <2>5. Pending(c, 0, 0) \in Seq(Texts) /\ Len(Pending(c, 0, 0)) = 0
    BY PendingSeq, ServerAssumption
  <2> QED
    BY <2>3, <2>4, <2>5, EmptySeq
<1>6. RequestCountExact
  BY DEF Init, RequestCountExact
<1> QED
  BY <1>1, <1>4, <1>5, <1>6 DEF IInv

(* Every step keeps the invariant.                                          *)
LEMMA NextInv == IInv /\ [Next]_vars => IInv'
<1> SUFFICES ASSUME IInv, [Next]_vars PROVE IInv'
  OBVIOUS
<1>1. OwnerInv'
  BY CountHasRoom, NextOwner DEF IInv
<1> QED
  BY <1>1, NextNothingLost, NextCounts DEF IInv

(* The invariant holds in every reachable state.                            *)
LEMMA Inductive == Spec => []IInv
BY InitInv, NextInv, PTL DEF Spec

-----------------------------------------------------------------------------
(* No entry of the list, no index and no count leaves its range, whatever   *)
(* connections come and go: server.c's client list, queue and descriptors.  *)
THEOREM ServerTypes == Spec => []TypeOK
<1>1. IInv => TypeOK
  BY DEF IInv, OwnerInv
<1> QED
  BY <1>1, Inductive, PTL

(* add_client, remove_client, the handlers and accept agree at every moment *)
(* on whose connection a descriptor is, and remove_client's moving of the   *)
(* last entry never makes two entries of one.                               *)
THEOREM ListIsCoherent == Spec => []RegistryCoherent
<1>1. IInv => RegistryCoherent
  <2> SUFFICES ASSUME IInv PROVE RegistryCoherent
    OBVIOUS
  <2>1. Registry /\ Descriptors
    BY DEF IInv, OwnerInv
  <2>2. \A i, j \in DOMAIN clients : clients[i].fd = clients[j].fd => i = j
    BY <2>1 DEF Registry
  <2>3. ASSUME NEW i \in DOMAIN clients
        PROVE  LET c == clients[i].conn IN
                 /\ fds[clients[i].fd] = c
                 /\ \/ ServedOn(c, clients[i].fd)
                    \/ pc[c] = "unborn" /\ client_fd[c] = clients[i].fd
    <3> DEFINE c == clients[i].conn
               n == clients[i].fd
    <3>1. c \in Conns /\ n \in Fds
      <4>1. clients \in Seq(Entries)
        BY DEF IInv, OwnerInv, TypeOK
      <4>2. clients[i] \in Entries
        BY <4>1, LenProperties, ElementOfSeq
      <4> QED
        BY <4>2 DEF Entries
    <3>2. fds[n] = c
      BY <2>1 DEF Registry
    <3>3. pc[c] \notin {"none", "close", "done"} \/ (main_pc = "spawn" /\ new_fd = n)
      BY <2>1 DEF Registry
    <3>4. (pc[c] \notin {"none", "done"} /\ client_fd[c] = n)
          \/ (main_pc \in {"register", "spawn"} /\ new_fd = n)
      BY <2>1, <3>1, <3>2 DEF Descriptors
    <3> HIDE DEF c, n
    <3>5. ServedOn(c, n) \/ (pc[c] = "unborn" /\ client_fd[c] = n)
      BY <3>1, <3>2, <3>3, <3>4 DEF ServedOn, Live
    <3> QED
      BY <3>2, <3>5 DEF c, n
  <2> QED
    BY <2>2, <2>3 DEF RegistryCoherent
<1> QED
  BY <1>1, Inductive, PTL

(* Every descriptor that accept has opened, main or a client_handler will   *)
(* close, unless pthread_create failed for it; and none closes another's.   *)
THEOREM NoDescriptorIsLost == Spec => []NoFdLeak
<1>1. IInv => NoFdLeak
  <2> SUFFICES ASSUME IInv PROVE NoFdLeak
    OBVIOUS
  <2>1. Descriptors /\ TypeOK
    BY DEF IInv, OwnerInv
  <2>2. ASSUME NEW c \in Conns, NEW n \in Fds, ServedOn(c, n)
        PROVE  fds[n] = c
    BY <2>1, <2>2 DEF ServedOn, Live, Descriptors
  <2>3. ASSUME NEW n \in Fds, fds[n] # Free
        PROVE  \/ \E c \in Conns : ServedOn(c, n) \/ (pc[c] = "unborn" /\ client_fd[c] = n)
               \/ fds[n] \in Admins /\ new_fd = n
    <3>1. fds[n] \in Conns \/ fds[n] \in Admins
      BY <2>1, <2>3 DEF TypeOK, Endpoints
    <3>2. CASE fds[n] \in Conns
      <4>1. ServedOn(fds[n], n) \/ (pc[fds[n]] = "unborn" /\ client_fd[fds[n]] = n)
        BY <2>1, <3>2 DEF Descriptors, ServedOn, Live
      <4> QED
        BY <3>2, <4>1
    <3>3. CASE fds[n] \in Admins
      BY <2>1, <3>3 DEF Descriptors
    <3> QED
      BY <3>1, <3>2, <3>3
  <2> QED
    BY <2>2, <2>3 DEF NoFdLeak
<1> QED
  BY <1>1, Inductive, PTL

(* handle_admin_client holds clients_mutex over its reading of the queue.   *)
THEOREM AdminSeesOneMoment == Spec => []AdminSnapshot
<1>1. IInv => AdminSnapshot
  BY DEF IInv, OwnerInv, Snapshot, AdminSnapshot
<1> QED
  BY <1>1, Inductive, PTL

(* request_count, which client_handler increments some time after it has    *)
(* enqueued the request, is exact but for that time.                        *)
THEOREM CountsAreExact == Spec => []RequestCountExact
<1>1. IInv => RequestCountExact
  BY DEF IInv
<1> QED
  BY <1>1, Inductive, PTL

(* From the client's socket through its client_handler and the queue to the *)
(* processing thread's collection, requests of a connection keep their      *)
(* order, and none is lost or taken twice.                                  *)
THEOREM NoRequestIsLost == Spec => []NothingLost
<1>1. IInv => NothingLost
  BY DEF IInv
<1> QED
  BY <1>1, Inductive, PTL

(* remove_client, which finds its entry by a descriptor, never takes        *)
(* another connection's.                                                    *)
LEMMA RemovedByItsHandler ==
  ASSUME IInv, [Next]_vars, NEW i \in DOMAIN clients,
         \A j \in DOMAIN clients' : clients'[j].conn # clients[i].conn
  PROVE  pc[clients[i].conn] = "remove"
<1>1. TypeOK /\ Descriptors /\ Registry /\ Writers
  BY OnlyWriters DEF IInv, OwnerInv
<1>2. clients \in Seq(Entries) /\ DOMAIN clients = 1 .. Len(clients) /\ Len(clients) \in Nat
  BY <1>1, LenProperties DEF TypeOK
<1>3. clients' # clients
  OBVIOUS
<1>4. ASSUME NEW d \in Conns, HandlerCount(d)
      PROVE  FALSE
  <2>1. DOMAIN clients' = DOMAIN clients /\ clients'[i].conn = clients[i].conn
    BY <1>1, <1>2, <1>4, CountRequestCounts DEF HandlerCount
  <2> QED
    BY <2>1
<1>5. ASSUME NEW d \in Conns, HandlerRemove(d)
      PROVE  pc[clients[i].conn] = "remove"
  <2>1. clients[i].fd = client_fd[d]
    <3>1. clients[i].fd # client_fd[d] =>
            \E k \in DOMAIN clients' : clients'[k] = clients[i]
      BY <1>1, <1>2, <1>5, RemoveClientLeaves DEF HandlerRemove
    <3> QED
      BY <3>1
  <2>2. pc[d] = "remove" /\ fds[client_fd[d]] = d
    BY <1>1, <1>5 DEF HandlerRemove, HandlerAt, Descriptors
  <2>3. fds[clients[i].fd] = clients[i].conn
    BY <1>1 DEF Registry
  <2> QED
    BY <2>1, <2>2, <2>3
<1>6. CASE RegisterClient
  <2> DEFINE entry == [fd |-> new_fd, conn |-> fds[new_fd], request_count |-> 0]
  <2>1. clients' = Append(clients, entry)
    BY <1>3, <1>6 DEF RegisterClient
  <2>2. entry \in Entries
    BY <1>6, ServerAssumption DEF IInv, OwnerInv, MainThread, RegisterClient, MainAt, Entries
  <2> HIDE DEF entry
  <2>3. clients'[i] = clients[i] /\ i \in DOMAIN clients'
    <3>1. clients' \in Seq(Entries) /\ Len(clients') = Len(clients) + 1
          /\ \A k \in 1 .. Len(clients) : clients'[k] = clients[k]
      BY <1>2, <2>1, <2>2, AppendProperties
    <3>2. DOMAIN clients' = 1 .. Len(clients) + 1
      BY <3>1, LenProperties
    <3> QED
      BY <1>2, <3>1, <3>2
  <2> QED
    BY <2>3
<1> QED
  BY <1>1, <1>3, <1>4, <1>5, <1>6 DEF Writers

(* No step removes the entry of a connection but its own client_handler's   *)
(* remove_client, whatever entry is moved into its place.                   *)
THEOREM OnlyOwnEntryRemoved == Spec => OnlyOwnHandlerRemoves
<1> DEFINE Own == \A i \in DOMAIN clients :
                    (\A j \in DOMAIN clients' : clients'[j].conn # clients[i].conn)
                      => pc[clients[i].conn] = "remove"
<1>1. IInv /\ [Next]_vars => [Own]_vars
  <2> SUFFICES ASSUME IInv, [Next]_vars PROVE Own
    OBVIOUS
  <2> QED
    BY RemovedByItsHandler
<1> QED
  BY <1>1, Inductive, PTL DEF Spec, OnlyOwnHandlerRemoves
=============================================================================
