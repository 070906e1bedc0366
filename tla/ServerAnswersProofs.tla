------------------------- MODULE ServerAnswersProofs -------------------------
(***************************************************************************)
(* Proofs about Server for programs that stay until they are answered and  *)
(* send no text that is too long: the responses of a connection are those  *)
(* to its requests, in their order, and the server survives.               *)
(***************************************************************************)
EXTENDS ServerProofs

Patient == Impatient = {} /\ "oversized" \notin Types

(* A request in the server's hands: its connection is open, has a handler,  *)
(* and is still the one at the descriptor that the request names.           *)
Routed(r) ==
  LET c == r.text[1] IN
    /\ c \in Conns /\ pc[c] \in {"read", "enqueue", "count"} /\ peer[c] = "open"
    /\ r.client_fd = client_fd[c]
    /\ r.text[2] \in DOMAIN sent[c] /\ r.type = sent[c][r.text[2]]

InFlight ==
  /\ \A c \in Conns : pc[c] = "enqueue" => Routed(proc_req[c]) /\ proc_req[c].text[1] = c
  /\ \A i \in DOMAIN request_queue : Routed(request_queue[i])
  /\ worker_pc # "dequeue" => Routed(request)

(* What has not been read is what was sent. *)
Messages ==
  \A e \in Endpoints : \A i \in DOMAIN inbox[e] :
    LET m == inbox[e][i]
    IN  m.text[1] = e /\ m.text[2] \in DOMAIN sent[e] /\ m.type = sent[e][m.text[2]]

(* A connection ends from the program's side, and when all is answered.     *)
Endings ==
  /\ \A c \in Conns : pc[c] \in {"remove", "close", "done"} => peer[c] = "closed"
  /\ \A e \in Endpoints : peer[e] = "closed" => Answered(e) = Len(sent[e])

(* The texts of connection c in the collection, and how many they are.      *)
ProcessedOf(c) == {i \in DOMAIN documents : documents[i][1] = c}
Processed(c) == Cardinality(ProcessedOf(c))

(* The processing thread is sending a response to connection c. *)
Sending(c) == worker_pc = "send" /\ request.text[1] = c

(* What has been written to c, and which part of which response comes next. *)
Replies ==
  /\ worker_pc # "send" => part = 1
  /\ \A c \in Conns :
       /\ Sending(c) => /\ request.text[2] = Processed(c) /\ Processed(c) = Answered(c) + 1
                        /\ part <= Writes[request.type]
       /\ ~ Sending(c) => Processed(c) = Answered(c)
       /\ outbox[c] = <<>> /\ Sending(c) => part = 1
       /\ outbox[c] # <<>> =>
            LET p == outbox[c][Len(outbox[c])] IN
              IF p.part < Writes[p.type]
              THEN /\ Sending(c)
                   /\ p = [text |-> request.text, type |-> request.type, part |-> part - 1]
              ELSE p.text[2] = Answered(c) /\ (Sending(c) => part = 1)

(* An admin client that is still to be served has got nothing; one that is  *)
(* about to be has sent the command that is answered, and what it has got   *)
(* by then are the first parts of that answer, but not the last.            *)
Unanswered(a) ==
  \/ peer[a] = "idle"
  \/ \E k \in DOMAIN backlog["unix"] : backlog["unix"][k] = a
  \/ main_pc \in {"admin_receive", "admin_clients", "admin_queue"} /\ fds[new_fd] = a

Begun(a) ==
  /\ Len(outbox[a]) < Writes[admin_resp.command]
  /\ \A i \in DOMAIN outbox[a] :
       outbox[a][i] = [text |-> <<a, 1>>, type |-> admin_resp.command, part |-> i]

AdminReplies ==
  /\ \A a \in Admins : Len(sent[a]) <= 1 /\ (Unanswered(a) => outbox[a] = <<>>)
  /\ main_pc \in {"admin_clients", "admin_queue", "admin_send"} =>
       LET a == fds[new_fd] IN Len(sent[a]) = 1 /\ admin_resp.command = sent[a][1]
  /\ main_pc = "admin_send" => Begun(fds[new_fd])

(* No thread has been killed, and where the answers are. *)
Served == InFlight /\ Messages /\ Endings /\ Replies /\ AdminReplies

AInv == IInv /\ AnswersInOrder /\ (alive => Served)

-----------------------------------------------------------------------------
(* Two actions write to a connection, three can end the process. *)
LEMMA WireWriters ==
  ASSUME [Next]_vars
  PROVE  /\ UNCHANGED outbox \/ SendPart \/ AdminReply
         /\ UNCHANGED alive \/ SpawnFails \/ SendPart \/ AdminReply
<1> USE DEF vars, wire
<1>1. ASSUME NEW e \in Endpoints, Connect(e) \/ Close(e)
      PROVE  UNCHANGED <<outbox, alive>>
  BY <1>1 DEF Connect, Close
<1>2. ASSUME NEW e \in Endpoints, NEW type, Send(e, type)
      PROVE  UNCHANGED <<outbox, alive>>
  BY <1>2 DEF Send
<1>3. ASSUME NEW c \in Conns, Handler(c)
      PROVE  UNCHANGED <<outbox, alive>>
  BY <1>3 DEF Handler, HandlerReceive, HandlerFail, HandlerEnqueue, HandlerCount, HandlerRemove,
              HandlerClose
<1>4. CASE Dequeue \/ Process
  BY <1>4 DEF Dequeue, Process
<1>5. CASE Poll \/ AcceptClient \/ AcceptFails \/ RegisterClient \/ SpawnHandler
  BY <1>5 DEF Poll, AcceptClient, AcceptFails, RegisterClient, SpawnHandler
<1>6. CASE SpawnFails
  BY <1>6 DEF SpawnFails
<1>7. CASE AcceptAdmin \/ AdminReceive \/ AdminHangup \/ AdminCopyClients
  BY <1>7 DEF AcceptAdmin, AdminReceive, AdminHangup, AdminCopyClients
<1>8. CASE AdminReadQueue \/ AdminClose
  BY <1>8 DEF AdminReadQueue, AdminClose
<1>9. CASE UNCHANGED vars
  BY <1>9
<1>10. (\E c \in Conns : \E type \in Types : ClientSend(c, type))
         => \E e \in Endpoints, type \in Types : Send(e, type)
  BY DEF ClientSend, Endpoints
<1>11. (\E a \in Admins : \E command \in Commands : AdminSend(a, command))
         => \E e \in Endpoints, type \in Commands : Send(e, type)
  BY DEF AdminSend, Endpoints
<1> QED
  BY <1>1, <1>2, <1>3, <1>4, <1>5, <1>6, <1>7, <1>8, <1>9, <1>10, <1>11 DEF Next, Worker, Main

(* What has been sent stays sent. *)
LEMMA SentGrows ==
  ASSUME OwnerInv, [Next]_vars, NEW e \in Endpoints
  PROVE  /\ Len(sent[e]) \in Nat /\ Len(sent'[e]) \in Nat /\ Len(sent[e]) <= Len(sent'[e])
         /\ DOMAIN sent[e] = 1 .. Len(sent[e]) /\ DOMAIN sent'[e] = 1 .. Len(sent'[e])
         /\ \A i \in DOMAIN sent[e] : i \in DOMAIN sent'[e] /\ sent'[e][i] = sent[e][i]
         /\ sent'[e] # sent[e] => \E type \in Types \union Commands :
              /\ Send(e, type) /\ sent'[e] = Append(sent[e], type)
              /\ Len(sent'[e]) = Len(sent[e]) + 1 /\ sent'[e][Len(sent[e]) + 1] = type
<1>1. Writers /\ TypeOK
  BY OnlyWriters DEF OwnerInv
<1>2. /\ sent[e] \in Seq(Types \union Commands) /\ Len(sent[e]) \in Nat
      /\ DOMAIN sent[e] = 1 .. Len(sent[e])
  BY <1>1, LenProperties DEF TypeOK
<1>3. CASE sent'[e] = sent[e]
  BY <1>2, <1>3
<1>4. CASE sent'[e] # sent[e]
  <2>1. \E d \in Endpoints, type \in Types \union Commands : Send(d, type)
    BY <1>1, <1>4 DEF Writers, ClientSend, AdminSend, Endpoints
  <2>2. PICK d \in Endpoints, type \in Types \union Commands : Send(d, type)
    BY <2>1
  <2>3. sent' = [sent EXCEPT ![d] = Append(sent[d], type)]
    BY <2>2 DEF Send
  <2>4. d = e /\ sent'[e] = Append(sent[e], type)
    BY <1>1, <1>4, <2>3 DEF TypeOK
  <2>5. /\ Append(sent[e], type) \in Seq(Types \union Commands)
        /\ Len(Append(sent[e], type)) = Len(sent[e]) + 1
        /\ \A i \in 1 .. Len(sent[e]) : Append(sent[e], type)[i] = sent[e][i]
        /\ Append(sent[e], type)[Len(sent[e]) + 1] = type
    BY <1>2, AppendProperties
  <2>6. DOMAIN sent'[e] = 1 .. Len(sent[e]) + 1
    BY <2>4, <2>5, LenProperties
  <2> QED
    BY <1>2, <2>2, <2>4, <2>5, <2>6
<1> QED
  BY <1>3, <1>4

-----------------------------------------------------------------------------
(* Responses are counted by their last parts. *)
LEMMA AnsweredNat ==
  ASSUME TypeOK, NEW e \in Endpoints
  PROVE  /\ outbox[e] \in Seq(Pieces) /\ Len(outbox[e]) \in Nat
         /\ DOMAIN outbox[e] = 1 .. Len(outbox[e])
         /\ LastParts(e) \subseteq 1 .. Len(outbox[e])
         /\ IsFiniteSet(LastParts(e)) /\ Answered(e) \in Nat
<1>1. outbox[e] \in Seq(Pieces) /\ Len(outbox[e]) \in Nat /\ DOMAIN outbox[e] = 1 .. Len(outbox[e])
  BY LenProperties DEF TypeOK
<1>2. LastParts(e) \subseteq 1 .. Len(outbox[e])
  BY <1>1 DEF LastParts
<1>3. IsFiniteSet(LastParts(e))
  <2>1. IsFiniteSet(1 .. Len(outbox[e]))
    BY <1>1, FS_Interval
  <2> QED
    BY <1>2, <2>1, FS_Subset
<1> QED
  BY <1>1, <1>2, <1>3, FS_CardinalityType DEF Answered

(* A connection to which nothing is written has no more responses.          *)
LEMMA SameAnswered ==
  ASSUME NEW e, outbox'[e] = outbox[e]
  PROVE  Answered(e)' = Answered(e)
<1>1. LastParts(e)' = LastParts(e)
  BY DEF LastParts
<1> QED
  BY <1>1 DEF Answered

(* The last write of a response completes it; the others complete nothing.  *)
LEMMA OneMoreAnswered ==
  ASSUME TypeOK, NEW e \in Endpoints, NEW p \in Pieces, outbox'[e] = Append(outbox[e], p)
  PROVE  /\ Len(outbox'[e]) = Len(outbox[e]) + 1 /\ outbox'[e][Len(outbox[e]) + 1] = p
         /\ DOMAIN outbox'[e] = 1 .. Len(outbox[e]) + 1
         /\ \A i \in 1 .. Len(outbox[e]) : outbox'[e][i] = outbox[e][i]
         /\ p.part = Writes[p.type] => Answered(e)' = Answered(e) + 1
         /\ p.part # Writes[p.type] => Answered(e)' = Answered(e)
<1> DEFINE n == Len(outbox[e])
<1>1. /\ outbox[e] \in Seq(Pieces) /\ n \in Nat /\ DOMAIN outbox[e] = 1 .. n
      /\ LastParts(e) \subseteq 1 .. n /\ IsFiniteSet(LastParts(e)) /\ Answered(e) \in Nat
  BY AnsweredNat
<1>2. /\ outbox'[e] \in Seq(Pieces) /\ Len(outbox'[e]) = n + 1 /\ outbox'[e][n + 1] = p
      /\ \A i \in 1 .. n : outbox'[e][i] = outbox[e][i]
  BY <1>1, AppendProperties
<1>3. DOMAIN outbox'[e] = 1 .. n + 1
  BY <1>2, LenProperties
<1>4. LastParts(e)' = {i \in 1 .. n + 1 : outbox'[e][i].part = Writes[outbox'[e][i].type]}
  BY <1>3 DEF LastParts
<1>5. LastParts(e) = {i \in 1 .. n : outbox[e][i].part = Writes[outbox[e][i].type]}
  BY <1>1 DEF LastParts
<1> HIDE DEF n
<1>6. \A i \in 1 .. n : i \in LastParts(e)' <=> i \in LastParts(e)
  BY <1>1, <1>2, <1>4, <1>5
<1>7. n + 1 \in LastParts(e)' <=> p.part = Writes[p.type]
  BY <1>1, <1>2, <1>4
<1>8. LastParts(e)' \subseteq 1 .. n + 1 /\ n + 1 \notin LastParts(e)
  BY <1>1, <1>4
<1>9. CASE p.part = Writes[p.type]
  <2>1. LastParts(e)' = LastParts(e) \union {n + 1}
    BY <1>1, <1>6, <1>7, <1>8, <1>9
  <2>2. Answered(e)' = Answered(e) + 1
    BY <1>1, <1>8, <2>1, FS_AddElement DEF Answered
  <2> QED
    BY <1>2, <1>3, <1>9, <2>2 DEF n
<1>10. CASE p.part # Writes[p.type]
  <2>1. LastParts(e)' \subseteq 1 .. n
    BY <1>1, <1>7, <1>8, <1>10
  <2>2. LastParts(e)' = LastParts(e)
    BY <1>1, <1>6, <2>1
  <2>3. Answered(e)' = Answered(e)
    BY <2>2 DEF Answered
  <2> QED
    BY <1>2, <1>3, <1>10, <2>3 DEF n
<1> QED
  BY <1>9, <1>10

-----------------------------------------------------------------------------
(* The texts in the collection are the first of those that have entered;    *)
(* one that is still to be processed comes after them.                      *)
LEMMA ProcessedEntered ==
  ASSUME OwnerInv, NEW c \in Conns
  PROVE  /\ Len(documents) \in Nat /\ ProcessedOf(c) = {i \in EnteredOf(c) : i <= Len(documents)}
         /\ IsFiniteSet(ProcessedOf(c)) /\ Processed(c) \in Nat
         /\ Processed(c) <= Enqueued(c)
         /\ worker_pc = "process" =>
              /\ Len(documents) + 1 \in DOMAIN Entered
              /\ Entered[Len(documents) + 1] = request.text
         /\ \A i \in DOMAIN request_queue : request_queue[i].text[1] = c =>
              Processed(c) < Enqueued(c)
         /\ worker_pc = "process" /\ request.text[1] = c => Processed(c) < Enqueued(c)
<1> DEFINE D == documents
           H == InHand
           Q == TextsOf(request_queue)
           n == Len(D)
           h == Len(H)
           q == Len(Q)
<1>1. /\ D \in Seq(Texts) /\ H \in Seq(Texts) /\ Q \in Seq(Texts) /\ D \o H \in Seq(Texts)
      /\ Entered = (D \o H) \o Q
  BY EnteredParts
<1>2. /\ n \in Nat /\ h \in Nat /\ q \in Nat /\ DOMAIN D = 1 .. n
  BY <1>1, LenProperties
<1>3. /\ worker_pc = "process" => h = 1 /\ H[1] = request.text
      /\ worker_pc # "process" => h = 0
  BY EmptySeq DEF InHand
<1>4. q = Len(request_queue) /\ DOMAIN request_queue = 1 .. q
      /\ \A i \in 1 .. q : Q[i] = request_queue[i].text
  <2>1. request_queue \in Seq(ProcessingRequests)
    BY DEF OwnerInv, TypeOK
  <2>2. Len(request_queue) \in Nat /\ DOMAIN request_queue = 1 .. Len(request_queue)
    BY <2>1, LenProperties
  <2> QED
    BY <2>1, <2>2, MessageTexts, TextsOfSeq
<1> HIDE DEF D, H, Q
<1>5. /\ Len(D \o H) = n + h
      /\ \A i \in 1 .. n : (D \o H)[i] = D[i]
      /\ \A i \in n + 1 .. n + h : (D \o H)[i] = H[i - n]
  <2>1. /\ Len(D \o H) = n + h
        /\ \A i \in 1 .. n + h : (D \o H)[i] = IF i <= n THEN D[i] ELSE H[i - n]
    BY <1>1, <1>2, ConcatProperties
  <2> HIDE DEF n, h
  <2> QED
    BY <1>2, <2>1
<1>6. /\ DOMAIN Entered = 1 .. n + h + q
      /\ \A i \in 1 .. n : Entered[i] = D[i]
      /\ \A i \in n + 1 .. n + h : Entered[i] = H[i - n]
      /\ \A i \in 1 .. q : Entered[n + h + i] = Q[i]
  <2> DEFINE E == D \o H
             m == n + h
  <2>1. E \in Seq(Texts) /\ Len(E) = m /\ Len(Q) = q
    BY <1>1, <1>5
  <2> HIDE DEF E, q
  <2>2. /\ Len(E \o Q) = m + q /\ E \o Q \in Seq(Texts)
        /\ \A i \in 1 .. m + q : (E \o Q)[i] = IF i <= m THEN E[i] ELSE Q[i - m]
    <3>1. /\ Len(E \o Q) = Len(E) + Len(Q) /\ E \o Q \in Seq(Texts)
          /\ \A i \in 1 .. Len(E) + Len(Q) :
               (E \o Q)[i] = IF i <= Len(E) THEN E[i] ELSE Q[i - Len(E)]
      BY <1>1, <2>1, ConcatProperties, ZenonT(60)
    <3> HIDE DEF m
    <3> QED
      BY <2>1, <3>1
  <2>3. Entered = E \o Q
    BY <1>1 DEF E
  <2>4. DOMAIN Entered = 1 .. m + q
    BY <2>2, <2>3, LenProperties
  <2>5. \A i \in 1 .. m + q : Entered[i] = IF i <= m THEN E[i] ELSE Q[i - m]
    BY <2>2, <2>3
  <2>6. \A i \in 1 .. m : Entered[i] = E[i]
    BY <1>2, <2>5
  <2>7. ASSUME NEW i \in 1 .. q
        PROVE  Entered[m + i] = Q[i]
    <3>1. m + i \in 1 .. m + q /\ ~ m + i <= m /\ m + i - m = i
      BY <1>2
    <3> QED
      BY <2>5, <3>1
  <2>8. /\ \A i \in 1 .. n : i \in 1 .. m /\ E[i] = D[i]
        /\ \A i \in n + 1 .. n + h : i \in 1 .. m /\ E[i] = H[i - n]
    BY <1>2, <1>5 DEF E
  <2> QED
    BY <2>4, <2>6, <2>7, <2>8
<1> HIDE DEF n, h, q
<1>7. ProcessedOf(c) = {i \in EnteredOf(c) : i <= n}
  <2>1. ProcessedOf(c) = {i \in 1 .. n : D[i][1] = c}
    BY <1>2 DEF ProcessedOf, D
  <2>2. EnteredOf(c) = {i \in 1 .. n + h + q : Entered[i][1] = c}
    BY <1>6 DEF EnteredOf
  <2>3. ASSUME NEW i PROVE i \in ProcessedOf(c) <=> i \in EnteredOf(c) /\ i <= n
    <3>1. i \in 1 .. n <=> i \in 1 .. n + h + q /\ i <= n
      BY <1>2
    <3> QED
      BY <1>6, <2>1, <2>2, <3>1
  <2> QED
    BY <2>3
<1>8. IsFiniteSet(EnteredOf(c)) /\ Enqueued(c) \in Nat
  BY EnteredOfFinite
<1>9. IsFiniteSet(ProcessedOf(c)) /\ Processed(c) \in Nat /\ Processed(c) <= Enqueued(c)
  BY <1>7, <1>8, FS_Subset, FS_CardinalityType DEF Processed, Enqueued
<1>10. ASSUME NEW j \in EnteredOf(c), ~ j <= n
       PROVE  Processed(c) < Enqueued(c)
  <2>1. ProcessedOf(c) # EnteredOf(c)
    BY <1>7, <1>10
  <2>2. Processed(c) # Enqueued(c)
    BY <1>7, <1>8, <2>1, FS_Subset DEF Processed, Enqueued
  <2> QED
    BY <1>8, <1>9, <2>2
<1>11. worker_pc = "process" => n + 1 \in DOMAIN Entered /\ Entered[n + 1] = request.text
  <2>1. SUFFICES ASSUME worker_pc = "process"
                 PROVE  n + 1 \in DOMAIN Entered /\ Entered[n + 1] = request.text
    OBVIOUS
  <2>2. n + 1 \in n + 1 .. n + h /\ n + 1 - n = 1 /\ n + 1 \in 1 .. n + h + q
    BY <1>2, <1>3, <2>1
  <2>3. Entered[n + 1] = H[1]
    <3>1. PICK k \in n + 1 .. n + h : k = n + 1
      BY <2>2
    <3>2. Entered[k] = H[k - n] /\ k - n = 1
      BY <1>2, <1>6, <3>1
    <3> QED
      BY <3>1, <3>2
  <2>4. Entered[n + 1] = request.text
    BY <1>3, <2>1, <2>2, <2>3
  <2> QED
    BY <1>6, <2>2, <2>4
<1>12. ASSUME NEW i \in DOMAIN request_queue, request_queue[i].text[1] = c
       PROVE  Processed(c) < Enqueued(c)
  <2>1. i \in 1 .. q /\ n + h + i \in 1 .. n + h + q /\ ~ n + h + i <= n
    BY <1>2, <1>4
  <2>2. Entered[n + h + i][1] = c
    BY <1>4, <1>6, <1>12, <2>1
  <2> QED
    BY <1>6, <1>10, <2>1, <2>2 DEF EnteredOf
<1>13. ASSUME worker_pc = "process", request.text[1] = c
       PROVE  Processed(c) < Enqueued(c)
  <2>1. ~ n + 1 <= n
    BY <1>2
  <2> QED
    BY <1>10, <1>11, <1>13, <2>1 DEF EnteredOf
<1> QED
  BY <1>2, <1>7, <1>9, <1>11, <1>12, <1>13 DEF n, D

(* A processed text is in the collection; its number is the next one of its *)
(* connection.                                                              *)
LEMMA OneMoreProcessed ==
  ASSUME OwnerInv, Process, NEW c \in Conns
  PROVE  /\ request.text[1] = c => Processed(c)' = Processed(c) + 1
         /\ request.text[1] # c => Processed(c)' = Processed(c)
<1> DEFINE n == Len(documents)
           t == request.text
<1>1. documents \in Seq(Texts) /\ t \in Texts /\ documents' = Append(documents, t)
  BY MessageTexts DEF OwnerInv, TypeOK, Kinds, Process, WorkerAt
<1>2. n \in Nat /\ DOMAIN documents = 1 .. n
  BY <1>1, LenProperties
<1> HIDE DEF t
<1>3. /\ documents' \in Seq(Texts) /\ Len(documents') = n + 1 /\ documents'[n + 1] = t
      /\ \A i \in 1 .. n : documents'[i] = documents[i]
  BY <1>1, AppendProperties
<1>4. DOMAIN documents' = 1 .. n + 1
  BY <1>3, LenProperties
<1> HIDE DEF n
<1>5. ProcessedOf(c) = {i \in 1 .. n : documents[i][1] = c}
  BY <1>2 DEF ProcessedOf
<1>6. ProcessedOf(c)' = {i \in 1 .. n + 1 : documents'[i][1] = c}
  BY <1>4 DEF ProcessedOf
<1>7. \A i \in 1 .. n : i \in ProcessedOf(c)' <=> i \in ProcessedOf(c)
  BY <1>2, <1>3, <1>5, <1>6
<1>8. n + 1 \in ProcessedOf(c)' <=> t[1] = c
  BY <1>2, <1>3, <1>6
<1>9. n + 1 \notin ProcessedOf(c) /\ IsFiniteSet(ProcessedOf(c)) /\ ProcessedOf(c) \subseteq 1 .. n
  <2>1. IsFiniteSet(ProcessedOf(c))
    BY ProcessedEntered
  <2> QED
    BY <1>2, <1>5, <2>1
<1>10. CASE t[1] = c
  <2>1. ProcessedOf(c)' = ProcessedOf(c) \union {n + 1}
    BY <1>2, <1>6, <1>7, <1>8, <1>9, <1>10
  <2>2. Processed(c)' = Processed(c) + 1
    BY <1>9, <2>1, FS_AddElement DEF Processed
  <2> QED
    BY <1>10, <2>2 DEF t
<1>11. CASE t[1] # c
  <2>1. ProcessedOf(c)' \subseteq 1 .. n
    BY <1>2, <1>6, <1>8, <1>11
  <2>2. ProcessedOf(c)' = ProcessedOf(c)
    BY <1>7, <1>9, <2>1
  <2>3. Processed(c)' = Processed(c)
    BY <2>2 DEF Processed
  <2> QED
    BY <1>11, <2>3 DEF t
<1> QED
  BY <1>10, <1>11

(* The text that Process adds is the next of its connection's.              *)
LEMMA NextToProcess ==
  ASSUME IInv, worker_pc = "process", NEW c \in Conns, request.text[1] = c
  PROVE  request.text[2] = Processed(c) + 1
<1> DEFINE j == Len(documents) + 1
<1>1. OwnerInv
  BY DEF IInv
<1>2. /\ Len(documents) \in Nat /\ ProcessedOf(c) = {i \in EnteredOf(c) : i <= Len(documents)}
      /\ IsFiniteSet(ProcessedOf(c)) /\ Processed(c) \in Nat
      /\ j \in DOMAIN Entered /\ Entered[j] = request.text
  BY <1>1, ProcessedEntered
<1>3. j \in EnteredOf(c) /\ EnteredOf(c) \subseteq 1 .. Len(Entered) /\ Len(Entered) \in Nat
  BY <1>1, <1>2, EnteredOfFinite DEF EnteredOf
<1>4. Entered[j] = <<c, Cardinality({i \in EnteredOf(c) : i <= j})>>
  BY <1>3 DEF IInv, NothingLost
<1>5. {i \in EnteredOf(c) : i <= j} = ProcessedOf(c) \union {j} /\ j \notin ProcessedOf(c)
  BY <1>2, <1>3
<1> HIDE DEF j
<1>6. Cardinality(ProcessedOf(c) \union {j}) = Processed(c) + 1
  BY <1>2, <1>5, FS_AddElement DEF Processed
<1>7. request.text = <<c, Processed(c) + 1>>
  BY <1>2, <1>4, <1>5, <1>6
<1> QED
  BY <1>7

-----------------------------------------------------------------------------
(* A connection with a request on its way is not answered to the end. *)
OnItsWay(c) ==
  \/ pc[c] = "enqueue"
  \/ inbox[c] # <<>>
  \/ \E i \in DOMAIN request_queue : request_queue[i].text[1] = c
  \/ worker_pc # "dequeue" /\ request.text[1] = c

(* No more is answered than processed, no more processed than enqueued,      *)
(* and no more enqueued than sent.                                          *)
LEMMA AnsweredProcessed ==
  ASSUME IInv, Served, NEW c \in Conns
  PROVE  /\ Answered(c) \in Nat /\ Processed(c) \in Nat /\ Enqueued(c) \in Nat
         /\ Len(sent[c]) \in 0 .. MaxRequests
         /\ Answered(c) <= Processed(c) /\ Processed(c) <= Enqueued(c)
         /\ Enqueued(c) <= Len(sent[c])
<1>1. OwnerInv /\ TypeOK /\ c \in Endpoints
  BY DEF IInv, OwnerInv, Endpoints
<1>2. Answered(c) \in Nat /\ Processed(c) \in Nat /\ Enqueued(c) \in Nat
      /\ Processed(c) <= Enqueued(c)
  BY <1>1, AnsweredNat, ProcessedEntered, EnteredOfFinite
<1>3. Len(sent[c]) \in Nat
  BY <1>1, LenProperties DEF TypeOK
<1>4. Enqueued(c) <= Len(sent[c]) /\ Len(sent[c]) <= MaxRequests
  BY DEF IInv, Inboxes
<1>5. Answered(c) <= Processed(c)
  BY <1>2 DEF Served, Replies
<1> QED
  BY <1>2, <1>3, <1>4, <1>5, ServerAssumption

(* Whoever has a request on its way still waits for an answer to it.        *)
LEMMA StillToAnswer ==
  ASSUME IInv, Served, NEW c \in Conns, OnItsWay(c)
  PROVE  Answered(c) # Len(sent[c]) /\ peer[c] # "closed"
         /\ pc[c] \notin {"remove", "close", "done"}
<1> DEFINE k == Enqueued(c)
           n == Len(sent[c])
<1>1. OwnerInv /\ TypeOK /\ c \in Endpoints
  BY DEF IInv, OwnerInv, Endpoints
<1>2. /\ Answered(c) \in Nat /\ Processed(c) \in Nat /\ k \in Nat /\ n \in 0 .. MaxRequests
      /\ Answered(c) <= Processed(c) /\ Processed(c) <= k /\ k <= n
  BY AnsweredProcessed
<1>3. Answered(c) # n
  <2>1. CASE pc[c] = "enqueue" \/ inbox[c] # <<>>
    <3>1. /\ Len(inbox[c]) \in Nat
          /\ Len(ToEnter(c)) = (IF pc[c] = "enqueue" THEN 1 ELSE 0) + Len(inbox[c])
      BY <1>1, ToEnterParts
    <3>2. inbox[c] # <<>> => Len(inbox[c]) # 0
      <4>1. inbox[c] \in Seq([text : Texts, type : Types \union Commands])
        BY <1>1 DEF TypeOK
      <4> QED
        BY <4>1, EmptySeq
    <3>3. Len(ToEnter(c)) # 0
      <4>1. CASE pc[c] = "enqueue"
        <5>1. Len(ToEnter(c)) = 1 + Len(inbox[c])
          BY <3>1, <4>1
        <5>2. Len(inbox[c]) \in Nat
          BY <3>1
        <5> QED
          BY <5>1, <5>2
      <4>2. CASE pc[c] # "enqueue"
        <5>1. Len(ToEnter(c)) = 0 + Len(inbox[c])
          BY <3>1, <4>2
        <5> QED
          BY <2>1, <3>1, <3>2, <4>2, <5>1
      <4> QED
        BY <4>1, <4>2
    <3>4. ToEnter(c) = Pending(c, k, n)
      BY DEF IInv, NothingLost, Pending
    <3> HIDE DEF k, n
    <3>5. Len(Pending(c, k, n)) = n - k
      BY <1>2, PendingSeq
    <3> QED
      BY <1>2, <3>3, <3>4, <3>5, ServerAssumption
  <2>2. CASE \E i \in DOMAIN request_queue : request_queue[i].text[1] = c
    <3>1. Processed(c) < k
      BY <1>1, <2>2, ProcessedEntered
    <3> HIDE DEF k, n
    <3> QED
      BY <1>2, <3>1, ServerAssumption
  <2>3. CASE worker_pc # "dequeue" /\ request.text[1] = c
    <3>1. CASE worker_pc = "process"
      <4>1. Processed(c) < k
        BY <1>1, <2>3, <3>1, ProcessedEntered
      <4> HIDE DEF k, n
      <4> QED
        BY <1>2, <4>1, ServerAssumption
    <3>2. CASE worker_pc = "send"
      <4>1. Processed(c) = Answered(c) + 1
        BY <2>3, <3>2 DEF Served, Replies, Sending
      <4> HIDE DEF k, n
      <4> QED
        BY <1>2, <4>1, ServerAssumption
    <3> QED
      BY <1>1, <2>3, <3>1, <3>2 DEF TypeOK
  <2> QED
    BY <2>1, <2>2, <2>3 DEF OnItsWay
<1> QED
  BY <1>1, <1>3 DEF Served, Endings

(* Routed, in the next state. *)
RoutedThen(r) ==
  LET c == r.text[1] IN
    /\ c \in Conns /\ pc'[c] \in {"read", "enqueue", "count"} /\ peer'[c] = "open"
    /\ r.client_fd = client_fd'[c]
    /\ r.text[2] \in DOMAIN sent'[c] /\ r.type = sent'[c][r.text[2]]

(* While a request is on its way nothing takes its connection away. *)
LEMMA ConnectionStays ==
  ASSUME Patient, IInv, Served, alive, [Next]_vars, NEW c \in Conns, OnItsWay(c)
  PROVE  /\ peer[c] = "open" => peer'[c] = "open"
         /\ pc[c] \in {"read", "enqueue", "count"} =>
              pc'[c] \in {"read", "enqueue", "count"} /\ client_fd'[c] = client_fd[c]
<1>1. OwnerInv /\ TypeOK /\ Writers /\ Kinds /\ c \in Endpoints
  BY OnlyWriters DEF IInv, OwnerInv, Endpoints
<1>2. Answered(c) # Len(sent[c]) /\ peer[c] # "closed" /\ pc[c] \notin {"remove", "close", "done"}
  BY StillToAnswer
<1>3. peer[c] = "open" => peer'[c] = "open"
  <2>1. ASSUME NEW e \in Endpoints, Connect(e)
        PROVE  peer[c] = "open" => peer'[c] = "open"
    BY <1>1, <2>1 DEF Connect, TypeOK
  <2>2. ASSUME NEW e \in Endpoints, Close(e)
        PROVE  e # c
    BY <1>2, <2>2 DEF Close, HungUp, Patient
  <2>3. ASSUME NEW e \in Endpoints, Close(e)
        PROVE  peer[c] = "open" => peer'[c] = "open"
    BY <1>1, <2>2, <2>3 DEF Close, TypeOK
  <2> QED
    BY <1>1, <2>1, <2>3 DEF Writers
<1>4. ASSUME pc[c] \in {"read", "enqueue", "count"}
      PROVE  pc'[c] \in {"read", "enqueue", "count"} /\ client_fd'[c] = client_fd[c]
  <2>1. ASSUME HandlerFail(c) PROVE FALSE
    <3>1. inbox[c] # <<>> => Head(inbox[c]).type \in Types
      <4>1. inbox[c] \in Seq([text : Texts, type : Types])
        BY <1>1 DEF Kinds
      <4>2. inbox[c] # <<>> => Head(inbox[c]) \in [text : Texts, type : Types]
        BY <4>1, HeadTailProperties
      <4> QED
        BY <4>2
    <3> QED
      BY <1>2, <2>1, <3>1 DEF HandlerFail, Patient
  <2>2. ASSUME NEW d \in Conns, Handler(d)
        PROVE  pc'[c] \in {"read", "enqueue", "count"} /\ client_fd'[c] = client_fd[c]
    <3>1. CASE d # c
      BY <1>1, <1>4, <2>2, <3>1
      DEF Handler, HandlerReceive, HandlerFail, HandlerEnqueue, HandlerCount, HandlerRemove,
          HandlerClose, HandlerGoto, TypeOK
    <3>2. CASE d = c
      BY <1>1, <1>4, <2>1, <2>2, <3>2
      DEF Handler, HandlerReceive, HandlerEnqueue, HandlerCount, HandlerRemove,
          HandlerClose, HandlerGoto, HandlerAt, TypeOK
    <3> QED
      BY <3>1, <3>2
  <2>3. CASE SpawnHandler \/ SpawnFails
    <3> DEFINE x == fds[new_fd]
    <3>1. pc[x] = "none" /\ x \in Conns
      BY <1>1, <2>3 DEF SpawnHandler, SpawnFails, MainAt, OwnerInv, MainThread
    <3>2. /\ pc' = [pc EXCEPT ![x] = "read"] \/ pc' = [pc EXCEPT ![x] = "unborn"]
          /\ client_fd' = [client_fd EXCEPT ![x] = new_fd]
      BY <2>3 DEF SpawnHandler, SpawnFails, StartHandler, HandlerGoto
    <3> HIDE DEF x
    <3> QED
      BY <1>1, <1>4, <3>1, <3>2 DEF TypeOK
  <2>4. CASE UNCHANGED handlers
    BY <1>4, <2>4 DEF handlers
  <2> QED
    BY <1>1, <2>2, <2>3, <2>4 DEF Writers
<1> QED
  BY <1>3, <1>4

(* A step leaves a request on its way with its connection.                  *)
LEMMA RoutedStays ==
  ASSUME Patient, IInv, Served, alive, [Next]_vars
  PROVE  \A r : Routed(r) /\ OnItsWay(r.text[1]) => RoutedThen(r)
<1> SUFFICES ASSUME NEW r, Routed(r), OnItsWay(r.text[1])
             PROVE  RoutedThen(r)
  OBVIOUS
<1> DEFINE c == r.text[1]
<1>1. OwnerInv /\ c \in Conns /\ c \in Endpoints
  BY DEF IInv, Routed, Endpoints
<1>2. peer'[c] = "open" /\ pc'[c] \in {"read", "enqueue", "count"} /\ client_fd'[c] = client_fd[c]
  BY <1>1, ConnectionStays DEF Routed
<1>3. \A i \in DOMAIN sent[c] : i \in DOMAIN sent'[c] /\ sent'[c][i] = sent[c][i]
  BY <1>1, SentGrows
<1> QED
  BY <1>2, <1>3 DEF Routed, RoutedThen

-----------------------------------------------------------------------------
(* The queue and the inboxes have their messages from where they come from. *)
LEMMA QueueElements ==
  ASSUME OwnerInv, [Next]_vars, NEW i \in DOMAIN request_queue'
  PROVE  \/ \E j \in DOMAIN request_queue : request_queue'[i] = request_queue[j]
         \/ \E c \in Conns : HandlerEnqueue(c) /\ request_queue'[i] = proc_req[c]
<1>1. /\ request_queue \in Seq(ProcessingRequests) /\ Writers /\ Kinds
      /\ DOMAIN request_queue = 1 .. Len(request_queue) /\ Len(request_queue) \in Nat
  BY OnlyWriters, LenProperties DEF OwnerInv, TypeOK
<1>2. CASE UNCHANGED request_queue
  BY <1>2
<1>3. CASE Dequeue
  <2>1. request_queue # <<>> /\ request_queue' = Tail(request_queue)
    BY <1>3 DEF Dequeue, Queue!Get
  <2>2. /\ request_queue' \in Seq(ProcessingRequests)
        /\ Len(request_queue') = Len(request_queue) - 1
        /\ \A k \in 1 .. Len(request_queue') : request_queue'[k] = request_queue[k + 1]
    BY <1>1, <2>1, HeadTailProperties
  <2>3. i \in 1 .. Len(request_queue) - 1
    BY <2>2, LenProperties
  <2>4. i + 1 \in DOMAIN request_queue /\ request_queue'[i] = request_queue[i + 1]
    BY <1>1, <2>2, <2>3
  <2> QED
    BY <2>4
<1>4. ASSUME NEW c \in Conns, HandlerEnqueue(c)
      PROVE  \/ \E j \in DOMAIN request_queue : request_queue'[i] = request_queue[j]
             \/ request_queue'[i] = proc_req[c]
  <2>1. request_queue' = Append(request_queue, proc_req[c]) /\ proc_req[c] \in ProcessingRequests
    BY <1>1, <1>4 DEF HandlerEnqueue, HandlerAt, Queue!Put, Kinds
  <2>2. /\ request_queue' \in Seq(ProcessingRequests)
        /\ Len(request_queue') = Len(request_queue) + 1
        /\ \A k \in 1 .. Len(request_queue) : request_queue'[k] = request_queue[k]
        /\ request_queue'[Len(request_queue) + 1] = proc_req[c]
    BY <1>1, <2>1, AppendProperties
  <2>3. i \in 1 .. Len(request_queue) + 1
    BY <2>2, LenProperties
  <2>4. i \in DOMAIN request_queue \/ i = Len(request_queue) + 1
    BY <1>1, <2>3
  <2> QED
    BY <1>1, <2>2, <2>4
<1> QED
  BY <1>1, <1>2, <1>3, <1>4 DEF Writers

(* What is in an inbox after a step was there before, or has just been sent. *)
LEMMA InboxElements ==
  ASSUME OwnerInv, [Next]_vars, NEW e \in Endpoints, NEW i \in DOMAIN inbox'[e]
  PROVE  \/ \E j \in DOMAIN inbox[e] : inbox'[e][i] = inbox[e][j]
         \/ \E type \in Types \union Commands :
              Send(e, type) /\ inbox'[e][i] = [text |-> <<e, Len(sent'[e])>>, type |-> type]
<1> DEFINE M == [text : Texts, type : Types \union Commands]
<1>1. /\ TypeOK /\ Writers /\ inbox[e] \in Seq(M)
      /\ DOMAIN inbox[e] = 1 .. Len(inbox[e]) /\ Len(inbox[e]) \in Nat
  BY OnlyWriters, LenProperties DEF OwnerInv, TypeOK
<1>2. CASE inbox'[e] = inbox[e]
  BY <1>2
<1>3. CASE inbox[e] # <<>> /\ inbox'[e] = Tail(inbox[e])
  <2>1. /\ inbox'[e] \in Seq(M) /\ Len(inbox'[e]) = Len(inbox[e]) - 1
        /\ \A k \in 1 .. Len(inbox'[e]) : inbox'[e][k] = inbox[e][k + 1]
    BY <1>1, <1>3, HeadTailProperties
  <2>2. i \in 1 .. Len(inbox[e]) - 1
    BY <2>1, LenProperties
  <2>3. i + 1 \in DOMAIN inbox[e] /\ inbox'[e][i] = inbox[e][i + 1]
    BY <1>1, <2>1, <2>2
  <2> QED
    BY <2>3
<1>4. ASSUME NEW type \in Types \union Commands, Send(e, type)
      PROVE  \/ \E j \in DOMAIN inbox[e] : inbox'[e][i] = inbox[e][j]
             \/ inbox'[e][i] = [text |-> <<e, Len(sent'[e])>>, type |-> type]
  <2> DEFINE m == [text |-> <<e, Len(sent'[e])>>, type |-> type]
  <2>1. inbox'[e] = Append(inbox[e], m)
    BY <1>1, <1>4 DEF Send, TypeOK
  <2>2. inbox'[e] \in Seq({inbox[e][k] : k \in 1 .. Len(inbox[e])} \union {m})
        /\ DOMAIN inbox'[e] = 1 .. Len(inbox[e]) + 1
        /\ (\A k \in 1 .. Len(inbox[e]) : inbox'[e][k] = inbox[e][k])
        /\ inbox'[e][Len(inbox[e]) + 1] = m
    <3> DEFINE S == {inbox[e][k] : k \in 1 .. Len(inbox[e])} \union {m}
    <3>1. inbox[e] \in [1 .. Len(inbox[e]) -> S]
      <4>1. inbox[e] \in [1 .. Len(inbox[e]) -> M]
        BY <1>1, LenProperties
      <4> QED
        BY <4>1
    <3>2. inbox[e] \in Seq(S) /\ m \in S
      BY <1>1, <3>1, FunctionIsSeq
    <3> HIDE DEF S, m
    <3>3. /\ Append(inbox[e], m) \in Seq(S) /\ Len(Append(inbox[e], m)) = Len(inbox[e]) + 1
          /\ \A k \in 1 .. Len(inbox[e]) : Append(inbox[e], m)[k] = inbox[e][k]
          /\ Append(inbox[e], m)[Len(inbox[e]) + 1] = m
      BY <3>2, AppendProperties
    <3>4. DOMAIN Append(inbox[e], m) = 1 .. Len(inbox[e]) + 1
      BY <3>3, LenProperties
    <3> QED
      BY <2>1, <3>3, <3>4 DEF S
  <2> HIDE DEF m
  <2>3. i \in DOMAIN inbox[e] \/ i = Len(inbox[e]) + 1
    BY <1>1, <2>2
  <2>4. inbox'[e][i] = m \/ \E j \in DOMAIN inbox[e] : inbox'[e][i] = inbox[e][j]
    BY <1>1, <2>2, <2>3
  <2> QED
    BY <2>4 DEF m
<1>5. ASSUME inbox'[e] # inbox[e]
      PROVE  \/ inbox[e] # <<>> /\ inbox'[e] = Tail(inbox[e])
             \/ \E type \in Types \union Commands : Send(e, type)
  <2>1. ASSUME NEW d \in Endpoints, NEW type \in Types \union Commands, Send(d, type)
        PROVE  d = e
    BY <1>1, <1>5, <2>1 DEF Send, TypeOK
  <2>2. ASSUME NEW c \in Conns, HandlerReceive(c)
        PROVE  inbox[e] # <<>> /\ inbox'[e] = Tail(inbox[e])
    BY <1>1, <1>5, <2>2 DEF HandlerReceive, TypeOK
  <2>3. CASE AdminReceive
    BY <1>1, <1>5, <2>3 DEF AdminReceive, TypeOK
  <2> QED
    BY <1>1, <1>5, <2>1, <2>2, <2>3 DEF Writers, ClientSend, AdminSend, Endpoints
<1> QED
  BY <1>2, <1>3, <1>4, <1>5

(* A command is answered by a write or more. *)
LEMMA CommandWrites ==
  ASSUME NEW command \in Commands
  PROVE  Writes[command] \in Nat \ {0}
BY ServerAssumption

(* A write goes to a program that is there; what it says. *)
LEMMA WhatIsWritten ==
  ASSUME OwnerInv, [Next]_vars, NEW e \in Endpoints, outbox'[e] # outbox[e]
  PROVE  /\ peer[e] = "open" /\ UNCHANGED world
         /\ \/ /\ SendPart /\ NextPart /\ worker_pc = "send"
               /\ fds[request.client_fd] = e
               /\ outbox'[e] = Append(outbox[e], [text |-> request.text,
                                                  type |-> request.type, part |-> part])
            \/ /\ AdminReply /\ main_pc = "admin_send" /\ fds[new_fd] = e
               /\ outbox'[e] = Append(outbox[e], [text |-> <<e, 1>>,
                                                  type |-> admin_resp.command,
                                                  part |-> Cardinality(WritesMade(e)) + 1])
<1>1. TypeOK /\ (SendPart \/ AdminReply)
  BY WireWriters DEF OwnerInv
<1>2. CASE SendPart
  <2> DEFINE d == fds[request.client_fd]
  <2>1. /\ Deliver(d, request.text, request.type, part) /\ NextPart
        /\ worker_pc = "send" /\ UNCHANGED world
    BY <1>2 DEF SendPart, WorkerAt, Killed, wire
  <2> HIDE DEF d
  <2>2. d = e
    BY <1>1, <2>1 DEF Deliver, TypeOK
  <2> QED
    BY <1>1, <1>2, <2>1, <2>2 DEF Deliver, TypeOK, d
<1>3. CASE AdminReply
  <2> DEFINE a == fds[new_fd]
             k == Cardinality(WritesMade(a)) + 1
  <2>1. Deliver(a, <<a, 1>>, admin_resp.command, k) /\ main_pc = "admin_send" /\ UNCHANGED world
    <3>1. UNCHANGED world /\ main_pc = "admin_send"
      BY <1>3 DEF AdminReply, MainAt
    <3>2. Deliver(a, <<a, 1>>, admin_resp.command, k) \/ Killed(a)
      BY <1>3 DEF AdminReply
    <3> QED
      BY <3>1, <3>2 DEF Killed
  <2> HIDE DEF a, k
  <2>2. a = e
    BY <1>1, <2>1 DEF Deliver, TypeOK
  <2>3. outbox'[e] = Append(outbox[e], [text |-> <<e, 1>>, type |-> admin_resp.command,
                                         part |-> k])
    BY <1>1, <2>1, <2>2 DEF Deliver, TypeOK
  <2> QED
    BY <1>3, <2>1, <2>2, <2>3 DEF Deliver, a, k
<1> QED
  BY <1>1, <1>2, <1>3

-----------------------------------------------------------------------------
(* Every step keeps the requests in the server's hands at their             *)
(* connections, since no program goes before it is answered.                *)
LEMMA NextInFlight ==
  ASSUME Patient, IInv, Served, alive, [Next]_vars
  PROVE  InFlight'
<1>1. OwnerInv /\ TypeOK /\ Writers /\ Kinds /\ InFlight /\ Messages /\ NotAccepted
  BY OnlyWriters DEF IInv, OwnerInv, Served
<1>2. \A r : Routed(r) /\ OnItsWay(r.text[1]) => RoutedThen(r)
  BY RoutedStays
<1>3. ASSUME NEW c \in Conns, pc'[c] = "enqueue"
      PROVE  RoutedThen(proc_req'[c]) /\ proc_req'[c].text[1] = c
  <2>1. CASE HandlerReceive(c)
    <3> DEFINE m == Head(inbox[c])
               r == [client_fd |-> client_fd[c], text |-> m.text, type |-> m.type]
    <3>1. pc[c] = "read" /\ inbox[c] # <<>> /\ proc_req'[c] = r
      BY <1>1, <2>1 DEF HandlerReceive, HandlerAt, TypeOK
    <3>2. m.text[1] = c /\ m.text[2] \in DOMAIN sent[c] /\ m.type = sent[c][m.text[2]]
      <4>1. inbox[c] \in Seq([text : Texts, type : Types])
        BY <1>1 DEF Kinds
      <4>2. Len(inbox[c]) \in Nat \ {0} /\ m = inbox[c][1] /\ DOMAIN inbox[c] = 1 .. Len(inbox[c])
        BY <3>1, <4>1, HeadTailProperties, EmptySeq, LenProperties
      <4> QED
        BY <1>1, <4>2 DEF Messages, Endpoints
    <3>3. peer[c] = "open"
      <4>1. peer[c] # "closed"
        BY <3>1, StillToAnswer DEF OnItsWay
      <4>2. peer[c] # "idle"
        BY <1>1, <3>1 DEF NotAccepted, Untouched, Endpoints
      <4> QED
        BY <1>1, <4>1, <4>2 DEF TypeOK, Endpoints
    <3> HIDE DEF m
    <3>4. Routed(r) /\ r.text[1] = c
      BY <3>1, <3>2, <3>3 DEF Routed
    <3>5. OnItsWay(c)
      BY <3>1 DEF OnItsWay
    <3> HIDE DEF r
    <3> QED
      BY <1>2, <3>1, <3>4, <3>5
  <2>2. CASE ~ HandlerReceive(c)
    <3>1. pc[c] = "enqueue" /\ proc_req'[c] = proc_req[c]
      <4>1. ASSUME NEW d \in Conns, Handler(d)
            PROVE  pc[c] = "enqueue" /\ proc_req'[c] = proc_req[c]
        BY <1>1, <1>3, <2>2, <4>1
        DEF Handler, HandlerReceive, HandlerFail, HandlerEnqueue, HandlerCount, HandlerRemove,
            HandlerClose, HandlerGoto, HandlerAt, TypeOK
      <4>2. CASE SpawnHandler \/ SpawnFails
        <5> DEFINE x == fds[new_fd]
        <5>1. x \in Conns
          BY <1>1, <4>2 DEF SpawnHandler, SpawnFails, MainAt, OwnerInv, MainThread
        <5>2. /\ pc' = [pc EXCEPT ![x] = "read"] \/ pc' = [pc EXCEPT ![x] = "unborn"]
              /\ proc_req' = proc_req
          BY <4>2 DEF SpawnHandler, SpawnFails, StartHandler, HandlerGoto
        <5> HIDE DEF x
        <5> QED
          BY <1>1, <1>3, <5>1, <5>2 DEF TypeOK
      <4>3. CASE UNCHANGED handlers
        BY <1>3, <4>3 DEF handlers
      <4> QED
        BY <1>1, <4>1, <4>2, <4>3 DEF Writers
    <3>2. Routed(proc_req[c]) /\ proc_req[c].text[1] = c /\ OnItsWay(c)
      BY <1>1, <3>1 DEF InFlight, OnItsWay
    <3> QED
      BY <1>2, <3>1, <3>2
  <2> QED
    BY <2>1, <2>2
<1>4. ASSUME NEW i \in DOMAIN request_queue'
      PROVE  RoutedThen(request_queue'[i])
  <2>1. ASSUME NEW j \in DOMAIN request_queue
        PROVE  RoutedThen(request_queue[j])
    BY <1>1, <1>2 DEF InFlight, OnItsWay
  <2>2. ASSUME NEW c \in Conns, HandlerEnqueue(c)
        PROVE  RoutedThen(proc_req[c])
    BY <1>1, <1>2, <2>2 DEF HandlerEnqueue, HandlerAt, InFlight, OnItsWay
  <2> QED
    BY <1>1, <2>1, <2>2, QueueElements
<1>5. ASSUME worker_pc' # "dequeue"
      PROVE  RoutedThen(request')
  <2>1. CASE Dequeue
    <3>1. request_queue # <<>> /\ request' = Head(request_queue)
      BY <2>1 DEF Dequeue, Queue!Get
    <3>2. 1 \in DOMAIN request_queue /\ request' = request_queue[1]
      <4>1. request_queue \in Seq(ProcessingRequests)
        BY <1>1 DEF TypeOK
      <4> QED
        BY <3>1, <4>1, HeadTailProperties, EmptySeq, LenProperties
    <3>3. Routed(request_queue[1]) /\ OnItsWay(request_queue[1].text[1])
      BY <1>1, <3>2 DEF InFlight, OnItsWay
    <3> QED
      BY <1>2, <3>2, <3>3
  <2>2. CASE ~ Dequeue
    <3>1. worker_pc # "dequeue" /\ request' = request
      BY <1>1, <1>5, <2>2
      DEF Writers, Worker, Process, SendPart, NextPart, FinishSend, WorkerAt, worker
    <3>2. Routed(request) /\ OnItsWay(request.text[1])
      BY <1>1, <3>1 DEF InFlight, OnItsWay
    <3> QED
      BY <1>2, <3>1, <3>2
  <2> QED
    BY <2>1, <2>2
<1> QED
  BY <1>3, <1>4, <1>5 DEF InFlight, Routed, RoutedThen

(* What is read is what was sent: sent never changes but at its end.        *)
LEMMA NextMessages ==
  ASSUME IInv, Served, [Next]_vars
  PROVE  Messages'
<1>1. OwnerInv /\ Messages
  BY DEF IInv, Served
<1>2. ASSUME NEW e \in Endpoints, NEW i \in DOMAIN inbox'[e]
      PROVE  /\ inbox'[e][i].text[1] = e /\ inbox'[e][i].text[2] \in DOMAIN sent'[e]
             /\ inbox'[e][i].type = sent'[e][inbox'[e][i].text[2]]
  <2>1. ASSUME NEW j \in DOMAIN inbox[e], inbox'[e][i] = inbox[e][j]
        PROVE  /\ inbox'[e][i].text[1] = e /\ inbox'[e][i].text[2] \in DOMAIN sent'[e]
               /\ inbox'[e][i].type = sent'[e][inbox'[e][i].text[2]]
    BY <1>1, <2>1, SentGrows DEF Messages
  <2>2. ASSUME NEW type \in Types \union Commands, Send(e, type),
               inbox'[e][i] = [text |-> <<e, Len(sent'[e])>>, type |-> type]
        PROVE  /\ inbox'[e][i].text[1] = e /\ inbox'[e][i].text[2] \in DOMAIN sent'[e]
               /\ inbox'[e][i].type = sent'[e][inbox'[e][i].text[2]]
    <3> DEFINE n == Len(sent[e])
    <3>1. sent[e] \in Seq(Types \union Commands) /\ n \in Nat
      BY <1>1, LenProperties DEF OwnerInv, TypeOK
    <3>2. sent'[e] = Append(sent[e], type)
      BY <1>1, <2>2 DEF OwnerInv, TypeOK, Send
    <3>3. Len(sent'[e]) = n + 1 /\ sent'[e][n + 1] = type /\ n + 1 \in DOMAIN sent'[e]
      <4>1. /\ sent'[e] \in Seq(Types \union Commands) /\ Len(sent'[e]) = n + 1
            /\ sent'[e][n + 1] = type
        BY <3>1, <3>2, AppendProperties
      <4> QED
        BY <3>1, <4>1, LenProperties
    <3> QED
      BY <2>2, <3>3
  <2> QED
    BY <1>1, <2>1, <2>2, InboxElements
<1> QED
  BY <1>2 DEF Messages

(* A program has all its answers when it closes. *)
LEMMA NextEndings ==
  ASSUME Patient, IInv, Served, alive, [Next]_vars
  PROVE  Endings'
<1>1. OwnerInv /\ TypeOK /\ Writers /\ Kinds /\ Endings
  BY OnlyWriters DEF IInv, OwnerInv, Served
<1>2. ASSUME NEW c \in Conns, pc'[c] \in {"remove", "close", "done"}
      PROVE  peer'[c] = "closed"
  <2>1. CASE HandlerFail(c)
    <3>1. inbox[c] # <<>> => Head(inbox[c]).type \in Types
      <4>1. inbox[c] \in Seq([text : Texts, type : Types])
        BY <1>1 DEF Kinds
      <4>2. inbox[c] # <<>> => Head(inbox[c]) \in [text : Texts, type : Types]
        BY <4>1, HeadTailProperties
      <4> QED
        BY <4>2
    <3> QED
      BY <2>1, <3>1 DEF HandlerFail, Patient, world
  <2>2. CASE ~ HandlerFail(c)
    <3>1. pc[c] \in {"remove", "close", "done"}
      <4>1. ASSUME NEW d \in Conns, Handler(d)
            PROVE  pc[c] \in {"remove", "close", "done"}
        BY <1>1, <1>2, <2>2, <4>1
        DEF Handler, HandlerReceive, HandlerFail, HandlerEnqueue, HandlerCount, HandlerRemove,
            HandlerClose, HandlerGoto, HandlerAt, TypeOK
      <4>2. CASE SpawnHandler \/ SpawnFails
        <5> DEFINE x == fds[new_fd]
        <5>1. x \in Conns
          BY <1>1, <4>2 DEF SpawnHandler, SpawnFails, MainAt, OwnerInv, MainThread
        <5>2. pc' = [pc EXCEPT ![x] = "read"] \/ pc' = [pc EXCEPT ![x] = "unborn"]
          BY <4>2 DEF SpawnHandler, SpawnFails, StartHandler, HandlerGoto
        <5> HIDE DEF x
        <5> QED
          BY <1>1, <1>2, <5>1, <5>2 DEF TypeOK
      <4>3. CASE UNCHANGED handlers
        BY <1>2, <4>3 DEF handlers
      <4> QED
        BY <1>1, <4>1, <4>2, <4>3 DEF Writers
    <3>2. peer[c] = "closed"
      BY <1>1, <3>1 DEF Endings
    <3> QED
      BY <1>1, <3>2 DEF Writers, Connect, Close, TypeOK, Endpoints
  <2> QED
    BY <2>1, <2>2
<1>3. ASSUME NEW e \in Endpoints, peer'[e] = "closed"
      PROVE  Answered(e)' = Len(sent'[e])
  <2>1. CASE peer[e] = "closed"
    <3>1. sent'[e] = sent[e]
      BY <1>1, <2>1, SentGrows DEF Send
    <3>2. outbox'[e] = outbox[e]
      BY <1>1, <2>1, WhatIsWritten
    <3> QED
      BY <1>1, <2>1, <3>1, <3>2, SameAnswered DEF Endings
  <2>2. CASE peer[e] # "closed"
    <3>1. Close(e)
      <4>1. ASSUME NEW d \in Endpoints, Connect(d)
            PROVE  FALSE
        BY <1>1, <1>3, <2>2, <4>1 DEF Connect, TypeOK
      <4>2. PICK d \in Endpoints : Close(d)
        BY <1>1, <1>3, <2>2, <4>1 DEF Writers
      <4> QED
        BY <1>1, <1>3, <2>2, <4>2 DEF Close, TypeOK
    <3>2. Answered(e) = Len(sent[e])
      BY <1>1, <3>1 DEF Close, HungUp, Patient, Endings
    <3>3. sent' = sent /\ outbox' = outbox
      BY <3>1 DEF Close, wire
    <3>4. Answered(e)' = Answered(e)
      BY <3>3, SameAnswered
    <3> QED
      BY <3>2, <3>3, <3>4
  <2> QED
    BY <2>1, <2>2
<1> QED
  BY <1>2, <1>3 DEF Endings

-----------------------------------------------------------------------------
(* A write of a response goes to the connection of the request: it is open. *)
LEMMA SendPartDelivers ==
  ASSUME IInv, Served, SendPart
  PROVE  LET c == request.text[1]
             p == [text |-> request.text, type |-> request.type, part |-> part] IN
           /\ worker_pc = "send" /\ c \in Conns /\ p \in Pieces /\ Sending(c)
           /\ Deliver(c, request.text, request.type, part) /\ NextPart
           /\ outbox' = [outbox EXCEPT ![c] = Append(@, p)]
           /\ request' = request /\ documents' = documents /\ alive' = alive
<1> DEFINE c == request.text[1]
<1>1. /\ worker_pc = "send" /\ request \in ProcessingRequests /\ Routed(request)
      /\ Descriptors /\ TypeOK
  BY DEF SendPart, WorkerAt, IInv, OwnerInv, Kinds, Served, InFlight
<1>2. c \in Conns /\ peer[c] = "open" /\ fds[request.client_fd] = c /\ c # Free
  BY <1>1, ServerAssumption DEF Routed, Descriptors
<1>3. /\ Deliver(c, request.text, request.type, part) /\ NextPart
      /\ request' = request /\ documents' = documents
  BY <1>2 DEF SendPart, Killed, Broken
<1>4. [text |-> request.text, type |-> request.type, part |-> part] \in Pieces
  BY <1>1 DEF ProcessingRequests, Pieces, TypeOK
<1> QED
  BY <1>1, <1>2, <1>3, <1>4 DEF Deliver, Sending

(* The other steps change nothing of what the processing thread sends.      *)
LEMMA OthersSendNothing ==
  ASSUME IInv, Served, [Next]_vars, ~ Process, ~ SendPart
  PROVE  /\ documents' = documents /\ part' = part
         /\ worker_pc' = "send" <=> worker_pc = "send"
         /\ worker_pc = "send" => request' = request
         /\ \A c \in Conns : outbox'[c] = outbox[c]
<1>1. Writers /\ MainThread
  BY OnlyWriters DEF IInv, OwnerInv
<1>2. /\ documents' = documents /\ part' = part
      /\ worker_pc' = "send" <=> worker_pc = "send"
      /\ worker_pc = "send" => request' = request
  BY <1>1 DEF Writers, Worker, Dequeue, WorkerAt, worker
<1>3. ASSUME NEW c \in Conns
      PROVE  outbox'[c] = outbox[c]
  <2>1. SUFFICES ASSUME outbox'[c] # outbox[c] PROVE FALSE
    OBVIOUS
  <2>2. main_pc = "admin_send" /\ fds[new_fd] = c
    BY <2>1, WhatIsWritten DEF IInv, Endpoints
  <2> QED
    BY <1>1, <2>2, ServerAssumption DEF MainThread, AdminLocations
<1> QED
  BY <1>2, <1>3

(* SendPart writes the next part, and all other steps leave the account of   *)
(* process_requests as it is.                                               *)
LEMMA NextReplies ==
  ASSUME Patient, IInv, Served, alive, [Next]_vars
  PROVE  Replies'
<1> DEFINE Last(c) == outbox[c][Len(outbox[c])]
           LastThen(c) == outbox'[c][Len(outbox'[c])]
           SendingThen(c) == worker_pc' = "send" /\ request'.text[1] = c
<1>1. OwnerInv /\ TypeOK /\ Kinds /\ Replies
  BY DEF IInv, OwnerInv, Served
<1>2. \A c \in Conns : Answered(c) \in Nat /\ Processed(c) \in Nat
  BY <1>1, AnsweredNat, ProcessedEntered DEF Endpoints
<1>3. SUFFICES
        /\ worker_pc' # "send" => part' = 1
        /\ \A c \in Conns :
             /\ SendingThen(c) =>
                  /\ request'.text[2] = Processed(c)' /\ Processed(c)' = Answered(c)' + 1
                  /\ part' <= Writes[request'.type]
             /\ ~ SendingThen(c) => Processed(c)' = Answered(c)'
             /\ outbox'[c] = <<>> /\ SendingThen(c) => part' = 1
             /\ outbox'[c] # <<>> =>
                  /\ LastThen(c).part < Writes[LastThen(c).type] =>
                       /\ SendingThen(c)
                       /\ LastThen(c) = [text |-> request'.text, type |-> request'.type,
                                         part |-> part' - 1]
                  /\ ~ LastThen(c).part < Writes[LastThen(c).type] =>
                       LastThen(c).text[2] = Answered(c)' /\ (SendingThen(c) => part' = 1)
  BY DEF Replies, Sending
<1>4. worker_pc # "send" => part = 1
  BY <1>1 DEF Replies
<1>5. \A c \in Conns :
        /\ Sending(c) => /\ request.text[2] = Processed(c) /\ Processed(c) = Answered(c) + 1
                         /\ part <= Writes[request.type]
        /\ ~ Sending(c) => Processed(c) = Answered(c)
        /\ outbox[c] = <<>> /\ Sending(c) => part = 1
        /\ outbox[c] # <<>> =>
             /\ Last(c).part < Writes[Last(c).type] =>
                  /\ Sending(c)
                  /\ Last(c) = [text |-> request.text, type |-> request.type, part |-> part - 1]
             /\ ~ Last(c).part < Writes[Last(c).type] =>
                  Last(c).text[2] = Answered(c) /\ (Sending(c) => part = 1)
  BY <1>1 DEF Replies
(* Where nothing of a connection changes. *)
<1>6. ASSUME NEW c \in Conns, outbox'[c] = outbox[c]
      PROVE  Answered(c)' = Answered(c) /\ LastThen(c) = Last(c)
  BY <1>6, SameAnswered
<1> HIDE DEF Last, LastThen
<1>7. CASE ~ Process /\ ~ SendPart
  <2>1. /\ documents' = documents /\ part' = part
        /\ worker_pc' = "send" <=> worker_pc = "send"
        /\ worker_pc = "send" => request' = request
        /\ \A c \in Conns : outbox'[c] = outbox[c]
    BY <1>7, OthersSendNothing
  <2>2. ASSUME NEW c \in Conns
        PROVE  /\ SendingThen(c) <=> Sending(c)
               /\ Sending(c) => request' = request
               /\ Processed(c)' = Processed(c)
               /\ outbox'[c] = outbox[c] /\ Answered(c)' = Answered(c) /\ LastThen(c) = Last(c)
    <3>1. Processed(c)' = Processed(c)
      BY <2>1 DEF Processed, ProcessedOf
    <3> QED
      BY <1>6, <2>1, <3>1 DEF Sending
  <2> HIDE DEF SendingThen
  <2> QED
    BY <1>4, <1>5, <2>1, <2>2
<1>8. CASE Process
  <2> DEFINE d == request.text[1]
  <2>1. /\ worker_pc = "process" /\ worker_pc' = "send" /\ request' = request
        /\ part' = part /\ part = 1 /\ outbox' = outbox
    BY <1>4, <1>8 DEF Process, WorkerAt, wire
  <2>2. d \in Conns /\ request.type \in Types
    BY <1>1, <2>1 DEF Served, InFlight, Routed, Kinds, ProcessingRequests
  <2>3. request.text[2] = Processed(d) + 1
    BY <2>1, <2>2, NextToProcess
  <2>4. Writes[request.type] \in Nat \ {0}
    BY <2>2, ServerAssumption DEF Patient
  <2>5. ASSUME NEW c \in Conns
        PROVE  /\ ~ Sending(c) /\ (SendingThen(c) <=> d = c)
               /\ d = c => Processed(c)' = Processed(c) + 1
               /\ d # c => Processed(c)' = Processed(c)
               /\ outbox'[c] = outbox[c] /\ Answered(c)' = Answered(c) /\ LastThen(c) = Last(c)
    BY <1>1, <1>6, <1>8, <2>1, OneMoreProcessed DEF Sending
  <2> HIDE DEF SendingThen, d
  <2>6. ASSUME NEW c \in Conns
        PROVE  /\ SendingThen(c) =>
                    /\ request'.text[2] = Processed(c)' /\ Processed(c)' = Answered(c)' + 1
                    /\ part' <= Writes[request'.type]
               /\ ~ SendingThen(c) => Processed(c)' = Answered(c)'
    <3>1. Processed(c) = Answered(c)
      BY <1>5, <2>5
    <3>2. CASE d = c
      BY <1>2, <2>1, <2>3, <2>4, <2>5, <3>1, <3>2
    <3>3. CASE d # c
      BY <2>5, <3>1, <3>3
    <3> QED
      BY <3>2, <3>3
  <2>7. ASSUME NEW c \in Conns, outbox'[c] # <<>>
        PROVE  /\ ~ LastThen(c).part < Writes[LastThen(c).type]
               /\ LastThen(c).text[2] = Answered(c)' /\ part' = 1
    BY <1>5, <2>1, <2>5, <2>7
  <2> QED
    BY <2>1, <2>6, <2>7
<1>9. CASE SendPart
  <2> DEFINE p == [text |-> request.text, type |-> request.type, part |-> part]
  <2> PICK d \in Conns : d = request.text[1]
    BY <1>9, SendPartDelivers
  <2>1. /\ worker_pc = "send" /\ d \in Conns /\ p \in Pieces /\ Sending(d) /\ NextPart
        /\ outbox' = [outbox EXCEPT ![d] = Append(@, p)]
        /\ request' = request /\ documents' = documents
    BY <1>9, SendPartDelivers
  <2>2. /\ request.text[2] = Processed(d) /\ Processed(d) = Answered(d) + 1
        /\ part <= Writes[request.type] /\ part \in Nat \ {0}
        /\ Writes[request.type] \in Nat \ {0}
    <3>1. request.type \in Types
      BY <1>1, <2>1 DEF Kinds, ProcessingRequests
    <3>2. Writes[request.type] \in Nat \ {0}
      BY <3>1, ServerAssumption DEF Patient
    <3> QED
      BY <1>1, <1>5, <2>1, <3>2 DEF TypeOK
  <2>3. \A c \in Conns : Processed(c)' = Processed(c)
    BY <2>1 DEF Processed, ProcessedOf
  <2>4. ASSUME NEW c \in Conns, c # d
        PROVE  /\ ~ Sending(c) /\ ~ SendingThen(c)
               /\ outbox'[c] = outbox[c] /\ Answered(c)' = Answered(c) /\ LastThen(c) = Last(c)
    <3>1. outbox'[c] = outbox[c]
      BY <1>1, <2>1, <2>4 DEF TypeOK, Endpoints
    <3> QED
      BY <1>6, <2>1, <2>4, <3>1 DEF Sending
  <2>5. /\ outbox'[d] # <<>> /\ LastThen(d) = p
        /\ part = Writes[request.type] => Answered(d)' = Answered(d) + 1
        /\ part # Writes[request.type] => Answered(d)' = Answered(d)
    <3> HIDE DEF p
    <3>1. outbox'[d] = Append(outbox[d], p) /\ d \in Endpoints
      BY <1>1, <2>1 DEF TypeOK, Endpoints
    <3>2. outbox[d] \in Seq(Pieces)
      BY <1>1, <3>1, AnsweredNat
    <3>3. outbox'[d] # <<>>
      BY <2>1, <3>1, <3>2, AppendProperties
    <3>4. /\ Len(outbox'[d]) = Len(outbox[d]) + 1 /\ outbox'[d][Len(outbox[d]) + 1] = p
          /\ p.part = Writes[p.type] => Answered(d)' = Answered(d) + 1
          /\ p.part # Writes[p.type] => Answered(d)' = Answered(d)
      BY <1>1, <2>1, <3>1, OneMoreAnswered
    <3>5. p.part = part /\ p.type = request.type
      BY DEF p
    <3> QED
      BY <3>3, <3>4, <3>5 DEF LastThen
  <2>6. /\ p.part = part /\ p.type = request.type /\ p.text = request.text
        /\ p = [text |-> request.text, type |-> request.type, part |-> part]
    OBVIOUS
  <2>7. CASE part = Writes[request.type]
    <3>1. worker_pc' = "dequeue" /\ part' = 1
      BY <2>1, <2>7 DEF NextPart, FinishSend
    <3>2. \A c \in Conns : ~ SendingThen(c)
      BY <3>1
    <3>3. Processed(d)' = Answered(d)' /\ p.text[2] = Answered(d)'
      BY <1>2, <2>1, <2>2, <2>3, <2>5, <2>6, <2>7
    <3>4. ~ p.part < Writes[p.type]
      BY <2>2, <2>6, <2>7
    <3> HIDE DEF SendingThen, p
    <3>5. ASSUME NEW c \in Conns
          PROVE  /\ Processed(c)' = Answered(c)'
                 /\ outbox'[c] # <<>> => /\ ~ LastThen(c).part < Writes[LastThen(c).type]
                                         /\ LastThen(c).text[2] = Answered(c)'
      <4>1. CASE c = d
        BY <2>5, <3>3, <3>4, <4>1
      <4>2. CASE c # d
        BY <1>5, <2>3, <2>4, <4>2
      <4> QED
        BY <4>1, <4>2
    <3> QED
      BY <3>1, <3>2, <3>5
  <2>8. CASE part # Writes[request.type]
    <3>1. worker_pc' = "send" /\ part' = part + 1
      BY <2>1, <2>8 DEF NextPart
    <3>2. SendingThen(d)
      BY <2>1, <3>1
    <3>3. part' <= Writes[request.type] /\ part' - 1 = part /\ part < Writes[request.type]
      BY <2>2, <2>8, <3>1
    <3>4. /\ request'.text[2] = Processed(d)' /\ Processed(d)' = Answered(d)' + 1
          /\ part' <= Writes[request'.type]
      BY <2>1, <2>2, <2>3, <2>5, <2>8, <3>3
    <3>5. /\ LastThen(d).part < Writes[LastThen(d).type]
          /\ LastThen(d) = [text |-> request'.text, type |-> request'.type, part |-> part' - 1]
      BY <2>1, <2>5, <2>6, <3>3
    <3> HIDE DEF SendingThen, p
    <3>6. ASSUME NEW c \in Conns, c # d
          PROVE  /\ ~ SendingThen(c) /\ Processed(c)' = Answered(c)'
                 /\ outbox'[c] # <<>> => /\ ~ LastThen(c).part < Writes[LastThen(c).type]
                                         /\ LastThen(c).text[2] = Answered(c)'
      BY <1>5, <2>3, <2>4, <3>6
    <3> QED
      BY <2>5, <3>1, <3>2, <3>4, <3>5, <3>6
  <2> QED
    BY <2>7, <2>8
<1> QED
  BY <1>7, <1>8, <1>9

-----------------------------------------------------------------------------
(* A connection of an admin client stays at its descriptor while the main   *)
(* thread serves it, and one that is new has got nothing yet.               *)
LEMMA UnansweredBefore ==
  ASSUME IInv, Served, [Next]_vars, NEW a \in Admins, Unanswered(a)'
  PROVE  Unanswered(a) /\ ~ (AdminReply /\ fds[new_fd] = a)
<1>1. /\ OwnerInv /\ TypeOK /\ Writers /\ MainThread /\ NotAccepted /\ Kinds /\ Descriptors
      /\ a \in Endpoints /\ a \notin Conns /\ a # Free /\ -1 \notin Fds
  BY OnlyWriters, ServerAssumption DEF IInv, OwnerInv, Endpoints
<1>2. CASE peer'[a] = "idle"
  <2>1. peer[a] = "idle"
    BY <1>1, <1>2 DEF Writers, Connect, Close, TypeOK
  <2>2. ~ (AdminReply /\ fds[new_fd] = a)
    BY <1>1, <2>1 DEF AdminReply, MainAt, MainThread, AdminLocations, NotAccepted, Untouched
  <2> QED
    BY <2>1, <2>2 DEF Unanswered
<1>3. CASE \E k \in DOMAIN backlog'["unix"] : backlog'["unix"][k] = a
  <2>1. PICK k \in DOMAIN backlog'["unix"] : backlog'["unix"][k] = a
    BY <1>3
  <2>2. /\ backlog["unix"] \in Seq(Admins) /\ Len(backlog["unix"]) \in Nat
        /\ DOMAIN backlog["unix"] = 1 .. Len(backlog["unix"])
    BY <1>1, LenProperties DEF Kinds
  <2>3. CASE backlog'["unix"] = backlog["unix"]
    <3>1. Untouched(a) /\ Unanswered(a)
      BY <1>1, <2>1, <2>3 DEF NotAccepted, Unanswered
    <3> QED
      BY <1>1, <3>1 DEF AdminReply, MainAt, MainThread, AdminLocations, Untouched
  <2>4. ASSUME NEW e \in Endpoints, Connect(e), backlog'["unix"] # backlog["unix"]
        PROVE  Unanswered(a) /\ ~ AdminReply
    <3>1. backlog'["unix"] = Append(backlog["unix"], e) /\ e \in Admins /\ peer[e] = "idle"
      BY <1>1, <2>4 DEF Connect, Endpoints, TypeOK
    <3>2. /\ Len(backlog'["unix"]) = Len(backlog["unix"]) + 1
          /\ DOMAIN backlog'["unix"] = 1 .. Len(backlog["unix"]) + 1
          /\ \A i \in 1 .. Len(backlog["unix"]) : backlog'["unix"][i] = backlog["unix"][i]
          /\ backlog'["unix"][Len(backlog["unix"]) + 1] = e
      BY <2>2, <3>1, AppendProperties, LenProperties
    <3>3. k \in DOMAIN backlog["unix"] \/ k = Len(backlog["unix"]) + 1
      BY <2>2, <3>2
    <3>4. Unanswered(a)
      BY <2>1, <2>2, <3>1, <3>2, <3>3 DEF Unanswered
    <3>5. ~ AdminReply
      BY <2>4, <3>1 DEF AdminReply, world
    <3> QED
      BY <3>4, <3>5
  <2>5. CASE AcceptAdmin
    <3>1. backlog["unix"] # <<>> /\ backlog'["unix"] = Tail(backlog["unix"])
      BY <1>1, <2>5 DEF AcceptAdmin, Accept, MainAt, MainThread, TypeOK
    <3>2. /\ k \in 1 .. Len(backlog["unix"]) - 1
          /\ backlog'["unix"][k] = backlog["unix"][k + 1]
      BY <2>1, <2>2, <3>1, HeadTailProperties, LenProperties
    <3>3. k + 1 \in DOMAIN backlog["unix"] /\ backlog["unix"][k + 1] = a
      BY <2>1, <2>2, <3>2
    <3>4. ~ AdminReply
      BY <2>5 DEF AcceptAdmin, AdminReply, MainAt
    <3> QED
      BY <3>3, <3>4 DEF Unanswered
  <2>6. CASE AcceptClient
    BY <1>1, <2>3, <2>6 DEF AcceptClient, Accept, TypeOK
  <2> QED
    BY <1>1, <2>3, <2>4, <2>5, <2>6 DEF Writers
<1>4. CASE main_pc' \in {"admin_receive", "admin_clients", "admin_queue"} /\ fds'[new_fd'] = a
  <2>1. CASE AcceptAdmin
    <3>1. backlog["unix"] # <<>>
      BY <1>1, <2>1 DEF AcceptAdmin, MainAt, MainThread
    <3>2. /\ new_fd' \in Fds /\ fds' = [fds EXCEPT ![new_fd'] = backlog["unix"][1]]
          /\ 1 \in DOMAIN backlog["unix"]
      BY <1>1, <2>1, <3>1, AcceptOpens DEF AcceptAdmin
    <3>3. backlog["unix"][1] = a
      BY <1>1, <1>4, <3>2 DEF TypeOK
    <3>4. ~ AdminReply
      BY <2>1 DEF AcceptAdmin, AdminReply, MainAt
    <3> QED
      BY <3>2, <3>3, <3>4 DEF Unanswered
  <2>2. CASE ~ AcceptAdmin
    <3>0. ~ AdminReply
      BY <1>4 DEF AdminReply, MainAt
    <3>1. /\ main_pc \in {"admin_receive", "admin_clients", "admin_queue"} /\ new_fd' = new_fd
          /\ ~ AcceptClient /\ ~ AdminClose
      <4>1. CASE UNCHANGED main
        BY <1>4, <4>1 DEF main, AcceptClient, AdminClose, EndLoop
      <4>2. CASE Main
        BY <1>4, <2>2, <3>0, <4>2
        DEF Main, Poll, AcceptClient, AcceptFails, RegisterClient, SpawnHandler, SpawnFails,
            AfterSpawn, EndLoop, AdminReceive, AdminHangup, AdminCopyClients, AdminReadQueue,
            AdminClose, MainAt
      <4> QED
        BY <1>1, <4>1, <4>2 DEF Writers
    <3>2. fds[new_fd] = a
      <4>1. new_fd \in Fds
        BY <1>1, <3>1 DEF MainThread, AdminLocations
      <4> QED
        BY <1>1, <1>4, <2>2, <3>1, <4>1 DEF Writers, HandlerClose, CloseFd, TypeOK
    <3> QED
      BY <3>0, <3>1, <3>2 DEF Unanswered
  <2> QED
    BY <2>1, <2>2
<1> QED
  BY <1>2, <1>3, <1>4 DEF Unanswered

(* When handle_admin_client writes, the writes it has made are all that the *)
(* admin client has got.                                                    *)
LEMMA NextWrite ==
  ASSUME OwnerInv, AdminReplies, main_pc = "admin_send"
  PROVE  LET a == fds[new_fd] IN
           /\ a \in Admins /\ new_fd \in Fds /\ Begun(a) /\ Len(outbox[a]) \in Nat
           /\ DOMAIN outbox[a] = 1 .. Len(outbox[a])
           /\ Cardinality(WritesMade(a)) = Len(outbox[a])
           /\ admin_resp.command \in Commands /\ Writes[admin_resp.command] \in Nat \ {0}
<1> DEFINE a == fds[new_fd]
<1>1. TypeOK /\ a \in Admins /\ a \in Endpoints /\ new_fd \in Fds /\ Begun(a)
  BY DEF OwnerInv, MainThread, AdminLocations, AdminReplies, Endpoints
<1>2. admin_resp.command \in Commands
  BY DEF OwnerInv, Kinds
<1>3. Writes[admin_resp.command] \in Nat \ {0}
  BY <1>2, CommandWrites
<1> HIDE DEF a
<1>4. Len(outbox[a]) \in Nat /\ DOMAIN outbox[a] = 1 .. Len(outbox[a])
  BY <1>1, AnsweredNat
<1>5. WritesMade(a) = 1 .. Len(outbox[a])
  <2>1. ASSUME NEW i \in DOMAIN outbox[a]
        PROVE  outbox[a][i].text[1] = a
    <3>1. outbox[a][i] = [text |-> <<a, 1>>, type |-> admin_resp.command, part |-> i]
      BY <1>1, Zenon DEF Begun
    <3> QED
      BY <3>1
  <2> QED
    BY <1>4, <2>1 DEF WritesMade
<1>6. Cardinality(WritesMade(a)) = Len(outbox[a])
  BY <1>4, <1>5, FS_Interval
<1> QED
  BY <1>1, <1>2, <1>3, <1>4, <1>6 DEF a

(* An admin client sends one command, which is the one that is answered.    *)
LEMMA NextAdminReplies ==
  ASSUME IInv, Served, [Next]_vars
  PROVE  AdminReplies'
<1>1. /\ OwnerInv /\ TypeOK /\ Writers /\ MainThread /\ Descriptors /\ AdminReplies /\ Messages
      /\ -1 \notin Fds /\ Admins \subseteq Endpoints /\ Conns \intersect Admins = {}
      /\ Kinds /\ Free \notin Admins
  BY OnlyWriters, ServerAssumption DEF IInv, OwnerInv, Served, Endpoints
<1>2. ASSUME NEW a \in Admins
      PROVE  Len(sent'[a]) <= 1 /\ (sent'[a] # sent[a] => sent[a] = <<>>)
  <2>1. Len(sent[a]) <= 1
    BY <1>1 DEF AdminReplies
  <2>2. ASSUME sent'[a] # sent[a]
        PROVE  sent[a] = <<>>
    <3>1. ASSUME NEW c \in Conns, NEW type \in Types, ClientSend(c, type)
          PROVE  FALSE
      BY <1>1, <2>2, <3>1 DEF ClientSend, Send, TypeOK, Endpoints
    <3>2. ASSUME NEW b \in Admins, NEW command \in Commands, AdminSend(b, command)
          PROVE  b = a
      BY <1>1, <2>2, <3>2 DEF AdminSend, Send, TypeOK
    <3> QED
      BY <1>1, <2>2, <3>1, <3>2 DEF Writers, AdminSend
  <2>3. sent'[a] # sent[a] => Len(sent'[a]) = Len(sent[a]) + 1
    BY <1>1, SentGrows
  <2> QED
    BY <2>1, <2>2, <2>3, EmptySeq
<1>3. ASSUME NEW a \in Admins, Unanswered(a)'
      PROVE  outbox'[a] = <<>>
  <2>1. Unanswered(a) /\ ~ (AdminReply /\ fds[new_fd] = a)
    BY <1>3, UnansweredBefore
  <2>2. outbox[a] = <<>>
    BY <1>1, <2>1 DEF AdminReplies
  <2>3. SUFFICES ASSUME outbox'[a] # outbox[a] PROVE FALSE
    BY <2>2
  <2>4. SendPart /\ fds[request.client_fd] = a
    BY <1>1, <2>1, <2>3, WhatIsWritten
  <2>5. SendPart => request.text[1] \in Conns /\ outbox'[a] = outbox[a]
    BY <1>1, SendPartDelivers DEF TypeOK
  <2> QED
    BY <2>3, <2>4, <2>5
<1>4. ASSUME main_pc' \in {"admin_clients", "admin_queue", "admin_send"}
      PROVE  /\ Len(sent'[fds'[new_fd']]) = 1
             /\ admin_resp'.command = sent'[fds'[new_fd']][1]
  <2> PICK a : a = fds[new_fd]
    OBVIOUS
  <2>1. CASE AdminReceive
    <3>1. /\ main_pc = "admin_receive" /\ inbox[a] # <<>> /\ new_fd' = new_fd /\ fds' = fds
          /\ sent' = sent /\ admin_resp'.command = Head(inbox[a]).type
      BY <1>1, <2>1 DEF AdminReceive, MainAt, TypeOK
    <3>2. a \in Admins
      BY <1>1, <3>1 DEF MainThread, AdminLocations
    <3>3. inbox[a] \in Seq([text : Texts, type : Commands])
      BY <1>1, <3>2 DEF Kinds
    <3>4. Head(inbox[a]) = inbox[a][1] /\ 1 \in DOMAIN inbox[a]
      BY <3>1, <3>3, EmptySeq, LenProperties
    <3>5. /\ inbox[a][1].text[2] \in DOMAIN sent[a]
          /\ inbox[a][1].type = sent[a][inbox[a][1].text[2]]
      BY <1>1, <3>2, <3>4 DEF Messages
    <3>6. DOMAIN sent[a] = 1 .. Len(sent[a]) /\ Len(sent[a]) \in Nat /\ Len(sent[a]) <= 1
      BY <1>1, <3>2, SentGrows DEF AdminReplies
    <3>7. Len(sent[a]) = 1 /\ inbox[a][1].text[2] = 1
      <4>1. PICK n : n = Len(sent[a])
        OBVIOUS
      <4>2. PICK k : k = inbox[a][1].text[2]
        OBVIOUS
      <4>3. n \in Nat /\ n <= 1 /\ k \in 1 .. n
        <5>1. k \in DOMAIN sent[a]
          BY <3>5, <4>2, Zenon
        <5> QED
          BY <3>6, <4>1, <5>1
      <4>4. n = 1 /\ k = 1
        BY <4>3
      <4> QED
        BY <4>1, <4>2, <4>4
    <3> QED
      BY <3>1, <3>4, <3>5, <3>7
  <2>2. CASE ~ AdminReceive
    <3>1. /\ main_pc \in {"admin_clients", "admin_queue", "admin_send"} /\ new_fd' = new_fd
          /\ admin_resp'.command = admin_resp.command
          /\ ~ AcceptClient /\ ~ AcceptAdmin /\ ~ AdminClose
      <4>1. CASE UNCHANGED main
        BY <1>4, <4>1 DEF main, AcceptClient, AcceptAdmin, AdminClose, EndLoop, MainAt
      <4>2. CASE Main
        BY <1>1, <1>4, <2>2, <4>2
        DEF Main, Poll, AcceptClient, AcceptFails, RegisterClient, SpawnHandler, SpawnFails,
            AfterSpawn, EndLoop, AcceptAdmin, AdminHangup, AdminCopyClients, AdminReadQueue,
            AdminReply, AdminClose, MainAt, TypeOK
      <4> QED
        BY <1>1, <4>1, <4>2 DEF Writers
    <3>2. a \in Admins /\ new_fd \in Fds /\ fds'[new_fd'] = a
      <4>1. a \in Admins /\ new_fd \in Fds
        BY <1>1, <3>1 DEF MainThread, AdminLocations
      <4>2. ASSUME NEW c \in Conns, HandlerClose(c)
            PROVE  fds'[new_fd] = a
        <5>1. fds[client_fd[c]] = c /\ fds' = [fds EXCEPT ![client_fd[c]] = Free]
          BY <1>1, <4>2 DEF HandlerClose, HandlerAt, CloseFd, Descriptors
        <5> QED
          BY <1>1, <4>1, <5>1 DEF TypeOK
      <4> QED
        BY <1>1, <3>1, <4>1, <4>2 DEF Writers
    <3>3. Len(sent[a]) = 1 /\ admin_resp.command = sent[a][1]
      BY <1>1, <3>1 DEF AdminReplies
    <3>4. sent'[a] = sent[a]
      <4>1. sent[a] # <<>>
        BY <3>3, EmptySeq
      <4> QED
        BY <1>2, <3>2, <4>1
    <3> QED
      BY <3>1, <3>2, <3>3, <3>4
  <2> QED
    BY <2>1, <2>2
<1>5. ASSUME main_pc' = "admin_send"
      PROVE  Begun(fds[new_fd])'
  <2> DEFINE a == fds'[new_fd']
             command == admin_resp'.command
  <2>1. OwnerInv'
    BY NextInv DEF IInv
  <2>2. /\ a \in Admins /\ a \in Endpoints /\ a \notin Conns
        /\ command \in Commands /\ Writes[command] \in Nat \ {0}
    BY <1>1, <1>5, <2>1, CommandWrites DEF OwnerInv, MainThread, AdminLocations, Kinds
  <2>3. SUFFICES /\ Len(outbox'[a]) < Writes[command]
                 /\ \A i \in DOMAIN outbox'[a] :
                      outbox'[a][i] = [text |-> <<a, 1>>, type |-> command, part |-> i]
    BY DEF Begun
  <2>4. CASE AdminReceive \/ AdminReadQueue
    <3>1. /\ UNCHANGED <<outbox, new_fd, fds>>
          /\ main_pc \in {"admin_receive", "admin_clients", "admin_queue"}
      BY <2>4 DEF AdminReceive, AdminReadQueue, MainAt, wire
    <3>2. outbox[a] = <<>>
      BY <1>1, <2>2, <3>1 DEF AdminReplies, Unanswered
    <3> QED
      BY <2>2, <3>1, <3>2, EmptySeq
  <2>5. CASE AdminReply
    <3> DEFINE n == Len(outbox[a])
               p == [text |-> <<a, 1>>, type |-> command, part |-> n + 1]
    <3>1. UNCHANGED <<new_fd, fds, admin_resp>> /\ main_pc = "admin_send"
      BY <2>5 DEF AdminReply, MainAt
    <3>2. /\ Begun(a) /\ n \in Nat /\ DOMAIN outbox[a] = 1 .. n
          /\ Cardinality(WritesMade(a)) = n
      BY <1>1, <3>1, NextWrite
    <3>3. CASE outbox'[a] = outbox[a]
      BY <3>1, <3>2, <3>3 DEF Begun
    <3>4. CASE outbox'[a] # outbox[a]
      <4>1. Deliver(a, <<a, 1>>, command, n + 1) /\ n + 1 < Writes[command]
        <5>1. \/ /\ Deliver(a, <<a, 1>>, command, Cardinality(WritesMade(a)) + 1)
                 /\ main_pc' = IF Cardinality(WritesMade(a)) + 1 < Writes[command]
                               THEN "admin_send" ELSE "admin_close"
              \/ Killed(a)
          BY <2>5, <3>1 DEF AdminReply
        <5>2. ~ Killed(a)
          BY <3>4 DEF Killed
        <5> HIDE DEF a, command, n
        <5> QED
          BY <1>5, <3>2, <5>1, <5>2
      <4>2. outbox'[a] = Append(outbox[a], p) /\ p \in Pieces
        <5>1. outbox'[a] = Append(outbox[a], p)
          BY <1>1, <2>2, <4>1 DEF Deliver, TypeOK
        <5>2. n + 1 \in Nat \ {0} /\ <<a, 1>> \in Texts
          BY <2>2, <3>2, ServerAssumption DEF Texts
        <5> QED
          BY <2>2, <5>1, <5>2 DEF Pieces
      <4> HIDE DEF a, command, n, p
      <4>3. /\ Len(outbox'[a]) = Len(outbox[a]) + 1 /\ outbox'[a][Len(outbox[a]) + 1] = p
            /\ DOMAIN outbox'[a] = 1 .. Len(outbox[a]) + 1
            /\ \A i \in 1 .. Len(outbox[a]) : outbox'[a][i] = outbox[a][i]
        BY <1>1, <2>2, <4>2, OneMoreAnswered
      <4>4. \A i \in 1 .. n : outbox[a][i] = [text |-> <<a, 1>>, type |-> command, part |-> i]
        BY <3>1, <3>2 DEF Begun, command
      <4>5. \A i \in 1 .. n + 1 : i \in 1 .. n \/ i = n + 1
        BY <3>2
      <4> QED
        BY <4>1, <4>3, <4>4, <4>5 DEF n, p
    <3> QED
      BY <3>3, <3>4
  <2>6. CASE ~ AdminReceive /\ ~ AdminReadQueue /\ ~ AdminReply
    <3>1. /\ main_pc = "admin_send" /\ new_fd' = new_fd
          /\ admin_resp'.command = admin_resp.command /\ ~ AcceptClient /\ ~ AcceptAdmin /\ ~ AdminClose
      <4>1. CASE UNCHANGED main
        BY <1>5, <4>1 DEF main, AcceptClient, AcceptAdmin, AdminClose, EndLoop, MainAt
      <4>2. CASE Main
        BY <1>5, <2>6, <4>2
        DEF Main, Poll, AcceptClient, AcceptFails, RegisterClient, SpawnHandler, SpawnFails,
            AfterSpawn, EndLoop, AcceptAdmin, AdminHangup, AdminCopyClients, AdminClose, MainAt
      <4> QED
        BY <1>1, <4>1, <4>2 DEF Writers
    <3>2. a = fds[new_fd]
      <4>1. new_fd \in Fds /\ fds[new_fd] \in Admins
        BY <1>1, <3>1 DEF MainThread, AdminLocations
      <4>2. ASSUME NEW c \in Conns, HandlerClose(c)
            PROVE  fds'[new_fd] = fds[new_fd]
        <5>1. fds[client_fd[c]] = c /\ fds' = [fds EXCEPT ![client_fd[c]] = Free]
          BY <1>1, <4>2 DEF HandlerClose, HandlerAt, CloseFd, Descriptors
        <5> QED
          BY <1>1, <4>1, <5>1 DEF TypeOK
      <4> QED
        BY <1>1, <3>1, <4>1, <4>2 DEF Writers
    <3>3. outbox'[a] = outbox[a]
      <4>1. SUFFICES ASSUME outbox'[a] # outbox[a] PROVE FALSE
        OBVIOUS
      <4>2. SendPart
        BY <1>1, <2>2, <2>6, <4>1, WhatIsWritten
      <4>3. request.text[1] \in Conns /\ outbox'[a] = outbox[a]
        BY <1>1, <2>2, <4>2, SendPartDelivers DEF TypeOK
      <4> QED
        BY <4>1, <4>3
    <3> QED
      BY <1>1, <3>1, <3>2, <3>3 DEF AdminReplies, Begun
  <2> QED
    BY <2>4, <2>5, <2>6
<1> QED
  BY <1>2, <1>3, <1>4, <1>5 DEF AdminReplies

-----------------------------------------------------------------------------
(* The next piece of a response is the one that has to come. *)
LEMMA NextAnswers ==
  ASSUME Patient, IInv, Served, AnswersInOrder, [Next]_vars
  PROVE  AnswersInOrder'
<1> DEFINE BeginsThen(p, e, k) ==
             k \in DOMAIN sent'[e] /\ p = [text |-> <<e, k>>, type |-> sent'[e][k], part |-> 1]
           FollowsThen(next, p, e) ==
             /\ p.part < Writes[p.type] => next = [p EXCEPT !.part = @ + 1]
             /\ ~ p.part < Writes[p.type] => BeginsThen(next, e, p.text[2] + 1)
<1>1. OwnerInv /\ TypeOK /\ MainThread /\ AdminReplies
  BY DEF IInv, OwnerInv, Served
<1>2. SUFFICES ASSUME NEW e \in Endpoints, NEW i \in DOMAIN outbox'[e]
               PROVE  /\ i = 1 => BeginsThen(outbox'[e][1], e, 1)
                      /\ i # 1 => FollowsThen(outbox'[e][i], outbox'[e][i - 1], e)
  BY ZenonT(60) DEF AnswersInOrder, Begins, Follows
<1>3. \A k \in DOMAIN sent[e] : k \in DOMAIN sent'[e] /\ sent'[e][k] = sent[e][k]
  BY <1>1, SentGrows
<1>4. ASSUME NEW j \in DOMAIN outbox[e]
      PROVE  /\ j = 1 => BeginsThen(outbox[e][1], e, 1)
             /\ j # 1 => FollowsThen(outbox[e][j], outbox[e][j - 1], e)
  BY <1>3, ZenonT(60) DEF AnswersInOrder, Begins, Follows
<1>5. /\ outbox[e] \in Seq(Pieces) /\ Len(outbox[e]) \in Nat
      /\ DOMAIN outbox[e] = 1 .. Len(outbox[e])
  BY <1>1, AnsweredNat
<1>6. CASE outbox'[e] = outbox[e]
  BY <1>4, <1>6
<1> DEFINE n == Len(outbox[e])
(* One piece more. *)
<1>7. ASSUME NEW p \in Pieces, outbox'[e] = Append(outbox[e], p),
             n = 0 => BeginsThen(p, e, 1),
             n # 0 => FollowsThen(p, outbox[e][n], e)
      PROVE  /\ i = 1 => BeginsThen(outbox'[e][1], e, 1)
             /\ i # 1 => FollowsThen(outbox'[e][i], outbox'[e][i - 1], e)
  <2>1. /\ DOMAIN outbox'[e] = 1 .. n + 1 /\ outbox'[e][n + 1] = p
        /\ \A j \in 1 .. n : outbox'[e][j] = outbox[e][j]
    BY <1>1, <1>7, OneMoreAnswered
  <2> HIDE DEF BeginsThen, FollowsThen
  <2>2. CASE i \in 1 .. n
    <3>1. 1 \in 1 .. n /\ (i # 1 => i - 1 \in 1 .. n)
      BY <1>5, <2>2
    <3> QED
      BY <1>4, <1>5, <2>1, <2>2, <3>1
  <2>3. CASE i = n + 1
    <3>1. CASE n = 0
      <4>1. i = 1
        BY <2>3, <3>1
      <4> QED
        BY <1>7, <2>1, <2>3, <3>1, <4>1
    <3>2. CASE n # 0
      <4>1. i # 1 /\ i - 1 = n /\ n \in 1 .. n
        BY <1>5, <2>3, <3>2
      <4> QED
        BY <1>7, <2>1, <2>3, <3>2, <4>1
    <3> QED
      BY <3>1, <3>2
  <2> QED
    BY <1>5, <2>1, <2>2, <2>3
<1>8. ASSUME outbox'[e] # outbox[e], SendPart
      PROVE  /\ i = 1 => BeginsThen(outbox'[e][1], e, 1)
             /\ i # 1 => FollowsThen(outbox'[e][i], outbox'[e][i - 1], e)
  <2> DEFINE p == [text |-> request.text, type |-> request.type, part |-> part]
  <2>1. /\ worker_pc = "send" /\ e \in Conns /\ request.text[1] = e /\ p \in Pieces
        /\ Sending(e) /\ outbox'[e] = Append(outbox[e], p)
    BY <1>1, <1>8, SendPartDelivers, ZenonT(60) DEF TypeOK, Endpoints
  <2>2. /\ request.text[2] = Processed(e) /\ Processed(e) = Answered(e) + 1
        /\ outbox[e] = <<>> => part = 1
    BY <2>1 DEF Served, Replies
  <2>3. /\ request.text = <<e, Answered(e) + 1>>
        /\ Answered(e) + 1 \in DOMAIN sent[e] /\ request.type = sent[e][Answered(e) + 1]
    <3>1. request \in ProcessingRequests /\ Routed(request)
      BY <2>1 DEF IInv, OwnerInv, Kinds, Served, InFlight
    <3>2. request.text \in Texts
      BY <3>1, MessageTexts
    <3>3. request.text = <<request.text[1], request.text[2]>>
      BY <3>2 DEF Texts
    <3> QED
      BY <2>1, <2>2, <3>1, <3>3 DEF Routed
  <2>4. part = 1 => BeginsThen(p, e, Answered(e) + 1)
    BY <1>3, <2>3
  <2>5. n = 0 => BeginsThen(p, e, 1)
    <3>1. n = 0 => outbox[e] = <<>>
      BY <1>5, EmptySeq
    <3>2. n = 0 => Answered(e) = 0
      <4>1. n = 0 => LastParts(e) = {}
        BY <1>5 DEF LastParts
      <4> QED
        BY <4>1, FS_EmptySet DEF Answered
    <3>3. 0 + 1 = 1
      OBVIOUS
    <3> HIDE DEF BeginsThen, p
    <3> QED
      BY <2>2, <2>4, <3>1, <3>2, <3>3
  <2>6. n # 0 => FollowsThen(p, outbox[e][n], e)
    <3>1. SUFFICES ASSUME n # 0 PROVE FollowsThen(p, outbox[e][n], e)
      OBVIOUS
    <3> DEFINE q == outbox[e][n]
    <3>2. outbox[e] # <<>>
      BY <3>1, EmptySeq
    <3>3. /\ q.part < Writes[q.type] =>
               q = [text |-> request.text, type |-> request.type, part |-> part - 1]
          /\ ~ q.part < Writes[q.type] => q.text[2] = Answered(e) /\ part = 1
      BY <2>1, <3>2 DEF Served, Replies
    <3>4. q.part < Writes[q.type] => p = [q EXCEPT !.part = @ + 1]
      <4>1. part \in Nat \ {0} /\ part - 1 + 1 = part
        BY <1>1 DEF TypeOK
      <4> QED
        BY <3>3, <4>1
    <3>5. ~ q.part < Writes[q.type] => BeginsThen(p, e, q.text[2] + 1)
      <4> HIDE DEF BeginsThen, p, q
      <4> QED
        BY <2>4, <3>3
    <3> QED
      BY <3>4, <3>5
  <2> HIDE DEF BeginsThen, FollowsThen, p
  <2> QED
    BY <1>7, <2>1, <2>5, <2>6
<1>9. ASSUME outbox'[e] # outbox[e], ~ SendPart
      PROVE  /\ i = 1 => BeginsThen(outbox'[e][1], e, 1)
             /\ i # 1 => FollowsThen(outbox'[e][i], outbox'[e][i - 1], e)
  <2> DEFINE k == Cardinality(WritesMade(e)) + 1
             p == [text |-> <<e, 1>>, type |-> admin_resp.command, part |-> k]
  <2>1. /\ main_pc = "admin_send" /\ fds[new_fd] = e /\ outbox'[e] = Append(outbox[e], p)
    BY <1>1, <1>9, WhatIsWritten
  <2>2. /\ Begun(e) /\ k = n + 1 /\ e \in Admins /\ admin_resp.command \in Commands
    BY <1>1, <2>1, NextWrite
  <2>3. /\ Len(sent[e]) = 1 /\ admin_resp.command = sent[e][1]
        /\ DOMAIN sent[e] = 1 .. Len(sent[e])
    BY <1>1, <2>1, SentGrows DEF AdminReplies
  <2>4. n = 0 => BeginsThen(p, e, 1)
    BY <1>3, <2>2, <2>3
  <2>5. n # 0 => FollowsThen(p, outbox[e][n], e)
    <3>1. SUFFICES ASSUME n # 0 PROVE FollowsThen(p, outbox[e][n], e)
      OBVIOUS
    <3> DEFINE q == outbox[e][n]
    <3>2. n \in DOMAIN outbox[e]
      BY <1>5, <3>1
    <3>3. q = [text |-> <<e, 1>>, type |-> admin_resp.command, part |-> n]
      BY <2>2, <3>2 DEF Begun
    <3>4. q.part < Writes[q.type] /\ p = [q EXCEPT !.part = @ + 1]
      BY <2>2, <3>3 DEF Begun
    <3> QED
      BY <3>4
  <2>6. p \in Pieces
    BY <1>5, <2>2, ServerAssumption DEF Pieces, Texts
  <2> HIDE DEF BeginsThen, FollowsThen, p
  <2> QED
    BY <1>7, <2>1, <2>4, <2>5, <2>6
<1> QED
  BY <1>6, <1>8, <1>9

-----------------------------------------------------------------------------
(* At the start nothing has been sent and nothing is to be answered.        *)
LEMMA InitAnswers == Init => AInv
<1> SUFFICES ASSUME Init PROVE AInv
  OBVIOUS
<1>1. IInv
  BY InitInv
<1>2. \A e \in Endpoints : outbox[e] = <<>> /\ sent[e] = <<>> /\ inbox[e] = <<>> /\ peer[e] = "idle"
  BY DEF Init
<1>3. AnswersInOrder
  BY <1>2 DEF AnswersInOrder
<1>4. InFlight /\ Messages /\ Endings
  BY <1>2 DEF Init, Queue!Init, InFlight, Messages, Endings, Endpoints
<1>5. Replies
  <2>1. part = 1 /\ worker_pc = "dequeue" /\ documents = <<>>
    BY DEF Init
  <2>2. ASSUME NEW c \in Conns PROVE Processed(c) = 0 /\ Answered(c) = 0
    <3>1. ProcessedOf(c) = {} /\ LastParts(c) = {}
      BY <1>2, <2>1 DEF ProcessedOf, LastParts, Endpoints
    <3> QED
      BY <3>1, FS_EmptySet DEF Processed, Answered
  <2> QED
    BY <1>2, <2>1, <2>2 DEF Replies, Sending, Endpoints
<1>6. AdminReplies
  <2>1. main_pc = "poll"
    BY DEF Init
  <2>2. \A a \in Admins : Len(sent[a]) <= 1 /\ outbox[a] = <<>>
    BY <1>2, EmptySeq DEF Endpoints
  <2> QED
    BY <2>1, <2>2 DEF AdminReplies
<1> QED
  BY <1>1, <1>3, <1>4, <1>5, <1>6 DEF AInv, Served

(* When the process has been killed nothing is written or sent any more.    *)
LEMMA NextAInv == Patient /\ AInv /\ [Next]_vars => AInv'
<1> SUFFICES ASSUME Patient, AInv, [Next]_vars PROVE AInv'
  OBVIOUS
<1>1. IInv /\ IInv' /\ AnswersInOrder
  BY NextInv DEF AInv
<1>2. CASE alive
  <2>1. Served
    BY <1>2 DEF AInv
  <2>2. AnswersInOrder' /\ InFlight' /\ Messages' /\ Endings' /\ Replies' /\ AdminReplies'
    BY <1>1, <1>2, <2>1, NextAnswers, NextInFlight, NextMessages, NextEndings, NextReplies,
       NextAdminReplies
  <2> QED
    BY <1>1, <2>2 DEF AInv, Served
<1>3. CASE ~ alive
  <2>1. outbox' = outbox /\ alive' = alive
    BY <1>3, WireWriters DEF SendPart, WorkerAt, AdminReply, SpawnFails, MainAt
  <2>2. sent' = sent
    BY <1>3, OnlyWriters DEF Writers, ClientSend, AdminSend, Send, HungUp
  <2>3. AnswersInOrder'
    BY <1>1, <2>1, <2>2 DEF AnswersInOrder, Begins, Follows
  <2> QED
    BY <1>1, <1>3, <2>1, <2>3 DEF AInv
<1> QED
  BY <1>2, <1>3

(* AInv holds from the start and every step keeps it.                       *)
LEMMA AnswersInductive == ASSUME Patient PROVE Spec => []AInv
BY InitAnswers, NextAInv, PTL DEF Spec

-----------------------------------------------------------------------------
(* Every client and admin client gets the responses to its own requests,    *)
(* each whole and once, in the order in which it sent them: one queue, one  *)
(* processing thread and descriptors that are closed only at the program's  *)
(* own end keep process_requests from mixing two connections.               *)
THEOREM AnswersKeepOrder == ASSUME Patient PROVE Spec => []AnswersInOrder
<1>1. AInv => AnswersInOrder
  BY DEF AInv
<1> QED
  BY <1>1, AnswersInductive, PTL

(* A thread can be started while there are fewer than SureThreads: the       *)
(* connection that is being accepted has none.                              *)
LEMMA ThreadsSuffice ==
  ASSUME IInv, IsFiniteSet(Conns), Cardinality(Conns) <= SureThreads
  PROVE  ~ SpawnFails
<1> SUFFICES ASSUME SpawnFails PROVE FALSE
  OBVIOUS
<1>1. fds[new_fd] \in Conns /\ pc[fds[new_fd]] = "none"
  BY DEF SpawnFails, MainAt, IInv, OwnerInv, MainThread
<1>2. Live \subseteq Conns \ {fds[new_fd]}
  BY <1>1 DEF Live
<1>3. /\ IsFiniteSet(Conns \ {fds[new_fd]}) /\ Cardinality(Conns) \in Nat
      /\ Cardinality(Conns \ {fds[new_fd]}) = Cardinality(Conns) - 1
  BY <1>1, FS_RemoveElement, FS_CardinalityType
<1>4. Cardinality(Live) \in Nat /\ Cardinality(Live) <= Cardinality(Conns) - 1
  BY <1>2, <1>3, FS_Subset, FS_CardinalityType
<1>5. SureThreads \in Nat /\ Cardinality(Live) >= SureThreads
  BY ServerAssumption DEF SpawnFails
<1> QED
  BY <1>3, <1>4, <1>5

(* The admin client that is being answered has not closed its connection.   *)
LEMMA AdminListens ==
  ASSUME IInv, Served, AdminReply
  PROVE  alive' = alive
<1> DEFINE a == fds[new_fd]
<1>1. a \in Admins /\ a \in Endpoints /\ main_pc = "admin_send" /\ TypeOK
  BY DEF AdminReply, MainAt, IInv, OwnerInv, MainThread, AdminLocations, Endpoints
<1>2. Begun(a) /\ Len(sent[a]) = 1
  BY <1>1 DEF Served, AdminReplies
<1>3. Len(outbox[a]) \in Nat /\ admin_resp.command \in Commands
      /\ Writes[admin_resp.command] \in Nat \ {0}
  BY <1>1, NextWrite DEF IInv, Served
<1>4. Answered(a) = 0
  <2>1. LastParts(a) = {}
    <3>1. DOMAIN outbox[a] = 1 .. Len(outbox[a])
      BY <1>1, AnsweredNat
    <3>2. ASSUME NEW i \in 1 .. Len(outbox[a])
          PROVE  outbox[a][i].part # Writes[outbox[a][i].type]
      <4>1. /\ outbox[a][i].part = i /\ outbox[a][i].type = admin_resp.command
            /\ Len(outbox[a]) < Writes[admin_resp.command]
        <5>1. outbox[a][i] = [text |-> <<a, 1>>, type |-> admin_resp.command, part |-> i]
          BY <1>2, <3>1, Zenon DEF Begun
        <5>2. Len(outbox[a]) < Writes[admin_resp.command]
          BY <1>2 DEF Begun
        <5> QED
          BY <5>1, <5>2
      <4> QED
        BY <1>3, <4>1
    <3> QED
      BY <3>1, <3>2 DEF LastParts
  <2> QED
    BY <2>1, FS_EmptySet DEF Answered
<1>5. peer[a] # "closed"
  BY <1>1, <1>2, <1>4 DEF Served, Endings
<1> HIDE DEF a
<1> QED
  BY <1>5 DEF AdminReply, Deliver, Killed, Broken, a

(* No thread is killed by a write to a connection that is gone, or by a      *)
(* client_fd that was never set: a program that stays until it is answered   *)
(* is there when process_requests and handle_admin_client write to it.       *)
THEOREM ServerLives ==
  ASSUME Patient, IsFiniteSet(Conns), Cardinality(Conns) <= SureThreads
  PROVE  Spec => []ServerSurvives
<1>1. Init => AInv /\ alive
  BY InitAnswers DEF Init
<1>2. AInv /\ alive /\ [Next]_vars => (AInv /\ alive)'
  <2> SUFFICES ASSUME AInv, alive, [Next]_vars PROVE alive'
    BY NextAInv
  <2>1. IInv /\ Served
    BY DEF AInv
  <2>2. CASE UNCHANGED alive
    BY <2>2
  <2>3. CASE SendPart
    BY <2>1, <2>3, SendPartDelivers
  <2>4. CASE AdminReply
    BY <2>1, <2>4, AdminListens
  <2> QED
    BY <2>1, <2>2, <2>3, <2>4, WireWriters, ThreadsSuffice
<1> QED
  BY <1>1, <1>2, PTL DEF Spec, ServerSurvives
=============================================================================
