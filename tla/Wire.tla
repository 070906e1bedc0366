-------------------------------- MODULE Wire --------------------------------
(***************************************************************************)
(* How the messages of protocol.c and nlp_client.py cross a connection.    *)
(* The sender makes one write per field; the connection is a byte stream   *)
(* that forgets where a write began; the receiver asks for one field at a  *)
(* time, each with a size that follows from the fields before it, in one   *)
(* of two ways: the C functions call read once and take what it returns,   *)
(* the Python client's _recv_exact reads until the field is whole.         *)
(*                                                                         *)
(* A byte is known by the message, the field and the place it was written  *)
(* at.  A field made of other bytes than the sender's is decoded to any of *)
(* the Garbage values.                                                     *)
(***************************************************************************)
EXTENDS Integers, SequencesExt, FiniteSetsExt

CONSTANTS
  Links,          \* the kinds of connection to consider, see LinkType
  Width,          \* sizeof of an int, a size_t, a double and a ClientInfo
  TextLens,       \* strlen + 1 of the texts in responses
  FileLens,       \* the sizes of the files to process, in bytes and in characters
  Garbage,        \* what bytes of other fields may be decoded to
  MAX_TEXT_SIZE, MAX_ERROR_MSG, MAX_CLIENTS,
  MaxMessages     \* bound: the messages sent on a connection

(* kind: what is sent; reader: who receives; split: the stream may arrive   *)
(* in pieces that end inside a write.                                       *)
LinkType == [kind : {"request", "response", "admin_request", "admin_response"},
             reader : {"read", "recv_exact"}, split : BOOLEAN]

ASSUME WireAssumption ==
  /\ Links \subseteq LinkType
  /\ Width \in [{"int", "size_t", "double", "client_info"} -> Nat \ {0}]
  /\ TextLens \subseteq Nat \ {0}
  /\ FileLens \subseteq Nat
  /\ Garbage \subseteq Nat
  /\ MAX_TEXT_SIZE \in Nat \ {0}
  /\ {MAX_ERROR_MSG, MAX_CLIENTS, MaxMessages} \subseteq Nat

STATUS_OK == 0
STATUS_ERROR == 1
Opaque == -1      \* a value that nothing else on the wire depends on

VARIABLES
  link,           \* the connection
  messages,       \* the messages whose sending has begun
  field,          \* the field of the last one to write next
  open,           \* the sender has not closed its end
  net, buffer,    \* the bytes on their way, and those that read can return
  part,           \* the bytes that _recv_exact has of the field it reads
  values,         \* the fields of the message being received
  received,       \* the messages received, each as the sequence of its fields
  state           \* "receiving", or "failed" once the receiver has returned -1

vars == <<link, messages, field, open, net, buffer, part, values, received, state>>

-----------------------------------------------------------------------------
(* What is sent. *)

Number(value) == <<[value |-> value, width |-> Width["int"]]>>
Double == <<[value |-> Opaque, width |-> Width["double"]]>>
Text(len) ==
  <<[value |-> len, width |-> Width["size_t"]]>>
    \o (IF len > 0 THEN <<[value |-> Opaque, width |-> len]>> ELSE <<>>)

(* error_message is an array of MAX_ERROR_MSG bytes. *)
ErrorLens == {len \in TextLens : len <= MAX_ERROR_MSG}

(* The files that a client sends: the C client tests their bytes, the       *)
(* Python client their characters, of one to four bytes in UTF-8.           *)
Files(client) ==
  {f \in [client : {client}, bytes : FileLens, chars : FileLens] :
     /\ f.chars <= f.bytes /\ f.bytes <= 4 * f.chars
     /\ (IF client = "c" THEN f.bytes ELSE f.chars) <= MAX_TEXT_SIZE}

(* The messages of each kind; a topic or a summary of length 0 is absent.   *)
Messages(kind) ==
  CASE kind = "request" -> Files("c") \union Files("python")
    [] kind = "response" ->
         [status : {STATUS_OK}, topic : {0} \union TextLens, summary : {0} \union TextLens]
           \union [status : {STATUS_ERROR}, error : ErrorLens]
    [] kind = "admin_request" -> [command : {1, 2}]
    [] kind = "admin_response" ->
         [status : {STATUS_OK}, clients : 0 .. MAX_CLIENTS]
           \union [status : {STATUS_ERROR}, error : ErrorLens]

(* The fields that the send functions write, in their order. *)

(* Variants named ...Bug hold a plausible mistake each: the checks replace   *)
(* the definition after them by one and expect a property to notice.        *)
RequestTextBug(m) == m.bytes + 1  \* the C client copies the whole file

(* strlen + 1 of the text: the C client cuts it to fit its buffer with the  *)
(* NUL, the Python client sends every byte and the NUL.                     *)
RequestText(m) ==
  IF m.client = "c" THEN Min({m.bytes, MAX_TEXT_SIZE - 1}) + 1 ELSE m.bytes + 1

RequestFields(m) == Number(Opaque) \o Text(RequestText(m))

ResponseFieldsBug(m) ==  \* nothing at all in the place of an absent summary
  Number(m.status) \o
    (IF m.status = STATUS_OK
     THEN Number(Opaque) \o Double \o Text(m.topic) \o
            (IF m.summary = 0 THEN <<>> ELSE Text(m.summary))
     ELSE Text(m.error))

ResponseFields(m) ==
  Number(m.status) \o
    (IF m.status = STATUS_OK
     THEN Number(Opaque) \o Double \o Text(m.topic) \o Text(m.summary)
     ELSE Text(m.error))

AdminRequestFields(m) == Number(m.command)

AdminResponseFields(m) ==
  LET ClientInfo == [value |-> Opaque, width |-> Width["client_info"]] IN
    Number(m.status) \o
      (IF m.status = STATUS_OK
       THEN Number(m.clients) \o Number(Opaque) \o Number(Opaque) \o
              [i \in 1 .. m.clients |-> ClientInfo]
       ELSE Text(m.error))

Fields(kind, m) ==
  CASE kind = "request" -> RequestFields(m)
    [] kind = "response" -> ResponseFields(m)
    [] kind = "admin_request" -> AdminRequestFields(m)
    [] kind = "admin_response" -> AdminResponseFields(m)

Outgoing(n) == Fields(link.kind, messages[n])

Write ==
  /\ open
  /\ IF field = 1
     THEN /\ Len(messages) < MaxMessages
          /\ \E m \in Messages(link.kind) : messages' = Append(messages, m)
     ELSE UNCHANGED messages
  /\ LET n == Len(messages')
         fields == Fields(link.kind, messages'[n])
     IN  /\ net' = net \o [i \in 1 .. fields[field].width |-> <<n, field, i>>]
         /\ field' = IF field = Len(fields) THEN 1 ELSE field + 1
  /\ UNCHANGED <<link, open, buffer, part, values, received, state>>

(* The sender closes when it has done, or ends between two writes. *)
CloseSender ==
  /\ open
  /\ open' = FALSE
  /\ UNCHANGED <<link, messages, field, net, buffer, part, values, received, state>>

(* Bytes arrive in order, any number at a time. *)
EndsWrite(i) == i < Len(net) => net[i + 1][3] = 1

Arrive ==
  \E i \in 1 .. Len(net) :
    /\ link.split \/ EndsWrite(i)
    /\ buffer' = buffer \o SubSeq(net, 1, i)
    /\ net' = SubSeq(net, i + 1, Len(net))
    /\ UNCHANGED <<link, messages, field, open, part, values, received, state>>

-----------------------------------------------------------------------------
(* What is received. *)

(* The length prefix at place i of the fields v, and the text after it. *)
TextAt(v, i) ==
  <<Width["size_t"]>> \o (IF Len(v) >= i /\ v[i] > 0 THEN <<v[i]>> ELSE <<>>)

(* The sizes of the fields of a message that begins with the fields v, as   *)
(* far as v determines them.                                                *)
RequestSizes(v) == <<Width["int"]>> \o TextAt(v, 2)

ResponseSizes(v) ==
  <<Width["int"]>> \o
    (IF v = <<>> THEN <<>>
     ELSE IF v[1] # STATUS_OK THEN TextAt(v, 2)
     ELSE <<Width["int"], Width["double"]>> \o TextAt(v, 4) \o
            (IF Len(v) < 4 THEN <<>> ELSE TextAt(v, IF v[4] > 0 THEN 6 ELSE 5)))

AdminRequestSizes == <<Width["int"]>>

AdminResponseSizes(v) ==
  <<Width["int"]>> \o
    (IF v = <<>> THEN <<>>
     ELSE IF v[1] # STATUS_OK THEN TextAt(v, 2)
     ELSE [i \in 1 .. 3 |-> Width["int"]] \o
            (IF Len(v) < 2 THEN <<>> ELSE [i \in 1 .. v[2] |-> Width["client_info"]]))

Sizes(kind, v) ==
  CASE kind = "request" -> RequestSizes(v)
    [] kind = "response" -> ResponseSizes(v)
    [] kind = "admin_request" -> AdminRequestSizes
    [] kind = "admin_response" -> AdminResponseSizes(v)

(* The tests of the C receivers: a size that does not fit, or a text of no  *)
(* bytes, for which read returns 0 as it does at the end of the stream.     *)
RefusedRequest(v) == Len(v) = 2 /\ (v[2] > MAX_TEXT_SIZE \/ v[2] = 0)

RefusedError(v) ==
  v[1] # STATUS_OK /\ Len(v) = 2 /\ (v[2] > MAX_ERROR_MSG \/ v[2] = 0)

RefusedClients(v) == v[1] = STATUS_OK /\ Len(v) = 4 /\ v[2] > MAX_CLIENTS

Refused(kind, v) ==
  CASE kind = "request" -> RefusedRequest(v)
    [] kind = "response" -> RefusedError(v)
    [] kind = "admin_request" -> FALSE
    [] kind = "admin_response" -> RefusedError(v) \/ RefusedClients(v)

(* What a field read as these bytes is taken for. *)
Decoded(bytes, size) ==
  LET n == bytes[1][1]
      k == bytes[1][2]
      Whole == /\ size = Outgoing(n)[k].width
               /\ bytes = [i \in 1 .. size |-> <<n, k, i>>]
  IN  IF Whole THEN {Outgoing(n)[k].value} ELSE Garbage

(* A field is complete: the message goes on, is complete too, or is refused. *)
TakeField(value) ==
  LET v == Append(values, value) IN
    IF link.reader = "read" /\ Refused(link.kind, v)
    THEN state' = "failed" /\ UNCHANGED <<values, received>>
    ELSE /\ IF Len(v) = Len(Sizes(link.kind, v))
            THEN received' = Append(received, v) /\ values' = <<>>
            ELSE values' = v /\ UNCHANGED received
         /\ UNCHANGED state

NextSize == Sizes(link.kind, values)[Len(values) + 1]

(* One read of a C receiver: what it returns is the field. *)
Read ==
  /\ link.reader = "read" /\ state = "receiving" /\ buffer # <<>>
  /\ LET bytes == SubSeq(buffer, 1, Min({NextSize, Len(buffer)})) IN
       /\ buffer' = SubSeq(buffer, Len(bytes) + 1, Len(buffer))
       /\ \E value \in Decoded(bytes, NextSize) : TakeField(value)
  /\ UNCHANGED <<link, messages, field, open, net, part>>

RecvAgainBug ==  \* the whole size is asked for again
  /\ link.reader = "recv_exact" /\ state = "receiving" /\ buffer # <<>>
  /\ LET chunk == SubSeq(buffer, 1, Min({NextSize, Len(buffer)}))
         data == part \o chunk
     IN  /\ buffer' = SubSeq(buffer, Len(chunk) + 1, Len(buffer))
         /\ IF Len(data) = NextSize
            THEN part' = <<>> /\ \E value \in Decoded(data, NextSize) : TakeField(value)
            ELSE part' = data /\ UNCHANGED <<values, received, state>>
  /\ UNCHANGED <<link, messages, field, open, net>>

RecvOnceBug ==  \* no loop: the first chunk is returned
  /\ link.reader = "recv_exact" /\ state = "receiving" /\ buffer # <<>>
  /\ LET data == SubSeq(buffer, 1, Min({NextSize, Len(buffer)})) IN
       /\ buffer' = SubSeq(buffer, Len(data) + 1, Len(buffer))
       /\ \E value \in Decoded(data, NextSize) : TakeField(value)
  /\ UNCHANGED <<link, messages, field, open, net, part>>

(* One recv of the loop in _recv_exact, for what the field still lacks. *)
RecvExact ==
  /\ link.reader = "recv_exact" /\ state = "receiving" /\ buffer # <<>>
  /\ LET chunk == SubSeq(buffer, 1, Min({NextSize - Len(part), Len(buffer)}))
         data == part \o chunk
     IN  /\ buffer' = SubSeq(buffer, Len(chunk) + 1, Len(buffer))
         /\ IF Len(data) = NextSize
            THEN part' = <<>> /\ \E value \in Decoded(data, NextSize) : TakeField(value)
            ELSE part' = data /\ UNCHANGED <<values, received, state>>
  /\ UNCHANGED <<link, messages, field, open, net>>

(* read returns 0: the end of the stream, or _recv_exact raises. *)
EndOfStream ==
  /\ state = "receiving"
  /\ ~open /\ net = <<>> /\ buffer = <<>>
  /\ state' = "failed"
  /\ UNCHANGED <<link, messages, field, open, net, buffer, part, values, received>>

-----------------------------------------------------------------------------
Init ==
  /\ link \in Links
  /\ messages = <<>>
  /\ field = 1
  /\ open = TRUE
  /\ net = <<>>
  /\ buffer = <<>>
  /\ part = <<>>
  /\ values = <<>>
  /\ received = <<>>
  /\ state = "receiving"

Next == Write \/ CloseSender \/ Arrive \/ Read \/ RecvExact \/ EndOfStream

Spec == Init /\ [][Next]_vars

(* The network delivers, the receiver reads on, and a sender that has begun *)
(* a message writes all of it unless it ends.                               *)
Fairness ==
  /\ WF_vars(Arrive)
  /\ WF_vars(Read \/ RecvExact \/ EndOfStream)
  /\ WF_vars(field > 1 /\ Write)

FairSpec == Spec /\ Fairness

-----------------------------------------------------------------------------
(* Properties. *)

Bytes == (1 .. MaxMessages) \X (Nat \ {0}) \X (Nat \ {0})
Values == Nat \union {Opaque}

(* A field being read is known and not whole yet. *)
TypeOK ==
  /\ link \in Links
  /\ Len(messages) <= MaxMessages
  /\ \A n \in DOMAIN messages : messages[n] \in Messages(link.kind)
  /\ field \in Nat \ {0}
  /\ open \in BOOLEAN
  /\ {net, buffer, part} \subseteq Seq(Bytes)
  /\ values \in Seq(Values)
  /\ received \in Seq(Seq(Values))
  /\ state \in {"receiving", "failed"}
  /\ Len(values) < Len(Sizes(link.kind, values))
  /\ Len(part) < NextSize

ValuesOf(n) == [k \in DOMAIN Outgoing(n) |-> Outgoing(n)[k].value]

(* The receiver gets the messages that were sent: none is invented, merged, *)
(* split, or accepted although its sender ended half way through it.        *)
ReceivedAsSent == IsPrefix(received, [n \in DOMAIN messages |-> ValuesOf(n)])

Complete == IF field = 1 THEN Len(messages) ELSE Len(messages) - 1

(* The receiver gives up only on a text of the Python client that leaves no *)
(* room for the NUL (nlp_client.py:142 lets it pass, protocol.c:41 does not; *)
(* what the C client lets pass is never refused), or at the end of the      *)
(* stream when it has got every complete message: a sender that closes or   *)
(* ends early costs the message in progress only.                           *)
FailsForCause ==
  state = "failed" =>
    \/ /\ link.kind = "request"
       /\ \E n \in DOMAIN messages :
            messages[n].client = "python" /\ messages[n].bytes >= MAX_TEXT_SIZE
    \/ ~open /\ Len(received) = Complete

(* A message whose sending has begun is received, or its receiver gives up: *)
(* it never waits for bytes that the sender has no intention to send.       *)
Delivered ==
  \A n \in 1 .. MaxMessages :
    Len(messages) >= n ~> (Len(received) >= n \/ state = "failed")
=============================================================================
