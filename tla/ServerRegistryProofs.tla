------------------------ MODULE ServerRegistryProofs ------------------------
(***************************************************************************)
(* Proofs about Server, for any connections, descriptors, commands and     *)
(* bounds: who owns a descriptor, and what the list of clients, the        *)
(* descriptors, the threads and the backlog have to do with each other.    *)
(* OwnerInv says it, and every step keeps it; ServerProofs draws the       *)
(* conclusions.                                                            *)
(***************************************************************************)
EXTENDS Server, FiniteSetTheorems, SequenceTheorems, TLAPS

(* The locations of the main thread in which it serves an admin client.     *)
AdminLocations ==
  {"admin_receive", "admin_clients", "admin_queue", "admin_send", "admin_close"}

(* Whose connections and whose messages are where. *)
Kinds ==
  /\ backlog["tcp"] \in Seq(Conns) /\ backlog["unix"] \in Seq(Admins)
  /\ \A c \in Conns : inbox[c] \in Seq([text : Texts, type : Types])
  /\ \A a \in Admins : inbox[a] \in Seq([text : Texts, type : Commands])
  /\ \A c \in Conns : pc[c] = "enqueue" => proc_req[c] \in ProcessingRequests
  /\ worker_pc # "dequeue" => request \in ProcessingRequests
  /\ main_pc \in {"admin_clients", "admin_queue", "admin_send"}
       => admin_resp.command \in Commands

(* What the main thread knows at each place of its loop. *)
MainThread ==
  /\ main_pc \in {"poll", "accept", "admin_accept"} => new_fd = -1
  /\ main_pc = "accept" => backlog["tcp"] # <<>>
  /\ main_pc = "admin_accept" => backlog["unix"] # <<>>
  /\ "unix" \in revents /\ main_pc \in {"accept", "register", "spawn"}
       => backlog["unix"] # <<>>
  /\ main_pc \in {"register", "spawn"}
       => new_fd \in Fds /\ fds[new_fd] \in Conns /\ pc[fds[new_fd]] = "none"
  /\ main_pc \in AdminLocations => new_fd \in Fds /\ fds[new_fd] \in Admins

(* A connection that is not accepted yet has no descriptor, no thread, and  *)
(* one place in the backlog at most.                                        *)
Untouched(e) == (\A n \in Fds : fds[n] # e) /\ (e \in Conns => pc[e] = "none")

NotAccepted ==
  /\ \A e \in Endpoints : peer[e] = "idle" => Untouched(e) /\ sent[e] = <<>> /\ inbox[e] = <<>>
  /\ \A s \in {"tcp", "unix"} :
       /\ \A k, l \in DOMAIN backlog[s] : backlog[s][k] = backlog[s][l] => k = l
       /\ \A k \in DOMAIN backlog[s] : Untouched(backlog[s][k]) /\ peer[backlog[s][k]] # "idle"

(* Every open descriptor has one owner, which knows its number: a handler   *)
(* (or the connection that got none), or the main thread.                   *)
Descriptors ==
  /\ \A n \in Fds : fds[n] \in Conns =>
       \/ pc[fds[n]] \notin {"none", "done"} /\ client_fd[fds[n]] = n
       \/ main_pc \in {"register", "spawn"} /\ new_fd = n
  /\ \A n \in Fds : fds[n] \in Admins => main_pc \in AdminLocations /\ new_fd = n
  /\ \A c \in Conns : pc[c] \notin {"none", "done"}
       => client_fd[c] \in Fds /\ fds[client_fd[c]] = c

(* An entry is there from RegisterClient to HandlerRemove, at its           *)
(* connection's descriptor, and at no time twice.                           *)
Registry ==
  /\ \A i, j \in DOMAIN clients : clients[i].fd = clients[j].fd => i = j
  /\ \A i \in DOMAIN clients :
       LET c == clients[i].conn IN
         /\ fds[clients[i].fd] = c
         /\ \/ pc[c] \notin {"none", "close", "done"}
            \/ main_pc = "spawn" /\ new_fd = clients[i].fd

(* clients_mutex is held from one step to the next only by the main thread  *)
(* between its copy of the list and its reading of the queue.               *)
Snapshot ==
  /\ clients_mutex => main_pc = "admin_queue"
  /\ main_pc = "admin_queue" /\ admin_resp.command = "get_clients"
       => clients_mutex /\ admin_resp.clients = clients

OwnerInv == TypeOK /\ Kinds /\ MainThread /\ NotAccepted /\ Descriptors /\ Registry /\ Snapshot

(* Where a handler counts a request, the bound on counts has room for it.   *)
RoomToCount ==
  \A i \in DOMAIN clients :
    pc[clients[i].conn] = "count" => clients[i].request_count < MaxRequests

-----------------------------------------------------------------------------
(* A function on an initial segment of the numbers is a sequence.           *)
LEMMA FunctionIsSeq ==
  ASSUME NEW S, NEW n \in Nat, NEW f \in [1 .. n -> S]
  PROVE  f \in Seq(S) /\ Len(f) = n /\ DOMAIN f = 1 .. n
<1>1. f \in Seq(S)
  BY SeqDef, Zenon
<1>2. Len(f) \in Nat /\ DOMAIN f = 1 .. Len(f)
  BY <1>1, LenProperties
<1> QED
  BY <1>1, <1>2

(* An entry without the bound on its count. *)
Records == [fd : Fds, conn : Conns, request_count : Nat]

(* A list without entry i, the last one put in its place: each of its       *)
(* entries is one of the others, no two the same one, and none is missing.  *)
Without(s, i) == SubSeq([s EXCEPT ![i] = s[Len(s)]], 1, Len(s) - 1)

(* The place in s of entry j of Without(s, i). *)
Origin(s, i, j) == IF j = i THEN Len(s) ELSE j

(* What is left of a list, and where it comes from.                         *)
LEMMA RemovedEntry ==
  ASSUME NEW S, NEW s \in Seq(S), NEW i \in 1 .. Len(s)
  PROVE  /\ Without(s, i) \in Seq(S) /\ Len(Without(s, i)) = Len(s) - 1
         /\ \A j \in 1 .. Len(s) - 1 :
              /\ Origin(s, i, j) \in 1 .. Len(s) /\ Origin(s, i, j) # i
              /\ Without(s, i)[j] = s[Origin(s, i, j)]
         /\ \A j \in 1 .. Len(s) : j # i => \E k \in 1 .. Len(s) - 1 : Origin(s, i, k) = j
<1> DEFINE u == [s EXCEPT ![i] = s[Len(s)]]
<1>1. Len(s) \in Nat \ {0} /\ s[Len(s)] \in S
  BY ElementOfSeq, LenProperties
<1>2. u \in Seq(S) /\ Len(u) = Len(s)
      /\ \A j \in 1 .. Len(s) : u[j] = s[IF j = i THEN Len(s) ELSE j]
  BY <1>1, ExceptSeq
<1>3. \A j \in 1 .. Len(s) - 1 : u[j] \in S
  BY <1>1, <1>2, ElementOfSeq
<1> HIDE DEF u
<1> DEFINE t == SubSeq(u, 1, Len(s) - 1)
<1>4. /\ t \in Seq(S)
      /\ Len(t) = IF 1 <= Len(s) - 1 THEN Len(s) - 1 - 1 + 1 ELSE 0
      /\ \A j \in 1 .. Len(s) - 1 - 1 + 1 : t[j] = u[1 + j - 1]
  BY <1>1, <1>3, SubSeqProperties
<1>5. t = Without(s, i)
  BY DEF u, Without
<1> HIDE DEF t
<1>6. Len(t) = Len(s) - 1
  <2>1. Len(t) = IF 1 <= Len(s) - 1 THEN Len(s) - 1 - 1 + 1 ELSE 0
    BY <1>4
  <2> QED
    <3>1. CASE 1 <= Len(s) - 1
      BY <1>1, <2>1, <3>1
    <3>2. CASE ~ 1 <= Len(s) - 1
      <4>1. Len(s) = 1
        BY <1>1, <3>2
      <4>2. Len(t) = 0
        BY <2>1, <3>2, Zenon
      <4> QED
        BY <4>1, <4>2
    <3> QED
      BY <3>1, <3>2
<1>7. ASSUME NEW j \in 1 .. Len(s) - 1
      PROVE  Origin(s, i, j) \in 1 .. Len(s) /\ Origin(s, i, j) # i /\ t[j] = s[Origin(s, i, j)]
  <2>1. t[j] = u[j]
    BY <1>1, <1>4
  <2> QED
    BY <1>1, <1>2, <2>1 DEF Origin
<1>8. ASSUME NEW j \in 1 .. Len(s), j # i
      PROVE  \E k \in 1 .. Len(s) - 1 : Origin(s, i, k) = j
  <2>1. CASE j = Len(s)
    BY <1>1, <1>8, <2>1 DEF Origin
  <2>2. CASE j # Len(s)
    BY <1>1, <1>8, <2>2 DEF Origin
  <2> QED
    BY <2>1, <2>2
<1> QED
  BY <1>4, <1>5, <1>6, <1>7, <1>8

(* The entry at which the loops of remove_client and client_handler stop.   *)
LEMMA IndexOfEntry ==
  ASSUME NEW fd, clients \in Seq(Entries), Registry, Listed(fd)
  PROVE  IndexOf(fd) \in 1 .. Len(clients) /\ clients[IndexOf(fd)].fd = fd
<1>1. DOMAIN clients = 1 .. Len(clients) /\ Len(clients) \in Nat
  BY LenProperties
<1>2. PICK i \in 1 .. Len(clients) : clients[i].fd = fd
  BY <1>1 DEF Listed
<1>3. \A j \in 1 .. i - 1 : clients[j].fd # fd
  BY <1>1, <1>2 DEF Registry
<1> QED
  BY <1>1, <1>2, <1>3, Zenon DEF IndexOf

(* What remove_client leaves: it removes the entry at fd, and no other.     *)
LEMMA RemoveClientLeaves ==
  ASSUME NEW fd, clients \in Seq(Entries), Registry, RemoveClient(fd)
  PROVE  /\ clients' \in Seq(Entries) /\ Len(clients') <= Len(clients)
         /\ \A k \in DOMAIN clients' : \E i \in DOMAIN clients :
              clients'[k] = clients[i] /\ clients[i].fd # fd
         /\ \A k, l \in DOMAIN clients' : clients'[k].fd = clients'[l].fd => k = l
         /\ \A i \in DOMAIN clients : clients[i].fd # fd =>
              \E k \in DOMAIN clients' : clients'[k] = clients[i]
<1>1. DOMAIN clients = 1 .. Len(clients) /\ Len(clients) \in Nat
  BY LenProperties
<1>2. CASE ~ Listed(fd)
  <2>1. clients' = clients
    BY <1>2 DEF RemoveClient
  <2> QED
    BY <1>1, <1>2, <2>1 DEF Listed, Registry
<1>3. CASE Listed(fd)
  <2> DEFINE i == IndexOf(fd)
  <2>1. i \in 1 .. Len(clients) /\ clients[i].fd = fd
    BY <1>3, IndexOfEntry
  <2>2. clients' = Without(clients, i)
    BY <1>3 DEF RemoveClient, Without
  <2> HIDE DEF i
  <2> DEFINE from(k) == Origin(clients, i, k)
  <2>3. /\ clients' \in Seq(Entries) /\ Len(clients') = Len(clients) - 1
        /\ \A k \in 1 .. Len(clients) - 1 :
             from(k) \in 1 .. Len(clients) /\ from(k) # i /\ clients'[k] = clients[from(k)]
        /\ \A j \in 1 .. Len(clients) : j # i => \E k \in 1 .. Len(clients) - 1 : from(k) = j
    <3> DEFINE t == Without(clients, i)
    <3>1. /\ t \in Seq(Entries) /\ Len(t) = Len(clients) - 1
          /\ \A k \in 1 .. Len(clients) - 1 :
               from(k) \in 1 .. Len(clients) /\ from(k) # i /\ t[k] = clients[from(k)]
          /\ \A j \in 1 .. Len(clients) : j # i => \E k \in 1 .. Len(clients) - 1 : from(k) = j
      BY <2>1, RemovedEntry
    <3> QED
      BY <2>2, <3>1, Zenon
  <2>4. DOMAIN clients' = 1 .. Len(clients) - 1
    BY <2>3, LenProperties
  <2>5. \A j \in DOMAIN clients : clients[j].fd = fd => j = i
    BY <1>1, <2>1 DEF Registry
  <2>6. \A k \in DOMAIN clients' : \E j \in DOMAIN clients :
          clients'[k] = clients[j] /\ clients[j].fd # fd
    BY <1>1, <2>3, <2>4, <2>5
  <2>7. ASSUME NEW k \in DOMAIN clients', NEW l \in DOMAIN clients',
               clients'[k].fd = clients'[l].fd
        PROVE  k = l
    <3>1. from(k) = from(l)
      BY <1>1, <2>3, <2>4, <2>7 DEF Registry
    <3> QED
      BY <1>1, <2>1, <2>4, <3>1 DEF Origin
  <2>8. \A j \in DOMAIN clients : clients[j].fd # fd =>
          \E k \in DOMAIN clients' : clients'[k] = clients[j]
    BY <1>1, <2>1, <2>3, <2>4
  <2> QED
    BY <1>1, <2>3, <2>6, <2>7, <2>8
<1> QED
  BY <1>2, <1>3

(* What counting a request changes: the count of the entry at fd.           *)
LEMMA CountRequestCounts ==
  ASSUME NEW fd, clients \in Seq(Entries), Registry, CountRequest(fd)
  PROVE  /\ DOMAIN clients' = DOMAIN clients /\ Len(clients') = Len(clients)
         /\ clients' \in Seq(Records)
         /\ \A i \in DOMAIN clients :
              /\ clients'[i].fd = clients[i].fd /\ clients'[i].conn = clients[i].conn
              /\ clients'[i].request_count
                   = clients[i].request_count + IF clients[i].fd = fd THEN 1 ELSE 0
<1>1. DOMAIN clients = 1 .. Len(clients) /\ Len(clients) \in Nat
  BY LenProperties
<1>2. \A i \in DOMAIN clients : clients[i] \in Entries
  BY <1>1, ElementOfSeq
<1>3. \A i \in DOMAIN clients : clients[i] \in Records
  BY <1>2, ServerAssumption DEF Entries, Records
<1>4. CASE ~ Listed(fd)
  <2>1. clients' = clients
    BY <1>4 DEF CountRequest
  <2>2. clients \in Seq(Records)
    <3>1. clients \in [1 .. Len(clients) -> Records]
      BY <1>1, <1>3, LenProperties
    <3> QED
      BY <1>1, <3>1, FunctionIsSeq
  <2>3. \A i \in DOMAIN clients : clients[i].request_count \in Nat
    BY <1>3 DEF Records
  <2> QED
    BY <2>3, <1>4, <2>1, <2>2 DEF Listed
<1>5. CASE Listed(fd)
  <2> DEFINE i == IndexOf(fd)
  <2>1. i \in DOMAIN clients /\ clients[i].fd = fd
    BY <1>1, <1>5, IndexOfEntry
  <2>2. clients' = [clients EXCEPT ![i] = [clients[i] EXCEPT !.request_count = @ + 1]]
    BY <1>5 DEF CountRequest
  <2> HIDE DEF i
  <2>3. \A j \in DOMAIN clients : clients[j].fd = fd => j = i
    BY <1>1, <2>1 DEF Registry
  <2>4. DOMAIN clients' = DOMAIN clients
    BY <2>2
  <2>5. [clients[i] EXCEPT !.request_count = @ + 1]
          = [fd |-> clients[i].fd, conn |-> clients[i].conn,
             request_count |-> clients[i].request_count + 1]
    BY <1>3, <2>1 DEF Records
  <2>6. \A j \in DOMAIN clients : clients'[j] \in Records
    BY <1>3, <2>1, <2>2, <2>5 DEF Records
  <2>7. clients' \in Seq(Records) /\ Len(clients') = Len(clients)
    <3>1. clients' = [j \in 1 .. Len(clients) |-> clients'[j]]
      BY <1>1, <2>2
    <3>2. clients' \in [1 .. Len(clients) -> Records]
      BY <1>1, <2>6, <3>1
    <3> QED
      BY <1>1, <3>2, FunctionIsSeq
  <2> QED
    BY <1>3, <2>1, <2>2, <2>3, <2>4, <2>5, <2>7 DEF Records
<1> QED
  BY <1>4, <1>5

-----------------------------------------------------------------------------
(* Every step keeps the types.                                              *)
LEMMA NextTypes == OwnerInv /\ RoomToCount /\ [Next]_vars => TypeOK'
<1> SUFFICES ASSUME OwnerInv, RoomToCount, [Next]_vars
             PROVE  TypeOK'
  OBVIOUS
<1> USE DEF TypeOK, world, wire, registry, main, handlers, worker, HandlerGoto
<1>1. TypeOK /\ Conns \subseteq Endpoints /\ Admins \subseteq Endpoints
  BY DEF OwnerInv, Endpoints
<1>2. ASSUME NEW e \in Endpoints, Connect(e)
      PROVE  TypeOK'
  <2> DEFINE socket == IF e \in Conns THEN "tcp" ELSE "unix"
  <2>1. socket \in {"tcp", "unix"} /\ backlog' = [backlog EXCEPT ![socket] = Append(@, e)]
    BY <1>2 DEF Connect
  <2> HIDE DEF socket
  <2>2. Append(backlog[socket], e) \in Seq(Endpoints)
    BY <1>1, <2>1, AppendProperties
  <2>3. backlog' \in [{"tcp", "unix"} -> Seq(Endpoints)]
    BY <1>1, <2>1, <2>2
  <2> QED
    BY <1>1, <1>2, <2>3 DEF Connect
<1>3. ASSUME NEW e \in Endpoints, Close(e)
      PROVE  TypeOK'
  BY <1>1, <1>3 DEF Close
<1>4. ASSUME NEW e \in Endpoints, NEW type \in Types \union Commands,
             Len(sent[e]) < MaxRequests, Send(e, type)
      PROVE  TypeOK'
  <2>1. sent' = [sent EXCEPT ![e] = Append(@, type)]
    BY <1>4 DEF Send
  <2>2. sent[e] \in Seq(Types \union Commands)
    BY <1>1
  <2>3. /\ Append(sent[e], type) \in Seq(Types \union Commands)
        /\ Len(Append(sent[e], type)) = Len(sent[e]) + 1 /\ Len(sent[e]) \in Nat
    BY <2>2, AppendProperties, LenProperties
  <2>4. sent' \in [Endpoints -> Seq(Types \union Commands)]
    BY <1>1, <2>1, <2>3
  <2>5. Len(sent'[e]) \in 1 .. MaxRequests
    BY <1>1, <1>4, <2>1, <2>3, ServerAssumption
  <2> DEFINE m == [text |-> <<e, Len(sent'[e])>>, type |-> type]
             M == [text : Texts, type : Types \union Commands]
  <2>6. m \in M
    BY <2>5 DEF Texts
  <2>7. inbox' = [inbox EXCEPT ![e] = Append(@, m)]
    BY <1>4 DEF Send
  <2>8. inbox \in [Endpoints -> Seq(M)]
    BY <1>1
  <2> HIDE DEF m, M
  <2>9. Append(inbox[e], m) \in Seq(M)
    BY <2>6, <2>8, AppendProperties
  <2>10. inbox' \in [Endpoints -> Seq(M)]
    BY <2>7, <2>8, <2>9
  <2> QED
    BY <1>1, <1>4, <2>4, <2>10 DEF Send, M
<1>5. ASSUME NEW c \in Conns, HandlerReceive(c)
      PROVE  TypeOK'
  <2> DEFINE req == Head(inbox[c])
             M == [text : Texts, type : Types \union Commands]
  <2>1. inbox[c] # <<>> /\ inbox' = [inbox EXCEPT ![c] = Tail(@)] /\ pc[c] = "read"
        /\ proc_req' = [proc_req EXCEPT ![c] =
             [client_fd |-> client_fd[c], text |-> req.text, type |-> req.type]]
    BY <1>5 DEF HandlerReceive, HandlerAt
  <2>2. req \in [text : Texts, type : Types]
    <3>1. inbox[c] \in Seq([text : Texts, type : Types])
      BY DEF OwnerInv, Kinds
    <3> QED
      BY <2>1, <3>1, HeadTailProperties
  <2>3. client_fd[c] \in Fds
    BY <2>1 DEF OwnerInv, Descriptors
  <2>4. proc_req' \in [Conns -> ProcessingRequests \union {NoRequest}]
    <3>1. [client_fd |-> client_fd[c], text |-> req.text, type |-> req.type] \in ProcessingRequests
      BY <2>2, <2>3 DEF ProcessingRequests
    <3> QED
      BY <1>1, <2>1, <3>1
  <2>5. inbox \in [Endpoints -> Seq(M)]
    BY <1>1
  <2> HIDE DEF M
  <2>6. Tail(inbox[c]) \in Seq(M)
    BY <1>1, <2>1, <2>5, HeadTailProperties
  <2>7. inbox' \in [Endpoints -> Seq(M)]
    BY <2>1, <2>5, <2>6
  <2>8. pc' \in [Conns -> {"none", "unborn", "read", "enqueue", "count", "remove", "close", "done"}]
    BY <1>1, <1>5 DEF HandlerReceive
  <2> QED
    BY <1>1, <1>5, <2>4, <2>7, <2>8 DEF HandlerReceive, M
<1>6. ASSUME NEW c \in Conns, HandlerFail(c)
      PROVE  TypeOK'
  BY <1>1, <1>6 DEF HandlerFail
<1>7. ASSUME NEW c \in Conns, HandlerEnqueue(c)
      PROVE  TypeOK'
  <2>1. proc_req[c] \in ProcessingRequests
    BY <1>7 DEF HandlerEnqueue, HandlerAt, OwnerInv, Kinds
  <2>2. Len(request_queue) < MAX_QUEUE_SIZE /\ request_queue' = Append(request_queue, proc_req[c])
    BY <1>7 DEF HandlerEnqueue, Queue!Put
  <2>3. request_queue' \in Seq(ProcessingRequests) /\ Len(request_queue') = Len(request_queue) + 1
    BY <1>1, <2>1, <2>2, AppendProperties
  <2>4. Len(request_queue') <= MAX_QUEUE_SIZE
    BY <1>1, <2>2, <2>3, LenProperties, ServerAssumption
  <2>5. proc_req' \in [Conns -> ProcessingRequests \union {NoRequest}]
        /\ pc' \in [Conns -> {"none", "unborn", "read", "enqueue", "count", "remove", "close", "done"}]
    BY <1>1, <1>7 DEF HandlerEnqueue
  <2> QED
    BY <1>1, <1>7, <2>3, <2>4, <2>5 DEF HandlerEnqueue
<1>8. ASSUME NEW c \in Conns, HandlerCount(c)
      PROVE  TypeOK'
  <2> DEFINE fd == client_fd[c]
  <2>1. CountRequest(fd) /\ Registry /\ clients \in Seq(Entries) /\ Len(clients) <= MAX_CLIENTS
    BY <1>1, <1>8 DEF HandlerCount, OwnerInv
  <2>2. /\ DOMAIN clients' = DOMAIN clients /\ Len(clients') = Len(clients)
        /\ clients' \in Seq(Records)
        /\ \A i \in DOMAIN clients :
              /\ clients'[i].fd = clients[i].fd /\ clients'[i].conn = clients[i].conn
              /\ clients'[i].request_count
                   = clients[i].request_count + IF clients[i].fd = fd THEN 1 ELSE 0
    BY <2>1, CountRequestCounts
  <2>3. DOMAIN clients = 1 .. Len(clients) /\ Len(clients) \in Nat
    BY <2>1, LenProperties
  <2>4. ASSUME NEW i \in DOMAIN clients
        PROVE  clients'[i] \in Entries
    <3>1. clients[i] \in Entries /\ clients'[i] \in Records
      BY <2>1, <2>2, <2>3, ElementOfSeq
    <3>2. clients[i].request_count \in 0 .. MaxRequests
      BY <3>1 DEF Entries
    <3>3. clients[i].fd = fd => clients[i].request_count < MaxRequests
      <4>1. SUFFICES ASSUME clients[i].fd = fd
                     PROVE  pc[clients[i].conn] = "count"
        BY DEF RoomToCount
      <4>2. pc[c] = "count" /\ fds[fd] = c
        BY <1>8 DEF HandlerCount, HandlerAt, OwnerInv, Descriptors
      <4> QED
        BY <4>1, <4>2 DEF OwnerInv, Registry
    <3>4. clients'[i].request_count \in 0 .. MaxRequests
      <4>1. CASE clients[i].fd = fd
        BY <2>2, <3>2, <3>3, <4>1, ServerAssumption
      <4>2. CASE clients[i].fd # fd
        BY <2>2, <3>2, <4>2, ServerAssumption
      <4> QED
        BY <4>1, <4>2
    <3> QED
      BY <3>1, <3>4 DEF Entries, Records
  <2>5. clients' \in Seq(Entries)
    <3>1. clients' \in [1 .. Len(clients) -> Entries]
      BY <2>2, <2>3, <2>4, LenProperties
    <3> QED
      BY <2>3, <3>1, FunctionIsSeq
  <2>6. Len(clients') <= MAX_CLIENTS
    BY <2>1, <2>2
  <2> QED
    BY <1>1, <1>8, <2>5, <2>6 DEF HandlerCount
<1>9. ASSUME NEW c \in Conns, HandlerRemove(c)
      PROVE  TypeOK'
  <2>1. clients' \in Seq(Entries) /\ Len(clients') <= Len(clients)
    BY <1>1, <1>9, RemoveClientLeaves DEF HandlerRemove, OwnerInv
  <2>2. Len(clients') <= MAX_CLIENTS
    BY <1>1, <2>1, LenProperties, ServerAssumption
  <2> QED
    BY <1>1, <1>9, <2>1, <2>2 DEF HandlerRemove
<1>10. ASSUME NEW c \in Conns, HandlerClose(c)
      PROVE  TypeOK'
  BY <1>1, <1>10 DEF HandlerClose, CloseFd
<1>11. CASE Dequeue
  <2>1. request_queue # <<>> /\ request' = Head(request_queue) /\ request_queue' = Tail(request_queue)
    BY <1>11 DEF Dequeue, Queue!Get
  <2>2. request' \in ProcessingRequests /\ request_queue' \in Seq(ProcessingRequests)
        /\ Len(request_queue') = Len(request_queue) - 1
    BY <1>1, <2>1, HeadTailProperties
  <2>3. Len(request_queue') <= MAX_QUEUE_SIZE
    BY <1>1, <2>2, LenProperties, ServerAssumption
  <2> QED
    BY <1>1, <1>11, <2>2, <2>3 DEF Dequeue
<1>12. CASE Process
  <2>1. request.text \in Texts
    BY <1>12 DEF Process, WorkerAt, OwnerInv, Kinds, ProcessingRequests
  <2>2. documents' \in Seq(Texts)
    BY <1>1, <1>12, <2>1, AppendProperties DEF Process
  <2> QED
    BY <1>1, <1>12, <2>2 DEF Process
<1>13. CASE SendPart
  <2> DEFINE e == fds[request.client_fd]
             p == [text |-> request.text, type |-> request.type, part |-> part]
  <2>1. request \in ProcessingRequests /\ request.client_fd \in Fds
    BY <1>13 DEF SendPart, WorkerAt, OwnerInv, Kinds, ProcessingRequests
  <2>2. e # Free => e \in Endpoints
    BY <1>1, <2>1
  <2>3. p \in Pieces
    BY <1>1, <2>1 DEF ProcessingRequests, Pieces
  <2> HIDE DEF p
  <2>4. Append(outbox[e], p) \in Seq(Pieces) \/ e = Free
    BY <1>1, <2>2, <2>3, AppendProperties
  <2>5. outbox' = outbox \/ (e # Free /\ outbox' = [outbox EXCEPT ![e] = Append(@, p)])
    BY <1>13 DEF SendPart, Deliver, Killed, p
  <2>6. outbox' \in [Endpoints -> Seq(Pieces)]
    BY <1>1, <2>2, <2>4, <2>5
  <2>7. reset' \subseteq Conns
    <3>1. reset' = reset \/ (e # Free /\ ~ Broken(e) /\ peer[e] = "closed" /\ reset' = reset \union {e})
      BY <1>13 DEF SendPart, Deliver, Killed
    <3> QED
      BY <1>1, <2>2, <3>1 DEF Broken, Endpoints
  <2>8. worker_pc' \in {"dequeue", "process", "send"} /\ part' \in Nat \ {0} /\ alive' \in BOOLEAN
    <3>1. NextPart \/ FinishSend \/ UNCHANGED <<worker_pc, part>>
      BY <1>13, Zenon DEF SendPart
    <3>2. (worker_pc' = worker_pc \/ worker_pc' = "dequeue") /\ (part' = part \/ part' = 1 \/ part' = part + 1)
      BY <3>1, Zenon DEF NextPart, FinishSend
    <3>3. alive' = alive \/ alive' = FALSE
      BY <1>13, Zenon DEF SendPart, Deliver, Killed
    <3>4. part' \in Nat \ {0}
      BY <1>1, <3>2
    <3>5. alive' \in BOOLEAN
      BY <1>1, <3>3, Zenon
    <3> QED
      BY <1>1, <3>2, <3>4, <3>5
  <2> QED
    BY <1>1, <1>13, <2>6, <2>7, <2>8 DEF SendPart
<1>14. CASE Poll
  BY <1>1, <1>14 DEF Poll
<1>15. ASSUME NEW socket \in {"tcp", "unix"}, Accept(socket), backlog[socket] # <<>>
      PROVE  /\ fds' \in [Fds -> Endpoints \union {Free}] /\ new_fd' \in Fds
             /\ backlog' \in [{"tcp", "unix"} -> Seq(Endpoints)]
  <2>1. Head(backlog[socket]) \in Endpoints /\ Tail(backlog[socket]) \in Seq(Endpoints)
    BY <1>1, <1>15, HeadTailProperties
  <2> QED
    BY <1>1, <1>15, <2>1 DEF Accept, FreeFds
<1>16. CASE AcceptClient
  <2>1. backlog["tcp"] # <<>> /\ Accept("tcp")
    BY <1>16 DEF AcceptClient, MainAt, OwnerInv, MainThread
  <2> QED
    BY <1>1, <1>15, <1>16, <2>1 DEF AcceptClient
<1>17. CASE AcceptAdmin
  <2>1. backlog["unix"] # <<>> /\ Accept("unix")
    BY <1>17 DEF AcceptAdmin, MainAt, OwnerInv, MainThread
  <2> QED
    BY <1>1, <1>15, <1>17, <2>1 DEF AcceptAdmin
(* The reply that EndLoop leaves. *)
<1>18. NoResponse \in [command : Commands \union {"none"}, clients : Seq(Entries),
                       queue_size : 0 .. MAX_QUEUE_SIZE]
  <2>1. <<>> \in Seq(Entries)
    BY EmptySeq
  <2> QED
    BY <2>1, ServerAssumption DEF NoResponse
<1>19. CASE AcceptFails
  BY <1>1, <1>18, <1>19 DEF AcceptFails, EndLoop
<1>20. CASE RegisterClient
  <2>1. CASE Len(clients) < MAX_CLIENTS
    <3> DEFINE entry == [fd |-> new_fd, conn |-> fds[new_fd], request_count |-> 0]
    <3>1. new_fd \in Fds /\ fds[new_fd] \in Conns
      BY <1>20 DEF RegisterClient, MainAt, OwnerInv, MainThread
    <3>2. entry \in Entries
      BY <3>1, ServerAssumption DEF Entries
    <3>3. clients' = Append(clients, entry)
      BY <1>20, <2>1 DEF RegisterClient
    <3> HIDE DEF entry
    <3>4. clients' \in Seq(Entries) /\ Len(clients') = Len(clients) + 1
      BY <1>1, <3>2, <3>3, AppendProperties
    <3>5. Len(clients') <= MAX_CLIENTS
      BY <1>1, <2>1, <3>4, LenProperties, ServerAssumption
    <3> QED
      BY <1>1, <1>20, <3>4, <3>5 DEF RegisterClient
  <2>2. CASE ~ Len(clients) < MAX_CLIENTS
    BY <1>1, <1>20, <2>2 DEF RegisterClient
  <2> QED
    BY <2>1, <2>2
<1>21. ASSUME NEW location \in {"read", "unborn"}, StartHandler(location), AfterSpawn, main_pc = "spawn"
      PROVE  /\ client_fd' \in [Conns -> Fds \union {-1}]
             /\ pc' \in [Conns -> {"none", "unborn", "read", "enqueue", "count", "remove", "close", "done"}]
             /\ main_pc' \in {"poll", "admin_accept"}
             /\ new_fd' = -1 /\ revents' \subseteq {"tcp", "unix"}
             /\ admin_resp' \in [command : Commands \union {"none"}, clients : Seq(Entries),
                                 queue_size : 0 .. MAX_QUEUE_SIZE]
  <2>1. new_fd \in Fds /\ fds[new_fd] \in Conns
    BY <1>21 DEF OwnerInv, MainThread
  <2> QED
    BY <1>1, <1>18, <1>21, <2>1 DEF StartHandler, AfterSpawn, EndLoop
<1>22. CASE SpawnHandler
  BY <1>1, <1>21, <1>22 DEF SpawnHandler, MainAt
<1>23. CASE SpawnFails
  BY <1>1, <1>21, <1>23 DEF SpawnFails, MainAt
<1>24. CASE AdminReceive
  <2> DEFINE a == fds[new_fd]
             M == [text : Texts, type : Types \union Commands]
  <2>1. a \in Admins /\ inbox[a] # <<>> /\ inbox' = [inbox EXCEPT ![a] = Tail(@)]
        /\ admin_resp' = [admin_resp EXCEPT !.command = Head(inbox[a]).type]
    BY <1>24 DEF AdminReceive, MainAt, OwnerInv, MainThread, AdminLocations
  <2> HIDE DEF a
  <2>2. Head(inbox[a]) \in [text : Texts, type : Commands]
    <3>1. inbox[a] \in Seq([text : Texts, type : Commands])
      BY <2>1 DEF OwnerInv, Kinds
    <3> QED
      BY <2>1, <3>1, HeadTailProperties
  <2>3. admin_resp' \in [command : Commands \union {"none"}, clients : Seq(Entries),
                         queue_size : 0 .. MAX_QUEUE_SIZE]
    BY <1>1, <2>1, <2>2
  <2>4. inbox \in [Endpoints -> Seq(M)]
    BY <1>1
  <2> HIDE DEF M
  <2>5. Tail(inbox[a]) \in Seq(M)
    BY <1>1, <2>1, <2>4, HeadTailProperties
  <2>6. inbox' \in [Endpoints -> Seq(M)]
    BY <2>1, <2>4, <2>5
  <2>7. main_pc' \in {"admin_clients", "admin_queue", "admin_send"}
    BY <1>24 DEF AdminReceive
  <2> QED
    BY <1>1, <1>24, <2>3, <2>6, <2>7 DEF AdminReceive, M
<1>25. CASE AdminHangup
  BY <1>1, <1>25 DEF AdminHangup
<1>26. CASE AdminCopyClients
  BY <1>1, <1>26 DEF AdminCopyClients
<1>27. CASE AdminReadQueue
  <2>1. Len(request_queue) \in 0 .. MAX_QUEUE_SIZE
    BY <1>1, LenProperties, ServerAssumption
  <2> QED
    BY <1>1, <1>27, <2>1 DEF AdminReadQueue
<1>28. CASE AdminReply
  <2> DEFINE a == fds[new_fd]
             k == Cardinality(WritesMade(a)) + 1
             p == [text |-> <<a, 1>>, type |-> admin_resp.command, part |-> k]
  <2>1. a \in Admins /\ admin_resp.command \in Commands
    BY <1>28 DEF AdminReply, MainAt, OwnerInv, MainThread, Kinds, AdminLocations
  <2>0. k \in Nat \ {0}
    <3> HIDE DEF a
    <3>1. WritesMade(a) \subseteq 1 .. Len(outbox[a]) /\ Len(outbox[a]) \in Nat
      <4>1. outbox[a] \in Seq(Pieces)
        BY <1>1, <2>1 DEF Endpoints
      <4> QED
        BY <4>1, LenProperties DEF WritesMade
    <3>2. Cardinality(WritesMade(a)) \in Nat
      <4>1. IsFiniteSet(1 .. Len(outbox[a]))
        BY <3>1, FS_Interval
      <4> QED
        BY <3>1, <4>1, FS_Subset, FS_CardinalityType
    <3> QED
      BY <3>2
  <2>2. outbox' = outbox \/ outbox' = [outbox EXCEPT ![a] = Append(@, p)]
    BY <1>28 DEF AdminReply, Deliver, Killed
  <2>3. reset' = reset /\ alive' \in BOOLEAN
    BY <1>1, <1>28 DEF AdminReply, Deliver, Killed
  <2>7. main_pc' = main_pc \/ main_pc' = "admin_send" \/ main_pc' = "admin_close"
    BY <1>28 DEF AdminReply
  <2> HIDE DEF a, k
  <2>4. p \in Pieces
    BY <1>1, <2>0, <2>1, ServerAssumption, SMTT(30) DEF Pieces, Texts
  <2> HIDE DEF p
  <2>5. Append(outbox[a], p) \in Seq(Pieces)
    BY <1>1, <2>1, <2>4, AppendProperties
  <2>6. outbox' \in [Endpoints -> Seq(Pieces)]
    BY <1>1, <2>1, <2>2, <2>5
  <2> QED
    BY <1>1, <1>28, <2>3, <2>6, <2>7 DEF AdminReply
<1>29. CASE AdminClose
  BY <1>1, <1>18, <1>29 DEF AdminClose, CloseFd, EndLoop
<1>30. CASE UNCHANGED vars
  BY <1>1, <1>30 DEF vars
<1>31. ASSUME NEW c \in Conns, NEW type \in Types, ClientSend(c, type)
       PROVE  TypeOK'
  BY <1>1, <1>4, <1>31 DEF ClientSend
<1>32. ASSUME NEW a \in Admins, NEW command \in Commands, AdminSend(a, command)
       PROVE  TypeOK'
  <2>1. Len(sent[a]) < MaxRequests
    BY <1>32, ServerAssumption, EmptySeq DEF AdminSend
  <2> QED
    BY <1>1, <1>4, <1>32, <2>1 DEF AdminSend
<1> QED
  BY <1>2, <1>3, <1>5, <1>6, <1>7, <1>8, <1>9, <1>10, <1>11, <1>12, <1>13, <1>14, <1>16,
     <1>17, <1>19, <1>20, <1>22, <1>23, <1>24, <1>25, <1>26, <1>27, <1>28, <1>29, <1>30,
     <1>31, <1>32
  DEF Next, Handler, Worker, Main

-----------------------------------------------------------------------------
(* Who writes what: the actions that change a variable. *)
Writers ==
  /\ UNCHANGED peer \/ \E e \in Endpoints : Connect(e) \/ Close(e)
  /\ \/ UNCHANGED sent
     \/ \E c \in Conns : \E type \in Types : ClientSend(c, type)
     \/ \E a \in Admins : \E command \in Commands : AdminSend(a, command)
  /\ \/ UNCHANGED inbox
     \/ \E c \in Conns : \E type \in Types : ClientSend(c, type)
     \/ \E a \in Admins : \E command \in Commands : AdminSend(a, command)
     \/ \E c \in Conns : HandlerReceive(c)
     \/ AdminReceive
  /\ \/ UNCHANGED backlog
     \/ \E e \in Endpoints : Connect(e)
     \/ AcceptClient \/ AcceptAdmin
  /\ \/ UNCHANGED fds
     \/ \E c \in Conns : HandlerClose(c)
     \/ AcceptClient \/ AcceptAdmin \/ AdminClose
  /\ \/ UNCHANGED clients
     \/ \E c \in Conns : HandlerCount(c) \/ HandlerRemove(c)
     \/ RegisterClient
  /\ UNCHANGED clients_mutex \/ AdminCopyClients \/ AdminReadQueue
  /\ UNCHANGED request_queue \/ Dequeue \/ \E c \in Conns : HandlerEnqueue(c)
  /\ UNCHANGED main \/ Main
  /\ UNCHANGED handlers \/ SpawnHandler \/ SpawnFails \/ \E c \in Conns : Handler(c)
  /\ UNCHANGED worker \/ Worker

(* No other action changes the variable.                                    *)
LEMMA OnlyWriters == [Next]_vars => Writers
<1> SUFFICES ASSUME [Next]_vars PROVE Writers
  OBVIOUS
<1> USE DEF Writers, Handler, Worker, Main, vars, world, wire, registry, main, handlers, worker
<1>1. ASSUME NEW e \in Endpoints, Connect(e)
      PROVE  Writers
  BY <1>1 DEF Connect
<1>2. ASSUME NEW e \in Endpoints, Close(e)
      PROVE  Writers
  BY <1>2 DEF Close
<1>3. ASSUME NEW c \in Conns, NEW type \in Types, ClientSend(c, type)
      PROVE  Writers
  BY <1>3 DEF ClientSend, Send
<1>4. ASSUME NEW a \in Admins, NEW command \in Commands, AdminSend(a, command)
      PROVE  Writers
  BY <1>4 DEF AdminSend, Send
<1>5. ASSUME NEW c \in Conns, HandlerReceive(c)
      PROVE  Writers
  BY <1>5 DEF HandlerReceive
<1>6. ASSUME NEW c \in Conns, HandlerFail(c)
      PROVE  Writers
  BY <1>6 DEF HandlerFail
<1>7. ASSUME NEW c \in Conns, HandlerEnqueue(c)
      PROVE  Writers
  BY <1>7 DEF HandlerEnqueue, Queue!Put
<1>8. ASSUME NEW c \in Conns, HandlerCount(c)
      PROVE  Writers
  BY <1>8 DEF HandlerCount
<1>9. ASSUME NEW c \in Conns, HandlerRemove(c)
      PROVE  Writers
  BY <1>9 DEF HandlerRemove
<1>10. ASSUME NEW c \in Conns, HandlerClose(c)
      PROVE  Writers
  BY <1>10 DEF HandlerClose
<1>11. CASE Dequeue
  BY <1>11 DEF Dequeue, Queue!Get
<1>12. CASE Process
  BY <1>12 DEF Process
<1>13. CASE SendPart
  BY <1>13 DEF SendPart, Deliver, Killed
<1>14. CASE Poll
  BY <1>14 DEF Poll
<1>15. CASE AcceptClient
  BY <1>15 DEF AcceptClient, Accept
<1>16. CASE AcceptFails
  BY <1>16 DEF AcceptFails
<1>17. CASE RegisterClient
  BY <1>17 DEF RegisterClient
<1>18. CASE SpawnHandler
  BY <1>18 DEF SpawnHandler, AfterSpawn, EndLoop
<1>19. CASE SpawnFails
  BY <1>19 DEF SpawnFails
<1>20. CASE AcceptAdmin
  BY <1>20 DEF AcceptAdmin, Accept
<1>21. CASE AdminReceive
  BY <1>21 DEF AdminReceive
<1>22. CASE AdminHangup
  BY <1>22 DEF AdminHangup
<1>23. CASE AdminCopyClients
  BY <1>23 DEF AdminCopyClients
<1>24. CASE AdminReadQueue
  BY <1>24 DEF AdminReadQueue
<1>25. CASE AdminReply
  BY <1>25 DEF AdminReply, Deliver, Killed
<1>26. CASE AdminClose
  BY <1>26 DEF AdminClose
<1>27. CASE UNCHANGED vars
  BY <1>27 DEF vars
<1> QED
  BY <1>1, <1>2, <1>3, <1>4, <1>5, <1>6, <1>7, <1>8, <1>9, <1>10, <1>11, <1>12, <1>13,
     <1>14, <1>15, <1>16, <1>17, <1>18, <1>19, <1>20, <1>21, <1>22, <1>23, <1>24, <1>25, <1>26, <1>27
  DEF Next

-----------------------------------------------------------------------------
(* Every step keeps connections and messages where they belong.             *)
LEMMA NextKinds == OwnerInv /\ [Next]_vars => Kinds'
<1> SUFFICES ASSUME OwnerInv, [Next]_vars
             PROVE  Kinds'
  OBVIOUS
<1> USE DEF world, wire, registry, main, handlers, worker
<1>1. TypeOK /\ Kinds /\ Writers /\ Conns \subseteq Endpoints /\ Admins \subseteq Endpoints
      /\ Conns \intersect Admins = {}
  BY OnlyWriters, ServerAssumption DEF OwnerInv, Endpoints
<1>2. backlog'["tcp"] \in Seq(Conns) /\ backlog'["unix"] \in Seq(Admins)
  <2>1. ASSUME NEW e \in Endpoints, Connect(e)
        PROVE  backlog'["tcp"] \in Seq(Conns) /\ backlog'["unix"] \in Seq(Admins)
    <3>1. CASE e \in Conns
      <4>1. backlog' = [backlog EXCEPT !["tcp"] = Append(@, e)]
        BY <2>1, <3>1 DEF Connect
      <4>2. Append(backlog["tcp"], e) \in Seq(Conns)
        BY <1>1, <3>1, AppendProperties DEF Kinds
      <4> QED
        BY <1>1, <4>1, <4>2 DEF TypeOK, Kinds
    <3>2. CASE e \in Admins
      <4>1. backlog' = [backlog EXCEPT !["unix"] = Append(@, e)]
        BY <1>1, <2>1, <3>2 DEF Connect
      <4>2. Append(backlog["unix"], e) \in Seq(Admins)
        BY <1>1, <3>2, AppendProperties DEF Kinds
      <4> QED
        BY <1>1, <4>1, <4>2 DEF TypeOK, Kinds
    <3> QED
      BY <3>1, <3>2 DEF Endpoints
  <2>2. CASE AcceptClient
    <3>1. backlog["tcp"] # <<>> /\ backlog' = [backlog EXCEPT !["tcp"] = Tail(@)]
      BY <2>2 DEF AcceptClient, Accept, MainAt, OwnerInv, MainThread
    <3>2. Tail(backlog["tcp"]) \in Seq(Conns)
      BY <1>1, <3>1, HeadTailProperties DEF Kinds
    <3> QED
      BY <1>1, <3>1, <3>2 DEF TypeOK, Kinds
  <2>3. CASE AcceptAdmin
    <3>1. backlog["unix"] # <<>> /\ backlog' = [backlog EXCEPT !["unix"] = Tail(@)]
      BY <2>3 DEF AcceptAdmin, Accept, MainAt, OwnerInv, MainThread
    <3>2. Tail(backlog["unix"]) \in Seq(Admins)
      BY <1>1, <3>1, HeadTailProperties DEF Kinds
    <3> QED
      BY <1>1, <3>1, <3>2 DEF TypeOK, Kinds
  <2> QED
    BY <1>1, <2>1, <2>2, <2>3 DEF Writers, Kinds
<1>3. ASSUME NEW E, E \subseteq Endpoints, NEW T, T \subseteq Types \union Commands,
             \A e \in E : inbox[e] \in Seq([text : Texts, type : T]),
             NEW x \in Endpoints, NEW type \in Types \union Commands, x \in E => type \in T,
             Len(sent[x]) < MaxRequests, Send(x, type)
      PROVE  \A e \in E : inbox'[e] \in Seq([text : Texts, type : T])
  <2> DEFINE m == [text |-> <<x, Len(sent'[x])>>, type |-> type]
  <2>1. inbox' = [inbox EXCEPT ![x] = Append(@, m)]
    BY <1>3 DEF Send
  <2>2. Len(sent'[x]) \in 1 .. MaxRequests
    <3>1. Len(Append(sent[x], type)) = Len(sent[x]) + 1 /\ Len(sent[x]) \in Nat
      BY <1>1, <1>3, AppendProperties, LenProperties DEF TypeOK
    <3>2. sent'[x] = Append(sent[x], type)
      BY <1>1, <1>3 DEF Send, TypeOK
    <3> QED
      BY <1>3, <3>1, <3>2, ServerAssumption
  <2>3. x \in E => m \in [text : Texts, type : T]
    BY <1>3, <2>2 DEF Texts
  <2> HIDE DEF m
  <2>4. x \in E => Append(inbox[x], m) \in Seq([text : Texts, type : T])
    BY <1>3, <2>3, AppendProperties
  <2> QED
    BY <1>1, <1>3, <2>1, <2>4 DEF TypeOK
<1>4. ASSUME NEW E, E \subseteq Endpoints, NEW T,
             \A e \in E : inbox[e] \in Seq([text : Texts, type : T]),
             NEW x \in Endpoints, inbox[x] # <<>>, inbox' = [inbox EXCEPT ![x] = Tail(@)]
      PROVE  \A e \in E : inbox'[e] \in Seq([text : Texts, type : T])
  <2>1. x \in E => Tail(inbox[x]) \in Seq([text : Texts, type : T])
    BY <1>4, HeadTailProperties
  <2> QED
    BY <1>1, <1>4, <2>1 DEF TypeOK
<1>5. /\ \A c \in Conns : inbox'[c] \in Seq([text : Texts, type : Types])
      /\ \A a \in Admins : inbox'[a] \in Seq([text : Texts, type : Commands])
  <2>1. ASSUME NEW c \in Conns, NEW type \in Types, ClientSend(c, type)
        PROVE  /\ \A e \in Conns : inbox'[e] \in Seq([text : Texts, type : Types])
               /\ \A a \in Admins : inbox'[a] \in Seq([text : Texts, type : Commands])
    <3>1. c \notin Admins /\ Len(sent[c]) < MaxRequests /\ Send(c, type)
      BY <1>1, <2>1 DEF ClientSend
    <3> QED
      BY <1>1, <1>3, <3>1 DEF Kinds
  <2>2. ASSUME NEW a \in Admins, NEW command \in Commands, AdminSend(a, command)
        PROVE  /\ \A c \in Conns : inbox'[c] \in Seq([text : Texts, type : Types])
               /\ \A e \in Admins : inbox'[e] \in Seq([text : Texts, type : Commands])
    <3>1. a \notin Conns /\ Len(sent[a]) < MaxRequests /\ Send(a, command)
      BY <1>1, <2>2, ServerAssumption, EmptySeq DEF AdminSend
    <3> QED
      BY <1>1, <1>3, <3>1 DEF Kinds
  <2>3. ASSUME NEW c \in Conns, HandlerReceive(c)
        PROVE  /\ \A e \in Conns : inbox'[e] \in Seq([text : Texts, type : Types])
               /\ \A a \in Admins : inbox'[a] \in Seq([text : Texts, type : Commands])
    BY <1>1, <1>4, <2>3 DEF HandlerReceive, Kinds
  <2>4. CASE AdminReceive
    <3>1. fds[new_fd] \in Admins
      BY <2>4 DEF AdminReceive, MainAt, OwnerInv, MainThread, AdminLocations
    <3> QED
      BY <1>1, <1>4, <2>4, <3>1 DEF AdminReceive, Kinds
  <2> QED
    BY <1>1, <2>1, <2>2, <2>3, <2>4 DEF Writers, Kinds
<1>6. \A c \in Conns : pc'[c] = "enqueue" => proc_req'[c] \in ProcessingRequests
  <2>1. ASSUME NEW c \in Conns, HandlerReceive(c)
        PROVE  \A d \in Conns : pc'[d] = "enqueue" => proc_req'[d] \in ProcessingRequests
    <3> DEFINE req == Head(inbox[c])
    <3>1. inbox[c] \in Seq([text : Texts, type : Types]) /\ inbox[c] # <<>>
      BY <1>1, <2>1 DEF HandlerReceive, Kinds
    <3>2. req \in [text : Texts, type : Types]
      BY <3>1, HeadTailProperties
    <3>3. client_fd[c] \in Fds
      BY <2>1 DEF HandlerReceive, HandlerAt, OwnerInv, Descriptors
    <3>4. proc_req' = [proc_req EXCEPT ![c] =
             [client_fd |-> client_fd[c], text |-> req.text, type |-> req.type]]
          /\ pc' = [pc EXCEPT ![c] = "enqueue"]
      BY <2>1 DEF HandlerReceive, HandlerGoto
    <3>5. [client_fd |-> client_fd[c], text |-> req.text, type |-> req.type] \in ProcessingRequests
      BY <3>2, <3>3 DEF ProcessingRequests
    <3> QED
      BY <1>1, <3>4, <3>5 DEF TypeOK, Kinds
  <2>2. ASSUME NEW c \in Conns,
               HandlerFail(c) \/ HandlerEnqueue(c) \/ HandlerCount(c) \/ HandlerRemove(c) \/ HandlerClose(c)
        PROVE  \A d \in Conns : pc'[d] = "enqueue" => proc_req'[d] \in ProcessingRequests
    BY <1>1, <2>2
    DEF HandlerFail, HandlerEnqueue, HandlerCount, HandlerRemove, HandlerClose, HandlerGoto, TypeOK, Kinds
  <2>3. CASE SpawnHandler \/ SpawnFails
    BY <1>1, <2>3 DEF SpawnHandler, SpawnFails, StartHandler, HandlerGoto, TypeOK, Kinds
  <2> QED
    BY <1>1, <2>1, <2>2, <2>3 DEF Writers, Handler, Kinds
<1>7. worker_pc' # "dequeue" => request' \in ProcessingRequests
  <2>1. CASE Dequeue
    BY <1>1, <2>1, HeadTailProperties DEF Dequeue, Queue!Get, TypeOK
  <2>2. CASE Process
    BY <1>1, <2>2 DEF Process, WorkerAt, Kinds
  <2>3. CASE SendPart
    BY <1>1, <2>3 DEF SendPart, WorkerAt, Kinds
  <2> QED
    BY <1>1, <2>1, <2>2, <2>3 DEF Writers, Worker, Kinds
<1>8. main_pc' \in {"admin_clients", "admin_queue", "admin_send"} => admin_resp'.command \in Commands
  <2>1. CASE AdminReceive
    <3> DEFINE a == fds[new_fd]
    <3>1. a \in Admins
      BY <2>1 DEF AdminReceive, MainAt, OwnerInv, MainThread, AdminLocations
    <3>2. inbox[a] # <<>> /\ admin_resp' = [admin_resp EXCEPT !.command = Head(inbox[a]).type]
      BY <2>1 DEF AdminReceive
    <3> HIDE DEF a
    <3>3. Head(inbox[a]) \in [text : Texts, type : Commands]
      BY <1>1, <3>1, <3>2, HeadTailProperties DEF Kinds
    <3> QED
      BY <1>1, <3>2, <3>3 DEF TypeOK
  <2>2. CASE AdminCopyClients \/ AdminReadQueue
    <3>1. main_pc \in {"admin_clients", "admin_queue"}
      BY <2>2 DEF AdminCopyClients, AdminReadQueue, MainAt
    <3>2. admin_resp'.command = admin_resp.command
      <4>1. CASE AdminCopyClients
        BY <1>1, <4>1 DEF AdminCopyClients, TypeOK
      <4>2. CASE AdminReadQueue
        BY <1>1, <4>2 DEF AdminReadQueue, TypeOK
      <4> QED
        BY <2>2, <4>1, <4>2
    <3> QED
      BY <1>1, <3>1, <3>2 DEF Kinds
  <2>3. CASE AdminReply
    <3>1. main_pc = "admin_send" /\ UNCHANGED admin_resp
      BY <2>3 DEF AdminReply, MainAt
    <3> QED
      BY <1>1, <3>1 DEF Kinds
  <2>4. CASE Main /\ ~ AdminReceive /\ ~ AdminCopyClients /\ ~ AdminReadQueue /\ ~ AdminReply
    BY <2>4
    DEF Main, Poll, AcceptClient, AcceptFails, RegisterClient, SpawnHandler, SpawnFails, AcceptAdmin,
        AdminHangup, AdminClose, AfterSpawn, EndLoop
  <2> QED
    BY <1>1, <2>1, <2>2, <2>3, <2>4 DEF Writers, Kinds
<1> QED
  BY <1>2, <1>5, <1>6, <1>7, <1>8 DEF Kinds

-----------------------------------------------------------------------------
(* accept takes the connection that has waited longest and opens it at a    *)
(* descriptor that was free.                                                *)
LEMMA AcceptOpens ==
  ASSUME OwnerInv, NEW socket \in {"tcp", "unix"}, Accept(socket), backlog[socket] # <<>>
  PROVE  /\ new_fd' \in Fds /\ fds[new_fd'] = Free
         /\ fds' = [fds EXCEPT ![new_fd'] = backlog[socket][1]]
         /\ backlog' = [backlog EXCEPT ![socket] = Tail(@)]
         /\ backlog[socket][1] \in (IF socket = "tcp" THEN Conns ELSE Admins)
         /\ 1 \in DOMAIN backlog[socket]
         /\ Untouched(backlog[socket][1]) /\ peer[backlog[socket][1]] # "idle"
<1>1. new_fd' \in Fds /\ fds[new_fd'] = Free /\ fds' = [fds EXCEPT ![new_fd'] = Head(backlog[socket])]
      /\ backlog' = [backlog EXCEPT ![socket] = Tail(@)]
  BY DEF Accept, FreeFds
<1>2. backlog[socket] \in Seq(IF socket = "tcp" THEN Conns ELSE Admins)
  BY DEF OwnerInv, Kinds
<1>3. 1 \in DOMAIN backlog[socket] /\ Head(backlog[socket]) = backlog[socket][1]
      /\ backlog[socket][1] \in (IF socket = "tcp" THEN Conns ELSE Admins)
  <2>1. Len(backlog[socket]) \in Nat \ {0}
    BY <1>2, EmptySeq
  <2> QED
    BY <1>2, <2>1, ElementOfSeq, LenProperties
<1> QED
  BY <1>1, <1>3 DEF OwnerInv, NotAccepted

(* Every step keeps what the main thread knows. *)
LEMMA NextMainThread == OwnerInv /\ [Next]_vars => MainThread'
<1> SUFFICES ASSUME OwnerInv, [Next]_vars
             PROVE  MainThread'
  OBVIOUS
<1> USE DEF world, wire, registry, main, handlers, worker
<1>1. TypeOK /\ Kinds /\ Writers /\ MainThread /\ Conns \intersect Admins = {}
      /\ Free \notin Conns /\ Free \notin Admins /\ -1 \notin Fds
  BY OnlyWriters, ServerAssumption DEF OwnerInv
(* What is pending on a socket stays so until the main thread accepts it.   *)
<1>2. ASSUME NEW socket \in {"tcp", "unix"}, backlog[socket] # <<>>,
             ~ (socket = "tcp" /\ AcceptClient), ~ (socket = "unix" /\ AcceptAdmin)
      PROVE  backlog'[socket] # <<>>
  <2>1. ASSUME NEW e \in Endpoints, Connect(e)
        PROVE  backlog'[socket] # <<>>
    <3>1. backlog[socket] \in Seq(Endpoints)
      BY <1>1 DEF TypeOK
    <3>2. Append(backlog[socket], e) # <<>>
      BY <3>1, AppendProperties
    <3> QED
      BY <1>1, <1>2, <2>1, <3>2 DEF Connect, TypeOK
  <2>2. CASE AcceptClient \/ AcceptAdmin
    BY <1>1, <1>2, <2>2 DEF AcceptClient, AcceptAdmin, Accept, TypeOK
  <2> QED
    BY <1>1, <1>2, <2>1, <2>2 DEF Writers
(* The connection the main thread serves is closed by nobody else, and gets *)
(* its handler from nobody else.                                            *)
<1>3. ASSUME UNCHANGED main, new_fd \in Fds, fds[new_fd] \in Conns => pc[fds[new_fd]] = "none"
      PROVE  /\ fds[new_fd] \in Conns \union Admins => fds'[new_fd] = fds[new_fd]
             /\ fds[new_fd] \in Conns => pc'[fds[new_fd]] = "none"
  <2>1. ASSUME NEW c \in Conns, Handler(c)
        PROVE  pc[c] # "none" /\ \A d \in Conns : d # c => pc'[d] = pc[d]
    BY <1>1, <2>1
    DEF Handler, HandlerAt, HandlerReceive, HandlerFail, HandlerEnqueue, HandlerCount, HandlerRemove,
        HandlerClose, HandlerGoto, TypeOK
  <2>2. ASSUME NEW c \in Conns, HandlerClose(c)
        PROVE  fds[new_fd] \in Conns \union Admins => fds'[new_fd] = fds[new_fd]
    <3>1. pc[c] = "close" /\ fds' = [fds EXCEPT ![client_fd[c]] = Free]
      BY <2>2 DEF HandlerClose, HandlerAt, CloseFd
    <3>2. fds[client_fd[c]] = c
      BY <3>1 DEF OwnerInv, Descriptors
    <3> QED
      BY <1>1, <1>3, <3>1, <3>2 DEF TypeOK
  <2>3. CASE SpawnHandler \/ SpawnFails
    BY <1>1, <1>3, <2>3 DEF SpawnHandler, SpawnFails, AfterSpawn, EndLoop, MainAt
  <2>4. CASE AcceptClient \/ AcceptAdmin \/ AdminClose
    BY <1>1, <1>3, <2>4 DEF AcceptClient, AcceptAdmin, AdminClose, EndLoop, MainAt
  <2>5. fds[new_fd] \in Conns \union Admins => fds'[new_fd] = fds[new_fd]
    BY <1>1, <2>2, <2>3, <2>4 DEF Writers
  <2>6. fds[new_fd] \in Conns => pc'[fds[new_fd]] = "none"
    BY <1>1, <1>3, <2>1, <2>3 DEF Writers
  <2> QED
    BY <2>5, <2>6
<1>4. CASE UNCHANGED main
  <2>1. main_pc' = main_pc /\ revents' = revents /\ new_fd' = new_fd
    BY <1>4
  <2>2. ~ AcceptClient /\ ~ AcceptAdmin
    BY <2>1 DEF AcceptClient, AcceptAdmin, MainAt
  <2>3. main_pc \in {"register", "spawn"} \union AdminLocations
          => new_fd \in Fds /\ (fds[new_fd] \in Conns => pc[fds[new_fd]] = "none")
    BY <1>1 DEF MainThread
  <2> QED
    BY <1>1, <1>2, <1>3, <1>4, <2>1, <2>2, <2>3 DEF MainThread
<1>5. CASE Poll
  BY <1>1, <1>5 DEF Poll, MainAt, MainThread, AdminLocations
<1>6. CASE AcceptClient
  <2>1. main_pc = "accept" /\ backlog["tcp"] # <<>> /\ Accept("tcp") /\ main_pc' = "register"
        /\ UNCHANGED <<pc, revents>>
    BY <1>6 DEF AcceptClient, MainAt, OwnerInv, MainThread
  <2>2. /\ new_fd' \in Fds /\ fds' = [fds EXCEPT ![new_fd'] = backlog["tcp"][1]]
        /\ backlog["tcp"][1] \in Conns /\ Untouched(backlog["tcp"][1])
    BY <2>1, AcceptOpens
  <2>3. fds'[new_fd'] = backlog["tcp"][1]
    BY <1>1, <2>2 DEF TypeOK
  <2>4. ~ AcceptAdmin
    BY <2>1 DEF AcceptAdmin, MainAt
  <2>5. "unix" \in revents' => backlog'["unix"] # <<>>
    BY <1>1, <1>2, <2>1, <2>4 DEF MainThread
  <2> QED
    BY <2>1, <2>2, <2>3, <2>5 DEF MainThread, Untouched, AdminLocations
<1>7. CASE AcceptAdmin
  <2>1. backlog["unix"] # <<>> /\ Accept("unix") /\ main_pc' = "admin_receive"
    BY <1>7 DEF AcceptAdmin, MainAt, OwnerInv, MainThread
  <2>2. /\ new_fd' \in Fds /\ fds' = [fds EXCEPT ![new_fd'] = backlog["unix"][1]]
        /\ backlog["unix"][1] \in Admins
    BY <2>1, AcceptOpens
  <2> QED
    BY <1>1, <2>1, <2>2 DEF MainThread, AdminLocations, TypeOK
<1>8. CASE AcceptFails \/ AdminClose
  BY <1>8 DEF AcceptFails, AdminClose, EndLoop, MainThread, AdminLocations
<1>9. CASE RegisterClient
  BY <1>1, <1>9 DEF RegisterClient, MainAt, MainThread, AdminLocations
<1>10. CASE SpawnHandler \/ SpawnFails
  BY <1>1, <1>10 DEF SpawnHandler, SpawnFails, MainAt, AfterSpawn, EndLoop, MainThread, AdminLocations
<1>11. CASE AdminReceive \/ AdminHangup \/ AdminCopyClients \/ AdminReadQueue \/ AdminReply
  <2>1. main_pc \in AdminLocations /\ main_pc' \in AdminLocations /\ UNCHANGED <<new_fd, fds>>
    BY <1>1, <1>11
    DEF AdminReceive, AdminHangup, AdminCopyClients, AdminReadQueue, AdminReply, MainAt, AdminLocations
  <2> QED
    BY <1>1, <2>1 DEF MainThread, AdminLocations
<1> QED
  BY <1>1, <1>4, <1>5, <1>6, <1>7, <1>8, <1>9, <1>10, <1>11 DEF Writers, Main

-----------------------------------------------------------------------------
(* Every step leaves the connections that are not accepted yet alone.       *)
LEMMA NextNotAccepted == OwnerInv /\ [Next]_vars => NotAccepted'
<1> SUFFICES ASSUME OwnerInv, [Next]_vars
             PROVE  NotAccepted'
  OBVIOUS
<1> USE DEF world, wire, registry, main, handlers, worker
<1> DEFINE Left(e) == (\A n \in Fds : fds'[n] # e) /\ (e \in Conns => pc'[e] = "none")
<1>1. TypeOK /\ Kinds /\ Writers /\ NotAccepted /\ Conns \intersect Admins = {}
      /\ Conns \subseteq Endpoints /\ Admins \subseteq Endpoints /\ Free \notin Endpoints
  BY OnlyWriters, ServerAssumption DEF OwnerInv, Endpoints
<1>2. ASSUME NEW s \in {"tcp", "unix"}
      PROVE  /\ backlog[s] \in Seq(Endpoints) /\ DOMAIN backlog[s] = 1 .. Len(backlog[s])
             /\ Len(backlog[s]) \in Nat
             /\ \A k \in DOMAIN backlog[s] : backlog[s][k] \in Endpoints
                  /\ (s = "tcp" => backlog[s][k] \in Conns) /\ (s = "unix" => backlog[s][k] \in Admins)
  <2>1. backlog[s] \in Seq(Endpoints) /\ DOMAIN backlog[s] = 1 .. Len(backlog[s])
        /\ Len(backlog[s]) \in Nat
    BY <1>1, LenProperties DEF TypeOK
  <2>2. backlog[s] \in Seq(IF s = "tcp" THEN Conns ELSE Admins)
    BY <1>1 DEF Kinds
  <2>3. \A k \in DOMAIN backlog[s] : backlog[s][k] \in (IF s = "tcp" THEN Conns ELSE Admins)
    BY <2>1, <2>2, ElementOfSeq
  <2> QED
    BY <1>1, <2>1, <2>3
(* Only accept takes a connection out of this state. *)
<1>3. ASSUME NEW e \in Endpoints, Untouched(e),
             ~ (AcceptClient /\ e = backlog["tcp"][1]), ~ (AcceptAdmin /\ e = backlog["unix"][1])
      PROVE  Left(e)
  <2>1. ASSUME NEW c \in Conns, Handler(c)
        PROVE  pc[c] # "none" /\ \A d \in Conns : d # c => pc'[d] = pc[d]
    BY <1>1, <2>1
    DEF Handler, HandlerAt, HandlerReceive, HandlerFail, HandlerEnqueue, HandlerCount, HandlerRemove,
        HandlerClose, HandlerGoto, TypeOK
  <2>2. CASE SpawnHandler \/ SpawnFails
    <3>1. fds[new_fd] # e
      BY <1>3, <2>2 DEF SpawnHandler, SpawnFails, MainAt, OwnerInv, MainThread, Untouched
    <3>2. e \in Conns => pc'[e] = pc[e]
      BY <1>1, <2>2, <3>1 DEF SpawnHandler, SpawnFails, StartHandler, HandlerGoto, TypeOK
    <3>3. fds' = fds
      BY <2>2 DEF SpawnHandler, SpawnFails
    <3> QED
      BY <1>3, <3>2, <3>3 DEF Untouched
  <2>3. e \in Conns => pc'[e] = "none"
    BY <1>1, <1>3, <2>1, <2>2 DEF Writers, Untouched
  <2>4. \A n \in Fds : fds'[n] # e
    <3>1. CASE AcceptClient
      <4>1. fds' = [fds EXCEPT ![new_fd'] = backlog["tcp"][1]]
        BY <3>1, AcceptOpens DEF AcceptClient, MainAt, OwnerInv, MainThread
      <4> QED
        BY <1>1, <1>3, <3>1, <4>1 DEF Untouched, TypeOK
    <3>2. CASE AcceptAdmin
      <4>1. fds' = [fds EXCEPT ![new_fd'] = backlog["unix"][1]]
        BY <3>2, AcceptOpens DEF AcceptAdmin, MainAt, OwnerInv, MainThread
      <4> QED
        BY <1>1, <1>3, <3>2, <4>1 DEF Untouched, TypeOK
    <3>3. ASSUME NEW n, fds' = [fds EXCEPT ![n] = Free]
          PROVE  \A m \in Fds : fds'[m] # e
      BY <1>1, <1>3, <3>3 DEF Untouched, TypeOK
    <3> QED
      BY <1>1, <1>3, <3>1, <3>2, <3>3 DEF Writers, HandlerClose, AdminClose, CloseFd, Untouched
  <2> QED
    BY <2>3, <2>4 DEF Untouched
<1>4. ASSUME NEW e \in Endpoints, peer'[e] = "idle"
      PROVE  Left(e) /\ sent'[e] = <<>> /\ inbox'[e] = <<>>
  <2>1. peer[e] = "idle"
    BY <1>1, <1>4 DEF Writers, Connect, Close, TypeOK
  <2>2. Untouched(e) /\ sent[e] = <<>> /\ inbox[e] = <<>>
    BY <1>1, <2>1 DEF NotAccepted
  <2>3. Left(e)
    <3>1. AcceptClient => backlog["tcp"] # <<>> /\ Accept("tcp")
      BY DEF AcceptClient, MainAt, OwnerInv, MainThread
    <3>2. AcceptAdmin => backlog["unix"] # <<>> /\ Accept("unix")
      BY DEF AcceptAdmin, MainAt, OwnerInv, MainThread
    <3>3. /\ AcceptClient => e # backlog["tcp"][1]
          /\ AcceptAdmin => e # backlog["unix"][1]
      BY <2>1, <3>1, <3>2, AcceptOpens
    <3> QED
      BY <1>3, <2>2, <3>3
  <2>4. ASSUME NEW x \in Endpoints, NEW type, Send(x, type)
        PROVE  sent'[e] = <<>> /\ inbox'[e] = <<>>
    BY <1>1, <2>1, <2>2, <2>4 DEF Send, TypeOK
  <2>5. sent'[e] = <<>>
    BY <1>1, <2>2, <2>4 DEF Writers, ClientSend, AdminSend
  <2>6. inbox'[e] = <<>>
    BY <1>1, <2>2, <2>4 DEF Writers, ClientSend, AdminSend, HandlerReceive, AdminReceive, TypeOK
  <2> QED
    BY <2>3, <2>5, <2>6
<1>5. ASSUME NEW s \in {"tcp", "unix"}
      PROVE  /\ \A k, l \in DOMAIN backlog'[s] : backlog'[s][k] = backlog'[s][l] => k = l
             /\ \A k \in DOMAIN backlog'[s] :
                  Left(backlog'[s][k]) /\ peer'[backlog'[s][k]] # "idle"
  <2>1. ASSUME NEW k \in DOMAIN backlog[s]
        PROVE  /\ backlog[s][k] \in Endpoints /\ Untouched(backlog[s][k])
               /\ peer[backlog[s][k]] # "idle" /\ peer'[backlog[s][k]] # "idle"
    <3>1. backlog[s][k] \in Endpoints /\ Untouched(backlog[s][k]) /\ peer[backlog[s][k]] # "idle"
      BY <1>1, <1>2 DEF NotAccepted
    <3> QED
      BY <1>1, <3>1 DEF Writers, Connect, Close, TypeOK
  <2>2. CASE \E e \in Endpoints : Connect(e)
    <3>1. PICK e \in Endpoints : Connect(e)
      BY <2>2
    <3> DEFINE socket == IF e \in Conns THEN "tcp" ELSE "unix"
    <3>2. peer[e] = "idle" /\ peer' = [peer EXCEPT ![e] = "open"]
          /\ backlog' = [backlog EXCEPT ![socket] = Append(@, e)]
      BY <3>1 DEF Connect
    <3>3. Untouched(e) /\ \A k \in DOMAIN backlog[s] : backlog[s][k] # e
      BY <1>1, <2>1, <3>2 DEF NotAccepted
    <3>4. ~ AcceptClient /\ ~ AcceptAdmin
      BY <3>1 DEF Connect, AcceptClient, AcceptAdmin, MainAt
    <3>5. CASE s = socket
      <4>1. backlog'[s] = Append(backlog[s], e)
        BY <1>1, <3>2, <3>5 DEF TypeOK
      <4>2. /\ Len(backlog'[s]) = Len(backlog[s]) + 1 /\ backlog'[s] \in Seq(Endpoints)
            /\ \A k \in 1 .. Len(backlog[s]) : backlog'[s][k] = backlog[s][k]
            /\ backlog'[s][Len(backlog[s]) + 1] = e
        BY <1>2, <4>1, AppendProperties
      <4>3. DOMAIN backlog'[s] = 1 .. Len(backlog[s]) + 1
        BY <4>2, LenProperties
      <4>4. \A k \in DOMAIN backlog'[s] : k \in DOMAIN backlog[s] \/ k = Len(backlog[s]) + 1
        BY <1>2, <4>3
      <4>5. \A k, l \in DOMAIN backlog'[s] : backlog'[s][k] = backlog'[s][l] => k = l
        BY <1>1, <1>2, <3>3, <4>2, <4>4 DEF NotAccepted
      <4>6. ASSUME NEW k \in DOMAIN backlog'[s]
            PROVE  Left(backlog'[s][k]) /\ peer'[backlog'[s][k]] # "idle"
        <5> DEFINE x == backlog'[s][k]
        <5>1. x \in Endpoints /\ Untouched(x) /\ peer'[x] # "idle"
          <6>1. CASE k \in DOMAIN backlog[s]
            BY <1>2, <2>1, <4>2, <6>1
          <6>2. CASE k = Len(backlog[s]) + 1
            BY <1>1, <3>2, <3>3, <4>2, <6>2 DEF TypeOK
          <6> QED
            BY <4>4, <6>1, <6>2
        <5> HIDE DEF x
        <5>2. Left(x)
          BY <1>3, <3>4, <5>1
        <5> QED
          BY <5>1, <5>2 DEF x
      <4> QED
        BY <4>5, <4>6
    <3>6. CASE s # socket
      <4>1. backlog'[s] = backlog[s]
        BY <1>1, <3>2, <3>6 DEF TypeOK
      <4> QED
        BY <1>1, <1>3, <2>1, <3>4, <4>1 DEF NotAccepted
    <3> QED
      BY <3>5, <3>6
  <2>3. CASE (s = "tcp" /\ AcceptClient) \/ (s = "unix" /\ AcceptAdmin)
    <3>1. Accept(s) /\ backlog[s] # <<>> /\ peer' = peer
      BY <2>3 DEF AcceptClient, AcceptAdmin, MainAt, OwnerInv, MainThread
    <3>2. backlog' = [backlog EXCEPT ![s] = Tail(@)] /\ 1 \in DOMAIN backlog[s]
      BY <3>1, AcceptOpens
    <3>3. backlog'[s] = Tail(backlog[s])
      BY <1>1, <3>2 DEF TypeOK
    <3>4. /\ backlog'[s] \in Seq(Endpoints) /\ Len(backlog'[s]) = Len(backlog[s]) - 1
          /\ \A k \in 1 .. Len(backlog'[s]) : backlog'[s][k] = backlog[s][k + 1]
      BY <1>2, <3>1, <3>3, HeadTailProperties
    <3>5. DOMAIN backlog'[s] = 1 .. Len(backlog[s]) - 1
      BY <3>4, LenProperties
    <3>6. \A k \in DOMAIN backlog'[s] :
            k \in Nat /\ k + 1 \in DOMAIN backlog[s] /\ backlog'[s][k] = backlog[s][k + 1] /\ k + 1 # 1
      BY <1>2, <3>4, <3>5
    <3>7. \A k, l \in DOMAIN backlog'[s] : backlog'[s][k] = backlog'[s][l] => k = l
      <4>1. SUFFICES ASSUME NEW k \in DOMAIN backlog'[s], NEW l \in DOMAIN backlog'[s],
                            backlog'[s][k] = backlog'[s][l]
                     PROVE  k = l
        OBVIOUS
      <4>2. k + 1 = l + 1
        BY <1>1, <3>6, <4>1 DEF NotAccepted
      <4> QED
        BY <3>6, <4>2
    <3>8. ASSUME NEW k \in DOMAIN backlog'[s]
          PROVE  Left(backlog'[s][k]) /\ peer'[backlog'[s][k]] # "idle"
      <4> DEFINE x == backlog[s][k + 1]
      <4>1. x # backlog[s][1] /\ backlog'[s][k] = x /\ k + 1 \in DOMAIN backlog[s]
        BY <1>1, <3>2, <3>6 DEF NotAccepted
      <4>2. x \in Endpoints /\ Untouched(x) /\ peer'[x] # "idle"
        BY <2>1, <4>1
      <4>3. ~ (AcceptClient /\ AcceptAdmin)
        BY DEF AcceptClient, AcceptAdmin
      <4> HIDE DEF x
      <4>4. Left(x)
        BY <1>3, <2>3, <4>1, <4>2, <4>3
      <4> QED
        BY <4>1, <4>2, <4>4
    <3> QED
      BY <3>7, <3>8
  <2>4. CASE (s = "tcp" /\ AcceptAdmin) \/ (s = "unix" /\ AcceptClient)
    <3> DEFINE o == IF s = "tcp" THEN "unix" ELSE "tcp"
    <3>1. Accept(o) /\ backlog[o] # <<>> /\ peer' = peer
      BY <2>4 DEF AcceptClient, AcceptAdmin, MainAt, OwnerInv, MainThread
    <3>2. o \in {"tcp", "unix"} /\ o # s
      OBVIOUS
    <3>3. backlog'[s] = backlog[s] /\ 1 \in DOMAIN backlog[o]
      BY <1>1, <3>1, <3>2, AcceptOpens DEF TypeOK
    <3>4. \A k \in DOMAIN backlog[s] : backlog[s][k] # backlog[o][1]
      BY <1>1, <1>2, <3>2, <3>3
    <3>5. ~ (AcceptClient /\ AcceptAdmin)
      BY DEF AcceptClient, AcceptAdmin
    <3> QED
      BY <1>1, <1>3, <2>1, <2>4, <3>3, <3>4, <3>5 DEF NotAccepted
  <2>5. CASE UNCHANGED backlog /\ ~ AcceptClient /\ ~ AcceptAdmin
    BY <1>1, <1>3, <2>1, <2>5 DEF NotAccepted
  <2> QED
    BY <1>1, <2>2, <2>3, <2>4, <2>5 DEF Writers
<1> QED
  BY <1>4, <1>5 DEF NotAccepted, Untouched

-----------------------------------------------------------------------------
(* Every step keeps one owner for every open descriptor.                    *)
LEMMA NextDescriptors == OwnerInv /\ [Next]_vars => Descriptors'
<1> SUFFICES ASSUME OwnerInv, [Next]_vars
             PROVE  Descriptors'
  OBVIOUS
<1> USE DEF world, wire, registry, main, handlers, worker
<1>1. TypeOK /\ Writers /\ MainThread /\ Descriptors /\ Conns \intersect Admins = {}
      /\ Free \notin Conns /\ Free \notin Admins /\ -1 \notin Fds
  BY OnlyWriters, ServerAssumption DEF OwnerInv
<1>2. ASSUME NEW c \in Conns, Handler(c), ~ HandlerClose(c)
      PROVE  Descriptors'
  <2>1. UNCHANGED <<fds, client_fd, main_pc, new_fd>> /\ pc[c] \notin {"none", "done"}
        /\ \E location \in {"read", "enqueue", "count", "remove", "close"} : pc' = [pc EXCEPT ![c] = location]
    BY <1>2
    DEF Handler, HandlerAt, HandlerReceive, HandlerFail, HandlerEnqueue, HandlerCount, HandlerRemove,
        HandlerGoto
  <2> QED
    BY <1>1, <2>1 DEF Descriptors, TypeOK
<1>3. ASSUME NEW c \in Conns, HandlerClose(c)
      PROVE  Descriptors'
  <2>1. /\ UNCHANGED <<client_fd, main_pc, new_fd>> /\ pc[c] = "close"
        /\ fds' = [fds EXCEPT ![client_fd[c]] = Free] /\ pc' = [pc EXCEPT ![c] = "done"]
    BY <1>3 DEF HandlerClose, HandlerAt, HandlerGoto, CloseFd
  <2>2. client_fd[c] \in Fds /\ fds[client_fd[c]] = c
    BY <1>1, <2>1 DEF Descriptors
  <2>3. ASSUME NEW n \in Fds, n # client_fd[c]
        PROVE  fds'[n] = fds[n] /\ fds[n] # c /\ (fds[n] \in Conns => pc'[fds[n]] = pc[fds[n]])
    <3>1. fds[n] = c => client_fd[c] = n \/ (main_pc \in {"register", "spawn"} /\ new_fd = n)
      BY <1>1 DEF Descriptors
    <3>2. main_pc \in {"register", "spawn"} => pc[fds[new_fd]] = "none"
      BY <1>1 DEF MainThread
    <3>3. fds[n] # c
      BY <2>1, <2>3, <3>1, <3>2
    <3> QED
      BY <1>1, <2>1, <2>3, <3>3 DEF TypeOK
  <2>4. fds'[client_fd[c]] = Free
    BY <1>1, <2>1, <2>2 DEF TypeOK
  <2>5. ASSUME NEW d \in Conns, pc'[d] \notin {"none", "done"}
        PROVE  client_fd[d] \in Fds /\ fds'[client_fd[d]] = d
    <3>1. d # c /\ pc[d] = pc'[d]
      BY <1>1, <2>1, <2>5 DEF TypeOK
    <3>2. client_fd[d] \in Fds /\ fds[client_fd[d]] = d
      BY <1>1, <2>5, <3>1 DEF Descriptors
    <3> QED
      BY <2>2, <2>3, <3>1, <3>2
  <2>6. \A n \in Fds : fds'[n] \in Conns \union Admins => n # client_fd[c] /\ fds'[n] = fds[n]
    BY <1>1, <2>3, <2>4
  <2> QED
    BY <1>1, <2>1, <2>3, <2>5, <2>6 DEF Descriptors
<1>4. ASSUME NEW socket \in {"tcp", "unix"}, Accept(socket), backlog[socket] # <<>>,
             main_pc \in {"accept", "admin_accept"}, UNCHANGED <<pc, client_fd>>,
             socket = "tcp" => main_pc' = "register", socket = "unix" => main_pc' = "admin_receive"
      PROVE  Descriptors'
  <2> DEFINE e == backlog[socket][1]
  <2>1. /\ new_fd' \in Fds /\ fds[new_fd'] = Free /\ fds' = [fds EXCEPT ![new_fd'] = e]
        /\ e \in (IF socket = "tcp" THEN Conns ELSE Admins)
        /\ \A n \in Fds : fds[n] # e
    BY <1>4, AcceptOpens DEF Untouched
  <2>2. fds'[new_fd'] = e /\ \A n \in Fds : n # new_fd' => fds'[n] = fds[n]
    BY <1>1, <2>1 DEF TypeOK
  <2>3. \A n \in Fds : fds[n] \notin Admins
    BY <1>1, <1>4 DEF Descriptors, AdminLocations
  <2> HIDE DEF e
  <2>4. \A n \in Fds : fds'[n] \in Conns =>
          \/ pc'[fds'[n]] \notin {"none", "done"} /\ client_fd'[fds'[n]] = n
          \/ main_pc' \in {"register", "spawn"} /\ new_fd' = n
    BY <1>1, <1>4, <2>1, <2>2 DEF Descriptors
  <2>5. \A n \in Fds : fds'[n] \in Admins => main_pc' \in AdminLocations /\ new_fd' = n
    BY <1>1, <1>4, <2>1, <2>2, <2>3 DEF AdminLocations
  <2>6. \A c \in Conns : pc'[c] \notin {"none", "done"} => client_fd'[c] \in Fds /\ fds'[client_fd'[c]] = c
    BY <1>1, <1>4, <2>1, <2>2 DEF Descriptors
  <2> QED
    BY <2>4, <2>5, <2>6 DEF Descriptors
<1>5. CASE AcceptClient
  BY <1>4, <1>5 DEF AcceptClient, MainAt, OwnerInv, MainThread
<1>6. CASE AcceptAdmin
  BY <1>4, <1>6 DEF AcceptAdmin, MainAt, OwnerInv, MainThread
<1>7. CASE SpawnHandler \/ SpawnFails
  <2> DEFINE c == fds[new_fd]
  <2>1. main_pc = "spawn" /\ fds' = fds /\ main_pc' \notin {"register", "spawn"}
        /\ client_fd' = [client_fd EXCEPT ![c] = new_fd]
        /\ \E location \in {"read", "unborn"} : pc' = [pc EXCEPT ![c] = location]
    BY <1>7 DEF SpawnHandler, SpawnFails, MainAt, StartHandler, HandlerGoto, AfterSpawn, EndLoop
  <2>2. new_fd \in Fds /\ c \in Conns /\ pc[c] = "none"
    BY <1>1, <2>1 DEF MainThread
  <2>3. client_fd'[c] = new_fd /\ pc'[c] \notin {"none", "done"}
        /\ \A d \in Conns : d # c => pc'[d] = pc[d] /\ client_fd'[d] = client_fd[d]
    BY <1>1, <2>1, <2>2 DEF TypeOK
  <2>4. \A n \in Fds : fds[n] = c => n = new_fd
    BY <1>1, <2>2 DEF Descriptors
  <2>5. \A n \in Fds : fds[n] \notin Admins
    BY <1>1, <2>1 DEF Descriptors, AdminLocations
  <2>6. \A n \in Fds : fds[n] \in Conns =>
          pc'[fds[n]] \notin {"none", "done"} /\ client_fd'[fds[n]] = n
    BY <1>1, <2>1, <2>3, <2>4 DEF Descriptors
  <2>7. \A d \in Conns : pc'[d] \notin {"none", "done"} => client_fd'[d] \in Fds /\ fds[client_fd'[d]] = d
    BY <1>1, <2>2, <2>3 DEF Descriptors
  <2> QED
    BY <2>1, <2>5, <2>6, <2>7 DEF Descriptors
<1>8. CASE AdminClose
  <2>1. /\ main_pc = "admin_close" /\ fds' = [fds EXCEPT ![new_fd] = Free] /\ UNCHANGED <<pc, client_fd>>
        /\ new_fd \in Fds /\ fds[new_fd] \in Admins
    BY <1>1, <1>8 DEF AdminClose, MainAt, CloseFd, MainThread, AdminLocations
  <2>2. \A n \in Fds : fds'[n] \in Conns \union Admins => n # new_fd /\ fds'[n] = fds[n]
    BY <1>1, <2>1 DEF TypeOK
  <2>3. \A n \in Fds : fds[n] \in Conns => n # new_fd /\ fds'[n] = fds[n]
    BY <1>1, <2>1 DEF TypeOK
  <2> QED
    BY <1>1, <2>1, <2>2, <2>3 DEF Descriptors
<1>9. CASE Poll \/ AcceptFails
  BY <1>1, <1>9 DEF Poll, AcceptFails, EndLoop, MainAt, Descriptors, AdminLocations
<1>10. CASE RegisterClient
  BY <1>1, <1>10 DEF RegisterClient, MainAt, Descriptors, AdminLocations
<1>11. CASE AdminReceive \/ AdminHangup \/ AdminCopyClients \/ AdminReadQueue \/ AdminReply
  <2>1. main_pc \in AdminLocations /\ main_pc' \in AdminLocations
        /\ UNCHANGED <<new_fd, fds, pc, client_fd>>
    BY <1>1, <1>11
    DEF AdminReceive, AdminHangup, AdminCopyClients, AdminReadQueue, AdminReply, MainAt, AdminLocations
  <2> QED
    BY <1>1, <2>1 DEF Descriptors, AdminLocations
<1>12. CASE UNCHANGED <<fds, main, handlers>>
  BY <1>1, <1>12 DEF Descriptors
<1>13. CASE Main
  BY <1>5, <1>6, <1>7, <1>8, <1>9, <1>10, <1>11, <1>13 DEF Main
<1>14. CASE ~ Main
  BY <1>1, <1>2, <1>3, <1>12, <1>14 DEF Writers, Main, Handler
<1> QED
  BY <1>13, <1>14

-----------------------------------------------------------------------------
(* Every step keeps the list of clients in agreement with the descriptors.  *)
LEMMA NextRegistry == OwnerInv /\ [Next]_vars => Registry'
<1> SUFFICES ASSUME OwnerInv, [Next]_vars
             PROVE  Registry'
  OBVIOUS
<1> USE DEF world, wire, registry, main, handlers, worker
<1>1. TypeOK /\ Writers /\ MainThread /\ Descriptors /\ Registry /\ Conns \intersect Admins = {}
      /\ Free \notin Conns /\ Free \notin Admins /\ -1 \notin Fds
  BY OnlyWriters, ServerAssumption DEF OwnerInv
<1>2. DOMAIN clients = 1 .. Len(clients) /\ Len(clients) \in Nat
      /\ \A i \in DOMAIN clients : clients[i] \in Entries
  BY <1>1, LenProperties, ElementOfSeq DEF TypeOK
<1>3. \A i \in DOMAIN clients : clients[i].fd \in Fds /\ clients[i].conn \in Conns
  BY <1>2 DEF Entries
(* An entry's connection is open, and its handler has not removed it.       *)
<1> DEFINE Valid(fd, c) ==
      fds[fd] = c /\ (pc[c] \notin {"none", "close", "done"} \/ (main_pc = "spawn" /\ new_fd = fd))
<1> DEFINE StillValid(fd, c) ==
      fds'[fd] = c /\ (pc'[c] \notin {"none", "close", "done"} \/ (main_pc' = "spawn" /\ new_fd' = fd))
<1>4. \A i \in DOMAIN clients : Valid(clients[i].fd, clients[i].conn)
  BY <1>1 DEF Registry
<1>5. ASSUME UNCHANGED clients,
             \A fd \in Fds : \A c \in Conns : Valid(fd, c) => StillValid(fd, c)
      PROVE  Registry'
  BY <1>1, <1>3, <1>4, <1>5 DEF Registry
<1>6. ASSUME NEW c \in Conns, HandlerReceive(c) \/ HandlerFail(c) \/ HandlerEnqueue(c)
      PROVE  Registry'
  BY <1>1, <1>5, <1>6 DEF HandlerReceive, HandlerFail, HandlerEnqueue, HandlerGoto, TypeOK
<1>7. ASSUME NEW c \in Conns, HandlerCount(c)
      PROVE  Registry'
  <2>1. /\ DOMAIN clients' = DOMAIN clients
        /\ \A i \in DOMAIN clients :
             clients'[i].fd = clients[i].fd /\ clients'[i].conn = clients[i].conn
    BY <1>1, <1>7, CountRequestCounts DEF HandlerCount, TypeOK
  <2>2. \A fd \in Fds : \A d \in Conns : Valid(fd, d) => StillValid(fd, d)
    BY <1>1, <1>7 DEF HandlerCount, HandlerGoto, TypeOK
  <2> HIDE DEF Valid
  <2> QED
    BY <1>1, <1>3, <1>4, <2>1, <2>2 DEF Registry
<1>8. ASSUME NEW c \in Conns, HandlerRemove(c)
      PROVE  Registry'
  <2>1. /\ \A k \in DOMAIN clients' : \E i \in DOMAIN clients :
             clients'[k] = clients[i] /\ clients[i].fd # client_fd[c]
        /\ \A k, l \in DOMAIN clients' : clients'[k].fd = clients'[l].fd => k = l
    BY <1>1, <1>8, RemoveClientLeaves DEF HandlerRemove, TypeOK
  <2>2. ASSUME NEW fd \in Fds, NEW d \in Conns, Valid(fd, d), fd # client_fd[c]
        PROVE  StillValid(fd, d)
    <3>1. UNCHANGED <<fds, main_pc, new_fd>> /\ pc' = [pc EXCEPT ![c] = "close"] /\ pc[c] = "remove"
      BY <1>8 DEF HandlerRemove, HandlerAt, HandlerGoto
    <3>2. fds[new_fd] # c \/ main_pc \notin {"register", "spawn"}
      BY <1>1, <3>1 DEF MainThread
    <3>3. d # c
      BY <1>1, <2>2, <3>1, <3>2 DEF Descriptors
    <3> QED
      BY <1>1, <2>2, <3>1, <3>3 DEF TypeOK
  <2>3. \A k \in DOMAIN clients' : StillValid(clients'[k].fd, clients'[k].conn)
    <3> HIDE DEF Valid, StillValid
    <3> QED
      BY <1>3, <1>4, <2>1, <2>2
  <2> QED
    BY <2>1, <2>3 DEF Registry
<1>9. ASSUME NEW c \in Conns, HandlerClose(c)
      PROVE  Registry'
  <2>1. /\ UNCHANGED <<main_pc, new_fd, clients>> /\ pc[c] = "close"
        /\ fds' = [fds EXCEPT ![client_fd[c]] = Free] /\ pc' = [pc EXCEPT ![c] = "done"]
    BY <1>9 DEF HandlerClose, HandlerAt, HandlerGoto, CloseFd
  <2>2. client_fd[c] \in Fds /\ fds[client_fd[c]] = c
    BY <1>1, <2>1 DEF Descriptors
  <2>3. ASSUME NEW fd \in Fds, NEW d \in Conns, Valid(fd, d)
        PROVE  StillValid(fd, d)
    <3>1. main_pc = "spawn" /\ new_fd = fd => pc[d] = "none"
      BY <1>1, <2>3 DEF MainThread
    <3>2. d # c
      BY <2>1, <2>3, <3>1
    <3>3. fd # client_fd[c]
      BY <2>2, <2>3, <3>2
    <3> QED
      BY <1>1, <2>1, <2>3, <3>2, <3>3 DEF TypeOK
  <2> QED
    BY <1>5, <2>1, <2>3
<1>10. CASE RegisterClient
  <2>1. main_pc = "register" /\ main_pc' = "spawn" /\ UNCHANGED <<new_fd, fds, pc>>
        /\ new_fd \in Fds /\ fds[new_fd] \in Conns /\ pc[fds[new_fd]] = "none"
    BY <1>1, <1>10 DEF RegisterClient, MainAt, MainThread
  <2>2. \A fd \in Fds : \A c \in Conns : Valid(fd, c) => StillValid(fd, c)
    BY <2>1
  <2>3. CASE Len(clients) < MAX_CLIENTS
    <3> DEFINE entry == [fd |-> new_fd, conn |-> fds[new_fd], request_count |-> 0]
    <3>1. clients' = Append(clients, entry)
      BY <1>10, <2>3 DEF RegisterClient
    <3>2. entry \in Entries /\ entry.fd = new_fd /\ entry.conn = fds[new_fd]
      BY <2>1, ServerAssumption DEF Entries
    <3>3. StillValid(entry.fd, entry.conn)
      BY <2>1, <3>2
    <3>4. \A i \in DOMAIN clients : clients[i].fd # new_fd
      BY <1>3, <1>4, <2>1
    <3> HIDE DEF entry, Valid
    <3>5. /\ clients' \in Seq(Entries) /\ Len(clients') = Len(clients) + 1
          /\ \A i \in 1 .. Len(clients) : clients'[i] = clients[i]
          /\ clients'[Len(clients) + 1] = entry
      BY <1>1, <3>1, <3>2, AppendProperties DEF TypeOK
    <3>6. \A i \in DOMAIN clients' :
            \/ i \in DOMAIN clients /\ clients'[i] = clients[i]
            \/ i = Len(clients) + 1 /\ clients'[i] = entry
      <4>1. DOMAIN clients' = 1 .. Len(clients) + 1
        BY <3>5, LenProperties
      <4>2. \A i \in DOMAIN clients' : i \in 1 .. Len(clients) \/ i = Len(clients) + 1
        BY <1>2, <4>1
      <4> QED
        BY <1>2, <3>5, <4>2
    <3>7. \A i, j \in DOMAIN clients' : clients'[i].fd = clients'[j].fd => i = j
      BY <1>1, <3>2, <3>4, <3>6 DEF Registry
    <3>8. \A i \in DOMAIN clients' : StillValid(clients'[i].fd, clients'[i].conn)
      <4> HIDE DEF StillValid
      <4> QED
        BY <1>3, <1>4, <2>2, <3>3, <3>6
    <3> QED
      BY <3>7, <3>8 DEF Registry
  <2>4. CASE ~ Len(clients) < MAX_CLIENTS
    <3>1. clients' = clients
      BY <1>10, <2>4 DEF RegisterClient
    <3> QED
      BY <1>5, <2>2, <3>1
  <2> QED
    BY <2>3, <2>4
<1>11. CASE SpawnHandler \/ SpawnFails
  <2> DEFINE c == fds[new_fd]
  <2>1. main_pc = "spawn" /\ fds' = fds /\ clients' = clients
        /\ \E location \in {"read", "unborn"} : pc' = [pc EXCEPT ![c] = location]
    BY <1>11 DEF SpawnHandler, SpawnFails, MainAt, StartHandler, HandlerGoto
  <2>2. new_fd \in Fds /\ c \in Conns
    BY <1>1, <2>1 DEF MainThread
  <2>3. pc'[c] \in {"read", "unborn"} /\ \A d \in Conns : d # c => pc'[d] = pc[d]
    BY <1>1, <2>1, <2>2 DEF TypeOK
  <2>4. \A fd \in Fds : \A d \in Conns : Valid(fd, d) => StillValid(fd, d)
    BY <2>1, <2>2, <2>3
  <2> QED
    BY <1>5, <2>1, <2>4
<1>12. ASSUME NEW socket \in {"tcp", "unix"}, Accept(socket), backlog[socket] # <<>>,
              main_pc # "spawn", UNCHANGED <<pc, clients>>
       PROVE  Registry'
  <2>1. new_fd' \in Fds /\ fds[new_fd'] = Free /\ fds' = [fds EXCEPT ![new_fd'] = backlog[socket][1]]
    BY <1>12, AcceptOpens
  <2>2. \A fd \in Fds : \A c \in Conns : Valid(fd, c) => StillValid(fd, c)
    BY <1>1, <1>12, <2>1 DEF TypeOK
  <2> QED
    BY <1>5, <1>12, <2>2
<1>13. CASE AcceptClient
  BY <1>12, <1>13 DEF AcceptClient, MainAt, OwnerInv, MainThread
<1>14. CASE AcceptAdmin
  BY <1>12, <1>14 DEF AcceptAdmin, MainAt, OwnerInv, MainThread
<1>15. CASE AdminClose
  <2>1. fds' = [fds EXCEPT ![new_fd] = Free] /\ main_pc = "admin_close" /\ UNCHANGED <<pc, clients>>
        /\ fds[new_fd] \in Admins
    BY <1>1, <1>15 DEF AdminClose, MainAt, CloseFd, MainThread, AdminLocations
  <2>2. \A fd \in Fds : \A c \in Conns : Valid(fd, c) => StillValid(fd, c)
    BY <1>1, <2>1 DEF TypeOK
  <2> QED
    BY <1>5, <2>1, <2>2
<1>16. CASE Main /\ ~ SpawnHandler /\ ~ SpawnFails /\ ~ RegisterClient /\ ~ AcceptClient /\ ~ AcceptAdmin
            /\ ~ AdminClose
  <2>1. UNCHANGED <<fds, pc, clients>> /\ main_pc # "spawn"
    BY <1>16
    DEF Main, Poll, AcceptFails, AdminReceive, AdminHangup, AdminCopyClients, AdminReadQueue, AdminReply, MainAt
  <2>2. \A fd \in Fds : \A c \in Conns : Valid(fd, c) => StillValid(fd, c)
    BY <2>1
  <2> QED
    BY <1>5, <2>1, <2>2
<1>17. CASE UNCHANGED <<fds, main, handlers, clients>>
  BY <1>5, <1>17
<1>18. CASE Main
  BY <1>10, <1>11, <1>13, <1>14, <1>15, <1>16, <1>18
<1>19. ASSUME NEW c \in Conns, Handler(c)
       PROVE  Registry'
  BY <1>6, <1>7, <1>8, <1>9, <1>19 DEF Handler
<1>20. CASE ~ Main /\ ~ \E c \in Conns : Handler(c)
  BY <1>1, <1>17, <1>20 DEF Writers, Main, Handler
<1> QED
  BY <1>18, <1>19, <1>20

-----------------------------------------------------------------------------
(* Every step keeps clients_mutex with its holder and the copy of the list  *)
(* up to date while it is held.                                             *)
LEMMA NextSnapshot == OwnerInv /\ [Next]_vars => Snapshot'
<1> SUFFICES ASSUME OwnerInv, [Next]_vars
             PROVE  Snapshot'
  OBVIOUS
<1> USE DEF world, wire, registry, main, handlers, worker
<1>1. TypeOK /\ Writers /\ Snapshot
  BY OnlyWriters DEF OwnerInv
<1>2. CASE AdminCopyClients
  <2>1. clients_mutex' = TRUE /\ clients' = clients /\ main_pc' = "admin_queue"
        /\ admin_resp' = [admin_resp EXCEPT !.clients = clients]
    BY <1>2 DEF AdminCopyClients
  <2>2. admin_resp'.clients = clients
    BY <1>1, <2>1 DEF TypeOK
  <2> QED
    BY <2>1, <2>2 DEF Snapshot
<1>3. CASE AdminReadQueue
  BY <1>3 DEF AdminReadQueue, Snapshot
<1>4. CASE AdminReceive
  <2>1. main_pc = "admin_receive" /\ UNCHANGED <<clients, clients_mutex>>
        /\ (main_pc' = "admin_queue" => admin_resp'.command # "get_clients")
    BY <1>4 DEF AdminReceive, MainAt
  <2> QED
    BY <1>1, <2>1 DEF Snapshot
<1>5. CASE Main /\ ~ AdminCopyClients /\ ~ AdminReadQueue /\ ~ AdminReceive
  <2>1. main_pc # "admin_queue" /\ main_pc' # "admin_queue" /\ UNCHANGED clients_mutex
    BY <1>5
    DEF Main, Poll, AcceptClient, AcceptFails, RegisterClient, SpawnHandler, SpawnFails, AcceptAdmin,
        AdminHangup, AdminReply, AdminClose, MainAt, AfterSpawn, EndLoop
  <2> QED
    BY <1>1, <2>1 DEF Snapshot
<1>6. CASE ~ Main
  <2>1. UNCHANGED main /\ UNCHANGED clients_mutex
    BY <1>1, <1>6 DEF Writers, Main
  <2>2. clients_mutex => clients' = clients
    BY <1>1, <1>6 DEF Writers, Main, HandlerCount, HandlerRemove
  <2> QED
    BY <1>1, <2>1, <2>2 DEF Snapshot
<1> QED
  BY <1>2, <1>3, <1>4, <1>5, <1>6

(* The initial state satisfies the invariant. *)
LEMMA InitOwner == Init => OwnerInv
<1> SUFFICES ASSUME Init PROVE OwnerInv
  OBVIOUS
<1> USE DEF Init, Queue!Init, Endpoints
<1>1. TypeOK
  <2>1. \A S : <<>> \in Seq(S) /\ Len(<<>>) = 0
    BY EmptySeq
  <2>2. {MAX_CLIENTS, MAX_QUEUE_SIZE} \subseteq Nat
    BY ServerAssumption
  <2>3. NoResponse \in [command : Commands \union {"none"}, clients : Seq(Entries),
                       queue_size : 0 .. MAX_QUEUE_SIZE]
    BY <2>1, <2>2 DEF NoResponse
  <2>4. clients \in Seq(Entries) /\ Len(clients) <= MAX_CLIENTS
        /\ request_queue \in Seq(ProcessingRequests) /\ Len(request_queue) <= MAX_QUEUE_SIZE
        /\ documents \in Seq(Texts)
    BY <2>1, <2>2
  <2>5. /\ sent \in [Endpoints -> Seq(Types \union Commands)]
        /\ inbox \in [Endpoints -> Seq([text : Texts, type : Types \union Commands])]
        /\ outbox \in [Endpoints -> Seq(Pieces)]
    BY <2>1
  <2>6. backlog \in [{"tcp", "unix"} -> Seq(Endpoints)]
    <3>1. backlog = [s \in {"tcp", "unix"} |-> <<>>]
      OBVIOUS
    <3> QED
      BY <2>1, <3>1
  <2>7. /\ main_pc = "poll" /\ worker_pc = "dequeue" /\ reset = {} /\ revents = {}
        /\ request = NoRequest /\ admin_resp = NoResponse
    OBVIOUS
  <2>8. part \in Nat \ {0} /\ new_fd \in Fds \union {-1}
    OBVIOUS
  <2>9. alive \in BOOLEAN /\ clients_mutex \in BOOLEAN
    OBVIOUS
  <2>10. /\ peer \in [Endpoints -> {"idle", "open", "closed"}]
        /\ fds \in [Fds -> Endpoints \union {Free}]
        /\ pc \in [Conns -> {"none", "unborn", "read", "enqueue", "count", "remove", "close", "done"}]
        /\ client_fd \in [Conns -> Fds \union {-1}]
        /\ proc_req \in [Conns -> ProcessingRequests \union {NoRequest}]
    OBVIOUS
  <2> QED
    BY <2>3, <2>4, <2>5, <2>6, <2>7, <2>8, <2>9, <2>10 DEF TypeOK
<1>2. Kinds
  BY EmptySeq DEF Kinds
<1>3. MainThread
  BY DEF MainThread, AdminLocations
<1>4. NotAccepted
  BY ServerAssumption DEF NotAccepted, Untouched
<1>5. Descriptors
  BY ServerAssumption DEF Descriptors
<1>6. Registry
  BY DEF Registry
<1>7. Snapshot
  BY DEF Snapshot
<1> QED
  BY <1>1, <1>2, <1>3, <1>4, <1>5, <1>6, <1>7 DEF OwnerInv

(* Every step keeps the invariant, if there is room for the counts. *)
LEMMA NextOwner == OwnerInv /\ RoomToCount /\ [Next]_vars => OwnerInv'
BY NextTypes, NextKinds, NextMainThread, NextNotAccepted, NextDescriptors, NextRegistry,
   NextSnapshot
DEF OwnerInv
=============================================================================
