------------------------------- MODULE Server -------------------------------
(***************************************************************************)
(* The running NLP server (server.c) with the programs that talk to it:    *)
(* the main thread that accepts connections and serves admin clients, one  *)
(* handler thread per connection, the processing thread, the list of       *)
(* clients they share, the request queue between them, and the process's   *)
(* file descriptors, through which all of them name a connection.          *)
(*                                                                         *)
(* The queue is the bounded FIFO that RequestQueue implements.  A critical *)
(* section under clients_mutex is one step, except ADMIN_GET_CLIENTS,      *)
(* which takes the queue's mutex inside.  Sending a response is one step   *)
(* per write, since a descriptor may change hands between two of them.     *)
(* Messages travel whole and in order.                                     *)
(***************************************************************************)
EXTENDS Integers, FiniteSets, Sequences

CONSTANTS
  Conns,           \* TCP connections of clients
  Admins,          \* connections of admin clients
  Fds,             \* the descriptors the process can use for connections
  SureThreads,     \* with so many handler threads, to start one more may fail
  Free,            \* what is open at an unused descriptor
  NoRequest,       \* request of the processing thread before its first dequeue
  Types,           \* the request types clients send
  Commands,        \* the commands admin clients send
  Writes,          \* the number of writes that send a response, by type
  MAX_CLIENTS, MAX_QUEUE_SIZE,
  MaxRequests,     \* bound: the requests a client sends on a connection
  Window,          \* the requests it may have unanswered
  Impatient,       \* connections whose program may end before its answer
  Mute,            \* admin connections that never send a command
  Deaf,            \* client connections whose program never reads
  SocketBuffer     \* the writes that the buffers of such a connection take

(* "oversized" stands for a request that receive_request refuses because of *)
(* its text_len; it gets no response.                                       *)
ASSUME ServerAssumption ==
  /\ Fds \subseteq Nat /\ IsFiniteSet(Fds)
  /\ Conns \intersect Admins = {}
  /\ Free \notin Conns \union Admins
  /\ Types \intersect Commands = {} /\ "oversized" \notin Commands
  /\ Writes \in [(Types \union Commands) \ {"oversized"} -> Nat \ {0}]
  /\ {MAX_CLIENTS, MAX_QUEUE_SIZE, Window, MaxRequests} \subseteq Nat \ {0}
  /\ SureThreads \in Nat
  /\ Impatient \subseteq Conns \union Admins
  /\ Mute \subseteq Admins
  /\ Deaf \subseteq Conns /\ SocketBuffer \in Nat

Endpoints == Conns \union Admins

VARIABLES
  (* The programs at the other end, and what travels between. *)
  peer,            \* "idle", "open" or "closed", the other end of a connection
  sent,            \* the types of the requests or commands sent on it
  inbox,           \* what the server has still to read from it
  outbox,          \* what the server has written to it
  reset,           \* the connections that the server's kernel knows are gone
  backlog,         \* the connections to accept, by listening socket
  fds,             \* the connection open at each descriptor of the process
  alive,           \* no signal has killed the process
  (* The globals. *)
  clients,         \* clients[0 .. client_count-1]; conn is address and connect_time
  clients_mutex,   \* whether the main thread holds it from one step to the next
  request_queue,   \* the queued requests, the oldest first
  (* The main thread: client_fd or admin_fd is new_fd. *)
  main_pc, revents, new_fd, admin_resp,
  (* The handler thread of each connection. *)
  pc, client_fd, proc_req,
  (* The processing thread: part is the next write of the response, and       *)
  (* documents the texts in collection->documents.                            *)
  worker_pc, request, part, documents

world == <<peer, sent, inbox, backlog>>
wire == <<outbox, reset, alive>>
registry == <<clients, clients_mutex>>
main == <<main_pc, revents, new_fd, admin_resp>>
handlers == <<pc, client_fd, proc_req>>
worker == <<worker_pc, request, part, documents>>
vars == <<world, wire, fds, registry, request_queue, main, handlers, worker>>

(* A message names the connection it was sent on and its number there. *)
Texts == Endpoints \X (1 .. MaxRequests)
ProcessingRequests == [client_fd : Fds, text : Texts, type : Types]

Queue == INSTANCE BoundedFifo WITH
           Items <- ProcessingRequests, NoItem <- NoRequest,
           Capacity <- MAX_QUEUE_SIZE,
           items <- request_queue, current <- request

NoResponse == [command |-> "none", clients |-> <<>>, queue_size |-> 0]

Init ==
  /\ peer = [e \in Endpoints |-> "idle"]
  /\ sent = [e \in Endpoints |-> <<>>]
  /\ inbox = [e \in Endpoints |-> <<>>]
  /\ outbox = [e \in Endpoints |-> <<>>]
  /\ reset = {}
  /\ backlog = [tcp |-> <<>>, unix |-> <<>>]
  /\ fds = [n \in Fds |-> Free]
  /\ alive = TRUE
  /\ clients = <<>>
  /\ clients_mutex = FALSE
  /\ Queue!Init
  /\ main_pc = "poll"
  /\ revents = {}
  /\ new_fd = -1
  /\ admin_resp = NoResponse
  /\ pc = [c \in Conns |-> "none"]
  /\ client_fd = [c \in Conns |-> -1]
  /\ proc_req = [c \in Conns |-> NoRequest]
  /\ worker_pc = "dequeue"
  /\ part = 1
  /\ documents = <<>>

-----------------------------------------------------------------------------
(* Where the threads of the process are; none goes on once it was killed.   *)
MainAt(locations) == alive /\ main_pc \in locations
HandlerAt(c, location) == alive /\ pc[c] = location
WorkerAt(location) == alive /\ worker_pc = location

(* The client and admin programs. *)

Connect(e) ==
  /\ alive /\ peer[e] = "idle"
  /\ peer' = [peer EXCEPT ![e] = "open"]
  /\ LET socket == IF e \in Conns THEN "tcp" ELSE "unix"
     IN  backlog' = [backlog EXCEPT ![socket] = Append(@, e)]
  /\ UNCHANGED <<sent, inbox, wire, fds, registry, request_queue, main, handlers, worker>>

(* The server has closed its end of the connection. *)
HungUp(e) == ~alive \/ (e \in Conns /\ pc[e] = "done")

(* How many responses a program has received to the end, as it counts them: *)
(* a response does not say which request it answers.                        *)
LastParts(e) == {i \in DOMAIN outbox[e] : outbox[e][i].part = Writes[outbox[e][i].type]}

Answered(e) == Cardinality(LastParts(e))

Send(e, type) ==
  /\ peer[e] = "open" /\ ~HungUp(e)
  /\ Len(sent[e]) - Answered(e) < Window
  /\ sent' = [sent EXCEPT ![e] = Append(@, type)]
  /\ inbox' = [inbox EXCEPT ![e] =
                 Append(@, [text |-> <<e, Len(sent'[e])>>, type |-> type])]
  /\ UNCHANGED <<peer, backlog, wire, fds, registry, request_queue, main, handlers, worker>>

ClientSend(c, type) == Len(sent[c]) < MaxRequests /\ Send(c, type)

(* An admin client sends one command. *)
AdminSend(a, command) == a \notin Mute /\ sent[a] = <<>> /\ Send(a, command)

(* A program closes the connection when it has its answers or the server    *)
(* has closed it; one that is interrupted closes it at any time.  If there  *)
(* are bytes that it has not read, as there may be unless it closes because *)
(* it has its answers, TCP resets the connection at once.                   *)
Close(e) ==
  /\ peer[e] = "open"
  /\ e \in Impatient \/ HungUp(e) \/ Answered(e) = Len(sent[e])
  /\ peer' = [peer EXCEPT ![e] = "closed"]
  /\ \/ UNCHANGED reset
     \/ /\ e \in Impatient \union Deaf \/ Answered(e) # Len(sent[e])
        /\ e \in Conns /\ outbox[e] # <<>> /\ reset' = reset \union {e}
  /\ UNCHANGED <<sent, inbox, backlog, outbox, alive, fds, registry, request_queue, main,
                 handlers, worker>>

-----------------------------------------------------------------------------
(* File descriptors: accept opens the lowest one that is free. *)

FreeFds == {n \in Fds : fds[n] = Free}

Accept(socket) ==
  /\ \E n \in FreeFds :
       /\ \A m \in FreeFds : n <= m
       /\ fds' = [fds EXCEPT ![n] = Head(backlog[socket])]
       /\ new_fd' = n
  /\ backlog' = [backlog EXCEPT ![socket] = Tail(@)]

CloseFd(n) == fds' = [fds EXCEPT ![n] = Free]

(* write to the connection open at a descriptor. *)
Deliver(e, text, type, k) ==
  /\ peer[e] = "open"
  /\ outbox' = [outbox EXCEPT ![e] = Append(@, [text |-> text, type |-> type, part |-> k])]
  /\ UNCHANGED <<reset, alive>>

(* write blocks: the program does not read, and the buffers are full.       *)
Blocked(e) == e \in Deaf /\ peer[e] = "open" /\ Len(outbox[e]) >= SocketBuffer

(* The other end is gone and the kernel knows: at once on a Unix socket, on *)
(* TCP when the peer has reset the connection.                              *)
Broken(e) == peer[e] = "closed" /\ (e \in Admins \/ e \in reset)

(* SIGPIPE, which the program neither ignores nor handles. *)
Killed(e) ==
  /\ Broken(e)
  /\ alive' = FALSE
  /\ UNCHANGED <<outbox, reset>>

-----------------------------------------------------------------------------
(* The list of clients. *)

Listed(fd) == \E i \in DOMAIN clients : clients[i].fd = fd

IndexOf(fd) ==
  CHOOSE i \in DOMAIN clients :
    clients[i].fd = fd /\ \A j \in 1 .. i - 1 : clients[j].fd # fd

(* Variants named ...Bug hold a plausible mistake each: the checks replace   *)
(* the definition after them by one and expect a property to notice.        *)
RemoveClientBug(fd) ==  \* the last entry is dropped, and not moved
  clients' = IF Listed(fd) THEN SubSeq(clients, 1, Len(clients) - 1) ELSE clients

(* The last entry takes the place of the removed one. *)
RemoveClient(fd) ==
  clients' = IF Listed(fd)
             THEN SubSeq([clients EXCEPT ![IndexOf(fd)] = clients[Len(clients)]],
                         1, Len(clients) - 1)
             ELSE clients

CountRequestBug(fd) ==  \* the count of the first entry, whoever's it is
  clients' = IF Listed(fd) THEN [clients EXCEPT ![1].request_count = @ + 1] ELSE clients

CountRequest(fd) ==
  clients' = IF Listed(fd) THEN [clients EXCEPT ![IndexOf(fd)].request_count = @ + 1]
             ELSE clients

-----------------------------------------------------------------------------
(* client_handler. *)

HandlerGoto(c, location) == pc' = [pc EXCEPT ![c] = location]

HandlerReceive(c) ==
  /\ HandlerAt(c, "read")
  /\ inbox[c] # <<>>
  /\ LET req == Head(inbox[c]) IN
       /\ req.type # "oversized"
       /\ proc_req' = [proc_req EXCEPT ![c] =
            [client_fd |-> client_fd[c], text |-> req.text, type |-> req.type]]
  /\ inbox' = [inbox EXCEPT ![c] = Tail(@)]
  /\ HandlerGoto(c, "enqueue")
  /\ UNCHANGED <<peer, sent, backlog, wire, fds, registry, request_queue, main, client_fd, worker>>

HandlerFailBug(c) ==  \* the end of the stream is not taken for a failure
  /\ HandlerAt(c, "read")
  /\ inbox[c] # <<>> /\ Head(inbox[c]).type = "oversized"
  /\ HandlerGoto(c, "remove")
  /\ UNCHANGED <<world, wire, fds, registry, request_queue, main, client_fd, proc_req, worker>>

(* receive_request fails: the text is too long, or the client has gone. *)
HandlerFail(c) ==
  /\ HandlerAt(c, "read")
  /\ \/ inbox[c] # <<>> /\ Head(inbox[c]).type = "oversized"
     \/ inbox[c] = <<>> /\ peer[c] = "closed"
  /\ HandlerGoto(c, "remove")
  /\ UNCHANGED <<world, wire, fds, registry, request_queue, main, client_fd, proc_req, worker>>

HandlerEnqueueBug(c) ==  \* a full queue drops the request
  /\ HandlerAt(c, "enqueue")
  /\ \/ Queue!Put(proc_req[c])
     \/ Len(request_queue) = MAX_QUEUE_SIZE /\ UNCHANGED request_queue
  /\ proc_req' = [proc_req EXCEPT ![c] = NoRequest]
  /\ HandlerGoto(c, "count")
  /\ UNCHANGED <<world, wire, fds, registry, main, client_fd, request, worker_pc, part, documents>>

HandlerEnqueueFrontBug(c) ==  \* the newest request is the first to be taken
  /\ HandlerAt(c, "enqueue")
  /\ Len(request_queue) < MAX_QUEUE_SIZE
  /\ request_queue' = <<proc_req[c]>> \o request_queue
  /\ proc_req' = [proc_req EXCEPT ![c] = NoRequest]
  /\ HandlerGoto(c, "count")
  /\ UNCHANGED <<world, wire, fds, registry, main, client_fd, worker>>

HandlerEnqueueLockedBug(c) ==  \* waits for room with clients_mutex
  /\ HandlerAt(c, "enqueue")
  /\ main_pc # "admin_queue"
  /\ \/ /\ Len(request_queue) = MAX_QUEUE_SIZE
        /\ clients_mutex' = TRUE
        /\ UNCHANGED <<pc, proc_req, request_queue>>
     \/ /\ Queue!Put(proc_req[c])
        /\ clients_mutex' = FALSE
        /\ proc_req' = [proc_req EXCEPT ![c] = NoRequest]
        /\ HandlerGoto(c, "count")
  /\ UNCHANGED <<world, wire, fds, clients, main, client_fd, worker>>

HandlerEnqueue(c) ==
  /\ HandlerAt(c, "enqueue")
  /\ Queue!Put(proc_req[c])
  /\ proc_req' = [proc_req EXCEPT ![c] = NoRequest]
  /\ HandlerGoto(c, "count")
  /\ UNCHANGED <<world, wire, fds, registry, main, client_fd, worker>>

HandlerCountBug(c) ==  \* one request per connection, closed before its answer
  /\ HandlerAt(c, "count")
  /\ ~clients_mutex
  /\ CountRequest(client_fd[c])
  /\ HandlerGoto(c, "remove")
  /\ UNCHANGED <<world, wire, fds, clients_mutex, request_queue, main, client_fd, proc_req, worker>>

HandlerCount(c) ==
  /\ HandlerAt(c, "count")
  /\ ~clients_mutex
  /\ CountRequest(client_fd[c])
  /\ HandlerGoto(c, "read")
  /\ UNCHANGED <<world, wire, fds, clients_mutex, request_queue, main, client_fd, proc_req, worker>>

HandlerRemoveBug(c) ==  \* close before remove_client
  /\ HandlerAt(c, "remove")
  /\ ~clients_mutex
  /\ \/ fds[client_fd[c]] = c /\ CloseFd(client_fd[c]) /\ UNCHANGED <<clients, pc>>
     \/ fds[client_fd[c]] # c /\ RemoveClient(client_fd[c]) /\ HandlerGoto(c, "done")
        /\ UNCHANGED fds
  /\ UNCHANGED <<world, wire, clients_mutex, request_queue, main, client_fd, proc_req, worker>>

HandlerRemove(c) ==
  /\ HandlerAt(c, "remove")
  /\ ~clients_mutex
  /\ RemoveClient(client_fd[c])
  /\ HandlerGoto(c, "close")
  /\ UNCHANGED <<world, wire, fds, clients_mutex, request_queue, main, client_fd, proc_req, worker>>

HandlerClose(c) ==
  /\ HandlerAt(c, "close")
  /\ CloseFd(client_fd[c])
  /\ HandlerGoto(c, "done")
  /\ UNCHANGED <<world, wire, registry, request_queue, main, client_fd, proc_req, worker>>

-----------------------------------------------------------------------------
(* processing_thread. *)

Dequeue ==
  /\ WorkerAt("dequeue")
  /\ Queue!Get
  /\ worker_pc' = "process"
  /\ UNCHANGED <<world, wire, fds, registry, main, handlers, part, documents>>

(* The text joins the collection before the response is computed from it. *)
Process ==
  /\ WorkerAt("process")
  /\ documents' = Append(documents, request.text)
  /\ worker_pc' = "send"
  /\ UNCHANGED <<world, wire, fds, registry, request_queue, main, handlers, request, part>>

(* One write of send_response, which ends at the first that fails: on a     *)
(* closed descriptor, or when it is the call that the kernel tells of a     *)
(* reset, before the signal.  What it returns is not looked at.             *)
FinishSend == worker_pc' = "dequeue" /\ part' = 1

NextPart ==
  IF part = Writes[request.type] THEN FinishSend
                                 ELSE part' = part + 1 /\ UNCHANGED worker_pc

SendPart ==
  /\ WorkerAt("send")
  /\ LET e == fds[request.client_fd] IN
       \/ e # Free /\ ~Blocked(e) /\ Deliver(e, request.text, request.type, part) /\ NextPart
       \/ /\ e # Free /\ peer[e] = "closed" /\ ~Broken(e)
          /\ reset' \in {reset, reset \union {e}}
          /\ NextPart
          /\ UNCHANGED <<outbox, alive>>
       \/ e # Free /\ Killed(e) /\ UNCHANGED <<worker_pc, part>>
       \/ /\ e = Free \/ (e \in Conns /\ Broken(e))
          /\ FinishSend /\ UNCHANGED wire
  /\ UNCHANGED <<world, fds, registry, request_queue, main, handlers, request, documents>>

-----------------------------------------------------------------------------
(* main: the loop over poll, and handle_admin_client, which it runs itself. *)

(* Back to poll; the locals of the iteration are gone. *)
EndLoop ==
  /\ main_pc' = "poll"
  /\ revents' = {}
  /\ new_fd' = -1
  /\ admin_resp' = NoResponse

Poll ==
  /\ MainAt({"poll"})
  /\ revents' = {socket \in {"tcp", "unix"} : backlog[socket] # <<>>}
  /\ revents' # {}
  /\ main_pc' = IF "tcp" \in revents' THEN "accept" ELSE "admin_accept"
  /\ UNCHANGED <<world, wire, fds, registry, request_queue, new_fd, admin_resp, handlers, worker>>

AcceptClient ==
  /\ MainAt({"accept"})
  /\ Accept("tcp")
  /\ main_pc' = "register"
  /\ UNCHANGED <<peer, sent, inbox, wire, registry, request_queue, revents, admin_resp,
                 handlers, worker>>

AcceptFailsBug ==  \* the loop ends, and no connection is accepted again
  /\ MainAt({"accept", "admin_accept"})
  /\ FreeFds = {}
  /\ main_pc' = "exit"
  /\ UNCHANGED <<world, wire, fds, registry, request_queue, revents, new_fd, admin_resp,
                 handlers, worker>>

(* No descriptor is left; an admin client that waits is passed over too. *)
AcceptFails ==
  /\ MainAt({"accept", "admin_accept"})
  /\ FreeFds = {}
  /\ EndLoop
  /\ UNCHANGED <<world, wire, fds, registry, request_queue, handlers, worker>>

RegisterClientBug ==  \* no test for room in the list
  /\ MainAt({"register"})
  /\ ~clients_mutex
  /\ clients' = Append(clients, [fd |-> new_fd, conn |-> fds[new_fd], request_count |-> 0])
  /\ main_pc' = "spawn"
  /\ UNCHANGED <<world, wire, fds, clients_mutex, request_queue, revents, new_fd,
                 admin_resp, handlers, worker>>

RegisterClient ==
  /\ MainAt({"register"})
  /\ ~clients_mutex
  /\ clients' = IF Len(clients) < MAX_CLIENTS
                THEN Append(clients, [fd |-> new_fd, conn |-> fds[new_fd], request_count |-> 0])
                ELSE clients
  /\ main_pc' = "spawn"
  /\ UNCHANGED <<world, wire, fds, clients_mutex, request_queue, revents, new_fd,
                 admin_resp, handlers, worker>>

(* The connections that have a handler thread running. *)
Live == {c \in Conns : pc[c] \notin {"none", "unborn", "done"}}

(* The rest of the loop: the admin socket, if poll found a client there.    *)
AfterSpawn ==
  IF "unix" \in revents
  THEN main_pc' = "admin_accept" /\ new_fd' = -1 /\ UNCHANGED <<revents, admin_resp>>
  ELSE EndLoop

StartHandler(location) ==
  LET c == fds[new_fd] IN
    client_fd' = [client_fd EXCEPT ![c] = new_fd] /\ HandlerGoto(c, location)

SpawnHandler ==
  /\ MainAt({"spawn"})
  /\ StartHandler("read")
  /\ AfterSpawn
  /\ UNCHANGED <<world, wire, fds, registry, request_queue, proc_req, worker>>

(* pthread_create fails and nobody looks: the connection and its entry stay *)
(* without a handler, and pthread_detach gets a client_tid that was never   *)
(* set, which ends the process or has no effect.                            *)
SpawnFails ==
  /\ MainAt({"spawn"})
  /\ Cardinality(Live) >= SureThreads
  /\ StartHandler("unborn")
  /\ alive' \in BOOLEAN
  /\ AfterSpawn
  /\ UNCHANGED <<world, outbox, reset, fds, registry, request_queue, proc_req, worker>>

AcceptAdmin ==
  /\ MainAt({"admin_accept"})
  /\ Accept("unix")
  /\ main_pc' = "admin_receive"
  /\ UNCHANGED <<peer, sent, inbox, wire, registry, request_queue, revents, admin_resp,
                 handlers, worker>>

(* The main thread waits here for as long as the admin client likes. *)
AdminReceive ==
  /\ MainAt({"admin_receive"})
  /\ LET a == fds[new_fd] IN
       /\ inbox[a] # <<>>
       /\ inbox' = [inbox EXCEPT ![a] = Tail(@)]
       /\ admin_resp' = [admin_resp EXCEPT !.command = Head(inbox[a]).type]
  /\ main_pc' = CASE admin_resp'.command = "get_clients" -> "admin_clients"
                  [] admin_resp'.command = "get_queue_status" -> "admin_queue"
                  [] OTHER -> "admin_send"
  /\ UNCHANGED <<peer, sent, backlog, wire, fds, registry, request_queue, revents, new_fd,
                 handlers, worker>>

AdminHangupBug ==  \* the early return does not close
  /\ MainAt({"admin_receive"})
  /\ inbox[fds[new_fd]] = <<>> /\ peer[fds[new_fd]] = "closed"
  /\ EndLoop
  /\ UNCHANGED <<world, wire, fds, registry, request_queue, handlers, worker>>

AdminHangup ==
  /\ MainAt({"admin_receive"})
  /\ inbox[fds[new_fd]] = <<>> /\ peer[fds[new_fd]] = "closed"
  /\ main_pc' = "admin_close"
  /\ UNCHANGED <<world, wire, fds, registry, request_queue, revents, new_fd, admin_resp,
                 handlers, worker>>

AdminCopyClientsBug ==  \* clients_mutex is unlocked before the queue's is taken
  /\ MainAt({"admin_clients"})
  /\ ~clients_mutex
  /\ admin_resp' = [admin_resp EXCEPT !.clients = clients]
  /\ main_pc' = "admin_queue"
  /\ UNCHANGED <<world, wire, fds, registry, request_queue, revents, new_fd, handlers, worker>>

AdminCopyClients ==
  /\ MainAt({"admin_clients"})
  /\ ~clients_mutex
  /\ clients_mutex' = TRUE
  /\ admin_resp' = [admin_resp EXCEPT !.clients = clients]
  /\ main_pc' = "admin_queue"
  /\ UNCHANGED <<world, wire, fds, clients, request_queue, revents, new_fd, handlers, worker>>

AdminReadQueue ==
  /\ MainAt({"admin_queue"})
  /\ admin_resp' = [admin_resp EXCEPT !.queue_size = Len(request_queue)]
  /\ clients_mutex' = FALSE
  /\ main_pc' = "admin_send"
  /\ UNCHANGED <<world, wire, fds, clients, request_queue, revents, new_fd, handlers, worker>>

(* One write of send_admin_response.  An admin client gets one response, so *)
(* the writes made of it are those that the main thread made to a.          *)
WritesMade(a) == {i \in DOMAIN outbox[a] : outbox[a][i].text[1] = a}

AdminReply ==
  /\ MainAt({"admin_send"})
  /\ LET a == fds[new_fd]
         k == Cardinality(WritesMade(a)) + 1
     IN  \/ /\ Deliver(a, <<a, 1>>, admin_resp.command, k)
            /\ main_pc' = IF k < Writes[admin_resp.command] THEN "admin_send" ELSE "admin_close"
         \/ Killed(a) /\ UNCHANGED main_pc
  /\ UNCHANGED <<world, fds, registry, request_queue, revents, new_fd, admin_resp,
                 handlers, worker>>

AdminClose ==
  /\ MainAt({"admin_close"})
  /\ CloseFd(new_fd)
  /\ EndLoop
  /\ UNCHANGED <<world, wire, registry, request_queue, handlers, worker>>

-----------------------------------------------------------------------------
Handler(c) ==
  \/ HandlerReceive(c) \/ HandlerFail(c) \/ HandlerEnqueue(c)
  \/ HandlerCount(c) \/ HandlerRemove(c) \/ HandlerClose(c)

Worker == Dequeue \/ Process \/ SendPart

Main ==
  \/ Poll \/ AcceptClient \/ AcceptFails \/ RegisterClient
  \/ SpawnHandler \/ SpawnFails
  \/ AcceptAdmin \/ AdminReceive \/ AdminHangup \/ AdminCopyClients
  \/ AdminReadQueue \/ AdminReply \/ AdminClose

Next ==
  \/ \E e \in Endpoints : Connect(e) \/ Close(e)
  \/ \E c \in Conns : \E type \in Types : ClientSend(c, type)
  \/ \E a \in Admins : \E command \in Commands : AdminSend(a, command)
  \/ \E c \in Conns : Handler(c)
  \/ Worker
  \/ Main

Spec == Init /\ [][Next]_vars

(* Every thread is scheduled and blocks only where its action is disabled.  *)
(* Programs send and close as they please, except that an admin client that *)
(* is not mute sends its command or closes, as admin_client.c does.         *)
Fairness ==
  /\ \A c \in Conns : WF_vars(Handler(c))
  /\ WF_vars(Worker)
  /\ WF_vars(Main)
  /\ \A a \in Admins \ Mute :
       WF_vars(sent[a] = <<>>
                 /\ (Close(a) \/ \E command \in Commands : AdminSend(a, command)))

FairSpec == Spec /\ Fairness

-----------------------------------------------------------------------------
(* Properties. *)

Entries == [fd : Fds, conn : Conns, request_count : 0 .. MaxRequests]
Pieces == [text : Texts, type : Types \union Commands, part : Nat \ {0}]

TypeOK ==
  /\ peer \in [Endpoints -> {"idle", "open", "closed"}]
  /\ sent \in [Endpoints -> Seq(Types \union Commands)]
  /\ inbox \in [Endpoints -> Seq([text : Texts, type : Types \union Commands])]
  /\ outbox \in [Endpoints -> Seq(Pieces)]
  /\ reset \subseteq Conns
  /\ backlog \in [{"tcp", "unix"} -> Seq(Endpoints)]
  /\ fds \in [Fds -> Endpoints \union {Free}]
  /\ alive \in BOOLEAN
  /\ clients \in Seq(Entries) /\ Len(clients) <= MAX_CLIENTS
  /\ clients_mutex \in BOOLEAN
  /\ request_queue \in Seq(ProcessingRequests) /\ Len(request_queue) <= MAX_QUEUE_SIZE
  /\ main_pc \in {"poll", "accept", "register", "spawn", "admin_accept", "admin_receive",
                  "admin_clients", "admin_queue", "admin_send", "admin_close"}
  /\ revents \subseteq {"tcp", "unix"}
  /\ new_fd \in Fds \union {-1}
  /\ admin_resp \in [command : Commands \union {"none"}, clients : Seq(Entries),
                     queue_size : 0 .. MAX_QUEUE_SIZE]
  /\ pc \in [Conns -> {"none", "unborn", "read", "enqueue", "count", "remove", "close", "done"}]
  /\ client_fd \in [Conns -> Fds \union {-1}]
  /\ proc_req \in [Conns -> ProcessingRequests \union {NoRequest}]
  /\ worker_pc \in {"dequeue", "process", "send"}
  /\ request \in ProcessingRequests \union {NoRequest}
  /\ part \in Nat \ {0}
  /\ documents \in Seq(Texts)

(* The descriptor on which connection c is served, or will be.              *)
ServedOn(c, n) ==
  \/ c \in Live /\ client_fd[c] = n
  \/ main_pc \in {"register", "spawn"} /\ new_fd = n /\ fds[n] = c

(* A descriptor names the same connection for every thread that uses it:    *)
(* an entry of the list, its handler and the kernel agree on whose it is,   *)
(* and no two entries share one, although handlers come and go, entries     *)
(* move and descriptors are reused.  An entry whose handler could not be    *)
(* started keeps its descriptor, which never goes to another client.        *)
RegistryCoherent ==
  /\ \A i, j \in DOMAIN clients : clients[i].fd = clients[j].fd => i = j
  /\ \A i \in DOMAIN clients :
       LET c == clients[i].conn IN
         /\ fds[clients[i].fd] = c
         /\ ServedOn(c, clients[i].fd) \/ (pc[c] = "unborn" /\ client_fd[c] = clients[i].fd)

(* No descriptor is lost: an open one belongs to exactly the thread that    *)
(* will close it, and that thread's descriptor is open; unless the thread   *)
(* could not be started, which is the only way to lose one.                 *)
NoFdLeak ==
  /\ \A c \in Conns : \A n \in Fds : ServedOn(c, n) => fds[n] = c
  /\ \A n \in Fds :
       fds[n] # Free =>
         \/ \E c \in Conns : ServedOn(c, n) \/ (pc[c] = "unborn" /\ client_fd[c] = n)
         \/ fds[n] \in Admins /\ new_fd = n

(* The texts of some messages, in their order. *)
TextsOf(messages) == [i \in DOMAIN messages |-> messages[i].text]

(* The texts that have entered the queue, in this order: those processed,   *)
(* the one in the processing thread's hands, those queued.                  *)
Entered ==
  documents \o (IF worker_pc = "process" THEN <<request.text>> ELSE <<>>)
    \o TextsOf(request_queue)

(* The places of those of connection c, and how many they are.              *)
EnteredOf(c) == {i \in DOMAIN Entered : Entered[i][1] = c}
Enqueued(c) == Cardinality(EnteredOf(c))

(* What an admin client is told of a connection is true: the count in its   *)
(* entry is the number of its requests that entered the queue, but for one  *)
(* whose handler is on its way to count it.                                 *)
RequestCountExact ==
  \A i \in DOMAIN clients :
    LET c == clients[i].conn
    IN  clients[i].request_count + (IF pc[c] = "count" THEN 1 ELSE 0) = Enqueued(c)

(* The texts of c on their way to the queue: at its handler, and unread.    *)
ToEnter(c) ==
  (IF pc[c] = "enqueue" THEN <<proc_req[c].text>> ELSE <<>>) \o TextsOf(inbox[c])

(* No request is lost, repeated or overtaken on its way from its client to  *)
(* the processing thread, through handler, queue and collection: the k-th   *)
(* of a connection to enter is its k-th request, the others still come.     *)
NothingLost ==
  \A c \in Conns :
    /\ \A i \in EnteredOf(c) :
         Entered[i] = <<c, Cardinality({j \in EnteredOf(c) : j <= i})>>
    /\ ToEnter(c) = [k \in 1 .. Len(sent[c]) - Enqueued(c) |-> <<c, Enqueued(c) + k>>]

(* An admin client sees the list of clients and the queue of one moment:    *)
(* the list does not change before the queue size is read.                  *)
AdminSnapshot ==
  main_pc = "admin_queue" /\ admin_resp.command = "get_clients"
    => admin_resp.clients = clients

(* A client leaves the list by its own handler's hand only, after its       *)
(* connection has ended, whatever entry is moved into its place.            *)
OnlyOwnHandlerRemoves ==
  [][\A i \in DOMAIN clients :
       (\A j \in DOMAIN clients' : clients'[j].conn # clients[i].conn)
         => pc[clients[i].conn] = "remove"]_vars

(* p is the first piece of the response to request k of e, and next is the  *)
(* piece that has to come after it.                                         *)
Begins(p, e, k) ==
  k \in DOMAIN sent[e] /\ p = [text |-> <<e, k>>, type |-> sent[e][k], part |-> 1]

Follows(next, p, e) ==
  IF p.part < Writes[p.type] THEN next = [p EXCEPT !.part = @ + 1]
                             ELSE Begins(next, e, p.text[2] + 1)

(* What is written to a connection are the responses to what was sent on    *)
(* it, in the order it was sent, every part once.                           *)
AnswersInOrder ==
  \A e \in Endpoints : \A i \in DOMAIN outbox[e] :
    IF i = 1 THEN Begins(outbox[e][1], e, 1)
             ELSE Follows(outbox[e][i], outbox[e][i - 1], e)

(* A response goes to the program that sent the request, to no other. *)
OnlyOwnAnswers == \A e \in Endpoints : \A i \in DOMAIN outbox[e] : outbox[e][i].text[1] = e

(* No program that talks to the server can end it. *)
ServerSurvives == alive

(* Every request on a connection that was accepted gets its response, in    *)
(* full, although a full queue holds handlers up and every response waits   *)
(* for the one processing thread.                                           *)
Complete(e, k) ==
  \E i \in DOMAIN outbox[e] :
    LET p == outbox[e][i] IN p.text = <<e, k>> /\ p.part = Writes[p.type]

RequestsAnswered ==
  \A c \in Conns : \A k \in 1 .. MaxRequests :
    (pc[c] # "none" /\ k \in DOMAIN sent[c] /\ sent[c][k] # "oversized")
      ~> Complete(c, k)

(* A connection that waits is accepted in the end, unless all descriptors   *)
(* are taken again and again: an accept that failed for want of one is      *)
(* tried again (server.c:382-386), and no other connection keeps it from    *)
(* its turn.                                                                *)
Waiting(e) == \E socket \in {"tcp", "unix"} : \E k \in DOMAIN backlog[socket] : backlog[socket][k] = e

AcceptedWhenFree ==
  \A e \in Endpoints : Waiting(e) ~> (~alive \/ FreeFds = {} \/ ~Waiting(e))

(* The processing thread cannot go on, for a client that does not read.     *)
Stuck ==
  worker_pc = "send" /\ LET e == fds[request.client_fd] IN e # Free /\ Blocked(e)

(* When a connection has ended its entry, its thread and its descriptor go, *)
(* but for a handler that waits for room in the queue while the processing  *)
(* thread is stuck.                                                         *)
HangupReclaimed ==
  \A c \in Conns :
    (peer[c] = "closed")
      ~> (\/ ~alive
          \/ Stuck /\ pc[c] = "enqueue"
          \/ /\ pc[c] = "done"
             /\ \A n \in Fds : fds[n] # c
             /\ \A i \in DOMAIN clients : clients[i].conn # c)

(* An admin client that was accepted gets the answer to its command, even   *)
(* while the processing thread is stuck and a handler waits for room in the *)
(* queue.                                                                   *)
AdminAnswered ==
  \A a \in Admins :
    (sent[a] # <<>> /\ \E n \in Fds : fds[n] = a)
      ~> (~alive \/ peer[a] = "closed" \/ Complete(a, 1))
=============================================================================
