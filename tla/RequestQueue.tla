---------------------------- MODULE RequestQueue ----------------------------
(***************************************************************************)
(* The request queue of server.c: a ring of MAX_QUEUE_SIZE slots guarded   *)
(* by one mutex and two condition variables.  Client handler threads call  *)
(* enqueue, the one processing thread calls dequeue, and the main thread   *)
(* reads the element count for an admin client, in one of the two commands *)
(* while it holds clients_mutex as well.                                   *)
(*                                                                         *)
(* A critical section is two steps: taking the mutex, and everything from  *)
(* there to the pthread_cond_wait or the unlock, which no other thread can *)
(* observe half done.  pthread_cond_wait releases the mutex in the same    *)
(* step that enters the wait set; the thread leaves it when it is          *)
(* signalled or spuriously (POSIX allows both), takes the mutex again and  *)
(* tests its condition again, as the while loops of the code do.           *)
(***************************************************************************)
EXTENDS Integers, FiniteSets

CONSTANTS
  Handlers,        \* client handler threads, the callers of enqueue
  Worker,          \* the processing thread, the only caller of dequeue
  Main,            \* the main thread, which serves the admin clients
  Requests,        \* the ProcessingRequest values
  RequestsOf,      \* those each handler builds: they carry its client_fd
  NoRequest,       \* a slot or variable that was never assigned
  NoThread,        \* the owner of a free mutex
  MAX_QUEUE_SIZE

ASSUME QueueAssumption ==
  /\ MAX_QUEUE_SIZE \in Nat \ {0}
  /\ IsFiniteSet(Handlers)
  /\ Worker \notin Handlers
  /\ Main \notin Handlers
  /\ Worker # Main
  /\ NoThread \notin Handlers \union {Worker, Main}
  /\ NoRequest \notin Requests
  /\ RequestsOf \in [Handlers -> SUBSET Requests]

VARIABLES
  queue, front, rear, count,  \* the fields of RequestQueue
  mutex,                      \* the owner of request_queue.mutex
  clients_mutex,              \* the owner of clients_mutex
  not_empty, not_full,        \* the threads asleep on each condition variable
  pc,                         \* where each thread is, see Locations
  proc_req,                   \* proc_req of each handler, the argument of enqueue
  request                     \* request of the processing thread

vars == <<queue, front, rear, count, mutex, clients_mutex, not_empty, not_full,
          pc, proc_req, request>>

Threads == Handlers \union {Worker, Main}

(* out: not in this code; clients: about to lock clients_mutex; lock: about *)
(* to lock the queue's mutex; held: owns it, at the test of the while;      *)
(* wait: in pthread_cond_wait.                                              *)
Locations == {"out", "clients", "lock", "held", "wait"}

Slots == 0 .. MAX_QUEUE_SIZE - 1

Goto(t, location) == pc' = [pc EXCEPT ![t] = location]

(* pthread_cond_signal: wakes one sleeping thread, if there is one. *)
Signal(sleepers) ==
  IF sleepers = {} THEN {{}} ELSE {sleepers \ {t} : t \in sleepers}

(* init_queue; the queue and the mutexes are globals, so they start zeroed. *)
Init ==
  /\ queue = [i \in Slots |-> NoRequest]
  /\ front = 0
  /\ rear = -1
  /\ count = 0
  /\ mutex = NoThread
  /\ clients_mutex = NoThread
  /\ not_empty = {}
  /\ not_full = {}
  /\ pc = [t \in Threads |-> "out"]
  /\ proc_req = [h \in Handlers |-> NoRequest]
  /\ request = NoRequest

-----------------------------------------------------------------------------
(* The mutex and the condition variables. *)

(* pthread_mutex_lock on the queue's mutex, and the same at the end of a    *)
(* pthread_cond_wait once the thread is out of the wait set.                *)
Acquire(t) ==
  /\ \/ pc[t] = "lock"
     \/ pc[t] = "wait" /\ t \notin not_empty \union not_full
  /\ mutex = NoThread
  /\ mutex' = t
  /\ Goto(t, "held")
  /\ UNCHANGED <<queue, front, rear, count, clients_mutex, not_empty, not_full,
                 proc_req, request>>

(* pthread_cond_wait may return without a signal. *)
SpuriousWakeup(t) ==
  /\ t \in not_empty \union not_full
  /\ not_empty' = not_empty \ {t}
  /\ not_full' = not_full \ {t}
  /\ UNCHANGED <<queue, front, rear, count, mutex, clients_mutex, pc, proc_req,
                 request>>

-----------------------------------------------------------------------------
(* Client handlers: enqueue, then the update of the client's entry under    *)
(* clients_mutex (what it does to the entry is in Server).                  *)

CallEnqueue(h, req) ==
  /\ pc[h] = "out"
  /\ proc_req' = [proc_req EXCEPT ![h] = req]
  /\ Goto(h, "lock")
  /\ UNCHANGED <<queue, front, rear, count, mutex, clients_mutex, not_empty,
                 not_full, request>>

(* Variants named ...Bug hold a plausible mistake each: the checks replace   *)
(* the definition after them by one and expect a property to notice.        *)
EnqueueWaitBug(h) ==  \* asleep with the mutex: a sleep, not a pthread_cond_wait
  /\ pc[h] = "held"
  /\ count >= MAX_QUEUE_SIZE
  /\ not_full' = not_full \union {h}
  /\ Goto(h, "wait")
  /\ UNCHANGED <<queue, front, rear, count, mutex, clients_mutex, not_empty, proc_req,
                 request>>

EnqueueWait(h) ==
  /\ pc[h] = "held"
  /\ count >= MAX_QUEUE_SIZE
  /\ not_full' = not_full \union {h}
  /\ mutex' = NoThread
  /\ Goto(h, "wait")
  /\ UNCHANGED <<queue, front, rear, count, clients_mutex, not_empty, proc_req,
                 request>>

EnqueueInsertBug(h) ==  \* no pthread_cond_signal
  /\ pc[h] = "held"
  /\ count < MAX_QUEUE_SIZE
  /\ rear' = (rear + 1) % MAX_QUEUE_SIZE
  /\ queue' = [queue EXCEPT ![rear'] = proc_req[h]]
  /\ count' = count + 1
  /\ mutex' = NoThread
  /\ Goto(h, "clients")
  /\ UNCHANGED <<front, clients_mutex, not_empty, not_full, proc_req, request>>

EnqueueInsertUnguardedBug(h) ==  \* an insertion without the test for room
  /\ pc[h] = "held"
  /\ rear' = (rear + 1) % MAX_QUEUE_SIZE
  /\ queue' = [queue EXCEPT ![rear'] = proc_req[h]]
  /\ count' = count + 1
  /\ not_empty' \in Signal(not_empty)
  /\ mutex' = NoThread
  /\ Goto(h, "clients")
  /\ UNCHANGED <<front, clients_mutex, not_full, proc_req, request>>

EnqueueInsert(h) ==
  /\ pc[h] = "held"
  /\ count < MAX_QUEUE_SIZE
  /\ rear' = (rear + 1) % MAX_QUEUE_SIZE
  /\ queue' = [queue EXCEPT ![rear'] = proc_req[h]]
  /\ count' = count + 1
  /\ not_empty' \in Signal(not_empty)
  /\ mutex' = NoThread
  /\ Goto(h, "clients")
  /\ UNCHANGED <<front, clients_mutex, not_full, proc_req, request>>

(* Lock clients_mutex, update the entry, unlock, back to receive_request. *)
UpdateClientInfo(h) ==
  /\ pc[h] = "clients"
  /\ clients_mutex = NoThread
  /\ Goto(h, "out")
  /\ UNCHANGED <<queue, front, rear, count, mutex, clients_mutex, not_empty,
                 not_full, proc_req, request>>

-----------------------------------------------------------------------------
(* The processing thread: dequeue, in an endless loop. *)

CallDequeue ==
  /\ pc[Worker] = "out"
  /\ Goto(Worker, "lock")
  /\ UNCHANGED <<queue, front, rear, count, mutex, clients_mutex, not_empty,
                 not_full, proc_req, request>>

DequeueWait ==
  /\ pc[Worker] = "held"
  /\ count <= 0
  /\ not_empty' = not_empty \union {Worker}
  /\ mutex' = NoThread
  /\ Goto(Worker, "wait")
  /\ UNCHANGED <<queue, front, rear, count, clients_mutex, not_full, proc_req,
                 request>>

DequeueTakeBug ==  \* a signal only when the queue was full
  /\ pc[Worker] = "held"
  /\ count > 0
  /\ request' = queue[front]
  /\ front' = (front + 1) % MAX_QUEUE_SIZE
  /\ count' = count - 1
  /\ IF count = MAX_QUEUE_SIZE THEN not_full' \in Signal(not_full)
                               ELSE UNCHANGED not_full
  /\ mutex' = NoThread
  /\ Goto(Worker, "out")
  /\ UNCHANGED <<queue, rear, clients_mutex, not_empty, proc_req>>

DequeueTakeOrderBug ==  \* front moves before the slot is read
  /\ pc[Worker] = "held"
  /\ count > 0
  /\ front' = (front + 1) % MAX_QUEUE_SIZE
  /\ request' = queue[front']
  /\ count' = count - 1
  /\ not_full' \in Signal(not_full)
  /\ mutex' = NoThread
  /\ Goto(Worker, "out")
  /\ UNCHANGED <<queue, rear, clients_mutex, not_empty, proc_req>>

DequeueTake ==
  /\ pc[Worker] = "held"
  /\ count > 0
  /\ request' = queue[front]
  /\ front' = (front + 1) % MAX_QUEUE_SIZE
  /\ count' = count - 1
  /\ not_full' \in Signal(not_full)
  /\ mutex' = NoThread
  /\ Goto(Worker, "out")
  /\ UNCHANGED <<queue, rear, clients_mutex, not_empty, proc_req>>

-----------------------------------------------------------------------------
(* The main thread: the queue size in handle_admin_client. *)

(* ADMIN_GET_QUEUE_STATUS takes the queue's mutex only. *)
AdminQueueStatus ==
  /\ pc[Main] = "out"
  /\ Goto(Main, "lock")
  /\ UNCHANGED <<queue, front, rear, count, mutex, clients_mutex, not_empty,
                 not_full, proc_req, request>>

(* ADMIN_GET_CLIENTS takes clients_mutex first and the queue's mutex inside. *)
AdminGetClients ==
  /\ pc[Main] = "out"
  /\ clients_mutex = NoThread
  /\ clients_mutex' = Main
  /\ Goto(Main, "lock")
  /\ UNCHANGED <<queue, front, rear, count, mutex, not_empty, not_full, proc_req,
                 request>>

(* The count is copied; the queue's mutex is unlocked, then clients_mutex. *)
AdminReadCount ==
  /\ pc[Main] = "held"
  /\ mutex' = NoThread
  /\ clients_mutex' = NoThread
  /\ Goto(Main, "out")
  /\ UNCHANGED <<queue, front, rear, count, not_empty, not_full, proc_req, request>>

-----------------------------------------------------------------------------
Next ==
  \/ \E t \in Threads : Acquire(t)
  \/ \E t \in Threads : SpuriousWakeup(t)
  \/ \E h \in Handlers : \E req \in RequestsOf[h] : CallEnqueue(h, req)
  \/ \E h \in Handlers : EnqueueWait(h)
  \/ \E h \in Handlers : EnqueueInsert(h)
  \/ \E h \in Handlers : UpdateClientInfo(h)
  \/ CallDequeue
  \/ DequeueWait
  \/ DequeueTake
  \/ AdminQueueStatus
  \/ AdminGetClients
  \/ AdminReadCount

Spec == Init /\ [][Next]_vars

(* A thread that holds a lock or needs none keeps running; a mutex that is  *)
(* free again and again is not denied to a thread for ever.  Calls come     *)
(* from the network, so nothing is assumed of CallEnqueue and the admin     *)
(* commands; the processing thread always comes back to dequeue.            *)
Fairness ==
  /\ \A t \in Threads : SF_vars(Acquire(t))
  /\ \A h \in Handlers :
       /\ WF_vars(EnqueueWait(h))
       /\ WF_vars(EnqueueInsert(h))
       /\ SF_vars(UpdateClientInfo(h))
  /\ WF_vars(CallDequeue)
  /\ WF_vars(DequeueWait)
  /\ WF_vars(DequeueTake)
  /\ WF_vars(AdminReadCount)

FairSpec == Spec /\ Fairness

-----------------------------------------------------------------------------
(* Properties. *)

TypeOK ==
  /\ queue \in [Slots -> Requests \union {NoRequest}]
  /\ front \in Slots
  /\ rear \in Slots \union {-1}
  /\ count \in 0 .. MAX_QUEUE_SIZE
  /\ mutex \in Threads \union {NoThread}
  /\ clients_mutex \in {Main, NoThread}
  /\ not_empty \subseteq {Worker}
  /\ not_full \subseteq Handlers
  /\ pc \in [Threads -> Locations]
  /\ proc_req \in [Handlers -> Requests \union {NoRequest}]
  /\ request \in Requests \union {NoRequest}

(* The i-th oldest queued request is in slot Slot(i). *)
Slot(i) == IF front + i - 1 < MAX_QUEUE_SIZE
           THEN front + i - 1
           ELSE front + i - 1 - MAX_QUEUE_SIZE

(* The requests in the queue, the oldest first. *)
Queued == [i \in 1 .. count |-> queue[Slot(i)]]

(* The thread that owns the mutex is the one in a critical section: enqueue *)
(* and dequeue never touch the ring together.                               *)
MutualExclusion == \A t \in Threads : pc[t] = "held" <=> mutex = t

(* front, rear and count always agree on which slots hold a request, so the *)
(* next enqueue overwrites none that was not dequeued.                      *)
RingCoherent == (rear + 1) % MAX_QUEUE_SIZE = (front + count) % MAX_QUEUE_SIZE

(* Handlers that will test the count again without a further signal: woken  *)
(* from not_full, or holding the mutex.                                     *)
Retrying == {h \in Handlers : \/ pc[h] = "wait" /\ h \notin not_full
                              \/ pc[h] = "held"}

(* No wakeup is lost.  The processing thread never sleeps on a queue that   *)
(* holds a request, and while handlers sleep for room every free slot has a *)
(* handler on its way to fill it, although dequeue signals one handler at a *)
(* time and a newly arrived one may take the slot first.                    *)
NoLostWakeup ==
  /\ Worker \in not_empty => count = 0
  /\ not_full # {} => count + Cardinality(Retrying) >= MAX_QUEUE_SIZE

(* The queue is the bounded FIFO channel its users rely on: dequeue returns *)
(* every request once, unchanged, in the order of the enqueues.             *)
Fifo == INSTANCE BoundedFifo WITH
          Items <- Requests \union {NoRequest}, NoItem <- NoRequest,
          Capacity <- MAX_QUEUE_SIZE, items <- Queued, current <- request

ImplementsFifo == Fifo!Spec

(* A thread sleeps on a condition variable inside pthread_cond_wait only,   *)
(* and each thread runs the code that is its own.                           *)
WellLocated ==
  /\ \A t \in not_empty \union not_full : pc[t] = "wait"
  /\ pc[Worker] # "clients"
  /\ pc[Main] \in {"out", "lock", "held"}

(* The inductive invariant of the queue. *)
IInv ==
  /\ TypeOK
  /\ WellLocated
  /\ MutualExclusion
  /\ RingCoherent
  /\ NoLostWakeup

(* Every queued request is taken by the processing thread. *)
QueuedIsProcessed ==
  \A req \in Requests :
    (\E i \in 1 .. MAX_QUEUE_SIZE : i <= count /\ queue[Slot(i)] = req)
      ~> (request = req)

(* A full queue gets room again, so the handlers do not all sleep for ever. *)
FullQueueDrains == (count = MAX_QUEUE_SIZE) ~> (count < MAX_QUEUE_SIZE)

(* The main thread is not held up for ever by an admin command, whose       *)
(* nested locking takes clients_mutex before the queue's mutex: no handler  *)
(* or processing thread waits for it in the opposite order.                 *)
AdminReturns == (pc[Main] # "out") ~> (pc[Main] = "out")
=============================================================================
