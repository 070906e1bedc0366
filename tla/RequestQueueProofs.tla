------------------------- MODULE RequestQueueProofs -------------------------
(***************************************************************************)
(* Proofs about RequestQueue, for any set of handlers, any requests and    *)
(* any capacity: the inductive invariant IInv, from which the absence of   *)
(* lost wakeups follows, and the refinement of BoundedFifo.                *)
(***************************************************************************)
EXTENDS RequestQueue, FiniteSetTheorems, SequenceTheorems, TLAPS

(* Arithmetic of the ring: the sum of a slot and a number of slots is       *)
(* reduced by the capacity at most once.                                    *)
LEMMA ModSum ==
  ASSUME NEW N \in Nat \ {0}, NEW slot \in 0 .. N - 1, NEW n \in 0 .. N
  PROVE  (slot + n) % N = IF slot + n < N THEN slot + n ELSE slot + n - N
<1> DEFINE a == slot + n
<1>1. a \in 0 .. 2 * N - 1
  OBVIOUS
<1> HIDE DEF a
<1>2. a < N => a % N = a
  BY <1>1
<1>3. ASSUME a >= N PROVE a % N = a - N
  <2>1. (a - N) % N = a - N
    BY <1>1, <1>3
  <2>2. a % N = (a - N) % N
    BY <1>1, <1>3
  <2> QED
    BY <2>1, <2>2
<1>4. a % N = IF a < N THEN a ELSE a - N
  BY <1>1, <1>2, <1>3
<1> QED
  BY <1>4 DEF a

(* The types a step needs of the threads and the capacity. *)
LEMMA Constants ==
  /\ MAX_QUEUE_SIZE \in Nat \ {0}
  /\ IsFiniteSet(Handlers)
  /\ Worker \in Threads /\ Main \in Threads /\ Handlers \subseteq Threads
  /\ Worker \notin Handlers /\ Main \notin Handlers /\ Worker # Main
  /\ NoThread \notin Threads
  /\ \A h \in Handlers : \A req \in RequestsOf[h] : req \in Requests
BY QueueAssumption DEF Threads

(* The handlers that retry are finitely many. *)
LEMMA RetryingFinite ==
  /\ IsFiniteSet(Retrying)
  /\ Cardinality(Retrying) \in Nat
BY Constants, FS_Subset, FS_CardinalityType DEF Retrying

-----------------------------------------------------------------------------
(* The initial state satisfies the inductive invariant: init_queue.         *)
LEMMA InitInv == Init => IInv
<1> SUFFICES ASSUME Init PROVE IInv
  OBVIOUS
<1> USE Constants DEF Init
<1>1. TypeOK
  BY DEF TypeOK, Slots, Locations
<1>2. WellLocated
  BY DEF WellLocated
<1>3. MutualExclusion
  BY DEF MutualExclusion
<1>4. RingCoherent
  BY DEF RingCoherent
<1>5. NoLostWakeup
  BY DEF NoLostWakeup
<1> QED
  BY <1>1, <1>2, <1>3, <1>4, <1>5 DEF IInv

(* Every step keeps the types, the locations and the ownership of the mutex. *)
LEMMA NextTypes ==
  TypeOK /\ WellLocated /\ MutualExclusion /\ [Next]_vars
    => TypeOK' /\ WellLocated' /\ MutualExclusion'
<1> SUFFICES ASSUME TypeOK, WellLocated, MutualExclusion, [Next]_vars
             PROVE  TypeOK' /\ WellLocated' /\ MutualExclusion'
  OBVIOUS
<1> USE Constants DEF TypeOK, WellLocated, MutualExclusion, Locations, Goto
<1>1. ASSUME NEW t \in Threads, Acquire(t)
      PROVE  TypeOK' /\ WellLocated' /\ MutualExclusion'
  BY <1>1 DEF Acquire, Threads
<1>2. ASSUME NEW t \in Threads, SpuriousWakeup(t)
      PROVE  TypeOK' /\ WellLocated' /\ MutualExclusion'
  BY <1>2 DEF SpuriousWakeup
<1>3. ASSUME NEW h \in Handlers, NEW req \in RequestsOf[h], CallEnqueue(h, req)
      PROVE  TypeOK' /\ WellLocated' /\ MutualExclusion'
  BY <1>3 DEF CallEnqueue
<1>4. ASSUME NEW h \in Handlers, EnqueueWait(h)
      PROVE  TypeOK' /\ WellLocated' /\ MutualExclusion'
  BY <1>4 DEF EnqueueWait
<1>5. ASSUME NEW h \in Handlers, EnqueueInsert(h)
      PROVE  TypeOK' /\ WellLocated' /\ MutualExclusion'
  <2>1. rear' \in Slots /\ count' \in 0 .. MAX_QUEUE_SIZE
    BY <1>5 DEF EnqueueInsert, Slots
  <2>2. queue' \in [Slots -> Requests \union {NoRequest}]
    BY <1>5, <2>1 DEF EnqueueInsert
  <2>3. not_empty' \subseteq not_empty
    BY <1>5 DEF EnqueueInsert, Signal
  <2> QED
    BY <1>5, <2>1, <2>2, <2>3 DEF EnqueueInsert
<1>6. ASSUME NEW h \in Handlers, UpdateClientInfo(h)
      PROVE  TypeOK' /\ WellLocated' /\ MutualExclusion'
  BY <1>6 DEF UpdateClientInfo
<1>7. CASE CallDequeue
  BY <1>7 DEF CallDequeue
<1>8. CASE DequeueWait
  BY <1>8 DEF DequeueWait
<1>9. CASE DequeueTake
  <2>1. front' \in Slots /\ count' \in 0 .. MAX_QUEUE_SIZE
    BY <1>9 DEF DequeueTake, Slots
  <2>2. not_full' \subseteq not_full
    BY <1>9 DEF DequeueTake, Signal
  <2> QED
    BY <1>9, <2>1, <2>2 DEF DequeueTake
<1>10. CASE AdminQueueStatus
  BY <1>10 DEF AdminQueueStatus
<1>11. CASE AdminGetClients
  BY <1>11 DEF AdminGetClients
<1>12. CASE AdminReadCount
  BY <1>12 DEF AdminReadCount
<1>13. CASE UNCHANGED vars
  BY <1>13 DEF vars
<1> QED
  BY <1>1, <1>2, <1>3, <1>4, <1>5, <1>6, <1>7, <1>8, <1>9, <1>10, <1>11,
     <1>12, <1>13 DEF Next

(* Every step keeps front, rear and count in agreement: an insertion moves  *)
(* rear and count together, a removal front and count.                      *)
LEMMA NextRing ==
  TypeOK /\ RingCoherent /\ [Next]_vars => RingCoherent'
<1> SUFFICES ASSUME TypeOK, RingCoherent, [Next]_vars
             PROVE  RingCoherent'
  OBVIOUS
<1>1. MAX_QUEUE_SIZE \in Nat \ {0} /\ front \in 0 .. MAX_QUEUE_SIZE - 1
      /\ count \in 0 .. MAX_QUEUE_SIZE
  BY Constants DEF TypeOK, Slots
<1>2. (rear + 1) % MAX_QUEUE_SIZE
        = IF front + count < MAX_QUEUE_SIZE THEN front + count
          ELSE front + count - MAX_QUEUE_SIZE
  <2>1. (front + count) % MAX_QUEUE_SIZE
          = IF front + count < MAX_QUEUE_SIZE THEN front + count
            ELSE front + count - MAX_QUEUE_SIZE
    BY <1>1, ModSum
  <2> QED
    BY <2>1, Zenon DEF RingCoherent
<1>3. ASSUME NEW h \in Handlers, EnqueueInsert(h)
      PROVE  RingCoherent'
  <2>1. rear' = (rear + 1) % MAX_QUEUE_SIZE /\ front' = front
        /\ count' = count + 1 /\ count < MAX_QUEUE_SIZE
    BY <1>3 DEF EnqueueInsert
  <2>2. rear' = IF front + count < MAX_QUEUE_SIZE THEN front + count
                ELSE front + count - MAX_QUEUE_SIZE
    BY <1>2, <2>1, Zenon
  <2>3. /\ rear' \in 0 .. MAX_QUEUE_SIZE - 1
        /\ front' \in 0 .. MAX_QUEUE_SIZE - 1
        /\ count' \in 0 .. MAX_QUEUE_SIZE
        /\ 1 \in 0 .. MAX_QUEUE_SIZE
    BY <1>1, <2>1, <2>2
  <2>4. (rear' + 1) % MAX_QUEUE_SIZE
          = IF rear' + 1 < MAX_QUEUE_SIZE THEN rear' + 1
            ELSE rear' + 1 - MAX_QUEUE_SIZE
    BY <1>1, <2>3, ModSum
  <2>5. (front' + count') % MAX_QUEUE_SIZE
          = IF front' + count' < MAX_QUEUE_SIZE THEN front' + count'
            ELSE front' + count' - MAX_QUEUE_SIZE
    BY <1>1, <2>3, ModSum
  <2>6. (rear' + 1) % MAX_QUEUE_SIZE = (front' + count') % MAX_QUEUE_SIZE
    BY <1>1, <2>1, <2>2, <2>4, <2>5
  <2> QED
    BY <2>6 DEF RingCoherent
<1>4. CASE DequeueTake
  <2>1. front' = (front + 1) % MAX_QUEUE_SIZE /\ rear' = rear
        /\ count' = count - 1 /\ count > 0
    BY <1>4 DEF DequeueTake
  <2>2. (front + 1) % MAX_QUEUE_SIZE
          = IF front + 1 < MAX_QUEUE_SIZE THEN front + 1
            ELSE front + 1 - MAX_QUEUE_SIZE
    <3>1. 1 \in 0 .. MAX_QUEUE_SIZE
      BY <1>1
    <3> QED
      BY <1>1, <3>1, ModSum
  <2>3. front' = IF front + 1 < MAX_QUEUE_SIZE THEN front + 1
                 ELSE front + 1 - MAX_QUEUE_SIZE
    BY <2>1, <2>2, Zenon
  <2>4. /\ front' \in 0 .. MAX_QUEUE_SIZE - 1
        /\ count' \in 0 .. MAX_QUEUE_SIZE
    BY <1>1, <2>1, <2>3
  <2>5. (front' + count') % MAX_QUEUE_SIZE
          = IF front' + count' < MAX_QUEUE_SIZE THEN front' + count'
            ELSE front' + count' - MAX_QUEUE_SIZE
    BY <1>1, <2>4, ModSum
  <2>6. (rear' + 1) % MAX_QUEUE_SIZE = (front' + count') % MAX_QUEUE_SIZE
    BY <1>1, <1>2, <2>1, <2>3, <2>5
  <2> QED
    BY <2>6 DEF RingCoherent
<1>5. CASE UNCHANGED <<front, rear, count>>
  BY <1>5 DEF RingCoherent
<1> QED
  BY <1>3, <1>4, <1>5
  DEF Next, vars, Acquire, SpuriousWakeup, CallEnqueue, EnqueueWait,
      UpdateClientInfo, CallDequeue, DequeueWait, AdminQueueStatus,
      AdminGetClients, AdminReadCount

-----------------------------------------------------------------------------
(* No step loses a wakeup.                                                  *)
LEMMA NextNoLostWakeup ==
  TypeOK /\ WellLocated /\ MutualExclusion /\ NoLostWakeup /\ [Next]_vars
    => NoLostWakeup'
<1> SUFFICES ASSUME TypeOK, WellLocated, MutualExclusion, NoLostWakeup, [Next]_vars
             PROVE  NoLostWakeup'
  OBVIOUS
<1>1. TypeOK' /\ MutualExclusion'
  BY NextTypes
<1>2. count \in Nat /\ count' \in Nat /\ MAX_QUEUE_SIZE \in Nat
  BY <1>1, Constants DEF TypeOK
<1>3. /\ IsFiniteSet(Retrying) /\ Cardinality(Retrying) \in Nat
      /\ IsFiniteSet(Retrying') /\ Cardinality(Retrying') \in Nat
  <2>1. Retrying' \subseteq Handlers
    BY DEF Retrying
  <2> QED
    BY <2>1, RetryingFinite, Constants, FS_Subset, FS_CardinalityType
(* Steps after which no fewer handlers retry, no more sleep, and the queue  *)
(* is as full.                                                              *)
<1>4. ASSUME Retrying \subseteq Retrying', not_full' \subseteq not_full,
             not_empty' \subseteq not_empty, count' = count
      PROVE  NoLostWakeup'
  <2>1. Cardinality(Retrying) <= Cardinality(Retrying')
    BY <1>3, <1>4, FS_Subset
  <2> QED
    BY <1>2, <1>3, <1>4, <2>1 DEF NoLostWakeup
<1>5. ASSUME NEW t \in Threads, Acquire(t)
      PROVE  NoLostWakeup'
  <2>1. Retrying \subseteq Retrying'
    BY <1>5 DEF Acquire, Goto, Retrying, TypeOK
  <2> QED
    BY <1>4, <1>5, <2>1 DEF Acquire
<1>6. ASSUME NEW t \in Threads, SpuriousWakeup(t)
      PROVE  NoLostWakeup'
  <2>1. Retrying \subseteq Retrying'
    BY <1>6 DEF SpuriousWakeup, Retrying
  <2> QED
    BY <1>4, <1>6, <2>1 DEF SpuriousWakeup
<1>7. ASSUME NEW h \in Handlers, NEW req \in RequestsOf[h], CallEnqueue(h, req)
      PROVE  NoLostWakeup'
  <2>1. Retrying \subseteq Retrying'
    BY <1>7 DEF CallEnqueue, Goto, Retrying, TypeOK
  <2> QED
    BY <1>4, <1>7, <2>1 DEF CallEnqueue
(* A handler goes to sleep on a full queue only. *)
<1>8. ASSUME NEW h \in Handlers, EnqueueWait(h)
      PROVE  NoLostWakeup'
  BY <1>2, <1>3, <1>8 DEF EnqueueWait, NoLostWakeup
(* A handler that stops retrying has filled a slot. *)
<1>9. ASSUME NEW h \in Handlers, EnqueueInsert(h)
      PROVE  NoLostWakeup'
  <2>1. not_empty' = {}
    BY <1>9 DEF EnqueueInsert, Signal, TypeOK
  <2>2. h \in Retrying /\ Retrying' = Retrying \ {h}
    BY <1>9, Constants DEF EnqueueInsert, Goto, Retrying, TypeOK
  <2>3. Cardinality(Retrying') = Cardinality(Retrying) - 1
    BY <1>3, <2>2, FS_RemoveElement
  <2>4. count' = count + 1 /\ not_full' = not_full
    BY <1>9 DEF EnqueueInsert
  <2> QED
    BY <1>2, <1>3, <2>1, <2>3, <2>4 DEF NoLostWakeup
<1>10. ASSUME NEW h \in Handlers, UpdateClientInfo(h)
       PROVE  NoLostWakeup'
  <2>1. Retrying \subseteq Retrying'
    BY <1>10 DEF UpdateClientInfo, Goto, Retrying, TypeOK
  <2> QED
    BY <1>4, <1>10, <2>1 DEF UpdateClientInfo
<1>11. CASE CallDequeue
  <2>1. Retrying \subseteq Retrying'
    BY <1>11, Constants DEF CallDequeue, Goto, Retrying, TypeOK
  <2> QED
    BY <1>4, <1>11, <2>1 DEF CallDequeue
(* The processing thread goes to sleep on an empty queue only. *)
<1>12. CASE DequeueWait
  <2>1. Retrying' = Retrying
    BY <1>12, Constants DEF DequeueWait, Goto, Retrying, TypeOK
  <2>2. count = 0 /\ count' = count /\ not_full' = not_full
    BY <1>2, <1>12 DEF DequeueWait
  <2> QED
    BY <2>1, <2>2 DEF NoLostWakeup
(* A freed slot comes with a handler that is woken for it. *)
<1>13. CASE DequeueTake
  <2>1. count' = count - 1 /\ not_empty' = not_empty /\ count > 0
    BY <1>13 DEF DequeueTake
  <2>2. Worker \notin not_empty'
    BY <1>2, <2>1 DEF NoLostWakeup
  <2>3. CASE not_full = {}
    <3>1. not_full' = {}
      BY <1>13, <2>3 DEF DequeueTake, Signal
    <3> QED
      BY <2>2, <3>1 DEF NoLostWakeup
  <2>4. CASE not_full # {}
    <3>1. PICK h \in not_full : not_full' = not_full \ {h}
      BY <1>13, <2>4 DEF DequeueTake, Signal
    <3>2. h \in Handlers /\ pc[h] = "wait" /\ h # Worker
      BY <3>1, Constants DEF TypeOK, WellLocated
    <3>3. h \notin Retrying /\ Retrying' = Retrying \union {h}
      BY <1>13, <3>1, <3>2, Constants DEF DequeueTake, Goto, Retrying, TypeOK
    <3>4. Cardinality(Retrying') = Cardinality(Retrying) + 1
      BY <1>3, <3>3, FS_AddElement
    <3> QED
      BY <1>2, <1>3, <2>1, <2>2, <2>4, <3>4 DEF NoLostWakeup
  <2> QED
    BY <2>3, <2>4
<1>14. CASE AdminQueueStatus \/ AdminGetClients \/ AdminReadCount
  <2>1. Retrying \subseteq Retrying'
    BY <1>14, Constants
    DEF AdminQueueStatus, AdminGetClients, AdminReadCount, Goto, Retrying, TypeOK
  <2> QED
    BY <1>4, <1>14, <2>1 DEF AdminQueueStatus, AdminGetClients, AdminReadCount
<1>15. CASE UNCHANGED vars
  BY <1>4, <1>15 DEF vars, Retrying
<1> QED
  BY <1>5, <1>6, <1>7, <1>8, <1>9, <1>10, <1>11, <1>12, <1>13, <1>14, <1>15
  DEF Next

-----------------------------------------------------------------------------
LEMMA NextInv == IInv /\ [Next]_vars => IInv'
BY NextTypes, NextRing, NextNoLostWakeup DEF IInv

LEMMA Inductive == Spec => []IInv
BY InitInv, NextInv, PTL DEF Spec

(* The fields of the queue, the mutexes and the threads keep their types:   *)
(* count never leaves 0 .. MAX_QUEUE_SIZE and front and rear never leave    *)
(* the ring (init_queue, enqueue, dequeue).                                 *)
THEOREM TypeCorrect == Spec => []TypeOK
<1>1. IInv => TypeOK
  BY DEF IInv
<1> QED
  BY <1>1, Inductive, PTL

(* One pthread_cond_signal for each insertion and each removal is enough:   *)
(* no thread sleeps through the condition it waits for (enqueue, dequeue).  *)
THEOREM NoWakeupIsLost == Spec => []NoLostWakeup
<1>1. IInv => NoLostWakeup
  BY DEF IInv
<1> QED
  BY <1>1, Inductive, PTL

-----------------------------------------------------------------------------
(* The contents of the ring are a sequence of count requests. *)
LEMMA QueuedSeq ==
  ASSUME TypeOK
  PROVE  /\ Queued \in Seq(Requests \union {NoRequest})
         /\ Len(Queued) = count
         /\ \A i \in 1 .. count : Slot(i) \in Slots /\ Queued[i] = queue[Slot(i)]
<1>1. MAX_QUEUE_SIZE \in Nat \ {0} /\ front \in 0 .. MAX_QUEUE_SIZE - 1
      /\ count \in 0 .. MAX_QUEUE_SIZE
  BY Constants DEF TypeOK, Slots
<1>2. \A i \in 1 .. count : Slot(i) \in Slots
  BY <1>1 DEF Slot, Slots
<1>3. \A i \in 1 .. count : queue[Slot(i)] \in Requests \union {NoRequest}
  BY <1>2 DEF TypeOK
<1>4. Queued \in [1 .. count -> Requests \union {NoRequest}]
  BY <1>3 DEF Queued
<1> QED
  BY <1>1, <1>2, <1>4 DEF Queued

(* A step that leaves the ring alone leaves its contents alone. *)
LEMMA SameQueued ==
  ASSUME UNCHANGED <<queue, front, count>>
  PROVE  Queued' = Queued
BY DEF Queued, Slot

(* enqueue puts its request behind the queued ones. *)
LEMMA InsertAppends ==
  ASSUME TypeOK, RingCoherent, NEW h \in Handlers, EnqueueInsert(h), TypeOK'
  PROVE  Len(Queued) < MAX_QUEUE_SIZE /\ Queued' = Append(Queued, proc_req[h])
<1>1. MAX_QUEUE_SIZE \in Nat \ {0} /\ front \in 0 .. MAX_QUEUE_SIZE - 1
      /\ count \in 0 .. MAX_QUEUE_SIZE
  BY Constants DEF TypeOK, Slots
<1>2. rear' = (rear + 1) % MAX_QUEUE_SIZE /\ front' = front /\ count' = count + 1
      /\ count < MAX_QUEUE_SIZE /\ queue' = [queue EXCEPT ![rear'] = proc_req[h]]
  BY DEF EnqueueInsert
<1>3. rear' = Slot(count + 1)
  <2>1. (front + count) % MAX_QUEUE_SIZE
          = IF front + count < MAX_QUEUE_SIZE THEN front + count
            ELSE front + count - MAX_QUEUE_SIZE
    BY <1>1, ModSum
  <2>2. rear' = IF front + count < MAX_QUEUE_SIZE THEN front + count
                ELSE front + count - MAX_QUEUE_SIZE
    BY <1>2, <2>1, Zenon DEF RingCoherent
  <2> QED
    BY <1>1, <2>2 DEF Slot
<1>4. \A i \in 1 .. count + 1 : Slot(i)' = Slot(i)
  BY <1>2 DEF Slot
<1>5. \A i \in 1 .. count : Slot(i) # Slot(count + 1)
  BY <1>1, <1>2 DEF Slot
<1>6. \A i \in 1 .. count : Queued'[i] = Queued[i]
  <2>1. SUFFICES ASSUME NEW i \in 1 .. count
                 PROVE  Queued'[i] = Queued[i]
    OBVIOUS
  <2>2. Queued'[i] = queue'[Slot(i)]
    BY <1>1, <1>2, <1>4 DEF Queued
  <2>3. queue'[Slot(i)] = queue[Slot(i)]
    BY <1>2, <1>3, <1>5, QueuedSeq DEF TypeOK
  <2> QED
    BY <2>2, <2>3, QueuedSeq
<1>7. Queued'[count + 1] = proc_req[h]
  <2>1. Queued'[count + 1] = queue'[rear']
    BY <1>1, <1>2, <1>3, <1>4 DEF Queued
  <2>2. rear' \in Slots
    BY <1>1, <1>2, <1>3 DEF Slot, Slots
  <2> QED
    BY <1>2, <2>1, <2>2 DEF TypeOK
<1>8. Queued' \in Seq(Requests \union {NoRequest}) /\ Len(Queued') = count + 1
  <2>1. (TypeOK => Queued \in Seq(Requests \union {NoRequest}) /\ Len(Queued) = count)'
    BY QueuedSeq, PTL
  <2> QED
    BY <1>2, <2>1
<1>9. proc_req[h] \in Requests \union {NoRequest}
  BY DEF TypeOK
<1> QED
  BY <1>1, <1>2, <1>6, <1>7, <1>8, <1>9, QueuedSeq

(* dequeue takes the oldest of the queued requests. *)
LEMMA TakeRemoves ==
  ASSUME TypeOK, DequeueTake
  PROVE  Queued # <<>> /\ request' = Head(Queued) /\ Queued' = Tail(Queued)
<1>1. MAX_QUEUE_SIZE \in Nat \ {0} /\ front \in 0 .. MAX_QUEUE_SIZE - 1
      /\ count \in 0 .. MAX_QUEUE_SIZE
  BY Constants DEF TypeOK, Slots
<1>2. request' = queue[front] /\ front' = (front + 1) % MAX_QUEUE_SIZE
      /\ count' = count - 1 /\ count > 0 /\ queue' = queue
  BY DEF DequeueTake
<1>3. front' = IF front + 1 < MAX_QUEUE_SIZE THEN front + 1
               ELSE front + 1 - MAX_QUEUE_SIZE
  <2>1. 1 \in 0 .. MAX_QUEUE_SIZE
    BY <1>1
  <2>2. (front + 1) % MAX_QUEUE_SIZE
          = IF front + 1 < MAX_QUEUE_SIZE THEN front + 1
            ELSE front + 1 - MAX_QUEUE_SIZE
    BY <1>1, <2>1, ModSum
  <2> QED
    BY <1>2, <2>2, Zenon
<1>4. Queued # <<>> /\ Head(Queued) = Queued[1] /\ Tail(Queued) \in Seq(Requests \union {NoRequest})
      /\ Len(Tail(Queued)) = count - 1
      /\ \A i \in 1 .. count - 1 : Tail(Queued)[i] = Queued[i + 1]
  BY <1>1, <1>2, QueuedSeq
<1>5. Queued[1] = queue[front]
  <2>1. Slot(1) = front
    BY <1>1 DEF Slot
  <2> QED
    BY <1>1, <1>2, <2>1, QueuedSeq
<1>6. \A i \in 1 .. count - 1 : Slot(i)' = Slot(i + 1)
  BY <1>1, <1>3 DEF Slot
<1>7. Queued' = [i \in 1 .. count - 1 |-> queue[Slot(i + 1)]]
  BY <1>2, <1>6 DEF Queued
<1>8. Queued' = [i \in 1 .. count - 1 |-> Tail(Queued)[i]]
  BY <1>1, <1>2, <1>4, <1>7, QueuedSeq
<1>9. Tail(Queued) = [i \in 1 .. count - 1 |-> Tail(Queued)[i]]
  BY <1>4, LenProperties
<1> QED
  BY <1>2, <1>4, <1>5, <1>8, <1>9

(* The ring with its mutex and condition variables implements a bounded     *)
(* FIFO channel (enqueue, dequeue): whatever the interleaving, the          *)
(* processing thread gets the enqueued requests once each, in their order,  *)
(* and never more than MAX_QUEUE_SIZE of them wait.                         *)
THEOREM QueueIsFifo == Spec => ImplementsFifo
<1>1. Init => Fifo!Init
  <2> SUFFICES ASSUME Init PROVE Fifo!Init
    OBVIOUS
  <2>1. Queued = [i \in 1 .. 0 |-> queue[Slot(i)]]
    BY DEF Init, Queued
  <2>2. Queued = <<>>
    BY <2>1
  <2> QED
    BY <2>2 DEF Init, Fifo!Init
<1>2. IInv /\ IInv' /\ [Next]_vars => [Fifo!Next]_<<Queued, request>>
  <2> SUFFICES ASSUME IInv, IInv', [Next]_vars
               PROVE  Fifo!Next \/ UNCHANGED <<Queued, request>>
    OBVIOUS
  <2>1. TypeOK /\ RingCoherent /\ TypeOK'
    BY DEF IInv
  <2>2. ASSUME NEW h \in Handlers, EnqueueInsert(h)
        PROVE  Fifo!Next
    <3>1. Fifo!Put(proc_req[h])
      BY <2>1, <2>2, InsertAppends DEF Fifo!Put
    <3>2. proc_req[h] \in Requests \union {NoRequest} /\ request' = request
      BY <2>1, <2>2 DEF TypeOK, EnqueueInsert
    <3> QED
      BY <3>1, <3>2 DEF Fifo!Next
  <2>3. CASE DequeueTake
    BY <2>1, <2>3, TakeRemoves DEF Fifo!Next, Fifo!Get
  <2>4. CASE UNCHANGED <<queue, front, count, request>>
    BY <2>4, SameQueued
  <2> QED
    BY <2>2, <2>3, <2>4
    DEF Next, vars, Acquire, SpuriousWakeup, CallEnqueue, EnqueueWait,
        UpdateClientInfo, CallDequeue, DequeueWait, AdminQueueStatus,
        AdminGetClients, AdminReadCount
<1> QED
  BY <1>1, <1>2, Inductive, PTL
  DEF Spec, ImplementsFifo, Fifo!Spec, Fifo!fifoVars
=============================================================================
