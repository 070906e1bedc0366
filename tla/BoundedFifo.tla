---------------------------- MODULE BoundedFifo ----------------------------
(***************************************************************************)
(* What the request queue of the NLP server promises to the threads that   *)
(* use it (server.c, enqueue and dequeue): a FIFO channel of bounded       *)
(* capacity.  Put is what one call of enqueue does in the end, Get what    *)
(* one call of dequeue does; the ring, the mutex and the condition         *)
(* variables that achieve it are in RequestQueue, which implements this    *)
(* specification.  Server is composed with this one.                       *)
(***************************************************************************)
EXTENDS Naturals, Sequences

CONSTANTS
  Items,      \* what can be queued: the ProcessingRequest values
  NoItem,     \* the consumer's request variable before the first Get
  Capacity    \* how many requests the queue holds at most

VARIABLES
  items,      \* the queued requests, the oldest first
  current     \* the request the last Get returned

fifoVars == <<items, current>>

Init ==
  /\ items = <<>>
  /\ current = NoItem

Put(item) ==
  /\ Len(items) < Capacity
  /\ items' = Append(items, item)

Get ==
  /\ items # <<>>
  /\ current' = Head(items)
  /\ items' = Tail(items)

Next ==
  \/ \E item \in Items : Put(item) /\ UNCHANGED current
  \/ Get

Spec == Init /\ [][Next]_fifoVars
=============================================================================
