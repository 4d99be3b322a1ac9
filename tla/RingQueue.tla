----------------------------- MODULE RingQueue -----------------------------
(***************************************************************************)
(* The ring buffer of thread ids of sync/sync.h (wait_queue_t), which is   *)
(* also, line for line, the ready queue of ch8/main.c (ready_enqueue,      *)
(* ready_dequeue): an array, the index of the oldest element, the index    *)
(* of the next free slot and a count.  The array is never initialised      *)
(* (a wait queue lives in memory from heap_alloc), so its contents are     *)
(* arbitrary at Init.                                                      *)
(***************************************************************************)
EXTENDS Integers, Sequences

CONSTANTS Tids,             \* the thread ids that are queued
          TID_INVALID,      \* "no thread"
          WAIT_QUEUE_SIZE   \* slots of the ring

ASSUME RingAssumption == /\ WAIT_QUEUE_SIZE \in Nat \ {0}
                         /\ TID_INVALID \notin Tids

VARIABLES queue, head, tail, count,
          accepted,         \* what the last wq_push returned
          popped            \* what the last wq_pop returned

vars == <<queue, head, tail, count, accepted, popped>>

Slots == 0 .. WAIT_QUEUE_SIZE - 1

TypeOK == /\ queue \in [Slots -> Tids]
          /\ head \in Slots
          /\ tail \in Slots
          /\ count \in 0 .. WAIT_QUEUE_SIZE
          /\ accepted \in BOOLEAN
          /\ popped \in Tids \cup {TID_INVALID}

-----------------------------------------------------------------------------
wq_init == /\ queue \in [Slots -> Tids]
           /\ head = 0
           /\ tail = 0
           /\ count = 0

Init == /\ wq_init
        /\ accepted = TRUE
        /\ popped = TID_INVALID

next_slot(i) == (i + 1) % WAIT_QUEUE_SIZE

wq_push(tid) ==
    /\ IF count >= WAIT_QUEUE_SIZE
       THEN accepted' = FALSE /\ UNCHANGED <<queue, tail, count>>
       ELSE /\ queue' = [queue EXCEPT ![tail] = tid]
            /\ tail' = next_slot(tail)
            /\ count' = count + 1
            /\ accepted' = TRUE
    /\ UNCHANGED <<head, popped>>

\* Mutant: a pop that takes the newest element instead of the oldest.
wq_pop_newest ==
    /\ IF count = 0
       THEN popped' = TID_INVALID /\ UNCHANGED <<tail, count>>
       ELSE /\ tail' = (tail + WAIT_QUEUE_SIZE - 1) % WAIT_QUEUE_SIZE
            /\ popped' = queue[(tail + WAIT_QUEUE_SIZE - 1) % WAIT_QUEUE_SIZE]
            /\ count' = count - 1
    /\ UNCHANGED <<queue, head, accepted>>

wq_pop ==
    /\ IF count = 0
       THEN popped' = TID_INVALID /\ UNCHANGED <<head, count>>
       ELSE /\ popped' = queue[head]
            /\ head' = next_slot(head)
            /\ count' = count - 1
    /\ UNCHANGED <<queue, tail, accepted>>

Next == wq_pop \/ \E tid \in Tids : wq_push(tid)

Spec == Init /\ [][Next]_vars

-----------------------------------------------------------------------------
\* The slot of the (i+1)-st oldest element.
slot(i) == (head + i) % WAIT_QUEUE_SIZE

\* The queue the ring represents, oldest element first.
contents == [i \in 1 .. count |-> queue[slot(i - 1)]]

Fifo == INSTANCE BoundedFifo WITH Elements <- Tids,
                                  Capacity <- WAIT_QUEUE_SIZE,
                                  Nothing  <- TID_INVALID,
                                  items    <- contents

\* wq_push, wq_pop (sync.h): whatever the order of calls and however often
\* the indices wrap, the ring is a bounded first-in first-out queue: nothing
\* is lost, invented or reordered, and a refused push changes nothing.
ImplementsFifo == Fifo!Spec

\* The three fields are redundant and must agree: the next free slot is
\* count slots after the oldest element.  (The rings of task-manage have no
\* count and cannot tell the full ring from the empty one.)
IndicesAgree == tail = slot(count)
=============================================================================
