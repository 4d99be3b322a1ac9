---------------------------- MODULE BoundedFifo ----------------------------
(***************************************************************************)
(* What a queue of thread ids promises its callers: elements leave in the  *)
(* order they entered, a push onto a full queue is refused and changes     *)
(* nothing, a pop from an empty queue answers Nothing.                     *)
(***************************************************************************)
EXTENDS Naturals, Sequences

CONSTANTS Elements,   \* what is queued
          Capacity,   \* how many fit
          Nothing     \* the answer of a pop that finds the queue empty

VARIABLES items,      \* the queue, oldest element first
          accepted,   \* the answer of the last push
          popped      \* the answer of the last pop

vars == <<items, accepted, popped>>

Init == /\ items = <<>>
        /\ accepted = TRUE
        /\ popped = Nothing

Push(e) == /\ IF Len(items) < Capacity
              THEN items' = Append(items, e) /\ accepted' = TRUE
              ELSE items' = items /\ accepted' = FALSE
           /\ popped' = popped

Pop == /\ IF items = <<>>
          THEN items' = items /\ popped' = Nothing
          ELSE items' = Tail(items) /\ popped' = Head(items)
       /\ accepted' = accepted

Next == Pop \/ \E e \in Elements : Push(e)

Spec == Init /\ [][Next]_vars
=============================================================================
