----------------------------- MODULE TurnQueue ------------------------------
(***************************************************************************)
(* What a kernel promises to the programs it was built with: they take     *)
(* turns in a fixed order.  The one at the head has the processor; it goes *)
(* to the back, where the kernel shares the processor out, or leaves.      *)
(***************************************************************************)
EXTENDS Sequences

VARIABLES queue,
          shares     \* whether a program can lose its turn without ending

vars == <<queue, shares>>

Rotate == shares /\ queue # <<>> /\ queue' = Append(Tail(queue), Head(queue))

Leave == queue # <<>> /\ queue' = Tail(queue)

Next == (Rotate \/ Leave) /\ UNCHANGED shares
=============================================================================
