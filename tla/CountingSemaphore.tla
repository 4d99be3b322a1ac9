------------------------- MODULE CountingSemaphore -------------------------
(***************************************************************************)
(* What a kernel semaphore promises: permits are never negative, a client  *)
(* waits only when there is none, and a released permit goes to the client *)
(* that has waited longest.                                                *)
(***************************************************************************)
EXTENDS Naturals, Sequences

CONSTANTS Clients

VARIABLES exists, permits, waiters

vars == <<exists, permits, waiters>>

Waits(c) == \E i \in 1 .. Len(waiters) : waiters[i] = c

Init == exists = FALSE /\ permits = 0 /\ waiters = <<>>

Create(n) == /\ ~exists /\ exists' = TRUE
             /\ permits' = n
             /\ waiters' = waiters

Down(c) == /\ exists /\ ~Waits(c)
           /\ IF permits > 0
              THEN permits' = permits - 1 /\ waiters' = waiters
              ELSE permits' = permits /\ waiters' = Append(waiters, c)
           /\ exists' = exists

Up == /\ exists
      /\ IF waiters = <<>>
         THEN permits' = permits + 1 /\ waiters' = waiters
         ELSE permits' = permits /\ waiters' = Tail(waiters)
      /\ exists' = exists

Next == \/ \E c \in Clients : Down(c)
        \/ Up
        \/ ~exists /\ permits' \in Nat /\ Create(permits')

Spec == Init /\ [][Next]_vars
=============================================================================
