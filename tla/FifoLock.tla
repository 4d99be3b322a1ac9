------------------------------ MODULE FifoLock ------------------------------
(***************************************************************************)
(* What a kernel mutex promises: one holder at a time, waiters served in   *)
(* the order they came, the lock never free while somebody waits.          *)
(***************************************************************************)
EXTENDS Naturals, Sequences

CONSTANTS Clients, NoOne

VARIABLES holder, waiters

vars == <<holder, waiters>>

Waits(c) == \E i \in 1 .. Len(waiters) : waiters[i] = c

Init == holder = NoOne /\ waiters = <<>>

Lock(c) == /\ c # holder /\ ~Waits(c)
           /\ IF holder = NoOne
              THEN holder' = c /\ waiters' = waiters
              ELSE holder' = holder /\ waiters' = Append(waiters, c)

Unlock == /\ holder # NoOne
          /\ IF waiters = <<>>
             THEN holder' = NoOne /\ waiters' = waiters
             ELSE holder' = Head(waiters) /\ waiters' = Tail(waiters)

\* The holder gives way to those who wait and queues behind them.
GiveWay == /\ waiters # <<>>
           /\ holder' = Head(waiters)
           /\ waiters' = Append(Tail(waiters), holder)

Next == Unlock \/ GiveWay \/ \E c \in Clients : Lock(c)

Spec == Init /\ [][Next]_vars
=============================================================================
