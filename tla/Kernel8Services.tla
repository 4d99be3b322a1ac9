-------------------------- MODULE Kernel8Services --------------------------
(***************************************************************************)
(* What the ch8 kernel gives its programs: locks and semaphores as their   *)
(* abstract specifications promise them, and progress.                     *)
(***************************************************************************)
EXTENDS Kernel8

Mutexes    == {q \in Objs : q[1] = "mutex"}
Semaphores == {q \in Objs : q[1] = "semaphore"}

-----------------------------------------------------------------------------
\* The holder of a mutex: the thread granted it, if there is one.
holder_of(q) == IF holders[q] = {} THEN TID_INVALID ELSE CHOOSE t \in holders[q] : TRUE

Lock(q) == INSTANCE FifoLock WITH Clients <- Tids,
                                  NoOne   <- TID_INVALID,
                                  holder  <- holder_of(q),
                                  waiters <- wait_queue[q]

\* (Lock(q)!Spec for every q; TLC takes the quantifier inside the box.)
\* sync.c, mutexes, through the scheduler: each is a FIFO lock.  Programs
\* release only what they hold and do not lock what they hold.
MutexIsFifoLock == /\ \A q \in Mutexes : Lock(q)!Init
                   /\ [][\A q \in Mutexes : [Lock(q)!Next]_(Lock(q)!vars)]_vars

Sem(q) == INSTANCE CountingSemaphore WITH Clients <- Tids,
                                          exists  <- q \in objects,
                                          permits <- count[q] + Len(wait_queue[q]),
                                          waiters <- wait_queue[q]

\* sync.c, semaphores, through the scheduler: each is a FIFO counting
\* semaphore, whatever programs do and whoever is killed.
SemaphoreIsFifo == /\ \A q \in Semaphores : Sem(q)!Init
                   /\ [][\A q \in Semaphores : [Sem(q)!Next]_(Sem(q)!vars)]_vars

-----------------------------------------------------------------------------
(***************************************************************************)
(* Progress.  main's loop never stops while a thread is ready: WF_vars(Next). *)
(* What more is assumed is about the programs, and named here.             *)
(***************************************************************************)
LoopSpec == Spec /\ WF_vars(Next)

\* ready_enqueue, ready_dequeue, main: every ready thread gets its turn.
EveryReadyThreadRuns ==
    \A t \in Tids : Occurs(t, ready) ~> (ready # <<>> /\ Head(ready) = t)

\* Programs that release every mutex they hold, sooner or later.
ReleasingSpec == LoopSpec /\ \A t \in Tids, i \in Slots : SF_vars(MutexUnlock(t, i))

\* mutex_lock, mutex_unlock, condvar_wait_with_mutex: who waits gets the lock,
\* unless its holder exits or blocks elsewhere for good and never releases it.
MutexWaiterGetsLock ==
    \A t \in Tids, q \in Mutexes :
        \/ Occurs(t, wait_queue[q]) ~> t \in holders[q]
        \/ <>[](\A h \in holders[q] : ~Occurs(h, ready))

\* Programs whose threads exit, sooner or later.
ExitingSpec == LoopSpec /\ \A t \in Tids : SF_vars(\E code \in ExitCodes : Exit(t, code))

\* do_waitpid, SYS_EXIT: a thread in waitpid with a live child it waits for
\* does not stay there.
WaiterIsWoken ==
    \A p \in Pids :
        (Waiting(p) /\ \E c \in Found(p, waiting_for[p]) : threads[c] # {}) ~> ~Waiting(p)
=============================================================================
