-------------------------------- MODULE Sync --------------------------------
(***************************************************************************)
(* sync/sync.h, sync/sync.c: mutexes, semaphores and condition variables.  *)
(* They never block anybody themselves: an operation that must block puts  *)
(* the thread into the object's wait queue and answers "need block"; one   *)
(* that releases answers the thread to wake.  The scheduler does the rest. *)
(*                                                                         *)
(* A wait queue is the sequence its ring represents (RingQueue).           *)
(***************************************************************************)
EXTENDS Integers, Sequences

CONSTANTS MAX_PROCS,        \* process slots of the kernel
          MAX_THREADS,      \* threads of a process
          MAX_SYNC_OBJS,    \* objects of each kind of a process
          WAIT_QUEUE_SIZE   \* places in a wait queue

ASSUME SizesAssumption == /\ MAX_PROCS \in Nat \ {0}
                          /\ MAX_THREADS \in Nat \ {0}
                          /\ MAX_SYNC_OBJS \in Nat \ {0}
                          /\ WAIT_QUEUE_SIZE \in Nat \ {0}

MAX_TIDS == MAX_PROCS * MAX_THREADS
Tids     == 0 .. MAX_TIDS - 1
Pids     == 0 .. MAX_PROCS - 1
Slots    == 0 .. MAX_SYNC_OBJS - 1

\* (tid_t)-1 and (pid_t)-1
TID_INVALID == -1
PID_INVALID == -1

\* The synchronisation objects: kind, owning process, index in its table.
Kinds == {"mutex", "semaphore", "condvar"}
Objs  == Kinds \X Pids \X Slots
Owner(q) == q[2]

VARIABLES locked,        \* mutex_t.locked
          count,         \* semaphore_t.count
          wait_queue,    \* the wait queue of each object
          holders        \* history: the threads that were granted a mutex
                         \* and have not given it back

sync_vars == <<locked, count, wait_queue, holders>>

SyncTypeOK == /\ locked \in [Objs -> BOOLEAN]
              /\ count \in [Objs -> Int]
              /\ wait_queue \in [Objs -> Seq(Tids)]
              /\ holders \in [Objs -> SUBSET Tids]

SyncInit == /\ locked = [q \in Objs |-> FALSE]
            /\ count = [q \in Objs |-> 0]
            /\ wait_queue = [q \in Objs |-> <<>>]
            /\ holders = [q \in Objs |-> {}]

-----------------------------------------------------------------------------
\* Mutant: the newest waiter is served first.
wq_push_front(w, t) == IF Len(w) < WAIT_QUEUE_SIZE THEN <<t>> \o w ELSE w

\* A push onto a full queue is refused, and no caller looks at the answer.
wq_push(w, t) == IF Len(w) < WAIT_QUEUE_SIZE THEN Append(w, t) ELSE w

wq_popped(w) == IF w = <<>> THEN TID_INVALID ELSE Head(w)
wq_rest(w)   == IF w = <<>> THEN w ELSE Tail(w)

\* The thread an unlock, up or signal of q wakes.
waking(q) == wq_popped(wait_queue[q])

SetOf(t) == IF t = TID_INVALID THEN {} ELSE {t}

-----------------------------------------------------------------------------
sem_init(q, n) == /\ count' = [count EXCEPT ![q] = n]
                  /\ wait_queue' = [wait_queue EXCEPT ![q] = <<>>]
                  /\ UNCHANGED <<locked, holders>>

sem_down_ok(q) == count[q] - 1 >= 0

sem_down(q, t) == /\ count' = [count EXCEPT ![q] = @ - 1]
                  /\ wait_queue' = IF sem_down_ok(q) THEN wait_queue
                                   ELSE [wait_queue EXCEPT ![q] = wq_push(@, t)]
                  /\ UNCHANGED <<locked, holders>>

\* Mutant: a release that wakes a thread does not give the permit back.
sem_up_woken(q) == /\ count' = IF wait_queue[q] = <<>> THEN [count EXCEPT ![q] = @ + 1] ELSE count
                   /\ wait_queue' = [wait_queue EXCEPT ![q] = wq_rest(@)]
                   /\ UNCHANGED <<locked, holders>>

sem_up(q) == /\ count' = [count EXCEPT ![q] = @ + 1]
             /\ wait_queue' = [wait_queue EXCEPT ![q] = wq_rest(@)]
             /\ UNCHANGED <<locked, holders>>

mutex_init(q) == /\ locked' = [locked EXCEPT ![q] = FALSE]
                 /\ wait_queue' = [wait_queue EXCEPT ![q] = <<>>]
                 /\ UNCHANGED <<count, holders>>

mutex_lock_ok(q) == ~locked[q]

mutex_lock(q, t) ==
    /\ IF mutex_lock_ok(q)
       THEN /\ locked' = [locked EXCEPT ![q] = TRUE]
            /\ holders' = [holders EXCEPT ![q] = @ \cup {t}]
            /\ UNCHANGED wait_queue
       ELSE /\ wait_queue' = [wait_queue EXCEPT ![q] = wq_push(@, t)]
            /\ UNCHANGED <<locked, holders>>
    /\ UNCHANGED count

\* Mutant: the mutex is freed although it passes to a waiter.
mutex_unlock_frees(q, t) ==
    /\ wait_queue' = [wait_queue EXCEPT ![q] = wq_rest(@)]
    /\ locked' = [locked EXCEPT ![q] = FALSE]
    /\ holders' = [holders EXCEPT ![q] = (@ \ {t}) \cup SetOf(waking(q))]
    /\ UNCHANGED count

\* With a waiter the mutex stays locked and passes to the oldest one.
mutex_unlock(q, t) ==
    /\ wait_queue' = [wait_queue EXCEPT ![q] = wq_rest(@)]
    /\ locked' = IF waking(q) = TID_INVALID THEN [locked EXCEPT ![q] = FALSE] ELSE locked
    /\ holders' = [holders EXCEPT ![q] = (@ \ {t}) \cup SetOf(waking(q))]
    /\ UNCHANGED count

condvar_init(q) == /\ wait_queue' = [wait_queue EXCEPT ![q] = <<>>]
                   /\ UNCHANGED <<locked, count, holders>>

condvar_signal(q) == /\ wait_queue' = [wait_queue EXCEPT ![q] = wq_rest(@)]
                     /\ UNCHANGED <<locked, count, holders>>

\* mutex_unlock(m), then mutex_lock(m): the condition variable itself is not
\* touched.  Without a waiter the mutex is free in between and t takes it
\* again at once; with one it has passed on and t queues behind the others.
condvar_wait_ok(m) == waking(m) = TID_INVALID \/ ~locked[m]

condvar_wait_with_mutex(m, t) ==
    /\ locked' = [locked EXCEPT ![m] = TRUE]
    /\ wait_queue' = [wait_queue EXCEPT ![m] =
                        IF condvar_wait_ok(m) THEN wq_rest(@) ELSE wq_push(wq_rest(@), t)]
    /\ holders' = [holders EXCEPT ![m] =
                        (@ \ {t}) \cup SetOf(waking(m)) \cup (IF condvar_wait_ok(m) THEN {t} ELSE {})]
    /\ UNCHANGED count
=============================================================================
