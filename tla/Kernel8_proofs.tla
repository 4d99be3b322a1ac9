--------------------------- MODULE Kernel8_proofs ---------------------------
(***************************************************************************)
(* Theorems about the ch8 kernel and about what it gives its programs, for *)
(* every size of its tables and every workload:                            *)
(*   its variables keep their types, a thread is in one place, a parent is *)
(*     woken only when it waits, a mutex has one holder;                   *)
(*   capacity: queues of a process's objects are never full, so a          *)
(*     semaphore's count tells how many threads it holds up, and thread    *)
(*     ids last as long as there is room for a thread;                     *)
(*   exits: a process ends with its last thread and its parent is told     *)
(*     exactly once;                                                       *)
(*   no thread is lost;                                                    *)
(*   every mutex is a FIFO lock and every semaphore a FIFO counting        *)
(*     semaphore (the refinements of Kernel8Services).                     *)
(***************************************************************************)
EXTENDS Kernel8Services, SequenceTheorems, FiniteSetTheorems,
        WellFoundedInduction, TLAPS

-----------------------------------------------------------------------------
(***************************************************************************)
(* Numbers: every set of naturals has a least element, so each CHOOSE of   *)
(* the kernels (first free entry, lowest pid, lowest signal) finds one.    *)
(***************************************************************************)
LEMMA LeastElement ==
    ASSUME NEW S, S \subseteq Nat, S # {}
    PROVE  \E m \in S : \A n \in S : m <= n
<1>1. PICK m \in S : \A n \in S : ~(<<n, m>> \in OpToRel(<, Nat))
  BY NatLessThanWellFounded, WFMin, Zenon
<1>2. \A n \in S : ~(n < m)
  BY <1>1 DEF OpToRel
<1> QED
  BY <1>2

-----------------------------------------------------------------------------
(***************************************************************************)
(* Signal managers stay signal managers.                                   *)
(***************************************************************************)
LEMMA SignalOps ==
    ASSUME NEW sm \in SignalManagers
    PROVE  /\ signal_init \in SignalManagers
           /\ signal_fork(sm) \in SignalManagers
           /\ signal_clear(sm) \in SignalManagers
           /\ signal_return(sm) \in SignalManagers
           /\ \A s \in SignalNumbers : signal_add(sm, s) \in SignalManagers
           /\ \A m \in SUBSET SignalNumbers : signal_update_mask(sm, m) \in SignalManagers
           /\ \A s \in SignalNumbers, installs \in BOOLEAN :
                 signal_set_action(sm, s, installs) \in SignalManagers
<1> USE DEF SignalManagers, HandlingTypes
<1>1. signal_init \in SignalManagers
  BY DEF signal_init
<1>2. signal_fork(sm) \in SignalManagers
  BY DEF signal_fork
<1>3. signal_clear(sm) \in SignalManagers
  BY DEF signal_clear
<1>4. signal_return(sm) \in SignalManagers
  BY DEF signal_return
<1>5. \A s \in SignalNumbers : signal_add(sm, s) \in SignalManagers
  BY DEF signal_add
<1>6. \A m \in SUBSET SignalNumbers : signal_update_mask(sm, m) \in SignalManagers
  BY DEF signal_update_mask
<1>7. \A s \in SignalNumbers, installs \in BOOLEAN :
         signal_set_action(sm, s, installs) \in SignalManagers
  BY DEF signal_set_action
<1> QED
  BY <1>1, <1>2, <1>3, <1>4, <1>5, <1>6, <1>7

\* The result of a delivery: a manager, and an exit code when it kills.
IsResult(r) == r.sm \in SignalManagers /\ r.exit_code \in Int

LEMMA DeliverResult ==
    ASSUME NEW sm \in SignalManagers, NEW s \in Int
    PROVE  IsResult(deliver(s, sm))
<1>1. [sm EXCEPT !.handling = "frozen"] \in SignalManagers
  BY DEF SignalManagers, HandlingTypes
<1>2. [sm EXCEPT !.handling = "user"] \in SignalManagers
  BY DEF SignalManagers, HandlingTypes
<1>3. IsResult(default_action(s, sm))
  BY DEF default_action, Result, IsResult
<1> QED
  BY <1>1, <1>2, <1>3 DEF deliver, Result, IsResult, SIGKILL, SIGSTOP

LEMMA HandleResult ==
    ASSUME NEW sm \in SignalManagers
    PROVE  IsResult(signal_handle(sm))
<1>1. CASE sm.handling = "frozen"
  <2>1. [sm EXCEPT !.received = @ \ {SIGCONT}, !.handling = "none"] \in SignalManagers
    BY DEF SignalManagers, HandlingTypes
  <2> QED
    BY <1>1, <2>1 DEF signal_handle, Result, IsResult
<1>2. CASE sm.handling = "user"
  BY <1>2 DEF signal_handle, Result, IsResult
<1>3. CASE sm.handling = "none" /\ pending(sm) = {}
  BY <1>3 DEF signal_handle, Result, IsResult
<1>4. CASE sm.handling = "none" /\ pending(sm) # {}
  <2> DEFINE s == sigset_find_first(sm)
             rest == [sm EXCEPT !.received = @ \ {s}]
  <2>1. pending(sm) \subseteq Nat
    BY DEF pending, SignalManagers, SignalNumbers, MAX_SIG
  <2>2. s \in Nat
    BY <1>4, <2>1, LeastElement DEF sigset_find_first
  <2>3. rest \in SignalManagers
    BY DEF SignalManagers
  <2>4. signal_handle(sm) = deliver(s, rest)
    BY <1>4 DEF signal_handle
  <2> HIDE DEF s, rest
  <2> QED
    BY <2>2, <2>3, <2>4, DeliverResult
<1> QED
  BY <1>1, <1>2, <1>3, <1>4 DEF SignalManagers, HandlingTypes

-----------------------------------------------------------------------------
(***************************************************************************)
(* The sizes of the tables.                                                *)
(***************************************************************************)
LEMMA Tables == /\ MAX_TIDS \in Nat \ {0}
                /\ 0 \in Tids /\ 0 \in Pids
                /\ Tids \subseteq Nat /\ Pids \subseteq Nat /\ Slots \subseteq Nat
                /\ TID_INVALID \notin Tids /\ PID_INVALID \notin Pids
<1>1. \A a, b \in Nat \ {0} : a * b \in Nat \ {0}
  OBVIOUS
<1>2. MAX_TIDS \in Nat \ {0}
  BY <1>1, SizesAssumption DEF MAX_TIDS
<1> QED
  BY <1>2, SizesAssumption DEF Tids, Pids, Slots, TID_INVALID, PID_INVALID

-----------------------------------------------------------------------------
(***************************************************************************)
(* Sequences without repetition.                                           *)
(***************************************************************************)
LEMMA OccursAppend ==
    ASSUME NEW S, NEW s \in Seq(S), NEW t \in S
    PROVE  /\ Append(s, t) \in Seq(S)
           /\ Len(Append(s, t)) = Len(s) + 1
           /\ \A u : Occurs(u, Append(s, t)) <=> Occurs(u, s) \/ u = t
           /\ Distinct(s) /\ ~Occurs(t, s) => Distinct(Append(s, t))
<1>1. /\ Append(s, t) \in Seq(S)
      /\ Len(Append(s, t)) = Len(s) + 1
      /\ \A i \in 1 .. Len(s) : Append(s, t)[i] = s[i]
      /\ Append(s, t)[Len(s) + 1] = t
  BY AppendProperties
<1>2. Len(s) \in Nat
  OBVIOUS
<1> DEFINE a == Append(s, t)
<1> HIDE DEF a
<1>3. ASSUME NEW u PROVE Occurs(u, a) <=> Occurs(u, s) \/ u = t
  BY <1>1, <1>2 DEF Occurs, a
<1>4. ASSUME Distinct(s), ~Occurs(t, s) PROVE Distinct(a)
  BY <1>1, <1>2, <1>4 DEF Distinct, Occurs, a
<1> QED
  BY <1>1, <1>3, <1>4 DEF a

LEMMA OccursTail ==
    ASSUME NEW S, NEW s \in Seq(S), s # <<>>
    PROVE  /\ Tail(s) \in Seq(S) /\ Len(Tail(s)) = Len(s) - 1
           /\ Head(s) \in S /\ Occurs(Head(s), s)
           /\ \A u : Occurs(u, Tail(s)) => Occurs(u, s)
           /\ Distinct(s) => Distinct(Tail(s)) /\ ~Occurs(Head(s), Tail(s))
<1>1. /\ Head(s) \in S /\ Tail(s) \in Seq(S)
      /\ Len(Tail(s)) = Len(s) - 1
      /\ \A i \in 1 .. Len(Tail(s)) : Tail(s)[i] = s[i + 1]
  BY HeadTailProperties
<1>2. Len(s) \in Nat \ {0} /\ Head(s) = s[1]
  OBVIOUS
<1> DEFINE r == Tail(s)
<1> HIDE DEF r
<1>3. \A i \in 1 .. Len(r) : i + 1 \in 1 .. Len(s)
  BY <1>1, <1>2 DEF r
<1>4. Occurs(Head(s), s)
  BY <1>2 DEF Occurs
<1>5. \A u : Occurs(u, r) => Occurs(u, s)
  BY <1>1, <1>3 DEF Occurs, r
<1>6. ASSUME Distinct(s) PROVE Distinct(r) /\ ~Occurs(Head(s), r)
  BY <1>1, <1>2, <1>3, <1>6 DEF Distinct, Occurs, r
<1> QED
  BY <1>1, <1>4, <1>5, <1>6 DEF r

-----------------------------------------------------------------------------
(***************************************************************************)
(* Types.  A step is split as the code is: what the handler does to the    *)
(* objects, the tree of processes and the waits, and what the rest of the  *)
(* loop does to the ready queue, the exits and the signals.                *)
(***************************************************************************)
ReadyTypeOK(rq) == rq \in Seq(Tids) /\ Len(rq) <= READY_QUEUE_SIZE

RunTypeOK == /\ ReadyTypeOK(ready)
             /\ exited \in [Tids -> BOOLEAN]
             /\ proc_exited \in [Pids -> BOOLEAN]
             /\ exit_code \in [Pids -> Int]
             /\ signal \in [Pids -> SignalManagers]

TreeTypeOK == /\ g_next_tid \in 1 .. MAX_TIDS
              /\ g_next_pid \in 1 .. MAX_PROCS
              /\ thread_pid \in [Tids -> Pids]
              /\ threads \in [Pids -> SUBSET Tids]

WaitTypeOK == /\ parent \in [Pids -> Pids \cup {PID_INVALID}]
              /\ waiting_for \in [Pids -> Pids \cup {PID_INVALID}]
              /\ waiting_tid \in [Pids -> Tids \cup {TID_INVALID}]
              /\ reported \in [Pids -> Seq(Int)]

ObjectsTypeOK == objects \subseteq Objs /\ SyncTypeOK

LEMMA TypeParts == TypeOK <=> RunTypeOK /\ TreeTypeOK /\ WaitTypeOK /\ ObjectsTypeOK
  BY DEF TypeOK, RunTypeOK, TreeTypeOK, WaitTypeOK, ObjectsTypeOK, ReadyTypeOK

\* Calls that leave one of the parts alone.
LEMMA FrameTypes ==
    /\ TreeTypeOK /\ UNCHANGED tree_vars => TreeTypeOK'
    /\ WaitTypeOK /\ UNCHANGED <<parent, wait_vars, reported>> => WaitTypeOK'
    /\ ObjectsTypeOK /\ UNCHANGED <<objects, sync_vars>> => ObjectsTypeOK'
    /\ RunTypeOK /\ UNCHANGED <<ready, exit_vars, signal>> => RunTypeOK'
<1>1. TreeTypeOK /\ UNCHANGED tree_vars => TreeTypeOK'
  BY DEF TreeTypeOK, tree_vars
<1>2. WaitTypeOK /\ UNCHANGED <<parent, wait_vars, reported>> => WaitTypeOK'
  BY DEF WaitTypeOK, wait_vars
<1>3. ObjectsTypeOK /\ UNCHANGED <<objects, sync_vars>> => ObjectsTypeOK'
  BY DEF ObjectsTypeOK, SyncTypeOK, sync_vars
<1>4. RunTypeOK /\ UNCHANGED <<ready, exit_vars, signal>> => RunTypeOK'
  BY DEF RunTypeOK, exit_vars
<1> QED
  BY <1>1, <1>2, <1>3, <1>4

LEMMA EnqueueType ==
    ASSUME NEW rq, ReadyTypeOK(rq), NEW t \in Tids
    PROVE  ReadyTypeOK(ready_enqueue(rq, t))
<1>1. Append(rq, t) \in Seq(Tids) /\ Len(Append(rq, t)) = Len(rq) + 1 /\ Len(rq) \in Nat
  BY OccursAppend DEF ReadyTypeOK
<1> QED
  BY <1>1, KernelAssumption DEF ReadyTypeOK, ready_enqueue

\* The thread that runs is one, and the queue without it is a queue.
LEMMA RunsTypes ==
    ASSUME RunTypeOK, NEW t, Runs(t)
    PROVE  t \in Tids /\ ReadyTypeOK(Rest)
<1>1. ready \in Seq(Tids) /\ ready # <<>> /\ t = Head(ready) /\ Len(ready) <= READY_QUEUE_SIZE
  BY DEF RunTypeOK, Runs, ReadyTypeOK
<1>2. /\ t \in Tids /\ Tail(ready) \in Seq(Tids)
      /\ Len(Tail(ready)) = Len(ready) - 1 /\ Len(ready) \in Nat
  BY <1>1, OccursTail
<1> QED
  BY <1>1, <1>2, KernelAssumption DEF Rest, ReadyTypeOK

\* The end of an iteration.
LEMMA ReturnTypes ==
    ASSUME RunTypeOK, TreeTypeOK, NEW t \in Tids, NEW rq, ReadyTypeOK(rq),
           NEW sm \in [Pids -> SignalManagers], NEW blocks, Return(t, rq, sm, blocks)
    PROVE  RunTypeOK'
<1> DEFINE p == Pid(t)
           r == signal_handle(sm[p])
<1>1. p \in Pids
  BY DEF TreeTypeOK, Pid
<1>2. IsResult(r)
  BY <1>1, HandleResult
<1>3. ReadyTypeOK(ready_enqueue(rq, t))
  BY EnqueueType
<1>4. ready' = requeue(t, rq, r.type = "KILLED", blocks) /\ signal' = [sm EXCEPT ![p] = r.sm]
  BY DEF Return
<1>5. \/ /\ exited' = [exited EXCEPT ![t] = TRUE]
         /\ proc_exited' = [proc_exited EXCEPT ![p] = TRUE]
         /\ exit_code' = [exit_code EXCEPT ![p] = r.exit_code]
      \/ UNCHANGED exit_vars
  BY DEF Return
<1> HIDE DEF p, r
<1>6. ReadyTypeOK(ready')
  BY <1>3, <1>4 DEF requeue
<1>7. signal' \in [Pids -> SignalManagers]
  BY <1>1, <1>2, <1>4 DEF IsResult
<1>8. /\ exited' \in [Tids -> BOOLEAN] /\ proc_exited' \in [Pids -> BOOLEAN]
      /\ exit_code' \in [Pids -> Int]
  BY <1>1, <1>2, <1>5 DEF IsResult, RunTypeOK, exit_vars
<1>9. ReadyTypeOK(ready)'
  BY <1>6 DEF ReadyTypeOK
<1> QED
  BY <1>7, <1>8, <1>9 DEF RunTypeOK

-----------------------------------------------------------------------------
\* The operations of sync.c on an object of the kernel.
LEMMA QueueOps ==
    ASSUME NEW w \in Seq(Tids)
    PROVE  /\ wq_rest(w) \in Seq(Tids)
           /\ wq_popped(w) \in Tids \cup {TID_INVALID}
           /\ SetOf(wq_popped(w)) \subseteq Tids
           /\ \A t \in Tids : wq_push(w, t) \in Seq(Tids)
<1>1. wq_rest(w) \in Seq(Tids) /\ wq_popped(w) \in Tids \cup {TID_INVALID}
  BY OccursTail DEF wq_rest, wq_popped
<1>2. \A t \in Tids : wq_push(w, t) \in Seq(Tids)
  BY OccursAppend DEF wq_push
<1>3. SetOf(wq_popped(w)) \subseteq Tids
  BY <1>1 DEF SetOf
<1> QED
  BY <1>1, <1>2, <1>3

LEMMA WakeType ==
    ASSUME ObjectsTypeOK, NEW rq, ReadyTypeOK(rq), NEW q \in Objs
    PROVE  ReadyTypeOK(ready_wake(rq, waking(q)))
<1>1. waking(q) \in Tids \cup {TID_INVALID}
  BY QueueOps DEF ObjectsTypeOK, SyncTypeOK, waking
<1> QED
  BY <1>1, EnqueueType DEF ready_wake

LEMMA SyncInitTypes ==
    ASSUME SyncTypeOK, NEW q \in Objs, NEW n \in Int,
           mutex_init(q) \/ sem_init(q, n) \/ condvar_init(q)
    PROVE  SyncTypeOK'
<1>1. <<>> \in Seq(Tids)
  BY EmptySeq
<1>2. CASE mutex_init(q)
  BY <1>1, <1>2 DEF SyncTypeOK, mutex_init
<1>3. CASE sem_init(q, n)
  BY <1>1, <1>3 DEF SyncTypeOK, sem_init
<1>4. CASE condvar_init(q)
  BY <1>1, <1>4 DEF SyncTypeOK, condvar_init
<1> QED
  BY <1>2, <1>3, <1>4

LEMMA SemTypes ==
    ASSUME SyncTypeOK, NEW q \in Objs, NEW t \in Tids, sem_up(q) \/ sem_down(q, t)
    PROVE  SyncTypeOK'
<1>1. wq_rest(wait_queue[q]) \in Seq(Tids) /\ wq_push(wait_queue[q], t) \in Seq(Tids)
  BY QueueOps DEF SyncTypeOK
<1>2. CASE sem_up(q)
  BY <1>1, <1>2 DEF SyncTypeOK, sem_up
<1>3. CASE sem_down(q, t)
  BY <1>1, <1>3 DEF SyncTypeOK, sem_down
<1> QED
  BY <1>2, <1>3

LEMMA MutexTypes ==
    ASSUME SyncTypeOK, NEW q \in Objs, NEW t \in Tids,
           \/ mutex_lock(q, t) \/ mutex_unlock(q, t)
           \/ condvar_wait_with_mutex(q, t) \/ condvar_signal(q)
    PROVE  SyncTypeOK'
<1> DEFINE w == wait_queue[q]
<1>1. /\ w \in Seq(Tids) /\ wq_rest(w) \in Seq(Tids) /\ wq_push(w, t) \in Seq(Tids)
      /\ SetOf(waking(q)) \subseteq Tids
  BY QueueOps DEF SyncTypeOK, waking
<1>2. wq_push(wq_rest(w), t) \in Seq(Tids)
  BY <1>1, QueueOps
<1>3. CASE mutex_lock(q, t)
  <2>1. wait_queue' \in [Objs -> Seq(Tids)]
    BY <1>1, <1>3 DEF SyncTypeOK, mutex_lock
  <2>2. holders[q] \cup {t} \in SUBSET Tids
    BY DEF SyncTypeOK
  <2>3. holders' \in [Objs -> SUBSET Tids]
    BY <1>3, <2>2 DEF SyncTypeOK, mutex_lock
  <2>4. locked' \in [Objs -> BOOLEAN] /\ count' \in [Objs -> Int]
    BY <1>3 DEF SyncTypeOK, mutex_lock
  <2> QED
    BY <2>1, <2>3, <2>4 DEF SyncTypeOK
<1>4. CASE mutex_unlock(q, t)
  BY <1>1, <1>4 DEF SyncTypeOK, mutex_unlock
<1>5. CASE condvar_wait_with_mutex(q, t)
  <2>1. wait_queue' \in [Objs -> Seq(Tids)]
    BY <1>1, <1>2, <1>5 DEF SyncTypeOK, condvar_wait_with_mutex
  <2>2. holders' \in [Objs -> SUBSET Tids]
    BY <1>1, <1>5 DEF SyncTypeOK, condvar_wait_with_mutex
  <2>3. locked' \in [Objs -> BOOLEAN] /\ count' \in [Objs -> Int]
    BY <1>5 DEF SyncTypeOK, condvar_wait_with_mutex
  <2> QED
    BY <2>1, <2>2, <2>3 DEF SyncTypeOK
<1>6. CASE condvar_signal(q)
  BY <1>1, <1>6 DEF SyncTypeOK, condvar_signal
<1> QED
  BY <1>3, <1>4, <1>5, <1>6

\* A table that is not full has a first free entry.
LEMMA FreeEntry ==
    ASSUME NEW kind \in Kinds, NEW t, Pid(t) \in Pids, ~Full(kind, t)
    PROVE  New(kind, t) \in Objs /\ New(kind, t) \notin objects
<1> DEFINE S == Slots \ Table(kind, Pid(t))
<1>1. S # {} /\ S \subseteq Nat
  BY Tables DEF Full, Table
<1>2. \E i \in S : \A j \in S : i <= j
  BY <1>1, LeastElement
<1>3. Free(kind, Pid(t)) \in S
  BY <1>2 DEF Free
<1> QED
  BY <1>3 DEF New, Objs, Table

-----------------------------------------------------------------------------
\* One iteration of the loop that calls sync.c.
LEMMA SyncCallTypes ==
    ASSUME TypeOK, NEW t, SyncCall(t)
    PROVE  TypeOK'
<1>0. RunTypeOK /\ TreeTypeOK /\ WaitTypeOK /\ ObjectsTypeOK /\ SyncTypeOK
  BY TypeParts DEF ObjectsTypeOK
<1>1. Runs(t) /\ SyncFrame
  BY DEF SyncCall, MutexCreate, SemaphoreCreate, CondvarCreate, MutexLock, MutexUnlock,
         SemaphoreUp, SemaphoreDown, CondvarSignal, CondvarWait
<1>2. t \in Tids /\ ReadyTypeOK(Rest) /\ Pid(t) \in Pids /\ signal \in [Pids -> SignalManagers]
  BY <1>0, <1>1, RunsTypes DEF TreeTypeOK, Pid, RunTypeOK
<1>3. TreeTypeOK' /\ WaitTypeOK'
  BY <1>0, <1>1, FrameTypes DEF SyncFrame
<1>4. ASSUME NEW rq, ReadyTypeOK(rq), NEW b, Return(t, rq, signal, b)
      PROVE  RunTypeOK'
  BY <1>0, <1>2, <1>4, ReturnTypes
<1>5. \A kind \in Kinds, i \in Slots : <<kind, Pid(t), i>> \in Objs
  BY <1>2 DEF Objs
<1>6. ASSUME NEW q \in Objs PROVE ReadyTypeOK(ready_wake(Rest, waking(q)))
  BY <1>0, <1>2, WakeType
<1>7. ASSUME SyncTypeOK', UNCHANGED objects PROVE ObjectsTypeOK'
  BY <1>0, <1>7 DEF ObjectsTypeOK
<1>8. UNCHANGED sync_vars => SyncTypeOK'
  BY <1>0 DEF SyncTypeOK, sync_vars
<1>9. ASSUME NEW kind \in Kinds, NEW n \in Int,
             IF Full(kind, t) THEN UNCHANGED <<objects, sync_vars>>
             ELSE /\ objects' = objects \cup {New(kind, t)}
                  /\ \/ mutex_init(New(kind, t)) \/ sem_init(New(kind, t), n)
                     \/ condvar_init(New(kind, t))
      PROVE  ObjectsTypeOK'
  BY <1>0, <1>2, <1>9, FreeEntry, SyncInitTypes, FrameTypes DEF ObjectsTypeOK
<1>10. ASSUME RunTypeOK', ObjectsTypeOK' PROVE TypeOK'
  BY <1>3, <1>10, TypeParts, PTL
<1>11. CASE MutexCreate(t)
  <2>1. ObjectsTypeOK'
    BY <1>9, <1>11 DEF MutexCreate, Kinds
  <2> QED
    BY <1>2, <1>4, <1>10, <1>11, <2>1 DEF MutexCreate, Resume
<1>12. CASE CondvarCreate(t)
  <2>1. ObjectsTypeOK'
    BY <1>9, <1>12 DEF CondvarCreate, Kinds
  <2> QED
    BY <1>2, <1>4, <1>10, <1>12, <2>1 DEF CondvarCreate, Resume
<1>13. ASSUME NEW n \in SemCounts, SemaphoreCreate(t, n) PROVE TypeOK'
  <2>1. n \in Int
    BY KernelAssumption
  <2>2. ObjectsTypeOK'
    BY <1>9, <1>13, <2>1 DEF SemaphoreCreate, Kinds
  <2> QED
    BY <1>2, <1>4, <1>10, <1>13, <2>2 DEF SemaphoreCreate, Resume
<1>14. ASSUME NEW i \in Slots, MutexLock(t, i) PROVE TypeOK'
  <2> DEFINE q == <<"mutex", Pid(t), i>>
  <2>1. q \in Objs
    BY <1>5 DEF Kinds
  <2>2. SyncTypeOK' /\ UNCHANGED objects
    BY <1>0, <1>2, <1>8, <1>14, <2>1, MutexTypes DEF MutexLock
  <2>3. \E b : Return(t, Rest, signal, b)
    BY <1>14 DEF MutexLock
  <2> QED
    BY <1>2, <1>4, <1>7, <1>10, <2>2, <2>3
<1>15. ASSUME NEW i \in Slots, MutexUnlock(t, i) PROVE TypeOK'
  <2> DEFINE q == <<"mutex", Pid(t), i>>
  <2>1. q \in Objs
    BY <1>5 DEF Kinds
  <2>2. SyncTypeOK' /\ UNCHANGED objects
    BY <1>0, <1>2, <1>15, <2>1, MutexTypes DEF MutexUnlock
  <2>3. Return(t, ready_wake(Rest, waking(q)), signal, FALSE)
    BY <1>15 DEF MutexUnlock
  <2> QED
    BY <1>4, <1>6, <1>7, <1>10, <2>1, <2>2, <2>3
<1>16. ASSUME NEW i \in Slots, SemaphoreUp(t, i) PROVE TypeOK'
  <2> DEFINE q == <<"semaphore", Pid(t), i>>
  <2>1. q \in Objs
    BY <1>5 DEF Kinds
  <2>2. SyncTypeOK' /\ UNCHANGED objects
    BY <1>0, <1>2, <1>16, <2>1, SemTypes DEF SemaphoreUp
  <2>3. Return(t, ready_wake(Rest, waking(q)), signal, FALSE)
    BY <1>16 DEF SemaphoreUp
  <2> QED
    BY <1>4, <1>6, <1>7, <1>10, <2>1, <2>2, <2>3
<1>17. ASSUME NEW i \in Slots, SemaphoreDown(t, i) PROVE TypeOK'
  <2> DEFINE q == <<"semaphore", Pid(t), i>>
  <2>1. q \in Objs
    BY <1>5 DEF Kinds
  <2>2. SyncTypeOK' /\ UNCHANGED objects
    BY <1>0, <1>2, <1>8, <1>17, <2>1, SemTypes DEF SemaphoreDown
  <2>3. \E b : Return(t, Rest, signal, b)
    BY <1>17 DEF SemaphoreDown
  <2> QED
    BY <1>2, <1>4, <1>7, <1>10, <2>2, <2>3
<1>18. ASSUME NEW i \in Slots, CondvarSignal(t, i) PROVE TypeOK'
  <2> DEFINE q == <<"condvar", Pid(t), i>>
  <2>1. q \in Objs
    BY <1>5 DEF Kinds
  <2>2. SyncTypeOK' /\ UNCHANGED objects
    BY <1>0, <1>2, <1>18, <2>1, MutexTypes DEF CondvarSignal
  <2>3. Return(t, ready_wake(Rest, waking(q)), signal, FALSE)
    BY <1>18 DEF CondvarSignal
  <2> QED
    BY <1>4, <1>6, <1>7, <1>10, <2>1, <2>2, <2>3
<1>19. ASSUME NEW i \in Slots, NEW j \in Slots, CondvarWait(t, i, j) PROVE TypeOK'
  <2> DEFINE m == <<"mutex", Pid(t), j>>
  <2>1. m \in Objs
    BY <1>5 DEF Kinds
  <2>2. SyncTypeOK' /\ UNCHANGED objects
    BY <1>0, <1>2, <1>8, <1>19, <2>1, MutexTypes DEF CondvarWait
  <2>3. \E b : \/ Return(t, ready_wake(Rest, waking(m)), signal, b)
              \/ Return(t, Rest, signal, b)
    BY <1>19 DEF CondvarWait
  <2> QED
    BY <1>2, <1>4, <1>6, <1>7, <1>10, <2>1, <2>2, <2>3
<1> QED
  BY <1>11, <1>12, <1>13, <1>14, <1>15, <1>16, <1>17, <1>18, <1>19 DEF SyncCall

-----------------------------------------------------------------------------
\* Processes and threads.
LEMMA CreateThreadTypes ==
    ASSUME TreeTypeOK, NEW p \in Pids, create_thread(p)
    PROVE  /\ g_next_tid' \in 1 .. MAX_TIDS
           /\ thread_pid' \in [Tids -> Pids]
           /\ threads' \in [Pids -> SUBSET Tids]
<1>1. g_next_tid' \in 1 .. MAX_TIDS
  BY Tables DEF TreeTypeOK, create_thread, alloc_tid
<1>2. thread_pid' \in [Tids -> Pids]
  BY DEF TreeTypeOK, create_thread
<1>3. CASE g_next_tid < MAX_TIDS
  <2>1. g_next_tid \in Tids
    BY <1>3, Tables DEF TreeTypeOK, Tids
  <2>2. threads[p] \cup {g_next_tid} \in SUBSET Tids
    BY <2>1 DEF TreeTypeOK
  <2> QED
    BY <1>1, <1>2, <1>3, <2>2 DEF TreeTypeOK, create_thread
<1>4. CASE ~(g_next_tid < MAX_TIDS)
  BY <1>1, <1>2, <1>4 DEF TreeTypeOK, create_thread
<1> QED
  BY <1>3, <1>4

\* The ready queue with the thread just created, if one was.
LEMMA EnqueueNewType ==
    ASSUME TreeTypeOK, NEW rq, ReadyTypeOK(rq)
    PROVE  ReadyTypeOK(IF g_next_tid < MAX_TIDS THEN ready_enqueue(rq, g_next_tid) ELSE rq)
<1>1. g_next_tid < MAX_TIDS => g_next_tid \in Tids
  BY Tables DEF TreeTypeOK, Tids
<1> QED
  BY <1>1, EnqueueType

LEMMA ThreadCreateTypes ==
    ASSUME TypeOK, NEW t, ThreadCreate(t)
    PROVE  TypeOK'
<1>0. RunTypeOK /\ TreeTypeOK /\ WaitTypeOK /\ ObjectsTypeOK
  BY TypeParts
<1>1. t \in Tids /\ ReadyTypeOK(Rest) /\ Pid(t) \in Pids /\ signal \in [Pids -> SignalManagers]
  BY <1>0, RunsTypes DEF TreeTypeOK, Pid, RunTypeOK, ThreadCreate
<1>2. WaitTypeOK' /\ ObjectsTypeOK'
  BY <1>0, FrameTypes DEF ThreadCreate
<1>3. \E rq, b : ReadyTypeOK(rq) /\ Return(t, rq, signal, b)
  BY <1>0, <1>1, EnqueueNewType DEF ThreadCreate, Resume
<1>4. RunTypeOK'
  BY <1>0, <1>1, <1>3, ReturnTypes
<1>5. TreeTypeOK'
  BY <1>0, <1>1, FrameTypes, CreateThreadTypes DEF ThreadCreate, TreeTypeOK
<1> QED
  BY <1>2, <1>4, <1>5, TypeParts, PTL

LEMMA ForkTypes ==
    ASSUME TypeOK, NEW t, Fork(t)
    PROVE  TypeOK'
<1> DEFINE p == Pid(t)
           c == g_next_pid
<1>0. RunTypeOK /\ TreeTypeOK /\ WaitTypeOK /\ ObjectsTypeOK
  BY TypeParts
<1>1. t \in Tids /\ ReadyTypeOK(Rest) /\ p \in Pids /\ signal \in [Pids -> SignalManagers]
  BY <1>0, RunsTypes DEF TreeTypeOK, Pid, RunTypeOK, Fork
<1>2. ObjectsTypeOK'
  BY <1>0, FrameTypes DEF Fork
<1>3. UNCHANGED reported
  BY DEF Fork
<1>4. g_next_pid' \in 1 .. MAX_PROCS
  BY <1>0, SizesAssumption DEF Fork, alloc_pid, TreeTypeOK
<1>5. signal_init \in SignalManagers /\ signal_fork(signal[p]) \in SignalManagers
  BY <1>1, SignalOps
<1>6. CASE /\ Return(t, Rest, IF c < MAX_PROCS THEN [signal EXCEPT ![c] = signal_init] ELSE signal, FALSE)
           /\ UNCHANGED <<g_next_tid, thread_pid, threads, parent, wait_vars>>
  <2>1. (IF c < MAX_PROCS THEN [signal EXCEPT ![c] = signal_init] ELSE signal) \in [Pids -> SignalManagers]
    BY <1>1, <1>5
  <2>2. RunTypeOK'
    BY <1>0, <1>1, <1>6, <2>1, ReturnTypes
  <2>3. TreeTypeOK'
    BY <1>0, <1>4, <1>6 DEF TreeTypeOK
  <2>4. WaitTypeOK'
    BY <1>0, <1>3, <1>6, FrameTypes
  <2> QED
    BY <1>2, <2>2, <2>3, <2>4, TypeParts, PTL
<1>7. CASE /\ c < MAX_PROCS
           /\ create_thread(c)
           /\ parent' = [parent EXCEPT ![c] = p]
           /\ ForkWaitFields(c)
           /\ waiting_tid' = [waiting_tid EXCEPT ![c] = 0]
           /\ Return(t, IF g_next_tid < MAX_TIDS THEN ready_enqueue(Rest, g_next_tid) ELSE Rest,
                     [signal EXCEPT ![c] = signal_fork(signal[p])], FALSE)
  <2>1. c \in Pids
    BY <1>0, <1>7, SizesAssumption DEF TreeTypeOK, Pids
  <2>2. [signal EXCEPT ![c] = signal_fork(signal[p])] \in [Pids -> SignalManagers]
    BY <1>1, <1>5
  <2>3. RunTypeOK'
    BY <1>0, <1>1, <1>7, <2>2, EnqueueNewType, ReturnTypes
  <2>4. TreeTypeOK'
    BY <1>0, <1>4, <1>7, <2>1, CreateThreadTypes DEF TreeTypeOK
  <2>5. WaitTypeOK'
    BY <1>0, <1>1, <1>3, <1>7, <2>1, Tables DEF WaitTypeOK, ForkWaitFields
  <2> QED
    BY <1>2, <2>3, <2>4, <2>5, TypeParts, PTL
<1> QED
  BY <1>6, <1>7 DEF Fork

LEMMA WaitpidTypes ==
    ASSUME TypeOK, NEW t, NEW want \in Pids \cup {PID_INVALID}, Waitpid(t, want)
    PROVE  TypeOK'
<1> DEFINE p == Pid(t)
<1>0. RunTypeOK /\ TreeTypeOK /\ WaitTypeOK /\ ObjectsTypeOK
  BY TypeParts
<1>1. t \in Tids /\ ReadyTypeOK(Rest) /\ p \in Pids /\ signal \in [Pids -> SignalManagers]
  BY <1>0, RunsTypes DEF TreeTypeOK, Pid, RunTypeOK, Waitpid
<1>2. TreeTypeOK' /\ ObjectsTypeOK'
  BY <1>0, FrameTypes DEF Waitpid
<1>3. RunTypeOK'
  <2>1. Return(t, Rest, signal, FALSE) \/ Return(t, Rest, signal, Found(p, want) # {})
    BY DEF Waitpid, Resume
  <2> QED
    BY <1>0, <1>1, <2>1, ReturnTypes
<1>4. WaitTypeOK'
  <2>1. CASE Zombies(p, want) = {}
    <3>1. UNCHANGED <<parent, reported>>
      BY <2>1 DEF Waitpid
    <3>2. \/ UNCHANGED wait_vars
          \/ /\ waiting_for' = [waiting_for EXCEPT ![p] = want]
             /\ waiting_tid' = [waiting_tid EXCEPT ![p] = t]
      BY <2>1 DEF Waitpid
    <3> QED
      BY <1>0, <1>1, <3>1, <3>2 DEF WaitTypeOK, wait_vars
  <2>2. CASE Zombies(p, want) # {}
    <3> DEFINE z == CHOOSE c \in Zombies(p, want) : \A d \in Zombies(p, want) : c <= d
    <3>1. Zombies(p, want) \subseteq Pids
      BY DEF Zombies, Found
    <3>2. z \in Pids
      <4>1. \E c \in Zombies(p, want) : \A d \in Zombies(p, want) : c <= d
        BY <2>2, <3>1, Tables, LeastElement
      <4> QED
        BY <3>1, <4>1
    <3>3. ReleaseChild(z) /\ reported' = [reported EXCEPT ![z] = Append(@, exit_code[z])]
          /\ UNCHANGED wait_vars
      BY <2>2 DEF Waitpid
    <3> HIDE DEF z
    <3>4. Append(reported[z], exit_code[z]) \in Seq(Int)
      BY <1>0, <3>2, OccursAppend DEF WaitTypeOK, RunTypeOK
    <3>5. reported' \in [Pids -> Seq(Int)]
      BY <1>0, <3>3, <3>4 DEF WaitTypeOK
    <3> QED
      BY <1>0, <3>3, <3>5 DEF WaitTypeOK, ReleaseChild, wait_vars
  <2> QED
    BY <2>1, <2>2
<1> QED
  BY <1>2, <1>3, <1>4, TypeParts, PTL

LEMMA ExitProcessTypes ==
    ASSUME TypeOK, NEW t, Runs(t), NEW p \in Pids, NEW code \in Int, ExitProcess(p, code)
    PROVE  /\ WaitTypeOK' /\ ReadyTypeOK(ready')
           /\ proc_exited' \in [Pids -> BOOLEAN] /\ exit_code' \in [Pids -> Int]
<1>0. RunTypeOK /\ WaitTypeOK /\ ReadyTypeOK(Rest)
  BY TypeParts, RunsTypes
<1>1. proc_exited' \in [Pids -> BOOLEAN] /\ exit_code' \in [Pids -> Int]
  BY <1>0 DEF ExitProcess, RunTypeOK
<1>2. CASE ~WakesParent(p)
  <2>1. ready' = Rest /\ UNCHANGED <<wait_vars, parent, reported>>
    BY <1>2 DEF ExitProcess
  <2> QED
    BY <1>0, <1>1, <2>1 DEF WaitTypeOK, wait_vars
<1>3. CASE WakesParent(p)
  <2> DEFINE a == parent[p]
  <2>1. a \in Pids /\ waiting_tid[a] \in Tids
    BY <1>0, <1>3 DEF WakesParent, WaitTypeOK
  <2>2. /\ ready' = ready_enqueue(Rest, waiting_tid[a])
        /\ waiting_tid' = [waiting_tid EXCEPT ![a] = TID_INVALID]
        /\ waiting_for' = [waiting_for EXCEPT ![a] = PID_INVALID]
        /\ parent' = [parent EXCEPT ![p] = PID_INVALID]
        /\ reported' = [reported EXCEPT ![p] = Append(@, code)]
    BY <1>3 DEF ExitProcess, ReleaseChild
  <2> HIDE DEF a
  <2>3. ReadyTypeOK(ready')
    BY <1>0, <2>1, <2>2, EnqueueType
  <2>4. Append(reported[p], code) \in Seq(Int)
    BY <1>0, OccursAppend DEF WaitTypeOK
  <2>5. WaitTypeOK'
    BY <1>0, <2>2, <2>4 DEF WaitTypeOK
  <2> QED
    BY <1>1, <2>3, <2>5
<1> QED
  BY <1>2, <1>3

LEMMA ExitTypes ==
    ASSUME TypeOK, NEW t, NEW code \in ExitCodes, Exit(t, code)
    PROVE  TypeOK'
<1> DEFINE p == Pid(t)
           r == signal_handle(signal[p])
<1>0. RunTypeOK /\ TreeTypeOK /\ WaitTypeOK /\ ObjectsTypeOK /\ Runs(t) /\ code \in Int
  BY TypeParts, KernelAssumption DEF Exit
<1>1. t \in Tids /\ ReadyTypeOK(Rest) /\ p \in Pids
  BY <1>0, RunsTypes DEF TreeTypeOK, Pid
<1>2. IsResult(r)
  BY <1>0, <1>1, HandleResult DEF RunTypeOK
<1>3. TreeTypeOK' /\ ObjectsTypeOK'
  BY <1>0, FrameTypes DEF Exit
<1>4. /\ signal' = [signal EXCEPT ![p] = r.sm]
      /\ exited' = [exited EXCEPT ![t] = TRUE]
      /\ \/ /\ proc_exited' = [proc_exited EXCEPT ![p] = TRUE]
            /\ exit_code' = [exit_code EXCEPT ![p] = r.exit_code]
            /\ ready' = Rest
            /\ UNCHANGED <<wait_vars, parent, reported>>
         \/ ExitProcess(p, code)
         \/ ready' = Rest /\ UNCHANGED <<proc_exited, exit_code, wait_vars, parent, reported>>
  BY DEF Exit
<1> HIDE DEF p, r
<1>5. signal' \in [Pids -> SignalManagers] /\ exited' \in [Tids -> BOOLEAN]
  BY <1>0, <1>1, <1>2, <1>4 DEF IsResult, RunTypeOK
<1>6. /\ WaitTypeOK' /\ ReadyTypeOK(ready')
      /\ proc_exited' \in [Pids -> BOOLEAN] /\ exit_code' \in [Pids -> Int]
  <2>1. CASE ExitProcess(p, code)
    BY <1>0, <1>1, <2>1, ExitProcessTypes
  <2>2. CASE /\ proc_exited' = [proc_exited EXCEPT ![p] = TRUE]
             /\ exit_code' = [exit_code EXCEPT ![p] = r.exit_code]
             /\ ready' = Rest
             /\ UNCHANGED <<wait_vars, parent, reported>>
    BY <1>0, <1>1, <1>2, <2>2, FrameTypes DEF RunTypeOK, IsResult
  <2>3. CASE ready' = Rest /\ UNCHANGED <<proc_exited, exit_code, wait_vars, parent, reported>>
    BY <1>0, <1>1, <2>3, FrameTypes DEF RunTypeOK
  <2> QED
    BY <1>4, <2>1, <2>2, <2>3
<1>7. RunTypeOK'
  BY <1>5, <1>6 DEF RunTypeOK, ReadyTypeOK
<1> QED
  BY <1>3, <1>6, <1>7, TypeParts, PTL

\* The two ways a thread dies without exit.
LEMMA FaultTypes ==
    ASSUME TypeOK, NEW t, Exception(t) \/ Unsupported(t)
    PROVE  TypeOK'
<1> DEFINE p == Pid(t)
           r == signal_handle(signal[p])
<1>0. RunTypeOK /\ TreeTypeOK /\ WaitTypeOK /\ ObjectsTypeOK
  BY TypeParts
<1>1. t \in Tids /\ ReadyTypeOK(Rest) /\ p \in Pids
  BY <1>0, RunsTypes DEF TreeTypeOK, Pid, Exception, Unsupported
<1>2. IsResult(r)
  BY <1>0, <1>1, HandleResult DEF RunTypeOK
<1>3. TreeTypeOK' /\ WaitTypeOK' /\ ObjectsTypeOK'
  BY <1>0, FrameTypes DEF Exception, Unsupported, SyncFrame
<1>4. /\ exited' = [exited EXCEPT ![t] = TRUE]
      /\ ready' = Rest
      /\ signal' = [signal EXCEPT ![p] = r.sm] \/ UNCHANGED signal
      /\ proc_exited' = [proc_exited EXCEPT ![p] = TRUE] \/ UNCHANGED proc_exited
      /\ exit_code' = [exit_code EXCEPT ![p] = r.exit_code] \/ UNCHANGED exit_code
  BY DEF Exception, Unsupported
<1> HIDE DEF p, r
<1>5. RunTypeOK'
  BY <1>0, <1>1, <1>2, <1>4 DEF RunTypeOK, IsResult, ReadyTypeOK
<1> QED
  BY <1>3, <1>5, TypeParts, PTL

\* Calls that change nothing but signal managers.
LEMMA SignalCallTypes ==
    ASSUME TypeOK, NEW t, Plain(t) \/ Exec(t) \/ SignalCalls(t)
    PROVE  TypeOK'
<1> DEFINE p == Pid(t)
<1>0. RunTypeOK /\ TreeTypeOK /\ WaitTypeOK /\ ObjectsTypeOK
  BY TypeParts
<1>1. /\ Runs(t) /\ SyncFrame /\ UNCHANGED <<objects, sync_vars>>
  BY DEF Plain, Exec, SignalCalls, Kill, Sigaction, Sigprocmask, Sigreturn, SignalCall
<1>2. t \in Tids /\ ReadyTypeOK(Rest) /\ p \in Pids /\ signal \in [Pids -> SignalManagers]
  BY <1>0, <1>1, RunsTypes DEF TreeTypeOK, Pid, RunTypeOK
<1>3. TreeTypeOK' /\ WaitTypeOK' /\ ObjectsTypeOK'
  BY <1>0, <1>1, FrameTypes DEF SyncFrame
<1>4. \E sm \in [Pids -> SignalManagers] : Return(t, Rest, sm, FALSE)
  <2>1. CASE Plain(t)
    BY <1>2, <2>1 DEF Plain, Resume
  <2>2. CASE Exec(t)
    BY <1>2, <2>2, SignalOps DEF Exec
  <2>3. ASSUME NEW target \in Pids, NEW s \in Signals, Kill(t, target, s)
        PROVE  \E sm \in [Pids -> SignalManagers] : Return(t, Rest, sm, FALSE)
    BY <1>2, <2>3, SignalOps, KernelAssumption DEF Kill, SignalCall
  <2>4. ASSUME NEW s \in Signals, NEW installs \in BOOLEAN, Sigaction(t, s, installs)
        PROVE  \E sm \in [Pids -> SignalManagers] : Return(t, Rest, sm, FALSE)
    BY <1>2, <2>4, SignalOps, KernelAssumption DEF Sigaction, SignalCall
  <2>5. ASSUME NEW m \in SUBSET Signals, Sigprocmask(t, m)
        PROVE  \E sm \in [Pids -> SignalManagers] : Return(t, Rest, sm, FALSE)
    BY <1>2, <2>5, SignalOps, KernelAssumption DEF Sigprocmask, SignalCall
  <2>6. CASE Sigreturn(t)
    BY <1>2, <2>6, SignalOps DEF Sigreturn, SignalCall
  <2> QED
    BY <2>1, <2>2, <2>3, <2>4, <2>5, <2>6 DEF SignalCalls
<1>5. RunTypeOK'
  BY <1>0, <1>2, <1>4, ReturnTypes
<1> QED
  BY <1>3, <1>5, TypeParts, PTL

-----------------------------------------------------------------------------
LEMMA TypeInit == Init => TypeOK
<1> SUFFICES ASSUME Init PROVE TypeOK
  OBVIOUS
<1>1. RunTypeOK
  <2>1. <<0>> \in Seq(Tids) /\ Len(<<0>>) = 1
    BY Tables
  <2>2. signal_init \in SignalManagers
    BY DEF signal_init, SignalManagers, HandlingTypes
  <2> QED
    BY <2>1, <2>2, KernelAssumption DEF Init, RunTypeOK, ReadyTypeOK
<1>2. TreeTypeOK
  <2>1. g_next_tid \in 1 .. MAX_TIDS /\ g_next_pid \in 1 .. MAX_PROCS
    BY Tables, SizesAssumption DEF Init
  <2>2. thread_pid \in [Tids -> Pids]
    BY Tables DEF Init
  <2>3. threads \in [Pids -> SUBSET Tids]
    BY Tables DEF Init
  <2> QED
    BY <2>1, <2>2, <2>3 DEF TreeTypeOK
<1>3. WaitTypeOK
  <2>1. <<>> \in Seq(Int)
    BY EmptySeq
  <2> QED
    BY <2>1, Tables DEF Init, WaitTypeOK
<1>4. ObjectsTypeOK
  <2>1. <<>> \in Seq(Tids)
    BY EmptySeq
  <2> QED
    BY <2>1 DEF Init, SyncInit, ObjectsTypeOK, SyncTypeOK
<1> QED
  BY <1>1, <1>2, <1>3, <1>4, TypeParts

LEMMA TypeNext == TypeOK /\ [Next]_vars => TypeOK'
<1> SUFFICES ASSUME TypeOK, [Next]_vars PROVE TypeOK'
  OBVIOUS
<1>0. RunTypeOK /\ TreeTypeOK /\ WaitTypeOK /\ ObjectsTypeOK
  BY TypeParts
<1>1. CASE SkipExited
  <2>1. ReadyTypeOK(ready') /\ UNCHANGED <<exit_vars, signal>>
    <3>1. ready \in Seq(Tids) /\ ready # <<>> /\ ready' = Tail(ready)
      BY <1>0, <1>1 DEF SkipExited, RunTypeOK, ReadyTypeOK, Rest
    <3>2. Tail(ready) \in Seq(Tids) /\ Len(Tail(ready)) = Len(ready) - 1 /\ Len(ready) \in Nat
      BY <3>1, OccursTail
    <3> QED
      BY <1>0, <1>1, <3>1, <3>2, KernelAssumption DEF SkipExited, RunTypeOK, ReadyTypeOK
  <2>2. RunTypeOK'
    BY <1>0, <2>1 DEF RunTypeOK, ReadyTypeOK, exit_vars
  <2>3. TreeTypeOK' /\ WaitTypeOK' /\ ObjectsTypeOK'
    BY <1>0, <1>1, FrameTypes DEF SkipExited
  <2> QED
    BY <2>2, <2>3, TypeParts, PTL
<1>2. ASSUME NEW t \in Tids, Thread(t) PROVE TypeOK'
  BY <1>2, SyncCallTypes, ThreadCreateTypes, ForkTypes, WaitpidTypes, ExitTypes, FaultTypes,
     SignalCallTypes
     DEF Thread, ProcessCall
<1>3. CASE UNCHANGED vars
  <2>1. RunTypeOK' /\ TreeTypeOK' /\ WaitTypeOK' /\ ObjectsTypeOK'
    BY <1>0, <1>3, FrameTypes DEF vars
  <2> QED
    BY <2>1, TypeParts, PTL
<1> QED
  BY <1>1, <1>2, <1>3 DEF Next

\* main.c, sync.c, signal.c: every handler leaves every table within its
\* ranges; in particular nothing but a thread is ever queued.
THEOREM KernelTypeOK == Spec => []TypeOK
<1> QED
  BY TypeInit, TypeNext, PTL DEF Spec

-----------------------------------------------------------------------------
(***************************************************************************)
(* Mutual exclusion.  MutualExclusion speaks of mutexes that exist; its    *)
(* inductive form adds that the others are free, because mutex_init does   *)
(* not touch what the history remembers.                                   *)
(***************************************************************************)
IsMutex(q) == q \in Objs /\ q[1] = "mutex"

MutexOK(q) == /\ q \notin objects => ~locked[q]
              /\ ~locked[q] => wait_queue[q] = <<>> /\ holders[q] = {}
              /\ \A t, u \in holders[q] : t = u

MutexInv == \A q \in Objs : IsMutex(q) => MutexOK(q)

\* Programs that release only mutexes they hold.
Careful == "unlock_any" \notin Workload

\* What concerns one mutex.
mutex_vars(q) == <<locked[q], wait_queue[q], holders[q], q \in objects>>

LEMMA WakingNobody ==
    ASSUME TypeOK, NEW q \in Objs
    PROVE  /\ waking(q) = TID_INVALID <=> wait_queue[q] = <<>>
           /\ waking(q) = TID_INVALID => wq_rest(wait_queue[q]) = <<>>
  BY OccursTail, Tables DEF TypeOK, SyncTypeOK, waking, wq_popped, wq_rest

\* Steps that have nothing to do with the mutex q.
LEMMA OtherMutex ==
    ASSUME NEW q, MutexOK(q), UNCHANGED mutex_vars(q)
    PROVE  MutexOK(q)'
  BY DEF MutexOK, mutex_vars

LEMMA LockKeepsMutex ==
    ASSUME TypeOK, NEW q \in Objs, NEW t, q \in objects, UNCHANGED objects,
           mutex_lock(q, t), MutexOK(q)
    PROVE  MutexOK(q)'
<1>1. CASE locked[q]
  BY <1>1 DEF mutex_lock, mutex_lock_ok, MutexOK, TypeOK, SyncTypeOK
<1>2. CASE ~locked[q]
  <2>1. holders'[q] = {t} /\ locked'[q] = TRUE
    BY <1>2 DEF mutex_lock, mutex_lock_ok, MutexOK, TypeOK, SyncTypeOK
  <2> QED
    BY <2>1 DEF MutexOK
<1> QED
  BY <1>1, <1>2

LEMMA UnlockKeepsMutex ==
    ASSUME TypeOK, NEW q \in Objs, NEW t \in holders[q], q \in objects, UNCHANGED objects,
           mutex_unlock(q, t), MutexOK(q)
    PROVE  MutexOK(q)'
<1>1. holders[q] \ {t} = {}
  BY DEF MutexOK
<1>2. holders'[q] = SetOf(waking(q)) /\ wait_queue'[q] = wq_rest(wait_queue[q])
  BY <1>1 DEF mutex_unlock, TypeOK, SyncTypeOK
<1>3. CASE waking(q) = TID_INVALID
  <2>1. holders'[q] = {} /\ wait_queue'[q] = <<>>
    BY <1>2, <1>3, WakingNobody DEF SetOf
  <2> QED
    BY <2>1 DEF MutexOK
<1>4. CASE waking(q) # TID_INVALID
  <2>1. holders'[q] = {waking(q)}
    BY <1>2, <1>4 DEF SetOf
  <2>2. locked'[q]
    BY <1>4 DEF mutex_unlock, MutexOK
  <2> QED
    BY <2>1, <2>2 DEF MutexOK
<1> QED
  BY <1>3, <1>4

LEMMA WaitKeepsMutex ==
    ASSUME TypeOK, NEW q \in Objs, NEW t \in holders[q], q \in objects, UNCHANGED objects,
           condvar_wait_with_mutex(q, t), MutexOK(q)
    PROVE  MutexOK(q)'
<1>1. holders[q] \ {t} = {} /\ locked[q]
  BY DEF MutexOK
<1>2. holders'[q] = SetOf(waking(q)) \cup (IF waking(q) = TID_INVALID THEN {t} ELSE {})
  BY <1>1 DEF condvar_wait_with_mutex, condvar_wait_ok, TypeOK, SyncTypeOK
<1>3. \E u : holders'[q] = {u}
  BY <1>2 DEF SetOf
<1>4. locked'[q]
  BY DEF condvar_wait_with_mutex, TypeOK, SyncTypeOK
<1> QED
  BY <1>3, <1>4 DEF MutexOK

\* An operation on one object leaves the others alone.
LEMMA SyncFrameOthers ==
    ASSUME SyncTypeOK, NEW m \in Objs, NEW q \in Objs, q # m, NEW t, NEW n,
           \/ mutex_lock(m, t) \/ mutex_unlock(m, t) \/ condvar_wait_with_mutex(m, t)
           \/ condvar_signal(m) \/ sem_up(m) \/ sem_down(m, t)
           \/ mutex_init(m) \/ sem_init(m, n) \/ condvar_init(m)
    PROVE  /\ locked'[q] = locked[q] /\ wait_queue'[q] = wait_queue[q]
           /\ holders'[q] = holders[q] /\ count'[q] = count[q]
<1> USE DEF SyncTypeOK
<1>1. CASE mutex_lock(m, t)
  BY <1>1 DEF mutex_lock
<1>2. CASE mutex_unlock(m, t)
  BY <1>2 DEF mutex_unlock
<1>3. CASE condvar_wait_with_mutex(m, t)
  BY <1>3 DEF condvar_wait_with_mutex
<1>4. CASE condvar_signal(m) \/ condvar_init(m)
  BY <1>4 DEF condvar_signal, condvar_init
<1>5. CASE sem_up(m) \/ sem_down(m, t)
  BY <1>5 DEF sem_up, sem_down
<1>6. CASE mutex_init(m) \/ sem_init(m, n)
  BY <1>6 DEF mutex_init, sem_init
<1> QED
  BY <1>1, <1>2, <1>3, <1>4, <1>5, <1>6

LEMMA SyncCallKeepsMutex ==
    ASSUME TypeOK, MutexInv, Careful, NEW t, SyncCall(t)
    PROVE  MutexInv'
<1>0. RunTypeOK /\ TreeTypeOK /\ SyncTypeOK
  BY TypeParts DEF ObjectsTypeOK
<1>1. Runs(t)
  BY DEF SyncCall, MutexCreate, SemaphoreCreate, CondvarCreate, MutexLock, MutexUnlock,
         SemaphoreUp, SemaphoreDown, CondvarSignal, CondvarWait
<1>2. Pid(t) \in Pids
  BY <1>0, <1>1, RunsTypes DEF TreeTypeOK, Pid
<1>3. \A kind \in Kinds, i \in Slots : <<kind, Pid(t), i>> \in Objs
  BY <1>2 DEF Objs
<1> SUFFICES ASSUME NEW q \in Objs, IsMutex(q), MutexOK(q)
             PROVE  MutexOK(q)'
  BY DEF MutexInv, IsMutex
<1> USE DEF Kinds, IsMutex
<1>4. ASSUME UNCHANGED <<objects, sync_vars>> PROVE MutexOK(q)'
  BY <1>4, OtherMutex DEF mutex_vars, sync_vars
<1>5. ASSUME NEW m \in Objs, m # q, NEW u, NEW n, objects' \in {objects, objects \cup {m}},
             \/ mutex_lock(m, u) \/ mutex_unlock(m, u) \/ condvar_wait_with_mutex(m, u)
             \/ condvar_signal(m) \/ sem_up(m) \/ sem_down(m, u)
             \/ mutex_init(m) \/ sem_init(m, n) \/ condvar_init(m)
      PROVE  MutexOK(q)'
  BY <1>0, <1>5, SyncFrameOthers, OtherMutex DEF mutex_vars
<1>6. CASE MutexCreate(t)
  <2> DEFINE m == New("mutex", t)
  <2>1. CASE Full("mutex", t)
    BY <1>4, <1>6, <2>1 DEF MutexCreate
  <2>2. CASE ~Full("mutex", t)
    <3>1. m \in Objs /\ m \notin objects /\ objects' = objects \cup {m} /\ mutex_init(m)
      BY <1>2, <1>6, <2>2, FreeEntry DEF MutexCreate
    <3> HIDE DEF m
    <3>2. CASE m = q
      BY <1>0, <3>1, <3>2 DEF MutexOK, mutex_init, SyncTypeOK
    <3> QED
      BY <1>5, <3>1, <3>2
  <2> QED
    BY <2>1, <2>2
<1>7. ASSUME NEW n, SemaphoreCreate(t, n) PROVE MutexOK(q)'
  <2> DEFINE m == New("semaphore", t)
  <2>1. CASE ~Full("semaphore", t)
    <3>1. m \in Objs /\ m # q /\ objects' = objects \cup {m} /\ sem_init(m, n)
      BY <1>2, <1>7, <2>1, FreeEntry DEF SemaphoreCreate, New
    <3> QED
      BY <1>5, <3>1
  <2> QED
    BY <1>4, <1>7, <2>1 DEF SemaphoreCreate
<1>8. CASE CondvarCreate(t)
  <2> DEFINE m == New("condvar", t)
  <2>1. CASE ~Full("condvar", t)
    <3>1. m \in Objs /\ m # q /\ objects' = objects \cup {m} /\ condvar_init(m)
      BY <1>2, <1>8, <2>1, FreeEntry DEF CondvarCreate, New
    <3> QED
      BY <1>5, <3>1
  <2> QED
    BY <1>4, <1>8, <2>1 DEF CondvarCreate
<1>9. ASSUME NEW i \in Slots, MutexLock(t, i) PROVE MutexOK(q)'
  <2> DEFINE m == <<"mutex", Pid(t), i>>
  <2>1. m \in Objs /\ UNCHANGED objects
    BY <1>3, <1>9 DEF MutexLock
  <2>2. CASE m \in objects
    <3>1. mutex_lock(m, t)
      BY <1>9, <2>2 DEF MutexLock
    <3> HIDE DEF m
    <3> QED
      BY <1>5, <2>1, <2>2, <3>1, LockKeepsMutex
  <2> QED
    BY <1>4, <1>9, <2>2 DEF MutexLock
<1>10. ASSUME NEW i \in Slots, MutexUnlock(t, i) PROVE MutexOK(q)'
  <2> DEFINE m == <<"mutex", Pid(t), i>>
  <2>1. m \in Objs /\ UNCHANGED objects /\ m \in objects /\ mutex_unlock(m, t) /\ t \in holders[m]
    BY <1>3, <1>10 DEF MutexUnlock, MayRelease, Uses, Careful
  <2> HIDE DEF m
  <2> QED
    BY <1>5, <2>1, UnlockKeepsMutex
<1>11. ASSUME NEW i \in Slots, SemaphoreUp(t, i) PROVE MutexOK(q)'
  <2> DEFINE m == <<"semaphore", Pid(t), i>>
  <2>1. m \in Objs /\ UNCHANGED objects /\ m # q /\ sem_up(m)
    BY <1>3, <1>11 DEF SemaphoreUp
  <2> QED
    BY <1>5, <2>1
<1>12. ASSUME NEW i \in Slots, SemaphoreDown(t, i) PROVE MutexOK(q)'
  <2> DEFINE m == <<"semaphore", Pid(t), i>>
  <2>1. m \in Objs /\ UNCHANGED objects /\ m # q
    BY <1>3, <1>12 DEF SemaphoreDown
  <2>2. sem_down(m, t) \/ UNCHANGED sync_vars
    BY <1>12 DEF SemaphoreDown
  <2> QED
    BY <1>4, <1>5, <2>1, <2>2
<1>13. ASSUME NEW i \in Slots, CondvarSignal(t, i) PROVE MutexOK(q)'
  <2> DEFINE m == <<"condvar", Pid(t), i>>
  <2>1. m \in Objs /\ UNCHANGED objects /\ m # q /\ condvar_signal(m)
    BY <1>3, <1>13 DEF CondvarSignal
  <2> QED
    BY <1>5, <2>1
<1>14. ASSUME NEW i \in Slots, NEW j \in Slots, CondvarWait(t, i, j) PROVE MutexOK(q)'
  <2> DEFINE m == <<"mutex", Pid(t), j>>
  <2>1. m \in Objs /\ UNCHANGED objects /\ t \in holders[m]
    BY <1>3, <1>14 DEF CondvarWait, MayRelease, Uses, Careful
  <2>2. \/ m \in objects /\ condvar_wait_with_mutex(m, t)
        \/ UNCHANGED sync_vars
    BY <1>14 DEF CondvarWait
  <2> HIDE DEF m
  <2> QED
    BY <1>4, <1>5, <2>1, <2>2, WaitKeepsMutex
<1> QED
  BY <1>6, <1>7, <1>8, <1>9, <1>10, <1>11, <1>12, <1>13, <1>14 DEF SyncCall

LEMMA MutexInit == Init => MutexInv
  BY DEF Init, SyncInit, MutexInv, MutexOK

LEMMA MutexNext == TypeOK /\ MutexInv /\ Careful /\ [Next]_vars => MutexInv'
<1> SUFFICES ASSUME TypeOK, MutexInv, Careful, [Next]_vars PROVE MutexInv'
  OBVIOUS
<1>1. ASSUME UNCHANGED <<objects, sync_vars>> PROVE MutexInv'
  BY <1>1, OtherMutex DEF MutexInv, mutex_vars, sync_vars
<1>2. CASE SkipExited \/ UNCHANGED vars
  BY <1>1, <1>2 DEF SkipExited, vars
<1>3. ASSUME NEW t, Plain(t) \/ ProcessCall(t) \/ SignalCalls(t) PROVE MutexInv'
  <2>1. UNCHANGED <<objects, sync_vars>>
    BY <1>3 DEF Plain, ProcessCall, SignalCalls, ThreadCreate, Fork, Exec, Waitpid, Exit, Exception,
       Unsupported, Kill, Sigaction, Sigprocmask, Sigreturn, SignalCall
  <2> QED
    BY <1>1, <2>1
<1> QED
  BY <1>2, <1>3, SyncCallKeepsMutex DEF Next, Thread

\* sync.c, mutex_lock, mutex_unlock, condvar_wait_with_mutex, through any
\* number of threads that are blocked, woken, killed or exit: programs that
\* release only mutexes they hold never hold one together.
THEOREM KernelMutualExclusion == ASSUME Careful PROVE Spec => []MutualExclusion
<1>1. TypeOK /\ MutexInv /\ [Next]_vars => (TypeOK /\ MutexInv)'
  BY TypeNext, MutexNext
<1>2. Init => TypeOK /\ MutexInv
  BY TypeInit, MutexInit
<1>3. TypeOK /\ MutexInv => MutualExclusion
  BY DEF MutexInv, MutexOK, IsMutex, MutualExclusion, TypeOK
<1> QED
  BY <1>1, <1>2, <1>3, PTL DEF Spec

-----------------------------------------------------------------------------
(***************************************************************************)
(* One place per thread.  The handlers move threads in small steps: take   *)
(* the head of the ready queue, push it here, wake another, put it back.   *)
(* Between two of them the running thread is in no place.  Each step is a  *)
(* lemma about a ready queue rq, wait queues w, waiting threads wt, owners *)
(* tp and the next thread id n; an action composes them.                   *)
(***************************************************************************)
Waits(p, wt, tp) == wt[p] # TID_INVALID /\ tp[wt[p]] = p

PlacesType(rq, w, wt, tp, n) == /\ rq \in Seq(Tids) /\ w \in [Objs -> Seq(Tids)]
                                /\ wt \in [Pids -> Tids \cup {TID_INVALID}]
                                /\ tp \in [Tids -> Pids] /\ n \in 1 .. MAX_TIDS

Apart(rq, w, wt, tp) ==
    /\ Distinct(rq)
    /\ \A q \in Objs : Distinct(w[q]) /\ \A u : ~(Occurs(u, rq) /\ Occurs(u, w[q]))
    /\ \A q, r \in Objs : q # r => \A u : ~(Occurs(u, w[q]) /\ Occurs(u, w[r]))
    /\ \A p \in Pids : Waits(p, wt, tp) =>
          ~Occurs(wt[p], rq) /\ \A q \in Objs : ~Occurs(wt[p], w[q])

\* Only threads that have been created are anywhere.
Created(rq, w, wt, n) == /\ \A u : Occurs(u, rq) => u < n
                         /\ \A q \in Objs : \A u : Occurs(u, w[q]) => u < n
                         /\ \A p \in Pids : wt[p] < n

Places(rq, w, wt, tp, n) == /\ PlacesType(rq, w, wt, tp, n)
                            /\ Apart(rq, w, wt, tp)
                            /\ Created(rq, w, wt, n)

\* The created thread t is in no place: the kernel has it in its hands.
Hand(t, rq, w, wt, tp, n) == /\ t \in Tids /\ t < n
                             /\ ~Occurs(t, rq)
                             /\ \A q \in Objs : ~Occurs(t, w[q])
                             /\ \A p \in Pids : Waits(p, wt, tp) => wt[p] # t

LEMMA TakeHead ==
    ASSUME NEW rq, NEW w, NEW wt, NEW tp, NEW n, Places(rq, w, wt, tp, n), rq # <<>>
    PROVE  Places(Tail(rq), w, wt, tp, n) /\ Hand(Head(rq), Tail(rq), w, wt, tp, n)
<1>1. /\ Tail(rq) \in Seq(Tids) /\ Head(rq) \in Tids /\ Occurs(Head(rq), rq)
      /\ \A u : Occurs(u, Tail(rq)) => Occurs(u, rq)
      /\ Distinct(Tail(rq)) /\ ~Occurs(Head(rq), Tail(rq))
  BY OccursTail DEF Places, PlacesType, Apart
<1>2. PlacesType(Tail(rq), w, wt, tp, n)
  BY <1>1 DEF Places, PlacesType
<1>3. Apart(Tail(rq), w, wt, tp)
  BY <1>1 DEF Places, Apart
<1>4. Created(Tail(rq), w, wt, n)
  BY <1>1 DEF Places, Created
<1>5. Hand(Head(rq), Tail(rq), w, wt, tp, n)
  BY <1>1 DEF Places, Apart, Created, Hand
<1> QED
  BY <1>2, <1>3, <1>4, <1>5 DEF Places

LEMMA PutReady ==
    ASSUME NEW rq, NEW w, NEW wt, NEW tp, NEW n, Places(rq, w, wt, tp, n),
           NEW t, Hand(t, rq, w, wt, tp, n)
    PROVE  /\ Places(ready_enqueue(rq, t), w, wt, tp, n)
           /\ \A v : v # t /\ Hand(v, rq, w, wt, tp, n) => Hand(v, ready_enqueue(rq, t), w, wt, tp, n)
<1> DEFINE s == Append(rq, t)
<1>1. /\ s \in Seq(Tids)
      /\ \A u : Occurs(u, s) <=> Occurs(u, rq) \/ u = t
      /\ Distinct(s)
  BY OccursAppend DEF Places, PlacesType, Apart, Hand
<1>2. ready_enqueue(rq, t) \in {s, rq}
  BY DEF ready_enqueue
<1> HIDE DEF s
<1>3. PlacesType(s, w, wt, tp, n)
  BY <1>1 DEF Places, PlacesType
<1>4. Apart(s, w, wt, tp)
  BY <1>1 DEF Places, Apart, Hand
<1>5. Created(s, w, wt, n)
  BY <1>1 DEF Places, Created, Hand
<1>6. \A v : v # t /\ Hand(v, rq, w, wt, tp, n) => Hand(v, s, w, wt, tp, n)
  BY <1>1 DEF Hand
<1> QED
  BY <1>2, <1>3, <1>4, <1>5, <1>6 DEF Places

LEMMA PutWaiting ==
    ASSUME NEW rq, NEW w, NEW wt, NEW tp, NEW n, Places(rq, w, wt, tp, n),
           NEW t, Hand(t, rq, w, wt, tp, n), NEW q \in Objs
    PROVE  Places(rq, [w EXCEPT ![q] = wq_push(@, t)], wt, tp, n)
<1> DEFINE s == wq_push(w[q], t)
           w2 == [w EXCEPT ![q] = s]
<1>1. /\ s \in Seq(Tids)
      /\ \A u : Occurs(u, s) => Occurs(u, w[q]) \/ u = t
      /\ Distinct(s)
  BY OccursAppend DEF Places, PlacesType, Apart, Hand, wq_push
<1>2. w2[q] = s /\ \A r \in Objs : r # q => w2[r] = w[r]
  BY DEF Places, PlacesType
<1>3. PlacesType(rq, w2, wt, tp, n)
  BY <1>1 DEF Places, PlacesType
<1> HIDE DEF s, w2
<1>4. Apart(rq, w2, wt, tp)
  <2>1. \A r \in Objs : Distinct(w2[r]) /\ \A u : ~(Occurs(u, rq) /\ Occurs(u, w2[r]))
    BY <1>1, <1>2 DEF Places, Apart, Hand
  <2>2. \A q1, r \in Objs : q1 # r => \A u : ~(Occurs(u, w2[q1]) /\ Occurs(u, w2[r]))
    BY <1>1, <1>2 DEF Places, Apart, Hand
  <2>3. \A p \in Pids : Waits(p, wt, tp) =>
           ~Occurs(wt[p], rq) /\ \A r \in Objs : ~Occurs(wt[p], w2[r])
    BY <1>1, <1>2 DEF Places, Apart, Hand
  <2> QED
    BY <2>1, <2>2, <2>3 DEF Places, Apart
<1>5. Created(rq, w2, wt, n)
  BY <1>1, <1>2 DEF Places, Created, Hand
<1> QED
  BY <1>3, <1>4, <1>5 DEF Places, s, w2

\* Removing from a wait queue: by a wake-up, or a new object's empty queue.
LEMMA ShrinkWaiting ==
    ASSUME NEW rq, NEW w, NEW wt, NEW tp, NEW n, Places(rq, w, wt, tp, n),
           NEW q \in Objs, NEW s \in Seq(Tids), Distinct(s), \A u : Occurs(u, s) => Occurs(u, w[q])
    PROVE  /\ Places(rq, [w EXCEPT ![q] = s], wt, tp, n)
           /\ \A v : Hand(v, rq, w, wt, tp, n) => Hand(v, rq, [w EXCEPT ![q] = s], wt, tp, n)
<1> DEFINE w2 == [w EXCEPT ![q] = s]
<1>1. w2[q] = s /\ \A r \in Objs : r # q => w2[r] = w[r]
  BY DEF Places, PlacesType
<1>2. PlacesType(rq, w2, wt, tp, n)
  BY DEF Places, PlacesType
<1> HIDE DEF w2
<1>3. \A r \in Objs : /\ Distinct(w2[r])
                     /\ \A u : Occurs(u, w2[r]) => Occurs(u, w[r])
  BY <1>1 DEF Places, Apart
<1>4. Apart(rq, w2, wt, tp)
  <2>1. \A r \in Objs : Distinct(w2[r]) /\ \A u : ~(Occurs(u, rq) /\ Occurs(u, w2[r]))
    BY <1>3 DEF Places, Apart
  <2>2. \A q1, r \in Objs : q1 # r => \A u : ~(Occurs(u, w2[q1]) /\ Occurs(u, w2[r]))
    BY <1>3 DEF Places, Apart
  <2>3. \A p \in Pids : Waits(p, wt, tp) =>
           ~Occurs(wt[p], rq) /\ \A r \in Objs : ~Occurs(wt[p], w2[r])
    BY <1>3 DEF Places, Apart
  <2> QED
    BY <2>1, <2>2, <2>3 DEF Places, Apart
<1>5. Created(rq, w2, wt, n)
  BY <1>3 DEF Places, Created
<1>6. \A v : Hand(v, rq, w, wt, tp, n) => Hand(v, rq, w2, wt, tp, n)
  BY <1>3 DEF Hand
<1> QED
  BY <1>2, <1>4, <1>5, <1>6 DEF Places, w2

\* A release: the oldest waiter of q, if any, goes to the ready queue.
LEMMA WakeOldest ==
    ASSUME NEW rq, NEW w, NEW wt, NEW tp, NEW n, Places(rq, w, wt, tp, n), NEW q \in Objs
    PROVE  LET rq2 == ready_wake(rq, wq_popped(w[q]))
               w2  == [w EXCEPT ![q] = wq_rest(@)]
           IN  /\ Places(rq2, w2, wt, tp, n)
               /\ \A v : Hand(v, rq, w, wt, tp, n) => Hand(v, rq2, w2, wt, tp, n)
<1> DEFINE s  == wq_rest(w[q])
           w2 == [w EXCEPT ![q] = s]
           u  == wq_popped(w[q])
<1>1. w[q] \in Seq(Tids) /\ Distinct(w[q])
  BY DEF Places, PlacesType, Apart
<1>2. CASE w[q] = <<>>
  <2>1. u = TID_INVALID /\ s = w[q]
    BY <1>2 DEF wq_popped, wq_rest
  <2>2. w2 = w
    BY <2>1 DEF Places, PlacesType
  <2> QED
    BY <2>1, <2>2 DEF ready_wake
<1>3. CASE w[q] # <<>>
  <2>1. u = Head(w[q]) /\ s = Tail(w[q])
    BY <1>3 DEF wq_popped, wq_rest
  <2>2. /\ s \in Seq(Tids) /\ Distinct(s) /\ u \in Tids
        /\ \A x : Occurs(x, s) => Occurs(x, w[q])
        /\ Occurs(u, w[q]) /\ ~Occurs(u, s)
    BY <1>1, <1>3, <2>1, OccursTail
  <2>3. w2[q] = s /\ \A r \in Objs : r # q => w2[r] = w[r]
    BY DEF Places, PlacesType
  <2> HIDE DEF s, u, w2
  <2>4. /\ Places(rq, w2, wt, tp, n)
        /\ \A v : Hand(v, rq, w, wt, tp, n) => Hand(v, rq, w2, wt, tp, n)
    BY <2>2, ShrinkWaiting DEF w2
  <2>5. Hand(u, rq, w2, wt, tp, n)
    BY <2>2, <2>3 DEF Places, Apart, Created, Hand
  <2>6. \A v : Hand(v, rq, w, wt, tp, n) => v # u
    BY <2>2 DEF Hand
  <2>7. ready_wake(rq, u) = ready_enqueue(rq, u)
    BY <2>2, Tables DEF ready_wake
  <2>8. /\ Places(ready_wake(rq, u), w2, wt, tp, n)
        /\ \A v : Hand(v, rq, w, wt, tp, n) => Hand(v, ready_wake(rq, u), w2, wt, tp, n)
    BY <2>4, <2>5, <2>6, <2>7, PutReady
  <2> QED
    BY <2>8 DEF s, u, w2
<1> QED
  BY <1>2, <1>3

\* waitpid blocks the running thread t of process p.
LEMMA BeginWait ==
    ASSUME NEW rq, NEW w, NEW wt, NEW tp, NEW n, Places(rq, w, wt, tp, n),
           NEW t, Hand(t, rq, w, wt, tp, n), NEW p \in Pids
    PROVE  Places(rq, w, [wt EXCEPT ![p] = t], tp, n)
<1> DEFINE wt2 == [wt EXCEPT ![p] = t]
<1>1. wt2[p] = t /\ \A o \in Pids : o # p => wt2[o] = wt[o]
  BY DEF Places, PlacesType
<1>2. PlacesType(rq, w, wt2, tp, n)
  BY DEF Places, PlacesType, Hand
<1> HIDE DEF wt2
<1>3. Apart(rq, w, wt2, tp)
  BY <1>1 DEF Places, Apart, Hand, Waits
<1>4. Created(rq, w, wt2, n)
  BY <1>1 DEF Places, Created, Hand
<1> QED
  BY <1>2, <1>3, <1>4 DEF Places, wt2

\* An exit ends the wait of process a and wakes its thread.
LEMMA EndWait ==
    ASSUME NEW rq, NEW w, NEW wt, NEW tp, NEW n, Places(rq, w, wt, tp, n),
           NEW a \in Pids, Waits(a, wt, tp)
    PROVE  Places(ready_enqueue(rq, wt[a]), w, [wt EXCEPT ![a] = TID_INVALID], tp, n)
<1> DEFINE wt2 == [wt EXCEPT ![a] = TID_INVALID]
<1>1. wt2[a] = TID_INVALID /\ \A o \in Pids : o # a => wt2[o] = wt[o]
  BY DEF Places, PlacesType
<1>2. PlacesType(rq, w, wt2, tp, n)
  BY DEF Places, PlacesType
<1> HIDE DEF wt2
<1>3. Apart(rq, w, wt2, tp)
  BY <1>1 DEF Places, Apart, Waits
<1>4. Created(rq, w, wt2, n)
  BY <1>1 DEF Places, PlacesType, Created, TID_INVALID
<1>5. Hand(wt[a], rq, w, wt2, tp, n)
  BY <1>1 DEF Places, PlacesType, Apart, Created, Hand, Waits
<1> QED
  BY <1>2, <1>3, <1>4, <1>5, PutReady DEF Places, wt2

\* A thread of process p is created.
LEMMA NewThread ==
    ASSUME NEW rq, NEW w, NEW wt, NEW tp, NEW n, Places(rq, w, wt, tp, n),
           n < MAX_TIDS, NEW p \in Pids
    PROVE  /\ Places(rq, w, wt, [tp EXCEPT ![n] = p], n + 1)
           /\ Hand(n, rq, w, wt, [tp EXCEPT ![n] = p], n + 1)
           /\ \A v : Hand(v, rq, w, wt, tp, n) =>
                    v # n /\ Hand(v, rq, w, wt, [tp EXCEPT ![n] = p], n + 1)
<1> DEFINE tp2 == [tp EXCEPT ![n] = p]
<1>1. n \in Tids /\ n + 1 \in 1 .. MAX_TIDS
  BY Tables DEF Places, PlacesType, Tids
<1>2. tp2 \in [Tids -> Pids] /\ \A u \in Tids : u # n => tp2[u] = tp[u]
  BY <1>1 DEF Places, PlacesType
<1> HIDE DEF tp2
<1>3. \A o \in Pids : Waits(o, wt, tp2) => Waits(o, wt, tp)
  <2>1. \A o \in Pids : wt[o] \in Tids \cup {TID_INVALID} /\ wt[o] # n
    BY <1>1, Tables DEF Places, PlacesType, Created
  <2> QED
    BY <1>2, <2>1 DEF Waits
<1>4. PlacesType(rq, w, wt, tp2, n + 1)
  BY <1>1, <1>2 DEF Places, PlacesType
<1>5. Apart(rq, w, wt, tp2)
  BY <1>3 DEF Places, Apart
<1>6. \A u : Occurs(u, rq) => u \in Tids
  BY DEF Places, PlacesType, Occurs
<1>7. \A q \in Objs : \A u : Occurs(u, w[q]) => u \in Tids
  BY DEF Places, PlacesType, Occurs
<1>8. Created(rq, w, wt, n + 1)
  <2>1. \A u \in Tids \cup {TID_INVALID} : u < n => u < n + 1
    BY <1>1, Tables DEF TID_INVALID
  <2>2. \A o \in Pids : wt[o] \in Tids \cup {TID_INVALID} /\ wt[o] < n
    BY DEF Places, PlacesType, Created
  <2>3. \A u : Occurs(u, rq) => u < n + 1
    BY <1>6, <2>1 DEF Places, Created
  <2>4. \A q \in Objs : \A u : Occurs(u, w[q]) => u < n + 1
    BY <1>7, <2>1 DEF Places, Created
  <2> QED
    BY <2>1, <2>2, <2>3, <2>4 DEF Created
<1>9. Hand(n, rq, w, wt, tp2, n + 1)
  <2>1. ~Occurs(n, rq) /\ (\A q \in Objs : ~Occurs(n, w[q])) /\ \A o \in Pids : wt[o] # n
    BY <1>1, Tables DEF Places, Created
  <2> QED
    BY <1>1, <2>1, Tables DEF Hand
<1>10. \A v : Hand(v, rq, w, wt, tp, n) => v # n /\ Hand(v, rq, w, wt, tp2, n + 1)
  BY <1>1, <1>3, Tables DEF Hand
<1> QED
  BY <1>4, <1>5, <1>8, <1>9, <1>10 DEF Places, tp2

\* fork leaves 0 in the child's waiting_tid: the first thread of process 0,
\* which is not the child's, so the child does not wait.
LEMMA NotWaiting ==
    ASSUME NEW rq, NEW w, NEW wt, NEW tp, NEW n, Places(rq, w, wt, tp, n),
           NEW c \in Pids, tp[0] # c
    PROVE  /\ Places(rq, w, [wt EXCEPT ![c] = 0], tp, n)
           /\ \A v : Hand(v, rq, w, wt, tp, n) => Hand(v, rq, w, [wt EXCEPT ![c] = 0], tp, n)
<1> DEFINE wt2 == [wt EXCEPT ![c] = 0]
<1>1. wt2[c] = 0 /\ \A o \in Pids : o # c => wt2[o] = wt[o]
  BY DEF Places, PlacesType
<1>2. PlacesType(rq, w, wt2, tp, n)
  BY Tables DEF Places, PlacesType
<1> HIDE DEF wt2
<1>3. \A o \in Pids : Waits(o, wt2, tp) => Waits(o, wt, tp) /\ wt2[o] = wt[o]
  BY <1>1 DEF Waits
<1>4. Apart(rq, w, wt2, tp)
  BY <1>3 DEF Places, Apart
<1>5. Created(rq, w, wt2, n)
  BY <1>1 DEF Places, PlacesType, Created
<1>6. \A v : Hand(v, rq, w, wt, tp, n) => Hand(v, rq, w, wt2, tp, n)
  BY <1>3 DEF Hand
<1> QED
  BY <1>2, <1>4, <1>5, <1>6 DEF Places, wt2

\* The end of the iteration: the thread goes back to the queue or nowhere.
LEMMA ReturnPlaces ==
    ASSUME NEW rq, NEW w, NEW wt, NEW tp, NEW n, Places(rq, w, wt, tp, n),
           NEW t, Hand(t, rq, w, wt, tp, n), NEW sm, NEW b, Return(t, rq, sm, b)
    PROVE  Places(ready', w, wt, tp, n)
<1>1. ready' \in {rq, ready_enqueue(rq, t)}
  BY DEF Return, requeue
<1> QED
  BY <1>1, PutReady

LEMMA ReturnBlocked ==
    ASSUME NEW t, NEW rq, NEW sm, NEW b, b, Return(t, rq, sm, b)
    PROVE  ready' = rq
  BY DEF Return, requeue

-----------------------------------------------------------------------------
\* The invariant: places, and what waiting_tid can be.
PlacesInv == Places(ready, wait_queue, waiting_tid, thread_pid, g_next_tid)

WaitFieldOK(p) == \/ waiting_tid[p] = TID_INVALID
                  \/ Waiting(p)
                  \/ waiting_tid[p] = 0 /\ waiting_for[p] = 0

WaitInv == /\ thread_pid[0] = 0
           /\ parent[0] = PID_INVALID
           /\ \A p \in Pids : WaitFieldOK(p)

\* What the running thread sees: it is in the kernel's hands.
LEMMA RunningInHand ==
    ASSUME PlacesInv, NEW t, Runs(t)
    PROVE  /\ Places(Rest, wait_queue, waiting_tid, thread_pid, g_next_tid)
           /\ Hand(t, Rest, wait_queue, waiting_tid, thread_pid, g_next_tid)
           /\ t \in Tids /\ Pid(t) \in Pids
<1>1. ready # <<>> /\ t = Head(ready)
  BY DEF Runs
<1>2. /\ Places(Rest, wait_queue, waiting_tid, thread_pid, g_next_tid)
      /\ Hand(t, Rest, wait_queue, waiting_tid, thread_pid, g_next_tid)
  BY <1>1, TakeHead DEF PlacesInv, Rest
<1> QED
  BY <1>2 DEF Hand, Places, PlacesType, Pid

LEMMA SyncCallKeepsPlaces ==
    ASSUME PlacesInv, NEW t, SyncCall(t)
    PROVE  PlacesInv'
<1> DEFINE P(rq, w) == Places(rq, w, waiting_tid, thread_pid, g_next_tid)
           H(rq, w) == Hand(t, rq, w, waiting_tid, thread_pid, g_next_tid)
<1>0. Runs(t) /\ UNCHANGED <<g_next_tid, thread_pid, waiting_tid>>
  BY DEF SyncCall, MutexCreate, SemaphoreCreate, CondvarCreate, MutexLock, MutexUnlock,
         SemaphoreUp, SemaphoreDown, CondvarSignal, CondvarWait, SyncFrame, tree_vars, wait_vars
<1>1. P(Rest, wait_queue) /\ H(Rest, wait_queue) /\ Pid(t) \in Pids
  BY <1>0, RunningInHand
<1>2. \A kind \in Kinds, i \in Slots : <<kind, Pid(t), i>> \in Objs
  BY <1>1 DEF Objs
<1> SUFFICES P(ready', wait_queue')
  BY <1>0 DEF PlacesInv
<1> USE DEF Kinds
\* A new object: its queue is empty.
<1>3. ASSUME NEW kind \in Kinds, NEW n, Resume(t),
             IF Full(kind, t) THEN UNCHANGED <<objects, sync_vars>>
             ELSE /\ objects' = objects \cup {New(kind, t)}
                  /\ \/ mutex_init(New(kind, t)) \/ sem_init(New(kind, t), n)
                     \/ condvar_init(New(kind, t))
      PROVE  P(ready', wait_queue')
  <2>1. CASE Full(kind, t)
    BY <1>1, <1>3, <2>1, ReturnPlaces DEF Resume, sync_vars
  <2>2. CASE ~Full(kind, t)
    <3>1. New(kind, t) \in Objs
      BY <1>1, <2>2, FreeEntry
    <3>2. wait_queue' = [wait_queue EXCEPT ![New(kind, t)] = <<>>]
      BY <1>3, <2>2 DEF mutex_init, sem_init, condvar_init
    <3>3. <<>> \in Seq(Tids) /\ Distinct(<<>>) /\ \A u : ~Occurs(u, <<>>)
      BY EmptySeq DEF Distinct, Occurs
    <3>4. P(Rest, wait_queue') /\ H(Rest, wait_queue')
      BY <1>1, <3>1, <3>2, <3>3, ShrinkWaiting
    <3> QED
      BY <1>3, <3>4, ReturnPlaces DEF Resume
  <2> QED
    BY <2>1, <2>2
\* A release: the oldest waiter wakes.
<1>4. ASSUME NEW q \in Objs, wait_queue' = [wait_queue EXCEPT ![q] = wq_rest(@)]
      PROVE  /\ P(ready_wake(Rest, waking(q)), wait_queue')
             /\ H(ready_wake(Rest, waking(q)), wait_queue')
  BY <1>1, <1>4, WakeOldest DEF waking
<1>5. ASSUME NEW q \in Objs, wait_queue' = [wait_queue EXCEPT ![q] = wq_rest(@)],
             Return(t, ready_wake(Rest, waking(q)), signal, FALSE)
      PROVE  P(ready', wait_queue')
  BY <1>4, <1>5, ReturnPlaces
\* An acquisition: t goes on or waits.
<1>6. ASSUME NEW b, Return(t, Rest, signal, b), UNCHANGED wait_queue
      PROVE  P(ready', wait_queue')
  BY <1>1, <1>6, ReturnPlaces
<1>7. ASSUME NEW q \in Objs, NEW b, b, Return(t, Rest, signal, b),
             wait_queue' = [wait_queue EXCEPT ![q] = wq_push(@, t)]
      PROVE  P(ready', wait_queue')
  BY <1>1, <1>7, PutWaiting, ReturnBlocked
<1>8. CASE MutexCreate(t)
  BY <1>3, <1>8 DEF MutexCreate
<1>9. ASSUME NEW n, SemaphoreCreate(t, n) PROVE P(ready', wait_queue')
  BY <1>3, <1>9 DEF SemaphoreCreate
<1>10. CASE CondvarCreate(t)
  BY <1>3, <1>10 DEF CondvarCreate
<1>11. ASSUME NEW i \in Slots, MutexUnlock(t, i) PROVE P(ready', wait_queue')
  BY <1>2, <1>5, <1>11 DEF MutexUnlock, mutex_unlock
<1>12. ASSUME NEW i \in Slots, SemaphoreUp(t, i) PROVE P(ready', wait_queue')
  BY <1>2, <1>5, <1>12 DEF SemaphoreUp, sem_up
<1>13. ASSUME NEW i \in Slots, CondvarSignal(t, i) PROVE P(ready', wait_queue')
  BY <1>2, <1>5, <1>13 DEF CondvarSignal, condvar_signal
<1>14. ASSUME NEW i \in Slots, MutexLock(t, i) PROVE P(ready', wait_queue')
  <2> DEFINE q == <<"mutex", Pid(t), i>>
             b == q \notin objects \/ ~mutex_lock_ok(q)
  <2>1. q \in Objs /\ Return(t, Rest, signal, b)
    BY <1>2, <1>14 DEF MutexLock
  <2>2. \/ UNCHANGED wait_queue
        \/ b /\ wait_queue' = [wait_queue EXCEPT ![q] = wq_push(@, t)]
    BY <1>14 DEF MutexLock, mutex_lock, sync_vars
  <2> HIDE DEF q, b
  <2> QED
    BY <1>6, <1>7, <2>1, <2>2
<1>15. ASSUME NEW i \in Slots, SemaphoreDown(t, i) PROVE P(ready', wait_queue')
  <2> DEFINE q == <<"semaphore", Pid(t), i>>
             b == q \notin objects \/ ~sem_down_ok(q)
  <2>1. q \in Objs /\ Return(t, Rest, signal, b)
    BY <1>2, <1>15 DEF SemaphoreDown
  <2>2. \/ UNCHANGED wait_queue
        \/ b /\ wait_queue' = [wait_queue EXCEPT ![q] = wq_push(@, t)]
    BY <1>15 DEF SemaphoreDown, sem_down, sync_vars
  <2> HIDE DEF q, b
  <2> QED
    BY <1>6, <1>7, <2>1, <2>2
<1>16. ASSUME NEW i \in Slots, NEW j \in Slots, CondvarWait(t, i, j) PROVE P(ready', wait_queue')
  <2> DEFINE q  == <<"condvar", Pid(t), i>>
             m  == <<"mutex", Pid(t), j>>
             ex == q \in objects /\ m \in objects
             w2 == [wait_queue EXCEPT ![m] = wq_rest(@)]
             r2 == ready_wake(Rest, waking(m))
  <2>1. m \in Objs
    BY <1>2
  <2>2. CASE ~ex
    BY <1>6, <1>16, <2>2 DEF CondvarWait, sync_vars
  <2>3. P(r2, w2) /\ H(r2, w2)
    BY <1>1, <2>1, WakeOldest DEF waking
  <2>4. CASE ex /\ condvar_wait_ok(m)
    <3>1. wait_queue' = w2 /\ Return(t, r2, signal, FALSE)
      BY <1>16, <2>4 DEF CondvarWait, condvar_wait_with_mutex
    <3> HIDE DEF w2, r2
    <3> QED
      BY <2>3, <3>1, ReturnPlaces
  <2>5. CASE ex /\ ~condvar_wait_ok(m)
    <3>1. wait_queue' = [wait_queue EXCEPT ![m] = wq_push(wq_rest(@), t)]
      BY <1>16, <2>5 DEF CondvarWait, condvar_wait_with_mutex
    <3>2. Return(t, r2, signal, TRUE)
      BY <1>16, <2>5 DEF CondvarWait
    <3>3. wait_queue' = [w2 EXCEPT ![m] = wq_push(@, t)]
      BY <1>1, <2>1, <3>1 DEF Places, PlacesType
    <3>4. ready' = r2
      BY <3>2, ReturnBlocked
    <3> HIDE DEF w2, r2, m
    <3> QED
      BY <2>1, <2>3, <3>3, <3>4, PutWaiting
  <2> QED
    BY <2>2, <2>4, <2>5
<1> QED
  BY <1>8, <1>9, <1>10, <1>11, <1>12, <1>13, <1>14, <1>15, <1>16 DEF SyncCall

\* Creating a thread of process p while t runs.
LEMMA CreateThreadPlaces ==
    ASSUME PlacesInv, NEW t, Runs(t), NEW p \in Pids, create_thread(p),
           NEW sm, NEW b,
           Return(t, IF g_next_tid < MAX_TIDS THEN ready_enqueue(Rest, g_next_tid) ELSE Rest, sm, b)
    PROVE  Places(ready', wait_queue, waiting_tid, thread_pid', g_next_tid')
<1>1. /\ Places(Rest, wait_queue, waiting_tid, thread_pid, g_next_tid)
      /\ Hand(t, Rest, wait_queue, waiting_tid, thread_pid, g_next_tid)
  BY RunningInHand
<1>2. CASE g_next_tid < MAX_TIDS
  <2>1. g_next_tid' = g_next_tid + 1 /\ thread_pid' = [thread_pid EXCEPT ![g_next_tid] = p]
    BY <1>2 DEF create_thread, alloc_tid
  <2>2. /\ Places(Rest, wait_queue, waiting_tid, thread_pid', g_next_tid')
        /\ Hand(g_next_tid, Rest, wait_queue, waiting_tid, thread_pid', g_next_tid')
        /\ t # g_next_tid /\ Hand(t, Rest, wait_queue, waiting_tid, thread_pid', g_next_tid')
    BY <1>1, <1>2, <2>1, NewThread
  <2> DEFINE rq == ready_enqueue(Rest, g_next_tid)
  <2>3. /\ Places(rq, wait_queue, waiting_tid, thread_pid', g_next_tid')
        /\ Hand(t, rq, wait_queue, waiting_tid, thread_pid', g_next_tid')
    BY <2>2, PutReady
  <2>4. Return(t, rq, sm, b)
    BY <1>2
  <2> HIDE DEF rq
  <2> QED
    BY <2>3, <2>4, ReturnPlaces
<1>3. CASE ~(g_next_tid < MAX_TIDS)
  <2>1. g_next_tid' = g_next_tid /\ thread_pid' = thread_pid /\ Return(t, Rest, sm, b)
    BY <1>3 DEF create_thread, alloc_tid
  <2> QED
    BY <1>1, <2>1, ReturnPlaces
<1> QED
  BY <1>2, <1>3

LEMMA ThreadCreateKeepsPlaces ==
    ASSUME PlacesInv, NEW t, ThreadCreate(t)
    PROVE  PlacesInv'
<1>1. Runs(t) /\ UNCHANGED <<wait_queue, waiting_tid>>
  BY DEF ThreadCreate, wait_vars, sync_vars
<1>2. /\ Places(Rest, wait_queue, waiting_tid, thread_pid, g_next_tid)
      /\ Hand(t, Rest, wait_queue, waiting_tid, thread_pid, g_next_tid)
      /\ Pid(t) \in Pids
  BY <1>1, RunningInHand
<1>3. CASE NoThreadRoom(Pid(t))
  <2>1. UNCHANGED <<thread_pid, g_next_tid>> /\ Return(t, Rest, signal, FALSE)
    BY <1>3 DEF ThreadCreate, tree_vars, Resume
  <2> QED
    BY <1>1, <1>2, <2>1, ReturnPlaces DEF PlacesInv
<1>4. CASE ~NoThreadRoom(Pid(t))
  <2>1. Places(ready', wait_queue, waiting_tid, thread_pid', g_next_tid')
    BY <1>1, <1>2, <1>4, CreateThreadPlaces DEF ThreadCreate
  <2> QED
    BY <1>1, <2>1 DEF PlacesInv
<1> QED
  BY <1>3, <1>4

LEMMA ForkKeepsPlaces ==
    ASSUME TypeOK, PlacesInv, WaitInv, NEW t, Fork(t)
    PROVE  PlacesInv'
<1> DEFINE c == g_next_pid
<1>1. Runs(t) /\ UNCHANGED wait_queue
  BY DEF Fork, sync_vars
<1>2. /\ Places(Rest, wait_queue, waiting_tid, thread_pid, g_next_tid)
      /\ Hand(t, Rest, wait_queue, waiting_tid, thread_pid, g_next_tid)
  BY <1>1, RunningInHand
<1>3. \/ /\ \E sm : Return(t, Rest, sm, FALSE)
         /\ UNCHANGED <<g_next_tid, thread_pid, waiting_tid>>
      \/ /\ c < MAX_PROCS /\ create_thread(c)
         /\ waiting_tid' = [waiting_tid EXCEPT ![c] = 0]
         /\ \E sm : Return(t, IF g_next_tid < MAX_TIDS THEN ready_enqueue(Rest, g_next_tid) ELSE Rest,
                           sm, FALSE)
  BY DEF Fork, wait_vars
<1>4. CASE /\ \E sm : Return(t, Rest, sm, FALSE)
           /\ UNCHANGED <<g_next_tid, thread_pid, waiting_tid>>
  BY <1>1, <1>2, <1>4, ReturnPlaces DEF PlacesInv
<1>5. CASE /\ c < MAX_PROCS /\ create_thread(c)
           /\ waiting_tid' = [waiting_tid EXCEPT ![c] = 0]
           /\ \E sm : Return(t, IF g_next_tid < MAX_TIDS THEN ready_enqueue(Rest, g_next_tid) ELSE Rest,
                             sm, FALSE)
  <2>1. c \in Pids /\ c # 0
    BY <1>5, SizesAssumption DEF TypeOK, Pids
  <2>2. Places(ready', wait_queue, waiting_tid, thread_pid', g_next_tid')
    BY <1>1, <1>5, <2>1, CreateThreadPlaces
  <2>3. thread_pid'[0] = 0
    <3>1. g_next_tid # 0 /\ (g_next_tid < MAX_TIDS => g_next_tid \in Tids)
      BY Tables DEF TypeOK, Tids
    <3> QED
      BY <1>5, <3>1, Tables DEF TypeOK, WaitInv, create_thread
  <2> HIDE DEF c
  <2>4. Places(ready', wait_queue, waiting_tid', thread_pid', g_next_tid')
    BY <1>5, <2>1, <2>2, <2>3, NotWaiting
  <2> QED
    BY <1>1, <2>4 DEF PlacesInv
<1> QED
  BY <1>3, <1>4, <1>5

LEMMA WaitpidKeepsPlaces ==
    ASSUME PlacesInv, NEW t, NEW want, Waitpid(t, want)
    PROVE  PlacesInv'
<1> DEFINE p == Pid(t)
<1>1. Runs(t) /\ UNCHANGED <<wait_queue, thread_pid, g_next_tid>>
  BY DEF Waitpid, sync_vars, tree_vars
<1>2. /\ Places(Rest, wait_queue, waiting_tid, thread_pid, g_next_tid)
      /\ Hand(t, Rest, wait_queue, waiting_tid, thread_pid, g_next_tid)
      /\ p \in Pids
  BY <1>1, RunningInHand
<1>3. CASE Zombies(p, want) = {} /\ Found(p, want) # {}
  <2>1. waiting_tid' = [waiting_tid EXCEPT ![p] = t] /\ Return(t, Rest, signal, TRUE)
    BY <1>3 DEF Waitpid
  <2>2. ready' = Rest
    BY <2>1, ReturnBlocked
  <2> HIDE DEF p
  <2> QED
    BY <1>1, <1>2, <2>1, <2>2, BeginWait DEF PlacesInv
<1>4. CASE ~(Zombies(p, want) = {} /\ Found(p, want) # {})
  <2>1. Return(t, Rest, signal, FALSE) /\ UNCHANGED waiting_tid
    BY <1>4 DEF Waitpid, Resume, wait_vars
  <2> QED
    BY <1>1, <1>2, <2>1, ReturnPlaces DEF PlacesInv
<1> QED
  BY <1>3, <1>4

\* main.c, SYS_EXIT: the thread an exit wakes is one that waits.
LEMMA WakesWaiting == TypeOK /\ WaitInv => WakeIsWanted
<1> SUFFICES ASSUME TypeOK, WaitInv, NEW c \in Pids, WakesParent(c)
             PROVE  Waiting(parent[c])
  BY DEF WakeIsWanted
<1>1. parent[c] \in Pids /\ waiting_tid[parent[c]] # TID_INVALID
  BY DEF TypeOK, WakesParent
<1>2. CASE waiting_for[parent[c]] = 0
  <2>1. c = 0
    BY <1>2 DEF WakesParent, Matches, PID_INVALID
  <2> QED
    BY <2>1 DEF WakesParent, WaitInv
<1> QED
  BY <1>1, <1>2 DEF WaitInv, WaitFieldOK

LEMMA ExitKeepsPlaces ==
    ASSUME TypeOK, PlacesInv, WaitInv, NEW t, NEW code, Exit(t, code)
    PROVE  PlacesInv'
<1> DEFINE p == Pid(t)
           a == parent[p]
<1>1. Runs(t) /\ UNCHANGED <<wait_queue, thread_pid, g_next_tid>>
  BY DEF Exit, sync_vars, tree_vars
<1>2. /\ Places(Rest, wait_queue, waiting_tid, thread_pid, g_next_tid)
      /\ p \in Pids
  BY <1>1, RunningInHand
<1>3. \/ ready' = Rest /\ UNCHANGED waiting_tid
      \/ ExitProcess(p, code)
  BY DEF Exit, wait_vars
<1>4. CASE ready' = Rest /\ UNCHANGED waiting_tid
  BY <1>1, <1>2, <1>4 DEF PlacesInv
<1>5. CASE ExitProcess(p, code) /\ ~WakesParent(p)
  BY <1>1, <1>2, <1>5 DEF PlacesInv, ExitProcess, wait_vars
<1>6. CASE ExitProcess(p, code) /\ WakesParent(p)
  <2>1. a \in Pids /\ Waiting(a)
    BY <1>2, <1>6, WakesWaiting DEF WakeIsWanted, WakesParent, TypeOK
  <2>2. Waits(a, waiting_tid, thread_pid)
    BY <2>1 DEF Waiting, Waits
  <2>3. /\ ready' = ready_enqueue(Rest, waiting_tid[a])
        /\ waiting_tid' = [waiting_tid EXCEPT ![a] = TID_INVALID]
    BY <1>6 DEF ExitProcess
  <2> HIDE DEF a
  <2> QED
    BY <1>1, <1>2, <2>1, <2>2, <2>3, EndWait DEF PlacesInv
<1> QED
  BY <1>3, <1>4, <1>5, <1>6

\* Steps that end the running thread or send it round again.
LEMMA OtherCallsKeepPlaces ==
    ASSUME PlacesInv, NEW t, Plain(t) \/ Exec(t) \/ SignalCalls(t) \/ Exception(t) \/ Unsupported(t)
    PROVE  PlacesInv'
<1>1. Runs(t) /\ UNCHANGED <<wait_queue, thread_pid, g_next_tid, waiting_tid>>
  BY DEF Plain, Exec, SignalCalls, Kill, Sigaction, Sigprocmask, Sigreturn, SignalCall, Exception,
         Unsupported, SyncFrame, sync_vars, tree_vars, wait_vars
<1>2. /\ Places(Rest, wait_queue, waiting_tid, thread_pid, g_next_tid)
      /\ Hand(t, Rest, wait_queue, waiting_tid, thread_pid, g_next_tid)
  BY <1>1, RunningInHand
<1>3. ready' = Rest \/ \E sm : Return(t, Rest, sm, FALSE)
  BY DEF Plain, Exec, SignalCalls, Kill, Sigaction, Sigprocmask, Sigreturn, SignalCall, Exception,
         Unsupported, Resume
<1> QED
  BY <1>1, <1>2, <1>3, ReturnPlaces DEF PlacesInv

-----------------------------------------------------------------------------
\* WaitInv is kept: thread ids are not reused, and 0 is a thread of process 0.
LEMMA WaitFrame ==
    ASSUME WaitInv, UNCHANGED <<thread_pid, parent, wait_vars>>
    PROVE  WaitInv'
  BY DEF WaitInv, WaitFieldOK, Waiting, wait_vars

\* A new thread changes nobody's owner.
LEMMA OwnersStay ==
    ASSUME TypeOK, NEW p \in Pids, create_thread(p)
    PROVE  \A u \in Tids : u < g_next_tid => thread_pid'[u] = thread_pid[u]
<1>1. g_next_tid \in Nat /\ Tids \subseteq Nat
  BY Tables DEF TypeOK
<1>2. \A u \in Tids : u < g_next_tid => u # g_next_tid
  BY <1>1
<1> QED
  BY <1>2 DEF create_thread, TypeOK

LEMMA WaitNext == TypeOK /\ PlacesInv /\ WaitInv /\ [Next]_vars => WaitInv'
<1> SUFFICES ASSUME TypeOK, PlacesInv, WaitInv, [Next]_vars PROVE WaitInv'
  OBVIOUS
<1>0. /\ \A p \in Pids : waiting_tid[p] \in Tids \cup {TID_INVALID} /\ waiting_tid[p] < g_next_tid
      /\ 0 \in Tids /\ 0 < g_next_tid /\ 0 \in Pids
  BY Tables DEF PlacesInv, Places, PlacesType, Created, TypeOK
<1>1. ASSUME UNCHANGED <<parent, wait_vars>>, NEW p \in Pids, create_thread(p) PROVE WaitInv'
  BY <1>0, <1>1, OwnersStay DEF WaitInv, WaitFieldOK, Waiting, wait_vars
<1>2. ASSUME NEW t, SyncCall(t) \/ Plain(t) \/ Exec(t) \/ SignalCalls(t) \/ Exception(t) \/ Unsupported(t)
      PROVE  WaitInv'
  <2>1. SyncFrame
    BY <1>2 DEF SyncCall, MutexCreate, SemaphoreCreate, CondvarCreate, MutexLock, MutexUnlock,
       SemaphoreUp, SemaphoreDown, CondvarSignal, CondvarWait, Plain, Exec, SignalCalls, Kill,
       Sigaction, Sigprocmask, Sigreturn, SignalCall, Exception, Unsupported
  <2> QED
    BY <2>1, WaitFrame DEF SyncFrame, tree_vars
<1>3. ASSUME NEW t, ThreadCreate(t) PROVE WaitInv'
  <2>1. Pid(t) \in Pids
    BY <1>3, RunningInHand DEF ThreadCreate
  <2> QED
    BY <1>1, <1>3, <2>1, WaitFrame DEF ThreadCreate, tree_vars
<1>4. ASSUME NEW t, Fork(t) PROVE WaitInv'
  <2> DEFINE c == g_next_pid
  <2>1. \/ UNCHANGED <<thread_pid, parent, wait_vars>>
        \/ /\ c < MAX_PROCS /\ create_thread(c)
           /\ parent' = [parent EXCEPT ![c] = Pid(t)]
           /\ ForkWaitFields(c)
           /\ waiting_tid' = [waiting_tid EXCEPT ![c] = 0]
    BY <1>4 DEF Fork
  <2>2. CASE /\ c < MAX_PROCS /\ create_thread(c)
             /\ parent' = [parent EXCEPT ![c] = Pid(t)]
             /\ ForkWaitFields(c)
             /\ waiting_tid' = [waiting_tid EXCEPT ![c] = 0]
    <3>1. c \in Pids /\ c # 0
      BY <2>2, SizesAssumption DEF TypeOK, Pids
    <3>2. \A u \in Tids : u < g_next_tid => thread_pid'[u] = thread_pid[u]
      BY <2>2, <3>1, OwnersStay
    <3>3. waiting_tid'[c] = 0 /\ waiting_for'[c] = 0
      BY <2>2, <3>1 DEF TypeOK, ForkWaitFields
    <3>4. \A p \in Pids : p # c => waiting_tid'[p] = waiting_tid[p] /\ waiting_for'[p] = waiting_for[p]
      BY <2>2 DEF TypeOK, ForkWaitFields
    <3>5. thread_pid'[0] = 0 /\ parent'[0] = PID_INVALID
      BY <1>0, <2>2, <3>1, <3>2 DEF TypeOK, WaitInv
    <3> HIDE DEF c
    <3>6. ASSUME NEW p \in Pids PROVE WaitFieldOK(p)'
      BY <1>0, <3>2, <3>3, <3>4 DEF WaitInv, WaitFieldOK, Waiting
    <3> QED
      BY <3>5, <3>6 DEF WaitInv
  <2> QED
    BY <2>1, <2>2, WaitFrame
<1>5. ASSUME NEW t, NEW want, Waitpid(t, want) PROVE WaitInv'
  <2> DEFINE p == Pid(t)
  <2>1. t \in Tids /\ p \in Pids /\ thread_pid[t] = p /\ UNCHANGED thread_pid
    BY <1>5, RunningInHand DEF Waitpid, Pid, tree_vars
  <2>2. UNCHANGED parent \/ \E z : parent' = [parent EXCEPT ![z] = PID_INVALID]
    BY <1>5 DEF Waitpid, ReleaseChild
  <2>3. \/ UNCHANGED wait_vars
        \/ /\ waiting_for' = [waiting_for EXCEPT ![p] = want]
           /\ waiting_tid' = [waiting_tid EXCEPT ![p] = t]
    BY <1>5 DEF Waitpid
  <2> HIDE DEF p
  <2>4. thread_pid'[0] = 0 /\ parent'[0] = PID_INVALID
    BY <1>0, <2>1, <2>2 DEF TypeOK, WaitInv
  <2>5. ASSUME NEW o \in Pids PROVE WaitFieldOK(o)'
    <3>1. WaitFieldOK(o) /\ waiting_tid \in [Pids -> Tids \cup {TID_INVALID}]
      BY DEF WaitInv, TypeOK
    <3>2. CASE waiting_tid'[o] = waiting_tid[o] /\ waiting_for'[o] = waiting_for[o]
      BY <2>1, <3>1, <3>2 DEF WaitFieldOK, Waiting
    <3>3. CASE o = p /\ waiting_tid'[p] = t
      BY <2>1, <3>3, Tables DEF WaitFieldOK, Waiting
    <3> QED
      BY <2>1, <2>3, <3>2, <3>3 DEF TypeOK, wait_vars
  <2> QED
    BY <2>4, <2>5 DEF WaitInv
<1>6. ASSUME NEW t, NEW code, Exit(t, code) PROVE WaitInv'
  <2> DEFINE p == Pid(t)
             a == parent[p]
  <2>1. UNCHANGED thread_pid
    BY <1>6 DEF Exit, tree_vars
  <2>2. \/ UNCHANGED <<wait_vars, parent>>
        \/ /\ waiting_tid' = [waiting_tid EXCEPT ![a] = TID_INVALID]
           /\ waiting_for' = [waiting_for EXCEPT ![a] = PID_INVALID]
           /\ parent' = [parent EXCEPT ![p] = PID_INVALID]
    BY <1>6 DEF Exit, ExitProcess, ReleaseChild
  <2> HIDE DEF p, a
  <2>3. thread_pid'[0] = 0 /\ parent'[0] = PID_INVALID
    BY <1>0, <2>1, <2>2 DEF TypeOK, WaitInv
  <2>4. ASSUME NEW o \in Pids PROVE WaitFieldOK(o)'
    BY <2>1, <2>2 DEF TypeOK, WaitInv, WaitFieldOK, Waiting, wait_vars
  <2> QED
    BY <2>3, <2>4 DEF WaitInv
<1>7. CASE SkipExited \/ UNCHANGED vars
  BY <1>7, WaitFrame DEF SkipExited, vars, tree_vars
<1> QED
  BY <1>2, <1>3, <1>4, <1>5, <1>6, <1>7 DEF Next, Thread, ProcessCall

-----------------------------------------------------------------------------
LEMMA PlacesInit == Init => PlacesInv /\ WaitInv
<1> SUFFICES ASSUME Init PROVE PlacesInv /\ WaitInv
  OBVIOUS
<1>1. TypeOK
  BY TypeInit
<1>2. PlacesType(ready, wait_queue, waiting_tid, thread_pid, g_next_tid)
  BY <1>1 DEF TypeOK, SyncTypeOK, PlacesType
<1>3. /\ \A u : Occurs(u, ready) <=> u = 0
      /\ Distinct(ready)
      /\ \A q \in Objs : Distinct(wait_queue[q]) /\ \A u : ~Occurs(u, wait_queue[q])
  <2>1. ready = <<0>> /\ \A q \in Objs : wait_queue[q] = <<>>
    BY DEF Init, SyncInit
  <2> QED
    BY <2>1 DEF Occurs, Distinct
<1>4. thread_pid[0] = 0 /\ parent[0] = PID_INVALID /\ waiting_tid[0] = TID_INVALID
  BY Tables DEF Init
<1>5. \A p \in Pids : p # 0 => waiting_tid[p] = 0 /\ waiting_for[p] = 0
  BY DEF Init
<1>6. \A p \in Pids : ~Waits(p, waiting_tid, thread_pid)
  BY <1>4, <1>5 DEF Waits
<1>7. Apart(ready, wait_queue, waiting_tid, thread_pid)
  BY <1>3, <1>6 DEF Apart
<1>8. Created(ready, wait_queue, waiting_tid, g_next_tid)
  <2>1. g_next_tid = 1 /\ \A p \in Pids : waiting_tid[p] \in {0, TID_INVALID}
    BY <1>4, <1>5 DEF Init
  <2> QED
    BY <1>3, <2>1 DEF Created, TID_INVALID
<1>9. WaitInv
  BY <1>4, <1>5 DEF WaitInv, WaitFieldOK
<1> QED
  BY <1>2, <1>7, <1>8, <1>9 DEF PlacesInv, Places

LEMMA PlacesNext == TypeOK /\ PlacesInv /\ WaitInv /\ [Next]_vars => PlacesInv'
<1> SUFFICES ASSUME TypeOK, PlacesInv, WaitInv, [Next]_vars PROVE PlacesInv'
  OBVIOUS
<1>1. CASE SkipExited
  <2>1. /\ ready # <<>> /\ ready' = Tail(ready)
        /\ UNCHANGED <<wait_queue, waiting_tid, thread_pid, g_next_tid>>
    BY <1>1 DEF SkipExited, Rest, tree_vars, wait_vars, sync_vars
  <2> QED
    BY <2>1, TakeHead DEF PlacesInv
<1>2. CASE UNCHANGED vars
  BY <1>2 DEF PlacesInv, vars, tree_vars, wait_vars, sync_vars
<1>3. ASSUME NEW t, Thread(t) PROVE PlacesInv'
  BY <1>3, SyncCallKeepsPlaces, ThreadCreateKeepsPlaces, ForkKeepsPlaces, WaitpidKeepsPlaces,
     ExitKeepsPlaces, OtherCallsKeepPlaces
     DEF Thread, ProcessCall
<1> QED
  BY <1>1, <1>2, <1>3 DEF Next

LEMMA PlacesUnique == PlacesInv => UniquePlace
<1> SUFFICES ASSUME PlacesInv PROVE UniquePlace
  OBVIOUS
<1>1. Apart(ready, wait_queue, waiting_tid, thread_pid)
  BY DEF PlacesInv, Places
<1>2. ASSUME NEW s, NEW w, \A u : ~(Occurs(u, s) /\ Occurs(u, w)) PROVE Disjoint(s, w)
  BY <1>2 DEF Disjoint, Occurs
<1>3. \A q \in Objs : Distinct(wait_queue[q]) /\ Disjoint(ready, wait_queue[q])
  BY <1>1, <1>2 DEF Apart
<1>4. \A q, r \in Objs : q # r => Disjoint(wait_queue[q], wait_queue[r])
  BY <1>1, <1>2 DEF Apart
<1>5. \A p \in Pids : Waiting(p) =>
         /\ ~Occurs(waiting_tid[p], ready)
         /\ \A q \in Objs : ~Occurs(waiting_tid[p], wait_queue[q])
  BY <1>1 DEF Apart, Waiting, Waits
<1> QED
  BY <1>1, <1>3, <1>4, <1>5 DEF UniquePlace, Apart

\* The inductive invariant behind the two theorems that follow.
KernelInv == TypeOK /\ PlacesInv /\ WaitInv

LEMMA KernelInvariant == Spec => []KernelInv
<1>1. Init => KernelInv
  BY TypeInit, PlacesInit DEF KernelInv
<1>2. KernelInv /\ [Next]_vars => KernelInv'
  BY TypeNext, PlacesNext, WaitNext DEF KernelInv
<1> QED
  BY <1>1, <1>2, PTL DEF Spec

\* main.c, every ready_enqueue and every wait: whatever programs do, with
\* invalid identifiers, foreign unlocks and several waiters included, no
\* thread is ever in two places, and so never runs while it is blocked.
THEOREM KernelUniquePlace == Spec => []UniquePlace
<1>1. KernelInv => UniquePlace
  BY PlacesUnique DEF KernelInv
<1> QED
  BY <1>1, KernelInvariant, PTL

\* main.c, SYS_EXIT: an exit wakes a thread only if that thread is in waitpid,
\* although fork leaves waiting_tid = waiting_for = 0 in every child.
THEOREM KernelWakeIsWanted == Spec => []WakeIsWanted
<1>1. KernelInv => WakeIsWanted
  BY WakesWaiting DEF KernelInv
<1> QED
  BY <1>1, KernelInvariant, PTL

-----------------------------------------------------------------------------
(* Capacity, exits, no lost thread, locks and semaphores *)

\* Who owns what: every thread created is on the list of its process, no
\* list is too long, processes not yet created have none, and a thread waits
\* only for objects of its own process.
OwnInv == /\ \A u \in Tids : u < g_next_tid => u \in threads[thread_pid[u]]
          /\ \A p \in Pids : Cardinality(threads[p]) <= MAX_THREADS
          /\ \A p \in Pids : p >= g_next_pid => threads[p] = {}
          /\ \A q \in Objs : \A u : Occurs(u, wait_queue[q]) => thread_pid[u] = Owner(q)

\* A count and its queue; the theorem SemaphoreLedger is about every q.
LedgerOK(q) == Len(wait_queue[q]) = IF count[q] < 0 THEN -count[q] ELSE 0

-----------------------------------------------------------------------------
LEMMA ThreadsFinite ==
    ASSUME TypeOK
    PROVE  /\ IsFiniteSet(Tids)
           /\ \A p \in Pids : IsFiniteSet(threads[p]) /\ Cardinality(threads[p]) \in Nat
<1>1. IsFiniteSet(Tids)
  BY FS_Interval, Tables DEF Tids
<1>2. \A p \in Pids : IsFiniteSet(threads[p])
  BY <1>1, FS_Subset DEF TypeOK
<1> QED
  BY <1>1, <1>2, FS_CardinalityType

\* A sequence without repetition is not longer than the set of its elements.
LEMMA DistinctIsShort ==
    ASSUME NEW S, NEW s \in Seq(S), Distinct(s), NEW T, IsFiniteSet(T),
           \A u : Occurs(u, s) => u \in T
    PROVE  Len(s) <= Cardinality(T)
<1> DEFINE n == Len(s)
           f == [i \in 1 .. n |-> s[i]]
<1>1. n \in Nat /\ Cardinality(T) \in Nat
  <2>1. n \in Nat
    BY LenProperties
  <2> QED
    BY <2>1, FS_CardinalityType
<1>2. IsFiniteSet(1 .. n) /\ Cardinality(1 .. n) = n
  <2> HIDE DEF n
  <2>1. 1 \in Int /\ n \in Int
    BY <1>1
  <2> DEFINE one == 1
  <2> HIDE DEF one
  <2>2. /\ IsFiniteSet(one .. n)
        /\ Cardinality(one .. n) = IF one > n THEN 0 ELSE n - one + 1
    BY <2>1, FS_Interval, Zenon DEF one
  <2> QED
    BY <1>1, <2>2 DEF one
<1>3. f \in [1 .. n -> T]
  BY DEF Occurs
<1>4. ~\E i, j \in 1 .. n : i # j /\ f[i] = f[j]
  BY DEF Distinct
<1> HIDE DEF n, f
<1>5. ~(Cardinality(T) < Cardinality(1 .. n))
  BY <1>2, <1>3, <1>4, FS_PigeonHole
<1> QED
  BY <1>1, <1>2, <1>5 DEF n

\* sem_down: a thread that must wait finds a place in the queue.
LEMMA RoomToWait ==
    ASSUME TypeOK, PlacesInv, OwnInv, NEW t, Runs(t), NEW q \in Objs, Owner(q) = Pid(t)
    PROVE  Len(wait_queue[q]) < WAIT_QUEUE_SIZE
<1> DEFINE p == Pid(t)
           T == threads[p] \ {t}
<1>1. /\ Hand(t, Rest, wait_queue, waiting_tid, thread_pid, g_next_tid)
      /\ t \in Tids /\ p \in Pids
  BY RunningInHand
<1>2. t \in threads[p] /\ IsFiniteSet(threads[p]) /\ Cardinality(threads[p]) \in Nat
  BY <1>1, ThreadsFinite DEF OwnInv, Hand, Pid
<1>3. IsFiniteSet(T) /\ Cardinality(T) = Cardinality(threads[p]) - 1
  BY <1>2, FS_RemoveElement
<1>4. wait_queue[q] \in Seq(Tids) /\ Distinct(wait_queue[q])
  BY DEF PlacesInv, Places, PlacesType, Apart
<1>5. \A u : Occurs(u, wait_queue[q]) => u \in T
  <2> SUFFICES ASSUME NEW u, Occurs(u, wait_queue[q]) PROVE u \in T
    OBVIOUS
  <2>1. u \in Tids /\ u < g_next_tid /\ u # t
    BY <1>1, <1>4 DEF PlacesInv, Places, Created, Occurs, Hand
  <2>2. thread_pid[u] = p
    BY DEF OwnInv
  <2> QED
    BY <2>1, <2>2 DEF OwnInv
<1>6. Len(wait_queue[q]) <= Cardinality(T)
  BY <1>3, <1>4, <1>5, DistinctIsShort
<1>7. Cardinality(threads[p]) <= MAX_THREADS
  BY <1>1 DEF OwnInv
<1> HIDE DEF T, p
<1>8. Len(wait_queue[q]) \in Nat
  BY <1>4
<1> QED
  BY <1>2, <1>3, <1>6, <1>7, <1>8, SizesAssumption, QueueHoldsAProcess

-----------------------------------------------------------------------------
\* OwnInv is inductive.
LEMMA OwnInit == Init => OwnInv
<1> SUFFICES ASSUME Init PROVE OwnInv
  OBVIOUS
<1>0. 0 \in Tids /\ 0 \in Pids
  BY Tables
<1>1. \A u \in Tids : u < g_next_tid => u \in threads[thread_pid[u]]
  <2> SUFFICES ASSUME NEW u \in Tids, u < g_next_tid PROVE u \in threads[thread_pid[u]]
    OBVIOUS
  <2>1. u = 0
    BY Tables DEF Init, Tids
  <2> QED
    BY <1>0, <2>1 DEF Init
<1>2. \A p \in Pids : Cardinality(threads[p]) <= MAX_THREADS
  <2>1. Cardinality({}) = 0 /\ Cardinality({0}) = 1
    BY FS_EmptySet, FS_Singleton
  <2>2. \A p \in Pids : threads[p] = {} \/ threads[p] = {0}
    BY DEF Init
  <2> QED
    BY <2>1, <2>2, SizesAssumption
<1>3. \A p \in Pids : p >= g_next_pid => threads[p] = {}
  BY DEF Init
<1>4. \A q \in Objs : \A u : ~Occurs(u, wait_queue[q])
  BY DEF Init, SyncInit, Occurs
<1> QED
  BY <1>1, <1>2, <1>3, <1>4 DEF OwnInv

\* The members of wait queues: nobody joins but the running thread.
LEMMA QueueMembers ==
    ASSUME TypeOK, NEW t \in Tids, Pid(t) \in Pids, SyncCall(t), NEW q \in Objs, NEW u,
           Occurs(u, wait_queue'[q])
    PROVE  Occurs(u, wait_queue[q]) \/ (u = t /\ Owner(q) = Pid(t))
<1>0. wait_queue \in [Objs -> Seq(Tids)]
  BY DEF TypeOK, SyncTypeOK
<1>1. \A kind \in Kinds, i \in Slots :
         <<kind, Pid(t), i>> \in Objs /\ Owner(<<kind, Pid(t), i>>) = Pid(t)
  BY DEF Objs, Owner
<1>2. ASSUME NEW w \in Seq(Tids)
      PROVE  /\ wq_rest(w) \in Seq(Tids)
             /\ \A v : Occurs(v, wq_rest(w)) => Occurs(v, w)
             /\ \A v : Occurs(v, wq_push(w, t)) => Occurs(v, w) \/ v = t
  BY OccursTail, OccursAppend DEF wq_rest, wq_push
<1>3. \A v : ~Occurs(v, <<>>)
  BY DEF Occurs
<1> DEFINE Change(o) == \/ wait_queue' = [wait_queue EXCEPT ![o] = wq_push(@, t)]
                        \/ wait_queue' = [wait_queue EXCEPT ![o] = wq_rest(@)]
                        \/ wait_queue' = [wait_queue EXCEPT ![o] = wq_push(wq_rest(@), t)]
                        \/ wait_queue' = [wait_queue EXCEPT ![o] = <<>>]
<1>4. UNCHANGED wait_queue \/ \E o \in Objs : Owner(o) = Pid(t) /\ Change(o)
  <2> USE DEF Kinds
  <2>1. CASE MutexCreate(t)
    BY <2>1, FreeEntry DEF MutexCreate, mutex_init, New, Owner, sync_vars
  <2>2. ASSUME NEW n, SemaphoreCreate(t, n)
        PROVE  UNCHANGED wait_queue \/ \E o \in Objs : Owner(o) = Pid(t) /\ Change(o)
    BY <2>2, FreeEntry DEF SemaphoreCreate, sem_init, New, Owner, sync_vars
  <2>3. CASE CondvarCreate(t)
    BY <2>3, FreeEntry DEF CondvarCreate, condvar_init, New, Owner, sync_vars
  <2>4. ASSUME NEW i \in Slots, MutexLock(t, i) \/ MutexUnlock(t, i)
        PROVE  UNCHANGED wait_queue \/ \E o \in Objs : Owner(o) = Pid(t) /\ Change(o)
    <3> DEFINE m == <<"mutex", Pid(t), i>>
    <3>1. m \in Objs /\ Owner(m) = Pid(t)
      BY <1>1
    <3>2. \/ UNCHANGED wait_queue
          \/ wait_queue' = [wait_queue EXCEPT ![m] = wq_push(@, t)]
          \/ wait_queue' = [wait_queue EXCEPT ![m] = wq_rest(@)]
      BY <2>4 DEF MutexLock, MutexUnlock, mutex_lock, mutex_unlock, sync_vars
    <3> HIDE DEF m
    <3> QED
      BY <3>1, <3>2
  <2>5. ASSUME NEW i \in Slots, SemaphoreUp(t, i) \/ SemaphoreDown(t, i)
        PROVE  UNCHANGED wait_queue \/ \E o \in Objs : Owner(o) = Pid(t) /\ Change(o)
    <3> DEFINE m == <<"semaphore", Pid(t), i>>
    <3>1. m \in Objs /\ Owner(m) = Pid(t)
      BY <1>1
    <3>2. \/ UNCHANGED wait_queue
          \/ wait_queue' = [wait_queue EXCEPT ![m] = wq_push(@, t)]
          \/ wait_queue' = [wait_queue EXCEPT ![m] = wq_rest(@)]
      BY <2>5 DEF SemaphoreUp, SemaphoreDown, sem_up, sem_down, sync_vars
    <3> HIDE DEF m
    <3> QED
      BY <3>1, <3>2
  <2>6. ASSUME NEW i \in Slots, CondvarSignal(t, i)
        PROVE  UNCHANGED wait_queue \/ \E o \in Objs : Owner(o) = Pid(t) /\ Change(o)
    BY <1>1, <2>6 DEF CondvarSignal, condvar_signal
  <2>7. ASSUME NEW i \in Slots, NEW j \in Slots, CondvarWait(t, i, j)
        PROVE  UNCHANGED wait_queue \/ \E o \in Objs : Owner(o) = Pid(t) /\ Change(o)
    <3> DEFINE m == <<"mutex", Pid(t), j>>
    <3>1. m \in Objs /\ Owner(m) = Pid(t)
      BY <1>1
    <3>2. \/ UNCHANGED wait_queue
          \/ wait_queue' = [wait_queue EXCEPT ![m] = wq_rest(@)]
          \/ wait_queue' = [wait_queue EXCEPT ![m] = wq_push(wq_rest(@), t)]
      BY <2>7 DEF CondvarWait, condvar_wait_with_mutex, sync_vars
    <3> HIDE DEF m
    <3> QED
      BY <3>1, <3>2
  <2> HIDE DEF Change
  <2> QED
    BY <2>1, <2>2, <2>3, <2>4, <2>5, <2>6, <2>7 DEF SyncCall
<1>5. ASSUME NEW o \in Objs, Owner(o) = Pid(t), Change(o)
      PROVE  Occurs(u, wait_queue[q]) \/ (u = t /\ Owner(q) = Pid(t))
  <2>1. CASE o # q
    <3>1. wait_queue'[q] = wait_queue[q]
      BY <1>0, <1>5, <2>1
    <3> QED
      BY <3>1
  <2>2. CASE o = q
    <3>0. wait_queue[q] \in Seq(Tids)
      BY <1>0
    <3>1. \/ wait_queue'[q] = wq_push(wait_queue[q], t)
          \/ wait_queue'[q] = wq_rest(wait_queue[q])
          \/ wait_queue'[q] = wq_push(wq_rest(wait_queue[q]), t)
          \/ wait_queue'[q] = <<>>
      BY <1>0, <1>5, <2>2
    <3>2. \A w \in Seq(Tids) : \A v : Occurs(v, wq_push(w, t)) => Occurs(v, w) \/ v = t
      BY <1>2
    <3>3. ASSUME NEW w \in Seq(Tids)
          PROVE  \A v : Occurs(v, wq_push(wq_rest(w), t)) => Occurs(v, w) \/ v = t
      BY <1>2, <3>2
    <3>4. Owner(q) = Pid(t)
      BY <1>5, <2>2
    <3> QED
      BY <1>2, <1>3, <3>0, <3>1, <3>2, <3>3, <3>4
  <2> QED
    BY <2>1, <2>2
<1> HIDE DEF Change
<1> QED
  BY <1>4, <1>5

\* A thread added to a process that has room.
LEMMA CreateThreadOwns ==
    ASSUME TypeOK, OwnInv, NEW p \in Pids, create_thread(p), Cardinality(threads[p]) < MAX_THREADS
    PROVE  /\ \A u \in Tids : u < g_next_tid' => u \in threads'[thread_pid'[u]]
           /\ \A o \in Pids : Cardinality(threads'[o]) <= MAX_THREADS
           /\ \A o \in Pids : o # p => threads'[o] = threads[o]
<1>1. CASE g_next_tid < MAX_TIDS
  <2> DEFINE n == g_next_tid
  <2>1. /\ thread_pid' = [thread_pid EXCEPT ![n] = p]
        /\ threads' = [threads EXCEPT ![p] = @ \cup {n}]
        /\ g_next_tid' = n + 1
    BY <1>1 DEF create_thread, alloc_tid
  <2>2. n \in Nat /\ n \in Tids
    BY <1>1, Tables DEF TypeOK, Tids
  <2>3. /\ \A o \in Pids : o # p => threads'[o] = threads[o]
        /\ threads'[p] = threads[p] \cup {n}
        /\ thread_pid'[n] = p
        /\ \A u \in Tids : u # n => thread_pid'[u] = thread_pid[u]
        /\ \A u \in Tids : thread_pid[u] \in Pids
    BY <2>1, <2>2 DEF TypeOK
  <2> HIDE DEF n
  <2>4. ASSUME NEW u \in Tids, u < n + 1 PROVE u \in threads'[thread_pid'[u]]
    <3>1. CASE u = n
      BY <2>3, <3>1
    <3>2. CASE u # n
      <4>1. u < n
        BY <2>2, <2>4, <3>2, Tables
      <4>2. u \in threads[thread_pid[u]]
        BY <4>1 DEF OwnInv, n
      <4> QED
        BY <2>3, <3>2, <4>2
    <3> QED
      BY <3>1, <3>2
  <2>5. Cardinality(threads[p] \cup {n}) <= MAX_THREADS
    <3>1. IsFiniteSet(threads[p]) /\ Cardinality(threads[p]) \in Nat
      BY ThreadsFinite
    <3>2. Cardinality(threads[p] \cup {n}) \in {Cardinality(threads[p]), Cardinality(threads[p]) + 1}
      BY <3>1, FS_AddElement
    <3> QED
      BY <3>1, <3>2, SizesAssumption
  <2> QED
    BY <2>1, <2>3, <2>4, <2>5 DEF OwnInv
<1>2. CASE ~(g_next_tid < MAX_TIDS)
  BY <1>2 DEF create_thread, alloc_tid, OwnInv
<1> QED
  BY <1>1, <1>2

LEMMA OwnNext == TypeOK /\ PlacesInv /\ OwnInv /\ [Next]_vars => OwnInv'
<1> SUFFICES ASSUME TypeOK, PlacesInv, OwnInv, [Next]_vars PROVE OwnInv'
  OBVIOUS
<1>1. \A q \in Objs : \A u : Occurs(u, wait_queue[q]) => u \in Tids /\ u < g_next_tid
  BY DEF PlacesInv, Places, PlacesType, Created, Occurs
<1>2. CASE SkipExited \/ UNCHANGED vars
  BY <1>2 DEF SkipExited, vars, tree_vars, sync_vars, OwnInv
<1>3. ASSUME NEW t \in Tids, Plain(t) \/ SignalCalls(t) \/ Exec(t) \/ Exception(t) \/ Unsupported(t)
      PROVE  OwnInv'
  <2>1. UNCHANGED <<tree_vars, sync_vars>>
    BY <1>3 DEF Plain, SignalCalls, Exec, Exception, Unsupported, SyncFrame,
       Kill, Sigaction, Sigprocmask, Sigreturn, SignalCall
  <2> QED
    BY <2>1 DEF tree_vars, sync_vars, OwnInv
<1>4. ASSUME NEW t \in Tids, (\E want \in Pids \cup {PID_INVALID} : Waitpid(t, want))
                             \/ (\E code \in ExitCodes : Exit(t, code))
      PROVE  OwnInv'
  BY <1>4 DEF Waitpid, Exit, tree_vars, sync_vars, OwnInv
<1>5. ASSUME NEW t \in Tids, SyncCall(t) PROVE OwnInv'
  <2>1. UNCHANGED tree_vars /\ Runs(t)
    BY <1>5 DEF SyncCall, MutexCreate, SemaphoreCreate, CondvarCreate, MutexLock, MutexUnlock,
       SemaphoreUp, SemaphoreDown, CondvarSignal, CondvarWait, SyncFrame
  <2>2. Pid(t) \in Pids
    BY <2>1, RunningInHand
  <2>3. ASSUME NEW q \in Objs, NEW u, Occurs(u, wait_queue'[q])
        PROVE  thread_pid[u] = Owner(q)
    BY <1>5, <2>2, <2>3, QueueMembers DEF OwnInv, Pid
  <2> QED
    BY <2>1, <2>3 DEF tree_vars, OwnInv
<1>6. ASSUME NEW t \in Tids, NEW p \in Pids, create_thread(p), UNCHANGED wait_queue
      PROVE  \A q \in Objs : \A u : Occurs(u, wait_queue'[q]) => thread_pid'[u] = Owner(q)
  BY <1>1, <1>6, OwnersStay DEF OwnInv
<1>7. ASSUME NEW t \in Tids, ThreadCreate(t) PROVE OwnInv'
  <2>1. Runs(t) /\ UNCHANGED <<wait_queue, g_next_pid>>
    BY <1>7 DEF ThreadCreate, sync_vars, tree_vars
  <2>2. Pid(t) \in Pids /\ t \in threads[Pid(t)]
    BY <2>1, RunningInHand DEF OwnInv, Hand, Pid
  <2>3. CASE NoThreadRoom(Pid(t))
    BY <1>7, <2>1, <2>3 DEF ThreadCreate, tree_vars, OwnInv
  <2>4. CASE ~NoThreadRoom(Pid(t))
    <3>1. create_thread(Pid(t)) /\ Cardinality(threads[Pid(t)]) < MAX_THREADS
      BY <1>7, <2>2, <2>4, ThreadsFinite, SizesAssumption DEF ThreadCreate, NoThreadRoom
    <3>2. \A o \in Pids : o >= g_next_pid' => threads'[o] = {}
      BY <2>1, <2>2, <3>1, CreateThreadOwns DEF OwnInv
    <3> QED
      BY <1>6, <2>1, <2>2, <3>1, <3>2, CreateThreadOwns DEF OwnInv
  <2> QED
    BY <2>3, <2>4
<1>8. ASSUME NEW t \in Tids, Fork(t) PROVE OwnInv'
  <2>1. UNCHANGED wait_queue /\ alloc_pid /\ g_next_pid \in Nat
    BY <1>8 DEF Fork, sync_vars, TypeOK
  <2>2. CASE UNCHANGED <<g_next_tid, thread_pid, threads>>
    <3>1. \A o \in Pids : o >= g_next_pid' => o >= g_next_pid
      BY <2>1, Tables DEF alloc_pid
    <3> QED
      BY <2>1, <2>2, <3>1 DEF OwnInv
  <2>3. CASE g_next_pid < MAX_PROCS /\ create_thread(g_next_pid)
    <3> DEFINE c == g_next_pid
    <3>1. c \in Pids /\ threads[c] = {} /\ g_next_pid' = c + 1 /\ create_thread(c)
      BY <2>1, <2>3, SizesAssumption DEF alloc_pid, OwnInv, Pids
    <3>2. Cardinality(threads[c]) < MAX_THREADS
      BY <3>1, FS_EmptySet, SizesAssumption
    <3> HIDE DEF c
    <3>3. \A o \in Pids : o >= c + 1 => o # c /\ o >= c
      BY <2>1, Tables DEF c
    <3>4. \A o \in Pids : o >= g_next_pid' => threads'[o] = {}
      BY <3>1, <3>2, <3>3, CreateThreadOwns DEF OwnInv, c
    <3> QED
      BY <1>6, <2>1, <3>1, <3>2, <3>4, CreateThreadOwns DEF OwnInv
  <2> QED
    BY <1>8, <2>2, <2>3 DEF Fork
<1> QED
  BY <1>2, <1>3, <1>4, <1>5, <1>7, <1>8 DEF Next, Thread, ProcessCall

-----------------------------------------------------------------------------
(***************************************************************************)
(* The ledger of a semaphore.                                              *)
(***************************************************************************)
IsSemaphore(q) == q[1] = "semaphore"

LEMMA LedgerKept ==
    ASSUME SyncTypeOK, NEW q \in Objs
    PROVE  /\ \A n \in Nat : sem_init(q, n) => LedgerOK(q)'
           /\ LedgerOK(q) /\ sem_up(q) => LedgerOK(q)'
           /\ \A t \in Tids : LedgerOK(q) /\ Len(wait_queue[q]) < WAIT_QUEUE_SIZE /\ sem_down(q, t)
                              => LedgerOK(q)'
<1> USE DEF LedgerOK
<1>0. /\ wait_queue[q] \in Seq(Tids) /\ Len(wait_queue[q]) \in Nat /\ count[q] \in Int
      /\ wait_queue \in [Objs -> Seq(Tids)] /\ count \in [Objs -> Int]
  BY DEF SyncTypeOK
<1>1. ASSUME NEW n \in Nat, sem_init(q, n) PROVE LedgerOK(q)'
  <2>1. wait_queue'[q] = <<>> /\ count'[q] = n
    BY <1>0, <1>1 DEF sem_init
  <2> QED
    BY <2>1
<1>2. ASSUME LedgerOK(q), sem_up(q) PROVE LedgerOK(q)'
  <2>1. wait_queue'[q] = wq_rest(wait_queue[q]) /\ count'[q] = count[q] + 1
    BY <1>0, <1>2 DEF sem_up
  <2>2. CASE wait_queue[q] = <<>>
    BY <1>0, <1>2, <2>1, <2>2 DEF wq_rest
  <2>3. CASE wait_queue[q] # <<>>
    <3>1. Len(wait_queue'[q]) = Len(wait_queue[q]) - 1
      BY <1>0, <2>1, <2>3, OccursTail DEF wq_rest
    <3>2. Len(wait_queue[q]) # 0
      BY <1>0, <2>3
    <3> QED
      BY <1>0, <1>2, <2>1, <3>1, <3>2
  <2> QED
    BY <2>2, <2>3
<1>3. ASSUME NEW t \in Tids, LedgerOK(q), Len(wait_queue[q]) < WAIT_QUEUE_SIZE, sem_down(q, t)
      PROVE  LedgerOK(q)'
  <2>1. count'[q] = count[q] - 1
    BY <1>0, <1>3 DEF sem_down
  <2>2. CASE sem_down_ok(q)
    <3>1. wait_queue'[q] = wait_queue[q]
      BY <1>3, <2>2 DEF sem_down
    <3>2. count[q] - 1 >= 0
      BY <2>2 DEF sem_down_ok
    <3> QED
      BY <1>0, <1>3, <2>1, <3>1, <3>2
  <2>3. CASE ~sem_down_ok(q)
    <3>1. wait_queue'[q] = Append(wait_queue[q], t)
      BY <1>0, <1>3, <2>3 DEF sem_down, wq_push
    <3>2. Len(wait_queue'[q]) = Len(wait_queue[q]) + 1
      BY <1>0, <3>1, OccursAppend
    <3>3. count[q] - 1 < 0
      BY <1>0, <2>3 DEF sem_down_ok
    <3> QED
      BY <1>0, <1>3, <2>1, <3>2, <3>3
  <2> QED
    BY <2>2, <2>3
<1> QED
  BY <1>1, <1>2, <1>3

\* The calls on the other kinds of object, and on nothing, keep every ledger.
LEMMA SyncCallKeepsLedger ==
    ASSUME TypeOK, PlacesInv, OwnInv, NEW t \in Tids, SyncCall(t),
           NEW q \in Objs, IsSemaphore(q), q \in objects => LedgerOK(q)
    PROVE  q \in objects' => LedgerOK(q)'
<1>0. SyncTypeOK
  BY DEF TypeOK
<1>1. Runs(t)
  BY DEF SyncCall, MutexCreate, SemaphoreCreate, CondvarCreate, MutexLock, MutexUnlock,
         SemaphoreUp, SemaphoreDown, CondvarSignal, CondvarWait
<1>2. Pid(t) \in Pids
  BY <1>1, RunningInHand
<1>3. \A kind \in Kinds, i \in Slots :
         <<kind, Pid(t), i>> \in Objs /\ Owner(<<kind, Pid(t), i>>) = Pid(t)
  BY <1>2 DEF Objs, Owner
<1> DEFINE Kept == q \in objects' => LedgerOK(q)'
<1> USE DEF Kinds, IsSemaphore
<1>4. ASSUME UNCHANGED <<objects, sync_vars>> PROVE Kept
  BY <1>4 DEF LedgerOK, sync_vars
<1>5. ASSUME NEW m \in Objs, m # q, NEW u, NEW n, objects' \in {objects, objects \cup {m}},
             \/ mutex_lock(m, u) \/ mutex_unlock(m, u) \/ condvar_wait_with_mutex(m, u)
             \/ condvar_signal(m) \/ sem_up(m) \/ sem_down(m, u)
             \/ mutex_init(m) \/ sem_init(m, n) \/ condvar_init(m)
      PROVE  Kept
  BY <1>0, <1>5, SyncFrameOthers DEF LedgerOK
<1>6. CASE MutexCreate(t)
  <2>1. CASE ~Full("mutex", t)
    BY <1>2, <1>5, <1>6, <2>1, FreeEntry DEF MutexCreate, New
  <2> QED
    BY <1>4, <1>6, <2>1 DEF MutexCreate
<1>7. CASE CondvarCreate(t)
  <2>1. CASE ~Full("condvar", t)
    BY <1>2, <1>5, <1>7, <2>1, FreeEntry DEF CondvarCreate, New
  <2> QED
    BY <1>4, <1>7, <2>1 DEF CondvarCreate
<1>8. ASSUME NEW n \in SemCounts, SemaphoreCreate(t, n) PROVE Kept
  <2> DEFINE m == New("semaphore", t)
  <2>1. CASE ~Full("semaphore", t)
    <3>1. m \in Objs /\ objects' = objects \cup {m} /\ sem_init(m, n) /\ n \in Nat
      BY <1>2, <1>8, <2>1, FreeEntry, KernelAssumption DEF SemaphoreCreate
    <3> HIDE DEF m
    <3>2. CASE m = q
      BY <1>0, <3>1, <3>2, LedgerKept
    <3> QED
      BY <1>5, <3>1, <3>2
  <2> QED
    BY <1>4, <1>8, <2>1 DEF SemaphoreCreate
<1>9. ASSUME NEW i \in Slots, MutexLock(t, i) \/ MutexUnlock(t, i) PROVE Kept
  <2> DEFINE m == <<"mutex", Pid(t), i>>
  <2>0. UNCHANGED objects
    BY <1>9 DEF MutexLock, MutexUnlock
  <2>1. m \in Objs /\ m # q /\ UNCHANGED objects
    BY <1>3, <2>0
  <2>2. mutex_lock(m, t) \/ mutex_unlock(m, t) \/ UNCHANGED sync_vars
    BY <1>9 DEF MutexLock, MutexUnlock
  <2> HIDE DEF m
  <2> QED
    BY <1>4, <1>5, <2>1, <2>2
<1>10. ASSUME NEW i \in Slots, SemaphoreUp(t, i) PROVE Kept
  <2> DEFINE m == <<"semaphore", Pid(t), i>>
  <2>1. m \in Objs /\ UNCHANGED objects /\ sem_up(m)
    BY <1>3, <1>10 DEF SemaphoreUp
  <2> HIDE DEF m
  <2>2. CASE m = q
    BY <1>0, <2>1, <2>2, LedgerKept
  <2> QED
    BY <1>5, <2>1, <2>2
<1>11. ASSUME NEW i \in Slots, SemaphoreDown(t, i) PROVE Kept
  <2> DEFINE m == <<"semaphore", Pid(t), i>>
  <2>1. m \in Objs /\ Owner(m) = Pid(t) /\ UNCHANGED objects
    BY <1>3, <1>11 DEF SemaphoreDown
  <2>2. sem_down(m, t) \/ UNCHANGED sync_vars
    BY <1>11 DEF SemaphoreDown
  <2>3. Len(wait_queue[m]) < WAIT_QUEUE_SIZE
    BY <1>1, <2>1, RoomToWait
  <2> HIDE DEF m
  <2>4. CASE m = q /\ sem_down(m, t)
    BY <1>0, <2>1, <2>3, <2>4, LedgerKept
  <2> QED
    BY <1>4, <1>5, <2>1, <2>2, <2>4
<1>12. ASSUME NEW i \in Slots, CondvarSignal(t, i) PROVE Kept
  <2> DEFINE m == <<"condvar", Pid(t), i>>
  <2>1. m \in Objs /\ m # q /\ UNCHANGED objects /\ condvar_signal(m)
    BY <1>3, <1>12 DEF CondvarSignal
  <2> HIDE DEF m
  <2> QED
    BY <1>5, <2>1
<1>13. ASSUME NEW i \in Slots, NEW j \in Slots, CondvarWait(t, i, j) PROVE Kept
  <2> DEFINE m == <<"mutex", Pid(t), j>>
  <2>1. m \in Objs /\ m # q /\ UNCHANGED objects
    BY <1>3, <1>13 DEF CondvarWait
  <2>2. condvar_wait_with_mutex(m, t) \/ UNCHANGED sync_vars
    BY <1>13 DEF CondvarWait
  <2> HIDE DEF m
  <2> QED
    BY <1>4, <1>5, <2>1, <2>2
<1> QED
  BY <1>6, <1>7, <1>8, <1>9, <1>10, <1>11, <1>12, <1>13 DEF SyncCall

LEMMA LedgerNext ==
    TypeOK /\ PlacesInv /\ OwnInv /\ SemaphoreLedger /\ [Next]_vars => SemaphoreLedger'
<1> SUFFICES ASSUME TypeOK, PlacesInv, OwnInv, SemaphoreLedger, [Next]_vars PROVE SemaphoreLedger'
  OBVIOUS
<1>1. ASSUME UNCHANGED <<objects, sync_vars>> PROVE SemaphoreLedger'
  BY <1>1 DEF SemaphoreLedger, sync_vars
<1>2. CASE SkipExited \/ UNCHANGED vars
  BY <1>1, <1>2 DEF SkipExited, vars
<1>3. ASSUME NEW t, Plain(t) \/ ProcessCall(t) \/ SignalCalls(t) PROVE SemaphoreLedger'
  <2>1. UNCHANGED <<objects, sync_vars>>
    BY <1>3 DEF Plain, ProcessCall, SignalCalls, ThreadCreate, Fork, Exec, Waitpid, Exit, Exception,
       Unsupported, Kill, Sigaction, Sigprocmask, Sigreturn, SignalCall
  <2> QED
    BY <1>1, <2>1
<1>4. ASSUME NEW t \in Tids, SyncCall(t) PROVE SemaphoreLedger'
  <2>1. objects' \subseteq Objs
    BY TypeNext DEF TypeOK
  <2>2. ASSUME NEW q \in Objs, IsSemaphore(q), q \in objects' PROVE LedgerOK(q)'
    BY <1>4, <2>2, SyncCallKeepsLedger DEF SemaphoreLedger, LedgerOK, IsSemaphore
  <2> QED
    BY <2>1, <2>2 DEF SemaphoreLedger, LedgerOK, IsSemaphore
<1> QED
  BY <1>2, <1>3, <1>4 DEF Next, Thread

\* sync.c, sem_down and sem_up, with wq_push's answer ignored: a negative
\* count is the number of queued threads, for any number of threads, because
\* the queue has room for all the threads of a process.
THEOREM KernelSemaphoreLedger == Spec => []SemaphoreLedger
<1>1. Init => SemaphoreLedger
  BY DEF Init, SemaphoreLedger
<1>2. Init => TypeOK /\ PlacesInv /\ WaitInv /\ OwnInv
  BY TypeInit, PlacesInit, OwnInit
<1>3. TypeOK /\ PlacesInv /\ WaitInv /\ OwnInv /\ SemaphoreLedger /\ [Next]_vars
      => (TypeOK /\ PlacesInv /\ WaitInv /\ OwnInv /\ SemaphoreLedger)'
  BY TypeNext, PlacesNext, WaitNext, OwnNext, LedgerNext
<1> QED
  BY <1>1, <1>2, <1>3, PTL DEF Spec

-----------------------------------------------------------------------------
(***************************************************************************)
(* Ids last.  Number each process's threads in the order of their ids: a   *)
(* thread is its process and its rank, and with room in process p nobody   *)
(* is the last of p.  So there are fewer threads than ids.                 *)
(***************************************************************************)
Before(u) == {v \in threads[thread_pid[u]] : v < u}
Rank(u) == Cardinality(Before(u))

LEMMA RankBelow ==
    ASSUME TypeOK, OwnInv, NEW u \in Tids, u < g_next_tid
    PROVE  Rank(u) \in Nat /\ Rank(u) < Cardinality(threads[thread_pid[u]])
<1> DEFINE S == threads[thread_pid[u]]
           B == Before(u)
<1>1. IsFiniteSet(S) /\ u \in S /\ Cardinality(S) \in Nat
  BY ThreadsFinite DEF OwnInv, TypeOK
<1>2. B \subseteq S \ {u}
  BY Tables DEF Before
<1>3. IsFiniteSet(S \ {u}) /\ Cardinality(S \ {u}) = Cardinality(S) - 1
  BY <1>1, FS_RemoveElement
<1> HIDE DEF S, B
<1>4. IsFiniteSet(B) /\ Cardinality(B) <= Cardinality(S \ {u}) /\ Cardinality(B) \in Nat
  BY <1>2, <1>3, FS_Subset, FS_CardinalityType
<1>5. Cardinality(B) < Cardinality(S)
  BY <1>1, <1>3, <1>4
<1> QED
  BY <1>4, <1>5 DEF Rank, B, S

\* Of two threads of a process, the one with the smaller id has the smaller rank.
LEMMA RanksDiffer ==
    ASSUME TypeOK, OwnInv, NEW u \in Tids, NEW v \in Tids, v < g_next_tid, u < v,
           thread_pid[u] = thread_pid[v]
    PROVE  Rank(u) # Rank(v)
<1> DEFINE A == Before(u)
           B == Before(v)
<1>1. u \in Nat /\ v \in Nat /\ g_next_tid \in Nat /\ u < g_next_tid
  BY Tables DEF TypeOK
<1>2. u \in threads[thread_pid[v]] /\ thread_pid[v] \in Pids
  BY <1>1 DEF OwnInv, TypeOK
<1>3. \A w \in threads[thread_pid[v]] : w \in Nat
  BY <1>2, Tables DEF TypeOK
<1>4. A \subseteq B \ {u} /\ u \in B
  BY <1>1, <1>2, <1>3 DEF Before
<1>5. IsFiniteSet(B)
  BY <1>2, ThreadsFinite, FS_Subset DEF Before
<1> HIDE DEF A, B
<1>6. IsFiniteSet(B \ {u}) /\ Cardinality(B \ {u}) = Cardinality(B) - 1
  BY <1>4, <1>5, FS_RemoveElement
<1>7. /\ Cardinality(A) <= Cardinality(B \ {u})
      /\ Cardinality(A) \in Nat /\ Cardinality(B) \in Nat
  BY <1>4, <1>5, <1>6, FS_Subset, FS_CardinalityType
<1> QED
  BY <1>6, <1>7 DEF Rank, A, B

LEMMA RoomMeansIds ==
    ASSUME TypeOK, OwnInv, NEW p \in Pids, Cardinality(threads[p]) < MAX_THREADS
    PROVE  g_next_tid < MAX_TIDS
<1> SUFFICES ASSUME g_next_tid >= MAX_TIDS PROVE FALSE
  BY Tables DEF TypeOK
<1>1. \A u \in Tids : u < g_next_tid
  BY Tables DEF TypeOK, Tids
<1> DEFINE Ranks == 0 .. MAX_THREADS - 1
           last == <<p, MAX_THREADS - 1>>
           Room == (Pids \X Ranks) \ {last}
           f == [u \in Tids |-> <<thread_pid[u], Rank(u)>>]
<1>2. /\ IsFiniteSet(Pids) /\ Cardinality(Pids) = MAX_PROCS
      /\ IsFiniteSet(Ranks) /\ Cardinality(Ranks) = MAX_THREADS
      /\ IsFiniteSet(Tids) /\ Cardinality(Tids) = MAX_TIDS
  <2>1. ASSUME NEW n \in Nat \ {0} PROVE IsFiniteSet(0 .. n - 1) /\ Cardinality(0 .. n - 1) = n
    <3> DEFINE m == n - 1
    <3>1. m \in Int /\ m >= 0 /\ m + 1 = n
      OBVIOUS
    <3> HIDE DEF m
    <3>2. IsFiniteSet(0 .. m) /\ Cardinality(0 .. m) = IF 0 > m THEN 0 ELSE m - 0 + 1
      BY <3>1, FS_Interval
    <3>3. Cardinality(0 .. m) = n
      BY <3>1, <3>2
    <3> QED
      BY <3>2, <3>3 DEF m
  <2> QED
    BY <2>1, Tables, SizesAssumption DEF Pids, Tids
<1>3. last \in Pids \X Ranks
  BY SizesAssumption
<1>4. /\ IsFiniteSet(Pids \X Ranks)
      /\ Cardinality(Pids \X Ranks) = MAX_TIDS
  <2> HIDE DEF Ranks
  <2> QED
    BY <1>2, FS_Product DEF MAX_TIDS
<1>5. f \in [Tids -> Room]
  <2> SUFFICES ASSUME NEW u \in Tids PROVE <<thread_pid[u], Rank(u)>> \in Room
    OBVIOUS
  <2>1. thread_pid[u] \in Pids /\ Cardinality(threads[thread_pid[u]]) <= MAX_THREADS
    BY DEF TypeOK, OwnInv
  <2>2. Rank(u) \in Nat /\ Rank(u) < Cardinality(threads[thread_pid[u]])
    BY <1>1, RankBelow
  <2>3. Cardinality(threads[thread_pid[u]]) \in Nat /\ Cardinality(threads[p]) \in Nat
    BY <2>1, ThreadsFinite
  <2>4. Rank(u) \in Ranks
    BY <2>1, <2>2, <2>3, SizesAssumption
  <2>5. <<thread_pid[u], Rank(u)>> # last
    BY <2>2, <2>3, SizesAssumption
  <2> QED
    BY <2>1, <2>4, <2>5
<1>6. \A u, v \in Tids : u # v => f[u] # f[v]
  <2> SUFFICES ASSUME NEW u \in Tids, NEW v \in Tids, u # v, f[u] = f[v] PROVE FALSE
    OBVIOUS
  <2>1. thread_pid[u] = thread_pid[v] /\ Rank(u) = Rank(v)
    OBVIOUS
  <2>2. u < v \/ v < u
    BY Tables
  <2> QED
    BY <1>1, <2>1, <2>2, RanksDiffer
<1> HIDE DEF f, last, Ranks
<1>7. IsFiniteSet(Room) /\ Cardinality(Room) = MAX_TIDS - 1
  BY <1>3, <1>4, FS_RemoveElement
<1> HIDE DEF Room
<1>8. Cardinality(Room) < Cardinality(Tids)
  BY <1>2, <1>7, Tables
<1> QED
  BY <1>2, <1>5, <1>6, <1>7, <1>8, FS_PigeonHole

\* create_thread, do_fork, do_thread_create: thread ids are never reused, and
\* still never run out while the pool or a process has room for a thread.
THEOREM KernelTidSupply == Spec => []TidSupply
<1>1. TypeOK /\ OwnInv => TidSupply
  <2> SUFFICES ASSUME TypeOK, OwnInv, g_next_pid < MAX_PROCS PROVE g_next_tid < MAX_TIDS
    BY RoomMeansIds DEF TidSupply
  <2>1. g_next_pid \in Pids /\ threads[g_next_pid] = {}
    BY SizesAssumption DEF TypeOK, Pids, OwnInv
  <2>2. Cardinality(threads[g_next_pid]) < MAX_THREADS
    BY <2>1, FS_EmptySet, SizesAssumption
  <2> QED
    BY <2>1, <2>2, RoomMeansIds
<1>2. Init => TypeOK /\ PlacesInv /\ WaitInv /\ OwnInv
  BY TypeInit, PlacesInit, OwnInit
<1>3. TypeOK /\ PlacesInv /\ WaitInv /\ OwnInv /\ [Next]_vars
      => (TypeOK /\ PlacesInv /\ WaitInv /\ OwnInv)'
  BY TypeNext, PlacesNext, WaitNext, OwnNext
<1> QED
  BY <1>1, <1>2, <1>3, PTL DEF Spec

-----------------------------------------------------------------------------
(***************************************************************************)
(* What every step keeps, whatever programs do: a thread is on the list of *)
(* its own process only, and what no process has used yet is as at boot.   *)
(***************************************************************************)
MembersInv == \A p \in Pids : \A u \in threads[p] : thread_pid[u] = p /\ u < g_next_tid

UnusedInv == /\ \A u \in Tids : u >= g_next_tid => ~exited[u]
             /\ \A p \in Pids : p >= g_next_pid => ~proc_exited[p] /\ reported[p] = <<>>

SlotsInv == KernelInv /\ OwnInv /\ MembersInv /\ UnusedInv

\* The ids are numbers.
LEMMA Counters ==
    ASSUME TypeOK
    PROVE  /\ g_next_tid \in Nat /\ g_next_pid \in Nat
           /\ Tids \subseteq Nat /\ Pids \subseteq Nat
           /\ \A p \in Pids : threads[p] \subseteq Tids
  BY Tables, SizesAssumption DEF TypeOK

\* The running thread and its process.
LEMMA RunningIsMember ==
    ASSUME SlotsInv, NEW t, Runs(t)
    PROVE  /\ t \in Tids /\ t < g_next_tid /\ ~exited[t]
           /\ Pid(t) \in Pids /\ t \in threads[Pid(t)] /\ Pid(t) < g_next_pid
           /\ \A p \in Pids : p # Pid(t) => t \notin threads[p]
<1>1. /\ Hand(t, Rest, wait_queue, waiting_tid, thread_pid, g_next_tid)
      /\ t \in Tids /\ Pid(t) \in Pids
  BY RunningInHand DEF SlotsInv, KernelInv
<1>2. t < g_next_tid /\ t \in threads[Pid(t)]
  BY <1>1 DEF Hand, SlotsInv, OwnInv, Pid
<1>3. Pid(t) < g_next_pid
  <2>1. g_next_pid \in Nat /\ Pid(t) \in Nat
    BY <1>1, Counters DEF SlotsInv, KernelInv
  <2>2. ~(Pid(t) >= g_next_pid)
    BY <1>1, <1>2 DEF SlotsInv, OwnInv
  <2> QED
    BY <2>1, <2>2
<1>4. \A p \in Pids : p # Pid(t) => t \notin threads[p]
  BY DEF SlotsInv, MembersInv, Pid
<1> QED
  BY <1>1, <1>2, <1>3, <1>4 DEF Runs

\* What a step may do to the exits: the end of an iteration marks at most the
\* running thread and its process.
ExitsOf(t) == /\ \A u \in Tids : u # t => exited'[u] = exited[u]
              /\ \A p \in Pids : p # Pid(t) =>
                    proc_exited'[p] = proc_exited[p] /\ exit_code'[p] = exit_code[p]
              /\ exited[t] => exited'[t]
              /\ proc_exited[Pid(t)] => proc_exited'[Pid(t)]

LEMMA ReturnExits ==
    ASSUME TypeOK, NEW t \in Tids, Pid(t) \in Pids, NEW rq, NEW sm, NEW b, Return(t, rq, sm, b)
    PROVE  ExitsOf(t) /\ (UNCHANGED exit_vars \/ (exited'[t] /\ proc_exited'[Pid(t)]))
<1> DEFINE p == Pid(t)
           r == signal_handle(sm[p])
<1>1. \/ /\ exited' = [exited EXCEPT ![t] = TRUE]
         /\ proc_exited' = [proc_exited EXCEPT ![p] = TRUE]
         /\ exit_code' = [exit_code EXCEPT ![p] = r.exit_code]
      \/ UNCHANGED exit_vars
  BY DEF Return
<1> HIDE DEF r, p
<1>2. exited \in [Tids -> BOOLEAN] /\ proc_exited \in [Pids -> BOOLEAN] /\ exit_code \in [Pids -> Int]
  BY DEF TypeOK
<1> QED
  BY <1>1, <1>2 DEF ExitsOf, exit_vars, p

\* Every iteration ends with Return, but for a thread that exits or faults.
LEMMA ReturnOrEnd ==
    ASSUME NEW t, Thread(t)
    PROVE  \/ \E rq, sm, b : Return(t, rq, sm, b)
           \/ Exception(t) \/ Unsupported(t) \/ \E code : Exit(t, code)
<1>1. Plain(t) \/ Exec(t) => \E rq, sm, b : Return(t, rq, sm, b)
  BY DEF Plain, Resume, Exec
<1>2. SyncCall(t) => \E rq, sm, b : Return(t, rq, sm, b)
  BY DEF SyncCall, MutexCreate, SemaphoreCreate, CondvarCreate, MutexLock, MutexUnlock,
       SemaphoreUp, SemaphoreDown, CondvarSignal, CondvarWait, Resume
<1>3. ThreadCreate(t) => \E rq, sm, b : Return(t, rq, sm, b)
  BY DEF ThreadCreate, Resume
<1>4. Fork(t) => \E rq, sm, b : Return(t, rq, sm, b)
  BY DEF Fork
<1>5. (\E want : Waitpid(t, want)) => \E rq, sm, b : Return(t, rq, sm, b)
  BY DEF Waitpid, Resume
<1>6. SignalCalls(t) => \E rq, sm, b : Return(t, rq, sm, b)
  BY DEF SignalCalls, Kill, Sigaction, Sigprocmask, Sigreturn, SignalCall
<1> QED
  BY <1>1, <1>2, <1>3, <1>4, <1>5, <1>6 DEF Thread, ProcessCall

LEMMA StepExits ==
    ASSUME SlotsInv, NEW t \in Tids, Thread(t)
    PROVE  Runs(t) /\ ExitsOf(t)
<1>0. TypeOK
  BY DEF SlotsInv, KernelInv
<1>1. Runs(t)
  BY DEF Thread, SyncCall, MutexCreate, SemaphoreCreate, CondvarCreate, MutexLock, MutexUnlock,
         SemaphoreUp, SemaphoreDown, CondvarSignal, CondvarWait, Plain, ProcessCall, ThreadCreate, Fork,
         Exec, Waitpid, Exit, Exception, Unsupported, SignalCalls, Kill, Sigaction, Sigprocmask,
         Sigreturn, SignalCall
<1>2. Pid(t) \in Pids
  BY <1>1, RunningIsMember
<1>3. CASE \E rq, sm, b : Return(t, rq, sm, b)
  BY <1>0, <1>1, <1>2, <1>3, ReturnExits
<1>4. CASE Exception(t) \/ Unsupported(t) \/ \E code : Exit(t, code)
  <2>1. exited' = [exited EXCEPT ![t] = TRUE]
    BY <1>4 DEF Exception, Unsupported, Exit
  <2>2. /\ proc_exited' \in {proc_exited, [proc_exited EXCEPT ![Pid(t)] = TRUE]}
        /\ UNCHANGED exit_code \/ \E code : exit_code' = [exit_code EXCEPT ![Pid(t)] = code]
    BY <1>4 DEF Exception, Unsupported, Exit, ExitProcess
  <2> QED
    BY <1>0, <1>1, <1>2, <2>1, <2>2 DEF ExitsOf, TypeOK
<1> QED
  BY <1>1, <1>3, <1>4, ReturnOrEnd

-----------------------------------------------------------------------------
\* The lists after a thread of process p has been created.
LEMMA CreatedThread ==
    ASSUME SlotsInv, NEW p \in Pids, create_thread(p)
    PROVE  /\ g_next_tid' >= g_next_tid
           /\ \A u \in Tids : u < g_next_tid => thread_pid'[u] = thread_pid[u]
           /\ \A o \in Pids : o # p => threads'[o] = threads[o]
           /\ \A u \in threads'[p] : u \in threads[p] \/ (u = g_next_tid /\ u \in Tids)
           /\ threads[p] \subseteq threads'[p]
           /\ \A u \in threads'[p] : thread_pid'[u] = p /\ u < g_next_tid'
<1>0. /\ g_next_tid \in 1 .. MAX_TIDS /\ MAX_TIDS \in Nat
      /\ thread_pid \in [Tids -> Pids] /\ threads \in [Pids -> SUBSET Tids]
      /\ Tids = 0 .. MAX_TIDS - 1
      /\ \A u \in threads[p] : thread_pid[u] = p /\ u < g_next_tid /\ u \in Tids
  BY Tables DEF SlotsInv, KernelInv, TypeOK, Tids, MembersInv
<1>1. CASE g_next_tid < MAX_TIDS
  <2>1. /\ thread_pid' = [thread_pid EXCEPT ![g_next_tid] = p]
        /\ threads' = [threads EXCEPT ![p] = @ \cup {g_next_tid}]
        /\ g_next_tid' = g_next_tid + 1 /\ g_next_tid \in Tids
    BY <1>0, <1>1 DEF create_thread, alloc_tid
  <2>2. thread_pid'[g_next_tid] = p /\ \A u \in Tids : u # g_next_tid => thread_pid'[u] = thread_pid[u]
    BY <1>0, <2>1
  <2>3. threads'[p] = threads[p] \cup {g_next_tid} /\ \A o \in Pids : o # p => threads'[o] = threads[o]
    BY <1>0, <2>1
  <2> QED
    BY <1>0, <2>1, <2>2, <2>3
<1>2. CASE ~(g_next_tid < MAX_TIDS)
  BY <1>0, <1>2 DEF create_thread, alloc_tid
<1> QED
  BY <1>1, <1>2

\* The tree of processes after any step.
LEMMA TreeStep ==
    ASSUME NEW t, Thread(t)
    PROVE  \/ UNCHANGED tree_vars
           \/ ThreadCreate(t) /\ UNCHANGED g_next_pid /\ create_thread(Pid(t))
           \/ Fork(t)
  BY DEF Thread, SyncCall, MutexCreate, SemaphoreCreate, CondvarCreate, MutexLock, MutexUnlock,
         SemaphoreUp, SemaphoreDown, CondvarSignal, CondvarWait, Plain, ProcessCall, ThreadCreate,
         Exec, Waitpid, Exit, Exception, Unsupported, SignalCalls, Kill, Sigaction, Sigprocmask,
         Sigreturn, SignalCall, SyncFrame

LEMMA ForkTree ==
    ASSUME SlotsInv, NEW t, Fork(t)
    PROVE  /\ g_next_pid' >= g_next_pid
           /\ \/ UNCHANGED <<g_next_tid, thread_pid, threads, parent, wait_vars>>
              \/ /\ g_next_pid \in Pids /\ g_next_pid # 0 /\ g_next_pid' = g_next_pid + 1
                 /\ create_thread(g_next_pid)
                 /\ parent' = [parent EXCEPT ![g_next_pid] = Pid(t)]
                 /\ ForkWaitFields(g_next_pid)
                 /\ waiting_tid' = [waiting_tid EXCEPT ![g_next_pid] = 0]
           /\ UNCHANGED reported
<1>1. g_next_pid \in 1 .. MAX_PROCS /\ MAX_PROCS \in Nat
  BY SizesAssumption DEF SlotsInv, KernelInv, TypeOK
<1>2. g_next_pid' >= g_next_pid /\ (g_next_pid < MAX_PROCS => g_next_pid' = g_next_pid + 1 /\ g_next_pid \in Pids)
  BY <1>1 DEF Fork, alloc_pid, Pids
<1>3. \/ UNCHANGED <<g_next_tid, thread_pid, threads, parent, wait_vars>>
      \/ /\ g_next_pid < MAX_PROCS
         /\ create_thread(g_next_pid)
         /\ parent' = [parent EXCEPT ![g_next_pid] = Pid(t)]
         /\ ForkWaitFields(g_next_pid)
         /\ waiting_tid' = [waiting_tid EXCEPT ![g_next_pid] = 0]
  BY DEF Fork
<1>4. UNCHANGED reported
  BY DEF Fork
<1> QED
  BY <1>1, <1>2, <1>3, <1>4

LEMMA MembersNext == SlotsInv /\ [Next]_vars => MembersInv'
<1> SUFFICES ASSUME SlotsInv, [Next]_vars PROVE MembersInv'
  OBVIOUS
<1>0. MembersInv
  BY DEF SlotsInv
<1>00. TypeOK'
  BY TypeNext DEF SlotsInv, KernelInv
<1>1. ASSUME UNCHANGED <<thread_pid, threads, g_next_tid>> PROVE MembersInv'
  BY <1>0, <1>1 DEF MembersInv
<1>2. ASSUME NEW p \in Pids, create_thread(p) PROVE MembersInv'
  <2>0. g_next_tid \in Nat /\ Tids \subseteq Nat /\ \A o \in Pids : threads[o] \subseteq Tids
    BY Counters DEF SlotsInv, KernelInv
  <2>1. g_next_tid' \in Nat
    BY <1>00, Tables DEF TypeOK
  <2>2. ASSUME NEW o \in Pids, o # p, NEW u \in threads'[o] PROVE thread_pid'[u] = o /\ u < g_next_tid'
    <3>1. u \in threads[o] /\ u \in Tids /\ u < g_next_tid /\ thread_pid[u] = o
      BY <1>0, <1>2, <2>0, <2>2, CreatedThread DEF MembersInv
    <3>2. thread_pid'[u] = thread_pid[u] /\ g_next_tid' >= g_next_tid
      BY <1>2, <3>1, CreatedThread
    <3> QED
      BY <2>0, <2>1, <3>1, <3>2
  <2> QED
    BY <1>2, <2>2, CreatedThread DEF MembersInv
<1>3. ASSUME NEW t \in Tids, Thread(t) PROVE MembersInv'
  <2>1. CASE Fork(t)
    BY <1>1, <1>2, <2>1, ForkTree
  <2>2. Pid(t) \in Pids
    BY <1>3, StepExits, RunningIsMember
  <2> QED
    BY <1>1, <1>2, <1>3, <2>1, <2>2, TreeStep DEF tree_vars
<1> QED
  BY <1>1, <1>3 DEF Next, SkipExited, vars, tree_vars

\* Reports are about processes that have exited, or exit in the step.
LEMMA ReportStep ==
    ASSUME SlotsInv, NEW t \in Tids, Thread(t), NEW c \in Pids, reported'[c] # reported[c]
    PROVE  /\ proc_exited[c] \/ c = Pid(t)
<1>1. \/ UNCHANGED reported \/ (\E want : Waitpid(t, want)) \/ (\E code : Exit(t, code))
  BY DEF Thread, SyncCall, MutexCreate, SemaphoreCreate, CondvarCreate, MutexLock, MutexUnlock,
         SemaphoreUp, SemaphoreDown, CondvarSignal, CondvarWait, Plain, ProcessCall, ThreadCreate, Fork,
         Exec, Exception, Unsupported, SignalCalls, Kill, Sigaction, Sigprocmask,
         Sigreturn, SignalCall, SyncFrame
<1>2. reported \in [Pids -> Seq(Int)]
  BY DEF SlotsInv, KernelInv, TypeOK
<1>3. ASSUME NEW want, Waitpid(t, want) PROVE proc_exited[c]
  <2> DEFINE Z == Zombies(Pid(t), want)
             z == CHOOSE e \in Z : \A d \in Z : e <= d
  <2>1. Z # {} /\ reported' = [reported EXCEPT ![z] = Append(@, exit_code[z])]
    BY <1>3 DEF Waitpid
  <2>2. Z \subseteq Nat
    BY Tables DEF Zombies, Found
  <2>3. z \in Z
    BY <2>1, <2>2, LeastElement
  <2>4. c = z
    BY <1>2, <2>1
  <2> QED
    BY <2>3, <2>4 DEF Zombies
<1>4. ASSUME NEW code, Exit(t, code) PROVE c = Pid(t)
  <2>1. UNCHANGED reported \/ \E x : reported' = [reported EXCEPT ![Pid(t)] = x]
    BY <1>4 DEF Exit, ExitProcess
  <2> QED
    BY <1>2, <2>1
<1> QED
  BY <1>1, <1>3, <1>4

LEMMA UnusedNext == SlotsInv /\ [Next]_vars => UnusedInv'
<1> SUFFICES ASSUME SlotsInv, [Next]_vars PROVE UnusedInv'
  OBVIOUS
<1>0. /\ UnusedInv /\ g_next_tid \in Nat /\ g_next_pid \in Nat
      /\ Tids \subseteq Nat /\ Pids \subseteq Nat
  BY Counters DEF SlotsInv, KernelInv
<1>1. CASE SkipExited \/ UNCHANGED vars
  BY <1>0, <1>1 DEF UnusedInv, SkipExited, vars, exit_vars, tree_vars
<1>2. ASSUME NEW t \in Tids, Thread(t) PROVE UnusedInv'
  <2>1. /\ ExitsOf(t) /\ t < g_next_tid /\ Pid(t) \in Pids /\ Pid(t) < g_next_pid
    BY <1>2, StepExits, RunningIsMember
  <2>2. g_next_tid' >= g_next_tid /\ g_next_pid' >= g_next_pid /\ g_next_tid' \in Nat /\ g_next_pid' \in Nat
    <3>1. Fork(t) => g_next_tid' >= g_next_tid /\ g_next_pid' >= g_next_pid
      BY <1>0, ForkTree, CreatedThread
    <3>2. ~Fork(t) => g_next_tid' >= g_next_tid /\ g_next_pid' >= g_next_pid
      <4>1. \/ UNCHANGED <<g_next_tid, g_next_pid>>
            \/ UNCHANGED g_next_pid /\ create_thread(Pid(t))
            \/ Fork(t)
        BY <1>2, TreeStep DEF tree_vars
      <4>2. create_thread(Pid(t)) => g_next_tid' >= g_next_tid
        BY <2>1, CreatedThread
      <4> QED
        BY <1>0, <4>1, <4>2
    <3>3. TypeOK'
      BY TypeNext DEF SlotsInv, KernelInv
    <3>4. g_next_tid' \in Nat /\ g_next_pid' \in Nat
      BY <3>3, Tables, SizesAssumption DEF TypeOK
    <3> QED
      BY <3>1, <3>2, <3>4
  <2>3. ASSUME NEW u \in Tids, u >= g_next_tid' PROVE ~exited'[u]
    BY <1>0, <2>1, <2>2, <2>3 DEF UnusedInv, ExitsOf
  <2>4. ASSUME NEW p \in Pids, p >= g_next_pid' PROVE ~proc_exited'[p] /\ reported'[p] = <<>>
    <3>1. p # Pid(t) /\ ~proc_exited[p] /\ reported[p] = <<>>
      BY <1>0, <2>1, <2>2, <2>4 DEF UnusedInv
    <3> QED
      BY <1>2, <2>1, <3>1, ReportStep DEF ExitsOf
  <2> QED
    BY <2>3, <2>4 DEF UnusedInv
<1> QED
  BY <1>1, <1>2 DEF Next

LEMMA SlotsInvariant == (Init => SlotsInv) /\ (SlotsInv /\ [Next]_vars => SlotsInv')
<1>1. Init => MembersInv /\ UnusedInv
  BY Tables DEF Init, MembersInv, UnusedInv
<1>2. Init => SlotsInv
  BY <1>1, TypeInit, PlacesInit, OwnInit DEF SlotsInv, KernelInv
<1>3. SlotsInv /\ [Next]_vars => SlotsInv'
  BY TypeNext, PlacesNext, WaitNext, OwnNext, MembersNext, UnusedNext DEF SlotsInv, KernelInv
<1> QED
  BY <1>2, <1>3

-----------------------------------------------------------------------------
(***************************************************************************)
(* Exits, while nobody sends a signal: a process ends only by the exit of  *)
(* its last thread, and its parent learns of it exactly once.              *)
(***************************************************************************)
NobodyKills == "kill" \notin Workload

NoSignals == \A p \in Pids : signal[p].received = {}

\* A child that was reported is nobody's child.
ReportedGone == \A c \in Pids : reported[c] # <<>> => parent[c] = PID_INVALID

ExitsInv == /\ SlotsInv /\ NoSignals
            /\ ExitedProcessQuiet /\ NoMissedExit /\ ReportedGone /\ ReportedOnce

\* A manager without pending signals delivers none.
LEMMA NothingPending ==
    ASSUME NEW sm \in SignalManagers, sm.received = {}
    PROVE  signal_handle(sm).type # "KILLED" /\ signal_handle(sm).sm = sm
<1>1. pending(sm) = {} /\ sm.handling \in {"none", "frozen", "user"}
  BY DEF pending, SignalManagers, HandlingTypes
<1>2. signal_handle(sm) \in {Result("SUSPENDED", 0, sm), Result("IS_HANDLING", 0, sm),
                             Result("NO_SIGNAL", 0, sm)}
  BY <1>1 DEF signal_handle
<1> QED
  BY <1>2 DEF Result

\* Only signal_add makes a signal pending.
LEMMA NothingReceived ==
    ASSUME NEW sm \in SignalManagers, sm.received = {}
    PROVE  /\ signal_init.received = {}
           /\ signal_fork(sm).received = {}
           /\ signal_clear(sm).received = {}
           /\ signal_return(sm).received = {}
           /\ \A m : signal_update_mask(sm, m).received = {}
           /\ \A s, installs : signal_set_action(sm, s, installs).received = {}
  BY DEF SignalManagers, signal_init, signal_fork, signal_clear, signal_return, signal_update_mask,
         signal_set_action

LEMMA ReturnQuietly ==
    ASSUME TypeOK, NEW t, Pid(t) \in Pids, NEW rq, NEW sm \in [Pids -> SignalManagers],
           \A p \in Pids : sm[p].received = {}, NEW b, Return(t, rq, sm, b)
    PROVE  UNCHANGED exit_vars /\ NoSignals'
<1> DEFINE p == Pid(t)
           r == signal_handle(sm[p])
<1>1. r.type # "KILLED" /\ r.sm = sm[p]
  BY NothingPending
<1>2. signal' = [sm EXCEPT ![p] = r.sm] /\ UNCHANGED exit_vars
  BY <1>1 DEF Return
<1>3. signal' = sm
  BY <1>1, <1>2
<1> QED
  BY <1>2, <1>3 DEF NoSignals

\* What one iteration of the loop does to exits, waits and reports.
LEMMA QuietStep ==
    ASSUME SlotsInv, NoSignals, NobodyKills, NEW t \in Tids, Thread(t)
    PROVE  /\ NoSignals'
           /\ \/ /\ UNCHANGED <<tree_vars, parent, wait_vars, reported, proc_exited, exit_code>>
                 /\ UNCHANGED exited \/ exited' = [exited EXCEPT ![t] = TRUE]
              \/ ThreadCreate(t) /\ UNCHANGED exit_vars
              \/ Fork(t) /\ UNCHANGED exit_vars
              \/ \E want \in Pids \cup {PID_INVALID} : Waitpid(t, want) /\ UNCHANGED exit_vars
              \/ \E code \in ExitCodes :
                    /\ UNCHANGED tree_vars
                    /\ exited' = [exited EXCEPT ![t] = TRUE]
                    /\ IF AllExited(Pid(t), t)
                       THEN ExitProcess(Pid(t), code)
                       ELSE UNCHANGED <<proc_exited, exit_code, wait_vars, parent, reported>>
<1> DEFINE p == Pid(t)
           Quiet(sm) == sm \in [Pids -> SignalManagers] /\ \A o \in Pids : sm[o].received = {}
<1>0. TypeOK /\ Quiet(signal)
  BY DEF SlotsInv, KernelInv, TypeOK, NoSignals
<1>1. p \in Pids
  BY StepExits, RunningIsMember
<1>2. \A rq, sm, b : Return(t, rq, sm, b) /\ Quiet(sm) => UNCHANGED exit_vars /\ NoSignals'
  BY <1>0, <1>1, ReturnQuietly
<1>3. ASSUME NEW c \in Pids, NEW m \in SignalManagers, m.received = {}
      PROVE  Quiet([signal EXCEPT ![c] = m])
  BY <1>0, <1>3
<1>4. /\ signal_init \in SignalManagers /\ signal_init.received = {}
      /\ signal_fork(signal[p]) \in SignalManagers /\ signal_fork(signal[p]).received = {}
      /\ signal_clear(signal[p]) \in SignalManagers /\ signal_clear(signal[p]).received = {}
      /\ signal_return(signal[p]) \in SignalManagers /\ signal_return(signal[p]).received = {}
      /\ \A m \in SUBSET Signals : /\ signal_update_mask(signal[p], m) \in SignalManagers
                                   /\ signal_update_mask(signal[p], m).received = {}
      /\ \A s \in Signals, i \in BOOLEAN : /\ signal_set_action(signal[p], s, i) \in SignalManagers
                                           /\ signal_set_action(signal[p], s, i).received = {}
  BY <1>0, <1>1, SignalOps, NothingReceived, KernelAssumption
<1>5. signal_handle(signal[p]).type # "KILLED" /\ signal_handle(signal[p]).sm = signal[p]
  BY <1>0, <1>1, NothingPending
<1> HIDE DEF Quiet
<1>10. CASE SyncCall(t)
  <2>1. /\ \E rq, b : Return(t, rq, signal, b)
        /\ SyncFrame
    BY <1>10 DEF SyncCall, MutexCreate, SemaphoreCreate, CondvarCreate, MutexLock, MutexUnlock,
         SemaphoreUp, SemaphoreDown, CondvarSignal, CondvarWait, Resume
  <2> QED
    BY <1>0, <1>2, <2>1 DEF SyncFrame, exit_vars
<1>11. CASE Plain(t)
  BY <1>0, <1>2, <1>11 DEF Plain, Resume, SyncFrame, exit_vars
<1>12. CASE Exec(t)
  <2>1. SyncFrame /\ Return(t, Rest, [signal EXCEPT ![p] = signal_clear(signal[p])], FALSE)
    BY <1>12 DEF Exec
  <2> QED
    BY <1>1, <1>2, <1>3, <1>4, <2>1 DEF SyncFrame, exit_vars
<1>13. CASE SignalCalls(t)
  <2>1. SyncFrame /\ \E m : Return(t, Rest, [signal EXCEPT ![p] = m], FALSE)
                           /\ m \in SignalManagers /\ m.received = {}
    <3>1. CASE Sigreturn(t)
      BY <1>4, <3>1 DEF Sigreturn, SignalCall
    <3>2. ASSUME NEW m \in SUBSET Signals, Sigprocmask(t, m)
          PROVE  SyncFrame /\ Return(t, Rest, [signal EXCEPT ![p] = signal_update_mask(signal[p], m)], FALSE)
      BY <3>2 DEF Sigprocmask, SignalCall
    <3>3. ASSUME NEW s \in Signals, NEW i \in BOOLEAN, Sigaction(t, s, i)
          PROVE  SyncFrame /\ Return(t, Rest, [signal EXCEPT ![p] = signal_set_action(signal[p], s, i)], FALSE)
      BY <3>3 DEF Sigaction, SignalCall
    <3>4. \A target, s : ~Kill(t, target, s)
      BY DEF Kill, Uses, NobodyKills
    <3> QED
      BY <1>4, <1>13, <3>1, <3>2, <3>3, <3>4 DEF SignalCalls
  <2> QED
    BY <1>1, <1>2, <1>3, <2>1 DEF SyncFrame, exit_vars
<1>14. CASE ThreadCreate(t)
  BY <1>0, <1>2, <1>14 DEF ThreadCreate, Resume
<1>15. CASE Fork(t)
  <2>1. g_next_pid < MAX_PROCS => g_next_pid \in Pids
    BY <1>0, SizesAssumption DEF TypeOK, Pids
  <2>2. \/ \E rq : Return(t, rq, signal, FALSE)
        \/ /\ g_next_pid \in Pids
           /\ \E rq, m : m \in {signal_init, signal_fork(signal[p])}
                         /\ Return(t, rq, [signal EXCEPT ![g_next_pid] = m], FALSE)
    BY <1>15, <2>1 DEF Fork
  <2> QED
    BY <1>0, <1>2, <1>3, <1>4, <1>15, <2>2
<1>16. ASSUME NEW want \in Pids \cup {PID_INVALID}, Waitpid(t, want)
       PROVE  NoSignals' /\ UNCHANGED exit_vars
  BY <1>0, <1>2, <1>16 DEF Waitpid, Resume
<1>17. ASSUME UNCHANGED signal \/ signal' = [signal EXCEPT ![p] = signal_handle(signal[p]).sm]
       PROVE  NoSignals'
  BY <1>0, <1>1, <1>5, <1>17 DEF NoSignals, Quiet
<1>18. ASSUME NEW code \in ExitCodes, Exit(t, code)
       PROVE  /\ NoSignals' /\ UNCHANGED tree_vars
              /\ exited' = [exited EXCEPT ![t] = TRUE]
              /\ IF AllExited(p, t) THEN ExitProcess(p, code)
                 ELSE UNCHANGED <<proc_exited, exit_code, wait_vars, parent, reported>>
  BY <1>5, <1>17, <1>18 DEF Exit
<1>19. CASE Exception(t) \/ Unsupported(t)
  BY <1>5, <1>17, <1>19 DEF Exception, Unsupported, SyncFrame
<1> QED
  BY <1>10, <1>11, <1>12, <1>13, <1>14, <1>15, <1>16, <1>18, <1>19 DEF Thread, ProcessCall

\* The first thread of a forked process, or none.
LEMMA ForkedProcess ==
    ASSUME SlotsInv, NEW t \in Tids, Fork(t)
    PROVE  /\ UNCHANGED reported
           /\ \/ UNCHANGED <<thread_pid, threads, parent, wait_vars>>
              \/ \E c \in Pids :
                    /\ c # 0 /\ ~proc_exited[c] /\ reported[c] = <<>> /\ threads[c] = {}
                    /\ parent' = [parent EXCEPT ![c] = Pid(t)]
                    /\ waiting_tid'[c] = 0 /\ thread_pid'[0] = 0
                    /\ \A o \in Pids : o # c => /\ threads'[o] = threads[o]
                                                /\ waiting_tid'[o] = waiting_tid[o]
                                                /\ waiting_for'[o] = waiting_for[o]
                    /\ \A u \in Tids : u < g_next_tid => thread_pid'[u] = thread_pid[u]
                    /\ \A u \in threads'[c] : ~exited[u] /\ u # t
<1> DEFINE c == g_next_pid
<1>00. TypeOK /\ WaitInv /\ UnusedInv /\ MembersInv /\ OwnInv
  BY DEF SlotsInv, KernelInv
<1>0. g_next_tid \in Nat /\ g_next_pid \in Nat /\ 0 \in Tids /\ 0 < g_next_tid
  BY <1>00, Tables, Counters DEF TypeOK
<1>1. CASE UNCHANGED <<g_next_tid, thread_pid, threads, parent, wait_vars>>
  BY <1>1, ForkTree
<1>2. CASE /\ c \in Pids /\ c # 0 /\ g_next_pid' = c + 1 /\ create_thread(c)
           /\ parent' = [parent EXCEPT ![c] = Pid(t)]
           /\ ForkWaitFields(c)
           /\ waiting_tid' = [waiting_tid EXCEPT ![c] = 0]
  <2>1. ~proc_exited[c] /\ reported[c] = <<>> /\ threads[c] = {}
    BY <1>0, <1>00, <1>2 DEF UnusedInv, OwnInv
  <2>2. waiting_tid'[c] = 0
        /\ \A o \in Pids : o # c => waiting_tid'[o] = waiting_tid[o] /\ waiting_for'[o] = waiting_for[o]
    BY <1>00, <1>2 DEF TypeOK, ForkWaitFields
  <2>3. /\ \A o \in Pids : o # c => threads'[o] = threads[o]
        /\ \A u \in Tids : u < g_next_tid => thread_pid'[u] = thread_pid[u]
        /\ \A u \in threads'[c] : u \in threads[c] \/ (u = g_next_tid /\ u \in Tids)
    BY <1>2, CreatedThread
  <2>4. thread_pid'[0] = 0
    BY <1>0, <1>00, <2>3 DEF WaitInv
  <2>5. \A u \in threads'[c] : ~exited[u] /\ u # t
    BY <1>0, <1>00, <2>1, <2>3, RunningIsMember DEF UnusedInv, Fork
  <2> HIDE DEF c
  <2> QED
    BY <1>2, <2>1, <2>2, <2>3, <2>4, <2>5, ForkTree
<1> QED
  BY <1>1, <1>2, ForkTree

\* The same for thread_create.
LEMMA GrownProcess ==
    ASSUME SlotsInv, NEW t \in Tids, ThreadCreate(t)
    PROVE  /\ UNCHANGED <<parent, wait_vars, reported>>
           /\ \A o \in Pids : o # Pid(t) => threads'[o] = threads[o]
           /\ \A u \in Tids : u < g_next_tid => thread_pid'[u] = thread_pid[u]
           /\ threads[Pid(t)] \subseteq threads'[Pid(t)]
           /\ \A u \in threads'[Pid(t)] : u \in threads[Pid(t)] \/ (~exited[u] /\ u # t)
<1>1. Thread(t) /\ Runs(t) /\ UNCHANGED <<parent, wait_vars, reported>>
  BY DEF Thread, ProcessCall, ThreadCreate
<1>2. Pid(t) \in Pids
  BY <1>1, RunningIsMember
<1>3. UNCHANGED tree_vars \/ create_thread(Pid(t))
  BY DEF ThreadCreate
<1>4. CASE UNCHANGED tree_vars
  BY <1>1, <1>4 DEF tree_vars
<1>5. CASE create_thread(Pid(t))
  <2>1. UnusedInv /\ g_next_tid \in Nat
    BY Counters DEF SlotsInv, KernelInv
  <2>2. \A u \in threads'[Pid(t)] : u \in threads[Pid(t)] \/ (u \in Tids /\ u >= g_next_tid)
    BY <1>2, <1>5, <2>1, CreatedThread
  <2> QED
    BY <1>1, <1>2, <1>5, <2>1, <2>2, CreatedThread, RunningIsMember DEF UnusedInv
<1> QED
  BY <1>3, <1>4, <1>5

\* The child waitpid takes.
LEMMA TakenChild ==
    ASSUME SlotsInv, NEW t \in Tids, NEW want \in Pids \cup {PID_INVALID}, Waitpid(t, want)
    PROVE  /\ UNCHANGED tree_vars
           /\ \/ UNCHANGED <<parent, wait_vars, reported>>
              \/ \E z \in Pids : /\ proc_exited[z] /\ parent[z] # PID_INVALID
                                 /\ parent' = [parent EXCEPT ![z] = PID_INVALID]
                                 /\ reported' = [reported EXCEPT ![z] = Append(@, exit_code[z])]
                                 /\ UNCHANGED wait_vars
              \/ /\ UNCHANGED <<parent, reported>>
                 /\ Zombies(Pid(t), want) = {}
                 /\ waiting_for' = [waiting_for EXCEPT ![Pid(t)] = want]
                 /\ waiting_tid' = [waiting_tid EXCEPT ![Pid(t)] = t]
<1> DEFINE Z == Zombies(Pid(t), want)
           z == CHOOSE c \in Z : \A d \in Z : c <= d
<1>0. UNCHANGED tree_vars
  BY DEF Waitpid
<1>1. CASE Z # {}
  <2>1. Z \subseteq Nat
    BY Tables DEF Zombies, Found
  <2>2. z \in Z
    BY <1>1, <2>1, LeastElement
  <2>3. Pid(t) \in Pids
    BY RunningIsMember DEF Waitpid
  <2>4. z \in Pids /\ proc_exited[z] /\ parent[z] # PID_INVALID
    BY <2>2, <2>3, Tables DEF Zombies, Found
  <2>5. /\ ReleaseChild(z) /\ UNCHANGED wait_vars
        /\ reported' = [reported EXCEPT ![z] = Append(@, exit_code[z])]
    BY <1>1 DEF Waitpid
  <2> HIDE DEF z
  <2> QED
    BY <1>0, <2>4, <2>5 DEF ReleaseChild
<1>2. CASE Z = {}
  BY <1>0, <1>2 DEF Waitpid
<1> QED
  BY <1>1, <1>2

-----------------------------------------------------------------------------
LEMMA QuietNext ==
    ASSUME ExitsInv, NobodyKills, NEW t \in Tids, Thread(t)
    PROVE  ExitedProcessQuiet'
<1> DEFINE p == Pid(t)
<1>0. /\ TypeOK /\ p \in Pids /\ t \in threads[p] /\ ~exited[t] /\ ~proc_exited[p]
      /\ \A o \in Pids : o # p => t \notin threads[o]
  BY StepExits, RunningIsMember DEF ExitsInv, SlotsInv, KernelInv, ExitedProcessQuiet
<1>1. exited \in [Tids -> BOOLEAN] /\ proc_exited \in [Pids -> BOOLEAN] /\ \A o \in Pids : threads[o] \subseteq Tids
  BY <1>0 DEF TypeOK
<1>2. ASSUME UNCHANGED <<threads, proc_exited>>, UNCHANGED exited \/ exited' = [exited EXCEPT ![t] = TRUE]
      PROVE  ExitedProcessQuiet'
  BY <1>0, <1>1, <1>2 DEF ExitsInv, ExitedProcessQuiet
<1>3. CASE ThreadCreate(t) /\ UNCHANGED exit_vars
  BY <1>0, <1>3, GrownProcess DEF ExitsInv, ExitedProcessQuiet, exit_vars
<1>4. CASE Fork(t) /\ UNCHANGED exit_vars
  BY <1>0, <1>4, ForkedProcess DEF ExitsInv, ExitedProcessQuiet, exit_vars
<1>5. ASSUME NEW want, Waitpid(t, want), UNCHANGED exit_vars PROVE ExitedProcessQuiet'
  BY <1>2, <1>5 DEF Waitpid, tree_vars, exit_vars
<1>6. ASSUME NEW code, UNCHANGED tree_vars, exited' = [exited EXCEPT ![t] = TRUE],
             AllExited(p, t), ExitProcess(p, code)
      PROVE  ExitedProcessQuiet'
  <2>1. UNCHANGED threads /\ proc_exited' = [proc_exited EXCEPT ![p] = TRUE]
    BY <1>6 DEF tree_vars, ExitProcess
  <2>2. \A u \in threads[p] : exited'[u]
    BY <1>0, <1>1, <1>6 DEF AllExited
  <2> QED
    BY <1>0, <1>1, <1>6, <2>1, <2>2 DEF ExitsInv, ExitedProcessQuiet
<1>7. SlotsInv /\ NoSignals
  BY DEF ExitsInv
<1> HIDE DEF p
<1> QED
  BY <1>2, <1>3, <1>4, <1>5, <1>6, <1>7, QuietStep DEF tree_vars, p

\* Fewer children that have exited: nobody who waits has missed one.
LEMMA FewerZombies ==
    ASSUME NoMissedExit, NEW o \in Pids, Waiting(o),
           \A c \in Pids : parent'[c] = o /\ proc_exited'[c] /\ Matches(waiting_for[o], c)
                           => parent[c] = o /\ proc_exited[c]
    PROVE  \A c \in Pids : ~(parent'[c] = o /\ proc_exited'[c] /\ Matches(waiting_for[o], c))
  BY DEF NoMissedExit, Zombies, Found

LEMMA WaitStillGoesOn ==
    ASSUME SlotsInv, NEW o \in Pids, waiting_tid'[o] # TID_INVALID, thread_pid'[waiting_tid'[o]] = o,
           waiting_tid'[o] = waiting_tid[o],
           \A u \in Tids : u < g_next_tid => thread_pid'[u] = thread_pid[u]
    PROVE  Waiting(o)
<1>1. waiting_tid[o] \in Tids \cup {TID_INVALID} /\ waiting_tid[o] < g_next_tid
  BY DEF SlotsInv, KernelInv, PlacesInv, Places, PlacesType, Created
<1> QED
  BY <1>1 DEF Waiting

LEMMA MissedNext ==
    ASSUME ExitsInv, NobodyKills, NEW t \in Tids, Thread(t)
    PROVE  NoMissedExit'
<1> DEFINE p == Pid(t)
           Gone(o) == \A c \in Pids : ~(parent'[c] = o /\ proc_exited'[c] /\ Matches(waiting_for'[o], c))
           Same(o) == waiting_tid'[o] = waiting_tid[o] /\ waiting_for'[o] = waiting_for[o]
           Waits2(o) == waiting_tid'[o] # TID_INVALID /\ thread_pid'[waiting_tid'[o]] = o
<1>0. /\ TypeOK /\ WaitInv /\ SlotsInv /\ NoSignals /\ NoMissedExit /\ p \in Pids
  BY StepExits, RunningIsMember DEF ExitsInv, SlotsInv, KernelInv
<1>1. SUFFICES ASSUME NEW o \in Pids, Waits2(o) PROVE Gone(o)
  BY DEF NoMissedExit, Waiting, Zombies, Found
<1>2. /\ parent \in [Pids -> Pids \cup {PID_INVALID}] /\ proc_exited \in [Pids -> BOOLEAN]
      /\ waiting_tid \in [Pids -> Tids \cup {TID_INVALID}]
      /\ waiting_for \in [Pids -> Pids \cup {PID_INVALID}]
      /\ reported \in [Pids -> Seq(Int)] /\ TID_INVALID \notin Tids /\ PID_INVALID \notin Pids
  BY <1>0, Tables DEF TypeOK
<1>3. ASSUME \A u \in Tids : u < g_next_tid => thread_pid'[u] = thread_pid[u], Same(o),
             \A c \in Pids : parent'[c] = o /\ proc_exited'[c] => parent[c] = o /\ proc_exited[c]
      PROVE  Gone(o)
  <2>1. Waiting(o)
    BY <1>0, <1>1, <1>3, WaitStillGoesOn
  <2> QED
    BY <1>0, <1>3, <2>1, FewerZombies
<1>4. CASE UNCHANGED <<thread_pid, parent, wait_vars, proc_exited>>
  BY <1>3, <1>4 DEF wait_vars
<1>5. CASE ThreadCreate(t) /\ UNCHANGED exit_vars
  BY <1>0, <1>3, <1>5, GrownProcess DEF wait_vars, exit_vars
<1>6. CASE Fork(t) /\ UNCHANGED exit_vars
  <2>1. CASE UNCHANGED <<thread_pid, threads, parent, wait_vars>>
    BY <1>4, <1>6, <2>1 DEF exit_vars
  <2>2. ASSUME NEW c \in Pids, c # 0, ~proc_exited[c], parent' = [parent EXCEPT ![c] = p],
               waiting_tid'[c] = 0, thread_pid'[0] = 0,
               \A d \in Pids : d # c => waiting_tid'[d] = waiting_tid[d] /\ waiting_for'[d] = waiting_for[d],
               \A u \in Tids : u < g_next_tid => thread_pid'[u] = thread_pid[u]
        PROVE  Gone(o)
    <3>1. o # c
      BY <1>1, <2>2
    <3>2. \A d \in Pids : d # c => parent'[d] = parent[d]
      BY <1>2, <2>2
    <3> QED
      BY <1>3, <1>6, <2>2, <3>1, <3>2 DEF exit_vars
  <2> QED
    BY <1>0, <1>6, <2>1, <2>2, ForkedProcess
<1>7. ASSUME NEW want \in Pids \cup {PID_INVALID}, Waitpid(t, want), UNCHANGED exit_vars PROVE Gone(o)
  <2>1. UNCHANGED <<thread_pid, proc_exited>>
    BY <1>0, <1>7, TakenChild DEF tree_vars, exit_vars
  <2>2. CASE UNCHANGED <<parent, wait_vars, reported>>
    BY <1>4, <2>1, <2>2
  <2>3. ASSUME NEW z \in Pids, parent' = [parent EXCEPT ![z] = PID_INVALID], UNCHANGED wait_vars
        PROVE  Gone(o)
    BY <1>2, <1>3, <2>1, <2>3 DEF wait_vars
  <2>4. CASE /\ UNCHANGED parent /\ Zombies(p, want) = {}
             /\ waiting_for' = [waiting_for EXCEPT ![p] = want]
             /\ waiting_tid' = [waiting_tid EXCEPT ![p] = t]
    <3>1. CASE o = p
      BY <1>0, <1>2, <2>1, <2>4, <3>1 DEF Zombies, Found
    <3>2. CASE o # p
      BY <1>0, <1>2, <1>3, <2>1, <2>4, <3>2
    <3> QED
      BY <3>1, <3>2
  <2> QED
    BY <1>0, <1>7, <2>2, <2>3, <2>4, TakenChild
<1>8. ASSUME NEW code, UNCHANGED tree_vars, AllExited(p, t), ExitProcess(p, code)
      PROVE  Gone(o)
  <2>1. UNCHANGED thread_pid /\ proc_exited' = [proc_exited EXCEPT ![p] = TRUE]
    BY <1>8 DEF tree_vars, ExitProcess
  <2>2. CASE ~WakesParent(p)
    <3>1. UNCHANGED <<wait_vars, parent>>
      BY <1>8, <2>2 DEF ExitProcess
    <3>2. Waiting(o)
      BY <1>0, <1>1, <2>1, <3>1, WaitStillGoesOn DEF wait_vars
    <3>3. ~(parent[p] = o /\ Matches(waiting_for[o], p))
      BY <1>2, <2>2, <3>2 DEF WakesParent, Waiting
    <3> QED
      BY <1>0, <1>2, <2>1, <3>1, <3>2, <3>3, FewerZombies DEF wait_vars
  <2>3. CASE WakesParent(p)
    <3> DEFINE a == parent[p]
    <3>1. /\ waiting_tid' = [waiting_tid EXCEPT ![a] = TID_INVALID]
          /\ waiting_for' = [waiting_for EXCEPT ![a] = PID_INVALID]
          /\ parent' = [parent EXCEPT ![p] = PID_INVALID]
      BY <1>8, <2>3 DEF ExitProcess, ReleaseChild
    <3>2. o # a
      BY <1>1, <1>2, <3>1
    <3> HIDE DEF a, p
    <3> QED
      BY <1>0, <1>2, <1>3, <2>1, <3>1, <3>2
  <2> QED
    BY <2>2, <2>3
<1> HIDE DEF p, Gone, Same, Waits2
<1> QED
  BY <1>0, <1>4, <1>5, <1>6, <1>7, <1>8, QuietStep DEF tree_vars, p

\* ReportedOnce in terms of one child.
ReportOK(c) == \/ reported[c] = <<>>
               \/ /\ reported[c] = <<exit_code[c]>>
                  /\ proc_exited[c] /\ parent[c] = PID_INVALID

LEMMA ReportParts == ReportedGone /\ ReportedOnce <=> \A c \in Pids : ReportOK(c)
<1>1. ASSUME NEW c \in Pids, ReportOK(c)
      PROVE  /\ Len(reported[c]) <= 1
             /\ reported[c] # <<>> => /\ proc_exited[c] /\ reported[c] = <<exit_code[c]>>
                                     /\ parent[c] = PID_INVALID
  <2>1. CASE reported[c] = <<>>
    BY <2>1
  <2>2. CASE reported[c] # <<>>
    <3>1. reported[c] = <<exit_code[c]>> /\ proc_exited[c] /\ parent[c] = PID_INVALID
      BY <1>1, <2>2 DEF ReportOK
    <3>2. \A x : Len(<<x>>) = 1
      OBVIOUS
    <3> QED
      BY <3>1, <3>2
  <2> QED
    BY <2>1, <2>2
<1>2. (\A c \in Pids : ReportOK(c)) => ReportedGone /\ ReportedOnce
  BY <1>1 DEF ReportedGone, ReportedOnce
<1>3. ReportedGone /\ ReportedOnce => \A c \in Pids : ReportOK(c)
  BY DEF ReportedGone, ReportedOnce, ReportOK
<1> QED
  BY <1>2, <1>3

LEMMA ReportNext ==
    ASSUME ExitsInv, NobodyKills, NEW t \in Tids, Thread(t), NEW c \in Pids
    PROVE  ReportOK(c)'
<1> DEFINE p == Pid(t)
<1>0. /\ TypeOK /\ SlotsInv /\ NoSignals /\ p \in Pids /\ ~proc_exited[p] /\ ReportOK(c)
  <2>1. SlotsInv /\ TypeOK /\ NoSignals
    BY DEF ExitsInv, SlotsInv, KernelInv
  <2>2. p \in Pids /\ t \in threads[p] /\ ~exited[t]
    BY <2>1, StepExits, RunningIsMember
  <2> QED
    BY <2>1, <2>2, ReportParts DEF ExitsInv, ExitedProcessQuiet
<1>1. /\ reported \in [Pids -> Seq(Int)] /\ parent \in [Pids -> Pids \cup {PID_INVALID}]
      /\ proc_exited \in [Pids -> BOOLEAN] /\ exit_code \in [Pids -> Int]
  BY <1>0 DEF TypeOK
<1>2. ASSUME UNCHANGED <<parent, reported, proc_exited, exit_code>> PROVE ReportOK(c)'
  BY <1>0, <1>2 DEF ReportOK
<1>3. CASE ThreadCreate(t) /\ UNCHANGED exit_vars
  BY <1>2, <1>3, GrownProcess, <1>0 DEF exit_vars
<1>4. CASE Fork(t) /\ UNCHANGED exit_vars
  <2>1. \/ UNCHANGED <<parent, reported>>
        \/ \E d \in Pids : /\ UNCHANGED reported /\ reported[d] = <<>>
                           /\ parent' = [parent EXCEPT ![d] = p]
    BY <1>0, <1>4, ForkedProcess
  <2> QED
    BY <1>0, <1>1, <1>4, <2>1 DEF ReportOK, exit_vars
<1>5. ASSUME NEW want \in Pids \cup {PID_INVALID}, Waitpid(t, want), UNCHANGED exit_vars PROVE ReportOK(c)'
  <2>1. \/ UNCHANGED <<parent, reported>>
        \/ \E z \in Pids : /\ proc_exited[z] /\ parent[z] # PID_INVALID
                           /\ parent' = [parent EXCEPT ![z] = PID_INVALID]
                           /\ reported' = [reported EXCEPT ![z] = Append(@, exit_code[z])]
    BY <1>0, <1>5, TakenChild
  <2>2. ASSUME NEW z \in Pids, proc_exited[z], parent[z] # PID_INVALID,
               parent' = [parent EXCEPT ![z] = PID_INVALID],
               reported' = [reported EXCEPT ![z] = Append(@, exit_code[z])]
        PROVE  ReportOK(c)'
    <3>1. CASE c # z
      BY <1>0, <1>1, <1>5, <2>2, <3>1 DEF ReportOK, exit_vars
    <3>2. CASE c = z
      <4>1. reported[c] = <<>>
        BY <1>0, <2>2, <3>2 DEF ReportOK
      <4>2. reported'[c] = <<exit_code[c]>> /\ parent'[c] = PID_INVALID
        BY <1>1, <2>2, <3>2, <4>1
      <4> QED
        BY <1>5, <2>2, <3>2, <4>2 DEF ReportOK, exit_vars
    <3> QED
      BY <3>1, <3>2
  <2> QED
    BY <1>2, <1>5, <2>1, <2>2 DEF exit_vars
<1>6. ASSUME NEW code, ExitProcess(p, code) PROVE ReportOK(c)'
  <2>1. /\ proc_exited' = [proc_exited EXCEPT ![p] = TRUE]
        /\ exit_code' = [exit_code EXCEPT ![p] = code]
        /\ \/ UNCHANGED <<parent, reported>>
           \/ /\ parent' = [parent EXCEPT ![p] = PID_INVALID]
              /\ reported' = [reported EXCEPT ![p] = Append(@, code)]
    BY <1>6 DEF ExitProcess, ReleaseChild
  <2>2. CASE c # p
    BY <1>0, <1>1, <2>1, <2>2 DEF ReportOK
  <2>3. CASE c = p
    <3>1. reported[c] = <<>>
      BY <1>0, <2>3 DEF ReportOK
    <3> HIDE DEF p
    <3>2. \/ reported'[c] = <<>>
          \/ reported'[c] = <<code>> /\ parent'[c] = PID_INVALID
      BY <1>1, <2>1, <2>3, <3>1
    <3>3. proc_exited'[c] /\ exit_code'[c] = code
      BY <1>1, <2>1, <2>3
    <3> QED
      BY <3>2, <3>3 DEF ReportOK
  <2> QED
    BY <2>2, <2>3
<1> HIDE DEF p
<1> QED
  BY <1>0, <1>2, <1>3, <1>4, <1>5, <1>6, QuietStep DEF p

LEMMA ExitsInvariant == ASSUME NobodyKills PROVE Spec => []ExitsInv
<1>1. Init => ExitsInv
  <2> SUFFICES ASSUME Init PROVE ExitsInv
    OBVIOUS
  <2>1. SlotsInv /\ TypeOK
    BY SlotsInvariant DEF SlotsInv, KernelInv
  <2>2. NoSignals
    BY DEF Init, NoSignals, signal_init
  <2>3. \A p \in Pids : ~proc_exited[p] /\ reported[p] = <<>>
    BY DEF Init
  <2>4. ReportedGone /\ ReportedOnce
    BY <2>3, ReportParts DEF ReportOK
  <2> QED
    BY <2>1, <2>2, <2>3, <2>4
       DEF ExitsInv, ExitedProcessQuiet, NoMissedExit, Zombies, Found
<1>2. ExitsInv /\ [Next]_vars => ExitsInv'
  <2> SUFFICES ASSUME ExitsInv, [Next]_vars PROVE ExitsInv'
    OBVIOUS
  <2>1. SlotsInv'
    BY SlotsInvariant DEF ExitsInv
  <2>2. ASSUME UNCHANGED <<tree_vars, parent, wait_vars, exit_vars, signal, reported>> PROVE ExitsInv'
    BY <2>1, <2>2
       DEF ExitsInv, NoSignals, ExitedProcessQuiet, NoMissedExit, ReportedGone, ReportedOnce,
           Waiting, Zombies, Found, tree_vars, wait_vars, exit_vars
  <2>3. ASSUME NEW t \in Tids, Thread(t) PROVE ExitsInv'
    <3>1. ExitedProcessQuiet' /\ NoMissedExit' /\ NoSignals'
      BY <2>3, QuietNext, MissedNext, QuietStep DEF ExitsInv
    <3>2. \A c \in Pids : ReportOK(c)'
      BY <2>3, ReportNext
    <3>4. ReportedGone' /\ ReportedOnce'
      <4>1. (\A c \in Pids : ReportOK(c))'
        BY <3>2
      <4> QED
        BY <4>1, ReportParts, PTL
    <3> QED
      BY <2>1, <3>1, <3>4 DEF ExitsInv
  <2> QED
    BY <2>2, <2>3 DEF Next, SkipExited, vars
<1> QED
  BY <1>1, <1>2, PTL DEF Spec

\* SYS_EXIT, all_exited: no thread of an exited process can
\* run any more, for any number of processes and threads, while nobody sends
\* a signal (a killed thread takes its process with it, its siblings stay).
THEOREM KernelExitedProcessQuiet == ASSUME NobodyKills PROVE Spec => []ExitedProcessQuiet
<1>1. ExitsInv => ExitedProcessQuiet
  BY DEF ExitsInv
<1> QED
  BY <1>1, ExitsInvariant, PTL

\* do_waitpid and SYS_EXIT in main.c: a thread is in waitpid only while no
\* child it waits for has exited, while nobody sends a signal: looking for a
\* zombie and going to wait is one step, and so is exiting and waking.
THEOREM KernelNoMissedExit == ASSUME NobodyKills PROVE Spec => []NoMissedExit
<1>1. ExitsInv => NoMissedExit
  BY DEF ExitsInv
<1> QED
  BY <1>1, ExitsInvariant, PTL

\* do_waitpid and SYS_EXIT in main.c: the exit of a process is told to its
\* parent at most once, by one of the two ways, and with the code it ended
\* with, while nobody sends a signal.
THEOREM KernelReportedOnce == ASSUME NobodyKills PROVE Spec => []ReportedOnce
<1>1. ExitsInv => ReportedOnce
  BY DEF ExitsInv
<1> QED
  BY <1>1, ExitsInvariant, PTL

-----------------------------------------------------------------------------
(***************************************************************************)
(* The last thread of a process takes the process with it, signals or not, *)
(* if every thread ends by exit or by a signal.                            *)
(***************************************************************************)
NobodyFaults == Workload \cap {"exception", "unsupported"} = {}

LEMMA DeadNext ==
    ASSUME SlotsInv, DeadProcessExited, NobodyFaults, NEW t \in Tids, Thread(t)
    PROVE  DeadProcessExited'
<1> DEFINE p == Pid(t)
<1>0. /\ TypeOK /\ UnusedInv /\ p \in Pids /\ t \in threads[p] /\ ~exited[t] /\ ExitsOf(t)
      /\ \A o \in Pids : o # p => t \notin threads[o]
  BY StepExits, RunningIsMember DEF SlotsInv, KernelInv
<1>1. exited \in [Tids -> BOOLEAN] /\ proc_exited \in [Pids -> BOOLEAN] /\ \A o \in Pids : threads[o] \subseteq Tids
  BY <1>0 DEF TypeOK
\* Other processes: nobody of theirs has exited, and a new thread is alive.
<1>2. /\ \A o \in Pids : o # p =>
            threads'[o] = threads[o] \/ \A u \in threads'[o] : ~exited[u] /\ u # t
      /\ \A u \in threads'[p] : u \in threads[p] \/ (~exited[u] /\ u # t)
      /\ threads[p] \subseteq threads'[p]
  <2>1. CASE UNCHANGED tree_vars
    BY <2>1 DEF tree_vars
  <2>2. CASE ThreadCreate(t)
    BY <2>2, GrownProcess
  <2>3. CASE Fork(t)
    BY <1>0, <2>3, ForkedProcess
  <2> QED
    BY <2>1, <2>2, <2>3, TreeStep
<1>3. \A u : u # t /\ ~exited[u] => (u \in Tids => ~exited'[u])
  BY <1>0 DEF ExitsOf
\* The running thread is marked together with its process, or another one is left.
<1>4. exited'[t] => proc_exited'[p] \/ \E u \in threads[p] : u # t /\ ~exited[u]
  <2>1. CASE \E rq, sm, b : Return(t, rq, sm, b)
    BY <1>0, <2>1, ReturnExits DEF exit_vars
  <2>2. ASSUME NEW code, Exit(t, code)
        PROVE  proc_exited'[p] \/ \E u \in threads[p] : u # t /\ ~exited[u]
    <3>1. CASE AllExited(p, t) \/ signal_handle(signal[p]).type = "KILLED"
      <4>1. proc_exited' = [proc_exited EXCEPT ![p] = TRUE]
        BY <2>2, <3>1 DEF Exit, ExitProcess
      <4> QED
        BY <1>0, <1>1, <4>1
    <3> QED
      BY <3>1, <2>2 DEF Exit, AllExited
  <2>3. ~Exception(t) /\ ~Unsupported(t)
    BY DEF NobodyFaults, Exception, Unsupported, Uses
  <2>4. (\E rq, sm, b : Return(t, rq, sm, b)) \/ \E code : Exit(t, code)
    BY <2>3, ReturnOrEnd
  <2> QED
    BY <2>1, <2>2, <2>4
<1>5. SUFFICES ASSUME NEW o \in Pids, threads'[o] # {}, \A u \in threads'[o] : exited'[u]
               PROVE  proc_exited'[o]
  BY DEF DeadProcessExited
<1>6. threads'[o] \subseteq Tids
  BY <1>0, TypeNext DEF TypeOK, Next
<1>7. CASE o # p
  <2>1. threads'[o] = threads[o]
    BY <1>2, <1>3, <1>5, <1>6, <1>7
  <2>2. \A u \in threads[o] : exited[u]
    BY <1>0, <1>1, <1>5, <1>7, <2>1 DEF ExitsOf
  <2> QED
    BY <1>0, <1>5, <1>7, <2>1, <2>2 DEF DeadProcessExited, ExitsOf
<1>8. CASE o = p
  <2>1. exited'[t]
    BY <1>0, <1>2, <1>5, <1>8
  <2>2. ~\E u \in threads[p] : u # t /\ ~exited[u]
    BY <1>1, <1>2, <1>3, <1>5, <1>8
  <2> QED
    BY <1>4, <1>8, <2>1, <2>2
<1> QED
  BY <1>7, <1>8

\* SYS_EXIT, all_exited: with its last thread gone a process has exited,
\* whoever is killed, if no thread ends by a fault (main.c then marks the
\* thread and nothing else).
THEOREM KernelDeadProcessExited == ASSUME NobodyFaults PROVE Spec => []DeadProcessExited
<1>1. Init => SlotsInv /\ DeadProcessExited
  <2>1. Init => \A p \in Pids : threads[p] # {} => \E u \in threads[p] : ~exited[u]
    BY Tables DEF Init
  <2> QED
    BY <2>1, SlotsInvariant DEF DeadProcessExited
<1>2. SlotsInv /\ DeadProcessExited /\ [Next]_vars => (SlotsInv /\ DeadProcessExited)'
  <2>1. SlotsInv /\ DeadProcessExited /\ (SkipExited \/ UNCHANGED vars) => DeadProcessExited'
    BY DEF SkipExited, vars, tree_vars, exit_vars, DeadProcessExited
  <2> QED
    BY <2>1, DeadNext, SlotsInvariant DEF Next
<1> QED
  BY <1>1, <1>2, PTL DEF Spec

-----------------------------------------------------------------------------
(***************************************************************************)
(* No thread is lost.  Every thread created is, until it exits, where      *)
(* somebody will find it, as long as no more threads were created than the *)
(* ready queue has places (64 in the code).  Programs name objects that    *)
(* exist and have one thread at a time in waitpid.                         *)
(***************************************************************************)
Considerate == Workload \cap {"bad_id", "many_waiters"} = {}

Somewhere(u, rq, w, wt, tp) == \/ Occurs(u, rq)
                               \/ \E q \in Objs : Owner(q) = tp[u] /\ Occurs(u, w[q])
                               \/ wt[tp[u]] = u

\* Every thread created but t.
Others(t, rq, w, wt, tp, n) ==
    \A u \in Tids : u < n /\ u # t => exited[u] \/ Somewhere(u, rq, w, wt, tp)

FoundInv == \A u \in Tids : u < g_next_tid =>
                exited[u] \/ Somewhere(u, ready, wait_queue, waiting_tid, thread_pid)

\* An object that does not exist has no waiters: creating it forgets nobody.
EmptyInv == \A q \in Objs : q \notin objects => wait_queue[q] = <<>>

LostInv == SlotsInv /\ EmptyInv /\ FoundInv

\* With a place for each of the first n threads the ready queue never
\* refuses one of them that is not in it.
LEMMA RoomToRun ==
    ASSUME NEW n \in Nat, n <= READY_QUEUE_SIZE, NEW rq \in Seq(Tids), Distinct(rq),
           \A u : Occurs(u, rq) => u < n, NEW t \in Tids, t < n, ~Occurs(t, rq)
    PROVE  \A u : Occurs(u, ready_enqueue(rq, t)) <=> Occurs(u, rq) \/ u = t
<1> DEFINE N == 0 .. n - 1
           T == N \ {t}
<1>1. IsFiniteSet(N) /\ Cardinality(N) = n /\ t \in N
  <2>1. t \in Nat /\ t <= n - 1
    BY Tables
  <2>2. 0 \in Int /\ n - 1 \in Int /\ n - 1 >= 0 /\ (n - 1) - 0 + 1 = n
    BY <2>1
  <2>3. IsFiniteSet(N) /\ Cardinality(N) = IF 0 > n - 1 THEN 0 ELSE (n - 1) - 0 + 1
    BY <2>2, FS_Interval
  <2> QED
    BY <2>1, <2>2, <2>3
<1>2. IsFiniteSet(T) /\ Cardinality(T) = n - 1
  BY <1>1, FS_RemoveElement
<1>3. \A u : Occurs(u, rq) => u \in T
  <2> SUFFICES ASSUME NEW u, Occurs(u, rq) PROVE u \in T
    OBVIOUS
  <2>1. u \in Tids /\ u < n /\ u # t
    BY DEF Occurs
  <2>2. u \in N
    BY <2>1, Tables
  <2> QED
    BY <2>1, <2>2
<1>4. Len(rq) <= Cardinality(T)
  BY <1>2, <1>3, DistinctIsShort
<1>5. Len(rq) < READY_QUEUE_SIZE
  BY <1>2, <1>4, KernelAssumption
<1> QED
  BY <1>5, OccursAppend DEF ready_enqueue

\* The end of the iteration.
LEMMA ReturnKeeps ==
    ASSUME TypeOK, NEW rq, NEW w, NEW wt, NEW tp, NEW n, Places(rq, w, wt, tp, n),
           n <= READY_QUEUE_SIZE, NEW t, Hand(t, rq, w, wt, tp, n), NEW sm, NEW b, Return(t, rq, sm, b)
    PROVE  /\ \A u : Occurs(u, rq) => Occurs(u, ready')
           /\ exited'[t] \/ b \/ Occurs(t, ready')
<1>1. /\ n \in Nat /\ rq \in Seq(Tids) /\ Distinct(rq) /\ \A u : Occurs(u, rq) => u < n
      /\ t \in Tids /\ t < n /\ ~Occurs(t, rq)
  BY DEF Places, PlacesType, Apart, Created, Hand
<1>2. \A u : Occurs(u, ready_enqueue(rq, t)) <=> Occurs(u, rq) \/ u = t
  BY <1>1, RoomToRun
<1> DEFINE killed == signal_handle(sm[Pid(t)]).type = "KILLED"
<1>3. ready' = requeue(t, rq, killed, b) /\ (killed => exited' = [exited EXCEPT ![t] = TRUE])
  BY DEF Return
<1> HIDE DEF killed
<1>4. killed => exited'[t]
  BY <1>1, <1>3 DEF TypeOK
<1> QED
  BY <1>2, <1>3, <1>4 DEF requeue

\* Taking the head of a sequence leaves the others.
LEMMA OccursRest ==
    ASSUME NEW S, NEW s \in Seq(S), s # <<>>, NEW u, Occurs(u, s)
    PROVE  u = Head(s) \/ Occurs(u, Tail(s))
<1>1. /\ Tail(s) \in Seq(S) /\ Len(Tail(s)) = Len(s) - 1
      /\ \A i \in 1 .. Len(Tail(s)) : Tail(s)[i] = s[i + 1]
  BY HeadTailProperties
<1>2. Len(s) \in Nat \ {0} /\ Head(s) = s[1]
  OBVIOUS
<1>3. PICK i \in 1 .. Len(s) : s[i] = u
  BY DEF Occurs
<1>4. CASE i = 1
  BY <1>2, <1>3, <1>4
<1>5. CASE i # 1
  <2>1. i - 1 \in 1 .. Len(Tail(s)) /\ (i - 1) + 1 = i
    BY <1>1, <1>2, <1>5
  <2>2. Tail(s)[i - 1] = u
    BY <1>1, <1>3, <2>1
  <2> QED
    BY <2>1, <2>2 DEF Occurs
<1> QED
  BY <1>4, <1>5

\* A release moves the oldest waiter, and nobody else.
LEMMA WakeKeeps ==
    ASSUME NEW rq, NEW w, NEW wt, NEW tp, NEW n, Places(rq, w, wt, tp, n),
           n <= READY_QUEUE_SIZE, NEW q \in Objs, NEW u, Somewhere(u, rq, w, wt, tp)
    PROVE  Somewhere(u, ready_wake(rq, wq_popped(w[q])), [w EXCEPT ![q] = wq_rest(@)], wt, tp)
<1> DEFINE w2 == [w EXCEPT ![q] = wq_rest(@)]
           h  == wq_popped(w[q])
<1>1. /\ w[q] \in Seq(Tids) /\ rq \in Seq(Tids) /\ Distinct(rq)
      /\ \A v : ~(Occurs(v, rq) /\ Occurs(v, w[q]))
      /\ n \in Nat /\ \A v : Occurs(v, rq) \/ Occurs(v, w[q]) => v < n
  BY DEF Places, PlacesType, Apart, Created
<1>2. w2[q] = wq_rest(w[q]) /\ \A r \in Objs : r # q => w2[r] = w[r]
  BY DEF Places, PlacesType
<1>3. CASE w[q] = <<>>
  <2>1. h = TID_INVALID /\ w2[q] = w[q]
    BY <1>2, <1>3 DEF wq_popped, wq_rest
  <2> HIDE DEF w2, h
  <2> QED
    BY <1>2, <2>1 DEF Somewhere, ready_wake, w2, h
<1>4. CASE w[q] # <<>>
  <2>1. h = Head(w[q]) /\ w2[q] = Tail(w[q]) /\ h \in Tids /\ h < n /\ ~Occurs(h, rq)
    BY <1>1, <1>2, <1>4, OccursTail DEF wq_popped, wq_rest
  <2>2. ready_wake(rq, h) = ready_enqueue(rq, h)
    BY <2>1, Tables DEF ready_wake
  <2>3. \A v : Occurs(v, ready_wake(rq, h)) <=> Occurs(v, rq) \/ v = h
    BY <1>1, <2>1, <2>2, RoomToRun
  <2>4. \A v : Occurs(v, w[q]) => v = h \/ Occurs(v, w2[q])
    BY <1>1, <1>4, <2>1, OccursRest
  <2>5. \A r \in Objs : \A v : Occurs(v, w[r]) => v = h \/ Occurs(v, w2[r])
    BY <1>2, <2>4
  <2> HIDE DEF w2, h
  <2>6. Somewhere(u, ready_wake(rq, h), w2, wt, tp)
    BY <2>3, <2>5 DEF Somewhere
  <2> QED
    BY <2>6 DEF w2, h
<1> QED
  BY <1>3, <1>4

\* Joining a wait queue that has room.
LEMMA JoinKeeps ==
    ASSUME NEW rq, NEW w, NEW wt, NEW tp, NEW n, Places(rq, w, wt, tp, n), NEW t \in Tids,
           NEW q \in Objs, Owner(q) = tp[t], Len(w[q]) < WAIT_QUEUE_SIZE
    PROVE  LET w2 == [w EXCEPT ![q] = wq_push(@, t)]
           IN  /\ Somewhere(t, rq, w2, wt, tp)
               /\ \A u : Somewhere(u, rq, w, wt, tp) => Somewhere(u, rq, w2, wt, tp)
<1> DEFINE w2 == [w EXCEPT ![q] = wq_push(@, t)]
<1>1. w2[q] = Append(w[q], t) /\ \A r \in Objs : r # q => w2[r] = w[r]
  BY DEF Places, PlacesType, wq_push
<1>2. \A u : Occurs(u, w2[q]) <=> Occurs(u, w[q]) \/ u = t
  <2>1. w[q] \in Seq(Tids)
    BY DEF Places, PlacesType
  <2>2. \A u : Occurs(u, Append(w[q], t)) <=> Occurs(u, w[q]) \/ u = t
    BY <2>1, OccursAppend
  <2> HIDE DEF w2
  <2> QED
    BY <1>1, <2>2
<1>3. \A r \in Objs : \A u : Occurs(u, w[r]) => Occurs(u, w2[r])
  BY <1>1, <1>2
<1> HIDE DEF w2
<1>4. Somewhere(t, rq, w2, wt, tp)
  BY <1>2 DEF Somewhere
<1>5. \A u : Somewhere(u, rq, w, wt, tp) => Somewhere(u, rq, w2, wt, tp)
  BY <1>3 DEF Somewhere
<1> QED
  BY <1>4, <1>5 DEF w2

\* When the running thread is taken from the queue, the others are still there.
LEMMA OthersStay ==
    ASSUME LostInv, NEW t, Runs(t)
    PROVE  Others(t, Rest, wait_queue, waiting_tid, thread_pid, g_next_tid)
<1>1. ready \in Seq(Tids) /\ ready # <<>> /\ t = Head(ready)
  BY DEF LostInv, SlotsInv, KernelInv, TypeOK, Runs
<1>2. \A u : Occurs(u, ready) => u = t \/ Occurs(u, Rest)
  BY <1>1, OccursRest DEF Rest
<1> QED
  BY <1>2 DEF LostInv, FoundInv, Others, Somewhere

\* FoundInv after a step of t, from what the step did to places and exits.
LEMMA FoundAgain ==
    ASSUME LostInv, NEW t \in Tids, ExitsOf(t),
           \A u \in Tids : u < g_next_tid => thread_pid'[u] = thread_pid[u],
           \A u \in Tids : u < g_next_tid' =>
               \/ u < g_next_tid /\ u # t /\ (exited[u] \/ Somewhere(u, ready', wait_queue', waiting_tid', thread_pid'))
               \/ exited'[u]
               \/ Somewhere(u, ready', wait_queue', waiting_tid', thread_pid')
    PROVE  FoundInv'
  BY DEF FoundInv, ExitsOf

LEMMA SyncCallFinds ==
    ASSUME LostInv, Considerate, RoomForAll', NEW t \in Tids, SyncCall(t)
    PROVE  FoundInv'
<1> DEFINE P(rq, w) == Places(rq, w, waiting_tid, thread_pid, g_next_tid)
           H(rq, w) == Hand(t, rq, w, waiting_tid, thread_pid, g_next_tid)
           K(rq, w) == Others(t, rq, w, waiting_tid, thread_pid, g_next_tid)
           G(rq, w) == K(rq, w) /\ (exited'[t] \/ Somewhere(t, rq, w, waiting_tid, thread_pid))
<1>0. Runs(t) /\ UNCHANGED <<g_next_tid, thread_pid, waiting_tid>>
  BY DEF SyncCall, MutexCreate, SemaphoreCreate, CondvarCreate, MutexLock, MutexUnlock,
         SemaphoreUp, SemaphoreDown, CondvarSignal, CondvarWait, SyncFrame, tree_vars, wait_vars
<1>00. SlotsInv /\ TypeOK /\ PlacesInv /\ OwnInv /\ EmptyInv /\ ExitsOf(t)
  BY StepExits DEF LostInv, SlotsInv, KernelInv, Thread
<1>1. P(Rest, wait_queue) /\ H(Rest, wait_queue) /\ K(Rest, wait_queue) /\ Pid(t) \in Pids
  BY <1>0, <1>00, RunningInHand, OthersStay
<1>01. g_next_tid <= READY_QUEUE_SIZE
  BY <1>0 DEF RoomForAll
<1>2. \A kind \in Kinds, i \in Slots :
         <<kind, Pid(t), i>> \in Objs /\ Owner(<<kind, Pid(t), i>>) = Pid(t)
  BY <1>1 DEF Objs, Owner
<1> SUFFICES G(ready', wait_queue')
  BY <1>0, <1>00, FoundAgain DEF Others
<1> USE DEF Kinds
\* What the end of the iteration does to what the handler left.
<1>3. ASSUME NEW rq, NEW w, P(rq, w), H(rq, w), K(rq, w), NEW b, Return(t, rq, signal, b),
             b => Somewhere(t, rq, w, waiting_tid, thread_pid)
      PROVE  G(ready', w)
  <2>1. /\ \A u : Occurs(u, rq) => Occurs(u, ready')
        /\ exited'[t] \/ b \/ Occurs(t, ready')
    BY <1>00, <1>01, <1>3, ReturnKeeps
  <2> QED
    BY <1>3, <2>1 DEF Others, Somewhere
\* A new object: there was nobody in its queue.
<1>4. ASSUME NEW kind \in Kinds, NEW n, Resume(t),
             IF Full(kind, t) THEN UNCHANGED <<objects, sync_vars>>
             ELSE /\ objects' = objects \cup {New(kind, t)}
                  /\ \/ mutex_init(New(kind, t)) \/ sem_init(New(kind, t), n)
                     \/ condvar_init(New(kind, t))
      PROVE  G(ready', wait_queue')
  <2>1. UNCHANGED wait_queue
    <3>1. CASE Full(kind, t)
      BY <1>4, <3>1 DEF sync_vars
    <3>2. CASE ~Full(kind, t)
      <4>1. New(kind, t) \in Objs /\ wait_queue[New(kind, t)] = <<>>
        BY <1>00, <1>1, <3>2, FreeEntry DEF EmptyInv
      <4>2. wait_queue' = [wait_queue EXCEPT ![New(kind, t)] = <<>>]
        BY <1>4, <3>2 DEF mutex_init, sem_init, condvar_init
      <4> QED
        BY <1>00, <4>1, <4>2 DEF TypeOK, SyncTypeOK
    <3> QED
      BY <3>1, <3>2
  <2> QED
    BY <1>1, <1>3, <1>4, <2>1 DEF Resume
\* A release.
<1>5. ASSUME NEW q \in Objs
      PROVE  LET w2 == [wait_queue EXCEPT ![q] = wq_rest(@)]
                 r2 == ready_wake(Rest, waking(q))
             IN  P(r2, w2) /\ H(r2, w2) /\ K(r2, w2)
  <2>1. LET w2 == [wait_queue EXCEPT ![q] = wq_rest(@)]
            r2 == ready_wake(Rest, waking(q))
        IN  P(r2, w2) /\ H(r2, w2)
    BY <1>1, WakeOldest DEF waking
  <2>2. ASSUME NEW u, Somewhere(u, Rest, wait_queue, waiting_tid, thread_pid)
        PROVE  Somewhere(u, ready_wake(Rest, waking(q)), [wait_queue EXCEPT ![q] = wq_rest(@)],
                         waiting_tid, thread_pid)
    BY <1>1, <1>01, <2>2, WakeKeeps DEF waking
  <2> QED
    BY <1>1, <2>1, <2>2 DEF Others
<1>6. ASSUME NEW q \in Objs, wait_queue' = [wait_queue EXCEPT ![q] = wq_rest(@)],
             Return(t, ready_wake(Rest, waking(q)), signal, FALSE)
      PROVE  G(ready', wait_queue')
  <2> DEFINE r2 == ready_wake(Rest, waking(q))
  <2>1. P(r2, wait_queue') /\ H(r2, wait_queue') /\ K(r2, wait_queue')
    BY <1>5, <1>6
  <2> HIDE DEF P, H, K, G, r2
  <2> QED
    BY <1>3, <1>6, <2>1 DEF r2
\* An acquisition: t goes on, or joins a queue that has room.
<1>7. ASSUME NEW b, ~b, Return(t, Rest, signal, b), UNCHANGED wait_queue
      PROVE  G(ready', wait_queue')
  <2> HIDE DEF P, H, K, G
  <2> QED
    BY <1>1, <1>3, <1>7
<1>8. ASSUME NEW rq, NEW w, P(rq, w), K(rq, w), NEW q \in Objs, Owner(q) = Pid(t),
             Len(w[q]) < WAIT_QUEUE_SIZE, NEW b, b, Return(t, rq, signal, b),
             wait_queue' = [w EXCEPT ![q] = wq_push(@, t)]
      PROVE  G(ready', wait_queue')
  <2>1. /\ Somewhere(t, rq, wait_queue', waiting_tid, thread_pid)
        /\ \A u : Somewhere(u, rq, w, waiting_tid, thread_pid)
                  => Somewhere(u, rq, wait_queue', waiting_tid, thread_pid)
    BY <1>8, JoinKeeps DEF Pid
  <2>2. ready' = rq
    BY <1>8, ReturnBlocked
  <2> QED
    BY <1>8, <2>1, <2>2 DEF Others
<1>9. ASSUME NEW q \in Objs, Owner(q) = Pid(t)
      PROVE  Len(wait_queue[q]) < WAIT_QUEUE_SIZE /\ Len(wq_rest(wait_queue[q])) < WAIT_QUEUE_SIZE
  <2>1. Len(wait_queue[q]) < WAIT_QUEUE_SIZE /\ wait_queue[q] \in Seq(Tids)
    BY <1>0, <1>00, <1>9, RoomToWait DEF TypeOK, SyncTypeOK
  <2>2. wait_queue[q] # <<>> => Len(Tail(wait_queue[q])) = Len(wait_queue[q]) - 1
    BY <2>1, OccursTail
  <2>3. Len(wait_queue[q]) \in Nat
    BY <2>1
  <2> QED
    BY <2>1, <2>2, <2>3, SizesAssumption DEF wq_rest
<1>10. CASE MutexCreate(t)
  BY <1>4, <1>10 DEF MutexCreate
<1>11. ASSUME NEW n, SemaphoreCreate(t, n) PROVE G(ready', wait_queue')
  BY <1>4, <1>11 DEF SemaphoreCreate
<1>12. CASE CondvarCreate(t)
  BY <1>4, <1>12 DEF CondvarCreate
<1> HIDE DEF P, H, K, G
<1>13. ASSUME NEW i \in Slots, MutexUnlock(t, i) PROVE G(ready', wait_queue')
  BY <1>2, <1>6, <1>13 DEF MutexUnlock, mutex_unlock
<1>14. ASSUME NEW i \in Slots, SemaphoreUp(t, i) PROVE G(ready', wait_queue')
  BY <1>2, <1>6, <1>14 DEF SemaphoreUp, sem_up
<1>15. ASSUME NEW i \in Slots, CondvarSignal(t, i) PROVE G(ready', wait_queue')
  BY <1>2, <1>6, <1>15 DEF CondvarSignal, condvar_signal
<1>16. \A q : MayName(t, q) => q \in objects
  BY DEF MayName, Uses, Considerate
<1>17. ASSUME NEW i \in Slots, MutexLock(t, i) PROVE G(ready', wait_queue')
  <2> DEFINE q == <<"mutex", Pid(t), i>>
             b == q \notin objects \/ ~mutex_lock_ok(q)
  <2>1. q \in Objs /\ Owner(q) = Pid(t) /\ q \in objects /\ Return(t, Rest, signal, b)
    BY <1>2, <1>16, <1>17 DEF MutexLock
  <2>2. \/ ~b /\ UNCHANGED wait_queue
        \/ b /\ wait_queue' = [wait_queue EXCEPT ![q] = wq_push(@, t)]
    BY <1>17, <2>1 DEF MutexLock, mutex_lock
  <2> HIDE DEF q, b
  <2> QED
    BY <1>1, <1>7, <1>8, <1>9, <2>1, <2>2
<1>18. ASSUME NEW i \in Slots, SemaphoreDown(t, i) PROVE G(ready', wait_queue')
  <2> DEFINE q == <<"semaphore", Pid(t), i>>
             b == q \notin objects \/ ~sem_down_ok(q)
  <2>1. q \in Objs /\ Owner(q) = Pid(t) /\ q \in objects /\ Return(t, Rest, signal, b)
    BY <1>2, <1>16, <1>18 DEF SemaphoreDown
  <2>2. \/ ~b /\ UNCHANGED wait_queue
        \/ b /\ wait_queue' = [wait_queue EXCEPT ![q] = wq_push(@, t)]
    BY <1>18, <2>1 DEF SemaphoreDown, sem_down
  <2> HIDE DEF q, b
  <2> QED
    BY <1>1, <1>7, <1>8, <1>9, <2>1, <2>2
<1>19. ASSUME NEW i \in Slots, NEW j \in Slots, CondvarWait(t, i, j) PROVE G(ready', wait_queue')
  <2> DEFINE q  == <<"condvar", Pid(t), i>>
             m  == <<"mutex", Pid(t), j>>
             w2 == [wait_queue EXCEPT ![m] = wq_rest(@)]
             r2 == ready_wake(Rest, waking(m))
  <2>1. m \in Objs /\ Owner(m) = Pid(t) /\ q \in objects /\ m \in objects
    BY <1>2, <1>16, <1>19 DEF CondvarWait
  <2>2. P(r2, w2) /\ H(r2, w2) /\ K(r2, w2)
    BY <1>5, <2>1
  <2>3. CASE condvar_wait_ok(m)
    <3>1. wait_queue' = w2 /\ Return(t, r2, signal, FALSE)
      BY <1>19, <2>1, <2>3 DEF CondvarWait, condvar_wait_with_mutex
    <3> HIDE DEF w2, r2
    <3> QED
      BY <1>3, <2>2, <3>1
  <2>4. CASE ~condvar_wait_ok(m)
    <3>1. wait_queue' = [wait_queue EXCEPT ![m] = wq_push(wq_rest(@), t)]
      BY <1>19, <2>1, <2>4 DEF CondvarWait, condvar_wait_with_mutex
    <3>2. Return(t, r2, signal, TRUE)
      BY <1>19, <2>1, <2>4 DEF CondvarWait
    <3>3. w2[m] = wq_rest(wait_queue[m]) /\ wait_queue' = [w2 EXCEPT ![m] = wq_push(@, t)]
      BY <1>00, <2>1, <3>1 DEF TypeOK, SyncTypeOK
    <3>4. Len(w2[m]) < WAIT_QUEUE_SIZE
      BY <1>9, <2>1, <3>3
    <3> HIDE DEF w2, r2, m
    <3> QED
      BY <1>8, <2>1, <2>2, <3>2, <3>3, <3>4
  <2> QED
    BY <2>3, <2>4
<1> QED
  BY <1>10, <1>11, <1>12, <1>13, <1>14, <1>15, <1>17, <1>18, <1>19 DEF SyncCall

\* Queues exist only with their objects.
LEMMA EmptyNext ==
    ASSUME TypeOK, EmptyInv, NEW t, Runs(t), SyncCall(t), Pid(t) \in Pids
    PROVE  EmptyInv'
<1>0. wait_queue \in [Objs -> Seq(Tids)]
  BY DEF TypeOK, SyncTypeOK
<1>1. ASSUME UNCHANGED <<objects, wait_queue>> PROVE EmptyInv'
  BY <1>1 DEF EmptyInv
<1>2. ASSUME NEW q \in objects', objects \subseteq objects',
             \A r \in Objs : r # q => wait_queue'[r] = wait_queue[r]
      PROVE  EmptyInv'
  BY <1>2 DEF EmptyInv
<1>3. ASSUME NEW q \in objects, UNCHANGED objects, NEW s, wait_queue' = [wait_queue EXCEPT ![q] = s]
      PROVE  EmptyInv'
  BY <1>0, <1>2, <1>3
<1>4. ASSUME NEW kind, NEW n,
             IF Full(kind, t) THEN UNCHANGED <<objects, sync_vars>>
             ELSE /\ objects' = objects \cup {New(kind, t)}
                  /\ \/ mutex_init(New(kind, t)) \/ sem_init(New(kind, t), n)
                     \/ condvar_init(New(kind, t))
      PROVE  EmptyInv'
  <2>1. CASE Full(kind, t)
    BY <1>1, <1>4, <2>1 DEF sync_vars
  <2>2. CASE ~Full(kind, t)
    <3>1. New(kind, t) \in objects' /\ objects \subseteq objects'
      BY <1>4, <2>2
    <3>2. wait_queue' = [wait_queue EXCEPT ![New(kind, t)] = <<>>]
      BY <1>4, <2>2 DEF mutex_init, sem_init, condvar_init
    <3> QED
      BY <1>0, <1>2, <3>1, <3>2
  <2> QED
    BY <2>1, <2>2
<1>5. CASE MutexCreate(t)
  BY <1>4, <1>5 DEF MutexCreate
<1>6. ASSUME NEW n, SemaphoreCreate(t, n) PROVE EmptyInv'
  BY <1>4, <1>6 DEF SemaphoreCreate
<1>7. CASE CondvarCreate(t)
  BY <1>4, <1>7 DEF CondvarCreate
<1>8. ASSUME NEW i \in Slots, \/ MutexLock(t, i) \/ MutexUnlock(t, i) \/ SemaphoreUp(t, i)
                              \/ SemaphoreDown(t, i) \/ CondvarSignal(t, i)
      PROVE  EmptyInv'
  <2>1. \/ UNCHANGED <<objects, wait_queue>>
        \/ \E q \in objects : UNCHANGED objects /\ \E s : wait_queue' = [wait_queue EXCEPT ![q] = s]
    BY <1>8 DEF MutexLock, MutexUnlock, SemaphoreUp, SemaphoreDown, CondvarSignal, mutex_lock,
       mutex_unlock, sem_up, sem_down, condvar_signal, sync_vars
  <2> QED
    BY <1>1, <1>3, <2>1
<1>9. ASSUME NEW i \in Slots, NEW j \in Slots, CondvarWait(t, i, j) PROVE EmptyInv'
  <2>1. \/ UNCHANGED <<objects, wait_queue>>
        \/ \E q \in objects : UNCHANGED objects /\ \E s : wait_queue' = [wait_queue EXCEPT ![q] = s]
    BY <1>9 DEF CondvarWait, condvar_wait_with_mutex, sync_vars
  <2> QED
    BY <1>1, <1>3, <2>1
<1> QED
  BY <1>5, <1>6, <1>7, <1>8, <1>9 DEF SyncCall

\* A thread that runs on, or ends, where nobody else moves.
LEMMA RunsOnFinds ==
    ASSUME LostInv, RoomForAll', NEW t \in Tids, Thread(t),
           UNCHANGED <<wait_queue, waiting_tid, thread_pid, g_next_tid>>,
           \/ \E sm : Return(t, Rest, sm, FALSE)
           \/ ready' = Rest /\ exited' = [exited EXCEPT ![t] = TRUE]
    PROVE  FoundInv'
<1>1. Runs(t) /\ ExitsOf(t) /\ TypeOK /\ PlacesInv
  BY StepExits DEF LostInv, SlotsInv, KernelInv
<1>2. /\ Places(Rest, wait_queue, waiting_tid, thread_pid, g_next_tid)
      /\ Hand(t, Rest, wait_queue, waiting_tid, thread_pid, g_next_tid)
      /\ Others(t, Rest, wait_queue, waiting_tid, thread_pid, g_next_tid)
  BY <1>1, RunningInHand, OthersStay
<1>0. g_next_tid <= READY_QUEUE_SIZE
  BY DEF RoomForAll
<1>3. \A u : Occurs(u, Rest) => Occurs(u, ready')
  BY <1>0, <1>1, <1>2, ReturnKeeps
<1>4. exited'[t] \/ Occurs(t, ready')
  <2>1. ready' = Rest /\ exited' = [exited EXCEPT ![t] = TRUE] => exited'[t]
    BY <1>1 DEF TypeOK
  <2> QED
    BY <1>0, <1>1, <1>2, <2>1, ReturnKeeps
<1> QED
  BY <1>1, <1>2, <1>3, <1>4, FoundAgain DEF Others, Somewhere

\* A new thread of process p is put into the ready queue, and t goes back.
LEMMA CreateFinds ==
    ASSUME LostInv, RoomForAll', NEW t \in Tids, Thread(t), NEW p \in Pids, create_thread(p),
           NEW sm, Return(t, IF g_next_tid < MAX_TIDS THEN ready_enqueue(Rest, g_next_tid) ELSE Rest, sm, FALSE),
           UNCHANGED wait_queue,
           \A u \in Tids : u < g_next_tid /\ waiting_tid[thread_pid[u]] = u
                           => waiting_tid'[thread_pid[u]] = u
    PROVE  FoundInv'
<1>1. Runs(t) /\ ExitsOf(t) /\ SlotsInv /\ TypeOK /\ PlacesInv
  BY StepExits DEF LostInv, SlotsInv, KernelInv
<1>2. /\ Places(Rest, wait_queue, waiting_tid, thread_pid, g_next_tid)
      /\ Hand(t, Rest, wait_queue, waiting_tid, thread_pid, g_next_tid)
      /\ Others(t, Rest, wait_queue, waiting_tid, thread_pid, g_next_tid)
  BY <1>1, RunningInHand, OthersStay
<1>3. \A u \in Tids : u < g_next_tid => thread_pid'[u] = thread_pid[u]
  BY <1>1, OwnersStay
<1>4. g_next_tid \in Nat /\ Tids \subseteq Nat
  BY <1>1, Counters
\* It is enough that nobody leaves the ready queue, and t and the new thread are in it.
<1>5. SUFFICES /\ \A u : Occurs(u, Rest) => Occurs(u, ready')
               /\ exited'[t] \/ Occurs(t, ready')
               /\ \A u \in Tids : u < g_next_tid' => u < g_next_tid \/ Occurs(u, ready')
  BY <1>1, <1>2, <1>3, FoundAgain DEF Others, Somewhere
<1>6. CASE g_next_tid < MAX_TIDS
  <2> DEFINE n == g_next_tid
             rq == ready_enqueue(Rest, n)
  <2>0. n + 1 <= READY_QUEUE_SIZE /\ n + 1 \in Nat
    BY <1>4, <1>6 DEF create_thread, alloc_tid, RoomForAll
  <2>1. g_next_tid' = n + 1 /\ thread_pid' = [thread_pid EXCEPT ![n] = p]
    BY <1>6 DEF create_thread, alloc_tid
  <2>2. /\ Places(Rest, wait_queue, waiting_tid, thread_pid', n + 1)
        /\ Hand(n, Rest, wait_queue, waiting_tid, thread_pid', n + 1)
        /\ t # n /\ Hand(t, Rest, wait_queue, waiting_tid, thread_pid', n + 1)
    BY <1>2, <1>6, <2>1, NewThread
  <2>3. /\ Places(rq, wait_queue, waiting_tid, thread_pid', n + 1)
        /\ Hand(t, rq, wait_queue, waiting_tid, thread_pid', n + 1)
    BY <2>2, PutReady
  <2>4. \A u : Occurs(u, rq) <=> Occurs(u, Rest) \/ u = n
    <3>1. /\ Rest \in Seq(Tids) /\ Distinct(Rest) /\ \A u : Occurs(u, Rest) => u < n + 1
          /\ n \in Tids /\ n < n + 1 /\ ~Occurs(n, Rest)
      BY <2>2 DEF Places, PlacesType, Apart, Created, Hand
    <3> HIDE DEF n
    <3> QED
      BY <2>0, <3>1, RoomToRun
  <2>5. Return(t, rq, sm, FALSE)
    BY <1>6
  <2> HIDE DEF rq, n
  <2>6. /\ \A u : Occurs(u, rq) => Occurs(u, ready')
        /\ exited'[t] \/ Occurs(t, ready')
    BY <1>1, <2>0, <2>3, <2>5, ReturnKeeps
  <2>7. \A u \in Tids : u < n + 1 => u < n \/ u = n
    BY <1>4 DEF n
  <2> QED
    BY <2>1, <2>4, <2>6, <2>7 DEF n
<1>7. CASE ~(g_next_tid < MAX_TIDS)
  <2>1. g_next_tid' = g_next_tid /\ g_next_tid <= READY_QUEUE_SIZE /\ Return(t, Rest, sm, FALSE)
    BY <1>7 DEF create_thread, alloc_tid, RoomForAll
  <2> QED
    BY <1>1, <1>2, <2>1, ReturnKeeps
<1> QED
  BY <1>6, <1>7

LEMMA ThreadCreateFinds ==
    ASSUME LostInv, RoomForAll', NEW t \in Tids, ThreadCreate(t)
    PROVE  FoundInv'
<1>1. Runs(t) /\ Thread(t) /\ UNCHANGED <<wait_queue, waiting_tid>>
  BY DEF ThreadCreate, Thread, ProcessCall, wait_vars, sync_vars
<1>2. Pid(t) \in Pids
  BY <1>1, RunningIsMember DEF LostInv
<1>3. CASE NoThreadRoom(Pid(t))
  BY <1>1, <1>3, RunsOnFinds DEF ThreadCreate, Resume, tree_vars
<1>4. CASE ~NoThreadRoom(Pid(t))
  BY <1>1, <1>2, <1>4, CreateFinds DEF ThreadCreate
<1> QED
  BY <1>3, <1>4

LEMMA ForkFinds ==
    ASSUME LostInv, RoomForAll', NEW t \in Tids, Fork(t)
    PROVE  FoundInv'
<1> DEFINE c == g_next_pid
<1>1. Runs(t) /\ Thread(t) /\ UNCHANGED wait_queue
  BY DEF Fork, Thread, ProcessCall, sync_vars
<1>2. SlotsInv /\ TypeOK /\ OwnInv
  BY DEF LostInv, SlotsInv, KernelInv
<1>3. \/ /\ \E sm : Return(t, Rest, sm, FALSE)
         /\ UNCHANGED <<g_next_tid, thread_pid, waiting_tid>>
      \/ /\ c < MAX_PROCS /\ create_thread(c)
         /\ waiting_tid' = [waiting_tid EXCEPT ![c] = 0]
         /\ \E sm : Return(t, IF g_next_tid < MAX_TIDS THEN ready_enqueue(Rest, g_next_tid) ELSE Rest,
                           sm, FALSE)
  BY DEF Fork, wait_vars
<1>4. CASE /\ \E sm : Return(t, Rest, sm, FALSE)
           /\ UNCHANGED <<g_next_tid, thread_pid, waiting_tid>>
  BY <1>1, <1>4, RunsOnFinds
<1>5. CASE /\ c < MAX_PROCS /\ create_thread(c)
           /\ waiting_tid' = [waiting_tid EXCEPT ![c] = 0]
           /\ \E sm : Return(t, IF g_next_tid < MAX_TIDS THEN ready_enqueue(Rest, g_next_tid) ELSE Rest,
                             sm, FALSE)
  <2>1. c \in Pids /\ c \in Nat
    BY <1>2, <1>5, SizesAssumption DEF TypeOK, Pids
  \* Nobody belongs to the slot yet.
  <2>2. \A u \in Tids : u < g_next_tid => thread_pid[u] # c
    <3>1. threads[c] = {}
      BY <1>2, <2>1 DEF OwnInv
    <3> QED
      BY <1>2, <3>1 DEF OwnInv
  <2>3. \A u \in Tids : u < g_next_tid => waiting_tid'[thread_pid[u]] = waiting_tid[thread_pid[u]]
    BY <1>2, <1>5, <2>1, <2>2 DEF TypeOK
  <2> HIDE DEF c
  <2> QED
    BY <1>1, <1>5, <2>1, <2>3, CreateFinds
<1> QED
  BY <1>3, <1>4, <1>5

LEMMA WaitpidFinds ==
    ASSUME LostInv, Considerate, RoomForAll', NEW t \in Tids,
           NEW want \in Pids \cup {PID_INVALID}, Waitpid(t, want)
    PROVE  FoundInv'
<1> DEFINE p == Pid(t)
<1>1. Runs(t) /\ Thread(t) /\ UNCHANGED <<wait_queue, thread_pid, g_next_tid>>
  BY DEF Waitpid, Thread, ProcessCall, sync_vars, tree_vars
<1>2. SlotsInv /\ TypeOK /\ ExitsOf(t) /\ p \in Pids
  BY <1>1, StepExits, RunningIsMember DEF LostInv, SlotsInv, KernelInv
<1>3. CASE Zombies(p, want) = {} /\ Found(p, want) # {}
  <2>1. waiting_tid' = [waiting_tid EXCEPT ![p] = t] /\ Return(t, Rest, signal, TRUE) /\ ~Waiting(p)
    BY <1>3 DEF Waitpid, Considerate, Uses
  <2>2. ready' = Rest
    BY <2>1, ReturnBlocked
  <2>3. Others(t, Rest, wait_queue, waiting_tid, thread_pid, g_next_tid)
    BY <1>1, OthersStay
  <2>4. waiting_tid'[thread_pid[t]] = t
    BY <1>2, <2>1 DEF TypeOK, Pid
  <2>5. ASSUME NEW u \in Tids, waiting_tid[thread_pid[u]] = u
        PROVE  waiting_tid'[thread_pid[u]] = u
    <3>1. thread_pid[u] # p
      BY <2>1, <2>5, Tables DEF Waiting
    <3> QED
      BY <1>2, <2>1, <2>5, <3>1 DEF TypeOK
  <2> QED
    BY <1>1, <1>2, <2>2, <2>3, <2>4, <2>5, FoundAgain DEF Others, Somewhere
<1>4. CASE ~(Zombies(p, want) = {} /\ Found(p, want) # {})
  <2>1. Return(t, Rest, signal, FALSE) /\ UNCHANGED waiting_tid
    BY <1>4 DEF Waitpid, Resume, wait_vars
  <2> QED
    BY <1>1, <2>1, RunsOnFinds
<1> QED
  BY <1>3, <1>4

LEMMA ExitFinds ==
    ASSUME LostInv, RoomForAll', NEW t \in Tids, NEW code \in ExitCodes, Exit(t, code)
    PROVE  FoundInv'
<1> DEFINE p == Pid(t)
           a == parent[p]
<1>1. /\ Runs(t) /\ Thread(t) /\ UNCHANGED <<wait_queue, thread_pid, g_next_tid>>
      /\ exited' = [exited EXCEPT ![t] = TRUE]
  BY DEF Exit, Thread, ProcessCall, sync_vars, tree_vars
<1>2. SlotsInv /\ TypeOK /\ PlacesInv /\ WaitInv /\ ExitsOf(t) /\ p \in Pids /\ exited'[t]
  BY <1>1, StepExits, RunningIsMember DEF LostInv, SlotsInv, KernelInv, TypeOK
<1>3. CASE ready' = Rest /\ UNCHANGED waiting_tid
  BY <1>1, <1>3, RunsOnFinds
<1>4. CASE ExitProcess(p, code) /\ WakesParent(p)
  <2>1. a \in Pids /\ Waiting(a)
    BY <1>2, <1>4, WakesWaiting DEF WakeIsWanted, WakesParent, TypeOK
  <2>2. /\ ready' = ready_enqueue(Rest, waiting_tid[a])
        /\ waiting_tid' = [waiting_tid EXCEPT ![a] = TID_INVALID]
    BY <1>4 DEF ExitProcess
  <2>3. /\ Rest \in Seq(Tids) /\ Distinct(Rest)
        /\ \A u : Occurs(u, Rest) => u < g_next_tid
        /\ waiting_tid[a] \in Tids /\ waiting_tid[a] < g_next_tid /\ ~Occurs(waiting_tid[a], Rest)
    BY <1>1, <1>2, <2>1, RunningInHand DEF Places, PlacesType, Apart, Created, Waits, Waiting
  <2>4. \A u : Occurs(u, ready') <=> Occurs(u, Rest) \/ u = waiting_tid[a]
    <3>1. g_next_tid \in Nat /\ g_next_tid <= READY_QUEUE_SIZE
      BY <1>1, <1>2, Counters DEF RoomForAll
    <3> QED
      BY <2>2, <2>3, <3>1, RoomToRun
  <2>5. Others(t, Rest, wait_queue, waiting_tid, thread_pid, g_next_tid)
    BY <1>1, OthersStay
  <2>6. ASSUME NEW u \in Tids, waiting_tid[thread_pid[u]] = u
        PROVE  waiting_tid'[thread_pid[u]] = u \/ u = waiting_tid[a]
    BY <1>2, <2>2, <2>6 DEF TypeOK
  <2> HIDE DEF a, p
  <2> QED
    BY <1>1, <1>2, <2>4, <2>5, <2>6, FoundAgain DEF Others, Somewhere
<1>5. \/ ready' = Rest /\ UNCHANGED waiting_tid
      \/ ExitProcess(p, code) /\ WakesParent(p)
  BY DEF Exit, ExitProcess, wait_vars
<1> QED
  BY <1>3, <1>4, <1>5

LEMMA EmptyAgain == SlotsInv /\ EmptyInv /\ [Next]_vars => EmptyInv'
<1> SUFFICES ASSUME SlotsInv, EmptyInv, [Next]_vars PROVE EmptyInv'
  OBVIOUS
<1>1. CASE UNCHANGED <<objects, wait_queue>>
  BY <1>1 DEF EmptyInv
<1>2. ASSUME NEW t \in Tids, Thread(t) PROVE EmptyInv'
  <2>1. CASE SyncCall(t)
    <3>1. TypeOK /\ Runs(t) /\ Pid(t) \in Pids
      BY <1>2, StepExits, RunningIsMember DEF SlotsInv, KernelInv
    <3> QED
      BY <2>1, <3>1, EmptyNext
  <2>2. CASE ~SyncCall(t)
    BY <1>1, <1>2, <2>2 DEF Thread, Plain, ProcessCall, ThreadCreate, Fork, Exec, Waitpid, Exit, Exception,
       Unsupported, SignalCalls, Kill, Sigaction, Sigprocmask, Sigreturn, SignalCall, sync_vars
  <2> QED
    BY <2>1, <2>2
<1> QED
  BY <1>1, <1>2 DEF Next, SkipExited, sync_vars, vars

LEMMA FoundNext == LostInv /\ Considerate /\ RoomForAll' /\ [Next]_vars => FoundInv'
<1> SUFFICES ASSUME LostInv, Considerate, RoomForAll', [Next]_vars PROVE FoundInv'
  OBVIOUS
<1>0. SlotsInv /\ TypeOK /\ PlacesInv
  BY DEF LostInv, SlotsInv, KernelInv
<1>1. CASE SkipExited
  <2>1. ready \in Seq(Tids) /\ ready # <<>> /\ exited[Head(ready)] /\ ready' = Rest
    BY <1>0, <1>1 DEF SkipExited, TypeOK
  <2>2. \A u : Occurs(u, ready) => u = Head(ready) \/ Occurs(u, Rest)
    BY <2>1, OccursRest DEF Rest
  <2>3. UNCHANGED <<exited, wait_queue, waiting_tid, thread_pid, g_next_tid>>
    BY <1>1 DEF SkipExited, exit_vars, sync_vars, wait_vars, tree_vars
  <2> QED
    BY <2>1, <2>2, <2>3 DEF LostInv, FoundInv, Somewhere
<1>2. CASE UNCHANGED vars
  BY <1>2 DEF LostInv, FoundInv, Somewhere, vars, exit_vars, sync_vars, wait_vars, tree_vars
<1>3. ASSUME NEW t \in Tids, Thread(t) PROVE FoundInv'
  <2>1. ASSUME Plain(t) \/ Exec(t) \/ SignalCalls(t) \/ Exception(t) \/ Unsupported(t)
        PROVE  FoundInv'
    <3>1. UNCHANGED <<wait_queue, thread_pid, g_next_tid, waiting_tid>>
      BY <2>1 DEF Plain, Exec, SignalCalls, Kill, Sigaction, Sigprocmask, Sigreturn, SignalCall, Exception,
         Unsupported, SyncFrame, sync_vars, tree_vars, wait_vars
    <3>2. \/ \E sm : Return(t, Rest, sm, FALSE)
          \/ ready' = Rest /\ exited' = [exited EXCEPT ![t] = TRUE]
      BY <2>1 DEF Plain, Exec, SignalCalls, Kill, Sigaction, Sigprocmask, Sigreturn, SignalCall, Exception,
         Unsupported, Resume
    <3> QED
      BY <1>3, <3>1, <3>2, RunsOnFinds
  <2> QED
    BY <1>3, <2>1, SyncCallFinds, ThreadCreateFinds, ForkFinds, WaitpidFinds, ExitFinds
       DEF Thread, ProcessCall
<1> QED
  BY <1>1, <1>2, <1>3 DEF Next

\* Threads are only ever added.
LEMMA RoomShrinks == TypeOK /\ [Next]_vars => (RoomForAll' => RoomForAll)
<1> SUFFICES ASSUME TypeOK, [Next]_vars, RoomForAll' PROVE RoomForAll
  OBVIOUS
<1>1. g_next_tid \in Nat /\ READY_QUEUE_SIZE \in Nat
  BY Counters, KernelAssumption
<1>2. g_next_tid' = g_next_tid \/ alloc_tid
  <2>1. CASE SkipExited \/ UNCHANGED vars
    BY <2>1 DEF SkipExited, tree_vars, vars
  <2>2. ASSUME NEW t \in Tids, Plain(t) \/ SyncCall(t) \/ SignalCalls(t) PROVE SyncFrame
    BY <2>2 DEF Plain, SignalCalls, Kill, Sigaction, Sigprocmask, Sigreturn, SignalCall,
       SyncCall, MutexCreate, SemaphoreCreate, CondvarCreate, MutexLock, MutexUnlock,
       SemaphoreUp, SemaphoreDown, CondvarSignal, CondvarWait
  <2>3. SyncFrame => g_next_tid' = g_next_tid
    BY DEF SyncFrame, tree_vars
  <2>4. ASSUME NEW t \in Tids, ThreadCreate(t) \/ Fork(t) PROVE g_next_tid' = g_next_tid \/ alloc_tid
    BY <2>4 DEF ThreadCreate, Fork, create_thread, tree_vars
  <2>5. ASSUME NEW t \in Tids, \/ Exec(t) \/ Exception(t) \/ Unsupported(t)
                              \/ (\E want \in Pids \cup {PID_INVALID} : Waitpid(t, want))
                              \/ (\E code \in ExitCodes : Exit(t, code))
        PROVE  g_next_tid' = g_next_tid
    BY <2>5 DEF Exec, Waitpid, Exit, Exception, Unsupported, SyncFrame, tree_vars
  <2> QED
    BY <2>1, <2>2, <2>3, <2>4, <2>5 DEF Next, Thread, ProcessCall
<1> QED
  BY <1>1, <1>2 DEF alloc_tid, RoomForAll

\* do_mutex_lock .. do_condvar_wait, do_waitpid, ready_enqueue and main's
\* need_block: every live thread is in the ready queue, in the wait queue of
\* an object of its process or in its waiting_tid, while the ready queue has a
\* place for every thread created so far, for programs that name objects that
\* exist and have one thread at a time in waitpid.
THEOREM KernelNoLostThread == ASSUME Considerate PROVE Spec => []NoLostThread
<1> DEFINE Inv == SlotsInv /\ EmptyInv /\ (RoomForAll => FoundInv)
<1>1. Init => Inv
  <2> SUFFICES ASSUME Init PROVE Inv
    OBVIOUS
  <2>1. SlotsInv /\ EmptyInv
    BY SlotsInvariant DEF Init, SyncInit, EmptyInv
  <2>2. \A u \in Tids : u < g_next_tid => u = 0
    BY Tables DEF Init
  <2>3. Occurs(0, ready)
    BY DEF Init, Occurs
  <2> QED
    BY <2>1, <2>2, <2>3 DEF FoundInv, Somewhere
<1>2. Inv /\ [Next]_vars => Inv'
  <2> SUFFICES ASSUME Inv, [Next]_vars PROVE Inv'
    OBVIOUS
  <2>1. SlotsInv' /\ EmptyInv' /\ TypeOK
    BY SlotsInvariant, EmptyAgain DEF SlotsInv, KernelInv
  <2>2. RoomForAll' => LostInv
    BY <2>1, RoomShrinks DEF LostInv
  <2>3. RoomForAll' => FoundInv'
    BY <2>2, FoundNext
  <2> QED
    BY <2>1, <2>3
<1>3. Inv => NoLostThread
  <2> SUFFICES ASSUME Inv, RoomForAll, NEW p \in Pids, NEW t \in threads[p]
               PROVE  \/ exited[t]
                      \/ Occurs(t, ready)
                      \/ \E q \in Objs : Owner(q) = p /\ Occurs(t, wait_queue[q])
                      \/ waiting_tid[p] = t
    BY DEF NoLostThread
  <2>1. t \in Tids /\ t < g_next_tid /\ thread_pid[t] = p
    BY DEF SlotsInv, KernelInv, TypeOK, MembersInv
  <2> QED
    BY <2>1 DEF FoundInv, Somewhere
<1> QED
  BY <1>1, <1>2, <1>3, PTL DEF Spec

-----------------------------------------------------------------------------
(***************************************************************************)
(* Mutexes are FIFO locks.  A locked mutex has a holder, so the abstract   *)
(* lock is free exactly when locked says so.                               *)
(***************************************************************************)
NobodyRelocks == "relock" \notin Workload

HeldInv == \A q \in Mutexes : locked[q] => holders[q] # {}

\* The holder of the abstract lock.
LEMMA HolderOf ==
    ASSUME NEW q, MutexOK(q), locked[q] => holders[q] # {}, holders[q] \subseteq Tids
    PROVE  /\ holder_of(q) = TID_INVALID <=> ~locked[q]
           /\ ~locked[q] <=> holders[q] = {}
           /\ \A t \in holders[q] : holder_of(q) = t
  BY Tables DEF MutexOK, holder_of

\* mutex_lock by a thread that neither holds the mutex nor waits for it.
LEMMA LockRefines ==
    ASSUME TypeOK, NEW q \in Objs, NEW t \in Tids, MutexOK(q), locked[q] => holders[q] # {},
           t \notin holders[q], ~Occurs(t, wait_queue[q]),
           Len(wait_queue[q]) < WAIT_QUEUE_SIZE, mutex_lock(q, t)
    PROVE  Lock(q)!Lock(t) /\ (locked[q] => holders[q] # {})'
<1>0. /\ wait_queue \in [Objs -> Seq(Tids)] /\ holders \in [Objs -> SUBSET Tids]
      /\ locked \in [Objs -> BOOLEAN]
  BY DEF TypeOK, SyncTypeOK
<1>1. t # holder_of(q) /\ ~Lock(q)!Waits(t) /\ (holder_of(q) = TID_INVALID <=> ~locked[q])
  <2>1. holder_of(q) = TID_INVALID \/ holder_of(q) \in holders[q]
    BY DEF holder_of
  <2> QED
    BY <1>0, <2>1, HolderOf, Tables DEF Lock!Waits, Occurs
<1>2. CASE ~locked[q]
  <2>1. holders'[q] = {t} /\ wait_queue' = wait_queue
    BY <1>0, <1>2 DEF mutex_lock, mutex_lock_ok, MutexOK
  <2>2. holder_of(q)' = t
    BY <2>1 DEF holder_of
  <2> QED
    BY <1>1, <1>2, <2>1, <2>2 DEF Lock!Lock
<1>3. CASE locked[q]
  <2>1. UNCHANGED <<holders, locked>> /\ wait_queue'[q] = Append(wait_queue[q], t)
    BY <1>0, <1>3 DEF mutex_lock, mutex_lock_ok, wq_push
  <2>2. holder_of(q)' = holder_of(q)
    BY <2>1 DEF holder_of
  <2> QED
    BY <1>1, <1>3, <2>1, <2>2 DEF Lock!Lock
<1> QED
  BY <1>2, <1>3

\* mutex_unlock by the holder.
LEMMA UnlockRefines ==
    ASSUME TypeOK, NEW q \in Objs, MutexOK(q), locked[q] => holders[q] # {},
           NEW t \in holders[q], mutex_unlock(q, t)
    PROVE  Lock(q)!Unlock /\ (locked[q] => holders[q] # {})'
<1>0. /\ wait_queue \in [Objs -> Seq(Tids)] /\ holders \in [Objs -> SUBSET Tids]
      /\ locked \in [Objs -> BOOLEAN]
  BY DEF TypeOK, SyncTypeOK
<1>1. holder_of(q) # TID_INVALID /\ holders[q] \ {t} = {}
  BY <1>0, HolderOf, Tables DEF MutexOK
<1>2. holders'[q] = SetOf(waking(q)) /\ wait_queue'[q] = wq_rest(wait_queue[q])
  BY <1>0, <1>1 DEF mutex_unlock
<1>3. CASE wait_queue[q] = <<>>
  <2>1. waking(q) = TID_INVALID /\ holders'[q] = {} /\ wait_queue'[q] = <<>> /\ ~locked'[q]
    BY <1>0, <1>2, <1>3, WakingNobody DEF mutex_unlock, SetOf, wq_rest
  <2>2. holder_of(q)' = TID_INVALID
    BY <2>1 DEF holder_of
  <2> QED
    BY <1>1, <1>3, <2>1, <2>2 DEF Lock!Unlock
<1>4. CASE wait_queue[q] # <<>>
  <2>1. waking(q) # TID_INVALID /\ waking(q) = Head(wait_queue[q]) /\ wait_queue'[q] = Tail(wait_queue[q])
    BY <1>2, <1>4, WakingNobody DEF waking, wq_popped, wq_rest
  <2>2. holders'[q] = {Head(wait_queue[q])}
    BY <1>2, <2>1 DEF SetOf
  <2>3. holder_of(q)' = Head(wait_queue[q])
    BY <2>2 DEF holder_of
  <2> QED
    BY <1>1, <1>4, <2>1, <2>2, <2>3 DEF Lock!Unlock
<1> QED
  BY <1>3, <1>4

\* condvar_wait_with_mutex by the holder: it gives way to those who wait, or
\* keeps the mutex when nobody does.
LEMMA CondvarRefines ==
    ASSUME TypeOK, NEW q \in Objs, MutexOK(q), locked[q] => holders[q] # {},
           NEW t \in holders[q], Len(wait_queue[q]) < WAIT_QUEUE_SIZE, condvar_wait_with_mutex(q, t)
    PROVE  /\ Lock(q)!GiveWay \/ UNCHANGED Lock(q)!vars
           /\ (locked[q] => holders[q] # {})'
<1>0. /\ wait_queue \in [Objs -> Seq(Tids)] /\ holders \in [Objs -> SUBSET Tids]
      /\ locked \in [Objs -> BOOLEAN] /\ t \in Tids
  BY DEF TypeOK, SyncTypeOK
<1>1. holder_of(q) = t /\ holders[q] = {t} /\ locked[q]
  BY <1>0, HolderOf DEF MutexOK
<1>2. CASE wait_queue[q] = <<>>
  <2>1. waking(q) = TID_INVALID /\ condvar_wait_ok(q)
    BY <1>2, WakingNobody DEF condvar_wait_ok
  <2>2. holders'[q] = {t} /\ wait_queue'[q] = <<>>
    BY <1>0, <1>1, <1>2, <2>1 DEF condvar_wait_with_mutex, SetOf, wq_rest
  <2>3. holder_of(q)' = t
    BY <2>2 DEF holder_of
  <2> QED
    BY <1>1, <1>2, <2>2, <2>3 DEF Lock!vars
<1>3. CASE wait_queue[q] # <<>>
  <2>1. waking(q) # TID_INVALID /\ waking(q) = Head(wait_queue[q]) /\ ~condvar_wait_ok(q)
    BY <1>1, <1>3, WakingNobody DEF waking, wq_popped, condvar_wait_ok
  <2>2. wq_rest(wait_queue[q]) = Tail(wait_queue[q]) /\ Len(Tail(wait_queue[q])) < WAIT_QUEUE_SIZE
    <3>1. Len(Tail(wait_queue[q])) = Len(wait_queue[q]) - 1 /\ Len(wait_queue[q]) \in Nat
      BY <1>0, <1>3, OccursTail
    <3> QED
      BY <1>3, <3>1, SizesAssumption DEF wq_rest
  <2>3. wait_queue'[q] = Append(Tail(wait_queue[q]), t) /\ holders'[q] = {Head(wait_queue[q])}
    BY <1>0, <1>1, <2>1, <2>2 DEF condvar_wait_with_mutex, wq_push, SetOf
  <2>4. holder_of(q)' = Head(wait_queue[q])
    BY <2>3 DEF holder_of
  <2> QED
    BY <1>1, <1>3, <2>3, <2>4 DEF Lock!GiveWay
<1> QED
  BY <1>2, <1>3

MutexStep(q) == /\ [Lock(q)!Next]_(Lock(q)!vars)
                /\ (locked[q] => holders[q] # {})'

\* A mutex no call touches.
LEMMA LockStays ==
    ASSUME NEW q, locked[q] => holders[q] # {},
           locked'[q] = locked[q], holders'[q] = holders[q], wait_queue'[q] = wait_queue[q]
    PROVE  MutexStep(q)
  BY DEF MutexStep, Lock!vars, holder_of

LEMMA SyncCallLocks ==
    ASSUME TypeOK, PlacesInv, OwnInv, MutexInv, HeldInv, Careful, NobodyRelocks,
           NEW t \in Tids, SyncCall(t), NEW q \in Mutexes
    PROVE  MutexStep(q)
<1>0. SyncTypeOK /\ q \in Objs /\ q[1] = "mutex" /\ (locked[q] => holders[q] # {}) /\ MutexOK(q)
  BY DEF TypeOK, Mutexes, HeldInv, MutexInv, IsMutex
<1>1. Runs(t)
  BY DEF SyncCall, MutexCreate, SemaphoreCreate, CondvarCreate, MutexLock, MutexUnlock,
         SemaphoreUp, SemaphoreDown, CondvarSignal, CondvarWait
<1>2. Pid(t) \in Pids /\ ~Occurs(t, wait_queue[q])
  BY <1>0, <1>1, RunningInHand DEF Hand
<1>3. \A kind \in Kinds, i \in Slots :
         <<kind, Pid(t), i>> \in Objs /\ Owner(<<kind, Pid(t), i>>) = Pid(t)
  BY <1>2 DEF Objs, Owner
<1> USE DEF Kinds
<1>4. ASSUME UNCHANGED sync_vars PROVE MutexStep(q)
  BY <1>0, <1>4, LockStays DEF sync_vars
<1>5. ASSUME NEW m \in Objs, m # q, NEW u, NEW n,
             \/ mutex_lock(m, u) \/ mutex_unlock(m, u) \/ condvar_wait_with_mutex(m, u)
             \/ condvar_signal(m) \/ sem_up(m) \/ sem_down(m, u)
             \/ mutex_init(m) \/ sem_init(m, n) \/ condvar_init(m)
      PROVE  MutexStep(q)
  BY <1>0, <1>5, SyncFrameOthers, LockStays
<1>6. ASSUME NEW m \in Objs, Owner(m) = Pid(t), t \notin holders[m], mutex_lock(m, t)
      PROVE  MutexStep(q)
  <2>1. CASE m = q
    <3>1. Len(wait_queue[q]) < WAIT_QUEUE_SIZE
      BY <1>0, <1>1, <1>6, <2>1, RoomToWait
    <3>2. Lock(q)!Lock(t) /\ (locked[q] => holders[q] # {})'
      BY <1>0, <1>2, <1>6, <2>1, <3>1, LockRefines
    <3> QED
      BY <3>2 DEF MutexStep, Lock!Next
  <2> QED
    BY <1>5, <1>6, <2>1
<1>7. ASSUME NEW m \in Objs, t \in holders[m], mutex_unlock(m, t)
      PROVE  MutexStep(q)
  <2>1. CASE m = q
    <3>1. Lock(q)!Unlock /\ (locked[q] => holders[q] # {})'
      BY <1>0, <1>7, <2>1, UnlockRefines
    <3> QED
      BY <3>1 DEF MutexStep, Lock!Next
  <2> QED
    BY <1>5, <1>7, <2>1
<1>8. ASSUME NEW m \in Objs, Owner(m) = Pid(t), t \in holders[m], condvar_wait_with_mutex(m, t)
      PROVE  MutexStep(q)
  <2>1. CASE m = q
    <3>1. Len(wait_queue[q]) < WAIT_QUEUE_SIZE
      BY <1>0, <1>1, <1>8, <2>1, RoomToWait
    <3>2. /\ Lock(q)!GiveWay \/ UNCHANGED Lock(q)!vars
          /\ (locked[q] => holders[q] # {})'
      BY <1>0, <1>8, <2>1, <3>1, CondvarRefines
    <3> QED
      BY <3>2 DEF MutexStep, Lock!Next
  <2> QED
    BY <1>5, <1>8, <2>1
<1>9. CASE MutexCreate(t)
  <2> DEFINE m == New("mutex", t)
  <2>1. CASE ~Full("mutex", t)
    <3>1. m \in Objs /\ m \notin objects /\ mutex_init(m)
      BY <1>2, <1>9, <2>1, FreeEntry DEF MutexCreate
    <3> HIDE DEF m
    <3>2. CASE m = q
      <4>1. ~locked[q] /\ wait_queue[q] = <<>>
        BY <1>0, <3>1, <3>2 DEF MutexOK
      <4>2. ~locked'[q] /\ wait_queue'[q] = <<>> /\ UNCHANGED holders
        BY <1>0, <3>1, <3>2 DEF mutex_init, SyncTypeOK
      <4> QED
        BY <4>1, <4>2 DEF MutexStep, Lock!vars, holder_of
    <3> QED
      BY <1>5, <3>1, <3>2
  <2> QED
    BY <1>4, <1>9, <2>1 DEF MutexCreate
<1>10. ASSUME NEW n, SemaphoreCreate(t, n) PROVE MutexStep(q)
  <2> DEFINE m == New("semaphore", t)
  <2>1. CASE ~Full("semaphore", t)
    <3>1. m \in Objs /\ m # q /\ sem_init(m, n)
      BY <1>0, <1>2, <1>10, <2>1, FreeEntry DEF SemaphoreCreate, New
    <3> QED
      BY <1>5, <3>1
  <2> QED
    BY <1>4, <1>10, <2>1 DEF SemaphoreCreate
<1>11. CASE CondvarCreate(t)
  <2> DEFINE m == New("condvar", t)
  <2>1. CASE ~Full("condvar", t)
    <3>1. m \in Objs /\ m # q /\ condvar_init(m)
      BY <1>0, <1>2, <1>11, <2>1, FreeEntry DEF CondvarCreate, New
    <3> QED
      BY <1>5, <3>1
  <2> QED
    BY <1>4, <1>11, <2>1 DEF CondvarCreate
<1>12. ASSUME NEW i \in Slots, MutexLock(t, i) PROVE MutexStep(q)
  <2> DEFINE m == <<"mutex", Pid(t), i>>
  <2>1. m \in Objs /\ Owner(m) = Pid(t) /\ t \notin holders[m]
    BY <1>3, <1>12 DEF MutexLock, Uses, NobodyRelocks
  <2>2. mutex_lock(m, t) \/ UNCHANGED sync_vars
    BY <1>12 DEF MutexLock
  <2> HIDE DEF m
  <2> QED
    BY <1>4, <1>6, <2>1, <2>2
<1>13. ASSUME NEW i \in Slots, MutexUnlock(t, i) PROVE MutexStep(q)
  <2> DEFINE m == <<"mutex", Pid(t), i>>
  <2>1. m \in Objs /\ mutex_unlock(m, t) /\ t \in holders[m]
    BY <1>3, <1>13 DEF MutexUnlock, MayRelease, Uses, Careful
  <2> HIDE DEF m
  <2> QED
    BY <1>7, <2>1
<1>14. ASSUME NEW i \in Slots, SemaphoreUp(t, i) \/ SemaphoreDown(t, i) PROVE MutexStep(q)
  <2> DEFINE m == <<"semaphore", Pid(t), i>>
  <2>1. m \in Objs /\ m # q
    BY <1>0, <1>3
  <2>2. sem_up(m) \/ sem_down(m, t) \/ UNCHANGED sync_vars
    BY <1>14 DEF SemaphoreUp, SemaphoreDown
  <2> HIDE DEF m
  <2> QED
    BY <1>4, <1>5, <2>1, <2>2
<1>15. ASSUME NEW i \in Slots, CondvarSignal(t, i) PROVE MutexStep(q)
  <2> DEFINE m == <<"condvar", Pid(t), i>>
  <2>1. m \in Objs /\ m # q /\ condvar_signal(m)
    BY <1>0, <1>3, <1>15 DEF CondvarSignal
  <2> QED
    BY <1>5, <2>1
<1>16. ASSUME NEW i \in Slots, NEW j \in Slots, CondvarWait(t, i, j) PROVE MutexStep(q)
  <2> DEFINE m == <<"mutex", Pid(t), j>>
  <2>1. m \in Objs /\ Owner(m) = Pid(t) /\ t \in holders[m]
    BY <1>3, <1>16 DEF CondvarWait, MayRelease, Uses, Careful
  <2>2. condvar_wait_with_mutex(m, t) \/ UNCHANGED sync_vars
    BY <1>16 DEF CondvarWait
  <2> HIDE DEF m
  <2> QED
    BY <1>4, <1>8, <2>1, <2>2
<1> QED
  BY <1>9, <1>10, <1>11, <1>12, <1>13, <1>14, <1>15, <1>16 DEF SyncCall

LEMMA LocksNext ==
    ASSUME TypeOK, PlacesInv, OwnInv, MutexInv, HeldInv, Careful, NobodyRelocks, [Next]_vars
    PROVE  \A q \in Mutexes : MutexStep(q)
<1>1. ASSUME UNCHANGED sync_vars, NEW q \in Mutexes PROVE MutexStep(q)
  BY <1>1, LockStays DEF sync_vars, HeldInv
<1>2. CASE SkipExited \/ UNCHANGED vars
  BY <1>1, <1>2 DEF SkipExited, vars
<1>3. ASSUME NEW t, Plain(t) \/ ProcessCall(t) \/ SignalCalls(t) PROVE UNCHANGED sync_vars
  BY <1>3 DEF Plain, ProcessCall, SignalCalls, ThreadCreate, Fork, Exec, Waitpid, Exit, Exception,
     Unsupported, Kill, Sigaction, Sigprocmask, Sigreturn, SignalCall
<1> QED
  BY <1>1, <1>2, <1>3, SyncCallLocks DEF Next, Thread

\* mutex_lock, mutex_unlock, condvar_wait_with_mutex through do_mutex_lock ..
\* do_condvar_wait: every mutex of every process is a FIFO lock, for programs
\* that release only what they hold and do not lock what they hold.
THEOREM KernelMutexIsFifoLock == ASSUME Careful, NobodyRelocks PROVE Spec => MutexIsFifoLock
<1> DEFINE Inv == TypeOK /\ PlacesInv /\ WaitInv /\ OwnInv /\ MutexInv /\ HeldInv
           Step == \A q \in Mutexes : [Lock(q)!Next]_(Lock(q)!vars)
<1>1. Init => Inv /\ \A q \in Mutexes : Lock(q)!Init
  <2> SUFFICES ASSUME Init PROVE Inv /\ \A q \in Mutexes : Lock(q)!Init
    OBVIOUS
  <2>1. \A q \in Mutexes : holders[q] = {} /\ wait_queue[q] = <<>> /\ ~locked[q]
    BY DEF Init, SyncInit, Mutexes
  <2>2. \A q \in Mutexes : Lock(q)!Init
    BY <2>1 DEF Lock!Init, holder_of
  <2> QED
    BY <2>1, <2>2, TypeInit, PlacesInit, OwnInit, MutexInit DEF HeldInv
<1>2. Inv /\ [Next]_vars => Inv' /\ [Step]_vars
  <2> SUFFICES ASSUME Inv, [Next]_vars PROVE Inv' /\ Step
    OBVIOUS
  <2>1. \A q \in Mutexes : MutexStep(q)
    BY LocksNext
  <2>2. HeldInv'
    BY <2>1 DEF MutexStep, HeldInv, Mutexes
  <2>3. Step
    BY <2>1 DEF MutexStep
  <2>4. (TypeOK /\ PlacesInv /\ WaitInv /\ OwnInv /\ MutexInv)'
    BY TypeNext, PlacesNext, WaitNext, OwnNext, MutexNext
  <2> QED
    BY <2>2, <2>3, <2>4
<1> HIDE DEF Inv, Step
<1>3. Spec => [][Step]_vars
  BY <1>1, <1>2, PTL DEF Spec
<1>4. Spec => \A q \in Mutexes : Lock(q)!Init
  BY <1>1 DEF Spec
<1> QED
  BY <1>3, <1>4 DEF MutexIsFifoLock, Step

-----------------------------------------------------------------------------
(***************************************************************************)
(* Semaphores are FIFO counting semaphores.  With the ledger the permits   *)
(* are the count where it is positive and none where it is not.            *)
(***************************************************************************)
permits_of(q) == count[q] + Len(wait_queue[q])

\* With a ledger that agrees.
LEMMA PermitsOf ==
    ASSUME TypeOK, NEW q \in Objs, LedgerOK(q)
    PROVE  /\ permits_of(q) \in Nat
           /\ permits_of(q) > 0 <=> count[q] > 0
           /\ wait_queue[q] # <<>> <=> count[q] < 0
<1>1. count[q] \in Int /\ wait_queue[q] \in Seq(Tids) /\ Len(wait_queue[q]) \in Nat
  BY DEF TypeOK, SyncTypeOK
<1>2. wait_queue[q] = <<>> <=> Len(wait_queue[q]) = 0
  BY <1>1
<1> QED
  BY <1>1, <1>2 DEF LedgerOK, permits_of

\* sem_down by a thread that does not wait.
LEMMA DownRefines ==
    ASSUME TypeOK, NEW q \in objects, NEW t \in Tids, LedgerOK(q), ~Occurs(t, wait_queue[q]),
           Len(wait_queue[q]) < WAIT_QUEUE_SIZE, sem_down(q, t), UNCHANGED objects
    PROVE  Sem(q)!Down(t)
<1>0. /\ wait_queue \in [Objs -> Seq(Tids)] /\ count \in [Objs -> Int] /\ q \in Objs
      /\ Len(wait_queue[q]) \in Nat
  BY DEF TypeOK, SyncTypeOK
<1>1. ~Sem(q)!Waits(t)
  BY DEF Sem!Waits, Occurs
<1>2. count'[q] = count[q] - 1
  BY <1>0 DEF sem_down
<1>3. CASE sem_down_ok(q)
  <2>1. wait_queue' = wait_queue
    BY <1>3 DEF sem_down
  <2>2. permits_of(q) > 0 /\ permits_of(q)' = permits_of(q) - 1
    BY <1>0, <1>2, <1>3, <2>1, PermitsOf DEF sem_down_ok, permits_of
  <2> QED
    BY <1>1, <2>1, <2>2 DEF Sem!Down, permits_of
<1>4. CASE ~sem_down_ok(q)
  <2>1. wait_queue'[q] = Append(wait_queue[q], t)
    BY <1>0, <1>4 DEF sem_down, wq_push
  <2>2. Len(wait_queue'[q]) = Len(wait_queue[q]) + 1
    BY <1>0, <2>1, OccursAppend
  <2>3. count[q] <= 0
    BY <1>0, <1>4 DEF sem_down_ok
  <2>4. ~(permits_of(q) > 0)
    BY <1>0, <2>3, PermitsOf
  <2>5. permits_of(q)' = permits_of(q)
    <3> DEFINE c == count[q]  c1 == count'[q]  n == Len(wait_queue[q])  n1 == Len(wait_queue'[q])
    <3>1. c \in Int /\ n \in Nat /\ c1 = c - 1 /\ n1 = n + 1
      BY <1>0, <1>2, <2>2
    <3> HIDE DEF c, c1, n, n1
    <3>2. c1 + n1 = c + n
      BY <3>1
    <3> QED
      BY <3>2 DEF c, c1, n, n1, permits_of
  <2> QED
    BY <1>1, <2>1, <2>4, <2>5 DEF Sem!Down, permits_of
<1> QED
  BY <1>3, <1>4

LEMMA UpRefines ==
    ASSUME TypeOK, NEW q \in objects, LedgerOK(q), sem_up(q), UNCHANGED objects
    PROVE  Sem(q)!Up
<1>0. /\ wait_queue \in [Objs -> Seq(Tids)] /\ count \in [Objs -> Int] /\ q \in Objs
      /\ Len(wait_queue[q]) \in Nat
  BY DEF TypeOK, SyncTypeOK
<1>1. count'[q] = count[q] + 1 /\ wait_queue'[q] = wq_rest(wait_queue[q])
  BY <1>0 DEF sem_up
<1>2. CASE wait_queue[q] = <<>>
  <2>1. wait_queue'[q] = wait_queue[q] /\ permits_of(q)' = permits_of(q) + 1
    BY <1>0, <1>1, <1>2 DEF wq_rest, permits_of
  <2> QED
    BY <1>2, <2>1 DEF Sem!Up, permits_of
<1>3. CASE wait_queue[q] # <<>>
  <2>1. wait_queue'[q] = Tail(wait_queue[q]) /\ Len(Tail(wait_queue[q])) = Len(wait_queue[q]) - 1
    BY <1>0, <1>1, <1>3, OccursTail DEF wq_rest
  <2>2. permits_of(q)' = permits_of(q)
    <3> DEFINE c == count[q]  c1 == count'[q]  n == Len(wait_queue[q])  n1 == Len(wait_queue'[q])
    <3>1. c \in Int /\ n \in Nat /\ c1 = c + 1 /\ n1 = n - 1
      BY <1>0, <1>1, <2>1
    <3> HIDE DEF c, c1, n, n1
    <3>2. c1 + n1 = c + n
      BY <3>1
    <3> QED
      BY <3>2 DEF c, c1, n, n1, permits_of
  <2> QED
    BY <1>3, <2>1, <2>2 DEF Sem!Up, permits_of
<1> QED
  BY <1>2, <1>3

\* sem_init of a free table entry.
LEMMA CreateRefines ==
    ASSUME TypeOK, NEW q \in Objs, q \notin objects, wait_queue[q] = <<>>, NEW n \in Nat,
           sem_init(q, n), objects' = objects \cup {q}
    PROVE  Sem(q)!Next
<1>1. count'[q] = n /\ wait_queue'[q] = <<>>
  BY DEF TypeOK, SyncTypeOK, sem_init
<1>2. permits_of(q)' = n
  BY <1>1 DEF permits_of
<1>3. Sem(q)!Create(permits_of(q)')
  BY <1>1 DEF Sem!Create, permits_of
<1> QED
  BY <1>2, <1>3 DEF Sem!Next, permits_of

SemStep(q) == [Sem(q)!Next]_(Sem(q)!vars)

\* A semaphore no call touches.
LEMMA SemStays ==
    ASSUME NEW q, q \in objects' <=> q \in objects,
           count'[q] = count[q], wait_queue'[q] = wait_queue[q]
    PROVE  SemStep(q)
  BY DEF SemStep, Sem!vars

LEMMA SyncCallSems ==
    ASSUME TypeOK, PlacesInv, OwnInv, SemaphoreLedger, EmptyInv,
           NEW t \in Tids, SyncCall(t), NEW q \in Semaphores
    PROVE  SemStep(q)
<1>0. SyncTypeOK /\ q \in Objs /\ q[1] = "semaphore" /\ objects \subseteq Objs
  BY DEF TypeOK, Semaphores
<1>1. Runs(t)
  BY DEF SyncCall, MutexCreate, SemaphoreCreate, CondvarCreate, MutexLock, MutexUnlock,
         SemaphoreUp, SemaphoreDown, CondvarSignal, CondvarWait
<1>2. Pid(t) \in Pids /\ ~Occurs(t, wait_queue[q])
  BY <1>0, <1>1, RunningInHand DEF Hand
<1>3. \A kind \in Kinds, i \in Slots :
         <<kind, Pid(t), i>> \in Objs /\ Owner(<<kind, Pid(t), i>>) = Pid(t)
  BY <1>2 DEF Objs, Owner
<1>4. q \in objects => LedgerOK(q)
  BY <1>0 DEF SemaphoreLedger, LedgerOK
<1> USE DEF Kinds
<1>5. ASSUME UNCHANGED <<objects, sync_vars>> PROVE SemStep(q)
  BY <1>0, <1>5, SemStays DEF sync_vars
<1>6. ASSUME NEW m \in Objs, m # q, NEW u, NEW n, objects' \in {objects, objects \cup {m}},
             \/ mutex_lock(m, u) \/ mutex_unlock(m, u) \/ condvar_wait_with_mutex(m, u)
             \/ condvar_signal(m) \/ sem_up(m) \/ sem_down(m, u)
             \/ mutex_init(m) \/ sem_init(m, n) \/ condvar_init(m)
      PROVE  SemStep(q)
  BY <1>0, <1>6, SyncFrameOthers, SemStays
<1>7. ASSUME NEW kind \in {"mutex", "condvar"},
             IF Full(kind, t) THEN UNCHANGED <<objects, sync_vars>>
             ELSE /\ objects' = objects \cup {New(kind, t)}
                  /\ mutex_init(New(kind, t)) \/ condvar_init(New(kind, t))
      PROVE  SemStep(q)
  <2>1. CASE ~Full(kind, t)
    <3>1. New(kind, t) \in Objs /\ New(kind, t) # q
      BY <1>0, <1>2, <2>1, FreeEntry DEF New
    <3> QED
      BY <1>6, <1>7, <2>1, <3>1
  <2> QED
    BY <1>5, <1>7, <2>1
<1>8. MutexCreate(t) \/ CondvarCreate(t) => SemStep(q)
  BY <1>7 DEF MutexCreate, CondvarCreate
<1>9. ASSUME NEW n \in SemCounts, SemaphoreCreate(t, n) PROVE SemStep(q)
  <2> DEFINE m == New("semaphore", t)
  <2>1. CASE ~Full("semaphore", t)
    <3>1. m \in Objs /\ m \notin objects /\ objects' = objects \cup {m} /\ sem_init(m, n) /\ n \in Nat
      BY <1>2, <1>9, <2>1, FreeEntry, KernelAssumption DEF SemaphoreCreate
    <3> HIDE DEF m
    <3>2. CASE m = q
      <4>1. wait_queue[q] = <<>>
        BY <1>0, <3>1, <3>2 DEF EmptyInv
      <4>2. Sem(q)!Next
        BY <3>1, <3>2, <4>1, CreateRefines
      <4> QED
        BY <4>2 DEF SemStep
    <3> QED
      BY <1>6, <3>1, <3>2
  <2> QED
    BY <1>5, <1>9, <2>1 DEF SemaphoreCreate
<1>10. ASSUME NEW i \in Slots, SemaphoreUp(t, i) PROVE SemStep(q)
  <2> DEFINE m == <<"semaphore", Pid(t), i>>
  <2>1. m \in Objs /\ UNCHANGED objects /\ sem_up(m) /\ m \in objects
    BY <1>3, <1>10 DEF SemaphoreUp
  <2> HIDE DEF m
  <2>2. CASE m = q
    <3>1. Sem(q)!Up
      BY <1>4, <2>1, <2>2, UpRefines
    <3> QED
      BY <3>1 DEF SemStep, Sem!Next
  <2> QED
    BY <1>6, <2>1, <2>2
<1>11. ASSUME NEW i \in Slots, SemaphoreDown(t, i) PROVE SemStep(q)
  <2> DEFINE m == <<"semaphore", Pid(t), i>>
  <2>1. m \in Objs /\ Owner(m) = Pid(t) /\ UNCHANGED objects
    BY <1>3, <1>11 DEF SemaphoreDown
  <2>2. (m \in objects /\ sem_down(m, t)) \/ UNCHANGED sync_vars
    BY <1>11 DEF SemaphoreDown
  <2>3. Len(wait_queue[m]) < WAIT_QUEUE_SIZE
    BY <1>1, <2>1, RoomToWait
  <2> HIDE DEF m
  <2>4. CASE m = q /\ m \in objects /\ sem_down(m, t)
    <3>1. Sem(q)!Down(t)
      BY <1>2, <1>4, <2>1, <2>3, <2>4, DownRefines
    <3> QED
      BY <3>1 DEF SemStep, Sem!Next
  <2> QED
    BY <1>5, <1>6, <2>1, <2>2, <2>4
<1>12. ASSUME NEW i \in Slots, MutexLock(t, i) \/ MutexUnlock(t, i) \/ CondvarSignal(t, i)
                               \/ \E j \in Slots : CondvarWait(t, j, i)
       PROVE  SemStep(q)
  <2> DEFINE m == <<"mutex", Pid(t), i>>  c == <<"condvar", Pid(t), i>>
  <2>1. m \in Objs /\ m # q /\ c \in Objs /\ c # q
    BY <1>0, <1>3
  <2>2. UNCHANGED objects
    BY <1>12 DEF MutexLock, MutexUnlock, CondvarSignal, CondvarWait
  <2>3. \/ mutex_lock(m, t) \/ mutex_unlock(m, t) \/ condvar_wait_with_mutex(m, t)
        \/ condvar_signal(c) \/ UNCHANGED sync_vars
    BY <1>12 DEF MutexLock, MutexUnlock, CondvarSignal, CondvarWait
  <2> HIDE DEF m, c
  <2> QED
    BY <1>5, <1>6, <2>1, <2>2, <2>3
<1> QED
  BY <1>8, <1>9, <1>10, <1>11, <1>12 DEF SyncCall

LEMMA EmptyStep ==
    ASSUME TypeOK, EmptyInv, PlacesInv, [Next]_vars
    PROVE  EmptyInv'
<1>1. ASSUME UNCHANGED <<objects, sync_vars>> PROVE EmptyInv'
  BY <1>1 DEF EmptyInv, sync_vars
<1>2. CASE SkipExited \/ UNCHANGED vars
  BY <1>1, <1>2 DEF SkipExited, vars
<1>3. ASSUME NEW t, Plain(t) \/ ProcessCall(t) \/ SignalCalls(t) PROVE UNCHANGED <<objects, sync_vars>>
  BY <1>3 DEF Plain, ProcessCall, SignalCalls, ThreadCreate, Fork, Exec, Waitpid, Exit, Exception,
     Unsupported, Kill, Sigaction, Sigprocmask, Sigreturn, SignalCall
<1>4. ASSUME NEW t, SyncCall(t) PROVE EmptyInv'
  <2>1. Runs(t)
    BY <1>4 DEF SyncCall, MutexCreate, SemaphoreCreate, CondvarCreate, MutexLock, MutexUnlock,
       SemaphoreUp, SemaphoreDown, CondvarSignal, CondvarWait
  <2> QED
    BY <1>4, <2>1, RunningInHand, EmptyNext
<1> QED
  BY <1>1, <1>2, <1>3, <1>4 DEF Next, Thread

LEMMA SemsNext ==
    ASSUME TypeOK, PlacesInv, OwnInv, SemaphoreLedger, EmptyInv, [Next]_vars
    PROVE  \A q \in Semaphores : SemStep(q)
<1>1. ASSUME UNCHANGED <<objects, sync_vars>>, NEW q \in Semaphores PROVE SemStep(q)
  BY <1>1, SemStays DEF sync_vars
<1>2. CASE SkipExited \/ UNCHANGED vars
  BY <1>1, <1>2 DEF SkipExited, vars
<1>3. ASSUME NEW t, Plain(t) \/ ProcessCall(t) \/ SignalCalls(t) PROVE UNCHANGED <<objects, sync_vars>>
  BY <1>3 DEF Plain, ProcessCall, SignalCalls, ThreadCreate, Fork, Exec, Waitpid, Exit, Exception,
     Unsupported, Kill, Sigaction, Sigprocmask, Sigreturn, SignalCall
<1> QED
  BY <1>1, <1>2, <1>3, SyncCallSems DEF Next, Thread

\* sem_down, sem_up and wq_push, through do_semaphore_create, do_semaphore_up
\* and do_semaphore_down: every semaphore of every process is a FIFO counting
\* semaphore, whatever programs do and whoever is killed while it waits.
THEOREM KernelSemaphoreIsFifo == Spec => SemaphoreIsFifo
<1> DEFINE Inv == TypeOK /\ PlacesInv /\ WaitInv /\ OwnInv /\ SemaphoreLedger /\ EmptyInv
           Step == \A q \in Semaphores : [Sem(q)!Next]_(Sem(q)!vars)
<1>1. Init => Inv /\ \A q \in Semaphores : Sem(q)!Init
  <2> SUFFICES ASSUME Init PROVE Inv /\ \A q \in Semaphores : Sem(q)!Init
    OBVIOUS
  <2>1. SemaphoreLedger /\ EmptyInv
    BY DEF Init, SyncInit, SemaphoreLedger, EmptyInv
  <2>2. \A q \in Semaphores : count[q] = 0 /\ wait_queue[q] = <<>> /\ q \notin objects
    BY DEF Init, SyncInit, Semaphores
  <2>3. \A q \in Semaphores : Sem(q)!Init
    BY <2>2 DEF Sem!Init
  <2> QED
    BY <2>1, <2>3, TypeInit, PlacesInit, OwnInit
<1>2. Inv /\ [Next]_vars => Inv' /\ [Step]_vars
  <2> SUFFICES ASSUME Inv, [Next]_vars PROVE Inv' /\ Step
    OBVIOUS
  <2>1. Step
    BY SemsNext DEF SemStep
  <2>2. EmptyInv'
    BY EmptyStep
  <2>3. (TypeOK /\ PlacesInv /\ WaitInv /\ OwnInv /\ SemaphoreLedger)'
    BY TypeNext, PlacesNext, WaitNext, OwnNext, LedgerNext
  <2> QED
    BY <2>1, <2>2, <2>3
<1> HIDE DEF Inv, Step
<1>3. Spec => [][Step]_vars
  BY <1>1, <1>2, PTL DEF Spec
<1>4. Spec => \A q \in Semaphores : Sem(q)!Init
  BY <1>1 DEF Spec
<1> QED
  BY <1>3, <1>4 DEF SemaphoreIsFifo, Step
=============================================================================
