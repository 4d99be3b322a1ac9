------------------------------ MODULE Kernel8 ------------------------------
(***************************************************************************)
(* The ch8 kernel: processes with threads, a FIFO ready queue, blocking    *)
(* synchronisation, fork / exec / waitpid / exit and signals               *)
(* (ch8/main.c with sync/ and signal/).                                    *)
(*                                                                         *)
(* One hart, no timer interrupt: main's loop takes the oldest ready        *)
(* thread, runs it until it traps, and handles the trap completely before  *)
(* it looks at the queue again.  So an action is one iteration of that     *)
(* loop: the thread at the head of the ready queue makes one system call   *)
(* (or dies), the handler runs, a pending signal is delivered and the      *)
(* thread is queued again, blocked or gone.  User programs are arbitrary   *)
(* within Workload.                                                        *)
(***************************************************************************)
EXTENDS Sync, Signal, FiniteSets

CONSTANTS READY_QUEUE_SIZE,  \* places in the ready queue
          Workload,          \* what the user programs do: a set of the names in Calls
          ExitCodes,         \* the codes they exit with
          Signals,           \* the signals they send, catch and block
          SemCounts,         \* the initial counts they give semaphores
          MAX_COUNT          \* bound: the largest semaphore count (an int)

Calls == {"yield", "exec", "fork", "exit", "waitpid", "thread_create",
          "mutex", "semaphore", "condvar", "kill", "sigaction", "sigprocmask",
          "sigreturn", "exception", "unsupported",
          "unlock_any",    \* unlock and wait with mutexes the thread does not hold
          "relock",        \* lock a mutex the thread holds
          "bad_id",        \* use identifiers of objects that do not exist
          "many_waiters",  \* waitpid while another thread of the process waits
          "no_memory"}     \* fork fails for want of memory

ASSUME KernelAssumption == /\ READY_QUEUE_SIZE \in Nat \ {0}
                           /\ Workload \subseteq Calls
                           /\ ExitCodes \subseteq Int
                           /\ Signals \subseteq SignalNumbers
                           /\ MAX_COUNT \in Nat
                           /\ SemCounts \subseteq 0 .. MAX_COUNT

\* main.c and sync.h: both are 16.
ASSUME QueueHoldsAProcess == MAX_THREADS <= WAIT_QUEUE_SIZE

VARIABLES ready,         \* g_ready_queue, oldest first
          g_next_tid,    \* the next thread id; ids are never given back
          g_next_pid,    \* the next process id; the same
          thread_pid,    \* thread_t.pid
          exited,        \* thread_t.exited
          threads,       \* process_t.threads[0 .. thread_count - 1], a set
          parent,        \* process_t.parent
          waiting_for,   \* process_t.waiting_for; PID_INVALID also means "any"
          waiting_tid,   \* process_t.waiting_tid
          proc_exited,   \* process_t.exited
          exit_code,     \* process_t.exit_code
          signal,        \* process_t.signal
          objects,       \* the entries of mutexes, semaphores, condvars that are not NULL
          reported       \* history: the exit codes each process's parent was told

exit_vars == <<exited, proc_exited, exit_code>>
wait_vars == <<waiting_for, waiting_tid>>
tree_vars == <<g_next_tid, g_next_pid, thread_pid, threads>>
vars == <<ready, tree_vars, parent, wait_vars, exit_vars, signal, objects, reported, sync_vars>>

Init ==
    /\ ready = <<0>>
    /\ g_next_tid = 1
    /\ g_next_pid = 1
    /\ thread_pid = [t \in Tids |-> 0]
    /\ exited = [t \in Tids |-> FALSE]
    /\ threads = [p \in Pids |-> IF p = 0 THEN {0} ELSE {}]
    \* The slots no process has used yet are zero: pid 0 is their parent.
    /\ parent = [p \in Pids |-> IF p = 0 THEN PID_INVALID ELSE 0]
    /\ waiting_for = [p \in Pids |-> IF p = 0 THEN PID_INVALID ELSE 0]
    /\ waiting_tid = [p \in Pids |-> IF p = 0 THEN TID_INVALID ELSE 0]
    /\ proc_exited = [p \in Pids |-> FALSE]
    /\ exit_code = [p \in Pids |-> 0]
    /\ signal = [p \in Pids |-> signal_init]
    /\ objects = {}
    /\ reported = [p \in Pids |-> <<>>]
    /\ SyncInit

-----------------------------------------------------------------------------
\* Mutants: the last place is never used; the newest thread runs first.
ready_enqueue_short(rq, t) == IF Len(rq) < READY_QUEUE_SIZE - 1 THEN Append(rq, t) ELSE rq
ready_enqueue_front(rq, t) == <<t>> \o rq

\* A full ready queue refuses the thread, and nobody is told.
ready_enqueue(rq, t) == IF Len(rq) < READY_QUEUE_SIZE THEN Append(rq, t) ELSE rq

\* Mutant: the woken thread is forgotten.
ready_wake_none(rq, w) == rq

\* The ready queue after a release that answered w.
ready_wake(rq, w) == IF w = TID_INVALID THEN rq ELSE ready_enqueue(rq, w)

\* The running thread: the head of the queue, unless it has exited.
Runs(t) == ready # <<>> /\ t = Head(ready) /\ ~exited[t]

Rest == Tail(ready)

Uses(c) == c \in Workload

Pid(t) == thread_pid[t]

\* Mutant: main queues the thread again although it must block.
requeue_always(t, rq, killed, blocks) == IF killed THEN rq ELSE ready_enqueue(rq, t)

\* A killed or blocked thread is not queued again.
requeue(t, rq, killed, blocks) == IF killed \/ blocks THEN rq ELSE ready_enqueue(rq, t)

\* The rest of the iteration after a system call other than exit: deliver a
\* signal, then queue the thread t unless it blocks.  rq is the ready queue
\* and sm the signal managers as the handler left them.
Return(t, rq, sm, blocks) ==
    LET p == Pid(t)
        r == signal_handle(sm[p])
        killed == r.type = "KILLED"
    IN  /\ signal' = [sm EXCEPT ![p] = r.sm]
        /\ ready' = requeue(t, rq, killed, blocks)
        /\ IF killed
           THEN /\ exited' = [exited EXCEPT ![t] = TRUE]
                /\ proc_exited' = [proc_exited EXCEPT ![p] = TRUE]
                /\ exit_code' = [exit_code EXCEPT ![p] = r.exit_code]
           ELSE UNCHANGED exit_vars

Resume(t) == Return(t, Rest, signal, FALSE)

\* What a call on synchronisation objects leaves alone.
SyncFrame == UNCHANGED <<tree_vars, parent, wait_vars, reported>>

-----------------------------------------------------------------------------
\* A thread in the queue that has exited since it was put there.
SkipExited == /\ ready # <<>>
              /\ exited[Head(ready)]
              /\ ready' = Rest
              /\ UNCHANGED <<tree_vars, parent, wait_vars, exit_vars, signal, objects, reported, sync_vars>>

\* sched_yield, and every call that changes nothing modelled here: getpid,
\* gettid, waittid, clock_gettime, read, write, open, close.
Plain(t) == /\ Uses("yield")
            /\ Runs(t)
            /\ Resume(t)
            /\ SyncFrame
            /\ UNCHANGED <<objects, sync_vars>>

-----------------------------------------------------------------------------
\* The table entries of process p that exist, and its first free one.
Table(kind, p) == {i \in Slots : <<kind, p, i>> \in objects}
Free(kind, p) == CHOOSE i \in Slots \ Table(kind, p) : \A j \in Slots \ Table(kind, p) : i <= j

New(kind, t) == <<kind, Pid(t), Free(kind, Pid(t))>>
Full(kind, t) == Table(kind, Pid(t)) = Slots

\* The three create calls take the first free entry; with none they answer -1.
MutexCreate(t) ==
    /\ Uses("mutex") /\ Runs(t)
    /\ IF Full("mutex", t) THEN UNCHANGED <<objects, sync_vars>>
       ELSE objects' = objects \cup {New("mutex", t)} /\ mutex_init(New("mutex", t))
    /\ Resume(t) /\ SyncFrame

SemaphoreCreate(t, n) ==
    /\ Uses("semaphore") /\ Runs(t)
    /\ IF Full("semaphore", t) THEN UNCHANGED <<objects, sync_vars>>
       ELSE objects' = objects \cup {New("semaphore", t)} /\ sem_init(New("semaphore", t), n)
    /\ Resume(t) /\ SyncFrame

CondvarCreate(t) ==
    /\ Uses("condvar") /\ Runs(t)
    /\ IF Full("condvar", t) THEN UNCHANGED <<objects, sync_vars>>
       ELSE objects' = objects \cup {New("condvar", t)} /\ condvar_init(New("condvar", t))
    /\ Resume(t) /\ SyncFrame

\* q is an object of t's process that its program may name.
MayName(t, q) == Owner(q) = Pid(t) /\ (q \in objects \/ Uses("bad_id"))

\* t's program may release q: a careful one releases only what it holds.
MayRelease(t, q) == t \in holders[q] \/ Uses("unlock_any")

\* A call that may block answers -1 both when the thread was queued and when
\* the object does not exist; main blocks the thread on any -1.
MutexLock(t, i) ==
    LET q == <<"mutex", Pid(t), i>>
    IN  /\ Uses("mutex") /\ Runs(t) /\ MayName(t, q)
        /\ t \notin holders[q] \/ Uses("relock")
        /\ IF q \in objects THEN mutex_lock(q, t) ELSE UNCHANGED sync_vars
        /\ Return(t, Rest, signal, q \notin objects \/ ~mutex_lock_ok(q))
        /\ SyncFrame /\ UNCHANGED objects

MutexUnlock(t, i) ==
    LET q == <<"mutex", Pid(t), i>>
    IN  /\ Uses("mutex") /\ Runs(t) /\ q \in objects /\ MayRelease(t, q)
        /\ mutex_unlock(q, t)
        /\ Return(t, ready_wake(Rest, waking(q)), signal, FALSE)
        /\ SyncFrame /\ UNCHANGED objects

SemaphoreUp(t, i) ==
    LET q == <<"semaphore", Pid(t), i>>
    IN  /\ Uses("semaphore") /\ Runs(t) /\ q \in objects
        /\ count[q] < MAX_COUNT
        /\ sem_up(q)
        /\ Return(t, ready_wake(Rest, waking(q)), signal, FALSE)
        /\ SyncFrame /\ UNCHANGED objects

SemaphoreDown(t, i) ==
    LET q == <<"semaphore", Pid(t), i>>
    IN  /\ Uses("semaphore") /\ Runs(t) /\ MayName(t, q)
        /\ IF q \in objects THEN sem_down(q, t) ELSE UNCHANGED sync_vars
        /\ Return(t, Rest, signal, q \notin objects \/ ~sem_down_ok(q))
        /\ SyncFrame /\ UNCHANGED objects

CondvarSignal(t, i) ==
    LET q == <<"condvar", Pid(t), i>>
    IN  /\ Uses("condvar") /\ Runs(t) /\ q \in objects
        /\ condvar_signal(q)
        /\ Return(t, ready_wake(Rest, waking(q)), signal, FALSE)
        /\ SyncFrame /\ UNCHANGED objects

CondvarWait(t, i, j) ==
    LET q == <<"condvar", Pid(t), i>>
        m == <<"mutex", Pid(t), j>>
        exist == q \in objects /\ m \in objects
    IN  /\ Uses("condvar") /\ Runs(t) /\ MayName(t, q) /\ MayName(t, m) /\ MayRelease(t, m)
        /\ IF exist THEN condvar_wait_with_mutex(m, t) ELSE UNCHANGED sync_vars
        /\ Return(t, IF exist THEN ready_wake(Rest, waking(m)) ELSE Rest, signal,
                  ~exist \/ ~condvar_wait_ok(m))
        /\ SyncFrame /\ UNCHANGED objects

-----------------------------------------------------------------------------
\* g_next_tid++ and g_next_pid++: past the table only the comparison with its
\* size matters, so the counter stops there (bound: 2^32 calls wrap it).
alloc_tid == g_next_tid' = IF g_next_tid < MAX_TIDS THEN g_next_tid + 1 ELSE g_next_tid
alloc_pid == g_next_pid' = IF g_next_pid < MAX_PROCS THEN g_next_pid + 1 ELSE g_next_pid

\* A new thread of process p; u is its id, or MAX_TIDS when none is left.
create_thread(p) ==
    LET u == g_next_tid
    IN  /\ alloc_tid
        /\ thread_pid' = IF u < MAX_TIDS THEN [thread_pid EXCEPT ![u] = p] ELSE thread_pid
        /\ threads' = IF u < MAX_TIDS THEN [threads EXCEPT ![p] = @ \cup {u}] ELSE threads

\* Mutant: one thread too many.
NoThreadRoomLate(p) == Cardinality(threads[p]) > MAX_THREADS

NoThreadRoom(p) == Cardinality(threads[p]) >= MAX_THREADS

ThreadCreate(t) ==
    LET p == Pid(t)
    IN  /\ Uses("thread_create") /\ Runs(t)
        /\ IF NoThreadRoom(p)
           THEN UNCHANGED tree_vars /\ Resume(t)
           ELSE /\ create_thread(p)
                /\ UNCHANGED g_next_pid
                /\ Return(t, IF g_next_tid < MAX_TIDS THEN ready_enqueue(Rest, g_next_tid) ELSE Rest,
                          signal, FALSE)
        /\ UNCHANGED <<parent, wait_vars, objects, reported, sync_vars>>

\* Mutant: fork marks the child as not waiting for a process, but not the
\* thread; PID_INVALID is also "any child".
ForkChildWaitsForAny(c) == waiting_for' = [waiting_for EXCEPT ![c] = PID_INVALID]

\* do_fork clears the child's slot and never sets waiting_for, waiting_tid.
ForkWaitFields(c) == waiting_for' = [waiting_for EXCEPT ![c] = 0]

\* The child's slot has been zero since boot, so clearing it changes only
\* what the call itself or a kill of an unused pid wrote there.
Fork(t) ==
    LET p == Pid(t)
        c == g_next_pid
    IN  /\ Uses("fork") /\ Runs(t)
        /\ alloc_pid
        /\ \/ /\ c >= MAX_PROCS \/ Uses("no_memory")
              /\ Return(t, Rest, IF c < MAX_PROCS THEN [signal EXCEPT ![c] = signal_init] ELSE signal, FALSE)
              /\ UNCHANGED <<g_next_tid, thread_pid, threads, parent, wait_vars>>
           \/ /\ c < MAX_PROCS
              /\ create_thread(c)
              /\ parent' = [parent EXCEPT ![c] = p]
              /\ ForkWaitFields(c)
              /\ waiting_tid' = [waiting_tid EXCEPT ![c] = 0]
              /\ Return(t, IF g_next_tid < MAX_TIDS THEN ready_enqueue(Rest, g_next_tid) ELSE Rest,
                        [signal EXCEPT ![c] = signal_fork(signal[p])], FALSE)
        /\ UNCHANGED <<objects, reported, sync_vars>>

\* The calling thread starts the new program; the process's other threads,
\* its objects, pending signals and mask stay.
Exec(t) == /\ Uses("exec") /\ Runs(t)
           /\ Return(t, Rest, [signal EXCEPT ![Pid(t)] = signal_clear(@)], FALSE)
           /\ SyncFrame
           /\ UNCHANGED <<objects, sync_vars>>

-----------------------------------------------------------------------------
Matches(want, c) == want = PID_INVALID \/ want = c

\* The pool slots do_waitpid finds for p and its argument.
Found(p, want) == {c \in Pids : parent[c] = p /\ Matches(want, c)}
Zombies(p, want) == {c \in Found(p, want) : proc_exited[c]}

\* p has a thread in waitpid.  (A forked process that never waited has
\* waiting_tid = 0, a thread of process 0.)
Waiting(p) == waiting_tid[p] # TID_INVALID /\ thread_pid[waiting_tid[p]] = p

\* Mutant: the child that was reported stays its parent's child.
KeepChild(c) == UNCHANGED parent

\* The child has been reported: it is nobody's child any more.
ReleaseChild(c) == parent' = [parent EXCEPT ![c] = PID_INVALID]

Waitpid(t, want) ==
    LET p == Pid(t)
        z == CHOOSE c \in Zombies(p, want) : \A d \in Zombies(p, want) : c <= d
    IN  /\ Uses("waitpid") /\ Runs(t)
        /\ ~Waiting(p) \/ Uses("many_waiters")
        /\ IF Zombies(p, want) # {}
           THEN /\ ReleaseChild(z)
                /\ reported' = [reported EXCEPT ![z] = Append(@, exit_code[z])]
                /\ UNCHANGED wait_vars
                /\ Resume(t)
           ELSE /\ IF Found(p, want) # {}
                   THEN /\ waiting_for' = [waiting_for EXCEPT ![p] = want]
                        /\ waiting_tid' = [waiting_tid EXCEPT ![p] = t]
                   ELSE UNCHANGED wait_vars
                /\ UNCHANGED <<parent, reported>>
                /\ Return(t, Rest, signal, Found(p, want) # {})
        /\ UNCHANGED <<tree_vars, objects, sync_vars>>

\* Mutant: a parent that waits for any child is not woken.
WakesParentExact(p) == /\ parent[p] # PID_INVALID
                       /\ waiting_tid[parent[p]] # TID_INVALID
                       /\ waiting_for[parent[p]] = p

\* The last thread of p has exited: p's parent is woken if it is waiting for p.
WakesParent(p) == /\ parent[p] # PID_INVALID
                  /\ waiting_tid[parent[p]] # TID_INVALID
                  /\ Matches(waiting_for[parent[p]], p)

\* Mutants: a process exits with its first thread; the exiting thread is
\* looked at before it is marked.
AnyExited(p, t) == TRUE
AllOthersExited(p, t) == \A u \in threads[p] : exited[u]

AllExited(p, t) == \A u \in threads[p] : u = t \/ exited[u]

ExitProcess(p, code) ==
    /\ proc_exited' = [proc_exited EXCEPT ![p] = TRUE]
    /\ exit_code' = [exit_code EXCEPT ![p] = code]
    /\ IF WakesParent(p)
       THEN LET a == parent[p]
            IN  /\ ready' = ready_enqueue(Rest, waiting_tid[a])
                /\ waiting_tid' = [waiting_tid EXCEPT ![a] = TID_INVALID]
                /\ waiting_for' = [waiting_for EXCEPT ![a] = PID_INVALID]
                /\ ReleaseChild(p)
                /\ reported' = [reported EXCEPT ![p] = Append(@, code)]
       ELSE ready' = Rest /\ UNCHANGED <<wait_vars, parent, reported>>

Exit(t, code) ==
    LET p == Pid(t)
        r == signal_handle(signal[p])
    IN  /\ Uses("exit") /\ Runs(t)
        /\ signal' = [signal EXCEPT ![p] = r.sm]
        /\ exited' = [exited EXCEPT ![t] = TRUE]
        /\ IF r.type = "KILLED"
           THEN /\ proc_exited' = [proc_exited EXCEPT ![p] = TRUE]
                /\ exit_code' = [exit_code EXCEPT ![p] = r.exit_code]
                /\ ready' = Rest
                /\ UNCHANGED <<wait_vars, parent, reported>>
           ELSE IF AllExited(p, t)
                THEN ExitProcess(p, code)
                ELSE ready' = Rest /\ UNCHANGED <<proc_exited, exit_code, wait_vars, parent, reported>>
        /\ UNCHANGED <<tree_vars, objects, sync_vars>>

\* A user exception or an unexpected interrupt: only the thread is marked.
Exception(t) == /\ Uses("exception") /\ Runs(t)
                /\ exited' = [exited EXCEPT ![t] = TRUE]
                /\ ready' = Rest
                /\ UNCHANGED <<proc_exited, exit_code, signal, objects, sync_vars>>
                /\ SyncFrame

\* A system call nobody serves: signals first, then the same.
Unsupported(t) ==
    LET p == Pid(t)
        r == signal_handle(signal[p])
        killed == r.type = "KILLED"
    IN  /\ Uses("unsupported") /\ Runs(t)
        /\ signal' = [signal EXCEPT ![p] = r.sm]
        /\ exited' = [exited EXCEPT ![t] = TRUE]
        /\ proc_exited' = IF killed THEN [proc_exited EXCEPT ![p] = TRUE] ELSE proc_exited
        /\ exit_code' = IF killed THEN [exit_code EXCEPT ![p] = r.exit_code] ELSE exit_code
        /\ ready' = Rest
        /\ SyncFrame /\ UNCHANGED <<objects, sync_vars>>

-----------------------------------------------------------------------------
\* A system call of t that only changes signal managers.
SignalCall(t, sm) == /\ Runs(t)
                     /\ Return(t, Rest, sm, FALSE)
                     /\ SyncFrame
                     /\ UNCHANGED <<objects, sync_vars>>

\* The target is any pool slot, used or not.
Kill(t, target, s) ==
    Uses("kill") /\ SignalCall(t, [signal EXCEPT ![target] = signal_add(@, s)])

Sigaction(t, s, installs) ==
    Uses("sigaction") /\ SignalCall(t, [signal EXCEPT ![Pid(t)] = signal_set_action(@, s, installs)])

Sigprocmask(t, m) ==
    Uses("sigprocmask") /\ SignalCall(t, [signal EXCEPT ![Pid(t)] = signal_update_mask(@, m)])

Sigreturn(t) ==
    Uses("sigreturn") /\ SignalCall(t, [signal EXCEPT ![Pid(t)] = signal_return(@)])

-----------------------------------------------------------------------------
SyncCall(t) ==
    \/ MutexCreate(t) \/ CondvarCreate(t)
    \/ \E n \in SemCounts : SemaphoreCreate(t, n)
    \/ \E i \in Slots : \/ MutexLock(t, i)
                        \/ MutexUnlock(t, i)
                        \/ SemaphoreUp(t, i)
                        \/ SemaphoreDown(t, i)
                        \/ CondvarSignal(t, i)
                        \/ \E j \in Slots : CondvarWait(t, i, j)

ProcessCall(t) ==
    \/ ThreadCreate(t) \/ Fork(t) \/ Exec(t)
    \/ \E want \in Pids \cup {PID_INVALID} : Waitpid(t, want)
    \/ \E code \in ExitCodes : Exit(t, code)
    \/ Exception(t) \/ Unsupported(t)

SignalCalls(t) ==
    \/ \E target \in Pids, s \in Signals : Kill(t, target, s)
    \/ \E s \in Signals, installs \in BOOLEAN : Sigaction(t, s, installs)
    \/ \E m \in SUBSET Signals : Sigprocmask(t, m)
    \/ Sigreturn(t)

Thread(t) == Plain(t) \/ SyncCall(t) \/ ProcessCall(t) \/ SignalCalls(t)

\* With an empty ready queue main prints "no task" and powers off.
Next == SkipExited \/ \E t \in Tids : Thread(t)

Spec == Init /\ [][Next]_vars
-----------------------------------------------------------------------------
(***************************************************************************)
(* Safety.                                                                 *)
(***************************************************************************)
Allocated == 0 .. g_next_tid - 1

\* The ranges of the kernel's tables.
TypeOK ==
    /\ SyncTypeOK
    /\ ready \in Seq(Tids) /\ Len(ready) <= READY_QUEUE_SIZE
    /\ g_next_tid \in 1 .. MAX_TIDS
    /\ g_next_pid \in 1 .. MAX_PROCS
    /\ thread_pid \in [Tids -> Pids]
    /\ exited \in [Tids -> BOOLEAN]
    /\ threads \in [Pids -> SUBSET Tids]
    /\ parent \in [Pids -> Pids \cup {PID_INVALID}]
    /\ waiting_for \in [Pids -> Pids \cup {PID_INVALID}]
    /\ waiting_tid \in [Pids -> Tids \cup {TID_INVALID}]
    /\ proc_exited \in [Pids -> BOOLEAN]
    /\ exit_code \in [Pids -> Int]
    /\ signal \in [Pids -> SignalManagers]
    /\ objects \subseteq Objs
    /\ reported \in [Pids -> Seq(Int)]

Distinct(s)    == \A i, j \in 1 .. Len(s) : s[i] = s[j] => i = j
Disjoint(s, w) == \A i \in 1 .. Len(s), j \in 1 .. Len(w) : s[i] # w[j]
Occurs(t, s)   == \E i \in 1 .. Len(s) : s[i] = t

\* main's loop and every wake-up in main.c: a thread is in one place only,
\* once: the ready queue, one wait queue, or its process's waiting_tid.  A
\* thread in two places would run again while it is blocked, or be woken twice.
UniquePlace ==
    /\ Distinct(ready)
    /\ \A q \in Objs : Distinct(wait_queue[q]) /\ Disjoint(ready, wait_queue[q])
    /\ \A q, r \in Objs : q # r => Disjoint(wait_queue[q], wait_queue[r])
    /\ \A p \in Pids : Waiting(p) =>
          /\ ~Occurs(waiting_tid[p], ready)
          /\ \A q \in Objs : ~Occurs(waiting_tid[p], wait_queue[q])

\* sem_down, sem_up: a negative count is exactly the number of queued threads.
\* This is also why the unchecked answer of wq_push in sync.c does no harm: a
\* refused push would leave a count with no thread behind it.
SemaphoreLedger ==
    \A q \in objects : q[1] = "semaphore" =>
        Len(wait_queue[q]) = IF count[q] < 0 THEN -count[q] ELSE 0

\* mutex_lock, mutex_unlock, condvar_wait_with_mutex: a free mutex has no
\* waiter and no holder, and when every thread releases only what it was
\* granted, at most one thread at a time has been granted a mutex, hand-over
\* to a waiter included.
MutualExclusion ==
    \A q \in objects : q[1] = "mutex" =>
        /\ ~locked[q] => wait_queue[q] = <<>> /\ holders[q] = {}
        /\ \A t, u \in holders[q] : t = u

\* The ready queue has a place for every thread created so far; in the code
\* it has 64 places for up to 256 threads, and refuses the others unnoticed.
RoomForAll == g_next_tid <= READY_QUEUE_SIZE

\* do_mutex_lock .. do_condvar_wait, do_waitpid, main's need_block: a live
\* thread that main did not queue again is where somebody will find it, as
\* long as the ready queue has room.
NoLostThread ==
    RoomForAll => \A p \in Pids : \A t \in threads[p] :
        \/ exited[t]
        \/ Occurs(t, ready)
        \/ \E q \in Objs : Owner(q) = p /\ Occurs(t, wait_queue[q])
        \/ waiting_tid[p] = t

\* SYS_EXIT in main: the parent that an exiting process would wake does have
\* that thread in waitpid.  (do_fork leaves waiting_tid = 0 in the child: a
\* thread of process 0, which must never be woken for the child's sake.)
WakeIsWanted == \A c \in Pids : WakesParent(c) => Waiting(parent[c])

\* do_waitpid and SYS_EXIT: a thread waits only while no child it waits for
\* has exited; otherwise the exit it waits for is already past.
NoMissedExit == \A p \in Pids : Waiting(p) => Zombies(p, waiting_for[p]) = {}

\* SYS_EXIT, all_exited: no thread of an exited process can run any more.
ExitedProcessQuiet == \A p \in Pids : proc_exited[p] => \A t \in threads[p] : exited[t]

\* SYS_EXIT, all_exited: when its last thread is gone a process has exited
\* (or its parent would wait for it for ever).
DeadProcessExited ==
    \A p \in Pids : threads[p] # {} /\ (\A t \in threads[p] : exited[t]) => proc_exited[p]

\* do_waitpid and SYS_EXIT: the two ways an exit reaches the parent exclude
\* each other, and what the parent is told stays true.
ReportedOnce ==
    \A c \in Pids : /\ Len(reported[c]) <= 1
                    /\ reported[c] # <<>> => proc_exited[c] /\ reported[c] = <<exit_code[c]>>

\* do_thread_create, do_fork and create_thread: as long as the process table
\* or a process has room, create_thread finds a thread slot, although ids are
\* never reused: the failure that would leave a child without a thread (and
\* its parent waiting for ever) cannot happen.
TidSupply ==
    (\/ g_next_pid < MAX_PROCS
     \/ \E p \in Pids : threads[p] # {} /\ Cardinality(threads[p]) < MAX_THREADS)
    => g_next_tid < MAX_TIDS
=============================================================================
