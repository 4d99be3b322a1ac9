------------------------------ MODULE Kernel7 ------------------------------
(***************************************************************************)
(* The ch7 kernel: single-threaded processes on the process manager, with  *)
(* signals (ch7/main.c with task-manage/ and signal/).  Without signals it *)
(* is the loop of ch5 and ch6.                                             *)
(*                                                                         *)
(* An action is one iteration of main's loop, as in Kernel8: the process   *)
(* at the head of the ring makes a system call or faults.  Nothing blocks: *)
(* waitpid answers -2 and the program asks again.                          *)
(***************************************************************************)
EXTENDS ProcManage, Signal, FiniteSets

CONSTANTS Workload,     \* what the user programs do: a set of the names in Calls
          ExitCodes,    \* the codes they exit with
          Signals       \* the signals they send, catch and block

Calls == {"yield", "exec", "fork", "exit", "waitpid", "kill", "sigaction", "sigprocmask",
          "sigreturn", "exception", "unsupported",
          "no_memory",       \* fork fails for want of memory
          "crowd",           \* more processes, alive or not reported, than MAX_CHILDREN
          "handler_calls"}   \* fork and exec inside a signal handler

ASSUME Kernel7Assumption == /\ Workload \subseteq Calls
                            /\ ExitCodes \subseteq Int
                            /\ Signals \subseteq SignalNumbers

\* A user context: where the process will run, and what its a0 holds (the
\* value it passed in itself, the call's result, or a signal number).
Contexts == [pc : {"program", "handler"}, a0 : {"argument", "result", "signum"}]

VARIABLES pm,              \* g_pm
          g_pid_counter,   \* the next process id; ids are never given back
          signal,          \* process.signal, without the saved context
          ctx,             \* process.ctx
          saved_ctx,       \* process.signal.handling.saved_ctx
          reported         \* history: the exit codes each process's parent was told

vars == <<pm, g_pid_counter, signal, ctx, saved_ctx, reported>>

\* context_user: the entry point of a program.
context_user == [pc |-> "program", a0 |-> "argument"]

Init == /\ pm = pm_add(pm_init, 0, PID_INVALID)
        /\ g_pid_counter = 1
        /\ signal = [p \in Pids |-> signal_init]
        /\ ctx = [p \in Pids |-> context_user]
        /\ saved_ctx = [p \in Pids |-> context_user]
        /\ reported = [p \in Pids |-> <<>>]

-----------------------------------------------------------------------------
Uses(c) == c \in Workload

\* The running process, its slot not empty.
Runs(p) == pm.ready # <<>> /\ p = Head(pm.ready) /\ p \in pm.procs

\* The manager while p runs: p has been taken from the ring.
Popped == [pm EXCEPT !.ready = Tail(@)]

\* p traps; its program may have put anything into a0 before.
Trapped(p) == [ctx[p] EXCEPT !.a0 = "argument"]

\* signal_handle found an action: the context goes to the handler.
Caught(r) == r.type = "HANDLED" /\ r.sm.handling = "user"
handler_context == [pc |-> "handler", a0 |-> "signum"]

\* Mutant: a stopped process is not put back into the ring.
Stopped_dropped(p, m) == m

Stopped(p, m) == pm_suspend_current(m, p)

\* The rest of the iteration after a system call: signals, then what the call
\* itself asks for.  m is the process manager, sm the signal managers, cs the
\* contexts and ss the saved contexts as the handler left them; end is what
\* the loop does with the process when no signal interferes.
Return(p, m, sm, cs, ss, end) ==
    LET r == signal_handle(sm[p])
        kept == [cs EXCEPT ![p] = IF Caught(r) THEN handler_context ELSE @]
    IN  /\ signal' = [sm EXCEPT ![p] = r.sm]
        /\ saved_ctx' = [ss EXCEPT ![p] = IF Caught(r) THEN cs[p] ELSE @]
        /\ CASE r.type = "KILLED" ->
                  pm' = pm_exit_current(m, p, r.exit_code) /\ ctx' = kept
             [] r.type = "SUSPENDED" ->
                  pm' = Stopped(p, m) /\ ctx' = kept
             [] r.type \notin {"KILLED", "SUSPENDED"} /\ end.exits ->
                  pm' = pm_exit_current(m, p, end.exit_code) /\ ctx' = kept
             [] r.type \notin {"KILLED", "SUSPENDED"} /\ ~end.exits ->
                  /\ pm' = pm_suspend_current(m, p)
                  /\ ctx' = [kept EXCEPT ![p].a0 = "result"]

Continues   == [exits |-> FALSE, exit_code |-> 0]
Exits(code) == [exits |-> TRUE, exit_code |-> code]

\* A call of p that leaves manager m and signal managers sm.
Call(p, m, sm, end) == Return(p, m, sm, [ctx EXCEPT ![p] = Trapped(p)], saved_ctx, end)

-----------------------------------------------------------------------------
\* sched_yield and every call that changes nothing modelled here: getpid,
\* clock_gettime, read, write, open, close, a failed exec.
Plain(p) == /\ Uses("yield") /\ Runs(p)
            /\ Call(p, Popped, signal, Continues)
            /\ UNCHANGED <<g_pid_counter, reported>>

\* Processes that are alive, or that their parent can still be told of.
Known == pm.procs \cup {z.pid : z \in UNION {ToSet(pm.dead[p]) : p \in Pids}}

InHandler(p) == ctx[p].pc = "handler"

\* g_pid_counter++: past the table only the comparison with its size matters,
\* so the counter stops there.
pid_alloc == g_pid_counter' = IF g_pid_counter < MAX_PROCS THEN g_pid_counter + 1 ELSE g_pid_counter

\* Mutant: the first id past the table is accepted.
NoSlot_off_by_one(c) == c > MAX_PROCS

\* No slot for the new id: the id is used up all the same.
NoSlot(c) == c >= MAX_PROCS

Fork(p) ==
    LET c == g_pid_counter
    IN  /\ Uses("fork") /\ Runs(p)
        /\ InHandler(p) => Uses("handler_calls")
        /\ pid_alloc
        /\ \/ /\ NoSlot(c) \/ Uses("no_memory")
              /\ Call(p, Popped, signal, Continues)
           \/ /\ ~NoSlot(c)
              /\ Cardinality(Known) <= MAX_CHILDREN \/ Uses("crowd")
              /\ Return(p, pm_add(Popped, c, p), [signal EXCEPT ![c] = signal_fork(signal[p])],
                        [ctx EXCEPT ![p] = Trapped(p), ![c] = [Trapped(p) EXCEPT !.a0 = "result"]],
                        saved_ctx, Continues)
        /\ UNCHANGED reported

\* A new program: only the actions of signals are forgotten.
Exec(p) == /\ Uses("exec") /\ Runs(p)
           /\ InHandler(p) => Uses("handler_calls")
           /\ Return(p, Popped, [signal EXCEPT ![p] = signal_clear(@)],
                     [ctx EXCEPT ![p] = context_user], saved_ctx, Continues)
           /\ UNCHANGED <<g_pid_counter, reported>>

Waitpid(p, want) ==
    LET r == pm_wait(Popped, p, want)
    IN  /\ Uses("waitpid") /\ Runs(p)
        /\ Call(p, r.pm, signal, Continues)
        /\ reported' = IF r.found /\ r.pid # STILL_ALIVE
                       THEN [reported EXCEPT ![r.pid] = Append(@, r.exit_code)]
                       ELSE reported
        /\ UNCHANGED g_pid_counter

Exit(p, code) == /\ Uses("exit") /\ Runs(p)
                 /\ Call(p, Popped, signal, Exits(code))
                 /\ UNCHANGED <<g_pid_counter, reported>>

\* A system call nobody serves.
Unsupported(p) == /\ Uses("unsupported") /\ Runs(p)
                  /\ Call(p, Popped, signal, Exits(-2))
                  /\ UNCHANGED <<g_pid_counter, reported>>

\* A user exception or an unexpected interrupt; no signal is looked at.
Exception(p) == /\ Uses("exception") /\ Runs(p)
                /\ pm' = pm_exit_current(Popped, p, -3)
                /\ UNCHANGED <<g_pid_counter, signal, ctx, saved_ctx, reported>>

-----------------------------------------------------------------------------
Kill(p, target, s) ==
    /\ Uses("kill") /\ Runs(p)
    /\ Call(p, Popped, IF target \in pm.procs THEN [signal EXCEPT ![target] = signal_add(@, s)] ELSE signal,
            Continues)
    /\ UNCHANGED <<g_pid_counter, reported>>

Sigaction(p, s, installs) ==
    /\ Uses("sigaction") /\ Runs(p)
    /\ Call(p, Popped, [signal EXCEPT ![p] = signal_set_action(@, s, installs)], Continues)
    /\ UNCHANGED <<g_pid_counter, reported>>

Sigprocmask(p, m) ==
    /\ Uses("sigprocmask") /\ Runs(p)
    /\ Call(p, Popped, [signal EXCEPT ![p] = signal_update_mask(@, m)], Continues)
    /\ UNCHANGED <<g_pid_counter, reported>>

\* Mutant: the saved context is not put back.
restored_not(p) == Trapped(p)

\* The context after sigreturn, before the loop writes its result into a0.
restored(p) == IF signal[p].handling = "user" THEN saved_ctx[p] ELSE Trapped(p)

Sigreturn(p) ==
    /\ Uses("sigreturn") /\ Runs(p)
    /\ Return(p, Popped, [signal EXCEPT ![p] = signal_return(@)],
              [ctx EXCEPT ![p] = restored(p)], saved_ctx, Continues)
    /\ UNCHANGED <<g_pid_counter, reported>>

-----------------------------------------------------------------------------
Process(p) ==
    \/ Plain(p) \/ Fork(p) \/ Exec(p) \/ Unsupported(p) \/ Exception(p)
    \/ \E want \in Pids \cup {PID_INVALID} : Waitpid(p, want)
    \/ \E code \in ExitCodes : Exit(p, code)
    \/ \E target \in Pids, s \in Signals : Kill(p, target, s)
    \/ \E s \in Signals, installs \in BOOLEAN : Sigaction(p, s, installs)
    \/ \E m \in SUBSET Signals : Sigprocmask(p, m)
    \/ Sigreturn(p)

\* With nothing in the ring main prints "no task" and powers off.
Next == \E p \in Pids : Process(p)

Spec == Init /\ [][Next]_vars

LoopSpec == Spec /\ WF_vars(Next)
-----------------------------------------------------------------------------
(***************************************************************************)
(* Properties.                                                             *)
(***************************************************************************)
\* The ranges of the kernel's tables.
TypeOK == /\ pm \in Managers
          /\ Len(pm.ready) < MAX_PROCS
          /\ g_pid_counter \in 1 .. MAX_PROCS
          /\ signal \in [Pids -> SignalManagers]
          /\ ctx \in [Pids -> Contexts]
          /\ saved_ctx \in [Pids -> Contexts]
          /\ reported \in [Pids -> Seq(Int)]

\* pm_add, pm_suspend_current, pm_exit_current through main's loop: the ring
\* holds every live process exactly once and nobody else.  A process lost from
\* it never runs again; an exited one in it makes main power off.
ReadyIsLive == IsInjective(pm.ready) /\ ToSet(pm.ready) = pm.procs

\* pm_add, pm_exit_current: for a live process, its list of children and the
\* parent fields of the live processes say the same, adoptions by process 0
\* included; a child that is on no list can never be waited for.
FamilyTree == \A p \in pm.procs :
    /\ IsInjective(pm.children[p])
    /\ ToSet(pm.children[p]) = {c \in pm.procs : pm.parent[c] = p}

Zombies(p) == ToSet(pm.dead[p])

\* pm_exit_current, pm_wait: an exit is told to a live parent, and stays on
\* its list until the parent has asked for it or has exited itself.
NoExitLost ==
    [][\A p \in pm.procs \cap pm'.procs :
          /\ \A c \in pm.procs \ pm'.procs :
                pm.parent[c] = p => \E z \in Zombies(p)' : z.pid = c
          /\ \A z \in Zombies(p) \ Zombies(p)' :
                reported'[z.pid] = Append(reported[z.pid], z.exit_code)]_vars

\* pm_wait: nobody is told of the same exit twice, or of a live process.
ReportedOnce ==
    /\ \A c \in Pids : Len(reported[c]) <= 1
    /\ \A p \in Pids : \A z \in Zombies(p) : z.pid \notin pm.procs /\ reported[z.pid] = <<>>

\* signal_handle, signal_return: a process is in a handler exactly while its
\* manager says so, and the context it will return to is its program's, never
\* another handler's.
HandlerContext == \A p \in pm.procs :
    /\ InHandler(p) <=> signal[p].handling = "user"
    /\ InHandler(p) => saved_ctx[p].pc = "program"

\* queue_push, queue_pop, main's loop: every live process runs, stopped ones
\* included.
EveryProcessRuns == \A p \in Pids :
    p \in pm.procs ~> (p \notin pm.procs \/ (pm.ready # <<>> /\ Head(pm.ready) = p))

-----------------------------------------------------------------------------
\* signal.c on a caught signal: "jump to the handler, a0 = the signal number".
\* What counts is a0 when the process runs again, after the whole iteration.
HandlerGetsSignalNumber ==
    [][\A p \in Pids :
          ~InHandler(p) /\ InHandler(p)' => ctx'[p].a0 = "signum"]_vars
=============================================================================
