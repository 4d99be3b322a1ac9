----------------------------- MODULE ProcManage -----------------------------
(***************************************************************************)
(* task-manage/proc_manage.h, proc_manage.c: the process manager of the    *)
(* kernels ch5, ch6 and ch7, as operators from manager to manager.  A      *)
(* manager is                                                              *)
(*   procs     the pids whose slot holds a process                         *)
(*   parent    relations[pid].parent                                       *)
(*   children  relations[pid].children[0 .. child_count - 1]               *)
(*   dead      relations[pid].dead_children, pid and exit code             *)
(*   ready     the ring of ready processes from head to tail               *)
(* The current process is the one the kernel's loop runs; it is passed in. *)
(***************************************************************************)
EXTENDS Integers, SequencesExt

CONSTANTS MAX_PROCS,     \* slots of processes, and places of the ring
          MAX_CHILDREN   \* places of each list of a process

ASSUME ProcSizes == MAX_PROCS \in Nat \ {0} /\ MAX_CHILDREN \in Nat \ {0}

Pids == 0 .. MAX_PROCS - 1

\* (pid_t)-1, and the -2 of pm_wait: the child is still alive.
PID_INVALID == -1
STILL_ALIVE == -2

Zombie == [pid : Pids, exit_code : Int]

Managers == [procs    : SUBSET Pids,
             parent   : [Pids -> Pids \cup {PID_INVALID}],
             children : [Pids -> Seq(Pids)],
             dead     : [Pids -> Seq(Zombie)],
             ready    : Seq(Pids)]

\* memset: relations that were never used say that process 0 is the parent.
pm_init == [procs    |-> {},
            parent   |-> [p \in Pids |-> 0],
            children |-> [p \in Pids |-> <<>>],
            dead     |-> [p \in Pids |-> <<>>],
            ready    |-> <<>>]

-----------------------------------------------------------------------------
\* Mutants: a process goes behind the first one only; the ring holds one
\* process less.
queue_push_second(rq, p) == IF rq = <<>> THEN <<p>> ELSE <<Head(rq), p>> \o Tail(rq)
queue_push_short(rq, p) == IF Len(rq) >= MAX_PROCS - 2 THEN <<>> ELSE Append(rq, p)

\* The ring has no count: with MAX_PROCS entries head = tail again, which
\* means an empty ring.
queue_push(rq, p) == IF Len(rq) = MAX_PROCS - 1 THEN <<>> ELSE Append(rq, p)

\* Mutant: the last place of a list is not used.
bounded_short(list, x) == IF Len(list) < MAX_CHILDREN - 1 THEN Append(list, x) ELSE list

\* A full list of children or zombies drops the entry.
bounded(list, x) == IF Len(list) < MAX_CHILDREN THEN Append(list, x) ELSE list

pm_add(pm, p, parent) ==
    [pm EXCEPT !.procs = @ \cup {p},
               !.parent[p] = parent,
               !.children = [q \in Pids |-> IF q = p THEN <<>>
                                            ELSE IF q = parent THEN bounded(@[q], p)
                                            ELSE @[q]],
               !.dead[p] = <<>>,
               !.ready = queue_push(@, p)]

pm_suspend_current(pm, p) == [pm EXCEPT !.ready = queue_push(@, p)]

-----------------------------------------------------------------------------
\* The parent's lists: p moves from the children to the dead.
notify_parent(pm, p, code) ==
    LET q == pm.parent[p]
    IN  IF q # PID_INVALID /\ Contains(pm.children[q], p)
        THEN [pm EXCEPT !.children[q] = RemoveFirst(@, p),
                        !.dead[q] = bounded(@, [pid |-> p, exit_code |-> code])]
        ELSE pm

Truncated(list) == SubSeq(list, 1, IF Len(list) < MAX_CHILDREN THEN Len(list) ELSE MAX_CHILDREN)

\* Mutant: process 0 gets the children but they keep their dead parent.
adopt_unparented(pm, p) == [pm EXCEPT !.children[0] = Truncated(@ \o pm.children[p])]

\* p's children become children of process 0, as many as fit its list.  (When
\* process 0 itself exits the loop appends to the list it reads until that is
\* full; the list is cleared next.)
adopt(pm, p) ==
    [pm EXCEPT !.parent = [c \in Pids |-> IF Contains(pm.children[p], c) THEN 0 ELSE @[c]],
               !.children[0] = Truncated(@ \o pm.children[p])]

\* p's zombies are dropped: nobody will be told of them.
pm_exit_current(pm, p, code) ==
    [adopt(notify_parent(pm, p, code), p) EXCEPT !.procs = @ \ {p},
                                                 !.parent[p] = 0,
                                                 !.children[p] = <<>>,
                                                 !.dead[p] = <<>>]

-----------------------------------------------------------------------------
WaitResult(found, z, pm) == [found |-> found, pid |-> z.pid, exit_code |-> z.exit_code, pm |-> pm]

NotFound(pm)   == WaitResult(FALSE, [pid |-> PID_INVALID, exit_code |-> -1], pm)
StillAlive(pm) == WaitResult(TRUE, [pid |-> STILL_ALIVE, exit_code |-> -1], pm)

\* Any child: the one that died last, if any has.
wait_any(pm, p) ==
    IF pm.dead[p] # <<>>
    THEN WaitResult(TRUE, Last(pm.dead[p]), [pm EXCEPT !.dead[p] = Front(@)])
    ELSE IF pm.children[p] # <<>> THEN StillAlive(pm)
    ELSE NotFound(pm)

\* Mutant: the zombie is told of but not removed.
wait_for_peek(pm, p, want) ==
    LET i == SelectInSeq(pm.dead[p], LAMBDA z : z.pid = want)
    IN  IF i # 0 THEN WaitResult(TRUE, pm.dead[p][i], pm)
        ELSE IF Contains(pm.children[p], want) THEN StillAlive(pm)
        ELSE NotFound(pm)

wait_for(pm, p, want) ==
    LET i == SelectInSeq(pm.dead[p], LAMBDA z : z.pid = want)
    IN  IF i # 0 THEN WaitResult(TRUE, pm.dead[p][i], [pm EXCEPT !.dead[p] = RemoveAt(@, i)])
        ELSE IF Contains(pm.children[p], want) THEN StillAlive(pm)
        ELSE NotFound(pm)

pm_wait(pm, p, want) == IF want = PID_INVALID THEN wait_any(pm, p) ELSE wait_for(pm, p, want)
=============================================================================
