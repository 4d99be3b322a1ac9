----------------------------- MODULE AppKernels -----------------------------
(***************************************************************************)
(* The kernels whose programs are linked into them: ch2 runs one after the *)
(* other, ch3 keeps all in memory and shares the processor out with a      *)
(* timer, ch4 gives each an address space and runs the first that has not  *)
(* ended.  Programs are named by their place in the list the linker made,  *)
(* and what one does next is open.                                         *)
(***************************************************************************)
EXTENDS Integers, Sequences, FiniteSets

CONSTANTS Kernels,          \* the kernels a run looks at
          MAX_COUNT,        \* at most so many programs are linked in
          MAX_APPS,         \* of ch3
          MAX_PROCESSES,    \* of ch4
          TIMER_INTERVAL    \* in steps of a program

ASSUME AppAssumption == /\ Kernels \subseteq {"ch2", "ch3", "ch4"}
                        /\ MAX_COUNT \in Nat /\ MAX_APPS \in Nat /\ MAX_PROCESSES \in Nat
                        /\ TIMER_INTERVAL \in Nat \ {0}

VARIABLES kernel,
          meta,       \* app_meta_t: count and step; bad: those that ch4 cannot load
          iter,       \* app_iter_t.index
          memory,     \* the program in each place that programs are copied to
          tasks,      \* task_t[], process_t[]: the program, and whether it is
                      \* to run; ch2's only one is at 0
          remain,     \* ch3: remain; ch4: process_count
          current,
          timer,      \* steps until the interrupt
          pc

vars == <<kernel, meta, iter, memory, tasks, remain, current, timer, pc>>

None == -1
Ids  == 0..(MAX_COUNT - 1)

\* A slot of the table, unused.
NoTask == [app |-> None, unfinished |-> FALSE]

\* sbi_set_timer(UINT64_MAX)
Never == -1

\* The least of a set of numbers.
Smallest(S) == CHOOSE i \in S : \A j \in S : i <= j

-----------------------------------------------------------------------------
(* linker.c *)

\* The place a program is copied to, of the step's size; the ch2 kernel's step
\* is 0 and the ch4 kernel does not copy.
Place(app) == app * meta.step

\* Mutant: every program goes to the base.
copied_base(app) == [memory EXCEPT ![0] = app]

\* The memory once a program has been copied: its own place and no other.
copied(app) == IF kernel = "ch4" THEN memory ELSE [memory EXCEPT ![Place(app)] = app]

\* apps_next: whether there is one more.
HasNext == iter < meta.count

-----------------------------------------------------------------------------
(* ch2 *)

\* The next program is copied over the last one and started.
LoadAndRun ==
    /\ kernel = "ch2" /\ pc = "load" /\ HasNext
    /\ iter' = iter + 1
    /\ memory' = copied(iter)
    /\ tasks' = [tasks EXCEPT ![0] = [app |-> iter, unfinished |-> TRUE]]
    /\ current' = 0
    /\ pc' = "user"
    /\ UNCHANGED <<kernel, meta, remain, timer>>

BatchDone == /\ kernel = "ch2" /\ pc = "load" /\ ~HasNext
             /\ pc' = "shutdown"
             /\ UNCHANGED <<kernel, meta, iter, memory, tasks, remain, current, timer>>

-----------------------------------------------------------------------------
(* ch3, ch4: the programs are all loaded first *)

Capacity == IF kernel = "ch3" THEN MAX_APPS ELSE MAX_PROCESSES

LoadTask ==
    /\ kernel = "ch3" /\ pc = "load" /\ remain < Capacity /\ HasNext
    /\ iter' = iter + 1
    /\ memory' = copied(iter)
    /\ tasks' = [tasks EXCEPT ![remain] = [app |-> iter, unfinished |-> TRUE]]
    /\ remain' = remain + 1
    /\ UNCHANGED <<kernel, meta, current, timer, pc>>

\* create_process: what is not a program takes no slot.
create_process ==
    /\ kernel = "ch4" /\ pc = "load" /\ remain < Capacity /\ HasNext
    /\ iter' = iter + 1
    /\ IF iter \in meta.bad
       THEN UNCHANGED <<tasks, remain>>
       ELSE /\ tasks' = [tasks EXCEPT ![remain] = [app |-> iter, unfinished |-> TRUE]]
            /\ remain' = remain + 1
    /\ UNCHANGED <<kernel, meta, memory, current, timer, pc>>

\* Those past the capacity are left out.
AllLoaded == /\ kernel \in {"ch3", "ch4"} /\ pc = "load" /\ (remain >= Capacity \/ ~HasNext)
             /\ pc' = "schedule"
             /\ current' = 0
             /\ UNCHANGED <<kernel, meta, iter, memory, tasks, remain, timer>>

-----------------------------------------------------------------------------
(* ch3: main's loop.  task_count is the number of slots in use. *)

task_count == Cardinality({i \in DOMAIN tasks : tasks[i] # NoTask})

\* Mutant: the task that ran runs again.
next_task_same(i) == i

next_task(i) == (i + 1) % task_count

\* set_next_timer
ch3_run == /\ kernel = "ch3" /\ pc = "schedule" /\ remain > 0 /\ tasks[current].unfinished
           /\ timer' = TIMER_INTERVAL
           /\ pc' = "user"
           /\ UNCHANGED <<kernel, meta, iter, memory, tasks, remain, current>>

ch3_skip == /\ kernel = "ch3" /\ pc = "schedule" /\ remain > 0 /\ ~tasks[current].unfinished
            /\ current' = next_task(current)
            /\ UNCHANGED <<kernel, meta, iter, memory, tasks, remain, timer, pc>>

\* A step of the program's own, which no other kernel would notice.
Compute == /\ kernel = "ch3" /\ pc = "user" /\ timer > 0
           /\ timer' = timer - 1
           /\ UNCHANGED <<kernel, meta, iter, memory, tasks, remain, current, pc>>

TimerInterrupt == /\ kernel = "ch3" /\ pc = "user" /\ timer = 0
                  /\ timer' = Never     \* cancel_timer
                  /\ current' = next_task(current)
                  /\ pc' = "schedule"
                  /\ UNCHANGED <<kernel, meta, iter, memory, tasks, remain>>

\* SCHED_YIELD
ch3_yield == /\ kernel = "ch3" /\ pc = "user"
             /\ current' = next_task(current)
             /\ pc' = "schedule"
             /\ UNCHANGED <<kernel, meta, iter, memory, tasks, remain, timer>>

\* SCHED_NONE: the loop begins again with the same task, and a new interval.
ch3_call == /\ kernel = "ch3" /\ pc = "user"
            /\ pc' = "schedule"
            /\ UNCHANGED <<kernel, meta, iter, memory, tasks, remain, current, timer>>

-----------------------------------------------------------------------------
(* ch4: main's loop *)

\* Mutant: the search begins after the process that ran last.
first_valid_after(i) == IF \E j \in Ids : j > i /\ tasks[j].unfinished
                        THEN Smallest({j \in Ids : j > i /\ tasks[j].unfinished})
                        ELSE Smallest({j \in Ids : tasks[j].unfinished})

\* The first valid process; current_pid does not matter.
first_valid(i) == Smallest({j \in Ids : tasks[j].unfinished})

ch4_run == /\ kernel = "ch4" /\ pc = "schedule" /\ remain > 0
           /\ \E i \in Ids : tasks[i].unfinished
           /\ current' = first_valid(current)
           /\ pc' = "user"
           /\ UNCHANGED <<kernel, meta, iter, memory, tasks, remain, timer>>

\* A call that is served, sched_yield included: the loop looks again.
ch4_call == /\ kernel = "ch4" /\ pc = "user"
            /\ pc' = "schedule"
            /\ UNCHANGED <<kernel, meta, iter, memory, tasks, remain, current, timer>>

-----------------------------------------------------------------------------
\* Mutant: a task that has ended is still counted.
End_uncounted ==
    /\ pc = "user"
    /\ tasks' = [tasks EXCEPT ![current].unfinished = FALSE]
    /\ current' = IF kernel = "ch3" THEN next_task(current) ELSE current
    /\ pc' = IF kernel = "ch2" THEN "load" ELSE "schedule"
    /\ UNCHANGED <<kernel, meta, iter, memory, timer, remain>>

\* exit, a call that is not supported, an exception: the program ends.  The
\* ch3 kernel goes on to the next task.
End ==
    /\ pc = "user"
    /\ tasks' = [tasks EXCEPT ![current].unfinished = FALSE]
    /\ remain' = IF kernel = "ch2" THEN remain ELSE remain - 1
    /\ current' = IF kernel = "ch3" THEN next_task(current) ELSE current
    /\ pc' = IF kernel = "ch2" THEN "load" ELSE "schedule"
    /\ UNCHANGED <<kernel, meta, iter, memory, timer>>

Shutdown == /\ kernel \in {"ch3", "ch4"} /\ pc = "schedule" /\ remain = 0
            /\ pc' = "shutdown"
            /\ UNCHANGED <<kernel, meta, iter, memory, tasks, remain, current, timer>>

-----------------------------------------------------------------------------
\* gen_app_asm.sh with the arguments of each kernel's Makefile.
Metas(k) == [count : 0..MAX_COUNT, step : {IF k = "ch3" THEN 1 ELSE 0},
             bad : IF k = "ch4" THEN SUBSET Ids ELSE {{}}]

Init == /\ kernel \in Kernels
        /\ meta \in Metas(kernel)
        /\ iter = 0
        /\ memory = [i \in Ids |-> None]
        /\ tasks = [i \in Ids |-> NoTask]
        /\ remain = 0
        /\ current = 0
        /\ timer = Never
        /\ pc = "load"

KernelStep == \/ LoadAndRun \/ BatchDone
              \/ LoadTask \/ create_process \/ AllLoaded
              \/ ch3_run \/ ch3_skip \/ ch4_run \/ Shutdown

UserStep == Compute \/ TimerInterrupt \/ ch3_yield \/ ch3_call \/ ch4_call \/ End

Next == KernelStep \/ UserStep

Spec == Init /\ [][Next]_vars

\* What gives the processor back: for ch3 the timer or a yield will do.
GivesBack == IF kernel = "ch3" THEN TimerInterrupt \/ ch3_yield \/ End ELSE End

\* Programs that do not make calls for ever without computing for a whole
\* interval between two of them, yielding or ending: each call restarts the
\* timer.  Under ch2 and ch4, programs that end.
FairSpec == Spec /\ WF_vars(Next) /\ \A i \in Ids : SF_vars(current = i /\ GivesBack)

-----------------------------------------------------------------------------
Unfinished == {i \in Ids : tasks[i].unfinished}

TypeOK == /\ kernel \in Kernels
          /\ meta \in Metas(kernel)
          /\ iter \in 0..meta.count
          /\ memory \in [Ids -> Ids \cup {None}]
          /\ tasks \in [Ids -> [app : Ids \cup {None}, unfinished : BOOLEAN]]
          /\ remain \in 0..Capacity
          /\ current \in Ids \cup {0}
          /\ timer \in {Never} \cup 0..TIMER_INTERVAL
          /\ pc \in {"load", "schedule", "user", "shutdown"}

\* main of ch3 and ch4: the loop runs on exactly while something is to run, so
\* that the machine is switched off only after every program that was loaded
\* has ended, and a program is on the processor only before its end.
StopsWhenDone ==
    /\ kernel \in {"ch3", "ch4"} => remain = Cardinality(Unfinished)
    /\ pc = "user" => current \in Unfinished
    /\ pc = "shutdown" => /\ Unfinished = {}
                          /\ iter = meta.count \/ (kernel # "ch2" /\ iter >= Capacity)

\* apps_next: the processor is in a program's code only while that code is what
\* is in its place, however many programs were copied in since.
RunsItsOwnCode ==
    pc = "user" /\ kernel # "ch4" => memory[Place(tasks[current].app)] = tasks[current].app

\* The programs that have not ended, from the one whose turn it is, in the
\* order of the table; with ch2, the rest of the list.
Before(i, j) == IF kernel = "ch3" THEN (i - current) % task_count < (j - current) % task_count
                ELSE i < j
Ahead(i) == {j \in Unfinished : Before(j, i)}
InTurn == [n \in 1..Cardinality(Unfinished) |->
             CHOOSE i \in Unfinished : Cardinality(Ahead(i)) = n - 1]
Rest   == [i \in 1..(meta.count - iter) |-> iter + i - 1]
Waiting == CASE pc = "load" /\ kernel # "ch2" -> <<>>
             [] kernel = "ch2" -> (IF tasks[0].unfinished THEN <<tasks[0].app>> ELSE <<>>) \o Rest
             [] OTHER -> [i \in DOMAIN InTurn |-> tasks[InTurn[i]].app]

Turns == INSTANCE TurnQueue WITH queue <- Waiting, shares <- kernel = "ch3"

\* main: programs run in the order of the list and are never passed over; with
\* ch3 one that is interrupted or yields is the last to run again, and with the
\* others a program runs until it ends, whatever it calls.
TakesTurns == [][pc # "load" \/ kernel = "ch2" => [Turns!Next]_(Turns!vars)]_vars

\* main, set_next_timer: every program that is loaded gets the processor again
\* and again until it ends.
EveryAppRuns == \A i \in Ids : i \in Unfinished ~> (pc = "user" /\ current = i) \/ i \notin Unfinished
=============================================================================
