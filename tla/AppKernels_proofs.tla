------------------------- MODULE AppKernels_proofs --------------------------
(***************************************************************************)
(* The kernels that programs are linked into, for any number of programs   *)
(* and any capacity: the count their loops run on is right, and the        *)
(* processor is in a program's code only while that code is in its place.  *)
(***************************************************************************)
EXTENDS AppKernels, FiniteSetTheorems, SequenceTheorems, WellFoundedInduction, TLAPS

-----------------------------------------------------------------------------
(* Tables *)

LEMMA SmallestIsOne ==
    ASSUME NEW S, S \subseteq Ids, S # {}
    PROVE  Smallest(S) \in S /\ \A j \in S : Smallest(S) <= j
<1>1. S \subseteq Nat
  BY AppAssumption DEF Ids
<1>2. PICK x \in S : \A y \in S : ~(<<y, x>> \in OpToRel(<, Nat))
  BY <1>1, NatLessThanWellFounded, WFMin, Zenon
<1>3. \A y \in S : ~(y < x)
  BY <1>1, <1>2 DEF OpToRel
<1>4. \A y \in S : x <= y
  BY <1>1, <1>3
<1> QED
  BY <1>4 DEF Smallest

\* A set of slots is finite, and has no more than there are.
LEMMA SlotsFinite ==
    ASSUME NEW S, S \subseteq Ids
    PROVE  /\ IsFiniteSet(S) /\ Cardinality(S) \in Nat /\ Cardinality(S) <= MAX_COUNT
           /\ Cardinality(S) = 0 <=> S = {}
<1>1. IsFiniteSet(Ids) /\ Cardinality(Ids) = MAX_COUNT
  <2>1. /\ 0 \in Int /\ MAX_COUNT - 1 \in Int /\ MAX_COUNT \in Nat
    BY AppAssumption
  <2>2. IsFiniteSet(0..(MAX_COUNT - 1))
    BY <2>1, FS_Interval
  <2>3. Cardinality(0..(MAX_COUNT - 1)) = IF 0 > MAX_COUNT - 1 THEN 0 ELSE (MAX_COUNT - 1) - 0 + 1
    BY <2>1, FS_Interval
  <2> QED
    BY <2>1, <2>2, <2>3 DEF Ids
<1>2. IsFiniteSet(S) /\ Cardinality(S) <= Cardinality(Ids)
  BY <1>1, FS_Subset
<1> QED
  BY <1>1, <1>2, FS_EmptySet, FS_CardinalityType

Task == [app : Ids \cup {None}, unfinished : BOOLEAN]

\* The table with the task in slot i another one.
LEMMA Changed ==
    ASSUME NEW t \in [Ids -> Task], NEW i \in Ids, NEW x \in Task, NEW u,
           u = [t EXCEPT ![i] = x]
    PROVE  /\ u \in [Ids -> Task] /\ u[i] = x
           /\ \A j \in Ids : j # i => u[j] = t[j]
  OBVIOUS

\* As long as a task is left the next one is a slot of the table.
LEMMA NextTask ==
    ASSUME tasks \in [Ids -> Task], Unfinished # {}, NEW i \in Nat
    PROVE  next_task(i) \in Ids
<1> DEFINE S == {j \in DOMAIN tasks : tasks[j] # NoTask}
<1>1. S \subseteq Ids /\ S # {}
  BY DEF Unfinished, NoTask, Task
<1>2. task_count \in Nat /\ task_count # 0 /\ task_count <= MAX_COUNT
  BY <1>1, SlotsFinite DEF task_count
<1>3. (i + 1) % task_count \in 0..(task_count - 1)
  BY <1>2
<1> QED
  BY <1>2, <1>3, AppAssumption DEF next_task, Ids

-----------------------------------------------------------------------------
(* The invariant *)

\* How many are to run, by where the kernel is.
Counted ==
    /\ kernel \in {"ch3", "ch4"} => remain = Cardinality(Unfinished)
    /\ kernel = "ch2" => remain = 0 /\ Unfinished \subseteq {0} /\ (pc # "user" => Unfinished = {})
    /\ pc = "user" => current \in Unfinished
    /\ pc = "shutdown" => Unfinished = {}

\* Programs are loaded from the front of the list into the front of the table,
\* until there is no more of one of them.
Loading ==
    /\ pc = "load" /\ kernel # "ch2"
           => /\ remain <= iter
              /\ \A j \in Ids : j >= remain => tasks[j] = NoTask
    /\ pc \in {"schedule", "user", "shutdown"} /\ kernel # "ch2"
           => iter = meta.count \/ iter >= Capacity
    /\ kernel = "ch2" => /\ pc # "schedule"
                         /\ pc = "shutdown" => iter = meta.count

\* A program that is to run is one that was loaded; ch3's are all in memory,
\* ch2's is the last one copied.
InPlace ==
    /\ \A j \in Ids : tasks[j].unfinished => tasks[j].app \in Ids /\ tasks[j].app < iter
    /\ kernel = "ch3" => \A j \in Ids : tasks[j].unfinished => memory[tasks[j].app] = tasks[j].app
    /\ kernel = "ch2" => \A j \in Ids : tasks[j].unfinished => memory[0] = tasks[j].app

AppInv == TypeOK /\ Counted /\ Loading /\ InPlace

LEMMA TaskTable == TypeOK => tasks \in [Ids -> Task]
  BY DEF TypeOK, Task

\* What the list is.
LEMMA List ==
    ASSUME TypeOK
    PROVE  /\ kernel \in {"ch2", "ch3", "ch4"}
           /\ meta.count \in Nat /\ meta.count <= MAX_COUNT
           /\ kernel = "ch3" => meta.step = 1
           /\ kernel = "ch2" => meta.step = 0
           /\ iter \in Nat /\ iter <= meta.count
           /\ HasNext => iter \in Ids
  BY AppAssumption DEF TypeOK, Metas, HasNext, Ids

LEMMA InitAppInv == Init => AppInv
<1> SUFFICES ASSUME Init PROVE AppInv
  OBVIOUS
<1>1. tasks = [i \in Ids |-> NoTask] /\ Unfinished = {}
  BY DEF Init, Unfinished, NoTask
<1>2. TypeOK
  <2>1. meta.count \in Nat
    BY AppAssumption DEF Init, Metas
  <2>2. Capacity \in Nat
    BY AppAssumption DEF Capacity
  <2> QED
    BY <1>1, <2>1, <2>2, AppAssumption DEF Init, TypeOK, NoTask
<1>3. Cardinality(Unfinished) = 0
  BY <1>1, SlotsFinite
<1> QED
  BY <1>1, <1>2, <1>3 DEF Init, AppInv, Counted, Loading, InPlace, NoTask

-----------------------------------------------------------------------------
(* A step at a time *)

\* One more task.
LEMMA OneMore ==
    ASSUME TypeOK, NEW i \in Ids, NEW app \in Ids, ~tasks[i].unfinished,
           tasks' = [tasks EXCEPT ![i] = [app |-> app, unfinished |-> TRUE]]
    PROVE  /\ tasks' \in [Ids -> Task]
           /\ tasks'[i] = [app |-> app, unfinished |-> TRUE]
           /\ \A j \in Ids : j # i => tasks'[j] = tasks[j]
           /\ Unfinished' = Unfinished \cup {i}
           /\ Cardinality(Unfinished') = Cardinality(Unfinished) + 1
<1>1. /\ tasks' \in [Ids -> Task] /\ tasks'[i] = [app |-> app, unfinished |-> TRUE]
      /\ \A j \in Ids : j # i => tasks'[j] = tasks[j]
  BY TaskTable, Changed DEF Task
<1>2. Unfinished' = Unfinished \cup {i}
  BY <1>1 DEF Unfinished
<1>3. i \notin Unfinished /\ Unfinished \subseteq Ids
  BY DEF Unfinished
<1>4. IsFiniteSet(Unfinished)
  BY <1>3, SlotsFinite
<1>5. Cardinality(Unfinished \cup {i}) = Cardinality(Unfinished) + 1
  BY <1>3, <1>4, FS_AddElement
<1> QED
  BY <1>1, <1>2, <1>5

\* One task less.
LEMMA OneLess ==
    ASSUME TypeOK, NEW i \in Unfinished, tasks' = [tasks EXCEPT ![i].unfinished = FALSE]
    PROVE  /\ tasks' \in [Ids -> Task]
           /\ \A j \in Ids : /\ tasks'[j].app = tasks[j].app
                             /\ tasks'[j].unfinished => tasks[j].unfinished
           /\ Unfinished' = Unfinished \ {i}
           /\ Cardinality(Unfinished) \in Nat /\ Cardinality(Unfinished) >= 1
           /\ Cardinality(Unfinished') = Cardinality(Unfinished) - 1
<1>1. i \in Ids /\ tasks[i] \in Task /\ tasks \in [Ids -> Task]
  BY TaskTable DEF Unfinished
<1>2. PICK x : x = [tasks[i] EXCEPT !.unfinished = FALSE]
  OBVIOUS
<1>3. x \in Task /\ x.app = tasks[i].app /\ x.unfinished = FALSE
  BY <1>1, <1>2 DEF Task
<1>4. /\ tasks' \in [Ids -> Task] /\ tasks'[i] = x
      /\ \A j \in Ids : j # i => tasks'[j] = tasks[j]
  BY <1>1, <1>2, <1>3
<1>5. Unfinished' = Unfinished \ {i}
  BY <1>3, <1>4 DEF Unfinished
<1>6. IsFiniteSet(Unfinished) /\ Cardinality(Unfinished) \in Nat /\ Cardinality(Unfinished) # 0
  BY SlotsFinite DEF Unfinished
<1>7. Cardinality(Unfinished \ {i}) = Cardinality(Unfinished) - 1
  BY <1>6, FS_RemoveElement
<1> QED
  BY <1>3, <1>4, <1>5, <1>6, <1>7

LEMMA LoadAndRunInv == AppInv /\ LoadAndRun => AppInv'
<1> SUFFICES ASSUME AppInv, LoadAndRun PROVE AppInv'
  OBVIOUS
<1>0. TypeOK
  BY DEF AppInv
<1>1. /\ kernel = "ch2" /\ pc = "load" /\ iter < meta.count /\ iter \in Ids /\ iter \in Nat
      /\ iter' = iter + 1 /\ current' = 0 /\ pc' = "user"
      /\ tasks' = [tasks EXCEPT ![0] = [app |-> iter, unfinished |-> TRUE]]
      /\ UNCHANGED <<kernel, meta, remain, timer>>
      /\ meta.step = 0 /\ meta.count \in Nat
      /\ Unfinished = {}
  BY <1>0, List DEF AppInv, Counted, LoadAndRun, HasNext
<1>2. 0 \in Ids
  BY <1>1, AppAssumption DEF Ids
<1>3. ~tasks[0].unfinished
  BY <1>1, <1>2 DEF Unfinished
<1>4. /\ tasks' \in [Ids -> Task] /\ tasks'[0] = [app |-> iter, unfinished |-> TRUE]
      /\ \A j \in Ids : j # 0 => tasks'[j] = tasks[j]
      /\ Unfinished' = {0}
  BY <1>0, <1>1, <1>2, <1>3, OneMore
<1>5. memory' = [memory EXCEPT ![0] = iter]
  <2>1. Place(iter) = 0
    BY <1>1 DEF Place
  <2> QED
    BY <1>1, <2>1 DEF LoadAndRun, copied
<1>6. TypeOK'
  BY <1>0, <1>1, <1>2, <1>4, <1>5 DEF TypeOK, Task, Metas, Capacity
<1>7. Counted'
  BY <1>1, <1>4 DEF AppInv, Counted
<1>8. Loading'
  BY <1>1 DEF Loading
<1>9. InPlace'
  <2>1. memory'[0] = iter
    BY <1>0, <1>2, <1>5 DEF TypeOK
  <2>2. \A j \in Ids : tasks'[j].unfinished => j = 0
    BY <1>4 DEF Unfinished
  <2> QED
    BY <1>1, <1>4, <2>1, <2>2 DEF InPlace
<1> QED
  BY <1>6, <1>7, <1>8, <1>9 DEF AppInv

LEMMA LoadTaskInv == AppInv /\ (LoadTask \/ create_process) => AppInv'
<1> SUFFICES ASSUME AppInv, LoadTask \/ create_process PROVE AppInv'
  OBVIOUS
<1>0. TypeOK
  BY DEF AppInv
<1>1. /\ kernel \in {"ch3", "ch4"} /\ pc = "load" /\ remain < Capacity
      /\ iter < meta.count /\ iter \in Ids /\ iter \in Nat /\ meta.count \in Nat
      /\ meta.count <= MAX_COUNT
      /\ iter' = iter + 1 /\ UNCHANGED <<kernel, meta, current, timer, pc>>
  BY <1>0, List DEF LoadTask, create_process, HasNext
<1>2. /\ remain = Cardinality(Unfinished) /\ remain \in Nat /\ Capacity \in Nat
      /\ remain <= iter /\ \A j \in Ids : j >= remain => tasks[j] = NoTask
  BY <1>0, <1>1, AppAssumption DEF AppInv, Counted, Loading, TypeOK, Capacity
<1>3. CASE /\ tasks' = [tasks EXCEPT ![remain] = [app |-> iter, unfinished |-> TRUE]]
           /\ remain' = remain + 1
           /\ memory' = IF kernel = "ch3" THEN [memory EXCEPT ![iter] = iter] ELSE memory
  <2>1. remain \in Ids /\ ~tasks[remain].unfinished
    BY <1>1, <1>2, AppAssumption DEF Ids, NoTask
  <2>2. /\ tasks' \in [Ids -> Task] /\ tasks'[remain] = [app |-> iter, unfinished |-> TRUE]
        /\ \A j \in Ids : j # remain => tasks'[j] = tasks[j]
        /\ Unfinished' = Unfinished \cup {remain}
        /\ Cardinality(Unfinished') = Cardinality(Unfinished) + 1
    BY <1>0, <1>1, <1>3, <2>1, OneMore
  <2>3. TypeOK'
    <3>1. memory' \in [Ids -> Ids \cup {None}]
      BY <1>0, <1>1, <1>3 DEF TypeOK
    <3>2. remain' \in 0..Capacity' /\ iter' \in 0..meta'.count
      BY <1>1, <1>2, <1>3 DEF Capacity
    <3> QED
      BY <1>0, <1>1, <2>2, <3>1, <3>2 DEF TypeOK, Task, Metas
  <2>4. Counted'
    BY <1>1, <1>2, <1>3, <2>2 DEF Counted
  <2>5. Loading'
    <3>1. remain' <= iter'
      BY <1>1, <1>2, <1>3
    <3>2. ASSUME NEW j \in Ids, j >= remain' PROVE tasks'[j] = NoTask
      <4>1. j \in Int /\ j >= remain /\ j # remain
        BY <1>2, <1>3, <3>2, AppAssumption DEF Ids
      <4> QED
        BY <1>2, <2>2, <4>1
    <3> QED
      BY <1>1, <3>1, <3>2 DEF Loading
  <2>6. InPlace'
    <3>1. ASSUME NEW j \in Ids, tasks'[j].unfinished
          PROVE  /\ tasks'[j].app \in Ids /\ tasks'[j].app < iter'
                 /\ kernel = "ch3" => memory'[tasks'[j].app] = tasks'[j].app
      <4>1. CASE j = remain
        BY <1>0, <1>1, <1>3, <2>2, <4>1 DEF TypeOK
      <4>2. CASE j # remain
        <5>1. tasks'[j] = tasks[j]
          BY <2>2, <4>2
        <5>2. PICK a \in Ids : a = tasks[j].app
          BY <3>1, <5>1 DEF AppInv, InPlace
        <5>3. a < iter /\ (kernel = "ch3" => memory[a] = a)
          BY <3>1, <5>1, <5>2 DEF AppInv, InPlace
        <5>4. a \in Int
          BY <5>2, AppAssumption DEF Ids
        <5>5. a # iter /\ a < iter + 1
          BY <1>1, <5>3, <5>4
        <5>6. kernel = "ch3" => memory'[a] = a
          BY <1>0, <1>3, <5>3, <5>5 DEF TypeOK
        <5>7. tasks'[j].app = a /\ a < iter'
          BY <1>1, <5>1, <5>2, <5>5
        <5> QED
          BY <5>2, <5>6, <5>7
      <4> QED
        BY <4>1, <4>2
    <3> QED
      BY <1>1, <3>1 DEF InPlace
  <2> QED
    BY <2>3, <2>4, <2>5, <2>6 DEF AppInv
<1>4. CASE UNCHANGED <<tasks, remain, memory>>
  <2>1. TypeOK'
    BY <1>0, <1>1, <1>4 DEF TypeOK, Metas, Capacity
  <2>2. Counted'
    BY <1>1, <1>4 DEF AppInv, Counted, Unfinished
  <2>3. Loading'
    BY <1>1, <1>2, <1>4 DEF Loading
  <2>4. InPlace'
    <3>1. ASSUME NEW j \in Ids, tasks[j].unfinished
          PROVE  tasks[j].app \in Ids /\ tasks[j].app < iter + 1
      BY <1>1, <3>1, AppAssumption DEF AppInv, InPlace, Ids
    <3> QED
      BY <1>1, <1>4, <3>1 DEF AppInv, InPlace
  <2> QED
    BY <2>1, <2>2, <2>3, <2>4 DEF AppInv
<1>5. CASE LoadTask
  <2>1. meta.step = 1
    BY <1>0, <1>5, List DEF LoadTask
  <2>2. Place(iter) = iter
    BY <1>1, <2>1 DEF Place
  <2> QED
    BY <1>1, <1>3, <1>5, <2>2 DEF LoadTask, copied
<1>6. CASE create_process
  BY <1>3, <1>4, <1>6 DEF create_process
<1> QED
  BY <1>5, <1>6

\* Actions that only move pc, current and the timer, to places that fit.
LEMMA MovesInv ==
    ASSUME AppInv, UNCHANGED <<kernel, meta, iter, memory, tasks, remain>>,
           current' \in Ids \cup {0}, timer' \in {Never} \cup 0..TIMER_INTERVAL,
           pc' \in {"load", "schedule", "user", "shutdown"},
           pc' = "user" => current' \in Unfinished,
           pc' = "shutdown" => Unfinished = {} /\ (kernel = "ch2" => iter = meta.count),
           pc' = "load" => pc = "load",
           pc' # "load" /\ kernel # "ch2" => iter = meta.count \/ iter >= Capacity,
           kernel = "ch2" => pc' # "schedule" /\ pc # "user"
    PROVE  AppInv'
<1>1. TypeOK'
  BY DEF AppInv, TypeOK, Metas, Capacity
<1>2. Unfinished' = Unfinished /\ Capacity' = Capacity
  BY DEF Unfinished, Capacity
<1>3. Counted'
  BY <1>2 DEF AppInv, Counted
<1>4. Loading'
  BY <1>2 DEF AppInv, Loading
<1>5. InPlace'
  BY DEF AppInv, InPlace
<1> QED
  BY <1>1, <1>3, <1>4, <1>5 DEF AppInv

\* The loop runs on only while the table has a task to run.
LEMMA SomeoneLeft ==
    ASSUME AppInv, kernel \in {"ch3", "ch4"}
    PROVE  /\ remain = 0 <=> Unfinished = {}
           /\ pc # "load" => iter = meta.count \/ iter >= Capacity
           /\ Unfinished # {} => current \in Ids
<1>1. Unfinished \subseteq Ids /\ remain = Cardinality(Unfinished)
  BY DEF AppInv, Counted, Unfinished
<1>2. pc # "load" => iter = meta.count \/ iter >= Capacity
  BY DEF AppInv, Loading, TypeOK
<1>3. ASSUME Unfinished # {} PROVE current \in Ids
  <2>1. PICK i \in Ids : TRUE
    BY <1>1, <1>3
  <2>2. 0 \in Ids
    BY <2>1, AppAssumption DEF Ids
  <2> QED
    BY <2>2 DEF AppInv, TypeOK
<1> QED
  BY <1>1, <1>2, <1>3, SlotsFinite

LEMMA TimerValues == {Never, TIMER_INTERVAL} \subseteq {Never} \cup 0..TIMER_INTERVAL
  BY AppAssumption

LEMMA ScheduleInv ==
    AppInv /\ (BatchDone \/ AllLoaded \/ ch3_run \/ ch3_skip \/ ch4_run \/ Shutdown) => AppInv'
<1> SUFFICES ASSUME AppInv, BatchDone \/ AllLoaded \/ ch3_run \/ ch3_skip \/ ch4_run \/ Shutdown
             PROVE  AppInv'
  OBVIOUS
<1>0. TypeOK /\ tasks \in [Ids -> Task] /\ timer \in {Never} \cup 0..TIMER_INTERVAL
      /\ current \in Ids \cup {0}
  BY TaskTable DEF AppInv, TypeOK
<1>1. CASE BatchDone
  <2>1. iter = meta.count /\ Unfinished = {}
    BY <1>0, <1>1, List DEF AppInv, Counted, BatchDone, HasNext
  <2> QED
    BY <1>0, <1>1, <2>1, MovesInv DEF BatchDone
<1>2. CASE AllLoaded
  <2>1. iter = meta.count \/ iter >= Capacity
    <3>1. remain \in Int /\ Capacity \in Int /\ remain <= iter
      BY <1>0, <1>2, AppAssumption DEF AppInv, TypeOK, Loading, AllLoaded, Capacity
    <3> QED
      BY <1>0, <1>2, <3>1, List DEF AllLoaded, HasNext
  <2> QED
    BY <1>0, <1>2, <2>1, MovesInv DEF AllLoaded
<1>3. CASE ch3_run
  <2>1. current \in Unfinished
    BY <1>0, <1>3, SomeoneLeft DEF ch3_run, Unfinished
  <2> QED
    BY <1>0, <1>3, <2>1, MovesInv, SomeoneLeft, TimerValues DEF ch3_run
<1>4. CASE ch3_skip
  <2>1. Unfinished # {} /\ current \in Ids
    BY <1>4, SomeoneLeft DEF ch3_skip, AppInv, TypeOK
  <2>2. current' \in Ids
    BY <1>0, <1>4, <2>1, NextTask, AppAssumption DEF ch3_skip, Ids
  <2> QED
    BY <1>0, <1>4, <2>2, MovesInv, SomeoneLeft DEF ch3_skip
<1>5. CASE ch4_run
  <2>1. Unfinished \subseteq Ids /\ Unfinished # {}
    BY <1>5 DEF ch4_run, Unfinished
  <2>2. current' \in Unfinished
    BY <1>5, <2>1, SmallestIsOne DEF ch4_run, first_valid, Unfinished
  <2> QED
    BY <1>0, <1>5, <2>1, <2>2, MovesInv, SomeoneLeft DEF ch4_run
<1>6. CASE Shutdown
  BY <1>0, <1>6, MovesInv, SomeoneLeft DEF Shutdown
<1> QED
  BY <1>1, <1>2, <1>3, <1>4, <1>5, <1>6

LEMMA UserInv ==
    AppInv /\ (Compute \/ TimerInterrupt \/ ch3_yield \/ ch3_call \/ ch4_call) => AppInv'
<1> SUFFICES ASSUME AppInv, Compute \/ TimerInterrupt \/ ch3_yield \/ ch3_call \/ ch4_call
             PROVE  AppInv'
  OBVIOUS
<1>0. /\ TypeOK /\ tasks \in [Ids -> Task] /\ timer \in {Never} \cup 0..TIMER_INTERVAL
      /\ pc = "user" /\ kernel \in {"ch3", "ch4"}
      /\ current \in Unfinished /\ current \in Ids /\ current \in Nat
  <2>1. pc = "user" /\ kernel \in {"ch3", "ch4"}
    BY DEF Compute, TimerInterrupt, ch3_yield, ch3_call, ch4_call
  <2> QED
    BY <2>1, TaskTable, AppAssumption DEF AppInv, TypeOK, Counted, Unfinished, Ids
<1>1. next_task(current) \in Ids
  BY <1>0, NextTask
<1>2. CASE Compute
  <2>1. timer' \in 0..TIMER_INTERVAL
    BY <1>0, <1>2, AppAssumption DEF Compute, Never
  <2> QED
    BY <1>0, <1>2, <2>1, MovesInv, SomeoneLeft DEF Compute
<1>3. CASE TimerInterrupt \/ ch3_yield
  BY <1>0, <1>1, <1>3, MovesInv, SomeoneLeft, TimerValues DEF TimerInterrupt, ch3_yield
<1>4. CASE ch3_call \/ ch4_call
  BY <1>0, <1>4, MovesInv, SomeoneLeft DEF ch3_call, ch4_call
<1> QED
  BY <1>2, <1>3, <1>4

LEMMA EndInv == AppInv /\ End => AppInv'
<1> SUFFICES ASSUME AppInv, End PROVE AppInv'
  OBVIOUS
<1>0. /\ TypeOK /\ pc = "user" /\ current \in Unfinished /\ current \in Ids /\ current \in Nat
      /\ tasks \in [Ids -> Task] /\ Capacity \in Nat
      /\ UNCHANGED <<kernel, meta, iter, memory, timer>>
  BY TaskTable, AppAssumption DEF AppInv, TypeOK, Counted, Unfinished, Ids, End, Capacity
<1>1. /\ tasks' \in [Ids -> Task]
      /\ \A j \in Ids : /\ tasks'[j].app = tasks[j].app
                        /\ tasks'[j].unfinished => tasks[j].unfinished
      /\ Unfinished' = Unfinished \ {current}
      /\ Cardinality(Unfinished) \in Nat /\ Cardinality(Unfinished) >= 1
      /\ Cardinality(Unfinished') = Cardinality(Unfinished) - 1
  BY <1>0, OneLess DEF End
<1>2. /\ current' \in Ids
      /\ pc' = IF kernel = "ch2" THEN "load" ELSE "schedule"
      /\ remain' = IF kernel = "ch2" THEN remain ELSE remain - 1
  BY <1>0, NextTask DEF End
<1>3. kernel \in {"ch2", "ch3", "ch4"}
  BY <1>0, List
<1>4. Counted'
  BY <1>0, <1>1, <1>2, <1>3 DEF AppInv, Counted
<1>5. TypeOK'
  <2>1. remain' \in 0..Capacity'
    BY <1>0, <1>1, <1>2, <1>3 DEF AppInv, Counted, TypeOK, Capacity
  <2> QED
    BY <1>0, <1>1, <1>2, <2>1 DEF TypeOK, Task, Metas
<1>6. Loading'
  BY <1>0, <1>2 DEF AppInv, Loading, Capacity
<1>7. InPlace'
  BY <1>0, <1>1 DEF AppInv, InPlace
<1> QED
  BY <1>4, <1>5, <1>6, <1>7 DEF AppInv

LEMMA NextAppInv == AppInv /\ [Next]_vars => AppInv'
<1>1. AppInv /\ UNCHANGED vars => AppInv'
  BY DEF vars, AppInv, TypeOK, Metas, Capacity, Counted, Unfinished, Loading, InPlace
<1> QED
  BY <1>1, LoadAndRunInv, LoadTaskInv, ScheduleInv, UserInv, EndInv DEF Next, KernelStep, UserStep

-----------------------------------------------------------------------------
\* main of ch2, ch3 and ch4, for any number of programs: the count, the part of
\* the list that is loaded and the code in its place, in every state.
THEOREM AppInvariant == Spec => []AppInv
  BY InitAppInv, NextAppInv, PTL DEF Spec

\* Every state of the three kernels has the shape that main relies on.
THEOREM AppTypeOK == Spec => []TypeOK
<1>1. AppInv => TypeOK
  BY DEF AppInv
<1> QED
  BY <1>1, AppInvariant, PTL

\* main of ch3 and ch4: with any number of programs the count the loop runs on
\* is the number of those that have not ended, so the machine is switched off
\* after the last one and not before.
THEOREM LoopStopsWhenDone == Spec => []StopsWhenDone
<1>1. AppInv => StopsWhenDone
  <2> SUFFICES ASSUME AppInv PROVE StopsWhenDone
    OBVIOUS
  <2>1. kernel \in {"ch2", "ch3", "ch4"}
    BY List DEF AppInv
  <2> QED
    BY <2>1 DEF AppInv, Counted, Loading, StopsWhenDone
<1> QED
  BY <1>1, AppInvariant, PTL

\* apps_next: with any number of programs what runs is in its place, whether
\* all share it (ch2) or each has its own (ch3).
THEOREM CodeInPlace == Spec => []RunsItsOwnCode
<1>1. AppInv => RunsItsOwnCode
  <2> SUFFICES ASSUME AppInv, pc = "user", kernel # "ch4"
               PROVE  memory[Place(tasks[current].app)] = tasks[current].app
    BY DEF RunsItsOwnCode
  <2>1. /\ current \in Ids /\ tasks[current].unfinished
        /\ kernel \in {"ch2", "ch3", "ch4"}
        /\ kernel = "ch3" => meta.step = 1
        /\ kernel = "ch2" => meta.step = 0
    BY List DEF AppInv, Counted, Unfinished
  <2>2. PICK a \in Int : a = tasks[current].app
    BY <2>1, AppAssumption DEF AppInv, InPlace, Ids
  <2>3. Place(a) = IF kernel = "ch3" THEN a ELSE 0
    BY <2>1, <2>2 DEF Place
  <2> QED
    BY <2>1, <2>2, <2>3 DEF AppInv, InPlace
<1> QED
  BY <1>1, AppInvariant, PTL

-----------------------------------------------------------------------------
(* Slots in order *)

\* How many slots of U come before slot i, and all of them in that order.
Below(U, d, i) == {j \in U : d[j] < d[i]}
Ordered(U, d)  == [n \in 1..Cardinality(U) |-> CHOOSE i \in U : Cardinality(Below(U, d, i)) = n - 1]

\* No two are at the same distance.
Apart(U, d) == /\ U \subseteq Ids
               /\ \A i \in U : d[i] \in Int
               /\ \A i, j \in U : d[i] = d[j] => i = j

\* Each slot has a place of its own, and each place a slot.
LEMMA Places ==
    ASSUME NEW U, NEW d, Apart(U, d), NEW N, N = Cardinality(U)
    PROVE  /\ N \in Nat
           /\ \A i \in U : /\ IsFiniteSet(Below(U, d, i))
                           /\ Cardinality(Below(U, d, i)) \in 0..(N - 1)
           /\ \A i, j \in U : Cardinality(Below(U, d, i)) = Cardinality(Below(U, d, j)) => i = j
           /\ \A n \in 0..(N - 1) : \E i \in U : Cardinality(Below(U, d, i)) = n
<1>1. IsFiniteSet(U) /\ N \in Nat /\ \A i \in U : d[i] \in Int
  BY SlotsFinite DEF Apart
<1>2. PICK r : r = [i \in U |-> Cardinality(Below(U, d, i))]
  OBVIOUS
<1>3. ASSUME NEW i \in U
      PROVE  IsFiniteSet(Below(U, d, i)) /\ r[i] \in 0..(N - 1)
  <2>1. Below(U, d, i) \in SUBSET U /\ Below(U, d, i) # U
    BY <1>1 DEF Below
  <2>2. /\ IsFiniteSet(Below(U, d, i)) /\ Cardinality(Below(U, d, i)) <= N
        /\ Cardinality(Below(U, d, i)) # N /\ Cardinality(Below(U, d, i)) \in Nat
    BY <1>1, <2>1, FS_Subset, FS_CardinalityType
  <2> QED
    BY <1>1, <1>2, <2>2
<1>4. ASSUME NEW i \in U, NEW j \in U, d[i] < d[j]
      PROVE  r[i] < r[j]
  <2>1. Below(U, d, i) \in SUBSET Below(U, d, j) /\ Below(U, d, i) # Below(U, d, j)
    BY <1>1, <1>4 DEF Below
  <2>2. r[i] <= r[j] /\ r[i] # r[j]
    BY <1>2, <1>3, <2>1, FS_Subset
  <2> QED
    BY <1>3, <2>2
<1>5. ASSUME NEW i \in U, NEW j \in U, r[i] = r[j] PROVE i = j
  <2>1. ~(d[i] < d[j]) /\ ~(d[j] < d[i])
    BY <1>3, <1>4, <1>5
  <2> QED
    BY <1>1, <2>1 DEF Apart
<1>6. PICK T : T = 0..(N - 1)
  OBVIOUS
<1>7. IsFiniteSet(T) /\ Cardinality(T) = N
  <2>1. 0 \in Int /\ N - 1 \in Int
    BY <1>1
  <2>2. IsFiniteSet(T) /\ Cardinality(T) = IF 0 > N - 1 THEN 0 ELSE (N - 1) - 0 + 1
    BY <1>6, <2>1, FS_Interval
  <2> QED
    BY <1>1, <2>2
<1>8. r \in Injection(U, T)
  BY <1>2, <1>3, <1>5, <1>6 DEF Injection, IsInjective
<1>9. r \in Surjection(U, T)
  BY <1>7, <1>8, FS_Injection
<1>10. \A n \in T : \E i \in U : r[i] = n
  BY <1>9 DEF Surjection
<1> QED
  BY <1>1, <1>2, <1>3, <1>5, <1>6, <1>10

LEMMA OrderedIs ==
    ASSUME NEW U, NEW d, Apart(U, d), NEW N, N = Cardinality(U), NEW q, q = Ordered(U, d)
    PROVE  /\ q \in [1..N -> U]
           /\ \A n \in 1..N : Cardinality(Below(U, d, q[n])) = n - 1
           /\ \A n \in 1..N : \A i \in U : Cardinality(Below(U, d, i)) = n - 1 => q[n] = i
<1>1. ASSUME NEW n \in 1..N
      PROVE  q[n] \in U /\ Cardinality(Below(U, d, q[n])) = n - 1
  <2>1. n - 1 \in 0..(N - 1)
    BY Places
  <2>2. \E i \in U : Cardinality(Below(U, d, i)) = n - 1
    BY <2>1, Places
  <2>3. q[n] = CHOOSE i \in U : Cardinality(Below(U, d, i)) = n - 1
    BY DEF Ordered
  <2> QED
    BY <2>2, <2>3
<1>2. q \in [1..N -> U]
  BY <1>1 DEF Ordered
<1>3. ASSUME NEW n \in 1..N, NEW i \in U, Cardinality(Below(U, d, i)) = n - 1 PROVE q[n] = i
  BY <1>1, <1>3, Places
<1> QED
  BY <1>1, <1>2, <1>3

\* The same order by other distances.
LEMMA OrderedSame ==
    ASSUME NEW U, NEW d, NEW e, \A i, j \in U : d[i] < d[j] <=> e[i] < e[j]
    PROVE  Ordered(U, e) = Ordered(U, d)
<1>1. \A i \in U : Below(U, e, i) = Below(U, d, i)
  BY DEF Below
<1> QED
  BY <1>1 DEF Ordered

\* The slot at the front leaves (V is U without it) or is the last by the new
\* distances; the others keep their order.
Goes(U, d, V, e, h) ==
    /\ Apart(U, d) /\ Apart(V, e) /\ h \in U
    /\ V = U \ {h} \/ V = U
    /\ \A i \in U : d[h] <= d[i]
    /\ \A i, j \in U \ {h} : d[i] < d[j] <=> e[i] < e[j]
    /\ V = U => \A i \in U \ {h} : e[i] < e[h]

\* What that does to the sequence of the slots.
LEMMA FrontGoes ==
    ASSUME NEW U, NEW d, NEW V, NEW e, NEW h, Goes(U, d, V, e, h),
           NEW q, q = Ordered(U, d), NEW r, r = Ordered(V, e)
    PROVE  /\ q \in Seq(U) /\ q # <<>>
           /\ V = U \ {h} => r = Tail(q)
           /\ V = U => r = Append(Tail(q), Head(q))
<1>1. PICK N, M : N = Cardinality(U) /\ M = Cardinality(V)
  OBVIOUS
<1> USE DEF Goes
<1>2. IsFiniteSet(U) /\ N \in Nat /\ N # 0 /\ U \subseteq Ids /\ \A i \in U : d[i] \in Int
  BY <1>1, SlotsFinite DEF Apart
<1>3. M = IF V = U THEN N ELSE N - 1
  BY <1>1, <1>2, FS_RemoveElement
<1>4. /\ q \in [1..N -> U]
      /\ \A n \in 1..N : Cardinality(Below(U, d, q[n])) = n - 1
      /\ \A n \in 1..N : \A i \in U : Cardinality(Below(U, d, i)) = n - 1 => q[n] = i
  BY <1>1, OrderedIs
<1>5. /\ r \in [1..M -> V]
      /\ \A n \in 1..M : \A i \in V : Cardinality(Below(V, e, i)) = n - 1 => r[n] = i
  BY <1>1, OrderedIs
<1>6. q \in Seq(U) /\ Len(q) = N /\ q # <<>>
  BY <1>2, <1>4
<1>7. q[1] = h
  <2>1. Below(U, d, h) = {}
    BY <1>2 DEF Below
  <2>2. Cardinality(Below(U, d, h)) = 1 - 1
    BY <2>1, FS_EmptySet
  <2> QED
    BY <1>2, <1>4, <2>2
<1>8. ASSUME NEW i \in U \ {h}
      PROVE  Cardinality(Below(V, e, i)) = Cardinality(Below(U, d, i)) - 1
  <2>1. d[h] < d[i]
    BY <1>2, <1>8 DEF Apart
  <2>2. Below(V, e, i) = Below(U, d, i) \ {h}
    <3>1. ASSUME NEW j \in U \ {h} PROVE j \in Below(V, e, i) <=> j \in Below(U, d, i)
      BY <1>8, <3>1 DEF Below
    <3>2. h \notin Below(V, e, i)
      <4>1. CASE V = U
        <5>1. e[i] < e[h] /\ e[i] \in Int /\ e[h] \in Int
          BY <1>8, <4>1 DEF Apart
        <5> QED
          BY <5>1 DEF Below
      <4>2. CASE V = U \ {h}
        BY <4>2 DEF Below
      <4> QED
        BY <4>1, <4>2
    <3>3. Below(V, e, i) \subseteq U /\ Below(U, d, i) \subseteq U
      BY DEF Below
    <3> QED
      BY <3>1, <3>2, <3>3
  <2>3. h \in Below(U, d, i) /\ IsFiniteSet(Below(U, d, i))
    BY <1>1, <2>1, Places DEF Below
  <2> QED
    BY <2>2, <2>3, FS_RemoveElement
<1>9. ASSUME NEW n \in 1..(N - 1) PROVE r[n] = q[n + 1]
  <2>1. n + 1 \in 1..N /\ n \in 1..M /\ n \in Int
    BY <1>2, <1>3
  <2>2. PICK i \in U : i = q[n + 1] /\ Cardinality(Below(U, d, i)) = n
    BY <1>4, <2>1
  <2>3. i # h
    <3>1. Cardinality(Below(U, d, h)) = 1 - 1
      BY <1>2, <1>4, <1>7
    <3> QED
      BY <2>1, <2>2, <3>1
  <2>4. Cardinality(Below(V, e, i)) = n - 1 /\ i \in V
    BY <1>8, <2>2, <2>3
  <2> QED
    BY <1>5, <2>1, <2>2, <2>4
<1>10. /\ Tail(q) \in Seq(U) /\ Len(Tail(q)) = N - 1
       /\ \A n \in 1..(N - 1) : Tail(q)[n] = q[n + 1]
       /\ Head(q) = h
  BY <1>2, <1>4, <1>6, <1>7
<1>11. ASSUME V = U \ {h} PROVE r = Tail(q)
  <2>1. V # U
    BY <1>11
  <2>2. M = N - 1 /\ N - 1 \in Nat /\ V \subseteq U
    BY <1>2, <1>3, <1>11, <2>1
  <2>3. r \in [1..(N - 1) -> U]
    BY <1>5, <2>2
  <2>4. r \in Seq(U) /\ Len(r) = N - 1
    BY <2>2, <2>3
  <2> QED
    BY <1>9, <1>10, <2>4, SeqEqual
<1>12. ASSUME V = U PROVE r = Append(Tail(q), Head(q))
  <2>1. M = N
    BY <1>3, <1>12
  <2>2. r[N] = h
    <3>1. Below(V, e, h) = U \ {h}
      <4>1. ASSUME NEW j \in U PROVE j \in Below(V, e, h) <=> j # h
        <5>1. e[h] \in Int
          BY <1>12 DEF Apart
        <5>2. j # h => e[j] < e[h]
          BY <1>12
        <5> QED
          BY <1>12, <5>1, <5>2 DEF Below
      <4> QED
        BY <1>12, <4>1 DEF Below
    <3>2. Cardinality(Below(V, e, h)) = N - 1
      BY <1>1, <1>2, <3>1, FS_RemoveElement
    <3> QED
      BY <1>2, <1>5, <1>12, <2>1, <3>2
  <2>3. PICK s : s = Append(Tail(q), Head(q))
    OBVIOUS
  <2>4. N - 1 \in Nat /\ N \in Nat
    BY <1>2
  <2>5. /\ s \in Seq(U) /\ Len(s) = Len(Tail(q)) + 1 /\ s[Len(Tail(q)) + 1] = h
        /\ \A n \in 1..Len(Tail(q)) : s[n] = Tail(q)[n]
    BY <1>10, <2>3, AppendProperties
  <2>6. Len(s) = N /\ s[N] = h /\ \A n \in 1..(N - 1) : s[n] = Tail(q)[n]
    BY <1>10, <2>4, <2>5
  <2>7. ASSUME NEW n \in 1..N PROVE r[n] = s[n]
    <3>1. CASE n = N
      BY <2>2, <2>6, <3>1
    <3>2. CASE n # N
      <4>1. n \in 1..(N - 1)
        BY <1>2, <3>2
      <4> QED
        BY <1>9, <1>10, <2>6, <4>1
    <3> QED
      BY <3>1, <3>2
  <2>8. r \in [1..N -> U]
    BY <1>5, <1>12, <2>1
  <2>9. r \in Seq(U) /\ Len(r) = N
    BY <2>4, <2>8
  <2> QED
    BY <2>3, <2>5, <2>6, <2>7, <2>9, SeqEqual
<1> QED
  BY <1>6, <1>11, <1>12

-----------------------------------------------------------------------------
(* The turn *)

\* ch3's tasks fill the front of the table; the one whose turn it is lies there
\* as long as one is left.  ch4 runs the first that is left.
TurnInv ==
    /\ kernel = "ch3" /\ pc = "load" => \A j \in Ids : j < remain => tasks[j] # NoTask
    /\ kernel = "ch3" /\ pc # "load"
           => /\ \A j \in Ids : tasks[j] # NoTask <=> j < task_count
              /\ Unfinished # {} => current < task_count
    /\ kernel = "ch4" /\ pc = "user" => \A j \in Unfinished : current <= j

LEMMA Used ==
    ASSUME TypeOK
    PROVE  /\ task_count = Cardinality({j \in Ids : tasks[j] # NoTask})
           /\ task_count \in Nat
           /\ \A j \in Unfinished : tasks[j] # NoTask
<1>1. DOMAIN tasks = Ids
  BY TaskTable
<1> QED
  BY <1>1, SlotsFinite DEF task_count, Unfinished, NoTask

\* The slots in use stay in use.
LEMMA SameCount ==
    ASSUME AppInv, AppInv', \A j \in Ids : tasks'[j] # NoTask <=> tasks[j] # NoTask
    PROVE  task_count' = task_count
<1>1. DOMAIN tasks = Ids /\ DOMAIN tasks' = Ids
  BY DEF AppInv, TypeOK
<1>2. {j \in DOMAIN tasks : tasks[j] # NoTask} = {j \in DOMAIN tasks' : tasks'[j] # NoTask}
  BY <1>1
<1> QED
  BY <1>2 DEF task_count

\* The program in a slot ends, the slot is still one in use.
LEMMA EndKeeps ==
    ASSUME AppInv, End
    PROVE  /\ \A j \in Ids : /\ tasks'[j] # NoTask <=> tasks[j] # NoTask
                             /\ tasks'[j].app = tasks[j].app
           /\ Unfinished' = Unfinished \ {current} /\ current \in Unfinished
<1>1. /\ TypeOK /\ current \in Unfinished /\ current \in Ids /\ tasks \in [Ids -> Task]
      /\ tasks' = [tasks EXCEPT ![current].unfinished = FALSE]
      /\ tasks[current].unfinished /\ tasks[current].app \in Ids
  BY TaskTable DEF AppInv, Counted, InPlace, End, Unfinished
<1>2. \A j \in Ids : tasks'[j].app = tasks[j].app
  BY <1>1, OneLess
<1>3. Unfinished' = Unfinished \ {current}
  BY <1>1, OneLess
<1>4. None \notin Ids
  BY AppAssumption DEF None, Ids
<1>5. tasks[current] # NoTask /\ tasks'[current] # NoTask
  BY <1>1, <1>2, <1>4 DEF NoTask
<1>6. \A j \in Ids : j # current => tasks'[j] = tasks[j]
  BY <1>1
<1> QED
  BY <1>1, <1>2, <1>3, <1>5, <1>6

\* Where the turn goes.
LEMMA NextIs ==
    ASSUME NEW n \in Nat \ {0}, NEW c \in 0..(n - 1)
    PROVE  (c + 1) % n = IF c + 1 = n THEN 0 ELSE c + 1
<1>1. CASE c + 1 = n
  BY <1>1, Z3
<1>2. CASE c + 1 # n
  <2>1. PICK x \in 0..(n - 1) : x = c + 1
    BY <1>2
  <2>2. x % n = x
    BY Z3
  <2> QED
    BY <1>2, <2>1, <2>2
<1> QED
  BY <1>1, <1>2

\* How far a slot is from the one whose turn it is.
LEMMA FarIs ==
    ASSUME NEW n \in Nat \ {0}, NEW c \in 0..(n - 1), NEW i \in 0..(n - 1)
    PROVE  (i - c) % n = IF i >= c THEN i - c ELSE i - c + n
<1>1. CASE i >= c
  <2>1. PICK x \in 0..(n - 1) : x = i - c
    BY <1>1
  <2>2. x % n = x
    BY Z3
  <2> QED
    BY <1>1, <2>1, <2>2
<1>2. CASE i < c
  <2>1. PICK x \in Int : x = i - c /\ -n <= x /\ x < 0
    BY <1>2
  <2>2. x % n = x + n
    BY <2>1, Z3
  <2> QED
    BY <1>2, <2>1, <2>2
<1> QED
  BY <1>1, <1>2

LEMMA NextTurnInv == AppInv /\ AppInv' /\ TurnInv /\ [Next]_vars => TurnInv'
<1> SUFFICES ASSUME AppInv, AppInv', TurnInv, [Next]_vars PROVE TurnInv'
  OBVIOUS
<1>0. TypeOK /\ tasks \in [Ids -> Task] /\ current \in Nat /\ task_count \in Nat
  BY TaskTable, Used, AppAssumption DEF AppInv, TypeOK, Ids
<1>1. CASE kernel # "ch3" /\ kernel # "ch4"
  <2>1. kernel' = kernel
    BY DEF Next, KernelStep, UserStep, vars, LoadAndRun, BatchDone, LoadTask, create_process,
           AllLoaded, ch3_run, ch3_skip, ch4_run, Shutdown, Compute, TimerInterrupt, ch3_yield,
           ch3_call, ch4_call, End
  <2> QED
    BY <1>1, <2>1 DEF TurnInv
\* Nothing but pc and the timer moves, not to ch4's user.
<1>2. ASSUME UNCHANGED <<kernel, tasks, remain, current>>, pc = "load" <=> pc' = "load",
             kernel = "ch4" /\ pc' = "user" => pc = "user"
      PROVE  TurnInv'
  BY <1>2 DEF TurnInv, task_count, Unfinished
<1>3. CASE LoadTask
  <2>1. /\ tasks' = [tasks EXCEPT ![remain] = [app |-> iter, unfinished |-> TRUE]]
        /\ kernel' = "ch3" /\ pc' = "load" /\ remain' = remain + 1 /\ remain \in Nat
        /\ \A j \in Ids : j < remain => tasks[j] # NoTask
    BY <1>0, <1>3, AppAssumption DEF LoadTask, TurnInv, TypeOK, Capacity
  <2>2. ASSUME NEW j \in Ids, j < remain' PROVE tasks'[j] # NoTask
    <3>1. CASE j = remain
      BY <1>0, <2>1, <3>1 DEF NoTask
    <3>2. CASE j # remain
      <4>1. j < remain
        BY <2>1, <2>2, <3>2, AppAssumption DEF Ids
      <4> QED
        BY <1>0, <2>1, <3>2, <4>1
    <3> QED
      BY <3>1, <3>2
  <2> QED
    BY <2>1, <2>2 DEF TurnInv
<1>4. CASE create_process
  BY <1>4 DEF TurnInv, create_process
<1>5. CASE AllLoaded /\ kernel = "ch3"
  <2>1. /\ UNCHANGED <<tasks, remain>> /\ pc' = "schedule" /\ current' = 0 /\ kernel' = "ch3"
        /\ pc = "load"
    BY <1>5 DEF AllLoaded
  <2>2. /\ remain \in Nat /\ remain <= MAX_COUNT /\ remain = Cardinality(Unfinished)
        /\ \A j \in Ids : tasks[j] # NoTask <=> j < remain
    <3>1. remain \in Nat /\ remain <= iter /\ iter <= meta.count /\ meta.count <= MAX_COUNT
          /\ iter \in Nat /\ meta.count \in Nat
      BY <1>0, <1>5, <2>1, List, AppAssumption DEF AppInv, Loading, TypeOK, Capacity
    <3>2. \A j \in Ids : j \in Int
      BY AppAssumption DEF Ids
    <3>3. /\ \A j \in Ids : j >= remain => tasks[j] = NoTask
          /\ \A j \in Ids : j < remain => tasks[j] # NoTask
          /\ remain = Cardinality(Unfinished)
      BY <1>5, <2>1 DEF AppInv, Loading, TurnInv, Counted
    <3> QED
      BY <3>1, <3>2, <3>3, AppAssumption
  <2>3. {j \in Ids : tasks[j] # NoTask} = 0..(remain - 1)
    <3>1. ASSUME NEW j \in 0..(remain - 1) PROVE j \in Ids
      BY <2>2, AppAssumption DEF Ids
    <3> QED
      BY <2>2, <3>1, AppAssumption DEF Ids
  <2>4. task_count = remain
    <3>1. 0 \in Int /\ remain - 1 \in Int
      BY <2>2
    <3>2. Cardinality(0..(remain - 1)) = IF 0 > remain - 1 THEN 0 ELSE (remain - 1) - 0 + 1
      BY <3>1, FS_Interval
    <3>3. task_count = Cardinality(0..(remain - 1))
      BY <1>0, <2>3, Used, Zenon
    <3> QED
      BY <2>2, <3>2, <3>3
  <2>5. task_count' = task_count /\ Unfinished' = Unfinished
    BY <2>1 DEF task_count, Unfinished
  <2>6. Unfinished # {} => 0 < remain
    BY <2>2, SlotsFinite DEF Unfinished
  <2> QED
    BY <2>1, <2>2, <2>4, <2>5, <2>6 DEF TurnInv
<1>6. CASE AllLoaded /\ kernel = "ch4"
  BY <1>6 DEF AllLoaded, TurnInv
<1>7. ASSUME kernel = "ch3", kernel' = "ch3", pc # "load", pc' # "load", current' = next_task(current),
             \A j \in Ids : tasks'[j] # NoTask <=> tasks[j] # NoTask
      PROVE  TurnInv'
  <2>1. task_count' = task_count
    BY <1>7, SameCount
  <2>2. task_count # 0 => current' < task_count
    BY <1>0, <1>7 DEF next_task
  <2>3. ASSUME Unfinished' # {} PROVE task_count # 0
    <3>1. PICK j \in Ids : tasks'[j] # NoTask
      BY <2>3 DEF Unfinished, NoTask
    <3> QED
      BY <1>7, <3>1, AppAssumption DEF TurnInv, Ids
  <2> QED
    BY <1>7, <2>1, <2>2, <2>3 DEF TurnInv
<1>8. CASE ch3_skip \/ TimerInterrupt \/ ch3_yield
  BY <1>7, <1>8 DEF ch3_skip, TimerInterrupt, ch3_yield
<1>9. CASE End
  BY <1>1, <1>7, <1>9, EndKeeps, List DEF End, TurnInv, AppInv
<1>10. CASE ch4_run
  <2>1. Unfinished \subseteq Ids /\ Unfinished # {}
    BY <1>10 DEF ch4_run, Unfinished
  <2>2. \A j \in Unfinished : current' <= j
    BY <1>10, <2>1, SmallestIsOne DEF ch4_run, first_valid, Unfinished
  <2> QED
    BY <1>10, <2>2 DEF ch4_run, TurnInv, Unfinished
<1>11. CASE UNCHANGED vars
  BY <1>2, <1>11 DEF vars
<1>12. CASE ch3_run \/ Shutdown \/ Compute \/ ch3_call \/ ch4_call
  BY <1>2, <1>12 DEF ch3_run, Shutdown, Compute, ch3_call, ch4_call
<1>13. CASE LoadAndRun \/ BatchDone
  BY <1>1, <1>13 DEF LoadAndRun, BatchDone
<1> QED
  BY <1>3, <1>4, <1>5, <1>6, <1>8, <1>9, <1>10, <1>11, <1>12, <1>13
     DEF Next, KernelStep, UserStep, AllLoaded

LEMMA InitTurnInv == Init => TurnInv
<1> SUFFICES ASSUME Init PROVE TurnInv
  OBVIOUS
<1>1. \A j \in Ids : ~(j < 0)
  BY AppAssumption DEF Ids
<1> QED
  BY <1>1 DEF Init, TurnInv

-----------------------------------------------------------------------------
(* Who is waiting *)

\* The programs in the slots of q.
Named(a, q) == [n \in DOMAIN q |-> a[q[n]]]

LEMMA NamedMoves ==
    ASSUME NEW S, NEW q \in Seq(S), q # <<>>, NEW a, NEW w, w = Named(a, q)
    PROVE  /\ w # <<>>
           /\ Named(a, Tail(q)) = Tail(w)
           /\ Named(a, Append(Tail(q), Head(q))) = Append(Tail(w), Head(w))
<1> DEFINE T == {a[x] : x \in S}
<1>1. ASSUME NEW s \in Seq(S)
      PROVE  /\ Named(a, s) \in Seq(T) /\ Len(Named(a, s)) = Len(s)
             /\ \A n \in 1..Len(s) : Named(a, s)[n] = a[s[n]]
  <2>1. Len(s) \in Nat /\ DOMAIN s = 1..Len(s) /\ \A n \in 1..Len(s) : s[n] \in S
    BY LenProperties, ElementOfSeq
  <2>2. Named(a, s) \in [1..Len(s) -> T]
    BY <2>1 DEF Named
  <2> QED
    BY <2>1, <2>2 DEF Named
<1>2. /\ Len(q) \in Nat /\ Len(q) # 0 /\ Head(q) = q[1]
      /\ Tail(q) \in Seq(S) /\ Len(Tail(q)) = Len(q) - 1
      /\ \A n \in 1..(Len(q) - 1) : Tail(q)[n] = q[n + 1]
  BY HeadTailProperties, EmptySeq, LenProperties
<1>3. w \in Seq(T) /\ Len(w) = Len(q) /\ w # <<>> /\ \A n \in 1..Len(q) : w[n] = a[q[n]]
  BY <1>1, <1>2
<1>4. /\ Head(w) = w[1] /\ Tail(w) \in Seq(T) /\ Len(Tail(w)) = Len(q) - 1
      /\ \A n \in 1..(Len(q) - 1) : Tail(w)[n] = w[n + 1]
  BY <1>3, HeadTailProperties
<1>5. Named(a, Tail(q)) = Tail(w)
  <2>1. PICK v : v = Named(a, Tail(q))
    OBVIOUS
  <2>2. v \in Seq(T) /\ Len(v) = Len(q) - 1 /\ \A n \in 1..(Len(q) - 1) : v[n] = a[Tail(q)[n]]
    BY <1>1, <1>2, <2>1
  <2>3. ASSUME NEW n \in 1..(Len(q) - 1) PROVE v[n] = Tail(w)[n]
    <3>1. n + 1 \in 1..Len(q)
      BY <1>2
    <3> QED
      BY <1>2, <1>3, <1>4, <2>2, <3>1
  <2> QED
    BY <1>4, <2>1, <2>2, <2>3, SeqEqual
<1>6. Named(a, Append(Tail(q), Head(q))) = Append(Tail(w), Head(w))
  <2>1. PICK p, v : p = Append(Tail(q), Head(q)) /\ v = Append(Tail(w), Head(w))
    OBVIOUS
  <2>2. Head(q) \in S /\ Head(w) = a[Head(q)] /\ Head(w) \in T
    BY <1>2, <1>3, <1>4, HeadTailProperties
  <2>3. /\ p \in Seq(S) /\ Len(p) = Len(q) /\ p[Len(q)] = Head(q)
        /\ \A n \in 1..(Len(q) - 1) : p[n] = Tail(q)[n]
    <3>1. Len(Tail(q)) + 1 = Len(q)
      BY <1>2
    <3> QED
      BY <1>2, <2>1, <2>2, <3>1, AppendProperties
  <2>4. /\ v \in Seq(T) /\ Len(v) = Len(q) /\ v[Len(q)] = Head(w)
        /\ \A n \in 1..(Len(q) - 1) : v[n] = Tail(w)[n]
    <3>1. Len(Tail(w)) + 1 = Len(q)
      BY <1>2, <1>4
    <3> QED
      BY <1>2, <1>4, <2>1, <2>2, <3>1, AppendProperties
  <2>5. PICK u : u = Named(a, p)
    OBVIOUS
  <2>6. u \in Seq(T) /\ Len(u) = Len(q) /\ \A n \in 1..Len(q) : u[n] = a[p[n]]
    BY <1>1, <2>3, <2>5
  <2>7. ASSUME NEW n \in 1..Len(q) PROVE u[n] = v[n]
    <3>1. CASE n = Len(q)
      BY <2>2, <2>3, <2>4, <2>6, <3>1
    <3>2. CASE n # Len(q)
      <4> DEFINE N == Len(q)
      <4>0. N \in Nat /\ n \in 1..N /\ n # N
        BY <1>2, <3>2
      <4> HIDE DEF N
      <4>1. n \in 1..(N - 1) /\ n + 1 \in 1..N
        BY <4>0
      <4> USE DEF N
      <4>2. u[n] = a[Tail(q)[n]] /\ v[n] = Tail(w)[n]
        BY <2>3, <2>4, <2>6, <4>1
      <4> QED
        BY <1>2, <1>3, <1>4, <4>1, <4>2
    <3> QED
      BY <3>1, <3>2
  <2> QED
    BY <2>1, <2>4, <2>5, <2>6, <2>7, SeqEqual
<1> QED
  BY <1>3, <1>5, <1>6

\* How far each slot is from the turn, and the program in each.
Far  == [i \in Ids |-> IF kernel = "ch3" THEN (i - current) % task_count ELSE i]
Apps == [i \in Ids |-> tasks[i].app]

\* No two slots are as far from the turn.
LEMMA FarApart ==
    AppInv /\ TurnInv /\ kernel \in {"ch3", "ch4"} /\ pc # "load"
      => /\ Apart(Unfinished, Far)
         /\ kernel = "ch3" /\ Unfinished # {}
              => /\ task_count \in Nat \ {0} /\ current \in 0..(task_count - 1)
                 /\ \A i \in Unfinished : i \in 0..(task_count - 1)
<1> SUFFICES ASSUME AppInv, TurnInv, kernel \in {"ch3", "ch4"}, pc # "load"
             PROVE  /\ Apart(Unfinished, Far)
                    /\ kernel = "ch3" /\ Unfinished # {}
                         => /\ task_count \in Nat \ {0} /\ current \in 0..(task_count - 1)
                            /\ \A i \in Unfinished : i \in 0..(task_count - 1)
  OBVIOUS
<1>1. /\ TypeOK /\ task_count \in Nat /\ current \in Nat /\ Unfinished \subseteq Ids
      /\ \A i \in Unfinished : tasks[i] # NoTask
      /\ \A i \in Ids : i \in Nat
  BY Used, AppAssumption DEF AppInv, TypeOK, Ids, Unfinished
<1>2. CASE kernel = "ch4"
  BY <1>1, <1>2 DEF Apart, Far
<1>3. CASE kernel = "ch3"
  <2>1. ASSUME Unfinished # {}
        PROVE  /\ task_count \in Nat \ {0} /\ current \in 0..(task_count - 1)
               /\ \A i \in Unfinished : i \in 0..(task_count - 1)
    BY <1>1, <1>3, <2>1 DEF TurnInv
  <2>2. ASSUME NEW i \in Unfinished, NEW j \in Unfinished
        PROVE  Far[i] \in Int /\ (Far[i] = Far[j] => i = j)
    <3>1. PICK n \in Nat \ {0} : n = task_count
      BY <2>1
    <3>2. current \in 0..(n - 1) /\ i \in 0..(n - 1) /\ j \in 0..(n - 1)
      BY <2>1, <3>1
    <3>3. Far[i] = (i - current) % n /\ Far[j] = (j - current) % n
      BY <1>1, <1>3, <3>1 DEF Far
    <3>4. /\ Far[i] = IF i >= current THEN i - current ELSE i - current + n
          /\ Far[j] = IF j >= current THEN j - current ELSE j - current + n
      BY <3>2, <3>3, FarIs
    <3> QED
      BY <3>2, <3>4
  <2> QED
    BY <1>1, <2>1, <2>2 DEF Apart
<1> QED
  BY <1>2, <1>3

\* ch3, ch4: those who wait are the programs in the slots that are not done, in
\* that order.
LEMMA WaitingIs ==
    kernel \in {"ch3", "ch4"} /\ pc # "load" /\ Apart(Unfinished, Far)
      => Waiting = Named(Apps, Ordered(Unfinished, Far))
<1> SUFFICES ASSUME kernel \in {"ch3", "ch4"}, pc # "load", Apart(Unfinished, Far)
             PROVE  Waiting = Named(Apps, Ordered(Unfinished, Far))
  OBVIOUS
<1>1. ASSUME NEW i \in Unfinished PROVE Ahead(i) = Below(Unfinished, Far, i)
  <2>1. i \in Ids /\ Unfinished \subseteq Ids
    BY DEF Unfinished
  <2>2. ASSUME NEW j \in Unfinished PROVE Before(j, i) <=> Far[j] < Far[i]
    BY <2>1 DEF Before, Far
  <2> QED
    BY <2>2 DEF Ahead, Below
<1>2. InTurn = Ordered(Unfinished, Far)
  BY <1>1 DEF InTurn, Ordered
<1>3. ASSUME NEW n \in DOMAIN InTurn PROVE tasks[InTurn[n]].app = Apps[InTurn[n]]
  <2>1. InTurn \in [1..Cardinality(Unfinished) -> Unfinished]
    BY <1>2, OrderedIs
  <2>2. InTurn[n] \in Unfinished
    BY <1>3, <2>1
  <2> QED
    BY <2>2 DEF Apps, Unfinished
<1>4. Waiting = [n \in DOMAIN InTurn |-> tasks[InTurn[n]].app]
  BY DEF Waiting
<1>5. Waiting = [n \in DOMAIN InTurn |-> Apps[InTurn[n]]]
  BY <1>3, <1>4
<1> QED
  BY <1>2, <1>5 DEF Named

\* After one round of the loop everyone is one closer, and the one that had the
\* turn is the last.
LEMMA OneCloser ==
    ASSUME NEW n \in Nat \ {0}, NEW c \in 0..(n - 1), NEW i \in 0..(n - 1)
    PROVE  (i - ((c + 1) % n)) % n = IF i = c THEN n - 1 ELSE ((i - c) % n) - 1
<1>1. PICK k \in 0..(n - 1) : k = (c + 1) % n /\ k = IF c + 1 = n THEN 0 ELSE c + 1
  <2>1. (IF c + 1 = n THEN 0 ELSE c + 1) \in 0..(n - 1)
    OBVIOUS
  <2> QED
    BY <2>1, NextIs
<1>2. (i - k) % n = IF i >= k THEN i - k ELSE i - k + n
  BY FarIs
<1>3. (i - c) % n = IF i >= c THEN i - c ELSE i - c + n
  BY FarIs
<1> QED
  BY <1>1, <1>2, <1>3

\* What a round of ch3's loop does to the distances.
LEMMA Round ==
    ASSUME AppInv, TurnInv, kernel = "ch3", pc # "load", kernel' = "ch3", pc' # "load",
           AppInv', TurnInv', current' = next_task(current),
           \A j \in Ids : tasks'[j] # NoTask <=> tasks[j] # NoTask
    PROVE  \A i \in Unfinished :
              /\ i # current => Far'[i] = Far[i] - 1
              /\ current \in Unfinished => Far[current] = 0
              /\ i = current => \A j \in Unfinished : j # i => Far'[j] < Far'[i]
<1> SUFFICES ASSUME NEW i \in Unfinished
             PROVE  /\ i # current => Far'[i] = Far[i] - 1
                    /\ current \in Unfinished => Far[current] = 0
                    /\ i = current => \A j \in Unfinished : j # i => Far'[j] < Far'[i]
  OBVIOUS
<1>1. PICK n \in Nat \ {0} : /\ n = task_count /\ current \in 0..(n - 1)
                             /\ \A j \in Unfinished : j \in 0..(n - 1)
  BY FarApart
<1>2. task_count' = n
  BY <1>1, SameCount
<1>3. ASSUME NEW j \in Unfinished
      PROVE  /\ Far[j] = IF j >= current THEN j - current ELSE j - current + n
             /\ Far'[j] = IF j = current THEN n - 1 ELSE Far[j] - 1
  <2>1. j \in Ids /\ j \in 0..(n - 1)
    BY <1>1 DEF Unfinished
  <2>2. Far[j] = (j - current) % n
    BY <1>1, <2>1 DEF Far
  <2>3. Far'[j] = (j - ((current + 1) % n)) % n
    BY <1>1, <1>2, <2>1 DEF Far, next_task
  <2>4. Far[j] = IF j >= current THEN j - current ELSE j - current + n
    BY <1>1, <2>1, <2>2, FarIs
  <2>5. Far'[j] = IF j = current THEN n - 1 ELSE ((j - current) % n) - 1
    BY <1>1, <2>1, <2>3, OneCloser
  <2> QED
    BY <2>2, <2>4, <2>5
<1>4. ASSUME NEW j \in Unfinished, i = current, j # i PROVE Far'[j] < Far'[i]
  <2>1. j \in 0..(n - 1) /\ current \in 0..(n - 1)
    BY <1>1
  <2> QED
    BY <1>3, <1>4, <2>1
<1>5. current \in Unfinished => Far[current] = 0
  BY <1>1, <1>3
<1> QED
  BY <1>3, <1>4, <1>5

\* ch3, ch4: the one at the head goes, or goes to the back.
LEMMA TurnPasses ==
    ASSUME AppInv, TurnInv, AppInv', TurnInv', kernel \in {"ch3", "ch4"}, kernel' = kernel,
           pc # "load", pc' # "load", current \in Unfinished,
           \A i \in Ids : tasks'[i].app = tasks[i].app,
           Unfinished' = Unfinished \/ Unfinished' = Unfinished \ {current},
           \A i \in Unfinished : Far[current] <= Far[i],
           \A i, j \in Unfinished \ {current} : Far[i] < Far[j] <=> Far'[i] < Far'[j],
           Unfinished' = Unfinished => \A i \in Unfinished \ {current} : Far'[i] < Far'[current]
    PROVE  /\ Waiting # <<>>
           /\ Unfinished' = Unfinished \ {current} => Waiting' = Tail(Waiting)
           /\ Unfinished' = Unfinished => Waiting' = Append(Tail(Waiting), Head(Waiting))
<1>1. Apart(Unfinished, Far) /\ Apart(Unfinished', Far')
  <2>1. (AppInv /\ TurnInv /\ kernel \in {"ch3", "ch4"} /\ pc # "load")'
    OBVIOUS
  <2>2. Apart(Unfinished, Far)'
    BY <2>1, FarApart, PTL
  <2> QED
    BY <2>2, FarApart
<1>2. PICK q, r : q = Ordered(Unfinished, Far) /\ r = Ordered(Unfinished', Far')
  OBVIOUS
<1>3. Apps' = Apps
  BY DEF Apps
<1>4. Waiting = Named(Apps, q)
  BY <1>1, <1>2, WaitingIs
<1>5. Waiting' = Named(Apps, r)
  <2>1. (kernel \in {"ch3", "ch4"} /\ pc # "load" /\ Apart(Unfinished, Far))'
    BY <1>1
  <2>2. (Waiting = Named(Apps, Ordered(Unfinished, Far)))'
    BY <2>1, WaitingIs, PTL
  <2> QED
    BY <1>2, <1>3, <2>2
<1>6. /\ q \in Seq(Unfinished) /\ q # <<>>
      /\ Unfinished' = Unfinished \ {current} => r = Tail(q)
      /\ Unfinished' = Unfinished => r = Append(Tail(q), Head(q))
  <2>1. Goes(Unfinished, Far, Unfinished', Far', current)
    BY <1>1 DEF Goes
  <2> QED
    BY <1>2, <2>1, FrontGoes
<1>7. /\ Waiting # <<>>
      /\ Named(Apps, Tail(q)) = Tail(Waiting)
      /\ Named(Apps, Append(Tail(q), Head(q))) = Append(Tail(Waiting), Head(Waiting))
  BY <1>4, <1>6, NamedMoves
<1> QED
  BY <1>5, <1>6, <1>7

\* ch3: a slot that is done is gone past.
LEMMA SkipKeepsOrder ==
    ASSUME AppInv, TurnInv, AppInv', TurnInv', ch3_skip
    PROVE  Waiting' = Waiting
<1>1. /\ kernel = "ch3" /\ kernel' = "ch3" /\ pc # "load" /\ pc' # "load" /\ tasks' = tasks
      /\ current' = next_task(current) /\ current \notin Unfinished /\ Unfinished' = Unfinished
      /\ Apps' = Apps
  BY DEF ch3_skip, Unfinished, Apps
<1>2. \A i \in Unfinished : Far'[i] = Far[i] - 1
  BY <1>1, Round
<1>3. Apart(Unfinished, Far) /\ Apart(Unfinished, Far)'
  <2>1. (AppInv /\ TurnInv /\ kernel \in {"ch3", "ch4"} /\ pc # "load")'
    BY <1>1
  <2>2. Apart(Unfinished, Far)'
    BY <2>1, FarApart, PTL
  <2> QED
    BY <1>1, <2>2, FarApart
<1>4. \A i, j \in Unfinished : Far[i] < Far[j] <=> Far'[i] < Far'[j]
  BY <1>2, <1>3 DEF Apart
<1>5. Ordered(Unfinished, Far') = Ordered(Unfinished, Far)
  BY <1>4, OrderedSame
<1>6. Waiting = Named(Apps, Ordered(Unfinished, Far))
  BY <1>1, <1>3, WaitingIs
<1>7. (Waiting = Named(Apps, Ordered(Unfinished, Far)))'
  <2>1. (kernel \in {"ch3", "ch4"} /\ pc # "load" /\ Apart(Unfinished, Far))'
    BY <1>1, <1>3
  <2> QED
    BY <2>1, WaitingIs, PTL
<1> QED
  BY <1>1, <1>5, <1>6, <1>7

\* ch3: an interrupt, a yield and an end pass the turn on.
LEMMA Ch3Passes ==
    ASSUME AppInv, TurnInv, AppInv', TurnInv', kernel = "ch3", pc = "user",
           TimerInterrupt \/ ch3_yield \/ End
    PROVE  [Turns!Next]_(Turns!vars)
<1>1. /\ kernel' = "ch3" /\ pc' # "load" /\ current \in Unfinished /\ current' = next_task(current)
      /\ \A j \in Ids : /\ tasks'[j] # NoTask <=> tasks[j] # NoTask
                        /\ tasks'[j].app = tasks[j].app
      /\ Unfinished' = Unfinished \/ Unfinished' = Unfinished \ {current}
  <2>1. CASE TimerInterrupt \/ ch3_yield
    BY <2>1 DEF AppInv, Counted, TimerInterrupt, ch3_yield, Unfinished
  <2>2. CASE End
    BY <2>2, EndKeeps DEF End
  <2> QED
    BY <2>1, <2>2
<1>2. /\ \A i \in Unfinished : i # current => Far'[i] = Far[i] - 1
      /\ Far[current] = 0
      /\ \A j \in Unfinished : j # current => Far'[j] < Far'[current]
  BY <1>1, Round
<1>3. Apart(Unfinished, Far)
  BY <1>1, FarApart
<1>4. \A i, j \in Unfinished \ {current} : Far[i] < Far[j] <=> Far'[i] < Far'[j]
  BY <1>2, <1>3 DEF Apart
<1>5. \A i \in Unfinished : Far[current] <= Far[i]
  <2>1. ASSUME NEW i \in Unfinished PROVE Far[i] >= 0
    <3>1. PICK n \in Nat \ {0} : /\ n = task_count /\ current \in 0..(n - 1) /\ i \in 0..(n - 1)
      BY <1>1, <2>1, FarApart
    <3>2. Far[i] = (i - current) % n
      BY <2>1, <3>1 DEF Far, Unfinished
    <3>3. Far[i] = IF i >= current THEN i - current ELSE i - current + n
      BY <3>1, <3>2, FarIs
    <3> QED
      BY <3>1, <3>3
  <2> QED
    BY <1>2, <1>3, <2>1 DEF Apart
<1>6. /\ Waiting # <<>>
      /\ Unfinished' = Unfinished \ {current} => Waiting' = Tail(Waiting)
      /\ Unfinished' = Unfinished => Waiting' = Append(Tail(Waiting), Head(Waiting))
  BY <1>1, <1>2, <1>4, <1>5, TurnPasses
<1> QED
  BY <1>1, <1>6 DEF Turns!Next, Turns!Rotate, Turns!Leave, Turns!vars

\* ch4: only an end passes the turn on.
LEMMA Ch4Passes ==
    ASSUME AppInv, TurnInv, AppInv', TurnInv', kernel = "ch4", End
    PROVE  [Turns!Next]_(Turns!vars)
<1>1. /\ kernel' = "ch4" /\ pc = "user" /\ pc' # "load" /\ current \in Unfinished
      /\ \A j \in Ids : tasks'[j].app = tasks[j].app
      /\ Unfinished' = Unfinished \ {current}
      /\ Unfinished \subseteq Ids
  BY EndKeeps DEF End, Unfinished
<1>2. \A i \in Unfinished : Far[i] = i /\ Far'[i] = i /\ current <= i
  BY <1>1 DEF Far, TurnInv
<1>3. Waiting # <<>> /\ Waiting' = Tail(Waiting)
  BY <1>1, <1>2, TurnPasses
<1> QED
  BY <1>1, <1>3 DEF Turns!Next, Turns!Leave, Turns!vars

\* Steps of ch3 and ch4 that leave the table and the turn alone.
LEMMA TurnStays ==
    ASSUME AppInv, TurnInv, kernel \in {"ch3", "ch4"}, pc # "load", pc' # "load",
           UNCHANGED <<kernel, tasks>>, kernel = "ch3" => current' = current
    PROVE  Waiting' = Waiting
<1>1. /\ Unfinished' = Unfinished /\ Apps' = Apps /\ task_count' = task_count /\ Far' = Far
  BY DEF Unfinished, Apps, task_count, Far
<1>2. Apart(Unfinished, Far)
  BY FarApart
<1>3. Waiting = Named(Apps, Ordered(Unfinished, Far))
  BY <1>2, WaitingIs
<1>4. (Waiting = Named(Apps, Ordered(Unfinished, Far)))'
  <2>1. (kernel \in {"ch3", "ch4"} /\ pc # "load" /\ Apart(Unfinished, Far))'
    BY <1>1, <1>2
  <2> QED
    BY <2>1, WaitingIs, PTL
<1> QED
  BY <1>1, <1>3, <1>4

\* One more at the front.
LEMMA InFront ==
    ASSUME NEW S, NEW s \in Seq(S), NEW x
    PROVE  /\ <<x>> \o s # <<>> /\ Tail(<<x>> \o s) = s
           /\ Len(<<x>> \o s) = Len(s) + 1
           /\ \A n \in 1..(Len(s) + 1) : (<<x>> \o s)[n] = IF n = 1 THEN x ELSE s[n - 1]
<1> DEFINE T == S \cup {x}
<1>1. <<x>> \in Seq(T) /\ s \in Seq(T) /\ Len(<<x>>) = 1 /\ <<x>>[1] = x /\ Len(s) \in Nat
  BY SeqMonotonic, LenProperties
<1>2. PICK q : q = <<x>> \o s
  OBVIOUS
<1>3. /\ q \in Seq(T) /\ Len(q) = Len(s) + 1
      /\ \A n \in 1..(Len(s) + 1) : q[n] = IF n = 1 THEN x ELSE s[n - 1]
  <2>1. /\ q \in Seq(T) /\ Len(q) = 1 + Len(s)
        /\ \A n \in 1..(1 + Len(s)) : q[n] = IF n <= 1 THEN <<x>>[n] ELSE s[n - 1]
    BY <1>1, <1>2, ConcatProperties
  <2> QED
    BY <1>1, <2>1
<1>4. q # <<>>
  BY <1>1, <1>3, EmptySeq
<1>5. /\ Tail(q) \in Seq(T) /\ Len(Tail(q)) = Len(s)
      /\ \A n \in 1..Len(s) : Tail(q)[n] = s[n]
  <2>1. Tail(q) \in Seq(T) /\ Len(Tail(q)) = Len(q) - 1
        /\ \A n \in 1..Len(Tail(q)) : Tail(q)[n] = q[n + 1]
    BY <1>3, <1>4, HeadTailProperties
  <2> QED
    BY <1>1, <1>3, <2>1
<1>6. Tail(q) = s
  BY <1>1, <1>5, SeqEqual
<1> QED
  BY <1>2, <1>3, <1>4, <1>6

\* ch2: what was waiting is what was, one program started or ended.
LEMMA Ch2Passes ==
    ASSUME AppInv, AppInv', kernel = "ch2", LoadAndRun \/ End
    PROVE  [Turns!Next]_(Turns!vars)
<1>1. /\ TypeOK /\ kernel' = "ch2" /\ Unfinished \subseteq {0} /\ meta' = meta
      /\ iter \in Nat /\ meta.count \in Nat /\ iter <= meta.count /\ meta.count <= MAX_COUNT
      /\ MAX_COUNT \in Nat
  BY List, AppAssumption DEF AppInv, Counted, LoadAndRun, End
<1>2. /\ Waiting = (IF tasks[0].unfinished THEN <<tasks[0].app>> ELSE <<>>) \o Rest
      /\ Waiting' = (IF tasks'[0].unfinished THEN <<tasks'[0].app>> ELSE <<>>) \o Rest'
  BY <1>1 DEF Waiting
<1>3. /\ Rest \in Seq(Int) /\ Len(Rest) = meta.count - iter
      /\ \A n \in 1..(meta.count - iter) : Rest[n] = iter + n - 1
  <2>1. meta.count - iter \in Nat
    BY <1>1
  <2>2. Rest \in [1..(meta.count - iter) -> Int]
    BY <1>1 DEF Rest
  <2>3. Rest \in Seq(Int) /\ Len(Rest) = meta.count - iter
    BY <2>1, <2>2
  <2> QED
    BY <2>3 DEF Rest
<1>4. CASE LoadAndRun
  <2>1. /\ iter < meta.count /\ iter' = iter + 1 /\ Unfinished = {}
        /\ tasks' = [tasks EXCEPT ![0] = [app |-> iter, unfinished |-> TRUE]]
    BY <1>4 DEF AppInv, Counted, LoadAndRun, HasNext
  <2>2. 0 \in Ids /\ 0 \in DOMAIN tasks
    BY <1>1, <2>1, TaskTable DEF Ids
  <2>3. ~tasks[0].unfinished /\ tasks'[0] = [app |-> iter, unfinished |-> TRUE]
    BY <2>1, <2>2 DEF Unfinished
  <2>4. PICK k \in Nat : k = meta.count - (iter + 1)
    BY <1>1, <2>1
  <2>5. PICK s : s = Rest'
    OBVIOUS
  <2>6. s \in Seq(Int) /\ Len(s) = k /\ \A n \in 1..k : s[n] = iter + n
    <3>1. s = [n \in 1..k |-> (iter + 1) + n - 1]
      BY <1>1, <2>1, <2>4, <2>5 DEF Rest
    <3>2. s \in [1..k -> Int]
      BY <1>1, <3>1
    <3> QED
      BY <1>1, <3>1, <3>2
  <2>7. PICK q : q = <<iter>> \o s
    OBVIOUS
  <2>8. q \in Seq(Int) /\ Len(q) = k + 1 /\ \A n \in 1..(k + 1) : q[n] = IF n = 1 THEN iter ELSE s[n - 1]
    <3>1. <<iter>> \in Seq(Int)
      BY <1>1
    <3> QED
      BY <2>6, <2>7, <3>1, InFront, ConcatProperties
  <2>9. ASSUME NEW n \in 1..(k + 1) PROVE q[n] = Rest[n]
    <3>1. Rest[n] = iter + n - 1
      BY <1>1, <1>3, <2>4
    <3>2. CASE n = 1
      BY <1>1, <2>8, <3>1, <3>2
    <3>3. CASE n # 1
      <4>1. n - 1 \in 1..k
        BY <2>4, <3>3
      <4>2. q[n] = iter + (n - 1)
        BY <2>6, <2>8, <3>3, <4>1
      <4> QED
        BY <1>1, <3>1, <4>2
    <3> QED
      BY <3>2, <3>3
  <2>10. k + 1 = meta.count - iter
    BY <1>1, <2>4
  <2>11. q = Rest
    BY <1>3, <2>8, <2>9, <2>10, SeqEqual
  <2>12. Waiting' = q
    BY <1>2, <2>3, <2>5, <2>7
  <2>13. Waiting = Rest
    BY <1>2, <1>3, <2>3, ConcatEmptySeq
  <2> QED
    BY <1>1, <2>11, <2>12, <2>13 DEF Turns!vars
<1>5. CASE End
  <2>1. current = 0 /\ tasks[0].unfinished /\ Unfinished' = {} /\ Rest' = Rest /\ 0 \in Ids
    <3>1. Unfinished' = Unfinished \ {current} /\ current \in Unfinished
      BY <1>5, EndKeeps
    <3>2. UNCHANGED <<meta, iter>>
      BY <1>5 DEF End
    <3> QED
      BY <1>1, <3>1, <3>2 DEF Unfinished, Rest
  <2>2. ~tasks'[0].unfinished
    BY <2>1 DEF Unfinished
  <2>3. Waiting' = Rest
    BY <1>2, <1>3, <2>1, <2>2, ConcatEmptySeq
  <2>4. Waiting # <<>> /\ Tail(Waiting) = Rest
    BY <1>2, <1>3, <2>1, InFront
  <2> QED
    BY <1>1, <2>3, <2>4 DEF Turns!Next, Turns!Leave, Turns!vars
<1> QED
  BY <1>4, <1>5

\* A step of any of the kernels is one of the queue's.
LEMMA StepTakesTurns ==
    ASSUME AppInv, TurnInv, AppInv', TurnInv', [Next]_vars, pc # "load" \/ kernel = "ch2"
    PROVE  [Turns!Next]_(Turns!vars)
<1>1. kernel \in {"ch2", "ch3", "ch4"}
  BY List DEF AppInv
<1>2. CASE UNCHANGED vars
  BY <1>2 DEF vars, Turns!vars, Waiting, InTurn, Ahead, Before, Rest, Unfinished, task_count
<1>3. CASE ch3_run \/ Shutdown \/ Compute \/ ch3_call \/ ch4_run \/ ch4_call
  <2>1. /\ kernel \in {"ch3", "ch4"} /\ pc # "load" /\ pc' # "load"
        /\ UNCHANGED <<kernel, tasks>> /\ (kernel = "ch3" => current' = current)
    BY <1>3 DEF ch3_run, Shutdown, Compute, ch3_call, ch4_run, ch4_call
  <2>2. Waiting' = Waiting
    BY <2>1, TurnStays
  <2> QED
    BY <2>1, <2>2 DEF Turns!vars
<1>4. CASE ch3_skip
  <2>1. Waiting' = Waiting /\ kernel' = kernel
    BY <1>4, SkipKeepsOrder DEF ch3_skip
  <2> QED
    BY <2>1 DEF Turns!vars
<1>5. CASE TimerInterrupt \/ ch3_yield
  BY <1>5, Ch3Passes DEF TimerInterrupt, ch3_yield
<1>6. CASE End
  <2>1. pc = "user"
    BY <1>6 DEF End
  <2> QED
    BY <1>1, <1>6, <2>1, Ch2Passes, Ch3Passes, Ch4Passes
<1>7. CASE LoadAndRun
  BY <1>7, Ch2Passes DEF LoadAndRun
<1>8. CASE BatchDone
  BY <1>8 DEF BatchDone, Turns!vars, Waiting, Rest
<1>9. CASE LoadTask \/ create_process \/ AllLoaded
  BY <1>9 DEF LoadTask, create_process, AllLoaded
<1> QED
  BY <1>2, <1>3, <1>4, <1>5, <1>6, <1>7, <1>8, <1>9 DEF Next, KernelStep, UserStep

\* main of ch2, ch3 and ch4: with any number of programs they run in the order
\* of the list, and the kernel's loop, its timer, a call, a yield and an end do
\* to those that wait what the queue does: nothing, the head goes to the back
\* (ch3 only), or the head leaves.
THEOREM ProgramsTakeTurns == Spec => TakesTurns
<1>1. Spec => []TurnInv
  <2>1. AppInv /\ TurnInv /\ [Next]_vars => AppInv' /\ TurnInv'
    BY NextAppInv, NextTurnInv
  <2> QED
    BY <2>1, InitAppInv, InitTurnInv, PTL DEF Spec
<1>2. AppInv /\ TurnInv /\ AppInv' /\ TurnInv' /\ [Next]_vars
        => [pc # "load" \/ kernel = "ch2" => [Turns!Next]_(Turns!vars)]_vars
  BY StepTakesTurns
<1> QED
  BY <1>1, <1>2, AppInvariant, PTL DEF Spec, TakesTurns
=============================================================================
