# TLA+ models of the uCore tutorial kernels

This directory holds TLA+ specifications of the kernels in this repository,
configurations that check them with TLC, and proofs that TLAPS checks. They
cover the last and largest kernel, `ch8` (threads, blocking synchronisation,
waitpid, signals), the process kernels `ch5` to `ch7` on the process manager,
the kernels with linked programs `ch2` to `ch4`, the address spaces of processes
from `ch4` on, and everything between a file call and the disk: the file descriptors, easy-fs and its block cache, the tool
that makes the image, and the VirtIO driver.

1. [The system](#1-the-system)
2. [The modules](#2-the-modules)
3. [What the runs check](#3-what-the-runs-check)
4. [Bounds](#4-bounds) and [fairness](#5-fairness)
6. [What is proved](#6-what-is-proved)
7. [Where code and comments disagree](#7-where-code-and-comments-disagree)
8. [What is not modelled](#8-what-is-not-modelled), [plan](#9-plan)

## 1. The system

Eight small RISC-V kernels, `ch1` to `ch8`, each the chapter of a tutorial and
each built from its own `main.c` and from shared libraries. All of them run on
one hart. From `ch2` on the kernel runs one user context at a time
(`context_execute`, `user_context_execute`), gets control back at the next
trap, handles it to the end and chooses again. The kernel is never interrupted
and only `ch3` arms a timer. So the concurrency in these kernels is *between*
traps: every variable of the kernel may have changed, by other threads, between
two system calls of one thread, but never inside a call.

| component | state | operations | hard behaviour | what makes it correct |
|---|---|---|---|---|
| `ch8/main.c` | ready queue, thread pool, process pool (parent, thread list, waiting_for/waiting_tid, exit state, object tables), id counters | main's loop, the system calls | order of wake-ups, exits against waits, death in mid-call, ids never reused | a thread is in one place; no live thread is lost; every exit is reported exactly once, to a thread that waits |
| `sync/` | ring wait queues, `locked`, `count` | lock, unlock, up, down, signal, wait | hand-over to a waiter, negative counts, unchecked pushes, uninitialised array | mutual exclusion, FIFO service, count = permits or waiters |
| `signal/` | received, mask, handling, actions, saved context | add, set action, mask, handle, return, fork, clear | delivery at the end of *any* call, nesting of handlers, frozen processes | stopped processes stand still; the interrupted context comes back |
| `syscall/` | none (a table of handlers) | dispatch by number | - | - |
| `task-manage/` (ch5-ch7) | a ring without a count, a process table, lists of children and zombies | add, fetch, exit, wait, suspend | full ring = empty ring, child list overflow, reparenting | no process lost; each zombie collected once |
| `ch5`-`ch7/main.c` | current process, on top of `task-manage`; files (ch6), signals (ch7) | loop and system calls | calls whose loop iteration ends early | as above |
| `ch3/main.c` | task array, current index, timer | round robin | timer re-armed on each return | each unfinished task runs again |
| `ch1`, `ch2`, `ch4/main.c` | application index, process table | run to completion, next | one program copied over another, the count the loop stops on | each runs its own code, once, to its end |
| `easy-fs/` | block cache (one eviction slot), bitmaps, inodes, directory | create, find, read, write, clear, sync | pointers kept into evicted slots, growth across index levels, unchecked allocation failure | blocks have one owner; what was written is read back |
| `virtio-block/` | descriptor free list, avail/used rings | request, poll | the device runs beside the driver; partial allocation failure, index wrap | no descriptor leaked or shared; each request carried out once |
| `kernel-vm/`, `kernel-alloc/` | page tables, bump allocator | map, translate, clone, load an ELF file, alloc | memory used up in the middle of a mapping, deep copies, two names of one address space | each process has the memory it was loaded with, to itself; every page has one use |
| `kernel-context/`, `linker/`, `util/` | registers, symbols, console | context switch, printing | - | - |
| `fs-pack/` | an image being built | host tool, sequential | same layout as easy-fs | the kernel finds the files |
| `user/` | - | programs and their library | - | they *use* the promises above |

**How they interact in ch8.** `main` takes the thread at the head of the ready
queue (`ready_dequeue`), runs it until `ecall` or a fault, and calls
`syscall_dispatch`, whose handlers (`do_*`) call `sync/` and `signal/`
directly. `sync/` never blocks anybody: an operation that must block has put
the thread in the object's wait queue and answers "need block", the handler
returns -1 or -2, and `main` recognises the pair (system call number, return
value) and does not queue the thread again. A release answers the thread to wake and
the *handler* calls `ready_enqueue`. After the handler, `main` calls
`signal_handle` for the process, on exit too, and only then looks at exit and
at blocking. A thread that blocks in `waitpid` is remembered in its process
(`waiting_for`, `waiting_tid`) and is queued again by the exit of a child.

**How they interact below a file call.** The file calls of `ch6` to `ch8` find
the open file in the process (`fd_table`) and call easy-fs, which does
everything through `get_block_cache`: a lookup returns a pointer into one of a
fixed number of slots, and may first write another block back and give its slot
away. The cache reads and writes through `block_device_t`, which the adapter at
the end of `virtio_block.c` connects to the driver. The driver fills in a chain
of three descriptors, publishes it in a ring, notifies the device and polls. The
device is the only thing in the system that really runs beside the kernel. The
image it holds was made on the host by `fs-pack`, with a copy of easy-fs of its
own.

The table's rows are the components of `PROJECT.json`; its `hazards` name, line
by line, what in this code is hard to test, with the property that watches it
or the reason why none does yet.

## 2. The modules

| module | models | state and actions |
|---|---|---|
| `RingQueue` | `wait_queue_t` in `sync/sync.h` | `queue`, `head`, `tail`, `count`; `wq_init`, `wq_push`, `wq_pop` with wrapping indices and an uninitialised array |
| `BoundedFifo` | what a wait queue promises (abstract) | a sequence; push refused when full, pop of an empty queue answers invalid |
| `Sync` | `sync/sync.c` | `locked`, `count`, `wait_queue` per object, and the history variable `holders`; one action formula per function, used inside the system calls |
| `Signal` | `signal/signal.h`, `signal/signal.c` | operators from manager to manager, `signal_handle` with its result type |
| `Kernel8` | `ch8/main.c` | the pools, the ready queue and the counters; one action per system call, each a whole iteration of `main`'s loop |
| `FifoLock`, `CountingSemaphore` | what a mutex and a semaphore promise (abstract) | a holder and a queue; permits and a queue |
| `Kernel8Services` | `Kernel8` + fairness | refinement mappings per object, progress properties |
| `Kernel8Findings` | `Kernel8` | what comments promise and the code does not do |
| `ProcManage` | `task-manage/proc_manage.[ch]` | operators from manager to manager: add, suspend, exit, wait, with the ring and the lists of children and zombies |
| `Kernel7` | `ch7/main.c`; without signals the loop of `ch5` and `ch6` | the manager, the signal managers, the user context and the saved one of each process; one action per call |
| `Files` | file descriptors and file calls of `ch6/main.c` (`ch7` and `ch8` repeat them) | open files of each process, cache and device; open, close, read, write, fork, exec, each to its end |
| `EasyFs` | `easy-fs/easy_fs.c` above the cache | operators on a record of slots and device: bitmaps, inode growth and clearing, directory, file handles |
| `BlockCache` | the block cache of `easy_fs.c` | lookup with replacement, write-back of one or all slots |
| `DiskLayout` | `efs_create` (fs-pack) and `efs_open` (easy-fs) | sizes and places of the areas of a device |
| `FsPack` | `fs-pack/fs_pack.c` | the image made of a list of files, with the tool's own growth and larger cache |
| `FileStore` | what files promise (abstract) | contents under names, open files with offsets; no blocks |
| `MCFiles` | `Files` | the images of the run and the mapping to `FileStore` |
| `BlockStore`, `BlockCacheSpec` | what a cache promises (abstract), and the cache alone under arbitrary callers | one array of blocks; lookups, stores, write-backs |
| `VirtioBlk` | `virtio-block/virtio_block.c` and the device | registers, descriptors, two rings, buffers; the driver's steps between barriers, the device's steps |
| `BlockDevice` | what a block driver promises (abstract) | call, perform or refuse, return |
| `AddressSpace` | `kernel-alloc/heap.c`, `kernel-vm/` and `elf_load` | operators on a heap: allocation, page tables, mapping, translation, clone, loading |
| `ProcessMemory` | address spaces in `ch4/main.c` and `ch5/main.c` (`ch6` to `ch8` repeat them) | `heap`, roots of the page tables; loading, fork, exec, what programs and calls write |
| `PrivateMemory` | what address spaces promise (abstract) | memory of each process by address; no pages |
| `MCMemory` | `ProcessMemory` | the programs of the run and the mapping to `PrivateMemory` |
| `AppKernels` | `ch2`, `ch3`, `ch4/main.c`, `linker/linker.c` | list of programs, memory, task table, timer; loading, scheduling, traps |
| `TurnQueue` | what these kernels promise their programs (abstract) | a queue that rotates or loses its head |
| `RingQueue_proofs` | | the ring's type, indices and refinement |
| `Kernel7_proofs` | | handlers return to the program they interrupted; types; what becomes of an exit; the family's lists; the ring |
| `Kernel8_proofs` | | the inductive invariant of `Kernel8`: type, places, waits, mutual exclusion; what the kernel gives its programs: semaphore ledger and supply of ids, exits and waitpid, no lost thread, the refinements of `FifoLock` and `CountingSemaphore` |
| `EasyFs_proofs` | | the block cache is one array of blocks; builder and kernel mean the same areas; every call of `Files` leaves the disk up to date |
| `VirtioBlk_proofs` | | driver and device agree; together they are a block device |
| `AppKernels_proofs` | | the loop's count; code in its place; programs take turns |
| `Memory_proofs` | | a page of the heap has one use; a page is missing only when the heap is full |
| `FoldInduction` | | what each step of a loop keeps, the loop keeps: instantiated with the loops of `EasyFs` and `AddressSpace` |

**Correspondence.** A wait queue in `Sync` is a sequence, which
`RingQueue` shows the ring to be: `RingImplementsFifo` is proved for every size
and every initial content. A `process_t` or `thread_t` field is a function on
`Pids` or `Tids`. A mutex pointer in `process_t.mutexes[i]` is the object
`<<"mutex", pid, i>>`; `objects` is the set of entries that are not `NULL` (no
entry ever becomes `NULL` again; exec and exit keep the tables). Slot indices, thread
ids and process ids are the code's own integers; `TID_INVALID` and
`PID_INVALID` are -1, and the two meanings of `PID_INVALID` in `waiting_for`
("not waiting" and "any child") are kept.

**One action, one iteration.** An action such as `MutexUnlock(t, i)` requires
`Runs(t)` (t is the head of the ready queue and has not exited), applies the
handler, then `Return`: `signal_handle` on the process of `t`, with the three
outcomes of the code (killed: the thread and the process are marked, and the loop
continues; blocked: not queued; otherwise queued at the end). The order in the
code matters and is kept: a woken thread is queued *before* the running one, a
kill is looked at before exit and before blocking, and a killed thread stays
in the wait queue the handler has just put it in.

**The slots of the pools are zero at boot**, so an unused slot has
`parent = 0`, `waiting_tid = 0`, `waiting_for = 0`. `Init` says so, because
`do_waitpid` and `main` read such slots.

**Workload.** User programs are arbitrary sequences of system calls, so the
models allow every call a name in `Workload` stands for, at every turn of every
thread. Five names add liberties a well-behaved program does not take: unlock
mutexes it does not hold, relock one it holds, name objects that do not
exist, wait for children in two threads at once, and run out of memory in
`fork`. Calls that change none of the modelled state (read, write, open, close,
yield, getpid, gettid, waittid, clock_gettime, a failed exec) are one action,
`Plain`.

**ch5 to ch7.** These kernels have processes of one thread, and nothing blocks:
`waitpid` answers -2 while the child lives, the program yields and asks again.
The process manager's ring has no count, so with `MAX_PROCS` entries it looks
empty; `queue_push` in `ProcManage` does that. The running process is not in the
code's ring; `Kernel7` leaves it at the head of `pm.ready` between two
iterations and takes it off first (`Popped`). A user context is reduced to where it
runs (the program or a handler) and to what its `a0` holds: the argument the
program put there, the result of a call, or the number of a signal. That is
what a handler's entry, `sigreturn` and the loop's last assignment change.

**Files.** The kernel is not interrupted, so a file call is one action, but not
one step on the data: the operators of `EasyFs` pass a record of slots and
device along the chain of lookups, loads and stores that the C code makes. A
`block_cache_t *` is a `Pointer`, a slot with the block it was obtained for. It
is `Fresh` while the slot still holds that block; using one that is not sets
`stale`. What such a use overwrites is not modelled, and with
`StalePointers = FALSE` the calls that would do it are not taken; which they are
is in section 7. A *word* stands for a unit of data, a directory entry and a
block number alike, `BLOCK_SZ` words make a block, and a bitmap block has
`BLOCK_BITS` bits. `DiskLayout` computes the areas from the device's size as
the two programs do, and `Files` mounts the image `FsPack` made. Block 0
begins with the super block's word, without which `efs_open` fails and `main`
switches the machine off (`HasMagic`, `Boot`, `Begin`). `MCFiles` adds three
variables: `shown` is the device as programs see it, worked out once per state,
the refinement mapping to `FileStore`; `packed` is the list of files the image was
made of, and `changed` the names programs have opened to write.

**The driver and the device.** `virtio_blk_rw` is one action up to the store to
`avail->idx` (nothing before it is visible to a device that obeys the queue), then
`Publish`, `Notify` and `Reap` are separate, since a barrier or a register access
stands between them and the device may act. Both sides see stores in program order:
the driver's barriers are taken to order them, and weaker orders are not modelled. The device takes a chain, serves it
or refuses, and completes it, whenever it likes. `INDEX_RANGE` is the number of
values of the 16-bit indices. `regs` keeps how far the initialisation came.

**Address spaces.** Addresses count words of 8 bytes, the size of a page table
entry and of an `address_space_t`, and a page has `PTE_PER_PAGE` words. A heap is
a record: where the next allocation is, where memory ends, and what each page
holds. An operation returns the heap after it and, as `at`, what it got
(`NULL` when there was no room). The kernel is mapped to its own addresses, so the
page tables are in the pages they map, as in the code. An address space is named by its root
page, twice: `as` is what the kernel translates with for the process, `satp`
what the processor translates with for the program. They are fields of
different structures, and exec has to replace both. Unused memory may hold
anything: `Leftovers` has a word that is no entry and one that looks like a good one.
A call writes within one page; section 7 says why. `shown` is what each program
can see through its `satp`, the refinement mapping to `PrivateMemory`. `Loop` is
a `for` loop of the code.

**Linked programs.** `AppKernels` has the three kernels as three values of one
variable, as they share the list of programs and the task table. A program is its
number in the list; what it does next (compute, call, yield, end) is open. A place
in memory is an offset from the base in units of the step, so with `ch2` all
programs share one place, and with `ch3` each has its own. The ch3 timer counts steps of
the program down and is set again on every return to it, as the code does.

**History variables.** `holders[m]` collects the threads to which mutex `m` was
granted and that have not released it; `reported[p]` collects the exit codes
the parent of `p` was told (in both kernels). Nothing reads them except properties and, for
`holders`, the guard that makes a careful program release only what it holds.

## 3. What the runs check

| run | instance | properties | what it shows |
|---|---|---|---|
| `ring` | 3 threads, 3 places, all initial arrays | `ImplementsFifo` | the ring is a bounded FIFO over every wrap |
| `k8_threads` | 4 threads of one process; a mutex, a semaphore (0 or 2), a condition variable | `SemaphoreLedger`, `MutualExclusion`, `NoLostThread`, `MutexIsFifoLock`, `SemaphoreIsFifo`, `EveryReadyThreadRuns`, `MutexWaiterGetsLock` | no thread is lost, a mutex is granted to one thread at a time, mutex and semaphore behave as their abstract specifications, threads that exit while holding included; the ready queue starves nobody and a waiter gets the mutex |
| `k8_procs` | 3 processes of 2 threads | `NoLostThread`, `WakeIsWanted`, `NoMissedExit`, `ExitedProcessQuiet`, `DeadProcessExited`, `ReportedOnce`, `TidSupply`, `WaiterIsWoken` | fork, exec, thread_create, exit and waitpid in every order; a thread in waitpid is woken if children exit |
| `k8_signals` | 2 threads, SIGSTOP, SIGCONT, a catchable signal, masks, handlers, ill-behaved calls | `UniquePlace` | death and delivery in the middle of any call put nobody in two places |
| `k7_procs` | 4 process ids, lists of 2 | `TypeOK`, `ReadyIsLive`, `FamilyTree`, `ReportedOnce`, `NoExitLost`, `EveryProcessRuns` | fork (and its failures), exec, exit, faults and polling waits in every order, adoption by process 0 included |
| `k7_signals` | 2 processes, SIGSTOP and a signal that is SIGCONT and can be caught | `ReadyIsLive`, `HandlerContext` | handlers return to the program they interrupted; stopped and killed processes leave the ring consistent |
| `files` | 30 images, of which programs run on 3; 2 processes, 2 names, 22 blocks of 2 words, 7 slots | `BlocksAccounted`, `Durable`, `AsPacked`, `IsFileStore` | what programs see is a store of files, no block is lost or shared, every call that returned is on the device; the kernel finds what was packed, whatever the sizes |
| `virtio` | 4 descriptors, indices modulo 8, 2 sectors and one the device does not have | `DescriptorsReturn`, `IndicesAgree`, `IsBlockDevice`, `EveryRequestEnds` | each request is carried out once and returns, whenever the device looks |
| `memory` | 3 processes, 3 levels of tables of 8 entries, 11 sizes of memory, 3 programs | `PagesHaveOneUse`, `CompleteUnlessFull`, `IsPrivateMemory` | programs see what was loaded, copied by fork, replaced by exec or written, and nobody else's memory, memory running out in any operation included |
| `apps` | the three kernels, lists of 0 to 4 programs, tables of 3 | `StopsWhenDone`, `RunsItsOwnCode`, `TakesTurns`, `EveryAppRuns` | programs take turns, run their own code and end before the machine is switched off |
| `find_*` | smallest instance that shows it | one each | section 7 |

The properties, by the question they ask:

- *Where is a thread?* `UniquePlace`: in at most one of the ready queue, the
  wait queues and its process's `waiting_tid`, and once. `NoLostThread`: a live
  thread is in one of them.
- *Do the primitives keep their word?* `SemaphoreLedger` (a negative count is
  the number of queued threads), `MutualExclusion` (hand-over included),
  `MutexIsFifoLock`, `SemaphoreIsFifo` (refinements).
- *Does exit meet waitpid?* `WakeIsWanted` (whoever is woken does wait),
  `NoMissedExit` (nobody waits for an exit that is past), `ReportedOnce`,
  `DeadProcessExited`, `ExitedProcessQuiet`, `WaiterIsWoken`.
- *And in ch5 to ch7?* `ReadyIsLive` (the ring holds every live process once and
  nobody else), `FamilyTree` (the lists of children and the parent fields say
  the same), `NoExitLost` (an exit stays on the parent's list until it is
  asked for), `EveryProcessRuns`, `HandlerContext` (in a handler exactly while
  the manager says so, and what is saved is the program's context).
- *Do files keep what was written?* `IsFileStore` (what programs read is what they
  or the tool wrote, with an offset for each open file of each process), `BlocksAccounted`
  (every data block has one owner, and a bit is set exactly for what is used),
  `Durable` (nothing is left in the cache only when a call returns), `AsPacked`
  (on the device are the super block and exactly the files this image was packed with,
  `initproc` among them, each with its content; files nobody opened to write stay so).
- *Does the driver work beside its device?* `IndicesAgree`, `DescriptorsReturn`,
  `IsBlockDevice`, `EveryRequestEnds`.
- *Is memory private?* `IsPrivateMemory` (each program sees the content of what was
  last loaded or forked, with its own changes), `PagesHaveOneUse` (a page is one
  table or one page of one program, and never given out again), `CompleteUnlessFull`
  (a process lacks a page of the kernel, its program or its stack only when the heap is full).
- *And the linked programs?* `StopsWhenDone`, `RunsItsOwnCode`, `TakesTurns`,
  `EveryAppRuns`.
- *Do the tables suffice?* `TidSupply`: ids are never given back, yet
  `create_thread` cannot fail while a process or the process table has room.

Each property of a passing run is paired, under `mutants` in `PROJECT.json`,
with a plausible bug in the modelled code under which TLC finds it violated;
the mutated forms stand next to the originals, marked `Mutant`.

Deadlock is not checked in the `Kernel8` and `Kernel7` runs: with an empty ready queue `main`
prints "no task" and powers the machine off, which is where those behaviours
end. `apps` and `virtio` stop for the same reason (shutdown, a failed probe),
`files` after `MAX_CALLS` calls, and `memory` when no program could be loaded.

## 4. Bounds

- `MAX_PROCS`, `MAX_THREADS`, `MAX_SYNC_OBJS`, the queue sizes: the code has
  16, 16, 16, 16 (wait queue) and 64 (ready queue). The instances have 1 to 4 processes, 1 to 4 threads, one object
  of each kind. Four threads give a holder, two queued threads and one in
  between, the smallest case in which FIFO hand-over can go wrong; three
  processes give a grandparent, a parent that is also a child, and a child,
  the smallest in which a report can reach the wrong generation.
- In the runs `READY_QUEUE_SIZE` is the number of thread ids. The code has 64 places for
  256 ids, so the runs show it up to its 64th thread; beyond, it drops threads
  (section 7), and `NoLostThread` says so (`RoomForAll`).
  `WAIT_QUEUE_SIZE >= MAX_THREADS` is an
  assumption of the module, with the code's values (both 16).
- In `Kernel7`, `MAX_PROCS` and `MAX_CHILDREN` (64 and 32 in the code) are 4 and 2,
  or 3 and 1. A fork is not taken while more than `MAX_CHILDREN` processes live
  or wait to be reported, unless `Workload` has `crowd`: beyond it the code
  drops children silently, and with as many ready processes as the ring has
  places it drops all of them (section 7). Four ids give a grandchild whose
  parent exits before it, the smallest adoption. The two liberties `crowd` and
  `handler_calls` (fork or exec in a signal handler) are taken by no passing run.
- `MAX_COUNT` bounds a semaphore's count: an `up` at the bound is not taken. In
  the code the count is an `int`. Initial counts are not negative.
- `g_next_tid`, `g_next_pid` and `g_pid_counter` stop at the size of their table: beyond it only
  the comparison with that size is ever made (until 2^32 calls wrap the counter,
  which is not modelled).
- `files`: blocks of 2 words, 2 direct blocks and bitmap blocks of 10 bits (512
  bytes, 28 and 4096 in the code) make a file of five words cross from the
  direct blocks into the first index block, and the packed file of ten words
  into the second; 22 blocks leave room for the files and one more, and their 13 data blocks
  need the second bitmap block; 7 slots (16 in the code) are fewer than the blocks a few calls touch,
  so slot 0 is given away in the middle of operations. The tool has 16 (256 in the code), enough for it to
  use no stale pointer: with 12 a bitmap block takes the inode's slot while a file grows. The 30 images
  have files of 0 to 10 words, before and after `initproc`, and directories of 2 to 9 entries, 2 to a block:
  a directory grows an entry at a time, so it also grows from exactly the direct blocks, and past the first
  index block. The kernel mounts each; programs run on three (`MCUsed`), for fewer calls
  (`LONG_DIRECTORY_CALLS`) on the one whose directory has an index block. The loops are folds over their indices, of which there are at most
  `MAX_ROUNDS`, the words of the device: no file or bitmap is longer. Five calls (`MAX_CALLS`; refused ones do not count) allow open,
  write, read back through a second open file, and a fork or exec in between. Guards leave out: growth on a full
  device and from exactly the direct blocks (`MayGrow`, `RoomToCreate`), emptying
  a file past the first index block (`MayEmpty`), and calls that use a stale
  pointer (`StalePointers`); section 7 says what the code does then.
- `files` begins with descriptor 2 open, since what is written to 2 goes to the console.
- `virtio`: 4 descriptors, one more than a request takes, so that heads differ;
  8 index values, two rounds of the ring, wrap within a few requests. The sizes
  are 8 and 65536 in the code, and the theorems hold for those.
- `apps`: `MAX_COUNT` 4 is one more than `MAX_APPS` and `MAX_PROCESSES`, so that a
  program is left out; an interval of 2 steps.
- `memory`: three levels of tables as in the code, of 8 entries (512 in the code), so a
  program's pages, its stack and the kernel need tables of their own at each level. The 11 sizes
  of memory end in turn inside the first load, the stack, a fork and an exec, and the
  largest has room for three processes and an exec. The programs are one segment with a `.bss` of more
  than a page, two segments with different rights and the second in the middle
  of a page, and a file that is no program. Writes go to one word of a program, which
  the two-segment program may not write, and one of the stack.
- `ExitCodes`, `Signals`, `SemCounts` are small sets of inputs. Exit codes
  are compared and copied only, signals fall into five classes (kill, stop,
  continue, ignored by default, fatal by default).

## 5. Fairness

`LoopSpec` is weak fairness of `Next`: the machine goes on, `main` loops while
a thread is ready. `ReleasingSpec` adds, per thread, strong fairness of
`MutexUnlock`: a thread that has the mutex again and again at its turn
eventually unlocks it, which is a promise of the user program, not of the
kernel, and the least under which anybody can expect the lock. `ExitingSpec`
adds the same for `Exit`, and is the specification of `k8_procs`. In `Kernel7`, `LoopSpec` is weak fairness of `Next`
too, and all that `EveryProcessRuns` needs. There is no fairness on which thread runs: that is
what the FIFO ready queue has to deliver, and `EveryReadyThreadRuns` needs
nothing but `LoopSpec`; the run of `k8_threads` has `ReleasingSpec`, which implies it.

In `VirtioBlk`, `FairSpec` is weak fairness of the driver's steps (the kernel runs
on) and of a device that *was notified*: it looks, serves and completes. A device
that was not notified need never look, which is why a lost notification shows.
In `AppKernels` it is weak fairness of `Next`, and strong fairness per program of
what gives the processor back: under `ch2` and `ch4` that the program ends, under `ch3`
that it ends, yields, or computes for a whole interval without a call again and
again. The last is needed because every call starts a new interval; without it
`EveryAppRuns` fails for `ch3`. The `files` run has no liveness: every call runs to its end.

## 6. What is proved

TLAPS proves these theorems for every value of the constants that satisfies
the named assumptions: `RingAssumption` for the ring, `SizesAssumption` and
`KernelAssumption` (the sizes are positive, codes and counts are integers) for
the ch8 kernel, `ProcSizes` and `Kernel7Assumption` (the same) for ch7,
`CacheAssumption` (at least one slot and one block) and `LayoutAssumption`
(positive sizes) for easy-fs, `VirtioAssumption` (a queue of at least three
descriptors, whose size divides the number of index values) for the driver,
`AppAssumption` for the linked programs, `EasyFsAssumption` (positive
sizes) and `FilesAssumption` (the lists of files to pack are sequences) for files, `PageAssumption`,
`MemoryAssumption` and `ApartAssumption` for address spaces: the kernel's pages lie below the heap, the
smallest memory has room for the kernel's root table, a segment has some right and no more bytes than memory, and programs
and their calls write outside of the kernel's part of the address space. The last is not something the code
looks at: a call's pointer is translated without asking for the user flag
(`ch5/main.c:219`), so it is a promise of the programs. `ApartAssumption` is one of the linkers: the pages
of the kernel and the memory after it, of each segment and of the stack have places of their own in the tables
(programs are linked at 0x10000 by `user/user_linker.ld`, kernels at 0x80200000, the stack ends at 1 << 38).
Of the 34 that `PROJECT.json` lists, 28 are also a property of a run;
`CacheInvariant`, `CacheIsBlockStore`, `LayoutHolds`, `KernelTypeOK`, `RingTypeOK` and `RingIndicesAgree` are stated for proof alone.

| theorem | module | property | further assumption |
|---|---|---|---|
| `RingTypeOK`, `RingIndicesAgree`, `RingImplementsFifo` | `RingQueue_proofs` | type, indices against count, refinement of `BoundedFifo` | - |
| `KernelTypeOK` | `Kernel8_proofs` | `TypeOK` | - |
| `KernelUniquePlace` | `Kernel8_proofs` | `UniquePlace` | - |
| `KernelWakeIsWanted` | `Kernel8_proofs` | `WakeIsWanted` | - |
| `KernelMutualExclusion` | `Kernel8_proofs` | `MutualExclusion` | `Careful`: programs unlock only what they hold |
| `KernelSemaphoreLedger` | `Kernel8_proofs` | `SemaphoreLedger` | `QueueHoldsAProcess`, of `Kernel8`: a wait queue has room for all threads of a process (16 and 16 in the code) |
| `KernelTidSupply` | `Kernel8_proofs` | `TidSupply` | - |
| `KernelExitedProcessQuiet`, `KernelNoMissedExit`, `KernelReportedOnce` | `Kernel8_proofs` | `ExitedProcessQuiet`, `NoMissedExit`, `ReportedOnce` | `NobodyKills`: no signal is sent |
| `KernelDeadProcessExited` | `Kernel8_proofs` | `DeadProcessExited` | `NobodyFaults`: no thread ends by an exception or an unsupported call |
| `KernelNoLostThread` | `Kernel8_proofs` | `NoLostThread`, which speaks of the time when the ready queue has a place for each thread created | `Considerate`: objects named exist, one thread of a process at a time in waitpid |
| `KernelMutexIsFifoLock` | `Kernel8_proofs` | `MutexIsFifoLock`, refinement of `FifoLock` | `Careful`, and `NobodyRelocks`: nobody locks what it holds |
| `KernelSemaphoreIsFifo` | `Kernel8_proofs` | `SemaphoreIsFifo`, refinement of `CountingSemaphore` | `QueueHoldsAProcess` |
| `KernelHandlerContext` | `Kernel7_proofs` | `HandlerContext` | `HandlersStay`: no fork or exec in a handler |
| `Kernel7Types`, `Kernel7ReportedOnce` | `Kernel7_proofs` | `TypeOK`, `ReportedOnce` | - |
| `Kernel7FamilyTree`, `Kernel7NoExitLost` | `Kernel7_proofs` | `FamilyTree`, the action property `NoExitLost` | `NobodyCrowds`: at most `MAX_CHILDREN + 1` processes alive or not yet reported |
| `Kernel7ReadyIsLive` | `Kernel7_proofs` | `ReadyIsLive` | `NobodyCrowds`, and `RingHolds`: the ring has more places than that (64 and 33 in the code) |
| `CacheInvariant`, `CacheIsBlockStore` | `EasyFs_proofs` | `OneSlotPerBlock` and `CleanIsCurrent`; `IsBlockStore` | callers use a pointer before their next lookup (`CacheSpec`) |
| `LayoutHolds` | `EasyFs_proofs` | `LayoutAgrees` for every size of device | `BigEnough`: room for one data block |
| `CallsAreDurable` | `EasyFs_proofs` | `Durable` | - |
| `DriverDeviceAgree`, `NoDescriptorLost`, `DriverIsBlockDevice` | `VirtioBlk_proofs` | `IndicesAgree`, `DescriptorsReturn`, `IsBlockDevice` | - |
| `LoopStopsWhenDone`, `CodeInPlace` | `AppKernels_proofs` | `StopsWhenDone`, `RunsItsOwnCode` | - |
| `ProgramsTakeTurns` | `AppKernels_proofs` | the action property `TakesTurns`, refinement of `TurnQueue` | - |
| `OnePageOneUse`, `MissingOnlyWhenFull` | `Memory_proofs` | `PagesHaveOneUse`, `CompleteUnlessFull` | - |

Assumptions with a name of what programs do (`Careful`, `NobodyKills`, ...) leave
one or two elements of `Calls` out of `Workload`, and nothing else. Each is needed: without
it TLC finds the property violated, for the reasons in section 7. Theorems without one hold whatever the
programs do: foreign unlocks, relocks, invalid objects, two waiters, kills, faults and crowds.
All theorems hold for every size of the tables, in `Kernel8` also for those of the
code, where the ready queue is smaller than the thread pool.

**The ring.** The invariant (`RingInv`) says the type and that `tail` is `head`
plus `count` around the ring. The mapping to the abstract sequence reads `count`
places from `head`, so the places outside may hold anything.

**One place, wanted wake-ups.** `KernelInv == TypeOK /\ PlacesInv /\ WaitInv`.
`UniquePlace` alone is not inductive: a thread could be given a second place
when it is created, when it is woken, or when fork leaves zeros in the child.
`PlacesInv` therefore says of the five values ready queue, wait queues,
`waiting_tid`, `thread_pid` and `g_next_tid` that only ids below the counter
are in a place, that no two places share one and none holds one twice. It is a
predicate of five arguments, and not of the variables, because an
iteration of the loop is a chain of small moves (take the head, push on a wait queue,
wake, create, requeue) with states in between that no step shows; `Hand(t, ...)` says that `t` is in no place,
in the kernel's hands, and one lemma per move carries both along the chain.
`WaitInv` says what `waiting_tid` may be: invalid, a thread in `waitpid`, or the
zero that boot or fork left together with `waiting_for = 0`. That zero never wakes
thread 0, since process 0 is nobody's child; this is why `WakeIsWanted` holds
although `do_fork` does not reset the fields.

**Mutual exclusion.** `MutexInv`: an unlocked mutex has no waiters and no
holder, an object that does not exist is unlocked, and holders are at most one.

**Capacity.** `OwnInv`: every created thread is on the list of its process, no
list is longer than `MAX_THREADS`, and threads wait only for objects of their
own process. So the queue of an object and the running thread are distinct
members of one list, a push is never refused, and the count stays in step with
the queue. For the ids: the map from a thread to its process and its rank
among the process's threads is injective into the table minus the place that is
still free, so by the pigeonhole principle some id is left.

**Exits and waitpid (ch8).** `ExitsInv` joins the three properties, for none is
inductive alone: that nobody runs in an exited process keeps a told exit from being told
again, and that an exited child of a waiting parent does not exist rests on both. It needs what
process slots hold before they are used (`UnusedInv`) and that the list of a process
has exactly the threads whose `thread_pid` names it (`MembersInv`); the two and `KernelInv`
are `SlotsInv`. Looking for a zombie and going to wait is one iteration, as is exiting and
waking, so the proof is one step per call and not one per interleaving.

**No thread is lost (ch8).** `FoundInv`: every thread created is exited or
in a place that belongs to it. Between a handler and the end of the iteration it
holds for all threads but the running one (`Others`), and each small move of the
chain that carries `Places` keeps it. `Distinct` and the bound `RoomForAll` make the
ready queue accept (`RoomToRun`), `OwnInv` makes a wait queue accept (`RoomToWait`),
and `EmptyInv` (an object that does not exist has no waiters) makes creating one
forget nobody.

**FIFO locks and semaphores (ch8).** The mapping takes the thread the mutex
was granted to for the holder of `FifoLock` and the wait queue for its waiters, and `count + Len(wait_queue)` for the permits of
`CountingSemaphore`. A step of any system call maps to one step or a stutter for each
object: `condvar_wait` unlocks and locks in one iteration, which is the abstract step
`GiveWay`, or nothing when nobody waits. For the lock the invariant adds that a locked mutex has a
holder (`HeldInv`): without it a thread could queue for a lock that nobody has.
The ledger and `RoomToWait` make `sem_down` queue exactly when there is no permit.

**Handlers.** `HandlerInv`: the process manager is a record whose slots are
process ids, and for every process the context, the saved context and the
signal manager agree. Between the handler of a call and the end of the
iteration these are values, not variables, so `Agree` takes them as arguments,
and one lemma, `ReturnKeeps`, carries it through `Return` for every call. It
rests on `HandleHandling`: `signal_handle` enters a handler only from
`handling = none` and never ends one.

**An iteration of ch7 in two halves.** A call changes the manager in its own way,
and then the loop suspends or exits the process, each call in the same two ways. `Middle(p, m)`
names the three things a call can have made of the manager (nothing, a child is born, a
zombie is reaped), `Ends` the two ends; `ProcessIteration` shows that every action of `Kernel7` is one
followed by the other, and an invariant is then proved once for each, not once per call.

**Exits are told once (ch7).** `OnceInv` is the type and `Once`: pids on a zombie list
are below the next pid and not alive, no pid is twice on the lists, on the same
or on different ones, what is on a list has not been told, and what was told was told once.
Adoption moves whole lists, so the proof is about injective sequences and what
appending and removing do to them (the lemmas before it).

**The family and the ring (ch7).** `TreeInv` adds `Family` and `Roomy`. A parent's pid
is smaller than its child's, so nobody adopts its own parent; every live process but
the first is listed by its parent and by nobody else. `Roomy` counts the processes alive or
on a zombie list: at most `MAX_CHILDREN + 1`, so no list is full when something is to be
added, which is what `NoExitLost` needs for the exit itself (`RoomForZombie`). The same
count is below the size of the ring, so `queue_push` never wraps to "empty", and the ring
holds the live processes and each once.

**The block cache.** The invariant is that no block is in two slots and that a
slot that is not marked holds what the device holds. It makes every operator
invisible (`SameView`): a lookup that replaces slot 0 first writes it back, or need not, so the
block it held is seen on the device as it was seen in the slot, and nothing else
holds it. `CacheIsBlockStore` maps the cache to the one array that `View` shows.
The hypothesis is that callers use a pointer before their next lookup; where easy-fs does
otherwise is in section 7.

**The layout.** Rounding up (`CeilDivBounds`, `DivBelow`) gives every inode a
block inside the inode area. A bitmap block for every `BLOCK_BITS + 1` blocks of
the rest covers the data blocks that are left, since the bitmap's own blocks are among the rest.

**Calls are durable.** `Clean(c)` says that the cache agrees with the device and that no slot
is marked, `Sound(c)` only that the cache holds what it should. Each operator of
`EasyFs` keeps `Sound`, and each that ends in `block_cache_sync_all` makes it `Clean`; so the
proof follows the calls and never looks at what is in the blocks. That is what makes it possible for files of
any size: the loops over blocks, bits and entries are folds, and all that is needed of one is that it keeps
`Sound`. The provers cannot be given the step of a loop as an argument of a lemma, but they
take a lemma from an instance of its module: `FoldInduction` proves by the least
counterexample that a loop keeps what each step keeps, with the step and what it keeps as constants, and is
instantiated once for each loop.

**Pages have one use.** The property speaks of the paths that lead to a page, and
nothing in a step shows that two paths do not meet. The invariant therefore
gives each page in use an owner, the path it was made for (`Owns`): an entry of an owned
table leads to the page whose owner is that table's path and the entry's index, or
is a leaf of the kernel. Owners are only ever added (`Extends`), to pages that
`heap_alloc` has just given out and that lie above all others (`PagesFrom`); what is written afterwards
goes to a table in the entry that its owner names (`WriteEntry`), or to a page without one
or of a program (`WriteFree`). Each loop (clearing, copying, mapping, the segments, the three levels of a clone)
is an instance of `FoldInduction` with "there are owners that extend the old ones" for what it keeps. Since a page has
one owner and every use of it is under its owner's path, two uses are one.

**Missing only when full.** `CompleteUnlessFull` says nothing of how a page came to be there, so
it is not inductive. `PlacesInv` adds what each live address space has *in place* (`InPlace`): a valid last
entry with the flags of the part it belongs to, under tables that its owner names; an address space is named by when it was made,
since exec leaves the old one where it is. Three arguments carry it. What a loop maps *stays*: `Held` compares the heap with a
`Past`, a heap and its owners, and lets no valid entry of the past change except in the places the loop is `open` to map,
and the pages still to be mapped differ in place from those that are (`ApartAssumption`). What it cannot map *never fits
again*: an allocation fails only if there is no room (`PagesOrFull`), and room only shrinks (`RoomShrinks`), also
when it was a table on the way that was missing (`WalksOrFull`, `MapsOrFull`). And what `as_clone` makes is *alike*: the clone of
each table has for each valid entry of the source the same leaf of the kernel or a copy with the same flags (`Level2IsAlike`
to `Level0IsAlike`); a clone that fails makes `fork` fail, so no process runs in half of one. The loops are those of the section above,
with what they keep now a function of the step (`LoopReaches` of `FoldInduction`: after step k the first k pages are in
place, or there is no room).

**Driver and device.** `BlkInv` says, per place of the driver, what the three
indices are to each other, which descriptors are taken, and that the chain in the
shared memory is the caller's request (`RequestInQueue`); the device may look in
any of those states. `ThreeFound` shows that the three descriptors are there and
differ. `RequestNext` then maps each step to a step of `BlockDevice` or a stutter: the
call to `Call`, serving to `Perform` or `Refuse`, `Reap` to `Return`, the rest to nothing.

**Linked programs.** `AppInv`: the loop's count is the number of unfinished
tasks, those past the loaded ones are unused, and a program that is to run was
loaded and is in its place. Copies go to places in the order of the list, so a
later one cannot hit an earlier one (ch3), or the earlier has ended (ch2).

**Turns.** The queue of `TurnQueue` has the unfinished programs by the rank of their
turn: how many unfinished ones come before, counted around the table from the one that has it. `TurnInv`
says that the loaded tasks fill the front of the table and that `current` is one of them while
one is left. A step moves the turn to the next unfinished program, so each of the others
comes one rank closer (`Far`, `FrontGoes`), which is what `Tail` and `Append` do to the queue.

**Checked by TLC only.**

- Liveness: `EveryReadyThreadRuns`, `MutexWaiterGetsLock`, `WaiterIsWoken`, `EveryProcessRuns`,
  `EveryRequestEnds` and `EveryAppRuns`. Liveness under fairness and ENABLED are out of the prover's reach.
- `AsPacked` and `IsFileStore` of the `files` run: what a file holds is a fold over its blocks and the
  directory's entries. That a loop keeps a property can be proved (see above), what it computes from its data cannot.
- `BlocksAccounted` of the `files` run. Owners, as for the pages of the heap, would carry it, under assumptions
  the calls have as guards and the tool has not: the lists of files fit the image, and no pointer of the tool's is stale.
- `IsPrivateMemory` of the `memory` run: it needs the content of every page, which is what the loops copied.

## 7. Where code and comments disagree

Two have a run that TLC finds violated; `findings` in `PROJECT.json` quotes the
lines.

- `find_condvar`: `condvar_wait_with_mutex` unlocks and relocks the mutex and
  never queues the thread on the condition variable. With nobody queued for
  the mutex it returns at once; `condvar_signal` never finds a waiter.
- `find_handler_arg`: `main` writes the call's result into `a0` after
  `signal_handle` has put the signal number there, in `ch7` and in `ch8`; the
  handler gets the result of the interrupted call as its argument.

Seen while modelling, without a run of their own. The passing runs check the same
properties with workloads or guards that leave these cases out.

Processes and threads:

- Unused pool slots of `ch8` have `parent = 0` (`ch8/main.c:466`), so process 0 without
  children blocks for ever in `waitpid` instead of getting the -1 that
  `initproc.c:21` expects.
- The loop of `ch7` continues for a stopped process before it looks at
  the call (`ch7/main.c:615`), so the exit of a stopped process returns to the program.
- In `ch8` a process killed by a signal does not wake the parent that already
  waits for it (`NoMissedExit` fails with `kill`), and a fault in the last
  thread of a process does not make the process exit (`DeadProcessExited` fails
  with `exception`).
- A second thread of a `ch8` process in `waitpid` overwrites `waiting_tid`, and
  the first is never found again; a lock or wait on an object that does not
  exist answers -1, and `main` blocks the caller for ever (`NoLostThread`
  fails with `many_waiters` and `bad_id`).
- A fatal signal in `ch8` marks only the thread that met it, and the other
  threads of the exited process run on (`ExitedProcessQuiet` fails), and the last of
  them exits the process again (`ReportedOnce` fails with `kill`). `main` ignores
  "suspended", so a stopped process runs on.
- In `ch7`, a program that replaces itself (exec) or forks in a handler:
  exec keeps `handling = user`, after which the process can no longer be signalled; a
  forked child runs the handler and its `sigreturn` fails (`HandlerContext` fails with
  `handler_calls`).
- The ready queue of `ch8` has 64 places for up to 256 threads (`ch8/main.c:99`, `:94`) and
  `ready_enqueue` drops what does not fit: with 65 ready threads one never runs again.
  `NoLostThread` fails without its `RoomForAll`.
- With as many ready processes as the ring has places the `ch5`-`ch7` kernels
  find "no task"; a child beyond the list's size is never recorded
  (`ReadyIsLive`, `FamilyTree` fail with `crowd`).
- A thread that locks what it holds queues itself behind itself, and one that unlocks what
  another holds frees it (`MutexIsFifoLock` fails with `relock`, `MutualExclusion` with
  `unlock_any`); the code checks no owner (`sync.c`).
- A thread that blocked on a mutex sees -1 as the result of its lock although it
  was later handed the mutex; after a handler the program sees the
  result of `sigreturn` instead of its own call's.

Files and devices:

- `inode_write_at` (`easy_fs.c:402-406`) uses the inode pointer it obtained before
  the file grew; the lookups of the growth may have given its slot to another
  block. The copy in `fs_pack.c:530` obtains it again and says why. `inode_clear`'s
  pointer to the index block and reads that cross blocks have the same shape
  (`IsFileStore` fails with `StalePointers = TRUE`). `read_all`'s chunks of one block are safe.
- A file that grows from exactly 28 blocks takes block 0 for its index block
  (`easy_fs.c:211`, where `fs_pack.c:357` has `<=` for `<`), and writes into the super block:
  `AsPacked` fails without `MayGrow`'s guard, or with that comparison in the tool.
- On a full device `efs_alloc_data`'s -1, or the number of a bit past the last block, is
  stored as a block number: the last bitmap block has more bits than there are blocks.
- The kernel does not grow files past the first index block (`easy_fs.c:227`) and
  does not give back the blocks of the second when it empties one.
- A name of more than 27 characters is cut when a file is created and compared in
  full when it is looked up (`easy_fs.c:376`, `:322`), so it is never found again.
- `open` gives out descriptor 2 first, but what is written to 2 goes to the console
  (`ch6/main.c:264`): `user/bin/filetest_simple.c:16` and `:28` write to that descriptor.
- The adapter of the driver ignores the result of a request
  (`virtio_block.c:267-275`), so a refused read leaves whatever the buffer held.
- Exit does not close files; `fork` does not check that the heap had room for the copy of an open file
  (`ch6/main.c:175`).

Address spaces:

- `as_map`, `as_map_extern` and so `elf_load` leave out what they have no memory for
  and return nothing (`address_space.c:74`, `:105`): a process may start without its stack.
  `as_create` and `as_clone` do say when they fail.
- User buffers are translated at their first byte only. The pages of a
  segment follow each other when it is loaded, but a clone takes tables and pages
  in turn, so in a forked process the bytes past the first page go to another page.
- `heap_free` does nothing and `as_destroy` (a TODO) calls only that: every exec, failed load and exit
  keeps its pages.

Linked programs:

- In `ch3` each system call sets the timer again (`ch3/main.c:222`), so a program that calls
  often is never preempted, though `ch3/main.c:4` promises preemptive scheduling.
- `sched_yield` of `ch4` does not switch, because the loop takes the first
  process that has not ended. Programs past the size of the table are left out silently.

## 8. What is not modelled

- Registers and return values of system calls, except where they decide about
  blocking and, in `Kernel7`, who wrote `a0` last. `Kernel8` has no user contexts.
- File descriptors in `Kernel7` and `Kernel8`, which touch none of their state:
  `Files` has them by themselves, with fork and exec as far as files go. That
  composition is by construction of the code (the file calls read and write
  no field the scheduler does), not by a module.
- Address spaces under the schedulers: in `Kernel7`, `Kernel8` and `Files` pointers
  handed to the kernel are taken to be valid (an invalid one makes the call return -1
  before or after its effect; the effects modelled are those of calls with valid
  pointers). `ProcessMemory` has the address spaces by themselves, and no exit, which leaves
  them as they are. Buffers that cross a page (section 7) and what a process without
  its stack does are not modelled.
- What a stale cache pointer overwrites, a full device, and the other cases
  of section 7 that guards leave out. A crash in the middle of `block_cache_sync_all`:
  any prefix of the blocks may be on the device, and nothing in the code repairs it, so
  there is nothing to check but `Durable`, between calls.
- The cache on the driver: `EasyFs` has the device as an array, which is what
  `DriverIsBlockDevice` says of a device that refuses nothing (the adapter ignores refusals).
- `ch1` (it prints and shuts down), console output, printing, how an ELF file is decoded,
  assembly, user programs.

## 9. Plan

Done: the ring, the ch8 kernel, the ch5-ch7 kernels, the linked programs, address
spaces, files from the calls down to the image, and the driver. The theorems about both kernels are done. Left, in this order:

| module | to prove or add | why |
|---|---|---|
| `EasyFs_proofs` | `BlocksAccounted`, with the owners of blocks in place of those of pages | the last safety property of a run that says nothing of content and has no theorem |
| `EasyFs` | the full device, as far as the code's behaviour can be stated | hazard without a property |
| `Kernel7`, `ProcessMemory` | fork that fails for want of memory, with the real heap | today `Kernel7` lets fork fail at any time |
