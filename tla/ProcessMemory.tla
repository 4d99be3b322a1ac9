---------------------------- MODULE ProcessMemory ----------------------------
(***************************************************************************)
(* The address spaces of processes: the kernel's own, the programs that    *)
(* ch4 loads before it runs them, initproc, fork and exec of ch5 (ch6-ch8  *)
(* have the same), and what programs and calls then write.  A call writes  *)
(* within one page here: past it as_translate's pointer is not good.       *)
(***************************************************************************)
EXTENDS AddressSpace, FiniteSets

CONSTANTS MAX_PROCS,
          KERNEL_TEXT,      \* pages of the kernel: text, then rodata, then data
          HEAP_START,       \* the page the heap begins at
          USER_STACK_TOP, USER_STACK_PAGES,
          MemoryEnds,       \* the pages memory may end at
          Leftovers,        \* what unused memory may hold
          Programs,
          StoreAddresses, Stored   \* where and what programs write

\* What elf_load finds in a file: at most as many bytes of a segment as it has
\* in memory, and some right to use it.
IsSegment(s) == /\ s \in [vaddr : Nat, file : Seq(Words), memsz : Nat, flags : SUBSET {"R", "W", "X"}]
                /\ Len(s.file) <= s.memsz /\ s.flags # {}

\* The way through the page tables.
vpn_path(vpn) == <<vpn_index(vpn, 0), vpn_index(vpn, 1), vpn_index(vpn, 2)>>

\* The smallest memory has room for the kernel and its root table; programs and
\* the calls they make write outside of the kernel's part of the address space.
ASSUME MemoryAssumption ==
    /\ MAX_PROCS \in Nat \ {0} /\ KERNEL_TEXT \in Nat \ {0} /\ HEAP_START \in Nat
    /\ KERNEL_TEXT + 3 <= HEAP_START
    /\ USER_STACK_TOP \in Nat /\ USER_STACK_PAGES \in 0..USER_STACK_TOP
    /\ MemoryEnds \subseteq Nat /\ \A end \in MemoryEnds : HEAP_START + 2 <= end
    /\ Leftovers \subseteq Words /\ Stored \subseteq Words
    /\ \A prog \in Programs : /\ prog.segments \in Seq({prog.segments[i] : i \in DOMAIN prog.segments})
                              /\ \A i \in DOMAIN prog.segments : IsSegment(prog.segments[i])
    /\ StoreAddresses \subseteq Nat
    /\ \A va \in StoreAddresses, end \in MemoryEnds :
          \A vpn \in KERNEL_TEXT..(end - 1) : vpn_path(va_vpn(va)) # vpn_path(vpn)

\* The pages of an address space: the kernel's and the rest of memory, the
\* segments of its program, and the stack.
KernelPages(end) == KERNEL_TEXT..(end - 1)
PagesOf(s)       == va_vpn(s.vaddr)..va_vpn(s.vaddr + s.memsz - 1)
StackPages       == (USER_STACK_TOP - USER_STACK_PAGES)..(USER_STACK_TOP - 1)

\* The linkers give each page a place of its own in the tables: programs start
\* at 0x10000, far below the stack, and no two of their segments share a page.
Distinct(S) == \A v, w \in S : vpn_path(v) = vpn_path(w) => v = w
Apart(S, T) == \A v \in S, w \in T : vpn_path(v) # vpn_path(w)

ASSUME ApartAssumption ==
    /\ Distinct(StackPages)
    /\ \A end \in MemoryEnds : Distinct(KernelPages(end)) /\ Apart(KernelPages(end), StackPages)
    /\ \A prog \in Programs : prog.entry # NULL =>
          LET pages(i) == PagesOf(prog.segments[i])
          IN  \A i \in DOMAIN prog.segments :
                 /\ Distinct(pages(i)) /\ Apart(pages(i), StackPages)
                 /\ \A end \in MemoryEnds : Apart(KernelPages(end), pages(i))
                 /\ \A j \in DOMAIN prog.segments : i # j => Apart(pages(i), pages(j))

VARIABLES kernel,      \* "ch4" or "ch5"
          running,     \* the kernel has started to run programs
          heap,
          kernel_as,
          next_pid,
          as,          \* root of each process's address space, NULL for none
          satp,        \* the root that translates for its program
          program      \* history: what it was loaded from

vars == <<kernel, running, heap, kernel_as, next_pid, as, satp, program>>

Procs == 0..(MAX_PROCS - 1)
Live  == {p \in Procs : as[p] # NULL}

-----------------------------------------------------------------------------
\* The kernel's text, its rodata, and its data with the rest of memory.
KernelParts(end) == <<[from |-> KERNEL_TEXT,     to |-> KERNEL_TEXT + 1, flags |-> {"V", "R", "X"}],
                      [from |-> KERNEL_TEXT + 1, to |-> KERNEL_TEXT + 2, flags |-> {"V", "R"}],
                      [from |-> KERNEL_TEXT + 2, to |-> end,             flags |-> {"V", "R", "W"}]>>

map_kernel_to_user(h, root) ==
    LET MapPart(g, i) == LET x == KernelParts(va_vpn(h.end))[i + 1]
                         IN  as_map_extern(g, root, x.from, x.to, x.from, x.flags)
    IN  Loop(MapPart, h, 3)

StackFlags == {"V", "R", "W", "U"}

map_stack(h, root) == as_map(h, root, USER_STACK_TOP - USER_STACK_PAGES, USER_STACK_TOP,
                             <<>>, 0, StackFlags)

\* A new address space with a program in it: the same steps in
\* create_process, create_process_from_elf and exec_process.
LoadInto(s, prog) ==
    IF s.at = NULL THEN s
    ELSE IF prog.entry = NULL THEN Taken(map_kernel_to_user(s.heap, s.at), NULL)
    ELSE Taken(map_stack(elf_load(map_kernel_to_user(s.heap, s.at), s.at, prog), s.at), s.at)

NewSpace(h, prog) == LoadInto(as_create(h), prog)

-----------------------------------------------------------------------------
\* main: heap_init and the kernel's address space.  The smallest memory has
\* room for them.
Init ==
    /\ kernel \in {"ch4", "ch5"}
    /\ running = FALSE
    /\ \E end \in MemoryEnds, w \in Leftovers :
          LET page  == [i \in 0..(PTE_PER_PAGE - 1) |-> w]
              fresh == [current |-> HEAP_START * PAGE_SIZE, end |-> end * PAGE_SIZE,
                        mem |-> [p \in KERNEL_TEXT..(end - 1) |-> page]]
          IN  \E s \in {as_create(fresh)} :
                 heap = map_kernel_to_user(s.heap, s.at) /\ kernel_as = s.at
    /\ next_pid = 0
    /\ as = [p \in Procs |-> NULL]
    /\ satp = [p \in Procs |-> NULL]
    /\ program = [p \in Procs |-> <<>>]

\* ch4 goes on with the next program when one cannot be loaded; ch5 stops.
Create(prog) ==
    /\ ~running
    /\ next_pid < MAX_PROCS /\ (kernel = "ch5" => next_pid = 0)
    /\ \E n \in {NewSpace(heap, prog)} :
          /\ heap' = n.heap
          /\ as' = [as EXCEPT ![next_pid] = n.at]
          /\ satp' = [satp EXCEPT ![next_pid] = n.at]
          /\ program' = [program EXCEPT ![next_pid] = IF n.at = NULL THEN @ ELSE prog]
          /\ next_pid' = IF n.at = NULL /\ kernel = "ch4" THEN next_pid ELSE next_pid + 1
    /\ UNCHANGED <<kernel, running, kernel_as>>

Run == /\ ~running /\ Live # {}
       /\ running' = TRUE
       /\ UNCHANGED <<kernel, heap, kernel_as, next_pid, as, satp, program>>

Fork(p) ==
    /\ running /\ kernel = "ch5" /\ p \in Live /\ next_pid < MAX_PROCS
    /\ \E c \in {as_clone(heap, as[p])} :
          /\ heap' = c.heap
          /\ as' = [as EXCEPT ![next_pid] = c.at]
          /\ satp' = [satp EXCEPT ![next_pid] = c.at]
          /\ program' = [program EXCEPT ![next_pid] = IF c.at = NULL THEN @ ELSE program[p]]
    /\ next_pid' = next_pid + 1
    /\ UNCHANGED <<kernel, running, kernel_as>>

\* The end of exec_process.
\* A mutant: the program goes on in its old address space.
ReplaceOldSatp(p, n, prog) == /\ as' = [as EXCEPT ![p] = n.at]
                              /\ program' = [program EXCEPT ![p] = prog]
                              /\ UNCHANGED satp
Replace(p, n, prog) == /\ as' = [as EXCEPT ![p] = n.at]
                       /\ satp' = [satp EXCEPT ![p] = n.at]
                       /\ program' = [program EXCEPT ![p] = prog]

\* An exec that fails changes nothing but the heap.
Exec(p, prog) ==
    /\ running /\ kernel = "ch5" /\ p \in Live
    /\ \E n \in {NewSpace(heap, prog)} :
          /\ heap' = n.heap
          /\ IF n.at = NULL THEN UNCHANGED <<as, satp, program>> ELSE Replace(p, n, prog)
    /\ UNCHANGED <<kernel, running, kernel_as, next_pid>>

Write(at, w) ==
    /\ at # NULL
    /\ heap' = [heap EXCEPT !.mem[va_vpn(at)][va_offset(at)] = w]
    /\ UNCHANGED <<kernel, running, kernel_as, next_pid, as, satp, program>>

\* The processor translates for a program, with the user flag.
ProgramWrites(p, va, w) ==
    running /\ p \in Live /\ Write(as_translate(heap, satp[p], va, {"V", "W", "U"}), w)

\* read, clock_gettime and waitpid write where the program tells them to.
CallWrites(p, va, w) ==
    running /\ p \in Live /\ Write(as_translate(heap, as[p], va, {"V", "W"}), w)

Next == \/ \E prog \in Programs : Create(prog)
        \/ Run
        \/ \E p \in Procs : Fork(p)
        \/ \E p \in Procs, prog \in Programs : Exec(p, prog)
        \/ \E p \in Procs, va \in StoreAddresses, w \in Stored : ProgramWrites(p, va, w)
        \/ \E p \in Procs, va \in StoreAddresses, w \in Stored : CallWrites(p, va, w)

Spec == Init /\ [][Next]_vars

-----------------------------------------------------------------------------
\* The pages an address space has for itself, each with the path from the root
\* that leads to it: its tables, and the pages with the user flag.
Inner(pte) == pte_valid(pte) /\ (~pte_is_leaf(pte) \/ "U" \in pte.flags)

Use(path, page) == [path |-> path, page |-> page]

Entries(u)  == {i \in 0..(PTE_PER_PAGE - 1) : Inner(heap.mem[u.page][i])}
Children(u) == {Use(Append(u.path, i), heap.mem[u.page][i].ppn) : i \in Entries(u)}
Under(S)    == UNION {Children(u) : u \in S}

Roots == {Use(<<MAX_PROCS>>, kernel_as)} \cup {Use(<<p>>, as[p]) : p \in Live}
Uses  == Roots \cup Under(Roots) \cup Under(Under(Roots)) \cup Under(Under(Under(Roots)))

\* heap_alloc, walk, clone_page_table: a page of the heap has one use: one table,
\* or one page of one program, and the heap will not give it out again.
PagesHaveOneUse ==
    /\ \A u, v \in Uses : u.page = v.page => u = v
    /\ \A u \in Uses : /\ u.page >= HEAP_START
                       /\ (u.page + 1) * PAGE_SIZE <= heap.current

-----------------------------------------------------------------------------
Mapped(h, root, v, flags) == as_translate(h, root, v * PAGE_SIZE, flags)
AreMapped(h, root, pages, flags) == \A v \in pages : Mapped(h, root, v, flags) # NULL

KernelIsMapped(h, root) ==
    \A i \in 1..3 :
        LET x == KernelParts(va_vpn(h.end))[i]
        IN  \A v \in x.from..(x.to - 1) : Mapped(h, root, v, x.flags) = v * PAGE_SIZE

Room(h, n) == aligned(h, PAGE_SIZE) + n * PAGE_SIZE <= h.end

\* A process lacks a page of the kernel, a segment of its program or its stack
\* only once the heap has no room for it.
Complete(h, root, prog) ==
    /\ Room(h, 1) => KernelIsMapped(h, root)
    /\ Room(h, USER_STACK_PAGES) => AreMapped(h, root, StackPages, StackFlags)
    /\ \A i \in DOMAIN prog.segments :
          LET s == prog.segments[i]
          IN  Room(h, Cardinality(PagesOf(s))) => AreMapped(h, root, PagesOf(s), s.flags \cup {"U"})

\* as_map, as_map_extern, heap_alloc: nobody looks whether a page could be
\* mapped; a page is missing only where there was no room, and there never is
\* again.
CompleteUnlessFull == \A p \in Live : Complete(heap, as[p], program[p])
=============================================================================
