------------------------------ MODULE MCMemory ------------------------------
(***************************************************************************)
(* The programs of the runs of ProcessMemory, and what they see.           *)
(***************************************************************************)
EXTENDS ProcessMemory

\* One segment for all with a .bss, as the user programs are linked; two, the
\* second from the middle of a page; and a file that is no program.
FileWords(from, n) == [i \in 1..n |-> Datum(from + i)]
MCPrograms ==
    { [entry |-> 128, segments |->
        <<[vaddr |-> 128, file |-> FileWords(10, 10), memsz |-> 20, flags |-> {"R", "W", "X"}]>>],
      [entry |-> 136, segments |->
        <<[vaddr |-> 136, file |-> FileWords(30, 3), memsz |-> 3, flags |-> {"R", "X"}],
          [vaddr |-> 148, file |-> FileWords(40, 4), memsz |-> 4, flags |-> {"R", "W"}]>>],
      [entry |-> 0, segments |-> <<>>] }
MCStored    == {Datum(1)}
MCLeftovers == {Datum(9), make_pte(KERNEL_TEXT, {"V", "R", "W", "U"})}

-----------------------------------------------------------------------------
(***************************************************************************)
(* What a program's memory is to hold: the words of its segments, zeroes   *)
(* around them in the same pages, and an empty stack.                      *)
(***************************************************************************)
WordsOf(pages) == {v * PAGE_SIZE + i : v \in pages, i \in 0..(PAGE_SIZE - 1)}

Cell(w, writable) == [word |-> w, writable |-> writable]

Segment(s) == [a \in WordsOf(PagesOf(s)) |->
    Cell(IF a \in s.vaddr..(s.vaddr + Len(s.file) - 1) THEN s.file[a - s.vaddr + 1] ELSE Datum(0),
         "W" \in s.flags)]
Stack == [a \in WordsOf(StackPages) |-> Cell(Datum(0), TRUE)]

Parts(prog) == {Segment(prog.segments[i]) : i \in DOMAIN prog.segments} \cup {Stack}

MCContent == [prog \in {x \in MCPrograms : x.entry # NULL} |->
                 [a \in UNION {DOMAIN m : m \in Parts(prog)} |->
                     (CHOOSE m \in Parts(prog) : a \in DOMAIN m)[a]]]
UserAddresses == UNION {DOMAIN MCContent[prog] : prog \in DOMAIN MCContent}

Seen(h, root) ==
    LET At(a) == as_translate(h, root, a, {"V", "U"})
        Word(at) == h.mem[va_vpn(at)][va_offset(at)]
    IN  [a \in {x \in UserAddresses : At(x) # NULL} |->
            Cell(Word(At(a)), as_translate(h, root, a, {"V", "U", "W"}) # NULL)]

\* What programs see, worked out once for a state.
VARIABLE shown

Shown(h, roots) == [p \in Procs |-> IF roots[p] = NULL THEN <<>> ELSE Seen(h, roots[p])]

MCInit == Init /\ shown = Shown(heap, satp)
MCNext == Next /\ shown' = Shown(heap', satp')
MCSpec == MCInit /\ [][MCNext]_<<vars, shown>>

Own == INSTANCE PrivateMemory WITH Words <- MCStored, NoProgram <- <<>>,
                                   Content <- MCContent, memory <- shown

\* as_map, as_clone, exec_process, as_translate: what programs see through
\* their page tables is memory of their own: what was loaded, copied by fork,
\* replaced by exec, and changed where they or their calls write.
IsPrivateMemory == Own!Spec

=============================================================================
