---------------------------- MODULE AddressSpace ----------------------------
(***************************************************************************)
(* The heap (kernel-alloc/heap.c), the page tables of Sv39 (sv39.h,        *)
(* address_space.c) and the ELF loader (elf.c) of the ch4-ch8 kernels, as  *)
(* operators on a heap: where the next allocation is, where the heap ends  *)
(* and what the physical pages hold.  Addresses count words of 8 bytes,    *)
(* which is the size of a page table entry and of an address_space_t.      *)
(***************************************************************************)
EXTENDS Integers, Sequences

CONSTANT PTE_PER_PAGE

ASSUME PageAssumption == PTE_PER_PAGE \in Nat \ {0}

LEVELS == 3
NULL == 0
PAGE_SIZE == PTE_PER_PAGE

\* A loop: op(x, 0), then op of that and 1, up to n-1.  (From a set of one, so
\* that TLC works out the heap before each step.)
Loop(op(_, _), base, n) ==
    LET after[k \in 0..n] == IF k = 0 THEN base
                             ELSE CHOOSE y \in {op(x, k - 1) : x \in {after[k - 1]}} : TRUE
    IN  after[n]

-----------------------------------------------------------------------------
(***************************************************************************)
(* sv39.h                                                                  *)
(***************************************************************************)
va_vpn(va)    == va \div PAGE_SIZE
va_offset(va) == va % PAGE_SIZE
vpn_index(vpn, level) ==
    (CASE level = 0 -> vpn \div (PTE_PER_PAGE * PTE_PER_PAGE)
       [] level = 1 -> vpn \div PTE_PER_PAGE
       [] level = 2 -> vpn) % PTE_PER_PAGE

make_pte(ppn, flags) == [ppn |-> ppn, flags |-> flags]
pte_valid(pte)   == "V" \in pte.flags
pte_is_leaf(pte) == pte.flags \cap {"R", "W", "X"} # {}

PteFlags == {"V", "R", "W", "X", "U"}
Words    == [ppn : Nat, flags : SUBSET PteFlags]

\* A word that is not a page table entry reads as one without flags.
Datum(d) == make_pte(d, {})
ZeroPage == [i \in 0..(PTE_PER_PAGE - 1) |-> Datum(0)]

-----------------------------------------------------------------------------
(***************************************************************************)
(* heap.c: nothing is ever given back.  An allocation returns the heap     *)
(* after it and, at "at", what it got, NULL when there was no room.        *)
(***************************************************************************)
Taken(h, at) == [heap |-> h, at |-> at]

aligned(h, align) == ((h.current + align - 1) \div align) * align

\* A mutant: the space that alignment skips is forgotten.
take_unaligned(h, at, size) == IF at + size > h.end THEN Taken(h, NULL)
                               ELSE Taken([h EXCEPT !.current = @ + size], at)
\* A mutant: the last word of the heap is never used.
take_short(h, at, size) == IF at + size >= h.end THEN Taken(h, NULL)
                           ELSE Taken([h EXCEPT !.current = at + size], at)
take(h, at, size) == IF at + size > h.end THEN Taken(h, NULL)
                     ELSE Taken([h EXCEPT !.current = at + size], at)

heap_alloc(h, size, align) == take(h, aligned(h, align), size)

-----------------------------------------------------------------------------
(***************************************************************************)
(* address_space.c: pages are cleared, address spaces are named by their   *)
(* root page.                                                              *)
(***************************************************************************)
cleared(pages, count) ==
    LET ClearPage(g, k) == [g EXCEPT !.mem[va_vpn(pages.at) + k] = ZeroPage]
    IN  IF pages.at = NULL THEN pages
        ELSE Taken(Loop(ClearPage, pages.heap, count), va_vpn(pages.at))

alloc_pages(h, count) == cleared(heap_alloc(h, count * PAGE_SIZE, PAGE_SIZE), count)

cleared_page(page) ==
    IF page.at = NULL THEN page
    ELSE Taken([page.heap EXCEPT !.mem[va_vpn(page.at)] = ZeroPage], va_vpn(page.at))
alloc_page(h) == cleared_page(heap_alloc(h, PAGE_SIZE, PAGE_SIZE))

root_of(space) == IF space.at = NULL THEN space ELSE alloc_page(space.heap)
as_create(h) == root_of(heap_alloc(h, 1, 1))

\* walk goes down a level: w is the heap and the table it has come to, NULL
\* once one cannot be made.
put_table(new, pt, idx) ==
    IF new.at = NULL THEN new
    ELSE Taken([new.heap EXCEPT !.mem[pt][idx] = make_pte(new.at, {"V"})], new.at)

descend(w, vpn, level) ==
    LET idx == vpn_index(vpn, level)
    IN  CASE w.at = NULL -> w
          [] w.at # NULL /\ pte_valid(w.heap.mem[w.at][idx]) ->
                Taken(w.heap, w.heap.mem[w.at][idx].ppn)
          [] OTHER -> put_table(alloc_page(w.heap), w.at, idx)

\* The table with the last entry for vpn; those above it are made where they
\* are missing.
walk(h, root, vpn) == descend(descend(Taken(h, root), vpn, 0), vpn, 1)

\* A page without an entry is left out, and nobody is told.
set_entry(w, vpn, pte) ==
    IF w.at = NULL THEN w.heap
    ELSE [w.heap EXCEPT !.mem[w.at][vpn_index(vpn, LEVELS - 1)] = pte]

as_map_extern(h, root, vpn_start, vpn_end, ppn_base, flags) ==
    LET MapPage(g, k) == set_entry(walk(g, root, vpn_start + k), vpn_start + k,
                                   make_pte(ppn_base + k, flags \cup {"V"}))
    IN  Loop(MapPage, h, vpn_end - vpn_start)

\* memcpy of data to an address in pages that follow each other.
copied(h, at, data) ==
    LET CopyWord(g, k) == [g EXCEPT !.mem[va_vpn(at + k)][va_offset(at + k)] = data[k + 1]]
    IN  Loop(CopyWord, h, Len(data))

map_pages(pages, root, vpn_start, vpn_end, data, offset, flags) ==
    IF pages.at = NULL THEN pages.heap
    ELSE as_map_extern(copied(pages.heap, pages.at * PAGE_SIZE + offset, data),
                       root, vpn_start, vpn_end, pages.at, flags)
as_map(h, root, vpn_start, vpn_end, data, offset, flags) ==
    map_pages(alloc_pages(h, vpn_end - vpn_start), root, vpn_start, vpn_end, data, offset, flags)

\* as_translate goes down a level, until it meets a leaf or nothing.
followed(h, pte, vpn, level) ==
    IF pte_valid(pte) /\ ~pte_is_leaf(pte) THEN h.mem[pte.ppn][vpn_index(vpn, level)] ELSE pte

last_entry(h, root, vpn) ==
    followed(h, followed(h, h.mem[root][vpn_index(vpn, 0)], vpn, 1), vpn, 2)

\* The physical address of va, NULL if it is not mapped with these flags.
as_translate(h, root, va, required_flags) ==
    LET pte == last_entry(h, root, va_vpn(va))
    IN  IF pte_valid(pte) /\ pte_is_leaf(pte) /\ required_flags \subseteq pte.flags
        THEN pte.ppn * PAGE_SIZE + va_offset(va)
        ELSE NULL

-----------------------------------------------------------------------------
\* as_clone.  User pages are copied, kernel pages shared; a clone that fails
\* keeps what it has taken.  An entry's clone is the heap and the new entry, or
\* no entry when there was no room.
Cloned(h, pte) == [heap |-> h, pte |-> pte]
NoEntry == Datum(0)

copied_page(page, pte) ==
    IF page.at = NULL THEN Cloned(page.heap, NoEntry)
    ELSE Cloned([page.heap EXCEPT !.mem[page.at] = page.heap.mem[pte.ppn]],
                make_pte(page.at, pte.flags))

\* A mutant: parent and child share the page.
clone_leaf_shared(h, pte) == Cloned(h, pte)
clone_leaf(h, pte) == IF "U" \in pte.flags THEN copied_page(alloc_page(h), pte)
                      ELSE Cloned(h, pte)

linked_table(table, pte) ==
    Cloned(table.heap, IF table.at = NULL THEN NoEntry ELSE make_pte(table.at, pte.flags))

\* c is what has been cloned so far: the heap and the new table, or NULL.
put_entry(c, i, e) == IF e.pte = NoEntry THEN Taken(e.heap, NULL)
                      ELSE Taken([e.heap EXCEPT !.mem[c.at][i] = e.pte], c.at)

clone_entry(c, i, pte, Deeper(_, _, _)) ==
    CASE c.at = NULL \/ ~pte_valid(pte) -> c
      [] c.at # NULL /\ pte_valid(pte) /\ pte_is_leaf(pte) -> put_entry(c, i, clone_leaf(c.heap, pte))
      [] OTHER -> Deeper(c, i, pte)

\* clone_page_table at each level, the last first: an entry that leads to a
\* table is left out at the last.
clone_table(dst, src, Deeper(_, _, _)) ==
    LET CloneEntry(c, i) == clone_entry(c, i, c.heap.mem[src][i], Deeper)
    IN  Loop(CloneEntry, dst, PTE_PER_PAGE)

left_out(c, i, pte) == c
clone_level_2(h, src) == clone_table(alloc_page(h), src, left_out)

inner_1(c, i, pte) == put_entry(c, i, linked_table(clone_level_2(c.heap, pte.ppn), pte))
clone_level_1(h, src) == clone_table(alloc_page(h), src, inner_1)

inner_0(c, i, pte) == put_entry(c, i, linked_table(clone_level_1(c.heap, pte.ppn), pte))
clone_page_table(h, src) == clone_table(alloc_page(h), src, inner_0)

clone_of(space, root) == IF space.at = NULL THEN space
                         ELSE clone_page_table(space.heap, root)
as_clone(h, root) == clone_of(heap_alloc(h, 1, 1), root)

-----------------------------------------------------------------------------
(***************************************************************************)
(* elf.c.  A program is an entry, NULL in a file that is no program, and   *)
(* its segments: where each goes, what the file has of it, its size in     *)
(* memory.                                                                 *)
(***************************************************************************)
vpn_end_of(s) == va_vpn(s.vaddr + s.memsz - 1) + 1

load_segment(h, root, s) == as_map(h, root, va_vpn(s.vaddr), vpn_end_of(s), s.file,
                                   va_offset(s.vaddr), s.flags \cup {"V", "U"})

elf_load(h, root, program) ==
    LET Load(g, i) == load_segment(g, root, program.segments[i + 1])
    IN  IF program.entry = NULL THEN h ELSE Loop(Load, h, Len(program.segments))
=============================================================================
