---------------------------- MODULE Memory_proofs ----------------------------
(***************************************************************************)
(* The address spaces of processes, for memory of any size and any         *)
(* programs.                                                               *)
(*   No page of the heap has two uses: every page that is in use has an    *)
(*     owner, the path that leads to it, and each loop over the page       *)
(*     tables keeps to the owners.                                         *)
(*   A page is missing only when the heap is full: what a loop maps stays  *)
(*     (Held, with a past in which only the places it means to map are     *)
(*     open), a page it cannot map leaves no room for another, and a clone *)
(*     has the like of each page.                                          *)
(***************************************************************************)
EXTENDS ProcessMemory, FiniteSetTheorems, TLAPS

-----------------------------------------------------------------------------
(* Pages and words *)

LEMMA Sizes ==
    /\ PAGE_SIZE \in Nat /\ PAGE_SIZE > 0 /\ PAGE_SIZE = PTE_PER_PAGE
    /\ HEAP_START \in Nat /\ HEAP_START > 0 /\ KERNEL_TEXT \in Nat /\ KERNEL_TEXT < HEAP_START
  BY PageAssumption, MemoryAssumption DEF PAGE_SIZE

LEMMA InPage ==
    ASSUME NEW a \in Nat, NEW b \in 0..(PAGE_SIZE - 1)
    PROVE  va_vpn(a * PAGE_SIZE + b) = a /\ va_offset(a * PAGE_SIZE + b) = b
<1>1. PICK n \in Nat \ {0} : n = PAGE_SIZE
  BY Sizes
<1>2. b \in 0..(n - 1)
  BY <1>1
<1>3. (a * n + b) \div n = a /\ (a * n + b) % n = b
  BY <1>2, Z3
<1> QED
  BY <1>1, <1>3 DEF va_vpn, va_offset

LEMMA PagesGrow ==
    ASSUME NEW a \in Int, NEW b \in Int
    PROVE  a <= b <=> a * PAGE_SIZE <= b * PAGE_SIZE
<1>1. PICK n \in Nat \ {0} : n = PAGE_SIZE
  BY Sizes
<1>2. a <= b <=> a * n <= b * n
  BY <1>1, Z3
<1> QED
  BY <1>1, <1>2

LEMMA AlignedIs ==
    ASSUME NEW c \in Nat
    PROVE  LET a == (c + PAGE_SIZE - 1) \div PAGE_SIZE
           IN  a \in Nat /\ c <= a * PAGE_SIZE
<1>1. PICK n \in Nat \ {0} : n = PAGE_SIZE
  BY Sizes
<1>2. PICK d \in Nat : d = c + n - 1
  BY <1>1
<1>3. d \div n \in Nat /\ c <= (d \div n) * n
  BY <1>1, <1>2, Z3
<1> QED
  BY <1>1, <1>2, <1>3

LEMMA IndexIs ==
    ASSUME NEW vpn \in Nat, NEW level \in 0..2
    PROVE  vpn_index(vpn, level) \in 0..(PTE_PER_PAGE - 1)
<1>1. PICK n \in Nat \ {0} : n = PTE_PER_PAGE
  BY PageAssumption
<1>2. \A x \in Nat : x % n \in 0..(n - 1)
  BY Z3
<1>3. PICK m \in Nat \ {0} : m = n * n
  BY Z3
<1>4. vpn \div n \in Nat /\ vpn \div m \in Nat
  BY Z3
<1> QED
  BY <1>1, <1>2, <1>3, <1>4 DEF vpn_index

-----------------------------------------------------------------------------
(* The owners of pages *)

Page == [0..(PTE_PER_PAGE - 1) -> Words]

\* A heap that ends with page E.
IsHeap(h, E) ==
    /\ h \in [current : Nat, end : Nat, mem : [KERNEL_TEXT..(E - 1) -> Page]]
    /\ E \in Nat /\ h.end = E * PAGE_SIZE /\ h.current <= h.end
    /\ HEAP_START * PAGE_SIZE <= h.current

\* What an entry i of the table at the end of path must be: in the last level
\* a leaf, in the others none; what it leads to is owned by the way there, or
\* is the kernel's and not the heap's to give.
Fits(own, E, path, i, pte) ==
    pte_valid(pte) =>
        /\ pte_is_leaf(pte) <=> Len(path) = LEVELS
        /\ Inner(pte) => pte.ppn \in DOMAIN own /\ own[pte.ppn] = Append(path, i)
        /\ ~Inner(pte) => \E vpn \in KERNEL_TEXT..(E - 1) : vpn_path(vpn) = <<path[2], path[3], i>>

IsPath(path) == path \in Seq(Int) /\ Len(path) \in 1..(LEVELS + 1)

\* Owners are only added.
Extends(own, old) == \A p \in DOMAIN old : p \in DOMAIN own /\ own[p] = old[p]

\* How things were, and the places whose entries may change since: the owners
\* stay, and so does every other valid entry.
Past(h, own, open) == [heap |-> h, own |-> own, open |-> open]

Held(h, own, F) ==
    /\ F.heap.current \in Int /\ F.heap.current <= h.current
    /\ Extends(own, F.own)
    /\ \A t \in DOMAIN F.own : Len(F.own[t]) <= LEVELS =>
          \A i \in 0..(PTE_PER_PAGE - 1) :
             pte_valid(F.heap.mem[t][i]) => \/ h.mem[t][i] = F.heap.mem[t][i]
                                           \/ Append(F.own[t], i) \in F.open

\* No past to keep to.
None == Past([current |-> 0], [p \in {} |-> <<>>], Seq(Int))

\* Where that lets an entry be written.
Writable(F, t, i) == t \in DOMAIN F.own /\ pte_valid(F.heap.mem[t][i]) => Append(F.own[t], i) \in F.open

Owns(h, own, E, F) ==
    /\ IsHeap(h, E) /\ Held(h, own, F)
    /\ own \in [DOMAIN own -> Seq(Int)]
    /\ \A p \in DOMAIN own : /\ p \in Nat /\ HEAP_START <= p /\ (p + 1) * PAGE_SIZE <= h.current
                             /\ IsPath(own[p])
    /\ \A t \in DOMAIN own : Len(own[t]) <= LEVELS =>
          \A i \in 0..(PTE_PER_PAGE - 1) : Fits(own, E, own[t], i, h.mem[t][i])

LEMMA ExtendsAgain ==
    ASSUME NEW a, NEW b, NEW c, Extends(b, a), Extends(c, b)
    PROVE  Extends(c, a)
  BY DEF Extends

LEMMA OwnedPages ==
    ASSUME NEW h, NEW own, NEW E, NEW F, Owns(h, own, E, F), NEW p \in DOMAIN own
    PROVE  /\ p \in KERNEL_TEXT..(E - 1) /\ p \in Nat /\ p # NULL /\ p < E
           /\ h.mem[p] \in Page
           /\ \A a \in Nat : h.current <= a * PAGE_SIZE => p < a
<1>1. /\ p \in Nat /\ HEAP_START <= p /\ (p + 1) * PAGE_SIZE <= h.current
      /\ h.current \in Nat /\ h.end \in Nat /\ E \in Nat /\ h.end = E * PAGE_SIZE /\ h.current <= h.end
      /\ h.mem \in [KERNEL_TEXT..(E - 1) -> Page]
  BY DEF Owns, IsHeap
<1>2. ASSUME NEW a \in Nat, h.current <= a * PAGE_SIZE PROVE p < a
  <2>1. (p + 1) * PAGE_SIZE <= a * PAGE_SIZE
    <3>1. PICK x \in Int, y \in Int : x = (p + 1) * PAGE_SIZE /\ y = a * PAGE_SIZE
      BY <1>1, Sizes
    <3> QED
      BY <1>1, <1>2, <3>1
  <2>2. p + 1 <= a
    BY <1>1, <2>1, PagesGrow
  <2> QED
    BY <1>1, <2>2
<1>3. p < E
  BY <1>1, <1>2
<1> QED
  BY <1>1, <1>2, <1>3, Sizes DEF NULL

\* Memory that has no owner, and the pages of programs, may hold anything.
LEMMA WriteFree ==
    ASSUME NEW h, NEW own, NEW E, NEW F, Owns(h, own, E, F),
           NEW p \in Nat, p \in DOMAIN own => Len(own[p]) = LEVELS + 1,
           NEW page \in Page
    PROVE  Owns([h EXCEPT !.mem[p] = page], own, E, F)
<1>1. PICK g : g = [h EXCEPT !.mem[p] = page]
  OBVIOUS
<1>2. /\ g.mem \in [KERNEL_TEXT..(E - 1) -> Page] /\ \A t \in KERNEL_TEXT..(E - 1) : t # p => g.mem[t] = h.mem[t]
      /\ IsHeap(g, E) /\ g.current = h.current
  <2>1. h \in [current : Nat, end : Nat, mem : [KERNEL_TEXT..(E - 1) -> Page]]
    BY DEF Owns, IsHeap
  <2>2. g.mem = [h.mem EXCEPT ![p] = page] /\ g = [h EXCEPT !.mem = g.mem]
    BY <1>1, <2>1
  <2>3. /\ g.mem \in [KERNEL_TEXT..(E - 1) -> Page]
        /\ \A t \in KERNEL_TEXT..(E - 1) : t # p => g.mem[t] = h.mem[t]
    BY <2>1, <2>2
  <2> QED
    BY <2>1, <2>2, <2>3 DEF Owns, IsHeap
<1>3. ASSUME NEW t \in DOMAIN own, Len(own[t]) <= LEVELS PROVE t # p /\ g.mem[t] = h.mem[t]
  <2>1. ASSUME t = p PROVE FALSE
    <3>1. Len(own[p]) = 4 /\ Len(own[p]) <= 3
      BY <1>3, <2>1 DEF LEVELS
    <3> QED
      BY <3>1
  <2> QED
    BY <1>2, <1>3, <2>1, OwnedPages
<1>4. Held(g, own, F)
  <2>1. Held(h, own, F)
    BY DEF Owns
  <2>2. \A t \in DOMAIN F.own : Len(F.own[t]) <= LEVELS => g.mem[t] = h.mem[t]
    BY <1>3, <2>1 DEF Held, Extends
  <2> QED
    BY <1>2, <2>1, <2>2 DEF Held
<1> QED
  BY <1>1, <1>2, <1>3, <1>4 DEF Owns

LEMMA WriteWord ==
    ASSUME NEW h, NEW own, NEW E, NEW F, Owns(h, own, E, F),
           NEW p \in Nat, p \in DOMAIN own => Len(own[p]) = LEVELS + 1,
           NEW i \in 0..(PTE_PER_PAGE - 1), NEW w \in Words
    PROVE  Owns([h EXCEPT !.mem[p][i] = w], own, E, F)
<1>1. CASE p \in KERNEL_TEXT..(E - 1)
  <2>1. PICK page : page = [h.mem[p] EXCEPT ![i] = w]
    OBVIOUS
  <2>2. page \in Page
    BY <1>1, <2>1 DEF Owns, IsHeap, Page
  <2>3. [h EXCEPT !.mem[p][i] = w] = [h EXCEPT !.mem[p] = page]
    BY <2>1
  <2> QED
    BY <2>2, <2>3, WriteFree
<1>2. CASE p \notin KERNEL_TEXT..(E - 1)
  <2>1. [h EXCEPT !.mem[p][i] = w] = h
    BY <1>2 DEF Owns, IsHeap
  <2> QED
    BY <2>1
<1> QED
  BY <1>1, <1>2

\* An entry that fits can be put into its table.
LEMMA WriteEntry ==
    ASSUME NEW h, NEW own, NEW E, NEW F, Owns(h, own, E, F),
           NEW t \in DOMAIN own, NEW i \in 0..(PTE_PER_PAGE - 1), NEW pte \in Words,
           Fits(own, E, own[t], i, pte), Writable(F, t, i)
    PROVE  Owns([h EXCEPT !.mem[t][i] = pte], own, E, F)
<1>1. PICK g : g = [h EXCEPT !.mem[t][i] = pte]
  OBVIOUS
<1>2. t \in KERNEL_TEXT..(E - 1)
  BY OwnedPages
<1>3. /\ h \in [current : Nat, end : Nat, mem : [KERNEL_TEXT..(E - 1) -> Page]]
      /\ h.mem[t] \in [0..(PTE_PER_PAGE - 1) -> Words]
  BY <1>2 DEF Owns, IsHeap, Page
<1>4. /\ g.mem = [h.mem EXCEPT ![t] = [h.mem[t] EXCEPT ![i] = pte]]
      /\ g = [h EXCEPT !.mem = g.mem]
  BY <1>1, <1>3
<1>5. [h.mem[t] EXCEPT ![i] = pte] \in Page
  BY <1>3 DEF Page
<1>6. /\ g.mem \in [KERNEL_TEXT..(E - 1) -> Page]
      /\ \A u \in KERNEL_TEXT..(E - 1) : u # t => g.mem[u] = h.mem[u]
      /\ \A j \in 0..(PTE_PER_PAGE - 1) : g.mem[t][j] = IF j = i THEN pte ELSE h.mem[t][j]
  BY <1>2, <1>3, <1>4, <1>5
<1>7. IsHeap(g, E) /\ g.current = h.current
  BY <1>3, <1>4, <1>6 DEF Owns, IsHeap
<1>8. ASSUME NEW u \in DOMAIN own, Len(own[u]) <= LEVELS, NEW j \in 0..(PTE_PER_PAGE - 1)
      PROVE  Fits(own, E, own[u], j, g.mem[u][j])
  <2>1. Fits(own, E, own[u], j, h.mem[u][j]) /\ u \in KERNEL_TEXT..(E - 1)
    BY <1>8, OwnedPages DEF Owns
  <2> QED
    BY <1>6, <2>1
<1>9. Held(g, own, F)
  <2>1. Held(h, own, F)
    BY DEF Owns
  <2>2. ASSUME NEW u \in DOMAIN F.own, Len(F.own[u]) <= LEVELS, NEW j \in 0..(PTE_PER_PAGE - 1),
               pte_valid(F.heap.mem[u][j])
        PROVE  g.mem[u][j] = F.heap.mem[u][j] \/ Append(F.own[u], j) \in F.open
    <3>1. CASE u = t /\ j = i
      BY <2>2, <3>1 DEF Writable
    <3>2. CASE ~(u = t /\ j = i)
      <4>1. u \in KERNEL_TEXT..(E - 1)
        BY <2>1, OwnedPages DEF Held, Extends
      <4>2. g.mem[u][j] = h.mem[u][j]
        BY <1>6, <3>2, <4>1
      <4> QED
        BY <2>1, <2>2, <4>2 DEF Held
    <3> QED
      BY <3>1, <3>2
  <2> QED
    BY <1>7, <2>1, <2>2 DEF Held
<1> QED
  BY <1>1, <1>7, <1>8, <1>9 DEF Owns

LEMMA FitsMore ==
    ASSUME NEW own, NEW more, Extends(more, own), NEW E, NEW path, NEW i, NEW pte,
           Fits(own, E, path, i, pte)
    PROVE  Fits(more, E, path, i, pte)
  BY DEF Fits, Extends

\* A page without entries fits whatever its owner.
LEMMA ZeroFits ==
    /\ ZeroPage \in Page
    /\ \A own, E, path : \A i \in 0..(PTE_PER_PAGE - 1) : Fits(own, E, path, i, ZeroPage[i])
<1>1. Datum(0) \in Words /\ ~pte_valid(Datum(0))
  BY DEF Datum, make_pte, Words, pte_valid
<1> QED
  BY <1>1 DEF ZeroPage, Page, Fits

\* Pages that were just allocated get owners.
Unused(h, own, S, f) ==
    \A p \in S : /\ p \in Nat /\ p \notin DOMAIN own /\ HEAP_START <= p
                 /\ (p + 1) * PAGE_SIZE <= h.current
                 /\ IsPath(f[p])
                 /\ Len(f[p]) <= LEVELS => h.mem[p] = ZeroPage

LEMMA NewOwners ==
    ASSUME NEW h, NEW own, NEW E, NEW F, Owns(h, own, E, F),
           NEW S, NEW f, f \in [S -> Seq(Int)], Unused(h, own, S, f)
    PROVE  \E more : /\ Owns(h, more, E, F) /\ Extends(more, own)
                     /\ \A p \in S : p \in DOMAIN more /\ more[p] = f[p]
<1>1. PICK more : more = [p \in DOMAIN own \cup S |-> IF p \in S THEN f[p] ELSE own[p]]
  OBVIOUS
<1>2. /\ more \in [DOMAIN more -> Seq(Int)] /\ DOMAIN more = DOMAIN own \cup S
      /\ \A p \in S : more[p] = f[p]
      /\ \A p \in DOMAIN own : more[p] = own[p]
  BY <1>1 DEF Owns, Unused
<1>3. Extends(more, own)
  BY <1>2 DEF Extends
<1>4. \A p \in DOMAIN more : /\ p \in Nat /\ HEAP_START <= p /\ (p + 1) * PAGE_SIZE <= h.current
                             /\ IsPath(more[p])
  BY <1>2 DEF Owns, Unused
<1>5. ASSUME NEW t \in DOMAIN more, Len(more[t]) <= LEVELS, NEW i \in 0..(PTE_PER_PAGE - 1)
      PROVE  Fits(more, E, more[t], i, h.mem[t][i])
  <2>1. CASE t \in S
    BY <1>2, <1>5, <2>1, ZeroFits DEF Unused
  <2>2. CASE t \in DOMAIN own
    <3>1. Fits(own, E, own[t], i, h.mem[t][i])
      BY <1>2, <1>5, <2>2 DEF Owns
    <3> QED
      BY <1>2, <1>3, <2>2, <3>1, FitsMore
  <2> QED
    BY <1>2, <2>1, <2>2
<1>6. Held(h, more, F)
  BY <1>3, ExtendsAgain DEF Owns, Held
<1>7. Owns(h, more, E, F)
  BY <1>2, <1>4, <1>5, <1>6 DEF Owns
<1> QED
  BY <1>2, <1>3, <1>7

-----------------------------------------------------------------------------
(* heap.c *)

LEMMA HeapAlloc ==
    ASSUME NEW h, NEW own, NEW E, NEW F, Owns(h, own, E, F), NEW size \in Nat, NEW align \in {1, PAGE_SIZE},
           NEW r, r = heap_alloc(h, size, align)
    PROVE  \/ r.at = NULL /\ r.heap = h /\ aligned(h, align) + size > h.end
           \/ /\ r.at \in Nat /\ r.at # NULL /\ h.current <= r.at
              /\ Owns(r.heap, own, E, F) /\ r.heap.current = r.at + size
              /\ align = PAGE_SIZE => \E a \in Nat : r.at = a * PAGE_SIZE
<1>1. /\ h \in [current : Nat, end : Nat, mem : [KERNEL_TEXT..(E - 1) -> Page]]
      /\ h.current \in Nat /\ h.end \in Nat /\ h.current <= h.end
      /\ HEAP_START * PAGE_SIZE <= h.current
  BY DEF Owns, IsHeap
<1>2. h.current > 0
  <2>1. HEAP_START * PAGE_SIZE > 0
    <3>1. PICK m \in Nat \ {0}, n \in Nat \ {0} : m = HEAP_START /\ n = PAGE_SIZE
      BY Sizes
    <3>2. m * n > 0
      BY Z3
    <3> QED
      BY <3>1, <3>2
  <2>2. PICK x \in Int : x = HEAP_START * PAGE_SIZE
    BY Sizes
  <2> QED
    BY <1>1, <2>1, <2>2
<1>3. PICK at : at = aligned(h, align)
  OBVIOUS
<1>4. /\ at \in Nat /\ h.current <= at /\ at # NULL
      /\ align = PAGE_SIZE => \E a \in Nat : at = a * PAGE_SIZE
  <2>1. CASE align = PAGE_SIZE
    <3>1. PICK a \in Nat : a = (h.current + PAGE_SIZE - 1) \div PAGE_SIZE /\ h.current <= a * PAGE_SIZE
      BY <1>1, AlignedIs
    <3>2. at = a * PAGE_SIZE
      BY <1>3, <2>1, <3>1 DEF aligned
    <3>3. at \in Nat /\ h.current <= at
      BY <3>1, <3>2, Sizes
    <3> QED
      BY <1>1, <1>2, <3>2, <3>3 DEF NULL
  <2>2. CASE align = 1 /\ align # PAGE_SIZE
    <3>1. at = ((h.current + 1 - 1) \div 1) * 1
      BY <1>3, <2>2 DEF aligned
    <3>2. at = h.current
      BY <1>1, <3>1
    <3> QED
      BY <1>1, <1>2, <2>2, <3>2 DEF NULL
  <2> QED
    BY <2>1, <2>2
<1>5. r = take(h, at, size)
  BY <1>3 DEF heap_alloc
<1>6. CASE at + size > h.end
  BY <1>3, <1>5, <1>6 DEF take, Taken
<1>7. CASE ~(at + size > h.end)
  <2>1. PICK g : g = [h EXCEPT !.current = at + size]
    OBVIOUS
  <2>2. r.at = at /\ r.heap = g
    BY <1>5, <1>7, <2>1 DEF take, Taken
  <2>3. at + size \in Nat /\ h.current <= at + size /\ at + size <= h.end
    BY <1>1, <1>4, <1>7
  <2>4. /\ g \in [current : Nat, end : Nat, mem : [KERNEL_TEXT..(E - 1) -> Page]]
        /\ g.current = at + size /\ g.end = h.end /\ g.mem = h.mem
    BY <1>1, <2>1, <2>3
  <2>5. PICK x \in Int : x = HEAP_START * PAGE_SIZE
    BY Sizes
  <2>6. IsHeap(g, E)
    BY <1>1, <2>3, <2>4, <2>5 DEF Owns, IsHeap
  <2>7. ASSUME NEW p \in DOMAIN own PROVE (p + 1) * PAGE_SIZE <= g.current
    <3>1. p \in Nat /\ (p + 1) * PAGE_SIZE <= h.current
      BY DEF Owns
    <3>2. PICK y \in Int : y = (p + 1) * PAGE_SIZE
      BY <3>1, Sizes
    <3> QED
      BY <1>1, <2>3, <2>4, <3>1, <3>2
  <2>8. Held(g, own, F)
    BY <1>1, <1>4, <2>3, <2>4 DEF Owns, Held
  <2>9. Owns(g, own, E, F)
    BY <2>4, <2>6, <2>7, <2>8 DEF Owns
  <2> QED
    BY <1>4, <2>2, <2>4, <2>9
<1> QED
  BY <1>6, <1>7

\* A page, or pages that follow each other, above all that have an owner.
LEMMA PagesFrom ==
    ASSUME NEW h, NEW own, NEW E, NEW F, Owns(h, own, E, F), NEW n \in Nat,
           NEW r, r = heap_alloc(h, n * PAGE_SIZE, PAGE_SIZE)
    PROVE  \/ r.at = NULL /\ r.heap = h
           \/ /\ r.at # NULL /\ Owns(r.heap, own, E, F)
              /\ va_vpn(r.at) \in Nat /\ r.at = va_vpn(r.at) * PAGE_SIZE
              /\ HEAP_START <= va_vpn(r.at) /\ \A p \in DOMAIN own : p < va_vpn(r.at)
              /\ (va_vpn(r.at) + n) * PAGE_SIZE = r.heap.current /\ va_vpn(r.at) + n <= E
<1>1. n * PAGE_SIZE \in Nat /\ PAGE_SIZE \in {1, PAGE_SIZE}
  BY Sizes
<1>2. \/ r.at = NULL /\ r.heap = h
      \/ /\ r.at \in Nat /\ r.at # NULL /\ h.current <= r.at
         /\ Owns(r.heap, own, E, F) /\ r.heap.current = r.at + n * PAGE_SIZE
         /\ \E a \in Nat : r.at = a * PAGE_SIZE
  BY <1>1, HeapAlloc
<1>3. ASSUME r.at \in Nat, r.at # NULL, h.current <= r.at,
             Owns(r.heap, own, E, F), r.heap.current = r.at + n * PAGE_SIZE,
             NEW a \in Nat, r.at = a * PAGE_SIZE
      PROVE  /\ va_vpn(r.at) = a /\ HEAP_START <= a /\ \A p \in DOMAIN own : p < a
             /\ (a + n) * PAGE_SIZE = r.heap.current /\ a + n <= E
  <2>1. va_vpn(r.at) = a
    <3>1. 0 \in 0..(PAGE_SIZE - 1) /\ a * PAGE_SIZE + 0 = r.at
      BY <1>3, Sizes
    <3> QED
      BY <3>1, InPage
  <2>2. h.current <= a * PAGE_SIZE
    BY <1>3
  <2>3. \A p \in DOMAIN own : p < a
    BY <2>2, OwnedPages
  <2>4. HEAP_START <= a
    <3>1. PICK x \in Int, y \in Int, z \in Int : x = HEAP_START * PAGE_SIZE /\ y = h.current /\ z = a * PAGE_SIZE
      BY Sizes DEF Owns, IsHeap
    <3>2. x <= z
      BY <2>2, <3>1 DEF Owns, IsHeap
    <3> QED
      BY <3>1, <3>2, PagesGrow, Sizes
  <2>5. (a + n) * PAGE_SIZE = r.heap.current
    <3>1. PICK m \in Nat : m = PAGE_SIZE
      BY Sizes
    <3>2. (a + n) * m = a * m + n * m
      BY Z3
    <3> QED
      BY <1>3, <3>1, <3>2
  <2>6. a + n <= E
    <3>1. (a + n) * PAGE_SIZE <= E * PAGE_SIZE /\ E \in Int
      BY <1>3, <2>5 DEF Owns, IsHeap
    <3> QED
      BY <3>1, PagesGrow
  <2> QED
    BY <2>1, <2>3, <2>4, <2>5, <2>6
<1> QED
  BY <1>2, <1>3

-----------------------------------------------------------------------------
(* Pages that were allocated, and the way through the tables *)

\* s is the heap and a page whose owner is path, NULL if there was no room.
Got(s, old, path, E, F) ==
    \E own : /\ Owns(s.heap, own, E, F) /\ Extends(own, old)
             /\ s.at # NULL => s.at \in DOMAIN own /\ own[s.at] = path

\* Nothing had that page before.
Fresh(s, old) == s.at # NULL => s.at \notin DOMAIN old

\* A heap that may have given out more.
Kept(h, old, E, F) == \E own : Owns(h, own, E, F) /\ Extends(own, old)

LEMMA AllocPage ==
    ASSUME NEW h, NEW own, NEW E, NEW F, Owns(h, own, E, F), NEW path, IsPath(path)
    PROVE  Got(alloc_page(h), own, path, E, F) /\ Fresh(alloc_page(h), own)
<1>1. PICK r : r = heap_alloc(h, PAGE_SIZE, PAGE_SIZE)
  OBVIOUS
<1>2. alloc_page(h) = cleared_page(r)
  BY <1>1 DEF alloc_page
<1>3. \/ r.at = NULL /\ r.heap = h
      \/ /\ r.at # NULL /\ Owns(r.heap, own, E, F)
         /\ va_vpn(r.at) \in Nat /\ r.at = va_vpn(r.at) * PAGE_SIZE
         /\ HEAP_START <= va_vpn(r.at) /\ \A p \in DOMAIN own : p < va_vpn(r.at)
         /\ (va_vpn(r.at) + 1) * PAGE_SIZE = r.heap.current /\ va_vpn(r.at) + 1 <= E
  <2>1. 1 * PAGE_SIZE = PAGE_SIZE
    BY Sizes
  <2>2. r = heap_alloc(h, 1 * PAGE_SIZE, PAGE_SIZE)
    BY <1>1, <2>1
  <2> QED
    BY <2>2, PagesFrom
<1>4. CASE r.at = NULL
  <2>1. cleared_page(r) = r /\ r.heap = h
    BY <1>3, <1>4 DEF cleared_page
  <2>2. Extends(own, own)
    BY DEF Extends
  <2> QED
    BY <1>2, <1>4, <2>1, <2>2 DEF Got, Fresh
<1>5. CASE r.at # NULL
  <2>1. PICK a \in Nat : a = va_vpn(r.at) /\ a \notin DOMAIN own
    <3>1. va_vpn(r.at) \in Nat /\ ~(va_vpn(r.at) < va_vpn(r.at))
      BY <1>3, <1>5
    <3> QED
      BY <1>3, <1>5, <3>1
  <2>2. PICK g : g = [r.heap EXCEPT !.mem[a] = ZeroPage]
    OBVIOUS
  <2>3. cleared_page(r) = Taken(g, a)
    BY <1>5, <2>1, <2>2 DEF cleared_page
  <2>4. /\ r.heap \in [current : Nat, end : Nat, mem : [KERNEL_TEXT..(E - 1) -> Page]]
        /\ E \in Nat /\ a \in KERNEL_TEXT..(E - 1)
    BY <1>3, <1>5, <2>1, Sizes, SMTT(30) DEF Owns, IsHeap
  <2>5. Owns(g, own, E, F) /\ g.mem[a] = ZeroPage /\ g.current = r.heap.current
    BY <1>3, <1>5, <2>1, <2>2, <2>4, WriteFree, ZeroFits
  <2>6. PICK f : f = [p \in {a} |-> path]
    OBVIOUS
  <2>7. f \in [{a} -> Seq(Int)] /\ f[a] = path
    BY <2>6 DEF IsPath
  <2>8. (a + 1) * PAGE_SIZE <= g.current /\ HEAP_START <= a
    <3>1. g.current \in Nat
      BY <2>5 DEF Owns, IsHeap
    <3> QED
      BY <1>3, <1>5, <2>1, <2>5, <3>1
  <2>9. PICK more : Owns(g, more, E, F) /\ Extends(more, own) /\ a \in DOMAIN more /\ more[a] = path
    <3>1. Unused(g, own, {a}, f)
      BY <2>1, <2>5, <2>7, <2>8 DEF Unused
    <3> QED
      BY <2>5, <2>7, <3>1, NewOwners
  <2> QED
    BY <1>2, <2>1, <2>3, <2>9 DEF Got, Fresh, Taken
<1> QED
  BY <1>4, <1>5

\* The loop that clears pages.
ClearStep(q, g, k) == [g EXCEPT !.mem[q.first + k] = ZeroPage]
Unowned(q, g) == Owns(g, q.own, q.E, q.F) /\ g.current = q.current
ClearLoop == INSTANCE FoldInduction WITH op <- ClearStep, Keep <- Unowned

LEMMA AllocPages ==
    ASSUME NEW h, NEW own, NEW E, NEW F, Owns(h, own, E, F), NEW n \in Nat,
           NEW r, r = alloc_pages(h, n)
    PROVE  \/ r.at = NULL /\ r.heap = h
           \/ /\ r.at \in Nat /\ r.at # NULL /\ Owns(r.heap, own, E, F)
              /\ HEAP_START <= r.at /\ \A p \in DOMAIN own : p < r.at
              /\ (r.at + n) * PAGE_SIZE = r.heap.current /\ r.at + n <= E
<1>1. PICK t : t = heap_alloc(h, n * PAGE_SIZE, PAGE_SIZE)
  OBVIOUS
<1>2. r = cleared(t, n)
  BY <1>1 DEF alloc_pages
<1>3. \/ t.at = NULL /\ t.heap = h
      \/ /\ t.at # NULL /\ Owns(t.heap, own, E, F)
         /\ va_vpn(t.at) \in Nat /\ t.at = va_vpn(t.at) * PAGE_SIZE
         /\ HEAP_START <= va_vpn(t.at) /\ \A p \in DOMAIN own : p < va_vpn(t.at)
         /\ (va_vpn(t.at) + n) * PAGE_SIZE = t.heap.current /\ va_vpn(t.at) + n <= E
  BY <1>1, PagesFrom
<1>4. CASE t.at = NULL
  BY <1>2, <1>3, <1>4 DEF cleared
<1>5. CASE t.at # NULL
  <2>1. PICK q : q = [first |-> va_vpn(t.at), own |-> own, E |-> E, F |-> F, current |-> t.heap.current]
    OBVIOUS
  <2>2. r = Taken(ClearLoop!Looped(q, t.heap, n), va_vpn(t.at))
    BY <1>2, <1>5, <2>1 DEF cleared, Loop, ClearLoop!Looped, ClearLoop!IsLoop, ClearStep
  <2>3. Unowned(q, t.heap)
    BY <1>3, <1>5, <2>1 DEF Unowned
  <2>4. ASSUME NEW k \in 0..(n - 1), NEW g, Unowned(q, g) PROVE Unowned(q, ClearStep(q, g, k))
    <3>1. q.first + k \in Nat /\ q.first + k \notin DOMAIN own
      <4>1. ASSUME q.first + k \in DOMAIN own PROVE FALSE
        BY <1>3, <1>5, <2>1, <4>1
      <4> QED
        BY <1>3, <1>5, <2>1, <4>1
    <3>2. Owns(g, own, E, F) /\ g.current = q.current
      BY <2>1, <2>4 DEF Unowned
    <3>3. Owns(ClearStep(q, g, k), own, E, F)
      BY <3>1, <3>2, WriteFree, ZeroFits DEF ClearStep
    <3>4. ClearStep(q, g, k).current = g.current
      BY <3>2 DEF ClearStep, Owns, IsHeap
    <3> QED
      BY <2>1, <3>2, <3>3, <3>4 DEF Unowned
  <2>5. Unowned(q, ClearLoop!Looped(q, t.heap, n))
    BY <2>3, <2>4, ClearLoop!LoopKeeps
  <2>6. Owns(r.heap, own, E, F) /\ r.heap.current = t.heap.current /\ r.at = va_vpn(t.at)
    BY <2>1, <2>2, <2>5 DEF Taken, Unowned
  <2> QED
    BY <1>3, <1>5, <2>6, Sizes DEF NULL
<1> QED
  BY <1>4, <1>5

\* The loop that copies data to pages above all that have an owner.
CopyStep(q, g, k) == [g EXCEPT !.mem[va_vpn(q.at + k)][va_offset(q.at + k)] = q.data[k + 1]]
CopyLoop == INSTANCE FoldInduction WITH op <- CopyStep, Keep <- Unowned

LEMMA Copies ==
    ASSUME NEW h, NEW own, NEW E, NEW F, Owns(h, own, E, F),
           NEW a \in Nat, \A p \in DOMAIN own : p < a,
           NEW offset \in Nat, NEW data \in Seq(Words)
    PROVE  Unowned([own |-> own, E |-> E, F |-> F, current |-> h.current],
                   copied(h, a * PAGE_SIZE + offset, data))
<1>1. PICK q : q = [at |-> a * PAGE_SIZE + offset, data |-> data,
                    own |-> own, E |-> E, F |-> F, current |-> h.current]
  OBVIOUS
<1>2. copied(h, a * PAGE_SIZE + offset, data) = CopyLoop!Looped(q, h, Len(data))
  BY <1>1 DEF copied, Loop, CopyLoop!Looped, CopyLoop!IsLoop, CopyStep
<1>3. Unowned(q, h) /\ Len(data) \in Nat
  BY <1>1 DEF Unowned
<1>4. ASSUME NEW k \in 0..(Len(data) - 1), NEW g, Unowned(q, g) PROVE Unowned(q, CopyStep(q, g, k))
  <2>1. Owns(g, own, E, F) /\ g.current = q.current
    BY <1>1, <1>4 DEF Unowned
  <2>2. PICK n \in Nat \ {0}, x \in Nat : n = PAGE_SIZE /\ x = a * n + offset + k
    BY Sizes
  <2>3. va_vpn(q.at + k) = x \div n /\ va_offset(q.at + k) = x % n
    BY <1>1, <2>2 DEF va_vpn, va_offset
  <2>4. x \div n \in Nat /\ x % n \in 0..(n - 1)
    BY <2>2, Z3
  <2>5. a <= x \div n
    <3>1. x >= a * n
      <4>1. PICK y \in Int : y = a * n
        BY <2>2
      <4> QED
        BY <2>2, <4>1
    <3>2. \A y \in Nat : a * n <= y => a <= y \div n
      BY Z3
    <3> QED
      BY <2>2, <3>1, <3>2
  <2>6. x \div n \notin DOMAIN own
    <3>1. ASSUME x \div n \in DOMAIN own PROVE FALSE
      <4>1. x \div n < a
        BY <3>1
      <4> QED
        BY <2>4, <2>5, <4>1
    <3> QED
      BY <3>1
  <2>7. data[k + 1] \in Words
    BY <1>4
  <2>8. CopyStep(q, g, k) = [g EXCEPT !.mem[x \div n][x % n] = data[k + 1]]
    BY <1>1, <2>3 DEF CopyStep
  <2>9. Owns(CopyStep(q, g, k), own, E, F)
    <3>1. x % n \in 0..(PTE_PER_PAGE - 1)
      BY <2>2, <2>4, Sizes
    <3>2. PICK y \in Nat, z \in 0..(PTE_PER_PAGE - 1) : y = x \div n /\ z = x % n
      BY <2>4, <3>1
    <3>3. PICK u \in Words : u = data[k + 1]
      BY <2>7
    <3>4. y \in DOMAIN own => Len(own[y]) = LEVELS + 1
      BY <2>6, <3>2
    <3>5. Owns([g EXCEPT !.mem[y][z] = u], own, E, F)
      BY <2>1, <3>4, WriteWord
    <3> QED
      BY <2>8, <3>2, <3>3, <3>5
  <2>10. CopyStep(q, g, k).current = g.current
    BY <2>1, <2>8 DEF Owns, IsHeap
  <2> QED
    BY <1>1, <2>1, <2>9, <2>10 DEF Unowned
<1>5. Unowned(q, CopyLoop!Looped(q, h, Len(data)))
  BY <1>3, <1>4, CopyLoop!LoopKeeps
<1> QED
  BY <1>1, <1>2, <1>5 DEF Unowned

\* One level down.
LEMMA Descends ==
    ASSUME NEW w, NEW own, NEW E, NEW F, Owns(w.heap, own, E, F),
           NEW path, IsPath(path), Len(path) < LEVELS,
           w.at # NULL => w.at \in DOMAIN own /\ own[w.at] = path,
           NEW vpn \in Nat, NEW level \in 0..2
    PROVE  /\ IsPath(Append(path, vpn_index(vpn, level)))
           /\ Len(Append(path, vpn_index(vpn, level))) = Len(path) + 1
           /\ Got(descend(w, vpn, level), own, Append(path, vpn_index(vpn, level)), E, F)
<1>0. /\ path \in Seq(Int) /\ Len(path) \in Nat
      /\ 1 <= Len(path) /\ Len(path) <= 2 /\ Len(path) <= LEVELS /\ Len(path) # LEVELS
  <2>1. path \in Seq(Int) /\ Len(path) \in 1..4
    BY DEF IsPath, LEVELS
  <2>2. PICK n \in Nat : n = Len(path)
    BY <2>1
  <2>3. n < 3 /\ n >= 1
    BY <2>1, <2>2 DEF LEVELS
  <2>4. n <= 2 /\ n <= 3 /\ n # 3
    BY <2>3
  <2> QED
    BY <2>1, <2>2, <2>3, <2>4 DEF LEVELS
<1>1. PICK idx : idx = vpn_index(vpn, level)
  OBVIOUS
<1>2. idx \in 0..(PTE_PER_PAGE - 1)
  BY <1>1, IndexIs
<1>3. idx \in Int
  BY <1>2, PageAssumption
<1>4. PICK longer : longer = Append(path, idx)
  OBVIOUS
<1>5. IsPath(longer) /\ Len(longer) = Len(path) + 1
  <2>1. path \in Seq(Int)
    BY DEF IsPath
  <2>2. longer \in Seq(Int) /\ Len(longer) = Len(path) + 1
    BY <1>3, <1>4, <2>1
  <2>3. Len(longer) \in 1..(LEVELS + 1)
    <3>1. PICK n \in Nat : n = Len(path) /\ 1 <= n /\ n <= 2
      BY <1>0
    <3>2. n + 1 \in 1..4
      BY <3>1
    <3> QED
      BY <2>2, <3>1, <3>2 DEF LEVELS
  <2> QED
    BY <2>2, <2>3 DEF IsPath
<1>6. Extends(own, own)
  BY DEF Extends
<1>7. CASE w.at = NULL
  <2>1. descend(w, vpn, level) = w
    BY <1>7 DEF descend
  <2> QED
    BY <1>1, <1>4, <1>5, <1>6, <1>7, <2>1 DEF Got
<1>8. CASE w.at # NULL /\ pte_valid(w.heap.mem[w.at][idx])
  <2>1. descend(w, vpn, level) = Taken(w.heap, w.heap.mem[w.at][idx].ppn)
    BY <1>1, <1>8 DEF descend
  <2>2. Len(path) <= LEVELS /\ Len(path) # LEVELS
    BY <1>0
  <2>3. Fits(own, E, path, idx, w.heap.mem[w.at][idx])
    BY <1>2, <1>8, <2>2, SMTT(30) DEF Owns
  <2>4. ~pte_is_leaf(w.heap.mem[w.at][idx])
    BY <1>8, <2>2, <2>3, SMTT(30) DEF Fits
  <2>5. w.heap.mem[w.at][idx].ppn \in DOMAIN own /\ own[w.heap.mem[w.at][idx].ppn] = longer
    BY <1>4, <1>8, <2>3, <2>4 DEF Fits, Inner
  <2> QED
    <3>1. PICK d : d = descend(w, vpn, level)
      OBVIOUS
    <3>2. d.heap = w.heap /\ d.at \in DOMAIN own /\ own[d.at] = longer
      BY <2>1, <2>5, <3>1 DEF Taken
    <3>3. Got(d, own, longer, E, F)
      BY <1>6, <3>2 DEF Got
    <3> QED
      BY <1>1, <1>4, <1>5, <3>1, <3>3
<1>9. CASE w.at # NULL /\ ~pte_valid(w.heap.mem[w.at][idx])
  <2>1. PICK new : new = alloc_page(w.heap)
    OBVIOUS
  <2>2. descend(w, vpn, level) = put_table(new, w.at, idx)
    BY <1>1, <1>9, <2>1 DEF descend
  <2>3. PICK more : /\ Owns(new.heap, more, E, F) /\ Extends(more, own)
                    /\ new.at # NULL => new.at \in DOMAIN more /\ more[new.at] = longer
    BY <1>5, <2>1, AllocPage DEF Got
  <2>4. CASE new.at = NULL
    <3>1. put_table(new, w.at, idx) = new
      BY <2>4 DEF put_table
    <3> QED
      BY <1>1, <1>4, <1>5, <2>2, <2>3, <2>4, <3>1 DEF Got
  <2>5. CASE new.at # NULL
    <3>1. PICK pte : pte = make_pte(new.at, {"V"})
      OBVIOUS
    <3>2. new.at \in Nat
      BY <2>3, <2>5, OwnedPages
    <3>3. pte \in Words /\ ~pte_is_leaf(pte) /\ pte.ppn = new.at
      BY <3>1, <3>2 DEF make_pte, Words, PteFlags, pte_is_leaf
    <3>4. Inner(pte)
      BY <3>1, <3>3 DEF Inner, pte_valid, make_pte
    <3>5. w.at \in DOMAIN more /\ more[w.at] = path
      BY <1>9, <2>3 DEF Extends
    <3>6. Len(path) # LEVELS
      BY <1>0
    <3>7. Fits(more, E, path, idx, pte)
      BY <1>4, <2>3, <2>5, <3>3, <3>4, <3>6 DEF Fits
    <3>8. Writable(F, w.at, idx)
      <4>1. Held(w.heap, own, F)
        BY DEF Owns
      <4>2. w.at \in DOMAIN F.own => Len(F.own[w.at]) <= LEVELS
        BY <1>0, <1>9, <4>1 DEF Held, Extends
      <4> QED
        BY <1>2, <1>9, <4>1, <4>2 DEF Held, Writable
    <3>9. Owns([new.heap EXCEPT !.mem[w.at][idx] = pte], more, E, F)
      BY <1>2, <2>3, <3>3, <3>5, <3>7, <3>8, WriteEntry
    <3>10. put_table(new, w.at, idx) = Taken([new.heap EXCEPT !.mem[w.at][idx] = pte], new.at)
      BY <2>5, <3>1 DEF put_table
    <3> QED
      BY <1>1, <1>4, <1>5, <2>2, <2>3, <2>5, <3>9, <3>10 DEF Got, Taken
  <2> QED
    BY <2>4, <2>5
<1> QED
  BY <1>7, <1>8, <1>9

\* The path of the table with the last entry for vpn.
table_path(p, vpn) == Append(Append(<<p>>, vpn_index(vpn, 0)), vpn_index(vpn, 1))

\* The path of the page for vpn, and that the entries for pages may be written.
page_path(p, vpn) == Append(table_path(p, vpn), vpn_index(vpn, 2))
Open(F, p, pages) == \A v \in pages : page_path(p, v) \in F.open

LEMMA Walks ==
    ASSUME NEW h, NEW own, NEW E, NEW F, Owns(h, own, E, F), NEW p \in Nat, NEW root \in DOMAIN own,
           own[root] = <<p>>, NEW vpn \in Nat
    PROVE  /\ Got(walk(h, root, vpn), own, table_path(p, vpn), E, F)
           /\ IsPath(table_path(p, vpn)) /\ Len(table_path(p, vpn)) = LEVELS
<1>1. PICK start : start = <<p>>
  OBVIOUS
<1>2. IsPath(start) /\ Len(start) = 1 /\ Len(start) < LEVELS
  BY <1>1 DEF IsPath, LEVELS
<1>3. PICK v : v = Taken(h, root)
  OBVIOUS
<1>4. v.heap = h /\ v.at = root /\ Owns(v.heap, own, E, F) /\ v.at \in DOMAIN own /\ own[v.at] = start
  BY <1>1, <1>3 DEF Taken
<1>5. PICK path : path = Append(start, vpn_index(vpn, 0))
  OBVIOUS
<1>6. 0 \in 0..2 /\ 1 \in 0..2
  OBVIOUS
<1>7. PICK w : w = descend(v, vpn, 0)
  OBVIOUS
<1>8. IsPath(path) /\ Len(path) = Len(start) + 1 /\ Got(w, own, path, E, F)
  BY <1>2, <1>4, <1>5, <1>6, <1>7, Descends, ZenonT(60)
<1>9. PICK more : /\ Owns(w.heap, more, E, F) /\ Extends(more, own)
                  /\ w.at # NULL => w.at \in DOMAIN more /\ more[w.at] = path
  BY <1>8 DEF Got
<1>10. Len(path) = 2 /\ Len(path) < LEVELS
  BY <1>2, <1>8 DEF LEVELS
<1>11. PICK longer : longer = Append(path, vpn_index(vpn, 1))
  OBVIOUS
<1>12. IsPath(longer) /\ Len(longer) = Len(path) + 1 /\ Got(descend(w, vpn, 1), more, longer, E, F)
  BY <1>6, <1>8, <1>9, <1>10, <1>11, Descends
<1>13. longer = table_path(p, vpn)
  BY <1>1, <1>5, <1>11 DEF table_path
<1>14. walk(h, root, vpn) = descend(w, vpn, 1)
  BY <1>3, <1>7 DEF walk
<1>15. Got(walk(h, root, vpn), own, longer, E, F)
  BY <1>9, <1>12, <1>14, ExtendsAgain DEF Got
<1> QED
  BY <1>10, <1>12, <1>13, <1>15 DEF LEVELS

LEMMA SetsEntry ==
    ASSUME NEW h, NEW own, NEW E, NEW F, Owns(h, own, E, F), NEW p \in Nat, NEW root \in DOMAIN own,
           own[root] = <<p>>, NEW vpn \in Nat, NEW pte \in Words,
           Fits(own, E, table_path(p, vpn), vpn_index(vpn, 2), pte), page_path(p, vpn) \in F.open
    PROVE  Kept(set_entry(walk(h, root, vpn), vpn, pte), own, E, F)
<1>1. PICK w : w = walk(h, root, vpn)
  OBVIOUS
<1>2. PICK more : /\ Owns(w.heap, more, E, F) /\ Extends(more, own)
                  /\ w.at # NULL => w.at \in DOMAIN more /\ more[w.at] = table_path(p, vpn)
  BY <1>1, Walks DEF Got
<1>3. CASE w.at = NULL
  BY <1>1, <1>2, <1>3 DEF set_entry, Kept
<1>4. CASE w.at # NULL
  <2>1. Fits(more, E, table_path(p, vpn), vpn_index(vpn, 2), pte)
    BY <1>2, FitsMore
  <2>2. vpn_index(vpn, 2) \in 0..(PTE_PER_PAGE - 1)
    BY IndexIs
  <2>3. Owns([w.heap EXCEPT !.mem[w.at][vpn_index(vpn, 2)] = pte], more, E, F)
    <3>1. Writable(F, w.at, vpn_index(vpn, 2))
      BY <1>2, <1>4 DEF Owns, Held, Extends, Writable, page_path
    <3> QED
      BY <1>2, <1>4, <2>1, <2>2, <3>1, WriteEntry
  <2>4. set_entry(w, vpn, pte) = [w.heap EXCEPT !.mem[w.at][vpn_index(vpn, 2)] = pte]
    <3>1. LEVELS - 1 = 2
      BY DEF LEVELS
    <3> QED
      BY <1>4, <3>1 DEF set_entry
  <2> QED
    BY <1>1, <1>2, <2>3, <2>4 DEF Kept
<1> QED
  BY <1>3, <1>4

-----------------------------------------------------------------------------
(* Mappings *)

LEMMA KeptMore ==
    ASSUME NEW h, NEW own, NEW E, NEW F, NEW more, Extends(more, own), Kept(h, more, E, F)
    PROVE  Kept(h, own, E, F)
  BY ExtendsAgain DEF Kept

\* The entry that as_map_extern makes for page k.
MapPte(q, k) == make_pte(q.base + k, q.flags \cup {"V"})
MapStep(q, g, k) == set_entry(walk(g, q.root, q.start + k), q.start + k, MapPte(q, k))
Mapping(q, g) == Kept(g, q.own, q.E, q.F)
MapLoop == INSTANCE FoldInduction WITH op <- MapStep, Keep <- Mapping

\* The entries for n pages that follow each other fit where they go.
Fitting(own, E, p, start, n, base, flags) ==
    \A k \in 0..(n - 1) : Fits(own, E, table_path(p, start + k), vpn_index(start + k, 2),
                               make_pte(base + k, flags \cup {"V"}))

LEMMA Maps ==
    ASSUME NEW h, NEW own, NEW E, NEW F, Owns(h, own, E, F), NEW p \in Nat, NEW root \in DOMAIN own,
           own[root] = <<p>>, NEW start \in Nat, NEW n \in Nat, NEW base \in Nat,
           NEW flags \in SUBSET PteFlags,
           Fitting(own, E, p, start, n, base, flags), Open(F, p, start..(start + n - 1)),
           NEW end, n = end - start
    PROVE  Kept(as_map_extern(h, root, start, end, base, flags), own, E, F)
<1>1. PICK q : q = [root |-> root, start |-> start, base |-> base, flags |-> flags,
                    own |-> own, E |-> E, F |-> F]
  OBVIOUS
<1>2. as_map_extern(h, root, start, end, base, flags) = MapLoop!Looped(q, h, n)
  BY <1>1 DEF as_map_extern, Loop, MapLoop!Looped, MapLoop!IsLoop, MapStep, MapPte
<1>3. Mapping(q, h)
  BY <1>1 DEF Mapping, Kept, Extends
<1>4. ASSUME NEW k \in 0..(n - 1), NEW g, Mapping(q, g) PROVE Mapping(q, MapStep(q, g, k))
  <2>1. PICK more : Owns(g, more, E, F) /\ Extends(more, own)
    BY <1>1, <1>4 DEF Mapping, Kept
  <2>2. root \in DOMAIN more /\ more[root] = <<p>>
    BY <2>1 DEF Extends
  <2>3. start + k \in Nat /\ base + k \in Nat
    OBVIOUS
  <2>4. PICK pte : pte = make_pte(base + k, flags \cup {"V"})
    OBVIOUS
  <2>5. pte \in Words
    BY <2>3, <2>4 DEF make_pte, Words, PteFlags
  <2>6. Fits(more, E, table_path(p, start + k), vpn_index(start + k, 2), pte)
    BY <2>1, <2>4, FitsMore DEF Fitting
  <2>7. Kept(set_entry(walk(g, root, start + k), start + k, pte), more, E, F)
    <3>1. page_path(p, start + k) \in F.open
      BY DEF Open
    <3> QED
      BY <2>1, <2>2, <2>3, <2>5, <2>6, <3>1, SetsEntry
  <2>8. MapStep(q, g, k) = set_entry(walk(g, root, start + k), start + k, pte)
    BY <1>1, <2>4 DEF MapStep, MapPte
  <2> QED
    BY <1>1, <2>1, <2>7, <2>8, KeptMore DEF Mapping
<1>5. Mapping(q, MapLoop!Looped(q, h, n))
  BY <1>3, <1>4, MapLoop!LoopKeeps
<1> QED
  BY <1>1, <1>2, <1>5 DEF Mapping

LEMMA Appended ==
    ASSUME NEW s \in Seq(Int), NEW x \in Int
    PROVE  /\ Append(s, x) \in Seq(Int) /\ Len(Append(s, x)) = Len(s) + 1
           /\ \A i \in 1..Len(s) : Append(s, x)[i] = s[i]
           /\ Append(s, x)[Len(s) + 1] = x
  OBVIOUS

LEMMA PagePath ==
    ASSUME NEW p \in Nat, NEW vpn \in Nat
    PROVE  /\ IsPath(table_path(p, vpn)) /\ Len(table_path(p, vpn)) = LEVELS
           /\ table_path(p, vpn) \in Seq(Int) /\ table_path(p, vpn)[1] = p
           /\ <<table_path(p, vpn)[2], table_path(p, vpn)[3], vpn_index(vpn, 2)>> = vpn_path(vpn)
           /\ IsPath(page_path(p, vpn)) /\ page_path(p, vpn) \in Seq(Int)
           /\ Len(page_path(p, vpn)) = LEVELS + 1
<1>1. PICK i \in Int, j \in Int, k \in Int :
         i = vpn_index(vpn, 0) /\ j = vpn_index(vpn, 1) /\ k = vpn_index(vpn, 2)
  BY IndexIs, PageAssumption
<1>2. PICK a : a = <<p>>
  OBVIOUS
<1>3. a \in Seq(Int) /\ Len(a) = 1 /\ a[1] = p
  BY <1>2
<1>4. PICK b : b = Append(a, i)
  OBVIOUS
<1>5. b \in Seq(Int) /\ Len(b) = 2 /\ b[1] = p /\ b[2] = i
  <2>1. /\ b \in Seq(Int) /\ Len(b) = Len(a) + 1 /\ b[Len(a) + 1] = i
        /\ \A m \in 1..Len(a) : b[m] = a[m]
    BY <1>3, <1>4, Appended, Zenon
  <2> QED
    BY <1>3, <2>1
<1>6. PICK c : c = Append(b, j)
  OBVIOUS
<1>7. c \in Seq(Int) /\ Len(c) = 3 /\ c[1] = p /\ c[2] = i /\ c[3] = j
  <2>1. /\ c \in Seq(Int) /\ Len(c) = Len(b) + 1 /\ c[Len(b) + 1] = j
        /\ \A m \in 1..Len(b) : c[m] = b[m]
    BY <1>5, <1>6, Appended, Zenon
  <2> QED
    BY <1>5, <2>1
<1>8. PICK d : d = Append(c, k)
  OBVIOUS
<1>9. d \in Seq(Int) /\ Len(d) = 4
  <2>1. d \in Seq(Int) /\ Len(d) = Len(c) + 1
    BY <1>7, <1>8, Appended, Zenon
  <2> QED
    BY <1>7, <2>1
<1>10. c = table_path(p, vpn) /\ d = page_path(p, vpn)
  BY <1>1, <1>2, <1>4, <1>6, <1>8 DEF table_path, page_path
<1>11. vpn_path(vpn) = <<i, j, k>>
  BY <1>1 DEF vpn_path
<1> QED
  BY <1>1, <1>7, <1>9, <1>10, <1>11 DEF IsPath, LEVELS

\* Pages with the user flag: as_map gets them first, and they get their owners;
\* then it maps them.
NewPages(h, own, E, F, p, start, n, flags, g, more, a) ==
    /\ Owns(g, more, E, F) /\ Extends(more, own)
    /\ Fitting(more, E, p, start, n, a, flags)

LEMMA GetsPages ==
    ASSUME NEW h, NEW own, NEW E, NEW F, Owns(h, own, E, F), NEW p \in Nat, NEW root,
           NEW start \in Nat, NEW end, NEW n \in Nat, n = end - start,
           NEW data \in Seq(Words), NEW offset \in Nat, NEW flags \in SUBSET PteFlags,
           "U" \in flags, flags \cap {"R", "W", "X"} # {}
    PROVE  \/ /\ as_map(h, root, start, end, data, offset, flags) = h
              /\ alloc_pages(h, n).at = NULL
           \/ \E a \in Nat \ {0} : \E g, more :
                 /\ NewPages(h, own, E, F, p, start, n, flags, g, more, a)
                 /\ as_map(h, root, start, end, data, offset, flags)
                      = as_map_extern(g, root, start, end, a, flags)
<1>1. PICK r : r = alloc_pages(h, end - start)
  OBVIOUS
<1>2. as_map(h, root, start, end, data, offset, flags) = map_pages(r, root, start, end, data, offset, flags)
  BY <1>1 DEF as_map
<1>3. \/ r.at = NULL /\ r.heap = h
      \/ /\ r.at \in Nat /\ r.at # NULL /\ Owns(r.heap, own, E, F)
         /\ HEAP_START <= r.at /\ \A t \in DOMAIN own : t < r.at
         /\ (r.at + n) * PAGE_SIZE = r.heap.current /\ r.at + n <= E
  BY <1>1, AllocPages
<1>4. CASE r.at = NULL
  BY <1>1, <1>2, <1>3, <1>4 DEF map_pages
<1>5. CASE r.at # NULL
  <2>1. PICK a \in Nat : a = r.at
    BY <1>3, <1>5
  <2>2. PICK g : g = copied(r.heap, a * PAGE_SIZE + offset, data)
    OBVIOUS
  <2>3. as_map(h, root, start, end, data, offset, flags) = as_map_extern(g, root, start, end, a, flags)
    BY <1>2, <1>5, <2>1, <2>2 DEF map_pages
  <2>4. Owns(g, own, E, F) /\ g.current = r.heap.current
    <3>1. \A t \in DOMAIN own : t < a
      BY <1>3, <1>5, <2>1
    <3>2. Unowned([own |-> own, E |-> E, F |-> F, current |-> r.heap.current], g)
      BY <1>3, <1>5, <2>2, <3>1, Copies
    <3> QED
      BY <3>2 DEF Unowned
  <2>5. PICK S : S = a..(a + n - 1)
    OBVIOUS
  <2>6. PICK f : f = [t \in S |-> page_path(p, start + (t - a))]
    OBVIOUS
  <2>7. ASSUME NEW t \in S
        PROVE  /\ start + (t - a) \in Nat /\ f[t] = page_path(p, start + (t - a))
               /\ f[t] \in Seq(Int) /\ IsPath(f[t]) /\ Len(f[t]) = LEVELS + 1
    <3>1. start + (t - a) \in Nat
      BY <2>5
    <3> QED
      BY <2>6, <3>1, PagePath
  <2>8. f \in [S -> Seq(Int)]
    BY <2>6, <2>7
  <2>9. ASSUME NEW t \in S
        PROVE  /\ t \in Nat /\ t \notin DOMAIN own /\ HEAP_START <= t
               /\ (t + 1) * PAGE_SIZE <= g.current
               /\ IsPath(f[t])
               /\ Len(f[t]) <= LEVELS => g.mem[t] = ZeroPage
    <3>1. t \in Nat /\ a <= t /\ t + 1 <= a + n
      BY <2>5
    <3>2. HEAP_START <= t
      BY <1>3, <1>5, <2>1, <3>1, Sizes
    <3>3. t \notin DOMAIN own
      <4>1. ASSUME t \in DOMAIN own PROVE FALSE
        BY <1>3, <1>5, <2>1, <3>1, <4>1
      <4> QED
        BY <4>1
    <3>4. (t + 1) * PAGE_SIZE <= g.current
      <4>1. (t + 1) * PAGE_SIZE <= (a + n) * PAGE_SIZE
        BY <3>1, PagesGrow
      <4> QED
        BY <1>3, <1>5, <2>1, <2>4, <4>1
    <3>5. ~(Len(f[t]) <= LEVELS)
      <4>1. Len(f[t]) = 4
        BY <2>7 DEF LEVELS
      <4> QED
        BY <4>1 DEF LEVELS
    <3> QED
      BY <2>7, <3>1, <3>2, <3>3, <3>4, <3>5
  <2>10. PICK more : /\ Owns(g, more, E, F) /\ Extends(more, own)
                     /\ \A t \in S : t \in DOMAIN more /\ more[t] = f[t]
    <3>1. Unused(g, own, S, f)
      BY <2>9 DEF Unused
    <3> QED
      BY <2>4, <2>8, <3>1, NewOwners
  <2>11. ASSUME NEW k \in 0..(n - 1)
         PROVE  Fits(more, E, table_path(p, start + k), vpn_index(start + k, 2),
                     make_pte(a + k, flags \cup {"V"}))
    <3>1. a + k \in S /\ start + ((a + k) - a) = start + k /\ start + k \in Nat
      BY <2>5
    <3>2. a + k \in DOMAIN more /\ more[a + k] = page_path(p, start + k)
      BY <2>7, <2>10, <3>1
    <3>3. PICK pte : pte = make_pte(a + k, flags \cup {"V"})
      OBVIOUS
    <3>4. pte.ppn = a + k /\ pte_is_leaf(pte) /\ Inner(pte)
      BY <3>3 DEF make_pte, pte_is_leaf, pte_valid, Inner
    <3>5. Len(table_path(p, start + k)) = LEVELS
      BY <3>1, PagePath
    <3> QED
      BY <3>2, <3>3, <3>4, <3>5 DEF Fits, page_path
  <2>12. NewPages(h, own, E, F, p, start, n, flags, g, more, a) /\ a # 0
    BY <1>5, <2>1, <2>10, <2>11 DEF NewPages, Fitting, NULL
  <2> QED
    BY <2>3, <2>12
<1> QED
  BY <1>4, <1>5

LEMMA MapsNew ==
    ASSUME NEW h, NEW own, NEW E, NEW F, Owns(h, own, E, F), NEW p \in Nat, NEW root \in DOMAIN own,
           own[root] = <<p>>, NEW start \in Nat, NEW end, NEW n \in Nat, n = end - start,
           NEW data \in Seq(Words), NEW offset \in Nat, end \in Int,
           NEW flags \in SUBSET PteFlags, "U" \in flags, flags \cap {"R", "W", "X"} # {},
           Open(F, p, start..(end - 1))
    PROVE  Kept(as_map(h, root, start, end, data, offset, flags), own, E, F)
<1>1. PICK r : r = as_map(h, root, start, end, data, offset, flags)
  OBVIOUS
<1>2. CASE r = h
  BY <1>1, <1>2 DEF Kept, Extends
<1>3. CASE r # h
  <2>0. PICK a \in Nat \ {0} : \E g, more :
           /\ NewPages(h, own, E, F, p, start, n, flags, g, more, a)
           /\ r = as_map_extern(g, root, start, end, a, flags)
    BY <1>1, <1>3, GetsPages
  <2>1. PICK g, more :
           /\ NewPages(h, own, E, F, p, start, n, flags, g, more, a)
           /\ r = as_map_extern(g, root, start, end, a, flags)
    BY <2>0
  <2>2. Owns(g, more, E, F) /\ Extends(more, own)
    BY <2>1 DEF NewPages
  <2>3. Fitting(more, E, p, start, n, a, flags)
    BY <2>1 DEF NewPages
  <2>4. root \in DOMAIN more /\ more[root] = <<p>>
    BY <2>2 DEF Extends
  <2>5. Open(F, p, start..(start + n - 1))
    <3>1. start + n - 1 = end - 1
      OBVIOUS
    <3> QED
      BY <3>1
  <2>6. Kept(r, more, E, F)
    BY <2>1, <2>2, <2>3, <2>4, <2>5, Maps
  <2> QED
    BY <1>1, <2>2, <2>6, KeptMore
<1> QED
  BY <1>2, <1>3

\* The kernel's pages.
LEMMA KernelFits ==
    ASSUME NEW h, NEW own, NEW E, NEW F, Owns(h, own, E, F), NEW p \in Nat,
           NEW from \in Nat, NEW to \in Int, KERNEL_TEXT <= from, to <= E, NEW n \in Nat, n = to - from,
           NEW flags \in SUBSET PteFlags, "U" \notin flags, flags \cap {"R", "W", "X"} # {}
    PROVE  Fitting(own, E, p, from, n, from, flags)
<1> SUFFICES ASSUME NEW k \in 0..(n - 1)
             PROVE  Fits(own, E, table_path(p, from + k), vpn_index(from + k, 2),
                         make_pte(from + k, flags \cup {"V"}))
  BY DEF Fitting
<1>1. from + k \in Nat /\ from + k \in KERNEL_TEXT..(E - 1)
  <2>1. E \in Int /\ KERNEL_TEXT \in Int
    BY Sizes DEF Owns, IsHeap
  <2>2. from + k < to
    OBVIOUS
  <2> QED
    BY <2>1, <2>2
<1>2. PICK pte : pte = make_pte(from + k, flags \cup {"V"})
  OBVIOUS
<1>3. pte_is_leaf(pte) /\ ~Inner(pte)
  BY <1>2 DEF make_pte, pte_is_leaf, pte_valid, Inner
<1>4. /\ Len(table_path(p, from + k)) = LEVELS
      /\ <<table_path(p, from + k)[2], table_path(p, from + k)[3], vpn_index(from + k, 2)>>
           = vpn_path(from + k)
  BY <1>1, PagePath
<1> QED
  BY <1>1, <1>2, <1>3, <1>4 DEF Fits

LEMMA MapsKernel ==
    ASSUME NEW h, NEW own, NEW E, NEW F, Owns(h, own, E, F), NEW p \in Nat, NEW root \in DOMAIN own,
           own[root] = <<p>>, NEW from \in Nat, NEW to \in Int, from <= to,
           KERNEL_TEXT <= from, to <= E,
           NEW flags \in SUBSET PteFlags, "U" \notin flags, flags \cap {"R", "W", "X"} # {},
           Open(F, p, from..(to - 1))
    PROVE  Kept(as_map_extern(h, root, from, to, from, flags), own, E, F)
<1>1. PICK n \in Nat : n = to - from
  OBVIOUS
<1>2. Open(F, p, from..(from + n - 1))
  <2>1. from + n - 1 = to - 1
    BY <1>1
  <2> QED
    BY <2>1
<1>3. Fitting(own, E, p, from, n, from, flags)
  BY <1>1, KernelFits
<1> QED
  BY <1>1, <1>2, <1>3, Maps

-----------------------------------------------------------------------------
(* New address spaces *)

LEMMA HeapEnds ==
    ASSUME NEW h, NEW E, IsHeap(h, E)
    PROVE  E \in Nat /\ va_vpn(h.end) = E /\ KERNEL_TEXT + 3 <= E
<1>1. E \in Nat /\ h.end = E * PAGE_SIZE
  BY DEF IsHeap
<1>2. va_vpn(h.end) = E
  <2>1. 0 \in 0..(PAGE_SIZE - 1) /\ E * PAGE_SIZE + 0 = h.end
    BY <1>1, Sizes
  <2> QED
    BY <1>1, <2>1, InPage
<1>3. KERNEL_TEXT + 3 <= E
  <2>1. HEAP_START * PAGE_SIZE <= E * PAGE_SIZE
    <3>1. PICK x \in Int, y \in Int, z \in Int : x = HEAP_START * PAGE_SIZE /\ y = h.current /\ z = E * PAGE_SIZE
      BY <1>1, Sizes DEF IsHeap
    <3>2. x <= y /\ y <= z
      BY <1>1, <3>1 DEF IsHeap
    <3> QED
      BY <3>1, <3>2
  <2>2. HEAP_START <= E
    BY <1>1, <2>1, PagesGrow, Sizes
  <2> QED
    BY <1>1, <2>2, MemoryAssumption
<1> QED
  BY <1>1, <1>2, <1>3

\* A part of the kernel.
IsPart(x, E) ==
    /\ x.from \in Nat /\ x.to \in Int /\ x.from <= x.to /\ KERNEL_TEXT <= x.from /\ x.to <= E
    /\ x.flags \in SUBSET PteFlags /\ "V" \in x.flags /\ "U" \notin x.flags
    /\ x.flags \cap {"R", "W", "X"} # {}

LEMMA PartsAre ==
    ASSUME NEW E \in Nat, KERNEL_TEXT + 3 <= E, NEW i \in 1..3
    PROVE  IsPart(KernelParts(E)[i], E)
<1>1. i = 1 \/ i = 2 \/ i = 3
  OBVIOUS
<1>2. CASE i = 1
  <2>1. KernelParts(E)[i] = [from |-> KERNEL_TEXT, to |-> KERNEL_TEXT + 1, flags |-> {"V", "R", "X"}]
    BY <1>2 DEF KernelParts
  <2> QED
    BY <2>1, Sizes DEF PteFlags, IsPart
<1>3. CASE i = 2
  <2>1. KernelParts(E)[i] = [from |-> KERNEL_TEXT + 1, to |-> KERNEL_TEXT + 2, flags |-> {"V", "R"}]
    BY <1>3 DEF KernelParts
  <2> QED
    BY <2>1, Sizes DEF PteFlags, IsPart
<1>4. CASE i = 3
  <2>1. KernelParts(E)[i] = [from |-> KERNEL_TEXT + 2, to |-> E, flags |-> {"V", "R", "W"}]
    BY <1>4 DEF KernelParts
  <2> QED
    BY <2>1, Sizes DEF PteFlags, IsPart
<1> QED
  BY <1>1, <1>2, <1>3, <1>4

\* map_kernel_to_user's parts.
PartStep(q, g, i) ==
    LET x == KernelParts(q.end)[i + 1]
    IN  as_map_extern(g, q.root, x.from, x.to, x.from, x.flags)
PartLoop == INSTANCE FoldInduction WITH op <- PartStep, Keep <- Mapping

LEMMA PartMaps ==
    ASSUME NEW h, NEW own, NEW E, NEW F, Owns(h, own, E, F), NEW p \in Nat, NEW root \in DOMAIN own,
           own[root] = <<p>>, NEW x, IsPart(x, E), Open(F, p, x.from..(x.to - 1))
    PROVE  Kept(as_map_extern(h, root, x.from, x.to, x.from, x.flags), own, E, F)
<1>1. /\ x.from \in Nat /\ x.to \in Int /\ x.from <= x.to /\ KERNEL_TEXT <= x.from /\ x.to <= E
      /\ x.flags \in SUBSET PteFlags /\ "U" \notin x.flags /\ x.flags \cap {"R", "W", "X"} # {}
  BY DEF IsPart
<1> QED
  BY <1>1, MapsKernel

LEMMA KernelMaps ==
    ASSUME NEW h, NEW own, NEW E, NEW F, Owns(h, own, E, F), NEW p \in Nat, NEW root \in DOMAIN own,
           own[root] = <<p>>, Open(F, p, KernelPages(E))
    PROVE  Kept(map_kernel_to_user(h, root), own, E, F)
<1>1. E \in Nat /\ va_vpn(h.end) = E /\ KERNEL_TEXT + 3 <= E
  BY HeapEnds DEF Owns
<1>2. PICK q : q = [end |-> E, root |-> root, own |-> own, E |-> E, F |-> F]
  OBVIOUS
<1>3. map_kernel_to_user(h, root) = PartLoop!Looped(q, h, 3)
  BY <1>1, <1>2 DEF map_kernel_to_user, Loop, PartLoop!Looped, PartLoop!IsLoop, PartStep
<1>4. Mapping(q, h)
  BY <1>2 DEF Mapping, Kept, Extends
<1>5. ASSUME NEW i \in 0..(3 - 1), NEW g, Mapping(q, g) PROVE Mapping(q, PartStep(q, g, i))
  <2>1. PICK more : Owns(g, more, E, F) /\ Extends(more, own)
    BY <1>2, <1>5 DEF Mapping, Kept
  <2>2. root \in DOMAIN more /\ more[root] = <<p>>
    BY <2>1 DEF Extends
  <2>3. PICK x : x = KernelParts(E)[i + 1]
    OBVIOUS
  <2>4. PartStep(q, g, i) = as_map_extern(g, root, x.from, x.to, x.from, x.flags)
    BY <1>2, <2>3 DEF PartStep
  <2>5. IsPart(x, E)
    <3>1. i + 1 \in 1..3
      OBVIOUS
    <3> QED
      BY <1>1, <2>3, <3>1, PartsAre
  <2>6. Kept(as_map_extern(g, root, x.from, x.to, x.from, x.flags), more, E, F)
    <3>1. \A v \in x.from..(x.to - 1) : v \in KernelPages(E)
      BY <1>1, <2>5, Sizes DEF KernelPages, IsPart
    <3>2. Open(F, p, x.from..(x.to - 1))
      BY <3>1 DEF Open
    <3> QED
      BY <2>1, <2>2, <2>5, <3>2, PartMaps
  <2> QED
    BY <1>2, <2>1, <2>4, <2>6, KeptMore DEF Mapping
<1>6. Mapping(q, PartLoop!Looped(q, h, 3))
  BY <1>4, <1>5, PartLoop!LoopKeeps
<1> QED
  BY <1>2, <1>3, <1>6 DEF Mapping

\* elf_load's segments.
SegmentStep(q, g, i) == load_segment(g, q.root, q.segments[i + 1])
SegmentLoop == INSTANCE FoldInduction WITH op <- SegmentStep, Keep <- Mapping

LEMMA SegmentPages ==
    ASSUME NEW s, IsSegment(s)
    PROVE  va_vpn(s.vaddr) \in Nat /\ vpn_end_of(s) - va_vpn(s.vaddr) \in Nat
           /\ va_offset(s.vaddr) \in Nat
           /\ vpn_end_of(s) \in Int /\ PagesOf(s) = va_vpn(s.vaddr)..(vpn_end_of(s) - 1)
<1>1. PICK v \in Nat, m \in Nat, n \in Nat \ {0} : v = s.vaddr /\ m = s.memsz /\ n = PAGE_SIZE
  BY Sizes DEF IsSegment
<1>2. v \div n \in Nat /\ (v + m - 1) \div n + 1 - v \div n \in Nat /\ v % n \in Nat
  <2>1. v \div n \in Nat /\ v % n \in Nat /\ (v + m - 1) \div n \in Int
    BY <1>1, Z3
  <2>2. (v - 1) \div n + 1 >= v \div n
    BY <1>1, Z3
  <2>3. (v + m - 1) \div n >= (v - 1) \div n /\ (v - 1) \div n \in Int
    BY <1>1, Z3
  <2> QED
    BY <2>1, <2>2, <2>3
<1>3. PICK e \in Int : e = (v + m - 1) \div n
  BY <1>1, Z3
<1>4. vpn_end_of(s) = e + 1 /\ PagesOf(s) = va_vpn(s.vaddr)..e /\ e + 1 - 1 = e
  BY <1>1, <1>3 DEF vpn_end_of, PagesOf, va_vpn
<1>5. vpn_end_of(s) \in Int /\ vpn_end_of(s) - 1 = e
  BY <1>3, <1>4
<1>6. va_vpn(s.vaddr) = v \div n /\ va_offset(s.vaddr) = v % n
  BY <1>1 DEF va_vpn, va_offset
<1>7. vpn_end_of(s) = (v + m - 1) \div n + 1
  BY <1>1 DEF vpn_end_of, va_vpn
<1> QED
  BY <1>2, <1>4, <1>5, <1>6, <1>7

LEMMA SegmentMaps ==
    ASSUME NEW h, NEW own, NEW E, NEW F, Owns(h, own, E, F), NEW p \in Nat, NEW root \in DOMAIN own,
           own[root] = <<p>>, NEW s, IsSegment(s), Open(F, p, PagesOf(s))
    PROVE  Kept(load_segment(h, root, s), own, E, F)
<1>1. PICK flags : flags = s.flags \cup {"V", "U"}
  OBVIOUS
<1>2. /\ flags \in SUBSET PteFlags /\ "U" \in flags /\ flags \cap {"R", "W", "X"} # {}
      /\ s.file \in Seq(Words)
  BY <1>1 DEF IsSegment, PteFlags
<1>3. PICK start \in Nat, m \in Nat, offset \in Nat, data \in Seq(Words) :
         /\ start = va_vpn(s.vaddr) /\ m = vpn_end_of(s) - start
         /\ offset = va_offset(s.vaddr) /\ data = s.file
         /\ vpn_end_of(s) \in Int /\ PagesOf(s) = start..(vpn_end_of(s) - 1)
  BY <1>2, SegmentPages
<1>4. Kept(as_map(h, root, start, vpn_end_of(s), data, offset, flags), own, E, F)
  BY <1>2, <1>3, MapsNew
<1> QED
  BY <1>1, <1>3, <1>4 DEF load_segment

LEMMA ProgramIsLoaded ==
    ASSUME NEW h, NEW own, NEW E, NEW F, Owns(h, own, E, F), NEW p \in Nat, NEW root \in DOMAIN own,
           own[root] = <<p>>, NEW prog \in Programs,
           \A i \in DOMAIN prog.segments : Open(F, p, PagesOf(prog.segments[i]))
    PROVE  Kept(elf_load(h, root, prog), own, E, F)
<1>1. CASE prog.entry = NULL
  BY <1>1 DEF elf_load, Kept, Extends
<1>2. CASE prog.entry # NULL
  <2>1. PICK q : q = [root |-> root, segments |-> prog.segments, own |-> own, E |-> E, F |-> F]
    OBVIOUS
  <2>2. elf_load(h, root, prog) = SegmentLoop!Looped(q, h, Len(prog.segments))
    BY <1>2, <2>1 DEF elf_load, Loop, SegmentLoop!Looped, SegmentLoop!IsLoop, SegmentStep
  <2>3. PICK n \in Nat : n = Len(prog.segments) /\ DOMAIN prog.segments = 1..n
    <3>1. PICK T : prog.segments \in Seq(T)
      BY MemoryAssumption, Zenon
    <3> QED
      BY <3>1
  <2>4. Mapping(q, h)
    BY <2>1 DEF Mapping, Kept, Extends
  <2>5. ASSUME NEW i \in 0..(n - 1), NEW g, Mapping(q, g) PROVE Mapping(q, SegmentStep(q, g, i))
    <3>1. PICK more : Owns(g, more, E, F) /\ Extends(more, own)
      BY <2>1, <2>5 DEF Mapping, Kept
    <3>2. root \in DOMAIN more /\ more[root] = <<p>>
      BY <3>1 DEF Extends
    <3>3. PICK s : s = prog.segments[i + 1]
      OBVIOUS
    <3>4. IsSegment(s)
      <4>1. i + 1 \in DOMAIN prog.segments
        BY <2>3
      <4> QED
        BY <3>3, <4>1, MemoryAssumption
    <3>5. SegmentStep(q, g, i) = load_segment(g, root, s) /\ Open(F, p, PagesOf(s))
      BY <2>1, <2>3, <3>3 DEF SegmentStep
    <3>6. Kept(load_segment(g, root, s), more, E, F)
      BY <3>1, <3>2, <3>4, <3>5, SegmentMaps
    <3> QED
      BY <2>1, <3>1, <3>5, <3>6, KeptMore DEF Mapping
  <2>6. Mapping(q, SegmentLoop!Looped(q, h, n))
    BY <2>4, <2>5, SegmentLoop!LoopKeeps
  <2> QED
    BY <2>1, <2>2, <2>3, <2>6 DEF Mapping
<1> QED
  BY <1>1, <1>2

LEMMA StackMaps ==
    ASSUME NEW h, NEW own, NEW E, NEW F, Owns(h, own, E, F), NEW p \in Nat, NEW root \in DOMAIN own,
           own[root] = <<p>>, Open(F, p, StackPages)
    PROVE  Kept(map_stack(h, root), own, E, F)
<1>1. PICK start \in Nat, n \in Nat : /\ start = USER_STACK_TOP - USER_STACK_PAGES
                                     /\ n = USER_STACK_TOP - start /\ USER_STACK_TOP \in Int
                                     /\ StackPages = start..(USER_STACK_TOP - 1)
  BY MemoryAssumption DEF StackPages
<1>2. /\ StackFlags \in SUBSET PteFlags /\ "U" \in StackFlags /\ StackFlags \cap {"R", "W", "X"} # {}
      /\ <<>> \in Seq(Words) /\ 0 \in Nat
  BY DEF StackFlags, PteFlags
<1>3. Kept(as_map(h, root, start, USER_STACK_TOP, <<>>, 0, StackFlags), own, E, F)
  BY <1>1, <1>2, MapsNew
<1> QED
  BY <1>1, <1>3 DEF map_stack

\* as_create and as_clone begin with the struct of the address space.
LEMMA StructIsTaken ==
    ASSUME NEW h, NEW own, NEW E, NEW F, Owns(h, own, E, F), NEW r, r = heap_alloc(h, 1, 1)
    PROVE  Owns(r.heap, own, E, F)
<1>1. 1 \in Nat /\ 1 \in {1, PAGE_SIZE}
  OBVIOUS
<1> QED
  BY <1>1, HeapAlloc

LEMMA SpaceIsCreated ==
    ASSUME NEW h, NEW own, NEW E, NEW F, Owns(h, own, E, F), NEW p \in Nat
    PROVE  Got(as_create(h), own, <<p>>, E, F)
<1>1. PICK r : r = heap_alloc(h, 1, 1)
  OBVIOUS
<1>2. Owns(r.heap, own, E, F)
  BY <1>1, StructIsTaken
<1>3. as_create(h) = root_of(r)
  BY <1>1 DEF as_create
<1>4. IsPath(<<p>>)
  BY DEF IsPath, LEVELS
<1>5. CASE r.at = NULL
  BY <1>2, <1>3, <1>5 DEF root_of, Got, Extends
<1>6. CASE r.at # NULL
  BY <1>2, <1>3, <1>4, <1>6, AllocPage DEF root_of
<1> QED
  BY <1>5, <1>6

LEMMA PagesAreNumbers ==
    /\ \A E \in Nat : KernelPages(E) \subseteq Nat
    /\ StackPages \subseteq Nat
    /\ \A prog \in Programs : \A i \in DOMAIN prog.segments : PagesOf(prog.segments[i]) \subseteq Nat
<1>1. \A E \in Nat : KernelPages(E) \subseteq Nat
  BY Sizes DEF KernelPages
<1>2. StackPages \subseteq Nat
  BY MemoryAssumption DEF StackPages
<1>3. ASSUME NEW prog \in Programs, NEW i \in DOMAIN prog.segments
      PROVE  PagesOf(prog.segments[i]) \subseteq Nat
  <2>1. PICK s : s = prog.segments[i] /\ IsSegment(s)
    BY MemoryAssumption
  <2>2. va_vpn(s.vaddr) \in Nat /\ vpn_end_of(s) \in Int /\ PagesOf(s) = va_vpn(s.vaddr)..(vpn_end_of(s) - 1)
    BY <2>1, SegmentPages
  <2> QED
    BY <2>1, <2>2
<1> QED
  BY <1>1, <1>2, <1>3

LEMMA NewSpaceIsOwned ==
    ASSUME NEW h, NEW own, NEW E, NEW F, Owns(h, own, E, F), NEW p \in Nat, NEW prog \in Programs,
           Open(F, p, Nat)
    PROVE  Got(NewSpace(h, prog), own, <<p>>, E, F)
<1>1. PICK s : s = as_create(h)
  OBVIOUS
<1>2. PICK own1 : /\ Owns(s.heap, own1, E, F) /\ Extends(own1, own)
                  /\ s.at # NULL => s.at \in DOMAIN own1 /\ own1[s.at] = <<p>>
  <2>1. Got(s, own, <<p>>, E, F)
    BY <1>1, SpaceIsCreated
  <2> QED
    BY <2>1 DEF Got
<1>3. NewSpace(h, prog) = LoadInto(s, prog)
  BY <1>1 DEF NewSpace
<1>4. CASE s.at = NULL
  BY <1>2, <1>3, <1>4 DEF LoadInto, Got
<1>5. CASE s.at # NULL
  <2>1. PICK g1 : g1 = map_kernel_to_user(s.heap, s.at)
    OBVIOUS
  <2>0. /\ Open(F, p, KernelPages(E)) /\ Open(F, p, StackPages)
        /\ \A i \in DOMAIN prog.segments : Open(F, p, PagesOf(prog.segments[i]))
    <3>1. E \in Nat
      BY DEF Owns, IsHeap
    <3> QED
      BY <3>1, PagesAreNumbers DEF Open
  <2>2. PICK own2 : Owns(g1, own2, E, F) /\ Extends(own2, own1)
    BY <1>2, <1>5, <2>0, <2>1, KernelMaps DEF Kept
  <2>3. s.at \in DOMAIN own2 /\ own2[s.at] = <<p>>
    BY <1>2, <1>5, <2>2 DEF Extends
  <2>4. CASE prog.entry = NULL
    <3>1. LoadInto(s, prog) = Taken(g1, NULL)
      BY <1>5, <2>1, <2>4 DEF LoadInto
    <3>2. Extends(own2, own)
      BY <1>2, <2>2, ExtendsAgain
    <3> QED
      BY <1>3, <2>2, <3>1, <3>2 DEF Got, Taken
  <2>5. CASE prog.entry # NULL
    <3>1. PICK g2 : g2 = elf_load(g1, s.at, prog)
      OBVIOUS
    <3>2. PICK own3 : Owns(g2, own3, E, F) /\ Extends(own3, own2)
      BY <2>0, <2>2, <2>3, <3>1, ProgramIsLoaded DEF Kept
    <3>3. s.at \in DOMAIN own3 /\ own3[s.at] = <<p>>
      BY <2>3, <3>2 DEF Extends
    <3>4. PICK g3 : g3 = map_stack(g2, s.at)
      OBVIOUS
    <3>5. PICK own4 : Owns(g3, own4, E, F) /\ Extends(own4, own3)
      BY <2>0, <3>2, <3>3, <3>4, StackMaps DEF Kept
    <3>6. s.at \in DOMAIN own4 /\ own4[s.at] = <<p>>
      BY <3>3, <3>5 DEF Extends
    <3>7. LoadInto(s, prog) = Taken(g3, s.at)
      BY <1>5, <2>1, <2>5, <3>1, <3>4 DEF LoadInto
    <3>8. Extends(own4, own)
      BY <1>2, <2>2, <3>2, <3>5 DEF Extends
    <3> QED
      BY <1>3, <3>5, <3>6, <3>7, <3>8 DEF Got, Taken
  <2> QED
    BY <2>4, <2>5
<1> QED
  BY <1>4, <1>5

-----------------------------------------------------------------------------
(* Clones *)

LEMMA GotMore ==
    ASSUME NEW s, NEW old, NEW own, NEW path, NEW E, NEW F, Extends(own, old), Got(s, own, path, E, F)
    PROVE  Got(s, old, path, E, F)
  BY ExtendsAgain DEF Got

\* The entry that a step of the loop puts into the new table.
LEMMA PutsEntry ==
    ASSUME NEW c, NEW own, NEW E, NEW F, NEW path, NEW i \in 0..(PTE_PER_PAGE - 1), NEW e,
           Owns(e.heap, own, E, F), c.at \in DOMAIN own, own[c.at] = path, Writable(F, c.at, i),
           e.pte # NoEntry => e.pte \in Words /\ Fits(own, E, path, i, e.pte)
    PROVE  Got(put_entry(c, i, e), own, path, E, F)
<1>1. Extends(own, own)
  BY DEF Extends
<1>2. CASE e.pte = NoEntry
  BY <1>1, <1>2 DEF put_entry, Taken, Got
<1>3. CASE e.pte # NoEntry
  <2>1. PICK g : g = [e.heap EXCEPT !.mem[c.at][i] = e.pte]
    OBVIOUS
  <2>2. Owns(g, own, E, F)
    BY <1>3, <2>1, WriteEntry
  <2>3. put_entry(c, i, e) = Taken(g, c.at)
    BY <1>3, <2>1 DEF put_entry
  <2> QED
    BY <1>1, <2>2, <2>3 DEF Got, Taken
<1> QED
  BY <1>2, <1>3

\* What is left of a table while it is cloned: it still has its owner.
LEMMA Source ==
    ASSUME NEW h, NEW own, NEW E, NEW F, Owns(h, own, E, F), NEW src \in DOMAIN own,
           Len(own[src]) <= LEVELS, NEW i \in 0..(PTE_PER_PAGE - 1)
    PROVE  h.mem[src][i] \in Words /\ Fits(own, E, own[src], i, h.mem[src][i])
<1>1. h.mem[src] \in Page
  BY OwnedPages
<1> QED
  BY <1>1 DEF Owns, Page

LEMMA PutsAt ==
    ASSUME NEW c, NEW i, NEW e
    PROVE  put_entry(c, i, e).at \in {NULL, c.at}
  BY DEF put_entry, Taken

LEMMA ValidIsAnEntry ==
    ASSUME NEW pte, pte_valid(pte) PROVE pte # NoEntry
  BY DEF pte_valid, NoEntry, Datum, make_pte

\* The last level: a page with the user flag is copied, the kernel's are shared.
LEMMA LeafIsCloned ==
    ASSUME NEW c, NEW own, NEW E, NEW F, Owns(c.heap, own, E, F), NEW from, NEW to,
           IsPath(from), IsPath(to), Len(from) = LEVELS, Len(to) = LEVELS,
           to[2] = from[2], to[3] = from[3],
           c.at \in DOMAIN own, own[c.at] = to,
           NEW i \in 0..(PTE_PER_PAGE - 1), Writable(F, c.at, i), NEW pte \in Words, pte_valid(pte),
           Fits(own, E, from, i, pte)
    PROVE  Got(put_entry(c, i, clone_leaf(c.heap, pte)), own, to, E, F)
<1>1. pte_is_leaf(pte)
  BY DEF Fits
<1>2. PICK e : e = clone_leaf(c.heap, pte)
  OBVIOUS
<1>3. CASE "U" \notin pte.flags
  <2>1. e.heap = c.heap /\ e.pte = pte
    BY <1>2, <1>3 DEF clone_leaf, Cloned
  <2>2. ~Inner(pte)
    BY <1>1, <1>3 DEF Inner
  <2>3. Fits(own, E, to, i, pte)
    BY <1>1, <2>2 DEF Fits
  <2> QED
    BY <1>2, <2>1, <2>3, PutsEntry
<1>4. CASE "U" \in pte.flags
  <2>1. PICK page : page = alloc_page(c.heap)
    OBVIOUS
  <2>2. e = copied_page(page, pte)
    BY <1>2, <1>4, <2>1 DEF clone_leaf
  <2>3. PICK path : path = Append(to, i)
    OBVIOUS
  <2>4. IsPath(path) /\ Len(path) = LEVELS + 1
    <3>1. to \in Seq(Int) /\ i \in Int
      BY PageAssumption DEF IsPath
    <3>2. path \in Seq(Int) /\ Len(path) = Len(to) + 1
      BY <2>3, <3>1, Appended, Zenon
    <3> QED
      BY <3>2 DEF IsPath, LEVELS
  <2>5. PICK more : /\ Owns(page.heap, more, E, F) /\ Extends(more, own)
                    /\ page.at # NULL => page.at \in DOMAIN more /\ more[page.at] = path
    BY <2>1, <2>4, AllocPage DEF Got
  <2>6. c.at \in DOMAIN more /\ more[c.at] = to
    BY <2>5 DEF Extends
  <2>7. CASE page.at = NULL
    <3>1. e.heap = page.heap /\ e.pte = NoEntry
      BY <2>2, <2>7 DEF copied_page, Cloned
    <3> QED
      BY <1>2, <2>5, <2>6, <3>1, PutsEntry, GotMore
  <2>8. CASE page.at # NULL
    <3>1. pte.ppn \in DOMAIN more
      <4>1. Inner(pte)
        BY <1>4 DEF Inner
      <4> QED
        BY <2>5, <4>1 DEF Fits, Extends
    <3>2. PICK copy \in Page : copy = page.heap.mem[pte.ppn]
      BY <2>5, <3>1, OwnedPages
    <3>3. e.heap = [page.heap EXCEPT !.mem[page.at] = copy] /\ e.pte = make_pte(page.at, pte.flags)
      BY <2>2, <2>8, <3>2 DEF copied_page, Cloned
    <3>4. page.at \in Nat
      BY <2>5, <2>8, OwnedPages
    <3>5. Owns(e.heap, more, E, F)
      <4>1. Len(more[page.at]) = LEVELS + 1
        BY <2>4, <2>5, <2>8
      <4>2. Owns(page.heap, more, E, F)
        BY <2>5
      <4>3. Owns([page.heap EXCEPT !.mem[page.at] = copy], more, E, F)
        BY <3>4, <4>1, <4>2, WriteFree
      <4> QED
        BY <3>3, <4>3
    <3>6. e.pte \in Words /\ pte_is_leaf(e.pte) /\ Inner(e.pte) /\ e.pte.ppn = page.at
      BY <1>1, <1>4, <3>3, <3>4 DEF make_pte, Words, pte_is_leaf, pte_valid, Inner
    <3>7. Fits(more, E, to, i, e.pte)
      BY <2>3, <2>5, <2>8, <3>6 DEF Fits
    <3> QED
      BY <1>2, <2>5, <2>6, <3>5, <3>6, <3>7, PutsEntry, GotMore
  <2> QED
    BY <2>7, <2>8
<1> QED
  BY <1>3, <1>4

\* The levels above: the clone of a table takes its place.
LEMMA TableIsLinked ==
    ASSUME NEW c, NEW own, NEW E, NEW F, NEW to, IsPath(to), Len(to) < LEVELS,
           c.at \in DOMAIN own, own[c.at] = to,
           NEW i \in 0..(PTE_PER_PAGE - 1), Writable(F, c.at, i), NEW pte \in Words, pte_valid(pte), ~pte_is_leaf(pte),
           NEW table, Got(table, own, Append(to, i), E, F)
    PROVE  Got(put_entry(c, i, linked_table(table, pte)), own, to, E, F)
<1>1. PICK more : /\ Owns(table.heap, more, E, F) /\ Extends(more, own)
                  /\ table.at # NULL => table.at \in DOMAIN more /\ more[table.at] = Append(to, i)
  BY DEF Got
<1>2. PICK e : e = linked_table(table, pte)
  OBVIOUS
<1>3. c.at \in DOMAIN more /\ more[c.at] = to
  BY <1>1 DEF Extends
<1>4. CASE table.at = NULL
  <2>1. e.heap = table.heap /\ e.pte = NoEntry
    BY <1>2, <1>4 DEF linked_table, Cloned
  <2> QED
    BY <1>1, <1>2, <1>3, <2>1, PutsEntry, GotMore
<1>5. CASE table.at # NULL
  <2>1. e.heap = table.heap /\ e.pte = make_pte(table.at, pte.flags)
    BY <1>2, <1>5 DEF linked_table, Cloned
  <2>2. table.at \in Nat
    BY <1>1, <1>5, OwnedPages
  <2>3. e.pte \in Words /\ ~pte_is_leaf(e.pte) /\ Inner(e.pte) /\ e.pte.ppn = table.at
    BY <2>1, <2>2 DEF make_pte, Words, pte_is_leaf, pte_valid, Inner
  <2>4. Len(to) # LEVELS
    <3>1. PICK n \in Int : n = Len(to)
      BY DEF IsPath
    <3>2. n < 3
      BY <3>1 DEF LEVELS
    <3>3. n # 3
      BY <3>2
    <3> QED
      BY <3>1, <3>3 DEF LEVELS
  <2>5. Fits(more, E, to, i, e.pte)
    BY <1>1, <1>5, <2>3, <2>4 DEF Fits
  <2> QED
    BY <1>1, <1>2, <1>3, <2>1, <2>3, <2>5, PutsEntry, GotMore
<1> QED
  BY <1>4, <1>5

\* Two tables of the same place, in two address spaces.
SamePlace(a, b) == Len(a) = Len(b) /\ \A k \in 2..Len(a) : a[k] = b[k]

LEMMA PlacesBelow ==
    ASSUME NEW a, NEW b, IsPath(a), IsPath(b), SamePlace(a, b), Len(a) < LEVELS,
           NEW i \in 0..(PTE_PER_PAGE - 1)
    PROVE  /\ IsPath(Append(a, i)) /\ IsPath(Append(b, i)) /\ SamePlace(Append(a, i), Append(b, i))
           /\ Len(Append(a, i)) = Len(a) + 1 /\ Len(Append(b, i)) = Len(a) + 1
<1>1. PICK n \in Nat : n = Len(a) /\ 1 <= n /\ n < 3
  <2>1. a \in Seq(Int) /\ Len(a) \in 1..4
    BY DEF IsPath, LEVELS
  <2>2. PICK n \in Nat : n = Len(a) /\ 1 <= n
    BY <2>1
  <2>3. n < 3
    BY <2>2 DEF LEVELS
  <2> QED
    BY <2>2, <2>3
<1>2. a \in Seq(Int) /\ b \in Seq(Int) /\ i \in Int /\ Len(b) = n
  BY <1>1, PageAssumption DEF IsPath, SamePlace
<1>3. PICK x : x = Append(a, i)
  OBVIOUS
<1>4. PICK y : y = Append(b, i)
  OBVIOUS
<1>5. /\ x \in Seq(Int) /\ Len(x) = Len(a) + 1 /\ x[Len(a) + 1] = i
      /\ \A m \in 1..Len(a) : x[m] = a[m]
  BY <1>2, <1>3, Appended, Zenon
<1>6. /\ y \in Seq(Int) /\ Len(y) = Len(b) + 1 /\ y[Len(b) + 1] = i
      /\ \A m \in 1..Len(b) : y[m] = b[m]
  BY <1>2, <1>4, Appended, Zenon
<1>7. Len(x) = n + 1 /\ Len(y) = n + 1 /\ n + 1 \in 1..(3 + 1)
  BY <1>1, <1>2, <1>5, <1>6
<1>8. IsPath(x) /\ IsPath(y)
  BY <1>5, <1>6, <1>7 DEF IsPath, LEVELS
<1>9. ASSUME NEW k \in 2..(n + 1) PROVE x[k] = y[k]
  <2>1. CASE k = n + 1
    BY <1>1, <1>2, <1>5, <1>6, <2>1
  <2>2. CASE k # n + 1
    <3>1. k \in 2..n /\ k \in 1..n
      BY <1>1, <2>2
    <3>2. a[k] = b[k]
      BY <1>1, <3>1 DEF SamePlace
    <3> QED
      BY <1>1, <1>2, <1>5, <1>6, <3>1, <3>2
  <2> QED
    BY <2>1, <2>2
<1>10. SamePlace(x, y)
  BY <1>7, <1>9 DEF SamePlace
<1> QED
  BY <1>1, <1>3, <1>4, <1>7, <1>8, <1>10

LEMMA Depth ==
    ASSUME NEW a, NEW b, SamePlace(a, b), NEW n \in 1..LEVELS, Len(a) = n
    PROVE  /\ Len(b) = n /\ Len(a) <= LEVELS
           /\ n < LEVELS => Len(a) < LEVELS /\ Len(b) < LEVELS
           /\ n = LEVELS => b[2] = a[2] /\ b[3] = a[3]
<1>1. Len(b) = n /\ \A k \in 2..n : a[k] = b[k]
  BY DEF SamePlace
<1>2. n <= LEVELS
  BY DEF LEVELS
<1>3. n = LEVELS => 2 \in 2..n /\ 3 \in 2..n
  BY DEF LEVELS
<1> QED
  BY <1>1, <1>2, <1>3

\* The loops over the entries of a table at each level.
Cloning(q, c) == Got(c, q.own, q.to, q.E, q.F) /\ Fresh(c, q.own)
CloneStep2(q, c, i) == clone_entry(c, i, c.heap.mem[q.src][i], left_out)
CloneStep1(q, c, i) == clone_entry(c, i, c.heap.mem[q.src][i], inner_1)
CloneStep0(q, c, i) == clone_entry(c, i, c.heap.mem[q.src][i], inner_0)
CloneLoop2 == INSTANCE FoldInduction WITH op <- CloneStep2, Keep <- Cloning
CloneLoop1 == INSTANCE FoldInduction WITH op <- CloneStep1, Keep <- Cloning
CloneLoop0 == INSTANCE FoldInduction WITH op <- CloneStep0, Keep <- Cloning

LEMMA Entry2IsCloned ==
    ASSUME NEW c, NEW own, NEW E, NEW F, Owns(c.heap, own, E, F), NEW src \in DOMAIN own, NEW to,
           IsPath(own[src]), IsPath(to), Len(own[src]) = LEVELS, SamePlace(own[src], to),
           c.at \in DOMAIN own, own[c.at] = to, NEW i \in 0..(PTE_PER_PAGE - 1), Writable(F, c.at, i),
           NEW q, q.src = src
    PROVE  Got(CloneStep2(q, c, i), own, to, E, F)
<1>1. Len(own[src]) <= LEVELS /\ Len(to) = LEVELS /\ to[2] = own[src][2] /\ to[3] = own[src][3]
  <2>1. LEVELS \in 1..LEVELS
    BY DEF LEVELS
  <2> QED
    BY <2>1, Depth
<1>2. PICK pte : pte = c.heap.mem[src][i]
  OBVIOUS
<1>3. CloneStep2(q, c, i) = clone_entry(c, i, pte, left_out)
  BY <1>2 DEF CloneStep2
<1>4. pte \in Words /\ Fits(own, E, own[src], i, pte)
  BY <1>1, <1>2, Source
<1>5. CASE ~pte_valid(pte)
  <2>1. CloneStep2(q, c, i) = c
    BY <1>3, <1>5 DEF clone_entry
  <2> QED
    BY <2>1 DEF Got, Extends
<1>6. CASE pte_valid(pte)
  <2>0. c.at # NULL
    BY OwnedPages
  <2>1. pte_is_leaf(pte)
    BY <1>4, <1>6 DEF Fits
  <2>2. CloneStep2(q, c, i) = put_entry(c, i, clone_leaf(c.heap, pte))
    BY <1>3, <1>6, <2>0, <2>1 DEF clone_entry
  <2> QED
    BY <1>1, <1>4, <1>6, <2>2, LeafIsCloned
<1> QED
  BY <1>5, <1>6

LEMMA Level2IsCloned ==
    ASSUME NEW h, NEW own, NEW E, NEW F, Owns(h, own, E, F), NEW src \in DOMAIN own, NEW to,
           IsPath(own[src]), IsPath(to), Len(own[src]) = LEVELS, SamePlace(own[src], to)
    PROVE  Got(clone_level_2(h, src), own, to, E, F) /\ Fresh(clone_level_2(h, src), own)
<1>1. PICK q : q = [src |-> src, own |-> own, to |-> to, E |-> E, F |-> F]
  OBVIOUS
<1>2. PICK dst : dst = alloc_page(h)
  OBVIOUS
<1>3. clone_level_2(h, src) = CloneLoop2!Looped(q, dst, PTE_PER_PAGE)
  BY <1>1, <1>2 DEF clone_level_2, clone_table, Loop, CloneLoop2!Looped, CloneLoop2!IsLoop, CloneStep2
<1>4. Cloning(q, dst)
  BY <1>1, <1>2, AllocPage DEF Cloning
<1>5. ASSUME NEW i \in 0..(PTE_PER_PAGE - 1), NEW c, Cloning(q, c) PROVE Cloning(q, CloneStep2(q, c, i))
  <2>1. PICK more : /\ Owns(c.heap, more, E, F) /\ Extends(more, own)
                    /\ c.at # NULL => c.at \in DOMAIN more /\ more[c.at] = to
                                      /\ c.at \notin DOMAIN own /\ c.at \notin DOMAIN F.own
    <3>1. \A t \in DOMAIN F.own : t \in DOMAIN own
      BY DEF Owns, Held, Extends
    <3> QED
      BY <1>1, <1>5, <3>1 DEF Cloning, Got, Fresh
  <2>2. src \in DOMAIN more /\ more[src] = own[src] /\ Len(more[src]) = LEVELS
    BY <2>1 DEF Extends
  <2>3. ASSUME c.at # NULL PROVE Got(CloneStep2(q, c, i), more, to, E, F)
    <3>1. Writable(F, c.at, i)
      BY <2>1, <2>3 DEF Writable
    <3>2. q.src = src /\ IsPath(more[src]) /\ SamePlace(more[src], to)
      BY <1>1, <2>2
    <3> QED
      BY <2>1, <2>2, <2>3, <3>1, <3>2, Entry2IsCloned
  <2>4. CloneStep2(q, c, i).at \in {NULL, c.at} /\ (c.at = NULL => CloneStep2(q, c, i) = c)
    BY PutsAt DEF CloneStep2, clone_entry, left_out
  <2> QED
    BY <1>1, <1>5, <2>1, <2>3, <2>4, GotMore DEF Cloning, Fresh
<1>6. Cloning(q, CloneLoop2!Looped(q, dst, PTE_PER_PAGE))
  BY <1>4, <1>5, CloneLoop2!LoopKeeps, PageAssumption
<1> QED
  BY <1>1, <1>3, <1>6 DEF Cloning

LEMMA Entry1IsCloned ==
    ASSUME NEW c, NEW own, NEW E, NEW F, Owns(c.heap, own, E, F), NEW src \in DOMAIN own, NEW to,
           IsPath(own[src]), IsPath(to), Len(own[src]) = 2, SamePlace(own[src], to),
           c.at \in DOMAIN own, own[c.at] = to, NEW i \in 0..(PTE_PER_PAGE - 1), Writable(F, c.at, i),
           NEW q, q.src = src
    PROVE  Got(CloneStep1(q, c, i), own, to, E, F)
<1>1. Len(own[src]) <= LEVELS /\ Len(own[src]) < LEVELS /\ Len(to) < LEVELS
  <2>1. 2 \in 1..LEVELS /\ 2 < LEVELS
    BY DEF LEVELS
  <2> QED
    BY <2>1, Depth
<1>2. PICK pte : pte = c.heap.mem[src][i]
  OBVIOUS
<1>3. CloneStep1(q, c, i) = clone_entry(c, i, pte, inner_1)
  BY <1>2 DEF CloneStep1
<1>4. pte \in Words /\ Fits(own, E, own[src], i, pte)
  BY <1>1, <1>2, Source
<1>5. CASE ~pte_valid(pte)
  <2>1. CloneStep1(q, c, i) = c
    BY <1>3, <1>5 DEF clone_entry
  <2> QED
    BY <2>1 DEF Got, Extends
<1>6. CASE pte_valid(pte)
  <2>0. c.at # NULL
    BY OwnedPages
  <2>1. ~pte_is_leaf(pte)
    BY <1>4, <1>6 DEF Fits, LEVELS
  <2>2. PICK table : table = clone_level_2(c.heap, pte.ppn)
    OBVIOUS
  <2>3. CloneStep1(q, c, i) = put_entry(c, i, linked_table(table, pte))
    BY <1>3, <1>6, <2>0, <2>1, <2>2 DEF clone_entry, inner_1
  <2>4. pte.ppn \in DOMAIN own /\ own[pte.ppn] = Append(own[src], i)
    BY <1>4, <1>6, <2>1 DEF Fits, Inner
  <2>5. /\ IsPath(Append(own[src], i)) /\ IsPath(Append(to, i))
        /\ SamePlace(Append(own[src], i), Append(to, i))
        /\ Len(Append(own[src], i)) = Len(own[src]) + 1
    BY <1>1, PlacesBelow
  <2>6. IsPath(own[pte.ppn]) /\ Len(own[pte.ppn]) = LEVELS /\ SamePlace(own[pte.ppn], Append(to, i))
    BY <2>4, <2>5 DEF LEVELS
  <2>7. Got(table, own, Append(to, i), E, F)
    BY <2>2, <2>4, <2>5, <2>6, Level2IsCloned
  <2> QED
    BY <1>1, <1>4, <1>6, <2>1, <2>3, <2>7, TableIsLinked
<1> QED
  BY <1>5, <1>6

LEMMA Level1IsCloned ==
    ASSUME NEW h, NEW own, NEW E, NEW F, Owns(h, own, E, F), NEW src \in DOMAIN own, NEW to,
           IsPath(own[src]), IsPath(to), Len(own[src]) = 2, SamePlace(own[src], to)
    PROVE  Got(clone_level_1(h, src), own, to, E, F) /\ Fresh(clone_level_1(h, src), own)
<1>1. PICK q : q = [src |-> src, own |-> own, to |-> to, E |-> E, F |-> F]
  OBVIOUS
<1>2. PICK dst : dst = alloc_page(h)
  OBVIOUS
<1>3. clone_level_1(h, src) = CloneLoop1!Looped(q, dst, PTE_PER_PAGE)
  BY <1>1, <1>2 DEF clone_level_1, clone_table, Loop, CloneLoop1!Looped, CloneLoop1!IsLoop, CloneStep1
<1>4. Cloning(q, dst)
  BY <1>1, <1>2, AllocPage DEF Cloning
<1>5. ASSUME NEW i \in 0..(PTE_PER_PAGE - 1), NEW c, Cloning(q, c) PROVE Cloning(q, CloneStep1(q, c, i))
  <2>1. PICK more : /\ Owns(c.heap, more, E, F) /\ Extends(more, own)
                    /\ c.at # NULL => c.at \in DOMAIN more /\ more[c.at] = to
                                      /\ c.at \notin DOMAIN own /\ c.at \notin DOMAIN F.own
    <3>1. \A t \in DOMAIN F.own : t \in DOMAIN own
      BY DEF Owns, Held, Extends
    <3> QED
      BY <1>1, <1>5, <3>1 DEF Cloning, Got, Fresh
  <2>2. src \in DOMAIN more /\ more[src] = own[src] /\ Len(more[src]) = 2
    BY <2>1 DEF Extends
  <2>3. ASSUME c.at # NULL PROVE Got(CloneStep1(q, c, i), more, to, E, F)
    <3>1. Writable(F, c.at, i)
      BY <2>1, <2>3 DEF Writable
    <3>2. q.src = src /\ IsPath(more[src]) /\ SamePlace(more[src], to)
      BY <1>1, <2>2
    <3> QED
      BY <2>1, <2>2, <2>3, <3>1, <3>2, Entry1IsCloned
  <2>4. CloneStep1(q, c, i).at \in {NULL, c.at} /\ (c.at = NULL => CloneStep1(q, c, i) = c)
    BY PutsAt DEF CloneStep1, clone_entry, inner_1
  <2> QED
    BY <1>1, <1>5, <2>1, <2>3, <2>4, GotMore DEF Cloning, Fresh
<1>6. Cloning(q, CloneLoop1!Looped(q, dst, PTE_PER_PAGE))
  BY <1>4, <1>5, CloneLoop1!LoopKeeps, PageAssumption
<1> QED
  BY <1>1, <1>3, <1>6 DEF Cloning

LEMMA Entry0IsCloned ==
    ASSUME NEW c, NEW own, NEW E, NEW F, Owns(c.heap, own, E, F), NEW src \in DOMAIN own, NEW to,
           IsPath(own[src]), IsPath(to), Len(own[src]) = 1, SamePlace(own[src], to),
           c.at \in DOMAIN own, own[c.at] = to, NEW i \in 0..(PTE_PER_PAGE - 1), Writable(F, c.at, i),
           NEW q, q.src = src
    PROVE  Got(CloneStep0(q, c, i), own, to, E, F)
<1>1. Len(own[src]) <= LEVELS /\ Len(own[src]) < LEVELS /\ Len(to) < LEVELS
  <2>1. 1 \in 1..LEVELS /\ 1 < LEVELS
    BY DEF LEVELS
  <2> QED
    BY <2>1, Depth
<1>2. PICK pte : pte = c.heap.mem[src][i]
  OBVIOUS
<1>3. CloneStep0(q, c, i) = clone_entry(c, i, pte, inner_0)
  BY <1>2 DEF CloneStep0
<1>4. pte \in Words /\ Fits(own, E, own[src], i, pte)
  BY <1>1, <1>2, Source
<1>5. CASE ~pte_valid(pte)
  <2>1. CloneStep0(q, c, i) = c
    BY <1>3, <1>5 DEF clone_entry
  <2> QED
    BY <2>1 DEF Got, Extends
<1>6. CASE pte_valid(pte)
  <2>0. c.at # NULL
    BY OwnedPages
  <2>1. ~pte_is_leaf(pte)
    BY <1>4, <1>6 DEF Fits, LEVELS
  <2>2. PICK table : table = clone_level_1(c.heap, pte.ppn)
    OBVIOUS
  <2>3. CloneStep0(q, c, i) = put_entry(c, i, linked_table(table, pte))
    BY <1>3, <1>6, <2>0, <2>1, <2>2 DEF clone_entry, inner_0
  <2>4. pte.ppn \in DOMAIN own /\ own[pte.ppn] = Append(own[src], i)
    BY <1>4, <1>6, <2>1 DEF Fits, Inner
  <2>5. /\ IsPath(Append(own[src], i)) /\ IsPath(Append(to, i))
        /\ SamePlace(Append(own[src], i), Append(to, i))
        /\ Len(Append(own[src], i)) = Len(own[src]) + 1
    BY <1>1, PlacesBelow
  <2>6. IsPath(own[pte.ppn]) /\ Len(own[pte.ppn]) = 2 /\ SamePlace(own[pte.ppn], Append(to, i))
    BY <2>4, <2>5 DEF LEVELS
  <2>7. Got(table, own, Append(to, i), E, F)
    BY <2>2, <2>4, <2>5, <2>6, Level1IsCloned
  <2> QED
    BY <1>1, <1>4, <1>6, <2>1, <2>3, <2>7, TableIsLinked
<1> QED
  BY <1>5, <1>6

LEMMA Level0IsCloned ==
    ASSUME NEW h, NEW own, NEW E, NEW F, Owns(h, own, E, F), NEW src \in DOMAIN own, NEW to,
           IsPath(own[src]), IsPath(to), Len(own[src]) = 1, SamePlace(own[src], to)
    PROVE  Got(clone_page_table(h, src), own, to, E, F) /\ Fresh(clone_page_table(h, src), own)
<1>1. PICK q : q = [src |-> src, own |-> own, to |-> to, E |-> E, F |-> F]
  OBVIOUS
<1>2. PICK dst : dst = alloc_page(h)
  OBVIOUS
<1>3. clone_page_table(h, src) = CloneLoop0!Looped(q, dst, PTE_PER_PAGE)
  BY <1>1, <1>2 DEF clone_page_table, clone_table, Loop, CloneLoop0!Looped, CloneLoop0!IsLoop, CloneStep0
<1>4. Cloning(q, dst)
  BY <1>1, <1>2, AllocPage DEF Cloning
<1>5. ASSUME NEW i \in 0..(PTE_PER_PAGE - 1), NEW c, Cloning(q, c) PROVE Cloning(q, CloneStep0(q, c, i))
  <2>1. PICK more : /\ Owns(c.heap, more, E, F) /\ Extends(more, own)
                    /\ c.at # NULL => c.at \in DOMAIN more /\ more[c.at] = to
                                      /\ c.at \notin DOMAIN own /\ c.at \notin DOMAIN F.own
    <3>1. \A t \in DOMAIN F.own : t \in DOMAIN own
      BY DEF Owns, Held, Extends
    <3> QED
      BY <1>1, <1>5, <3>1 DEF Cloning, Got, Fresh
  <2>2. src \in DOMAIN more /\ more[src] = own[src] /\ Len(more[src]) = 1
    BY <2>1 DEF Extends
  <2>3. ASSUME c.at # NULL PROVE Got(CloneStep0(q, c, i), more, to, E, F)
    <3>1. Writable(F, c.at, i)
      BY <2>1, <2>3 DEF Writable
    <3>2. q.src = src /\ IsPath(more[src]) /\ SamePlace(more[src], to)
      BY <1>1, <2>2
    <3> QED
      BY <2>1, <2>2, <2>3, <3>1, <3>2, Entry0IsCloned
  <2>4. CloneStep0(q, c, i).at \in {NULL, c.at} /\ (c.at = NULL => CloneStep0(q, c, i) = c)
    BY PutsAt DEF CloneStep0, clone_entry, inner_0
  <2> QED
    BY <1>1, <1>5, <2>1, <2>3, <2>4, GotMore DEF Cloning, Fresh
<1>6. Cloning(q, CloneLoop0!Looped(q, dst, PTE_PER_PAGE))
  BY <1>4, <1>5, CloneLoop0!LoopKeeps, PageAssumption
<1> QED
  BY <1>1, <1>3, <1>6 DEF Cloning

LEMMA SpaceIsCloned ==
    ASSUME NEW h, NEW own, NEW E, NEW F, Owns(h, own, E, F), NEW src \in DOMAIN own, NEW p \in Nat,
           NEW q \in Nat, own[src] = <<p>>
    PROVE  Got(as_clone(h, src), own, <<q>>, E, F)
<1>1. PICK r : r = heap_alloc(h, 1, 1)
  OBVIOUS
<1>2. Owns(r.heap, own, E, F)
  BY <1>1, StructIsTaken
<1>3. as_clone(h, src) = clone_of(r, src)
  BY <1>1 DEF as_clone
<1>4. IsPath(<<p>>) /\ IsPath(<<q>>) /\ Len(<<p>>) = 1 /\ SamePlace(<<p>>, <<q>>)
  BY DEF IsPath, LEVELS, SamePlace
<1>5. CASE r.at = NULL
  BY <1>2, <1>3, <1>5 DEF clone_of, Got, Extends
<1>6. CASE r.at # NULL
  <2>1. IsPath(own[src]) /\ Len(own[src]) = 1 /\ SamePlace(own[src], <<q>>)
    BY <1>4
  <2>2. Got(clone_page_table(r.heap, src), own, <<q>>, E, F)
    BY <1>2, <1>4, <2>1, Level0IsCloned
  <2> QED
    BY <1>3, <1>6, <2>2 DEF clone_of
<1> QED
  BY <1>5, <1>6

-----------------------------------------------------------------------------
(* What programs and calls write *)

LEMMA Follows ==
    ASSUME NEW h, NEW own, NEW E, NEW F, Owns(h, own, E, F), NEW path, IsPath(path), Len(path) < LEVELS,
           NEW i, NEW pte, pte_valid(pte), Fits(own, E, path, i, pte),
           NEW vpn \in Nat, NEW level \in 0..2,
           IsPath(Append(path, i)), Len(Append(path, i)) = Len(path) + 1
    PROVE  /\ followed(h, pte, vpn, level) \in Words
           /\ Fits(own, E, Append(path, i), vpn_index(vpn, level), followed(h, pte, vpn, level))
<1>1. PICK n \in Nat : n = Len(path) /\ n < 3
  <2>1. path \in Seq(Int)
    BY DEF IsPath
  <2>2. PICK n \in Nat : n = Len(path)
    BY <2>1
  <2>3. n < 3
    BY <2>2 DEF LEVELS
  <2> QED
    BY <2>2, <2>3
<1>2. ~pte_is_leaf(pte)
  <2>1. Len(path) # LEVELS
    BY <1>1 DEF LEVELS
  <2> QED
    BY <2>1 DEF Fits
<1>3. pte.ppn \in DOMAIN own /\ own[pte.ppn] = Append(path, i)
  BY <1>2 DEF Fits, Inner
<1>4. followed(h, pte, vpn, level) = h.mem[pte.ppn][vpn_index(vpn, level)]
  BY <1>2 DEF followed
<1>5. Len(own[pte.ppn]) <= LEVELS
  <2>1. n + 1 <= 3
    BY <1>1
  <2>2. Len(own[pte.ppn]) = n + 1
    BY <1>1, <1>3
  <2> QED
    BY <2>1, <2>2 DEF LEVELS
<1>6. vpn_index(vpn, level) \in 0..(PTE_PER_PAGE - 1)
  BY IndexIs
<1> QED
  BY <1>3, <1>4, <1>5, <1>6, Source

LEMMA VpnIs ==
    ASSUME NEW va \in Nat
    PROVE  va_vpn(va) \in Nat /\ va_offset(va) \in 0..(PAGE_SIZE - 1)
<1>1. PICK n \in Nat \ {0} : n = PAGE_SIZE
  BY Sizes
<1>2. va \div n \in Nat /\ va % n \in 0..(n - 1)
  BY Z3
<1> QED
  BY <1>1, <1>2 DEF va_vpn, va_offset

LEMMA Translates ==
    ASSUME NEW h, NEW own, NEW E, NEW F, Owns(h, own, E, F), NEW p \in Nat, NEW root \in DOMAIN own,
           own[root] = <<p>>, NEW va \in Nat, NEW flags, as_translate(h, root, va, flags) # NULL
    PROVE  \E pte \in Words : /\ pte_valid(pte) /\ pte_is_leaf(pte)
                              /\ Fits(own, E, table_path(p, va_vpn(va)), vpn_index(va_vpn(va), 2), pte)
                              /\ as_translate(h, root, va, flags) = pte.ppn * PAGE_SIZE + va_offset(va)
<1>1. PICK vpn \in Nat : vpn = va_vpn(va)
  BY VpnIs
<1>2. PICK i \in 0..(PTE_PER_PAGE - 1), j \in 0..(PTE_PER_PAGE - 1) :
         i = vpn_index(vpn, 0) /\ j = vpn_index(vpn, 1)
  BY IndexIs
<1>3. PICK a : a = <<p>>
  OBVIOUS
<1>4. PICK b : b = Append(a, i)
  OBVIOUS
<1>5. PICK c : c = Append(b, j)
  OBVIOUS
<1>6. c = table_path(p, vpn)
  BY <1>2, <1>3, <1>4, <1>5 DEF table_path
<1>7. IsPath(a) /\ Len(a) = 1 /\ Len(a) <= LEVELS /\ Len(a) < LEVELS /\ SamePlace(a, a)
  BY <1>3 DEF IsPath, LEVELS, SamePlace
<1>8. IsPath(b) /\ Len(b) = Len(a) + 1
  BY <1>4, <1>7, PlacesBelow
<1>9. Len(b) = 2 /\ Len(b) < LEVELS /\ SamePlace(b, b)
  BY <1>7, <1>8 DEF LEVELS, SamePlace
<1>10. IsPath(c) /\ Len(c) = Len(b) + 1
  BY <1>5, <1>8, <1>9, PlacesBelow
<1>11. PICK e0 : e0 = h.mem[root][i]
  OBVIOUS
<1>12. e0 \in Words /\ Fits(own, E, a, i, e0)
  BY <1>3, <1>7, <1>11, Source
<1>13. PICK e1 : e1 = followed(h, e0, vpn, 1)
  OBVIOUS
<1>14. PICK e2 : e2 = followed(h, e1, vpn, 2)
  OBVIOUS
<1>15. e2 = last_entry(h, root, vpn)
  BY <1>2, <1>11, <1>13, <1>14 DEF last_entry
<1>16. /\ pte_valid(e2) /\ pte_is_leaf(e2)
       /\ as_translate(h, root, va, flags) = e2.ppn * PAGE_SIZE + va_offset(va)
  BY <1>1, <1>15, SMTT(30) DEF as_translate
<1>17. pte_valid(e0) /\ pte_valid(e1)
  BY <1>13, <1>14, <1>16, ZenonT(60) DEF followed
<1>18. e1 \in Words /\ Fits(own, E, b, j, e1)
  <2>1. 1 \in 0..2
    OBVIOUS
  <2> QED
    BY <1>2, <1>4, <1>7, <1>8, <1>12, <1>13, <1>17, <2>1, Follows
<1>19. e2 \in Words /\ Fits(own, E, c, vpn_index(vpn, 2), e2)
  <2>1. 2 \in 0..2
    OBVIOUS
  <2> QED
    BY <1>5, <1>8, <1>9, <1>10, <1>14, <1>17, <1>18, <2>1, Follows
<1> QED
  BY <1>1, <1>6, <1>16, <1>19

LEMMA WritesKeepOwners ==
    ASSUME NEW h, NEW own, NEW E \in MemoryEnds, NEW F, Owns(h, own, E, F), NEW p \in Nat,
           NEW root \in DOMAIN own, own[root] = <<p>>,
           NEW va \in StoreAddresses, NEW w \in Stored, NEW flags,
           NEW at, at = as_translate(h, root, va, flags), at # NULL
    PROVE  Owns([h EXCEPT !.mem[va_vpn(at)][va_offset(at)] = w], own, E, F)
<1>1. va \in Nat /\ w \in Words
  BY MemoryAssumption
<1>2. PICK vpn \in Nat, offset \in 0..(PAGE_SIZE - 1) : vpn = va_vpn(va) /\ offset = va_offset(va)
  BY <1>1, VpnIs
<1>3. PICK pte \in Words : /\ pte_valid(pte) /\ pte_is_leaf(pte)
                           /\ Fits(own, E, table_path(p, vpn), vpn_index(vpn, 2), pte)
                           /\ at = pte.ppn * PAGE_SIZE + offset
  BY <1>1, <1>2, Translates
<1>4. pte.ppn \in Nat
  BY DEF Words
<1>5. va_vpn(at) = pte.ppn /\ va_offset(at) = offset
  BY <1>3, <1>4, InPage
<1>6. /\ Len(table_path(p, vpn)) = LEVELS /\ Len(page_path(p, vpn)) = LEVELS + 1
      /\ <<table_path(p, vpn)[2], table_path(p, vpn)[3], vpn_index(vpn, 2)>> = vpn_path(vpn)
  BY PagePath
<1>7. Inner(pte)
  <2>1. ASSUME ~Inner(pte) PROVE FALSE
    <3>1. PICK k \in KERNEL_TEXT..(E - 1) : vpn_path(k) = vpn_path(vpn)
      BY <1>3, <1>6, <2>1 DEF Fits
    <3> QED
      BY <1>2, <3>1, MemoryAssumption
  <2> QED
    BY <2>1
<1>8. pte.ppn \in DOMAIN own /\ own[pte.ppn] = page_path(p, vpn)
  BY <1>3, <1>7 DEF Fits, page_path
<1>9. offset \in 0..(PTE_PER_PAGE - 1)
  BY <1>2, Sizes
<1> QED
  BY <1>1, <1>4, <1>5, <1>6, <1>8, <1>9, WriteWord

-----------------------------------------------------------------------------
(* The invariant *)

\* Every table and page of a program has an owner, and the roots are where
\* their paths begin.
Rooted(own) ==
    /\ kernel_as \in DOMAIN own /\ own[kernel_as] = <<MAX_PROCS>>
    /\ \A p \in Live : as[p] \in DOMAIN own /\ own[as[p]] = <<p>>

Owned(E, own) == Owns(heap, own, E, None) /\ Rooted(own)

MemoryInv ==
    /\ next_pid \in Nat /\ as \in [Procs -> Nat] /\ satp = as
    /\ \E E \in MemoryEnds : \E own : Owned(E, own)

\* heap_init leaves room for the kernel's root table.
LEMMA RoomForTheKernel ==
    ASSUME NEW E \in MemoryEnds, NEW mem,
           NEW h, h = [current |-> HEAP_START * PAGE_SIZE, end |-> E * PAGE_SIZE, mem |-> mem]
    PROVE  as_create(h).at # NULL
<1>1. PICK n \in Nat \ {0}, s \in Nat \ {0}, e \in Nat :
         n = PAGE_SIZE /\ s = HEAP_START /\ e = E /\ s + 2 <= e
  BY Sizes, MemoryAssumption
<1>2. PICK x \in Nat : x = s * n
  BY <1>1
<1>3. x > 0 /\ (s + 1) * n = x + n /\ x + n + n <= e * n
  <2>1. s * n > 0 /\ (s + 1) * n = s * n + n
    BY <1>1, Z3
  <2>2. (s + 2) * n <= e * n /\ (s + 2) * n = s * n + n + n
    BY <1>1, Z3
  <2> QED
    BY <1>2, <2>1, <2>2
<1>4. PICK y \in Int : y = e * n
  OBVIOUS
<1>5. h.current = x /\ h.end = y /\ x + n + n <= y
  BY <1>1, <1>2, <1>3, <1>4
<1>6. PICK r : r = heap_alloc(h, 1, 1)
  OBVIOUS
<1>7. r.at = x /\ r.heap.current = x + 1 /\ r.heap.end = y
  <2>1. aligned(h, 1) = ((x + 1 - 1) \div 1) * 1
    BY <1>5 DEF aligned
  <2>2. aligned(h, 1) = x
    BY <2>1
  <2>3. ~(x + 1 > h.end)
    BY <1>1, <1>5
  <2>4. r = Taken([h EXCEPT !.current = x + 1], x)
    BY <1>6, <2>2, <2>3 DEF heap_alloc, take
  <2> QED
    BY <1>5, <2>4 DEF Taken
<1>8. PICK g : g = r.heap
  OBVIOUS
<1>9. PICK t : t = heap_alloc(g, PAGE_SIZE, PAGE_SIZE)
  OBVIOUS
<1>10. t.at = x + n
  <2>1. (x + 1 + n - 1) \div n = s + 1
    <3>1. x + 1 + n - 1 = (s + 1) * n
      BY <1>3
    <3>2. ((s + 1) * n) \div n = s + 1
      BY Z3
    <3> QED
      BY <3>1, <3>2
  <2>2. aligned(g, PAGE_SIZE) = x + n
    <3>1. aligned(g, PAGE_SIZE) = ((x + 1 + n - 1) \div n) * n
      BY <1>1, <1>7, <1>8 DEF aligned
    <3> QED
      BY <1>3, <2>1, <3>1
  <2>3. ~(x + n + n > g.end)
    BY <1>5, <1>7, <1>8
  <2>4. t = Taken([g EXCEPT !.current = x + n + n], x + n)
    BY <1>1, <1>9, <2>2, <2>3 DEF heap_alloc, take
  <2> QED
    BY <2>4 DEF Taken
<1>11. t.at # NULL /\ r.at # NULL
  BY <1>3, <1>7, <1>10 DEF NULL
<1>12. va_vpn(t.at) = s + 1
  <2>1. 0 \in 0..(PAGE_SIZE - 1) /\ (s + 1) * PAGE_SIZE + 0 = t.at /\ s + 1 \in Nat
    BY <1>1, <1>3, <1>10, Sizes
  <2> QED
    BY <2>1, InPage
<1>13. as_create(h) = cleared_page(t)
  BY <1>6, <1>8, <1>9, <1>11 DEF as_create, root_of, alloc_page
<1>14. as_create(h).at = s + 1
  BY <1>11, <1>12, <1>13 DEF cleared_page, Taken
<1> QED
  BY <1>14 DEF NULL

LEMMA NothingHeld ==
    /\ \A h, E : IsHeap(h, E) => Held(h, [p \in {} |-> <<>>], None)
    /\ \A p \in Nat, S \in SUBSET Nat : Open(None, p, S)
<1>1. ASSUME NEW h, NEW E, IsHeap(h, E) PROVE Held(h, [p \in {} |-> <<>>], None)
  BY <1>1 DEF IsHeap, Held, None, Past, Extends
<1>2. \A p \in Nat, v \in Nat : page_path(p, v) \in Seq(Int)
  BY PagePath
<1> QED
  BY <1>1, <1>2 DEF Open, None, Past

LEMMA MemoryInit == Init => MemoryInv
<1> SUFFICES ASSUME Init PROVE MemoryInv
  OBVIOUS
<1>1. next_pid = 0 /\ as = [p \in Procs |-> NULL] /\ satp = as
  BY DEF Init
<1>2. PICK E \in MemoryEnds, w \in Leftovers :
        LET page  == [i \in 0..(PTE_PER_PAGE - 1) |-> w]
            fresh == [current |-> HEAP_START * PAGE_SIZE, end |-> E * PAGE_SIZE,
                      mem |-> [p \in KERNEL_TEXT..(E - 1) |-> page]]
        IN  \E s \in {as_create(fresh)} :
               heap = map_kernel_to_user(s.heap, s.at) /\ kernel_as = s.at
  BY DEF Init
<1>3. PICK mem : mem = [p \in KERNEL_TEXT..(E - 1) |-> [i \in 0..(PTE_PER_PAGE - 1) |-> w]]
  OBVIOUS
<1>4. PICK h : h = [current |-> HEAP_START * PAGE_SIZE, end |-> E * PAGE_SIZE, mem |-> mem]
  OBVIOUS
<1>5. PICK s : s = as_create(h) /\ heap = map_kernel_to_user(s.heap, s.at) /\ kernel_as = s.at
  BY <1>2, <1>3, <1>4
<1>6. IsHeap(h, E)
  <2>1. w \in Words /\ E \in Nat /\ HEAP_START + 2 <= E /\ HEAP_START \in Nat
    BY MemoryAssumption
  <2>2. mem \in [KERNEL_TEXT..(E - 1) -> Page]
    BY <1>3, <2>1 DEF Page
  <2>3. HEAP_START <= E
    BY <2>1
  <2>4. HEAP_START * PAGE_SIZE <= E * PAGE_SIZE
    BY <2>1, <2>3, PagesGrow
  <2>5. HEAP_START * PAGE_SIZE \in Nat /\ E * PAGE_SIZE \in Nat
    BY <2>1, Sizes
  <2>6. HEAP_START * PAGE_SIZE <= HEAP_START * PAGE_SIZE
    BY <2>5
  <2> QED
    BY <1>4, <2>1, <2>2, <2>4, <2>5, <2>6 DEF IsHeap
<1>7. PICK none : none = [p \in {} |-> <<>>]
  OBVIOUS
<1>8. Owns(h, none, E, None)
  BY <1>6, <1>7, NothingHeld DEF Owns
<1>9. MAX_PROCS \in Nat
  BY MemoryAssumption
<1>10. s.at # NULL
  BY <1>4, <1>5, RoomForTheKernel
<1>11. PICK own : Owns(s.heap, own, E, None) /\ s.at \in DOMAIN own /\ own[s.at] = <<MAX_PROCS>>
  <2>1. Got(s, none, <<MAX_PROCS>>, E, None)
    BY <1>5, <1>8, <1>9, SpaceIsCreated
  <2> QED
    BY <1>10, <2>1 DEF Got
<1>12. PICK more : Owns(heap, more, E, None) /\ Extends(more, own)
  BY <1>5, <1>9, <1>11, NothingHeld, PagesAreNumbers, MemoryAssumption, KernelMaps DEF Kept
<1>13. Live = {}
  BY <1>1 DEF Live
<1>14. Rooted(more)
  BY <1>5, <1>11, <1>12, <1>13 DEF Rooted, Extends
<1> QED
  BY <1>1, <1>12, <1>14 DEF MemoryInv, Owned, NULL

\* Each process that gets an address space gets one of its own.
LEMMA SpaceIsKept ==
    ASSUME MemoryInv, NEW E \in MemoryEnds, NEW own, Owned(E, own),
           NEW p \in Procs, NEW n, Got(n, own, <<p>>, E, None),
           heap' = n.heap, as' = [as EXCEPT ![p] = n.at], satp' = [satp EXCEPT ![p] = n.at],
           next_pid' \in Nat, kernel_as' = kernel_as
    PROVE  MemoryInv'
<1>1. PICK more : /\ Owns(n.heap, more, E, None) /\ Extends(more, own)
                  /\ n.at # NULL => n.at \in DOMAIN more /\ more[n.at] = <<p>>
  BY DEF Got
<1>2. n.at \in Nat
  BY <1>1, OwnedPages DEF NULL
<1>3. as \in [Procs -> Nat] /\ satp = as /\ Rooted(own)
  BY DEF MemoryInv, Owned
<1>4. as' \in [Procs -> Nat] /\ satp' = as'
  BY <1>2, <1>3
<1>5. ASSUME NEW q \in Live' PROVE as'[q] \in DOMAIN more /\ more[as'[q]] = <<q>>
  <2>1. q \in Procs /\ as'[q] # NULL
    BY <1>5 DEF Live
  <2>2. CASE q = p
    BY <1>1, <1>3, <2>1, <2>2
  <2>3. CASE q # p
    <3>1. as'[q] = as[q] /\ q \in Live
      BY <1>3, <2>1, <2>3 DEF Live
    <3> QED
      BY <1>1, <1>3, <3>1 DEF Rooted, Extends
  <2> QED
    BY <2>2, <2>3
<1>6. kernel_as' \in DOMAIN more /\ more[kernel_as'] = <<MAX_PROCS>>
  BY <1>1, <1>3 DEF Rooted, Extends
<1>7. Owned(E, more)'
  BY <1>1, <1>5, <1>6 DEF Owned, Rooted
<1> QED
  BY <1>4, <1>7 DEF MemoryInv

\* The heap changes, and no address space.
LEMMA HeapIsKept ==
    ASSUME MemoryInv, NEW E \in MemoryEnds, NEW own, Owned(E, own), Kept(heap', own, E, None),
           as' = as, satp' = satp, next_pid' = next_pid, kernel_as' = kernel_as
    PROVE  MemoryInv'
<1>1. PICK more : Owns(heap', more, E, None) /\ Extends(more, own)
  BY DEF Kept
<1>2. Live' = Live /\ Rooted(own)
  BY DEF Live, Owned
<1>3. Owned(E, more)'
  BY <1>1, <1>2 DEF Owned, Rooted, Extends
<1> QED
  BY <1>3 DEF MemoryInv

LEMMA MemoryNext == MemoryInv /\ [Next]_vars => MemoryInv'
<1> SUFFICES ASSUME MemoryInv, [Next]_vars PROVE MemoryInv'
  OBVIOUS
<1>0. PICK E \in MemoryEnds : \E own : Owned(E, own)
  BY DEF MemoryInv
<1>1. PICK own : Owned(E, own)
  BY <1>0
<1>2. Owns(heap, own, E, None) /\ next_pid \in Nat /\ satp = as
  BY <1>1 DEF MemoryInv, Owned
<1>3. \A p \in Procs : p \in Nat
  BY MemoryAssumption DEF Procs
<1>4. next_pid < MAX_PROCS => next_pid \in Procs
  BY <1>2, MemoryAssumption DEF Procs
<1>5. \A p \in Live : p \in Nat /\ as[p] \in DOMAIN own /\ own[as[p]] = <<p>>
  BY <1>1, <1>3 DEF Owned, Rooted, Live
<1>6. ASSUME NEW prog \in Programs, Create(prog) PROVE MemoryInv'
  <2>1. PICK n : /\ n = NewSpace(heap, prog) /\ heap' = n.heap
                 /\ as' = [as EXCEPT ![next_pid] = n.at]
                 /\ satp' = [satp EXCEPT ![next_pid] = n.at]
                 /\ next_pid' = IF n.at = NULL /\ kernel = "ch4" THEN next_pid ELSE next_pid + 1
    BY <1>6 DEF Create
  <2>2. next_pid < MAX_PROCS /\ kernel_as' = kernel_as
    BY <1>6 DEF Create
  <2>3. Got(n, own, <<next_pid>>, E, None)
    BY <1>2, <2>1, NothingHeld, NewSpaceIsOwned
  <2>4. next_pid' \in Nat
    BY <1>2, <2>1
  <2> QED
    BY <1>1, <1>4, <2>1, <2>2, <2>3, <2>4, SpaceIsKept
<1>7. ASSUME Run PROVE MemoryInv'
  <2>1. Kept(heap', own, E, None)
    BY <1>2, <1>7 DEF Run, Kept, Extends
  <2> QED
    BY <1>1, <1>7, <2>1, HeapIsKept DEF Run
<1>8. ASSUME NEW p \in Procs, Fork(p) PROVE MemoryInv'
  <2>1. PICK n : /\ n = as_clone(heap, as[p]) /\ heap' = n.heap
                 /\ as' = [as EXCEPT ![next_pid] = n.at]
                 /\ satp' = [satp EXCEPT ![next_pid] = n.at]
    BY <1>8 DEF Fork
  <2>2. next_pid < MAX_PROCS /\ kernel_as' = kernel_as /\ next_pid' = next_pid + 1 /\ p \in Live
    BY <1>8 DEF Fork
  <2>3. Got(n, own, <<next_pid>>, E, None)
    BY <1>2, <1>5, <2>1, <2>2, SpaceIsCloned
  <2>4. next_pid' \in Nat
    BY <1>2, <2>2
  <2> QED
    BY <1>1, <1>4, <2>1, <2>2, <2>3, <2>4, SpaceIsKept
<1>9. ASSUME NEW p \in Procs, NEW prog \in Programs, Exec(p, prog) PROVE MemoryInv'
  <2>1. PICK n : /\ n = NewSpace(heap, prog) /\ heap' = n.heap
                 /\ IF n.at = NULL THEN UNCHANGED <<as, satp, program>> ELSE Replace(p, n, prog)
    BY <1>9 DEF Exec
  <2>2. kernel_as' = kernel_as /\ next_pid' = next_pid
    BY <1>9 DEF Exec
  <2>3. Got(n, own, <<p>>, E, None)
    BY <1>2, <1>3, <2>1, NothingHeld, NewSpaceIsOwned
  <2>4. CASE n.at = NULL
    <3>1. Kept(heap', own, E, None)
      BY <2>1, <2>3 DEF Got, Kept
    <3> QED
      BY <1>1, <2>1, <2>2, <2>4, <3>1, HeapIsKept
  <2>5. CASE n.at # NULL
    <3>1. as' = [as EXCEPT ![p] = n.at] /\ satp' = [satp EXCEPT ![p] = n.at]
      BY <2>1, <2>5 DEF Replace
    <3> QED
      BY <1>1, <1>2, <2>1, <2>2, <2>3, <3>1, SpaceIsKept
  <2> QED
    BY <2>4, <2>5
<1>10. ASSUME NEW p \in Live, NEW va \in StoreAddresses, NEW w \in Stored, NEW flags,
              Write(as_translate(heap, as[p], va, flags), w)
       PROVE  MemoryInv'
  <2>1. PICK at : at = as_translate(heap, as[p], va, flags)
    OBVIOUS
  <2>2. at # NULL /\ heap' = [heap EXCEPT !.mem[va_vpn(at)][va_offset(at)] = w]
    BY <1>10, <2>1 DEF Write
  <2>3. Owns(heap', own, E, None)
    BY <1>2, <1>5, <2>1, <2>2, WritesKeepOwners
  <2>4. Kept(heap', own, E, None)
    BY <2>3 DEF Kept, Extends
  <2> QED
    BY <1>1, <1>10, <2>4, HeapIsKept DEF Write
<1>11. ASSUME NEW p \in Procs, NEW va \in StoreAddresses, NEW w \in Stored, ProgramWrites(p, va, w)
       PROVE  MemoryInv'
  BY <1>2, <1>10, <1>11 DEF ProgramWrites
<1>12. ASSUME NEW p \in Procs, NEW va \in StoreAddresses, NEW w \in Stored, CallWrites(p, va, w)
       PROVE  MemoryInv'
  BY <1>10, <1>12 DEF CallWrites
<1>13. ASSUME UNCHANGED vars PROVE MemoryInv'
  <2>1. Kept(heap', own, E, None)
    BY <1>2, <1>13, SMTT(30) DEF vars, Kept, Extends
  <2> QED
    BY <1>1, <1>13, <2>1, HeapIsKept DEF vars
<1> QED
  BY <1>6, <1>7, <1>8, <1>9, <1>11, <1>12, <1>13 DEF Next

-----------------------------------------------------------------------------
(* Pages and their uses *)

\* A use that the owners know of.
Known(own, u) ==
    /\ u.page \in DOMAIN own /\ own[u.page] = u.path
    /\ u = Use(u.path, u.page)

AllKnown(own, S, n) == \A u \in S : Known(own, u) /\ Len(u.path) = n

LEMMA KnownBelow ==
    ASSUME NEW own, NEW E, Owns(heap, own, E, None), NEW S, NEW n \in 1..LEVELS, AllKnown(own, S, n)
    PROVE  AllKnown(own, Under(S), n + 1)
<1> SUFFICES ASSUME NEW u \in Under(S) PROVE Known(own, u) /\ Len(u.path) = n + 1
  BY DEF AllKnown
<1>1. PICK t \in S : \E i \in Entries(t) : u = Use(Append(t.path, i), heap.mem[t.page][i].ppn)
  BY DEF Under, Children
<1>2. PICK i \in Entries(t) : u = Use(Append(t.path, i), heap.mem[t.page][i].ppn)
  BY <1>1
<1>3. i \in 0..(PTE_PER_PAGE - 1) /\ Inner(heap.mem[t.page][i])
  BY DEF Entries
<1>4. Known(own, t) /\ Len(t.path) = n
  BY <1>1 DEF AllKnown
<1>5. n <= LEVELS
  BY DEF LEVELS
<1>6. Fits(own, E, t.path, i, heap.mem[t.page][i])
  <2>1. t.page \in DOMAIN own /\ Len(own[t.page]) <= LEVELS /\ own[t.page] = t.path
    BY <1>4, <1>5 DEF Known
  <2> QED
    BY <1>3, <2>1, Source
<1>7. u.page = heap.mem[t.page][i].ppn /\ u.path = Append(t.path, i) /\ u = Use(u.path, u.page)
  BY <1>2, SMTT(30) DEF Use
<1>8. u.page \in DOMAIN own /\ own[u.page] = u.path
  BY <1>6, <1>7, <1>3, ZenonT(60) DEF Fits, Inner
<1>9. Len(u.path) = n + 1
  <2>1. t.path \in Seq(Int)
    BY <1>4 DEF Known, Owns
  <2>2. i \in Int
    BY <1>3, PageAssumption
  <2>3. Len(Append(t.path, i)) = Len(t.path) + 1
    BY <2>1, <2>2, Appended, Zenon
  <2> QED
    BY <1>4, <1>7, <2>3
<1> QED
  BY <1>7, <1>8, <1>9, ZenonT(60) DEF Known

LEMMA UsesAreKnown ==
    ASSUME NEW E, NEW own, Owned(E, own)
    PROVE  \A u \in Uses : Known(own, u)
<1>1. Owns(heap, own, E, None) /\ Rooted(own)
  BY DEF Owned
<1>2. 1 \in 1..LEVELS /\ 2 \in 1..LEVELS /\ 3 \in 1..LEVELS /\ 1 + 1 = 2 /\ 2 + 1 = 3
  BY DEF LEVELS
<1>3. ASSUME NEW u \in Roots PROVE Known(own, u) /\ Len(u.path) = 1
  <2>1. CASE u = Use(<<MAX_PROCS>>, kernel_as)
    BY <1>1, <2>1 DEF Use, Known, Rooted
  <2>2. ASSUME NEW p \in Live, u = Use(<<p>>, as[p]) PROVE Known(own, u) /\ Len(u.path) = 1
    BY <1>1, <2>2 DEF Use, Known, Rooted
  <2> QED
    BY <2>1, <2>2 DEF Roots
<1>4. AllKnown(own, Roots, 1)
  BY <1>3 DEF AllKnown
<1>5. AllKnown(own, Under(Roots), 2)
  BY <1>1, <1>2, <1>4, KnownBelow
<1>6. AllKnown(own, Under(Under(Roots)), 3)
  BY <1>1, <1>2, <1>5, KnownBelow
<1>7. AllKnown(own, Under(Under(Under(Roots))), 3 + 1)
  BY <1>1, <1>2, <1>6, KnownBelow
<1> QED
  BY <1>4, <1>5, <1>6, <1>7 DEF Uses, AllKnown

LEMMA OwnersMakeOneUse == MemoryInv => PagesHaveOneUse
<1> SUFFICES ASSUME MemoryInv PROVE PagesHaveOneUse
  OBVIOUS
<1>0. PICK E \in MemoryEnds : \E own : Owned(E, own)
  BY DEF MemoryInv
<1>1. PICK own : Owned(E, own)
  BY <1>0
<1>2. \A u \in Uses : Known(own, u)
  BY <1>1, UsesAreKnown
<1>3. ASSUME NEW u \in Uses, NEW v \in Uses, u.page = v.page PROVE u = v
  BY <1>2, <1>3 DEF Known
<1>4. ASSUME NEW u \in Uses PROVE u.page >= HEAP_START /\ (u.page + 1) * PAGE_SIZE <= heap.current
  <2>1. u.page \in DOMAIN own
    BY <1>2 DEF Known
  <2>2. u.page \in Nat /\ HEAP_START <= u.page /\ (u.page + 1) * PAGE_SIZE <= heap.current
    BY <1>1, <2>1 DEF Owned, Owns
  <2> QED
    BY <2>2, Sizes
<1> QED
  BY <1>3, <1>4 DEF PagesHaveOneUse

\* as_create, as_map, as_map_extern, as_clone and what programs and calls
\* write, for memory of any size and any programs: a page of the heap is one
\* table or one page of one program, and is not given out again.
THEOREM OnePageOneUse == Spec => []PagesHaveOneUse
<1>1. MemoryInv => PagesHaveOneUse
  BY OwnersMakeOneUse
<1> QED
  BY <1>1, MemoryInit, MemoryNext, PTL DEF Spec

-----------------------------------------------------------------------------
(* What stays as it was, and what there is no room for *)

LEMMA Freeze ==
    ASSUME NEW h, NEW own, NEW E, NEW F, Owns(h, own, E, F), NEW open
    PROVE  Owns(h, own, E, Past(h, own, open))
<1>1. Held(h, own, Past(h, own, open))
  BY DEF Owns, IsHeap, Held, Past, Extends
<1> QED
  BY <1>1 DEF Owns

\* A past that reaches further back.
LEMMA Forget ==
    ASSUME NEW h, NEW own, NEW E, NEW F, Owns(h, own, E, F),
           NEW g, NEW more, NEW open, open \subseteq F.open, Owns(g, more, E, Past(h, own, open))
    PROVE  Owns(g, more, E, F)
<1>1. PICK P : P = Past(h, own, open)
  OBVIOUS
<1>2. P.heap = h /\ P.own = own /\ P.open = open
  BY <1>1 DEF Past
<1>3. Held(h, own, F) /\ Held(g, more, P) /\ h.current \in Int /\ g.current \in Int
  BY <1>1 DEF Owns, IsHeap
<1>4. Extends(own, F.own) /\ Extends(more, own)
  BY <1>2, <1>3 DEF Held
<1>5. Extends(more, F.own)
  BY <1>4, ExtendsAgain
<1>6. F.heap.current \in Int /\ F.heap.current <= g.current
  BY <1>2, <1>3 DEF Held
<1>7. ASSUME NEW t \in DOMAIN F.own, Len(F.own[t]) <= LEVELS, NEW i \in 0..(PTE_PER_PAGE - 1),
             pte_valid(F.heap.mem[t][i]), Append(F.own[t], i) \notin F.open
      PROVE  g.mem[t][i] = F.heap.mem[t][i]
  <2>1. t \in DOMAIN own /\ own[t] = F.own[t] /\ h.mem[t][i] = F.heap.mem[t][i]
    BY <1>3, <1>7 DEF Held, Extends
  <2>2. t \in DOMAIN P.own /\ Len(P.own[t]) <= LEVELS /\ pte_valid(P.heap.mem[t][i])
    BY <1>2, <1>7, <2>1
  <2>3. g.mem[t][i] = P.heap.mem[t][i] \/ Append(P.own[t], i) \in P.open
    BY <1>3, <2>2 DEF Held
  <2> QED
    BY <1>2, <1>7, <2>1, <2>3
<1>8. Held(g, more, F)
  BY <1>5, <1>6, <1>7 DEF Held
<1> QED
  BY <1>8 DEF Owns

\* There is less room with every page that is given out, and less for many
\* pages than for one.
LEMMA RoomShrinks ==
    ASSUME NEW h, NEW g, NEW E, IsHeap(h, E), IsHeap(g, E), h.current <= g.current,
           NEW n \in Nat, NEW m \in Nat, m <= n, Room(g, n)
    PROVE  Room(h, m)
<1>1. PICK c \in Nat, d \in Nat, e \in Nat, s \in Nat \ {0} :
         /\ c = h.current /\ d = g.current /\ c <= d
         /\ e = h.end /\ e = g.end /\ s = PAGE_SIZE
  BY Sizes DEF IsHeap
<1>2. PICK a \in Int, b \in Int : a = (c + s - 1) \div s /\ b = (d + s - 1) \div s
  BY <1>1, Z3
<1>3. a <= b
  <2>1. c + s - 1 <= d + s - 1 /\ c + s - 1 \in Int /\ d + s - 1 \in Int
    BY <1>1
  <2>2. \A x \in Int, y \in Int : x <= y => x \div s <= y \div s
    BY <1>1, Z3
  <2> QED
    BY <1>2, <2>1, <2>2
<1>4. a * s <= b * s /\ m * s <= n * s
  BY <1>1, <1>3, Z3
<1>5. aligned(h, PAGE_SIZE) = a * s /\ aligned(g, PAGE_SIZE) = b * s
  BY <1>1, <1>2 DEF aligned
<1>6. PICK x \in Int, y \in Int, z \in Int, w \in Int : x = a * s /\ y = b * s /\ z = m * s /\ w = n * s
  BY <1>1
<1>7. y + w <= e
  BY <1>1, <1>5, <1>6 DEF Room
<1>8. x + z <= e
  BY <1>4, <1>6, <1>7
<1> QED
  BY <1>1, <1>5, <1>6, <1>8 DEF Room

LEMMA RoomForOne ==
    ASSUME NEW h, NEW E, IsHeap(h, E), NEW n \in Nat, 1 <= n, Room(h, n)
    PROVE  Room(h, 1)
<1>1. h.current <= h.current /\ 1 \in Nat
  BY DEF IsHeap
<1> QED
  BY <1>1, RoomShrinks

LEMMA KeptIsHeap ==
    ASSUME NEW h, NEW own, NEW E, NEW F, Kept(h, own, E, F)
    PROVE  IsHeap(h, E)
  BY DEF Kept, Owns

LEMMA PagesOrFull ==
    ASSUME NEW h, NEW own, NEW E, NEW F, Owns(h, own, E, F), NEW n \in Nat,
           alloc_pages(h, n).at = NULL
    PROVE  alloc_pages(h, n).heap = h /\ ~Room(h, n)
<1>1. PICK t : t = heap_alloc(h, n * PAGE_SIZE, PAGE_SIZE)
  OBVIOUS
<1>2. alloc_pages(h, n) = cleared(t, n)
  BY <1>1 DEF alloc_pages
<1>3. CASE t.at = NULL
  <2>1. n * PAGE_SIZE \in Nat /\ PAGE_SIZE \in {1, PAGE_SIZE}
    BY Sizes
  <2>2. t.heap = h /\ aligned(h, PAGE_SIZE) + n * PAGE_SIZE > h.end
    BY <1>1, <1>3, <2>1, HeapAlloc
  <2>3. PICK a \in Nat : a = (h.current + PAGE_SIZE - 1) \div PAGE_SIZE
    BY AlignedIs DEF Owns, IsHeap
  <2>4. aligned(h, PAGE_SIZE) \in Nat /\ h.end \in Nat
    BY <2>3, Sizes DEF aligned, Owns, IsHeap
  <2>5. ~Room(h, n)
    BY <2>1, <2>2, <2>4 DEF Room
  <2> QED
    BY <1>2, <1>3, <2>2, <2>5 DEF cleared
<1>4. CASE t.at # NULL
  <2>1. va_vpn(t.at) \in Nat /\ HEAP_START <= va_vpn(t.at)
    BY <1>1, <1>4, PagesFrom
  <2>2. cleared(t, n).at = va_vpn(t.at)
    BY <1>4 DEF cleared, Taken
  <2> QED
    BY <1>2, <2>1, <2>2, Sizes DEF NULL
<1> QED
  BY <1>3, <1>4

LEMMA PageOrFull ==
    ASSUME NEW h, NEW own, NEW E, NEW F, Owns(h, own, E, F), alloc_page(h).at = NULL
    PROVE  alloc_page(h).heap = h /\ ~Room(h, 1)
<1>1. PICK t : t = heap_alloc(h, PAGE_SIZE, PAGE_SIZE)
  OBVIOUS
<1>2. alloc_page(h) = cleared_page(t) /\ t = heap_alloc(h, 1 * PAGE_SIZE, PAGE_SIZE)
  BY <1>1, Sizes DEF alloc_page
<1>3. CASE t.at = NULL
  <2>1. 1 * PAGE_SIZE \in Nat /\ PAGE_SIZE \in {1, PAGE_SIZE}
    BY Sizes
  <2>2. t.heap = h /\ aligned(h, PAGE_SIZE) + 1 * PAGE_SIZE > h.end
    BY <1>2, <1>3, <2>1, HeapAlloc
  <2>3. PICK a \in Nat : a = (h.current + PAGE_SIZE - 1) \div PAGE_SIZE
    BY AlignedIs DEF Owns, IsHeap
  <2>4. aligned(h, PAGE_SIZE) \in Nat /\ h.end \in Nat
    BY <2>3, Sizes DEF aligned, Owns, IsHeap
  <2>5. ~Room(h, 1)
    BY <2>1, <2>2, <2>4 DEF Room
  <2> QED
    BY <1>2, <1>3, <2>2, <2>5 DEF cleared_page
<1>4. CASE t.at # NULL
  <2>1. va_vpn(t.at) \in Nat /\ HEAP_START <= va_vpn(t.at)
    BY <1>2, <1>4, PagesFrom
  <2>2. cleared_page(t).at = va_vpn(t.at)
    BY <1>4 DEF cleared_page, Taken
  <2> QED
    BY <1>2, <2>1, <2>2, Sizes DEF NULL
<1> QED
  BY <1>3, <1>4

-----------------------------------------------------------------------------
(* What a walk makes *)

LEMMA Lengths ==
    /\ \A s \in Seq(Int) : Len(s) < LEVELS => Len(s) <= LEVELS /\ Len(s) # LEVELS
    /\ \A s, n : Len(s) = n /\ n \in {1, 2} => Len(s) < LEVELS /\ Len(s) <= LEVELS /\ Len(s) # LEVELS
<1>1. ASSUME NEW s \in Seq(Int), Len(s) < LEVELS PROVE Len(s) <= LEVELS /\ Len(s) # LEVELS
  <2>1. PICK n \in Int : n = Len(s)
    OBVIOUS
  <2>2. n < 3
    BY <1>1, <2>1 DEF LEVELS
  <2>3. n <= 3 /\ n # 3
    BY <2>2
  <2> QED
    BY <2>1, <2>3 DEF LEVELS
<1>2. ASSUME NEW s, NEW n, Len(s) = n, n \in {1, 2}
      PROVE  Len(s) < LEVELS /\ Len(s) <= LEVELS /\ Len(s) # LEVELS
  <2>1. n < 3 /\ n <= 3 /\ n # 3
    BY <1>2
  <2> QED
    BY <1>2, <2>1 DEF LEVELS
<1> QED
  BY <1>1, <1>2

\* Entry i of table t leads to table u.
Leads(h, t, i, u) ==
    LET e == h.mem[t][i] IN pte_valid(e) /\ ~pte_is_leaf(e) /\ e.ppn = u

\* Such an entry leads to the table that the path names.
LEMMA LeadsToOwned ==
    ASSUME NEW h, NEW own, NEW E, NEW F, Owns(h, own, E, F), NEW t \in DOMAIN own,
           Len(own[t]) < LEVELS, NEW i \in 0..(PTE_PER_PAGE - 1), NEW u, Leads(h, t, i, u)
    PROVE  u \in DOMAIN own /\ own[u] = Append(own[t], i)
<1>1. own[t] \in Seq(Int) /\ IsPath(own[t]) /\ i \in Int
  BY PageAssumption DEF Owns
<1>2. Len(own[t]) <= LEVELS
  BY <1>1 DEF LEVELS
<1>3. Fits(own, E, own[t], i, h.mem[t][i])
  BY <1>2, Source
<1>4. u \in DOMAIN own /\ own[u] = Append(own[t], i)
  BY <1>3 DEF Leads, Fits, Inner
<1> QED
  BY <1>4

Upper(own, t) == t \in DOMAIN own /\ Len(own[t]) < LEVELS
Child(own, t, i, u) == u \in DOMAIN own /\ own[u] = Append(own[t], i)

LEMMA LeadsToChild ==
    ASSUME NEW h, NEW own, NEW E, NEW F, Owns(h, own, E, F), NEW t, Upper(own, t),
           NEW i \in 0..(PTE_PER_PAGE - 1), NEW u, Leads(h, t, i, u)
    PROVE  Child(own, t, i, u)
  BY LeadsToOwned DEF Child, Upper

\* An entry that leads on is kept.
LEMMA LeadStays ==
    ASSUME NEW h, NEW own, NEW E, NEW F, Owns(h, own, E, F), NEW t \in DOMAIN own,
           Len(own[t]) < LEVELS, NEW i \in 0..(PTE_PER_PAGE - 1), NEW u, Leads(h, t, i, u),
           NEW open, \A path \in open : Len(path) = LEVELS + 1,
           NEW g, NEW more, Held(g, more, Past(h, own, open))
    PROVE  Leads(g, t, i, u) /\ g.mem[t][i] = h.mem[t][i] /\ u \in DOMAIN own
<1>1. u \in DOMAIN own
  BY LeadsToOwned
<1>2. PICK n \in Int : n = Len(own[t]) /\ n < 3
  BY DEF Owns, LEVELS
<1>3. Append(own[t], i) \notin open
  <2>1. n + 1 # 3 + 1
    BY <1>2
  <2>2. own[t] \in Seq(Int) /\ i \in Int
    BY PageAssumption DEF Owns
  <2>3. Len(Append(own[t], i)) = Len(own[t]) + 1
    BY <2>2, Appended, Zenon
  <2> QED
    BY <1>2, <2>1, <2>3 DEF LEVELS
<1>4. Len(own[t]) <= LEVELS
  BY <1>2 DEF LEVELS
<1>5. g.mem[t][i] = h.mem[t][i]
  BY <1>3, <1>4 DEF Held, Past, Leads
<1> QED
  BY <1>1, <1>5 DEF Leads

LEMMA DescendsOrFull ==
    ASSUME NEW w, NEW own, NEW E, NEW F, Owns(w.heap, own, E, F),
           w.at \in DOMAIN own, Len(own[w.at]) < LEVELS,
           NEW vpn \in Nat, NEW level \in 0..2, NEW d, d = descend(w, vpn, level)
    PROVE  IF d.at = NULL THEN ~Room(d.heap, 1)
           ELSE Leads(d.heap, w.at, vpn_index(vpn, level), d.at)
<1>1. PICK i \in 0..(PTE_PER_PAGE - 1) : i = vpn_index(vpn, level)
  BY IndexIs
<1>2. w.at # NULL /\ w.at \in KERNEL_TEXT..(E - 1)
  BY OwnedPages
<1>3. own[w.at] \in Seq(Int)
  BY DEF Owns
<1>4. Len(own[w.at]) <= LEVELS
  BY <1>3 DEF LEVELS
<1>5. CASE pte_valid(w.heap.mem[w.at][i])
  <2>1. d = Taken(w.heap, w.heap.mem[w.at][i].ppn)
    BY <1>1, <1>2, <1>5 DEF descend
  <2>2. Fits(own, E, own[w.at], i, w.heap.mem[w.at][i])
    BY <1>4, Source
  <2>3. Len(own[w.at]) # LEVELS
    BY <1>3, Lengths
  <2>4. Leads(w.heap, w.at, i, d.at) /\ d.heap = w.heap
    <3>1. ~pte_is_leaf(w.heap.mem[w.at][i])
      BY <1>5, <2>2, <2>3, ZenonT(60) DEF Fits
    <3>2. d.heap = w.heap /\ d.at = w.heap.mem[w.at][i].ppn
      BY <2>1 DEF Taken
    <3> QED
      BY <1>5, <3>1, <3>2, SMTT(30) DEF Leads
  <2>5. d.at \in DOMAIN own
    BY <2>4, LeadsToOwned
  <2>6. d.at # NULL
    BY <2>5, OwnedPages
  <2> QED
    BY <1>1, <2>4, <2>6
<1>6. CASE ~pte_valid(w.heap.mem[w.at][i])
  <2>1. PICK new : new = alloc_page(w.heap)
    OBVIOUS
  <2>2. d = put_table(new, w.at, i)
    BY <1>1, <1>2, <1>6, <2>1 DEF descend
  <2>3. CASE new.at = NULL
    <3>1. d = new
      BY <2>2, <2>3 DEF put_table
    <3> QED
      BY <2>1, <2>3, <3>1, PageOrFull
  <2>4. CASE new.at # NULL
    <3>1. PICK pte : pte = make_pte(new.at, {"V"})
      OBVIOUS
    <3>2. d.heap = [new.heap EXCEPT !.mem[w.at][i] = pte] /\ d.at = new.at
      BY <2>2, <2>4, <3>1 DEF put_table, Taken
    <3>3. IsPath(<<0>>)
      BY DEF IsPath, LEVELS
    <3>4. IsHeap(new.heap, E)
      BY <2>1, <3>3, AllocPage DEF Got, Owns
    <3>5. new.heap.mem[w.at] \in Page
      BY <1>2, <3>4 DEF IsHeap
    <3>6. d.heap.mem[w.at][i] = pte
      BY <1>2, <3>2, <3>4, <3>5, ZenonT(60) DEF IsHeap, Page
    <3>7. Leads(d.heap, w.at, i, d.at)
      BY <3>1, <3>2, <3>6 DEF Leads, make_pte, pte_valid, pte_is_leaf
    <3> QED
      BY <1>1, <2>4, <3>2, <3>7
  <2> QED
    BY <2>3, <2>4
<1> QED
  BY <1>5, <1>6

\* Both levels of a walk: the table it ends at has been linked to the root.
LEMMA WalksOrFull ==
    ASSUME NEW h, NEW own, NEW E, NEW F, Owns(h, own, E, F), NEW p \in Nat, NEW root \in DOMAIN own,
           own[root] = <<p>>, NEW vpn \in Nat, NEW w, w = walk(h, root, vpn)
    PROVE  IF w.at = NULL THEN ~Room(w.heap, 1)
           ELSE \E u, more : /\ Owns(w.heap, more, E, F) /\ Extends(more, own)
                             /\ w.at \in DOMAIN more /\ more[w.at] = table_path(p, vpn)
                             /\ Leads(w.heap, root, vpn_index(vpn, 0), u)
                             /\ Leads(w.heap, u, vpn_index(vpn, 1), w.at)
<1>1. PICK start : start = <<p>>
  OBVIOUS
<1>2. IsPath(start) /\ Len(start) = 1 /\ Len(start) < LEVELS /\ own[root] = start
  BY <1>1 DEF IsPath, LEVELS
<1>3. PICK v : v = Taken(h, root)
  OBVIOUS
<1>4. v.heap = h /\ v.at = root
  BY <1>3 DEF Taken
<1>5. PICK i \in 0..(PTE_PER_PAGE - 1), j \in 0..(PTE_PER_PAGE - 1) :
        i = vpn_index(vpn, 0) /\ j = vpn_index(vpn, 1)
  BY IndexIs
<1>6. PICK path : path = Append(start, i)
  OBVIOUS
<1>7. 0 \in 0..2 /\ 1 \in 0..2
  OBVIOUS
<1>8. PICK x : x = descend(v, vpn, 0)
  OBVIOUS
<1>9. w = descend(x, vpn, 1)
  BY <1>3, <1>8 DEF walk
<1>10. IsPath(path) /\ Len(path) = Len(start) + 1 /\ Got(x, own, path, E, F)
  BY <1>2, <1>4, <1>5, <1>6, <1>7, <1>8, Descends, ZenonT(60)
<1>11. IF x.at = NULL THEN ~Room(x.heap, 1) ELSE Leads(x.heap, root, i, x.at)
  BY <1>2, <1>4, <1>5, <1>7, <1>8, DescendsOrFull
<1>12. CASE x.at = NULL
  <2>1. w = x
    BY <1>9, <1>12 DEF descend
  <2> QED
    BY <1>11, <1>12, <2>1
<1>13. CASE x.at # NULL
  <2>1. PICK own1 : /\ Owns(x.heap, own1, E, F) /\ Extends(own1, own)
                    /\ x.at \in DOMAIN own1 /\ own1[x.at] = path
    BY <1>10, <1>13 DEF Got
  <2>2. Len(own1[x.at]) < LEVELS /\ Len(path) < LEVELS
    <3>1. Len(path) = 2
      BY <1>2, <1>10
    <3> QED
      BY <2>1, <3>1, Lengths
  <2>3. PICK Q : Q = Past(x.heap, own1, {})
    OBVIOUS
  <2>4. Owns(x.heap, own1, E, Q)
    BY <2>1, <2>3, Freeze
  <2>5. PICK longer : longer = Append(path, j)
    OBVIOUS
  <2>6. Got(w, own1, longer, E, Q)
    BY <1>5, <1>7, <1>9, <1>10, <2>1, <2>2, <2>4, <2>5, Descends
  <2>7. longer = table_path(p, vpn)
    BY <1>1, <1>5, <1>6, <2>5 DEF table_path
  <2>8. IF w.at = NULL THEN ~Room(w.heap, 1) ELSE Leads(w.heap, x.at, j, w.at)
    BY <1>5, <1>7, <1>9, <2>1, <2>2, DescendsOrFull
  <2>9. ASSUME w.at # NULL
        PROVE  \E u, more : /\ Owns(w.heap, more, E, F) /\ Extends(more, own)
                            /\ w.at \in DOMAIN more /\ more[w.at] = table_path(p, vpn)
                            /\ Leads(w.heap, root, i, u)
                            /\ Leads(w.heap, u, j, w.at)
    <3>1. PICK more : /\ Owns(w.heap, more, E, Q) /\ Extends(more, own1)
                      /\ w.at \in DOMAIN more /\ more[w.at] = longer
      BY <2>6, <2>9 DEF Got
    <3>2. Owns(w.heap, more, E, F)
      <4>1. {} \subseteq F.open
        OBVIOUS
      <4> QED
        BY <2>1, <2>3, <3>1, <4>1, Forget
    <3>3. root \in DOMAIN own1 /\ own1[root] = start /\ Len(own1[root]) < LEVELS
      BY <1>2, <2>1 DEF Extends
    <3>4. Leads(x.heap, root, i, x.at) /\ Held(w.heap, more, Q)
      BY <1>11, <1>13, <3>1 DEF Owns
    <3>5. Leads(w.heap, root, i, x.at)
      <4>1. \A y \in {} : Len(y) = LEVELS + 1
        OBVIOUS
      <4> QED
        BY <2>1, <2>3, <3>3, <3>4, <4>1, LeadStays
    <3>6. Extends(more, own)
      BY <2>1, <3>1, ExtendsAgain
    <3> QED
      BY <2>7, <2>8, <2>9, <3>1, <3>2, <3>5, <3>6
  <2> QED
    BY <1>5, <2>8, <2>9
<1> QED
  BY <1>12, <1>13

\* A page is mapped, or there is no room.
LEMMA SetsLastEntry ==
    ASSUME NEW h, NEW own, NEW E, NEW F, Owns(h, own, E, F), NEW p \in Nat, NEW root \in DOMAIN own,
           own[root] = <<p>>, NEW vpn \in Nat, NEW pte, NEW g,
           g = set_entry(walk(h, root, vpn), vpn, pte)
    PROVE  Room(g, 1) => last_entry(g, root, vpn) = pte
<1>1. PICK w : w = walk(h, root, vpn)
  OBVIOUS
<1>2. CASE w.at = NULL
  BY <1>1, <1>2, WalksOrFull DEF set_entry
<1>3. CASE w.at # NULL
  <2>1. PICK i \in 0..(PTE_PER_PAGE - 1), j \in 0..(PTE_PER_PAGE - 1), k \in 0..(PTE_PER_PAGE - 1) :
          i = vpn_index(vpn, 0) /\ j = vpn_index(vpn, 1) /\ k = vpn_index(vpn, 2)
    BY IndexIs
  <2>2. PICK u, more : /\ Owns(w.heap, more, E, F) /\ Extends(more, own)
                       /\ w.at \in DOMAIN more /\ more[w.at] = table_path(p, vpn)
                       /\ Leads(w.heap, root, i, u)
                       /\ Leads(w.heap, u, j, w.at)
    BY <1>1, <1>3, <2>1, WalksOrFull
  <2>3. root \in DOMAIN more /\ more[root] = <<p>> /\ Len(more[root]) = 1 /\ Len(more[root]) < LEVELS
    <3>1. root \in DOMAIN more /\ more[root] = <<p>>
      BY <2>2 DEF Extends
    <3>2. Len(more[root]) = 1
      BY <3>1
    <3> QED
      BY <3>1, <3>2, Lengths
  <2>4. u \in DOMAIN more /\ Len(more[u]) = 2
    <3>1. u \in DOMAIN more /\ more[u] = Append(<<p>>, i)
      <4>1. Upper(more, root)
        BY <2>3 DEF Upper
      <4>2. Child(more, root, i, u)
        BY <2>2, <4>1, LeadsToChild
      <4> QED
        <5>1. PICK a : a = more[root]
          OBVIOUS
        <5>2. more[u] = Append(a, i)
          BY <4>2, <5>1, Zenon DEF Child
        <5>3. u \in DOMAIN more
          BY <4>2, Zenon DEF Child
        <5> QED
          BY <2>3, <5>1, <5>2, <5>3
    <3>2. <<p>> \in Seq(Int) /\ i \in Int /\ Len(<<p>>) = 1
      BY PageAssumption
    <3>3. Len(Append(<<p>>, i)) = Len(<<p>>) + 1
      BY <3>2, Appended, Zenon
    <3> QED
      BY <2>3, <3>1, <3>2, <3>3
  <2>5. Len(more[w.at]) = 3
    BY <2>2, PagePath DEF LEVELS
  <2>6. root # w.at /\ u # w.at
    BY <2>3, <2>4, <2>5
  <2>7. /\ root \in KERNEL_TEXT..(E - 1) /\ u \in KERNEL_TEXT..(E - 1) /\ w.at \in KERNEL_TEXT..(E - 1)
        /\ w.heap.mem[w.at] \in Page
    BY <2>2, <2>3, <2>4, OwnedPages
  <2>8. g = [w.heap EXCEPT !.mem[w.at][k] = pte]
    <3>1. LEVELS - 1 = 2
      BY DEF LEVELS
    <3> QED
      BY <1>1, <1>3, <2>1, <3>1 DEF set_entry
  <2>9. IsHeap(w.heap, E)
    BY <2>2 DEF Owns
  <2>10. g.mem[root] = w.heap.mem[root] /\ g.mem[u] = w.heap.mem[u] /\ g.mem[w.at][k] = pte
    <3>1. w.heap.mem \in [KERNEL_TEXT..(E - 1) -> Page] /\ w.heap \in [current : Nat, end : Nat, mem : [KERNEL_TEXT..(E - 1) -> Page]]
      BY <2>9 DEF IsHeap
    <3>2. g.mem = [w.heap.mem EXCEPT ![w.at] = [w.heap.mem[w.at] EXCEPT ![k] = pte]]
      BY <2>8, <3>1
    <3>3. w.heap.mem[w.at] \in [0..(PTE_PER_PAGE - 1) -> Words]
      BY <2>7 DEF Page
    <3> QED
      BY <2>6, <2>7, <3>1, <3>2, <3>3
  <2>11. followed(g, g.mem[root][i], vpn, 1) = g.mem[u][j]
    BY <2>1, <2>2, <2>10 DEF Leads, followed
  <2>12. followed(g, g.mem[u][j], vpn, 2) = pte
    BY <2>1, <2>2, <2>10 DEF Leads, followed
  <2> QED
    BY <2>1, <2>11, <2>12 DEF last_entry
<1> QED
  BY <1>2, <1>3

\* The entries of a valid way through the tables.
LEMMA WayDown ==
    ASSUME NEW h, NEW own, NEW E, NEW F, Owns(h, own, E, F), NEW p \in Nat, NEW root \in DOMAIN own,
           own[root] = <<p>>, NEW vpn \in Nat, pte_valid(last_entry(h, root, vpn))
    PROVE  \E t, u : /\ Leads(h, root, vpn_index(vpn, 0), t) /\ Leads(h, t, vpn_index(vpn, 1), u)
                     /\ t \in DOMAIN own /\ Len(own[t]) < LEVELS
                     /\ u \in DOMAIN own /\ own[u] = table_path(p, vpn)
                     /\ last_entry(h, root, vpn) = h.mem[u][vpn_index(vpn, 2)]
<1>1. PICK i \in 0..(PTE_PER_PAGE - 1), j \in 0..(PTE_PER_PAGE - 1), k \in 0..(PTE_PER_PAGE - 1) :
        i = vpn_index(vpn, 0) /\ j = vpn_index(vpn, 1) /\ k = vpn_index(vpn, 2)
  BY IndexIs
<1>2. PICK e0 : e0 = h.mem[root][i]
  OBVIOUS
<1>3. PICK e1 : e1 = followed(h, e0, vpn, 1)
  OBVIOUS
<1>4. last_entry(h, root, vpn) = followed(h, e1, vpn, 2)
  BY <1>1, <1>2, <1>3, SMTT(30) DEF last_entry
<1>5. pte_valid(e1) /\ pte_valid(e0)
  BY <1>3, <1>4 DEF followed
<1>6. Len(own[root]) < LEVELS /\ Len(own[root]) <= LEVELS /\ Len(own[root]) # LEVELS
  <2>1. Len(own[root]) = 1
    OBVIOUS
  <2> QED
    BY <2>1, Lengths
<1>7. Leads(h, root, i, e0.ppn)
  <2>1. Fits(own, E, own[root], i, e0)
    BY <1>2, <1>6, Source
  <2> QED
    BY <1>2, <1>5, <1>6, <2>1 DEF Fits, Leads
<1>8. PICK t : t = e0.ppn
  OBVIOUS
<1>9. t \in DOMAIN own /\ own[t] = Append(<<p>>, i) /\ Len(own[t]) = 2
  <2>1. t \in DOMAIN own /\ own[t] = Append(<<p>>, i)
    <3>1. Leads(h, root, i, t) /\ Upper(own, root)
      BY <1>6, <1>7, <1>8 DEF Upper
    <3>2. Child(own, root, i, t)
      BY <3>1, LeadsToChild
    <3> QED
      <4>1. PICK a : a = own[root]
        OBVIOUS
      <4>2. own[t] = Append(a, i)
        BY <3>2, <4>1, Zenon DEF Child
      <4>3. t \in DOMAIN own
        BY <3>2, Zenon DEF Child
      <4> QED
        BY <4>1, <4>2, <4>3
  <2>2. <<p>> \in Seq(Int) /\ i \in Int /\ Len(<<p>>) = 1
    BY PageAssumption
  <2>3. Len(Append(<<p>>, i)) = Len(<<p>>) + 1
    BY <2>2, Appended, Zenon
  <2> QED
    BY <2>1, <2>2, <2>3
<1>10. Len(own[t]) < LEVELS /\ Len(own[t]) <= LEVELS /\ Len(own[t]) # LEVELS
  BY <1>9, Lengths
<1>11. e1 = h.mem[t][j]
  BY <1>1, <1>2, <1>3, <1>7, <1>8 DEF followed, Leads
<1>12. Leads(h, t, j, e1.ppn)
  <2>1. Fits(own, E, own[t], j, e1)
    BY <1>9, <1>10, <1>11, Source
  <2> QED
    BY <1>5, <1>10, <1>11, <2>1 DEF Fits, Leads
<1>13. PICK u : u = e1.ppn
  OBVIOUS
<1>14. u \in DOMAIN own /\ own[u] = Append(own[t], j)
  <2>1. Leads(h, t, j, u) /\ Upper(own, t)
    BY <1>9, <1>10, <1>12, <1>13 DEF Upper
  <2>2. Child(own, t, j, u)
    BY <2>1, LeadsToChild
  <2> QED
    BY <2>2 DEF Child
<1>15. own[u] = table_path(p, vpn)
  BY <1>1, <1>9, <1>14 DEF table_path
<1>16. last_entry(h, root, vpn) = h.mem[u][k]
  BY <1>1, <1>4, <1>11, <1>12, <1>13 DEF followed, Leads
<1> QED
  BY <1>1, <1>7, <1>8, <1>9, <1>10, <1>12, <1>13, <1>14, <1>15, <1>16

\* What is mapped stays mapped.
LEMMA Stays ==
    ASSUME NEW h, NEW own, NEW E, NEW F, Owns(h, own, E, F), NEW p \in Nat, NEW root \in DOMAIN own,
           own[root] = <<p>>, NEW vpn \in Nat, pte_valid(last_entry(h, root, vpn)),
           NEW open, \A path \in open : Len(path) = LEVELS + 1, page_path(p, vpn) \notin open,
           NEW g, NEW more, Held(g, more, Past(h, own, open))
    PROVE  last_entry(g, root, vpn) = last_entry(h, root, vpn)
<1>1. PICK i \in 0..(PTE_PER_PAGE - 1), j \in 0..(PTE_PER_PAGE - 1), k \in 0..(PTE_PER_PAGE - 1) :
        i = vpn_index(vpn, 0) /\ j = vpn_index(vpn, 1) /\ k = vpn_index(vpn, 2)
  BY IndexIs, SMTT(30)
<1>2. PICK t, u : /\ Leads(h, root, i, t) /\ Leads(h, t, j, u)
                  /\ t \in DOMAIN own /\ Len(own[t]) < LEVELS
                  /\ u \in DOMAIN own /\ own[u] = table_path(p, vpn)
                  /\ last_entry(h, root, vpn) = h.mem[u][k]
  BY <1>1, WayDown
<1>3. Len(own[root]) < LEVELS
  BY DEF LEVELS
<1>4. Leads(g, root, i, t)
  BY <1>2, <1>3, LeadStays
<1>5. Leads(g, t, j, u)
  BY <1>2, LeadStays
<1>6. g.mem[u][k] = h.mem[u][k]
  <2>1. Append(own[u], k) = page_path(p, vpn)
    BY <1>1, <1>2 DEF page_path
  <2>2. Len(own[u]) <= LEVELS
    <3>1. Len(table_path(p, vpn)) = LEVELS
      BY PagePath
    <3>2. Len(own[u]) = LEVELS
      BY <1>2, <3>1, Zenon
    <3> QED
      BY <3>2 DEF LEVELS
  <2> QED
    BY <1>2, <2>1, <2>2 DEF Held, Past
<1>7. followed(g, g.mem[root][i], vpn, 1) = g.mem[t][j]
  BY <1>1, <1>4 DEF Leads, followed
<1>8. followed(g, g.mem[t][j], vpn, 2) = g.mem[u][k]
  BY <1>1, <1>5 DEF Leads, followed
<1> QED
  BY <1>1, <1>2, <1>6, <1>7, <1>8 DEF last_entry

LEMMA PathsDiffer ==
    ASSUME NEW p \in Nat, NEW v \in Nat, NEW w \in Nat, vpn_path(v) # vpn_path(w)
    PROVE  page_path(p, v) # page_path(p, w)
<1>1. ASSUME NEW x \in Nat
      PROVE  vpn_path(x) = <<page_path(p, x)[2], page_path(p, x)[3], page_path(p, x)[4]>>
  <2>1. PICK c, k : c = table_path(p, x) /\ k = vpn_index(x, 2)
    OBVIOUS
  <2>2. c \in Seq(Int) /\ Len(c) = 3 /\ <<c[2], c[3], k>> = vpn_path(x) /\ k \in Int
    <3>1. k \in Int
      BY <1>1, <2>1, IndexIs, PageAssumption
    <3> QED
      BY <1>1, <2>1, <3>1, PagePath DEF LEVELS
  <2>3. PICK d : d = Append(c, k)
    OBVIOUS
  <2>4. d[2] = c[2] /\ d[3] = c[3] /\ d[4] = k
    <3>1. d[Len(c) + 1] = k /\ \A i \in 1..Len(c) : d[i] = c[i]
      BY <2>2, <2>3, Appended, Zenon
    <3> QED
      BY <2>2, <3>1
  <2>5. d = page_path(p, x)
    BY <2>1, <2>3 DEF page_path
  <2> QED
    BY <2>2, <2>4, <2>5
<1> QED
  BY <1>1

\* The places of pages.
Places(p, pages) == {page_path(p, v) : v \in pages}

LEMMA PlacesAre ==
    ASSUME NEW p \in Nat, NEW T \in SUBSET Nat
    PROVE  /\ \A path \in Places(p, T) : Len(path) = LEVELS + 1
           /\ \A v \in Nat : (\A w \in T : vpn_path(v) # vpn_path(w)) => page_path(p, v) \notin Places(p, T)
<1>1. \A v \in T : Len(page_path(p, v)) = LEVELS + 1
  BY PagePath
<1> QED
  BY <1>1, PathsDiffer DEF Places

\* What a step leaves alone while it maps the pages T.
LEMMA EntriesStay ==
    ASSUME NEW h, NEW own, NEW E, NEW F, Owns(h, own, E, F), NEW p \in Nat, NEW root \in DOMAIN own,
           own[root] = <<p>>, NEW S \in SUBSET Nat, NEW T \in SUBSET Nat, Apart(S, T),
           NEW g, Kept(g, own, E, Past(h, own, Places(p, T)))
    PROVE  /\ \A v \in S : pte_valid(last_entry(h, root, v)) => last_entry(g, root, v) = last_entry(h, root, v)
           /\ \A n \in Nat : Room(g, n) => Room(h, n)
<1>1. PICK open : open = Places(p, T)
  OBVIOUS
<1>2. PICK more : Owns(g, more, E, Past(h, own, open))
  BY <1>1 DEF Kept
<1>3. Held(g, more, Past(h, own, open)) /\ IsHeap(g, E) /\ IsHeap(h, E)
  BY <1>2 DEF Owns
<1>4. \A path \in open : Len(path) = LEVELS + 1
  BY <1>1, PlacesAre
<1>5. ASSUME NEW v \in S, pte_valid(last_entry(h, root, v))
      PROVE  last_entry(g, root, v) = last_entry(h, root, v)
  <2>1. v \in Nat /\ page_path(p, v) \notin open
    BY <1>1, PlacesAre DEF Apart
  <2> QED
    BY <1>3, <1>4, <1>5, <2>1, Stays
<1>6. ASSUME NEW n \in Nat, Room(g, n) PROVE Room(h, n)
  <2>1. h.current <= g.current /\ n <= n
    BY <1>3 DEF Held, Past
  <2> QED
    BY <1>3, <1>6, <2>1, RoomShrinks
<1> QED
  BY <1>5, <1>6

-----------------------------------------------------------------------------
(* What is mapped, or could not be *)

SetSoFar(a, g) ==
    LET q == a.of
    IN  /\ Mapping(q, g)
        /\ Room(g, 1) => \A j \in 0..(a.step - 1) : last_entry(g, q.root, q.start + j) = MapPte(q, j)
SetLoop == INSTANCE FoldInduction WITH op <- MapStep, Keep <- SetSoFar

\* Every one of n pages has the entry that as_map_extern makes for it.
AllSet(g, root, start, n, base, flags) ==
    \A j \in 0..(n - 1) : last_entry(g, root, start + j) = make_pte(base + j, flags \cup {"V"})

LEMMA MapsOrFull ==
    ASSUME NEW h, NEW own, NEW E, NEW F, Owns(h, own, E, F), NEW p \in Nat, NEW root \in DOMAIN own,
           own[root] = <<p>>, NEW start \in Nat, NEW n \in Nat, NEW base \in Nat,
           NEW flags \in SUBSET PteFlags,
           Fitting(own, E, p, start, n, base, flags),
           Open(F, p, start..(start + n - 1)), Distinct(start..(start + n - 1)),
           NEW end, n = end - start, NEW g, g = as_map_extern(h, root, start, end, base, flags),
           Room(g, 1)
    PROVE  AllSet(g, root, start, n, base, flags)
<1>1. PICK q : q = [root |-> root, start |-> start, base |-> base, flags |-> flags,
                    own |-> own, E |-> E, F |-> F]
  OBVIOUS
<1>2. g = SetLoop!Looped(q, h, n)
  BY <1>1 DEF as_map_extern, Loop, SetLoop!Looped, SetLoop!IsLoop, MapStep, MapPte
<1>3. SetSoFar(SetLoop!At(q, 0), h)
  <2>1. Mapping(q, h)
    BY <1>1 DEF Mapping, Kept, Extends
  <2> QED
    BY <2>1 DEF SetSoFar, SetLoop!At
<1>4. ASSUME NEW k \in 0..(n - 1), NEW x, SetSoFar(SetLoop!At(q, k), x)
      PROVE  SetSoFar(SetLoop!At(q, k + 1), MapStep(q, x, k))
  <2>1. /\ Mapping(q, x)
        /\ Room(x, 1) => \A i \in 0..(k - 1) : last_entry(x, root, start + i) = MapPte(q, i)
    BY <1>1, <1>4 DEF SetSoFar, SetLoop!At
  <2>2. PICK more : Owns(x, more, E, F) /\ Extends(more, own)
    BY <1>1, <2>1 DEF Mapping, Kept
  <2>3. root \in DOMAIN more /\ more[root] = <<p>>
    BY <2>2 DEF Extends
  <2>4. PICK vpn \in Nat : vpn = start + k /\ vpn \in start..(start + n - 1)
    OBVIOUS
  <2>5. PICK pte : pte = MapPte(q, k)
    OBVIOUS
  <2>6. pte = make_pte(base + k, flags \cup {"V"}) /\ pte \in Words
    BY <1>1, <2>5 DEF MapPte, make_pte, Words, PteFlags
  <2>7. Fits(more, E, table_path(p, vpn), vpn_index(vpn, 2), pte)
    BY <2>2, <2>4, <2>6, FitsMore DEF Fitting
  <2>8. PICK y : y = set_entry(walk(x, root, vpn), vpn, pte)
    OBVIOUS
  <2>9. MapStep(q, x, k) = y
    BY <1>1, <2>4, <2>5, <2>8 DEF MapStep
  <2>10. Kept(y, more, E, F)
    <3>1. page_path(p, vpn) \in F.open
      BY <2>4 DEF Open
    <3> QED
      BY <2>2, <2>3, <2>6, <2>7, <2>8, <3>1, SetsEntry
  <2>11. Kept(y, more, E, Past(x, more, Places(p, {vpn})))
    <3>1. PICK P : P = Past(x, more, Places(p, {vpn}))
      OBVIOUS
    <3>2. page_path(p, vpn) \in P.open
      BY <3>1 DEF Past, Places
    <3>3. Owns(x, more, E, P)
      BY <2>2, <3>1, Freeze
    <3> QED
      BY <2>3, <2>6, <2>7, <2>8, <3>1, <3>2, <3>3, SetsEntry
  <2>12. Room(y, 1) => last_entry(y, root, vpn) = pte
    BY <2>2, <2>3, <2>8, SetsLastEntry
  <2>13. PICK S : S = {start + i : i \in 0..(k - 1)}
    OBVIOUS
  <2>14. S \in SUBSET Nat /\ {vpn} \in SUBSET Nat /\ Apart(S, {vpn})
    <3>1. ASSUME NEW w \in S PROVE w \in Nat /\ w # vpn /\ w \in start..(start + n - 1)
      BY <2>4, <2>13
    <3> QED
      BY <2>4, <3>1 DEF Apart, Distinct
  <2>15. /\ \A w \in S : pte_valid(last_entry(x, root, w)) => last_entry(y, root, w) = last_entry(x, root, w)
         /\ Room(y, 1) => Room(x, 1)
    <3>1. PICK T : T = {vpn}
      OBVIOUS
    <3>2. T \in SUBSET Nat /\ Apart(S, T) /\ Kept(y, more, E, Past(x, more, Places(p, T)))
      BY <2>11, <2>14, <3>1
    <3>3. /\ \A w \in S : pte_valid(last_entry(x, root, w)) => last_entry(y, root, w) = last_entry(x, root, w)
          /\ \A m \in Nat : Room(y, m) => Room(x, m)
      BY <2>2, <2>3, <2>14, <3>2, EntriesStay
    <3> QED
      BY <3>3
  <2>16. ASSUME Room(y, 1), NEW i \in 0..(k - 1) PROVE last_entry(y, root, start + i) = MapPte(q, i)
    <3>1. last_entry(x, root, start + i) = MapPte(q, i)
      BY <2>1, <2>15, <2>16
    <3>2. pte_valid(MapPte(q, i))
      BY DEF MapPte, make_pte, pte_valid
    <3> QED
      BY <2>13, <2>15, <3>1, <3>2
  <2>17. Mapping(q, y)
    BY <1>1, <2>2, <2>10, KeptMore DEF Mapping
  <2>18. ASSUME Room(y, 1), NEW i \in 0..(k + 1 - 1) PROVE last_entry(y, root, start + i) = MapPte(q, i)
    <3>1. CASE i = k
      BY <2>4, <2>5, <2>12, <2>18, <3>1
    <3>2. CASE i # k
      <4>1. i \in 0..(k - 1)
        BY <3>2
      <4> QED
        BY <2>16, <2>18, <4>1
    <3> QED
      BY <3>1, <3>2
  <2> QED
    BY <1>1, <2>9, <2>17, <2>18 DEF SetSoFar, SetLoop!At
<1>5. SetSoFar(SetLoop!At(q, n), g)
  BY <1>2, <1>3, <1>4, SetLoop!LoopReaches
<1>6. \A j \in 0..(n - 1) : last_entry(g, root, start + j) = MapPte(q, j)
  BY <1>1, <1>5 DEF SetSoFar, SetLoop!At
<1> QED
  BY <1>1, <1>6 DEF MapPte, AllSet

\* A page that is there, with these flags.
Present(pte, flags) ==
    pte_valid(pte) /\ pte_is_leaf(pte) /\ flags \subseteq pte.flags /\ pte.ppn \in Nat \ {0}

PagesInPlace(h, root, S, n, flags) ==
    Room(h, n) => \A v \in S : Present(last_entry(h, root, v), flags)

LEMMA MapsNewOrFull ==
    ASSUME NEW h, NEW own, NEW E, NEW F, Owns(h, own, E, F), NEW p \in Nat, NEW root \in DOMAIN own,
           own[root] = <<p>>, NEW start \in Nat, NEW end, NEW n \in Nat, n = end - start,
           NEW data \in Seq(Words), NEW offset \in Nat, end \in Int,
           NEW flags \in SUBSET PteFlags, "U" \in flags, flags \cap {"R", "W", "X"} # {},
           Open(F, p, start..(end - 1)), Distinct(start..(end - 1)),
           NEW r, r = as_map(h, root, start, end, data, offset, flags)
    PROVE  PagesInPlace(r, root, start..(end - 1), n, flags)
<1> SUFFICES ASSUME Room(r, n), NEW v \in start..(end - 1)
             PROVE  Present(last_entry(r, root, v), flags)
  BY DEF PagesInPlace
<1>1. PICK k \in 0..(n - 1) : v = start + k
  OBVIOUS
<1>2. CASE r = h /\ alloc_pages(h, n).at = NULL
  BY <1>2, PagesOrFull
<1>3. CASE ~(r = h /\ alloc_pages(h, n).at = NULL)
  <2>0. PICK a \in Nat \ {0} : \E g, more :
           /\ NewPages(h, own, E, F, p, start, n, flags, g, more, a)
           /\ r = as_map_extern(g, root, start, end, a, flags)
    BY <1>3, GetsPages
  <2>1. PICK g, more :
           /\ NewPages(h, own, E, F, p, start, n, flags, g, more, a)
           /\ r = as_map_extern(g, root, start, end, a, flags)
    BY <2>0
  <2>2. Owns(g, more, E, F) /\ Extends(more, own)
    BY <2>1 DEF NewPages
  <2>3. Fitting(more, E, p, start, n, a, flags)
    BY <2>1 DEF NewPages
  <2>4. root \in DOMAIN more /\ more[root] = <<p>>
    BY <2>2 DEF Extends
  <2>5. Open(F, p, start..(start + n - 1)) /\ Distinct(start..(start + n - 1))
    <3>1. start + n - 1 = end - 1
      OBVIOUS
    <3> QED
      BY <3>1
  <2>6. Room(r, 1)
    <3>1. Kept(r, own, E, F)
      BY MapsNew
    <3>2. IsHeap(r, E)
      BY <3>1, KeptIsHeap
    <3>3. 1 <= n
      BY <1>1
    <3> QED
      BY <3>2, <3>3, RoomForOne
  <2>7. AllSet(r, root, start, n, a, flags)
    BY <2>1, <2>2, <2>3, <2>4, <2>5, <2>6, MapsOrFull
  <2>8. PICK ppn \in Nat \ {0} : ppn = a + k
    BY <1>1, SMTT(30)
  <2>9. last_entry(r, root, v) = make_pte(ppn, flags \cup {"V"})
    BY <1>1, <2>7, <2>8 DEF AllSet
  <2> QED
    BY <2>9 DEF Present, make_pte, pte_valid, pte_is_leaf
<1> QED
  BY <1>2, <1>3

\* What is in place stays in place.
LEMMA PagesStayInPlace ==
    ASSUME NEW h, NEW g, NEW root, NEW S, NEW n, NEW flags, PagesInPlace(h, root, S, n, flags),
           Room(g, n) => Room(h, n),
           \A v \in S : pte_valid(last_entry(h, root, v)) => last_entry(g, root, v) = last_entry(h, root, v)
    PROVE  PagesInPlace(g, root, S, n, flags)
  BY DEF PagesInPlace, Present

PartInPlace(h, root, x) ==
    Room(h, 1) => \A v \in x.from..(x.to - 1) : last_entry(h, root, v) = make_pte(v, x.flags)

LEMMA PartStaysInPlace ==
    ASSUME NEW h, NEW g, NEW root, NEW x, "V" \in x.flags, PartInPlace(h, root, x),
           Room(g, 1) => Room(h, 1),
           \A v \in x.from..(x.to - 1) :
              pte_valid(last_entry(h, root, v)) => last_entry(g, root, v) = last_entry(h, root, v)
    PROVE  PartInPlace(g, root, x)
  BY DEF PartInPlace, make_pte, pte_valid

\* The kernel's parts.
LEMMA PartMapsOrFull ==
    ASSUME NEW h, NEW own, NEW E, NEW F, Owns(h, own, E, F), NEW p \in Nat, NEW root \in DOMAIN own,
           own[root] = <<p>>, NEW x, IsPart(x, E), Open(F, p, x.from..(x.to - 1)),
           Distinct(x.from..(x.to - 1)),
           NEW g, g = as_map_extern(h, root, x.from, x.to, x.from, x.flags)
    PROVE  PartInPlace(g, root, x)
<1>1. PICK from \in Nat, to \in Int, flags \in SUBSET PteFlags :
         from = x.from /\ to = x.to /\ flags = x.flags
  BY DEF IsPart
<1>2. /\ from <= to /\ KERNEL_TEXT <= from /\ to <= E /\ "V" \in flags
      /\ "U" \notin flags /\ flags \cap {"R", "W", "X"} # {}
  BY <1>1 DEF IsPart
<1>3. PICK n \in Nat : n = to - from
  BY <1>2
<1>4. Open(F, p, from..(from + n - 1)) /\ Distinct(from..(from + n - 1))
  <2>1. from + n - 1 = to - 1
    BY <1>3
  <2> QED
    BY <1>1, <2>1
<1>5. Fitting(own, E, p, from, n, from, flags)
  BY <1>2, <1>3, KernelFits
<1>6. g = as_map_extern(h, root, from, to, from, flags)
  BY <1>1
<1>7. Room(g, 1) => AllSet(g, root, from, n, from, flags)
  BY <1>3, <1>4, <1>5, <1>6, MapsOrFull
<1>8. ASSUME Room(g, 1), NEW v \in from..(to - 1) PROVE last_entry(g, root, v) = make_pte(v, flags)
  <2>1. v - from \in 0..(n - 1) /\ from + (v - from) = v
    BY <1>3
  <2>2. flags \cup {"V"} = flags
    BY <1>2
  <2> QED
    BY <1>7, <1>8, <2>1, <2>2 DEF AllSet
<1> QED
  BY <1>1, <1>8 DEF PartInPlace

KernelInPlace(h, E, root) == \A i \in 1..3 : PartInPlace(h, root, KernelParts(E)[i])

PartsSoFar(a, g) ==
    LET q == a.of
    IN  /\ Mapping(q, g)
        /\ \A i \in 1..a.step : PartInPlace(g, q.root, KernelParts(q.end)[i])
KernelLoop == INSTANCE FoldInduction WITH op <- PartStep, Keep <- PartsSoFar

LEMMA PartsApart ==
    ASSUME NEW E \in Nat, KERNEL_TEXT + 3 <= E, Distinct(KernelPages(E)),
           NEW i \in 1..3, NEW j \in 1..3, i < j,
           NEW x, x = KernelParts(E)[i], NEW y, y = KernelParts(E)[j]
    PROVE  /\ Apart(x.from..(x.to - 1), y.from..(y.to - 1))
           /\ x.from..(x.to - 1) \in SUBSET Nat /\ y.from..(y.to - 1) \in SUBSET Nat
<1>1. IsPart(x, E) /\ IsPart(y, E)
  BY PartsAre
<1>2. x.to <= y.from
  <2>1. (i = 1 /\ j = 2) \/ (i = 1 /\ j = 3) \/ (i = 2 /\ j = 3)
    OBVIOUS
  <2>2. CASE i = 1 /\ j = 2
    BY <2>2, Sizes DEF KernelParts
  <2>3. CASE i = 1 /\ j = 3
    BY <2>3, Sizes DEF KernelParts
  <2>4. CASE i = 2 /\ j = 3
    BY <2>4, Sizes DEF KernelParts
  <2> QED
    BY <2>1, <2>2, <2>3, <2>4
<1>3. /\ x.from \in Nat /\ x.to \in Int /\ KERNEL_TEXT <= x.from /\ x.to <= E /\ KERNEL_TEXT \in Nat
      /\ y.from \in Nat /\ y.to \in Int /\ KERNEL_TEXT <= y.from /\ y.to <= E
  BY <1>1, Sizes DEF IsPart
<1>4. PICK a \in Nat, b \in Int, c \in Nat, d \in Int, k \in Nat :
         /\ a = x.from /\ b = x.to /\ c = y.from /\ d = y.to /\ k = KERNEL_TEXT
         /\ k <= a /\ b <= E /\ k <= c /\ d <= E /\ b <= c
  BY <1>2, <1>3
<1>5. ASSUME NEW v \in a..(b - 1), NEW w \in c..(d - 1)
      PROVE  v \in k..(E - 1) /\ w \in k..(E - 1) /\ v # w
  BY <1>4
<1>6. Apart(a..(b - 1), c..(d - 1))
  BY <1>4, <1>5 DEF Apart, Distinct, KernelPages
<1> QED
  BY <1>4, <1>6

LEMMA KernelMapsOrFull ==
    ASSUME NEW h, NEW own, NEW E, NEW F, Owns(h, own, E, F), NEW p \in Nat, NEW root \in DOMAIN own,
           own[root] = <<p>>, Open(F, p, KernelPages(E)), Distinct(KernelPages(E))
    PROVE  KernelInPlace(map_kernel_to_user(h, root), E, root)
<1>1. E \in Nat /\ va_vpn(h.end) = E /\ KERNEL_TEXT + 3 <= E
  BY HeapEnds DEF Owns
<1>2. PICK q : q = [end |-> E, root |-> root, own |-> own, E |-> E, F |-> F]
  OBVIOUS
<1>3. map_kernel_to_user(h, root) = KernelLoop!Looped(q, h, 3)
  BY <1>1, <1>2 DEF map_kernel_to_user, Loop, KernelLoop!Looped, KernelLoop!IsLoop, PartStep
<1>4. PartsSoFar(KernelLoop!At(q, 0), h)
  BY <1>2 DEF PartsSoFar, KernelLoop!At, Mapping, Kept, Extends
<1>5. ASSUME NEW i \in 0..(3 - 1), NEW g, PartsSoFar(KernelLoop!At(q, i), g)
      PROVE  PartsSoFar(KernelLoop!At(q, i + 1), PartStep(q, g, i))
  <2>1. Mapping(q, g) /\ \A j \in 1..i : PartInPlace(g, root, KernelParts(E)[j])
    BY <1>2, <1>5 DEF PartsSoFar, KernelLoop!At
  <2>2. PICK more : Owns(g, more, E, F) /\ Extends(more, own)
    BY <1>2, <2>1 DEF Mapping, Kept
  <2>3. root \in DOMAIN more /\ more[root] = <<p>>
    BY <2>2 DEF Extends
  <2>4. PICK x : x = KernelParts(E)[i + 1]
    OBVIOUS
  <2>5. PICK y : y = as_map_extern(g, root, x.from, x.to, x.from, x.flags)
    OBVIOUS
  <2>6. PartStep(q, g, i) = y
    BY <1>2, <2>4, <2>5 DEF PartStep
  <2>7. IsPart(x, E) /\ i + 1 \in 1..3
    <3>1. i + 1 \in 1..3
      OBVIOUS
    <3> QED
      BY <1>1, <2>4, <3>1, PartsAre
  <2>8. PICK S : S = x.from..(x.to - 1)
    OBVIOUS
  <2>9. S \subseteq KernelPages(E) /\ S \in SUBSET Nat
    BY <1>1, <2>7, <2>8, Sizes DEF KernelPages, IsPart
  <2>10. Open(F, p, S) /\ Distinct(S)
    BY <2>9 DEF Open, Distinct
  <2>11. Kept(y, more, E, F)
    BY <2>2, <2>3, <2>5, <2>7, <2>8, <2>10, PartMaps
  <2>12. Kept(y, more, E, Past(g, more, Places(p, S)))
    <3>1. PICK P : P = Past(g, more, Places(p, S))
      OBVIOUS
    <3>2. Open(P, p, S)
      BY <3>1 DEF Open, Past, Places
    <3>3. Owns(g, more, E, P)
      BY <2>2, <3>1, Freeze
    <3> QED
      BY <2>3, <2>5, <2>7, <2>8, <3>1, <3>2, <3>3, PartMaps
  <2>13. PartInPlace(y, root, x)
    BY <2>2, <2>3, <2>5, <2>7, <2>8, <2>10, PartMapsOrFull
  <2>14. ASSUME NEW j \in 1..i PROVE PartInPlace(y, root, KernelParts(E)[j])
    <3>1. PICK z : z = KernelParts(E)[j]
      OBVIOUS
    <3>2. PICK T : T = z.from..(z.to - 1)
      OBVIOUS
    <3>3. j \in 1..3 /\ j < i + 1
      OBVIOUS
    <3>4. Apart(T, S) /\ T \in SUBSET Nat
      BY <1>1, <2>4, <2>7, <2>8, <3>1, <3>2, <3>3, PartsApart
    <3>5. /\ \A v \in T : pte_valid(last_entry(g, root, v)) => last_entry(y, root, v) = last_entry(g, root, v)
          /\ \A n \in Nat : Room(y, n) => Room(g, n)
      BY <2>2, <2>3, <2>9, <2>12, <3>4, EntriesStay
    <3>6. "V" \in z.flags
      BY <1>1, <3>1, <3>3, PartsAre DEF IsPart
    <3>7. PartInPlace(g, root, z)
      BY <2>1, <3>1
    <3> QED
      BY <3>1, <3>2, <3>5, <3>6, <3>7, PartStaysInPlace
  <2>15. Mapping(q, y)
    BY <1>2, <2>2, <2>11, KeptMore DEF Mapping
  <2>16. \A j \in 1..(i + 1) : PartInPlace(y, root, KernelParts(E)[j])
    <3>1. \A j \in 1..(i + 1) : j = i + 1 \/ j \in 1..i
      OBVIOUS
    <3> QED
      BY <2>4, <2>13, <2>14, <3>1
  <2> QED
    BY <1>2, <2>6, <2>15, <2>16 DEF PartsSoFar, KernelLoop!At
<1>6. PartsSoFar(KernelLoop!At(q, 3), KernelLoop!Looped(q, h, 3))
  BY <1>4, <1>5, KernelLoop!LoopReaches
<1> QED
  BY <1>2, <1>3, <1>6 DEF PartsSoFar, KernelLoop!At, KernelInPlace

-----------------------------------------------------------------------------
(* Programs *)

SegmentInPlace(h, root, s) == PagesInPlace(h, root, PagesOf(s), Cardinality(PagesOf(s)), s.flags \cup {"U"})

LEMMA CountPages ==
    ASSUME NEW s, IsSegment(s)
    PROVE  Cardinality(PagesOf(s)) \in Nat /\ Cardinality(PagesOf(s)) = vpn_end_of(s) - va_vpn(s.vaddr)
<1>1. PICK a \in Nat, n \in Nat, b \in Int :
         a = va_vpn(s.vaddr) /\ b = vpn_end_of(s) /\ n = b - a /\ PagesOf(s) = a..(b - 1)
  BY SegmentPages
<1>2. Cardinality(a..(b - 1)) = IF a > b - 1 THEN 0 ELSE b - 1 - a + 1
  BY FS_Interval
<1>3. Cardinality(a..(b - 1)) = n
  BY <1>1, <1>2
<1> QED
  BY <1>1, <1>3

LEMMA SegmentMapsOrFull ==
    ASSUME NEW h, NEW own, NEW E, NEW F, Owns(h, own, E, F), NEW p \in Nat, NEW root \in DOMAIN own,
           own[root] = <<p>>, NEW s, IsSegment(s), Open(F, p, PagesOf(s)), Distinct(PagesOf(s))
    PROVE  SegmentInPlace(load_segment(h, root, s), root, s)
<1>1. PICK flags : flags = s.flags \cup {"V", "U"}
  OBVIOUS
<1>2. /\ flags \in SUBSET PteFlags /\ "U" \in flags /\ flags \cap {"R", "W", "X"} # {}
      /\ s.file \in Seq(Words) /\ s.flags \cup {"U"} \subseteq flags
  BY <1>1 DEF IsSegment, PteFlags
<1>3. PICK start \in Nat, n \in Nat, offset \in Nat, data \in Seq(Words), end \in Int :
         /\ start = va_vpn(s.vaddr) /\ n = end - start /\ end = vpn_end_of(s)
         /\ offset = va_offset(s.vaddr) /\ data = s.file
         /\ PagesOf(s) = start..(end - 1)
  BY <1>2, SegmentPages
<1>4. n = Cardinality(PagesOf(s))
  BY <1>3, CountPages
<1>5. PICK r : r = as_map(h, root, start, end, data, offset, flags)
  OBVIOUS
<1>6. PagesInPlace(r, root, start..(end - 1), n, flags)
  <2>1. Open(F, p, start..(end - 1)) /\ Distinct(start..(end - 1))
    BY <1>3
  <2>2. n = end - start
    BY <1>3
  <2> QED
    BY <1>2, <1>5, <2>1, <2>2, MapsNewOrFull
<1>7. load_segment(h, root, s) = r
  BY <1>1, <1>3, <1>5 DEF load_segment
<1> QED
  BY <1>2, <1>3, <1>4, <1>6, <1>7 DEF SegmentInPlace, PagesInPlace, Present

LEMMA StackMapsOrFull ==
    ASSUME NEW h, NEW own, NEW E, NEW F, Owns(h, own, E, F), NEW p \in Nat, NEW root \in DOMAIN own,
           own[root] = <<p>>, Open(F, p, StackPages)
    PROVE  PagesInPlace(map_stack(h, root), root, StackPages, USER_STACK_PAGES, StackFlags)
<1>1. PICK start \in Nat, n \in Nat, end \in Int :
         /\ start = USER_STACK_TOP - USER_STACK_PAGES /\ end = USER_STACK_TOP
         /\ n = end - start /\ n = USER_STACK_PAGES
         /\ StackPages = start..(end - 1)
  BY MemoryAssumption DEF StackPages
<1>2. /\ StackFlags \in SUBSET PteFlags /\ "U" \in StackFlags /\ StackFlags \cap {"R", "W", "X"} # {}
      /\ <<>> \in Seq(Words) /\ 0 \in Nat
  BY DEF StackFlags, PteFlags
<1>3. Distinct(StackPages)
  BY ApartAssumption
<1>4. PICK r : r = as_map(h, root, start, end, <<>>, 0, StackFlags)
  OBVIOUS
<1>5. PagesInPlace(r, root, start..(end - 1), n, StackFlags)
  BY <1>1, <1>2, <1>3, <1>4, MapsNewOrFull
<1>6. map_stack(h, root) = r
  BY <1>1, <1>4 DEF map_stack
<1> QED
  BY <1>1, <1>5, <1>6

\* Different parts of a program do not meet in the page tables.
LEMMA SegmentsApart ==
    ASSUME NEW prog \in Programs, prog.entry # NULL, NEW i \in DOMAIN prog.segments,
           NEW s, s = prog.segments[i]
    PROVE  /\ IsSegment(s) /\ Distinct(PagesOf(s)) /\ Apart(PagesOf(s), StackPages)
           /\ \A end \in MemoryEnds : Apart(KernelPages(end), PagesOf(s))
           /\ \A j \in DOMAIN prog.segments : i # j => Apart(PagesOf(s), PagesOf(prog.segments[j]))
           /\ PagesOf(s) \in SUBSET Nat
<1>1. IsSegment(s)
  BY MemoryAssumption
<1>2. PagesOf(s) \in SUBSET Nat
  BY PagesAreNumbers
<1> QED
  BY <1>1, <1>2, ApartAssumption

SegmentsSoFar(a, g) ==
    LET q == a.of
    IN  /\ Mapping(q, g)
        /\ \A i \in 1..a.step : SegmentInPlace(g, q.root, q.segments[i])
LoadLoop == INSTANCE FoldInduction WITH op <- SegmentStep, Keep <- SegmentsSoFar

SegmentsInPlace(h, root, prog) ==
    \A i \in DOMAIN prog.segments : SegmentInPlace(h, root, prog.segments[i])

LEMMA SegmentStays ==
    ASSUME NEW h, NEW own, NEW E, NEW F, Owns(h, own, E, F), NEW p \in Nat, NEW root \in DOMAIN own,
           own[root] = <<p>>, NEW s, IsSegment(s), PagesOf(s) \in SUBSET Nat,
           NEW T \in SUBSET Nat, Apart(PagesOf(s), T),
           NEW g, Kept(g, own, E, Past(h, own, Places(p, T))), SegmentInPlace(h, root, s)
    PROVE  SegmentInPlace(g, root, s)
<1>1. PICK S : S = PagesOf(s)
  OBVIOUS
<1>2. /\ \A v \in S : pte_valid(last_entry(h, root, v)) => last_entry(g, root, v) = last_entry(h, root, v)
      /\ \A n \in Nat : Room(g, n) => Room(h, n)
  BY <1>1, EntriesStay
<1>3. PICK n \in Nat : n = Cardinality(PagesOf(s))
  BY CountPages
<1> QED
  BY <1>1, <1>2, <1>3, PagesStayInPlace DEF SegmentInPlace

LEMMA ProgramLoadsOrFull ==
    ASSUME NEW h, NEW own, NEW E, NEW F, Owns(h, own, E, F), NEW p \in Nat, NEW root \in DOMAIN own,
           own[root] = <<p>>, NEW prog \in Programs, prog.entry # NULL,
           \A i \in DOMAIN prog.segments : Open(F, p, PagesOf(prog.segments[i]))
    PROVE  SegmentsInPlace(elf_load(h, root, prog), root, prog)
<1>1. PICK q : q = [root |-> root, segments |-> prog.segments, own |-> own, E |-> E, F |-> F]
  OBVIOUS
<1>2. elf_load(h, root, prog) = LoadLoop!Looped(q, h, Len(prog.segments))
  BY <1>1 DEF elf_load, Loop, LoadLoop!Looped, LoadLoop!IsLoop, SegmentStep
<1>3. PICK n \in Nat : n = Len(prog.segments) /\ DOMAIN prog.segments = 1..n
  <2>1. PICK T : prog.segments \in Seq(T)
    BY MemoryAssumption, Zenon
  <2> QED
    BY <2>1
<1>4. SegmentsSoFar(LoadLoop!At(q, 0), h)
  BY <1>1 DEF SegmentsSoFar, LoadLoop!At, Mapping, Kept, Extends
<1>5. ASSUME NEW i \in 0..(n - 1), NEW g, SegmentsSoFar(LoadLoop!At(q, i), g)
      PROVE  SegmentsSoFar(LoadLoop!At(q, i + 1), SegmentStep(q, g, i))
  <2>1. Mapping(q, g) /\ \A j \in 1..i : SegmentInPlace(g, root, prog.segments[j])
    BY <1>1, <1>5 DEF SegmentsSoFar, LoadLoop!At
  <2>2. PICK more : Owns(g, more, E, F) /\ Extends(more, own)
    BY <1>1, <2>1 DEF Mapping, Kept
  <2>3. root \in DOMAIN more /\ more[root] = <<p>>
    BY <2>2 DEF Extends
  <2>4. i + 1 \in DOMAIN prog.segments
    BY <1>3
  <2>5. PICK s : s = prog.segments[i + 1]
    OBVIOUS
  <2>6. /\ IsSegment(s) /\ Distinct(PagesOf(s)) /\ PagesOf(s) \in SUBSET Nat /\ Open(F, p, PagesOf(s))
    BY <2>4, <2>5, SegmentsApart
  <2>7. PICK y : y = load_segment(g, root, s)
    OBVIOUS
  <2>8. SegmentStep(q, g, i) = y
    BY <1>1, <2>5, <2>7 DEF SegmentStep
  <2>9. Kept(y, more, E, F)
    BY <2>2, <2>3, <2>6, <2>7, SegmentMaps
  <2>10. Kept(y, more, E, Past(g, more, Places(p, PagesOf(s))))
    <3>1. PICK P : P = Past(g, more, Places(p, PagesOf(s)))
      OBVIOUS
    <3>2. Open(P, p, PagesOf(s))
      BY <3>1 DEF Open, Past, Places
    <3>3. Owns(g, more, E, P)
      BY <2>2, <3>1, Freeze
    <3> QED
      BY <2>3, <2>6, <2>7, <3>1, <3>2, <3>3, SegmentMaps
  <2>11. SegmentInPlace(y, root, s)
    BY <2>2, <2>3, <2>6, <2>7, SegmentMapsOrFull
  <2>12. ASSUME NEW j \in 1..i PROVE SegmentInPlace(y, root, prog.segments[j])
    <3>1. PICK z : z = prog.segments[j]
      OBVIOUS
    <3>2. j \in DOMAIN prog.segments /\ j # i + 1
      BY <1>3
    <3>3. IsSegment(z) /\ PagesOf(z) \in SUBSET Nat /\ Apart(PagesOf(z), PagesOf(s))
      BY <2>4, <2>5, <3>1, <3>2, SegmentsApart
    <3>4. SegmentInPlace(g, root, z)
      BY <2>1, <3>1
    <3>5. PICK T \in SUBSET Nat : T = PagesOf(s)
      BY <2>6
    <3> QED
      BY <2>2, <2>3, <2>10, <3>1, <3>3, <3>4, <3>5, SegmentStays
  <2>13. Mapping(q, y)
    BY <1>1, <2>2, <2>9, KeptMore DEF Mapping
  <2>14. \A j \in 1..(i + 1) : SegmentInPlace(y, root, prog.segments[j])
    <3>1. \A j \in 1..(i + 1) : j = i + 1 \/ j \in 1..i
      OBVIOUS
    <3> QED
      BY <2>5, <2>11, <2>12, <3>1
  <2> QED
    BY <1>1, <2>8, <2>13, <2>14 DEF SegmentsSoFar, LoadLoop!At
<1>6. SegmentsSoFar(LoadLoop!At(q, n), LoadLoop!Looped(q, h, n))
  BY <1>4, <1>5, LoadLoop!LoopReaches
<1> QED
  BY <1>1, <1>2, <1>3, <1>6 DEF SegmentsSoFar, LoadLoop!At, SegmentsInPlace

-----------------------------------------------------------------------------
(* What stays in place *)

\* What the address space at root maps of S is still there, and there is no
\* more room than there was.
Untouched(h, g, root, S) ==
    /\ \A v \in S : pte_valid(last_entry(h, root, v)) => last_entry(g, root, v) = last_entry(h, root, v)
    /\ \A n \in Nat : Room(g, n) => Room(h, n)

InPlace(h, E, root, prog) ==
    /\ KernelInPlace(h, E, root)
    /\ SegmentsInPlace(h, root, prog)
    /\ PagesInPlace(h, root, StackPages, USER_STACK_PAGES, StackFlags)

\* The three parts of an address space stay in place.
LEMMA KernelStays ==
    ASSUME NEW E \in Nat, KERNEL_TEXT + 3 <= E, NEW h, NEW g, NEW root, KernelInPlace(h, E, root),
           Untouched(h, g, root, KernelPages(E))
    PROVE  KernelInPlace(g, E, root)
<1> SUFFICES ASSUME NEW i \in 1..3 PROVE PartInPlace(g, root, KernelParts(E)[i])
  BY DEF KernelInPlace
<1>1. PICK x : x = KernelParts(E)[i]
  OBVIOUS
<1>2. IsPart(x, E) /\ PartInPlace(h, root, x)
  BY <1>1, PartsAre DEF KernelInPlace
<1>3. x.from..(x.to - 1) \subseteq KernelPages(E)
  BY <1>2, Sizes DEF IsPart, KernelPages
<1>4. "V" \in x.flags /\ 1 \in Nat
  BY <1>2 DEF IsPart
<1> QED
  BY <1>1, <1>2, <1>3, <1>4, PartStaysInPlace DEF Untouched

LEMMA SegmentsStay ==
    ASSUME NEW prog \in Programs, NEW h, NEW g, NEW root, SegmentsInPlace(h, root, prog),
           \A i \in DOMAIN prog.segments : Untouched(h, g, root, PagesOf(prog.segments[i]))
    PROVE  SegmentsInPlace(g, root, prog)
<1> SUFFICES ASSUME NEW i \in DOMAIN prog.segments PROVE SegmentInPlace(g, root, prog.segments[i])
  BY DEF SegmentsInPlace
<1>1. PICK s : s = prog.segments[i]
  OBVIOUS
<1>2. IsSegment(s) /\ SegmentInPlace(h, root, s) /\ Untouched(h, g, root, PagesOf(s))
  BY <1>1, MemoryAssumption DEF SegmentsInPlace
<1>3. PICK n \in Nat : n = Cardinality(PagesOf(s))
  BY <1>2, CountPages
<1>4. PICK S : S = PagesOf(s)
  OBVIOUS
<1> QED
  BY <1>1, <1>2, <1>3, <1>4, PagesStayInPlace DEF SegmentInPlace, Untouched

LEMMA StaysInPlace ==
    ASSUME NEW E \in Nat, KERNEL_TEXT + 3 <= E, NEW prog \in Programs, NEW h, NEW g, NEW root,
           InPlace(h, E, root, prog), Untouched(h, g, root, Nat)
    PROVE  InPlace(g, E, root, prog)
<1>1. \A S \in SUBSET Nat : Untouched(h, g, root, S)
  BY DEF Untouched
<1>2. KernelInPlace(g, E, root)
  BY <1>1, PagesAreNumbers, KernelStays DEF InPlace
<1>3. SegmentsInPlace(g, root, prog)
  BY <1>1, PagesAreNumbers, SegmentsStay DEF InPlace
<1>4. PagesInPlace(g, root, StackPages, USER_STACK_PAGES, StackFlags)
  <2>1. Untouched(h, g, root, StackPages) /\ USER_STACK_PAGES \in Nat
    BY <1>1, PagesAreNumbers, MemoryAssumption
  <2> QED
    BY <2>1, PagesStayInPlace DEF InPlace, Untouched
<1> QED
  BY <1>2, <1>3, <1>4 DEF InPlace

LEMMA MapsTouch ==
    ASSUME NEW h, NEW own, NEW E, NEW F, Owns(h, own, E, F), NEW p \in Nat, NEW root \in DOMAIN own,
           own[root] = <<p>>, NEW S \in SUBSET Nat, NEW T \in SUBSET Nat, Apart(S, T),
           NEW g, Kept(g, own, E, Past(h, own, Places(p, T)))
    PROVE  Untouched(h, g, root, S)
<1>1. /\ \A v \in S : pte_valid(last_entry(h, root, v)) => last_entry(g, root, v) = last_entry(h, root, v)
      /\ \A n \in Nat : Room(g, n) => Room(h, n)
  BY EntriesStay
<1> QED
  BY <1>1 DEF Untouched

LEMMA OpenPlaces ==
    ASSUME NEW h, NEW own, NEW p, NEW S, NEW T, S \subseteq T
    PROVE  Open(Past(h, own, Places(p, T)), p, S)
  BY DEF Open, Past, Places

\* A new address space has all of it, or there is no more room for what it lacks.
LEMMA NewSpaceIsComplete ==
    ASSUME NEW h, NEW own, NEW E \in MemoryEnds, NEW F, Owns(h, own, E, F), NEW p \in Nat,
           NEW prog \in Programs, Open(F, p, Nat), NEW n, n = NewSpace(h, prog), n.at # NULL
    PROVE  InPlace(n.heap, E, n.at, prog)
<1>1. PICK s : s = as_create(h)
  OBVIOUS
<1>2. PICK own1 : /\ Owns(s.heap, own1, E, F) /\ Extends(own1, own)
                  /\ s.at # NULL => s.at \in DOMAIN own1 /\ own1[s.at] = <<p>>
  <2>1. Got(s, own, <<p>>, E, F)
    BY <1>1, SpaceIsCreated
  <2> QED
    BY <2>1 DEF Got
<1>3. n = LoadInto(s, prog)
  BY <1>1 DEF NewSpace
<1>4. s.at # NULL /\ prog.entry # NULL
  <2>1. s.at # NULL
    BY <1>3 DEF LoadInto
  <2>2. prog.entry # NULL
    BY <1>3, <2>1 DEF LoadInto, Taken
  <2> QED
    BY <2>1, <2>2
<1>5. PICK g1 : g1 = map_kernel_to_user(s.heap, s.at)
  OBVIOUS
<1>6. PICK g2 : g2 = elf_load(g1, s.at, prog)
  OBVIOUS
<1>7. PICK g3 : g3 = map_stack(g2, s.at)
  OBVIOUS
<1>8. n.heap = g3 /\ n.at = s.at
  <2>1. n = Taken(g3, s.at)
    BY <1>3, <1>4, <1>5, <1>6, <1>7 DEF LoadInto
  <2> QED
    BY <2>1 DEF Taken
<1>9. PICK K : K = KernelPages(E)
  OBVIOUS
<1>10. PICK T : T = UNION {PagesOf(prog.segments[i]) : i \in DOMAIN prog.segments}
  OBVIOUS
<1>11. /\ \A i \in DOMAIN prog.segments : PagesOf(prog.segments[i]) \subseteq T
       /\ \A v \in T : \E i \in DOMAIN prog.segments : v \in PagesOf(prog.segments[i])
  BY <1>10
<1>12. /\ E \in Nat /\ KERNEL_TEXT + 3 <= E /\ K \in SUBSET Nat /\ StackPages \in SUBSET Nat
       /\ T \in SUBSET Nat
  <2>1. E \in Nat /\ KERNEL_TEXT + 3 <= E
    BY HeapEnds DEF Owns
  <2> QED
    BY <1>9, <1>11, <2>1, PagesAreNumbers
<1>13. /\ Distinct(K) /\ Apart(K, StackPages) /\ Apart(K, T)
       /\ \A i \in DOMAIN prog.segments : Apart(PagesOf(prog.segments[i]), StackPages)
  <2>1. Distinct(K) /\ Apart(K, StackPages)
    BY <1>9, ApartAssumption
  <2>2. \A i \in DOMAIN prog.segments : /\ Apart(PagesOf(prog.segments[i]), StackPages)
                                        /\ Apart(K, PagesOf(prog.segments[i]))
    BY <1>4, <1>9, SegmentsApart
  <2>3. Apart(K, T)
    BY <1>11, <2>2 DEF Apart
  <2> QED
    BY <2>1, <2>2, <2>3
<1>14. /\ Open(F, p, K) /\ Open(F, p, StackPages)
       /\ \A i \in DOMAIN prog.segments : Open(F, p, PagesOf(prog.segments[i]))
  BY <1>11, <1>12 DEF Open
<1>15. KernelInPlace(g1, E, s.at)
  BY <1>2, <1>4, <1>5, <1>9, <1>13, <1>14, KernelMapsOrFull
<1>16. PICK own2 : Owns(g1, own2, E, F) /\ Extends(own2, own1)
  BY <1>2, <1>4, <1>5, <1>9, <1>14, KernelMaps DEF Kept
<1>17. s.at \in DOMAIN own2 /\ own2[s.at] = <<p>>
  BY <1>2, <1>4, <1>16 DEF Extends
<1>18. SegmentsInPlace(g2, s.at, prog)
  BY <1>4, <1>6, <1>14, <1>16, <1>17, ProgramLoadsOrFull
<1>19. Kept(g2, own2, E, Past(g1, own2, Places(p, T)))
  <2>1. PICK P : P = Past(g1, own2, Places(p, T))
    OBVIOUS
  <2>2. Owns(g1, own2, E, P)
    BY <1>16, <2>1, Freeze
  <2>3. \A i \in DOMAIN prog.segments : Open(P, p, PagesOf(prog.segments[i]))
    BY <1>11, <2>1, OpenPlaces
  <2> QED
    BY <1>6, <1>17, <2>1, <2>2, <2>3, ProgramIsLoaded
<1>20. KernelInPlace(g2, E, s.at)
  <2>1. Untouched(g1, g2, s.at, K)
    BY <1>12, <1>13, <1>16, <1>17, <1>19, MapsTouch
  <2> QED
    BY <1>9, <1>12, <1>15, <2>1, KernelStays
<1>21. PICK own3 : Owns(g2, own3, E, F) /\ Extends(own3, own2)
  BY <1>6, <1>14, <1>16, <1>17, ProgramIsLoaded DEF Kept
<1>22. s.at \in DOMAIN own3 /\ own3[s.at] = <<p>>
  BY <1>17, <1>21 DEF Extends
<1>23. PagesInPlace(g3, s.at, StackPages, USER_STACK_PAGES, StackFlags)
  BY <1>7, <1>14, <1>21, <1>22, StackMapsOrFull
<1>24. Kept(g3, own3, E, Past(g2, own3, Places(p, StackPages)))
  <2>1. PICK P : P = Past(g2, own3, Places(p, StackPages))
    OBVIOUS
  <2>2. Owns(g2, own3, E, P)
    BY <1>21, <2>1, Freeze
  <2>3. Open(P, p, StackPages)
    BY <2>1, OpenPlaces
  <2> QED
    BY <1>7, <1>22, <2>1, <2>2, <2>3, StackMaps
<1>25. \A S \in SUBSET Nat : Apart(S, StackPages) => Untouched(g2, g3, s.at, S)
  BY <1>12, <1>21, <1>22, <1>24, MapsTouch
<1>26. KernelInPlace(g3, E, s.at)
  BY <1>9, <1>12, <1>13, <1>20, <1>25, KernelStays
<1>27. SegmentsInPlace(g3, s.at, prog)
  BY <1>13, <1>18, <1>25, PagesAreNumbers, SegmentsStay
<1> QED
  BY <1>8, <1>23, <1>26, <1>27 DEF InPlace

-----------------------------------------------------------------------------
(* Other address spaces *)

\* Nothing but an address space of its own, numbered m, is written in.
LEMMA OthersUntouched ==
    ASSUME NEW h, NEW own, NEW E, NEW F, Owns(h, own, E, F), NEW p \in Nat, NEW root \in DOMAIN own,
           own[root] = <<p>>, NEW m \in Nat, m # p, NEW g, NEW more,
           Owns(g, more, E, Past(h, own, Places(m, Nat)))
    PROVE  Untouched(h, g, root, Nat)
<1>1. PICK open : open = Places(m, Nat)
  OBVIOUS
<1>2. Held(g, more, Past(h, own, open)) /\ IsHeap(g, E) /\ IsHeap(h, E)
  BY <1>1 DEF Owns
<1>3. \A path \in open : Len(path) = LEVELS + 1
  BY <1>1, PlacesAre
<1>4. \A v \in Nat, x \in Nat : page_path(x, v) \in Seq(Int) /\ page_path(x, v)[1] = x
  <2>1. ASSUME NEW v \in Nat, NEW x \in Nat PROVE page_path(x, v) \in Seq(Int) /\ page_path(x, v)[1] = x
    <3>1. PICK c, k : c = table_path(x, v) /\ k = vpn_index(v, 2)
      OBVIOUS
    <3>2. c \in Seq(Int) /\ Len(c) = 3 /\ c[1] = x /\ k \in Int
      <4>1. k \in Int
        BY <2>1, <3>1, IndexIs, PageAssumption
      <4> QED
        BY <2>1, <3>1, <4>1, PagePath DEF LEVELS
    <3>3. PICK d : d = Append(c, k)
      OBVIOUS
    <3>4. d \in Seq(Int) /\ \A i \in 1..Len(c) : d[i] = c[i]
      BY <3>2, <3>3, Appended, Zenon
    <3>5. d = page_path(x, v)
      BY <3>1, <3>3 DEF page_path
    <3> QED
      BY <3>2, <3>4, <3>5
  <2> QED
    BY <2>1
<1>5. ASSUME NEW v \in Nat, page_path(p, v) \in open PROVE FALSE
  <2>1. PICK w \in Nat : page_path(p, v) = page_path(m, w)
    BY <1>1, <1>5 DEF Places
  <2>2. page_path(p, v)[1] = p /\ page_path(m, w)[1] = m
    BY <1>4
  <2> QED
    BY <2>1, <2>2
<1>6. ASSUME NEW v \in Nat, pte_valid(last_entry(h, root, v))
      PROVE  last_entry(g, root, v) = last_entry(h, root, v)
  <2>1. page_path(p, v) \notin open
    BY <1>5
  <2> QED
    BY <1>2, <1>3, <1>6, <2>1, Stays
<1>7. ASSUME NEW n \in Nat, Room(g, n) PROVE Room(h, n)
  <2>1. h.current <= g.current /\ n <= n
    BY <1>2 DEF Held, Past
  <2> QED
    BY <1>2, <1>7, <2>1, RoomShrinks
<1> QED
  BY <1>6, <1>7 DEF Untouched

\* Nothing is written in at all.
LEMMA AllUntouched ==
    ASSUME NEW h, NEW own, NEW E, NEW F, Owns(h, own, E, F), NEW p \in Nat, NEW root \in DOMAIN own,
           own[root] = <<p>>, NEW g, NEW more, Owns(g, more, E, Past(h, own, {}))
    PROVE  Untouched(h, g, root, Nat)
<1>2. Held(g, more, Past(h, own, {})) /\ IsHeap(g, E) /\ IsHeap(h, E)
  BY DEF Owns
<1>6. ASSUME NEW v \in Nat, pte_valid(last_entry(h, root, v))
      PROVE  last_entry(g, root, v) = last_entry(h, root, v)
  <2>1. PICK open : open = {}
    OBVIOUS
  <2>2. (\A path \in open : Len(path) = LEVELS + 1) /\ page_path(p, v) \notin open
    BY <2>1
  <2> QED
    BY <1>2, <1>6, <2>1, <2>2, Stays
<1>7. ASSUME NEW n \in Nat, Room(g, n) PROVE Room(h, n)
  <2>1. h.current <= g.current /\ n <= n
    BY <1>2 DEF Held, Past
  <2> QED
    BY <1>2, <1>7, <2>1, RoomShrinks
<1> QED
  BY <1>6, <1>7 DEF Untouched

-----------------------------------------------------------------------------
(* What a clone has *)

\* The clone of a last entry: a copy's, or the same.
Alike(a, b) == IF "U" \in a.flags THEN b.flags = a.flags /\ b.ppn \in Nat \ {0} ELSE b = a

\* Entry i of table src in h, and of its clone dst in g, at each level; the
\* whole tables.
Entry2Of(h, src, g, dst, i) == pte_valid(h.mem[src][i]) => Alike(h.mem[src][i], g.mem[dst][i])
Clone2Of(h, src, g, dst) == \A i \in 0..(PTE_PER_PAGE - 1) : Entry2Of(h, src, g, dst, i)
Entry1Of(h, src, g, dst, i) ==
    \A t : Leads(h, src, i, t) => \E u : Leads(g, dst, i, u) /\ Clone2Of(h, t, g, u)
Clone1Of(h, src, g, dst) == \A i \in 0..(PTE_PER_PAGE - 1) : Entry1Of(h, src, g, dst, i)
Entry0Of(h, src, g, dst, i) ==
    \A t : Leads(h, src, i, t) => \E u : Leads(g, dst, i, u) /\ Clone1Of(h, t, g, u)
Clone0Of(h, src, g, dst) == \A i \in 0..(PTE_PER_PAGE - 1) : Entry0Of(h, src, g, dst, i)

\* A table no entry of which may change.
Shut(open, path) == \A i \in 0..(PTE_PER_PAGE - 1) : Append(path, i) \notin open

Table(own, t) == t \in DOMAIN own /\ Len(own[t]) <= LEVELS

LEMMA EntryStays ==
    ASSUME NEW h, NEW own, NEW open, NEW g, NEW more, Held(g, more, Past(h, own, open)),
           NEW t, Table(own, t), NEW i \in 0..(PTE_PER_PAGE - 1), Append(own[t], i) \notin open,
           pte_valid(h.mem[t][i])
    PROVE  g.mem[t][i] = h.mem[t][i]
  BY DEF Held, Past, Table

LEMMA LeadsStay ==
    ASSUME NEW h, NEW own, NEW open, NEW g, NEW more, Held(g, more, Past(h, own, open)),
           NEW t, Table(own, t), NEW i \in 0..(PTE_PER_PAGE - 1), Append(own[t], i) \notin open,
           NEW u, Leads(h, t, i, u)
    PROVE  Leads(g, t, i, u)
  BY EntryStays DEF Leads

\* The source of a clone stays as it is.
LEMMA Source2Stays ==
    ASSUME NEW h, NEW own, NEW g, NEW more, Held(g, more, Past(h, own, {})), NEW src, Table(own, src),
           NEW x, NEW dst, NEW i \in 0..(PTE_PER_PAGE - 1), Entry2Of(g, src, x, dst, i)
    PROVE  Entry2Of(h, src, x, dst, i)
<1>1. Append(own[src], i) \notin {}
  OBVIOUS
<1> QED
  BY <1>1, EntryStays DEF Entry2Of

LEMMA Sources2Stay ==
    ASSUME NEW h, NEW own, NEW g, NEW more, Held(g, more, Past(h, own, {})), NEW src, Table(own, src),
           NEW x, NEW dst, Clone2Of(g, src, x, dst)
    PROVE  Clone2Of(h, src, x, dst)
  BY Source2Stays DEF Clone2Of

LEMMA Source1Stays ==
    ASSUME NEW h, NEW own, NEW E, NEW F, Owns(h, own, E, F), NEW g, NEW more,
           Held(g, more, Past(h, own, {})), NEW src, Upper(own, src), Len(own[src]) = 2,
           NEW x, NEW dst, NEW i \in 0..(PTE_PER_PAGE - 1), Entry1Of(g, src, x, dst, i)
    PROVE  Entry1Of(h, src, x, dst, i)
<1> SUFFICES ASSUME NEW t, Leads(h, src, i, t)
             PROVE  \E u : Leads(x, dst, i, u) /\ Clone2Of(h, t, x, u)
  BY DEF Entry1Of
<1>1. Child(own, src, i, t)
  BY LeadsToChild
<1>2. Table(own, src) /\ Append(own[src], i) \notin {}
  BY Lengths DEF Upper, Table
<1>3. Table(own, t)
  <2>1. own[src] \in Seq(Int) /\ i \in Int
    BY PageAssumption DEF Owns, Upper
  <2>2. Len(Append(own[src], i)) = Len(own[src]) + 1
    BY <2>1, Appended, Zenon
  <2>3. Len(Append(own[src], i)) <= LEVELS
    BY <2>2 DEF LEVELS
  <2> QED
    BY <1>1, <2>3 DEF Child, Table
<1>4. Leads(g, src, i, t)
  BY <1>2, LeadsStay
<1>5. PICK u : Leads(x, dst, i, u) /\ Clone2Of(g, t, x, u)
  BY <1>4 DEF Entry1Of
<1> QED
  BY <1>3, <1>5, Sources2Stay

LEMMA Sources1Stay ==
    ASSUME NEW h, NEW own, NEW E, NEW F, Owns(h, own, E, F), NEW g, NEW more,
           Held(g, more, Past(h, own, {})), NEW src, Upper(own, src), Len(own[src]) = 2,
           NEW x, NEW dst, Clone1Of(g, src, x, dst)
    PROVE  Clone1Of(h, src, x, dst)
  BY Source1Stays DEF Clone1Of

LEMMA AlikeIsValid ==
    ASSUME NEW a, NEW b, pte_valid(a), Alike(a, b)
    PROVE  pte_valid(b)
  BY DEF Alike, pte_valid

\* And so do the tables that are not open.
LEMMA Clone2Stays ==
    ASSUME NEW h, NEW src, NEW x, NEW own, NEW open, NEW g, NEW more, Held(g, more, Past(x, own, open)),
           NEW u, Table(own, u), Shut(open, own[u]), Clone2Of(h, src, x, u)
    PROVE  Clone2Of(h, src, g, u)
<1> SUFFICES ASSUME NEW i \in 0..(PTE_PER_PAGE - 1), pte_valid(h.mem[src][i])
             PROVE  Alike(h.mem[src][i], g.mem[u][i])
  BY DEF Clone2Of, Entry2Of
<1>1. Alike(h.mem[src][i], x.mem[u][i])
  BY DEF Clone2Of, Entry2Of
<1>2. pte_valid(x.mem[u][i])
  BY <1>1, AlikeIsValid
<1>3. g.mem[u][i] = x.mem[u][i]
  BY <1>2, EntryStays DEF Shut
<1> QED
  BY <1>1, <1>3

\* Paths of different lengths.
LEMMA ShutByLength ==
    ASSUME NEW path \in Seq(Int), NEW open, \A a \in open : Len(a) # Len(path) + 1
    PROVE  Shut(open, path)
<1> SUFFICES ASSUME NEW i \in 0..(PTE_PER_PAGE - 1), Append(path, i) \in open PROVE FALSE
  BY DEF Shut
<1>1. i \in Int
  BY PageAssumption
<1>2. Len(Append(path, i)) = Len(path) + 1
  BY <1>1, Appended, Zenon
<1> QED
  BY <1>2

LEMMA Clone1Stays ==
    ASSUME NEW h, NEW src, NEW x, NEW own, NEW E, NEW F, Owns(x, own, E, F), NEW open, NEW g, NEW more,
           Held(g, more, Past(x, own, open)), NEW u, Upper(own, u), Len(own[u]) = 2,
           \A a \in open : Len(a) = 2, Clone1Of(h, src, x, u)
    PROVE  Clone1Of(h, src, g, u)
<1> SUFFICES ASSUME NEW i \in 0..(PTE_PER_PAGE - 1), NEW t, Leads(h, src, i, t)
             PROVE  \E w : Leads(g, u, i, w) /\ Clone2Of(h, t, g, w)
  BY DEF Clone1Of, Entry1Of
<1>1. PICK w : Leads(x, u, i, w) /\ Clone2Of(h, t, x, w)
  BY DEF Clone1Of, Entry1Of
<1>2. own[u] \in Seq(Int) /\ i \in Int /\ Table(own, u)
  <2>1. u \in DOMAIN own
    BY DEF Upper
  <2>2. own[u] \in Seq(Int)
    BY <2>1 DEF Owns
  <2>3. i \in Int
    BY PageAssumption
  <2>4. Len(own[u]) <= LEVELS
    BY DEF LEVELS
  <2> QED
    BY <2>1, <2>2, <2>3, <2>4 DEF Table
<1>3. Child(own, u, i, w)
  <2>1. Leads(x, u, i, w) /\ Upper(own, u)
    BY <1>1
  <2> QED
    BY <2>1, LeadsToChild
<1>4. PICK path : path = Append(own[u], i)
  OBVIOUS
<1>5. path \in Seq(Int) /\ Len(path) = Len(own[u]) + 1
  BY <1>2, <1>4, Appended, Zenon
<1>6. w \in DOMAIN own /\ own[w] = path /\ Len(path) = 3
  BY <1>3, <1>4, <1>5 DEF Child
<1>7. Table(own, w)
  BY <1>6 DEF Table, LEVELS
<1>8. Shut(open, own[u]) /\ Shut(open, own[w])
  <2>1. \A a \in open : Len(a) # Len(own[u]) + 1
    OBVIOUS
  <2>2. \A a \in open : Len(a) # Len(path) + 1
    BY <1>6
  <2> QED
    BY <1>2, <1>5, <1>6, <2>1, <2>2, ShutByLength
<1>9. Leads(g, u, i, w)
  BY <1>1, <1>2, <1>8, LeadsStay DEF Shut
<1>10. Clone2Of(h, t, g, w)
  BY <1>1, <1>7, <1>8, Clone2Stays
<1> QED
  BY <1>9, <1>10

\* The entry e can be put in the clone c; what an entry of the clone is once it is put.
CanPut(c, e, E) == IsHeap(e.heap, E) /\ c.at \in KERNEL_TEXT..(E - 1)

LEMMA PutIs ==
    ASSUME NEW c, NEW E, NEW e, CanPut(c, e, E),
           NEW i \in 0..(PTE_PER_PAGE - 1), NEW x, x = put_entry(c, i, e), x.at # NULL
    PROVE  e.pte # NoEntry /\ x.at = c.at /\ x.heap.mem[c.at][i] = e.pte
<1>1. e.pte # NoEntry /\ x.at = c.at
  BY DEF put_entry, Taken
<1>2. x.heap = [e.heap EXCEPT !.mem[c.at][i] = e.pte]
  BY <1>1 DEF put_entry, Taken
<1>3. /\ e.heap \in [current : Nat, end : Nat, mem : [KERNEL_TEXT..(E - 1) -> Page]]
      /\ e.heap.mem[c.at] \in [0..(PTE_PER_PAGE - 1) -> Words] /\ c.at \in KERNEL_TEXT..(E - 1)
  BY DEF CanPut, IsHeap, Page
<1>4. x.heap.mem = [e.heap.mem EXCEPT ![c.at] = [e.heap.mem[c.at] EXCEPT ![i] = e.pte]]
  BY <1>2, <1>3
<1> QED
  BY <1>1, <1>3, <1>4

LEMMA LeafIsAlike ==
    ASSUME NEW h, NEW own, NEW E, NEW F, Owns(h, own, E, F), NEW pte \in Words,
           "U" \in pte.flags => pte.ppn \in DOMAIN own, NEW e, e = clone_leaf(h, pte)
    PROVE  IsHeap(e.heap, E) /\ (e.pte # NoEntry => Alike(pte, e.pte))
<1>1. CASE "U" \notin pte.flags
  <2>1. e.heap = h /\ e.pte = pte
    BY <1>1 DEF clone_leaf, Cloned
  <2> QED
    BY <1>1, <2>1 DEF Alike, Owns
<1>2. CASE "U" \in pte.flags
  <2>1. PICK page : page = alloc_page(h)
    OBVIOUS
  <2>2. e = copied_page(page, pte)
    BY <1>2, <2>1 DEF clone_leaf
  <2>3. IsPath(<<0>>)
    BY DEF IsPath, LEVELS
  <2>4. PICK more : /\ Owns(page.heap, more, E, F) /\ Extends(more, own)
                    /\ page.at # NULL => page.at \in DOMAIN more
    BY <2>1, <2>3, AllocPage DEF Got
  <2>5. CASE page.at = NULL
    BY <2>2, <2>4, <2>5 DEF copied_page, Cloned, Owns
  <2>6. CASE page.at # NULL
    <3>1. page.at \in Nat \ {0} /\ IsHeap(page.heap, E)
      BY <2>4, <2>6, OwnedPages DEF NULL, Owns
    <3>2. PICK copy \in Page : copy = page.heap.mem[pte.ppn]
      <4>1. pte.ppn \in DOMAIN more
        BY <1>2, <2>4 DEF Extends
      <4> QED
        BY <2>4, <4>1, OwnedPages
    <3>3. e.heap = [page.heap EXCEPT !.mem[page.at] = copy] /\ e.pte = make_pte(page.at, pte.flags)
      BY <2>2, <2>6, <3>2 DEF copied_page, Cloned
    <3>4. IsHeap(e.heap, E)
      <4>1. page.heap \in [current : Nat, end : Nat, mem : [KERNEL_TEXT..(E - 1) -> Page]]
        BY <3>1 DEF IsHeap
      <4>2. e.heap.mem = [page.heap.mem EXCEPT ![page.at] = copy] /\ e.heap = [page.heap EXCEPT !.mem = e.heap.mem]
        BY <3>3, <4>1
      <4>3. e.heap.mem \in [KERNEL_TEXT..(E - 1) -> Page]
        BY <4>1, <4>2
      <4> QED
        BY <3>1, <4>1, <4>2, <4>3 DEF IsHeap
    <3> QED
      BY <1>2, <3>1, <3>3, <3>4 DEF Alike, make_pte
  <2> QED
    BY <2>5, <2>6
<1> QED
  BY <1>1, <1>2

\* Entry i of the table src, of the last level.
Lowest(own, src, i) == src \in DOMAIN own /\ Len(own[src]) = LEVELS /\ i \in 0..(PTE_PER_PAGE - 1)

\* The step of each level.
LEMMA Entry2IsAlike ==
    ASSUME NEW c, NEW own, NEW E, NEW F, Owns(c.heap, own, E, F), NEW src, NEW i,
           Lowest(own, src, i), c.at \in DOMAIN own, NEW q, q.src = src, NEW x, x = CloneStep2(q, c, i), x.at # NULL
    PROVE  x.at = c.at /\ Entry2Of(c.heap, src, x.heap, c.at, i)
<1>1. PICK pte : pte = c.heap.mem[src][i]
  OBVIOUS
<1>2. x = clone_entry(c, i, pte, left_out)
  BY <1>1 DEF CloneStep2
<1>3. CASE ~pte_valid(pte)
  <2>1. x = c
    BY <1>2, <1>3 DEF clone_entry
  <2> QED
    BY <1>1, <1>3, <2>1 DEF Entry2Of
<1>4. CASE pte_valid(pte)
  <2>1. src \in DOMAIN own /\ Len(own[src]) = LEVELS /\ Len(own[src]) <= LEVELS
        /\ i \in 0..(PTE_PER_PAGE - 1)
    BY DEF LEVELS, Lowest
  <2>2. pte \in Words /\ Fits(own, E, own[src], i, pte)
    BY <1>1, <2>1, Source
  <2>3. pte_is_leaf(pte) /\ ("U" \in pte.flags => pte.ppn \in DOMAIN own)
    BY <1>4, <2>1, <2>2 DEF Fits, Inner
  <2>4. c.at # NULL /\ c.at \in KERNEL_TEXT..(E - 1)
    BY OwnedPages
  <2>5. PICK e : e = clone_leaf(c.heap, pte)
    OBVIOUS
  <2>6. x = put_entry(c, i, e)
    BY <1>2, <1>4, <2>3, <2>4, <2>5 DEF clone_entry
  <2>7. IsHeap(e.heap, E) /\ (e.pte # NoEntry => Alike(pte, e.pte))
    BY <2>2, <2>3, <2>5, LeafIsAlike
  <2>8. e.pte # NoEntry /\ x.at = c.at /\ x.heap.mem[c.at][i] = e.pte
    <3>1. CanPut(c, e, E)
      BY <2>4, <2>7 DEF CanPut
    <3> QED
      BY <2>1, <2>6, <3>1, PutIs
  <2> QED
    BY <1>1, <2>7, <2>8 DEF Entry2Of
<1> QED
  BY <1>3, <1>4

IsAlike2(c, src, x, i) == x.at # NULL => x.at = c.at /\ Entry2Of(c.heap, src, x.heap, c.at, i)

LEMMA Step2IsAlike ==
    ASSUME NEW c, NEW own, NEW E, NEW F, Owns(c.heap, own, E, F), NEW src, NEW i,
           Lowest(own, src, i), c.at \in DOMAIN own, NEW q, q.src = src
    PROVE  IsAlike2(c, src, CloneStep2(q, c, i), i)
  BY Entry2IsAlike DEF IsAlike2

\* What the clone has after some steps.
SoFar2(a, c) ==
    LET q == a.of
    IN  /\ Cloning(q, c)
        /\ c.at # NULL => \A j \in 0..(a.step - 1) : Entry2Of(q.heap, q.src, c.heap, c.at, j)
CopyLoop2 == INSTANCE FoldInduction WITH op <- CloneStep2, Keep <- SoFar2

\* A step of cloning opens one place.
LEMMA OnePlaceOpens ==
    ASSUME NEW h, NEW own, NEW E, NEW F, Owns(h, own, E, F), NEW t, Table(own, t),
           NEW path, own[t] = path, NEW i \in 0..(PTE_PER_PAGE - 1), NEW open, open = {Append(path, i)},
           NEW P, P = Past(h, own, open)
    PROVE  /\ Owns(h, own, E, P) /\ Writable(P, t, i)
           /\ \A j \in 0..(PTE_PER_PAGE - 1) : j # i => Append(path, j) \notin open
           /\ \A a \in open : Len(a) = Len(path) + 1
<1>1. Owns(h, own, E, P)
  BY Freeze
<1>2. Writable(P, t, i)
  BY DEF Writable, Past
<1>3. own[t] \in Seq(Int) /\ PTE_PER_PAGE \in Nat
  <2>1. t \in DOMAIN own
    BY DEF Table
  <2> QED
    BY <2>1, PageAssumption DEF Owns
<1>4. PICK s \in Seq(Int) : s = own[t]
  BY <1>3
<1>5. \A j \in Int : Len(Append(s, j)) = Len(s) + 1 /\ Append(s, j)[Len(s) + 1] = j
  BY Appended
<1>6. \A j \in Int : j # i => Append(s, j) # Append(s, i)
  <2>1. i \in Int
    BY <1>3
  <2> QED
    BY <1>5, <2>1
<1>7. \A j \in 0..(PTE_PER_PAGE - 1) : j \in Int
  BY <1>3
<1> QED
  BY <1>1, <1>2, <1>4, <1>5, <1>6, <1>7

-----------------------------------------------------------------------------
LEMMA Copied2 ==
    ASSUME NEW h, NEW src, NEW q, q.src = src
    PROVE  clone_level_2(h, src) = CopyLoop2!Looped(q, alloc_page(h), PTE_PER_PAGE)
  BY DEF clone_level_2, clone_table, Loop, CopyLoop2!Looped, CopyLoop2!IsLoop, CloneStep2

\* The last tables: each loop copies the entries one after the other, and what it
\* has copied stays.
LEMMA Level2IsAlike ==
    ASSUME NEW h, NEW own, NEW E, NEW F, Owns(h, own, E, F), NEW src \in DOMAIN own, NEW to,
           IsPath(own[src]), IsPath(to), Len(own[src]) = LEVELS, SamePlace(own[src], to),
           NEW d, d = clone_level_2(h, src), d.at # NULL
    PROVE  Clone2Of(h, src, d.heap, d.at)
<1>1. PICK F0 : F0 = Past(h, own, {})
  OBVIOUS
<1>2. PICK q : q = [src |-> src, own |-> own, to |-> to, E |-> E, F |-> F0, heap |-> h]
  OBVIOUS
<1>3. PICK dst : dst = alloc_page(h)
  OBVIOUS
<1>4. d = CopyLoop2!Looped(q, dst, PTE_PER_PAGE)
  BY <1>2, <1>3, Copied2
<1>5. SoFar2(CopyLoop2!At(q, 0), dst)
  <2>1. Owns(h, own, E, F0)
    BY <1>1, Freeze
  <2>2. Cloning(q, dst)
    BY <1>2, <1>3, <2>1, AllocPage DEF Cloning
  <2> QED
    BY <2>2 DEF SoFar2, CopyLoop2!At
<1>6. Table(own, src) /\ Len(to) = LEVELS /\ to \in Seq(Int)
  <2>1. LEVELS \in 1..LEVELS
    BY DEF LEVELS
  <2>2. Len(own[src]) <= LEVELS /\ Len(to) = LEVELS
    BY <2>1, Depth
  <2> QED
    BY <2>2 DEF Table, IsPath
<1>7. ASSUME NEW i \in 0..(PTE_PER_PAGE - 1), NEW c, SoFar2(CopyLoop2!At(q, i), c)
      PROVE  SoFar2(CopyLoop2!At(q, i + 1), CloneStep2(q, c, i))
  <2>1. Cloning(q, c) /\ (c.at # NULL => \A j \in 0..(i - 1) : Entry2Of(h, src, c.heap, c.at, j))
    BY <1>2, <1>7 DEF SoFar2, CopyLoop2!At
  <2>2. PICK x : x = CloneStep2(q, c, i)
    OBVIOUS
  <2>3. x.at \in {NULL, c.at} /\ (c.at = NULL => x = c)
    BY <2>2, PutsAt DEF CloneStep2, clone_entry, left_out
  <2>4. CASE c.at = NULL
    BY <1>2, <2>1, <2>2, <2>3, <2>4 DEF SoFar2, CopyLoop2!At
  <2>5. CASE c.at # NULL
    <3>1. PICK more : /\ Owns(c.heap, more, E, F0) /\ Extends(more, own)
                      /\ c.at \in DOMAIN more /\ more[c.at] = to /\ c.at \notin DOMAIN own
      BY <1>2, <2>1, <2>5 DEF Cloning, Got, Fresh
    <3>2. src \in DOMAIN more /\ more[src] = own[src]
      BY <3>1 DEF Extends
    <3>3. Writable(F0, c.at, i)
      BY <1>1, <3>1 DEF Writable, Past
    <3>4. q.src = src /\ IsPath(more[src]) /\ Len(more[src]) = LEVELS /\ SamePlace(more[src], to)
      BY <1>2, <3>2
    <3>5. Got(x, more, to, E, F0)
      BY <2>2, <3>1, <3>2, <3>3, <3>4, Entry2IsCloned
    <3>6. Cloning(q, x)
      BY <1>2, <2>1, <2>3, <3>1, <3>5, GotMore DEF Cloning, Fresh
    <3>7. ASSUME x.at # NULL PROVE x.at = c.at /\ Entry2Of(c.heap, src, x.heap, c.at, i)
      <4>1. Lowest(more, src, i)
        BY <3>1, <3>2, <3>4 DEF Lowest
      <4>2. Owns(c.heap, more, E, F0) /\ c.at \in DOMAIN more
        BY <3>1
      <4>3. q.src = src
        BY <2>2, <3>4
      <4>4. IsAlike2(c, src, CloneStep2(q, c, i), i)
        BY <4>1, <4>2, <4>3, Step2IsAlike
      <4> QED
        BY <2>2, <3>7, <4>4 DEF IsAlike2
    <3>8. ASSUME x.at # NULL, NEW j \in 0..i PROVE Entry2Of(h, src, x.heap, x.at, j)
      <4>1. x.at = c.at /\ Entry2Of(c.heap, src, x.heap, c.at, i)
        BY <3>8, <3>7
      <4>2. Held(c.heap, more, Past(h, own, {}))
        BY <1>1, <3>1 DEF Owns
      <4>3. CASE j = i
        BY <1>6, <4>1, <4>2, <4>3, Source2Stays
      <4>4. CASE j # i
        <5>1. j \in 0..(i - 1) /\ j \in 0..(PTE_PER_PAGE - 1)
          BY <4>4, PageAssumption
        <5>2. Entry2Of(h, src, c.heap, c.at, j)
          BY <2>1, <2>5, <5>1
        <5>3. PICK open : open = {Append(to, i)}
          OBVIOUS
        <5>4. PICK P : P = Past(c.heap, more, open)
          OBVIOUS
        <5>5. Table(more, c.at)
          BY <1>6, <3>1 DEF Table, LEVELS
        <5>6. Owns(c.heap, more, E, P) /\ Writable(P, c.at, i)
          BY <3>1, <5>3, <5>4, <5>5, OnePlaceOpens
        <5>7. Append(to, j) \notin open /\ \A a \in open : Len(a) = LEVELS + 1
          <6>1. /\ \A k \in 0..(PTE_PER_PAGE - 1) : k # i => Append(to, k) \notin open
                /\ \A a \in open : Len(a) = Len(to) + 1
            BY <3>1, <5>3, <5>4, <5>5, OnePlaceOpens
          <6> QED
            BY <1>6, <4>4, <5>1, <6>1
        <5>8. PICK last : Held(x.heap, last, P)
          <6>1. Got(x, more, to, E, P)
            BY <2>2, <3>1, <3>2, <3>4, <5>6, Entry2IsCloned
          <6> QED
            BY <6>1 DEF Got, Owns
        <5>9. ASSUME pte_valid(h.mem[src][j]) PROVE Alike(h.mem[src][j], x.heap.mem[c.at][j])
          <6>1. Alike(h.mem[src][j], c.heap.mem[c.at][j])
            BY <5>2, <5>9 DEF Entry2Of
          <6>2. pte_valid(c.heap.mem[c.at][j])
            BY <5>9, <6>1, AlikeIsValid
          <6>3. Append(more[c.at], j) \notin open
            BY <3>1, <5>7
          <6>4. x.heap.mem[c.at][j] = c.heap.mem[c.at][j]
            BY <5>1, <5>4, <5>5, <5>8, <6>2, <6>3, EntryStays
          <6> QED
            BY <6>1, <6>4
        <5> QED
          BY <4>1, <5>9 DEF Entry2Of
      <4> QED
        BY <4>3, <4>4
    <3>9. x.at # NULL => \A j \in 0..(i + 1 - 1) : Entry2Of(h, src, x.heap, x.at, j)
      <4>1. i + 1 - 1 = i
        OBVIOUS
      <4> QED
        BY <3>8, <4>1
    <3> QED
      BY <1>2, <2>2, <3>6, <3>9 DEF SoFar2, CopyLoop2!At
  <2> QED
    BY <2>4, <2>5
<1>8. SoFar2(CopyLoop2!At(q, PTE_PER_PAGE), d)
  BY <1>4, <1>5, <1>7, CopyLoop2!LoopReaches, PageAssumption
<1> QED
  BY <1>2, <1>8 DEF SoFar2, CopyLoop2!At, Clone2Of

IsNext(path, to, i) == path = Append(to, i)
Linked(x, c, i, table, path, E, F) ==
    \E more, last : /\ Owns(table.heap, more, E, F) /\ table.at # NULL
                     /\ table.at \in DOMAIN more /\ more[table.at] = path
                     /\ x.at = c.at /\ Leads(x.heap, c.at, i, table.at)
                     /\ Held(x.heap, last, Past(table.heap, more, {path}))

\* A table that was cloned and linked.
LEMMA LinkIs ==
    ASSUME NEW c, NEW own, NEW E, NEW F, Owns(c.heap, own, E, F), NEW to, IsPath(to), Len(to) < LEVELS,
           c.at \in DOMAIN own, own[c.at] = to, NEW i \in 0..(PTE_PER_PAGE - 1), NEW pte \in Words,
           pte_valid(pte), ~pte_is_leaf(pte), NEW path, IsNext(path, to, i),
           NEW table, Got(table, own, path, E, F),
           NEW x, x = put_entry(c, i, linked_table(table, pte)), x.at # NULL
    PROVE  Linked(x, c, i, table, path, E, F)
<1>1. PICK e : e = linked_table(table, pte)
  OBVIOUS
<1>2. e.heap = table.heap /\ (table.at = NULL => e.pte = NoEntry)
      /\ (table.at # NULL => e.pte = make_pte(table.at, pte.flags))
  BY <1>1 DEF linked_table, Cloned
<1>3. PICK more : /\ Owns(table.heap, more, E, F) /\ Extends(more, own)
                  /\ table.at # NULL => table.at \in DOMAIN more /\ more[table.at] = path
  BY DEF Got
<1>4. c.at \in DOMAIN more /\ more[c.at] = to
  BY <1>3 DEF Extends
<1>5. CanPut(c, e, E)
  BY <1>2, <1>3, <1>4, OwnedPages DEF Owns, CanPut
<1>6. e.pte # NoEntry /\ x.at = c.at /\ x.heap.mem[c.at][i] = e.pte
  <2>1. x = put_entry(c, i, e)
    BY <1>1
  <2> QED
    BY <1>5, <2>1, PutIs
<1>7. table.at # NULL /\ e.pte = make_pte(table.at, pte.flags)
  BY <1>2, <1>6
<1>8. Leads(x.heap, c.at, i, table.at)
  BY <1>6, <1>7 DEF Leads, make_pte, pte_valid, pte_is_leaf
<1>9. PICK P : P = Past(table.heap, more, {path})
  OBVIOUS
<1>10. Owns(table.heap, more, E, P) /\ Writable(P, c.at, i)
  <2>1. Table(more, c.at)
    <3>1. Len(to) <= LEVELS
      BY Lengths DEF IsPath
    <3> QED
      BY <1>4, <3>1 DEF Table
  <2> QED
    BY <1>3, <1>4, <1>9, <2>1, OnePlaceOpens DEF IsNext
<1>11. Got(table, more, Append(to, i), E, P)
  BY <1>3, <1>10 DEF Got, Extends, IsNext
<1>12. Got(x, more, to, E, P)
  BY <1>4, <1>10, <1>11, TableIsLinked
<1>13. PICK last : Held(x.heap, last, P)
  BY <1>12 DEF Got, Owns
<1> QED
  BY <1>3, <1>6, <1>7, <1>8, <1>9, <1>13 DEF Linked

Copying1(own, c, src, to, i) ==
    /\ src \in DOMAIN own /\ IsPath(own[src]) /\ IsPath(to) /\ Len(own[src]) = 2
    /\ SamePlace(own[src], to) /\ c.at \in DOMAIN own /\ own[c.at] = to
    /\ i \in 0..(PTE_PER_PAGE - 1)

LEMMA Entry1IsAlike ==
    ASSUME NEW c, NEW own, NEW E, NEW F, Owns(c.heap, own, E, F), NEW src \in DOMAIN own, NEW to,
           IsPath(own[src]), IsPath(to), Len(own[src]) = 2, SamePlace(own[src], to),
           c.at \in DOMAIN own, own[c.at] = to, NEW i \in 0..(PTE_PER_PAGE - 1),
           NEW q, q.src = src, NEW x, x = CloneStep1(q, c, i), x.at # NULL
    PROVE  x.at = c.at /\ Entry1Of(c.heap, src, x.heap, c.at, i)
<1>1. Len(own[src]) <= LEVELS /\ Len(own[src]) < LEVELS /\ Len(to) < LEVELS /\ Len(to) = 2
  <2>1. 2 \in 1..LEVELS /\ 2 < LEVELS
    BY DEF LEVELS
  <2> QED
    BY <2>1, Depth, ZenonT(60)
<1>2. PICK pte : pte = c.heap.mem[src][i]
  OBVIOUS
<1>3. x = clone_entry(c, i, pte, inner_1)
  BY <1>2 DEF CloneStep1
<1>4. pte \in Words /\ Fits(own, E, own[src], i, pte)
  BY <1>1, <1>2, Source
<1>5. CASE ~pte_valid(pte)
  <2>1. x = c
    BY <1>3, <1>5 DEF clone_entry
  <2> QED
    BY <1>2, <1>5, <2>1 DEF Entry1Of, Leads
<1>6. CASE pte_valid(pte)
  <2>0. c.at # NULL
    BY OwnedPages
  <2>1. ~pte_is_leaf(pte)
    BY <1>4, <1>6 DEF Fits, LEVELS
  <2>2. PICK t : t = pte.ppn
    OBVIOUS
  <2>3. PICK table : table = clone_level_2(c.heap, t)
    OBVIOUS
  <2>4. x = put_entry(c, i, linked_table(table, pte))
    BY <1>3, <1>6, <2>0, <2>1, <2>2, <2>3 DEF clone_entry, inner_1
  <2>5. t \in DOMAIN own /\ own[t] = Append(own[src], i)
    BY <1>4, <1>6, <2>1, <2>2 DEF Fits, Inner
  <2>6. PICK path : path = Append(to, i)
    OBVIOUS
  <2>7. /\ IsPath(Append(own[src], i)) /\ IsPath(path)
        /\ SamePlace(Append(own[src], i), path)
        /\ Len(Append(own[src], i)) = Len(own[src]) + 1
    BY <1>1, <2>6, PlacesBelow
  <2>8. IsPath(own[t]) /\ Len(own[t]) = LEVELS /\ SamePlace(own[t], path)
    BY <2>5, <2>7 DEF LEVELS
  <2>9. Got(table, own, path, E, F)
    BY <2>3, <2>5, <2>7, <2>8, Level2IsCloned
  <2>10. PICK more, last : /\ Owns(table.heap, more, E, F) /\ table.at # NULL
                           /\ table.at \in DOMAIN more /\ more[table.at] = path
                           /\ x.at = c.at /\ Leads(x.heap, c.at, i, table.at)
                           /\ Held(x.heap, last, Past(table.heap, more, {path}))
    <3>1. IsNext(path, to, i) /\ Len(to) < LEVELS
      BY <1>1, <2>6 DEF IsNext
    <3>2. Linked(x, c, i, table, path, E, F)
      BY <1>4, <1>6, <2>1, <2>4, <2>9, <3>1, LinkIs
    <3> QED
      BY <3>2 DEF Linked
  <2>11. Clone2Of(c.heap, t, table.heap, table.at)
    BY <2>3, <2>5, <2>7, <2>8, <2>10, Level2IsAlike
  <2>12. Len(path) = 2 + 1 /\ path \in Seq(Int)
    BY <1>1, <2>7, Depth DEF IsPath, SamePlace
  <2>13. Clone2Of(c.heap, t, x.heap, table.at)
    <3>1. PICK open : open = {path}
      OBVIOUS
    <3>2. ASSUME NEW a \in open PROVE Len(a) # Len(path) + 1
      <4>1. a = path /\ Len(path) = 3
        BY <2>12, <3>1
      <4> QED
        BY <4>1
    <3>3. Shut(open, path)
      BY <2>12, <3>2, ShutByLength
    <3>4. Table(more, table.at)
      BY <2>10, <2>12 DEF Table, LEVELS
    <3> QED
      BY <2>10, <2>11, <3>1, <3>3, <3>4, Clone2Stays
  <2>14. \A u : Leads(c.heap, src, i, u) => u = t
    BY <1>2, <2>2 DEF Leads
  <2> QED
    BY <2>10, <2>13, <2>14 DEF Entry1Of
<1> QED
  BY <1>5, <1>6

IsAlike1(c, src, x, i) == x.at # NULL => x.at = c.at /\ Entry1Of(c.heap, src, x.heap, c.at, i)

LEMMA Step1IsAlike ==
    ASSUME NEW c, NEW own, NEW E, NEW F, Owns(c.heap, own, E, F), NEW src, NEW to, NEW i,
           Copying1(own, c, src, to, i), NEW q, q.src = src
    PROVE  IsAlike1(c, src, CloneStep1(q, c, i), i)
<1>1. /\ src \in DOMAIN own /\ IsPath(own[src]) /\ IsPath(to) /\ Len(own[src]) = 2
      /\ SamePlace(own[src], to) /\ c.at \in DOMAIN own /\ own[c.at] = to
      /\ i \in 0..(PTE_PER_PAGE - 1)
  BY DEF Copying1
<1> QED
  BY <1>1, Entry1IsAlike DEF IsAlike1

SoFar1(a, c) ==
    LET q == a.of
    IN  /\ Cloning(q, c)
        /\ c.at # NULL => \A j \in 0..(a.step - 1) : Entry1Of(q.heap, q.src, c.heap, c.at, j)
CopyLoop1 == INSTANCE FoldInduction WITH op <- CloneStep1, Keep <- SoFar1

LEMMA Copied1 ==
    ASSUME NEW h, NEW src, NEW q, q.src = src
    PROVE  clone_level_1(h, src) = CopyLoop1!Looped(q, alloc_page(h), PTE_PER_PAGE)
  BY DEF clone_level_1, clone_table, Loop, CopyLoop1!Looped, CopyLoop1!IsLoop, CloneStep1

\* The tables above them.
LEMMA Level1IsAlike ==
    ASSUME NEW h, NEW own, NEW E, NEW F, Owns(h, own, E, F), NEW src \in DOMAIN own, NEW to,
           IsPath(own[src]), IsPath(to), Len(own[src]) = 2, SamePlace(own[src], to),
           NEW d, d = clone_level_1(h, src), d.at # NULL
    PROVE  Clone1Of(h, src, d.heap, d.at)
<1>1. PICK F0 : F0 = Past(h, own, {})
  OBVIOUS
<1>2. PICK q : q = [src |-> src, own |-> own, to |-> to, E |-> E, F |-> F0, heap |-> h]
  OBVIOUS
<1>3. PICK dst : dst = alloc_page(h)
  OBVIOUS
<1>4. d = CopyLoop1!Looped(q, dst, PTE_PER_PAGE)
  BY <1>2, <1>3, Copied1
<1>5. SoFar1(CopyLoop1!At(q, 0), dst)
  <2>1. Owns(h, own, E, F0)
    BY <1>1, Freeze
  <2>2. Cloning(q, dst)
    BY <1>2, <1>3, <2>1, AllocPage DEF Cloning
  <2> QED
    BY <2>2 DEF SoFar1, CopyLoop1!At
<1>6. Table(own, src) /\ Len(to) = 2 /\ to \in Seq(Int) /\ Upper(own, src) /\ Len(to) < LEVELS /\ Len(own[src]) < LEVELS
  <2>1. 2 \in 1..LEVELS /\ 2 < LEVELS
    BY DEF LEVELS
  <2>2. Len(own[src]) <= LEVELS /\ Len(to) = 2 /\ Len(own[src]) < LEVELS /\ Len(to) < LEVELS
    BY <2>1, Depth
  <2> QED
    BY <2>2 DEF Table, IsPath, Upper
<1>7. ASSUME NEW i \in 0..(PTE_PER_PAGE - 1), NEW c, SoFar1(CopyLoop1!At(q, i), c)
      PROVE  SoFar1(CopyLoop1!At(q, i + 1), CloneStep1(q, c, i))
  <2>1. Cloning(q, c) /\ (c.at # NULL => \A j \in 0..(i - 1) : Entry1Of(h, src, c.heap, c.at, j))
    BY <1>2, <1>7 DEF SoFar1, CopyLoop1!At
  <2>2. PICK x : x = CloneStep1(q, c, i)
    OBVIOUS
  <2>3. x.at \in {NULL, c.at} /\ (c.at = NULL => x = c)
    BY <2>2, PutsAt DEF CloneStep1, clone_entry, inner_1
  <2>4. CASE c.at = NULL
    BY <1>2, <2>1, <2>2, <2>3, <2>4 DEF SoFar1, CopyLoop1!At
  <2>5. CASE c.at # NULL
    <3>1. PICK more : /\ Owns(c.heap, more, E, F0) /\ Extends(more, own)
                      /\ c.at \in DOMAIN more /\ more[c.at] = to /\ c.at \notin DOMAIN own
      BY <1>2, <2>1, <2>5 DEF Cloning, Got, Fresh
    <3>2. src \in DOMAIN more /\ more[src] = own[src]
      BY <3>1 DEF Extends
    <3>3. Writable(F0, c.at, i)
      BY <1>1, <3>1 DEF Writable, Past
    <3>4. q.src = src /\ IsPath(more[src]) /\ Len(more[src]) = 2 /\ SamePlace(more[src], to)
      BY <1>2, <3>2
    <3>5. Got(x, more, to, E, F0)
      BY <2>2, <3>1, <3>2, <3>3, <3>4, Entry1IsCloned
    <3>6. Cloning(q, x)
      BY <1>2, <2>1, <2>3, <3>1, <3>5, GotMore DEF Cloning, Fresh
    <3>7. ASSUME x.at # NULL PROVE x.at = c.at /\ Entry1Of(c.heap, src, x.heap, c.at, i)
      <4>1. Copying1(more, c, src, to, i)
        BY <3>1, <3>2, <3>4 DEF Copying1
      <4>2. Owns(c.heap, more, E, F0) /\ c.at \in DOMAIN more
        BY <3>1
      <4>3. q.src = src
        BY <2>2, <3>4
      <4>4. IsAlike1(c, src, CloneStep1(q, c, i), i)
        BY <4>1, <4>2, <4>3, Step1IsAlike
      <4> QED
        BY <2>2, <3>7, <4>4 DEF IsAlike1
    <3>8. ASSUME x.at # NULL, NEW j \in 0..i PROVE Entry1Of(h, src, x.heap, x.at, j)
      <4>1. x.at = c.at /\ Entry1Of(c.heap, src, x.heap, c.at, i)
        BY <3>8, <3>7
      <4>2. Held(c.heap, more, Past(h, own, {}))
        BY <1>1, <3>1 DEF Owns
      <4>3. CASE j = i
        BY <1>6, <4>1, <4>2, <4>3, Source1Stays
      <4>4. CASE j # i
        <5>1. j \in 0..(i - 1) /\ j \in 0..(PTE_PER_PAGE - 1)
          BY <4>4, PageAssumption
        <5>2. Entry1Of(h, src, c.heap, c.at, j)
          BY <2>1, <2>5, <5>1
        <5>3. PICK open : open = {Append(to, i)}
          OBVIOUS
        <5>4. PICK P : P = Past(c.heap, more, open)
          OBVIOUS
        <5>5. Table(more, c.at)
          BY <1>6, <3>1 DEF Table, LEVELS
        <5>6. Owns(c.heap, more, E, P) /\ Writable(P, c.at, i)
          BY <3>1, <5>3, <5>4, <5>5, OnePlaceOpens
        <5>7. Append(to, j) \notin open /\ \A a \in open : Len(a) = 2 + 1
          <6>1. /\ \A k \in 0..(PTE_PER_PAGE - 1) : k # i => Append(to, k) \notin open
                /\ \A a \in open : Len(a) = Len(to) + 1
            BY <3>1, <5>3, <5>4, <5>5, OnePlaceOpens
          <6> QED
            BY <1>6, <4>4, <5>1, <6>1
        <5>8. PICK last : Held(x.heap, last, P)
          <6>1. Got(x, more, to, E, P)
            BY <2>2, <3>1, <3>2, <3>4, <5>6, Entry1IsCloned
          <6> QED
            BY <6>1 DEF Got, Owns
        <5>9. ASSUME NEW t, Leads(h, src, j, t)
              PROVE  \E u : Leads(x.heap, c.at, j, u) /\ Clone2Of(h, t, x.heap, u)
          <6>1. PICK u : Leads(c.heap, c.at, j, u) /\ Clone2Of(h, t, c.heap, u)
            BY <5>2, <5>9 DEF Entry1Of
          <6>2. Append(more[c.at], j) \notin open
            BY <3>1, <5>7
          <6>3. Leads(x.heap, c.at, j, u)
            BY <5>1, <5>4, <5>5, <5>8, <6>1, <6>2, LeadsStay
          <6>4. PICK path : path = Append(to, j)
            OBVIOUS
          <6>5. Child(more, c.at, j, u)
            <7>1. Upper(more, c.at)
              BY <1>6, <3>1 DEF Upper
            <7> QED
              BY <3>1, <5>1, <6>1, <7>1, LeadsToChild
          <6>6. u \in DOMAIN more /\ more[u] = path
            BY <3>1, <6>4, <6>5 DEF Child
          <6>7. path \in Seq(Int) /\ Len(path) = 2 + 1
            <7>1. j \in Int
              BY <5>1, PageAssumption
            <7>2. path \in Seq(Int) /\ Len(path) = Len(to) + 1
              BY <1>6, <6>4, <7>1, Appended, Zenon
            <7> QED
              BY <1>6, <7>2
          <6>8. Clone2Of(h, t, x.heap, u)
            <7>1. ASSUME NEW a \in open PROVE Len(a) # Len(path) + 1
              <8>1. Len(a) = 3 /\ Len(path) = 3
                BY <5>7, <6>7
              <8> QED
                BY <8>1
            <7>2. Shut(open, more[u])
              BY <6>6, <6>7, <7>1, ShutByLength
            <7>3. Table(more, u)
              BY <6>6, <6>7 DEF Table, LEVELS
            <7> QED
              BY <5>4, <5>8, <6>1, <7>2, <7>3, Clone2Stays
          <6> QED
            BY <6>3, <6>8
        <5> QED
          BY <4>1, <5>9 DEF Entry1Of
      <4> QED
        BY <4>3, <4>4
    <3>9. x.at # NULL => \A j \in 0..(i + 1 - 1) : Entry1Of(h, src, x.heap, x.at, j)
      <4>1. i + 1 - 1 = i
        OBVIOUS
      <4> QED
        BY <3>8, <4>1
    <3> QED
      BY <1>2, <2>2, <3>6, <3>9 DEF SoFar1, CopyLoop1!At
  <2> QED
    BY <2>4, <2>5
<1>8. SoFar1(CopyLoop1!At(q, PTE_PER_PAGE), d)
  BY <1>4, <1>5, <1>7, CopyLoop1!LoopReaches, PageAssumption
<1> QED
  BY <1>2, <1>8 DEF SoFar1, CopyLoop1!At, Clone1Of

LEMMA Source0Stays ==
    ASSUME NEW h, NEW own, NEW E, NEW F, Owns(h, own, E, F), NEW g, NEW more,
           Held(g, more, Past(h, own, {})), NEW src, Upper(own, src), Len(own[src]) = 1,
           NEW x, NEW dst, NEW i \in 0..(PTE_PER_PAGE - 1), Entry0Of(g, src, x, dst, i)
    PROVE  Entry0Of(h, src, x, dst, i)
<1> SUFFICES ASSUME NEW t, Leads(h, src, i, t)
             PROVE  \E u : Leads(x, dst, i, u) /\ Clone1Of(h, t, x, u)
  BY DEF Entry0Of
<1>1. Child(own, src, i, t)
  BY LeadsToChild
<1>2. Table(own, src) /\ Append(own[src], i) \notin {}
  BY Lengths DEF Upper, Table
<1>3. Upper(own, t) /\ Len(own[t]) = 2
  <2>1. own[src] \in Seq(Int) /\ i \in Int
    BY PageAssumption DEF Owns, Upper
  <2>2. Len(Append(own[src], i)) = Len(own[src]) + 1
    BY <2>1, Appended, Zenon
  <2>3. Len(Append(own[src], i)) = 2
    BY <2>2
  <2>4. Len(own[t]) = 2 /\ t \in DOMAIN own
    BY <1>1, <2>3 DEF Child
  <2> QED
    BY <2>4, Lengths DEF Upper
<1>4. Leads(g, src, i, t)
  BY <1>2, LeadsStay
<1>5. PICK u : Leads(x, dst, i, u) /\ Clone1Of(g, t, x, u)
  BY <1>4 DEF Entry0Of
<1> QED
  BY <1>3, <1>5, Sources1Stay

Copying0(own, c, src, to, i) ==
    /\ src \in DOMAIN own /\ IsPath(own[src]) /\ IsPath(to) /\ Len(own[src]) = 1
    /\ SamePlace(own[src], to) /\ c.at \in DOMAIN own /\ own[c.at] = to
    /\ i \in 0..(PTE_PER_PAGE - 1)

LEMMA Entry0IsAlike ==
    ASSUME NEW c, NEW own, NEW E, NEW F, Owns(c.heap, own, E, F), NEW src \in DOMAIN own, NEW to,
           IsPath(own[src]), IsPath(to), Len(own[src]) = 1, SamePlace(own[src], to),
           c.at \in DOMAIN own, own[c.at] = to, NEW i \in 0..(PTE_PER_PAGE - 1),
           NEW q, q.src = src, NEW x, x = CloneStep0(q, c, i), x.at # NULL
    PROVE  x.at = c.at /\ Entry0Of(c.heap, src, x.heap, c.at, i)
<1>1. Len(own[src]) <= LEVELS /\ Len(own[src]) < LEVELS /\ Len(to) < LEVELS /\ Len(to) = 1
  <2>1. 1 \in 1..LEVELS /\ 1 < LEVELS
    BY DEF LEVELS
  <2> QED
    BY <2>1, Depth, ZenonT(60)
<1>2. PICK pte : pte = c.heap.mem[src][i]
  OBVIOUS
<1>3. x = clone_entry(c, i, pte, inner_0)
  BY <1>2 DEF CloneStep0
<1>4. pte \in Words /\ Fits(own, E, own[src], i, pte)
  BY <1>1, <1>2, Source
<1>5. CASE ~pte_valid(pte)
  <2>1. x = c
    BY <1>3, <1>5 DEF clone_entry
  <2> QED
    BY <1>2, <1>5, <2>1 DEF Entry0Of, Leads
<1>6. CASE pte_valid(pte)
  <2>0. c.at # NULL
    BY OwnedPages
  <2>1. ~pte_is_leaf(pte)
    BY <1>4, <1>6 DEF Fits, LEVELS
  <2>2. PICK t : t = pte.ppn
    OBVIOUS
  <2>3. PICK table : table = clone_level_1(c.heap, t)
    OBVIOUS
  <2>4. x = put_entry(c, i, linked_table(table, pte))
    BY <1>3, <1>6, <2>0, <2>1, <2>2, <2>3 DEF clone_entry, inner_0
  <2>5. t \in DOMAIN own /\ own[t] = Append(own[src], i)
    BY <1>4, <1>6, <2>1, <2>2 DEF Fits, Inner
  <2>6. PICK path : path = Append(to, i)
    OBVIOUS
  <2>7. /\ IsPath(Append(own[src], i)) /\ IsPath(path)
        /\ SamePlace(Append(own[src], i), path)
        /\ Len(Append(own[src], i)) = Len(own[src]) + 1
    BY <1>1, <2>6, PlacesBelow
  <2>8. IsPath(own[t]) /\ Len(own[t]) = 2 /\ SamePlace(own[t], path)
    BY <2>5, <2>7 DEF LEVELS
  <2>9. Got(table, own, path, E, F)
    BY <2>3, <2>5, <2>7, <2>8, Level1IsCloned
  <2>10. PICK more, last : /\ Owns(table.heap, more, E, F) /\ table.at # NULL
                           /\ table.at \in DOMAIN more /\ more[table.at] = path
                           /\ x.at = c.at /\ Leads(x.heap, c.at, i, table.at)
                           /\ Held(x.heap, last, Past(table.heap, more, {path}))
    <3>1. IsNext(path, to, i) /\ Len(to) < LEVELS
      BY <1>1, <2>6 DEF IsNext
    <3>2. Linked(x, c, i, table, path, E, F)
      BY <1>4, <1>6, <2>1, <2>4, <2>9, <3>1, LinkIs
    <3> QED
      BY <3>2 DEF Linked
  <2>11. Clone1Of(c.heap, t, table.heap, table.at)
    BY <2>3, <2>5, <2>7, <2>8, <2>10, Level1IsAlike
  <2>12. Len(path) = 1 + 1 /\ path \in Seq(Int)
    BY <1>1, <2>7, Depth DEF IsPath, SamePlace
  <2>13. Clone1Of(c.heap, t, x.heap, table.at)
    <3>1. PICK open : open = {path}
      OBVIOUS
    <3>2. \A a \in open : Len(a) = 2
      BY <2>12, <3>1
    <3>3. Upper(more, table.at) /\ Len(more[table.at]) = 2
      BY <2>10, <2>12 DEF Upper, LEVELS
    <3> QED
      BY <2>10, <2>11, <3>1, <3>2, <3>3, Clone1Stays
  <2>14. \A u : Leads(c.heap, src, i, u) => u = t
    BY <1>2, <2>2 DEF Leads
  <2> QED
    BY <2>10, <2>13, <2>14 DEF Entry0Of
<1> QED
  BY <1>5, <1>6

IsAlike0(c, src, x, i) == x.at # NULL => x.at = c.at /\ Entry0Of(c.heap, src, x.heap, c.at, i)

LEMMA Step0IsAlike ==
    ASSUME NEW c, NEW own, NEW E, NEW F, Owns(c.heap, own, E, F), NEW src, NEW to, NEW i,
           Copying0(own, c, src, to, i), NEW q, q.src = src
    PROVE  IsAlike0(c, src, CloneStep0(q, c, i), i)
<1>1. /\ src \in DOMAIN own /\ IsPath(own[src]) /\ IsPath(to) /\ Len(own[src]) = 1
      /\ SamePlace(own[src], to) /\ c.at \in DOMAIN own /\ own[c.at] = to
      /\ i \in 0..(PTE_PER_PAGE - 1)
  BY DEF Copying0
<1> QED
  BY <1>1, Entry0IsAlike DEF IsAlike0

SoFar0(a, c) ==
    LET q == a.of
    IN  /\ Cloning(q, c)
        /\ c.at # NULL => \A j \in 0..(a.step - 1) : Entry0Of(q.heap, q.src, c.heap, c.at, j)
CopyLoop0 == INSTANCE FoldInduction WITH op <- CloneStep0, Keep <- SoFar0

LEMMA Copied0 ==
    ASSUME NEW h, NEW src, NEW q, q.src = src
    PROVE  clone_page_table(h, src) = CopyLoop0!Looped(q, alloc_page(h), PTE_PER_PAGE)
  BY DEF clone_page_table, clone_table, Loop, CopyLoop0!Looped, CopyLoop0!IsLoop, CloneStep0

\* The root.
LEMMA Level0IsAlike ==
    ASSUME NEW h, NEW own, NEW E, NEW F, Owns(h, own, E, F), NEW src \in DOMAIN own, NEW to,
           IsPath(own[src]), IsPath(to), Len(own[src]) = 1, SamePlace(own[src], to),
           NEW d, d = clone_page_table(h, src), d.at # NULL
    PROVE  Clone0Of(h, src, d.heap, d.at)
<1>1. PICK F0 : F0 = Past(h, own, {})
  OBVIOUS
<1>2. PICK q : q = [src |-> src, own |-> own, to |-> to, E |-> E, F |-> F0, heap |-> h]
  OBVIOUS
<1>3. PICK dst : dst = alloc_page(h)
  OBVIOUS
<1>4. d = CopyLoop0!Looped(q, dst, PTE_PER_PAGE)
  BY <1>2, <1>3, Copied0
<1>5. SoFar0(CopyLoop0!At(q, 0), dst)
  <2>1. Owns(h, own, E, F0)
    BY <1>1, Freeze
  <2>2. Cloning(q, dst)
    BY <1>2, <1>3, <2>1, AllocPage DEF Cloning
  <2> QED
    BY <2>2 DEF SoFar0, CopyLoop0!At
<1>6. Table(own, src) /\ Len(to) = 1 /\ to \in Seq(Int) /\ Upper(own, src) /\ Len(to) < LEVELS /\ Len(own[src]) < LEVELS
  <2>1. 1 \in 1..LEVELS /\ 1 < LEVELS
    BY DEF LEVELS
  <2>2. Len(own[src]) <= LEVELS /\ Len(to) = 1 /\ Len(own[src]) < LEVELS /\ Len(to) < LEVELS
    BY <2>1, Depth
  <2> QED
    BY <2>2 DEF Table, IsPath, Upper
<1>7. ASSUME NEW i \in 0..(PTE_PER_PAGE - 1), NEW c, SoFar0(CopyLoop0!At(q, i), c)
      PROVE  SoFar0(CopyLoop0!At(q, i + 1), CloneStep0(q, c, i))
  <2>1. Cloning(q, c) /\ (c.at # NULL => \A j \in 0..(i - 1) : Entry0Of(h, src, c.heap, c.at, j))
    BY <1>2, <1>7 DEF SoFar0, CopyLoop0!At
  <2>2. PICK x : x = CloneStep0(q, c, i)
    OBVIOUS
  <2>3. x.at \in {NULL, c.at} /\ (c.at = NULL => x = c)
    BY <2>2, PutsAt DEF CloneStep0, clone_entry, inner_0
  <2>4. CASE c.at = NULL
    BY <1>2, <2>1, <2>2, <2>3, <2>4 DEF SoFar0, CopyLoop0!At
  <2>5. CASE c.at # NULL
    <3>1. PICK more : /\ Owns(c.heap, more, E, F0) /\ Extends(more, own)
                      /\ c.at \in DOMAIN more /\ more[c.at] = to /\ c.at \notin DOMAIN own
      BY <1>2, <2>1, <2>5 DEF Cloning, Got, Fresh
    <3>2. src \in DOMAIN more /\ more[src] = own[src]
      BY <3>1 DEF Extends
    <3>3. Writable(F0, c.at, i)
      BY <1>1, <3>1 DEF Writable, Past
    <3>4. q.src = src /\ IsPath(more[src]) /\ Len(more[src]) = 1 /\ SamePlace(more[src], to)
      BY <1>2, <3>2
    <3>5. Got(x, more, to, E, F0)
      BY <2>2, <3>1, <3>2, <3>3, <3>4, Entry0IsCloned
    <3>6. Cloning(q, x)
      BY <1>2, <2>1, <2>3, <3>1, <3>5, GotMore DEF Cloning, Fresh
    <3>7. ASSUME x.at # NULL PROVE x.at = c.at /\ Entry0Of(c.heap, src, x.heap, c.at, i)
      <4>1. Copying0(more, c, src, to, i)
        BY <3>1, <3>2, <3>4 DEF Copying0
      <4>2. Owns(c.heap, more, E, F0) /\ c.at \in DOMAIN more
        BY <3>1
      <4>3. q.src = src
        BY <2>2, <3>4
      <4>4. IsAlike0(c, src, CloneStep0(q, c, i), i)
        BY <4>1, <4>2, <4>3, Step0IsAlike
      <4> QED
        BY <2>2, <3>7, <4>4 DEF IsAlike0
    <3>8. ASSUME x.at # NULL, NEW j \in 0..i PROVE Entry0Of(h, src, x.heap, x.at, j)
      <4>1. x.at = c.at /\ Entry0Of(c.heap, src, x.heap, c.at, i)
        BY <3>8, <3>7
      <4>2. Held(c.heap, more, Past(h, own, {}))
        BY <1>1, <3>1 DEF Owns
      <4>3. CASE j = i
        BY <1>6, <4>1, <4>2, <4>3, Source0Stays
      <4>4. CASE j # i
        <5>1. j \in 0..(i - 1) /\ j \in 0..(PTE_PER_PAGE - 1)
          BY <4>4, PageAssumption
        <5>2. Entry0Of(h, src, c.heap, c.at, j)
          BY <2>1, <2>5, <5>1
        <5>3. PICK open : open = {Append(to, i)}
          OBVIOUS
        <5>4. PICK P : P = Past(c.heap, more, open)
          OBVIOUS
        <5>5. Table(more, c.at)
          BY <1>6, <3>1 DEF Table, LEVELS
        <5>6. Owns(c.heap, more, E, P) /\ Writable(P, c.at, i)
          BY <3>1, <5>3, <5>4, <5>5, OnePlaceOpens
        <5>7. Append(to, j) \notin open /\ \A a \in open : Len(a) = 1 + 1
          <6>1. /\ \A k \in 0..(PTE_PER_PAGE - 1) : k # i => Append(to, k) \notin open
                /\ \A a \in open : Len(a) = Len(to) + 1
            BY <3>1, <5>3, <5>4, <5>5, OnePlaceOpens
          <6> QED
            BY <1>6, <4>4, <5>1, <6>1
        <5>8. PICK last : Held(x.heap, last, P)
          <6>1. Got(x, more, to, E, P)
            BY <2>2, <3>1, <3>2, <3>4, <5>6, Entry0IsCloned
          <6> QED
            BY <6>1 DEF Got, Owns
        <5>9. ASSUME NEW t, Leads(h, src, j, t)
              PROVE  \E u : Leads(x.heap, c.at, j, u) /\ Clone1Of(h, t, x.heap, u)
          <6>1. PICK u : Leads(c.heap, c.at, j, u) /\ Clone1Of(h, t, c.heap, u)
            BY <5>2, <5>9 DEF Entry0Of
          <6>2. Append(more[c.at], j) \notin open
            BY <3>1, <5>7
          <6>3. Leads(x.heap, c.at, j, u)
            BY <5>1, <5>4, <5>5, <5>8, <6>1, <6>2, LeadsStay
          <6>4. PICK path : path = Append(to, j)
            OBVIOUS
          <6>5. Child(more, c.at, j, u)
            <7>1. Upper(more, c.at)
              BY <1>6, <3>1 DEF Upper
            <7> QED
              BY <3>1, <5>1, <6>1, <7>1, LeadsToChild
          <6>6. u \in DOMAIN more /\ more[u] = path
            BY <3>1, <6>4, <6>5 DEF Child
          <6>7. path \in Seq(Int) /\ Len(path) = 1 + 1
            <7>1. j \in Int
              BY <5>1, PageAssumption
            <7>2. path \in Seq(Int) /\ Len(path) = Len(to) + 1
              BY <1>6, <6>4, <7>1, Appended, Zenon
            <7> QED
              BY <1>6, <7>2
          <6>8. Clone1Of(h, t, x.heap, u)
            <7>1. \A a \in open : Len(a) = 2
              BY <5>7
            <7>2. Upper(more, u) /\ Len(more[u]) = 2
              BY <6>6, <6>7 DEF Upper, LEVELS
            <7> QED
              BY <3>1, <5>4, <5>8, <6>1, <7>1, <7>2, Clone1Stays
          <6> QED
            BY <6>3, <6>8
        <5> QED
          BY <4>1, <5>9 DEF Entry0Of
      <4> QED
        BY <4>3, <4>4
    <3>9. x.at # NULL => \A j \in 0..(i + 1 - 1) : Entry0Of(h, src, x.heap, x.at, j)
      <4>1. i + 1 - 1 = i
        OBVIOUS
      <4> QED
        BY <3>8, <4>1
    <3> QED
      BY <1>2, <2>2, <3>6, <3>9 DEF SoFar0, CopyLoop0!At
  <2> QED
    BY <2>4, <2>5
<1>8. SoFar0(CopyLoop0!At(q, PTE_PER_PAGE), d)
  BY <1>4, <1>5, <1>7, CopyLoop0!LoopReaches, PageAssumption
<1> QED
  BY <1>2, <1>8 DEF SoFar0, CopyLoop0!At, Clone0Of

-----------------------------------------------------------------------------
(* What a clone keeps *)

LEMMA LeadsDown ==
    ASSUME NEW h, NEW root, NEW vpn, NEW t, Leads(h, root, vpn_index(vpn, 0), t),
           NEW u, Leads(h, t, vpn_index(vpn, 1), u)
    PROVE  last_entry(h, root, vpn) = h.mem[u][vpn_index(vpn, 2)]
<1>1. followed(h, h.mem[root][vpn_index(vpn, 0)], vpn, 1) = h.mem[t][vpn_index(vpn, 1)]
  BY DEF Leads, followed
<1>2. followed(h, h.mem[t][vpn_index(vpn, 1)], vpn, 2) = h.mem[u][vpn_index(vpn, 2)]
  BY DEF Leads, followed
<1> QED
  BY <1>1, <1>2 DEF last_entry

\* Each page of the space that was cloned has its like in the clone.
LEMMA CloneIsAlike ==
    ASSUME NEW h, NEW own, NEW E, NEW F, Owns(h, own, E, F), NEW p \in Nat, NEW root \in DOMAIN own,
           own[root] = <<p>>, NEW g, NEW dst, Clone0Of(h, root, g, dst),
           NEW vpn \in Nat, pte_valid(last_entry(h, root, vpn))
    PROVE  Alike(last_entry(h, root, vpn), last_entry(g, dst, vpn))
<1>1. PICK i \in 0..(PTE_PER_PAGE - 1), j \in 0..(PTE_PER_PAGE - 1), k \in 0..(PTE_PER_PAGE - 1) :
        i = vpn_index(vpn, 0) /\ j = vpn_index(vpn, 1) /\ k = vpn_index(vpn, 2)
  BY IndexIs
<1>2. PICK t, u : /\ Leads(h, root, i, t) /\ Leads(h, t, j, u)
                  /\ last_entry(h, root, vpn) = h.mem[u][k]
  BY <1>1, WayDown
<1>3. PICK x : Leads(g, dst, i, x) /\ Clone1Of(h, t, g, x)
  BY <1>2 DEF Clone0Of, Entry0Of
<1>4. PICK y : Leads(g, x, j, y) /\ Clone2Of(h, u, g, y)
  BY <1>2, <1>3 DEF Clone1Of, Entry1Of
<1>5. Alike(h.mem[u][k], g.mem[y][k])
  BY <1>2, <1>4 DEF Clone2Of, Entry2Of
<1>6. last_entry(g, dst, vpn) = g.mem[y][k]
  BY <1>1, <1>3, <1>4, LeadsDown, SMTT(30)
<1> QED
  BY <1>2, <1>5, <1>6

\* The structure that as_clone takes first.
LEMMA StructChangesNothing ==
    ASSUME NEW h, NEW E, IsHeap(h, E), NEW r, r = heap_alloc(h, 1, 1), NEW root, NEW vpn
    PROVE  last_entry(r.heap, root, vpn) = last_entry(h, root, vpn)
<1>1. r.heap.mem = h.mem
  <2>1. h \in [current : Nat, end : Nat, mem : [KERNEL_TEXT..(E - 1) -> Page]]
    BY DEF IsHeap
  <2>2. PICK at : r = take(h, at, 1)
    BY DEF heap_alloc
  <2>3. r.heap = h \/ r.heap = [h EXCEPT !.current = at + 1]
    BY <2>2 DEF take, Taken
  <2> QED
    BY <2>1, <2>3
<1> QED
  BY <1>1, ZenonT(60) DEF last_entry, followed

\* as_clone.
LEMMA SpaceIsAlike ==
    ASSUME NEW h, NEW own, NEW E, NEW F, Owns(h, own, E, F), NEW p \in Nat, NEW root \in DOMAIN own,
           own[root] = <<p>>, NEW c, c = as_clone(h, root), c.at # NULL,
           NEW vpn \in Nat, pte_valid(last_entry(h, root, vpn))
    PROVE  Alike(last_entry(h, root, vpn), last_entry(c.heap, c.at, vpn))
<1>1. PICK r : r = heap_alloc(h, 1, 1)
  OBVIOUS
<1>2. Owns(r.heap, own, E, F)
  BY <1>1, StructIsTaken
<1>3. c = clone_of(r, root)
  BY <1>1 DEF as_clone
<1>4. r.at # NULL
  BY <1>3 DEF clone_of
<1>5. c = clone_page_table(r.heap, root)
  BY <1>3, <1>4 DEF clone_of
<1>6. IsPath(own[root]) /\ Len(own[root]) = 1 /\ SamePlace(own[root], own[root])
  BY DEF IsPath, LEVELS, SamePlace
<1>7. Clone0Of(r.heap, root, c.heap, c.at)
  BY <1>2, <1>5, <1>6, Level0IsAlike
<1>8. last_entry(r.heap, root, vpn) = last_entry(h, root, vpn)
  <2>1. IsHeap(h, E)
    BY DEF Owns
  <2> QED
    BY <1>1, <2>1, StructChangesNothing
<1>9. Alike(last_entry(r.heap, root, vpn), last_entry(c.heap, c.at, vpn))
  BY <1>2, <1>7, <1>8, CloneIsAlike
<1> QED
  BY <1>8, <1>9

\* A clone of the address space at root, at dst.
IsCloneOf(h, root, g, dst) ==
    /\ \A v \in Nat : pte_valid(last_entry(h, root, v)) => Alike(last_entry(h, root, v), last_entry(g, dst, v))
    /\ \A n \in Nat : Room(g, n) => Room(h, n)

LEMMA PagesOfClone ==
    ASSUME NEW h, NEW g, NEW root, NEW dst, IsCloneOf(h, root, g, dst), NEW S \in SUBSET Nat,
           NEW n \in Nat, NEW flags, PagesInPlace(h, root, S, n, flags)
    PROVE  PagesInPlace(g, dst, S, n, flags)
<1> SUFFICES ASSUME Room(g, n), NEW v \in S PROVE Present(last_entry(g, dst, v), flags)
  BY DEF PagesInPlace
<1>1. PICK a : a = last_entry(h, root, v)
  OBVIOUS
<1>2. PICK b : b = last_entry(g, dst, v)
  OBVIOUS
<1>3. Present(a, flags)
  BY <1>1 DEF PagesInPlace, IsCloneOf
<1>4. Alike(a, b)
  <2>1. v \in Nat /\ pte_valid(a)
    BY <1>3 DEF Present
  <2> QED
    BY <1>1, <1>2, <2>1 DEF IsCloneOf
<1>5. Present(b, flags)
  BY <1>3, <1>4 DEF Alike, Present, pte_valid, pte_is_leaf
<1> QED
  BY <1>2, <1>5

LEMMA PartOfClone ==
    ASSUME NEW h, NEW g, NEW root, NEW dst, IsCloneOf(h, root, g, dst), NEW E \in Nat, NEW x, IsPart(x, E),
           PartInPlace(h, root, x)
    PROVE  PartInPlace(g, dst, x)
<1> SUFFICES ASSUME Room(g, 1), NEW v \in x.from..(x.to - 1)
             PROVE  last_entry(g, dst, v) = make_pte(v, x.flags)
  BY DEF PartInPlace
<1>1. v \in Nat /\ 1 \in Nat
  BY DEF IsPart
<1>2. PICK a : a = last_entry(h, root, v)
  OBVIOUS
<1>3. a = make_pte(v, x.flags)
  BY <1>1, <1>2 DEF PartInPlace, IsCloneOf
<1>4. pte_valid(a) /\ "U" \notin a.flags
  BY <1>3 DEF make_pte, pte_valid, IsPart
<1>5. Alike(a, last_entry(g, dst, v))
  BY <1>1, <1>2, <1>4 DEF IsCloneOf
<1> QED
  BY <1>3, <1>4, <1>5 DEF Alike

LEMMA CloneIsInPlace ==
    ASSUME NEW E \in Nat, KERNEL_TEXT + 3 <= E, NEW prog \in Programs, NEW h, NEW g, NEW root, NEW dst,
           InPlace(h, E, root, prog), IsCloneOf(h, root, g, dst)
    PROVE  InPlace(g, E, dst, prog)
<1>1. KernelInPlace(g, E, dst)
  <2> SUFFICES ASSUME NEW i \in 1..3 PROVE PartInPlace(g, dst, KernelParts(E)[i])
    BY DEF KernelInPlace
  <2>1. PICK x : x = KernelParts(E)[i]
    OBVIOUS
  <2>2. IsPart(x, E) /\ PartInPlace(h, root, x)
    BY <2>1, PartsAre DEF InPlace, KernelInPlace
  <2> QED
    BY <2>1, <2>2, PartOfClone
<1>2. ASSUME NEW i \in DOMAIN prog.segments PROVE SegmentInPlace(g, dst, prog.segments[i])
  <2>1. PICK s : s = prog.segments[i]
    OBVIOUS
  <2>2. IsSegment(s) /\ SegmentInPlace(h, root, s)
    BY <2>1, MemoryAssumption DEF InPlace, SegmentsInPlace
  <2>3. PICK n \in Nat : n = Cardinality(PagesOf(s))
    BY <2>2, CountPages
  <2>4. PICK S \in SUBSET Nat : S = PagesOf(s)
    BY <2>1, PagesAreNumbers
  <2> QED
    BY <2>1, <2>2, <2>3, <2>4, PagesOfClone DEF SegmentInPlace
<1>3. PagesInPlace(g, dst, StackPages, USER_STACK_PAGES, StackFlags)
  BY PagesAreNumbers, MemoryAssumption, PagesOfClone DEF InPlace
<1> QED
  BY <1>1, <1>2, <1>3 DEF InPlace, SegmentsInPlace

LEMMA SpaceIsCloneOf ==
    ASSUME NEW h, NEW own, NEW E, NEW F, Owns(h, own, E, F), NEW p \in Nat, NEW root \in DOMAIN own,
           own[root] = <<p>>, NEW c, c = as_clone(h, root), c.at # NULL,
           NEW more, Owns(c.heap, more, E, Past(h, own, {}))
    PROVE  IsCloneOf(h, root, c.heap, c.at)
<1>1. Untouched(h, c.heap, root, Nat)
  BY AllUntouched
<1>2. \A v \in Nat : pte_valid(last_entry(h, root, v)) =>
         Alike(last_entry(h, root, v), last_entry(c.heap, c.at, v))
  BY SpaceIsAlike
<1> QED
  BY <1>1, <1>2 DEF Untouched, IsCloneOf

-----------------------------------------------------------------------------
(* What is in place can be translated *)

LEMMA PresentIsMapped ==
    ASSUME NEW h, NEW root, NEW v \in Nat, NEW flags, Present(last_entry(h, root, v), flags)
    PROVE  Mapped(h, root, v, flags) # NULL
<1>1. PICK n \in Nat \ {0} : n = PAGE_SIZE
  BY Sizes
<1>2. 0 \in 0..(PAGE_SIZE - 1) /\ v * PAGE_SIZE + 0 = v * PAGE_SIZE
  BY <1>1
<1>3. va_vpn(v * PAGE_SIZE) = v /\ va_offset(v * PAGE_SIZE) = 0
  BY <1>2, InPage
<1>4. PICK a \in Nat \ {0} : a = last_entry(h, root, v).ppn
  BY DEF Present
<1>5. Mapped(h, root, v, flags) = a * n + 0
  BY <1>1, <1>3, <1>4 DEF Mapped, as_translate, Present
<1>6. a * n > 0
  BY Z3
<1> QED
  BY <1>5, <1>6 DEF NULL

LEMMA PagesAreMapped ==
    ASSUME NEW h, NEW root, NEW S \in SUBSET Nat, NEW n, NEW flags, PagesInPlace(h, root, S, n, flags),
           Room(h, n)
    PROVE  AreMapped(h, root, S, flags)
  BY PresentIsMapped DEF PagesInPlace, AreMapped

LEMMA PartIsMapped ==
    ASSUME NEW h, NEW root, NEW E \in Nat, NEW x, IsPart(x, E), PartInPlace(h, root, x), Room(h, 1),
           NEW v \in x.from..(x.to - 1)
    PROVE  Mapped(h, root, v, x.flags) = v * PAGE_SIZE
<1>1. PICK n \in Nat \ {0} : n = PAGE_SIZE
  BY Sizes
<1>2. v \in Nat
  BY DEF IsPart
<1>3. 0 \in 0..(PAGE_SIZE - 1) /\ v * PAGE_SIZE + 0 = v * PAGE_SIZE
  BY <1>1, <1>2
<1>4. va_vpn(v * PAGE_SIZE) = v /\ va_offset(v * PAGE_SIZE) = 0
  BY <1>2, <1>3, InPage
<1>5. last_entry(h, root, v) = make_pte(v, x.flags)
  BY DEF PartInPlace
<1>6. Mapped(h, root, v, x.flags) = v * PAGE_SIZE + 0
  BY <1>4, <1>5 DEF Mapped, as_translate, make_pte, pte_valid, pte_is_leaf, IsPart
<1> QED
  BY <1>3, <1>6

\* What is in place is complete.
LEMMA InPlaceIsComplete ==
    ASSUME NEW E, NEW h, IsHeap(h, E), NEW root, NEW prog \in Programs, InPlace(h, E, root, prog)
    PROVE  Complete(h, root, prog)
<1>1. E \in Nat /\ va_vpn(h.end) = E /\ KERNEL_TEXT + 3 <= E
  BY HeapEnds
<1>2. ASSUME Room(h, 1) PROVE KernelIsMapped(h, root)
  <2> SUFFICES ASSUME NEW i \in 1..3, NEW v \in KernelParts(E)[i].from..(KernelParts(E)[i].to - 1)
               PROVE  Mapped(h, root, v, KernelParts(E)[i].flags) = v * PAGE_SIZE
    BY <1>1 DEF KernelIsMapped
  <2>1. PICK x : x = KernelParts(E)[i]
    OBVIOUS
  <2>2. IsPart(x, E) /\ PartInPlace(h, root, x)
    BY <1>1, <2>1, PartsAre DEF InPlace, KernelInPlace
  <2>3. v \in x.from..(x.to - 1)
    BY <2>1
  <2>4. E \in Nat /\ Room(h, 1)
    BY <1>1, <1>2
  <2>5. Mapped(h, root, v, x.flags) = v * PAGE_SIZE
    BY <2>2, <2>3, <2>4, PartIsMapped
  <2> QED
    BY <2>1, <2>5
<1>3. ASSUME Room(h, USER_STACK_PAGES) PROVE AreMapped(h, root, StackPages, StackFlags)
  BY <1>3, PagesAreNumbers, PagesAreMapped DEF InPlace
<1>4. ASSUME NEW i \in DOMAIN prog.segments, Room(h, Cardinality(PagesOf(prog.segments[i])))
      PROVE  AreMapped(h, root, PagesOf(prog.segments[i]), prog.segments[i].flags \cup {"U"})
  <2>1. PICK s : s = prog.segments[i]
    OBVIOUS
  <2>2. SegmentInPlace(h, root, s)
    BY <2>1 DEF InPlace, SegmentsInPlace
  <2>3. PagesOf(s) \in SUBSET Nat
    BY <2>1, PagesAreNumbers
  <2> QED
    BY <1>4, <2>1, <2>2, <2>3, PagesAreMapped DEF SegmentInPlace
<1> QED
  BY <1>2, <1>3, <1>4 DEF Complete

-----------------------------------------------------------------------------
(* What processes lack *)

\* Here an address space is named by when it was made, and not by its process:
\* exec leaves the old one where it is.
Settled(E, own, b, h, root, prog) ==
    /\ root \in DOMAIN own /\ \E n \in 0..(b - 1) : own[root] = <<n>>
    /\ prog \in Programs /\ InPlace(h, E, root, prog)

ProgramsInPlace(E, own, b) ==
    Owns(heap, own, E, None) /\ \A p \in Live : Settled(E, own, b, heap, as[p], program[p])

PlacesInv ==
    /\ program \in [Procs -> Programs \cup {<<>>}]
    /\ \E E \in MemoryEnds, b \in Nat : \E own : ProgramsInPlace(E, own, b)

\* What a step may write in: nothing that is valid, or a new address space.
StepPast(own, b, F) == \E open \in {{}, Places(b, Nat)} : F = Past(heap, own, open)

LEMMA StepForgets ==
    ASSUME NEW E \in MemoryEnds, NEW b \in Nat, NEW own, ProgramsInPlace(E, own, b),
           NEW F, StepPast(own, b, F), NEW g, NEW more, Owns(g, more, E, F)
    PROVE  Owns(g, more, E, None) /\ Extends(more, own)
<1>1. PICK open \in {{}, Places(b, Nat)} : F = Past(heap, own, open)
  BY DEF StepPast
<1>2. open \subseteq None.open
  BY NothingHeld, ZenonT(60) DEF Open, Places
<1>3. Owns(heap, own, E, None)
  BY DEF ProgramsInPlace
<1>4. Owns(g, more, E, Past(heap, own, open))
  BY <1>1
<1>5. Owns(g, more, E, None)
  BY <1>2, <1>3, <1>4, Forget
<1>6. Extends(more, own)
  BY <1>4 DEF Owns, Held, Past
<1> QED
  BY <1>5, <1>6

LEMMA OthersStay ==
    ASSUME NEW E \in MemoryEnds, NEW b \in Nat, NEW own, ProgramsInPlace(E, own, b),
           NEW F, StepPast(own, b, F), NEW g, NEW more, Owns(g, more, E, F), NEW p \in Live
    PROVE  Settled(E, more, b, g, as[p], program[p])
<1>1. Owns(heap, own, E, None) /\ program[p] \in Programs /\ as[p] \in DOMAIN own
      /\ InPlace(heap, E, as[p], program[p])
  BY DEF ProgramsInPlace, Settled
<1>2. PICK n \in 0..(b - 1) : own[as[p]] = <<n>>
  BY DEF ProgramsInPlace, Settled
<1>3. n \in Nat /\ b # n
  OBVIOUS
<1>4. Extends(more, own)
  BY StepForgets
<1>5. PICK root : root = as[p]
  OBVIOUS
<1>6. Untouched(heap, g, root, Nat)
  <2>1. PICK open \in {{}, Places(b, Nat)} : F = Past(heap, own, open)
    BY DEF StepPast
  <2>2. CASE open = {}
    BY <1>1, <1>2, <1>3, <1>5, <2>1, <2>2, AllUntouched
  <2>3. CASE open = Places(b, Nat)
    BY <1>1, <1>2, <1>3, <1>5, <2>1, <2>3, OthersUntouched
  <2> QED
    BY <2>2, <2>3
<1>7. E \in Nat /\ KERNEL_TEXT + 3 <= E
  BY <1>1, HeapEnds DEF Owns
<1>8. InPlace(g, E, root, program[p])
  BY <1>1, <1>5, <1>6, <1>7, StaysInPlace
<1> QED
  BY <1>1, <1>2, <1>4, <1>5, <1>8 DEF Extends, Settled

LEMMA SettlesOnce ==
    ASSUME NEW E, NEW own, NEW b \in Nat, NEW c, c = b + 1, NEW h, NEW root, NEW prog,
           Settled(E, own, b, h, root, prog)
    PROVE  Settled(E, own, c, h, root, prog)
  BY DEF Settled

\* A process gets an address space with all it should have, or none.
LEMMA SpaceSettles ==
    ASSUME as \in [Procs -> Nat], program \in [Procs -> Programs \cup {<<>>}],
           NEW E \in MemoryEnds, NEW b \in Nat, NEW own, ProgramsInPlace(E, own, b),
           NEW F, StepPast(own, b, F), NEW p \in Procs, NEW prog \in Programs,
           NEW n, Got(n, own, <<b>>, E, F), n.at # NULL => InPlace(n.heap, E, n.at, prog),
           heap' = n.heap, as' = [as EXCEPT ![p] = n.at],
           program' = [program EXCEPT ![p] = IF n.at = NULL THEN @ ELSE prog]
    PROVE  PlacesInv'
<1>0. PICK c \in Nat : c = b + 1
  OBVIOUS
<1>1. PICK more : /\ Owns(n.heap, more, E, F) /\ Extends(more, own)
                  /\ n.at # NULL => n.at \in DOMAIN more /\ more[n.at] = <<b>>
  BY DEF Got
<1>2. Owns(n.heap, more, E, None)
  BY <1>1, StepForgets
<1>3. program' \in [Procs -> Programs \cup {<<>>}]
  OBVIOUS
<1>4. ASSUME NEW q \in Live'
      PROVE  Settled(E, more, c, heap', as'[q], program'[q])
  <2>1. q \in Procs /\ as'[q] # NULL
    BY <1>4 DEF Live
  <2>2. CASE q = p
    <3>1. as'[q] = n.at /\ n.at # NULL /\ program'[q] = prog
      BY <2>1, <2>2
    <3>2. b \in 0..(c - 1)
      BY <1>0
    <3> QED
      BY <1>1, <3>1, <3>2 DEF Settled
  <2>3. CASE q # p
    <3>1. as'[q] = as[q] /\ q \in Live /\ program'[q] = program[q]
      BY <2>1, <2>3 DEF Live
    <3>2. Settled(E, more, b, n.heap, as[q], program[q])
      BY <1>1, <3>1, OthersStay
    <3>3. Settled(E, more, c, n.heap, as[q], program[q])
      BY <1>0, <3>2, SettlesOnce
    <3> QED
      BY <3>1, <3>3
  <2> QED
    BY <2>2, <2>3
<1>5. ProgramsInPlace(E, more, c)'
  <2>1. Owns(heap', more, E, None)
    BY <1>2
  <2> QED
    BY <1>4, <2>1 DEF ProgramsInPlace
<1> QED
  BY <1>3, <1>5 DEF PlacesInv

\* The heap changes, and no address space.
LEMMA HeapSettles ==
    ASSUME program \in [Procs -> Programs \cup {<<>>}],
           NEW E \in MemoryEnds, NEW b \in Nat, NEW own, ProgramsInPlace(E, own, b),
           NEW F, StepPast(own, b, F), Kept(heap', own, E, F), as' = as, program' = program
    PROVE  PlacesInv'
<1>1. PICK more : Owns(heap', more, E, F) /\ Extends(more, own)
  BY DEF Kept
<1>2. Owns(heap', more, E, None)
  BY <1>1, StepForgets
<1>3. ASSUME NEW q \in Live
      PROVE  Settled(E, more, b, heap', as[q], program[q])
  BY <1>1, <1>3, OthersStay
<1>4. Live' = Live
  BY DEF Live
<1>5. ProgramsInPlace(E, more, b)'
  BY <1>2, <1>3, <1>4 DEF ProgramsInPlace
<1> QED
  BY <1>5 DEF PlacesInv

LEMMA PlacesInit == Init => PlacesInv
<1> SUFFICES ASSUME Init PROVE PlacesInv
  OBVIOUS
<1>1. PICK E \in MemoryEnds : \E own : Owned(E, own)
  BY MemoryInit DEF MemoryInv
<1>2. PICK own : Owns(heap, own, E, None)
  BY <1>1 DEF Owned
<1>3. Live = {} /\ program = [p \in Procs |-> <<>>]
  BY DEF Init, Live
<1>4. ProgramsInPlace(E, own, 0)
  BY <1>2, <1>3 DEF ProgramsInPlace
<1> QED
  BY <1>3, <1>4 DEF PlacesInv

\* No step takes away what is in place.
LEMMA PlacesNext == MemoryInv /\ PlacesInv /\ [Next]_vars => PlacesInv'
<1> SUFFICES ASSUME MemoryInv, PlacesInv, [Next]_vars PROVE PlacesInv'
  OBVIOUS
<1>1. next_pid \in Nat /\ as \in [Procs -> Nat] /\ satp = as /\ program \in [Procs -> Programs \cup {<<>>}]
  BY DEF MemoryInv, PlacesInv
<1>2. PICK E \in MemoryEnds, b \in Nat : \E own : ProgramsInPlace(E, own, b)
  BY DEF PlacesInv
<1>3. PICK own : ProgramsInPlace(E, own, b)
  BY <1>2
<1>4. Owns(heap, own, E, None)
  BY <1>3 DEF ProgramsInPlace
<1>5. E \in Nat /\ KERNEL_TEXT + 3 <= E
  BY <1>4, HeapEnds DEF Owns
<1>6. next_pid < MAX_PROCS => next_pid \in Procs
  BY <1>1, MemoryAssumption DEF Procs
<1>7. PICK F0 : F0 = Past(heap, own, {})
  OBVIOUS
<1>8. PICK F : F = Past(heap, own, Places(b, Nat))
  OBVIOUS
<1>9. /\ StepPast(own, b, F0) /\ Owns(heap, own, E, F0)
      /\ StepPast(own, b, F) /\ Owns(heap, own, E, F)
  BY <1>4, <1>7, <1>8, Freeze DEF StepPast
<1>10. Open(F, b, Nat)
  BY <1>8, OpenPlaces
<1>11. ASSUME NEW prog \in Programs, Create(prog) PROVE PlacesInv'
  <2>1. PICK n : /\ n = NewSpace(heap, prog) /\ heap' = n.heap
                 /\ as' = [as EXCEPT ![next_pid] = n.at]
                 /\ program' = [program EXCEPT ![next_pid] = IF n.at = NULL THEN @ ELSE prog]
    BY <1>11 DEF Create
  <2>2. next_pid \in Procs
    BY <1>6, <1>11 DEF Create
  <2>3. Got(n, own, <<b>>, E, F)
    BY <1>9, <1>10, <2>1, NewSpaceIsOwned
  <2>4. n.at # NULL => InPlace(n.heap, E, n.at, prog)
    BY <1>9, <1>10, <2>1, NewSpaceIsComplete
  <2> QED
    BY <1>1, <1>3, <1>9, <2>1, <2>2, <2>3, <2>4, SpaceSettles
<1>12. ASSUME Run PROVE PlacesInv'
  <2>1. Kept(heap', own, E, F0)
    BY <1>9, <1>12 DEF Run, Kept, Extends
  <2> QED
    BY <1>1, <1>3, <1>9, <1>12, <2>1, HeapSettles DEF Run
<1>13. ASSUME NEW p \in Procs, Fork(p) PROVE PlacesInv'
  <2>1. PICK c : /\ c = as_clone(heap, as[p]) /\ heap' = c.heap
                 /\ as' = [as EXCEPT ![next_pid] = c.at]
                 /\ program' = [program EXCEPT ![next_pid] = IF c.at = NULL THEN @ ELSE program[p]]
    BY <1>13 DEF Fork
  <2>2. next_pid \in Procs /\ p \in Live
    BY <1>6, <1>13 DEF Fork
  <2>3. PICK root, prog : root = as[p] /\ prog = program[p]
    OBVIOUS
  <2>4. root \in DOMAIN own /\ prog \in Programs /\ InPlace(heap, E, root, prog)
    BY <1>3, <2>2, <2>3 DEF ProgramsInPlace, Settled
  <2>5. PICK m \in Nat : own[root] = <<m>>
    <3>1. PICK m \in 0..(b - 1) : own[root] = <<m>>
      BY <1>3, <2>2, <2>3 DEF ProgramsInPlace, Settled
    <3> QED
      BY <3>1
  <2>6. Got(c, own, <<b>>, E, F0)
    BY <1>9, <2>1, <2>3, <2>4, <2>5, SpaceIsCloned
  <2>7. ASSUME c.at # NULL PROVE InPlace(c.heap, E, c.at, prog)
    <3>1. PICK more : Owns(c.heap, more, E, Past(heap, own, {}))
      BY <1>7, <2>6 DEF Got
    <3>2. IsCloneOf(heap, root, c.heap, c.at)
      BY <1>4, <2>1, <2>3, <2>4, <2>5, <2>7, <3>1, SpaceIsCloneOf
    <3> QED
      BY <1>5, <2>4, <3>2, CloneIsInPlace
  <2> QED
    BY <1>1, <1>3, <1>9, <2>1, <2>2, <2>3, <2>4, <2>6, <2>7, SpaceSettles
<1>14. ASSUME NEW p \in Procs, NEW prog \in Programs, Exec(p, prog) PROVE PlacesInv'
  <2>1. PICK n : /\ n = NewSpace(heap, prog) /\ heap' = n.heap
                 /\ IF n.at = NULL THEN UNCHANGED <<as, satp, program>> ELSE Replace(p, n, prog)
    BY <1>14 DEF Exec
  <2>2. Got(n, own, <<b>>, E, F)
    BY <1>9, <1>10, <2>1, NewSpaceIsOwned
  <2>3. n.at # NULL => InPlace(n.heap, E, n.at, prog)
    BY <1>9, <1>10, <2>1, NewSpaceIsComplete
  <2>4. CASE n.at = NULL
    <3>1. Kept(heap', own, E, F)
      BY <2>1, <2>2 DEF Got, Kept
    <3> QED
      BY <1>1, <1>3, <1>9, <2>1, <2>4, <3>1, HeapSettles
  <2>5. CASE n.at # NULL
    <3>1. /\ as' = [as EXCEPT ![p] = n.at]
          /\ program' = [program EXCEPT ![p] = IF n.at = NULL THEN @ ELSE prog]
      BY <2>1, <2>5 DEF Replace
    <3> QED
      BY <1>1, <1>3, <1>9, <2>1, <2>2, <2>3, <3>1, SpaceSettles
  <2> QED
    BY <2>4, <2>5
<1>15. ASSUME NEW p \in Live, NEW va \in StoreAddresses, NEW w \in Stored, NEW flags,
              Write(as_translate(heap, as[p], va, flags), w)
       PROVE  PlacesInv'
  <2>1. PICK at : at = as_translate(heap, as[p], va, flags)
    OBVIOUS
  <2>2. at # NULL /\ heap' = [heap EXCEPT !.mem[va_vpn(at)][va_offset(at)] = w]
        /\ as' = as /\ program' = program
    BY <1>15, <2>1 DEF Write
  <2>3. PICK m \in 0..(b - 1) : own[as[p]] = <<m>>
    BY <1>3 DEF ProgramsInPlace, Settled
  <2>4. m \in Nat
    OBVIOUS
  <2>5. as[p] \in DOMAIN own
    BY <1>3 DEF ProgramsInPlace, Settled
  <2>6. Owns(heap', own, E, F0)
    BY <1>9, <2>1, <2>2, <2>3, <2>4, <2>5, WritesKeepOwners
  <2>7. Kept(heap', own, E, F0)
    BY <2>6 DEF Kept, Extends
  <2> QED
    BY <1>1, <1>3, <1>9, <2>2, <2>7, HeapSettles
<1>16. ASSUME NEW p \in Procs, NEW va \in StoreAddresses, NEW w \in Stored, ProgramWrites(p, va, w)
       PROVE  PlacesInv'
  BY <1>1, <1>15, <1>16 DEF ProgramWrites
<1>17. ASSUME NEW p \in Procs, NEW va \in StoreAddresses, NEW w \in Stored, CallWrites(p, va, w)
       PROVE  PlacesInv'
  BY <1>15, <1>17 DEF CallWrites
<1>18. ASSUME UNCHANGED vars PROVE PlacesInv'
  <2>1. Kept(heap', own, E, F0)
    BY <1>9, <1>18 DEF vars, Kept, Extends
  <2> QED
    BY <1>1, <1>3, <1>9, <1>18, <2>1, HeapSettles DEF vars
<1> QED
  BY <1>11, <1>12, <1>13, <1>14, <1>16, <1>17, <1>18 DEF Next

\* as_map, as_map_extern, elf_load, as_clone, heap_alloc, for memory of any size
\* and any programs: a process lacks a page of the kernel, a segment or its
\* stack only if the heap has no room left for it.
THEOREM MissingOnlyWhenFull == Spec => []CompleteUnlessFull
<1>1. ASSUME PlacesInv PROVE CompleteUnlessFull
  <2>1. PICK E \in MemoryEnds, b \in Nat : \E own : ProgramsInPlace(E, own, b)
    BY <1>1 DEF PlacesInv
  <2>2. PICK own : ProgramsInPlace(E, own, b)
    BY <2>1
  <2>3. IsHeap(heap, E)
    BY <2>2 DEF ProgramsInPlace, Owns
  <2>4. ASSUME NEW p \in Live PROVE Complete(heap, as[p], program[p])
    <3>1. program[p] \in Programs /\ InPlace(heap, E, as[p], program[p])
      BY <2>2 DEF ProgramsInPlace, Settled
    <3> QED
      BY <2>3, <3>1, InPlaceIsComplete
  <2> QED
    BY <2>4 DEF CompleteUnlessFull
<1> QED
  BY <1>1, MemoryInit, MemoryNext, PlacesInit, PlacesNext, PTL DEF Spec
=============================================================================
