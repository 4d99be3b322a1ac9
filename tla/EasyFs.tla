------------------------------- MODULE EasyFs -------------------------------
(***************************************************************************)
(* easy-fs/easy_fs.c: bitmaps, inodes, the root directory and file handles *)
(* on the block cache.  Every operation is written as the sequence of its  *)
(* cache lookups, loads and stores on a record m of slots and device, since  *)
(* a lookup may take the slot from under a pointer obtained before.        *)
(*                                                                         *)
(* A word stands for a unit of file data, a directory entry and a block    *)
(* number alike: BLOCK_SZ words make a block, an index block included.     *)
(***************************************************************************)
EXTENDS BlockCache, DiskLayout, Integers, Sequences, SequencesExt, FiniteSetsExt

CONSTANTS BLOCK_SZ,             \* words in a block
          INODE_DIRECT_COUNT

ASSUME EasyFsAssumption == BLOCK_SZ \in Nat \ {0} /\ INODE_DIRECT_COUNT \in Nat \ {0}

INODE_INDIRECT1_COUNT == BLOCK_SZ

\* efs_open, on the super block that fs-pack wrote.
fs == efs_open(super_block(TOTAL_BLOCKS))

\* A word: a directory entry, or a block number or data, which has no name.
dir_entry(name, id) == [name |-> name, inode_number |-> id]
Number(n)  == dir_entry("", n)
ZeroBlock  == [i \in 0..(BLOCK_SZ - 1) |-> Number(0)]

\* The first word of block 0: the magic number, and the sizes after it.
SuperBlock  == dir_entry("EFS_MAGIC", 0)
HasMagic(m) == View(m, 0)[0] = SuperBlock
ClearBits  == [i \in 0..(BLOCK_BITS - 1) |-> FALSE]

disk_inode(type) == [size |-> 0, direct |-> [i \in 0..(INODE_DIRECT_COUNT - 1) |-> 0],
                     indirect1 |-> 0, indirect2 |-> 0, type_ |-> type]
InodeBlock == [i \in 0..(INODES_PER_BLOCK - 1) |-> disk_inode("file")]

\* The indices of the loops.  A file has no more words, and a bitmap no more
\* blocks, than the device has words.
MAX_ROUNDS == TOTAL_BLOCKS * BLOCK_SZ
Rounds(n)  == {i \in 1..MAX_ROUNDS : i <= n}
UpTo(n)      == [i \in Rounds(n) |-> i - 1]                \* 0..n-1
FromTo(a, b) == [i \in Rounds(b - a + 1) |-> a + i - 1]

\* A loop.  (A step is applied to the member of a set of one, so that TLC works
\* out what the step before it made.)
Each(op(_, _), base, s) ==
    LET Step(x, k) == CHOOSE y \in {op(z, k) : z \in {x}} : TRUE
    IN  FoldLeft(Step, base, s)

-----------------------------------------------------------------------------
(***************************************************************************)
(* Pointers into slots.  m.stale records that one was used after its slot  *)
(* had gone to another block; what that does to the other block is not     *)
(* modelled, and nothing that follows it counts.                           *)
(***************************************************************************)
Pointer(m, b) == [slot |-> SlotOf(m, b), block |-> b]
Fresh(m, p)   == m.cache[p.slot].block = p.block

load(m, p)  == IF Fresh(m, p) THEN m.cache[p.slot].data ELSE m.disk[p.block]
using(m, p) == [m EXCEPT !.stale = @ \/ ~Fresh(m, p)]

\* Assignment through a pointer; the slot's modified flag is another one.
store(m, p, i, v) == IF Fresh(m, p) THEN [m EXCEPT !.cache[p.slot].data[i] = v]
                                    ELSE [m EXCEPT !.stale = TRUE]
mark(m, p) == [m EXCEPT !.cache[p.slot].modified = TRUE]

\* A change made to a cached block, and to a block as soon as it is looked up.
Change(m, b, i, v) == mark(store(m, Pointer(m, b), i, v), Pointer(m, b))
Edit(m, b, i, v)   == Change(get_block_cache(m, b), b, i, v)

-----------------------------------------------------------------------------
\* The clear bits of a bitmap block.
bitmap_free(m, b) == {i \in 0..(BLOCK_BITS - 1) : ~View(m, b)[i]}

\* The first clear bit of block k of a bitmap, or -1.
TakeBit(m, bm, k) ==
    LET free == bitmap_free(m, bm.start + k)
    IN  IF free = {} THEN [m |-> m, id |-> -1]
        ELSE [m |-> Edit(m, bm.start + k, First(free), TRUE), id |-> k * BLOCK_BITS + First(free)]

\* The first clear bit of all, after a lookup of every block before its own.
bitmap_alloc(m, bm) ==
    LET clear == {k \in 0..(bm.blocks - 1) : bitmap_free(m, bm.start + k) # {}}
        last  == IF clear = {} THEN bm.blocks - 1 ELSE First(clear)
    IN  TakeBit(Each(LAMBDA x, k : get_block_cache(x, bm.start + k), m, UpTo(last + 1)),
                bm, last)

bitmap_dealloc(m, bm, bit) == Edit(m, bm.start + bit \div BLOCK_BITS, bit % BLOCK_BITS, FALSE)

efs_alloc_inode(m) == bitmap_alloc(m, fs.inode_bitmap)

\* The failure of bitmap_alloc is not looked at.
efs_alloc_data(m) == [bitmap_alloc(m, fs.data_bitmap) EXCEPT !.id = fs.data_area_start_block + @]

\* Mutant: the block is cleared, and stays taken.
efs_dealloc_data_taken(m, b) == Edit(m, b, 0, Number(0))

Zeroed(m, p) == mark([m EXCEPT !.cache[p.slot].data = ZeroBlock], p)

efs_dealloc_data(m, b) ==
    LET n == get_block_cache(m, b)
    IN  bitmap_dealloc(Zeroed(n, Pointer(n, b)), fs.data_bitmap, b - fs.data_area_start_block)

-----------------------------------------------------------------------------
\* A pointer to an inode: its block's slot and its place there.
inode_get_disk_inode(m, inode) == get_block_cache(m, inode.block)
InodeAt(m, inode) == [slot |-> SlotOf(m, inode.block), block |-> inode.block, pos |-> inode.pos]

inode_mark_modified(m, inode) == LET n == get_block_cache(m, inode.block)
                                 IN  mark(n, Pointer(n, inode.block))

Inode(m, di)     == load(m, di)[di.pos]
Assign(m, di, d) == store(m, di, di.pos, d)

disk_inode_data_blocks(size) == CeilDiv(size, BLOCK_SZ)

\* An entry of an index block.
Indexed(m, b, i) == [m |-> get_block_cache(m, b), id |-> View(m, b)[i].inode_number]

disk_inode_get_block_id(m, di, k) ==
    LET d == Inode(m, di)
        n == using(m, di)
        last == k - INODE_DIRECT_COUNT - INODE_INDIRECT1_COUNT
        middle == Indexed(n, d.indirect2, last \div INODE_INDIRECT1_COUNT)
    IN  IF k < INODE_DIRECT_COUNT THEN [m |-> n, id |-> d.direct[k]]
        ELSE IF last < 0 THEN Indexed(n, d.indirect1, k - INODE_DIRECT_COUNT)
        ELSE Indexed(middle.m, middle.id, last % INODE_INDIRECT1_COUNT)

\* The blocks that hold the words start..end-1, in order.
Covering(start, end) == FromTo(start \div BLOCK_SZ, (end - 1) \div BLOCK_SZ)

disk_inode_read_at(m, di, offset, len) ==
    LET end == Min({offset + len, Inode(m, di).size})
        Block(x, k) ==
            LET g == disk_inode_get_block_id(x.m, di, k)
                from == Max({offset, k * BLOCK_SZ})
                to   == Min({end, (k + 1) * BLOCK_SZ})
            IN  [m |-> get_block_cache(g.m, g.id),
                 buf |-> x.buf \o [i \in 1..(to - from) |->
                                      View(g.m, g.id)[(from + i - 1) % BLOCK_SZ]]]
        none == [m |-> using(m, di), buf |-> <<>>]
    IN  IF offset >= end THEN none ELSE Each(Block, none, Covering(offset, end))

disk_inode_write_at(m, di, offset, buf) ==
    LET end == Min({offset + Len(buf), Inode(m, di).size})
        Block(x, k) ==
            LET g == disk_inode_get_block_id(x, di, k)
                n == get_block_cache(g.m, g.id)
                p == Pointer(n, g.id)
                to == Max({offset, k * BLOCK_SZ})..(Min({end, (k + 1) * BLOCK_SZ}) - 1)
            IN  mark([n EXCEPT !.cache[p.slot].data =
                        [i \in {w % BLOCK_SZ : w \in to} |-> buf[k * BLOCK_SZ + i - offset + 1]]
                        @@ @], p)
    IN  IF offset >= end THEN [m |-> using(m, di), written |-> 0]
        ELSE [m |-> Each(Block, using(m, di), Covering(offset, end)), written |-> end - offset]

-----------------------------------------------------------------------------
(* disk_inode_increase_size *)

\* di->direct[k] = efs_alloc_data(fs), di->indirect1 = efs_alloc_data(fs), and
\* entry i of the index block p points to; a is what efs_alloc_data returned.
SetDirect(a, di, k)  == Assign(a.m, di, [Inode(a.m, di) EXCEPT !.direct[k] = a.id])
SetIndirect1(a, di)  == Assign(a.m, di, [Inode(a.m, di) EXCEPT !.indirect1 = a.id])
SetEntry(a, p, i)    == mark(store(a.m, p, i, Number(a.id)), p)

AllocDirect(m, di, k) == SetDirect(efs_alloc_data(m), di, k)
AllocIndirect1(m, di) == SetIndirect1(efs_alloc_data(m), di)
AllocEntry(m, p, i)   == SetEntry(efs_alloc_data(m), p, i)

SetSize(m, di, size) == Assign(m, di, [Inode(m, di) EXCEPT !.size = size])

\* The direct blocks old..new-1, and the size, none of it marked.
FillDirect(m, di, new_size, old, new) ==
    Each(LAMBDA x, k : AllocDirect(x, di, k),
             SetSize(m, di, new_size),
             FromTo(old, Min({new, INODE_DIRECT_COUNT}) - 1))

\* Those of old..new-1 that the index block holds.
FillIndirect1(m, di, old, new) ==
    LET n == get_block_cache(using(m, di), Inode(m, di).indirect1)
        p == Pointer(n, Inode(m, di).indirect1)
    IN  Each(LAMBDA x, k : AllocEntry(x, p, k - INODE_DIRECT_COUNT), n,
                 FromTo(Max({old, INODE_DIRECT_COUNT}),
                        Min({new, INODE_DIRECT_COUNT + INODE_INDIRECT1_COUNT}) - 1))

\* The file gets its index block: not when it has exactly the direct ones.
NeedsIndirect1(old, new) == old < INODE_DIRECT_COUNT /\ new > INODE_DIRECT_COUNT

\* Blocks past the index block are not allocated at all.
GrowIndirect1(m, di, old, new) ==
    IF new <= Max({old, INODE_DIRECT_COUNT}) \/ old >= INODE_DIRECT_COUNT + INODE_INDIRECT1_COUNT
    THEN m
    ELSE FillIndirect1(IF NeedsIndirect1(old, new) THEN AllocIndirect1(m, di) ELSE m, di, old, new)

disk_inode_increase_size(m, di, new_size) ==
    LET old == disk_inode_data_blocks(Inode(m, di).size)
        new == disk_inode_data_blocks(new_size)
    IN  IF new_size <= Inode(m, di).size THEN using(m, di)
        ELSE GrowIndirect1(FillDirect(using(m, di), di, new_size, old, new), di, old, new)

-----------------------------------------------------------------------------
\* An inode in memory is its place on the device.
inode(id) == efs_get_disk_inode_pos(fs, id)
efs_root_inode == inode(0)

\* The entries of the root directory, read one by one until the name is met.
Compared(r, name) ==
    [m |-> r.m, id |-> IF r.buf[1].name = name THEN r.buf[1].inode_number ELSE -1]

inode_find_inode_id(m, di, name) ==
    LET Compare(x, i) == IF x.id >= 0 THEN x
                         ELSE Compared(disk_inode_read_at(x.m, di, i, 1), name)
        none == [m |-> using(m, di), id |-> -1]
    IN  IF Inode(m, di).type_ # "directory" THEN none
        ELSE Each(Compare, none, UpTo(Inode(m, di).size))

inode_find(m, name) == LET n == inode_get_disk_inode(m, efs_root_inode)
                       IN  inode_find_inode_id(n, InodeAt(n, efs_root_inode), name)

\* The entry goes to the end of the directory, whose block was just looked up.
AddEntry(m, name, id) ==
    LET di    == InodeAt(m, efs_root_inode)
        count == Inode(m, di).size
        grown == inode_mark_modified(disk_inode_increase_size(m, di, count + 1), efs_root_inode)
    IN  block_cache_sync_all(disk_inode_write_at(grown, di, count, <<dir_entry(name, id)>>).m)

\* The new inode, where efs_alloc_inode returned a.
NewInode(a, type) == Edit(a.m, inode(a.id).block, inode(a.id).pos, disk_inode(type))

CreateAs(a, name) ==
    [m  |-> AddEntry(inode_get_disk_inode(NewInode(a, "file"), efs_root_inode), name, a.id),
     id |-> a.id]

inode_create(m, name) == CreateAs(efs_alloc_inode(m), name)

inode_read_at(m, i, offset, len) ==
    LET n == inode_get_disk_inode(m, i) IN disk_inode_read_at(n, InodeAt(n, i), offset, len)

\* The pointer taken before the file grows serves for the write after it.
\* Alone, it is a mutant: the call returns before anything is written back.
WriteCached(m, i, offset, buf) ==
    LET n  == inode_get_disk_inode(m, i)
        di == InodeAt(n, i)
        w  == IF offset + Len(buf) > Inode(n, di).size
              THEN inode_mark_modified(disk_inode_increase_size(n, di, offset + Len(buf)), i)
              ELSE n
    IN  disk_inode_write_at(w, di, offset, buf)

inode_write_at(m, i, offset, buf) ==
    [WriteCached(m, i, offset, buf) EXCEPT !.m = block_cache_sync_all(@)]

\* The first blocks go back; a reference of 0 is none.
ClearDirect(m, di, blocks) ==
    LET Free(x, k) ==
            IF Inode(x, di).direct[k] = 0 THEN x
            ELSE efs_dealloc_data(x, Inode(x, di).direct[k])
        Clear(x, k) == Assign(x, di, [Inode(x, di) EXCEPT !.direct[k] = 0])
    IN  Each(LAMBDA x, k : Clear(Free(using(x, di), k), k), m,
                 UpTo(Min({blocks, INODE_DIRECT_COUNT})))

\* Those in the index block that p points to.
ClearEntries(m, p, blocks) ==
    LET Free(x, k) == LET b == load(x, p)[k].inode_number
                      IN  IF b = 0 THEN x ELSE efs_dealloc_data(x, b)
    IN  Each(LAMBDA x, k : Free(using(x, p), k), m,
                 UpTo(Min({blocks - INODE_DIRECT_COUNT, INODE_INDIRECT1_COUNT})))

\* Then the index block itself.
DropIndirect1(m, di) == Assign(m, di, [Inode(m, di) EXCEPT !.indirect1 = 0])

ClearIndirect1(m, di, blocks) ==
    LET b == Inode(m, di).indirect1
        n == get_block_cache(m, b)
    IN  IF blocks <= INODE_DIRECT_COUNT \/ b = 0 THEN m
        ELSE DropIndirect1(efs_dealloc_data(using(ClearEntries(n, Pointer(n, b), blocks), di), b), di)

\* Gives every data block back, and the index block.
inode_clear(m, i) ==
    LET n  == inode_get_disk_inode(m, i)
        di == InodeAt(n, i)
        blocks == disk_inode_data_blocks(Inode(n, di).size)
        freed  == ClearIndirect1(ClearDirect(n, di, blocks), di, blocks)
    IN  block_cache_sync_all(inode_mark_modified(SetSize(freed, di, 0), i))

\* The names, of which the kernel prints at most max.
inode_readdir(m, max) ==
    LET n  == inode_get_disk_inode(m, efs_root_inode)
        di == InodeAt(n, efs_root_inode)
    IN  Each(LAMBDA x, i : disk_inode_read_at(x, di, i, 1).m, using(n, di),
                 UpTo(Min({max, Inode(n, di).size})))

inode_size(m, i) == LET n == inode_get_disk_inode(m, i)
                    IN  [m |-> n, size |-> Inode(n, InodeAt(n, i)).size]

-----------------------------------------------------------------------------
(***************************************************************************)
(* File handles: [inode, readable, writable, offset].  The flags are the   *)
(* set of those given; O_RDONLY is none.                                   *)
(***************************************************************************)
NoInode == [block |-> 0, pos |-> 0]      \* NULL

file_handle(i, flags) == [inode |-> i,
                          readable |-> flags = {} \/ "RDWR" \in flags,
                          writable |-> flags \cap {"WRONLY", "RDWR"} # {},
                          offset |-> 0]

\* The inode number opened, or -1; f is what inode_find found.
OpenFound(f, name, flags) ==
    IF f.id >= 0 /\ flags \cap {"CREATE", "TRUNC"} # {}
    THEN [m |-> inode_clear(f.m, inode(f.id)), id |-> f.id]
    ELSE IF f.id < 0 /\ "CREATE" \in flags THEN inode_create(f.m, name)
    ELSE f

file_open(m, name, flags) == OpenFound(inode_find(m, name), name, flags)

\* Mutant: the offset stays.
file_write_stays(m, fh, buf) == [m |-> inode_write_at(m, fh.inode, fh.offset, buf).m, fh |-> fh]

\* The handle moves on by what was written.
Moved(w, fh) == [m |-> w.m, fh |-> [fh EXCEPT !.offset = @ + w.written]]

file_write(m, fh, buf) == Moved(inode_write_at(m, fh.inode, fh.offset, buf), fh)

MovedRead(r, fh) == [m |-> r.m, fh |-> [fh EXCEPT !.offset = @ + Len(r.buf)], buf |-> r.buf]

file_read(m, fh, count) == MovedRead(inode_read_at(m, fh.inode, fh.offset, count), fh)
=============================================================================
