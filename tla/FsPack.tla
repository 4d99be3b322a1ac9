------------------------------- MODULE FsPack -------------------------------
(***************************************************************************)
(* fs-pack/fs_pack.c, the tool that makes the image the kernels mount: a   *)
(* fresh file system, then one file after the other.  It has its own copy  *)
(* of easy-fs with a larger cache; what it does differently is here.       *)
(***************************************************************************)
EXTENDS EasyFs

CONSTANTS PACK_CACHE_SIZE      \* its BLOCK_CACHE_SIZE

ASSUME PackAssumption == PACK_CACHE_SIZE \in Nat \ {0}

\* What efs_create writes into every block, as each area reads it.
Cleared(total) ==
    LET a == efs_create_areas(total)
    IN  [b \in Blocks |->
           IF b \in 1..INODE_BITMAP_BLOCKS \/ b \in a.data_bitmap.start..(a.data_area_start_block - 1)
           THEN ClearBits
           ELSE IF b \in a.inode_area_start_block..(a.data_bitmap.start - 1) THEN InodeBlock
           ELSE ZeroBlock]

\* The root inode is inode 0, since the bitmaps are clear.
efs_create ==
    LET blank == [cache |-> [i \in 0..(PACK_CACHE_SIZE - 1) |-> Unused(0, ZeroBlock)],
                  disk |-> Cleared(TOTAL_BLOCKS), stale |-> FALSE]
    IN  block_cache_sync_all(NewInode(efs_alloc_inode(Edit(blank, 0, 0, SuperBlock)), "directory"))

-----------------------------------------------------------------------------
\* di->indirect2 = efs_alloc_data(fs)
SetIndirect2(a, di)   == Assign(a.m, di, [Inode(a.m, di) EXCEPT !.indirect2 = a.id])
AllocIndirect2(m, di) == SetIndirect2(efs_alloc_data(m), di)

\* Those of old..new-1 that are past the first index block: an index block for
\* every INODE_INDIRECT1_COUNT of them.
FillIndirect2(m, di, old, new) ==
    LET first == INODE_DIRECT_COUNT + INODE_INDIRECT1_COUNT
        n == get_block_cache(using(m, di), Inode(m, di).indirect2)
        p == Pointer(n, Inode(m, di).indirect2)
        Entry(x, k) ==
            LET a == (k - first) \div INODE_INDIRECT1_COUNT
                b == (k - first) % INODE_INDIRECT1_COUNT
                y == IF b = 0 THEN AllocEntry(x, p, a) ELSE x
                q == load(y, p)[a].inode_number
                z == get_block_cache(using(y, p), q)
            IN  AllocEntry(z, Pointer(z, q), b)
    IN  Each(Entry, n, FromTo(Max({old, first}), new - 1))

\* disk_inode_increase_size of the tool: also from exactly the direct blocks,
\* and past the first index block.
DirectAndIndirect1 == INODE_DIRECT_COUNT + INODE_INDIRECT1_COUNT

\* Mutant: the comparison of the kernel's copy.
PackIndirect1_below(m, di, old, new) ==
    IF old < DirectAndIndirect1 /\ new > Max({old, INODE_DIRECT_COUNT})
    THEN FillIndirect1(IF old < INODE_DIRECT_COUNT THEN AllocIndirect1(m, di) ELSE m, di, old, new)
    ELSE m

PackIndirect1(m, di, old, new) ==
    IF old < DirectAndIndirect1 /\ new > Max({old, INODE_DIRECT_COUNT})
    THEN FillIndirect1(IF old <= INODE_DIRECT_COUNT THEN AllocIndirect1(m, di) ELSE m, di, old, new)
    ELSE m

PackIndirect2(m, di, old, new) ==
    IF new > Max({old, DirectAndIndirect1})
    THEN FillIndirect2(IF old <= DirectAndIndirect1 THEN AllocIndirect2(m, di) ELSE m, di, old, new)
    ELSE m

increase_size(m, di, new_size) ==
    LET old == disk_inode_data_blocks(Inode(m, di).size)
        new == disk_inode_data_blocks(new_size)
    IN  IF new_size <= Inode(m, di).size THEN m
        ELSE PackIndirect2(PackIndirect1(FillDirect(m, di, new_size, old, new), di, old, new),
                           di, old, new)

\* inode_create of the tool, which grows the directory in its own way.
PackEntry(m, name, id) ==
    LET di    == InodeAt(m, efs_root_inode)
        count == Inode(m, di).size
        grown == inode_mark_modified(increase_size(m, di, count + 1), efs_root_inode)
    IN  block_cache_sync_all(disk_inode_write_at(grown, di, count, <<dir_entry(name, id)>>).m)

CreateFileAs(a, name) ==
    [m  |-> PackEntry(inode_get_disk_inode(NewInode(a, "file"), efs_root_inode), name, a.id),
     id |-> a.id]

CreateFile(m, name) == CreateFileAs(efs_alloc_inode(m), name)

\* The two halves of the tool's inode_write_at, each of which looks the inode
\* up, and the second ends by writing back.
GrowTo(m, i, size) == inode_mark_modified(increase_size(m, InodeAt(m, i), size), i)
WriteData(m, i, buf) == disk_inode_write_at(m, InodeAt(m, i), 0, buf).m

WriteFile(m, i, buf) ==
    LET grown == GrowTo(inode_get_disk_inode(m, i), i, Len(buf))
    IN  block_cache_sync_all(WriteData(inode_get_disk_inode(grown, i), i, buf))

\* main: the files in the order given; one with no content is just created.
PackData(c, data) == IF data = <<>> THEN c.m ELSE WriteFile(c.m, inode(c.id), data)
Pack(m, file)     == PackData(CreateFile(m, file.name), file.data)

\* The image of a list of files [name, data].
Image(files) == Each(Pack, efs_create, files)
=============================================================================
