----------------------------- MODULE DiskLayout -----------------------------
(***************************************************************************)
(* Where an easy-fs device keeps what: super block, inode bitmap, inode    *)
(* area, data bitmap, data area.  fs-pack computes the sizes when it makes *)
(* the image and writes them into the super block; the kernel finds the    *)
(* areas again from the super block alone.                                 *)
(***************************************************************************)
EXTENDS Naturals

CONSTANTS BLOCK_BITS,          \* bits in a bitmap block
          INODES_PER_BLOCK,    \* BLOCK_SZ / sizeof(disk_inode_t)
          INODE_BITMAP_BLOCKS

ASSUME LayoutAssumption == /\ BLOCK_BITS \in Nat \ {0}
                           /\ INODES_PER_BLOCK \in Nat \ {0}
                           /\ INODE_BITMAP_BLOCKS \in Nat \ {0}

\* Division that rounds up, as (x + n - 1) / n does.
CeilDiv(x, n) == (x + n - 1) \div n

inode_area_size == CeilDiv(INODE_BITMAP_BLOCKS * BLOCK_BITS, INODES_PER_BLOCK)

\* A bitmap block for every BLOCK_BITS blocks of data.
data_bitmap_size(rest) == (rest + BLOCK_BITS) \div (BLOCK_BITS + 1)

\* efs_create: the super block of a device of the given size.
super_block(total) ==
    LET rest == total - 1 - (INODE_BITMAP_BLOCKS + inode_area_size)
    IN  [total_blocks        |-> total,
         inode_bitmap_blocks |-> INODE_BITMAP_BLOCKS,
         inode_area_blocks   |-> inode_area_size,
         data_bitmap_blocks  |-> data_bitmap_size(rest),
         data_area_blocks    |-> rest - data_bitmap_size(rest)]

\* efs_create: the areas as the tool itself uses them.
efs_create_areas(total) ==
    LET sb == super_block(total)
    IN  [inode_bitmap |-> [start |-> 1, blocks |-> INODE_BITMAP_BLOCKS],
         data_bitmap  |-> [start  |-> 1 + INODE_BITMAP_BLOCKS + inode_area_size,
                           blocks |-> sb.data_bitmap_blocks],
         inode_area_start_block |-> 1 + INODE_BITMAP_BLOCKS,
         data_area_start_block  |-> 1 + INODE_BITMAP_BLOCKS + inode_area_size
                                      + sb.data_bitmap_blocks]

\* efs_open: the areas as the kernel finds them.
efs_open(sb) ==
    LET inode_total == sb.inode_bitmap_blocks + sb.inode_area_blocks
    IN  [inode_bitmap |-> [start |-> 1, blocks |-> sb.inode_bitmap_blocks],
         data_bitmap  |-> [start |-> 1 + inode_total, blocks |-> sb.data_bitmap_blocks],
         inode_area_start_block |-> 1 + sb.inode_bitmap_blocks,
         data_area_start_block  |-> 1 + inode_total + sb.data_bitmap_blocks]

\* efs_get_disk_inode_pos
efs_get_disk_inode_pos(fs, inode_id) ==
    [block |-> fs.inode_area_start_block + inode_id \div INODES_PER_BLOCK,
     pos   |-> inode_id % INODES_PER_BLOCK]

-----------------------------------------------------------------------------
\* A device with at least one block of data.
BigEnough(total) == total > 2 + INODE_BITMAP_BLOCKS + inode_area_size

\* efs_create, efs_open: on a device of any size the kernel finds the areas
\* where the tool put them, every inode lies in the inode area, every data
\* block has a bit of its own in the data bitmap, and the areas fill the
\* device without a gap.
LayoutAgrees(total) ==
    LET sb == super_block(total)
        fs == efs_open(sb)
    IN  /\ fs = efs_create_areas(total)
        /\ \A i \in 0..(sb.inode_bitmap_blocks * BLOCK_BITS - 1) :
               efs_get_disk_inode_pos(fs, i).block < fs.data_bitmap.start
        /\ sb.data_bitmap_blocks * BLOCK_BITS >= sb.data_area_blocks
        /\ fs.data_area_start_block + sb.data_area_blocks = total
=============================================================================
