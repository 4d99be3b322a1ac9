--------------------------- MODULE BlockCacheSpec ---------------------------
(***************************************************************************)
(* The block cache by itself, under callers that use a pointer before      *)
(* their next lookup, and what it then promises.                           *)
(***************************************************************************)
EXTENDS BlockCache

CONSTANT Contents    \* what a block can hold

-----------------------------------------------------------------------------
Record == [cache |-> cache, disk |-> disk]

Becomes(m) == cache' = m.cache /\ disk' = m.disk

\* block_cache_init, on any device.
CacheInit == /\ disk \in [Blocks -> Contents]
             /\ \E b \in Blocks, c \in Contents : cache = [i \in Slots |-> Unused(b, c)]

Lookup(b) == Becomes(get_block_cache(Record, b))

\* A caller looks a block up, changes it and marks it.
Replaced(m, b, c) == [m EXCEPT !.cache[SlotOf(m, b)].data = c,
                             !.cache[SlotOf(m, b)].modified = TRUE]

Store(b, c) == Becomes(Replaced(get_block_cache(Record, b), b, c))

Sync(i) == Becomes(block_cache_sync(Record, i))

SyncAll == Becomes(block_cache_sync_all(Record))

CacheNext == \/ \E b \in Blocks : Lookup(b)
             \/ \E b \in Blocks, c \in Contents : Store(b, c)
             \/ \E i \in Slots : Sync(i)
             \/ SyncAll

CacheSpec == CacheInit /\ [][CacheNext]_<<cache, disk>>

-----------------------------------------------------------------------------
CacheTypeOK == /\ cache \in [Slots -> [valid : BOOLEAN, block : Blocks,
                                       modified : BOOLEAN, data : Contents]]
               /\ disk \in [Blocks -> Contents]

Seen == INSTANCE BlockStore WITH store <- [b \in Blocks |-> View(Record, b)]

\* get_block_cache, block_cache_sync: the cache is one array of blocks to
\* callers that use a pointer before the next lookup: whatever is looked up,
\* replaced or written back.
IsBlockStore == Seen!Spec
=============================================================================
