----------------------------- MODULE BlockCache -----------------------------
(***************************************************************************)
(* The block cache of easy-fs/easy_fs.c: BLOCK_CACHE_SIZE slots, filled in *)
(* order and never emptied; once all are taken a block that is not cached  *)
(* takes slot 0.                                                           *)
(*                                                                         *)
(* The functions return pointers into the slots, and their callers look    *)
(* more blocks up while they hold them.  The operators therefore work on a *)
(* record m of the slots and the device, so that a file system operation   *)
(* is the sequence of its lookups, loads and stores.                       *)
(***************************************************************************)
EXTENDS Naturals, FiniteSets

CONSTANTS BLOCK_CACHE_SIZE,
          TOTAL_BLOCKS         \* of the device

ASSUME CacheAssumption == /\ BLOCK_CACHE_SIZE \in Nat \ {0}
                          /\ TOTAL_BLOCKS \in Nat \ {0}

VARIABLES cache,   \* g_block_cache
          disk     \* the device, behind block_device_t

Blocks == 0..(TOTAL_BLOCKS - 1)
Slots  == 0..(BLOCK_CACHE_SIZE - 1)

\* A slot before its first use (block_cache_init); its block id means nothing.
Unused(b, c) == [valid |-> FALSE, block |-> b, modified |-> FALSE, data |-> c]

\* The first of some slots, as the loops from 0 find it.
First(S) == CHOOSE i \in S : \A j \in S : i <= j

\* The slots of record m that hold block b.
Hits(m, b) == {i \in DOMAIN m.cache : m.cache[i].valid /\ m.cache[i].block = b}
Empty(m)   == {i \in DOMAIN m.cache : ~m.cache[i].valid}

\* What the callers see of block b: the cached copy, else the device's.
View(m, b) == IF Hits(m, b) # {} THEN m.cache[First(Hits(m, b))].data ELSE m.disk[b]

-----------------------------------------------------------------------------
block_cache_sync(m, i) ==
    LET s == m.cache[i]
    IN  IF s.valid /\ s.modified
        THEN [m EXCEPT !.disk[s.block] = s.data, !.cache[i].modified = FALSE]
        ELSE m

\* The slot a block goes to that is not cached.
Victim(m) == IF Empty(m) # {} THEN First(Empty(m)) ELSE 0

\* Slot i of record m is loaded with a block.
Loaded(m, i, b) == [m EXCEPT !.cache[i] = [valid |-> TRUE, block |-> b, modified |-> FALSE,
                                           data |-> m.disk[b]]]

\* The record after the call; the slot returned is SlotOf of it.  Syncing an
\* empty slot does nothing, so its branch is the replacing one.
get_block_cache(m, b) ==
    IF Hits(m, b) # {} THEN m
    ELSE Loaded(block_cache_sync(m, Victim(m)), Victim(m), b)

SlotOf(m, b) == First(Hits(m, b))

\* Every slot, from 0; no two hold the same block, so the order does not show.
Dirty(m) == {i \in DOMAIN m.cache : m.cache[i].valid /\ m.cache[i].modified}

\* What is written: the slots D, and what each block of theirs then holds.
Written(m, D) ==
    [m EXCEPT
        !.disk  = [b \in DOMAIN @ |-> IF \E i \in D : m.cache[i].block = b
                                      THEN View(m, b) ELSE @[b]],
        !.cache = [i \in DOMAIN @ |-> IF i \in D THEN [@[i] EXCEPT !.modified = FALSE] ELSE @[i]]]

block_cache_sync_all(m) == Written(m, Dirty(m))

-----------------------------------------------------------------------------
\* get_block_cache: no block is in two slots, where the copies would drift
\* apart and the older one could overwrite the newer on the device.
OneSlotPerBlock == \A i, j \in Slots :
    cache[i].valid /\ cache[j].valid /\ cache[i].block = cache[j].block => i = j

\* block_cache_sync: what is not marked is what the device holds, so a slot
\* can be given to another block without losing anything.
CleanIsCurrent == \A i \in Slots :
    cache[i].valid /\ ~cache[i].modified => cache[i].data = disk[cache[i].block]
=============================================================================
