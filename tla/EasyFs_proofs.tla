--------------------------- MODULE EasyFs_proofs ----------------------------
(***************************************************************************)
(* Proofs about easy-fs, for devices, caches, blocks and inodes of any     *)
(* size.                                                                   *)
(*                                                                         *)
(* The block cache: to callers that use a pointer before their next lookup *)
(* it is one array of blocks.  The operators of BlockCache work on a       *)
(* record of the slots and the device, so the argument is about such       *)
(* records: what each operator does to a good one, and that nobody sees    *)
(* it.                                                                     *)
(*                                                                         *)
(* The layout: the image builder and the kernel mean the same areas.       *)
(*                                                                         *)
(* The file calls: one that returned is on the device.  Here pointers may  *)
(* be stale, and blocks may hold anything.  A record is sound if what a    *)
(* slot shows and the device does not is marked as modified, apart from    *)
(* the block of the inode an operation works on; each lookup, load, store  *)
(* and loop keeps a record sound, inode_mark_modified ends the exception,  *)
(* and block_cache_sync_all, with which each call ends that writes, leaves *)
(* nothing to write.                                                       *)
(***************************************************************************)
EXTENDS Files, BlockCacheSpec, FiniteSetTheorems, WellFoundedInduction, TLAPS

-----------------------------------------------------------------------------
\* The loops from 0 find a first place.
LEMMA FirstIsOne ==
    ASSUME NEW S, S \subseteq Nat, S # {}
    PROVE  First(S) \in S
<1>1. PICK x \in S : \A y \in S : ~(<<y, x>> \in OpToRel(<, Nat))
  BY NatLessThanWellFounded, WFMin, Zenon
<1>2. \A y \in S : ~(y < x)
  BY <1>1 DEF OpToRel
<1>3. \A y \in S : x <= y
  BY <1>2
<1> QED
  BY <1>3 DEF First

-----------------------------------------------------------------------------
(* Records of the cache *)

Slot == [valid : BOOLEAN, block : Blocks, modified : BOOLEAN, data : Contents]

\* A record as the cache keeps it.
Good(m) ==
    /\ m \in [cache : [Slots -> Slot], disk : [Blocks -> Contents]]
    /\ \A i, j \in Slots : m.cache[i].valid /\ m.cache[j].valid
                             /\ m.cache[i].block = m.cache[j].block => i = j
    /\ \A i \in Slots : m.cache[i].valid /\ ~m.cache[i].modified
                          => m.cache[i].data = m.disk[m.cache[i].block]

\* Nobody sees a difference between two records.
SameView(m, n) == \A b \in Blocks : View(n, b) = View(m, b)

LEMMA GoodRecord == Good(Record) <=> CacheTypeOK /\ OneSlotPerBlock /\ CleanIsCurrent
  BY DEF Good, Record, Slot, CacheTypeOK, OneSlotPerBlock, CleanIsCurrent

\* The first of some slots is one of them.
LEMMA FirstSlot == ASSUME NEW S, S \subseteq Slots, S # {} PROVE First(S) \in S
<1>1. S \subseteq Nat
  BY CacheAssumption DEF Slots
<1> QED
  BY <1>1, FirstIsOne

\* A block is seen in the one slot that holds it, or on the device.
LEMMA ViewOf ==
    ASSUME NEW m, Good(m), NEW b \in Blocks
    PROVE  /\ Hits(m, b) \subseteq Slots
           /\ \A i \in Slots : i \in Hits(m, b) <=> m.cache[i].valid /\ m.cache[i].block = b
           /\ \A i \in Hits(m, b) : /\ SlotOf(m, b) = i
                                    /\ View(m, b) = m.cache[i].data
           /\ Hits(m, b) = {} => View(m, b) = m.disk[b]
<1>1. /\ Hits(m, b) \subseteq Slots
      /\ \A i \in Slots : i \in Hits(m, b) <=> m.cache[i].valid /\ m.cache[i].block = b
  BY DEF Hits, Good
<1>2. ASSUME NEW i \in Hits(m, b) PROVE First(Hits(m, b)) = i
  <2>1. First(Hits(m, b)) \in Hits(m, b)
    BY <1>1, <1>2, FirstSlot
  <2> QED
    BY <1>1, <1>2, <2>1 DEF Good
<1> QED
  BY <1>1, <1>2 DEF View, SlotOf

\* Which slots hold a block depends on nothing else than their block ids.
LEMMA SameHits ==
    ASSUME NEW m, Good(m), NEW n, Good(n), NEW b \in Blocks,
           \A j \in Slots : /\ n.cache[j].valid = m.cache[j].valid
                            /\ n.cache[j].block = m.cache[j].block
    PROVE  Hits(n, b) = Hits(m, b)
<1>1. Hits(m, b) \subseteq Slots /\ Hits(n, b) \subseteq Slots
  BY ViewOf
<1>2. ASSUME NEW j \in Slots PROVE j \in Hits(n, b) <=> j \in Hits(m, b)
  <2>1. n.cache[j].valid = m.cache[j].valid /\ n.cache[j].block = m.cache[j].block
    OBVIOUS
  <2>2. j \in Hits(m, b) <=> m.cache[j].valid /\ m.cache[j].block = b
    BY ViewOf
  <2>3. j \in Hits(n, b) <=> n.cache[j].valid /\ n.cache[j].block = b
    BY ViewOf
  <2> QED
    BY <2>1, <2>2, <2>3
<1> QED
  BY <1>1, <1>2

-----------------------------------------------------------------------------
\* block_cache_sync: the record stays good, looks the same, and the slot has
\* nothing left to write.
LEMMA Synced ==
    ASSUME NEW m, Good(m), NEW i \in Slots, NEW n, n = block_cache_sync(m, i)
    PROVE  /\ Good(n) /\ SameView(m, n)
           /\ \A j \in Slots : /\ n.cache[j].valid = m.cache[j].valid
                               /\ n.cache[j].block = m.cache[j].block
           /\ ~(n.cache[i].valid /\ n.cache[i].modified)
<1>1. CASE ~(m.cache[i].valid /\ m.cache[i].modified)
  BY <1>1 DEF block_cache_sync, SameView
<1>2. CASE m.cache[i].valid /\ m.cache[i].modified
  <2> DEFINE s == m.cache[i]
  <2>0. /\ m.cache \in [Slots -> Slot] /\ m.disk \in [Blocks -> Contents]
        /\ s \in Slot /\ s.block \in Blocks /\ s.data \in Contents
    BY DEF Good, Slot
  <2>1. /\ n.disk = [m.disk EXCEPT ![s.block] = s.data]
        /\ n.cache = [m.cache EXCEPT ![i].modified = FALSE]
        /\ n \in [cache : [Slots -> Slot], disk : [Blocks -> Contents]]
    BY <1>2, <2>0 DEF block_cache_sync, Good, Slot
  <2>2. /\ \A j \in Slots : j # i => n.cache[j] = m.cache[j]
        /\ n.cache[i].valid = s.valid /\ n.cache[i].block = s.block
        /\ n.cache[i].data = s.data /\ n.cache[i].modified = FALSE
    BY <2>0, <2>1 DEF Slot
  <2>3. /\ n.disk[s.block] = s.data
        /\ \A b \in Blocks : b # s.block => n.disk[b] = m.disk[b]
    BY <2>0, <2>1
  <2>4. Good(n)
    <3>1. \A j, k \in Slots : n.cache[j].valid /\ n.cache[k].valid
                                /\ n.cache[j].block = n.cache[k].block => j = k
      BY <2>2 DEF Good
    <3>2. ASSUME NEW j \in Slots, n.cache[j].valid, ~n.cache[j].modified
          PROVE  n.cache[j].data = n.disk[n.cache[j].block]
      <4>1. CASE j = i
        BY <4>1, <2>2, <2>3
      <4>2. CASE j # i
        BY <1>2, <3>2, <4>2, <2>0, <2>2, <2>3 DEF Good, Slot
      <4> QED
        BY <4>1, <4>2
    <3> QED
      BY <2>1, <3>1, <3>2 DEF Good
  <2>5. ASSUME NEW b \in Blocks PROVE View(n, b) = View(m, b)
    <3>1. Hits(n, b) = Hits(m, b)
      BY <2>2, <2>4, SameHits
    <3>2. CASE Hits(m, b) = {}
      <4>1. b # s.block
        BY <1>2, <3>2, ViewOf
      <4> QED
        BY <2>3, <2>4, <3>1, <3>2, <4>1, ViewOf
    <3>3. CASE Hits(m, b) # {}
      <4>1. PICK j \in Hits(m, b) : TRUE
        BY <3>3
      <4>2. j \in Slots /\ n.cache[j].data = m.cache[j].data
        BY <2>2, <4>1, ViewOf
      <4> QED
        BY <2>4, <3>1, <4>1, <4>2, ViewOf
    <3> QED
      BY <3>2, <3>3
  <2> QED
    BY <2>2, <2>4, <2>5 DEF SameView
<1> QED
  BY <1>1, <1>2

\* A slot with nothing to write is given to a block that is in none: the record
\* stays good, looks the same, and has the block.
LEMMA LoadedThere ==
    ASSUME NEW m, Good(m), NEW i \in Slots, ~(m.cache[i].valid /\ m.cache[i].modified),
           NEW b \in Blocks, Hits(m, b) = {}, NEW n, n = Loaded(m, i, b)
    PROVE  Good(n) /\ SameView(m, n) /\ Hits(n, b) # {}
<1>0. m.cache \in [Slots -> Slot] /\ m.disk \in [Blocks -> Contents]
  BY DEF Good
<1> DEFINE new == [valid |-> TRUE, block |-> b, modified |-> FALSE, data |-> m.disk[b]]
<1>1. new \in Slot
  BY <1>0 DEF Slot
<1>2. /\ n \in [cache : [Slots -> Slot], disk : [Blocks -> Contents]]
      /\ n.disk = m.disk /\ n.cache = [m.cache EXCEPT ![i] = new]
  BY <1>0, <1>1 DEF Loaded, Good
<1>3. /\ \A j \in Slots : j # i => n.cache[j] = m.cache[j]
      /\ n.cache[i] = new
  BY <1>0, <1>2
<1>4. \A j \in Slots : ~(m.cache[j].valid /\ m.cache[j].block = b)
  BY ViewOf
<1>5. Good(n)
  <2>1. ASSUME NEW j \in Slots, NEW k \in Slots, n.cache[j].valid, n.cache[k].valid,
               n.cache[j].block = n.cache[k].block
        PROVE  j = k
    BY <1>3, <1>4, <2>1 DEF Good
  <2>2. ASSUME NEW j \in Slots, n.cache[j].valid, ~n.cache[j].modified
        PROVE  n.cache[j].data = n.disk[n.cache[j].block]
    BY <1>2, <1>3, <2>2 DEF Good
  <2> QED
    BY <1>2, <2>1, <2>2 DEF Good
<1>6. i \in Hits(n, b)
  BY <1>3, <1>5, ViewOf
<1>7. ASSUME NEW a \in Blocks PROVE View(n, a) = View(m, a)
  <2>1. CASE a = b
    BY <1>3, <1>5, <1>6, <2>1, ViewOf
  <2>2. CASE a # b /\ Hits(m, a) = {}
    <3>1. \A j \in Slots : j \notin Hits(n, a)
      BY <1>3, <1>5, <2>2, ViewOf
    <3>2. Hits(n, a) = {}
      BY <1>5, <3>1, ViewOf
    <3> QED
      BY <1>2, <1>5, <2>2, <3>2, ViewOf
  <2>3. CASE a # b /\ Hits(m, a) # {}
    <3>1. PICK j \in Hits(m, a) : TRUE
      BY <2>3
    <3>2. j \in Slots /\ m.cache[j].valid /\ m.cache[j].block = a /\ View(m, a) = m.cache[j].data
      BY <3>1, ViewOf
    <3>3. CASE j # i
      BY <1>3, <1>5, <3>2, <3>3, ViewOf
    <3>4. CASE j = i
      \* The slot that is given away: what it held is on the device.
      <4>1. m.cache[i].data = m.disk[a]
        BY <3>2, <3>4 DEF Good
      <4>2. \A k \in Slots : k \notin Hits(n, a)
        BY <1>3, <1>5, <2>3, <3>2, <3>4, ViewOf DEF Good
      <4>3. Hits(n, a) = {}
        BY <1>5, <4>2, ViewOf
      <4> QED
        BY <1>2, <1>5, <3>2, <3>4, <4>1, <4>3, ViewOf
    <3> QED
      BY <3>3, <3>4
  <2> QED
    BY <2>1, <2>2, <2>3
<1> QED
  BY <1>5, <1>6, <1>7 DEF SameView

LEMMA VictimIsSlot ==
    ASSUME NEW m, Good(m)
    PROVE  Victim(m) \in Slots
<1>1. 0 \in Slots
  BY CacheAssumption DEF Slots
<1>2. Empty(m) \subseteq Slots
  BY DEF Empty, Good
<1> QED
  BY <1>1, <1>2, FirstSlot DEF Victim

\* get_block_cache: the block is cached, and nobody sees that it was done.
LEMMA LookedUp ==
    ASSUME NEW m, Good(m), NEW b \in Blocks, NEW n, n = get_block_cache(m, b)
    PROVE  Good(n) /\ SameView(m, n) /\ Hits(n, b) # {}
<1>1. CASE Hits(m, b) # {}
  BY <1>1 DEF get_block_cache, SameView
<1>2. CASE Hits(m, b) = {}
  <2>1. PICK i \in Slots : i = Victim(m)
    BY VictimIsSlot
  <2>2. PICK s : s = block_cache_sync(m, i)
    OBVIOUS
  <2>3. /\ Good(s) /\ SameView(m, s) /\ ~(s.cache[i].valid /\ s.cache[i].modified)
        /\ Hits(s, b) = Hits(m, b)
    BY <2>2, Synced, SameHits
  <2>4. n = Loaded(s, i, b)
    BY <1>2, <2>1, <2>2 DEF get_block_cache
  <2>5. Good(n) /\ SameView(s, n) /\ Hits(n, b) # {}
    BY <1>2, <2>3, <2>4, LoadedThere
  <2> QED
    BY <2>3, <2>5 DEF SameView
<1> QED
  BY <1>1, <1>2

\* A caller's store into a block that is cached: that block and no other is
\* seen to change.
LEMMA Changed ==
    ASSUME NEW m, Good(m), NEW b \in Blocks, Hits(m, b) # {}, NEW c \in Contents,
           NEW n, n = Replaced(m, b, c)
    PROVE  /\ Good(n)
           /\ \A a \in Blocks : View(n, a) = IF a = b THEN c ELSE View(m, a)
<1>0. m.cache \in [Slots -> Slot] /\ m.disk \in [Blocks -> Contents]
  BY DEF Good
<1>1. PICK i \in Slots : /\ i = SlotOf(m, b) /\ i \in Hits(m, b)
                        /\ m.cache[i].valid /\ m.cache[i].block = b
  BY ViewOf
<1>2. PICK q : q = [m EXCEPT !.cache[i].data = c]
  OBVIOUS
<1>3. n = [q EXCEPT !.cache[i].modified = TRUE]
  BY <1>1, <1>2 DEF Replaced
<1>4. /\ q \in [cache : [Slots -> Slot], disk : [Blocks -> Contents]]
      /\ q.disk = m.disk
      /\ \A j \in Slots : j # i => q.cache[j] = m.cache[j]
      /\ q.cache[i].valid = m.cache[i].valid /\ q.cache[i].block = m.cache[i].block
      /\ q.cache[i].data = c
  BY <1>0, <1>2 DEF Good, Slot
<1>5. /\ n \in [cache : [Slots -> Slot], disk : [Blocks -> Contents]]
      /\ n.disk = q.disk
      /\ \A j \in Slots : j # i => n.cache[j] = q.cache[j]
      /\ n.cache[i].valid = q.cache[i].valid /\ n.cache[i].block = q.cache[i].block
      /\ n.cache[i].data = q.cache[i].data /\ n.cache[i].modified = TRUE
  <2>1. q.cache \in [Slots -> Slot] /\ q.cache[i] \in Slot
    BY <1>4
  <2>2. PICK s : s = [q.cache[i] EXCEPT !.modified = TRUE]
    OBVIOUS
  <2>3. /\ s \in Slot /\ s.valid = q.cache[i].valid /\ s.block = q.cache[i].block
        /\ s.data = q.cache[i].data /\ s.modified = TRUE
    BY <2>1, <2>2 DEF Slot
  <2>4. n.disk = q.disk /\ n.cache = [q.cache EXCEPT ![i] = s]
    BY <1>3, <1>4, <2>2
  <2>5. n \in [cache : [Slots -> Slot], disk : [Blocks -> Contents]]
    BY <1>3, <1>4, <2>1, <2>2, <2>3
  <2> QED
    BY <2>1, <2>3, <2>4, <2>5
<1>6. /\ n \in [cache : [Slots -> Slot], disk : [Blocks -> Contents]]
      /\ n.disk = m.disk
      /\ \A j \in Slots : j # i => n.cache[j] = m.cache[j]
      /\ n.cache[i].valid = m.cache[i].valid /\ n.cache[i].block = m.cache[i].block
      /\ n.cache[i].data = c /\ n.cache[i].modified = TRUE
  BY <1>4, <1>5
<1>7. \A j \in Slots : n.cache[j].valid = m.cache[j].valid /\ n.cache[j].block = m.cache[j].block
  BY <1>6
<1>8. Good(n)
  <2>1. \A j, k \in Slots : n.cache[j].valid /\ n.cache[k].valid
                              /\ n.cache[j].block = n.cache[k].block => j = k
    BY <1>7 DEF Good
  <2>2. \A j \in Slots : n.cache[j].valid /\ ~n.cache[j].modified
                           => n.cache[j].data = n.disk[n.cache[j].block]
    BY <1>6, <1>6 DEF Good
  <2> QED
    BY <1>6, <2>1, <2>2 DEF Good
<1>9. ASSUME NEW a \in Blocks PROVE View(n, a) = IF a = b THEN c ELSE View(m, a)
  <2>1. Hits(n, a) = Hits(m, a)
    BY <1>7, <1>8, SameHits
  <2>2. CASE a = b
    BY <1>1, <1>6, <1>8, <2>1, <2>2, ViewOf
  <2>3. CASE a # b /\ Hits(m, a) = {}
    BY <1>6, <1>8, <2>1, <2>3, ViewOf
  <2>4. CASE a # b /\ Hits(m, a) # {}
    <3>1. PICK j \in Hits(m, a) : j \in Slots /\ m.cache[j].block = a
      BY <2>4, ViewOf
    <3>2. j # i
      BY <1>1, <2>4, <3>1
    <3> QED
      BY <1>6, <1>8, <2>1, <2>4, <3>1, <3>2, ViewOf
  <2> QED
    BY <2>2, <2>3, <2>4
<1> QED
  BY <1>8, <1>9

\* block_cache_sync_all: the record stays good and looks the same.
LEMMA AllSynced ==
    ASSUME NEW m, Good(m), NEW n, n = block_cache_sync_all(m)
    PROVE  Good(n) /\ SameView(m, n)
<1>0. m.cache \in [Slots -> Slot] /\ m.disk \in [Blocks -> Contents]
  BY DEF Good
<1>1. PICK D : D = Dirty(m)
  OBVIOUS
<1>2. /\ D \subseteq Slots
      /\ \A i \in Slots : i \in D <=> m.cache[i].valid /\ m.cache[i].modified
  BY <1>1, <1>0 DEF Dirty
<1>3. /\ n.disk = [b \in Blocks |-> IF \E i \in D : m.cache[i].block = b THEN View(m, b)
                                   ELSE m.disk[b]]
      /\ n.cache = [i \in Slots |-> IF i \in D THEN [m.cache[i] EXCEPT !.modified = FALSE]
                                   ELSE m.cache[i]]
      /\ n \in [cache : {n.cache}, disk : {n.disk}]
  BY <1>0, <1>1 DEF block_cache_sync_all, Written, Good
<1>4. ASSUME NEW i \in Slots
      PROVE  /\ n.cache[i] \in Slot
             /\ n.cache[i].valid = m.cache[i].valid /\ n.cache[i].block = m.cache[i].block
             /\ n.cache[i].data = m.cache[i].data
             /\ i \in D => n.cache[i].modified = FALSE
             /\ i \notin D => n.cache[i].modified = m.cache[i].modified
  <2>1. m.cache[i] \in Slot
    BY <1>0
  <2>2. CASE i \in D
    <3>1. n.cache[i] = [m.cache[i] EXCEPT !.modified = FALSE]
      BY <1>3, <2>2
    <3> QED
      BY <2>1, <2>2, <3>1 DEF Slot
  <2>3. CASE i \notin D
    <3>1. n.cache[i] = m.cache[i]
      BY <1>3, <2>3
    <3> QED
      BY <2>1, <2>3, <3>1
  <2> QED
    BY <2>2, <2>3
\* A slot that is written holds what is seen of its block.
<1>5. ASSUME NEW i \in D
      PROVE  View(m, m.cache[i].block) = m.cache[i].data
  <2>1. i \in Slots /\ m.cache[i].valid /\ m.cache[i].block \in Blocks
    BY <1>0, <1>2 DEF Slot
  <2> QED
    BY <2>1, ViewOf
<1>6. ASSUME NEW b \in Blocks
      PROVE  /\ n.disk[b] \in Contents
             /\ \A i \in D : m.cache[i].block = b => n.disk[b] = m.cache[i].data
             /\ (\A i \in D : m.cache[i].block # b) => n.disk[b] = m.disk[b]
  <2>1. CASE \E i \in D : m.cache[i].block = b
    <3>1. n.disk[b] = View(m, b)
      BY <1>3, <2>1
    <3>2. \A i \in D : m.cache[i].block = b => View(m, b) = m.cache[i].data
      BY <1>5
    <3> QED
      BY <1>0, <1>2, <2>1, <3>1, <3>2 DEF Slot
  <2>2. CASE ~\E i \in D : m.cache[i].block = b
    BY <1>0, <1>3, <2>2
  <2> QED
    BY <2>1, <2>2
<1>7. Good(n)
  <2>1. n.cache \in [Slots -> Slot]
    BY <1>3, <1>4
  <2>2. n.disk \in [Blocks -> Contents]
    BY <1>3, <1>6
  <2>3. ASSUME NEW j \in Slots, NEW k \in Slots, n.cache[j].valid, n.cache[k].valid,
               n.cache[j].block = n.cache[k].block
        PROVE  j = k
    <3>1. m.cache[j].valid /\ m.cache[k].valid /\ m.cache[j].block = m.cache[k].block
      BY <1>4, <2>3, Zenon
    <3> QED
      BY <3>1 DEF Good
  <2>4. ASSUME NEW j \in Slots, n.cache[j].valid, ~n.cache[j].modified
        PROVE  n.cache[j].data = n.disk[n.cache[j].block]
    <3>0. m.cache[j].valid /\ n.cache[j].block = m.cache[j].block /\ m.cache[j].block \in Blocks
      BY <1>0, <1>4, <2>4 DEF Slot
    <3>1. CASE j \in D
      BY <1>4, <1>6, <3>0, <3>1
    <3>2. CASE j \notin D
      <4>1. \A i \in D : m.cache[i].block # m.cache[j].block
        BY <1>2, <3>0, <3>2 DEF Good
      <4>2. n.disk[m.cache[j].block] = m.disk[m.cache[j].block]
        BY <1>6, <3>0, <4>1
      <4>3. m.cache[j].data = m.disk[m.cache[j].block]
        BY <1>2, <3>0, <3>2 DEF Good
      <4> QED
        BY <1>4, <3>0, <4>2, <4>3
    <3> QED
      BY <3>1, <3>2
  <2> QED
    BY <1>3, <2>1, <2>2, <2>3, <2>4 DEF Good
<1>8. ASSUME NEW b \in Blocks PROVE View(n, b) = View(m, b)
  <2>1. Hits(n, b) = Hits(m, b)
    BY <1>4, <1>7, SameHits
  <2>2. CASE Hits(m, b) = {}
    <3>1. \A i \in D : m.cache[i].block # b
      BY <1>2, <2>2, ViewOf
    <3> QED
      BY <1>6, <1>7, <2>1, <2>2, <3>1, ViewOf
  <2>3. CASE Hits(m, b) # {}
    <3>1. PICK j \in Hits(m, b) : j \in Slots
      BY <2>3, ViewOf
    <3>2. n.cache[j].data = m.cache[j].data
      BY <1>4, <3>1
    <3>3. View(m, b) = m.cache[j].data
      BY <3>1, ViewOf
    <3>4. View(n, b) = n.cache[j].data
      BY <1>7, <2>1, <3>1, ViewOf
    <3> QED
      BY <3>2, <3>3, <3>4
  <2> QED
    BY <2>2, <2>3
<1> QED
  BY <1>7, <1>8 DEF SameView

-----------------------------------------------------------------------------
\* What the callers see.
AsStore == [b \in Blocks |-> View(Record, b)]

CacheInv == CacheTypeOK /\ OneSlotPerBlock /\ CleanIsCurrent

LEMMA RecordBecomes ==
    ASSUME NEW n, Good(n), Becomes(n)
    PROVE  Record' = n /\ CacheInv'
<1>1. Record' = n
  BY DEF Good, Becomes, Record
<1>2. Good(Record)'
  BY <1>1 DEF Good, Record, Becomes
<1> QED
  BY <1>1, <1>2 DEF CacheInv, Good, Record, Slot, CacheTypeOK, OneSlotPerBlock, CleanIsCurrent

\* A step of the cache keeps the invariant, and is a store into one block or is
\* not seen.
LEMMA CacheStep ==
    ASSUME CacheInv, [CacheNext]_<<cache, disk>>
    PROVE  CacheInv' /\ [Seen!Next]_AsStore
<1>0. Good(Record)
  BY GoodRecord DEF CacheInv
<1>1. ASSUME NEW n, Good(n), SameView(Record, n), Becomes(n)
      PROVE  CacheInv' /\ [Seen!Next]_AsStore
  <2>1. Record' = n /\ CacheInv'
    BY <1>1, RecordBecomes
  <2>2. \A b \in Blocks : View(Record', b) = View(Record, b)
    BY <1>1, <2>1 DEF SameView
  <2> QED
    BY <2>1, <2>2 DEF AsStore
<1>2. CASE \E b \in Blocks : Lookup(b)
  BY <1>0, <1>1, <1>2, LookedUp DEF Lookup
<1>3. CASE \E b \in Blocks, c \in Contents : Store(b, c)
  <2>1. PICK b \in Blocks, c \in Contents : Store(b, c)
    BY <1>3
  <2>2. PICK m : m = get_block_cache(Record, b)
    OBVIOUS
  <2>3. PICK n : n = Replaced(m, b, c)
    OBVIOUS
  <2>4. Good(m) /\ SameView(Record, m) /\ Hits(m, b) # {}
    BY <1>0, <2>2, LookedUp
  <2>5. Good(n) /\ \A a \in Blocks : View(n, a) = IF a = b THEN c ELSE View(Record, a)
    BY <2>3, <2>4, Changed DEF SameView
  <2>6. Record' = n /\ CacheInv'
    BY <2>1, <2>2, <2>3, <2>5, RecordBecomes DEF Store
  <2>7. [a \in Blocks |-> View(Record', a)]
           = [[a \in Blocks |-> View(Record, a)] EXCEPT ![b] = c]
    BY <2>5, <2>6
  <2> QED
    BY <2>6, <2>7 DEF AsStore, Seen!Next, Seen!Write
<1>4. CASE \E i \in Slots : Sync(i)
  BY <1>0, <1>1, <1>4, Synced DEF Sync
<1>5. CASE SyncAll
  BY <1>0, <1>1, <1>5, AllSynced DEF SyncAll
<1>6. CASE UNCHANGED <<cache, disk>>
  BY <1>6 DEF CacheInv, CacheTypeOK, OneSlotPerBlock, CleanIsCurrent, Record, AsStore
<1> QED
  BY <1>2, <1>3, <1>4, <1>5, <1>6 DEF CacheNext

LEMMA CacheBegins == CacheInit => CacheInv /\ Seen!TypeOK
<1> SUFFICES ASSUME CacheInit PROVE CacheInv /\ Seen!TypeOK
  OBVIOUS
<1>1. CacheTypeOK /\ \A i \in Slots : ~cache[i].valid
  BY DEF CacheInit, CacheTypeOK, Unused
<1>2. CacheInv
  BY <1>1 DEF CacheInv, OneSlotPerBlock, CleanIsCurrent
<1>3. \A b \in Blocks : View(Record, b) = disk[b]
  BY <1>1 DEF View, Hits, Record, CacheTypeOK
<1> QED
  BY <1>1, <1>2, <1>3 DEF Seen!TypeOK, CacheTypeOK

\* get_block_cache, block_cache_sync: with any number of slots and on any
\* device no block is in two slots, and what a slot holds unmarked is what the
\* device holds.
THEOREM CacheInvariant == CacheSpec => [](OneSlotPerBlock /\ CleanIsCurrent)
<1>1. CacheInv => OneSlotPerBlock /\ CleanIsCurrent
  BY DEF CacheInv
<1> QED
  BY <1>1, CacheBegins, CacheStep, PTL DEF CacheSpec

\* get_block_cache: whatever is looked up, replaced or written back, callers
\* that use a pointer before their next lookup see one array of blocks, which
\* only their own stores change.
THEOREM CacheIsBlockStore == CacheSpec => IsBlockStore
  BY CacheBegins, CacheStep, PTL DEF CacheSpec, IsBlockStore, Seen!Spec, AsStore

-----------------------------------------------------------------------------
(* The layout of a device *)

\* A quotient, as products bound it.
LEMMA DivBounds ==
    ASSUME NEW x \in Nat, NEW n \in Nat \ {0}
    PROVE  /\ x \div n \in Nat
           /\ n * (x \div n) <= x
           /\ x < n * (x \div n) + n
  BY Z3

LEMMA CeilDivBounds ==
    ASSUME NEW x \in Nat, NEW n \in Nat \ {0}
    PROVE  /\ CeilDiv(x, n) \in Nat
           /\ n * CeilDiv(x, n) >= x
<1>1. x + n - 1 \in Nat
  OBVIOUS
<1>2. PICK q : q = (x + n - 1) \div n
  OBVIOUS
<1>3. q \in Nat /\ x + n - 1 < n * q + n
  BY <1>1, <1>2, DivBounds
<1>4. PICK p \in Nat : p = n * q
  BY <1>3
<1>5. p >= x
  BY <1>3, <1>4
<1> QED
  BY <1>2, <1>3, <1>4, <1>5 DEF CeilDiv

\* A product is monotonic.
LEMMA TimesMonotonic ==
    ASSUME NEW n \in Nat, NEW a \in Nat, NEW b \in Nat, a <= b
    PROVE  n * a <= n * b
<1>1. PICK d \in Nat : b = a + d
  <2>1. b - a \in Nat /\ b = a + (b - a)
    OBVIOUS
  <2> QED
    BY <2>1
<1>2. n * b = n * a + n * d
  BY <1>1
<1>3. n * d \in Nat /\ n * a \in Nat
  OBVIOUS
<1> QED
  BY <1>2, <1>3

\* The number below x is in the part below.
LEMMA DivBelow ==
    ASSUME NEW x \in Nat, NEW n \in Nat \ {0}, NEW i \in Nat, i < x
    PROVE  i \div n < CeilDiv(x, n)
<1>1. PICK k \in Nat : k = i \div n /\ n * k <= i
  BY DivBounds
<1>2. PICK c \in Nat : c = CeilDiv(x, n) /\ n * c >= x
  BY CeilDivBounds
<1>3. SUFFICES ASSUME c <= k PROVE FALSE
  BY <1>1, <1>2
<1>4. n * c <= n * k
  BY <1>3, TimesMonotonic
<1>5. PICK p \in Nat, q \in Nat : p = n * c /\ q = n * k
  OBVIOUS
<1> QED
  BY <1>1, <1>2, <1>4, <1>5

\* efs_create, efs_open: on a device of any size with room for a block of data,
\* and whatever the sizes of blocks and inodes, the kernel finds the areas where
\* the tool put them, and every inode and every data block has its place.
THEOREM LayoutHolds == \A total \in Nat : BigEnough(total) => LayoutAgrees(total)
<1> SUFFICES ASSUME NEW total \in Nat, BigEnough(total) PROVE LayoutAgrees(total)
  OBVIOUS
<1> USE LayoutAssumption
<1>1. PICK inodes \in Nat : inodes = INODE_BITMAP_BLOCKS * BLOCK_BITS
  OBVIOUS
<1>2. PICK area \in Nat : area = inode_area_size
  BY <1>1, CeilDivBounds DEF inode_area_size
<1>3. PICK rest \in Nat : rest = total - 1 - (INODE_BITMAP_BLOCKS + area)
  BY <1>2 DEF BigEnough
<1>4. PICK bitmap \in Nat : /\ bitmap = data_bitmap_size(rest)
                           /\ rest + BLOCK_BITS < (BLOCK_BITS + 1) * bitmap + (BLOCK_BITS + 1)
  <2>1. rest + BLOCK_BITS \in Nat /\ BLOCK_BITS + 1 \in Nat \ {0}
    BY <1>3
  <2> QED
    BY <2>1, DivBounds DEF data_bitmap_size
<1> DEFINE sb == super_block(total)
           areas == efs_open(sb)
<1>5. sb = [total_blocks        |-> total,
            inode_bitmap_blocks |-> INODE_BITMAP_BLOCKS,
            inode_area_blocks   |-> area,
            data_bitmap_blocks  |-> bitmap,
            data_area_blocks    |-> rest - bitmap]
  BY <1>2, <1>3, <1>4 DEF super_block
<1>6. areas = [inode_bitmap |-> [start |-> 1, blocks |-> INODE_BITMAP_BLOCKS],
            data_bitmap  |-> [start |-> 1 + (INODE_BITMAP_BLOCKS + area), blocks |-> bitmap],
            inode_area_start_block |-> 1 + INODE_BITMAP_BLOCKS,
            data_area_start_block  |-> 1 + (INODE_BITMAP_BLOCKS + area) + bitmap]
  BY <1>5 DEF efs_open
<1>7. areas = efs_create_areas(total)
  <2>1. /\ 1 + (INODE_BITMAP_BLOCKS + area) = 1 + INODE_BITMAP_BLOCKS + area
        /\ 1 + (INODE_BITMAP_BLOCKS + area) + bitmap = 1 + INODE_BITMAP_BLOCKS + area + bitmap
    OBVIOUS
  <2> HIDE DEF areas, sb
  <2>2. efs_create_areas(total)
          = [inode_bitmap |-> [start |-> 1, blocks |-> INODE_BITMAP_BLOCKS],
             data_bitmap  |-> [start  |-> 1 + INODE_BITMAP_BLOCKS + area, blocks |-> bitmap],
             inode_area_start_block |-> 1 + INODE_BITMAP_BLOCKS,
             data_area_start_block  |-> 1 + INODE_BITMAP_BLOCKS + area + bitmap]
    BY <1>2, <1>5 DEF efs_create_areas, sb
  <2> QED
    BY <1>6, <2>1, <2>2
<1>8. ASSUME NEW i \in 0..(sb.inode_bitmap_blocks * BLOCK_BITS - 1)
      PROVE  efs_get_disk_inode_pos(areas, i).block < areas.data_bitmap.start
  <2>1. i \in Nat /\ i < inodes
    BY <1>1, <1>5
  <2>2. PICK k \in Nat : k = i \div INODES_PER_BLOCK /\ k < area
    BY <1>1, <1>2, <2>1, DivBelow, DivBounds DEF inode_area_size
  <2> QED
    BY <1>6, <2>2 DEF efs_get_disk_inode_pos
<1>9. sb.data_bitmap_blocks * BLOCK_BITS >= sb.data_area_blocks
  <2>1. PICK p \in Nat : p = bitmap * BLOCK_BITS
    OBVIOUS
  <2>2. (BLOCK_BITS + 1) * bitmap = p + bitmap
    BY <2>1
  <2>3. rest - bitmap <= p
    BY <1>4, <2>2
  <2> QED
    BY <1>5, <2>1, <2>3
<1>10. areas.data_area_start_block + sb.data_area_blocks = total
  BY <1>3, <1>5, <1>6
<1> QED
  BY <1>7, <1>8, <1>9, <1>10 DEF LayoutAgrees

-----------------------------------------------------------------------------
(* The file calls.  Records of the slots and the device, whatever they hold *)

IsSlot(s) == /\ s = [valid |-> s.valid, block |-> s.block, modified |-> s.modified, data |-> s.data]
             /\ s.valid \in BOOLEAN /\ s.modified \in BOOLEAN

IsRecord(m) ==
    /\ m = [cache |-> m.cache, disk |-> m.disk, stale |-> m.stale]
    /\ m.cache = [i \in DOMAIN m.cache |-> m.cache[i]]
    /\ m.disk = [b \in Blocks |-> m.disk[b]]
    /\ DOMAIN m.cache \subseteq Nat /\ 0 \in DOMAIN m.cache
    /\ \A i \in DOMAIN m.cache : IsSlot(m.cache[i])

\* A slot that shows a change which is not marked as one.
Unmarked(m, i) == /\ m.cache[i].valid /\ ~m.cache[i].modified /\ m.cache[i].block \in Blocks
                  /\ m.cache[i].data # m.disk[m.cache[i].block]

\* No block is in two slots, and none is changed without a mark but those of B.
Sound(m, B) ==
    /\ IsRecord(m)
    /\ \A i, j \in DOMAIN m.cache :
           m.cache[i].valid /\ m.cache[j].valid /\ m.cache[i].block = m.cache[j].block => i = j
    /\ \A i \in DOMAIN m.cache : Unmarked(m, i) => m.cache[i].block \in B

\* Nothing is to be written.
Clean(m) == Sound(m, {}) /\ \A i \in DOMAIN m.cache : m.cache[i].valid => ~m.cache[i].modified

\* From m to n the slots keep their blocks, and what changes is marked, or is a
\* block of B.
Touched(m, n, B) ==
    /\ IsRecord(n)
    /\ n.disk = m.disk /\ DOMAIN n.cache = DOMAIN m.cache
    /\ \A i \in DOMAIN m.cache :
           /\ n.cache[i].valid = m.cache[i].valid /\ n.cache[i].block = m.cache[i].block
           /\ n.cache[i] = m.cache[i] \/ n.cache[i].modified \/ m.cache[i].block \in B

LEMMA TouchedSound ==
    ASSUME NEW B, NEW m, Sound(m, B), NEW n, Touched(m, n, B)
    PROVE  Sound(n, B)
  BY DEF Touched, Sound, Unmarked

\* A record with another slot i.
LEMMA SlotChanged ==
    ASSUME NEW m, IsRecord(m), NEW i, NEW s, IsSlot(s), NEW n, n = [m EXCEPT !.cache[i] = s]
    PROVE  /\ IsRecord(n)
           /\ n.disk = m.disk /\ DOMAIN n.cache = DOMAIN m.cache
           /\ i \in DOMAIN m.cache => n.cache[i] = s
           /\ \A j \in DOMAIN m.cache : j # i => n.cache[j] = m.cache[j]
<1>1. n = [cache |-> [m.cache EXCEPT ![i] = s], disk |-> m.disk, stale |-> m.stale]
  BY DEF IsRecord
<1>2. n.cache = [m.cache EXCEPT ![i] = s] /\ n.disk = m.disk
      /\ n = [cache |-> n.cache, disk |-> n.disk, stale |-> n.stale]
  BY <1>1
<1>3. DOMAIN n.cache = DOMAIN m.cache /\ n.cache = [j \in DOMAIN m.cache |-> n.cache[j]]
  BY <1>2 DEF IsRecord
<1>4. /\ i \in DOMAIN m.cache => n.cache[i] = s
      /\ \A j \in DOMAIN m.cache : j # i => n.cache[j] = m.cache[j]
  BY <1>2 DEF IsRecord
<1> QED
  BY <1>2, <1>3, <1>4 DEF IsRecord

\* Its data, and its modified flag.
LEMMA DataPut ==
    ASSUME NEW B, NEW m, IsRecord(m), NEW i, NEW d, NEW n, n = [m EXCEPT !.cache[i].data = d]
    PROVE  /\ IsRecord(n)
           /\ n.disk = m.disk /\ DOMAIN n.cache = DOMAIN m.cache
           /\ \A j \in DOMAIN m.cache :
                 /\ n.cache[j].valid = m.cache[j].valid /\ n.cache[j].block = m.cache[j].block
                 /\ n.cache[j].modified = m.cache[j].modified
                 /\ j # i => n.cache[j] = m.cache[j]
<1>1. PICK s : s = [m.cache[i] EXCEPT !.data = d]
  OBVIOUS
<1>2. CASE i \in DOMAIN m.cache
  <2>1. /\ IsSlot(s) /\ s.valid = m.cache[i].valid /\ s.block = m.cache[i].block
        /\ s.modified = m.cache[i].modified
    BY <1>1, <1>2 DEF IsRecord, IsSlot
  <2>2. n = [m EXCEPT !.cache[i] = s]
    BY <1>1
  <2> QED
    BY <2>1, <2>2, SlotChanged
<1>3. CASE i \notin DOMAIN m.cache
  <2>1. n = [m EXCEPT !.cache = [m.cache EXCEPT ![i] = s]]
    BY <1>1
  <2>2. [m.cache EXCEPT ![i] = s] = m.cache
    BY <1>3 DEF IsRecord
  <2>3. n = m
    BY <2>1, <2>2 DEF IsRecord
  <2> QED
    BY <2>3
<1> QED
  BY <1>2, <1>3

\* A slot with another modified flag.
LEMMA FlagSet ==
    ASSUME NEW s, IsSlot(s), NEW r, r = [s EXCEPT !.modified = TRUE] \/ r = [s EXCEPT !.modified = FALSE]
    PROVE  /\ IsSlot(r) /\ r.valid = s.valid /\ r.block = s.block /\ r.data = s.data
           /\ r = [s EXCEPT !.modified = TRUE] => r.modified = TRUE
           /\ r = [s EXCEPT !.modified = FALSE] => r.modified = FALSE
<1>1. CASE r = [s EXCEPT !.modified = TRUE]
  <2>1. r = [valid |-> s.valid, block |-> s.block, modified |-> TRUE, data |-> s.data]
    BY <1>1 DEF IsSlot
  <2>2. [s EXCEPT !.modified = FALSE].modified = FALSE /\ r.modified = TRUE
    BY <2>1 DEF IsSlot
  <2> QED
    BY <1>1, <2>1, <2>2 DEF IsSlot
<1>2. CASE r = [s EXCEPT !.modified = FALSE]
  <2>1. r = [valid |-> s.valid, block |-> s.block, modified |-> FALSE, data |-> s.data]
    BY <1>2 DEF IsSlot
  <2>2. [s EXCEPT !.modified = TRUE].modified = TRUE /\ r.modified = FALSE
    BY <2>1 DEF IsSlot
  <2> QED
    BY <1>2, <2>1, <2>2 DEF IsSlot
<1> QED
  BY <1>1, <1>2

\* The data of a slot, and its mark.
LEMMA PutMarked ==
    ASSUME NEW B, NEW m, Sound(m, B), NEW p, NEW d
    PROVE  /\ Sound(mark(m, p), B)
           /\ Sound(mark([m EXCEPT !.cache[p.slot].data = d], p), B)
<1>0. IsRecord(m)
  BY DEF Sound
<1>1. ASSUME NEW n, IsRecord(n), n.disk = m.disk, DOMAIN n.cache = DOMAIN m.cache,
             \A j \in DOMAIN m.cache :
                 /\ n.cache[j].valid = m.cache[j].valid /\ n.cache[j].block = m.cache[j].block
                 /\ j # p.slot => n.cache[j] = m.cache[j]
      PROVE  Sound(mark(n, p), B)
  <2>1. PICK k : k = mark(n, p)
    OBVIOUS
  <2>2. PICK s : s = [n.cache[p.slot] EXCEPT !.modified = TRUE]
    OBVIOUS
  <2>3. CASE p.slot \in DOMAIN n.cache
    <3>1. IsSlot(s) /\ s.valid = n.cache[p.slot].valid /\ s.block = n.cache[p.slot].block
          /\ s.modified = TRUE
      <4>1. PICK r : r = n.cache[p.slot]
        OBVIOUS
      <4>2. IsSlot(r) /\ s = [r EXCEPT !.modified = TRUE]
        BY <1>1, <2>2, <2>3, <4>1 DEF IsRecord
      <4>3. IsSlot(s) /\ s.valid = r.valid /\ s.block = r.block /\ s.modified = TRUE
        BY <4>2, FlagSet
      <4> QED
        BY <4>1, <4>3
    <3>2. k = [n EXCEPT !.cache[p.slot] = s]
      BY <2>1, <2>2 DEF mark
    <3>3. /\ IsRecord(k) /\ k.disk = n.disk /\ DOMAIN k.cache = DOMAIN n.cache
          /\ k.cache[p.slot] = s
          /\ \A j \in DOMAIN n.cache : j # p.slot => k.cache[j] = n.cache[j]
      BY <1>1, <2>3, <3>1, <3>2, SlotChanged
    <3>4. Touched(m, k, B)
      BY <1>1, <2>3, <3>1, <3>3 DEF Touched
    <3> QED
      BY <2>1, <3>4, TouchedSound
  <2>4. CASE p.slot \notin DOMAIN n.cache
    <3>1. k = [n EXCEPT !.cache = [n.cache EXCEPT ![p.slot] = s]]
      BY <2>1, <2>2 DEF mark
    <3>2. [n.cache EXCEPT ![p.slot] = s] = n.cache
      BY <1>1, <2>4 DEF IsRecord
    <3>3. k = n
      BY <1>1, <3>1, <3>2 DEF IsRecord
    <3>4. Touched(m, n, B)
      BY <1>1, <2>4 DEF Touched
    <3> QED
      BY <2>1, <3>3, <3>4, TouchedSound
  <2> QED
    BY <2>3, <2>4
<1>2. PICK n : n = [m EXCEPT !.cache[p.slot].data = d]
  OBVIOUS
<1>3. /\ IsRecord(n) /\ n.disk = m.disk /\ DOMAIN n.cache = DOMAIN m.cache
      /\ \A j \in DOMAIN m.cache :
            /\ n.cache[j].valid = m.cache[j].valid /\ n.cache[j].block = m.cache[j].block
            /\ j # p.slot => n.cache[j] = m.cache[j]
  BY <1>0, <1>2, DataPut
<1>4. Sound(mark(n, p), B)
  BY <1>1, <1>3
<1>5. Sound(mark(m, p), B)
  BY <1>0, <1>1
<1> QED
  BY <1>2, <1>4, <1>5

\* A pointer that is used leaves a note at most.
LEMMA Noted ==
    ASSUME NEW m, IsRecord(m), NEW v, NEW n, n = [m EXCEPT !.stale = v]
    PROVE  /\ \A B : Sound(m, B) => Sound(n, B)
           /\ Clean(m) => Clean(n)
<1>1. n = [cache |-> m.cache, disk |-> m.disk, stale |-> v]
  BY DEF IsRecord
<1>2. n.cache = m.cache /\ n.disk = m.disk
  BY <1>1
<1>3. IsRecord(n)
  BY <1>1, <1>2 DEF IsRecord
<1>4. \A B : Sound(m, B) => Sound(n, B)
  BY <1>2, <1>3 DEF Sound, Unmarked
<1> QED
  BY <1>2, <1>4 DEF Clean

LEMMA UsedSound ==
    ASSUME NEW m, NEW p
    PROVE  /\ \A B : Sound(m, B) => Sound(using(m, p), B)
           /\ Clean(m) => Clean(using(m, p))
<1>1. PICK v : using(m, p) = [m EXCEPT !.stale = v]
  BY DEF using
<1>2. (\E B : Sound(m, B)) \/ Clean(m) => IsRecord(m)
  BY DEF Sound, Clean
<1> QED
  BY <1>1, <1>2, Noted

\* The blocks of B include the one that p points into.
Mine(p, B) == p.block \in Blocks => p.block \in B

\* A store through a pointer, with its mark and without.
LEMMA Stored ==
    ASSUME NEW B, NEW m, Sound(m, B), NEW p, NEW i, NEW v
    PROVE  /\ Sound(mark(store(m, p, i, v), p), B)
           /\ Mine(p, B) => Sound(store(m, p, i, v), B)
<1>0. IsRecord(m)
  BY DEF Sound
<1>1. CASE Fresh(m, p)
  <2>1. PICK d : d = [m.cache[p.slot].data EXCEPT ![i] = v]
    OBVIOUS
  <2>2. PICK n : n = [m EXCEPT !.cache[p.slot].data = d]
    OBVIOUS
  <2>3. store(m, p, i, v) = n
    BY <1>1, <2>1, <2>2 DEF store
  <2>4. Sound(mark(n, p), B)
    BY <2>2, PutMarked
  <2>5. ASSUME Mine(p, B) PROVE Sound(n, B)
    <3>1. /\ IsRecord(n) /\ n.disk = m.disk /\ DOMAIN n.cache = DOMAIN m.cache
          /\ \A j \in DOMAIN m.cache :
                /\ n.cache[j].valid = m.cache[j].valid /\ n.cache[j].block = m.cache[j].block
                /\ j # p.slot => n.cache[j] = m.cache[j]
      BY <1>0, <2>2, DataPut
    <3>2. \A j \in DOMAIN m.cache : j = p.slot => m.cache[j].block = p.block
      BY <1>1 DEF Fresh
    <3> QED
      BY <2>5, <3>1, <3>2 DEF Sound, Unmarked, Mine
  <2> QED
    BY <2>3, <2>4, <2>5
<1>2. CASE ~Fresh(m, p)
  <2>1. PICK n : n = [m EXCEPT !.stale = TRUE]
    OBVIOUS
  <2>2. store(m, p, i, v) = n /\ Sound(n, B)
    BY <1>0, <1>2, <2>1, Noted DEF store
  <2> QED
    BY <2>2, PutMarked
<1> QED
  BY <1>1, <1>2

LEMMA AssignSound ==
    ASSUME NEW B, NEW m, Sound(m, B), NEW di, Mine(di, B), NEW d
    PROVE  Sound(Assign(m, di, d), B)
  BY Stored DEF Assign

-----------------------------------------------------------------------------
(* Lookups *)

LEMMA VictimThere ==
    ASSUME NEW m, IsRecord(m)
    PROVE  Victim(m) \in DOMAIN m.cache
<1>1. Empty(m) \subseteq DOMAIN m.cache /\ Empty(m) \subseteq Nat
  BY DEF Empty, IsRecord
<1> QED
  BY <1>1, FirstIsOne DEF Victim, IsRecord

\* block_cache_sync: the slot has nothing left to write.
LEMMA SyncSound ==
    ASSUME NEW B, NEW m, Sound(m, B), NEW i \in DOMAIN m.cache,
           NEW n, n = block_cache_sync(m, i)
    PROVE  /\ Sound(n, B) /\ DOMAIN n.cache = DOMAIN m.cache
           /\ \A j \in DOMAIN m.cache : /\ n.cache[j].valid = m.cache[j].valid
                                        /\ n.cache[j].block = m.cache[j].block
           /\ ~(n.cache[i].valid /\ n.cache[i].modified)
<1>0. IsRecord(m)
  BY DEF Sound
<1>1. CASE ~(m.cache[i].valid /\ m.cache[i].modified)
  BY <1>1 DEF block_cache_sync
<1>2. CASE m.cache[i].valid /\ m.cache[i].modified
  <2>1. PICK s : s = [m.cache[i] EXCEPT !.modified = FALSE]
    OBVIOUS
  <2>2. PICK k : k = [m EXCEPT !.cache[i] = s]
    OBVIOUS
  <2>3. /\ IsSlot(s) /\ s.valid = m.cache[i].valid /\ s.block = m.cache[i].block
        /\ s.data = m.cache[i].data /\ s.modified = FALSE
    <3>1. IsSlot(m.cache[i])
      BY <1>0 DEF IsRecord
    <3> QED
      BY <2>1, <3>1, FlagSet
  <2>4. /\ IsRecord(k) /\ k.disk = m.disk /\ DOMAIN k.cache = DOMAIN m.cache
        /\ k.cache[i] = s /\ \A j \in DOMAIN m.cache : j # i => k.cache[j] = m.cache[j]
    BY <1>0, <2>2, <2>3, SlotChanged
  <2>5. n = [k EXCEPT !.disk = [m.disk EXCEPT ![s.block] = s.data]]
    BY <1>0, <1>2, <2>1, <2>2, <2>3 DEF block_cache_sync, IsRecord
  <2>6. /\ n = [cache |-> k.cache, disk |-> n.disk, stale |-> k.stale]
        /\ n.cache = k.cache /\ n.disk = [m.disk EXCEPT ![s.block] = s.data]
    BY <2>4, <2>5 DEF IsRecord
  <2>7. /\ n.disk = [b \in Blocks |-> n.disk[b]]
        /\ s.block \in Blocks => n.disk[s.block] = s.data
        /\ \A b \in Blocks : b # s.block => n.disk[b] = m.disk[b]
    BY <1>0, <2>6 DEF IsRecord
  <2>8. IsRecord(n)
    BY <2>4, <2>6, <2>7 DEF IsRecord
  <2>9. ASSUME NEW j \in DOMAIN n.cache, Unmarked(n, j) PROVE n.cache[j].block \in B
    <3>1. CASE j = i
      BY <2>3, <2>4, <2>6, <2>7, <2>9, <3>1 DEF Unmarked
    <3>2. CASE j # i
      <4>1. n.cache[j] = m.cache[j] /\ j \in DOMAIN m.cache /\ n.cache[j].valid
        BY <2>4, <2>6, <2>9, <3>2 DEF Unmarked
      <4>2. n.cache[j].block # s.block
        BY <1>2, <2>3, <3>2, <4>1 DEF Sound
      <4>3. Unmarked(m, j)
        BY <2>7, <2>9, <4>1, <4>2 DEF Unmarked
      <4> QED
        BY <4>1, <4>3 DEF Sound
    <3> QED
      BY <3>1, <3>2
  <2>10. ASSUME NEW j \in DOMAIN n.cache, NEW l \in DOMAIN n.cache, n.cache[j].valid,
                n.cache[l].valid, n.cache[j].block = n.cache[l].block
         PROVE  j = l
    BY <2>3, <2>4, <2>6, <2>10 DEF Sound
  <2>11. Sound(n, B)
    BY <2>8, <2>9, <2>10 DEF Sound
  <2> QED
    BY <2>3, <2>4, <2>6, <2>11
<1> QED
  BY <1>1, <1>2

\* The slot gets a block that no other has, as the device holds it.
LEMMA LoadedSound ==
    ASSUME NEW B, NEW m, Sound(m, B), NEW i \in DOMAIN m.cache, NEW b, Hits(m, b) = {},
           NEW n, n = Loaded(m, i, b)
    PROVE  /\ Sound(n, B) /\ DOMAIN n.cache = DOMAIN m.cache
           /\ n.cache[i].valid /\ n.cache[i].block = b /\ ~n.cache[i].modified
           /\ \A j \in DOMAIN m.cache : j # i => n.cache[j] = m.cache[j]
<1>1. PICK s : s = [valid |-> TRUE, block |-> b, modified |-> FALSE, data |-> m.disk[b]]
  OBVIOUS
<1>2. IsSlot(s)
  BY <1>1 DEF IsSlot
<1>3. n = [m EXCEPT !.cache[i] = s]
  BY <1>1 DEF Loaded
<1>4. /\ IsRecord(n) /\ n.disk = m.disk /\ DOMAIN n.cache = DOMAIN m.cache
      /\ n.cache[i] = s /\ \A j \in DOMAIN m.cache : j # i => n.cache[j] = m.cache[j]
  BY <1>2, <1>3, SlotChanged DEF Sound
<1>5. \A j \in DOMAIN m.cache : ~(m.cache[j].valid /\ m.cache[j].block = b)
  BY DEF Hits
<1>6. ASSUME NEW j \in DOMAIN n.cache, NEW l \in DOMAIN n.cache, n.cache[j].valid,
             n.cache[l].valid, n.cache[j].block = n.cache[l].block
      PROVE  j = l
  BY <1>1, <1>4, <1>5, <1>6 DEF Sound
<1>7. ASSUME NEW j \in DOMAIN n.cache, Unmarked(n, j) PROVE n.cache[j].block \in B
  BY <1>1, <1>4, <1>7 DEF Sound, Unmarked
<1> QED
  BY <1>1, <1>4, <1>6, <1>7 DEF Sound

LEMMA LookupSound ==
    ASSUME NEW m, NEW b
    PROVE  /\ \A B : Sound(m, B) => Sound(get_block_cache(m, b), B)
           /\ Clean(m) => Clean(get_block_cache(m, b))
           /\ (\E B : Sound(m, B)) => Hits(get_block_cache(m, b), b) # {}
<1>1. ASSUME NEW B, Sound(m, B)
      PROVE  /\ Sound(get_block_cache(m, b), B)
             /\ Clean(m) => Clean(get_block_cache(m, b))
             /\ Hits(get_block_cache(m, b), b) # {}
  <2>1. CASE Hits(m, b) # {}
    BY <1>1, <2>1 DEF get_block_cache
  <2>2. CASE Hits(m, b) = {}
    <3>0. PICK i \in DOMAIN m.cache : i = Victim(m)
      BY <1>1, VictimThere DEF Sound
    <3>1. PICK k : k = block_cache_sync(m, i)
      OBVIOUS
    <3>2. PICK n : n = Loaded(k, i, b)
      OBVIOUS
    <3>3. n = get_block_cache(m, b)
      BY <2>2, <3>0, <3>1, <3>2 DEF get_block_cache
    <3>4. /\ Sound(k, B) /\ DOMAIN k.cache = DOMAIN m.cache
          /\ \A j \in DOMAIN m.cache : /\ k.cache[j].valid = m.cache[j].valid
                                       /\ k.cache[j].block = m.cache[j].block
      BY <1>1, <3>1, SyncSound
    <3>5. Hits(k, b) = {}
      BY <2>2, <3>4 DEF Hits
    <3>6. /\ Sound(n, B) /\ DOMAIN n.cache = DOMAIN k.cache
          /\ n.cache[i].valid /\ n.cache[i].block = b /\ ~n.cache[i].modified
          /\ \A j \in DOMAIN k.cache : j # i => n.cache[j] = k.cache[j]
      BY <3>2, <3>4, <3>5, LoadedSound
    <3>7. ASSUME Clean(m) PROVE Clean(n)
      <4>1. k = m
        BY <3>0, <3>1, <3>7 DEF Clean, block_cache_sync
      <4>2. Sound(m, {}) /\ Sound(n, {})
        BY <3>2, <3>5, <3>7, <4>1, LoadedSound DEF Clean
      <4> QED
        BY <3>6, <3>7, <4>1, <4>2 DEF Clean
    <3>8. i \in Hits(n, b)
      BY <3>4, <3>6 DEF Hits
    <3> QED
      BY <3>3, <3>6, <3>7, <3>8
  <2> QED
    BY <2>1, <2>2
<1>2. Clean(m) => Sound(m, {})
  BY DEF Clean
<1> QED
  BY <1>1, <1>2

\* A change to a block, and its lookup before.
LEMMA EditSound ==
    ASSUME NEW B, NEW m, Sound(m, B), NEW b, NEW i, NEW v
    PROVE  Sound(Edit(m, b, i, v), B)
  BY Stored, LookupSound DEF Edit, Change

-----------------------------------------------------------------------------
\* block_cache_sync_all: nothing is left to write.
LEMMA SyncAllClean ==
    ASSUME NEW m, Sound(m, {})
    PROVE  Clean(block_cache_sync_all(m))
<1>0. IsRecord(m)
  BY DEF Sound
<1>1. PICK D : D = Dirty(m)
  OBVIOUS
<1>2. \A i \in DOMAIN m.cache : i \in D <=> m.cache[i].valid /\ m.cache[i].modified
  BY <1>1 DEF Dirty
<1>3. D \subseteq DOMAIN m.cache
  BY <1>1 DEF Dirty
<1>4. PICK n : n = block_cache_sync_all(m)
  OBVIOUS
<1>5. PICK c, d : /\ c = [i \in DOMAIN m.cache |-> IF i \in D THEN [m.cache[i] EXCEPT !.modified = FALSE]
                                                 ELSE m.cache[i]]
                  /\ d = [b \in DOMAIN m.disk |-> IF \E i \in D : m.cache[i].block = b
                                                   THEN View(m, b) ELSE m.disk[b]]
  OBVIOUS
<1>6. n = [m EXCEPT !.disk = d, !.cache = c]
  BY <1>1, <1>4, <1>5 DEF block_cache_sync_all, Written
<1>7. n = [cache |-> c, disk |-> d, stale |-> m.stale]
  BY <1>0, <1>6 DEF IsRecord
<1>8. n.cache = c /\ n.disk = d /\ n.stale = m.stale
  BY <1>7
<1>9. DOMAIN c = DOMAIN m.cache /\ c = [i \in DOMAIN c |-> c[i]]
  BY <1>5
<1>10. ASSUME NEW i \in DOMAIN m.cache
       PROVE  /\ IsSlot(c[i])
              /\ c[i].valid = m.cache[i].valid /\ c[i].block = m.cache[i].block
              /\ c[i].data = m.cache[i].data
              /\ c[i].valid => ~c[i].modified
  <2>0. IsSlot(m.cache[i])
    BY <1>0 DEF IsRecord
  <2>1. CASE i \in D
    <3>1. c[i] = [m.cache[i] EXCEPT !.modified = FALSE]
      BY <1>5, <2>1
    <3> QED
      BY <2>0, <3>1 DEF IsSlot
  <2>2. CASE i \notin D
    <3>1. c[i] = m.cache[i]
      BY <1>5, <2>2
    <3> QED
      BY <1>2, <2>0, <2>2, <3>1
  <2> QED
    BY <2>1, <2>2
<1>11. DOMAIN m.disk = Blocks
  BY <1>0 DEF IsRecord
<1>12. d = [b \in Blocks |-> d[b]]
  BY <1>5, <1>11
<1>13. IsRecord(n)
  BY <1>0, <1>7, <1>8, <1>9, <1>10, <1>12 DEF IsRecord
\* A slot that is written holds what is seen of its block.
<1>14. ASSUME NEW i \in DOMAIN m.cache, m.cache[i].valid
       PROVE  View(m, m.cache[i].block) = m.cache[i].data
  <2>1. PICK H : H = Hits(m, m.cache[i].block)
    OBVIOUS
  <2>2. i \in H /\ H \subseteq DOMAIN m.cache
    BY <1>14, <2>1 DEF Hits
  <2>3. First(H) \in H
    BY <1>0, <2>2, FirstIsOne DEF IsRecord
  <2>4. First(H) = i
    BY <1>14, <2>1, <2>2, <2>3 DEF Sound, Hits
  <2> QED
    BY <2>1, <2>2, <2>4 DEF View
<1>15. ASSUME NEW i \in DOMAIN m.cache, m.cache[i].valid, m.cache[i].block \in Blocks
       PROVE  d[m.cache[i].block] = m.cache[i].data
  <2>1. CASE i \in D
    <3>1. d[m.cache[i].block] = View(m, m.cache[i].block)
      BY <1>5, <1>11, <1>15, <2>1
    <3> QED
      BY <1>14, <1>15, <3>1
  <2>2. CASE i \notin D
    <3>1. ~\E j \in D : m.cache[j].block = m.cache[i].block
      BY <1>2, <1>3, <1>15, <2>2 DEF Sound
    <3>2. d[m.cache[i].block] = m.disk[m.cache[i].block]
      BY <1>5, <1>11, <1>15, <3>1
    <3>3. ~Unmarked(m, i)
      BY DEF Sound
    <3> QED
      BY <1>2, <1>15, <2>2, <3>2, <3>3 DEF Unmarked
  <2> QED
    BY <2>1, <2>2
<1>16. ASSUME NEW i \in DOMAIN n.cache PROVE ~Unmarked(n, i)
  BY <1>8, <1>9, <1>10, <1>15 DEF Unmarked
<1>17. ASSUME NEW i \in DOMAIN n.cache, NEW j \in DOMAIN n.cache, n.cache[i].valid,
              n.cache[j].valid, n.cache[i].block = n.cache[j].block
       PROVE  i = j
  BY <1>8, <1>9, <1>10, <1>17 DEF Sound
<1>18. Sound(n, {})
  BY <1>13, <1>16, <1>17 DEF Sound
<1> QED
  BY <1>4, <1>8, <1>9, <1>10, <1>18 DEF Clean

\* inode_mark_modified: what was stored in the inode's block without a mark.
LEMMA MarkedAgain ==
    ASSUME NEW B, NEW m, Sound(m, B), NEW i
    PROVE  /\ Sound(inode_mark_modified(m, i), B)
           /\ B \subseteq {i.block} => Sound(inode_mark_modified(m, i), {})
<1>1. PICK k : k = get_block_cache(m, i.block)
  OBVIOUS
<1>2. Sound(k, B) /\ Hits(k, i.block) # {}
  BY <1>1, LookupSound
<1>3. PICK p : p = Pointer(k, i.block)
  OBVIOUS
<1>4. PICK n : n = mark(k, p)
  OBVIOUS
<1>5. Sound(n, B)
  BY <1>2, <1>4, PutMarked
<1>6. inode_mark_modified(m, i) = n
  BY <1>1, <1>3, <1>4 DEF inode_mark_modified
<1>7. ASSUME B \subseteq {i.block} PROVE Sound(n, {})
  <2>1. IsRecord(k)
    BY <1>2 DEF Sound
  <2>2. Hits(k, i.block) \subseteq Nat
    BY <2>1 DEF Hits, IsRecord
  <2>3. /\ p.slot \in DOMAIN k.cache
        /\ k.cache[p.slot].valid /\ k.cache[p.slot].block = i.block
    BY <1>2, <1>3, <2>2, FirstIsOne DEF Pointer, SlotOf, Hits
  <2>4. PICK s : s = [k.cache[p.slot] EXCEPT !.modified = TRUE]
    OBVIOUS
  <2>5. /\ IsSlot(s) /\ s.block = i.block /\ s.modified = TRUE
        /\ s.valid = k.cache[p.slot].valid
    <3>1. IsSlot(k.cache[p.slot])
      BY <2>1, <2>3 DEF IsRecord
    <3> QED
      BY <2>3, <2>4, <3>1, FlagSet
  <2>6. n = [k EXCEPT !.cache[p.slot] = s]
    BY <1>4, <2>4 DEF mark
  <2>7. DOMAIN n.cache = DOMAIN k.cache /\ n.cache[p.slot] = s
    BY <2>1, <2>3, <2>5, <2>6, SlotChanged
  <2>8. \A j \in DOMAIN n.cache : ~Unmarked(n, j)
    <3>1. ASSUME NEW j \in DOMAIN n.cache, n.cache[j].valid, n.cache[j].block = i.block
          PROVE  n.cache[j].modified
      <4>1. n.cache[p.slot].valid /\ n.cache[p.slot].block = i.block
        BY <2>3, <2>5, <2>7
      <4>2. j = p.slot
        BY <1>5, <2>3, <2>7, <3>1, <4>1 DEF Sound
      <4> QED
        BY <2>5, <2>7, <4>2
    <3> QED
      BY <1>5, <1>7, <3>1 DEF Sound, Unmarked
  <2> QED
    BY <1>5, <2>8 DEF Sound
<1> QED
  BY <1>5, <1>6, <1>7

-----------------------------------------------------------------------------
(* Loops *)

LEMMA LoopsEnd ==
    ASSUME NEW a, NEW b
    PROVE  /\ MAX_ROUNDS \in Nat
           /\ DOMAIN UpTo(b) \subseteq 1..MAX_ROUNDS
           /\ DOMAIN FromTo(a, b) \subseteq 1..MAX_ROUNDS
           /\ DOMAIN Covering(a, b) \subseteq 1..MAX_ROUNDS
<1>1. \A x, y \in Nat : x * y \in Nat
  OBVIOUS
<1>2. MAX_ROUNDS \in Nat
  BY <1>1, CacheAssumption, EasyFsAssumption DEF MAX_ROUNDS
<1> QED
  BY <1>2 DEF UpTo, FromTo, Rounds, Covering

\* bitmap_alloc looks the blocks up one by one.
LookUp(q, x, k) == get_block_cache(x, q.bm.start + k)
Scan == INSTANCE FoldInduction WITH op <- LookUp, Keep <- LAMBDA q, x : Sound(x, q.B)

Scanned(q, m, n) == Each(LAMBDA x, k : LookUp(q, x, k), m, UpTo(n))

LEMMA ScanSound ==
    ASSUME NEW q, NEW m, Sound(m, q.B), NEW n
    PROVE  Sound(Scanned(q, m, n), q.B)
<1>1. Scanned(q, m, n) = Scan!Folded(q, m, UpTo(n))
  BY DEF Scanned, Each, FoldLeft, MapThenFoldSet,
         Scan!Folded, Scan!IsFold, Scan!Stepped, Max, Scan!Max
<1>2. \A x, k : Sound(x, q.B) => Sound(LookUp(q, x, k), q.B)
  BY LookupSound DEF LookUp
<1> QED
  BY <1>1, <1>2, LoopsEnd, Scan!FoldKeeps

LEMMA BitmapAllocSound ==
    ASSUME NEW B, NEW m, Sound(m, B), NEW bm, NEW r, r = bitmap_alloc(m, bm)
    PROVE  Sound(r.m, B) /\ r = [m |-> r.m, id |-> r.id]
<1>1. ASSUME NEW n, Sound(n, B), NEW k
      PROVE  /\ Sound(TakeBit(n, bm, k).m, B)
             /\ TakeBit(n, bm, k) = [m |-> TakeBit(n, bm, k).m, id |-> TakeBit(n, bm, k).id]
  BY <1>1, EditSound DEF TakeBit
<1>2. PICK q : q.bm = bm /\ q.B = B
  <2>1. [bm |-> bm, B |-> B].bm = bm /\ [bm |-> bm, B |-> B].B = B
    OBVIOUS
  <2> QED
    BY <2>1
<1>3. \E k : bitmap_alloc(m, q.bm) = TakeBit(Scanned(q, m, k + 1), q.bm, k)
  BY DEF bitmap_alloc, Scanned, LookUp
<1>4. PICK n, k : Sound(n, B) /\ r = TakeBit(n, bm, k)
  BY <1>2, <1>3, ScanSound
<1> QED
  BY <1>1, <1>4

LEMMA AllocSound ==
    ASSUME NEW B, NEW m, Sound(m, B)
    PROVE  /\ Sound(efs_alloc_data(m).m, B)
           /\ Sound(efs_alloc_inode(m).m, B)
<1>1. PICK r : r = bitmap_alloc(m, fs.data_bitmap)
  OBVIOUS
<1>2. Sound(r.m, B) /\ r = [m |-> r.m, id |-> r.id]
  BY <1>1, BitmapAllocSound
<1>3. Sound(efs_alloc_data(m).m, B)
  BY <1>1, <1>2 DEF efs_alloc_data
<1>4. Sound(efs_alloc_inode(m).m, B)
  BY BitmapAllocSound DEF efs_alloc_inode
<1> QED
  BY <1>3, <1>4

LEMMA DeallocSound ==
    ASSUME NEW B, NEW m, Sound(m, B), NEW b
    PROVE  Sound(efs_dealloc_data(m, b), B)
<1>1. PICK n : n = get_block_cache(m, b) /\ Sound(n, B)
  BY LookupSound
<1>2. Sound(Zeroed(n, Pointer(n, b)), B)
  BY <1>1, PutMarked DEF Zeroed
<1> QED
  BY <1>1, <1>2, EditSound DEF efs_dealloc_data, bitmap_dealloc

-----------------------------------------------------------------------------
(* Reading and writing a file's blocks *)

LEMMA BlockIdSound ==
    ASSUME NEW m, NEW di, NEW k
    PROVE  /\ \A B : Sound(m, B) => Sound(disk_inode_get_block_id(m, di, k).m, B)
           /\ Clean(m) => Clean(disk_inode_get_block_id(m, di, k).m)
<1>1. ASSUME NEW n, NEW b, NEW i
      PROVE  /\ \A B : Sound(n, B) => Sound(Indexed(n, b, i).m, B)
             /\ Clean(n) => Clean(Indexed(n, b, i).m)
  BY LookupSound DEF Indexed
<1>2. PICK n : n = using(m, di)
  OBVIOUS
<1>3. /\ \A B : Sound(m, B) => Sound(n, B)
      /\ Clean(m) => Clean(n)
  BY <1>2, UsedSound
<1>4. \/ disk_inode_get_block_id(m, di, k).m = n
      \/ \E b, i : disk_inode_get_block_id(m, di, k).m = Indexed(n, b, i).m
      \/ \E b, i, c, j : disk_inode_get_block_id(m, di, k).m = Indexed(Indexed(n, b, i).m, c, j).m
  BY <1>2 DEF disk_inode_get_block_id
<1> QED
  BY <1>1, <1>3, <1>4

\* disk_inode_read_at: the step for block k.
ReadBlock(q, x, k) ==
    LET end == Min({q.offset + q.len, Inode(q.m, q.di).size})
        g == disk_inode_get_block_id(x.m, q.di, k)
        from == Max({q.offset, k * BLOCK_SZ})
        to   == Min({end, (k + 1) * BLOCK_SZ})
    IN  [m |-> get_block_cache(g.m, g.id),
         buf |-> x.buf \o [i \in 1..(to - from) |->
                              View(g.m, g.id)[(from + i - 1) % BLOCK_SZ]]]
Reading == INSTANCE FoldInduction WITH op <- ReadBlock, Keep <- LAMBDA q, x : Clean(x.m)
AllRead(q, none, s) == Each(LAMBDA x, k : ReadBlock(q, x, k), none, s)

LEMMA ReadAtClean ==
    ASSUME NEW m, Clean(m), NEW di, NEW offset, NEW len
    PROVE  Clean(disk_inode_read_at(m, di, offset, len).m)
<1>1. PICK q : q.m = m /\ q.di = di /\ q.offset = offset /\ q.len = len
  <2>1. PICK r : r = [m |-> m, di |-> di, offset |-> offset, len |-> len]
    OBVIOUS
  <2> QED
    BY <2>1
<1>2. PICK none : none = [m |-> using(q.m, q.di), buf |-> <<>>]
  OBVIOUS
<1>3. PICK s : s = Covering(q.offset, Min({q.offset + q.len, Inode(q.m, q.di).size}))
  OBVIOUS
<1>4. \/ disk_inode_read_at(q.m, q.di, q.offset, q.len) = none
      \/ disk_inode_read_at(q.m, q.di, q.offset, q.len) = AllRead(q, none, s)
  BY <1>2, <1>3 DEF disk_inode_read_at, AllRead, ReadBlock
<1>5. AllRead(q, none, s) = Reading!Folded(q, none, s)
  BY DEF AllRead, Each, FoldLeft, MapThenFoldSet,
         Reading!Folded, Reading!IsFold, Reading!Stepped, Max, Reading!Max
<1>6. Clean(none.m)
  BY <1>1, <1>2, UsedSound
<1>7. ASSUME NEW x, NEW k, Clean(x.m) PROVE Clean(ReadBlock(q, x, k).m)
  BY <1>7, BlockIdSound, LookupSound DEF ReadBlock
<1>8. Clean(Reading!Folded(q, none, s).m)
  BY <1>3, <1>6, <1>7, LoopsEnd, Reading!FoldKeeps
<1> QED
  BY <1>1, <1>4, <1>5, <1>6, <1>8

\* disk_inode_write_at: the step for block k.
WriteBlock(q, x, k) ==
    LET end == Min({q.offset + Len(q.buf), Inode(q.m, q.di).size})
        g == disk_inode_get_block_id(x, q.di, k)
        n == get_block_cache(g.m, g.id)
        p == Pointer(n, g.id)
        to == Max({q.offset, k * BLOCK_SZ})..(Min({end, (k + 1) * BLOCK_SZ}) - 1)
    IN  mark([n EXCEPT !.cache[p.slot].data =
                [i \in {w % BLOCK_SZ : w \in to} |-> q.buf[k * BLOCK_SZ + i - q.offset + 1]]
                @@ @], p)
Writing == INSTANCE FoldInduction WITH op <- WriteBlock, Keep <- LAMBDA q, x : Sound(x, q.B)
AllWritten(q, m, s) == Each(LAMBDA x, k : WriteBlock(q, x, k), m, s)

LEMMA WriteAtSound ==
    ASSUME NEW B, NEW m, Sound(m, B), NEW di, NEW offset, NEW buf,
           NEW r, r = disk_inode_write_at(m, di, offset, buf)
    PROVE  Sound(r.m, B) /\ r = [m |-> r.m, written |-> r.written]
<1>1. PICK q : q.m = m /\ q.di = di /\ q.offset = offset /\ q.buf = buf /\ q.B = B
  <2>1. PICK k : k = [m |-> m, di |-> di, offset |-> offset, buf |-> buf, B |-> B]
    OBVIOUS
  <2> QED
    BY <2>1
<1>2. PICK s : s = Covering(q.offset, Min({q.offset + Len(q.buf), Inode(q.m, q.di).size}))
  OBVIOUS
<1>3. PICK n : n = using(q.m, q.di)
  OBVIOUS
<1>4. \/ \E w : disk_inode_write_at(q.m, q.di, q.offset, q.buf) = [m |-> n, written |-> w]
      \/ \E w : disk_inode_write_at(q.m, q.di, q.offset, q.buf)
                  = [m |-> AllWritten(q, n, s), written |-> w]
  BY <1>2, <1>3 DEF disk_inode_write_at, AllWritten, WriteBlock
<1>5. AllWritten(q, n, s) = Writing!Folded(q, n, s)
  BY DEF AllWritten, Each, FoldLeft, MapThenFoldSet,
         Writing!Folded, Writing!IsFold, Writing!Stepped, Max, Writing!Max
<1>6. Sound(n, B)
  BY <1>1, <1>3, UsedSound
<1>7. ASSUME NEW x, NEW k, Sound(x, B) PROVE Sound(WriteBlock(q, x, k), B)
  <2>1. PICK g : g = disk_inode_get_block_id(x, q.di, k)
    OBVIOUS
  <2>2. PICK y : y = get_block_cache(g.m, g.id)
    OBVIOUS
  <2>3. Sound(y, B)
    BY <1>7, <2>1, <2>2, BlockIdSound, LookupSound
  <2>4. \E d : WriteBlock(q, x, k)
                = mark([y EXCEPT !.cache[Pointer(y, g.id).slot].data = d], Pointer(y, g.id))
    BY <2>1, <2>2 DEF WriteBlock
  <2> QED
    BY <2>3, <2>4, PutMarked
<1>8. Sound(Writing!Folded(q, n, s), B)
  BY <1>1, <1>2, <1>6, <1>7, LoopsEnd, Writing!FoldKeeps
<1> QED
  BY <1>1, <1>4, <1>5, <1>6, <1>8

-----------------------------------------------------------------------------
(* A file that grows *)

LEMMA AllocInto ==
    ASSUME NEW B, NEW m, Sound(m, B)
    PROVE  /\ \A di, k : Mine(di, B) => Sound(AllocDirect(m, di, k), B)
           /\ \A di : Mine(di, B) => Sound(AllocIndirect1(m, di), B)
           /\ \A di : Mine(di, B) => Sound(AllocIndirect2(m, di), B)
           /\ \A di, size : Mine(di, B) => Sound(SetSize(m, di, size), B)
           /\ \A p, i : Sound(AllocEntry(m, p, i), B)
<1>1. Sound(efs_alloc_data(m).m, B)
  BY AllocSound
<1>2. ASSUME NEW p, NEW i PROVE Sound(AllocEntry(m, p, i), B)
  BY <1>1, Stored DEF AllocEntry, SetEntry
<1>3. ASSUME NEW di, Mine(di, B), NEW k, NEW size
      PROVE  /\ Sound(AllocDirect(m, di, k), B) /\ Sound(AllocIndirect1(m, di), B)
             /\ Sound(AllocIndirect2(m, di), B) /\ Sound(SetSize(m, di, size), B)
  BY <1>1, <1>3, AssignSound DEF AllocDirect, SetDirect, AllocIndirect1, SetIndirect1,
                                 AllocIndirect2, SetIndirect2, SetSize
<1> QED
  BY <1>2, <1>3

NextDirect(q, x, k) == AllocDirect(x, q.p, k)
Direct == INSTANCE FoldInduction
             WITH op <- NextDirect, Keep <- LAMBDA q, x : Mine(q.p, q.B) /\ Sound(x, q.B)
AllDirect(q, m, s) == Each(LAMBDA x, k : NextDirect(q, x, k), m, s)

NextEntry(q, x, k) == AllocEntry(x, q.p, k - INODE_DIRECT_COUNT)
Entries == INSTANCE FoldInduction WITH op <- NextEntry, Keep <- LAMBDA q, x : Sound(x, q.B)
AllEntries(p, m, s) == Each(LAMBDA x, k : AllocEntry(x, p, k - INODE_DIRECT_COUNT), m, s)

\* A pointer, and the blocks whose changes need no mark.
LEMMA Context ==
    ASSUME NEW p, NEW B
    PROVE  \E q : q.p = p /\ q.B = B
<1>1. PICK q : q = [p |-> p, B |-> B]
  OBVIOUS
<1> QED
  BY <1>1

LEMMA FillDirectSound ==
    ASSUME NEW B, NEW m, Sound(m, B), NEW di, Mine(di, B), NEW size, NEW old, NEW new
    PROVE  Sound(FillDirect(m, di, size, old, new), B)
<1>1. PICK q : q.p = di /\ q.B = B
  BY Context
<1>2. PICK s : s = FromTo(old, Min({new, INODE_DIRECT_COUNT}) - 1)
  OBVIOUS
<1>3. PICK n : n = SetSize(m, q.p, size)
  OBVIOUS
<1>4. FillDirect(m, q.p, size, old, new) = AllDirect(q, n, s)
  BY <1>2, <1>3 DEF FillDirect, AllDirect, NextDirect
<1>5. AllDirect(q, n, s) = Direct!Folded(q, n, s)
  BY DEF AllDirect, Each, FoldLeft, MapThenFoldSet,
         Direct!Folded, Direct!IsFold, Direct!Stepped, Max, Direct!Max
<1>6. Sound(n, q.B)
  BY <1>1, <1>3, AllocInto
<1>7. ASSUME NEW x, NEW k, Sound(x, q.B) PROVE Sound(NextDirect(q, x, k), q.B)
  BY <1>1, <1>7, AllocInto DEF NextDirect
<1>8. Sound(Direct!Folded(q, n, s), q.B)
  BY <1>1, <1>2, <1>6, <1>7, LoopsEnd, Direct!FoldKeeps
<1> QED
  BY <1>1, <1>4, <1>5, <1>8

LEMMA FillIndirect1Sound ==
    ASSUME NEW B, NEW m, Sound(m, B), NEW di, NEW old, NEW new
    PROVE  Sound(FillIndirect1(m, di, old, new), B)
<1>1. PICK n : n = get_block_cache(using(m, di), Inode(m, di).indirect1)
  OBVIOUS
<1>2. PICK p : p = Pointer(n, Inode(m, di).indirect1)
  OBVIOUS
<1>3. PICK s : s = FromTo(Max({old, INODE_DIRECT_COUNT}),
                          Min({new, INODE_DIRECT_COUNT + INODE_INDIRECT1_COUNT}) - 1)
  OBVIOUS
<1>4. PICK q : q.p = p /\ q.B = B
  BY Context
<1>5. FillIndirect1(m, di, old, new) = AllEntries(p, n, s)
  BY <1>1, <1>2, <1>3 DEF FillIndirect1, AllEntries
<1>8. AllEntries(q.p, n, s) = Entries!Folded(q, n, s)
  BY DEF AllEntries, NextEntry, Each, FoldLeft, MapThenFoldSet,
         Entries!Folded, Entries!IsFold, Entries!Stepped, Max,
         Entries!Max
<1>9. Sound(n, q.B)
  <2>1. Sound(using(m, di), q.B)
    BY <1>4, UsedSound
  <2> QED
    BY <1>1, <2>1, LookupSound
<1>10. ASSUME NEW x, NEW k, Sound(x, q.B) PROVE Sound(NextEntry(q, x, k), q.B)
  BY <1>10, AllocInto DEF NextEntry
<1>11. Sound(Entries!Folded(q, n, s), q.B)
  BY <1>3, <1>9, <1>10, LoopsEnd, Entries!FoldKeeps
<1> QED
  BY <1>4, <1>5, <1>8, <1>11

\* disk_inode_increase_size: of what it changes only the inode is not marked.
LEMMA IncreaseSound ==
    ASSUME NEW B, NEW m, Sound(m, B), NEW di, Mine(di, B), NEW size
    PROVE  Sound(disk_inode_increase_size(m, di, size), B)
<1>1. ASSUME NEW n, Sound(n, B), NEW old, NEW new
      PROVE  Sound(GrowIndirect1(n, di, old, new), B)
  BY <1>1, AllocInto, FillIndirect1Sound DEF GrowIndirect1
<1>2. PICK n : n = using(m, di)
  OBVIOUS
<1>3. Sound(n, B)
  BY <1>2, UsedSound
<1>4. \/ disk_inode_increase_size(m, di, size) = n
      \/ \E old, new : disk_inode_increase_size(m, di, size)
                       = GrowIndirect1(FillDirect(n, di, size, old, new), di, old, new)
  BY <1>2 DEF disk_inode_increase_size
<1> QED
  BY <1>1, <1>3, <1>4, FillDirectSound

-----------------------------------------------------------------------------
(* The directory *)

LEMMA Weaker == ASSUME NEW m, Clean(m) \/ Sound(m, {}), NEW B PROVE Sound(m, B)
  BY DEF Clean, Sound

LEMMA OwnBlock ==
    ASSUME NEW m, NEW i
    PROVE  Mine(InodeAt(m, i), {i.block}) /\ InodeAt(m, i).block = i.block
  BY DEF Mine, InodeAt

CompareEntry(q, x, i) == IF x.id >= 0 THEN x
                         ELSE Compared(disk_inode_read_at(x.m, q.di, i, 1), q.name)
Comparing == INSTANCE FoldInduction WITH op <- CompareEntry, Keep <- LAMBDA q, x : Clean(x.m)
AllCompared(q, none, s) == Each(LAMBDA x, i : CompareEntry(q, x, i), none, s)

LEMMA FindClean ==
    ASSUME NEW m, Clean(m), NEW name
    PROVE  Clean(inode_find(m, name).m)
<1>1. ASSUME NEW n, Clean(n), NEW di PROVE Clean(inode_find_inode_id(n, di, name).m)
  <2>1. PICK q : q.di = di /\ q.name = name
    <3>1. PICK r : r = [di |-> di, name |-> name]
      OBVIOUS
    <3> QED
      BY <3>1
  <2>2. PICK none : none = [m |-> using(n, q.di), id |-> -1]
    OBVIOUS
  <2>3. PICK s : s = UpTo(Inode(n, q.di).size)
    OBVIOUS
  <2>4. \/ inode_find_inode_id(n, q.di, q.name) = none
        \/ inode_find_inode_id(n, q.di, q.name) = AllCompared(q, none, s)
    BY <2>2, <2>3 DEF inode_find_inode_id, AllCompared, CompareEntry
  <2>5. AllCompared(q, none, s) = Comparing!Folded(q, none, s)
    BY DEF AllCompared, Each, FoldLeft, MapThenFoldSet,
           Comparing!Folded, Comparing!IsFold, Comparing!Stepped, Max,
           Comparing!Max
  <2>6. Clean(none.m)
    BY <1>1, <2>2, UsedSound
  <2>7. ASSUME NEW x, NEW i, Clean(x.m) PROVE Clean(CompareEntry(q, x, i).m)
    <3>1. \/ CompareEntry(q, x, i) = x
          \/ CompareEntry(q, x, i).m = disk_inode_read_at(x.m, q.di, i, 1).m
      BY DEF CompareEntry, Compared
    <3> QED
      BY <2>7, <3>1, ReadAtClean
  <2>8. Clean(Comparing!Folded(q, none, s).m)
    BY <2>3, <2>6, <2>7, LoopsEnd, Comparing!FoldKeeps
  <2> QED
    BY <2>1, <2>4, <2>5, <2>6, <2>8
<1>2. Clean(inode_get_disk_inode(m, efs_root_inode))
  BY LookupSound DEF inode_get_disk_inode
<1> QED
  BY <1>1, <1>2 DEF inode_find

ReadEntry(q, x, i) == disk_inode_read_at(x, q.p, i, 1).m
Listing == INSTANCE FoldInduction WITH op <- ReadEntry, Keep <- LAMBDA q, x : Clean(x)
AllListed(p, m, s) == Each(LAMBDA x, i : disk_inode_read_at(x, p, i, 1).m, m, s)

LEMMA ReaddirClean ==
    ASSUME NEW m, Clean(m), NEW max
    PROVE  Clean(inode_readdir(m, max))
<1>1. PICK n : n = inode_get_disk_inode(m, efs_root_inode)
  OBVIOUS
<1>2. PICK di : di = InodeAt(n, efs_root_inode)
  OBVIOUS
<1>3. PICK u, s : u = using(n, di) /\ s = UpTo(Min({max, Inode(n, di).size}))
  OBVIOUS
<1>4. inode_readdir(m, max) = AllListed(di, u, s)
  BY <1>1, <1>2, <1>3 DEF inode_readdir, AllListed
<1>5. PICK q : q.p = di
  BY Context
<1>6. AllListed(q.p, u, s) = Listing!Folded(q, u, s)
  BY DEF AllListed, ReadEntry, Each, FoldLeft, MapThenFoldSet,
         Listing!Folded, Listing!IsFold, Listing!Stepped, Max,
         Listing!Max
<1>7. Clean(u)
  BY <1>1, <1>3, LookupSound, UsedSound DEF inode_get_disk_inode
<1>8. ASSUME NEW x, NEW i, Clean(x) PROVE Clean(ReadEntry(q, x, i))
  BY <1>8, ReadAtClean DEF ReadEntry
<1>9. Clean(Listing!Folded(q, u, s))
  BY <1>3, <1>7, <1>8, LoopsEnd, Listing!FoldKeeps
<1> QED
  BY <1>4, <1>5, <1>6, <1>9

\* A new entry: what the directory's inode shows is marked before the write.
LEMMA AddEntryClean ==
    ASSUME NEW m, Sound(m, {}), NEW name, NEW id
    PROVE  Clean(AddEntry(m, name, id))
<1>1. PICK di : di = InodeAt(m, efs_root_inode)
  OBVIOUS
<1>2. PICK B : B = {efs_root_inode.block}
  OBVIOUS
<1>3. PICK n : n = disk_inode_increase_size(m, di, Inode(m, di).size + 1)
  OBVIOUS
<1>4. Sound(n, B)
  BY <1>1, <1>2, <1>3, Weaker, OwnBlock, IncreaseSound
<1>5. PICK k : k = inode_mark_modified(n, efs_root_inode)
  OBVIOUS
<1>6. Sound(k, {})
  BY <1>2, <1>4, <1>5, MarkedAgain
<1>7. PICK w : w = disk_inode_write_at(k, di, Inode(m, di).size, <<dir_entry(name, id)>>)
  OBVIOUS
<1>8. Sound(w.m, {})
  BY <1>6, <1>7, WriteAtSound
<1>9. AddEntry(m, name, id) = block_cache_sync_all(w.m)
  BY <1>1, <1>3, <1>5, <1>7 DEF AddEntry
<1> QED
  BY <1>8, <1>9, SyncAllClean

LEMMA CreateClean ==
    ASSUME NEW m, Sound(m, {}), NEW name
    PROVE  Clean(inode_create(m, name).m)
<1>1. PICK a : a = efs_alloc_inode(m) /\ Sound(a.m, {})
  BY AllocSound
<1>2. Sound(inode_get_disk_inode(NewInode(a, "file"), efs_root_inode), {})
  BY <1>1, EditSound, LookupSound DEF NewInode, inode_get_disk_inode
<1> QED
  BY <1>1, <1>2, AddEntryClean DEF inode_create, CreateAs

\* A write: the same for the inode of the file.
LEMMA InodeWriteClean ==
    ASSUME NEW m, Sound(m, {}), NEW i, NEW offset, NEW buf
    PROVE  Clean(inode_write_at(m, i, offset, buf).m)
<1>1. PICK n : n = inode_get_disk_inode(m, i)
  OBVIOUS
<1>2. PICK di : di = InodeAt(n, i)
  OBVIOUS
<1>3. PICK B : B = {i.block}
  OBVIOUS
<1>4. Sound(n, {}) /\ Sound(n, B) /\ Mine(di, B)
  BY <1>1, <1>2, <1>3, LookupSound, Weaker, OwnBlock DEF inode_get_disk_inode
<1>5. ASSUME NEW size
      PROVE  Sound(inode_mark_modified(disk_inode_increase_size(n, di, size), i), {})
  BY <1>3, <1>4, IncreaseSound, MarkedAgain
<1>6. PICK w : /\ Sound(w, {})
               /\ inode_write_at(m, i, offset, buf)
                    = [disk_inode_write_at(w, di, offset, buf) EXCEPT !.m = block_cache_sync_all(@)]
  <2>1. PICK w : w = IF offset + Len(buf) > Inode(n, di).size
                     THEN inode_mark_modified(disk_inode_increase_size(n, di, offset + Len(buf)), i)
                     ELSE n
    OBVIOUS
  <2>2. Sound(w, {})
    BY <1>4, <1>5, <2>1
  <2>3. inode_write_at(m, i, offset, buf)
          = [disk_inode_write_at(w, di, offset, buf) EXCEPT !.m = block_cache_sync_all(@)]
    BY <1>1, <1>2, <2>1 DEF inode_write_at, WriteCached
  <2> QED
    BY <2>2, <2>3
<1>7. PICK r : r = disk_inode_write_at(w, di, offset, buf)
  OBVIOUS
<1>8. Sound(r.m, {}) /\ r = [m |-> r.m, written |-> r.written]
  BY <1>6, <1>7, WriteAtSound
<1>9. inode_write_at(m, i, offset, buf).m = block_cache_sync_all(r.m)
  BY <1>6, <1>7, <1>8
<1> QED
  BY <1>8, <1>9, SyncAllClean

-----------------------------------------------------------------------------
(* A file that is emptied *)

FreeDirect(q, x, k) ==
    LET y == using(x, q.p)
        z == IF Inode(y, q.p).direct[k] = 0 THEN y
             ELSE efs_dealloc_data(y, Inode(y, q.p).direct[k])
    IN  Assign(z, q.p, [Inode(z, q.p) EXCEPT !.direct[k] = 0])
Freeing == INSTANCE FoldInduction
              WITH op <- FreeDirect, Keep <- LAMBDA q, x : Mine(q.p, q.B) /\ Sound(x, q.B)
AllFreed(q, m, s) == Each(LAMBDA x, k : FreeDirect(q, x, k), m, s)

LEMMA ClearDirectSound ==
    ASSUME NEW B, NEW m, Sound(m, B), NEW di, Mine(di, B), NEW blocks
    PROVE  Sound(ClearDirect(m, di, blocks), B)
<1>1. PICK q : q.p = di /\ q.B = B
  BY Context
<1>2. PICK s : s = UpTo(Min({blocks, INODE_DIRECT_COUNT}))
  OBVIOUS
<1>3. ClearDirect(m, q.p, blocks) = AllFreed(q, m, s)
  BY <1>2 DEF ClearDirect, AllFreed, FreeDirect
<1>4. AllFreed(q, m, s) = Freeing!Folded(q, m, s)
  BY DEF AllFreed, Each, FoldLeft, MapThenFoldSet,
         Freeing!Folded, Freeing!IsFold, Freeing!Stepped, Max, Freeing!Max
<1>5. ASSUME NEW x, NEW k, Sound(x, B) PROVE Sound(FreeDirect(q, x, k), B)
  <2>1. PICK y : y = using(x, q.p)
    OBVIOUS
  <2>2. PICK z : z = IF Inode(y, q.p).direct[k] = 0 THEN y
                     ELSE efs_dealloc_data(y, Inode(y, q.p).direct[k])
    OBVIOUS
  <2>3. Sound(z, B)
    BY <1>5, <2>1, <2>2, UsedSound, DeallocSound
  <2>4. FreeDirect(q, x, k) = Assign(z, q.p, [Inode(z, q.p) EXCEPT !.direct[k] = 0])
    BY <2>1, <2>2 DEF FreeDirect
  <2> QED
    BY <1>1, <2>3, <2>4, AssignSound
<1>6. Sound(Freeing!Folded(q, m, s), B)
  BY <1>1, <1>2, <1>5, LoopsEnd, Freeing!FoldKeeps
<1> QED
  BY <1>1, <1>3, <1>4, <1>6

FreeEntry(q, x, k) ==
    LET y == using(x, q.p)
        b == load(y, q.p)[k].inode_number
    IN  IF b = 0 THEN y ELSE efs_dealloc_data(y, b)
Emptying == INSTANCE FoldInduction WITH op <- FreeEntry, Keep <- LAMBDA q, x : Sound(x, q.B)
AllEmptied(q, m, s) == Each(LAMBDA x, k : FreeEntry(q, x, k), m, s)

LEMMA ClearEntriesSound ==
    ASSUME NEW B, NEW m, Sound(m, B), NEW p, NEW blocks
    PROVE  Sound(ClearEntries(m, p, blocks), B)
<1>1. PICK q : q.p = p /\ q.B = B
  BY Context
<1>2. PICK s : s = UpTo(Min({blocks - INODE_DIRECT_COUNT, INODE_INDIRECT1_COUNT}))
  OBVIOUS
<1>3. ClearEntries(m, q.p, blocks) = AllEmptied(q, m, s)
  BY <1>2 DEF ClearEntries, AllEmptied, FreeEntry
<1>4. AllEmptied(q, m, s) = Emptying!Folded(q, m, s)
  BY DEF AllEmptied, Each, FoldLeft, MapThenFoldSet,
         Emptying!Folded, Emptying!IsFold, Emptying!Stepped, Max, Emptying!Max
<1>5. ASSUME NEW x, NEW k, Sound(x, B) PROVE Sound(FreeEntry(q, x, k), B)
  <2>1. PICK y : y = using(x, q.p)
    OBVIOUS
  <2>2. FreeEntry(q, x, k) = y \/ \E b : FreeEntry(q, x, k) = efs_dealloc_data(y, b)
    BY <2>1 DEF FreeEntry
  <2> QED
    BY <1>5, <2>1, <2>2, UsedSound, DeallocSound
<1>6. Sound(Emptying!Folded(q, m, s), B)
  BY <1>1, <1>2, <1>5, LoopsEnd, Emptying!FoldKeeps
<1> QED
  BY <1>1, <1>3, <1>4, <1>6

LEMMA ClearClean ==
    ASSUME NEW m, Sound(m, {}), NEW i
    PROVE  Clean(inode_clear(m, i))
<1>1. PICK n : n = inode_get_disk_inode(m, i)
  OBVIOUS
<1>2. PICK di : di = InodeAt(n, i)
  OBVIOUS
<1>3. PICK B : B = {i.block}
  OBVIOUS
<1>4. Sound(n, B) /\ Mine(di, B)
  BY <1>1, <1>2, <1>3, LookupSound, Weaker, OwnBlock DEF inode_get_disk_inode
<1>5. PICK blocks : blocks = disk_inode_data_blocks(Inode(n, di).size)
  OBVIOUS
<1>6. PICK k : k = ClearDirect(n, di, blocks) /\ Sound(k, B)
  BY <1>4, ClearDirectSound
<1>7. PICK f : f = ClearIndirect1(k, di, blocks) /\ Sound(f, B)
  <2>1. PICK f : f = ClearIndirect1(k, di, blocks)
    OBVIOUS
  <2>2. PICK b : b = Inode(k, di).indirect1
    OBVIOUS
  <2>3. PICK l : l = get_block_cache(k, b) /\ Sound(l, B)
    BY <1>6, LookupSound
  <2>4. PICK e : e = ClearEntries(l, Pointer(l, b), blocks) /\ Sound(e, B)
    BY <2>3, ClearEntriesSound
  <2>5. PICK d : d = efs_dealloc_data(using(e, di), b) /\ Sound(d, B)
    BY <2>4, UsedSound, DeallocSound
  <2>6. f = k \/ f = DropIndirect1(d, di)
    BY <2>1, <2>2, <2>3, <2>4, <2>5 DEF ClearIndirect1
  <2> QED
    BY <1>4, <1>6, <2>1, <2>5, <2>6, AssignSound DEF DropIndirect1
<1>8. Sound(inode_mark_modified(SetSize(f, di, 0), i), {})
  BY <1>3, <1>4, <1>7, AllocInto, MarkedAgain
<1>9. inode_clear(m, i) = block_cache_sync_all(inode_mark_modified(SetSize(f, di, 0), i))
  BY <1>1, <1>2, <1>5, <1>6, <1>7 DEF inode_clear
<1> QED
  BY <1>8, <1>9, SyncAllClean

-----------------------------------------------------------------------------
(* The calls *)

LEMMA OpenClean ==
    ASSUME NEW m, Clean(m), NEW name, NEW flags
    PROVE  Clean(file_open(m, name, flags).m)
<1>1. PICK f : f = inode_find(m, name) /\ Clean(f.m) /\ Sound(f.m, {})
  BY FindClean, Weaker
<1>2. \/ file_open(m, name, flags) = f
      \/ file_open(m, name, flags) = inode_create(f.m, name)
      \/ file_open(m, name, flags).m = inode_clear(f.m, inode(f.id))
  BY <1>1 DEF file_open, OpenFound
<1> QED
  BY <1>1, <1>2, CreateClean, ClearClean

LEMMA FileWriteClean ==
    ASSUME NEW m, Clean(m), NEW fh, NEW buf
    PROVE  Clean(file_write(m, fh, buf).m)
  BY Weaker, InodeWriteClean DEF file_write, Moved

LEMMA FileReadClean ==
    ASSUME NEW m, Clean(m), NEW fh, NEW count
    PROVE  Clean(file_read(m, fh, count).m)
  BY LookupSound, ReadAtClean DEF file_read, MovedRead, inode_read_at, inode_get_disk_inode

ReadChunk(q, x, k) == LET r == file_read(x.m, x.fh, BLOCK_SZ)
                      IN  [m |-> r.m, fh |-> r.fh, data |-> x.data \o r.buf]
Chunks == INSTANCE FoldInduction WITH op <- ReadChunk, Keep <- LAMBDA q, x : Clean(x.m)
AllChunks(q, none, s) == Each(LAMBDA x, k : ReadChunk(q, x, k), none, s)

LEMMA ReadAllClean ==
    ASSUME NEW m, Clean(m), NEW i
    PROVE  Clean(read_all(m, i).m)
<1>1. PICK z : z = inode_size(m, i)
  OBVIOUS
<1>2. Clean(z.m)
  BY <1>1, LookupSound DEF inode_size, inode_get_disk_inode
<1>3. PICK none : none = [m |-> z.m, fh |-> file_handle(i, {}), data |-> <<>>]
  OBVIOUS
<1>4. PICK s : s = UpTo(disk_inode_data_blocks(z.size))
  OBVIOUS
<1>5. read_all(m, i) = AllChunks(m, none, s)
  BY <1>1, <1>3, <1>4 DEF read_all, AllChunks, ReadChunk
<1>6. AllChunks(m, none, s) = Chunks!Folded(m, none, s)
  BY DEF AllChunks, Each, FoldLeft, MapThenFoldSet,
         Chunks!Folded, Chunks!IsFold, Chunks!Stepped, Max, Chunks!Max
<1>7. ASSUME NEW x, NEW k, Clean(x.m) PROVE Clean(ReadChunk(m, x, k).m)
  BY <1>7, FileReadClean DEF ReadChunk
<1>8. Clean(none.m)
  BY <1>2, <1>3
<1>9. Clean(Chunks!Folded(m, none, s).m)
  BY <1>4, <1>7, <1>8, LoopsEnd, Chunks!FoldKeeps
<1> QED
  BY <1>5, <1>6, <1>9

LEMMA ReadFoundClean ==
    ASSUME NEW f, Clean(f.m)
    PROVE  Clean(ReadFound(f).m)
  BY ReadAllClean DEF ReadFound

-----------------------------------------------------------------------------
(* The image *)

\* Slots that hold nothing, on any device.
LEMMA UnusedClean ==
    ASSUME NEW n \in Nat \ {0}, NEW c, NEW d, d = [b \in Blocks |-> d[b]], NEW v, NEW m,
           m = [cache |-> [i \in 0..(n - 1) |-> Unused(0, c)], disk |-> d, stale |-> v]
    PROVE  Clean(m)
<1>1. IsSlot(Unused(0, c)) /\ ~Unused(0, c).valid
  BY DEF Unused, IsSlot
<1>2. /\ DOMAIN m.cache = 0..(n - 1) /\ m.disk = d
      /\ \A i \in 0..(n - 1) : m.cache[i] = Unused(0, c)
  OBVIOUS
<1>3. m = [cache |-> m.cache, disk |-> m.disk, stale |-> m.stale]
      /\ m.cache = [i \in DOMAIN m.cache |-> m.cache[i]]
  OBVIOUS
<1>4. IsRecord(m)
  BY <1>1, <1>2, <1>3 DEF IsRecord
<1> QED
  BY <1>1, <1>2, <1>4 DEF Clean, Sound, Unmarked

FillEntry2(q, x, k) ==
    LET a == (k - q.first) \div INODE_INDIRECT1_COUNT
        b == (k - q.first) % INODE_INDIRECT1_COUNT
        y == IF b = 0 THEN AllocEntry(x, q.p, a) ELSE x
        r == load(y, q.p)[a].inode_number
        z == get_block_cache(using(y, q.p), r)
    IN  AllocEntry(z, Pointer(z, r), b)
Second == INSTANCE FoldInduction WITH op <- FillEntry2, Keep <- LAMBDA q, x : Sound(x, q.B)
AllSecond(q, m, s) == Each(LAMBDA x, k : FillEntry2(q, x, k), m, s)

LEMMA FillIndirect2Sound ==
    ASSUME NEW B, NEW m, Sound(m, B), NEW di, NEW old, NEW new
    PROVE  Sound(FillIndirect2(m, di, old, new), B)
<1>1. PICK n : n = get_block_cache(using(m, di), Inode(m, di).indirect2)
  OBVIOUS
<1>2. PICK q : /\ q = [p |-> Pointer(n, Inode(m, di).indirect2), B |-> B,
                       first |-> INODE_DIRECT_COUNT + INODE_INDIRECT1_COUNT]
  OBVIOUS
<1>3. PICK s : s = FromTo(Max({old, INODE_DIRECT_COUNT + INODE_INDIRECT1_COUNT}), new - 1)
  OBVIOUS
<1>4. FillIndirect2(m, di, old, new) = AllSecond(q, n, s)
  BY <1>1, <1>2, <1>3 DEF FillIndirect2, AllSecond, FillEntry2
<1>5. AllSecond(q, n, s) = Second!Folded(q, n, s)
  BY DEF AllSecond, Each, FoldLeft, MapThenFoldSet,
         Second!Folded, Second!IsFold, Second!Stepped, Max, Second!Max
<1>6. q.B = B /\ Sound(n, q.B)
  <2>1. q.B = B /\ Sound(using(m, di), q.B)
    BY <1>2, UsedSound
  <2> QED
    BY <1>1, <2>1, LookupSound
<1>7. ASSUME NEW x, NEW k, Sound(x, q.B) PROVE Sound(FillEntry2(q, x, k), q.B)
  <2>1. PICK a, b : /\ a = (k - q.first) \div INODE_INDIRECT1_COUNT
                    /\ b = (k - q.first) % INODE_INDIRECT1_COUNT
    OBVIOUS
  <2>2. PICK y : y = IF b = 0 THEN AllocEntry(x, q.p, a) ELSE x
    OBVIOUS
  <2>3. PICK r : r = load(y, q.p)[a].inode_number
    OBVIOUS
  <2>4. PICK z : z = get_block_cache(using(y, q.p), r)
    OBVIOUS
  <2>5. Sound(z, q.B)
    BY <1>7, <2>2, <2>4, AllocInto, UsedSound, LookupSound
  <2>6. FillEntry2(q, x, k) = AllocEntry(z, Pointer(z, r), b)
    BY <2>1, <2>2, <2>3, <2>4 DEF FillEntry2
  <2> QED
    BY <2>5, <2>6, AllocInto
<1>8. Sound(Second!Folded(q, n, s), q.B)
  BY <1>3, <1>6, <1>7, LoopsEnd, Second!FoldKeeps
<1> QED
  BY <1>4, <1>5, <1>6, <1>8

LEMMA ToolIncreaseSound ==
    ASSUME NEW B, NEW m, Sound(m, B), NEW di, Mine(di, B), NEW size
    PROVE  Sound(increase_size(m, di, size), B)
<1>1. ASSUME NEW n, Sound(n, B), NEW old, NEW new
      PROVE  Sound(PackIndirect1(n, di, old, new), B)
  BY <1>1, AllocInto, FillIndirect1Sound DEF PackIndirect1
<1>2. ASSUME NEW n, Sound(n, B), NEW old, NEW new
      PROVE  Sound(PackIndirect2(n, di, old, new), B)
  BY <1>2, AllocInto, FillIndirect2Sound DEF PackIndirect2
<1>3. \/ increase_size(m, di, size) = m
      \/ \E old, new : increase_size(m, di, size)
            = PackIndirect2(PackIndirect1(FillDirect(m, di, size, old, new), di, old, new),
                            di, old, new)
  BY DEF increase_size
<1> QED
  BY <1>1, <1>2, <1>3, FillDirectSound

\* The tool grows a file, and marks its inode.
LEMMA GrownSound ==
    ASSUME NEW m, Sound(m, {}), NEW i, NEW size
    PROVE  Sound(inode_mark_modified(increase_size(m, InodeAt(m, i), size), i), {})
<1>1. PICK B : B = {i.block}
  OBVIOUS
<1>2. Sound(increase_size(m, InodeAt(m, i), size), B)
  BY <1>1, Weaker, OwnBlock, ToolIncreaseSound
<1> QED
  BY <1>1, <1>2, MarkedAgain

LEMMA PackClean ==
    ASSUME NEW m, Clean(m), NEW file
    PROVE  Clean(Pack(m, file))
<1>1. ASSUME NEW n, Sound(n, {}), NEW name, NEW id PROVE Clean(PackEntry(n, name, id))
  <2>1. PICK count : count = Inode(n, InodeAt(n, efs_root_inode)).size
    OBVIOUS
  <2>2. PICK g : /\ g = inode_mark_modified(increase_size(n, InodeAt(n, efs_root_inode), count + 1),
                                            efs_root_inode)
                 /\ Sound(g, {})
    BY <1>1, GrownSound
  <2>3. PICK w : w = disk_inode_write_at(g, InodeAt(n, efs_root_inode), count, <<dir_entry(name, id)>>)
    OBVIOUS
  <2>4. Sound(w.m, {})
    BY <2>2, <2>3, WriteAtSound
  <2>5. PackEntry(n, name, id) = block_cache_sync_all(w.m)
    BY <2>1, <2>2, <2>3 DEF PackEntry
  <2> QED
    BY <2>4, <2>5, SyncAllClean
<1>2. PICK c : c = CreateFile(m, file.name)
  OBVIOUS
<1>3. Clean(c.m)
  <2>1. PICK a : a = efs_alloc_inode(m) /\ Sound(a.m, {})
    BY Weaker, AllocSound
  <2>2. Sound(inode_get_disk_inode(NewInode(a, "file"), efs_root_inode), {})
    BY <2>1, EditSound, LookupSound DEF NewInode, inode_get_disk_inode
  <2> QED
    BY <1>1, <1>2, <2>1, <2>2 DEF CreateFile, CreateFileAs
<1>4. ASSUME NEW n, Clean(n), NEW i, NEW buf PROVE Clean(WriteFile(n, i, buf))
  <2>1. PICK k : k = inode_get_disk_inode(n, i) /\ Sound(k, {})
    BY <1>4, Weaker, LookupSound DEF inode_get_disk_inode
  <2>2. PICK g : g = GrowTo(k, i, Len(buf)) /\ Sound(g, {})
    BY <2>1, GrownSound DEF GrowTo
  <2>3. PICK l : l = inode_get_disk_inode(g, i) /\ Sound(l, {})
    BY <2>2, LookupSound DEF inode_get_disk_inode
  <2>4. Sound(WriteData(l, i, buf), {})
    BY <2>3, WriteAtSound DEF WriteData
  <2> QED
    BY <2>1, <2>2, <2>3, <2>4, SyncAllClean DEF WriteFile
<1> QED
  BY <1>2, <1>3, <1>4 DEF Pack, PackData

LEMMA EmptyClean == Clean(efs_create)
<1>1. PICK blank : blank = [cache |-> [i \in 0..(PACK_CACHE_SIZE - 1) |-> Unused(0, ZeroBlock)],
                            disk |-> Cleared(TOTAL_BLOCKS), stale |-> FALSE]
  OBVIOUS
<1>2. Cleared(TOTAL_BLOCKS) = [b \in Blocks |-> Cleared(TOTAL_BLOCKS)[b]]
  BY DEF Cleared
<1>3. Clean(blank)
  BY <1>1, <1>2, PackAssumption, UnusedClean
<1>4. PICK k : k = Edit(blank, 0, 0, SuperBlock) /\ Sound(k, {})
  BY <1>3, Weaker, EditSound
<1>5. Sound(NewInode(efs_alloc_inode(k), "directory"), {})
  BY <1>4, AllocSound, EditSound DEF NewInode
<1>6. efs_create = block_cache_sync_all(NewInode(efs_alloc_inode(k), "directory"))
  BY <1>1, <1>4 DEF efs_create
<1> QED
  BY <1>5, <1>6, SyncAllClean

PackNext(q, x, file) == Pack(x, file)
Packing == INSTANCE FoldInduction WITH op <- PackNext, Keep <- LAMBDA q, x : Clean(x)

LEMMA ImageClean ==
    ASSUME NEW files \in ImageLists
    PROVE  Clean(Image(files))
<1>1. Image(files) = Packing!Folded(files, efs_create, files)
  BY DEF Image, PackNext, Each, FoldLeft, MapThenFoldSet,
         Packing!Folded, Packing!IsFold, Packing!Stepped, Max, Packing!Max
<1>2. ASSUME NEW x, NEW f, Clean(x) PROVE Clean(PackNext(files, x, f))
  BY <1>2, PackClean DEF PackNext
<1>3. Len(files) \in Nat /\ DOMAIN files \subseteq 1..Len(files)
  BY FilesAssumption
<1> QED
  BY <1>1, <1>2, <1>3, EmptyClean, Packing!FoldKeeps

LEMMA BootClean ==
    ASSUME NEW m \in Booted
    PROVE  Clean(m)
<1>1. PICK files \in ImageLists : m = Boot(Image(files))
  BY DEF Booted, Images
<1>2. PICK image : image = Image(files) /\ Clean(image)
  BY ImageClean
<1>3. image.disk = [b \in Blocks |-> image.disk[b]]
  BY <1>2 DEF Clean, Sound, IsRecord
<1>4. PICK start : start = [cache |-> [s \in Slots |-> Unused(0, ZeroBlock)], disk |-> image.disk,
                            stale |-> image.stale]
  OBVIOUS
<1>5. Clean(start)
  BY <1>3, <1>4, CacheAssumption, UnusedClean DEF Slots
<1>6. PICK n : n = get_block_cache(start, 0) /\ Clean(n)
  BY <1>5, LookupSound
<1>7. PICK d : d = inode_readdir(n, 16) /\ Clean(d)
  BY <1>6, ReaddirClean
<1>8. m = n \/ m = ReadFound(file_open(d, "initproc", {})).m
  BY <1>1, <1>2, <1>4, <1>6, <1>7 DEF Boot
<1> QED
  BY <1>6, <1>7, <1>8, OpenClean, ReadFoundClean

-----------------------------------------------------------------------------
(* Between two calls nothing is to be written *)

LEMMA Stands ==
    ASSUME NEW m, Clean(m), cache' = m.cache, disk' = m.disk, stale' = m.stale
    PROVE  Clean(Memory)'
<1>1. Memory' = m
  BY DEF Memory, Clean, Sound, IsRecord
<1> QED
  BY <1>1 DEF Clean, Sound, IsRecord, Unmarked, Blocks, IsSlot

LEMMA CleanBegins == ASSUME Init PROVE Clean(Memory)
<1>1. PICK m \in Booted : cache = m.cache /\ disk = m.disk /\ stale = m.stale
  BY DEF Init, Begin
<1>2. Clean(m)
  BY <1>1, BootClean
<1>3. Memory = m
  BY <1>1, <1>2 DEF Memory, Clean, Sound, IsRecord
<1> QED
  BY <1>2, <1>3

LEMMA CleanStep == ASSUME Clean(Memory), [Next]_vars PROVE Clean(Memory)'
<1>1. ASSUME UNCHANGED vars PROVE Clean(Memory)'
  <2>1. cache' = Memory.cache /\ disk' = Memory.disk /\ stale' = Memory.stale
    BY <1>1 DEF vars, Memory
  <2> QED
    BY <2>1, Stands
<1>2. ASSUME NEW m, Clean(m), NEW data, Return(m, data) PROVE Clean(Memory)'
  BY <1>2, Stands DEF Return
<1>3. ASSUME NEW p, NEW name, NEW flags, do_open(p, name, flags) PROVE Clean(Memory)'
  <2>1. \/ NoChange
        \/ \E f \in {file_open(Memory, name, flags)} : Return(f.m, <<>>)
    BY <1>3 DEF do_open
  <2> QED
    BY <1>1, <1>2, <2>1, OpenClean DEF NoChange
<1>4. ASSUME NEW p, NEW fd, do_close(p, fd) PROVE Clean(Memory)'
  BY <1>1, <1>2, <1>4 DEF do_close, NoChange
<1>5. ASSUME NEW p, NEW fd, NEW buf, do_write(p, fd, buf) PROVE Clean(Memory)'
  <2>1. \/ NoChange
        \/ Return(Memory, words)
        \/ \E w \in {file_write(Memory, fd_table[p][fd], buf)} : Return(w.m, <<>>)
    BY <1>5 DEF do_write
  <2> QED
    BY <1>1, <1>2, <2>1, FileWriteClean DEF NoChange
<1>6. ASSUME NEW p, NEW fd, NEW count, do_read(p, fd, count) PROVE Clean(Memory)'
  <2>1. \/ NoChange
        \/ \E r \in {file_read(Memory, fd_table[p][fd], count)} : Return(r.m, r.buf)
    BY <1>6 DEF do_read
  <2> QED
    BY <1>1, <1>2, <2>1, FileReadClean DEF NoChange
<1>7. ASSUME NEW p, do_fork(p) PROVE Clean(Memory)'
  BY <1>1, <1>2, <1>7 DEF do_fork, NoChange
<1>8. ASSUME NEW p, NEW name, do_exec(p, name) PROVE Clean(Memory)'
  <2>1. \E r \in {ReadFound(file_open(Memory, name, {}))} : Return(r.m, r.data)
    BY <1>8 DEF do_exec
  <2> QED
    BY <1>2, <2>1, OpenClean, ReadFoundClean
<1> QED
  BY <1>1, <1>3, <1>4, <1>5, <1>6, <1>7, <1>8 DEF Next

\* inode_create, inode_write_at, inode_clear, block_cache_sync_all: on devices,
\* caches and blocks of any size, with any number of files, processes and calls,
\* stale pointers included, every call that returned is on the device.
THEOREM CallsAreDurable == Spec => []Durable
<1>1. Clean(Memory) => Durable
  <2> SUFFICES ASSUME Clean(Memory), NEW b \in Blocks PROVE View(Memory, b) = disk[b]
    BY DEF Durable
  <2>1. PICK H : H = Hits(Memory, b)
    OBVIOUS
  <2>2. CASE H = {}
    BY <2>1, <2>2 DEF View, Memory
  <2>3. CASE H # {}
    <3>1. PICK i : i = First(H)
      OBVIOUS
    <3>2. i \in H
      BY <2>1, <2>3, <3>1, FirstIsOne DEF Hits, Clean, Sound, IsRecord
    <3>3. i \in DOMAIN Memory.cache /\ Memory.cache[i].valid /\ Memory.cache[i].block = b
      BY <2>1, <3>2 DEF Hits
    <3>4. Memory.cache[i].data = Memory.disk[b]
      BY <3>3 DEF Clean, Sound, Unmarked
    <3> QED
      BY <2>1, <2>3, <3>1, <3>4 DEF View, Memory
  <2> QED
    BY <2>2, <2>3
<1> QED
  BY <1>1, CleanBegins, CleanStep, PTL DEF Spec
=============================================================================
