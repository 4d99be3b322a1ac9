-------------------------- MODULE VirtioBlk_proofs --------------------------
(***************************************************************************)
(* The driver and the device, for any queue and any index width: what the  *)
(* two agree on while they run side by side, and that the driver is a      *)
(* block device.                                                           *)
(***************************************************************************)
EXTENDS VirtioBlk, FiniteSetTheorems, WellFoundedInduction, TLAPS

-----------------------------------------------------------------------------
(* Numbers and descriptors *)

\* An index moves, and stays one.
LEMMA BumpMoves ==
    ASSUME NEW i \in Indices
    PROVE  bump(i) \in Indices /\ bump(i) # i
<1> USE VirtioAssumption DEF Indices, bump
<1>1. CASE i + 1 < INDEX_RANGE
  <2>1. (i + 1) % INDEX_RANGE = i + 1
    BY <1>1, SMT
  <2> QED
    BY <1>1, <2>1
<1>2. CASE i + 1 = INDEX_RANGE
  <2>1. INDEX_RANGE % INDEX_RANGE = 0
    BY SMT
  <2> QED
    BY <1>2, <2>1
<1> QED
  BY <1>1, <1>2

\* An index has a place in the rings.
LEMMA RingPlace == ASSUME NEW i \in Indices PROVE i % VIRTQ_SIZE \in Descs
  BY VirtioAssumption DEF Indices, Descs

LEMMA LeastDesc ==
    ASSUME NEW S, S \subseteq Nat, S # {}
    PROVE  \E m \in S : \A n \in S : m <= n
<1>1. PICK m \in S : \A n \in S : ~(<<n, m>> \in OpToRel(<, Nat))
  BY NatLessThanWellFounded, WFMin, Zenon
<1>2. \A n \in S : ~(n < m)
  BY <1>1 DEF OpToRel
<1> QED
  BY <1>2

\* alloc_desc returns a descriptor that is free.
LEMMA AllocFinds ==
    ASSUME NEW free \in [Descs -> BOOLEAN], Has(free)
    PROVE  /\ alloc_desc(free) \in Descs
           /\ free[alloc_desc(free)]
           /\ Take(free) \in [Descs -> BOOLEAN]
           /\ \A d \in Descs : Take(free)[d] <=> free[d] /\ d # alloc_desc(free)
<1> DEFINE S == {i \in Descs : free[i]}
<1>1. S \subseteq Nat /\ S # {}
  BY VirtioAssumption DEF Has, Descs
<1>2. PICK m \in S : \A n \in S : m <= n
  BY <1>1, LeastDesc
<1>3. m \in Descs /\ free[m] /\ \A j \in Descs : free[j] => m <= j
  BY <1>2
<1>4. alloc_desc(free) \in Descs /\ free[alloc_desc(free)]
  BY <1>3 DEF alloc_desc
<1> QED
  BY <1>4 DEF Take

\* While all are free, the three of a request are there, and differ.
LEMMA ThreeFound ==
    ASSUME NEW f0 \in [Descs -> BOOLEAN], \A d \in Descs : f0[d]
    PROVE  LET f1 == Take(f0)
               f2 == Take(f1)
               i0 == alloc_desc(f0)
               i1 == alloc_desc(f1)
               i2 == alloc_desc(f2)
           IN  /\ Has(f0) /\ Has(f1) /\ Has(f2)
               /\ i0 \in Descs /\ i1 \in Descs /\ i2 \in Descs
               /\ i0 # i1 /\ i0 # i2 /\ i1 # i2
               /\ Take(f2) \in [Descs -> BOOLEAN]
               /\ \A d \in Descs : Take(f2)[d] <=> d \notin {i0, i1, i2}
<1> DEFINE f1 == Take(f0)
           f2 == Take(f1)
           i0 == alloc_desc(f0)
           i1 == alloc_desc(f1)
           i2 == alloc_desc(f2)
<1>0. 0 \in Descs /\ 1 \in Descs /\ 2 \in Descs
  BY VirtioAssumption DEF Descs
<1>1. Has(f0)
  BY <1>0 DEF Has
<1>2. /\ i0 \in Descs /\ f1 \in [Descs -> BOOLEAN]
      /\ \A d \in Descs : f1[d] <=> d # i0
  BY <1>1, AllocFinds
<1>3. Has(f1)
  <2>1. f1[0] \/ f1[1]
    BY <1>0, <1>2
  <2> HIDE DEF f1
  <2> QED
    BY <1>0, <2>1 DEF Has
<1>4. /\ i1 \in Descs /\ f1[i1] /\ f2 \in [Descs -> BOOLEAN]
      /\ \A d \in Descs : f2[d] <=> f1[d] /\ d # i1
  BY <1>2, <1>3, AllocFinds
<1>5. Has(f2)
  <2>1. f2[0] \/ f2[1] \/ f2[2]
    BY <1>0, <1>2, <1>4
  <2> HIDE DEF f2
  <2> QED
    BY <1>0, <2>1 DEF Has
<1>6. /\ i2 \in Descs /\ f2[i2] /\ Take(f2) \in [Descs -> BOOLEAN]
      /\ \A d \in Descs : Take(f2)[d] <=> f2[d] /\ d # i2
  BY <1>4, <1>5, AllocFinds
<1> HIDE DEF f1, f2, i0, i1, i2
<1>7. \A d \in Descs : Take(f2)[d] <=> d \notin {i0, i1, i2}
  BY <1>2, <1>4, <1>6
<1>8. i0 # i1 /\ i0 # i2 /\ i1 # i2
  BY <1>2, <1>4, <1>6
<1>9. i0 \in Descs /\ i1 \in Descs /\ i2 \in Descs
  BY <1>2, <1>4, <1>6
<1>10. Take(f2) \in [Descs -> BOOLEAN]
  BY <1>6
<1> QED
  BY <1>1, <1>3, <1>5, <1>7, <1>8, <1>9, <1>10 DEF f1, f2, i0, i1, i2

-----------------------------------------------------------------------------
(* The inductive invariant *)

\* The request in the queue: its three descriptors, of which i is the head, and
\* no others, are taken.
Request(i, j, k) ==
    /\ i # j /\ i # k /\ j # k
    /\ desc[i] = [addr |-> "req", flags |-> {"NEXT"}, next |-> j]
    /\ desc[j] = [addr |-> "buf",
                  flags |-> {"NEXT"} \cup (IF blk.req.write THEN {} ELSE {"WRITE"}), next |-> k]
    /\ desc[k] = [addr |-> "status", flags |-> {"WRITE"}, next |-> 0]
    /\ \A d \in Descs : blk.free[d] <=> d \notin {i, j, k}

RequestInQueue ==
    Busy => /\ \E j, k \in Descs : Request(head, j, k)
            /\ avail.ring[blk.last_used_idx % VIRTQ_SIZE] = head
            /\ blk.req.sector \in Asked

BlkInv == /\ TypeOK
          /\ IndicesAgree
          /\ RequestInQueue
          /\ pc = "off" => blk.last_used_idx = 0
          /\ pc = "ready" => \A i \in Descs : blk.free[i]
          /\ used.idx # blk.last_used_idx => blk.status # "none"

LEMMA InitBlkInv == Init => BlkInv
<1> SUFFICES ASSUME Init PROVE BlkInv
  OBVIOUS
<1>1. 0 \in Descs /\ 0 \in Indices
  BY VirtioAssumption DEF Descs, Indices
<1>2. (CHOOSE c \in Contents : TRUE) \in Contents
  BY VirtioAssumption
<1> QED
  BY <1>1, <1>2 DEF Init, BlkInv, TypeOK, IndicesAgree, RequestInQueue, Busy

LEMMA InitStepInv ==
    ASSUME BlkInv, NEW d \in Probes, virtio_blk_init(d)
    PROVE  BlkInv' /\ ~Busy /\ ~Busy' /\ UNCHANGED <<sectors, answer>>
<1>1. 0 \in Indices
  BY VirtioAssumption DEF Indices
<1>2. /\ blk' \in [free : [Descs -> BOOLEAN], last_used_idx : Indices,
                    req : [write : BOOLEAN, sector : Asked \cup {0}],
                    status : {"none", "OK", "IOERR"}]
      /\ blk'.last_used_idx = blk.last_used_idx /\ blk'.status = blk.status
      /\ pc' = "ready" => \A i \in Descs : blk'.free[i]
      /\ pc' \in {"ready", "shutdown"}
  <2>1. blk.last_used_idx = 0
    BY DEF BlkInv, virtio_blk_init
  <2>2. CASE QueueIsUp(d)
    <3>1. PICK free \in [Descs -> BOOLEAN] : /\ \A i \in Descs : free[i]
                                            /\ free = [i \in Descs |-> TRUE]
      OBVIOUS
    <3>2. /\ blk' = [blk EXCEPT !.free = free, !.last_used_idx = 0]
          /\ pc' = "ready"
      BY <2>2, <3>1 DEF virtio_blk_init
    <3> QED
      BY <1>1, <2>1, <3>1, <3>2 DEF BlkInv, TypeOK
  <2>3. CASE ~QueueIsUp(d)
    BY <1>1, <2>1, <2>3 DEF BlkInv, TypeOK, virtio_blk_init
  <2> QED
    BY <2>2, <2>3
<1>3. regs' \in [status : SUBSET {"ACKNOWLEDGE", "DRIVER", "FEATURES_OK", "DRIVER_OK"},
                 queue : {"none", "pfn", "ready"}]
  BY DEF virtio_blk_init
<1>4. UNCHANGED <<desc, avail, used, head, buf, answer, device, sectors>> /\ pc = "off"
  BY DEF virtio_blk_init
<1>5. TypeOK'
  BY <1>2, <1>3, <1>4 DEF BlkInv, TypeOK
<1>6. IndicesAgree'
  BY <1>2, <1>4 DEF BlkInv, IndicesAgree
<1> QED
  BY <1>2, <1>4, <1>5, <1>6 DEF BlkInv, RequestInQueue, Busy

LEMMA CallInv ==
    ASSUME BlkInv, NEW write \in BOOLEAN, NEW s \in Asked, NEW c \in Contents,
           virtio_blk_rw(write, s, c)
    PROVE  /\ BlkInv'
           /\ ~Busy /\ Busy'
           /\ blk'.req = [write |-> write, sector |-> s] /\ blk'.status = "none" /\ buf' = c
           /\ UNCHANGED <<sectors, answer>>
<1>1. pc = "ready" /\ blk.free \in [Descs -> BOOLEAN] /\ \A i \in Descs : blk.free[i]
  BY DEF BlkInv, TypeOK, virtio_blk_rw
<1>2. PICK i0 \in Descs, i1 \in Descs, i2 \in Descs, free \in [Descs -> BOOLEAN] :
        /\ i0 # i1 /\ i0 # i2 /\ i1 # i2
        /\ \A d \in Descs : free[d] <=> d \notin {i0, i1, i2}
        /\ buf' = c
        /\ blk' = [blk EXCEPT !.req = [write |-> write, sector |-> s], !.status = "none",
                              !.free = free]
        /\ desc' = [desc EXCEPT
               ![i0] = [addr |-> "req", flags |-> {"NEXT"}, next |-> i1],
               ![i1] = [addr |-> "buf",
                        flags |-> {"NEXT"} \cup (IF write THEN {} ELSE {"WRITE"}), next |-> i2],
               ![i2] = [addr |-> "status", flags |-> {"WRITE"}, next |-> 0]]
        /\ avail' = [avail EXCEPT !.ring[avail.idx % VIRTQ_SIZE] = i0]
        /\ head' = i0
        /\ pc' = "filled"
        /\ UNCHANGED <<answer, used, regs, device, sectors>>
  <2> DEFINE f0 == blk.free
             f1 == Take(f0)
             f2 == Take(f1)
             i0 == alloc_desc(f0)
             i1 == alloc_desc(f1)
             i2 == alloc_desc(f2)
  <2>1. /\ Has(f0) /\ Has(f1) /\ Has(f2)
        /\ i0 \in Descs /\ i1 \in Descs /\ i2 \in Descs
        /\ i0 # i1 /\ i0 # i2 /\ i1 # i2
        /\ Take(f2) \in [Descs -> BOOLEAN]
        /\ \A d \in Descs : Take(f2)[d] <=> d \notin {i0, i1, i2}
    BY <1>1, ThreeFound
  <2>2. /\ buf' = c
        /\ blk' = [blk EXCEPT !.req = [write |-> write, sector |-> s], !.status = "none",
                              !.free = Take(f2)]
        /\ desc' = [desc EXCEPT
               ![i0] = [addr |-> "req", flags |-> {"NEXT"}, next |-> i1],
               ![i1] = [addr |-> "buf",
                        flags |-> {"NEXT"} \cup (IF write THEN {} ELSE {"WRITE"}), next |-> i2],
               ![i2] = [addr |-> "status", flags |-> {"WRITE"}, next |-> 0]]
        /\ avail' = [avail EXCEPT !.ring[avail.idx % VIRTQ_SIZE] = i0]
        /\ head' = i0
        /\ pc' = "filled"
        /\ UNCHANGED <<answer, used, regs, device, sectors>>
    BY <2>1 DEF virtio_blk_rw
  <2> HIDE DEF f0, f1, f2, i0, i1, i2
  <2> QED
    BY <2>1, <2>2
<1>3. 0 \in Descs
  BY VirtioAssumption DEF Descs
<1>4. avail.idx \in Indices /\ avail.idx % VIRTQ_SIZE \in Descs /\ avail.idx = blk.last_used_idx
  BY <1>1, RingPlace DEF BlkInv, TypeOK, IndicesAgree
<1>5. /\ blk' \in [free : [Descs -> BOOLEAN], last_used_idx : Indices,
                    req : [write : BOOLEAN, sector : Asked \cup {0}],
                    status : {"none", "OK", "IOERR"}]
      /\ blk'.free = free /\ blk'.last_used_idx = blk.last_used_idx
      /\ blk'.req = [write |-> write, sector |-> s] /\ blk'.status = "none"
  BY <1>2 DEF BlkInv, TypeOK
<1>6. /\ avail' \in [idx : Indices, ring : [Descs -> Descs]]
      /\ avail'.idx = avail.idx /\ avail'.ring[avail.idx % VIRTQ_SIZE] = i0
  BY <1>2, <1>4 DEF BlkInv, TypeOK
<1>7. /\ desc' \in [Descs -> [addr : {"req", "buf", "status"},
                              flags : SUBSET {"NEXT", "WRITE"}, next : Descs]]
      /\ desc'[i0] = [addr |-> "req", flags |-> {"NEXT"}, next |-> i1]
      /\ desc'[i1] = [addr |-> "buf",
                      flags |-> {"NEXT"} \cup (IF write THEN {} ELSE {"WRITE"}), next |-> i2]
      /\ desc'[i2] = [addr |-> "status", flags |-> {"WRITE"}, next |-> 0]
  <2> DEFINE D  == [addr : {"req", "buf", "status"}, flags : SUBSET {"NEXT", "WRITE"}, next : Descs]
             d0 == [addr |-> "req", flags |-> {"NEXT"}, next |-> i1]
             d1 == [addr |-> "buf",
                    flags |-> {"NEXT"} \cup (IF write THEN {} ELSE {"WRITE"}), next |-> i2]
             d2 == [addr |-> "status", flags |-> {"WRITE"}, next |-> 0]
  <2>1. d0 \in D /\ d1 \in D /\ d2 \in D
    BY <1>3
  <2>2. desc \in [Descs -> D] /\ desc' = [desc EXCEPT ![i0] = d0, ![i1] = d1, ![i2] = d2]
    BY <1>2 DEF BlkInv, TypeOK
  <2> HIDE DEF D, d0, d1, d2
  <2>3. /\ desc' \in [Descs -> D]
        /\ desc'[i0] = d0 /\ desc'[i1] = d1 /\ desc'[i2] = d2
    <3>1. i0 # i1 /\ i0 # i2 /\ i1 # i2
      BY <1>2
    <3> QED
      BY <2>1, <2>2, <3>1
  <2> QED
    BY <2>3 DEF D, d0, d1, d2
<1>8. TypeOK'
  BY <1>2, <1>5, <1>6, <1>7 DEF BlkInv, TypeOK
<1>9. IndicesAgree'
  <2>1. used.idx = blk.last_used_idx /\ device.serving = {} /\ device.taken = used.idx
    BY <1>1, <1>4, BumpMoves DEF BlkInv, IndicesAgree
  <2> QED
    BY <1>2, <1>4, <1>5, <1>6, <2>1 DEF IndicesAgree
<1>10. Request(i0, i1, i2)'
  BY <1>2, <1>5, <1>7 DEF Request
<1>11. RequestInQueue'
  <2>1. Request(head, i1, i2)'
    BY <1>2, <1>10 DEF Request
  <2>2. \E j, k \in Descs : Request(head, j, k)'
    BY <2>1
  <2>3. blk'.last_used_idx % VIRTQ_SIZE = avail.idx % VIRTQ_SIZE
    BY <1>4, <1>5
  <2>4. (avail.ring[blk.last_used_idx % VIRTQ_SIZE] = head)'
    BY <1>2, <1>6, <2>3
  <2>5. (blk.req.sector \in Asked)'
    BY <1>5
  <2> QED
    BY <2>2, <2>4, <2>5 DEF RequestInQueue
<1>12. used.idx = blk.last_used_idx
  BY <1>1, <1>4 DEF BlkInv, IndicesAgree
<1> QED
  BY <1>1, <1>2, <1>5, <1>8, <1>9, <1>11, <1>12 DEF BlkInv, Busy

\* In flight: the device has the request, which is the driver's.
LEMMA Serving ==
    ASSUME BlkInv, NEW i \in device.serving
    PROVE  /\ i = head /\ device.serving = {head}
           /\ pc \in {"published", "waiting"}
           /\ used.idx = blk.last_used_idx
           /\ avail.idx = bump(used.idx)
<1> USE DEF BlkInv, IndicesAgree
<1>1. used.idx \in Indices /\ blk.last_used_idx \in Indices
  BY DEF TypeOK
<1>2. device.serving = {head} /\ device.taken = avail.idx /\ avail.idx = bump(used.idx)
  OBVIOUS
<1>3. used.idx # avail.idx
  BY <1>1, <1>2, BumpMoves
<1> QED
  BY <1>2, <1>3

LEMMA DriverInv ==
    ASSUME BlkInv, Publish \/ Notify
    PROVE  BlkInv' /\ Busy /\ Busy' /\ UNCHANGED <<blk, buf, sectors, answer>>
<1>1. ASSUME Publish PROVE BlkInv'
  <2> USE <1>1 DEF Publish
  <2>1. /\ bump(avail.idx) \in Indices /\ bump(avail.idx) # avail.idx
        /\ avail.idx = blk.last_used_idx /\ used.idx = blk.last_used_idx
        /\ device.serving = {} /\ device.taken = used.idx
    BY BumpMoves, Serving DEF BlkInv, TypeOK, IndicesAgree
  <2>2. /\ avail' \in [idx : Indices, ring : [Descs -> Descs]]
        /\ avail'.idx = bump(avail.idx) /\ avail'.ring = avail.ring
    BY <2>1 DEF BlkInv, TypeOK
  <2>3. TypeOK'
    BY <2>2 DEF BlkInv, TypeOK
  <2>4. IndicesAgree'
    BY <2>1, <2>2 DEF IndicesAgree
  <2>5. RequestInQueue'
    BY <2>2 DEF BlkInv, RequestInQueue, Request, Busy
  <2> QED
    BY <2>3, <2>4, <2>5 DEF BlkInv
<1>2. ASSUME Notify PROVE BlkInv'
  <2> USE <1>2 DEF Notify
  <2>1. /\ device' \in [taken : Indices, serving : SUBSET Descs, notified : BOOLEAN]
        /\ device'.taken = device.taken /\ device'.serving = device.serving
    BY DEF BlkInv, TypeOK
  <2>2. TypeOK'
    BY <2>1 DEF BlkInv, TypeOK
  <2>3. IndicesAgree'
    BY <2>1 DEF BlkInv, IndicesAgree
  <2>4. RequestInQueue'
    BY DEF BlkInv, RequestInQueue, Request, Busy
  <2> QED
    BY <2>2, <2>3, <2>4 DEF BlkInv
<1> QED
  BY <1>1, <1>2 DEF Publish, Notify, Busy

\* The chain that is freed is the request's, which is all that was taken.
LEMMA ChainIsRequest ==
    ASSUME BlkInv, Busy
    PROVE  /\ \A d \in Descs : blk.free[d] <=> d \notin Chain(head)
           /\ Chain(head) \subseteq Descs /\ Cardinality(Chain(head)) = 3
           /\ desc[head].addr = "req" /\ desc[Second(head)].addr = "buf"
           /\ desc[Third(head)].addr = "status"
           /\ "WRITE" \in desc[Second(head)].flags <=> ~blk.req.write
<1>1. PICK j \in Descs, k \in Descs : Request(head, j, k)
  BY DEF BlkInv, RequestInQueue
<1>2. Linked(head) /\ desc[head].next = j /\ Linked(j) /\ desc[j].next = k
  BY <1>1 DEF Request, Linked
<1>3. Chain(head) = {head, j, k}
  BY <1>2 DEF Chain
<1>4. Cardinality({head, j, k}) = 3
  <2>0. j \notin {head} /\ k \notin {head} \cup {j}
    BY <1>1 DEF Request
  <2>1. IsFiniteSet({head}) /\ Cardinality({head}) = 1
    BY FS_Singleton
  <2>2. IsFiniteSet({head} \cup {j}) /\ Cardinality({head} \cup {j}) = 1 + 1
    BY <2>0, <2>1, FS_AddElement, Zenon
  <2>3. Cardinality(({head} \cup {j}) \cup {k}) = 1 + 1 + 1
    BY <2>0, <2>2, FS_AddElement, Zenon
  <2>4. ({head} \cup {j}) \cup {k} = {head, j, k}
    OBVIOUS
  <2> QED
    BY <2>3, <2>4
<1>5. head \in Descs
  BY DEF BlkInv, TypeOK
<1>6. "WRITE" \in desc[j].flags <=> ~blk.req.write
  BY <1>1 DEF Request
<1> QED
  BY <1>1, <1>2, <1>3, <1>4, <1>5, <1>6 DEF Request, Second, Third

LEMMA ReapInv ==
    ASSUME BlkInv, Reap
    PROVE  /\ BlkInv' /\ Busy /\ ~Busy' /\ blk.status # "none"
           /\ answer' = [ok |-> blk.status = "OK", data |-> buf]
           /\ UNCHANGED sectors
<1> USE DEF Reap, completed
<1>1. pc = "waiting" /\ Busy /\ used.idx # blk.last_used_idx
  BY DEF Busy
<1>2. /\ bump(blk.last_used_idx) \in Indices /\ avail.idx = bump(blk.last_used_idx)
      /\ used.idx = avail.idx
  BY <1>1, BumpMoves DEF BlkInv, TypeOK, IndicesAgree
<1>3. device.serving = {}
  BY <1>1, Serving
<1>4. free_chain(head) \in [Descs -> BOOLEAN] /\ \A d \in Descs : free_chain(head)[d]
  BY <1>1, ChainIsRequest DEF free_chain
<1>5. PICK free \in [Descs -> BOOLEAN] : (\A d \in Descs : free[d]) /\ free = free_chain(head)
  BY <1>4
<1>6. /\ blk' \in [free : [Descs -> BOOLEAN], last_used_idx : Indices,
                    req : [write : BOOLEAN, sector : Asked \cup {0}],
                    status : {"none", "OK", "IOERR"}]
      /\ blk'.free = free /\ blk'.last_used_idx = bump(blk.last_used_idx)
  BY <1>2, <1>5 DEF BlkInv, TypeOK
<1>7. TypeOK'
  BY <1>6 DEF BlkInv, TypeOK
<1>8. IndicesAgree'
  BY <1>1, <1>2, <1>3, <1>6 DEF BlkInv, IndicesAgree
<1>9. RequestInQueue' /\ ~Busy'
  BY DEF RequestInQueue, Busy
<1> QED
  BY <1>1, <1>2, <1>5, <1>6, <1>7, <1>8, <1>9 DEF BlkInv

LEMMA TakesInv ==
    ASSUME BlkInv, DeviceTakes
    PROVE  BlkInv'
<1> USE DEF DeviceTakes
<1>1. device.serving = {} /\ device.taken = used.idx /\ used.idx # avail.idx
  BY DEF BlkInv, IndicesAgree
<1>2. used.idx = blk.last_used_idx /\ pc \in {"published", "waiting"}
      /\ avail.idx = bump(blk.last_used_idx)
  BY <1>1 DEF BlkInv, IndicesAgree
<1>3. bump(used.idx) \in Indices
  BY BumpMoves DEF BlkInv, TypeOK
<1>4. avail.ring[device.taken % VIRTQ_SIZE] = head /\ head \in Descs
  BY <1>1, <1>2 DEF BlkInv, TypeOK, RequestInQueue, Busy
<1>5. /\ device' \in [taken : Indices, serving : SUBSET Descs, notified : BOOLEAN]
      /\ device'.taken = bump(used.idx) /\ device'.serving = {head}
  BY <1>1, <1>3, <1>4 DEF BlkInv, TypeOK
<1>6. UNCHANGED <<driver, used, regs, sectors>>
  OBVIOUS
<1>7. TypeOK'
  BY <1>5, <1>6 DEF BlkInv, TypeOK, driver
<1>8. IndicesAgree'
  BY <1>2, <1>5, <1>6 DEF BlkInv, IndicesAgree, driver
<1>9. RequestInQueue'
  BY <1>6 DEF BlkInv, RequestInQueue, Request, Busy, driver
<1> QED
  BY <1>6, <1>7, <1>8, <1>9 DEF BlkInv, driver

LEMMA FindsNothingInv ==
    ASSUME BlkInv, DeviceFindsNothing
    PROVE  BlkInv'
<1> USE DEF DeviceFindsNothing
<1>1. /\ device' \in [taken : Indices, serving : SUBSET Descs, notified : BOOLEAN]
      /\ device'.taken = device.taken /\ device'.serving = device.serving
  BY DEF BlkInv, TypeOK
<1>2. UNCHANGED <<driver, used, regs, sectors>>
  OBVIOUS
<1>3. TypeOK' /\ IndicesAgree'
  BY <1>1, <1>2 DEF BlkInv, TypeOK, IndicesAgree, driver
<1>4. RequestInQueue'
  BY <1>2 DEF BlkInv, RequestInQueue, Request, Busy, driver
<1> QED
  BY <1>2, <1>3, <1>4 DEF BlkInv, driver

LEMMA ServesInv ==
    ASSUME BlkInv, NEW i \in Descs, NEW ok \in BOOLEAN, DeviceServes(i, ok)
    PROVE  /\ BlkInv'
           /\ Busy /\ Busy' /\ blk.status = "none" /\ blk'.req = blk.req
           /\ blk'.status = IF ok THEN "OK" ELSE "IOERR"
           /\ ok => blk.req.sector \in Sectors
           /\ IF ok /\ blk.req.write
              THEN sectors' = [sectors EXCEPT ![blk.req.sector] = buf] /\ UNCHANGED buf
              ELSE /\ UNCHANGED sectors
                   /\ buf' = IF ok THEN sectors[blk.req.sector] ELSE buf
           /\ UNCHANGED answer
<1> USE DEF DeviceServes
<1>1. /\ i = head /\ pc \in {"published", "waiting"} /\ Busy
      /\ used.idx = blk.last_used_idx
  BY Serving DEF Busy
<1>2. "WRITE" \in desc[Second(head)].flags <=> ~blk.req.write
  BY <1>1, ChainIsRequest
<1>3. /\ ok => blk.req.sector \in Sectors
      /\ IF ok /\ blk.req.write
         THEN sectors' = [sectors EXCEPT ![blk.req.sector] = buf] /\ UNCHANGED buf
         ELSE /\ UNCHANGED sectors
              /\ buf' = IF ok THEN sectors[blk.req.sector] ELSE buf
  BY <1>1, <1>2
<1>4. /\ blk' \in [free : [Descs -> BOOLEAN], last_used_idx : Indices,
                    req : [write : BOOLEAN, sector : Asked \cup {0}],
                    status : {"none", "OK", "IOERR"}]
      /\ blk'.free = blk.free /\ blk'.last_used_idx = blk.last_used_idx
      /\ blk'.req = blk.req /\ blk'.status = IF ok THEN "OK" ELSE "IOERR"
  BY DEF BlkInv, TypeOK
<1>5. sectors' \in [Sectors -> Contents] /\ buf' \in Contents
  BY <1>3 DEF BlkInv, TypeOK
<1>6. UNCHANGED <<pc, desc, avail, head, answer, used, regs, device>> /\ blk.status = "none"
  OBVIOUS
<1>7. TypeOK'
  BY <1>4, <1>5, <1>6 DEF BlkInv, TypeOK
<1>8. IndicesAgree'
  BY <1>4, <1>6 DEF BlkInv, IndicesAgree
<1> HIDE DEF DeviceServes
<1>9. RequestInQueue'
  <2>1. PICK j \in Descs, k \in Descs : Request(head, j, k)
    BY <1>1 DEF BlkInv, RequestInQueue
  <2>2. Request(head, j, k)'
    BY <1>4, <1>6, <2>1 DEF Request
  <2> QED
    BY <1>1, <1>4, <1>6, <2>2 DEF BlkInv, RequestInQueue
<1>10. BlkInv'
  BY <1>1, <1>4, <1>6, <1>7, <1>8, <1>9 DEF BlkInv, Busy
<1> QED
  BY <1>1, <1>3, <1>4, <1>6, <1>10 DEF Busy

LEMMA CompletesInv ==
    ASSUME BlkInv, NEW i \in Descs, DeviceCompletes(i)
    PROVE  BlkInv'
<1> USE DEF DeviceCompletes
<1>1. /\ device.serving = {head} /\ pc \in {"published", "waiting"}
      /\ used.idx = blk.last_used_idx /\ avail.idx = bump(used.idx) /\ device.taken = avail.idx
  BY Serving DEF BlkInv, IndicesAgree
<1>2. bump(used.idx) \in Indices /\ bump(used.idx) # used.idx
      /\ used.idx % VIRTQ_SIZE \in Descs
  BY BumpMoves, RingPlace DEF BlkInv, TypeOK
<1>3. used' \in [idx : Indices, ring : [Descs -> Descs]] /\ used'.idx = avail.idx
  BY <1>1, <1>2 DEF BlkInv, TypeOK
<1>4. /\ device' \in [taken : Indices, serving : SUBSET Descs, notified : BOOLEAN]
      /\ device'.taken = device.taken /\ device'.serving = {}
  BY DEF BlkInv, TypeOK
<1>5. UNCHANGED <<driver, regs, sectors>>
  OBVIOUS
<1>6. TypeOK' /\ IndicesAgree'
  BY <1>1, <1>3, <1>4, <1>5 DEF BlkInv, TypeOK, IndicesAgree, driver
<1>7. RequestInQueue'
  BY <1>5 DEF BlkInv, RequestInQueue, Request, Busy, driver
<1> QED
  BY <1>1, <1>5, <1>6, <1>7 DEF BlkInv, driver

LEMMA StutterInv == BlkInv /\ UNCHANGED vars => BlkInv'
<1> SUFFICES ASSUME BlkInv, UNCHANGED vars PROVE BlkInv'
  OBVIOUS
<1> USE DEF vars, driver
<1>1. TypeOK' /\ IndicesAgree'
  BY DEF BlkInv, TypeOK, IndicesAgree
<1>2. RequestInQueue'
  BY DEF BlkInv, RequestInQueue, Request, Busy
<1> QED
  BY <1>1, <1>2 DEF BlkInv

LEMMA NextBlkInv == BlkInv /\ [Next]_vars => BlkInv'
<1> SUFFICES ASSUME BlkInv, [Next]_vars PROVE BlkInv'
  OBVIOUS
<1>1. CASE \E d \in Probes : virtio_blk_init(d)
  BY <1>1, InitStepInv
<1>2. CASE \E write \in BOOLEAN, s \in Asked, c \in Contents : virtio_blk_rw(write, s, c)
  BY <1>2, CallInv
<1>3. CASE DriverStep
  BY <1>3, DriverInv, ReapInv DEF DriverStep
<1>4. CASE DeviceStep
  BY <1>4, TakesInv, FindsNothingInv, ServesInv, CompletesInv DEF DeviceStep
<1>5. CASE UNCHANGED vars
  BY <1>5, StutterInv
<1> QED
  BY <1>1, <1>2, <1>3, <1>4, <1>5 DEF Next

\* virtio_blk_init, virtio_blk_rw, free_chain: every field of the queue, its
\* indices and the descriptors' links stay in range, and what else the driver
\* and the device agree on holds at every step of both.
THEOREM BlkInvariant == Spec => []BlkInv
<1>1. Init => BlkInv
  BY InitBlkInv
<1>2. BlkInv /\ [Next]_vars => BlkInv'
  BY NextBlkInv
<1> QED
  BY <1>1, <1>2, PTL DEF Spec

\* virtio_queue_t: the types of the queue and of what the driver keeps, however
\* driver and device interleave.
THEOREM VirtioTypeOK == Spec => []TypeOK
<1>1. BlkInv => TypeOK
  BY DEF BlkInv
<1> QED
  BY <1>1, BlkInvariant, PTL

\* virtio_blk_rw: driver and device agree on how many requests there were, for
\* every width of the indices and every size of the queue.
THEOREM DriverDeviceAgree == Spec => []IndicesAgree
<1>1. BlkInv => IndicesAgree
  BY DEF BlkInv
<1> QED
  BY <1>1, BlkInvariant, PTL

\* alloc_desc, free_chain: whatever was asked for before, no descriptor is lost
\* and none is freed that is in use.
THEOREM NoDescriptorLost == Spec => []DescriptorsReturn
<1>1. BlkInv => DescriptorsReturn
  <2> SUFFICES ASSUME BlkInv PROVE DescriptorsReturn
    OBVIOUS
  <2>1. pc = "ready" => \A i \in Descs : blk.free[i]
    BY DEF BlkInv
  <2>2. ASSUME Busy PROVE Chain(head) = {i \in Descs : ~blk.free[i]} /\ Cardinality(Chain(head)) = 3
    BY <2>2, ChainIsRequest
  <2> QED
    BY <2>1, <2>2 DEF DescriptorsReturn
<1> QED
  BY <1>1, BlkInvariant, PTL

-----------------------------------------------------------------------------
(* The driver is a block device *)

\* A request is none of the ones that are none.
LEMMA RequestOfBusy ==
    ASSUME BlkInv
    PROVE  /\ ~Busy => request = NoRequest
           /\ Busy => /\ request # NoRequest
                      /\ request = [write |-> blk.req.write, sector |-> blk.req.sector, data |-> buf,
                                    outcome |-> IF blk.status = "none" THEN "none"
                                                ELSE IF blk.status = "OK" THEN "ok" ELSE "error"]
<1>1. ASSUME Busy
      PROVE  request = [write |-> blk.req.write, sector |-> blk.req.sector, data |-> buf,
                        outcome |-> IF blk.status = "none" THEN "none"
                                    ELSE IF blk.status = "OK" THEN "ok" ELSE "error"]
  <2>1. blk.status \in {"none", "OK", "IOERR"}
    BY DEF BlkInv, TypeOK
  <2> QED
    BY <1>1, <2>1 DEF request
<1>2. ASSUME Busy PROVE request # NoRequest
  <2>1. /\ blk.req.write \in BOOLEAN /\ blk.req.sector \in Asked /\ buf \in Contents
    BY <1>2 DEF BlkInv, TypeOK, RequestInQueue
  <2> QED
    BY <1>1, <1>2, <2>1, VirtioAssumption
<1> QED
  BY <1>1, <1>2 DEF request

\* A request that is done is the one it was, with another outcome ...
LEMMA WithOutcome ==
    ASSUME NEW w, NEW s, NEW c, NEW r,
           r = [write |-> w, sector |-> s, data |-> c, outcome |-> "none"]
    PROVE  [r EXCEPT !.outcome = "ok"] = [write |-> w, sector |-> s, data |-> c, outcome |-> "ok"]
<1>1. r \in [write : {w}, sector : {s}, data : {c}, outcome : {"none", "ok"}]
  OBVIOUS
<1>2. [r EXCEPT !.outcome = "ok"] \in [write : {w}, sector : {s}, data : {c}, outcome : {"none", "ok"}]
  BY <1>1
<1> QED
  BY <1>1, <1>2

\* ... and, after a read, with other data.
LEMMA WithData ==
    ASSUME NEW w, NEW s, NEW c, NEW d, NEW r,
           r = [write |-> w, sector |-> s, data |-> c, outcome |-> "ok"]
    PROVE  [r EXCEPT !.data = d] = [write |-> w, sector |-> s, data |-> d, outcome |-> "ok"]
<1>1. r \in [write : {w}, sector : {s}, data : {c, d}, outcome : {"ok"}]
  OBVIOUS
<1>2. [r EXCEPT !.data = d] \in [write : {w}, sector : {s}, data : {c, d}, outcome : {"ok"}]
  BY <1>1
<1> QED
  BY <1>1, <1>2

LEMMA RequestNext == BlkInv /\ BlkInv' /\ [Next]_vars => [Device!Next]_(Device!vars)
<1> DEFINE Shape == /\ ~Busy => request = NoRequest
                    /\ Busy => request = [write |-> blk.req.write, sector |-> blk.req.sector,
                                          data |-> buf,
                                          outcome |-> IF blk.status = "none" THEN "none"
                                                      ELSE IF blk.status = "OK" THEN "ok"
                                                      ELSE "error"]
<1>a. BlkInv => Shape
  BY RequestOfBusy
<1>b. BlkInv' => Shape'
  <2> HIDE DEF Shape
  <2> QED
    BY <1>a, PTL
<1> SUFFICES ASSUME BlkInv, BlkInv', [Next]_vars PROVE [Device!Next]_(Device!vars)
  OBVIOUS
<1> USE DEF Device!Next, Device!vars
<1>0. /\ ~Busy' => request' = NoRequest
      /\ Busy' => request' = [write |-> blk'.req.write, sector |-> blk'.req.sector, data |-> buf',
                              outcome |-> IF blk'.status = "none" THEN "none"
                                          ELSE IF blk'.status = "OK" THEN "ok" ELSE "error"]
  BY <1>b
<1> HIDE DEF Shape
<1>1. ASSUME NEW d \in Probes, virtio_blk_init(d)
      PROVE  UNCHANGED <<sectors, request, answer>>
  BY <1>0, <1>1, InitStepInv, RequestOfBusy
<1>2. ASSUME NEW write \in BOOLEAN, NEW s \in Asked, NEW c \in Contents, virtio_blk_rw(write, s, c)
      PROVE  Device!Call(write, s, c)
  <2>1. /\ ~Busy /\ Busy' /\ UNCHANGED <<sectors, answer>>
        /\ blk'.req = [write |-> write, sector |-> s] /\ blk'.status = "none" /\ buf' = c
    BY <1>2, CallInv
  <2> QED
    BY <1>0, <2>1, RequestOfBusy DEF Device!Call
<1>3. ASSUME Publish \/ Notify
      PROVE  UNCHANGED <<sectors, request, answer>>
  BY <1>0, <1>3, DriverInv, RequestOfBusy
<1>4. ASSUME Reap
      PROVE  Device!Return
  <2>1. /\ Busy /\ ~Busy' /\ blk.status # "none" /\ UNCHANGED sectors
        /\ answer' = [ok |-> blk.status = "OK", data |-> buf]
    BY <1>4, ReapInv
  <2> QED
    BY <1>0, <2>1, RequestOfBusy DEF Device!Return
<1>5. ASSUME DeviceTakes \/ DeviceFindsNothing \/ \E i \in Descs : DeviceCompletes(i)
      PROVE  UNCHANGED <<sectors, request, answer>>
  BY <1>5 DEF DeviceTakes, DeviceFindsNothing, DeviceCompletes, driver, request, Busy
<1>6. ASSUME NEW i \in Descs, NEW ok \in BOOLEAN, DeviceServes(i, ok)
      PROVE  Device!Perform \/ Device!Refuse
  <2>1. /\ Busy /\ Busy' /\ blk.status = "none" /\ blk'.req = blk.req
        /\ blk'.status = IF ok THEN "OK" ELSE "IOERR"
        /\ ok => blk.req.sector \in Sectors
        /\ IF ok /\ blk.req.write
           THEN sectors' = [sectors EXCEPT ![blk.req.sector] = buf] /\ UNCHANGED buf
           ELSE /\ UNCHANGED sectors
                /\ buf' = IF ok THEN sectors[blk.req.sector] ELSE buf
        /\ UNCHANGED answer
    BY <1>6, ServesInv
  <2>2. /\ request # NoRequest
        /\ request = [write |-> blk.req.write, sector |-> blk.req.sector, data |-> buf,
                      outcome |-> "none"]
    BY <2>1, RequestOfBusy
  <2>3. request' = [write |-> blk.req.write, sector |-> blk.req.sector, data |-> buf',
                    outcome |-> IF ok THEN "ok" ELSE "error"]
    BY <1>0, <2>1
  <2>4. CASE ~ok
    BY <2>1, <2>2, <2>3, <2>4 DEF Device!Refuse
  <2> DEFINE s == blk.req.sector
  <2>5. /\ request # NoRequest /\ request.outcome = "none" /\ request.sector = s
        /\ request.write = blk.req.write /\ request.data = buf
    BY <2>2
  <2>6. CASE ok /\ blk.req.write
    <3>1. request' = [request EXCEPT !.outcome = "ok"]
      <4>1. request' = [write |-> blk.req.write, sector |-> s, data |-> buf, outcome |-> "ok"]
        BY <2>1, <2>3, <2>6
      <4> QED
        BY <2>2, <4>1, WithOutcome
    <3> QED
      BY <2>1, <2>5, <2>6, <3>1 DEF Device!Perform
  <2>7. CASE ok /\ ~blk.req.write
    <3>1. buf' = sectors[s]
      BY <2>1, <2>7
    <3>2. request' = [request EXCEPT !.outcome = "ok", !.data = sectors[s]]
      <4>1. request' = [write |-> blk.req.write, sector |-> s, data |-> sectors[s], outcome |-> "ok"]
        BY <2>3, <2>7, <3>1
      <4>2. PICK p : p = [request EXCEPT !.outcome = "ok"]
        OBVIOUS
      <4>3. p = [write |-> blk.req.write, sector |-> s, data |-> buf, outcome |-> "ok"]
        BY <2>2, <4>2, WithOutcome
      <4>4. [p EXCEPT !.data = sectors[s]]
              = [write |-> blk.req.write, sector |-> s, data |-> sectors[s], outcome |-> "ok"]
        BY <4>3, WithData
      <4>5. [request EXCEPT !.outcome = "ok", !.data = sectors[s]] = [p EXCEPT !.data = sectors[s]]
        BY <4>2
      <4> QED
        BY <4>1, <4>4, <4>5
    <3> QED
      BY <2>1, <2>5, <2>7, <3>2 DEF Device!Perform
  <2> QED
    BY <2>4, <2>6, <2>7
<1>7. ASSUME UNCHANGED vars
      PROVE  UNCHANGED <<sectors, request, answer>>
  BY <1>7 DEF vars, driver, request, Busy
<1> QED
  BY <1>1, <1>2, <1>3, <1>4, <1>5, <1>6, <1>7 DEF Next, DriverStep, DeviceStep

\* virtio_blk_read, virtio_blk_write: with any queue, index width and device,
\* each request is carried out once between call and return, with the caller's
\* sector and buffer, and success is reported exactly if it was.
THEOREM DriverIsBlockDevice == Spec => IsBlockDevice
<1>1. Init => Device!Init
  BY DEF Init, Device!Init, request, Busy
<1> QED
  BY <1>1, RequestNext, BlkInvariant, PTL DEF Spec, IsBlockDevice, Device!Spec
=============================================================================
