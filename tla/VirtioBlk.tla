----------------------------- MODULE VirtioBlk ------------------------------
(***************************************************************************)
(* virtio-block/virtio_block.c: the driver of the block device the file    *)
(* system lives on, and the device at the other end of the queue.  The two *)
(* run side by side and share the descriptors, the rings and the buffers;  *)
(* the driver's stores are separate steps wherever a barrier stands        *)
(* between them.  The device is not part of the repository: it may look at *)
(* the queue at any time, does so when notified, and may answer with an    *)
(* error.                                                                  *)
(***************************************************************************)
EXTENDS Naturals, FiniteSets

CONSTANTS VIRTQ_SIZE,
          INDEX_RANGE,     \* how many values a ring index has: 2^16
          Sectors,         \* of the device
          Asked,           \* those the file system asks for
          Contents,        \* what a sector can hold
          NoRequest

ASSUME VirtioAssumption == /\ VIRTQ_SIZE \in Nat /\ VIRTQ_SIZE >= 3
                           /\ INDEX_RANGE \in Nat /\ INDEX_RANGE > 1
                           /\ INDEX_RANGE % VIRTQ_SIZE = 0
                           /\ Sectors \subseteq Asked
                           /\ Contents # {}
                           /\ NoRequest \notin [write : BOOLEAN, sector : Asked, data : Contents,
                                               outcome : {"none", "ok", "error"}]

VARIABLES pc,          \* where the driver is
          blk,         \* virtio_blk_t: free, last_used_idx, req, status
          desc, avail, used,
          head,        \* idx[0] of the request under way
          buf,         \* the caller's buffer
          answer,      \* of the last request
          regs,        \* the device's registers
          device,      \* how far the device has come in the queue
          sectors      \* what the device holds

driver == <<pc, blk, desc, avail, head, buf, answer>>
vars   == <<driver, used, regs, device, sectors>>

Descs   == 0..(VIRTQ_SIZE - 1)
Indices == 0..(INDEX_RANGE - 1)

\* i + 1 in a uint16_t
bump(i) == (i + 1) % INDEX_RANGE

-----------------------------------------------------------------------------
(* The driver *)

\* virtio_blk_init: what it finds in the registers, and whether the heap has
\* two pages.
Probes == [magic : BOOLEAN, version : {1, 2, 3}, block_device : BOOLEAN,
           features_ok : BOOLEAN, queue_ready : BOOLEAN, queue_num_max : {VIRTQ_SIZE - 1, VIRTQ_SIZE},
           memory : BOOLEAN]

Supported(d)  == d.magic /\ d.version \in {1, 2} /\ d.block_device
Negotiated(d) == Supported(d) /\ d.features_ok
QueueIsUp(d)  == Negotiated(d) /\ ~d.queue_ready /\ d.queue_num_max >= VIRTQ_SIZE /\ d.memory

\* On -1 the kernel shuts down.
virtio_blk_init(d) ==
    /\ pc = "off"
    /\ regs' = [status |-> (IF Supported(d) THEN {"ACKNOWLEDGE", "DRIVER"} ELSE {})
                           \cup (IF Negotiated(d) THEN {"FEATURES_OK"} ELSE {})
                           \cup (IF QueueIsUp(d) THEN {"DRIVER_OK"} ELSE {}),
                queue |-> CASE ~QueueIsUp(d)   -> "none"
                            [] d.version = 1   -> "pfn"
                            [] OTHER           -> "ready"]
    /\ IF QueueIsUp(d)
       THEN /\ blk' = [blk EXCEPT !.free = [i \in Descs |-> TRUE], !.last_used_idx = 0]
            /\ pc' = "ready"
       ELSE pc' = "shutdown" /\ UNCHANGED blk
    /\ UNCHANGED <<desc, avail, used, head, buf, answer, device, sectors>>

\* alloc_desc: the first free one.
alloc_desc(free) == CHOOSE i \in Descs : free[i] /\ \A j \in Descs : free[j] => i <= j

Has(free) == \E i \in Descs : free[i]
Take(free) == [free EXCEPT ![alloc_desc(free)] = FALSE]

\* virtio_blk_rw fills in the request and its chain, if there are three
\* descriptors; those it took before one was missing stay taken.
virtio_blk_rw(write, sector, data) ==
    LET f0 == blk.free
        f1 == IF Has(f0) THEN Take(f0) ELSE f0
        f2 == IF Has(f1) THEN Take(f1) ELSE f1
        enough == Has(f0) /\ Has(f1) /\ Has(f2)
        i0 == alloc_desc(f0)
        i1 == alloc_desc(f1)
        i2 == alloc_desc(f2)
    IN  /\ pc = "ready"
        /\ buf' = data
        /\ blk' = [blk EXCEPT !.req = [write |-> write, sector |-> sector], !.status = "none",
                              !.free = IF Has(f2) THEN Take(f2) ELSE f2]
        /\ IF enough
           THEN /\ desc' = [desc EXCEPT
                       ![i0] = [addr |-> "req",    flags |-> {"NEXT"}, next |-> i1],
                       ![i1] = [addr |-> "buf",
                                flags |-> {"NEXT"} \cup (IF write THEN {} ELSE {"WRITE"}), next |-> i2],
                       ![i2] = [addr |-> "status", flags |-> {"WRITE"}, next |-> 0]]
                /\ avail' = [avail EXCEPT !.ring[avail.idx % VIRTQ_SIZE] = i0]
                /\ head' = i0
                /\ pc' = "filled"
                /\ UNCHANGED answer
           ELSE /\ answer' = [ok |-> FALSE, data |-> data]
                /\ UNCHANGED <<pc, desc, avail, head>>
        /\ UNCHANGED <<used, regs, device, sectors>>

Publish == /\ pc = "filled"
           /\ avail' = [avail EXCEPT !.idx = bump(@)]
           /\ pc' = "published"
           /\ UNCHANGED <<blk, desc, head, buf, answer, used, regs, device, sectors>>

\* Mutant: the device is not told.
Notify_not == /\ pc = "published"
              /\ pc' = "waiting"
              /\ UNCHANGED <<blk, desc, avail, head, buf, answer, used, regs, device, sectors>>

Notify == /\ pc = "published"
          /\ device' = [device EXCEPT !.notified = TRUE]
          /\ pc' = "waiting"
          /\ UNCHANGED <<blk, desc, avail, head, buf, answer, used, regs, sectors>>

\* The descriptors of the chain that begins at i: three at most.
Linked(i) == "NEXT" \in desc[i].flags
Chain(i) == {i} \cup (IF Linked(i)
                      THEN {desc[i].next} \cup (IF Linked(desc[i].next)
                                                THEN {desc[desc[i].next].next} ELSE {})
                      ELSE {})

\* Mutant: the last descriptor is not freed.
free_chain_short(i) == [d \in Descs |-> blk.free[d] \/ (d \in Chain(i) /\ Linked(d))]

free_chain(i) == [d \in Descs |-> blk.free[d] \/ d \in Chain(i)]

\* Mutant: the answer is taken as soon as the device has the request.
completed_early == used.idx # blk.last_used_idx \/ device.serving # {}

\* The busy wait is over.
completed == used.idx # blk.last_used_idx

\* Mutant: last_used_idx stays.
Reap_uncounted ==
    /\ pc = "waiting" /\ completed
    /\ blk' = [blk EXCEPT !.free = free_chain(head)]
    /\ answer' = [ok |-> blk.status = "OK", data |-> buf]
    /\ pc' = "ready"
    /\ UNCHANGED <<desc, avail, head, buf, used, regs, device, sectors>>

Reap == /\ pc = "waiting" /\ completed
        /\ blk' = [blk EXCEPT !.last_used_idx = bump(@), !.free = free_chain(head)]
        /\ answer' = [ok |-> blk.status = "OK", data |-> buf]
        /\ pc' = "ready"
        /\ UNCHANGED <<desc, avail, head, buf, used, regs, device, sectors>>

-----------------------------------------------------------------------------
(* The device *)

Live == "DRIVER_OK" \in regs.status /\ regs.queue # "none"

\* It looks at the queue and takes the next chain, one at a time.
DeviceTakes ==
    /\ Live /\ device.serving = {} /\ device.taken # avail.idx
    /\ device' = [device EXCEPT !.serving = {avail.ring[device.taken % VIRTQ_SIZE]},
                                !.taken = bump(@), !.notified = FALSE]
    /\ UNCHANGED <<driver, used, regs, sectors>>

\* It looks because it was notified, and there is nothing.
DeviceFindsNothing ==
    /\ Live /\ device.notified /\ device.taken = avail.idx
    /\ device' = [device EXCEPT !.notified = FALSE]
    /\ UNCHANGED <<driver, used, regs, sectors>>

\* The second and the third descriptor of a chain.
Second(i) == desc[i].next
Third(i)  == desc[Second(i)].next

\* It does what a chain of the right form asks for, or not, and says which; a
\* sector it does not have is an error.
DeviceServes(i, ok) ==
    /\ i \in device.serving /\ blk.status = "none"
    /\ desc[i].addr = "req" /\ desc[Second(i)].addr = "buf" /\ desc[Third(i)].addr = "status"
    /\ ok => blk.req.sector \in Sectors
    /\ IF ok /\ blk.req.write
       THEN sectors' = [sectors EXCEPT ![blk.req.sector] = buf] /\ UNCHANGED buf
       ELSE /\ UNCHANGED sectors
            /\ buf' = IF ok /\ "WRITE" \in desc[Second(i)].flags THEN sectors[blk.req.sector] ELSE buf
    /\ blk' = [blk EXCEPT !.status = IF ok THEN "OK" ELSE "IOERR"]
    /\ UNCHANGED <<pc, desc, avail, head, answer, used, regs, device>>

DeviceCompletes(i) ==
    /\ i \in device.serving /\ blk.status # "none"
    /\ used' = [idx |-> bump(used.idx), ring |-> [used.ring EXCEPT ![used.idx % VIRTQ_SIZE] = i]]
    /\ device' = [device EXCEPT !.serving = {}]
    /\ UNCHANGED <<driver, regs, sectors>>

-----------------------------------------------------------------------------
\* g_virtio_blk and the queue start zeroed.
Init == /\ pc = "off"
        /\ blk = [free |-> [i \in Descs |-> FALSE], last_used_idx |-> 0,
                  req |-> [write |-> FALSE, sector |-> 0], status |-> "OK"]
        /\ desc = [i \in Descs |-> [addr |-> "req", flags |-> {}, next |-> 0]]
        /\ avail = [idx |-> 0, ring |-> [i \in Descs |-> 0]]
        /\ used  = [idx |-> 0, ring |-> [i \in Descs |-> 0]]
        /\ head = 0
        /\ buf = CHOOSE c \in Contents : TRUE
        /\ answer = [ok |-> TRUE, data |-> buf]
        /\ regs = [status |-> {}, queue |-> "none"]
        /\ device = [taken |-> 0, serving |-> {}, notified |-> FALSE]
        /\ sectors \in [Sectors -> Contents]

DriverStep == Publish \/ Notify \/ Reap
DeviceStep == \/ DeviceTakes \/ DeviceFindsNothing
              \/ \E i \in Descs : DeviceCompletes(i) \/ \E ok \in BOOLEAN : DeviceServes(i, ok)

Next == \/ \E d \in Probes : virtio_blk_init(d)
        \/ \E write \in BOOLEAN, s \in Asked, c \in Contents : virtio_blk_rw(write, s, c)
        \/ DriverStep
        \/ DeviceStep

Spec == Init /\ [][Next]_vars

\* The kernel runs on, and a device that was notified looks and serves.
FairSpec == /\ Spec
            /\ WF_vars(DriverStep)
            /\ WF_vars(device.notified /\ DeviceTakes)
            /\ WF_vars(DeviceFindsNothing)
            /\ \A i \in Descs : /\ WF_vars(\E ok \in BOOLEAN : DeviceServes(i, ok))
                                /\ WF_vars(DeviceCompletes(i))

-----------------------------------------------------------------------------
Busy == pc \in {"filled", "published", "waiting"}

TypeOK == /\ pc \in {"off", "ready", "filled", "published", "waiting", "shutdown"}
          /\ blk \in [free : [Descs -> BOOLEAN], last_used_idx : Indices,
                      req : [write : BOOLEAN, sector : Asked \cup {0}],
                      status : {"none", "OK", "IOERR"}]
          /\ desc \in [Descs -> [addr : {"req", "buf", "status"},
                                 flags : SUBSET {"NEXT", "WRITE"}, next : Descs]]
          /\ avail \in [idx : Indices, ring : [Descs -> Descs]]
          /\ used \in [idx : Indices, ring : [Descs -> Descs]]
          /\ head \in Descs /\ buf \in Contents
          /\ regs \in [status : SUBSET {"ACKNOWLEDGE", "DRIVER", "FEATURES_OK", "DRIVER_OK"},
                       queue : {"none", "pfn", "ready"}]
          /\ device \in [taken : Indices, serving : SUBSET Descs, notified : BOOLEAN]
          /\ sectors \in [Sectors -> Contents]

\* virtio_blk_rw, free_chain: between two requests every descriptor is free,
\* so the allocation that would leak what it took never comes short; during
\* one, three are taken, and they are its chain.
DescriptorsReturn ==
    /\ pc = "ready" => \A i \in Descs : blk.free[i]
    /\ Busy => /\ Chain(head) = {i \in Descs : ~blk.free[i]}
               /\ Cardinality(Chain(head)) = 3

\* virtio_blk_rw, last_used_idx: driver and device agree on how many requests
\* there were, over every wrap of the indices: one is outstanding from the time
\* it is published until it is reaped, and the device has only that one.
IndicesAgree ==
    /\ avail.idx = IF pc \in {"published", "waiting"} THEN bump(blk.last_used_idx)
                                                      ELSE blk.last_used_idx
    /\ used.idx \in {blk.last_used_idx, avail.idx}
    /\ device.taken = IF device.serving = {} THEN used.idx ELSE bump(used.idx)
    /\ device.serving # {} => device.serving = {head} /\ device.taken = avail.idx

\* The request under way, as the caller sees it.
request == IF ~Busy THEN NoRequest
           ELSE [write |-> blk.req.write, sector |-> blk.req.sector, data |-> buf,
                 outcome |-> CASE blk.status = "none"  -> "none"
                               [] blk.status = "OK"    -> "ok"
                               [] blk.status = "IOERR" -> "error"]

Device == INSTANCE BlockDevice

\* virtio_blk_read, virtio_blk_write: each request is carried out once, between
\* the call and the return, with the caller's sector and buffer; the return is
\* 0 if it was and -1 if the device refused.
IsBlockDevice == Device!Spec

\* The busy wait of virtio_blk_rw: every request returns.
EveryRequestEnds == Busy ~> pc = "ready"
=============================================================================
