-------------------------- MODULE RingQueue_proofs --------------------------
(***************************************************************************)
(* The ring of sync.h, of any size, implements the bounded FIFO.           *)
(***************************************************************************)
EXTENDS RingQueue, SequenceTheorems, TLAPS

\* What % does to an index less than two rings long.
LEMMA ModuloRing ==
    ASSUME NEW n \in Nat \ {0}, NEW i \in 0 .. 2 * n - 1
    PROVE  i % n = IF i < n THEN i ELSE i - n
<1>1. CASE i < n
  BY <1>1, SMT
<1>2. CASE ~(i < n)
  <2>1. i = (i - n) + n /\ i - n \in 0 .. n - 1
    BY <1>2
  <2>2. i % n = (i - n) % n
    BY <2>1, SMT
  <2> QED
    BY <1>2, <2>1, <2>2, SMT
<1> QED
  BY <1>1, <1>2

\* The slot arithmetic without %: what every later step needs of it.
Wrap(i) == IF i < WAIT_QUEUE_SIZE THEN i ELSE i - WAIT_QUEUE_SIZE

LEMMA SlotArithmetic ==
    ASSUME TypeOK
    PROVE  /\ \A i \in 0 .. WAIT_QUEUE_SIZE : slot(i) = Wrap(head + i)
           /\ \A i \in Slots : next_slot(i) = Wrap(i + 1)
<1> USE RingAssumption DEF TypeOK, Slots
<1>1. ASSUME NEW i \in 0 .. WAIT_QUEUE_SIZE
      PROVE  slot(i) = Wrap(head + i)
  <2>1. head + i \in 0 .. 2 * WAIT_QUEUE_SIZE - 1
    OBVIOUS
  <2> QED
    BY <2>1, ModuloRing DEF slot, Wrap
<1>2. ASSUME NEW i \in Slots
      PROVE  next_slot(i) = Wrap(i + 1)
  <2>1. i + 1 \in 0 .. 2 * WAIT_QUEUE_SIZE - 1
    OBVIOUS
  <2> QED
    BY <2>1, ModuloRing DEF next_slot, Wrap
<1> QED
  BY <1>1, <1>2

-----------------------------------------------------------------------------
\* The fields stay in their ranges and agree with each other: the inductive
\* invariant of the ring.
RingInv == TypeOK /\ tail = Wrap(head + count)

LEMMA RingInvInit == Init => RingInv
  BY RingAssumption DEF Init, wq_init, RingInv, TypeOK, Slots, Wrap

LEMMA RingInvNext == RingInv /\ [Next]_vars => RingInv'
<1> SUFFICES ASSUME RingInv, [Next]_vars
             PROVE  RingInv'
  OBVIOUS
<1> USE RingAssumption DEF RingInv, TypeOK, Slots, Wrap
<1>0. \A i \in Slots : next_slot(i) = Wrap(i + 1)
  BY SlotArithmetic
<1>1. ASSUME NEW tid \in Tids, wq_push(tid)
      PROVE  RingInv'
  <2>1. CASE count >= WAIT_QUEUE_SIZE
    BY <1>1, <2>1 DEF wq_push
  <2>2. CASE ~(count >= WAIT_QUEUE_SIZE)
    BY <1>0, <1>1, <2>2 DEF wq_push
  <2> QED
    BY <2>1, <2>2
<1>2. CASE wq_pop
  BY <1>0, <1>2 DEF wq_pop
<1>3. CASE UNCHANGED vars
  BY <1>3 DEF vars
<1> QED
  BY <1>1, <1>2, <1>3 DEF Next

THEOREM RingTypeOK == Spec => []TypeOK
<1>1. RingInv => TypeOK
  BY DEF RingInv
<1> QED
  BY <1>1, RingInvInit, RingInvNext, PTL DEF Spec

\* sync.h, wq_push / wq_pop: head, tail and count, updated separately, never
\* disagree about which slots are in use.
THEOREM RingIndicesAgree == Spec => []IndicesAgree
<1>1. RingInv => IndicesAgree
  BY SlotArithmetic, RingAssumption DEF RingInv, IndicesAgree, TypeOK
<1> QED
  BY <1>1, RingInvInit, RingInvNext, PTL DEF Spec

-----------------------------------------------------------------------------
\* The sequence the ring represents, and what each operation does to it.
ContentsFacts == /\ contents \in Seq(Tids)
                 /\ Len(contents) = count
                 /\ \A i \in 1 .. count : contents[i] = queue[Wrap(head + i - 1)]

LEMMA ContentsType == RingInv => ContentsFacts
<1> SUFFICES ASSUME RingInv PROVE ContentsFacts
  OBVIOUS
<1> USE RingAssumption DEF RingInv, TypeOK, Slots
<1>1. \A i \in 1 .. count : slot(i - 1) = Wrap(head + i - 1)
  BY SlotArithmetic
<1>2. \A i \in 1 .. count : Wrap(head + i - 1) \in Slots
  BY DEF Wrap
<1>3. contents = [i \in 1 .. count |-> queue[Wrap(head + i - 1)]]
  BY <1>1 DEF contents
<1>4. \A i \in 1 .. count : queue[Wrap(head + i - 1)] \in Tids
  BY <1>2
<1>5. count \in Nat
  OBVIOUS
<1>6. contents \in Seq(Tids)
  BY <1>3, <1>4, <1>5, IsASeq
<1> QED
  BY <1>3, <1>5, <1>6 DEF ContentsFacts

LEMMA ContentsTypeNext == RingInv' => ContentsFacts'
  BY ContentsType, PTL

LEMMA PushAppends ==
    ASSUME RingInv, RingInv', NEW tid \in Tids, wq_push(tid), count < WAIT_QUEUE_SIZE
    PROVE  contents' = Append(contents, tid)
<1> USE RingAssumption DEF RingInv, TypeOK, Slots
<1>1. /\ queue' = [queue EXCEPT ![tail] = tid]
      /\ count' = count + 1
      /\ head' = head
  BY DEF wq_push
<1>2. /\ contents' \in Seq(Tids)
      /\ Len(contents') = count + 1
      /\ \A i \in 1 .. count + 1 : contents'[i] = queue'[Wrap(head + i - 1)]
  <2>1. /\ contents' \in Seq(Tids)
        /\ Len(contents') = count'
        /\ \A i \in 1 .. count' : contents'[i] = queue'[Wrap(head' + i - 1)]
    BY ContentsTypeNext DEF ContentsFacts
  <2> QED
    BY <1>1, <2>1
<1>3. \A i \in 1 .. count : Wrap(head + i - 1) # tail /\ Wrap(head + i - 1) \in Slots
  BY DEF Wrap
<1>4. \A i \in 1 .. count : contents'[i] = contents[i]
  BY <1>1, <1>2, <1>3, ContentsType DEF ContentsFacts
<1>5. contents'[count + 1] = tid
  BY <1>1, <1>2
<1>6. contents \in Seq(Tids) /\ Len(contents) = count /\ count \in Nat
  BY ContentsType DEF ContentsFacts
<1> HIDE DEF RingInv, TypeOK
<1>7. /\ Append(contents, tid) \in Seq(Tids)
      /\ Len(Append(contents, tid)) = count + 1
      /\ \A i \in 1 .. count : Append(contents, tid)[i] = contents[i]
      /\ Append(contents, tid)[count + 1] = tid
  BY <1>6, AppendProperties
<1>8. \A i \in 1 .. count + 1 : contents'[i] = Append(contents, tid)[i]
  BY <1>4, <1>5, <1>6, <1>7
<1> QED
  BY <1>2, <1>7, <1>8, SeqEqual

LEMMA PopTakesHead ==
    ASSUME RingInv, RingInv', wq_pop, count # 0
    PROVE  /\ contents # <<>>
           /\ popped' = Head(contents)
           /\ contents' = Tail(contents)
<1> USE RingAssumption DEF RingInv, TypeOK, Slots
<1>1. /\ queue' = queue
      /\ count' = count - 1
      /\ head' = Wrap(head + 1)
      /\ popped' = queue[head]
  <2>1. next_slot(head) = Wrap(head + 1)
    BY SlotArithmetic
  <2> QED
    BY <2>1 DEF wq_pop
<1>2. /\ contents' \in Seq(Tids)
      /\ Len(contents') = count - 1
      /\ \A i \in 1 .. count - 1 : contents'[i] = queue[Wrap(Wrap(head + 1) + i - 1)]
  <2>1. /\ contents' \in Seq(Tids)
        /\ Len(contents') = count'
        /\ \A i \in 1 .. count' : contents'[i] = queue'[Wrap(head' + i - 1)]
    BY ContentsTypeNext DEF ContentsFacts
  <2> QED
    BY <1>1, <2>1
<1>3. \A i \in 1 .. count - 1 : Wrap(Wrap(head + 1) + i - 1) = Wrap(head + (i + 1) - 1)
  BY DEF Wrap
<1>4. ASSUME NEW i \in 1 .. count - 1
      PROVE  contents'[i] = contents[i + 1]
  <2>1. i + 1 \in 1 .. count
    OBVIOUS
  <2>2. contents[i + 1] = queue[Wrap(head + (i + 1) - 1)]
    BY <2>1, ContentsType DEF ContentsFacts
  <2> QED
    BY <1>2, <1>3, <2>2
<1>5. contents \in Seq(Tids) /\ Len(contents) = count /\ count > 0
  BY ContentsType DEF ContentsFacts
<1>6. contents # <<>> /\ Head(contents) = contents[1]
  BY <1>5
<1>7. contents[1] = queue[head]
  <2>1. 1 \in 1 .. count
    BY <1>5
  <2>2. Wrap(head + 1 - 1) = head
    BY DEF Wrap
  <2> QED
    BY <2>1, <2>2, ContentsType DEF ContentsFacts
<1>8. contents' = Tail(contents)
  <2>1. /\ Tail(contents) \in Seq(Tids)
        /\ Len(Tail(contents)) = count - 1
        /\ \A i \in 1 .. count - 1 : Tail(contents)[i] = contents[i + 1]
    BY <1>5
  <2>2. \A i \in 1 .. count - 1 : contents'[i] = Tail(contents)[i]
    BY <1>4, <2>1
  <2> HIDE DEF RingInv, TypeOK
  <2> QED
    BY <1>2, <2>1, <2>2, SeqEqual
<1> QED
  BY <1>1, <1>6, <1>7, <1>8

\* sync.h, the whole wait queue: every behaviour of the ring is a behaviour
\* of the bounded first-in first-out queue, whatever its size.
THEOREM RingImplementsFifo == Spec => ImplementsFifo
<1>1. Init => Fifo!Init
  BY RingInvInit, ContentsType DEF ContentsFacts, Init, wq_init, Fifo!Init
<1>2. ASSUME RingInv, RingInv', [Next]_vars
      PROVE  [Fifo!Next]_Fifo!vars
  <2>1. ASSUME NEW tid \in Tids, wq_push(tid)
        PROVE  Fifo!Push(tid)
    <3>1. CASE count < WAIT_QUEUE_SIZE
      <4>1. contents' = Append(contents, tid) /\ Len(contents) = count
        BY <1>2, <2>1, <3>1, PushAppends, ContentsType DEF ContentsFacts
      <4> QED
        BY <1>2, <2>1, <3>1, <4>1, RingAssumption
           DEF wq_push, Fifo!Push, RingInv, TypeOK
    <3>2. CASE ~(count < WAIT_QUEUE_SIZE)
      <4>1. contents' = contents
        BY <1>2, <2>1, <3>2, RingAssumption DEF wq_push, contents, slot, RingInv, TypeOK
      <4> QED
        BY <1>2, <2>1, <3>2, <4>1, ContentsType, RingAssumption
           DEF ContentsFacts, wq_push, Fifo!Push, RingInv, TypeOK
    <3> QED
      BY <3>1, <3>2
  <2>2. ASSUME wq_pop
        PROVE  Fifo!Pop
    <3>1. CASE count = 0
      <4>1. contents = <<>> /\ contents' = contents
        BY <1>2, <2>2, <3>1, ContentsType DEF ContentsFacts, wq_pop, contents, slot
      <4> QED
        BY <2>2, <3>1, <4>1 DEF wq_pop, Fifo!Pop
    <3>2. CASE count # 0
      BY <1>2, <2>2, <3>2, PopTakesHead DEF wq_pop, Fifo!Pop
    <3> QED
      BY <3>1, <3>2
  <2>3. CASE UNCHANGED vars
    BY <2>3 DEF vars, Fifo!vars, contents, slot
  <2> QED
    BY <1>2, <2>1, <2>2, <2>3 DEF Next, Fifo!Next
<1> QED
  BY <1>1, <1>2, RingInvInit, RingInvNext, PTL DEF Spec, Fifo!Spec, ImplementsFifo
=============================================================================
