--------------------------- MODULE SpscRingProofs ---------------------------
(***************************************************************************)
(* Theorems about SpscRing for any capacity, any index width and any       *)
(* number of pushes: its safety properties, and that it implements         *)
(* BoundedFifo.                                                            *)
(***************************************************************************)
EXTENDS SpscRing, RingIndexTheorems, SequenceTheorems

LEMMA InitCorrect == Init => TypeOK /\ RingInv
<1> SUFFICES ASSUME Init PROVE TypeOK /\ RingInv
  OBVIOUS
<1>1. 0 \in Index /\ Distance(0, 0) = 0
  BY IndexModBound DEF Index, Distance
<1>2. TypeOK
  BY <1>1, MaxPushesAssumption DEF Init, TypeOK
<1>3. RingInv
  BY <1>1, IndexModBound DEF Init, RingInv, HeldInv, ProducerInv, ConsumerInv
<1> QED BY <1>2, <1>3

(* The slot push writes is none of those that hold an item, and the slot   *)
(* pop reads holds the oldest.                                             *)
LEMMA FreeSlot ==
  ASSUME TypeOK, HeldInv, Len(queue) < Capacity, NEW k \in 1..Len(queue)
  PROVE  SlotOf(IndexAfter(tail, k - 1)) # SlotOf(head)
<1>1. head = IndexAfter(tail, Len(queue))
  BY DistanceFacts DEF TypeOK, HeldInv
<1>2. Len(queue) \in Nat
  BY DEF TypeOK
<1>3. k - 1 \in 0..(Capacity - 1) /\ Len(queue) \in 0..(Capacity - 1) /\ k - 1 # Len(queue)
  BY <1>2, IndexModBound
<1> QED BY <1>1, <1>3, SlotsApart DEF TypeOK

LEMMA OldestSlot ==
  ASSUME TypeOK, HeldInv, queue # <<>>
  PROVE  buf[SlotOf(tail)] = Head(queue) /\ Len(queue) >= 1
<1>1. Len(queue) \in Nat /\ Len(queue) >= 1 /\ Head(queue) = queue[1]
  BY DEF TypeOK
<1>2. IndexAfter(tail, 0) = tail
  BY IndexModBound DEF IndexAfter, TypeOK, Index
<1>3. 1 \in 1..Len(queue) /\ 1 - 1 = 0
  BY <1>1
<1> QED BY <1>1, <1>2, <1>3 DEF HeldInv

-----------------------------------------------------------------------------
(* One lemma per action that changes the ring. *)

LEMMA PushLoadTailKeeps ==
  ASSUME TypeOK, RingInv, PushLoadTail
  PROVE  TypeOK' /\ RingInv'
<1> USE DEF PushLoadTail, consumer
<1>1. TypeOK'
  BY MaxPushesAssumption DEF TypeOK
<1>2. HeldInv' /\ ConsumerInv'
  BY DEF RingInv, HeldInv, ConsumerInv
<1>3. ProducerInv'
  <2>1. pushes' \in Items
    BY MaxPushesAssumption DEF TypeOK, Items
  <2>2. pphase' # "idle" => Len(queue) < Capacity
    BY IndexModBound DEF TypeOK, RingInv, HeldInv
  <2> QED BY <2>1, <2>2 DEF ProducerInv
<1> QED BY <1>1, <1>2, <1>3 DEF RingInv

LEMMA PushWriteKeeps ==
  ASSUME TypeOK, RingInv, PushWrite
  PROVE  TypeOK' /\ RingInv'
<1> USE DEF PushWrite, consumer
<1>1. pushes \in Items /\ alive /\ Len(queue) < Capacity
  BY DEF RingInv, ProducerInv
<1>2. SlotOf(head) \in SlotId
  BY SlotInRange DEF TypeOK
<1>3. TypeOK'
  BY <1>1, <1>2 DEF TypeOK
<1>4. HeldInv'
  <2>1. ASSUME NEW k \in 1..Len(queue)
        PROVE  buf'[SlotOf(IndexAfter(tail, k - 1))] = queue[k]
    <3>1. SlotOf(IndexAfter(tail, k - 1)) # SlotOf(head)
      BY <1>1, FreeSlot DEF RingInv
    <3>2. SlotOf(IndexAfter(tail, k - 1)) \in SlotId
      <4>1. Len(queue) \in Nat
        BY DEF TypeOK
      <4>2. k - 1 \in 0..Capacity
        BY <4>1, IndexModBound DEF RingInv, HeldInv
      <4> QED BY <4>2, SlotAfter, SlotInRange DEF TypeOK
    <3> QED BY <3>1, <3>2, <1>2 DEF TypeOK, RingInv, HeldInv
  <2> QED BY <2>1 DEF RingInv, HeldInv
<1>5. ProducerInv'
  BY <1>1, <1>2 DEF ProducerInv, TypeOK
<1>6. ConsumerInv'
  BY DEF RingInv, ConsumerInv
<1> QED BY <1>3, <1>4, <1>5, <1>6 DEF RingInv

LEMMA PushStoreHeadKeeps ==
  ASSUME TypeOK, RingInv, PushStoreHead
  PROVE  TypeOK' /\ RingInv'
<1> USE DEF PushStoreHead, consumer
<1>1. pushes \in Items /\ alive /\ Len(queue) < Capacity /\ buf[SlotOf(head)] = pushes
  BY DEF RingInv, ProducerInv
<1>2. Len(queue) \in Nat
  BY DEF TypeOK
<1>3. /\ queue' \in Seq(Items)
      /\ Len(queue') = Len(queue) + 1
      /\ queue'[Len(queue) + 1] = pushes
      /\ \A k \in 1..Len(queue) : queue'[k] = queue[k]
      /\ queue' # <<>>
      /\ queue # <<>> => Head(queue') = Head(queue)
  BY <1>1, <1>2 DEF TypeOK
<1>4. TypeOK'
  BY <1>3, NextIndexIsNext DEF TypeOK
<1>5. HeldInv'
  <2>1. head = IndexAfter(tail, Len(queue))
    BY DistanceFacts DEF TypeOK, RingInv, HeldInv
  <2>2. Distance(head', tail) = Len(queue) + 1
    <3>1. head \in Index /\ tail \in Index /\ head' = NextIndex(head)
      BY DEF TypeOK
    <3>2. Distance(head, tail) = Len(queue)
      BY DEF RingInv, HeldInv
    <3>3. Distance(head, tail) < IndexMod - 1
      BY <1>1, <1>2, <3>2, IndexModBound
    <3>4. Distance(NextIndex(head), tail) = Distance(head, tail) + 1
      BY ONLY <3>1, <3>3, DistanceFacts
    <3> QED BY ONLY <3>1, <3>2, <3>4
  <2>3. ASSUME NEW k \in 1..(Len(queue) + 1)
        PROVE  buf[SlotOf(IndexAfter(tail, k - 1))] = queue'[k]
    <3>1. CASE k \in 1..Len(queue)
      BY <3>1, <1>3 DEF RingInv, HeldInv
    <3>2. CASE k = Len(queue) + 1
      <4>1. k - 1 = Len(queue)
        BY <3>2, <1>2
      <4> QED BY <4>1, <3>2, <2>1, <1>1, <1>3
    <3> QED BY <3>1, <3>2, <1>2
  <2> QED BY <1>1, <1>2, <1>3, <2>2, <2>3, IndexModBound DEF HeldInv
<1>6. ProducerInv'
  BY DEF ProducerInv
<1>7. ConsumerInv'
  BY <1>3 DEF RingInv, ConsumerInv
<1> QED BY <1>4, <1>5, <1>6, <1>7 DEF RingInv

LEMMA PopLoadHeadKeeps ==
  ASSUME TypeOK, RingInv, PopLoadHead
  PROVE  TypeOK' /\ RingInv'
<1> USE DEF PopLoadHead, producer
<1>1. TypeOK'
  BY DEF TypeOK
<1>2. HeldInv' /\ ProducerInv'
  BY DEF RingInv, HeldInv, ProducerInv
<1>3. ConsumerInv'
  <2>1. tail # head => queue # <<>>
    BY DistanceFacts DEF TypeOK, RingInv, HeldInv
  <2> QED BY <2>1 DEF ConsumerInv
<1> QED BY <1>1, <1>2, <1>3 DEF RingInv

LEMMA PopReadKeeps ==
  ASSUME TypeOK, RingInv, PopRead
  PROVE  TypeOK' /\ RingInv'
<1> USE DEF PopRead, producer
<1>1. alive /\ queue # <<>> /\ got' = Head(queue)
  BY OldestSlot DEF RingInv, ConsumerInv
<1>2. Head(queue) \in Items
  BY <1>1 DEF TypeOK
<1>3. TypeOK'
  BY <1>1, <1>2 DEF TypeOK
<1>4. HeldInv' /\ ProducerInv'
  BY DEF RingInv, HeldInv, ProducerInv
<1>5. ConsumerInv'
  BY <1>1 DEF ConsumerInv
<1> QED BY <1>3, <1>4, <1>5 DEF RingInv

LEMMA PopStoreTailKeeps ==
  ASSUME TypeOK, RingInv, PopStoreTail
  PROVE  TypeOK' /\ RingInv'
<1> USE DEF PopStoreTail, producer
<1>1. queue # <<>> /\ alive
  BY DEF RingInv, ConsumerInv
<1>2. /\ Len(queue) \in Nat
      /\ Len(queue) >= 1
      /\ queue' \in Seq(Items)
      /\ Len(queue') = Len(queue) - 1
      /\ \A k \in 1..(Len(queue) - 1) : queue'[k] = queue[k + 1]
  BY <1>1 DEF TypeOK
<1>3. TypeOK'
  BY <1>2, NextIndexIsNext DEF TypeOK
<1>4. HeldInv'
  <2>1. head # tail
    BY <1>2, DistanceFacts DEF TypeOK, RingInv, HeldInv
  <2>2. Distance(head, tail') = Len(queue) - 1
    BY <2>1, DistanceFacts DEF TypeOK, RingInv, HeldInv
  <2>3. ASSUME NEW k \in 1..(Len(queue) - 1)
        PROVE  buf[SlotOf(IndexAfter(tail', k - 1))] = queue'[k]
    <3>1. IndexAfter(tail', k - 1) = IndexAfter(tail, (k + 1) - 1)
      BY <1>2, IndexModBound DEF TypeOK, Index, IndexAfter, NextIndex, RingInv, HeldInv
    <3>2. k + 1 \in 1..Len(queue)
      BY <1>2
    <3> QED BY <3>1, <3>2, <1>2 DEF RingInv, HeldInv
  <2> QED BY <1>2, <2>2, <2>3, IndexModBound DEF RingInv, HeldInv
<1>5. ProducerInv'
  BY <1>2, IndexModBound DEF RingInv, HeldInv, ProducerInv
<1>6. ConsumerInv'
  BY DEF ConsumerInv
<1> QED BY <1>3, <1>4, <1>5, <1>6 DEF RingInv

LEMMA DropRingKeeps ==
  ASSUME TypeOK, RingInv, DropRing
  PROVE  TypeOK' /\ RingInv'
<1> USE DEF DropRing, producer, consumer
<1>1. alive' \in BOOLEAN
  BY Zenon DEF DropRing
<1>2. Distance(head, head) = 0
  BY DistanceFacts DEF TypeOK
<1>3. TypeOK'
  BY <1>1 DEF TypeOK
<1>4. HeldInv'
  BY <1>2, IndexModBound DEF HeldInv
<1>5. ProducerInv' /\ ConsumerInv'
  BY DEF ProducerInv, ConsumerInv
<1> QED BY <1>3, <1>4, <1>5 DEF RingInv

LEMMA RingStep ==
  ASSUME TypeOK, RingInv, [Next]_vars
  PROVE  TypeOK' /\ RingInv'
<1>1. CASE UNCHANGED vars
  BY <1>1 DEF vars, producer, consumer, TypeOK, RingInv, HeldInv, ProducerInv, ConsumerInv
<1> QED
  BY <1>1, PushLoadTailKeeps, PushWriteKeeps, PushStoreHeadKeeps, PopLoadHeadKeeps,
     PopReadKeeps, PopStoreTailKeeps, DropRingKeeps DEF Next, Push, Pop

(* Every reachable state of the ring has the types and the invariant.      *)
THEOREM RingInvariant == Spec => [](TypeOK /\ RingInv)
<1>1. Init => TypeOK /\ RingInv
  BY InitCorrect
<1>2. (TypeOK /\ RingInv) /\ [Next]_vars => (TypeOK /\ RingInv)'
  BY RingStep
<1> QED BY <1>1, <1>2, PTL DEF Spec
-----------------------------------------------------------------------------
(* The SAFETY comments of push and pop hold for every capacity: the slot   *)
(* being written and the slot being read are different.                    *)
THEOREM SlotsCorrect == Spec => []SlotsDisjoint
<1>1. ASSUME TypeOK, RingInv PROVE SlotsDisjoint
  <2> SUFFICES ASSUME pphase \in {"write", "store"}, cphase = "read"
               PROVE  SlotOf(head) # SlotOf(tail)
    BY DEF SlotsDisjoint
  <2>1. Len(queue) < Capacity /\ queue # <<>>
    BY <1>1 DEF RingInv, ProducerInv, ConsumerInv
  <2>2. Distance(head, tail) < Capacity /\ Distance(tail, tail) < Capacity /\ head # tail
    BY <1>1, <2>1, DistanceFacts, IndexModBound DEF TypeOK, RingInv, HeldInv
  <2> QED BY <1>1, <2>2, WindowSlots DEF TypeOK
<1> QED BY <1>1, RingInvariant, PTL

(* push gives its item back only when every slot holds an unpopped item.   *)
THEOREM RefusalsCorrect == Spec => RefusedOnlyWhenFull
<1>1. ASSUME TypeOK, RingInv, [Next]_vars
      PROVE  [pushes' # pushes /\ pphase' = "idle" => Len(queue) = Capacity]_vars
  <2> SUFFICES ASSUME Next, pushes' # pushes, pphase' = "idle" PROVE Len(queue) = Capacity
    BY <1>1
  <2>1. PushLoadTail
    BY DEF Next, Push, Pop, PushWrite, PushStoreHead, PopLoadHead, PopRead, PopStoreTail,
           DropRing, producer
  <2> QED BY <1>1, <2>1 DEF PushLoadTail, RingInv, HeldInv
<1> QED BY <1>1, RingInvariant, PTL DEF Spec, RefusedOnlyWhenFull

(* Drop pops until pop answers None: the slots it visits are as many as the *)
(* held items, and hold just these.                                        *)
LEMMA DroppedSlots ==
  ASSUME TypeOK, HeldInv
  PROVE  /\ Cardinality(Droppable) = Len(queue)
         /\ {buf[s] : s \in Droppable} = {queue[k] : k \in DOMAIN queue}
<1> DEFINE n == Len(queue)
<1>1. /\ n \in 0..Capacity /\ n = Distance(head, tail) /\ DOMAIN queue = 1..n
      /\ tail \in Index
      /\ \A k \in 1..n : buf[SlotOf(IndexAfter(tail, k - 1))] = queue[k]
  BY IndexModBound DEF TypeOK, HeldInv
<1> HIDE DEF n
<1>2. \A s : s \in Droppable <=> \E k \in 0..(n - 1) : s = SlotOf(IndexAfter(tail, k))
  <2>1. \A k \in 0..(n - 1) : SlotOf(IndexAfter(tail, k)) \in SlotId /\ k \in 0..Capacity /\ k < n
    BY <1>1, SlotAfter, SlotInRange, IndexModBound
  <2>2. \A k \in 0..Capacity : k < n => k \in 0..(n - 1)
    BY <1>1
  <2> QED BY <1>1, <2>1, <2>2 DEF Droppable
<1>3. Cardinality(Droppable) = n
  BY <1>1, <1>2, WindowCount
<1>4. {buf[s] : s \in Droppable} = {queue[k] : k \in 1..n}
  <2>1. ASSUME NEW s \in Droppable PROVE \E k \in 1..n : buf[s] = queue[k]
    <3>1. PICK k \in 0..(n - 1) : s = SlotOf(IndexAfter(tail, k))
      BY <1>2
    <3>2. k + 1 \in 1..n /\ (k + 1) - 1 = k
      BY <1>1
    <3> QED BY <1>1, <3>1, <3>2
  <2>2. ASSUME NEW k \in 1..n PROVE \E s \in Droppable : buf[s] = queue[k]
    <3>1. k - 1 \in 0..(n - 1)
      BY <1>1
    <3>2. SlotOf(IndexAfter(tail, k - 1)) \in Droppable
      BY <1>2, <3>1
    <3> QED BY <1>1, <3>2
  <2> QED BY <2>1, <2>2
<1> QED BY <1>1, <1>3, <1>4 DEF n

(* Dropping the ring destroys the items nobody popped, each once, and      *)
(* looks at no slot that holds none.                                       *)
THEOREM DropsCorrect == Spec => DropsExactlyUnread
<1>1. ASSUME TypeOK, RingInv, [Next]_vars
      PROVE  [alive /\ ~ alive' =>
                /\ Cardinality(Droppable) = Len(queue)
                /\ {buf[s] : s \in Droppable} = {queue[k] : k \in DOMAIN queue}]_vars
  BY <1>1, DroppedSlots DEF RingInv
<1> QED BY <1>1, RingInvariant, PTL DEF Spec, DropsExactlyUnread

-----------------------------------------------------------------------------
(* The refinement.  What BoundedFifo sees of a queue of items.             *)
Seen(q) == [k \in DOMAIN q |-> [item |-> q[k], done |-> TRUE]]

SeenItem == [item : Items, done : BOOLEAN]

LEMMA SeenSeq ==
  ASSUME NEW q \in Seq(Items)
  PROVE  /\ Seen(q) \in Seq(SeenItem)
         /\ Len(Seen(q)) = Len(q)
         /\ \A k \in 1..Len(q) : Seen(q)[k] = [item |-> q[k], done |-> TRUE]
<1>1. Len(q) \in Nat /\ DOMAIN q = 1..Len(q) /\ \A k \in 1..Len(q) : q[k] \in Items
  OBVIOUS
<1>2. \A k \in 1..Len(q) : [item |-> q[k], done |-> TRUE] \in SeenItem
  BY <1>1 DEF SeenItem
<1>3. Seen(q) = [k \in 1..Len(q) |-> [item |-> q[k], done |-> TRUE]]
  BY <1>1 DEF Seen
<1> QED BY <1>1, <1>2, <1>3

LEMMA SeenAppend ==
  ASSUME NEW q \in Seq(Items), NEW i \in Items
  PROVE  Seen(Append(q, i)) = Append(Seen(q), [item |-> i, done |-> TRUE])
<1> DEFINE r == [item |-> i, done |-> TRUE]
           l == Seen(Append(q, i))
           a == Append(Seen(q), r)
<1>1. Append(q, i) \in Seq(Items) /\ Len(Append(q, i)) = Len(q) + 1 /\ Len(q) \in Nat
  OBVIOUS
<1>2. \A k \in 1..(Len(q) + 1) : Append(q, i)[k] = IF k = Len(q) + 1 THEN i ELSE q[k]
  OBVIOUS
<1>3. r \in SeenItem /\ Seen(q) \in Seq(SeenItem) /\ Len(Seen(q)) = Len(q)
  BY SeenSeq DEF SeenItem
<1>4. /\ l \in Seq(SeenItem) /\ Len(l) = Len(q) + 1
      /\ \A k \in 1..(Len(q) + 1) : l[k] = [item |-> Append(q, i)[k], done |-> TRUE]
  BY <1>1, SeenSeq
<1> HIDE DEF r
<1>5. /\ a \in Seq(SeenItem) /\ Len(a) = Len(q) + 1
      /\ \A k \in 1..(Len(q) + 1) : a[k] = IF k = Len(q) + 1 THEN r ELSE Seen(q)[k]
  BY <1>1, <1>3
<1>6. ASSUME NEW k \in 1..(Len(q) + 1) PROVE l[k] = a[k]
  <2>1. CASE k = Len(q) + 1
    BY <1>2, <1>4, <1>5, <2>1 DEF r
  <2>2. CASE k \in 1..Len(q)
    BY <1>1, <1>2, <1>4, <1>5, <2>2, SeenSeq
  <2>3. k = Len(q) + 1 \/ k \in 1..Len(q)
    BY <1>1
  <2> QED BY ONLY <2>1, <2>2, <2>3
<1> HIDE DEF l, a
<1>7. l = a
  BY <1>1, <1>4, <1>5, <1>6, SeqEqual
<1> QED BY <1>7 DEF l, a, r

LEMMA SeenPop ==
  ASSUME NEW q \in Seq(Items), q # <<>>
  PROVE  /\ Seen(q) # <<>>
         /\ Head(Seen(q)) = [item |-> Head(q), done |-> TRUE]
         /\ Seen(Tail(q)) = Tail(Seen(q))
<1> DEFINE l == Seen(Tail(q))
           s == Seen(q)
           a == Tail(s)
<1>1. /\ Len(q) \in Nat /\ Len(q) >= 1 /\ Head(q) = q[1]
      /\ Tail(q) \in Seq(Items) /\ Len(Tail(q)) = Len(q) - 1
      /\ \A k \in 1..(Len(q) - 1) : Tail(q)[k] = q[k + 1]
  OBVIOUS
<1>2. /\ s \in Seq(SeenItem) /\ Len(s) = Len(q)
      /\ \A k \in 1..Len(q) : s[k] = [item |-> q[k], done |-> TRUE]
  BY SeenSeq
<1>3. /\ l \in Seq(SeenItem) /\ Len(l) = Len(q) - 1
      /\ \A k \in 1..(Len(q) - 1) : l[k] = [item |-> Tail(q)[k], done |-> TRUE]
  BY <1>1, SeenSeq
<1> HIDE DEF s, l
<1>4. s # <<>> /\ Head(s) = s[1]
  BY <1>1, <1>2
<1>5. /\ a \in Seq(SeenItem) /\ Len(a) = Len(q) - 1
      /\ \A k \in 1..(Len(q) - 1) : a[k] = s[k + 1]
  BY <1>1, <1>2, <1>4
<1> HIDE DEF a
<1>6. ASSUME NEW k \in 1..(Len(q) - 1) PROVE l[k] = a[k]
  <2>1. k + 1 \in 1..Len(q)
    BY <1>1
  <2>2. l[k] = [item |-> Tail(q)[k], done |-> TRUE] /\ a[k] = s[k + 1]
    BY <1>3, <1>5
  <2>3. s[k + 1] = [item |-> q[k + 1], done |-> TRUE]
    BY <1>2, <2>1
  <2>4. Tail(q)[k] = q[k + 1]
    BY <1>1
  <2> QED BY ONLY <2>2, <2>3, <2>4
<1>7. l = a
  BY <1>1, <1>3, <1>5, <1>6, SeqEqual
<1>8. Head(s) = [item |-> Head(q), done |-> TRUE]
  <2>1. 1 \in 1..Len(q)
    BY <1>1
  <2>2. s[1] = [item |-> q[1], done |-> TRUE]
    BY <1>2, <2>1
  <2>3. Head(s) = s[1] /\ Head(q) = q[1]
    BY <1>1, <1>4
  <2> QED BY ONLY <2>2, <2>3
<1> QED BY <1>4, <1>7, <1>8 DEF l, a, s

(* Every step of the ring is a step of the bounded FIFO or changes nothing *)
(* it knows of: an item is accepted when head is stored, delivered when    *)
(* tail is, and None is the answer of an empty FIFO.                       *)
THEOREM ImplementsBoundedFifo == Spec => ImplementsFifo
<1> USE DEF Fifo!vars
<1>1. Init => Fifo!Init
  BY DEF Init, Fifo!Init
<1>2. ASSUME TypeOK, RingInv, [Next]_vars
      PROVE  [Fifo!Next]_(Fifo!vars)
  <2>0. queue \in Seq(Items)
    BY <1>2 DEF TypeOK
  <2>1. CASE PushStoreHead
    <3>1. pushes \in Items /\ Len(queue) < Capacity
      BY <1>2, <2>1 DEF PushStoreHead, RingInv, ProducerInv
    <3>2. Seen(queue') = Append(Seen(queue), [item |-> pushes, done |-> TRUE])
      BY <2>0, <2>1, <3>1, SeenAppend DEF PushStoreHead
    <3>3. Len(Seen(queue)) = Len(queue)
      BY <2>0 DEF Seen
    <3>4. result' = result
      BY <2>1 DEF PushStoreHead, consumer
    <3>5. Fifo!Accept(pushes, TRUE)
      BY <3>1, <3>2, <3>3, <3>4 DEF Fifo!Accept, Seen
    <3> QED BY <3>1, <3>5 DEF Fifo!Next
  <2>2. CASE PopStoreTail
    <3>1. queue # <<>> /\ got = Head(queue)
      BY <1>2, <2>2 DEF PopStoreTail, RingInv, ConsumerInv
    <3>2. /\ Seen(queue) # <<>> /\ Seen(queue') = Tail(Seen(queue))
          /\ Head(Seen(queue)) = [item |-> Head(queue), done |-> TRUE]
      BY <2>0, <2>2, <3>1, SeenPop DEF PopStoreTail
    <3>3. Head(Seen(queue)).done /\ result' = Head(Seen(queue)).item
      BY <2>2, <3>1, <3>2 DEF PopStoreTail
    <3>4. Fifo!PopSome
      BY <3>2, <3>3, Zenon DEF Fifo!PopSome, Seen
    <3> QED BY <3>4 DEF Fifo!Next
  <2>3. CASE PopLoadHead /\ tail = head
    <3>1. queue = <<>>
      BY <1>2, <2>0, <2>3, DistanceFacts DEF TypeOK, RingInv, HeldInv
    <3>2. Fifo!PopNone
      BY <2>3, <3>1 DEF PopLoadHead, Fifo!PopNone
    <3> QED BY <3>2 DEF Fifo!Next
  <2>4. CASE DropRing
    <3>1. Fifo!Discard
      BY <2>4 DEF DropRing, consumer, Fifo!Discard
    <3> QED BY <3>1 DEF Fifo!Next
  <2>5. CASE UNCHANGED <<queue, result>>
    BY <2>5
  <2>6. PushLoadTail \/ PushWrite \/ PopRead \/ (PopLoadHead /\ tail # head)
          \/ UNCHANGED vars => UNCHANGED <<queue, result>>
    BY DEF PushLoadTail, PushWrite, PopRead, PopLoadHead, vars, consumer
  <2> QED BY <1>2, <2>1, <2>2, <2>3, <2>4, <2>5, <2>6 DEF Next, Push, Pop
<1> QED BY <1>1, <1>2, RingInvariant, PTL DEF Spec, Fifo!Spec, ImplementsFifo
=============================================================================
