--------------------------- MODULE MpscRingProofs ---------------------------
(***************************************************************************)
(* Theorems about MpscRing for any set of producers, any capacity, any     *)
(* index width and any number of pushes.                                   *)
(***************************************************************************)
EXTENDS MpscRing, RingIndexTheorems, SequenceTheorems

LEMMA MaxStaleBound == MaxStale \in Nat /\ MaxStale < IndexMod - Capacity
BY IndexModBound DEF MaxStale

LEMMA SlotOfType == \A i \in Index : SlotOf(i) \in SlotId
BY SlotInRange

-----------------------------------------------------------------------------
(* Every step keeps the types.  That the queue is not empty when the       *)
(* consumer advances comes from the ring invariant.                        *)
LEMMA TypeStep ==
  ASSUME TypeOK, RingInv, [Next]_vars
  PROVE  TypeOK'
<1> USE DEF TypeOK
<1>1. ASSUME NEW p \in Producers, LoadHead(p) PROVE TypeOK'
  BY <1>1, MaxStaleBound, MaxPushesAssumption DEF LoadHead, ring, consumer
<1>2. ASSUME NEW p \in Producers, LoadTail(p) PROVE TypeOK'
  BY <1>2 DEF LoadTail, ring, consumer
<1>3. ASSUME NEW p \in Producers, Reserve(p) PROVE TypeOK'
  <2>1. head' \in Index
    BY <1>3, NextIndexIsNext DEF Reserve
  <2>2. queue' \in Seq(Items)
    <3>1. pushes[p] \in 1..MaxPushes
      BY <1>3, MaxPushesAssumption DEF Reserve
    <3>2. ItemOf(p) \in Items
      BY <3>1 DEF ItemOf, Items
    <3> QED BY <1>3, <3>2 DEF Reserve
  <2>3. stale' \in [Producers -> 0..MaxStale]
    BY <1>3, MaxStaleBound DEF Reserve
  <2> QED BY <1>3, <2>1, <2>2, <2>3 DEF Reserve, consumer
<1>4. ASSUME NEW p \in Producers, LoseRace(p) PROVE TypeOK'
  BY <1>4, MaxStaleBound DEF LoseRace, ring, consumer
<1>5. ASSUME NEW p \in Producers, WriteSlot(p) PROVE TypeOK'
  <2>1. pushes[p] \in 1..MaxPushes
    BY <1>5, MaxPushesAssumption DEF WriteSlot
  <2>2. ItemOf(p) \in Items
    BY <2>1 DEF ItemOf, Items
  <2> QED BY <1>5, <2>2, SlotOfType DEF WriteSlot, consumer
<1>6. ASSUME NEW p \in Producers, Publish(p) PROVE TypeOK'
  BY <1>6, SlotOfType DEF Publish, consumer
<1>7. CASE PopLoadHead
  BY <1>7 DEF PopLoadHead, ring, producer
<1>8. CASE CheckReady
  BY <1>8 DEF CheckReady, ring, producer
<1>9. CASE ReadSlot
  BY <1>9, SlotOfType DEF ReadSlot, ring, producer
<1>10. CASE ClearReady
  BY <1>10, SlotOfType DEF ClearReady, producer
<1>11. CASE AdvanceTail
  <2>1. queue # <<>>
    BY <1>11, DistanceFacts DEF AdvanceTail, RingInv, ConsumerInv, CountersMatch,
                                DroppedInv, Quiescent
  <2>2. queue' \in Seq(Items)
    BY <1>11, <2>1 DEF AdvanceTail
  <2> QED BY <1>11, <2>2, NextIndexIsNext DEF AdvanceTail, producer
<1>12. CASE DropRing
  <2>1. ready' \in [SlotId -> BOOLEAN]
    BY <1>12, Zenon DEF DropRing
  <2>2. alive' \in BOOLEAN
    BY <1>12, Zenon DEF DropRing
  <2>3. queue' \in Seq(Items)
    BY <1>12 DEF DropRing
  <2> QED BY <1>12, <2>1, <2>2, <2>3 DEF DropRing, producer, consumer
<1>13. CASE UNCHANGED vars
  BY <1>13 DEF vars, ring, producer, consumer
<1> QED
  BY <1>1, <1>2, <1>3, <1>4, <1>5, <1>6, <1>7, <1>8, <1>9, <1>10, <1>11, <1>12, <1>13
  DEF Next, Push, Pop

-----------------------------------------------------------------------------
(* Facts about the ring in one state. *)

(* Two indices in the window from tail that share a slot are equal.        *)
LEMMA WindowInjective ==
  ASSUME TypeOK, CountersMatch,
         NEW i \in Index, NEW j \in Index,
         Reserved(i) \/ Free(i), Reserved(j) \/ Free(j), SlotOf(i) = SlotOf(j)
  PROVE  i = j
<1>1. Distance(i, tail) < Capacity /\ Distance(j, tail) < Capacity
  BY DistanceFacts, IndexModBound DEF TypeOK, CountersMatch, Reserved, Free
<1> QED BY <1>1, WindowSlots DEF TypeOK

LEMMA OwnersApart ==
  ASSUME TypeOK, CountersMatch, OwnersInv,
         NEW p \in Producers, NEW q \in Producers, Owning(p), Owning(q), p # q
  PROVE  SlotOf(myHead[p]) # SlotOf(myHead[q])
BY WindowInjective DEF OwnersInv, TypeOK

(* A step that leaves the ring, the owned slots and the pending operations *)
(* of producers as they are.                                               *)
LEMMA LoadHeadKeeps ==
  ASSUME TypeOK, RingInv, NEW p \in Producers, LoadHead(p)
  PROVE  RingInv'
<1> USE DEF TypeOK, RingInv, LoadHead, ring, consumer
<1>1. CountersMatch'
  BY DEF CountersMatch
<1>2. OwnersInv'
  BY DEF OwnersInv, Owning, Reserved, Place, ItemOf
<1>3. PushersInv'
  <2> SUFFICES ASSUME NEW q \in Producers, Pushing(q)'
               PROVE  /\ Distance(head', myHead'[q]) = stale'[q]
                      /\ phase'[q] = "cas" /\ stale'[q] = 0
                           => Distance(head', tail') < Capacity
    BY DEF PushersInv
  <2>1. CASE q = p
    <3>1. Distance(head, head) = 0
      BY DistanceFacts
    <3>2. myHead'[q] = head /\ stale'[q] = 0 /\ head' = head /\ phase'[q] = "loadTail"
      BY <2>1
    <3> QED BY <3>1, <3>2
  <2>2. CASE q # p
    <3>1. /\ phase'[q] = phase[q] /\ myHead'[q] = myHead[q] /\ stale'[q] = stale[q]
          /\ head' = head /\ tail' = tail
      BY <2>2
    <3> QED BY <3>1 DEF PushersInv, Pushing
  <2> QED BY <2>1, <2>2
<1>4. SlotsInv'
  BY DEF SlotsInv, Reserved, Free, Place, Owning
<1>5. ConsumerInv'
  BY DEF ConsumerInv, Owning
<1>6. DroppedInv'
  BY DEF DroppedInv
<1> QED BY <1>1, <1>2, <1>3, <1>4, <1>5, <1>6

LEMMA LoadTailKeeps ==
  ASSUME TypeOK, RingInv, NEW p \in Producers, LoadTail(p)
  PROVE  RingInv'
<1> USE DEF TypeOK, RingInv, LoadTail, ring, consumer
<1>1. CountersMatch'
  BY DEF CountersMatch
<1>2. OwnersInv'
  BY DEF OwnersInv, Owning, Reserved, Place, ItemOf
<1>3. PushersInv'
  <2> SUFFICES ASSUME NEW q \in Producers, Pushing(q)'
               PROVE  /\ Distance(head, myHead[q]) = stale[q]
                      /\ phase'[q] = "cas" /\ stale[q] = 0 => Distance(head, tail) < Capacity
    BY DEF PushersInv
  <2>1. CASE q # p
    BY <2>1 DEF PushersInv, Pushing
  <2>2. CASE q = p
    <3>1. Distance(head, myHead[p]) = stale[p]
      BY DEF PushersInv, Pushing
    <3>2. ~ Full(myHead[p], tail)
      BY <2>2 DEF Pushing
    <3>3. stale[p] = 0 => Distance(head, tail) # Capacity
      BY <3>1, <3>2, DistanceFacts DEF Full
    <3> QED BY <2>2, <3>1, <3>3, DistanceFacts, IndexModBound DEF CountersMatch
  <2> QED BY <2>1, <2>2
<1>4. SlotsInv'
  BY DEF SlotsInv, Reserved, Free, Place, Owning
<1>5. ConsumerInv'
  BY DEF ConsumerInv, Owning
<1>6. DroppedInv'
  BY DEF DroppedInv, Quiescent
<1> QED BY <1>1, <1>2, <1>3, <1>4, <1>5, <1>6

LEMMA LoseRaceKeeps ==
  ASSUME TypeOK, RingInv, NEW p \in Producers, LoseRace(p)
  PROVE  RingInv'
<1> USE DEF TypeOK, RingInv, LoseRace, ring, consumer
<1>1. CountersMatch'
  BY DEF CountersMatch
<1>2. OwnersInv'
  BY DEF OwnersInv, Owning, Reserved, Place, ItemOf
<1>3. PushersInv'
  BY DistanceFacts DEF PushersInv, Pushing
<1>4. SlotsInv'
  BY DEF SlotsInv, Reserved, Free, Place, Owning
<1>5. ConsumerInv'
  BY DEF ConsumerInv, Owning
<1>6. DroppedInv'
  BY DEF DroppedInv, Quiescent
<1> QED BY <1>1, <1>2, <1>3, <1>4, <1>5, <1>6

LEMMA ReserveKeeps ==
  ASSUME TypeOK, RingInv, NEW p \in Producers, Reserve(p)
  PROVE  RingInv'
<1> USE DEF TypeOK, RingInv, Reserve, consumer
<1> DEFINE d == Distance(head, tail)
<1>1. alive
  BY DEF DroppedInv, Quiescent
<1>2. d \in 0..(Capacity - 1) /\ Len(queue) = d
  <2>1. stale[p] = 0
    BY DistanceFacts DEF PushersInv, Pushing
  <2> QED BY <1>1, <2>1, DistanceFacts, IndexModBound DEF PushersInv, Pushing, CountersMatch
<1>3. Distance(head', tail) = d + 1 /\ head' # tail
  <2>1. d < IndexMod - 1
    BY <1>2, IndexModBound
  <2>2. Distance(head', tail) = d + 1
    BY <2>1, DistanceFacts
  <2>3. d + 1 # 0
    BY <1>2, IndexModBound
  <2> QED BY <2>2, <2>3, DistanceFacts, NextIndexIsNext
<1>4. \A i \in Index : Reserved(i)' <=> Reserved(i) \/ i = head
  <2> SUFFICES ASSUME NEW i \in Index PROVE Reserved(i)' <=> Reserved(i) \/ i = head
    OBVIOUS
  <2>1. Distance(i, tail) = d => i = head
    BY DistanceFacts
  <2> QED BY <1>2, <1>3, <2>1, DistanceFacts DEF Reserved
<1>5. \A i \in Index : Free(i)' => Free(i)
  BY <1>2, <1>3, DistanceFacts DEF Free
<1>6. Free(head)
  BY <1>2, IndexModBound DEF Free
<1>7. \A i \in Index : Reserved(i) =>
        Place(i)' = Place(i) /\ Place(i) \in 1..Len(queue) /\ queue'[Place(i)] = queue[Place(i)]
  BY <1>2, DistanceFacts DEF Reserved, Place
<1>8. Place(head) = Len(queue) + 1 /\ queue'[Place(head)] = ItemOf(p) /\ ~ Reserved(head)
  BY <1>2 DEF Place, Reserved
<1> HIDE DEF d
<1>9. CountersMatch'
  BY <1>2, <1>3, IndexModBound DEF CountersMatch
<1>10. OwnersInv'
  <2> SUFFICES ASSUME NEW q \in Producers, Owning(q)'
               PROVE  /\ Reserved(myHead[q])'
                      /\ queue'[Place(myHead[q])'] = ItemOf(q)
                      /\ ~ ready[SlotOf(myHead[q])]
                      /\ phase'[q] = "publish" => value[SlotOf(myHead[q])] = ItemOf(q)
                      /\ \A r \in Producers : Owning(r)' /\ myHead[r] = myHead[q] => r = q
    BY DEF OwnersInv, ItemOf
  <2>1. CASE q = p
    <3>1. ~ ready[SlotOf(head)]
      BY <1>1, <1>6 DEF SlotsInv
    <3> QED BY <1>4, <1>8, <2>1, <3>1 DEF OwnersInv, Owning, Place
  <2>2. CASE q # p
    <3>1. Owning(q)
      BY <2>2 DEF Owning
    <3> QED BY <1>4, <1>7, <1>8, <2>2, <3>1 DEF OwnersInv, Owning
  <2> QED BY <2>1, <2>2
<1>11. PushersInv'
  <2> SUFFICES ASSUME NEW q \in Producers, Pushing(q)'
               PROVE  Distance(head', myHead[q]) = stale'[q] /\ stale'[q] # 0
    BY DEF PushersInv
  <2>1. q # p /\ Pushing(q)
    BY DEF Pushing
  <2>2. Distance(head, myHead[q]) = stale[q] /\ stale[q] < MaxStale
    BY <2>1 DEF PushersInv
  <2> QED BY <2>1, <2>2, DistanceFacts, MaxStaleBound, IndexModBound DEF Pushing
<1>12. SlotsInv'
  <2> SUFFICES ASSUME NEW i \in Index
               PROVE  /\ Reserved(i)' =>
                           \/ ready[SlotOf(i)] /\ value[SlotOf(i)] = queue'[Place(i)']
                           \/ \E q \in Producers : Owning(q)' /\ myHead[q] = i
                           \/ i = tail /\ cphase = "advance"
                      /\ Free(i)' => ~ ready[SlotOf(i)]
    BY DEF SlotsInv
  <2>1. \A q \in Producers : Owning(q) \/ q = p => Owning(q)'
    BY DEF Owning
  <2> QED BY <1>1, <1>4, <1>5, <1>7, <2>1 DEF SlotsInv
<1>13. ConsumerInv'
  <2>1. cphase # "idle" => queue # <<>> /\ Head(queue') = Head(queue)
    BY <1>2, DistanceFacts DEF ConsumerInv, d
  <2>2. cphase = "advance" => \A q \in Producers : Owning(q)' => myHead[q] # tail
    BY DEF ConsumerInv, Owning
  <2> QED BY <1>3, <2>1, <2>2 DEF ConsumerInv
<1>14. DroppedInv'
  BY <1>1 DEF DroppedInv
<1> QED BY <1>9, <1>10, <1>11, <1>12, <1>13, <1>14

LEMMA WriteSlotKeeps ==
  ASSUME TypeOK, RingInv, NEW p \in Producers, WriteSlot(p)
  PROVE  RingInv'
<1> USE DEF TypeOK, RingInv, WriteSlot, consumer
<1>1. Owning(p) /\ ~ ready[SlotOf(myHead[p])] /\ SlotOf(myHead[p]) \in SlotId
  BY SlotOfType DEF Owning, OwnersInv
<1>2. \A s \in SlotId : ready[s] => value'[s] = value[s]
  BY <1>1
<1>3. CountersMatch'
  BY DEF CountersMatch
<1>4. OwnersInv'
  <2> SUFFICES ASSUME NEW q \in Producers, Owning(q)'
               PROVE  /\ Reserved(myHead[q])
                      /\ queue[Place(myHead[q])] = ItemOf(q)
                      /\ ~ ready[SlotOf(myHead[q])]
                      /\ phase'[q] = "publish" => value'[SlotOf(myHead[q])] = ItemOf(q)
                      /\ \A r \in Producers : Owning(r)' /\ myHead[r] = myHead[q] => r = q
    BY DEF OwnersInv, Reserved, Place, ItemOf
  <2>1. \A r \in Producers : Owning(r)' <=> Owning(r)
    BY DEF Owning
  <2>2. q # p => SlotOf(myHead[q]) # SlotOf(myHead[p])
    BY <1>1, <2>1, OwnersApart
  <2>3. phase'[q] = "publish" => value'[SlotOf(myHead[q])] = ItemOf(q)
    BY <1>1, <2>1, <2>2, SlotOfType DEF OwnersInv
  <2> QED BY <2>1, <2>3 DEF OwnersInv
<1>5. PushersInv'
  BY DEF PushersInv, Pushing
<1>6. SlotsInv'
  BY <1>2, SlotOfType DEF SlotsInv, Reserved, Free, Place, Owning
<1>7. ConsumerInv'
  BY <1>2, SlotOfType DEF ConsumerInv, Owning
<1>8. DroppedInv'
  BY DEF DroppedInv, Quiescent
<1> QED BY <1>3, <1>4, <1>5, <1>6, <1>7, <1>8

LEMMA PublishKeeps ==
  ASSUME TypeOK, RingInv, NEW p \in Producers, Publish(p)
  PROVE  RingInv'
<1> USE DEF TypeOK, RingInv, Publish, consumer
<1>1. /\ Owning(p) /\ Reserved(myHead[p]) /\ ~ ready[SlotOf(myHead[p])]
      /\ SlotOf(myHead[p]) \in SlotId
      /\ value[SlotOf(myHead[p])] = queue[Place(myHead[p])]
  BY SlotOfType DEF Owning, OwnersInv
<1>2. \A s \in SlotId : ready'[s] <=> ready[s] \/ s = SlotOf(myHead[p])
  BY <1>1
<1>3. \A i \in Index : /\ Reserved(i)' <=> Reserved(i)
                       /\ Free(i)' <=> Free(i)
                       /\ Place(i)' = Place(i)
  BY DEF Reserved, Free, Place
<1>4. \A i \in Index : Reserved(i) \/ Free(i) =>
        (SlotOf(i) = SlotOf(myHead[p]) <=> i = myHead[p])
  BY <1>1, WindowInjective
<1>5. \A q \in Producers : Owning(q)' <=> Owning(q) /\ q # p
  BY DEF Owning
<1>6. CountersMatch'
  BY DEF CountersMatch
<1>7. OwnersInv'
  <2> SUFFICES ASSUME NEW q \in Producers, Owning(q)'
               PROVE  ~ ready'[SlotOf(myHead[q])]
    BY <1>3, <1>5 DEF OwnersInv, ItemOf
  <2>1. q # p /\ Owning(q)
    BY <1>5
  <2> QED BY <1>1, <1>2, <2>1, OwnersApart, SlotOfType DEF OwnersInv
<1>8. PushersInv'
  BY DEF PushersInv, Pushing
<1>9. SlotsInv'
  <2> SUFFICES ASSUME alive, NEW i \in Index
               PROVE  /\ Reserved(i) =>
                           \/ ready'[SlotOf(i)] /\ value[SlotOf(i)] = queue[Place(i)]
                           \/ \E q \in Producers : Owning(q)' /\ myHead[q] = i
                           \/ i = tail /\ cphase = "advance"
                      /\ Free(i) => ~ ready'[SlotOf(i)]
    BY <1>3 DEF SlotsInv
  <2>1. CASE i = myHead[p]
    <3>1. ~ Free(i)
      BY <1>1, <2>1, DistanceFacts DEF Reserved, Free
    <3>2. ready'[SlotOf(i)] /\ value[SlotOf(i)] = queue[Place(i)]
      BY <1>1, <1>2, <2>1
    <3> QED BY <3>1, <3>2
  <2>2. CASE i # myHead[p]
    BY <1>2, <1>4, <1>5, <2>2, SlotOfType DEF SlotsInv
  <2> QED BY <2>1, <2>2
<1>10. ConsumerInv'
  <2>1. cphase = "advance" => SlotOf(tail) # SlotOf(myHead[p])
    <3>1. head # tail => Reserved(tail)
      BY DistanceFacts DEF Reserved
    <3> QED BY <1>1, <1>4, <3>1 DEF ConsumerInv
  <2> QED BY <1>2, <1>5, <2>1, SlotOfType DEF ConsumerInv
<1>11. DroppedInv'
  BY DEF DroppedInv, Quiescent
<1> QED BY <1>6, <1>7, <1>8, <1>9, <1>10, <1>11

LEMMA CheckReadyKeeps ==
  ASSUME TypeOK, RingInv, CheckReady
  PROVE  RingInv'
<1> USE DEF TypeOK, RingInv, CheckReady, ring, producer
<1>1. CountersMatch'
  BY DEF CountersMatch
<1>2. OwnersInv'
  BY DEF OwnersInv, Owning, Reserved, Place, ItemOf
<1>3. PushersInv'
  BY DEF PushersInv, Pushing
<1>4. SlotsInv'
  BY DEF SlotsInv, Reserved, Free, Place, Owning
<1>5. ConsumerInv'
  <2>1. CASE ready[SlotOf(tail)]
    <3>1. alive /\ Reserved(tail) /\ Place(tail) = 1
      BY DistanceFacts DEF DroppedInv, Quiescent, ConsumerInv, Reserved, Place
    <3>2. \A p \in Producers : Owning(p) => myHead[p] # tail
      BY <2>1 DEF OwnersInv
    <3>3. value[SlotOf(tail)] = queue[1]
      BY <3>1, <3>2 DEF SlotsInv
    <3>4. queue # <<>>
      BY <3>1, DistanceFacts DEF CountersMatch, ConsumerInv
    <3> QED BY <2>1, <3>3, <3>4 DEF ConsumerInv
  <2>2. CASE ~ ready[SlotOf(tail)]
    BY <2>2 DEF ConsumerInv
  <2> QED BY <2>1, <2>2
<1>6. DroppedInv'
  BY DEF DroppedInv, Quiescent
<1> QED BY <1>1, <1>2, <1>3, <1>4, <1>5, <1>6

(* The steps of pop that change no more than the consumer's own state.     *)
LEMMA PopLoadHeadKeeps ==
  ASSUME TypeOK, RingInv, PopLoadHead
  PROVE  RingInv'
<1> USE DEF TypeOK, RingInv, PopLoadHead, ring, producer
<1>1. CountersMatch'
  BY DEF CountersMatch
<1>2. OwnersInv'
  BY DEF OwnersInv, Owning, Reserved, Place, ItemOf
<1>3. PushersInv'
  BY DEF PushersInv, Pushing
<1>4. SlotsInv'
  BY DEF SlotsInv, Reserved, Free, Place, Owning
<1>5. ConsumerInv' /\ DroppedInv'
  BY DEF ConsumerInv, DroppedInv, Owning
<1> QED BY <1>1, <1>2, <1>3, <1>4, <1>5

LEMMA ReadSlotKeeps ==
  ASSUME TypeOK, RingInv, ReadSlot
  PROVE  RingInv'
<1> USE DEF TypeOK, RingInv, ReadSlot, ring, producer
<1>1. CountersMatch'
  BY DEF CountersMatch
<1>2. OwnersInv'
  BY DEF OwnersInv, Owning, Reserved, Place, ItemOf
<1>3. PushersInv'
  BY DEF PushersInv, Pushing
<1>4. SlotsInv'
  BY DEF SlotsInv, Reserved, Free, Place, Owning
<1>5. ConsumerInv' /\ DroppedInv'
  BY DEF ConsumerInv, DroppedInv, Quiescent, Owning
<1> QED BY <1>1, <1>2, <1>3, <1>4, <1>5

LEMMA ClearReadyKeeps ==
  ASSUME TypeOK, RingInv, ClearReady
  PROVE  RingInv'
<1> USE DEF TypeOK, RingInv, ClearReady, producer
<1>1. SlotOf(tail) \in SlotId /\ Reserved(tail) /\ ready[SlotOf(tail)]
  BY SlotOfType, DistanceFacts DEF ConsumerInv, Reserved
<1>2. \A s \in SlotId : ready'[s] <=> ready[s] /\ s # SlotOf(tail)
  BY <1>1
<1>3. \A i \in Index : /\ Reserved(i)' <=> Reserved(i)
                       /\ Free(i)' <=> Free(i)
                       /\ Place(i)' = Place(i)
  BY DEF Reserved, Free, Place
<1>4. \A i \in Index : Reserved(i) => (SlotOf(i) = SlotOf(tail) <=> i = tail)
  BY <1>1, WindowInjective
<1>5. CountersMatch'
  BY DEF CountersMatch
<1>6. OwnersInv'
  BY <1>2, <1>3, SlotOfType DEF OwnersInv, Owning, ItemOf
<1>7. PushersInv'
  BY DEF PushersInv, Pushing
<1>8. SlotsInv'
  BY <1>2, <1>3, <1>4, SlotOfType DEF SlotsInv, Owning
<1>9. ConsumerInv'
  BY <1>1, <1>2 DEF ConsumerInv, OwnersInv, Owning
<1>10. DroppedInv'
  BY DEF DroppedInv, Quiescent
<1> QED BY <1>5, <1>6, <1>7, <1>8, <1>9, <1>10

LEMMA AdvanceTailKeeps ==
  ASSUME TypeOK, RingInv, AdvanceTail
  PROVE  RingInv'
<1> USE DEF TypeOK, RingInv, AdvanceTail, producer
<1>1. alive /\ Distance(head, tail) \in 1..Capacity /\ Len(queue) = Distance(head, tail)
  BY DistanceFacts, IndexModBound DEF DroppedInv, Quiescent, ConsumerInv, CountersMatch
<1>2. /\ tail' \in Index
      /\ Distance(tail, tail') = IndexMod - 1
      /\ \A i \in Index : i # tail => Distance(i, tail') = Distance(i, tail) - 1
  BY DistanceFacts, NextIndexIsNext
<1>3. Distance(head, tail') = Distance(head, tail) - 1
  BY <1>2 DEF ConsumerInv
<1>4. /\ Len(queue') = Len(queue) - 1
      /\ \A k \in 1..(Len(queue) - 1) : queue'[k] = queue[k + 1]
  BY <1>1, IndexModBound
<1>5. \A i \in Index : Reserved(i)' => Reserved(i) /\ i # tail
  <2> SUFFICES ASSUME NEW i \in Index, Reserved(i)' PROVE Reserved(i) /\ i # tail
    OBVIOUS
  <2>1. i # tail
    BY <1>1, <1>2, <1>3, IndexModBound DEF Reserved
  <2> QED BY <1>1, <1>2, <1>3, <2>1, DistanceFacts, IndexModBound DEF Reserved
<1>6. \A i \in Index : Reserved(i) /\ i # tail =>
        Reserved(i)' /\ queue'[Place(i)'] = queue[Place(i)]
  <2> SUFFICES ASSUME NEW i \in Index, Reserved(i), i # tail
               PROVE  Reserved(i)' /\ queue'[Place(i)'] = queue[Place(i)]
    OBVIOUS
  <2>1. Distance(i, tail) \in 1..(Len(queue) - 1)
    BY <1>1, DistanceFacts, IndexModBound DEF Reserved
  <2>2. Distance(i, tail') = Distance(i, tail) - 1
    BY <1>2
  <2>3. queue'[Distance(i, tail)] = queue[Distance(i, tail) + 1]
    BY <1>4, <2>1
  <2> QED BY <1>1, <1>3, <2>1, <2>2, <2>3, IndexModBound DEF Reserved, Place
<1>7. \A i \in Index : Free(i)' => Free(i) \/ SlotOf(i) = SlotOf(tail)
  <2> SUFFICES ASSUME NEW i \in Index, Free(i)', i # tail
               PROVE  Free(i) \/ Distance(i, tail) = Capacity
    BY LapSameSlot
  <2> QED BY <1>1, <1>2, <1>3, DistanceFacts, IndexModBound DEF Free
<1>8. CountersMatch'
  BY <1>1, <1>3, <1>4, IndexModBound DEF CountersMatch
<1>9. OwnersInv'
  <2>1. \A p \in Producers : Owning(p) => myHead[p] # tail
    BY DEF ConsumerInv
  <2> QED BY <1>6, <2>1 DEF OwnersInv, Owning, ItemOf
<1>10. PushersInv'
  BY <1>1, <1>3, IndexModBound DEF PushersInv, Pushing
<1>11. SlotsInv'
  <2> SUFFICES ASSUME NEW i \in Index
               PROVE  /\ Reserved(i)' =>
                           \/ ready[SlotOf(i)] /\ value[SlotOf(i)] = queue'[Place(i)']
                           \/ \E p \in Producers : Owning(p)' /\ myHead[p] = i
                      /\ Free(i)' => ~ ready[SlotOf(i)]
    BY DEF SlotsInv
  <2> QED BY <1>1, <1>5, <1>6, <1>7 DEF SlotsInv, Owning, ConsumerInv
<1>12. ConsumerInv' /\ DroppedInv'
  BY <1>1 DEF ConsumerInv, DroppedInv
<1> QED BY <1>8, <1>9, <1>10, <1>11, <1>12

LEMMA DropRingKeeps ==
  ASSUME TypeOK, RingInv, DropRing
  PROVE  RingInv'
<1> USE DEF TypeOK, RingInv, DropRing, producer, consumer
<1>1. \A p \in Producers : ~ Owning(p)' /\ ~ Pushing(p)'
  BY DEF Quiescent, Owning, Pushing
<1>2. CountersMatch'
  BY DEF CountersMatch
<1>3. OwnersInv' /\ PushersInv' /\ SlotsInv'
  BY <1>1 DEF OwnersInv, PushersInv, SlotsInv
<1>4. ConsumerInv' /\ DroppedInv'
  BY DEF ConsumerInv, DroppedInv, Quiescent
<1> QED BY <1>2, <1>3, <1>4

-----------------------------------------------------------------------------
(* The ring invariant holds in every reachable state.                      *)
LEMMA RingStep ==
  ASSUME TypeOK, RingInv, [Next]_vars
  PROVE  RingInv'
<1>1. CASE \E p \in Producers : Push(p)
  BY <1>1, LoadHeadKeeps, LoadTailKeeps, ReserveKeeps, LoseRaceKeeps, WriteSlotKeeps,
     PublishKeeps DEF Push
<1>2. CASE Pop
  BY <1>2, PopLoadHeadKeeps, CheckReadyKeeps, ReadSlotKeeps, ClearReadyKeeps,
     AdvanceTailKeeps DEF Pop
<1>3. CASE DropRing
  BY <1>3, DropRingKeeps
<1>4. CASE UNCHANGED vars
  BY <1>4 DEF vars, ring, producer, consumer, RingInv, CountersMatch, OwnersInv,
              PushersInv, SlotsInv, ConsumerInv, DroppedInv, Quiescent, Reserved, Free,
              Place, Owning, Pushing, ItemOf
<1> QED BY <1>1, <1>2, <1>3, <1>4 DEF Next

LEMMA InitTypeOK == Init => TypeOK
BY IndexModBound, MaxStaleBound, MaxPushesAssumption
DEF Init, TypeOK, Index, SlotId, Items

LEMMA InitRingInv == Init => RingInv
<1> SUFFICES ASSUME Init PROVE RingInv
  OBVIOUS
<1> USE DEF Init
<1>1. 0 \in Index /\ Distance(0, 0) = 0
  BY IndexModBound DEF Index, Distance
<1>2. CountersMatch
  BY <1>1, IndexModBound DEF CountersMatch
<1>3. OwnersInv /\ PushersInv
  BY DEF OwnersInv, PushersInv, Owning, Pushing
<1>4. SlotsInv
  BY <1>1, DistanceFacts, SlotOfType DEF SlotsInv, Reserved, Free
<1>5. ConsumerInv /\ DroppedInv
  BY DEF ConsumerInv, DroppedInv
<1> QED BY <1>2, <1>3, <1>4, <1>5 DEF RingInv

(* Types and the relation of indices, slots, owners and queue, together:   *)
(* neither is inductive alone, since the queue is only known not to be     *)
(* empty when an item is taken because the counters say so.                *)
THEOREM RingInvariant == Spec => [](TypeOK /\ RingInv)
<1>1. Init => TypeOK /\ RingInv
  BY InitTypeOK, InitRingInv
<1>2. TypeOK /\ RingInv /\ [Next]_vars => (TypeOK /\ RingInv)'
  BY TypeStep, RingStep
<1> QED BY <1>1, <1>2, PTL DEF Spec

(* The state of the ring and the locals of push and pop keep their types.  *)
THEOREM TypeCorrect == Spec => []TypeOK
BY RingInvariant, PTL

(* The counters tell how many items are held, and never more than fit.     *)
THEOREM CountersCorrect == Spec => []CountersMatch
<1>1. RingInv => CountersMatch
  BY DEF RingInv
<1> QED BY <1>1, RingInvariant, PTL

(* The SAFETY claim of push: a reserved slot has one user.                 *)
THEOREM SlotsExclusive == Spec => []SlotExclusive
<1>1. TypeOK /\ RingInv => SlotExclusive
  <2> SUFFICES ASSUME TypeOK, RingInv PROVE SlotExclusive
    OBVIOUS
  <2>1. ASSUME NEW p \in Producers, NEW q \in Producers, p # q, Owning(p), Owning(q)
        PROVE  SlotOf(myHead[p]) # SlotOf(myHead[q])
    BY <2>1, OwnersApart DEF RingInv
  <2>2. ASSUME NEW p \in Producers, Owning(p), cphase \in {"read", "clear", "advance"}
        PROVE  SlotOf(myHead[p]) # SlotOf(tail)
    <3>1. CASE cphase \in {"read", "clear"}
      BY <2>2, <3>1 DEF RingInv, OwnersInv, ConsumerInv
    <3>2. CASE cphase = "advance"
      <4>1. Reserved(tail) /\ Reserved(myHead[p]) /\ myHead[p] # tail
        BY <2>2, <3>2, DistanceFacts DEF TypeOK, RingInv, OwnersInv, ConsumerInv, Reserved
      <4> QED BY <2>2, <4>1, WindowInjective DEF TypeOK, RingInv
    <3> QED BY <2>2, <3>1, <3>2
  <2> QED BY <2>1, <2>2 DEF SlotExclusive
<1> QED BY <1>1, RingInvariant, PTL

(* The SAFETY claim of pop: what is read is the oldest unread item.        *)
THEOREM ReadsCorrect == Spec => []ReadsOldestItem
<1>1. TypeOK /\ RingInv => ReadsOldestItem
  <2> SUFFICES ASSUME TypeOK, RingInv PROVE ReadsOldestItem
    OBVIOUS
  <2>1. cphase # "idle" => queue # <<>>
    BY DistanceFacts DEF TypeOK, RingInv, ConsumerInv, CountersMatch, DroppedInv, Quiescent
  <2> QED BY <2>1 DEF ReadsOldestItem, RingInv, ConsumerInv
<1> QED BY <1>1, RingInvariant, PTL

(* push refuses an item only when all slots are reserved, although its     *)
(* copy of head may be as much as MaxStale reservations old.               *)
THEOREM RefusalsCorrect == Spec => RefusedOnlyWhenFull
<1>1. TypeOK /\ RingInv /\ [Next]_vars =>
        [\A p \in Producers :
           phase[p] = "loadTail" /\ phase'[p] = "idle" => Len(queue) = Capacity]_vars
  <2> SUFFICES ASSUME TypeOK, RingInv, Next, NEW p \in Producers,
                      phase[p] = "loadTail", phase'[p] = "idle"
               PROVE  Len(queue) = Capacity
    OBVIOUS
  <2>1. LoadTail(p)
    <3>1. ASSUME NEW q \in Producers, Push(q) PROVE LoadTail(p)
      <4>1. phase'[p] # phase[p]
        OBVIOUS
      <4>2. p = q
        BY <3>1, <4>1 DEF TypeOK, Push, LoadHead, LoadTail, Reserve, LoseRace, WriteSlot, Publish
      <4>3. ~ LoadHead(p) /\ ~ Reserve(p) /\ ~ LoseRace(p)
        BY DEF LoadHead, Reserve, LoseRace
      <4>4. ~ WriteSlot(p) /\ ~ Publish(p)
        BY DEF WriteSlot, Publish
      <4>5. Push(p)
        BY <3>1, <4>2
      <4> QED BY <4>3, <4>4, <4>5 DEF Push
    <3>2. ASSUME Pop \/ DropRing PROVE FALSE
      <4>1. phase' = phase
        BY <3>2 DEF Pop, PopLoadHead, CheckReady, ReadSlot, ClearReady, AdvanceTail, DropRing,
                    producer
      <4> QED BY <4>1
    <3> QED BY <3>1, <3>2 DEF Next
  <2>2. Full(myHead[p], tail)
    BY <2>1 DEF LoadTail, TypeOK
  <2>3. alive /\ Distance(head, myHead[p]) = stale[p] /\ stale[p] \in 0..MaxStale
    BY DEF TypeOK, RingInv, DroppedInv, Quiescent, PushersInv, Pushing
  <2>4. Distance(head, tail) = Capacity
    <3>1. head \in Index /\ tail \in Index /\ myHead[p] \in Index
      BY DEF TypeOK
    <3>2. Distance(head, tail) \in 0..Capacity
      BY <3>1, DistanceFacts DEF RingInv, CountersMatch
    <3>3. Distance(myHead[p], tail) = Capacity
      BY <2>2 DEF Full
    <3> QED BY <2>3, <3>1, <3>2, <3>3, MaxStaleBound, IndexModBound DEF Distance, Index
  <2> QED BY <2>3, <2>4 DEF RingInv, CountersMatch
<1> QED BY <1>1, RingInvariant, PTL DEF RefusedOnlyWhenFull, Spec

(* Place k of the queue and the index that holds it.                       *)
LEMMA PlaceIndex ==
  ASSUME TypeOK, CountersMatch, alive, NEW k \in 1..Len(queue)
  PROVE  /\ IndexAfter(tail, k - 1) \in Index
         /\ Reserved(IndexAfter(tail, k - 1))
         /\ Place(IndexAfter(tail, k - 1)) = k
         /\ k = 1 => IndexAfter(tail, k - 1) = tail
<1>1. Len(queue) = Distance(head, tail) /\ Len(queue) <= Capacity
  BY DEF CountersMatch
<1>2. tail \in Index /\ k - 1 \in 0..(IndexMod - 1) /\ k - 1 < Len(queue)
  BY <1>1, IndexModBound DEF TypeOK
<1>3. /\ IndexAfter(tail, k - 1) \in Index
      /\ Distance(IndexAfter(tail, k - 1), tail) = k - 1
      /\ k = 1 => IndexAfter(tail, k - 1) = tail
  BY <1>2, IndexModBound DEF Index, IndexAfter, Distance
<1> QED BY <1>1, <1>2, <1>3 DEF Reserved, Place

(* With nobody inside, the slots whose flag is set are as many as the held *)
(* items, and hold just these.                                             *)
LEMMA DroppedSlots ==
  ASSUME TypeOK, RingInv, alive, Quiescent
  PROVE  /\ Cardinality(Droppable) = Len(queue)
         /\ {value[s] : s \in Droppable} = {queue[k] : k \in DOMAIN queue}
<1> DEFINE n == Len(queue)
           at(k) == SlotOf(IndexAfter(tail, k))
<1>1. /\ n \in 0..Capacity /\ n = Distance(head, tail) /\ DOMAIN queue = 1..n
      /\ tail \in Index
  BY IndexModBound DEF TypeOK, RingInv, CountersMatch
<1>2. \A i \in Index : Reserved(i) => ready[SlotOf(i)] /\ value[SlotOf(i)] = queue[Place(i)]
  <2>1. \A p \in Producers : ~ Owning(p)
    BY DEF Quiescent, Owning
  <2>2. cphase # "advance"
    BY DEF Quiescent
  <2> QED BY <2>1, <2>2 DEF RingInv, SlotsInv
<1>3. \A k \in 1..n : /\ at(k - 1) \in SlotId
                     /\ ready[at(k - 1)]
                     /\ value[at(k - 1)] = queue[k]
  BY <1>2, PlaceIndex, SlotInRange DEF RingInv
<1>4. \A s \in SlotId : ready[s] => \E k \in 0..(n - 1) : s = at(k)
  <2> SUFFICES ASSUME NEW s \in SlotId, ready[s], \A k \in 0..(n - 1) : s # at(k) PROVE FALSE
    OBVIOUS
  <2>1. PICK d \in 0..(Capacity - 1) : s = at(d)
    BY <1>1, SlotReached
  <2>2. d >= n
    BY <1>1, <2>1
  <2>3. /\ IndexAfter(tail, d) \in Index
        /\ Distance(IndexAfter(tail, d), tail) = d
    BY <1>1, IndexModBound DEF IndexAfter, Distance, Index
  <2>4. Free(IndexAfter(tail, d))
    BY <1>1, <2>2, <2>3, IndexModBound DEF Free
  <2> QED BY <2>1, <2>3, <2>4 DEF RingInv, SlotsInv
<1> HIDE DEF n
<1>5. \A k \in 0..(n - 1) : at(k) \in Droppable
  <2> SUFFICES ASSUME NEW k \in 0..(n - 1) PROVE at(k) \in Droppable
    OBVIOUS
  <2>1. k + 1 \in 1..n /\ (k + 1) - 1 = k
    BY <1>1
  <2>2. at(k) \in SlotId /\ ready[at(k)]
    BY <1>3, <2>1
  <2> QED BY <2>2 DEF Droppable
<1>6. \A s : s \in Droppable <=> \E k \in 0..(n - 1) : s = at(k)
  <2>1. \A s \in Droppable : s \in SlotId /\ ready[s]
    BY DEF Droppable
  <2> HIDE DEF at
  <2> QED BY <1>4, <1>5, <2>1
<1>7. Cardinality(Droppable) = n
  BY <1>1, <1>6, WindowCount
<1> HIDE DEF at
<1>8. {value[s] : s \in Droppable} = {queue[k] : k \in 1..n}
  <2>1. ASSUME NEW s \in Droppable PROVE \E k \in 1..n : value[s] = queue[k]
    <3>1. PICK k \in 0..(n - 1) : s = at(k)
      BY <1>6
    <3>2. k + 1 \in 1..n /\ (k + 1) - 1 = k
      BY <1>1
    <3> QED BY <1>3, <3>1, <3>2
  <2>2. ASSUME NEW k \in 1..n PROVE \E s \in Droppable : value[s] = queue[k]
    <3>1. k - 1 \in 0..(n - 1)
      BY <1>1
    <3> QED BY <1>3, <1>5, <3>1
  <2> QED BY <2>1, <2>2
<1> QED BY <1>1, <1>7, <1>8 DEF n

(* Drop destroys the items nobody popped, each once, and touches no slot   *)
(* that holds none, although it looks at flags and not at counters.        *)
THEOREM DropsCorrect == Spec => DropsExactlyUnread
<1>1. Next /\ alive /\ ~ alive' => Quiescent
  BY DEF Next, Push, Pop, LoadHead, LoadTail, Reserve, LoseRace, WriteSlot, Publish,
         PopLoadHead, CheckReady, ReadSlot, ClearReady, AdvanceTail, DropRing
<1>2. ASSUME TypeOK, RingInv, [Next]_vars
      PROVE  [alive /\ ~ alive' =>
                /\ Cardinality(Droppable) = Len(queue)
                /\ {value[s] : s \in Droppable} = {queue[k] : k \in DOMAIN queue}]_vars
  BY <1>1, <1>2, DroppedSlots
<1> QED BY <1>2, RingInvariant, PTL DEF Spec, DropsExactlyUnread

-----------------------------------------------------------------------------
(* MpscRing implements BoundedFifo.                                        *)

(* What BoundedFifo sees of a queue of items q, of which those with d are  *)
(* complete.                                                               *)
Seen(q, d) == [k \in DOMAIN q |-> [item |-> q[k], done |-> d[k]]]
SeenItem == [item : Items, done : BOOLEAN]

LEMMA SeenSeq ==
  ASSUME NEW q \in Seq(Items), NEW d \in [1..Len(q) -> BOOLEAN]
  PROVE  /\ Seen(q, d) \in Seq(SeenItem)
         /\ Len(Seen(q, d)) = Len(q)
         /\ \A k \in 1..Len(q) : Seen(q, d)[k] = [item |-> q[k], done |-> d[k]]
<1>1. Len(q) \in Nat /\ DOMAIN q = 1..Len(q) /\ \A k \in 1..Len(q) : q[k] \in Items
  OBVIOUS
<1>2. \A k \in 1..Len(q) : d[k] \in BOOLEAN
  BY Zenon
<1>3. \A k \in 1..Len(q) : [item |-> q[k], done |-> d[k]] \in SeenItem
  BY <1>1, <1>2, Zenon DEF SeenItem
<1>4. Seen(q, d) = [k \in 1..Len(q) |-> [item |-> q[k], done |-> d[k]]]
  BY <1>1 DEF Seen
<1> DEFINE r(k) == [item |-> q[k], done |-> d[k]]
<1> HIDE DEF r
<1>5. Seen(q, d) = [k \in 1..Len(q) |-> r(k)] /\ \A k \in 1..Len(q) : r(k) \in SeenItem
  BY <1>3, <1>4 DEF r
<1>6. /\ Seen(q, d) \in Seq(SeenItem)
      /\ Len(Seen(q, d)) = Len(q)
      /\ \A k \in 1..Len(q) : Seen(q, d)[k] = r(k)
  BY <1>1, <1>5
<1> QED BY <1>6 DEF r

(* An item is accepted at the end.                                         *)
LEMMA SeenAppend ==
  ASSUME NEW q \in Seq(Items), NEW d \in [1..Len(q) -> BOOLEAN], NEW i \in Items,
         NEW e \in [1..(Len(q) + 1) -> BOOLEAN], \A k \in 1..Len(q) : e[k] = d[k]
  PROVE  Seen(Append(q, i), e) = Append(Seen(q, d), [item |-> i, done |-> e[Len(q) + 1]])
<1> DEFINE n == Len(q)
           r == [item |-> i, done |-> e[n + 1]]
           l == Seen(Append(q, i), e)
           s == Seen(q, d)
           a == Append(s, r)
<1>1. Append(q, i) \in Seq(Items) /\ Len(Append(q, i)) = n + 1 /\ n \in Nat
  OBVIOUS
<1>2. \A k \in 1..(n + 1) : Append(q, i)[k] = IF k = n + 1 THEN i ELSE q[k]
  OBVIOUS
<1>3. /\ s \in Seq(SeenItem) /\ Len(s) = n
      /\ \A k \in 1..n : s[k] = [item |-> q[k], done |-> d[k]]
  BY SeenSeq
<1>4. e[n + 1] \in BOOLEAN
  <2>1. n + 1 \in 1..(n + 1)
    BY <1>1
  <2> QED BY <2>1, Zenon
<1>5. r \in SeenItem
  BY <1>4, Zenon DEF SeenItem
<1>6. /\ l \in Seq(SeenItem) /\ Len(l) = n + 1
      /\ \A k \in 1..(n + 1) : l[k] = [item |-> Append(q, i)[k], done |-> e[k]]
  <2>1. e \in [1..Len(Append(q, i)) -> BOOLEAN]
    BY <1>1
  <2> QED BY <1>1, <2>1, SeenSeq
<1> HIDE DEF r, l, s
<1>7. /\ a \in Seq(SeenItem) /\ Len(a) = n + 1 /\ a[n + 1] = r
      /\ \A k \in 1..n : a[k] = s[k]
  BY <1>1, <1>3, <1>5
<1> HIDE DEF a
<1>8. ASSUME NEW k \in 1..(n + 1) PROVE l[k] = a[k]
  <2>1. CASE k = n + 1
    BY <1>2, <1>6, <1>7, <2>1 DEF r
  <2>2. CASE k \in 1..n
    <3>1. k # n + 1
      BY <1>1, <2>2
    <3>2. l[k] = [item |-> q[k], done |-> d[k]]
      BY <1>2, <1>6, <2>2, <3>1
    <3> QED BY <1>3, <1>7, <2>2, <3>2
  <2>3. k = n + 1 \/ k \in 1..n
    BY <1>1
  <2> QED BY ONLY <2>1, <2>2, <2>3
<1> HIDE DEF n
<1>9. l = a
  BY <1>6, <1>7, <1>8, SeqEqual
<1> QED BY <1>9 DEF l, a, r, s, n

(* The oldest item leaves.                                                 *)
LEMMA SeenTail ==
  ASSUME NEW q \in Seq(Items), NEW d \in [1..Len(q) -> BOOLEAN], q # <<>>,
         NEW e \in [1..(Len(q) - 1) -> BOOLEAN], \A k \in 1..(Len(q) - 1) : e[k] = d[k + 1]
  PROVE  Seen(Tail(q), e) = Tail(Seen(q, d))
<1> DEFINE l == Seen(Tail(q), e)
           s == Seen(q, d)
           a == Tail(s)
<1>1. /\ Len(q) \in Nat /\ Len(q) >= 1
      /\ Tail(q) \in Seq(Items) /\ Len(Tail(q)) = Len(q) - 1
      /\ \A k \in 1..(Len(q) - 1) : Tail(q)[k] = q[k + 1]
  OBVIOUS
<1>2. /\ s \in Seq(SeenItem) /\ Len(s) = Len(q)
      /\ \A k \in 1..Len(q) : s[k] = [item |-> q[k], done |-> d[k]]
  BY SeenSeq
<1>3. /\ l \in Seq(SeenItem) /\ Len(l) = Len(q) - 1
      /\ \A k \in 1..(Len(q) - 1) : l[k] = [item |-> Tail(q)[k], done |-> e[k]]
  <2> DEFINE t == Tail(q)
  <2>1. t \in Seq(Items) /\ Len(t) = Len(q) - 1 /\ e \in [1..Len(t) -> BOOLEAN]
    BY <1>1
  <2> HIDE DEF t
  <2>2. /\ Seen(t, e) \in Seq(SeenItem) /\ Len(Seen(t, e)) = Len(t)
        /\ \A k \in 1..Len(t) : Seen(t, e)[k] = [item |-> t[k], done |-> e[k]]
    BY ONLY <2>1, SeenSeq
  <2> QED BY <2>1, <2>2 DEF t
<1> HIDE DEF s, l
<1>4. /\ a \in Seq(SeenItem) /\ Len(a) = Len(q) - 1
      /\ \A k \in 1..(Len(q) - 1) : a[k] = s[k + 1]
  BY <1>1, <1>2
<1> HIDE DEF a
<1>5. ASSUME NEW k \in 1..(Len(q) - 1) PROVE l[k] = a[k]
  <2>1. k + 1 \in 1..Len(q)
    BY <1>1
  <2>2. l[k] = [item |-> Tail(q)[k], done |-> e[k]] /\ a[k] = s[k + 1]
    BY <1>3, <1>4
  <2>3. s[k + 1] = [item |-> q[k + 1], done |-> d[k + 1]]
    BY <1>2, <2>1
  <2>4. Tail(q)[k] = q[k + 1] /\ e[k] = d[k + 1]
    BY <1>1
  <2> QED BY ONLY <2>2, <2>3, <2>4
<1>6. l = a
  BY <1>1, <1>3, <1>4, <1>5, SeqEqual
<1> QED BY <1>6 DEF l, a, s

SetDone(s, j, v) == [s EXCEPT ![j].done = v]

(* The item at place j is marked v.                                        *)
LEMMA SeenSet ==
  ASSUME NEW q \in Seq(Items), NEW d \in [1..Len(q) -> BOOLEAN], NEW j \in 1..Len(q),
         NEW e \in [1..Len(q) -> BOOLEAN], \A k \in 1..Len(q) : k # j => e[k] = d[k]
  PROVE  Seen(q, e) = SetDone(Seen(q, d), j, e[j])
<1> DEFINE f == Seen(q, d)
           v == e[j]
           g == [f EXCEPT ![j].done = v]
<1>1. DOMAIN q = 1..Len(q) /\ DOMAIN f = DOMAIN q
  BY DEF Seen
<1>2. ASSUME NEW k \in DOMAIN q PROVE Seen(q, e)[k] = g[k]
  <2>1. Seen(q, e)[k] = [item |-> q[k], done |-> e[k]]
    BY DEF Seen
  <2>2. f[k] = [item |-> q[k], done |-> d[k]]
    BY DEF Seen
  <2>3. k # j => e[k] = d[k]
    BY <1>1
  <2>4. k = j => e[k] = v
    OBVIOUS
  <2> HIDE DEF f, v
  <2>5. g[k] = IF k = j THEN [f[k] EXCEPT !.done = v] ELSE f[k]
    BY <1>1
  <2>6. [f[k] EXCEPT !.done = v] = [item |-> q[k], done |-> v]
    BY <2>2
  <2> QED BY ONLY <2>1, <2>2, <2>3, <2>4, <2>5, <2>6
<1>3. DOMAIN g = DOMAIN q
  BY <1>1
<1> HIDE DEF g
<1>4. Seen(q, e) = [k \in DOMAIN q |-> g[k]]
  BY <1>2 DEF Seen
<1>5. g = [k \in DOMAIN q |-> g[k]]
  BY <1>3 DEF g
<1> QED BY <1>4, <1>5 DEF g, SetDone

-----------------------------------------------------------------------------
(* The item at place k of the queue can be delivered.                      *)
PlaceDone(k) ==
  \/ ready[SlotOf(IndexAfter(tail, k - 1))]
  \/ k = 1 /\ cphase = "advance"
Done == [k \in 1..Len(queue) |-> PlaceDone(k)]

LEMMA AbstractIsSeen == TypeOK => AbstractQueue = Seen(queue, Done)
<1> SUFFICES ASSUME TypeOK PROVE AbstractQueue = Seen(queue, Done)
  OBVIOUS
<1>1. DOMAIN queue = 1..Len(queue)
  BY DEF TypeOK
<1>2. \A k \in DOMAIN queue : Done[k] = PlaceDone(k)
  BY <1>1 DEF Done
<1>3. AbstractQueue = [k \in DOMAIN queue |-> [item |-> queue[k], done |-> PlaceDone(k)]]
  BY Zenon DEF AbstractQueue, PlaceDone
<1> HIDE DEF Done
<1> QED BY <1>2, <1>3, Zenon DEF Seen

LEMMA DoneType == TypeOK => queue \in Seq(Items) /\ Done \in [1..Len(queue) -> BOOLEAN]
<1>1. ASSUME NEW k PROVE PlaceDone(k) \in BOOLEAN
  BY Zenon DEF PlaceDone
<1>2. Done \in [1..Len(queue) -> BOOLEAN]
  BY <1>1, Zenon DEF Done
<1> QED BY <1>2 DEF TypeOK

(* What the lemmas say of this state they say of the next one.             *)
LEMMA NextView ==
  TypeOK' => /\ queue' \in Seq(Items) /\ Done' \in [1..Len(queue') -> BOOLEAN]
             /\ AbstractQueue' = Seen(queue', Done')
<1>1. (TypeOK => AbstractQueue = Seen(queue, Done))'
  BY AbstractIsSeen, PTL
<1>2. (TypeOK => queue \in Seq(Items) /\ Done \in [1..Len(queue) -> BOOLEAN])'
  BY DoneType, PTL
<1> QED BY <1>1, <1>2

(* A step that completes nothing and moves nothing shows nothing.          *)
LEMMA SameView ==
  ASSUME TypeOK, TypeOK', queue' = queue,
         \A k \in 1..Len(queue) : PlaceDone(k)' <=> PlaceDone(k)
  PROVE  AbstractQueue' = AbstractQueue
<1>1. Done' = [k \in 1..Len(queue) |-> PlaceDone(k)']
  BY DEF Done
<1>2. \A k \in 1..Len(queue) : PlaceDone(k)' = PlaceDone(k)
  BY Zenon DEF PlaceDone
<1>3. Done' = Done
  BY <1>1, <1>2, Zenon DEF Done
<1> QED BY <1>3, NextView, AbstractIsSeen

LEMMA UnchangedView ==
  ASSUME TypeOK, TypeOK', UNCHANGED <<queue, ready, tail>>,
         cphase' = "advance" <=> cphase = "advance"
  PROVE  AbstractQueue' = AbstractQueue
<1>1. \A k \in 1..Len(queue) : PlaceDone(k)' <=> PlaceDone(k)
  BY Zenon DEF PlaceDone
<1> QED BY <1>1, SameView

-----------------------------------------------------------------------------
(* The steps of push. *)

LEMMA ReserveAccepts ==
  ASSUME TypeOK, TypeOK', RingInv, NEW p \in Producers, Reserve(p)
  PROVE  \E d \in BOOLEAN : Fifo!Accept(ItemOf(p), d)
<1> DEFINE n == Len(queue)
           d == Done'[n + 1]
<1>1. alive /\ n < Capacity /\ n \in Nat
  <2>1. alive
    BY DEF Reserve, RingInv, DroppedInv, Quiescent
  <2>2. stale[p] = 0
    BY DistanceFacts DEF Reserve, TypeOK, RingInv, PushersInv, Pushing
  <2> QED BY <2>1, <2>2 DEF Reserve, TypeOK, RingInv, PushersInv, Pushing, CountersMatch
<1>2. queue' = Append(queue, ItemOf(p)) /\ UNCHANGED <<tail, ready, cphase, result>>
  BY DEF Reserve, consumer
<1>3. ItemOf(p) \in Items
  <2>1. pushes[p] \in 1..MaxPushes
    BY MaxPushesAssumption DEF TypeOK, Reserve
  <2> QED BY <2>1 DEF ItemOf, Items
<1>4. Len(queue') = n + 1
  BY <1>2 DEF TypeOK
<1>5. Done' \in [1..(n + 1) -> BOOLEAN] /\ AbstractQueue' = Seen(queue', Done')
  BY <1>4, NextView
<1>6. \A k \in 1..n : Done'[k] = Done[k]
  <2> SUFFICES ASSUME NEW k \in 1..n PROVE Done'[k] = Done[k]
    OBVIOUS
  <2>1. k \in 1..(n + 1)
    BY <1>1
  <2>2. Done'[k] = PlaceDone(k)' /\ Done[k] = PlaceDone(k)
    BY <1>4, <2>1, Zenon DEF Done
  <2>3. PlaceDone(k)' = PlaceDone(k)
    BY <1>2, Zenon DEF PlaceDone
  <2> QED BY <2>2, <2>3
<1>7. d \in BOOLEAN
  <2>1. n + 1 \in 1..(n + 1)
    BY <1>1
  <2> QED BY <1>5, <2>1, Zenon
<1>8. AbstractQueue' = Append(AbstractQueue, [item |-> ItemOf(p), done |-> d])
  BY <1>2, <1>3, <1>5, <1>6, SeenAppend, DoneType, AbstractIsSeen
<1>9. Len(AbstractQueue) = n
  BY SeenSeq, DoneType, AbstractIsSeen
<1> QED BY <1>1, <1>2, <1>7, <1>8, <1>9 DEF Fifo!Accept

LEMMA PublishCompletes ==
  ASSUME TypeOK, TypeOK', RingInv, NEW p \in Producers, Publish(p)
  PROVE  \E k \in DOMAIN AbstractQueue : Fifo!Complete(k)
<1> DEFINE i == myHead[p]
<1>1. alive /\ Owning(p)
  BY DEF Publish, Owning, RingInv, DroppedInv, Quiescent
<1>2. /\ i \in Index /\ Reserved(i) /\ ~ ready[SlotOf(i)]
      /\ cphase = "advance" => i # tail
  BY <1>1 DEF TypeOK, RingInv, OwnersInv, ConsumerInv
<1>3. PICK j \in 1..Len(queue) :
        Place(i) = j /\ IndexAfter(tail, j - 1) = i /\ (j = 1 => i = tail)
  <2>1. Distance(i, tail) < Len(queue) /\ Len(queue) \in Nat
    BY <1>1, <1>2 DEF TypeOK, RingInv, CountersMatch, Reserved
  <2>2. /\ Distance(i, tail) \in Nat /\ IndexAfter(tail, Distance(i, tail)) = i
        /\ Distance(i, tail) = 0 => i = tail
    BY <1>2, DistanceFacts, IndexModBound DEF TypeOK
  <2>3. Place(i) - 1 = Distance(i, tail) /\ Place(i) \in 1..Len(queue)
    BY <2>1, <2>2 DEF Place
  <2> QED BY <2>2, <2>3
<1>4. UNCHANGED <<queue, tail, cphase, result>>
      /\ ready' = [ready EXCEPT ![SlotOf(i)] = TRUE] /\ SlotOf(i) \in SlotId
  BY <1>2, SlotOfType DEF Publish, consumer
<1>5. ~ PlaceDone(j)
  BY <1>2, <1>3 DEF PlaceDone
<1>6. PlaceDone(j)'
  BY <1>3, <1>4 DEF PlaceDone, TypeOK
<1>7. ASSUME NEW k \in 1..Len(queue), k # j PROVE PlaceDone(k)' <=> PlaceDone(k)
  <2>1. /\ IndexAfter(tail, k - 1) \in Index /\ Reserved(IndexAfter(tail, k - 1))
        /\ Place(IndexAfter(tail, k - 1)) = k
    BY <1>1, PlaceIndex DEF RingInv
  <2>2. SlotOf(IndexAfter(tail, k - 1)) # SlotOf(i)
    <3>1. IndexAfter(tail, k - 1) # i
      BY <1>3, <1>7, <2>1
    <3>2. CountersMatch
      BY DEF RingInv
    <3> HIDE DEF i
    <3> QED BY <1>2, <2>1, <3>1, <3>2, WindowInjective
  <2>3. SlotOf(IndexAfter(tail, k - 1)) \in SlotId
    BY <2>1, SlotOfType
  <2>4. ready'[SlotOf(IndexAfter(tail, k - 1))] = ready[SlotOf(IndexAfter(tail, k - 1))]
    BY <1>4, <2>2, <2>3 DEF TypeOK
  <2> QED BY <1>4, <2>4, Zenon DEF PlaceDone
<1> HIDE DEF i
<1>8. /\ Done' \in [1..Len(queue) -> BOOLEAN] /\ Done'[j] = TRUE
      /\ \A k \in 1..Len(queue) : k # j => Done'[k] = Done[k]
  <2>1. Done' = [k \in 1..Len(queue) |-> PlaceDone(k)']
    BY <1>4, Zenon DEF Done
  <2>2. PlaceDone(j)' = TRUE
    BY <1>6, Zenon DEF PlaceDone
  <2>3. \A k \in 1..Len(queue) : k # j => PlaceDone(k)' = PlaceDone(k)
    BY <1>7, Zenon DEF PlaceDone
  <2> QED BY <1>4, <2>1, <2>2, <2>3, NextView, Zenon DEF Done
<1>9. AbstractQueue' = [AbstractQueue EXCEPT ![j].done = TRUE]
  <2>1. AbstractQueue' = Seen(queue, Done')
    BY <1>4, NextView
  <2>2. AbstractQueue = Seen(queue, Done) /\ Done \in [1..Len(queue) -> BOOLEAN]
        /\ queue \in Seq(Items)
    BY AbstractIsSeen, DoneType
  <2>3. Seen(queue, Done') = SetDone(Seen(queue, Done), j, Done'[j])
    BY <1>8, <2>2, SeenSet
  <2> QED BY ONLY <1>8, <2>1, <2>2, <2>3, Zenon DEF SetDone
<1>10. j \in DOMAIN AbstractQueue /\ AbstractQueue[j].done = Done[j]
  <2>1. AbstractQueue = Seen(queue, Done) /\ queue \in Seq(Items)
    BY AbstractIsSeen, DoneType
  <2>2. j \in DOMAIN queue
    BY <2>1
  <2> QED BY <2>1, <2>2 DEF Seen
<1>11. Done[j] = PlaceDone(j)
  BY <1>3, Zenon DEF Done
<1> QED BY <1>4, <1>5, <1>9, <1>10, <1>11 DEF Fifo!Complete
-----------------------------------------------------------------------------
(* The steps of pop, and drop. *)

(* Clearing the flag shows nothing: the item stays deliverable, and no     *)
(* other item shares its slot.                                             *)
LEMMA ClearShowsNothing ==
  ASSUME TypeOK, TypeOK', RingInv, ClearReady
  PROVE  AbstractQueue' = AbstractQueue
<1>1. alive /\ Reserved(tail) /\ ready[SlotOf(tail)] /\ SlotOf(tail) \in SlotId
  BY SlotOfType, DistanceFacts
  DEF ClearReady, TypeOK, RingInv, ConsumerInv, DroppedInv, Quiescent, Reserved
<1>2. /\ UNCHANGED <<queue, tail>> /\ cphase = "clear" /\ cphase' = "advance"
      /\ ready' = [ready EXCEPT ![SlotOf(tail)] = FALSE]
  BY DEF ClearReady
<1>3. ASSUME NEW k \in 1..Len(queue) PROVE PlaceDone(k)' <=> PlaceDone(k)
  <2>1. /\ IndexAfter(tail, k - 1) \in Index /\ Reserved(IndexAfter(tail, k - 1))
        /\ Place(IndexAfter(tail, k - 1)) = k
        /\ k = 1 => IndexAfter(tail, k - 1) = tail
    BY <1>1, PlaceIndex DEF RingInv
  <2>2. CASE k = 1
    BY <1>1, <1>2, <2>1, <2>2 DEF PlaceDone
  <2>3. CASE k # 1
    <3>1. Place(tail) = 1 /\ tail \in Index
      BY DistanceFacts DEF TypeOK, Place
    <3>2. SlotOf(IndexAfter(tail, k - 1)) # SlotOf(tail)
      BY <1>1, <2>1, <2>3, <3>1, WindowInjective DEF RingInv
    <3>3. SlotOf(IndexAfter(tail, k - 1)) \in SlotId
      BY <2>1, SlotOfType
    <3>4. ready'[SlotOf(IndexAfter(tail, k - 1))] = ready[SlotOf(IndexAfter(tail, k - 1))]
      BY <1>2, <3>2, <3>3 DEF TypeOK
    <3> QED BY <1>2, <2>3, <3>4, Zenon DEF PlaceDone
  <2> QED BY <2>2, <2>3
<1> QED BY <1>2, <1>3, SameView

LEMMA AdvancePops ==
  ASSUME TypeOK, TypeOK', RingInv, AdvanceTail
  PROVE  Fifo!PopSome
<1>1. /\ queue # <<>> /\ queue' = Tail(queue) /\ queue \in Seq(Items)
      /\ got = Head(queue) /\ result' = Head(queue)
      /\ alive /\ ready' = ready /\ tail' = NextIndex(tail)
      /\ cphase = "advance" /\ cphase' = "idle"
  BY DistanceFacts DEF AdvanceTail, TypeOK, RingInv, ConsumerInv, CountersMatch, DroppedInv,
                       Quiescent
<1>2. /\ Len(queue) \in Nat /\ Len(queue) >= 1 /\ Len(queue') = Len(queue) - 1
      /\ Len(queue) <= Capacity /\ Head(queue) = queue[1]
  BY <1>1 DEF RingInv, CountersMatch
<1>3. Done \in [1..Len(queue) -> BOOLEAN] /\ Done' \in [1..(Len(queue) - 1) -> BOOLEAN]
  BY <1>2, DoneType, NextView
<1>4. ASSUME NEW k \in 1..(Len(queue) - 1) PROVE Done'[k] = Done[k + 1]
  <2>1. k + 1 \in 1..Len(queue) /\ k + 1 # 1 /\ (k + 1) - 1 = k
    BY <1>2
  <2>2. IndexAfter(NextIndex(tail), k - 1) = IndexAfter(tail, (k + 1) - 1)
    BY <1>2, IndexModBound DEF TypeOK, Index, IndexAfter, NextIndex
  <2>3. PlaceDone(k)' = PlaceDone(k + 1)
    <3>1. PlaceDone(k)' <=> ready[SlotOf(IndexAfter(tail, (k + 1) - 1))]
      BY <1>1, <2>2, Zenon DEF PlaceDone
    <3>2. PlaceDone(k + 1) <=> ready[SlotOf(IndexAfter(tail, (k + 1) - 1))]
      BY <2>1, Zenon DEF PlaceDone
    <3> QED BY <3>1, <3>2, Zenon DEF PlaceDone
  <2>4. Done' = [m \in 1..(Len(queue) - 1) |-> PlaceDone(m)']
    BY <1>2, Zenon DEF Done
  <2> QED BY <2>1, <2>3, <2>4, Zenon DEF Done
<1>5. AbstractQueue = Seen(queue, Done) /\ AbstractQueue' = Seen(queue', Done')
  BY AbstractIsSeen, NextView
<1>6. AbstractQueue' = Tail(AbstractQueue)
  BY <1>1, <1>3, <1>4, <1>5, SeenTail
<1>7. /\ AbstractQueue # <<>> /\ Head(AbstractQueue) = [item |-> queue[1], done |-> Done[1]]
  <2>1. /\ Seen(queue, Done) \in Seq(SeenItem) /\ Len(Seen(queue, Done)) = Len(queue)
        /\ \A k \in 1..Len(queue) : Seen(queue, Done)[k] = [item |-> queue[k], done |-> Done[k]]
    BY <1>1, <1>3, SeenSeq
  <2>2. 1 \in 1..Len(queue)
    BY <1>2
  <2>3. Seen(queue, Done)[1] = [item |-> queue[1], done |-> Done[1]]
    BY <2>1, <2>2
  <2>4. Seen(queue, Done) # <<>> /\ Head(Seen(queue, Done)) = Seen(queue, Done)[1]
    BY <1>2, <2>1
  <2> QED BY ONLY <1>5, <2>3, <2>4
<1>8. Done[1]
  <2>1. 1 \in 1..Len(queue)
    BY <1>2
  <2> QED BY <1>1, <2>1, Zenon DEF Done, PlaceDone
<1>9. Head(AbstractQueue).done /\ result' = Head(AbstractQueue).item
  BY <1>1, <1>2, <1>7, <1>8
<1> QED BY <1>6, <1>7, <1>9, Zenon DEF Fifo!PopSome

(* pop gives up because nothing is held, or the oldest item is not ready.  *)
LEMMA PopsNothing ==
  ASSUME TypeOK, TypeOK', RingInv,
         (PopLoadHead /\ head = tail) \/ (CheckReady /\ ~ ready[SlotOf(tail)])
  PROVE  Fifo!PopNone
<1>1. /\ alive /\ cphase # "advance" /\ cphase' # "advance" /\ result' = NoItem
      /\ UNCHANGED <<queue, ready, tail>>
  BY DEF PopLoadHead, CheckReady, ring, producer, RingInv, DroppedInv, Quiescent
<1>2. AbstractQueue' = AbstractQueue
  BY <1>1, UnchangedView
<1>3. AbstractQueue = Seen(queue, Done) /\ queue \in Seq(Items)
  BY AbstractIsSeen, DoneType
<1>4. CASE PopLoadHead /\ head = tail
  <2>1. queue = <<>>
    BY <1>1, <1>4, DistanceFacts DEF TypeOK, RingInv, CountersMatch
  <2>2. AbstractQueue = <<>>
    BY <1>3, <2>1 DEF Seen
  <2> QED BY <1>1, <1>2, <2>2 DEF Fifo!PopNone
<1>5. CASE CheckReady /\ ~ ready[SlotOf(tail)]
  <2>1. queue # <<>> /\ Len(queue) \in Nat /\ Len(queue) >= 1
    BY <1>1, <1>5, DistanceFacts
    DEF CheckReady, TypeOK, RingInv, CountersMatch, ConsumerInv
  <2>2. 1 \in 1..Len(queue)
    BY <2>1
  <2>3. IndexAfter(tail, 1 - 1) = tail
    BY <1>1, <2>2, PlaceIndex DEF RingInv
  <2>4. ~ PlaceDone(1)
    BY <1>1, <1>5, <2>3 DEF PlaceDone
  <2>5. ~ Done[1]
    BY <2>2, <2>4, Zenon DEF Done
  <2>6. /\ Len(AbstractQueue) = Len(queue) /\ AbstractQueue \in Seq(SeenItem)
        /\ AbstractQueue[1] = [item |-> queue[1], done |-> Done[1]]
    BY <1>3, <2>2, DoneType, SeenSeq
  <2>7. Head(AbstractQueue) = [item |-> queue[1], done |-> Done[1]]
    BY <2>1, <2>6
  <2>8. ~ Head(AbstractQueue).done
    BY <2>5, <2>7
  <2> QED BY <1>1, <1>2, <2>8 DEF Fifo!PopNone
<1> QED BY <1>4, <1>5

(* Nobody is inside when the ring is dropped, so every held item is ready. *)
LEMMA DropDiscards ==
  ASSUME TypeOK, TypeOK', RingInv, DropRing
  PROVE  Fifo!Discard
<1>1. /\ alive /\ queue' = <<>> /\ result' = result /\ cphase # "advance"
      /\ \A p \in Producers : ~ Owning(p)
  BY DEF DropRing, consumer, Quiescent, Owning
<1>2. AbstractQueue = Seen(queue, Done) /\ queue \in Seq(Items)
  BY AbstractIsSeen, DoneType
<1>3. AbstractQueue' = <<>>
  BY <1>1, NextView DEF Seen
<1>4. ASSUME NEW k \in DOMAIN AbstractQueue PROVE AbstractQueue[k].done
  <2>1. k \in 1..Len(queue) /\ AbstractQueue[k] = [item |-> queue[k], done |-> Done[k]]
    BY <1>2, <1>4 DEF Seen
  <2>2. IndexAfter(tail, k - 1) \in Index /\ Reserved(IndexAfter(tail, k - 1))
    BY <1>1, <2>1, PlaceIndex DEF RingInv
  <2>3. ready[SlotOf(IndexAfter(tail, k - 1))]
    BY <1>1, <2>2 DEF RingInv, SlotsInv
  <2>4. Done[k]
    BY <2>1, <2>3, Zenon DEF Done, PlaceDone
  <2> QED BY <2>1, <2>4
<1> QED BY <1>1, <1>3, <1>4 DEF Fifo!Discard

-----------------------------------------------------------------------------
(* Every step of the ring is a step of the bounded FIFO or changes nothing *)
(* it knows of: an item is accepted when its index is reserved, complete   *)
(* when it is published, delivered when tail is stored; and None means     *)
(* that nothing is held or that the oldest item is still being written.    *)
THEOREM ImplementsBoundedFifo == Spec => ImplementsFifo
<1>1. Init => Fifo!Init
  BY DEF Init, Fifo!Init, AbstractQueue
<1>2. ASSUME TypeOK, TypeOK', RingInv, [Next]_vars
      PROVE  [Fifo!Next]_(Fifo!vars)
  <2>1. ASSUME NEW p \in Producers, Reserve(p) PROVE Fifo!Next
    <3>1. ItemOf(p) \in Items
      <4>1. pushes[p] \in 1..MaxPushes
        BY <1>2, <2>1, MaxPushesAssumption DEF TypeOK, Reserve
      <4> QED BY <4>1 DEF ItemOf, Items
    <3> QED BY <1>2, <2>1, <3>1, ReserveAccepts, Zenon DEF Fifo!Next
  <2>2. ASSUME NEW p \in Producers, Publish(p) PROVE Fifo!Next
    BY <1>2, <2>2, PublishCompletes, Zenon DEF Fifo!Next
  <2>3. CASE AdvanceTail
    BY <1>2, <2>3, AdvancePops DEF Fifo!Next
  <2>4. CASE (PopLoadHead /\ head = tail) \/ (CheckReady /\ ~ ready[SlotOf(tail)])
    BY <1>2, <2>4, PopsNothing DEF Fifo!Next
  <2>5. CASE DropRing
    BY <1>2, <2>5, DropDiscards DEF Fifo!Next
  <2>6. CASE ClearReady
    <3>1. result' = result
      BY <2>6 DEF ClearReady
    <3> QED BY <1>2, <2>6, <3>1, ClearShowsNothing DEF Fifo!vars
  <2>7. ASSUME \/ \E p \in Producers : LoadHead(p) \/ LoadTail(p) \/ LoseRace(p) \/ WriteSlot(p)
               \/ PopLoadHead /\ head # tail
               \/ CheckReady /\ ready[SlotOf(tail)]
               \/ ReadSlot
               \/ UNCHANGED vars
        PROVE  UNCHANGED Fifo!vars
    <3>1. /\ UNCHANGED <<queue, ready, tail, result>>
          /\ cphase' = "advance" <=> cphase = "advance"
      BY <2>7 DEF LoadHead, LoadTail, LoseRace, WriteSlot, PopLoadHead, CheckReady, ReadSlot,
                  vars, ring, producer, consumer
    <3> QED BY <1>2, <3>1, UnchangedView DEF Fifo!vars
  <2> QED
    BY <1>2, <2>1, <2>2, <2>3, <2>4, <2>5, <2>6, <2>7 DEF Next, Push, Pop
<1> QED BY <1>1, <1>2, RingInvariant, PTL DEF Spec, Fifo!Spec, ImplementsFifo
=============================================================================
