------------------------------ MODULE MpscRing ------------------------------
(***************************************************************************)
(* bypass-io/src/ring/mpsc.rs: a bounded ring with any number of producers *)
(* and one consumer.                                                       *)
(*                                                                         *)
(* Every access to a shared atomic and every access to the UnsafeCell of a *)
(* slot is a step of its own, so the threads interleave as in the code;    *)
(* thread-local computation is part of the step whose value it uses.  The  *)
(* loads of one thread happen in program order here: MpscReordered lets    *)
(* the two relaxed loads of push change places.                            *)
(***************************************************************************)
EXTENDS RingIndex, Sequences, FiniteSets

CONSTANTS
  Producers,  \* the threads that call push
  MaxPushes,  \* bound: how often one producer calls push
  NoItem      \* an uninitialised slot, and the answer None

ASSUME MaxPushesAssumption == MaxPushes \in Nat

(* The n-th item producer p pushes.                                        *)
Items == Producers \X (1..MaxPushes)

ASSUME NoItemAssumption == NoItem \notin Items

VARIABLES
  head,     \* next index to reserve, shared by the producers
  tail,     \* next index to pop, written by the consumer only
  ready,    \* per slot: the item is published
  value,    \* per slot: what the UnsafeCell holds
  phase,    \* per producer: the next step of push
  myHead,   \* per producer: the local variable head of push
  pushes,   \* per producer: calls of push so far
  cphase,   \* the consumer's next step of pop
  got,      \* the consumer's local variable item
  result,   \* what the last finished pop returned
  alive,    \* the ring has not been dropped
  queue,    \* history: the items reserved and not yet popped, in order
  stale     \* history, per producer: reservations made since it read head

ring == <<head, tail, ready, value>>
producer == <<phase, myHead, pushes>>
consumer == <<cphase, got, result>>
vars == <<ring, producer, consumer, alive, queue, stale>>

Pushing(p) == phase[p] \in {"loadTail", "cas"}
Owning(p) == phase[p] \in {"write", "publish"}

(* The item of the push p is in.                                           *)
ItemOf(p) == <<p, pushes[p]>>

(* The longest a thread sleeps between its load of head and its use of it, *)
(* counted in reservations of the others.  It keeps a lap of the index     *)
(* counter (2^64 pushes) from passing unnoticed.                           *)
MaxStale == IndexMod - Capacity - 1

Init ==
  /\ head = 0
  /\ tail = 0
  /\ ready = [s \in SlotId |-> FALSE]
  /\ value = [s \in SlotId |-> NoItem]
  /\ phase = [p \in Producers |-> "idle"]
  /\ myHead = [p \in Producers |-> 0]
  /\ pushes = [p \in Producers |-> 0]
  /\ cphase = "idle"
  /\ got = NoItem
  /\ result = NoItem
  /\ alive = TRUE
  /\ queue = <<>>
  /\ stale = [p \in Producers |-> 0]

-----------------------------------------------------------------------------
(* push *)

(* Mutants: one reservation too many; a comparison that a copy of head     *)
(* older than tail also satisfies.                                         *)
FullTooLate(h, t) == Distance(h, t) > Capacity
FullWhenStale(h, t) == Distance(h, t) >= Capacity

Full(h, t) == Distance(h, t) = Capacity

LoadHead(p) ==
  /\ alive
  /\ phase[p] = "idle"
  /\ pushes[p] < MaxPushes
  /\ pushes' = [pushes EXCEPT ![p] = @ + 1]
  /\ myHead' = [myHead EXCEPT ![p] = head]
  /\ stale' = [stale EXCEPT ![p] = 0]
  /\ phase' = [phase EXCEPT ![p] = "loadTail"]
  /\ UNCHANGED <<ring, consumer, alive, queue>>

(* Read tail and decide: give the item back, or go on to reserve.          *)
LoadTail(p) ==
  /\ phase[p] = "loadTail"
  /\ phase' = [phase EXCEPT ![p] = IF Full(myHead[p], tail) THEN "idle" ELSE "cas"]
  /\ UNCHANGED <<ring, myHead, pushes, consumer, alive, queue, stale>>

(* Mutant: head is stored without comparing it first.                      *)
ReserveBlindly(p) ==
  /\ phase[p] = "cas"
  /\ \A q \in Producers \ {p} : Pushing(q) => stale[q] < MaxStale
  /\ head' = NextIndex(myHead[p])
  /\ queue' = Append(queue, ItemOf(p))
  /\ stale' = [q \in Producers |-> IF q # p /\ Pushing(q) THEN stale[q] + 1 ELSE 0]
  /\ phase' = [phase EXCEPT ![p] = "write"]
  /\ UNCHANGED <<tail, ready, value, myHead, pushes, consumer, alive>>

Reserve(p) ==
  /\ phase[p] = "cas"
  /\ head = myHead[p]
  /\ \A q \in Producers \ {p} : Pushing(q) => stale[q] < MaxStale
  /\ head' = NextIndex(head)
  /\ queue' = Append(queue, ItemOf(p))
  /\ stale' = [q \in Producers |-> IF q # p /\ Pushing(q) THEN stale[q] + 1 ELSE 0]
  /\ phase' = [phase EXCEPT ![p] = "write"]
  /\ UNCHANGED <<tail, ready, value, myHead, pushes, consumer, alive>>

(* compare_exchange_weak fails when head moved, and may fail when it did   *)
(* not; either way push goes on with the head the failure returned.        *)
LoseRace(p) ==
  /\ phase[p] = "cas"
  /\ myHead' = [myHead EXCEPT ![p] = head]
  /\ stale' = [stale EXCEPT ![p] = 0]
  /\ phase' = [phase EXCEPT ![p] = "loadTail"]
  /\ UNCHANGED <<ring, pushes, consumer, alive, queue>>

(* Mutant: the slot of the present head, not of the reserved one.          *)
WriteSlotAtHead(p) ==
  /\ phase[p] = "write"
  /\ value' = [value EXCEPT ![SlotOf(head)] = ItemOf(p)]
  /\ phase' = [phase EXCEPT ![p] = "publish"]
  /\ UNCHANGED <<head, tail, ready, myHead, pushes, consumer, alive, queue, stale>>

WriteSlot(p) ==
  /\ phase[p] = "write"
  /\ value' = [value EXCEPT ![SlotOf(myHead[p])] = ItemOf(p)]
  /\ phase' = [phase EXCEPT ![p] = "publish"]
  /\ UNCHANGED <<head, tail, ready, myHead, pushes, consumer, alive, queue, stale>>

(* Mutant: the flag is not set.                                            *)
PublishNothing(p) ==
  /\ phase[p] = "publish"
  /\ phase' = [phase EXCEPT ![p] = "idle"]
  /\ UNCHANGED <<ring, myHead, pushes, consumer, alive, queue, stale>>

Publish(p) ==
  /\ phase[p] = "publish"
  /\ ready' = [ready EXCEPT ![SlotOf(myHead[p])] = TRUE]
  /\ phase' = [phase EXCEPT ![p] = "idle"]
  /\ UNCHANGED <<head, tail, value, myHead, pushes, consumer, alive, queue, stale>>

-----------------------------------------------------------------------------
(* pop *)

PopLoadHead ==
  /\ alive
  /\ cphase = "idle"
  /\ IF head = tail
       THEN result' = NoItem /\ cphase' = "idle"
       ELSE cphase' = "check" /\ UNCHANGED result
  /\ UNCHANGED <<ring, producer, got, alive, queue, stale>>

(* Mutant: the flag is not looked at.                                      *)
CheckNothing ==
  /\ cphase = "check"
  /\ cphase' = "read"
  /\ UNCHANGED <<ring, producer, got, result, alive, queue, stale>>

CheckReady ==
  /\ cphase = "check"
  /\ IF ready[SlotOf(tail)]
       THEN cphase' = "read" /\ UNCHANGED result
       ELSE cphase' = "idle" /\ result' = NoItem
  /\ UNCHANGED <<ring, producer, got, alive, queue, stale>>

ReadSlot ==
  /\ cphase = "read"
  /\ got' = value[SlotOf(tail)]
  /\ cphase' = "clear"
  /\ UNCHANGED <<ring, producer, result, alive, queue, stale>>

(* Mutant: the flag stays set.                                             *)
ClearNothing ==
  /\ cphase = "clear"
  /\ cphase' = "advance"
  /\ UNCHANGED <<ring, producer, got, result, alive, queue, stale>>

ClearReady ==
  /\ cphase = "clear"
  /\ ready' = [ready EXCEPT ![SlotOf(tail)] = FALSE]
  /\ cphase' = "advance"
  /\ UNCHANGED <<head, tail, value, producer, got, result, alive, queue, stale>>

AdvanceTail ==
  /\ cphase = "advance"
  /\ tail' = NextIndex(tail)
  /\ result' = got
  /\ got' = NoItem
  /\ queue' = Tail(queue)
  /\ cphase' = "idle"
  /\ UNCHANGED <<head, ready, value, producer, alive, stale>>

-----------------------------------------------------------------------------
(* drop *)

(* The last owner drops the ring: no thread is inside push or pop.         *)
Quiescent == cphase = "idle" /\ \A p \in Producers : phase[p] = "idle"

(* Mutant: the last slot is left out.                                      *)
DroppableButLast == {s \in SlotId : ready[s] /\ s # Capacity - 1}

(* The slots whose item Drop destroys.                                     *)
Droppable == {s \in SlotId : ready[s]}

DropRing ==
  /\ alive
  /\ Quiescent
  /\ alive' = FALSE
  /\ ready' = [s \in SlotId |-> ready[s] /\ s \notin Droppable]
  /\ queue' = <<>>
  /\ UNCHANGED <<head, tail, value, producer, consumer, stale>>

-----------------------------------------------------------------------------
Push(p) ==
  \/ LoadHead(p)
  \/ LoadTail(p)
  \/ Reserve(p)
  \/ LoseRace(p)
  \/ WriteSlot(p)
  \/ Publish(p)

Pop == PopLoadHead \/ CheckReady \/ ReadSlot \/ ClearReady \/ AdvanceTail

Next == (\E p \in Producers : Push(p)) \/ Pop \/ DropRing

Spec == Init /\ [][Next]_vars

(* A thread that owns a slot is scheduled until it has published it, and   *)
(* the consumer keeps polling.  Nothing is assumed of a producer that only *)
(* tries to reserve: compare_exchange_weak may fail for as long as it      *)
(* likes.                                                                  *)
FairSpec ==
  /\ Spec
  /\ \A p \in Producers : WF_vars(WriteSlot(p) \/ Publish(p))
  /\ WF_vars(Pop)

-----------------------------------------------------------------------------
(* Properties *)

(* Types of the state of the ring and of the locals of push and pop.       *)
TypeOK ==
  /\ head \in Index
  /\ tail \in Index
  /\ ready \in [SlotId -> BOOLEAN]
  /\ value \in [SlotId -> Items \cup {NoItem}]
  /\ phase \in [Producers -> {"idle", "loadTail", "cas", "write", "publish"}]
  /\ myHead \in [Producers -> Index]
  /\ pushes \in [Producers -> 0..MaxPushes]
  /\ \A p \in Producers : phase[p] # "idle" => pushes[p] # 0
  /\ cphase \in {"idle", "check", "read", "clear", "advance"}
  /\ got \in Items \cup {NoItem}
  /\ result \in Items \cup {NoItem}
  /\ alive \in BOOLEAN
  /\ queue \in Seq(Items)
  /\ stale \in [Producers -> 0..MaxStale]

(* The claim of the SAFETY comment of push: a producer that is writing or  *)
(* publishing a slot is its only user, neither another producer nor the    *)
(* consumer, from whatever lap, is at that slot.                           *)
SlotExclusive ==
  /\ \A p, q \in Producers :
       p # q /\ Owning(p) /\ Owning(q) => SlotOf(myHead[p]) # SlotOf(myHead[q])
  /\ \A p \in Producers :
       Owning(p) /\ cphase \in {"read", "clear", "advance"}
         => SlotOf(myHead[p]) # SlotOf(tail)

(* The claim of the SAFETY comment of pop: when the consumer reads a slot  *)
(* it holds the oldest unread item, initialised and not yet overwritten by *)
(* a producer one lap ahead.                                               *)
ReadsOldestItem ==
  /\ cphase = "read" => queue # <<>> /\ value[SlotOf(tail)] = Head(queue)
  /\ cphase \in {"clear", "advance"} => queue # <<>> /\ got = Head(queue)

(* The ring never holds more than Capacity reservations, and the counters  *)
(* tell how many it holds across every wraparound.                         *)
CountersMatch ==
  /\ alive => Distance(head, tail) = Len(queue)
  /\ Distance(head, tail) <= Capacity

(* push gives the item back only when every slot is reserved at the moment *)
(* it reads tail, however old its copy of head is: no spurious refusal.    *)
RefusedOnlyWhenFull ==
  [][\A p \in Producers :
       phase[p] = "loadTail" /\ phase'[p] = "idle" => Len(queue) = Capacity]_vars

(* Dropping the ring destroys exactly the items nobody popped, each once,  *)
(* and never touches an uninitialised slot.                                *)
DropsExactlyUnread ==
  [][alive /\ ~ alive' =>
       /\ Cardinality(Droppable) = Len(queue)
       /\ {value[s] : s \in Droppable} = {queue[k] : k \in DOMAIN queue}]_vars

(* Every item whose push reserved a slot is popped or dropped with the     *)
(* ring, even if producers behind it or before it are slow.                *)
Held(i) == \E k \in DOMAIN queue : queue[k] = i
AcceptedIsDelivered ==
  \A p \in Producers : \A n \in 1..MaxPushes : Held(<<p, n>>) ~> ~ Held(<<p, n>>)

(* The promise of BoundedFifo: push takes its place in the order when it   *)
(* reserves, and its item is complete when it is published.                *)
AbstractQueue ==
  [k \in DOMAIN queue |->
     [item |-> queue[k],
      done |-> \/ ready[SlotOf(IndexAfter(tail, k - 1))]
               \/ k = 1 /\ cphase = "advance"]]

Fifo == INSTANCE BoundedFifo WITH queue <- AbstractQueue

ImplementsFifo == Fifo!Spec

-----------------------------------------------------------------------------
(* The inductive invariant behind the safety properties.  An index i is    *)
(* Reserved while it lies between tail and head, and Free from head up to  *)
(* Capacity past tail; Place is its position in the queue.                 *)
Reserved(i) == Distance(i, tail) < Distance(head, tail)
Free(i) == Distance(head, tail) <= Distance(i, tail) /\ Distance(i, tail) < Capacity
Place(i) == Distance(i, tail) + 1

(* A producer that owns a slot reserved its index, alone; it has not       *)
(* published the slot, and from "publish" on the slot holds its item.      *)
OwnersInv ==
  \A p \in Producers :
    Owning(p) =>
      /\ Reserved(myHead[p])
      /\ queue[Place(myHead[p])] = ItemOf(p)
      /\ ~ ready[SlotOf(myHead[p])]
      /\ phase[p] = "publish" => value[SlotOf(myHead[p])] = ItemOf(p)
      /\ \A q \in Producers : Owning(q) /\ myHead[q] = myHead[p] => q = p

(* A producer that is still trying knows how far head has moved since; one *)
(* about to reserve the present head has seen a free slot.                 *)
PushersInv ==
  \A p \in Producers :
    Pushing(p) =>
      /\ Distance(head, myHead[p]) = stale[p]
      /\ phase[p] = "cas" /\ stale[p] = 0 => Distance(head, tail) < Capacity

(* A reserved index is published with its item, or its owner is on the     *)
(* way, or the consumer is just leaving it; a free one is not published.   *)
SlotsInv ==
  alive =>
    \A i \in Index :
      /\ Reserved(i) =>
           \/ ready[SlotOf(i)] /\ value[SlotOf(i)] = queue[Place(i)]
           \/ \E p \in Producers : Owning(p) /\ myHead[p] = i
           \/ i = tail /\ cphase = "advance"
      /\ Free(i) => ~ ready[SlotOf(i)]

(* What the consumer knows of the slot it is at.                           *)
ConsumerInv ==
  /\ cphase # "idle" => head # tail
  /\ cphase \in {"read", "clear"} =>
       ready[SlotOf(tail)] /\ value[SlotOf(tail)] = Head(queue)
  /\ cphase \in {"clear", "advance"} => got = Head(queue)
  /\ cphase = "advance" =>
       /\ ~ ready[SlotOf(tail)]
       /\ \A p \in Producers : Owning(p) => myHead[p] # tail

DroppedInv == ~ alive => Quiescent

RingInv ==
  /\ CountersMatch
  /\ OwnersInv
  /\ PushersInv
  /\ SlotsInv
  /\ ConsumerInv
  /\ DroppedInv
=============================================================================
