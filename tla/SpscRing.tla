------------------------------ MODULE SpscRing ------------------------------
(***************************************************************************)
(* bypass-io/src/ring/spsc.rs: a bounded ring with exactly one producer    *)
(* and one consumer, the callers' obligation.  Each side owns one index    *)
(* and loads the other's; there is no flag per slot, so the order of the   *)
(* slot access and the index store is all that keeps the two apart.        *)
(***************************************************************************)
EXTENDS RingIndex, Sequences, FiniteSets

CONSTANTS
  MaxPushes,  \* bound: how often the producer calls push
  NoItem      \* an uninitialised slot, and the answer None

ASSUME MaxPushesAssumption == MaxPushes \in Nat

Items == 1..MaxPushes

ASSUME NoItemAssumption == NoItem \notin Items

VARIABLES
  head,     \* next index to write, stored by the producer only
  tail,     \* next index to pop, stored by the consumer only
  buf,      \* per slot: what the UnsafeCell holds
  pphase,   \* the producer's next step of push
  pushes,   \* calls of push so far; the item pushed is its number
  cphase,   \* the consumer's next step of pop
  got,      \* the consumer's local variable item
  result,   \* what the last finished pop returned
  alive,    \* the ring has not been dropped
  queue     \* history: the items published and not yet popped, in order

producer == <<pphase, pushes>>
consumer == <<cphase, got, result>>
vars == <<head, tail, buf, producer, consumer, alive, queue>>

Init ==
  /\ head = 0
  /\ tail = 0
  /\ buf = [s \in SlotId |-> NoItem]
  /\ pphase = "idle"
  /\ pushes = 0
  /\ cphase = "idle"
  /\ got = NoItem
  /\ result = NoItem
  /\ alive = TRUE
  /\ queue = <<>>

-----------------------------------------------------------------------------
(* push: the producer reads its own head, then tail *)

(* Mutants: one item too many; one slot always kept free.                  *)
PushLoadTailLate ==
  /\ alive
  /\ pphase = "idle"
  /\ pushes < MaxPushes
  /\ pushes' = pushes + 1
  /\ pphase' = IF Distance(head, tail) > Capacity THEN "idle" ELSE "write"
  /\ UNCHANGED <<head, tail, buf, consumer, alive, queue>>

PushLoadTailEarly ==
  /\ alive
  /\ pphase = "idle"
  /\ pushes < MaxPushes
  /\ pushes' = pushes + 1
  /\ pphase' = IF Distance(head, tail) = Capacity - 1 THEN "idle" ELSE "write"
  /\ UNCHANGED <<head, tail, buf, consumer, alive, queue>>

PushLoadTail ==
  /\ alive
  /\ pphase = "idle"
  /\ pushes < MaxPushes
  /\ pushes' = pushes + 1
  /\ pphase' = IF Distance(head, tail) = Capacity THEN "idle" ELSE "write"
  /\ UNCHANGED <<head, tail, buf, consumer, alive, queue>>

PushWrite ==
  /\ pphase = "write"
  /\ buf' = [buf EXCEPT ![SlotOf(head)] = pushes]
  /\ pphase' = "store"
  /\ UNCHANGED <<head, tail, pushes, consumer, alive, queue>>

PushStoreHead ==
  /\ pphase = "store"
  /\ head' = NextIndex(head)
  /\ queue' = Append(queue, pushes)
  /\ pphase' = "idle"
  /\ UNCHANGED <<tail, buf, pushes, consumer, alive>>

-----------------------------------------------------------------------------
(* pop: the consumer reads its own tail, then head *)

(* Mutant: slots are compared, so that a full ring looks empty.            *)
PopLoadHeadMasked ==
  /\ alive
  /\ cphase = "idle"
  /\ IF SlotOf(tail) = SlotOf(head)
       THEN result' = NoItem /\ cphase' = "idle"
       ELSE cphase' = "read" /\ UNCHANGED result
  /\ UNCHANGED <<head, tail, buf, producer, got, alive, queue>>

PopLoadHead ==
  /\ alive
  /\ cphase = "idle"
  /\ IF tail = head
       THEN result' = NoItem /\ cphase' = "idle"
       ELSE cphase' = "read" /\ UNCHANGED result
  /\ UNCHANGED <<head, tail, buf, producer, got, alive, queue>>

(* Mutant: the newest item instead of the oldest.                          *)
PopReadNewest ==
  /\ cphase = "read"
  /\ got' = buf[SlotOf(IndexAfter(head, IndexMod - 1))]
  /\ cphase' = "store"
  /\ UNCHANGED <<head, tail, buf, producer, result, alive, queue>>

PopRead ==
  /\ cphase = "read"
  /\ got' = buf[SlotOf(tail)]
  /\ cphase' = "store"
  /\ UNCHANGED <<head, tail, buf, producer, result, alive, queue>>

PopStoreTail ==
  /\ cphase = "store"
  /\ tail' = NextIndex(tail)
  /\ result' = got
  /\ got' = NoItem
  /\ queue' = Tail(queue)
  /\ cphase' = "idle"
  /\ UNCHANGED <<head, buf, producer, alive>>

-----------------------------------------------------------------------------
(* drop: the last owner pops, and drops, until pop answers None *)

(* Mutant: the newest item is left out.                                    *)
DroppableButNewest == {s \in SlotId :
                         \E k \in 0..Capacity :
                           k + 1 < Distance(head, tail) /\ s = SlotOf(IndexAfter(tail, k))}

Droppable == {s \in SlotId :
                \E k \in 0..Capacity :
                  k < Distance(head, tail) /\ s = SlotOf(IndexAfter(tail, k))}

DropRing ==
  /\ alive
  /\ pphase = "idle" /\ cphase = "idle"
  /\ alive' = FALSE
  /\ tail' = head
  /\ queue' = <<>>
  /\ UNCHANGED <<head, buf, producer, consumer>>

-----------------------------------------------------------------------------
Push == PushLoadTail \/ PushWrite \/ PushStoreHead
Pop == PopLoadHead \/ PopRead \/ PopStoreTail

Next == Push \/ Pop \/ DropRing

Spec == Init /\ [][Next]_vars

(* The producer thread is scheduled until its push returns, and the        *)
(* consumer keeps polling.                                                 *)
FairSpec == Spec /\ WF_vars(PushWrite \/ PushStoreHead) /\ WF_vars(Pop)

-----------------------------------------------------------------------------
(* Properties *)

(* Types of the state of the ring and of the locals of push and pop.       *)
TypeOK ==
  /\ head \in Index
  /\ tail \in Index
  /\ buf \in [SlotId -> Items \cup {NoItem}]
  /\ pphase \in {"idle", "write", "store"}
  /\ pushes \in 0..MaxPushes
  /\ cphase \in {"idle", "read", "store"}
  /\ got \in Items \cup {NoItem}
  /\ result \in Items \cup {NoItem}
  /\ alive \in BOOLEAN
  /\ queue \in Seq(Items)

(* The counters are apart by the number of unpopped items, never more than *)
(* the slots, and each item sits in the slot it will be read from.         *)
HeldInv ==
  /\ Distance(head, tail) = Len(queue)
  /\ Len(queue) <= Capacity
  /\ \A k \in 1..Len(queue) : buf[SlotOf(IndexAfter(tail, k - 1))] = queue[k]

(* What push has learnt stays true until it stores head.                   *)
ProducerInv ==
  pphase # "idle" =>
    /\ alive
    /\ pushes \in Items
    /\ Len(queue) < Capacity
    /\ pphase = "store" => buf[SlotOf(head)] = pushes

(* What pop has learnt stays true until it stores tail.                    *)
ConsumerInv ==
  cphase # "idle" =>
    /\ alive
    /\ queue # <<>>
    /\ cphase = "store" => got = Head(queue)

(* The inductive invariant of the proofs.                                  *)
RingInv == HeldInv /\ ProducerInv /\ ConsumerInv

(* The SAFETY comments of push and pop: the producer writing a slot and    *)
(* the consumer reading one are never at the same slot, though each may    *)
(* act on an index the other has moved since it was read.                  *)
SlotsDisjoint ==
  pphase \in {"write", "store"} /\ cphase = "read" => SlotOf(head) # SlotOf(tail)

(* push gives the item back only when every slot holds an unpopped item.   *)
RefusedOnlyWhenFull ==
  [][pushes' # pushes /\ pphase' = "idle" => Len(queue) = Capacity]_vars

(* Dropping the ring destroys exactly the items nobody popped, each once.  *)
DropsExactlyUnread ==
  [][alive /\ ~ alive' =>
       /\ Cardinality(Droppable) = Len(queue)
       /\ {buf[s] : s \in Droppable} = {queue[k] : k \in DOMAIN queue}]_vars

(* Every published item is popped, or dropped with the ring.               *)
Held(i) == \E k \in DOMAIN queue : queue[k] = i
AcceptedIsDelivered == \A n \in 1..MaxPushes : Held(n) ~> ~ Held(n)

(* The promise of BoundedFifo; an item is complete as soon as accepted.    *)
Fifo == INSTANCE BoundedFifo
          WITH queue <- [k \in DOMAIN queue |-> [item |-> queue[k], done |-> TRUE]]

ImplementsFifo == Fifo!Spec
=============================================================================
