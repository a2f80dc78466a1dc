---------------------------- MODULE BoundedFifo ----------------------------
(***************************************************************************)
(* What a bounded ring of bypass-io promises its callers, whatever the     *)
(* number of producers: items leave in the order in which they were        *)
(* accepted, each exactly once, never more than Capacity are held, and a   *)
(* pop answers "nothing" only when nothing is held or when the oldest item *)
(* is still being written by its producer.                                 *)
(*                                                                         *)
(* Abstract specification: MpscRing and SpscRing implement it.             *)
(***************************************************************************)
EXTENDS Naturals, Sequences

CONSTANTS
  Capacity,   \* how many items may be held
  Items,      \* everything a producer may push
  NoItem      \* the answer None

VARIABLES
  queue,      \* accepted and not yet delivered: [item, done] records
  result      \* what the last finished pop returned

vars == <<queue, result>>

Init ==
  /\ queue = <<>>
  /\ result = NoItem

(* A push takes its place in the order; done says whether the item can be  *)
(* delivered at once.                                                      *)
Accept(i, d) ==
  /\ Len(queue) < Capacity
  /\ queue' = Append(queue, [item |-> i, done |-> d])
  /\ UNCHANGED result

(* The producer of an accepted item finishes it.                           *)
Complete(k) ==
  /\ ~ queue[k].done
  /\ queue' = [queue EXCEPT ![k].done = TRUE]
  /\ UNCHANGED result

PopSome ==
  /\ queue # <<>>
  /\ Head(queue).done
  /\ result' = Head(queue).item
  /\ queue' = Tail(queue)

PopNone ==
  /\ queue = <<>> \/ ~ Head(queue).done
  /\ result' = NoItem
  /\ UNCHANGED queue

(* The ring is dropped: nobody is using it, every held item goes with it.  *)
Discard ==
  /\ \A k \in DOMAIN queue : queue[k].done
  /\ queue' = <<>>
  /\ UNCHANGED result

Next ==
  \/ \E i \in Items, d \in BOOLEAN : Accept(i, d)
  \/ \E k \in DOMAIN queue : Complete(k)
  \/ PopSome
  \/ PopNone
  \/ Discard

Spec == Init /\ [][Next]_vars
=============================================================================
