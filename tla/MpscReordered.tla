--------------------------- MODULE MpscReordered ---------------------------
(***************************************************************************)
(* MpscRing on a machine that does not keep the two loads of push in       *)
(* program order.  push reads head with Ordering::Relaxed and then tail    *)
(* with Ordering::Acquire; an acquire load keeps later accesses behind it  *)
(* and says nothing of earlier ones, so the value of tail may be older     *)
(* than the value of head (as on AArch64; never on x86-64, whose loads are *)
(* ordered).  The crate builds for both.                                   *)
(***************************************************************************)
EXTENDS MpscRing

VARIABLE early  \* per producer: the tail its next push has already read

NoTail == IndexMod

InitReordered == Init /\ early = [p \in Producers |-> NoTail]

(* The load of tail of the next push is satisfied before its load of head. *)
PrefetchTail(p) ==
  /\ alive
  /\ phase[p] = "idle"
  /\ pushes[p] < MaxPushes
  /\ early[p] = NoTail
  /\ early' = [early EXCEPT ![p] = tail]
  /\ UNCHANGED vars

(* LoadTail with the value the thread already has.                         *)
UsePrefetchedTail(p) ==
  /\ early[p] # NoTail
  /\ phase[p] = "loadTail"
  /\ phase' = [phase EXCEPT ![p] = IF Full(myHead[p], early[p]) THEN "idle" ELSE "cas"]
  /\ early' = [early EXCEPT ![p] = NoTail]
  /\ UNCHANGED <<ring, myHead, pushes, consumer, alive, queue, stale>>

NextReordered ==
  \/ \E p \in Producers :
       \/ PrefetchTail(p)
       \/ UsePrefetchedTail(p)
       \/ early[p] = NoTail /\ LoadTail(p) /\ UNCHANGED early
       \/ (LoadHead(p) \/ Reserve(p) \/ LoseRace(p) \/ WriteSlot(p) \/ Publish(p))
            /\ UNCHANGED early
  \/ Pop /\ UNCHANGED early
  \/ (\A p \in Producers : early[p] = NoTail) /\ DropRing /\ UNCHANGED early

SpecReordered == InitReordered /\ [][NextReordered]_<<vars, early>>

-----------------------------------------------------------------------------
(* The SAFETY comment of push says the capacity check ensures the consumer *)
(* has released the reserved slot from any previous lap: a producer about  *)
(* to write a slot never finds an unread item published in it.             *)
PreviousLapReleased ==
  \A p \in Producers : phase[p] = "write" => ~ ready[SlotOf(myHead[p])]
=============================================================================
