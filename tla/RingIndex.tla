----------------------------- MODULE RingIndex -----------------------------
(***************************************************************************)
(* The index arithmetic both rings of bypass-io share.  head and tail are  *)
(* usize counters that only ever grow and wrap around at IndexMod (2^32 or *)
(* 2^64 in a build, a small number in a model); a slot is an index masked  *)
(* by Capacity - 1, which is the index modulo the power of two Capacity.   *)
(***************************************************************************)
EXTENDS Integers

CONSTANTS
  Capacity,   \* number of slots
  IndexMod    \* number of values of an index

(* The constructors accept powers of two only, and the width of usize is a *)
(* power of two above any capacity that can be allocated: all the proofs   *)
(* need of that is that a lap of the counters is several laps of the slots.*)
ASSUME CapacityAssumption == Capacity \in Nat \ {0}
ASSUME IndexModAssumption ==
  IndexMod \in Nat /\ \E laps \in 2..IndexMod : IndexMod = laps * Capacity

Index == 0..(IndexMod - 1)
SlotId == 0..(Capacity - 1)

(* usize::wrapping_add(i, 1)                                               *)
NextIndex(i) == IF i = IndexMod - 1 THEN 0 ELSE i + 1

(* usize::wrapping_sub(a, b)                                               *)
Distance(a, b) == IF a >= b THEN a - b ELSE a + IndexMod - b

(* i & mask                                                                *)
SlotOf(i) == i % Capacity

(* The index k places after i, for the properties.                         *)
IndexAfter(i, k) == IF i + k >= IndexMod THEN i + k - IndexMod ELSE i + k
=============================================================================
