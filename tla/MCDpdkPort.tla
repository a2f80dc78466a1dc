----------------------------- MODULE MCDpdkPort -----------------------------
(* The frames that arrive, and the symmetry, for TLC.                      *)
EXTENDS DpdkPort, TLC

(* A UDP frame with options and payload, and one cut in its UDP header.    *)
MCFrames ==
  {[ip |-> TRUE, options |-> 1, udp |-> TRUE, len |-> 60],
   [ip |-> TRUE, options |-> 2, udp |-> TRUE, len |-> 49]}

Symmetry == Permutations(Threads) \cup Permutations(Mbufs)
=============================================================================
