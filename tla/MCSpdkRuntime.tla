--------------------------- MODULE MCSpdkRuntime ----------------------------
(* A device and requests at its edges, for TLC.                            *)
EXTENDS SpdkRuntime, TLC

(* Two namespaces: blocks of two bytes, and of one; buffers are four bytes *)
(* long.                                                                   *)
MCNamespaces ==
  <<[nsid |-> 1, sector |-> 2, capacity |-> 4, maxIo |-> 8],
    [nsid |-> 2, sector |-> 1, capacity |-> 15, maxIo |-> 4]>>

(* Blocks longer than a buffer, as one of 520 bytes is in effect: huge     *)
(* pages are no multiple of it.                                            *)
OddNamespaces == <<[nsid |-> 1, sector |-> 8, capacity |-> 1, maxIo |-> 8]>>

MCRequests ==
  [nvme : {TRUE}, nsid : {1}, offset : {0, 1, 4, 6, 8}]
  \cup [nvme : {TRUE}, nsid : {2}, offset : {11, 12, 15}]
  \cup {[nvme |-> TRUE, nsid |-> 3, offset |-> 0], [nvme |-> FALSE, nsid |-> 1, offset |-> 0]}

Symmetry == Permutations(Threads) \cup Permutations(Bufs)
=============================================================================
