---------------------------- MODULE NvmeRequest -----------------------------
(***************************************************************************)
(* What bypass-io/src/backend/spdk.rs makes of a byte offset and buffer    *)
(* lengths before anything is submitted: the block range of the request,   *)
(* the ranges of its segments, or the error that refuses it.               *)
(***************************************************************************)
EXTENDS Integers, Sequences, SequencesExt

CONSTANTS
  U64Max,  \* greatest u64, and usize
  U32Max   \* greatest u32

ASSUME WidthsAssumption == U64Max \in Nat /\ U32Max \in 0..U64Max

(* What a device reports of a namespace, in the widths of its fields.      *)
NamespaceType == [nsid : 0..U32Max, sector : 0..U32Max, capacity : 0..U64Max, maxIo : 0..U32Max]

Error(e) == [kind |-> "error", error |-> e, lba |-> 0, count |-> 0]
LbaRanges == [kind : {"range"}, error : {"none"}, lba : 0..U64Max, count : 0..U64Max]

(* NvmeNamespace::new                                                      *)
NamespaceOk(ns) ==
  ns.nsid # 0 /\ ns.sector # 0 /\ ns.capacity # 0 /\ ns.maxIo # 0

(* Mutant: the last block is out of range.                                 *)
LbaRangeShort(ns, offset, len) ==
  LET lba == offset \div ns.sector
      count == len \div ns.sector
  IN IF len = 0 THEN Error("zero length")
     ELSE IF len > ns.maxIo THEN Error("too large")
     ELSE IF offset % ns.sector # 0 \/ len % ns.sector # 0 THEN Error("unaligned")
     ELSE IF lba + count >= ns.capacity THEN Error("out of range")
     ELSE [kind |-> "range", error |-> "none", lba |-> lba, count |-> count]

(* NvmeNamespace::lba_range                                                *)
LbaRange(ns, offset, len) ==
  LET lba == offset \div ns.sector
      count == len \div ns.sector
  IN IF len = 0 THEN Error("zero length")
     ELSE IF len > ns.maxIo THEN Error("too large")
     ELSE IF offset % ns.sector # 0 \/ len % ns.sector # 0 THEN Error("unaligned")
     ELSE IF lba + count > U64Max \/ lba + count > ns.capacity THEN Error("out of range")
     ELSE [kind |-> "range", error |-> "none", lba |-> lba, count |-> count]

(* total_pooled_len: the sum of the lengths, or -1 when it overflows.      *)
TotalPooledLen(lens) ==
  FoldLeft(LAMBDA total, len :
             IF total = -1 \/ total + len > U64Max THEN -1 ELSE total + len,
           0, lens)

(* SpdkBackend::namespace: the place of the first namespace with this id,  *)
(* or 0.                                                                   *)
Find(namespaces, nsid) == SelectInSeq(namespaces, LAMBDA ns : ns.nsid = nsid)

(* SpdkBackend::prepare_io for a request [nvme, nsid, offset, lens]; qpairs *)
(* is the number of queue pairs the backend has.                           *)
PrepareIo(namespaces, qpairs, request) ==
  LET len == TotalPooledLen(request.lens)
      known == Find(namespaces, request.nsid)
  IN IF len = -1 THEN Error("length overflow")
     ELSE IF ~ request.nvme THEN Error("invalid target")
     ELSE IF known = 0 THEN Error("namespace not found")
     ELSE LET range == LbaRange(namespaces[known], request.offset, len)
          IN IF range.kind = "range" /\ qpairs = 0 THEN Error("no queue pairs") ELSE range

(* The range readv and writev submit for each segment: the blocks before   *)
(* it were counted segment by segment.                                     *)
SegmentRange(ns, range, lens, i) ==
  LET Blocks(len) == len \div ns.sector
  IN [lba |-> FoldLeft(LAMBDA lba, len : lba + Blocks(len), range.lba, SubSeq(lens, 1, i - 1)),
      count |-> Blocks(lens[i])]

(* submit_payload_io passes the number of blocks as a u32.                 *)
CountFits(range) == range.count <= U32Max

-----------------------------------------------------------------------------
(* The reference: the bytes of a request and of block ranges.              *)

BytesOf(offset, len) == offset .. offset + len - 1
BytesOfBlocks(ns, lba, count) == BytesOf(lba * ns.sector, count * ns.sector)

(* The blocks of the namespace the request touches are exactly its bytes.  *)
IsWhole(ns, offset, len) ==
  \E lba, count \in 0..ns.capacity :
    count > 0 /\ lba + count <= ns.capacity
    /\ BytesOfBlocks(ns, lba, count) = BytesOf(offset, len)
=============================================================================
