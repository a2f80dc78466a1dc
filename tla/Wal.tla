-------------------------------- MODULE Wal --------------------------------
(***************************************************************************)
(* bypass-db/src/wal.rs: the record log, its writer and its reader, when   *)
(* the process can die inside write_all and a write can fail after some of *)
(* its bytes.                                                              *)
(*                                                                         *)
(* The file is the sequence of what the calls of append left in it.  Of a  *)
(* record only its length counts: a record cut short is a torn one, and    *)
(* what the reader makes of it depends on where it was cut and on whether  *)
(* more bytes follow.  Reading a header or a body across the end of a torn *)
(* record yields a wrong magic or a wrong checksum (a CRC collision is     *)
(* left out).                                                              *)
(***************************************************************************)
EXTENDS Naturals, Sequences, SequencesExt

CONSTANTS
  PayloadLen,  \* bytes of a payload
  TornSizes,   \* how many bytes of a record an interrupted write leaves
  MaxAppends   \* bound: how many appends reach the file

MagicLen == 4
HeaderLen == 16
TrailerLen == 4
RecordLen == HeaderLen + PayloadLen + TrailerLen

ASSUME PayloadLenAssumption == PayloadLen \in Nat
ASSUME TornSizesAssumption == TornSizes \subseteq 1..(RecordLen - 1)
ASSUME MaxAppendsAssumption == MaxAppends \in Nat

VARIABLES
  log,     \* disk: per append, where in the file its bytes begin, its seq_no, how many
           \* bytes it left, and whether it returned Ok
  open,    \* a writer is open
  nextSeq  \* memory: next_seq_no of the writer

logVars == <<log, open, nextSeq>>

InitLog ==
  /\ log = <<>>
  /\ open = FALSE
  /\ nextSeq = 0

-----------------------------------------------------------------------------
(* The reader *)

IsTorn(r) == r.bytes < RecordLen
FileLen == IF log = <<>> THEN 0 ELSE Last(log).at + Last(log).bytes
BytesFrom(k) == FileLen - log[k].at

(* Mutant: a wrong checksum and an end of file inside a record end the log *)
(* quietly as well.                                                        *)
EndsQuietlyAnywhere(k) == IsTorn(log[k])

(* A torn record ends the log quietly when no whole header can be read at  *)
(* its place, or the header does not start with the magic; any other one   *)
(* is an I/O or checksum error.                                            *)
EndsQuietly(k) == BytesFrom(k) < HeaderLen \/ log[k].bytes < MagicLen

(* What records() has read when it comes to the first torn record or to    *)
(* the end, and whether it then returns Ok.                                *)
Records ==
  LET first == SelectInSeq(log, IsTorn)
  IN  IF first = 0 THEN log ELSE SubSeq(log, 1, first - 1)
ReadsOk == Len(Records) < Len(log) => EndsQuietly(Len(Records) + 1)

-----------------------------------------------------------------------------
(* The writer *)

(* Mutant: the numbers start again with every writer.                      *)
OpenFromZero ==
  /\ ~ open
  /\ ReadsOk
  /\ open' = TRUE
  /\ nextSeq' = 0
  /\ UNCHANGED log

OpenWriter ==
  /\ ~ open
  /\ ReadsOk
  /\ open' = TRUE
  /\ nextSeq' = Len(Records)
  /\ UNCHANGED log

(* Mutant: the writer starts where the last record does, not behind it.    *)
PutOverLast(bytes, ok) ==
  log' = Append(IF log = <<>> THEN log ELSE Front(log),
                [at |-> IF log = <<>> THEN 0 ELSE Last(log).at,
                 seq |-> nextSeq, bytes |-> bytes, acked |-> ok])

(* The file is open for appending: what is written goes to its end.        *)
Put(bytes, ok) ==
  log' = Append(log, [at |-> FileLen, seq |-> nextSeq, bytes |-> bytes, acked |-> ok])

AppendOk ==
  /\ open
  /\ Len(log) < MaxAppends
  /\ Put(RecordLen, TRUE)
  /\ nextSeq' = nextSeq + 1
  /\ UNCHANGED open

(* The payload is too large, or write_all fails, having written nothing or *)
(* some bytes; the sequence number is spent.                               *)
AppendFails ==
  /\ open
  /\ Len(log) < MaxAppends
  /\ UNCHANGED log \/ (\E n \in TornSizes : Put(n, FALSE))
  /\ nextSeq' = nextSeq + 1
  /\ nextSeq < MaxAppends
  /\ UNCHANGED open

(* The process dies, inside an append or between two.                      *)
WriterDies ==
  /\ open
  /\ \/ UNCHANGED log
     \/ Len(log) < MaxAppends /\ \E n \in TornSizes \cup {RecordLen} : Put(n, FALSE)
  /\ open' = FALSE
  /\ nextSeq' = 0

Reset ==
  /\ open
  /\ log' = <<>>
  /\ nextSeq' = 0
  /\ UNCHANGED open

(* The file is cut, but sync_all fails, and the numbers go on.             *)
ResetFails ==
  /\ open /\ nextSeq <= MaxAppends
  /\ log' = <<>>
  /\ UNCHANGED <<open, nextSeq>>

NextLog == OpenWriter \/ AppendOk \/ AppendFails \/ WriterDies \/ Reset \/ ResetFails

LogSpec == InitLog /\ [][NextLog]_logVars

-----------------------------------------------------------------------------
(* Properties *)

(* Types of the file and of the writer.                                    *)
LogTypeOK ==
  /\ log \in Seq([at : Nat, seq : Nat, bytes : TornSizes \cup {RecordLen}, acked : BOOLEAN])
  /\ open \in BOOLEAN
  /\ nextSeq \in Nat

(* A sequence number never falls behind the record's place in the log,     *)
(* whatever was torn and however often the writer counted the records      *)
(* again on open.  (It may run ahead, and be given twice: a failed append  *)
(* that leaves no bytes spends a number that the next open does not see.)  *)
SeqsNotBehind ==
  /\ \A k \in DOMAIN Records : Records[k].seq >= k - 1
  /\ open => nextSeq >= Len(Records)

(* Loss is never silent but for a record cut inside its magic: a reader    *)
(* that returns Ok has returned every acknowledged record unless the first *)
(* torn record is shorter than the magic.                                  *)
LossIsReported ==
  ReadsOk /\ (\E k \in DOMAIN log : log[k].acked /\ k > Len(Records))
    => log[Len(Records) + 1].bytes < MagicLen

(* Only reset takes away what a reader had found, or puts it in another    *)
(* order.                                                                  *)
RecordsOnlyGrow == [][log' # <<>> => IsPrefix(Records, Records')]_logVars

(* "Clean EOF and invalid magic stop the scan, matching crash-recovery     *)
(* behavior where the first invalid trailing record marks the end of the   *)
(* valid log" (records): a log with nothing but its last record torn reads *)
(* as the records before it.                                               *)
TornTailEndsLog == Len(Records) + 1 = Len(log) => ReadsOk

(* The same sentence, for a log that is written on after a restart: the    *)
(* records a reader does not return are the torn ones, none that append    *)
(* acknowledged.                                                           *)
AckedIsRead == ReadsOk => \A k \in DOMAIN log : log[k].acked => k <= Len(Records)
=============================================================================
