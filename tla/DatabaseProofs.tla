--------------------------- MODULE DatabaseProofs ---------------------------
(***************************************************************************)
(* Theorems about the two parts of a table that are on disk, each by       *)
(* itself: Wal, for any length of the payload, any set of places where a   *)
(* write may be cut and any number of appends; and TableStore, for any set *)
(* of batches and any number of segment ids.                               *)
(***************************************************************************)
EXTENDS Wal, TableStore, SequenceTheorems, WellFoundedInduction, TLAPS

-----------------------------------------------------------------------------
(* The log. *)

Entry == [at : Nat, seq : Nat, bytes : TornSizes \cup {RecordLen}, acked : BOOLEAN]

(* A set of numbers that is not empty has a least one.                     *)
LEMMA LeastNumber ==
  ASSUME NEW S \in SUBSET Nat, S # {}
  PROVE  Min(S) \in S /\ \A y \in S : Min(S) <= y
<1> DEFINE lt == {ss \in Nat \X Nat : ss[1] < ss[2]}
<1>1. OpToRel(<, Nat) = lt
  BY DEF OpToRel
<1>2. IsWellFoundedOn(lt, Nat)
  BY <1>1, NatLessThanWellFounded
<1> HIDE DEF lt
<1>3. PICK x \in S : \A y \in S : ~ (<<y, x>> \in lt)
  BY <1>2, WFMin
<1>4. \A y \in S : ~ (y < x)
  BY <1>3 DEF lt
<1>5. \A y \in S : x <= y
  BY <1>4
<1> QED BY <1>5 DEF Min

-----------------------------------------------------------------------------
(* What the reader returns *)

(* The first n entries of the file are whole, and no others follow them.   *)
WholeUpTo(n) ==
  /\ n \in 0..Len(log)
  /\ \A k \in 1..n : ~ IsTorn(log[k])
  /\ n < Len(log) => IsTorn(log[n + 1])

(* records() returns the entries before the first torn one.                *)
LEMMA RecordsAreWhole ==
  ASSUME log \in Seq(Entry)
  PROVE  /\ WholeUpTo(Len(Records))
         /\ Records \in Seq(Entry) /\ \A k \in 1..Len(Records) : Records[k] = log[k]
<1> DEFINE torn == {i \in 1..Len(log) : IsTorn(log[i])}
           first == SelectInSeq(log, IsTorn)
<1>1. Len(log) \in Nat /\ torn \in SUBSET Nat
  OBVIOUS
<1>2. first = IF torn # {} THEN Min(torn) ELSE 0
  BY DEF SelectInSeq
<1>3. Records = IF first = 0 THEN log ELSE SubSeq(log, 1, first - 1)
  BY DEF Records
<1> HIDE DEF first
<1>4. CASE torn = {}
  <2>1. Records = log
    BY <1>2, <1>3, <1>4
  <2>2. \A k \in 1..Len(log) : ~ IsTorn(log[k])
    BY <1>4
  <2> QED BY <1>1, <2>1, <2>2 DEF WholeUpTo
<1>5. CASE torn # {}
  <2>1. first \in torn /\ \A y \in torn : first <= y
    BY <1>1, <1>2, <1>5, LeastNumber
  <2>2. first \in 1..Len(log) /\ IsTorn(log[first])
    BY <2>1
  <2>3. \A k \in 1..(first - 1) : ~ IsTorn(log[k])
    BY <1>1, <2>1
  <2>4. Records = SubSeq(log, 1, first - 1)
    BY <1>3, <2>2
  <2>5. /\ Records \in Seq(Entry) /\ Len(Records) = first - 1
        /\ \A k \in 1..(first - 1) : Records[k] = log[k]
    BY <1>1, <2>2, <2>4
  <2>6. (first - 1) + 1 = first /\ first - 1 \in 0..Len(log)
    BY <1>1, <2>2
  <2> QED BY <2>2, <2>3, <2>5, <2>6 DEF WholeUpTo
<1> QED BY <1>4, <1>5

(* A write adds one entry to what the reader returns, or none.             *)
LEMMA PutRecords ==
  ASSUME log \in Seq(Entry), NEW e \in Entry, log' = Append(log, e)
  PROVE  /\ Len(Records') = Len(Records)
            \/ (Len(Records) = Len(log) /\ Len(Records') = Len(log) + 1)
         /\ \A k \in 1..Len(Records) : Records'[k] = Records[k]
         /\ Len(Records') = Len(log) + 1 => Records'[Len(log) + 1] = e
<1> DEFINE n == Len(Records)  m == Len(Records')
<1>1. /\ Len(log) \in Nat /\ log' \in Seq(Entry) /\ Len(log') = Len(log) + 1
      /\ \A k \in 1..Len(log) : log'[k] = log[k]
      /\ log'[Len(log) + 1] = e
  OBVIOUS
<1>2. WholeUpTo(n) /\ \A k \in 1..n : Records[k] = log[k]
  BY RecordsAreWhole
<1>3. /\ m \in 0..Len(log') /\ \A k \in 1..m : ~ IsTorn(log'[k])
      /\ m < Len(log') => IsTorn(log'[m + 1])
      /\ \A k \in 1..m : Records'[k] = log'[k]
  <2>1. (log \in Seq(Entry) =>
           /\ WholeUpTo(Len(Records))
           /\ \A k \in 1..Len(Records) : Records[k] = log[k])'
    BY RecordsAreWhole, PTL
  <2> QED BY <1>1, <2>1 DEF WholeUpTo
<1> HIDE DEF n, m
<1>4. /\ n \in 0..Len(log) /\ \A k \in 1..n : ~ IsTorn(log[k])
      /\ n < Len(log) => IsTorn(log[n + 1])
  BY <1>2 DEF WholeUpTo
<1>5. /\ m \in 0..(Len(log) + 1) /\ \A k \in 1..m : ~ IsTorn(log'[k])
      /\ m < Len(log) + 1 => IsTorn(log'[m + 1])
  BY <1>1, <1>3
<1>6. m >= n
  <2> SUFFICES ASSUME m < n PROVE FALSE
    BY <1>1, <1>4, <1>5
  <2>1. m + 1 \in 1..n /\ m + 1 \in 1..Len(log) /\ m < Len(log) + 1
    BY <1>1, <1>4, <1>5
  <2>2. log'[m + 1] = log[m + 1]
    BY <1>1, <2>1
  <2> QED BY <1>4, <1>5, <2>1, <2>2
<1>7. n < Len(log) => m <= n
  <2> SUFFICES ASSUME n < Len(log), n < m PROVE FALSE
    BY <1>1, <1>4, <1>5
  <2>1. n + 1 \in 1..m /\ n + 1 \in 1..Len(log)
    BY <1>1, <1>4, <1>5
  <2>2. log'[n + 1] = log[n + 1]
    BY <1>1, <2>1
  <2> QED BY <1>4, <1>5, <2>1, <2>2
<1>8. m = n \/ (n = Len(log) /\ m = Len(log) + 1)
  BY ONLY <1>1, <1>4, <1>5, <1>6, <1>7
<1>9. \A k \in 1..n : Records'[k] = Records[k]
  <2> SUFFICES ASSUME NEW k \in 1..n PROVE Records'[k] = Records[k]
    OBVIOUS
  <2>1. k \in 1..Len(log) /\ k \in 1..m
    BY <1>1, <1>4, <1>5, <1>6
  <2> QED BY <1>1, <1>2, <1>3, <2>1
<1>10. m = Len(log) + 1 => Records'[Len(log) + 1] = e
  BY <1>1, <1>3
<1> QED BY <1>8, <1>9, <1>10 DEF n, m

(* Every action leaves the file alone, empties it, or adds one entry with  *)
(* the next number.                                                        *)
Puts ==
  \E e \in Entry :
    /\ e.seq = nextSeq /\ e.at = FileLen
    /\ e.acked => e.bytes = RecordLen
    /\ log' = Append(log, e)

LEMMA EntryBytes ==
  ASSUME NEW e \in Entry
  PROVE  e.bytes \in 1..RecordLen /\ RecordLen \in Nat /\ RecordLen >= HeaderLen + TrailerLen
<1>1. RecordLen \in Nat /\ RecordLen >= HeaderLen + TrailerLen
  BY PayloadLenAssumption DEF RecordLen, HeaderLen, TrailerLen
<1>2. e.bytes \in TornSizes \cup {RecordLen}
  BY DEF Entry
<1>3. RecordLen >= 1
  BY <1>1 DEF HeaderLen, TrailerLen
<1>4. TornSizes \cup {RecordLen} \subseteq 1..RecordLen
  BY <1>1, <1>3, TornSizesAssumption
<1> QED BY <1>1, <1>2, <1>4

LEMMA FileLenType ==
  ASSUME log \in Seq(Entry)
  PROVE  FileLen \in Nat
<1>1. CASE log = <<>>
  BY <1>1 DEF FileLen
<1>2. CASE log # <<>>
  <2>1. Last(log) \in Entry
    BY <1>2 DEF Last
  <2>2. Last(log).bytes \in Nat /\ Last(log).at \in Nat
    BY <2>1, EntryBytes DEF Entry
  <2> HIDE DEF Entry
  <2> QED BY <1>2, <2>2 DEF FileLen
<1> QED BY <1>1, <1>2

LEMMA StepWrites ==
  ASSUME LogTypeOK, [NextLog]_logVars
  PROVE  /\ LogTypeOK'
         /\ UNCHANGED log \/ (open /\ Puts) \/ log' = <<>>
         /\ open /\ open' => nextSeq' = nextSeq + 1 \/ UNCHANGED <<log, nextSeq>>
                             \/ log' = <<>>
         /\ ~ open /\ open' => nextSeq' = Len(Records) /\ UNCHANGED log
<1>1. log \in Seq(Entry) /\ open \in BOOLEAN /\ nextSeq \in Nat
  BY DEF LogTypeOK, Entry
<1>2. ASSUME NEW bytes \in TornSizes \cup {RecordLen}, NEW ok \in BOOLEAN, Put(bytes, ok),
             ok => bytes = RecordLen
      PROVE  Puts /\ log' \in Seq(Entry)
  <2> DEFINE n == FileLen
             e == [at |-> n, seq |-> nextSeq, bytes |-> bytes, acked |-> ok]
  <2>1. n \in Nat /\ log' = Append(log, e)
    BY <1>1, <1>2, FileLenType DEF Put
  <2> HIDE DEF n
  <2>2. e \in Entry
    BY <1>1, <2>1 DEF Entry
  <2>3. e.seq = nextSeq /\ e.at = n /\ (e.acked => e.bytes = RecordLen)
    BY Zenon, <1>2
  <2> HIDE DEF e
  <2> QED BY <1>1, <2>1, <2>2, <2>3 DEF Puts, n
<1>3. CASE OpenWriter
  <2>1. Len(Records) \in Nat
    BY <1>1, RecordsAreWhole
  <2> QED BY <1>1, <1>3, <2>1 DEF OpenWriter, LogTypeOK
<1>4. CASE AppendOk
  <2>1. /\ open /\ open' = open /\ nextSeq' = nextSeq + 1 /\ Puts /\ log' \in Seq(Entry)
    BY <1>2, <1>4 DEF AppendOk
  <2> QED BY <1>1, <2>1 DEF LogTypeOK, Entry
<1>5. CASE AppendFails
  <2>1. /\ open /\ open' = open /\ nextSeq' = nextSeq + 1 /\ log' \in Seq(Entry)
        /\ UNCHANGED log \/ Puts
    BY <1>1, <1>2, <1>5 DEF AppendFails
  <2> QED BY <1>1, <2>1 DEF LogTypeOK, Entry
<1>6. CASE WriterDies
  <2>1. /\ open /\ open' = FALSE /\ nextSeq' = 0 /\ log' \in Seq(Entry)
        /\ UNCHANGED log \/ Puts
    BY <1>1, <1>2, <1>6 DEF WriterDies
  <2> QED BY <1>1, <2>1 DEF LogTypeOK, Entry
<1>7. CASE Reset
  BY <1>1, <1>7 DEF Reset, LogTypeOK, Entry
<1>8. CASE ResetFails
  BY <1>1, <1>8 DEF ResetFails, LogTypeOK, Entry
<1>9. CASE UNCHANGED logVars
  BY <1>1, <1>9 DEF logVars, LogTypeOK
<1> QED BY <1>3, <1>4, <1>5, <1>6, <1>7, <1>8, <1>9 DEF NextLog

-----------------------------------------------------------------------------
(* Theorems *)

LEMMA SeqsStep ==
  ASSUME LogTypeOK, SeqsNotBehind, [NextLog]_logVars
  PROVE  SeqsNotBehind'
<1>1. log \in Seq(Entry) /\ nextSeq \in Nat /\ open \in BOOLEAN
  BY DEF LogTypeOK, Entry
<1>2. Records \in Seq(Entry) /\ Len(Records) \in 0..Len(log) /\ Len(log) \in Nat
  BY <1>1, RecordsAreWhole DEF WholeUpTo
<1>3. CASE UNCHANGED log
  <2>1. Records' = Records
    BY <1>3 DEF Records
  <2>2. open' => nextSeq' >= Len(Records)
    <3>1. CASE open /\ open'
      <4>1. nextSeq >= Len(Records)
        BY <3>1 DEF SeqsNotBehind
      <4>2. CASE nextSeq' = nextSeq + 1 \/ nextSeq' = nextSeq
        BY <1>1, <1>2, <4>1, <4>2
      <4>3. CASE log' = <<>>
        <5>1. nextSeq' \in Nat
          BY StepWrites DEF LogTypeOK
        <5>2. log = <<>> /\ Len(Records) = 0
          BY <1>2, <1>3, <4>3
        <5> QED BY <5>1, <5>2
      <4> QED BY <3>1, <4>2, <4>3, StepWrites
    <3>2. CASE ~ open
      BY <1>2, <3>2, StepWrites
    <3> QED BY <3>1, <3>2
  <2> QED BY <2>1, <2>2 DEF SeqsNotBehind
<1>4. CASE open /\ Puts
  <2>1. PICK e \in Entry : e.seq = nextSeq /\ log' = Append(log, e)
    BY <1>4 DEF Puts
  <2>2. /\ Len(Records') = Len(Records)
           \/ (Len(Records) = Len(log) /\ Len(Records') = Len(log) + 1)
        /\ \A k \in 1..Len(Records) : Records'[k] = Records[k]
        /\ Len(Records') = Len(log) + 1 => Records'[Len(log) + 1] = e
    BY <1>1, <2>1, PutRecords
  <2>3. Records' \in Seq(Entry)
    <3>1. (log \in Seq(Entry) => Records \in Seq(Entry))'
      BY RecordsAreWhole, PTL
    <3> QED BY <1>1, <2>1, <3>1
  <2>4. nextSeq >= Len(Records) /\ \A k \in 1..Len(Records) : Records[k].seq >= k - 1
    BY <1>2, <1>4 DEF SeqsNotBehind
  <2>5. \A k \in 1..Len(Records') : Records'[k].seq >= k - 1
    <3> SUFFICES ASSUME NEW k \in 1..Len(Records') PROVE Records'[k].seq >= k - 1
      OBVIOUS
    <3>1. CASE k \in 1..Len(Records)
      BY <2>2, <2>4, <3>1
    <3>2. CASE k \notin 1..Len(Records)
      <4>1. Len(Records) = Len(log) /\ Len(Records') = Len(log) + 1 /\ k = Len(log) + 1
        BY <1>2, <2>2, <3>2
      <4>2. Records'[k].seq = nextSeq
        BY <2>1, <2>2, <4>1
      <4> QED BY <1>1, <1>2, <2>4, <4>1, <4>2
    <3> QED BY <3>1, <3>2
  <2>6. open' => nextSeq' >= Len(Records')
    <3>1. log' # log /\ log' # <<>>
      BY <1>1, <2>1
    <3>2. open' => nextSeq' = nextSeq + 1
      BY <1>4, <3>1, StepWrites
    <3> QED BY <1>1, <1>2, <2>2, <2>4, <3>2
  <2> QED BY <2>3, <2>5, <2>6 DEF SeqsNotBehind
<1>5. CASE log' = <<>>
  <2>1. (log \in Seq(Entry) => Records \in Seq(Entry) /\ Len(Records) \in 0..Len(log))'
    BY RecordsAreWhole, PTL DEF WholeUpTo
  <2>2. log' \in Seq(Entry) /\ Len(log') = 0
    BY <1>5
  <2>3. Records' \in Seq(Entry) /\ Len(Records') = 0
    BY <2>1, <2>2
  <2>4. nextSeq' \in Nat
    BY StepWrites DEF LogTypeOK
  <2> QED BY <2>3, <2>4 DEF SeqsNotBehind
<1> QED BY <1>3, <1>4, <1>5, StepWrites

(* Types, and: a sequence number never falls behind the record's place,    *)
(* wherever writes are cut and however often the log is opened again.      *)
THEOREM SeqsCorrect == LogSpec => [](LogTypeOK /\ SeqsNotBehind)
<1>1. InitLog => LogTypeOK /\ SeqsNotBehind
  <2> SUFFICES ASSUME InitLog PROVE LogTypeOK /\ SeqsNotBehind
    OBVIOUS
  <2>1. log = <<>> /\ log \in Seq(Entry) /\ Len(log) = 0
    BY DEF InitLog
  <2>2. LogTypeOK
    BY <2>1 DEF InitLog, LogTypeOK, Entry
  <2>3. Records \in Seq(Entry) /\ Len(Records) = 0
    BY <2>1, RecordsAreWhole DEF WholeUpTo
  <2> QED BY <2>2, <2>3 DEF SeqsNotBehind, InitLog
<1>2. LogTypeOK /\ SeqsNotBehind /\ [NextLog]_logVars => (LogTypeOK /\ SeqsNotBehind)'
  BY StepWrites, SeqsStep
<1> QED BY <1>1, <1>2, PTL DEF LogSpec

(* What append acknowledged is whole, and the entries follow one another   *)
(* in the file.                                                            *)
FileInv ==
  /\ \A k \in 1..Len(log) : log[k].acked => log[k].bytes = RecordLen
  /\ \A i, j \in 1..Len(log) : i < j => log[i].at + log[i].bytes <= log[j].at
  /\ \A k \in 1..Len(log) : log[k].at + log[k].bytes <= FileLen

LEMMA FileStep ==
  ASSUME LogTypeOK, FileInv, [NextLog]_logVars
  PROVE  FileInv'
<1>1. log \in Seq(Entry) /\ Len(log) \in Nat
  BY DEF LogTypeOK, Entry
<1>2. CASE UNCHANGED log
  BY <1>2 DEF FileInv, FileLen
<1>3. CASE log' = <<>>
  BY <1>3 DEF FileInv
<1>4. CASE Puts
  <2>1. PICK e \in Entry :
          /\ e.at = FileLen /\ (e.acked => e.bytes = RecordLen) /\ log' = Append(log, e)
    BY <1>4 DEF Puts
  <2> DEFINE n == Len(log)
  <2>2. /\ Len(log') = n + 1 /\ log'[n + 1] = e /\ n \in Nat /\ log' # <<>>
        /\ \A k \in 1..n : log'[k] = log[k] /\ log[k] \in Entry
    BY <1>1, <2>1
  <2> HIDE DEF n
  <2>3. \A k \in 1..(n + 1) : k \in 1..n \/ k = n + 1
    BY <2>2
  <2>4. FileLen' = e.at + e.bytes
    BY <2>2 DEF FileLen, Last
  <2>5. e.at \in Nat /\ e.bytes \in Nat
    BY EntryBytes DEF Entry
  <2>6. \A k \in 1..n : log[k].at \in Nat /\ log[k].bytes \in Nat
    BY <2>2, EntryBytes DEF Entry
  <2>7. \A k \in 1..n : log[k].at + log[k].bytes <= e.at
    BY <2>1 DEF FileInv, n
  <2>8. \A k \in 1..(n + 1) : log'[k].acked => log'[k].bytes = RecordLen
    BY <2>1, <2>2, <2>3 DEF FileInv, n
  <2>9. ASSUME NEW i \in 1..(n + 1), NEW j \in 1..(n + 1), i < j
        PROVE  log'[i].at + log'[i].bytes <= log'[j].at
    <3>1. i \in 1..n
      BY <2>2, <2>9
    <3>2. CASE j \in 1..n
      BY <2>2, <2>9, <3>1, <3>2 DEF FileInv, n
    <3>3. CASE j = n + 1
      BY <2>2, <2>7, <3>1, <3>3
    <3> QED BY <2>3, <3>2, <3>3
  <2>10. ASSUME NEW k \in 1..(n + 1) PROVE log'[k].at + log'[k].bytes <= FileLen'
    <3>1. CASE k \in 1..n
      BY <2>2, <2>4, <2>5, <2>6, <2>7, <3>1
    <3>2. CASE k = n + 1
      BY <2>2, <2>4, <2>5, <3>2
    <3> QED BY <2>3, <3>1, <3>2
  <2> QED BY <2>2, <2>8, <2>9, <2>10 DEF FileInv
<1> QED BY <1>2, <1>3, <1>4, StepWrites

(* A record that was acknowledged behind the first torn one leaves too     *)
(* many bytes there for the reader to mistake them for the end.            *)
LEMMA FileIsReported ==
  ASSUME LogTypeOK, FileInv
  PROVE  LossIsReported
<1> DEFINE n == Len(Records)
<1> SUFFICES ASSUME ReadsOk, NEW k \in DOMAIN log, log[k].acked, k > n
             PROVE  log[n + 1].bytes < MagicLen
  BY DEF LossIsReported
<1>1. log \in Seq(Entry) /\ Len(log) \in Nat /\ k \in 1..Len(log)
  BY DEF LogTypeOK, Entry
<1>2. n \in 0..Len(log) /\ (n < Len(log) => IsTorn(log[n + 1]))
  BY <1>1, RecordsAreWhole DEF WholeUpTo
<1>3. n < Len(log) => EndsQuietly(n + 1)
  BY DEF ReadsOk
<1> HIDE DEF n
<1>4. n + 1 \in 1..Len(log) /\ n < Len(log)
  BY <1>1, <1>2
<1>5. log[k] \in Entry /\ log[n + 1] \in Entry
  BY <1>1, <1>4
<1>6. log[k].bytes = RecordLen
  BY <1>1 DEF FileInv
<1>7. n + 1 < k
  <2>1. k # n + 1
    BY <1>2, <1>4, <1>5, <1>6, EntryBytes DEF IsTorn
  <2> QED BY <1>1, <1>2, <2>1
<1> DEFINE a == log[n + 1].at  b == log[n + 1].bytes  c == log[k].at
<1>8. a \in Nat /\ b \in Nat /\ c \in Nat /\ RecordLen \in Nat /\ RecordLen >= 20
  BY <1>5, EntryBytes DEF Entry, HeaderLen, TrailerLen
<1>9. a + b <= c /\ c + RecordLen <= FileLen
  BY <1>1, <1>4, <1>6, <1>7 DEF FileInv
<1>10. BytesFrom(n + 1) = FileLen - a /\ FileLen \in Nat
  BY <1>1, FileLenType DEF BytesFrom
<1> HIDE DEF a, b, c
<1>11. ~ (BytesFrom(n + 1) < HeaderLen)
  BY <1>8, <1>9, <1>10 DEF HeaderLen
<1> QED BY <1>3, <1>4, <1>11 DEF EndsQuietly

(* records() returns Ok only when it returned every acknowledged record,   *)
(* unless the first torn one was cut inside its magic.                     *)
THEOREM LossesReported == LogSpec => []LossIsReported
<1>1. InitLog => LogTypeOK /\ FileInv
  <2> SUFFICES ASSUME InitLog PROVE LogTypeOK /\ FileInv
    OBVIOUS
  <2>1. log = <<>> /\ log \in Seq(Entry) /\ Len(log) = 0
    BY DEF InitLog
  <2>2. LogTypeOK
    BY <2>1 DEF InitLog, LogTypeOK, Entry
  <2>3. FileInv
    BY <2>1 DEF FileInv
  <2> QED BY <2>2, <2>3
<1>2. LogTypeOK /\ FileInv /\ [NextLog]_logVars => (LogTypeOK /\ FileInv)'
  BY StepWrites, FileStep
<1>3. LogTypeOK /\ FileInv => LossIsReported
  BY FileIsReported
<1> QED BY <1>1, <1>2, <1>3, PTL DEF LogSpec

(* Only reset takes away what a reader had found, or reorders it.          *)
THEOREM RecordsGrow == LogSpec => RecordsOnlyGrow
<1> DEFINE Grows == log' # <<>> => IsPrefix(Records, Records')
<1>1. LogTypeOK /\ [NextLog]_logVars => [Grows]_logVars
  <2> SUFFICES ASSUME LogTypeOK, [NextLog]_logVars, log' # <<>>
               PROVE  IsPrefix(Records, Records')
    BY DEF Grows
  <2>1. log \in Seq(Entry) /\ Records \in Seq(Entry) /\ Len(Records) \in Nat
    BY RecordsAreWhole DEF LogTypeOK, Entry
  <2>2. CASE UNCHANGED log
    <3>1. Records' = Records
      BY <2>2 DEF Records
    <3> QED BY <2>1, <3>1 DEF IsPrefix
  <2>3. CASE Puts
    <3>1. PICK e \in Entry : log' = Append(log, e)
      BY <2>3 DEF Puts
    <3>2. /\ Len(Records') >= Len(Records)
          /\ \A k \in 1..Len(Records) : Records'[k] = Records[k]
      <4>1. Len(log) \in Nat
        BY <2>1
      <4> QED BY <2>1, <3>1, <4>1, PutRecords
    <3>3. Records' \in Seq(Entry) /\ Len(Records') \in Nat
      <4>1. (log \in Seq(Entry) => Records \in Seq(Entry))'
        BY RecordsAreWhole, PTL
      <4> QED BY <2>1, <3>1, <4>1
    <3>4. SubSeq(Records, 1, Len(Records)) = SubSeq(Records', 1, Len(Records))
      <4> DEFINE n == Len(Records)
                 s == SubSeq(Records, 1, n)
                 u == SubSeq(Records', 1, n)
      <4>1. s \in Seq(Entry) /\ Len(s) = n /\ \A k \in 1..n : s[k] = Records[k]
        BY <2>1
      <4>2. u \in Seq(Entry) /\ Len(u) = n /\ \A k \in 1..n : u[k] = Records'[k]
        BY <2>1, <3>2, <3>3
      <4> HIDE DEF s, u
      <4>3. s = u
        BY <3>2, <4>1, <4>2, SeqEqual
      <4> QED BY <4>3 DEF s, u
    <3> QED BY <2>1, <3>2, <3>3, <3>4 DEF IsPrefix
  <2> QED BY <2>2, <2>3, StepWrites
<1> QED BY <1>1, SeqsCorrect, PTL DEF LogSpec, RecordsOnlyGrow

-----------------------------------------------------------------------------
(* Whatever fails: the steps that keep types and SafeInv. *)

LEMMA OpenSafe ==
  ASSUME TypeOK, SafeInv, Open
  PROVE  TypeOK' /\ SafeInv'
<1> USE DEF Open, disk
<1>1. Unapplied \subseteq Logged /\ Logged \subseteq Batches
  BY DEF Unapplied, Logged, TypeOK
<1>2. TypeOK'
  BY <1>1 DEF TypeOK, ManifestType
<1>3. Logged' = Logged /\ Visible' = SegmentRows(manifest.refs) \cup Unapplied
  BY DEF Logged, Visible, SegmentRows
<1>4. ListsInv'
  BY <1>1, <1>3 DEF SafeInv, ListsInv, SegmentRows
<1>5. OperationInv'
  BY DEF SafeInv, OperationInv
<1> QED BY <1>2, <1>4, <1>5 DEF SafeInv

LEMMA LogBatchSafe ==
  ASSUME TypeOK, SafeInv, NEW b \in Batches, LogBatch(b)
  PROVE  TypeOK' /\ SafeInv'
<1> USE DEF LogBatch
<1>1. wal' \in Seq(Batches) /\ Logged' = Logged \cup {b}
  BY DEF TypeOK, Logged
<1>2. TypeOK'
  BY <1>1 DEF TypeOK
<1>3. Visible' = Visible /\ SegmentRows(manifest.refs)' = SegmentRows(manifest.refs)
      /\ SegmentRows(mem.refs)' = SegmentRows(mem.refs)
  BY DEF Visible, SegmentRows
<1>4. ListsInv'
  BY <1>1, <1>3 DEF SafeInv, ListsInv
<1>5. OperationInv'
  BY <1>1, <1>3 DEF SafeInv, ListsInv, OperationInv
<1> QED BY <1>2, <1>4, <1>5 DEF SafeInv

(* A torn write changes no whole record and nothing else. *)
LEMMA LogTornSafe ==
  ASSUME TypeOK, SafeInv, LogTorn
  PROVE  TypeOK' /\ SafeInv' /\ Visible' = Visible
<1> USE DEF LogTorn, memory
<1>1. /\ Visible' = Visible /\ Logged' = Logged
      /\ SegmentRows(manifest.refs)' = SegmentRows(manifest.refs)
      /\ SegmentRows(mem.refs)' = SegmentRows(mem.refs)
  BY DEF Visible, SegmentRows, Logged
<1>2. TypeOK' /\ ListsInv'
  BY <1>1 DEF SafeInv, ListsInv, TypeOK
<1>3. OperationInv'
  BY <1>1 DEF SafeInv, OperationInv
<1> QED BY <1>1, <1>2, <1>3 DEF SafeInv

LEMMA ShowBatchSafe ==
  ASSUME TypeOK, SafeInv, ShowBatch
  PROVE  TypeOK' /\ SafeInv'
<1> USE DEF ShowBatch, disk
<1>1. up /\ pending \in Logged /\ Logged \subseteq Batches
  BY DEF SafeInv, OperationInv, Logged, TypeOK
<1>2. TypeOK'
  BY <1>1 DEF TypeOK
<1>3. /\ Visible' = Visible \cup {pending} /\ Logged' = Logged
      /\ SegmentRows(manifest.refs)' = SegmentRows(manifest.refs)
      /\ SegmentRows(mem.refs)' = SegmentRows(mem.refs)
  BY DEF Visible, SegmentRows, Logged
<1>4. ListsInv'
  BY <1>1, <1>3 DEF SafeInv, ListsInv
<1>5. OperationInv'
  BY <1>1 DEF OperationInv
<1> QED BY <1>2, <1>4, <1>5 DEF SafeInv

(* flush and compact begin: the next id is in no list.                     *)
LEMMA BeginSafe ==
  ASSUME TypeOK, SafeInv, NEW ids \in SUBSET SegmentId, ids \subseteq sealed,
         up, pc = "idle", BeginSegment(ids)
  PROVE  TypeOK' /\ SafeInv'
<1> USE DEF BeginSegment
<1>1. mem.next \notin manifest.refs \cup mem.refs \cup sealed /\ mem.next \in SegmentId
  BY DEF SafeInv, ListsInv, TypeOK, ManifestType
<1>2. TypeOK'
  BY DEF TypeOK
<1>3. /\ Visible' = Visible /\ Logged' = Logged
      /\ SegmentRows(manifest.refs)' = SegmentRows(manifest.refs)
      /\ SegmentRows(mem.refs)' = SegmentRows(mem.refs)
  BY DEF Visible, SegmentRows, Logged
<1>4. ListsInv'
  BY <1>1, <1>3 DEF SafeInv, ListsInv
<1>5. OperationInv'
  BY <1>1 DEF OperationInv
<1> QED BY <1>2, <1>4, <1>5 DEF SafeInv

(* The new directory changes no listed one; what is in it is logged.       *)
LEMMA FinishSegmentFacts ==
  ASSUME TypeOK, SafeInv, up, FinishSegment
  PROVE  /\ dirs' \in [SegmentId -> SUBSET Batches] /\ mem.next \in SegmentId
         /\ mem.next \notin manifest.refs \cup mem.refs \cup sealed
         /\ complete' = complete \cup {mem.next}
         /\ dirs'[mem.next] = (IF chosen = {} THEN active ELSE SegmentRows(chosen))
         /\ dirs'[mem.next] \subseteq Logged
         /\ \A id \in SegmentId : id # mem.next => dirs'[id] = dirs[id]
<1> DEFINE rows == IF chosen = {} THEN active ELSE SegmentRows(chosen)
<1>1. /\ mem.next \in SegmentId /\ chosen \subseteq sealed
      /\ mem.next \notin manifest.refs \cup mem.refs \cup sealed
  BY DEF FinishSegment, SafeInv, ListsInv, OperationInv, TypeOK, ManifestType
<1>2. rows \subseteq Visible /\ rows \subseteq Logged /\ Logged \subseteq Batches
  <2>1. Visible \subseteq Logged
    BY DEF SafeInv, ListsInv
  <2>2. rows \subseteq Visible
    BY <1>1 DEF Visible, SegmentRows
  <2>3. Logged \subseteq Batches
    BY DEF Logged, TypeOK
  <2> QED BY <2>1, <2>2, <2>3
<1>3. dirs' = [dirs EXCEPT ![mem.next] = rows] /\ complete' = complete \cup {mem.next}
  BY DEF FinishSegment
<1> HIDE DEF rows
<1>4. /\ dirs' \in [SegmentId -> SUBSET Batches] /\ dirs'[mem.next] = rows
      /\ \A id \in SegmentId : id # mem.next => dirs'[id] = dirs[id]
  BY <1>1, <1>2, <1>3 DEF TypeOK
<1> QED BY <1>1, <1>2, <1>3, <1>4 DEF rows

(* Segments other than the new one keep their rows.                        *)
LEMMA OthersKeepRows ==
  ASSUME TypeOK, SafeInv, up, FinishSegment, NEW ids \in SUBSET SegmentId,
         mem.next \notin ids
  PROVE  UNION {dirs'[id] : id \in ids} = SegmentRows(ids)
<1>1. \A id \in ids : dirs'[id] = dirs[id]
  BY FinishSegmentFacts
<1> QED BY <1>1 DEF SegmentRows

(* FinishSegment, and a manifest in memory that may list the new segment.  *)
LEMMA FinishSegmentLists ==
  ASSUME TypeOK, SafeInv, up, FinishSegment,
         UNCHANGED <<wal, manifest, up, sealed, active>>,
         mem' \in ManifestType, mem'.next = mem.next + 1,
         mem'.refs \subseteq mem.refs \cup sealed \cup {mem.next}
  PROVE  ListsInv' /\ Visible' = Visible
<1>1. /\ manifest.refs \in SUBSET SegmentId /\ mem.refs \in SUBSET SegmentId
      /\ sealed \in SUBSET SegmentId /\ mem.next \in Nat
  BY DEF TypeOK, ManifestType
<1>2. /\ SegmentRows(manifest.refs)' = SegmentRows(manifest.refs)
      /\ SegmentRows(sealed)' = SegmentRows(sealed)
  BY <1>1, FinishSegmentFacts, OthersKeepRows DEF SegmentRows
<1>3. Visible' = Visible /\ Logged' = Logged
  BY <1>2 DEF Visible, Logged
<1>4. SegmentRows(mem.refs)' \subseteq Logged
  <2> SUFFICES ASSUME NEW id \in mem'.refs PROVE dirs'[id] \subseteq Logged
    BY DEF SegmentRows
  <2>1. CASE id = mem.next
    BY <2>1, FinishSegmentFacts
  <2>2. CASE id # mem.next
    <3>1. id \in mem.refs \cup sealed /\ dirs'[id] = dirs[id]
      BY <1>1, <2>2, FinishSegmentFacts
    <3> QED BY <3>1 DEF SafeInv, ListsInv, SegmentRows, Visible
  <2> QED BY <2>1, <2>2
<1>5. /\ manifest'.refs \subseteq complete'
      /\ mem'.refs \cup sealed' \subseteq complete'
  BY FinishSegmentFacts DEF SafeInv, ListsInv
<1>6. \A id \in manifest'.refs \cup mem'.refs \cup sealed' : id < mem'.next
  <2> SUFFICES ASSUME NEW id \in manifest.refs \cup mem.refs \cup sealed \cup {mem.next}
               PROVE  id < mem.next + 1
    OBVIOUS
  <2>1. CASE id = mem.next
    BY <1>1, <2>1
  <2>2. CASE id # mem.next
    <3>1. id \in manifest.refs \cup mem.refs \cup sealed
      BY <2>2
    <3>2. id < mem.next
      BY <3>1 DEF SafeInv, ListsInv
    <3>3. id \in SegmentId
      BY <1>1, <3>1
    <3> QED BY <1>1, <3>2, <3>3, MaxSegmentsAssumption DEF SegmentId
  <2> QED BY <2>1, <2>2
<1> QED BY <1>2, <1>3, <1>4, <1>5, <1>6 DEF SafeInv, ListsInv

LEMMA SealSegmentSafe ==
  ASSUME TypeOK, SafeInv, SealSegment
  PROVE  TypeOK' /\ SafeInv' /\ Visible' = Visible
<1> USE DEF SealSegment
<1>1. /\ up /\ pc = "sealing" /\ mem.next \in SegmentId /\ chosen \subseteq sealed
      /\ FinishSegment
  BY DEF FinishSegment, SafeInv, OperationInv
<1>2. /\ mem' \in ManifestType /\ mem'.next = mem.next + 1
      /\ mem'.refs = IF chosen = {} THEN mem.refs \cup {mem.next}
                                    ELSE (sealed \ chosen) \cup {mem.next}
  <2>1. /\ found \in Nat /\ mem.applied \in Nat /\ mem.next + 1 \in Nat \ {0}
        /\ mem.refs \in SUBSET SegmentId /\ sealed \in SUBSET SegmentId
    BY DEF TypeOK, ManifestType
  <2>2. CASE chosen = {}
    <3>1. mem' = [applied |-> found, next |-> mem.next + 1,
                  refs |-> mem.refs \cup {mem.next}]
      BY <2>2 DEF NextManifest
    <3>2. mem.refs \cup {mem.next} \in SUBSET SegmentId
      BY <1>1, <2>1
    <3> QED BY ONLY <2>1, <2>2, <3>1, <3>2 DEF ManifestType
  <2>3. CASE chosen # {}
    <3>1. mem' = [applied |-> mem.applied, next |-> mem.next + 1,
                  refs |-> (sealed \ chosen) \cup {mem.next}]
      BY <2>3 DEF NextManifest
    <3>2. (sealed \ chosen) \cup {mem.next} \in SUBSET SegmentId
      BY <1>1, <2>1
    <3> QED BY ONLY <2>1, <2>3, <3>1, <3>2 DEF ManifestType
  <2> QED BY <2>2, <2>3
<1>3. TypeOK'
  <2>1. complete' \in SUBSET SegmentId /\ dirs' \in [SegmentId -> SUBSET Batches]
    BY <1>1, FinishSegmentFacts DEF TypeOK
  <2> QED BY <1>1, <1>2, <2>1 DEF TypeOK
<1>4. ListsInv' /\ Visible' = Visible
  <2>1. mem'.refs \subseteq mem.refs \cup sealed \cup {mem.next}
    BY <1>2
  <2> QED BY <1>1, <1>2, <2>1, FinishSegmentLists
<1>5. OperationInv'
  <2>1. mem'.next - 1 = mem.next
    BY <1>1, <1>2 DEF SegmentId
  <2>2. chosen # {} => SegmentRows(chosen)' = SegmentRows(chosen)
    BY <1>1, FinishSegmentFacts, OthersKeepRows DEF SegmentRows, TypeOK
  <2>3. dirs'[mem'.next - 1] = IF chosen = {} THEN active ELSE SegmentRows(chosen)'
    BY <1>1, <2>1, <2>2, FinishSegmentFacts
  <2>4. mem'.next - 1 \in complete' \ sealed
    BY <1>1, <2>1, FinishSegmentFacts
  <2> QED BY <1>1, <1>2, <2>1, <2>3, <2>4 DEF OperationInv
<1> QED BY <1>3, <1>4, <1>5 DEF SafeInv

(* The WAL cannot be counted: the new segment is listed in memory only.    *)
LEMMA CountFailsSafe ==
  ASSUME TypeOK, SafeInv, CountFails
  PROVE  TypeOK' /\ SafeInv' /\ Visible' = Visible
<1> USE DEF CountFails, GiveUp
<1>1. /\ up /\ mem.next \in SegmentId /\ FinishSegment
  BY DEF FinishSegment, SafeInv, OperationInv
<1>2. /\ mem' \in ManifestType /\ mem'.next = mem.next + 1
      /\ mem'.refs = mem.refs \cup {mem.next}
  <2>1. /\ mem.applied \in Nat /\ mem.next + 1 \in Nat \ {0}
        /\ mem.refs \cup {mem.next} \in SUBSET SegmentId
    BY <1>1 DEF TypeOK, ManifestType
  <2>2. mem' = [applied |-> mem.applied, next |-> mem.next + 1,
                refs |-> mem.refs \cup {mem.next}]
    BY DEF TypeOK, ManifestType
  <2> QED BY ONLY <2>1, <2>2 DEF ManifestType
<1>3. TypeOK'
  <2>1. complete' \in SUBSET SegmentId /\ dirs' \in [SegmentId -> SUBSET Batches]
    BY <1>1, FinishSegmentFacts DEF TypeOK
  <2> QED BY <1>1, <1>2, <2>1 DEF TypeOK
<1>4. ListsInv' /\ Visible' = Visible
  BY <1>1, <1>2, FinishSegmentLists
<1>5. OperationInv'
  BY <1>1 DEF OperationInv
<1> QED BY <1>3, <1>4, <1>5 DEF SafeInv

(* Once the manifest is stored, scans read the new segment in place of     *)
(* what was copied into it.                                                *)
LEMMA StoreManifestShows ==
  ASSUME TypeOK, SafeInv, StoreManifest
  PROVE  /\ Visible' = Visible
         /\ sealed' = (sealed \ chosen) \cup {mem.next - 1}
<1> DEFINE new == mem.next - 1
<1> USE DEF StoreManifest
<1>1. /\ new \in complete \ sealed /\ chosen \subseteq sealed
      /\ dirs[new] = IF chosen = {} THEN active ELSE SegmentRows(chosen)
      /\ sealed' = (sealed \ chosen) \cup {new} /\ dirs' = dirs
  BY DEF SafeInv, OperationInv
<1> HIDE DEF new
<1>2. CASE chosen = {}
  <2>1. active' = {}
    BY <1>2
  <2>2. dirs[new] = active /\ sealed' = sealed \cup {new}
    BY <1>1, <1>2
  <2> QED BY <1>1, <2>1, <2>2 DEF Visible, SegmentRows
<1>3. CASE chosen # {}
  <2>1. active' = active
    BY <1>3
  <2>2. dirs[new] = SegmentRows(chosen)
    BY <1>1, <1>3
  <2>3. SegmentRows(sealed)' = SegmentRows(sealed)
    BY <1>1, <2>2 DEF SegmentRows
  <2> QED BY <2>1, <2>3 DEF Visible
<1> QED BY <1>1, <1>2, <1>3 DEF new

LEMMA StoreManifestSafe ==
  ASSUME TypeOK, SafeInv, StoreManifest
  PROVE  TypeOK' /\ SafeInv' /\ Visible' = Visible
<1> DEFINE new == mem.next - 1
<1> USE DEF StoreManifest
<1>1. /\ up /\ new \in complete \ sealed /\ chosen \subseteq sealed
      /\ sealed' = (sealed \ chosen) \cup {new} /\ dirs' = dirs
      /\ chosen # {} => mem.refs = (sealed \ chosen) \cup {new}
  BY DEF SafeInv, OperationInv
<1>2. Visible' = Visible
  BY StoreManifestShows
<1>3. new \in SegmentId /\ new < mem.next /\ mem.next \in Nat
  BY <1>1 DEF TypeOK, ManifestType
<1> HIDE DEF new
<1>4. TypeOK'
  BY <1>1, <1>3 DEF TypeOK
<1>5. Logged' = Logged /\ SegmentRows(mem.refs)' = SegmentRows(mem.refs)
      /\ SegmentRows(manifest.refs)' = SegmentRows(mem.refs)
  BY <1>1 DEF Logged, SegmentRows
<1>6. ListsInv'
  BY <1>1, <1>2, <1>3, <1>5 DEF SafeInv, ListsInv
<1>7. OperationInv'
  <2>1. CASE chosen = {}
    BY <1>1, <2>1 DEF OperationInv
  <2>2. CASE chosen # {}
    <3>1. mem.refs = (sealed \ chosen) \cup {new} /\ manifest' = mem
      BY <1>1, <2>2
    <3>2. chosen \cap (manifest'.refs \cup mem'.refs \cup sealed') = {}
      BY <1>1, <3>1
    <3> QED BY <1>1, <2>2, <3>2 DEF OperationInv
  <2> QED BY <2>1, <2>2
<1> QED BY <1>2, <1>4, <1>6, <1>7 DEF SafeInv

LEMMA RemoveDirSafe ==
  ASSUME TypeOK, SafeInv, NEW id \in SegmentId, RemoveDir(id)
  PROVE  TypeOK' /\ SafeInv' /\ Visible' = Visible
<1> USE DEF RemoveDir
<1>1. up /\ id \notin manifest.refs \cup mem.refs \cup sealed
  BY DEF SafeInv, OperationInv
<1>2. TypeOK'
  BY DEF TypeOK
<1>3. /\ Visible' = Visible /\ Logged' = Logged
      /\ SegmentRows(manifest.refs)' = SegmentRows(manifest.refs)
      /\ SegmentRows(mem.refs)' = SegmentRows(mem.refs)
  BY DEF Visible, SegmentRows, Logged
<1>4. ListsInv'
  BY <1>1, <1>3 DEF SafeInv, ListsInv
<1>5. OperationInv'
  BY <1>1 DEF SafeInv, OperationInv
<1> QED BY <1>2, <1>3, <1>4, <1>5 DEF SafeInv

(* An error that leaves disk and lists as they are.                        *)
LEMMA GiveUpSafe ==
  ASSUME TypeOK, SafeInv, pc \in {"sealing", "storing", "removing"}, GiveUp,
         UNCHANGED <<dirs, complete, mem>>
  PROVE  TypeOK' /\ SafeInv' /\ Visible' = Visible
<1> USE DEF GiveUp
<1>1. up
  BY DEF SafeInv, OperationInv
<1>2. TypeOK'
  BY DEF TypeOK
<1>3. /\ Visible' = Visible /\ Logged' = Logged
      /\ SegmentRows(manifest.refs)' = SegmentRows(manifest.refs)
      /\ SegmentRows(mem.refs)' = SegmentRows(mem.refs)
  BY DEF Visible, SegmentRows, Logged
<1>4. ListsInv'
  BY <1>3 DEF SafeInv, ListsInv
<1>5. OperationInv'
  BY <1>1 DEF OperationInv
<1> QED BY <1>2, <1>3, <1>4, <1>5 DEF SafeInv

LEMMA CrashSafe ==
  ASSUME TypeOK, SafeInv, Crash
  PROVE  TypeOK' /\ SafeInv' /\ Visible' = {}
<1> USE DEF Crash, disk
<1>1. TypeOK'
  <2>1. NewManifest \in ManifestType
    BY DEF ManifestType, NewManifest
  <2> QED BY <2>1 DEF TypeOK
<1>2. /\ Visible' = {} /\ Logged' = Logged
      /\ SegmentRows(manifest.refs)' = SegmentRows(manifest.refs)
  BY DEF Visible, SegmentRows, Logged
<1>3. ListsInv'
  BY <1>2 DEF SafeInv, ListsInv
<1>4. OperationInv'
  BY <1>2 DEF OperationInv
<1> QED BY <1>1, <1>2, <1>3, <1>4 DEF SafeInv

LEMMA SafeInit == Init => TypeOK /\ SafeInv
<1> SUFFICES ASSUME Init PROVE TypeOK /\ SafeInv
  OBVIOUS
<1> USE DEF Init
<1>1. NewManifest \in ManifestType /\ wal \in Seq(Batches)
  BY DEF NewManifest, ManifestType
<1>2. TypeOK
  BY <1>1 DEF TypeOK
<1>3. Visible = {} /\ manifest.refs = {} /\ SegmentRows(manifest.refs) = {}
  BY DEF Visible, SegmentRows, NewManifest
<1> QED BY <1>2, <1>3 DEF SafeInv, ListsInv, OperationInv

LEMMA SafeStutter ==
  ASSUME TypeOK, SafeInv, UNCHANGED vars
  PROVE  TypeOK' /\ SafeInv' /\ Visible' = Visible
<1> USE DEF vars, disk, memory
<1>1. /\ Visible' = Visible /\ Logged' = Logged
      /\ SegmentRows(manifest.refs)' = SegmentRows(manifest.refs)
      /\ SegmentRows(mem.refs)' = SegmentRows(mem.refs)
  BY DEF Visible, SegmentRows, Logged
<1>2. TypeOK' /\ ListsInv'
  BY <1>1 DEF SafeInv, ListsInv, TypeOK
<1>3. OperationInv'
  BY <1>1 DEF SafeInv, OperationInv, SegmentRows
<1> QED BY <1>1, <1>2, <1>3 DEF SafeInv

(* flush and compact begin, and what scans return stays.                   *)
LEMMA FlushCompactSafe ==
  ASSUME TypeOK, SafeInv, Flush \/ (\E ids \in SUBSET SegmentId : Compact(ids))
  PROVE  TypeOK' /\ SafeInv' /\ Visible' = Visible
<1>1. PICK ids \in SUBSET SegmentId :
        ids \subseteq sealed /\ up /\ pc = "idle" /\ BeginSegment(ids)
  <2>1. CASE Flush
    BY <2>1 DEF Flush
  <2>2. CASE \E ids \in SUBSET SegmentId : Compact(ids)
    BY <2>2 DEF Compact
  <2> QED BY <2>1, <2>2
<1>2. TypeOK' /\ SafeInv'
  BY <1>1, BeginSafe
<1>3. Visible' = Visible
  BY <1>1 DEF BeginSegment, Visible, SegmentRows
<1> QED BY <1>2, <1>3

(* The four errors of flush and compact. *)
Fails == SealFails \/ CountFails \/ StoreFails \/ RemoveFails

LEMMA FailsSafe ==
  ASSUME TypeOK, SafeInv, Fails
  PROVE  TypeOK' /\ SafeInv' /\ Visible' = Visible
<1>1. CASE CountFails
  BY <1>1, CountFailsSafe
<1>2. CASE SealFails \/ StoreFails \/ RemoveFails
  <2>1. /\ pc \in {"sealing", "storing", "removing"} /\ GiveUp
        /\ UNCHANGED <<dirs, complete, mem>>
    BY <1>2 DEF SealFails, StoreFails, RemoveFails
  <2> QED BY <2>1, GiveUpSafe
<1> QED BY <1>1, <1>2 DEF Fails

LEMMA SafeStep ==
  ASSUME TypeOK, SafeInv, [Next]_vars
  PROVE  TypeOK' /\ SafeInv'
<1>1. CASE Open
  BY <1>1, OpenSafe
<1>2. ASSUME NEW b \in Batches, LogBatch(b) PROVE TypeOK' /\ SafeInv'
  BY <1>2, LogBatchSafe
<1>3. CASE ShowBatch
  BY <1>3, ShowBatchSafe
<1>4. CASE Flush \/ (\E ids \in SUBSET SegmentId : Compact(ids))
  BY <1>4, FlushCompactSafe
<1>5. CASE SealSegment
  BY <1>5, SealSegmentSafe
<1>6. CASE StoreManifest
  BY <1>6, StoreManifestSafe
<1>7. ASSUME NEW id \in SegmentId, RemoveDir(id) PROVE TypeOK' /\ SafeInv'
  BY <1>7, RemoveDirSafe
<1>8. CASE Fails
  BY <1>8, FailsSafe
<1>9. CASE Crash
  BY <1>9, CrashSafe
<1>10. CASE LogTorn
  BY <1>10, LogTornSafe
<1>11. CASE UNCHANGED vars
  BY <1>11, SafeStutter
<1> QED BY <1>1, <1>2, <1>3, <1>4, <1>5, <1>6, <1>7, <1>8, <1>9, <1>10, <1>11 DEF Next, Fails

(* Types and SafeInv hold in every reachable state, whatever crashes and   *)
(* I/O errors happen.                                                      *)
THEOREM SafeInvariant == Spec => [](TypeOK /\ SafeInv)
<1>1. Init => TypeOK /\ SafeInv
  BY SafeInit
<1>2. TypeOK /\ SafeInv /\ [Next]_vars => (TypeOK /\ SafeInv)'
  BY SafeStep
<1> QED BY <1>1, <1>2, PTL DEF Spec

(* Every segment of the manifest on disk can be loaded: flush and compact  *)
(* store a manifest only when every directory it lists is whole, and       *)
(* remove a directory only when no list has it.                            *)
THEOREM ListedStayWhole == Spec => []ListedSegmentsWhole
<1>1. SafeInv => ListedSegmentsWhole
  BY DEF SafeInv, ListsInv, ListedSegmentsWhole, Loadable
<1> QED BY <1>1, SafeInvariant, PTL

(* What a scan returns changes by an append only. *)
LEMMA VisibleStep ==
  ASSUME TypeOK, SafeInv, Next, up, up'
  PROVE  Visible' = IF pc = "logged" THEN Visible \cup {pending} ELSE Visible
<1>1. CASE Open
  BY <1>1 DEF Open
<1>2. ASSUME NEW b \in Batches, LogBatch(b) PROVE Visible' = Visible /\ pc # "logged"
  BY <1>2 DEF LogBatch, Visible, SegmentRows
<1>3. CASE ShowBatch
  BY <1>3 DEF ShowBatch, disk, Visible, SegmentRows
<1>4. CASE Flush \/ (\E ids \in SUBSET SegmentId : Compact(ids))
  BY <1>4, FlushCompactSafe DEF Flush, Compact
<1>5. CASE SealSegment
  BY <1>5, SealSegmentSafe DEF SealSegment, FinishSegment
<1>6. CASE StoreManifest
  BY <1>6, StoreManifestSafe DEF StoreManifest
<1>7. ASSUME NEW id \in SegmentId, RemoveDir(id) PROVE Visible' = Visible /\ pc # "logged"
  BY <1>7, RemoveDirSafe DEF RemoveDir
<1>8. CASE Fails
  BY <1>8, FailsSafe DEF Fails, SealFails, CountFails, StoreFails, RemoveFails, FinishSegment
<1>9. CASE Crash
  BY <1>9 DEF Crash
<1>10. CASE LogTorn
  BY <1>10, LogTornSafe DEF LogTorn
<1> QED BY <1>1, <1>2, <1>3, <1>4, <1>5, <1>6, <1>7, <1>8, <1>9, <1>10 DEF Next, Fails

(* The new segment takes the place of active, or of what was compacted.    *)
LEMMA StoreManifestOnce ==
  ASSUME TypeOK, SafeInv, StoreManifest, VisibleOnce
  PROVE  VisibleOnce'
<1> DEFINE new == mem.next - 1
<1> USE DEF StoreManifest
<1>1. /\ new \notin sealed /\ chosen \subseteq sealed
      /\ dirs[new] = IF chosen = {} THEN active ELSE SegmentRows(chosen)
      /\ sealed' = (sealed \ chosen) \cup {new} /\ dirs' = dirs
  BY DEF SafeInv, OperationInv
<1> HIDE DEF new
<1>2. /\ \A i, j \in sealed : i # j => dirs[i] \cap dirs[j] = {}
      /\ \A i \in sealed : dirs[i] \cap active = {}
  BY DEF VisibleOnce, Separate, SegmentRows
<1>3. \A i \in sealed \ chosen : dirs[i] \cap dirs[new] = {}
  <2>1. CASE chosen = {}
    BY <1>1, <1>2, <2>1
  <2>2. CASE chosen # {}
    <3>1. dirs[new] = UNION {dirs[j] : j \in chosen}
      BY <1>1, <2>2 DEF SegmentRows
    <3> QED BY <1>1, <1>2, <3>1
  <2> QED BY <2>1, <2>2
<1>4. dirs[new] \cap active' = {}
  <2>1. CASE chosen = {}
    BY <2>1
  <2>2. CASE chosen # {}
    <3>1. dirs[new] = UNION {dirs[j] : j \in chosen} /\ active' = active
      BY <1>1, <2>2 DEF SegmentRows
    <3> QED BY <1>1, <1>2, <3>1
  <2> QED BY <2>1, <2>2
<1>5. active' \subseteq active
  OBVIOUS
<1>6. \A i, j \in sealed' : i # j => dirs'[i] \cap dirs'[j] = {}
  BY <1>1, <1>2, <1>3
<1>7. SegmentRows(sealed)' \cap active' = {}
  BY <1>1, <1>2, <1>4, <1>5 DEF SegmentRows
<1> QED BY <1>6, <1>7 DEF VisibleOnce, Separate

(* A step that changes no directory of the table and no field scans read.  *)
LEMMA SameRowsOnce ==
  ASSUME sealed' = sealed, active' = active,
         \A id \in sealed : dirs'[id] = dirs[id], VisibleOnce
  PROVE  VisibleOnce'
BY DEF VisibleOnce, Separate, SegmentRows

LEMMA VisibleOnceStep ==
  ASSUME TypeOK, SafeInv, Next, up, up', VisibleOnce
  PROVE  VisibleOnce'
<1>1. CASE Open
  BY <1>1 DEF Open
<1>2. ASSUME NEW b \in Batches, LogBatch(b) PROVE VisibleOnce'
  BY <1>2, SameRowsOnce DEF LogBatch
<1>3. CASE ShowBatch
  <2>1. pending \notin Visible
    BY <1>3 DEF ShowBatch, SafeInv, OperationInv
  <2>2. active' = active \cup {pending} /\ sealed' = sealed /\ dirs' = dirs
    BY <1>3 DEF ShowBatch, disk
  <2> QED BY <2>1, <2>2 DEF VisibleOnce, Separate, Visible, SegmentRows
<1>4. CASE Flush \/ (\E ids \in SUBSET SegmentId : Compact(ids))
  <2>1. UNCHANGED <<dirs, sealed, active>>
    BY <1>4 DEF Flush, Compact, BeginSegment
  <2> QED BY <2>1, SameRowsOnce
<1>5. CASE SealSegment \/ CountFails
  <2>1. FinishSegment /\ UNCHANGED <<sealed, active>>
    BY <1>5 DEF SealSegment, CountFails, GiveUp
  <2>2. sealed \in SUBSET SegmentId
    BY DEF TypeOK
  <2>3. \A id \in sealed : dirs'[id] = dirs[id]
    BY <2>1, <2>2, FinishSegmentFacts
  <2> QED BY <2>1, <2>3, SameRowsOnce
<1>6. CASE StoreManifest
  BY <1>6, StoreManifestOnce
<1>7. ASSUME NEW id \in SegmentId, RemoveDir(id) PROVE VisibleOnce'
  BY <1>7, SameRowsOnce DEF RemoveDir
<1>8. CASE SealFails \/ StoreFails \/ RemoveFails
  <2>1. UNCHANGED <<dirs, sealed, active>>
    BY <1>8 DEF SealFails, StoreFails, RemoveFails, GiveUp
  <2> QED BY <2>1, SameRowsOnce
<1>9. CASE Crash
  BY <1>9 DEF Crash
<1>10. CASE LogTorn
  BY <1>10, SameRowsOnce DEF LogTorn, memory
<1> QED BY <1>1, <1>2, <1>3, <1>4, <1>5, <1>6, <1>7, <1>8, <1>9, <1>10 DEF Next

(* No failed flush or compaction, in any order and number, hides a row     *)
(* from scans or shows one twice: only append changes what scans return.   *)
THEOREM ScansStayUndisturbed == Spec => ScansUndisturbed
<1> DEFINE Undisturbed ==
      up /\ up' =>
        /\ Visible' = IF pc = "logged" THEN Visible \cup {pending} ELSE Visible
        /\ VisibleOnce => VisibleOnce'
<1>1. TypeOK /\ SafeInv /\ [Next]_vars => [Undisturbed]_vars
  <2>1. ASSUME TypeOK, SafeInv, Next PROVE Undisturbed
    BY <2>1, VisibleStep, VisibleOnceStep
  <2> HIDE DEF Undisturbed
  <2> QED BY <2>1
<1> QED BY <1>1, SafeInvariant, PTL DEF Spec, ScansUndisturbed

(* Only a new segment is written, and its id is in no list.                *)
LEMMA DirsStep ==
  ASSUME TypeOK, SafeInv, Next, NEW id \in manifest.refs
  PROVE  dirs'[id] = dirs[id]
<1>1. CASE SealSegment \/ CountFails
  <2>1. FinishSegment /\ up
    BY <1>1 DEF SealSegment, CountFails, FinishSegment, SafeInv, OperationInv
  <2>2. id \in SegmentId
    BY DEF TypeOK, ManifestType
  <2> QED BY <2>1, <2>2, FinishSegmentFacts
<1>2. CASE ~ (SealSegment \/ CountFails)
  <2>1. dirs' = dirs
    BY <1>2 DEF Next, Open, LogBatch, LogTorn, ShowBatch, Flush, Compact, BeginSegment,
         StoreManifest, RemoveDir, SealFails, StoreFails, RemoveFails, GiveUp, Crash, disk
  <2> QED BY <2>1
<1> QED BY <1>1, <1>2

(* Segments are immutable while the manifest lists them.                   *)
THEOREM ListedStayImmutable == Spec => ListedImmutable
<1> DEFINE Immutable ==
      \A id \in manifest.refs \cap manifest'.refs : dirs'[id] = dirs[id] /\ id \in complete'
<1>1. TypeOK /\ SafeInv /\ [Next]_vars => [Immutable]_vars
  <2>1. ASSUME TypeOK, SafeInv, Next PROVE Immutable
    <3>1. SafeInv'
      BY <2>1, SafeStep
    <3>2. manifest'.refs \subseteq complete'
      BY <3>1 DEF SafeInv, ListsInv
    <3> QED BY <2>1, <3>2, DirsStep
  <2> HIDE DEF Immutable
  <2> QED BY <2>1
<1> QED BY <1>1, SafeInvariant, PTL DEF Spec, ListedImmutable

-----------------------------------------------------------------------------
(* As long as no call returns an I/O error: where every record is. *)

NoIoErrors == "io" \notin Failures

LEMMA RecordRanges ==
  ASSUME TypeOK, AppliedBoundary, found = Len(wal)
  PROVE  /\ Len(wal) \in Nat /\ DOMAIN wal = 1..Len(wal) /\ manifest.applied \in 0..Len(wal)
         /\ Unapplied = {wal[k] : k \in (manifest.applied + 1)..Len(wal)}
         /\ Logged = {wal[k] : k \in 1..manifest.applied} \cup Unapplied
<1>1. /\ Len(wal) \in Nat /\ DOMAIN wal = 1..Len(wal) /\ manifest.applied \in Nat
      /\ manifest.applied <= Len(wal)
  BY DEF TypeOK, ManifestType, AppliedBoundary
<1>2. {j \in DOMAIN wal : j > manifest.applied /\ j <= found} = (manifest.applied + 1)..Len(wal)
  BY <1>1
<1>3. DOMAIN wal = (1..manifest.applied) \cup ((manifest.applied + 1)..Len(wal))
  BY <1>1
<1> QED BY <1>1, <1>2, <1>3 DEF Unapplied, Logged

(* A record is applied or will be replayed, never both.                    *)
LEMMA RecoveredOnceLemma ==
  ASSUME TypeOK, ExactInv
  PROVE  RecoveredOnce
<1>1. /\ \A i, j \in 1..Len(wal) : wal[i] = wal[j] => i = j
      /\ SegmentRows(manifest.refs) = {wal[k] : k \in 1..manifest.applied}
      /\ Unapplied = {wal[k] : k \in (manifest.applied + 1)..Len(wal)}
      /\ Len(wal) \in Nat /\ manifest.applied \in 0..Len(wal)
  BY RecordRanges DEF ExactInv, AppliedBoundary
<1>2. SegmentRows(manifest.refs) \cap Unapplied = {}
  <2> SUFFICES ASSUME NEW i \in 1..manifest.applied,
                      NEW j \in (manifest.applied + 1)..Len(wal)
               PROVE  wal[i] # wal[j]
    BY <1>1
  <2>1. i \in 1..Len(wal) /\ j \in 1..Len(wal) /\ i # j
    BY <1>1
  <2> QED BY <1>1, <2>1
<1> QED BY <1>2 DEF RecoveredOnce, Separate, ExactInv

LEMMA LogBatchExact ==
  ASSUME TypeOK, SafeInv, ExactInv, NEW b \in Batches, LogBatch(b)
  PROVE  ExactInv'
<1> DEFINE n == Len(wal)
<1>1. /\ n \in Nat /\ DOMAIN wal = 1..n /\ manifest.applied \in 0..n
      /\ Unapplied = {wal[k] : k \in (manifest.applied + 1)..n}
  BY RecordRanges DEF ExactInv
<1>2. /\ wal' = Append(wal, b) /\ wal \in Seq(Batches)
      /\ found = n /\ found' = n + 1 /\ tail' = "whole"
      /\ UNCHANGED <<manifest, dirs, complete, up, mem, sealed, active, chosen>>
      /\ pending' = b /\ pc' = "logged" /\ pc = "idle" /\ up /\ b \notin Logged
  BY DEF LogBatch, TypeOK, ExactInv
<1>3. /\ DOMAIN wal' = 1..(n + 1) /\ Len(wal') = n + 1 /\ wal'[n + 1] = b
      /\ \A k \in 1..n : wal'[k] = wal[k]
  BY <1>1, <1>2
<1>4. \A k \in 1..n : wal[k] # b
  BY <1>1, <1>2 DEF Logged
<1> HIDE DEF n
<1>5. \A i, j \in DOMAIN wal' : wal'[i] = wal'[j] => i = j
  BY <1>1, <1>3, <1>4 DEF ExactInv
<1>6. SegmentRows(manifest.refs)' = SegmentRows(manifest.refs)
  BY <1>2 DEF SegmentRows
<1>7. {wal'[k] : k \in 1..manifest.applied} = {wal[k] : k \in 1..manifest.applied}
  BY <1>1, <1>3
<1>8. AppliedBoundary'
  BY <1>1, <1>2, <1>3, <1>6, <1>7 DEF ExactInv, AppliedBoundary
<1>9. Unapplied' = Unapplied \cup {b} /\ b \notin Unapplied
  <2>1. {j \in DOMAIN wal' : j > manifest.applied /\ j <= found'} =
          ((manifest.applied + 1)..n) \cup {n + 1}
    BY <1>1, <1>2, <1>3
  <2>2. Unapplied' = {wal'[k] : k \in ((manifest.applied + 1)..n) \cup {n + 1}}
    BY <1>2, <2>1 DEF Unapplied
  <2>3. \A k \in (manifest.applied + 1)..n : wal'[k] = wal[k] /\ wal[k] # b
    BY <1>1, <1>3, <1>4
  <2> QED BY <1>1, <1>3, <2>2, <2>3
<1>10. found' = Len(wal') /\ tail' = "whole"
  BY <1>2, <1>3
<1> QED BY <1>2, <1>5, <1>8, <1>9, <1>10 DEF ExactInv

(* Steps that leave the WAL, the manifest and the listed segments alone    *)
(* need only what is said of an open table.                                *)
OpenExact ==
  /\ sealed = manifest.refs
  /\ active = IF pc = "logged" THEN Unapplied \ {pending} ELSE Unapplied
  /\ pc = "logged" => pending \in Unapplied
  /\ pc # "storing" => mem = manifest
  /\ pc = "storing" =>
       /\ mem.next = manifest.next + 1
       /\ mem.applied = IF chosen = {} THEN Len(wal) ELSE manifest.applied
       /\ mem.refs = (manifest.refs \ chosen) \cup {manifest.next}

LEMMA DiskExact ==
  ASSUME ExactInv, wal' = wal, found' = found, tail' = tail, manifest' = manifest,
         \A id \in manifest.refs : dirs'[id] = dirs[id],
         up' => OpenExact'
  PROVE  ExactInv'
<1>1. SegmentRows(manifest.refs)' = SegmentRows(manifest.refs)
  BY DEF SegmentRows
<1>2. AppliedBoundary'
  BY <1>1 DEF ExactInv, AppliedBoundary
<1>3. \A i, j \in manifest'.refs : i # j => dirs'[i] \cap dirs'[j] = {}
  BY DEF ExactInv
<1>4. \A i, j \in DOMAIN wal' : wal'[i] = wal'[j] => i = j
  BY DEF ExactInv
<1> QED BY <1>2, <1>3, <1>4 DEF ExactInv, OpenExact

LEMMA SealSegmentExact ==
  ASSUME TypeOK, SafeInv, ExactInv, SealSegment
  PROVE  ExactInv'
<1>1. /\ FinishSegment /\ mem' = NextManifest /\ pc = "sealing" /\ pc' = "storing"
      /\ UNCHANGED <<wal, found, tail, manifest, up, sealed, active, pending, chosen>>
      /\ up /\ manifest.refs \in SUBSET SegmentId
  BY DEF SealSegment, FinishSegment, SafeInv, OperationInv, TypeOK, ManifestType
<1>2. \A id \in manifest.refs : dirs'[id] = dirs[id]
  BY <1>1, FinishSegmentFacts
<1>3. sealed = manifest.refs /\ active = Unapplied /\ mem = manifest /\ found = Len(wal)
  BY <1>1 DEF ExactInv
<1>4. Unapplied' = Unapplied
  BY <1>1 DEF Unapplied
<1>5. /\ mem'.next = manifest.next + 1
      /\ mem'.applied = IF chosen = {} THEN Len(wal) ELSE manifest.applied
      /\ mem'.refs = (manifest.refs \ chosen) \cup {manifest.next}
  <2>1. CASE chosen = {}
    BY <1>1, <1>3, <2>1 DEF NextManifest
  <2>2. CASE chosen # {}
    BY <1>1, <1>3, <2>2 DEF NextManifest
  <2> QED BY <2>1, <2>2
<1>6. OpenExact'
  BY <1>1, <1>3, <1>4, <1>5 DEF OpenExact
<1> QED BY <1>1, <1>2, <1>6, DiskExact

(* A flush moves every unapplied record into the new segment; a compaction *)
(* moves records from segments to a segment.                               *)
LEMMA StoreManifestExact ==
  ASSUME TypeOK, SafeInv, ExactInv, StoreManifest
  PROVE  ExactInv'
<1> DEFINE new == mem.next - 1
<1>1. /\ pc = "storing" /\ manifest' = mem /\ pc' \in {"idle", "removing"}
      /\ sealed' = (sealed \ chosen) \cup {new}
      /\ active' = (IF chosen = {} THEN {} ELSE active)
      /\ UNCHANGED <<wal, found, tail, dirs, complete, up, mem, pending, chosen>>
      /\ found = Len(wal) /\ tail = "whole"
  BY DEF StoreManifest, ExactInv
<1>2. /\ up /\ new \notin sealed /\ chosen \subseteq sealed
      /\ dirs[new] = IF chosen = {} THEN active ELSE SegmentRows(chosen)
  BY <1>1 DEF SafeInv, OperationInv
<1>3. /\ sealed = manifest.refs /\ active = Unapplied
      /\ mem.next = manifest.next + 1 /\ manifest.next \in Nat
      /\ mem.applied = (IF chosen = {} THEN Len(wal) ELSE manifest.applied)
      /\ mem.refs = (manifest.refs \ chosen) \cup {manifest.next}
  BY <1>1, <1>2 DEF ExactInv, TypeOK, ManifestType
<1>4. new = manifest.next
  BY <1>3
<1> HIDE DEF new
<1>5. manifest'.refs = sealed' /\ mem.refs = (sealed \ chosen) \cup {new}
  BY <1>1, <1>3, <1>4
<1>6. VisibleOnce'
  <2>1. VisibleOnce
    BY <1>3, RecoveredOnceLemma DEF VisibleOnce, RecoveredOnce
  <2> QED BY <2>1, StoreManifestOnce
<1>7. \A i, j \in manifest'.refs : i # j => dirs'[i] \cap dirs'[j] = {}
  BY <1>5, <1>6 DEF VisibleOnce, Separate
<1>8. SegmentRows(sealed)' = (IF chosen = {} THEN SegmentRows(sealed) \cup Unapplied
                                             ELSE SegmentRows(sealed))
  <2>1. CASE chosen = {}
    BY <1>1, <1>2, <1>3, <2>1 DEF SegmentRows
  <2>2. CASE chosen # {}
    BY <1>1, <1>2, <2>2 DEF SegmentRows
  <2> QED BY <2>1, <2>2
<1>9. /\ Len(wal) \in Nat /\ DOMAIN wal = 1..Len(wal) /\ manifest.applied \in 0..Len(wal)
      /\ SegmentRows(manifest.refs) = {wal[k] : k \in 1..manifest.applied}
      /\ Logged = {wal[k] : k \in 1..manifest.applied} \cup Unapplied
  BY RecordRanges DEF ExactInv, AppliedBoundary
<1>10. AppliedBoundary' /\ Unapplied' = active'
  <2>1. CASE chosen = {}
    <3>1. manifest'.applied = Len(wal) /\ SegmentRows(manifest.refs)' = Logged
      BY <1>1, <1>3, <1>5, <1>8, <1>9, <2>1 DEF SegmentRows
    <3>2. {j \in DOMAIN wal : j > Len(wal) /\ j <= found} = {}
      BY <1>9
    <3>3. Logged = {wal[k] : k \in 1..Len(wal)}
      BY <1>9 DEF Logged
    <3>4. Unapplied' = {} /\ active' = {}
      BY <1>1, <2>1, <3>1, <3>2 DEF Unapplied
    <3> QED BY <1>1, <1>9, <3>1, <3>3, <3>4 DEF AppliedBoundary
  <2>2. CASE chosen # {}
    <3>1. /\ manifest'.applied = manifest.applied
          /\ SegmentRows(manifest.refs)' = SegmentRows(manifest.refs)
      BY <1>1, <1>3, <1>5, <1>8, <2>2 DEF SegmentRows
    <3>2. Unapplied' = Unapplied /\ active' = active
      BY <1>1, <2>2, <3>1 DEF Unapplied
    <3>3. SegmentRows(manifest.refs)' = {wal'[k] : k \in 1..manifest'.applied}
      BY <1>1, <1>9, <3>1
    <3>4. manifest'.applied <= Len(wal')
      BY <1>1, <1>9, <3>1
    <3> QED BY <1>3, <3>2, <3>3, <3>4 DEF AppliedBoundary
  <2> QED BY <2>1, <2>2
<1>11. \A i, j \in DOMAIN wal' : wal'[i] = wal'[j] => i = j
  BY <1>1 DEF ExactInv
<1> QED BY <1>1, <1>5, <1>7, <1>10, <1>11 DEF ExactInv

LEMMA ExactStep ==
  ASSUME NoIoErrors, TypeOK, SafeInv, ExactInv, [Next]_vars
  PROVE  ExactInv'
<1>1. CASE Open
  <2>1. ~ up /\ pc = "idle" /\ UNCHANGED <<disk, pc>>
    BY <1>1 DEF Open, SafeInv, OperationInv
  <2>2. OpenExact'
    BY <1>1, <2>1 DEF Open, OpenExact, Unapplied, disk
  <2> QED BY <2>1, <2>2, DiskExact DEF disk
<1>2. ASSUME NEW b \in Batches, LogBatch(b) PROVE ExactInv'
  BY <1>2, LogBatchExact
<1>3. CASE ShowBatch
  <2>1. /\ up /\ UNCHANGED <<disk, up, mem, sealed, chosen>> /\ pc' = "idle"
        /\ active' = active \cup {pending} /\ pc = "logged"
    BY <1>3 DEF ShowBatch, SafeInv, OperationInv
  <2>2. OpenExact'
    BY <2>1 DEF ExactInv, OpenExact, Unapplied, disk
  <2> QED BY <2>1, <2>2, DiskExact DEF disk
<1>4. CASE Flush \/ (\E ids \in SUBSET SegmentId : Compact(ids))
  <2>1. /\ up /\ pc = "idle" /\ pc' = "sealing"
        /\ UNCHANGED <<wal, found, tail, manifest, dirs, up, mem, sealed, active, pending>>
    BY <1>4 DEF Flush, Compact, BeginSegment
  <2>2. OpenExact'
    BY <2>1 DEF ExactInv, OpenExact, Unapplied
  <2> QED BY <2>1, <2>2, DiskExact
<1>5. CASE SealSegment
  BY <1>5, SealSegmentExact
<1>6. CASE StoreManifest
  BY <1>6, StoreManifestExact
<1>7. ASSUME NEW id \in SegmentId, RemoveDir(id) PROVE ExactInv'
  <2>1. /\ up /\ pc = "removing" /\ pc' \in {"idle", "removing"}
        /\ UNCHANGED <<wal, found, tail, manifest, dirs, up, mem, sealed, active, pending>>
    BY <1>7 DEF RemoveDir, SafeInv, OperationInv
  <2>2. OpenExact'
    BY <2>1 DEF ExactInv, OpenExact, Unapplied
  <2> QED BY <2>1, <2>2, DiskExact
<1>8. CASE Fails
  BY <1>8 DEF Fails, SealFails, CountFails, StoreFails, RemoveFails, GiveUp, NoIoErrors
<1>9. CASE Crash
  BY <1>9, DiskExact DEF Crash, disk
<1>10. CASE LogTorn
  BY <1>10, FailuresAssumption DEF LogTorn, NoIoErrors
<1>11. CASE UNCHANGED vars
  <2>1. up' => OpenExact'
    BY <1>11 DEF vars, disk, memory, ExactInv, OpenExact, Unapplied
  <2> QED BY <1>11, <2>1, DiskExact DEF vars, disk, memory
<1> QED BY <1>1, <1>2, <1>3, <1>4, <1>5, <1>6, <1>7, <1>8, <1>9, <1>10, <1>11 DEF Next, Fails

(* Without I/O errors the records before the applied boundary are the rows *)
(* of the listed segments, and the others are the active ones.             *)
THEOREM ExactInvariant ==
  ASSUME NoIoErrors
  PROVE  Spec => [](TypeOK /\ SafeInv /\ ExactInv)
<1>1. Init => ExactInv
  <2> SUFFICES ASSUME Init PROVE ExactInv
    OBVIOUS
  <2>1. /\ wal = <<>> /\ found = Len(wal) /\ tail = "whole"
        /\ manifest = NewManifest /\ ~ up
    BY DEF Init
  <2>2. SegmentRows(manifest.refs) = {} /\ manifest.applied = 0 /\ manifest.refs = {}
    BY <2>1 DEF NewManifest, SegmentRows
  <2>3. AppliedBoundary
    BY <2>1, <2>2 DEF AppliedBoundary
  <2> QED BY <2>1, <2>2, <2>3 DEF ExactInv
<1>2. TypeOK /\ SafeInv /\ ExactInv /\ [Next]_vars => ExactInv'
  BY ExactStep
<1> QED BY <1>1, <1>2, SafeInvariant, PTL DEF Spec

(* No batch comes back twice from a reopen, at whatever step the process   *)
(* ended.                                                                  *)
THEOREM RecoversOnce ==
  ASSUME NoIoErrors
  PROVE  Spec => []RecoveredOnce
<1>1. TypeOK /\ ExactInv => RecoveredOnce
  BY RecoveredOnceLemma
<1> QED BY <1>1, ExactInvariant, PTL

(* wal_records_applied counts exactly the records the segments hold.       *)
THEOREM BoundaryIsExact ==
  ASSUME NoIoErrors
  PROVE  Spec => []AppliedBoundary
<1>1. ExactInv => AppliedBoundary
  BY DEF ExactInv
<1> QED BY <1>1, ExactInvariant, PTL

-----------------------------------------------------------------------------
(* The table implements DurableTable *)

LEMMA RecoverableIsLogged ==
  ASSUME TypeOK, ExactInv
  PROVE  Recoverable = Logged
BY RecordRanges DEF Recoverable, ExactInv, AppliedBoundary

LEMMA LogStep ==
  ASSUME TypeOK, SafeInv, ExactInv, TypeOK', ExactInv', NEW b \in Batches, LogBatch(b)
  PROVE  Durable!Log(b)
<1>1. Recoverable = Logged /\ Recoverable' = Logged'
  <2>1. (TypeOK /\ ExactInv => Recoverable = Logged)'
    BY RecoverableIsLogged, PTL
  <2> QED BY <2>1, RecoverableIsLogged
<1>2. Logged' = Logged \cup {b} /\ b \notin Logged /\ up /\ up' = up
  BY DEF LogBatch, Logged, TypeOK
<1>3. Visible' = Visible
  BY DEF LogBatch, Visible, SegmentRows
<1> QED BY <1>1, <1>2, <1>3 DEF Durable!Log

LEMMA ShowStep ==
  ASSUME TypeOK, SafeInv, ExactInv, ShowBatch
  PROVE  \E b \in Batches : Durable!Show(b)
<1>1. up /\ pending \in Recoverable /\ Logged \subseteq Batches
  BY RecoverableIsLogged DEF ShowBatch, SafeInv, OperationInv, Logged, TypeOK
<1>2. pending \in Batches
  BY <1>1, RecoverableIsLogged
<1>3. Visible' = Visible \cup {pending} /\ UNCHANGED <<Recoverable, up>>
  BY DEF ShowBatch, disk, Visible, Recoverable, SegmentRows, Unapplied
<1> QED BY <1>1, <1>2, <1>3 DEF Durable!Show

LEMMA CrashStep ==
  ASSUME TypeOK, SafeInv, Crash
  PROVE  Durable!Crash
<1>1. Recoverable' = Recoverable
  BY DEF Crash, disk, Recoverable, SegmentRows, Unapplied
<1> QED BY <1>1, CrashSafe DEF Crash, Durable!Crash

LEMMA ReopenStep ==
  ASSUME Open
  PROVE  Durable!Reopen
<1>1. Visible' = Recoverable /\ Recoverable' = Recoverable
  BY DEF Open, disk, Recoverable, Visible, SegmentRows, Unapplied
<1> QED BY <1>1 DEF Open, Durable!Reopen

(* Every step inside flush and compact changes nothing of the promise.     *)
LEMMA TidyStep ==
  ASSUME TypeOK, SafeInv, ExactInv, TypeOK', ExactInv', Visible' = Visible,
         UNCHANGED <<wal, up>>
  PROVE  UNCHANGED <<Recoverable, Visible, up>>
<1>1. (TypeOK /\ ExactInv => Recoverable = Logged)'
  BY RecoverableIsLogged, PTL
<1>2. Logged' = Logged
  BY DEF Logged
<1> QED BY <1>1, <1>2, RecoverableIsLogged

LEMMA DurableStep ==
  ASSUME NoIoErrors, TypeOK, SafeInv, ExactInv, [Next]_vars
  PROVE  [Durable!Next]_<<Recoverable, Visible, up>>
<1>1. TypeOK' /\ SafeInv' /\ ExactInv'
  BY SafeStep, ExactStep
<1>2. CASE Open
  BY <1>2, ReopenStep DEF Durable!Next
<1>3. ASSUME NEW b \in Batches, LogBatch(b) PROVE Durable!Next
  BY <1>1, <1>3, LogStep DEF Durable!Next
<1>4. CASE ShowBatch
  BY <1>4, ShowStep DEF Durable!Next
<1>5. CASE Flush \/ (\E ids \in SUBSET SegmentId : Compact(ids))
  <2>1. UNCHANGED <<wal, up>>
    BY <1>5 DEF Flush, Compact, BeginSegment
  <2> QED BY <1>1, <1>5, <2>1, FlushCompactSafe, TidyStep
<1>6. CASE SealSegment
  BY <1>1, <1>6, SealSegmentSafe, TidyStep DEF SealSegment
<1>7. CASE StoreManifest
  BY <1>1, <1>7, StoreManifestSafe, TidyStep DEF StoreManifest
<1>8. ASSUME NEW id \in SegmentId, RemoveDir(id)
      PROVE  UNCHANGED <<Recoverable, Visible, up>>
  BY <1>1, <1>8, RemoveDirSafe, TidyStep DEF RemoveDir
<1>9. CASE Fails
  BY <1>9 DEF Fails, SealFails, CountFails, StoreFails, RemoveFails, GiveUp, NoIoErrors
<1>10. CASE Crash
  BY <1>10, CrashStep DEF Durable!Next
<1>11. CASE LogTorn
  BY <1>11, FailuresAssumption DEF LogTorn, NoIoErrors
<1>12. CASE UNCHANGED vars
  BY <1>1, <1>12, SafeStutter, TidyStep DEF vars, disk, memory
<1> QED BY <1>2, <1>3, <1>4, <1>5, <1>6, <1>7, <1>8, <1>9, <1>10, <1>11, <1>12 DEF Next, Fails

(* As long as no call returns an I/O error, a table keeps the promise of   *)
(* DurableTable, wherever a crash falls.                                   *)
THEOREM ImplementsDurable ==
  ASSUME NoIoErrors
  PROVE  Spec => ImplementsDurableTable
<1>1. Init => Durable!Init
  <2> SUFFICES ASSUME Init PROVE Durable!Init
    OBVIOUS
  <2>1. wal = <<>> /\ sealed = {} /\ active = {} /\ manifest.refs = {} /\ up = FALSE
    BY DEF Init, NewManifest
  <2>2. Visible = {} /\ Recoverable = {}
    BY <2>1 DEF Visible, Recoverable, SegmentRows, Unapplied
  <2> QED BY <2>1, <2>2 DEF Durable!Init
<1>2. TypeOK /\ SafeInv /\ ExactInv /\ [Next]_vars => [Durable!Next]_<<Recoverable, Visible, up>>
  BY DurableStep
<1> QED BY <1>1, <1>2, ExactInvariant, PTL
        DEF Spec, Durable!Spec, Durable!vars, ImplementsDurableTable
=============================================================================
