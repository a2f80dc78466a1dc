----------------------------- MODULE TableStore -----------------------------
(***************************************************************************)
(* bypass-db/src/table.rs with the manifest and the segment directories of *)
(* bypass-db/src/segment.rs: append, flush, compact and open of one table, *)
(* with a crash possible between any two writes that reach the file system *)
(* and, when Failures says so, an I/O error from any call and a write of   *)
(* the WAL that fails after a part of its record.                          *)
(*                                                                         *)
(* A batch is a member of Batches, logged at most once, with its columns   *)
(* in the schema's order (module TableScan has the others, which open may  *)
(* not be able to decode); a segment is the set of batches sealed into it. *)
(* Of the WAL the module keeps the whole records, how many of them come    *)
(* before the first torn one, and what a reader makes of that one; module  *)
(* Wal has its bytes.  Data that reached the file system survives a crash  *)
(* of the process.  A call that fails before it has changed anything, as   *)
(* an append that wrote nothing or an open whose directory cannot be read, *)
(* is a stuttering step.                                                   *)
(***************************************************************************)
EXTENDS Naturals, Sequences

CONSTANTS
  Batches,      \* the batches the callers append, none empty
  NoBatch,      \* no append is under way
  MaxSegments,  \* bound: segment ids are 1..MaxSegments
  Failures      \* which of "crash", "io" and "torn" may happen

ASSUME NoBatchAssumption == NoBatch \notin Batches
ASSUME MaxSegmentsAssumption == MaxSegments \in Nat
(* A torn write is an I/O error of append. *)
ASSUME FailuresAssumption ==
  /\ Failures \subseteq {"crash", "io", "torn"}
  /\ "torn" \in Failures => "io" \in Failures

VARIABLES
  wal,       \* disk: the whole records of WAL/wal-000000.log
  found,     \* disk: how many of them come before the first torn record
  tail,      \* disk: "whole" when none is torn, else what the first torn one is to a
             \*   reader: the end of the log, as it was cut in its "magic", or in its
             \*   "header" with too few bytes behind it; or an error, cut in its "body"
  manifest,  \* disk: manifest.json
  dirs,      \* disk: per segment id, what its column files hold
  complete,  \* disk: the ids whose directory is written and not removed
  up,        \* the table is open
  mem,       \* memory: the field manifest of Table
  sealed,    \* memory: the ids in the field sealed
  active,    \* memory: the batches of the field active
  pc,        \* memory: where the running operation is
  pending,   \* memory: the batch append is working on
  chosen     \* memory: the ids compact is replacing; none during a flush

disk == <<wal, found, tail, manifest, dirs, complete>>
memory == <<up, mem, sealed, active, pc, pending, chosen>>
vars == <<disk, memory>>

SegmentId == 1..MaxSegments

NewManifest == [applied |-> 0, next |-> 1, refs |-> {}]

Logged == {wal[k] : k \in DOMAIN wal}
Unapplied == {wal[k] : k \in {j \in DOMAIN wal : j > manifest.applied /\ j <= found}}
SegmentRows(ids) == UNION {dirs[id] : id \in ids}

Init ==
  /\ wal = <<>>
  /\ found = 0
  /\ tail = "whole"
  /\ manifest = NewManifest
  /\ dirs = [id \in SegmentId |-> {}]
  /\ complete = {}
  /\ up = FALSE
  /\ mem = NewManifest
  /\ sealed = {}
  /\ active = {}
  /\ pc = "idle"
  /\ pending = NoBatch
  /\ chosen = {}

-----------------------------------------------------------------------------
(* open *)

Loadable == manifest.refs \subseteq complete

(* Every reader of the WAL fails on a record torn behind its header.       *)
WalReadable == tail # "body"

(* open loads every listed segment, stores the manifest it has just read,  *)
(* and replays the records the manifest does not count as applied, of      *)
(* those before the first torn one.  It fails, and changes nothing, when a *)
(* segment cannot be loaded or the WAL cannot be read.                     *)
Open ==
  /\ ~ up
  /\ Loadable
  /\ WalReadable
  /\ up' = TRUE
  /\ mem' = manifest
  /\ sealed' = manifest.refs
  /\ active' = Unapplied
  /\ UNCHANGED <<disk, pc, pending, chosen>>

-----------------------------------------------------------------------------
(* append: the WAL, then memory *)

(* Behind a torn record no reader finds the new one; behind a torn header  *)
(* its bytes are read as those of the torn record.                         *)
LogBatch(b) ==
  /\ up /\ pc = "idle"
  /\ b \notin Logged
  /\ wal' = Append(wal, b)
  /\ found' = IF tail = "whole" THEN found + 1 ELSE found
  /\ tail' = IF tail = "header" THEN "body" ELSE tail
  /\ pending' = b
  /\ pc' = "logged"
  /\ UNCHANGED <<manifest, dirs, complete, up, mem, sealed, active, chosen>>

ShowBatch ==
  /\ pc = "logged"
  /\ active' = active \cup {pending}
  /\ pending' = NoBatch
  /\ pc' = "idle"
  /\ UNCHANGED <<disk, up, mem, sealed, chosen>>

(* The write fails after a part of the record: append returns the error,   *)
(* and the part stays in the file.  (With a crash behind it, this is also  *)
(* a process that dies inside write_all.)  Only the first torn record      *)
(* counts, or one that gives a torn header the bytes it lacked.            *)
LogTorn ==
  /\ "torn" \in Failures
  /\ up /\ pc = "idle"
  /\ Batches \ Logged # {}
  /\ \/ tail = "whole" /\ tail' \in {"magic", "header", "body"}
     \/ tail = "header" /\ tail' = "body"
  /\ UNCHANGED <<wal, found, manifest, dirs, complete, memory>>

-----------------------------------------------------------------------------
(* flush and compact: write a segment, store the manifest, then tidy up *)

(* A directory of that id left behind by an earlier life is overwritten.   *)
BeginSegment(ids) ==
  /\ mem.next \in SegmentId
  /\ complete' = complete \ {mem.next}
  /\ chosen' = ids
  /\ pc' = "sealing"
  /\ UNCHANGED <<wal, found, tail, manifest, dirs, up, mem, sealed, active, pending>>

Flush ==
  /\ up /\ pc = "idle"
  /\ active # {}
  /\ BeginSegment({})

(* Asking for an id that is not sealed is an error and changes nothing.    *)
Compact(ids) ==
  /\ up /\ pc = "idle"
  /\ ids # {} /\ ids \subseteq sealed
  /\ BeginSegment(ids)

(* Mutants: flush does not count what it sealed; compact counts what it    *)
(* did not seal.                                                           *)
NextManifestUncounted ==
  [applied |-> mem.applied, next |-> mem.next + 1,
   refs |-> IF chosen = {} THEN mem.refs \cup {mem.next}
                           ELSE (sealed \ chosen) \cup {mem.next}]

NextManifestOvercounted ==
  [applied |-> found, next |-> mem.next + 1,
   refs |-> IF chosen = {} THEN mem.refs \cup {mem.next}
                           ELSE (sealed \ chosen) \cup {mem.next}]

(* compact rebuilds the list of segments from the field sealed, flush adds *)
(* to the list of the manifest in memory and counts the records it finds   *)
(* in the WAL.                                                             *)
NextManifest ==
  IF chosen = {}
    THEN [applied |-> found, next |-> mem.next + 1, refs |-> mem.refs \cup {mem.next}]
    ELSE [applied |-> mem.applied, next |-> mem.next + 1,
          refs |-> (sealed \ chosen) \cup {mem.next}]

(* Mutant: compact writes over one of the segments it replaces.            *)
FinishSegmentInPlace ==
  LET id == IF chosen = {} THEN mem.next ELSE CHOOSE i \in chosen : TRUE
  IN  /\ pc = "sealing"
      /\ dirs' = [dirs EXCEPT ![id] = IF chosen = {} THEN active ELSE SegmentRows(chosen)]
      /\ complete' = complete \cup {mem.next}

FinishSegment ==
  /\ pc = "sealing"
  /\ dirs' = [dirs EXCEPT ![mem.next] = IF chosen = {} THEN active ELSE SegmentRows(chosen)]
  /\ complete' = complete \cup {mem.next}

(* Mutants: the replaced directories go before the manifest is stored; the *)
(* fields of the table move on before it is.                               *)
SealSegmentAndRemove ==
  /\ pc = "sealing"
  /\ chosen = {} => WalReadable
  /\ dirs' = [dirs EXCEPT ![mem.next] = IF chosen = {} THEN active ELSE SegmentRows(chosen)]
  /\ complete' = (complete \ chosen) \cup {mem.next}
  /\ mem' = NextManifest
  /\ pc' = "storing"
  /\ UNCHANGED <<wal, found, tail, manifest, up, sealed, active, pending, chosen>>

SealSegmentAndShow ==
  /\ FinishSegment
  /\ chosen = {} => WalReadable
  /\ mem' = NextManifest
  /\ sealed' = (sealed \ chosen) \cup {mem.next}
  /\ pc' = "storing"
  /\ UNCHANGED <<wal, found, tail, manifest, up, active, pending, chosen>>

SealSegment ==
  /\ FinishSegment
  /\ chosen = {} => WalReadable
  /\ mem' = NextManifest
  /\ pc' = "storing"
  /\ UNCHANGED <<wal, found, tail, manifest, up, sealed, active, pending, chosen>>

(* Mutant: a compaction forgets the active rows.                           *)
StoreManifestClearingActive ==
  /\ pc = "storing"
  /\ manifest' = mem
  /\ sealed' = (sealed \ chosen) \cup {mem.next - 1}
  /\ active' = {}
  /\ pc' = IF chosen = {} THEN "idle" ELSE "removing"
  /\ UNCHANGED <<wal, found, tail, dirs, complete, up, mem, pending, chosen>>

(* The new manifest is renamed over the old one in one step; only then     *)
(* does the table itself move on.                                          *)
StoreManifest ==
  /\ pc = "storing"
  /\ manifest' = mem
  /\ sealed' = (sealed \ chosen) \cup {mem.next - 1}
  /\ active' = IF chosen = {} THEN {} ELSE active
  /\ pc' = IF chosen = {} THEN "idle" ELSE "removing"
  /\ UNCHANGED <<wal, found, tail, dirs, complete, up, mem, pending, chosen>>

RemoveDir(id) ==
  /\ pc = "removing"
  /\ id \in chosen
  /\ complete' = complete \ {id}
  /\ chosen' = chosen \ {id}
  /\ pc' = IF chosen = {id} THEN "idle" ELSE "removing"
  /\ UNCHANGED <<wal, found, tail, manifest, dirs, up, mem, sealed, active, pending>>

-----------------------------------------------------------------------------
(* failures *)

(* The operation returns an error; what it did so far stays.               *)
GiveUp ==
  /\ "io" \in Failures
  /\ pc' = "idle"
  /\ chosen' = {}
  /\ UNCHANGED <<wal, found, tail, manifest, up, sealed, active, pending>>

SealFails == pc = "sealing" /\ GiveUp /\ UNCHANGED <<dirs, complete, mem>>

(* flush reads the WAL back to count its records after it has listed the   *)
(* new segment in memory: the one way out when the WAL cannot be read.     *)
CountFails ==
  /\ chosen = {}
  /\ FinishSegment
  /\ GiveUp
  /\ mem' = [mem EXCEPT !.next = @ + 1, !.refs = @ \cup {mem.next}]

StoreFails == pc = "storing" /\ GiveUp /\ UNCHANGED <<dirs, complete, mem>>

RemoveFails == pc = "removing" /\ GiveUp /\ UNCHANGED <<dirs, complete, mem>>

(* The process ends, at the end of an operation or inside one.             *)
Crash ==
  /\ "crash" \in Failures
  /\ up
  /\ up' = FALSE
  /\ mem' = NewManifest
  /\ sealed' = {}
  /\ active' = {}
  /\ pc' = "idle"
  /\ pending' = NoBatch
  /\ chosen' = {}
  /\ UNCHANGED disk

-----------------------------------------------------------------------------
Next ==
  \/ Open
  \/ \E b \in Batches : LogBatch(b)
  \/ LogTorn
  \/ ShowBatch
  \/ Flush
  \/ \E ids \in SUBSET SegmentId : Compact(ids)
  \/ SealSegment
  \/ StoreManifest
  \/ \E id \in SegmentId : RemoveDir(id)
  \/ SealFails \/ CountFails \/ StoreFails \/ RemoveFails
  \/ Crash

Spec == Init /\ [][Next]_vars

-----------------------------------------------------------------------------
(* Properties *)

ManifestType == [applied : Nat, next : Nat \ {0}, refs : SUBSET SegmentId]

(* Types of the files and of the fields of Table.                          *)
TypeOK ==
  /\ wal \in Seq(Batches)
  /\ found \in Nat
  /\ tail \in {"whole", "magic", "header", "body"}
  /\ manifest \in ManifestType
  /\ dirs \in [SegmentId -> SUBSET Batches]
  /\ complete \in SUBSET SegmentId
  /\ up \in BOOLEAN
  /\ mem \in ManifestType
  /\ sealed \in SUBSET SegmentId
  /\ active \in SUBSET Batches
  /\ pc \in {"idle", "logged", "sealing", "storing", "removing"}
  /\ pending \in Batches \cup {NoBatch}
  /\ chosen \in SUBSET SegmentId

(* What open would bring back, and what a scan returns now.                *)
Recoverable == SegmentRows(manifest.refs) \cup Unapplied
Visible == SegmentRows(sealed) \cup active

(* No segment listed in the manifest on disk is missing or half written,   *)
(* whatever failed before and wherever a crash falls between the writes of *)
(* a segment, the manifest and the removal of directories: of the calls of *)
(* open, the loading of the segments never fails on what is on disk.       *)
(* (Reading the WAL may: see WalReadable.)                                 *)
ListedSegmentsWhole == Loadable

(* Ids in ids hold different batches, and none of rest.                    *)
Separate(ids, rest) ==
  /\ \A i, j \in ids : i # j => dirs[i] \cap dirs[j] = {}
  /\ SegmentRows(ids) \cap rest = {}

(* No batch would come back twice from a reopen, as a row of two segments  *)
(* or as a row of a segment that is also replayed from the WAL.            *)
RecoveredOnce == Separate(manifest.refs, Unapplied)

(* No scan returns a batch twice.                                          *)
VisibleOnce == Separate(sealed, active)

(* wal_records_applied is the number of WAL records already represented    *)
(* by sealed segments (segment.rs): the listed segments hold the first     *)
(* wal_records_applied records and no others.                              *)
AppliedBoundary ==
  /\ manifest.applied <= Len(wal)
  /\ SegmentRows(manifest.refs) = {wal[k] : k \in 1..manifest.applied}

(* A listed segment is immutable: as long as the manifest lists it, no     *)
(* step of a flush, of a compaction or of their leftovers touches it.      *)
ListedImmutable ==
  [][\A id \in manifest.refs \cap manifest'.refs :
       dirs'[id] = dirs[id] /\ id \in complete']_vars

(* The promise of DurableTable, at every step of every operation.          *)
Durable == INSTANCE DurableTable WITH rows <- Recoverable, view <- Visible, open <- up

ImplementsDurableTable == Durable!Spec

(* Nothing but an append changes what scans return as long as the process *)
(* lives, whatever fails in flush or compact and on whatever state an      *)
(* earlier failure left: no row is lost, and none is returned twice that   *)
(* was not before.                                                         *)
ScansUndisturbed ==
  [][up /\ up' =>
       /\ Visible' = IF pc = "logged" THEN Visible \cup {pending} ELSE Visible
       /\ VisibleOnce => VisibleOnce']_vars

-----------------------------------------------------------------------------
(* The inductive invariants behind the safety properties *)

(* Listed segments, on disk and in memory, are whole, hold logged batches  *)
(* and have ids below the next one.                                        *)
ListsInv ==
  /\ manifest.refs \subseteq complete
  /\ SegmentRows(manifest.refs) \subseteq Logged
  /\ \A id \in manifest.refs : id < manifest.next
  /\ up =>
       /\ mem.refs \cup sealed \subseteq complete
       /\ SegmentRows(mem.refs) \cup Visible \subseteq Logged
       /\ \A id \in manifest.refs \cup mem.refs \cup sealed : id < mem.next

(* Where an operation is, and what it has prepared.                        *)
OperationInv ==
  /\ ~ up => pc = "idle" /\ Visible = {}
  /\ pc = "logged" => pending \in Logged \ Visible
  /\ pc = "sealing" => mem.next \in SegmentId /\ chosen \subseteq sealed
  /\ pc = "storing" =>
       /\ mem.next - 1 \in complete \ sealed
       /\ chosen \subseteq sealed
       /\ dirs[mem.next - 1] = IF chosen = {} THEN active ELSE SegmentRows(chosen)
       /\ chosen # {} => mem.refs = (sealed \ chosen) \cup {mem.next - 1}
  /\ pc = "removing" => chosen \cap (manifest.refs \cup mem.refs \cup sealed) = {}

(* Holds whatever fails.                                                   *)
SafeInv == ListsInv /\ OperationInv

(* Holds as long as no call returns an I/O error: memory and disk agree    *)
(* but for the manifest about to be stored and the batch about to be       *)
(* shown, and every record is in one place.                                *)
ExactInv ==
  /\ \A i, j \in DOMAIN wal : wal[i] = wal[j] => i = j
  /\ found = Len(wal) /\ tail = "whole"
  /\ AppliedBoundary
  /\ \A i, j \in manifest.refs : i # j => dirs[i] \cap dirs[j] = {}
  /\ up =>
       /\ sealed = manifest.refs
       /\ active = IF pc = "logged" THEN Unapplied \ {pending} ELSE Unapplied
       /\ pc = "logged" => pending \in Unapplied
       /\ pc # "storing" => mem = manifest
       /\ pc = "storing" =>
            /\ mem.next = manifest.next + 1
            /\ mem.applied = IF chosen = {} THEN Len(wal) ELSE manifest.applied
            /\ mem.refs = (manifest.refs \ chosen) \cup {manifest.next}
=============================================================================
