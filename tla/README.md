# A TLA+ development of bypass-io

bypass-io is a Rust workspace of three crates. `bypass-io` is a library for
storage and packet I/O that goes around the kernel: lock-free rings, buffers in
huge pages, a busy-polling reactor, and backends for io_uring, SPDK (NVMe) and
DPDK (packets). `bypass-db` is an embedded columnar table for time series with a
write-ahead log and immutable column segments. `bypass-cli` is a command line
over both. This directory holds TLA+ models of the parts that are hard to test,
the TLC runs that check them and the theorems that the TLA+ proof system checks.

## 1. The system

Paths are relative to the repository root: `io/` stands for
`bypass-io/src/`, `db/` for `bypass-db/src/`.

| Component | State | Operations | What makes it correct | Module |
|---|---|---|---|---|
| MPSC ring, `io/ring/mpsc.rs` | counters `head`, `tail`; per slot a flag `ready` and a cell | `push` (many threads), `pop` (one), `len`, drop | no slot is used by two at once; FIFO in the order of reservation; no spurious refusal; nothing lost, nothing dropped twice; right across the wraparound of the counters | `MpscRing`, `MpscReordered` |
| SPSC ring, `io/ring/spsc.rs` | counters `head`, `tail`, cells | `push`, `pop` (one thread each), `len`, drop | the same, without flags | `SpscRing` |
| Table storage, `db/table.rs`, `db/segment.rs` | on disk WAL, `manifest.json`, segment directories; in memory manifest, sealed segments, active batch | `open`, `append`, `flush`, `compact` | every acknowledged batch is there exactly once, after any crash and any failed call; listed segments never change | `DurableTable`, `TableStore` |
| Table scans, same files | columnar rows, order of segments, least and greatest timestamp of each | `scan_time_range`, `scan_where`, and the operations above | a scan shows exactly the rows of its range in every column; no row lost, doubled or (for neighbours) moved | `TableScan` |
| Scan results and filters, `db/scan.rs` | none (values) | row selections, chunks, grouping, vectorised filters, predicates | a selection names the rows it was built from; vectors and their remainders equal the plain comparison | `ScanResult` |
| Batches, schema, encoding, `db/batch.rs`, `db/schema.rs`, `db/table.rs:342-591` | columns of a batch | `append`, `take_indices`, `build`, `Schema::new`, `encode_batch`, `decode_batch` | columns stay of one length; what was logged can be replayed | `Columns` |
| Write-ahead log, `db/wal.rs` | one file of records; `next_seq_no` | `append`, `open`, `records`, `reset`, `sync` | a crash inside a write costs at most that record; loss is reported | `Wal` |
| SPDK backend, `io/backend/spdk.rs` | environment, controllers, queue pairs behind mutexes; a completion record on the stack of each call | `probe_and_init`, `read`, `write`, `readv`, `writev`, `flush`, `process_completions`, drop | only whole blocks of the namespace and DMA memory are submitted; a call returns Ok for its own command; SPDK never holds a context whose call has returned; the mutex is released | `SpdkQueuePair`, `NvmeRequest`, `SpdkRuntime` |
| io_uring backend, `io/backend/uring.rs` | submission and completion queue behind a mutex; `next_token` | `read_at`, `write_at`, `readv_at`, `writev_at`, `fsync` | a call returns the result of its own operation, whatever earlier calls left in the ring; the ring neither fills up nor stays locked | `UringBackend` |
| DPDK backend, `io/backend/dpdk.rs` | EAL, one mempool, the port's queues, vectors of mbufs in calls | init, `rx_burst`, `tx_burst`, `readv`, `writev`, `flush`, `join_multicast`, packet parsers | every mbuf has one owner and goes back, also when a batch fails halfway; a call reports what moved | `DpdkPort`, `Packet` |
| Buffer pool, `io/buf/pool.rs` | a concurrent list of free buffers (crossbeam's `SegQueue`), a counter `available` | `new`, `acquire`, drop of a handle and of the pool | no buffer lent twice, all come back, the counter agrees when nobody is inside | `BufPool` |
| Huge page buffers, `io/buf/hugepage.rs` | one mapping each | allocation with its fallbacks, drop | every mapping made is unmapped once, by whoever gave it | `BufPool` |
| Poll reactor, `io/reactor/poll.rs`, `affinity.rs` | the thread, a stop flag, a share of the backend | `spawn`, `run`, `shutdown` | the thread stops when asked, and the backend outlives it | `SpdkRuntime` |
| Configuration, I/O vectors, backend trait, command line, build script and C shims | none that changes | parsing, declarations, printing | - | not modelled (section 7) |

How they meet: `Table` calls `WalWriter`, `WalReader`, `Manifest` and
`ImmutableSegment`, all in the thread of its caller (`&mut self`), so the only
concurrency of the database is with crashes and failing calls. The buffer pool
asks SPDK for memory once `probe_and_init` has set a flag; requests to SPDK take
pooled buffers; the reactor shares the backend it polls. The
backends are shared between threads by `Arc` and serialise on a mutex; SPDK calls
back into the program on whatever thread polls the queue pair. What is hard,
therefore: the interleavings of the rings, with wraparound; crashes and errors
between the writes of the database; and, in the backends, calls that return or fail
halfway while the device, the driver or the kernel still holds something of theirs.

## 2. The modules

Rings

- `RingIndex` - the arithmetic of both rings: counters that wrap around, masking.
- `BoundedFifo` - abstract: what a bounded ring promises its callers.
- `MpscRing` - each access to an atomic or a cell by `push`, `pop` and drop is
  one action. `phase[p]` is the place of producer `p` in `push`, `myHead[p]` its
  local `head`. The loop of `push` is LoadHead, LoadTail (which may return the
  item: full), Reserve or LoseRace (`compare_exchange_weak`, which may fail for
  no reason), WriteSlot, Publish; `pop` is PopLoadHead, CheckReady, ReadSlot,
  ClearReady, AdvanceTail. `queue` and `stale` are history.
- `MpscReordered` - `MpscRing` with the two loads of `push` out of order.
- `SpscRing` - the same for the ring with one producer.

Database

- `DurableTable` - abstract: a table as a set of batches that survives crashes.
- `TableStore` - `append` is LogBatch, ShowBatch; `flush` and `compact` are
  Flush or Compact, SealSegment, StoreManifest, and for `compact` one RemoveDir
  per replaced directory; a Crash may come between any two, and with "io" every
  call may return an error and leave what it has done. With "torn" a failed write of
  the WAL may leave a part of its record (LogTorn): `found` is the number of whole
  records before the first torn one, and `tail` says whether a reader takes that one
  for the end of the log or fails on it. In the second case `open` (Open needs
  WalReadable) and the count of `flush` (CountFails) always fail. The difference that
  matters is kept: `flush` adds to the manifest in memory, `compact` rebuilds the
  manifest's list from the field `sealed`.
- `Columns` - schemas, batches, payloads and column files, as values with the
  errors of the code: the two appends of `batch.rs` (the columns before the one
  that does not match stay appended), the checks of the builder, `encode_batch`
  and `decode_batch`, and the length checks of mapped columns.
- `ScanResult` - selections with their three shapes, chunks, `append`,
  `take_indices`, and the filters: whole vectors of `LaneWidth` values first, the
  rest one by one, NaN never selected.
- `TableScan`, `MCTableScan` - a table over both, one step per operation and
  without failures: callers build batches well or with one fault, for the table's
  schema or for another, and every range and predicate is asked in every state.
- `Wal`, `MCWal` - the log as a sequence of records, each with its place in the
  file (`at`), of which an interrupted write leaves only some bytes. OpenWriter,
  AppendOk, AppendFails, WriterDies; Reset, and ResetFails, after which the file is
  empty and the numbers go on.

Backends

- `SpdkQueuePair` - a call is Begin, then per segment Refuse, SubmitFails or
  Submit, Poll until the completion is done (or PollFails, TimeOut), NextSegment,
  ReturnOk, ReturnFailed; the device finishes commands at will. A completion of
  a call that has returned is written where its frame was: into nothing, or into
  the completion of a later call of the same thread (`hits`).
- `NvmeRequest` - `prepare_io` and `lba_range`: byte offsets and lengths to block
  ranges with every check, and the ranges of segments.
- `BufPool` - one call of the operating system per step while the pool is built;
  `acquire` and drop in their two steps, list and counter; handles that outlive
  the pool.
- `SpdkRuntime`, `MCSpdkRuntime` - extends both: `probe_and_init` call by call, a
  request with the buffers a thread holds, and a reactor as second owner of the
  backend. What a command does after submission is SpdkQueuePair's.
- `UringBackend` - a call is TakeToken, Push or WouldBlock, Enter (or EnterFails,
  EnterPartly), then Wake or Interrupted, both of which search the completion
  queue (Reap); the kernel finishes operations at will.
- `DpdkPort`, `MCDpdkPort` - per mbuf its owner and its packet. Sending is
  BeginSend, then per packet AllocMbuf (or NoMbufForPacket, RejectPacket, which
  fail the batch), Burst, FreeUnsent; receiving is BeginReceive, Receive, and per
  packet CopyAndFree. The port takes and gives at will.
- `Packet` - what the Ethernet, IPv4 and UDP parsers say of a frame.

Proofs: `RingIndexTheorems`, `MpscRingProofs`, `SpscRingProofs`, `DatabaseProofs`
(about `TableStore` and `Wal`), `TableScanProofs` (about `Columns`, `ScanResult` and
`TableScan`), `UringBackendProofs`, `SpdkProofs` (about `SpdkQueuePair`, and about
`BufPool`, `NvmeRequest` and `SpdkRuntime`) and `DpdkPortProofs` (section 5).

Operators whose comment begins with "Mutant" are deliberate mistakes in the code;
each property has one that breaks it. They are used by no specification.

## 3. The runs

| Run | Instance | Question and answer |
|---|---|---|
| `mpsc` | 2 producers x 4 pushes, 2 slots, counters modulo 6 | Does the ring keep its SAFETY comments, refuse only when full, drop what is unread, implement `BoundedFifo` and deliver? Yes. 170,512 states. |
| `spsc` | 10 pushes, 2 slots, counters modulo 4 | The same questions for the other ring. Yes. |
| `table_crash` | 3 batches, 5 segment ids, crashes | Does the table implement `DurableTable`: nothing lost, nothing twice, the manifest counts exactly what the segments hold? Yes. |
| `table_faults` | 3 batches, 4 segment ids, crashes, I/O errors and torn WAL records | Are listed segments always whole and unchanged, and do failed calls leave scans of the living process alone? Yes. 838,439 states. |
| `table_loss` | 3 batches, 4 segment ids, I/O errors | Does the manifest count exactly what the segments hold? **No** (section 6). |
| `table_scan` | 4 columns, one of each type; 3 times, 4 rows, 4 segment ids, 9 predicates | Do scans and filters show exactly the rows they should, does every row stay, does a reopen replay exactly the active rows, do neighbours keep their order? Yes. 24,037 states. |
| `table_order` | the same, with batches whose columns come in another order | Does a reopen replay exactly the active rows? **No** (section 6). |
| `wal` | 4 appends, cuts on both sides of magic and header | Does what a reader returns only grow, do sequence numbers keep up, is loss reported? Yes, with the exception that LossIsReported names. |
| `spdk` | 2 threads x 2 calls x 2 segments, all faults | What can be left in the queue pair, whose completion does an Ok mean, is the lock released? The properties of SpdkQueuePair say it; all hold. |
| `spdk_runtime` | 2 threads, 2 buffers, 2 namespaces, 10 requests, every call failing or not | Are mappings accounted for, does the counter settle, is what is submitted safe, is nothing valid refused? Yes. 226 thousand states. |
| `uring` | 2 threads x 3 calls, 2 entries, all faults | Is Ok always the call's own, do leftovers outnumber faults, is the lock released? Yes, no, yes. 900,067 states. |
| `dpdk` | 2 threads x 2 calls, batches of up to 3, 3 mbufs, 2 arrivals | Has every mbuf one owner, what leaks, do calls report what moved, do packets parse as they were built? Only failed batches leak; otherwise yes. |

### Bounds, and why they are enough

- `IndexMod`, the width of `usize`, is 3 (MPSC) or 2 (SPSC) laps of the slots, so
  that both counters wrap within a run (8 and 10 pushes) and no lap coincides
  with a lap of the slots seen from the other counter. `MaxStale` bounds how long
  a producer may sleep between its load of `head` and its exchange, in
  reservations of others: fewer than a lap of the counter. Without it the
  exchange can succeed on a counter that has gone once around, which takes 2^64
  pushes in the program; the bound is a guard of Reserve and an assumption of the
  theorems.
- Two producers suffice for each pairwise race of `push`; the theorems are for
  any number. 2 slots give full, half full and empty.
- Three batches and four or five segment ids allow a flush, a compaction of two
  segments, a failure and another flush after it. A batch is appended once: two
  equal batches would hide a duplicate.
- A vector takes `LaneWidth` = 2 values instead of 4: with four rows there are
  columns of a vector and a remainder, of two vectors, and of a remainder only.
  Three times give ranges that hold, cut and miss a segment, empty and reversed
  ones; a batch has one or two rows. `KnownSchemas` has the table's schema, one
  with a type changed and one with a column missing; `FloatExact` (2^53 in the
  code) is beyond all values.
- Torn writes leave 3, 4, 15 or 16 bytes: the two places where the reader changes
  its mind (4 bytes of magic, 16 of header), from both sides. A record is
  16 + 4 + 4 bytes. The checksum is taken to detect every mix of two records.
- Two threads are enough for one to find what another left; three calls of one
  (two for SPDK and DPDK) let a leftover of the first be met by the second.
  `readv` and `writev` with two buffers have a lock handover in their middle.
- The commands outstanding stay below `COMPLETIONS_PER_POLL` (256), so one poll
  reports all that is posted.
- A page has 4 bytes and the greatest `usize` is 15 in `spdk_runtime`: buffers of
  3 bytes are rounded up to a page, buffers of 15 overflow the rounding and make
  the pool fail. A namespace has blocks of half a buffer or of less, requests end
  before, at and behind its last block.
- With 3 mbufs, two batches of up to three exhaust the mempool in the middle of a
  batch; lengths 60 and 3000 are within and beyond the room of an mbuf; a
  `BurstWidth` of 3 (65536 in the code) makes a batch of three wrap to zero.

Deadlock is not checked in any run: the bounds stop every model, and a ring
without items or a table without calls may rest. Symmetry, where a run uses it,
is of threads, buffers and mbufs, and only with invariants.

### Fairness

- `MpscRing`: a producer that has reserved a slot is scheduled until it has
  published it (the code between the exchange and the store of the flag neither
  blocks nor fails), and the consumer keeps polling. Nothing is assumed of
  producers that are still trying, nor of anyone to call `push`.
- `SpscRing`: the consumer keeps polling; the producer finishes the push it is in.
- `SpdkQueuePair`: a thread in `wait_for_completion` keeps running, so it sees
  its completion or the end of the 30 seconds. Nothing is assumed of the device.
- `UringBackend`: a thread with the ring runs on, and the kernel finishes every
  operation it has taken, which the code relies on too: it has no timeout.
- The other models have safety properties only: nothing in the database or in
  `DpdkPort` waits, and the reactor
  waits only for a flag that its owner sets.

## 4. What the properties say

The modules of the rings, `TableStore` and the two queues have a type invariant,
`TypeOK`; that of the log is `LogTypeOK`, that of the pool `PoolTypeOK`, and
`SpdkRuntime` adds `RuntimeTypeOK`. All hold at the bounds above when added to a
configuration, and all but that of `UringBackend`, whose bound on tokens counts calls,
are proved (section 5); the runs spend their time on the other properties. The
types of `DpdkPort` are in `DpdkPortProofs` (`Typed`, for any number of packets);
`TableScan` has RecoveryInv and FilterInv instead, the inductive invariants of its
theorems, which hold the types of batches, records and segments.

- `MpscRing`: SlotExclusive and ReadsOldestItem are the two SAFETY comments of
  `push` and `pop`. RefusedOnlyWhenFull is about a copy of `head` older than
  `tail`: the comparison in the code is `==`, and `>=` would refuse wrongly.
  DropsExactlyUnread is about Drop, which looks at flags and not at counters.
  ImplementsFifo maps the ring to `BoundedFifo`: an item takes its place in the
  order when its producer wins the exchange, and is `done` when its flag is set;
  `pop` may answer None although later items are ready (a slow producer at the
  head of the line), and the abstract PopNone says exactly when.
  AcceptedIsDelivered: every item accepted is popped or dropped.
- `SpscRing`: the same; SlotsDisjoint takes the place of the flags.
- `TableStore`: RecoveredOnce forbids duplicates on disk, AppliedBoundary is the
  documented meaning of `wal_records_applied`, ListedImmutable and ListedSegmentsWhole
  are about directories written and removed around the rename of the manifest,
  ScansUndisturbed says that a flush or a compaction, failed or not, changes
  nothing a scan returns. ImplementsDurableTable maps `rows` to what an open would
  bring back and `view` to what a scan returns, at every step. ListedSegmentsWhole
  does not say that a table can always be opened: `open` also reads the WAL, and
  fails on a record torn behind its header (section 6) or on one it cannot decode
  (`table_order`).
- `TableScan`: ScansAreExact compares a scan through pruning, mapping, selections
  and chunks with a plain filter of all rows, in every column and for every range;
  FiltersAreExact does so for `scan_where` and every predicate. RowsKept: every
  row stays, once, with all its values. RecoveryIsExact: decoding the records
  behind the boundary gives the active batch. AdjacentCompactionKeepsOrder.
- `Wal`: SeqsNotBehind: a number is never behind the place of its record
  (it may run ahead, and be given twice). LossIsReported: a reader
  that answers Ok has every acknowledged record, unless the first torn one ends
  inside its magic. RecordsOnlyGrow: only a reset takes records away.
- `SpdkQueuePair`: LeftoversAreAbandoned: only a timeout or a failed poll leaves
  a command in the queue pair, no failed submission, failed command or `readv`
  cut short does. OkIsOwn: an Ok means that each segment was carried out by a
  command of the call, unless an earlier call of the thread gave up.
  LockIsReleased holds whatever the device does.
- `SpdkRuntime`: MappingsAccounted: every buffer with memory is being made,
  on the free list, on its way or in one handle, and in one of these only; nothing
  stays mapped for a pool that failed or is gone. CounterSettles: `available` differs
  from the free list by the threads between list and counter, and when nobody is
  there it is right, through any wraparound. SubmittedIsSafe:
  what reaches the queue pair is DMA memory, on whole blocks that are exactly the
  bytes asked for, while the environment is up. RefusedForAReason: the converse,
  each refusal is for its own reason.
- `UringBackend`: OkIsOwn without exception, because the completion is searched
  by token. LeftoversWithinFaults: leftovers may make later calls fail, and leave
  those behind in their turn, but their number never exceeds that of the faults.
- `DpdkPort`: MbufsAccounted: one owner each, and nobody writes to a packet handed
  over. OnlyFailedBatchesLeak says where the code loses mbufs, and that it is the
  only place. ReportsWhatMoved: counts in packets or bytes, prefixes of a batch
  sent, everything received. ParsedAsBuilt: headers with options and cut frames.

## 5. What is proved

All theorems are for every value of the constants their module's assumptions
allow: any number of threads, slots, pushes, calls, batches, segments, appends.

Rings. `RingIndexTheorems` has the arithmetic, for every capacity and every width:
the wrapped distance moves by one with either counter, two indices less than
`Capacity` apart have different slots, `n` successive indices have `n` slots
(`WindowCount`), and a lap from any index reaches every slot (`SlotReached`).

- `MpscRingProofs`: `RingInvariant`, `Spec => [](TypeOK /\ RingInv)`, and from it
  `TypeCorrect`, `CountersCorrect`, `SlotsExclusive`, `ReadsCorrect` and
  `RefusalsCorrect`. None of the safety properties is inductive by itself. RingInv
  has six parts. CountersMatch: the distance of the counters is the number of held
  reservations, at most `Capacity`. OwnersInv: a producer between exchange and
  publication owns an index between `tail` and `head`, alone, whose flag is clear.
  PushersInv: a producer about to exchange knows how far `head` has moved since it
  read it, and if it has not moved it has seen a free slot; this is where the bound
  on sleep is needed. SlotsInv: each reserved index is published, or owned, or just
  being left by the consumer, and no free one is published. ConsumerInv: what `pop`
  has learnt stays true until it advances. DroppedInv: after the drop nobody is
  inside. There is one lemma per action, then `RingStep`.
  DropsCorrect: the slots that drop finds ready are those of the published indices,
  so there are as many as unread items and each holds one; that no other flag is set
  takes SlotsInv, SlotReached and WindowCount together. ImplementsBoundedFifo: the
  places of the abstract queue are the reserved indices in order; Publish completes
  exactly one place, because only its owner's slot changes its flag; ClearReady
  delivers; every other step shows nothing.
- `SpscRingProofs`: the same for the other ring: `RingInvariant`, with HeldInv (each
  held item in its slot), ProducerInv and ConsumerInv (a side knows its own counter
  exactly and the other's up to what has happened since), then `SlotsCorrect`,
  `RefusalsCorrect`, `DropsCorrect` and `ImplementsBoundedFifo`.

Assumed: `Capacity` is at least 1 and `IndexMod` is at least two laps of it (weaker
than the powers of two of the code); `MaxPushes` is a natural number; the item that
means None is not pushed; and the bound `MaxStale`, above.

Table. `DatabaseProofs`, whatever crashes, I/O errors and torn records happen: `SafeInvariant`,
`Spec => [](TypeOK /\ SafeInv)`. SafeInv says that every list of segments, on disk
or in memory, has whole directories with logged batches and ids below the next one
(ListsInv), so that a new segment never takes the directory of a listed one, not
even after a failed flush has listed in memory what no manifest has; and what a
half-done operation has prepared (OperationInv). From it `ListedStayWhole`,
`ListedStayImmutable` and `ScansStayUndisturbed`. For the last the steps are taken
one by one: only StoreManifest changes the fields scans read, and it puts a segment
in the place of exactly what was copied into it.

Without I/O errors (`NoIoErrors`, an assumption of these theorems, for `table_loss`
shows that they fail with them) `ExactInvariant` adds ExactInv: memory agrees with
the disk but for the manifest about to be stored and the batch about to be shown,
and the listed segments hold exactly the first `wal_records_applied` records. From
it `RecoversOnce`, `BoundaryIsExact` and `ImplementsDurable`: opening is Reopen,
LogBatch is Log, ShowBatch is Show, a crash is a Crash, and every other step shows
nothing.

Log, also in `DatabaseProofs`: `SeqsCorrect` (with types), `LossesReported` and
`RecordsGrow`, for any length of the payload and any places where writes are cut. The
records a reader returns are the longest prefix without a torn one (`RecordsAreWhole`;
that there is a first torn one is the least number of a set, from the library's
theorem on well-founded relations), and a write adds one to them or none
(`PutRecords`). LossIsReported needs the places of the records: each begins where the
one before it ends, so behind a torn record that is followed by an acknowledged one
there are enough bytes for a header, and only a wrong magic can end the log quietly.

Rows, in `TableScanProofs`, for any schema of valid columns, any appends, well built or
not, for any schema, and any flushes, compactions and reopenings. A batch of the table
(TableBatch) has the schema's columns in its order, all of the same length, with cells
of their types.

- `RecoveryIsAlwaysExact`: `Spec => []RecoveryIsExact`. RecoveryInv adds that the active
  batch is one of the table and that each record of the log is decoded to one
  (IsRecord). An append logs a payload and changes memory in separate calls of the code:
  that the two agree takes `DecodesEncoded` (decoding an encoded batch of the table gives
  that batch back, whatever the widths and the number of columns), and that `append` of
  `batch.rs` succeeds on two such batches and puts one behind the other.
- `RowsAreAlwaysKept`: `Spec => []RowsKept`. StorageInv adds that each segment is a sealed
  batch of the table, not empty, that is read back as it was (IsSegment, from
  `SealsSegment` and `ReadsSealed`: names, widths and lengths pass every check of
  `read_batch` and `map_column`), with an id below the next one. `compact` reads the
  chosen segments, joins them, and puts the result in the place of the first: the rows
  of a sequence of segments are the rows of its parts (`StoredOfBoth`), so what leaves
  and what comes has the same rows (`PartsJoined`).
- `CompactingNeighboursKeepsOrder`: `Spec => AdjacentCompactionKeepsOrder`. Of neighbours
  no segment that stays lies between the first and the last that go, so the rows of the
  table are the same sequence after it; an append adds at its end.

- `ScansAreAlwaysExact`: `Spec => []ScansAreExact`, for any ends of a range. ScanInv adds
  to StorageInv that timestamps are from Times. Each segment adds to every column of the
  result exactly its rows of the range (`AddsSegment`), and a scan is the fold of that
  over the segments. A segment that is left out has none: its least and greatest time are
  those of its rows (`SpanOfSeq`, `LeavesOut`). A vector compares with `start - 1`, or not
  at all for the least i64, and the values behind the last whole vector alone: both say
  what is in the range (`RangeSelects`). The positions found become a selection of one of
  three shapes, and each gives back the rows it was made from (`SelectionOf`). The active
  rows come last, in an owned chunk; when nothing is before it, the result lends out its
  values, and these are all there is.
- `FiltersAreAlwaysExact`: `Spec => []FiltersAreExact`, for every predicate and every
  range that ends at the last time. It starts from a scan as `ScansAreAlwaysExact` leaves
  it: columns of chunks that each show all they hold (WholeChunk), with the rows of the
  range in every column (ScanOf). A row number belongs to one chunk and one place in it
  (`Layout`, `ChunkFound`), so testing the values one by one reads those of the rows, and
  the vectors find, chunk by chunk, with the rows before a chunk added, the same numbers
  as one pass over the whole column (`HitsJoin`, `FiltersColumn`): those of the rows that
  satisfy the predicate (`FindsRows`). The numbers are then grouped by chunk and taken
  from it: from a mapped chunk by selecting from its selection, from an owned one by
  copying; the groups show the rows with these numbers, in order (`GroupsRows`,
  `TakesChunks`). FilterInv adds to ScanInv that no row number is above MaxRows, for
  the hypothesis ExactNumbers.

Hypothesis of the five: KeepOrder, a caller's schema that has the table's columns has
them in the table's order. The code does not enforce it, and `table_order` (section 6)
shows that RecoveryIsExact fails without it. The last one also takes ExactNumbers: when
an integer column is filtered, its integers are at most FloatExact (in the model an I64
cell is the number of its row, so this bounds the rows). The code compares them as f64,
which beyond 2^53 does not tell neighbours apart: with `FloatExact = 1` in
`TableScan.cfg`, TLC finds FiltersAreExact violated. Timestamps in nanoseconds since 1970
are beyond it, so of a predicate on them the theorem says nothing; of the ranges of
`scan_time_range`, which compares integers, and of columns of floats and strings it
holds for any numbers. Assumed besides: every schema is one `Schema::new` accepts
(SchemaAssumption), the times are finitely many natural numbers, the least of which is
the least i64 (TimesAssumption), a predicate is one of the three kinds
(PredicatesAssumption), and FloatExact is a natural number (FloatExactAssumption).

What these folds compute is proved by induction over the length of sequences, as
theorems about sets of numbers: the library has induction over the natural numbers for
a predicate that is a set (`EveryNat`, and from it `EverySeq` for sequences), and one
more segment, record or row is one more step of the fold (`JoinedNext`, `KeptNext`,
`StoredNext`).

Backends.

- `SpdkProofs`, the queue pair: `QueueInvariant`, `QueueSpec => [](TypeOK /\ QueueInv)`,
  and from it `TypeCorrect`, `LeftoversCorrect` and `OkCorrect`. OkIsOwn speaks of the moment
  a call returns; QueueInv adds what leads there. LockInv: the lock is held exactly
  through a wait, so a poll by one thread cannot take the completion another one
  waits for. OneCommandInv: a thread that never gave up has at most one command in
  the queue pair, and none once its completion is done; hence (`WakesAreOwn`) nothing
  but its own command can set its completion. ServedInv: the segments behind the
  present one were served by commands of the call. Of a thread that did give up the
  invariant says nothing, and there is nothing to say: a leftover may be taken for
  the completion of a later call. Assumed: `NoCaller` is no caller, and a call has at
  least one segment (`lba_range` refuses a length of zero).
- `UringBackendProofs`: `UringInvariant` and from it `OkCorrect`. No two calls have
  the same token (TokensInv), and a token is in one place of the ring at most,
  submission queue, kernel or completion queue (RingInv): so what a call finds under
  its token is its own, and nothing of it is left. `LeftoversCorrect` bounds the
  operations without a caller by the faults so far. A step that adds one without a
  fault takes another away: Wake gives up its own operation only when the completion
  it took out of the queue was somebody else's, and then that one was a leftover, for
  only the holder of the mutex awaits anything (LockInv).
- `SpdkProofs`, the pool: `PoolInvariant`, `Spec => [](PoolTypeOK /\ PoolInv)`,
  for any finite sets of threads and buffers, any sizes, any page and any width of the
  counter. StageInv: nobody has a buffer before the pool is ready. FreeInv, TransitInv,
  HeldInv: no buffer is twice on the list, in two hands or in both. MemInv: a buffer has
  memory exactly when it is being made, on the list of a live pool, on its way or held.
  From these MappingsAccounted, which counts places, follows: each of its four counts is
  0 or 1, and only one is 1 (`MappingsStayAccounted`). `CounterAgrees`: CounterSettles is
  inductive given the others, for each of the two steps of `acquire` and of a drop moves
  list, counter and one thread, modulo the width of `usize`.
- `SpdkProofs`, the requests: `RuntimeInvariant` adds RuntimeInv. BackendInv: the
  environment is up while the backend is built and while a native one has an owner, and
  whoever has a backend knows namespaces without zeros only. BufferInv: memory that
  passes for SPDK's is SPDK's, and a length that cannot be rounded never leads to a
  buffer. AnswerInv: the last answer is that to a request in the present state, which is
  what lets the two properties be shown of Request itself. `SubmissionsSafe` then says
  SubmittedIsSafe, for requests of any number of buffers of any length: the sum that
  checks for overflow is `BufLen * n` or an overflow (`TotalOfEqual`), the blocks before
  segment `i` are `(i - 1) * (BufLen \div sector)` (`BlocksOfEqual`), and when sectors
  divide pages they divide `BufLen`, so that the parts add up to the whole. Its hypothesis
  SectorsDividePages is needed: `SpdkOddBlocks.cfg` (section 6) is the counterexample
  without it. `RefusalsHaveReason` says RefusedForAReason without that hypothesis: a
  range of bytes that is a range of blocks begins and ends at one (`WholeIsAligned`), so
  each check of `lba_range` passes, and neither sum overflows. Assumed: the fields of
  namespaces and requests are in their widths, and `U32Max <= U64Max`.
- `DpdkPortProofs`: `PortInvariant`, for any threads, any finite mempool, any packets and
  sizes and any number of calls and arrivals. RxInv, TxInv: the port owns what is in its
  rings, and what it is to send is still what it was given. Per thread, VecInv: it owns
  what is in its vector, each once, and owns more only after a failed batch. PhaseInv:
  which calls can be at which place, and where the vector is empty. SendInv: the vector
  holds the first packets of the batch. ReceiveInv: what the port gave is what was copied
  and then what is in the vector. ReportInv: a number that is reported is that of the
  packets moved. From it `MbufsStayAccounted`, `OnlyFailedBatchesLose` and
  `CallsReportWhatMoved`, the last including the sum of bytes that `write` and `writev`
  return. `FramesParseAsBuilt` is about the parsers of `Packet`: frames of any length
  with any options, cut anywhere. Assumed: threads are not called like the port's queues, the
  mempool is finite, packets are not empty, frames that arrive fit an mbuf, and the sizes
  pass the checks of the configuration (ConfigOk).

`TotalOfEqual` and `BlocksOfEqual` say what folds compute without induction over data,
because the elements are equal: the fold is a recursive function on sets of indices, and
a set of least cardinality on which it differs from the closed form (`LeastOf`) is
contradicted by the set without its greatest index (`ByCount`).

Only model-checked: liveness (AcceptedIsDelivered of both rings, LockIsReleased of both
queues), which is out of the prover's reach.

## 6. Where the code disagrees with what is said of it

Shown by runs:

- `table_loss`: `flush` changes the manifest in memory before it stores it. If the
  store fails and a `compact` follows, the stored manifest counts the rows of the
  failed flush as applied, and lists no segment that has them: they are gone at
  the next open.
- `table_order`: `append` accepts a batch with the table's columns in another order
  and logs it, and then cannot append it; every later open fails on its record.

Shown by configurations that are run by hand, with `tlc` on the module named:

- `MpscReordered.cfg`: `push` loads `head` relaxed, then `tail` with acquire; nothing
  orders the first before the second on AArch64. A `tail` older than `head` makes
  the wrapped difference larger than the capacity, the test is `==`, and the
  reservation overwrites a slot that has not been read. x86-64 keeps loads in
  order. Loading `head` with acquire, or testing `>=` together with a second look
  at `head`, would close it.
- `WalAcked.cfg` (`MCWal`): a torn record of one to three bytes is not cut off by
  `open`; records appended behind it are acknowledged, and no reader returns them.
- `WalTornTail.cfg` (`MCWal`): a crash or a failed write that leaves a header and part
  of a body makes the log unreadable, though `records` says a torn tail ends the log.
  No call cuts it off: every later `open` fails with an I/O error, and so does every
  `flush` of active rows by a process that is still up.
- `SpdkContext.cfg` (`SpdkQueuePair`): a call that times out leaves SPDK with a
  pointer into its frame.
- `DpdkLeak.cfg` (`MCDpdkPort`): `docs/native-runtime-adapters.md:111` says the
  adapter frees unsent mbufs; when a packet of a batch fails after the first, the
  mbufs of those before it are never freed (`io/backend/dpdk.rs:1152-1157`).
- `SpdkEnvironment.cfg` (`MCSpdkRuntime`): the end of the runtime finishes SPDK's
  environment, while pools keep DMA buffers and new buffers are still asked of SPDK.
- `PoolAvailable.cfg` (`MCSpdkRuntime`): `available` is read as a count of buffers
  (`io/buf/pool.rs:53`), and may be near the largest `usize` between the two steps
  of `acquire` and of a drop.
- `SpdkOddBlocks.cfg` (`MCSpdkRuntime`): buffers whose length is no whole number of
  blocks. `readv` and `writev` check the total only and round each buffer down, so
  buffers that make whole blocks together are submitted with fewer blocks than
  asked. Block sizes that divide a huge page, all common ones, exclude it.

Seen while modelling:

- After a failed manifest store, the next successful `flush` lists the same rows
  in two segments (RecoveredOnce fails with "io").
- `compact` of segments 1 and 3 moves the rows of 3 before those of 2, though
  `docs/bypass-db-storage.md:64` says order is preserved.
- A signal during `submit_and_wait`, or a partial enter, returns from the io_uring
  backend while the kernel owns the buffer (BufferOutlivesOperation). The length of
  a buffer is cut to 32 bits (`io/backend/uring.rs:56`).
- A native DPDK `write` sends a whole `HugeBuf`, which has at least 2 MiB, as one
  packet, whose length has to fit 16 bits (`io/backend/dpdk.rs:997`): it always fails.
- A failed `probe_and_init` leaves the environment up and controllers attached, and
  the environment cannot be set up again; so does a failed DPDK init with EAL.
- `spawn` of the reactor answers Ok although pinning may fail: the thread then ends,
  and says so on stderr only.
- A schema may have column names that cannot name a file; a flush of such a table
  fails every time (`db/segment.rs:551`).
- Integer columns are compared as f64: beyond 2^53 neighbours look equal (the
  hypothesis ExactNumbers of section 5).
- `len` of either ring loads `head` before `tail`; pops in between make the
  difference wrap to a number near the largest `usize`.

## 7. What is not modelled, and why

- Power failures: neither the manifest nor the segments are synced by the code. A
  crash here is that of a process; what reached the file system stays. A file
  system that loses or reorders unsynced writes would be a model of its own, of
  which the code and its docs promise nothing that could be checked.
- Two processes with one table: nothing locks the directory and no document
  claims that it works.
- Undefined behaviour after the fact: when the ring is overwritten or a dead frame
  is written to, the models show the step, not what the machine does next; a
  callback into a dead frame is modelled as far as it meets the completion of a
  later call.
- `backend/mod.rs`, `buf/iovec.rs`: declarations. `config.rs`: parsing and range
  checks of a text file, without state. `bypass-cli`: arguments, printing and
  benchmarks over the public API, one call after the other. `build.rs` and the C
  shims: link flags and wrappers of inline functions.
- Bytes: the characters of names and strings, the layout of payloads, the CRC, and
  what `decode_batch` says to payloads no `encode_batch` made (the checksum stands
  before it). The scalar forms of the filters, used without AVX, are the remainder
  loop of the vector forms.
- io_uring's `readv_at` and `writev_at` return at once for no buffers; this has no
  state and is left out. So is a poisoned mutex: no code panics under one.
- Several DPDK ports or SPDK queue pairs: the code builds one of each.

## 8. Plan

What would come next: a variant of `TableStore` on a file system that loses what was
not synced, to say which syncs would be needed.

## 9. Running

`tlc -config X.cfg M` for the module and configuration of a run of PROJECT.json;
`tlapm` on the eight modules of proofs of section 2. The configurations of section
6 end in the counterexample described there. `SpscRingInv.cfg`, `UringInv.cfg`,
`SpdkRuntimeInv.cfg`, `TableSafeInv.cfg` (any failure), `TableExactInv.cfg` (crashes
only) and `TableScanInv.cfg` check with TLC the inductive invariants that are proved, together with the types;
they find no error.
