----------------------------- MODULE TableScan -----------------------------
(***************************************************************************)
(* What readers of a table see: bypass-db/src/table.rs (append, flush,     *)
(* compact, open, scan_time_range, scan_where) over columnar batches,      *)
(* payloads and segments (module Columns) and scan results (ScanResult).   *)
(* TableStore has the same operations write by write, with crashes and     *)
(* failures, but for opaque batches; here an operation is one step, and    *)
(* the files and the manifest of the sealed segments are what the table    *)
(* has in memory of them.                                                  *)
(***************************************************************************)
EXTENDS ScanResult

CONSTANTS
  Schema,         \* the schema of the table: a sequence of names and types
  CallerSchemas,  \* the schemas callers build their batches for
  Faults,         \* what may be wrong with the columns given to a builder
  Times,          \* the timestamps of rows and the ends of time ranges
  MaxRows,        \* bound: rows ever appended
  MaxSegments,    \* bound: segment ids are 1..MaxSegments
  Predicates      \* the predicates of scan_where

ASSUME SchemaAssumption == \A schema \in {Schema} \cup CallerSchemas : IsSchema(schema)
ASSUME TimesAssumption ==
  Times \subseteq Nat /\ IsFiniteSet(Times) /\ Times # {} /\ I64Min = Min(Times)
ASSUME PredicatesAssumption ==
  \A predicate \in Predicates : predicate.kind \in {"range", "gt", "scalar"}
ASSUME BoundsAssumption == MaxRows \in Nat /\ MaxSegments \in Nat

VARIABLES
  active,    \* the batch of the rows that are not sealed
  sealed,    \* the sealed segments, in manifest order
  next,      \* next_segment_id
  log,       \* the payloads in the WAL
  applied,   \* wal_records_applied
  appended   \* history: the timestamps of the rows appended, in order

vars == <<active, sealed, next, log, applied, appended>>

Init ==
  /\ active = EmptyBatch(Schema)
  /\ sealed = <<>>
  /\ next = 1
  /\ log = <<>>
  /\ applied = 0
  /\ appended = <<>>

-----------------------------------------------------------------------------
(* What callers give the builder: rows that differ in every column, as     *)
(* they are or with one fault.                                             *)
Cell(dtype, number, time) ==
  CASE dtype.kind = "Timestamp" -> time
    [] dtype.kind = "I64" -> number
    [] dtype.kind = "F64" -> IF number % 2 = 0 THEN NaN ELSE Float(number)
    [] dtype.kind = "FixedStr" -> [k \in 1..dtype.width |-> number]

RowCells(number, time) == [k \in DOMAIN Schema |-> Cell(Schema[k].dtype, number, time)]

Values(dtype, times) ==
  [k \in DOMAIN times |-> Cell(dtype, Len(appended) + k, times[k])]

GivenData(column, times, fault) ==
  CASE fault = "ragged" /\ column.dtype.kind = "I64" ->
         ColumnData(column.dtype, Append(Values(column.dtype, times), 0))
    [] fault = "type" /\ column.dtype.kind = "I64" ->
         ColumnData(DType("Timestamp", 0), times)
    [] fault = "wide" /\ column.dtype.kind = "FixedStr" ->
         ColumnData(column.dtype, [k \in DOMAIN times |-> <<>>])
    [] OTHER -> ColumnData(column.dtype, Values(column.dtype, times))

Given(schema, times, fault) ==
  LET columns == [k \in DOMAIN schema |->
                    [name |-> schema[k].name, data |-> GivenData(schema[k], times, fault)]]
  IN  [columns |-> IF fault = "missing" THEN Tail(columns) ELSE Reverse(columns)]

-----------------------------------------------------------------------------
(* append: the batch is logged, then appended to the active rows, and may  *)
(* fail there, with the record in the log.                                 *)
AppendRows(schema, times, fault) ==
  LET built == Build(schema, Given(schema, times, fault))
  IN  /\ Len(appended) + Len(times) <= MaxRows
      /\ built.err = NoError
      /\ Matches(Schema, built.batch)
      /\ log' = Append(log, Encode(built.batch))
      /\ active' = AppendBatch(active, built.batch).batch
      /\ appended' = IF AppendBatch(active, built.batch).err = NoError
                     THEN appended \o times ELSE appended
      /\ UNCHANGED <<sealed, next, applied>>

(* Batches that were read, appended in order to an empty one.              *)
AddBatch(result, read) ==
  IF result.err # NoError THEN result
  ELSE IF read.err # NoError THEN Failed(read.err)
  ELSE AppendBatch(result.batch, read.batch)

Joined(reads) == FoldLeft(AddBatch, [err |-> NoError, batch |-> EmptyBatch(Schema)], reads)

(* Mutant: a flush takes itself to apply one record.                       *)
FlushOneRecord ==
  /\ active.rows > 0
  /\ next <= MaxSegments
  /\ SealError(Schema, active) = NoError
  /\ sealed' = Append(sealed, Seal(Schema, next, active))
  /\ next' = next + 1
  /\ applied' = applied + 1
  /\ active' = EmptyBatch(Schema)
  /\ UNCHANGED <<log, appended>>

Flush ==
  /\ active.rows > 0
  /\ next <= MaxSegments
  /\ SealError(Schema, active) = NoError
  /\ sealed' = Append(sealed, Seal(Schema, next, active))
  /\ next' = next + 1
  /\ applied' = Len(log)
  /\ active' = EmptyBatch(Schema)
  /\ UNCHANGED <<log, appended>>

(* The batches of segments, appended in order.                             *)
Combined(segments) == Joined([k \in DOMAIN segments |-> ReadBatch(Schema, segments[k])])

Without(segments, ids) == Kept(segments, {s \in ToSet(segments) : s.id \notin ids})

(* Mutant: the replacement goes to the end.                                *)
ReplaceAtEnd(ids, replacement) ==
  Append(Without(sealed, ids), replacement)

(* The replacement takes the place of the first segment it replaces.       *)
Replace(ids, replacement) ==
  LET first == SelectInSeq(sealed, LAMBDA s : s.id \in ids)
      after == SubSeq(sealed, first, Len(sealed))
  IN  SubSeq(sealed, 1, first - 1)
        \o <<replacement>> \o Without(after, ids)

Compact(ids) ==
  LET combined == Combined(Kept(sealed, {s \in ToSet(sealed) : s.id \in ids}))
  IN  /\ ids # {} /\ ids \subseteq {sealed[k].id : k \in DOMAIN sealed}
      /\ next <= MaxSegments
      /\ combined.err = NoError
      /\ sealed' = Replace(ids, Seal(Schema, next, combined.batch))
      /\ next' = next + 1
      /\ UNCHANGED <<active, log, applied, appended>>

(* recover_batches_after: what open makes of the records not applied.      *)
Replayed == Joined([k \in 1..(Len(log) - applied) |-> Decode(Schema, log[applied + k])])

Open ==
  /\ Replayed.err = NoError
  /\ active' = Replayed.batch
  /\ UNCHANGED <<sealed, next, log, applied, appended>>

Next ==
  \/ \E schema \in CallerSchemas, fault \in Faults :
       \E times \in BoundedSeq(Times, 2) \ {<<>>} : AppendRows(schema, times, fault)
  \/ Flush
  \/ \E ids \in SUBSET (1..MaxSegments) : Compact(ids)
  \/ Open

Spec == Init /\ [][Next]_vars

-----------------------------------------------------------------------------
(* scan_time_range: segments whose span of time misses [start, end) are    *)
(* not looked at, the others are mapped: the timestamps, and when some are *)
(* in the range the columns too.                                           *)
AddSegment(result, segment, start, end) ==
  LET time == TimestampColumn(Schema)
      mapped(column) == MapColumn(segment, column.name, column.dtype)
      error(column) == MapError(segment, column.name, column.dtype)
      rows == FromIndices(RangeI64(mapped(time).values, start, end), segment.rows)
      columns == [k \in DOMAIN Schema |->
                    ScanColumn(Schema[k].name, Schema[k].dtype, <<Mapped(mapped(Schema[k]), rows)>>)]
  IN  IF result.err # NoError \/ ~Overlaps(segment, start, end) THEN result
      ELSE IF error(time) # NoError THEN Failed(error(time))
      ELSE IF rows.len = 0 THEN result
      ELSE IF \E k \in DOMAIN Schema : error(Schema[k]) # NoError THEN Failed("map")
      ELSE AppendColumns(result, columns, rows.len)

FilterTime(batch, start, end) ==
  LET times == Column(batch, TimestampColumn(Schema).name).values
  IN  TakeRows(batch, Indices([k \in DOMAIN times |-> start <= times[k] /\ times[k] < end]))

ScanTimeRange(start, end) ==
  AppendOwned(FoldLeft(LAMBDA result, segment : AddSegment(result, segment, start, end),
                       EmptyScan(Schema), sealed),
              FilterTime(active, start, end))

(* scan_where filters the result of a scan by time.                        *)
Where(result, predicate) ==
  LET filtered == FilterScan(result, predicate)
  IN  IF result.err # NoError THEN result
      ELSE IF filtered.err # NoError THEN Failed(filtered.err)
      ELSE TakeScan(result, filtered.indices)

-----------------------------------------------------------------------------
(* Properties *)

(* The rows of a batch and of the table, whole, in order.                  *)
RowsOf(batch) ==
  [row \in 1..batch.rows |-> [k \in DOMAIN Schema |-> batch.columns[k].data.values[row]]]

TableRows(segments, batch) == RowsOf(Combined(segments).batch) \o RowsOf(batch)

Rows == TableRows(sealed, active)

TimeIndex == SelectInSeq(Schema, LAMBDA c : c.dtype.kind = "Timestamp")

InRange(rows, start, end) ==
  Kept(rows, {row \in ToSet(rows) : start <= row[TimeIndex] /\ row[TimeIndex] < end})

(* A result shows exactly these rows, in every column.                     *)
Shows(result, rows) ==
  /\ result.err = NoError
  /\ result.rows = Len(rows)
  /\ \A k \in DOMAIN Schema :
       LET chunks == result.columns[k].chunks
           values == [j \in DOMAIN rows |-> rows[j][k]]
       IN  /\ Flatten(chunks) = values
           /\ Lendable(chunks) => chunks[1].values = values

(* A scan shows the rows of its range and no others, in the order of the   *)
(* table and with their columns aligned, whatever segments it leaves out,  *)
(* however many values a vector takes, for empty and reversed ranges too.  *)
ScansAreExact ==
  LET rows == Rows
  IN  \A start, end \in Times \cup {Max(Times) + 1} :
        Shows(ScanTimeRange(start, end), InRange(rows, start, end))

(* What a predicate says of a value: false of NaN and of other types.      *)
Satisfies(dtype, value, predicate) ==
  CASE predicate.kind = "scalar" -> dtype.kind = "FixedStr" /\ value = predicate.value
    [] predicate.kind # "scalar" /\ dtype.kind = "FixedStr" -> FALSE
    [] predicate.kind # "scalar" /\ dtype.kind = "F64" -> TestF64(predicate, value)
    [] OTHER -> TestF64(predicate, Float(value))

(* scan_where shows the rows of the range that satisfy the predicate, from *)
(* vectors, mapped selections and owned chunks alike, and fails for a      *)
(* column the table does not have.                                         *)
FiltersAreExact ==
  LET rows == Rows
      end == Max(Times)
  IN  \A start \in Times :
        LET scan == ScanTimeRange(start, end)
            inRange == InRange(rows, start, end)
        IN  \A predicate \in Predicates :
              LET k == SelectInSeq(Schema, LAMBDA c : c.name = predicate.column)
                  satisfies(row) == Satisfies(Schema[k].dtype, row[k], predicate)
              IN  IF k = 0 THEN Where(scan, predicate).err # NoError
                  ELSE Shows(Where(scan, predicate), Kept(inRange, {row \in ToSet(inRange) : satisfies(row)}))

(* Every appended row is in the table once with the values it was appended *)
(* with, and no id is used twice.                                          *)
RowsKept ==
  /\ Len(Rows) = Len(appended)
  /\ ToSet(Rows) = {RowCells(number, appended[number]) : number \in DOMAIN appended}
  /\ \A j, k \in DOMAIN sealed : j # k => sealed[j].id # sealed[k].id

(* Opening the table again replays the log to the rows it had in memory,   *)
(* after any appends, flushes and compactions.                             *)
RecoveryIsExact == Replayed = [err |-> NoError, batch |-> active]

(* As long as compactions select neighbouring segments, rows are only ever *)
(* added at the end: scans keep the order rows were appended in.           *)
Ids == {sealed[k].id : k \in DOMAIN sealed}

Neighbours(ids) ==
  \E j, k \in DOMAIN sealed : ids = {sealed[i].id : i \in j..k}

AdjacentCompactionKeepsOrder ==
  [][Ids \ Ids' = {} \/ Neighbours(Ids \ Ids') => IsPrefix(Rows, TableRows(sealed', active'))]_vars

-----------------------------------------------------------------------------
(* The inductive invariants of the theorems. *)

(* The order a caller keeps: a schema with the table's columns has them in *)
(* the order of the table.                                                 *)
KeepOrder ==
  \A schema \in CallerSchemas :
    Len(schema) = Len(Schema) /\ ToSet(Schema) \subseteq ToSet(schema) => schema = Schema

(* The batches of the table: the schema's columns, in its order, all of    *)
(* the same length and with cells of their type.                           *)
CellsOf(dtype) ==
  CASE dtype.kind = "Timestamp" -> Nat
    [] dtype.kind = "I64" -> Nat
    [] dtype.kind = "F64" -> [nan : BOOLEAN, v : Nat]
    [] dtype.kind = "FixedStr" -> [1..dtype.width -> Nat]

ColumnOf(k, values) ==
  [name |-> Schema[k].name, data |-> [dtype |-> Schema[k].dtype, values |-> values]]

BatchOf(grid, rows) ==
  [columns |-> [k \in DOMAIN Schema |-> ColumnOf(k, grid[k])], rows |-> rows]

IsGrid(grid, rows) ==
  /\ rows \in Nat
  /\ grid = [k \in DOMAIN Schema |-> grid[k]]
  /\ \A k \in DOMAIN Schema : grid[k] \in [1..rows -> CellsOf(Schema[k].dtype)]

Grid(batch) == [k \in DOMAIN Schema |-> batch.columns[k].data.values]

TableBatch(batch) ==
  /\ batch = BatchOf(Grid(batch), batch.rows)
  /\ IsGrid(Grid(batch), batch.rows)

(* A record of the log: it is decoded to a batch of the table.             *)
IsRecord(payload) ==
  /\ Decode(Schema, payload).err = NoError
  /\ Decode(Schema, payload) = [err |-> NoError, batch |-> Decode(Schema, payload).batch]
  /\ TableBatch(Decode(Schema, payload).batch)

(* The records behind the boundary give the active batch.                  *)
RecoveryInv ==
  /\ TableBatch(active)
  /\ appended \in Seq(Nat)
  /\ log \in Seq({log[k] : k \in DOMAIN log})
  /\ applied \in 0..Len(log)
  /\ \A k \in DOMAIN log : IsRecord(log[k])
  /\ RecoveryIsExact

(* A segment: a sealed batch, which is read back as it was.                *)
Data(segment) == ReadBatch(Schema, segment).batch

IsSegment(segment) ==
  /\ ReadBatch(Schema, segment) = [err |-> NoError, batch |-> Data(segment)]
  /\ TableBatch(Data(segment))
  /\ Data(segment).rows # 0
  /\ segment = Seal(Schema, segment.id, Data(segment))

(* The table is what its log says, its segments are sealed batches with    *)
(* the ids given so far, and its rows are those appended.                  *)
StorageInv ==
  /\ RecoveryInv
  /\ sealed \in Seq({sealed[k] : k \in DOMAIN sealed})
  /\ next \in Nat
  /\ \A k \in DOMAIN sealed : IsSegment(sealed[k]) /\ sealed[k].id \in Nat /\ sealed[k].id < next
  /\ RowsKept

(* And their timestamps are those there are.                               *)
ScanInv == StorageInv /\ appended \in Seq(Times)

(* The rows are numbered, and no number is beyond the bound.               *)
FilterInv == ScanInv /\ Len(appended) <= MaxRows

(* The integers of a column that is filtered are themselves as floats.     *)
ExactNumbers ==
  \A predicate \in Predicates, k \in DOMAIN Schema :
    Schema[k].name = predicate.column =>
      /\ Schema[k].dtype.kind = "I64" => MaxRows <= FloatExact
      /\ Schema[k].dtype.kind = "Timestamp" => \A time \in Times : time <= FloatExact
=============================================================================
