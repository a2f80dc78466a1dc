----------------------------- MODULE ScanResult -----------------------------
(***************************************************************************)
(* bypass-db/src/scan.rs: the result of a scan and its filters.            *)
(*                                                                         *)
(* A column of a result is a sequence of chunks.  A chunk holds its values *)
(* (the active rows) or a mapped column of a segment and the rows selected *)
(* from it.  A selection keeps its shape - all rows, a range, or a list of *)
(* indices - because the filters read a column whole when it says "all".   *)
(***************************************************************************)
EXTENDS Columns

CONSTANTS
  LaneWidth,   \* how many values a vector register takes: 4 in the code
  I64Min,      \* the least i64
  FloatExact   \* integers beyond this size lose their last bit as f64: 2^53

ASSUME LaneWidthAssumption == LaneWidth \in Nat \ {0}
ASSUME FloatExactAssumption == FloatExact \in Nat

-----------------------------------------------------------------------------
(* RowSelection *)
All(n) == [kind |-> "all", start |-> 0, len |-> n, at |-> <<>>]
Span(start, n) == [kind |-> "range", start |-> start, len |-> n, at |-> <<>>]
Listed(indices) == [kind |-> "indices", start |-> 0, len |-> Len(indices), at |-> indices]

FromIndices(indices, total) ==
  IF indices = [k \in 1..total |-> k - 1] THEN All(total)
  ELSE IF indices = <<>> THEN Span(0, 0)
  ELSE IF \A k \in DOMAIN indices : indices[k] = indices[1] + k - 1
    THEN Span(indices[1], Len(indices))
  ELSE Listed(indices)

(* The mapped row behind a row of the selection.                           *)
IndexAt(rows, local) ==
  IF rows.kind = "indices" THEN rows.at[local + 1] ELSE rows.start + local

SelectedRows(rows) == [k \in 1..rows.len |-> IndexAt(rows, k - 1)]

(* Mutant: rows of the selection are taken for rows of the column.         *)
TakeLocalAsRows(rows, locals) ==
  LET inside == Kept(locals, 0..(rows.len - 1))
  IN  FromIndices(inside, rows.len)

(* Rows behind the end are left out.  The total is the selection's length, *)
(* not the column's, so a range may come out as "all" of fewer rows.       *)
TakeLocal(rows, locals) ==
  LET inside == Kept(locals, 0..(rows.len - 1))
  IN  FromIndices([k \in DOMAIN inside |-> IndexAt(rows, inside[k])], rows.len)

-----------------------------------------------------------------------------
(* Chunks and columns of chunks *)
Owned(values) == [mapped |-> FALSE, values |-> values, rows |-> All(Len(values))]
Mapped(column, rows) == [mapped |-> TRUE, values |-> column.values, rows |-> rows]

ChunkValues(chunk) ==
  LET rows == Kept(SelectedRows(chunk.rows), 0..(Len(chunk.values) - 1))
  IN  TakeValues(chunk.values, rows)

(* f64_values, i64_values, timestamp_values and fixed_str_values.          *)
Flatten(chunks) == FlattenSeq([k \in DOMAIN chunks |-> ChunkValues(chunks[k])])

(* as_f64, as_i64 and as_timestamps lend out a single owned chunk only.    *)
Lendable(chunks) == Len(chunks) = 1 /\ ~chunks[1].mapped

(* How many rows the chunks before chunk k hold.                           *)
Base(chunks, k) == FoldLeft(LAMBDA n, chunk : n + chunk.rows.len, 0, SubSeq(chunks, 1, k - 1))

ChunkOf(chunks, row) ==
  Min({k \in DOMAIN chunks : row < Base(chunks, k) + chunks[k].rows.len})

RowsIn(chunks) == Base(chunks, Len(chunks) + 1)

ValueAt(chunks, row) ==
  LET chunk == chunks[ChunkOf(chunks, row)]
      base == Base(chunks, ChunkOf(chunks, row))
  IN  ValueOf(chunk.values, IndexAt(chunk.rows, row - base))

(* group_indices_by_chunk: a run of indices in one chunk is a group.       *)
AddToGroup(chunks, groups, row) ==
  LET k == ChunkOf(chunks, row)
      local == row - Base(chunks, k)
  IN  IF groups # <<>> /\ Last(groups).chunk = k
      THEN Front(groups) \o <<[chunk |-> k, locals |-> Append(Last(groups).locals, local)]>>
      ELSE Append(groups, [chunk |-> k, locals |-> <<local>>])

GroupByChunk(chunks, indices) ==
  LET inside == Kept(indices, 0..(RowsIn(chunks) - 1))
  IN  FoldLeft(LAMBDA groups, row : AddToGroup(chunks, groups, row), <<>>, inside)

TakeChunk(chunk, locals) ==
  IF chunk.mapped THEN [chunk EXCEPT !.rows = TakeLocal(@, locals)]
  ELSE Owned(TakeValues(chunk.values, locals))

TakeChunks(chunks, indices) ==
  LET groups == GroupByChunk(chunks, indices)
  IN  [g \in DOMAIN groups |-> TakeChunk(chunks[groups[g].chunk], groups[g].locals)]

-----------------------------------------------------------------------------
(* ScanResult *)
ScanColumn(name, dtype, chunks) == [name |-> name, dtype |-> dtype, chunks |-> chunks]

EmptyScan(schema) ==
  [err |-> NoError, rows |-> 0,
   columns |-> [k \in DOMAIN schema |-> ScanColumn(schema[k].name, schema[k].dtype, <<>>)]]

(* append_columns, under append_batch and append_mapped_columns.           *)
WithChunks(columns, more) ==
  [k \in DOMAIN columns |-> [columns[k] EXCEPT !.chunks = @ \o more[k].chunks]]

AppendColumns(result, columns, rows) ==
  IF result.err # NoError THEN result
  ELSE IF \/ Len(columns) < Len(result.columns)
          \/ \E k \in DOMAIN result.columns : columns[k].name # result.columns[k].name
    THEN Failed("column order")
  ELSE IF \E k \in DOMAIN result.columns : columns[k].dtype # result.columns[k].dtype
    THEN Failed("column type")
  ELSE [result EXCEPT
          !.rows = @ + rows,
          !.columns = WithChunks(@, columns)]

AppendOwned(result, batch) ==
  LET column(k) == LET c == batch.columns[k]
                   IN  ScanColumn(c.name, c.data.dtype, <<Owned(c.data.values)>>)
  IN  AppendColumns(result, [k \in DOMAIN batch.columns |-> column(k)], batch.rows)

TakeColumns(columns, indices) ==
  [k \in DOMAIN columns |-> [columns[k] EXCEPT !.chunks = TakeChunks(@, indices)]]

TakeScan(result, indices) ==
  [result EXCEPT !.rows = Len(indices), !.columns = TakeColumns(@, indices)]

-----------------------------------------------------------------------------
(* The vectorised filters of module simd.  A value at or behind the last   *)
(* whole vector is tested alone.                                           *)
Float(v) == [nan |-> FALSE, v |-> v]
NaN == [nan |-> TRUE, v |-> 0]
Less(a, b) == ~a.nan /\ ~b.nan /\ a.v < b.v
AtLeast(a, b) == ~a.nan /\ ~b.nan /\ a.v >= b.v

(* The rows whose test passed, numbered from zero.                         *)
Indices(passes) ==
  Kept([k \in DOMAIN passes |-> k - 1], {k - 1 : k \in {j \in DOMAIN passes : passes[j]}})

InVector(values, k) == k <= LaneWidth * (Len(values) \div LaneWidth)

(* A vector compares with start - 1, or not at all when there is none.     *)
(* Mutant: the vector compares with start.                                 *)
RangeI64Above(values, start, end) ==
  Indices([k \in DOMAIN values |->
    IF InVector(values, k) THEN end > values[k] /\ (start = I64Min \/ values[k] > start)
                           ELSE values[k] >= start /\ values[k] < end])

RangeI64(values, start, end) ==
  Indices([k \in DOMAIN values |->
    IF InVector(values, k) THEN end > values[k] /\ (start = I64Min \/ values[k] > start - 1)
                           ELSE values[k] >= start /\ values[k] < end])

RangeF64(values, min, max) ==
  Indices([k \in DOMAIN values |-> AtLeast(values[k], min) /\ Less(values[k], max)])

GtF64(values, threshold) == Indices([k \in DOMAIN values |-> Less(threshold, values[k])])

VectorFilter(values, predicate) ==
  IF predicate.kind = "range" THEN RangeF64(values, predicate.min, predicate.max)
                              ELSE GtF64(values, predicate.min)

(* A chunk's answer is of rows of the chunk: a column mapped as a whole is *)
(* filtered as one array, any other selection row by row.                  *)
FilterChunk(chunk, predicate) ==
  VectorFilter(IF chunk.rows.kind = "all" THEN chunk.values ELSE ChunkValues(chunk), predicate)

FilterChunks(chunks, predicate) ==
  FlattenSeq([k \in DOMAIN chunks |->
    LET local == FilterChunk(chunks[k], predicate)
    IN  [j \in DOMAIN local |-> Base(chunks, k) + local[j]]])

-----------------------------------------------------------------------------
(* Predicates: a range and a threshold are of floats, a scalar of strings. *)
RangePredicate(column, min, max) ==
  [column |-> column, kind |-> "range", min |-> min, max |-> max]
GtPredicate(column, threshold) == [column |-> column, kind |-> "gt", min |-> threshold]
ScalarPredicate(column, value) == [column |-> column, kind |-> "scalar", value |-> value]

(* value as f64: an odd integer beyond FloatExact goes to a neighbour.     *)
AsF64(v) ==
  Float(IF v > FloatExact \/ v < -FloatExact THEN 2 * ((v + 1) \div 2) ELSE v)

TestF64(predicate, value) ==
  CASE predicate.kind = "range" -> AtLeast(value, predicate.min) /\ Less(value, predicate.max)
    [] predicate.kind = "gt" -> Less(predicate.min, value)
    [] predicate.kind = "scalar" -> FALSE

TestAt(column, row, predicate) ==
  LET value == ValueAt(column.chunks, row)
  IN  CASE column.dtype.kind = "F64" -> TestF64(predicate, value)
        [] column.dtype.kind \in {"I64", "Timestamp"} -> TestF64(predicate, AsF64(value))
        [] column.dtype.kind = "FixedStr" ->
             predicate.kind = "scalar" /\ value = predicate.value

(* filter_scan_indices *)
FilterScan(result, predicate) ==
  LET k == SelectInSeq(result.columns, LAMBDA c : c.name = predicate.column)
      column == result.columns[k]
      vectors == column.dtype.kind = "F64" /\ predicate.kind # "scalar"
  IN  IF k = 0 THEN Failed("unknown column")
      ELSE [err |-> NoError,
            indices |->
              IF vectors THEN FilterChunks(column.chunks, predicate)
              ELSE Kept([r \in 1..result.rows |-> r - 1],
                        {row \in 0..(result.rows - 1) : TestAt(column, row, predicate)})]
=============================================================================
