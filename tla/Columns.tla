------------------------------ MODULE Columns ------------------------------
(***************************************************************************)
(* The columnar data of bypass-db: schemas (schema.rs), row batches        *)
(* (batch.rs), their encoding in the WAL (table.rs) and the column files   *)
(* of sealed segments (segment.rs).                                        *)
(*                                                                         *)
(* A type has a kind and, for strings, a width.  Column data is a type and *)
(* a sequence of values: integers for I64 and Timestamp, records with a    *)
(* flag for NaN for F64, sequences for FixedStr.  Rows are numbered from 0 *)
(* as in the code.  An operation that can fail answers a record whose      *)
(* field err names the error, or NoError.                                  *)
(***************************************************************************)
EXTENDS Integers, FiniteSetsExt, SequencesExt

CONSTANT BadFileNames  \* column names that cannot name a file

NoError == "none"
Failed(err) == [err |-> err]

DType(kind, width) == [kind |-> kind, width |-> width]

(* What a loop with a test, or a filter of an iterator, leaves of a        *)
(* sequence: the elements that are in T, in order.                         *)
Kept(s, T) == FoldLeft(LAMBDA kept, x : IF x \in T THEN Append(kept, x) ELSE kept, <<>>, s)

(* The value of a row; the rows a sequence of indices selects.             *)
ValueOf(values, row) == values[row + 1]
TakeValues(values, indices) == [k \in DOMAIN indices |-> ValueOf(values, indices[k])]

-----------------------------------------------------------------------------
(* schema.rs: the errors of ColumnDef::new and of Schema::new, which looks *)
(* at the columns in order and stops at the first that is wrong.           *)
ColumnError(column) ==
  IF column.name = "" THEN "empty column name"
  ELSE IF column.dtype = DType("FixedStr", 0) THEN "invalid width"
  ELSE NoError

Repeats(columns, k) == \E j \in 1..(k - 1) : columns[j].name = columns[k].name

SecondTimestamp(columns, k) ==
  \E j \in 1..(k - 1) : {columns[j].dtype.kind, columns[k].dtype.kind} = {"Timestamp"}

SchemaError(columns) ==
  LET bad == {k \in DOMAIN columns : Repeats(columns, k) \/ SecondTimestamp(columns, k)}
  IN  IF columns = <<>> THEN "no columns"
      ELSE IF bad # {}
        THEN IF Repeats(columns, Min(bad)) THEN "duplicate column" ELSE "multiple timestamps"
      ELSE IF \A k \in DOMAIN columns : columns[k].dtype.kind # "Timestamp"
        THEN "missing timestamp"
      ELSE NoError

(* The types and column definitions there are, and the schemas the two     *)
(* constructors make of them.                                              *)
DTypes ==
  [kind : {"F64", "I64", "Timestamp"}, width : {0}] \cup [kind : {"FixedStr"}, width : Nat]

ColumnDefs == [name : STRING, dtype : DTypes]

IsSchema(columns) ==
  /\ columns \in Seq(ColumnDefs)
  /\ SchemaError(columns) = NoError
  /\ \A k \in DOMAIN columns : ColumnError(columns[k]) = NoError

TimestampColumn(schema) ==
  schema[SelectInSeq(schema, LAMBDA c : c.dtype.kind = "Timestamp")]

-----------------------------------------------------------------------------
(* batch.rs *)
ColumnData(dtype, values) == [dtype |-> dtype, values |-> values]

HasColumn(batch, name) == \E k \in DOMAIN batch.columns : batch.columns[k].name = name

Column(batch, name) ==
  batch.columns[SelectInSeq(batch.columns, LAMBDA c : c.name = name)].data

EmptyBatch(schema) ==
  [columns |-> [k \in DOMAIN schema |->
                  [name |-> schema[k].name, data |-> ColumnData(schema[k].dtype, <<>>)]],
   rows |-> 0]

(* Data of another variant or another width is not appended.               *)
AppendData(left, right) == [left EXCEPT !.values = @ \o right.values]

(* Columns are appended one by one; at the first name or type that does    *)
(* not fit the loop returns and the columns before it stay appended.       *)
AppendBatch(batch, other) ==
  LET mismatch(k) == \/ batch.columns[k].name # other.columns[k].name
                     \/ batch.columns[k].data.dtype # other.columns[k].data.dtype
      bad == {k \in DOMAIN batch.columns : mismatch(k)}
      done == IF bad = {} THEN Len(batch.columns) ELSE Min(bad) - 1
      extended == [k \in DOMAIN batch.columns |->
                     IF k <= done
                     THEN [batch.columns[k] EXCEPT !.data = AppendData(@, other.columns[k].data)]
                     ELSE batch.columns[k]]
  IN  IF Len(batch.columns) # Len(other.columns)
        THEN [err |-> "schema mismatch", batch |-> batch]
      ELSE IF bad # {}
        THEN [err |-> "mismatch", batch |-> [batch EXCEPT !.columns = extended]]
      ELSE [err |-> NoError,
            batch |-> [columns |-> extended, rows |-> batch.rows + other.rows]]

TakeRows(batch, indices) ==
  [columns |-> [k \in DOMAIN batch.columns |->
                  [batch.columns[k] EXCEPT !.data.values = TakeValues(@, indices)]],
   rows |-> Len(indices)]

(* RowBatchBuilder::build: the schema's columns are looked up by name, the *)
(* first fault of the first column that has one is the error.  Mutant: the *)
(* numbers of rows are not compared.                                       *)
WidthsOk(data) ==
  data.dtype.kind = "FixedStr" =>
    \A k \in DOMAIN data.values : Len(data.values[k]) = data.dtype.width

FaultUncounted(schema, given, name, dtype) ==
  IF ~HasColumn(given, name) THEN "missing column"
  ELSE IF Column(given, name).dtype # dtype THEN "type mismatch"
  ELSE IF ~WidthsOk(Column(given, name)) THEN "width mismatch"
  ELSE NoError

Fault(schema, given, name, dtype) ==
  IF ~HasColumn(given, name) THEN "missing column"
  ELSE IF Column(given, name).dtype # dtype THEN "type mismatch"
  ELSE IF ~WidthsOk(Column(given, name)) THEN "width mismatch"
  ELSE IF /\ HasColumn(given, schema[1].name)
          /\ Len(Column(given, name).values) # Len(Column(given, schema[1].name).values)
    THEN "row count mismatch"
  ELSE NoError

Build(schema, given) ==
  LET faults == {k \in DOMAIN schema :
                   Fault(schema, given, schema[k].name, schema[k].dtype) # NoError}
      first == schema[Min(faults)]
  IN  IF Len(given.columns) # Len(schema) THEN Failed("schema mismatch")
      ELSE IF faults # {} THEN Failed(Fault(schema, given, first.name, first.dtype))
      ELSE [err |-> NoError,
            batch |->
              [columns |-> [k \in DOMAIN schema |->
                              [name |-> schema[k].name, data |-> Column(given, schema[k].name)]],
               rows |-> Len(Column(given, schema[1].name).values)]]

(* table.rs, validate_batch_matches_schema: by name, whatever the order.   *)
Matches(schema, batch) ==
  /\ Len(schema) = Len(batch.columns)
  /\ \A k \in DOMAIN schema :
       /\ HasColumn(batch, schema[k].name)
       /\ Column(batch, schema[k].name).dtype = schema[k].dtype

-----------------------------------------------------------------------------
(* table.rs, encode_batch and decode_batch: a payload is the sequence of   *)
(* the numbers, names, tags and values written, each one field.            *)
Tag(kind) == CASE kind = "F64" -> 0 [] kind = "I64" -> 1
               [] kind = "Timestamp" -> 2 [] kind = "FixedStr" -> 3

EncodeColumn(column) ==
  LET dtype == column.data.dtype
  IN  <<column.name, Tag(dtype.kind)>>
        \o (IF dtype.kind = "FixedStr" THEN <<dtype.width>> ELSE <<>>)
        \o <<Len(column.data.values)>> \o column.data.values

Encode(batch) ==
  <<batch.rows, Len(batch.columns)>>
    \o FlattenSeq([k \in DOMAIN batch.columns |-> EncodeColumn(batch.columns[k])])

(* The data at the head of the fields, and how many fields it takes.       *)
DecodedData(input) ==
  LET string == input[2] = Tag("FixedStr")
      head == IF string THEN 4 ELSE 3
      kind == CHOOSE k \in {"F64", "I64", "Timestamp", "FixedStr"} : Tag(k) = input[2]
  IN  [data |-> ColumnData(DType(kind, IF string THEN input[3] ELSE 0),
                           SubSeq(input, head + 1, head + input[head])),
       taken |-> head + input[head]]

(* A fold over the schema's columns; what is wrong first is the error.     *)
DecodeColumn(state, expected) ==
  IF state.err # NoError THEN state
  ELSE IF state.input = <<>> THEN [state EXCEPT !.err = "unexpected end"]
  ELSE IF state.input[1] # expected.name THEN [state EXCEPT !.err = "column order"]
  ELSE IF state.input[2] \notin 0..3 THEN [state EXCEPT !.err = "unknown tag"]
  ELSE LET read == DecodedData(state.input)
       IN  IF read.data.dtype # expected.dtype THEN [state EXCEPT !.err = "column type"]
           ELSE [err |-> NoError,
                 columns |-> Append(state.columns, [name |-> expected.name, data |-> read.data]),
                 input |-> SubSeq(state.input, read.taken + 1, Len(state.input))]

Decode(schema, payload) ==
  LET start == [err |-> NoError, columns |-> <<>>, input |-> SubSeq(payload, 3, Len(payload))]
      end == FoldLeft(DecodeColumn, start, schema)
  IN  IF payload[2] # Len(schema) THEN Failed("column count")
      ELSE IF end.err # NoError THEN Failed(end.err)
      ELSE IF end.input # <<>> THEN Failed("trailing bytes")
      ELSE [err |-> NoError, batch |-> [columns |-> end.columns, rows |-> payload[1]]]

-----------------------------------------------------------------------------
(* segment.rs: a column file is its length in bytes and its values.        *)
Width(dtype) == IF dtype.kind = "FixedStr" THEN dtype.width ELSE 8

ColumnFile(data) ==
  [bytes |-> Len(data.values) * Width(data.dtype), values |-> data.values]

(* seal_batch fails when the batch lacks a column, a name cannot be a file *)
(* or a string is not as wide as its column.                               *)
SealError(schema, batch) ==
  IF \E k \in DOMAIN schema : ~HasColumn(batch, schema[k].name) THEN "missing column"
  ELSE IF \E k \in DOMAIN schema : schema[k].name \in BadFileNames THEN "file name"
  ELSE IF \E k \in DOMAIN schema : ~WidthsOk(Column(batch, schema[k].name)) THEN "width"
  ELSE NoError

(* The span of time is that of all its rows, sorted or not.                *)
Seal(schema, id, batch) ==
  LET times == ToSet(Column(batch, TimestampColumn(schema).name).values)
  IN  [id |-> id, rows |-> batch.rows,
       min |-> Min(times), max |-> Max(times),
       columns |-> schema,
       files |-> [k \in DOMAIN schema |-> ColumnFile(Column(batch, schema[k].name))]]

File(segment, name) ==
  segment.files[SelectInSeq(segment.columns, LAMBDA c : c.name = name)]

(* read_batch reads the files by name and compares lengths.                *)
ReadBatch(schema, segment) ==
  IF \E k \in DOMAIN schema :
       File(segment, schema[k].name).bytes # segment.rows * Width(schema[k].dtype)
  THEN Failed("length")
  ELSE [err |-> NoError,
        batch |-> [columns |-> [k \in DOMAIN schema |->
                     [name |-> schema[k].name,
                      data |-> ColumnData(schema[k].dtype, File(segment, schema[k].name).values)]],
                   rows |-> segment.rows]]

(* map_column also compares the type with the metadata, and refuses an     *)
(* empty file.                                                             *)
MapError(segment, name, dtype) ==
  LET k == SelectInSeq(segment.columns, LAMBDA c : c.name = name)
  IN  IF k = 0 THEN "missing column"
      ELSE IF segment.columns[k].dtype # dtype THEN "metadata"
      ELSE IF segment.files[k].bytes # segment.rows * Width(dtype) THEN "length"
      ELSE IF segment.files[k].bytes = 0 THEN "empty"
      ELSE NoError

MapColumn(segment, name, dtype) ==
  [dtype |-> dtype, rows |-> segment.rows, values |-> File(segment, name).values]

Overlaps(segment, start, end) == segment.max >= start /\ segment.min < end
=============================================================================
