-------------------------- MODULE TableScanProofs --------------------------
(***************************************************************************)
(* Theorems about TableScan, for any schema, any appends and any bounds:   *)
(* what recovery makes of the log, which rows a table has, in which order, *)
(* that a scan shows those of its range, and a filter those of them that   *)
(* satisfy its predicate.  Most of the lemmas say what the operators of    *)
(* Columns do to batches of the table's columns, which TableBatch          *)
(* describes, or what those of ScanResult make of its segments and of the  *)
(* chunks of a result, which ScanOf describes.                             *)
(***************************************************************************)
EXTENDS TableScan, FiniteSetTheorems, SequenceTheorems, WellFoundedInduction,
        TLAPS

-----------------------------------------------------------------------------
(* A set of natural numbers has a least one.                               *)
LEMMA LeastNumber ==
  ASSUME NEW S \in SUBSET Nat, S # {}
  PROVE  Min(S) \in S /\ \A y \in S : Min(S) <= y
<1> DEFINE lt == {ss \in Nat \X Nat : ss[1] < ss[2]}
<1>1. OpToRel(<, Nat) = lt
  BY DEF OpToRel
<1>2. IsWellFoundedOn(lt, Nat)
  BY <1>1, NatLessThanWellFounded
<1> HIDE DEF lt
<1>3. PICK x \in S : \A y \in S : ~ (<<y, x>> \in lt)
  BY <1>2, WFMin
<1>4. \A y \in S : ~ (y < x)
  BY <1>3 DEF lt
<1>5. \A y \in S : x <= y
  BY <1>4
<1> QED BY <1>5 DEF Min

LEMMA MinOfOne == \A k \in Int : Min({k}) = k
<1> TAKE k \in Int
<1>1. k \in {k} /\ \A y \in {k} : k <= y
  OBVIOUS
<1> QED BY <1>1 DEF Min

(* Induction over the natural numbers, for a set of them: the least number *)
(* that is not in S would have a predecessor that is.                      *)
LEMMA EveryNat ==
  \A S : 0 \in S /\ (\A k \in Nat : k \in S => k + 1 \in S) => \A n \in Nat : n \in S
<1> TAKE S
<1> HAVE 0 \in S /\ \A k \in Nat : k \in S => k + 1 \in S
<1> DEFINE T == {n \in Nat : n \notin S}
<1>1. ASSUME T # {} PROVE FALSE
  <2>1. Min(T) \in T /\ \A y \in T : Min(T) <= y
    BY <1>1, LeastNumber
  <2>2. Min(T) \in Nat /\ Min(T) # 0 /\ Min(T) \notin S
    BY <2>1
  <2>3. Min(T) - 1 \in Nat /\ (Min(T) - 1) + 1 = Min(T)
    BY <2>2
  <2>4. Min(T) - 1 \in T
    BY <2>2, <2>3
  <2> QED BY <2>1, <2>2, <2>4
<1> QED BY <1>1

(* The greatest number of a part of 1..n+1 that holds n+1.                 *)
LEMMA LastIsMax ==
  ASSUME NEW n \in Nat, NEW x \in SUBSET (1..(n + 1)), n + 1 \in x
  PROVE  /\ Max(x) = n + 1
         /\ x \ {n + 1} \in SUBSET (1..n)
<1>1. \A y \in x : n + 1 >= y
  OBVIOUS
<1>2. \A z \in x : (\A y \in x : z >= y) => z = n + 1
  OBVIOUS
<1>3. Max(x) = n + 1
  BY <1>1, <1>2 DEF Max
<1> QED BY <1>3

LEMMA MaxBelow ==
  ASSUME NEW n \in Nat, NEW x \in SUBSET (1..(n + 1)), n + 1 \notin x
  PROVE  x \in SUBSET (1..n)
  OBVIOUS

-----------------------------------------------------------------------------
(* Folds.  The function a fold is defined with exists: it is extended by   *)
(* one number at a time.  What the fold computes is the last of a sequence *)
(* of results, each made from the one before.                              *)
JoinOn(g, base, s, n) ==
  g = [x \in SUBSET (1..n) |-> IF x = {} THEN base ELSE AddBatch(g[x \ {Max(x)}], s[Max(x)])]

LEMMA JoinExists ==
  ASSUME NEW base, NEW s, NEW n \in Nat
  PROVE  \E g : JoinOn(g, base, s, n)
<1> DEFINE P(k) == \E g : JoinOn(g, base, s, k)
           S == {k \in Nat : P(k)}
<1>1. P(0)
  <2> DEFINE g == [x \in SUBSET (1..0) |-> base]
  <2>1. \A x \in SUBSET (1..0) : x = {}
    OBVIOUS
  <2>2. JoinOn(g, base, s, 0)
    BY <2>1 DEF JoinOn
  <2> QED BY <2>2
<1>2. ASSUME NEW k \in Nat, P(k) PROVE P(k + 1)
  <2>1. PICK g : JoinOn(g, base, s, k)
    BY <1>2
  <2> DEFINE h == [x \in SUBSET (1..(k + 1)) |->
                     IF k + 1 \in x THEN AddBatch(g[x \ {k + 1}], s[k + 1]) ELSE g[x]]
  <2>2. ASSUME NEW x \in SUBSET (1..(k + 1))
        PROVE  h[x] = IF x = {} THEN base ELSE AddBatch(h[x \ {Max(x)}], s[Max(x)])
    <3>1. CASE k + 1 \in x
      <4>1. Max(x) = k + 1 /\ x \ {k + 1} \in SUBSET (1..k) /\ x # {}
        BY <3>1, LastIsMax
      <4>2. x \ {k + 1} \in SUBSET (1..(k + 1)) /\ k + 1 \notin x \ {k + 1}
        BY <4>1
      <4>3. h[x \ {k + 1}] = g[x \ {k + 1}]
        BY <4>2
      <4>4. h[x] = AddBatch(g[x \ {k + 1}], s[k + 1])
        BY <3>1
      <4> QED BY <4>1, <4>3, <4>4
    <3>2. CASE k + 1 \notin x
      <4>1. x \in SUBSET (1..k)
        BY <3>2, MaxBelow
      <4>2. x \ {Max(x)} \in SUBSET (1..(k + 1)) /\ k + 1 \notin x \ {Max(x)}
        BY <3>2
      <4>3. h[x] = g[x] /\ h[x \ {Max(x)}] = g[x \ {Max(x)}]
        BY <3>2, <4>2
      <4> HIDE DEF h
      <4>4. g[x] = IF x = {} THEN base ELSE AddBatch(g[x \ {Max(x)}], s[Max(x)])
        BY <2>1, <4>1 DEF JoinOn
      <4> QED BY <4>3, <4>4
    <3> QED BY <3>1, <3>2
  <2>3. JoinOn(h, base, s, k + 1)
    BY <2>2 DEF JoinOn
  <2> HIDE DEF h
  <2> QED BY <2>3
<1> HIDE DEF P
<1>3. 0 \in S /\ \A k \in Nat : k \in S => k + 1 \in S
  BY <1>1, <1>2
<1>4. n \in S
  BY <1>3, EveryNat
<1>5. P(n)
  BY <1>4
<1> QED BY <1>5 DEF P

LEMMA JoinedSteps ==
  ASSUME NEW R, NEW reads \in Seq(R)
  PROVE  \E a : /\ a[0] = [err |-> NoError, batch |-> EmptyBatch(Schema)]
                /\ \A k \in 0..(Len(reads) - 1) : a[k + 1] = AddBatch(a[k], reads[k + 1])
                /\ Joined(reads) = a[Len(reads)]
<1> DEFINE n == Len(reads)
           base == [err |-> NoError, batch |-> EmptyBatch(Schema)]
           g == CHOOSE g : JoinOn(g, base, reads, n)
           a == [k \in 0..n |-> g[1..k]]
<1>1. n \in Nat /\ DOMAIN reads = 1..n
  BY LenProperties
<1>2. Joined(reads) = g[1..n]
  BY <1>1 DEF Joined, FoldLeft, MapThenFoldSet, JoinOn
<1> HIDE DEF base, n
<1>3. \E h : JoinOn(h, base, reads, n)
  BY <1>1, JoinExists
<1>4. JoinOn(g, base, reads, n)
  BY <1>3
<1> HIDE DEF g
<1>5. a[0] = base
  BY <1>1, <1>4 DEF JoinOn
<1>6. ASSUME NEW k \in 0..(n - 1) PROVE a[k + 1] = AddBatch(a[k], reads[k + 1])
  <2>1. k \in Nat /\ k + 1 \in 0..n /\ k \in 0..n
    BY <1>1
  <2>2. 1..(k + 1) \in SUBSET (1..n) /\ k + 1 \in 1..(k + 1) /\ 1..k = (1..(k + 1)) \ {k + 1}
    BY <1>1, <2>1
  <2>3. Max(1..(k + 1)) = k + 1
    BY <2>1, <2>2, LastIsMax
  <2>4. g[1..(k + 1)] = AddBatch(g[1..k], reads[k + 1])
    BY <1>4, <2>2, <2>3 DEF JoinOn
  <2> QED BY <2>1, <2>4
<1>7. Joined(reads) = a[n]
  BY <1>1, <1>2
<1> QED BY <1>5, <1>6, <1>7 DEF base, n

-----------------------------------------------------------------------------
(* Batches of the table. *)

GridJoin(a, b) == [k \in DOMAIN Schema |-> a[k] \o b[k]]

(* The schema is a sequence of definitions with different names, one of    *)
(* them of timestamps.                                                     *)
N == Len(Schema)

LEMMA SchemaIsSeq == N \in Nat /\ DOMAIN Schema = 1..N /\ Schema \in Seq(ColumnDefs) /\ N # 0
<1>1. Schema \in Seq(ColumnDefs)
  BY SchemaAssumption DEF IsSchema
<1>2. Schema # <<>>
  BY SchemaAssumption DEF IsSchema, SchemaError, NoError
<1> QED BY <1>1, <1>2, LenProperties, EmptySeq DEF N

LEMMA SchemaTypes ==
  \A k \in DOMAIN Schema : Schema[k] \in ColumnDefs /\ Schema[k].dtype \in DTypes
<1>1. \A k \in DOMAIN Schema : Schema[k] \in ColumnDefs
  BY SchemaIsSeq
<1> QED BY <1>1 DEF ColumnDefs

LEMMA BatchOfGrid ==
  ASSUME NEW grid, NEW rows, IsGrid(grid, rows)
  PROVE  /\ TableBatch(BatchOf(grid, rows))
         /\ Grid(BatchOf(grid, rows)) = grid
         /\ BatchOf(grid, rows).rows = rows
<1>1. BatchOf(grid, rows).rows = rows
  BY DEF BatchOf
<1>2. \A k \in DOMAIN Schema : BatchOf(grid, rows).columns[k].data.values = grid[k]
  BY DEF BatchOf, ColumnOf
<1>3. Grid(BatchOf(grid, rows)) = grid
  BY <1>2 DEF Grid, IsGrid
<1> QED BY <1>1, <1>3 DEF TableBatch

LEMMA EmptyIsTable == TableBatch(EmptyBatch(Schema)) /\ EmptyBatch(Schema).rows = 0
<1> DEFINE grid == [k \in DOMAIN Schema |-> <<>>]
<1>1. IsGrid(grid, 0)
  <2>1. \A C : <<>> \in [1..0 -> C]
    OBVIOUS
  <2> QED BY <2>1 DEF IsGrid
<1>2. EmptyBatch(Schema) = BatchOf(grid, 0)
  BY DEF EmptyBatch, BatchOf, ColumnOf, ColumnData
<1> QED BY <1>1, <1>2, BatchOfGrid

LEMMA JoinRows ==
  ASSUME NEW C, NEW m \in Nat, NEW n \in Nat, NEW s \in [1..m -> C], NEW t \in [1..n -> C]
  PROVE  /\ s \o t \in [1..(m + n) -> C]
         /\ \A i \in 1..m : (s \o t)[i] = s[i]
         /\ \A i \in 1..n : (s \o t)[m + i] = t[i]
<1>1. s \in Seq(C) /\ t \in Seq(C) /\ Len(s) = m /\ Len(t) = n
  OBVIOUS
<1>2. /\ s \o t \in Seq(C) /\ Len(s \o t) = m + n
      /\ \A i \in 1..(m + n) : (s \o t)[i] = IF i <= m THEN s[i] ELSE t[i - m]
  BY <1>1, ConcatProperties
<1>3. s \o t \in [1..(m + n) -> C]
  BY <1>2, LenProperties
<1>4. \A i \in 1..n : m + i \in 1..(m + n) /\ ~ (m + i <= m) /\ (m + i) - m = i
  OBVIOUS
<1>5. \A i \in 1..m : i \in 1..(m + n) /\ i <= m
  OBVIOUS
<1> HIDE <1>1
<1> QED BY <1>2, <1>3, <1>4, <1>5

LEMMA GridsJoin ==
  ASSUME NEW a, NEW m, IsGrid(a, m), NEW b, NEW n, IsGrid(b, n)
  PROVE  IsGrid(GridJoin(a, b), m + n)
<1>1. m + n \in Nat
  BY DEF IsGrid
<1>2. \A k \in DOMAIN Schema : a[k] \o b[k] \in [1..(m + n) -> CellsOf(Schema[k].dtype)]
  BY JoinRows DEF IsGrid
<1> QED BY <1>1, <1>2 DEF IsGrid, GridJoin

(* The columns of a batch of the table.                                    *)
LEMMA ColumnsOfTable ==
  ASSUME NEW batch, TableBatch(batch)
  PROVE  /\ DOMAIN batch.columns = 1..N /\ Len(batch.columns) = N
         /\ \A k \in 1..N : batch.columns[k] = ColumnOf(k, Grid(batch)[k])
<1>1. batch.columns = [k \in 1..N |-> ColumnOf(k, Grid(batch)[k])]
  BY SchemaIsSeq DEF TableBatch, BatchOf
<1> QED BY <1>1, SchemaIsSeq

LEMMA ColumnFields ==
  ASSUME NEW k, NEW values
  PROVE  /\ ColumnOf(k, values).name = Schema[k].name
         /\ ColumnOf(k, values).data = ColumnData(Schema[k].dtype, values)
         /\ ColumnOf(k, values).data.dtype = Schema[k].dtype
         /\ ColumnOf(k, values).data.values = values
  BY DEF ColumnOf, ColumnData

(* Batches of the table can be appended, column by column.                 *)
LEMMA TablesAppend ==
  ASSUME NEW a, TableBatch(a), NEW b, TableBatch(b)
  PROVE  AppendBatch(a, b) =
           [err |-> NoError, batch |-> BatchOf(GridJoin(Grid(a), Grid(b)), a.rows + b.rows)]
<1> DEFINE mismatch(k) == \/ a.columns[k].name # b.columns[k].name
                          \/ a.columns[k].data.dtype # b.columns[k].data.dtype
           bad == {k \in DOMAIN a.columns : mismatch(k)}
           done == IF bad = {} THEN Len(a.columns) ELSE Min(bad) - 1
           extended == [k \in DOMAIN a.columns |->
                     IF k <= done
                     THEN [a.columns[k] EXCEPT !.data = AppendData(@, b.columns[k].data)]
                     ELSE a.columns[k]]
<1>1. /\ DOMAIN a.columns = 1..N /\ Len(a.columns) = N
      /\ DOMAIN b.columns = 1..N /\ Len(b.columns) = N
      /\ \A k \in 1..N : /\ a.columns[k] = ColumnOf(k, Grid(a)[k])
                         /\ b.columns[k] = ColumnOf(k, Grid(b)[k])
  BY ColumnsOfTable
<1>2. bad = {}
  BY <1>1, ColumnFields
<1>3. done = N
  BY <1>1, <1>2
<1> HIDE DEF done, bad
<1>4. ASSUME NEW k \in 1..N
      PROVE  extended[k] = ColumnOf(k, Grid(a)[k] \o Grid(b)[k])
  <2>1. k <= done
    BY <1>3, SchemaIsSeq
  <2>2. extended[k] = [a.columns[k] EXCEPT !.data = AppendData(@, b.columns[k].data)]
    BY <1>1, <2>1
  <2>3. extended[k] = [ColumnOf(k, Grid(a)[k]) EXCEPT !.data =
                         AppendData(@, ColumnOf(k, Grid(b)[k]).data)]
    BY <1>1, <2>2
  <2> HIDE DEF extended
  <2> QED BY <2>3 DEF AppendData, ColumnOf
<1>5. extended = [k \in 1..N |-> ColumnOf(k, Grid(a)[k] \o Grid(b)[k])]
  BY <1>1, <1>4
<1>6. AppendBatch(a, b) = [err |-> NoError, batch |-> [columns |-> extended, rows |-> a.rows + b.rows]]
  BY <1>1, <1>2 DEF AppendBatch, done, bad
<1> QED BY <1>5, <1>6, SchemaIsSeq DEF BatchOf, GridJoin

-----------------------------------------------------------------------------
(* What a builder makes *)

(* The names of a schema differ, and it has a column of timestamps.        *)
LEMMA SchemaFacts ==
  ASSUME NEW S, IsSchema(S)
  PROVE  /\ S \in Seq(ColumnDefs) /\ Len(S) \in Nat /\ DOMAIN S = 1..Len(S) /\ 1 \in 1..Len(S)
         /\ \A j, k \in 1..Len(S) : S[j].name = S[k].name => j = k
         /\ \E k \in 1..Len(S) : S[k].dtype.kind = "Timestamp"
         /\ \A k \in 1..Len(S) : S[k].dtype # DType("FixedStr", 0)
         /\ \A j, k \in 1..Len(S) :
              S[j].dtype.kind = "Timestamp" /\ S[k].dtype.kind = "Timestamp" => j = k
<1> DEFINE bad == {k \in DOMAIN S : Repeats(S, k) \/ SecondTimestamp(S, k)}
<1>1. S \in Seq(ColumnDefs) /\ Len(S) \in Nat /\ DOMAIN S = 1..Len(S)
  BY LenProperties DEF IsSchema
<1>2. S # <<>> /\ bad = {} /\ ~ \A k \in DOMAIN S : S[k].dtype.kind # "Timestamp"
  <2>1. SchemaError(S) = "none"
    BY DEF IsSchema, NoError
  <2>2. S # <<>>
    BY <2>1 DEF SchemaError
  <2>3. bad = {}
    BY <2>1, <2>2 DEF SchemaError
  <2>4. ~ \A k \in DOMAIN S : S[k].dtype.kind # "Timestamp"
    BY <2>1, <2>2, <2>3 DEF SchemaError
  <2> QED BY <2>2, <2>3, <2>4
<1>3. \A k \in 1..Len(S) : \A j \in 1..(k - 1) : S[j].name # S[k].name
  BY <1>1, <1>2 DEF Repeats
<1>4. \A j, k \in 1..Len(S) : S[j].name = S[k].name => j = k
  BY <1>1, <1>3
<1>5. \A k \in 1..Len(S) : \A j \in 1..(k - 1) :
        ~ (S[j].dtype.kind = "Timestamp" /\ S[k].dtype.kind = "Timestamp")
  BY <1>1, <1>2 DEF SecondTimestamp
<1>6. \A j, k \in 1..Len(S) :
        S[j].dtype.kind = "Timestamp" /\ S[k].dtype.kind = "Timestamp" => j = k
  BY <1>1, <1>5
<1>7. \A k \in 1..Len(S) : S[k].dtype # DType("FixedStr", 0)
  BY <1>1 DEF IsSchema, ColumnError, NoError
<1>8. 1 \in 1..Len(S)
  BY <1>1, <1>2, EmptySeq
<1> QED BY <1>1, <1>2, <1>4, <1>6, <1>7, <1>8

(* A column is found by its name when no other has it.                     *)
(* The columns of batch are n, and the only one with the name is column k. *)
OnlyAt(batch, n, k, name) ==
  /\ n \in Nat /\ Len(batch.columns) = n /\ DOMAIN batch.columns = 1..n
  /\ k \in 1..n /\ batch.columns[k].name = name
  /\ \A j \in 1..n : batch.columns[j].name = name => j = k

LEMMA ColumnAt ==
  ASSUME NEW batch, NEW n, NEW k, NEW name, OnlyAt(batch, n, k, name)
  PROVE  HasColumn(batch, name) /\ Column(batch, name) = batch.columns[k].data
<1>1. {j \in 1..Len(batch.columns) : batch.columns[j].name = name} = {k} /\ k \in 1..Len(batch.columns)
  BY DEF OnlyAt
<1>2. Column(batch, name) = batch.columns[k].data
  BY <1>1, MinOfOne DEF Column, SelectInSeq
<1>3. HasColumn(batch, name)
  BY DEF HasColumn, OnlyAt
<1> QED BY <1>2, <1>3

(* The columns a caller gives, in the reverse order.                       *)
LEMMA GivenColumns ==
  ASSUME NEW S, IsSchema(S), NEW times, NEW fault
  PROVE  /\ fault = "missing" => Len(Given(S, times, fault).columns) # Len(S)
         /\ fault # "missing" =>
              \A k \in 1..Len(S) :
                /\ HasColumn(Given(S, times, fault), S[k].name)
                /\ Column(Given(S, times, fault), S[k].name) = GivenData(S[k], times, fault)
<1> DEFINE n == Len(S)
           column(k) == [name |-> S[k].name, data |-> GivenData(S[k], times, fault)]
           columns == [k \in DOMAIN S |-> column(k)]
           given == Given(S, times, fault)
<1>1. n \in Nat /\ DOMAIN S = 1..n /\ 1 \in 1..n /\ \A j, k \in 1..n : S[j].name = S[k].name => j = k
  BY SchemaFacts
<1>2. columns = [k \in 1..n |-> column(k)] /\ columns \in Seq({column(k) : k \in 1..n}) /\ Len(columns) = n
  BY <1>1
<1>3. CASE fault = "missing"
  <2>1. given.columns = Tail(columns)
    BY <1>3 DEF Given
  <2> HIDE DEF columns
  <2>2. Len(Tail(columns)) = n - 1
    BY <1>1, <1>2, HeadTailProperties, EmptySeq
  <2> HIDE DEF n, given
  <2>3. Len(given.columns) # n
    BY <1>1, <2>1, <2>2
  <2> QED BY <1>3, <2>3 DEF given, n
<1>4. CASE fault # "missing"
  <2>1. given.columns = [i \in 1..n |-> columns[(n - i) + 1]]
    BY <1>2, <1>4 DEF Given, Reverse
  <2>2. given.columns = [i \in 1..n |-> column((n - i) + 1)]
    BY <1>1, <1>2, <2>1
  <2> HIDE DEF given, columns, n
  <2>3. Len(given.columns) = n /\ DOMAIN given.columns = 1..n
    BY <1>1, <2>2
  <2>4. \A i \in 1..n : /\ given.columns[i].name = S[(n - i) + 1].name
                        /\ given.columns[i].data = GivenData(S[(n - i) + 1], times, fault)
    BY <2>2
  <2>5. ASSUME NEW k \in 1..n
        PROVE  HasColumn(given, S[k].name) /\ Column(given, S[k].name) = GivenData(S[k], times, fault)
    <3>1. (n - k) + 1 \in 1..n /\ (n - ((n - k) + 1)) + 1 = k
      BY <1>1
    <3>2. \A i \in 1..n : given.columns[i].name = S[k].name => i = (n - k) + 1
      <4> TAKE i \in 1..n
      <4> HAVE given.columns[i].name = S[k].name
      <4>1. (n - i) + 1 \in 1..n
        BY <1>1
      <4>2. (n - i) + 1 = k
        BY <1>1, <2>4, <4>1
      <4> QED BY <1>1, <4>2
    <3>3. given.columns[(n - k) + 1].name = S[k].name
      BY <2>4, <3>1
    <3>4. /\ HasColumn(given, S[k].name)
          /\ Column(given, S[k].name) = given.columns[(n - k) + 1].data
      <4>1. PICK b, last, j, name : b = given /\ last = n /\ j = (n - k) + 1 /\ name = S[k].name
        OBVIOUS
      <4>2. OnlyAt(b, last, j, name)
        BY <1>1, <2>3, <3>1, <3>2, <3>3, <4>1 DEF OnlyAt
      <4>3. HasColumn(b, name) /\ Column(b, name) = b.columns[j].data
        BY ONLY <4>2, ColumnAt
      <4> QED BY ONLY <4>1, <4>3
    <3>5. given.columns[(n - k) + 1].data = GivenData(S[k], times, fault)
      BY <2>4, <3>1
    <3> QED BY <3>4, <3>5
  <2> QED BY <1>4, <2>5 DEF given, n
<1> QED BY <1>3, <1>4

(* Cells are of their column's type.                                       *)
LEMMA CellTyped ==
  ASSUME NEW dtype \in DTypes, NEW number \in Nat, NEW time \in Nat
  PROVE  Cell(dtype, number, time) \in CellsOf(dtype)
<1>1. dtype.kind \in {"F64", "I64", "Timestamp", "FixedStr"}
  BY DEF DTypes
<1>2. CASE dtype.kind = "Timestamp"
  BY <1>2 DEF Cell, CellsOf
<1>3. CASE dtype.kind = "I64"
  BY <1>3 DEF Cell, CellsOf
<1>4. CASE dtype.kind = "F64"
  <2>1. NaN \in [nan : BOOLEAN, v : Nat] /\ Float(number) \in [nan : BOOLEAN, v : Nat]
    BY DEF NaN, Float
  <2>2. Cell(dtype, number, time) = IF number % 2 = 0 THEN NaN ELSE Float(number)
    BY <1>4 DEF Cell
  <2>3. CellsOf(dtype) = [nan : BOOLEAN, v : Nat]
    BY <1>4 DEF CellsOf
  <2> QED BY <2>1, <2>2, <2>3
<1>5. CASE dtype.kind = "FixedStr"
  BY <1>5 DEF Cell, CellsOf
<1> QED BY <1>1, <1>2, <1>3, <1>4, <1>5

LEMMA ValuesTyped ==
  ASSUME NEW dtype \in DTypes, NEW times \in Seq(Nat), Len(appended) \in Nat
  PROVE  /\ Values(dtype, times) \in [1..Len(times) -> CellsOf(dtype)]
         /\ Values(dtype, times) \in Seq(CellsOf(dtype))
         /\ Len(Values(dtype, times)) = Len(times)
<1>1. Len(times) \in Nat /\ DOMAIN times = 1..Len(times) /\ \A k \in 1..Len(times) : times[k] \in Nat
  OBVIOUS
<1>2. \A k \in 1..Len(times) : Cell(dtype, Len(appended) + k, times[k]) \in CellsOf(dtype)
  <2> TAKE k \in 1..Len(times)
  <2>1. Len(appended) + k \in Nat
    BY <1>1
  <2> QED BY <1>1, <2>1, CellTyped
<1>3. Values(dtype, times) \in [1..Len(times) -> CellsOf(dtype)]
  BY <1>1, <1>2 DEF Values
<1> HIDE DEF Values
<1> QED BY <1>1, <1>3

(* A built batch has no fault in any column.                               *)
LEMMA BuiltFaultless ==
  ASSUME NEW S, IsSchema(S), NEW given, Build(S, given).err = NoError
  PROVE  /\ Len(given.columns) = Len(S)
         /\ \A k \in 1..Len(S) : Fault(S, given, S[k].name, S[k].dtype) = NoError
         /\ Build(S, given).batch =
              [columns |-> [k \in DOMAIN S |->
                              [name |-> S[k].name, data |-> Column(given, S[k].name)]],
               rows |-> Len(Column(given, S[1].name).values)]
<1> DEFINE faults == {k \in DOMAIN S : Fault(S, given, S[k].name, S[k].dtype) # NoError}
           first == S[Min(faults)]
           batch == [columns |-> [k \in DOMAIN S |->
                              [name |-> S[k].name, data |-> Column(given, S[k].name)]],
                     rows |-> Len(Column(given, S[1].name).values)]
<1>1. Build(S, given) =
        IF Len(given.columns) # Len(S) THEN Failed("schema mismatch")
        ELSE IF faults # {} THEN Failed(Fault(S, given, first.name, first.dtype))
        ELSE [err |-> NoError, batch |-> batch]
  BY DEF Build
<1>2. DOMAIN S = 1..Len(S) /\ Len(S) \in Nat
  BY SchemaFacts
<1>3. faults # {} => Fault(S, given, first.name, first.dtype) # NoError
  <2>1. faults \in SUBSET Nat
    BY <1>2
  <2>2. faults # {} => Min(faults) \in faults
    BY <2>1, LeastNumber
  <2> QED BY <2>2
<1> HIDE DEF first, batch, faults
<1>4. Len(given.columns) = Len(S)
  <2>1. Failed("schema mismatch").err # NoError
    BY DEF Failed, NoError
  <2> QED BY <1>1, <2>1
<1>5. faults = {}
  BY <1>1, <1>3, <1>4 DEF Failed
<1>6. Build(S, given) = [err |-> NoError, batch |-> batch]
  BY <1>1, <1>4, <1>5
<1> QED BY <1>2, <1>4, <1>5, <1>6 DEF faults, batch

LEMMA Faultless ==
  ASSUME NEW S, NEW given, NEW name, NEW dtype, Fault(S, given, name, dtype) = NoError
  PROVE  /\ HasColumn(given, name)
         /\ Column(given, name).dtype = dtype
         /\ WidthsOk(Column(given, name))
         /\ HasColumn(given, S[1].name) =>
              Len(Column(given, name).values) = Len(Column(given, S[1].name).values)
  BY DEF Fault, NoError

(* A fault a caller makes does not pass the builder, or there is no column *)
(* for it in the schema: what is built is what was meant.                  *)
LEMMA BuildsValues ==
  ASSUME NEW S, IsSchema(S), NEW times \in Seq(Nat), times # <<>>, NEW fault, Len(appended) \in Nat,
         Build(S, Given(S, times, fault)).err = NoError
  PROVE  Build(S, Given(S, times, fault)).batch =
           [columns |-> [k \in DOMAIN S |->
              [name |-> S[k].name, data |-> ColumnData(S[k].dtype, Values(S[k].dtype, times))]],
            rows |-> Len(times)]
<1> DEFINE given == Given(S, times, fault)
           n == Len(S)
           data(k) == GivenData(S[k], times, fault)
           meant(k) == ColumnData(S[k].dtype, Values(S[k].dtype, times))
<1>1. /\ n \in Nat /\ DOMAIN S = 1..n /\ 1 \in 1..n
      /\ \A k \in 1..n : S[k] \in ColumnDefs /\ S[k].dtype \in DTypes /\ S[k].dtype # DType("FixedStr", 0)
  <2>1. S \in Seq(ColumnDefs)
    BY SchemaFacts
  <2>2. \A k \in 1..n : S[k] \in ColumnDefs
    BY <2>1, ElementOfSeq
  <2> HIDE DEF n
  <2>3. \A k \in 1..n : S[k].dtype \in DTypes
    BY <2>2 DEF ColumnDefs
  <2> QED BY <2>2, <2>3, SchemaFacts DEF n
<1>2. /\ Len(given.columns) = n
      /\ \A k \in 1..n : Fault(S, given, S[k].name, S[k].dtype) = NoError
      /\ Build(S, given).batch =
           [columns |-> [k \in DOMAIN S |-> [name |-> S[k].name, data |-> Column(given, S[k].name)]],
            rows |-> Len(Column(given, S[1].name).values)]
  BY BuiltFaultless
<1>3. /\ fault # "missing"
      /\ \A k \in 1..n : HasColumn(given, S[k].name) /\ Column(given, S[k].name) = data(k)
  BY <1>2, GivenColumns
<1>4. \A k \in 1..n : /\ data(k).dtype = S[k].dtype
                      /\ WidthsOk(data(k))
                      /\ Len(data(k).values) = Len(data(1).values)
  <2> HIDE DEF data, given, n
  <2>1. ASSUME NEW k \in 1..n
        PROVE  /\ data(k).dtype = S[k].dtype
               /\ WidthsOk(data(k))
               /\ Len(data(k).values) = Len(data(1).values)
    <3>1. Fault(S, given, S[k].name, S[k].dtype) = NoError
      BY <1>2
    <3>2. /\ HasColumn(given, S[1].name) /\ Column(given, S[1].name) = data(1)
          /\ Column(given, S[k].name) = data(k)
      BY <1>1, <1>3
    <3> QED BY <3>1, <3>2, Faultless
  <2> QED BY <2>1
<1>5. \A dtype \in DTypes : Len(Values(dtype, times)) = Len(times)
  BY ValuesTyped
<1>6. Len(data(1).values) = Len(times)
  <2>1. PICK k \in 1..n : S[k].dtype.kind = "Timestamp"
    BY SchemaFacts
  <2>2. data(k) = meant(k)
    BY <2>1 DEF GivenData
  <2>3. Len(data(k).values) = Len(times)
    BY <1>1, <1>5, <2>2 DEF ColumnData
  <2> QED BY <1>4, <2>3
<1>7. ASSUME NEW k \in 1..n PROVE data(k) = meant(k)
  <2>1. CASE fault = "ragged" /\ S[k].dtype.kind = "I64"
    <3>1. data(k) = ColumnData(S[k].dtype, Append(Values(S[k].dtype, times), 0))
      BY <2>1 DEF GivenData
    <3>2. Values(S[k].dtype, times) \in Seq(Nat) /\ Len(Values(S[k].dtype, times)) = Len(times)
      BY <1>1, <2>1, ValuesTyped DEF CellsOf
    <3>3. Len(data(k).values) = Len(times) + 1
      BY <3>1, <3>2, AppendProperties DEF ColumnData
    <3>4. Len(times) \in Nat
      OBVIOUS
    <3> QED BY <1>4, <1>6, <3>3, <3>4
  <2>2. CASE fault = "type" /\ S[k].dtype.kind = "I64"
    <3>1. data(k) = ColumnData(DType("Timestamp", 0), times)
      BY <2>2 DEF GivenData
    <3>2. data(k).dtype.kind = "Timestamp"
      BY <3>1 DEF ColumnData, DType
    <3> QED BY <1>4, <2>2, <3>2
  <2>3. CASE fault = "wide" /\ S[k].dtype.kind = "FixedStr"
    <3>1. data(k) = ColumnData(S[k].dtype, [i \in DOMAIN times |-> <<>>])
      BY <2>3 DEF GivenData
    <3>2. 1 \in DOMAIN times
      BY EmptySeq
    <3>3. \A i \in DOMAIN data(k).values : Len(data(k).values[i]) = data(k).dtype.width
      BY <1>4, <2>3 DEF WidthsOk
    <3>4. data(k).values = [i \in DOMAIN times |-> <<>>] /\ data(k).dtype = S[k].dtype
      BY <3>1 DEF ColumnData
    <3>5. S[k].dtype.width = 0
      BY <3>2, <3>3, <3>4, EmptySeq
    <3>6. S[k].dtype = DType("FixedStr", 0)
      BY <1>1, <2>3, <3>5 DEF DTypes, DType
    <3> QED BY <1>1, <3>6
  <2>4. CASE /\ ~ (fault = "ragged" /\ S[k].dtype.kind = "I64")
             /\ ~ (fault = "type" /\ S[k].dtype.kind = "I64")
             /\ ~ (fault = "wide" /\ S[k].dtype.kind = "FixedStr")
    BY <2>4 DEF GivenData
  <2> QED BY <2>1, <2>2, <2>3, <2>4
<1>8. \A k \in 1..n : Column(given, S[k].name) = meant(k)
  BY <1>3, <1>7
<1>9. Len(Column(given, S[1].name).values) = Len(times)
  BY <1>1, <1>3, <1>6
<1> HIDE DEF given, n, data
<1>10. Build(S, given).batch = [columns |-> [k \in DOMAIN S |-> [name |-> S[k].name, data |-> meant(k)]],
                                rows |-> Len(times)]
  BY <1>1, <1>2, <1>8, <1>9
<1> QED BY <1>10 DEF given

AppendedBatch(times) ==
  BatchOf([k \in DOMAIN Schema |-> Values(Schema[k].dtype, times)], Len(times))

LEMMA AppendsTable ==
  ASSUME KeepOrder, NEW S \in CallerSchemas, NEW times \in Seq(Nat), times # <<>>, NEW fault,
         Len(appended) \in Nat,
         Build(S, Given(S, times, fault)).err = NoError,
         Matches(Schema, Build(S, Given(S, times, fault)).batch)
  PROVE  /\ Build(S, Given(S, times, fault)).batch = AppendedBatch(times)
         /\ TableBatch(AppendedBatch(times))
         /\ AppendedBatch(times).rows = Len(times)
         /\ Grid(AppendedBatch(times)) = [k \in DOMAIN Schema |-> Values(Schema[k].dtype, times)]
<1> DEFINE batch == Build(S, Given(S, times, fault)).batch
           data(k) == ColumnData(S[k].dtype, Values(S[k].dtype, times))
<1>1. IsSchema(S) /\ IsSchema(Schema)
  BY SchemaAssumption
<1>2. batch = [columns |-> [k \in DOMAIN S |-> [name |-> S[k].name, data |-> data(k)]],
               rows |-> Len(times)]
  BY <1>1, BuildsValues
<1> HIDE DEF batch
<1>m. Matches(Schema, batch)
  BY DEF batch
<1>3. /\ Len(S) \in Nat /\ DOMAIN S = 1..Len(S) /\ S \in Seq(ColumnDefs)
      /\ \A j, k \in 1..Len(S) : S[j].name = S[k].name => j = k
  BY <1>1, SchemaFacts
<1>4. /\ Len(batch.columns) = Len(S) /\ DOMAIN batch.columns = 1..Len(S)
      /\ \A k \in 1..Len(S) : /\ batch.columns[k].name = S[k].name
                              /\ batch.columns[k].data = data(k)
  <2>1. batch.columns = [k \in 1..Len(S) |-> [name |-> S[k].name, data |-> data(k)]]
    BY <1>2, <1>3
  <2> HIDE DEF data
  <2> QED BY <1>3, <2>1
<1>5. Len(S) = N
  BY <1>4, <1>m DEF Matches, N
<1>6. \A k \in 1..N : \E j \in 1..N : S[j] = Schema[k]
  <2> TAKE k \in 1..N
  <2>1. /\ HasColumn(batch, Schema[k].name)
        /\ Column(batch, Schema[k].name).dtype = Schema[k].dtype
    BY <1>m, SchemaIsSeq DEF Matches
  <2>2. PICK j \in 1..N : batch.columns[j].name = Schema[k].name
    BY <1>4, <1>5, <2>1 DEF HasColumn
  <2>3. S[j].name = Schema[k].name
    BY <1>4, <1>5, <2>2
  <2>4. Column(batch, Schema[k].name) = batch.columns[j].data
    <3>1. \A i \in 1..N : batch.columns[i].name = Schema[k].name => i = j
      BY <1>3, <1>4, <1>5, <2>3
    <3>2. N \in Nat /\ Len(batch.columns) = N /\ DOMAIN batch.columns = 1..N
      BY <1>3, <1>4, <1>5
    <3>3. j \in 1..N
      OBVIOUS
    <3>4. PICK b, last, name : b = batch /\ last = N /\ name = Schema[k].name
      OBVIOUS
    <3>5. OnlyAt(b, last, j, name)
      BY <2>2, <3>1, <3>2, <3>3, <3>4 DEF OnlyAt
    <3>6. Column(b, name) = b.columns[j].data
      BY ONLY <3>5, ColumnAt
    <3> QED BY ONLY <3>4, <3>6
  <2>5. S[j].dtype = Schema[k].dtype
    <3>1. data(j).dtype = S[j].dtype
      BY DEF ColumnData
    <3> HIDE DEF data
    <3> QED BY <1>4, <1>5, <2>1, <2>4, <3>1
  <2>6. S[j] \in ColumnDefs /\ Schema[k] \in ColumnDefs
    BY <1>3, <1>5, SchemaIsSeq, ElementOfSeq DEF N
  <2>7. S[j] = Schema[k]
    BY <2>3, <2>5, <2>6 DEF ColumnDefs
  <2> QED BY <2>7
<1>7. ToSet(Schema) \subseteq ToSet(S)
  <2>1. DOMAIN S = 1..N /\ DOMAIN Schema = 1..N
    BY <1>3, <1>5, SchemaIsSeq
  <2> QED BY ONLY <2>1, <1>6 DEF ToSet
<1>8. S = Schema
  BY <1>5, <1>7 DEF KeepOrder, N
<1> DEFINE grid == [k \in DOMAIN Schema |-> Values(Schema[k].dtype, times)]
<1>9. IsGrid(grid, Len(times))
  <2>1. \A k \in DOMAIN Schema : Schema[k].dtype \in DTypes
    BY SchemaTypes
  <2> QED BY <2>1, ValuesTyped, LenProperties DEF IsGrid
<1>10. batch = BatchOf(grid, Len(times))
  BY <1>2, <1>8 DEF BatchOf, ColumnOf, ColumnData
<1> HIDE DEF grid
<1> QED BY <1>9, <1>10, BatchOfGrid DEF AppendedBatch, batch, grid

(* The fold of decode_batch over the columns, likewise.                    *)
Decoded(base, s) == FoldLeft(DecodeColumn, base, s)

DecodeOn(g, base, s, n) ==
  g = [x \in SUBSET (1..n) |-> IF x = {} THEN base ELSE DecodeColumn(g[x \ {Max(x)}], s[Max(x)])]

LEMMA DecodeExists ==
  ASSUME NEW base, NEW s, NEW n \in Nat
  PROVE  \E g : DecodeOn(g, base, s, n)
<1> DEFINE P(k) == \E g : DecodeOn(g, base, s, k)
           S == {k \in Nat : P(k)}
<1>1. P(0)
  <2> DEFINE g == [x \in SUBSET (1..0) |-> base]
  <2>1. \A x \in SUBSET (1..0) : x = {}
    OBVIOUS
  <2>2. DecodeOn(g, base, s, 0)
    BY <2>1 DEF DecodeOn
  <2> QED BY <2>2
<1>2. ASSUME NEW k \in Nat, P(k) PROVE P(k + 1)
  <2>1. PICK g : DecodeOn(g, base, s, k)
    BY <1>2
  <2> DEFINE h == [x \in SUBSET (1..(k + 1)) |->
                     IF k + 1 \in x THEN DecodeColumn(g[x \ {k + 1}], s[k + 1]) ELSE g[x]]
  <2>2. ASSUME NEW x \in SUBSET (1..(k + 1))
        PROVE  h[x] = IF x = {} THEN base ELSE DecodeColumn(h[x \ {Max(x)}], s[Max(x)])
    <3>1. CASE k + 1 \in x
      <4>1. Max(x) = k + 1 /\ x \ {k + 1} \in SUBSET (1..k) /\ x # {}
        BY <3>1, LastIsMax
      <4>2. x \ {k + 1} \in SUBSET (1..(k + 1)) /\ k + 1 \notin x \ {k + 1}
        BY <4>1
      <4>3. h[x \ {k + 1}] = g[x \ {k + 1}]
        BY <4>2
      <4>4. h[x] = DecodeColumn(g[x \ {k + 1}], s[k + 1])
        BY <3>1
      <4> QED BY <4>1, <4>3, <4>4
    <3>2. CASE k + 1 \notin x
      <4>1. x \in SUBSET (1..k)
        BY <3>2, MaxBelow
      <4>2. x \ {Max(x)} \in SUBSET (1..(k + 1)) /\ k + 1 \notin x \ {Max(x)}
        BY <3>2
      <4>3. h[x] = g[x] /\ h[x \ {Max(x)}] = g[x \ {Max(x)}]
        BY <3>2, <4>2
      <4> HIDE DEF h
      <4>4. g[x] = IF x = {} THEN base ELSE DecodeColumn(g[x \ {Max(x)}], s[Max(x)])
        BY <2>1, <4>1 DEF DecodeOn
      <4> QED BY <4>3, <4>4
    <3> QED BY <3>1, <3>2
  <2>3. DecodeOn(h, base, s, k + 1)
    BY <2>2 DEF DecodeOn
  <2> HIDE DEF h
  <2> QED BY <2>3
<1> HIDE DEF P
<1>3. 0 \in S /\ \A k \in Nat : k \in S => k + 1 \in S
  BY <1>1, <1>2
<1>4. n \in S
  BY <1>3, EveryNat
<1>5. P(n)
  BY <1>4
<1> QED BY <1>5 DEF P

LEMMA DecodeSteps ==
  ASSUME NEW base, NEW R, NEW s \in Seq(R)
  PROVE  \E a : /\ a[0] = base
                /\ \A k \in 0..(Len(s) - 1) : a[k + 1] = DecodeColumn(a[k], s[k + 1])
                /\ Decoded(base, s) = a[Len(s)]
<1> DEFINE n == Len(s)
           start == base
           g == CHOOSE g : DecodeOn(g, start, s, n)
           a == [k \in 0..n |-> g[1..k]]
<1>1. n \in Nat /\ DOMAIN s = 1..n
  BY LenProperties
<1>2. Decoded(base, s) = g[1..n]
  BY <1>1 DEF Decoded, FoldLeft, MapThenFoldSet, DecodeOn
<1> HIDE DEF start, n
<1>3. \E h : DecodeOn(h, start, s, n)
  BY <1>1, DecodeExists
<1>4. DecodeOn(g, start, s, n)
  BY <1>3
<1> HIDE DEF g
<1>5. a[0] = start
  BY <1>1, <1>4 DEF DecodeOn
<1>6. ASSUME NEW k \in 0..(n - 1) PROVE a[k + 1] = DecodeColumn(a[k], s[k + 1])
  <2>1. k \in Nat /\ k + 1 \in 0..n /\ k \in 0..n
    BY <1>1
  <2>2. 1..(k + 1) \in SUBSET (1..n) /\ k + 1 \in 1..(k + 1) /\ 1..k = (1..(k + 1)) \ {k + 1}
    BY <1>1, <2>1
  <2>3. Max(1..(k + 1)) = k + 1
    BY <2>1, <2>2, LastIsMax
  <2>4. g[1..(k + 1)] = DecodeColumn(g[1..k], s[k + 1])
    BY <1>4, <2>2, <2>3 DEF DecodeOn
  <2> QED BY <2>1, <2>4
<1>7. Decoded(base, s) = a[n]
  BY <1>1, <1>2
<1> QED BY <1>5, <1>6, <1>7 DEF start, n

(* The fold of Kept, likewise.                                             *)
Keep(T, kept, x) == IF x \in T THEN Append(kept, x) ELSE kept

KeepOn(g, T, base, s, n) ==
  g = [x \in SUBSET (1..n) |-> IF x = {} THEN base ELSE Keep(T, g[x \ {Max(x)}], s[Max(x)])]

LEMMA KeepExists ==
  ASSUME NEW T, NEW base, NEW s, NEW n \in Nat
  PROVE  \E g : KeepOn(g, T, base, s, n)
<1> DEFINE P(k) == \E g : KeepOn(g, T, base, s, k)
           S == {k \in Nat : P(k)}
<1>1. P(0)
  <2> DEFINE g == [x \in SUBSET (1..0) |-> base]
  <2>1. \A x \in SUBSET (1..0) : x = {}
    OBVIOUS
  <2>2. KeepOn(g, T, base, s, 0)
    BY <2>1 DEF KeepOn
  <2> QED BY <2>2
<1>2. ASSUME NEW k \in Nat, P(k) PROVE P(k + 1)
  <2>1. PICK g : KeepOn(g, T, base, s, k)
    BY <1>2
  <2> DEFINE h == [x \in SUBSET (1..(k + 1)) |->
                     IF k + 1 \in x THEN Keep(T, g[x \ {k + 1}], s[k + 1]) ELSE g[x]]
  <2>2. ASSUME NEW x \in SUBSET (1..(k + 1))
        PROVE  h[x] = IF x = {} THEN base ELSE Keep(T, h[x \ {Max(x)}], s[Max(x)])
    <3>1. CASE k + 1 \in x
      <4>1. Max(x) = k + 1 /\ x \ {k + 1} \in SUBSET (1..k) /\ x # {}
        BY <3>1, LastIsMax
      <4>2. x \ {k + 1} \in SUBSET (1..(k + 1)) /\ k + 1 \notin x \ {k + 1}
        BY <4>1
      <4>3. h[x \ {k + 1}] = g[x \ {k + 1}]
        BY <4>2
      <4>4. h[x] = Keep(T, g[x \ {k + 1}], s[k + 1])
        BY <3>1
      <4> QED BY <4>1, <4>3, <4>4
    <3>2. CASE k + 1 \notin x
      <4>1. x \in SUBSET (1..k)
        BY <3>2, MaxBelow
      <4>2. x \ {Max(x)} \in SUBSET (1..(k + 1)) /\ k + 1 \notin x \ {Max(x)}
        BY <3>2
      <4>3. h[x] = g[x] /\ h[x \ {Max(x)}] = g[x \ {Max(x)}]
        BY <3>2, <4>2
      <4> HIDE DEF h
      <4>4. g[x] = IF x = {} THEN base ELSE Keep(T, g[x \ {Max(x)}], s[Max(x)])
        BY <2>1, <4>1 DEF KeepOn
      <4> QED BY <4>3, <4>4
    <3> QED BY <3>1, <3>2
  <2>3. KeepOn(h, T, base, s, k + 1)
    BY <2>2 DEF KeepOn
  <2> HIDE DEF h
  <2> QED BY <2>3
<1> HIDE DEF P
<1>3. 0 \in S /\ \A k \in Nat : k \in S => k + 1 \in S
  BY <1>1, <1>2
<1>4. n \in S
  BY <1>3, EveryNat
<1>5. P(n)
  BY <1>4
<1> QED BY <1>5 DEF P

LEMMA KeptSteps ==
  ASSUME NEW T, NEW R, NEW s \in Seq(R)
  PROVE  \E a : /\ a[0] = <<>>
                /\ \A k \in 0..(Len(s) - 1) : a[k + 1] = Keep(T, a[k], s[k + 1])
                /\ Kept(s, T) = a[Len(s)]
<1> DEFINE n == Len(s)
           start == <<>>
           g == CHOOSE g : KeepOn(g, T, start, s, n)
           a == [k \in 0..n |-> g[1..k]]
<1>1. n \in Nat /\ DOMAIN s = 1..n
  BY LenProperties
<1>2. Kept(s, T) = g[1..n]
  BY <1>1 DEF Kept, Keep, FoldLeft, MapThenFoldSet, KeepOn
<1> HIDE DEF start, n
<1>3. \E h : KeepOn(h, T, start, s, n)
  BY <1>1, KeepExists
<1>4. KeepOn(g, T, start, s, n)
  BY <1>3
<1> HIDE DEF g
<1>5. a[0] = start
  BY <1>1, <1>4 DEF KeepOn
<1>6. ASSUME NEW k \in 0..(n - 1) PROVE a[k + 1] = Keep(T, a[k], s[k + 1])
  <2>1. k \in Nat /\ k + 1 \in 0..n /\ k \in 0..n
    BY <1>1
  <2>2. 1..(k + 1) \in SUBSET (1..n) /\ k + 1 \in 1..(k + 1) /\ 1..k = (1..(k + 1)) \ {k + 1}
    BY <1>1, <2>1
  <2>3. Max(1..(k + 1)) = k + 1
    BY <2>1, <2>2, LastIsMax
  <2>4. g[1..(k + 1)] = Keep(T, g[1..k], s[k + 1])
    BY <1>4, <2>2, <2>3 DEF KeepOn
  <2> QED BY <2>1, <2>4
<1>7. Kept(s, T) = a[n]
  BY <1>1, <1>2
<1> QED BY <1>5, <1>6, <1>7 DEF start, n

-----------------------------------------------------------------------------
(* Flattening: the function FlattenSeq is defined with exists, its values  *)
(* are the concatenations of the first sequences, and every sequence is    *)
(* found whole at its own place in the result.                             *)
FlattenOn(f, seqs, n) ==
  f = [i \in 1..n |-> IF i = 1 THEN seqs[i] ELSE f[i - 1] \o seqs[i]]

LEMMA FlattenExists ==
  ASSUME NEW seqs, NEW n \in Nat
  PROVE  \E f : FlattenOn(f, seqs, n)
<1> DEFINE P(k) == \E f : FlattenOn(f, seqs, k)
           S == {k \in Nat : P(k)}
<1>1. P(0)
  <2> DEFINE g == [i \in 1..0 |-> <<>>]
  <2>1. FlattenOn(g, seqs, 0)
    BY DEF FlattenOn
  <2> QED BY <2>1
<1>2. ASSUME NEW k \in Nat, P(k) PROVE P(k + 1)
  <2>1. PICK g : FlattenOn(g, seqs, k)
    BY <1>2
  <2> DEFINE last == IF k + 1 = 1 THEN seqs[k + 1] ELSE g[k] \o seqs[k + 1]
             h == [i \in 1..(k + 1) |-> IF i = k + 1 THEN last ELSE g[i]]
  <2>2. ASSUME NEW i \in 1..(k + 1)
        PROVE  h[i] = IF i = 1 THEN seqs[i] ELSE h[i - 1] \o seqs[i]
    <3>1. CASE i = k + 1
      <4>1. k # 0 => k \in 1..(k + 1) /\ k # k + 1
        OBVIOUS
      <4>2. k # 0 => h[k] = g[k]
        BY <4>1
      <4> QED BY <3>1, <4>2
    <3>2. CASE i # k + 1
      <4>1. i \in 1..k /\ (i # 1 => i - 1 \in 1..(k + 1) /\ i - 1 # k + 1)
        BY <3>2
      <4>2. h[i] = g[i] /\ (i # 1 => h[i - 1] = g[i - 1])
        BY <4>1, <3>2
      <4> HIDE DEF h
      <4>3. g[i] = IF i = 1 THEN seqs[i] ELSE g[i - 1] \o seqs[i]
        BY <2>1, <4>1 DEF FlattenOn
      <4> QED BY <4>2, <4>3
    <3> QED BY <3>1, <3>2
  <2>3. FlattenOn(h, seqs, k + 1)
    BY <2>2 DEF FlattenOn
  <2> HIDE DEF h
  <2> QED BY <2>3
<1> HIDE DEF P
<1>3. 0 \in S /\ \A k \in Nat : k \in S => k + 1 \in S
  BY <1>1, <1>2
<1>4. n \in S
  BY <1>3, EveryNat
<1>5. P(n)
  BY <1>4
<1> QED BY <1>5 DEF P

LEMMA ConcatAt ==
  ASSUME NEW C, NEW s \in Seq(C), NEW t \in Seq(C)
  PROVE  /\ s \o t \in Seq(C)
         /\ Len(s) \in Nat /\ Len(t) \in Nat /\ Len(s \o t) = Len(s) + Len(t)
         /\ \A i \in 1..Len(s) : (s \o t)[i] = s[i]
         /\ \A i \in 1..Len(t) : (s \o t)[Len(s) + i] = t[i]
<1>1. Len(s) \in Nat /\ Len(t) \in Nat
  BY LenProperties
<1>2. /\ s \o t \in Seq(C) /\ Len(s \o t) = Len(s) + Len(t)
      /\ \A i \in 1..(Len(s) + Len(t)) : (s \o t)[i] = IF i <= Len(s) THEN s[i] ELSE t[i - Len(s)]
  BY ConcatProperties
<1>3. \A m, n \in Nat : \A i \in 1..n : m + i \in 1..(m + n) /\ ~ (m + i <= m) /\ (m + i) - m = i
  OBVIOUS
<1>4. \A m, n \in Nat : \A i \in 1..m : i \in 1..(m + n) /\ i <= m
  OBVIOUS
<1> QED BY ONLY <1>1, <1>2, <1>3, <1>4

LEMMA FlattenSteps ==
  ASSUME NEW C, NEW seqs \in Seq(Seq(C))
  PROVE  \E a \in [0..Len(seqs) -> Seq(C)] :
           /\ a[0] = <<>>
           /\ \A k \in 0..(Len(seqs) - 1) : a[k + 1] = a[k] \o seqs[k + 1]
           /\ FlattenSeq(seqs) = a[Len(seqs)]
<1> DEFINE n == Len(seqs)
           g == CHOOSE g : FlattenOn(g, seqs, n)
           a == [k \in 0..n |-> IF k = 0 THEN <<>> ELSE g[k]]
<1>1. n \in Nat /\ \A k \in 1..n : seqs[k] \in Seq(C)
  BY LenProperties, ElementOfSeq
<1>2. FlattenOn(g, seqs, n)
  <2>1. \E f : FlattenOn(f, seqs, n)
    BY <1>1, FlattenExists
  <2> QED BY <2>1
<1>3. FlattenSeq(seqs) = a[n]
  <2>1. CASE n = 0
    <3>1. seqs = <<>>
      BY <2>1, EmptySeq
    <3> QED BY <2>1, <3>1 DEF FlattenSeq
  <2>2. CASE n # 0
    <3>1. FlattenSeq(seqs) = g[n]
      BY <2>2 DEF FlattenSeq, FlattenOn
    <3> QED BY <1>1, <2>2, <3>1
  <2> QED BY <2>1, <2>2
<1> HIDE DEF g, n
<1>4. ASSUME NEW k \in 0..(n - 1)
      PROVE  a[k + 1] = IF k = 0 THEN seqs[1] ELSE a[k] \o seqs[k + 1]
  <2>1. k \in Nat /\ k + 1 \in 1..n /\ k + 1 \in 0..n /\ k \in 0..n /\ (k + 1) - 1 = k
    BY <1>1
  <2>2. g[k + 1] = IF k + 1 = 1 THEN seqs[k + 1] ELSE g[(k + 1) - 1] \o seqs[k + 1]
    BY <1>2, <2>1 DEF FlattenOn
  <2>3. a[k + 1] = g[k + 1] /\ (k # 0 => a[k] = g[k])
    BY <2>1
  <2> HIDE DEF a
  <2> QED BY <2>1, <2>2, <2>3
<1>5. a[0] = <<>>
  BY <1>1
<1> HIDE DEF a
<1>6. ASSUME NEW k \in 0..(n - 1) PROVE a[k + 1] = a[k] \o seqs[k + 1]
  <2>1. CASE k = 0
    <3>1. 1 \in 1..n
      BY <1>1, <2>1
    <3>2. <<>> \o seqs[1] = seqs[1]
      BY <1>1, <3>1, ConcatEmptySeq
    <3>3. 0 + 1 = 1 /\ a[k + 1] = seqs[1]
      BY <1>4, <2>1
    <3> QED BY ONLY <1>5, <2>1, <3>2, <3>3
  <2>2. CASE k # 0
    BY <1>4, <2>2
  <2> QED BY <2>1, <2>2
<1>7. \A k \in 0..n : a[k] \in Seq(C)
  <2> DEFINE S == {k \in Nat : k <= n => a[k] \in Seq(C)}
  <2>1. 0 \in S
    BY <1>5, EmptySeq
  <2>2. \A k \in Nat : k \in S => k + 1 \in S
    <3>1. ASSUME NEW k \in Nat, k + 1 <= n, k <= n => a[k] \in Seq(C) PROVE a[k + 1] \in Seq(C)
      <4>1. k \in 0..(n - 1) /\ k + 1 \in 1..n /\ a[k] \in Seq(C)
        BY <1>1, <3>1
      <4>2. seqs[k + 1] \in Seq(C) /\ a[k + 1] = a[k] \o seqs[k + 1]
        BY <1>1, <1>6, <4>1
      <4> QED BY <4>1, <4>2, ConcatAt
    <3> QED BY <3>1
  <2> HIDE DEF S
  <2>3. \A k \in Nat : k \in S
    BY <2>1, <2>2, EveryNat
  <2> QED BY <1>1, <2>3 DEF S
<1>8. a \in [0..n -> Seq(C)]
  <2>1. a = [k \in 0..n |-> a[k]]
    BY DEF a
  <2> QED BY <1>7, <2>1
<1> QED BY <1>3, <1>5, <1>6, <1>8 DEF n

LEMMA FlattenLayout ==
  ASSUME NEW C, NEW seqs \in Seq(Seq(C))
  PROVE  /\ FlattenSeq(seqs) \in Seq(C)
         /\ \E at \in [0..Len(seqs) -> Nat] :
              /\ at[0] = 0
              /\ at[Len(seqs)] = Len(FlattenSeq(seqs))
              /\ \A k \in 0..(Len(seqs) - 1) :
                   /\ at[k + 1] = at[k] + Len(seqs[k + 1])
                   /\ at[k + 1] <= at[Len(seqs)]
                   /\ \A i \in 1..Len(seqs[k + 1]) : FlattenSeq(seqs)[at[k] + i] = seqs[k + 1][i]
<1> DEFINE n == Len(seqs)
<1>1. n \in Nat /\ \A k \in 1..n : seqs[k] \in Seq(C) /\ Len(seqs[k]) \in Nat
  BY LenProperties, ElementOfSeq
<1>2. PICK a \in [0..n -> Seq(C)] :
        /\ a[0] = <<>>
        /\ \A k \in 0..(n - 1) : a[k + 1] = a[k] \o seqs[k + 1]
        /\ FlattenSeq(seqs) = a[n]
  BY FlattenSteps
<1> DEFINE at == [k \in 0..n |-> Len(a[k])]
<1> HIDE DEF n
<1>3. \A k \in 0..n : a[k] \in Seq(C) /\ at[k] = Len(a[k]) /\ at[k] \in Nat
  BY LenProperties
<1>4. at \in [0..n -> Nat]
  BY <1>3
<1>5. at[0] = 0
  BY <1>1, <1>2, <1>3, EmptySeq
<1> HIDE DEF at
<1>6. ASSUME NEW k \in 0..(n - 1)
      PROVE  /\ at[k + 1] = at[k] + Len(seqs[k + 1])
             /\ at[k] \in Nat /\ at[k + 1] \in Nat /\ Len(seqs[k + 1]) \in Nat
             /\ \A i \in 1..at[k] : a[k + 1][i] = a[k][i]
             /\ \A i \in 1..Len(seqs[k + 1]) : a[k + 1][at[k] + i] = seqs[k + 1][i]
  <2>1. k \in 0..n /\ k + 1 \in 0..n /\ k + 1 \in 1..n
    BY <1>1
  <2>2. a[k] \in Seq(C) /\ seqs[k + 1] \in Seq(C) /\ a[k + 1] = a[k] \o seqs[k + 1]
    BY <1>1, <1>2, <1>3, <2>1
  <2>3. at[k] = Len(a[k]) /\ at[k + 1] = Len(a[k + 1]) /\ at[k] \in Nat /\ at[k + 1] \in Nat
    BY <1>3, <2>1
  <2>4. PICK s \in Seq(C), t \in Seq(C) : s = a[k] /\ t = seqs[k + 1]
    BY <2>2
  <2>5. /\ Len(t) \in Nat /\ Len(s \o t) = Len(s) + Len(t)
        /\ \A i \in 1..Len(s) : (s \o t)[i] = s[i]
        /\ \A i \in 1..Len(t) : (s \o t)[Len(s) + i] = t[i]
    BY ConcatAt
  <2>6. a[k + 1] = s \o t
    BY <2>2, <2>4
  <2> QED BY ONLY <2>3, <2>4, <2>5, <2>6
<1> DEFINE Q(m) == \A k \in 0..(m - 1) :
                     /\ at[k + 1] <= at[m]
                     /\ \A i \in 1..Len(seqs[k + 1]) : a[m][at[k] + i] = seqs[k + 1][i]
           S == {m \in Nat : m <= n => Q(m)}
<1>7. Q(0)
  OBVIOUS
<1>8. ASSUME NEW m \in Nat, m + 1 <= n, Q(m) PROVE Q(m + 1)
  <2>1. ASSUME NEW k \in 0..((m + 1) - 1)
        PROVE  /\ at[k + 1] <= at[m + 1]
               /\ \A i \in 1..Len(seqs[k + 1]) : a[m + 1][at[k] + i] = seqs[k + 1][i]
    <3>1. m \in 0..(n - 1)
      BY <1>1, <1>8
    <3>2. CASE k = m
      BY <1>6, <3>1, <3>2
    <3>3. CASE k # m
      <4>1. k \in 0..(m - 1) /\ k \in 0..(n - 1)
        BY <1>1, <3>1, <3>3
      <4>2. at[k + 1] <= at[m] /\ \A i \in 1..Len(seqs[k + 1]) : a[m][at[k] + i] = seqs[k + 1][i]
        BY <1>8, <4>1
      <4>3. /\ at[k + 1] = at[k] + Len(seqs[k + 1])
            /\ at[k] \in Nat /\ at[k + 1] \in Nat /\ Len(seqs[k + 1]) \in Nat
        BY <1>6, <4>1
      <4>4. /\ at[m + 1] = at[m] + Len(seqs[m + 1])
            /\ at[m] \in Nat /\ at[m + 1] \in Nat /\ Len(seqs[m + 1]) \in Nat
            /\ \A i \in 1..at[m] : a[m + 1][i] = a[m][i]
        BY <1>6, <3>1
      <4>5. \A x, y, z \in Nat : \A i \in 1..y : x + y <= z => x + i \in 1..z
        OBVIOUS
      <4>6. \A i \in 1..Len(seqs[k + 1]) : at[k] + i \in 1..at[m]
        BY ONLY <4>2, <4>3, <4>4, <4>5
      <4>7. at[k + 1] <= at[m + 1]
        BY ONLY <4>2, <4>3, <4>4
      <4> QED BY ONLY <4>2, <4>4, <4>6, <4>7
    <3> QED BY <3>2, <3>3
  <2> QED BY <2>1
<1> HIDE DEF Q
<1>9. 0 \in S /\ \A m \in Nat : m \in S => m + 1 \in S
  BY <1>1, <1>7, <1>8
<1> HIDE DEF S
<1>10. n \in S
  BY <1>1, <1>9, EveryNat
<1>11. Q(n)
  BY <1>1, <1>10 DEF S
<1>12. FlattenSeq(seqs) = a[n] /\ at[n] = Len(a[n]) /\ a[n] \in Seq(C)
  BY <1>1, <1>2, <1>3
<1>13. \A k \in 0..(n - 1) :
         /\ at[k + 1] = at[k] + Len(seqs[k + 1])
         /\ at[k + 1] <= at[n]
         /\ \A i \in 1..Len(seqs[k + 1]) : FlattenSeq(seqs)[at[k] + i] = seqs[k + 1][i]
  BY <1>6, <1>11, <1>12 DEF Q
<1> QED BY <1>4, <1>5, <1>12, <1>13 DEF n

-----------------------------------------------------------------------------
(* Decoding what was encoded *)

Fields == STRING \cup Nat \cup UNION {CellsOf(dtype) : dtype \in DTypes}

LEMMA Tags ==
  /\ \A kind \in {"F64", "I64", "Timestamp", "FixedStr"} :
       /\ Tag(kind) \in 0..3
       /\ (CHOOSE k \in {"F64", "I64", "Timestamp", "FixedStr"} : Tag(k) = Tag(kind)) = kind
       /\ Tag(kind) = Tag("FixedStr") <=> kind = "FixedStr"
<1>1. Tag("F64") = 0 /\ Tag("I64") = 1 /\ Tag("Timestamp") = 2 /\ Tag("FixedStr") = 3
  BY DEF Tag
<1> QED BY <1>1

(* How many fields of a column come before its values.                     *)
HeadLen(dtype) == IF dtype.kind = "FixedStr" THEN 4 ELSE 3

LEMMA FieldTriple ==
  ASSUME NEW a \in Fields, NEW b \in Fields, NEW d \in Fields
  PROVE  <<a, b>> \o <<>> \o <<d>> = <<a, b, d>>
<1>1. <<a, b>> \o <<>> = <<a, b>>
  BY ConcatEmptySeq
<1>2. <<a, b>> \o <<d>> = <<a, b, d>>
  <2> DEFINE s == <<a, b>> \o <<d>>
  <2>1. <<a, b>> \in Seq(Fields) /\ <<d>> \in Seq(Fields) /\ Len(<<a, b>>) = 2 /\ Len(<<d>>) = 1
    OBVIOUS
  <2>2. /\ s \in Seq(Fields) /\ Len(s) = 2 + 1
        /\ \A i \in 1..2 : s[i] = <<a, b>>[i]
        /\ \A i \in 1..1 : s[2 + i] = <<d>>[i]
    BY <2>1, ConcatAt
  <2> HIDE DEF s
  <2>3. s[1] = a /\ s[2] = b /\ s[3] = d /\ Len(s) = 3
    BY <2>2
  <2>4. s = <<a, b, d>>
    BY <2>2, <2>3
  <2> QED BY <2>4 DEF s
<1> QED BY <1>1, <1>2

LEMMA FieldQuadruple ==
  ASSUME NEW a \in Fields, NEW b \in Fields, NEW c \in Fields, NEW d \in Fields
  PROVE  <<a, b>> \o <<c>> \o <<d>> = <<a, b, c, d>>
<1>1. <<a, b>> \o <<c>> = <<a, b, c>>
  <2> DEFINE s == <<a, b>> \o <<c>>
  <2>1. <<a, b>> \in Seq(Fields) /\ <<c>> \in Seq(Fields) /\ Len(<<a, b>>) = 2 /\ Len(<<c>>) = 1
    OBVIOUS
  <2>2. /\ s \in Seq(Fields) /\ Len(s) = 2 + 1
        /\ \A i \in 1..2 : s[i] = <<a, b>>[i]
        /\ \A i \in 1..1 : s[2 + i] = <<c>>[i]
    BY <2>1, ConcatAt
  <2> HIDE DEF s
  <2>3. s[1] = a /\ s[2] = b /\ s[3] = c /\ Len(s) = 3
    BY <2>2
  <2>4. s = <<a, b, c>>
    BY <2>2, <2>3
  <2> QED BY <2>4 DEF s
<1>2. <<a, b, c>> \o <<d>> = <<a, b, c, d>>
  <2> DEFINE s == <<a, b, c>> \o <<d>>
  <2>1. <<a, b, c>> \in Seq(Fields) /\ <<d>> \in Seq(Fields) /\ Len(<<a, b, c>>) = 3 /\ Len(<<d>>) = 1
    OBVIOUS
  <2>2. /\ s \in Seq(Fields) /\ Len(s) = 3 + 1
        /\ \A i \in 1..3 : s[i] = <<a, b, c>>[i]
        /\ \A i \in 1..1 : s[3 + i] = <<d>>[i]
    BY <2>1, ConcatAt
  <2> HIDE DEF s
  <2>3. s[1] = a /\ s[2] = b /\ s[3] = c /\ s[4] = d /\ Len(s) = 4
    BY <2>2
  <2>4. s = <<a, b, c, d>>
    BY <2>2, <2>3
  <2> QED BY <2>4 DEF s
<1> QED BY <1>1, <1>2

LEMMA EncodedColumn ==
  ASSUME NEW k \in 1..N, NEW n \in Nat, NEW values \in [1..n -> CellsOf(Schema[k].dtype)]
  PROVE  LET e == EncodeColumn(ColumnOf(k, values))
             dtype == Schema[k].dtype
         IN  /\ e \in Seq(Fields)
             /\ Len(e) = HeadLen(dtype) + n
             /\ e[1] = Schema[k].name /\ e[2] = Tag(dtype.kind)
             /\ dtype.kind = "FixedStr" => e[3] = dtype.width
             /\ e[HeadLen(dtype)] = n
             /\ \A i \in 1..n : e[HeadLen(dtype) + i] = values[i]
<1> DEFINE dtype == Schema[k].dtype
           e == EncodeColumn(ColumnOf(k, values))
           h == HeadLen(dtype)
<1>1. Schema[k].name \in STRING /\ dtype \in DTypes
  BY SchemaTypes, SchemaIsSeq DEF ColumnDefs
<1>2. dtype.kind \in {"F64", "I64", "Timestamp", "FixedStr"} /\ dtype.width \in Nat
  BY <1>1 DEF DTypes
<1>3. values \in Seq(Fields) /\ Len(values) = n
  <2>1. CellsOf(dtype) \subseteq Fields
    BY <1>1 DEF Fields
  <2>2. values \in [1..n -> Fields]
    BY <2>1
  <2> QED BY <2>2
<1>4. e = <<Schema[k].name, Tag(dtype.kind)>>
            \o (IF dtype.kind = "FixedStr" THEN <<dtype.width>> ELSE <<>>)
            \o <<Len(values)>> \o values
  BY DEF EncodeColumn, ColumnOf
<1> DEFINE pre == <<Schema[k].name, Tag(dtype.kind)>>
                    \o (IF dtype.kind = "FixedStr" THEN <<dtype.width>> ELSE <<>>) \o <<n>>
<1>5. /\ pre \in Seq(Fields) /\ Len(pre) = h
      /\ pre[1] = Schema[k].name /\ pre[2] = Tag(dtype.kind)
      /\ dtype.kind = "FixedStr" => pre[3] = dtype.width
      /\ pre[h] = n /\ h \in {3, 4}
  <2>1. Tag(dtype.kind) \in Nat
    BY <1>2, Tags
  <2>2. Schema[k].name \in Fields /\ Tag(dtype.kind) \in Fields /\ n \in Fields /\ dtype.width \in Fields
    BY <1>1, <1>2, <2>1 DEF Fields
  <2> HIDE DEF dtype
  <2>3. CASE dtype.kind = "FixedStr"
    <3>1. pre = <<Schema[k].name, Tag(dtype.kind), dtype.width, n>>
      <4>1. pre = <<Schema[k].name, Tag(dtype.kind)>> \o <<dtype.width>> \o <<n>>
        BY <2>3
      <4> QED BY <2>2, <4>1, FieldQuadruple
    <3> QED BY <2>2, <2>3, <3>1 DEF HeadLen
  <2>4. CASE dtype.kind # "FixedStr"
    <3>1. pre = <<Schema[k].name, Tag(dtype.kind), n>>
      <4>1. pre = <<Schema[k].name, Tag(dtype.kind)>> \o <<>> \o <<n>>
        BY <2>4
      <4> QED BY <2>2, <4>1, FieldTriple
    <3> QED BY <2>2, <2>4, <3>1 DEF HeadLen
  <2> QED BY <2>3, <2>4
<1>6. e = pre \o values
  BY <1>3, <1>4
<1> HIDE DEF pre, e, h, dtype
<1>7. /\ e \in Seq(Fields) /\ Len(e) = h + n
      /\ \A i \in 1..h : e[i] = pre[i]
      /\ \A i \in 1..n : e[h + i] = values[i]
  BY <1>3, <1>5, <1>6, ConcatAt
<1>8. 1 \in 1..h /\ 2 \in 1..h /\ 3 \in 1..h /\ h \in 1..h
  BY <1>5
<1>9. /\ e[1] = Schema[k].name /\ e[2] = Tag(dtype.kind)
      /\ dtype.kind = "FixedStr" => e[3] = dtype.width
      /\ e[h] = n
  BY <1>5, <1>7, <1>8
<1> QED BY <1>7, <1>9 DEF e, h, dtype

(* The fields of a column at the head of the input are read as the column. *)
LEMMA DecodesColumn ==
  ASSUME NEW k \in 1..N, NEW n \in Nat, NEW values \in [1..n -> CellsOf(Schema[k].dtype)],
         NEW columns, NEW input \in Seq(Fields),
         Len(EncodeColumn(ColumnOf(k, values))) <= Len(input),
         \A i \in 1..Len(EncodeColumn(ColumnOf(k, values))) :
           input[i] = EncodeColumn(ColumnOf(k, values))[i]
  PROVE  DecodeColumn([err |-> NoError, columns |-> columns, input |-> input], Schema[k]) =
           [err |-> NoError, columns |-> Append(columns, ColumnOf(k, values)),
            input |-> SubSeq(input, Len(EncodeColumn(ColumnOf(k, values))) + 1, Len(input))]
<1> DEFINE e == EncodeColumn(ColumnOf(k, values))
           dtype == Schema[k].dtype
           h == HeadLen(dtype)
           state == [err |-> NoError, columns |-> columns, input |-> input]
<1>1. /\ dtype \in DTypes /\ dtype.kind \in {"F64", "I64", "Timestamp", "FixedStr"}
      /\ h \in Nat /\ h = (IF dtype.kind = "FixedStr" THEN 4 ELSE 3)
  BY SchemaTypes, SchemaIsSeq DEF DTypes, HeadLen
<1>2. /\ Len(e) = h + n
      /\ e[1] = Schema[k].name /\ e[2] = Tag(dtype.kind)
      /\ dtype.kind = "FixedStr" => e[3] = dtype.width
      /\ e[h] = n
      /\ \A i \in 1..n : e[h + i] = values[i]
  BY EncodedColumn
<1>3. Len(input) \in Nat /\ h + n <= Len(input) /\ \A i \in 1..(h + n) : input[i] = e[i]
  BY <1>2
<1> HIDE DEF e, dtype, h
<1>4. /\ input[1] = Schema[k].name /\ input[2] = Tag(dtype.kind)
      /\ dtype.kind = "FixedStr" => input[3] = dtype.width
      /\ input[h] = n
      /\ \A i \in 1..n : input[h + i] = values[i]
  <2>1. 1 \in 1..(h + n) /\ 2 \in 1..(h + n) /\ 3 \in 1..(h + n) /\ h \in 1..(h + n)
    BY <1>1
  <2>2. \A i \in 1..n : h + i \in 1..(h + n)
    BY <1>1
  <2> QED BY <1>2, <1>3, <2>1, <2>2
<1>5. SubSeq(input, h + 1, h + n) = values
  <2>1. \A i \in (h + 1)..(h + n) : input[i] \in Fields
    BY <1>1, <1>3
  <2>2. /\ SubSeq(input, h + 1, h + n) \in Seq(Fields)
        /\ Len(SubSeq(input, h + 1, h + n)) = n
        /\ \A i \in 1..n : SubSeq(input, h + 1, h + n)[i] = input[h + i]
    <3>1. h + 1 \in Int /\ h + n \in Int /\ (h + n) - (h + 1) + 1 = n
      BY <1>1
    <3>2. (h + 1 <= h + n) = (n # 0)
      BY <1>1
    <3>3. /\ SubSeq(input, h + 1, h + n) \in Seq(Fields)
          /\ Len(SubSeq(input, h + 1, h + n)) =
               IF h + 1 <= h + n THEN (h + n) - (h + 1) + 1 ELSE 0
          /\ \A i \in 1..((h + n) - (h + 1) + 1) :
               SubSeq(input, h + 1, h + n)[i] = input[(h + 1) + i - 1]
      BY <2>1, <3>1, SubSeqProperties
    <3>4. \A i \in 1..n : (h + 1) + i - 1 = h + i
      BY <1>1
    <3> QED BY <3>1, <3>2, <3>3, <3>4
  <2>3. DOMAIN values = 1..n /\ values = [i \in 1..n |-> values[i]]
    OBVIOUS
  <2>4. SubSeq(input, h + 1, h + n) = [i \in 1..n |-> SubSeq(input, h + 1, h + n)[i]]
    BY <2>2, LenProperties
  <2> QED BY <1>4, <2>2, <2>3, <2>4
<1>6. DecodedData(input) = [data |-> ColumnData(dtype, values), taken |-> h + n]
  <2>1. (input[2] = Tag("FixedStr")) = (dtype.kind = "FixedStr")
    BY <1>1, <1>4, Tags
  <2>2. (CHOOSE kind \in {"F64", "I64", "Timestamp", "FixedStr"} : Tag(kind) = input[2]) = dtype.kind
    BY <1>1, <1>4, Tags
  <2>3. (IF input[2] = Tag("FixedStr") THEN 4 ELSE 3) = h
    BY <1>1, <2>1
  <2>4. DType(dtype.kind, IF input[2] = Tag("FixedStr") THEN input[3] ELSE 0) = dtype
    BY <1>1, <1>4, <2>1 DEF DTypes, DType
  <2> QED BY <1>4, <1>5, <2>2, <2>3, <2>4 DEF DecodedData
<1>7. input # <<>>
  BY <1>1, <1>3, EmptySeq
<1>8. input[2] \in 0..3
  BY <1>1, <1>4, Tags
<1>9. DecodeColumn(state, Schema[k]) =
        [err |-> NoError,
         columns |-> Append(columns, [name |-> Schema[k].name, data |-> ColumnData(dtype, values)]),
         input |-> SubSeq(input, h + n + 1, Len(input))]
  <2>1. state.err = NoError /\ state.input = input /\ state.columns = columns
    OBVIOUS
  <2>2. DecodedData(input).data = ColumnData(dtype, values) /\ DecodedData(input).taken = h + n
    BY <1>6
  <2>3. DecodedData(input).data.dtype = Schema[k].dtype
    BY <2>2 DEF ColumnData, dtype
  <2> HIDE DEF state
  <2> QED BY <1>4, <1>7, <1>8, <2>1, <2>2, <2>3 DEF DecodeColumn
<1> QED BY <1>2, <1>9 DEF ColumnOf, ColumnData, e, dtype

(* What is left of a sequence behind its first elements.                   *)
LEMMA Suffix ==
  ASSUME NEW C, NEW t \in Seq(C), NEW p \in 0..Len(t)
  PROVE  /\ SubSeq(t, p + 1, Len(t)) \in Seq(C)
         /\ Len(SubSeq(t, p + 1, Len(t))) = Len(t) - p
         /\ \A i \in 1..(Len(t) - p) : SubSeq(t, p + 1, Len(t))[i] = t[p + i]
<1>1. Len(t) \in Nat /\ p \in Nat /\ p <= Len(t)
  BY LenProperties
<1>2. \A i \in (p + 1)..Len(t) : t[i] \in C
  BY <1>1, ElementOfSeq
<1>3. /\ SubSeq(t, p + 1, Len(t)) \in Seq(C)
      /\ Len(SubSeq(t, p + 1, Len(t))) = IF p + 1 <= Len(t) THEN Len(t) - (p + 1) + 1 ELSE 0
      /\ \A i \in 1..(Len(t) - (p + 1) + 1) : SubSeq(t, p + 1, Len(t))[i] = t[(p + 1) + i - 1]
  BY <1>1, <1>2, SubSeqProperties
<1>4. /\ (IF p + 1 <= Len(t) THEN Len(t) - (p + 1) + 1 ELSE 0) = Len(t) - p
      /\ Len(t) - (p + 1) + 1 = Len(t) - p
      /\ \A i \in 1..(Len(t) - p) : (p + 1) + i - 1 = p + i
  BY <1>1
<1> QED BY ONLY <1>3, <1>4

LEMMA SuffixOfSuffix ==
  ASSUME NEW C, NEW t \in Seq(C), NEW p \in Nat, NEW q \in Nat, p + q <= Len(t)
  PROVE  SubSeq(SubSeq(t, p + 1, Len(t)), q + 1, Len(SubSeq(t, p + 1, Len(t)))) =
           SubSeq(t, p + q + 1, Len(t))
<1> DEFINE s == SubSeq(t, p + 1, Len(t))
           u == SubSeq(s, q + 1, Len(s))
           v == SubSeq(t, (p + q) + 1, Len(t))
<1>1. Len(t) \in Nat /\ p \in 0..Len(t) /\ p + q \in 0..Len(t)
  BY LenProperties
<1>2. s \in Seq(C) /\ Len(s) = Len(t) - p /\ \A i \in 1..(Len(t) - p) : s[i] = t[p + i]
  BY <1>1, Suffix
<1>3. v \in Seq(C) /\ Len(v) = Len(t) - (p + q) /\ \A i \in 1..(Len(t) - (p + q)) : v[i] = t[(p + q) + i]
  BY <1>1, Suffix
<1> HIDE DEF s
<1>4. q \in 0..Len(s)
  BY <1>1, <1>2
<1>5. u \in Seq(C) /\ Len(u) = Len(s) - q /\ \A i \in 1..(Len(s) - q) : u[i] = s[q + i]
  BY <1>2, <1>4, Suffix
<1> HIDE DEF u, v
<1>6. Len(s) - q = Len(t) - (p + q)
  BY <1>1, <1>2
<1>7. \A i \in 1..(Len(t) - (p + q)) : q + i \in 1..(Len(t) - p) /\ p + (q + i) = (p + q) + i
  BY <1>1
<1>8. Len(u) = Len(v) /\ \A i \in 1..Len(u) : u[i] = v[i]
  BY ONLY <1>2, <1>3, <1>5, <1>6, <1>7
<1>9. u = v
  BY <1>3, <1>5, <1>8, SeqEqual
<1> QED BY <1>9 DEF u, v, s

LEMMA AppendNext ==
  ASSUME NEW f, NEW k \in Nat
  PROVE  Append([j \in 1..k |-> f[j]], f[k + 1]) = [j \in 1..(k + 1) |-> f[j]]
<1> DEFINE C == {f[j] : j \in 1..(k + 1)}
           s == [j \in 1..k |-> f[j]]
           t == [j \in 1..(k + 1) |-> f[j]]
<1>1. s \in Seq(C) /\ Len(s) = k /\ f[k + 1] \in C /\ t \in Seq(C) /\ Len(t) = k + 1
  OBVIOUS
<1>2. (\A j \in 1..k : s[j] = f[j]) /\ \A j \in 1..(k + 1) : t[j] = f[j]
  OBVIOUS
<1> HIDE DEF C, s, t
<1>3. /\ Append(s, f[k + 1]) \in Seq(C) /\ Len(Append(s, f[k + 1])) = k + 1
      /\ \A j \in 1..k : Append(s, f[k + 1])[j] = s[j]
      /\ Append(s, f[k + 1])[k + 1] = f[k + 1]
  BY <1>1, AppendProperties
<1>4. \A j \in 1..(k + 1) : j \in 1..k \/ j = k + 1
  OBVIOUS
<1>5. \A j \in 1..(k + 1) : Append(s, f[k + 1])[j] = t[j]
  BY <1>2, <1>3, <1>4
<1> QED BY <1>1, <1>3, <1>5, SeqEqual DEF s, t

(* A batch of the table is decoded as it was encoded.                      *)
LEMMA DecodesEncoded ==
  ASSUME NEW batch, TableBatch(batch)
  PROVE  Decode(Schema, Encode(batch)) = [err |-> NoError, batch |-> batch]
<1> DEFINE rows == batch.rows
           encoded == [k \in 1..N |-> EncodeColumn(batch.columns[k])]
           total == FlattenSeq(encoded)
           payload == Encode(batch)
           start == [err |-> NoError, columns |-> <<>>, input |-> total]
           at(k) == [j \in 1..k |-> batch.columns[j]]
<1>1. N \in Nat /\ DOMAIN Schema = 1..N /\ rows \in Nat
  BY SchemaIsSeq DEF TableBatch, IsGrid
<1>2. /\ DOMAIN batch.columns = 1..N /\ Len(batch.columns) = N
      /\ \A k \in 1..N : /\ batch.columns[k] = ColumnOf(k, Grid(batch)[k])
                         /\ Grid(batch)[k] \in [1..rows -> CellsOf(Schema[k].dtype)]
  BY <1>1, ColumnsOfTable DEF TableBatch, IsGrid
<1>3. \A k \in 1..N : encoded[k] \in Seq(Fields) /\ encoded[k] = EncodeColumn(ColumnOf(k, Grid(batch)[k]))
  <2>1. ASSUME NEW k \in 1..N
        PROVE  encoded[k] = EncodeColumn(ColumnOf(k, Grid(batch)[k]))
    BY <1>2
  <2>2. ASSUME NEW k \in 1..N
        PROVE  EncodeColumn(ColumnOf(k, Grid(batch)[k])) \in Seq(Fields)
    <3>1. PICK values : values = Grid(batch)[k]
      OBVIOUS
    <3>2. k \in DOMAIN Schema /\ values \in [1..rows -> CellsOf(Schema[k].dtype)]
      BY <1>1, <1>2, <3>1
    <3>3. EncodeColumn(ColumnOf(k, values)) \in Seq(Fields)
      BY <1>1, <3>2, EncodedColumn
    <3> QED BY <3>1, <3>3
  <2> HIDE DEF encoded
  <2> QED BY <2>1, <2>2
<1>4. encoded \in Seq(Seq(Fields)) /\ Len(encoded) = N
  BY <1>1, <1>3
<1>5. payload = <<rows, N>> \o total
  BY <1>1, <1>2 DEF Encode
<1> HIDE DEF encoded
<1>6. total \in Seq(Fields)
  BY <1>4, FlattenLayout
<1> HIDE DEF payload
<1>7. PICK pos \in [0..N -> Nat] :
        /\ pos[0] = 0
        /\ pos[N] = Len(total)
        /\ \A k \in 0..(N - 1) :
             /\ pos[k + 1] = pos[k] + Len(encoded[k + 1])
             /\ pos[k + 1] <= pos[N]
             /\ \A i \in 1..Len(encoded[k + 1]) : total[pos[k] + i] = encoded[k + 1][i]
  <2>1. PICK m : m = Len(encoded)
    OBVIOUS
  <2>2. m = N
    BY <1>4, <2>1
  <2> QED BY <1>4, <2>1, <2>2, FlattenLayout
<1> HIDE DEF total
<1>8. payload[1] = rows /\ payload[2] = N /\ SubSeq(payload, 3, Len(payload)) = total
  <2>1. <<rows, N>> \in Seq(Fields) /\ Len(<<rows, N>>) = 2
    BY <1>1 DEF Fields
  <2>2. /\ payload \in Seq(Fields) /\ Len(payload) = 2 + Len(total) /\ Len(total) \in Nat
        /\ \A i \in 1..2 : payload[i] = <<rows, N>>[i]
        /\ \A i \in 1..Len(total) : payload[2 + i] = total[i]
    BY <1>5, <1>6, <2>1, ConcatAt
  <2>3. 2 \in 0..Len(payload) /\ 2 + 1 = 3 /\ Len(payload) - 2 = Len(total)
    BY <2>2
  <2>4. /\ SubSeq(payload, 3, Len(payload)) \in Seq(Fields)
        /\ Len(SubSeq(payload, 3, Len(payload))) = Len(total)
        /\ \A i \in 1..Len(total) : SubSeq(payload, 3, Len(payload))[i] = payload[2 + i]
    BY <2>2, <2>3, Suffix
  <2>5. SubSeq(payload, 3, Len(payload)) = total
    BY <1>6, <2>2, <2>4, SeqEqual
  <2> QED BY <2>2, <2>5
<1>9. PICK a : /\ a[0] = start
               /\ \A k \in 0..(N - 1) : a[k + 1] = DecodeColumn(a[k], Schema[k + 1])
               /\ Decoded(start, Schema) = a[N]
  BY SchemaIsSeq, DecodeSteps DEF N
<1> DEFINE P(k) == a[k] = [err |-> NoError, columns |-> at(k), input |-> SubSeq(total, pos[k] + 1, Len(total))]
           S == {k \in Nat : k <= N => P(k)}
<1>10. P(0)
  <2>1. SubSeq(total, 0 + 1, Len(total)) = total
    BY <1>6, SubSeqFull
  <2>2. at(0) = <<>>
    OBVIOUS
  <2> QED BY <1>7, <1>9, <2>1, <2>2
<1>11. ASSUME NEW k \in Nat, k + 1 <= N, P(k) PROVE P(k + 1)
  <2> DEFINE input == SubSeq(total, pos[k] + 1, Len(total))
             e == encoded[k + 1]
  <2>1. k \in 0..(N - 1) /\ k + 1 \in 1..N /\ k \in 0..N /\ k + 1 \in 0..N
    BY <1>1, <1>11
  <2>2. /\ pos[k] \in Nat /\ Len(e) \in Nat /\ e \in Seq(Fields)
        /\ pos[k + 1] = pos[k] + Len(e) /\ pos[k] + Len(e) <= Len(total)
        /\ \A i \in 1..Len(e) : total[pos[k] + i] = e[i]
    BY <1>3, <1>7, <2>1, LenProperties
  <2>3. Len(total) \in Nat
    BY <1>6, LenProperties
  <2>4. pos[k] \in 0..Len(total)
    BY <2>2, <2>3
  <2>5. /\ input \in Seq(Fields) /\ Len(input) = Len(total) - pos[k]
        /\ \A i \in 1..(Len(total) - pos[k]) : input[i] = total[pos[k] + i]
    BY <1>6, <2>4, Suffix
  <2>6. SubSeq(input, Len(e) + 1, Len(input)) = SubSeq(total, pos[k + 1] + 1, Len(total))
    <3>1. PICK p \in Nat, q \in Nat : p = pos[k] /\ q = Len(e)
    BY <2>2
  <3>2. p + q <= Len(total)
    BY <2>2, <3>1
  <3>3. SubSeq(SubSeq(total, p + 1, Len(total)), q + 1, Len(SubSeq(total, p + 1, Len(total)))) =
          SubSeq(total, p + q + 1, Len(total))
    BY <1>6, <3>1, <3>2, SuffixOfSuffix
  <3>4. pos[k + 1] + 1 = p + q + 1
    BY <2>2, <3>1
  <3> QED BY <3>1, <3>3, <3>4
  <2>7. e = EncodeColumn(ColumnOf(k + 1, Grid(batch)[k + 1]))
    BY <1>3, <2>1
  <2> HIDE DEF input, e
  <2>8. Len(e) <= Len(input) /\ \A i \in 1..Len(e) : input[i] = e[i]
    <3>1. \A i \in 1..Len(e) : i \in 1..(Len(total) - pos[k])
      BY ONLY <2>2, <2>3
    <3>2. Len(e) <= Len(input)
      BY ONLY <2>2, <2>3, <2>5
    <3> QED BY ONLY <2>2, <2>5, <3>1, <3>2
  <2>9. DecodeColumn([err |-> NoError, columns |-> at(k), input |-> input], Schema[k + 1]) =
          [err |-> NoError, columns |-> Append(at(k), ColumnOf(k + 1, Grid(batch)[k + 1])),
           input |-> SubSeq(input, Len(e) + 1, Len(input))]
    BY <1>1, <1>2, <2>1, <2>5, <2>7, <2>8, DecodesColumn
  <2>10. Append(at(k), ColumnOf(k + 1, Grid(batch)[k + 1])) = at(k + 1)
    BY <1>2, <2>1, AppendNext
  <2>11. a[k + 1] = DecodeColumn(a[k], Schema[k + 1])
    BY <1>9, <2>1
  <2>12. a[k] = [err |-> NoError, columns |-> at(k), input |-> input]
    BY <1>11 DEF input
  <2> HIDE DEF at
  <2> QED BY <2>6, <2>9, <2>10, <2>11, <2>12
<1> HIDE DEF P
<1>12. 0 \in S /\ \A k \in Nat : k \in S => k + 1 \in S
  BY <1>1, <1>10, <1>11
<1> HIDE DEF S
<1>13. N \in S
  BY <1>1, <1>12, EveryNat
<1>14. P(N)
  BY <1>1, <1>13 DEF S
<1>15. at(N) = batch.columns
  <2>1. batch.columns = [k \in DOMAIN Schema |-> ColumnOf(k, Grid(batch)[k])]
    BY DEF TableBatch, BatchOf
  <2> QED BY <1>1, <2>1
<1>16. SubSeq(total, pos[N] + 1, Len(total)) = <<>>
  <2>1. Len(total) \in Nat
    BY <1>6, LenProperties
  <2> QED BY <1>7, <2>1, SubSeqEmpty
<1>17. Decoded(start, Schema) = [err |-> NoError, columns |-> batch.columns, input |-> <<>>]
  BY <1>9, <1>14, <1>15, <1>16 DEF P
<1>18. batch = [columns |-> batch.columns, rows |-> rows]
  BY DEF TableBatch, BatchOf
<1> DEFINE end == Decoded(start, Schema)
<1>19. Decode(Schema, payload) =
         IF payload[2] # Len(Schema) THEN Failed("column count")
         ELSE IF end.err # NoError THEN Failed(end.err)
         ELSE IF end.input # <<>> THEN Failed("trailing bytes")
         ELSE [err |-> NoError, batch |-> [columns |-> end.columns, rows |-> payload[1]]]
  <2> DEFINE begin == [err |-> NoError, columns |-> <<>>, input |-> SubSeq(payload, 3, Len(payload))]
  <2>1. begin = start
    BY <1>8
  <2>2. Decode(Schema, payload) =
         IF payload[2] # Len(Schema) THEN Failed("column count")
         ELSE IF Decoded(begin, Schema).err # NoError THEN Failed(Decoded(begin, Schema).err)
         ELSE IF Decoded(begin, Schema).input # <<>> THEN Failed("trailing bytes")
         ELSE [err |-> NoError, batch |-> [columns |-> Decoded(begin, Schema).columns, rows |-> payload[1]]]
    BY DEF Decode, Decoded, FoldLeft, MapThenFoldSet
  <2> HIDE DEF begin, start
  <2> QED BY <2>1, <2>2
<1> HIDE DEF start
<1>20. Decode(Schema, payload) = [err |-> NoError, batch |-> [columns |-> batch.columns, rows |-> rows]]
  BY <1>8, <1>17, <1>19 DEF N
<1> QED BY <1>18, <1>20 DEF payload

-----------------------------------------------------------------------------
(* Appending the batches of a longer sequence of reads is appending the    *)
(* last one to what the others came to.                                    *)
LEMMA JoinedNone == Joined(<<>>) = [err |-> NoError, batch |-> EmptyBatch(Schema)]
<1>1. <<>> \in Seq({}) /\ Len(<<>>) = 0
  OBVIOUS
<1>2. PICK a : a[0] = [err |-> NoError, batch |-> EmptyBatch(Schema)] /\ Joined(<<>>) = a[Len(<<>>)]
  BY <1>1, JoinedSteps
<1> QED BY <1>1, <1>2

LEMMA JoinedNext ==
  ASSUME NEW R, NEW reads \in Seq(R), NEW read \in R
  PROVE  Joined(Append(reads, read)) = AddBatch(Joined(reads), read)
<1> DEFINE n == Len(reads)
           longer == Append(reads, read)
<1>1. n \in Nat
  BY LenProperties
<1>2. /\ longer \in Seq(R) /\ Len(longer) = n + 1
      /\ \A k \in 1..n : longer[k] = reads[k]
      /\ longer[n + 1] = read
  BY AppendProperties
<1>3. PICK a : /\ a[0] = [err |-> NoError, batch |-> EmptyBatch(Schema)]
               /\ \A k \in 0..(n - 1) : a[k + 1] = AddBatch(a[k], reads[k + 1])
               /\ Joined(reads) = a[n]
  BY JoinedSteps
<1> HIDE DEF longer
<1>4. PICK b : /\ b[0] = [err |-> NoError, batch |-> EmptyBatch(Schema)]
               /\ \A k \in 0..(Len(longer) - 1) : b[k + 1] = AddBatch(b[k], longer[k + 1])
               /\ Joined(longer) = b[Len(longer)]
  BY <1>2, JoinedSteps
<1> HIDE DEF n
<1> DEFINE S == {k \in Nat : k <= n => a[k] = b[k]}
<1>5. 0 \in S
  BY <1>3, <1>4
<1>6. ASSUME NEW k \in Nat, k \in S PROVE k + 1 \in S
  <2>1. CASE k + 1 <= n
    <3>1. k \in 0..(n - 1) /\ k \in 0..(Len(longer) - 1) /\ k + 1 \in 1..n /\ k <= n
      BY <1>1, <1>2, <2>1
    <3>2. a[k] = b[k]
      BY <1>6, <3>1
    <3> QED BY <1>2, <1>3, <1>4, <3>1, <3>2
  <2> QED BY <2>1
<1> HIDE DEF S
<1>7. n \in S
  BY <1>1, <1>5, <1>6, EveryNat
<1>8. a[n] = b[n]
  BY <1>1, <1>7 DEF S
<1>9. n \in 0..(Len(longer) - 1)
  BY <1>1, <1>2
<1> QED BY <1>2, <1>3, <1>4, <1>8, <1>9 DEF longer

-----------------------------------------------------------------------------
(* Recovery *)

Replays(records, from) ==
  [k \in 1..(Len(records) - from) |-> Decode(Schema, records[from + k])]

LEMMA RecoveryInit == Init => RecoveryInv
<1> SUFFICES ASSUME Init PROVE RecoveryInv
  OBVIOUS
<1>1. active = EmptyBatch(Schema) /\ log = <<>> /\ applied = 0 /\ appended = <<>>
  BY DEF Init
<1>2. TableBatch(active)
  BY <1>1, EmptyIsTable
<1>3. /\ appended \in Seq(Nat) /\ log \in Seq({log[k] : k \in DOMAIN log})
      /\ Len(log) = 0 /\ DOMAIN log = {}
  BY <1>1
<1>4. Replays(log, applied) = <<>>
  BY <1>1, <1>3 DEF Replays
<1>5. RecoveryIsExact
  BY <1>1, <1>4, JoinedNone DEF RecoveryIsExact, Replayed, Replays
<1> QED BY <1>1, <1>2, <1>3, <1>5 DEF RecoveryInv

(* What a caller appends, when it is appended, is a batch of the table.    *)
LEMMA AppendRecovers ==
  ASSUME KeepOrder, RecoveryInv, NEW S \in CallerSchemas, NEW fault,
         NEW times \in Seq(Nat), times # <<>>, AppendRows(S, times, fault)
  PROVE  /\ TableBatch(AppendedBatch(times))
         /\ log' = Append(log, Encode(AppendedBatch(times)))
         /\ active' = BatchOf(GridJoin(Grid(active), Grid(AppendedBatch(times))), active.rows + Len(times))
         /\ appended' = appended \o times
         /\ AppendBatch(active, AppendedBatch(times)) = [err |-> NoError, batch |-> active']
         /\ TableBatch(active')
<1> DEFINE batch == Build(S, Given(S, times, fault)).batch
<1>1. Len(appended) \in Nat
  BY LenProperties DEF RecoveryInv
<1>2. Build(S, Given(S, times, fault)).err = NoError /\ Matches(Schema, batch)
  BY DEF AppendRows
<1>3. /\ batch = AppendedBatch(times)
      /\ TableBatch(AppendedBatch(times)) /\ AppendedBatch(times).rows = Len(times)
  BY <1>1, <1>2, AppendsTable
<1>4. TableBatch(active)
  BY DEF RecoveryInv
<1>5. AppendBatch(active, AppendedBatch(times)) =
        [err |-> NoError,
         batch |-> BatchOf(GridJoin(Grid(active), Grid(AppendedBatch(times))), active.rows + Len(times))]
  BY <1>3, <1>4, TablesAppend
<1>6. /\ log' = Append(log, Encode(batch))
      /\ active' = AppendBatch(active, batch).batch
      /\ appended' = IF AppendBatch(active, batch).err = NoError THEN appended \o times ELSE appended
  BY DEF AppendRows
<1> HIDE DEF batch
<1>7. TableBatch(BatchOf(GridJoin(Grid(active), Grid(AppendedBatch(times))), active.rows + Len(times)))
  <2>1. IsGrid(Grid(active), active.rows) /\ IsGrid(Grid(AppendedBatch(times)), AppendedBatch(times).rows)
    BY <1>3, <1>4 DEF TableBatch
  <2>2. IsGrid(GridJoin(Grid(active), Grid(AppendedBatch(times))), active.rows + Len(times))
    BY <1>3, <2>1, GridsJoin
  <2> QED BY <2>2, BatchOfGrid
<1> QED BY <1>3, <1>5, <1>6, <1>7

LEMMA RecoveryAppend ==
  ASSUME KeepOrder, RecoveryInv, NEW S \in CallerSchemas, NEW fault,
         NEW times \in Seq(Nat), times # <<>>, AppendRows(S, times, fault)
  PROVE  RecoveryInv'
<1> DEFINE batch == AppendedBatch(times)
           payload == Encode(batch)
           R == {log[k] : k \in DOMAIN log} \cup {payload}
           read == [err |-> NoError, batch |-> batch]
           m == Len(log) - applied
           f == [k \in 1..(m + 1) |-> Decode(Schema, log'[applied + k])]
<1>1. /\ TableBatch(batch) /\ log' = Append(log, payload) /\ appended' = appended \o times
      /\ AppendBatch(active, batch) = [err |-> NoError, batch |-> active']
      /\ TableBatch(active') /\ applied' = applied
  BY AppendRecovers DEF AppendRows
<1>2. /\ appended \in Seq(Nat) /\ log \in Seq(R) /\ DOMAIN log = 1..Len(log) /\ Len(log) \in Nat
      /\ applied \in 0..Len(log)
      /\ (\A k \in DOMAIN log : IsRecord(log[k])) /\ Replayed = [err |-> NoError, batch |-> active]
  BY LenProperties, SeqDef DEF RecoveryInv, RecoveryIsExact
<1> HIDE DEF payload, R
<1>3. /\ log' \in Seq(R) /\ Len(log') = Len(log) + 1 /\ DOMAIN log' = 1..(Len(log) + 1)
      /\ \A k \in 1..Len(log) : log'[k] = log[k]
      /\ log'[Len(log) + 1] = payload
  BY <1>1, <1>2, AppendProperties DEF R
<1>4. Decode(Schema, payload) = read
  BY <1>1, DecodesEncoded DEF payload
<1>5. IsRecord(payload)
  BY <1>1, <1>4 DEF IsRecord
<1>6. \A k \in DOMAIN log' : IsRecord(log'[k])
  <2>1. \A k \in DOMAIN log' : k \in 1..Len(log) \/ k = Len(log) + 1
    BY <1>2, <1>3
  <2> QED BY <1>2, <1>3, <1>5, <2>1
<1>7. log' \in Seq({log'[k] : k \in DOMAIN log'})
  BY <1>3
<1>8. appended' \in Seq(Nat)
  BY <1>1, <1>2
<1>9. m \in Nat /\ m + 1 = Len(log') - applied' /\ applied' \in 0..Len(log') /\ applied + (m + 1) = Len(log) + 1
  BY <1>1, <1>2, <1>3
<1>10. Replayed' = Joined(f)
  BY <1>1, <1>9 DEF Replayed
<1>11. \A k \in 1..m : f[k] = Decode(Schema, log[applied + k])
  <2>1. \A k \in 1..m : k \in 1..(m + 1) /\ applied + k \in 1..Len(log)
    BY <1>2, <1>9
  <2> QED BY <1>3, <2>1
<1>12. f[m + 1] = read
  <2>1. m + 1 \in 1..(m + 1)
    BY <1>9
  <2> QED BY <1>3, <1>4, <1>9, <2>1
<1> DEFINE reads == [k \in 1..m |-> Decode(Schema, log[applied + k])]
           D == {Decode(Schema, log[applied + k]) : k \in 1..m} \cup {read}
<1>13. reads \in Seq(D)
  <2>1. reads \in [1..m -> D]
    OBVIOUS
  <2> HIDE DEF reads, D, m
  <2> QED BY <1>9, <2>1
<1>14. Replayed = Joined(reads)
  BY DEF Replayed
<1>15. Append([k \in 1..m |-> f[k]], f[m + 1]) = [k \in 1..(m + 1) |-> f[k]]
  BY <1>9, AppendNext
<1>16. f = [k \in 1..(m + 1) |-> f[k]]
  OBVIOUS
<1> HIDE DEF f
<1>17. [k \in 1..m |-> f[k]] = reads
  BY <1>11
<1> HIDE DEF reads
<1>18. f = Append(reads, read)
  BY <1>12, <1>15, <1>16, <1>17
<1>19. Joined(f) = AddBatch(Joined(reads), read)
  <2>1. read \in D
    OBVIOUS
  <2> HIDE DEF D, read
  <2> QED BY <1>13, <1>18, <2>1, JoinedNext
<1>20. Replayed' = AppendBatch(active, batch)
  <2> HIDE DEF batch
  <2> QED BY <1>2, <1>10, <1>14, <1>19 DEF AddBatch
<1>21. RecoveryIsExact'
  BY <1>1, <1>20 DEF RecoveryIsExact
<1> QED BY <1>1, <1>6, <1>7, <1>8, <1>9, <1>21 DEF RecoveryInv

LEMMA RecoveryFlush ==
  ASSUME RecoveryInv, Flush
  PROVE  RecoveryInv'
<1>1. /\ log' = log /\ applied' = Len(log) /\ active' = EmptyBatch(Schema) /\ appended' = appended
      /\ Len(log) \in Nat
  BY LenProperties DEF Flush, RecoveryInv
<1>2. Replays(log, Len(log)) = <<>>
  BY <1>1 DEF Replays
<1>3. Replayed' = Joined(Replays(log, Len(log)))
  BY <1>1 DEF Replayed, Replays
<1>4. RecoveryIsExact'
  BY <1>1, <1>2, <1>3, JoinedNone DEF RecoveryIsExact
<1> QED BY <1>1, <1>4, EmptyIsTable DEF RecoveryInv

LEMMA RecoveryOpen ==
  ASSUME RecoveryInv, Open
  PROVE  RecoveryInv'
<1>1. log' = log /\ applied' = applied /\ active' = active /\ appended' = appended
  BY DEF Open, RecoveryInv, RecoveryIsExact
<1> QED BY <1>1 DEF RecoveryInv, RecoveryIsExact, Replayed

LEMMA TimesGiven ==
  ASSUME NEW times \in BoundedSeq(Times, 2) \ {<<>>}
  PROVE  times \in Seq(Nat) /\ times # <<>>
<1>1. PICK m \in 0..2 : times \in [1..m -> Times]
  BY DEF BoundedSeq, SeqOf
<1>2. times \in [1..m -> Nat]
  BY <1>1, TimesAssumption
<1> QED BY <1>2

LEMMA RecoveryNext ==
  ASSUME KeepOrder, RecoveryInv, [Next]_vars
  PROVE  RecoveryInv'
<1>1. ASSUME NEW S \in CallerSchemas, NEW fault \in Faults,
             NEW times \in BoundedSeq(Times, 2) \ {<<>>}, AppendRows(S, times, fault)
      PROVE  RecoveryInv'
  BY <1>1, TimesGiven, RecoveryAppend
<1>2. CASE Flush
  BY <1>2, RecoveryFlush
<1>3. ASSUME NEW ids \in SUBSET (1..MaxSegments), Compact(ids) PROVE RecoveryInv'
  BY <1>3 DEF Compact, RecoveryInv, RecoveryIsExact, Replayed
<1>4. CASE Open
  BY <1>4, RecoveryOpen
<1>5. CASE UNCHANGED vars
  BY <1>5 DEF vars, RecoveryInv, RecoveryIsExact, Replayed
<1> QED BY <1>1, <1>2, <1>3, <1>4, <1>5 DEF Next

(* Whatever was appended, flushed, compacted and replayed before, opening  *)
(* the table makes of the log the rows it had in memory, as long as no     *)
(* caller builds batches for the table's columns in another order.         *)
THEOREM RecoveryIsAlwaysExact ==
  ASSUME KeepOrder
  PROVE  Spec => []RecoveryIsExact
<1>1. Init => RecoveryInv
  BY RecoveryInit
<1>2. RecoveryInv /\ [Next]_vars => RecoveryInv'
  BY RecoveryNext
<1>3. RecoveryInv => RecoveryIsExact
  BY DEF RecoveryInv
<1> QED BY <1>1, <1>2, <1>3, PTL DEF Spec

(* The elements of a longer sequence and of two sequences.                 *)
LEMMA AppendSet ==
  ASSUME NEW R, NEW s \in Seq(R), NEW x \in R
  PROVE  Append(s, x) \in Seq(R) /\ ToSet(Append(s, x)) = ToSet(s) \cup {x}
<1>1. /\ Append(s, x) \in Seq(R) /\ Len(s) \in Nat /\ DOMAIN s = 1..Len(s)
      /\ DOMAIN Append(s, x) = 1..(Len(s) + 1)
      /\ \A i \in 1..Len(s) : Append(s, x)[i] = s[i]
      /\ Append(s, x)[Len(s) + 1] = x
  BY AppendProperties, LenProperties
<1>2. 1..(Len(s) + 1) = (1..Len(s)) \cup {Len(s) + 1}
  BY <1>1
<1> QED BY <1>1, <1>2 DEF ToSet

LEMMA ConcatSet ==
  ASSUME NEW R, NEW s \in Seq(R), NEW t \in Seq(R)
  PROVE  s \o t \in Seq(R) /\ ToSet(s \o t) = ToSet(s) \cup ToSet(t)
<1>1. /\ s \o t \in Seq(R) /\ Len(s) \in Nat /\ Len(t) \in Nat
      /\ DOMAIN s = 1..Len(s) /\ DOMAIN t = 1..Len(t)
      /\ DOMAIN (s \o t) = 1..(Len(s) + Len(t))
      /\ \A i \in 1..Len(s) : (s \o t)[i] = s[i]
      /\ \A i \in 1..Len(t) : (s \o t)[Len(s) + i] = t[i]
  BY ConcatAt, LenProperties
<1> DEFINE st == s \o t
<1>2. \A i \in 1..(Len(s) + Len(t)) : i \in 1..Len(s) \/ \E j \in 1..Len(t) : i = Len(s) + j
  <2> TAKE i \in 1..(Len(s) + Len(t))
  <2>1. CASE i > Len(s)
    <3>1. i - Len(s) \in 1..Len(t) /\ i = Len(s) + (i - Len(s))
      BY <1>1, <2>1
    <3> QED BY <3>1
  <2> QED BY <1>1, <2>1
<1>3. (\A i \in 1..Len(s) : i \in 1..(Len(s) + Len(t)))
      /\ \A i \in 1..Len(t) : Len(s) + i \in 1..(Len(s) + Len(t))
  BY <1>1
<1>4. \A i \in DOMAIN st : st[i] \in ToSet(s) \cup ToSet(t)
  BY <1>1, <1>2 DEF ToSet
<1>5. \A i \in DOMAIN s : \E j \in DOMAIN st : s[i] = st[j]
  BY <1>1, <1>3
<1>6. \A i \in DOMAIN t : \E j \in DOMAIN st : t[i] = st[j]
  BY <1>1, <1>3
<1> HIDE DEF st
<1>7. ToSet(st) = ToSet(s) \cup ToSet(t)
  BY ONLY <1>4, <1>5, <1>6 DEF ToSet
<1> QED BY <1>1, <1>7 DEF st

-----------------------------------------------------------------------------
(* Induction over sequences, for a set of them.                            *)
LEMMA EverySeq ==
  \A R, S : /\ <<>> \in S
            /\ \A s \in Seq(R), x \in R : s \in S => Append(s, x) \in S
            => Seq(R) \subseteq S
<1> TAKE R, S
<1> HAVE /\ <<>> \in S
         /\ \A s \in Seq(R), x \in R : s \in S => Append(s, x) \in S
<1> DEFINE L == {k \in Nat : \A s \in Seq(R) : Len(s) = k => s \in S}
<1>1. 0 \in L
  BY EmptySeq
<1>2. ASSUME NEW k \in Nat, k \in L PROVE k + 1 \in L
  <2>1. ASSUME NEW s \in Seq(R), Len(s) = k + 1 PROVE s \in S
    <3>1. s # <<>>
      BY <2>1, EmptySeq
    <3>2. PICK t \in Seq(R), x \in R : s = Append(t, x)
      BY <3>1, SequenceEmptyOrAppend
    <3>3. Len(s) = Len(t) + 1 /\ Len(t) \in Nat
      BY <3>2, AppendProperties, LenProperties
    <3>4. Len(t) = k
      BY <2>1, <3>3
    <3>5. t \in S
      BY <1>2, <3>4
    <3> QED BY <3>2, <3>5
  <2> QED BY <2>1
<1>3. \A k \in Nat : k \in L
  <2> HIDE DEF L
  <2> QED BY <1>1, <1>2, EveryNat
<1>4. ASSUME NEW s \in Seq(R) PROVE s \in S
  <2>1. Len(s) \in Nat
    BY LenProperties
  <2> QED BY <1>3, <2>1
<1> QED BY <1>4

(* What is kept of a sequence, step by step, and of two sequences.         *)
LEMMA KeptNone == \A T : Kept(<<>>, T) = <<>>
<1> TAKE T
<1>1. <<>> \in Seq({}) /\ Len(<<>>) = 0
  OBVIOUS
<1>2. PICK s : s = <<>>
  OBVIOUS
<1>3. s \in Seq({}) /\ Len(s) = 0
  BY <1>1, <1>2
<1>4. PICK a : a[0] = <<>> /\ Kept(s, T) = a[Len(s)]
  BY <1>3, KeptSteps
<1> QED BY <1>2, <1>3, <1>4

LEMMA KeptNext ==
  ASSUME NEW R, NEW s \in Seq(R), NEW x \in R, NEW T
  PROVE  Kept(Append(s, x), T) = Keep(T, Kept(s, T), x)
<1> DEFINE n == Len(s)
           longer == Append(s, x)
<1>1. n \in Nat
  BY LenProperties
<1>2. /\ longer \in Seq(R) /\ Len(longer) = n + 1
      /\ \A k \in 1..n : longer[k] = s[k]
      /\ longer[n + 1] = x
  BY AppendProperties
<1>3. PICK a : /\ a[0] = <<>>
               /\ \A k \in 0..(n - 1) : a[k + 1] = Keep(T, a[k], s[k + 1])
               /\ Kept(s, T) = a[n]
  BY KeptSteps
<1> HIDE DEF longer
<1>4. PICK b : /\ b[0] = <<>>
               /\ \A k \in 0..(Len(longer) - 1) : b[k + 1] = Keep(T, b[k], longer[k + 1])
               /\ Kept(longer, T) = b[Len(longer)]
  BY <1>2, KeptSteps
<1> HIDE DEF n
<1> DEFINE S == {k \in Nat : k <= n => a[k] = b[k]}
<1>5. 0 \in S
  BY <1>3, <1>4
<1>6. ASSUME NEW k \in Nat, k \in S PROVE k + 1 \in S
  <2>1. CASE k + 1 <= n
    <3>1. k \in 0..(n - 1) /\ k \in 0..(Len(longer) - 1) /\ k + 1 \in 1..n /\ k <= n
      BY <1>1, <1>2, <2>1
    <3>2. a[k] = b[k]
      BY <1>6, <3>1
    <3> QED BY <1>2, <1>3, <1>4, <3>1, <3>2
  <2> QED BY <2>1
<1> HIDE DEF S
<1>7. n \in S
  BY <1>1, <1>5, <1>6, EveryNat
<1>8. a[n] = b[n]
  BY <1>1, <1>7 DEF S
<1>9. n \in 0..(Len(longer) - 1)
  BY <1>1, <1>2
<1> QED BY <1>2, <1>3, <1>4, <1>8, <1>9 DEF longer

LEMMA KeptMembers ==
  ASSUME NEW R, NEW T
  PROVE  \A s \in Seq(R) : Kept(s, T) \in Seq(R \cap T) /\ ToSet(Kept(s, T)) = ToSet(s) \cap T
<1> DEFINE S == {s \in Seq(R) : Kept(s, T) \in Seq(R \cap T) /\ ToSet(Kept(s, T)) = ToSet(s) \cap T}
<1>1. <<>> \in S
  <2>1. \A C : <<>> \in Seq(C)
    OBVIOUS
  <2>2. ToSet(<<>>) = {}
    BY DEF ToSet
  <2>3. Kept(<<>>, T) = <<>>
    BY KeptNone
  <2> QED BY <2>1, <2>2, <2>3
<1>2. ASSUME NEW s \in Seq(R), NEW x \in R, s \in S PROVE Append(s, x) \in S
  <2>1. Append(s, x) \in Seq(R) /\ ToSet(Append(s, x)) = ToSet(s) \cup {x}
    BY AppendSet
  <2>2. Kept(Append(s, x), T) = IF x \in T THEN Append(Kept(s, T), x) ELSE Kept(s, T)
    BY KeptNext DEF Keep
  <2>3. Kept(s, T) \in Seq(R \cap T) /\ ToSet(Kept(s, T)) = ToSet(s) \cap T
    BY <1>2
  <2>4. CASE x \in T
    <3>1. /\ Append(Kept(s, T), x) \in Seq(R \cap T)
          /\ ToSet(Append(Kept(s, T), x)) = ToSet(Kept(s, T)) \cup {x}
      BY <2>3, <2>4, AppendSet
    <3> QED BY <2>1, <2>2, <2>3, <2>4, <3>1
  <2>5. CASE x \notin T
    BY <2>1, <2>2, <2>3, <2>5
  <2> QED BY <2>4, <2>5
<1> HIDE DEF S
<1>3. Seq(R) \subseteq S
  BY <1>1, <1>2, EverySeq
<1> QED BY <1>3 DEF S

LEMMA KeptAgree ==
  ASSUME NEW R, NEW T, NEW U, \A x \in R : x \in T <=> x \in U
  PROVE  \A s \in Seq(R) : Kept(s, T) = Kept(s, U)
<1> DEFINE S == {s \in Seq(R) : Kept(s, T) = Kept(s, U)}
<1>1. <<>> \in S
  BY KeptNone, EmptySeq
<1>2. ASSUME NEW s \in Seq(R), NEW x \in R, s \in S PROVE Append(s, x) \in S
  BY <1>2, KeptNext, AppendProperties DEF Keep
<1> HIDE DEF S
<1>3. Seq(R) \subseteq S
  BY <1>1, <1>2, EverySeq
<1> QED BY <1>3 DEF S

LEMMA KeptAll ==
  ASSUME NEW R, NEW T, R \subseteq T
  PROVE  \A s \in Seq(R) : Kept(s, T) = s
<1> DEFINE S == {s \in Seq(R) : Kept(s, T) = s}
<1>1. <<>> \in S
  BY KeptNone, EmptySeq
<1>2. ASSUME NEW s \in Seq(R), NEW x \in R, s \in S PROVE Append(s, x) \in S
  BY <1>2, KeptNext, AppendProperties DEF Keep
<1> HIDE DEF S
<1>3. Seq(R) \subseteq S
  BY <1>1, <1>2, EverySeq
<1> QED BY <1>3 DEF S

LEMMA KeptNothing ==
  ASSUME NEW R, NEW T, R \cap T = {}
  PROVE  \A s \in Seq(R) : Kept(s, T) = <<>>
<1> DEFINE S == {s \in Seq(R) : Kept(s, T) = <<>>}
<1>1. <<>> \in S
  BY KeptNone, EmptySeq
<1>2. ASSUME NEW s \in Seq(R), NEW x \in R, s \in S PROVE Append(s, x) \in S
  BY <1>2, KeptNext, AppendProperties DEF Keep
<1> HIDE DEF S
<1>3. Seq(R) \subseteq S
  BY <1>1, <1>2, EverySeq
<1> QED BY <1>3 DEF S

LEMMA ConcatNext ==
  ASSUME NEW R, NEW s \in Seq(R), NEW t \in Seq(R), NEW x \in R
  PROVE  s \o Append(t, x) = Append(s \o t, x)
<1>1. Append(t, x) = t \o <<x>> /\ s \o t \in Seq(R) /\ <<x>> \in Seq(R)
  BY AppendIsConcat, ConcatProperties
<1>2. Append(s \o t, x) = (s \o t) \o <<x>>
  BY <1>1, AppendIsConcat
<1> QED BY <1>1, <1>2, ConcatAssociative

LEMMA KeptOfBoth ==
  ASSUME NEW R, NEW T, NEW s \in Seq(R)
  PROVE  \A t \in Seq(R) : Kept(s \o t, T) = Kept(s, T) \o Kept(t, T)
<1> DEFINE S == {t \in Seq(R) : Kept(s \o t, T) = Kept(s, T) \o Kept(t, T)}
<1>k. \A t \in Seq(R) : Kept(t, T) \in Seq(R)
  <2> TAKE t \in Seq(R)
  <2>1. Kept(t, T) \in Seq(R \cap T)
    BY KeptMembers
  <2> QED BY <2>1, SeqMonotonic
<1>1. <<>> \in S
  BY <1>k, KeptNone, EmptySeq, ConcatEmptySeq
<1>2. ASSUME NEW t \in Seq(R), NEW x \in R, t \in S PROVE Append(t, x) \in S
  <2>1. Kept(s \o t, T) = Kept(s, T) \o Kept(t, T) /\ s \o t \in Seq(R) /\ Append(t, x) \in Seq(R)
    BY <1>2, ConcatProperties, AppendProperties
  <2>2. Kept(s \o Append(t, x), T) = Keep(T, Kept(s \o t, T), x)
    <3>1. s \o Append(t, x) = Append(s \o t, x)
      BY ConcatNext
    <3>2. PICK u \in Seq(R) : u = s \o t
      BY <2>1
    <3>3. Kept(Append(u, x), T) = Keep(T, Kept(u, T), x)
      BY KeptNext
    <3> QED BY <3>1, <3>2, <3>3
  <2>3. Kept(Append(t, x), T) = Keep(T, Kept(t, T), x)
    BY KeptNext
  <2>4. Kept(s, T) \o Append(Kept(t, T), x) = Append(Kept(s, T) \o Kept(t, T), x)
    BY <1>k, ConcatNext
  <2>5. CASE x \in T
    BY <2>1, <2>2, <2>3, <2>4, <2>5 DEF Keep
  <2>6. CASE x \notin T
    BY <2>1, <2>2, <2>3, <2>6 DEF Keep
  <2> QED BY <2>5, <2>6
<1> HIDE DEF S
<1>3. Seq(R) \subseteq S
  BY <1>1, <1>2, EverySeq
<1> QED BY <1>3 DEF S

-----------------------------------------------------------------------------
(* Segments *)

(* A column of the schema is found by its name.                            *)
LEMMA NamedAt ==
  ASSUME NEW k \in DOMAIN Schema
  PROVE  SelectInSeq(Schema, LAMBDA c : c.name = Schema[k].name) = k
<1>1. /\ Len(Schema) \in Nat /\ DOMAIN Schema = 1..Len(Schema)
      /\ \A i, j \in 1..Len(Schema) : Schema[i].name = Schema[j].name => i = j
  BY SchemaAssumption, SchemaFacts
<1>2. {j \in 1..Len(Schema) : Schema[j].name = Schema[k].name} = {k}
  BY <1>1
<1>3. k \in Int
  BY <1>1
<1> QED BY <1>2, <1>3, MinOfOne DEF SelectInSeq

(* The columns of a batch of the table are found by their names.           *)
LEMMA TableColumn ==
  ASSUME NEW b, TableBatch(b), NEW k \in DOMAIN Schema
  PROVE  /\ HasColumn(b, Schema[k].name)
         /\ Column(b, Schema[k].name) = ColumnData(Schema[k].dtype, Grid(b)[k])
<1>1. /\ N \in Nat /\ DOMAIN Schema = 1..N
      /\ \A i, j \in 1..N : Schema[i].name = Schema[j].name => i = j
  BY SchemaAssumption, SchemaFacts DEF N
<1>2. /\ DOMAIN b.columns = 1..N /\ Len(b.columns) = N
      /\ \A j \in 1..N : b.columns[j] = ColumnOf(j, Grid(b)[j])
  BY ColumnsOfTable
<1>3. \A j \in 1..N : b.columns[j].name = Schema[j].name
  BY <1>2, ColumnFields
<1>4. \A j \in 1..N : b.columns[j].name = Schema[k].name => j = k
  BY <1>1, <1>3
<1>5. b.columns[k].name = Schema[k].name /\ k \in 1..N
  BY <1>1, <1>3
<1>6. HasColumn(b, Schema[k].name) /\ Column(b, Schema[k].name) = b.columns[k].data
  <2>1. PICK name, n, j : name = Schema[k].name /\ n = N /\ j = k
    OBVIOUS
  <2>2. OnlyAt(b, n, j, name)
    BY <1>1, <1>2, <1>4, <1>5, <2>1 DEF OnlyAt
  <2>3. HasColumn(b, name) /\ Column(b, name) = b.columns[j].data
    BY ONLY <2>2, ColumnAt
  <2> QED BY <2>1, <2>3
<1>7. b.columns[k].data = ColumnData(Schema[k].dtype, Grid(b)[k])
  BY <1>2, <1>5, ColumnFields
<1> QED BY <1>6, <1>7

LEMMA SealedFiles ==
  ASSUME NEW b, TableBatch(b), NEW id
  PROVE  /\ Seal(Schema, id, b).id = id
         /\ Seal(Schema, id, b).rows = b.rows
         /\ Seal(Schema, id, b).columns = Schema
         /\ \A k \in DOMAIN Schema :
              /\ Seal(Schema, id, b).files[k] =
                   [bytes |-> b.rows * Width(Schema[k].dtype), values |-> Grid(b)[k]]
              /\ File(Seal(Schema, id, b), Schema[k].name) = Seal(Schema, id, b).files[k]
<1> DEFINE s == Seal(Schema, id, b)
<1>1. s.id = id /\ s.rows = b.rows /\ s.columns = Schema
  BY DEF Seal
<1>2. s.files = [k \in DOMAIN Schema |-> ColumnFile(Column(b, Schema[k].name))]
  BY DEF Seal
<1> HIDE DEF s
<1>3. ASSUME NEW k \in DOMAIN Schema
      PROVE  /\ s.files[k] = [bytes |-> b.rows * Width(Schema[k].dtype), values |-> Grid(b)[k]]
             /\ File(s, Schema[k].name) = s.files[k]
  <2>1. s.files[k] = ColumnFile(ColumnData(Schema[k].dtype, Grid(b)[k]))
    BY <1>2, TableColumn
  <2>2. Grid(b)[k] \in [1..b.rows -> CellsOf(Schema[k].dtype)] /\ b.rows \in Nat
    BY DEF TableBatch, IsGrid
  <2>3. Len(Grid(b)[k]) = b.rows
    BY <2>2
  <2>4. s.files[k] = [bytes |-> b.rows * Width(Schema[k].dtype), values |-> Grid(b)[k]]
    BY <2>1, <2>3 DEF ColumnFile, ColumnData
  <2>5. File(s, Schema[k].name) = s.files[k]
    BY <1>1, NamedAt DEF File
  <2> QED BY <2>4, <2>5
<1> QED BY <1>1, <1>3 DEF s

LEMMA ReadsSealed ==
  ASSUME NEW b, TableBatch(b), NEW id
  PROVE  ReadBatch(Schema, Seal(Schema, id, b)) = [err |-> NoError, batch |-> b]
<1>1. PICK s : s = Seal(Schema, id, b)
  OBVIOUS
<1>2. /\ s.rows = b.rows
      /\ \A k \in DOMAIN Schema :
           /\ File(s, Schema[k].name).bytes = b.rows * Width(Schema[k].dtype)
           /\ File(s, Schema[k].name).values = Grid(b)[k]
  <2>1. /\ s.rows = b.rows
        /\ \A k \in DOMAIN Schema :
             /\ s.files[k] = [bytes |-> b.rows * Width(Schema[k].dtype), values |-> Grid(b)[k]]
             /\ File(s, Schema[k].name) = s.files[k]
    BY <1>1, SealedFiles
  <2>2. ASSUME NEW k \in DOMAIN Schema
        PROVE  File(s, Schema[k].name) = [bytes |-> b.rows * Width(Schema[k].dtype), values |-> Grid(b)[k]]
    BY <2>1
  <2>3. ASSUME NEW k \in DOMAIN Schema
        PROVE  /\ File(s, Schema[k].name).bytes = b.rows * Width(Schema[k].dtype)
               /\ File(s, Schema[k].name).values = Grid(b)[k]
    <3>1. PICK file, bytes, values : /\ file = File(s, Schema[k].name)
                                     /\ bytes = b.rows * Width(Schema[k].dtype)
                                     /\ values = Grid(b)[k]
      OBVIOUS
    <3>2. file = [bytes |-> bytes, values |-> values]
      BY <2>2, <3>1
    <3>3. file.bytes = bytes /\ file.values = values
      BY ONLY <3>2
    <3> QED BY <3>1, <3>3, Zenon
  <2> QED BY <2>1, <2>3
<1> DEFINE columns == [k \in DOMAIN Schema |->
             [name |-> Schema[k].name,
              data |-> ColumnData(Schema[k].dtype, File(s, Schema[k].name).values)]]
<1>3. ReadBatch(Schema, s) = [err |-> NoError, batch |-> [columns |-> columns, rows |-> s.rows]]
  BY <1>2 DEF ReadBatch
<1>4. columns = [k \in DOMAIN Schema |-> ColumnOf(k, Grid(b)[k])]
  BY <1>2 DEF ColumnOf, ColumnData
<1>5. b = [columns |-> [k \in DOMAIN Schema |-> ColumnOf(k, Grid(b)[k])], rows |-> b.rows]
  BY DEF TableBatch, BatchOf
<1> HIDE DEF columns
<1> QED BY <1>1, <1>2, <1>3, <1>4, <1>5

LEMMA SealsSegment ==
  ASSUME NEW b, TableBatch(b), b.rows # 0, NEW id
  PROVE  /\ IsSegment(Seal(Schema, id, b)) /\ Data(Seal(Schema, id, b)) = b
         /\ Seal(Schema, id, b).id = id
<1>1. PICK s : s = Seal(Schema, id, b)
  OBVIOUS
<1>2. ReadBatch(Schema, s) = [err |-> NoError, batch |-> b] /\ s.id = id
  BY <1>1, ReadsSealed, SealedFiles
<1>3. Data(s) = b
  BY <1>2 DEF Data
<1> QED BY <1>1, <1>2, <1>3 DEF IsSegment

-----------------------------------------------------------------------------
(* The rows of batches, of segments and of the table.                      *)
RowSet == [DOMAIN Schema -> UNION {CellsOf(dtype) : dtype \in DTypes}]

LEMMA RowsTyped ==
  ASSUME NEW b, TableBatch(b)
  PROVE  /\ RowsOf(b) \in Seq(RowSet) /\ Len(RowsOf(b)) = b.rows /\ b.rows \in Nat
         /\ \A row \in 1..b.rows : RowsOf(b)[row] = [k \in DOMAIN Schema |-> Grid(b)[k][row]]
<1>1. /\ b.rows \in Nat
      /\ \A k \in DOMAIN Schema : Grid(b)[k] \in [1..b.rows -> CellsOf(Schema[k].dtype)]
  BY DEF TableBatch, IsGrid
<1>2. \A k \in DOMAIN Schema : b.columns[k].data.values = Grid(b)[k]
  BY DEF Grid
<1>3. RowsOf(b) = [row \in 1..b.rows |-> [k \in DOMAIN Schema |-> Grid(b)[k][row]]]
  BY <1>2 DEF RowsOf
<1>4. ASSUME NEW row \in 1..b.rows
      PROVE  [k \in DOMAIN Schema |-> Grid(b)[k][row]] \in RowSet
  <2>1. ASSUME NEW k \in DOMAIN Schema
        PROVE  Grid(b)[k][row] \in UNION {CellsOf(dtype) : dtype \in DTypes}
    <3>1. Grid(b)[k][row] \in CellsOf(Schema[k].dtype) /\ Schema[k].dtype \in DTypes
      BY <1>1, SchemaTypes
    <3> QED BY <3>1
  <2> QED BY <2>1 DEF RowSet
<1> HIDE DEF RowSet
<1> QED BY <1>1, <1>3, <1>4

LEMMA RowsJoin ==
  ASSUME NEW a, TableBatch(a), NEW b, TableBatch(b), NEW c,
         AppendBatch(a, b) = [err |-> NoError, batch |-> c]
  PROVE  TableBatch(c) /\ c.rows = a.rows + b.rows /\ RowsOf(c) = RowsOf(a) \o RowsOf(b)
<1> DEFINE grid == GridJoin(Grid(a), Grid(b))
<1>1. c = BatchOf(grid, a.rows + b.rows)
  BY TablesAppend
<1>2. IsGrid(Grid(a), a.rows) /\ IsGrid(Grid(b), b.rows)
  BY DEF TableBatch
<1>3. TableBatch(c) /\ Grid(c) = grid /\ c.rows = a.rows + b.rows
  BY <1>1, <1>2, GridsJoin, BatchOfGrid
<1>4. a.rows \in Nat /\ b.rows \in Nat
  BY <1>2 DEF IsGrid
<1>5. ASSUME NEW k \in DOMAIN Schema
      PROVE  /\ \A i \in 1..a.rows : grid[k][i] = Grid(a)[k][i]
             /\ \A i \in 1..b.rows : grid[k][a.rows + i] = Grid(b)[k][i]
  <2>1. /\ Grid(a)[k] \in [1..a.rows -> CellsOf(Schema[k].dtype)]
        /\ Grid(b)[k] \in [1..b.rows -> CellsOf(Schema[k].dtype)]
    BY <1>2 DEF IsGrid
  <2>2. grid[k] = Grid(a)[k] \o Grid(b)[k]
    BY DEF GridJoin
  <2>3. PICK C, s, t : C = CellsOf(Schema[k].dtype) /\ s = Grid(a)[k] /\ t = Grid(b)[k]
    OBVIOUS
  <2>4. s \in [1..a.rows -> C] /\ t \in [1..b.rows -> C]
    BY <2>1, <2>3
  <2>5. /\ \A i \in 1..a.rows : (s \o t)[i] = s[i]
        /\ \A i \in 1..b.rows : (s \o t)[a.rows + i] = t[i]
    BY <1>4, <2>4, JoinRows
  <2> QED BY <2>2, <2>3, <2>5
<1> HIDE DEF grid
<1>6. /\ RowsOf(a) \in Seq(RowSet) /\ Len(RowsOf(a)) = a.rows
      /\ RowsOf(b) \in Seq(RowSet) /\ Len(RowsOf(b)) = b.rows
      /\ RowsOf(c) \in Seq(RowSet) /\ Len(RowsOf(c)) = a.rows + b.rows
  BY <1>3, RowsTyped
<1>7. /\ RowsOf(a) \o RowsOf(b) \in Seq(RowSet)
      /\ Len(RowsOf(a) \o RowsOf(b)) = a.rows + b.rows
      /\ \A i \in 1..a.rows : (RowsOf(a) \o RowsOf(b))[i] = RowsOf(a)[i]
      /\ \A i \in 1..b.rows : (RowsOf(a) \o RowsOf(b))[a.rows + i] = RowsOf(b)[i]
  BY <1>6, ConcatAt
<1>8. \A i \in 1..a.rows : RowsOf(c)[i] = RowsOf(a)[i]
  <2> TAKE i \in 1..a.rows
  <2>1. i \in 1..c.rows
    BY <1>3, <1>4
  <2>2. RowsOf(c)[i] = [k \in DOMAIN Schema |-> Grid(c)[k][i]]
    BY <1>3, <2>1, RowsTyped
  <2>3. RowsOf(a)[i] = [k \in DOMAIN Schema |-> Grid(a)[k][i]]
    BY RowsTyped
  <2> QED BY <1>3, <1>5, <2>2, <2>3
<1>9. \A i \in 1..b.rows : RowsOf(c)[a.rows + i] = RowsOf(b)[i]
  <2> TAKE i \in 1..b.rows
  <2>1. a.rows + i \in 1..c.rows
    BY <1>3, <1>4
  <2>2. RowsOf(c)[a.rows + i] = [k \in DOMAIN Schema |-> Grid(c)[k][a.rows + i]]
    BY <1>3, <2>1, RowsTyped
  <2>3. RowsOf(b)[i] = [k \in DOMAIN Schema |-> Grid(b)[k][i]]
    BY RowsTyped
  <2> QED BY <1>3, <1>5, <2>2, <2>3
<1>10. \A i \in 1..(a.rows + b.rows) : i \in 1..a.rows \/ \E j \in 1..b.rows : i = a.rows + j
  <2> TAKE i \in 1..(a.rows + b.rows)
  <2>1. CASE i > a.rows
    <3>1. i - a.rows \in 1..b.rows /\ i = a.rows + (i - a.rows)
      BY <1>4, <2>1
    <3> QED BY <3>1
  <2> QED BY <1>4, <2>1
<1>11. \A i \in 1..(a.rows + b.rows) : RowsOf(c)[i] = (RowsOf(a) \o RowsOf(b))[i]
  <2> TAKE i \in 1..(a.rows + b.rows)
  <2>1. CASE i \in 1..a.rows
    BY <1>7, <1>8, <2>1
  <2>2. CASE \E j \in 1..b.rows : i = a.rows + j
    <3>1. PICK j \in 1..b.rows : i = a.rows + j
      BY <2>2
    <3> QED BY <1>7, <1>9, <3>1
  <2> QED BY <1>10, <2>1, <2>2
<1>12. RowsOf(c) = RowsOf(a) \o RowsOf(b)
  BY <1>6, <1>7, <1>11, SeqEqual
<1> QED BY <1>3, <1>12

(* The rows of segments are those of the first ones and of the last.       *)
StoredRows(segments) == RowsOf(Combined(segments).batch)

IsTable(segments) ==
  /\ Combined(segments) = [err |-> NoError, batch |-> Combined(segments).batch]
  /\ TableBatch(Combined(segments).batch)

LEMMA CombinedNone == Combined(<<>>) = [err |-> NoError, batch |-> EmptyBatch(Schema)]
<1>1. [k \in DOMAIN <<>> |-> ReadBatch(Schema, <<>>[k])] = <<>>
  OBVIOUS
<1> QED BY <1>1, JoinedNone DEF Combined

LEMMA CombinedNext ==
  ASSUME NEW R, NEW s \in Seq(R), NEW x \in R
  PROVE  Combined(Append(s, x)) = AddBatch(Combined(s), ReadBatch(Schema, x))
<1> DEFINE D == {ReadBatch(Schema, y) : y \in R}
           n == Len(s)
           t == Append(s, x)
           reads == [k \in 1..n |-> ReadBatch(Schema, s[k])]
           f == [k \in 1..(n + 1) |-> ReadBatch(Schema, t[k])]
<1>1. /\ n \in Nat /\ DOMAIN s = 1..n /\ DOMAIN t = 1..(n + 1) /\ \A k \in 1..n : s[k] \in R
      /\ \A k \in 1..n : t[k] = s[k]
      /\ t[n + 1] = x
  BY AppendProperties, LenProperties
<1> HIDE DEF t, n
<1>2. Combined(s) = Joined(reads) /\ Combined(t) = Joined(f)
  BY <1>1 DEF Combined
<1>3. Append([k \in 1..n |-> f[k]], f[n + 1]) = [k \in 1..(n + 1) |-> f[k]]
  BY <1>1, AppendNext
<1>4. [k \in 1..n |-> f[k]] = reads
  <2>1. \A k \in 1..n : f[k] = ReadBatch(Schema, s[k])
    BY <1>1
  <2> HIDE DEF f
  <2> QED BY <2>1
<1>5. f[n + 1] = ReadBatch(Schema, x)
  BY <1>1
<1>6. reads \in Seq(D) /\ ReadBatch(Schema, x) \in D
  BY <1>1
<1>7. f = Append(reads, ReadBatch(Schema, x))
  <2>1. f = [k \in 1..(n + 1) |-> f[k]]
    OBVIOUS
  <2> HIDE DEF f, reads
  <2> QED BY <1>3, <1>4, <1>5, <2>1
<1> HIDE DEF D, reads, f
<1>8. Joined(f) = AddBatch(Joined(reads), ReadBatch(Schema, x))
  BY <1>6, <1>7, JoinedNext
<1> QED BY <1>2, <1>8 DEF t

LEMMA StoredNone == IsTable(<<>>) /\ StoredRows(<<>>) = <<>>
<1>1. Combined(<<>>) = [err |-> NoError, batch |-> EmptyBatch(Schema)]
  BY CombinedNone
<1>2. PICK b : b = EmptyBatch(Schema)
  OBVIOUS
<1>3. TableBatch(b) /\ b.rows = 0
  BY <1>2, EmptyIsTable
<1>4. RowsOf(b) = <<>>
  BY <1>3 DEF RowsOf
<1> QED BY <1>1, <1>2, <1>3, <1>4 DEF IsTable, StoredRows

LEMMA StoredOne ==
  ASSUME NEW R, \A x \in R : IsSegment(x), NEW s \in Seq(R), NEW x \in R, IsTable(s)
  PROVE  /\ IsTable(Append(s, x))
         /\ StoredRows(Append(s, x)) = StoredRows(s) \o RowsOf(Data(x))
         /\ Combined(Append(s, x)).batch.rows = Combined(s).batch.rows + Data(x).rows
<1>1. PICK a, b, c, longer : /\ a = Combined(s).batch
                             /\ b = Data(x)
                             /\ longer = Combined(Append(s, x))
                             /\ c = BatchOf(GridJoin(Grid(a), Grid(b)), a.rows + b.rows)
  OBVIOUS
<1>2. /\ Combined(s) = [err |-> NoError, batch |-> a] /\ TableBatch(a)
      /\ ReadBatch(Schema, x) = [err |-> NoError, batch |-> b] /\ TableBatch(b)
  BY <1>1 DEF IsTable, IsSegment
<1>3. longer = AddBatch([err |-> NoError, batch |-> a], [err |-> NoError, batch |-> b])
  BY <1>1, <1>2, CombinedNext
<1>4. longer = AppendBatch(a, b)
  BY <1>3 DEF AddBatch
<1>5. longer = [err |-> NoError, batch |-> c]
  BY <1>1, <1>2, <1>4, TablesAppend
<1>6. TableBatch(c) /\ RowsOf(c) = RowsOf(a) \o RowsOf(b) /\ c.rows = a.rows + b.rows
  BY <1>2, <1>4, <1>5, RowsJoin
<1> QED BY <1>1, <1>5, <1>6 DEF IsTable, StoredRows

LEMMA StoredTyped ==
  ASSUME NEW R, \A x \in R : IsSegment(x)
  PROVE  \A s \in Seq(R) : /\ IsTable(s)
                           /\ StoredRows(s) \in Seq(RowSet)
                           /\ Len(StoredRows(s)) = Combined(s).batch.rows
<1> DEFINE S == {s \in Seq(R) : IsTable(s)}
<1>1. <<>> \in S
  BY StoredNone, EmptySeq
<1>2. ASSUME NEW s \in Seq(R), NEW x \in R, s \in S PROVE Append(s, x) \in S
  BY <1>2, StoredOne, AppendProperties
<1> HIDE DEF S
<1>3. Seq(R) \subseteq S
  BY <1>1, <1>2, EverySeq
<1>4. \A s \in Seq(R) : IsTable(s)
  BY <1>3 DEF S
<1>5. ASSUME NEW s \in Seq(R)
      PROVE  StoredRows(s) \in Seq(RowSet) /\ Len(StoredRows(s)) = Combined(s).batch.rows
  BY <1>4, RowsTyped DEF IsTable, StoredRows
<1> QED BY <1>4, <1>5

LEMMA StoredNext ==
  ASSUME NEW R, \A x \in R : IsSegment(x), NEW s \in Seq(R), NEW x \in R
  PROVE  /\ StoredRows(Append(s, x)) = StoredRows(s) \o RowsOf(Data(x))
         /\ StoredRows(s) \in Seq(RowSet) /\ RowsOf(Data(x)) \in Seq(RowSet)
<1>1. IsTable(s) /\ StoredRows(s) \in Seq(RowSet)
  BY StoredTyped
<1>2. StoredRows(Append(s, x)) = StoredRows(s) \o RowsOf(Data(x))
  BY <1>1, StoredOne
<1>3. TableBatch(Data(x))
  BY DEF IsSegment
<1> QED BY <1>1, <1>2, <1>3, RowsTyped

LEMMA StoredOfBoth ==
  ASSUME NEW R, \A x \in R : IsSegment(x), NEW s \in Seq(R)
  PROVE  \A t \in Seq(R) : StoredRows(s \o t) = StoredRows(s) \o StoredRows(t)
<1> DEFINE S == {t \in Seq(R) : StoredRows(s \o t) = StoredRows(s) \o StoredRows(t)}
<1>k. \A t \in Seq(R) : StoredRows(t) \in Seq(RowSet)
  BY StoredTyped
<1>1. <<>> \in S
  BY <1>k, StoredNone, EmptySeq, ConcatEmptySeq
<1>2. ASSUME NEW t \in Seq(R), NEW x \in R, t \in S PROVE Append(t, x) \in S
  <2>1. /\ StoredRows(s \o t) = StoredRows(s) \o StoredRows(t)
        /\ s \o t \in Seq(R) /\ Append(t, x) \in Seq(R)
    BY <1>2, ConcatProperties, AppendProperties
  <2>2. s \o Append(t, x) = Append(s \o t, x)
    BY ConcatNext
  <2>3. StoredRows(Append(t, x)) = StoredRows(t) \o RowsOf(Data(x)) /\ RowsOf(Data(x)) \in Seq(RowSet)
    BY StoredNext
  <2>4. StoredRows(Append(s \o t, x)) = StoredRows(s \o t) \o RowsOf(Data(x))
    <3>1. PICK u \in Seq(R) : u = s \o t
      BY <2>1
    <3>2. StoredRows(Append(u, x)) = StoredRows(u) \o RowsOf(Data(x))
      BY StoredNext
    <3> QED BY <3>1, <3>2
  <2>5. (StoredRows(s) \o StoredRows(t)) \o RowsOf(Data(x)) =
          StoredRows(s) \o (StoredRows(t) \o RowsOf(Data(x)))
    BY <1>k, <2>3, ConcatAssociative
  <2> QED BY <2>1, <2>2, <2>3, <2>4, <2>5
<1> HIDE DEF S
<1>3. Seq(R) \subseteq S
  BY <1>1, <1>2, EverySeq
<1> QED BY <1>3 DEF S

LEMMA StoredSingle ==
  ASSUME NEW x, IsSegment(x)
  PROVE  StoredRows(<<x>>) = RowsOf(Data(x))
<1>1. <<>> \in Seq({x}) /\ x \in {x} /\ \A y \in {x} : IsSegment(y)
  OBVIOUS
<1>2. Append(<<>>, x) = <<x>>
  OBVIOUS
<1>3. PICK s : s = <<>>
  OBVIOUS
<1>4. /\ StoredRows(Append(s, x)) = StoredRows(s) \o RowsOf(Data(x))
      /\ RowsOf(Data(x)) \in Seq(RowSet)
  BY <1>1, <1>3, StoredNext
<1>5. <<>> \o RowsOf(Data(x)) = RowsOf(Data(x))
  BY <1>4, ConcatEmptySeq
<1> QED BY <1>2, <1>3, <1>4, <1>5, StoredNone

(* Parting segments in two parts their rows, without loss.                 *)
LEMMA StoredParts ==
  ASSUME NEW R, \A x \in R : IsSegment(x), NEW T, NEW U, \A x \in R : x \in T <=> x \notin U
  PROVE  \A s \in Seq(R) :
           /\ Len(StoredRows(s)) = Len(StoredRows(Kept(s, T))) + Len(StoredRows(Kept(s, U)))
           /\ ToSet(StoredRows(s)) = ToSet(StoredRows(Kept(s, T))) \cup ToSet(StoredRows(Kept(s, U)))
<1> DEFINE P(s) ==
             /\ Len(StoredRows(s)) = Len(StoredRows(Kept(s, T))) + Len(StoredRows(Kept(s, U)))
             /\ ToSet(StoredRows(s)) = ToSet(StoredRows(Kept(s, T))) \cup ToSet(StoredRows(Kept(s, U)))
           S == {s \in Seq(R) : P(s)}
<1>k. \A V : \A s \in Seq(R) : Kept(s, V) \in Seq(R)
  <2> TAKE V
  <2> TAKE s \in Seq(R)
  <2>1. Kept(s, V) \in Seq(R \cap V)
    BY KeptMembers
  <2> QED BY <2>1, SeqMonotonic
<1>1. P(<<>>)
  <2>1. Kept(<<>>, T) = <<>> /\ Kept(<<>>, U) = <<>> /\ StoredRows(<<>>) = <<>>
    BY KeptNone, StoredNone
  <2>2. Len(<<>>) = 0 /\ ToSet(<<>>) = {}
    BY DEF ToSet
  <2> QED BY <2>1, <2>2
<1>2. ASSUME NEW s \in Seq(R), NEW x \in R, P(s) PROVE P(Append(s, x))
  <2>1. PICK r, sr, tr, ur : /\ r = RowsOf(Data(x)) /\ sr = StoredRows(s)
                             /\ tr = StoredRows(Kept(s, T)) /\ ur = StoredRows(Kept(s, U))
    OBVIOUS
  <2>2. /\ r \in Seq(RowSet) /\ sr \in Seq(RowSet) /\ tr \in Seq(RowSet) /\ ur \in Seq(RowSet)
        /\ StoredRows(Append(s, x)) = sr \o r
        /\ StoredRows(Append(Kept(s, T), x)) = tr \o r
        /\ StoredRows(Append(Kept(s, U), x)) = ur \o r
    <3>1. Kept(s, T) \in Seq(R) /\ Kept(s, U) \in Seq(R)
      BY <1>k
    <3> QED BY <2>1, <3>1, StoredNext
  <2>3. Len(sr) = Len(tr) + Len(ur) /\ ToSet(sr) = ToSet(tr) \cup ToSet(ur)
    BY <1>2, <2>1
  <2>4. /\ Len(r) \in Nat /\ Len(sr) \in Nat /\ Len(tr) \in Nat /\ Len(ur) \in Nat
        /\ Len(sr \o r) = Len(sr) + Len(r) /\ ToSet(sr \o r) = ToSet(sr) \cup ToSet(r)
        /\ Len(tr \o r) = Len(tr) + Len(r) /\ ToSet(tr \o r) = ToSet(tr) \cup ToSet(r)
        /\ Len(ur \o r) = Len(ur) + Len(r) /\ ToSet(ur \o r) = ToSet(ur) \cup ToSet(r)
    BY <2>2, ConcatSet, ConcatProperties, LenProperties
  <2>5. /\ Kept(Append(s, x), T) = IF x \in T THEN Append(Kept(s, T), x) ELSE Kept(s, T)
        /\ Kept(Append(s, x), U) = IF x \in U THEN Append(Kept(s, U), x) ELSE Kept(s, U)
    BY KeptNext DEF Keep
  <2>6. CASE x \in T
    <3>1. /\ StoredRows(Kept(Append(s, x), T)) = tr \o r
          /\ StoredRows(Kept(Append(s, x), U)) = ur
      BY <2>1, <2>2, <2>5, <2>6
    <3> QED BY <2>2, <2>3, <2>4, <3>1
  <2>7. CASE x \notin T
    <3>1. /\ StoredRows(Kept(Append(s, x), T)) = tr
          /\ StoredRows(Kept(Append(s, x), U)) = ur \o r
      BY <2>1, <2>2, <2>5, <2>7
    <3> QED BY <2>2, <2>3, <2>4, <3>1
  <2> QED BY <2>6, <2>7
<1> HIDE DEF P
<1>3. <<>> \in S /\ \A s \in Seq(R), x \in R : s \in S => Append(s, x) \in S
  BY <1>1, <1>2, EmptySeq, AppendProperties
<1> HIDE DEF S
<1>4. Seq(R) \subseteq S
  BY <1>3, EverySeq
<1>5. \A s \in Seq(R) : P(s)
  BY <1>4 DEF S
<1> QED BY <1>5 DEF P

-----------------------------------------------------------------------------
(* Ids that differ, in longer sequences and in what is kept of them.       *)
Distinct(segments) ==
  \A j, k \in DOMAIN segments : j # k => segments[j].id # segments[k].id

LEMMA DistinctConcat ==
  ASSUME NEW R, NEW s \in Seq(R), NEW t \in Seq(R)
  PROVE  Distinct(s \o t) <=>
           Distinct(s) /\ Distinct(t) /\ \A x \in ToSet(s), y \in ToSet(t) : x.id # y.id
<1> DEFINE st == s \o t
           m == Len(s)
           n == Len(t)
<1>1. /\ m \in Nat /\ n \in Nat /\ DOMAIN s = 1..m /\ DOMAIN t = 1..n
      /\ DOMAIN st = 1..(m + n)
      /\ \A i \in 1..m : st[i] = s[i]
      /\ \A i \in 1..n : st[m + i] = t[i]
  BY ConcatAt, LenProperties
<1> HIDE DEF st, m, n
<1>2. \A i \in 1..(m + n) : i \in 1..m \/ \E j \in 1..n : i = m + j
  <2> TAKE i \in 1..(m + n)
  <2>1. CASE i > m
    <3>1. i - m \in 1..n /\ i = m + (i - m)
      BY <1>1, <2>1
    <3> QED BY <3>1
  <2> QED BY <1>1, <2>1
<1>3. /\ \A i \in 1..m : i \in 1..(m + n)
      /\ \A i \in 1..n : m + i \in 1..(m + n)
      /\ \A i \in 1..m, j \in 1..n : i # m + j
      /\ \A i, j \in 1..n : i # j => m + i # m + j
  BY <1>1
<1>4. ASSUME Distinct(st)
      PROVE  Distinct(s) /\ Distinct(t) /\ \A x \in ToSet(s), y \in ToSet(t) : x.id # y.id
  <2>1. Distinct(s)
    BY <1>1, <1>3, <1>4 DEF Distinct
  <2>2. Distinct(t)
    <3>1. ASSUME NEW i \in 1..n, NEW j \in 1..n, i # j PROVE t[i].id # t[j].id
      <4>1. m + i \in DOMAIN st /\ m + j \in DOMAIN st /\ m + i # m + j
        BY <1>1, <1>3, <3>1
      <4>2. st[m + i].id # st[m + j].id
        BY <1>4, <4>1 DEF Distinct
      <4> QED BY <1>1, <4>2
    <3> QED BY <1>1, <3>1 DEF Distinct
  <2>3. ASSUME NEW i \in 1..m, NEW j \in 1..n PROVE s[i].id # t[j].id
    <3>1. i \in DOMAIN st /\ m + j \in DOMAIN st /\ i # m + j
      BY <1>1, <1>3
    <3>2. st[i].id # st[m + j].id
      BY <1>4, <3>1 DEF Distinct
    <3> QED BY <1>1, <3>2
  <2> QED BY <1>1, <2>1, <2>2, <2>3 DEF ToSet
<1>5. ASSUME Distinct(s), Distinct(t), \A x \in ToSet(s), y \in ToSet(t) : x.id # y.id
      PROVE  Distinct(st)
  <2>1. \A i \in 1..m, j \in 1..n : s[i].id # t[j].id
    BY <1>1, <1>5 DEF ToSet
  <2>2. ASSUME NEW i \in 1..(m + n), NEW j \in 1..(m + n), i # j PROVE st[i].id # st[j].id
    <3>1. CASE i \in 1..m /\ j \in 1..m
      BY <1>1, <1>5, <2>2, <3>1 DEF Distinct
    <3>2. CASE i \in 1..m /\ j \notin 1..m
      <4>1. PICK b \in 1..n : j = m + b
        BY <1>2, <3>2
      <4>2. s[i].id # t[b].id /\ st[i] = s[i] /\ st[j] = t[b]
        BY <1>1, <2>1, <3>2, <4>1
      <4> QED BY <4>2
    <3>3. CASE i \notin 1..m /\ j \in 1..m
      <4>1. PICK a \in 1..n : i = m + a
        BY <1>2, <3>3
      <4>2. s[j].id # t[a].id /\ st[j] = s[j] /\ st[i] = t[a]
        BY <1>1, <2>1, <3>3, <4>1
      <4> QED BY <4>2
    <3>4. CASE i \notin 1..m /\ j \notin 1..m
      <4>1. PICK a \in 1..n, b \in 1..n : i = m + a /\ j = m + b
        BY <1>2, <3>4
      <4>2. a # b
        BY <2>2, <4>1
      <4>3. t[a].id # t[b].id
        BY <1>1, <1>5, <4>2 DEF Distinct
      <4> QED BY <1>1, <4>1, <4>3
    <3> QED BY <3>1, <3>2, <3>3, <3>4
  <2> QED BY <1>1, <2>2 DEF Distinct
<1> QED BY <1>4, <1>5 DEF st

LEMMA DistinctOne == \A x : Distinct(<<x>>) /\ ToSet(<<x>>) = {x}
  BY DEF Distinct, ToSet

LEMMA DistinctNext ==
  ASSUME NEW R, NEW s \in Seq(R), NEW x \in R
  PROVE  Distinct(Append(s, x)) <=> Distinct(s) /\ \A y \in ToSet(s) : y.id # x.id
<1>1. PICK t : t = <<x>>
  OBVIOUS
<1>2. t \in Seq(R) /\ Distinct(t) /\ ToSet(t) = {x}
  BY <1>1, DistinctOne
<1>3. Append(s, x) = s \o t
  BY <1>1, AppendIsConcat
<1>4. Distinct(s \o t) <=> Distinct(s) /\ \A y \in ToSet(s) : y.id # x.id
  BY <1>2, DistinctConcat
<1> QED BY <1>3, <1>4

LEMMA DistinctKept ==
  ASSUME NEW R, NEW T
  PROVE  \A s \in Seq(R) : Distinct(s) => Distinct(Kept(s, T))
<1> DEFINE S == {s \in Seq(R) : Distinct(s) => Distinct(Kept(s, T))}
<1>1. <<>> \in S
  BY KeptNone, EmptySeq
<1>2. ASSUME NEW s \in Seq(R), NEW x \in R, s \in S PROVE Append(s, x) \in S
  <2>1. SUFFICES ASSUME Distinct(Append(s, x)) PROVE Distinct(Kept(Append(s, x), T))
    BY AppendProperties
  <2>2. Distinct(s) /\ \A y \in ToSet(s) : y.id # x.id
    BY <2>1, DistinctNext
  <2>3. Kept(s, T) \in Seq(R \cap T) /\ ToSet(Kept(s, T)) = ToSet(s) \cap T
    BY KeptMembers
  <2>4. Distinct(Kept(s, T))
    BY <1>2, <2>2
  <2>5. Kept(Append(s, x), T) = IF x \in T THEN Append(Kept(s, T), x) ELSE Kept(s, T)
    BY KeptNext DEF Keep
  <2>6. CASE x \in T
    <3>1. Distinct(Append(Kept(s, T), x))
      BY <2>2, <2>3, <2>4, <2>6, DistinctNext
    <3> QED BY <2>5, <2>6, <3>1
  <2> QED BY <2>4, <2>5, <2>6
<1> HIDE DEF S
<1>3. Seq(R) \subseteq S
  BY <1>1, <1>2, EverySeq
<1> QED BY <1>3 DEF S

-----------------------------------------------------------------------------
(* Compaction.  The segments fall into those before the first that is      *)
(* replaced, which all stay, and the rest.                                 *)
Chosen(segments, ids) == {s \in ToSet(segments) : s.id \in ids}

SplitAt(first, pre, after, ids, new) ==
  /\ pre = SubSeq(sealed, 1, first - 1) /\ after = SubSeq(sealed, first, Len(sealed))
  /\ sealed[first].id \in ids
  /\ sealed = pre \o after
  /\ Replace(ids, new) = (pre \o <<new>>) \o Without(after, ids)
  /\ \A s \in ToSet(pre) : s.id \notin ids

LEMMA ReplaceParts ==
  ASSUME NEW R, sealed \in Seq(R), NEW ids, ids # {}, ids \subseteq Ids, NEW new
  PROVE  \E first \in 1..Len(sealed) : \E pre, after \in Seq(R) : SplitAt(first, pre, after, ids, new)
<1> DEFINE n == Len(sealed)
           I == {i \in 1..n : sealed[i].id \in ids}
           first == SelectInSeq(sealed, LAMBDA s : s.id \in ids)
           pre == SubSeq(sealed, 1, first - 1)
           after == SubSeq(sealed, first, n)
<1>1. n \in Nat /\ DOMAIN sealed = 1..n /\ \A i \in 1..n : sealed[i] \in R
  BY LenProperties, ElementOfSeq
<1>2. I # {} /\ I \in SUBSET Nat
  BY <1>1 DEF Ids
<1>3. first = Min(I)
  BY <1>2 DEF SelectInSeq
<1>4. first \in I /\ \A i \in I : first <= i
  BY <1>2, <1>3, LeastNumber
<1> HIDE DEF first
<1>5. first \in 1..n /\ sealed[first].id \in ids
  BY <1>4
<1>6. \A i \in 1..(first - 1) : i \in 1..n /\ sealed[i].id \notin ids
  BY <1>1, <1>4, <1>5
<1>7. Replace(ids, new) = (pre \o <<new>>) \o Without(after, ids)
  BY DEF Replace, first
<1> HIDE DEF I
<1>8. /\ pre \in Seq(R) /\ Len(pre) = first - 1
      /\ \A i \in 1..(first - 1) : pre[i] = sealed[i]
  <2>1. first - 1 \in Int /\ 1 \in Int /\ \A i \in 1..(first - 1) : sealed[i] \in R
    BY <1>1, <1>5, <1>6
  <2>2. /\ pre \in Seq(R) /\ Len(pre) = IF 1 <= first - 1 THEN first - 1 - 1 + 1 ELSE 0
        /\ \A i \in 1..(first - 1 - 1 + 1) : pre[i] = sealed[1 + i - 1]
    BY <2>1, SubSeqProperties
  <2>3. /\ (IF 1 <= first - 1 THEN first - 1 - 1 + 1 ELSE 0) = first - 1
        /\ first - 1 - 1 + 1 = first - 1 /\ \A i \in 1..(first - 1) : 1 + i - 1 = i
    BY <1>5
  <2> QED BY ONLY <2>2, <2>3
<1>9. after \in Seq(R)
  <2>1. \A i \in first..n : sealed[i] \in R
    BY <1>1, <1>5
  <2> QED BY <1>1, <1>5, <2>1, SubSeqProperties
<1>10. sealed = pre \o after
  <2>1. 1 \in 1..(n + 1) /\ first - 1 \in (1 - 1)..n /\ n \in (first - 1)..n /\ (first - 1) + 1 = first
    BY <1>1, <1>5
  <2>2. SubSeq(sealed, 1, first - 1) \o SubSeq(sealed, (first - 1) + 1, n) = SubSeq(sealed, 1, n)
    BY <2>1, ConcatAdjacentSubSeq
  <2>3. SubSeq(sealed, 1, n) = sealed
    BY SubSeqFull
  <2> QED BY <2>1, <2>2, <2>3
<1>11. \A s \in ToSet(pre) : s.id \notin ids
  <2>1. DOMAIN pre = 1..(first - 1)
    BY <1>8, LenProperties
  <2> HIDE DEF pre
  <2> QED BY <1>6, <1>8, <2>1 DEF ToSet
<1>12. PICK p, q : p = pre /\ q = after
  OBVIOUS
<1>13. /\ p = SubSeq(sealed, 1, first - 1) /\ q = SubSeq(sealed, first, Len(sealed))
       /\ p \in Seq(R) /\ q \in Seq(R)
  BY <1>8, <1>9, <1>12
<1> HIDE DEF pre, after, n
<1>14. /\ sealed = p \o q /\ \A s \in ToSet(p) : s.id \notin ids
       /\ Replace(ids, new) = (p \o <<new>>) \o Without(q, ids)
  BY <1>7, <1>10, <1>11, <1>12
<1>15. SplitAt(first, p, q, ids, new)
  BY <1>5, <1>13, <1>14 DEF SplitAt
<1> QED BY <1>5, <1>13, <1>15 DEF n

-----------------------------------------------------------------------------
(* The rows of the table *)

LEMMA RowsAreStored == Rows = StoredRows(sealed) \o RowsOf(active)
  BY DEF Rows, TableRows, StoredRows

LEMMA SealedSegments ==
  ASSUME StorageInv
  PROVE  /\ sealed \in Seq(ToSet(sealed))
         /\ \A s \in ToSet(sealed) : IsSegment(s) /\ s.id \in Nat /\ s.id < next
         /\ Distinct(sealed)
         /\ TableBatch(active)
         /\ StoredRows(sealed) \in Seq(RowSet) /\ RowsOf(active) \in Seq(RowSet)
<1>1. sealed \in Seq(ToSet(sealed))
  BY DEF StorageInv, ToSet
<1>2. \A s \in ToSet(sealed) : IsSegment(s) /\ s.id \in Nat /\ s.id < next
  BY DEF StorageInv, ToSet
<1>3. Distinct(sealed)
  BY DEF StorageInv, RowsKept, Distinct
<1>4. TableBatch(active)
  BY DEF StorageInv, RecoveryInv
<1>5. StoredRows(sealed) \in Seq(RowSet)
  BY <1>1, <1>2, StoredTyped
<1> QED BY <1>1, <1>2, <1>3, <1>4, <1>5, RowsTyped

LEMMA StorageInit == Init => StorageInv
<1> SUFFICES ASSUME Init PROVE StorageInv
  OBVIOUS
<1>1. active = EmptyBatch(Schema) /\ sealed = <<>> /\ next = 1 /\ appended = <<>>
  BY DEF Init
<1>2. sealed \in Seq({sealed[k] : k \in DOMAIN sealed}) /\ next \in Nat /\ DOMAIN sealed = {}
  BY <1>1
<1>3. RowsOf(active) = <<>>
  BY <1>1, EmptyIsTable DEF RowsOf
<1>4. Rows = <<>>
  <2>1. <<>> \o <<>> = <<>>
    OBVIOUS
  <2> QED BY <1>1, <1>3, <2>1, RowsAreStored, StoredNone
<1>5. RowsKept
  <2>1. Len(Rows) = Len(appended) /\ DOMAIN appended = {} /\ ToSet(Rows) = {}
    BY <1>1, <1>4 DEF ToSet
  <2> QED BY <1>2, <2>1 DEF RowsKept
<1> QED BY <1>2, <1>5, RecoveryInit DEF StorageInv

(* What is appended is a row for every timestamp, with the cells of the    *)
(* row of that number.                                                     *)
LEMMA AppendedRows ==
  ASSUME NEW times \in Seq(Nat), TableBatch(AppendedBatch(times)), Len(appended) \in Nat,
         AppendedBatch(times).rows = Len(times),
         Grid(AppendedBatch(times)) = [k \in DOMAIN Schema |-> Values(Schema[k].dtype, times)]
  PROVE  /\ RowsOf(AppendedBatch(times)) \in Seq(RowSet)
         /\ Len(RowsOf(AppendedBatch(times))) = Len(times)
         /\ \A i \in 1..Len(times) :
              RowsOf(AppendedBatch(times))[i] = RowCells(Len(appended) + i, times[i])
<1> DEFINE batch == AppendedBatch(times)
<1>1. DOMAIN times = 1..Len(times)
  BY LenProperties
<1> HIDE DEF batch
<1>2. /\ RowsOf(batch) \in Seq(RowSet) /\ Len(RowsOf(batch)) = Len(times)
      /\ \A i \in 1..Len(times) : RowsOf(batch)[i] = [k \in DOMAIN Schema |-> Grid(batch)[k][i]]
  BY RowsTyped DEF batch
<1>3. ASSUME NEW i \in 1..Len(times)
      PROVE  RowsOf(batch)[i] = RowCells(Len(appended) + i, times[i])
  <2>1. \A k \in DOMAIN Schema : Grid(batch)[k] = Values(Schema[k].dtype, times)
    BY DEF batch
  <2>2. \A k \in DOMAIN Schema :
          Grid(batch)[k][i] = Cell(Schema[k].dtype, Len(appended) + i, times[i])
    <3> TAKE k \in DOMAIN Schema
    <3>1. PICK dtype, cells : dtype = Schema[k].dtype /\ cells = Values(dtype, times)
      OBVIOUS
    <3>2. cells = [j \in 1..Len(times) |-> Cell(dtype, Len(appended) + j, times[j])]
      BY <1>1, <3>1 DEF Values
    <3>3. cells[i] = Cell(dtype, Len(appended) + i, times[i])
      BY <3>2
    <3> QED BY <2>1, <3>1, <3>3
  <2> QED BY <1>2, <2>2 DEF RowCells
<1> QED BY <1>2, <1>3 DEF batch

LEMMA StorageAppend ==
  ASSUME KeepOrder, StorageInv, NEW S \in CallerSchemas, NEW fault,
         NEW times \in Seq(Nat), times # <<>>, AppendRows(S, times, fault)
  PROVE  /\ StorageInv'
         /\ \E more \in Seq(RowSet) : Rows' = Rows \o more
<1> DEFINE batch == AppendedBatch(times)
           L == Len(appended)
           M == Len(times)
<1>1. RecoveryInv /\ RecoveryInv'
  BY RecoveryAppend DEF StorageInv
<1>2. /\ TableBatch(batch) /\ appended' = appended \o times
      /\ AppendBatch(active, batch) = [err |-> NoError, batch |-> active']
      /\ sealed' = sealed /\ next' = next
  BY <1>1, AppendRecovers DEF AppendRows
<1>3. appended \in Seq(Nat) /\ TableBatch(active) /\ TableBatch(active')
  BY <1>1 DEF RecoveryInv
<1>4. L \in Nat /\ DOMAIN appended = 1..L /\ M \in Nat /\ DOMAIN times = 1..M
  BY <1>3, LenProperties
<1>5. /\ Build(S, Given(S, times, fault)).err = NoError
      /\ Matches(Schema, Build(S, Given(S, times, fault)).batch)
  BY DEF AppendRows
<1>6. batch.rows = M /\ Grid(batch) = [k \in DOMAIN Schema |-> Values(Schema[k].dtype, times)]
  BY <1>4, <1>5, AppendsTable
<1>7. PICK more : more = RowsOf(batch)
  OBVIOUS
<1>8. /\ more \in Seq(RowSet) /\ Len(more) = M
      /\ \A i \in 1..M : more[i] = RowCells(L + i, times[i])
  BY <1>2, <1>4, <1>6, <1>7, AppendedRows
<1> HIDE DEF batch
<1>9. RowsOf(active') = RowsOf(active) \o more
  BY <1>2, <1>3, <1>7, RowsJoin
<1>10. StoredRows(sealed) \in Seq(RowSet) /\ RowsOf(active) \in Seq(RowSet)
  BY SealedSegments
<1>11. Rows \in Seq(RowSet) /\ Rows = StoredRows(sealed) \o RowsOf(active)
  BY <1>10, RowsAreStored, ConcatProperties
<1>12. Rows' = Rows \o more
  <2>1. Rows' = StoredRows(sealed') \o RowsOf(active')
    BY DEF Rows, TableRows, StoredRows
  <2>2. Rows' = StoredRows(sealed) \o (RowsOf(active) \o more)
    BY <1>2, <1>9, <2>1
  <2>3. (StoredRows(sealed) \o RowsOf(active)) \o more = StoredRows(sealed) \o (RowsOf(active) \o more)
    BY <1>8, <1>10, ConcatAssociative
  <2> QED BY <1>11, <2>2, <2>3
<1> HIDE DEF L, M
<1>13. RowsKept'
  <2>1. PICK rows, rows2 : rows = Rows /\ rows2 = Rows'
    OBVIOUS
  <2>2. /\ Len(rows) = L /\ ToSet(rows) = {RowCells(i, appended[i]) : i \in 1..L}
        /\ Distinct(sealed)
    BY <1>4, <2>1 DEF StorageInv, RowsKept, Distinct, L
  <2>3. /\ Len(rows2) = L + M /\ ToSet(rows2) = ToSet(rows) \cup ToSet(more)
    <3>1. rows \in Seq(RowSet) /\ more \in Seq(RowSet) /\ rows2 = rows \o more
      BY <1>8, <1>11, <1>12, <2>1
    <3>2. Len(rows2) = Len(rows) + Len(more) /\ ToSet(rows2) = ToSet(rows) \cup ToSet(more)
      BY ONLY <3>1, ConcatSet, ConcatProperties
    <3> QED BY <1>8, <2>2, <3>2
  <2>4. ToSet(more) = {RowCells(L + i, times[i]) : i \in 1..M}
    <3>1. DOMAIN more = 1..M
      BY <1>8, LenProperties
    <3> QED BY <1>8, <3>1 DEF ToSet
  <2>5. /\ appended' \in Seq(Nat) /\ Len(appended') = L + M /\ DOMAIN appended' = 1..(L + M)
        /\ \A i \in 1..L : appended'[i] = appended[i]
        /\ \A i \in 1..M : appended'[L + i] = times[i]
    BY <1>2, <1>3, ConcatAt, LenProperties DEF L, M
  <2>6. \A i \in 1..(L + M) : i \in 1..L \/ \E j \in 1..M : i = L + j
    <3> TAKE i \in 1..(L + M)
    <3>1. CASE i > L
      <4>1. i - L \in 1..M /\ i = L + (i - L)
        BY <1>4, <3>1
      <4> QED BY <4>1
    <3> QED BY <1>4, <3>1
  <2>7. /\ \A i \in 1..L : i \in 1..(L + M)
        /\ \A i \in 1..M : L + i \in 1..(L + M)
    BY <1>4
  <2>8. {RowCells(i, appended'[i]) : i \in 1..(L + M)} =
          {RowCells(i, appended[i]) : i \in 1..L} \cup {RowCells(L + i, times[i]) : i \in 1..M}
    <3>1. ASSUME NEW i \in 1..(L + M)
          PROVE  RowCells(i, appended'[i]) \in
                   {RowCells(j, appended[j]) : j \in 1..L} \cup {RowCells(L + j, times[j]) : j \in 1..M}
      BY <2>5, <2>6
    <3>2. ASSUME NEW i \in 1..L
          PROVE  RowCells(i, appended[i]) \in {RowCells(j, appended'[j]) : j \in 1..(L + M)}
      BY <2>5, <2>7
    <3>3. ASSUME NEW i \in 1..M
          PROVE  RowCells(L + i, times[i]) \in {RowCells(j, appended'[j]) : j \in 1..(L + M)}
      BY <2>5, <2>7
    <3> QED BY <3>1, <3>2, <3>3
  <2>9. Len(Rows') = Len(appended') /\ ToSet(Rows') = {RowCells(i, appended'[i]) : i \in DOMAIN appended'}
    BY <2>1, <2>2, <2>3, <2>4, <2>5, <2>8
  <2> QED BY <1>2, <2>2, <2>9 DEF RowsKept, RowCells, Distinct
<1> QED BY <1>1, <1>2, <1>8, <1>12, <1>13 DEF StorageInv

LEMMA OwnSet ==
  ASSUME NEW R, NEW s \in Seq(R)
  PROVE  s \in Seq(ToSet(s)) /\ ToSet(s) \subseteq R /\ (s # <<>> => ToSet(s) # {})
<1>1. Len(s) \in Nat /\ DOMAIN s = 1..Len(s) /\ s \in [1..Len(s) -> R]
  BY LenProperties
<1>2. s \in Seq(ToSet(s)) /\ ToSet(s) \subseteq R
  BY <1>1 DEF ToSet
<1>3. ASSUME s # <<>> PROVE ToSet(s) # {}
  <2>1. 1 \in DOMAIN s
    BY <1>1, <1>3, EmptySeq
  <2> QED BY <2>1 DEF ToSet
<1> QED BY <1>2, <1>3

LEMMA StorageFlush ==
  ASSUME StorageInv, Flush
  PROVE  StorageInv' /\ Rows' = Rows
<1>1. PICK new : new = Seal(Schema, next, active)
  OBVIOUS
<1>2. /\ active.rows > 0 /\ sealed' = Append(sealed, new) /\ next' = next + 1
      /\ active' = EmptyBatch(Schema) /\ appended' = appended
  BY <1>1 DEF Flush
<1>3. /\ sealed \in Seq(ToSet(sealed))
      /\ \A s \in ToSet(sealed) : IsSegment(s) /\ s.id \in Nat /\ s.id < next
      /\ Distinct(sealed) /\ TableBatch(active)
      /\ StoredRows(sealed) \in Seq(RowSet) /\ RowsOf(active) \in Seq(RowSet)
      /\ next \in Nat
  BY SealedSegments DEF StorageInv
<1>4. IsSegment(new) /\ Data(new) = active /\ new.id = next
  <2>1. active.rows # 0
    BY <1>2, <1>3 DEF TableBatch, IsGrid
  <2> QED BY <1>1, <1>3, <2>1, SealsSegment
<1> DEFINE R == ToSet(sealed) \cup {new}
<1>5. sealed \in Seq(R) /\ new \in R /\ \A s \in R : IsSegment(s)
  BY <1>3, <1>4
<1> HIDE DEF R
<1>6. sealed' \in Seq(R) /\ ToSet(sealed') = ToSet(sealed) \cup {new}
  BY <1>2, <1>5, AppendSet
<1>7. Distinct(sealed')
  <2>1. \A s \in ToSet(sealed) : s.id # new.id
    BY <1>3, <1>4
  <2> QED BY <1>2, <1>3, <1>5, <2>1, DistinctNext
<1>8. \A s \in ToSet(sealed') : IsSegment(s) /\ s.id \in Nat /\ s.id < next'
  BY <1>2, <1>3, <1>4, <1>6
<1>9. Rows' = Rows
  <2>1. Rows' = StoredRows(sealed') \o RowsOf(active')
    BY DEF Rows, TableRows, StoredRows
  <2>2. RowsOf(active') = <<>>
    BY <1>2, EmptyIsTable DEF RowsOf
  <2>3. StoredRows(sealed') = StoredRows(sealed) \o RowsOf(active)
    BY <1>2, <1>4, <1>5, StoredNext
  <2>4. StoredRows(sealed) \o RowsOf(active) \in Seq(RowSet)
    BY <1>3, ConcatProperties
  <2> QED BY <2>1, <2>2, <2>3, <2>4, RowsAreStored, ConcatEmptySeq
<1>10. RecoveryInv'
  BY RecoveryFlush DEF StorageInv
<1>11. sealed' \in Seq(ToSet(sealed'))
  BY <1>6, OwnSet
<1>12. RowsKept'
  BY <1>2, <1>7, <1>9 DEF StorageInv, RowsKept, Distinct, RowCells
<1>13. StorageInv'
  <2>1. next' \in Nat
    BY <1>2, <1>3
  <2>2. \A k \in DOMAIN sealed' : IsSegment(sealed'[k]) /\ sealed'[k].id \in Nat /\ sealed'[k].id < next'
    BY <1>8 DEF ToSet
  <2>3. sealed' \in Seq({sealed'[k] : k \in DOMAIN sealed'})
    BY <1>11 DEF ToSet
  <2> QED BY <1>10, <1>12, <2>1, <2>2, <2>3 DEF StorageInv
<1> QED BY <1>9, <1>13

LEMMA StoredSome ==
  ASSUME NEW R, \A x \in R : IsSegment(x), NEW s \in Seq(R), s # <<>>
  PROVE  Combined(s).batch.rows # 0
<1>1. PICK t \in Seq(R), x \in R : s = Append(t, x)
  BY SequenceEmptyOrAppend
<1>2. IsTable(t)
  BY StoredTyped
<1>3. Combined(s).batch.rows = Combined(t).batch.rows + Data(x).rows
  BY <1>1, <1>2, StoredOne
<1>4. Combined(t).batch.rows \in Nat /\ Data(x).rows \in Nat /\ Data(x).rows # 0
  BY <1>2 DEF IsTable, IsSegment, TableBatch, IsGrid
<1> QED BY <1>3, <1>4

LEMMA RowsRegroup ==
  ASSUME NEW a \in Seq(RowSet), NEW b \in Seq(RowSet), NEW c \in Seq(RowSet)
  PROVE  (a \o b) \o c = a \o (b \o c)
  BY ConcatAssociative

LEMMA PartsJoined ==
  ASSUME NEW R, NEW a \in Seq(R), NEW b \in Seq(R), NEW c \in Seq(R), NEW d \in Seq(R), NEW e \in Seq(R),
         Len(d) = Len(b) + Len(c), ToSet(d) = ToSet(b) \cup ToSet(c)
  PROVE  /\ Len(((a \o b) \o c) \o e) = Len((a \o d) \o e)
         /\ ToSet(((a \o b) \o c) \o e) = ToSet((a \o d) \o e)
<1>1. \A s, t \in Seq(R) : /\ s \o t \in Seq(R) /\ Len(s \o t) = Len(s) + Len(t) /\ Len(s) \in Nat
                           /\ ToSet(s \o t) = ToSet(s) \cup ToSet(t)
  <2> TAKE s, t \in Seq(R)
  <2>1. s \o t \in Seq(R) /\ Len(s \o t) = Len(s) + Len(t) /\ Len(s) \in Nat
    BY ConcatProperties, LenProperties
  <2> QED BY <2>1, ConcatSet
<1>2. PICK ab, abc, ad : ab = a \o b /\ abc = ab \o c /\ ad = a \o d
  OBVIOUS
<1>3. /\ ab \in Seq(R) /\ abc \in Seq(R) /\ ad \in Seq(R)
      /\ Len(ab) = Len(a) + Len(b) /\ ToSet(ab) = ToSet(a) \cup ToSet(b)
      /\ Len(abc) = Len(ab) + Len(c) /\ ToSet(abc) = ToSet(ab) \cup ToSet(c)
      /\ Len(ad) = Len(a) + Len(d) /\ ToSet(ad) = ToSet(a) \cup ToSet(d)
  BY <1>1, <1>2
<1>4. /\ Len(abc \o e) = Len(abc) + Len(e) /\ ToSet(abc \o e) = ToSet(abc) \cup ToSet(e)
      /\ Len(ad \o e) = Len(ad) + Len(e) /\ ToSet(ad \o e) = ToSet(ad) \cup ToSet(e)
  BY <1>1, <1>3
<1>5. Len(a) \in Nat /\ Len(b) \in Nat /\ Len(c) \in Nat /\ Len(d) \in Nat /\ Len(e) \in Nat
  BY <1>1
<1>6. Len(abc \o e) = Len(ad \o e)
  BY ONLY <1>3, <1>4, <1>5, Len(d) = Len(b) + Len(c)
<1> QED BY <1>2, <1>3, <1>4, <1>6

(* Whatever is compacted, the new segment holds the rows of those it       *)
(* replaces, in their order, and all other rows stay.                      *)
LEMMA StorageCompact ==
  ASSUME StorageInv, NEW ids, Compact(ids)
  PROVE  /\ StorageInv'
         /\ Ids \ Ids' = ids
         /\ Neighbours(ids) => Rows' = Rows
<1>0. PICK R0, C : R0 = ToSet(sealed) /\ C = Chosen(sealed, ids)
  OBVIOUS
<1>1. PICK chosen, new, batch : /\ chosen = Kept(sealed, C)
                                /\ batch = Combined(chosen).batch
                                /\ new = Seal(Schema, next, batch)
  OBVIOUS
<1>2. /\ ids # {} /\ ids \subseteq Ids /\ sealed' = Replace(ids, new) /\ next' = next + 1
      /\ active' = active /\ log' = log /\ applied' = applied /\ appended' = appended
  BY <1>0, <1>1 DEF Compact, Chosen, Ids
<1>3. /\ sealed \in Seq(R0)
      /\ \A s \in R0 : IsSegment(s) /\ s.id \in Nat /\ s.id < next
      /\ Distinct(sealed) /\ TableBatch(active)
      /\ StoredRows(sealed) \in Seq(RowSet) /\ RowsOf(active) \in Seq(RowSet)
      /\ next \in Nat
  BY <1>0, SealedSegments DEF StorageInv
<1>4. chosen \in Seq(R0) /\ ToSet(chosen) = C
  <2>1. chosen \in Seq(R0 \cap C) /\ ToSet(chosen) = R0 \cap C
    <3>1. \A s \in Seq(R0) : Kept(s, C) \in Seq(R0 \cap C) /\ ToSet(Kept(s, C)) = ToSet(s) \cap C
      BY ONLY KeptMembers
    <3> QED BY <1>0, <1>1, <1>3, <3>1
  <2>2. R0 \cap C = C
    BY <1>0 DEF Chosen
  <2> QED BY <2>1, <2>2, SeqMonotonic
<1>5. chosen # <<>>
  <2>1. PICK i \in ids : TRUE
    BY <1>2
  <2>2. PICK k \in DOMAIN sealed : sealed[k].id = i
    BY <1>2 DEF Ids
  <2>3. sealed[k] \in C
    BY <1>0, <2>1, <2>2 DEF Chosen, ToSet
  <2>4. ToSet(<<>>) = {}
    BY DEF ToSet
  <2> QED BY <1>4, <2>3, <2>4
<1>6. /\ Combined(chosen) = [err |-> NoError, batch |-> batch] /\ TableBatch(batch) /\ batch.rows # 0
      /\ RowsOf(batch) = StoredRows(chosen)
  BY <1>1, <1>3, <1>4, <1>5, StoredTyped, StoredSome DEF IsTable, StoredRows
<1>7. IsSegment(new) /\ Data(new) = batch /\ new.id = next
  BY <1>1, <1>6, SealsSegment
<1>8. PICK first \in 1..Len(sealed), pre \in Seq(R0), after \in Seq(R0) :
        SplitAt(first, pre, after, ids, new)
  <2>1. sealed \in Seq(R0) /\ ids # {} /\ ids \subseteq Ids
    BY <1>2, <1>3
  <2>2. \E f \in 1..Len(sealed) : \E p, q \in Seq(R0) : SplitAt(f, p, q, ids, new)
    BY ONLY <2>1, ReplaceParts
  <2> QED BY <2>2
<1>9. /\ pre = SubSeq(sealed, 1, first - 1) /\ after = SubSeq(sealed, first, Len(sealed))
      /\ sealed[first].id \in ids
      /\ sealed = pre \o after
      /\ Replace(ids, new) = (pre \o <<new>>) \o Without(after, ids)
      /\ \A s \in ToSet(pre) : s.id \notin ids
  BY <1>8 DEF SplitAt
<1> DEFINE U == {s \in ToSet(after) : s.id \notin ids}
           R == R0 \cup {new}
<1>10. PICK w, one : w = Kept(after, U) /\ one = <<new>>
  OBVIOUS
<1>11. sealed' = (pre \o one) \o w
  BY <1>2, <1>9, <1>10 DEF Without
<1>12. /\ pre \in Seq(ToSet(pre)) /\ ToSet(pre) \subseteq R0
       /\ after \in Seq(ToSet(after)) /\ ToSet(after) \subseteq R0
       /\ R0 = ToSet(pre) \cup ToSet(after)
  <2>1. ToSet(pre \o after) = ToSet(pre) \cup ToSet(after)
    BY ConcatSet
  <2>2. pre \in Seq(ToSet(pre)) /\ ToSet(pre) \subseteq R0
    BY OwnSet
  <2>3. after \in Seq(ToSet(after)) /\ ToSet(after) \subseteq R0
    BY OwnSet
  <2> QED BY <1>0, <1>9, <2>1, <2>2, <2>3
<1>13. w \in Seq(R0) /\ ToSet(w) = U
  <2>1. w \in Seq(ToSet(after) \cap U) /\ ToSet(w) = ToSet(after) \cap U
    BY <1>10, <1>12, KeptMembers
  <2>2. ToSet(after) \cap U = U /\ U \subseteq R0
    BY <1>12
  <2> QED BY <2>1, <2>2, SeqMonotonic
<1> HIDE DEF U
<1>14. /\ pre \in Seq(R) /\ one \in Seq(R) /\ w \in Seq(R) /\ \A s \in R : IsSegment(s)
       /\ Distinct(one) /\ ToSet(one) = {new}
  <2>1. new \in R /\ R0 \subseteq R
    OBVIOUS
  <2>2. one \in Seq(R)
    BY <1>10, <2>1
  <2>3. pre \in Seq(R) /\ w \in Seq(R)
    <3> HIDE DEF R
    <3> QED BY <1>9, <1>13, <2>1, SeqMonotonic
  <2> QED BY <1>3, <1>7, <1>10, <2>2, <2>3, DistinctOne
<1> HIDE DEF R
<1>15. /\ pre \o one \in Seq(R) /\ ToSet(pre \o one) = ToSet(pre) \cup {new}
       /\ sealed' \in Seq(R) /\ ToSet(sealed') = (ToSet(pre) \cup {new}) \cup U
  <2>1. pre \o one \in Seq(R) /\ ToSet(pre \o one) = ToSet(pre) \cup {new}
    BY <1>14, ConcatSet
  <2>2. PICK u \in Seq(R) : u = pre \o one
    BY <2>1
  <2>3. u \o w \in Seq(R) /\ ToSet(u \o w) = ToSet(u) \cup ToSet(w)
    BY <1>14, ConcatSet
  <2> QED BY <1>11, <1>13, <2>1, <2>2, <2>3
<1>16. \A s \in ToSet(sealed') : IsSegment(s) /\ s.id \in Nat /\ s.id < next'
  <2>1. U \subseteq R0
    BY <1>12 DEF U
  <2> QED BY <1>2, <1>3, <1>7, <1>12, <1>15, <2>1
<1>17. Distinct(sealed')
  <2>0. Distinct(pre \o after)
    BY <1>3, <1>9
  <2>1. Distinct(pre) /\ Distinct(after) /\ \A x \in ToSet(pre), y \in ToSet(after) : x.id # y.id
    BY ONLY <2>0, pre \in Seq(R0), after \in Seq(R0), DistinctConcat
  <2>2. Distinct(w)
    BY <1>10, <2>1, DistinctKept
  <2>3. \A x \in ToSet(pre) : x.id # new.id
    BY <1>3, <1>7, <1>12
  <2>4. Distinct(pre \o one)
    BY <1>14, <2>1, <2>3, DistinctConcat
  <2>5. U \subseteq ToSet(after)
    BY DEF U
  <2>6. \A x \in ToSet(pre) \cup {new}, y \in U : x.id # y.id
    BY <1>3, <1>7, <1>12, <2>1, <2>5
  <2> QED BY <1>11, <1>13, <1>14, <1>15, <2>2, <2>4, <2>6, DistinctConcat
<1>18. Ids \ Ids' = ids
  <2>1. Ids = {s.id : s \in R0} /\ Ids' = {s.id : s \in ToSet(sealed')}
    BY <1>0 DEF Ids, ToSet
  <2>2. ASSUME NEW i \in ids PROVE i \notin Ids'
    <3>1. i # next
      BY <1>2, <1>3, <2>1
    <3>2. \A s \in ToSet(pre) \cup U : s.id \notin ids
      BY <1>9 DEF U
    <3> QED BY <1>7, <1>15, <2>1, <3>1, <3>2
  <2>3. ASSUME NEW i \in Ids, i \notin ids PROVE i \in Ids'
    <3>1. PICK s \in R0 : s.id = i
      BY <2>1
    <3>2. s \in ToSet(pre) \cup U
      BY <1>12, <2>3, <3>1 DEF U
    <3> QED BY <1>15, <2>1, <3>1, <3>2
  <2> QED BY <1>2, <2>2, <2>3
<1>19. /\ StoredRows(pre) \in Seq(RowSet) /\ StoredRows(after) \in Seq(RowSet)
       /\ StoredRows(w) \in Seq(RowSet) /\ StoredRows(chosen) \in Seq(RowSet)
       /\ StoredRows(sealed) = StoredRows(pre) \o StoredRows(after)
       /\ StoredRows(sealed') = (StoredRows(pre) \o StoredRows(chosen)) \o StoredRows(w)
  <2>1. StoredRows(sealed) = StoredRows(pre) \o StoredRows(after)
    BY <1>3, <1>9, StoredOfBoth
  <2>2. StoredRows(one) = StoredRows(chosen)
    BY <1>6, <1>7, <1>10, StoredSingle
  <2>3. StoredRows(pre \o one) = StoredRows(pre) \o StoredRows(one)
    BY <1>14, StoredOfBoth
  <2>4. StoredRows(sealed') = StoredRows(pre \o one) \o StoredRows(w)
    BY <1>11, <1>14, <1>15, StoredOfBoth
  <2>5. /\ StoredRows(pre) \in Seq(RowSet) /\ StoredRows(after) \in Seq(RowSet)
        /\ StoredRows(w) \in Seq(RowSet) /\ StoredRows(chosen) \in Seq(RowSet)
    BY <1>3, <1>4, <1>9, <1>13, StoredTyped
  <2> QED BY <2>1, <2>2, <2>3, <2>4, <2>5
<1>20. chosen = Kept(after, C)
  <2>1. Kept(pre \o after, C) = Kept(pre, C) \o Kept(after, C)
    BY KeptOfBoth
  <2>2. ToSet(pre) \cap C = {}
    BY <1>0, <1>9 DEF Chosen
  <2>3. Kept(pre, C) = <<>>
    BY <1>12, <2>2, KeptNothing
  <2>4. Kept(after, C) \in Seq(R0 \cap C)
    BY KeptMembers
  <2> QED BY <1>1, <1>9, <2>1, <2>3, <2>4, ConcatEmptySeq
<1>21. \A x \in ToSet(after) : x \in C <=> x \notin U
  BY <1>0, <1>12 DEF U, Chosen
<1>22. /\ Len(StoredRows(after)) = Len(StoredRows(chosen)) + Len(StoredRows(w))
       /\ ToSet(StoredRows(after)) = ToSet(StoredRows(chosen)) \cup ToSet(StoredRows(w))
  <2>1. PICK D : D = ToSet(after)
    OBVIOUS
  <2>2. after \in Seq(D) /\ (\A x \in D : IsSegment(x)) /\ \A x \in D : x \in C <=> x \notin U
    BY <1>3, <1>12, <1>21, <2>1
  <2>3. /\ Len(StoredRows(after)) = Len(StoredRows(Kept(after, C))) + Len(StoredRows(Kept(after, U)))
        /\ ToSet(StoredRows(after)) =
             ToSet(StoredRows(Kept(after, C))) \cup ToSet(StoredRows(Kept(after, U)))
    BY ONLY <2>2, StoredParts
  <2> QED BY <1>10, <1>20, <2>3
<1>23. Len(Rows') = Len(Rows) /\ ToSet(Rows') = ToSet(Rows)
  <2>1. PICK a, b, c, d, e : /\ a = StoredRows(pre) /\ b = StoredRows(chosen) /\ c = StoredRows(w)
                             /\ d = StoredRows(after) /\ e = RowsOf(active)
    OBVIOUS
  <2>2. /\ a \in Seq(RowSet) /\ b \in Seq(RowSet) /\ c \in Seq(RowSet) /\ d \in Seq(RowSet)
        /\ e \in Seq(RowSet)
        /\ Len(d) = Len(b) + Len(c) /\ ToSet(d) = ToSet(b) \cup ToSet(c)
    BY <1>3, <1>19, <1>22, <2>1
  <2>3. Rows = (a \o d) \o e /\ Rows' = ((a \o b) \o c) \o e
    <3>1. Rows' = StoredRows(sealed') \o RowsOf(active')
      BY DEF Rows, TableRows, StoredRows
    <3> QED BY <1>2, <1>19, <2>1, <3>1, RowsAreStored
  <2>4. /\ Len(((a \o b) \o c) \o e) = Len((a \o d) \o e)
        /\ ToSet(((a \o b) \o c) \o e) = ToSet((a \o d) \o e)
    BY ONLY <2>2, PartsJoined
  <2> QED BY <2>3, <2>4
<1>24. RowsKept'
  BY <1>2, <1>17, <1>23 DEF StorageInv, RowsKept, Distinct, RowCells
<1>25. RecoveryInv'
  BY <1>2 DEF StorageInv, RecoveryInv, RecoveryIsExact, Replayed
<1>26. StorageInv'
  <2>1. sealed' \in Seq(ToSet(sealed'))
    BY <1>15, OwnSet
  <2> QED BY <1>2, <1>3, <1>16, <1>24, <1>25, <2>1 DEF StorageInv, ToSet
<1>27. ASSUME Neighbours(ids) PROVE Rows' = Rows
  <2>1. PICK j \in DOMAIN sealed, k \in DOMAIN sealed : ids = {sealed[i].id : i \in j..k}
    BY <1>27 DEF Neighbours
  <2> DEFINE n == Len(sealed)
             mid == SubSeq(sealed, j, k)
             post == SubSeq(sealed, k + 1, n)
  <2>2. n \in Nat /\ DOMAIN sealed = 1..n /\ \A i \in 1..n : sealed[i] \in R0
    BY <1>3, LenProperties
  <2>3. j \in 1..n /\ k \in 1..n /\ j <= k
    <3>1. j..k # {}
      BY <1>2, <2>1
    <3> QED BY <2>2, <3>1
  <2>4. \A i \in 1..n : sealed[i].id \in ids <=> i \in j..k
    <3>1. ASSUME NEW i \in 1..n, sealed[i].id \in ids PROVE i \in j..k
      <4>1. PICK h \in j..k : sealed[i].id = sealed[h].id
        BY <2>1, <3>1
      <4>2. h \in 1..n
        BY <2>3
      <4>3. i = h
        BY <1>3, <2>2, <4>1, <4>2 DEF Distinct
      <4> QED BY <4>3
    <3> QED BY <2>1, <3>1
  <2>5. first = j
    <3>1. first \in j..k
      BY <1>9, <2>4
    <3>2. ASSUME j < first PROVE FALSE
      <4>1. j \in 1..(first - 1) /\ first - 1 \in 0..n
        BY <2>3, <3>1, <3>2
      <4>2. \A i \in 1..(first - 1) : sealed[i] \in R0
        BY <2>2, <4>1
      <4>3. /\ pre \in Seq(R0) /\ Len(pre) = IF 1 <= first - 1 THEN first - 1 - 1 + 1 ELSE 0
            /\ \A i \in 1..(first - 1 - 1 + 1) : pre[i] = sealed[1 + i - 1]
        <5>1. PICK f \in Int : f = first - 1
          BY <4>1
        <5>2. pre = SubSeq(sealed, 1, f) /\ 1 \in Int /\ \A i \in 1..f : sealed[i] \in R0
          <6>1. pre = SubSeq(sealed, 1, f)
            BY <1>9, <5>1
          <6>2. \A i \in 1..f : sealed[i] \in R0
            BY <4>2, <5>1
          <6> QED BY <6>1, <6>2
        <5>3. /\ pre \in Seq(R0) /\ Len(pre) = IF 1 <= f THEN f - 1 + 1 ELSE 0
              /\ \A i \in 1..(f - 1 + 1) : pre[i] = sealed[1 + i - 1]
          BY ONLY <5>2, f \in Int, SubSeqProperties
        <5> QED BY <5>1, <5>3
      <4>4. first - 1 - 1 + 1 = first - 1 /\ 1 + j - 1 = j /\ 1 <= first - 1
        BY <2>3, <4>1
      <4>5. Len(pre) = first - 1 /\ pre[j] = sealed[j]
        BY ONLY <4>1, <4>3, <4>4
      <4>6. DOMAIN pre = 1..(first - 1)
        BY <4>3, <4>5, LenProperties
      <4>7. sealed[j] \in ToSet(pre)
        BY <4>1, <4>5, <4>6 DEF ToSet
      <4>8. sealed[j].id \in ids
        BY <2>3, <2>4
      <4> QED BY <1>9, <4>7, <4>8
    <3> QED BY <2>3, <3>1, <3>2
  <2>6. after = mid \o post
    <3>1. j \in 1..(n + 1) /\ k \in (j - 1)..n /\ n \in k..n
      BY <2>2, <2>3
    <3>2. SubSeq(sealed, j, k) \o SubSeq(sealed, k + 1, n) = SubSeq(sealed, j, n)
      BY <1>3, <3>1, ConcatAdjacentSubSeq
    <3> QED BY <1>9, <2>5, <3>2
  <2>7. mid \in Seq(C)
    <3>1. \A i \in j..k : sealed[i] \in C
      BY <1>0, <2>2, <2>3, <2>4 DEF Chosen
    <3> QED BY <2>2, <2>3, <3>1, SubSeqProperties
  <2>8. post \in Seq(R0 \ C)
    <3>1. \A i \in (k + 1)..n : sealed[i] \in R0 \ C
      <4> TAKE i \in (k + 1)..n
      <4>1. i \in 1..n /\ i \notin j..k
        BY <2>2, <2>3
      <4>2. sealed[i].id \notin ids
        BY <2>4, <4>1
      <4> QED BY <1>0, <2>2, <4>1, <4>2 DEF Chosen
    <3>2. k + 1 \in Int /\ n \in Int
      BY <2>2, <2>3
    <3> QED BY <3>1, <3>2, SubSeqProperties
  <2> HIDE DEF mid, post
  <2>9. mid \in Seq(R0) /\ post \in Seq(R0)
    <3>1. C \subseteq R0 /\ R0 \ C \subseteq R0
      BY <1>0 DEF Chosen
    <3> QED BY <2>7, <2>8, <3>1, SeqMonotonic
  <2>10. chosen = mid
    <3>1. Kept(mid \o post, C) = Kept(mid, C) \o Kept(post, C)
      BY <2>9, KeptOfBoth
    <3>2. Kept(mid, C) = mid
      BY <2>7, KeptAll
    <3>3. (R0 \ C) \cap C = {}
      OBVIOUS
    <3>4. Kept(post, C) = <<>>
      BY <2>8, <3>3, KeptNothing
    <3> QED BY <1>20, <2>6, <2>9, <3>1, <3>2, <3>4, ConcatEmptySeq
  <2>11. w = post
    <3>1. Kept(mid \o post, U) = Kept(mid, U) \o Kept(post, U)
      BY <2>9, KeptOfBoth
    <3>2. ToSet(after) = ToSet(mid) \cup ToSet(post) /\ ToSet(mid) \subseteq C
          /\ ToSet(post) \subseteq R0 \ C
      <4>1. ToSet(mid \o post) = ToSet(mid) \cup ToSet(post)
        BY <2>9, ConcatSet
      <4> QED BY <2>6, <2>7, <2>8, <4>1, OwnSet
    <3>3. C \cap U = {}
      BY <1>0 DEF Chosen, U
    <3>4. Kept(mid, U) = <<>>
      BY <2>7, <3>3, KeptNothing
    <3>5. ToSet(post) \subseteq U
      BY <1>21, <3>2
    <3>6. Kept(post, U) = post
      <4>1. post \in Seq(ToSet(post))
        BY <2>9, OwnSet
      <4> QED BY <3>5, <4>1, KeptAll
    <3> QED BY <1>10, <2>6, <2>9, <3>1, <3>4, <3>6, ConcatEmptySeq
  <2>12. StoredRows(after) = StoredRows(mid) \o StoredRows(post)
    BY <1>3, <2>6, <2>9, StoredOfBoth
  <2>13. StoredRows(sealed') = StoredRows(sealed)
    <3>1. PICK a \in Seq(RowSet), b \in Seq(RowSet), c \in Seq(RowSet) :
            a = StoredRows(pre) /\ b = StoredRows(mid) /\ c = StoredRows(post)
      BY <1>19, <2>10, <2>11
    <3>2. (a \o b) \o c = a \o (b \o c)
      BY RowsRegroup
    <3> QED BY <1>19, <2>10, <2>11, <2>12, <3>1, <3>2
  <2>14. Rows' = StoredRows(sealed') \o RowsOf(active')
    BY DEF Rows, TableRows, StoredRows
  <2> QED BY <1>2, <2>13, <2>14, RowsAreStored
<1> QED BY <1>18, <1>26, <1>27

LEMMA PrefixOfLonger ==
  ASSUME NEW R, NEW s \in Seq(R), NEW t \in Seq(R)
  PROVE  IsPrefix(s, s \o t) /\ IsPrefix(s, s)
<1>1. /\ s \o t \in Seq(R) /\ Len(s) \in Nat /\ Len(t) \in Nat /\ Len(s \o t) = Len(s) + Len(t)
      /\ \A i \in 1..Len(s) : (s \o t)[i] = s[i]
  BY ConcatAt
<1>2. \A i \in 1..Len(s) : s[i] \in R
  BY ElementOfSeq
<1>3. PICK m, st : m = Len(s) /\ st = s \o t
  OBVIOUS
<1>4. /\ m \in Nat /\ 1 \in Int /\ m \in Int /\ (\A i \in 1..m : s[i] \in R)
      /\ \A i \in 1..m : st[i] \in R
  BY <1>1, <1>2, <1>3
<1>5. /\ SubSeq(s, 1, m) \in Seq(R) /\ Len(SubSeq(s, 1, m)) = IF 1 <= m THEN m - 1 + 1 ELSE 0
      /\ \A i \in 1..(m - 1 + 1) : SubSeq(s, 1, m)[i] = s[1 + i - 1]
  BY ONLY <1>4, SubSeqProperties
<1>6. /\ SubSeq(st, 1, m) \in Seq(R) /\ Len(SubSeq(st, 1, m)) = IF 1 <= m THEN m - 1 + 1 ELSE 0
      /\ \A i \in 1..(m - 1 + 1) : SubSeq(st, 1, m)[i] = st[1 + i - 1]
  BY ONLY <1>4, SubSeqProperties
<1>7. m - 1 + 1 = m /\ (IF 1 <= m THEN m - 1 + 1 ELSE 0) = m /\ \A i \in 1..m : 1 + i - 1 = i
  BY <1>4
<1>8. \A i \in 1..m : SubSeq(s, 1, m)[i] = SubSeq(st, 1, m)[i]
  BY <1>1, <1>3, <1>5, <1>6, <1>7
<1>9. SubSeq(s, 1, m) = SubSeq(st, 1, m)
  BY <1>5, <1>6, <1>7, <1>8, SeqEqual
<1> QED BY <1>1, <1>3, <1>9 DEF IsPrefix

LEMMA StorageOpen ==
  ASSUME StorageInv, Open \/ UNCHANGED vars
  PROVE  StorageInv' /\ Rows' = Rows
<1>1. /\ sealed' = sealed /\ next' = next /\ appended' = appended /\ active' = active
      /\ log' = log /\ applied' = applied
  <2>1. RecoveryIsExact
    BY DEF StorageInv, RecoveryInv
  <2>2. CASE Open
    BY <2>1, <2>2 DEF Open, RecoveryIsExact
  <2>3. CASE UNCHANGED vars
    BY <2>3 DEF vars
  <2> QED BY <2>2, <2>3
<1>2. Rows' = Rows
  BY <1>1 DEF Rows
<1>3. RecoveryInv'
  BY <1>1 DEF StorageInv, RecoveryInv, RecoveryIsExact, Replayed
<1>4. RowsKept'
  BY <1>1, <1>2 DEF StorageInv, RowsKept
<1> QED BY <1>1, <1>2, <1>3, <1>4 DEF StorageInv

OrderKept == Ids \ Ids' = {} \/ Neighbours(Ids \ Ids') => IsPrefix(Rows, TableRows(sealed', active'))

LEMMA StorageNext ==
  ASSUME KeepOrder, StorageInv, [Next]_vars
  PROVE  StorageInv' /\ OrderKept
<1>1. Rows \in Seq(RowSet)
  BY SealedSegments, RowsAreStored, ConcatProperties
<1>2. Rows' = TableRows(sealed', active')
  BY DEF Rows
<1>3. Rows' = Rows => OrderKept
  BY <1>1, <1>2, PrefixOfLonger DEF OrderKept
<1>4. ASSUME NEW S \in CallerSchemas, NEW fault \in Faults,
             NEW times \in BoundedSeq(Times, 2) \ {<<>>}, AppendRows(S, times, fault)
      PROVE  StorageInv' /\ OrderKept
  <2>1. times \in Seq(Nat) /\ times # <<>>
    BY TimesGiven
  <2>2. StorageInv' /\ \E more \in Seq(RowSet) : Rows' = Rows \o more
    BY <1>4, <2>1, StorageAppend
  <2>3. PICK more \in Seq(RowSet) : Rows' = Rows \o more
    BY <2>2
  <2>4. IsPrefix(Rows, Rows \o more)
    BY <1>1, PrefixOfLonger
  <2> QED BY <1>2, <2>2, <2>3, <2>4 DEF OrderKept
<1>5. CASE Flush
  BY <1>3, <1>5, StorageFlush
<1>6. ASSUME NEW ids \in SUBSET (1..MaxSegments), Compact(ids) PROVE StorageInv' /\ OrderKept
  <2>1. StorageInv' /\ Ids \ Ids' = ids /\ (Neighbours(ids) => Rows' = Rows)
    BY <1>6, StorageCompact
  <2>2. ids # {}
    BY <1>6 DEF Compact
  <2>3. CASE Neighbours(ids)
    BY <1>3, <2>1, <2>3
  <2>4. CASE ~ Neighbours(ids)
    BY <2>1, <2>2, <2>4 DEF OrderKept
  <2> QED BY <2>1, <2>3, <2>4
<1>7. CASE Open \/ UNCHANGED vars
  BY <1>3, <1>7, StorageOpen
<1> QED BY <1>4, <1>5, <1>6, <1>7 DEF Next

(* Every appended row is in the table once, with the values it was         *)
(* appended with, after any flushes, compactions and reopenings, and no id *)
(* is given to two segments: as long as no caller builds batches for the   *)
(* table's columns in another order.                                       *)
THEOREM RowsAreAlwaysKept ==
  ASSUME KeepOrder
  PROVE  Spec => []RowsKept
<1>1. Init => StorageInv
  BY StorageInit
<1>2. StorageInv /\ [Next]_vars => StorageInv'
  BY StorageNext
<1>3. StorageInv => RowsKept
  BY DEF StorageInv
<1> QED BY <1>1, <1>2, <1>3, PTL DEF Spec

(* No step moves a row that is in the table, except the compaction of      *)
(* segments that are not neighbours.                                       *)
THEOREM CompactingNeighboursKeepsOrder ==
  ASSUME KeepOrder
  PROVE  Spec => AdjacentCompactionKeepsOrder
<1>1. Init => StorageInv
  BY StorageInit
<1>2. StorageInv /\ [Next]_vars => StorageInv'
  BY StorageNext
<1>3. StorageInv /\ [Next]_vars => [OrderKept]_vars
  BY StorageNext
<1> QED BY <1>1, <1>2, <1>3, PTL DEF Spec, AdjacentCompactionKeepsOrder, OrderKept


-----------------------------------------------------------------------------
(* A set of natural numbers with a bound has a greatest one: it is as far  *)
(* from the bound as any number is.                                        *)
LEMMA GreatestNumber ==
  ASSUME NEW S \in SUBSET Nat, S # {}, NEW bound \in Nat, \A y \in S : y <= bound
  PROVE  Max(S) \in S /\ \A y \in S : Max(S) >= y
<1> DEFINE D == {bound - y : y \in S}
<1>1. D \in SUBSET Nat /\ D # {}
  <2>1. \A y \in S : bound - y \in Nat
    OBVIOUS
  <2>2. PICK y : y \in S
    OBVIOUS
  <2>3. bound - y \in D
    BY <2>2
  <2> QED BY <2>1, <2>3
<1>2. Min(D) \in D /\ \A d \in D : Min(D) <= d
  BY <1>1, LeastNumber
<1>3. PICK x \in S : Min(D) = bound - x
  BY <1>2
<1>4. \A y \in S : bound - x <= bound - y
  BY <1>2, <1>3
<1>5. \A y \in S : x >= y
  BY <1>4
<1> QED BY <1>5 DEF Max

(* The numbers of a sequence have a bound, and so a least and a greatest.  *)
LEMMA BoundOfSeq ==
  \A s \in Seq(Nat) : \E bound \in Nat : \A y \in ToSet(s) : y <= bound
<1> DEFINE S == {s \in Seq(Nat) : \E bound \in Nat : \A y \in ToSet(s) : y <= bound}
<1>1. <<>> \in S
  <2>1. ToSet(<<>>) = {} /\ <<>> \in Seq(Nat)
    BY DEF ToSet
  <2> QED BY <2>1
<1>2. ASSUME NEW s \in Seq(Nat), NEW x \in Nat, s \in S PROVE Append(s, x) \in S
  <2>1. PICK bound \in Nat : \A y \in ToSet(s) : y <= bound
    BY <1>2
  <2>2. Append(s, x) \in Seq(Nat) /\ ToSet(Append(s, x)) = ToSet(s) \cup {x}
    BY AppendSet
  <2>3. ToSet(s) \in SUBSET Nat
    BY OwnSet
  <2>4. CASE x <= bound
    BY <2>1, <2>2, <2>4
  <2>5. CASE x > bound
    BY <2>1, <2>2, <2>3, <2>5
  <2> QED BY <2>4, <2>5
<1> HIDE DEF S
<1>3. Seq(Nat) \subseteq S
  BY <1>1, <1>2, EverySeq
<1> QED BY <1>3 DEF S

LEMMA SpanOfSeq ==
  ASSUME NEW s \in Seq(Nat), s # <<>>
  PROVE  /\ Min(ToSet(s)) \in Nat /\ \A y \in ToSet(s) : Min(ToSet(s)) <= y
         /\ Max(ToSet(s)) \in Nat /\ \A y \in ToSet(s) : Max(ToSet(s)) >= y
<1>1. ToSet(s) \in SUBSET Nat /\ ToSet(s) # {}
  BY OwnSet
<1>2. PICK bound \in Nat : \A y \in ToSet(s) : y <= bound
  BY BoundOfSeq
<1> QED BY <1>1, <1>2, LeastNumber, GreatestNumber

(* What is kept of the images is the image of what is kept.                *)
Through(f, s) == [i \in DOMAIN s |-> f[s[i]]]

LEMMA ThroughAt ==
  ASSUME NEW f, NEW D, NEW s \in Seq(D)
  PROVE  /\ Len(Through(f, s)) = Len(s) /\ Len(s) \in Nat
         /\ \A i \in 1..Len(s) : Through(f, s)[i] = f[s[i]]
<1>1. Len(s) \in Nat /\ DOMAIN s = 1..Len(s)
  BY LenProperties
<1>2. Through(f, s) = [i \in 1..Len(s) |-> f[s[i]]]
  BY <1>1 DEF Through
<1> QED BY <1>1, <1>2

LEMMA ThroughSeq ==
  ASSUME NEW D, NEW R, NEW f \in [D -> R], NEW s \in Seq(D)
  PROVE  Through(f, s) \in Seq(R)
<1>1. Len(s) \in Nat /\ DOMAIN s = 1..Len(s) /\ s \in [1..Len(s) -> D]
  BY LenProperties
<1>2. \A i \in 1..Len(s) : s[i] \in D /\ f[s[i]] \in R
  BY <1>1
<1> QED BY <1>1, <1>2 DEF Through

LEMMA ThroughNext ==
  ASSUME NEW D, NEW R, NEW f \in [D -> R], NEW s \in Seq(D), NEW x \in D
  PROVE  Through(f, Append(s, x)) = Append(Through(f, s), f[x])
<1>1. PICK t : t = Append(s, x)
  OBVIOUS
<1>2. /\ t \in Seq(D) /\ Len(t) = Len(s) + 1 /\ Len(s) \in Nat
      /\ \A i \in 1..Len(s) : t[i] = s[i]
      /\ t[Len(s) + 1] = x
  BY <1>1, AppendProperties, LenProperties
<1>3. Through(f, s) \in Seq(R) /\ Through(f, t) \in Seq(R)
  BY <1>2, ThroughSeq
<1>4. /\ Len(Through(f, s)) = Len(s)
      /\ \A i \in 1..Len(s) : Through(f, s)[i] = f[s[i]]
  BY ThroughAt
<1>5. /\ Len(Through(f, t)) = Len(s) + 1
      /\ \A i \in 1..(Len(s) + 1) : Through(f, t)[i] = f[t[i]]
  BY <1>2, ThroughAt
<1>6. PICK u, y : u = Through(f, s) /\ y = f[x]
  OBVIOUS
<1>7. /\ Append(u, y) \in Seq(R) /\ Len(Append(u, y)) = Len(s) + 1
      /\ \A i \in 1..Len(s) : Append(u, y)[i] = u[i]
      /\ Append(u, y)[Len(s) + 1] = y
  <2>1. u \in Seq(R) /\ y \in R /\ Len(u) = Len(s)
    BY <1>3, <1>4, <1>6
  <2> QED BY <2>1, AppendProperties
<1>8. \A i \in 1..(Len(s) + 1) : i \in 1..Len(s) \/ i = Len(s) + 1
  BY <1>2
<1>9. \A i \in 1..(Len(s) + 1) : Through(f, t)[i] = Append(u, y)[i]
  BY <1>2, <1>4, <1>5, <1>6, <1>7, <1>8
<1> QED BY <1>1, <1>3, <1>5, <1>6, <1>7, <1>9, SeqEqual

Those(D, f, B) == {p \in D : f[p] \in B}

LEMMA KeptImage ==
  ASSUME NEW D, NEW R, NEW f \in [D -> R], NEW B
  PROVE  \A s \in Seq(D) : Kept(Through(f, s), B) = Through(f, Kept(s, Those(D, f, B)))
<1> DEFINE A == Those(D, f, B)
           S == {s \in Seq(D) : Kept(Through(f, s), B) = Through(f, Kept(s, A))}
<1> HIDE DEF A
<1>k. \A s \in Seq(D) : Kept(s, A) \in Seq(D)
  <2> TAKE s \in Seq(D)
  <2>1. Kept(s, A) \in Seq(D \cap A)
    BY KeptMembers
  <2> QED BY <2>1, SeqMonotonic
<1>1. <<>> \in S
  <2>1. Through(f, <<>>) = <<>>
    BY DEF Through
  <2> QED BY <2>1, KeptNone, EmptySeq
<1>2. ASSUME NEW s \in Seq(D), NEW x \in D, s \in S PROVE Append(s, x) \in S
  <2>1. Append(s, x) \in Seq(D) /\ Kept(Through(f, s), B) = Through(f, Kept(s, A))
    BY <1>2, AppendProperties
  <2>2. PICK u, y, t : u = Through(f, s) /\ y = f[x] /\ t = Kept(s, A)
    OBVIOUS
  <2>3. u \in Seq(R) /\ y \in R /\ t \in Seq(D)
    BY <1>k, <2>2, ThroughSeq
  <2>4. Kept(Append(u, y), B) = Keep(B, Kept(u, B), y)
    BY <2>3, KeptNext
  <2>5. Kept(Append(s, x), A) = Keep(A, t, x)
    BY <2>2, KeptNext
  <2>6. Through(f, Append(s, x)) = Append(u, y)
    BY <2>2, ThroughNext
  <2>7. Through(f, Append(t, x)) = Append(Through(f, t), y)
    BY <2>2, <2>3, ThroughNext
  <2> USE DEF A, Those
  <2>8. CASE x \in A
    BY <2>1, <2>2, <2>4, <2>5, <2>6, <2>7, <2>8 DEF Keep
  <2>9. CASE x \notin A
    BY <2>1, <2>2, <2>4, <2>5, <2>6, <2>9 DEF Keep
  <2> QED BY <2>8, <2>9
<1> HIDE DEF S
<1>3. Seq(D) \subseteq S
  BY <1>1, <1>2, EverySeq
<1> QED BY <1>3 DEF S, A

(* The rows a filter selects, when it passes those that are in B, are what *)
(* is kept of the rows, and its indices are those of rows.                 *)
LEMMA Selects ==
  ASSUME NEW R, NEW s \in Seq(R), NEW B, NEW passes,
         DOMAIN passes = 1..Len(s), \A k \in 1..Len(s) : passes[k] <=> s[k] \in B
  PROVE  /\ Indices(passes) \in Seq(0..(Len(s) - 1))
         /\ Kept(s, B) = TakeValues(s, Indices(passes))
<1>1. Len(s) \in Nat /\ DOMAIN s = 1..Len(s) /\ s \in [1..Len(s) -> R]
  BY LenProperties
<1> DEFINE n == Len(s)
           P == 0..(n - 1)
           numbers == [k \in 1..n |-> k - 1]
           A == {k - 1 : k \in {j \in 1..n : passes[j]}}
           f == [p \in P |-> s[p + 1]]
<1>2. Indices(passes) = Kept(numbers, A)
  BY DEF Indices
<1>3. numbers \in Seq(P) /\ Len(numbers) = n
  BY <1>1
<1>4. f \in [P -> R]
  BY <1>1
<1>5. ASSUME NEW p \in P PROVE p \in A <=> f[p] \in B
  <2>1. p + 1 \in 1..n /\ (p + 1) - 1 = p /\ f[p] = s[p + 1] /\ \A k \in 1..n : k - 1 = p => k = p + 1
    BY <1>1
  <2>2. p \in A <=> p + 1 \in {j \in 1..n : passes[j]}
    BY <2>1
  <2>3. p + 1 \in {j \in 1..n : passes[j]} <=> passes[p + 1]
    BY <2>1
  <2> QED BY <2>1, <2>2, <2>3
<1>6. Through(f, numbers) = s
  <2>1. \A i \in 1..n : numbers[i] \in P /\ numbers[i] + 1 = i
    BY <1>1
  <2>2. Through(f, numbers) = [i \in 1..n |-> f[numbers[i]]]
    BY <1>1 DEF Through
  <2>3. s = [i \in 1..n |-> s[i]]
    BY <1>1
  <2>4. \A i \in 1..n : f[numbers[i]] = s[i]
    BY <2>1
  <2> HIDE DEF f, numbers
  <2> QED BY <2>2, <2>3, <2>4
<1> HIDE DEF A, f, numbers, P
<1>7. Kept(s, B) = Through(f, Kept(numbers, A))
  <2>1. PICK image \in [P -> R] : image = f
    BY <1>4
  <2>2. PICK t \in Seq(P) : t = numbers
    BY <1>3
  <2>3. Kept(Through(image, t), B) = Through(image, Kept(t, Those(P, image, B)))
    BY KeptImage
  <2>4. A = Those(P, image, B)
    <3>1. A \subseteq P
      BY <1>1 DEF A, P
    <3> QED BY <1>5, <2>1, <3>1 DEF Those
  <2> QED BY <1>6, <2>1, <2>2, <2>3, <2>4
<1>8. Kept(numbers, A) \in Seq(P)
  <2>1. Kept(numbers, A) \in Seq(P \cap A)
    BY <1>3, KeptMembers
  <2> QED BY <2>1, SeqMonotonic
<1>9. Through(f, Kept(numbers, A)) = TakeValues(s, Kept(numbers, A))
  <2>1. PICK t : t = Kept(numbers, A)
    OBVIOUS
  <2>2. \A i \in DOMAIN t : t[i] \in P
    BY <1>8, <2>1, LenProperties
  <2>3. \A i \in DOMAIN t : f[t[i]] = s[t[i] + 1]
    BY <2>2 DEF f
  <2> QED BY <2>1, <2>3 DEF Through, TakeValues, ValueOf
<1> QED BY <1>2, <1>7, <1>8, <1>9 DEF P

-----------------------------------------------------------------------------
(* The column of timestamps.                                               *)
LEMMA TimeColumn ==
  /\ TimeIndex \in DOMAIN Schema /\ Schema[TimeIndex].dtype.kind = "Timestamp"
  /\ TimestampColumn(Schema) = Schema[TimeIndex]
<1>1. /\ N \in Nat /\ DOMAIN Schema = 1..N
      /\ \E k \in 1..N : Schema[k].dtype.kind = "Timestamp"
  BY SchemaAssumption, SchemaFacts DEF N
<1> DEFINE I == {k \in 1..N : Schema[k].dtype.kind = "Timestamp"}
<1>2. I \in SUBSET Nat /\ I # {}
  BY <1>1
<1>3. TimeIndex = Min(I)
  BY <1>2 DEF TimeIndex, SelectInSeq, N
<1>4. Min(I) \in I
  BY <1>2, LeastNumber
<1>5. TimestampColumn(Schema) = Schema[TimeIndex]
  BY DEF TimestampColumn, TimeIndex
<1> QED BY <1>1, <1>3, <1>4, <1>5

Clock(b) == Grid(b)[TimeIndex]

LEMMA ClockTyped ==
  ASSUME NEW b, TableBatch(b)
  PROVE  /\ Clock(b) \in [1..b.rows -> Nat] /\ b.rows \in Nat
         /\ Clock(b) \in Seq(Nat) /\ Len(Clock(b)) = b.rows
         /\ Column(b, TimestampColumn(Schema).name).values = Clock(b)
         /\ \A row \in 1..b.rows : RowsOf(b)[row][TimeIndex] = Clock(b)[row]
<1>1. TimeIndex \in DOMAIN Schema /\ CellsOf(Schema[TimeIndex].dtype) = Nat
  BY TimeColumn DEF CellsOf
<1>2. Clock(b) \in [1..b.rows -> Nat] /\ b.rows \in Nat
  BY <1>1 DEF TableBatch, IsGrid, Clock
<1>3. Column(b, TimestampColumn(Schema).name) = ColumnData(Schema[TimeIndex].dtype, Clock(b))
  BY <1>1, TimeColumn, TableColumn DEF Clock
<1>4. Column(b, TimestampColumn(Schema).name).values = Clock(b)
  BY <1>3 DEF ColumnData
<1>5. ASSUME NEW row \in 1..b.rows PROVE RowsOf(b)[row][TimeIndex] = Clock(b)[row]
  <2>1. RowsOf(b)[row] = [k \in DOMAIN Schema |-> Grid(b)[k][row]]
    BY RowsTyped
  <2> QED BY <1>1, <2>1 DEF Clock
<1> QED BY <1>2, <1>4, <1>5

(* The rows of a range, and the rows a filter by time selects of a batch.  *)
RangeRows(start, end) ==
  {row \in RowSet : start <= row[TimeIndex] /\ row[TimeIndex] < end}

LEMMA InRangeKept ==
  ASSUME NEW rows \in Seq(RowSet), NEW start, NEW end
  PROVE  InRange(rows, start, end) = Kept(rows, RangeRows(start, end))
<1> DEFINE T == {row \in ToSet(rows) : start <= row[TimeIndex] /\ row[TimeIndex] < end}
<1>1. rows \in Seq(ToSet(rows)) /\ ToSet(rows) \subseteq RowSet
  BY OwnSet
<1>2. \A row \in ToSet(rows) : row \in T <=> row \in RangeRows(start, end)
  BY <1>1 DEF RangeRows
<1>3. InRange(rows, start, end) = Kept(rows, T)
  BY DEF InRange
<1> HIDE DEF T
<1>4. PICK R, U : R = ToSet(rows) /\ U = RangeRows(start, end)
  OBVIOUS
<1>5. PICK s \in Seq(R) : s = rows
  BY <1>1, <1>4
<1>6. Kept(s, T) = Kept(s, U)
  <2>1. \A row \in R : row \in T <=> row \in U
    BY <1>2, <1>4
  <2> QED BY <2>1, KeptAgree
<1> QED BY <1>3, <1>4, <1>5, <1>6

(* A vector, with the test it makes of its values, passes those in range.  *)
LEMMA RangeSelects ==
  ASSUME NEW b, TableBatch(b), NEW start \in Nat, NEW end \in Nat,
         \A row \in 1..b.rows : Clock(b)[row] >= I64Min
  PROVE  /\ RangeI64(Clock(b), start, end) \in Seq(0..(b.rows - 1))
         /\ Kept(RowsOf(b), RangeRows(start, end)) =
              TakeValues(RowsOf(b), RangeI64(Clock(b), start, end))
<1>1. /\ b.rows \in Nat /\ DOMAIN Clock(b) = 1..b.rows
      /\ \A row \in 1..b.rows : Clock(b)[row] \in Nat /\ RowsOf(b)[row][TimeIndex] = Clock(b)[row]
  BY ClockTyped
<1>2. /\ RowsOf(b) \in Seq(RowSet) /\ Len(RowsOf(b)) = b.rows
      /\ \A row \in 1..b.rows : RowsOf(b)[row] \in RowSet
  BY RowsTyped, ElementOfSeq
<1> DEFINE times == Clock(b)
           passes == [k \in DOMAIN times |->
              IF InVector(times, k)
              THEN end > times[k] /\ (start = I64Min \/ times[k] > start - 1)
              ELSE times[k] >= start /\ times[k] < end]
<1>3. RangeI64(Clock(b), start, end) = Indices(passes)
  BY DEF RangeI64
<1>4. ASSUME NEW k \in 1..b.rows PROVE passes[k] <=> RowsOf(b)[k] \in RangeRows(start, end)
  <2>1. times[k] \in Nat /\ times[k] >= I64Min /\ k \in DOMAIN times
    BY <1>1
  <2>2. passes[k] <=> start <= times[k] /\ times[k] < end
    <3>1. CASE InVector(times, k)
      <4>1. passes[k] <=> end > times[k] /\ (start = I64Min \/ times[k] > start - 1)
        BY <2>1, <3>1
      <4> HIDE DEF passes
      <4> QED BY <2>1, <4>1
    <3>2. CASE ~ InVector(times, k)
      <4>1. passes[k] <=> times[k] >= start /\ times[k] < end
        BY <2>1, <3>2
      <4> HIDE DEF passes
      <4> QED BY <2>1, <4>1
    <3> QED BY <3>1, <3>2
  <2>3. RowsOf(b)[k] \in RangeRows(start, end) <=> start <= times[k] /\ times[k] < end
    BY <1>1, <1>2 DEF RangeRows
  <2> QED BY <2>2, <2>3
<1>5. DOMAIN passes = 1..b.rows
  BY <1>1
<1> HIDE DEF passes
<1>6. PICK s \in Seq(RowSet) : s = RowsOf(b)
  BY <1>2
<1>7. PICK B : B = RangeRows(start, end)
  OBVIOUS
<1>8. DOMAIN passes = 1..Len(s) /\ \A k \in 1..Len(s) : passes[k] <=> s[k] \in B
  BY <1>2, <1>4, <1>5, <1>6, <1>7
<1>9. Indices(passes) \in Seq(0..(Len(s) - 1)) /\ Kept(s, B) = TakeValues(s, Indices(passes))
  BY <1>8, Selects
<1> QED BY <1>2, <1>3, <1>6, <1>7, <1>9

(* The filter of the active rows says the same without vectors.            *)
LEMMA FilterSelects ==
  ASSUME NEW b, TableBatch(b), NEW start \in Nat, NEW end \in Nat
  PROVE  \E indices \in Seq(0..(b.rows - 1)) :
           /\ FilterTime(b, start, end) = TakeRows(b, indices)
           /\ Kept(RowsOf(b), RangeRows(start, end)) = TakeValues(RowsOf(b), indices)
<1>1. /\ b.rows \in Nat /\ DOMAIN Clock(b) = 1..b.rows
      /\ Column(b, TimestampColumn(Schema).name).values = Clock(b)
      /\ \A row \in 1..b.rows : Clock(b)[row] \in Nat /\ RowsOf(b)[row][TimeIndex] = Clock(b)[row]
  BY ClockTyped
<1>2. /\ RowsOf(b) \in Seq(RowSet) /\ Len(RowsOf(b)) = b.rows
      /\ \A row \in 1..b.rows : RowsOf(b)[row] \in RowSet
  BY RowsTyped, ElementOfSeq
<1> DEFINE times == Clock(b)
           passes == [k \in DOMAIN times |-> start <= times[k] /\ times[k] < end]
<1>3. FilterTime(b, start, end) = TakeRows(b, Indices(passes))
  BY <1>1 DEF FilterTime
<1>4. ASSUME NEW k \in 1..b.rows PROVE passes[k] <=> RowsOf(b)[k] \in RangeRows(start, end)
  <2>1. passes[k] <=> start <= times[k] /\ times[k] < end
    BY <1>1
  <2>2. RowsOf(b)[k] \in RangeRows(start, end) <=> start <= times[k] /\ times[k] < end
    BY <1>1, <1>2 DEF RangeRows
  <2> QED BY <2>1, <2>2
<1>5. DOMAIN passes = 1..b.rows
  BY <1>1
<1> HIDE DEF passes
<1>6. PICK s \in Seq(RowSet) : s = RowsOf(b)
  BY <1>2
<1>7. PICK B : B = RangeRows(start, end)
  OBVIOUS
<1>8. DOMAIN passes = 1..Len(s) /\ \A k \in 1..Len(s) : passes[k] <=> s[k] \in B
  BY <1>2, <1>4, <1>5, <1>6, <1>7
<1>9. Indices(passes) \in Seq(0..(Len(s) - 1)) /\ Kept(s, B) = TakeValues(s, Indices(passes))
  BY <1>8, Selects
<1> QED BY <1>2, <1>3, <1>6, <1>7, <1>9

(* A selection, whatever its shape, gives back the indices it was made of. *)
LEMMA SelectionOf ==
  ASSUME NEW total \in Nat, NEW indices \in Seq(Nat)
  PROVE  /\ SelectedRows(FromIndices(indices, total)) = indices
         /\ FromIndices(indices, total).len = Len(indices)
         /\ FromIndices(indices, total).kind = "all" => FromIndices(indices, total) = All(total)
<1>1. /\ Len(indices) \in Nat /\ DOMAIN indices = 1..Len(indices)
      /\ indices = [k \in 1..Len(indices) |-> indices[k]]
      /\ \A k \in 1..Len(indices) : indices[k] \in Nat
  BY LenProperties
<1>2. CASE indices = [k \in 1..total |-> k - 1]
  <2>1. FromIndices(indices, total) = All(total)
    BY <1>2 DEF FromIndices
  <2>2. Len(indices) = total
    BY <1>2
  <2>3. SelectedRows(All(total)) = [k \in 1..total |-> 0 + (k - 1)]
    BY DEF All, SelectedRows, IndexAt
  <2>4. \A k \in 1..total : 0 + (k - 1) = k - 1
    OBVIOUS
  <2>5. All(total).len = total
    BY DEF All
  <2> QED BY <1>2, <2>1, <2>2, <2>3, <2>4, <2>5
<1>3. CASE indices # [k \in 1..total |-> k - 1] /\ indices = <<>>
  <2>1. FromIndices(indices, total) = Span(0, 0) /\ Len(indices) = 0
    BY <1>3 DEF FromIndices
  <2>2. SelectedRows(Span(0, 0)) = <<>> /\ Span(0, 0).len = 0 /\ Span(0, 0).kind # "all"
    BY DEF SelectedRows, Span
  <2> QED BY <1>3, <2>1, <2>2
<1> DEFINE Run == \A k \in DOMAIN indices : indices[k] = indices[1] + k - 1
<1>4. CASE indices # [k \in 1..total |-> k - 1] /\ indices # <<>> /\ Run
  <2>1. FromIndices(indices, total) = Span(indices[1], Len(indices))
    BY <1>4 DEF FromIndices
  <2>2. SelectedRows(Span(indices[1], Len(indices))) =
          [k \in 1..Len(indices) |-> indices[1] + (k - 1)]
    BY DEF SelectedRows, Span, IndexAt
  <2>3. 1 \in 1..Len(indices)
    BY <1>1, <1>4, EmptySeq
  <2>4. \A k \in 1..Len(indices) : indices[1] + (k - 1) = indices[k]
    BY <1>1, <1>4, <2>3
  <2>5. Span(indices[1], Len(indices)).len = Len(indices) /\ Span(indices[1], Len(indices)).kind # "all"
    BY DEF Span
  <2> QED BY <1>1, <2>1, <2>2, <2>4, <2>5
<1>5. CASE indices # [k \in 1..total |-> k - 1] /\ indices # <<>> /\ ~ Run
  <2>1. FromIndices(indices, total) = Listed(indices)
    BY <1>5 DEF FromIndices
  <2>2. SelectedRows(Listed(indices)) = [k \in 1..Len(indices) |-> indices[(k - 1) + 1]]
    BY DEF SelectedRows, Listed, IndexAt
  <2>3. \A k \in 1..Len(indices) : (k - 1) + 1 = k
    OBVIOUS
  <2>4. Listed(indices).len = Len(indices) /\ Listed(indices).kind # "all"
    BY DEF Listed
  <2> QED BY <1>1, <2>1, <2>2, <2>3, <2>4
<1> QED BY <1>2, <1>3, <1>4, <1>5

-----------------------------------------------------------------------------
(* One more sequence, flattened.                                           *)
LEMMA FlattenNone == FlattenSeq(<<>>) = <<>>
<1>1. <<>> \in Seq(Seq({})) /\ Len(<<>>) = 0
  OBVIOUS
<1>2. PICK s \in Seq(Seq({})) : s = <<>>
  BY <1>1
<1>3. PICK a \in [0..Len(s) -> Seq({})] : a[0] = <<>> /\ FlattenSeq(s) = a[Len(s)]
  BY FlattenSteps
<1> QED BY <1>1, <1>2, <1>3

LEMMA FlattenNext ==
  ASSUME NEW C, NEW seqs \in Seq(Seq(C)), NEW seq \in Seq(C)
  PROVE  FlattenSeq(Append(seqs, seq)) = FlattenSeq(seqs) \o seq
<1> DEFINE n == Len(seqs)
<1>1. n \in Nat
  BY LenProperties
<1>2. PICK longer \in Seq(Seq(C)) : longer = Append(seqs, seq)
  BY AppendProperties
<1>3. /\ Len(longer) = n + 1
      /\ \A k \in 1..n : longer[k] = seqs[k]
      /\ longer[n + 1] = seq
  BY <1>2, AppendProperties
<1>4. PICK a : /\ a[0] = <<>>
               /\ \A k \in 0..(n - 1) : a[k + 1] = a[k] \o seqs[k + 1]
               /\ FlattenSeq(seqs) = a[n]
  BY FlattenSteps
<1>5. PICK b : /\ b[0] = <<>>
               /\ \A k \in 0..(Len(longer) - 1) : b[k + 1] = b[k] \o longer[k + 1]
               /\ FlattenSeq(longer) = b[Len(longer)]
  BY FlattenSteps
<1> HIDE DEF n
<1> DEFINE S == {k \in Nat : k <= n => a[k] = b[k]}
<1>6. 0 \in S
  BY <1>4, <1>5
<1>7. ASSUME NEW k \in Nat, k \in S PROVE k + 1 \in S
  <2>1. CASE k + 1 <= n
    <3>1. k \in 0..(n - 1) /\ k \in 0..(Len(longer) - 1) /\ k + 1 \in 1..n /\ k <= n
      BY <1>1, <1>3, <2>1
    <3>2. a[k] = b[k]
      BY <1>7, <3>1
    <3>3. a[k + 1] = a[k] \o seqs[k + 1] /\ b[k + 1] = b[k] \o longer[k + 1]
      BY <1>4, <1>5, <3>1, Zenon
    <3>4. longer[k + 1] = seqs[k + 1]
      BY <1>3, <3>1
    <3>5. a[k + 1] = b[k + 1]
      BY ONLY <3>2, <3>3, <3>4, Zenon
    <3> QED BY <3>5
  <2> QED BY <2>1
<1> HIDE DEF S
<1>8. n \in S
  BY <1>1, <1>6, <1>7, EveryNat
<1>9. a[n] = b[n]
  BY <1>1, <1>8 DEF S
<1>10. n \in 0..(Len(longer) - 1)
  BY <1>1, <1>3
<1> QED BY <1>2, <1>3, <1>4, <1>5, <1>9, <1>10 DEF n

(* A chunk of cells, and one more chunk of a column.                       *)
Cells == UNION {CellsOf(dtype) : dtype \in DTypes}

WholeChunk(chunk) ==
  /\ chunk = [mapped |-> chunk.mapped, values |-> chunk.values, rows |-> chunk.rows]
  /\ chunk.values \in Seq(Cells)
  /\ chunk.rows.len \in Nat
  /\ SelectedRows(chunk.rows) \in Seq(0..(Len(chunk.values) - 1))
  /\ chunk.rows.kind = "all" => chunk.rows = All(Len(chunk.values))
  /\ ~ chunk.mapped => chunk = Owned(chunk.values)

IsChunks(chunks) ==
  /\ chunks \in Seq(ToSet(chunks))
  /\ \A chunk \in ToSet(chunks) : WholeChunk(chunk)

(* What a chunk shows: one value for each row of its selection.            *)
LEMMA ChunkShows ==
  ASSUME NEW chunk, WholeChunk(chunk)
  PROVE  /\ ChunkValues(chunk) = TakeValues(chunk.values, SelectedRows(chunk.rows))
         /\ ChunkValues(chunk) \in Seq(Cells)
         /\ Len(ChunkValues(chunk)) = chunk.rows.len
         /\ \A i \in 1..chunk.rows.len :
              /\ SelectedRows(chunk.rows)[i] = IndexAt(chunk.rows, i - 1)
              /\ IndexAt(chunk.rows, i - 1) \in 0..(Len(chunk.values) - 1)
              /\ ChunkValues(chunk)[i] = ValueOf(chunk.values, IndexAt(chunk.rows, i - 1))
         /\ chunk.rows.kind = "all" => ChunkValues(chunk) = chunk.values
         /\ ~ chunk.mapped => ChunkValues(chunk) = chunk.values
<1>1. PICK values, rows, selected, n :
        values = chunk.values /\ rows = chunk.rows /\ selected = SelectedRows(rows) /\ n = rows.len
  OBVIOUS
<1>2. values \in Seq(Cells) /\ n \in Nat /\ selected \in Seq(0..(Len(values) - 1)) /\ Len(values) \in Nat
  BY <1>1, LenProperties DEF WholeChunk
<1>3. selected = [i \in 1..n |-> IndexAt(rows, i - 1)]
  BY <1>1 DEF SelectedRows
<1>4. /\ Len(selected) = n /\ DOMAIN selected = 1..n
      /\ \A i \in 1..n : /\ selected[i] = IndexAt(rows, i - 1)
                        /\ selected[i] \in 0..(Len(values) - 1)
  <2>1. DOMAIN selected = 1..n
    BY <1>3
  <2>2. Len(selected) = n
    BY <1>2, <2>1, LenProperties
  <2>3. \A i \in 1..n : selected[i] = IndexAt(rows, i - 1)
    BY <1>3
  <2> QED BY <1>2, <2>1, <2>2, <2>3, ElementOfSeq
<1>5. ChunkValues(chunk) = TakeValues(values, selected)
  <2>1. Kept(selected, 0..(Len(values) - 1)) = selected
    BY <1>2, KeptAll
  <2> QED BY <1>1, <2>1 DEF ChunkValues
<1>6. TakeValues(values, selected) = [i \in 1..n |-> values[selected[i] + 1]]
  BY <1>4 DEF TakeValues, ValueOf
<1>7. \A i \in 1..n : values[selected[i] + 1] \in Cells
  <2>1. PICK m \in Nat : m = Len(values)
    BY <1>2
  <2>2. \A p \in 0..(m - 1) : p + 1 \in 1..m
    OBVIOUS
  <2>3. \A i \in 1..n : selected[i] + 1 \in 1..Len(values)
    BY <1>4, <2>1, <2>2
  <2> QED BY <1>2, <2>3, ElementOfSeq
<1>8. TakeValues(values, selected) \in Seq(Cells) /\ Len(TakeValues(values, selected)) = n
  BY <1>2, <1>6, <1>7
<1>9. rows = All(Len(values)) => TakeValues(values, selected) = values
  <2> SUFFICES ASSUME rows = All(Len(values)) PROVE TakeValues(values, selected) = values
    OBVIOUS
  <2>1. n = Len(values)
    BY <1>1 DEF All
  <2>2. \A i \in 1..n : IndexAt(rows, i - 1) + 1 = i
    BY <1>2, <2>1 DEF All, IndexAt
  <2>3. \A i \in 1..n : values[selected[i] + 1] = values[i]
    BY <1>4, <2>2
  <2> QED BY <1>2, <1>6, <2>1, <2>3, LenProperties
<1>10. chunk.rows.kind = "all" \/ ~ chunk.mapped => rows = All(Len(values))
  <2>1. ~ chunk.mapped => chunk = Owned(values)
    BY <1>1 DEF WholeChunk
  <2>2. Owned(values).rows = All(Len(values))
    BY DEF Owned
  <2>3. chunk.rows.kind = "all" => rows = All(Len(values))
    BY <1>1 DEF WholeChunk
  <2> QED BY <1>1, <2>1, <2>2, <2>3
<1> QED BY <1>1, <1>4, <1>5, <1>6, <1>8, <1>9, <1>10 DEF ValueOf

LEMMA FlattenNoChunk == IsChunks(<<>>) /\ Flatten(<<>>) = <<>>
<1>1. ToSet(<<>>) = {} /\ <<>> \in Seq({})
  BY DEF ToSet
<1>2. [k \in DOMAIN <<>> |-> ChunkValues(<<>>[k])] = <<>>
  OBVIOUS
<1> QED BY <1>1, <1>2, FlattenNone DEF IsChunks, Flatten

LEMMA FlattenChunk ==
  ASSUME NEW chunks, IsChunks(chunks), NEW chunk, WholeChunk(chunk)
  PROVE  /\ IsChunks(Append(chunks, chunk))
         /\ Flatten(Append(chunks, chunk)) = Flatten(chunks) \o ChunkValues(chunk)
         /\ Len(Append(chunks, chunk)) = 1 => chunks = <<>>
         /\ Append(chunks, chunk)[Len(Append(chunks, chunk))] = chunk
<1> DEFINE R == ToSet(chunks) \cup {chunk}
           n == Len(chunks)
<1>1. /\ chunks \in Seq(ToSet(chunks))
      /\ \A c \in R : WholeChunk(c) /\ ChunkValues(c) \in Seq(Cells)
  BY ChunkShows DEF IsChunks
<1>2. chunks \in Seq(R)
  BY <1>1, SeqMonotonic
<1>3. PICK longer : longer = Append(chunks, chunk)
  OBVIOUS
<1>4. /\ longer \in Seq(R) /\ ToSet(longer) = R
      /\ n \in Nat /\ DOMAIN chunks = 1..n /\ DOMAIN longer = 1..(n + 1) /\ Len(longer) = n + 1
      /\ \A k \in 1..n : longer[k] = chunks[k] /\ chunks[k] \in R
      /\ longer[n + 1] = chunk /\ chunk \in R
  BY <1>2, <1>3, AppendSet, AppendProperties, LenProperties, ElementOfSeq
<1>5. IsChunks(longer)
  BY <1>1, <1>4 DEF IsChunks
<1> DEFINE f == [k \in 1..(n + 1) |-> ChunkValues(longer[k])]
           seqs == [k \in 1..n |-> ChunkValues(chunks[k])]
<1>6. Flatten(chunks) = FlattenSeq(seqs) /\ Flatten(longer) = FlattenSeq(f)
  BY <1>4 DEF Flatten
<1>7. seqs \in Seq(Seq(Cells)) /\ ChunkValues(chunk) \in Seq(Cells)
  BY <1>1, <1>4
<1>8. Append([k \in 1..n |-> f[k]], f[n + 1]) = [k \in 1..(n + 1) |-> f[k]]
  BY <1>4, AppendNext
<1>9. [k \in 1..n |-> f[k]] = seqs /\ f[n + 1] = ChunkValues(chunk)
  <2>1. \A k \in 1..n : f[k] = ChunkValues(chunks[k])
    BY <1>4
  <2>2. f[n + 1] = ChunkValues(chunk)
    BY <1>4
  <2> HIDE DEF f
  <2> QED BY <2>1, <2>2
<1>10. f = Append(seqs, ChunkValues(chunk))
  <2>1. f = [k \in 1..(n + 1) |-> f[k]]
    OBVIOUS
  <2> HIDE DEF f, seqs
  <2> QED BY <1>8, <1>9, <2>1
<1> HIDE DEF f, seqs
<1>11. FlattenSeq(Append(seqs, ChunkValues(chunk))) = FlattenSeq(seqs) \o ChunkValues(chunk)
  BY <1>7, FlattenNext
<1>12. n + 1 = 1 => chunks = <<>>
  BY <1>2, <1>4, EmptySeq
<1> QED BY <1>3, <1>4, <1>5, <1>6, <1>10, <1>11, <1>12

(* Chunks of a segment's column and of values are of this kind.            *)
LEMMA MappedWhole ==
  ASSUME NEW values \in Seq(Cells), NEW indices \in Seq(0..(Len(values) - 1)),
         NEW column, column.values = values, NEW rows, rows = FromIndices(indices, Len(values))
  PROVE  WholeChunk(Mapped(column, rows)) /\ ChunkValues(Mapped(column, rows)) = TakeValues(values, indices)
<1>1. Len(values) \in Nat /\ Len(indices) \in Nat /\ indices \in Seq(Nat)
  <2>1. Len(values) \in Nat /\ Len(indices) \in Nat
    BY LenProperties
  <2>2. 0..(Len(values) - 1) \subseteq Nat
    BY <2>1
  <2> QED BY <2>1, <2>2, SeqMonotonic
<1>2. PICK n \in Nat : n = Len(values)
  BY <1>1
<1>3. /\ SelectedRows(rows) = indices /\ rows.len = Len(indices)
      /\ rows.kind = "all" => rows = All(n)
  BY <1>1, <1>2, SelectionOf
<1>4. PICK chunk : chunk = Mapped(column, rows)
  OBVIOUS
<1>5. chunk = [mapped |-> TRUE, values |-> values, rows |-> rows]
  BY <1>4 DEF Mapped
<1>6. WholeChunk(chunk)
  BY <1>1, <1>2, <1>3, <1>5 DEF WholeChunk
<1> QED BY <1>3, <1>4, <1>5, <1>6, ChunkShows

LEMMA OwnedWhole ==
  ASSUME NEW values \in Seq(Cells)
  PROVE  WholeChunk(Owned(values)) /\ ChunkValues(Owned(values)) = values
<1>1. PICK n \in Nat : n = Len(values)
  BY LenProperties
<1>2. PICK rows : rows = All(n)
  OBVIOUS
<1>3. rows.len = n /\ SelectedRows(rows) = [k \in 1..n |-> 0 + (k - 1)]
  BY <1>2 DEF All, SelectedRows, IndexAt
<1>4. [k \in 1..n |-> 0 + (k - 1)] \in Seq(0..(n - 1))
  OBVIOUS
<1>5. PICK chunk : chunk = Owned(values)
  OBVIOUS
<1>6. chunk = [mapped |-> FALSE, values |-> values, rows |-> rows]
  BY <1>1, <1>2, <1>5 DEF Owned
<1>7. WholeChunk(chunk)
  <2>1. PICK selected \in Seq(0..(n - 1)) : selected = SelectedRows(rows)
    BY <1>3, <1>4
  <2>2. /\ chunk.mapped = FALSE /\ chunk.values = values /\ chunk.rows = rows
        /\ chunk = [mapped |-> chunk.mapped, values |-> chunk.values, rows |-> chunk.rows]
    BY <1>6
  <2> QED BY <1>1, <1>2, <1>3, <1>5, <2>1, <2>2 DEF WholeChunk
<1> QED BY <1>5, <1>6, <1>7, ChunkShows

(* The cells of a column: of more rows, and of the rows taken of a batch.  *)
ColumnCells(rows, k) == [j \in DOMAIN rows |-> rows[j][k]]

LEMMA CellsTyped ==
  ASSUME NEW rows \in Seq(RowSet), NEW k \in DOMAIN Schema
  PROVE  /\ ColumnCells(rows, k) \in Seq(Cells) /\ Len(ColumnCells(rows, k)) = Len(rows)
         /\ Len(rows) \in Nat
         /\ \A j \in 1..Len(rows) : ColumnCells(rows, k)[j] = rows[j][k]
<1>1. Len(rows) \in Nat /\ DOMAIN rows = 1..Len(rows) /\ \A j \in 1..Len(rows) : rows[j] \in RowSet
  BY LenProperties, ElementOfSeq
<1>2. \A row \in RowSet : row[k] \in Cells
  BY DEF RowSet, Cells
<1>3. ColumnCells(rows, k) = [j \in 1..Len(rows) |-> rows[j][k]]
  BY <1>1 DEF ColumnCells
<1> HIDE DEF Cells
<1> QED BY <1>1, <1>2, <1>3

LEMMA CellsJoin ==
  ASSUME NEW rows \in Seq(RowSet), NEW more \in Seq(RowSet), NEW k \in DOMAIN Schema
  PROVE  ColumnCells(rows \o more, k) = ColumnCells(rows, k) \o ColumnCells(more, k)
<1>1. PICK both : both = rows \o more
  OBVIOUS
<1>2. /\ both \in Seq(RowSet) /\ Len(rows) \in Nat /\ Len(more) \in Nat
      /\ Len(both) = Len(rows) + Len(more)
      /\ \A i \in 1..(Len(rows) + Len(more)) :
           both[i] = IF i <= Len(rows) THEN rows[i] ELSE more[i - Len(rows)]
  BY <1>1, ConcatProperties, LenProperties
<1>3. PICK s \in Seq(Cells) : s = ColumnCells(rows, k)
  BY CellsTyped
<1>4. PICK t \in Seq(Cells) : t = ColumnCells(more, k)
  BY CellsTyped
<1>5. PICK u \in Seq(Cells) : u = ColumnCells(both, k)
  BY <1>2, CellsTyped
<1>6. /\ Len(s) = Len(rows) /\ \A j \in 1..Len(rows) : s[j] = rows[j][k]
      /\ Len(t) = Len(more) /\ \A j \in 1..Len(more) : t[j] = more[j][k]
      /\ Len(u) = Len(both) /\ \A j \in 1..Len(both) : u[j] = both[j][k]
  BY <1>2, <1>3, <1>4, <1>5, CellsTyped
<1>7. PICK st \in Seq(Cells) : st = s \o t
  BY ConcatProperties
<1>8. /\ Len(st) = Len(rows) + Len(more)
      /\ \A i \in 1..(Len(rows) + Len(more)) :
           st[i] = IF i <= Len(rows) THEN s[i] ELSE t[i - Len(rows)]
  <2>1. /\ Len(st) = Len(s) + Len(t)
        /\ \A i \in 1..(Len(s) + Len(t)) : st[i] = IF i <= Len(s) THEN s[i] ELSE t[i - Len(s)]
    BY <1>7, ConcatProperties
  <2> QED BY <1>6, <2>1
<1>9. ASSUME NEW i \in 1..(Len(rows) + Len(more)) PROVE u[i] = st[i]
  <2>1. i \in 1..Len(both)
    BY <1>2
  <2>2. u[i] = both[i][k]
    BY <1>6, <2>1
  <2>3. CASE i <= Len(rows)
    <3>1. i \in 1..Len(rows) /\ both[i] = rows[i] /\ st[i] = s[i]
      BY <1>2, <1>8, <2>3
    <3> QED BY <1>6, <2>2, <3>1
  <2>4. CASE i > Len(rows)
    <3>1. i - Len(rows) \in 1..Len(more) /\ ~ (i <= Len(rows))
      BY <1>2, <2>4
    <3>2. both[i] = more[i - Len(rows)] /\ st[i] = t[i - Len(rows)]
      BY <1>2, <1>8, <3>1
    <3> QED BY <1>6, <2>2, <3>1, <3>2
  <2> QED BY <1>2, <2>3, <2>4
<1>10. u = st
  BY <1>2, <1>6, <1>8, <1>9, SeqEqual
<1> QED BY <1>1, <1>3, <1>4, <1>5, <1>7, <1>10

LEMMA RowsTaken ==
  ASSUME NEW b, TableBatch(b), NEW indices \in Seq(0..(b.rows - 1))
  PROVE  /\ TakeValues(RowsOf(b), indices) \in Seq(RowSet)
         /\ Len(TakeValues(RowsOf(b), indices)) = Len(indices)
         /\ \A k \in DOMAIN Schema :
              /\ TakeValues(Grid(b)[k], indices) = ColumnCells(TakeValues(RowsOf(b), indices), k)
              /\ TakeValues(Grid(b)[k], indices) \in Seq(Cells)
              /\ Grid(b)[k] \in Seq(Cells) /\ Len(Grid(b)[k]) = b.rows /\ b.rows \in Nat
<1>1. /\ b.rows \in Nat /\ RowsOf(b) \in Seq(RowSet) /\ Len(RowsOf(b)) = b.rows
      /\ \A row \in 1..b.rows : /\ RowsOf(b)[row] = [k \in DOMAIN Schema |-> Grid(b)[k][row]]
                                /\ RowsOf(b)[row] \in RowSet
  BY RowsTyped, ElementOfSeq
<1>2. Len(indices) \in Nat /\ DOMAIN indices = 1..Len(indices)
  BY LenProperties
<1>3. \A j \in 1..Len(indices) : indices[j] + 1 \in 1..b.rows
  <2> TAKE j \in 1..Len(indices)
  <2>1. indices[j] \in 0..(b.rows - 1)
    BY ElementOfSeq
  <2> QED BY <1>1, <2>1
<1>4. PICK taken : taken = TakeValues(RowsOf(b), indices)
  OBVIOUS
<1>5. taken = [j \in 1..Len(indices) |-> RowsOf(b)[indices[j] + 1]]
  BY <1>2, <1>4 DEF TakeValues, ValueOf
<1>6. \A j \in 1..Len(indices) : taken[j] = RowsOf(b)[indices[j] + 1] /\ taken[j] \in RowSet
  BY <1>1, <1>3, <1>5
<1>7. taken \in Seq(RowSet) /\ Len(taken) = Len(indices)
  BY <1>2, <1>5, <1>6
<1>8. ASSUME NEW k \in DOMAIN Schema
      PROVE  TakeValues(Grid(b)[k], indices) = ColumnCells(taken, k)
  <2>1. TakeValues(Grid(b)[k], indices) = [j \in 1..Len(indices) |-> Grid(b)[k][indices[j] + 1]]
    BY <1>2 DEF TakeValues, ValueOf
  <2>2. ColumnCells(taken, k) = [j \in 1..Len(indices) |-> taken[j][k]]
    BY <1>5 DEF ColumnCells
  <2>3. ASSUME NEW j \in 1..Len(indices) PROVE taken[j][k] = Grid(b)[k][indices[j] + 1]
    <3>1. PICK row \in 1..b.rows : row = indices[j] + 1
      BY <1>3
    <3>2. taken[j] = RowsOf(b)[row]
      BY <1>6, <3>1
    <3>3. RowsOf(b)[row] = [i \in DOMAIN Schema |-> Grid(b)[i][row]]
      BY <1>1
    <3> QED BY <3>1, <3>2, <3>3
  <2> QED BY <2>1, <2>2, <2>3
<1>9. ASSUME NEW k \in DOMAIN Schema PROVE Grid(b)[k] \in Seq(Cells) /\ Len(Grid(b)[k]) = b.rows
  <2>1. Grid(b)[k] \in [1..b.rows -> Cells]
    <3>1. Grid(b)[k] \in [1..b.rows -> CellsOf(Schema[k].dtype)]
      BY DEF TableBatch, IsGrid
    <3>2. CellsOf(Schema[k].dtype) \subseteq Cells
      BY SchemaTypes DEF Cells
    <3> QED BY <3>1, <3>2
  <2>2. PICK n \in Nat : n = b.rows
    BY <1>1
  <2>3. PICK cells \in [1..n -> Cells] : cells = Grid(b)[k]
    BY <2>1, <2>2
  <2>4. cells \in Seq(Cells) /\ Len(cells) = n
    OBVIOUS
  <2> QED BY <2>2, <2>3, <2>4
<1> QED BY <1>1, <1>4, <1>7, <1>8, <1>9, CellsTyped

-----------------------------------------------------------------------------
(* The fold of a scan over the segments, likewise.                         *)
Scanned(start, end, s) ==
  FoldLeft(LAMBDA result, segment : AddSegment(result, segment, start, end), EmptyScan(Schema), s)

ScanOn(g, start, end, base, s, n) ==
  g = [x \in SUBSET (1..n) |-> IF x = {} THEN base ELSE AddSegment(g[x \ {Max(x)}], s[Max(x)], start, end)]

LEMMA ScanExists ==
  ASSUME NEW start, NEW end, NEW base, NEW s, NEW n \in Nat
  PROVE  \E g : ScanOn(g, start, end, base, s, n)
<1> DEFINE P(k) == \E g : ScanOn(g, start, end, base, s, k)
           S == {k \in Nat : P(k)}
<1>1. P(0)
  <2> DEFINE g == [x \in SUBSET (1..0) |-> base]
  <2>1. \A x \in SUBSET (1..0) : x = {}
    OBVIOUS
  <2>2. ScanOn(g, start, end, base, s, 0)
    BY <2>1 DEF ScanOn
  <2> QED BY <2>2
<1>2. ASSUME NEW k \in Nat, P(k) PROVE P(k + 1)
  <2>1. PICK g : ScanOn(g, start, end, base, s, k)
    BY <1>2
  <2> DEFINE h == [x \in SUBSET (1..(k + 1)) |->
                     IF k + 1 \in x THEN AddSegment(g[x \ {k + 1}], s[k + 1], start, end) ELSE g[x]]
  <2>2. ASSUME NEW x \in SUBSET (1..(k + 1))
        PROVE  h[x] = IF x = {} THEN base ELSE AddSegment(h[x \ {Max(x)}], s[Max(x)], start, end)
    <3>1. CASE k + 1 \in x
      <4>1. Max(x) = k + 1 /\ x \ {k + 1} \in SUBSET (1..k) /\ x # {}
        BY <3>1, LastIsMax
      <4>2. x \ {k + 1} \in SUBSET (1..(k + 1)) /\ k + 1 \notin x \ {k + 1}
        BY <4>1
      <4>3. h[x \ {k + 1}] = g[x \ {k + 1}]
        BY <4>2
      <4>4. h[x] = AddSegment(g[x \ {k + 1}], s[k + 1], start, end)
        BY <3>1
      <4> QED BY <4>1, <4>3, <4>4
    <3>2. CASE k + 1 \notin x
      <4>1. x \in SUBSET (1..k)
        BY <3>2, MaxBelow
      <4>2. x \ {Max(x)} \in SUBSET (1..(k + 1)) /\ k + 1 \notin x \ {Max(x)}
        BY <3>2
      <4>3. h[x] = g[x] /\ h[x \ {Max(x)}] = g[x \ {Max(x)}]
        BY <3>2, <4>2
      <4> HIDE DEF h
      <4>4. g[x] = IF x = {} THEN base ELSE AddSegment(g[x \ {Max(x)}], s[Max(x)], start, end)
        BY <2>1, <4>1 DEF ScanOn
      <4> QED BY <4>3, <4>4
    <3> QED BY <3>1, <3>2
  <2>3. ScanOn(h, start, end, base, s, k + 1)
    BY <2>2 DEF ScanOn
  <2> HIDE DEF h
  <2> QED BY <2>3
<1> HIDE DEF P
<1>3. 0 \in S /\ \A k \in Nat : k \in S => k + 1 \in S
  BY <1>1, <1>2
<1>4. n \in S
  BY <1>3, EveryNat
<1>5. P(n)
  BY <1>4
<1> QED BY <1>5 DEF P

ScanRun(a, start, end, s) ==
  /\ a[0] = EmptyScan(Schema)
  /\ \A k \in 0..(Len(s) - 1) : a[k + 1] = AddSegment(a[k], s[k + 1], start, end)
  /\ Scanned(start, end, s) = a[Len(s)]

LEMMA ScanSteps ==
  ASSUME NEW start, NEW end, NEW R, NEW s \in Seq(R)
  PROVE  \E a : ScanRun(a, start, end, s)
<1> DEFINE n == Len(s)
           empty == EmptyScan(Schema)
           g == CHOOSE g : ScanOn(g, start, end, empty, s, n)
           a == [k \in 0..n |-> g[1..k]]
<1>1. n \in Nat /\ DOMAIN s = 1..n
  BY LenProperties
<1>2. Scanned(start, end, s) = g[1..n]
  BY <1>1 DEF Scanned, FoldLeft, MapThenFoldSet, ScanOn
<1> HIDE DEF empty, n
<1>3. \E h : ScanOn(h, start, end, empty, s, n)
  BY <1>1, ScanExists
<1>4. ScanOn(g, start, end, empty, s, n)
  BY <1>3
<1> HIDE DEF g
<1>5. a[0] = empty
  BY <1>1, <1>4 DEF ScanOn
<1>6. ASSUME NEW k \in 0..(n - 1) PROVE a[k + 1] = AddSegment(a[k], s[k + 1], start, end)
  <2>1. k \in Nat /\ k + 1 \in 0..n /\ k \in 0..n
    BY <1>1
  <2>2. 1..(k + 1) \in SUBSET (1..n) /\ k + 1 \in 1..(k + 1) /\ 1..k = (1..(k + 1)) \ {k + 1}
    BY <1>1, <2>1
  <2>3. Max(1..(k + 1)) = k + 1
    BY <2>1, <2>2, LastIsMax
  <2>4. g[1..(k + 1)] = AddSegment(g[1..k], s[k + 1], start, end)
    BY <1>4, <2>2, <2>3 DEF ScanOn
  <2> QED BY <2>1, <2>4
<1>7. Scanned(start, end, s) = a[n]
  BY <1>1, <1>2
<1>8. ScanRun(a, start, end, s)
  <2> HIDE DEF a
  <2> QED BY <1>5, <1>6, <1>7 DEF empty, n, ScanRun
<1> QED BY <1>8

LEMMA ScannedNone == \A start, end : Scanned(start, end, <<>>) = EmptyScan(Schema)
<1> TAKE start, end
<1>1. PICK s \in Seq({}) : s = <<>>
  BY EmptySeq
<1>2. PICK a : a[0] = EmptyScan(Schema) /\ Scanned(start, end, s) = a[Len(s)]
  BY ScanSteps DEF ScanRun
<1>3. Len(s) = 0
  BY <1>1, EmptySeq
<1> QED BY <1>1, <1>2, <1>3

LEMMA ScannedNext ==
  ASSUME NEW R, NEW s \in Seq(R), NEW x \in R, NEW start, NEW end
  PROVE  Scanned(start, end, Append(s, x)) = AddSegment(Scanned(start, end, s), x, start, end)
<1> DEFINE n == Len(s)
<1>1. n \in Nat
  BY LenProperties
<1>2. PICK longer \in Seq(R) : longer = Append(s, x)
  BY AppendProperties
<1>3. /\ Len(longer) = n + 1
      /\ \A k \in 1..n : longer[k] = s[k]
      /\ longer[n + 1] = x
  BY <1>2, AppendProperties
<1>4. PICK a : ScanRun(a, start, end, s)
  BY ScanSteps
<1>5. PICK b : ScanRun(b, start, end, longer)
  BY ScanSteps
<1> HIDE DEF n
<1> DEFINE S == {k \in Nat : k <= n => a[k] = b[k]}
<1>6. 0 \in S
  BY <1>4, <1>5 DEF ScanRun
<1>7. ASSUME NEW k \in Nat, k \in S PROVE k + 1 \in S
  <2>1. CASE k + 1 <= n
    <3>1. k \in 0..(n - 1) /\ k \in 0..(Len(longer) - 1) /\ k + 1 \in 1..n /\ k <= n
      BY <1>1, <1>3, <2>1
    <3>2. a[k] = b[k]
      BY <1>7, <3>1
    <3>3. /\ a[k + 1] = AddSegment(a[k], s[k + 1], start, end)
          /\ b[k + 1] = AddSegment(b[k], longer[k + 1], start, end)
      BY <1>4, <1>5, <3>1 DEF ScanRun, n
    <3> QED BY <1>3, <3>1, <3>2, <3>3
  <2> QED BY <2>1
<1> HIDE DEF S
<1>8. n \in S
  BY <1>1, <1>6, <1>7, EveryNat
<1>9. a[n] = b[n]
  BY <1>1, <1>8 DEF S
<1>10. n \in 0..(Len(longer) - 1)
  BY <1>1, <1>3
<1> QED BY <1>2, <1>3, <1>4, <1>5, <1>9, <1>10 DEF n, ScanRun

LEMMA ScanColumnFields ==
  ASSUME NEW name, NEW dtype, NEW chunks
  PROVE  /\ ScanColumn(name, dtype, chunks).name = name
         /\ ScanColumn(name, dtype, chunks).dtype = dtype
         /\ ScanColumn(name, dtype, chunks).chunks = chunks
  BY DEF ScanColumn

(* A result that holds these rows, in every column.                        *)
ScanOf(result, rows) ==
  /\ rows \in Seq(RowSet)
  /\ result = [err |-> NoError, rows |-> Len(rows), columns |-> result.columns]
  /\ result.columns = [k \in DOMAIN Schema |->
       ScanColumn(Schema[k].name, Schema[k].dtype, result.columns[k].chunks)]
  /\ \A k \in DOMAIN Schema :
       /\ IsChunks(result.columns[k].chunks)
       /\ Flatten(result.columns[k].chunks) = ColumnCells(rows, k)

LEMMA EmptyScanOf == ScanOf(EmptyScan(Schema), <<>>)
<1>1. <<>> \in Seq(RowSet) /\ Len(<<>>) = 0
  BY EmptySeq
<1>2. \A k \in DOMAIN Schema : ColumnCells(<<>>, k) = <<>>
  BY DEF ColumnCells
<1>3. PICK result : result = EmptyScan(Schema)
  OBVIOUS
<1>4. \A k \in DOMAIN Schema :
        result.columns[k] = ScanColumn(Schema[k].name, Schema[k].dtype, <<>>)
  BY <1>3 DEF EmptyScan
<1>5. \A k \in DOMAIN Schema : result.columns[k].chunks = <<>>
  BY <1>4, ScanColumnFields
<1>6. result = [err |-> NoError, rows |-> 0, columns |-> result.columns]
  BY <1>3 DEF EmptyScan
<1>7. result.columns = [k \in DOMAIN Schema |->
        ScanColumn(Schema[k].name, Schema[k].dtype, result.columns[k].chunks)]
  <2>1. result.columns = [k \in DOMAIN Schema |-> ScanColumn(Schema[k].name, Schema[k].dtype, <<>>)]
    BY <1>3 DEF EmptyScan
  <2> QED BY <1>5, <2>1
<1>8. ScanOf(result, <<>>)
  BY <1>1, <1>2, <1>5, <1>6, <1>7, FlattenNoChunk DEF ScanOf
<1> QED BY <1>3, <1>8

(* The columns of more rows, a chunk for each, fit.                        *)
ColumnsOf(chunks) ==
  [k \in DOMAIN Schema |-> ScanColumn(Schema[k].name, Schema[k].dtype, <<chunks[k]>>)]

LEMMA AppendsColumns ==
  ASSUME NEW result, NEW rows, ScanOf(result, rows), NEW more \in Seq(RowSet), NEW chunks,
         \A k \in DOMAIN Schema :
           WholeChunk(chunks[k]) /\ ChunkValues(chunks[k]) = ColumnCells(more, k),
         NEW longer, longer = AppendColumns(result, ColumnsOf(chunks), Len(more))
  PROVE  /\ ScanOf(longer, rows \o more)
         /\ \A k \in DOMAIN Schema :
              longer.columns[k].chunks = Append(result.columns[k].chunks, chunks[k])
<1>1. /\ rows \in Seq(RowSet)
      /\ result = [err |-> NoError, rows |-> Len(rows), columns |-> result.columns]
      /\ \A k \in DOMAIN Schema :
           /\ IsChunks(result.columns[k].chunks)
           /\ Flatten(result.columns[k].chunks) = ColumnCells(rows, k)
  BY DEF ScanOf
<1> DEFINE old(k) == result.columns[k].chunks
<1>2. /\ DOMAIN result.columns = DOMAIN Schema
      /\ \A k \in DOMAIN Schema :
           result.columns[k] = ScanColumn(Schema[k].name, Schema[k].dtype, old(k))
  BY DEF ScanOf
<1>3. N \in Nat /\ DOMAIN Schema = 1..N
  BY SchemaIsSeq
<1>4. Len(result.columns) = N /\ Len(ColumnsOf(chunks)) = N
  <2>1. result.columns = [k \in 1..N |-> ScanColumn(Schema[k].name, Schema[k].dtype, old(k))]
    BY <1>3 DEF ScanOf
  <2>2. ColumnsOf(chunks) =
          [k \in 1..N |-> ScanColumn(Schema[k].name, Schema[k].dtype, <<chunks[k]>>)]
    BY <1>3 DEF ColumnsOf
  <2> HIDE DEF old
  <2> QED BY <1>3, <2>1, <2>2
<1>5. ASSUME NEW k \in DOMAIN Schema
      PROVE  /\ ColumnsOf(chunks)[k].name = result.columns[k].name
             /\ ColumnsOf(chunks)[k].dtype = result.columns[k].dtype
             /\ ColumnsOf(chunks)[k].chunks = <<chunks[k]>>
  <2>1. ColumnsOf(chunks)[k] = ScanColumn(Schema[k].name, Schema[k].dtype, <<chunks[k]>>)
    BY DEF ColumnsOf
  <2> HIDE DEF old
  <2> QED BY <1>2, <2>1, ScanColumnFields
<1> DEFINE columns == [k \in DOMAIN Schema |->
                         [result.columns[k] EXCEPT !.chunks = @ \o ColumnsOf(chunks)[k].chunks]]
<1>6. longer = [err |-> NoError, rows |-> Len(rows) + Len(more), columns |-> columns]
  <2>1. result.err = NoError /\ ~ (Len(ColumnsOf(chunks)) < Len(result.columns))
    BY <1>1, <1>3, <1>4
  <2>2. longer = [result EXCEPT !.rows = @ + Len(more), !.columns = WithChunks(@, ColumnsOf(chunks))]
    BY <1>2, <1>5, <2>1 DEF AppendColumns
  <2>3. PICK err, n, m, all, new : /\ err = NoError /\ n = Len(rows) /\ m = Len(more)
                                  /\ all = result.columns /\ new = ColumnsOf(chunks)
    OBVIOUS
  <2>4. result = [err |-> err, rows |-> n, columns |-> all]
    BY <1>1, <2>3
  <2>5. PICK sum, wider : sum = n + m /\ wider = WithChunks(all, new)
    OBVIOUS
  <2>6. longer = [result EXCEPT !.rows = sum, !.columns = wider]
    <3>1. result.rows = n /\ result.columns = all
      BY ONLY <2>4
    <3>2. result.rows + Len(more) = sum /\ WithChunks(result.columns, ColumnsOf(chunks)) = wider
      BY ONLY <2>3, <2>5, <3>1
    <3> QED BY ONLY <2>2, <3>2
  <2>7. longer = [err |-> err, rows |-> sum, columns |-> wider]
    <3>1. longer = [[err |-> err, rows |-> n, columns |-> all] EXCEPT !.rows = sum, !.columns = wider]
      BY ONLY <2>4, <2>6
    <3> QED BY ONLY <3>1
  <2>8. wider = columns
    <3>1. wider = [k \in DOMAIN Schema |-> [all[k] EXCEPT !.chunks = @ \o new[k].chunks]]
      BY <1>2, <2>3, <2>5 DEF WithChunks
    <3> QED BY <2>3, <3>1
  <2> QED BY <2>3, <2>5, <2>7, <2>8
<1>7. ASSUME NEW k \in DOMAIN Schema
      PROVE  columns[k] = ScanColumn(Schema[k].name, Schema[k].dtype, Append(old(k), chunks[k]))
  <2>1. old(k) \in Seq(ToSet(old(k)))
    BY <1>1 DEF IsChunks
  <2>2. PICK R : R = ToSet(old(k)) \cup {chunks[k]}
    OBVIOUS
  <2>3. PICK s \in Seq(R) : s = old(k)
    BY <2>1, <2>2, SeqMonotonic
  <2>4. PICK chunk \in R : chunk = chunks[k]
    BY <2>2
  <2>5. Append(s, chunk) = s \o <<chunk>>
    BY AppendIsConcat
  <2>6. columns[k] = [result.columns[k] EXCEPT !.chunks = @ \o <<chunks[k]>>]
    BY <1>5
  <2>7. columns[k] = ScanColumn(Schema[k].name, Schema[k].dtype, old(k) \o <<chunks[k]>>)
    <3>1. PICK name, dtype, given, column, one :
            /\ name = Schema[k].name /\ dtype = Schema[k].dtype /\ given = old(k)
            /\ column = result.columns[k] /\ one = <<chunks[k]>>
      OBVIOUS
    <3>2. column = ScanColumn(name, dtype, given)
      BY <1>2, <3>1
    <3>3. [ScanColumn(name, dtype, given) EXCEPT !.chunks = @ \o one] =
            ScanColumn(name, dtype, given \o one)
      <4>1. PICK new : new = given \o one
        OBVIOUS
      <4>2. [ScanColumn(name, dtype, given) EXCEPT !.chunks = new] = ScanColumn(name, dtype, new)
        BY DEF ScanColumn
      <4>3. ScanColumn(name, dtype, given).chunks = given
        BY ScanColumnFields
      <4> QED BY <4>1, <4>2, <4>3
    <3> HIDE DEF old, columns
    <3> QED BY <2>6, <3>1, <3>2, <3>3
  <2> QED BY <2>3, <2>4, <2>5, <2>7
<1> HIDE DEF columns, old
<1>8. ASSUME NEW k \in DOMAIN Schema
      PROVE  /\ longer.columns[k].chunks = Append(old(k), chunks[k])
             /\ IsChunks(longer.columns[k].chunks)
             /\ Flatten(longer.columns[k].chunks) = ColumnCells(rows \o more, k)
  <2>1. longer.columns[k].chunks = Append(old(k), chunks[k])
    <3>1. longer.columns = columns
      BY <1>6
    <3>2. PICK name, dtype, given : /\ name = Schema[k].name /\ dtype = Schema[k].dtype
                                    /\ given = Append(old(k), chunks[k])
      OBVIOUS
    <3>3. longer.columns[k] = ScanColumn(name, dtype, given)
      BY <1>7, <3>1, <3>2
    <3>4. ScanColumn(name, dtype, given).chunks = given
      BY ScanColumnFields
    <3> QED BY <3>2, <3>3, <3>4
  <2>2. PICK s, chunk : s = old(k) /\ chunk = chunks[k]
    OBVIOUS
  <2>3. IsChunks(s) /\ WholeChunk(chunk)
    BY <1>1, <2>2 DEF old
  <2>4. /\ IsChunks(Append(s, chunk))
        /\ Flatten(Append(s, chunk)) = Flatten(s) \o ChunkValues(chunk)
    BY <2>3, FlattenChunk
  <2>5. Flatten(s) = ColumnCells(rows, k) /\ ChunkValues(chunk) = ColumnCells(more, k)
    BY <1>1, <2>2 DEF old
  <2>6. ColumnCells(rows \o more, k) = ColumnCells(rows, k) \o ColumnCells(more, k)
    BY <1>1, CellsJoin
  <2> QED BY <2>1, <2>2, <2>4, <2>5, <2>6
<1>9. rows \o more \in Seq(RowSet) /\ Len(rows \o more) = Len(rows) + Len(more)
  BY <1>1, ConcatProperties
<1>10. longer.columns = [k \in DOMAIN Schema |->
         ScanColumn(Schema[k].name, Schema[k].dtype, longer.columns[k].chunks)]
  <2>1. longer.columns = columns
    BY <1>6
  <2>2. \A k \in DOMAIN Schema :
          columns[k] = ScanColumn(Schema[k].name, Schema[k].dtype, longer.columns[k].chunks)
    BY <1>7, <1>8
  <2>3. columns = [k \in DOMAIN Schema |-> columns[k]]
    BY DEF columns
  <2> QED BY <2>1, <2>2, <2>3
<1>11. longer = [err |-> NoError, rows |-> Len(rows \o more), columns |-> longer.columns]
  BY <1>6, <1>9
<1> QED BY <1>8, <1>9, <1>10, <1>11 DEF ScanOf, old

-----------------------------------------------------------------------------
(* A segment is mapped without an error: the metadata is the schema, the   *)
(* files are as long as they should be, and not empty.                     *)
LEMMA MapsSegment ==
  ASSUME NEW x, IsSegment(x), NEW k \in DOMAIN Schema
  PROVE  /\ MapError(x, Schema[k].name, Schema[k].dtype) = NoError
         /\ MapColumn(x, Schema[k].name, Schema[k].dtype).values = Grid(Data(x))[k]
         /\ x.rows = Data(x).rows
<1>1. PICK b, file : b = Data(x) /\ file = x.files[k]
  OBVIOUS
<1>2. TableBatch(b) /\ b.rows # 0 /\ x = Seal(Schema, x.id, b)
  BY <1>1 DEF IsSegment
<1>3. PICK bytes, values : bytes = b.rows * Width(Schema[k].dtype) /\ values = Grid(b)[k]
  OBVIOUS
<1>4. /\ x.rows = b.rows /\ x.columns = Schema
      /\ file = [bytes |-> bytes, values |-> values]
      /\ File(x, Schema[k].name) = file
  <2>1. PICK s : s = Seal(Schema, x.id, b)
    OBVIOUS
  <2>2. /\ s.rows = b.rows /\ s.columns = Schema
        /\ s.files[k] = [bytes |-> b.rows * Width(Schema[k].dtype), values |-> Grid(b)[k]]
        /\ File(s, Schema[k].name) = s.files[k]
    BY <1>2, <2>1, SealedFiles
  <2> QED BY <1>1, <1>2, <1>3, <2>1, <2>2
<1>5. file.bytes = bytes /\ file.values = values
  BY <1>4
<1>6. bytes # 0
  <2>1. b.rows \in Nat /\ b.rows # 0
    BY <1>2 DEF TableBatch, IsGrid
  <2>2. Schema[k].dtype \in DTypes /\ Schema[k].dtype # DType("FixedStr", 0)
    <3>1. k \in 1..Len(Schema)
      BY SchemaAssumption, SchemaFacts
    <3> QED BY <3>1, SchemaTypes, SchemaAssumption, SchemaFacts
  <2>3. Width(Schema[k].dtype) \in Nat /\ Width(Schema[k].dtype) # 0
    <3>1. PICK dtype \in DTypes : dtype = Schema[k].dtype
      BY <2>2
    <3>2. CASE dtype.kind = "FixedStr"
      <4>1. dtype.width \in Nat /\ dtype = [kind |-> "FixedStr", width |-> dtype.width]
        BY <3>2 DEF DTypes
      <4>2. dtype.width # 0
        BY <2>2, <3>1, <4>1 DEF DType
      <4> QED BY <3>1, <3>2, <4>1, <4>2 DEF Width
    <3>3. CASE dtype.kind # "FixedStr"
      BY <3>1, <3>3 DEF Width
    <3> QED BY <3>2, <3>3
  <2>4. PICK width \in Nat : width = Width(Schema[k].dtype) /\ width # 0
    BY <2>3
  <2>5. b.rows * width # 0
    BY <2>1, <2>4
  <2> QED BY <1>3, <2>4, <2>5
<1>7. MapError(x, Schema[k].name, Schema[k].dtype) = NoError
  <2>1. SelectInSeq(x.columns, LAMBDA c : c.name = Schema[k].name) = k
    BY <1>4, NamedAt
  <2>2. k # 0
    BY SchemaIsSeq
  <2>3. x.columns[k].dtype = Schema[k].dtype /\ x.files[k].bytes = x.rows * Width(Schema[k].dtype)
    BY <1>1, <1>3, <1>4, <1>5
  <2>4. x.files[k].bytes # 0
    BY <1>1, <1>5, <1>6
  <2> QED BY <2>1, <2>2, <2>3, <2>4 DEF MapError
<1>8. MapColumn(x, Schema[k].name, Schema[k].dtype).values = values
  <2>1. MapColumn(x, Schema[k].name, Schema[k].dtype).values = File(x, Schema[k].name).values
    BY DEF MapColumn
  <2> QED BY <1>4, <1>5, <2>1
<1> QED BY <1>1, <1>3, <1>4, <1>7, <1>8

(* No row of a segment that is left out is in the range.                   *)
LEMMA LeavesOut ==
  ASSUME NEW x, IsSegment(x), NEW start \in Nat, NEW end \in Nat, ~ Overlaps(x, start, end)
  PROVE  Kept(RowsOf(Data(x)), RangeRows(start, end)) = <<>>
<1>1. PICK b : b = Data(x)
  OBVIOUS
<1>2. TableBatch(b) /\ b.rows # 0 /\ x = Seal(Schema, x.id, b)
  BY <1>1 DEF IsSegment
<1>3. /\ Clock(b) \in Seq(Nat) /\ Len(Clock(b)) = b.rows /\ b.rows \in Nat
      /\ Clock(b) \in [1..b.rows -> Nat]
      /\ Column(b, TimestampColumn(Schema).name).values = Clock(b)
      /\ \A row \in 1..b.rows : RowsOf(b)[row][TimeIndex] = Clock(b)[row]
  BY <1>2, ClockTyped
<1>4. PICK times \in Seq(Nat) : times = Clock(b)
  BY <1>3
<1>5. x.min = Min(ToSet(times)) /\ x.max = Max(ToSet(times))
  <2>1. /\ Seal(Schema, x.id, b).min = Min(ToSet(times))
        /\ Seal(Schema, x.id, b).max = Max(ToSet(times))
    BY <1>3, <1>4 DEF Seal
  <2> QED BY <1>2, <2>1
<1>6. times # <<>>
  BY <1>2, <1>3, <1>4, EmptySeq
<1>7. /\ x.min \in Nat /\ x.max \in Nat
      /\ \A time \in ToSet(times) : x.min <= time /\ x.max >= time
  BY <1>5, <1>6, SpanOfSeq
<1>8. ~ (x.max >= start) \/ ~ (x.min < end)
  BY DEF Overlaps
<1>9. \A time \in ToSet(times) : time \in Nat /\ ~ (start <= time /\ time < end)
  <2>1. ToSet(times) \subseteq Nat
    BY OwnSet
  <2> QED BY <1>7, <1>8, <2>1
<1>10. /\ RowsOf(b) \in Seq(RowSet) /\ Len(RowsOf(b)) = b.rows
       /\ RowsOf(b) \in Seq(ToSet(RowsOf(b)))
  BY <1>2, RowsTyped, OwnSet
<1>11. \A row \in ToSet(RowsOf(b)) : row[TimeIndex] \in ToSet(times)
  <2>1. DOMAIN RowsOf(b) = 1..b.rows /\ DOMAIN times = 1..b.rows
    BY <1>3, <1>4, <1>10, LenProperties
  <2> QED BY <1>3, <1>4, <2>1 DEF ToSet
<1>12. PICK R, T : R = ToSet(RowsOf(b)) /\ T = RangeRows(start, end)
  OBVIOUS
<1>13. R \cap T = {}
  BY <1>9, <1>11, <1>12 DEF RangeRows
<1>14. PICK s \in Seq(R) : s = RowsOf(b)
  BY <1>10, <1>12
<1>15. Kept(s, T) = <<>>
  BY <1>13, KeptNothing
<1> QED BY <1>1, <1>12, <1>14, <1>15

(* A scan that comes to a segment adds its rows of the range.              *)
Timely(x) == IsSegment(x) /\ \A row \in 1..Data(x).rows : Clock(Data(x))[row] >= I64Min

LEMMA AddsSegment ==
  ASSUME NEW x, Timely(x), NEW start \in Nat, NEW end \in Nat,
         NEW result, NEW rows, ScanOf(result, rows)
  PROVE  ScanOf(AddSegment(result, x, start, end),
                rows \o Kept(RowsOf(Data(x)), RangeRows(start, end)))
<1>1. PICK b : b = Data(x)
  OBVIOUS
<1>2. /\ IsSegment(x) /\ TableBatch(b) /\ b.rows \in Nat
      /\ \A row \in 1..b.rows : Clock(b)[row] >= I64Min
  BY <1>1 DEF Timely, IsSegment, TableBatch, IsGrid
<1>3. result.err = NoError /\ rows \in Seq(RowSet)
  BY DEF ScanOf
<1>4. PICK indices \in Seq(0..(b.rows - 1)) : indices = RangeI64(Clock(b), start, end)
  BY <1>2, RangeSelects
<1>5. PICK more : more = Kept(RowsOf(b), RangeRows(start, end))
  OBVIOUS
<1>6. more = TakeValues(RowsOf(b), indices)
  BY <1>2, <1>4, <1>5, RangeSelects
<1>7. /\ more \in Seq(RowSet) /\ Len(more) = Len(indices)
      /\ \A k \in DOMAIN Schema :
           /\ TakeValues(Grid(b)[k], indices) = ColumnCells(more, k)
           /\ Grid(b)[k] \in Seq(Cells) /\ Len(Grid(b)[k]) = b.rows
  BY <1>2, <1>6, RowsTaken
<1> DEFINE time == TimestampColumn(Schema)
           mapped(column) == MapColumn(x, column.name, column.dtype)
           error(column) == MapError(x, column.name, column.dtype)
           selection == FromIndices(RangeI64(mapped(time).values, start, end), x.rows)
           chunks == [k \in DOMAIN Schema |-> Mapped(mapped(Schema[k]), selection)]
           columns == [k \in DOMAIN Schema |->
             ScanColumn(Schema[k].name, Schema[k].dtype, <<Mapped(mapped(Schema[k]), selection)>>)]
<1>8. /\ x.rows = b.rows
      /\ \A k \in DOMAIN Schema : error(Schema[k]) = NoError /\ mapped(Schema[k]).values = Grid(b)[k]
  <2>1. ASSUME NEW k \in DOMAIN Schema
        PROVE  /\ x.rows = b.rows
               /\ error(Schema[k]) = NoError /\ mapped(Schema[k]).values = Grid(b)[k]
    BY <1>1, <1>2, MapsSegment
  <2> QED BY <2>1, TimeColumn
<1>9. error(time) = NoError /\ mapped(time).values = Clock(b)
  BY <1>8, TimeColumn DEF Clock
<1>10. selection = FromIndices(indices, b.rows) /\ selection.len = Len(more)
  <2>1. selection = FromIndices(indices, b.rows)
    BY <1>4, <1>8, <1>9
  <2>2. indices \in Seq(Nat)
    BY <1>2, SeqMonotonic
  <2> HIDE DEF selection
  <2> QED BY <1>2, <1>7, <2>1, <2>2, SelectionOf
<1>11. AddSegment(result, x, start, end) =
         IF ~ Overlaps(x, start, end) THEN result
         ELSE IF selection.len = 0 THEN result
         ELSE AppendColumns(result, columns, selection.len)
  <2> HIDE DEF mapped, selection, columns
  <2>1. ~ \E k \in DOMAIN Schema : error(Schema[k]) # NoError
    BY <1>8
  <2> HIDE DEF error
  <2>2. AddSegment(result, x, start, end) =
          IF result.err # NoError \/ ~ Overlaps(x, start, end) THEN result
          ELSE IF error(time) # NoError THEN Failed(error(time))
          ELSE IF selection.len = 0 THEN result
          ELSE IF \E k \in DOMAIN Schema : error(Schema[k]) # NoError THEN Failed("map")
          ELSE AppendColumns(result, columns, selection.len)
    BY DEF AddSegment, error, mapped, selection, columns
  <2> HIDE DEF time
  <2> QED BY <1>3, <1>9, <2>1, <2>2
<1>12. columns = ColumnsOf(chunks)
  BY DEF ColumnsOf
<1>13. \A k \in DOMAIN Schema :
         WholeChunk(chunks[k]) /\ ChunkValues(chunks[k]) = ColumnCells(more, k)
  <2> TAKE k \in DOMAIN Schema
  <2>1. PICK column, values : column = mapped(Schema[k]) /\ values = Grid(b)[k]
    OBVIOUS
  <2>2. column.values = values /\ values \in Seq(Cells) /\ Len(values) = b.rows
    BY <1>7, <1>8, <2>1
  <2>3. chunks[k] = Mapped(column, selection)
    BY <2>1
  <2> HIDE DEF selection, chunks, mapped
  <2>4. /\ WholeChunk(Mapped(column, selection))
        /\ ChunkValues(Mapped(column, selection)) = TakeValues(values, indices)
    BY <1>10, <2>2, MappedWhole
  <2> QED BY <1>7, <2>1, <2>3, <2>4
<1> HIDE DEF selection, chunks, columns
<1>14. CASE ~ Overlaps(x, start, end)
  <2>1. more = <<>>
    BY <1>1, <1>2, <1>5, <1>14, LeavesOut
  <2>2. rows \o <<>> = rows
    BY <1>3, ConcatEmptySeq
  <2> QED BY <1>1, <1>5, <1>11, <1>14, <2>1, <2>2
<1>15. CASE Overlaps(x, start, end) /\ selection.len = 0
  <2>1. more = <<>>
    BY <1>7, <1>10, <1>15, EmptySeq
  <2>2. rows \o <<>> = rows
    BY <1>3, ConcatEmptySeq
  <2> QED BY <1>1, <1>5, <1>11, <1>15, <2>1, <2>2
<1>16. CASE Overlaps(x, start, end) /\ selection.len # 0
  <2>1. PICK longer : longer = AddSegment(result, x, start, end)
    OBVIOUS
  <2>2. longer = AppendColumns(result, ColumnsOf(chunks), Len(more))
    BY <1>10, <1>11, <1>12, <1>16, <2>1
  <2>3. ScanOf(longer, rows \o more)
    BY <1>7, <1>13, <2>2, AppendsColumns
  <2> QED BY <1>1, <1>5, <2>1, <2>3
<1> QED BY <1>14, <1>15, <1>16

LEMMA ScannedRows ==
  ASSUME NEW R, \A x \in R : Timely(x), NEW start \in Nat, NEW end \in Nat
  PROVE  \A s \in Seq(R) :
           ScanOf(Scanned(start, end, s), Kept(StoredRows(s), RangeRows(start, end)))
<1> DEFINE T == RangeRows(start, end)
           P(s) == ScanOf(Scanned(start, end, s), Kept(StoredRows(s), T))
           S == {s \in Seq(R) : P(s)}
<1> HIDE DEF T
<1>1. <<>> \in S
  <2>1. /\ Scanned(start, end, <<>>) = EmptyScan(Schema)
        /\ StoredRows(<<>>) = <<>> /\ Kept(<<>>, T) = <<>>
    BY ScannedNone, StoredNone, KeptNone
  <2>2. P(<<>>)
    BY <2>1, EmptyScanOf
  <2> QED BY <2>2, EmptySeq
<1>2. ASSUME NEW s \in Seq(R), NEW x \in R, s \in S PROVE Append(s, x) \in S
  <2>1. \A y \in R : IsSegment(y)
    BY DEF Timely
  <2>2. /\ StoredRows(Append(s, x)) = StoredRows(s) \o RowsOf(Data(x))
        /\ StoredRows(s) \in Seq(RowSet) /\ RowsOf(Data(x)) \in Seq(RowSet)
    BY <2>1, StoredNext
  <2>3. Kept(StoredRows(s) \o RowsOf(Data(x)), T) = Kept(StoredRows(s), T) \o Kept(RowsOf(Data(x)), T)
    BY <2>2, KeptOfBoth
  <2>4. PICK result, rows : result = Scanned(start, end, s) /\ rows = Kept(StoredRows(s), T)
    OBVIOUS
  <2>5. ScanOf(result, rows) /\ Timely(x)
    BY <1>2, <2>4
  <2>6. ScanOf(AddSegment(result, x, start, end), rows \o Kept(RowsOf(Data(x)), T))
    BY <2>5, AddsSegment DEF T
  <2>7. Scanned(start, end, Append(s, x)) = AddSegment(result, x, start, end)
    BY <2>4, ScannedNext
  <2>8. P(Append(s, x))
    BY <2>2, <2>3, <2>4, <2>6, <2>7
  <2> QED BY <2>8, AppendProperties
<1> HIDE DEF S
<1>3. Seq(R) \subseteq S
  BY <1>1, <1>2, EverySeq
<1> QED BY <1>3 DEF S, T

-----------------------------------------------------------------------------
(* The timestamps, and the rows that have them.                            *)
LEMMA RangeEnds ==
  /\ \A time \in Times : time \in Nat /\ time >= I64Min
  /\ \A end \in Times \cup {Max(Times) + 1} : end \in Nat
  /\ Max(Times) \in Nat
<1>1. Times \in SUBSET Nat /\ Times # {} /\ I64Min = Min(Times) /\ IsFiniteSet(Times)
  BY TimesAssumption
<1>2. I64Min \in Nat /\ \A time \in Times : I64Min <= time
  BY <1>1, LeastNumber
<1>3. PICK n \in Nat : ExistsSurjection(1..n, Times)
  BY <1>1, FS_NatSurjection
<1>4. PICK f \in [1..n -> Times] : \A time \in Times : \E i \in 1..n : f[i] = time
  BY <1>3 DEF ExistsSurjection, Surjection
<1>5. f \in Seq(Nat) /\ ToSet(f) = Times
  <2>1. f \in [1..n -> Nat]
    BY <1>1, <1>4
  <2>2. DOMAIN f = 1..n /\ f \in Seq(Nat)
    BY <2>1
  <2>3. ToSet(f) \subseteq Times
    BY <1>4, <2>2 DEF ToSet
  <2>4. Times \subseteq ToSet(f)
    BY <1>4, <2>2 DEF ToSet
  <2> QED BY <2>2, <2>3, <2>4
<1>6. PICK bound \in Nat : \A time \in Times : time <= bound
  BY <1>5, BoundOfSeq
<1>7. Max(Times) \in Nat
  BY <1>1, <1>6, GreatestNumber
<1> QED BY <1>1, <1>2, <1>7

LEMMA SegmentRows ==
  ASSUME NEW R, \A x \in R : IsSegment(x)
  PROVE  \A s \in Seq(R) : \A x \in ToSet(s) : ToSet(RowsOf(Data(x))) \subseteq ToSet(StoredRows(s))
<1> DEFINE S == {s \in Seq(R) :
                   \A x \in ToSet(s) : ToSet(RowsOf(Data(x))) \subseteq ToSet(StoredRows(s))}
<1>1. <<>> \in S
  <2>1. ToSet(<<>>) = {}
    BY DEF ToSet
  <2> QED BY <2>1, EmptySeq
<1>2. ASSUME NEW s \in Seq(R), NEW x \in R, s \in S PROVE Append(s, x) \in S
  <2>1. Append(s, x) \in Seq(R) /\ ToSet(Append(s, x)) = ToSet(s) \cup {x}
    BY AppendSet
  <2>2. /\ StoredRows(Append(s, x)) = StoredRows(s) \o RowsOf(Data(x))
        /\ StoredRows(s) \in Seq(RowSet) /\ RowsOf(Data(x)) \in Seq(RowSet)
    BY StoredNext
  <2>3. ToSet(StoredRows(Append(s, x))) = ToSet(StoredRows(s)) \cup ToSet(RowsOf(Data(x)))
    BY <2>2, ConcatSet
  <2> QED BY <1>2, <2>1, <2>3
<1> HIDE DEF S
<1>3. Seq(R) \subseteq S
  BY <1>1, <1>2, EverySeq
<1> QED BY <1>3 DEF S

LEMMA TimelySegments ==
  ASSUME ScanInv
  PROVE  \A x \in ToSet(sealed) : Timely(x)
<1>1. /\ sealed \in Seq(ToSet(sealed)) /\ TableBatch(active)
      /\ \A x \in ToSet(sealed) : IsSegment(x)
      /\ StoredRows(sealed) \in Seq(RowSet) /\ RowsOf(active) \in Seq(RowSet)
  BY SealedSegments DEF ScanInv
<1>2. ToSet(Rows) = ToSet(StoredRows(sealed)) \cup ToSet(RowsOf(active))
  BY <1>1, RowsAreStored, ConcatSet
<1>3. \A row \in ToSet(Rows) : row[TimeIndex] >= I64Min
  <2> TAKE row \in ToSet(Rows)
  <2>1. PICK number \in DOMAIN appended : row = RowCells(number, appended[number])
    BY DEF ScanInv, StorageInv, RowsKept
  <2>2. appended[number] \in Times
    BY LenProperties, ElementOfSeq DEF ScanInv
  <2>3. row[TimeIndex] = appended[number]
    BY <2>1, TimeColumn DEF RowCells, Cell
  <2> QED BY <2>2, <2>3, RangeEnds
<1>4. ASSUME NEW x \in ToSet(sealed), NEW row \in 1..Data(x).rows
      PROVE  Clock(Data(x))[row] >= I64Min
  <2>1. PICK b : b = Data(x)
    OBVIOUS
  <2>2. TableBatch(b) /\ row \in 1..b.rows
    BY <1>1, <2>1 DEF IsSegment
  <2>3. RowsOf(b)[row][TimeIndex] = Clock(b)[row]
    BY <2>2, ClockTyped
  <2>4. RowsOf(b)[row] \in ToSet(RowsOf(b))
    <3>1. DOMAIN RowsOf(b) = 1..b.rows
      BY <2>2, RowsTyped, LenProperties
    <3> QED BY <2>2, <3>1 DEF ToSet
  <2>5. ToSet(RowsOf(b)) \subseteq ToSet(StoredRows(sealed))
    BY <1>1, <2>1, SegmentRows
  <2> QED BY <1>2, <1>3, <2>1, <2>3, <2>4, <2>5
<1> QED BY <1>1, <1>4 DEF Timely

(* The rows of the active batch come last, as an owned chunk.              *)
LEMMA AppendsActive ==
  ASSUME NEW b, TableBatch(b), NEW indices \in Seq(0..(b.rows - 1)), NEW result
  PROVE  AppendOwned(result, TakeRows(b, indices)) =
           AppendColumns(result,
                         ColumnsOf([k \in DOMAIN Schema |-> Owned(TakeValues(Grid(b)[k], indices))]),
                         Len(indices))
<1> DEFINE chunks == [k \in DOMAIN Schema |-> Owned(TakeValues(Grid(b)[k], indices))]
           taken == TakeRows(b, indices)
           column(k) == LET c == taken.columns[k]
                        IN  ScanColumn(c.name, c.data.dtype, <<Owned(c.data.values)>>)
<1>1. /\ DOMAIN b.columns = DOMAIN Schema
      /\ \A k \in DOMAIN Schema : b.columns[k] = ColumnOf(k, Grid(b)[k])
  BY ColumnsOfTable, SchemaIsSeq
<1>2. /\ taken.columns = [k \in DOMAIN Schema |->
            [b.columns[k] EXCEPT !.data.values = TakeValues(@, indices)]]
      /\ taken.rows = Len(indices)
  BY <1>1 DEF TakeRows
<1>3. ASSUME NEW k \in DOMAIN Schema
      PROVE  taken.columns[k] = ColumnOf(k, TakeValues(Grid(b)[k], indices))
  <2>1. taken.columns[k] = [b.columns[k] EXCEPT !.data.values = TakeValues(@, indices)]
    BY <1>2
  <2>2. b.columns[k].data.values = Grid(b)[k]
    BY DEF Grid
  <2>3. PICK values : values = TakeValues(Grid(b)[k], indices)
    OBVIOUS
  <2>4. taken.columns[k] = [b.columns[k] EXCEPT !.data.values = values]
    BY <2>1, <2>2, <2>3
  <2>5. taken.columns[k] = [ColumnOf(k, Grid(b)[k]) EXCEPT !.data.values = values]
    BY <1>1, <2>4
  <2>6. [ColumnOf(k, Grid(b)[k]) EXCEPT !.data.values = values] = ColumnOf(k, values)
    BY DEF ColumnOf
  <2> QED BY <2>3, <2>5, <2>6
<1>4. ASSUME NEW k \in DOMAIN Schema
      PROVE  column(k) = ScanColumn(Schema[k].name, Schema[k].dtype, <<chunks[k]>>)
  <2>1. PICK c, values : c = taken.columns[k] /\ values = TakeValues(Grid(b)[k], indices)
    OBVIOUS
  <2>2. c = ColumnOf(k, values)
    BY <1>3, <2>1
  <2>3. c.name = Schema[k].name /\ c.data.dtype = Schema[k].dtype /\ c.data.values = values
    BY <2>2, ColumnFields
  <2>4. chunks[k] = Owned(values)
    BY <2>1
  <2> HIDE DEF chunks, taken
  <2> QED BY <2>1, <2>3, <2>4
<1>5. DOMAIN taken.columns = DOMAIN Schema
  BY <1>2
<1>6. AppendOwned(result, taken) =
        AppendColumns(result, [k \in DOMAIN taken.columns |-> column(k)], taken.rows)
  BY DEF AppendOwned
<1> HIDE DEF chunks, column, taken
<1>7. [k \in DOMAIN taken.columns |-> column(k)] = ColumnsOf(chunks)
  BY <1>4, <1>5 DEF ColumnsOf
<1> QED BY <1>2, <1>6, <1>7 DEF chunks, taken

LEMMA ShowsRange ==
  ASSUME ScanInv, NEW start \in Nat, NEW end \in Nat
  PROVE  /\ ScanOf(ScanTimeRange(start, end), InRange(Rows, start, end))
         /\ Shows(ScanTimeRange(start, end), InRange(Rows, start, end))
<1> DEFINE T == RangeRows(start, end)
<1>1. /\ sealed \in Seq(ToSet(sealed)) /\ TableBatch(active)
      /\ StoredRows(sealed) \in Seq(RowSet) /\ RowsOf(active) \in Seq(RowSet)
  BY SealedSegments DEF ScanInv
<1>2. PICK result, rows : result = Scanned(start, end, sealed) /\ rows = Kept(StoredRows(sealed), T)
  OBVIOUS
<1>3. ScanOf(result, rows)
  <2>1. PICK R : R = ToSet(sealed)
    OBVIOUS
  <2>2. (\A x \in R : Timely(x)) /\ sealed \in Seq(R)
    BY <1>1, <2>1, TimelySegments
  <2>3. \A s \in Seq(R) : ScanOf(Scanned(start, end, s), Kept(StoredRows(s), T))
    BY <2>2, ScannedRows
  <2> QED BY <1>2, <2>2, <2>3
<1>4. PICK indices \in Seq(0..(active.rows - 1)) :
        /\ FilterTime(active, start, end) = TakeRows(active, indices)
        /\ Kept(RowsOf(active), T) = TakeValues(RowsOf(active), indices)
  BY <1>1, FilterSelects
<1> DEFINE chunks == [k \in DOMAIN Schema |-> Owned(TakeValues(Grid(active)[k], indices))]
<1>5. PICK longer : longer = ScanTimeRange(start, end)
  OBVIOUS
<1>6. longer = AppendColumns(result, ColumnsOf(chunks), Len(indices))
  <2>1. longer = AppendOwned(result, FilterTime(active, start, end))
    BY <1>2, <1>5 DEF ScanTimeRange, Scanned
  <2> QED BY <1>1, <1>4, <2>1, AppendsActive
<1>7. PICK more : more = TakeValues(RowsOf(active), indices)
  OBVIOUS
<1>8. /\ more \in Seq(RowSet) /\ Len(more) = Len(indices)
      /\ \A k \in DOMAIN Schema :
           /\ TakeValues(Grid(active)[k], indices) = ColumnCells(more, k)
           /\ TakeValues(Grid(active)[k], indices) \in Seq(Cells)
  BY <1>1, <1>7, RowsTaken
<1>9. \A k \in DOMAIN Schema :
        /\ chunks[k] = Owned(ColumnCells(more, k))
        /\ WholeChunk(chunks[k]) /\ ChunkValues(chunks[k]) = ColumnCells(more, k)
  <2> TAKE k \in DOMAIN Schema
  <2>1. chunks[k] = Owned(ColumnCells(more, k)) /\ ColumnCells(more, k) \in Seq(Cells)
    BY <1>8
  <2> HIDE DEF chunks
  <2> QED BY <2>1, OwnedWhole
<1> HIDE DEF chunks, T
<1>10. /\ ScanOf(longer, rows \o more)
       /\ \A k \in DOMAIN Schema :
            longer.columns[k].chunks = Append(result.columns[k].chunks, chunks[k])
  BY <1>3, <1>6, <1>8, <1>9, AppendsColumns
<1>11. InRange(Rows, start, end) = rows \o more
  <2>1. PICK all \in Seq(RowSet) : all = StoredRows(sealed) \o RowsOf(active)
    BY <1>1, ConcatProperties
  <2>2. InRange(all, start, end) = Kept(all, T)
    BY InRangeKept DEF T
  <2>3. Kept(all, T) = Kept(StoredRows(sealed), T) \o Kept(RowsOf(active), T)
    BY <1>1, <2>1, KeptOfBoth
  <2> QED BY <1>2, <1>4, <1>7, <2>1, <2>2, <2>3, RowsAreStored
<1>12. PICK shown : shown = rows \o more
  OBVIOUS
<1>13. longer.err = NoError /\ longer.rows = Len(shown)
  BY <1>10, <1>12 DEF ScanOf
<1>14. ASSUME NEW k \in DOMAIN Schema
       PROVE  /\ Flatten(longer.columns[k].chunks) = ColumnCells(shown, k)
              /\ Lendable(longer.columns[k].chunks) =>
                   longer.columns[k].chunks[1].values = ColumnCells(shown, k)
  <2>1. PICK old, chunk, values : /\ old = result.columns[k].chunks /\ chunk = chunks[k]
                                  /\ values = ColumnCells(more, k)
    OBVIOUS
  <2>2. /\ IsChunks(old) /\ WholeChunk(chunk) /\ ChunkValues(chunk) = values
        /\ chunk = Owned(values) /\ values \in Seq(Cells)
    <3>1. IsChunks(old)
      BY <1>3, <2>1 DEF ScanOf
    <3> QED BY <1>8, <1>9, <2>1, <3>1
  <2>3. longer.columns[k].chunks = Append(old, chunk)
    BY <1>10, <2>1
  <2>4. Flatten(Append(old, chunk)) = ColumnCells(shown, k)
    BY <1>10, <1>12, <2>3 DEF ScanOf
  <2>5. ASSUME Len(Append(old, chunk)) = 1
        PROVE  Append(old, chunk)[1].values = ColumnCells(shown, k)
    <3>1. /\ old = <<>> /\ Append(old, chunk)[1] = chunk
          /\ Flatten(Append(old, chunk)) = Flatten(old) \o ChunkValues(chunk)
      BY <2>2, <2>5, FlattenChunk
    <3>2. <<>> \o values = values
      BY <2>2, ConcatEmptySeq
    <3>3. ColumnCells(shown, k) = values
      BY <2>2, <2>4, <3>1, <3>2, FlattenNoChunk
    <3>4. chunk.values = values
      BY <2>2 DEF Owned
    <3> QED BY <3>1, <3>3, <3>4
  <2> QED BY <2>3, <2>4, <2>5 DEF Lendable
<1>15. Shows(longer, shown)
  BY <1>13, <1>14 DEF Shows, ColumnCells
<1> QED BY <1>5, <1>10, <1>11, <1>12, <1>15

LEMMA ScanInit == Init => ScanInv
<1>1. Init => appended \in Seq(Times)
  BY EmptySeq DEF Init
<1> QED BY <1>1, StorageInit DEF ScanInv

LEMMA ScanNext ==
  ASSUME KeepOrder, ScanInv, [Next]_vars
  PROVE  ScanInv'
<1>1. StorageInv'
  BY StorageNext DEF ScanInv
<1>2. appended \in Seq(Times)
  BY DEF ScanInv
<1>3. ASSUME NEW S \in CallerSchemas, NEW fault \in Faults,
             NEW times \in BoundedSeq(Times, 2) \ {<<>>}, AppendRows(S, times, fault)
      PROVE  appended' \in Seq(Times)
  <2>1. times \in Seq(Times)
    <3>1. PICK m \in 0..2 : times \in [1..m -> Times]
      BY DEF BoundedSeq, SeqOf
    <3> QED BY <3>1
  <2>2. appended \o times \in Seq(Times)
    BY <1>2, <2>1, ConcatProperties
  <2>3. appended' = appended \o times \/ appended' = appended
    BY <1>3 DEF AppendRows
  <2> QED BY <1>2, <2>2, <2>3
<1>4. (Flush \/ (\E ids \in SUBSET (1..MaxSegments) : Compact(ids)) \/ Open \/ UNCHANGED vars)
        => appended' = appended
  BY DEF Flush, Compact, Open, vars
<1>5. appended' \in Seq(Times)
  BY <1>2, <1>3, <1>4 DEF Next
<1> QED BY <1>1, <1>5 DEF ScanInv

(* A scan shows the rows of its range and no others, in the order of the   *)
(* table and in every column alike, from whatever segments, mapped columns *)
(* and vectors it puts them together, for every pair of ends.              *)
THEOREM ScansAreAlwaysExact ==
  ASSUME KeepOrder
  PROVE  Spec => []ScansAreExact
<1>1. ScanInv => ScansAreExact
  BY RangeEnds, ShowsRange DEF ScansAreExact
<1>2. ScanInv /\ [Next]_vars => ScanInv'
  BY ScanNext
<1> QED BY <1>1, <1>2, ScanInit, PTL DEF Spec

-----------------------------------------------------------------------------
(* The fold that counts the rows of chunks, likewise.                      *)
RowSum(s) == FoldLeft(LAMBDA n, chunk : n + chunk.rows.len, 0, s)

SumOn(g, base, s, n) ==
  g = [x \in SUBSET (1..n) |-> IF x = {} THEN base ELSE g[x \ {Max(x)}] + s[Max(x)].rows.len]

LEMMA SumExists ==
  ASSUME NEW base, NEW s, NEW n \in Nat
  PROVE  \E g : SumOn(g, base, s, n)
<1> DEFINE P(k) == \E g : SumOn(g, base, s, k)
           S == {k \in Nat : P(k)}
<1>1. P(0)
  <2> DEFINE g == [x \in SUBSET (1..0) |-> base]
  <2>1. \A x \in SUBSET (1..0) : x = {}
    OBVIOUS
  <2>2. SumOn(g, base, s, 0)
    BY <2>1 DEF SumOn
  <2> QED BY <2>2
<1>2. ASSUME NEW k \in Nat, P(k) PROVE P(k + 1)
  <2>1. PICK g : SumOn(g, base, s, k)
    BY <1>2
  <2> DEFINE h == [x \in SUBSET (1..(k + 1)) |->
                     IF k + 1 \in x THEN g[x \ {k + 1}] + s[k + 1].rows.len ELSE g[x]]
  <2>2. ASSUME NEW x \in SUBSET (1..(k + 1))
        PROVE  h[x] = IF x = {} THEN base ELSE h[x \ {Max(x)}] + s[Max(x)].rows.len
    <3>1. CASE k + 1 \in x
      <4>1. Max(x) = k + 1 /\ x \ {k + 1} \in SUBSET (1..k) /\ x # {}
        BY <3>1, LastIsMax
      <4>2. x \ {k + 1} \in SUBSET (1..(k + 1)) /\ k + 1 \notin x \ {k + 1}
        BY <4>1
      <4>3. h[x \ {k + 1}] = g[x \ {k + 1}]
        BY <4>2
      <4>4. h[x] = g[x \ {k + 1}] + s[k + 1].rows.len
        BY <3>1
      <4> QED BY <4>1, <4>3, <4>4
    <3>2. CASE k + 1 \notin x
      <4>1. x \in SUBSET (1..k)
        BY <3>2, MaxBelow
      <4>2. x \ {Max(x)} \in SUBSET (1..(k + 1)) /\ k + 1 \notin x \ {Max(x)}
        BY <3>2
      <4>3. h[x] = g[x] /\ h[x \ {Max(x)}] = g[x \ {Max(x)}]
        BY <3>2, <4>2
      <4> HIDE DEF h
      <4>4. g[x] = IF x = {} THEN base ELSE g[x \ {Max(x)}] + s[Max(x)].rows.len
        BY <2>1, <4>1 DEF SumOn
      <4> QED BY <4>3, <4>4
    <3> QED BY <3>1, <3>2
  <2>3. SumOn(h, base, s, k + 1)
    BY <2>2 DEF SumOn
  <2> HIDE DEF h
  <2> QED BY <2>3
<1> HIDE DEF P
<1>3. 0 \in S /\ \A k \in Nat : k \in S => k + 1 \in S
  BY <1>1, <1>2
<1>4. n \in S
  BY <1>3, EveryNat
<1>5. P(n)
  BY <1>4
<1> QED BY <1>5 DEF P

SumRun(a, s) ==
  /\ a[0] = 0
  /\ \A k \in 0..(Len(s) - 1) : a[k + 1] = a[k] + s[k + 1].rows.len
  /\ RowSum(s) = a[Len(s)]

LEMMA SumSteps ==
  ASSUME NEW R, NEW s \in Seq(R)
  PROVE  \E a : SumRun(a, s)
<1> DEFINE n == Len(s)
           empty == 0
           g == CHOOSE g : SumOn(g, empty, s, n)
           a == [k \in 0..n |-> g[1..k]]
<1>1. n \in Nat /\ DOMAIN s = 1..n
  BY LenProperties
<1>2. RowSum(s) = g[1..n]
  BY <1>1 DEF RowSum, FoldLeft, MapThenFoldSet, SumOn
<1> HIDE DEF empty, n
<1>3. \E h : SumOn(h, empty, s, n)
  BY <1>1, SumExists
<1>4. SumOn(g, empty, s, n)
  BY <1>3
<1> HIDE DEF g
<1>5. a[0] = empty
  BY <1>1, <1>4 DEF SumOn
<1>6. ASSUME NEW k \in 0..(n - 1) PROVE a[k + 1] = a[k] + s[k + 1].rows.len
  <2>1. k \in Nat /\ k + 1 \in 0..n /\ k \in 0..n
    BY <1>1
  <2>2. 1..(k + 1) \in SUBSET (1..n) /\ k + 1 \in 1..(k + 1) /\ 1..k = (1..(k + 1)) \ {k + 1}
    BY <1>1, <2>1
  <2>3. Max(1..(k + 1)) = k + 1
    BY <2>1, <2>2, LastIsMax
  <2>4. g[1..(k + 1)] = g[1..k] + s[k + 1].rows.len
    BY <1>4, <2>2, <2>3 DEF SumOn
  <2> QED BY <2>1, <2>4
<1>7. RowSum(s) = a[n]
  BY <1>1, <1>2
<1>8. SumRun(a, s)
  <2> HIDE DEF a
  <2> QED BY <1>5, <1>6, <1>7 DEF empty, n, SumRun
<1> QED BY <1>8

LEMMA RowSumNone == RowSum(<<>>) = 0
<1>1. PICK s \in Seq({}) : s = <<>>
  BY EmptySeq
<1>2. PICK a : a[0] = 0 /\ RowSum(s) = a[Len(s)]
  BY SumSteps DEF SumRun
<1>3. Len(s) = 0
  BY <1>1, EmptySeq
<1> QED BY <1>1, <1>2, <1>3

LEMMA RowSumNext ==
  ASSUME NEW R, NEW s \in Seq(R), NEW x \in R
  PROVE  RowSum(Append(s, x)) = RowSum(s) + x.rows.len
<1> DEFINE n == Len(s)
<1>1. n \in Nat
  BY LenProperties
<1>2. PICK longer \in Seq(R) : longer = Append(s, x)
  BY AppendProperties
<1>3. /\ Len(longer) = n + 1
      /\ \A k \in 1..n : longer[k] = s[k]
      /\ longer[n + 1] = x
  BY <1>2, AppendProperties
<1>4. PICK a : SumRun(a, s)
  BY SumSteps
<1>5. PICK b : SumRun(b, longer)
  BY SumSteps
<1> HIDE DEF n
<1> DEFINE S == {k \in Nat : k <= n => a[k] = b[k]}
<1>6. 0 \in S
  BY <1>4, <1>5 DEF SumRun
<1>7. ASSUME NEW k \in Nat, k \in S PROVE k + 1 \in S
  <2>1. CASE k + 1 <= n
    <3>1. k \in 0..(n - 1) /\ k \in 0..(Len(longer) - 1) /\ k + 1 \in 1..n /\ k <= n
      BY <1>1, <1>3, <2>1
    <3>2. a[k] = b[k]
      BY <1>7, <3>1
    <3>3. /\ a[k + 1] = a[k] + s[k + 1].rows.len
          /\ b[k + 1] = b[k] + longer[k + 1].rows.len
      BY <1>4, <1>5, <3>1 DEF SumRun, n
    <3> QED BY <1>3, <3>1, <3>2, <3>3
  <2> QED BY <2>1
<1> HIDE DEF S
<1>8. n \in S
  BY <1>1, <1>6, <1>7, EveryNat
<1>9. a[n] = b[n]
  BY <1>1, <1>8 DEF S
<1>10. n \in 0..(Len(longer) - 1)
  BY <1>1, <1>3
<1> QED BY <1>2, <1>3, <1>4, <1>5, <1>9, <1>10 DEF n, SumRun


-----------------------------------------------------------------------------
(* The fold that groups row numbers by chunk, likewise.                    *)
Grouped(chunks, s) ==
  FoldLeft(LAMBDA groups, row : AddToGroup(chunks, groups, row), <<>>, s)

GroupOn(g, chunks, base, s, n) ==
  g = [x \in SUBSET (1..n) |-> IF x = {} THEN base ELSE AddToGroup(chunks, g[x \ {Max(x)}], s[Max(x)])]

LEMMA GroupExists ==
  ASSUME NEW chunks, NEW base, NEW s, NEW n \in Nat
  PROVE  \E g : GroupOn(g, chunks, base, s, n)
<1> DEFINE P(k) == \E g : GroupOn(g, chunks, base, s, k)
           S == {k \in Nat : P(k)}
<1>1. P(0)
  <2> DEFINE g == [x \in SUBSET (1..0) |-> base]
  <2>1. \A x \in SUBSET (1..0) : x = {}
    OBVIOUS
  <2>2. GroupOn(g, chunks, base, s, 0)
    BY <2>1 DEF GroupOn
  <2> QED BY <2>2
<1>2. ASSUME NEW k \in Nat, P(k) PROVE P(k + 1)
  <2>1. PICK g : GroupOn(g, chunks, base, s, k)
    BY <1>2
  <2> DEFINE h == [x \in SUBSET (1..(k + 1)) |->
                     IF k + 1 \in x THEN AddToGroup(chunks, g[x \ {k + 1}], s[k + 1]) ELSE g[x]]
  <2>2. ASSUME NEW x \in SUBSET (1..(k + 1))
        PROVE  h[x] = IF x = {} THEN base ELSE AddToGroup(chunks, h[x \ {Max(x)}], s[Max(x)])
    <3>1. CASE k + 1 \in x
      <4>1. Max(x) = k + 1 /\ x \ {k + 1} \in SUBSET (1..k) /\ x # {}
        BY <3>1, LastIsMax
      <4>2. x \ {k + 1} \in SUBSET (1..(k + 1)) /\ k + 1 \notin x \ {k + 1}
        BY <4>1
      <4>3. h[x \ {k + 1}] = g[x \ {k + 1}]
        BY <4>2
      <4>4. h[x] = AddToGroup(chunks, g[x \ {k + 1}], s[k + 1])
        BY <3>1
      <4> QED BY <4>1, <4>3, <4>4
    <3>2. CASE k + 1 \notin x
      <4>1. x \in SUBSET (1..k)
        BY <3>2, MaxBelow
      <4>2. x \ {Max(x)} \in SUBSET (1..(k + 1)) /\ k + 1 \notin x \ {Max(x)}
        BY <3>2
      <4>3. h[x] = g[x] /\ h[x \ {Max(x)}] = g[x \ {Max(x)}]
        BY <3>2, <4>2
      <4> HIDE DEF h
      <4>4. g[x] = IF x = {} THEN base ELSE AddToGroup(chunks, g[x \ {Max(x)}], s[Max(x)])
        BY <2>1, <4>1 DEF GroupOn
      <4> QED BY <4>3, <4>4
    <3> QED BY <3>1, <3>2
  <2>3. GroupOn(h, chunks, base, s, k + 1)
    BY <2>2 DEF GroupOn
  <2> HIDE DEF h
  <2> QED BY <2>3
<1> HIDE DEF P
<1>3. 0 \in S /\ \A k \in Nat : k \in S => k + 1 \in S
  BY <1>1, <1>2
<1>4. n \in S
  BY <1>3, EveryNat
<1>5. P(n)
  BY <1>4
<1> QED BY <1>5 DEF P

GroupRun(a, chunks, s) ==
  /\ a[0] = <<>>
  /\ \A k \in 0..(Len(s) - 1) : a[k + 1] = AddToGroup(chunks, a[k], s[k + 1])
  /\ Grouped(chunks, s) = a[Len(s)]

LEMMA GroupSteps ==
  ASSUME NEW chunks, NEW R, NEW s \in Seq(R)
  PROVE  \E a : GroupRun(a, chunks, s)
<1> DEFINE n == Len(s)
           empty == <<>>
           g == CHOOSE g : GroupOn(g, chunks, empty, s, n)
           a == [k \in 0..n |-> g[1..k]]
<1>1. n \in Nat /\ DOMAIN s = 1..n
  BY LenProperties
<1>2. Grouped(chunks, s) = g[1..n]
  BY <1>1 DEF Grouped, FoldLeft, MapThenFoldSet, GroupOn
<1> HIDE DEF empty, n
<1>3. \E h : GroupOn(h, chunks, empty, s, n)
  BY <1>1, GroupExists
<1>4. GroupOn(g, chunks, empty, s, n)
  BY <1>3
<1> HIDE DEF g
<1>5. a[0] = empty
  BY <1>1, <1>4 DEF GroupOn
<1>6. ASSUME NEW k \in 0..(n - 1) PROVE a[k + 1] = AddToGroup(chunks, a[k], s[k + 1])
  <2>1. k \in Nat /\ k + 1 \in 0..n /\ k \in 0..n
    BY <1>1
  <2>2. 1..(k + 1) \in SUBSET (1..n) /\ k + 1 \in 1..(k + 1) /\ 1..k = (1..(k + 1)) \ {k + 1}
    BY <1>1, <2>1
  <2>3. Max(1..(k + 1)) = k + 1
    BY <2>1, <2>2, LastIsMax
  <2>4. g[1..(k + 1)] = AddToGroup(chunks, g[1..k], s[k + 1])
    BY <1>4, <2>2, <2>3 DEF GroupOn
  <2> QED BY <2>1, <2>4
<1>7. Grouped(chunks, s) = a[n]
  BY <1>1, <1>2
<1>8. GroupRun(a, chunks, s)
  <2> HIDE DEF a
  <2> QED BY <1>5, <1>6, <1>7 DEF empty, n, GroupRun
<1> QED BY <1>8

LEMMA GroupedNone == \A chunks : Grouped(chunks, <<>>) = <<>>
<1> TAKE chunks
<1>1. PICK s \in Seq({}) : s = <<>>
  BY EmptySeq
<1>2. PICK a : a[0] = <<>> /\ Grouped(chunks, s) = a[Len(s)]
  BY GroupSteps DEF GroupRun
<1>3. Len(s) = 0
  BY <1>1, EmptySeq
<1> QED BY <1>1, <1>2, <1>3

LEMMA GroupedNext ==
  ASSUME NEW R, NEW s \in Seq(R), NEW x \in R, NEW chunks
  PROVE  Grouped(chunks, Append(s, x)) = AddToGroup(chunks, Grouped(chunks, s), x)
<1> DEFINE n == Len(s)
<1>1. n \in Nat
  BY LenProperties
<1>2. PICK longer \in Seq(R) : longer = Append(s, x)
  BY AppendProperties
<1>3. /\ Len(longer) = n + 1
      /\ \A k \in 1..n : longer[k] = s[k]
      /\ longer[n + 1] = x
  BY <1>2, AppendProperties
<1>4. PICK a : GroupRun(a, chunks, s)
  BY GroupSteps
<1>5. PICK b : GroupRun(b, chunks, longer)
  BY GroupSteps
<1> HIDE DEF n
<1> DEFINE S == {k \in Nat : k <= n => a[k] = b[k]}
<1>6. 0 \in S
  BY <1>4, <1>5 DEF GroupRun
<1>7. ASSUME NEW k \in Nat, k \in S PROVE k + 1 \in S
  <2>1. CASE k + 1 <= n
    <3>1. k \in 0..(n - 1) /\ k \in 0..(Len(longer) - 1) /\ k + 1 \in 1..n /\ k <= n
      BY <1>1, <1>3, <2>1
    <3>2. a[k] = b[k]
      BY <1>7, <3>1
    <3>3. /\ a[k + 1] = AddToGroup(chunks, a[k], s[k + 1])
          /\ b[k + 1] = AddToGroup(chunks, b[k], longer[k + 1])
      BY <1>4, <1>5, <3>1 DEF GroupRun, n
    <3> QED BY <1>3, <3>1, <3>2, <3>3
  <2> QED BY <2>1
<1> HIDE DEF S
<1>8. n \in S
  BY <1>1, <1>6, <1>7, EveryNat
<1>9. a[n] = b[n]
  BY <1>1, <1>8 DEF S
<1>10. n \in 0..(Len(longer) - 1)
  BY <1>1, <1>3
<1> QED BY <1>2, <1>3, <1>4, <1>5, <1>9, <1>10 DEF n, GroupRun


(* Where the rows of each chunk begin: behind those of the chunks before.  *)
LEMMA SubSeqNext ==
  ASSUME NEW R, NEW s \in Seq(R), NEW k \in 1..Len(s)
  PROVE  /\ SubSeq(s, 1, k - 1) \in Seq(R)
         /\ SubSeq(s, 1, k) = Append(SubSeq(s, 1, k - 1), s[k])
<1>1. k \in Int /\ k - 1 \in Int /\ 1 \in Int /\ s[k] \in R /\ 1 \in 1..Len(s) /\ k \in 1..Len(s)
  BY LenProperties, ElementOfSeq
<1>2. \A i \in 1..(k - 1) : s[i] \in R
  BY LenProperties, ElementOfSeq
<1>3. SubSeq(s, 1, k - 1) \in Seq(R)
  BY <1>1, <1>2, SubSeqProperties
<1>4. SubSeq(s, 1, k) = SubSeq(s, 1, k - 1) \o <<s[k]>>
  <2>1. k \in 1..Len(s)
    OBVIOUS
  <2> QED BY <1>1, SubSeqRecursiveSecond
<1>5. Append(SubSeq(s, 1, k - 1), s[k]) = SubSeq(s, 1, k - 1) \o <<s[k]>>
  BY <1>1, <1>3, AppendIsConcat
<1> QED BY <1>3, <1>4, <1>5

LEMMA BaseNext ==
  ASSUME NEW R, NEW s \in Seq(R)
  PROVE  /\ Base(s, 1) = 0
         /\ \A k \in 1..Len(s) : Base(s, k + 1) = Base(s, k) + s[k].rows.len
         /\ RowsIn(s) = RowSum(s)
<1>1. Len(s) \in Nat
  BY LenProperties
<1>2. \A k : Base(s, k) = RowSum(SubSeq(s, 1, k - 1))
  BY DEF Base, RowSum
<1>3. Base(s, 1) = 0
  <2>1. SubSeq(s, 1, 1 - 1) = <<>>
    BY SubSeqEmpty
  <2> QED BY <1>2, <2>1, RowSumNone
<1>4. ASSUME NEW k \in 1..Len(s) PROVE Base(s, k + 1) = Base(s, k) + s[k].rows.len
  <2>1. (k + 1) - 1 = k
    BY <1>1
  <2>2. PICK t \in Seq(R) : t = SubSeq(s, 1, k - 1)
    BY SubSeqNext
  <2>3. PICK x \in R : x = s[k]
    BY ElementOfSeq
  <2>4. RowSum(Append(t, x)) = RowSum(t) + x.rows.len
    BY RowSumNext
  <2>5. SubSeq(s, 1, k) = Append(t, x)
    BY <2>2, <2>3, SubSeqNext
  <2> QED BY <1>2, <2>1, <2>2, <2>3, <2>4, <2>5
<1>5. RowsIn(s) = RowSum(s)
  <2>1. (Len(s) + 1) - 1 = Len(s)
    BY <1>1
  <2>2. SubSeq(s, 1, Len(s)) = s
    BY SubSeqFull
  <2> QED BY <1>2, <2>1, <2>2 DEF RowsIn
<1> QED BY <1>3, <1>4, <1>5

LEMMA BaseOfLonger ==
  ASSUME NEW R, NEW s \in Seq(R), NEW x \in R, NEW k \in 1..(Len(s) + 1)
  PROVE  Base(Append(s, x), k) = Base(s, k)
<1>1. Len(s) \in Nat /\ k - 1 \in Int /\ 1 \in Int
  BY LenProperties
<1>2. PICK longer \in Seq(R) : longer = Append(s, x)
  BY AppendProperties
<1>3. \A i \in 1..(k - 1) : longer[i] = s[i] /\ s[i] \in R
  <2>1. \A i \in 1..(k - 1) : i \in 1..Len(s)
    BY <1>1
  <2> QED BY <1>2, <2>1, AppendProperties, ElementOfSeq
<1>4. PICK t, u : t = SubSeq(longer, 1, k - 1) /\ u = SubSeq(s, 1, k - 1)
  OBVIOUS
<1>5. /\ t \in Seq(R) /\ u \in Seq(R)
      /\ Len(t) = (IF 1 <= k - 1 THEN (k - 1) - 1 + 1 ELSE 0)
      /\ Len(u) = (IF 1 <= k - 1 THEN (k - 1) - 1 + 1 ELSE 0)
      /\ \A i \in 1..((k - 1) - 1 + 1) : t[i] = longer[1 + i - 1] /\ u[i] = s[1 + i - 1]
  BY <1>1, <1>3, <1>4, SubSeqProperties
<1>6. \A i \in 1..Len(t) : t[i] = u[i]
  <2> TAKE i \in 1..Len(t)
  <2>1. i \in 1..((k - 1) - 1 + 1) /\ 1 + i - 1 = i /\ i \in 1..(k - 1)
    BY <1>1, <1>5
  <2>2. t[i] = longer[i] /\ u[i] = s[i]
    BY <1>5, <2>1
  <2> QED BY <1>3, <2>1, <2>2
<1>7. t = u
  BY <1>5, <1>6, SeqEqual
<1> QED BY <1>2, <1>4, <1>7 DEF Base

(* A row of a chunk is the row of the column that is as far behind the     *)
(* rows of the chunks before.                                              *)
LEMMA RowsOfChunks ==
  ASSUME NEW R, \A x \in R : WholeChunk(x)
  PROVE  \A s \in Seq(R) : /\ IsChunks(s)
                           /\ Flatten(s) \in Seq(Cells)
                           /\ Len(Flatten(s)) = RowSum(s)
<1> DEFINE P(s) == IsChunks(s) /\ Flatten(s) \in Seq(Cells) /\ Len(Flatten(s)) = RowSum(s)
           S == {s \in Seq(R) : P(s)}
<1>1. <<>> \in S
  <2>1. <<>> \in Seq(Cells) /\ Len(<<>>) = 0 /\ <<>> \in Seq(R)
    BY EmptySeq
  <2> QED BY <2>1, FlattenNoChunk, RowSumNone
<1>2. ASSUME NEW s \in Seq(R), NEW x \in R, s \in S PROVE Append(s, x) \in S
  <2>1. /\ IsChunks(Append(s, x))
        /\ Flatten(Append(s, x)) = Flatten(s) \o ChunkValues(x)
    BY <1>2, FlattenChunk
  <2>2. ChunkValues(x) \in Seq(Cells) /\ Len(ChunkValues(x)) = x.rows.len
    BY ChunkShows
  <2>3. PICK t \in Seq(Cells), u \in Seq(Cells) : t = Flatten(s) /\ u = ChunkValues(x)
    BY <1>2, <2>2
  <2>4. t \o u \in Seq(Cells) /\ Len(t \o u) = Len(t) + Len(u)
    BY ConcatProperties
  <2>5. RowSum(Append(s, x)) = RowSum(s) + x.rows.len
    BY RowSumNext
  <2>6. P(Append(s, x))
    BY <1>2, <2>1, <2>2, <2>3, <2>4, <2>5
  <2> QED BY <2>6, AppendProperties
<1> HIDE DEF S
<1>3. Seq(R) \subseteq S
  BY <1>1, <1>2, EverySeq
<1> QED BY <1>3 DEF S

LEMMA Layout ==
  ASSUME NEW chunks, IsChunks(chunks)
  PROVE  /\ Len(chunks) \in Nat /\ DOMAIN chunks = 1..Len(chunks)
         /\ Flatten(chunks) \in Seq(Cells)
         /\ RowsIn(chunks) = Len(Flatten(chunks)) /\ RowsIn(chunks) \in Nat
         /\ RowsIn(chunks) = Base(chunks, Len(chunks) + 1)
         /\ Base(chunks, 1) = 0
         /\ \A k \in 1..Len(chunks) :
              /\ WholeChunk(chunks[k])
              /\ Base(chunks, k) \in Nat /\ chunks[k].rows.len \in Nat
              /\ Base(chunks, k + 1) = Base(chunks, k) + chunks[k].rows.len
              /\ \A i \in 1..chunks[k].rows.len :
                   Flatten(chunks)[Base(chunks, k) + i] = ChunkValues(chunks[k])[i]
<1>1. PICK R : R = ToSet(chunks)
  OBVIOUS
<1>2. chunks \in Seq(R) /\ \A x \in R : WholeChunk(x)
  BY <1>1 DEF IsChunks
<1>3. PICK n \in Nat : n = Len(chunks) /\ DOMAIN chunks = 1..n
  BY <1>2, LenProperties
<1>4. Flatten(chunks) \in Seq(Cells) /\ Len(Flatten(chunks)) = RowSum(chunks)
  BY <1>2, RowsOfChunks
<1>5. /\ Base(chunks, 1) = 0 /\ RowsIn(chunks) = RowSum(chunks)
      /\ \A k \in 1..n : Base(chunks, k + 1) = Base(chunks, k) + chunks[k].rows.len
  BY <1>2, <1>3, BaseNext
<1>6. RowsIn(chunks) \in Nat /\ RowsIn(chunks) = Base(chunks, n + 1)
  BY <1>3, <1>4, <1>5, LenProperties DEF RowsIn
<1>7. \A k \in 1..n : /\ WholeChunk(chunks[k])
                      /\ ChunkValues(chunks[k]) \in Seq(Cells)
                      /\ Len(ChunkValues(chunks[k])) = chunks[k].rows.len
                      /\ chunks[k].rows.len \in Nat
  <2> TAKE k \in 1..n
  <2>1. WholeChunk(chunks[k])
    BY <1>2, <1>3, ElementOfSeq
  <2>2. ChunkValues(chunks[k]) \in Seq(Cells) /\ Len(ChunkValues(chunks[k])) = chunks[k].rows.len
    BY <2>1, ChunkShows
  <2> QED BY <2>1, <2>2, LenProperties
<1> DEFINE cells == [k \in 1..n |-> ChunkValues(chunks[k])]
<1>8. PICK seqs \in Seq(Seq(Cells)) : seqs = cells
  <2>1. cells \in [1..n -> Seq(Cells)]
    BY <1>7
  <2> HIDE DEF cells
  <2>2. cells \in Seq(Seq(Cells))
    BY <1>3, <2>1
  <2> QED BY <2>2
<1>9. Len(seqs) = n /\ \A k \in 1..n : seqs[k] = ChunkValues(chunks[k])
  BY <1>3, <1>8
<1>10. Flatten(chunks) = FlattenSeq(seqs)
  BY <1>3, <1>8 DEF Flatten
<1> HIDE DEF cells
<1>11. PICK at \in [0..n -> Nat] :
         /\ at[0] = 0
         /\ \A k \in 0..(n - 1) :
              /\ at[k + 1] = at[k] + Len(seqs[k + 1])
              /\ \A i \in 1..Len(seqs[k + 1]) : FlattenSeq(seqs)[at[k] + i] = seqs[k + 1][i]
  <2>1. PICK at \in [0..Len(seqs) -> Nat] :
          /\ at[0] = 0
          /\ \A k \in 0..(Len(seqs) - 1) :
               /\ at[k + 1] = at[k] + Len(seqs[k + 1])
               /\ \A i \in 1..Len(seqs[k + 1]) : FlattenSeq(seqs)[at[k] + i] = seqs[k + 1][i]
    BY FlattenLayout
  <2> QED BY <1>9, <2>1
<1> DEFINE S == {k \in Nat : k <= n => at[k] = Base(chunks, k + 1)}
<1>12. 0 \in S
  BY <1>5, <1>11
<1>13. ASSUME NEW k \in Nat, k \in S PROVE k + 1 \in S
  <2>1. CASE k + 1 <= n
    <3>1. k \in 0..(n - 1) /\ k <= n /\ k + 1 \in 1..n
      BY <1>3, <2>1
    <3>2. at[k] = Base(chunks, k + 1)
      BY <1>13, <3>1
    <3>3. at[k + 1] = at[k] + chunks[k + 1].rows.len
      BY <1>7, <1>9, <1>11, <3>1
    <3>4. Base(chunks, (k + 1) + 1) = Base(chunks, k + 1) + chunks[k + 1].rows.len
      BY <1>5, <3>1
    <3> QED BY <3>2, <3>3, <3>4
  <2> QED BY <2>1
<1> HIDE DEF S
<1>14. \A k \in Nat : k \in S
  BY <1>12, <1>13, EveryNat
<1>15. ASSUME NEW k \in 1..n
       PROVE  /\ Base(chunks, k) \in Nat
              /\ \A i \in 1..chunks[k].rows.len :
                   Flatten(chunks)[Base(chunks, k) + i] = ChunkValues(chunks[k])[i]
  <2>1. k - 1 \in Nat /\ k - 1 <= n /\ (k - 1) + 1 = k /\ k - 1 \in 0..(n - 1) /\ k - 1 \in 0..n
    BY <1>3
  <2>2. at[k - 1] = Base(chunks, k)
    BY <1>14, <2>1 DEF S
  <2>3. at[k - 1] \in Nat
    BY <1>11, <2>1
  <2>4. \A i \in 1..Len(seqs[k]) : FlattenSeq(seqs)[at[k - 1] + i] = seqs[k][i]
    BY <1>11, <2>1
  <2> QED BY <1>7, <1>9, <1>10, <2>2, <2>3, <2>4
<1> QED BY <1>3, <1>4, <1>5, <1>6, <1>7, <1>15

(* The chunk a row falls into.                                             *)
LEMMA ChunkFound ==
  ASSUME NEW chunks, IsChunks(chunks), NEW row \in 0..(RowsIn(chunks) - 1)
  PROVE  /\ ChunkOf(chunks, row) \in 1..Len(chunks)
         /\ row - Base(chunks, ChunkOf(chunks, row)) \in
              0..(chunks[ChunkOf(chunks, row)].rows.len - 1)
         /\ Flatten(chunks)[row + 1] =
              ChunkValues(chunks[ChunkOf(chunks, row)])[row - Base(chunks, ChunkOf(chunks, row)) + 1]
         /\ ValueAt(chunks, row) = Flatten(chunks)[row + 1]
<1> DEFINE K == {k \in DOMAIN chunks : row < Base(chunks, k) + chunks[k].rows.len}
<1>1. PICK n \in Nat : n = Len(chunks) /\ DOMAIN chunks = 1..n
  BY Layout
<1>2. /\ RowsIn(chunks) \in Nat /\ RowsIn(chunks) = Base(chunks, n + 1) /\ Base(chunks, 1) = 0
      /\ \A k \in 1..n :
           /\ WholeChunk(chunks[k])
           /\ Base(chunks, k) \in Nat /\ chunks[k].rows.len \in Nat
           /\ Base(chunks, k + 1) = Base(chunks, k) + chunks[k].rows.len
           /\ \A i \in 1..chunks[k].rows.len :
                Flatten(chunks)[Base(chunks, k) + i] = ChunkValues(chunks[k])[i]
  BY <1>1, Layout
<1>3. row \in Nat /\ row < RowsIn(chunks)
  BY <1>2
<1>4. n # 0
  BY <1>2, <1>3
<1>5. n \in K
  <2>1. n \in 1..n
    BY <1>1, <1>4
  <2>2. Base(chunks, n + 1) = Base(chunks, n) + chunks[n].rows.len
    BY <1>2, <2>1
  <2> QED BY <1>1, <1>2, <1>3, <2>1, <2>2
<1>6. K \in SUBSET Nat /\ K # {}
  BY <1>1, <1>5
<1> HIDE DEF K
<1>7. PICK k : k = ChunkOf(chunks, row)
  OBVIOUS
<1>8. k \in K /\ \A j \in K : k <= j
  <2>1. k = Min(K)
    BY <1>7 DEF ChunkOf, K
  <2> QED BY <1>6, <2>1, LeastNumber
<1>9. k \in 1..n /\ row < Base(chunks, k) + chunks[k].rows.len
  BY <1>1, <1>8 DEF K
<1>10. PICK base \in Nat, m \in Nat : base = Base(chunks, k) /\ m = chunks[k].rows.len
  BY <1>2, <1>9
<1>11. base <= row
  <2>1. CASE k = 1
    BY <1>2, <1>3, <1>10, <2>1
  <2>2. CASE k # 1
    <3>1. k - 1 \in 1..n /\ (k - 1) + 1 = k /\ ~ (k <= k - 1)
      BY <1>1, <1>9, <2>2
    <3>2. k - 1 \notin K
      BY <1>8, <3>1
    <3>3. ~ (row < Base(chunks, k - 1) + chunks[k - 1].rows.len)
      BY <1>1, <3>1, <3>2 DEF K
    <3>4. /\ Base(chunks, k) = Base(chunks, k - 1) + chunks[k - 1].rows.len
          /\ Base(chunks, k - 1) \in Nat /\ chunks[k - 1].rows.len \in Nat
      <4>1. PICK j \in 1..n : j = k - 1 /\ j + 1 = k
        BY <3>1
      <4> QED BY <1>2, <4>1
    <3> QED BY <1>3, <1>10, <3>3, <3>4
  <2> QED BY <2>1, <2>2
<1>12. PICK local \in 0..(m - 1) : local = row - base
  BY <1>3, <1>9, <1>10, <1>11
<1>13. Flatten(chunks)[row + 1] = ChunkValues(chunks[k])[local + 1]
  <2>1. local + 1 \in 1..m /\ base + (local + 1) = row + 1
    BY <1>3, <1>10, <1>12
  <2>2. \A i \in 1..m : Flatten(chunks)[base + i] = ChunkValues(chunks[k])[i]
    BY <1>2, <1>9, <1>10
  <2> QED BY <2>1, <2>2
<1>14. ValueAt(chunks, row) = Flatten(chunks)[row + 1]
  <2>1. PICK chunk : chunk = chunks[k]
    OBVIOUS
  <2>2. WholeChunk(chunk)
    BY <1>2, <1>9, <2>1
  <2>3. \A i \in 1..m : ChunkValues(chunk)[i] = ValueOf(chunk.values, IndexAt(chunk.rows, i - 1))
    BY <1>10, <2>1, <2>2, ChunkShows
  <2>4. local + 1 \in 1..m /\ (local + 1) - 1 = local
    BY <1>10, <1>12
  <2>5. ChunkValues(chunk)[local + 1] = ValueOf(chunk.values, IndexAt(chunk.rows, local))
    BY <2>3, <2>4
  <2>6. ValueAt(chunks, row) = ValueOf(chunk.values, IndexAt(chunk.rows, local))
    BY <1>7, <1>10, <1>12, <2>1 DEF ValueAt
  <2> QED BY <1>13, <2>1, <2>5, <2>6
<1> QED BY <1>1, <1>7, <1>9, <1>10, <1>12, <1>13, <1>14

(* Values taken at some places, and at one more.                           *)
LEMMA TakenAt ==
  ASSUME NEW C, NEW v \in Seq(C), NEW s \in Seq(0..(Len(v) - 1))
  PROVE  /\ TakeValues(v, s) \in Seq(C) /\ Len(TakeValues(v, s)) = Len(s)
         /\ DOMAIN TakeValues(v, s) = 1..Len(s)
         /\ \A i \in 1..Len(s) : /\ s[i] + 1 \in 1..Len(v)
                                 /\ TakeValues(v, s)[i] = v[s[i] + 1]
<1>1. PICK n \in Nat, m \in Nat : n = Len(s) /\ m = Len(v)
  BY LenProperties
<1>2. DOMAIN s = 1..n /\ \A i \in 1..n : s[i] \in 0..(m - 1)
  BY <1>1, LenProperties, ElementOfSeq
<1>3. \A p \in 0..(m - 1) : p + 1 \in 1..m
  OBVIOUS
<1>4. PICK taken : taken = TakeValues(v, s)
  OBVIOUS
<1>5. taken = [i \in 1..n |-> v[s[i] + 1]]
  BY <1>2, <1>4 DEF TakeValues, ValueOf
<1>6. \A i \in 1..n : s[i] + 1 \in 1..m /\ v[s[i] + 1] \in C
  BY <1>1, <1>2, <1>3, ElementOfSeq
<1>7. taken \in Seq(C) /\ Len(taken) = n /\ DOMAIN taken = 1..n
  BY <1>1, <1>5, <1>6
<1>8. \A i \in 1..n : taken[i] = v[s[i] + 1]
  BY <1>5
<1> QED BY <1>1, <1>4, <1>6, <1>7, <1>8

LEMMA TakenNext ==
  ASSUME NEW C, NEW v \in Seq(C), NEW s \in Seq(0..(Len(v) - 1)), NEW x \in 0..(Len(v) - 1)
  PROVE  /\ TakeValues(v, Append(s, x)) = Append(TakeValues(v, s), v[x + 1])
         /\ v[x + 1] \in C /\ TakeValues(v, s) \in Seq(C)
<1>1. PICK n \in Nat : n = Len(s)
  BY LenProperties
<1>2. PICK t \in Seq(0..(Len(v) - 1)) : t = Append(s, x)
  BY AppendProperties
<1>3. Len(t) = n + 1 /\ t[n + 1] = x /\ \A i \in 1..n : t[i] = s[i]
  BY <1>1, <1>2, AppendProperties
<1>4. PICK old, new : old = TakeValues(v, s) /\ new = TakeValues(v, t)
  OBVIOUS
<1>5. old \in Seq(C) /\ Len(old) = n /\ \A i \in 1..n : old[i] = v[s[i] + 1]
  BY <1>1, <1>4, TakenAt
<1>6. /\ new \in Seq(C) /\ Len(new) = n + 1
      /\ \A i \in 1..(n + 1) : t[i] + 1 \in 1..Len(v) /\ new[i] = v[t[i] + 1]
  <2>1. /\ TakeValues(v, t) \in Seq(C) /\ Len(TakeValues(v, t)) = Len(t)
        /\ \A i \in 1..Len(t) : t[i] + 1 \in 1..Len(v) /\ TakeValues(v, t)[i] = v[t[i] + 1]
    BY TakenAt
  <2> QED BY <1>3, <1>4, <2>1
<1>7. n + 1 \in 1..(n + 1) /\ \A i \in 1..(n + 1) : i \in 1..n \/ i = n + 1
  OBVIOUS
<1>8. PICK y \in C : y = v[x + 1]
  BY <1>3, <1>6, <1>7, ElementOfSeq
<1>9. /\ Append(old, y) \in Seq(C) /\ Len(Append(old, y)) = n + 1
      /\ Append(old, y)[n + 1] = y /\ \A i \in 1..n : Append(old, y)[i] = old[i]
  BY <1>5, AppendProperties
<1>10. \A i \in 1..(n + 1) : new[i] = Append(old, y)[i]
  BY <1>3, <1>5, <1>6, <1>7, <1>8, <1>9
<1>11. new = Append(old, y)
  BY <1>6, <1>9, <1>10, SeqEqual
<1> QED BY <1>2, <1>4, <1>5, <1>8, <1>11

(* Rows taken of a chunk, whatever the shape of what is selected from it   *)
(* and of what is selected of that.                                        *)
LEMMA TakesChunk ==
  ASSUME NEW chunk, WholeChunk(chunk), NEW locals \in Seq(0..(chunk.rows.len - 1))
  PROVE  /\ TakeValues(ChunkValues(chunk), locals) \in Seq(Cells)
         /\ ChunkValues(TakeChunk(chunk, locals)) = TakeValues(ChunkValues(chunk), locals)
         /\ ~ TakeChunk(chunk, locals).mapped =>
              TakeChunk(chunk, locals).values = TakeValues(ChunkValues(chunk), locals)
<1>1. PICK values, rows, shown : values = chunk.values /\ rows = chunk.rows /\ shown = ChunkValues(chunk)
  OBVIOUS
<1>2. /\ values \in Seq(Cells) /\ shown \in Seq(Cells) /\ Len(shown) = rows.len /\ rows.len \in Nat
      /\ \A i \in 1..rows.len :
           /\ IndexAt(rows, i - 1) \in 0..(Len(values) - 1)
           /\ shown[i] = ValueOf(values, IndexAt(rows, i - 1))
      /\ ~ chunk.mapped => shown = values
  BY <1>1, ChunkShows DEF WholeChunk
<1>3. PICK n \in Nat, m \in Nat, w \in Nat : n = rows.len /\ m = Len(values) /\ w = Len(locals)
  BY <1>2, LenProperties
<1>4. DOMAIN locals = 1..w /\ \A j \in 1..w : locals[j] \in 0..(n - 1)
  BY <1>1, <1>3, LenProperties, ElementOfSeq
<1>5. PICK taken : taken = TakeValues(shown, locals)
  OBVIOUS
<1>6. /\ taken \in Seq(Cells) /\ Len(taken) = w /\ DOMAIN taken = 1..w
      /\ \A j \in 1..w : taken[j] = shown[locals[j] + 1]
  <2>1. locals \in Seq(0..(Len(shown) - 1))
    BY <1>1, <1>2
  <2>2. /\ TakeValues(shown, locals) \in Seq(Cells) /\ Len(TakeValues(shown, locals)) = Len(locals)
        /\ DOMAIN TakeValues(shown, locals) = 1..Len(locals)
        /\ \A j \in 1..Len(locals) : TakeValues(shown, locals)[j] = shown[locals[j] + 1]
    BY <1>2, <2>1, TakenAt
  <2> QED BY <1>3, <1>5, <2>2
<1>7. \A j \in 1..w : /\ IndexAt(rows, locals[j]) \in 0..(m - 1)
                      /\ taken[j] = values[IndexAt(rows, locals[j]) + 1]
  <2> TAKE j \in 1..w
  <2>1. PICK p \in 0..(n - 1) : p = locals[j]
    BY <1>4
  <2>2. p + 1 \in 1..n /\ (p + 1) - 1 = p
    BY <1>3, <2>1
  <2>3. IndexAt(rows, p) \in 0..(m - 1) /\ shown[p + 1] = ValueOf(values, IndexAt(rows, p))
    BY <1>2, <1>3, <2>2
  <2> QED BY <1>6, <2>1, <2>3 DEF ValueOf
<1>8. CASE chunk.mapped
  <2> DEFINE indices == [j \in 1..w |-> IndexAt(rows, locals[j])]
  <2>1. indices \in [1..w -> 0..(m - 1)] /\ DOMAIN indices = 1..w /\ Len(indices) = w
    BY <1>3, <1>7
  <2>2. \A j \in 1..w : indices[j] = IndexAt(rows, locals[j])
    OBVIOUS
  <2>3. TakeLocal(rows, locals) = FromIndices(indices, n)
    <3>1. Kept(locals, 0..(n - 1)) = locals
      BY <1>1, <1>3, KeptAll
    <3> QED BY <1>3, <1>4, <3>1 DEF TakeLocal
  <2> HIDE DEF indices
  <2>4. indices \in Seq(0..(m - 1)) /\ indices \in Seq(Nat)
    <3>1. 0..(m - 1) \subseteq Nat
      BY <1>3
    <3>2. indices \in Seq(0..(m - 1))
      BY <1>3, <2>1
    <3> QED BY <3>1, <3>2, SeqMonotonic
  <2>5. PICK selection : selection = FromIndices(indices, n)
    OBVIOUS
  <2>6. SelectedRows(selection) = indices
    BY <1>3, <2>4, <2>5, SelectionOf
  <2>7. PICK small : small = TakeChunk(chunk, locals)
    OBVIOUS
  <2>8. small.values = values /\ small.rows = selection /\ small.mapped
    <3>1. small = [chunk EXCEPT !.rows = selection]
      BY <1>1, <1>8, <2>3, <2>5, <2>7 DEF TakeChunk
    <3>2. PICK mapped : mapped = chunk.mapped
      OBVIOUS
    <3>3. chunk = [mapped |-> mapped, values |-> values, rows |-> rows]
      BY <1>1, <3>2 DEF WholeChunk
    <3>4. small = [mapped |-> mapped, values |-> values, rows |-> selection]
      BY ONLY <3>1, <3>3
    <3>5. small.values = values /\ small.rows = selection /\ small.mapped = mapped
      BY ONLY <3>4
    <3> QED BY <1>8, <3>2, <3>5
  <2>9. ChunkValues(small) = TakeValues(values, indices)
    <3>1. Kept(indices, 0..(m - 1)) = indices
      BY <2>4, KeptAll
    <3> QED BY <1>3, <2>6, <2>8, <3>1 DEF ChunkValues
  <2>10. TakeValues(values, indices) = [j \in 1..w |-> values[indices[j] + 1]]
    BY <2>1 DEF TakeValues, ValueOf
  <2>11. \A j \in 1..w : values[indices[j] + 1] = taken[j]
    BY <1>7, <2>2
  <2>12. taken = [j \in 1..w |-> taken[j]]
    BY <1>6, LenProperties
  <2>13. ChunkValues(small) = taken
    BY <2>9, <2>10, <2>11, <2>12
  <2> QED BY <1>1, <1>5, <1>6, <2>7, <2>8, <2>13
<1>9. CASE ~ chunk.mapped
  <2>1. TakeChunk(chunk, locals) = Owned(taken)
    BY <1>1, <1>2, <1>5, <1>9 DEF TakeChunk
  <2>2. ChunkValues(Owned(taken)) = taken
    BY <1>6, OwnedWhole
  <2>3. Owned(taken).values = taken
    BY DEF Owned
  <2> QED BY <1>1, <1>5, <1>6, <2>1, <2>2, <2>3
<1> QED BY <1>8, <1>9

(* A group stands for some rows of a chunk, and groups for their rows one  *)
(* after the other.                                                        *)
GroupsOf(chunks) ==
  {g \in [chunk : 1..Len(chunks), locals : Seq(Nat)] :
     g.locals \in Seq(0..(chunks[g.chunk].rows.len - 1))}

GroupCells(chunks, g) == TakeValues(ChunkValues(chunks[g.chunk]), g.locals)

GroupedCells(chunks, groups) ==
  FlattenSeq([j \in DOMAIN groups |-> GroupCells(chunks, groups[j])])

LEMMA GroupTyped ==
  ASSUME NEW chunks, IsChunks(chunks), NEW g \in GroupsOf(chunks)
  PROVE  /\ g.chunk \in 1..Len(chunks) /\ WholeChunk(chunks[g.chunk])
         /\ g.locals \in Seq(0..(chunks[g.chunk].rows.len - 1))
         /\ g = [chunk |-> g.chunk, locals |-> g.locals]
         /\ GroupCells(chunks, g) \in Seq(Cells)
<1>1. /\ g.chunk \in 1..Len(chunks)
      /\ g.locals \in Seq(0..(chunks[g.chunk].rows.len - 1))
      /\ g = [chunk |-> g.chunk, locals |-> g.locals]
  BY DEF GroupsOf
<1>2. WholeChunk(chunks[g.chunk])
  BY <1>1, Layout
<1>3. PICK chunk, locals : chunk = chunks[g.chunk] /\ locals = g.locals
  OBVIOUS
<1>4. TakeValues(ChunkValues(chunk), locals) \in Seq(Cells)
  BY <1>1, <1>2, <1>3, TakesChunk
<1> QED BY <1>1, <1>2, <1>3, <1>4 DEF GroupCells

LEMMA NewGroup ==
  ASSUME NEW chunks, NEW k \in 1..Len(chunks), NEW m \in Nat, m = chunks[k].rows.len,
         NEW locals \in Seq(0..(m - 1))
  PROVE  /\ [chunk |-> k, locals |-> locals] \in GroupsOf(chunks)
         /\ GroupCells(chunks, [chunk |-> k, locals |-> locals]) =
              TakeValues(ChunkValues(chunks[k]), locals)
<1>1. PICK g : g = [chunk |-> k, locals |-> locals]
  OBVIOUS
<1>2. g.chunk = k /\ g.locals = locals
  BY <1>1
<1>3. locals \in Seq(Nat)
  <2>1. 0..(m - 1) \subseteq Nat
    OBVIOUS
  <2> QED BY <2>1, SeqMonotonic
<1>4. g \in [chunk : 1..Len(chunks), locals : Seq(Nat)]
  BY <1>1, <1>3
<1> QED BY <1>1, <1>2, <1>4 DEF GroupsOf, GroupCells

LEMMA GroupedCellsNone == \A chunks : GroupedCells(chunks, <<>>) = <<>>
<1> TAKE chunks
<1>1. [j \in DOMAIN <<>> |-> GroupCells(chunks, <<>>[j])] = <<>>
  OBVIOUS
<1> QED BY <1>1, FlattenNone DEF GroupedCells

LEMMA GroupedCellsNext ==
  ASSUME NEW chunks, IsChunks(chunks),
         NEW groups \in Seq(GroupsOf(chunks)), NEW g \in GroupsOf(chunks)
  PROVE  /\ GroupedCells(chunks, Append(groups, g)) =
              GroupedCells(chunks, groups) \o GroupCells(chunks, g)
         /\ GroupedCells(chunks, groups) \in Seq(Cells)
<1>1. PICK R : R = GroupsOf(chunks)
  OBVIOUS
<1>2. PICK n \in Nat : n = Len(groups) /\ DOMAIN groups = 1..n
  BY LenProperties
<1>3. PICK longer \in Seq(R) : longer = Append(groups, g)
  BY <1>1, AppendProperties
<1>4. /\ Len(longer) = n + 1 /\ DOMAIN longer = 1..(n + 1)
      /\ longer[n + 1] = g /\ \A j \in 1..n : longer[j] = groups[j]
  BY <1>1, <1>2, <1>3, AppendProperties, LenProperties
<1> DEFINE f == [j \in 1..(n + 1) |-> GroupCells(chunks, longer[j])]
           old == [j \in 1..n |-> GroupCells(chunks, groups[j])]
<1>5. GroupedCells(chunks, groups) = FlattenSeq(old) /\ GroupedCells(chunks, longer) = FlattenSeq(f)
  BY <1>2, <1>4 DEF GroupedCells
<1>6. old \in [1..n -> Seq(Cells)]
  <2>1. \A j \in 1..n : groups[j] \in GroupsOf(chunks)
    BY <1>2, ElementOfSeq
  <2> QED BY <2>1, GroupTyped
<1>7. Append([j \in 1..n |-> f[j]], f[n + 1]) = [j \in 1..(n + 1) |-> f[j]]
  BY AppendNext
<1>8. [j \in 1..n |-> f[j]] = old /\ f[n + 1] = GroupCells(chunks, g) /\ f = [j \in 1..(n + 1) |-> f[j]]
  <2>1. \A j \in 1..n : f[j] = GroupCells(chunks, groups[j])
    BY <1>4
  <2>2. f[n + 1] = GroupCells(chunks, g)
    BY <1>4
  <2>3. f = [j \in 1..(n + 1) |-> f[j]]
    OBVIOUS
  <2> HIDE DEF f
  <2> QED BY <2>1, <2>2, <2>3
<1> HIDE DEF f, old
<1>9. old \in Seq(Seq(Cells)) /\ GroupCells(chunks, g) \in Seq(Cells)
  <2>1. old \in Seq(Seq(Cells))
    BY <1>2, <1>6
  <2>2. GroupCells(chunks, g) \in Seq(Cells)
    BY GroupTyped
  <2> QED BY <2>1, <2>2
<1>10. FlattenSeq(Append(old, GroupCells(chunks, g))) = FlattenSeq(old) \o GroupCells(chunks, g)
  BY <1>9, FlattenNext
<1>11. FlattenSeq(old) \in Seq(Cells)
  BY <1>9, FlattenLayout
<1> QED BY <1>3, <1>5, <1>7, <1>8, <1>10, <1>11

(* A row is added to the last group, or begins one.                        *)
LEMMA AddsToGroup ==
  ASSUME NEW chunks, IsChunks(chunks), NEW groups \in Seq(GroupsOf(chunks)),
         NEW row \in 0..(RowsIn(chunks) - 1)
  PROVE  /\ AddToGroup(chunks, groups, row) \in Seq(GroupsOf(chunks))
         /\ GroupedCells(chunks, AddToGroup(chunks, groups, row)) =
              Append(GroupedCells(chunks, groups), Flatten(chunks)[row + 1])
<1>1. PICK k : k = ChunkOf(chunks, row)
  OBVIOUS
<1>2. PICK local : local = row - Base(chunks, k)
  OBVIOUS
<1>3. /\ k \in 1..Len(chunks) /\ local \in 0..(chunks[k].rows.len - 1)
      /\ Flatten(chunks)[row + 1] = ChunkValues(chunks[k])[local + 1]
  BY <1>1, <1>2, ChunkFound
<1>4. PICK chunk, cells : chunk = chunks[k] /\ cells = ChunkValues(chunk)
  OBVIOUS
<1>5. /\ WholeChunk(chunk) /\ cells \in Seq(Cells)
      /\ Len(cells) = chunk.rows.len /\ chunk.rows.len \in Nat
  <2>1. WholeChunk(chunk)
    BY <1>3, <1>4, Layout
  <2> QED BY <1>4, <2>1, ChunkShows DEF WholeChunk
<1>6. PICK m \in Nat : m = Len(cells)
  BY <1>5
<1>7. m = chunks[k].rows.len /\ local \in 0..(m - 1)
  BY <1>3, <1>4, <1>5, <1>6
<1>8. PICK value : value = cells[local + 1]
  OBVIOUS
<1>9. PICK R : R = GroupsOf(chunks)
  OBVIOUS
<1>10. PICK old : old = GroupedCells(chunks, groups)
  OBVIOUS
<1>11. CASE groups # <<>> /\ Last(groups).chunk = k
  <2>1. PICK n \in Nat : n = Len(groups) /\ n # 0
    BY <1>11, LenProperties, EmptySeq
  <2>2. PICK first, last : first = SubSeq(groups, 1, n - 1) /\ last = groups[n]
    OBVIOUS
  <2>3. /\ n \in 1..n /\ last \in R /\ first \in Seq(R)
        /\ groups = Append(first, last)
    <3>1. n \in 1..Len(groups)
      BY <2>1
    <3>2. SubSeq(groups, 1, n - 1) \in Seq(R) /\ SubSeq(groups, 1, n) = Append(SubSeq(groups, 1, n - 1), groups[n])
      BY <1>9, <3>1, SubSeqNext
    <3>3. SubSeq(groups, 1, Len(groups)) = groups
      BY SubSeqFull
    <3> QED BY <1>9, <2>1, <2>2, <3>1, <3>2, <3>3, ElementOfSeq
  <2>4. Front(groups) = first /\ Last(groups) = last
    BY <2>1, <2>2 DEF Front, Last
  <2>5. PICK locals : locals = last.locals
    OBVIOUS
  <2>6. last.chunk = k /\ locals \in Seq(0..(m - 1))
    <3>1. last.chunk = k
      BY <1>11, <2>4
    <3>2. last.locals \in Seq(0..(chunks[last.chunk].rows.len - 1))
      BY <1>9, <2>3, GroupTyped
    <3> QED BY <1>7, <2>5, <3>1, <3>2
  <2>7. PICK more : more = Append(locals, local)
    OBVIOUS
  <2>8. more \in Seq(0..(m - 1))
    BY <1>7, <2>6, <2>7, AppendProperties
  <2>9. PICK new : new = [chunk |-> k, locals |-> more]
    OBVIOUS
  <2>10. new \in R /\ GroupCells(chunks, new) = TakeValues(cells, more)
    BY <1>3, <1>4, <1>7, <1>9, <2>8, <2>9, NewGroup
  <2>11. AddToGroup(chunks, groups, row) = first \o <<new>>
    BY <1>1, <1>2, <1>11, <2>4, <2>5, <2>7, <2>9 DEF AddToGroup
  <2>12. AddToGroup(chunks, groups, row) = Append(first, new)
    BY <2>3, <2>10, <2>11, AppendIsConcat
  <2>13. /\ TakeValues(cells, more) = Append(TakeValues(cells, locals), value)
         /\ value \in Cells /\ TakeValues(cells, locals) \in Seq(Cells)
    <3>1. locals \in Seq(0..(Len(cells) - 1)) /\ local \in 0..(Len(cells) - 1)
      BY <1>6, <1>7, <2>6
    <3>2. /\ TakeValues(cells, Append(locals, local)) = Append(TakeValues(cells, locals), cells[local + 1])
          /\ cells[local + 1] \in Cells /\ TakeValues(cells, locals) \in Seq(Cells)
      BY <1>5, <3>1, TakenNext
    <3> QED BY <1>8, <2>7, <3>2
  <2>14. GroupCells(chunks, last) = TakeValues(cells, locals)
    BY <1>4, <2>5, <2>6 DEF GroupCells
  <2>15. /\ GroupedCells(chunks, Append(first, new)) = GroupedCells(chunks, first) \o GroupCells(chunks, new)
         /\ GroupedCells(chunks, Append(first, last)) = GroupedCells(chunks, first) \o GroupCells(chunks, last)
         /\ GroupedCells(chunks, first) \in Seq(Cells)
    BY <1>9, <2>3, <2>10, GroupedCellsNext
  <2>16. PICK s \in Seq(Cells), t \in Seq(Cells) :
           s = GroupedCells(chunks, first) /\ t = TakeValues(cells, locals)
    BY <2>13, <2>15
  <2>17. s \o Append(t, value) = Append(s \o t, value)
    BY <2>13, <2>16, ConcatNext
  <2>18. GroupedCells(chunks, Append(first, new)) = s \o Append(t, value)
    BY <2>10, <2>13, <2>15, <2>16
  <2>19. old = s \o t
    BY <1>10, <2>3, <2>14, <2>15, <2>16
  <2>20. Append(first, new) \in Seq(R)
    BY <2>3, <2>10, AppendProperties
  <2> QED BY <1>3, <1>4, <1>8, <1>9, <1>10, <2>12, <2>17, <2>18, <2>19, <2>20
<1>12. CASE ~ (groups # <<>> /\ Last(groups).chunk = k)
  <2>1. PICK one : one = <<local>>
    OBVIOUS
  <2>2. one \in Seq(0..(m - 1)) /\ one = Append(<<>>, local) /\ <<>> \in Seq(0..(m - 1))
    BY <1>7, <2>1, EmptySeq
  <2>3. PICK new : new = [chunk |-> k, locals |-> one]
    OBVIOUS
  <2>4. new \in R /\ GroupCells(chunks, new) = TakeValues(cells, one)
    BY <1>3, <1>4, <1>7, <1>9, <2>2, <2>3, NewGroup
  <2>5. AddToGroup(chunks, groups, row) = Append(groups, new)
    BY <1>1, <1>2, <1>12, <2>1, <2>3 DEF AddToGroup
  <2>6. TakeValues(cells, one) = Append(<<>>, value) /\ value \in Cells
    <3>1. TakeValues(cells, <<>>) = <<>>
      BY DEF TakeValues
    <3>2. PICK none \in Seq(0..(Len(cells) - 1)) : none = <<>>
      BY <1>6, <2>2
    <3>4. local \in 0..(Len(cells) - 1)
      BY <1>6, <1>7
    <3>3. TakeValues(cells, Append(none, local)) = Append(TakeValues(cells, none), cells[local + 1]) /\ cells[local + 1] \in Cells
      BY <1>5, <3>4, TakenNext
    <3> QED BY <1>8, <2>2, <3>1, <3>2, <3>3
  <2>7. /\ GroupedCells(chunks, Append(groups, new)) = old \o GroupCells(chunks, new)
        /\ old \in Seq(Cells)
    BY <1>9, <1>10, <2>4, GroupedCellsNext
  <2>8. old \o Append(<<>>, value) = Append(old, value)
    <3>1. PICK none \in Seq(Cells) : none = <<>>
      BY EmptySeq
    <3>2. old \o Append(none, value) = Append(old \o none, value) /\ old \o none = old
      BY <2>6, <2>7, <3>1, ConcatNext, ConcatEmptySeq
    <3> QED BY <3>1, <3>2
  <2>9. Append(groups, new) \in Seq(R)
    BY <1>9, <2>4, AppendProperties
  <2> QED BY <1>3, <1>4, <1>8, <1>9, <1>10, <2>4, <2>5, <2>6, <2>7, <2>8, <2>9
<1> QED BY <1>11, <1>12

(* GroupByChunk: the groups' cells are the selected cells.                 *)
LEMMA GroupsRows ==
  ASSUME NEW chunks, IsChunks(chunks)
  PROVE  \A s \in Seq(0..(RowsIn(chunks) - 1)) :
           /\ Grouped(chunks, s) \in Seq(GroupsOf(chunks))
           /\ GroupedCells(chunks, Grouped(chunks, s)) = TakeValues(Flatten(chunks), s)
<1> DEFINE P(s) == /\ Grouped(chunks, s) \in Seq(GroupsOf(chunks))
                   /\ GroupedCells(chunks, Grouped(chunks, s)) = TakeValues(Flatten(chunks), s)
<1>1. PICK v : v = Flatten(chunks)
  OBVIOUS
<1>2. PICK R : R = 0..(RowsIn(chunks) - 1)
  OBVIOUS
<1>3. v \in Seq(Cells) /\ RowsIn(chunks) = Len(v) /\ R = 0..(Len(v) - 1)
  BY <1>1, <1>2, Layout
<1> DEFINE S == {s \in Seq(R) : P(s)}
<1>4. <<>> \in S
  <2>1. <<>> \in Seq(R) /\ <<>> \in Seq(GroupsOf(chunks))
    BY EmptySeq
  <2>2. TakeValues(v, <<>>) = <<>>
    BY DEF TakeValues
  <2> QED BY <1>1, <2>1, <2>2, GroupedNone, GroupedCellsNone
<1>5. ASSUME NEW s \in Seq(R), NEW x \in R, s \in S PROVE Append(s, x) \in S
  <2>1. PICK groups \in Seq(GroupsOf(chunks)) : groups = Grouped(chunks, s)
    BY <1>5
  <2>2. GroupedCells(chunks, groups) = TakeValues(v, s)
    BY <1>1, <1>5, <2>1
  <2>3. Grouped(chunks, Append(s, x)) = AddToGroup(chunks, groups, x)
    BY <2>1, GroupedNext
  <2>4. x \in 0..(RowsIn(chunks) - 1)
    BY <1>2
  <2>5. /\ AddToGroup(chunks, groups, x) \in Seq(GroupsOf(chunks))
        /\ GroupedCells(chunks, AddToGroup(chunks, groups, x)) =
             Append(GroupedCells(chunks, groups), v[x + 1])
    BY <1>1, <2>4, AddsToGroup
  <2>6. s \in Seq(0..(Len(v) - 1)) /\ x \in 0..(Len(v) - 1)
    BY <1>3, <1>5
  <2>7. TakeValues(v, Append(s, x)) = Append(TakeValues(v, s), v[x + 1])
    BY <1>3, <2>6, TakenNext
  <2>8. Append(s, x) \in Seq(R)
    BY AppendProperties
  <2> QED BY <1>1, <2>2, <2>3, <2>5, <2>7, <2>8
<1> HIDE DEF S
<1>6. Seq(R) \subseteq S
  BY <1>4, <1>5, EverySeq
<1> QED BY <1>2, <1>6 DEF S

(* TakeChunks: a selection of a column's rows shows the selected cells,    *)
(* and a single owned chunk of it holds them all.                          *)
LEMMA TakesChunks ==
  ASSUME NEW chunks, IsChunks(chunks), NEW indices \in Seq(0..(RowsIn(chunks) - 1))
  PROVE  /\ Flatten(TakeChunks(chunks, indices)) = TakeValues(Flatten(chunks), indices)
         /\ Lendable(TakeChunks(chunks, indices)) =>
              TakeChunks(chunks, indices)[1].values = TakeValues(Flatten(chunks), indices)
<1>1. PICK shown : shown = TakeValues(Flatten(chunks), indices)
  OBVIOUS
<1>2. PICK T : T = 0..(RowsIn(chunks) - 1)
  OBVIOUS
<1>3. Kept(indices, T) = indices
  BY <1>2, KeptAll
<1>4. PICK groups : groups = Grouped(chunks, indices)
  OBVIOUS
<1>5. GroupByChunk(chunks, indices) = groups
  BY <1>2, <1>3, <1>4 DEF GroupByChunk, Grouped
<1>6. groups \in Seq(GroupsOf(chunks)) /\ GroupedCells(chunks, groups) = shown
  BY <1>1, <1>4, GroupsRows
<1>7. PICK n \in Nat : n = Len(groups) /\ DOMAIN groups = 1..n
  BY <1>6, LenProperties
<1>8. PICK taken : taken = TakeChunks(chunks, indices)
  OBVIOUS
<1>9. taken = [j \in 1..n |-> TakeChunk(chunks[groups[j].chunk], groups[j].locals)]
  BY <1>5, <1>7, <1>8 DEF TakeChunks
<1>10. ASSUME NEW j \in 1..n
       PROVE  /\ groups[j] \in GroupsOf(chunks)
              /\ ChunkValues(taken[j]) = GroupCells(chunks, groups[j])
              /\ ~ taken[j].mapped => taken[j].values = GroupCells(chunks, groups[j])
  <2>1. groups[j] \in GroupsOf(chunks)
    BY <1>6, <1>7, ElementOfSeq
  <2>2. PICK chunk, locals : chunk = chunks[groups[j].chunk] /\ locals = groups[j].locals
    OBVIOUS
  <2>3. WholeChunk(chunk) /\ locals \in Seq(0..(chunk.rows.len - 1))
    BY <2>1, <2>2, GroupTyped
  <2>4. taken[j] = TakeChunk(chunk, locals)
    BY <1>9, <2>2
  <2>5. GroupCells(chunks, groups[j]) = TakeValues(ChunkValues(chunk), locals)
    BY <2>2 DEF GroupCells
  <2>6. /\ ChunkValues(TakeChunk(chunk, locals)) = TakeValues(ChunkValues(chunk), locals)
        /\ ~ TakeChunk(chunk, locals).mapped =>
             TakeChunk(chunk, locals).values = TakeValues(ChunkValues(chunk), locals)
    BY <2>3, TakesChunk
  <2> QED BY <2>1, <2>4, <2>5, <2>6
<1>11. DOMAIN taken = 1..n
  BY <1>9
<1>12. Flatten(taken) = shown
  <2>1. [j \in DOMAIN taken |-> ChunkValues(taken[j])] = [j \in DOMAIN groups |-> GroupCells(chunks, groups[j])]
    BY <1>7, <1>10, <1>11
  <2> QED BY <1>6, <2>1 DEF Flatten, GroupedCells
<1>13. ASSUME Lendable(taken) PROVE taken[1].values = shown
  <2>1. Len(taken) = 1 /\ ~ taken[1].mapped
    BY <1>13 DEF Lendable
  <2>2. n = 1
    <3>1. Len(taken) = n
      BY <1>9
    <3> QED BY <2>1, <3>1
  <2>3. PICK g \in GroupsOf(chunks) : g = groups[1]
    BY <1>10, <2>2
  <2>4. <<>> \in Seq(GroupsOf(chunks)) /\ groups = Append(<<>>, g)
    <3>1. PICK one : one = Append(<<>>, g)
      OBVIOUS
    <3>2. <<>> \in Seq(GroupsOf(chunks)) /\ Len(<<>>) = 0
      BY EmptySeq
    <3>3. one \in Seq(GroupsOf(chunks)) /\ Len(one) = 1 /\ one[1] = g
      BY <3>1, <3>2, AppendProperties
    <3>4. one = groups
      BY <1>6, <1>7, <2>2, <2>3, <3>3, SeqEqual
    <3> QED BY <3>1, <3>2, <3>4
  <2>5. GroupedCells(chunks, Append(<<>>, g)) = GroupedCells(chunks, <<>>) \o GroupCells(chunks, g)
    BY <2>4, GroupedCellsNext
  <2>6. GroupCells(chunks, g) \in Seq(Cells)
    BY GroupTyped
  <2>7. <<>> \o GroupCells(chunks, g) = GroupCells(chunks, g)
    BY <2>6, ConcatEmptySeq
  <2>8. shown = GroupCells(chunks, g)
    BY <1>6, <2>4, <2>5, <2>7, GroupedCellsNone
  <2> QED BY <1>10, <2>1, <2>2, <2>3, <2>8
<1> QED BY <1>1, <1>8, <1>12, <1>13

-----------------------------------------------------------------------------
(* The rows a filter finds, as what is kept of the row numbers.            *)
Numbers(n) == [k \in 1..n |-> k - 1]

LEMMA NumbersTyped ==
  ASSUME NEW n \in Nat
  PROVE  Numbers(n) \in Seq(0..(n - 1)) /\ Len(Numbers(n)) = n
<1>1. \A k \in 1..n : k - 1 \in 0..(n - 1)
  OBVIOUS
<1> QED BY <1>1 DEF Numbers

LEMMA IndicesKept ==
  ASSUME NEW n \in Nat, NEW passes, DOMAIN passes = 1..n, NEW A,
         \A k \in 1..n : passes[k] <=> k - 1 \in A
  PROVE  Indices(passes) = Kept(Numbers(n), A)
<1> DEFINE P == 0..(n - 1)
           B == {k - 1 : k \in {j \in 1..n : passes[j]}}
<1>1. Indices(passes) = Kept(Numbers(n), B)
  BY DEF Indices, Numbers
<1>2. ASSUME NEW p \in P PROVE p \in B <=> p \in A
  <2>1. p + 1 \in 1..n /\ (p + 1) - 1 = p /\ \A k \in 1..n : k - 1 = p => k = p + 1
    OBVIOUS
  <2>2. p \in B <=> p + 1 \in {j \in 1..n : passes[j]}
    BY <2>1
  <2>3. p + 1 \in {j \in 1..n : passes[j]} <=> passes[p + 1]
    BY <2>1
  <2> QED BY <2>1, <2>2, <2>3
<1>3. Numbers(n) \in Seq(P)
  BY NumbersTyped
<1> HIDE DEF B, P
<1>4. Kept(Numbers(n), B) = Kept(Numbers(n), A)
  BY <1>2, <1>3, KeptAgree
<1> QED BY <1>1, <1>4

LEMMA SelectsRows ==
  ASSUME NEW R, NEW s \in Seq(R), NEW B, NEW A,
         \A k \in 1..Len(s) : k - 1 \in A <=> s[k] \in B
  PROVE  /\ Kept(Numbers(Len(s)), A) \in Seq(0..(Len(s) - 1))
         /\ Kept(s, B) = TakeValues(s, Kept(Numbers(Len(s)), A))
<1> DEFINE passes == [k \in 1..Len(s) |-> k - 1 \in A]
<1>1. Len(s) \in Nat
  BY LenProperties
<1>2. DOMAIN passes = 1..Len(s) /\ \A k \in 1..Len(s) : passes[k] <=> k - 1 \in A
  BY Zenon
<1> HIDE DEF passes
<1>3. \A k \in 1..Len(s) : passes[k] <=> s[k] \in B
  BY <1>2
<1>4. Indices(passes) \in Seq(0..(Len(s) - 1)) /\ Kept(s, B) = TakeValues(s, Indices(passes))
  BY <1>2, <1>3, Selects
<1>5. Indices(passes) = Kept(Numbers(Len(s)), A)
  BY <1>1, <1>2, IndicesKept
<1> QED BY <1>4, <1>5

(* The cells a predicate of floats is true of, as row numbers.             *)
Passing(values, predicate) ==
  {p \in 0..(Len(values) - 1) : TestF64(predicate, values[p + 1])}

Hits(values, predicate) == Kept(Numbers(Len(values)), Passing(values, predicate))

LEMMA HitsTyped ==
  ASSUME NEW values \in Seq(Cells), NEW predicate
  PROVE  Hits(values, predicate) \in Seq(0..(Len(values) - 1)) /\ Len(values) \in Nat
<1>1. Len(values) \in Nat
  BY LenProperties
<1>2. PICK numbers \in Seq(0..(Len(values) - 1)) : numbers = Numbers(Len(values))
  BY <1>1, NumbersTyped
<1>3. Kept(numbers, Passing(values, predicate)) \in
        Seq((0..(Len(values) - 1)) \cap Passing(values, predicate))
  BY KeptMembers
<1>4. (0..(Len(values) - 1)) \cap Passing(values, predicate) \subseteq 0..(Len(values) - 1)
  OBVIOUS
<1>5. Kept(numbers, Passing(values, predicate)) \in Seq(0..(Len(values) - 1))
  BY ONLY <1>3, <1>4, SeqMonotonic
<1> QED BY <1>1, <1>2, <1>5 DEF Hits

LEMMA VectorHits ==
  ASSUME NEW values \in Seq(Cells), NEW predicate, predicate.kind \in {"range", "gt"}
  PROVE  VectorFilter(values, predicate) = Hits(values, predicate)
<1>1. PICK n \in Nat : n = Len(values) /\ DOMAIN values = 1..n
  BY LenProperties
<1>2. PICK A : A = Passing(values, predicate)
  OBVIOUS
<1>3. ASSUME NEW k \in 1..n PROVE k - 1 \in A <=> TestF64(predicate, values[k])
  <2>1. k - 1 \in 0..(n - 1) /\ (k - 1) + 1 = k
    OBVIOUS
  <2> QED BY <1>1, <1>2, <2>1 DEF Passing
<1>4. CASE predicate.kind = "range"
  <2> DEFINE passes == [k \in 1..n |-> AtLeast(values[k], predicate.min) /\ Less(values[k], predicate.max)]
  <2>1. VectorFilter(values, predicate) = Indices(passes)
    BY <1>1, <1>4 DEF VectorFilter, RangeF64
  <2>2. \A k \in 1..n : passes[k] <=> AtLeast(values[k], predicate.min) /\ Less(values[k], predicate.max)
    BY Zenon
  <2>3. DOMAIN passes = 1..n
    BY Zenon
  <2> HIDE DEF passes
  <2>4. \A k \in 1..n : TestF64(predicate, values[k]) <=>
          AtLeast(values[k], predicate.min) /\ Less(values[k], predicate.max)
    BY <1>4 DEF TestF64, AtLeast, Less
  <2>5. \A k \in 1..n : passes[k] <=> k - 1 \in A
    BY <1>3, <2>2, <2>4, Zenon
  <2>6. Indices(passes) = Kept(Numbers(n), A)
    BY <2>3, <2>5, IndicesKept
  <2> QED BY <1>1, <1>2, <2>1, <2>6 DEF Hits
<1>5. CASE predicate.kind = "gt"
  <2> DEFINE passes == [k \in 1..n |-> Less(predicate.min, values[k])]
  <2>1. VectorFilter(values, predicate) = Indices(passes)
    BY <1>1, <1>5 DEF VectorFilter, GtF64
  <2>2. \A k \in 1..n : passes[k] <=> Less(predicate.min, values[k])
    BY Zenon
  <2>3. DOMAIN passes = 1..n
    BY Zenon
  <2> HIDE DEF passes
  <2>4. \A k \in 1..n : TestF64(predicate, values[k]) <=> Less(predicate.min, values[k])
    BY <1>5 DEF TestF64, AtLeast, Less
  <2>5. \A k \in 1..n : passes[k] <=> k - 1 \in A
    BY <1>3, <2>2, <2>4, Zenon
  <2>6. Indices(passes) = Kept(Numbers(n), A)
    BY <2>3, <2>5, IndicesKept
  <2> QED BY <1>1, <1>2, <2>1, <2>6 DEF Hits
<1> QED BY <1>4, <1>5

(* The hits behind m other cells.                                          *)
Behind(m, hits) == [j \in DOMAIN hits |-> m + hits[j]]

LEMMA BehindThrough ==
  ASSUME NEW D \in SUBSET Nat, NEW m \in Nat, NEW s \in Seq(D)
  PROVE  /\ Through([p \in D |-> m + p], s) = Behind(m, s)
         /\ Behind(m, s) \in Seq(Nat)
<1> DEFINE f == [p \in D |-> m + p]
<1>1. f \in [D -> Nat]
  OBVIOUS
<1>2. DOMAIN s = 1..Len(s) /\ \A j \in DOMAIN s : s[j] \in D
  BY LenProperties
<1>3. \A j \in DOMAIN s : f[s[j]] = m + s[j]
  BY <1>2
<1> HIDE DEF f
<1>4. Through(f, s) \in Seq(Nat)
  BY <1>1, ThroughSeq
<1>5. Through(f, s) = Behind(m, s)
  BY <1>3 DEF Through, Behind
<1> QED BY <1>4, <1>5 DEF f

LEMMA NumbersJoin ==
  ASSUME NEW m \in Nat, NEW n \in Nat
  PROVE  /\ Numbers(m + n) = Numbers(m) \o Behind(m, Numbers(n))
         /\ Behind(m, Numbers(n)) \in Seq(Nat) /\ Numbers(m) \in Seq(Nat)
<1>1. Behind(m, Numbers(n)) = [j \in 1..n |-> m + (j - 1)]
  BY DEF Behind, Numbers
<1>2. PICK more : more = Behind(m, Numbers(n))
  OBVIOUS
<1>3. \A j \in 1..n : m + (j - 1) \in Nat
  OBVIOUS
<1>4. more \in Seq(Nat) /\ Len(more) = n /\ \A j \in 1..n : more[j] = m + (j - 1)
  BY <1>1, <1>2, <1>3
<1>5. PICK less : less = Numbers(m)
  OBVIOUS
<1>6. less \in Seq(Nat) /\ Len(less) = m /\ \A k \in 1..m : less[k] = k - 1
  <2>1. \A k \in 1..m : k - 1 \in Nat
    OBVIOUS
  <2> QED BY <1>5, <2>1 DEF Numbers
<1>7. PICK both : both = less \o more
  OBVIOUS
<1>8. /\ both \in Seq(Nat) /\ Len(both) = m + n
      /\ \A k \in 1..m : both[k] = k - 1
      /\ \A j \in 1..n : both[m + j] = m + (j - 1)
  <2>1. less \in Seq(Nat) /\ more \in Seq(Nat)
    BY <1>4, <1>6
  <2>2. /\ less \o more \in Seq(Nat) /\ Len(less \o more) = Len(less) + Len(more)
        /\ \A i \in 1..Len(less) : (less \o more)[i] = less[i]
        /\ \A i \in 1..Len(more) : (less \o more)[Len(less) + i] = more[i]
    BY <2>1, ConcatAt
  <2>3. Len(less) = m /\ Len(more) = n
    BY <1>4, <1>6
  <2>4. /\ both \in Seq(Nat) /\ Len(both) = m + n
        /\ \A i \in 1..m : both[i] = less[i]
        /\ \A i \in 1..n : both[m + i] = more[i]
    BY <1>7, <2>2, <2>3
  <2> QED BY <1>4, <1>6, <2>4
<1>9. PICK all : all = Numbers(m + n)
  OBVIOUS
<1>10. all \in Seq(Nat) /\ Len(all) = m + n /\ \A k \in 1..(m + n) : all[k] = k - 1
  <2>1. \A k \in 1..(m + n) : k - 1 \in Nat
    OBVIOUS
  <2> QED BY <1>9, <2>1 DEF Numbers
<1>11. ASSUME NEW k \in 1..(m + n) PROVE all[k] = both[k]
  <2>1. CASE k \in 1..m
    BY <1>8, <1>10, <2>1
  <2>2. CASE k \notin 1..m
    <3>1. PICK j \in 1..n : k = m + j
      <4>1. k - m \in 1..n /\ k = m + (k - m)
        BY <2>2
      <4> QED BY <4>1
    <3>2. both[m + j] = m + (j - 1)
      BY <1>8
    <3>3. all[k] = k - 1 /\ k - 1 = m + (j - 1)
      BY <1>10, <3>1
    <3> QED BY <3>1, <3>2, <3>3
  <2> QED BY <2>1, <2>2
<1>12. all = both
  BY <1>8, <1>10, <1>11, SeqEqual
<1> QED BY <1>2, <1>4, <1>5, <1>6, <1>7, <1>9, <1>12

LEMMA HitsJoin ==
  ASSUME NEW u \in Seq(Cells), NEW w \in Seq(Cells), NEW predicate
  PROVE  Hits(u \o w, predicate) = Hits(u, predicate) \o Behind(Len(u), Hits(w, predicate))
<1>1. PICK m \in Nat, n \in Nat : m = Len(u) /\ n = Len(w)
  BY LenProperties
<1>2. PICK v : v = u \o w
  OBVIOUS
<1>3. /\ Len(v) = m + n
      /\ \A k \in 1..m : v[k] = u[k]
      /\ \A k \in 1..n : v[m + k] = w[k]
  BY <1>1, <1>2, ConcatAt
<1>4. PICK A, B, C : A = Passing(v, predicate) /\ B = Passing(u, predicate) /\ C = Passing(w, predicate)
  OBVIOUS
<1>5. \A p \in 0..(m - 1) : p \in A <=> p \in B
  <2> TAKE p \in 0..(m - 1)
  <2>1. p + 1 \in 1..m /\ p \in 0..((m + n) - 1)
    OBVIOUS
  <2>2. v[p + 1] = u[p + 1]
    BY <1>3, <2>1
  <2>3. p \in A <=> TestF64(predicate, v[p + 1])
    BY <1>3, <1>4, <2>1 DEF Passing
  <2>4. p \in B <=> TestF64(predicate, u[p + 1])
    BY <1>1, <1>4 DEF Passing
  <2> QED BY <2>2, <2>3, <2>4, Zenon
<1>6. \A p \in 0..(n - 1) : m + p \in A <=> p \in C
  <2> TAKE p \in 0..(n - 1)
  <2>1. p + 1 \in 1..n /\ m + p \in 0..((m + n) - 1) /\ (m + p) + 1 = m + (p + 1)
    OBVIOUS
  <2>2. v[(m + p) + 1] = w[p + 1]
    BY <1>3, <2>1
  <2>3. m + p \in A <=> TestF64(predicate, v[(m + p) + 1])
    BY <1>3, <1>4, <2>1 DEF Passing
  <2>4. p \in C <=> TestF64(predicate, w[p + 1])
    BY <1>1, <1>4 DEF Passing
  <2> QED BY <2>2, <2>3, <2>4, Zenon
<1>7. PICK less \in Seq(0..(m - 1)), tail \in Seq(0..(n - 1)) : less = Numbers(m) /\ tail = Numbers(n)
  BY NumbersTyped
<1>8. PICK more \in Seq(Nat) : more = Behind(m, tail)
  BY <1>7, NumbersJoin
<1>9. less \in Seq(Nat) /\ Numbers(m + n) = less \o more
  BY <1>7, <1>8, NumbersJoin
<1>10. Kept(less \o more, A) = Kept(less, A) \o Kept(more, A)
  BY <1>9, KeptOfBoth
<1>11. Kept(less, A) = Kept(less, B)
  <2>1. PICK P : P = 0..(m - 1)
    OBVIOUS
  <2>2. \A p \in P : p \in A <=> p \in B
    BY <1>5, <2>1
  <2>3. \A s \in Seq(P) : Kept(s, A) = Kept(s, B)
    BY <2>2, KeptAgree
  <2> QED BY <1>7, <2>1, <2>3
<1>12. PICK D : D = 0..(n - 1)
  OBVIOUS
<1>13. D \in SUBSET Nat /\ tail \in Seq(D)
  BY <1>7, <1>12
<1>14. PICK f : f = [p \in D |-> m + p]
  OBVIOUS
<1>15. f \in [D -> Nat] /\ \A p \in D : f[p] = m + p
  BY <1>13, <1>14
<1>16. more = Through(f, tail)
  BY <1>8, <1>13, <1>14, BehindThrough
<1>17. Kept(Through(f, tail), A) = Through(f, Kept(tail, Those(D, f, A)))
  BY <1>13, <1>15, KeptImage
<1>18. \A p \in D : p \in Those(D, f, A) <=> p \in C
  BY <1>6, <1>12, <1>15 DEF Those
<1>19. Kept(tail, Those(D, f, A)) = Kept(tail, C)
  <2>1. PICK E : E = Those(D, f, A)
    OBVIOUS
  <2>2. \A p \in D : p \in E <=> p \in C
    BY <1>18, <2>1
  <2>3. \A s \in Seq(D) : Kept(s, E) = Kept(s, C)
    BY <2>2, KeptAgree
  <2> QED BY <1>13, <2>1, <2>3
<1>20. Kept(tail, C) \in Seq(D)
  BY <1>1, <1>4, <1>7, <1>12, HitsTyped DEF Hits
<1>21. Through(f, Kept(tail, C)) = Behind(m, Kept(tail, C))
  BY <1>13, <1>14, <1>20, BehindThrough
<1>22. Hits(v, predicate) = Kept(less \o more, A) /\ Hits(u, predicate) = Kept(less, B) /\ Hits(w, predicate) = Kept(tail, C)
  BY <1>1, <1>3, <1>4, <1>7, <1>9 DEF Hits
<1> QED BY <1>1, <1>2, <1>10, <1>11, <1>16, <1>17, <1>19, <1>21, <1>22

(* FilterChunks finds what the predicate passes in the whole column.       *)
LEMMA FiltersChunk ==
  ASSUME NEW chunk, WholeChunk(chunk), NEW predicate, predicate.kind \in {"range", "gt"}
  PROVE  FilterChunk(chunk, predicate) = Hits(ChunkValues(chunk), predicate)
<1>1. /\ ChunkValues(chunk) \in Seq(Cells)
      /\ chunk.rows.kind = "all" => ChunkValues(chunk) = chunk.values
  BY ChunkShows
<1>2. FilterChunk(chunk, predicate) = VectorFilter(ChunkValues(chunk), predicate)
  BY <1>1 DEF FilterChunk
<1> QED BY <1>1, <1>2, VectorHits

Found(chunks, predicate) ==
  [k \in DOMAIN chunks |-> Behind(Base(chunks, k), FilterChunk(chunks[k], predicate))]

LEMMA FoundTyped ==
  ASSUME NEW chunks, IsChunks(chunks), NEW predicate, predicate.kind \in {"range", "gt"}
  PROVE  /\ Found(chunks, predicate) \in Seq(Seq(Nat))
         /\ DOMAIN Found(chunks, predicate) = 1..Len(chunks)
         /\ Len(Found(chunks, predicate)) = Len(chunks)
<1>1. PICK n \in Nat : n = Len(chunks) /\ DOMAIN chunks = 1..n
  BY Layout
<1>2. PICK found : found = Found(chunks, predicate)
  OBVIOUS
<1>3. found = [k \in 1..n |-> Behind(Base(chunks, k), FilterChunk(chunks[k], predicate))]
  BY <1>1, <1>2 DEF Found
<1>4. ASSUME NEW k \in 1..n PROVE found[k] \in Seq(Nat)
  <2>1. PICK m \in Nat : m = Base(chunks, k)
    BY <1>1, Layout
  <2>2. PICK chunk : chunk = chunks[k]
    OBVIOUS
  <2>3. WholeChunk(chunk)
    BY <1>1, <2>2, Layout
  <2>4. PICK values \in Seq(Cells) : values = ChunkValues(chunk)
    BY <2>3, ChunkShows
  <2>5. PICK D : D = 0..(Len(values) - 1)
    OBVIOUS
  <2>6. D \in SUBSET Nat
    BY <2>5
  <2>7. Hits(values, predicate) \in Seq(0..(Len(values) - 1))
    BY HitsTyped
  <2>8. PICK hits \in Seq(D) : hits = FilterChunk(chunk, predicate)
    BY <2>3, <2>4, <2>5, <2>7, FiltersChunk
  <2>9. Behind(m, hits) \in Seq(Nat)
    BY <2>6, BehindThrough
  <2> QED BY <1>3, <2>1, <2>2, <2>8, <2>9
<1>5. DOMAIN found = 1..n /\ Len(found) = n
  BY <1>3
<1>6. found \in Seq(Seq(Nat))
  <2>1. found = [k \in 1..n |-> found[k]]
    BY <1>3
  <2> QED BY <1>4, <2>1
<1> QED BY <1>1, <1>2, <1>5, <1>6

LEMMA FoundNext ==
  ASSUME NEW s, IsChunks(s), NEW x, WholeChunk(x), NEW predicate, predicate.kind \in {"range", "gt"}
  PROVE  /\ Found(Append(s, x), predicate) =
              Append(Found(s, predicate), Behind(RowsIn(s), FilterChunk(x, predicate)))
         /\ Behind(RowsIn(s), FilterChunk(x, predicate)) \in Seq(Nat)
<1>1. PICK R : R = ToSet(s) \cup {x}
  OBVIOUS
<1>2. s \in Seq(R) /\ x \in R
  <2>1. s \in Seq(ToSet(s)) /\ ToSet(s) \subseteq R
    BY <1>1 DEF IsChunks
  <2> QED BY <1>1, <2>1, SeqMonotonic
<1>3. PICK longer : longer = Append(s, x)
  OBVIOUS
<1>4. IsChunks(longer)
  BY <1>3, FlattenChunk
<1>5. PICK n \in Nat : n = Len(s) /\ DOMAIN s = 1..n
  BY Layout
<1>6. /\ Len(longer) = n + 1 /\ longer[n + 1] = x
      /\ \A k \in 1..n : longer[k] = s[k]
  BY <1>2, <1>3, <1>5, AppendProperties
<1>7. \A k \in 1..(n + 1) : Base(longer, k) = Base(s, k)
  BY <1>2, <1>3, <1>5, BaseOfLonger
<1>8. RowsIn(s) = Base(s, n + 1)
  BY <1>5, Layout
<1>9. PICK old \in Seq(Seq(Nat)), new \in Seq(Seq(Nat)) :
        old = Found(s, predicate) /\ new = Found(longer, predicate)
  BY <1>4, FoundTyped
<1>10. Len(old) = n /\ Len(new) = n + 1 /\ DOMAIN old = 1..n /\ DOMAIN new = 1..(n + 1)
  BY <1>4, <1>5, <1>6, <1>9, FoundTyped
<1>11. \A k \in 1..n : old[k] = Behind(Base(s, k), FilterChunk(s[k], predicate))
  BY <1>5, <1>9 DEF Found
<1>12. \A k \in 1..(n + 1) : new[k] = Behind(Base(longer, k), FilterChunk(longer[k], predicate))
  <2>1. DOMAIN longer = 1..(n + 1)
    BY <1>4, <1>6, Layout
  <2> QED BY <1>9, <2>1 DEF Found
<1>13. PICK last : last = Behind(RowsIn(s), FilterChunk(x, predicate))
  OBVIOUS
<1>14. new[n + 1] = last
  BY <1>6, <1>7, <1>8, <1>12, <1>13
<1>15. last \in Seq(Nat)
  <2>1. n + 1 \in 1..Len(new)
    BY <1>10
  <2> QED BY <1>14, <2>1, ElementOfSeq
<1>16. \A k \in 1..n : new[k] = old[k]
  BY <1>6, <1>7, <1>11, <1>12
<1>17. PICK both : both = Append(old, last)
  OBVIOUS
<1>18. /\ both \in Seq(Seq(Nat)) /\ Len(both) = n + 1 /\ both[n + 1] = last
       /\ \A k \in 1..n : both[k] = old[k]
  BY <1>10, <1>15, <1>17, AppendProperties
<1>19. \A k \in 1..(n + 1) : new[k] = both[k]
  <2>1. \A k \in 1..(n + 1) : k \in 1..n \/ k = n + 1
    OBVIOUS
  <2> QED BY <1>14, <1>16, <1>18, <2>1
<1>20. new = both
  BY <1>10, <1>18, <1>19, SeqEqual
<1> QED BY <1>3, <1>9, <1>13, <1>15, <1>17, <1>20

LEMMA FiltersChunks ==
  ASSUME NEW R, \A x \in R : WholeChunk(x), NEW predicate, predicate.kind \in {"range", "gt"}
  PROVE  \A s \in Seq(R) : FilterChunks(s, predicate) = Hits(Flatten(s), predicate)
<1>1. \A s : FilterChunks(s, predicate) = FlattenSeq(Found(s, predicate))
  BY DEF FilterChunks, Found, Behind
<1> DEFINE S == {s \in Seq(R) : FilterChunks(s, predicate) = Hits(Flatten(s), predicate)}
<1>2. <<>> \in S
  <2>1. <<>> \in Seq(R) /\ Found(<<>>, predicate) = <<>>
    BY EmptySeq DEF Found
  <2>2. Hits(<<>>, predicate) = <<>>
    <3>1. Numbers(Len(<<>>)) = <<>>
      BY EmptySeq DEF Numbers
    <3> QED BY <3>1, KeptNone DEF Hits
  <2> QED BY <1>1, <2>1, <2>2, FlattenNone, FlattenNoChunk
<1>3. ASSUME NEW s \in Seq(R), NEW x \in R, s \in S PROVE Append(s, x) \in S
  <2>1. IsChunks(s) /\ WholeChunk(x)
    BY RowsOfChunks
  <2>2. PICK u \in Seq(Cells), w \in Seq(Cells) : u = Flatten(s) /\ w = ChunkValues(x)
    BY <2>1, Layout, ChunkShows
  <2>3. Flatten(Append(s, x)) = u \o w
    BY <2>1, <2>2, FlattenChunk
  <2>4. Hits(u \o w, predicate) = Hits(u, predicate) \o Behind(Len(u), Hits(w, predicate))
    BY HitsJoin
  <2>5. RowsIn(s) = Len(u) /\ FilterChunk(x, predicate) = Hits(w, predicate)
    BY <2>1, <2>2, Layout, FiltersChunk
  <2>6. PICK old \in Seq(Seq(Nat)) : old = Found(s, predicate)
    BY <2>1, FoundTyped
  <2>7. PICK last : last = Behind(RowsIn(s), FilterChunk(x, predicate))
    OBVIOUS
  <2>8. last \in Seq(Nat) /\ Found(Append(s, x), predicate) = Append(old, last)
    BY <2>1, <2>6, <2>7, FoundNext
  <2>9. FlattenSeq(Append(old, last)) = FlattenSeq(old) \o last
    BY <2>8, FlattenNext
  <2>10. FlattenSeq(old) = Hits(u, predicate)
    BY <1>1, <1>3, <2>2, <2>6
  <2>11. FilterChunks(Append(s, x), predicate) = Hits(u \o w, predicate)
    BY <1>1, <2>4, <2>5, <2>7, <2>8, <2>9, <2>10
  <2> QED BY <2>3, <2>11, AppendProperties
<1> HIDE DEF S
<1>4. Seq(R) \subseteq S
  BY <1>2, <1>3, EverySeq
<1> QED BY <1>4 DEF S

LEMMA FiltersColumn ==
  ASSUME NEW chunks, IsChunks(chunks), NEW predicate, predicate.kind \in {"range", "gt"}
  PROVE  FilterChunks(chunks, predicate) = Hits(Flatten(chunks), predicate)
BY FiltersChunks DEF IsChunks

-----------------------------------------------------------------------------
(* TakeScan: the selected rows, in every column.                           *)
LEMMA CellsTaken ==
  ASSUME NEW rows \in Seq(RowSet), NEW indices \in Seq(0..(Len(rows) - 1)), NEW k \in DOMAIN Schema
  PROVE  /\ TakeValues(ColumnCells(rows, k), indices) = ColumnCells(TakeValues(rows, indices), k)
         /\ TakeValues(rows, indices) \in Seq(RowSet)
         /\ Len(TakeValues(rows, indices)) = Len(indices)
<1>1. PICK cells \in Seq(Cells) : cells = ColumnCells(rows, k)
  BY CellsTyped
<1>2. Len(cells) = Len(rows) /\ \A j \in 1..Len(rows) : cells[j] = rows[j][k]
  BY <1>1, CellsTyped
<1>3. PICK taken, shown : taken = TakeValues(rows, indices) /\ shown = TakeValues(cells, indices)
  OBVIOUS
<1>4. PICK n \in Nat : n = Len(indices)
  BY LenProperties
<1>5. /\ taken \in Seq(RowSet) /\ Len(taken) = n
      /\ \A i \in 1..n : indices[i] + 1 \in 1..Len(rows) /\ taken[i] = rows[indices[i] + 1]
  BY <1>3, <1>4, TakenAt
<1>6. /\ shown \in Seq(Cells) /\ Len(shown) = n
      /\ \A i \in 1..n : shown[i] = cells[indices[i] + 1]
  <2>1. indices \in Seq(0..(Len(cells) - 1))
    BY <1>2
  <2> QED BY <1>3, <1>4, <2>1, TakenAt
<1>7. PICK column \in Seq(Cells) : column = ColumnCells(taken, k)
  BY <1>5, CellsTyped
<1>8. Len(column) = n /\ \A i \in 1..n : column[i] = taken[i][k]
  BY <1>5, <1>7, CellsTyped
<1>9. \A i \in 1..n : shown[i] = column[i]
  BY <1>2, <1>5, <1>6, <1>8
<1>10. shown = column
  BY <1>6, <1>8, <1>9, <1>7, SeqEqual
<1> QED BY <1>1, <1>3, <1>4, <1>5, <1>7, <1>10

LEMMA TakesScan ==
  ASSUME NEW result, NEW rows, ScanOf(result, rows), NEW indices \in Seq(0..(Len(rows) - 1))
  PROVE  Shows(TakeScan(result, indices), TakeValues(rows, indices))
<1>1. /\ rows \in Seq(RowSet)
      /\ result = [err |-> NoError, rows |-> Len(rows), columns |-> result.columns]
      /\ \A k \in DOMAIN Schema :
           /\ IsChunks(result.columns[k].chunks)
           /\ Flatten(result.columns[k].chunks) = ColumnCells(rows, k)
  BY DEF ScanOf
<1>2. /\ DOMAIN result.columns = DOMAIN Schema
      /\ \A k \in DOMAIN Schema :
           result.columns[k] = ScanColumn(Schema[k].name, Schema[k].dtype, result.columns[k].chunks)
  BY DEF ScanOf
<1>3. PICK shown : shown = TakeValues(rows, indices)
  OBVIOUS
<1>4. N \in DOMAIN Schema
  BY SchemaIsSeq
<1>5. Len(shown) = Len(indices)
  BY <1>1, <1>3, <1>4, CellsTaken
<1>6. PICK taken : taken = TakeScan(result, indices)
  OBVIOUS
<1>7. PICK columns : columns = TakeColumns(result.columns, indices)
  OBVIOUS
<1>8. taken.err = NoError /\ taken.rows = Len(indices) /\ taken.columns = columns
  <2>1. PICK err, n, m, all : /\ err = NoError /\ n = Len(rows) /\ m = Len(indices)
                              /\ all = result.columns
    OBVIOUS
  <2>2. result = [err |-> err, rows |-> n, columns |-> all]
    BY <1>1, <2>1
  <2>3. taken = [result EXCEPT !.rows = m, !.columns = columns]
    BY <1>6, <1>7, <2>1 DEF TakeScan
  <2>4. taken = [err |-> err, rows |-> m, columns |-> columns]
    BY ONLY <2>2, <2>3
  <2> QED BY <2>1, <2>4
<1>9. ASSUME NEW k \in DOMAIN Schema
      PROVE  /\ Flatten(taken.columns[k].chunks) = ColumnCells(shown, k)
             /\ Lendable(taken.columns[k].chunks) =>
                  taken.columns[k].chunks[1].values = ColumnCells(shown, k)
  <2>1. PICK chunks, cells : chunks = result.columns[k].chunks /\ cells = ColumnCells(rows, k)
    OBVIOUS
  <2>2. IsChunks(chunks) /\ Flatten(chunks) = cells
    BY <1>1, <2>1
  <2>3. PICK new : new = TakeChunks(chunks, indices)
    OBVIOUS
  <2>4. taken.columns[k].chunks = new
    <3>1. columns[k] = [result.columns[k] EXCEPT !.chunks = TakeChunks(@, indices)]
      BY <1>2, <1>7 DEF TakeColumns
    <3>2. PICK name, dtype : name = Schema[k].name /\ dtype = Schema[k].dtype
      OBVIOUS
    <3>3. result.columns[k] = ScanColumn(name, dtype, chunks)
      BY <1>2, <2>1, <3>2
    <3>4. columns[k] = [ScanColumn(name, dtype, chunks) EXCEPT !.chunks = new]
      BY <2>1, <2>3, <3>1, <3>3
    <3>5. columns[k].chunks = new
      BY <3>4 DEF ScanColumn
    <3> QED BY <1>8, <3>5
  <2>5. RowsIn(chunks) = Len(rows)
    BY <1>1, <2>1, <2>2, Layout, CellsTyped
  <2>6. indices \in Seq(0..(RowsIn(chunks) - 1))
    BY <2>5
  <2>7. /\ Flatten(new) = TakeValues(cells, indices)
        /\ Lendable(new) => new[1].values = TakeValues(cells, indices)
    BY <2>2, <2>3, <2>6, TakesChunks
  <2>8. TakeValues(cells, indices) = ColumnCells(shown, k)
    BY <1>1, <1>3, <2>1, CellsTaken
  <2> QED BY <2>4, <2>7, <2>8
<1>10. Shows(taken, shown)
  BY <1>5, <1>8, <1>9 DEF Shows, ColumnCells
<1> QED BY <1>3, <1>6, <1>10

-----------------------------------------------------------------------------
(* The column of a predicate, by its name.                                 *)
NameIndex(columns, name) == SelectInSeq(columns, LAMBDA c : c.name = name)

LEMMA NameFound ==
  ASSUME NEW name
  PROVE  \/ NameIndex(Schema, name) = 0
         \/ /\ NameIndex(Schema, name) \in DOMAIN Schema
            /\ Schema[NameIndex(Schema, name)].name = name
<1> DEFINE I == {i \in 1..Len(Schema) : Schema[i].name = name}
<1>1. Len(Schema) \in Nat /\ DOMAIN Schema = 1..Len(Schema)
  BY SchemaIsSeq
<1>2. NameIndex(Schema, name) = IF I # {} THEN Min(I) ELSE 0
  BY DEF NameIndex, SelectInSeq
<1>3. I \in SUBSET Nat /\ I \subseteq DOMAIN Schema
  BY <1>1
<1>4. \A i \in I : Schema[i].name = name
  OBVIOUS
<1> HIDE DEF I
<1>5. I # {} => Min(I) \in I
  BY <1>3, LeastNumber
<1> QED BY <1>2, <1>3, <1>4, <1>5

LEMMA SameNames ==
  ASSUME NEW result, NEW rows, ScanOf(result, rows), NEW name
  PROVE  NameIndex(result.columns, name) = NameIndex(Schema, name)
<1>1. N \in Nat /\ DOMAIN Schema = 1..N
  BY SchemaIsSeq
<1>2. PICK columns : columns = result.columns
  OBVIOUS
<1>3. columns = [k \in 1..N |-> ScanColumn(Schema[k].name, Schema[k].dtype, columns[k].chunks)]
  BY <1>1, <1>2 DEF ScanOf
<1>4. Len(columns) = N
  BY <1>1, <1>3
<1>5. \A k \in 1..N : columns[k].name = Schema[k].name
  BY <1>3, ScanColumnFields
<1> DEFINE I == {i \in 1..N : columns[i].name = name}
           J == {i \in 1..N : Schema[i].name = name}
<1>6. I = J
  BY <1>5
<1>7. NameIndex(columns, name) = IF I # {} THEN Min(I) ELSE 0
  BY <1>4 DEF NameIndex, SelectInSeq
<1>8. NameIndex(Schema, name) = IF J # {} THEN Min(J) ELSE 0
  BY DEF NameIndex, SelectInSeq, N
<1> HIDE DEF I, J
<1> QED BY <1>2, <1>6, <1>7, <1>8

(* Numbers up to FloatExact are themselves as floats.                      *)
Exact(dtype, value) ==
  dtype.kind \in {"I64", "Timestamp"} => value \in Nat /\ value <= FloatExact

LEMMA TestSatisfies ==
  ASSUME NEW dtype \in DTypes, NEW value, Exact(dtype, value),
         NEW predicate, predicate.kind \in {"range", "gt", "scalar"},
         NEW column, column.dtype = dtype, NEW row, ValueAt(column.chunks, row) = value
  PROVE  TestAt(column, row, predicate) <=> Satisfies(dtype, value, predicate)
<1>1. dtype.kind \in {"F64", "I64", "Timestamp", "FixedStr"}
  BY DEF DTypes
<1>2. CASE dtype.kind = "F64"
  <2>1. TestAt(column, row, predicate) = TestF64(predicate, value)
    BY <1>2 DEF TestAt
  <2>2. CASE predicate.kind = "scalar"
    BY <1>2, <2>1, <2>2 DEF TestF64, Satisfies
  <2>3. CASE predicate.kind # "scalar"
    BY <1>2, <2>1, <2>3 DEF Satisfies
  <2> QED BY <2>2, <2>3
<1>3. CASE dtype.kind \in {"I64", "Timestamp"}
  <2>1. TestAt(column, row, predicate) = TestF64(predicate, AsF64(value))
    BY <1>3 DEF TestAt
  <2>2. value \in Nat /\ value <= FloatExact /\ FloatExact \in Nat
    BY <1>3, FloatExactAssumption DEF Exact
  <2>3. ~ (value > FloatExact \/ value < -FloatExact)
    BY <2>2
  <2>4. AsF64(value) = Float(value)
    BY <2>3 DEF AsF64
  <2>5. CASE predicate.kind = "scalar"
    BY <1>3, <2>1, <2>5 DEF TestF64, Satisfies
  <2>6. CASE predicate.kind # "scalar"
    BY <1>3, <2>1, <2>4, <2>6 DEF Satisfies
  <2> QED BY <2>5, <2>6
<1>4. CASE dtype.kind = "FixedStr"
  <2>1. TestAt(column, row, predicate) = (predicate.kind = "scalar" /\ value = predicate.value)
    BY <1>4 DEF TestAt
  <2> QED BY <1>4, <2>1 DEF Satisfies
<1> QED BY <1>1, <1>2, <1>3, <1>4

(* filter_scan_indices finds the rows that satisfy the predicate.          *)
Satisfying(rows, k, predicate) ==
  {p \in 0..(Len(rows) - 1) : Satisfies(Schema[k].dtype, rows[p + 1][k], predicate)}

Tested(column, rows, predicate) == {row \in 0..(rows - 1) : TestAt(column, row, predicate)}

LEMMA FindsRows ==
  ASSUME NEW result, NEW rows, ScanOf(result, rows),
         NEW predicate, predicate.kind \in {"range", "gt", "scalar"},
         NEW k \in DOMAIN Schema, k = NameIndex(Schema, predicate.column), k # 0,
         \A j \in 1..Len(rows) : Exact(Schema[k].dtype, rows[j][k])
  PROVE  FilterScan(result, predicate) =
           [err |-> NoError, indices |-> Kept(Numbers(Len(rows)), Satisfying(rows, k, predicate))]
<1>1. PICK dtype \in DTypes : dtype = Schema[k].dtype
  BY SchemaTypes
<1>2. PICK column, chunks : column = result.columns[k] /\ chunks = column.chunks
  OBVIOUS
<1>3. column.dtype = dtype
  <2>1. column = ScanColumn(Schema[k].name, Schema[k].dtype, chunks)
    BY <1>2 DEF ScanOf
  <2> QED BY <1>1, <2>1, ScanColumnFields
<1>4. PICK n \in Nat : n = Len(rows) /\ result.rows = n
  <2>1. rows \in Seq(RowSet) /\ result.rows = Len(rows)
    BY DEF ScanOf
  <2> QED BY <2>1, LenProperties
<1>5. PICK cells \in Seq(Cells) : cells = ColumnCells(rows, k)
  BY CellsTyped DEF ScanOf
<1>6. Len(cells) = n /\ \A j \in 1..n : cells[j] = rows[j][k]
  BY <1>4, <1>5, CellsTyped DEF ScanOf
<1>7. IsChunks(chunks) /\ Flatten(chunks) = cells /\ RowsIn(chunks) = n
  <2>1. IsChunks(chunks) /\ Flatten(chunks) = cells
    BY <1>2, <1>5 DEF ScanOf
  <2> QED BY <1>6, <2>1, Layout
<1>8. PICK A : A = Satisfying(rows, k, predicate)
  OBVIOUS
<1>9. ASSUME NEW p \in 0..(n - 1)
      PROVE  p + 1 \in 1..n /\ (p \in A <=> Satisfies(dtype, cells[p + 1], predicate))
  <2>1. p + 1 \in 1..n
    OBVIOUS
  <2>2. p \in A <=> Satisfies(dtype, rows[p + 1][k], predicate)
    BY <1>1, <1>4, <1>8 DEF Satisfying
  <2> QED BY <1>6, <2>1, <2>2
<1>10. PICK numbers, found : numbers = Numbers(n) /\ found = Tested(column, n, predicate)
  OBVIOUS
<1>11. FilterScan(result, predicate) =
         [err |-> NoError,
          indices |-> IF column.dtype.kind = "F64" /\ predicate.kind # "scalar"
                      THEN FilterChunks(chunks, predicate) ELSE Kept(numbers, found)]
  <2>1. NameIndex(result.columns, predicate.column) = k
    BY SameNames
  <2>2. FilterScan(result, predicate) =
          LET j == NameIndex(result.columns, predicate.column)
          IN  IF j = 0 THEN Failed("unknown column")
              ELSE [err |-> NoError,
                    indices |->
                      IF result.columns[j].dtype.kind = "F64" /\ predicate.kind # "scalar"
                      THEN FilterChunks(result.columns[j].chunks, predicate)
                      ELSE Kept(Numbers(result.rows), Tested(result.columns[j], result.rows, predicate))]
    BY DEF FilterScan, NameIndex, SelectInSeq, Numbers, Tested
  <2> QED BY <1>2, <1>4, <1>10, <2>1, <2>2
<1>12. CASE column.dtype.kind = "F64" /\ predicate.kind # "scalar"
  <2>1. FilterChunks(chunks, predicate) = Hits(cells, predicate)
    BY <1>7, <1>12, FiltersColumn
  <2>2. Hits(cells, predicate) = Kept(numbers, Passing(cells, predicate))
    BY <1>6, <1>10 DEF Hits
  <2>3. PICK P, B : P = 0..(n - 1) /\ B = Passing(cells, predicate)
    OBVIOUS
  <2>4. \A p \in P : p \in B <=> p \in A
    <3> TAKE p \in P
    <3>1. p \in 0..(n - 1)
      BY <2>3
    <3>2. p \in B <=> TestF64(predicate, cells[p + 1])
      BY <1>6, <2>3, <3>1 DEF Passing
    <3>3. Satisfies(dtype, cells[p + 1], predicate) = TestF64(predicate, cells[p + 1])
      BY <1>3, <1>12 DEF Satisfies
    <3>4. p \in A <=> Satisfies(dtype, cells[p + 1], predicate)
      BY <1>9, <3>1
    <3> QED BY <3>2, <3>3, <3>4
  <2>5. \A s \in Seq(P) : Kept(s, B) = Kept(s, A)
    BY <2>4, KeptAgree
  <2>6. numbers \in Seq(P)
    BY <1>10, <2>3, NumbersTyped
  <2>7. Kept(numbers, B) = Kept(numbers, A)
    BY <2>5, <2>6
  <2> QED BY <1>4, <1>8, <1>10, <1>11, <1>12, <2>1, <2>2, <2>3, <2>7
<1>13. CASE ~ (column.dtype.kind = "F64" /\ predicate.kind # "scalar")
  <2>1. PICK P : P = 0..(n - 1)
    OBVIOUS
  <2>2. \A p \in P : p \in found <=> p \in A
    <3> TAKE p \in P
    <3>1. p \in 0..(n - 1) /\ p \in 0..(RowsIn(chunks) - 1)
      BY <1>7, <2>1
    <3>2. PICK value : value = cells[p + 1]
      OBVIOUS
    <3>3. ValueAt(column.chunks, p) = value
      BY <1>2, <1>7, <3>1, <3>2, ChunkFound
    <3>4. Exact(dtype, value)
      BY <1>1, <1>4, <1>6, <1>9, <3>1, <3>2
    <3>5. TestAt(column, p, predicate) <=> Satisfies(dtype, value, predicate)
      BY <1>3, <3>3, <3>4, TestSatisfies
    <3>6. p \in found <=> TestAt(column, p, predicate)
      BY <1>10, <3>1 DEF Tested
    <3>7. p \in A <=> Satisfies(dtype, value, predicate)
      BY <1>9, <3>1, <3>2
    <3> QED BY <3>5, <3>6, <3>7
  <2>3. \A s \in Seq(P) : Kept(s, found) = Kept(s, A)
    BY <2>2, KeptAgree
  <2>4. numbers \in Seq(P)
    BY <1>10, <2>1, NumbersTyped
  <2>5. Kept(numbers, found) = Kept(numbers, A)
    BY <2>3, <2>4
  <2> QED BY <1>4, <1>8, <1>10, <1>11, <1>13, <2>5
<1> QED BY <1>12, <1>13

Meeting(rows, k, predicate) ==
  {row \in ToSet(rows) : Satisfies(Schema[k].dtype, row[k], predicate)}

LEMMA FiltersRows ==
  ASSUME NEW result, NEW rows, ScanOf(result, rows),
         NEW predicate, predicate.kind \in {"range", "gt", "scalar"},
         NEW k \in DOMAIN Schema, k = NameIndex(Schema, predicate.column), k # 0,
         \A j \in 1..Len(rows) : Exact(Schema[k].dtype, rows[j][k])
  PROVE  Shows(Where(result, predicate), Kept(rows, Meeting(rows, k, predicate)))
<1>1. rows \in Seq(RowSet) /\ result.err = NoError
  BY DEF ScanOf
<1>2. PICK A, B : A = Satisfying(rows, k, predicate) /\ B = Meeting(rows, k, predicate)
  OBVIOUS
<1>3. PICK indices : indices = Kept(Numbers(Len(rows)), A)
  OBVIOUS
<1>4. FilterScan(result, predicate) = [err |-> NoError, indices |-> indices]
  BY <1>2, <1>3, FindsRows
<1>5. Where(result, predicate) = TakeScan(result, indices)
  BY <1>1, <1>4 DEF Where
<1>6. Len(rows) \in Nat /\ DOMAIN rows = 1..Len(rows)
  BY <1>1, LenProperties
<1>7. \A j \in 1..Len(rows) : j - 1 \in A <=> rows[j] \in B
  <2> TAKE j \in 1..Len(rows)
  <2>1. j - 1 \in 0..(Len(rows) - 1) /\ (j - 1) + 1 = j
    BY <1>6
  <2>2. rows[j] \in ToSet(rows)
    BY <1>6 DEF ToSet
  <2>3. j - 1 \in A <=> Satisfies(Schema[k].dtype, rows[j][k], predicate)
    BY <1>2, <2>1 DEF Satisfying
  <2>4. rows[j] \in B <=> Satisfies(Schema[k].dtype, rows[j][k], predicate)
    BY <1>2, <2>2 DEF Meeting
  <2> QED BY <2>3, <2>4
<1>8. indices \in Seq(0..(Len(rows) - 1)) /\ Kept(rows, B) = TakeValues(rows, indices)
  BY <1>1, <1>3, <1>7, SelectsRows
<1>9. Shows(TakeScan(result, indices), TakeValues(rows, indices))
  BY <1>8, TakesScan
<1> QED BY <1>2, <1>5, <1>8, <1>9

LEMMA FiltersNothing ==
  ASSUME NEW result, NEW rows, ScanOf(result, rows), NEW predicate,
         NameIndex(Schema, predicate.column) = 0
  PROVE  Where(result, predicate).err # NoError
<1>1. result.err = NoError
  BY DEF ScanOf
<1>2. NameIndex(result.columns, predicate.column) = 0
  BY SameNames
<1>3. FilterScan(result, predicate) = Failed("unknown column")
  <2>1. FilterScan(result, predicate) =
          IF NameIndex(result.columns, predicate.column) = 0 THEN Failed("unknown column")
          ELSE FilterScan(result, predicate)
    BY DEF FilterScan, NameIndex, SelectInSeq
  <2> QED BY <1>2, <2>1
<1>4. PICK filtered : filtered = FilterScan(result, predicate)
  OBVIOUS
<1>5. filtered.err = "unknown column" /\ "unknown column" # NoError
  <2>1. \A e : Failed(e).err = e
    BY DEF Failed
  <2>2. "unknown column" # "none"
    OBVIOUS
  <2> QED BY <1>3, <1>4, <2>1, <2>2 DEF NoError
<1>6. Where(result, predicate) = Failed(filtered.err)
  BY <1>1, <1>4, <1>5 DEF Where
<1>7. Failed(filtered.err).err = filtered.err
  BY DEF Failed
<1> QED BY <1>5, <1>6, <1>7

(* The rows of a time range hold numbers that are floats.                  *)
LEMMA ExactRows ==
  ASSUME FilterInv, ExactNumbers, NEW predicate \in Predicates, NEW start, NEW end,
         NEW k \in DOMAIN Schema, Schema[k].name = predicate.column
  PROVE  \A j \in 1..Len(InRange(Rows, start, end)) :
           Exact(Schema[k].dtype, InRange(Rows, start, end)[j][k])
<1>1. Rows \in Seq(RowSet)
  <2>1. StoredRows(sealed) \in Seq(RowSet) /\ RowsOf(active) \in Seq(RowSet)
    BY SealedSegments DEF FilterInv, ScanInv
  <2> QED BY <2>1, RowsAreStored, ConcatProperties
<1>2. PICK all \in Seq(RowSet) : all = Rows
  BY <1>1
<1>3. PICK rows, T : rows = InRange(all, start, end) /\ T = RangeRows(start, end)
  OBVIOUS
<1>4. rows = Kept(all, T)
  BY <1>3, InRangeKept
<1>5. rows \in Seq(RowSet \cap T) /\ ToSet(rows) \subseteq ToSet(all)
  BY <1>4, KeptMembers
<1>6. ASSUME NEW j \in 1..Len(rows) PROVE Exact(Schema[k].dtype, rows[j][k])
  <2>1. rows[j] \in ToSet(rows)
    BY <1>5, LenProperties DEF ToSet
  <2>2. PICK number \in DOMAIN appended : rows[j] = RowCells(number, appended[number])
    BY <1>2, <1>5, <2>1 DEF FilterInv, ScanInv, StorageInv, RowsKept
  <2>3. /\ appended \in Seq(Times) /\ Len(appended) <= MaxRows
        /\ number \in 1..Len(appended) /\ Len(appended) \in Nat
    BY LenProperties DEF FilterInv, ScanInv
  <2>4. PICK time \in Times : time = appended[number]
    BY <2>3, ElementOfSeq
  <2>5. rows[j][k] = Cell(Schema[k].dtype, number, time)
    BY <2>2, <2>4 DEF RowCells
  <2>6. CASE Schema[k].dtype.kind = "Timestamp"
    <3>1. time \in Nat /\ time <= FloatExact
      BY <2>6, TimesAssumption DEF ExactNumbers
    <3>2. rows[j][k] = time
      BY <2>5, <2>6 DEF Cell
    <3> QED BY <3>1, <3>2 DEF Exact
  <2>7. CASE Schema[k].dtype.kind = "I64"
    <3>1. MaxRows <= FloatExact
      BY <2>7 DEF ExactNumbers
    <3>2. number \in Nat /\ number <= FloatExact
      BY <2>3, <3>1, BoundsAssumption, FloatExactAssumption
    <3>3. rows[j][k] = number
      BY <2>5, <2>7 DEF Cell
    <3> QED BY <3>2, <3>3 DEF Exact
  <2>8. CASE Schema[k].dtype.kind \notin {"I64", "Timestamp"}
    BY <2>8 DEF Exact
  <2> QED BY <2>6, <2>7, <2>8
<1> QED BY <1>2, <1>3, <1>6

(* scan_where shows the rows of the range that satisfy the predicate, in   *)
(* the order of the table, whether it tests vectors, selections of mapped  *)
(* columns or owned rows, and whatever chunks it takes them from; it fails *)
(* for a column the table does not have.  Integers are compared as floats, *)
(* so those of a filtered column must be floats exactly.                   *)
THEOREM FiltersAreAlwaysExact ==
  ASSUME KeepOrder, ExactNumbers
  PROVE  Spec => []FiltersAreExact
<1>1. Init => FilterInv
  <2>1. Init => ScanInv
    BY ScanInit
  <2>2. Init => Len(appended) = 0
    BY EmptySeq DEF Init
  <2> QED BY <2>1, <2>2, BoundsAssumption DEF FilterInv
<1>2. FilterInv /\ [Next]_vars => FilterInv'
  <2> SUFFICES ASSUME FilterInv, [Next]_vars PROVE FilterInv'
    OBVIOUS
  <2>1. ScanInv'
    BY ScanNext DEF FilterInv
  <2>2. appended \in Seq(Times) /\ Len(appended) <= MaxRows
    BY DEF FilterInv, ScanInv
  <2>3. ASSUME NEW S \in CallerSchemas, NEW fault \in Faults,
               NEW times \in BoundedSeq(Times, 2) \ {<<>>}, AppendRows(S, times, fault)
        PROVE  Len(appended') <= MaxRows
    <3>1. times \in Seq(Times)
      <4>1. PICK m \in 0..2 : times \in [1..m -> Times]
        BY DEF BoundedSeq, SeqOf
      <4> QED BY <4>1
    <3>2. Len(appended \o times) = Len(appended) + Len(times)
      BY <2>2, <3>1, ConcatProperties
    <3>3. (appended' = appended \o times \/ appended' = appended) /\ Len(appended) + Len(times) <= MaxRows
      BY <2>3 DEF AppendRows
    <3> QED BY <2>2, <3>2, <3>3
  <2>4. (Flush \/ (\E ids \in SUBSET (1..MaxSegments) : Compact(ids)) \/ Open \/ UNCHANGED vars)
          => appended' = appended
    BY DEF Flush, Compact, Open, vars
  <2>5. Len(appended') <= MaxRows
    BY <2>2, <2>3, <2>4 DEF Next
  <2> QED BY <2>1, <2>5 DEF FilterInv
<1>3. FilterInv => FiltersAreExact
  <2> SUFFICES ASSUME FilterInv, NEW start \in Times, NEW predicate \in Predicates
               PROVE  LET end == Max(Times)
                          scan == ScanTimeRange(start, end)
                          inRange == InRange(Rows, start, end)
                          k == NameIndex(Schema, predicate.column)
                      IN  IF k = 0 THEN Where(scan, predicate).err # NoError
                          ELSE Shows(Where(scan, predicate), Kept(inRange, Meeting(inRange, k, predicate)))
    BY DEF FiltersAreExact, NameIndex, Meeting, SelectInSeq
  <2>1. PICK end : end = Max(Times)
    OBVIOUS
  <2>2. start \in Nat /\ end \in Nat
    BY <2>1, RangeEnds
  <2>3. PICK scan, rows : scan = ScanTimeRange(start, end) /\ rows = InRange(Rows, start, end)
    OBVIOUS
  <2>4. ScanOf(scan, rows)
    BY <2>2, <2>3, ShowsRange DEF FilterInv
  <2>5. PICK k : k = NameIndex(Schema, predicate.column)
    OBVIOUS
  <2>6. CASE k = 0
    <3>1. Where(scan, predicate).err # NoError
      BY <2>4, <2>5, <2>6, FiltersNothing
    <3> QED BY <2>1, <2>3, <2>5, <2>6, <3>1
  <2>7. CASE k # 0
    <3>1. k \in DOMAIN Schema /\ Schema[k].name = predicate.column
      BY <2>5, <2>7, NameFound
    <3>2. \A j \in 1..Len(rows) : Exact(Schema[k].dtype, rows[j][k])
      BY <2>3, <3>1, ExactRows
    <3>3. predicate.kind \in {"range", "gt", "scalar"}
      BY PredicatesAssumption
    <3>4. Shows(Where(scan, predicate), Kept(rows, Meeting(rows, k, predicate)))
      BY <2>4, <2>5, <2>7, <3>1, <3>2, <3>3, FiltersRows
    <3> QED BY <2>1, <2>3, <2>5, <2>7, <3>4
  <2> QED BY <2>6, <2>7
<1> QED BY <1>1, <1>2, <1>3, PTL DEF Spec
=============================================================================
