---------------------------- MODULE MCTableScan ----------------------------
(***************************************************************************)
(* An instance of TableScan with a column of every type, with the vectors  *)
(* of the code scaled down to two values.                                  *)
(***************************************************************************)
EXTENDS TableScan

Def(name, kind, width) == [name |-> name, dtype |-> DType(kind, width)]

TicksSchema ==
  <<Def("ts", "Timestamp", 0), Def("px", "F64", 0), Def("id", "I64", 0), Def("tag", "FixedStr", 2)>>

(* Other schemas a caller may have: a type differs, a column is missing.   *)
OtherType == [TicksSchema EXCEPT ![2].dtype.kind = "I64"]
FewerColumns == SubSeq(TicksSchema, 1, 3)
KnownSchemas == {TicksSchema, OtherType, FewerColumns}

(* The same columns in another order.                                      *)
Swapped == <<TicksSchema[1], TicksSchema[3], TicksSchema[2], TicksSchema[4]>>
AnyOrder == {TicksSchema, Swapped}

SomePredicates ==
  {RangePredicate("px", Float(1), Float(3)), RangePredicate("px", NaN, Float(3)),
   GtPredicate("px", Float(1)), RangePredicate("id", Float(2), Float(4)),
   GtPredicate("ts", Float(0)), RangePredicate("tag", Float(0), Float(9)),
   ScalarPredicate("tag", <<2, 2>>), ScalarPredicate("px", <<1, 1>>),
   GtPredicate("none", Float(0))}
=============================================================================
