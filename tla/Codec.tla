------------------------------- MODULE Codec -------------------------------
(***************************************************************************)
(* sql/codec and the parts of sql/expression it works on: values, their    *)
(* bytes, and the layout of the keys of the key-value store.               *)
(*                                                                         *)
(* A value is a record of its ExprValueType and u: a machine word (two's   *)
(* complement) for numbers, a sequence of bytes for strings.  Words have   *)
(* W64 and W32 bytes in place of 8 and 4, so that all of them fit into     *)
(* TLC's integers; W32 < W64 is what the definitions below need of them.   *)
(***************************************************************************)
EXTENDS Integers, Sequences, SequencesExt

CONSTANTS W32, W64

ASSUME CodecAssumption == W32 \in Nat \ {0} /\ W64 \in Nat /\ W32 < W64

Byte == 0 .. 255

-----------------------------------------------------------------------------
(* Words, bytes and text *)

\* The number of values n bytes have.
Pow256[n \in 0 .. W64] == IF n = 0 THEN 1 ELSE 256 * Pow256[n - 1]

\* The value of sizeof bytes as the signed type of the accessors reads it.
Signed(u, w) == IF u >= Pow256[w] \div 2 THEN u - Pow256[w] ELSE u

\* Mutant: the bytes of a word are not masked.
EncodeUIntUnmasked(u, w) == [i \in 1 .. w |-> u \div Pow256[w - i]]

\* htobe32, htobe64: the most significant byte first.
EncodeUInt(u, w) == [i \in 1 .. w |-> (u \div Pow256[w - i]) % 256]

DecodeUInt(bytes, w) ==
  LET upTo[i \in 0 .. w] == IF i = 0 THEN 0 ELSE 256 * upTo[i - 1] + bytes[i]
  IN  upTo[w]

EncodeBytes(bytes) == EncodeUInt(Len(bytes), W32) \o bytes

\* The bytes, and the size of what was read (-1: too short for its length).
DecodeBytes(in) ==
  LET len == DecodeUInt(in, W32)
  IN  IF W32 + len <= Len(in)
      THEN [u |-> SubSeq(in, W32 + 1, W32 + len), size |-> W32 + len]
      ELSE [u |-> <<>>, size |-> -1]

\* std::to_string, in ASCII.
Decimal ==
  LET digits[n \in 0 .. Pow256[W64]] ==
        IF n < 10 THEN <<48 + n>> ELSE Append(digits[n \div 10], 48 + (n % 10))
  IN  [n \in -Pow256[W64] .. Pow256[W64] |-> IF n < 0 THEN <<45>> \o digits[-n] ELSE digits[n]]

\* The order of std::string::compare, which DataCmp takes over.
LexLess(a, b) ==
  \/ IsStrictPrefix(a, b)
  \/ \E i \in 1 .. Len(a) :
       /\ i <= Len(b)
       /\ a[i] < b[i]
       /\ \A j \in 1 .. i - 1 : a[j] = b[j]

-----------------------------------------------------------------------------
(* Values *)

ExprValueType ==
  [Null |-> 0, Bool |-> 10, Int8 |-> 11, UInt8 |-> 12, Int32 |-> 15, UInt32 |-> 16,
   Int64 |-> 17, UInt64 |-> 18, Double |-> 25, String |-> 40, Invalid |-> 255]

IntWidth == [Int8 |-> 1, UInt8 |-> 1, Int32 |-> W32, UInt32 |-> W32, Int64 |-> W64, UInt64 |-> W64]

IsInt(type) == type \in DOMAIN IntWidth

\* The bytes a value takes in a tuple; a string takes an address and a length.
TypeSize(type) ==
  IF IsInt(type) THEN IntWidth[type] ELSE IF type = "String" THEN W64 + W32 ELSE 255

\* The type of a column as ExprValueType.
ToExprType(mysql) ==
  CASE mysql = "SHORT" -> "Int32"
    [] mysql \in {"LONG", "LONGLONG", "DECIMAL"} -> "Int64"
    [] mysql = "STRING" -> "String"
    [] OTHER -> "Null"

NewValue(type, u) == [type |-> type, u |-> u]

\* The largest and the smallest value of a type; that of Int64 is 0.
NewMax(type) ==
  CASE type \in {"Bool", "UInt8"} -> NewValue("UInt8", 255)
    [] type \in {"UInt32", "UInt64"} -> NewValue(type, Pow256[IntWidth[type]] - 1)
    [] type \in {"Int8", "Int32", "Int64"} -> NewValue(type, Pow256[IntWidth[type]] \div 2 - 1)
    [] OTHER -> NewValue(type, <<>>)

NewMin(type) ==
  CASE type \in {"Bool", "UInt8"} -> NewValue("UInt8", 0)
    [] type \in {"UInt32", "UInt64", "Int64"} -> NewValue(type, 0)
    [] type \in {"Int8", "Int32"} -> NewValue(type, Pow256[IntWidth[type]] \div 2)
    [] OTHER -> NewValue(type, <<>>)

\* ExprValue::ToString: what a value looks like in print and in the key of its row.
ToText(v) ==
  CASE IsInt(v.type) ->
         Decimal[IF v.type \in {"UInt8", "UInt32", "UInt64"} THEN v.u
                 ELSE Signed(v.u, IntWidth[v.type])]
    [] v.type = "String" -> v.u
    [] OTHER -> <<>>

EncodeExprValue(v) ==
  CASE IsInt(v.type) -> EncodeUInt(v.u, IntWidth[v.type])
    [] v.type = "String" -> EncodeBytes(v.u)
    [] OTHER -> <<>>

\* DecodeExprValue into NewEmpty(type); it has no case for Int8.
DecodeExprValue(in, type) ==
  CASE IsInt(type) /\ type # "Int8" ->
         [val |-> NewValue(type, DecodeUInt(in, IntWidth[type])), size |-> IntWidth[type]]
    [] type = "String" ->
         [val |-> NewValue(type, DecodeBytes(in).u), size |-> DecodeBytes(in).size]
    [] OTHER -> [val |-> NewValue(type, 0), size |-> 0]

\* A value with its type in front, as in the keys of an index, in its ranges and
\* in the value of a row.
TypedBytes(v) == <<ExprValueType[v.type]>> \o EncodeExprValue(v)

TypeOfCode(code) == CHOOSE t \in DOMAIN ExprValueType : ExprValueType[t] = code

-----------------------------------------------------------------------------
(* Keys of the store: two ids, a tag, and the rest *)

U64(n) == EncodeUInt(n, W64)

Global == U64(0) \o U64(0)   \* kGlobalDatabaseID, kGlobalTableID

EncodeDatabaseAllocID(bucket) == Global \o <<2>> \o U64(bucket)

EncodeTableAllocID(bucket) == Global \o <<3>> \o U64(bucket)

EncodeColumnAllocID(bucket) == Global \o <<4>> \o U64(bucket)

EncodeDatabaseID(db) == Global \o <<1>> \o U64(db)

DecodeDatabaseID(in) == DecodeUInt(SubSeq(in, 2 * W64 + 2, Len(in)), W64)

EncodeDatabaseName(name) == Global \o <<2>> \o EncodeBytes(name)

EncodeTableID(db, table) == Global \o <<3>> \o U64(db) \o U64(table)

DecodeTableID(in) ==
  LET at == 2 * W64 + 2
  IN  [db |-> DecodeUInt(SubSeq(in, at, Len(in)), W64),
       table |-> DecodeUInt(SubSeq(in, at + W64, Len(in)), W64)]

\* Mutant: the names of tables are not kept apart by database.
EncodeTableNameGlobal(db, name) == Global \o <<4>> \o EncodeBytes(name)

EncodeTableName(db, name) == Global \o <<4>> \o U64(db) \o EncodeBytes(name)

EncodeIndexTreeNodeID(db, table, index, node) ==
  U64(db) \o U64(table) \o <<0>> \o U64(index) \o U64(node)

EncodeDataKey(db, table, key) == U64(db) \o U64(table) \o <<1>> \o EncodeBytes(key)

EncodeMetaStatistic(db, table) == U64(db) \o U64(table) \o <<5>>

EncodeColumnStatistic(db, table, column) ==
  U64(db) \o U64(table) \o U64(column) \o <<6>>

=============================================================================
