---------------------------- MODULE RowsProofs ----------------------------
(***************************************************************************)
(* Proofs about Rows: what INSERTs store, and that a SELECT finds it.      *)
(***************************************************************************)
EXTENDS Rows, CodecProofs, FiniteSetTheorems

-----------------------------------------------------------------------------
(* Parts one after the other *)

\* F has the first i of n parts together, for every i.
Flattens(F, n, seqs) ==
  /\ F[0] = <<>>
  /\ \A i \in 1 .. n : F[i] = F[i - 1] \o seqs[i]
  /\ FlattenSeq(seqs) = F[n]

\* FlattenSeq puts the parts together one by one.
LEMMA FlattenSteps ==
  ASSUME NEW S, NEW n \in Nat, NEW seqs \in [1 .. n -> Seq(S)]
  PROVE  \E F \in [0 .. n -> Seq(S)] : Flattens(F, n, seqs)
<1> DEFINE part(i) == IF i \in 1 .. n THEN seqs[i] ELSE <<>>
           step == [p \in (Nat \ {0}) \X Seq(S) |-> p[2] \o part(p[1])]
<1>1. <<>> \in Seq(S) /\ \A i \in Nat : part(i) \in Seq(S)
  BY EmptySeq
<1>2. step \in [(Nat \ {0}) \X Seq(S) -> Seq(S)]
  <2>1. \A p \in (Nat \ {0}) \X Seq(S) : p[2] \o part(p[1]) \in Seq(S)
    <3> TAKE p \in (Nat \ {0}) \X Seq(S)
    <3>1. p[2] \in Seq(S) /\ part(p[1]) \in Seq(S)
      BY <1>1
    <3> HIDE DEF part
    <3> QED
      BY <3>1, ConcatProperties
  <2> HIDE DEF part
  <2> QED
    BY <2>1
<1>3. \A j \in Nat \ {0} : \A x \in Seq(S) : step[<<j, x>>] = x \o part(j)
  <2> HIDE DEF part
  <2> QED
    OBVIOUS
<1> HIDE DEF step
<1>4. PICK f \in [0 .. n -> Seq(S)] : Steps(f, n, <<>>, step)
  BY <1>1, <1>2, StepsExist, Zenon
<1>5. f[0] = <<>> /\ \A i \in 1 .. n : f[i] = f[i - 1] \o seqs[i]
  <2>1. ASSUME NEW i \in 1 .. n PROVE f[i] = f[i - 1] \o seqs[i]
    <3>1. i \in Nat \ {0} /\ f[i - 1] \in Seq(S)
      BY <1>4
    <3>2. f[i] = step[<<i, f[i - 1]>>]
      BY <1>4 DEF Steps
    <3>3. step[<<i, f[i - 1]>>] = f[i - 1] \o part(i)
      BY <1>3, <3>1, Zenon
    <3>4. part(i) = seqs[i]
      OBVIOUS
    <3> QED
      BY <3>2, <3>3, <3>4, Zenon
  <2> QED
    BY <1>4, <2>1 DEF Steps
<1>6. seqs \in Seq(Seq(S)) /\ Len(seqs) = n
  BY IsASeq, LenProperties
<1>7. ASSUME n = 0 PROVE FlattenSeq(seqs) = f[n]
  <2>1. seqs = <<>>
    BY <1>6, <1>7, EmptySeq
  <2>2. FlattenSeq(seqs) = seqs
    BY <1>6, <1>7 DEF FlattenSeq
  <2> QED
    BY <1>5, <1>7, <2>1, <2>2
<1>8. ASSUME n # 0 PROVE FlattenSeq(seqs) = f[n]
  <2> DEFINE Eq(h) == h = [i \in 1 .. n |-> IF i = 1 THEN seqs[i] ELSE h[i - 1] \o seqs[i]]
             g == [i \in 1 .. n |-> f[i]]
             flat == CHOOSE h : Eq(h)
  <2>1. FlattenSeq(seqs) = flat[n]
    BY <1>6, <1>8 DEF FlattenSeq
  <2>2. f[1] = seqs[1]
    <3>1. 1 \in 1 .. n /\ 1 - 1 = 0
      BY <1>8
    <3>2. f[1] = <<>> \o seqs[1] /\ seqs[1] \in Seq(S)
      BY <1>5, <3>1
    <3> QED
      BY <3>2, ConcatEmptySeq
  <2>3. Eq(g)
    <3>1. \A i \in 1 .. n : g[i] = IF i = 1 THEN seqs[i] ELSE g[i - 1] \o seqs[i]
      <4> TAKE i \in 1 .. n
      <4>1. i # 1 => i - 1 \in 1 .. n
        OBVIOUS
      <4>2. g[i] = f[i] /\ (i # 1 => g[i - 1] = f[i - 1])
        BY <4>1
      <4>3. f[i] = f[i - 1] \o seqs[i]
        BY <1>5
      <4> HIDE DEF g
      <4> QED
        BY <2>2, <4>2, <4>3
    <3> QED
      BY <3>1
  <2>4. Eq(flat)
    <3> HIDE DEF Eq, g
    <3> QED
      BY <2>3
  <2>5. \A i \in 1 .. n : flat[i] = IF i = 1 THEN seqs[i] ELSE flat[i - 1] \o seqs[i]
    <3> HIDE DEF flat
    <3> QED
      BY <2>4
  <2> HIDE DEF flat, Eq
  <2> DEFINE T == {i \in 0 .. n : i = 0 \/ flat[i] = f[i]}
  <2>6. 0 \in T
    OBVIOUS
  <2>7. ASSUME NEW i \in 1 .. n, i - 1 \in T PROVE i \in T
    <3>1. CASE i = 1
      BY <2>2, <2>5, <3>1
    <3>2. CASE i # 1
      <4>1. flat[i] = flat[i - 1] \o seqs[i]
        BY <2>5, <3>2
      <4>2. flat[i - 1] = f[i - 1]
        BY <2>7, <3>2
      <4>3. f[i] = f[i - 1] \o seqs[i]
        BY <1>5
      <4>4. flat[i] = f[i]
        BY <4>1, <4>2, <4>3
      <4> QED
        BY <4>4
    <3> QED
      BY <3>1, <3>2
  <2>8. T \in SUBSET (0 .. n)
    OBVIOUS
  <2>9. T = 0 .. n
    <3> HIDE DEF T
    <3> QED
      BY <2>6, <2>7, <2>8, Induction
  <2>10. flat[n] = f[n]
    <3>1. n \in 0 .. n
      OBVIOUS
    <3>2. n \in T
      BY <2>9, <3>1
    <3> QED
      BY <1>8, <3>2
  <2> QED
    BY <2>1, <2>10
<1>9. FlattenSeq(seqs) = f[n]
  BY <1>7, <1>8
<1>10. Flattens(f, n, seqs)
  BY <1>5, <1>9 DEF Flattens
<1> QED
  BY <1>4, <1>10

LEMMA FlattenIsSeq ==
  ASSUME NEW S, NEW n \in Nat, NEW seqs \in [1 .. n -> Seq(S)]
  PROVE  FlattenSeq(seqs) \in Seq(S)
<1>1. PICK F \in [0 .. n -> Seq(S)] : Flattens(F, n, seqs)
  BY FlattenSteps
<1>2. F[n] \in Seq(S)
  OBVIOUS
<1> QED
  BY <1>1, <1>2 DEF Flattens

\* One part alone.
LEMMA FlattenOne ==
  ASSUME NEW S, NEW seqs \in [1 .. 1 -> Seq(S)]
  PROVE  FlattenSeq(seqs) = seqs[1]
<1>1. PICK n \in Nat : n = 1
  OBVIOUS
<1>2. PICK F \in [0 .. n -> Seq(S)] : Flattens(F, n, seqs)
  <2>1. seqs \in [1 .. n -> Seq(S)]
    BY <1>1
  <2> QED
    BY <2>1, FlattenSteps
<1>3. FlattenSeq(seqs) = <<>> \o seqs[1] /\ seqs[1] \in Seq(S)
  <2>1. F[1] = F[0] \o seqs[1] /\ F[0] = <<>> /\ FlattenSeq(seqs) = F[1]
    BY <1>1, <1>2 DEF Flattens
  <2>2. FlattenSeq(seqs) = <<>> \o seqs[1]
    BY <2>1, Zenon
  <2>3. seqs[1] \in Seq(S)
    OBVIOUS
  <2> QED
    BY <2>2, <2>3
<1> QED
  BY <1>3, ConcatEmptySeq

\* Where the parts are.
LEMMA FlattenParts ==
  ASSUME NEW n \in Nat, NEW seqs \in [1 .. n -> Bytes]
  PROVE  \E F \in [0 .. n -> Bytes] :
           /\ F[0] = <<>> /\ FlattenSeq(seqs) = F[n]
           /\ \A i \in 1 .. n :
                /\ Len(F[i]) = Len(F[i - 1]) + Len(seqs[i]) /\ Len(F[i]) <= Len(F[n])
                /\ \A j \in 1 .. Len(seqs[i]) : F[n][Len(F[i - 1]) + j] = seqs[i][j]
<1>1. PICK F \in [0 .. n -> Bytes] :
        /\ F[0] = <<>>
        /\ \A i \in 1 .. n : F[i] = F[i - 1] \o seqs[i]
        /\ FlattenSeq(seqs) = F[n]
  <2>1. \E F \in [0 .. n -> Seq(Byte)] : Flattens(F, n, seqs)
    BY FlattenSteps DEF Bytes
  <2> QED
    BY <2>1 DEF Flattens, Bytes
<1>2. \A i \in 0 .. n : F[i] \in Bytes /\ Len(F[i]) \in Nat
  BY <1>1, LenProperties DEF Bytes
<1>3. \A i \in 1 .. n : seqs[i] \in Bytes /\ Len(seqs[i]) \in Nat
  BY LenProperties DEF Bytes
<1>4. \A i \in 1 .. n :
        /\ Len(F[i]) = Len(F[i - 1]) + Len(seqs[i])
        /\ \A j \in 1 .. Len(F[i - 1]) : F[i][j] = F[i - 1][j]
        /\ \A j \in 1 .. Len(seqs[i]) : F[i][Len(F[i - 1]) + j] = seqs[i][j]
  <2> TAKE i \in 1 .. n
  <2>1. F[i - 1] \in Bytes /\ seqs[i] \in Bytes /\ F[i] = F[i - 1] \o seqs[i]
    <3>1. i - 1 \in 0 .. n
      OBVIOUS
    <3> QED
      BY <1>1, <1>2, <1>3, <3>1
  <2>2. Len(F[i - 1] \o seqs[i]) = Len(F[i - 1]) + Len(seqs[i])
    BY <2>1, Concatenation
  <2>3. /\ \A j \in 1 .. Len(F[i - 1]) : (F[i - 1] \o seqs[i])[j] = F[i - 1][j]
        /\ \A j \in 1 .. Len(seqs[i]) : (F[i - 1] \o seqs[i])[Len(F[i - 1]) + j] = seqs[i][j]
    BY <2>1, ItemOfConcatenation
  <2> QED
    BY <2>1, <2>2, <2>3
<1> DEFINE at(i) == Len(F[i - 1])
           T == {m \in 0 .. n : \A i \in 1 .. m :
                  /\ Len(F[i]) <= Len(F[m])
                  /\ \A j \in 1 .. Len(seqs[i]) : F[m][at(i) + j] = seqs[i][j]}
<1>5. 0 \in T
  OBVIOUS
<1>6. ASSUME NEW m \in 1 .. n, m - 1 \in T PROVE m \in T
  <2>1. /\ m - 1 \in 0 .. n /\ Len(F[m - 1]) \in Nat /\ Len(F[m]) \in Nat
        /\ Len(F[m - 1]) <= Len(F[m])
    <3>1. m - 1 \in 0 .. n /\ m \in 0 .. n
      OBVIOUS
    <3> QED
      BY <1>2, <1>3, <1>4, <3>1
  <2>2. ASSUME NEW i \in 1 .. m
        PROVE  /\ Len(F[i]) <= Len(F[m])
               /\ \A j \in 1 .. Len(seqs[i]) : F[m][at(i) + j] = seqs[i][j]
    <3>1. CASE i = m
      <4>1. \A j \in 1 .. Len(seqs[m]) : F[m][Len(F[m - 1]) + j] = seqs[m][j]
        BY <1>4
      <4> QED
        BY <2>1, <3>1, <4>1
    <3>2. CASE i # m
      <4>1. i \in 1 .. m - 1 /\ i \in 1 .. n /\ i - 1 \in 0 .. n /\ i \in 0 .. n
        BY <3>2
      <4>2. /\ Len(F[i]) <= Len(F[m - 1])
            /\ \A j \in 1 .. Len(seqs[i]) : F[m - 1][at(i) + j] = seqs[i][j]
        BY <1>6, <4>1
      <4>3. /\ Len(F[i]) = Len(F[i - 1]) + Len(seqs[i])
            /\ Len(F[i]) \in Nat /\ Len(F[i - 1]) \in Nat /\ Len(seqs[i]) \in Nat
        BY <1>2, <1>3, <1>4, <4>1
      <4>4. ASSUME NEW j \in 1 .. Len(seqs[i]) PROVE F[m][at(i) + j] = seqs[i][j]
        <5>1. PICK k : k = at(i) + j
          OBVIOUS
        <5>2. k \in 1 .. Len(F[m - 1])
          <6>1. PICK a, b, c : a = Len(F[i - 1]) /\ b = Len(seqs[i]) /\ c = Len(F[m - 1])
            OBVIOUS
          <6>2. a \in Nat /\ b \in Nat /\ c \in Nat /\ a + b <= c /\ j \in 1 .. b /\ k = a + j
            BY <2>1, <4>2, <4>3, <5>1, <6>1
          <6>3. k \in 1 .. c
            BY <6>2
          <6> QED
            BY <6>1, <6>3
        <5>3. F[m][k] = F[m - 1][k]
          BY <1>4, <5>2
        <5> QED
          BY <4>2, <5>1, <5>3
      <4>5. Len(F[i]) <= Len(F[m])
        <5>1. Len(F[i]) <= Len(F[m - 1]) /\ Len(F[i]) \in Nat
          BY <4>2, <4>3
        <5> QED
          BY <2>1, <5>1
      <4> QED
        BY <4>4, <4>5
    <3> QED
      BY <3>1, <3>2
  <2> QED
    BY <2>2
<1>7. T \in SUBSET (0 .. n)
  OBVIOUS
<1>8. T = 0 .. n
  <2> HIDE DEF T
  <2> QED
    BY <1>5, <1>6, <1>7, Induction
<1>9. n \in T
  BY <1>8
<1> QED
  BY <1>1, <1>4, <1>9

-----------------------------------------------------------------------------
(* Values and their bytes *)

\* The values a tuple holds, and the Null of a row without a tuple.
Values ==
  [type : {"Int64"}, u : 0 .. Pow256[W64] - 1]
    \cup [type : {"Int32"}, u : 0 .. Pow256[W32] - 1]
    \cup [type : {"String"}, u : {b \in Bytes : Len(b) <= Pow256[W32] - 1}]
    \cup [type : {"Null"}, u : {0}]

\* What the two tables of the codec say of them.
LEMMA TypesOfValues ==
  /\ IsInt("Int64") /\ IntWidth["Int64"] = W64 /\ ExprValueType["Int64"] = 17
  /\ IsInt("Int32") /\ IntWidth["Int32"] = W32 /\ ExprValueType["Int32"] = 15
  /\ ~IsInt("String") /\ ExprValueType["String"] = 40
  /\ ~IsInt("Null") /\ ExprValueType["Null"] = 0
BY DEF IsInt, IntWidth, ExprValueType

LEMMA TypesComeBack ==
  /\ TypeOfCode(17) = "Int64" /\ TypeOfCode(15) = "Int32"
  /\ TypeOfCode(40) = "String" /\ TypeOfCode(0) = "Null"
<1>1. DOMAIN ExprValueType = {"Null", "Bool", "Int8", "UInt8", "Int32", "UInt32", "Int64",
                              "UInt64", "Double", "String", "Invalid"}
  BY DEF ExprValueType
<1>2. \A s, t \in DOMAIN ExprValueType : ExprValueType[s] = ExprValueType[t] => s = t
  BY DEF ExprValueType
<1>3. \A t \in DOMAIN ExprValueType : TypeOfCode(ExprValueType[t]) = t
  <2> TAKE t \in DOMAIN ExprValueType
  <2>1. TypeOfCode(ExprValueType[t]) =
          CHOOSE s \in DOMAIN ExprValueType : ExprValueType[s] = ExprValueType[t]
    BY DEF TypeOfCode
  <2>2. /\ TypeOfCode(ExprValueType[t]) \in DOMAIN ExprValueType
        /\ ExprValueType[TypeOfCode(ExprValueType[t])] = ExprValueType[t]
    BY <2>1
  <2> QED
    BY <1>2, <2>2
<1> QED
  BY <1>1, <1>3, TypesOfValues

LEMMA Sizes ==
  /\ W64 \in Nat \ {0} /\ W32 \in Nat \ {0} /\ W64 \in 0 .. W64 /\ W32 \in 0 .. W64
  /\ Pow256[W64] \in Nat \ {0} /\ Pow256[W32] \in Nat \ {0}
<1>1. W64 \in Nat \ {0} /\ W32 \in Nat \ {0} /\ W32 < W64
  BY WordsAreNat
<1>2. W64 \in 0 .. W64 /\ W32 \in 0 .. W64
  BY <1>1
<1>3. Pow256[W64] \in Nat \ {0}
  BY <1>2, Powers
<1>4. Pow256[W32] \in Nat \ {0}
  BY <1>2, Powers
<1> QED
  BY <1>1, <1>2, <1>3, <1>4

\* What the encoding of a value is, kind by kind.
LEMMA EncodedValue ==
  ASSUME NEW v \in Values
  PROVE  /\ EncodeExprValue(v) \in Bytes
         /\ Len(EncodeExprValue(v)) \in Nat
         /\ v.type = "Int64" => v.u \in 0 .. Pow256[W64] - 1 /\ EncodeExprValue(v) = EncodeUInt(v.u, W64)
         /\ v.type = "Int32" => v.u \in 0 .. Pow256[W32] - 1 /\ EncodeExprValue(v) = EncodeUInt(v.u, W32)
         /\ v.type = "String" => /\ v.u \in Bytes /\ Len(v.u) <= Pow256[W32] - 1
                                 /\ EncodeExprValue(v) = EncodeBytes(v.u)
         /\ v.type = "Null" => v.u = 0 /\ EncodeExprValue(v) = <<>>
         /\ v = NewValue(v.type, v.u)
         /\ v.type \in {"Int64", "Int32", "String", "Null"}
<1>1. CASE v \in [type : {"Int64"}, u : 0 .. Pow256[W64] - 1]
  <2>1. v.type = "Int64" /\ v.u \in 0 .. Pow256[W64] - 1 /\ v = NewValue(v.type, v.u)
    BY <1>1 DEF NewValue
  <2>2. EncodeExprValue(v) = EncodeUInt(v.u, W64)
    BY <2>1, TypesOfValues DEF EncodeExprValue
  <2>3. v.u \in Nat
    BY <2>1, Sizes
  <2>4. EncodeUInt(v.u, W64) \in Bytes /\ Len(EncodeUInt(v.u, W64)) = W64
    BY <2>3, Sizes, WordBytes DEF Bytes
  <2> QED
    BY <2>1, <2>2, <2>4, Sizes
<1>2. CASE v \in [type : {"Int32"}, u : 0 .. Pow256[W32] - 1]
  <2>1. v.type = "Int32" /\ v.u \in 0 .. Pow256[W32] - 1 /\ v = NewValue(v.type, v.u)
    BY <1>2 DEF NewValue
  <2>2. EncodeExprValue(v) = EncodeUInt(v.u, W32)
    BY <2>1, TypesOfValues DEF EncodeExprValue
  <2>3. v.u \in Nat
    BY <2>1, Sizes
  <2>4. EncodeUInt(v.u, W32) \in Bytes /\ Len(EncodeUInt(v.u, W32)) = W32
    BY <2>3, Sizes, WordBytes DEF Bytes
  <2> QED
    BY <2>1, <2>2, <2>4, Sizes
<1>3. CASE v \in [type : {"String"}, u : {b \in Bytes : Len(b) <= Pow256[W32] - 1}]
  <2>1. /\ v.type = "String" /\ v.u \in Bytes /\ Len(v.u) <= Pow256[W32] - 1
        /\ v = NewValue(v.type, v.u)
    BY <1>3 DEF NewValue
  <2>2. EncodeExprValue(v) = EncodeBytes(v.u)
    BY <2>1, TypesOfValues DEF EncodeExprValue
  <2>3. EncodeBytes(v.u) \in Bytes /\ Len(EncodeBytes(v.u)) = W32 + Len(v.u) /\ Len(v.u) \in Nat
    BY <2>1, Texts, LenProperties DEF Bytes
  <2> QED
    BY <2>1, <2>2, <2>3, Sizes
<1>4. CASE v \in [type : {"Null"}, u : {0}]
  <2>1. v.type = "Null" /\ v.u = 0 /\ v = NewValue(v.type, v.u)
    BY <1>4 DEF NewValue
  <2>2. EncodeExprValue(v) = <<>>
    BY <2>1, TypesOfValues DEF EncodeExprValue
  <2>3. <<>> \in Bytes /\ Len(<<>>) = 0
    BY EmptySeq DEF Bytes
  <2> QED
    BY <2>1, <2>2, <2>3
<1> QED
  BY <1>1, <1>2, <1>3, <1>4 DEF Values

\* A value with its type in front.
LEMMA TypedLayout ==
  ASSUME NEW v \in Values
  PROVE  /\ TypedBytes(v) \in Bytes
         /\ Len(TypedBytes(v)) = 1 + Len(EncodeExprValue(v))
         /\ TypedBytes(v)[1] = ExprValueType[v.type]
         /\ TypeOfCode(TypedBytes(v)[1]) = v.type
         /\ \A j \in 1 .. Len(EncodeExprValue(v)) : TypedBytes(v)[1 + j] = EncodeExprValue(v)[j]
<1> DEFINE code == ExprValueType[v.type]
           bytes == EncodeExprValue(v)
<1>1. bytes \in Bytes /\ Len(bytes) \in Nat
  BY EncodedValue
<1>2. v.type \in {"Int64", "Int32", "String", "Null"}
  BY EncodedValue
<1>3. code \in Byte /\ TypeOfCode(code) = v.type
  BY <1>2, TypesOfValues, TypesComeBack DEF Byte
<1> HIDE DEF code, bytes
<1>4. <<code>> \in Bytes /\ Len(<<code>>) = 1
  BY <1>3, OneByte
<1>5. PICK head : head = <<code>>
  OBVIOUS
<1>6. head \in Bytes /\ Len(head) = 1 /\ head[1] = code
  BY <1>4, <1>5
<1>7. /\ head \o bytes \in Bytes /\ Len(head \o bytes) = Len(head) + Len(bytes)
      /\ \A j \in 1 .. Len(head) : (head \o bytes)[j] = head[j]
      /\ \A j \in 1 .. Len(bytes) : (head \o bytes)[Len(head) + j] = bytes[j]
  BY <1>1, <1>6, Concatenation, ItemOfConcatenation
<1>8. TypedBytes(v) = head \o bytes
  BY <1>5 DEF TypedBytes, code, bytes
<1>9. (head \o bytes)[1] = code
  BY <1>6, <1>7
<1> QED
  BY <1>3, <1>6, <1>7, <1>8, <1>9 DEF code, bytes

\* A text is read back, whatever follows it.
LEMMA TextIsRead ==
  ASSUME NEW a \in Bytes, Len(a) <= Pow256[W32] - 1, NEW in \in Bytes,
         W32 + Len(a) <= Len(in),
         \A j \in 1 .. W32 + Len(a) : in[j] = EncodeBytes(a)[j]
  PROVE  DecodeBytes(in) = [u |-> a, size |-> W32 + Len(a)]
<1> DEFINE head == EncodeUInt(Len(a), W32)
<1>0. Len(a) \in Nat /\ Len(in) \in Nat /\ Len(a) \in 0 .. Pow256[W32] - 1 /\ W32 \in Nat \ {0}
  <2>1. Len(a) \in Nat /\ Len(in) \in Nat
    BY LenProperties DEF Bytes
  <2> QED
    BY <2>1, Sizes
<1>1. head \in Bytes /\ Len(head) = W32
  <2>1. W32 \in 0 .. W64
    BY Sizes
  <2>2. head \in Seq(Byte) /\ Len(head) = W32
    BY <1>0, <2>1, WordBytes
  <2> QED
    BY <2>2 DEF Bytes
<1>2. /\ \A j \in 1 .. W32 : EncodeBytes(a)[j] = head[j]
      /\ \A j \in 1 .. Len(a) : EncodeBytes(a)[W32 + j] = a[j]
  <2>1. /\ \A j \in 1 .. Len(head) : (head \o a)[j] = head[j]
        /\ \A j \in 1 .. Len(a) : (head \o a)[Len(head) + j] = a[j]
    <3> HIDE DEF head
    <3> QED
      BY <1>1, ItemOfConcatenation
  <2>2. EncodeBytes(a) = head \o a
    BY DEF EncodeBytes
  <2> HIDE DEF head
  <2> QED
    BY <1>1, <2>1, <2>2
<1>3. DecodeUInt(in, W32) = Len(a)
  <2>1. \A j \in 1 .. W32 : in[j] = EncodeUInt(Len(a), W32)[j]
    <3> TAKE j \in 1 .. W32
    <3>1. j \in 1 .. W32 + Len(a)
      BY <1>0
    <3> QED
      BY <1>2, <3>1
  <2> QED
    BY <1>0, <2>1, Sizes, WordComesBack
<1>4. SubSeq(in, W32 + 1, W32 + Len(a)) = a
  <2>1. PICK b, k, m : b = SubSeq(in, k, m) /\ k = W32 + 1 /\ m = W32 + Len(a)
    OBVIOUS
  <2>2. k \in Int /\ m \in Int /\ k - 1 = W32 /\ m - k + 1 = Len(a)
    BY <1>0, <2>1
  <2>3. \A i \in k .. m : in[i] \in Byte
    <3> TAKE i \in k .. m
    <3>1. i \in 1 .. Len(in)
      BY <1>0, <2>1
    <3> QED
      BY <3>1, ElementOfSeq DEF Bytes
  <2>4. /\ b \in Seq(Byte) /\ Len(b) = (IF k <= m THEN m - k + 1 ELSE 0)
        /\ \A i \in 1 .. m - k + 1 : b[i] = in[k + i - 1]
    <3>1. SubSeq(in, k, m) \in Seq(Byte)
      BY <2>2, <2>3, SubSeqProperties
    <3>2. Len(SubSeq(in, k, m)) = IF k <= m THEN m - k + 1 ELSE 0
      BY <2>2, <2>3, SubSeqProperties
    <3>3. \A i \in 1 .. m - k + 1 : SubSeq(in, k, m)[i] = in[k + i - 1]
      BY <2>2, <2>3, SubSeqProperties
    <3> QED
      BY <2>1, <3>1, <3>2, <3>3, Zenon
  <2>5. Len(b) = Len(a)
    BY <1>0, <2>1, <2>2, <2>4
  <2>6. \A i \in 1 .. Len(b) : b[i] = a[i]
    <3> TAKE i \in 1 .. Len(b)
    <3>1. i \in 1 .. Len(a) /\ i \in 1 .. m - k + 1
      BY <2>2, <2>5
    <3>2. k + i - 1 = W32 + i /\ W32 + i \in 1 .. W32 + Len(a)
      BY <1>0, <2>1, <3>1
    <3>3. b[i] = in[W32 + i]
      BY <2>4, <3>1, <3>2
    <3> QED
      BY <1>2, <3>1, <3>2, <3>3
  <2> QED
    BY <2>1, <2>4, <2>5, <2>6, SeqEqual DEF Bytes
<1> QED
  BY <1>3, <1>4 DEF DecodeBytes

\* A value is read back, whatever follows it.
LEMMA ValueIsRead ==
  ASSUME NEW v \in Values, NEW in \in Bytes, Len(EncodeExprValue(v)) <= Len(in),
         \A j \in 1 .. Len(EncodeExprValue(v)) : in[j] = EncodeExprValue(v)[j]
  PROVE  DecodeExprValue(in, v.type) = [val |-> v, size |-> Len(EncodeExprValue(v))]
<1>1. CASE v.type = "Int64"
  <2>1. v.u \in 0 .. Pow256[W64] - 1 /\ EncodeExprValue(v) = EncodeUInt(v.u, W64)
    BY <1>1, EncodedValue
  <2>2. Len(EncodeUInt(v.u, W64)) = W64
    <3>1. v.u \in Nat
      BY <2>1, Sizes
    <3> QED
      BY <3>1, Sizes, WordBytes
  <2>3. DecodeUInt(in, W64) = v.u
    <3>1. W64 \in 0 .. W64 /\ \A j \in 1 .. W64 : in[j] = EncodeUInt(v.u, W64)[j]
      BY <2>1, <2>2, Sizes
    <3> QED
      BY <2>1, <3>1, WordComesBack
  <2>4. v = NewValue("Int64", v.u)
    BY <1>1, EncodedValue
  <2> QED
    BY <1>1, <2>1, <2>2, <2>3, <2>4, TypesOfValues DEF DecodeExprValue
<1>2. CASE v.type = "Int32"
  <2>1. v.u \in 0 .. Pow256[W32] - 1 /\ EncodeExprValue(v) = EncodeUInt(v.u, W32)
    BY <1>2, EncodedValue
  <2>2. Len(EncodeUInt(v.u, W32)) = W32
    <3>1. v.u \in Nat
      BY <2>1, Sizes
    <3> QED
      BY <3>1, Sizes, WordBytes
  <2>3. DecodeUInt(in, W32) = v.u
    <3>1. W32 \in 0 .. W64 /\ \A j \in 1 .. W32 : in[j] = EncodeUInt(v.u, W32)[j]
      BY <2>1, <2>2, Sizes
    <3> QED
      BY <2>1, <3>1, WordComesBack
  <2>4. v = NewValue("Int32", v.u)
    BY <1>2, EncodedValue
  <2> QED
    BY <1>2, <2>1, <2>2, <2>3, <2>4, TypesOfValues DEF DecodeExprValue
<1>3. CASE v.type = "String"
  <2>1. /\ v.u \in Bytes /\ Len(v.u) <= Pow256[W32] - 1 /\ EncodeExprValue(v) = EncodeBytes(v.u)
        /\ v = NewValue("String", v.u)
    BY <1>3, EncodedValue
  <2>2. Len(EncodeBytes(v.u)) = W32 + Len(v.u)
    BY <2>1, Texts
  <2>3. DecodeBytes(in) = [u |-> v.u, size |-> W32 + Len(v.u)]
    BY <2>1, <2>2, TextIsRead
  <2>4. DecodeExprValue(in, "String") =
          [val |-> NewValue("String", DecodeBytes(in).u), size |-> DecodeBytes(in).size]
    BY TypesOfValues DEF DecodeExprValue
  <2> QED
    BY <1>3, <2>1, <2>2, <2>3, <2>4
<1>4. CASE v.type = "Null"
  <2>1. v = NewValue("Null", 0) /\ Len(EncodeExprValue(v)) = 0
    BY <1>4, EncodedValue
  <2> QED
    BY <1>4, <2>1, TypesOfValues DEF DecodeExprValue
<1> QED
  BY <1>1, <1>2, <1>3, <1>4, EncodedValue

\* A value with its type is read back at its place in the value of a row.
LEMMA PlaceIsRead ==
  ASSUME NEW v \in Values, NEW value \in Bytes, NEW p \in Nat,
         p + Len(TypedBytes(v)) <= Len(value),
         \A j \in 1 .. Len(TypedBytes(v)) : value[p + j] = TypedBytes(v)[j]
  PROVE  DecodeAt(value, p + 1) = [val |-> v, size |-> Len(TypedBytes(v)) - 1]
<1>1. PICK n \in Nat : n = Len(EncodeExprValue(v))
  BY EncodedValue
<1>2. /\ Len(TypedBytes(v)) = 1 + n /\ TypeOfCode(TypedBytes(v)[1]) = v.type
      /\ \A j \in 1 .. n : TypedBytes(v)[1 + j] = EncodeExprValue(v)[j]
  BY <1>1, TypedLayout
<1>3. TypeOfCode(value[p + 1]) = v.type
  <2>1. 1 \in 1 .. Len(TypedBytes(v))
    BY <1>2
  <2> QED
    BY <1>2, <2>1
<1>4. PICK in, k, m : in = SubSeq(value, k, m) /\ k = p + 2 /\ m = Len(value)
  OBVIOUS
<1>5. k \in Int /\ m \in Nat /\ \A i \in k .. m : value[i] \in Byte
  <2>1. m \in Nat
    BY <1>4, LenProperties DEF Bytes
  <2>2. ASSUME NEW i \in k .. m PROVE value[i] \in Byte
    <3>1. i \in 1 .. Len(value)
      BY <1>4, <2>1
    <3> QED
      BY <3>1, ElementOfSeq DEF Bytes
  <2> QED
    BY <1>4, <2>1, <2>2
<1>6. /\ in \in Seq(Byte) /\ Len(in) = (IF k <= m THEN m - k + 1 ELSE 0)
      /\ \A i \in 1 .. m - k + 1 : in[i] = value[k + i - 1]
  <2>1. SubSeq(value, k, m) \in Seq(Byte)
    BY <1>5, SubSeqProperties
  <2>2. Len(SubSeq(value, k, m)) = IF k <= m THEN m - k + 1 ELSE 0
    BY <1>5, SubSeqProperties
  <2>3. \A i \in 1 .. m - k + 1 : SubSeq(value, k, m)[i] = value[k + i - 1]
    BY <1>5, SubSeqProperties
  <2> QED
    BY <1>4, <2>1, <2>2, <2>3, Zenon
<1>7. n <= Len(in)
  BY <1>2, <1>4, <1>5, <1>6
<1>8. \A j \in 1 .. n : in[j] = EncodeExprValue(v)[j]
  <2> TAKE j \in 1 .. n
  <2>1. j \in 1 .. m - k + 1 /\ k + j - 1 = p + (1 + j) /\ 1 + j \in 1 .. Len(TypedBytes(v))
    BY <1>2, <1>4, <1>5
  <2>2. in[j] = value[p + (1 + j)]
    BY <1>6, <2>1
  <2>3. value[p + (1 + j)] = TypedBytes(v)[1 + j]
    BY <2>1
  <2> QED
    BY <1>2, <2>2, <2>3
<1>9. DecodeExprValue(in, v.type) = [val |-> v, size |-> n]
  BY <1>1, <1>6, <1>7, <1>8, ValueIsRead DEF Bytes
<1>10. DecodeAt(value, p + 1) = DecodeExprValue(in, v.type)
  <2>1. (p + 1) + 1 = k
    BY <1>4
  <2> QED
    BY <1>3, <1>4, <2>1 DEF DecodeAt
<1> QED
  BY <1>2, <1>9, <1>10

-----------------------------------------------------------------------------
(* Decimal text *)

MaxWord == Pow256[W64]

\* One more digit.
Digit(d, n) == IF n < 10 THEN <<48 + n>> ELSE Append(d[n \div 10], 48 + (n % 10))

LEMMA Tens ==
  ASSUME NEW n \in Nat
  PROVE  /\ n % 10 \in 0 .. 9 /\ n \div 10 \in Nat
         /\ n = 10 * (n \div 10) + (n % 10)
         /\ n >= 10 => n \div 10 \in 1 .. n - 1
OBVIOUS

\* A digit is a byte, and the first one of a number under 10.
LEMMA DigitIsText ==
  ASSUME NEW n \in Nat, NEW d, n >= 10 => d[n \div 10] \in Bytes
  PROVE  /\ Digit(d, n) \in Bytes
         /\ n < 10 => Len(Digit(d, n)) = 1 /\ Digit(d, n)[1] = 48 + n
         /\ n >= 10 => /\ Len(Digit(d, n)) = Len(d[n \div 10]) + 1
                       /\ \A i \in 1 .. Len(d[n \div 10]) : Digit(d, n)[i] = d[n \div 10][i]
<1>1. n % 10 \in 0 .. 9
  BY Tens
<1>2. 48 + (n % 10) \in Byte /\ (n < 10 => 48 + n \in Byte)
  <2> HIDE DEF Bytes
  <2>1. PICK m \in 0 .. 9 : m = n % 10
    BY <1>1
  <2> QED
    BY <2>1 DEF Byte
<1>3. CASE n < 10
  <2>1. PICK x \in Byte : x = 48 + n
    BY <1>2, <1>3
  <2>2. Digit(d, n) = <<x>>
    BY <1>3, <2>1 DEF Digit
  <2>3. <<x>> \in Bytes /\ Len(<<x>>) = 1 /\ <<x>>[1] = x
    BY <2>1, OneByte
  <2> QED
    BY <1>3, <2>1, <2>2, <2>3
<1>4. CASE n >= 10
  <2>1. PICK e, x : e = d[n \div 10] /\ x = 48 + (n % 10)
    OBVIOUS
  <2>2. e \in Seq(Byte) /\ x \in Byte
    BY <1>2, <1>4, <2>1 DEF Bytes
  <2>3. /\ Append(e, x) \in Seq(Byte) /\ Len(Append(e, x)) = Len(e) + 1
        /\ \A i \in 1 .. Len(e) : Append(e, x)[i] = e[i]
    BY <2>2, AppendProperties
  <2>4. Digit(d, n) = Append(e, x)
    BY <1>4, <2>1 DEF Digit
  <2> QED
    BY <1>4, <2>1, <2>3, <2>4 DEF Bytes
<1> QED
  BY <1>3, <1>4

\* The digits of the numbers up to n, given those of the smaller ones.
DigitsUpTo(d, n) == \A m \in 0 .. n : d[m] = Digit(d, m)

LEMMA DigitsExist ==
  ASSUME NEW n \in Nat
  PROVE  \E d \in [0 .. n -> Bytes] : DigitsUpTo(d, n)
<1> DEFINE T == {m \in 0 .. n : \E d \in [0 .. m -> Bytes] : DigitsUpTo(d, m)}
<1>1. 0 \in T
  <2> DEFINE d == [i \in 0 .. 0 |-> <<48>>]
  <2>1. <<48>> \in Bytes
    BY OneByte DEF Byte
  <2>2. d \in [0 .. 0 -> Bytes] /\ DigitsUpTo(d, 0)
    BY <2>1 DEF DigitsUpTo, Digit
  <2> QED
    BY <2>2
<1>2. ASSUME NEW m \in 1 .. n, m - 1 \in T PROVE m \in T
  <2>1. PICK d \in [0 .. m - 1 -> Bytes] : DigitsUpTo(d, m - 1)
    BY <1>2
  <2>2. m \in Nat /\ (m >= 10 => m \div 10 \in 0 .. m - 1)
    BY Tens
  <2> DEFINE new == Digit(d, m)
             e == [i \in 0 .. m |-> IF i = m THEN new ELSE d[i]]
  <2>3. new \in Bytes
    BY <2>1, <2>2, DigitIsText
  <2>4. \A k \in 0 .. m : Digit(e, k) = Digit(d, k)
    <3> TAKE k \in 0 .. m
    <3>1. k >= 10 => k \div 10 \in 0 .. m - 1
      BY Tens
    <3>2. k >= 10 => e[k \div 10] = d[k \div 10]
      BY <3>1
    <3> HIDE DEF e
    <3> QED
      BY <3>2 DEF Digit
  <2>5. e \in [0 .. m -> Bytes]
    <3> HIDE DEF new
    <3> QED
      BY <2>1, <2>3
  <2>6. \A k \in 0 .. m : e[k] = Digit(d, k)
    <3> TAKE k \in 0 .. m
    <3>1. CASE k = m
      BY <3>1
    <3>2. CASE k # m
      <4>1. k \in 0 .. m - 1 /\ e[k] = d[k]
        BY <3>2
      <4> QED
        BY <2>1, <4>1 DEF DigitsUpTo
    <3> QED
      BY <3>1, <3>2
  <2> HIDE DEF e
  <2>7. DigitsUpTo(e, m)
    BY <2>4, <2>6 DEF DigitsUpTo
  <2> QED
    BY <2>5, <2>7
<1>3. T \in SUBSET (0 .. n)
  OBVIOUS
<1>4. T = 0 .. n
  <2> HIDE DEF T
  <2> QED
    BY <1>1, <1>2, <1>3, Induction
<1>5. n \in T
  BY <1>4
<1> QED
  BY <1>5

\* Decimal consists of digits, behind a sign for negative numbers.
LEMMA DecimalDigits ==
  \E d \in [0 .. MaxWord -> Bytes] :
    /\ DigitsUpTo(d, MaxWord)
    /\ \A n \in -MaxWord .. MaxWord : Decimal[n] = IF n < 0 THEN <<45>> \o d[-n] ELSE d[n]
<1> DEFINE N == MaxWord
           Eq(g) == g = [n \in 0 .. N |-> Digit(g, n)]
           digits == CHOOSE g : Eq(g)
<1>0. N \in Nat
  BY Sizes DEF MaxWord
<1>1. PICK d \in [0 .. N -> Bytes] : DigitsUpTo(d, N)
  BY <1>0, DigitsExist, Zenon
<1>2. Eq(d)
  BY <1>1 DEF DigitsUpTo
<1>3. Eq(digits)
  <2> HIDE DEF Eq
  <2> QED
    BY <1>2
<1>4. Decimal = [n \in -N .. N |-> IF n < 0 THEN <<45>> \o digits[-n] ELSE digits[n]]
  BY DEF Decimal, Digit, MaxWord
<1> HIDE DEF digits
<1>5. DOMAIN digits = 0 .. N /\ \A n \in 0 .. N : digits[n] = Digit(digits, n)
  BY <1>3
<1> HIDE DEF Eq
<1> DEFINE T == {m \in 0 .. N : \A n \in 0 .. m : digits[n] = d[n]}
<1>6. 0 \in T
  <2>1. 0 \in 0 .. N /\ \A n \in 0 .. 0 : n = 0
    BY <1>0
  <2>2. digits[0] = Digit(digits, 0) /\ d[0] = Digit(d, 0)
    BY <1>1, <1>5, <2>1 DEF DigitsUpTo
  <2>3. digits[0] = d[0]
    BY <2>2 DEF Digit
  <2> QED
    BY <2>1, <2>3
<1>7. ASSUME NEW m \in 1 .. N, m - 1 \in T PROVE m \in T
  <2>1. digits[m] = Digit(digits, m) /\ d[m] = Digit(d, m)
    BY <1>0, <1>1, <1>5 DEF DigitsUpTo
  <2>2. m >= 10 => digits[m \div 10] = d[m \div 10]
    <3>1. m \in Nat /\ (m >= 10 => m \div 10 \in 0 .. m - 1)
      BY <1>0, Tens
    <3> QED
      BY <1>7, <3>1
  <2>3. digits[m] = d[m]
    BY <1>0, <2>1, <2>2 DEF Digit
  <2>4. \A n \in 0 .. m : n = m \/ n \in 0 .. m - 1
    BY <1>0
  <2> QED
    BY <1>0, <1>7, <2>3, <2>4
<1>8. T \in SUBSET (0 .. N)
  OBVIOUS
<1>9. T = 0 .. N
  <2> HIDE DEF T, N
  <2> QED
    BY <1>0, <1>6, <1>7, <1>8, Induction
<1>10. \A n \in 0 .. N : digits[n] = d[n]
  <2>1. N \in T
    <3>1. N \in 0 .. N
      BY <1>0
    <3> HIDE DEF T
    <3> QED
      BY <1>9, <3>1
  <2> QED
    BY <2>1
<1>11. \A n \in -N .. N : Decimal[n] = IF n < 0 THEN <<45>> \o d[-n] ELSE d[n]
  <2> HIDE DEF N
  <2> TAKE n \in -N .. N
  <2>1. Decimal[n] = IF n < 0 THEN <<45>> \o digits[-n] ELSE digits[n]
    BY <1>4
  <2>2. IF n < 0 THEN -n \in 0 .. N ELSE n \in 0 .. N
    BY <1>0
  <2> QED
    BY <1>10, <2>1, <2>2
<1> QED
  BY <1>1, <1>11

\* Numbers have digits, no more than they count, and different ones.
LEMMA DigitsDiffer ==
  ASSUME NEW N \in Nat, NEW d \in [0 .. N -> Bytes], DigitsUpTo(d, N)
  PROVE  /\ \A n \in 0 .. N : /\ Len(d[n]) \in Nat \ {0} /\ d[n][1] \in 48 .. 57
                              /\ n # 0 => Len(d[n]) <= n
         /\ \A n, m \in 0 .. N : d[n] = d[m] => n = m
<1>1. \A n \in 0 .. N :
        /\ n < 10 => Len(d[n]) = 1 /\ d[n][1] = 48 + n
        /\ n >= 10 => \E q \in 1 .. n - 1 :
                        /\ q = n \div 10 /\ q \in 0 .. N /\ d[q] \in Bytes /\ Len(d[q]) \in Nat
                        /\ Len(d[n]) = Len(d[q]) + 1
                        /\ d[n] = Append(d[q], 48 + (n % 10))
                        /\ \A i \in 1 .. Len(d[q]) : d[n][i] = d[q][i]
  <2> TAKE n \in 0 .. N
  <2>1. n \in Nat /\ d[n] = Digit(d, n)
    BY DEF DigitsUpTo
  <2>2. n >= 10 => n \div 10 \in 1 .. n - 1 /\ n \div 10 \in 0 .. N
    BY Tens
  <2>3. n >= 10 => d[n \div 10] \in Bytes
    BY <2>2
  <2>4. n >= 10 => Len(d[n \div 10]) \in Nat
    BY <2>3, LenProperties DEF Bytes
  <2>5. n >= 10 => d[n] = Append(d[n \div 10], 48 + (n % 10))
    BY <2>1 DEF Digit
  <2> QED
    BY <2>1, <2>2, <2>3, <2>4, <2>5, DigitIsText
<1> DEFINE Fits(n) == Len(d[n]) \in Nat \ {0} /\ d[n][1] \in 48 .. 57 /\ (n # 0 => Len(d[n]) <= n)
           T == {m \in 0 .. N : \A n \in 0 .. m : Fits(n)}
<1>2. 0 \in T
  <2>1. \A n \in 0 .. 0 : n = 0
    OBVIOUS
  <2>2. Fits(0)
    BY <1>1
  <2> QED
    BY <2>1, <2>2
<1>3. ASSUME NEW m \in 1 .. N, m - 1 \in T PROVE m \in T
  <2>1. Fits(m)
    <3>0. m \in 0 .. N
      OBVIOUS
    <3>1. CASE m < 10
      <4>1. Len(d[m]) = 1 /\ d[m][1] = 48 + m
        BY <1>1, <3>0, <3>1
      <4> QED
        BY <3>1, <4>1
    <3>2. CASE m >= 10
      <4>1. PICK q \in 1 .. m - 1 :
              Len(d[m]) = Len(d[q]) + 1 /\ \A i \in 1 .. Len(d[q]) : d[m][i] = d[q][i]
        BY <1>1, <3>0, <3>2
      <4>2. q \in 1 .. m - 1 /\ Len(d[m]) = Len(d[q]) + 1 /\ \A i \in 1 .. Len(d[q]) : d[m][i] = d[q][i]
        BY <4>1
      <4>3. Fits(q)
        BY <1>3, <4>2
      <4>4. 1 \in 1 .. Len(d[q]) /\ d[m][1] = d[q][1]
        BY <4>2, <4>3
      <4> QED
        BY <4>2, <4>3, <4>4
    <3> QED
      BY <3>1, <3>2
  <2>2. \A n \in 0 .. m : n = m \/ n \in 0 .. m - 1
    OBVIOUS
  <2> HIDE DEF Fits
  <2> QED
    BY <1>3, <2>1, <2>2
<1>4. T \in SUBSET (0 .. N)
  OBVIOUS
<1>5. T = 0 .. N
  <2> HIDE DEF T
  <2> QED
    BY <1>2, <1>3, <1>4, Induction
<1>6. \A n \in 0 .. N : Fits(n)
  <2>1. N \in T
    <3>1. N \in 0 .. N
      OBVIOUS
    <3> HIDE DEF T
    <3> QED
      BY <1>5, <3>1
  <2> QED
    BY <2>1
<1> DEFINE U == {m \in 0 .. N : \A n \in 0 .. m : \A k \in 0 .. N : d[n] = d[k] => n = k}
<1>7. ASSUME NEW n \in 0 .. N, n < 10, NEW k \in 0 .. N, d[n] = d[k] PROVE n = k
  <2>1. Len(d[n]) = 1 /\ d[n][1] = 48 + n
    BY <1>1, <1>7
  <2>2. k < 10
    <3> SUFFICES ASSUME k >= 10 PROVE FALSE
      OBVIOUS
    <3>1. PICK q \in 1 .. k - 1 : q \in 0 .. N /\ Len(d[k]) = Len(d[q]) + 1
      BY <1>1
    <3>2. q \in 0 .. N /\ Len(d[k]) = Len(d[q]) + 1
      BY <3>1
    <3>3. Len(d[q]) \in Nat \ {0}
      BY <1>6, <3>2
    <3>4. Len(d[k]) = 1
      BY <1>7, <2>1, Zenon
    <3> QED
      BY <3>2, <3>3, <3>4
  <2>3. d[k][1] = 48 + k
    BY <1>1, <2>2
  <2> QED
    BY <1>7, <2>1, <2>3
<1>8. 0 \in U
  <2>1. \A n \in 0 .. 0 : n = 0 /\ n \in 0 .. N /\ n < 10
    OBVIOUS
  <2> QED
    BY <1>7, <2>1
<1>9. ASSUME NEW m \in 1 .. N, m - 1 \in U PROVE m \in U
  <2>1. ASSUME NEW k \in 0 .. N, d[m] = d[k] PROVE m = k
    <3>1. CASE m < 10
      BY <1>7, <2>1, <3>1
    <3>2. CASE k < 10
      BY <1>7, <2>1, <3>2
    <3>3. CASE m >= 10 /\ k >= 10
      <4>0. m \in 0 .. N
        OBVIOUS
      <4>1. /\ \E p \in 1 .. m - 1 : /\ p = m \div 10 /\ p \in 0 .. N /\ d[p] \in Bytes
                                    /\ d[m] = Append(d[p], 48 + (m % 10))
            /\ \E q \in 1 .. k - 1 : /\ q = k \div 10 /\ q \in 0 .. N /\ d[q] \in Bytes
                                    /\ d[k] = Append(d[q], 48 + (k % 10))
        BY <1>1, <3>3, <4>0
      <4>10. PICK p \in 1 .. m - 1, q \in 1 .. k - 1 :
              /\ p = m \div 10 /\ p \in 0 .. N /\ d[p] \in Bytes
              /\ d[m] = Append(d[p], 48 + (m % 10))
              /\ q = k \div 10 /\ q \in 0 .. N /\ d[q] \in Bytes
              /\ d[k] = Append(d[q], 48 + (k % 10))
        BY <4>1
      <4>2. PICK a, b : a = 48 + (m % 10) /\ b = 48 + (k % 10)
        OBVIOUS
      <4>3. /\ d[m] = Append(d[p], a) /\ d[k] = Append(d[q], b)
            /\ p \in 1 .. m - 1 /\ p \in 0 .. N /\ q \in 0 .. N
            /\ d[p] \in Seq(Byte) /\ d[q] \in Seq(Byte)
        BY <4>10, <4>2 DEF Bytes
      <4>4. m % 10 \in 0 .. 9 /\ k % 10 \in 0 .. 9 /\ m = 10 * p + (m % 10) /\ k = 10 * q + (k % 10)
        BY <4>10, Tens
      <4>5. a \in Byte /\ b \in Byte
        <5>1. PICK x \in 0 .. 9, y \in 0 .. 9 : x = m % 10 /\ y = k % 10
          BY <4>4
        <5> QED
          BY <4>2, <5>1 DEF Byte
      <4>6. d[p] = d[q] /\ a = b
        <5>1. PICK s, r : s = d[p] /\ r = d[q]
          OBVIOUS
        <5>2. s \in Seq(Byte) /\ r \in Seq(Byte) /\ Append(s, a) = Append(r, b)
          BY <2>1, <4>3, <5>1
        <5>3. s = r /\ a = b
          BY <4>5, <5>2, AppendInjective
        <5> QED
          BY <5>1, <5>3
      <4>7. p = q
        BY <1>9, <4>3, <4>6
      <4>8. m % 10 = k % 10
        <5>1. PICK x \in 0 .. 9, y \in 0 .. 9 : x = m % 10 /\ y = k % 10
          BY <4>4
        <5> QED
          BY <4>2, <4>6, <5>1
      <4> QED
        BY <4>4, <4>7, <4>8
    <3> QED
      BY <3>1, <3>2, <3>3
  <2>2. \A n \in 0 .. m : n = m \/ n \in 0 .. m - 1
    OBVIOUS
  <2> QED
    BY <1>9, <2>1, <2>2
<1>10. U \in SUBSET (0 .. N)
  OBVIOUS
<1>11. U = 0 .. N
  <2> HIDE DEF U
  <2> QED
    BY <1>8, <1>9, <1>10, Induction
<1>12. N \in U
  BY <1>11
<1> HIDE DEF Fits
<1> QED
  BY <1>6, <1>12 DEF Fits

LEMMA DecimalsDiffer ==
  ASSUME NEW a \in -MaxWord .. MaxWord, NEW b \in -MaxWord .. MaxWord
  PROVE  /\ Decimal[a] \in Bytes /\ Len(Decimal[a]) \in Nat \ {0}
         /\ a >= 1 => Len(Decimal[a]) <= a
         /\ Decimal[a] = Decimal[b] => a = b
<1>0. MaxWord \in Nat
  BY Sizes DEF MaxWord
<1>1. PICK d \in [0 .. MaxWord -> Bytes] :
        /\ DigitsUpTo(d, MaxWord)
        /\ \A n \in -MaxWord .. MaxWord : Decimal[n] = IF n < 0 THEN <<45>> \o d[-n] ELSE d[n]
  BY DecimalDigits
<1>2. /\ \A n \in 0 .. MaxWord : /\ Len(d[n]) \in Nat \ {0} /\ d[n][1] \in 48 .. 57
                                 /\ n # 0 => Len(d[n]) <= n
      /\ \A n, m \in 0 .. MaxWord : d[n] = d[m] => n = m
  BY <1>0, <1>1, DigitsDiffer, Zenon
<1>3. PICK sign : sign = <<45>>
  OBVIOUS
<1>4. sign \in Bytes /\ Len(sign) = 1 /\ sign[1] = 45
  <2>1. <<45>> \in Bytes /\ Len(<<45>>) = 1
    BY OneByte DEF Byte
  <2> QED
    BY <1>3, <2>1
<1>5. ASSUME NEW n \in -MaxWord .. MaxWord, n < 0
      PROVE  /\ -n \in 0 .. MaxWord /\ Decimal[n] = sign \o d[-n] /\ d[-n] \in Bytes
             /\ Decimal[n] \in Bytes /\ Len(Decimal[n]) \in Nat \ {0} /\ Decimal[n][1] = 45
  <2>1. -n \in 0 .. MaxWord /\ d[-n] \in Bytes /\ Decimal[n] = sign \o d[-n]
    <3>1. -n \in 0 .. MaxWord
      BY <1>0, <1>5
    <3>2. d[-n] \in Bytes
      BY <1>1, <3>1
    <3>3. Decimal[n] = sign \o d[-n]
      BY <1>1, <1>3, <1>5, Zenon
    <3> QED
      BY <3>1, <3>2, <3>3
  <2>2. PICK e \in Bytes : e = d[-n]
    BY <2>1
  <2>3. /\ sign \o e \in Bytes /\ Len(sign \o e) = 1 + Len(e) /\ Len(e) \in Nat
        /\ \A j \in 1 .. Len(sign) : (sign \o e)[j] = sign[j]
    <3>1. Len(e) \in Nat
      BY LenProperties DEF Bytes
    <3> QED
      BY <1>4, <3>1, Concatenation, ItemOfConcatenation
  <2>4. (sign \o e)[1] = 45
    BY <1>4, <2>3
  <2>5. Len(sign \o e) \in Nat \ {0}
    BY <2>3
  <2> QED
    BY <2>1, <2>2, <2>3, <2>4, <2>5
<1>6. ASSUME NEW n \in -MaxWord .. MaxWord, ~(n < 0)
      PROVE  /\ n \in 0 .. MaxWord /\ Decimal[n] = d[n] /\ d[n] \in Bytes
             /\ Len(d[n]) \in Nat \ {0} /\ d[n][1] \in 48 .. 57 /\ (n # 0 => Len(d[n]) <= n)
  <2>1. n \in 0 .. MaxWord
    BY <1>0, <1>6
  <2> QED
    BY <1>1, <1>2, <1>6, <2>1
<1>7. Decimal[a] \in Bytes /\ Len(Decimal[a]) \in Nat \ {0} /\ (a >= 1 => Len(Decimal[a]) <= a)
  <2>1. CASE a < 0
    <3>1. Decimal[a] \in Bytes /\ Len(Decimal[a]) \in Nat \ {0}
      BY <1>5, <2>1, Zenon
    <3>2. ~(a >= 1)
      BY <1>0, <2>1
    <3> QED
      BY <3>1, <3>2
  <2>2. CASE ~(a < 0)
    <3>1. Decimal[a] = d[a] /\ d[a] \in Bytes /\ Len(d[a]) \in Nat \ {0} /\ (a # 0 => Len(d[a]) <= a)
      BY <1>6, <2>2, Zenon
    <3> QED
      BY <3>1
  <2> QED
    BY <2>1, <2>2
<1>8. ASSUME Decimal[a] = Decimal[b] PROVE a = b
  <2>1. CASE a < 0 /\ b < 0
    <3>1. /\ -a \in 0 .. MaxWord /\ Decimal[a] = sign \o d[-a] /\ d[-a] \in Bytes
          /\ -b \in 0 .. MaxWord /\ Decimal[b] = sign \o d[-b] /\ d[-b] \in Bytes
      BY <1>5, <2>1, Zenon
    <3>2. PICK e \in Bytes, f \in Bytes : e = d[-a] /\ f = d[-b]
      BY <3>1
    <3>3. sign \o e = sign \o f
      BY <1>8, <3>1, <3>2
    <3>4. e = f
      BY <1>4, <3>3, PartsEqual
    <3>5. PICK n \in 0 .. MaxWord, m \in 0 .. MaxWord : n = -a /\ m = -b
      BY <3>1
    <3>6. n = m
      BY <1>2, <3>2, <3>4, <3>5
    <3> QED
      BY <1>0, <3>5, <3>6
  <2>2. CASE ~(a < 0) /\ ~(b < 0)
    <3>1. a \in 0 .. MaxWord /\ Decimal[a] = d[a] /\ b \in 0 .. MaxWord /\ Decimal[b] = d[b]
      BY <1>6, <2>2, Zenon
    <3> QED
      BY <1>2, <1>8, <3>1
  <2>3. CASE a < 0 /\ ~(b < 0)
    <3>1. Decimal[a][1] = 45
      BY <1>5, <2>3, Zenon
    <3>2. Decimal[b] = d[b] /\ d[b][1] \in 48 .. 57
      BY <1>6, <2>3, Zenon
    <3> QED
      BY <1>8, <3>1, <3>2
  <2>4. CASE ~(a < 0) /\ b < 0
    <3>1. Decimal[b][1] = 45
      BY <1>5, <2>4, Zenon
    <3>2. Decimal[a] = d[a] /\ d[a][1] \in 48 .. 57
      BY <1>6, <2>4, Zenon
    <3> QED
      BY <1>8, <3>1, <3>2
  <2> QED
    BY <2>1, <2>2, <2>3, <2>4
<1> QED
  BY <1>7, <1>8

\* Words as numbers with a sign.
LEMMA SignedWords ==
  ASSUME NEW w \in 0 .. W64, NEW u \in 0 .. Pow256[w] - 1, NEW v \in 0 .. Pow256[w] - 1
  PROVE  /\ Signed(u, w) \in -MaxWord .. MaxWord
         /\ Signed(u, w) = Signed(v, w) => u = v
<1>1. Pow256[w] \in Nat \ {0} /\ MaxWord \in Nat /\ Pow256[w] <= MaxWord
  <2>1. W64 \in 0 .. W64
    BY Sizes
  <2> QED
    BY <2>1, Powers, PowersGrow DEF MaxWord
<1>2. PICK N : N = Pow256[w]
  OBVIOUS
<1>3. N \in Nat \ {0} /\ N <= MaxWord /\ u \in 0 .. N - 1 /\ v \in 0 .. N - 1
  BY <1>1, <1>2
<1>4. N \div 2 \in Nat /\ N \div 2 < N
  BY <1>3
<1>5. /\ Signed(u, w) = (IF u >= N \div 2 THEN u - N ELSE u)
      /\ Signed(v, w) = (IF v >= N \div 2 THEN v - N ELSE v)
  BY <1>2 DEF Signed
<1> QED
  BY <1>1, <1>3, <1>4, <1>5

-----------------------------------------------------------------------------
(* Rows *)

\* The types the columns of a table have when its rows are read and written.
InfoOK(info) ==
  /\ \E n \in Nat : DOMAIN info.columns = 1 .. n
  /\ \A c \in DOMAIN info.columns : ColType(info, c) \in {"Int64", "Int32", "String"}
  /\ \A i \in DOMAIN info.indexes : /\ info.indexes[i].cols \in Seq(Nat \ {0})
                                    /\ Range(info.indexes[i].cols) \subseteq DOMAIN info.columns
  /\ info.primary \in DOMAIN info.indexes \cup {0}
  /\ info.primary # 0 =>
       \A j \in DOMAIN PrimaryCols(info) : ColType(info, PrimaryCols(info)[j]) = "Int64"

\* A row has a word or a text for every column; only rows of numbers may be without
\* a tuple.
RowOK(info, row) ==
  \/ row = NoTuple /\ \A c \in DOMAIN info.columns : ColType(info, c) = "Int64"
  \/ /\ row = [c \in DOMAIN info.columns |-> row[c]]
     /\ \A c \in DOMAIN info.columns : NewValue(ColType(info, c), row[c]) \in Values

LEMMA CellIsValue ==
  ASSUME NEW info, NEW row, RowOK(info, row), NEW c \in DOMAIN info.columns
  PROVE  /\ GetColValue(info, row, c) \in Values
         /\ GetColValue(info, row, c).type \in {ColType(info, c), "Null"}
         /\ row # NoTuple => GetColValue(info, row, c) = NewValue(ColType(info, c), row[c])
         /\ row = NoTuple => GetColValue(info, row, c) = NewValue("Null", 0)
<1>1. CASE row = NoTuple
  <2>1. GetColValue(info, row, c) = NewValue("Null", 0)
    BY <1>1 DEF GetColValue
  <2>2. NewValue("Null", 0) \in Values /\ NewValue("Null", 0).type = "Null"
    BY DEF NewValue, Values
  <2> QED
    BY <1>1, <2>1, <2>2
<1>2. CASE row # NoTuple
  <2>1. GetColValue(info, row, c) = NewValue(ColType(info, c), row[c])
    BY <1>2 DEF GetColValue
  <2>2. NewValue(ColType(info, c), row[c]) \in Values
    BY <1>2 DEF RowOK
  <2>3. NewValue(ColType(info, c), row[c]).type = ColType(info, c)
    BY DEF NewValue
  <2> QED
    BY <1>2, <2>1, <2>2, <2>3
<1> QED
  BY <1>1, <1>2

\* The typed bytes of some columns, part by part.
Parts(info, row, cols) == [i \in DOMAIN cols |-> TypedBytes(GetColValue(info, row, cols[i]))]

LEMMA PartsAreBytes ==
  ASSUME NEW info, NEW row, RowOK(info, row), NEW n \in Nat, NEW cols, DOMAIN cols = 1 .. n,
         \A i \in 1 .. n : cols[i] \in DOMAIN info.columns
  PROVE  /\ Parts(info, row, cols) \in [1 .. n -> Bytes]
         /\ \A i \in 1 .. n :
              Parts(info, row, cols)[i] = TypedBytes(GetColValue(info, row, cols[i]))
         /\ TypedCols(info, row, cols) = FlattenSeq(Parts(info, row, cols))
         /\ TypedCols(info, row, cols) \in Bytes
<1>1. \A i \in 1 .. n : TypedBytes(GetColValue(info, row, cols[i])) \in Bytes
  BY CellIsValue, TypedLayout
<1>2. /\ Parts(info, row, cols) \in [1 .. n -> Bytes]
      /\ \A i \in 1 .. n :
           Parts(info, row, cols)[i] = TypedBytes(GetColValue(info, row, cols[i]))
  BY <1>1 DEF Parts
<1>3. TypedCols(info, row, cols) = FlattenSeq(Parts(info, row, cols))
  BY DEF TypedCols, Parts
<1>4. FlattenSeq(Parts(info, row, cols)) \in Bytes
  <2>1. PICK seqs \in [1 .. n -> Seq(Byte)] : seqs = Parts(info, row, cols)
    BY <1>2 DEF Bytes
  <2> QED
    BY <2>1, FlattenIsSeq DEF Bytes
<1> QED
  BY <1>2, <1>3, <1>4

LEMMA RowValueIsBytes ==
  ASSUME NEW info, InfoOK(info), NEW row, RowOK(info, row)
  PROVE  RowValue(info, row) \in Bytes
<1>1. PICK n \in Nat : DOMAIN info.columns = 1 .. n
  BY DEF InfoOK
<1> DEFINE all == [c \in DOMAIN info.columns |-> c]
<1>2. DOMAIN all = 1 .. n /\ \A i \in 1 .. n : all[i] \in DOMAIN info.columns
  BY <1>1
<1> HIDE DEF all
<1>3. TypedCols(info, row, all) \in Bytes
  BY <1>2, PartsAreBytes
<1> QED
  BY <1>3 DEF RowValue, all

\* The values of a row are read back column by column; a Null as 0.
LEMMA RowIsRead ==
  ASSUME NEW info, InfoOK(info), NEW row, RowOK(info, row), NEW byte
  PROVE  DecodeRow(info, RowValue(info, row), byte) =
           [c \in DOMAIN info.columns |-> ToData(GetColValue(info, row, c), byte)]
<1> DEFINE cols == info.columns
           all == [c \in DOMAIN cols |-> c]
           seqs == Parts(info, row, all)
           value == RowValue(info, row)
<1>1. PICK n \in Nat : DOMAIN cols = 1 .. n
  BY DEF InfoOK
<1>2. DOMAIN all = 1 .. n /\ \A i \in 1 .. n : all[i] = i /\ all[i] \in DOMAIN info.columns
  BY <1>1
<1>3. value = TypedCols(info, row, all)
  BY DEF RowValue
<1> HIDE DEF all
<1>4. /\ seqs \in [1 .. n -> Bytes]
      /\ \A i \in 1 .. n : seqs[i] = TypedBytes(GetColValue(info, row, i))
      /\ value = FlattenSeq(seqs)
  BY <1>2, <1>3, PartsAreBytes
<1> HIDE DEF seqs, value
<1>5. PICK F \in [0 .. n -> Bytes] :
        /\ F[0] = <<>> /\ FlattenSeq(seqs) = F[n]
        /\ \A i \in 1 .. n :
             /\ Len(F[i]) = Len(F[i - 1]) + Len(seqs[i]) /\ Len(F[i]) <= Len(F[n])
             /\ \A j \in 1 .. Len(seqs[i]) : F[n][Len(F[i - 1]) + j] = seqs[i][j]
  BY <1>4, FlattenParts, Zenon
<1>6. value = F[n] /\ value \in Bytes /\ \A i \in 0 .. n : Len(F[i]) \in Nat
  BY <1>4, <1>5, LenProperties DEF Bytes
<1> DEFINE place(c) == Len(F[c - 1]) + 1
<1>7. ASSUME NEW c \in 1 .. n
      PROVE  /\ DecodeAt(value, place(c)).val = GetColValue(info, row, c)
             /\ place(c) + 1 + DecodeAt(value, place(c)).size = Len(F[c]) + 1
  <2> DEFINE v == GetColValue(info, row, c)
             p == Len(F[c - 1])
  <2>1. v \in Values
    BY <1>1, CellIsValue
  <2>2. p \in Nat /\ Len(F[c]) \in Nat
    <3>1. c - 1 \in 0 .. n /\ c \in 0 .. n
      OBVIOUS
    <3> QED
      BY <1>6, <3>1
  <2>3. /\ seqs[c] = TypedBytes(v) /\ Len(F[c]) = p + Len(seqs[c]) /\ Len(F[c]) <= Len(value)
        /\ \A j \in 1 .. Len(seqs[c]) : value[p + j] = seqs[c][j]
    BY <1>4, <1>5, <1>6
  <2>4. Len(TypedBytes(v)) \in Nat
    <3>1. TypedBytes(v) \in Bytes
      BY <2>1, TypedLayout
    <3> QED
      BY <3>1, LenProperties DEF Bytes
  <2> HIDE DEF v, p
  <2>5. DecodeAt(value, p + 1) = [val |-> v, size |-> Len(TypedBytes(v)) - 1]
    <3>1. p + Len(TypedBytes(v)) <= Len(value)
      BY <2>3
    <3>2. \A j \in 1 .. Len(TypedBytes(v)) : value[p + j] = TypedBytes(v)[j]
      BY <2>3
    <3> QED
      BY <1>6, <2>1, <2>2, <3>1, <3>2, PlaceIsRead
  <2>6. DecodeAt(value, p + 1).val = v /\ DecodeAt(value, p + 1).size = Len(TypedBytes(v)) - 1
    BY <2>5
  <2>7. (p + 1) + 1 + DecodeAt(value, p + 1).size = Len(F[c]) + 1
    BY <2>2, <2>3, <2>4, <2>6
  <2>8. place(c) = p + 1
    BY DEF p
  <2> QED
    BY <2>6, <2>7, <2>8 DEF v
<1> DEFINE Eq(h) == h = [c \in DOMAIN info.columns |->
                           IF c = 1 THEN 1 ELSE h[c - 1] + 1 + DecodeAt(value, h[c - 1]).size]
           at == CHOOSE h : Eq(h)
           g == [c \in 1 .. n |-> place(c)]
<1>8. Eq(g)
  <2>1. \A c \in 1 .. n :
          g[c] = IF c = 1 THEN 1 ELSE g[c - 1] + 1 + DecodeAt(value, g[c - 1]).size
    <3> TAKE c \in 1 .. n
    <3>1. g[c] = place(c)
      OBVIOUS
    <3>2. CASE c = 1
      <4>1. F[0] = <<>> /\ Len(F[0]) = 0
        BY <1>5
      <4>2. place(1) = 1
        BY <4>1
      <4> QED
        BY <3>1, <3>2, <4>2
    <3>3. CASE c # 1
      <4>1. c - 1 \in 1 .. n
        BY <3>3
      <4>2. g[c - 1] = place(c - 1)
        BY <4>1
      <4>3. place(c - 1) + 1 + DecodeAt(value, place(c - 1)).size = Len(F[c - 1]) + 1
        BY <1>7, <4>1
      <4> HIDE DEF g
      <4> QED
        BY <3>1, <3>3, <4>2, <4>3
    <3> QED
      BY <3>2, <3>3
  <2> HIDE DEF place
  <2>2. g = [c \in 1 .. n |-> g[c]]
    OBVIOUS
  <2> HIDE DEF g
  <2> QED
    BY <1>1, <2>1, <2>2
<1>9. Eq(at)
  <2> HIDE DEF Eq, g
  <2> QED
    BY <1>8
<1>10. DecodeRow(info, value, byte) = [c \in DOMAIN info.columns |-> ToData(DecodeAt(value, at[c]).val, byte)]
  BY DEF DecodeRow
<1> HIDE DEF at
<1>11. \A c \in 1 .. n : at[c] = IF c = 1 THEN 1 ELSE at[c - 1] + 1 + DecodeAt(value, at[c - 1]).size
  BY <1>1, <1>9
<1> HIDE DEF Eq
<1> DEFINE T == {m \in 0 .. n : m = 0 \/ at[m] = place(m)}
<1>12. 0 \in T
  OBVIOUS
<1>13. ASSUME NEW m \in 1 .. n, m - 1 \in T PROVE m \in T
  <2>1. at[m] = place(m)
    <3>1. CASE m = 1
      <4>1. F[0] = <<>> /\ Len(F[0]) = 0 /\ at[1] = 1
        BY <1>5, <1>11, <3>1
      <4> QED
        BY <3>1, <4>1
    <3>2. CASE m # 1
      <4>1. m - 1 \in 1 .. n
        BY <3>2
      <4>2. at[m - 1] = place(m - 1)
        BY <1>13, <4>1
      <4>3. place(m - 1) + 1 + DecodeAt(value, place(m - 1)).size = Len(F[m - 1]) + 1
        BY <1>7, <4>1
      <4>4. at[m] = at[m - 1] + 1 + DecodeAt(value, at[m - 1]).size
        BY <1>11, <3>2
      <4> QED
        BY <4>2, <4>3, <4>4
    <3> QED
      BY <3>1, <3>2
  <2> HIDE DEF place
  <2> QED
    BY <2>1
<1>14. T \in SUBSET (0 .. n)
  OBVIOUS
<1>15. T = 0 .. n
  <2> HIDE DEF T
  <2> QED
    BY <1>12, <1>13, <1>14, Induction
<1>16. \A c \in 1 .. n : at[c] = place(c)
  <2> TAKE c \in 1 .. n
  <2>1. c \in T
    BY <1>15
  <2> HIDE DEF place
  <2> QED
    BY <2>1
<1>17. \A c \in DOMAIN info.columns : DecodeAt(value, at[c]).val = GetColValue(info, row, c)
  <2> HIDE DEF place
  <2> QED
    BY <1>1, <1>7, <1>16
<1>18. DecodeRow(info, value, byte) =
         [c \in DOMAIN info.columns |-> ToData(GetColValue(info, row, c), byte)]
  BY <1>10, <1>17
<1> QED
  BY <1>18 DEF value

-----------------------------------------------------------------------------
(* Lines and keys *)

LEMMA TextOfWord ==
  ASSUME NEW type \in {"Int64", "Int32"}, NEW u \in 0 .. Pow256[IntWidth[type]] - 1
  PROVE  /\ ToText(NewValue(type, u)) = Decimal[Signed(u, IntWidth[type])]
         /\ Decimal[Signed(u, IntWidth[type])] \in Bytes
         /\ Decimal[Signed(u, IntWidth[type])] # <<>>
<1>1. IntWidth[type] \in 0 .. W64 /\ IsInt(type)
  BY TypesOfValues, Sizes
<1>2. ToText(NewValue(type, u)) = Decimal[Signed(u, IntWidth[type])]
  BY <1>1 DEF ToText, NewValue
<1>3. PICK a \in -MaxWord .. MaxWord : a = Signed(u, IntWidth[type])
  BY <1>1, SignedWords
<1>4. Decimal[a] \in Bytes /\ Len(Decimal[a]) \in Nat \ {0}
  BY DecimalsDiffer
<1>5. Decimal[a] # <<>>
  BY <1>4
<1> QED
  BY <1>2, <1>3, <1>4, <1>5

LEMMA TextOfValue ==
  ASSUME NEW v \in Values
  PROVE  ToText(v) \in Bytes
<1>1. CASE v.type \in {"Int64", "Int32"}
  <2>1. v = NewValue(v.type, v.u) /\ v.u \in 0 .. Pow256[IntWidth[v.type]] - 1
    BY <1>1, EncodedValue, TypesOfValues
  <2> QED
    BY <1>1, <2>1, TextOfWord
<1>2. CASE v.type = "String"
  BY <1>2, EncodedValue, TypesOfValues DEF ToText
<1>3. CASE v.type = "Null"
  <2>1. ToText(v) = <<>>
    BY <1>3, TypesOfValues DEF ToText
  <2> QED
    BY <2>1, EmptySeq DEF Bytes
<1> QED
  BY <1>1, <1>2, <1>3, EncodedValue

\* What a row says of a column, as an INSERT gave it.
Tells(info, row, t) ==
  /\ DOMAIN t = DOMAIN info.columns
  /\ \A c \in DOMAIN info.columns :
       t[c] # NotTold => /\ row # NoTuple /\ ColType(info, c) \in {"Int64", "Int32"}
                         /\ t[c] = NewValue(ColType(info, c), row[c])

\* The line of a stored row: all texts are bytes, and numbers are as they were.
LEMMA LineOfRow ==
  ASSUME NEW info, InfoOK(info), NEW row, RowOK(info, row), NEW byte \in JunkByte,
         NEW c \in DOMAIN info.columns
  PROVE  LET line == Line(info, DecodeRow(info, RowValue(info, row), byte))
         IN  /\ line[c] \in Bytes
             /\ row # NoTuple /\ ColType(info, c) \in {"Int64", "Int32"} =>
                  line[c] = Decimal[Signed(row[c], IntWidth[ColType(info, c)])]
<1> DEFINE d == DecodeRow(info, RowValue(info, row), byte)
           v == GetColValue(info, row, c)
           type == ColType(info, c)
<1>1. d = [e \in DOMAIN info.columns |-> ToData(GetColValue(info, row, e), byte)]
  BY RowIsRead
<1>2. d # NoTuple /\ d[c] = ToData(v, byte)
  BY <1>1 DEF NoTuple
<1> HIDE DEF d
<1>3. Line(info, d)[c] = ToText(NewValue(type, ToData(v, byte)))
  BY <1>2 DEF Line, GetColValue
<1>4. type \in {"Int64", "Int32", "String"}
  BY DEF InfoOK
<1>5. CASE row = NoTuple
  <2>1. type = "Int64"
    <3>1. row = NoTuple /\ RowOK(info, row)
      BY <1>5
    <3>2. NewValue(type, row[c]) \in Values \/ type = "Int64"
      BY <3>1 DEF RowOK
    <3>3. CASE info.columns = <<>>
      BY <3>3
    <3>4. CASE row = [e \in DOMAIN info.columns |-> row[e]]
      BY <1>5, <3>4 DEF NoTuple
    <3> QED
      BY <3>1, <3>4 DEF RowOK
  <2>2. v = NewValue("Null", 0)
    BY <1>5 DEF GetColValue
  <2>3. ToData(v, byte) = 0
    BY <2>2 DEF ToData, NewValue
  <2>4. 0 \in 0 .. Pow256[IntWidth["Int64"]] - 1
    BY Sizes, TypesOfValues
  <2>5. ToText(NewValue("Int64", 0)) \in Bytes
    BY <2>4, TextOfWord
  <2> QED
    BY <1>3, <1>5, <2>1, <2>3, <2>5 DEF d
<1>6. CASE row # NoTuple
  <2>1. v = NewValue(type, row[c]) /\ v \in Values
    BY <1>6, CellIsValue
  <2>2. v.type = type /\ v.u = row[c]
    BY <2>1 DEF NewValue
  <2>3. CASE type \in {"Int64", "Int32"}
    <3>1. v.u \in 0 .. Pow256[IntWidth[type]] - 1
      BY <2>1, <2>2, <2>3, EncodedValue, TypesOfValues
    <3>2. ToData(v, byte) = row[c]
      BY <2>2, <2>3 DEF ToData
    <3>3. /\ ToText(NewValue(type, row[c])) = Decimal[Signed(row[c], IntWidth[type])]
          /\ Decimal[Signed(row[c], IntWidth[type])] \in Bytes
      BY <2>2, <2>3, <3>1, TextOfWord
    <3> QED
      BY <1>3, <3>2, <3>3 DEF d
  <2>4. CASE type = "String"
    <3>1. v.u \in Bytes /\ Len(v.u) \in Nat
      BY <2>1, <2>2, <2>4, EncodedValue, LenProperties DEF Bytes
    <3>2. ToData(v, byte) = [i \in 1 .. Len(v.u) |-> byte]
      BY <2>2, <2>4 DEF ToData
    <3>3. [i \in 1 .. Len(v.u) |-> byte] \in Bytes
      <4>1. byte \in Byte
        BY RowsAssumption
      <4> QED
        BY <3>1, <4>1, IsASeq DEF Bytes
    <3>4. ToText(NewValue(type, ToData(v, byte))) = ToData(v, byte)
      BY <2>4, TypesOfValues DEF ToText, NewValue
    <3> QED
      BY <1>3, <2>4, <3>2, <3>3, <3>4 DEF d
  <2> QED
    BY <1>4, <2>3, <2>4
<1> QED
  BY <1>5, <1>6

LEMMA LineShows ==
  ASSUME NEW info, InfoOK(info), NEW row, RowOK(info, row), NEW byte \in JunkByte,
         NEW key, Tells(info, row, told[key])
  PROVE  LET line == Line(info, DecodeRow(info, RowValue(info, row), byte))
         IN  line \in Seq(Bytes) /\ Shows(line, key)
<1> DEFINE line == Line(info, DecodeRow(info, RowValue(info, row), byte))
<1>1. DOMAIN line = DOMAIN info.columns
  BY DEF Line
<1>2. \A c \in DOMAIN info.columns :
        /\ line[c] \in Bytes
        /\ row # NoTuple /\ ColType(info, c) \in {"Int64", "Int32"} =>
             line[c] = Decimal[Signed(row[c], IntWidth[ColType(info, c)])]
  BY LineOfRow
<1>3. line = [c \in DOMAIN info.columns |-> line[c]]
  BY DEF Line
<1> HIDE DEF line
<1>4. line \in Seq(Bytes)
  <2>1. PICK n \in Nat : DOMAIN info.columns = 1 .. n
    BY DEF InfoOK
  <2>2. [c \in 1 .. n |-> line[c]] \in Seq(Bytes)
    BY <1>2, <2>1, IsASeq
  <2> QED
    BY <1>3, <2>1, <2>2
<1>5. ASSUME NEW c \in DOMAIN told[key], told[key][c] # NotTold
      PROVE  line[c] = Decimal[Signed(told[key][c].u, IntWidth[told[key][c].type])]
  <2>1. /\ c \in DOMAIN info.columns /\ row # NoTuple /\ ColType(info, c) \in {"Int64", "Int32"}
        /\ told[key][c] = NewValue(ColType(info, c), row[c])
    BY <1>5 DEF Tells
  <2>2. told[key][c].u = row[c] /\ told[key][c].type = ColType(info, c)
    BY <2>1 DEF NewValue
  <2> QED
    BY <1>2, <2>1, <2>2
<1> QED
  BY <1>4, <1>5 DEF Shows, line

\* The key of the record of a row, made of the values of its primary key.
KeyBytes(key) == FlattenSeq([i \in DOMAIN key |-> EncodeDataKey(DbId, TableId, ToText(key[i]))])

LEMMA DataKeyIsBytes ==
  ASSUME NEW a \in Bytes, NEW b \in Bytes
  PROVE  /\ EncodeDataKey(DbId, TableId, a) \in Bytes
         /\ EncodeDataKey(DbId, TableId, a) = EncodeDataKey(DbId, TableId, b) => a = b
<1>1. PICK p : p = U64(DbId) \o U64(TableId)
  OBVIOUS
<1>2. p \in Bytes
  <2>1. U64(DbId) \in Bytes /\ U64(TableId) \in Bytes
    BY RowsAssumption, Words
  <2> QED
    BY <1>1, <2>1, Concatenation
<1>3. PICK tag : tag = <<1>>
  OBVIOUS
<1>4. tag \in Bytes
  BY <1>3, OneByte DEF Byte
<1>5. PICK q : q = p \o tag
  OBVIOUS
<1>6. q \in Bytes
  BY <1>2, <1>4, <1>5, Concatenation
<1>7. PICK e, f : e = EncodeBytes(a) /\ f = EncodeBytes(b)
  OBVIOUS
<1>8. e \in Bytes /\ f \in Bytes
  BY <1>7, Texts
<1>9. EncodeDataKey(DbId, TableId, a) = q \o e /\ EncodeDataKey(DbId, TableId, b) = q \o f
  BY <1>1, <1>3, <1>5, <1>7 DEF EncodeDataKey
<1>10. q \o e \in Bytes
  BY <1>6, <1>8, Concatenation
<1>11. ASSUME q \o e = q \o f PROVE a = b
  <2>1. e = f
    BY <1>6, <1>8, <1>11, PartsEqual
  <2> QED
    BY <1>7, <2>1, TextsEqual
<1> QED
  BY <1>9, <1>10, <1>11

\* The columns of the primary key.
LEMMA PrimaryColumns ==
  ASSUME NEW info, InfoOK(info), info.primary # 0
  PROVE  /\ info.primary \in DOMAIN info.indexes
         /\ Len(PrimaryCols(info)) \in Nat
         /\ DOMAIN PrimaryCols(info) = 1 .. Len(PrimaryCols(info))
         /\ \A i \in 1 .. Len(PrimaryCols(info)) :
              /\ PrimaryCols(info)[i] \in DOMAIN info.columns
              /\ ColType(info, PrimaryCols(info)[i]) = "Int64"
<1>1. info.primary \in DOMAIN info.indexes
  BY DEF InfoOK
<1>3. PrimaryCols(info) \in Seq(Nat \ {0})
  BY <1>1 DEF PrimaryCols, InfoOK
<1>4. Len(PrimaryCols(info)) \in Nat /\ DOMAIN PrimaryCols(info) = 1 .. Len(PrimaryCols(info))
  BY <1>3, LenProperties
<1>6. Range(PrimaryCols(info)) \subseteq DOMAIN info.columns
  BY <1>1 DEF InfoOK, PrimaryCols
<1>7. \A i \in 1 .. Len(PrimaryCols(info)) : PrimaryCols(info)[i] \in DOMAIN info.columns
  BY <1>4, <1>6 DEF Range
<1>8. \A i \in 1 .. Len(PrimaryCols(info)) : ColType(info, PrimaryCols(info)[i]) = "Int64"
  BY <1>4 DEF InfoOK
<1> QED
  BY <1>1, <1>4, <1>7, <1>8

LEMMA KeyOfRow ==
  ASSUME NEW info, InfoOK(info), info.primary # 0, NEW row, RowOK(info, row)
  PROVE  /\ KeyOf(info, row) = [i \in 1 .. Len(PrimaryCols(info)) |-> KeyOf(info, row)[i]]
         /\ \A i \in 1 .. Len(PrimaryCols(info)) :
              /\ KeyOf(info, row)[i] = GetColValue(info, row, PrimaryCols(info)[i])
              /\ KeyOf(info, row)[i] \in Values
              /\ KeyOf(info, row)[i].type \in {"Int64", "Null"}
         /\ RowKey(info, row) = KeyBytes(KeyOf(info, row))
         /\ RowKey(info, row) \in Bytes
<1> DEFINE n == Len(PrimaryCols(info))
<1>1. /\ DOMAIN KeyOf(info, row) = 1 .. n
      /\ \A i \in 1 .. n :
           /\ KeyOf(info, row)[i] = GetColValue(info, row, PrimaryCols(info)[i])
           /\ KeyOf(info, row)[i] \in Values
           /\ KeyOf(info, row)[i].type \in {"Int64", "Null"}
  BY PrimaryColumns, CellIsValue DEF KeyOf
<1>4. KeyOf(info, row) = [i \in 1 .. n |-> KeyOf(info, row)[i]]
  <2>1. DOMAIN PrimaryCols(info) = 1 .. n
    BY PrimaryColumns
  <2> QED
    BY <2>1 DEF KeyOf
<1>2. RowKey(info, row) = KeyBytes(KeyOf(info, row))
  <2>1. DOMAIN PrimaryCols(info) = 1 .. n
    BY PrimaryColumns
  <2>2. [i \in DOMAIN PrimaryCols(info) |->
           EncodeDataKey(DbId, TableId, ToText(GetColValue(info, row, PrimaryCols(info)[i])))]
          = [i \in DOMAIN KeyOf(info, row) |->
               EncodeDataKey(DbId, TableId, ToText(KeyOf(info, row)[i]))]
    BY <1>1, <2>1
  <2> QED
    BY <2>2 DEF RowKey, KeyBytes
<1>3. KeyBytes(KeyOf(info, row)) \in Bytes
  <2>1. n \in Nat
    BY PrimaryColumns
  <2>2. PICK seqs : seqs = [i \in DOMAIN KeyOf(info, row) |->
                              EncodeDataKey(DbId, TableId, ToText(KeyOf(info, row)[i]))]
    OBVIOUS
  <2>3. \A i \in 1 .. n : EncodeDataKey(DbId, TableId, ToText(KeyOf(info, row)[i])) \in Bytes
    BY <1>1, TextOfValue, DataKeyIsBytes
  <2>4. seqs \in [1 .. n -> Seq(Byte)]
    <3> HIDE DEF n
    <3> QED
      BY <1>1, <2>2, <2>3 DEF Bytes
  <2>5. FlattenSeq(seqs) \in Seq(Byte)
    BY <2>1, <2>4, FlattenIsSeq
  <2> QED
    BY <2>2, <2>5 DEF KeyBytes, Bytes
<1> QED
  BY <1>1, <1>2, <1>3, <1>4

\* A key of one column: its record and its item.
LEMMA KeyOfOneColumn ==
  ASSUME NEW key, key = [i \in 1 .. 1 |-> key[i]], key[1] \in Values
  PROVE  /\ KeyBytes(key) = EncodeDataKey(DbId, TableId, ToText(key[1]))
         /\ key = <<key[1]>>
<1>1. PICK seqs : seqs = [i \in DOMAIN key |-> EncodeDataKey(DbId, TableId, ToText(key[i]))]
  OBVIOUS
<1>2. EncodeDataKey(DbId, TableId, ToText(key[1])) \in Bytes
  BY TextOfValue, DataKeyIsBytes
<1>3. seqs \in [1 .. 1 -> Seq(Byte)] /\ seqs[1] = EncodeDataKey(DbId, TableId, ToText(key[1]))
  BY <1>1, <1>2 DEF Bytes
<1>4. FlattenSeq(seqs) = seqs[1]
  BY <1>3, FlattenOne
<1>5. KeyBytes(key) = EncodeDataKey(DbId, TableId, ToText(key[1]))
  BY <1>1, <1>3, <1>4 DEF KeyBytes
<1>6. key = <<key[1]>>
  OBVIOUS
<1> QED
  BY <1>5, <1>6

\* Different keys of one column are the keys of different records.
LEMMA KeysDiffer ==
  ASSUME NEW info, InfoOK(info), info.primary # 0, Len(PrimaryCols(info)) = 1,
         NEW a, RowOK(info, a), NEW b, RowOK(info, b), RowKey(info, a) = RowKey(info, b)
  PROVE  KeyOf(info, a) = KeyOf(info, b)
<1> DEFINE j == KeyOf(info, a)
           k == KeyOf(info, b)
<1>1. /\ j = [i \in 1 .. 1 |-> j[i]] /\ j[1] \in Values /\ j[1].type \in {"Int64", "Null"}
      /\ k = [i \in 1 .. 1 |-> k[i]] /\ k[1] \in Values /\ k[1].type \in {"Int64", "Null"}
      /\ KeyBytes(j) = KeyBytes(k)
  BY KeyOfRow
<1> HIDE DEF j, k
<1>2. ToText(j[1]) = ToText(k[1])
  <2>1. /\ KeyBytes(j) = EncodeDataKey(DbId, TableId, ToText(j[1]))
        /\ KeyBytes(k) = EncodeDataKey(DbId, TableId, ToText(k[1]))
    BY <1>1, KeyOfOneColumn
  <2>2. ToText(j[1]) \in Bytes /\ ToText(k[1]) \in Bytes
    BY <1>1, TextOfValue
  <2> QED
    BY <1>1, <2>1, <2>2, DataKeyIsBytes
<1>3. ASSUME NEW v \in Values, v.type = "Int64"
      PROVE  /\ v = NewValue("Int64", v.u) /\ v.u \in 0 .. Pow256[W64] - 1
             /\ ToText(v) = Decimal[Signed(v.u, W64)] /\ ToText(v) # <<>>
  <2>1. v = NewValue("Int64", v.u) /\ v.u \in 0 .. Pow256[IntWidth["Int64"]] - 1
    BY <1>3, EncodedValue, TypesOfValues
  <2>2. /\ ToText(NewValue("Int64", v.u)) = Decimal[Signed(v.u, IntWidth["Int64"])]
        /\ Decimal[Signed(v.u, IntWidth["Int64"])] # <<>>
    BY <2>1, TextOfWord
  <2> QED
    BY <2>1, <2>2, TypesOfValues
<1>4. ASSUME NEW v \in Values, v.type = "Null"
      PROVE  v = NewValue("Null", 0) /\ ToText(v) = <<>>
  BY <1>4, EncodedValue, TypesOfValues DEF ToText
<1>5. j[1] = k[1]
  <2>1. CASE j[1].type = "Int64" /\ k[1].type = "Int64"
    <3>1. PICK u, v : u = j[1].u /\ v = k[1].u
      OBVIOUS
    <3>2. /\ u \in 0 .. Pow256[W64] - 1 /\ v \in 0 .. Pow256[W64] - 1
          /\ Decimal[Signed(u, W64)] = Decimal[Signed(v, W64)]
          /\ j[1] = NewValue("Int64", u) /\ k[1] = NewValue("Int64", v)
      BY <1>1, <1>2, <1>3, <2>1, <3>1
    <3>3. PICK x, y : x = Signed(u, W64) /\ y = Signed(v, W64)
      OBVIOUS
    <3>4. x \in -MaxWord .. MaxWord /\ y \in -MaxWord .. MaxWord
      BY <3>2, <3>3, Sizes, SignedWords
    <3>5. x = y
      BY <3>2, <3>3, <3>4, DecimalsDiffer
    <3>6. u = v
      BY <3>2, <3>3, <3>5, Sizes, SignedWords
    <3> QED
      BY <3>2, <3>6
  <2>2. CASE j[1].type = "Null" /\ k[1].type = "Null"
    BY <1>1, <1>4, <2>2
  <2>3. CASE j[1].type = "Int64" /\ k[1].type = "Null"
    BY <1>1, <1>2, <1>3, <1>4, <2>3
  <2>4. CASE j[1].type = "Null" /\ k[1].type = "Int64"
    BY <1>1, <1>2, <1>3, <1>4, <2>4
  <2> QED
    BY <1>1, <2>1, <2>2, <2>3, <2>4
<1>6. j = <<j[1]>> /\ k = <<k[1]>>
  BY <1>1, KeyOfOneColumn
<1>7. j = k
  BY <1>5, <1>6
<1> QED
  BY <1>7 DEF j, k

-----------------------------------------------------------------------------
(* What an INSERT stores *)

\* The last of the keys that are equal to one of them.
LEMMA LastOfKeys ==
  ASSUME NEW n \in Nat, NEW keys, DOMAIN keys = 1 .. n, NEW q \in 1 .. n
  PROVE  LET last == Max({r \in DOMAIN keys : keys[r] = keys[q]})
         IN  /\ last \in 1 .. n /\ keys[last] = keys[q]
             /\ \A r \in 1 .. n : keys[r] = keys[q] => r <= last
<1> DEFINE R == {r \in DOMAIN keys : keys[r] = keys[q]}
           T == {n - r : r \in R}
<1>1. q \in R /\ R \subseteq 1 .. n
  OBVIOUS
<1>2. T \in SUBSET Nat /\ T # {}
  <2>1. \A r \in R : n - r \in Nat
    BY <1>1
  <2> HIDE DEF R
  <2> QED
    BY <1>1, <2>1
<1>3. PICK m \in T : \A k \in T : m <= k
  BY <1>2, LeastNumber
<1>4. PICK x \in R : m = n - x
  OBVIOUS
<1>5. \A y \in R : x >= y
  <2> TAKE y \in R
  <2>1. n - y \in T /\ x \in 1 .. n /\ y \in 1 .. n
    BY <1>1
  <2>2. m <= n - y
    BY <1>3, <2>1
  <2> QED
    BY <1>4, <2>1, <2>2
<1> HIDE DEF R, T
<1>6. Max(R) = CHOOSE z \in R : \A y \in R : z >= y
  BY DEF Max
<1>7. Max(R) \in R /\ \A y \in R : Max(R) >= y
  BY <1>5, <1>6
<1>8. /\ Max(R) \in 1 .. n /\ keys[Max(R)] = keys[q]
      /\ \A r \in 1 .. n : keys[r] = keys[q] => r <= Max(R)
  <2>1. Max(R) \in 1 .. n /\ keys[Max(R)] = keys[q]
    BY <1>1, <1>7 DEF R
  <2>2. ASSUME NEW r \in 1 .. n, keys[r] = keys[q] PROVE r <= Max(R)
    <3>1. r \in R
      BY <2>2 DEF R
    <3>2. Max(R) >= r
      BY <1>7, <3>1
    <3> QED
      BY <2>1, <3>2
  <2> QED
    BY <2>1, <2>2
<1> QED
  BY <1>8 DEF R

\* A map keeps what is not replaced, and of equal keys the last one counts.
Puts(map, n, keys, values, put) ==
  /\ DOMAIN put = DOMAIN map \cup {keys[r] : r \in 1 .. n}
  /\ \A k \in DOMAIN map : (\A r \in 1 .. n : keys[r] # k) => put[k] = map[k]
  /\ \A q \in 1 .. n : \E r \in 1 .. n :
       /\ keys[r] = keys[q] /\ put[keys[q]] = values[r]
       /\ \A s \in 1 .. n : keys[s] = keys[q] => s <= r

LEMMA PutAllStores ==
  ASSUME NEW map, NEW n \in Nat, NEW keys, NEW values, DOMAIN keys = 1 .. n
  PROVE  Puts(map, n, keys, values, PutAll(map, keys, values))
<1> DEFINE put == PutAll(map, keys, values)
<1>1. Range(keys) = {keys[r] : r \in 1 .. n}
  BY DEF Range
<1>2. put = [k \in DOMAIN map \cup Range(keys) |->
               IF k \in Range(keys) THEN values[Max({r \in DOMAIN keys : keys[r] = k})] ELSE map[k]]
  BY DEF PutAll
<1> HIDE DEF put
<1>3. DOMAIN put = DOMAIN map \cup {keys[r] : r \in 1 .. n}
  BY <1>1, <1>2
<1>4. ASSUME NEW k \in DOMAIN map, \A r \in 1 .. n : keys[r] # k PROVE put[k] = map[k]
  BY <1>1, <1>2, <1>4
<1>5. ASSUME NEW q \in 1 .. n
      PROVE  \E r \in 1 .. n : /\ keys[r] = keys[q] /\ put[keys[q]] = values[r]
                               /\ \A s \in 1 .. n : keys[s] = keys[q] => s <= r
  <2>1. PICK last : last = Max({r \in DOMAIN keys : keys[r] = keys[q]})
    OBVIOUS
  <2>2. /\ last \in 1 .. n /\ keys[last] = keys[q]
        /\ \A r \in 1 .. n : keys[r] = keys[q] => r <= last
    BY <2>1, LastOfKeys
  <2>3. keys[q] \in Range(keys)
    BY <1>1
  <2>4. put[keys[q]] = values[last]
    BY <1>2, <2>1, <2>3
  <2> QED
    BY <2>2, <2>4
<1> QED
  BY <1>3, <1>4, <1>5 DEF Puts, put

\* A stored row, its key, and what an INSERT told of it.
Stands(info, row, key) ==
  /\ RowOK(info, row) /\ key = KeyOf(info, row)
  /\ RowKey(info, row) \in DOMAIN data /\ data[RowKey(info, row)] = RowValue(info, row)
  /\ Tells(info, row, told[key])

\* Every record is the row of a key an INSERT gave, and with a primary key of one
\* column every key has its record.
RowsStored(info) ==
  /\ \A k \in DOMAIN data : \E key \in DOMAIN told : \E row :
       k = RowKey(info, row) /\ Stands(info, row, key)
  /\ Len(PrimaryCols(info)) = 1 => \A key \in DOMAIN told : \E row : Stands(info, row, key)

LEMMA ChunkStored ==
  ASSUME NEW info, InfoOK(info), info.primary # 0,
         NEW n \in Nat, NEW cells, NEW chunk, DOMAIN chunk = 1 .. n,
         \A r \in 1 .. n : RowOK(info, chunk[r]) /\ Tells(info, chunk[r], Told(info, cells[r])),
         RowsStored(info), InsertChunk(info, cells, chunk)
  PROVE  /\ RowsStored(info)'
         /\ DOMAIN told \subseteq DOMAIN told'
         /\ \A r \in 1 .. n : KeyOf(info, chunk[r]) \in DOMAIN told'
<1> DEFINE dk == [r \in DOMAIN chunk |-> RowKey(info, chunk[r])]
           dv == [r \in DOMAIN chunk |-> RowValue(info, chunk[r])]
           tk == [r \in DOMAIN chunk |-> KeyOf(info, chunk[r])]
           tv == [r \in DOMAIN chunk |-> Told(info, cells[r])]
<1>1. data' = PutAll(data, dk, dv) /\ told' = PutAll(told, tk, tv)
  BY DEF InsertChunk, StoreRows
<1>2. DOMAIN dk = 1 .. n /\ DOMAIN tk = 1 .. n
  OBVIOUS
<1>3. \A r \in 1 .. n : /\ dk[r] = RowKey(info, chunk[r]) /\ dv[r] = RowValue(info, chunk[r])
                        /\ tk[r] = KeyOf(info, chunk[r]) /\ tv[r] = Told(info, cells[r])
  OBVIOUS
<1> HIDE DEF dk, dv, tk, tv
<1>4. /\ DOMAIN data' = DOMAIN data \cup {dk[r] : r \in 1 .. n}
      /\ \A k \in DOMAIN data : (\A r \in 1 .. n : dk[r] # k) => data'[k] = data[k]
      /\ \A q \in 1 .. n : \E r \in 1 .. n : /\ dk[r] = dk[q] /\ data'[dk[q]] = dv[r]
                                             /\ \A s \in 1 .. n : dk[s] = dk[q] => s <= r
  <2>1. Puts(data, n, dk, dv, PutAll(data, dk, dv))
    BY <1>2, PutAllStores
  <2>2. Puts(data, n, dk, dv, data')
    BY <1>1, <2>1
  <2> QED
    BY <2>2 DEF Puts
<1>5. /\ DOMAIN told' = DOMAIN told \cup {tk[r] : r \in 1 .. n}
      /\ \A k \in DOMAIN told : (\A r \in 1 .. n : tk[r] # k) => told'[k] = told[k]
      /\ \A q \in 1 .. n : \E r \in 1 .. n : /\ tk[r] = tk[q] /\ told'[tk[q]] = tv[r]
                                             /\ \A s \in 1 .. n : tk[s] = tk[q] => s <= r
  <2>1. Puts(told, n, tk, tv, PutAll(told, tk, tv))
    BY <1>2, PutAllStores
  <2>2. Puts(told, n, tk, tv, told')
    BY <1>1, <2>1
  <2> QED
    BY <2>2 DEF Puts
<1>6. \A r \in 1 .. n : dk[r] = KeyBytes(tk[r])
  BY <1>3, KeyOfRow
<1>7. ASSUME NEW r \in 1 .. n, data'[dk[r]] = dv[r], told'[tk[r]] = tv[r]
      PROVE  /\ tk[r] \in DOMAIN told' /\ dk[r] = RowKey(info, chunk[r])
             /\ Stands(info, chunk[r], tk[r])'
  <2>1. tk[r] \in DOMAIN told' /\ dk[r] \in DOMAIN data'
    BY <1>4, <1>5
  <2>2. /\ RowOK(info, chunk[r]) /\ Tells(info, chunk[r], Told(info, cells[r]))
        /\ dk[r] = RowKey(info, chunk[r]) /\ dv[r] = RowValue(info, chunk[r])
        /\ tk[r] = KeyOf(info, chunk[r]) /\ tv[r] = Told(info, cells[r])
    BY <1>3
  <2>3. Tells(info, chunk[r], told'[tk[r]])
    BY <1>7, <2>2
  <2> QED
    BY <1>7, <2>1, <2>2, <2>3 DEF Stands
<1>8. ASSUME NEW key \in DOMAIN told, NEW row, Stands(info, row, key),
             \A r \in 1 .. n : tk[r] # key, \A r \in 1 .. n : dk[r] # RowKey(info, row)
      PROVE  key \in DOMAIN told' /\ Stands(info, row, key)'
  <2>1. /\ key \in DOMAIN told' /\ told'[key] = told[key]
    BY <1>5, <1>8
  <2>2. RowKey(info, row) \in DOMAIN data /\ RowKey(info, row) \in DOMAIN data'
    BY <1>4, <1>8 DEF Stands
  <2>3. data'[RowKey(info, row)] = data[RowKey(info, row)]
    BY <1>4, <1>8, <2>2
  <2> QED
    BY <1>8, <2>1, <2>2, <2>3 DEF Stands
<1>9. ASSUME NEW k \in DOMAIN data'
      PROVE  \E key \in DOMAIN told' : \E row : k = RowKey(info, row) /\ Stands(info, row, key)'
  <2>1. CASE \E q \in 1 .. n : dk[q] = k
    <3>1. PICK q \in 1 .. n : dk[q] = k
      BY <2>1
    <3>2. PICK r \in 1 .. n : /\ dk[r] = dk[q] /\ data'[dk[q]] = dv[r]
                              /\ \A s \in 1 .. n : dk[s] = dk[q] => s <= r
      BY <1>4
    <3>3. PICK s \in 1 .. n : /\ tk[s] = tk[r] /\ told'[tk[r]] = tv[s]
                              /\ \A t \in 1 .. n : tk[t] = tk[r] => t <= s
      BY <1>5
    <3>4. dk[s] = dk[q] /\ r <= s
      BY <1>6, <3>2, <3>3
    <3>5. s = r
      BY <3>2, <3>4
    <3>6. data'[dk[r]] = dv[r] /\ told'[tk[r]] = tv[r]
      BY <3>2, <3>3, <3>5
    <3>7. tk[r] \in DOMAIN told' /\ dk[r] = RowKey(info, chunk[r]) /\ Stands(info, chunk[r], tk[r])'
      BY <1>7, <3>6
    <3> QED
      BY <3>1, <3>2, <3>7
  <2>2. CASE \A q \in 1 .. n : dk[q] # k
    <3>1. k \in DOMAIN data
      BY <1>4, <2>2
    <3>2. PICK key \in DOMAIN told : \E row : k = RowKey(info, row) /\ Stands(info, row, key)
      BY <3>1 DEF RowsStored
    <3>6. PICK row : k = RowKey(info, row) /\ Stands(info, row, key)
      BY <3>2
    <3>3. k = KeyBytes(key)
      BY <3>6, KeyOfRow DEF Stands
    <3>4. \A r \in 1 .. n : tk[r] # key
      BY <1>6, <2>2, <3>3
    <3>5. key \in DOMAIN told' /\ Stands(info, row, key)'
      BY <1>8, <2>2, <3>4, <3>6
    <3> QED
      BY <3>5, <3>6
  <2> QED
    BY <2>1, <2>2
<1>10. ASSUME Len(PrimaryCols(info)) = 1, NEW key \in DOMAIN told'
       PROVE  \E row : Stands(info, row, key)'
  <2>1. CASE \E q \in 1 .. n : tk[q] = key
    <3>1. PICK q \in 1 .. n : tk[q] = key
      BY <2>1
    <3>2. PICK r \in 1 .. n : /\ tk[r] = tk[q] /\ told'[tk[q]] = tv[r]
                              /\ \A s \in 1 .. n : tk[s] = tk[q] => s <= r
      BY <1>5
    <3>3. PICK s \in 1 .. n : /\ dk[s] = dk[r] /\ data'[dk[r]] = dv[s]
                              /\ \A t \in 1 .. n : dk[t] = dk[r] => t <= s
      BY <1>4
    <3>4. tk[s] = tk[r]
      <4>1. /\ RowOK(info, chunk[s]) /\ RowOK(info, chunk[r])
            /\ RowKey(info, chunk[s]) = RowKey(info, chunk[r])
        BY <1>3, <3>3
      <4>2. KeyOf(info, chunk[s]) = KeyOf(info, chunk[r])
        BY <1>10, <4>1, KeysDiffer
      <4> QED
        BY <1>3, <4>2
    <3>5. s = r
      <4>1. s <= r /\ r <= s
        BY <3>2, <3>3, <3>4
      <4> QED
        BY <4>1
    <3>6. data'[dk[r]] = dv[r] /\ told'[tk[r]] = tv[r]
      BY <3>2, <3>3, <3>5
    <3>7. Stands(info, chunk[r], tk[r])'
      BY <1>7, <3>6
    <3> QED
      BY <3>1, <3>2, <3>7
  <2>2. CASE \A q \in 1 .. n : tk[q] # key
    <3>1. key \in DOMAIN told
      BY <1>5, <2>2
    <3>2. PICK row : Stands(info, row, key)
      BY <1>10, <3>1 DEF RowsStored
    <3>3. \A r \in 1 .. n : dk[r] # RowKey(info, row)
      <4> SUFFICES ASSUME NEW r \in 1 .. n, dk[r] = RowKey(info, row) PROVE FALSE
        OBVIOUS
      <4>1. /\ RowOK(info, chunk[r]) /\ RowOK(info, row) /\ key = KeyOf(info, row)
            /\ RowKey(info, chunk[r]) = RowKey(info, row)
        BY <1>3, <3>2 DEF Stands
      <4>2. KeyOf(info, chunk[r]) = KeyOf(info, row)
        BY <1>10, <4>1, KeysDiffer
      <4> QED
        BY <1>3, <2>2, <4>1, <4>2
    <3> QED
      BY <1>8, <2>2, <3>1, <3>2, <3>3
  <2> QED
    BY <2>1, <2>2
<1>11. RowsStored(info)'
  BY <1>9, <1>10 DEF RowsStored
<1>12. \A r \in 1 .. n : KeyOf(info, chunk[r]) \in DOMAIN told'
  BY <1>3, <1>5
<1> QED
  BY <1>5, <1>11, <1>12

-----------------------------------------------------------------------------
(* The items of the indexes *)

LEMMA SuffixOf ==
  ASSUME NEW h \in Bytes, NEW p \in Bytes
  PROVE  IsSuffix(p, h \o p)
<1> DEFINE k == h \o p
           m == Len(h)
           n == Len(p)
<1>1. k \in Bytes /\ Len(k) = m + n /\ m \in Nat /\ n \in Nat
  BY Concatenation, LenProperties DEF Bytes
<1>2. \A j \in 1 .. n : k[m + j] = p[j]
  BY ItemOfConcatenation
<1> HIDE DEF k
<1>3. Reverse(p) = [i \in 1 .. n |-> p[(n - i) + 1]]
  BY DEF Reverse
<1>4. Reverse(k) = [i \in 1 .. m + n |-> k[((m + n) - i) + 1]]
  BY <1>1 DEF Reverse
<1> HIDE DEF m, n
<1>5. PICK rp, rk : rp = Reverse(p) /\ rk = Reverse(k)
  OBVIOUS
<1>6. ASSUME NEW i \in 1 .. n
      PROVE  rp[i] \in Byte /\ rp[i] = rk[i]
  <2>1. (n - i) + 1 \in 1 .. n /\ ((m + n) - i) + 1 = m + ((n - i) + 1) /\ i \in 1 .. m + n
    BY <1>1
  <2>2. p[(n - i) + 1] \in Byte
    BY <2>1, ElementOfSeq DEF Bytes, n
  <2> QED
    BY <1>2, <1>3, <1>4, <1>5, <2>1, <2>2
<1>7. rp \in Seq(Byte) /\ Len(rp) = n
  <2>1. rp = [i \in 1 .. n |-> rp[i]]
    BY <1>3, <1>5
  <2>2. \A i \in 1 .. n : rp[i] \in Byte
    BY <1>6
  <2> QED
    BY <1>1, <2>1, <2>2, IsASeq
<1>8. rk \in Seq(Byte) /\ Len(rk) = m + n
  <2>1. rk = [i \in 1 .. m + n |-> rk[i]] /\ m + n \in Nat
    BY <1>1, <1>4, <1>5
  <2>2. \A i \in 1 .. m + n : rk[i] \in Byte
    <3> TAKE i \in 1 .. m + n
    <3>1. ((m + n) - i) + 1 \in 1 .. m + n
      BY <1>1
    <3>2. k[((m + n) - i) + 1] \in Byte
      BY <1>1, <3>1, ElementOfSeq DEF Bytes
    <3> QED
      BY <1>4, <1>5, <3>2
  <2> QED
    BY <2>1, <2>2, IsASeq
<1>9. /\ SubSeq(rp, 1, n) \in Seq(Byte) /\ Len(SubSeq(rp, 1, n)) = n
      /\ SubSeq(rk, 1, n) \in Seq(Byte) /\ Len(SubSeq(rk, 1, n)) = n
      /\ \A i \in 1 .. n : SubSeq(rp, 1, n)[i] = rp[i] /\ SubSeq(rk, 1, n)[i] = rk[i]
  <2>1. SubSeq(rp, 1, n) = [i \in 1 .. n |-> rp[i]] /\ SubSeq(rk, 1, n) = [i \in 1 .. n |-> rk[i]]
    BY <1>1, <1>7, <1>8
  <2>2. \A i \in 1 .. n : rp[i] \in Byte /\ rk[i] \in Byte
    BY <1>6
  <2> QED
    BY <1>1, <2>1, <2>2, IsASeq
<1>10. SubSeq(rp, 1, n) = SubSeq(rk, 1, n)
  BY <1>6, <1>9, SeqEqual
<1>11. IsPrefix(rp, rk)
  BY <1>1, <1>7, <1>8, <1>10 DEF IsPrefix
<1> QED
  BY <1>5, <1>11 DEF IsSuffix, k

\* New items, all different, are counted one by one.
LEMMA ItemsAdded ==
  ASSUME NEW S, IsFiniteSet(S), NEW n \in Nat, NEW f, DOMAIN f = 1 .. n,
         \A r \in 1 .. n : f[r] \notin S,
         \A q, r \in 1 .. n : f[q] = f[r] => q = r
  PROVE  /\ IsFiniteSet(S \cup {f[r] : r \in 1 .. n})
         /\ Cardinality(S \cup {f[r] : r \in 1 .. n}) = Cardinality(S) + n
<1> DEFINE N == {f[r] : r \in 1 .. n}
           g == [r \in 1 .. n |-> f[r]]
<1>1. IsFiniteSet(1 .. n) /\ Cardinality(1 .. n) = n
  BY FS_Interval
<1>2. g \in Bijection(1 .. n, N)
  <2>1. g \in [1 .. n -> N] /\ \A r \in 1 .. n : g[r] = f[r]
    OBVIOUS
  <2>2. \A x \in N : \E r \in 1 .. n : g[r] = x
    BY <2>1
  <2>3. \A q, r \in 1 .. n : g[q] = g[r] => q = r
    BY <2>1
  <2> HIDE DEF g, N
  <2> QED
    BY <2>1, <2>2, <2>3 DEF Bijection, Injection, Surjection, IsInjective
<1>3. IsFiniteSet(N) /\ Cardinality(N) = n
  BY <1>1, <1>2, FS_Bijection DEF ExistsBijection
<1>4. S \cap N = {}
  OBVIOUS
<1> HIDE DEF N
<1>5. Cardinality(S \cap N) = 0
  BY <1>4, FS_EmptySet
<1>6. /\ IsFiniteSet(S \cup N)
      /\ Cardinality(S \cup N) = Cardinality(S) + Cardinality(N) - Cardinality(S \cap N)
  BY <1>3, FS_Union
<1>7. Cardinality(S) \in Nat
  BY FS_CardinalityType
<1>8. Cardinality(S \cup N) = Cardinality(S) + n
  BY <1>3, <1>5, <1>6, <1>7
<1> QED
  BY <1>6, <1>8 DEF N

\* The item of a row ends in its item of the primary index.
LEMMA ItemParts ==
  ASSUME NEW info, InfoOK(info), info.primary # 0, NEW row, RowOK(info, row),
         NEW i \in DOMAIN info.indexes
  PROVE  /\ EncodeIndex(info, info.primary, row) \in Bytes /\ EncodeIndex(info, i, row) \in Bytes
         /\ \E h \in Bytes : EncodeIndex(info, i, row) = h \o EncodeIndex(info, info.primary, row)
         /\ Len(PrimaryCols(info)) = 1 =>
              EncodeIndex(info, info.primary, row) = TypedBytes(KeyOf(info, row)[1])
<1>1. ASSUME NEW n \in Nat, NEW cols, DOMAIN cols = 1 .. n, Range(cols) \subseteq DOMAIN info.columns
      PROVE  TypedCols(info, row, cols) \in Bytes
  <2>1. \A c \in 1 .. n : cols[c] \in DOMAIN info.columns
    BY <1>1 DEF Range
  <2> QED
    BY <1>1, <2>1, PartsAreBytes
<1>2. ASSUME NEW j \in DOMAIN info.indexes
      PROVE  TypedCols(info, row, info.indexes[j].cols) \in Bytes
  <2>1. info.indexes[j].cols \in Seq(Nat \ {0})
    BY <1>2 DEF InfoOK
  <2>2. PICK n \in Nat : DOMAIN info.indexes[j].cols = 1 .. n
    BY <2>1, LenProperties
  <2>3. Range(info.indexes[j].cols) \subseteq DOMAIN info.columns
    BY <1>2 DEF InfoOK
  <2> QED
    BY <1>1, <2>2, <2>3
<1>3. info.primary \in DOMAIN info.indexes
  BY PrimaryColumns
<1>4. PICK p : p = TypedCols(info, row, PrimaryCols(info))
  OBVIOUS
<1>5. p \in Bytes
  BY <1>2, <1>3, <1>4 DEF PrimaryCols
<1>6. EncodeIndex(info, info.primary, row) = p
  <2>1. EncodeIndex(info, info.primary, row) = <<>> \o p
    BY <1>4 DEF EncodeIndex
  <2> QED
    BY <1>5, <2>1, ConcatEmptySeq DEF Bytes
<1>7. PICK h : h = IF info.indexes[i].type # info.indexes[info.primary].type
                   THEN TypedCols(info, row, info.indexes[i].cols) ELSE <<>>
  OBVIOUS
<1>8. h \in Bytes
  <2>1. <<>> \in Bytes
    BY EmptySeq DEF Bytes
  <2> QED
    BY <1>2, <1>7, <2>1
<1>9. EncodeIndex(info, i, row) = h \o p
  BY <1>4, <1>7 DEF EncodeIndex
<1>10. h \o p \in Bytes
  BY <1>5, <1>8, Concatenation
<1>11. ASSUME Len(PrimaryCols(info)) = 1 PROVE p = TypedBytes(KeyOf(info, row)[1])
  <2>1. /\ DOMAIN PrimaryCols(info) = 1 .. 1 /\ PrimaryCols(info)[1] \in DOMAIN info.columns
        /\ KeyOf(info, row)[1] = GetColValue(info, row, PrimaryCols(info)[1])
    BY <1>11, PrimaryColumns, KeyOfRow
  <2>2. PICK seqs : seqs = Parts(info, row, PrimaryCols(info))
    OBVIOUS
  <2>3. /\ seqs \in [1 .. 1 -> Bytes] /\ p = FlattenSeq(seqs)
        /\ seqs[1] = TypedBytes(GetColValue(info, row, PrimaryCols(info)[1]))
    <3>1. 1 \in Nat /\ \A c \in 1 .. 1 : PrimaryCols(info)[c] \in DOMAIN info.columns
      BY <2>1
    <3>2. PICK cols : cols = PrimaryCols(info)
      OBVIOUS
    <3>3. DOMAIN cols = 1 .. 1 /\ \A c \in 1 .. 1 : cols[c] \in DOMAIN info.columns
      BY <2>1, <3>1, <3>2
    <3>4. /\ Parts(info, row, cols) \in [1 .. 1 -> Bytes]
          /\ \A c \in 1 .. 1 : Parts(info, row, cols)[c] = TypedBytes(GetColValue(info, row, cols[c]))
          /\ TypedCols(info, row, cols) = FlattenSeq(Parts(info, row, cols))
      <4>1. PICK n \in Nat : n = 1
        OBVIOUS
      <4>2. DOMAIN cols = 1 .. n /\ \A c \in 1 .. n : cols[c] \in DOMAIN info.columns
        BY <3>3, <4>1
      <4>3. /\ Parts(info, row, cols) \in [1 .. n -> Bytes]
            /\ \A c \in 1 .. n : Parts(info, row, cols)[c] = TypedBytes(GetColValue(info, row, cols[c]))
            /\ TypedCols(info, row, cols) = FlattenSeq(Parts(info, row, cols))
        BY <4>2, PartsAreBytes
      <4> QED
        BY <4>1, <4>3
    <3>5. /\ seqs \in [1 .. 1 -> Bytes] /\ p = FlattenSeq(seqs)
          /\ \A c \in 1 .. 1 : seqs[c] = TypedBytes(GetColValue(info, row, PrimaryCols(info)[c]))
      BY <1>4, <2>2, <3>2, <3>4
    <3> QED
      BY <3>5
  <2>4. FlattenSeq(seqs) = seqs[1]
    BY <2>3, FlattenOne DEF Bytes
  <2> QED
    BY <2>1, <2>3, <2>4
<1> QED
  BY <1>5, <1>6, <1>8, <1>9, <1>10, <1>11

\* Every index has an item for each row of the primary one, which ends in its key;
\* with a primary key of one column, the items are the keys that were accepted.
ItemsOK(info) ==
  /\ DOMAIN items = DOMAIN info.indexes
  /\ \A i \in DOMAIN items : IsFiniteSet(items[i]) /\ items[i] \subseteq Bytes
  /\ info.primary # 0 =>
       \A i \in DOMAIN items :
         /\ Cardinality(items[i]) = Cardinality(items[info.primary])
         /\ \A p \in items[info.primary] : \E h \in Bytes : h \o p \in items[i]
  /\ info.primary # 0 /\ Len(PrimaryCols(info)) = 1 =>
       items[info.primary] = {TypedBytes(key[1]) : key \in kept}

LEMMA ChunkIndexed ==
  ASSUME NEW info, InfoOK(info), info.primary # 0,
         NEW n \in Nat, NEW cells, NEW chunk, DOMAIN chunk = 1 .. n,
         \A r \in 1 .. n : RowOK(info, chunk[r]),
         ItemsOK(info), InsertChunk(info, cells, chunk)
  PROVE  ItemsOK(info)'
<1> DEFINE item(i, r) == EncodeIndex(info, i, chunk[r])
           new(i) == {item(i, r) : r \in 1 .. n}
<1>1. CASE ~Accepted(info, chunk)
  <2>1. items' = items /\ kept' = kept
    BY <1>1 DEF InsertChunk, StoreItems
  <2> QED
    BY <2>1 DEF ItemsOK
<1>2. CASE Accepted(info, chunk)
  <2>1. items' = [i \in DOMAIN items |-> items[i] \cup {EncodeIndex(info, i, chunk[r]) : r \in DOMAIN chunk}]
    BY <1>2 DEF InsertChunk, StoreItems
  <2>2. DOMAIN items' = DOMAIN items /\ \A i \in DOMAIN items : items'[i] = items[i] \cup new(i)
    BY <2>1
  <2>3. kept' = kept \cup {KeyOf(info, chunk[r]) : r \in 1 .. n}
    BY <1>2 DEF InsertChunk
  <2>4. info.primary \in DOMAIN items /\ DOMAIN items = DOMAIN info.indexes
    BY PrimaryColumns DEF ItemsOK
  <2>5. \A i \in DOMAIN items : \A r \in 1 .. n :
          /\ item(info.primary, r) \in Bytes /\ item(i, r) \in Bytes
          /\ \E h \in Bytes : item(i, r) = h \o item(info.primary, r)
          /\ Len(PrimaryCols(info)) = 1 => item(info.primary, r) = TypedBytes(KeyOf(info, chunk[r])[1])
    BY <2>4, ItemParts
  <2>6. \A i \in DOMAIN items :
          /\ \A r \in 1 .. n : item(i, r) \notin items[i]
          /\ \A q, r \in 1 .. n : item(i, q) = item(i, r) => q = r
    BY <1>2, <2>4 DEF Accepted
  <2> HIDE DEF item
  <2>7. ASSUME NEW i \in DOMAIN items
        PROVE  /\ IsFiniteSet(items'[i]) /\ Cardinality(items'[i]) = Cardinality(items[i]) + n
               /\ items'[i] \subseteq Bytes
    <3>1. IsFiniteSet(items[i]) /\ items[i] \subseteq Bytes
      BY DEF ItemsOK
    <3> DEFINE f == [r \in 1 .. n |-> item(i, r)]
    <3>2. DOMAIN f = 1 .. n /\ \A r \in 1 .. n : f[r] = item(i, r)
      OBVIOUS
    <3> HIDE DEF f
    <3>3. /\ \A r \in 1 .. n : f[r] \notin items[i]
          /\ \A q, r \in 1 .. n : f[q] = f[r] => q = r
      BY <2>6, <3>2
    <3>4. {f[r] : r \in 1 .. n} = new(i)
      BY <3>2
    <3> HIDE DEF new
    <3>5. /\ IsFiniteSet(items[i] \cup {f[r] : r \in 1 .. n})
          /\ Cardinality(items[i] \cup {f[r] : r \in 1 .. n}) = Cardinality(items[i]) + n
      BY <3>1, <3>2, <3>3, ItemsAdded
    <3>6. new(i) \subseteq Bytes
      BY <2>5 DEF new
    <3> QED
      BY <2>2, <3>1, <3>4, <3>5, <3>6
  <2>8. ASSUME NEW i \in DOMAIN items
        PROVE  Cardinality(items'[i]) = Cardinality(items'[info.primary])
    <3>1. Cardinality(items[i]) = Cardinality(items[info.primary])
      BY DEF ItemsOK
    <3> QED
      BY <2>4, <2>7, <3>1
  <2>9. ASSUME NEW i \in DOMAIN items, NEW p \in items'[info.primary]
        PROVE  \E h \in Bytes : h \o p \in items'[i]
    <3>1. CASE p \in items[info.primary]
      <4>1. \E h \in Bytes : h \o p \in items[i]
        BY <3>1 DEF ItemsOK
      <4> QED
        BY <2>2, <4>1
    <3>2. CASE p \in new(info.primary)
      <4>1. PICK r \in 1 .. n : p = item(info.primary, r)
        BY <3>2
      <4>2. PICK h \in Bytes : item(i, r) = h \o item(info.primary, r)
        BY <2>5
      <4>3. item(i, r) \in items'[i]
        BY <2>2
      <4> QED
        BY <4>1, <4>2, <4>3
    <3> QED
      BY <2>2, <2>4, <3>1, <3>2
  <2>10. ASSUME Len(PrimaryCols(info)) = 1
         PROVE  items'[info.primary] = {TypedBytes(key[1]) : key \in kept'}
    <3>1. items[info.primary] = {TypedBytes(key[1]) : key \in kept}
      BY <2>10 DEF ItemsOK
    <3>2. items'[info.primary] = items[info.primary] \cup {item(info.primary, r) : r \in 1 .. n}
      BY <2>2, <2>4
    <3>3. \A r \in 1 .. n : item(info.primary, r) = TypedBytes(KeyOf(info, chunk[r])[1])
      BY <2>4, <2>5, <2>10
    <3> QED
      BY <2>3, <3>1, <3>2, <3>3
  <2> QED
    BY <2>2, <2>4, <2>7, <2>8, <2>9, <2>10 DEF ItemsOK
<1> QED
  BY <1>1, <1>2

-----------------------------------------------------------------------------
(* Tables and the rows their INSERTs make *)

\* The primary index of a description is one of its indexes, or none.
LEMMA PrimaryIsAnIndex ==
  ASSUME NEW indexes \in Seq([type : STRING, cols : Seq(Nat \ {0})])
  PROVE  PrimaryIndex(indexes) \in 0 .. Len(indexes)
<1> DEFINE P == {i \in DOMAIN indexes : indexes[i].type = "PRIMARY"}
           types == [i \in DOMAIN indexes |-> indexes[i].type]
<1>1. Len(indexes) \in Nat /\ DOMAIN indexes = 1 .. Len(indexes)
  BY LenProperties
<1>2. PrimaryIndex(indexes) = IF P = {} THEN 0 ELSE CHOOSE i \in P : \A j \in P : j <= i
  BY DEF PrimaryIndex
<1>3. CASE P = {}
  BY <1>1, <1>2, <1>3
<1>4. CASE P # {}
  <2>1. PICK q \in P : TRUE
    BY <1>4
  <2>2. DOMAIN types = 1 .. Len(indexes) /\ q \in 1 .. Len(indexes) /\ types[q] = "PRIMARY"
    BY <1>1, <2>1
  <2>3. \A i \in 1 .. Len(indexes) : types[i] = "PRIMARY" <=> i \in P
    BY <1>1
  <2> HIDE DEF types
  <2>4. PICK last : last = Max({r \in DOMAIN types : types[r] = types[q]})
    OBVIOUS
  <2>5. /\ last \in 1 .. Len(indexes) /\ types[last] = types[q]
        /\ \A r \in 1 .. Len(indexes) : types[r] = types[q] => r <= last
    BY <1>1, <2>2, <2>4, LastOfKeys
  <2>6. P \subseteq 1 .. Len(indexes)
    BY <1>1
  <2>7. last \in P /\ \A j \in P : j <= last
    BY <2>2, <2>3, <2>5, <2>6
  <2> HIDE DEF P
  <2>8. PrimaryIndex(indexes) \in P
    BY <1>2, <1>4, <2>7
  <2>9. PrimaryIndex(indexes) \in 1 .. Len(indexes)
    BY <2>6, <2>8
  <2> QED
    BY <1>1, <2>9
<1> QED
  BY <1>3, <1>4

\* A CREATE TABLE whose indexes name its own columns: all of them come back as
\* columns of Int64.
LEMMA CreatedInfo ==
  ASSUME NEW stmt \in CreateStmts,
         \A i \in DOMAIN stmt.indexes : Range(stmt.indexes[i].cols) \subseteq DOMAIN stmt.columns
  PROVE  LET info == Deserialize(Serialize(NewTableInfo(stmt)))
         IN  /\ InfoOK(info) /\ info.indexes = stmt.indexes
             /\ \A c \in DOMAIN info.columns : ColType(info, c) = "Int64"
<1> DEFINE info == Deserialize(Serialize(NewTableInfo(stmt)))
<1>1. stmt.columns \in Seq(STRING) /\ stmt.indexes \in Seq([type : STRING, cols : Seq(Nat \ {0})])
  BY RowsAssumption
<1>2. Len(stmt.columns) \in Nat /\ DOMAIN stmt.columns = 1 .. Len(stmt.columns)
  BY <1>1, LenProperties
<1>3. /\ info.columns = [i \in 1 .. Len(stmt.columns) |-> "DECIMAL"]
      /\ info.indexes = stmt.indexes /\ info.primary = PrimaryIndex(stmt.indexes)
  BY DEF Deserialize, Serialize, NewTableInfo
<1> HIDE DEF info
<1>4. DOMAIN info.columns = DOMAIN stmt.columns /\ DOMAIN info.columns = 1 .. Len(stmt.columns)
  BY <1>2, <1>3
<1>5. \A c \in DOMAIN info.columns : ColType(info, c) = "Int64"
  BY <1>2, <1>3, <1>4 DEF ColType, ToExprType
<1>6. info.primary \in DOMAIN info.indexes \cup {0}
  <2>1. PrimaryIndex(stmt.indexes) \in 0 .. Len(stmt.indexes) /\ Len(stmt.indexes) \in Nat
    BY <1>1, PrimaryIsAnIndex, LenProperties
  <2>2. DOMAIN stmt.indexes = 1 .. Len(stmt.indexes)
    BY <1>1, LenProperties
  <2> QED
    BY <1>3, <2>1, <2>2
<1>7. \A i \in DOMAIN info.indexes : /\ info.indexes[i].cols \in Seq(Nat \ {0})
                                    /\ Range(info.indexes[i].cols) \subseteq DOMAIN info.columns
  <2>1. \A i \in DOMAIN stmt.indexes : stmt.indexes[i] \in [type : STRING, cols : Seq(Nat \ {0})]
    BY <1>1, ElementOfSeq, LenProperties
  <2> QED
    BY <1>3, <1>4, <2>1
<1>8. ASSUME info.primary # 0, NEW j \in DOMAIN PrimaryCols(info)
      PROVE  ColType(info, PrimaryCols(info)[j]) = "Int64"
  <2>1. info.primary \in DOMAIN info.indexes
    BY <1>6, <1>8
  <2>2. PrimaryCols(info)[j] \in DOMAIN info.columns
    BY <1>7, <1>8, <2>1 DEF PrimaryCols, Range
  <2> QED
    BY <1>5, <2>2
<1>9. InfoOK(info)
  BY <1>2, <1>4, <1>5, <1>6, <1>7, <1>8 DEF InfoOK
<1> QED
  BY <1>3, <1>5, <1>9 DEF info

LEMMA FixtureInfo ==
  /\ InfoOK(GenTableInfo) /\ GenTableInfo.primary = 1
  /\ DOMAIN GenTableInfo.columns = 1 .. 3
  /\ ColType(GenTableInfo, 1) = "Int64" /\ ColType(GenTableInfo, 2) = "String"
  /\ ColType(GenTableInfo, 3) = "Int32"
<1>1. /\ GenTableInfo.columns = <<"LONGLONG", "STRING", "SHORT">>
      /\ GenTableInfo.primary = 1
      /\ GenTableInfo.indexes =
           <<[type |-> "PRIMARY", cols |-> << 1 >>], [type |-> "INDEX", cols |-> << 2 >>],
             [type |-> "INDEX", cols |-> << 3 >>]>>
  BY DEF GenTableInfo
<1> DEFINE info == GenTableInfo
<1> HIDE DEF info
<1>2. /\ DOMAIN info.columns = 1 .. 3
      /\ info.columns[1] = "LONGLONG" /\ info.columns[2] = "STRING" /\ info.columns[3] = "SHORT"
  <2>1. PICK columns : columns = <<"LONGLONG", "STRING", "SHORT">>
    OBVIOUS
  <2>2. DOMAIN columns = 1 .. 3
    BY <2>1
  <2>3. columns[1] = "LONGLONG" /\ columns[2] = "STRING" /\ columns[3] = "SHORT"
    BY <2>1
  <2>4. info.columns = columns
    BY <1>1, <2>1 DEF info
  <2> QED
    BY <2>2, <2>3, <2>4
<1>3. ColType(info, 1) = "Int64" /\ ColType(info, 2) = "String" /\ ColType(info, 3) = "Int32"
  BY <1>2 DEF ColType, ToExprType
<1>4. \A c \in 1 .. 3 : ColType(info, c) \in {"Int64", "Int32", "String"}
  <2>1. \A c \in 1 .. 3 : c = 1 \/ c = 2 \/ c = 3
    OBVIOUS
  <2> QED
    BY <1>3, <2>1
<1>5. << 1 >> \in Seq(Nat \ {0}) /\ << 2 >> \in Seq(Nat \ {0}) /\ << 3 >> \in Seq(Nat \ {0})
  OBVIOUS
<1>7. /\ DOMAIN info.indexes = 1 .. 3 /\ info.indexes[1].cols = << 1 >>
      /\ info.indexes[2].cols = << 2 >> /\ info.indexes[3].cols = << 3 >>
  BY <1>1 DEF info
<1>8. \A i \in DOMAIN info.indexes : /\ info.indexes[i].cols \in Seq(Nat \ {0})
                                    /\ Range(info.indexes[i].cols) \subseteq 1 .. 3
  <2>1. Range(<< 1 >>) = {1} /\ Range(<< 2 >>) = {2} /\ Range(<< 3 >>) = {3}
    BY DEF Range
  <2>2. \A i \in 1 .. 3 : i = 1 \/ i = 2 \/ i = 3
    OBVIOUS
  <2> QED
    BY <1>5, <1>7, <2>1, <2>2
<1>9. \A j \in DOMAIN PrimaryCols(info) : ColType(info, PrimaryCols(info)[j]) = "Int64"
  <2>1. PrimaryCols(info) = << 1 >>
    BY <1>1, <1>7 DEF PrimaryCols, info
  <2> QED
    BY <1>3, <2>1
<1>10. info.primary \in DOMAIN info.indexes
  BY <1>1, <1>7 DEF info
<1>11. InfoOK(info)
  BY <1>2, <1>4, <1>8, <1>9, <1>10 DEF InfoOK
<1> QED
  BY <1>1, <1>2, <1>3, <1>11 DEF info

\* The row of a record, when cells and memory hold values of the columns.
LEMMA RowOfCells ==
  ASSUME NEW info, InfoOK(info), NEW cells, NEW mem, NEW byte,
         \A c \in DOMAIN info.columns :
           IF c \in Unset(info, cells) THEN NewValue(ColType(info, c), mem[c]) \in Values
           ELSE /\ NewValue(ColType(info, c), ToData(cells[c], byte)) \in Values
                /\ IsInt(cells[c].type) =>
                     /\ cells[c] = NewValue(ColType(info, c), ToData(cells[c], byte))
                     /\ ColType(info, c) \in {"Int64", "Int32"},
         cells = <<>> => \A c \in DOMAIN info.columns : ColType(info, c) = "Int64"
  PROVE  LET row == SetColValues(info, cells, mem, byte)
         IN  RowOK(info, row) /\ Tells(info, row, Told(info, cells))
<1> DEFINE row == SetColValues(info, cells, mem, byte)
           t == Told(info, cells)
<1>1. PICK n \in Nat : DOMAIN info.columns = 1 .. n
  BY DEF InfoOK
<1>2. /\ DOMAIN t = DOMAIN info.columns
      /\ \A c \in DOMAIN info.columns :
           t[c] # NotTold => c \notin Unset(info, cells) /\ IsInt(cells[c].type) /\ t[c] = cells[c]
  BY DEF Told
<1>3. CASE cells = <<>>
  <2>1. \A c \in DOMAIN info.columns : c \in Unset(info, cells)
    BY <1>1, <1>3 DEF Unset
  <2>2. row = NoTuple
    BY <1>3 DEF SetColValues
  <2>3. \A c \in DOMAIN info.columns : t[c] = NotTold
    BY <1>2, <2>1
  <2> QED
    BY <1>2, <1>3, <2>2, <2>3 DEF RowOK, Tells
<1>4. CASE cells # <<>>
  <2>1. row = [c \in DOMAIN info.columns |->
                 IF c \in Unset(info, cells) THEN mem[c] ELSE ToData(cells[c], byte)]
    BY <1>4 DEF SetColValues
  <2> HIDE DEF row, t
  <2>2. \A c \in DOMAIN info.columns : NewValue(ColType(info, c), row[c]) \in Values
    BY <2>1
  <2>3. row = [c \in DOMAIN info.columns |-> row[c]]
    BY <2>1
  <2>4. RowOK(info, row)
    BY <2>2, <2>3 DEF RowOK
  <2>5. ASSUME NEW c \in DOMAIN info.columns, t[c] # NotTold
        PROVE  /\ row # NoTuple /\ ColType(info, c) \in {"Int64", "Int32"}
               /\ t[c] = NewValue(ColType(info, c), row[c])
    <3>1. c \notin Unset(info, cells) /\ IsInt(cells[c].type) /\ t[c] = cells[c]
      BY <1>2, <2>5
    <3>2. row[c] = ToData(cells[c], byte)
      BY <2>1, <3>1
    <3>3. row # NoTuple
      <4>1. DOMAIN row # {} /\ DOMAIN NoTuple = {}
        BY <2>1 DEF NoTuple
      <4> QED
        BY <4>1
    <3> QED
      BY <3>1, <3>2, <3>3
  <2>6. Tells(info, row, t)
    BY <1>2, <2>5 DEF Tells
  <2> QED
    BY <2>4, <2>6 DEF row, t
<1> QED
  BY <1>3, <1>4

\* What a literal becomes, and which of them a column of Int64 takes.
LEMMA CellOfLiteral ==
  ASSUME NEW lit \in Literals, ToLiteralNode(lit).type = "Int64"
  PROVE  ToLiteralNode(lit).u \in 0 .. Pow256[W64] - 1
         /\ ToLiteralNode(lit) = NewValue("Int64", ToLiteralNode(lit).u)
<1>1. CASE lit.kind = "int"
  <2>1. ToLiteralNode(lit) = NewValue("Int64", lit.u)
    BY <1>1 DEF ToLiteralNode
  <2>2. lit.u \in 0 .. Pow256[W64] - 1
    BY <1>1 DEF Literals
  <2> QED
    BY <2>1, <2>2 DEF NewValue
<1>2. CASE lit.kind # "int"
  <2>1. ToLiteralNode(lit) \in {NewValue("Double", 0), NewValue("Bool", 1), NewValue("Null", 0), Nil}
    BY <1>2 DEF ToLiteralNode
  <2>2. ToLiteralNode(lit).type # "Int64"
    BY <2>1 DEF NewValue, Nil
  <2> QED
    BY <2>2
<1> QED
  BY <1>1, <1>2

\* A row of an INSERT statement, whatever its unset columns hold.
LEMMA InsertedRow ==
  ASSUME NEW info, InfoOK(info), \A c \in DOMAIN info.columns : ColType(info, c) = "Int64",
         NEW record \in Seq(Literals), NEW cells,
         cells = [c \in DOMAIN record |-> ToLiteralNode(record[c])],
         NEW mem, \A c \in Unset(info, cells) : mem[c] \in Junk
  PROVE  LET row == SetColValues(info, cells, mem, 0)
         IN  RowOK(info, row) /\ Tells(info, row, Told(info, cells))
<1>1. Len(record) \in Nat /\ DOMAIN record = 1 .. Len(record)
  BY LenProperties
<1>2. PICK n \in Nat : DOMAIN info.columns = 1 .. n
  BY DEF InfoOK
<1>3. Len(cells) = Len(record)
  BY <1>1
<1>4. ASSUME NEW c \in DOMAIN info.columns
      PROVE  IF c \in Unset(info, cells) THEN NewValue(ColType(info, c), mem[c]) \in Values
             ELSE /\ NewValue(ColType(info, c), ToData(cells[c], 0)) \in Values
                  /\ IsInt(cells[c].type) =>
                       /\ cells[c] = NewValue(ColType(info, c), ToData(cells[c], 0))
                       /\ ColType(info, c) \in {"Int64", "Int32"}
  <2>1. ASSUME NEW u \in 0 .. Pow256[W64] - 1 PROVE NewValue(ColType(info, c), u) \in Values
    BY DEF NewValue, Values
  <2>2. CASE c \in Unset(info, cells)
    <3>1. mem[c] \in 0 .. Pow256[W64] - 1
      BY <2>2, RowsAssumption
    <3> QED
      BY <2>1, <2>2, <3>1
  <2>3. CASE c \notin Unset(info, cells)
    <3>1. c <= Len(cells) /\ cells[c].type = "Int64"
      BY <2>3 DEF Unset
    <3>2. c \in 1 .. Len(record)
      BY <1>1, <1>2, <1>3, <3>1
    <3>3. record[c] \in Literals /\ cells[c] = ToLiteralNode(record[c])
      BY <1>1, <3>2, ElementOfSeq
    <3>4. cells[c].u \in 0 .. Pow256[W64] - 1 /\ cells[c] = NewValue("Int64", cells[c].u)
      BY <3>1, <3>3, CellOfLiteral
    <3>5. ToData(cells[c], 0) = cells[c].u
      BY <3>1 DEF ToData
    <3> QED
      BY <2>1, <2>3, <3>4, <3>5
  <2> QED
    BY <2>2, <2>3
<1> QED
  BY <1>4, RowOfCells

\* A row of the test suite's generator.
LEMMA GeneratedRow ==
  ASSUME NEW n \in 1 .. MaxRows, NEW byte \in JunkByte, NEW mem
  PROVE  LET row == SetColValues(GenTableInfo, GenRecord(n), mem, byte)
         IN  RowOK(GenTableInfo, row) /\ Tells(GenTableInfo, row, Told(GenTableInfo, GenRecord(n)))
<1> DEFINE info == GenTableInfo
           cells == GenRecord(n)
<1>1. /\ InfoOK(info) /\ DOMAIN info.columns = 1 .. 3
      /\ ColType(info, 1) = "Int64" /\ ColType(info, 2) = "String" /\ ColType(info, 3) = "Int32"
  BY FixtureInfo
<1>2. /\ n \in 0 .. Pow256[W32] - 1 /\ n \in 0 .. Pow256[W64] - 1 /\ n >= 1
      /\ n \in -MaxWord .. MaxWord /\ n <= Pow256[W32] - 1
  <2>1. MaxRows \in 0 .. Pow256[W32] - 1 /\ W32 \in 0 .. W64
    BY RowsAssumption, Sizes
  <2>2. Pow256[W32] \in Nat /\ Pow256[W64] \in Nat /\ Pow256[W32] <= Pow256[W64]
    <3>1. W32 \in 0 .. W64 /\ W64 \in 0 .. W64
      BY Sizes
    <3> QED
      BY <3>1, Sizes, PowersGrow
  <2> QED
    BY <2>1, <2>2 DEF MaxWord
<1>3. Decimal[n] \in Bytes /\ Len(Decimal[n]) \in Nat /\ Len(Decimal[n]) <= Pow256[W32] - 1
  <2>1. Decimal[n] \in Bytes /\ Len(Decimal[n]) \in Nat /\ Len(Decimal[n]) <= n
    BY <1>2, DecimalsDiffer
  <2> QED
    BY <1>2, <2>1, Sizes
<1>4. PICK a, b, d : a = NewValue("Int64", n) /\ b = NewValue("String", Decimal[n]) /\ d = NewValue("Int32", n)
  OBVIOUS
<1>5. cells = <<a, b, d>>
  BY <1>4 DEF GenRecord
<1> HIDE DEF cells, info
<1>6. Len(cells) = 3 /\ cells # <<>> /\ cells[1] = a /\ cells[2] = b /\ cells[3] = d
  BY <1>5
<1>7. \A c \in 1 .. 3 : c \in Unset(info, cells) <=> cells[c].type # ColType(info, c)
  BY <1>1, <1>6 DEF Unset
<1>8. /\ a.type = "Int64" /\ a.u = n /\ b.type = "String" /\ b.u = Decimal[n]
      /\ d.type = "Int32" /\ d.u = n
  BY <1>4 DEF NewValue
<1>9. ASSUME NEW c \in 1 .. 3
      PROVE  /\ c \notin Unset(info, cells)
             /\ NewValue(ColType(info, c), ToData(cells[c], byte)) \in Values
             /\ IsInt(cells[c].type) =>
                  /\ cells[c] = NewValue(ColType(info, c), ToData(cells[c], byte))
                  /\ ColType(info, c) \in {"Int64", "Int32"}
  <2>1. c = 1 \/ c = 2 \/ c = 3
    OBVIOUS
  <2>2. CASE c = 1
    <3>1. c \notin Unset(info, cells) /\ ToData(cells[c], byte) = n
      BY <1>1, <1>6, <1>7, <1>8, <2>2 DEF ToData
    <3>2. NewValue("Int64", n) \in Values
      BY <1>2 DEF NewValue, Values
    <3> QED
      BY <1>1, <1>4, <1>6, <2>2, <3>1, <3>2
  <2>3. CASE c = 2
    <3>1. c \notin Unset(info, cells)
      BY <1>1, <1>6, <1>7, <1>8, <2>3
    <3>2. ToData(cells[c], byte) = [i \in 1 .. Len(Decimal[n]) |-> byte]
      BY <1>6, <1>8, <2>3 DEF ToData
    <3>3. /\ [i \in 1 .. Len(Decimal[n]) |-> byte] \in Bytes
          /\ Len([i \in 1 .. Len(Decimal[n]) |-> byte]) = Len(Decimal[n])
      <4>1. \A i \in 1 .. Len(Decimal[n]) : byte \in Byte
        BY RowsAssumption
      <4>2. PICK s : s = [i \in 1 .. Len(Decimal[n]) |-> byte]
        OBVIOUS
      <4>3. s \in Seq(Byte)
        BY <1>3, <4>1, <4>2, IsASeq
      <4>4. Len(s) = Len(Decimal[n])
        BY <1>3, <4>2, <4>3, LenProperties
      <4> QED
        BY <4>2, <4>3, <4>4 DEF Bytes
    <3>4. NewValue("String", [i \in 1 .. Len(Decimal[n]) |-> byte]) \in Values
      BY <1>3, <3>3 DEF NewValue, Values
    <3>5. ~IsInt(cells[c].type)
      BY <1>6, <1>8, <2>3, TypesOfValues
    <3> QED
      BY <1>1, <2>3, <3>1, <3>2, <3>4, <3>5
  <2>4. CASE c = 3
    <3>1. c \notin Unset(info, cells) /\ ToData(cells[c], byte) = n
      BY <1>1, <1>6, <1>7, <1>8, <2>4 DEF ToData
    <3>2. NewValue("Int32", n) \in Values
      BY <1>2 DEF NewValue, Values
    <3> QED
      BY <1>1, <1>4, <1>6, <2>4, <3>1, <3>2
  <2> QED
    BY <2>1, <2>2, <2>3, <2>4
<1>10. LET row == SetColValues(info, cells, mem, byte)
       IN  RowOK(info, row) /\ Tells(info, row, Told(info, cells))
  BY <1>1, <1>6, <1>9, RowOfCells
<1> QED
  BY <1>10 DEF info, cells

-----------------------------------------------------------------------------
(* Orders *)

\* R puts the members of S into a line.
Orders(R, S) ==
  /\ \A a, b \in S : a = b \/ <<a, b>> \in R \/ <<b, a>> \in R
  /\ \A a, b \in S : ~(<<a, b>> \in R /\ <<b, a>> \in R)
  /\ \A a, b, c \in S : <<a, b>> \in R /\ <<b, c>> \in R => <<a, c>> \in R

\* The items of s, one after the other.
InOrder(s, R) == \A i, j \in DOMAIN s : i < j => <<s[i], s[j]>> \in R

\* s lists n members of S in order.
Lists(s, n, S, R) == s \in [1 .. n -> S] /\ InOrder(s, R)

\* A finite set that is not empty has a last member.
LEMMA LastMember ==
  ASSUME NEW R, NEW S, IsFiniteSet(S), Orders(R, S), NEW V \in SUBSET S, V # {}
  PROVE  \E m \in V : \A a \in V : a = m \/ <<a, m>> \in R
<1> DEFINE HasLast(U) == \E m \in U : \A a \in U : a = m \/ <<a, m>> \in R
           N == Cardinality(S)
           T == {n \in 0 .. N : \A U \in SUBSET S : Cardinality(U) = n /\ U # {} => HasLast(U)}
<1>1. N \in Nat
  BY FS_CardinalityType
<1>2. \A U \in SUBSET S : IsFiniteSet(U) /\ Cardinality(U) \in 0 .. N
  <2> TAKE U \in SUBSET S
  <2>1. IsFiniteSet(U) /\ Cardinality(U) <= N
    BY FS_Subset
  <2>2. Cardinality(U) \in Nat
    BY <2>1, FS_CardinalityType
  <2> QED
    BY <1>1, <2>1, <2>2
<1> HIDE DEF N
<1>3. 0 \in T
  <2>1. \A U \in SUBSET S : Cardinality(U) = 0 => U = {}
    BY <1>2, FS_EmptySet
  <2> HIDE DEF HasLast
  <2> QED
    BY <1>1, <2>1
<1>4. ASSUME NEW n \in 1 .. N, n - 1 \in T PROVE n \in T
  <2> SUFFICES ASSUME NEW U \in SUBSET S, Cardinality(U) = n, U # {} PROVE HasLast(U)
    <3> HIDE DEF HasLast
    <3> QED
      BY <1>1
  <2>1. PICK x \in U : TRUE
    OBVIOUS
  <2>2. Cardinality(U \ {x}) = n - 1 /\ U \ {x} \in SUBSET S
    BY <1>2, <2>1, FS_RemoveElement
  <2>3. CASE U \ {x} = {}
    BY <2>1, <2>3
  <2>4. CASE U \ {x} # {}
    <3>1. HasLast(U \ {x})
      <4> HIDE DEF HasLast
      <4> QED
        BY <1>4, <2>2, <2>4
    <3>2. PICK m \in U \ {x} : \A a \in U \ {x} : a = m \/ <<a, m>> \in R
      BY <3>1
    <3>3. m \in S /\ x \in S /\ m # x /\ U \subseteq S
      BY <2>1, <3>2
    <3>4. <<x, m>> \in R \/ <<m, x>> \in R
      BY <3>3 DEF Orders
    <3>5. CASE <<x, m>> \in R
      BY <3>2, <3>5
    <3>6. CASE <<m, x>> \in R
      <4>1. \A a \in U : a = x \/ <<a, x>> \in R
        <5> TAKE a \in U
        <5>1. a = x \/ a = m \/ <<a, m>> \in R
          BY <3>2
        <5>2. a \in S /\ m \in S /\ x \in S
          BY <3>3
        <5>3. <<a, m>> \in R /\ <<m, x>> \in R => <<a, x>> \in R
          BY <5>2 DEF Orders
        <5> QED
          BY <3>6, <5>1, <5>3
      <4> QED
        BY <2>1, <4>1
    <3> QED
      BY <3>4, <3>5, <3>6
  <2> QED
    BY <2>3, <2>4
<1>5. T \in SUBSET (0 .. N)
  OBVIOUS
<1>6. T = 0 .. N
  <2> HIDE DEF T
  <2> QED
    BY <1>1, <1>3, <1>4, <1>5, Induction
<1>7. Cardinality(V) \in T
  BY <1>2, <1>6
<1>8. HasLast(V)
  <2> HIDE DEF HasLast
  <2> QED
    BY <1>7
<1> QED
  BY <1>8

\* A finite set can be enumerated in order.
LEMMA EnumerationExists ==
  ASSUME NEW R, NEW S, IsFiniteSet(S), Orders(R, S)
  PROVE  \E s : Lists(s, Cardinality(S), S, R)
<1> DEFINE N == Cardinality(S)
           T == {n \in 0 .. N : \A U \in SUBSET S :
                   Cardinality(U) = n => \E s \in [1 .. n -> U] : InOrder(s, R)}
<1>1. N \in Nat
  BY FS_CardinalityType
<1>2. \A U \in SUBSET S : IsFiniteSet(U)
  BY FS_Subset
<1> HIDE DEF N
<1>3. 0 \in T
  <2> SUFFICES ASSUME NEW U \in SUBSET S PROVE \E s \in [1 .. 0 -> U] : InOrder(s, R)
    BY <1>1
  <2>1. [i \in 1 .. 0 |-> {}] \in [1 .. 0 -> U]
    OBVIOUS
  <2>2. InOrder([i \in 1 .. 0 |-> {}], R)
    BY DEF InOrder
  <2> QED
    BY <2>1, <2>2
<1>4. ASSUME NEW n \in 1 .. N, n - 1 \in T PROVE n \in T
  <2> SUFFICES ASSUME NEW U \in SUBSET S, Cardinality(U) = n
               PROVE  \E s \in [1 .. n -> U] : InOrder(s, R)
    BY <1>1
  <2>1. U # {}
    BY <1>2, FS_EmptySet
  <2>2. PICK m \in U : \A a \in U : a = m \/ <<a, m>> \in R
    BY <2>1, LastMember
  <2>3. Cardinality(U \ {m}) = n - 1 /\ U \ {m} \in SUBSET S
    BY <1>2, <2>2, FS_RemoveElement
  <2>4. PICK s \in [1 .. n - 1 -> U \ {m}] : InOrder(s, R)
    BY <1>4, <2>3
  <2> DEFINE t == [i \in 1 .. n |-> IF i = n THEN m ELSE s[i]]
  <2>5. \A i \in 1 .. n : i # n => i \in 1 .. n - 1 /\ s[i] \in U \ {m}
    BY <2>4
  <2>6. t \in [1 .. n -> U] /\ DOMAIN t = 1 .. n /\ t[n] = m /\ \A i \in 1 .. n - 1 : t[i] = s[i]
    BY <2>5
  <2> HIDE DEF t
  <2>7. ASSUME NEW i \in 1 .. n, NEW j \in 1 .. n, i < j PROVE <<t[i], t[j]>> \in R
    <3>1. i \in 1 .. n - 1
      BY <2>7
    <3>2. t[i] = s[i] /\ s[i] \in U \ {m}
      BY <2>5, <2>6, <3>1
    <3>3. CASE j = n
      BY <2>2, <2>6, <3>2, <3>3
    <3>4. CASE j # n
      <4>1. j \in 1 .. n - 1
        BY <3>4
      <4>2. <<s[i], s[j]>> \in R
        BY <2>4, <2>7, <3>1, <4>1 DEF InOrder
      <4> QED
        BY <2>6, <3>2, <4>1, <4>2
    <3> QED
      BY <3>3, <3>4
  <2>8. InOrder(t, R)
    BY <2>6, <2>7 DEF InOrder
  <2> QED
    BY <2>6, <2>8
<1>5. T \in SUBSET (0 .. N)
  OBVIOUS
<1>6. T = 0 .. N
  <2> HIDE DEF T
  <2> QED
    BY <1>1, <1>3, <1>4, <1>5, Induction
<1>7. N \in T /\ S \in SUBSET S
  BY <1>1, <1>6
<1>8. \E s \in [1 .. N -> S] : InOrder(s, R)
  BY <1>7 DEF N
<1> QED
  BY <1>8 DEF N, Lists

\* An enumeration in order has every member once.
LEMMA EnumerationIsOnto ==
  ASSUME NEW R, NEW S, IsFiniteSet(S), Orders(R, S),
         NEW n \in Nat, n = Cardinality(S), NEW s, Lists(s, n, S, R)
  PROVE  /\ \A a \in S : \E i \in 1 .. n : s[i] = a
         /\ \A i, j \in 1 .. n : s[i] = s[j] => i = j
<1>1. IsFiniteSet(1 .. n) /\ Cardinality(1 .. n) = n /\ s \in [1 .. n -> S] /\ InOrder(s, R)
  <2>1. n \in Int /\ 1 \in Int
    OBVIOUS
  <2>2. IsFiniteSet(1 .. n) /\ Cardinality(1 .. n) = IF 1 > n THEN 0 ELSE n - 1 + 1
    BY <2>1, FS_Interval
  <2> QED
    BY <2>2 DEF Lists
<1>2. ASSUME NEW i \in 1 .. n, NEW j \in 1 .. n, s[i] = s[j] PROVE i = j
  <2>1. ASSUME NEW p \in 1 .. n, NEW q \in 1 .. n, p < q PROVE s[p] # s[q]
    <3>1. <<s[p], s[q]>> \in R /\ s[p] \in S /\ s[q] \in S
      BY <1>1, <2>1 DEF InOrder
    <3> QED
      BY <3>1 DEF Orders
  <2> QED
    BY <1>1, <1>2, <2>1
<1>3. s \in Injection(1 .. n, S)
  BY <1>1, <1>2 DEF Injection, IsInjective
<1>4. s \in Surjection(1 .. n, S)
  BY <1>1, <1>3, FS_Injection
<1> QED
  BY <1>2, <1>4 DEF Surjection

\* There is one enumeration in order only.
LEMMA EnumerationIsUnique ==
  ASSUME NEW R, NEW S, IsFiniteSet(S), Orders(R, S),
         NEW N \in Nat, N = Cardinality(S),
         NEW s, Lists(s, N, S, R), NEW t, Lists(t, N, S, R)
  PROVE  s = t
<1> DEFINE D == {i \in 1 .. N : s[i] # t[i]}
<1>1. N \in Nat
  BY FS_CardinalityType
<1>2. /\ \A a \in S : \E i \in 1 .. N : s[i] = a
      /\ \A a \in S : \E i \in 1 .. N : t[i] = a
      /\ \A i \in 1 .. N : s[i] \in S /\ t[i] \in S
  <2>1. \A a \in S : \E i \in 1 .. N : s[i] = a
    BY EnumerationIsOnto
  <2>2. \A a \in S : \E i \in 1 .. N : t[i] = a
    BY EnumerationIsOnto
  <2>3. \A i \in 1 .. N : s[i] \in S /\ t[i] \in S
    BY DEF Lists
  <2> QED
    BY <2>1, <2>2, <2>3, Zenon
<1>3. \A i, j \in 1 .. N : i < j => <<s[i], s[j]>> \in R /\ <<t[i], t[j]>> \in R
  BY DEF InOrder, Lists
<1>4. D = {}
  <2> SUFFICES ASSUME D # {} PROVE FALSE
    OBVIOUS
  <2>1. PICK i \in D : \A k \in D : i <= k
    <3>1. D \in SUBSET Nat
      OBVIOUS
    <3> HIDE DEF D
    <3> QED
      BY <3>1, LeastNumber
  <2>2. i \in 1 .. N /\ s[i] # t[i] /\ s[i] \in S /\ t[i] \in S
    BY <1>2, <2>1
  <2>3. \A k \in 1 .. N : k < i => s[k] = t[k]
    BY <1>1, <2>1, <2>2
  <2>4. <<t[i], s[i]>> \in R
    <3>1. PICK j \in 1 .. N : t[j] = s[i]
      BY <1>2, <2>2
    <3>2. ~(j < i)
      <4> SUFFICES ASSUME j < i PROVE FALSE
        OBVIOUS
      <4>1. s[j] = s[i] /\ <<s[j], s[i]>> \in R
        BY <1>3, <2>2, <2>3, <3>1
      <4> QED
        BY <2>2, <4>1 DEF Orders
    <3>3. i < j
      BY <2>2, <3>1, <3>2
    <3> QED
      BY <1>3, <2>2, <3>1, <3>3
  <2>5. <<s[i], t[i]>> \in R
    <3>1. PICK j \in 1 .. N : s[j] = t[i]
      BY <1>2, <2>2
    <3>2. ~(j < i)
      <4> SUFFICES ASSUME j < i PROVE FALSE
        OBVIOUS
      <4>1. t[j] = t[i] /\ <<t[j], t[i]>> \in R
        BY <1>3, <2>2, <2>3, <3>1
      <4> QED
        BY <2>2, <4>1 DEF Orders
    <3>3. i < j
      BY <2>2, <3>1, <3>2
    <3> QED
      BY <1>3, <2>2, <3>1, <3>3
  <2> QED
    BY <2>2, <2>4, <2>5 DEF Orders
<1>5. \A i \in 1 .. N : s[i] = t[i]
  BY <1>4
<1>6. s = [i \in 1 .. N |-> s[i]] /\ t = [i \in 1 .. N |-> t[i]]
  BY DEF Lists
<1> QED
  BY <1>5, <1>6, Zenon

-----------------------------------------------------------------------------
(* The order of bytes *)

\* A byte, and what is behind the last one.
ByteAt(a, i) == IF i <= Len(a) THEN a[i] ELSE -1

\* The first place where b differs from a has the greater byte in b.
LessAt(a, b, i) == /\ ByteAt(a, i) < ByteAt(b, i)
                   /\ \A j \in 1 .. i - 1 : ByteAt(a, j) = ByteAt(b, j)

ByteOrder == {p \in Bytes \X Bytes : LexLess(p[1], p[2])}

LEMMA BytesAt ==
  ASSUME NEW a \in Bytes
  PROVE  /\ Len(a) \in Nat
         /\ \A i \in Nat \ {0} : /\ ByteAt(a, i) \in Int
                                 /\ i <= Len(a) => ByteAt(a, i) = a[i] /\ ByteAt(a, i) >= 0
                                 /\ ~(i <= Len(a)) => ByteAt(a, i) = -1
<1>1. Len(a) \in Nat
  BY LenProperties DEF Bytes
<1>2. \A i \in 1 .. Len(a) : a[i] \in 0 .. 255
  BY ElementOfSeq DEF Bytes, Byte
<1>3. ASSUME NEW i \in Nat \ {0}
      PROVE  /\ ByteAt(a, i) \in Int
             /\ i <= Len(a) => ByteAt(a, i) = a[i] /\ ByteAt(a, i) >= 0
             /\ ~(i <= Len(a)) => ByteAt(a, i) = -1
  <2>1. CASE i <= Len(a)
    <3>0. i \in 1 .. Len(a)
      BY <1>1, <2>1
    <3>1. PICK x \in 0 .. 255 : x = a[i]
      BY <1>2, <3>0
    <3>2. ByteAt(a, i) = a[i]
      BY <2>1 DEF ByteAt
    <3>3. x \in Int /\ x >= 0
      OBVIOUS
    <3> QED
      BY <2>1, <3>1, <3>2, <3>3, Zenon
  <2>2. CASE ~(i <= Len(a))
    BY <2>2 DEF ByteAt
  <2> QED
    BY <2>1, <2>2
<1> QED
  BY <1>1, <1>3

LEMMA LexLessAt ==
  ASSUME NEW a \in Bytes, NEW b \in Bytes
  PROVE  LexLess(a, b) <=> \E i \in Nat \ {0} : LessAt(a, b, i)
<1>1. /\ Len(a) \in Nat /\ Len(b) \in Nat
      /\ \A i \in Nat \ {0} : /\ ByteAt(a, i) \in Int /\ ByteAt(b, i) \in Int
                              /\ i <= Len(a) => ByteAt(a, i) = a[i] /\ ByteAt(a, i) >= 0
                              /\ i <= Len(b) => ByteAt(b, i) = b[i] /\ ByteAt(b, i) >= 0
                              /\ ~(i <= Len(a)) => ByteAt(a, i) = -1
                              /\ ~(i <= Len(b)) => ByteAt(b, i) = -1
  BY BytesAt
<1>2. a \in Seq(Byte) /\ b \in Seq(Byte)
  BY DEF Bytes
<1>3. Len(a) <= Len(b) =>
        (SubSeq(a, 1, Len(a)) = SubSeq(b, 1, Len(a)) <=> \A j \in 1 .. Len(a) : a[j] = b[j])
  <2> SUFFICES ASSUME Len(a) <= Len(b)
               PROVE  SubSeq(a, 1, Len(a)) = SubSeq(b, 1, Len(a)) <=> \A j \in 1 .. Len(a) : a[j] = b[j]
    OBVIOUS
  <2>1. PICK n \in Nat : n = Len(a)
    BY <1>1
  <2>2. /\ SubSeq(a, 1, n) = [j \in 1 .. n |-> a[j]]
        /\ SubSeq(b, 1, n) = [j \in 1 .. n |-> b[j]]
    BY <1>1, <1>2, <2>1
  <2>3. ASSUME SubSeq(a, 1, n) = SubSeq(b, 1, n), NEW j \in 1 .. n PROVE a[j] = b[j]
    <3>1. PICK p, q : p = [k \in 1 .. n |-> a[k]] /\ q = [k \in 1 .. n |-> b[k]]
      OBVIOUS
    <3>2. p = q /\ p[j] = a[j] /\ q[j] = b[j]
      BY <2>2, <2>3, <3>1
    <3> QED
      BY <3>2
  <2>4. ASSUME \A j \in 1 .. n : a[j] = b[j] PROVE SubSeq(a, 1, n) = SubSeq(b, 1, n)
    BY <2>2, <2>4
  <2> QED
    BY <2>1, <2>3, <2>4
<1>4. ASSUME IsStrictPrefix(a, b) PROVE \E i \in Nat \ {0} : LessAt(a, b, i)
  <2>1. Len(a) <= Len(b) /\ a # b /\ \A j \in 1 .. Len(a) : a[j] = b[j]
    BY <1>3, <1>4 DEF IsStrictPrefix, IsPrefix
  <2>2. Len(a) # Len(b)
    BY <1>2, <2>1, SeqEqual
  <2>3. PICK i \in Nat \ {0} : i = Len(a) + 1
    BY <1>1
  <2>4. i <= Len(b) /\ ~(i <= Len(a))
    BY <1>1, <2>1, <2>2, <2>3
  <2>5. ByteAt(a, i) < ByteAt(b, i)
    BY <1>1, <2>4
  <2>6. \A j \in 1 .. i - 1 : ByteAt(a, j) = ByteAt(b, j)
    <3> TAKE j \in 1 .. i - 1
    <3>1. j \in 1 .. Len(a) /\ j \in Nat \ {0} /\ j <= Len(a) /\ j <= Len(b)
      BY <1>1, <2>1, <2>3
    <3>2. ByteAt(a, j) = a[j] /\ ByteAt(b, j) = b[j]
      BY <1>1, <3>1
    <3> QED
      BY <2>1, <3>1, <3>2
  <2> QED
    BY <2>5, <2>6 DEF LessAt
<1>5. ASSUME NEW i \in 1 .. Len(a), i <= Len(b), a[i] < b[i], \A j \in 1 .. i - 1 : a[j] = b[j]
      PROVE  LessAt(a, b, i)
  <2>1. i \in Nat \ {0} /\ i <= Len(a)
    BY <1>1
  <2>2. \A j \in 1 .. i - 1 : j \in Nat \ {0} /\ j <= Len(a) /\ j <= Len(b)
    BY <1>1, <1>5
  <2> QED
    BY <1>1, <1>5, <2>1, <2>2 DEF LessAt
<1>6. ASSUME NEW i \in Nat \ {0}, LessAt(a, b, i) PROVE LexLess(a, b)
  <2>1. ByteAt(a, i) < ByteAt(b, i) /\ \A j \in 1 .. i - 1 : ByteAt(a, j) = ByteAt(b, j)
    BY <1>6 DEF LessAt
  <2>2. i <= Len(b)
    BY <1>1, <2>1
  <2>3. CASE i <= Len(a)
    <3>1. i \in 1 .. Len(a) /\ a[i] < b[i]
      BY <1>1, <2>1, <2>2, <2>3
    <3>2. \A j \in 1 .. i - 1 : a[j] = b[j]
      <4> TAKE j \in 1 .. i - 1
      <4>1. j \in Nat \ {0} /\ j <= Len(a) /\ j <= Len(b)
        BY <1>1, <2>2, <2>3
      <4> QED
        BY <1>1, <2>1, <4>1
    <3> QED
      BY <2>2, <3>1, <3>2 DEF LexLess
  <2>4. CASE ~(i <= Len(a))
    <3>1. Len(a) <= Len(b) /\ a # b
      BY <1>1, <2>2, <2>4
    <3>2. \A j \in 1 .. Len(a) : a[j] = b[j]
      <4> TAKE j \in 1 .. Len(a)
      <4>1. j \in 1 .. i - 1 /\ j \in Nat \ {0} /\ j <= Len(a) /\ j <= Len(b)
        BY <1>1, <2>2, <2>4
      <4> QED
        BY <1>1, <2>1, <4>1
    <3>3. IsStrictPrefix(a, b)
      BY <1>3, <3>1, <3>2 DEF IsStrictPrefix, IsPrefix
    <3> QED
      BY <3>3 DEF LexLess
  <2> QED
    BY <2>3, <2>4
<1>7. ASSUME LexLess(a, b) PROVE \E i \in Nat \ {0} : LessAt(a, b, i)
  <2>1. CASE IsStrictPrefix(a, b)
    BY <1>4, <2>1
  <2>2. CASE \E i \in 1 .. Len(a) : i <= Len(b) /\ a[i] < b[i] /\ \A j \in 1 .. i - 1 : a[j] = b[j]
    <3>1. PICK i \in 1 .. Len(a) : i <= Len(b) /\ a[i] < b[i] /\ \A j \in 1 .. i - 1 : a[j] = b[j]
      BY <2>2
    <3>2. i \in Nat \ {0}
      BY <1>1
    <3> QED
      BY <1>5, <3>1, <3>2
  <2> QED
    BY <1>7, <2>1, <2>2 DEF LexLess
<1> QED
  BY <1>6, <1>7

\* Byte by byte, all sequences stand in a line.
LEMMA BytesInOrder ==
  ASSUME NEW S \in SUBSET Bytes
  PROVE  Orders(ByteOrder, S)
<1>1. \A a, b \in S : <<a, b>> \in ByteOrder <=> \E i \in Nat \ {0} : LessAt(a, b, i)
  <2> TAKE a, b \in S
  <2>1. a \in Bytes /\ b \in Bytes
    OBVIOUS
  <2>2. <<a, b>> \in ByteOrder <=> LexLess(a, b)
    BY <2>1 DEF ByteOrder
  <2> QED
    BY <2>1, <2>2, LexLessAt
<1>2. \A a \in S : \A i \in Nat \ {0} : ByteAt(a, i) \in Int
  BY BytesAt
<1>3. ASSUME NEW a \in S, NEW b \in S, a # b
      PROVE  <<a, b>> \in ByteOrder \/ <<b, a>> \in ByteOrder
  <2> DEFINE D == {i \in Nat \ {0} : ByteAt(a, i) # ByteAt(b, i)}
  <2>1. D # {}
    <3> SUFFICES ASSUME \A i \in Nat \ {0} : ByteAt(a, i) = ByteAt(b, i) PROVE FALSE
      OBVIOUS
    <3>1. /\ Len(a) \in Nat /\ Len(b) \in Nat
          /\ \A i \in Nat \ {0} : /\ i <= Len(a) => ByteAt(a, i) = a[i] /\ ByteAt(a, i) >= 0
                                  /\ i <= Len(b) => ByteAt(b, i) = b[i] /\ ByteAt(b, i) >= 0
                                  /\ ~(i <= Len(a)) => ByteAt(a, i) = -1
                                  /\ ~(i <= Len(b)) => ByteAt(b, i) = -1
      BY BytesAt
    <3>2. ~(Len(a) < Len(b))
      <4> SUFFICES ASSUME Len(a) < Len(b) PROVE FALSE
        OBVIOUS
      <4>1. PICK i \in Nat \ {0} : i = Len(b)
        BY <3>1
      <4>2. ByteAt(a, i) = -1 /\ ByteAt(b, i) >= 0
        BY <3>1, <4>1
      <4> QED
        BY <4>2
    <3>3. ~(Len(b) < Len(a))
      <4> SUFFICES ASSUME Len(b) < Len(a) PROVE FALSE
        OBVIOUS
      <4>1. PICK i \in Nat \ {0} : i = Len(a)
        BY <3>1
      <4>2. ByteAt(b, i) = -1 /\ ByteAt(a, i) >= 0
        BY <3>1, <4>1
      <4> QED
        BY <4>2
    <3>4. Len(a) = Len(b)
      BY <3>1, <3>2, <3>3
    <3>5. \A i \in 1 .. Len(a) : a[i] = b[i]
      <4> TAKE i \in 1 .. Len(a)
      <4>1. i \in Nat \ {0} /\ i <= Len(a) /\ i <= Len(b)
        BY <3>1, <3>4
      <4> QED
        BY <3>1, <4>1
    <3>6. a \in Seq(Byte) /\ b \in Seq(Byte)
      BY DEF Bytes
    <3>7. a = b
      BY <3>4, <3>5, <3>6, SeqEqual
    <3> QED
      BY <1>3, <3>7
  <2>2. PICK i \in D : \A k \in D : i <= k
    <3>1. D \in SUBSET Nat
      OBVIOUS
    <3> HIDE DEF D
    <3> QED
      BY <2>1, <3>1, LeastNumber
  <2>3. i \in Nat \ {0} /\ ByteAt(a, i) # ByteAt(b, i)
    BY <2>2
  <2>4. \A j \in 1 .. i - 1 : ByteAt(a, j) = ByteAt(b, j)
    BY <2>2, <2>3
  <2>5. ByteAt(a, i) < ByteAt(b, i) \/ ByteAt(b, i) < ByteAt(a, i)
    BY <1>2, <2>3
  <2>6. LessAt(a, b, i) \/ LessAt(b, a, i)
    BY <2>4, <2>5 DEF LessAt
  <2> QED
    BY <1>1, <2>3, <2>6
<1>4. ASSUME NEW a \in S, NEW b \in S, <<a, b>> \in ByteOrder, <<b, a>> \in ByteOrder
      PROVE  FALSE
  <2>1. PICK i \in Nat \ {0} : LessAt(a, b, i)
    BY <1>1, <1>4
  <2>2. PICK k \in Nat \ {0} : LessAt(b, a, k)
    BY <1>1, <1>4
  <2>3. ~(i < k) /\ ~(k < i) /\ i # k
    <3>1. i < k => i \in 1 .. k - 1
      OBVIOUS
    <3>2. k < i => k \in 1 .. i - 1
      OBVIOUS
    <3> QED
      BY <1>2, <2>1, <2>2, <3>1, <3>2 DEF LessAt
  <2> QED
    BY <2>3
<1>5. ASSUME NEW a \in S, NEW b \in S, NEW c \in S, <<a, b>> \in ByteOrder, <<b, c>> \in ByteOrder
      PROVE  <<a, c>> \in ByteOrder
  <2>1. PICK i \in Nat \ {0} : LessAt(a, b, i)
    BY <1>1, <1>5
  <2>2. PICK k \in Nat \ {0} : LessAt(b, c, k)
    BY <1>1, <1>5
  <2>3. PICK m \in Nat \ {0} : m = IF i < k THEN i ELSE k
    OBVIOUS
  <2>4. /\ m = i \/ m \in 1 .. i - 1 
        /\ m = k \/ m \in 1 .. k - 1
        /\ m = i \/ m = k
        /\ \A j \in 1 .. m - 1 : j \in 1 .. i - 1 /\ j \in 1 .. k - 1
    BY <2>3
  <2>5. ByteAt(a, m) <= ByteAt(b, m) /\ ByteAt(b, m) <= ByteAt(c, m)
    BY <1>2, <2>1, <2>2, <2>4 DEF LessAt
  <2>6. ByteAt(a, m) < ByteAt(b, m) \/ ByteAt(b, m) < ByteAt(c, m)
    BY <2>1, <2>2, <2>4 DEF LessAt
  <2>7. ByteAt(a, m) < ByteAt(c, m)
    BY <1>2, <2>5, <2>6
  <2>8. \A j \in 1 .. m - 1 : ByteAt(a, j) = ByteAt(c, j)
    BY <2>1, <2>2, <2>4 DEF LessAt
  <2>9. LessAt(a, c, m)
    BY <2>7, <2>8 DEF LessAt
  <2> QED
    BY <1>1, <2>9
<1> QED
  BY <1>3, <1>4, <1>5 DEF Orders

\* Words stand in the order of their bytes.
LEMMA WordsInOrder ==
  ASSUME NEW w \in 0 .. W64, NEW u \in 0 .. Pow256[w] - 1, NEW v \in 0 .. Pow256[w] - 1, u < v
  PROVE  \E i \in 1 .. w : LessAt(EncodeUInt(u, w), EncodeUInt(v, w), i)
<1> DEFINE a == EncodeUInt(u, w)
           b == EncodeUInt(v, w)
           D == {i \in 1 .. w : a[i] # b[i]}
<1>1. w \in Nat /\ u \in Nat /\ v \in Nat
  BY CodecAssumption, Powers
<1>2. a \in Bytes /\ Len(a) = w /\ b \in Bytes /\ Len(b) = w
  BY <1>1, WordBytes DEF Bytes
<1>3. \A i \in 1 .. w : a[i] \in 0 .. 255 /\ b[i] \in 0 .. 255
  <2> TAKE i \in 1 .. w
  <2>1. i \in 1 .. Len(a) /\ i \in 1 .. Len(b)
    BY <1>2
  <2> HIDE DEF a, b
  <2> QED
    BY <1>2, <2>1, ElementOfSeq DEF Bytes, Byte
<1>14. \A i \in 1 .. w : a[i] \in Nat /\ b[i] \in Nat
  <2>1. \A x \in 0 .. 255 : x \in Nat
    OBVIOUS
  <2> QED
    BY <1>3, <2>1, Zenon
<1>4. DecodeUInt(a, w) = u /\ DecodeUInt(b, w) = v
  BY WordComesBack
<1>5. D # {}
  BY WordsDiffer
<1> HIDE DEF a, b
<1>6. PICK i \in D : \A k \in D : i <= k
  <2>1. D \in SUBSET Nat
    OBVIOUS
  <2> HIDE DEF D
  <2> QED
    BY <1>5, <2>1, LeastNumber
<1>7. i \in 1 .. w /\ a[i] # b[i] /\ \A j \in 1 .. i - 1 : a[j] = b[j]
  BY <1>1, <1>6
<1>8. PICK f \in [0 .. w -> Nat] :
        f[0] = 0 /\ f[w] = u /\ \A j \in 1 .. w : f[j] = 256 * f[j - 1] + a[j]
  <2>1. \A j \in 1 .. w : a[j] \in Nat
    BY <1>14, Zenon
  <2>2. Decodes(a, w)
    BY <1>1, <2>1, DecodeSteps, Zenon
  <2>3. PICK h \in [0 .. w -> Nat] : /\ h[0] = 0 /\ h[w] = DecodeUInt(a, w)
                                      /\ \A j \in 1 .. w : h[j] = 256 * h[j - 1] + a[j]
    BY <2>2 DEF Decodes
  <2> QED
    BY <1>4, <2>3
<1>9. PICK g \in [0 .. w -> Nat] :
        g[0] = 0 /\ g[w] = v /\ \A j \in 1 .. w : g[j] = 256 * g[j - 1] + b[j]
  <2>1. \A j \in 1 .. w : b[j] \in Nat
    BY <1>14, Zenon
  <2>2. Decodes(b, w)
    BY <1>1, <2>1, DecodeSteps, Zenon
  <2> QED
    BY <1>4, <2>2 DEF Decodes
<1>10. \A j \in 0 .. i - 1 : f[j] = g[j]
  <2> DEFINE T == {j \in 0 .. i - 1 : f[j] = g[j]}
  <2>1. 0 \in T
    BY <1>7, <1>8, <1>9
  <2>2. ASSUME NEW j \in 1 .. i - 1, j - 1 \in T PROVE j \in T
    <3>1. f[j - 1] = g[j - 1] /\ a[j] = b[j] /\ j \in 1 .. w
      BY <1>7, <2>2
    <3>2. f[j] = g[j]
      BY <1>8, <1>9, <3>1
    <3> QED
      BY <1>7, <3>2
  <2>3. T \in SUBSET (0 .. i - 1) /\ i - 1 \in Nat
    BY <1>7
  <2>4. T = 0 .. i - 1
    <3> HIDE DEF T
    <3> QED
      BY <2>1, <2>2, <2>3, Induction
  <2> QED
    BY <2>4
<1>11. ~(b[i] < a[i])
  <2> SUFFICES ASSUME b[i] < a[i] PROVE FALSE
    OBVIOUS
  <2> DEFINE T == {j \in 0 .. w : j >= i => f[j] > g[j]}
  <2>1. 0 \in T
    BY <1>1, <1>7
  <2>2. ASSUME NEW j \in 1 .. w, j - 1 \in T PROVE j \in T
    <3>1. /\ f[j] = 256 * f[j - 1] + a[j] /\ g[j] = 256 * g[j - 1] + b[j]
          /\ a[j] \in 0 .. 255 /\ b[j] \in 0 .. 255 /\ f[j - 1] \in Nat /\ g[j - 1] \in Nat
      <4>1. j - 1 \in 0 .. w
        BY <1>1
      <4>2. f[j - 1] \in Nat
        BY <1>8, <4>1
      <4>3. g[j - 1] \in Nat
        BY <1>9, <4>1
      <4>4. f[j - 1] \in Nat /\ g[j - 1] \in Nat
        BY <4>2, <4>3
      <4>5. f[j] = 256 * f[j - 1] + a[j] /\ g[j] = 256 * g[j - 1] + b[j]
        BY <1>8, <1>9
      <4>6. a[j] \in 0 .. 255 /\ b[j] \in 0 .. 255
        BY <1>3
      <4> QED
        BY <4>4, <4>5, <4>6, Zenon
    <3>2. PICK x, y \in Nat : x = f[j - 1] /\ y = g[j - 1]
      BY <3>1
    <3>3. PICK d, e \in 0 .. 255 : d = a[j] /\ e = b[j]
      BY <3>1
    <3>4. f[j] = 256 * x + d /\ g[j] = 256 * y + e
      BY <3>1, <3>2, <3>3
    <3>5. CASE j = i
      <4>1. x = y /\ d > e
        <5>1. j - 1 \in 0 .. i - 1
          BY <3>5
        <5> QED
          BY <1>10, <3>2, <3>3, <3>5, <5>1
      <4>2. 256 * x + d > 256 * y + e
        BY <4>1
      <4> QED
        BY <3>4, <4>2
    <3>6. CASE j > i
      <4>1. x > y
        BY <1>7, <2>2, <3>2, <3>6
      <4>2. 256 * x + d > 256 * y + e
        BY <4>1
      <4> QED
        BY <3>4, <4>2
    <3>7. CASE j < i
      BY <1>7, <3>7
    <3> QED
      BY <1>7, <3>5, <3>6, <3>7
  <2>3. T \in SUBSET (0 .. w)
    OBVIOUS
  <2>4. T = 0 .. w
    <3> HIDE DEF T
    <3> QED
      BY <1>1, <2>1, <2>2, <2>3, Induction
  <2>5. w \in T
    <3>1. w \in 0 .. w
      BY <1>1
    <3> HIDE DEF T
    <3> QED
      BY <2>4, <3>1
  <2>6. f[w] > g[w]
    BY <1>1, <1>7, <2>5
  <2> QED
    BY <1>1, <1>8, <1>9, <2>6
<1>12. a[i] < b[i]
  <2>1. PICK d, e \in 0 .. 255 : d = a[i] /\ e = b[i]
    BY <1>3, <1>7
  <2>2. d # e /\ ~(e < d)
    BY <1>7, <1>11, <2>1
  <2>3. d < e
    BY <2>2
  <2> QED
    BY <2>1, <2>3
<1>13. LessAt(a, b, i)
  <2>1. \A j \in 1 .. i : ByteAt(a, j) = a[j] /\ ByteAt(b, j) = b[j]
    BY <1>1, <1>2, <1>7 DEF ByteAt
  <2>2. i \in 1 .. i /\ \A j \in 1 .. i - 1 : j \in 1 .. i
    BY <1>7
  <2> QED
    BY <1>7, <1>12, <2>1, <2>2 DEF LessAt
<1> QED
  BY <1>7, <1>13 DEF a, b

\* So do values with their types.
LEMMA TypedWords ==
  ASSUME NEW u \in 0 .. Pow256[W64] - 1
  PROVE  LET k == TypedBytes(NewValue("Int64", u))
         IN  /\ NewValue("Int64", u) \in Values /\ k \in Bytes /\ Len(k) = 1 + W64 /\ k[1] = 17
             /\ \A j \in 1 .. W64 : k[1 + j] = EncodeUInt(u, W64)[j]
<1> DEFINE v == NewValue("Int64", u)
<1>1. v \in Values /\ v.type = "Int64" /\ v.u = u
  BY DEF NewValue, Values
<1> HIDE DEF v
<1>2. EncodeExprValue(v) = EncodeUInt(u, W64)
  BY <1>1, EncodedValue
<1>3. Len(EncodeUInt(u, W64)) = W64
  <2>1. u \in Nat /\ W64 \in 0 .. W64
    BY Sizes
  <2> QED
    BY <2>1, WordBytes
<1>4. /\ TypedBytes(v) \in Bytes /\ Len(TypedBytes(v)) = 1 + W64 /\ TypedBytes(v)[1] = 17
      /\ \A j \in 1 .. W64 : TypedBytes(v)[1 + j] = EncodeUInt(u, W64)[j]
  BY <1>1, <1>2, <1>3, TypedLayout, TypesOfValues
<1> QED
  BY <1>1, <1>4 DEF v

LEMMA ItemsInOrder ==
  ASSUME NEW u \in 0 .. Pow256[W64] - 1, NEW v \in 0 .. Pow256[W64] - 1
  PROVE  LET k == TypedBytes(NewValue("Int64", u))
             m == TypedBytes(NewValue("Int64", v))
         IN  /\ LexLess(k, m) <=> u < v
             /\ k = m => u = v
<1> DEFINE key(x) == TypedBytes(NewValue("Int64", x))
<1>1. u \in Nat /\ v \in Nat /\ W64 \in Nat /\ W64 \in 0 .. W64
  BY Sizes
<1>2. ASSUME NEW x \in 0 .. Pow256[W64] - 1
      PROVE  /\ key(x) \in Bytes /\ Len(key(x)) = 1 + W64 /\ key(x)[1] = 17
             /\ \A j \in 1 .. W64 : key(x)[1 + j] = EncodeUInt(x, W64)[j]
             /\ Len(EncodeUInt(x, W64)) = W64
  <2>1. x \in Nat
    BY Sizes
  <2> QED
    BY <1>1, <2>1, TypedWords, WordBytes
<1> HIDE DEF key
<1>3. ASSUME NEW x \in 0 .. Pow256[W64] - 1, NEW y \in 0 .. Pow256[W64] - 1, x < y
      PROVE  LexLess(key(x), key(y))
  <2>1. PICK i \in 1 .. W64 : LessAt(EncodeUInt(x, W64), EncodeUInt(y, W64), i)
    BY <1>1, <1>3, WordsInOrder
  <2>2. \A j \in 1 .. W64 : /\ ByteAt(key(x), 1 + j) = ByteAt(EncodeUInt(x, W64), j)
                            /\ ByteAt(key(y), 1 + j) = ByteAt(EncodeUInt(y, W64), j)
    <3> TAKE j \in 1 .. W64
    <3>1. j <= W64 /\ 1 + j <= 1 + W64
      BY <1>1
    <3> QED
      BY <1>2, <3>1 DEF ByteAt
  <2>3. ByteAt(key(x), 1) = 17 /\ ByteAt(key(y), 1) = 17
    <3>1. 1 <= 1 + W64
      BY <1>1
    <3> QED
      BY <1>2, <3>1 DEF ByteAt
  <2>4. ByteAt(key(x), 1 + i) < ByteAt(key(y), 1 + i)
    BY <2>1, <2>2 DEF LessAt
  <2>5. ASSUME NEW j \in 1 .. (1 + i) - 1 PROVE ByteAt(key(x), j) = ByteAt(key(y), j)
    <3>1. CASE j = 1
      BY <2>3, <3>1
    <3>2. CASE j # 1
      <4>1. PICK k \in 1 .. i - 1 : j = 1 + k
        <5>1. j - 1 \in 1 .. i - 1 /\ j = 1 + (j - 1)
          BY <1>1, <3>2
        <5> QED
          BY <5>1
      <4>2. k \in 1 .. W64
        BY <1>1
      <4>3. ByteAt(EncodeUInt(x, W64), k) = ByteAt(EncodeUInt(y, W64), k)
        BY <2>1 DEF LessAt
      <4> QED
        BY <2>2, <4>1, <4>2, <4>3
    <3> QED
      BY <3>1, <3>2
  <2>6. PICK n \in Nat \ {0} : n = 1 + i
    BY <1>1
  <2>7. LessAt(key(x), key(y), n)
    BY <2>4, <2>5, <2>6 DEF LessAt
  <2> QED
    BY <1>2, <2>7, LexLessAt
<1>4. \A x, y \in 0 .. Pow256[W64] - 1 : ~(LexLess(key(x), key(y)) /\ LexLess(key(y), key(x)))
  <2> TAKE x, y \in 0 .. Pow256[W64] - 1
  <2>1. key(x) \in Bytes /\ key(y) \in Bytes
    BY <1>2
  <2>2. Orders(ByteOrder, Bytes)
    BY BytesInOrder
  <2>3. ~(<<key(x), key(y)>> \in ByteOrder /\ <<key(y), key(x)>> \in ByteOrder)
    BY <2>1, <2>2 DEF Orders
  <2> QED
    BY <2>1, <2>3 DEF ByteOrder
<1>5. ASSUME key(u) = key(v) PROVE u = v
  <2>1. ~(u < v) /\ ~(v < u)
    BY <1>3, <1>4, <1>5
  <2> QED
    BY <1>1, <2>1
<1>6. ASSUME LexLess(key(u), key(v)) PROVE u < v
  <2>1. ~(v < u)
    BY <1>3, <1>4, <1>6
  <2>2. u # v
    BY <1>4, <1>6
  <2> QED
    BY <1>1, <2>1, <2>2
<1>7. u < v => LexLess(key(u), key(v))
  BY <1>3
<1> QED
  BY <1>5, <1>6, <1>7 DEF key

\* The item of a Null is in front of them all.
LEMMA NullIsFirst ==
  ASSUME NEW u \in 0 .. Pow256[W64] - 1
  PROVE  LexLess(TypedBytes(NewValue("Null", 0)), TypedBytes(NewValue("Int64", u)))
<1> DEFINE a == TypedBytes(NewValue("Null", 0))
           b == TypedBytes(NewValue("Int64", u))
<1>1. NewValue("Null", 0) \in Values /\ NewValue("Null", 0).type = "Null"
  BY DEF NewValue, Values
<1>2. a \in Bytes /\ Len(a) \in Nat /\ Len(a) >= 1 /\ a[1] = 0
  <2>1. /\ a \in Bytes /\ Len(a) = 1 + Len(EncodeExprValue(NewValue("Null", 0)))
        /\ a[1] = 0
    BY <1>1, TypedLayout, TypesOfValues
  <2>2. Len(EncodeExprValue(NewValue("Null", 0))) \in Nat
    BY <1>1, EncodedValue
  <2> QED
    BY <2>1, <2>2
<1>3. b \in Bytes /\ Len(b) = 1 + W64 /\ b[1] = 17
  BY TypedWords
<1>4. W64 \in Nat
  BY Sizes
<1> HIDE DEF a, b
<1>5. ByteAt(a, 1) = 0 /\ ByteAt(b, 1) = 17
  <2>1. 1 <= Len(a) /\ 1 <= Len(b)
    BY <1>2, <1>3, <1>4
  <2> QED
    BY <1>2, <1>3, <2>1 DEF ByteAt
<1>6. PICK n \in Nat \ {0} : n = 1
  OBVIOUS
<1>7. LessAt(a, b, n)
  BY <1>5, <1>6 DEF LessAt
<1>8. LexLess(a, b)
  BY <1>2, <1>3, <1>7, LexLessAt
<1> QED
  BY <1>8 DEF a, b

\* What a range holds is enumerated in order.
LEMMA ItemsAscend ==
  ASSUME NEW S \in SUBSET Bytes, IsFiniteSet(S)
  PROVE  Lists(Ascending(S, LexLess), Cardinality(S), S, ByteOrder)
<1> DEFINE N == Cardinality(S)
           good(s) == \A i, j \in DOMAIN s : i < j => LexLess(s[i], s[j])
<1>1. \A s \in [1 .. N -> S] : good(s) <=> InOrder(s, ByteOrder)
  <2> TAKE s \in [1 .. N -> S]
  <2>1. \A i \in DOMAIN s : s[i] \in Bytes
    OBVIOUS
  <2>2. \A i, j \in DOMAIN s : LexLess(s[i], s[j]) <=> <<s[i], s[j]>> \in ByteOrder
    BY <2>1 DEF ByteOrder
  <2> QED
    BY <2>2 DEF InOrder
<1>2. PICK s : Lists(s, N, S, ByteOrder)
  BY BytesInOrder, EnumerationExists
<1>3. s \in [1 .. N -> S] /\ good(s)
  BY <1>1, <1>2 DEF Lists
<1>4. Ascending(S, LexLess) = CHOOSE t \in [1 .. N -> S] : good(t)
  BY DEF Ascending
<1> HIDE DEF good, N
<1>5. Ascending(S, LexLess) \in [1 .. N -> S] /\ good(Ascending(S, LexLess))
  BY <1>3, <1>4
<1>6. InOrder(Ascending(S, LexLess), ByteOrder)
  BY <1>1, <1>5
<1> QED
  BY <1>5, <1>6 DEF Lists, N

-----------------------------------------------------------------------------
(* What a SELECT finds *)

\* The items of a range of the primary index.
InRange(info, range) ==
  {k \in items[info.primary] : ~LexLess(k, range.lower) /\ LexLess(k, range.upper)}

LEMMA RangeAscends ==
  ASSUME NEW info, InfoOK(info), info.primary # 0, ItemsOK(info), NEW range
  PROVE  /\ InRange(info, range) \in SUBSET Bytes /\ IsFiniteSet(InRange(info, range))
         /\ Cardinality(InRange(info, range)) \in Nat
         /\ Lists(ScanRange(info, range), Cardinality(InRange(info, range)), InRange(info, range),
                  ByteOrder)
         /\ ScanRange(info, range) \in Seq(Bytes)
<1>1. info.primary \in DOMAIN items
  BY PrimaryColumns DEF ItemsOK
<1>2. IsFiniteSet(items[info.primary]) /\ items[info.primary] \subseteq Bytes
  BY <1>1 DEF ItemsOK
<1>3. InRange(info, range) \in SUBSET items[info.primary]
  BY DEF InRange
<1>4. InRange(info, range) \in SUBSET Bytes /\ IsFiniteSet(InRange(info, range))
  BY <1>2, <1>3, FS_Subset
<1>5. Cardinality(InRange(info, range)) \in Nat
  BY <1>4, FS_CardinalityType
<1>6. ScanRange(info, range) = Ascending(InRange(info, range), LexLess)
  BY DEF ScanRange, InRange
<1>7. Lists(ScanRange(info, range), Cardinality(InRange(info, range)), InRange(info, range),
            ByteOrder)
  BY <1>4, <1>6, ItemsAscend
<1>8. ScanRange(info, range) \in Seq(Bytes)
  <2>1. PICK n \in Nat : n = Cardinality(InRange(info, range))
    BY <1>5
  <2>2. ScanRange(info, range) \in [1 .. n -> Bytes]
    BY <1>4, <1>7, <2>1 DEF Lists
  <2> QED
    BY <2>2
<1> QED
  BY <1>4, <1>5, <1>7, <1>8

LEMMA ScanIsSeq ==
  ASSUME NEW info, InfoOK(info), info.primary # 0, ItemsOK(info)
  PROVE  /\ Scan(info) \in Seq(Bytes)
         /\ Len(PrimaryCols(info)) = 1 =>
              Scan(info) = ScanRange(info, IndexRange(info, PrimaryCols(info)[1]))
<1>1. PICK cols : cols = PrimaryCols(info)
  OBVIOUS
<1>2. PICK n \in Nat : n = Len(cols)
  BY <1>1, PrimaryColumns
<1>3. PICK seqs : seqs = [i \in DOMAIN cols |-> ScanRange(info, IndexRange(info, cols[i]))]
  OBVIOUS
<1>4. Scan(info) = FlattenSeq(seqs)
  BY <1>1, <1>3 DEF Scan
<1>5. DOMAIN cols = 1 .. n
  BY <1>1, <1>2, PrimaryColumns
<1>6. seqs \in [1 .. n -> Seq(Bytes)] /\ \A i \in 1 .. n : seqs[i] = ScanRange(info, IndexRange(info, cols[i]))
  <2>1. \A i \in 1 .. n : ScanRange(info, IndexRange(info, cols[i])) \in Seq(Bytes)
    BY RangeAscends
  <2> QED
    BY <1>3, <1>5, <2>1
<1>7. FlattenSeq(seqs) \in Seq(Bytes)
  BY <1>6, FlattenIsSeq
<1>8. ASSUME n = 1 PROVE FlattenSeq(seqs) = ScanRange(info, IndexRange(info, cols[1]))
  <2>1. seqs \in [1 .. 1 -> Seq(Bytes)] /\ seqs[1] = ScanRange(info, IndexRange(info, cols[1]))
    BY <1>6, <1>8
  <2> QED
    BY <2>1, FlattenOne
<1> QED
  BY <1>1, <1>2, <1>4, <1>7, <1>8

\* The keys whose rows a SELECT prints.
Visible == {k \in kept : k[1].type = "Int64" /\ k[1].u < Pow256[W64] \div 2 - 1}

\* A key of one column.
KeyOK(key) == key = <<key[1]>> /\ key[1] \in Values /\ key[1].type \in {"Int64", "Null"}

LEMMA RangeOfVisible ==
  ASSUME NEW info, InfoOK(info), info.primary # 0, Len(PrimaryCols(info)) = 1, ItemsOK(info),
         \A key \in kept : KeyOK(key)
  PROVE  /\ InRange(info, IndexRange(info, PrimaryCols(info)[1])) = {TypedBytes(key[1]) : key \in Visible}
         /\ \A key \in Visible : /\ key = <<key[1]>> /\ key[1] = NewValue("Int64", key[1].u)
                                 /\ key[1].u \in 0 .. Pow256[W64] - 1
<1> DEFINE top == Pow256[W64] \div 2 - 1
           range == IndexRange(info, PrimaryCols(info)[1])
<1>1. /\ Pow256[W64] \in Nat \ {0}
      /\ Pow256[W64] >= 256
  <2>1. W64 \in 1 .. W64 /\ W64 - 1 \in 0 .. W64
    BY Sizes
  <2>2. Pow256[W64] = 256 * Pow256[W64 - 1] /\ Pow256[W64 - 1] \in Nat \ {0}
    BY <2>1, Powers
  <2> QED
    BY <2>2, Sizes
<1>2. top \in 0 .. Pow256[W64] - 1 /\ 0 \in 0 .. Pow256[W64] - 1
  BY <1>1
<1>3. range.lower = TypedBytes(NewValue("Int64", 0)) /\ range.upper = TypedBytes(NewValue("Int64", top))
  <2>1. ColType(info, PrimaryCols(info)[1]) = "Int64"
    BY PrimaryColumns
  <2>2. NewMin("Int64") = NewValue("Int64", 0) /\ NewMax("Int64") = NewValue("Int64", top)
    BY TypesOfValues DEF NewMin, NewMax
  <2> QED
    BY <2>1, <2>2 DEF IndexRange
<1>4. items[info.primary] = {TypedBytes(key[1]) : key \in kept}
  BY DEF ItemsOK
<1>5. \A key \in kept : \/ /\ key[1].type = "Int64" /\ key[1] = NewValue("Int64", key[1].u)
                           /\ key[1].u \in 0 .. Pow256[W64] - 1
                        \/ key[1].type = "Null" /\ key[1] = NewValue("Null", 0)
  BY EncodedValue DEF KeyOK
<1> HIDE DEF top, range
<1>6. ASSUME NEW key \in kept
      PROVE  ~LexLess(TypedBytes(key[1]), range.lower) /\ LexLess(TypedBytes(key[1]), range.upper)
               <=> key \in Visible
  <2>1. CASE key[1].type = "Null"
    <3>1. LexLess(TypedBytes(key[1]), range.lower)
      BY <1>2, <1>3, <1>5, <2>1, NullIsFirst
    <3>2. key \notin Visible
      BY <2>1 DEF Visible
    <3> QED
      BY <3>1, <3>2
  <2>2. CASE key[1].type = "Int64"
    <3>1. PICK u \in 0 .. Pow256[W64] - 1 : u = key[1].u /\ key[1] = NewValue("Int64", u)
      BY <1>5, <2>2
    <3>2. LexLess(TypedBytes(key[1]), range.lower) <=> u < 0
      BY <1>2, <1>3, <3>1, ItemsInOrder
    <3>3. LexLess(TypedBytes(key[1]), range.upper) <=> u < top
      BY <1>2, <1>3, <3>1, ItemsInOrder
    <3>4. key \in Visible <=> u < top
      BY <2>2, <3>1 DEF Visible, top
    <3>5. ~(u < 0)
      BY <1>1
    <3> QED
      BY <3>2, <3>3, <3>4, <3>5
  <2> QED
    BY <1>5, <2>1, <2>2
<1>7. InRange(info, range) = {TypedBytes(key[1]) : key \in Visible}
  <2>1. Visible \subseteq kept
    BY DEF Visible
  <2> QED
    BY <1>4, <1>6, <2>1 DEF InRange
<1>8. ASSUME NEW key \in Visible
      PROVE  /\ key = <<key[1]>> /\ key[1] = NewValue("Int64", key[1].u)
             /\ key[1].u \in 0 .. Pow256[W64] - 1
  <2>1. key \in kept /\ key[1].type = "Int64"
    BY DEF Visible
  <2>2. key = <<key[1]>>
    BY <2>1 DEF KeyOK
  <2> QED
    BY <1>5, <2>1, <2>2
<1> QED
  BY <1>7, <1>8 DEF range

\* The scan and the visible keys are the same enumeration.
LEMMA ScanFindsVisible ==
  ASSUME NEW info, InfoOK(info), info.primary # 0, Len(PrimaryCols(info)) = 1, ItemsOK(info),
         IsFiniteSet(kept), \A key \in kept : KeyOK(key)
  PROVE  \E n \in Nat :
           /\ VisibleKeys \in [1 .. n -> Visible]
           /\ Scan(info) = [i \in 1 .. n |-> TypedBytes(VisibleKeys[i][1])]
<1> DEFINE S == {TypedBytes(key[1]) : key \in Visible}
           g == [key \in Visible |-> TypedBytes(key[1])]
           good(s) == \A i, j \in DOMAIN s : i < j => s[i][1].u < s[j][1].u
<1>1. /\ InRange(info, IndexRange(info, PrimaryCols(info)[1])) = S
      /\ \A key \in Visible : /\ key = <<key[1]>> /\ key[1] = NewValue("Int64", key[1].u)
                              /\ key[1].u \in 0 .. Pow256[W64] - 1
  BY RangeOfVisible
<1>2. PICK segment : segment = Scan(info)
  OBVIOUS
<1>3. /\ S \in SUBSET Bytes /\ IsFiniteSet(S) /\ Cardinality(S) \in Nat
      /\ Lists(segment, Cardinality(S), S, ByteOrder)
  <2> HIDE DEF S
  <2> QED
    BY <1>1, <1>2, RangeAscends, ScanIsSeq
<1>4. PICK n \in Nat : n = Cardinality(S)
  BY <1>3
<1>5. ASSUME NEW j \in Visible, NEW k \in Visible
      PROVE  /\ LexLess(TypedBytes(j[1]), TypedBytes(k[1])) <=> j[1].u < k[1].u
             /\ TypedBytes(j[1]) = TypedBytes(k[1]) => j = k
  <2>1. PICK u \in 0 .. Pow256[W64] - 1 : u = j[1].u
    BY <1>1
  <2>2. PICK v \in 0 .. Pow256[W64] - 1 : v = k[1].u
    BY <1>1
  <2>3. j[1] = NewValue("Int64", u) /\ k[1] = NewValue("Int64", v) /\ j = <<j[1]>> /\ k = <<k[1]>>
    BY <1>1, <2>1, <2>2
  <2>4. /\ LexLess(TypedBytes(NewValue("Int64", u)), TypedBytes(NewValue("Int64", v))) <=> u < v
        /\ TypedBytes(NewValue("Int64", u)) = TypedBytes(NewValue("Int64", v)) => u = v
    BY ItemsInOrder
  <2>5. u = v => j = k
    BY <2>3
  <2>6. LexLess(TypedBytes(j[1]), TypedBytes(k[1])) <=> j[1].u < k[1].u
    BY <2>1, <2>2, <2>3, <2>4, Zenon
  <2>7. TypedBytes(j[1]) = TypedBytes(k[1]) => j = k
    BY <2>3, <2>4, <2>5, Zenon
  <2> QED
    BY <2>6, <2>7
<1>6. IsFiniteSet(Visible) /\ Cardinality(Visible) = n
  <2>1. IsFiniteSet(Visible)
    <3>1. Visible \in SUBSET kept
      BY DEF Visible
    <3> QED
      BY <3>1, FS_Subset
  <2>2. g \in [Visible -> S] /\ \A key \in Visible : g[key] = TypedBytes(key[1])
    OBVIOUS
  <2>3. \A x \in S : \E key \in Visible : g[key] = x
    BY <2>2
  <2>4. \A j, k \in Visible : g[j] = g[k] => j = k
    BY <1>5, <2>2
  <2> HIDE DEF g, S
  <2>5. g \in Bijection(Visible, S)
    BY <2>2, <2>3, <2>4 DEF Bijection, Injection, Surjection, IsInjective
  <2>6. Cardinality(S) = Cardinality(Visible)
    BY <2>1, <2>5, FS_Bijection DEF ExistsBijection
  <2> QED
    BY <1>4, <2>1, <2>6
<1>7. /\ segment \in [1 .. n -> S]
      /\ \A i, j \in 1 .. n : i < j => LexLess(segment[i], segment[j])
  <2> HIDE DEF S
  <2> QED
    BY <1>3, <1>4 DEF Lists, InOrder, ByteOrder
<1>8. VisibleKeys \in [1 .. n -> Visible] /\ good(VisibleKeys)
  <2> DEFINE w == [i \in 1 .. n |-> CHOOSE k \in Visible : TypedBytes(k[1]) = segment[i]]
  <2>1. \A i \in 1 .. n : w[i] \in Visible /\ TypedBytes(w[i][1]) = segment[i]
    <3> TAKE i \in 1 .. n
    <3>1. PICK key \in Visible : TypedBytes(key[1]) = segment[i]
      BY <1>7
    <3>2. w[i] = CHOOSE k \in Visible : TypedBytes(k[1]) = segment[i]
      OBVIOUS
    <3> HIDE DEF w
    <3> QED
      BY <3>1, <3>2
  <2>2. w \in [1 .. n -> Visible]
    <3>1. w = [i \in 1 .. n |-> w[i]]
      OBVIOUS
    <3> HIDE DEF w
    <3> QED
      BY <2>1, <3>1
  <2> HIDE DEF w
  <2>3. \A i, j \in 1 .. n : i < j => w[i][1].u < w[j][1].u
    <3> TAKE i, j \in 1 .. n
    <3>1. w[i] \in Visible /\ w[j] \in Visible
      BY <2>1
    <3>2. i < j => LexLess(TypedBytes(w[i][1]), TypedBytes(w[j][1]))
      BY <1>7, <2>1
    <3> QED
      BY <1>5, <3>1, <3>2
  <2>4. good(w)
    BY <2>2, <2>3
  <2>5. VisibleKeys = CHOOSE s \in [1 .. Cardinality(Visible) -> Visible] : good(s)
    BY DEF VisibleKeys, Visible, Ascending
  <2>6. VisibleKeys = CHOOSE s \in [1 .. n -> Visible] : good(s)
    BY <1>6, <2>5
  <2> HIDE DEF good
  <2> QED
    BY <2>2, <2>4, <2>6
<1>9. PICK keys : keys = VisibleKeys
  OBVIOUS
<1>10. keys \in [1 .. n -> Visible] /\ \A i, j \in 1 .. n : i < j => keys[i][1].u < keys[j][1].u
  BY <1>8, <1>9
<1> DEFINE t == [i \in 1 .. n |-> TypedBytes(keys[i][1])]
<1>11. \A i \in 1 .. n : t[i] = TypedBytes(keys[i][1]) /\ keys[i] \in Visible
  BY <1>10
<1>12. t \in [1 .. n -> S]
  BY <1>10
<1> HIDE DEF t
<1>13. Lists(t, n, S, ByteOrder)
  <2>1. ASSUME NEW i \in 1 .. n, NEW j \in 1 .. n, i < j PROVE <<t[i], t[j]>> \in ByteOrder
    <3>1. keys[i][1].u < keys[j][1].u
      BY <1>10, <2>1
    <3>2. LexLess(TypedBytes(keys[i][1]), TypedBytes(keys[j][1]))
      BY <1>5, <1>11, <3>1
    <3>3. LexLess(t[i], t[j])
      BY <1>11, <3>2
    <3>4. t[i] \in Bytes /\ t[j] \in Bytes
      <4> HIDE DEF S
      <4> QED
        BY <1>3, <1>12
    <3> QED
      BY <3>3, <3>4 DEF ByteOrder
  <2> HIDE DEF S
  <2>2. InOrder(t, ByteOrder)
    BY <1>12, <2>1 DEF InOrder
  <2> QED
    BY <1>12, <2>2 DEF Lists
<1>14. t = segment
  <2> HIDE DEF S
  <2>1. Orders(ByteOrder, S)
    BY <1>3, BytesInOrder
  <2>2. Lists(segment, n, S, ByteOrder)
    BY <1>3, <1>4
  <2> QED
    BY <1>3, <1>4, <1>13, <2>1, <2>2, EnumerationIsUnique
<1>15. Scan(info) = [i \in 1 .. n |-> TypedBytes(VisibleKeys[i][1])]
  BY <1>2, <1>9, <1>14 DEF t
<1> QED
  BY <1>8, <1>15

\* The item of a key of one column leads to the record of the row of the key.
LEMMA DecodedKey ==
  ASSUME NEW info, InfoOK(info), info.primary # 0, Len(PrimaryCols(info)) = 1,
         NEW u \in 0 .. Pow256[W64] - 1,
         NEW row, RowOK(info, row), KeyOf(info, row) = <<NewValue("Int64", u)>>
  PROVE  RowKey(info, DecodeIndex(info, TypedBytes(NewValue("Int64", u)))) = RowKey(info, row)
<1> DEFINE v == NewValue("Int64", u)
           item == TypedBytes(v)
           d == DecodeIndex(info, item)
<1>1. /\ v \in Values /\ item \in Seq(Byte) /\ Len(item) = 1 + W64 /\ item[1] = 17
      /\ v.type = "Int64" /\ v.u = u
  BY TypedWords DEF NewValue, Bytes
<1>2. /\ EncodeExprValue(v) = EncodeUInt(u, W64) /\ Len(EncodeUInt(u, W64)) = W64
      /\ W64 \in Nat \ {0}
      /\ \A j \in 1 .. W64 : item[1 + j] = EncodeUInt(u, W64)[j]
  <2>1. u \in Nat /\ W64 \in 0 .. W64 /\ W64 \in Nat \ {0}
    BY Sizes
  <2>2. Len(EncodeUInt(u, W64)) = W64
    BY <2>1, WordBytes
  <2>3. EncodeExprValue(v) = EncodeUInt(u, W64)
    BY <1>1, EncodedValue
  <2>4. \A j \in 1 .. W64 : item[1 + j] = EncodeUInt(u, W64)[j]
    BY TypedWords
  <2> QED
    BY <2>1, <2>2, <2>3, <2>4
<1> HIDE DEF v, item
<1>3. TypeOfCode(item[1]) = "Int64" /\ TypeSize("Int64") = W64
  BY <1>1, TypesComeBack, TypesOfValues DEF TypeSize
<1>4. PICK in, m : in = SubSeq(item, 2, m) /\ m = 1 + W64
  OBVIOUS
<1>5. in \in Bytes /\ Len(in) = W64 /\ \A j \in 1 .. W64 : in[j] = EncodeUInt(u, W64)[j]
  <2>1. 2 \in Int /\ m \in Int /\ 2 <= m /\ m - 2 + 1 = W64
    BY <1>2, <1>4
  <2>2. \A i \in 2 .. m : item[i] \in Byte
    <3> TAKE i \in 2 .. m
    <3>1. i \in 1 .. Len(item)
      BY <1>1, <1>2, <1>4
    <3> QED
      BY <1>1, <3>1, ElementOfSeq
  <2>3. in \in Seq(Byte) /\ Len(in) = m - 2 + 1
    BY <1>4, <2>1, <2>2, SubSeqProperties
  <2>4. \A j \in 1 .. m - 2 + 1 : SubSeq(item, 2, m)[j] = item[2 + j - 1]
    BY <2>1, <2>2, SubSeqProperties
  <2>5. ASSUME NEW j \in 1 .. W64 PROVE in[j] = EncodeUInt(u, W64)[j]
    <3>1. 2 + j - 1 = 1 + j
      BY <1>2
    <3>2. in[j] = item[1 + j]
      BY <1>4, <2>1, <2>4, <3>1
    <3> QED
      BY <1>2, <3>2
  <2> QED
    BY <2>1, <2>3, <2>5 DEF Bytes
<1>6. DecodeExprValue(in, "Int64").val = v
  <2>1. PICK w : w = EncodeExprValue(v)
    OBVIOUS
  <2>2. Len(w) <= Len(in) /\ \A j \in 1 .. Len(w) : in[j] = w[j]
    BY <1>2, <1>5, <2>1
  <2>3. DecodeExprValue(in, v.type) = [val |-> v, size |-> Len(EncodeExprValue(v))]
    BY <1>1, <1>5, <2>1, <2>2, ValueIsRead
  <2> QED
    BY <1>1, <2>3
<1>7. d = [c \in DOMAIN info.columns |-> u]
  <2>1. d = [c \in DOMAIN info.columns |->
               DecodeExprValue(SubSeq(item, 2, 1 + TypeSize(TypeOfCode(item[1]))),
                               TypeOfCode(item[1])).val.u]
    BY DEF DecodeIndex
  <2> HIDE DEF d
  <2> QED
    BY <1>1, <1>3, <1>4, <1>6, <2>1
<1> HIDE DEF d
<1>8. PICK cols : cols = PrimaryCols(info)
  OBVIOUS
<1>9. DOMAIN cols = 1 .. 1 /\ cols[1] \in DOMAIN info.columns /\ ColType(info, cols[1]) = "Int64"
  BY <1>8, PrimaryColumns
<1>10. GetColValue(info, d, cols[1]) = v
  <2>1. d # NoTuple /\ d[cols[1]] = u
    BY <1>7, <1>9 DEF NoTuple
  <2> QED
    BY <1>9, <2>1 DEF GetColValue, v
<1>11. GetColValue(info, row, cols[1]) = v
  <2>1. KeyOf(info, row)[1] = GetColValue(info, row, cols[1])
    <3>1. \A i \in 1 .. Len(PrimaryCols(info)) :
            KeyOf(info, row)[i] = GetColValue(info, row, PrimaryCols(info)[i])
      BY KeyOfRow
    <3> QED
      BY <1>8, <3>1
  <2>2. KeyOf(info, row)[1] = v
    BY DEF v
  <2> QED
    BY <2>1, <2>2
<1>12. [i \in DOMAIN cols |-> EncodeDataKey(DbId, TableId, ToText(GetColValue(info, d, cols[i])))]
         = [i \in DOMAIN cols |-> EncodeDataKey(DbId, TableId, ToText(GetColValue(info, row, cols[i])))]
  <2>1. \A i \in DOMAIN cols : GetColValue(info, d, cols[i]) = GetColValue(info, row, cols[i])
    BY <1>9, <1>10, <1>11
  <2> QED
    BY <2>1
<1>13. RowKey(info, d) = RowKey(info, row)
  BY <1>8, <1>12 DEF RowKey
<1> QED
  BY <1>13 DEF d, item, v

\* The keys of the items of a scan, those that MGetKV answers, and the lines of
\* their records.
KeysOf(info) == [i \in DOMAIN Scan(info) |-> RowKey(info, DecodeIndex(info, Scan(info)[i]))]

Found(info) == GetRecords(KeysOf(info))

Lines(info, byte) ==
  [i \in DOMAIN Found(info) |-> Line(info, PullData(info, Found(info), byte)[i])]

LEMMA LineOfRecord ==
  ASSUME NEW info, NEW byte, NEW i \in DOMAIN Found(info)
  PROVE  Lines(info, byte)[i] = Line(info, DecodeRow(info, data[Found(info)[i]], byte))
<1>1. PICK found : found = Found(info)
  OBVIOUS
<1>2. PullData(info, found, byte)[i] = DecodeRow(info, data[found[i]], byte)
  BY <1>1 DEF PullData
<1> QED
  BY <1>1, <1>2 DEF Lines

LEMMA FoundAreRecords ==
  ASSUME NEW info, InfoOK(info), info.primary # 0, ItemsOK(info)
  PROVE  /\ \E m \in Nat : DOMAIN Found(info) = 1 .. m
         /\ \A i \in DOMAIN Found(info) : Found(info)[i] \in DOMAIN data
         /\ Range(KeysOf(info)) \subseteq DOMAIN data => Found(info) = KeysOf(info)
<1>1. PICK n \in Nat : DOMAIN Scan(info) = 1 .. n
  BY ScanIsSeq, LenProperties
<1>2. PICK keys : keys = KeysOf(info)
  OBVIOUS
<1>3. DOMAIN keys = 1 .. n
  BY <1>1, <1>2 DEF KeysOf
<1>4. Found(info) = IF Range(keys) \subseteq DOMAIN data THEN keys ELSE <<>>
  BY <1>2 DEF Found, GetRecords, NoLines
<1>5. CASE Range(keys) \subseteq DOMAIN data
  <2>1. Found(info) = keys
    BY <1>4, <1>5
  <2>2. \A i \in DOMAIN keys : keys[i] \in DOMAIN data
    BY <1>5 DEF Range
  <2> QED
    BY <1>2, <1>3, <2>1, <2>2
<1>6. CASE ~(Range(keys) \subseteq DOMAIN data)
  <2>1. Found(info) = <<>>
    BY <1>4, <1>6
  <2>2. DOMAIN Found(info) = 1 .. 0
    BY <2>1
  <2> QED
    BY <1>2, <1>6, <2>2
<1> QED
  BY <1>5, <1>6

\* Every line is a sequence of texts, and the row of a key some INSERT gave.
LEMMA LinesShowRows ==
  ASSUME NEW info, InfoOK(info), info.primary # 0, ItemsOK(info), RowsStored(info),
         NEW byte \in JunkByte
  PROVE  /\ Lines(info, byte) \in Seq(Seq(Bytes))
         /\ \A i \in DOMAIN Lines(info, byte) : \E k \in DOMAIN told : Shows(Lines(info, byte)[i], k)
<1>1. PICK m \in Nat : DOMAIN Found(info) = 1 .. m
  BY FoundAreRecords
<1>2. PICK lines : lines = Lines(info, byte)
  OBVIOUS
<1>3. lines = [i \in 1 .. m |-> lines[i]]
  BY <1>1, <1>2 DEF Lines
<1>4. ASSUME NEW i \in 1 .. m
      PROVE  lines[i] \in Seq(Bytes) /\ \E k \in DOMAIN told : Shows(lines[i], k)
  <2>1. lines[i] = Line(info, DecodeRow(info, data[Found(info)[i]], byte))
    BY <1>1, <1>2, LineOfRecord
  <2>2. Found(info)[i] \in DOMAIN data
    BY <1>1, FoundAreRecords
  <2>3. PICK key \in DOMAIN told : \E row : Found(info)[i] = RowKey(info, row) /\ Stands(info, row, key)
    BY <2>2 DEF RowsStored
  <2>4. PICK row : Found(info)[i] = RowKey(info, row) /\ Stands(info, row, key)
    BY <2>3
  <2>5. RowOK(info, row) /\ data[RowKey(info, row)] = RowValue(info, row) /\ Tells(info, row, told[key])
    BY <2>4 DEF Stands
  <2>6. lines[i] = Line(info, DecodeRow(info, RowValue(info, row), byte))
    BY <2>1, <2>4, <2>5
  <2>7. lines[i] \in Seq(Bytes) /\ Shows(lines[i], key)
    BY <2>5, <2>6, LineShows
  <2> QED
    BY <2>7
<1>5. lines \in Seq(Seq(Bytes))
  <2>1. \A i \in 1 .. m : lines[i] \in Seq(Bytes)
    BY <1>4
  <2>2. lines \in [1 .. m -> Seq(Bytes)]
    BY <1>3, <2>1
  <2> QED
    BY <2>2
<1> QED
  BY <1>2, <1>3, <1>4, <1>5

\* A key of one column stays a key of one column.
LEMMA KeysOfOneColumn ==
  ASSUME NEW info, InfoOK(info), info.primary # 0, Len(PrimaryCols(info)) = 1, RowsStored(info),
         NEW key \in DOMAIN told
  PROVE  KeyOK(key)
<1>1. PICK row : Stands(info, row, key)
  BY DEF RowsStored
<1>2. RowOK(info, row) /\ key = KeyOf(info, row)
  BY <1>1 DEF Stands
<1>3. /\ key = [i \in 1 .. 1 |-> key[i]]
      /\ key[1] \in Values /\ key[1].type \in {"Int64", "Null"}
  BY <1>2, KeyOfRow
<1>4. key = <<key[1]>>
  BY <1>3, KeyOfOneColumn
<1> QED
  BY <1>3, <1>4 DEF KeyOK

\* With a primary key of one column, a SELECT prints the rows of the visible keys.
LEMMA LinesShowKeys ==
  ASSUME NEW info, InfoOK(info), info.primary # 0, Len(PrimaryCols(info)) = 1, ItemsOK(info),
         RowsStored(info), IsFiniteSet(kept), kept \subseteq DOMAIN told, NEW byte \in JunkByte
  PROVE  /\ Found(info) = KeysOf(info)
         /\ Len(Lines(info, byte)) = Len(VisibleKeys)
         /\ \A i \in DOMAIN Lines(info, byte) : Shows(Lines(info, byte)[i], VisibleKeys[i])
<1>1. \A key \in kept : KeyOK(key)
  BY KeysOfOneColumn
<1>2. PICK n \in Nat : /\ VisibleKeys \in [1 .. n -> Visible]
                       /\ Scan(info) = [i \in 1 .. n |-> TypedBytes(VisibleKeys[i][1])]
  BY <1>1, ScanFindsVisible
<1>3. PICK keys : keys = KeysOf(info)
  OBVIOUS
<1>4. PICK visible : visible = VisibleKeys
  OBVIOUS
<1>5. DOMAIN keys = 1 .. n /\ DOMAIN visible = 1 .. n
  BY <1>2, <1>3, <1>4 DEF KeysOf
<1>6. ASSUME NEW i \in 1 .. n
      PROVE  /\ keys[i] \in DOMAIN data
             /\ Shows(Line(info, DecodeRow(info, data[keys[i]], byte)), visible[i])
  <2>1. PICK key \in Visible : key = visible[i]
    BY <1>2, <1>4
  <2>2. key \in kept
    BY DEF Visible
  <2>3. PICK u \in 0 .. Pow256[W64] - 1 : key = <<key[1]>> /\ key[1] = NewValue("Int64", u)
    BY <1>1, RangeOfVisible
  <2>4. PICK row : Stands(info, row, key)
    BY <2>2 DEF RowsStored
  <2>5. /\ RowOK(info, row) /\ key = KeyOf(info, row) /\ RowKey(info, row) \in DOMAIN data
        /\ data[RowKey(info, row)] = RowValue(info, row) /\ Tells(info, row, told[key])
    BY <2>4 DEF Stands
  <2>6. KeyOf(info, row) = <<NewValue("Int64", u)>>
    BY <2>3, <2>5
  <2>7. RowKey(info, DecodeIndex(info, TypedBytes(NewValue("Int64", u)))) = RowKey(info, row)
    BY <2>5, <2>6, DecodedKey
  <2>8. Scan(info)[i] = TypedBytes(key[1]) /\ i \in DOMAIN Scan(info)
    BY <1>2, <1>4, <2>1
  <2>9. keys[i] = RowKey(info, DecodeIndex(info, Scan(info)[i]))
    BY <1>3, <2>8 DEF KeysOf
  <2>10. keys[i] = RowKey(info, row)
    BY <2>3, <2>7, <2>8, <2>9
  <2>11. Shows(Line(info, DecodeRow(info, RowValue(info, row), byte)), key)
    BY <2>5, LineShows
  <2> QED
    BY <2>1, <2>5, <2>10, <2>11
<1>7. Range(keys) \subseteq DOMAIN data
  BY <1>5, <1>6 DEF Range
<1>8. Found(info) = keys
  BY <1>3, <1>7, FoundAreRecords
<1>9. DOMAIN Lines(info, byte) = 1 .. n
  BY <1>5, <1>8 DEF Lines
<1>10. \A i \in 1 .. n : Shows(Lines(info, byte)[i], visible[i])
  BY <1>5, <1>6, <1>8, LineOfRecord
<1>11. Len(Lines(info, byte)) = n /\ Len(visible) = n
  BY <1>4, <1>5, <1>9, <1>2 DEF Lines
<1> QED
  BY <1>3, <1>4, <1>8, <1>9, <1>10, <1>11

-----------------------------------------------------------------------------
(* The invariant *)

\* A look-up succeeds when its records are stored.
LEMMA AllAreFound ==
  ASSUME NEW a, NEW b, NEW c, NEW d, NEW p, NEW q, NEW r, NEW s, "C_OK" \notin {p, q, r, s}
  PROVE  FirstFailure(<<Lookup(a, p), Lookup(b, q), Lookup(c, r), Lookup(d, s)>>) = "C_OK"
           <=> {a, b, c, d} \subseteq known
<1> DEFINE lookups == <<Lookup(a, p), Lookup(b, q), Lookup(c, r), Lookup(d, s)>>
           failed == {i \in DOMAIN lookups : IsNotFound(lookups[i])}
<1>1. /\ DOMAIN lookups = {1, 2, 3, 4}
      /\ lookups[1].record = a /\ lookups[2].record = b
      /\ lookups[3].record = c /\ lookups[4].record = d
      /\ \A i \in {1, 2, 3, 4} : lookups[i].st \in {p, q, r, s}
  BY DEF Lookup
<1>2. FirstFailure(lookups) = IF failed = {} THEN "C_OK" ELSE lookups[Min(failed)].st
  BY DEF FirstFailure
<1> HIDE DEF lookups
<1>3. failed = {} <=> {a, b, c, d} \subseteq known
  BY <1>1 DEF IsNotFound
<1>4. ASSUME failed # {} PROVE Min(failed) \in DOMAIN lookups
  <2>1. Min(failed) = CHOOSE x \in failed : \A y \in failed : x =< y
    BY DEF Min
  <2>2. failed \subseteq {1, 2, 3, 4}
    BY <1>1
  <2> HIDE DEF failed
  <2>3. \E x \in failed : \A y \in failed : x =< y
    <3>1. CASE 1 \in failed
      BY <2>2, <3>1
    <3>2. CASE 1 \notin failed /\ 2 \in failed
      BY <2>2, <3>2
    <3>3. CASE 1 \notin failed /\ 2 \notin failed /\ 3 \in failed
      BY <2>2, <3>3
    <3>4. CASE 1 \notin failed /\ 2 \notin failed /\ 3 \notin failed
      <4>1. PICK x \in failed : TRUE
        BY <1>4
      <4>2. 4 \in failed /\ \A y \in failed : y = 4
        BY <2>2, <3>4, <4>1
      <4> QED
        BY <4>2
    <3> QED
      BY <3>1, <3>2, <3>3, <3>4
  <2>4. Min(failed) \in failed
    BY <2>1, <2>3
  <2> QED
    BY <1>1, <2>2, <2>4
<1>5. ASSUME failed # {} PROVE lookups[Min(failed)].st # "C_OK"
  BY <1>1, <1>4, <1>5
<1> HIDE DEF failed
<1> QED
  BY <1>2, <1>3, <1>5 DEF lookups

LEMMA Analyses ==
  /\ InsertAnalysis = "C_OK" <=> Records \subseteq known
  /\ SelectAnalysis = "C_OK" <=> Records \subseteq known
<1>1. Records = {"dbName", "tblName", "dbMeta", "tblMeta"}
  BY DEF Records
<1> QED
  BY <1>1, AllAreFound DEF InsertAnalysis, SelectAnalysis

\* The table there is, and what its statements stored.
TableIs(info) ==
  /\ info = Info
  /\ InfoOK(info) /\ RowsStored(info) /\ ItemsOK(info)
  /\ known # {"fixture"} => \A c \in DOMAIN info.columns : ColType(info, c) = "Int64"

\* Which records are stored, and that there is nothing before there is a table.
KnownOK ==
  /\ known \in {{}, {"fixture"}, Records, Records \ {"dbMeta"}}
  /\ known = {} => data = <<>> /\ items = <<>> /\ told = <<>> /\ kept = {} /\ out.stmt # "select"
  /\ known # {} => \E info : TableIs(info)

\* What is stored, told and printed.
StoredOK ==
  /\ \A k \in DOMAIN data : k \in Bytes /\ data[k] \in Bytes
  /\ seq \in 0 .. MaxRows
  /\ IsFiniteSet(kept) /\ kept \subseteq DOMAIN told
  /\ out.lines \in Seq(Seq(Bytes))

StatementInv == KnownOK /\ StoredOK /\ LinesWereInserted /\ SelectShowsInserts

\* Of a table nothing of which changes, all of that stays true.
LEMMA TableStays ==
  ASSUME NEW info, TableIs(info), UNCHANGED <<known, meta, data, items, told, kept>>
  PROVE  TableIs(info)'
<1>1. Info' = Info
  BY DEF Info
<1>2. RowsStored(info)'
  BY DEF TableIs, RowsStored, Stands, Tells
<1>3. ItemsOK(info)'
  BY DEF TableIs, ItemsOK
<1> QED
  BY <1>1, <1>2, <1>3 DEF TableIs

LEMMA StoredIsBytes ==
  ASSUME NEW info, InfoOK(info), info.primary # 0, RowsStored(info)'
  PROVE  \A k \in DOMAIN data' : k \in Bytes /\ data'[k] \in Bytes
<1> TAKE k \in DOMAIN data'
<1>1. PICK row : RowOK(info, row) /\ k = RowKey(info, row) /\ data'[k] = RowValue(info, row)
  BY DEF RowsStored, Stands
<1>2. RowKey(info, row) \in Bytes
  BY <1>1, KeyOfRow
<1>3. RowValue(info, row) \in Bytes
  BY <1>1, RowValueIsBytes
<1> QED
  BY <1>1, <1>2, <1>3

\* The keys of a chunk are finite in number, and told.
LEMMA ChunkKept ==
  ASSUME NEW info, NEW n \in Nat, NEW cells, NEW chunk, DOMAIN chunk = 1 .. n,
         IsFiniteSet(kept), kept \subseteq DOMAIN told,
         DOMAIN told \subseteq DOMAIN told', \A r \in 1 .. n : KeyOf(info, chunk[r]) \in DOMAIN told',
         InsertChunk(info, cells, chunk)
  PROVE  IsFiniteSet(kept') /\ kept' \subseteq DOMAIN told'
<1> DEFINE keys == {KeyOf(info, chunk[r]) : r \in 1 .. n}
           f == [r \in 1 .. n |-> KeyOf(info, chunk[r])]
<1>1. IsFiniteSet(keys)
  <2>1. IsFiniteSet(1 .. n)
    BY FS_Interval
  <2>2. f \in Surjection(1 .. n, keys)
    BY DEF Surjection
  <2> QED
    BY <2>1, <2>2, FS_Surjection
<1>2. kept' = kept \/ kept' = kept \cup keys
  BY DEF InsertChunk
<1> HIDE DEF keys
<1>3. IsFiniteSet(kept')
  BY <1>1, <1>2, FS_Union
<1>4. kept' \subseteq DOMAIN told'
  BY <1>2 DEF keys
<1> QED
  BY <1>3, <1>4

-----------------------------------------------------------------------------
(* The steps *)

LEMMA InitRows == RowsInit => StatementInv
<1> SUFFICES ASSUME RowsInit PROVE StatementInv
  OBVIOUS
<1>1. KnownOK
  BY DEF RowsInit, KnownOK
<1>2. StoredOK
  <2>1. IsFiniteSet(kept) /\ kept \subseteq DOMAIN told
    BY FS_EmptySet DEF RowsInit
  <2>2. seq \in 0 .. MaxRows
    BY RowsAssumption DEF RowsInit
  <2>3. out.lines \in Seq(Seq(Bytes)) /\ DOMAIN data = {}
    BY EmptySeq DEF RowsInit, NoLines
  <2> QED
    BY <2>1, <2>2, <2>3 DEF StoredOK
<1>3. LinesWereInserted /\ SelectShowsInserts
  BY DEF RowsInit, LinesWereInserted, SelectShowsInserts
<1> QED
  BY <1>1, <1>2, <1>3 DEF StatementInv

\* A statement that stores nothing and prints nothing leaves the table as it was.
LEMMA LeaveStep ==
  ASSUME StatementInv, NEW stmt, NEW st, Leave(stmt, st), known = {} => stmt # "select",
         stmt = "select" => known \notin {Records, {"fixture"}} \/ Info.primary = 0
  PROVE  StatementInv'
<1>1. /\ out' = [stmt |-> stmt, st |-> st, lines |-> <<>>]
      /\ UNCHANGED <<known, meta, data, items, seq, told, kept>>
  BY DEF Leave, Answer, NoLines
<1>2. KnownOK'
  <2>1. known' \in {{}, {"fixture"}, Records, Records \ {"dbMeta"}}
    BY <1>1 DEF StatementInv, KnownOK
  <2>2. known' = {} => /\ data' = <<>> /\ items' = <<>> /\ told' = <<>> /\ kept' = {}
                       /\ out'.stmt # "select"
    BY <1>1 DEF StatementInv, KnownOK
  <2>3. ASSUME known' # {} PROVE \E info : TableIs(info)'
    <3>1. PICK info : TableIs(info)
      BY <1>1, <2>3 DEF StatementInv, KnownOK
    <3>2. TableIs(info)'
      BY <1>1, <3>1, TableStays
    <3> QED
      BY <3>2
  <2> QED
    BY <2>1, <2>2, <2>3 DEF KnownOK
<1>3. StoredOK'
  <2>1. out'.lines \in Seq(Seq(Bytes))
    BY <1>1, EmptySeq
  <2> QED
    BY <1>1, <2>1 DEF StatementInv, StoredOK
<1>4. LinesWereInserted'
  BY <1>1 DEF LinesWereInserted
<1>5. SelectShowsInserts'
  <2>1. Info' = Info
    BY <1>1 DEF Info
  <2> QED
    BY <1>1, <2>1 DEF SelectShowsInserts
<1> QED
  BY <1>2, <1>3, <1>4, <1>5 DEF StatementInv

\* A new table without rows.
LEMMA NewTableStep ==
  ASSUME StatementInv, known = {}, NEW info, InfoOK(info), info = Info',
         known' \in {Records, {"fixture"}},
         known' # {"fixture"} => \A c \in DOMAIN info.columns : ColType(info, c) = "Int64",
         items' = [i \in DOMAIN info.indexes |-> {}],
         Answer("create", "C_OK", NoLines), UNCHANGED <<data, seq, told, kept>>
  PROVE  StatementInv'
<1>1. data' = <<>> /\ told' = <<>> /\ kept' = {} /\ DOMAIN data' = {} /\ DOMAIN told' = {}
  BY DEF StatementInv, KnownOK
<1>2. out'.stmt = "create" /\ out'.lines = <<>>
  BY DEF Answer, NoLines
<1>3. RowsStored(info)'
  BY <1>1 DEF RowsStored
<1>4. ItemsOK(info)'
  <2>1. DOMAIN items' = DOMAIN info.indexes /\ \A i \in DOMAIN items' : items'[i] = {}
    OBVIOUS
  <2>2. info.primary # 0 => info.primary \in DOMAIN items'
    BY <2>1 DEF InfoOK
  <2>3. \A i \in DOMAIN items' : IsFiniteSet(items'[i]) /\ items'[i] \subseteq Bytes
    BY <2>1, FS_EmptySet
  <2>4. info.primary # 0 => items'[info.primary] = {TypedBytes(key[1]) : key \in kept'}
    BY <1>1, <2>1, <2>2
  <2> QED
    BY <2>1, <2>2, <2>3, <2>4 DEF ItemsOK
<1>5. TableIs(info)'
  BY <1>3, <1>4 DEF TableIs
<1>6. KnownOK'
  <2>1. known' # {}
    BY DEF Records
  <2> QED
    BY <1>5, <2>1 DEF KnownOK
<1>7. StoredOK'
  <2>1. out'.lines \in Seq(Seq(Bytes))
    BY <1>2, EmptySeq
  <2>2. IsFiniteSet(kept') /\ kept' \subseteq DOMAIN told'
    BY <1>1, FS_EmptySet
  <2> QED
    BY <1>1, <2>1, <2>2 DEF StoredOK, StatementInv
<1>8. LinesWereInserted' /\ SelectShowsInserts'
  BY <1>2 DEF LinesWereInserted, SelectShowsInserts
<1> QED
  BY <1>6, <1>7, <1>8 DEF StatementInv

LEMMA CreateTableStep ==
  ASSUME StatementInv, NEW stmt \in CreateStmts, CreateTable(stmt)
  PROVE  StatementInv'
<1>1. CASE \E i \in DOMAIN stmt.indexes : ~(Range(stmt.indexes[i].cols) \subseteq DOMAIN stmt.columns)
  <2>1. Leave("create", Died)
    BY <1>1 DEF CreateTable
  <2> QED
    BY <2>1, LeaveStep
<1>2. CASE \A i \in DOMAIN stmt.indexes : Range(stmt.indexes[i].cols) \subseteq DOMAIN stmt.columns
  <2>1. /\ known = {} /\ known' = Records /\ meta' = Serialize(NewTableInfo(stmt))
        /\ items' = [i \in DOMAIN stmt.indexes |-> {}]
        /\ Answer("create", "C_OK", NoLines) /\ UNCHANGED <<data, seq, told, kept>>
    BY <1>2 DEF CreateTable
  <2>2. PICK info : info = Deserialize(Serialize(NewTableInfo(stmt)))
    OBVIOUS
  <2>3. InfoOK(info) /\ info.indexes = stmt.indexes /\ \A c \in DOMAIN info.columns : ColType(info, c) = "Int64"
    BY <1>2, <2>2, CreatedInfo
  <2>4. info = Info'
    <3>1. known' # {"fixture"}
      BY <2>1 DEF Records
    <3> QED
      BY <2>1, <2>2, <3>1 DEF Info
  <2> QED
    BY <2>1, <2>3, <2>4, NewTableStep
<1> QED
  BY <1>1, <1>2

LEMMA DumpMataStep ==
  ASSUME StatementInv, DumpMata
  PROVE  StatementInv'
<1>1. /\ known = {} /\ known' = {"fixture"} /\ items' = [i \in DOMAIN GenTableInfo.indexes |-> {}]
      /\ Answer("create", "C_OK", NoLines) /\ UNCHANGED <<data, seq, told, kept>>
  BY DEF DumpMata
<1>2. PICK info : info = GenTableInfo
  OBVIOUS
<1>3. InfoOK(info) /\ info = Info'
  BY <1>1, <1>2, FixtureInfo DEF Info
<1> QED
  BY <1>1, <1>2, <1>3, NewTableStep

LEMMA LoseDatabaseMetaStep ==
  ASSUME StatementInv, LoseDatabaseMeta
  PROVE  StatementInv'
<1>1. /\ "dbMeta" \in known /\ known' = known \ {"dbMeta"}
      /\ UNCHANGED <<meta, data, items, seq, out, told, kept>>
  BY DEF LoseDatabaseMeta
<1>2. known = Records /\ known' = Records \ {"dbMeta"}
  BY <1>1 DEF StatementInv, KnownOK
<1>3. /\ known # {} /\ known # {"fixture"}
      /\ known' # {} /\ known' # {"fixture"} /\ known' # Records
  BY <1>2 DEF Records
<1>4. Info' = Info
  BY <1>1, <1>3 DEF Info
<1>5. PICK info : TableIs(info)
  BY <1>3 DEF StatementInv, KnownOK
<1>6. TableIs(info)'
  <2>1. RowsStored(info)'
    BY <1>1, <1>5 DEF TableIs, RowsStored, Stands, Tells
  <2>2. ItemsOK(info)'
    BY <1>1, <1>5 DEF TableIs, ItemsOK
  <2> QED
    BY <1>3, <1>4, <1>5, <2>1, <2>2 DEF TableIs
<1>7. KnownOK'
  BY <1>2, <1>3, <1>6 DEF KnownOK
<1>8. StoredOK'
  BY <1>1 DEF StatementInv, StoredOK
<1>9. LinesWereInserted'
  BY <1>1 DEF StatementInv, LinesWereInserted, Shows
<1>10. SelectShowsInserts'
  BY <1>3 DEF SelectShowsInserts
<1> QED
  BY <1>7, <1>8, <1>9, <1>10 DEF StatementInv

\* A chunk of rows that hold what they were given.
LEMMA ChunkStep ==
  ASSUME StatementInv, known # {}, NEW info, TableIs(info), info.primary # 0,
         NEW n \in Nat, NEW cells, NEW chunk, DOMAIN chunk = 1 .. n,
         \A r \in 1 .. n : RowOK(info, chunk[r]) /\ Tells(info, chunk[r], Told(info, cells[r])),
         InsertChunk(info, cells, chunk),
         seq' \in 0 .. MaxRows, Answer("insert", "C_OK", NoLines), UNCHANGED <<known, meta>>
  PROVE  StatementInv'
<1>1. InfoOK(info) /\ RowsStored(info) /\ ItemsOK(info)
  BY DEF TableIs
<1>2. /\ RowsStored(info)' /\ DOMAIN told \subseteq DOMAIN told'
      /\ \A r \in 1 .. n : KeyOf(info, chunk[r]) \in DOMAIN told'
  BY <1>1, ChunkStored
<1>3. ItemsOK(info)'
  BY <1>1, ChunkIndexed
<1>4. Info' = Info
  BY DEF Info
<1>5. TableIs(info)'
  BY <1>2, <1>3, <1>4 DEF TableIs
<1>6. out'.stmt = "insert" /\ out'.lines = <<>>
  BY DEF Answer, NoLines
<1>7. KnownOK'
  BY <1>5 DEF StatementInv, KnownOK
<1>8. StoredOK'
  <2>1. IsFiniteSet(kept) /\ kept \subseteq DOMAIN told
    BY DEF StatementInv, StoredOK
  <2>2. IsFiniteSet(kept') /\ kept' \subseteq DOMAIN told'
    BY <1>2, <2>1, ChunkKept
  <2>3. \A k \in DOMAIN data' : k \in Bytes /\ data'[k] \in Bytes
    BY <1>1, <1>2, StoredIsBytes
  <2>4. out'.lines \in Seq(Seq(Bytes))
    BY <1>6, EmptySeq
  <2> QED
    BY <2>2, <2>3, <2>4 DEF StoredOK
<1>9. LinesWereInserted' /\ SelectShowsInserts'
  BY <1>6 DEF LinesWereInserted, SelectShowsInserts
<1> QED
  BY <1>7, <1>8, <1>9 DEF StatementInv

\* The branch of Insert that stores rows.
Stores(info, cells) ==
  /\ info.primary # 0
  /\ \E mem \in [{p \in (DOMAIN cells) \X (DOMAIN info.columns) :
                    p[2] \in Unset(info, cells[p[1]])} -> Junk] :
       InsertChunk(info, cells,
                   [r \in DOMAIN cells |->
                      SetColValues(info, cells[r],
                                   [c \in Unset(info, cells[r]) |-> mem[<<r, c>>]], 0)])

LEMMA InsertStep ==
  ASSUME StatementInv, NEW records \in InsertStmts, Insert(records)
  PROVE  StatementInv'
<1>1. PICK info : info = Info
  OBVIOUS
<1>2. PICK cells : cells = [r \in DOMAIN records |->
                              [c \in DOMAIN records[r] |-> ToLiteralNode(records[r][c])]]
  OBVIOUS
<1>3. CASE \E st : Leave("insert", st)
  BY <1>3, LeaveStep
<1>4. ASSUME InsertAnalysis = "C_OK", info.primary # 0, known # {"fixture"},
             seq + Len(records) <= MaxRows,
             NEW mem \in [{p \in (DOMAIN cells) \X (DOMAIN info.columns) :
                             p[2] \in Unset(info, cells[p[1]])} -> Junk],
             InsertChunk(info, cells,
                         [r \in DOMAIN cells |->
                            SetColValues(info, cells[r],
                                         [c \in Unset(info, cells[r]) |-> mem[<<r, c>>]], 0)]),
             seq' = seq + Len(records), Answer("insert", "C_OK", NoLines), UNCHANGED <<known, meta>>
      PROVE  StatementInv'
  <2>1. records \in Seq(Seq(Literals))
    BY RowsAssumption
  <2>2. PICK n \in Nat : n = Len(records) /\ DOMAIN records = 1 .. n
    BY <2>1, LenProperties
  <2>3. known # {}
    BY <1>4, Analyses DEF Records
  <2>4. TableIs(info)
    BY <1>1, <2>3 DEF StatementInv, KnownOK, TableIs
  <2>5. InfoOK(info) /\ \A c \in DOMAIN info.columns : ColType(info, c) = "Int64"
    BY <1>4, <2>4 DEF TableIs
  <2>6. PICK chunk : chunk = [r \in DOMAIN cells |->
                                SetColValues(info, cells[r],
                                             [c \in Unset(info, cells[r]) |-> mem[<<r, c>>]], 0)]
    OBVIOUS
  <2>7. DOMAIN cells = 1 .. n /\ DOMAIN chunk = 1 .. n
    BY <1>2, <2>2, <2>6
  <2>8. ASSUME NEW r \in 1 .. n
        PROVE  RowOK(info, chunk[r]) /\ Tells(info, chunk[r], Told(info, cells[r]))
    <3>1. PICK record \in Seq(Literals) : record = records[r]
      BY <2>1, <2>2, ElementOfSeq
    <3>2. PICK own : own = cells[r]
      OBVIOUS
    <3>3. own = [c \in DOMAIN record |-> ToLiteralNode(record[c])]
      BY <1>2, <2>2, <3>1, <3>2
    <3>4. PICK left : left = [c \in Unset(info, own) |-> mem[<<r, c>>]]
      OBVIOUS
    <3>5. \A c \in Unset(info, own) : left[c] \in Junk
      <4> TAKE c \in Unset(info, own)
      <4>1. c \in DOMAIN info.columns
        BY DEF Unset
      <4>2. <<r, c>> \in {p \in (DOMAIN cells) \X (DOMAIN info.columns) :
                            p[2] \in Unset(info, cells[p[1]])}
        BY <2>7, <3>2, <4>1
      <4>3. mem[<<r, c>>] \in Junk
        BY <1>4, <4>2
      <4> QED
        BY <3>4, <4>3
    <3>6. chunk[r] = SetColValues(info, own, left, 0)
      BY <2>6, <2>7, <3>2, <3>4
    <3> QED
      BY <2>5, <3>2, <3>3, <3>5, <3>6, InsertedRow
  <2>9. seq' \in 0 .. MaxRows
    BY <1>4, <2>2, RowsAssumption DEF StatementInv, StoredOK
  <2>10. InsertChunk(info, cells, chunk)
    BY <1>4, <2>6
  <2> QED
    BY <1>4, <2>3, <2>4, <2>7, <2>8, <2>9, <2>10, ChunkStep
<1>5. \/ Leave("insert", InsertAnalysis) \/ Leave("insert", Died)
      \/ /\ InsertAnalysis = "C_OK" /\ known # {"fixture"} /\ seq + Len(records) <= MaxRows
         /\ Stores(info, cells)
         /\ seq' = seq + Len(records) /\ Answer("insert", "C_OK", NoLines) /\ UNCHANGED <<known, meta>>
  <2>1. \/ Leave("insert", InsertAnalysis) \/ Leave("insert", Died)
        \/ /\ InsertAnalysis = "C_OK" /\ known # {"fixture"} /\ seq + Len(records) <= MaxRows
           /\ Stores(Info, [r \in DOMAIN records |->
                              [c \in DOMAIN records[r] |-> ToLiteralNode(records[r][c])]])
           /\ seq' = seq + Len(records) /\ Answer("insert", "C_OK", NoLines) /\ UNCHANGED <<known, meta>>
    BY DEF Insert, Stores
  <2> QED
    BY <1>1, <1>2, <2>1
<1>6. CASE InsertAnalysis = "C_OK" /\ known # {"fixture"} /\ seq + Len(records) <= MaxRows
           /\ Stores(info, cells)
           /\ seq' = seq + Len(records) /\ Answer("insert", "C_OK", NoLines) /\ UNCHANGED <<known, meta>>
  BY <1>4, <1>6 DEF Stores
<1> QED
  BY <1>3, <1>5, <1>6

LEMMA GenRowsStep ==
  ASSUME StatementInv, NEW n \in 1 .. MaxRecords, GenRows(n)
  PROVE  StatementInv'
<1>1. /\ known = {"fixture"} /\ seq + n <= MaxRows
      /\ seq' = seq + n /\ Answer("insert", "C_OK", NoLines) /\ UNCHANGED <<known, meta>>
  BY DEF GenRows
<1>2. PICK cells : cells = [r \in 1 .. n |-> GenRecord(seq + r)]
  OBVIOUS
<1>3. PICK info : info = GenTableInfo
  OBVIOUS
<1>4. PICK byte \in [1 .. n -> JunkByte] :
        InsertChunk(info, cells, [r \in 1 .. n |-> SetColValues(info, cells[r], <<>>, byte[r])])
  BY <1>2, <1>3 DEF GenRows
<1>5. PICK chunk : chunk = [r \in 1 .. n |-> SetColValues(info, cells[r], <<>>, byte[r])]
  OBVIOUS
<1>6. n \in Nat /\ seq \in Nat /\ MaxRows \in Nat
  BY RowsAssumption DEF StatementInv, StoredOK
<1>7. ASSUME NEW r \in 1 .. n
      PROVE  RowOK(info, chunk[r]) /\ Tells(info, chunk[r], Told(info, cells[r]))
  <2>1. PICK number \in 1 .. MaxRows : number = seq + r
    BY <1>1, <1>6
  <2>2. byte[r] \in JunkByte
    OBVIOUS
  <2>3. cells[r] = GenRecord(number) /\ chunk[r] = SetColValues(info, GenRecord(number), <<>>, byte[r])
    BY <1>2, <1>5, <2>1
  <2> QED
    BY <1>3, <2>2, <2>3, GeneratedRow
<1>8. known # {} /\ info.primary # 0
  BY <1>1, <1>3, FixtureInfo
<1>9. TableIs(info)
  BY <1>1, <1>3, <1>8 DEF StatementInv, KnownOK, TableIs, Info
<1>10. DOMAIN chunk = 1 .. n /\ InsertChunk(info, cells, chunk) /\ seq' \in 0 .. MaxRows
  BY <1>1, <1>4, <1>5, <1>6
<1> QED
  BY <1>1, <1>6, <1>7, <1>8, <1>9, <1>10, ChunkStep

LEMMA SelectStep ==
  ASSUME StatementInv, Select
  PROVE  StatementInv'
<1>1. PICK info : info = Info
  OBVIOUS
<1>2. known # {}
  BY DEF Select
<1>3. TableIs(info)
  BY <1>1, <1>2 DEF StatementInv, KnownOK, TableIs
<1>4. ASSUME SelectAnalysis # "C_OK", Leave("select", SelectAnalysis), known # {"fixture"}
      PROVE  StatementInv'
  <2>1. known # Records
    BY <1>4, Analyses
  <2> QED
    BY <1>2, <1>4, <2>1, LeaveStep
<1>5. CASE info.primary = 0 /\ Leave("select", Died)
  BY <1>1, <1>2, <1>5, LeaveStep
<1>6. ASSUME info.primary # 0, UNCHANGED <<known, meta, data, items, seq, told, kept>>,
             NEW byte \in JunkByte,
             Answer("select", IF Len(Found(info)) = Len(KeysOf(info)) THEN "C_OK"
                              ELSE "C_STORAGE_KV_NOT_FOUND", Lines(info, byte))
      PROVE  StatementInv'
  <2>1. InfoOK(info) /\ RowsStored(info) /\ ItemsOK(info)
    BY <1>3 DEF TableIs
  <2>2. PICK lines : lines = Lines(info, byte)
    OBVIOUS
  <2>3. /\ lines \in Seq(Seq(Bytes))
        /\ \A i \in DOMAIN lines : \E k \in DOMAIN told : Shows(lines[i], k)
    BY <1>6, <2>1, <2>2, LinesShowRows
  <2>4. /\ out'.stmt = "select" /\ out'.lines = lines
        /\ Len(Found(info)) = Len(KeysOf(info)) => out'.st = "C_OK"
    BY <1>6, <2>2 DEF Answer
  <2>5. KnownOK'
    <3>1. TableIs(info)'
      BY <1>3, <1>6, TableStays
    <3> QED
      BY <1>2, <1>6, <3>1 DEF StatementInv, KnownOK
  <2>6. StoredOK'
    BY <1>6, <2>3, <2>4 DEF StatementInv, StoredOK
  <2>7. LinesWereInserted'
    BY <1>6, <2>3, <2>4 DEF LinesWereInserted, Shows
  <2>8. SelectShowsInserts'
    <3>1. Info' = Info
      BY <1>6 DEF Info
    <3>2. CASE Len(PrimaryCols(info)) # 1
      BY <1>1, <3>1, <3>2 DEF SelectShowsInserts
    <3>3. CASE Len(PrimaryCols(info)) = 1
      <4>1. IsFiniteSet(kept) /\ kept \subseteq DOMAIN told
        BY DEF StatementInv, StoredOK
      <4>2. PICK visible : visible = VisibleKeys
        OBVIOUS
      <4>3. /\ Found(info) = KeysOf(info) /\ Len(lines) = Len(visible)
            /\ \A i \in DOMAIN lines : Shows(lines[i], visible[i])
        BY <1>6, <2>1, <2>2, <3>3, <4>1, <4>2, LinesShowKeys
      <4>4. VisibleKeys' = visible
        BY <1>6, <4>2 DEF VisibleKeys, Ascending
      <4>5. /\ out'.st = "C_OK" /\ Len(out'.lines) = Len(VisibleKeys')
            /\ \A i \in DOMAIN out'.lines : Shows(out.lines[i], VisibleKeys[i])'
        BY <1>6, <2>4, <4>3, <4>4 DEF Shows
      <4> QED
        BY <4>5 DEF SelectShowsInserts
    <3> QED
      BY <3>2, <3>3
  <2> QED
    BY <2>5, <2>6, <2>7, <2>8 DEF StatementInv
<1>7. \/ known # {"fixture"} /\ SelectAnalysis # "C_OK" /\ Leave("select", SelectAnalysis)
      \/ info.primary = 0 /\ Leave("select", Died)
      \/ /\ info.primary # 0 /\ UNCHANGED <<known, meta, data, items, seq, told, kept>>
         /\ \E byte \in JunkByte :
              Answer("select", IF Len(Found(info)) = Len(KeysOf(info)) THEN "C_OK"
                               ELSE "C_STORAGE_KV_NOT_FOUND", Lines(info, byte))
  BY <1>1 DEF Select, Found, KeysOf, Lines
<1> QED
  BY <1>4, <1>5, <1>6, <1>7

-----------------------------------------------------------------------------
(* Theorems *)

\* Whatever tables are created and however INSERTs and SELECTs follow one another,
\* a SELECT finds what was stored: the invariant holds in every state.
THEOREM RowsInvariant == RowsSpec => []StatementInv
<1>1. RowsInit => StatementInv
  BY InitRows
<1>2. StatementInv /\ [RowsNext]_rowsVars => StatementInv'
  <2> SUFFICES ASSUME StatementInv, [RowsNext]_rowsVars PROVE StatementInv'
    OBVIOUS
  <2>1. CASE \E stmt \in CreateStmts : CreateTable(stmt)
    BY <2>1, CreateTableStep
  <2>2. CASE DumpMata
    BY <2>2, DumpMataStep
  <2>3. CASE LoseDatabaseMeta
    BY <2>3, LoseDatabaseMetaStep
  <2>4. CASE \E records \in InsertStmts : Insert(records)
    BY <2>4, InsertStep
  <2>5. CASE \E n \in 1 .. MaxRecords : GenRows(n)
    BY <2>5, GenRowsStep
  <2>6. CASE Select
    BY <2>6, SelectStep
  <2>7. CASE UNCHANGED rowsVars
    <3>1. UNCHANGED <<known, meta, data, items, seq, out, told, kept>>
      BY <2>7 DEF rowsVars
    <3>2. KnownOK'
      <4>1. ASSUME known # {} PROVE \E info : TableIs(info)'
        BY <3>1, <4>1, TableStays DEF StatementInv, KnownOK
      <4> QED
        BY <3>1, <4>1 DEF StatementInv, KnownOK
    <3>3. StoredOK'
      BY <3>1 DEF StatementInv, StoredOK
    <3>4. LinesWereInserted'
      BY <3>1 DEF StatementInv, LinesWereInserted, Shows
    <3>5. SelectShowsInserts'
      <4>1. Info' = Info /\ VisibleKeys' = VisibleKeys
        BY <3>1 DEF Info, VisibleKeys, Ascending
      <4> QED
        BY <3>1, <4>1 DEF StatementInv, SelectShowsInserts, Shows
    <3> QED
      BY <3>2, <3>3, <3>4, <3>5 DEF StatementInv
  <2> QED
    BY <2>1, <2>2, <2>3, <2>4, <2>5, <2>6, <2>7 DEF RowsNext
<1> QED
  BY <1>1, <1>2, PTL DEF RowsSpec

\* All that is stored and printed are bytes, and a key that was kept was told.
THEOREM RowsTypeCorrect == RowsSpec => []RowsTypeOK
<1>1. StatementInv => RowsTypeOK
  <2> SUFFICES ASSUME StatementInv PROVE RowsTypeOK
    OBVIOUS
  <2>1. \A i \in DOMAIN items : \A k \in items[i] : k \in Seq(Byte)
    <3>1. CASE known = {}
      <4>1. DOMAIN items = {}
        BY <3>1 DEF StatementInv, KnownOK
      <4> QED
        BY <4>1
    <3>2. CASE known # {}
      BY <3>2 DEF StatementInv, KnownOK, TableIs, ItemsOK, Bytes
    <3> QED
      BY <3>1, <3>2
  <2> QED
    BY <2>1 DEF StatementInv, KnownOK, StoredOK, RowsTypeOK, Bytes
<1> QED
  BY <1>1, RowsInvariant, PTL

\* Every line a SELECT prints is the row of a key some INSERT gave, whatever the
\* primary key of the table is.
THEOREM LinesAreRows == RowsSpec => []LinesWereInserted
<1>1. StatementInv => LinesWereInserted
  BY DEF StatementInv
<1> QED
  BY <1>1, RowsInvariant, PTL

\* With a primary key of one column, a SELECT finds every key that was accepted and
\* that its range covers, in order, with the numbers of the last INSERT for it: for
\* all numbers of one word, all statements and all bytes of uninitialised memory.
THEOREM SelectsShowInserts == RowsSpec => []SelectShowsInserts
<1>1. StatementInv => SelectShowsInserts
  BY DEF StatementInv
<1> QED
  BY <1>1, RowsInvariant, PTL

\* No INSERT leaves the indexes of a table with different rows.
THEOREM IndexesStayTogether == RowsSpec => []IndexesHoldTheSameKeys
<1>1. StatementInv => IndexesHoldTheSameKeys
  <2> SUFFICES ASSUME StatementInv, known # {}, Info.primary # 0, NEW i \in DOMAIN items
               PROVE  /\ Cardinality(items[i]) = Cardinality(items[Info.primary])
                      /\ \A p \in items[Info.primary] : \E k \in items[i] : IsSuffix(p, k)
    BY DEF IndexesHoldTheSameKeys
  <2>1. PICK info : info = Info /\ InfoOK(info) /\ ItemsOK(info)
    BY DEF StatementInv, KnownOK, TableIs
  <2>2. /\ Cardinality(items[i]) = Cardinality(items[info.primary])
        /\ \A p \in items[info.primary] : \E h \in Bytes : h \o p \in items[i]
    BY <2>1 DEF ItemsOK
  <2>3. items[info.primary] \subseteq Bytes
    BY <2>1, PrimaryColumns DEF ItemsOK
  <2>4. ASSUME NEW p \in items[info.primary] PROVE \E k \in items[i] : IsSuffix(p, k)
    <3>1. PICK h \in Bytes : h \o p \in items[i]
      BY <2>2
    <3>2. IsSuffix(p, h \o p)
      BY <2>3, <3>1, SuffixOf
    <3> QED
      BY <3>1, <3>2
  <2> QED
    BY <2>1, <2>2, <2>4
<1> QED
  BY <1>1, RowsInvariant, PTL

=============================================================================
