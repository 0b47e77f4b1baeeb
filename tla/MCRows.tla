------------------------------- MODULE MCRows -------------------------------
(* Tables with a key of one and of two columns, in both orders, with and without
   a second index, without a key, and with a key that does not exist. *)
EXTENDS Rows

Index(type, cols) == [type |-> type, cols |-> cols]

Create(c1, c2, indexes) == [columns |-> <<c1, c2>>, indexes |-> indexes]

MCCreateStmts ==
  {Create("LONGLONG", "LONGLONG", <<Index("PRIMARY", <<1>>)>>),
   Create("SHORT", "STRING", <<Index("INDEX", <<1>>), Index("PRIMARY", <<2>>)>>),
   Create("LONGLONG", "LONGLONG", <<Index("PRIMARY", <<1, 2>>)>>),
   Create("LONGLONG", "LONGLONG", <<Index("INDEX", <<1>>)>>),
   Create("LONGLONG", "LONGLONG", <<Index("PRIMARY", <<3>>)>>)}

Literal(u) == [kind |-> "int", u |-> u]

Other(kind) == [kind |-> kind]

\* Records as long as the table is wide, too short and too long, and lists of two,
\* with the same key or with different ones.  9 and 10 are in different order as
\* numbers and as text; the largest Int64 is outside of every range; the largest
\* UInt64 is read as -1.
MCInsertStmts ==
  {<<<<a, b>>>> : a \in {Literal(u) : u \in {9, 10, 32767, 65535}} \cup {Other("null")},
                b \in {Literal(10), Other("null")}}
    \cup {<<<<>>>>, <<<<Other("string")>>>>, <<<<Literal(9), Literal(9), Literal(9)>>>>}
    \cup [1 .. 2 -> {<<Literal(9), Literal(10)>>, <<Literal(10), Literal(9)>>, <<Literal(10)>>}]

=============================================================================
