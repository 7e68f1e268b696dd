---------------------------- MODULE MCStreaming ----------------------------
(* Tables with every type of column, and rows on the edges of the types. *)
EXTENDS Streaming

Num(n) == <<"int", n>>
Str(s) == <<"str", s>>
Uuid(n) == <<"uuid", [i \in 1 .. 16 |-> n + i]>>

\* Narrow stand-ins for 8, 16, 32 and 64 bits.
Widths == [tinyint |-> 2, smallint |-> 3, int |-> 4, bigint |-> 5]

Cols(types) == [i \in DOMAIN types |-> Column(types[i])]
Table(keys, cols, stream, limit, rows) ==
  [keys |-> keys, cols |-> cols, stream |-> stream, raw |-> FALSE, calls |-> limit, rows |-> rows]

\* Integers that fit, wrap and do not fit; a null.
Numbers ==
  Table(Cols(<<"tinyint">>), Cols(<<"smallint", "int", "bigint">>), FALSE, 3,
        {<<<<Num(1)>>, <<Num(3), Num(7), Num(-16)>>>>,
         <<<<Num(1)>>, <<None, Num(-8), Num(16)>>>>,
         <<<<Num(-3)>>, <<Num(-4), Num(0), Num(15)>>>>})

\* Text, which never hits the cache, and floating point.
Texts ==
  Table(Cols(<<"text">>), Cols(<<"text", "float", "double", "boolean">>), FALSE, 3,
        {<<<<Str(<<1, 2>>)>>, <<Str(<<>>), <<"float", 4>>, <<"float", 5>>, <<"bool", TRUE>>>>>>,
         <<<<Str(<<1>>)>>, <<Str(<<1, NUL, 2>>), <<"float", 5>>, None, <<"bool", FALSE>>>>>>})

\* Times, identifiers and bytes, and a tuple of them.
Times ==
  Table(Cols(<<"int">>),
        Cols(<<"timestamp", "date", "time", "uuid", "blob">>)
          \o <<TupleColumn(<<"date", "uuid", "text">>)>>, FALSE, 3,
        {<<<<Num(1)>>, <<<<"datetime", 7200, 0>>, <<"date", 3>>, <<"time", 5>>, Uuid(0), None,
                         <<"tuple", <<<<"date", -2>>, Uuid(16), Str(<<3>>)>>>>>>>>,
         <<<<Num(1)>>, <<<<"datetime", 10, 5>>, <<"date", -1>>, None, None, <<"bytearray", <<7>>>>,
                         <<"tuple", <<None, None, Str(<<>>)>>>>>>>>,
         <<<<Num(1)>>, <<<<"float", -3>>, None, None, None, None, <<"tuple", <<Str(<<1>>)>>>>>>>>})

\* hecuba.istorage: the description of an array.
Istorage ==
  [keys |-> Cols(<<"uuid">>), cols |-> Cols(<<"text", "udt">>), stream |-> FALSE, raw |-> TRUE, calls |-> 2,
   rows |-> {<<<<Uuid(0)>>, <<<<"text", <<1>>>>, <<"udt", <<1, 2, 3, 4, 5, 6, 7, 8, 9>>>>>>>>,
             <<<<Uuid(1)>>, <<<<"text", <<2>>>>, <<"udt", <<1, 2, 3, 4, 5, 6, 7>>>>>>>>}]

\* Streams: one key and a last column that may be null, and a key of two columns.
Stream ==
  Table(Cols(<<"int">>), Cols(<<"text", "tinyint">>), TRUE, 3,
        {<<<<Num(1)>>, <<Str(<<1>>), Num(1)>>>>, <<<<Num(1)>>, <<Str(<<2, 3>>), None>>>>})

TwoKeys ==
  Table(Cols(<<"smallint", "text">>), Cols(<<"uuid">>), TRUE, 2,
        {<<<<Num(1), Str(<<>>)>>, <<Uuid(0)>>>>, <<<<Num(1), Str(<<4>>)>>, <<None>>>>})

\* More columns than a byte has flags; the second row has a null that is not last.
Wide ==
  Table(Cols(<<"tinyint">>), [i \in 1 .. 9 |-> Column("boolean")], TRUE, 2,
        {<<<<Num(1)>>, [i \in 1 .. 9 |-> IF i >= 8 THEN None ELSE <<"bool", TRUE>>]>>,
         <<<<Num(0)>>, [i \in 1 .. 9 |-> IF i = 2 THEN None ELSE <<"bool", i = 3>>]>>})

AllTables == {Numbers, Texts, Times, Istorage, Stream, TwoKeys, Wide}
=============================================================================
