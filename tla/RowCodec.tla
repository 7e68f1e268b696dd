------------------------------ MODULE RowCodec ------------------------------
(***************************************************************************)
(* The forms of a row: a Python list, a TupleRow in memory, the cells of a *)
(* row of Cassandra, and the bytes of a Kafka message; and the code that   *)
(* turns each into the next (PythonParser, UnitParser, TableMetadata,      *)
(* TupleRow, TupleRowFactory).                                             *)
(*                                                                         *)
(* A value is a tuple <<kind, content>>, in Python as in C.  A byte is     *)
(* <<v, i, n>>: byte i of the n bytes of the value v.  "text" stands for   *)
(* varchar and ascii too, "bigint" for varint.  Vectors are sequences: the *)
(* code's index i is i + 1 here.                                           *)
(***************************************************************************)
EXTENDS Integers, Sequences, SequencesExt

CONSTANTS Bits,       \* width of each integer type
          ZoneNow,    \* offset of local time from UTC in seconds, at the dates in use ...
          ZoneEpoch   \* ... and on 1 January 1970

ASSUME CodecAssumption ==
  /\ DOMAIN Bits = {"tinyint", "smallint", "int", "bigint"}
  /\ \A t \in DOMAIN Bits : Bits[t] \in Nat \ {0}
  /\ Bits.tinyint < Bits.smallint /\ Bits.smallint < Bits.int /\ Bits.int < Bits.bigint
  /\ ZoneNow \in Int /\ ZoneEpoch \in Int

None == <<"none">>          \* Python's None
Null == <<"null">>          \* a column without a value
Raise == <<"raise">>        \* an exception
Garbage == <<"garbage">>    \* what undefined behaviour leaves

-----------------------------------------------------------------------------
(* Columns.                                                                *)

Column(type) == [type |-> type, pointer |-> <<>>]
TupleColumn(types) ==
  [type |-> "tuple", pointer |-> [i \in DOMAIN types |-> Column(types[i])]]

compute_size_of(col) ==
  CASE col.type \in {"bigint", "double", "date", "time", "timestamp"} -> 8
    [] col.type \in {"text", "blob", "uuid", "tuple", "udt"} -> 8   \* a pointer
    [] col.type \in {"int", "float", "counter"} -> 4
    [] col.type = "smallint" -> 2
    [] col.type \in {"tinyint", "boolean"} -> 1
    [] OTHER -> 0

\* The columns whose bytes in the row are the address of their value.
IsPointer(col) == col.type \in {"text", "blob", "uuid", "tuple", "udt"}

SizeOf(cols) == FoldLeft(LAMBDA n, col : n + compute_size_of(col), 0, cols)
position(cols, i) == SizeOf(SubSeq(cols, 1, i - 1))
items(table) == table.keys \o table.cols

-----------------------------------------------------------------------------
(* Conversions between Python and C, one operator per parser.              *)

\* Two's complement.
Fits(n, type) == -(2 ^ (Bits[type] - 1)) <= n /\ n < 2 ^ (Bits[type] - 1)
Wrap(n, type) == ((n + 2 ^ (Bits[type] - 1)) % (2 ^ Bits[type])) - 2 ^ (Bits[type] - 1)

\* A Python bool is an int.
PyLong(v) == v[1] \in {"int", "bool"}
AsLong(v) == IF v[1] = "int" THEN v[2] ELSE IF v[2] THEN 1 ELSE 0

\* Floating point numbers count units of 1/2; single precision keeps whole numbers.
Unit == 2
AsDouble(v) == IF v[1] = "float" THEN v[2] ELSE AsLong(v) * Unit
Single(x) == x - (x % Unit)

\* A C string ends at the first NUL.
NUL == 0
CString(s) == LET n == SelectInSeq(s, LAMBDA c : c = NUL)
              IN IF n = 0 THEN s ELSE SubSeq(s, 1, n - 1)

\* C division, towards zero.
Quotient(a, b) == IF a >= 0 THEN a \div b ELSE -((-a) \div b)

\* Seconds since the epoch of a local broken-down time (external).
mktime(seconds) == seconds - ZoneNow
timezone == ZoneEpoch
DAY == 86400

BoolParser_to_c(v) == IF v[1] = "bool" THEN v ELSE Raise

\* The number is parsed as a short, and its low byte kept.
Int8Parser_to_c(v) ==
  IF PyLong(v) /\ Fits(AsLong(v), "smallint") THEN <<"int", Wrap(AsLong(v), "tinyint")>> ELSE Raise

Int16Parser_to_c(v) ==
  IF PyLong(v) /\ Fits(AsLong(v), "smallint") THEN <<"int", AsLong(v)>> ELSE Raise

Int32Parser_to_c(v) ==
  IF PyLong(v) /\ Fits(AsLong(v), "int") THEN <<"int", AsLong(v)>> ELSE Raise

\* PyArg_Parse returns 0 for a number that does not fit; the code tests for less than 0.
Int64Parser_to_c(v) ==
  IF ~PyLong(v) THEN Raise
  ELSE IF Fits(AsLong(v), "bigint") THEN <<"int", AsLong(v)>> ELSE Garbage

DoubleParser_to_c(v, isFloat) ==
  IF v[1] # "float" /\ ~PyLong(v) THEN Raise
  ELSE <<"float", IF isFloat THEN Single(AsDouble(v)) ELSE AsDouble(v)>>

TextParser_to_c(v) == IF v[1] = "str" THEN <<"text", v[2]>> ELSE Raise
TextParser_to_py(c) == <<"str", CString(c[2])>>

\* A datetime loses its microseconds; a number of seconds is moved to local time.
TimestampParser_to_c(v) ==
  LET seconds == IF v[1] = "datetime" THEN mktime(v[2]) ELSE Quotient(AsDouble(v), Unit)
  IN IF v[1] \notin {"datetime", "float"} /\ ~PyLong(v) THEN Raise
     ELSE IF v[1] = "datetime" /\ seconds = -1 THEN Raise
     ELSE <<"int", (seconds + timezone) * 1000>>
TimestampParser_to_py(c) == <<"datetime", Quotient(c[2], 1000), 0>>

DateParser_to_c(v) ==
  IF v[1] # "date" \/ mktime(v[2] * DAY) = -1 THEN Raise
  ELSE <<"int", mktime(v[2] * DAY) + timezone>>
DateParser_to_py(c) == <<"date", c[2] \div DAY>>

\* Microseconds in Python, nanoseconds in the row.
TimeParser_to_c(v) == IF v[1] = "time" THEN <<"int", v[2] * 1000>> ELSE Raise
TimeParser_to_py(c) == <<"time", Quotient(c[2], 1000)>>

\* In memory the bytes follow their number, eight bytes with the lowest first; c_to_py
\* reads from there and takes it for a string.
BytesParser_to_c(v) == IF v[1] = "bytearray" THEN <<"blob", v[2]>> ELSE Raise
BytesParser_to_py(c) ==
  <<"str", CString(<<Len(c[2]), NUL, NUL, NUL, NUL, NUL, NUL, NUL>> \o c[2])>>

UuidParser_to_c(v) == IF v[1] = "uuid" THEN v ELSE Raise

\* The parser of a column without tuples; UnitParser refuses the other types.
ParserTypes == {"boolean", "tinyint", "smallint", "int", "bigint", "float", "double", "text",
                "timestamp", "date", "time", "blob", "uuid"}

to_c(type, v) ==
  CASE type = "boolean" -> BoolParser_to_c(v)
    [] type = "tinyint" -> Int8Parser_to_c(v)
    [] type = "smallint" -> Int16Parser_to_c(v)
    [] type = "int" -> Int32Parser_to_c(v)
    [] type = "bigint" -> Int64Parser_to_c(v)
    [] type \in {"float", "double"} -> DoubleParser_to_c(v, type = "float")
    [] type = "text" -> TextParser_to_c(v)
    [] type = "timestamp" -> TimestampParser_to_c(v)
    [] type = "date" -> DateParser_to_c(v)
    [] type = "time" -> TimeParser_to_c(v)
    [] type = "blob" -> BytesParser_to_c(v)
    [] type = "uuid" -> UuidParser_to_c(v)
    [] OTHER -> Raise

to_py(type, c) ==
  CASE c = Garbage -> Garbage
    [] type = "text" -> TextParser_to_py(c)
    [] type = "timestamp" -> TimestampParser_to_py(c)
    [] type = "date" -> DateParser_to_py(c)
    [] type = "time" -> TimeParser_to_py(c)
    [] type = "blob" -> BytesParser_to_py(c)
    [] type \in ParserTypes -> c
    [] OTHER -> Raise

\* A tuple is a row of its own.  An element of a type without a parser is left unset.
TupleParser_to_c(col, v) ==
  IF v[1] # "tuple" \/ Len(v[2]) # Len(col.pointer) THEN Raise
  ELSE LET elements == [i \in DOMAIN v[2] |->
                          IF v[2][i] = None THEN Null
                          ELSE IF col.pointer[i].type \in ParserTypes
                               THEN to_c(col.pointer[i].type, v[2][i]) ELSE Garbage]
       IN IF Contains(elements, Raise) THEN Raise ELSE <<"row", elements>>

\* A double in a tuple can be written, not read.
TupleParser_to_py(col, c) ==
  LET Element(i) == IF c[2][i] = Null THEN None
                    ELSE IF col.pointer[i].type = "double" THEN Raise
                    ELSE IF col.pointer[i].type \in ParserTypes
                         THEN to_py(col.pointer[i].type, c[2][i]) ELSE Garbage
      elements == [i \in DOMAIN c[2] |-> Element(i)]
  IN IF c = Garbage THEN Garbage
     ELSE IF Contains(elements, Raise) THEN Raise ELSE <<"tuple", elements>>

py_to_c(col, v) ==
  IF col.type = "tuple" THEN TupleParser_to_c(col, v)
  ELSE IF v = None THEN (IF col.type \in ParserTypes THEN Null ELSE Raise)
  ELSE to_c(col.type, v)

c_to_py(col, c) == IF col.type = "tuple" THEN TupleParser_to_py(col, c) ELSE to_py(col.type, c)

-----------------------------------------------------------------------------
(* A TupleRow: the bytes of its columns, the columns that are null, and    *)
(* the length of the vector the null flags are kept in.                    *)

Bytes(v, n) == [i \in 1 .. n |-> <<v, i, n>>]

\* The value in n bytes, if it was stored in just these.
Load(data, at, n) ==
  IF n > 0 /\ at + n <= Len(data) /\ SubSeq(data, at + 1, at + n) = Bytes(data[at + 1][1], n)
  THEN data[at + 1][1] ELSE Garbage

NullWords(cols) == (Len(cols) + 31) \div 32

make_tuple(cols, elements) ==
  [data |-> FlattenSeq([i \in DOMAIN cols |->
              Bytes(IF elements[i] = Null THEN Garbage ELSE elements[i],
                    compute_size_of(cols[i]))]),
   nulls |-> {i \in DOMAIN cols : elements[i] = Null},
   words |-> NullWords(cols)]

get_element(cols, row, i) ==
  IF i \in row.nulls THEN Null
  ELSE Load(row.data, position(cols, i), compute_size_of(cols[i]))

\* PythonParser::make_tuple and make_pylist.
Elements(cols, list) == [i \in DOMAIN cols |-> py_to_c(cols[i], list[i])]
Parses(cols, list) == Len(list) = Len(cols) /\ ~Contains(Elements(cols, list), Raise)
make_pylist(cols, row) ==
  [i \in DOMAIN cols |-> IF i \in row.nulls THEN None
                         ELSE c_to_py(cols[i], get_element(cols, row, i))]

\* TupleRowData::operator==.  The rows are built one by one, so two equal values of a
\* pointer column are at different addresses.
SameRow(cols, a, b) ==
  /\ a.words = b.words
  /\ a.nulls = b.nulls
  /\ a.data = b.data
  /\ \A i \in DOMAIN cols : IsPointer(cols[i]) => i \in a.nulls

-----------------------------------------------------------------------------
(* Cassandra: binding the columns of a row to a statement, and reading the *)
(* cells of a result.                                                      *)

\* Byte i of a CassUuid is byte Recode[i] of the RFC 4122 one, and vice versa.
Recode == <<4, 3, 2, 1, 6, 5, 8, 7, 16, 15, 14, 13, 12, 11, 10, 9>>

\* A plausible bug: the fields keep the byte order of RFC 4122.
uuid2cassuuid_plain(b) == b

uuid2cassuuid(b) == [i \in 1 .. 16 |-> b[Recode[i]]]
cassuuid2uuid(b) == [i \in 1 .. 16 |-> b[Recode[i]]]

\* A date of Cassandra is a number of days (external).
cass_date_from_epoch(seconds) == Quotient(seconds, DAY)
cass_date_time_to_epoch(day) == day * DAY

bind_value(type, c) ==
  CASE c = Garbage -> Garbage
    [] type = "text" -> <<"text", CString(c[2])>>
    [] type = "uuid" -> <<"uuid", uuid2cassuuid(c[2])>>
    [] type = "date" -> <<"date", cass_date_from_epoch(c[2])>>
    [] OTHER -> c

\* In a tuple a blob is bound as the number that is its address, and a boolean as one of
\* eight bytes, which the server refuses.
bind_tuple(col, c) ==
  IF c = Garbage THEN Garbage
  ELSE IF \E i \in DOMAIN c[2] : col.pointer[i].type = "boolean" /\ c[2][i] # Null THEN Raise
  ELSE <<"row", [i \in DOMAIN c[2] |->
                   IF c[2][i] = Null THEN Null
                   ELSE IF col.pointer[i].type = "blob" THEN Garbage
                   ELSE bind_value(col.pointer[i].type, c[2][i])]>>

\* The description of an array, as ArrayMetadata lays it out: five fields, then as many
\* dims as strides.
NpFields == 5
bind_udt(c) ==
  LET remain == Len(c[2]) - NpFields
      nelems == remain \div 2
  IN IF remain <= 0 \/ remain % 2 # 0 THEN Raise
     ELSE <<"np_meta", [fields |-> SubSeq(c[2], 1, NpFields),
                        dims |-> SubSeq(c[2], NpFields + 1, NpFields + nelems),
                        strides |-> SubSeq(c[2], NpFields + nelems + 1, Len(c[2]))]>>

setArrayMetadataField(meta) == meta.fields \o meta.dims \o meta.strides

bind(cols, row) ==
  [i \in DOMAIN cols |->
     LET c == get_element(cols, row, i)
     IN CASE c = Null -> Null
          [] c # Null /\ cols[i].type = "tuple" -> bind_tuple(cols[i], c)
          [] c # Null /\ cols[i].type = "udt" -> bind_udt(c)
          [] OTHER -> bind_value(cols[i].type, c)]

cell_to_c(type, cell) ==
  CASE cell \in {Null, Garbage} -> cell
    [] type = "uuid" -> <<"uuid", cassuuid2uuid(cell[2])>>
    [] type = "date" -> <<"int", cass_date_time_to_epoch(cell[2])>>
    [] OTHER -> cell

cass_to_c(col, cell) ==
  CASE cell = Null /\ col.type = "tuple" -> Raise
    [] cell # Null /\ cell # Garbage /\ col.type = "tuple" ->
         <<"row", [i \in DOMAIN cell[2] |-> cell_to_c(col.pointer[i].type, cell[2][i])]>>
    [] cell # Null /\ col.type = "udt" -> <<"udt", setArrayMetadataField(cell[2])>>
    [] OTHER -> cell_to_c(col.type, cell)

-----------------------------------------------------------------------------
(* Kafka: a message holds the null flags and the values that are not null. *)

\* The types whose values encode and decode handle; the others make one of them follow
\* an address that is none, or (tuple) leave a payload where a row is expected.
Streamable(col) == col.type \in {"boolean", "tinyint", "smallint", "int", "bigint", "float",
                                 "double", "text", "uuid"}

content_size(col, c) ==
  CASE col.type = "text" /\ c # Garbage -> Len(CString(c[2])) + 1
    [] col.type = "text" /\ c = Garbage -> 1
    [] col.type = "uuid" -> 16
    [] OTHER -> compute_size_of(col)

get_content_size(cols, row) ==
  FoldLeft(LAMBDA n, i : n + IF i \in row.nulls THEN 0
                             ELSE content_size(cols[i], get_element(cols, row, i)),
           0, [i \in DOMAIN cols |-> i])

NullBytes(cols) == 4 * NullWords(cols)

\* std::copy puts each word of the flags in one byte; the other bytes are not set.
encode(cols, row) ==
  [i \in 1 .. NullBytes(cols) |->
     IF i <= NullWords(cols) THEN <<<<"flags", {j \in row.nulls : j - (32 * (i - 1)) \in 1 .. 8}>>, 1, 1>>
     ELSE <<Garbage, 1, 1>>]
  \o FlattenSeq([i \in DOMAIN cols |->
       LET c == get_element(cols, row, i)
       IN IF c = Null THEN <<>> ELSE Bytes(c, content_size(cols[i], c))])

\* Each byte becomes a word, its sign extended: the eighth flag stands for those after it,
\* too.  The values are put one after the other, null columns taking no room.
decode(cols, buffer) ==
  LET Flags(w) == IF buffer[w][1] = Garbage THEN {} ELSE buffer[w][1][2]
      IsNull(i) == LET w == ((i - 1) \div 32) + 1
                   IN i \in Flags(w) \/ (i - (32 * (w - 1)) > 8 /\ (32 * (w - 1)) + 8 \in Flags(w))
      At(at) == IF at < Len(buffer) THEN buffer[at + 1][1] ELSE Garbage
      Take(acc, i) ==
        IF IsNull(i) THEN acc
        ELSE LET n == IF cols[i].type # "text" THEN content_size(cols[i], Garbage)
                      ELSE content_size(cols[i], IF At(acc.at)[1] = "text" THEN At(acc.at) ELSE Garbage)
             IN [at |-> acc.at + n,
                 data |-> acc.data \o Bytes(Load(buffer, acc.at, n), compute_size_of(cols[i]))]
      read == FoldLeft(Take, [at |-> NullBytes(cols), data |-> <<>>], [i \in DOMAIN cols |-> i])
  IN [data |-> read.data \o Bytes(Garbage, SizeOf(cols) - Len(read.data)),
      nulls |-> {i \in DOMAIN cols : IsNull(i)},
      words |-> NullBytes(cols)]
=============================================================================
