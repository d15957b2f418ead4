---------------------------- MODULE ChColumns -----------------------------
(***************************************************************************)
(* The columns of the ClickHouse client (ch/chschema): how the values of   *)
(* every column type are written to the wire and read back.                *)
(*                                                                         *)
(* A column type is a record: the kind of its scalars, what the kind needs *)
(* (width, sign, enum, precision), and depth, the number of Array( ) around *)
(* it.  The generated column types differ in nothing else.  The wire is a  *)
(* sequence of tokens [w, v]; a reader that asks for another width than    *)
(* the one that is there has lost its place in the stream.                 *)
(*                                                                         *)
(* Time is counted in tenths of a second since the epoch.  Numbers of the  *)
(* model fit into 31 bits: wider columns do not wrap.  Floats are kept as  *)
(* they are.                                                               *)
(***************************************************************************)
EXTENDS Integers, Sequences, SequencesExt

\* The zero time.Time.  (A pointer is a sequence of at most one value.)
ZeroTime == -1000000
TicksPerSecond == 10
secsInDay == 86400

Kind(k) == [k |-> k, bits |-> 0, signed |-> FALSE, prec |-> 0, enum |-> <<>>, nullable |-> FALSE, depth |-> 0]
Numeric(bits, signed) == [Kind("int") EXCEPT !.bits = bits, !.signed = signed]
Float(bits) == [Kind("float") EXCEPT !.bits = bits]
ArrayOf(col) == [col EXCEPT !.depth = col.depth + 1]

Int8Column == Numeric(8, TRUE)
ArrayInt8Column == ArrayOf(Int8Column)
ArrayArrayInt8Column == ArrayOf(ArrayInt8Column)
UInt8Column == Numeric(8, FALSE)
ArrayUInt8Column == ArrayOf(UInt8Column)
ArrayArrayUInt8Column == ArrayOf(ArrayUInt8Column)
Int16Column == Numeric(16, TRUE)
ArrayInt16Column == ArrayOf(Int16Column)
ArrayArrayInt16Column == ArrayOf(ArrayInt16Column)
UInt16Column == Numeric(16, FALSE)
ArrayUInt16Column == ArrayOf(UInt16Column)
ArrayArrayUInt16Column == ArrayOf(ArrayUInt16Column)
Int32Column == Numeric(32, TRUE)
ArrayInt32Column == ArrayOf(Int32Column)
ArrayArrayInt32Column == ArrayOf(ArrayInt32Column)
UInt32Column == Numeric(32, FALSE)
ArrayUInt32Column == ArrayOf(UInt32Column)
ArrayArrayUInt32Column == ArrayOf(ArrayUInt32Column)
Int64Column == Numeric(64, TRUE)
ArrayInt64Column == ArrayOf(Int64Column)
ArrayArrayInt64Column == ArrayOf(ArrayInt64Column)
UInt64Column == Numeric(64, FALSE)
ArrayUInt64Column == ArrayOf(UInt64Column)
ArrayArrayUInt64Column == ArrayOf(ArrayUInt64Column)
Float32Column == Float(32)
ArrayFloat32Column == ArrayOf(Float32Column)
ArrayArrayFloat32Column == ArrayOf(ArrayFloat32Column)
Float64Column == Float(64)
ArrayFloat64Column == ArrayOf(Float64Column)
ArrayArrayFloat64Column == ArrayOf(ArrayFloat64Column)
BoolColumn == Kind("bool")
ArrayBoolColumn == ArrayOf(BoolColumn)
ArrayArrayBoolColumn == ArrayOf(ArrayBoolColumn)
StringColumn == Kind("string")
ArrayStringColumn == ArrayOf(StringColumn)
ArrayArrayStringColumn == ArrayOf(ArrayStringColumn)
BytesColumn == Kind("string")
ArrayBytesColumn == ArrayOf(BytesColumn)
ArrayArrayBytesColumn == ArrayOf(ArrayBytesColumn)
DateTimeColumn == Kind("datetime")
ArrayDateTimeColumn == ArrayOf(DateTimeColumn)
ArrayArrayDateTimeColumn == ArrayOf(ArrayDateTimeColumn)
EnumColumn(enum) == [Kind("enum") EXCEPT !.enum = enum]
ArrayEnumColumn(enum) == ArrayOf(EnumColumn(enum))
ArrayArrayEnumColumn(enum) == ArrayOf(ArrayEnumColumn(enum))
UUIDColumn == Kind("uuid")
IPColumn == Kind("ip")
DateColumn == Kind("date")
TimeColumn == Kind("time")
DateTime64Column(prec) == [Kind("datetime64") EXCEPT !.prec = prec]
JSONColumn == Kind("json")
BFloat16HistColumn == Kind("hist")
LCStringColumn == Kind("lc")
ArrayLCStringColumn == ArrayOf(LCStringColumn)

\* NullableColumn: its Init does not initialise the column of the values, so
\* that a precision or an enumeration in its type is lost.  So they are inside
\* SimpleAggregateFunction( ), which only the columns of arrays take off.
Uninitialised(col) == [col EXCEPT !.prec = 0, !.enum = <<>>]
NullableColumn(col) == [Uninitialised(col) EXCEPT !.nullable = TRUE]

---------------------------------------------------------------------------
(* Types by name (ColumnFactory).  A type of the database is the pair of   *)
(* the wrappers around a name and the name.                                *)

scalarColumns ==
    [Int8 |-> Int8Column, Int16 |-> Int16Column, Int32 |-> Int32Column, Int64 |-> Int64Column,
     UInt8 |-> UInt8Column, UInt16 |-> UInt16Column, UInt32 |-> UInt32Column, UInt64 |-> UInt64Column,
     Float32 |-> Float32Column, Float64 |-> Float64Column, String |-> StringColumn,
     LowCardinality |-> LCStringColumn, Bool |-> BoolColumn, UUID |-> UUIDColumn,
     IPv6 |-> IPColumn, DateTime |-> DateTimeColumn, Date |-> DateColumn]

arrayColumns ==
    [Int8 |-> ArrayInt8Column, UInt8 |-> ArrayUInt8Column, Int16 |-> ArrayInt16Column,
     UInt16 |-> ArrayUInt16Column, Int32 |-> ArrayInt32Column, UInt32 |-> ArrayUInt32Column,
     Int64 |-> ArrayInt64Column, UInt64 |-> ArrayUInt64Column, Float32 |-> ArrayFloat32Column,
     Float64 |-> ArrayFloat64Column, String |-> ArrayStringColumn,
     LowCardinality |-> ArrayLCStringColumn, DateTime |-> ArrayDateTimeColumn, Bool |-> ArrayBoolColumn]

\* Array(Array(Bool)) is given the column of strings.
arrayArrayColumns ==
    [Int8 |-> ArrayArrayInt8Column, UInt8 |-> ArrayArrayUInt8Column, Int16 |-> ArrayArrayInt16Column,
     UInt16 |-> ArrayArrayUInt16Column, Int32 |-> ArrayArrayInt32Column,
     UInt32 |-> ArrayArrayUInt32Column, Int64 |-> ArrayArrayInt64Column,
     UInt64 |-> ArrayArrayUInt64Column, Float32 |-> ArrayArrayFloat32Column,
     Float64 |-> ArrayArrayFloat64Column, String |-> ArrayArrayStringColumn,
     DateTime |-> ArrayArrayDateTimeColumn, Bool |-> ArrayArrayStringColumn]

CHType(wrap, name) == [wrap |-> wrap, name |-> name, enum |-> <<>>, prec |-> 0]
Unsupported == Kind("unsupported")

RECURSIVE ColumnFactory(_)
ColumnFactory(type) ==
    CASE type.wrap = <<>> /\ type.name = "Enum8" -> EnumColumn(type.enum)
      [] type.wrap = <<>> /\ type.name = "DateTime64" -> DateTime64Column(type.prec)
      [] type.wrap = <<>> /\ type.name = "quantileBFloat16" -> BFloat16HistColumn
      [] type.wrap = <<>> /\ type.name \in DOMAIN scalarColumns -> scalarColumns[type.name]
      [] type.wrap = <<"Array">> /\ type.name = "Enum8" -> ArrayEnumColumn(type.enum)
      [] type.wrap = <<"Array">> /\ type.name \in DOMAIN arrayColumns -> arrayColumns[type.name]
      [] type.wrap = <<"Array", "Array">> /\ type.name \in DOMAIN arrayArrayColumns ->
            arrayArrayColumns[type.name]
      [] type.wrap # <<>> /\ type.wrap[1] = "Nullable" ->
            NullableColumn(ColumnFactory([type EXCEPT !.wrap = Tail(type.wrap)]))
      [] type.wrap # <<>> /\ type.wrap[1] = "SimpleAggregateFunction" ->
            LET col == ColumnFactory([type EXCEPT !.wrap = Tail(type.wrap)])
            IN  IF col.depth = 0 THEN Uninitialised(col) ELSE col
      [] OTHER -> Unsupported

---------------------------------------------------------------------------
(* Scalars. *)

Tok(w, v) == [w |-> w, v |-> v]

\* The conversion of AppendValue, int8(v.Int()) and its like.
Wrap(v, bits, signed) ==
    LET m == v % (2 ^ bits)
    IN  IF bits > 16 THEN v
        ELSE IF signed /\ m >= 2 ^ (bits - 1) THEN m - 2 ^ bits ELSE m

appendValue(col, v) == IF col.k = "int" THEN Wrap(v, col.bits, col.signed) ELSE v

unixTime(t) == IF t = ZeroTime THEN 0 ELSE t \div TicksPerSecond

\* Both halves of the bytes are turned around.
packUUID(b) == [i \in 1..16 |-> IF i <= 8 THEN b[9 - i] ELSE b[25 - i]]

\* _parseEnum: the words by number; a number without a word has the empty one.
\* An enumeration is given as the sequence of its [num, word].
dec(enum, n) == IF \E i \in DOMAIN enum : enum[i].num = n
                THEN enum[CHOOSE i \in DOMAIN enum : enum[i].num = n].word ELSE ""
Encode(enum, word) == IF \E i \in DOMAIN enum : enum[i].word = word
                      THEN enum[CHOOSE i \in DOMAIN enum : enum[i].word = word].num ELSE 0

pow10(n) == 10 ^ n

writeScalar(col, v) ==
    CASE col.k \in {"int", "float"} -> <<Tok(col.bits, v)>>
      [] col.k = "bool"     -> <<Tok(8, IF v THEN 1 ELSE 0)>>
      [] col.k \in {"string", "json"} -> <<Tok(0, v)>>
      [] col.k = "enum"     -> <<Tok(8, Encode(col.enum, v))>>
      [] col.k = "uuid"     -> <<Tok(128, packUUID(v))>>
      [] col.k = "ip"       -> <<Tok(128, IF v = <<>> THEN [i \in 1..16 |-> 0] ELSE v)>>
      [] col.k = "datetime" -> <<Tok(32, unixTime(v))>>
      [] col.k = "date"     -> <<Tok(16, unixTime(v) \div secsInDay)>>
      [] col.k = "time"     -> <<Tok(64, v)>>
      [] col.k = "datetime64" -> <<Tok(64, v \div pow10(1 - col.prec))>>
      [] col.k = "hist"     -> <<Tok(1, Len(v))>> \o
                               FlattenSeq([i \in DOMAIN v |-> <<Tok(16, v[i][1]), Tok(64, v[i][2])>>])

\* The value that reading answers for the tokens of one scalar.
widthOf(col) == CASE col.k \in {"int", "float"} -> col.bits
                  [] col.k \in {"bool", "enum"} -> 8
                  [] col.k \in {"string", "json"} -> 0
                  [] col.k \in {"uuid", "ip"} -> 128
                  [] col.k = "datetime" -> 32
                  [] col.k = "date" -> 16
                  [] col.k \in {"time", "datetime64"} -> 64

\* As readScalar, but no seconds are not the zero time.
readScalarEpoch(col, n) ==
    CASE col.k = "bool"     -> n = 1
      [] col.k = "enum"     -> dec(col.enum, n)
      [] col.k = "uuid"     -> packUUID(n)
      [] col.k = "datetime" -> n * TicksPerSecond
      [] col.k = "date"     -> n * secsInDay * TicksPerSecond
      [] col.k = "datetime64" -> n * pow10(1 - col.prec)
      [] OTHER -> n

readScalar(col, n) ==
    CASE col.k = "bool"     -> n = 1
      [] col.k = "enum"     -> dec(col.enum, n)
      [] col.k = "uuid"     -> packUUID(n)
      [] col.k = "datetime" -> IF n = 0 THEN ZeroTime ELSE n * TicksPerSecond
      [] col.k = "date"     -> IF n = 0 THEN ZeroTime ELSE n * secsInDay * TicksPerSecond
      [] col.k = "datetime64" -> n * pow10(1 - col.prec)
      [] OTHER -> n
===========================================================================
