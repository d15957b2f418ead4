---------------------------- MODULE ChSession -----------------------------
(***************************************************************************)
(* One connection of the ClickHouse client at work: an insert and then a   *)
(* select of the same column, packet by packet (ch/proto.go, query_base.go, *)
(* chschema/block.go and the reading of columns).                          *)
(*                                                                         *)
(* The columns of a query are reused for all its blocks, and so is their   *)
(* memory: the model keeps the slices of Go.  A cell of a buffer holds a   *)
(* scalar or a slice [buf, from, to] of another buffer; level 1 of a       *)
(* column is the column itself and the next ones its elements.             *)
(*                                                                         *)
(* The server stores what it decodes from the wire and sends it again in   *)
(* blocks of any size.                                                     *)
(***************************************************************************)
EXTENDS ChColumns, FiniteSets

CONSTANTS
    Types,        \* types of the column
    Inputs(_),    \* the values of a type an application may insert
    MaxRows,      \* bound on the rows of an insert
    MaxPackets,   \* bound on the packets of an answer that carry no rows
    KeyRange      \* how many keys of a dictionary fit into the shortest index

VARIABLES
    phase,      \* "idle", "stored", "rejected" (by the server), "reading", "done", "failed",
                \* "lost" (a column could not be read) or "panic" (of the client)
    type, input,\* what was inserted
    table,      \* the server: rows as the wire values of their scalars
    sent,       \* how many rows the server has sent
    how,        \* who reads: a model of "rows", one of "columns", a "map" of columns, or "exec"
    memory,     \* the [heap, mem] of the block of the query
    rows,       \* rows scanned so far, each as the cell the model keeps
    fresh,      \* how many of them are of the last block
    others,     \* packets without rows so far
    affected    \* result.affected

vars == <<phase, type, input, table, sent, how, memory, rows, fresh, others, affected>>

column == ColumnFactory(type)

\* An enumeration whose words are not known to the column.
noWords == column.k = "enum" /\ column.enum = <<>>

---------------------------------------------------------------------------
(* Writing. *)

RECURSIVE Running(_, _)
Running(cells, offset) ==
    IF cells = <<>> THEN <<>>
    ELSE <<Tok(64, offset + Len(cells[1]))>> \o Running(Tail(cells), offset + Len(cells[1]))

\* The offsets of one level after the other; those of an inner level go on
\* from one element to the next.
RECURSIVE writeOffset(_, _)
writeOffset(cells, depth) ==
    IF depth = 0 THEN <<>> ELSE Running(cells, 0) \o writeOffset(FlattenSeq(cells), depth - 1)

RECURSIVE flatten(_, _)
flatten(cells, depth) == IF depth = 0 THEN cells ELSE flatten(FlattenSeq(cells), depth - 1)

writeScalars(col, cells) == FlattenSeq([i \in DOMAIN cells |-> writeScalar(col, cells[i])])

\* lowCard: the words in the order of their first use.
RECURSIVE dictOf(_)
dictOf(words) ==
    IF words = <<>> THEN <<>>
    ELSE LET before == dictOf(Front(words))
             word == Last(words)
         IN  IF \E i \in DOMAIN before : before[i] = word THEN before ELSE Append(before, word)

\* As newLCKey, but a dictionary that is one word too long.
newLCKeyLong(numKey) == IF numKey <= KeyRange + 1 THEN 8 ELSE 16

newLCKey(numKey) == IF numKey <= KeyRange - 1 THEN 8 ELSE 16
keyOf(dict, word) == (CHOOSE i \in DOMAIN dict : dict[i] = word) - 1
lcWrap(key, width) == IF width = 8 THEN key % KeyRange ELSE key

\* LCStringColumn.writeData
writeDict(words) ==
    LET dict == dictOf(words)
        width == newLCKey(Len(dict))
    IN  IF words = <<>> THEN <<>>
        ELSE <<Tok(64, width), Tok(64, Len(dict))>> \o [i \in DOMAIN dict |-> Tok(0, dict[i])]
             \o <<Tok(64, Len(words))>>
             \o [i \in DOMAIN words |-> Tok(width, lcWrap(keyOf(dict, words[i]), width))]

lcVersion == Tok(64, 1)

\* An array of words writes a dictionary for each of its rows.
writeLC(cells, depth) ==
    <<lcVersion>> \o IF depth = 0 THEN writeDict(cells)
                     ELSE writeOffset(cells, 1) \o FlattenSeq([i \in DOMAIN cells |-> writeDict(cells[i])])

zeroOf(col) == CASE col.k = "bool" -> FALSE
                 [] col.k = "datetime" -> ZeroTime
                 [] col.k \in {"string", "enum"} -> ""
                 [] OTHER -> 0

WriteTo(col, cells) ==
    LET vals == [i \in DOMAIN cells |-> IF cells[i] = <<>> THEN zeroOf(col) ELSE cells[i][1]]
        nulls == [i \in DOMAIN cells |-> Tok(8, IF cells[i] = <<>> THEN 1 ELSE 0)]
    IN  CASE col.nullable  -> nulls \o writeScalars(col, vals)
          [] ~col.nullable /\ col.k = "lc" -> writeLC(cells, col.depth)
          [] ~col.nullable /\ col.k # "lc" ->
                writeOffset(cells, col.depth) \o writeScalars(col, flatten(cells, col.depth))

nesting(col) == IF col.nullable THEN 1 ELSE col.depth

\* AppendValue: a number is converted to the type of the column, that of a
\* pointer too; the type of an array is already the column's.
converted(col, v) == IF col.depth > 0 THEN v
                     ELSE IF col.nullable THEN [i \in DOMAIN v |-> appendValue(col, v[i])]
                     ELSE appendValue(col, v)

\* The block of an insert: AppendValue for every row, then Block.WriteTo.
blockTokens(col, vs) == WriteTo(col, [i \in DOMAIN vs |-> converted(col, vs[i])])

---------------------------------------------------------------------------
(* The server (external): the type as it is, rows as wire values. *)

trueColumn(t) ==
    LET base == ColumnFactory([t EXCEPT !.wrap = <<>>])
    IN  [base EXCEPT !.depth = Len(SelectSeq(t.wrap, LAMBDA w : w = "Array")),
                     !.nullable = "Nullable" \in ToSet(t.wrap)]

\* n scalars from position pos: [ok, vals, pos].
RECURSIVE takeScalars(_, _, _, _)
takeScalars(col, toks, pos, n) ==
    LET one == IF col.k = "hist" THEN 1 + 2 * toks[pos].v ELSE 1
        rest == takeScalars(col, toks, pos + one, n - 1)
        here == pos <= Len(toks) /\ (col.k = "hist" \/ toks[pos].w = widthOf(col))
        v == IF col.k = "hist"
             THEN [i \in 1..toks[pos].v |-> <<toks[pos + 2 * i - 1].v, toks[pos + 2 * i].v>>]
             ELSE toks[pos].v
    IN  IF n = 0 THEN [ok |-> TRUE, vals |-> <<>>, pos |-> pos]
        ELSE IF ~here \/ ~rest.ok THEN [ok |-> FALSE, vals |-> <<>>, pos |-> pos]
        ELSE [ok |-> TRUE, vals |-> <<v>> \o rest.vals, pos |-> rest.pos]

offsetsAt(toks, pos, n) ==
    [ok |-> pos + n - 1 <= Len(toks) /\ \A i \in 0..n - 1 : toks[pos + i].w = 64,
     at |-> [i \in 0..n |-> IF i = 0 THEN 0 ELSE toks[pos + i - 1].v]]

\* Dictionaries follow one another until there are n words.
RECURSIVE takeWords(_, _, _)
takeWords(toks, pos, n) ==
    LET width == toks[pos].v
        size == toks[pos + 1].v
        keysAt == pos + 2 + size
        count == toks[keysAt].v
        words == [i \in 1..count |-> toks[pos + 2 + toks[keysAt + i].v].v]
        rest == takeWords(toks, keysAt + count + 1, n - count)
        here == pos + 1 <= Len(toks) /\ toks[pos].w = 64 /\ toks[pos + 1].w = 64
    IN  IF n = 0 THEN [ok |-> TRUE, vals |-> <<>>, pos |-> pos]
        ELSE IF ~here \/ count > n \/ ~rest.ok THEN [ok |-> FALSE, vals |-> <<>>, pos |-> pos]
        ELSE [ok |-> TRUE, vals |-> words \o rest.vals, pos |-> rest.pos]

RECURSIVE decodeCells(_, _, _, _, _)
decodeCells(col, depth, toks, pos, n) ==
    LET offsets == offsetsAt(toks, pos, n)
        total == offsets.at[n]
        elems == decodeCells(col, depth - 1, toks, pos + n, total)
    IN  IF depth = 0
        THEN IF col.k = "lc" THEN takeWords(toks, pos, n) ELSE takeScalars(col, toks, pos, n)
        ELSE IF ~offsets.ok \/ ~elems.ok THEN [ok |-> FALSE, vals |-> <<>>, pos |-> pos]
        ELSE [elems EXCEPT !.vals = [i \in 1..n |-> SubSeq(elems.vals, offsets.at[i - 1] + 1, offsets.at[i])]]

\* The rows of a block, "ok" if the tokens are exactly theirs.
decode(col, toks, n) ==
    LET nulls == takeScalars(UInt8Column, toks, 1, n)
        vals == takeScalars([col EXCEPT !.nullable = FALSE], toks, nulls.pos, n)
        start == IF col.k = "lc" THEN 2 ELSE 1
        cells == decodeCells(col, col.depth, toks, start, n)
    IN  IF n = 0 THEN [ok |-> toks = <<>>, vals |-> <<>>]
        ELSE IF col.nullable
        THEN [ok |-> nulls.ok /\ vals.ok /\ vals.pos = Len(toks) + 1,
              vals |-> [i \in 1..n |-> IF nulls.vals[i] = 1 THEN <<>> ELSE <<vals.vals[i]>>]]
        ELSE [ok |-> cells.ok /\ cells.pos = Len(toks) + 1, vals |-> cells.vals]

sendScalars(col, raws) ==
    FlattenSeq([i \in DOMAIN raws |->
        IF col.k = "hist" THEN writeScalar(col, raws[i]) ELSE <<Tok(widthOf(col), raws[i])>>])

sendWords(words) ==
    LET dict == dictOf(words)
    IN  IF words = <<>> THEN <<>>
        ELSE <<Tok(64, 16), Tok(64, Len(dict))>> \o [i \in DOMAIN dict |-> Tok(0, dict[i])]
             \o <<Tok(64, Len(words))>> \o [i \in DOMAIN words |-> Tok(16, keyOf(dict, words[i]))]

encode(col, raws) ==
    IF raws = <<>> THEN <<>>
    ELSE IF col.nullable
    THEN [i \in DOMAIN raws |-> Tok(8, IF raws[i] = <<>> THEN 1 ELSE 0)] \o
         sendScalars(col, [i \in DOMAIN raws |-> IF raws[i] # <<>> THEN raws[i][1]
                                                 ELSE writeScalar(col, zeroOf(col))[1].v])
    ELSE IF col.k = "lc"
    THEN <<lcVersion>> \o writeOffset(raws, col.depth) \o sendWords(flatten(raws, col.depth))
    ELSE writeOffset(raws, col.depth) \o sendScalars(col, flatten(raws, col.depth))

---------------------------------------------------------------------------
(* Reading.  memory.heap is the sequence of all buffers, each as long as    *)
(* its capacity, memory.mem[l] the [buf, len] of level l.                   *)

noBuffer == [buf |-> 0, len |-> 0]
noMemory == [heap |-> <<>>, mem |-> [l \in 1..3 |-> noBuffer]]

capOf(m, l) == IF m.mem[l].buf = 0 THEN 0 ELSE Len(m.heap[m.mem[l].buf])

AllocForReading(m, l, n) ==
    IF capOf(m, l) >= n
    THEN [m EXCEPT !.mem[l].len = n]
    ELSE [m EXCEPT !.heap = Append(@, [i \in 1..n |-> 0]),
                   !.mem[l] = [buf |-> Len(m.heap) + 1, len |-> n]]

store(m, l, cells) ==
    [m EXCEPT !.heap[m.mem[l].buf] = cells \o SubSeq(@, Len(cells) + 1, Len(@))]

readScalars(col, toks, pos, n) ==
    LET raw == takeScalars(col, toks, pos, n)
    IN  [raw EXCEPT !.vals = [i \in DOMAIN raw.vals |-> readScalar(col, raw.vals[i])]]

\* LCStringColumn.readData: one dictionary that must have a key for each row.
readData(toks, pos, n) ==
    LET size == toks[pos + 1].v
        keysAt == pos + 2 + size
    IN  [ok |-> toks[keysAt].v = n,
         vals |-> [i \in 1..n |-> toks[pos + 2 + toks[keysAt + i].v].v],
         pos |-> keysAt + n + 1]

\* ReadFrom of level l; nothing is read, and nothing changed, for no rows.
RECURSIVE readLevel(_, _, _, _, _, _)
readLevel(col, l, n, toks, pos, m) ==
    LET a == AllocForReading(m, l, n)
        leaf == IF col.k = "lc" THEN readData(toks, pos, n) ELSE readScalars(col, toks, pos, n)
        offsets == offsetsAt(toks, pos, n)
        elems == readLevel(col, l + 1, offsets.at[n], toks, pos + n, a)
        cells == [i \in 1..n |-> [buf |-> elems.m.mem[l + 1].buf,
                                  from |-> offsets.at[i - 1] + 1, to |-> offsets.at[i]]]
    IN  CASE n = 0 -> [ok |-> TRUE, pos |-> pos, m |-> m]
          [] n > 0 /\ l > col.depth ->
                [ok |-> leaf.ok, pos |-> leaf.pos, m |-> IF leaf.ok THEN store(a, l, leaf.vals) ELSE a]
          [] n > 0 /\ l <= col.depth ->
                [ok |-> offsets.ok /\ elems.ok, pos |-> elems.pos,
                 m |-> IF offsets.ok /\ elems.ok THEN store(elems.m, l, cells) ELSE a]

\* The nulls come before the values; a column of words begins with a version.
ReadFrom(col, n, toks, m) ==
    LET nulls == takeScalars(UInt8Column, toks, 1, n)
        start == IF col.nullable THEN nulls.pos ELSE IF col.k = "lc" THEN 2 ELSE 1
    IN  IF n = 0 THEN [ok |-> TRUE, m |-> m, nulls |-> <<>>]
        ELSE LET r == readLevel(col, 1, n, toks, start, m)
             IN  [ok |-> r.ok /\ r.pos = Len(toks) + 1, m |-> r.m,
                  nulls |-> IF col.nullable THEN nulls.vals ELSE [i \in 1..n |-> 0]]

\* As scanBlock, but pointers of a model of rows are into the column, too.
scanShared(col, r, n) ==
    LET cells == SubSeq(r.m.heap[r.m.mem[1].buf], 1, n)
    IN  IF n = 0 THEN [m |-> r.m, rows |-> <<>>]
        ELSE IF ~col.nullable THEN [m |-> r.m, rows |-> cells]
        ELSE [m |-> r.m, rows |-> [i \in 1..n |-> [buf |-> r.m.mem[1].buf, from |-> i,
                                                 to |-> IF r.nulls[i] = 0 THEN i ELSE i - 1]]]

\* What scanning the block keeps of its rows: values, slices for arrays, and
\* for a nullable column pointers: to new variables for a model of rows
\* (ConvertAssign), into the column itself for the others (Nullable).
scanBlock(col, r, n) ==
    LET buf == r.m.mem[1].buf
        cells == SubSeq(r.m.heap[buf], 1, n)
        at(i) == IF how # "rows" THEN [buf |-> buf, from |-> i, to |-> i]
                 ELSE [buf |-> Len(r.m.heap) + i, from |-> 1, to |-> 1]
    IN  IF n = 0 THEN [m |-> r.m, rows |-> <<>>]
        ELSE IF ~col.nullable THEN [m |-> r.m, rows |-> cells]
        ELSE [m |-> IF how # "rows" THEN r.m
                    ELSE [r.m EXCEPT !.heap = @ \o [i \in 1..n |-> <<cells[i]>>]],
              rows |-> [i \in 1..n |-> IF r.nulls[i] = 0 THEN at(i)
                                       ELSE [buf |-> 0, from |-> 1, to |-> 0]]]

\* The rows of the model after a block of n rows.  A map is given the columns
\* of every block anew, also of an empty one: those are as the last block left
\* them, unless the block has a header and the column is one that it empties.
emptied == column.depth = 0 /\ ~column.nullable /\ column.k \notin {"int", "float", "hist", "lc"}
scanned(n, new) ==
    CASE how = "exec"           -> {rows}
      [] how = "map" /\ n > 0   -> {new}
      [] how = "map" /\ n = 0   -> IF emptied THEN {rows, <<>>} ELSE {rows}
      [] OTHER                  -> {rows \o new}

---------------------------------------------------------------------------
(* The queries. *)

Init ==
    /\ phase = "idle"
    /\ type \in Types
    /\ input = <<>> /\ table = <<>>
    /\ sent = 0 /\ how = "rows" /\ memory = noMemory
    /\ rows = <<>> /\ fresh = 0 /\ others = 0 /\ affected = 0

\* A model of rows without rows makes a block without columns; one of columns
\* still writes its column.  A nullable column cannot be Set, and the slice of
\* a column has the type of the column.
wireOf(vs, columnar) ==
    IF vs = <<>> /\ ~columnar THEN <<>>
    ELSE IF columnar THEN WriteTo(column, vs) ELSE blockTokens(column, vs)

\* The words of an enumeration the server knows (external).
RECURSIVE acceptable(_, _)
acceptable(raw, depth) ==
    IF depth = 0 THEN column.k # "enum" \/ \E i \in DOMAIN type.enum : type.enum[i].num = raw
    ELSE \A i \in DOMAIN raw : acceptable(raw[i], depth - 1)

\* A column of another Go type than the values panics, and so does one that
\* has a word of an enumeration to write and does not know the words.
writePanics(vs, columnar) ==
    \/ column.k # trueColumn(type).k /\ (vs # <<>> \/ columnar)
    \/ noWords /\ (vs # <<>> \/ columnar)

Insert ==
    /\ phase = "idle"
    /\ \E vs \in BoundedSeq(Inputs(type), MaxRows), columnar \in BOOLEAN :
        LET got == decode(trueColumn(type), wireOf(vs, columnar), Len(vs))
        IN  /\ columnar => ~column.nullable /\ \A i \in DOMAIN vs : converted(column, vs[i]) = vs[i]
            /\ input' = vs
            /\ IF writePanics(vs, columnar) THEN table' = table /\ phase' = "panic"
               ELSE IF got.ok /\ \A i \in DOMAIN got.vals : acceptable(got.vals[i], nesting(trueColumn(type)))
               THEN table' = got.vals /\ phase' = "stored"
               ELSE table' = table /\ phase' = "rejected"
    /\ UNCHANGED <<type, sent, how, memory, rows, fresh, others, affected>>

\* Rows that another client stored, one whose column is that of the type (external).
InsertElsewhere ==
    /\ phase = "idle"
    /\ \E vs \in BoundedSeq(Inputs(type), MaxRows) :
        LET col == trueColumn(type)
            got == decode(col, blockTokens(col, vs), Len(vs))
        IN  /\ vs # <<>> /\ \A i \in DOMAIN vs : acceptable(got.vals[i], nesting(col))
            /\ input' = vs
            /\ table' = got.vals
    /\ phase' = "stored"
    /\ UNCHANGED <<type, sent, how, memory, rows, fresh, others, affected>>

\* DB.query with a model of rows, of columns or a map, or DB.exec.
Query ==
    /\ phase = "stored"
    /\ phase' = "reading"
    /\ how' \in {"rows", "columns", "map", "exec"}
    /\ UNCHANGED <<type, input, table, sent, memory, rows, fresh, others, affected>>

\* A column that does not know the words of its enumeration panics when it
\* reads one; if it is not nullable, already when it is made.
readPanics(n) == noWords /\ (n > 0 \/ ~column.nullable)

\* The server sends the next n rows, or an empty block.
DataBlock ==
    /\ phase = "reading"
    /\ \E n \in 0..Len(table) - sent :
        LET toks == encode(trueColumn(type), SubSeq(table, sent + 1, sent + n))
            r == ReadFrom(column, n, toks, memory)
            scan == scanBlock(column, r, n)
        IN  /\ n = 0 => others < MaxPackets
            /\ others' = IF n = 0 THEN others + 1 ELSE others
            /\ sent' = sent + n
            /\ IF readPanics(n) \/ ~r.ok
               THEN /\ phase' = IF readPanics(n) THEN "panic" ELSE "lost"
                    /\ UNCHANGED <<affected, memory, rows, fresh>>
               ELSE /\ affected' = affected + n
                    /\ phase' = phase
                    /\ memory' = IF how = "exec" THEN r.m ELSE scan.m
                    /\ rows' \in scanned(n, scan.rows)
                    /\ fresh' = CASE how = "exec" -> 0 [] how = "map" -> Len(rows') [] OTHER -> n
    /\ UNCHANGED <<type, input, table, how>>

\* Progress, profile and column packets are skipped.
OtherPacket ==
    /\ phase = "reading"
    /\ others < MaxPackets
    /\ others' = others + 1
    /\ UNCHANGED <<phase, type, input, table, sent, how, memory, rows, fresh, affected>>

\* Totals and extremes, one row each, are data for exec and an error for a query.
Totals ==
    /\ phase = "reading"
    /\ others < MaxPackets /\ table # <<>>
    /\ others' = others + 1
    /\ LET r == ReadFrom(column, 1, encode(trueColumn(type), SubSeq(table, 1, 1)), memory)
       IN  IF how = "exec" /\ ~readPanics(1) /\ r.ok
           THEN affected' = affected + 1 /\ memory' = r.m /\ phase' = phase
           ELSE /\ phase' = IF how # "exec" THEN "failed" ELSE IF readPanics(1) THEN "panic" ELSE "lost"
                /\ UNCHANGED <<affected, memory>>
    /\ UNCHANGED <<type, input, table, sent, how, rows, fresh>>

Exception ==
    /\ phase = "reading"
    /\ phase' = "failed"
    /\ UNCHANGED <<type, input, table, sent, how, memory, rows, fresh, others, affected>>

EndOfStream ==
    /\ phase = "reading"
    /\ sent = Len(table)
    /\ phase' = "done"
    /\ UNCHANGED <<type, input, table, sent, how, memory, rows, fresh, others, affected>>

Next == Insert \/ InsertElsewhere \/ Query \/ DataBlock \/ OtherPacket \/ Totals \/ Exception \/ EndOfStream

Spec == Init /\ [][Next]_vars

---------------------------------------------------------------------------
(* Properties. *)

\* The column is the one the type asks for.  It is not for Nullable or
\* SimpleAggregateFunction of Enum8 and of DateTime64 with a precision, whose
\* columns are not initialised, nor for Array(Array(Bool)), which is given the
\* column of strings.
Fits == column = trueColumn(type)

\* r is what a scalar v may become: numbers keep their value modulo the width
\* of the column, times are cut to the unit of the column (the first unit is
\* read as the zero time), a word that an enumeration does not have becomes its
\* word 0, anything else is kept.
unitOf(t) == CASE t.name = "DateTime" -> TicksPerSecond
               [] t.name = "Date" -> secsInDay * TicksPerSecond
               [] t.name = "DateTime64" -> 10 ^ (1 - t.prec)
Kept(t, v, r) ==
    CASE t.name \in {"DateTime", "Date"} /\ v < unitOf(t) -> r = ZeroTime
      [] t.name \in {"DateTime", "Date", "DateTime64"} /\ ~(t.name # "DateTime64" /\ v < unitOf(t)) ->
            r <= v /\ v < r + unitOf(t) /\ r % unitOf(t) = 0
      [] t.name = "Int8" -> r \in -128..127 /\ (r - v) % 256 = 0
      [] t.name = "UInt8" -> r \in 0..255 /\ (r - v) % 256 = 0
      [] t.name = "Enum8" /\ ~\E i \in DOMAIN t.enum : t.enum[i].word = v -> r = dec(t.enum, 0)
      [] OTHER -> r = v

RECURSIVE KeptCell(_, _, _, _)
KeptCell(t, v, r, depth) ==
    IF depth = 0 THEN Kept(t, v, r)
    ELSE Len(v) = Len(r) /\ \A i \in DOMAIN v : KeptCell(t, v[i], r[i], depth - 1)

\* The value behind a cell.
RECURSIVE valueOf(_, _, _)
valueOf(m, cell, depth) ==
    IF depth = 0 THEN cell
    ELSE [i \in 1..cell.to - cell.from + 1 |-> valueOf(m, m.heap[cell.buf][cell.from + i - 1], depth - 1)]

\* The server's meaning of a stored scalar (external).
RECURSIVE meaning(_, _)
meaning(raw, depth) ==
    IF depth > 0 THEN [i \in DOMAIN raw |-> meaning(raw[i], depth - 1)]
    ELSE CASE type.name \in {"DateTime", "Date"} -> IF raw = 0 THEN ZeroTime ELSE raw * unitOf(type)
           [] type.name = "DateTime64" -> raw * unitOf(type)
           [] type.name = "Enum8" -> type.enum[CHOOSE i \in DOMAIN type.enum : type.enum[i].num = raw].word
           [] type.name = "UUID" -> [i \in 1..16 |-> IF i <= 8 THEN raw[9 - i] ELSE raw[25 - i]]
           [] type.name = "Bool" -> raw = 1
           [] OTHER -> raw

\* Every word is one of the enumeration.
RECURSIVE knownWords(_, _)
knownWords(v, depth) == IF depth = 0 THEN \E i \in DOMAIN type.enum : type.enum[i].word = v
                        ELSE \A i \in DOMAIN v : knownWords(v[i], depth - 1)

(***************************************************************************)
(* If the column is the one its type asks for, an insert stores every row  *)
(* of the application, in order and with its meaning: offsets,             *)
(* dictionaries with keys of the right width, nulls and conversions agree  *)
(* with the format (Block.WriteTo and the WriteTo of the columns).  A word *)
(* that an enumeration does not have is stored as its word 0, with a line  *)
(* in the log; the server rejects it if there is no word 0.  It rejects    *)
(* nothing else but a column of words without rows, whose version is       *)
(* written all the same.                                                   *)
(***************************************************************************)
RowsStored ==
    /\ phase = "stored" /\ Fits =>
        /\ Len(table) = Len(input)
        /\ \A i \in DOMAIN input : KeptCell(type, input[i], meaning(table[i], nesting(column)), nesting(column))
    /\ phase = "rejected" =>
        \/ /\ column.k = "enum" /\ dec(type.enum, 0) = ""
           /\ \E i \in DOMAIN input : ~knownWords(input[i], column.depth)
        \/ column.k = "lc" /\ input = <<>>

(***************************************************************************)
(* However the server cuts the answer into blocks, a client whose column   *)
(* is the one the type asks for never loses its place in the stream and    *)
(* the rows of a block are, when they are scanned, the ones that were      *)
(* inserted.  A model of rows or of columns loses none and reads none      *)
(* twice.  A map keeps the columns of the last block and nothing of those  *)
(* before it; what it has are rows that follow one another.  (readBlock,   *)
(* ReadFrom, baseQuery.query, ScanBlock.)                                  *)
(***************************************************************************)
ReadBack ==
    /\ phase \in {"lost", "panic"} => ~Fits
    /\ phase = "done" /\ how # "exec" => affected = Len(input)
    /\ phase = "done" /\ how \in {"rows", "columns"} => Len(rows) = Len(input)
    /\ Fits => \A i \in Len(rows) - fresh + 1..Len(rows) :
          KeptCell(type, input[sent - Len(rows) + i], valueOf(memory, rows[i], nesting(column)),
                   nesting(column))

(***************************************************************************)
(* A later block changes a row that was scanned only if the row is a slice *)
(* of, or for a model of columns a pointer into, a buffer that was large   *)
(* enough for the later block (AllocForReading); rows of scalars, and      *)
(* pointers of a model of rows, are never changed.  (A map has the rows of *)
(* the last block only.)                                                   *)
(***************************************************************************)
RowsKept ==
    [][how # "map" => \A i \in DOMAIN rows :
         LET depth == nesting(column)
             kept(l) == memory.mem[l].buf # 0 /\ memory'.mem[l].buf = memory.mem[l].buf
         IN  \/ valueOf(memory', rows'[i], depth) = valueOf(memory, rows[i], depth)
             \/ column.depth > 0 /\ \E l \in 2..3 : kept(l)
             \/ column.nullable /\ how = "columns" /\ kept(1)]_vars
===========================================================================
