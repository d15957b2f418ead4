----------------------------- MODULE MQLEngine ----------------------------
(***************************************************************************)
(* The engine of metric queries (metrics/mql): the parts of a query are    *)
(* parsed, compiled to time series to select, selected from the storage    *)
(* and evaluated column by column.                                         *)
(*                                                                         *)
(* The slices of values live in a heap, since the engine shares them: a    *)
(* column that refers to an earlier one copies the series but not their    *)
(* values, a join keeps the values of series without a partner, and the    *)
(* functions delta, per_min and per_sec work in place.  Numbers are        *)
(* integers (a quotient is rounded down); units are left out.              *)
(***************************************************************************)
EXTENDS MQL, MQLStorage

CONSTANTS
    Queries,     \* the queries users make: [table, parts], a part a sequence of tokens
    TimeFilters, \* the times they ask for: [gte, lt, interval], interval 0 if not given
    MetricMap,   \* the instruments of the metrics, by alias
    AttrValues,  \* values of the attribute a query groups by
    Rows,        \* the points the database may hold for a group
    MaxRows,     \* bound on the groups of one series
    Intervals,   \* intervals of the program's own choice, ascending, in half minutes
    NumberOf     \* the value of the text of a number

VARIABLES
    TableMode, \* one number for each series
    timeFilter,\* the bounds and the interval of the buckets
    phase,     \* "new", "select", "eval", "done" or "panic"
    parts,     \* the parts of the query: [ast, err]
    timeseries,\* the compiled time series expressions
    exprs,     \* the compiled named expressions
    selected,  \* the series of each time series expression selected so far
    heap,      \* the slices of values
    pos,       \* how many named expressions are evaluated
    columns,   \* Engine.vars: the series of every column, in the order of evaluation
    grew       \* history: a join outgrew the slice it had allocated

vars == <<TableMode, timeFilter, phase, parts, timeseries, exprs, selected, heap, pos, columns, grew>>

aggFuncs == {"min", "max", "sum", "count", "avg", "p50", "p75", "p90", "p95", "p99", "uniq"}
tableFuncs == {"min", "max", "sum", "avg", "last"}
opFuncs == {"delta", "per_min", "per_sec"}

---------------------------------------------------------------------------
(* Compilation.  An operator that compiles an expression answers with the  *)
(* list of time series as it stands, whether it panicked, and the          *)
(* compiled expression.                                                    *)

Done(e, ts) == [err |-> FALSE, expr |-> e, ts |-> ts]
Panic(ts) == [err |-> TRUE, ts |-> ts]

\* compiler.name
addSeries(nm, ts) ==
    Done([t |-> "Series", idx |-> Len(ts) + 1],
         Append(ts, [ast |-> nm, metric |-> nm.name, filters |-> nm.filters, agg |-> "",
                     table |-> "", uniq |-> <<>>, where |-> <<>>, grouping |-> <<>>,
                     all |-> FALSE, part |-> 0]))

uniqExpr(e, ts) ==
    LET s == addSeries(e.name, ts)
    IN  [s EXCEPT !.ts[s.expr.idx].agg = "uniq", !.ts[s.expr.idx].uniq = e.attrs]

RECURSIVE selector(_, _)
RECURSIVE selectArgs(_, _)

\* An aggregation applies to one time series that has none yet.  A name that
\* is also a table function compiles the argument a second time.
aggCall(fn, ts) ==
    LET arg == selector(fn.args[1], ts)
        k == arg.expr.idx
    IN  IF fn.func \notin aggFuncs THEN [st |-> "next", ts |-> ts]
        ELSE IF Len(fn.args) # 1 THEN [st |-> "panic", ts |-> ts]
        ELSE IF arg.err THEN [st |-> "panic", ts |-> arg.ts]
        ELSE IF arg.expr.t # "Series" THEN [st |-> "panic", ts |-> arg.ts]
        ELSE IF arg.ts[k].agg # "" THEN [st |-> "next", ts |-> [arg.ts EXCEPT ![k].ast = fn]]
        ELSE [st |-> "done", expr |-> arg.expr,
              ts |-> [arg.ts EXCEPT ![k].ast = fn, ![k].agg = fn.func]]

tableCall(fn, ts) ==
    LET arg == selector(fn.args[1], ts)
        k == arg.expr.idx
    IN  IF Len(fn.args) # 1 THEN Panic(ts)
        ELSE IF arg.err \/ arg.expr.t # "Series" THEN Panic(arg.ts)
        ELSE IF arg.ts[k].table # "" THEN Panic(arg.ts)
        ELSE Done(arg.expr, [arg.ts EXCEPT ![k].table = fn.func])

\* delta, per_min and per_sec; they name the table function of a bare series.
opCall(fn, ts) ==
    LET as == selectArgs(fn.args, ts)
        bare == {n \in DOMAIN as.exprs : as.exprs[n].t = "Series"}
    IN  IF fn.func \notin opFuncs THEN Panic(ts)
        ELSE IF as.err THEN Panic(as.ts)
        ELSE Done([t |-> "FuncCall", func |-> fn.func, args |-> as.exprs, ast |-> fn],
                  [k \in DOMAIN as.ts |->
                      IF as.ts[k].table = "" /\ \E n \in bare : as.exprs[n].idx = k
                      THEN [as.ts[k] EXCEPT !.table = fn.func] ELSE as.ts[k]])

funcCallExpr(fn, ts) ==
    LET agg == aggCall(fn, ts)
    IN  CASE agg.st = "done"  -> Done(agg.expr, agg.ts)
          [] agg.st = "panic" -> Panic(agg.ts)
          [] agg.st = "next"  -> IF fn.func \in tableFuncs THEN tableCall(fn, agg.ts)
                                                          ELSE opCall(fn, agg.ts)

selectArgs(es, ts) ==
    IF es = <<>> THEN [err |-> FALSE, exprs |-> <<>>, ts |-> ts]
    ELSE LET head == selector(es[1], ts)
             rest == selectArgs(Tail(es), head.ts)
         IN  IF head.err THEN [err |-> TRUE, ts |-> head.ts]
             ELSE IF rest.err THEN rest
             ELSE [rest EXCEPT !.exprs = <<head.expr>> \o rest.exprs]

selector(e, ts) ==
    CASE e.t = "Name"   -> IF HasPrefix(e.name, "$") THEN addSeries(e, ts)
                           ELSE Done([t |-> "Ref", name |-> e.name, ast |-> e], ts)
      [] e.t = "Binary" -> LET as == selectArgs(<<e.lhs, e.rhs>>, ts)
                           IN  IF as.err THEN Panic(as.ts)
                               ELSE Done([t |-> "Binary", op |-> e.op, lhs |-> as.exprs[1],
                                          rhs |-> as.exprs[2], ast |-> e], as.ts)
      [] e.t = "Paren"  -> LET in == selector(e.expr, ts)
                           IN  IF in.err THEN in
                               ELSE Done([t |-> "Paren", expr |-> in.expr, ast |-> e], in.ts)
      [] e.t = "Number" -> Done([t |-> "Number", num |-> NumberOf[e.text], ast |-> e], ts)
      [] e.t = "FuncCall" -> funcCallExpr(e, ts)
      [] e.t = "Uniq"   -> uniqExpr(e, ts)

\* compile, first pass: the selectors.  The series of a selector that panics
\* half way stay in the list, without a part.
compileSelector(c, p) ==
    LET ast == c.parts[p].ast
        sel == selector(ast.expr.expr, c.ts)
        mine == Len(c.ts) + 1 .. Len(sel.ts)
        group(s) == IF ast.all THEN [s EXCEPT !.all = TRUE, !.part = p]
                    ELSE [s EXCEPT !.grouping = s.grouping \o ast.grouping, !.part = p]
    IN  IF sel.err THEN [c EXCEPT !.parts[p].err = TRUE, !.ts = sel.ts]
        ELSE [c EXCEPT !.ts = [k \in DOMAIN sel.ts |->
                                  IF k \in mine THEN group(sel.ts[k]) ELSE sel.ts[k]],
                       !.exprs = Append(c.exprs, [part |-> p, expr |-> sel.expr,
                                                  alias |-> ast.expr.alias])]

\* compiler.where: the alias to compare with is never set, so that the first
\* filter decides nothing and a later one must not name a metric.
whereApplies(fs) == \A n \in DOMAIN fs : n > 1 => SplitAliasName(fs[n].lhs)[1] = ""

compileWhere(c, p) ==
    LET fs == c.parts[p].ast.filters
        split == [n \in DOMAIN fs |-> [fs[n] EXCEPT !.lhs = SplitAliasName(fs[n].lhs)[2]]]
    IN  IF whereApplies(fs)
        THEN [c EXCEPT !.ts = [k \in DOMAIN c.ts |-> [c.ts[k] EXCEPT !.where = Append(@, split)]]]
        ELSE [c EXCEPT !.parts[p].err = TRUE]

\* compiler.groupingName, for the names in order; the first unknown metric
\* ends the part with an error and leaves the names before it applied.
groupingName(c, p, nm) ==
    LET split == SplitAliasName(nm)
        hits == {k \in DOMAIN c.ts : split[1] = "" \/ c.ts[k].metric = split[1]}
    IN  IF c.parts[p].err THEN c
        ELSE IF split[1] # "" /\ hits = {} THEN [c EXCEPT !.parts[p].err = TRUE]
        ELSE [c EXCEPT !.ts = [k \in DOMAIN c.ts |-> IF k \in hits
                                 THEN [c.ts[k] EXCEPT !.grouping = Append(@, split[2])]
                                 ELSE c.ts[k]]]

compileGrouping(c, p) ==
    LET ast == c.parts[p].ast
        Step[n \in 0..Len(ast.names)] ==
            IF n = 0 THEN c ELSE groupingName(Step[n - 1], p, ast.names[n])
    IN  IF ast.all THEN [c EXCEPT !.ts = [k \in DOMAIN c.ts |-> [c.ts[k] EXCEPT !.all = TRUE]]]
        ELSE Step[Len(ast.names)]

compilePart(c, p, pass) ==
    LET part == c.parts[p]
    IN  CASE part.err -> c
          [] ~part.err /\ pass = 1 /\ part.ast.t = "Selector" -> compileSelector(c, p)
          [] ~part.err /\ pass = 2 /\ part.ast.t = "Where"    -> compileWhere(c, p)
          [] ~part.err /\ pass = 2 /\ part.ast.t = "Grouping" -> compileGrouping(c, p)
          [] OTHER -> c

compile(ps) ==
    LET n == Len(ps)
        Pass[i \in 0..2 * n] ==
            IF i = 0 THEN [parts |-> ps, ts |-> <<>>, exprs |-> <<>>]
            ELSE compilePart(Pass[i - 1], IF i <= n THEN i ELSE i - n, IF i <= n THEN 1 ELSE 2)
    IN  Pass[2 * n]

---------------------------------------------------------------------------
(* The time of a request.                                                  *)

ceilTime(t, d) == ((t + d - 1) \div d) * d

\* An interval that was asked for is taken as it is; otherwise it is the
\* smallest with at most 120 buckets, and the bounds are rounded up to it.
GroupingInterval(f) ==
    LET fits(n) == (f.lt - f.gte) \div Intervals[n] <= 120
        d == Intervals[CHOOSE n \in DOMAIN Intervals : fits(n) /\ \A m \in 1..n - 1 : ~fits(m)]
    IN  IF f.interval > 0 /\ (f.lt - f.gte) \div f.interval < 1000 THEN f
        ELSE [gte |-> ceilTime(f.gte, d), lt |-> ceilTime(f.lt, d), interval |-> d]

\* Consts: the interval in minutes and in seconds.
consts == [_minutes |-> timeFilter.interval \div 2, _seconds |-> 30 * timeFilter.interval]

---------------------------------------------------------------------------
(* Values. *)

nan(x) == IF IsNaN(x) THEN 0 ELSE x
Flag(cond) == IF cond THEN 1 ELSE 0
Both(a, b, x) == IF IsNaN(a) \/ IsNaN(b) THEN 0 ELSE x
Finite(a, b) == ~IsNaN(a) /\ ~IsNaN(b)

addOp(a, b) == nan(a) + nan(b)
subtractOpNaN(a, b) == a - b
subtractOp(a, b) == nan(a) - nan(b)
multiplyOp(a, b) == nan(a) * nan(b)
divideOp(a, b) == Both(a, b, IF b = 0 THEN Inf ELSE a \div b)
remOp(a, b) == Both(a, b, IF b = 0 THEN NaN ELSE a % b)
equalOp(a, b) == Flag(Finite(a, b) /\ a = b)
notEqualOp(a, b) == Flag(~Finite(a, b) \/ a # b)
gtOp(a, b) == Flag(Finite(a, b) /\ a > b)
gteOp(a, b) == Flag(Finite(a, b) /\ a >= b)
ltOp(a, b) == Flag(Finite(a, b) /\ a < b)
lteOp(a, b) == Flag(Finite(a, b) /\ a < b)
andOp(a, b) == Both(a, b, IF a # 0 /\ b # 0 THEN b ELSE 0)
orOp(a, b) == IF IsNaN(a) THEN 0 ELSE IF a # 0 THEN a ELSE IF b # 0 THEN b ELSE 0

apply(op, a, b) ==
    CASE op = "+" -> addOp(a, b)       [] op = "-" -> subtractOp(a, b)
      [] op = "*" -> multiplyOp(a, b)  [] op = "/" -> divideOp(a, b)
      [] op = "%" -> remOp(a, b)
      [] op = "==" -> equalOp(a, b)    [] op = "!=" -> notEqualOp(a, b)
      [] op = ">" -> gtOp(a, b)        [] op = ">=" -> gteOp(a, b)
      [] op = "<" -> ltOp(a, b)        [] op = "<=" -> lteOp(a, b)
      [] op = "and" -> andOp(a, b)     [] op = "or" -> orOp(a, b)

\* remOp divides integers: a zero on the right is a run-time panic.
divides(op, u, v) == op = "%" /\ \E i \in DOMAIN u : Finite(u[i], v[i]) /\ v[i] = 0

\* deltaFunc: the buckets before the first number become 0 and the first
\* number too, unless it is the only one left ("table mode").
deltaFunc(v) ==
    LET nums == {i \in DOMAIN v : ~IsNaN(v[i])}
        first == IF nums = {} THEN 1 ELSE Min(nums)
        prev(i) == v[Max({j \in nums : j < i})]
        zeroed == [i \in DOMAIN v |-> IF i < first \/ nums = {} THEN 0 ELSE v[i]]
    IN  IF first = Len(v) THEN zeroed
        ELSE [i \in DOMAIN v |-> IF i <= first \/ i \notin nums THEN 0
                                 ELSE Max({0, v[i] - prev(i)})]

perFunc(v, period) == [i \in DOMAIN v |-> IF IsNaN(v[i]) THEN NaN ELSE v[i] \div consts[period]]

inPlace(func, v) == CASE func = "delta"   -> deltaFunc(v)
                      [] func = "per_min" -> perFunc(v, "_minutes")
                      [] func = "per_sec" -> perFunc(v, "_seconds")

---------------------------------------------------------------------------
(* Evaluation.  The memory h is [heap, grew]; a series is                  *)
(* [attrs, ref, grouping, all], ref the place of its values in the heap.   *)

Answer(ss, h) == [st |-> "ok", ss |-> ss, h |-> h]
Fails(h) == [st |-> "err", ss |-> <<>>, h |-> h]
Panics(h) == [st |-> "panic", ss |-> <<>>, h |-> h]

Alloc(h, v) == [h EXCEPT !.heap = Append(h.heap, v)]

\* MakeTimeseries and the loop that fills it.
makeTimeseries(num, h) ==
    LET size == IF TableMode THEN 1 ELSE numItem(timeFilter.gte, timeFilter.lt, timeFilter.interval)
        h2 == Alloc(h, [i \in 1..size |-> num])
    IN  Answer(<<[attrs |-> "", ref |-> Len(h2.heap), grouping |-> <<>>, all |-> FALSE]>>, h2)

\* As mapSeries, but the values are changed where they are.
mapInPlace(ss, h, op, num, left) ==
    LET new(v) == [i \in DOMAIN v |-> IF left THEN apply(op, num, v[i]) ELSE apply(op, v[i], num)]
    IN  Answer(ss, [h EXCEPT !.heap = [r \in DOMAIN h.heap |->
                        IF \E n \in DOMAIN ss : ss[n].ref = r THEN new(h.heap[r]) ELSE h.heap[r]]])

\* evalBinaryExprNumLeft and evalBinaryExprNumRight: new values for every series.
mapSeries(ss, h, op, num, left) ==
    LET side(v) == [i \in DOMAIN v |-> num]
        new(v) == [i \in DOMAIN v |-> IF left THEN apply(op, num, v[i]) ELSE apply(op, v[i], num)]
        bad == \E n \in DOMAIN ss : LET v == h.heap[ss[n].ref]
                                    IN  IF left THEN divides(op, side(v), v) ELSE divides(op, v, side(v))
    IN  IF bad THEN Panics(h)
        ELSE Answer([n \in DOMAIN ss |-> [ss[n] EXCEPT !.ref = Len(h.heap) + n]],
                    [h EXCEPT !.heap = h.heap \o [n \in DOMAIN ss |-> new(h.heap[ss[n].ref])]])

\* join, one series of the right side after the other.  joined starts with
\* the capacity of the longer side; once it grows beyond it, the map still
\* points into the array left behind, and what is stored there is lost.
joinSeries(acc, s2, op, sides) ==
    LET known == {n \in DOMAIN sides.left : sides.left[n].attrs = s2.attrs}
        hit == Max(known)
        v2 == acc.h.heap[s2.ref]
        v1 == IF known # {} THEN acc.h.heap[acc.map[hit].ref] ELSE [i \in DOMAIN v2 |-> 0]
        grows == Len(acc.joined) = sides.cap
        h2 == Alloc(acc.h, [i \in DOMAIN v1 |-> apply(op, v1[i], v2[i])])
        s1 == [IF known # {} THEN acc.map[hit] ELSE s2 EXCEPT !.ref = Len(h2.heap)]
    IN  IF acc.panic \/ Len(v1) > Len(v2) \/ divides(op, v1, v2) THEN [acc EXCEPT !.panic = TRUE]
        ELSE IF known = {}
        THEN [acc EXCEPT !.joined = Append(@, s1), !.h = [h2 EXCEPT !.grew = @ \/ grows],
                         !.moved = @ \/ grows]
        ELSE [acc EXCEPT !.h = h2, !.map[hit] = s1,
                         !.joined = IF acc.moved THEN @ ELSE [@ EXCEPT ![hit] = s1]]

join(ls, rs, op, h) ==
    LET sides == [left |-> ls, cap |-> Max({Len(ls), Len(rs)})]
        start == [joined |-> ls, map |-> ls, h |-> h, moved |-> FALSE, panic |-> FALSE]
        end == FoldLeft(LAMBDA acc, s2 : joinSeries(acc, s2, op, sides), start, rs)
    IN  IF ls = <<>> /\ rs = <<>> THEN Answer(<<>>, h)
        ELSE IF ls = <<>> THEN mapSeries(rs, h, op, 0, TRUE)
        ELSE IF rs = <<>> THEN mapSeries(ls, h, op, 0, FALSE)
        ELSE IF ls[1].grouping # rs[1].grouping \/ (\E s \in ToSet(ls \o rs) : s.all) THEN Fails(h)
        ELSE IF end.panic THEN Panics(end.h)
        ELSE Answer(end.joined, end.h)

IsConst(e) == e.t = "Number" \/ (e.t = "Ref" /\ e.name \in DOMAIN consts)
ConstOf(e) == IF e.t = "Number" THEN e.num ELSE consts[e.name]

columnsNamed(cols, nm) == {n \in DOMAIN cols : cols[n].name = nm}

RECURSIVE eval(_, _)

evalBinary(e, h) ==
    LET side == IF IsConst(e.lhs) THEN e.rhs ELSE e.lhs
        one == eval(side, h)
        lh == eval(e.lhs, h)
        rh == eval(e.rhs, lh.h)
        num == <<ConstOf(e.lhs), ConstOf(e.rhs)>>
    IN  CASE IsConst(e.lhs) /\ IsConst(e.rhs) ->
                IF divides(e.op, <<num[1]>>, <<num[2]>>) THEN Panics(h)
                ELSE makeTimeseries(apply(e.op, num[1], num[2]), h)
          [] IsConst(e.lhs) # IsConst(e.rhs) ->
                IF one.st # "ok" \/ one.ss = <<>> THEN one
                ELSE mapSeries(one.ss, one.h, e.op, ConstOf(IF IsConst(e.lhs) THEN e.lhs ELSE e.rhs),
                               IsConst(e.lhs))
          [] ~IsConst(e.lhs) /\ ~IsConst(e.rhs) ->
                IF lh.st # "ok" THEN lh ELSE IF rh.st # "ok" THEN rh
                ELSE join(lh.ss, rh.ss, e.op, rh.h)

\* callSingleArgFunc overwrites the values of its argument.
callFunc(e, h) ==
    LET arg == eval(e.args[1], h)
        refs == {arg.ss[n].ref : n \in DOMAIN arg.ss}
    IN  IF Len(e.args) # 1 THEN Fails(h)
        ELSE IF arg.st # "ok" THEN arg
        ELSE Answer(arg.ss, [arg.h EXCEPT !.heap = [r \in DOMAIN arg.h.heap |->
                IF r \in refs THEN inPlace(e.func, arg.h.heap[r]) ELSE arg.h.heap[r]]])

eval(e, h) ==
    CASE e.t = "Series" -> Answer(selected[e.idx], h)
      [] e.t = "Ref" -> LET at == columnsNamed(columns, <<e.name>>)
                        IN  IF at # {} THEN Answer(columns[Max(at)].series, h)
                            ELSE IF e.name \in DOMAIN consts THEN makeTimeseries(consts[e.name], h)
                            ELSE Fails(h)
      [] e.t = "Binary" -> evalBinary(e, h)
      [] e.t = "Paren"  -> eval(e.expr, h)
      [] e.t = "Number" -> makeTimeseries(e.num, h)
      [] e.t = "FuncCall" -> callFunc(e, h)
---------------------------------------------------------------------------
(* Engine.Run. *)

Init ==
    /\ TableMode = FALSE /\ timeFilter = [gte |-> 0, lt |-> 0, interval |-> 1]
    /\ phase = "new" /\ parts = <<>> /\ timeseries = <<>> /\ exprs = <<>>
    /\ selected = <<>> /\ heap = <<>> /\ pos = 0 /\ columns = <<>> /\ grew = FALSE

parsePart(tokens) == LET r == Parse(tokens)
                     IN  IF r.st = "ok" THEN [ast |-> r.val, err |-> FALSE]
                                        ELSE [ast |-> [t |-> "Nil"], err |-> TRUE]

Run(query, f) ==
    /\ phase = "new"
    /\ TableMode' = query.table
    /\ timeFilter' = GroupingInterval(f)
    /\ LET c == compile([n \in DOMAIN query.parts |-> parsePart(query.parts[n])])
       IN  /\ parts' = c.parts
           /\ timeseries' = c.ts
           /\ exprs' = c.exprs
    /\ phase' = "select"
    /\ UNCHANGED <<selected, heap, pos, columns, grew>>

\* What makes a selection fail before it is sent or in the database.
selectFails(ts) ==
    \/ ts.metric \notin DOMAIN MetricMap
    \/ \E fs \in {ts.filters} \cup ToSet(ts.where) :
          compileFails(fs) \/ malformed(compileFilters(fs))
    \/ aggFails(MetricMap[ts.metric], ts.agg)

\* The points of a row are at the starts of buckets, whatever the bounds are.
inRange(points) ==
    \A n \in DOMAIN points :
        LET t == points[n].time
        IN  /\ t % timeFilter.interval = 0
            /\ t + timeFilter.interval > timeFilter.gte /\ t < timeFilter.lt

\* The rows of the answer: one for each group, in any order.
RowSeqs(ts) ==
    LET groups == IF ts.grouping = <<>> /\ ~ts.all THEN {""} ELSE AttrValues
        rows == {points \in Rows : inRange(points)}
    IN  UNION {{r \in [1..n -> [attrs : groups, points : rows]] :
                    \A i, j \in 1..n : r[i].attrs = r[j].attrs => i = j} :
               n \in 0..Min({MaxRows, Cardinality(groups)})}

newValue(ts, points) ==
    LET filled == Fill(points, timeFilter.gte, timeFilter.lt, timeFilter.interval)
    IN  IF TableMode THEN <<tableValue(filled, MetricMap[ts.metric], ts.agg, ts.table)>> ELSE filled

SelectTimeseries(rows) ==
    LET k == Len(selected) + 1
        ts == timeseries[k]
    IN  /\ phase = "select" /\ k <= Len(timeseries)
        /\ ~selectFails(ts)
        /\ heap' = heap \o [n \in DOMAIN rows |-> newValue(ts, rows[n].points)]
        /\ selected' = Append(selected, [n \in DOMAIN rows |->
               [attrs |-> rows[n].attrs, ref |-> Len(heap) + n, grouping |-> ts.grouping,
                all |-> ts.all]])
        /\ UNCHANGED <<TableMode, timeFilter, phase, parts, timeseries, exprs, pos, columns, grew>>

\* A series that a selector left behind when it failed to compile has no part:
\* its error has nowhere to go, and the whole query panics.
SelectError ==
    LET k == Len(selected) + 1
        p == timeseries[k].part
    IN  /\ phase = "select" /\ k <= Len(timeseries)
        /\ selected' = Append(selected, <<>>)
        /\ parts' = [n \in DOMAIN parts |-> IF n = p THEN [parts[n] EXCEPT !.err = TRUE] ELSE parts[n]]
        /\ phase' = IF p = 0 THEN "panic" ELSE phase
        /\ UNCHANGED <<TableMode, timeFilter, timeseries, exprs, heap, pos, columns, grew>>

Selected ==
    /\ phase = "select" /\ Len(selected) = Len(timeseries)
    /\ phase' = "eval"
    /\ UNCHANGED <<TableMode, timeFilter, parts, timeseries, exprs, selected, heap, pos, columns, grew>>

\* NamedExpr.String
columnName(ne) ==
    IF ne.alias # "" THEN <<ne.alias>>
    ELSE AppendString(IF ne.expr.t = "Series" THEN timeseries[ne.expr.idx].ast ELSE ne.expr.ast)


EvalColumn ==
    LET ne == exprs[pos + 1]
        r == eval(ne.expr, [heap |-> heap, grew |-> grew])
        name2 == columnName(ne)
        taken == columnsNamed(columns, name2) # {}
    IN  /\ phase = "eval" /\ pos < Len(exprs)
        /\ pos' = pos + 1
        /\ IF parts[ne.part].err
           THEN UNCHANGED <<phase, parts, heap, grew, columns>>
           ELSE /\ heap' = r.h.heap /\ grew' = r.h.grew
                /\ phase' = IF r.st = "panic" THEN "panic" ELSE phase
                /\ parts' = [parts EXCEPT ![ne.part].err = (r.st = "err" \/ taken)]
                /\ columns' = IF r.st # "ok" \/ taken THEN columns
                              ELSE Append(columns, [name |-> name2, series |-> r.ss, of |-> pos + 1])
        /\ UNCHANGED <<TableMode, timeFilter, timeseries, exprs, selected>>

Finish ==
    /\ phase = "eval" /\ pos = Len(exprs)
    /\ phase' = "done"
    /\ UNCHANGED <<TableMode, timeFilter, parts, timeseries, exprs, selected, heap, pos, columns, grew>>

Next == \/ \E q \in Queries, f \in TimeFilters : Run(q, f)
        \/ \E rows \in (IF phase = "select" /\ Len(selected) < Len(timeseries)
                          THEN RowSeqs(timeseries[Len(selected) + 1]) ELSE {}) : SelectTimeseries(rows)
        \/ SelectError \/ Selected \/ EvalColumn \/ Finish

Spec == Init /\ [][Next]_vars

\* Result.Columns: names that begin with an underscore are left out.
Columns == SelectSeq(columns, LAMBDA col : ~HasPrefix(col.name[1], "_"))
---------------------------------------------------------------------------
(* Properties. *)

RECURSIVE Linear(_)
RECURSIVE Mentions(_, _)
RECURSIVE attrsOf(_)
RECURSIVE valueOf(_, _, _)

\* The expression consists of sums and differences of series and columns.
Linear(e) == CASE e.t = "Binary" -> e.op \in {"+", "-"} /\ Linear(e.lhs) /\ Linear(e.rhs)
               [] e.t = "Paren"  -> Linear(e.expr)
               [] e.t = "Series" -> TRUE
               [] e.t = "Ref"    -> e.name \notin DOMAIN consts
               [] OTHER -> FALSE

seriesOf(e) == IF e.t = "Series" THEN selected[e.idx]
               ELSE columns[Max(columnsNamed(columns, <<e.name>>))].series

attrsOf(e) == CASE e.t = "Binary" -> attrsOf(e.lhs) \cup attrsOf(e.rhs)
                [] e.t = "Paren"  -> attrsOf(e.expr)
                [] OTHER -> {s.attrs : s \in ToSet(seriesOf(e))}

\* The number of one group in one bucket, 0 where there is none.
numberIn(ss, a, i) == IF \E s \in ToSet(ss) : s.attrs = a
                      THEN nan(heap[(CHOOSE s \in ToSet(ss) : s.attrs = a).ref][i]) ELSE 0

valueOf(e, a, i) ==
    CASE e.t = "Binary" -> IF e.op = "+" THEN valueOf(e.lhs, a, i) + valueOf(e.rhs, a, i)
                                         ELSE valueOf(e.lhs, a, i) - valueOf(e.rhs, a, i)
      [] e.t = "Paren"  -> valueOf(e.expr, a, i)
      [] OTHER -> numberIn(seriesOf(e), a, i)

newest == columns[Len(columns)]

\* A column just computed from sums and differences has one series for every
\* group some operand has, and in every bucket the sum or difference of what
\* the operands have there - unless a join outgrew its slice.
LinearExact ==
    (columns # <<>> /\ newest.of = pos /\ Linear(exprs[pos].expr) /\ ~grew) =>
        LET e == exprs[pos].expr
        IN  /\ {s.attrs : s \in ToSet(newest.series)} = attrsOf(e)
            /\ Len(newest.series) = Cardinality(attrsOf(e))
            /\ \A s \in ToSet(newest.series) : \A i \in DOMAIN heap[s.ref] :
                   nan(heap[s.ref][i]) = valueOf(e, s.attrs, i)

\* Some call of a function that works in place has a column below it.
Mentions(e, inCall) ==
    CASE e.t = "Binary"   -> Mentions(e.lhs, inCall) \/ Mentions(e.rhs, inCall)
      [] e.t = "Paren"    -> Mentions(e.expr, inCall)
      [] e.t = "FuncCall" -> \E n \in DOMAIN e.args : Mentions(e.args[n], TRUE)
      [] e.t = "Ref"      -> inCall
      [] OTHER -> FALSE

columnValues(n) == [k \in DOMAIN columns[n].series |-> heap[columns[n].series[k].ref]]

\* The numbers of a column never change once it is there, although columns
\* share their slices, except by delta, per_min or per_sec of a column.
ColumnsStable ==
    [][\A n \in DOMAIN columns :
          \/ columnValues(n)' = columnValues(n)
          \/ Mentions(exprs[pos'].expr, FALSE)]_vars

\* Each bucket of the range is whole.
WholeBuckets == (timeFilter.lt - timeFilter.gte) % timeFilter.interval = 0

RECURSIVE Divides(_)
Divides(e) == CASE e.t = "Binary"   -> e.op = "%" \/ Divides(e.lhs) \/ Divides(e.rhs)
                [] e.t = "Paren"    -> Divides(e.expr)
                [] e.t = "FuncCall" -> \E n \in DOMAIN e.args : Divides(e.args[n])
                [] OTHER -> FALSE


\* In a range of whole buckets all series of a graph have one number for each,
\* also when the range begins within a bucket of the database; join relies on
\* it when it walks two of them side by side.  (When the last bucket is cut off,
\* which only a request that names its interval can do, Fill leaves a series as
\* it is that has a point there.)
SeriesAligned ==
    WholeBuckets =>
        \A n \in DOMAIN selected : \A s \in ToSet(selected[n]) :
            Len(heap[s.ref]) = IF TableMode THEN 1
                               ELSE numItem(timeFilter.gte, timeFilter.lt, timeFilter.interval)
===========================================================================
