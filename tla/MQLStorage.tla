---------------------------- MODULE MQLStorage ----------------------------
(***************************************************************************)
(* What the storage of metrics (metrics/upql_storage.go, bunutil) does to  *)
(* a selection: which functions an instrument has, how filters become      *)
(* conditions, how the rows of the database are spread over the buckets of *)
(* the time range, and how a table folds a series to one number.           *)
(*                                                                         *)
(* Numbers are integers; NaN and Inf stand for the special floats.  The    *)
(* text of the SQL is left out, its structure is kept.                     *)
(***************************************************************************)
EXTENDS Integers, Sequences, FiniteSets, SequencesExt

NaN == 99999
Inf == 88888
IsNaN(x) == x = NaN

\* CHStorage.agg: the aggregate for a function on an instrument, by function.
values5 == [f \in {"", "avg"} |-> "avg(gauge)"] @@ [sum |-> "sum(gauge)"]
           @@ [min |-> "min(gauge)"] @@ [max |-> "max(gauge)"]

aggregates ==
    [counter |-> [f \in {"", "sum"} |-> "sum(sum)"],
     gauge   |-> values5,
     additive |-> [f \in {"", "sum"} |-> "sum(gauge)"] @@ values5,
     summary |-> [count |-> "sum(count)", avg |-> "sum(sum)/sum(count)", sum |-> "sum(sum)",
                  min |-> "min(min)", max |-> "max(max)"],
     histogram |-> [f \in {"p50", "p75", "p90", "p95", "p99"} |-> "quantile(histogram)"]
                   @@ [avg |-> "sum(sum)/sum(count)", min |-> "min(min)", max |-> "max(max)",
                       count |-> "sum(count)"]]

aggFails(instrument, func) ==
    func # "uniq" /\ (instrument \notin DOMAIN aggregates
                      \/ func \notin DOMAIN aggregates[instrument])

\* compileFilters: a filter becomes a condition; an "exists" is written
\* without the operator that joins it to the conditions before it.
compileFilters(fs) ==
    [n \in DOMAIN fs |-> [join |-> IF n = 1 \/ fs[n].op = "exists" THEN ""
                                   ELSE IF fs[n].bool # "" THEN fs[n].bool ELSE "AND",
                          lhs |-> fs[n].lhs, op |-> fs[n].op]]

compileFails(fs) ==
    \E n \in DOMAIN fs :
        /\ fs[n].op # "exists"
        /\ \/ fs[n].rhs.t = "Nil"
           \/ fs[n].op \notin {"=", "!=", "in", "not in", "~", "!~", "like", "not like"}

\* What the database thinks of the conditions (external).
malformed(conds) == \E n \in DOMAIN conds : n > 1 /\ conds[n].join = ""

---------------------------------------------------------------------------
(* Buckets (bunutil.Fill).  A row of the database is a sequence of points  *)
(* [time, value] in the order of time.                                     *)

numItem(gte, lt, interval) == (lt - gte) \div interval

\* The quotient of durations is rounded to zero, so that a time shortly
\* before gte falls into the first bucket.
bucketOf(t, gte, interval) == IF t >= gte THEN (t - gte) \div interval
                              ELSE -((gte - t) \div interval)

\* As Fill, but only rows without any point are filled.
FillEmpty(points, gte, lt, interval) ==
    IF points # <<>> THEN [n \in DOMAIN points |-> points[n].value]
    ELSE [i \in 1..numItem(gte, lt, interval) |-> NaN]

Fill(points, gte, lt, interval) ==
    LET size == numItem(gte, lt, interval)
        at(n) == bucketOf(points[n].time, gte, interval)
        raw == [n \in DOMAIN points |-> points[n].value]
        last(i) == CHOOSE n \in DOMAIN points :
                       at(n) = i /\ \A m \in DOMAIN points : at(m) = i => m <= n
    IN  IF Len(points) = size \/ \E n \in DOMAIN points : at(n) \notin 0..size - 1
        THEN raw
        ELSE [i \in 1..size |-> IF \E n \in DOMAIN points : at(n) = i - 1
                                THEN points[last(i - 1)].value ELSE NaN]

---------------------------------------------------------------------------
(* One number for a series, in the mode of tables.                         *)

numbers(v) == SelectSeq(v, LAMBDA x : ~IsNaN(x))

minTableValue(v) == LET ns == numbers(v) IN IF ns = <<>> THEN 0 ELSE Min(ToSet(ns))
maxTableValue(v) == Max(ToSet(numbers(v)) \cup {0})
sumTableValue(v) == FoldLeft(LAMBDA x, y : x + y, 0, numbers(v))
avgTableValue(v) == LET ns == numbers(v)
                    IN  IF ns = <<>> THEN NaN ELSE sumTableValue(v) \div Len(ns)

\* The last of the three newest buckets that has a number.
lastTableValue(v) ==
    LET recent == numbers(SubSeq(v, Max({1, Len(v) - 2}), Len(v)))
    IN  IF recent = <<>> THEN 0 ELSE recent[Len(recent)]

\* The sum of the differences of neighbours.
deltaTableValue(v) ==
    LET ns == numbers(v)
    IN  IF v = <<>> THEN 0 ELSE IF ns = <<>> THEN 0 ELSE ns[Len(ns)] - ns[1]

tableValue(v, instrument, aggFunc, tableFunc) ==
    LET func == IF tableFunc # "" THEN tableFunc ELSE aggFunc
    IN  CASE func = "" -> IF instrument = "counter" THEN sumTableValue(v) ELSE lastTableValue(v)
          [] func = "min" -> minTableValue(v)
          [] func = "max" -> maxTableValue(v)
          [] func \in {"avg", "per_min", "per_sec", "p50", "p75", "p90", "p95", "p99"} -> avgTableValue(v)
          [] func \in {"sum", "count"} -> sumTableValue(v)
          [] func = "delta" -> deltaTableValue(v)
          [] OTHER -> lastTableValue(v)
===========================================================================
