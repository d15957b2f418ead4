---------------------------- MODULE Datapoints ----------------------------
(***************************************************************************)
(* Ingestion of metrics: OTLP and Prometheus requests become datapoints    *)
(* (pkg/metrics/otlp.go, prom_remote_write.go), which the processor        *)
(* batches (datapoint_processor.go); goroutines turn cumulative points     *)
(* into deltas (cumtodelta.go), store the rows (datapoint.go) and register *)
(* the metrics (metric.go).                                                *)
(*                                                                         *)
(* A series is a counter or a histogram of the observed program.  It is    *)
(* read at times 1, 2, ...; readings arrive in any order, some twice, some *)
(* never.  What it has counted in truth at each reading is Total; what is  *)
(* exported is Value, which starts again at a restart of that program.     *)
(***************************************************************************)
EXTENDS Integers, Sequences, FiniteSets, SequencesExt

CONSTANTS
    Series,      \* time series
    MetricOf,    \* the metric of each series
    Attrs,       \* the attributes of each series, names to values
    Source,      \* how each series is exported, see Sources
    AttrNames,   \* attrNames: canonical names and the others they replace
    DropAttrs,   \* metrics.drop_attrs
    Total,
    Value,       \* bound: as many readings as it has values
    Start,       \* the start time exported with a value, 0 for Prometheus
    BufferSize,  \* metrics.buffer_size
    BatchSize,   \* metrics.batch_size
    CacheSize,   \* metrics.cum_to_delta_size
    Workers,     \* goroutines the gate lets through
    MaxPoints,   \* bound: datapoints that arrive
    MaxFaults    \* bound: restarts, writes that fail, cached metrics that expire

Readings(s) == DOMAIN Value[s]

Sources == {"gauge", "additive", "sum-delta", "sum-int", "sum-double", "histogram-delta",
            "histogram", "exp-histogram-delta", "exp-histogram", "summary", "no-value",
            "prom-counter", "prom-gauge"}

ASSUME SeriesAssumption ==
    /\ Source \in [Series -> Sources]
    /\ \A s \in Series :
        /\ Value[s] \in Seq(Nat) /\ {Total[s], Value[s], Start[s]} \subseteq [Readings(s) -> Nat]
        /\ Source[s] = "prom-counter" => \A t \in Readings(s) : Start[s][t] = 0

Counters == {"sum-int", "sum-double", "histogram", "exp-histogram", "prom-counter"}

\* What a counter exports, by the data model of OTLP and Prometheus: start times
\* do not go back.  A restart of the program shows in the start time or in a
\* lower value, which was then counted since the reading before; without one
\* the value grows by what was counted.
ASSUME CountersAssumption ==
    \A s \in {u \in Series : Source[u] \in Counters} :
        /\ \A t, u \in Readings(s) : t <= u => Start[s][t] <= Start[s][u]
        /\ \A t \in Readings(s) \ {1} :
            LET counted == Total[s][t] - Total[s][t - 1]
            IN  IF Start[s][t] = Start[s][t - 1] /\ Value[s][t] >= Value[s][t - 1]
                THEN Value[s][t] - Value[s][t - 1] = counted
                ELSE Value[s][t] <= counted
ASSUME SizesAssumption == {BufferSize, BatchSize, CacheSize} \subseteq Nat \ {0}

VARIABLES
    arrived,   \* how many datapoints were offered
    queue,     \* the channel
    batch,     \* datapoints of processLoop
    work,      \* each goroutine: its datapoints, the point it converts against,
               \* its rows and the metrics it has to register
    cache,     \* CumToDeltaConv, the latest used first
    counts,    \* BucketCounts of each histogram point, shared by reference
    spoiled,   \* points whose counts were overwritten before they were converted
    tracks,    \* how often a key was put into the cache, for the properties
    known,     \* metricCache, the entries of the last 15 minutes
    rows,      \* stored rows
    registered,\* the table of metrics
    unknown,   \* metrics whose registration failed, for the properties
    faults

vars == <<arrived, queue, batch, work, cache, counts, spoiled, tracks, known, rows, registered,
          unknown, faults>>

Idle == [points |-> << >>, prev |-> << >>, rows |-> {}, metrics |-> << >>, stored |-> FALSE]

Init ==
    /\ arrived = 0 /\ queue = << >> /\ batch = << >>
    /\ work = [w \in Workers |-> Idle]
    /\ cache = << >> /\ tracks = 0 /\ counts = << >> /\ spoiled = {}
    /\ known = {} /\ rows = {} /\ registered = {} /\ unknown = {}
    /\ faults = 0

-----------------------------------------------------------------------------
(* Requests.                                                               *)

Number(int, double) == [int |-> int, double |-> double]

\* A histogram has two bounds; nothing is above the second.
Buckets(v) == <<v \div 2, v - v \div 2, 0>>
Histogram(v) == [sum |-> v, count |-> v]

\* newBFloat16Histogram: how many observations the stored histogram counts.
HistogramCount(buckets) == buckets[1] + buckets[2] + buckets[3]

\* nextDatapoint and otlpNextDatapoint: reading t of series s, with no value.
nextDatapoint(s, t) ==
    [id |-> arrived + 1, series |-> s, time |-> t, kind |-> "none", start |-> 0, cum |-> << >>,
     gauge |-> 0, sum |-> 0, count |-> 0, hist |-> 0]

\* A value to be converted, with its start time; Prometheus has none.
Cumulative(dp, kind, cum, start) == [dp EXCEPT !.kind = kind, !.cum = cum, !.start = start]

otlpGauge(dp, v) == [dp EXCEPT !.gauge = v]

otlpSum(dp, v, source, start) ==
    CASE source = "additive" -> [dp EXCEPT !.gauge = v]
      [] source = "sum-delta" -> [dp EXCEPT !.sum = v]
      [] source = "sum-int" -> Cumulative(dp, "number", Number(v, 0), start)
      [] source = "sum-double" -> Cumulative(dp, "number", Number(0, v), start)

\* The buckets of a histogram are in counts.
otlpHistogram(dp, v, source, start) ==
    IF source = "histogram" THEN Cumulative(dp, "histogram", Histogram(v), start)
    ELSE [dp EXCEPT !.sum = v, !.count = v, !.hist = HistogramCount(Buckets(v))]

otlpExpHistogram(dp, v, source, start) ==
    IF source = "exp-histogram" THEN Cumulative(dp, "exp-histogram", Histogram(v), start)
    ELSE [dp EXCEPT !.sum = v, !.count = v, !.hist = v]

otlpSummary(dp, v) == [dp EXCEPT !.sum = v, !.count = v]

handleTimeseries(dp, v, source) ==
    IF source = "prom-counter" THEN Cumulative(dp, "number", Number(0, v), 0)
    ELSE [dp EXCEPT !.gauge = v]

\* process: the handler of the source makes the datapoint.
NextDatapoint(s, t) ==
    LET v == Value[s][t]
        source == Source[s]
        dp == nextDatapoint(s, t)
    IN  CASE source \in {"gauge", "no-value"} -> otlpGauge(dp, v)
          [] source \in {"additive", "sum-delta", "sum-int", "sum-double"} ->
                otlpSum(dp, v, source, Start[s][t])
          [] source \in {"histogram", "histogram-delta"} -> otlpHistogram(dp, v, source, Start[s][t])
          [] source \in {"exp-histogram", "exp-histogram-delta"} ->
                otlpExpHistogram(dp, v, source, Start[s][t])
          [] source = "summary" -> otlpSummary(dp, v)
          [] source \in {"prom-counter", "prom-gauge"} -> handleTimeseries(dp, v, source)

\* enqueue and AddDatapoint: a reading arrives; one without a recorded value
\* is skipped, and one that finds the channel full is dropped.
AddDatapoint ==
    /\ arrived < MaxPoints
    /\ arrived' = arrived + 1
    /\ \E s \in Series : \E t \in Readings(s) :
        LET dp == NextDatapoint(s, t)
        IN  IF Source[s] = "no-value" \/ Len(queue) = BufferSize THEN UNCHANGED <<queue, counts>>
            ELSE /\ queue' = Append(queue, dp)
                 /\ counts' = IF dp.kind = "histogram"
                              THEN [i \in DOMAIN counts \cup {dp.id} |->
                                        IF i = dp.id THEN Buckets(Value[s][t]) ELSE counts[i]]
                              ELSE counts
    /\ UNCHANGED <<batch, work, cache, spoiled, tracks, known, rows, registered, unknown, faults>>

-----------------------------------------------------------------------------
(* processLoop.                                                            *)

ReceiveDatapoint ==
    /\ queue # << >> /\ Len(batch) < BatchSize
    /\ batch' = Append(batch, Head(queue))
    /\ queue' = Tail(queue)
    /\ UNCHANGED <<arrived, work, cache, counts, spoiled, tracks, known, rows, registered, unknown,
                   faults>>

\* processDatapoints: the batch is full or the timer has fired, and the gate
\* lets another goroutine through.
ProcessDatapoints(w) ==
    /\ batch # << >> /\ work[w] = Idle
    /\ work' = [work EXCEPT ![w].points = batch]
    /\ batch' = << >>
    /\ UNCHANGED <<arrived, queue, cache, counts, spoiled, tracks, known, rows, registered, unknown,
                   faults>>

-----------------------------------------------------------------------------
(* _processDatapoints, which goes through the batch backwards.             *)

\* normAttrs: the first of the other names that is there becomes the canonical
\* one, if that is not there itself.
Renamed(name, attrs) ==
    LET alts == SelectSeq(name.alts, LAMBDA a : a \in DOMAIN attrs)
    IN  IF name.canonical \in DOMAIN attrs \/ alts = << >> THEN attrs
        ELSE [a \in (DOMAIN attrs \ {alts[1]}) \cup {name.canonical} |->
                IF a = name.canonical THEN attrs[alts[1]] ELSE attrs[a]]

normAttrs(attrs) == FoldLeft(LAMBDA as, name : Renamed(name, as), attrs, AttrNames)

\* initDatapoint: the attributes that make the key, of which some are dropped.
KeyAttrs == [s \in Series |->
    LET attrs == normAttrs(Attrs[s]) IN [a \in DOMAIN attrs \ DropAttrs |-> attrs[a]]]

Key(dp) == [metric |-> MetricOf[dp.series], attrs |-> KeyAttrs[dp.series], start |-> dp.start]
Entry(dp) == {e \in Range(cache) : e.key = Key(dp)}

Evict(entries) == IF Len(entries) < CacheSize THEN entries ELSE SubSeq(entries, 1, CacheSize - 1)

\* What a point leaves in the cache.
Fresh(dp, track) ==
    [key |-> Key(dp), id |-> dp.id, kind |-> dp.kind, point |-> dp.cum, time |-> dp.time, track |-> track]

\* MUTANT: a point older than the last one is taken as well.
SwapPointAnyTime(dp) ==
    IF Entry(dp) = {}
    THEN /\ cache' = <<Fresh(dp, tracks + 1)>> \o Evict(cache)
         /\ tracks' = tracks + 1
    ELSE /\ \E i \in {j \in DOMAIN cache : cache[j].key = Key(dp)} :
                cache' = <<Fresh(dp, cache[i].track)>> \o RemoveAt(cache, i)
         /\ UNCHANGED tracks

\* SwapPoint: the point becomes the last one of its key, unless it is older
\* than that.  Any look moves the key to the front; a new key takes the place
\* of the one that was not used for longest.
SwapPoint(dp) ==
    IF Entry(dp) = {}
    THEN /\ cache' = <<Fresh(dp, tracks + 1)>> \o Evict(cache)
         /\ tracks' = tracks + 1
    ELSE /\ \E i \in {j \in DOMAIN cache : cache[j].key = Key(dp)} :
            LET e == cache[i]
            IN  cache' = <<IF dp.time < e.time THEN e ELSE Fresh(dp, e.track)>> \o RemoveAt(cache, i)
         /\ UNCHANGED tracks

\* The previous point SwapPoint returns, if it is there and of the same type.
Previous(dp) ==
    {e \in Entry(dp) : e.kind = dp.kind /\ \E f \in Range(cache') : f.key = e.key /\ f.id = dp.id}

Row(dp) ==
    [id |-> dp.id, series |-> dp.series, track |-> 0, from |-> dp.time,
     to |-> dp.time, gauge |-> dp.gauge, sum |-> dp.sum, count |-> dp.count, hist |-> dp.hist]

\* upsertMetric: a metric that is not in the cache is put there and into the
\* list of this batch.
upsertMetric(w, dp) ==
    IF MetricOf[dp.series] \in known THEN work[w].metrics
    ELSE Append(work[w].metrics, MetricOf[dp.series])

\* The goroutine is done with the last datapoint of its list, of which it keeps
\* the rows new.
Advance(w, new) ==
    LET dp == Last(work[w].points)
    IN  /\ work' = [work EXCEPT ![w].points = Front(@), ![w].prev = << >>, ![w].rows = @ \cup new,
                                ![w].metrics = IF new = {} THEN @ ELSE upsertMetric(w, dp)]
        /\ known' = IF new = {} THEN known ELSE known \cup {MetricOf[dp.series]}

\* processDatapoint of a point that is not cumulative.
ProcessDatapoint(w) ==
    /\ work[w].points # << >>
    /\ LET dp == Last(work[w].points)
       IN  dp.kind = "none" /\ Advance(w, {Row(dp)})
    /\ UNCHANGED <<arrived, queue, batch, cache, counts, spoiled, tracks, rows, registered, unknown,
                   faults>>

\* A cumulative point takes the place of the previous one, under the lock of
\* the cache.
TakePrevious(w) ==
    /\ work[w].points # << >> /\ work[w].prev = << >>
    /\ LET dp == Last(work[w].points)
       IN  /\ dp.kind # "none"
           /\ SwapPoint(dp)
           /\ IF Previous(dp) = {} THEN Advance(w, {})
              ELSE /\ \E e \in Previous(dp) : work' = [work EXCEPT ![w].prev = <<e>>]
                   /\ UNCHANGED known
    /\ UNCHANGED <<arrived, queue, batch, counts, spoiled, rows, registered, unknown, faults>>

\* convertNumberPoint: the integers are compared first.
NumberDelta(point, prev) ==
    IF point.int > prev.int THEN point.int - prev.int
    ELSE IF point.double > prev.double THEN point.double - prev.double
    ELSE 0

\* makeDeltaCounts: a bucket that shrank counts nothing.
makeDeltaCounts(bucketCounts, prevCounts) ==
    [i \in DOMAIN bucketCounts |->
        IF bucketCounts[i] > prevCounts[i] THEN bucketCounts[i] - prevCounts[i] ELSE 0]

\* convertHistogramPoint and convertExpHistogramPoint: nothing if the count
\* went back.  The row of an exponential histogram keeps no buckets, as they
\* are collected after datapoint.Histogram was set.
Converted(dp, e) ==
    LET row == [Row(dp) EXCEPT !.track = e.track, !.from = e.time]
    IN  CASE dp.kind = "number" -> {[row EXCEPT !.sum = NumberDelta(dp.cum, e.point)]}
          [] dp.cum.count < e.point.count -> {}
          [] OTHER -> {[row EXCEPT !.sum = dp.cum.sum - e.point.sum,
                                   !.count = dp.cum.count - e.point.count,
                                   !.hist = IF dp.kind = "histogram"
                                            THEN HistogramCount(makeDeltaCounts(counts[dp.id], counts[e.id]))
                                            ELSE 0]}

\* The conversion itself, without a lock.  makeDeltaCounts writes its result
\* over the counts of the previous point, which its own goroutine may still
\* have to read.
Convert(w) ==
    /\ work[w].prev # << >>
    /\ LET dp == Last(work[w].points)
           e == work[w].prev[1]
           new == Converted(dp, e)
           overwrites == dp.kind = "histogram" /\ new # {}
       IN  /\ Advance(w, new)
           /\ counts' = IF overwrites
                        THEN [counts EXCEPT ![e.id] = makeDeltaCounts(counts[dp.id], @)]
                        ELSE counts
           /\ spoiled' = IF /\ overwrites
                            /\ \E v \in Workers : work[v].prev # << >> /\ Last(work[v].points).id = e.id
                         THEN spoiled \cup {e.id} ELSE spoiled
    /\ UNCHANGED <<arrived, queue, batch, cache, tracks, rows, registered, unknown, faults>>

\* MUTANT: the goroutine returns when the rows cannot be stored.
InsertReturns(w) ==
    /\ work[w] # Idle /\ work[w].points = << >> /\ ~work[w].stored
    /\ \/ rows' = rows \cup work[w].rows /\ UNCHANGED faults
          /\ work' = [work EXCEPT ![w].stored = TRUE, ![w].rows = {}]
       \/ work[w].rows # {} /\ faults < MaxFaults /\ faults' = faults + 1 /\ UNCHANGED rows
          /\ work' = [work EXCEPT ![w] = Idle]
    /\ UNCHANGED <<arrived, queue, batch, cache, counts, spoiled, tracks, known, registered, unknown>>

\* InsertDatapoints: the rows of the batch are stored, or the error is logged
\* and they are gone.
InsertDatapoints(w) ==
    /\ work[w] # Idle /\ work[w].points = << >> /\ ~work[w].stored
    /\ work' = [work EXCEPT ![w].stored = TRUE, ![w].rows = {}]
    /\ \/ rows' = rows \cup work[w].rows /\ UNCHANGED faults
       \/ work[w].rows # {} /\ faults < MaxFaults /\ faults' = faults + 1 /\ UNCHANGED rows
    /\ UNCHANGED <<arrived, queue, batch, cache, counts, spoiled, tracks, known, registered, unknown>>

\* UpsertMetrics: one statement for the list, which fails if a metric is in it
\* twice.
UpsertMetrics(w) ==
    /\ work[w].stored
    /\ LET metrics == Range(work[w].metrics)
           once == Cardinality(metrics) = Len(work[w].metrics)
       IN  \/ once /\ registered' = registered \cup metrics /\ UNCHANGED <<unknown, faults>>
           \/ /\ metrics # {} /\ UNCHANGED registered /\ unknown' = unknown \cup metrics
              /\ IF once THEN faults < MaxFaults /\ faults' = faults + 1 ELSE UNCHANGED faults
    /\ work' = [work EXCEPT ![w] = Idle]
    /\ UNCHANGED <<arrived, queue, batch, cache, counts, spoiled, tracks, known, rows>>

-----------------------------------------------------------------------------
\* An entry of metricCache is 15 minutes old, or makes room for another.
Expire(m) ==
    /\ m \in known /\ faults < MaxFaults
    /\ known' = known \ {m} /\ faults' = faults + 1
    /\ UNCHANGED <<arrived, queue, batch, work, cache, counts, spoiled, tracks, rows, registered, unknown>>

\* The process ends, at any point: among the reasons is a map of attributes
\* that the samples of a Prometheus series share, written by two goroutines.
\* What was not stored is lost.
Restart ==
    /\ faults < MaxFaults /\ faults' = faults + 1
    /\ queue' = << >> /\ batch' = << >> /\ work' = [w \in Workers |-> Idle]
    /\ cache' = << >> /\ known' = {}
    /\ unknown' = unknown \cup UNION {Range(work[w].metrics) : w \in Workers}
    /\ UNCHANGED <<arrived, counts, spoiled, tracks, rows, registered>>

Next ==
    \/ AddDatapoint
    \/ ReceiveDatapoint
    \/ \E w \in Workers :
        \/ ProcessDatapoints(w) \/ ProcessDatapoint(w) \/ TakePrevious(w) \/ Convert(w)
        \/ InsertDatapoints(w) \/ UpsertMetrics(w)
    \/ \E m \in Range(MetricOf) : Expire(m)
    \/ Restart

Spec == Init /\ [][Next]_vars

-----------------------------------------------------------------------------
(* Properties.                                                             *)

Converts(r) == r.track # 0

\* The key belongs to one series: attributes that are dropped or renamed do
\* not make two the same.
Own(r) == \A s \in Series \ {r.series} :
              MetricOf[s] = MetricOf[r.series] => KeyAttrs[s] # KeyAttrs[r.series]

Resets(r) == \E t \in r.from + 1..r.to : Value[r.series][t] < Value[r.series][t - 1]

\* A converted row counts what its series counted between the two readings it
\* comes from, and never more than that when the series started again in
\* between; rows converted since their key was put into the cache cover
\* intervals that do not overlap, whatever order readings arrive in and
\* however batches are spread over goroutines (SwapPoint and the conversions).
DeltasAddUp ==
    \A r \in rows : Converts(r) /\ Own(r) =>
        LET truth == Total[r.series][r.to] - Total[r.series][r.from]
        IN  /\ r.from <= r.to
            /\ r.sum <= truth
            /\ ~Resets(r) => r.sum = truth
            /\ r.hist # 0 \/ Source[r.series] = "histogram" => r.hist = r.count \/ r.id \in spoiled
            /\ \A q \in rows : q.track = r.track /\ q.id # r.id => q.to <= r.from \/ r.to <= q.from

\* The metric of a stored row is in the table of metrics, or a goroutine is
\* about to put it there, or a statement that would have done so failed or was
\* cut off: the cache never hides a metric that nobody registers
\* (upsertMetric, _processDatapoints).
MetricsKnown ==
    \A r \in rows :
        MetricOf[r.series] \in registered \cup unknown \cup UNION {Range(work[w].metrics) : w \in Workers}

=============================================================================
