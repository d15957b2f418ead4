-------------------------- MODULE DatapointsProofs --------------------------
(***************************************************************************)
(* Proofs about datapoints, for all series, readings, sizes of the queue,  *)
(* the batches and the cache and any number of goroutines: the deltas that *)
(* are stored add up to what was counted, and the metric of a row is       *)
(* registered.                                                             *)
(***************************************************************************)
EXTENDS Datapoints, SequenceTheorems, WellFoundedInduction, TLAPS

-----------------------------------------------------------------------------
(* The inductive invariant.                                                *)

Metrics == {MetricOf[s] : s \in Series}
Kinds == {"none", "number", "histogram", "exp-histogram"}
Cums == {<< >>} \cup [int : Nat, double : Nat] \cup [sum : Nat, count : Nat]
Keys == [metric : Metrics, attrs : {KeyAttrs[s] : s \in Series}, start : Nat]
DpRecs == [id : Nat, series : Series, time : Nat, kind : Kinds, start : Nat, cum : Cums,
           gauge : Nat, sum : Nat, count : Nat, hist : Nat]
EntryRecs == [key : Keys, id : Nat, kind : Kinds, point : Cums, time : Nat, track : Nat]
RowRecs == [id : Nat, series : Series, track : Nat, from : Nat, to : Nat,
            gauge : Nat, sum : Int, count : Int, hist : Nat]
WorkRecs == [points : Seq(DpRecs), prev : Seq(EntryRecs), rows : SUBSET RowRecs,
             metrics : Seq(Metrics), stored : BOOLEAN]

DatapointTypes ==
    /\ arrived \in Nat /\ tracks \in Nat
    /\ queue \in Seq(DpRecs) /\ batch \in Seq(DpRecs) /\ cache \in Seq(EntryRecs)
    /\ work \in [Workers -> WorkRecs]
    /\ DOMAIN counts \subseteq 1..arrived /\ counts \in [DOMAIN counts -> [1..3 -> Nat]]
    /\ rows \subseteq RowRecs

\* The goroutines that convert a point, the point, and the previous one.
Pending == {w \in Workers : work[w].prev # << >>}
Point(w) == Last(work[w].points)
Prev(w) == work[w].prev[1]

\* All datapoints; those whose key nobody has looked up; and the points of the
\* cache and of conversions.
AllPoints == Range(queue) \cup Range(batch) \cup UNION {Range(work[w].points) : w \in Workers}
Waiting ==
    Range(queue) \cup Range(batch) \cup
    UNION {{work[w].points[i] : i \in {j \in 1..Len(work[w].points) :
                                        w \notin Pending \/ j < Len(work[w].points)}} : w \in Workers}
Taken == Range(cache) \cup {Prev(w) : w \in Pending}

\* What the point of a series is.
KindOf(s) ==
    CASE Source[s] \in {"sum-int", "sum-double", "prom-counter"} -> "number"
      [] Source[s] = "histogram" -> "histogram"
      [] Source[s] = "exp-histogram" -> "exp-histogram"
      [] OTHER -> "none"
PointOf(s, v) ==
    CASE Source[s] = "sum-int" -> Number(v, 0)
      [] Source[s] \in {"sum-double", "prom-counter"} -> Number(0, v)
      [] OTHER -> Histogram(v)
KeyOf(s, t) == [metric |-> MetricOf[s], attrs |-> KeyAttrs[s], start |-> Start[s][t]]
Intact(id, s, t) == id \in DOMAIN counts /\ counts[id] = Buckets(Value[s][t])

\* A datapoint is reading dp.time of its series.
Fits(dp) ==
    /\ dp.id \in 1..arrived /\ dp.time \in Readings(dp.series) /\ dp.kind = KindOf(dp.series)
    /\ dp.kind # "none" => /\ dp.cum = PointOf(dp.series, Value[dp.series][dp.time])
                           /\ dp.start = Start[dp.series][dp.time] /\ dp.hist = 0

\* A point of the cache, or the previous one of a conversion, is a reading of
\* a series with its key.
EntryFits(e) ==
    /\ e.id \in 1..arrived /\ e.track \in 1..tracks /\ e.kind # "none"
    /\ \E s \in Series :
        /\ e.time \in Readings(s) /\ e.key = KeyOf(s, e.time) /\ e.kind = KindOf(s)
        /\ e.point = PointOf(s, Value[s][e.time])
        /\ e.kind = "histogram" => Intact(e.id, s, e.time)

\* Datapoints are ordered by their ids.
Ascending(q) == \A i, j \in 1..Len(q) : i < j => q[i].id < q[j].id
OrderOK ==
    /\ Ascending(queue) /\ Ascending(batch)
    /\ \A i \in 1..Len(batch), j \in 1..Len(queue) : batch[i].id < queue[j].id
    /\ \A w \in Workers :
        /\ Ascending(work[w].points)
        /\ \A i \in 1..Len(work[w].points) :
            /\ \A j \in 1..Len(batch) : work[w].points[i].id < batch[j].id
            /\ \A j \in 1..Len(queue) : work[w].points[i].id < queue[j].id
    /\ \A v, w \in Workers : v # w =>
        \A i \in 1..Len(work[v].points), j \in 1..Len(work[w].points) :
            work[v].points[i].id # work[w].points[j].id

\* The counts of a point that waits are its own and nobody converts against it.
PointsOK ==
    /\ \A dp \in AllPoints : Fits(dp)
    /\ \A dp \in Waiting :
        /\ dp.kind = "histogram" => Intact(dp.id, dp.series, dp.time)
        /\ \A e \in Taken : e.id # dp.id

\* A point has one entry, in the cache or at hand in one conversion.
CacheOK ==
    /\ \A e \in Taken : EntryFits(e)
    /\ \A i, j \in 1..Len(cache) : i # j => /\ cache[i].key # cache[j].key
                                            /\ cache[i].id # cache[j].id
                                            /\ cache[i].track # cache[j].track
    /\ \A w \in Pending : \A i \in 1..Len(cache) : Prev(w).id # cache[i].id
    /\ \A v, w \in Pending : v # w => Prev(v).id # Prev(w).id

\* What is converted is of the same key and kind, and not older.
PendingOK ==
    \A w \in Pending :
        /\ work[w].points # << >>
        /\ Prev(w).key = Key(Point(w)) /\ Prev(w).kind = Point(w).kind /\ Prev(w).time <= Point(w).time
        /\ Point(w).kind = "histogram" =>
            /\ Point(w).id \in DOMAIN counts
            /\ Intact(Point(w).id, Point(w).series, Point(w).time) \/ Point(w).id \in spoiled

\* What is counted between two readings, in rows and in conversions.
AllRows == rows \cup UNION {work[w].rows : w \in Workers}
Cover(r) == [id |-> r.id, track |-> r.track, from |-> r.from, to |-> r.to]
Converting(w) == [id |-> Point(w).id, track |-> Prev(w).track, from |-> Prev(w).time, to |-> Point(w).time]
Covers == {Cover(r) : r \in {q \in AllRows : Converts(q)}} \cup {Converting(w) : w \in Pending}

CoversOK ==
    /\ \A x \in Covers :
        /\ x.track \in 1..tracks
        /\ \A e \in Range(cache) : e.track = x.track => x.to <= e.time
    /\ \A x, y \in Covers : x.track = y.track /\ x.id # y.id => x.to <= y.from \/ y.to <= x.from

\* A converted row counts what its series counted.
RowOK(r) ==
    Converts(r) /\ Own(r) =>
        LET truth == Total[r.series][r.to] - Total[r.series][r.from]
        IN  /\ r.from <= r.to
            /\ r.sum <= truth
            /\ ~Resets(r) => r.sum = truth
            /\ r.hist # 0 \/ Source[r.series] = "histogram" => r.hist = r.count \/ r.id \in spoiled

RowsOK == \A r \in AllRows : RowOK(r)

\* Metrics that are registered, or will be, or whose registration failed.
Accounted == registered \cup unknown \cup UNION {Range(work[w].metrics) : w \in Workers}
MetricsOK == known \subseteq Accounted /\ \A r \in AllRows : MetricOf[r.series] \in Accounted

DatapointInv ==
    /\ DatapointTypes
    /\ OrderOK
    /\ PointsOK
    /\ CacheOK
    /\ PendingOK
    /\ CoversOK
    /\ RowsOK
    /\ MetricsOK

-----------------------------------------------------------------------------
(* Sequences.                                                              *)

\* The elements of a sequence.
LEMMA Elements ==
    ASSUME NEW S, NEW s \in Seq(S)
    PROVE  /\ Len(s) \in Nat /\ DOMAIN s = 1..Len(s) /\ \A i \in 1..Len(s) : s[i] \in S
           /\ Range(s) = {s[i] : i \in 1..Len(s)}
           /\ s # << >> => Len(s) > 0
BY LenProperties, ElementOfSeq, EmptySeq DEF Range

\* All but the last element.
LEMMA FrontSeq ==
    ASSUME NEW S, NEW s \in Seq(S), s # << >>
    PROVE  /\ Front(s) \in Seq(S) /\ Len(Front(s)) = Len(s) - 1 /\ Len(s) \in 1..Len(s)
           /\ \A i \in 1..(Len(s) - 1) : i \in 1..Len(s) /\ Front(s)[i] = s[i]
           /\ Last(s) = s[Len(s)] /\ Last(s) \in S
<1>1. Len(s) \in Nat /\ Len(s) > 0 /\ \A i \in 1..Len(s) : s[i] \in S
  BY Elements
<1>2. \A i \in 1..(Len(s) - 1) : s[i] \in S
  BY <1>1
<1> DEFINE n == Len(s) - 1
           f == SubSeq(s, 1, n)
<1>3. /\ f \in Seq(S) /\ Len(f) = IF 1 <= n THEN n - 1 + 1 ELSE 0
      /\ \A i \in 1..(n - 1 + 1) : f[i] = s[1 + i - 1]
  BY <1>1, <1>2, SubSeqProperties
<1>4. Front(s) = f /\ Last(s) = s[Len(s)]
  BY DEF Front, Last
<1> HIDE DEF f
<1>5. Len(f) = Len(s) - 1 /\ \A i \in 1..(Len(s) - 1) : i \in 1..Len(s) /\ f[i] = s[i]
  <2>1. n \in Nat /\ n = Len(s) - 1 /\ n - 1 + 1 = n
    BY <1>1
  <2> HIDE DEF n
  <2>2. Len(f) = n
    BY <1>3, <2>1
  <2>3. ASSUME NEW i \in 1..n PROVE i \in 1..Len(s) /\ f[i] = s[i]
    <3>1. i \in Nat /\ 1 + i - 1 = i /\ i \in 1..(n - 1 + 1) /\ i \in 1..Len(s)
      BY <1>1, <2>1
    <3>2. f[i] = s[1 + i - 1]
      BY <1>3, <3>1
    <3> QED
      BY <3>1, <3>2
  <2> QED
    BY <2>1, <2>2, <2>3
<1> QED
  BY <1>1, <1>3, <1>4, <1>5

\* A sequence without one of its elements.
LEMMA RemoveSeq ==
    ASSUME NEW S, NEW s \in Seq(S), NEW i \in 1..Len(s)
    PROVE  /\ RemoveAt(s, i) \in Seq(S) /\ Len(RemoveAt(s, i)) = Len(s) - 1
           /\ \A j \in 1..(Len(s) - 1) : RemoveAt(s, i)[j] = IF j < i THEN s[j] ELSE s[j + 1]
<1> DEFINE a == SubSeq(s, 1, i - 1)
           b == SubSeq(s, i + 1, Len(s))
<1>1. Len(s) \in Nat /\ i \in Nat /\ \A j \in 1..Len(s) : s[j] \in S
  BY Elements
<1>2. a \in Seq(S) /\ Len(a) = i - 1 /\ \A j \in 1..(i - 1) : a[j] = s[j]
  <2>1. \A j \in 1..(i - 1) : s[j] \in S
    BY <1>1
  <2>2. /\ a \in Seq(S) /\ Len(a) = IF 1 <= i - 1 THEN i - 1 - 1 + 1 ELSE 0
        /\ \A j \in 1..(i - 1 - 1 + 1) : a[j] = s[1 + j - 1]
    BY <1>1, <2>1, SubSeqProperties
  <2> QED
    BY <1>1, <2>2
<1>3. b \in Seq(S) /\ Len(b) = Len(s) - i /\ \A j \in 1..(Len(s) - i) : b[j] = s[j + i]
  <2>1. \A j \in (i + 1)..Len(s) : s[j] \in S
    BY <1>1
  <2>2. /\ b \in Seq(S) /\ Len(b) = IF i + 1 <= Len(s) THEN Len(s) - (i + 1) + 1 ELSE 0
        /\ \A j \in 1..(Len(s) - (i + 1) + 1) : b[j] = s[(i + 1) + j - 1]
    BY <1>1, <2>1, SubSeqProperties
  <2> QED
    BY <1>1, <2>2
<1> HIDE DEF a, b
<1> DEFINE c == a \o b
<1>4. /\ c \in Seq(S) /\ Len(c) = Len(a) + Len(b)
      /\ \A j \in 1..(Len(a) + Len(b)) : c[j] = IF j <= Len(a) THEN a[j] ELSE b[j - Len(a)]
  BY <1>2, <1>3, ConcatProperties
<1>5. RemoveAt(s, i) = c
  BY DEF RemoveAt, a, b
<1> HIDE DEF c
<1>6. ASSUME NEW j \in 1..(Len(s) - 1)
      PROVE  c[j] = IF j < i THEN s[j] ELSE s[j + 1]
  <2>1. c[j] = IF j <= i - 1 THEN a[j] ELSE b[j - (i - 1)]
    BY <1>1, <1>2, <1>3, <1>4
  <2>2. CASE j < i
    BY <1>1, <1>2, <2>1, <2>2
  <2>3. CASE j >= i
    <3>1. j - (i - 1) \in 1..(Len(s) - i) /\ (j - (i - 1)) + i = j + 1
      BY <1>1, <2>3
    <3>2. b[j - (i - 1)] = s[(j - (i - 1)) + i]
      BY <1>3, <3>1
    <3> QED
      BY <1>1, <2>1, <2>3, <3>1, <3>2
  <2> QED
    BY <1>1, <2>2, <2>3
<1> QED
  <2>1. Len(c) = Len(s) - 1
    BY <1>1, <1>2, <1>3, <1>4
  <2> QED
    BY <1>4, <1>5, <1>6, <2>1

\* What the cache keeps when a key is added.
LEMMA EvictSeq ==
    ASSUME NEW S, NEW s \in Seq(S)
    PROVE  /\ Evict(s) \in Seq(S) /\ Len(Evict(s)) <= Len(s)
           /\ \A j \in 1..Len(Evict(s)) : j \in 1..Len(s) /\ Evict(s)[j] = s[j]
<1>1. Len(s) \in Nat /\ \A j \in 1..Len(s) : s[j] \in S
  BY Elements
<1>2. CASE Len(s) < CacheSize
  BY <1>1, <1>2 DEF Evict
<1>3. CASE ~(Len(s) < CacheSize)
  <2> DEFINE n == CacheSize - 1
  <2>1. n \in Nat /\ n < Len(s) /\ Evict(s) = SubSeq(s, 1, n)
    BY <1>1, <1>3, SizesAssumption DEF Evict
  <2> HIDE DEF n
  <2>2. \A j \in 1..n : s[j] \in S
    BY <1>1, <2>1
  <2>3. /\ SubSeq(s, 1, n) \in Seq(S) /\ Len(SubSeq(s, 1, n)) = IF 1 <= n THEN n - 1 + 1 ELSE 0
        /\ \A j \in 1..(n - 1 + 1) : SubSeq(s, 1, n)[j] = s[1 + j - 1]
    BY <2>1, <2>2, SubSeqProperties
  <2> QED
    BY <1>1, <2>1, <2>3
<1> QED
  BY <1>2, <1>3

-----------------------------------------------------------------------------
(* What is counted between two readings.                                   *)

\* The readings of a counter with the same start time.
LEMMA CounterTruth ==
    ASSUME NEW s \in Series, Source[s] \in Counters, NEW t \in Readings(s), NEW u \in Readings(s), t <= u,
           Start[s][t] = Start[s][u]
    PROVE  /\ Value[s][u] - Value[s][t] <= Total[s][u] - Total[s][t]
           /\ Total[s][t] <= Total[s][u]
           /\ (\A k \in (t + 1)..u : ~(Value[s][k] < Value[s][k - 1])) =>
                Value[s][u] - Value[s][t] = Total[s][u] - Total[s][t] /\ Value[s][t] <= Value[s][u]
<1> DEFINE n == Len(Value[s])
           V == Value[s]
           T == Total[s]
           B == Start[s]
<1>1. /\ n \in Nat /\ Readings(s) = 1..n
      /\ V \in [1..n -> Nat] /\ T \in [1..n -> Nat] /\ B \in [1..n -> Nat]
  BY LenProperties, SeriesAssumption DEF Readings
<1>2. /\ \A x, y \in 1..n : x <= y => B[x] <= B[y]
      /\ \A x \in (1..n) \ {1} :
            IF B[x] = B[x - 1] /\ V[x] >= V[x - 1]
            THEN V[x] - V[x - 1] = T[x] - T[x - 1]
            ELSE V[x] <= T[x] - T[x - 1]
  BY <1>1, CountersAssumption
<1> HIDE DEF n, V, T, B
<1> DEFINE Good(k) ==
                /\ V[k] - V[t] <= T[k] - T[t] /\ T[t] <= T[k]
                /\ (\A j \in (t + 1)..k : ~(V[j] < V[j - 1])) => V[k] - V[t] = T[k] - T[t] /\ V[t] <= V[k]
           Bad == {k \in t..u : ~Good(k)}
<1>3. t \in 1..n /\ u \in 1..n /\ t \in Nat /\ u \in Nat
  BY <1>1, SMTT(30)
<1>4. Good(t)
  BY <1>1, <1>3
<1>5. ASSUME NEW k \in (t + 1)..u, Good(k - 1) PROVE Good(k)
  <2>1. k \in 1..n /\ k - 1 \in 1..n /\ k # 1 /\ k - 1 >= t /\ k <= u /\ k \in Nat
    BY <1>1, <1>3
  <2>2. V[k] \in Nat /\ V[k - 1] \in Nat /\ T[k] \in Nat /\ T[k - 1] \in Nat /\ V[t] \in Nat /\ T[t] \in Nat
    BY <1>1, <1>3, <2>1
  <2>3. B[k] = B[k - 1]
    <3>1. B[t] <= B[k - 1] /\ B[k - 1] <= B[k] /\ B[k] <= B[u] /\ B[t] = B[u]
      BY <1>2, <1>3, <2>1 DEF B
    <3>2. B[t] \in Nat /\ B[k] \in Nat /\ B[k - 1] \in Nat
      BY <1>1, <1>3, <2>1
    <3> QED
      BY <3>1, <3>2
  <2>4. IF V[k] >= V[k - 1] THEN V[k] - V[k - 1] = T[k] - T[k - 1] ELSE V[k] <= T[k] - T[k - 1]
    BY <1>2, <2>1, <2>3
  <2>5. V[k] - V[t] <= T[k] - T[t] /\ T[t] <= T[k]
    BY <1>5, <2>2, <2>4
  <2>6. ASSUME \A j \in (t + 1)..k : ~(V[j] < V[j - 1])
        PROVE  V[k] - V[t] = T[k] - T[t] /\ V[t] <= V[k]
    <3>1. ~(V[k] < V[k - 1])
      BY <1>3, <2>1, <2>6
    <3>2. \A j \in (t + 1)..(k - 1) : ~(V[j] < V[j - 1])
      BY <1>3, <2>1, <2>6
    <3>3. V[k - 1] - V[t] = T[k - 1] - T[t] /\ V[t] <= V[k - 1]
      BY <1>5, <3>2
    <3> QED
      BY <2>2, <2>4, <3>1, <3>3
  <2> QED
    BY <2>5, <2>6
<1>6. Bad = {}
  <2> SUFFICES ASSUME Bad # {} PROVE FALSE
    OBVIOUS
  <2>1. Bad \subseteq Nat
    BY <1>3
  <2>2. PICK k \in Bad : \A j \in Bad : ~(<<j, k>> \in OpToRel(<, Nat))
    BY <2>1, WFMin, NatLessThanWellFounded
  <2> HIDE DEF Good
  <2>3. k \in t..u /\ ~Good(k)
    BY <2>2
  <2>4. k # t
    BY <1>4, <2>3
  <2>5. k \in (t + 1)..u /\ k - 1 \in t..u /\ k - 1 \in Nat /\ k \in Nat
    BY <1>3, <2>3, <2>4
  <2>6. Good(k - 1)
    <3>1. SUFFICES ASSUME ~Good(k - 1) PROVE FALSE
      OBVIOUS
    <3>2. k - 1 \in Bad
      BY <2>5, <3>1
    <3>3. <<k - 1, k>> \in OpToRel(<, Nat)
      BY <2>5 DEF OpToRel
    <3> QED
      BY <2>2, <3>2, <3>3
  <2> QED
    BY <1>5, <2>3, <2>5, <2>6
<1>7. u \in t..u
  BY <1>3
<1>8. Good(u)
  BY <1>6, <1>7
<1> QED
  BY <1>8 DEF V, T

-----------------------------------------------------------------------------
(* Datapoints.                                                             *)

\* What nextDatapoint leaves to set.
SamePoint(d, b) == /\ d \in DpRecs /\ d.id = b.id /\ d.series = b.series /\ d.time = b.time
                   /\ d.kind = "none"

\* A point that is not cumulative.
LEMMA PointFields ==
    ASSUME NEW b \in DpRecs, b.kind = "none", NEW v \in Nat
    PROVE  /\ SamePoint([b EXCEPT !.gauge = v], b)
           /\ SamePoint([b EXCEPT !.sum = v], b)
           /\ SamePoint([b EXCEPT !.sum = v, !.count = v], b)
BY DEF DpRecs, SamePoint

\* A point with a histogram.
LEMMA HistogramFields ==
    ASSUME NEW b \in DpRecs, b.kind = "none", NEW v \in Nat, NEW h \in Nat,
           NEW d, d = [b EXCEPT !.sum = v, !.count = v, !.hist = h]
    PROVE  SamePoint(d, b)
BY DEF DpRecs, SamePoint

\* A cumulative point.
LEMMA CumulativeFields ==
    ASSUME NEW b \in DpRecs, b.hist = 0, NEW kind \in Kinds, NEW cum \in Cums, NEW start \in Nat,
           NEW d, d = Cumulative(b, kind, cum, start)
    PROVE  /\ d \in DpRecs /\ d.id = b.id /\ d.series = b.series /\ d.time = b.time
           /\ d.kind = kind /\ d.cum = cum /\ d.start = start /\ d.hist = 0
BY DEF DpRecs, Cumulative

\* The buckets of a histogram.
LEMMA BucketsOf ==
    ASSUME NEW v \in Nat
    PROVE  Buckets(v) \in [1..3 -> Nat] /\ HistogramCount(Buckets(v)) = v
<1>1. v \div 2 \in Nat /\ v - v \div 2 \in Nat
  OBVIOUS
<1> DEFINE a == v \div 2
           b == v - v \div 2
<1>2. a \in Nat /\ b \in Nat /\ a + b + 0 = v
  BY <1>1
<1> HIDE DEF a, b
<1>3. <<a, b, 0>> \in [1..3 -> Nat] /\ <<a, b, 0>>[1] = a /\ <<a, b, 0>>[2] = b /\ <<a, b, 0>>[3] = 0
  <2>1. DOMAIN <<a, b, 0>> = 1..3 /\ \A i \in 1..3 : i = 1 \/ i = 2 \/ i = 3
    OBVIOUS
  <2> QED
    BY <1>2, <2>1
<1>4. Buckets(v) = <<a, b, 0>>
  BY DEF Buckets, a, b
<1> QED
  BY <1>2, <1>3, <1>4 DEF HistogramCount

\* The datapoint of a reading.
LEMMA NewPoint ==
    ASSUME arrived \in Nat, NEW s \in Series, NEW t \in Readings(s), Source[s] # "no-value",
           NEW dp, dp = NextDatapoint(s, t)
    PROVE  /\ dp \in DpRecs /\ dp.id = arrived + 1 /\ dp.series = s /\ dp.time = t /\ dp.kind = KindOf(s)
           /\ dp.kind # "none" => /\ dp.cum = PointOf(s, Value[s][t]) /\ dp.start = Start[s][t]
                                  /\ dp.hist = 0
<1> DEFINE v == Value[s][t]
           start == Start[s][t]
           b == nextDatapoint(s, t)
<1>1. /\ v \in Nat /\ start \in Nat /\ t \in Nat /\ Source[s] \in Sources
      /\ Source[s] = "prom-counter" => start = 0
  <2>1. Readings(s) = 1..Len(Value[s]) /\ Len(Value[s]) \in Nat
    BY LenProperties, SeriesAssumption DEF Readings
  <2> QED
    BY <2>1, SeriesAssumption
<1>2. b \in DpRecs /\ b.kind = "none" /\ b.hist = 0 /\ b.id = arrived + 1 /\ b.series = s /\ b.time = t
  BY <1>1 DEF nextDatapoint, DpRecs, Kinds, Cums
<1>3. /\ Number(v, 0) \in Cums /\ Number(0, v) \in Cums /\ Histogram(v) \in Cums
      /\ \A k \in {"number", "histogram", "exp-histogram"} : k \in Kinds /\ k # "none"
  BY <1>1 DEF Number, Histogram, Cums, Kinds
<1>4. HistogramCount(Buckets(v)) \in Nat
  BY <1>1, BucketsOf
<1> HIDE DEF v, b, start
<1>5. dp = CASE Source[s] \in {"gauge", "no-value"} -> otlpGauge(b, v)
          [] Source[s] \in {"additive", "sum-delta", "sum-int", "sum-double"} ->
                otlpSum(b, v, Source[s], start)
          [] Source[s] \in {"histogram", "histogram-delta"} -> otlpHistogram(b, v, Source[s], start)
          [] Source[s] \in {"exp-histogram", "exp-histogram-delta"} ->
                otlpExpHistogram(b, v, Source[s], start)
          [] Source[s] = "summary" -> otlpSummary(b, v)
          [] Source[s] \in {"prom-counter", "prom-gauge"} -> handleTimeseries(b, v, Source[s])
  BY DEF NextDatapoint, v, start, b
<1>6. CASE Source[s] \in {"sum-int", "sum-double", "histogram", "exp-histogram", "prom-counter"}
  <2>1. dp = Cumulative(b, KindOf(s), PointOf(s, v), start) /\ KindOf(s) \in {"number", "histogram", "exp-histogram"}
            /\ PointOf(s, v) \in Cums
    <3>1. CASE Source[s] = "sum-int"
      BY <1>3, <1>5, <3>1 DEF otlpSum, KindOf, PointOf
    <3>2. CASE Source[s] = "sum-double"
      BY <1>3, <1>5, <3>2 DEF otlpSum, KindOf, PointOf
    <3>3. CASE Source[s] = "histogram"
      BY <1>3, <1>5, <3>3 DEF otlpHistogram, KindOf, PointOf
    <3>4. CASE Source[s] = "exp-histogram"
      BY <1>3, <1>5, <3>4 DEF otlpExpHistogram, KindOf, PointOf
    <3>5. CASE Source[s] = "prom-counter"
      BY <1>1, <1>3, <1>5, <3>5 DEF handleTimeseries, KindOf, PointOf
    <3> QED
      BY <1>6, <3>1, <3>2, <3>3, <3>4, <3>5
  <2> DEFINE cum == PointOf(s, v)
             kind == KindOf(s)
  <2>2. kind \in Kinds /\ cum \in Cums /\ dp = Cumulative(b, kind, cum, start)
    BY <1>3, <2>1
  <2> HIDE DEF cum, kind
  <2>3. /\ dp \in DpRecs /\ dp.id = b.id /\ dp.series = b.series /\ dp.time = b.time
        /\ dp.kind = kind /\ dp.cum = cum /\ dp.start = start /\ dp.hist = 0
    BY <1>1, <1>2, <2>2, CumulativeFields
  <2> QED
    BY <1>2, <2>3 DEF cum, kind, v, start
<1>7. CASE Source[s] \notin {"sum-int", "sum-double", "histogram", "exp-histogram", "prom-counter"}
  <2>1. KindOf(s) = "none"
    BY <1>7 DEF KindOf
  <2>2. /\ dp \in DpRecs /\ dp.id = b.id /\ dp.series = b.series /\ dp.time = b.time /\ dp.kind = "none"
    <3>1. CASE Source[s] = "gauge"
      <4>1. dp = [b EXCEPT !.gauge = v]
        BY <1>5, <3>1 DEF otlpGauge
      <4>2. SamePoint(dp, b)
        BY <1>1, <1>2, <1>4, <4>1, PointFields
      <4> QED
        BY <4>2 DEF SamePoint
    <3>2. CASE Source[s] = "additive"
      <4>1. dp = [b EXCEPT !.gauge = v]
        BY <1>5, <3>2 DEF otlpSum
      <4>2. SamePoint(dp, b)
        BY <1>1, <1>2, <1>4, <4>1, PointFields
      <4> QED
        BY <4>2 DEF SamePoint
    <3>3. CASE Source[s] = "sum-delta"
      <4>1. dp = [b EXCEPT !.sum = v]
        BY <1>5, <3>3 DEF otlpSum
      <4>2. SamePoint(dp, b)
        BY <1>1, <1>2, <1>4, <4>1, PointFields
      <4> QED
        BY <4>2 DEF SamePoint
    <3>4. CASE Source[s] = "histogram-delta"
      <4>1. PICK h \in Nat : dp = [b EXCEPT !.sum = v, !.count = v, !.hist = h]
        BY <1>4, <1>5, <3>4 DEF otlpHistogram
      <4>2. SamePoint(dp, b)
        BY <1>1, <1>2, <4>1, HistogramFields
      <4> QED
        BY <4>2 DEF SamePoint
    <3>5. CASE Source[s] = "exp-histogram-delta"
      <4>1. PICK h \in Nat : dp = [b EXCEPT !.sum = v, !.count = v, !.hist = h]
        BY <1>1, <1>5, <3>5 DEF otlpExpHistogram
      <4>2. SamePoint(dp, b)
        BY <1>1, <1>2, <4>1, HistogramFields
      <4> QED
        BY <4>2 DEF SamePoint
    <3>6. CASE Source[s] = "summary"
      <4>1. dp = [b EXCEPT !.sum = v, !.count = v]
        BY <1>5, <3>6 DEF otlpSummary
      <4>2. SamePoint(dp, b)
        BY <1>1, <1>2, <1>4, <4>1, PointFields
      <4> QED
        BY <4>2 DEF SamePoint
    <3>7. CASE Source[s] = "prom-gauge"
      <4>1. dp = [b EXCEPT !.gauge = v]
        BY <1>5, <3>7 DEF handleTimeseries
      <4>2. SamePoint(dp, b)
        BY <1>1, <1>2, <1>4, <4>1, PointFields
      <4> QED
        BY <4>2 DEF SamePoint
    <3> QED
      BY <1>1, <1>7, <3>1, <3>2, <3>3, <3>4, <3>5, <3>6, <3>7 DEF Sources
  <2> QED
    BY <1>2, <2>1, <2>2
<1> QED
  BY <1>6, <1>7

-----------------------------------------------------------------------------
(* Rows.                                                                   *)

\* The row of a datapoint.
LEMMA RowOf ==
    ASSUME NEW dp \in DpRecs
    PROVE  /\ Row(dp) \in RowRecs /\ Row(dp).track = 0 /\ Row(dp).series = dp.series
           /\ Row(dp).id = dp.id /\ Row(dp).to = dp.time /\ Row(dp).hist = dp.hist /\ Row(dp).count \in Int
BY DEF Row, DpRecs, RowRecs

\* The row of a conversion, but for what it counts.
DeltaRow(dp, e) == [Row(dp) EXCEPT !.track = e.track, !.from = e.time]

\* It is a row, of the series and the readings that are converted.
LEMMA DeltaRowOf ==
    ASSUME NEW dp \in DpRecs, NEW e \in EntryRecs, dp.hist = 0
    PROVE  LET r == DeltaRow(dp, e)
           IN  /\ r \in RowRecs /\ r.id = dp.id /\ r.series = dp.series /\ r.track = e.track
               /\ r.from = e.time /\ r.to = dp.time /\ r.hist = 0
<1>1. e.track \in Nat /\ e.time \in Nat
  BY DEF EntryRecs
<1> DEFINE row == Row(dp)
           track == e.track
           from == e.time
<1>2. row \in RowRecs /\ row.id = dp.id /\ row.series = dp.series /\ row.to = dp.time /\ row.hist = 0
  BY RowOf
<1>3. DeltaRow(dp, e) = [row EXCEPT !.track = track, !.from = from]
  BY DEF DeltaRow
<1> HIDE DEF row, track, from
<1> QED
  BY <1>1, <1>2, <1>3 DEF RowRecs, track, from

\* What a bucket counts in a delta.
LEMMA DeltaCounts ==
    ASSUME NEW b \in [1..3 -> Nat], NEW c \in [1..3 -> Nat]
    PROVE  makeDeltaCounts(b, c) \in [1..3 -> Nat] /\ HistogramCount(makeDeltaCounts(b, c)) \in Nat
<1>1. makeDeltaCounts(b, c) \in [1..3 -> Nat]
  <2>1. \A i \in 1..3 : b[i] \in Nat /\ c[i] \in Nat
    OBVIOUS
  <2>2. makeDeltaCounts(b, c) = [i \in 1..3 |-> IF b[i] > c[i] THEN b[i] - c[i] ELSE 0]
    BY DEF makeDeltaCounts
  <2>3. \A i \in 1..3 : (IF b[i] > c[i] THEN b[i] - c[i] ELSE 0) \in Nat
    BY <2>1
  <2> QED
    BY <2>2, <2>3
<1>2. 1 \in 1..3 /\ 2 \in 1..3 /\ 3 \in 1..3
  OBVIOUS
<1> DEFINE d == makeDeltaCounts(b, c)
<1> HIDE DEF d
<1>3. d[1] \in Nat /\ d[2] \in Nat /\ d[3] \in Nat
  BY <1>1, <1>2 DEF d
<1> QED
  BY <1>1, <1>3 DEF HistogramCount, d

\* The buckets of a delta count the observations in between.
LEMMA DeltaBuckets ==
    ASSUME NEW v \in Nat, NEW u \in Nat, u <= v
    PROVE  HistogramCount(makeDeltaCounts(Buckets(v), Buckets(u))) = v - u
<1> DEFINE b == Buckets(v)
           c == Buckets(u)
<1>1. b \in [1..3 -> Nat] /\ c \in [1..3 -> Nat]
  BY BucketsOf
<1>2. /\ b[1] = v \div 2 /\ b[2] = v - v \div 2 /\ b[3] = 0
      /\ c[1] = u \div 2 /\ c[2] = u - u \div 2 /\ c[3] = 0
  BY DEF Buckets
<1>3. /\ v \div 2 \in Nat /\ u \div 2 \in Nat /\ u \div 2 <= v \div 2 /\ u - u \div 2 <= v - v \div 2
      /\ v - v \div 2 \in Nat /\ u - u \div 2 \in Nat
  OBVIOUS
<1> HIDE DEF b, c
<1>4. \A i \in 1..3 : makeDeltaCounts(b, c)[i] = IF b[i] > c[i] THEN b[i] - c[i] ELSE 0
  BY <1>1 DEF makeDeltaCounts
<1>5. /\ makeDeltaCounts(b, c)[1] = (IF b[1] > c[1] THEN b[1] - c[1] ELSE 0)
      /\ makeDeltaCounts(b, c)[2] = (IF b[2] > c[2] THEN b[2] - c[2] ELSE 0)
      /\ makeDeltaCounts(b, c)[3] = (IF b[3] > c[3] THEN b[3] - c[3] ELSE 0)
  BY <1>4
<1> DEFINE x == v \div 2
           y == u \div 2
<1>6. x \in Nat /\ y \in Nat /\ y <= x /\ u - y <= v - x /\ v - x \in Nat /\ u - y \in Nat
  BY <1>3
<1>7. b[1] = x /\ b[2] = v - x /\ b[3] = 0 /\ c[1] = y /\ c[2] = u - y /\ c[3] = 0
  BY <1>2
<1> HIDE DEF x, y
<1>8. /\ makeDeltaCounts(b, c)[1] = x - y /\ makeDeltaCounts(b, c)[2] = (v - x) - (u - y)
      /\ makeDeltaCounts(b, c)[3] = 0
  BY <1>5, <1>6, <1>7
<1> QED
  BY <1>6, <1>8 DEF HistogramCount, b, c

\* The points of a series of one kind.
LEMMA PointsOf ==
    ASSUME NEW s \in Series, NEW v, KindOf(s) # "none"
    PROVE  /\ Source[s] \in Counters
           /\ KindOf(s) = "number" => PointOf(s, v) \in {Number(v, 0), Number(0, v)}
           /\ KindOf(s) # "number" => PointOf(s, v) = Histogram(v)
           /\ KindOf(s) = "histogram" <=> Source[s] = "histogram"
BY DEF KindOf, PointOf, Counters

\* What is converted counts what its series counted in between.
LEMMA ConvertedRow ==
    ASSUME DatapointTypes, NEW dp \in DpRecs, Fits(dp), NEW e \in EntryRecs, EntryFits(e),
           e.key = Key(dp), e.kind = dp.kind, e.time <= dp.time,
           dp.kind = "histogram" =>
                /\ dp.id \in DOMAIN counts
                /\ Intact(dp.id, dp.series, dp.time) \/ dp.id \in spoiled,
           NEW r \in Converted(dp, e)
    PROVE  /\ r \in RowRecs /\ r.id = dp.id /\ r.series = dp.series /\ r.track = e.track
           /\ r.from = e.time /\ r.to = dp.time /\ RowOK(r)
<1> DEFINE s == dp.series
           t == dp.time
           v == Value[s][t]
           row == DeltaRow(dp, e)
<1>1. PICK z \in Series :
        /\ e.time \in Readings(z) /\ e.key = KeyOf(z, e.time) /\ e.kind = KindOf(z)
        /\ e.point = PointOf(z, Value[z][e.time])
        /\ e.kind = "histogram" => Intact(e.id, z, e.time)
  BY DEF EntryFits
<1> DEFINE u == Value[z][e.time]
<1>2. /\ s \in Series /\ t \in Readings(s) /\ dp.kind = KindOf(s) /\ KindOf(s) # "none" /\ KindOf(z) = KindOf(s)
      /\ dp.cum = PointOf(s, v) /\ dp.start = Start[s][t] /\ dp.hist = 0 /\ e.point = PointOf(z, u)
  BY <1>1 DEF Fits, EntryFits, DpRecs
<1>3. v \in Nat /\ u \in Nat /\ t \in Nat /\ e.time \in Nat
  <2>1. \A q \in Series : Readings(q) = 1..Len(Value[q]) /\ \A i \in Readings(q) : Value[q][i] \in Nat
    BY LenProperties, ElementOfSeq, SeriesAssumption DEF Readings
  <2> QED
    BY <1>1, <1>2, <2>1
<1>4. \A i : Number(i, 0).int = i /\ Number(i, 0).double = 0 /\ Number(0, i).int = 0 /\ Number(0, i).double = i
        /\ Histogram(i).sum = i /\ Histogram(i).count = i
  BY DEF Number, Histogram
<1>5. MetricOf[z] = MetricOf[s] /\ KeyAttrs[z] = KeyAttrs[s] /\ Start[z][e.time] = Start[s][t]
  BY <1>1, <1>2 DEF Key, KeyOf
<1>6. ASSUME Own(r), r.series = s PROVE z = s
  BY <1>1, <1>2, <1>5, <1>6 DEF Own
<1>7. ASSUME z = s
      PROVE  /\ v - u <= Total[s][t] - Total[s][e.time] /\ 0 <= Total[s][t] - Total[s][e.time]
             /\ (\A k \in (e.time + 1)..t : ~(Value[s][k] < Value[s][k - 1])) =>
                    v - u = Total[s][t] - Total[s][e.time] /\ u <= v
             /\ Total[s][t] - Total[s][e.time] \in Int
  <2>1. Source[s] \in Counters /\ e.time \in Readings(s) /\ Start[s][e.time] = Start[s][t]
    BY <1>1, <1>2, <1>5, <1>7, PointsOf
  <2>2. Total[s][t] \in Nat /\ Total[s][e.time] \in Nat
    BY <1>2, <2>1, SeriesAssumption
  <2>3. /\ v - Value[s][e.time] <= Total[s][t] - Total[s][e.time]
        /\ Total[s][e.time] <= Total[s][t]
        /\ (\A k \in (e.time + 1)..t : ~(Value[s][k] < Value[s][k - 1])) =>
            v - Value[s][e.time] = Total[s][t] - Total[s][e.time] /\ Value[s][e.time] <= v
    BY <1>2, <2>1, CounterTruth
  <2> QED
    BY <1>7, <2>2, <2>3
<1>8. /\ row \in RowRecs /\ row.id = dp.id /\ row.series = dp.series /\ row.track = e.track
      /\ row.from = e.time /\ row.to = dp.time /\ row.hist = 0
  BY <1>2, DeltaRowOf
<1>9. CASE dp.kind = "number"
  <2> DEFINE sum == NumberDelta(dp.cum, e.point)
  <2>1. r = [row EXCEPT !.sum = sum]
    BY <1>9 DEF Converted, DeltaRow
  <2>2. dp.cum \in {Number(v, 0), Number(0, v)} /\ e.point \in {Number(u, 0), Number(0, u)}
    BY <1>2, <1>9, PointsOf
  <2>3. sum \in Nat
    BY <1>3, <1>4, <2>2 DEF NumberDelta
  <2>4. z = s => sum = IF v > u THEN v - u ELSE 0
    <3> SUFFICES ASSUME z = s PROVE sum = IF v > u THEN v - u ELSE 0
      OBVIOUS
    <3>1. \/ dp.cum = Number(v, 0) /\ e.point = Number(u, 0)
          \/ dp.cum = Number(0, v) /\ e.point = Number(0, u)
      BY <1>2, <1>9 DEF PointOf, KindOf
    <3> QED
      BY <1>3, <1>4, <3>1 DEF NumberDelta
  <2> HIDE DEF sum, row
  <2>6. /\ r \in RowRecs /\ r.id = dp.id /\ r.series = dp.series /\ r.track = e.track
        /\ r.from = e.time /\ r.to = dp.time /\ r.sum = sum /\ r.hist = 0
    BY <1>8, <2>1, <2>3 DEF RowRecs
  <2>7. Source[s] # "histogram"
    BY <1>2, <1>9, PointsOf
  <2>8. RowOK(r)
    <3> SUFFICES ASSUME Own(r)
                 PROVE  LET truth == Total[s][t] - Total[s][e.time]
                        IN  sum <= truth /\ (~Resets(r) => sum = truth)
      BY <2>6, <2>7 DEF RowOK
    <3>1. z = s
      BY <1>6, <2>6
    <3>2. ~Resets(r) => \A k \in (e.time + 1)..t : ~(Value[s][k] < Value[s][k - 1])
      BY <2>6 DEF Resets
    <3> HIDE DEF v, u, s, t
    <3> QED
      BY <1>3, <1>7, <2>4, <3>1, <3>2
  <2> QED
    BY <2>6, <2>8
<1>10. CASE dp.kind # "number"
  <2> DEFINE sum == dp.cum.sum - e.point.sum
             count == dp.cum.count - e.point.count
             hist == IF dp.kind = "histogram"
                     THEN HistogramCount(makeDeltaCounts(counts[dp.id], counts[e.id])) ELSE 0
  <2>1. r = [row EXCEPT !.sum = sum, !.count = count, !.hist = hist] /\ ~(dp.cum.count < e.point.count)
    BY <1>10 DEF Converted, DeltaRow
  <2>2. dp.cum = Histogram(v) /\ e.point = Histogram(u)
    BY <1>2, <1>10, PointsOf
  <2>3. sum = v - u /\ count = v - u /\ u <= v /\ v - u \in Int
    BY <1>3, <1>4, <2>1, <2>2
  <2>4. hist \in Nat
    <3>1. CASE dp.kind = "histogram"
      <4>1. dp.id \in DOMAIN counts /\ e.id \in DOMAIN counts
        BY <1>1, <3>1 DEF Intact
      <4>2. counts[dp.id] \in [1..3 -> Nat] /\ counts[e.id] \in [1..3 -> Nat]
        BY <4>1 DEF DatapointTypes
      <4> QED
        BY <3>1, <4>2, DeltaCounts
    <3> QED
      BY <3>1
  <2>5. dp.kind = "histogram" /\ z = s => hist = v - u \/ dp.id \in spoiled
    <3> SUFFICES ASSUME dp.kind = "histogram", z = s, dp.id \notin spoiled PROVE hist = v - u
      OBVIOUS
    <3>1. counts[dp.id] = Buckets(v) /\ counts[e.id] = Buckets(u)
      BY <1>1 DEF Intact
    <3> QED
      BY <1>3, <2>3, <3>1, DeltaBuckets
  <2>6. dp.kind # "histogram" => hist = 0 /\ Source[s] # "histogram"
    BY <1>2, PointsOf
  <2> HIDE DEF sum, count, hist, row
  <2>7. /\ r \in RowRecs /\ r.id = dp.id /\ r.series = dp.series /\ r.track = e.track
        /\ r.from = e.time /\ r.to = dp.time /\ r.sum = sum /\ r.count = count /\ r.hist = hist
    BY <1>8, <2>1, <2>3, <2>4 DEF RowRecs
  <2>9. RowOK(r)
    <3> SUFFICES ASSUME Own(r)
                 PROVE  LET truth == Total[s][t] - Total[s][e.time]
                        IN  /\ sum <= truth /\ (~Resets(r) => sum = truth)
                            /\ hist # 0 \/ Source[s] = "histogram" => hist = count \/ dp.id \in spoiled
      BY <2>7 DEF RowOK
    <3>1. z = s
      BY <1>6, <2>7
    <3>2. ~Resets(r) => \A k \in (e.time + 1)..t : ~(Value[s][k] < Value[s][k - 1])
      BY <2>7 DEF Resets
    <3> HIDE DEF v, u, s, t
    <3> QED
      BY <1>3, <1>7, <2>3, <2>5, <2>6, <3>1, <3>2
  <2> QED
    BY <2>7, <2>9
<1> QED
  BY <1>9, <1>10

-----------------------------------------------------------------------------
(* Steps that leave the cache alone.                                       *)

\* What is found in the goroutines.
LEMMA WorkFields ==
    ASSUME DatapointTypes, NEW w \in Workers
    PROVE  /\ work[w] \in WorkRecs /\ work[w].points \in Seq(DpRecs) /\ work[w].prev \in Seq(EntryRecs)
           /\ work[w].rows \in SUBSET RowRecs /\ work[w].metrics \in Seq(Metrics)
           /\ work[w].stored \in BOOLEAN
BY DEF DatapointTypes, WorkRecs

\* Points that wait, are converted or are cached go on as they were; there may
\* be fewer of them, and new ones.
LEMMA Quiet ==
    ASSUME DatapointInv, arrived' \in Nat, arrived <= arrived', cache' = cache, tracks' = tracks,
           spoiled \subseteq spoiled', DOMAIN counts \subseteq DOMAIN counts', Pending' \subseteq Pending,
           \A v \in Pending' : work'[v].points # << >> /\ Point(v)' = Point(v) /\ Prev(v)' = Prev(v),
           \A d \in AllPoints' : d \in AllPoints \/ Fits(d)',
           \A d \in Waiting' :
                \/ d \in Waiting /\ (d.kind = "histogram" => counts'[d.id] = counts[d.id])
                \/ /\ d.kind = "histogram" => Intact(d.id, d.series, d.time)'
                   /\ \A e \in Taken : e.id # d.id,
           \A e \in Taken : e \in Taken' /\ e.kind = "histogram" => counts'[e.id] = counts[e.id],
           \A v \in Pending' : Point(v).kind = "histogram" =>
                counts'[Point(v).id] = counts[Point(v).id] \/ Point(v).id \in spoiled',
           Covers' \subseteq Covers,
           \A r \in AllRows' : r \in AllRows \/ RowOK(r)
    PROVE  PointsOK' /\ CacheOK' /\ PendingOK' /\ CoversOK' /\ RowsOK'
<1>1. arrived \in Nat /\ arrived' \in Nat /\ arrived <= arrived' /\ 1..arrived \subseteq 1..arrived'
  BY DEF DatapointInv, DatapointTypes
<1>2. Taken' \subseteq Taken
  BY DEF Taken
<1>3. PointsOK'
  <2>1. \A d \in AllPoints : Fits(d) => Fits(d)'
    BY <1>1 DEF Fits
  <2>2. \A d \in AllPoints' : Fits(d)'
    BY <2>1 DEF DatapointInv, PointsOK
  <2>3. ASSUME NEW d \in Waiting'
        PROVE  (d.kind = "histogram" => Intact(d.id, d.series, d.time)') /\ \A e \in Taken : e.id # d.id
    BY <2>3 DEF DatapointInv, PointsOK, Intact
  <2> QED
    BY <1>2, <2>2, <2>3 DEF PointsOK
<1>4. \A e \in Taken' : EntryFits(e)'
  <2> SUFFICES ASSUME NEW e \in Taken' PROVE EntryFits(e)'
    OBVIOUS
  <2>1. EntryFits(e) /\ e \in Taken
    BY <1>2 DEF DatapointInv, CacheOK
  <2>2. e.kind = "histogram" => counts'[e.id] = counts[e.id]
    BY <2>1
  <2>3. e.id \in 1..arrived' /\ e.track \in 1..tracks' /\ e.kind # "none"
    BY <1>1, <2>1 DEF EntryFits
  <2>4. PICK s \in Series :
        /\ e.time \in Readings(s) /\ e.key = KeyOf(s, e.time) /\ e.kind = KindOf(s)
        /\ e.point = PointOf(s, Value[s][e.time])
        /\ e.kind = "histogram" => Intact(e.id, s, e.time)
    BY <2>1 DEF EntryFits
  <2>5. e.kind = "histogram" => Intact(e.id, s, e.time)'
    BY <2>2, <2>4 DEF Intact
  <2> QED
    BY <2>3, <2>4, <2>5 DEF EntryFits
<1>5. CacheOK'
  BY <1>4 DEF DatapointInv, CacheOK
<1>6. PendingOK'
  <2> SUFFICES ASSUME NEW w \in Pending'
               PROVE  /\ work'[w].points # << >>
                      /\ Prev(w)'.key = Key(Point(w))' /\ Prev(w)'.kind = Point(w)'.kind
                      /\ Prev(w)'.time <= Point(w)'.time
                      /\ Point(w)'.kind = "histogram" =>
                            /\ Point(w)'.id \in DOMAIN counts'
                            /\ Intact(Point(w).id, Point(w).series, Point(w).time)' \/ Point(w)'.id \in spoiled'
    BY DEF PendingOK
  <2>1. PICK d, e : d = Point(w) /\ e = Prev(w) /\ d = Point(w)' /\ e = Prev(w)' /\ w \in Pending
    OBVIOUS
  <2>2. /\ e.key = Key(d) /\ e.kind = d.kind /\ e.time <= d.time
        /\ d.kind = "histogram" =>
            /\ d.id \in DOMAIN counts
            /\ Intact(d.id, d.series, d.time) \/ d.id \in spoiled
    BY <2>1 DEF DatapointInv, PendingOK
  <2>3. d.kind = "histogram" => counts'[d.id] = counts[d.id] \/ d.id \in spoiled'
    BY <2>1
  <2>4. d.kind = "histogram" =>
            /\ d.id \in DOMAIN counts'
            /\ Intact(d.id, d.series, d.time)' \/ d.id \in spoiled'
    BY <2>2, <2>3 DEF Intact
  <2> QED
    BY <2>1, <2>2, <2>4 DEF Key, Intact
<1>7. CoversOK'
  BY DEF DatapointInv, CoversOK
<1>8. RowsOK'
  <2>1. \A r : RowOK(r) => RowOK(r)'
    BY DEF RowOK, Resets, Own, Converts
  <2> QED
    BY <2>1 DEF DatapointInv, RowsOK
<1> QED
  BY <1>3, <1>5, <1>6, <1>7, <1>8

\* The elements of a sequence that grows at its end.
LEMMA RangeAppend ==
    ASSUME NEW S, NEW s \in Seq(S), NEW x \in S
    PROVE  Range(Append(s, x)) = Range(s) \cup {x}
<1> DEFINE a == Append(s, x)
<1>1. /\ a \in Seq(S) /\ Len(a) = Len(s) + 1 /\ Len(s) \in Nat /\ a[Len(s) + 1] = x
      /\ \A i \in 1..Len(s) : a[i] = s[i]
  BY AppendProperties, Elements
<1>2. Range(a) = {a[i] : i \in 1..(Len(s) + 1)} /\ Range(s) = {s[i] : i \in 1..Len(s)}
  BY <1>1, Elements
<1> HIDE DEF a
<1>3. 1..(Len(s) + 1) = (1..Len(s)) \cup {Len(s) + 1}
  BY <1>1
<1> QED
  BY <1>1, <1>2, <1>3 DEF a

\* The elements of a sequence that is read from its front.
LEMMA RangeTail ==
    ASSUME NEW S, NEW s \in Seq(S), s # << >>
    PROVE  Range(Tail(s)) \subseteq Range(s) /\ Head(s) \in Range(s)
<1> DEFINE t == Tail(s)
<1>1. /\ t \in Seq(S) /\ Len(t) = Len(s) - 1 /\ Len(s) \in Nat /\ Len(s) > 0
      /\ \A i \in 1..Len(t) : t[i] = s[i + 1]
  BY HeadTailProperties, Elements
<1>2. Range(t) = {t[i] : i \in 1..Len(t)} /\ Range(s) = {s[i] : i \in 1..Len(s)}
  BY <1>1, Elements
<1> HIDE DEF t
<1>3. \A i \in 1..Len(t) : i + 1 \in 1..Len(s)
  BY <1>1
<1>4. Range(t) \subseteq Range(s)
  BY <1>1, <1>2, <1>3
<1>5. Head(s) = s[1] /\ 1 \in 1..Len(s)
  BY <1>1
<1> QED
  BY <1>2, <1>4, <1>5 DEF t

\* A reading arrives.
LEMMA AddStep == ASSUME DatapointInv, AddDatapoint PROVE DatapointInv'
<1>1. /\ arrived' = arrived + 1 /\ batch' = batch /\ work' = work /\ cache' = cache /\ spoiled' = spoiled
      /\ tracks' = tracks /\ known' = known /\ rows' = rows /\ registered' = registered /\ unknown' = unknown
      /\ DatapointTypes /\ arrived \in Nat /\ arrived' \in Nat /\ arrived <= arrived'
      /\ OrderOK /\ PointsOK /\ CacheOK
  BY SMTT(30) DEF AddDatapoint, DatapointInv, DatapointTypes
<1>2. /\ Pending' = Pending /\ Taken' = Taken /\ Covers' = Covers /\ AllRows' = AllRows
      /\ \A v \in Pending' : Point(v)' = Point(v) /\ Prev(v)' = Prev(v) /\ work'[v].points = work[v].points
  BY <1>1 DEF Pending, Taken, Covers, AllRows, Converting, Point, Prev
<1>3. \A v \in Pending : work[v].points # << >>
  BY DEF DatapointInv, PendingOK
<1>4. MetricsOK'
  BY <1>1, <1>2 DEF DatapointInv, MetricsOK, Accounted
<1>5. \A d \in AllPoints : d.id \in 1..arrived
  BY <1>1 DEF PointsOK, Fits
<1>6. PICK s \in Series : \E t \in Readings(s) :
        LET dp == NextDatapoint(s, t)
        IN  IF Source[s] = "no-value" \/ Len(queue) = BufferSize THEN UNCHANGED <<queue, counts>>
            ELSE /\ queue' = Append(queue, dp)
                 /\ counts' = IF dp.kind = "histogram"
                              THEN [i \in DOMAIN counts \cup {dp.id} |->
                                        IF i = dp.id THEN Buckets(Value[s][t]) ELSE counts[i]]
                              ELSE counts
  BY DEF AddDatapoint
<1>7. PICK t \in Readings(s) :
        LET dp == NextDatapoint(s, t)
        IN  IF Source[s] = "no-value" \/ Len(queue) = BufferSize THEN UNCHANGED <<queue, counts>>
            ELSE /\ queue' = Append(queue, dp)
                 /\ counts' = IF dp.kind = "histogram"
                              THEN [i \in DOMAIN counts \cup {dp.id} |->
                                        IF i = dp.id THEN Buckets(Value[s][t]) ELSE counts[i]]
                              ELSE counts
  BY <1>6
<1>8. CASE UNCHANGED <<queue, counts>>
  <2>1. AllPoints' = AllPoints /\ Waiting' = Waiting
    BY <1>1, <1>2, <1>8 DEF AllPoints, Waiting
  <2>2. DatapointTypes' /\ OrderOK'
    <3>1. 1..arrived \subseteq 1..arrived'
      BY <1>1
    <3> QED
      BY <1>1, <1>8, <3>1 DEF DatapointTypes, OrderOK, Ascending
  <2>3. PointsOK' /\ CacheOK' /\ PendingOK' /\ CoversOK' /\ RowsOK'
    BY <1>1, <1>2, <1>3, <1>8, <2>1, Quiet
  <2> QED
    BY <1>4, <2>2, <2>3 DEF DatapointInv
<1>9. CASE ~UNCHANGED <<queue, counts>>
  <2>1. PICK dp, b : /\ dp = NextDatapoint(s, t) /\ b = Buckets(Value[s][t])
                     /\ queue' = Append(queue, dp)
                     /\ counts' = IF dp.kind = "histogram"
                                  THEN [i \in DOMAIN counts \cup {dp.id} |-> IF i = dp.id THEN b ELSE counts[i]]
                                  ELSE counts
    BY <1>7, <1>9
  <2>0. Source[s] # "no-value"
    BY <1>7, <1>9
  <2>2. /\ dp \in DpRecs /\ dp.id = arrived + 1 /\ dp.series = s /\ dp.time = t /\ dp.kind = KindOf(s)
        /\ dp.kind # "none" => /\ dp.cum = PointOf(s, Value[s][t]) /\ dp.start = Start[s][t]
                               /\ dp.hist = 0
    BY <1>1, <2>0, <2>1, NewPoint
  <2>3. b \in [1..3 -> Nat] /\ b = Buckets(Value[s][t])
    <3>1. Value[s][t] \in Nat
      BY ElementOfSeq, LenProperties, SeriesAssumption DEF Readings
    <3> QED
      BY <2>1, <3>1, BucketsOf
  <2>4. /\ queue' \in Seq(DpRecs) /\ Len(queue') = Len(queue) + 1 /\ queue'[Len(queue) + 1] = dp
        /\ Len(queue) \in Nat /\ \A i \in 1..Len(queue) : queue'[i] = queue[i]
        /\ Range(queue') = Range(queue) \cup {dp}
    BY <1>1, <2>1, <2>2, AppendProperties, Elements, RangeAppend DEF DatapointTypes
  <2>5. AllPoints' = AllPoints \cup {dp} /\ Waiting' = Waiting \cup {dp}
    BY <1>1, <1>2, <2>4 DEF AllPoints, Waiting
  <2>6. /\ DOMAIN counts \subseteq DOMAIN counts' /\ DOMAIN counts' \subseteq DOMAIN counts \cup {arrived + 1}
        /\ \A i \in DOMAIN counts : counts'[i] = counts[i]
        /\ dp.kind = "histogram" => dp.id \in DOMAIN counts' /\ counts'[dp.id] = b
        /\ counts' \in [DOMAIN counts' -> [1..3 -> Nat]]
    <3>0. DOMAIN counts \subseteq 1..arrived /\ arrived + 1 \notin DOMAIN counts
          /\ counts \in [DOMAIN counts -> [1..3 -> Nat]]
      BY <1>1 DEF DatapointTypes
    <3>1. CASE dp.kind # "histogram"
      BY <2>1, <3>0, <3>1
    <3>2. CASE dp.kind = "histogram"
      <4>1. counts' = [x \in DOMAIN counts \cup {arrived + 1} |-> IF x = arrived + 1 THEN b ELSE counts[x]]
        BY <2>1, <2>2, <3>2
      <4>2. DOMAIN counts' = DOMAIN counts \cup {arrived + 1}
        BY <4>1
      <4>3. \A i \in DOMAIN counts' : counts'[i] = IF i = arrived + 1 THEN b ELSE counts[i]
        BY <4>1
      <4> QED
        BY <2>2, <2>3, <3>0, <4>1, <4>2, <4>3
    <3> QED
      BY <3>1, <3>2
  <2>7. DatapointTypes'
    <3>1. 1..arrived \subseteq 1..arrived' /\ arrived + 1 \in 1..arrived'
      BY <1>1
    <3> QED
      BY <1>1, <2>4, <2>6, <3>1 DEF DatapointTypes
  <2>8. OrderOK'
    <3>1. \A d \in AllPoints : d.id < dp.id
      BY <1>1, <1>5, <2>2
    <3>2. /\ \A i \in 1..Len(queue) : queue[i] \in AllPoints
          /\ \A i \in 1..Len(batch) : batch[i] \in AllPoints
          /\ \A w \in Workers : \A i \in 1..Len(work[w].points) : work[w].points[i] \in AllPoints
      <4>1. \A w \in Workers : \A i \in 1..Len(work[w].points) : work[w].points[i] \in Range(work[w].points)
        BY <1>1, Elements, WorkFields
      <4> QED
        BY <1>1, <4>1, Elements DEF DatapointTypes, AllPoints
    <3>3. \A i \in 1..(Len(queue) + 1) : i \in 1..Len(queue) \/ i = Len(queue) + 1
      BY <2>4
    <3>4. Ascending(queue')
      <4> SUFFICES ASSUME NEW i \in 1..(Len(queue) + 1), NEW j \in 1..(Len(queue) + 1), i < j
                   PROVE  queue'[i].id < queue'[j].id
        BY <2>4 DEF Ascending
      <4>1. i \in 1..Len(queue) /\ i # Len(queue) + 1
        BY <2>4
      <4>2. CASE j \in 1..Len(queue)
        BY <1>1, <2>4, <4>1, <4>2 DEF OrderOK, Ascending
      <4>3. CASE j = Len(queue) + 1
        BY <2>4, <3>1, <3>2, <4>1, <4>3
      <4> QED
        BY <3>3, <4>2, <4>3
    <3>5. \A j \in 1..Len(queue') : queue'[j] = dp \/ (j \in 1..Len(queue) /\ queue'[j] = queue[j])
      <4>1. ASSUME NEW j \in 1..(Len(queue) + 1)
            PROVE  queue'[j] = dp \/ (j \in 1..Len(queue) /\ queue'[j] = queue[j])
        <5>1. CASE j \in 1..Len(queue)
          BY <2>4, <5>1
        <5>2. CASE j = Len(queue) + 1
          BY <2>4, <5>2
        <5> QED
          BY <3>3, <5>1, <5>2
      <4> QED
        BY <2>4, <4>1
    <3>6. \A i \in 1..Len(batch), j \in 1..Len(queue') : batch[i].id < queue'[j].id
      BY <1>1, <3>1, <3>2, <3>5 DEF OrderOK
    <3>7. \A w \in Workers : \A i \in 1..Len(work[w].points), j \in 1..Len(queue') :
                work[w].points[i].id < queue'[j].id
      BY <1>1, <3>1, <3>2, <3>5 DEF OrderOK
    <3> QED
      BY <1>1, <3>4, <3>6, <3>7 DEF OrderOK, Ascending
  <2>9. \A d \in Waiting : d \in AllPoints
    <3>1. \A w \in Workers : \A i \in 1..Len(work[w].points) : work[w].points[i] \in Range(work[w].points)
      BY <1>1, Elements, WorkFields
    <3> QED
      BY <3>1 DEF Waiting, AllPoints
  <2>10. /\ Fits(dp)' /\ \A e \in Taken : e.id # dp.id
         /\ dp.kind = "histogram" => Intact(dp.id, dp.series, dp.time)'
    <3>1. \A e \in Taken : e.id \in 1..arrived
      BY <1>1 DEF CacheOK, EntryFits
    <3>2. dp.id \in 1..arrived'
      BY <1>1, <2>2
    <3>3. Fits(dp)'
      BY <2>2, <3>2 DEF Fits
    <3>4. \A e \in Taken : e.id # dp.id
      BY <1>1, <2>2, <3>1
    <3> QED
      BY <2>2, <2>3, <2>6, <3>3, <3>4 DEF Intact
  <2>11. /\ \A d \in Waiting : d.kind = "histogram" => counts'[d.id] = counts[d.id]
         /\ \A e \in Taken : e.kind = "histogram" => counts'[e.id] = counts[e.id]
         /\ \A v \in Pending : Point(v).kind = "histogram" => counts'[Point(v).id] = counts[Point(v).id]
    BY <1>1, <2>6 DEF PointsOK, CacheOK, EntryFits, Intact, DatapointInv, PendingOK
  <2>12. PointsOK' /\ CacheOK' /\ PendingOK' /\ CoversOK' /\ RowsOK'
    BY <1>1, <1>2, <1>3, <2>5, <2>6, <2>10, <2>11, Quiet
  <2> QED
    BY <1>4, <2>7, <2>8, <2>12 DEF DatapointInv
<1> QED
  BY <1>8, <1>9

\* The channel is read.
LEMMA ReceiveStep == ASSUME DatapointInv, ReceiveDatapoint PROVE DatapointInv'
<1>1. /\ queue # << >> /\ batch' = Append(batch, Head(queue)) /\ queue' = Tail(queue)
      /\ arrived' = arrived /\ work' = work /\ cache' = cache /\ spoiled' = spoiled /\ counts' = counts
      /\ tracks' = tracks /\ known' = known /\ rows' = rows /\ registered' = registered /\ unknown' = unknown
      /\ DatapointTypes /\ arrived \in Nat /\ OrderOK
      /\ queue \in Seq(DpRecs) /\ batch \in Seq(DpRecs)
  BY DEF ReceiveDatapoint, DatapointInv, DatapointTypes
<1>2. /\ Pending' = Pending /\ Taken' = Taken /\ Covers' = Covers /\ AllRows' = AllRows
      /\ \A v \in Pending' : Point(v)' = Point(v) /\ Prev(v)' = Prev(v) /\ work'[v].points # << >>
  BY <1>1 DEF Pending, Taken, Covers, AllRows, Converting, Point, Prev, DatapointInv, PendingOK
<1>3. MetricsOK'
  BY <1>1, <1>2 DEF DatapointInv, MetricsOK, Accounted
<1> DEFINE n == Len(queue)
           m == Len(batch)
           h == Head(queue)
<1>4. /\ queue' \in Seq(DpRecs) /\ Len(queue') = n - 1 /\ n \in Nat /\ n > 0 /\ h = queue[1] /\ h \in DpRecs
      /\ \A i \in 1..(n - 1) : i + 1 \in 1..n /\ queue'[i] = queue[i + 1]
      /\ Range(queue') \subseteq Range(queue) /\ h \in Range(queue)
  <2>1. n \in Nat /\ n > 0 /\ queue[1] \in DpRecs
    BY <1>1, Elements
  <2>2. /\ queue' \in Seq(DpRecs) /\ Len(queue') = n - 1 /\ \A i \in 1..Len(queue') : queue'[i] = queue[i + 1]
        /\ h = queue[1]
    BY <1>1, HeadTailProperties
  <2>3. Range(queue') \subseteq Range(queue) /\ h \in Range(queue)
    BY <1>1, RangeTail
  <2> QED
    BY <2>1, <2>2, <2>3
<1>5. /\ batch' \in Seq(DpRecs) /\ Len(batch') = m + 1 /\ m \in Nat /\ batch'[m + 1] = h
      /\ \A i \in 1..m : batch'[i] = batch[i]
      /\ Range(batch') = Range(batch) \cup {h}
  BY <1>1, <1>4, AppendProperties, Elements, RangeAppend
<1> HIDE DEF n, m, h
<1>6. AllPoints' \subseteq AllPoints /\ Waiting' \subseteq Waiting
  BY <1>1, <1>2, <1>4, <1>5 DEF AllPoints, Waiting
<1>7. DatapointTypes'
  BY <1>1, <1>4, <1>5 DEF DatapointTypes
<1>8. OrderOK'
  <2>1. \A i \in 1..(m + 1) : (i \in 1..m /\ batch'[i] = batch[i]) \/ (i = m + 1 /\ batch'[i] = queue[1])
    BY <1>4, <1>5
  <2>2. \A i \in 1..(n - 1) : i + 1 \in 1..n /\ 1 \in 1..n /\ 1 < i + 1
    BY <1>4
  <2>3. \A i \in 1..m, j \in 1..n : batch[i].id < queue[j].id
    BY <1>1 DEF OrderOK, n, m
  <2>4. \A i, j \in 1..n : i < j => queue[i].id < queue[j].id
    BY <1>1 DEF OrderOK, Ascending, n
  <2>5. \A i, j \in 1..m : i < j => batch[i].id < batch[j].id
    BY <1>1 DEF OrderOK, Ascending, m
  <2>6. 1 \in 1..n
    BY <1>4
  <2>7. Ascending(batch')
    <3> SUFFICES ASSUME NEW i \in 1..(m + 1), NEW j \in 1..(m + 1), i < j PROVE batch'[i].id < batch'[j].id
      BY <1>5 DEF Ascending
    <3>1. i \in 1..m /\ batch'[i] = batch[i]
      <4>1. i # m + 1
        BY <1>5
      <4> QED
        BY <2>1, <4>1
    <3>2. CASE j \in 1..m /\ batch'[j] = batch[j]
      BY <2>5, <3>1, <3>2
    <3>3. CASE j = m + 1 /\ batch'[j] = queue[1]
      BY <2>3, <2>6, <3>1, <3>3
    <3> QED
      BY <2>1, <3>2, <3>3
  <2>8. Ascending(queue')
    <3> SUFFICES ASSUME NEW i \in 1..(n - 1), NEW j \in 1..(n - 1), i < j PROVE queue'[i].id < queue'[j].id
      BY <1>4 DEF Ascending
    <3>1. i + 1 \in 1..n /\ j + 1 \in 1..n /\ i + 1 < j + 1
      BY <1>4
    <3> QED
      BY <1>4, <2>4, <3>1
  <2>9. ASSUME NEW i \in 1..(m + 1), NEW j \in 1..(n - 1) PROVE batch'[i].id < queue'[j].id
    <3>1. j + 1 \in 1..n /\ 1 < j + 1 /\ queue'[j] = queue[j + 1]
      BY <1>4, <2>2
    <3>2. CASE i \in 1..m /\ batch'[i] = batch[i]
      BY <2>3, <3>1, <3>2
    <3>3. CASE i = m + 1 /\ batch'[i] = queue[1]
      BY <2>4, <2>6, <3>1, <3>3
    <3> QED
      BY <2>1, <3>2, <3>3
  <2>10. ASSUME NEW w \in Workers, NEW i \in 1..Len(work[w].points)
         PROVE  /\ \A j \in 1..(m + 1) : work[w].points[i].id < batch'[j].id
                /\ \A j \in 1..(n - 1) : work[w].points[i].id < queue'[j].id
    <3>1. /\ \A j \in 1..m : work[w].points[i].id < batch[j].id
          /\ \A j \in 1..n : work[w].points[i].id < queue[j].id
      BY <1>1 DEF OrderOK, n, m
    <3> QED
      BY <1>4, <2>1, <2>6, <3>1
  <2>11. Len(batch') = m + 1 /\ Len(queue') = n - 1
    BY <1>4, <1>5
  <2>12. \A i \in 1..Len(batch'), j \in 1..Len(queue') : batch'[i].id < queue'[j].id
    BY <2>9, <2>11
  <2>13. \A w \in Workers : \A i \in 1..Len(work'[w].points) :
            /\ \A j \in 1..Len(batch') : work'[w].points[i].id < batch'[j].id
            /\ \A j \in 1..Len(queue') : work'[w].points[i].id < queue'[j].id
    BY <1>1, <2>10, <2>11
  <2>14. /\ \A w \in Workers : Ascending(work'[w].points)
         /\ \A v, w \in Workers : v # w =>
                \A i \in 1..Len(work'[v].points), j \in 1..Len(work'[w].points) :
                    work'[v].points[i].id # work'[w].points[j].id
    BY <1>1 DEF OrderOK
  <2> QED
    BY <2>7, <2>8, <2>12, <2>13, <2>14 DEF OrderOK, Ascending
<1>9. PointsOK' /\ CacheOK' /\ PendingOK' /\ CoversOK' /\ RowsOK'
  BY <1>1, <1>2, <1>6, Quiet
<1> QED
  BY <1>3, <1>7, <1>8, <1>9 DEF DatapointInv

\* A goroutine starts with the batch.
LEMMA StartStep == ASSUME DatapointInv, NEW w \in Workers, ProcessDatapoints(w) PROVE DatapointInv'
<1> DEFINE b == batch
           g == [Idle EXCEPT !.points = b]
<1>1. /\ work[w] = Idle /\ work' = [work EXCEPT ![w].points = batch] /\ batch' = << >> /\ b # << >>
      /\ arrived' = arrived /\ queue' = queue /\ cache' = cache /\ spoiled' = spoiled /\ counts' = counts
      /\ tracks' = tracks /\ known' = known /\ rows' = rows /\ registered' = registered /\ unknown' = unknown
      /\ DatapointTypes /\ arrived \in Nat /\ OrderOK
      /\ queue \in Seq(DpRecs) /\ b \in Seq(DpRecs) /\ work \in [Workers -> WorkRecs]
  BY DEF ProcessDatapoints, DatapointInv, DatapointTypes
<1>2. work' = [work EXCEPT ![w] = g]
  BY <1>1
<1> HIDE DEF b
<1>3. /\ g.points = b /\ g.prev = << >> /\ g.rows = {} /\ g.metrics = << >> /\ g.stored = FALSE
      /\ work[w].points = << >> /\ work[w].prev = << >> /\ work[w].rows = {} /\ work[w].metrics = << >>
      /\ g \in WorkRecs
  <2>2. Idle.points = << >> /\ Idle.prev = << >> /\ Idle.rows = {} /\ Idle.metrics = << >> /\ Idle.stored = FALSE
    BY DEF Idle
  <2>3. Idle \in WorkRecs
    BY <1>1
  <2>4. /\ g \in WorkRecs /\ g.points = b /\ g.prev = Idle.prev /\ g.rows = Idle.rows
        /\ g.metrics = Idle.metrics /\ g.stored = Idle.stored
    BY <1>1, <2>3 DEF WorkRecs
  <2> QED
    BY <1>1, <2>2, <2>4
<1> HIDE DEF g
<1>4. /\ work' \in [Workers -> WorkRecs] /\ work'[w] = g /\ \A v \in Workers \ {w} : work'[v] = work[v]
      /\ \A v \in Workers : work'[v].prev = work[v].prev /\ work'[v].rows = work[v].rows
                            /\ work'[v].metrics = work[v].metrics
  BY <1>1, <1>2, <1>3
<1>5. /\ Pending' = Pending /\ w \notin Pending /\ AllRows' = AllRows
      /\ \A v \in Pending : work'[v] = work[v] /\ Point(v)' = Point(v) /\ Prev(v)' = Prev(v)
                            /\ work'[v].points # << >>
  BY <1>1, <1>3, <1>4 DEF Pending, AllRows, Point, Prev, DatapointInv, PendingOK
<1>6. Taken' = Taken /\ Covers' = Covers
  BY <1>1, <1>5 DEF Taken, Covers, Converting
<1>7. MetricsOK'
  BY <1>1, <1>4, <1>5 DEF DatapointInv, MetricsOK, Accounted
<1>8. DatapointTypes'
  BY <1>1, <1>4 DEF DatapointTypes
<1>9. Range(batch') = {} /\ Len(batch') = 0 /\ Range(b) = {b[i] : i \in 1..Len(b)} /\ Len(b) \in Nat
  BY <1>1, Elements DEF Range
<1>10. AllPoints' = AllPoints
  <2>1. \A v \in Workers \ {w} : Range(work'[v].points) = Range(work[v].points)
    BY <1>4
  <2>2. Range(work'[w].points) = Range(b) /\ Range(work[w].points) = {}
    BY <1>3, <1>4 DEF Range
  <2> QED
    BY <1>1, <1>9, <2>1, <2>2, SMTT(30) DEF AllPoints, b
<1>11. Waiting' \subseteq Waiting
  <2> SUFFICES ASSUME NEW d \in Waiting' PROVE d \in Waiting
    OBVIOUS
  <2>1. CASE d \in Range(queue') \cup Range(batch')
    BY <1>1, <1>9, <2>1 DEF Waiting
  <2>2. ASSUME NEW v \in Workers, NEW i \in 1..Len(work'[v].points), v \notin Pending' \/ i < Len(work'[v].points),
               d = work'[v].points[i]
        PROVE  d \in Waiting
    <3>1. CASE v = w
      BY <1>3, <1>4, <1>9, <2>2, <3>1 DEF Waiting, b
    <3>2. CASE v # w
      BY <1>4, <1>5, <2>2, <3>2 DEF Waiting
    <3> QED
      BY <3>1, <3>2
  <2> QED
    BY <2>1, <2>2 DEF Waiting
<1>12. OrderOK'
  <2>1. Ascending(queue') /\ Ascending(batch')
    BY <1>1, <1>9 DEF OrderOK, Ascending
  <2>2. ASSUME NEW v \in Workers
        PROVE  /\ Ascending(work'[v].points)
               /\ \A i \in 1..Len(work'[v].points) : \A j \in 1..Len(queue') : work'[v].points[i].id < queue'[j].id
    <3>1. CASE v = w
      BY <1>1, <1>3, <1>4, <3>1 DEF OrderOK, Ascending, b
    <3>2. CASE v # w
      BY <1>1, <1>4, <3>2 DEF OrderOK
    <3> QED
      BY <3>1, <3>2
  <2>3. ASSUME NEW u \in Workers, NEW v \in Workers, u # v, NEW i \in 1..Len(work'[u].points),
               NEW j \in 1..Len(work'[v].points)
        PROVE  work'[u].points[i].id # work'[v].points[j].id
    <3>0. \A x \in Workers : \A k \in 1..Len(work[x].points), l \in 1..Len(b) : work[x].points[k].id # b[l].id
      <4> SUFFICES ASSUME NEW x \in Workers, NEW k \in 1..Len(work[x].points), NEW l \in 1..Len(b)
                   PROVE  work[x].points[k].id # b[l].id
        OBVIOUS
      <4>1. work[x].points[k].id < b[l].id
        BY <1>1 DEF OrderOK, b
      <4>2. b[l].id \in Nat /\ work[x].points[k].id \in Nat
        <5>1. work[x].points \in Seq(DpRecs)
          BY <1>1, WorkFields
        <5>2. b[l] \in DpRecs /\ work[x].points[k] \in DpRecs
          BY <1>1, <5>1, Elements
        <5> QED
          BY <5>2 DEF DpRecs
      <4> QED
        BY <4>1, <4>2
    <3>1. CASE u = w
      BY <1>3, <1>4, <2>3, <3>0, <3>1
    <3>2. CASE v = w
      BY <1>3, <1>4, <2>3, <3>0, <3>2
    <3>3. CASE u # w /\ v # w
      BY <1>1, <1>4, <2>3, <3>3 DEF OrderOK
    <3> QED
      BY <3>1, <3>2, <3>3
  <2> QED
    BY <1>9, <2>1, <2>2, <2>3 DEF OrderOK, Ascending
<1>13. PointsOK' /\ CacheOK' /\ PendingOK' /\ CoversOK' /\ RowsOK'
  BY <1>1, <1>5, <1>6, <1>10, <1>11, Quiet
<1> QED
  BY <1>7, <1>8, <1>12, <1>13 DEF DatapointInv

-----------------------------------------------------------------------------
(* A goroutine is done with its last point, or converts it.                *)

\* No other datapoint has the id of the last point of a goroutine.
LEMMA LastAlone ==
    ASSUME DatapointTypes, OrderOK, NEW w \in Workers, work[w].points # << >>, NEW d,
           \/ d \in Range(queue) \cup Range(batch)
           \/ \E v \in Workers \ {w} : d \in Range(work[v].points)
           \/ \E i \in 1..(Len(work[w].points) - 1) : d = work[w].points[i]
    PROVE  d.id # Point(w).id
<1> DEFINE p == work[w].points
           n == Len(p)
<1>1. /\ p \in Seq(DpRecs) /\ n \in Nat /\ n > 0 /\ n \in 1..n /\ Point(w) = p[n] /\ p[n].id \in Nat
      /\ \A i \in 1..n : p[i].id \in Nat
  <2>1. p \in Seq(DpRecs) /\ p # << >>
    BY WorkFields
  <2>2. \A x \in DpRecs : x.id \in Nat
    BY DEF DpRecs
  <2> HIDE DEF p
  <2>3. n \in Nat /\ n > 0 /\ n \in 1..n /\ Last(p) = p[n] /\ \A i \in 1..n : p[i] \in DpRecs
    BY <2>1, FrontSeq, Elements
  <2> QED
    BY <2>1, <2>2, <2>3 DEF Point, p
<1>2. CASE d \in Range(queue)
  <2>1. queue \in Seq(DpRecs)
    BY DEF DatapointTypes
  <2>2. PICK j \in 1..Len(queue) : d = queue[j]
    BY <1>2, <2>1, Elements
  <2>3. d \in DpRecs
    BY <2>1, <2>2, Elements
  <2>4. p[n].id < d.id
    BY <1>1, <2>2 DEF OrderOK
  <2>5. d.id \in Nat
    BY <2>3 DEF DpRecs
  <2> QED
    BY <1>1, <2>4, <2>5
<1>3. CASE d \in Range(batch)
  <2>1. batch \in Seq(DpRecs)
    BY DEF DatapointTypes
  <2>2. PICK j \in 1..Len(batch) : d = batch[j]
    BY <1>3, <2>1, Elements
  <2>3. d \in DpRecs
    BY <2>1, <2>2, Elements
  <2>4. p[n].id < d.id
    BY <1>1, <2>2 DEF OrderOK
  <2>5. d.id \in Nat
    BY <2>3 DEF DpRecs
  <2> QED
    BY <1>1, <2>4, <2>5
<1>4. ASSUME NEW v \in Workers \ {w}, d \in Range(work[v].points) PROVE d.id # Point(w).id
  <2>1. PICK j \in 1..Len(work[v].points) : d = work[v].points[j]
    BY <1>4, WorkFields, Elements, SMTT(30)
  <2> QED
    BY <1>1, <2>1, SMTT(30) DEF OrderOK
<1>5. ASSUME NEW i \in 1..(n - 1), d = p[i] PROVE d.id # Point(w).id
  <2>1. i \in 1..n /\ i < n
    BY <1>1
  <2>2. p[i].id < p[n].id
    BY <1>1, <2>1 DEF OrderOK, Ascending
  <2> QED
    BY <1>1, <1>5, <2>1, <2>2
<1> QED
  BY <1>2, <1>3, <1>4, <1>5

\* A goroutine leaves its last point, and keeps the rows new.
LEMMA Advanced ==
    ASSUME DatapointInv, NEW w \in Workers, work[w].points # << >>, NEW new \in SUBSET RowRecs, Advance(w, new),
           \A r \in new : r.series = Point(w).series, UNCHANGED <<queue, batch, rows, registered, unknown>>
    PROVE  /\ work' \in [Workers -> WorkRecs] /\ \A v \in Workers \ {w} : work'[v] = work[v]
           /\ Pending' = Pending \ {w} /\ AllRows' = AllRows \cup new
           /\ AllPoints' \subseteq AllPoints
           /\ \A d \in Waiting' : d \in Waiting /\ d.id # Point(w).id
           /\ OrderOK' /\ MetricsOK'
<1> DEFINE p == work[w].points
           n == Len(p)
           ms == IF new = {} THEN work[w].metrics ELSE upsertMetric(w, Point(w))
           old == work[w]
           front == Front(p)
           rs == old.rows \cup new
           g == [old EXCEPT !.points = front, !.prev = << >>, !.rows = rs, !.metrics = ms]
<1>1. /\ DatapointTypes /\ OrderOK /\ work \in [Workers -> WorkRecs] /\ p \in Seq(DpRecs) /\ old \in WorkRecs
      /\ p # << >>
  BY WorkFields DEF DatapointInv, DatapointTypes
<1>2. work' = [work EXCEPT ![w] = g] /\ known' = IF new = {} THEN known ELSE known \cup {MetricOf[Point(w).series]}
  BY DEF Advance, Point
<1>3. /\ front \in Seq(DpRecs) /\ Len(front) = n - 1 /\ n \in 1..n /\ n \in Nat /\ Point(w) = p[n]
      /\ \A i \in 1..(n - 1) : i \in 1..n /\ front[i] = p[i]
      /\ Point(w) \in DpRecs
  <2> HIDE DEF p
  <2>1. Len(p) \in Nat
    BY <1>1, Elements
  <2> QED
    BY <1>1, <2>1, FrontSeq DEF Point, p
<1>4. /\ ms \in Seq(Metrics) /\ Range(work[w].metrics) \subseteq Range(ms)
      /\ new # {} => MetricOf[Point(w).series] \in Range(ms) \cup known
      /\ Range(ms) \subseteq Range(work[w].metrics) \cup {MetricOf[Point(w).series]}
  <2> DEFINE m == MetricOf[Point(w).series]
             o == work[w].metrics
  <2>1. m \in Metrics /\ o \in Seq(Metrics)
    BY <1>1, <1>3, WorkFields DEF Metrics, DpRecs
  <2> HIDE DEF m, o
  <2>2. Append(o, m) \in Seq(Metrics) /\ Range(Append(o, m)) = Range(o) \cup {m}
    BY <2>1, AppendProperties, RangeAppend
  <2>3. ms = IF new = {} \/ m \in known THEN o ELSE Append(o, m)
    BY DEF upsertMetric, m, o
  <2> HIDE DEF ms
  <2> QED
    BY <2>1, <2>2, <2>3 DEF m, o
<1> HIDE DEF front, ms, p
<1>5. /\ g \in WorkRecs /\ g.points = front /\ g.prev = << >> /\ g.rows = rs /\ g.metrics = ms
  <2>1. << >> \in Seq(EntryRecs) /\ rs \in SUBSET RowRecs
    BY <1>1, EmptySeq, WorkFields
  <2> HIDE DEF old, rs
  <2> QED
    BY <1>1, <1>3, <1>4, <2>1 DEF WorkRecs
<1> HIDE DEF g
<1>6. /\ work' \in [Workers -> WorkRecs] /\ work'[w] = g /\ \A v \in Workers \ {w} : work'[v] = work[v]
  BY <1>1, <1>2, <1>5
<1>7. Pending' = Pending \ {w} /\ AllRows' = AllRows \cup new
  BY <1>5, <1>6 DEF Pending, AllRows
<1>8. Range(front) \subseteq Range(p)
  <2>1. Range(front) = {front[i] : i \in 1..(n - 1)} /\ Range(p) = {p[i] : i \in 1..n}
    BY <1>1, <1>3, Elements
  <2> QED
    BY <1>3, <2>1
<1>9. AllPoints' \subseteq AllPoints
  BY <1>5, <1>6, <1>8 DEF AllPoints, p
<1>10. ASSUME NEW d \in Waiting' PROVE d \in Waiting /\ d.id # Point(w).id
  <2>1. CASE d \in Range(queue) \cup Range(batch)
    BY <1>1, <2>1, LastAlone DEF Waiting
  <2>2. ASSUME NEW v \in Workers, v # w, NEW i \in 1..Len(work'[v].points),
               v \notin Pending' \/ i < Len(work'[v].points), d = work'[v].points[i]
        PROVE  d \in Waiting /\ d.id # Point(w).id
    <3>1. i \in 1..Len(work[v].points) /\ (v \notin Pending \/ i < Len(work[v].points)) /\ d = work[v].points[i]
      BY <1>6, <1>7, <2>2
    <3>2. d \in Range(work[v].points)
      BY <1>1, <3>1, Elements, WorkFields
    <3>3. d.id # Point(w).id
      BY <1>1, <2>2, <3>2, LastAlone
    <3> QED
      BY <3>1, <3>3 DEF Waiting
  <2>3. ASSUME NEW i \in 1..Len(work'[w].points), d = work'[w].points[i]
        PROVE  d \in Waiting /\ d.id # Point(w).id
    <3>1. i \in 1..(n - 1) /\ i \in 1..n /\ i < n /\ d = p[i]
      BY <1>3, <1>5, <1>6, <2>3
    <3>2. d.id # Point(w).id
      BY <1>1, <3>1, LastAlone DEF p
    <3> QED
      BY <3>1, <3>2 DEF Waiting, p
  <2> QED
    BY <2>1, <2>2, <2>3 DEF Waiting
<1>11. OrderOK'
  <2>1. Ascending(front)
    BY <1>1, <1>3 DEF OrderOK, Ascending, p
  <2>2. ASSUME NEW v \in Workers
        PROVE  /\ Ascending(work'[v].points)
               /\ \A i \in 1..Len(work'[v].points) :
                    \E j \in 1..Len(work[v].points) : work'[v].points[i] = work[v].points[j]
    <3>1. CASE v = w
      BY <1>3, <1>5, <1>6, <2>1, <3>1 DEF p
    <3>2. CASE v # w
      BY <1>1, <1>6, <3>2 DEF OrderOK
    <3> QED
      BY <3>1, <3>2
  <2> QED
    <3>1. Ascending(queue) /\ Ascending(batch) /\ \A i \in 1..Len(batch), j \in 1..Len(queue) : batch[i].id < queue[j].id
      BY <1>1 DEF OrderOK
    <3>2. ASSUME NEW v \in Workers, NEW i \in 1..Len(work'[v].points)
          PROVE  /\ \A j \in 1..Len(batch) : work'[v].points[i].id < batch[j].id
                 /\ \A j \in 1..Len(queue) : work'[v].points[i].id < queue[j].id
      <4>1. PICK k \in 1..Len(work[v].points) : work'[v].points[i] = work[v].points[k]
        BY <2>2
      <4> QED
        BY <1>1, <4>1 DEF OrderOK
    <3>3. ASSUME NEW u \in Workers, NEW v \in Workers, u # v, NEW i \in 1..Len(work'[u].points),
                 NEW j \in 1..Len(work'[v].points)
          PROVE  work'[u].points[i].id # work'[v].points[j].id
      <4>1. PICK k \in 1..Len(work[u].points) : work'[u].points[i] = work[u].points[k]
        BY <2>2
      <4>2. PICK l \in 1..Len(work[v].points) : work'[v].points[j] = work[v].points[l]
        BY <2>2
      <4> QED
        BY <1>1, <3>3, <4>1, <4>2 DEF OrderOK
    <3> QED
      BY <2>2, <3>1, <3>2, <3>3 DEF OrderOK, Ascending
<1>12. MetricsOK'
  <2>1. Range(work'[w].metrics) = Range(ms) /\ \A v \in Workers \ {w} : work'[v].metrics = work[v].metrics
    BY <1>5, <1>6
  <2>2. Accounted \subseteq Accounted' /\ Range(ms) \subseteq Accounted'
    BY <1>4, <2>1 DEF Accounted
  <2>3. known \subseteq Accounted /\ \A r \in AllRows : MetricOf[r.series] \in Accounted
    BY DEF DatapointInv, MetricsOK
  <2> QED
    BY <1>2, <1>4, <1>7, <2>2, <2>3 DEF MetricsOK
<1> QED
  BY <1>6, <1>7, <1>9, <1>10, <1>11, <1>12

\* A point that is not cumulative becomes a row.
LEMMA ProcessStep == ASSUME DatapointInv, NEW w \in Workers, ProcessDatapoint(w) PROVE DatapointInv'
<1> DEFINE row == Row(Point(w))
<1>1. /\ work[w].points # << >> /\ Advance(w, {row}) /\ UNCHANGED <<queue, batch, rows, registered, unknown>>
      /\ arrived' = arrived /\ cache' = cache /\ spoiled' = spoiled /\ counts' = counts /\ tracks' = tracks
      /\ DatapointTypes /\ arrived \in Nat
  BY DEF ProcessDatapoint, DatapointInv, DatapointTypes, Point
<1>2. row \in RowRecs /\ row.track = 0 /\ row.series = Point(w).series
  <2>1. Point(w) \in DpRecs
    BY <1>1, WorkFields, FrontSeq DEF Point
  <2> QED
    BY <2>1, RowOf
<1> HIDE DEF row
<1> DEFINE new == {row}
<1>3. new \in SUBSET RowRecs /\ Advance(w, new) /\ \A r \in new : r.series = Point(w).series
  BY <1>1, <1>2
<1> HIDE DEF new
<1>4. /\ work' \in [Workers -> WorkRecs] /\ \A v \in Workers \ {w} : work'[v] = work[v]
      /\ Pending' = Pending \ {w} /\ AllRows' = AllRows \cup new
      /\ AllPoints' \subseteq AllPoints
      /\ \A d \in Waiting' : d \in Waiting /\ d.id # Point(w).id
      /\ OrderOK' /\ MetricsOK'
  BY <1>1, <1>3, Advanced
<1>5. \A v \in Pending' : work'[v].points # << >> /\ Point(v)' = Point(v) /\ Prev(v)' = Prev(v)
                          /\ Converting(v)' = Converting(v)
  BY <1>4 DEF Pending, Point, Prev, Converting, DatapointInv, PendingOK
<1>6. \A r \in new : ~Converts(r)
  BY <1>2 DEF Converts, new
<1>7. Covers' \subseteq Covers
  <2>1. ASSUME NEW r \in AllRows', Converts(r) PROVE Cover(r) \in Covers
    BY <1>4, <1>6, <2>1 DEF Covers
  <2>2. \A v \in Pending' : Converting(v)' \in Covers
    BY <1>4, <1>5 DEF Covers
  <2> QED
    BY <2>1, <2>2 DEF Covers
<1>8. \A r \in AllRows' : r \in AllRows \/ RowOK(r)
  BY <1>4, <1>6 DEF RowOK
<1>9. DatapointTypes'
  BY <1>1, <1>4 DEF DatapointTypes
<1>10. Taken' \subseteq Taken
  BY <1>1, <1>4, <1>5 DEF Taken
<1>11. PointsOK' /\ CacheOK' /\ PendingOK' /\ CoversOK' /\ RowsOK'
  BY <1>1, <1>4, <1>5, <1>7, <1>8, Quiet
<1> QED
  BY <1>4, <1>9, <1>11 DEF DatapointInv

\* The rows of a batch are stored, or lost.
LEMMA InsertStep == ASSUME DatapointInv, NEW w \in Workers, InsertDatapoints(w) PROVE DatapointInv'
<1> DEFINE old == work[w]
           g == [old EXCEPT !.stored = TRUE, !.rows = {}]
<1>1. /\ old.points = << >> /\ work' = [work EXCEPT ![w] = g]
      /\ rows' = rows \cup old.rows \/ rows' = rows
      /\ UNCHANGED <<arrived, queue, batch, cache, counts, spoiled, tracks, known, registered, unknown>>
      /\ DatapointTypes /\ arrived \in Nat /\ OrderOK
      /\ work \in [Workers -> WorkRecs] /\ old \in WorkRecs /\ old.rows \subseteq RowRecs
  BY WorkFields DEF InsertDatapoints, DatapointInv, DatapointTypes
<1>2. w \notin Pending
  BY <1>1 DEF DatapointInv, PendingOK
<1>3. g \in WorkRecs /\ g.points = old.points /\ g.prev = old.prev /\ g.rows = {} /\ g.metrics = old.metrics
  <2> HIDE DEF old
  <2> QED
    BY <1>1 DEF WorkRecs
<1> HIDE DEF g
<1>4. /\ work' \in [Workers -> WorkRecs] /\ work'[w] = g /\ \A v \in Workers \ {w} : work'[v] = work[v]
      /\ \A v \in Workers : work'[v].points = work[v].points /\ work'[v].prev = work[v].prev
                            /\ work'[v].metrics = work[v].metrics
  BY <1>1, <1>3
<1>5. /\ Pending' = Pending /\ Taken' = Taken /\ AllPoints' = AllPoints /\ Waiting' = Waiting
      /\ \A v \in Pending' : work'[v].points # << >> /\ Point(v)' = Point(v) /\ Prev(v)' = Prev(v)
                             /\ Converting(v)' = Converting(v)
  BY <1>1, <1>4 DEF Pending, Taken, AllPoints, Waiting, Point, Prev, Converting, DatapointInv, PendingOK
<1>6. AllRows' \subseteq AllRows /\ rows' \subseteq RowRecs
  <2>1. rows' \subseteq AllRows /\ old.rows \subseteq AllRows
    BY <1>1 DEF AllRows
  <2>2. \A v \in Workers : work'[v].rows \subseteq AllRows
    BY <1>3, <1>4 DEF AllRows
  <2>3. rows' \subseteq RowRecs
    BY <1>1 DEF DatapointTypes
  <2> QED
    BY <2>1, <2>2, <2>3 DEF AllRows
<1>7. Covers' \subseteq Covers
  BY <1>5, <1>6 DEF Covers
<1>8. DatapointTypes' /\ OrderOK' /\ MetricsOK'
  <2>1. DatapointTypes'
    BY <1>1, <1>4, <1>6 DEF DatapointTypes
  <2>2. OrderOK'
    BY <1>1, <1>4 DEF OrderOK, Ascending
  <2>3. Accounted' = Accounted
    BY <1>1, <1>4 DEF Accounted
  <2>4. MetricsOK'
    BY <1>1, <1>6, <2>3 DEF DatapointInv, MetricsOK
  <2> QED
    BY <2>1, <2>2, <2>4
<1>9. PointsOK' /\ CacheOK' /\ PendingOK' /\ CoversOK' /\ RowsOK'
  BY <1>1, <1>5, <1>6, <1>7, Quiet
<1> QED
  BY <1>8, <1>9 DEF DatapointInv

\* A goroutine that has nothing to do.
LEMMA IdleWork ==
    /\ Idle \in WorkRecs /\ Idle.points = << >> /\ Idle.prev = << >> /\ Idle.rows = {} /\ Idle.metrics = << >>
    /\ Range(Idle.points) = {} /\ Range(Idle.metrics) = {} /\ Len(Idle.points) = 0 /\ Ascending(Idle.points)
<1>1. << >> \in Seq(DpRecs) /\ << >> \in Seq(EntryRecs) /\ << >> \in Seq(Metrics) /\ Len(<< >>) = 0
  BY EmptySeq
<1>2. Range(<< >>) = {}
  BY DEF Range
<1>3. Idle.points = << >> /\ Idle.prev = << >> /\ Idle.rows = {} /\ Idle.metrics = << >>
  BY DEF Idle
<1>4. Idle \in WorkRecs
  BY <1>1 DEF Idle, WorkRecs
<1>5. Ascending(<< >>)
  BY DEF Ascending
<1> QED
  BY <1>1, <1>2, <1>3, <1>4, <1>5

\* The metrics of a batch are registered, or not.
LEMMA UpsertStep == ASSUME DatapointInv, NEW w \in Workers, UpsertMetrics(w) PROVE DatapointInv'
<1>1. /\ work' = [work EXCEPT ![w] = Idle] /\ registered \subseteq registered' /\ unknown \subseteq unknown'
      /\ Range(work[w].metrics) \subseteq registered' \cup unknown'
      /\ UNCHANGED <<arrived, queue, batch, cache, counts, spoiled, tracks, known, rows>>
      /\ DatapointTypes /\ arrived \in Nat /\ OrderOK /\ work \in [Workers -> WorkRecs]
  BY DEF UpsertMetrics, DatapointInv, DatapointTypes
<1>2. /\ work' \in [Workers -> WorkRecs] /\ work'[w] = Idle /\ \A v \in Workers \ {w} : work'[v] = work[v]
  BY <1>1, IdleWork
<1>3. Pending' = Pending \ {w}
  BY <1>2, IdleWork DEF Pending
<1>4. \A v \in Pending' : work'[v].points # << >> /\ Point(v)' = Point(v) /\ Prev(v)' = Prev(v)
                          /\ Converting(v)' = Converting(v)
  BY <1>2, <1>3 DEF Pending, Point, Prev, Converting, DatapointInv, PendingOK
<1>5. AllRows' \subseteq AllRows
  BY <1>1, <1>2, IdleWork DEF AllRows
<1>6. AllPoints' \subseteq AllPoints
  BY <1>1, <1>2, IdleWork DEF AllPoints
<1>7. Waiting' \subseteq Waiting
  <2> SUFFICES ASSUME NEW d \in Waiting' PROVE d \in Waiting
    OBVIOUS
  <2>1. CASE d \in Range(queue') \cup Range(batch')
    BY <1>1, <2>1 DEF Waiting
  <2>2. ASSUME NEW v \in Workers, NEW i \in 1..Len(work'[v].points),
               v \notin Pending' \/ i < Len(work'[v].points), d = work'[v].points[i]
        PROVE  d \in Waiting
    <3>1. v # w
      BY <1>2, <2>2, IdleWork
    <3> QED
      BY <1>2, <1>3, <2>2, <3>1 DEF Waiting
  <2> QED
    BY <2>1, <2>2 DEF Waiting
<1>8. Covers' \subseteq Covers
  BY <1>3, <1>4, <1>5 DEF Covers
<1>9. DatapointTypes'
  BY <1>1, <1>2 DEF DatapointTypes
<1>10. OrderOK'
  <2>1. ASSUME NEW v \in Workers
        PROVE  /\ Ascending(work'[v].points)
               /\ \A i \in 1..Len(work'[v].points) : v # w
    BY <1>1, <1>2, IdleWork DEF OrderOK
  <2>2. \A v \in Workers : \A i \in 1..Len(work'[v].points) : work'[v] = work[v]
    BY <1>2, <2>1
  <2> QED
    BY <1>1, <2>1, <2>2 DEF OrderOK, Ascending
<1>11. MetricsOK'
  <2>1. Accounted \subseteq Accounted'
    BY <1>1, <1>2 DEF Accounted
  <2> QED
    BY <1>1, <1>5, <2>1 DEF DatapointInv, MetricsOK
<1>12. PointsOK' /\ CacheOK' /\ PendingOK' /\ CoversOK' /\ RowsOK'
  BY <1>1, <1>3, <1>4, <1>5, <1>6, <1>7, <1>8, Quiet
<1> QED
  BY <1>9, <1>10, <1>11, <1>12 DEF DatapointInv

\* A cached metric expires.
LEMMA ExpireStep == ASSUME DatapointInv, NEW m, Expire(m) PROVE DatapointInv'
<1>1. /\ UNCHANGED <<arrived, queue, batch, work, cache, counts, spoiled, tracks, rows, registered, unknown>>
      /\ known' \subseteq known
  BY DEF Expire
<1>2. /\ Pending' = Pending /\ Taken' = Taken /\ Covers' = Covers /\ AllRows' = AllRows
      /\ AllPoints' = AllPoints /\ Waiting' = Waiting /\ Accounted' = Accounted
      /\ \A v \in Pending : Point(v)' = Point(v) /\ Prev(v)' = Prev(v)
  BY <1>1 DEF Pending, Taken, Covers, AllRows, AllPoints, Waiting, Accounted, Converting, Point, Prev
<1>3. MetricsOK'
  BY <1>1, <1>2 DEF DatapointInv, MetricsOK
<1>4. DatapointTypes' /\ OrderOK'
  BY <1>1 DEF DatapointInv, DatapointTypes, OrderOK, Ascending
<1>5. PointsOK' /\ CacheOK' /\ PendingOK' /\ CoversOK' /\ RowsOK'
  <2>1. arrived \in Nat /\ \A v \in Pending : work[v].points # << >>
    BY DEF DatapointInv, DatapointTypes, PendingOK
  <2> QED
    BY <1>1, <1>2, <2>1, Quiet
<1> QED
  BY <1>3, <1>4, <1>5 DEF DatapointInv

\* The process ends and starts again.
LEMMA RestartStep == ASSUME DatapointInv, Restart PROVE DatapointInv'
<1>1. /\ queue' = << >> /\ batch' = << >> /\ work' = [w \in Workers |-> Idle] /\ cache' = << >> /\ known' = {}
      /\ unknown' = unknown \cup UNION {Range(work[w].metrics) : w \in Workers}
      /\ UNCHANGED <<arrived, counts, spoiled, tracks, rows, registered>>
      /\ DatapointTypes
  BY DEF Restart, DatapointInv
<1>2. /\ \A w \in Workers : work'[w] = Idle
      /\ << >> \in Seq(DpRecs) /\ << >> \in Seq(EntryRecs) /\ Range(<< >>) = {} /\ Len(<< >>) = 0
  BY <1>1, EmptySeq DEF Range
<1>3. Pending' = {} /\ AllRows' = rows
  BY <1>1, <1>2, IdleWork DEF Pending, AllRows
<1>4. AllPoints' = {} /\ Waiting' = {} /\ Taken' = {} /\ Covers' \subseteq Covers
  <2>1. AllPoints' = {}
    BY <1>1, <1>2, IdleWork DEF AllPoints
  <2>2. Waiting' = {}
    BY <1>1, <1>2, IdleWork DEF Waiting
  <2>3. Taken' = {}
    BY <1>1, <1>2, <1>3 DEF Taken
  <2>4. Covers' \subseteq Covers
    BY <1>3 DEF Covers, AllRows
  <2> QED
    BY <2>1, <2>2, <2>3, <2>4
<1>5. DatapointTypes'
  BY <1>1, <1>2, IdleWork DEF DatapointTypes
<1>6. OrderOK'
  <2>1. \A w \in Workers : Len(work'[w].points) = 0 /\ Ascending(work'[w].points)
    BY <1>2, IdleWork
  <2> QED
    BY <1>1, <1>2, <2>1 DEF OrderOK, Ascending
<1>7. PointsOK' /\ CacheOK' /\ PendingOK'
  BY <1>1, <1>2, <1>3, <1>4 DEF PointsOK, CacheOK, PendingOK
<1>8. CoversOK'
  <2>1. Range(cache') = {}
    BY <1>1, <1>2
  <2> QED
    BY <1>1, <1>4, <2>1 DEF CoversOK, DatapointInv
<1>9. RowsOK'
  <2>1. \A r \in rows : RowOK(r)
    BY DEF DatapointInv, RowsOK, AllRows
  <2>2. \A r : RowOK(r) => RowOK(r)'
    BY <1>1 DEF RowOK, Resets, Own, Converts
  <2> QED
    BY <1>3, <2>1, <2>2 DEF RowsOK
<1>10. MetricsOK'
  <2>1. Accounted \subseteq Accounted'
    BY <1>1 DEF Accounted
  <2> QED
    BY <1>1, <1>3, <2>1 DEF DatapointInv, MetricsOK, AllRows
<1> QED
  BY <1>5, <1>6, <1>7, <1>8, <1>9, <1>10 DEF DatapointInv

\* A point is converted against the previous one.
LEMMA ConvertStep == ASSUME DatapointInv, NEW w \in Workers, Convert(w) PROVE DatapointInv'
<1>1. /\ DatapointTypes /\ PointsOK /\ CacheOK /\ PendingOK /\ arrived \in Nat
      /\ UNCHANGED <<arrived, queue, batch, cache, tracks, rows, registered, unknown>>
      /\ w \in Pending
  BY DEF Convert, DatapointInv, DatapointTypes, Pending
<1>2. PICK d, e, new :
        /\ d = Point(w) /\ e = Prev(w) /\ new = Converted(d, e) /\ Advance(w, new)
        /\ counts' = IF d.kind = "histogram" /\ new # {}
                     THEN [counts EXCEPT ![e.id] = makeDeltaCounts(counts[d.id], counts[e.id])] ELSE counts
        /\ spoiled' = IF /\ d.kind = "histogram" /\ new # {}
                         /\ \E v \in Workers : work[v].prev # << >> /\ Last(work[v].points).id = e.id
                      THEN spoiled \cup {e.id} ELSE spoiled
  BY DEF Convert, Point, Prev
<1>3. /\ work[w].points # << >> /\ e.key = Key(d) /\ e.kind = d.kind /\ e.time <= d.time
      /\ d.kind = "histogram" => d.id \in DOMAIN counts /\ (Intact(d.id, d.series, d.time) \/ d.id \in spoiled)
  BY <1>1, <1>2 DEF PendingOK
<1>4. d \in DpRecs /\ Fits(d)
  <2>1. work[w].points \in Seq(DpRecs)
    BY <1>1, WorkFields
  <2>2. d \in DpRecs /\ d \in Range(work[w].points)
    <3> DEFINE p == work[w].points
    <3>1. p \in Seq(DpRecs) /\ p # << >> /\ d = Last(p)
      BY <1>2, <1>3, <2>1 DEF Point
    <3> HIDE DEF p
    <3>2. d \in DpRecs /\ d \in Range(p)
      BY <3>1, FrontSeq, Elements
    <3> QED
      BY <3>2 DEF p
  <2>3. d \in AllPoints
    BY <2>2 DEF AllPoints
  <2> QED
    BY <1>1, <2>2, <2>3 DEF PointsOK
<1>5. e \in EntryRecs /\ EntryFits(e) /\ e \in Taken
  <2>1. work[w].prev \in Seq(EntryRecs) /\ work[w].prev # << >>
    BY <1>1, WorkFields DEF Pending
  <2>2. Len(work[w].prev) \in Nat /\ Len(work[w].prev) > 0
    BY <2>1, Elements
  <2>3. e \in EntryRecs
    BY <1>2, <2>1, <2>2, Elements DEF Prev
  <2>4. e \in Taken
    BY <1>1, <1>2 DEF Taken
  <2> QED
    BY <1>1, <2>3, <2>4 DEF CacheOK
<1>6. \A r \in new : /\ r \in RowRecs /\ r.id = d.id /\ r.series = d.series /\ r.track = e.track
                     /\ r.from = e.time /\ r.to = d.time /\ RowOK(r)
  BY <1>1, <1>2, <1>3, <1>4, <1>5, ConvertedRow
<1>7. /\ work' \in [Workers -> WorkRecs] /\ \A v \in Workers \ {w} : work'[v] = work[v]
      /\ Pending' = Pending \ {w} /\ AllRows' = AllRows \cup new
      /\ AllPoints' \subseteq AllPoints
      /\ \A x \in Waiting' : x \in Waiting /\ x.id # Point(w).id
      /\ OrderOK' /\ MetricsOK'
  <2>1. new \in SUBSET RowRecs /\ \A r \in new : r.series = Point(w).series
    BY <1>2, <1>6
  <2> QED
    BY <1>1, <1>2, <1>3, <2>1, Advanced
<1>8. \A v \in Pending' : /\ work'[v].points # << >> /\ Point(v)' = Point(v) /\ Prev(v)' = Prev(v)
                          /\ Converting(v)' = Converting(v)
  BY <1>1, <1>7 DEF Pending, Point, Prev, Converting, PendingOK
<1>9. Covers' \subseteq Covers
  <2>1. \A r \in new : Cover(r) = Converting(w)
    BY <1>2, <1>6 DEF Cover, Converting
  <2>2. \A r \in new : Cover(r) \in Covers
    BY <1>1, <2>1 DEF Covers
  <2>3. \A r \in AllRows' : Converts(r) => Cover(r) \in Covers
    BY <1>7, <2>2 DEF Covers
  <2>4. \A v \in Pending' : Converting(v)' \in Covers
    BY <1>7, <1>8 DEF Covers
  <2> QED
    BY <2>3, <2>4 DEF Covers
<1>10. d.kind = "histogram" => e.id \in DOMAIN counts
  BY <1>3, <1>5 DEF EntryFits, Intact
<1>11. /\ DOMAIN counts' = DOMAIN counts /\ \A i \in DOMAIN counts \ {e.id} : counts'[i] = counts[i]
       /\ counts' \in [DOMAIN counts -> [1..3 -> Nat]]
  <2>1. counts \in [DOMAIN counts -> [1..3 -> Nat]]
    BY <1>1 DEF DatapointTypes
  <2>2. CASE d.kind = "histogram"
    <3>1. counts[d.id] \in [1..3 -> Nat] /\ counts[e.id] \in [1..3 -> Nat]
      BY <1>3, <1>10, <2>1, <2>2
    <3>2. makeDeltaCounts(counts[d.id], counts[e.id]) \in [1..3 -> Nat]
      BY <3>1, DeltaCounts
    <3> QED
      BY <1>2, <2>1, <3>2
  <2>3. CASE d.kind # "histogram"
    BY <1>2, <2>1, <2>3
  <2> QED
    BY <2>2, <2>3
<1>12. CASE ~(d.kind = "histogram" /\ new # {})
  <2>1. counts' = counts /\ spoiled' = spoiled
    BY <1>2, <1>12
  <2>2. PointsOK' /\ CacheOK' /\ PendingOK' /\ CoversOK' /\ RowsOK'
    BY <1>1, <1>6, <1>7, <1>8, <1>9, <2>1, Quiet
  <2>3. DatapointTypes'
    BY <1>1, <1>7, <2>1 DEF DatapointTypes
  <2> QED
    BY <1>7, <2>2, <2>3 DEF DatapointInv
<1>13. CASE d.kind = "histogram" /\ new # {}
  <2>1. spoiled \subseteq spoiled'
    BY <1>2
  <2>2. \A x \in Waiting' : x \in Waiting /\ (x.kind = "histogram" => counts'[x.id] = counts[x.id])
    <3>1. \A x \in Waiting : x.id # e.id /\ (x.kind = "histogram" => x.id \in DOMAIN counts)
      BY <1>1, <1>5 DEF PointsOK, Intact
    <3> QED
      BY <1>7, <1>11, <3>1
  <2>3. \A x \in Taken : x \in Taken' /\ x.kind = "histogram" => counts'[x.id] = counts[x.id]
    <3> SUFFICES ASSUME NEW x \in Taken', x \in Taken, x.kind = "histogram" PROVE counts'[x.id] = counts[x.id]
      OBVIOUS
    <3>1. x.id \in DOMAIN counts
      BY <1>1 DEF CacheOK, EntryFits, Intact
    <3>2. x.id # e.id
      <4>1. CASE x \in Range(cache)
        <5>1. PICK i \in 1..Len(cache) : x = cache[i]
          BY <1>1, <4>1, Elements DEF DatapointTypes
        <5> QED
          BY <1>1, <1>2, <5>1 DEF CacheOK
      <4>2. ASSUME NEW v \in Pending', x = Prev(v)' PROVE x.id # e.id
        <5>1. v \in Pending /\ v # w /\ x = Prev(v)
          BY <1>7, <1>8, <4>2
        <5> QED
          BY <1>1, <1>2, <5>1 DEF CacheOK
      <4> QED
        BY <1>1, <4>1, <4>2 DEF Taken
    <3> QED
      BY <1>11, <3>1, <3>2
  <2>4. \A v \in Pending' : Point(v).kind = "histogram" =>
            counts'[Point(v).id] = counts[Point(v).id] \/ Point(v).id \in spoiled'
    <3> SUFFICES ASSUME NEW v \in Pending', NEW x, x = Point(v), x.kind = "histogram"
                 PROVE  counts'[x.id] = counts[x.id] \/ x.id \in spoiled'
      OBVIOUS
    <3>1. v \in Pending /\ x.id \in DOMAIN counts
      BY <1>1, <1>7 DEF PendingOK
    <3>2. CASE x.id = e.id
      <4>1. v \in Workers /\ work[v].prev # << >> /\ Last(work[v].points).id = e.id
        BY <3>1, <3>2 DEF Pending, Point
      <4> QED
        BY <1>2, <1>13, <3>2, <4>1
    <3>3. CASE x.id # e.id
      BY <1>11, <3>1, <3>3
    <3> QED
      BY <3>2, <3>3
  <2>5. PointsOK' /\ CacheOK' /\ PendingOK' /\ CoversOK' /\ RowsOK'
    BY <1>1, <1>6, <1>7, <1>8, <1>9, <1>11, <2>1, <2>2, <2>3, <2>4, Quiet
  <2>6. DatapointTypes'
    BY <1>1, <1>7, <1>11 DEF DatapointTypes
  <2> QED
    BY <1>7, <2>5, <2>6 DEF DatapointInv
<1> QED
  BY <1>12, <1>13

\* What is covered is between two times.
LEMMA CoverTypes ==
    ASSUME DatapointInv, NEW y \in Covers
    PROVE  y.to \in Nat /\ y.from \in Nat
<1>1. ASSUME NEW r \in AllRows, y = Cover(r) PROVE y.to \in Nat /\ y.from \in Nat
  <2>1. r \in RowRecs
    BY WorkFields DEF AllRows, DatapointInv, DatapointTypes
  <2> QED
    BY <1>1, <2>1 DEF Cover, RowRecs
<1>2. ASSUME NEW w \in Pending, y = Converting(w) PROVE y.to \in Nat /\ y.from \in Nat
  <2> DEFINE p == work[w].points
             q == work[w].prev
  <2>1. p \in Seq(DpRecs) /\ p # << >> /\ q \in Seq(EntryRecs) /\ q # << >>
    BY WorkFields DEF DatapointInv, PendingOK, Pending
  <2>2. Point(w) = Last(p) /\ Prev(w) = q[1]
    BY DEF Point, Prev
  <2> HIDE DEF p, q
  <2>3. Last(p) \in DpRecs /\ q[1] \in EntryRecs
    <3>1. Len(q) \in Nat /\ Len(q) > 0
      BY <2>1, Elements
    <3> QED
      BY <2>1, <3>1, FrontSeq, Elements
  <2>4. Point(w).time \in Nat /\ Prev(w).time \in Nat
    BY <2>2, <2>3 DEF DpRecs, EntryRecs
  <2> QED
    BY <1>2, <2>4 DEF Converting
<1> QED
  BY <1>1, <1>2 DEF Covers

-----------------------------------------------------------------------------
(* The cache.                                                              *)

\* Entries are of different keys, points and tracks.
Distinct(c) == \A i, j \in 1..Len(c) : i # j => /\ c[i].key # c[j].key
                                                /\ c[i].id # c[j].id
                                                /\ c[i].track # c[j].track

\* An entry that is put before others.
LEMMA PutFirst ==
    ASSUME NEW rest \in Seq(EntryRecs), NEW x \in EntryRecs, Distinct(rest), NEW c, c = <<x>> \o rest,
           \A i \in 1..Len(rest) : rest[i].key # x.key /\ rest[i].id # x.id /\ rest[i].track # x.track
    PROVE  c \in Seq(EntryRecs) /\ Distinct(c) /\ Range(c) = {x} \cup Range(rest)
<1> DEFINE n == Len(rest)
<1>1. <<x>> \in Seq(EntryRecs) /\ Len(<<x>>) = 1 /\ <<x>>[1] = x /\ n \in Nat
  BY Elements
<1>2. /\ c \in Seq(EntryRecs) /\ Len(c) = 1 + n
      /\ \A i \in 1..(1 + n) : c[i] = IF i <= 1 THEN <<x>>[i] ELSE rest[i - 1]
  BY <1>1, ConcatProperties
<1>3. Range(rest) = {rest[i] : i \in 1..n} /\ Range(c) = {c[i] : i \in 1..(1 + n)}
  <2>1. Range(rest) = {rest[i] : i \in 1..Len(rest)}
    BY Elements
  <2>2. Range(c) = {c[i] : i \in 1..Len(c)}
    <3>1. c \in Seq(EntryRecs)
      BY <1>2
    <3>2. DOMAIN c = 1..Len(c)
      BY <3>1, LenProperties
    <3> QED
      BY <3>2, Zenon DEF Range
  <2> QED
    BY <1>2, <2>1, <2>2
<1> HIDE DEF n
<1>4. \A i \in 1..(1 + n) : (i = 1 /\ c[i] = x) \/ (i # 1 /\ i - 1 \in 1..n /\ c[i] = rest[i - 1])
  BY <1>1, <1>2
<1>5. 1 \in 1..(1 + n) /\ c[1] = x /\ \A i \in 1..n : i + 1 \in 1..(1 + n) /\ c[i + 1] = rest[i]
  BY <1>1, <1>2
<1>6. Range(c) = {x} \cup Range(rest)
  <2>1. ASSUME NEW i \in 1..(1 + n) PROVE c[i] \in {x} \cup Range(rest)
    BY <1>3, <1>4
  <2>2. x \in Range(c)
    BY <1>3, <1>5
  <2>3. ASSUME NEW i \in 1..n PROVE rest[i] \in Range(c)
    BY <1>3, <1>5
  <2>4. Range(c) \subseteq {x} \cup Range(rest)
    BY <1>3, <2>1
  <2>5. Range(rest) \subseteq Range(c)
    BY <1>3, <2>3
  <2> QED
    BY <2>2, <2>4, <2>5
<1>7. Distinct(c)
  <2> SUFFICES ASSUME NEW i \in 1..(1 + n), NEW j \in 1..(1 + n), i # j
               PROVE  c[i].key # c[j].key /\ c[i].id # c[j].id /\ c[i].track # c[j].track
    BY <1>2 DEF Distinct
  <2>1. \A k \in 1..n : rest[k].key # x.key /\ rest[k].id # x.id /\ rest[k].track # x.track
    BY DEF n
  <2>2. CASE i = 1
    BY <1>4, <2>1, <2>2
  <2>3. CASE j = 1
    BY <1>4, <2>1, <2>3
  <2>4. CASE i # 1 /\ j # 1
    <3>1. i - 1 \in 1..n /\ j - 1 \in 1..n /\ i - 1 # j - 1 /\ c[i] = rest[i - 1] /\ c[j] = rest[j - 1]
      <4>1. i - 1 # j - 1
        BY <1>1
      <4> QED
        BY <1>4, <2>4, <4>1
    <3> QED
      BY <3>1 DEF Distinct, n
  <2> QED
    BY <2>2, <2>3, <2>4
<1> QED
  BY <1>2, <1>6, <1>7

\* What a point leaves in the cache.
LEMMA FreshEntry ==
    ASSUME NEW d \in DpRecs, NEW tr \in Nat, NEW f, f = Fresh(d, tr)
    PROVE  /\ f \in EntryRecs /\ f.key = Key(d) /\ f.id = d.id /\ f.kind = d.kind /\ f.point = d.cum
           /\ f.time = d.time /\ f.track = tr
<1>1. Key(d) \in Keys
  BY DEF Key, Keys, Metrics, DpRecs
<1> DEFINE k == Key(d)
<1>2. f = [key |-> k, id |-> d.id, kind |-> d.kind, point |-> d.cum, time |-> d.time, track |-> tr]
  BY DEF Fresh
<1> HIDE DEF k
<1>3. d.id \in Nat /\ d.kind \in Kinds /\ d.cum \in Cums /\ d.time \in Nat
  BY DEF DpRecs
<1> QED
  BY <1>1, <1>2, <1>3 DEF EntryRecs, k

\* The point takes the place of the last one of its key, or of none, or is
\* older and leaves it.
LEMMA Swapped ==
    ASSUME DatapointInv, NEW d \in DpRecs, SwapPoint(d), \A f \in Taken : f.id # d.id
    PROVE  /\ cache' \in Seq(EntryRecs) /\ Distinct(cache') /\ tracks' \in Nat /\ tracks <= tracks'
           /\ \A f \in Range(cache') :
                \/ f \in Range(cache)
                \/ \E tr \in 1..tracks' :
                    f = Fresh(d, tr) /\ \A x \in Covers : x.track = tr => x.to <= d.time
           /\ \A e \in Previous(d) :
                /\ e \in Range(cache) /\ e.key = Key(d) /\ e.kind = d.kind /\ e.time <= d.time
                /\ \A f \in Range(cache') : f.id # e.id /\ (f.track = e.track => f.time = d.time)
<1> DEFINE n == Len(cache)
<1>1. /\ cache \in Seq(EntryRecs) /\ tracks \in Nat /\ n \in Nat /\ \A i \in 1..n : cache[i] \in EntryRecs
      /\ Range(cache) = {cache[i] : i \in 1..n} /\ DOMAIN cache = 1..n
      /\ \A f \in Range(cache) : f.id # d.id /\ f \in EntryRecs /\ f.track \in 1..tracks
      /\ \A x \in Covers : x.track \in 1..tracks
      /\ Distinct(cache)
  <2>1. cache \in Seq(EntryRecs) /\ tracks \in Nat
    BY DEF DatapointInv, DatapointTypes
  <2>2. \A f \in Range(cache) : f.track \in 1..tracks /\ f.id # d.id
    BY DEF DatapointInv, CacheOK, Taken, EntryFits
  <2>3. Distinct(cache)
    BY DEF DatapointInv, CacheOK, Distinct
  <2>4. \A x \in Covers : x.track \in 1..tracks
    BY DEF DatapointInv, CoversOK
  <2> QED
    BY <2>1, <2>2, <2>3, <2>4, Elements
<1>2. \A e \in Previous(d) : /\ e \in Range(cache) /\ e.key = Key(d) /\ e.kind = d.kind
                             /\ \E f \in Range(cache') : f.id = d.id
  BY DEF Previous, Entry
<1> HIDE DEF n
<1>3. CASE Entry(d) = {}
  <2> DEFINE x == Fresh(d, tracks + 1)
             rest == Evict(cache)
  <2>1. cache' = <<x>> \o rest /\ tracks' = tracks + 1
    BY <1>3 DEF SwapPoint
  <2>2. /\ rest \in Seq(EntryRecs) /\ Len(rest) <= n /\ Len(rest) \in Nat
        /\ \A j \in 1..Len(rest) : j \in 1..n /\ rest[j] = cache[j]
        /\ Range(rest) = {rest[j] : j \in 1..Len(rest)}
    <3>1. rest \in Seq(EntryRecs) /\ Len(rest) <= n /\ \A j \in 1..Len(rest) : j \in 1..n /\ rest[j] = cache[j]
      BY <1>1, EvictSeq DEF n
    <3> QED
      BY <3>1, Elements
  <2>3. /\ x \in EntryRecs /\ x.key = Key(d) /\ x.id = d.id /\ x.time = d.time /\ x.track = tracks + 1
        /\ x = Fresh(d, tracks + 1)
    <3>1. tracks + 1 \in Nat
      BY <1>1
    <3> QED
      BY <3>1, FreshEntry
  <2> HIDE DEF x, rest
  <2>4. Distinct(rest)
    BY <1>1, <2>2 DEF Distinct, n
  <2>5. \A j \in 1..Len(rest) : rest[j].key # x.key /\ rest[j].id # x.id /\ rest[j].track # x.track
    <3> SUFFICES ASSUME NEW j \in 1..n, NEW f, f = cache[j] PROVE f.key # x.key /\ f.id # x.id /\ f.track # x.track
      BY <2>2
    <3>1. f \in Range(cache) /\ f.id # d.id /\ f.track \in 1..tracks
      BY <1>1
    <3>2. f.key # Key(d)
      BY <1>3, <3>1 DEF Entry
    <3>3. f.track # tracks + 1
      BY <1>1, <3>1
    <3> QED
      BY <2>3, <3>1, <3>2, <3>3
  <2>6. cache' \in Seq(EntryRecs) /\ Distinct(cache') /\ Range(cache') = {x} \cup Range(rest)
    BY <2>1, <2>2, <2>3, <2>4, <2>5, PutFirst
  <2>7. tracks + 1 \in 1..tracks' /\ \A y \in Covers : y.track # tracks + 1
    BY <1>1, <2>1
  <2>8. Range(rest) \subseteq Range(cache)
    BY <1>1, <2>2
  <2>9. Previous(d) = {}
    BY <1>3 DEF Previous
  <2>10. tracks' \in Nat /\ tracks <= tracks'
    BY <1>1, <2>1
  <2> QED
    BY <2>3, <2>6, <2>7, <2>8, <2>9, <2>10
<1>4. CASE Entry(d) # {}
  <2>1. PICK i \in 1..n :
            /\ cache[i].key = Key(d) /\ tracks' = tracks
            /\ cache' = <<IF d.time < cache[i].time THEN cache[i] ELSE Fresh(d, cache[i].track)>> \o RemoveAt(cache, i)
    BY <1>1, <1>4 DEF SwapPoint
  <2> DEFINE e == cache[i]
             rest == RemoveAt(cache, i)
             x == IF d.time < e.time THEN e ELSE Fresh(d, e.track)
  <2>2. e \in EntryRecs /\ e \in Range(cache) /\ e.id # d.id /\ e.track \in 1..tracks /\ e.track \in Nat /\ e.time \in Nat
        /\ d.time \in Nat
    BY <1>1 DEF EntryRecs, DpRecs
  <2>3. /\ rest \in Seq(EntryRecs) /\ Len(rest) = n - 1
        /\ \A j \in 1..(n - 1) : rest[j] = IF j < i THEN cache[j] ELSE cache[j + 1]
        /\ Range(rest) = {rest[j] : j \in 1..(n - 1)}
    <3>1. /\ rest \in Seq(EntryRecs) /\ Len(rest) = n - 1
          /\ \A j \in 1..(n - 1) : rest[j] = IF j < i THEN cache[j] ELSE cache[j + 1]
      BY <1>1, RemoveSeq DEF n
    <3> QED
      BY <3>1, Elements
  <2>4. cache' = <<x>> \o rest
    BY <2>1
  <2> HIDE DEF e, rest
  <2> DEFINE at(j) == IF j < i THEN j ELSE j + 1
  <2>5. /\ \A j \in 1..(n - 1) : at(j) \in 1..n /\ at(j) # i /\ rest[j] = cache[at(j)]
        /\ \A j, k \in 1..(n - 1) : j # k => at(j) # at(k)
    BY <1>1, <2>3
  <2> HIDE DEF at
  <2>6. Distinct(rest)
    BY <1>1, <2>3, <2>5 DEF Distinct, n
  <2>7. \A j \in 1..(n - 1) : rest[j].key # e.key /\ rest[j].id # e.id /\ rest[j].track # e.track
                              /\ rest[j] \in Range(cache)
    <3>1. \A j \in 1..n : j # i => cache[j].key # e.key /\ cache[j].id # e.id /\ cache[j].track # e.track
      BY <1>1 DEF Distinct, n, e
    <3> QED
      BY <1>1, <2>5, <3>1
  <2>8. Fresh(d, e.track) \in EntryRecs /\ Fresh(d, e.track).key = Key(d) /\ Fresh(d, e.track).id = d.id
        /\ Fresh(d, e.track).time = d.time /\ Fresh(d, e.track).track = e.track
    BY <2>2, FreshEntry
  <2>9. e.key = Key(d)
    BY <2>1 DEF e
  <2>10. /\ x \in EntryRecs /\ x.key = e.key /\ x.track = e.track /\ x.id \in {e.id, d.id}
         /\ d.time < e.time => x = e
         /\ ~(d.time < e.time) => x = Fresh(d, e.track) /\ x.id = d.id /\ x.time = d.time
    BY <2>2, <2>8, <2>9
  <2> HIDE DEF x
  <2>11. \A j \in 1..Len(rest) : rest[j].key # x.key /\ rest[j].id # x.id /\ rest[j].track # x.track
    <3> SUFFICES ASSUME NEW j \in 1..(n - 1), NEW f, f = rest[j]
                 PROVE  f.key # x.key /\ f.id # x.id /\ f.track # x.track
      BY <2>3
    <3>1. f \in Range(cache) /\ f.id # d.id /\ f.key # e.key /\ f.id # e.id /\ f.track # e.track
      BY <1>1, <2>7
    <3> QED
      BY <2>10, <3>1
  <2>12. cache' \in Seq(EntryRecs) /\ Distinct(cache') /\ Range(cache') = {x} \cup Range(rest)
    BY <2>3, <2>4, <2>6, <2>10, <2>11, PutFirst
  <2>13. Range(rest) \subseteq Range(cache) /\ \A f \in Range(rest) : f.id # e.id /\ f.track # e.track
    BY <2>3, <2>7
  <2>14. CASE d.time < e.time
    <3>1. Range(cache') \subseteq Range(cache)
      BY <2>2, <2>10, <2>12, <2>13, <2>14
    <3>2. Previous(d) = {}
      BY <1>1, <1>2, <3>1
    <3> QED
      BY <1>1, <2>1, <2>12, <3>1, <3>2
  <2>15. CASE ~(d.time < e.time)
    <3>1. \A y \in Covers : y.track = e.track => y.to <= d.time
      <4> SUFFICES ASSUME NEW y \in Covers, y.track = e.track PROVE y.to <= d.time
        OBVIOUS
      <4>1. y.to <= e.time
        BY <2>2 DEF DatapointInv, CoversOK
      <4>2. y.to \in Nat
        BY CoverTypes
      <4> QED
        BY <2>2, <2>15, <4>1, <4>2
    <3>2. \A p \in Previous(d) : p = e
      <4> SUFFICES ASSUME NEW p \in Previous(d) PROVE p = e
        OBVIOUS
      <4>1. p \in Range(cache) /\ p.key = Key(d)
        BY <1>2
      <4>2. PICK j \in 1..n : p = cache[j]
        BY <1>1, <4>1
      <4> QED
        BY <1>1, <2>9, <4>1, <4>2 DEF Distinct, n, e
    <3>3. \A f \in Range(cache') : f.id # e.id /\ (f.track = e.track => f.time = d.time)
      BY <2>2, <2>10, <2>12, <2>13, <2>15
    <3>4. e.time <= d.time
      BY <2>2, <2>15
    <3>5. \A f \in Range(cache') : f \in Range(cache) \/ f = Fresh(d, e.track)
      BY <2>10, <2>12, <2>13, <2>15
    <3>6. e.track \in 1..tracks' /\ tracks' \in Nat /\ tracks <= tracks'
      BY <1>1, <2>1, <2>2
    <3> QED
      BY <1>2, <2>12, <3>1, <3>2, <3>3, <3>4, <3>5, <3>6
  <2> QED
    BY <2>14, <2>15
<1> QED
  BY <1>3, <1>4

\* A goroutine holds the previous point of its last one.
LEMMA Held ==
    ASSUME DatapointInv, NEW w \in Workers, work[w].points # << >>, NEW e \in EntryRecs,
           work' = [work EXCEPT ![w].prev = <<e>>],
           UNCHANGED <<queue, batch, known, rows, registered, unknown>>
    PROVE  /\ work' \in [Workers -> WorkRecs] /\ \A v \in Workers \ {w} : work'[v] = work[v]
           /\ Pending' = Pending \cup {w} /\ AllRows' = AllRows /\ AllPoints' = AllPoints
           /\ Point(w)' = Point(w) /\ Prev(w)' = e /\ work'[w].points # << >>
           /\ \A d \in Waiting' : d \in Waiting /\ d.id # Point(w).id
           /\ OrderOK' /\ MetricsOK'
<1> DEFINE old == work[w]
           q == <<e>>
           g == [old EXCEPT !.prev = q]
<1>1. /\ DatapointTypes /\ OrderOK /\ MetricsOK /\ work \in [Workers -> WorkRecs] /\ old \in WorkRecs
      /\ work' = [work EXCEPT ![w] = g] /\ q \in Seq(EntryRecs) /\ q # << >> /\ q[1] = e
  BY WorkFields DEF DatapointInv, DatapointTypes
<1>2. /\ g \in WorkRecs /\ g.points = old.points /\ g.prev = q /\ g.rows = old.rows /\ g.metrics = old.metrics
  <2> HIDE DEF old, q
  <2> QED
    BY <1>1 DEF WorkRecs
<1> HIDE DEF g
<1>3. /\ work' \in [Workers -> WorkRecs] /\ work'[w] = g /\ \A v \in Workers \ {w} : work'[v] = work[v]
      /\ \A v \in Workers : work'[v].points = work[v].points /\ work'[v].rows = work[v].rows
                            /\ work'[v].metrics = work[v].metrics
  BY <1>1, <1>2
<1>4. Pending' = Pending \cup {w}
  BY <1>1, <1>2, <1>3 DEF Pending
<1>5. AllRows' = AllRows /\ AllPoints' = AllPoints /\ Accounted' = Accounted
  BY <1>3 DEF AllRows, AllPoints, Accounted
<1>6. Point(w)' = Point(w) /\ Prev(w)' = e /\ work'[w].points # << >>
  BY <1>1, <1>2, <1>3 DEF Point, Prev
<1>7. ASSUME NEW d \in Waiting' PROVE d \in Waiting /\ d.id # Point(w).id
  <2>1. CASE d \in Range(queue) \cup Range(batch)
    BY <1>1, <2>1, LastAlone DEF Waiting
  <2>2. ASSUME NEW v \in Workers, NEW i \in 1..Len(work[v].points),
               v \notin Pending' \/ i < Len(work[v].points), d = work[v].points[i]
        PROVE  d \in Waiting /\ d.id # Point(w).id
    <3>1. d \in Waiting
      BY <1>4, <2>2 DEF Waiting
    <3>2. d \in Range(work[v].points) /\ i \in Nat /\ Len(work[v].points) \in Nat
      BY <1>1, <2>2, Elements, WorkFields
    <3>3. CASE v # w
      BY <1>1, <3>1, <3>2, <3>3, LastAlone
    <3>4. CASE v = w
      <4>1. i \in 1..(Len(work[w].points) - 1)
        BY <1>4, <2>2, <3>2, <3>4
      <4> QED
        BY <1>1, <2>2, <3>1, <3>4, <4>1, LastAlone
    <3> QED
      BY <3>3, <3>4
  <2> QED
    BY <1>3, <2>1, <2>2 DEF Waiting
<1>8. OrderOK'
  BY <1>1, <1>3, SMTT(30) DEF OrderOK, Ascending
<1>9. MetricsOK'
  BY <1>1, <1>5 DEF MetricsOK
<1> QED
  BY <1>3, <1>4, <1>5, <1>6, <1>7, <1>8, <1>9

\* A point is looked up in the cache.
LEMMA TakeStep == ASSUME DatapointInv, NEW w \in Workers, TakePrevious(w) PROVE DatapointInv'
<1>1. PICK d : d = Point(w)
  OBVIOUS
<1>2. /\ work[w].points # << >> /\ work[w].prev = << >> /\ d.kind # "none" /\ SwapPoint(d) /\ w \notin Pending
      /\ IF Previous(d) = {} THEN Advance(w, {})
         ELSE (\E e \in Previous(d) : work' = [work EXCEPT ![w].prev = <<e>>]) /\ UNCHANGED known
      /\ UNCHANGED <<arrived, queue, batch, counts, spoiled, rows, registered, unknown>>
      /\ DatapointTypes /\ PointsOK /\ CacheOK /\ PendingOK /\ CoversOK /\ RowsOK /\ arrived \in Nat /\ tracks \in Nat
  BY <1>1 DEF TakePrevious, Point, Pending, DatapointInv, DatapointTypes
<1>3. d \in DpRecs /\ d \in AllPoints /\ d \in Waiting
  <2> DEFINE p == work[w].points
  <2>1. p \in Seq(DpRecs) /\ p # << >> /\ d = Last(p)
    BY <1>1, <1>2, WorkFields DEF Point
  <2> HIDE DEF p
  <2>2. d \in DpRecs /\ Len(p) \in 1..Len(p) /\ d = p[Len(p)] /\ Range(p) = {p[i] : i \in 1..Len(p)}
    BY <2>1, FrontSeq, Elements
  <2>3. d \in AllPoints
    BY <2>2 DEF AllPoints, p
  <2>4. d \in Waiting
    BY <1>2, <2>2 DEF Waiting, p
  <2> QED
    BY <2>2, <2>3, <2>4
<1>4. /\ Fits(d) /\ \A f \in Taken : f.id # d.id
      /\ d.kind = "histogram" => Intact(d.id, d.series, d.time)
  BY <1>2, <1>3 DEF PointsOK
<1>5. /\ cache' \in Seq(EntryRecs) /\ Distinct(cache') /\ tracks' \in Nat /\ tracks <= tracks'
      /\ \A f \in Range(cache') :
            \/ f \in Range(cache)
            \/ \E tr \in 1..tracks' :
                f = Fresh(d, tr) /\ \A x \in Covers : x.track = tr => x.to <= d.time
      /\ \A e \in Previous(d) :
            /\ e \in Range(cache) /\ e.key = Key(d) /\ e.kind = d.kind /\ e.time <= d.time
            /\ \A f \in Range(cache') : f.id # e.id /\ (f.track = e.track => f.time = d.time)
  BY <1>2, <1>3, <1>4, Swapped
<1>6. /\ 1..tracks \subseteq 1..tracks'
      /\ \A x \in Covers : x.track \in 1..tracks
  BY <1>2, <1>5 DEF CoversOK
<1>7. /\ \A x : RowOK(x) => RowOK(x)'
      /\ \A x : Fits(x) => Fits(x)'
      /\ \A i, s, t : Intact(i, s, t)' <=> Intact(i, s, t)
      /\ \A x : EntryFits(x) => EntryFits(x)'
  <2>1. \A i, s, t : Intact(i, s, t)' <=> Intact(i, s, t)
    BY <1>2 DEF Intact
  <2> QED
    BY <1>2, <1>6, <2>1 DEF RowOK, Resets, Own, Converts, Fits, EntryFits
<1>8. \A f \in Range(cache') : EntryFits(f)'
  <2> SUFFICES ASSUME NEW f \in Range(cache') PROVE EntryFits(f)'
    OBVIOUS
  <2>1. CASE f \in Range(cache)
    BY <1>2, <1>7, <2>1 DEF CacheOK, Taken
  <2>2. ASSUME NEW tr \in 1..tracks', f = Fresh(d, tr) PROVE EntryFits(f)'
    <3>1. tr \in Nat
      BY <1>5
    <3>2. /\ f.key = Key(d) /\ f.id = d.id /\ f.kind = d.kind /\ f.point = d.cum
          /\ f.time = d.time /\ f.track = tr
      BY <1>3, <2>2, <3>1, FreshEntry
    <3> DEFINE s == d.series
    <3>3. /\ s \in Series /\ d.time \in Readings(s) /\ d.kind = KindOf(s) /\ d.id \in 1..arrived
          /\ d.cum = PointOf(s, Value[s][d.time]) /\ Key(d) = KeyOf(s, d.time)
      BY <1>2, <1>3, <1>4 DEF Fits, DpRecs, Key, KeyOf
    <3>4. f.kind = "histogram" => Intact(f.id, s, f.time)'
      BY <1>4, <1>7, <3>2
    <3> HIDE DEF s
    <3>5. f.id \in 1..arrived' /\ f.track \in 1..tracks' /\ f.kind # "none"
      BY <1>2, <3>2, <3>3
    <3>6. f.time \in Readings(s) /\ f.key = KeyOf(s, f.time) /\ f.kind = KindOf(s)
          /\ f.point = PointOf(s, Value[s][f.time])
      BY <3>2, <3>3
    <3> QED
      BY <3>3, <3>4, <3>5, <3>6 DEF EntryFits
  <2> QED
    BY <1>5, <2>1, <2>2
<1>9. \A f \in Range(cache') : f \in Range(cache) \/ f.id = d.id
  <2> SUFFICES ASSUME NEW f, NEW tr \in 1..tracks', f = Fresh(d, tr) PROVE f.id = d.id
    BY <1>5
  <2> QED
    BY <1>3, <1>5, FreshEntry
<1>10. ASSUME NEW x \in Covers, NEW f \in Range(cache'), f.track = x.track PROVE x.to <= f.time
  <2>1. CASE f \in Range(cache)
    BY <1>2, <1>10, <2>1 DEF CoversOK
  <2>2. ASSUME NEW tr \in 1..tracks', f = Fresh(d, tr), \A y \in Covers : y.track = tr => y.to <= d.time
        PROVE  x.to <= f.time
    <3>1. f.time = d.time /\ f.track = tr
      BY <1>3, <1>5, <2>2, FreshEntry
    <3> QED
      BY <1>10, <2>2, <3>1
  <2> QED
    BY <1>5, <2>1, <2>2
<1>11. /\ Len(cache') \in Nat /\ \A i \in 1..Len(cache') : cache'[i] \in Range(cache')
       /\ \A i, j \in 1..Len(cache') : i # j => /\ cache'[i].key # cache'[j].key
                                               /\ cache'[i].id # cache'[j].id
                                               /\ cache'[i].track # cache'[j].track
  <2>1. PICK c : c = cache'
    OBVIOUS
  <2>2. Len(c) \in Nat /\ \A i \in 1..Len(c) : c[i] \in Range(c)
    BY <1>5, <2>1, Elements
  <2> QED
    BY <1>5, <2>1, <2>2 DEF Distinct
<1>12. CASE Previous(d) = {}
  <2>1. /\ work' \in [Workers -> WorkRecs] /\ \A v \in Workers \ {w} : work'[v] = work[v]
        /\ Pending' = Pending \ {w} /\ AllRows' = AllRows \cup {}
        /\ AllPoints' \subseteq AllPoints
        /\ \A x \in Waiting' : x \in Waiting /\ x.id # Point(w).id
        /\ OrderOK' /\ MetricsOK'
    <3> DEFINE new == {}
    <3>1. new \in SUBSET RowRecs /\ Advance(w, new) /\ \A r \in new : r.series = Point(w).series
      BY <1>2, <1>12
    <3>2. UNCHANGED <<queue, batch, rows, registered, unknown>>
      BY <1>2
    <3> HIDE DEF new
    <3>3. /\ work' \in [Workers -> WorkRecs] /\ \A v \in Workers \ {w} : work'[v] = work[v]
          /\ Pending' = Pending \ {w} /\ AllRows' = AllRows \cup new
          /\ AllPoints' \subseteq AllPoints
          /\ \A x \in Waiting' : x \in Waiting /\ x.id # Point(w).id
          /\ OrderOK' /\ MetricsOK'
      BY <1>2, <3>1, <3>2, Advanced
    <3> QED
      BY <3>3 DEF new
  <2>2. Pending' = Pending /\ AllRows' = AllRows
    BY <1>2, <2>1
  <2>3. \A v \in Pending : /\ work'[v].points # << >> /\ Point(v)' = Point(v) /\ Prev(v)' = Prev(v)
                           /\ Converting(v)' = Converting(v)
    BY <1>2, <2>1 DEF Pending, Point, Prev, Converting, PendingOK
  <2>4. Covers' = Covers
    BY <2>2, <2>3 DEF Covers
  <2>5. PointsOK'
    <3>1. \A x \in Waiting', f \in Taken' : f.id # x.id
      BY <1>1, <1>2, <1>9, <2>1, <2>2, <2>3 DEF Taken, PointsOK
    <3> QED
      BY <1>2, <1>7, <2>1, <3>1 DEF PointsOK
  <2>6. CacheOK'
    <3>1. \A v \in Pending : EntryFits(Prev(v)) /\ Prev(v).id # d.id /\ \A f \in Range(cache') : Prev(v).id # f.id
      <4> SUFFICES ASSUME NEW v \in Pending
                   PROVE  EntryFits(Prev(v)) /\ Prev(v).id # d.id /\ \A f \in Range(cache) : Prev(v).id # f.id
        BY <1>9
      <4>1. Prev(v) \in Taken
        BY DEF Taken
      <4>2. ASSUME NEW f \in Range(cache) PROVE Prev(v).id # f.id
        <5>1. PICK i \in 1..Len(cache) : f = cache[i]
          BY <1>2, <4>2, Elements DEF DatapointTypes
        <5> QED
          BY <1>2, <5>1 DEF CacheOK
      <4> QED
        BY <1>2, <1>4, <4>1, <4>2 DEF CacheOK
    <3>2. \A x \in Taken' : EntryFits(x)'
      <4> SUFFICES ASSUME NEW x \in Taken' PROVE EntryFits(x)'
        OBVIOUS
      <4>1. CASE x \in Range(cache')
        BY <1>8, <4>1
      <4>2. ASSUME NEW v \in Pending', x = Prev(v)' PROVE EntryFits(x)'
        <5>1. x = Prev(v) /\ EntryFits(x)
          BY <2>2, <2>3, <3>1, <4>2
        <5> QED
          BY <1>7, <5>1
      <4> QED
        BY <4>1, <4>2 DEF Taken
    <3>3. \A v \in Pending' : \A i \in 1..Len(cache') : Prev(v)'.id # cache'[i].id
      BY <1>11, <2>2, <2>3, <3>1
    <3>4. \A u, v \in Pending' : u # v => Prev(u)'.id # Prev(v)'.id
      BY <1>2, <2>2, <2>3 DEF CacheOK
    <3> QED
      BY <1>11, <3>2, <3>3, <3>4 DEF CacheOK
  <2>7. PendingOK'
    BY <1>2, <1>7, <2>2, <2>3 DEF PendingOK, Key, Intact
  <2>8. CoversOK'
    <3>1. \A x \in Covers : x.track \in 1..tracks' /\ \A f \in Range(cache') : f.track = x.track => x.to <= f.time
      BY <1>6, <1>10
    <3> QED
      BY <1>2, <2>4, <3>1 DEF CoversOK
  <2>9. RowsOK'
    BY <1>2, <1>7, <2>2 DEF RowsOK
  <2>10. DatapointTypes'
    BY <1>2, <1>5, <2>1 DEF DatapointTypes
  <2> QED
    BY <2>1, <2>5, <2>6, <2>7, <2>8, <2>9, <2>10 DEF DatapointInv
<1>13. ASSUME NEW e \in Previous(d), work' = [work EXCEPT ![w].prev = <<e>>], UNCHANGED known
       PROVE  DatapointInv'
  <2>1. /\ e \in Range(cache) /\ e.key = Key(d) /\ e.kind = d.kind /\ e.time <= d.time
        /\ \A f \in Range(cache') : f.id # e.id /\ (f.track = e.track => f.time = d.time)
        /\ e \in Taken /\ e.id # d.id /\ EntryFits(e)
    BY <1>2, <1>4, <1>5 DEF Taken, CacheOK
  <2>2. e \in EntryRecs
    BY <1>2, <2>1, Elements DEF DatapointTypes
  <2>3. /\ work' \in [Workers -> WorkRecs] /\ \A v \in Workers \ {w} : work'[v] = work[v]
        /\ Pending' = Pending \cup {w} /\ AllRows' = AllRows /\ AllPoints' = AllPoints
        /\ Point(w)' = Point(w) /\ Prev(w)' = e /\ work'[w].points # << >>
        /\ \A x \in Waiting' : x \in Waiting /\ x.id # Point(w).id
        /\ OrderOK' /\ MetricsOK'
    BY <1>2, <1>13, <2>2, Held
  <2>4. \A v \in Pending : /\ work'[v].points # << >> /\ Point(v)' = Point(v) /\ Prev(v)' = Prev(v)
                           /\ Converting(v)' = Converting(v)
    BY <1>2, <2>3 DEF Pending, Point, Prev, Converting, PendingOK
  <2> DEFINE new == [id |-> d.id, track |-> e.track, from |-> e.time, to |-> d.time]
  <2>5. Converting(w)' = new /\ new.id = d.id /\ new.track = e.track /\ new.from = e.time /\ new.to = d.time
    BY <1>1, <2>3 DEF Converting
  <2> HIDE DEF new
  <2>6. Covers' = Covers \cup {new}
    BY <2>3, <2>4, <2>5 DEF Covers
  <2>7. /\ \A v \in Pending : EntryFits(Prev(v)) /\ Prev(v).id # d.id /\ Prev(v).id # e.id
        /\ \A v \in Pending : \A f \in Range(cache') : Prev(v).id # f.id
    <3> SUFFICES ASSUME NEW v \in Pending
                 PROVE  EntryFits(Prev(v)) /\ Prev(v).id # d.id /\ \A f \in Range(cache) : Prev(v).id # f.id
      BY <1>9, <2>1
    <3>1. Prev(v) \in Taken
      BY DEF Taken
    <3>2. ASSUME NEW f \in Range(cache) PROVE Prev(v).id # f.id
      <4>1. PICK i \in 1..Len(cache) : f = cache[i]
        BY <1>2, <3>2, Elements DEF DatapointTypes
      <4> QED
        BY <1>2, <4>1 DEF CacheOK
    <3> QED
      BY <1>2, <1>4, <3>1, <3>2 DEF CacheOK
  <2>8. \A v \in Pending' : (v = w /\ Prev(v)' = e) \/ (v # w /\ v \in Pending /\ Prev(v)' = Prev(v))
    BY <1>2, <2>3, <2>4
  <2>9. Taken' = Range(cache') \cup {Prev(v) : v \in Pending} \cup {e}
    <3>1. {Prev(v) : v \in Pending}' = {Prev(v) : v \in Pending} \cup {e}
      BY <2>3, <2>4
    <3> QED
      BY <3>1 DEF Taken
  <2>10. PointsOK'
    <3>1. ASSUME NEW x \in Waiting', NEW f \in Taken' PROVE f.id # x.id
      <4>1. f \in Taken \/ f.id = d.id
        BY <1>9, <2>1, <2>9 DEF Taken
      <4> QED
        BY <1>1, <1>2, <2>3, <4>1 DEF PointsOK
    <3> QED
      BY <1>2, <1>7, <2>3, <3>1 DEF PointsOK
  <2>11. CacheOK'
    <3>1. \A x \in Taken' : EntryFits(x)'
      <4>1. \A x \in Taken' : x \in Range(cache') \/ EntryFits(x)
        BY <2>1, <2>7, <2>9
      <4> QED
        BY <1>7, <1>8, <4>1
    <3>2. \A v \in Pending' : \A i \in 1..Len(cache') : Prev(v)'.id # cache'[i].id
      <4> SUFFICES ASSUME NEW v \in Pending', NEW i \in 1..Len(cache'), NEW f, f = cache'[i], NEW p, p = Prev(v)'
                   PROVE  p.id # f.id
        OBVIOUS
      <4>1. f \in Range(cache')
        BY <1>11
      <4> QED
        BY <2>1, <2>7, <2>8, <4>1
    <3>3. \A u, v \in Pending' : u # v => Prev(u)'.id # Prev(v)'.id
      <4> SUFFICES ASSUME NEW u \in Pending', NEW v \in Pending', u # v, NEW p, p = Prev(u)', NEW q, q = Prev(v)'
                   PROVE  p.id # q.id
        OBVIOUS
      <4>1. CASE u = w
        BY <2>7, <2>8, <4>1
      <4>2. CASE v = w
        BY <2>7, <2>8, <4>2
      <4>3. CASE u # w /\ v # w
        BY <1>2, <2>8, <4>3 DEF CacheOK
      <4> QED
        BY <4>1, <4>2, <4>3
    <3> QED
      BY <1>11, <3>1, <3>2, <3>3 DEF CacheOK
  <2>12. PendingOK'
    <3> SUFFICES ASSUME NEW v \in Pending'
                 PROVE  /\ work'[v].points # << >>
                        /\ Prev(v)'.key = Key(Point(v))' /\ Prev(v)'.kind = Point(v)'.kind
                        /\ Prev(v)'.time <= Point(v)'.time
                        /\ Point(v)'.kind = "histogram" =>
                            /\ Point(v)'.id \in DOMAIN counts'
                            /\ Intact(Point(v).id, Point(v).series, Point(v).time)' \/ Point(v)'.id \in spoiled'
      BY DEF PendingOK
    <3>1. PICK x, y : x = Point(v) /\ x = Point(v)' /\ y = Prev(v)'
      BY <2>3, <2>4, <2>8
    <3>2. /\ work'[v].points # << >> /\ y.key = Key(x) /\ y.kind = x.kind /\ y.time <= x.time
          /\ x.kind = "histogram" => /\ x.id \in DOMAIN counts
                                     /\ Intact(x.id, x.series, x.time) \/ x.id \in spoiled
      <4>1. CASE v = w
        <5>1. x = d /\ y = e
          BY <1>1, <2>8, <3>1, <4>1
        <5>2. d.kind = "histogram" => d.id \in DOMAIN counts /\ Intact(d.id, d.series, d.time)
          BY <1>4 DEF Intact
        <5> QED
          BY <2>1, <2>3, <4>1, <5>1, <5>2
      <4>2. CASE v # w
        <5>1. v \in Pending /\ y = Prev(v) /\ work'[v].points # << >>
          BY <2>4, <2>8, <3>1, <4>2
        <5> QED
          BY <1>2, <3>1, <5>1 DEF PendingOK
      <4> QED
        BY <4>1, <4>2
    <3>3. x.kind = "histogram" => x.id \in DOMAIN counts' /\ (Intact(x.id, x.series, x.time)' \/ x.id \in spoiled')
      BY <1>2, <1>7, <3>2
    <3> QED
      BY <3>1, <3>2, <3>3 DEF Key, Intact
  <2>13. CoversOK'
    <3>1. ASSUME NEW x \in Covers', NEW f \in Range(cache'), f.track = x.track PROVE x.to <= f.time
      <4>1. CASE x \in Covers
        BY <1>10, <3>1, <4>1
      <4>2. CASE x = new
        <5>1. f.time = d.time /\ d.time \in Nat
          BY <1>3, <2>1, <2>5, <3>1, <4>2 DEF DpRecs
        <5> QED
          BY <2>5, <4>2, <5>1
      <4> QED
        BY <2>6, <4>1, <4>2
    <3>2. \A x \in Covers' : x.track \in 1..tracks'
      <4>1. e.track \in 1..tracks
        BY <2>1 DEF EntryFits
      <4> QED
        BY <1>6, <2>5, <2>6, <4>1
    <3>3. \A x \in Covers : x.track = new.track => x.to <= new.from
      BY <1>2, <2>1, <2>5 DEF CoversOK
    <3>4. \A x, y \in Covers' : x.track = y.track /\ x.id # y.id => x.to <= y.from \/ y.to <= x.from
      BY <1>2, <2>6, <3>3 DEF CoversOK
    <3> QED
      BY <3>1, <3>2, <3>4 DEF CoversOK
  <2>14. RowsOK'
    BY <1>2, <1>7, <2>3 DEF RowsOK
  <2>15. DatapointTypes'
    BY <1>2, <1>5, <2>3 DEF DatapointTypes
  <2> QED
    BY <2>3, <2>10, <2>11, <2>12, <2>13, <2>14, <2>15 DEF DatapointInv
<1> QED
  BY <1>2, <1>12, <1>13

-----------------------------------------------------------------------------
(* Theorems.                                                               *)

\* The invariant holds at the start.
LEMMA DatapointInit == ASSUME Init PROVE DatapointInv
<1>1. /\ arrived = 0 /\ queue = << >> /\ batch = << >> /\ work = [w \in Workers |-> Idle] /\ cache = << >>
      /\ tracks = 0 /\ counts = << >> /\ spoiled = {} /\ known = {} /\ rows = {}
  BY DEF Init
<1>2. /\ \A w \in Workers : work[w] = Idle
      /\ << >> \in Seq(DpRecs) /\ << >> \in Seq(EntryRecs) /\ Range(<< >>) = {} /\ Len(<< >>) = 0
  BY <1>1, EmptySeq DEF Range
<1>3. Pending = {} /\ AllRows = {}
  BY <1>1, <1>2, IdleWork DEF Pending, AllRows
<1>4. AllPoints = {} /\ Waiting = {} /\ Taken = {} /\ Covers = {}
  <2>1. AllPoints = {}
    BY <1>1, <1>2, IdleWork DEF AllPoints
  <2>2. Waiting = {}
    BY <1>1, <1>2, IdleWork DEF Waiting
  <2>3. Taken = {}
    BY <1>1, <1>2, <1>3 DEF Taken
  <2>4. Covers = {}
    BY <1>3 DEF Covers
  <2> QED
    BY <2>1, <2>2, <2>3, <2>4
<1>5. DatapointTypes
  <2>1. DOMAIN counts = {} /\ counts \in [DOMAIN counts -> [1..3 -> Nat]]
    BY <1>1
  <2> QED
    BY <1>1, <1>2, <2>1, IdleWork DEF DatapointTypes
<1>6. OrderOK
  <2>1. \A w \in Workers : Len(work[w].points) = 0 /\ Ascending(work[w].points)
    BY <1>2, IdleWork
  <2> QED
    BY <1>1, <1>2, <2>1 DEF OrderOK, Ascending
<1>7. PointsOK /\ CacheOK /\ PendingOK /\ CoversOK /\ RowsOK /\ MetricsOK
  BY <1>1, <1>2, <1>3, <1>4 DEF PointsOK, CacheOK, PendingOK, CoversOK, RowsOK, MetricsOK
<1> QED
  BY <1>5, <1>6, <1>7 DEF DatapointInv

\* Every step keeps the invariant.
LEMMA DatapointNext == ASSUME DatapointInv, [Next]_vars PROVE DatapointInv'
<1>1. CASE Next
  BY <1>1, AddStep, ReceiveStep, StartStep, ProcessStep, TakeStep, ConvertStep, InsertStep, UpsertStep,
     ExpireStep, RestartStep DEF Next
<1>2. CASE UNCHANGED vars
  <2>1. /\ UNCHANGED <<arrived, queue, batch, work, cache, counts, spoiled, tracks>>
        /\ UNCHANGED <<known, rows, registered, unknown>>
    BY <1>2 DEF vars
  <2>2. /\ Pending' = Pending /\ Taken' = Taken /\ Covers' = Covers /\ AllRows' = AllRows
        /\ AllPoints' = AllPoints /\ Waiting' = Waiting /\ Accounted' = Accounted
        /\ \A v \in Pending : Point(v)' = Point(v) /\ Prev(v)' = Prev(v)
    BY <2>1 DEF Pending, Taken, Covers, AllRows, AllPoints, Waiting, Accounted, Converting, Point, Prev
  <2>3. MetricsOK'
    BY <2>1, <2>2 DEF DatapointInv, MetricsOK
  <2>4. DatapointTypes' /\ OrderOK'
    BY <2>1 DEF DatapointInv, DatapointTypes, OrderOK, Ascending
  <2>5. PointsOK' /\ CacheOK' /\ PendingOK' /\ CoversOK' /\ RowsOK'
    <3>1. arrived \in Nat /\ \A v \in Pending : work[v].points # << >>
      BY DEF DatapointInv, DatapointTypes, PendingOK
    <3> QED
      BY <2>1, <2>2, <3>1, Quiet
  <2> QED
    BY <2>3, <2>4, <2>5 DEF DatapointInv
<1> QED
  BY <1>1, <1>2

\* The invariant holds in every state.
LEMMA DatapointInvariant == Spec => []DatapointInv
BY DatapointInit, DatapointNext, PTL DEF Spec

\* What is stored for a counter adds up to what its series counted, whatever
\* the order of its readings and however many goroutines convert them
\* (SwapPoint, convertNumberPoint, convertHistogramPoint).
THEOREM DeltasCounted == Spec => []DeltasAddUp
<1>1. DatapointInv => DeltasAddUp
  <2> SUFFICES ASSUME DatapointInv, NEW r \in rows, Converts(r), Own(r)
               PROVE  LET truth == Total[r.series][r.to] - Total[r.series][r.from]
                      IN  /\ r.from <= r.to
                          /\ r.sum <= truth
                          /\ ~Resets(r) => r.sum = truth
                          /\ r.hist # 0 \/ Source[r.series] = "histogram" => r.hist = r.count \/ r.id \in spoiled
                          /\ \A q \in rows : q.track = r.track /\ q.id # r.id => q.to <= r.from \/ r.to <= q.from
    BY DEF DeltasAddUp
  <2>1. RowOK(r)
    BY DEF DatapointInv, RowsOK, AllRows
  <2>2. ASSUME NEW q \in rows, q.track = r.track, q.id # r.id PROVE q.to <= r.from \/ r.to <= q.from
    <3>1. Cover(q) \in Covers /\ Cover(r) \in Covers
      BY <2>2 DEF Covers, AllRows, Converts
    <3>2. Cover(q).track = Cover(r).track /\ Cover(q).id # Cover(r).id
      BY <2>2 DEF Cover
    <3>3. Cover(q).to <= Cover(r).from \/ Cover(r).to <= Cover(q).from
      BY <3>1, <3>2 DEF DatapointInv, CoversOK
    <3> QED
      BY <3>3 DEF Cover
  <2> QED
    BY <2>1, <2>2 DEF RowOK
<1> QED
  BY <1>1, DatapointInvariant, PTL

\* The metric of a stored row is in the table of metrics, or about to be, or
\* its registration failed (upsertMetric, _processDatapoints).
THEOREM RowsHaveMetrics == Spec => []MetricsKnown
<1>1. DatapointInv => MetricsKnown
  BY DEF DatapointInv, MetricsOK, Accounted, AllRows, MetricsKnown
<1> QED
  BY <1>1, DatapointInvariant, PTL
=============================================================================
