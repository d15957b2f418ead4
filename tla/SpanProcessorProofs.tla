------------------------ MODULE SpanProcessorProofs -------------------------
(***************************************************************************)
(* Proofs about the span processor for every number of spans, goroutines   *)
(* and retries and every size of the channel and of a batch: a span is     *)
(* stored once and its data before its index row, and none is lost on the  *)
(* way from the channel to the tables.                                     *)
(*                                                                         *)
(* The argument: the channel and the batch of the loop hold the spans in   *)
(* the order they arrived, and what a goroutine was given, or a table has  *)
(* seen, is older than all of them; so no span is handed out twice.        *)
(***************************************************************************)
EXTENDS SpanProcessor, FiniteSetTheorems, SequenceTheorems, TLAPS

USE DEF ingest, loop, workers, tables

-----------------------------------------------------------------------------
(* The inductive invariant.                                                *)

\* The part of TypeOK the argument needs: all of it but the type of counted.
Types ==
    /\ arrived \in 0..NumSpans
    /\ queue \in Seq(Spans)
    /\ array \in [1..BatchSize -> Spans \cup {None}] /\ len \in 0..BatchSize
    /\ pc \in {"select", "full", "timeout", "last", "stop", "exited"}
    /\ batch \in [Procs -> Seq(Spans)]
    /\ step \in [Procs -> {"idle", "data", "index"}]
    /\ dataRows \in [Spans -> Nat] /\ indexRows \in [Spans -> Nat]
    /\ failed \subseteq Spans

\* Where the loop is tells how full its batch is: it reads the channel only with
\* room in the array, and starts a goroutine only for a batch that has spans.
LoopLen ==
    /\ pc = "select" => len < BatchSize
    /\ pc \in {"full", "timeout", "last"} => len > 0
    /\ pc \in {"stop", "exited"} => len = 0

\* s arrived before everything that waits in the batch of the loop or in the
\* channel.
Older(s) ==
    /\ s <= arrived
    /\ \A i \in 1..len : s < array[i]
    /\ \A i \in 1..Len(queue) : s < queue[i]

\* The channel and the batch of the loop are in the order of arrival.
InOrder ==
    /\ \A i \in 1..Len(queue) :
        /\ queue[i] <= arrived
        /\ \A j \in 1..Len(queue) : i < j => queue[i] < queue[j]
    /\ \A i \in 1..len :
        /\ array[i] \in Spans /\ array[i] <= arrived
        /\ \A j \in 1..len : i < j => array[i] < array[j]
        /\ \A j \in 1..Len(queue) : array[i] < queue[j]

\* What goroutines work on was taken from the loop, each span by one of them and
\* once.
Disjoint ==
    \A w \in Procs : \A i \in 1..Len(batch[w]) :
        /\ Older(batch[w][i])
        /\ \A j \in 1..Len(batch[w]) : batch[w][i] = batch[w][j] => i = j
        /\ \A v \in Procs : \A j \in 1..Len(batch[v]) :
            batch[w][i] = batch[v][j] => v = w

\* A span the tables have seen has left the loop.
RowsOlder ==
    \A s \in Spans : dataRows[s] > 0 \/ indexRows[s] > 0 => Older(s)

\* What the tables have of the spans a goroutine still has to insert.
RowsOfBatch ==
    \A w \in Procs : \A i \in 1..Len(batch[w]) :
        /\ step[w] = "data" => dataRows[batch[w][i]] = 0
        /\ step[w] = "index" => dataRows[batch[w][i]] > 0 \/ batch[w][i] \in failed
        /\ indexRows[batch[w][i]] = 0

SpanInv ==
    /\ Types /\ LoopLen /\ InOrder /\ Disjoint /\ RowsOlder /\ RowsOfBatch
    /\ StoredOnce /\ DataBeforeIndex

-----------------------------------------------------------------------------
(* What an insert adds to the rows of a span.                              *)

\* A block without repetitions adds the same to each of its spans and nothing to
\* the others.
LEMMA InsertOnce ==
    ASSUME NEW rows \in [Spans -> Nat], NEW spans \in Seq(Spans), NEW n \in Nat,
           \A i, j \in 1..Len(spans) : spans[i] = spans[j] => i = j
    PROVE  /\ Insert(rows, spans, n) \in [Spans -> Nat]
           /\ \A i \in 1..Len(spans) :
                Insert(rows, spans, n)[spans[i]] = rows[spans[i]] + n
           /\ \A s \in Spans : (\A i \in 1..Len(spans) : spans[i] # s) =>
                Insert(rows, spans, n)[s] = rows[s]
<1> DEFINE At(s) == {i \in 1..Len(spans) : spans[i] = s}
<1>1. \A i \in 1..Len(spans) : spans[i] \in Spans
  BY ElementOfSeq
<1>2. \A i \in 1..Len(spans) : Cardinality(At(spans[i])) = 1
  <2> SUFFICES ASSUME NEW i \in 1..Len(spans) PROVE Cardinality(At(spans[i])) = 1
    OBVIOUS
  <2>1. At(spans[i]) = {i}
    OBVIOUS
  <2> QED
    BY <2>1, FS_Singleton
<1>3. \A s \in Spans : (\A i \in 1..Len(spans) : spans[i] # s) => Cardinality(At(s)) = 0
  <2> SUFFICES ASSUME NEW s \in Spans, \A i \in 1..Len(spans) : spans[i] # s
               PROVE  Cardinality(At(s)) = 0
    OBVIOUS
  <2>1. At(s) = {}
    OBVIOUS
  <2> QED
    BY <2>1, FS_EmptySet
<1>4. \A s \in Spans : Insert(rows, spans, n)[s] = rows[s] + n * Cardinality(At(s))
  BY DEF Insert
<1>5. \A s \in Spans : rows[s] \in Nat
  OBVIOUS
<1> HIDE DEF At
<1>6. \A i \in 1..Len(spans) : Insert(rows, spans, n)[spans[i]] = rows[spans[i]] + n
  <2> SUFFICES ASSUME NEW i \in 1..Len(spans)
               PROVE  Insert(rows, spans, n)[spans[i]] = rows[spans[i]] + n
    OBVIOUS
  <2>1. Insert(rows, spans, n)[spans[i]] = rows[spans[i]] + n * 1
    BY <1>1, <1>2, <1>4
  <2> QED
    BY <2>1
<1>7. \A s \in Spans : (\A i \in 1..Len(spans) : spans[i] # s) =>
        Insert(rows, spans, n)[s] = rows[s]
  <2> SUFFICES ASSUME NEW s \in Spans, \A i \in 1..Len(spans) : spans[i] # s
               PROVE  Insert(rows, spans, n)[s] = rows[s]
    OBVIOUS
  <2>1. Insert(rows, spans, n)[s] = rows[s] + n * 0
    BY <1>3, <1>4
  <2> QED
    BY <2>1, <1>5
<1>8. \A s \in Spans : Insert(rows, spans, n)[s] \in Nat
  <2> SUFFICES ASSUME NEW s \in Spans PROVE Insert(rows, spans, n)[s] \in Nat
    OBVIOUS
  <2>1. CASE \E i \in 1..Len(spans) : spans[i] = s
    BY <2>1, <1>5, <1>6
  <2>2. CASE \A i \in 1..Len(spans) : spans[i] # s
    BY <2>2, <1>5, <1>7
  <2> QED
    BY <2>1, <2>2
<1>9. Insert(rows, spans, n) = [s \in Spans |-> Insert(rows, spans, n)[s]]
  BY DEF Insert
<1>10. Insert(rows, spans, n) \in [Spans -> Nat]
  BY <1>8, <1>9, Zenon
<1> QED
  BY <1>6, <1>7, <1>10

-----------------------------------------------------------------------------
(* The invariant holds from the start and every step keeps it.             *)

\* At the start nothing waits and nothing is stored.
LEMMA SpanInit == Init => SpanInv
<1> SUFFICES ASSUME Init PROVE SpanInv
  OBVIOUS
<1> USE SpanProcessorAssumption
<1>1. queue \in Seq(Spans) /\ Len(queue) = 0
  BY EmptySeq DEF Init
<1>2. \A w \in Procs : batch[w] \in Seq(Spans) /\ Len(batch[w]) = 0
  BY EmptySeq DEF Init
<1>3. Types
  BY <1>1, <1>2 DEF Init, Types, Spans
<1>4. LoopLen /\ InOrder
  BY <1>1 DEF Init, LoopLen, InOrder
<1>5. Disjoint /\ RowsOfBatch
  BY <1>2 DEF Disjoint, RowsOfBatch
<1>6. RowsOlder /\ StoredOnce /\ DataBeforeIndex
  BY DEF Init, RowsOlder, StoredOnce, DataBeforeIndex
<1> QED
  BY <1>3, <1>4, <1>5, <1>6 DEF SpanInv

\* Spans are numbers; the channel and the goroutines hold nothing else.
LEMMA Elements ==
    ASSUME Types
    PROVE  /\ Spans \subseteq Nat /\ arrived \in Nat
           /\ Len(queue) \in Nat /\ \A i \in 1..Len(queue) : queue[i] \in Spans
           /\ \A w \in Procs : /\ Len(batch[w]) \in Nat
                               /\ \A i \in 1..Len(batch[w]) : batch[w][i] \in Spans
<1>1. Spans \subseteq Nat /\ arrived \in Nat
  BY SpanProcessorAssumption DEF Spans, Types
<1>2. Len(queue) \in Nat /\ \A i \in 1..Len(queue) : queue[i] \in Spans
  BY ElementOfSeq, LenProperties DEF Types
<1>3. ASSUME NEW w \in Procs
      PROVE  Len(batch[w]) \in Nat /\ \A i \in 1..Len(batch[w]) : batch[w][i] \in Spans
  <2>1. batch[w] \in Seq(Spans)
    BY DEF Types
  <2> QED
    BY <2>1, ElementOfSeq, LenProperties
<1> QED
  BY <1>1, <1>2, <1>3

\* A step that keeps the tables and the goroutines keeps what relates the two.
LEMMA TablesKept ==
    ASSUME SpanInv, UNCHANGED <<workers, dataRows, indexRows, failed>>
    PROVE  RowsOfBatch' /\ StoredOnce' /\ DataBeforeIndex'
BY DEF SpanInv, RowsOfBatch, StoredOnce, DataBeforeIndex

\* The span that arrives is younger than all the others.
LEMMA AddSpanInv == SpanInv /\ AddSpan => SpanInv'
<1> SUFFICES ASSUME SpanInv, AddSpan PROVE SpanInv'
  OBVIOUS
<1> USE SpanProcessorAssumption DEF SpanInv
<1>1. arrived' \in Spans /\ arrived' = arrived + 1 /\ arrived \in Nat
  BY DEF AddSpan, Types, Spans
<1>2. /\ queue' \in Seq(Spans)
      /\ \A i \in 1..Len(queue') :
            \/ i \in 1..Len(queue) /\ queue'[i] = queue[i]
            \/ i = Len(queue) + 1 /\ queue'[i] = arrived'
  <2>1. CASE queue' = Append(queue, arrived')
    BY <1>1, <2>1, AppendProperties, Elements DEF Types
  <2>2. CASE UNCHANGED queue
    BY <2>2 DEF Types
  <2> QED
    BY <2>1, <2>2 DEF AddSpan
<1>3. \A s : s \in Nat /\ Older(s) => Older(s)'
  BY <1>1, <1>2 DEF AddSpan, Older
<1>4. Types'
  BY <1>1, <1>2 DEF AddSpan, Types
<1>5. LoopLen'
  BY DEF AddSpan, LoopLen
<1>6. InOrder'
  <2> USE <1>1, Elements
  <2>0. /\ \A i \in 1..Len(queue) : queue[i] \in Nat /\ queue[i] < arrived'
        /\ \A i \in 1..len : array[i] \in Nat /\ array[i] < arrived'
    <3>1. \A i \in 1..Len(queue) : queue[i] \in Nat /\ queue[i] <= arrived
      BY DEF InOrder
    <3>2. \A i \in 1..len : array[i] \in Nat /\ array[i] <= arrived
      BY DEF InOrder
    <3> QED
      BY <3>1, <3>2
  <2>1. \A i \in 1..Len(queue') :
          /\ queue'[i] <= arrived'
          /\ \A j \in 1..Len(queue') : i < j => queue'[i] < queue'[j]
    <3> SUFFICES ASSUME NEW i \in 1..Len(queue'), NEW j \in 1..Len(queue')
                 PROVE  queue'[i] <= arrived' /\ (i < j => queue'[i] < queue'[j])
      OBVIOUS
    <3>1. CASE i \in 1..Len(queue) /\ queue'[i] = queue[i]
      <4>1. CASE j \in 1..Len(queue) /\ queue'[j] = queue[j]
        BY <2>0, <3>1, <4>1 DEF InOrder
      <4>2. CASE j = Len(queue) + 1 /\ queue'[j] = arrived'
        BY <2>0, <3>1, <4>2
      <4> QED
        BY <1>2, <4>1, <4>2
    <3>2. CASE i = Len(queue) + 1 /\ queue'[i] = arrived'
      BY <1>2, <3>2
    <3> QED
      BY <1>2, <3>1, <3>2
  <2>2. \A i \in 1..len : \A j \in 1..Len(queue') : array[i] < queue'[j]
    <3> SUFFICES ASSUME NEW i \in 1..len, NEW j \in 1..Len(queue')
                 PROVE  array[i] < queue'[j]
      OBVIOUS
    <3>1. CASE j \in 1..Len(queue) /\ queue'[j] = queue[j]
      BY <3>1 DEF InOrder
    <3>2. CASE j = Len(queue) + 1 /\ queue'[j] = arrived'
      BY <2>0, <3>2
    <3> QED
      BY <1>2, <3>1, <3>2
  <2>3. \A i \in 1..len : array[i] <= arrived'
    BY <2>0
  <2> QED
    BY <2>1, <2>2, <2>3 DEF AddSpan, InOrder
<1>7. Disjoint'
  <2>1. \A w \in Procs : \A i \in 1..Len(batch[w]) : batch[w][i] \in Nat
    BY Elements
  <2> QED
    BY <1>3, <2>1 DEF AddSpan, Disjoint
<1>8. RowsOlder'
  BY <1>3 DEF AddSpan, RowsOlder, Spans
<1> QED
  BY <1>4, <1>5, <1>6, <1>7, <1>8, TablesKept DEF AddSpan

\* The loop takes the oldest span of the channel, which is younger than its batch.
LEMMA ReceiveSpanInv == SpanInv /\ ReceiveSpan => SpanInv'
<1> SUFFICES ASSUME SpanInv, ReceiveSpan PROVE SpanInv'
  OBVIOUS
<1> USE SpanProcessorAssumption DEF SpanInv
<1>1. /\ Len(queue) \in Nat \ {0}
      /\ \A i \in 1..Len(queue) : queue[i] \in Spans
  BY EmptySeq, ElementOfSeq DEF ReceiveSpan, Types
<1>2. /\ queue' \in Seq(Spans) /\ Len(queue') = Len(queue) - 1
      /\ \A i \in 1..Len(queue') : queue'[i] = queue[i + 1]
      /\ Head(queue) = queue[1]
  BY HeadTailProperties DEF ReceiveSpan, Types
<1>3. /\ len \in Nat /\ len' = len + 1 /\ len' <= BatchSize
      /\ array'[len'] = queue[1]
      /\ \A i \in 1..len : array'[i] = array[i]
      /\ array' \in [1..BatchSize -> Spans \cup {None}]
  BY <1>1, <1>2 DEF ReceiveSpan, Types, LoopLen
<1>4. \A s : s \in Nat /\ Older(s) => Older(s)'
  BY <1>1, <1>2, <1>3 DEF ReceiveSpan, Older, Spans
<1>5. Types'
  BY <1>2, <1>3 DEF ReceiveSpan, Types
<1>6. LoopLen'
  BY <1>3 DEF ReceiveSpan, LoopLen
<1>7. InOrder'
  <2>1. \A i \in 1..len : array[i] \in Spans
    BY DEF InOrder
  <2>2. arrived' = arrived /\ arrived \in Nat
    BY DEF ReceiveSpan, Types
  <2>3. \A i \in 1..len' : i \in 1..len \/ i = len'
    BY <1>3
  <2>4. \A i \in 1..Len(queue') : i + 1 \in 1..Len(queue)
    BY <1>1, <1>2
  <2>5. ASSUME NEW i \in 1..Len(queue'), NEW j \in 1..Len(queue')
        PROVE  queue'[i] <= arrived' /\ (i < j => queue'[i] < queue'[j])
    <3>1. queue'[i] = queue[i + 1] /\ queue'[j] = queue[j + 1]
      BY <1>2
    <3> QED
      BY <3>1, <2>2, <2>4 DEF InOrder
  <2>6. ASSUME NEW i \in 1..len', NEW j \in 1..len'
        PROVE  /\ array'[i] \in Spans /\ array'[i] <= arrived'
               /\ i < j => array'[i] < array'[j]
    BY <1>1, <1>3, <2>1, <2>2, <2>3 DEF InOrder
  <2>7. ASSUME NEW i \in 1..len', NEW j \in 1..Len(queue')
        PROVE  array'[i] < queue'[j]
    <3>1. queue'[j] = queue[j + 1] /\ j + 1 \in 1..Len(queue) /\ 1 < j + 1
      BY <1>2, <2>4
    <3>2. CASE i \in 1..len
      BY <1>3, <3>1, <3>2 DEF InOrder
    <3>3. CASE i = len'
      BY <1>1, <1>3, <3>1, <3>3 DEF InOrder
    <3> QED
      BY <2>3, <3>2, <3>3
  <2> QED
    BY <2>5, <2>6, <2>7 DEF InOrder
<1>8. Disjoint'
  <2>1. \A w \in Procs : \A i \in 1..Len(batch[w]) : batch[w][i] \in Nat
    BY Elements
  <2> QED
    BY <1>4, <2>1 DEF ReceiveSpan, Disjoint
<1>9. RowsOlder'
  BY <1>4, SMTT(30) DEF ReceiveSpan, RowsOlder, Spans
<1> QED
  BY <1>5, <1>6, <1>7, <1>8, <1>9, TablesKept DEF ReceiveSpan

\* The steps that move no span: the timer, the stop and the ways out of select.
LEMMA ControlInv ==
    ASSUME SpanInv, UNCHANGED <<ingest, queue, array, len, workers, tables>>,
           LoopLen', pc' \in {"select", "full", "timeout", "last", "stop", "exited"}
    PROVE  SpanInv'
<1>1. Types'
  BY DEF SpanInv, Types
<1>2. InOrder' /\ Disjoint' /\ RowsOlder'
  BY DEF SpanInv, InOrder, Disjoint, RowsOlder, Older
<1> QED
  BY <1>1, <1>2, TablesKept DEF SpanInv

\* A goroutine takes over the whole batch of the loop, which is older than the
\* channel, younger than the batches of the other goroutines and not stored.
LEMMA StartBatchInv == SpanInv /\ StartBatch => SpanInv'
<1> SUFFICES ASSUME SpanInv, StartBatch PROVE SpanInv'
  OBVIOUS
<1> USE SpanProcessorAssumption DEF SpanInv
<1>1. PICK w \in Procs :
        /\ step[w] = "idle"
        /\ batch' = [batch EXCEPT ![w] = SubSeq(array, 1, len)]
        /\ step' = [step EXCEPT ![w] = "data"]
  BY DEF StartBatch
<1>2. len \in Nat /\ \A i \in 1..len : array[i] \in Spans
  BY DEF Types, InOrder
<1>3. /\ batch'[w] \in Seq(Spans) /\ Len(batch'[w]) = len
      /\ \A i \in 1..len : batch'[w][i] = array[i]
      /\ \A v \in Procs : v # w => batch'[v] = batch[v] /\ step'[v] = step[v]
      /\ step'[w] = "data"
  <2>1. batch'[w] = SubSeq(array, 1, len)
    BY <1>1 DEF Types
  <2>2. /\ SubSeq(array, 1, len) \in Seq(Spans)
        /\ Len(SubSeq(array, 1, len)) = len
        /\ \A i \in 1..len : SubSeq(array, 1, len)[i] = array[i]
    BY <1>2, SubSeqProperties
  <2> QED
    BY <1>1, <2>1, <2>2 DEF Types
<1>4. pc' \in {"stop", "select", "exited"}
  <2>1. pc = "full" => pc' = "stop"
    BY DEF StartBatch
  <2>2. pc = "timeout" => pc' = "select"
    BY DEF StartBatch
  <2>3. pc = "last" => pc' = "exited"
    BY DEF StartBatch
  <2> QED
    BY <2>1, <2>2, <2>3 DEF StartBatch
<1>5. len' = 0 /\ UNCHANGED <<arrived, queue, array, dataRows, indexRows, failed>>
  BY DEF StartBatch
<1>6. Types' /\ LoopLen'
  <2>1. batch' \in [Procs -> Seq(Spans)]
    BY <1>1, <1>3 DEF Types
  <2>2. step' \in [Procs -> {"idle", "data", "index"}]
    BY <1>1 DEF Types
  <2> QED
    BY <1>4, <1>5, <2>1, <2>2 DEF Types, LoopLen
<1>7. InOrder'
  BY <1>5 DEF InOrder
<1> DEFINE Past(s) == s <= arrived /\ \A i \in 1..Len(queue) : s < queue[i]
<1>8. /\ \A s : Older(s) => Past(s)
      /\ \A i \in 1..len : Past(array[i])
  BY DEF Older, InOrder
<1>9. RowsOlder'
  BY <1>5, <1>8 DEF RowsOlder, Older
<1>10. \A v \in Procs : \A i \in 1..Len(batch[v]) : \A j \in 1..len : batch[v][i] < array[j]
  BY DEF Disjoint, Older
<1>11. \A i, j \in 1..len : array[i] = array[j] => i = j
  <2>1. \A i, j \in 1..len : i < j \/ j < i \/ i = j
    BY <1>2
  <2>2. \A i, j \in 1..len : i < j => array[i] < array[j]
    BY DEF InOrder
  <2> QED
    BY <1>2, <2>1, <2>2, Elements
<1>12. Disjoint'
  <2> SUFFICES ASSUME NEW v \in Procs, NEW i \in 1..Len(batch'[v])
               PROVE  /\ Past(batch'[v][i])
                      /\ \A j \in 1..Len(batch'[v]) : batch'[v][i] = batch'[v][j] => i = j
                      /\ \A u \in Procs : \A j \in 1..Len(batch'[u]) :
                            batch'[v][i] = batch'[u][j] => u = v
    BY <1>5 DEF Disjoint, Older
  <2> HIDE DEF Past
  <2>1. CASE v = w
    <3>1. Past(batch'[v][i]) /\ \A j \in 1..Len(batch'[v]) : batch'[v][i] = batch'[v][j] => i = j
      BY <1>3, <1>8, <1>11, <2>1
    <3>2. ASSUME NEW u \in Procs, NEW j \in 1..Len(batch'[u]), batch'[v][i] = batch'[u][j], u # w
          PROVE  FALSE
      BY <1>2, <1>3, <1>10, <2>1, <3>2, Elements, SMTT(30)
    <3> QED
      BY <2>1, <3>1, <3>2
  <2>2. CASE v # w
    <3>1. batch'[v] = batch[v] /\ Past(batch[v][i])
      BY <1>3, <1>8, <2>2 DEF Disjoint
    <3>2. ASSUME NEW j \in 1..Len(batch'[w]), batch'[v][i] = batch'[w][j]
          PROVE  FALSE
      BY <1>2, <1>3, <1>10, <3>1, <3>2, Elements, SMTT(30)
    <3> QED
      BY <1>3, <2>2, <3>1, <3>2, SMTT(30) DEF Disjoint
  <2> QED
    BY <2>1, <2>2
<1>13. RowsOfBatch'
  <2>1. \A i \in 1..len : dataRows[array[i]] = 0 /\ indexRows[array[i]] = 0
    <3> SUFFICES ASSUME NEW i \in 1..len PROVE dataRows[array[i]] = 0 /\ indexRows[array[i]] = 0
      OBVIOUS
    <3>1. array[i] \in Nat /\ ~ (array[i] < array[i])
      BY <1>2, Elements
    <3>2. ~ Older(array[i])
      BY <3>1 DEF Older
    <3>3. dataRows[array[i]] \in Nat /\ indexRows[array[i]] \in Nat
      BY <1>2 DEF Types
    <3> QED
      BY <1>2, <3>2, <3>3 DEF RowsOlder
  <2> SUFFICES ASSUME NEW v \in Procs, NEW i \in 1..Len(batch'[v])
               PROVE  /\ step'[v] = "data" => dataRows[batch'[v][i]] = 0
                      /\ step'[v] = "index" => \/ dataRows[batch'[v][i]] > 0
                                               \/ batch'[v][i] \in failed
                      /\ indexRows[batch'[v][i]] = 0
    BY <1>5 DEF RowsOfBatch
  <2>2. CASE v = w
    BY <1>3, <2>1, <2>2
  <2>3. CASE v # w
    BY <1>3, <2>3 DEF RowsOfBatch
  <2> QED
    BY <2>2, <2>3
<1>14. StoredOnce' /\ DataBeforeIndex'
  BY <1>5 DEF StoredOnce, DataBeforeIndex
<1> QED
  BY <1>6, <1>7, <1>9, <1>12, <1>13, <1>14

\* A goroutine's insert adds n rows for each span of its batch; the rows of all
\* other spans stay.
LEMMA InsertBatch ==
    ASSUME SpanInv, NEW w \in Procs, NEW rows \in [Spans -> Nat], NEW n \in Nat
    PROVE  /\ Insert(rows, batch[w], n) \in [Spans -> Nat]
           /\ \A i \in 1..Len(batch[w]) :
                Insert(rows, batch[w], n)[batch[w][i]] = rows[batch[w][i]] + n
           /\ \A s \in Spans : (\A i \in 1..Len(batch[w]) : batch[w][i] # s) =>
                Insert(rows, batch[w], n)[s] = rows[s]
<1>1. /\ batch[w] \in Seq(Spans)
      /\ \A i, j \in 1..Len(batch[w]) : batch[w][i] = batch[w][j] => i = j
  BY DEF SpanInv, Types, Disjoint
<1> DEFINE b == batch[w]
<1>2. b \in Seq(Spans) /\ \A i, j \in 1..Len(b) : b[i] = b[j] => i = j
  BY <1>1
<1> HIDE DEF b
<1>3. /\ Insert(rows, b, n) \in [Spans -> Nat]
      /\ \A i \in 1..Len(b) : Insert(rows, b, n)[b[i]] = rows[b[i]] + n
      /\ \A s \in Spans : (\A i \in 1..Len(b) : b[i] # s) => Insert(rows, b, n)[s] = rows[s]
  BY <1>2, InsertOnce
<1> QED
  BY <1>3, Zenon DEF b

\* The first insert of a goroutine: spans_data has nothing of its spans yet.
LEMMA InsertDataInv == \A w \in Procs : SpanInv /\ InsertData(w) => SpanInv'
<1> SUFFICES ASSUME NEW w \in Procs, SpanInv, InsertData(w) PROVE SpanInv'
  OBVIOUS
<1> USE SpanProcessorAssumption DEF SpanInv
<1> DEFINE Mine(s) == \E i \in 1..Len(batch[w]) : batch[w][i] = s
<1>1. PICK n \in Nat : /\ dataRows' = Insert(dataRows, batch[w], n)
                       /\ \/ n = 1 /\ UNCHANGED failed
                          \/ failed' = failed \cup ToSet(batch[w])
  BY DEF InsertData, Attempts, Batch
<1>2. /\ dataRows' \in [Spans -> Nat]
      /\ \A i \in 1..Len(batch[w]) : dataRows'[batch[w][i]] = dataRows[batch[w][i]] + n
      /\ \A s \in Spans : ~ Mine(s) => dataRows'[s] = dataRows[s]
  <2> DEFINE d == dataRows
  <2>1. d \in [Spans -> Nat] /\ n \in Nat
    BY <1>1 DEF Types
  <2> HIDE SpanProcessorAssumption DEF d, SpanInv, Mine
  <2>2. Insert(d, batch[w], n) \in [Spans -> Nat]
    BY <2>1, InsertBatch
  <2>3. \A i \in 1..Len(batch[w]) : Insert(d, batch[w], n)[batch[w][i]] = d[batch[w][i]] + n
    BY <2>1, InsertBatch
  <2>4. \A s \in Spans : (\A i \in 1..Len(batch[w]) : batch[w][i] # s) =>
          Insert(d, batch[w], n)[s] = d[s]
    BY <2>1, InsertBatch
  <2> QED
    BY <1>1, <2>2, <2>3, <2>4, Zenon DEF d, Mine
<1>3. \A i \in 1..Len(batch[w]) : dataRows[batch[w][i]] = 0 /\ indexRows[batch[w][i]] = 0
  BY DEF InsertData, RowsOfBatch
<1>4. \A s \in Spans : Mine(s) =>
        /\ Older(s) /\ dataRows'[s] = n /\ indexRows[s] = 0
        /\ n = 1 \/ s \in failed'
  <2> SUFFICES ASSUME NEW i \in 1..Len(batch[w])
               PROVE  LET s == batch[w][i] IN
                        /\ Older(s) /\ dataRows'[s] = n /\ indexRows[s] = 0
                        /\ n = 1 \/ s \in failed'
    OBVIOUS
  <2>1. Older(batch[w][i])
    BY DEF Disjoint
  <2>2. n = 1 \/ batch[w][i] \in failed'
    <3>1. batch[w][i] \in ToSet(batch[w])
      BY LenProperties DEF Types, ToSet
    <3> QED
      BY <1>1, <3>1
  <2> QED
    BY <1>2, <1>3, <2>1, <2>2
<1>5. failed' \subseteq Spans /\ failed \subseteq failed'
  <2>1. ToSet(batch[w]) \subseteq Spans
    BY LenProperties, Elements DEF Types, ToSet
  <2> QED
    BY <1>1, <2>1 DEF Types
<1>6. /\ UNCHANGED <<arrived, queue, array, len, pc, batch, indexRows>>
      /\ step' = [step EXCEPT ![w] = "index"]
  BY DEF InsertData
<1>7. Types' /\ LoopLen'
  BY <1>2, <1>5, <1>6 DEF Types, LoopLen
<1>8. InOrder' /\ Disjoint' /\ \A s : Older(s) => Older(s)'
  BY <1>6 DEF InOrder, Disjoint, Older
<1>9. RowsOlder'
  BY <1>2, <1>4, <1>6, <1>8 DEF RowsOlder
<1>10. RowsOfBatch'
  <2> SUFFICES ASSUME NEW v \in Procs, NEW i \in 1..Len(batch[v])
               PROVE  /\ step'[v] = "data" => dataRows'[batch[v][i]] = 0
                      /\ step'[v] = "index" => \/ dataRows'[batch[v][i]] > 0
                                               \/ batch[v][i] \in failed'
                      /\ indexRows[batch[v][i]] = 0
    BY <1>6 DEF RowsOfBatch
  <2>1. batch[v][i] \in Spans
    BY Elements
  <2>2. CASE v = w
    <3>1. step'[v] = "index" /\ Mine(batch[v][i])
      BY <1>6, <2>2 DEF Types
    <3> QED
      BY <1>4, <2>1, <3>1
  <2>3. CASE v # w
    <3>1. step'[v] = step[v] /\ ~ Mine(batch[v][i])
      BY <1>6, <2>3 DEF Types, Disjoint
    <3>2. dataRows'[batch[v][i]] = dataRows[batch[v][i]]
      BY <1>2, <2>1, <3>1
    <3> QED
      BY <1>5, <3>1, <3>2 DEF RowsOfBatch
  <2> QED
    BY <2>2, <2>3
<1>11. StoredOnce' /\ DataBeforeIndex'
  <2> SUFFICES ASSUME NEW s \in Spans
               PROVE  /\ s \notin failed' => dataRows'[s] <= 1 /\ indexRows[s] <= 1
                      /\ indexRows[s] > 0 => dataRows'[s] > 0 \/ s \in failed'
    BY <1>6 DEF StoredOnce, DataBeforeIndex
  <2>1. CASE Mine(s)
    BY <1>4, <2>1
  <2>2. CASE ~ Mine(s)
    <3>1. dataRows'[s] = dataRows[s]
      BY <1>2, <2>2
    <3> QED
      BY <1>5, <3>1 DEF StoredOnce, DataBeforeIndex
  <2> QED
    BY <2>1, <2>2
<1> QED
  BY <1>7, <1>8, <1>9, <1>10, <1>11

\* The second insert: spans_index has nothing of the spans of the goroutine, and
\* spans_data has them or the first insert failed.
LEMMA InsertIndexInv == \A w \in Procs : SpanInv /\ InsertIndex(w) => SpanInv'
<1> SUFFICES ASSUME NEW w \in Procs, SpanInv, InsertIndex(w) PROVE SpanInv'
  OBVIOUS
<1> USE SpanProcessorAssumption DEF SpanInv
<1> DEFINE Mine(s) == \E i \in 1..Len(batch[w]) : batch[w][i] = s
<1>1. PICK n \in Nat : /\ indexRows' = Insert(indexRows, batch[w], n)
                       /\ \/ n = 1 /\ UNCHANGED failed
                          \/ failed' = failed \cup ToSet(batch[w])
  BY DEF InsertIndex, Attempts, Batch
<1>2. /\ indexRows' \in [Spans -> Nat]
      /\ \A i \in 1..Len(batch[w]) : indexRows'[batch[w][i]] = indexRows[batch[w][i]] + n
      /\ \A s \in Spans : ~ Mine(s) => indexRows'[s] = indexRows[s]
  <2> DEFINE d == indexRows
  <2>1. d \in [Spans -> Nat] /\ n \in Nat
    BY <1>1 DEF Types
  <2> HIDE SpanProcessorAssumption DEF d, SpanInv, Mine
  <2>2. Insert(d, batch[w], n) \in [Spans -> Nat]
    BY <2>1, InsertBatch
  <2>3. \A i \in 1..Len(batch[w]) : Insert(d, batch[w], n)[batch[w][i]] = d[batch[w][i]] + n
    BY <2>1, InsertBatch
  <2>4. \A s \in Spans : (\A i \in 1..Len(batch[w]) : batch[w][i] # s) =>
          Insert(d, batch[w], n)[s] = d[s]
    BY <2>1, InsertBatch
  <2> QED
    BY <1>1, <2>2, <2>3, <2>4, Zenon DEF d, Mine
<1>3. \A i \in 1..Len(batch[w]) :
        /\ indexRows[batch[w][i]] = 0
        /\ dataRows[batch[w][i]] > 0 \/ batch[w][i] \in failed
  BY DEF InsertIndex, RowsOfBatch
<1>4. \A s \in Spans : Mine(s) =>
        /\ Older(s) /\ indexRows'[s] = n
        /\ dataRows[s] > 0 \/ s \in failed
        /\ n = 1 \/ s \in failed'
  <2> SUFFICES ASSUME NEW i \in 1..Len(batch[w])
               PROVE  LET s == batch[w][i] IN
                        /\ Older(s) /\ indexRows'[s] = n
                        /\ dataRows[s] > 0 \/ s \in failed
                        /\ n = 1 \/ s \in failed'
    OBVIOUS
  <2>1. Older(batch[w][i])
    BY DEF Disjoint
  <2>2. n = 1 \/ batch[w][i] \in failed'
    <3>1. batch[w][i] \in ToSet(batch[w])
      BY LenProperties DEF Types, ToSet
    <3> QED
      BY <1>1, <3>1
  <2> QED
    BY <1>2, <1>3, <2>1, <2>2
<1>5. failed' \subseteq Spans /\ failed \subseteq failed'
  <2>1. ToSet(batch[w]) \subseteq Spans
    BY LenProperties, Elements DEF Types, ToSet
  <2> QED
    BY <1>1, <2>1 DEF Types
<1>6. /\ UNCHANGED <<arrived, queue, array, len, pc, dataRows>>
      /\ step' = [step EXCEPT ![w] = "idle"]
      /\ batch' = [batch EXCEPT ![w] = << >>]
  BY DEF InsertIndex
<1>7. /\ batch' \in [Procs -> Seq(Spans)] /\ Len(batch'[w]) = 0
      /\ \A v \in Procs : v # w => batch'[v] = batch[v] /\ step'[v] = step[v]
  BY <1>6, EmptySeq DEF Types
<1>8. Types' /\ LoopLen'
  BY <1>2, <1>5, <1>6, <1>7 DEF Types, LoopLen
<1>9. InOrder' /\ \A s : Older(s) => Older(s)'
  BY <1>6 DEF InOrder, Older
<1>10. \A v \in Procs : \A i \in 1..Len(batch'[v]) : v # w
  BY <1>7
<1>11. Disjoint'
  BY <1>6, <1>7, <1>10 DEF Disjoint, Older
<1>12. RowsOlder'
  BY <1>2, <1>4, <1>6, <1>9 DEF RowsOlder
<1>13. RowsOfBatch'
  <2> SUFFICES ASSUME NEW v \in Procs, NEW i \in 1..Len(batch[v]), v # w
               PROVE  /\ step[v] = "data" => dataRows[batch[v][i]] = 0
                      /\ step[v] = "index" => \/ dataRows[batch[v][i]] > 0
                                              \/ batch[v][i] \in failed'
                      /\ indexRows'[batch[v][i]] = 0
    BY <1>6, <1>7, <1>10 DEF RowsOfBatch
  <2>1. batch[v][i] \in Spans /\ ~ Mine(batch[v][i])
    BY Elements DEF Disjoint
  <2>2. indexRows'[batch[v][i]] = indexRows[batch[v][i]]
    BY <1>2, <2>1
  <2> QED
    BY <1>5, <2>2 DEF RowsOfBatch
<1>14. StoredOnce' /\ DataBeforeIndex'
  <2> SUFFICES ASSUME NEW s \in Spans
               PROVE  /\ s \notin failed' => dataRows[s] <= 1 /\ indexRows'[s] <= 1
                      /\ indexRows'[s] > 0 => dataRows[s] > 0 \/ s \in failed'
    BY <1>6 DEF StoredOnce, DataBeforeIndex
  <2>1. CASE Mine(s)
    BY <1>4, <1>5, <2>1 DEF StoredOnce
  <2>2. CASE ~ Mine(s)
    <3>1. indexRows'[s] = indexRows[s]
      BY <1>2, <2>2
    <3> QED
      BY <1>5, <3>1 DEF StoredOnce, DataBeforeIndex
  <2> QED
    BY <2>1, <2>2
<1> QED
  BY <1>8, <1>9, <1>11, <1>12, <1>13, <1>14

\* Every step keeps the invariant.
LEMMA SpanStep == SpanInv /\ [Next]_vars => SpanInv'
<1> SUFFICES ASSUME SpanInv, [Next]_vars PROVE SpanInv'
  OBVIOUS
<1> USE SpanProcessorAssumption
<1>1. CASE AddSpan
  BY <1>1, AddSpanInv
<1>2. CASE ReceiveSpan
  BY <1>2, ReceiveSpanInv
<1>3. CASE StartBatch
  BY <1>3, StartBatchInv
<1>4. ASSUME NEW w \in Procs, WorkerStep(w) PROVE SpanInv'
  BY <1>4, InsertDataInv, InsertIndexInv DEF WorkerStep
<1>5. CASE ReceiveTimer
  BY <1>5, ControlInv DEF ReceiveTimer, SpanInv, Types, LoopLen
<1>6. CASE ReceiveDone
  BY <1>6, ControlInv DEF ReceiveDone, SpanInv, Types, LoopLen
<1>7. CASE RestartTimer
  <2>1. len = 0
    BY <1>7 DEF RestartTimer, SpanInv, LoopLen
  <2> QED
    BY <1>7, <2>1, ControlInv DEF RestartTimer, SpanInv, Types, LoopLen
<1>8. CASE TimerFires \/ Stop \/ UNCHANGED vars
  BY <1>8, ControlInv DEF TimerFires, Stop, vars, SpanInv, Types, LoopLen
<1> QED
  BY <1>1, <1>2, <1>3, <1>4, <1>5, <1>6, <1>7, <1>8 DEF Next, LoopStep

\* Whatever the order of the goroutines, the fills of the batch's array and the
\* arrivals, no span goes out twice; each is stored once, unless an insert of it
\* met an error and was retried.
THEOREM SpanStoredOnce == Spec => []StoredOnce
<1>1. SpanInv => StoredOnce
  BY DEF SpanInv
<1> QED
  BY <1>1, SpanInit, SpanStep, PTL DEF Spec

\* At every moment, a crash between the two inserts included, a span that
\* spans_index lists has its data in spans_data, unless an insert of it failed.
THEOREM SpanDataBeforeIndex == Spec => []DataBeforeIndex
<1>1. SpanInv => DataBeforeIndex
  BY DEF SpanInv
<1> QED
  BY <1>1, SpanInit, SpanStep, PTL DEF Spec

-----------------------------------------------------------------------------
(* No span is lost on the way.                                             *)

\* A span that was not dropped is in the channel, in the batch of the loop or
\* with a goroutine, or it is stored in both tables, or an insert of it failed.
Held(s) ==
    \/ \E i \in 1..Len(queue) : queue[i] = s
    \/ \E i \in 1..len : array[i] = s
    \/ \E w \in Procs : \E i \in 1..Len(batch[w]) : batch[w][i] = s
Stored(s) == dataRows[s] > 0 /\ indexRows[s] > 0
NoSpanLost == \A s \in (1..arrived) \ dropped : Held(s) \/ Stored(s) \/ s \in failed

\* A slot of the gate that is free holds no spans that the next batch would hide.
FreeSlots == \A w \in Procs : step[w] = "idle" => Len(batch[w]) = 0

Accounted == FreeSlots /\ NoSpanLost

\* A span that was not dropped before the step is still accounted for, if it
\* is held after it whenever it was held before it and did not end.
LEMMA KeepsSpans ==
    ASSUME Accounted, UNCHANGED ingest,
           \A s \in (1..arrived) \ dropped :
              /\ Held(s) => Held(s)' \/ Stored(s)' \/ s \in failed'
              /\ Stored(s) => Stored(s)'
              /\ s \in failed => s \in failed'
    PROVE  NoSpanLost'
BY DEF Accounted, NoSpanLost

\* The span that arrives goes to the channel or is dropped.
LEMMA AddSpanKeeps == SpanInv /\ Accounted /\ AddSpan => Accounted'
<1> SUFFICES ASSUME SpanInv, Accounted, AddSpan PROVE Accounted'
  OBVIOUS
<1>1. arrived' = arrived + 1 /\ arrived \in Nat /\ queue \in Seq(Spans) /\ Len(queue) \in Nat
  BY Elements DEF AddSpan, SpanInv, Types
<1>2. /\ UNCHANGED <<len, array, batch, step, dataRows, indexRows, failed>>
      /\ dropped \subseteq dropped'
  BY DEF AddSpan
<1>3. /\ Len(queue') >= Len(queue) /\ Len(queue') \in Nat
      /\ \A i \in 1..Len(queue) : queue'[i] = queue[i]
      /\ arrived' \in dropped' \/ \E i \in 1..Len(queue') : queue'[i] = arrived'
  <2>1. arrived' \in Spans
    BY <1>1, SpanProcessorAssumption DEF AddSpan, Spans
  <2>2. CASE queue' = Append(queue, arrived')
    <3>1. /\ Len(queue') = Len(queue) + 1 /\ queue'[Len(queue) + 1] = arrived'
          /\ \A i \in 1..Len(queue) : queue'[i] = queue[i]
      BY <1>1, <2>1, <2>2, AppendProperties
    <3> QED
      BY <1>1, <3>1
  <2>3. CASE UNCHANGED queue /\ dropped' = dropped \cup {arrived'}
    BY <1>1, <2>3
  <2> QED
    BY <2>2, <2>3 DEF AddSpan
<1>4. ASSUME NEW s, Held(s) PROVE Held(s)'
  BY <1>1, <1>2, <1>3, <1>4 DEF Held
<1>5. ASSUME NEW s \in (1..arrived') \ dropped' PROVE Held(s)' \/ Stored(s)' \/ s \in failed'
  <2>1. CASE s = arrived'
    BY <1>3, <1>5, <2>1 DEF Held
  <2>2. CASE s \in (1..arrived) \ dropped
    BY <1>2, <1>4, <2>2 DEF Accounted, NoSpanLost, Stored
  <2> QED
    BY <1>1, <1>2, <2>1, <2>2
<1> QED
  BY <1>2, <1>5 DEF Accounted, FreeSlots, NoSpanLost

\* The span that leaves the channel is the last of the batch of the loop.
LEMMA ReceiveSpanKeeps == SpanInv /\ Accounted /\ ReceiveSpan => Accounted'
<1> SUFFICES ASSUME SpanInv, Accounted, ReceiveSpan PROVE Accounted'
  OBVIOUS
<1>1. /\ Len(queue) \in Nat \ {0} /\ Len(queue') = Len(queue) - 1
      /\ \A i \in 1..Len(queue') : queue'[i] = queue[i + 1]
      /\ Head(queue) = queue[1]
  BY EmptySeq, LenProperties, HeadTailProperties DEF ReceiveSpan, SpanInv, Types
<1>2. /\ len \in Nat /\ len' = len + 1
      /\ array'[len'] = queue[1] /\ \A i \in 1..len : array'[i] = array[i]
  BY <1>1, SpanProcessorAssumption DEF ReceiveSpan, SpanInv, Types, LoopLen
<1>3. UNCHANGED <<arrived, dropped, batch, step, dataRows, indexRows, failed>>
  BY DEF ReceiveSpan
<1>4. ASSUME NEW s, Held(s) PROVE Held(s)'
  <2>1. CASE \E i \in 1..Len(queue) : queue[i] = s
    <3>1. PICK i \in 1..Len(queue) : queue[i] = s
      BY <2>1
    <3>2. CASE i = 1
      BY <1>2, <3>1, <3>2 DEF Held
    <3>3. CASE i > 1
      <4>1. i - 1 \in 1..Len(queue') /\ queue'[i - 1] = s
        BY <1>1, <3>1, <3>3
      <4> QED
        BY <4>1 DEF Held
    <3> QED
      BY <1>1, <3>2, <3>3
  <2>2. CASE \E i \in 1..len : array[i] = s
    BY <1>2, <2>2 DEF Held
  <2>3. CASE \E w \in Procs : \E i \in 1..Len(batch[w]) : batch[w][i] = s
    BY <1>3, <2>3 DEF Held
  <2> QED
    BY <1>4, <2>1, <2>2, <2>3 DEF Held
<1> QED
  BY <1>3, <1>4, KeepsSpans DEF Accounted, FreeSlots, Stored

\* The batch of the loop goes to a goroutine that held nothing.
LEMMA StartBatchKeeps == SpanInv /\ Accounted /\ StartBatch => Accounted'
<1> SUFFICES ASSUME SpanInv, Accounted, StartBatch PROVE Accounted'
  OBVIOUS
<1>1. PICK w \in Procs :
        /\ step[w] = "idle"
        /\ batch' = [batch EXCEPT ![w] = SubSeq(array, 1, len)]
        /\ step' = [step EXCEPT ![w] = "data"]
  BY DEF StartBatch
<1>2. len \in Nat /\ \A i \in 1..len : array[i] \in Spans
  BY DEF SpanInv, Types, InOrder
<1>3. /\ Len(batch'[w]) = len /\ \A i \in 1..len : batch'[w][i] = array[i]
      /\ \A v \in Procs : v # w => batch'[v] = batch[v] /\ step'[v] = step[v]
      /\ step'[w] = "data"
  <2>1. /\ Len(SubSeq(array, 1, len)) = len
        /\ \A i \in 1..len : SubSeq(array, 1, len)[i] = array[i]
    BY <1>2, SubSeqProperties
  <2> QED
    BY <1>1, <2>1 DEF SpanInv, Types
<1>4. UNCHANGED <<arrived, dropped, queue, dataRows, indexRows, failed>>
  BY DEF StartBatch
<1>5. Len(batch[w]) = 0
  BY <1>1 DEF Accounted, FreeSlots
<1>6. ASSUME NEW s, Held(s) PROVE Held(s)'
  <2>1. CASE \E i \in 1..Len(queue) : queue[i] = s
    BY <1>4, <2>1 DEF Held
  <2>2. CASE \E i \in 1..len : array[i] = s
    BY <1>3, <2>2 DEF Held
  <2>3. CASE \E v \in Procs : \E i \in 1..Len(batch[v]) : batch[v][i] = s
    <3>1. PICK v \in Procs : \E i \in 1..Len(batch[v]) : batch[v][i] = s
      BY <2>3
    <3>2. v # w
      BY <1>5, <3>1
    <3> QED
      BY <1>3, <3>1, <3>2 DEF Held
  <2> QED
    BY <1>6, <2>1, <2>2, <2>3 DEF Held
<1>7. FreeSlots'
  BY <1>3 DEF Accounted, FreeSlots
<1> QED
  BY <1>4, <1>6, <1>7, KeepsSpans DEF Accounted, Stored

\* A goroutine's insert takes no rows away, and one that is made once leaves rows.
LEMMA InsertGrows ==
    ASSUME SpanInv, NEW w \in Procs, NEW rows \in [Spans -> Nat], NEW n \in Nat
    PROVE  /\ \A s \in Spans : rows[s] > 0 => Insert(rows, batch[w], n)[s] > 0
           /\ \A i \in 1..Len(batch[w]) : n = 1 => Insert(rows, batch[w], n)[batch[w][i]] > 0
<1>1. \A i \in 1..Len(batch[w]) :
        Insert(rows, batch[w], n)[batch[w][i]] = rows[batch[w][i]] + n
  BY InsertBatch
<1>2. \A s \in Spans : (\A i \in 1..Len(batch[w]) : batch[w][i] # s) =>
        Insert(rows, batch[w], n)[s] = rows[s]
  BY InsertBatch
<1>3. \A i \in 1..Len(batch[w]) : batch[w][i] \in Spans
  BY Elements DEF SpanInv
<1> DEFINE after == Insert(rows, batch[w], n)
<1> HIDE DEF after
<1>4. ASSUME NEW s \in Spans, rows[s] > 0 PROVE after[s] > 0
  <2>1. CASE \E i \in 1..Len(batch[w]) : batch[w][i] = s
    <3>1. after[s] = rows[s] + n
      BY <1>1, <2>1 DEF after
    <3>2. rows[s] \in Nat
      OBVIOUS
    <3> QED
      BY <1>4, <3>1, <3>2
  <2>2. CASE \A i \in 1..Len(batch[w]) : batch[w][i] # s
    BY <1>2, <1>4, <2>2 DEF after
  <2> QED
    BY <2>1, <2>2
<1>5. ASSUME NEW i \in 1..Len(batch[w]), n = 1 PROVE after[batch[w][i]] > 0
  <2>1. after[batch[w][i]] = rows[batch[w][i]] + n
    BY <1>1 DEF after
  <2>2. rows[batch[w][i]] \in Nat
    BY <1>3
  <2> QED
    BY <1>5, <2>1, <2>2
<1> QED
  BY <1>4, <1>5 DEF after

\* The spans stay with the goroutine after its first insert.
LEMMA InsertDataKeeps == \A w \in Procs : SpanInv /\ Accounted /\ InsertData(w) => Accounted'
<1> SUFFICES ASSUME NEW w \in Procs, SpanInv, Accounted, InsertData(w) PROVE Accounted'
  OBVIOUS
<1>1. PICK n \in Nat : /\ dataRows' = Insert(dataRows, batch[w], n)
                       /\ failed \subseteq failed'
  BY SpanProcessorAssumption DEF InsertData, Attempts, Batch
<1>2. \A s \in Spans : dataRows[s] > 0 => dataRows'[s] > 0
  <2> DEFINE d == dataRows
  <2>1. d \in [Spans -> Nat] /\ n \in Nat
    BY DEF SpanInv, Types
  <2> HIDE DEF d
  <2>2. \A s \in Spans : d[s] > 0 => Insert(d, batch[w], n)[s] > 0
    BY <2>1, InsertGrows
  <2> QED
    BY <1>1, <2>2, Zenon DEF d
<1>3. /\ UNCHANGED <<arrived, dropped, queue, array, len, batch, indexRows>>
      /\ step' = [step EXCEPT ![w] = "index"]
  BY DEF InsertData
<1>4. FreeSlots'
  BY <1>3 DEF Accounted, FreeSlots, SpanInv, Types
<1>5. \A s \in 1..arrived : s \in Spans
  BY SpanProcessorAssumption DEF SpanInv, Types, Spans
<1> QED
  BY <1>1, <1>2, <1>3, <1>4, <1>5, KeepsSpans DEF Accounted, Held, Stored

\* The goroutine ends: each of its spans is in both tables, or an insert failed.
LEMMA InsertIndexKeeps == \A w \in Procs : SpanInv /\ Accounted /\ InsertIndex(w) => Accounted'
<1> SUFFICES ASSUME NEW w \in Procs, SpanInv, Accounted, InsertIndex(w) PROVE Accounted'
  OBVIOUS
<1>1. PICK n \in Nat : /\ indexRows' = Insert(indexRows, batch[w], n)
                       /\ \/ n = 1 /\ UNCHANGED failed
                          \/ failed' = failed \cup ToSet(batch[w])
  BY SpanProcessorAssumption DEF InsertIndex, Attempts, Batch
<1>2. /\ \A s \in Spans : indexRows[s] > 0 => indexRows'[s] > 0
      /\ \A i \in 1..Len(batch[w]) : n = 1 => indexRows'[batch[w][i]] > 0
  <2> DEFINE d == indexRows
  <2>1. d \in [Spans -> Nat] /\ n \in Nat
    BY DEF SpanInv, Types
  <2> HIDE DEF d
  <2>2. \A s \in Spans : d[s] > 0 => Insert(d, batch[w], n)[s] > 0
    BY <2>1, InsertGrows
  <2>3. \A i \in 1..Len(batch[w]) : n = 1 => Insert(d, batch[w], n)[batch[w][i]] > 0
    BY <2>1, InsertGrows
  <2> QED
    BY <1>1, <2>2, <2>3, Zenon DEF d
<1>3. \A i \in 1..Len(batch[w]) : n = 1 \/ batch[w][i] \in failed'
  <2>1. ASSUME NEW i \in 1..Len(batch[w]) PROVE batch[w][i] \in ToSet(batch[w])
    <3>1. batch[w] \in Seq(Spans)
      BY DEF SpanInv, Types
    <3> QED
      BY <3>1, LenProperties DEF ToSet
  <2> QED
    BY <1>1, <2>1
<1>4. \A i \in 1..Len(batch[w]) : dataRows[batch[w][i]] > 0 \/ batch[w][i] \in failed
  BY DEF InsertIndex, SpanInv, RowsOfBatch
<1>5. /\ UNCHANGED <<arrived, dropped, queue, array, len, dataRows>>
      /\ batch' = [batch EXCEPT ![w] = << >>]
      /\ step' = [step EXCEPT ![w] = "idle"]
      /\ failed \subseteq failed'
  BY <1>1 DEF InsertIndex
<1>6. /\ Len(batch'[w]) = 0
      /\ \A v \in Procs : v # w => batch'[v] = batch[v] /\ step'[v] = step[v]
  BY <1>5, EmptySeq DEF SpanInv, Types
<1>7. ASSUME NEW s \in Spans, Held(s) PROVE Held(s)' \/ Stored(s)' \/ s \in failed'
  <2>1. CASE \E i \in 1..Len(queue) : queue[i] = s
    BY <1>5, <2>1 DEF Held
  <2>2. CASE \E i \in 1..len : array[i] = s
    BY <1>5, <2>2 DEF Held
  <2>3. ASSUME NEW v \in Procs, NEW i \in 1..Len(batch[v]), batch[v][i] = s
        PROVE  Held(s)' \/ Stored(s)' \/ s \in failed'
    <3>1. CASE v = w
      <4>1. dataRows[s] > 0 \/ s \in failed'
        BY <1>4, <1>5, <2>3, <3>1
      <4>2. indexRows'[s] > 0 \/ s \in failed'
        BY <1>2, <1>3, <2>3, <3>1
      <4> QED
        BY <1>5, <4>1, <4>2 DEF Stored
    <3>2. CASE v # w
      BY <1>6, <2>3, <3>2 DEF Held
    <3> QED
      BY <3>1, <3>2
  <2> QED
    BY <1>7, <2>1, <2>2, <2>3 DEF Held
<1>8. FreeSlots'
  BY <1>6 DEF Accounted, FreeSlots
<1>9. \A s \in 1..arrived : s \in Spans
  BY SpanProcessorAssumption DEF SpanInv, Types, Spans
<1> QED
  BY <1>2, <1>5, <1>7, <1>8, <1>9, KeepsSpans DEF Accounted, Stored

\* No span that AddSpan did not drop is lost between the channel, the loop and
\* the goroutines: as long as it is not stored in both tables, and no insert of
\* it failed, one of them has it.
THEOREM SpansKept == Spec => []NoSpanLost
<1>1. Init => Accounted
  <2> SUFFICES ASSUME Init PROVE Accounted
    OBVIOUS
  <2>1. \A w \in Procs : Len(batch[w]) = 0
    BY EmptySeq DEF Init
  <2>2. arrived = 0
    BY DEF Init
  <2> QED
    BY <2>1, <2>2 DEF Accounted, FreeSlots, NoSpanLost
<1>2. SpanInv /\ Accounted /\ [Next]_vars => Accounted'
  <2> SUFFICES ASSUME SpanInv, Accounted, [Next]_vars PROVE Accounted'
    OBVIOUS
  <2>1. CASE AddSpan
    BY <2>1, AddSpanKeeps
  <2>2. CASE ReceiveSpan
    BY <2>2, ReceiveSpanKeeps
  <2>3. CASE StartBatch
    BY <2>3, StartBatchKeeps
  <2>4. ASSUME NEW w \in Procs, WorkerStep(w) PROVE Accounted'
    BY <2>4, InsertDataKeeps, InsertIndexKeeps DEF WorkerStep
  <2>5. CASE UNCHANGED <<ingest, queue, array, len, workers, dataRows, indexRows, failed>>
    BY <2>5 DEF Accounted, FreeSlots, NoSpanLost, Held, Stored
  <2>6. CASE ReceiveTimer \/ ReceiveDone \/ RestartTimer \/ TimerFires \/ Stop \/ UNCHANGED vars
    BY <2>5, <2>6 DEF ReceiveTimer, ReceiveDone, RestartTimer, TimerFires, Stop, vars
  <2> QED
    BY <2>1, <2>2, <2>3, <2>4, <2>6 DEF Next, LoopStep
<1>3. Accounted => NoSpanLost
  BY DEF Accounted
<1> QED
  BY <1>1, <1>2, <1>3, SpanInit, SpanStep, PTL DEF Spec
=============================================================================
