--------------------------- MODULE SpanProcessor ----------------------------
(***************************************************************************)
(* pkg/tracing/span_processor.go: spans wait in a bounded channel,         *)
(* processLoop collects them into batches, and a goroutine per batch, at   *)
(* most Procs of them at a time, inserts the rows.                         *)
(*                                                                         *)
(* processLoop reuses the array of its batch; a goroutine works on a copy. *)
(***************************************************************************)
EXTENDS Integers, Sequences, FiniteSets, SequencesExt

CONSTANTS
    NumSpans,    \* bound: the spans that arrive, numbered in their order
    EventsOf,    \* the number of events of each span
    BufferSize,  \* spans.buffer_size, capacity of the channel
    BatchSize,   \* spans.batch_size
    MaxRetries,  \* Config.MaxRetries of the ClickHouse client
    Procs,       \* the slots of the gate, GOMAXPROCS of them
    None         \* an element of the array that was never set

Spans == 1..NumSpans

ASSUME SpanProcessorAssumption ==
    /\ NumSpans \in Nat
    /\ EventsOf \in [Spans -> Nat]
    /\ BufferSize \in Nat /\ BatchSize \in Nat \ {0} /\ MaxRetries \in Nat
    /\ None \notin Spans

VARIABLES
    arrived,   \* how many spans were given to AddSpan
    dropped,   \* those the channel had no room for
    queue,     \* the channel
    array,     \* the array behind the variable spans of processLoop
    len,       \* len(spans)
    timer,     \* running, fired (a value is in timer.C) or idle
    pc,        \* where processLoop is
    stopped,   \* p.Done() is closed
    batch,     \* the spans each goroutine was started with, << >> for none
    step,      \* where each goroutine is
    dataRows,  \* how often each span was inserted into spans_data
    indexRows, \* how often each span was inserted into spans_index
    counted,   \* spans whose row of spans_index, if stored, has their event count
    failed     \* spans with an insert of which an attempt failed

ingest == <<arrived, dropped>>
loop == <<array, len, timer, pc>>
workers == <<batch, step>>
tables == <<dataRows, indexRows, counted, failed>>
vars == <<ingest, queue, loop, stopped, workers, tables>>

Init ==
    /\ arrived = 0 /\ dropped = {} /\ queue = << >>
    /\ array = [i \in 1..BatchSize |-> None] /\ len = 0
    /\ timer = "running" /\ pc = "select" /\ stopped = FALSE
    /\ batch = [w \in Procs |-> << >>] /\ step = [w \in Procs |-> "idle"]
    /\ dataRows = [s \in Spans |-> 0] /\ indexRows = [s \in Spans |-> 0]
    /\ counted = {} /\ failed = {}

-----------------------------------------------------------------------------

AddSpan ==
    /\ arrived < NumSpans
    /\ arrived' = arrived + 1
    /\ \/ Len(queue) < BufferSize /\ queue' = Append(queue, arrived') /\ UNCHANGED dropped
       \/ Len(queue) = BufferSize /\ dropped' = dropped \cup {arrived'} /\ UNCHANGED queue
    /\ UNCHANGED <<loop, stopped, workers, tables>>

\* App.Stop cancels the context.
Stop ==
    /\ ~stopped
    /\ stopped' = TRUE
    /\ UNCHANGED <<ingest, queue, loop, workers, tables>>

-----------------------------------------------------------------------------
(* processLoop.  While it waits for the gate it is at "full", "timeout" or *)
(* "last", named for the place processSpans was called from.               *)

\* case span := <-p.queue
ReceiveSpan ==
    /\ pc = "select" /\ queue # << >>
    /\ array' = [array EXCEPT ![len + 1] = Head(queue)]
    /\ len' = len + 1
    /\ queue' = Tail(queue)
    /\ pc' = IF len' < BatchSize THEN "select" ELSE "full"
    /\ UNCHANGED <<ingest, timer, stopped, workers, tables>>

\* case <-timer.C
ReceiveTimer ==
    /\ pc = "select" /\ timer = "fired"
    /\ IF len > 0 THEN pc' = "timeout" /\ timer' = "idle"
       ELSE timer' = "running" /\ UNCHANGED pc
    /\ UNCHANGED <<ingest, queue, array, len, stopped, workers, tables>>

\* case <-p.Done()
ReceiveDone ==
    /\ pc = "select" /\ stopped
    /\ pc' = IF len > 0 THEN "last" ELSE "exited"
    /\ UNCHANGED <<ingest, queue, array, len, timer, stopped, workers, tables>>

\* MUTANT: the timer is not reset after a timeout.
StartBatchNoReset ==
    /\ pc \in {"full", "timeout", "last"}
    /\ \E w \in Procs :
        /\ step[w] = "idle"
        /\ batch' = [batch EXCEPT ![w] = SubSeq(array, 1, len)]
        /\ step' = [step EXCEPT ![w] = "data"]
    /\ len' = 0
    /\ CASE pc = "full"    -> pc' = "stop" /\ UNCHANGED timer
         [] pc = "timeout" -> pc' = "select" /\ UNCHANGED timer
         [] pc = "last"    -> pc' = "exited" /\ UNCHANGED timer
    /\ UNCHANGED <<ingest, queue, array, stopped, tables>>

\* processSpans waits for the gate, copies the batch and starts a goroutine; then
\* the loop goes on behind the call.
StartBatch ==
    /\ pc \in {"full", "timeout", "last"}
    /\ \E w \in Procs :
        /\ step[w] = "idle"
        /\ batch' = [batch EXCEPT ![w] = SubSeq(array, 1, len)]
        /\ step' = [step EXCEPT ![w] = "data"]
    /\ len' = 0
    /\ CASE pc = "full"    -> pc' = "stop" /\ UNCHANGED timer
         [] pc = "timeout" -> pc' = "select" /\ timer' = "running"
         [] pc = "last"    -> pc' = "exited" /\ UNCHANGED timer
    /\ UNCHANGED <<ingest, queue, array, stopped, tables>>

\* if !timer.Stop() { <-timer.C }, which waits for ever if the timer is idle, and
\* timer.Reset.
RestartTimer ==
    /\ pc = "stop" /\ timer # "idle"
    /\ timer' = "running"
    /\ pc' = "select"
    /\ UNCHANGED <<ingest, queue, array, len, stopped, workers, tables>>

TimerFires ==
    /\ timer = "running"
    /\ timer' = "fired"
    /\ UNCHANGED <<ingest, queue, array, len, pc, stopped, workers, tables>>

-----------------------------------------------------------------------------
(* _processSpans.                                                          *)

\* MUTANT: the goroutine works on the array of the loop.
SharedBatch(w) == SubSeq(array, 1, Len(batch[w]))

\* The slice the goroutine works on.
Batch(w) == batch[w]

\* append when the slice is full: the runtime moves the elements to a new array.
GrowSlice(cap, n) == IF n <= cap THEN cap ELSE IF n <= 2 * cap THEN 2 * cap ELSE n

\* indexedSpans begins with room for the spans, not for their events.  index is a
\* pointer to the element of the span: what is written through it after the
\* events were appended is in the table only if no append moved the slice.
IndexSpan(acc, s) ==
    LET own == acc.len + 1
        all == own + EventsOf[s]
        before == GrowSlice(acc.cap, own)
    IN  [len |-> all, cap |-> GrowSlice(before, all),
         counted |-> IF all <= before THEN acc.counted \cup {s} ELSE acc.counted]

Counted(spans) ==
    FoldLeft(IndexSpan, [len |-> 0, cap |-> Len(spans), counted |-> {}], spans).counted

Insert(rows, spans, n) ==
    [s \in Spans |-> rows[s] + n * Cardinality({i \in 1..Len(spans) : spans[i] = s})]

\* DB.insert: how often the server may have stored the block when attempts fail.
\* An answer that is lost does not undo the insert, and a retry repeats it.
Attempts == 0..(MaxRetries + 1)

\* MUTANT: the index rows go first.
InsertIndexFirst(w) ==
    /\ step[w] = "data"
    /\ counted' = counted \cup Counted(Batch(w))
    /\ \/ indexRows' = Insert(indexRows, Batch(w), 1) /\ UNCHANGED failed
       \/ /\ \E n \in Attempts : indexRows' = Insert(indexRows, Batch(w), n)
          /\ failed' = failed \cup ToSet(Batch(w))
    /\ step' = [step EXCEPT ![w] = "index"]
    /\ UNCHANGED <<ingest, queue, loop, stopped, batch, dataRows>>

\* The first insert: into spans_data.
InsertData(w) ==
    /\ step[w] = "data"
    /\ \/ dataRows' = Insert(dataRows, Batch(w), 1) /\ UNCHANGED failed
       \/ /\ \E n \in Attempts : dataRows' = Insert(dataRows, Batch(w), n)
          /\ failed' = failed \cup ToSet(Batch(w))
    /\ step' = [step EXCEPT ![w] = "index"]
    /\ UNCHANGED <<ingest, queue, loop, stopped, batch, indexRows, counted>>

\* The second, whether the first failed or not: into spans_index.  The slot of
\* the gate is free again.
InsertIndex(w) ==
    /\ step[w] = "index"
    /\ counted' = counted \cup Counted(Batch(w))
    /\ \/ indexRows' = Insert(indexRows, Batch(w), 1) /\ UNCHANGED failed
       \/ /\ \E n \in Attempts : indexRows' = Insert(indexRows, Batch(w), n)
          /\ failed' = failed \cup ToSet(Batch(w))
    /\ step' = [step EXCEPT ![w] = "idle"]
    /\ batch' = [batch EXCEPT ![w] = << >>]
    /\ UNCHANGED <<ingest, queue, loop, stopped, dataRows>>

-----------------------------------------------------------------------------

LoopStep == ReceiveSpan \/ ReceiveTimer \/ ReceiveDone \/ StartBatch \/ RestartTimer
WorkerStep(w) == InsertData(w) \/ InsertIndex(w)

Next ==
    \/ AddSpan
    \/ Stop
    \/ LoopStep
    \/ TimerFires
    \/ \E w \in Procs : WorkerStep(w)

Spec == Init /\ [][Next]_vars

\* The goroutines are scheduled, a running timer fires, and select, which picks
\* one of its ready cases at random, does not pass over the channel for ever.
Fairness ==
    /\ WF_vars(LoopStep) /\ WF_vars(TimerFires) /\ SF_vars(ReceiveSpan)
    /\ \A w \in Procs : WF_vars(WorkerStep(w))

FairSpec == Spec /\ Fairness

-----------------------------------------------------------------------------
(* Properties.                                                             *)

\* Every variable has its type; the batch never outgrows its array and a
\* goroutine that runs has spans to work on.
TypeOK ==
    /\ arrived \in 0..NumSpans /\ dropped \subseteq 1..arrived
    /\ queue \in Seq(Spans) /\ Len(queue) <= BufferSize
    /\ array \in [1..BatchSize -> Spans \cup {None}] /\ len \in 0..BatchSize
    /\ timer \in {"running", "fired", "idle"}
    /\ pc \in {"select", "full", "timeout", "last", "stop", "exited"}
    /\ stopped \in BOOLEAN
    /\ batch \in [Procs -> Seq(Spans)]
    /\ step \in [Procs -> {"idle", "data", "index"}]
    /\ \A w \in Procs : step[w] = "idle" <=> batch[w] = << >>
    /\ dataRows \in [Spans -> Nat] /\ indexRows \in [Spans -> Nat]
    /\ counted \subseteq Spans /\ failed \subseteq Spans

\* A span is stored once at most, although the loop fills the array of the batch
\* again while the goroutines of earlier batches still work; only the retry of
\* an insert may repeat it.
StoredOnce == \A s \in Spans \ failed : dataRows[s] <= 1 /\ indexRows[s] <= 1

\* What spans_index lists can be opened: the data of a span is stored before its
\* index row, also when the process ends between the inserts, unless an insert
\* of the span met an error.
DataBeforeIndex ==
    \A s \in Spans : indexRows[s] > 0 => dataRows[s] > 0 \/ s \in failed

\* A span that was not dropped is stored in both tables in the end, or an insert
\* met an error, as long as the process is not stopped: a batch that does not fill up
\* goes out with the timer, and a full gate never blocks the loop for good.
SpansStored ==
    \A s \in Spans :
        s \in (1..arrived) \ dropped
            ~> (dataRows[s] > 0 /\ indexRows[s] > 0) \/ s \in failed \/ stopped

\* WhereFilterMenu.vue offers span.event_count > 0 with the words "Filter spans
\* with events": a span in spans_index that has events has its count.
EventsCounted ==
    \A s \in Spans : indexRows[s] > 0 /\ EventsOf[s] > 0 => s \in counted
=============================================================================
