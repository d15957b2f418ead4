---------------------------- MODULE ServiceGraph ----------------------------
(***************************************************************************)
(* pkg/tracing/service_graph.go: one shard of the store that joins the     *)
(* client's span and the server's span of a call into an edge, and the     *)
(* goroutine that inserts complete edges in batches.                       *)
(*                                                                         *)
(* WithEdge runs under the mutex of the shard: one call is one step.  The  *)
(* spans are the calls of the goroutines of the span processor, so they    *)
(* come in any order.                                                      *)
(***************************************************************************)
EXTENDS Integers, Sequences, FiniteSets, SequencesExt

CONSTANTS
    Keys,       \* ServiceGraphEdgeKey: a trace and the span of the caller
    RootKey,    \* the key of a server span without a parent
    Size,       \* edges a shard may hold: service_graph.store.size / shards
    TTL,        \* service_graph.store.ttl
    BatchSize,  \* batchSize: capacity of the channel and of the batch
    MaxSpans,   \* bound: spans
    MaxTime     \* bound: the clock

ASSUME ServiceGraphAssumption ==
    /\ RootKey \notin Keys
    /\ Size \in Nat /\ TTL \in Nat /\ BatchSize \in Nat \ {0}
    /\ MaxSpans \in Nat /\ MaxTime \in Nat

VARIABLES
    now,      \* the clock
    table,    \* the node of each key, 0 if there is none
    list,     \* nodes in the order they were stored: front, back and the nodes
    accepted, \* client and server ends that WithEdge took, of each key
    spans,    \* spans so far
    expired,  \* keys of edges that were given to onExpired
    refused,  \* errStoreFull: the time and the oldest deadline in the table
    sent,     \* edges that were given to onComplete, in order
    dropped,  \* those of them the channel had no room for
    edgeCh,   \* those that wait in the channel
    edges,    \* the batch of insertEdgesLoop
    flushed,  \* edges of batches that were inserted or failed to be
    timer,    \* running, fired (a value is in timer.C) or idle
    pc        \* where insertEdgesLoop is

store == <<table, list, accepted, spans, expired, refused>>
loop == <<edges, flushed, timer, pc>>
vars == <<now, store, sent, dropped, edgeCh, loop>>

Nil == 0
AllKeys == Keys \cup {RootKey}

\* A client span may name the server itself (a database, an RPC service), and
\* a server span without a parent stands for both ends.
Kinds == {"client", "client-names-server", "server", "root"}
HasClient(kind) == kind # "server"
HasServer(kind) == kind # "client"

Stored == {k \in AllKeys : table[k] # Nil}

Init ==
    /\ now = 1
    /\ table = [k \in AllKeys |-> Nil]
    /\ list = [front |-> Nil, back |-> Nil, nodes |-> << >>]
    /\ accepted = [k \in AllKeys |-> [client |-> 0, server |-> 0]]
    /\ spans = 0 /\ expired = {} /\ refused = {}
    /\ sent = << >> /\ dropped = {} /\ edgeCh = << >>
    /\ edges = << >> /\ flushed = {} /\ timer = "running" /\ pc = "select"

-----------------------------------------------------------------------------
(* The list of github.com/zyedidia/generic.                                *)

PushBack(l, node) ==
    LET n == Len(l.nodes) + 1
        linked == IF l.back # Nil THEN [l.nodes EXCEPT ![l.back].next = n] ELSE l.nodes
    IN  [front |-> IF l.back # Nil THEN l.front ELSE n,
         back  |-> n,
         nodes |-> Append(linked, [node EXCEPT !.prev = l.back])]

\* The node keeps its own links.
ListRemove(l, n) ==
    LET prev == l.nodes[n].prev
        next == l.nodes[n].next
        right == IF next # Nil THEN [l EXCEPT !.nodes[next].prev = prev]
                 ELSE [l EXCEPT !.back = prev]
    IN  IF prev # Nil THEN [right EXCEPT !.nodes[prev].next = next]
        ELSE [right EXCEPT !.front = next]

-----------------------------------------------------------------------------
(* The store.                                                              *)

\* MUTANT: the update works on a copy of the edge.
UpdateOfCopy(e, kind) == e

\* The update functions of ProcessSpan: the ends of the edge that are known.
Update(e, kind) == [client |-> e.client \/ HasClient(kind),
                    server |-> e.server \/ HasServer(kind)]

IsComplete(e) == e.client /\ e.server

\* Expired as it is written: the deadline is after now.
Expired(n) == list.nodes[n].expiresAt > now

\* onComplete: the channel takes the edge or the edge is dropped.
OnComplete(k) ==
    /\ sent' = Append(sent, k)
    /\ \/ /\ Len(edgeCh) < BatchSize
          /\ edgeCh' = Append(edgeCh, Len(sent) + 1)
          /\ UNCHANGED dropped
       \/ /\ Len(edgeCh) = BatchSize
          /\ dropped' = dropped \cup {Len(sent) + 1}
          /\ UNCHANGED edgeCh

Accept(k, kind) ==
    accepted' = [accepted EXCEPT ![k].client = @ + (IF HasClient(kind) THEN 1 ELSE 0),
                                 ![k].server = @ + (IF HasServer(kind) THEN 1 ELSE 0)]

\* MUTANT: the table keeps the entry.
ForgetNodeOnly(k, l) ==
    /\ list' = ListRemove(l, table[k])
    /\ UNCHANGED table

\* delete(s.table, key) and s.list.Remove(node).
Forget(k, l) ==
    /\ list' = ListRemove(l, table[k])
    /\ table' = [table EXCEPT ![k] = Nil]

\* WithEdge, the key is stored: the edge is updated, and leaves when complete.
UpdateEdge(k, kind) ==
    LET n == table[k]
        e == Update(list.nodes[n].edge, kind)
        updated == [list EXCEPT !.nodes[n].edge = e]
    IN  /\ n # Nil
        /\ Accept(k, kind)
        /\ IF IsComplete(e)
           THEN OnComplete(k) /\ Forget(k, updated)
           ELSE /\ list' = updated
                /\ UNCHANGED <<table, sent, dropped, edgeCh>>
        /\ UNCHANGED <<expired, refused>>

\* WithEdge, the key is not stored and the span knows both ends.
CompleteEdge(k, kind) ==
    /\ table[k] = Nil
    /\ IsComplete(Update([client |-> FALSE, server |-> FALSE], kind))
    /\ Accept(k, kind)
    /\ OnComplete(k)
    /\ UNCHANGED <<table, list, expired, refused>>

Node(k, kind) ==
    [of |-> k, edge |-> Update([client |-> FALSE, server |-> FALSE], kind),
     expiresAt |-> IF TTL > 0 THEN now + TTL ELSE 0, prev |-> Nil, next |-> Nil]

Full == Cardinality(Stored) >= Size
CanRemoveFront == list.front # Nil /\ Expired(list.front)

\* WithEdge, the key is not stored: the edge is stored, in place of the front of
\* the list when the store is full.  tryRemoveFront deletes nodeValue.key from
\* the table, a field that is never set, so the table keeps the entry.
StoreEdge(k, kind) ==
    /\ table[k] = Nil
    /\ ~IsComplete(Update([client |-> FALSE, server |-> FALSE], kind))
    /\ Full => CanRemoveFront
    /\ Accept(k, kind)
    /\ LET room == IF Full THEN ListRemove(list, list.front) ELSE list
       IN  /\ list' = PushBack(room, Node(k, kind))
           /\ table' = [table EXCEPT ![k] = Len(list.nodes) + 1]
    /\ expired' = IF Full THEN expired \cup {list.nodes[list.front].of} ELSE expired
    /\ UNCHANGED <<sent, dropped, edgeCh, refused>>

\* WithEdge: errStoreFull, which ProcessSpan ignores.
RefuseEdge(k, kind) ==
    /\ table[k] = Nil
    /\ ~IsComplete(Update([client |-> FALSE, server |-> FALSE], kind))
    /\ Full /\ ~CanRemoveFront
    /\ refused' = refused \cup
                  {[at |-> now, deadlines |-> {list.nodes[table[j]].expiresAt : j \in Stored}]}
    /\ UNCHANGED <<table, list, accepted, expired, sent, dropped, edgeCh>>

WithEdge(k, kind) ==
    \/ UpdateEdge(k, kind) \/ CompleteEdge(k, kind)
    \/ StoreEdge(k, kind) \/ RefuseEdge(k, kind)

ProcessSpan ==
    /\ spans < MaxSpans
    /\ spans' = spans + 1
    /\ \E k \in AllKeys, kind \in Kinds :
        /\ kind = "root" <=> k = RootKey
        /\ WithEdge(k, kind)
    /\ UNCHANGED <<now, loop>>

Tick ==
    /\ now < MaxTime
    /\ now' = now + 1
    /\ UNCHANGED <<store, sent, dropped, edgeCh, loop>>

-----------------------------------------------------------------------------
(* insertEdgesLoop.                                                        *)

\* case edge := <-p.edgeCh
ReceiveEdge ==
    /\ pc = "select" /\ edgeCh # << >>
    /\ edges' = Append(edges, Head(edgeCh))
    /\ edgeCh' = Tail(edgeCh)
    /\ pc' = IF Len(edges') < BatchSize THEN "select" ELSE "stop"
    /\ UNCHANGED <<now, store, sent, dropped, flushed, timer>>

\* if !timer.Stop() { <-timer.C }, which waits for ever if the timer is idle.
StopTimer ==
    /\ pc = "stop" /\ timer # "idle"
    /\ timer' = "idle"
    /\ pc' = "insert"
    /\ UNCHANGED <<now, store, sent, dropped, edgeCh, edges, flushed>>

\* case <-timer.C
ReceiveTimer ==
    /\ pc = "select" /\ timer = "fired"
    /\ timer' = "idle"
    /\ pc' = "insert"
    /\ UNCHANGED <<now, store, sent, dropped, edgeCh, edges, flushed>>

\* MUTANT: the timer is not reset.
InsertEdgesNoReset ==
    /\ pc = "insert"
    /\ flushed' = flushed \cup ToSet(edges)
    /\ edges' = << >>
    /\ pc' = "select"
    /\ UNCHANGED <<now, store, sent, dropped, edgeCh, timer>>

\* The insert, whose failure is logged, and timer.Reset.
InsertEdges ==
    /\ pc = "insert"
    /\ flushed' = flushed \cup ToSet(edges)
    /\ edges' = << >>
    /\ timer' = "running"
    /\ pc' = "select"
    /\ UNCHANGED <<now, store, sent, dropped, edgeCh>>

TimerFires ==
    /\ timer = "running"
    /\ timer' = "fired"
    /\ UNCHANGED <<now, store, sent, dropped, edgeCh, edges, flushed, pc>>

LoopStep == ReceiveEdge \/ StopTimer \/ ReceiveTimer \/ InsertEdges

Next == ProcessSpan \/ Tick \/ LoopStep \/ TimerFires

Spec == Init /\ [][Next]_vars

\* The goroutine is scheduled, a running timer fires, and select, which picks
\* one of its ready cases at random, does not pass over the channel for ever.
Fairness == WF_vars(LoopStep) /\ WF_vars(TimerFires) /\ SF_vars(ReceiveEdge)
FairSpec == Spec /\ Fairness

-----------------------------------------------------------------------------
(* Properties.                                                             *)

NodeIds == 0..MaxSpans

\* Every variable has its type, and the table points to nodes that exist.
TypeOK ==
    /\ now \in 1..(MaxTime + 1) /\ spans \in 0..MaxSpans
    /\ table \in [AllKeys -> 0..Len(list.nodes)]
    /\ list.front \in 0..Len(list.nodes) /\ list.back \in 0..Len(list.nodes)
    /\ \A n \in 1..Len(list.nodes) :
        /\ list.nodes[n].of \in Keys
        /\ list.nodes[n].prev \in NodeIds /\ list.nodes[n].next \in NodeIds
    /\ accepted \in [AllKeys -> [client : NodeIds, server : NodeIds]]
    /\ expired \subseteq Keys
    /\ sent \in Seq(AllKeys) /\ Len(sent) <= MaxSpans
    /\ dropped \subseteq 1..Len(sent) /\ flushed \subseteq 1..Len(sent)
    /\ edgeCh \in Seq(1..Len(sent)) /\ Len(edgeCh) <= BatchSize
    /\ edges \in Seq(1..Len(sent)) /\ Len(edges) <= BatchSize
    /\ timer \in {"running", "fired", "idle"}
    /\ pc \in {"select", "stop", "insert"}

\* Calls are not counted twice: there are never more edges of a key than spans
\* of its client, in whatever order and however often the ends arrive.
EdgesCounted ==
    \A k \in AllKeys :
        Cardinality({i \in 1..Len(sent) : sent[i] = k}) <= accepted[k].client

\* A call whose two ends were both accepted is an edge, unless its first end was
\* evicted to make room.
PairsJoined ==
    \A k \in AllKeys :
        accepted[k].client > 0 /\ accepted[k].server > 0 /\ k \notin expired
            => \E i \in 1..Len(sent) : sent[i] = k

\* The entries of the table are the incomplete edges: a node is waiting for its
\* key only, and for one end only.
StoredIncomplete ==
    \A k \in Stored :
        LET node == list.nodes[table[k]]
        IN  node.of = k /\ node.edge.client # node.edge.server

\* What the goroutines that process spans see of the store.
Known(client, server) == {e \in {"client", "server"} : IF e = "client" THEN client ELSE server}
PendingSeen ==
    [k \in AllKeys |-> IF table[k] = Nil THEN {}
                       ELSE LET e == list.nodes[table[k]].edge IN Known(e.client, e.server)]

Calls == INSTANCE CallStore WITH
    Keys <- AllKeys, pending <- PendingSeen, taken <- accepted, calls <- sent

\* The list, its links and the evictions are not seen: every end of a call that
\* WithEdge takes is remembered until the call is complete, and leads to one edge.
\* An eviction takes a node off the list and not out of the table.
CallsImplemented == Calls!Spec

\* Every edge the channel took is inserted (or fails to be) in the end, also when
\* too few edges come to fill a batch.
EdgesFlushed ==
    \A i \in 1..MaxSpans : Len(sent) >= i ~> i \in flushed \cup dropped

\* config/uptrace.yml on service_graph.store.size: "Number of incomplete edges to
\* store. If the store is full, the edge is dropped."
StoreBounded == Cardinality(Stored) <= Size

\* config/uptrace.yml on service_graph.store.ttl: "For how long the incomplete
\* edges are stored."  An edge past its time is never the reason to refuse another.
ExpiredMakeRoom ==
    \A r \in refused : \A deadline \in r.deadlines : r.at <= deadline
=============================================================================
