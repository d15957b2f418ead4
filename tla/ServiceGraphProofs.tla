------------------------- MODULE ServiceGraphProofs -------------------------
(***************************************************************************)
(* Proofs about the service graph, for every number of keys and spans and  *)
(* every size, TTL and batch: calls are not counted twice, pairs that were *)
(* not evicted are joined, the table holds incomplete edges, and with the  *)
(* list it implements a CallStore; complete edges are all accounted for.   *)
(*                                                                         *)
(* The argument goes key by key.  Removing a node, also one that was       *)
(* removed before, changes links only, so the node of another key keeps    *)
(* its key and its ends, though tryRemoveFront leaves the key in the table.*)
(***************************************************************************)
EXTENDS ServiceGraph, FiniteSetTheorems, SequenceTheorems, TLAPS

-----------------------------------------------------------------------------
(* The inductive invariant.                                                *)

Ends == [client : BOOLEAN, server : BOOLEAN]
Nodes == [of : AllKeys, edge : Ends, expiresAt : Nat, prev : Nat, next : Nat]

\* A list whose links point to nodes that exist.
Linked(l) ==
    /\ l \in [front : Nat, back : Nat, nodes : Seq(Nodes)]
    /\ l.front <= Len(l.nodes) /\ l.back <= Len(l.nodes)
    /\ \A n \in 1..Len(l.nodes) :
        l.nodes[n].prev <= Len(l.nodes) /\ l.nodes[n].next <= Len(l.nodes)

\* The nodes of l are still there in m, with the same keys, ends and deadlines.
SameNodes(l, m) ==
    /\ Len(l.nodes) <= Len(m.nodes)
    /\ \A n \in 1..Len(l.nodes) :
        m.nodes[n].of = l.nodes[n].of /\ m.nodes[n].edge = l.nodes[n].edge

Times(s, k) == Cardinality({i \in 1..Len(s) : s[i] = k})

One(b) == IF b THEN 1 ELSE 0

\* What the table, the spans that were accepted, the edges that were sent and the
\* keys that were evicted say about one key.
KeyOK(k, tab, nodes, acc, s, exp) ==
    LET node == nodes[tab]
    IN  /\ tab # Nil => node.of = k /\ node.edge.client # node.edge.server
        /\ Times(s, k) + One(tab # Nil /\ node.edge.client) <= acc.client
        /\ k \notin exp /\ (\A i \in 1..Len(s) : s[i] # k) =>
            /\ acc.client > 0 <=> tab # Nil /\ node.edge.client
            /\ acc.server > 0 <=> tab # Nil /\ node.edge.server

StoreTypes ==
    /\ now \in Nat
    /\ Linked(list)
    /\ table \in [AllKeys -> Nat] /\ \A k \in AllKeys : table[k] <= Len(list.nodes)
    /\ accepted \in [AllKeys -> [client : Nat, server : Nat]]
    /\ sent \in Seq(AllKeys)

GraphInv ==
    /\ StoreTypes
    /\ \A k \in AllKeys : KeyOK(k, table[k], list.nodes, accepted[k], sent, expired)

-----------------------------------------------------------------------------
(* Lists.                                                                  *)

\* An element of a sequence may be replaced.
LEMMA Replaced ==
    ASSUME NEW S, NEW s \in Seq(S), NEW i \in 1..Len(s), NEW x \in S
    PROVE  /\ [s EXCEPT ![i] = x] \in Seq(S) /\ Len([s EXCEPT ![i] = x]) = Len(s)
           /\ [s EXCEPT ![i] = x][i] = x
           /\ \A j \in 1..Len(s) : j # i => [s EXCEPT ![i] = x][j] = s[j]
BY ExceptSeq

\* A node keeps what is not a link.
LEMMA NodeLinks ==
    ASSUME NEW node \in Nodes, NEW n \in Nat
    PROVE  /\ [node EXCEPT !.prev = n] \in Nodes /\ [node EXCEPT !.next = n] \in Nodes
           /\ [node EXCEPT !.prev = n].of = node.of /\ [node EXCEPT !.prev = n].edge = node.edge
           /\ [node EXCEPT !.next = n].of = node.of /\ [node EXCEPT !.next = n].edge = node.edge
           /\ [node EXCEPT !.prev = n].next = node.next /\ [node EXCEPT !.prev = n].prev = n
           /\ [node EXCEPT !.next = n].prev = node.prev /\ [node EXCEPT !.next = n].next = n
BY DEF Nodes

\* One link of a list is set.
SetPrev(l, i, n) == [l EXCEPT !.nodes[i].prev = n]
SetNext(l, i, n) == [l EXCEPT !.nodes[i].next = n]
SetFront(l, n) == [l EXCEPT !.front = n]
SetBack(l, n) == [l EXCEPT !.back = n]

\* A list m that is l but for its links.
Relinked(l, m) == Linked(m) /\ SameNodes(l, m) /\ Len(m.nodes) = Len(l.nodes)

\* To set a link of a list to one of its nodes changes nothing else.
LEMMA SetLink ==
    ASSUME NEW l, Linked(l), NEW n \in 0..Len(l.nodes)
    PROVE  /\ Relinked(l, SetBack(l, n)) /\ Relinked(l, SetFront(l, n))
           /\ \A i \in 1..Len(l.nodes) : Relinked(l, SetPrev(l, i, n)) /\ Relinked(l, SetNext(l, i, n))
<1>1. /\ l \in [front : Nat, back : Nat, nodes : Seq(Nodes)] /\ l.nodes \in Seq(Nodes)
      /\ Len(l.nodes) \in Nat /\ n \in Nat /\ n <= Len(l.nodes)
      /\ \A i \in 1..Len(l.nodes) : l.nodes[i] \in Nodes
  BY ElementOfSeq, LenProperties DEF Linked
<1>2. Relinked(l, SetBack(l, n)) /\ Relinked(l, SetFront(l, n))
  BY <1>1 DEF Linked, SameNodes, Relinked, SetBack, SetFront
<1>3. ASSUME NEW i \in 1..Len(l.nodes), NEW node \in Nodes,
             node.of = l.nodes[i].of, node.edge = l.nodes[i].edge,
             node.prev <= Len(l.nodes), node.next <= Len(l.nodes)
      PROVE  Relinked(l, [l EXCEPT !.nodes = [l.nodes EXCEPT ![i] = node]])
  <2> DEFINE new == [l.nodes EXCEPT ![i] = node]
             m == [l EXCEPT !.nodes = new]
  <2>1. /\ new \in Seq(Nodes) /\ Len(new) = Len(l.nodes) /\ new[i] = node
        /\ \A j \in 1..Len(l.nodes) : j # i => new[j] = l.nodes[j]
    BY <1>1, Replaced
  <2> HIDE DEF new
  <2>2. /\ m \in [front : Nat, back : Nat, nodes : Seq(Nodes)]
        /\ m.nodes = new /\ m.front = l.front /\ m.back = l.back
    BY <1>1, <2>1
  <2> HIDE DEF m
  <2>3. Linked(m)
    BY <1>3, <2>1, <2>2 DEF Linked
  <2>4. SameNodes(l, m)
    BY <1>1, <1>3, <2>1, <2>2 DEF SameNodes
  <2> QED
    BY <2>1, <2>2, <2>3, <2>4 DEF new, m, Relinked
<1>4. ASSUME NEW i \in 1..Len(l.nodes)
      PROVE  Relinked(l, SetPrev(l, i, n)) /\ Relinked(l, SetNext(l, i, n))
  <2> DEFINE p == [l.nodes[i] EXCEPT !.prev = n]
             q == [l.nodes[i] EXCEPT !.next = n]
  <2>1. /\ p \in Nodes /\ p.of = l.nodes[i].of /\ p.edge = l.nodes[i].edge
        /\ p.prev = n /\ p.next = l.nodes[i].next
        /\ q \in Nodes /\ q.of = l.nodes[i].of /\ q.edge = l.nodes[i].edge
        /\ q.next = n /\ q.prev = l.nodes[i].prev
    BY <1>1, NodeLinks
  <2>2. l.nodes[i].prev <= Len(l.nodes) /\ l.nodes[i].next <= Len(l.nodes)
    BY DEF Linked
  <2>3. /\ SetPrev(l, i, n) = [l EXCEPT !.nodes = [l.nodes EXCEPT ![i] = p]]
        /\ SetNext(l, i, n) = [l EXCEPT !.nodes = [l.nodes EXCEPT ![i] = q]]
    BY DEF SetPrev, SetNext
  <2> HIDE DEF p, q
  <2>4. Relinked(l, [l EXCEPT !.nodes = [l.nodes EXCEPT ![i] = p]])
    BY <1>1, <1>3, <2>1, <2>2
  <2>5. Relinked(l, [l EXCEPT !.nodes = [l.nodes EXCEPT ![i] = q]])
    BY <1>1, <1>3, <2>1, <2>2
  <2> QED
    BY <2>3, <2>4, <2>5
<1> QED
  BY <1>2, <1>4

\* Remove unlinks a node and leaves every node what it is.
LEMMA RemoveKeeps ==
    ASSUME NEW l, Linked(l), NEW n \in 1..Len(l.nodes)
    PROVE  Relinked(l, ListRemove(l, n))
<1> DEFINE prev == l.nodes[n].prev
           next == l.nodes[n].next
           right == IF next # Nil THEN SetPrev(l, next, prev) ELSE SetBack(l, prev)
           left == IF prev # Nil THEN SetNext(right, prev, next) ELSE SetFront(right, next)
<1>1. prev \in 0..Len(l.nodes) /\ next \in 0..Len(l.nodes)
  <2>1. l.nodes \in Seq(Nodes)
    BY DEF Linked
  <2>2. l.nodes[n] \in Nodes /\ Len(l.nodes) \in Nat
    BY <2>1, ElementOfSeq, LenProperties
  <2>3. prev \in Nat /\ next \in Nat
    BY <2>2 DEF Nodes
  <2> QED
    BY <2>2, <2>3 DEF Linked
<1>2. left = ListRemove(l, n)
  BY DEF ListRemove, SetPrev, SetNext, SetFront, SetBack
<1>3. Relinked(l, right)
  <2> HIDE DEF prev, next
  <2>1. next # Nil => next \in 1..Len(l.nodes)
    BY <1>1 DEF Nil
  <2> QED
    BY <1>1, <2>1, SetLink
<1>4. Relinked(right, left)
  <2> HIDE DEF prev, next, right
  <2>1. prev # Nil => prev \in 1..Len(right.nodes)
    BY <1>1, <1>3 DEF Nil, Relinked
  <2>2. Linked(right) /\ next \in 0..Len(right.nodes)
    BY <1>1, <1>3 DEF Relinked
  <2> QED
    BY <2>1, <2>2, SetLink
<1> HIDE DEF left, right
<1>5. SameNodes(l, left) /\ Len(left.nodes) = Len(l.nodes)
  BY <1>3, <1>4 DEF SameNodes, Relinked
<1> QED
  BY <1>2, <1>4, <1>5 DEF Relinked

\* PushBack links a new node and leaves every other node what it is.
LEMMA PushKeeps ==
    ASSUME NEW l, Linked(l), NEW node \in Nodes, node.prev = 0, node.next = 0
    PROVE  LET m == PushBack(l, node)
           IN  /\ Linked(m) /\ SameNodes(l, m) /\ Len(m.nodes) = Len(l.nodes) + 1
               /\ m.nodes[Len(l.nodes) + 1].of = node.of
               /\ m.nodes[Len(l.nodes) + 1].edge = node.edge
<1> DEFINE len == Len(l.nodes)
           n == len + 1
           old == [l.nodes[l.back] EXCEPT !.next = n]
           linked == IF l.back # Nil THEN [l.nodes EXCEPT ![l.back] = old] ELSE l.nodes
           new == [node EXCEPT !.prev = l.back]
           nodes == Append(linked, new)
           front == IF l.back # Nil THEN l.front ELSE n
           m == PushBack(l, node)
<1>1. /\ l.nodes \in Seq(Nodes) /\ len \in Nat /\ l.front \in Nat /\ l.back \in Nat
      /\ l.front <= len /\ l.back <= len
      /\ \A i \in 1..len : l.nodes[i] \in Nodes /\ l.nodes[i].prev <= len /\ l.nodes[i].next <= len
  BY ElementOfSeq, LenProperties DEF Linked
<1>2. /\ new \in Nodes /\ new.of = node.of /\ new.edge = node.edge
      /\ new.prev = l.back /\ new.next = 0
  BY <1>1, NodeLinks
<1>3. /\ linked \in Seq(Nodes) /\ Len(linked) = len
      /\ \A i \in 1..len : /\ linked[i].of = l.nodes[i].of /\ linked[i].edge = l.nodes[i].edge
                           /\ linked[i].prev <= n /\ linked[i].next <= n
  <2>1. CASE l.back = Nil
    <3>1. \A i \in 1..len : l.nodes[i].prev \in Nat /\ l.nodes[i].next \in Nat
      BY <1>1 DEF Nodes
    <3> QED
      BY <1>1, <2>1, <3>1
  <2>2. CASE l.back # Nil
    <3>1. l.back \in 1..len
      BY <1>1, <2>2 DEF Nil
    <3>2. /\ old \in Nodes /\ old.of = l.nodes[l.back].of /\ old.edge = l.nodes[l.back].edge
          /\ old.prev = l.nodes[l.back].prev /\ old.next = n
      <4>1. l.nodes[l.back] \in Nodes /\ n \in Nat
        BY <1>1, <3>1
      <4> HIDE DEF n
      <4> QED
        BY <4>1, NodeLinks
    <3> HIDE DEF old
    <3>3. /\ linked \in Seq(Nodes) /\ Len(linked) = len /\ linked[l.back] = old
          /\ \A i \in 1..len : i # l.back => linked[i] = l.nodes[i]
      BY <1>1, <2>2, <3>1, <3>2, Replaced
    <3> HIDE DEF linked
    <3>4. \A i \in 1..len : l.nodes[i].prev \in Nat /\ l.nodes[i].next \in Nat
      BY <1>1 DEF Nodes
    <3> QED
      BY <1>1, <3>1, <3>2, <3>3, <3>4
  <2> QED
    BY <2>1, <2>2
<1>4. /\ m = [front |-> front, back |-> n, nodes |-> nodes]
      /\ m.front = front /\ m.back = n /\ m.nodes = nodes
  BY DEF PushBack
<1> HIDE DEF linked, new, m
<1>5. /\ nodes \in Seq(Nodes) /\ Len(nodes) = n /\ nodes[n] = new
      /\ \A i \in 1..len : nodes[i] = linked[i]
  BY <1>2, <1>3, AppendProperties
<1> HIDE DEF nodes
<1>6. front \in Nat /\ front <= n /\ n \in Nat
  BY <1>1
<1>7. Linked(m)
  <2>1. m \in [front : Nat, back : Nat, nodes : Seq(Nodes)]
    <3> HIDE DEF front, n
    <3> QED
      BY <1>4, <1>5, <1>6
  <2>2. \A i \in 1..n : nodes[i].prev <= n /\ nodes[i].next <= n
    BY <1>1, <1>2, <1>3, <1>5
  <2> QED
    BY <1>4, <1>5, <1>6, <2>1, <2>2 DEF Linked
<1>8. SameNodes(l, m)
  BY <1>1, <1>3, <1>4, <1>5 DEF SameNodes
<1> QED
  BY <1>2, <1>4, <1>5, <1>7, <1>8 DEF m

\* An edge is changed in place.
LEMMA SetEdge ==
    ASSUME NEW l, Linked(l), NEW i \in 1..Len(l.nodes), NEW e \in Ends
    PROVE  LET m == [l EXCEPT !.nodes[i].edge = e]
           IN  /\ Linked(m) /\ Len(m.nodes) = Len(l.nodes)
               /\ m.nodes[i].edge = e /\ m.nodes[i].of = l.nodes[i].of
               /\ \A j \in 1..Len(l.nodes) : j # i => m.nodes[j] = l.nodes[j]
<1> DEFINE node == [l.nodes[i] EXCEPT !.edge = e]
           new == [l.nodes EXCEPT ![i] = node]
           m == [l EXCEPT !.nodes = new]
<1>1. /\ l \in [front : Nat, back : Nat, nodes : Seq(Nodes)] /\ l.nodes \in Seq(Nodes)
      /\ Len(l.nodes) \in Nat /\ l.nodes[i] \in Nodes
  BY ElementOfSeq, LenProperties DEF Linked
<1>2. /\ node \in Nodes /\ node.edge = e /\ node.of = l.nodes[i].of
      /\ node.prev = l.nodes[i].prev /\ node.next = l.nodes[i].next
  BY <1>1 DEF Nodes
<1>3. [l EXCEPT !.nodes[i].edge = e] = m
  OBVIOUS
<1> HIDE DEF node
<1>4. /\ new \in Seq(Nodes) /\ Len(new) = Len(l.nodes) /\ new[i] = node
      /\ \A j \in 1..Len(l.nodes) : j # i => new[j] = l.nodes[j]
  BY <1>1, <1>2, Replaced
<1> HIDE DEF new
<1>5. /\ m \in [front : Nat, back : Nat, nodes : Seq(Nodes)]
      /\ m.nodes = new /\ m.front = l.front /\ m.back = l.back
  BY <1>1, <1>4
<1> HIDE DEF m
<1>6. Linked(m)
  BY <1>2, <1>4, <1>5 DEF Linked
<1> QED
  BY <1>2, <1>3, <1>4, <1>5, <1>6

-----------------------------------------------------------------------------
(* The edges that were sent.                                               *)

\* An edge that is sent is one more of its key and none of another.
LEMMA SendOne ==
    ASSUME NEW s \in Seq(AllKeys), NEW k \in AllKeys
    PROVE  /\ Append(s, k) \in Seq(AllKeys)
           /\ Times(Append(s, k), k) = Times(s, k) + 1
           /\ \E i \in 1..Len(Append(s, k)) : Append(s, k)[i] = k
           /\ \A j \in AllKeys : j # k =>
                /\ Times(Append(s, k), j) = Times(s, j)
                /\ (\A i \in 1..Len(Append(s, k)) : Append(s, k)[i] # j) <=> \A i \in 1..Len(s) : s[i] # j
<1> DEFINE n == Len(s)
           t == Append(s, k)
<1>1. /\ n \in Nat /\ t \in Seq(AllKeys) /\ Len(t) = n + 1 /\ t[n + 1] = k
      /\ \A i \in 1..n : t[i] = s[i]
  BY AppendProperties, LenProperties
<1> HIDE DEF n, t
<1>2. Times(t, k) = Times(s, k) + 1
  <2> DEFINE S == {i \in 1..n : s[i] = k}
  <2>1. IsFiniteSet(S)
    BY <1>1, FS_Interval, FS_Subset
  <2>2. n + 1 \notin S /\ {i \in 1..(n + 1) : t[i] = k} = S \cup {n + 1}
    BY <1>1
  <2>3. Cardinality(S \cup {n + 1}) = Cardinality(S) + 1
    <3> HIDE DEF S
    <3> QED
      BY <2>1, <2>2, FS_AddElement
  <2> QED
    BY <1>1, <2>2, <2>3 DEF Times, n
<1>3. ASSUME NEW j \in AllKeys, j # k
      PROVE  /\ Times(t, j) = Times(s, j)
             /\ (\A i \in 1..Len(t) : t[i] # j) <=> \A i \in 1..Len(s) : s[i] # j
  <2>1. {i \in 1..(n + 1) : t[i] = j} = {i \in 1..n : s[i] = j}
    BY <1>1, <1>3
  <2> QED
    BY <1>1, <1>3, <2>1 DEF Times, n
<1>4. n + 1 \in 1..Len(t)
  BY <1>1
<1> QED
  BY <1>1, <1>2, <1>3, <1>4 DEF t

\* How often is a number.
LEMMA TimesIsNat == ASSUME NEW s \in Seq(AllKeys), NEW k PROVE Times(s, k) \in Nat
<1>1. IsFiniteSet(1..Len(s)) /\ {i \in 1..Len(s) : s[i] = k} \subseteq 1..Len(s)
  BY LenProperties, FS_Interval
<1> QED
  BY <1>1, FS_Subset, FS_CardinalityType DEF Times

-----------------------------------------------------------------------------
(* Every step keeps the invariant.                                         *)

\* A key is not touched by a step about another one.
LEMMA KeyKept ==
    ASSUME NEW j, NEW tab, NEW nodes, NEW acc, NEW s, NEW exp, NEW nodes2, NEW s2, NEW exp2,
           KeyOK(j, tab, nodes, acc, s, exp),
           tab # Nil => nodes2[tab].of = nodes[tab].of /\ nodes2[tab].edge = nodes[tab].edge,
           Times(s2, j) = Times(s, j),
           (\A i \in 1..Len(s2) : s2[i] # j) <=> (\A i \in 1..Len(s) : s[i] # j),
           exp \subseteq exp2
    PROVE  KeyOK(j, tab, nodes2, acc, s2, exp2)
BY DEF KeyOK

\* What a span says about the ends of an edge.
LEMMA UpdateEnds ==
    ASSUME NEW e \in Ends, NEW kind \in Kinds
    PROVE  /\ Update(e, kind) \in Ends
           /\ Update(e, kind).client <=> e.client \/ HasClient(kind)
           /\ Update(e, kind).server <=> e.server \/ HasServer(kind)
           /\ HasClient(kind) \in BOOLEAN /\ HasServer(kind) \in BOOLEAN
           /\ HasClient(kind) \/ HasServer(kind)
BY DEF Update, Ends, HasClient, HasServer, Kinds

\* The spans that were accepted of a key are counted.
LEMMA AcceptCounts ==
    ASSUME StoreTypes, NEW k \in AllKeys, NEW kind \in Kinds, Accept(k, kind)
    PROVE  /\ accepted' \in [AllKeys -> [client : Nat, server : Nat]]
           /\ accepted[k].client \in Nat /\ accepted[k].server \in Nat
           /\ accepted'[k].client = accepted[k].client + One(HasClient(kind))
           /\ accepted'[k].server = accepted[k].server + One(HasServer(kind))
           /\ \A j \in AllKeys : j # k => accepted'[j] = accepted[j]
<1> DEFINE acc == accepted[k]
           row == [acc EXCEPT !.client = @ + One(HasClient(kind)), !.server = @ + One(HasServer(kind))]
<1>1. acc \in [client : Nat, server : Nat] /\ accepted \in [AllKeys -> [client : Nat, server : Nat]]
  BY DEF StoreTypes
<1>2. /\ acc.client \in Nat /\ acc.server \in Nat
      /\ One(HasClient(kind)) \in Nat /\ One(HasServer(kind)) \in Nat
  BY <1>1 DEF One
<1>3. accepted' = [accepted EXCEPT ![k] = row]
  BY DEF Accept, One
<1>4. \A c, d \in Nat : [acc EXCEPT !.client = c, !.server = d] \in [client : Nat, server : Nat]
  BY <1>1
<1>5. /\ row \in [client : Nat, server : Nat]
      /\ row.client = acc.client + One(HasClient(kind))
      /\ row.server = acc.server + One(HasServer(kind))
  <2> DEFINE c == acc.client + One(HasClient(kind))
             d == acc.server + One(HasServer(kind))
  <2>1. c \in Nat /\ d \in Nat
    BY <1>2
  <2>2. row = [acc EXCEPT !.client = c, !.server = d]
    OBVIOUS
  <2> HIDE DEF c, d
  <2>3. row \in [client : Nat, server : Nat] /\ row.client = c /\ row.server = d
    BY <1>1, <1>4, <2>1, <2>2
  <2> QED
    BY <2>3 DEF c, d
<1> HIDE DEF row
<1> QED
  BY <1>1, <1>2, <1>3, <1>5

\* A span of a key that is stored.
LEMMA UpdateEdgeStep ==
    ASSUME GraphInv, NEW k \in AllKeys, NEW kind \in Kinds, UpdateEdge(k, kind), now' = now
    PROVE  GraphInv'
<1> DEFINE n == table[k]
           old == list.nodes[n].edge
           e == Update(old, kind)
           updated == [list EXCEPT !.nodes[n].edge = e]
<1>1. /\ n # Nil /\ Accept(k, kind) /\ expired' = expired /\ StoreTypes
      /\ \A j \in AllKeys : KeyOK(j, table[j], list.nodes, accepted[j], sent, expired)
      /\ IF IsComplete(e) THEN OnComplete(k) /\ Forget(k, updated)
         ELSE list' = updated /\ UNCHANGED <<table, sent>>
  BY DEF GraphInv, UpdateEdge
<1>2. /\ n \in 1..Len(list.nodes) /\ Linked(list) /\ Len(list.nodes) \in Nat
      /\ table \in [AllKeys -> Nat] /\ \A j \in AllKeys : table[j] <= Len(list.nodes)
  BY <1>1, LenProperties DEF StoreTypes, Linked, Nil
<1>3. list.nodes[n].of = k /\ old \in Ends /\ old.client # old.server
  <2>1. list.nodes[n] \in Nodes
    BY <1>2, ElementOfSeq DEF Linked
  <2> QED
    BY <1>1, <2>1 DEF KeyOK, Nodes
<1>4. \A j \in AllKeys : j # k /\ table[j] # Nil => table[j] \in 1..Len(list.nodes) /\ table[j] # n
  BY <1>1, <1>2, <1>3 DEF KeyOK, Nil
<1>5. /\ e \in Ends /\ (e.client <=> old.client \/ HasClient(kind))
      /\ (e.server <=> old.server \/ HasServer(kind))
      /\ HasClient(kind) \in BOOLEAN /\ HasServer(kind) \in BOOLEAN
  BY <1>3, UpdateEnds
<1> HIDE DEF e, old
<1>6. /\ Linked(updated) /\ Len(updated.nodes) = Len(list.nodes)
      /\ updated.nodes[n].edge = e /\ updated.nodes[n].of = k
      /\ \A j \in 1..Len(list.nodes) : j # n => updated.nodes[j] = list.nodes[j]
  BY <1>2, <1>3, <1>5, SetEdge
<1> HIDE DEF updated
<1>7. /\ accepted' \in [AllKeys -> [client : Nat, server : Nat]]
      /\ accepted[k].client \in Nat /\ accepted[k].server \in Nat
      /\ accepted'[k].client = accepted[k].client + One(HasClient(kind))
      /\ accepted'[k].server = accepted[k].server + One(HasServer(kind))
      /\ \A j \in AllKeys : j # k => accepted'[j] = accepted[j]
  BY <1>1, AcceptCounts
<1>8. Times(sent, k) \in Nat /\ sent \in Seq(AllKeys)
  BY <1>1, TimesIsNat DEF StoreTypes
<1>9. KeyOK(k, n, list.nodes, accepted[k], sent, expired)
  BY <1>1
<1>10. CASE ~IsComplete(e)
  <2>1. list' = updated /\ table' = table /\ sent' = sent
    BY <1>1, <1>10
  <2>2. StoreTypes'
    BY <1>1, <1>2, <1>6, <1>7, <2>1 DEF StoreTypes
  <2>3. KeyOK(k, n, updated.nodes, accepted'[k], sent, expired)
    <3>1. e.client # e.server
      BY <1>3, <1>5, <1>10 DEF IsComplete, Ends
    <3>2. Times(sent, k) + One(e.client) <= accepted'[k].client
      BY <1>1, <1>3, <1>5, <1>7, <1>8, <1>9 DEF KeyOK, One, old, Ends
    <3>3. k \notin expired /\ (\A i \in 1..Len(sent) : sent[i] # k) =>
            (accepted'[k].client > 0 <=> e.client) /\ (accepted'[k].server > 0 <=> e.server)
      BY <1>1, <1>3, <1>5, <1>7, <1>9 DEF KeyOK, One, old, Ends
    <3> QED
      BY <1>1, <1>6, <3>1, <3>2, <3>3 DEF KeyOK, One
  <2>4. ASSUME NEW j \in AllKeys, j # k
        PROVE  KeyOK(j, table[j], updated.nodes, accepted'[j], sent, expired)
    <3>1. table[j] # Nil => updated.nodes[table[j]] = list.nodes[table[j]]
      BY <1>4, <1>6, <2>4
    <3>2. KeyOK(j, table[j], list.nodes, accepted[j], sent, expired) /\ accepted'[j] = accepted[j]
      BY <1>1, <1>7, <2>4
    <3> QED
      BY <3>1, <3>2, KeyKept
  <2> QED
    BY <1>1, <2>1, <2>2, <2>3, <2>4 DEF GraphInv
<1>11. CASE IsComplete(e)
  <2>1. /\ sent' = Append(sent, k) /\ list' = ListRemove(updated, n)
        /\ table' = [table EXCEPT ![k] = Nil]
    BY <1>1, <1>11 DEF OnComplete, Forget
  <2>2. Linked(list') /\ SameNodes(updated, list') /\ Len(list'.nodes) = Len(list.nodes)
    BY <1>2, <1>6, <2>1, RemoveKeeps DEF Relinked
  <2>3. /\ table' \in [AllKeys -> Nat] /\ table'[k] = Nil
        /\ \A j \in AllKeys : j # k => table'[j] = table[j]
    BY <1>2, <2>1 DEF Nil
  <2>4. /\ sent' \in Seq(AllKeys) /\ Times(sent', k) = Times(sent, k) + 1
        /\ \E i \in 1..Len(sent') : sent'[i] = k
        /\ \A j \in AllKeys : j # k =>
            /\ Times(sent', j) = Times(sent, j)
            /\ (\A i \in 1..Len(sent') : sent'[i] # j) <=> \A i \in 1..Len(sent) : sent[i] # j
    BY <1>8, <2>1, SendOne
  <2>5. StoreTypes'
    <3>1. \A j \in AllKeys : table'[j] <= Len(list'.nodes)
      BY <1>2, <2>2, <2>3 DEF Nil
    <3> QED
      BY <1>1, <1>7, <2>2, <2>3, <2>4, <3>1 DEF StoreTypes
  <2>6. KeyOK(k, table'[k], list'.nodes, accepted'[k], sent', expired')
    <3>1. Times(sent, k) + One(old.client) <= accepted[k].client
      BY <1>1, <1>9 DEF KeyOK, old, One
    <3>2. One(FALSE) = 0 /\ (old.client => One(old.client) = 1) /\ (HasClient(kind) => One(HasClient(kind)) = 1)
          /\ One(old.client) \in Nat /\ One(HasClient(kind)) \in Nat
      BY DEF One
    <3>3. e.client
      BY <1>11 DEF IsComplete
    <3>4. One(old.client) = 1 \/ One(HasClient(kind)) = 1
      BY <1>5, <3>2, <3>3
    <3>5. Times(sent', k) + One(FALSE) <= accepted'[k].client
      <4>1. \A t, o, a, h \in Nat : t + o <= a /\ (o = 1 \/ h = 1) => t + 1 + 0 <= a + h
        OBVIOUS
      <4>2. Times(sent, k) + 1 + 0 <= accepted[k].client + One(HasClient(kind))
        BY <1>7, <1>8, <3>1, <3>2, <3>4, <4>1
      <4> QED
        BY <1>7, <2>4, <3>2, <4>2
    <3> QED
      BY <2>3, <2>4, <3>5 DEF KeyOK, One
  <2>7. ASSUME NEW j \in AllKeys, j # k
        PROVE  KeyOK(j, table'[j], list'.nodes, accepted'[j], sent', expired')
    <3>1. table[j] # Nil => /\ list'.nodes[table[j]].of = list.nodes[table[j]].of
                            /\ list'.nodes[table[j]].edge = list.nodes[table[j]].edge
      BY <1>4, <1>6, <2>2, <2>7 DEF SameNodes
    <3>2. /\ KeyOK(j, table[j], list.nodes, accepted[j], sent, expired) /\ accepted'[j] = accepted[j]
          /\ table'[j] = table[j] /\ expired' = expired
      BY <1>1, <1>7, <2>3, <2>7
    <3> QED
      BY <2>4, <2>7, <3>1, <3>2, KeyKept
  <2> QED
    BY <2>5, <2>6, <2>7 DEF GraphInv
<1> QED
  BY <1>10, <1>11

\* A span that knows both ends of its call.
LEMMA CompleteEdgeStep ==
    ASSUME GraphInv, NEW k \in AllKeys, NEW kind \in Kinds, CompleteEdge(k, kind), now' = now
    PROVE  GraphInv'
<1>1. /\ table[k] = Nil /\ Accept(k, kind) /\ StoreTypes
      /\ list' = list /\ table' = table /\ expired' = expired /\ sent' = Append(sent, k)
      /\ \A j \in AllKeys : KeyOK(j, table[j], list.nodes, accepted[j], sent, expired)
  BY DEF GraphInv, CompleteEdge, OnComplete
<1>2. HasClient(kind)
  BY DEF CompleteEdge, IsComplete, Update
<1>3. /\ accepted' \in [AllKeys -> [client : Nat, server : Nat]]
      /\ accepted[k].client \in Nat
      /\ accepted'[k].client = accepted[k].client + One(HasClient(kind))
      /\ \A j \in AllKeys : j # k => accepted'[j] = accepted[j]
  BY <1>1, AcceptCounts
<1>4. /\ sent' \in Seq(AllKeys) /\ Times(sent', k) = Times(sent, k) + 1 /\ Times(sent, k) \in Nat
      /\ \E i \in 1..Len(sent') : sent'[i] = k
      /\ \A j \in AllKeys : j # k =>
            /\ Times(sent', j) = Times(sent, j)
            /\ (\A i \in 1..Len(sent') : sent'[i] # j) <=> \A i \in 1..Len(sent) : sent[i] # j
  <2>1. sent \in Seq(AllKeys)
    BY <1>1 DEF StoreTypes
  <2> QED
    BY <1>1, <2>1, SendOne, TimesIsNat
<1>5. StoreTypes'
  BY <1>1, <1>3, <1>4 DEF StoreTypes
<1>6. KeyOK(k, table'[k], list'.nodes, accepted'[k], sent', expired')
  <2>1. Times(sent, k) + 0 <= accepted[k].client
    BY <1>1 DEF KeyOK, One
  <2>2. Times(sent', k) + 0 <= accepted'[k].client
    BY <1>2, <1>3, <1>4, <2>1, SMTT(30) DEF One
  <2> QED
    BY <1>1, <1>4, <2>2 DEF KeyOK, One
<1>7. ASSUME NEW j \in AllKeys, j # k
      PROVE  KeyOK(j, table'[j], list'.nodes, accepted'[j], sent', expired')
  <2>1. /\ KeyOK(j, table[j], list.nodes, accepted[j], sent, expired) /\ accepted'[j] = accepted[j]
        /\ table'[j] = table[j] /\ expired' = expired /\ list' = list
    BY <1>1, <1>3, <1>7
  <2> QED
    BY <1>4, <1>7, <2>1, KeyKept
<1> QED
  BY <1>5, <1>6, <1>7 DEF GraphInv

\* The first span of a key is stored, also in place of the front of the list,
\* whose key stays in the table.
LEMMA StoreEdgeStep ==
    ASSUME GraphInv, NEW k \in AllKeys, NEW kind \in Kinds, StoreEdge(k, kind), now' = now
    PROVE  GraphInv'
<1> DEFINE node == Node(k, kind)
           room == IF Full THEN ListRemove(list, list.front) ELSE list
           n == Len(list.nodes) + 1
           e == node.edge
<1>1. /\ table[k] = Nil /\ Accept(k, kind) /\ StoreTypes /\ Linked(list) /\ now \in Nat
      /\ table \in [AllKeys -> Nat] /\ \A j \in AllKeys : table[j] <= Len(list.nodes)
      /\ list' = PushBack(room, node) /\ table' = [table EXCEPT ![k] = n]
      /\ sent' = sent /\ expired \subseteq expired' /\ sent \in Seq(AllKeys)
      /\ \A j \in AllKeys : KeyOK(j, table[j], list.nodes, accepted[j], sent, expired)
  BY DEF GraphInv, StoreEdge, StoreTypes
<1>2. Linked(room) /\ SameNodes(list, room) /\ Len(room.nodes) = Len(list.nodes) /\ n \in Nat
  <2>1. Len(list.nodes) \in Nat /\ list.front \in Nat /\ list.front <= Len(list.nodes)
    BY <1>1, LenProperties DEF Linked
  <2>2. CASE Full
    <3>1. list.front \in 1..Len(list.nodes)
      BY <2>1, <2>2 DEF StoreEdge, CanRemoveFront, Nil
    <3> QED
      BY <1>1, <2>1, <2>2, <3>1, RemoveKeeps DEF Relinked
  <2>3. CASE ~Full
    BY <1>1, <2>1, <2>3 DEF SameNodes
  <2> QED
    BY <2>2, <2>3
<1>3. /\ node \in Nodes /\ node.of = k /\ node.prev = 0 /\ node.next = 0
      /\ e \in Ends /\ e.client # e.server
      /\ (e.client <=> HasClient(kind)) /\ (e.server <=> HasServer(kind))
      /\ HasClient(kind) \in BOOLEAN /\ HasServer(kind) \in BOOLEAN
  <2> DEFINE none == [client |-> FALSE, server |-> FALSE]
  <2>1. none \in Ends /\ ~none.client /\ ~none.server
    BY DEF Ends
  <2>2. e = Update(none, kind) /\ ~IsComplete(Update(none, kind))
    BY DEF StoreEdge, Node
  <2> HIDE DEF none
  <2>3. /\ e \in Ends /\ (e.client <=> HasClient(kind)) /\ (e.server <=> HasServer(kind))
        /\ HasClient(kind) \in BOOLEAN /\ HasServer(kind) \in BOOLEAN
        /\ HasClient(kind) \/ HasServer(kind)
    BY <2>1, <2>2, UpdateEnds
  <2>4. (IF TTL > 0 THEN now + TTL ELSE 0) \in Nat
    BY <1>1, ServiceGraphAssumption
  <2>5. node \in Nodes /\ node.of = k /\ node.prev = 0 /\ node.next = 0
    BY <2>3, <2>4 DEF Node, Nodes, Nil
  <2>6. e.client # e.server
    BY <2>2, <2>3 DEF IsComplete, Ends
  <2> QED
    BY <2>3, <2>5, <2>6
<1> HIDE DEF node, room
<1>4. /\ Linked(list') /\ SameNodes(room, list') /\ Len(list'.nodes) = n
      /\ list'.nodes[n].of = k /\ list'.nodes[n].edge = e
  BY <1>1, <1>2, <1>3, PushKeeps, SMTT(30)
<1> HIDE DEF e
<1>5. SameNodes(list, list') /\ Len(list.nodes) \in Nat
  BY <1>1, <1>2, <1>4, LenProperties DEF SameNodes, Linked
<1>6. /\ accepted' \in [AllKeys -> [client : Nat, server : Nat]]
      /\ accepted[k].client \in Nat /\ accepted[k].server \in Nat
      /\ accepted'[k].client = accepted[k].client + One(HasClient(kind))
      /\ accepted'[k].server = accepted[k].server + One(HasServer(kind))
      /\ \A j \in AllKeys : j # k => accepted'[j] = accepted[j]
  BY <1>1, AcceptCounts
<1>7. /\ table' \in [AllKeys -> Nat] /\ table'[k] = n /\ n # Nil
      /\ \A j \in AllKeys : j # k => table'[j] = table[j]
  BY <1>1, <1>2, <1>5 DEF Nil
<1>8. StoreTypes'
  <2>1. \A j \in AllKeys : table'[j] <= Len(list'.nodes)
    BY <1>1, <1>4, <1>5, <1>7
  <2> QED
    BY <1>1, <1>4, <1>6, <1>7, <2>1 DEF StoreTypes
<1>9. KeyOK(k, table'[k], list'.nodes, accepted'[k], sent', expired')
  <2>1. Times(sent, k) + 0 <= accepted[k].client /\ Times(sent, k) \in Nat
    BY <1>1, TimesIsNat DEF KeyOK, One
  <2>2. Times(sent, k) + One(e.client) <= accepted'[k].client
    BY <1>3, <1>6, <2>1 DEF One
  <2>3. k \notin expired' /\ (\A i \in 1..Len(sent) : sent[i] # k) =>
            (accepted'[k].client > 0 <=> e.client) /\ (accepted'[k].server > 0 <=> e.server)
    <3>1. k \notin expired' /\ (\A i \in 1..Len(sent) : sent[i] # k) =>
            accepted[k].client = 0 /\ accepted[k].server = 0
      <4>1. k \notin expired' /\ (\A i \in 1..Len(sent) : sent[i] # k) =>
              ~(accepted[k].client > 0) /\ ~(accepted[k].server > 0)
        BY <1>1 DEF KeyOK
      <4> QED
        BY <1>6, <4>1
    <3> QED
      BY <1>3, <1>6, <3>1 DEF One, Ends
  <2> QED
    BY <1>1, <1>3, <1>4, <1>7, <2>2, <2>3 DEF KeyOK, One
<1>10. ASSUME NEW j \in AllKeys, j # k
       PROVE  KeyOK(j, table'[j], list'.nodes, accepted'[j], sent', expired')
  <2>1. table[j] # Nil => table[j] \in 1..Len(list.nodes)
    BY <1>1, <1>5 DEF Nil
  <2>2. table[j] # Nil => /\ list'.nodes[table[j]].of = list.nodes[table[j]].of
                          /\ list'.nodes[table[j]].edge = list.nodes[table[j]].edge
    BY <1>5, <2>1 DEF SameNodes
  <2>3. /\ KeyOK(j, table[j], list.nodes, accepted[j], sent, expired) /\ accepted'[j] = accepted[j]
        /\ table'[j] = table[j] /\ expired \subseteq expired' /\ sent' = sent
    BY <1>1, <1>6, <1>7, <1>10
  <2> QED
    BY <2>2, <2>3, KeyKept
<1> QED
  BY <1>8, <1>9, <1>10 DEF GraphInv

\* A step that leaves the store and what was sent alone.
LEMMA GraphKept ==
    ASSUME GraphInv, UNCHANGED <<table, list, accepted, sent, expired>>, now' \in Nat
    PROVE  GraphInv'
BY DEF GraphInv, StoreTypes

\* Every step keeps the invariant.
LEMMA GraphStep == GraphInv /\ [Next]_vars => GraphInv'
<1> SUFFICES ASSUME GraphInv, [Next]_vars PROVE GraphInv'
  OBVIOUS
<1>1. now \in Nat
  BY DEF GraphInv, StoreTypes
<1>2. CASE UNCHANGED vars
  BY <1>1, <1>2, GraphKept DEF vars, store
<1>3. CASE Tick
  <2>1. now' \in Nat
    BY <1>1, <1>3 DEF Tick
  <2> QED
    BY <1>3, <2>1, GraphKept DEF Tick, store
<1>4. CASE LoopStep \/ TimerFires
  BY <1>1, <1>4, GraphKept
     DEF LoopStep, ReceiveEdge, StopTimer, ReceiveTimer, InsertEdges, TimerFires, store
<1>5. CASE ProcessSpan
  <2>1. PICK k \in AllKeys, kind \in Kinds : WithEdge(k, kind)
    BY <1>5 DEF ProcessSpan
  <2>2. now' = now
    BY <1>5 DEF ProcessSpan
  <2>3. CASE UpdateEdge(k, kind)
    BY <2>2, <2>3, UpdateEdgeStep
  <2>4. CASE CompleteEdge(k, kind)
    BY <2>2, <2>4, CompleteEdgeStep
  <2>5. CASE StoreEdge(k, kind)
    BY <2>2, <2>5, StoreEdgeStep
  <2>6. CASE RefuseEdge(k, kind)
    BY <1>1, <2>2, <2>6, GraphKept DEF RefuseEdge
  <2> QED
    BY <2>1, <2>3, <2>4, <2>5, <2>6 DEF WithEdge
<1> QED
  BY <1>2, <1>3, <1>4, <1>5 DEF Next

\* The store is empty.
LEMMA GraphInit == Init => GraphInv
<1> SUFFICES ASSUME Init PROVE GraphInv
  OBVIOUS
<1>1. /\ list = [front |-> 0, back |-> 0, nodes |-> << >>] /\ sent = << >> /\ now = 1
      /\ table = [k \in AllKeys |-> 0]
      /\ accepted = [k \in AllKeys |-> [client |-> 0, server |-> 0]]
  BY DEF Init, Nil
<1>2. << >> \in Seq(Nodes) /\ << >> \in Seq(AllKeys) /\ Len(<< >>) = 0
  BY EmptySeq
<1>3. /\ list \in [front : Nat, back : Nat, nodes : Seq(Nodes)]
      /\ list.nodes = << >> /\ list.front = 0 /\ list.back = 0
  BY <1>1, <1>2
<1>4. StoreTypes
  <2>1. Linked(list)
    BY <1>2, <1>3 DEF Linked
  <2> QED
    BY <1>1, <1>2, <1>3, <2>1 DEF StoreTypes
<1>5. \A k \in AllKeys : Times(sent, k) = 0
  <2>1. \A k \in AllKeys : {i \in 1..0 : sent[i] = k} = {}
    OBVIOUS
  <2> QED
    BY <1>1, <1>2, <2>1, FS_EmptySet DEF Times
<1>6. \A k \in AllKeys : KeyOK(k, table[k], list.nodes, accepted[k], sent, expired)
  BY <1>1, <1>5 DEF KeyOK, One, Nil
<1> QED
  BY <1>4, <1>6 DEF GraphInv

\* The invariant holds in every state.
LEMMA GraphInvariant == Spec => []GraphInv
BY GraphInit, GraphStep, PTL DEF Spec

-----------------------------------------------------------------------------
(* The theorems.                                                           *)

\* A node in the table waits for its key only and for one end only, also after
\* a key was evicted and is still in the table.
THEOREM TableIncomplete == Spec => []StoredIncomplete
<1>1. GraphInv => StoredIncomplete
  BY DEF GraphInv, KeyOK, StoredIncomplete, Stored
<1> QED
  BY <1>1, GraphInvariant, PTL

\* There are never more edges of a key than spans of its client, in whatever
\* order and however often the ends arrive at WithEdge.
THEOREM CallsNotCountedTwice == Spec => []EdgesCounted
<1>1. GraphInv => EdgesCounted
  <2> SUFFICES ASSUME GraphInv, NEW k \in AllKeys PROVE Times(sent, k) <= accepted[k].client
    BY DEF EdgesCounted, Times
  <2> DEFINE b == table[k] # Nil /\ list.nodes[table[k]].edge.client
  <2>1. Times(sent, k) + One(b) <= accepted[k].client
    BY DEF GraphInv, KeyOK
  <2>2. Times(sent, k) \in Nat /\ One(b) \in Nat /\ accepted[k].client \in Nat
    BY TimesIsNat DEF GraphInv, StoreTypes, One
  <2> QED
    BY <2>1, <2>2
<1> QED
  BY <1>1, GraphInvariant, PTL

\* A call whose two ends were accepted is an edge, unless its key was evicted by
\* tryRemoveFront.
THEOREM CallsJoined == Spec => []PairsJoined
<1>1. GraphInv => PairsJoined
  <2> SUFFICES ASSUME GraphInv, NEW k \in AllKeys,
                      accepted[k].client > 0, accepted[k].server > 0, k \notin expired,
                      \A i \in 1..Len(sent) : sent[i] # k
               PROVE  FALSE
    BY DEF PairsJoined
  <2> DEFINE n == table[k]
             e == list.nodes[n].edge
  <2>1. n # Nil /\ e.client /\ e.server /\ e.client # e.server
    BY DEF GraphInv, KeyOK
  <2>2. n \in 1..Len(list.nodes) /\ list.nodes \in Seq(Nodes)
    BY <2>1, LenProperties DEF GraphInv, StoreTypes, Linked, Nil
  <2>3. e \in Ends
    <3>1. list.nodes[n] \in Nodes
      BY <2>2, ElementOfSeq
    <3> QED
      BY <3>1 DEF Nodes
  <2> HIDE DEF e
  <2> QED
    BY <2>1, <2>3 DEF Ends
<1> QED
  BY <1>1, GraphInvariant, PTL

-----------------------------------------------------------------------------
(* The store implements a store without a list.                            *)

\* The ends that are known of an edge, and after a span was taken.
LEMMA KnownEnds ==
    ASSUME NEW e \in Ends, NEW kind \in Kinds
    PROVE  LET ends == Known(HasClient(kind), HasServer(kind))
               new == Update(e, kind)
           IN  /\ ends \in (SUBSET Calls!Ends) \ {{}}
               /\ "client" \in ends <=> HasClient(kind)
               /\ "server" \in ends <=> HasServer(kind)
               /\ Known(e.client, e.server) \cup ends = Known(new.client, new.server)
               /\ Known(new.client, new.server) = Calls!Ends <=> IsComplete(new)
<1>1. /\ Update(e, kind) \in Ends
      /\ Update(e, kind).client <=> e.client \/ HasClient(kind)
      /\ Update(e, kind).server <=> e.server \/ HasServer(kind)
      /\ HasClient(kind) \in BOOLEAN /\ HasServer(kind) \in BOOLEAN
      /\ HasClient(kind) \/ HasServer(kind)
  BY UpdateEnds
<1>2. \A c, s \in BOOLEAN : /\ "client" \in Known(c, s) <=> c
                            /\ "server" \in Known(c, s) <=> s
                            /\ Known(c, s) \subseteq {"client", "server"}
  BY DEF Known
<1>3. e.client \in BOOLEAN /\ e.server \in BOOLEAN
  BY DEF Ends
<1> DEFINE new == Update(e, kind)
<1>4. new.client \in BOOLEAN /\ new.server \in BOOLEAN
  BY <1>1 DEF Ends
<1> HIDE DEF new
<1>5. Known(e.client, e.server) \cup Known(HasClient(kind), HasServer(kind))
        = Known(new.client, new.server)
  BY <1>1, <1>2, <1>3, <1>4 DEF new
<1>6. Known(new.client, new.server) = Calls!Ends <=> IsComplete(new)
  BY <1>2, <1>4 DEF Calls!Ends, IsComplete
<1> QED
  BY <1>1, <1>2, <1>5, <1>6 DEF new, Calls!Ends

\* A span that is accepted is taken, if what is known of the other keys stays.
LEMMA TakeSeen ==
    ASSUME NEW k \in AllKeys, NEW kind \in Kinds, NEW e \in Ends, Accept(k, kind),
           PendingSeen[k] = Known(e.client, e.server),
           \A j \in AllKeys : j # k => PendingSeen'[j] = PendingSeen[j],
           LET new == Update(e, kind)
           IN  IF IsComplete(new) THEN PendingSeen'[k] = {} /\ sent' = Append(sent, k)
               ELSE PendingSeen'[k] = Known(new.client, new.server) /\ sent' = sent
    PROVE  Calls!Next
<1> DEFINE ends == Known(HasClient(kind), HasServer(kind))
           new == Update(e, kind)
           known == PendingSeen[k] \cup ends
<1>1. /\ ends \in (SUBSET Calls!Ends) \ {{}}
      /\ "client" \in ends <=> HasClient(kind)
      /\ "server" \in ends <=> HasServer(kind)
      /\ known = Known(new.client, new.server)
      /\ known = Calls!Ends <=> IsComplete(new)
  <2>1. /\ ends \in (SUBSET Calls!Ends) \ {{}}
        /\ "client" \in ends <=> HasClient(kind)
        /\ "server" \in ends <=> HasServer(kind)
    BY KnownEnds
  <2>2. /\ Known(e.client, e.server) \cup ends = Known(new.client, new.server)
        /\ Known(new.client, new.server) = Calls!Ends <=> IsComplete(new)
    BY KnownEnds
  <2>3. known = Known(new.client, new.server)
    BY <2>2
  <2> QED
    BY <2>1, <2>2, <2>3
<1>2. /\ IsComplete(new) => PendingSeen'[k] = {} /\ sent' = Append(sent, k)
      /\ ~IsComplete(new) => PendingSeen'[k] = known /\ sent' = sent
  BY <1>1
<1> HIDE DEF ends, new, known
<1>3. accepted' = [accepted EXCEPT ![k].client = @ + (IF "client" \in ends THEN 1 ELSE 0),
                                   ![k].server = @ + (IF "server" \in ends THEN 1 ELSE 0)]
  BY <1>1 DEF Accept
<1>4. ASSUME NEW P, PendingSeen'[k] = P PROVE PendingSeen' = [PendingSeen EXCEPT ![k] = P]
  <2>1. /\ PendingSeen' = [j \in AllKeys |-> PendingSeen'[j]]
        /\ [PendingSeen EXCEPT ![k] = P] = [j \in AllKeys |-> IF j = k THEN P ELSE PendingSeen[j]]
    BY DEF PendingSeen
  <2> QED
    BY <1>4, <2>1
<1>5. \/ known # Calls!Ends /\ PendingSeen' = [PendingSeen EXCEPT ![k] = known] /\ UNCHANGED sent
      \/ /\ known = Calls!Ends /\ PendingSeen' = [PendingSeen EXCEPT ![k] = {}]
         /\ sent' = Append(sent, k)
  BY <1>1, <1>2, <1>4
<1>6. Calls!Take(k, ends)
  BY <1>3, <1>5 DEF Calls!Take, known
<1> QED
  BY <1>1, <1>6 DEF Calls!Next

\* What is known of a key that keeps its node, and its node its ends.
LEMMA PendingKept ==
    ASSUME NEW j \in AllKeys, table'[j] = table[j],
           table[j] # Nil => list'.nodes[table[j]].edge = list.nodes[table[j]].edge
    PROVE  PendingSeen'[j] = PendingSeen[j]
BY DEF PendingSeen

\* A span of a key that is stored.
LEMMA UpdateEdgeSeen ==
    ASSUME GraphInv, NEW k \in AllKeys, NEW kind \in Kinds, UpdateEdge(k, kind)
    PROVE  Calls!Next
<1> DEFINE n == table[k]
           old == list.nodes[n].edge
           e == Update(old, kind)
           updated == [list EXCEPT !.nodes[n].edge = e]
<1>1. /\ n # Nil /\ Accept(k, kind) /\ StoreTypes
      /\ \A j \in AllKeys : KeyOK(j, table[j], list.nodes, accepted[j], sent, expired)
      /\ IF IsComplete(e) THEN OnComplete(k) /\ Forget(k, updated)
         ELSE list' = updated /\ UNCHANGED <<table, sent>>
  BY DEF GraphInv, UpdateEdge
<1>2. /\ n \in 1..Len(list.nodes) /\ Linked(list) /\ Len(list.nodes) \in Nat
      /\ table \in [AllKeys -> Nat] /\ \A j \in AllKeys : table[j] <= Len(list.nodes)
  BY <1>1, LenProperties DEF StoreTypes, Linked, Nil
<1>3. list.nodes[n].of = k /\ old \in Ends /\ PendingSeen[k] = Known(old.client, old.server)
  <2>1. list.nodes[n] \in Nodes
    BY <1>2, ElementOfSeq DEF Linked
  <2> QED
    BY <1>1, <2>1 DEF KeyOK, Nodes, PendingSeen
<1>4. \A j \in AllKeys : j # k /\ table[j] # Nil => table[j] \in 1..Len(list.nodes) /\ table[j] # n
  BY <1>1, <1>2, <1>3 DEF KeyOK, Nil
<1>5. e \in Ends
  BY <1>3, UpdateEnds
<1> HIDE DEF e, old
<1>6. /\ Linked(updated) /\ Len(updated.nodes) = Len(list.nodes) /\ updated.nodes[n].edge = e
      /\ \A j \in 1..Len(list.nodes) : j # n => updated.nodes[j] = list.nodes[j]
  BY <1>2, <1>5, SetEdge
<1> HIDE DEF updated
<1>7. CASE ~IsComplete(e)
  <2>1. list' = updated /\ table' = table /\ sent' = sent
    BY <1>1, <1>7
  <2>2. PendingSeen'[k] = Known(e.client, e.server)
    BY <1>1, <1>6, <2>1 DEF PendingSeen
  <2>3. \A j \in AllKeys : j # k => PendingSeen'[j] = PendingSeen[j]
    BY <1>4, <1>6, <2>1, PendingKept
  <2> QED
    BY <1>1, <1>3, <1>7, <2>1, <2>2, <2>3, TakeSeen DEF e
<1>8. CASE IsComplete(e)
  <2>1. /\ sent' = Append(sent, k) /\ list' = ListRemove(updated, n)
        /\ table' = [table EXCEPT ![k] = Nil]
    BY <1>1, <1>8 DEF OnComplete, Forget
  <2>2. SameNodes(updated, list')
    BY <1>2, <1>6, <2>1, RemoveKeeps DEF Relinked
  <2>3. table'[k] = Nil /\ \A j \in AllKeys : j # k => table'[j] = table[j]
    BY <1>2, <2>1
  <2>4. PendingSeen'[k] = {}
    BY <2>3 DEF PendingSeen
  <2>5. ASSUME NEW j \in AllKeys, j # k PROVE PendingSeen'[j] = PendingSeen[j]
    <3>1. table[j] # Nil => list'.nodes[table[j]].edge = list.nodes[table[j]].edge
      BY <1>4, <1>6, <2>2, <2>5 DEF SameNodes
    <3> QED
      BY <2>3, <2>5, <3>1, PendingKept
  <2> QED
    BY <1>1, <1>3, <1>8, <2>1, <2>4, <2>5, TakeSeen DEF e
<1> QED
  BY <1>7, <1>8

\* A span of a key that is not stored: it is complete, or stored.
LEMMA NewEdgeSeen ==
    ASSUME GraphInv, NEW k \in AllKeys, NEW kind \in Kinds,
           CompleteEdge(k, kind) \/ StoreEdge(k, kind)
    PROVE  Calls!Next
<1> DEFINE none == [client |-> FALSE, server |-> FALSE]
           e == Update(none, kind)
<1>1. /\ table[k] = Nil /\ Accept(k, kind) /\ StoreTypes /\ Linked(list)
      /\ table \in [AllKeys -> Nat] /\ \A j \in AllKeys : table[j] <= Len(list.nodes)
      /\ Len(list.nodes) \in Nat /\ now \in Nat
  BY LenProperties DEF CompleteEdge, StoreEdge, GraphInv, StoreTypes, Linked
<1>2. none \in Ends /\ none.client = FALSE /\ none.server = FALSE
  BY DEF Ends
<1>3. PendingSeen[k] = Known(none.client, none.server)
  <2>1. Known(FALSE, FALSE) = {}
    BY DEF Known
  <2> QED
    BY <1>1, <1>2, <2>1 DEF PendingSeen
<1>4. CASE CompleteEdge(k, kind)
  <2>1. IsComplete(e) /\ table' = table /\ list' = list /\ sent' = Append(sent, k)
    BY <1>4 DEF CompleteEdge, OnComplete
  <2>2. PendingSeen'[k] = {}
    BY <1>1, <2>1 DEF PendingSeen
  <2>3. \A j \in AllKeys : j # k => PendingSeen'[j] = PendingSeen[j]
    BY <2>1, PendingKept
  <2> HIDE DEF none
  <2> QED
    BY <1>1, <1>2, <1>3, <2>1, <2>2, <2>3, TakeSeen
<1>5. CASE StoreEdge(k, kind)
  <2> DEFINE node == Node(k, kind)
             room == IF Full THEN ListRemove(list, list.front) ELSE list
             n == Len(list.nodes) + 1
  <2>1. /\ ~IsComplete(e) /\ list' = PushBack(room, node) /\ sent' = sent
        /\ table' = [table EXCEPT ![k] = n]
    BY <1>5 DEF StoreEdge
  <2>2. Linked(room) /\ SameNodes(list, room) /\ Len(room.nodes) = Len(list.nodes)
    <3>1. CASE Full
      <4>1. list.front \in 1..Len(list.nodes)
        BY <1>1, <1>5, <3>1 DEF StoreEdge, CanRemoveFront, Linked, Nil
      <4> QED
        BY <1>1, <3>1, <4>1, RemoveKeeps DEF Relinked
    <3>2. CASE ~Full
      BY <1>1, <3>2 DEF SameNodes
    <3> QED
      BY <3>1, <3>2
  <2>3. node \in Nodes /\ node.prev = 0 /\ node.next = 0 /\ node.edge = e
    <3>1. (IF TTL > 0 THEN now + TTL ELSE 0) \in Nat
      BY <1>1, ServiceGraphAssumption
    <3>2. e \in Ends
      BY <1>2, UpdateEnds
    <3> HIDE DEF e
    <3> QED
      BY <3>1, <3>2 DEF Node, Nodes, Nil, e
  <2> HIDE DEF node, room, e, none
  <2>4. SameNodes(room, list') /\ Len(list'.nodes) = n /\ list'.nodes[n].edge = node.edge
    BY <1>1, <2>1, <2>2, <2>3, PushKeeps, SMTT(30)
  <2>5. SameNodes(list, list')
    BY <1>1, <2>2, <2>4 DEF SameNodes
  <2>6. table'[k] = n /\ n # Nil /\ \A j \in AllKeys : j # k => table'[j] = table[j]
    BY <1>1, <2>1 DEF Nil
  <2>7. PendingSeen'[k] = Known(e.client, e.server)
    BY <2>3, <2>4, <2>6 DEF PendingSeen
  <2>8. ASSUME NEW j \in AllKeys, j # k PROVE PendingSeen'[j] = PendingSeen[j]
    <3>1. table[j] # Nil => list'.nodes[table[j]].edge = list.nodes[table[j]].edge
      BY <1>1, <2>5 DEF SameNodes, Nil
    <3> QED
      BY <2>6, <2>8, <3>1, PendingKept
  <2> QED
    BY <1>1, <1>2, <1>3, <2>1, <2>7, <2>8, TakeSeen DEF e
<1> QED
  BY <1>4, <1>5

\* WithEdge under the mutex takes spans as a store without a list does; what is
\* refused is not seen, and neither is the loop that inserts the edges.
THEOREM StoreImplementsCalls == Spec => CallsImplemented
<1>1. Init => Calls!Init
  BY DEF Init, Calls!Init, PendingSeen
<1>2. GraphInv /\ [Next]_vars => [Calls!Next]_(Calls!vars)
  <2> SUFFICES ASSUME GraphInv, [Next]_vars PROVE Calls!Next \/ UNCHANGED Calls!vars
    BY Zenon
  <2>1. CASE UNCHANGED <<table, list, accepted, sent>>
    <3>1. PendingSeen' = PendingSeen
      BY <2>1 DEF PendingSeen
    <3> QED
      BY <2>1, <3>1 DEF Calls!vars
  <2>2. CASE ProcessSpan
    <3>1. PICK k \in AllKeys, kind \in Kinds : WithEdge(k, kind)
      BY <2>2 DEF ProcessSpan
    <3>2. CASE RefuseEdge(k, kind)
      BY <2>1, <3>2 DEF RefuseEdge
    <3> QED
      BY <3>1, <3>2, UpdateEdgeSeen, NewEdgeSeen DEF WithEdge
  <2>3. CASE UNCHANGED vars \/ Tick \/ LoopStep \/ TimerFires
    BY <2>1, <2>3 DEF vars, store, Tick, LoopStep, ReceiveEdge, StopTimer, ReceiveTimer,
                      InsertEdges, TimerFires
  <2> QED
    BY <2>2, <2>3 DEF Next
<1> QED
  BY <1>1, <1>2, GraphInvariant, PTL DEF Spec, CallsImplemented, Calls!Spec

-----------------------------------------------------------------------------
(* No edge is lost or inserted twice on its way to the table.              *)

\* The edges that the loop has or will receive, the oldest first.
Waiting == edges \o edgeCh

\* Each of n edges waits in q, or is in d or in f: one of these, and once.
Apart(q, n, d, f) ==
    /\ \A m \in 1..n : m \in d \cup f \/ \E i \in 1..Len(q) : q[i] = m
    /\ d \cap f = {}
    /\ \A i \in 1..Len(q) :
        /\ q[i] \notin d \cup f
        /\ \A j \in 1..Len(q) : q[i] = q[j] => i = j

\* An edge that was complete waits, or the channel had no room for it, or it was
\* in a batch that was inserted (or failed to be).
EdgesAccounted == Apart(Waiting, Len(sent), dropped, flushed)

EdgeInv ==
    /\ edges \in Seq(1..Len(sent)) /\ edgeCh \in Seq(1..Len(sent))
    /\ dropped \subseteq 1..Len(sent) /\ flushed \subseteq 1..Len(sent)
    /\ EdgesAccounted

\* What waits is the batch of the loop and then the channel.
LEMMA WaitingParts ==
    ASSUME NEW S, NEW s \in Seq(S), NEW t \in Seq(S)
    PROVE  /\ s \o t \in Seq(S) /\ Len(s) \in Nat /\ Len(t) \in Nat
           /\ Len(s \o t) = Len(s) + Len(t)
           /\ \A i \in 1..Len(s \o t) : (s \o t)[i] \in S
           /\ \A i \in 1..Len(s) : (s \o t)[i] = s[i]
           /\ \A i \in 1..Len(t) : (s \o t)[Len(s) + i] = t[i]
<1>1. s \o t \in Seq(S) /\ Len(s) \in Nat /\ Len(t) \in Nat /\ Len(s \o t) = Len(s) + Len(t)
  BY ConcatProperties, LenProperties
<1>2. \A i \in 1..Len(s \o t) : (s \o t)[i] \in S
  BY <1>1, ElementOfSeq
<1>3. \A i \in 1..Len(s) + Len(t) :
        (s \o t)[i] = IF i <= Len(s) THEN s[i] ELSE t[i - Len(s)]
  BY ConcatProperties
<1>4. ASSUME NEW i \in 1..Len(t) PROVE (s \o t)[Len(s) + i] = t[i]
  <2>1. Len(s) + i \in 1..Len(s) + Len(t) /\ ~(Len(s) + i <= Len(s)) /\ (Len(s) + i) - Len(s) = i
    BY <1>1
  <2> QED
    BY <1>3, <2>1
<1>5. \A i \in 1..Len(s) : (s \o t)[i] = s[i]
  BY <1>1, <1>3
<1> QED
  BY <1>1, <1>2, <1>4, <1>5

\* A new edge joins those that wait, or those that were dropped.
LEMMA ApartGrows ==
    ASSUME NEW n \in Nat, NEW q \in Seq(1..n), NEW d \in SUBSET (1..n),
           NEW f \in SUBSET (1..n), Apart(q, n, d, f)
    PROVE  /\ Apart(Append(q, n + 1), n + 1, d, f)
           /\ Apart(q, n + 1, d \cup {n + 1}, f)
<1>1. /\ n + 1 \notin 1..n /\ \A m \in 1..(n + 1) : m = n + 1 \/ m \in 1..n
      /\ Len(q) \in Nat /\ \A i \in 1..Len(q) : q[i] \in 1..n
  BY ElementOfSeq, LenProperties
<1>2. ASSUME NEW i \in 1..Len(q) PROVE q[i] # n + 1
  BY <1>1
<1>3. Apart(q, n + 1, d \cup {n + 1}, f)
  BY <1>1, <1>2 DEF Apart
<1> DEFINE r == Append(q, n + 1)
<1>4. /\ Len(r) = Len(q) + 1 /\ r[Len(q) + 1] = n + 1
      /\ \A i \in 1..Len(q) : r[i] = q[i]
  <2>1. q \in Seq(Nat)
    BY SeqMonotonic
  <2> QED
    BY <2>1, AppendProperties
<1> HIDE DEF r
<1>5. \A i \in 1..Len(r) : i \in 1..Len(q) \/ i = Len(q) + 1
  BY <1>1, <1>4
<1>6. \A m \in 1..(n + 1) : m \in d \cup f \/ \E i \in 1..Len(r) : r[i] = m
  <2>1. ASSUME NEW m \in 1..n, m \notin d \cup f PROVE \E i \in 1..Len(r) : r[i] = m
    <3>1. PICK i \in 1..Len(q) : q[i] = m
      BY <2>1 DEF Apart
    <3> QED
      BY <1>1, <1>4, <3>1
  <2>2. \E i \in 1..Len(r) : r[i] = n + 1
    BY <1>1, <1>4
  <2> QED
    BY <1>1, <2>1, <2>2
<1>7. ASSUME NEW i \in 1..Len(r) PROVE r[i] \notin d \cup f
  <2>1. CASE i \in 1..Len(q)
    BY <1>4, <2>1 DEF Apart
  <2>2. CASE i = Len(q) + 1
    BY <1>1, <1>4, <2>2
  <2> QED
    BY <1>5, <2>1, <2>2
<1>8. ASSUME NEW i \in 1..Len(r), NEW j \in 1..Len(r), r[i] = r[j] PROVE i = j
  BY <1>2, <1>4, <1>5, <1>8 DEF Apart
<1>9. Apart(r, n + 1, d, f)
  BY <1>6, <1>7, <1>8 DEF Apart
<1> QED
  BY <1>3, <1>9 DEF r

\* The first of those that wait wait no more.
LEMMA ApartShrinks ==
    ASSUME NEW n \in Nat, NEW s \in Seq(1..n), NEW t \in Seq(1..n), NEW d, NEW f,
           Apart(s \o t, n, d, f)
    PROVE  Apart(t, n, d, f \cup ToSet(s))
<1> DEFINE q == s \o t
           e == Len(s)
<1>1. /\ e \in Nat /\ Len(t) \in Nat /\ Len(q) = e + Len(t)
      /\ \A i \in 1..e : q[i] = s[i]
      /\ \A i \in 1..Len(t) : q[e + i] = t[i]
  BY WaitingParts
<1>2. \A x : x \in ToSet(s) <=> \E i \in 1..e : s[i] = x
  BY LenProperties DEF ToSet
<1>3. Apart(q, n, d, f)
  OBVIOUS
<1> HIDE DEF q, e
<1>4. \A i \in 1..e : i \in 1..Len(q)
  BY <1>1
<1>5. \A i \in 1..Len(t) : e + i \in 1..Len(q) /\ e + i \notin 1..e
  BY <1>1
<1>6. ASSUME NEW m \in 1..n, m \notin d \cup f \cup ToSet(s)
      PROVE  \E i \in 1..Len(t) : t[i] = m
  <2>1. PICK i \in 1..Len(q) : q[i] = m
    BY <1>3, <1>6 DEF Apart
  <2>2. i \notin 1..e
    BY <1>1, <1>2, <1>6, <2>1
  <2>3. i - e \in 1..Len(t) /\ e + (i - e) = i
    BY <1>1, <2>2
  <2> QED
    BY <1>1, <2>1, <2>3
<1>7. d \cap (f \cup ToSet(s)) = {}
  <2>1. \A x \in ToSet(s) : x \notin d
    BY <1>1, <1>2, <1>3, <1>4 DEF Apart
  <2> QED
    BY <1>3, <2>1 DEF Apart
<1>8. ASSUME NEW i \in 1..Len(t)
      PROVE  /\ t[i] \notin d \cup f \cup ToSet(s)
             /\ \A j \in 1..Len(t) : t[i] = t[j] => i = j
  <2>1. q[e + i] = t[i] /\ e + i \in 1..Len(q) /\ e + i \notin 1..e
    BY <1>1, <1>5
  <2>2. t[i] \notin ToSet(s)
    <3>1. \A k, l \in 1..Len(q) : q[k] = q[l] => k = l
      BY <1>3 DEF Apart
    <3>2. ASSUME NEW j \in 1..e PROVE s[j] # t[i]
      BY <1>1, <1>4, <2>1, <3>1
    <3> QED
      BY <1>2, <3>2
  <2>3. t[i] \notin d \cup f
    BY <1>3, <2>1 DEF Apart
  <2>4. ASSUME NEW j \in 1..Len(t), t[i] = t[j] PROVE i = j
    <3>1. q[e + j] = t[j] /\ e + j \in 1..Len(q)
      BY <1>1, <1>5
    <3>2. \A k, l \in 1..Len(q) : q[k] = q[l] => k = l
      BY <1>3 DEF Apart
    <3>3. e + i = e + j
      BY <2>1, <2>4, <3>1, <3>2
    <3> QED
      BY <1>1, <3>3
  <2> QED
    BY <2>2, <2>3, <2>4
<1> QED
  BY <1>6, <1>7, <1>8 DEF Apart

\* The edge that is complete is new: it joins those that wait or is dropped.
LEMMA OnCompleteEdges ==
    ASSUME EdgeInv, sent \in Seq(AllKeys), NEW k \in AllKeys, OnComplete(k),
           UNCHANGED <<edges, flushed>>
    PROVE  EdgeInv'
<1> DEFINE n == Len(sent)
<1>1. /\ n \in Nat /\ Len(sent') = n + 1
      /\ 1..n \subseteq 1..(n + 1) /\ n + 1 \in 1..(n + 1)
  BY LenProperties, AppendProperties DEF OnComplete
<1>2. /\ edges \in Seq(1..n) /\ edgeCh \in Seq(1..n) /\ Waiting \in Seq(1..n)
      /\ dropped \in SUBSET (1..n) /\ flushed \in SUBSET (1..n)
      /\ Apart(Waiting, n, dropped, flushed)
  BY WaitingParts DEF EdgeInv, EdgesAccounted, Waiting
<1> HIDE DEF n
<1>3. edges \in Seq(1..(n + 1)) /\ edgeCh \in Seq(1..(n + 1))
  BY <1>1, <1>2, SeqMonotonic
<1>4. /\ Apart(Append(Waiting, n + 1), n + 1, dropped, flushed)
      /\ Apart(Waiting, n + 1, dropped \cup {n + 1}, flushed)
  BY <1>1, <1>2, ApartGrows
<1>5. CASE edgeCh' = Append(edgeCh, n + 1) /\ UNCHANGED dropped
  <2>1. edgeCh' \in Seq(1..(n + 1))
    BY <1>1, <1>3, <1>5, AppendProperties
  <2>2. Waiting' = Append(Waiting, n + 1)
    <3>1. edges \o Append(edgeCh, n + 1) = Append(edges \o edgeCh, n + 1)
      <4> DEFINE one == << n + 1 >>
      <4>1. one \in Seq(1..(n + 1)) /\ edges \o edgeCh \in Seq(1..(n + 1))
        BY <1>1, <1>3, ConcatProperties
      <4>2. /\ Append(edgeCh, n + 1) = edgeCh \o one
            /\ Append(edges \o edgeCh, n + 1) = (edges \o edgeCh) \o one
        BY <1>1, <1>3, <4>1, AppendIsConcat
      <4> QED
        <5>1. (edges \o edgeCh) \o one = edges \o (edgeCh \o one)
          BY <1>3, <4>1, ConcatAssociative, SMTT(30)
        <5> QED
          BY <4>2, <5>1
    <3> QED
      BY <1>5, <3>1 DEF Waiting
  <2> QED
    BY <1>1, <1>2, <1>3, <1>4, <1>5, <2>1, <2>2 DEF EdgeInv, EdgesAccounted
<1>6. CASE dropped' = dropped \cup {n + 1} /\ UNCHANGED edgeCh
  <2>1. Waiting' = Waiting
    BY <1>6 DEF Waiting
  <2> QED
    BY <1>1, <1>2, <1>3, <1>4, <1>6, <2>1 DEF EdgeInv, EdgesAccounted
<1> QED
  BY <1>5, <1>6 DEF OnComplete, n

\* The loop takes the head of the channel: what waits stays, in its order.
LEMMA ReceiveEdgeEdges ==
    ASSUME EdgeInv, ReceiveEdge
    PROVE  EdgeInv'
<1> DEFINE S == 1..Len(sent)
<1>1. edges \in Seq(S) /\ edgeCh \in Seq(S) /\ edgeCh # << >>
  BY DEF EdgeInv, ReceiveEdge
<1>2. /\ Head(edgeCh) \in S /\ Tail(edgeCh) \in Seq(S)
      /\ edgeCh = << Head(edgeCh) >> \o Tail(edgeCh)
  <2>1. /\ Head(edgeCh) \in S /\ Tail(edgeCh) \in Seq(S)
        /\ Len(edgeCh) \in Nat \ {0} /\ Len(Tail(edgeCh)) = Len(edgeCh) - 1
        /\ Head(edgeCh) = edgeCh[1]
        /\ \A i \in 1..Len(Tail(edgeCh)) : Tail(edgeCh)[i] = edgeCh[i + 1]
    BY <1>1, EmptySeq, LenProperties, HeadTailProperties
  <2> QED
    BY <1>1, <2>1, HeadTailProperties
<1>3. Append(edges, Head(edgeCh)) \o Tail(edgeCh) = edges \o edgeCh
  <2>1. << Head(edgeCh) >> \in Seq(S)
    BY <1>2
  <2>2. Append(edges, Head(edgeCh)) = edges \o << Head(edgeCh) >>
    BY <1>1, <1>2, AppendIsConcat
  <2>3. (edges \o << Head(edgeCh) >>) \o Tail(edgeCh) = edges \o (<< Head(edgeCh) >> \o Tail(edgeCh))
    BY <1>1, <1>2, <2>1, ConcatAssociative, SMTT(30)
  <2> QED
    BY <1>2, <2>2, <2>3
<1>4. /\ edges' \in Seq(S) /\ edgeCh' \in Seq(S) /\ Waiting' = Waiting
      /\ UNCHANGED <<sent, dropped, flushed>>
  BY <1>1, <1>2, <1>3, AppendProperties DEF ReceiveEdge, Waiting, loop, store
<1> QED
  BY <1>4 DEF EdgeInv, EdgesAccounted

\* The batch of the loop was inserted or failed to be: its edges wait no more.
LEMMA InsertEdgesEdges ==
    ASSUME EdgeInv, InsertEdges, Len(sent) \in Nat
    PROVE  EdgeInv'
<1> DEFINE S == 1..Len(sent)
<1>1. /\ edges \in Seq(S) /\ edgeCh \in Seq(S)
      /\ Apart(edges \o edgeCh, Len(sent), dropped, flushed)
      /\ dropped \subseteq S /\ flushed \subseteq S
  BY DEF EdgeInv, EdgesAccounted, Waiting
<1>2. /\ edges' \in Seq(S) /\ Waiting' = edgeCh
      /\ flushed' = flushed \cup ToSet(edges)
      /\ UNCHANGED <<sent, dropped, edgeCh>>
  BY <1>1, EmptySeq, ConcatEmptySeq DEF InsertEdges, Waiting, store
<1>3. ToSet(edges) \subseteq S
  <2>1. \A i \in 1..Len(edges) : edges[i] \in S
    BY <1>1, ElementOfSeq
  <2> QED
    BY <1>1, <2>1, LenProperties DEF ToSet
<1>4. Apart(edgeCh, Len(sent), dropped, flushed \cup ToSet(edges))
  BY <1>1, ApartShrinks
<1> QED
  BY <1>1, <1>2, <1>3, <1>4 DEF EdgeInv, EdgesAccounted

\* No edge is lost between WithEdge and the table, and none is inserted with two
\* batches: the channel had no room for it, or it waits, or it went out once.
THEOREM EdgesKept == Spec => []EdgesAccounted
<1>1. Init => EdgeInv
  <2> SUFFICES ASSUME Init PROVE EdgeInv
    OBVIOUS
  <2>1. /\ edges = << >> /\ edgeCh = << >> /\ sent = << >> /\ dropped = {} /\ flushed = {}
        /\ edges \in Seq(1..Len(sent)) /\ edgeCh \in Seq(1..Len(sent))
    BY EmptySeq DEF Init
  <2>2. Len(sent) = 0 /\ Waiting = << >> /\ Len(Waiting) = 0
    BY <2>1, EmptySeq, ConcatEmptySeq DEF Waiting
  <2> QED
    BY <2>1, <2>2 DEF EdgeInv, EdgesAccounted, Apart
<1>2. GraphInv /\ EdgeInv /\ [Next]_vars => EdgeInv'
  <2> SUFFICES ASSUME GraphInv, EdgeInv, [Next]_vars PROVE EdgeInv'
    OBVIOUS
  <2>1. CASE UNCHANGED <<sent, dropped, edgeCh, edges, flushed>>
    BY <2>1 DEF EdgeInv, EdgesAccounted, Waiting
  <2>2. CASE ProcessSpan
    <3>1. PICK k \in AllKeys, kind \in Kinds : WithEdge(k, kind)
      BY <2>2 DEF ProcessSpan
    <3>2. UNCHANGED <<edges, flushed>> /\ sent \in Seq(AllKeys)
      BY <2>2 DEF ProcessSpan, loop, GraphInv, StoreTypes
    <3>3. OnComplete(k) \/ UNCHANGED <<sent, dropped, edgeCh>>
      BY <3>1 DEF WithEdge, UpdateEdge, CompleteEdge, StoreEdge, RefuseEdge, OnComplete
    <3> QED
      BY <2>1, <3>2, <3>3, OnCompleteEdges
  <2>3. CASE ReceiveEdge
    BY <2>3, ReceiveEdgeEdges
  <2>4. CASE InsertEdges
    BY <2>4, InsertEdgesEdges, LenProperties DEF GraphInv, StoreTypes
  <2>5. CASE Tick \/ StopTimer \/ ReceiveTimer \/ TimerFires \/ UNCHANGED vars
    BY <2>1, <2>5 DEF Tick, StopTimer, ReceiveTimer, TimerFires, vars, loop
  <2> QED
    BY <2>2, <2>3, <2>4, <2>5 DEF Next, LoopStep
<1>3. EdgeInv => EdgesAccounted
  BY DEF EdgeInv
<1> QED
  BY <1>1, <1>2, <1>3, GraphInvariant, PTL DEF Spec
=============================================================================
