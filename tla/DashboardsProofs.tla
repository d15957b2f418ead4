-------------------------- MODULE DashboardsProofs --------------------------
(***************************************************************************)
(* Proofs about the dashboards of a project while servers start, stop and  *)
(* save and users edit, for every number of servers, templates, metrics    *)
(* and edits: monitors are made once, and edits that were there before a   *)
(* server looked are kept.                                                 *)
(***************************************************************************)
EXTENDS Server, SequenceTheorems, TLAPS

-----------------------------------------------------------------------------
(* The inductive invariant.                                                *)

Parts == UNION {Gauges[t] \cup Columns[t] : t \in Tpls}
DashRecs == [exists : {TRUE}, name : {"template", "user"}, updated : BOOLEAN, parts : SUBSET Parts,
             touched : SUBSET Parts, own : SUBSET {"yaml", "pin", "table", "parts"}]

\* The columns updated_at tell of every edit, but for the unmarked ones.
Told(d) == d.own \subseteq Unmarked \/ d.updated \/ d.touched # {}
Made == {d \in DashRecs : Told(d)}
Dashes == Made \cup {NoDash}
Saving == {"insert", "gauges", "columns", "monitors"}
SyncRecs == [pc : {"idle", "read", "check", "delete"} \cup Saving, job : BOOLEAN, todo : Seq(Tpls),
             metrics : SUBSET Metrics, old : [Tpls -> Dashes], parts : SUBSET Parts]

DashTypes ==
    /\ metrics \subseteq Metrics
    /\ dash \in [Tpls -> Dashes]
    /\ monitors \in [Tpls -> Nat] /\ gaps \in [Tpls -> Nat]
    /\ syncLock \in Syncers \cup {Free}
    /\ sync \in [Savers -> SyncRecs]

\* The saver r has template t at hand.
At(r, t) == r.todo # << >> /\ Head(r.todo) = t

\* What a saver may be at: it has templates to do, each once, and deletes only
\* a dashboard that it has read.
SaverOK(r) ==
    /\ r.pc = "idle" => r = Idle
    /\ r.pc \in {"idle", "read"} <=> r.todo = << >>
    /\ \A i, j \in 1..Len(r.todo) : r.todo[i] = r.todo[j] => i = j
    /\ r.pc = "delete" => r.old[Head(r.todo)].exists

\* Only one server at a time saves, and the user's request is about one
\* dashboard that it has read.
SaversOK ==
    /\ \A p \in Savers : SaverOK(sync[p])
    /\ \A p \in Syncers : sync[p].pc # "idle" => syncLock = p
    /\ sync[User].pc # "idle" =>
        /\ sync[User].pc \in {"delete"} \cup Saving
        /\ Len(sync[User].todo) = 1 /\ Old(User).exists

One(b) == IF b THEN 1 ELSE 0

\* A server has inserted a first dashboard and has not come to its monitors; it
\* is about to insert a dashboard again; a user is about to replace it.
FirstBy(r, t) == At(r, t) /\ r.pc \in {"gauges", "columns", "monitors"} /\ ~r.old[t].exists
AgainBy(r, t) == At(r, t) /\ r.pc = "insert" /\ r.old[t].exists
YamlBy(r, t) == At(r, t) /\ r.pc = "delete"

First(t) == \E p \in Syncers : FirstBy(sync[p], t)
Again(t) == \E p \in Syncers : AgainBy(sync[p], t)
Yaml(t) == YamlBy(sync[User], t)

\* The monitors of a template, and those that are about to be made, are paid for
\* by the gaps or by a dashboard that is there or about to be again.
Paid(t) ==
    monitors[t] + One(First(t)) + One(Yaml(t)) <= gaps[t] + One(dash[t].exists \/ Again(t))

\* Whether d, the dashboard of t, says what the server has read of it.
Same(old, d) == old.exists /\ d.exists => (d.updated => old.updated) /\ d.name = old.name

\* The dashboards that a server has still to look at, and the one that it is
\* about to delete, say what it has read, unless users edited them since.
KeptBy(r, ds, l) ==
    /\ \A i \in 1..Len(r.todo) :
        r.todo[i] \notin l /\ (i > 1 \/ r.pc \in {"check", "delete"}) =>
            Same(r.old[r.todo[i]], ds[r.todo[i]])
    /\ r.pc = "delete" =>
        LET t == Head(r.todo)
        IN  ~r.old[t].updated /\ (t \notin l /\ ds[t].exists => ds[t].touched = {})

DashInv ==
    /\ DashTypes /\ SaversOK
    /\ \A t \in Tpls : Paid(t)
    /\ \A p \in Syncers : KeptBy(sync[p], dash, late)

-----------------------------------------------------------------------------
(* Records.                                                                *)

\* The first of a list and the others.
LEMMA HeadTail ==
    ASSUME NEW S, NEW s \in Seq(S), s # << >>
    PROVE  /\ Len(s) \in Nat /\ Len(s) >= 1 /\ Head(s) = s[1] /\ Head(s) \in S
           /\ Tail(s) \in Seq(S) /\ Len(Tail(s)) = Len(s) - 1
           /\ \A i \in 1..(Len(s) - 1) : Tail(s)[i] = s[i + 1] /\ i + 1 \in 1..Len(s)
<1>1. Len(s) \in Nat /\ Len(s) # 0
  BY EmptySeq, LenProperties
<1>2. /\ Head(s) \in S /\ Tail(s) \in Seq(S) /\ Len(Tail(s)) = Len(s) - 1
      /\ \A i \in 1..Len(Tail(s)) : Tail(s)[i] = s[i + 1]
  BY HeadTailProperties
<1> QED
  BY <1>1, <1>2

\* What a saver has read.
LEMMA SaverFields ==
    ASSUME NEW r \in SyncRecs
    PROVE  /\ r.pc \in {"idle", "read", "check", "delete"} \cup Saving /\ r.job \in BOOLEAN
           /\ r.todo \in Seq(Tpls) /\ r.metrics \in SUBSET Metrics
           /\ r.old \in [Tpls -> Dashes] /\ r.parts \in SUBSET Parts
BY DEF SyncRecs

\* A saver goes on with the same template.
LEMMA MoveTo ==
    ASSUME NEW r \in SyncRecs, NEW pc \in {"idle", "read", "check", "delete"} \cup Saving
    PROVE  LET q == [r EXCEPT !.pc = pc]
           IN  q \in SyncRecs /\ q.pc = pc /\ q.todo = r.todo /\ q.old = r.old /\ q.metrics = r.metrics
BY DEF SyncRecs

\* The dashboards.
LEMMA DashFields ==
    /\ NoDash \in Dashes /\ ~NoDash.exists
    /\ \A d \in Dashes : d.exists \in BOOLEAN /\ (d.exists => d \in Made)
    /\ \A d \in Made : /\ d \in Dashes /\ d.exists /\ d.updated \in BOOLEAN
                       /\ d.touched \in SUBSET Parts /\ d.parts \in SUBSET Parts
<1>1. NoDash.exists = FALSE
  BY DEF NoDash
<1>2. \A d \in Made : /\ d.exists = TRUE /\ d.updated \in BOOLEAN
                      /\ d.touched \in SUBSET Parts /\ d.parts \in SUBSET Parts
  BY DEF Made, DashRecs
<1> QED
  BY <1>1, <1>2 DEF Dashes

\* A dashboard as it is inserted.
LEMMA NewDashMade ==
    ASSUME NEW name \in {"template", "user"}, NEW own \in SUBSET Unmarked
    PROVE  /\ NewDash(name, own) \in Made /\ NewDash(name, own).name = name
           /\ ~NewDash(name, own).updated /\ NewDash(name, own).touched = {}
BY DEF NewDash, Made, DashRecs, Told, Unmarked

\* Nothing is kept by a saver without a list.
LEMMA IdleSaver == Idle \in SyncRecs /\ SaverOK(Idle) /\ Idle.todo = << >> /\ Idle.pc = "idle"
                   /\ \A ds, l : KeptBy(Idle, ds, l)
<1>1. [t \in Tpls |-> NoDash] \in [Tpls -> Dashes]
  BY DashFields
<1>2. << >> \in Seq(Tpls) /\ Len(<< >>) = 0
  BY EmptySeq
<1>3. Idle \in SyncRecs /\ Idle.todo = << >> /\ Idle.pc = "idle"
  BY <1>1, <1>2 DEF Idle, SyncRecs
<1> QED
  BY <1>2, <1>3 DEF SaverOK, KeptBy

-----------------------------------------------------------------------------
(* One saver moves.                                                        *)

\* A server moves while all others are idle.
LEMMA SyncerMoves ==
    ASSUME DashTypes, NEW p \in Syncers, \A q \in Syncers : q # p => sync[q] = Idle,
           NEW r \in SyncRecs, sync' = [sync EXCEPT ![p] = r]
    PROVE  /\ sync' \in [Savers -> SyncRecs] /\ sync'[p] = r /\ sync'[User] = sync[User]
           /\ \A q \in Savers : q # p => sync'[q] = sync[q]
           /\ \A t \in Tpls : /\ First(t) <=> FirstBy(sync[p], t)
                              /\ Again(t) <=> AgainBy(sync[p], t)
                              /\ First(t)' <=> FirstBy(r, t)
                              /\ Again(t)' <=> AgainBy(r, t)
                              /\ Yaml(t)' <=> Yaml(t)
<1>1. /\ sync \in [Savers -> SyncRecs] /\ p \in Savers /\ User \in Savers /\ User # p
      /\ Syncers \subseteq Savers
  BY SaversAssumption DEF DashTypes, Savers
<1>2. /\ sync' \in [Savers -> SyncRecs] /\ sync'[p] = r /\ sync'[User] = sync[User]
      /\ \A q \in Savers : q # p => sync'[q] = sync[q]
  BY <1>1
<1>3. \A q \in Syncers, t \in Tpls : q # p =>
        ~FirstBy(sync[q], t) /\ ~AgainBy(sync[q], t) /\ ~FirstBy(sync'[q], t) /\ ~AgainBy(sync'[q], t)
  BY <1>1, <1>2, IdleSaver DEF FirstBy, AgainBy, At
<1> QED
  BY <1>2, <1>3 DEF First, Again, Yaml

\* A user's request moves.
LEMMA UserMoves ==
    ASSUME DashTypes, NEW r \in SyncRecs, sync' = [sync EXCEPT ![User] = r]
    PROVE  /\ sync' \in [Savers -> SyncRecs] /\ sync'[User] = r
           /\ \A q \in Syncers : sync'[q] = sync[q]
           /\ \A t \in Tpls : /\ First(t)' <=> First(t)
                              /\ Again(t)' <=> Again(t)
                              /\ Yaml(t)' <=> YamlBy(r, t)
<1>1. /\ sync \in [Savers -> SyncRecs] /\ User \in Savers /\ User \notin Syncers
      /\ Syncers \subseteq Savers
  BY SaversAssumption DEF DashTypes, Savers
<1>2. /\ sync' \in [Savers -> SyncRecs] /\ sync'[User] = r /\ \A q \in Syncers : sync'[q] = sync[q]
  BY <1>1
<1> QED
  BY <1>2 DEF First, Again, Yaml

\* The invariant after a server has moved.
LEMMA SyncerDone ==
    ASSUME DashInv, NEW p \in Syncers, \A q \in Syncers : q # p => sync[q] = Idle,
           NEW r \in SyncRecs, sync' = [sync EXCEPT ![p] = r], SaverOK(r),
           syncLock' \in {p, Free}, r.pc # "idle" => syncLock' = p,
           metrics' \subseteq Metrics, dash' \in [Tpls -> Dashes],
           monitors' \in [Tpls -> Nat], gaps' \in [Tpls -> Nat],
           KeptBy(r, dash', late'),
           \A t \in Tpls : monitors'[t] + One(FirstBy(r, t)) + One(Yaml(t))
                               <= gaps'[t] + One(dash'[t].exists \/ AgainBy(r, t))
    PROVE  DashInv'
<1>1. /\ sync' \in [Savers -> SyncRecs] /\ sync'[p] = r /\ sync'[User] = sync[User]
      /\ \A q \in Savers : q # p => sync'[q] = sync[q]
      /\ \A t \in Tpls : /\ First(t)' <=> FirstBy(r, t)
                         /\ Again(t)' <=> AgainBy(r, t)
                         /\ Yaml(t)' <=> Yaml(t)
  BY SyncerMoves DEF DashInv
<1>2. DashTypes'
  BY <1>1 DEF DashTypes
<1>3. SaversOK'
  <2>1. \A q \in Savers : SaverOK(sync'[q])
    BY <1>1 DEF DashInv, SaversOK
  <2>2. \A q \in Syncers : sync'[q].pc # "idle" => syncLock' = q
    BY <1>1, IdleSaver DEF Savers
  <2>3. sync'[User].pc # "idle" =>
            /\ sync'[User].pc \in {"delete"} \cup Saving
            /\ Len(sync'[User].todo) = 1 /\ sync'[User].old[Head(sync'[User].todo)].exists
    BY <1>1 DEF DashInv, SaversOK, Old, Tpl
  <2> QED
    BY <2>1, <2>2, <2>3 DEF SaversOK, Old, Tpl
<1>4. \A t \in Tpls : Paid(t)'
  <2> SUFFICES ASSUME NEW t \in Tpls PROVE Paid(t)'
    OBVIOUS
  <2>1. /\ One(First(t))' = One(FirstBy(r, t)) /\ One(Yaml(t))' = One(Yaml(t))
        /\ One(dash[t].exists \/ Again(t))' = One(dash'[t].exists \/ AgainBy(r, t))
    BY <1>1 DEF One
  <2> QED
    BY <2>1 DEF Paid
<1>5. \A q \in Syncers : KeptBy(sync'[q], dash', late')
  BY <1>1, IdleSaver DEF Savers
<1> QED
  BY <1>2, <1>3, <1>4, <1>5 DEF DashInv

\* The invariant after a user's request has moved.
LEMMA UserDone ==
    ASSUME DashInv, NEW r \in SyncRecs, sync' = [sync EXCEPT ![User] = r], SaverOK(r),
           r.pc # "idle" => /\ r.pc \in {"delete"} \cup Saving
                            /\ Len(r.todo) = 1 /\ r.old[Head(r.todo)].exists,
           syncLock' = syncLock, metrics' \subseteq Metrics, dash' \in [Tpls -> Dashes],
           monitors' \in [Tpls -> Nat], gaps' \in [Tpls -> Nat],
           \A q \in Syncers : KeptBy(sync[q], dash', late'),
           \A t \in Tpls : monitors'[t] + One(First(t)) + One(YamlBy(r, t))
                               <= gaps'[t] + One(dash'[t].exists \/ Again(t))
    PROVE  DashInv'
<1>1. /\ sync' \in [Savers -> SyncRecs] /\ sync'[User] = r
      /\ \A q \in Syncers : sync'[q] = sync[q]
      /\ \A t \in Tpls : /\ First(t)' <=> First(t)
                         /\ Again(t)' <=> Again(t)
                         /\ Yaml(t)' <=> YamlBy(r, t)
  BY UserMoves DEF DashInv
<1>2. DashTypes'
  BY <1>1 DEF DashTypes, DashInv
<1>3. SaversOK'
  BY <1>1 DEF DashInv, SaversOK, Old, Tpl, Savers
<1>4. \A t \in Tpls : Paid(t)'
  <2> SUFFICES ASSUME NEW t \in Tpls PROVE Paid(t)'
    OBVIOUS
  <2>1. /\ One(First(t))' = One(First(t)) /\ One(Yaml(t))' = One(YamlBy(r, t))
        /\ One(dash[t].exists \/ Again(t))' = One(dash'[t].exists \/ Again(t))
    BY <1>1 DEF One
  <2> QED
    BY <2>1 DEF Paid
<1>5. \A q \in Syncers : KeptBy(sync'[q], dash', late')
  BY <1>1
<1> QED
  BY <1>2, <1>3, <1>4, <1>5 DEF DashInv

\* The invariant after a step in which no saver moves.
LEMMA NobodyMoves ==
    ASSUME DashInv, sync' = sync, syncLock' = syncLock,
           metrics' \subseteq Metrics, dash' \in [Tpls -> Dashes],
           monitors' \in [Tpls -> Nat], gaps' \in [Tpls -> Nat],
           \A q \in Syncers : KeptBy(sync[q], dash', late'),
           \A t \in Tpls : monitors'[t] + One(First(t)) + One(Yaml(t))
                               <= gaps'[t] + One(dash'[t].exists \/ Again(t))
    PROVE  DashInv'
<1>1. DashTypes' /\ SaversOK'
  BY DEF DashInv, DashTypes, SaversOK, Old, Tpl
<1>2. \A t \in Tpls : /\ First(t)' <=> First(t)
                      /\ Again(t)' <=> Again(t)
                      /\ Yaml(t)' <=> Yaml(t)
  BY DEF First, Again, Yaml
<1>3. \A t \in Tpls : Paid(t)'
  <2> SUFFICES ASSUME NEW t \in Tpls PROVE Paid(t)'
    OBVIOUS
  <2>1. /\ One(First(t))' = One(First(t)) /\ One(Yaml(t))' = One(Yaml(t))
        /\ One(dash[t].exists \/ Again(t))' = One(dash'[t].exists \/ Again(t))
    BY <1>2 DEF One
  <2> QED
    BY <2>1 DEF Paid
<1> QED
  BY <1>1, <1>3 DEF DashInv

\* One saver is busy and has the lock, all others are idle.
LEMMA Alone ==
    ASSUME DashInv, NEW p \in Syncers, sync[p].pc # "idle"
    PROVE  syncLock = p /\ \A q \in Syncers : q # p => sync[q] = Idle
BY DEF DashInv, SaversOK, SaverOK, Savers

\* What a busy saver has at hand.
LEMMA AtHand ==
    ASSUME DashInv, NEW p \in Savers, sync[p].pc \notin {"idle", "read"}
    PROVE  /\ sync[p] \in SyncRecs /\ SaverOK(sync[p]) /\ sync[p].todo # << >>
           /\ sync[p].todo \in Seq(Tpls) /\ Tpl(p) = sync[p].todo[1] /\ Tpl(p) = Head(sync[p].todo)
           /\ Tpl(p) \in Tpls /\ Len(sync[p].todo) \in Nat /\ Len(sync[p].todo) >= 1
           /\ Old(p) = sync[p].old[Tpl(p)] /\ Old(p) \in Dashes
           /\ \A i \in 2..Len(sync[p].todo) : sync[p].todo[i] \in Tpls /\ sync[p].todo[i] # Tpl(p)
           /\ \A t \in Tpls : At(sync[p], t) <=> t = Tpl(p)
<1>1. sync[p] \in SyncRecs /\ SaverOK(sync[p]) /\ sync[p].todo # << >>
  BY DEF DashInv, DashTypes, SaversOK, SaverOK
<1>2. sync[p].todo \in Seq(Tpls) /\ sync[p].old \in [Tpls -> Dashes]
  BY <1>1, SaverFields
<1>3. /\ Len(sync[p].todo) \in Nat /\ Len(sync[p].todo) >= 1
      /\ Head(sync[p].todo) = sync[p].todo[1] /\ Head(sync[p].todo) \in Tpls
  BY <1>1, <1>2, HeadTail
<1>4. Tpl(p) = Head(sync[p].todo) /\ Old(p) = sync[p].old[Tpl(p)] /\ Old(p) \in Dashes
  BY <1>2, <1>3 DEF Tpl, Old
<1>5. \A i \in 2..Len(sync[p].todo) : sync[p].todo[i] \in Tpls /\ sync[p].todo[i] # sync[p].todo[1]
  <2> SUFFICES ASSUME NEW i \in 2..Len(sync[p].todo)
               PROVE  sync[p].todo[i] \in Tpls /\ sync[p].todo[i] # sync[p].todo[1]
    OBVIOUS
  <2>1. i \in 1..Len(sync[p].todo) /\ 1 \in 1..Len(sync[p].todo) /\ i # 1
    BY <1>3
  <2> QED
    BY <1>1, <1>2, <2>1, ElementOfSeq DEF SaverOK
<1> QED
  BY <1>1, <1>2, <1>3, <1>4, <1>5 DEF At

\* What was read is still kept after dashboards have changed in a way that the
\* server would see, or that counts as late.
LEMMA KeptLater ==
    ASSUME NEW r, NEW ds, NEW ds2, NEW l, NEW l2, KeptBy(r, ds, l), l \subseteq l2,
           r.todo # << >> => 1 \in 1..Len(r.todo) /\ Head(r.todo) = r.todo[1],
           r.pc = "delete" => r.todo # << >>,
           \A i \in 1..Len(r.todo) :
               LET t == r.todo[i]
               IN  t \notin l2 => \/ ds2[t] = ds[t]
                                  \/ ~ds2[t].exists
                                  \/ /\ ds[t].exists /\ ds2[t].updated = ds[t].updated
                                     /\ ds2[t].name = ds[t].name
                                     /\ r.pc = "delete" /\ i = 1 => ds2[t].touched = ds[t].touched
    PROVE  KeptBy(r, ds2, l2)
<1>1. ASSUME NEW i \in 1..Len(r.todo), r.todo[i] \notin l2, i > 1 \/ r.pc \in {"check", "delete"}
      PROVE  Same(r.old[r.todo[i]], ds2[r.todo[i]])
  BY <1>1 DEF KeptBy, Same
<1>2. ASSUME r.pc = "delete"
      PROVE  LET t == Head(r.todo)
             IN  ~r.old[t].updated /\ (t \notin l2 /\ ds2[t].exists => ds2[t].touched = {})
  BY <1>2 DEF KeptBy
<1> QED
  BY <1>1, <1>2 DEF KeptBy

-----------------------------------------------------------------------------
(* Servers.                                                                *)

\* The parts of the invariant that are about numbers.
LEMMA Payments ==
    ASSUME DashInv
    PROVE  \A t \in Tpls : /\ monitors[t] \in Nat /\ gaps[t] \in Nat
                           /\ monitors[t] + One(First(t)) + One(Yaml(t))
                                <= gaps[t] + One(dash[t].exists \/ Again(t))
BY DEF DashInv, DashTypes, Paid

\* What a busy server adds to the numbers.
LEMMA BusyPayments ==
    ASSUME DashInv, NEW p \in Syncers, \A q \in Syncers : q # p => sync[q] = Idle
    PROVE  \A t \in Tpls : /\ monitors[t] \in Nat /\ gaps[t] \in Nat /\ dash[t].exists \in BOOLEAN
                           /\ monitors[t] + One(FirstBy(sync[p], t)) + One(Yaml(t))
                                <= gaps[t] + One(dash[t].exists \/ AgainBy(sync[p], t))
<1>1. sync[p] \in SyncRecs /\ sync \in [Savers -> SyncRecs] /\ p \in Savers
  BY DEF DashInv, DashTypes, Savers
<1> DEFINE same == [sync EXCEPT ![p] = sync[p]]
<1>2. \A t \in Tpls : (First(t) <=> FirstBy(sync[p], t)) /\ (Again(t) <=> AgainBy(sync[p], t))
  <2>1. \A q \in Syncers, t \in Tpls : q # p => ~FirstBy(sync[q], t) /\ ~AgainBy(sync[q], t)
    BY IdleSaver DEF FirstBy, AgainBy, At
  <2> QED
    BY <2>1 DEF First, Again
<1>3. \A t \in Tpls : /\ One(First(t)) = One(FirstBy(sync[p], t))
                      /\ One(dash[t].exists \/ Again(t)) = One(dash[t].exists \/ AgainBy(sync[p], t))
  BY <1>2 DEF One
<1>4. \A t \in Tpls : dash[t].exists \in BOOLEAN
  BY DashFields DEF DashInv, DashTypes
<1> QED
  BY <1>3, <1>4, Payments

\* A server that ends its sync, or is cut off, leaves no trace but in the gaps.
LEMMA SyncerEnds ==
    ASSUME DashInv, NEW p \in Syncers, \A q \in Syncers : q # p => sync[q] = Idle, syncLock = p,
           Ends(p), metrics' = metrics, dash' = dash, monitors' = monitors,
           gaps' \in [Tpls -> Nat],
           \A t \in Tpls : gaps'[t] = gaps[t] \/ gaps'[t] = gaps[t] + 1,
           \A t \in Tpls : AgainBy(sync[p], t) => gaps'[t] = gaps[t] + 1
    PROVE  DashInv'
<1>1. sync' = [sync EXCEPT ![p] = Idle] /\ syncLock' = Free
  BY DEF Ends
<1>2. \A t \in Tpls : ~FirstBy(Idle, t) /\ ~AgainBy(Idle, t)
  BY IdleSaver DEF FirstBy, AgainBy, At
<1>3. ASSUME NEW t \in Tpls
      PROVE  monitors'[t] + One(FirstBy(Idle, t)) + One(Yaml(t))
                <= gaps'[t] + One(dash'[t].exists \/ AgainBy(Idle, t))
  <2>1. /\ monitors[t] \in Nat /\ gaps[t] \in Nat /\ dash[t].exists \in BOOLEAN
        /\ monitors[t] + One(FirstBy(sync[p], t)) + One(Yaml(t))
                <= gaps[t] + One(dash[t].exists \/ AgainBy(sync[p], t))
    BY BusyPayments
  <2> QED
    BY <1>2, <2>1 DEF One
<1>4. /\ metrics' \subseteq Metrics /\ dash' \in [Tpls -> Dashes] /\ monitors' \in [Tpls -> Nat]
  BY DEF DashInv, DashTypes
<1> QED
  BY <1>1, <1>3, <1>4, IdleSaver, SyncerDone

\* A server goes on to the next template, or ends.
LEMMA SyncerSkips ==
    ASSUME DashInv, NEW p \in Syncers, sync[p].pc \notin {"idle", "read"}, Skips(p)
    PROVE  \E r \in SyncRecs :
            /\ sync' = [sync EXCEPT ![p] = r] /\ SaverOK(r) /\ syncLock' \in {p, Free}
            /\ r.pc # "idle" => syncLock' = p
            /\ \A t \in Tpls : ~FirstBy(r, t) /\ ~AgainBy(r, t)
            /\ KeptBy(r, dash, late)
<1>1. syncLock = p /\ p \in Savers
  BY Alone DEF Savers
<1> DEFINE old == sync[p]
           r == [old EXCEPT !.todo = Tail(old.todo), !.pc = "check"]
<1>2. CASE Len(old.todo) = 1
  <2>1. sync' = [sync EXCEPT ![p] = Idle] /\ syncLock' = Free
    BY <1>1, <1>2 DEF Skips, Ends
  <2>2. \A t \in Tpls : ~FirstBy(Idle, t) /\ ~AgainBy(Idle, t)
    BY IdleSaver DEF FirstBy, AgainBy, At
  <2> QED
    BY <2>1, <2>2, IdleSaver
<1>3. CASE Len(old.todo) # 1
  <2>1. /\ old \in SyncRecs /\ SaverOK(old) /\ old.todo # << >> /\ old.todo \in Seq(Tpls)
        /\ Len(old.todo) \in Nat /\ Len(old.todo) >= 1
    BY <1>1, AtHand
  <2>2. /\ Tail(old.todo) \in Seq(Tpls) /\ Len(Tail(old.todo)) = Len(old.todo) - 1
        /\ \A i \in 1..(Len(old.todo) - 1) :
              Tail(old.todo)[i] = old.todo[i + 1] /\ i + 1 \in 1..Len(old.todo)
    BY <2>1, HeadTail
  <2>3. Tail(old.todo) # << >>
    <3>1. Len(Tail(old.todo)) # 0
      BY <1>3, <2>1, <2>2
    <3> QED
      BY <3>1, EmptySeq
  <2>4. r \in SyncRecs /\ r.pc = "check" /\ r.todo = Tail(old.todo) /\ r.old = old.old
    BY <2>1, <2>2 DEF SyncRecs
  <2>5. sync' = [sync EXCEPT ![p] = r] /\ syncLock' = p
    BY <1>1, <1>3 DEF Skips
  <2> HIDE DEF r
  <2>6. SaverOK(r)
    <3>1. ASSUME NEW i \in 1..Len(r.todo), NEW j \in 1..Len(r.todo), r.todo[i] = r.todo[j]
          PROVE  i = j
      <4>1. /\ i + 1 \in 1..Len(old.todo) /\ j + 1 \in 1..Len(old.todo)
            /\ old.todo[i + 1] = old.todo[j + 1]
        BY <2>1, <2>2, <2>4, <3>1
      <4>2. i + 1 = j + 1
        BY <2>1, <4>1 DEF SaverOK
      <4> QED
        BY <4>2
    <3> QED
      BY <2>3, <2>4, <3>1 DEF SaverOK
  <2>7. KeptBy(r, dash, late)
    <3>1. KeptBy(old, dash, late)
      BY DEF DashInv
    <3> SUFFICES ASSUME NEW i \in 1..Len(r.todo), r.todo[i] \notin late
                 PROVE  Same(r.old[r.todo[i]], dash[r.todo[i]])
      BY <2>4 DEF KeptBy
    <3>2. i + 1 \in 1..Len(old.todo) /\ old.todo[i + 1] = r.todo[i] /\ i + 1 > 1
      BY <2>1, <2>2, <2>4
    <3> QED
      BY <2>4, <3>1, <3>2 DEF KeptBy
  <2>8. \A t \in Tpls : ~FirstBy(r, t) /\ ~AgainBy(r, t)
    BY <2>4 DEF FirstBy, AgainBy
  <2> QED
    BY <2>4, <2>5, <2>6, <2>7, <2>8
<1> QED
  BY <1>2, <1>3

\* A server begins.
LEMMA BeginStep == ASSUME DashInv, NEW p \in Syncers, NEW job \in BOOLEAN, SyncBegin(p, job)
                   PROVE  DashInv'
<1>1. /\ metrics' = metrics /\ dash' = dash /\ monitors' = monitors /\ late' = late /\ gaps' = gaps
      /\ sync[p] = Idle /\ p \in Savers /\ DashTypes
  BY DEF SyncBegin, DashInv, Savers
<1>2. /\ metrics' \subseteq Metrics /\ dash' \in [Tpls -> Dashes]
      /\ monitors' \in [Tpls -> Nat] /\ gaps' \in [Tpls -> Nat]
  BY <1>1 DEF DashTypes
<1>3. CASE syncLock # Free
  <2>1. sync' = sync /\ syncLock' = syncLock
    BY <1>3 DEF SyncBegin
  <2> QED
    BY <1>1, <1>2, <2>1, NobodyMoves, Payments DEF DashInv
<1>4. CASE syncLock = Free
  <2> DEFINE r == [Idle EXCEPT !.pc = "read", !.job = job]
  <2>1. sync' = [sync EXCEPT ![p] = r] /\ syncLock' = p
    BY <1>1, <1>4 DEF SyncBegin
  <2>2. r \in SyncRecs /\ r.pc = "read" /\ r.todo = << >>
    BY IdleSaver DEF SyncRecs
  <2>3. \A q \in Syncers : sync[q] = Idle
    BY <1>4, SaversAssumption DEF DashInv, SaversOK, SaverOK, Savers
  <2> HIDE DEF r
  <2>4. SaverOK(r) /\ KeptBy(r, dash', late')
    <3>1. Len(r.todo) = 0
      BY <2>2, EmptySeq
    <3> QED
      BY <2>2, <3>1 DEF SaverOK, KeptBy
  <2>5. \A t \in Tpls : /\ ~FirstBy(r, t) /\ ~AgainBy(r, t)
                        /\ ~FirstBy(sync[p], t) /\ ~AgainBy(sync[p], t)
    BY <1>1, <2>2, IdleSaver DEF FirstBy, AgainBy, At
  <2>6. \A t \in Tpls : monitors'[t] + One(FirstBy(r, t)) + One(Yaml(t))
                               <= gaps'[t] + One(dash'[t].exists \/ AgainBy(r, t))
    BY <1>1, <2>3, <2>5, BusyPayments DEF One
  <2> QED
    BY <1>2, <2>1, <2>2, <2>3, <2>4, <2>6, SyncerDone
<1> QED
  BY <1>3, <1>4

\* A server reads the metrics and the dashboards.
LEMMA ReadStep == ASSUME DashInv, NEW p \in Syncers, SyncRead(p) PROVE DashInv'
<1>1. /\ sync[p].pc = "read" /\ syncLock' = syncLock
      /\ metrics' = metrics /\ dash' = dash /\ monitors' = monitors /\ late' = late /\ gaps' = gaps
      /\ p \in Savers /\ DashTypes
  BY DEF SyncRead, DashInv, Savers
<1>2. syncLock = p /\ \A q \in Syncers : q # p => sync[q] = Idle
  BY <1>1, Alone
<1> DEFINE old == sync[p]
           todo == [i \in DOMAIN Templates |-> i]
           r == [old EXCEPT !.pc = "check", !.todo = todo, !.metrics = metrics, !.old = dash]
<1>3. /\ todo \in Seq(Tpls) /\ Len(todo) = Len(Templates) /\ todo # << >>
      /\ \A i \in 1..Len(Templates) : todo[i] = i
  <2>1. DOMAIN Templates = 1..Len(Templates) /\ Len(Templates) \in Nat /\ Len(Templates) # 0
    BY TemplatesAssumption DEF Tpls
  <2>2. todo \in [1..Len(Templates) -> Tpls]
    BY <2>1, TemplatesAssumption
  <2>3. todo \in Seq(Tpls) /\ Len(todo) = Len(Templates)
    BY <2>1, <2>2, SeqDef, LenProperties
  <2> QED
    BY <2>1, <2>2, <2>3, EmptySeq
<1> HIDE DEF todo
<1>4. old \in SyncRecs /\ metrics \in SUBSET Metrics /\ dash \in [Tpls -> Dashes]
  BY <1>1 DEF DashTypes
<1>5. r \in SyncRecs /\ r.pc = "check" /\ r.todo = todo /\ r.old = dash
  BY <1>3, <1>4 DEF SyncRecs
<1>6. sync' = [sync EXCEPT ![p] = r]
  BY DEF SyncRead, todo
<1> HIDE DEF r
<1>7. SaverOK(r)
  BY <1>3, <1>5 DEF SaverOK
<1>8. KeptBy(r, dash', late')
  BY <1>1, <1>5 DEF KeptBy, Same
<1>9. \A t \in Tpls : /\ ~FirstBy(r, t) /\ ~AgainBy(r, t)
                      /\ ~FirstBy(old, t) /\ ~AgainBy(old, t)
  BY <1>1, <1>5 DEF FirstBy, AgainBy
<1>10. \A t \in Tpls : monitors'[t] + One(FirstBy(r, t)) + One(Yaml(t))
                               <= gaps'[t] + One(dash'[t].exists \/ AgainBy(r, t))
  BY <1>1, <1>2, <1>9, BusyPayments DEF One
<1>11. /\ metrics' \subseteq Metrics /\ dash' \in [Tpls -> Dashes]
       /\ monitors' \in [Tpls -> Nat] /\ gaps' \in [Tpls -> Nat]
  BY <1>1 DEF DashTypes
<1> QED
  BY <1>1, <1>2, <1>5, <1>6, <1>7, <1>8, <1>10, <1>11, SyncerDone

\* A server looks at a dashboard.
LEMMA CheckStep == ASSUME DashInv, NEW p \in Syncers, SyncCheck(p) PROVE DashInv'
<1>1. /\ sync[p].pc = "check"
      /\ metrics' = metrics /\ dash' = dash /\ monitors' = monitors /\ late' = late /\ gaps' = gaps
      /\ p \in Savers /\ DashTypes
  BY DEF SyncCheck, DashInv, Savers
<1>2. syncLock = p /\ \A q \in Syncers : q # p => sync[q] = Idle
  BY <1>1, Alone
<1> DEFINE old == sync[p]
           t == Tpl(p)
           pc == IF Old(p).exists THEN "delete" ELSE "insert"
           r == [old EXCEPT !.pc = pc, !.parts = PartsWith(t, old.metrics)]
<1>3. /\ metrics' \subseteq Metrics /\ dash' \in [Tpls -> Dashes]
      /\ monitors' \in [Tpls -> Nat] /\ gaps' \in [Tpls -> Nat]
  BY <1>1 DEF DashTypes
<1>4. \A u \in Tpls : ~FirstBy(old, u) /\ ~AgainBy(old, u)
  BY <1>1 DEF FirstBy, AgainBy
<1>5. CASE Skips(p)
  <2>1. PICK q \in SyncRecs :
            /\ sync' = [sync EXCEPT ![p] = q] /\ SaverOK(q) /\ syncLock' \in {p, Free}
            /\ q.pc # "idle" => syncLock' = p
            /\ \A u \in Tpls : ~FirstBy(q, u) /\ ~AgainBy(q, u)
            /\ KeptBy(q, dash, late)
    BY <1>1, <1>5, SyncerSkips
  <2>2. \A u \in Tpls : monitors'[u] + One(FirstBy(q, u)) + One(Yaml(u))
                               <= gaps'[u] + One(dash'[u].exists \/ AgainBy(q, u))
    BY <1>1, <1>2, <1>4, <2>1, BusyPayments DEF One
  <2> QED
    BY <1>1, <1>2, <1>3, <2>1, <2>2, SyncerDone
<1>6. CASE ~Skips(p)
  <2>1. /\ sync' = [sync EXCEPT ![p] = r] /\ syncLock' = p
        /\ ~(Old(p).exists /\ isDashChanged(Old(p), dash[t]))
    BY <1>1, <1>2, <1>6 DEF SyncCheck
  <2>2. /\ old \in SyncRecs /\ SaverOK(old) /\ old.todo # << >> /\ t \in Tpls
        /\ t = old.todo[1] /\ t = Head(old.todo) /\ Old(p) = old.old[t] /\ Old(p) \in Dashes
        /\ \A i \in 2..Len(old.todo) : old.todo[i] \in Tpls
        /\ \A u \in Tpls : At(old, u) <=> u = t
    BY <1>1, AtHand
  <2>3. PartsWith(t, old.metrics) \in SUBSET Parts
    BY <2>2 DEF PartsWith, Parts
  <2>4. /\ r \in SyncRecs /\ r.pc = pc /\ r.todo = old.todo /\ r.old = old.old
    BY <2>2, <2>3 DEF SyncRecs, Saving
  <2> HIDE DEF r, t
  <2>5. SaverOK(r)
    BY <2>2, <2>4 DEF SaverOK
  <2>6. KeptBy(r, dash', late')
    <3>1. KeptBy(old, dash, late)
      BY DEF DashInv
    <3>2. Old(p).exists => ~Old(p).updated /\ ~(dash[t].exists /\ dash[t].touched # {})
      BY <2>1 DEF isDashChanged
    <3> QED
      BY <1>1, <2>2, <2>4, <3>1, <3>2 DEF KeptBy
  <2>7. \A u \in Tpls : ~FirstBy(r, u) /\ ~AgainBy(r, u)
    BY <2>2, <2>4 DEF FirstBy, AgainBy, At
  <2>8. \A u \in Tpls : monitors'[u] + One(FirstBy(r, u)) + One(Yaml(u))
                               <= gaps'[u] + One(dash'[u].exists \/ AgainBy(r, u))
    BY <1>1, <1>2, <1>4, <2>7, BusyPayments DEF One
  <2> QED
    BY <1>1, <1>2, <1>3, <2>1, <2>4, <2>5, <2>6, <2>8, SyncerDone
<1> QED
  BY <1>5, <1>6

\* A server deletes a dashboard, to insert it again.
LEMMA DeleteStep == ASSUME DashInv, NEW p \in Syncers, SaveDelete(p) PROVE DashInv'
<1> DEFINE old == sync[p]
           t == Tpl(p)
           r == [old EXCEPT !.pc = "insert"]
<1>1. /\ old.pc = "delete" /\ syncLock' = syncLock /\ p \in Savers /\ DashTypes
      /\ metrics' = metrics /\ monitors' = monitors /\ late' = late /\ gaps' = gaps
      /\ dash' = [dash EXCEPT ![t] = NoDash] /\ sync' = [sync EXCEPT ![p] = r]
  BY DEF SaveDelete, DashInv, Savers
<1>2. syncLock = p /\ \A q \in Syncers : q # p => sync[q] = Idle
  BY <1>1, Alone
<1>3. /\ old \in SyncRecs /\ SaverOK(old) /\ old.todo # << >> /\ t \in Tpls
      /\ t = Head(old.todo) /\ Old(p) = old.old[t] /\ Old(p).exists
      /\ \A i \in 2..Len(old.todo) : old.todo[i] \in Tpls /\ old.todo[i] # t
      /\ Len(old.todo) \in Nat
      /\ \A u \in Tpls : At(old, u) <=> u = t
  BY <1>1, AtHand DEF SaverOK
<1>4. r \in SyncRecs /\ r.pc = "insert" /\ r.todo = old.todo /\ r.old = old.old
  BY <1>3, MoveTo DEF Saving
<1> HIDE DEF r, t
<1>5. /\ dash' \in [Tpls -> Dashes] /\ ~dash'[t].exists
      /\ \A u \in Tpls : u # t => dash'[u] = dash[u]
  BY <1>1, <1>3, DashFields DEF DashTypes
<1>6. SaverOK(r)
  BY <1>3, <1>4 DEF SaverOK
<1>7. KeptBy(r, dash', late')
  <2>1. KeptBy(old, dash, late)
    BY DEF DashInv
  <2>2. \A i \in 1..Len(old.todo) : i > 1 => i \in 2..Len(old.todo)
    BY <1>3
  <2> QED
    BY <1>1, <1>3, <1>4, <1>5, <2>1, <2>2 DEF KeptBy
<1>8. \A u \in Tpls : /\ ~FirstBy(r, u) /\ (AgainBy(r, u) <=> u = t)
                      /\ ~FirstBy(old, u) /\ ~AgainBy(old, u)
  BY <1>1, <1>3, <1>4 DEF FirstBy, AgainBy, At
<1>9. ASSUME NEW u \in Tpls
      PROVE  monitors'[u] + One(FirstBy(r, u)) + One(Yaml(u))
                               <= gaps'[u] + One(dash'[u].exists \/ AgainBy(r, u))
  <2>1. /\ monitors[u] \in Nat /\ gaps[u] \in Nat /\ dash[u].exists \in BOOLEAN
        /\ monitors[u] + One(FirstBy(old, u)) + One(Yaml(u))
                <= gaps[u] + One(dash[u].exists \/ AgainBy(old, u))
    BY <1>2, BusyPayments
  <2>2. CASE u = t
    BY <1>1, <1>8, <2>1, <2>2 DEF One
  <2>3. CASE u # t
    BY <1>1, <1>5, <1>8, <2>1, <2>3 DEF One
  <2> QED
    BY <2>2, <2>3
<1>10. metrics' \subseteq Metrics /\ monitors' \in [Tpls -> Nat] /\ gaps' \in [Tpls -> Nat]
  BY <1>1 DEF DashTypes
<1> QED
  BY <1>1, <1>2, <1>4, <1>5, <1>6, <1>7, <1>9, <1>10, SyncerDone

\* What a server has still to look at is not the dashboard that it saves.
LEMMA SavingKeeps ==
    ASSUME DashInv, NEW p \in Syncers, sync[p].pc \in Saving, NEW r \in SyncRecs,
           r.todo = sync[p].todo, r.old = sync[p].old, r.pc \in Saving,
           \A u \in Tpls : u # Tpl(p) => dash'[u] = dash[u], late' = late
    PROVE  SaverOK(r) /\ KeptBy(r, dash', late')
<1>1. /\ SaverOK(sync[p]) /\ sync[p].todo # << >> /\ Len(sync[p].todo) \in Nat
      /\ \A i \in 2..Len(sync[p].todo) : sync[p].todo[i] \in Tpls /\ sync[p].todo[i] # Tpl(p)
  BY AtHand DEF Saving, Savers
<1>2. KeptBy(sync[p], dash, late)
  BY DEF DashInv
<1>3. \A i \in 1..Len(r.todo) : i > 1 => i \in 2..Len(r.todo)
  BY <1>1
<1>4. r.pc \notin {"idle", "read", "check", "delete"}
  BY DEF Saving
<1> QED
  BY <1>1, <1>2, <1>3, <1>4 DEF SaverOK, KeptBy

\* A server inserts a dashboard.
LEMMA InsertStep == ASSUME DashInv, NEW p \in Syncers, SaveInsert(p) PROVE DashInv'
<1> DEFINE old == sync[p]
           t == Tpl(p)
           r == [old EXCEPT !.pc = "gauges"]
           name == IF Old(p).exists THEN Old(p).name ELSE "template"
<1>1. /\ old.pc = "insert" /\ p \in Savers /\ p # User /\ DashTypes
      /\ metrics' = metrics /\ monitors' = monitors /\ late' = late /\ gaps' = gaps
  BY SaversAssumption DEF SaveInsert, DashInv, Savers
<1>2. syncLock = p /\ \A q \in Syncers : q # p => sync[q] = Idle
  BY <1>1, Alone
<1>3. /\ old \in SyncRecs /\ t \in Tpls /\ Old(p) = old.old[t] /\ Old(p) \in Dashes
      /\ \A u \in Tpls : At(old, u) <=> u = t
  BY <1>1, AtHand
<1>4. r \in SyncRecs /\ r.pc = "gauges" /\ r.todo = old.todo /\ r.old = old.old
  BY <1>3, MoveTo DEF Saving
<1>5. /\ metrics' \subseteq Metrics /\ monitors' \in [Tpls -> Nat] /\ gaps' \in [Tpls -> Nat]
      /\ dash \in [Tpls -> Dashes]
  BY <1>1 DEF DashTypes
<1>6. name \in {"template", "user"} /\ Own(p) = {}
  BY <1>1, <1>3, DashFields DEF Made, DashRecs, Own
<1>7. CASE dash[t].exists /\ ~Old(p).exists
  <2>1. Ends(p) /\ dash' = dash
    BY <1>1, <1>7 DEF SaveInsert, SaveFails
  <2>2. \A u \in Tpls : ~AgainBy(old, u)
    BY <1>3, <1>7 DEF AgainBy
  <2> QED
    BY <1>1, <1>2, <1>5, <2>1, <2>2, SyncerEnds
<1>8. CASE ~(dash[t].exists /\ ~Old(p).exists)
  <2>1. /\ sync' = [sync EXCEPT ![p] = r] /\ syncLock' = syncLock
        /\ dash' = IF dash[t].exists THEN dash ELSE [dash EXCEPT ![t] = NewDash(name, {})]
    <3>1. CASE dash[t].exists
      BY <1>1, <1>8, <3>1 DEF SaveInsert
    <3>2. CASE ~dash[t].exists
      BY <1>1, <1>6, <3>2 DEF SaveInsert
    <3> QED
      BY <3>1, <3>2
  <2>2. NewDash(name, {}) \in Dashes /\ NewDash(name, {}).exists
    BY <1>6, NewDashMade, DashFields
  <2> HIDE DEF r, t, name
  <2>3. /\ dash' \in [Tpls -> Dashes] /\ dash'[t].exists
        /\ \A u \in Tpls : u # t => dash'[u] = dash[u]
    BY <1>3, <1>5, <2>1, <2>2
  <2>4. SaverOK(r) /\ KeptBy(r, dash', late')
    BY <1>1, <1>4, <2>3, SavingKeeps DEF Saving, t
  <2>5. \A u \in Tpls : /\ FirstBy(r, u) <=> u = t /\ ~Old(p).exists
                        /\ AgainBy(old, u) <=> u = t /\ Old(p).exists
                        /\ ~FirstBy(old, u) /\ ~AgainBy(r, u)
    BY <1>1, <1>3, <1>4 DEF FirstBy, AgainBy, At
  <2>6. ASSUME NEW u \in Tpls
        PROVE  monitors'[u] + One(FirstBy(r, u)) + One(Yaml(u))
                               <= gaps'[u] + One(dash'[u].exists \/ AgainBy(r, u))
    <3>1. /\ monitors[u] \in Nat /\ gaps[u] \in Nat /\ dash[u].exists \in BOOLEAN
          /\ monitors[u] + One(FirstBy(old, u)) + One(Yaml(u))
                <= gaps[u] + One(dash[u].exists \/ AgainBy(old, u))
      BY <1>2, BusyPayments
    <3>2. CASE u = t
      <4>1. One(FirstBy(old, u)) = 0 /\ One(dash'[u].exists \/ AgainBy(r, u)) = 1
        BY <2>3, <2>5, <3>2 DEF One
      <4>2. CASE Old(p).exists
        <5>1. One(FirstBy(r, u)) = 0 /\ One(dash[u].exists \/ AgainBy(old, u)) = 1
          BY <2>5, <3>2, <4>2 DEF One
        <5> QED
          BY <1>1, <3>1, <4>1, <5>1 DEF One
      <4>3. CASE ~Old(p).exists
        <5>1. One(FirstBy(r, u)) = 1 /\ One(dash[u].exists \/ AgainBy(old, u)) = 0
          BY <1>8, <2>5, <3>2, <4>3 DEF One
        <5> QED
          BY <1>1, <3>1, <4>1, <5>1 DEF One
      <4> QED
        BY <4>2, <4>3
    <3>3. CASE u # t
      BY <1>1, <2>3, <2>5, <3>1, <3>3 DEF One
    <3> QED
      BY <3>2, <3>3
  <2> QED
    BY <1>2, <1>4, <1>5, <2>1, <2>3, <2>4, <2>6, SyncerDone
<1> QED
  BY <1>7, <1>8

\* Parts are added to a dashboard.
LEMMA AddParts ==
    ASSUME DashTypes, NEW p \in Savers, sync[p] \in SyncRecs, Tpl(p) \in Tpls, NEW kind,
           LET new == sync[p].parts \cap kind[Tpl(p)]
           IN  /\ new = {} \/ dash[Tpl(p)].exists
               /\ dash' = IF new = {} THEN dash
                          ELSE [dash EXCEPT ![Tpl(p)].parts = @ \cup new, ![Tpl(p)].own = @ \cup Own(p)]
    PROVE  /\ dash' \in [Tpls -> Dashes]
           /\ \A u \in Tpls : /\ dash'[u].exists = dash[u].exists
                              /\ dash[u].exists => /\ dash'[u].updated = dash[u].updated
                                                   /\ dash'[u].name = dash[u].name
                                                   /\ dash'[u].touched = dash[u].touched
                              /\ u # Tpl(p) => dash'[u] = dash[u]
<1> DEFINE t == Tpl(p)
           new == sync[p].parts \cap kind[t]
           d == dash[t]
           made == [d EXCEPT !.parts = d.parts \cup new, !.own = d.own \cup Own(p)]
<1>1. dash \in [Tpls -> Dashes] /\ t \in Tpls
  BY DEF DashTypes
<1>2. CASE new = {}
  BY <1>1, <1>2
<1>3. CASE new # {}
  <2>1. d \in Made /\ d.exists
    BY <1>1, <1>3, DashFields
  <2>2. d.parts \cup new \in SUBSET Parts
    BY <2>1, SaverFields, DashFields
  <2>3. dash' = [dash EXCEPT ![t] = made]
    BY <1>1, <1>3
  <2>4. /\ made \in Made /\ made.exists = d.exists /\ made.updated = d.updated
        /\ made.name = d.name /\ made.touched = d.touched
    <3> HIDE DEF new
    <3>1. Own(p) \in SUBSET Unmarked
      BY DEF Own, Unmarked
    <3> QED
      BY <2>1, <2>2, <3>1 DEF Made, DashRecs, Told, Unmarked
  <2> HIDE DEF made, t
  <2>5. made \in Dashes
    BY <2>4, DashFields
  <2> QED
    BY <1>1, <2>3, <2>4, <2>5 DEF t
<1> QED
  BY <1>2, <1>3

\* A server inserts gauges or columns.
LEMMA PartsStep ==
    ASSUME DashInv, NEW p \in Syncers, NEW from \in {"gauges", "columns"}, NEW kind,
           NEW to \in {"columns", "monitors"}, SaveParts(p, from, kind, to)
    PROVE  DashInv'
<1> DEFINE old == sync[p]
           t == Tpl(p)
           r == [old EXCEPT !.pc = to]
           new == old.parts \cap kind[t]
<1>1. /\ old.pc = from /\ p \in Savers /\ DashTypes
      /\ metrics' = metrics /\ monitors' = monitors /\ late' = late /\ gaps' = gaps
  BY DEF SaveParts, DashInv, Savers
<1>2. syncLock = p /\ \A q \in Syncers : q # p => sync[q] = Idle
  BY <1>1, Alone
<1>3. /\ old \in SyncRecs /\ t \in Tpls /\ Old(p) = old.old[t] /\ old.pc \in Saving
      /\ \A u \in Tpls : At(old, u) <=> u = t
  BY <1>1, AtHand DEF Saving
<1>4. r \in SyncRecs /\ r.pc = to /\ r.todo = old.todo /\ r.old = old.old
  BY <1>3, MoveTo DEF Saving
<1>5. metrics' \subseteq Metrics /\ monitors' \in [Tpls -> Nat] /\ gaps' \in [Tpls -> Nat]
  BY <1>1 DEF DashTypes
<1>6. CASE new # {} /\ ~dash[t].exists
  <2>1. Ends(p) /\ dash' = dash
    BY <1>6 DEF SaveParts, SaveFails
  <2>2. \A u \in Tpls : ~AgainBy(old, u)
    BY <1>1 DEF AgainBy
  <2> QED
    BY <1>1, <1>2, <1>5, <2>1, <2>2, SyncerEnds
<1>7. CASE ~(new # {} /\ ~dash[t].exists)
  <2>1. /\ sync' = [sync EXCEPT ![p] = r] /\ syncLock' = syncLock
        /\ dash' = IF new = {} THEN dash
                   ELSE [dash EXCEPT ![t].parts = @ \cup new, ![t].own = @ \cup Own(p)]
    BY <1>7 DEF SaveParts
  <2>2. /\ dash' \in [Tpls -> Dashes]
        /\ \A u \in Tpls : /\ dash'[u].exists = dash[u].exists
                           /\ u # t => dash'[u] = dash[u]
    BY <1>1, <1>3, <1>7, <2>1, AddParts
  <2> HIDE DEF r, t, new
  <2>3. SaverOK(r) /\ KeptBy(r, dash', late')
    BY <1>1, <1>3, <1>4, <2>2, SavingKeeps DEF Saving, t
  <2>4. \A u \in Tpls : /\ FirstBy(r, u) <=> FirstBy(old, u)
                        /\ ~AgainBy(r, u) /\ ~AgainBy(old, u)
    BY <1>1, <1>4 DEF FirstBy, AgainBy, At
  <2>5. ASSUME NEW u \in Tpls
        PROVE  monitors'[u] + One(FirstBy(r, u)) + One(Yaml(u))
                               <= gaps'[u] + One(dash'[u].exists \/ AgainBy(r, u))
    <3>1. /\ monitors[u] + One(FirstBy(old, u)) + One(Yaml(u))
                <= gaps[u] + One(dash[u].exists \/ AgainBy(old, u))
      BY <1>2, BusyPayments
    <3>2. /\ One(FirstBy(r, u)) = One(FirstBy(old, u))
          /\ One(dash'[u].exists \/ AgainBy(r, u)) = One(dash[u].exists \/ AgainBy(old, u))
      BY <2>2, <2>4 DEF One
    <3> QED
      BY <1>1, <3>1, <3>2
  <2> QED
    BY <1>2, <1>4, <1>5, <2>1, <2>2, <2>3, <2>5, SyncerDone
<1> QED
  BY <1>6, <1>7

\* A server makes the monitors of a first dashboard, and goes on.
LEMMA MonitorsStep == ASSUME DashInv, NEW p \in Syncers, SaveMonitors(p) PROVE DashInv'
<1> DEFINE old == sync[p]
           t == Tpl(p)
           m == IF ~Old(p).exists /\ MonitorMetrics[t] \subseteq old.metrics THEN 1 ELSE 0
<1>1. /\ old.pc = "monitors" /\ p \in Savers /\ DashTypes /\ Skips(p)
      /\ metrics' = metrics /\ dash' = dash /\ late' = late /\ gaps' = gaps
  BY DEF SaveMonitors, DashInv, Savers
<1>2. \A q \in Syncers : q # p => sync[q] = Idle
  BY <1>1, Alone
<1>3. /\ t \in Tpls /\ Old(p) = old.old[t] /\ \A u \in Tpls : At(old, u) <=> u = t
  BY <1>1, AtHand
<1>4. PICK r \in SyncRecs :
            /\ sync' = [sync EXCEPT ![p] = r] /\ SaverOK(r) /\ syncLock' \in {p, Free}
            /\ r.pc # "idle" => syncLock' = p
            /\ \A u \in Tpls : ~FirstBy(r, u) /\ ~AgainBy(r, u)
            /\ KeptBy(r, dash, late)
  BY <1>1, SyncerSkips
<1>5. monitors' = IF m = 1 THEN [monitors EXCEPT ![t] = @ + 1] ELSE monitors
  BY DEF SaveMonitors
<1>6. m \in {0, 1} /\ (m = 1 => ~Old(p).exists)
  OBVIOUS
<1> HIDE DEF t, m
<1>7. /\ monitors \in [Tpls -> Nat] /\ monitors' \in [Tpls -> Nat]
      /\ monitors'[t] = monitors[t] + m /\ \A u \in Tpls : u # t => monitors'[u] = monitors[u]
  BY <1>1, <1>3, <1>5, <1>6 DEF DashTypes
<1>8. \A u \in Tpls : /\ FirstBy(old, u) <=> u = t /\ ~Old(p).exists
                      /\ ~AgainBy(old, u)
  BY <1>1, <1>3 DEF FirstBy, AgainBy
<1>9. ASSUME NEW u \in Tpls
      PROVE  monitors'[u] + One(FirstBy(r, u)) + One(Yaml(u))
                               <= gaps'[u] + One(dash'[u].exists \/ AgainBy(r, u))
  <2>1. /\ monitors[u] \in Nat /\ gaps[u] \in Nat /\ dash[u].exists \in BOOLEAN
        /\ monitors[u] + One(FirstBy(old, u)) + One(Yaml(u))
                <= gaps[u] + One(dash[u].exists \/ AgainBy(old, u))
    BY <1>2, BusyPayments
  <2>2. CASE u = t
    BY <1>1, <1>4, <1>6, <1>7, <1>8, <2>1, <2>2 DEF One
  <2>3. CASE u # t
    BY <1>1, <1>4, <1>7, <1>8, <2>1, <2>3 DEF One
  <2> QED
    BY <2>2, <2>3
<1>10. metrics' \subseteq Metrics /\ dash' \in [Tpls -> Dashes] /\ gaps' \in [Tpls -> Nat]
  BY <1>1 DEF DashTypes
<1> QED
  BY <1>1, <1>2, <1>4, <1>7, <1>9, <1>10, SyncerDone

\* A server stops in the middle, or with nothing to do.
LEMMA CutStep == ASSUME DashInv, NEW p \in Syncers, SyncCut(p) PROVE DashInv'
<1>1. /\ Ends(p) /\ metrics' = metrics /\ dash' = dash /\ monitors' = monitors /\ late' = late
      /\ p \in Savers /\ DashTypes /\ SaverOK(sync[p]) /\ sync[p] \in SyncRecs
      /\ gaps' = [t \in Tpls |-> IF sync[p].todo # << >> /\ t = Tpl(p) /\ sync[p].pc \in Saving
                                 THEN gaps[t] + 1 ELSE gaps[t]]
  BY DEF SyncCut, SaveFails, DashInv, DashTypes, SaversOK, Savers, Saving
<1>2. gaps' \in [Tpls -> Nat] /\ \A t \in Tpls : gaps'[t] = gaps[t] \/ gaps'[t] = gaps[t] + 1
  BY <1>1 DEF DashTypes
<1>3. CASE sync[p].pc # "idle"
  <2>1. syncLock = p /\ \A q \in Syncers : q # p => sync[q] = Idle
    BY <1>3, Alone
  <2>2. \A t \in Tpls : AgainBy(sync[p], t) => gaps'[t] = gaps[t] + 1
    BY <1>1 DEF AgainBy, At, Tpl, Saving
  <2> QED
    BY <1>1, <1>2, <2>1, <2>2, SyncerEnds
<1>4. CASE sync[p].pc = "idle"
  <2>1. sync[p] = Idle /\ sync \in [Savers -> SyncRecs]
    BY <1>1, <1>4 DEF SaverOK, DashTypes
  <2>2. sync' = sync
    BY <1>1, <2>1 DEF Ends
  <2>3. gaps' = gaps
    BY <1>1, <2>1, IdleSaver DEF DashTypes
  <2>4. CASE syncLock # p
    <3>1. syncLock' = syncLock
      BY <1>1, <2>4 DEF Ends
    <3> QED
      BY <1>1, <2>2, <2>3, <3>1, NobodyMoves, Payments DEF DashInv, DashTypes
  <2>5. CASE syncLock = p
    <3>1. syncLock' = Free /\ \A q \in Syncers : q # p => sync[q] = Idle
      BY <1>1, <2>5 DEF Ends, DashInv, SaversOK, SaverOK, Savers
    <3>2. \A t \in Tpls : ~AgainBy(sync[p], t)
      BY <1>4 DEF AgainBy
    <3> QED
      BY <1>1, <1>2, <2>5, <3>1, <3>2, SyncerEnds
  <2> QED
    BY <2>4, <2>5
<1> QED
  BY <1>3, <1>4

-----------------------------------------------------------------------------
(* Users.                                                                  *)

\* What the servers have read is kept: an edit that they would not see and that
\* takes away what they have read counts as late.
LEMMA StillKept ==
    ASSUME DashInv, late \subseteq late',
           \A t \in Tpls : \/ t \in late' \/ dash'[t] = dash[t] \/ ~dash'[t].exists \/ ~HasRead(t)
                           \/ /\ dash[t].exists /\ dash'[t].updated = dash[t].updated
                              /\ dash'[t].name = dash[t].name
                              /\ dash'[t].touched = dash[t].touched \/ ~HasLooked(t)
    PROVE  \A q \in Syncers : KeptBy(sync[q], dash', late')
<1> SUFFICES ASSUME NEW q \in Syncers PROVE KeptBy(sync[q], dash', late')
  OBVIOUS
<1>1. /\ sync[q] \in SyncRecs /\ SaverOK(sync[q]) /\ KeptBy(sync[q], dash, late)
  BY DEF DashInv, DashTypes, SaversOK, Savers
<1>2. sync[q].todo \in Seq(Tpls)
  BY <1>1, SaverFields
<1>3. sync[q].todo # << >> => 1 \in 1..Len(sync[q].todo) /\ Head(sync[q].todo) = sync[q].todo[1]
  BY <1>2, HeadTail
<1>4. sync[q].pc = "delete" => sync[q].todo # << >>
  BY <1>1 DEF SaverOK
<1>5. \A i \in 1..Len(sync[q].todo) : sync[q].todo[i] \in Tpls /\ HasRead(sync[q].todo[i])
  BY <1>2, LenProperties, ElementOfSeq DEF HasRead
<1>6. sync[q].pc = "delete" => HasLooked(sync[q].todo[1])
  BY <1>3, <1>4 DEF HasLooked, Tpl
<1> DEFINE s == sync  d == dash  e == dash'  l == late  m == late'
<1>7. \A i \in 1..Len(s[q].todo) :
        LET t == s[q].todo[i]
        IN  t \notin m => \/ e[t] = d[t]
                          \/ ~e[t].exists
                          \/ /\ d[t].exists /\ e[t].updated = d[t].updated
                             /\ e[t].name = d[t].name
                             /\ s[q].pc = "delete" /\ i = 1 => e[t].touched = d[t].touched
  BY <1>5, <1>6
<1>8. KeptBy(s[q], d, l) /\ l \subseteq m
  BY <1>1
<1>9. /\ s[q].todo # << >> => 1 \in 1..Len(s[q].todo) /\ Head(s[q].todo) = s[q].todo[1]
      /\ s[q].pc = "delete" => s[q].todo # << >>
  BY <1>3, <1>4
<1> HIDE DEF s, d, e, l, m
<1>10. KeptBy(s[q], e, m)
  BY <1>7, <1>8, <1>9, KeptLater
<1> QED
  BY <1>10 DEF s, e, m

\* A request that replaces a dashboard, while it is busy.
LEMMA UserAtHand ==
    ASSUME DashInv, sync[User].pc # "idle"
    PROVE  /\ User \in Savers /\ User \notin Syncers /\ DashTypes /\ syncLock # User
           /\ sync[User] \in SyncRecs /\ SaverOK(sync[User]) /\ Tpl(User) \in Tpls
           /\ sync[User].pc \in {"delete"} \cup Saving /\ Old(User).exists
           /\ sync[User].todo # << >> /\ Len(sync[User].todo) = 1
           /\ Old(User) = sync[User].old[Tpl(User)] /\ Tpl(User) = Head(sync[User].todo)
           /\ \A t \in Tpls : At(sync[User], t) <=> t = Tpl(User)
<1>1. User \in Savers /\ User \notin Syncers /\ DashTypes
  BY SaversAssumption DEF Savers, DashInv
<1>2. /\ sync[User].pc \in {"delete"} \cup Saving /\ Len(sync[User].todo) = 1 /\ Old(User).exists
  BY DEF DashInv, SaversOK
<1>3. syncLock # User
  BY <1>1, SaversAssumption DEF DashTypes
<1>4. sync[User].pc \notin {"idle", "read"}
  BY <1>2 DEF Saving
<1> QED
  BY <1>1, <1>2, <1>3, <1>4, AtHand

\* The request goes on with its dashboard.
LEMMA UserGoesOn ==
    ASSUME DashInv, sync[User].pc # "idle", NEW pc \in Saving
    PROVE  LET r == [sync[User] EXCEPT !.pc = pc]
           IN  /\ r \in SyncRecs /\ r.pc = pc /\ SaverOK(r)
               /\ Len(r.todo) = 1 /\ r.old[Head(r.todo)].exists
               /\ \A t \in Tpls : ~YamlBy(r, t)
<1> DEFINE r == [sync[User] EXCEPT !.pc = pc]
<1>1. /\ sync[User] \in SyncRecs /\ SaverOK(sync[User]) /\ Len(sync[User].todo) = 1
      /\ sync[User].old[Head(sync[User].todo)].exists /\ sync[User].todo # << >>
  BY UserAtHand
<1>2. /\ r \in SyncRecs /\ r.pc = pc /\ r.todo = sync[User].todo /\ r.old = sync[User].old
  BY <1>1, MoveTo
<1>3. pc \notin {"idle", "read", "delete"}
  BY DEF Saving
<1> HIDE DEF r
<1>4. SaverOK(r) /\ \A t \in Tpls : ~YamlBy(r, t)
  BY <1>1, <1>2, <1>3 DEF SaverOK, YamlBy
<1> QED
  BY <1>1, <1>2, <1>4 DEF r

\* The request ends.
LEMMA UserEnds ==
    ASSUME DashInv, sync[User].pc # "idle", Ends(User),
           metrics' = metrics, dash' = dash, monitors' = monitors, gaps' = gaps, late \subseteq late'
    PROVE  DashInv'
<1>1. sync' = [sync EXCEPT ![User] = Idle] /\ syncLock' = syncLock
  BY UserAtHand DEF Ends
<1>2. \A t \in Tpls : ~YamlBy(Idle, t)
  BY IdleSaver DEF YamlBy
<1>3. \A t \in Tpls : monitors'[t] + One(First(t)) + One(YamlBy(Idle, t))
                               <= gaps'[t] + One(dash'[t].exists \/ Again(t))
  BY <1>2, Payments DEF One
<1>4. \A q \in Syncers : KeptBy(sync[q], dash', late')
  BY StillKept
<1>5. /\ metrics' \subseteq Metrics /\ dash' \in [Tpls -> Dashes]
      /\ monitors' \in [Tpls -> Nat] /\ gaps' \in [Tpls -> Nat]
  BY DEF DashInv, DashTypes
<1> QED
  BY <1>1, <1>3, <1>4, <1>5, IdleSaver, UserDone

\* The request goes on in a step that leaves every dashboard that exists.
LEMMA UserSaves ==
    ASSUME DashInv, sync[User].pc \in Saving, NEW pc \in Saving,
           sync' = [sync EXCEPT ![User] = [sync[User] EXCEPT !.pc = pc]],
           syncLock' = syncLock, metrics' = metrics, monitors' = monitors, gaps' = gaps,
           dash' \in [Tpls -> Dashes], \A t \in Tpls : dash[t].exists => dash'[t].exists,
           \A q \in Syncers : KeptBy(sync[q], dash', late')
    PROVE  DashInv'
<1> DEFINE r == [sync[User] EXCEPT !.pc = pc]
<1>1. sync[User].pc # "idle"
  BY DEF Saving
<1>2. /\ r \in SyncRecs /\ r.pc = pc /\ SaverOK(r)
      /\ Len(r.todo) = 1 /\ r.old[Head(r.todo)].exists
      /\ \A t \in Tpls : ~YamlBy(r, t)
  BY <1>1, UserGoesOn
<1> HIDE DEF r
<1>3. \A t \in Tpls : monitors'[t] + One(First(t)) + One(YamlBy(r, t))
                               <= gaps'[t] + One(dash'[t].exists \/ Again(t))
  BY <1>2, Payments DEF One
<1>4. /\ metrics' \subseteq Metrics /\ monitors' \in [Tpls -> Nat] /\ gaps' \in [Tpls -> Nat]
  BY DEF DashInv, DashTypes
<1>5. sync' = [sync EXCEPT ![User] = r]
  BY DEF r
<1> QED
  BY <1>2, <1>3, <1>4, <1>5, UserDone

\* The request deletes the dashboard.
LEMMA UserDeletes == ASSUME DashInv, SaveDelete(User) PROVE DashInv'
<1> DEFINE t == Tpl(User)
           r == [sync[User] EXCEPT !.pc = "insert"]
<1>1. /\ sync[User].pc = "delete" /\ syncLock' = syncLock
      /\ metrics' = metrics /\ monitors' = monitors /\ late' = late /\ gaps' = gaps
      /\ dash' = [dash EXCEPT ![t] = NoDash] /\ sync' = [sync EXCEPT ![User] = r]
  BY DEF SaveDelete
<1>2. t \in Tpls /\ DashTypes /\ \A u \in Tpls : At(sync[User], u) <=> u = t
  BY <1>1, UserAtHand
<1>3. /\ r \in SyncRecs /\ SaverOK(r) /\ r.pc = "insert"
      /\ r.pc \in Saving /\ Len(r.todo) = 1 /\ r.old[Head(r.todo)].exists
      /\ \A u \in Tpls : ~YamlBy(r, u)
  BY <1>1, UserGoesOn DEF Saving
<1> HIDE DEF r, t
<1>4. /\ dash' \in [Tpls -> Dashes] /\ ~dash'[t].exists
      /\ \A u \in Tpls : u # t => dash'[u] = dash[u]
  BY <1>1, <1>2, DashFields DEF DashTypes
<1>5. \A q \in Syncers : KeptBy(sync[q], dash', late')
  BY <1>1, <1>4, StillKept
<1>6. \A u \in Tpls : monitors'[u] + One(First(u)) + One(YamlBy(r, u))
                               <= gaps'[u] + One(dash'[u].exists \/ Again(u))
  <2> SUFFICES ASSUME NEW u \in Tpls
               PROVE  monitors'[u] + One(First(u)) + One(YamlBy(r, u))
                               <= gaps'[u] + One(dash'[u].exists \/ Again(u))
    OBVIOUS
  <2>1. /\ monitors[u] \in Nat /\ gaps[u] \in Nat
        /\ monitors[u] + One(First(u)) + One(Yaml(u)) <= gaps[u] + One(dash[u].exists \/ Again(u))
    BY Payments
  <2>2. One(YamlBy(r, u)) = 0
    BY <1>3 DEF One
  <2>3. CASE u = t
    <3>1. One(Yaml(u)) = 1
      BY <1>1, <1>2, <2>3 DEF Yaml, YamlBy, One
    <3> QED
      BY <1>1, <2>1, <2>2, <3>1 DEF One
  <2>4. CASE u # t
    BY <1>1, <1>4, <2>1, <2>2, <2>4 DEF One
  <2> QED
    BY <2>3, <2>4
<1>7. /\ metrics' \subseteq Metrics /\ monitors' \in [Tpls -> Nat] /\ gaps' \in [Tpls -> Nat]
  BY <1>1, <1>2 DEF DashTypes
<1> QED
  BY <1>1, <1>3, <1>4, <1>5, <1>6, <1>7, UserDone

\* The request inserts its dashboard: a server that has read the one before
\* does not see it.
LEMMA UserInserts == ASSUME DashInv, SaveInsert(User) PROVE DashInv'
<1> DEFINE t == Tpl(User)
<1>1. /\ sync[User].pc = "insert" /\ sync[User].pc # "idle" /\ sync[User].pc \in Saving
      /\ metrics' = metrics /\ monitors' = monitors /\ gaps' = gaps
      /\ late' = IF HasRead(t) THEN late \cup {t} ELSE late
  BY DEF SaveInsert, Saving
<1>2. t \in Tpls /\ DashTypes /\ Old(User).exists
  BY <1>1, UserAtHand
<1>3. /\ sync' = [sync EXCEPT ![User] = [sync[User] EXCEPT !.pc = "gauges"]]
      /\ syncLock' = syncLock
      /\ dash' = IF dash[t].exists THEN dash ELSE [dash EXCEPT ![t] = NewDash("user", {"yaml"})]
  BY <1>2 DEF SaveInsert, Own
<1>4. NewDash("user", {"yaml"}) \in Dashes /\ NewDash("user", {"yaml"}).exists
  <2>1. {"yaml"} \in SUBSET Unmarked
    BY DEF Unmarked
  <2> QED
    BY <2>1, NewDashMade, DashFields
<1> HIDE DEF t
<1>5. /\ dash' \in [Tpls -> Dashes] /\ dash'[t].exists
      /\ \A u \in Tpls : u # t => dash'[u] = dash[u]
  BY <1>2, <1>3, <1>4 DEF DashTypes
<1>6. late \subseteq late' /\ (HasRead(t) => t \in late')
  BY <1>1
<1>7. \A q \in Syncers : KeptBy(sync[q], dash', late')
  BY <1>5, <1>6, StillKept
<1>8. \A u \in Tpls : dash[u].exists => dash'[u].exists
  BY <1>5
<1>9. "gauges" \in Saving
  BY DEF Saving
<1> QED
  BY <1>1, <1>3, <1>5, <1>7, <1>8, <1>9, UserSaves

\* The request inserts gauges or columns.
LEMMA UserParts ==
    ASSUME DashInv, NEW from \in {"gauges", "columns"}, NEW kind,
           NEW to \in {"columns", "monitors"}, SaveParts(User, from, kind, to)
    PROVE  DashInv'
<1> DEFINE t == Tpl(User)
           new == sync[User].parts \cap kind[t]
<1>1. /\ sync[User].pc = from /\ sync[User].pc # "idle" /\ sync[User].pc \in Saving /\ to \in Saving
      /\ metrics' = metrics /\ monitors' = monitors /\ late' = late /\ gaps' = gaps
  BY DEF SaveParts, Saving
<1>2. t \in Tpls /\ DashTypes /\ User \in Savers /\ sync[User] \in SyncRecs
  BY <1>1, UserAtHand
<1>3. CASE new # {} /\ ~dash[t].exists
  <2>1. Ends(User) /\ dash' = dash
    BY <1>3 DEF SaveParts, SaveFails
  <2> QED
    BY <1>1, <2>1, UserEnds
<1>4. CASE ~(new # {} /\ ~dash[t].exists)
  <2>1. /\ sync' = [sync EXCEPT ![User] = [sync[User] EXCEPT !.pc = to]] /\ syncLock' = syncLock
        /\ dash' = IF new = {} THEN dash
                   ELSE [dash EXCEPT ![t].parts = @ \cup new, ![t].own = @ \cup Own(User)]
    BY <1>4 DEF SaveParts
  <2>2. /\ dash' \in [Tpls -> Dashes]
        /\ \A u \in Tpls : /\ dash'[u].exists = dash[u].exists
                           /\ dash[u].exists => /\ dash'[u].updated = dash[u].updated
                                                /\ dash'[u].name = dash[u].name
                                                /\ dash'[u].touched = dash[u].touched
    BY <1>2, <1>4, <2>1, AddParts
  <2>3. \A q \in Syncers : KeptBy(sync[q], dash', late')
    <3>1. \A u \in Tpls : dash[u].exists \/ ~dash'[u].exists
      BY <2>2
    <3> QED
      BY <1>1, <2>2, <3>1, StillKept
  <2> QED
    BY <1>1, <2>1, <2>2, <2>3, UserSaves
<1> QED
  BY <1>3, <1>4

\* The dashboard had been there: no monitors are made, and the request ends.
LEMMA UserMonitors == ASSUME DashInv, SaveMonitors(User) PROVE DashInv'
<1>1. sync[User].pc # "idle" /\ metrics' = metrics /\ dash' = dash /\ late' = late /\ gaps' = gaps
  BY DEF SaveMonitors
<1>2. Old(User).exists /\ Len(sync[User].todo) = 1
  BY <1>1, UserAtHand
<1>3. monitors' = monitors /\ Ends(User)
  BY <1>2 DEF SaveMonitors, Skips
<1> QED
  BY <1>1, <1>3, UserEnds

\* A saver goes on.
LEMMA SavesStep == ASSUME DashInv, NEW p \in Savers, SyncStep(p) PROVE DashInv'
<1>1. CASE p \in Syncers
  <2>1. CASE SyncRead(p) \/ SyncCheck(p) \/ SaveDelete(p) \/ SaveInsert(p) \/ SaveMonitors(p)
    BY <1>1, <2>1, ReadStep, CheckStep, DeleteStep, InsertStep, MonitorsStep
  <2>2. CASE SaveParts(p, "gauges", Gauges, "columns")
    BY <1>1, <2>2, PartsStep
  <2>3. CASE SaveParts(p, "columns", Columns, "monitors")
    BY <1>1, <2>3, PartsStep
  <2> QED
    BY <2>1, <2>2, <2>3 DEF SyncStep
<1>2. CASE p \notin Syncers
  <2>1. p = User
    BY <1>2 DEF Savers
  <2>2. sync[User].pc \notin {"read", "check"}
    BY DEF DashInv, SaversOK, Saving
  <2>3. CASE SyncRead(User) \/ SyncCheck(User)
    BY <2>2, <2>3 DEF SyncRead, SyncCheck
  <2>4. CASE SaveDelete(User) \/ SaveInsert(User) \/ SaveMonitors(User)
    BY <2>4, UserDeletes, UserInserts, UserMonitors
  <2>5. CASE SaveParts(User, "gauges", Gauges, "columns")
    BY <2>5, UserParts
  <2>6. CASE SaveParts(User, "columns", Columns, "monitors")
    BY <2>6, UserParts
  <2> QED
    BY <2>1, <2>3, <2>4, <2>5, <2>6 DEF SyncStep
<1> QED
  BY <1>1, <1>2

\* A user edits a dashboard, not so that a server would not see it, unless it
\* counts as late.
LEMMA EditsStep ==
    ASSUME DashInv, NEW t \in Tpls, NEW seen \in BOOLEAN, NEW new \in Made, Edits(t, seen, new), gaps' = gaps,
           \/ HasRead(t) => seen
           \/ /\ new.updated = dash[t].updated /\ new.name = dash[t].name
              /\ new.touched = dash[t].touched \/ (HasLooked(t) => seen)
    PROVE  DashInv'
<1>1. /\ sync' = sync /\ syncLock' = syncLock /\ metrics' = metrics /\ monitors' = monitors
      /\ dash[t].exists /\ dash' = [dash EXCEPT ![t] = new]
      /\ late \subseteq late' /\ (seen => t \in late') /\ DashTypes
  BY DEF Edits, DashInv
<1>2. new \in Dashes /\ new.exists
  BY DashFields
<1>3. /\ dash' \in [Tpls -> Dashes] /\ dash'[t] = new
      /\ \A u \in Tpls : u # t => dash'[u] = dash[u]
  BY <1>1, <1>2 DEF DashTypes
<1>4. \A q \in Syncers : KeptBy(sync[q], dash', late')
  BY <1>1, <1>3, StillKept
<1>5. \A u \in Tpls : dash'[u].exists = dash[u].exists
  BY <1>1, <1>2, <1>3, DashFields DEF DashTypes
<1>6. \A u \in Tpls : monitors'[u] + One(First(u)) + One(Yaml(u))
                               <= gaps'[u] + One(dash'[u].exists \/ Again(u))
  BY <1>1, <1>5, Payments DEF One
<1>7. metrics' \subseteq Metrics /\ monitors' \in [Tpls -> Nat] /\ gaps' \in [Tpls -> Nat]
  BY <1>1 DEF DashTypes
<1> QED
  BY <1>1, <1>3, <1>4, <1>6, <1>7, NobodyMoves

\* What an edit makes of a dashboard.
LEMMA Edited ==
    ASSUME NEW d \in Made
    PROVE  /\ \A x \in d.parts :
                LET e == [d EXCEPT !.touched = d.touched \cup {x}, !.own = d.own \cup {"parts"}]
                IN  e \in Made /\ e.updated = d.updated /\ e.name = d.name
           /\ [d EXCEPT !.updated = TRUE, !.own = d.own \cup {"table"}] \in Made
           /\ [d EXCEPT !.name = "user"] \in Made
           /\ LET e == [d EXCEPT !.own = d.own \cup {"pin"}]
              IN  e \in Made /\ e.updated = d.updated /\ e.name = d.name /\ e.touched = d.touched
<1>1. [d EXCEPT !.updated = TRUE, !.own = d.own \cup {"table"}] \in Made
  BY DEF Made, DashRecs, Told
<1>2. [d EXCEPT !.name = "user"] \in Made
  BY DEF Made, DashRecs, Told
<1>3. LET e == [d EXCEPT !.own = d.own \cup {"pin"}]
      IN  e \in Made /\ e.updated = d.updated /\ e.name = d.name /\ e.touched = d.touched
  BY DEF Made, DashRecs, Told, Unmarked
<1>4. ASSUME NEW x \in d.parts
      PROVE  LET e == [d EXCEPT !.touched = d.touched \cup {x}, !.own = d.own \cup {"parts"}]
             IN  e \in Made /\ e.updated = d.updated /\ e.name = d.name
  <2>1. d.touched \cup {x} \in SUBSET Parts
    BY DashFields
  <2> QED
    BY <2>1 DEF Made, DashRecs, Told
<1> QED
  BY <1>1, <1>2, <1>3, <1>4

\* A user edits a gauge or a column.
LEMMA PartStep == ASSUME DashInv, NEW t \in Tpls, NEW kind, EditPart(t, kind) PROVE DashInv'
<1> DEFINE d == dash[t]
<1>1. d \in Made
  BY DashFields DEF EditPart, DashInv, DashTypes
<1>2. PICK x \in d.parts \cap kind[t] :
        Edits(t, HasLooked(t), [d EXCEPT !.touched = d.touched \cup {x}, !.own = d.own \cup {"parts"}])
  BY DEF EditPart
<1> DEFINE new == [d EXCEPT !.touched = d.touched \cup {x}, !.own = d.own \cup {"parts"}]
<1>3. new \in Made /\ new.updated = d.updated /\ new.name = d.name
  BY <1>1, <1>2, Edited
<1>4. Edits(t, HasLooked(t), new) /\ gaps' = gaps /\ HasLooked(t) \in BOOLEAN
  BY <1>2 DEF EditPart, HasLooked
<1> HIDE DEF new
<1> QED
  BY <1>3, <1>4, EditsStep

\* A user edits the dashboard itself.
LEMMA TableStep ==
    ASSUME DashInv, NEW t \in Tpls, EditTable(t) \/ Rename(t) \/ Pin(t) PROVE DashInv'
<1> DEFINE d == dash[t]
<1>1. d \in Made /\ gaps' = gaps /\ HasRead(t) \in BOOLEAN
  BY DashFields DEF EditTable, Rename, Pin, Edits, DashInv, DashTypes, HasRead
<1>2. CASE EditTable(t)
  <2> DEFINE new == [d EXCEPT !.updated = TRUE, !.own = d.own \cup {"table"}]
  <2>1. Edits(t, HasRead(t), new)
    BY <1>2 DEF EditTable
  <2>2. new \in Made
    BY <1>1, Edited
  <2> HIDE DEF new
  <2> QED
    BY <1>1, <2>1, <2>2, EditsStep
<1>3. CASE Rename(t)
  <2> DEFINE new == [d EXCEPT !.name = "user"]
  <2>1. Edits(t, HasRead(t), new)
    BY <1>3 DEF Rename
  <2>2. new \in Made
    BY <1>1, Edited
  <2> HIDE DEF new
  <2> QED
    BY <1>1, <2>1, <2>2, EditsStep
<1>4. CASE Pin(t)
  <2> DEFINE new == [d EXCEPT !.own = d.own \cup {"pin"}]
  <2>1. Edits(t, FALSE, new)
    BY <1>4 DEF Pin
  <2>2. new \in Made /\ new.updated = d.updated /\ new.name = d.name /\ new.touched = d.touched
    BY <1>1, Edited
  <2> HIDE DEF new
  <2> QED
    BY <1>1, <2>1, <2>2, EditsStep
<1> QED
  BY <1>2, <1>3, <1>4

\* A user deletes a dashboard: its monitors may be made again.
LEMMA DeletedStep == ASSUME DashInv, NEW t \in Tpls, DeleteDash(t) PROVE DashInv'
<1>1. /\ sync' = sync /\ syncLock' = syncLock /\ metrics' = metrics /\ monitors' = monitors
      /\ dash' = [dash EXCEPT ![t] = NoDash] /\ late' = late
      /\ gaps' = [gaps EXCEPT ![t] = gaps[t] + 1] /\ DashTypes
  BY DEF DeleteDash, Edits, DashInv
<1>2. /\ dash' \in [Tpls -> Dashes] /\ ~dash'[t].exists
      /\ \A u \in Tpls : u # t => dash'[u] = dash[u]
  BY <1>1, DashFields DEF DashTypes
<1>3. /\ gaps' \in [Tpls -> Nat] /\ gaps'[t] = gaps[t] + 1
      /\ \A u \in Tpls : u # t => gaps'[u] = gaps[u]
  BY <1>1 DEF DashTypes
<1>4. \A q \in Syncers : KeptBy(sync[q], dash', late')
  BY <1>1, <1>2, StillKept
<1>5. \A u \in Tpls : monitors'[u] + One(First(u)) + One(Yaml(u))
                               <= gaps'[u] + One(dash'[u].exists \/ Again(u))
  <2> SUFFICES ASSUME NEW u \in Tpls
               PROVE  monitors'[u] + One(First(u)) + One(Yaml(u))
                               <= gaps'[u] + One(dash'[u].exists \/ Again(u))
    OBVIOUS
  <2>1. /\ monitors[u] \in Nat /\ gaps[u] \in Nat
        /\ monitors[u] + One(First(u)) + One(Yaml(u)) <= gaps[u] + One(dash[u].exists \/ Again(u))
    BY Payments
  <2>2. CASE u = t
    BY <1>1, <1>3, <2>1, <2>2 DEF One
  <2>3. CASE u # t
    BY <1>1, <1>2, <1>3, <2>1, <2>3 DEF One
  <2> QED
    BY <2>2, <2>3
<1>6. metrics' \subseteq Metrics /\ monitors' \in [Tpls -> Nat]
  BY <1>1 DEF DashTypes
<1> QED
  BY <1>1, <1>2, <1>3, <1>4, <1>5, <1>6, NobodyMoves

\* A user replaces a dashboard.
LEMMA YamlStep == ASSUME DashInv, NEW t \in Tpls, FromYAML(t) PROVE DashInv'
<1>0. PICK parts \in SUBSET (Gauges[t] \cup Columns[t]) :
            sync' = [sync EXCEPT ![User] = [Idle EXCEPT !.pc = "delete", !.todo = <<t>>, !.old = dash,
                                                        !.parts = parts]]
  BY DEF FromYAML
<1> DEFINE r == [Idle EXCEPT !.pc = "delete", !.todo = <<t>>, !.old = dash, !.parts = parts]
<1>1. /\ sync[User] = Idle /\ dash[t].exists /\ sync' = [sync EXCEPT ![User] = r]
      /\ syncLock' = syncLock /\ metrics' = metrics /\ monitors' = monitors
      /\ dash' = dash /\ late' = late /\ gaps' = [gaps EXCEPT ![t] = gaps[t] + 1] /\ DashTypes
  BY <1>0 DEF FromYAML, DashInv
<1>2. /\ <<t>> \in Seq(Tpls) /\ <<t>> # << >> /\ Len(<<t>>) = 1 /\ Head(<<t>>) = t
      /\ \A i, j \in 1..Len(<<t>>) : i = j
  OBVIOUS
<1>3. parts \in SUBSET Parts
  BY DEF Parts
<1>4. /\ r \in SyncRecs /\ r.pc = "delete" /\ r.todo = <<t>> /\ r.old = dash
  BY <1>1, <1>2, <1>3, IdleSaver DEF DashTypes, SyncRecs
<1> HIDE DEF r
<1>5. SaverOK(r)
  BY <1>1, <1>2, <1>4 DEF SaverOK
<1>6. /\ gaps' \in [Tpls -> Nat] /\ gaps'[t] = gaps[t] + 1
      /\ \A u \in Tpls : u # t => gaps'[u] = gaps[u]
  BY <1>1 DEF DashTypes
<1>7. \A u \in Tpls : ~Yaml(u) /\ (u # t => ~YamlBy(r, u))
  BY <1>1, <1>2, <1>4, IdleSaver DEF Yaml, YamlBy, At
<1>8. \A u \in Tpls : monitors'[u] + One(First(u)) + One(YamlBy(r, u))
                               <= gaps'[u] + One(dash'[u].exists \/ Again(u))
  <2> SUFFICES ASSUME NEW u \in Tpls
               PROVE  monitors'[u] + One(First(u)) + One(YamlBy(r, u))
                               <= gaps'[u] + One(dash'[u].exists \/ Again(u))
    OBVIOUS
  <2>1. /\ monitors[u] \in Nat /\ gaps[u] \in Nat
        /\ monitors[u] + One(First(u)) + One(Yaml(u)) <= gaps[u] + One(dash[u].exists \/ Again(u))
    BY Payments
  <2>2. One(Yaml(u)) = 0
    BY <1>7 DEF One
  <2>3. CASE u = t
    BY <1>1, <1>6, <2>1, <2>2, <2>3 DEF One
  <2>4. CASE u # t
    BY <1>1, <1>6, <1>7, <2>1, <2>2, <2>4 DEF One
  <2> QED
    BY <2>3, <2>4
<1>9. metrics' \subseteq Metrics /\ monitors' \in [Tpls -> Nat] /\ dash' \in [Tpls -> Dashes]
  BY <1>1 DEF DashTypes
<1>10. \A q \in Syncers : KeptBy(sync[q], dash', late')
  BY <1>1 DEF DashInv
<1>11. Len(r.todo) = 1 /\ r.old[Head(r.todo)].exists /\ r.pc \in {"delete"} \cup Saving
  BY <1>1, <1>2, <1>4
<1> QED
  BY <1>1, <1>4, <1>5, <1>6, <1>8, <1>9, <1>10, <1>11, UserDone

\* A new metric.
LEMMA MetricStep == ASSUME DashInv, NEW m \in Metrics, NewMetric(m) PROVE DashInv'
<1>1. /\ sync' = sync /\ syncLock' = syncLock /\ metrics' \subseteq Metrics /\ monitors' = monitors
      /\ dash' = dash /\ late' = late /\ gaps' = gaps
  BY DEF NewMetric, DashInv, DashTypes
<1> QED
  BY <1>1, NobodyMoves, Payments DEF DashInv, DashTypes

-----------------------------------------------------------------------------
(* The servers and users together.                                         *)

\* The invariant holds at the start.
LEMMA DashInitially == Init => DashInv
<1> SUFFICES ASSUME DashInit PROVE DashInv
  BY DEF Init
<1>1. \A p \in Savers : sync[p] = Idle
  BY DEF DashInit
<1>2. DashTypes
  BY DashFields, IdleSaver DEF DashInit, DashTypes
<1>3. SaversOK
  BY <1>1, IdleSaver DEF SaversOK, Savers
<1>4. \A t \in Tpls : Paid(t)
  <2>1. \A t \in Tpls : ~First(t) /\ ~Yaml(t)
    BY <1>1, IdleSaver DEF First, FirstBy, Yaml, YamlBy, Savers
  <2> QED
    BY <2>1 DEF Paid, One, DashInit
<1>5. \A p \in Syncers : KeptBy(sync[p], dash, late)
  BY <1>1, IdleSaver DEF Savers
<1> QED
  BY <1>2, <1>3, <1>4, <1>5 DEF DashInv

\* A step of which the dashboards know nothing.
LEMMA DashUnchanged == ASSUME DashInv, UNCHANGED dashVars PROVE DashInv'
BY NobodyMoves, Payments DEF DashInv, DashTypes, dashVars

\* Every step of the server keeps the invariant.
LEMMA DashNext == DashInv /\ [Next]_vars => DashInv'
<1> SUFFICES ASSUME DashInv, [Next]_vars PROVE DashInv'
  OBVIOUS
<1>1. ASSUME NEW p \in Servers,
             createProject(p) \/ InsertErrorMonitor(p) \/ Serves(p)
      PROVE  DashInv'
  BY <1>1, DashUnchanged DEF createProject, InsertErrorMonitor, Serves
<1>2. ASSUME NEW p \in Servers, syncDashboards(p) \/ TakeJob(p) PROVE DashInv'
  BY <1>2, ServersAssumption, BeginStep DEF syncDashboards, TakeJob
<1>3. ASSUME NEW p \in Servers, Crash(p) PROVE DashInv'
  BY <1>3, ServersAssumption, CutStep DEF Crash
<1>4. ASSUME NEW p \in Processes, Migrates(p) PROVE DashInv'
  BY <1>4, DashUnchanged DEF Migrates
<1>5. ASSUME NEW p \in Savers, Saves(p) PROVE DashInv'
  BY <1>5, SavesStep DEF Saves
<1>6. CASE Commands \/ CommandCrash
  BY <1>6, DashUnchanged DEF Commands, CommandCrash
<1>7. CASE ReceiveMetric
  BY <1>7, MetricStep DEF ReceiveMetric
<1>8. CASE UserEdits
  <2>1. PICK t \in Tpls : UserStep(t)
    BY <1>8 DEF UserEdits
  <2>2. CASE EditGauge(t)
    BY <2>2, PartStep DEF EditGauge
  <2>3. CASE EditColumn(t)
    BY <2>3, PartStep DEF EditColumn
  <2> QED
    BY <2>1, <2>2, <2>3, TableStep, DeletedStep, YamlStep DEF UserStep
<1>9. CASE UNCHANGED vars
  BY <1>9, DashUnchanged DEF vars
<1> QED
  BY <1>1, <1>2, <1>3, <1>4, <1>5, <1>6, <1>7, <1>8, <1>9 DEF Next

\* The invariant holds in every state.
LEMMA DashInvariant == Spec => []DashInv
BY DashInitially, DashNext, PTL DEF Spec

\* A template makes its monitors once, however many servers start, stop and take
\* jobs at the same time, but for the times a user deleted or replaced its
\* dashboard or a server stopped while it was saving (Save, and the lock of
\* CreateDashboardsHandler).
THEOREM MonitorsMadeOnce == Spec => []MonitorsOnce
<1>1. DashInv => MonitorsOnce
  <2> SUFFICES ASSUME DashInv, NEW t \in Tpls PROVE monitors[t] <= 1 + gaps[t]
    BY DEF MonitorsOnce
  <2> QED
    BY Payments DEF One
<1> QED
  BY <1>1, DashInvariant, PTL

-----------------------------------------------------------------------------
(* What users have edited.                                                 *)

\* A server is brought to save by itself only.
LEMMA OwnStep ==
    ASSUME DashInv, [Next]_vars, NEW p \in Syncers, sync'[p].pc \in {"insert", "gauges"},
           sync'[p].pc # sync[p].pc
    PROVE  SyncStep(p)
<1>1. sync \in [Savers -> SyncRecs] /\ Syncers \subseteq Savers
  BY DEF DashInv, DashTypes, Savers
<1>2. ASSUME NEW q \in Savers, q # p, SyncStep(q) PROVE sync'[p] = sync[p]
  BY <1>1, <1>2 DEF SyncStep, SyncRead, SyncCheck, SaveDelete, SaveInsert, SaveParts, SaveMonitors,
                    SaveFails, Skips, Ends
<1>3. ASSUME NEW q \in Syncers, NEW job \in BOOLEAN, SyncBegin(q, job)
      PROVE  sync'[p].pc = sync[p].pc \/ sync'[p].pc = "read"
  <2> DEFINE r == [sync[q] EXCEPT !.pc = "read", !.job = job]
  <2>1. sync' = sync \/ sync' = [sync EXCEPT ![q] = r]
    BY <1>3 DEF SyncBegin
  <2>2. r.pc = "read"
    BY <1>1 DEF SyncRecs
  <2> HIDE DEF r
  <2> QED
    BY <1>1, <2>1, <2>2
<1>4. ASSUME NEW q \in Syncers, SyncCut(q) PROVE sync'[p] = sync[p] \/ sync'[p].pc = "idle"
  BY <1>1, <1>4, IdleSaver DEF SyncCut, SaveFails, Ends
<1>5. ASSUME NEW t \in Tpls, UserStep(t) PROVE sync'[p] = sync[p]
  BY <1>1, <1>5, SaversAssumption
     DEF UserStep, EditGauge, EditColumn, EditPart, EditTable, Rename, Pin, DeleteDash, Edits, FromYAML
<1>6. ASSUME UNCHANGED dashVars PROVE FALSE
  BY <1>6 DEF dashVars
<1>7. ASSUME NEW q \in Servers, \/ createProject(q) \/ InsertErrorMonitor(q) \/ Serves(q)
      PROVE  FALSE
  BY <1>6, <1>7 DEF createProject, InsertErrorMonitor, Serves
<1>8. ASSUME NEW q \in Servers, syncDashboards(q) \/ TakeJob(q) PROVE FALSE
  BY <1>3, <1>8, ServersAssumption DEF syncDashboards, TakeJob
<1>9. ASSUME NEW q \in Servers, Crash(q) PROVE FALSE
  BY <1>4, <1>9, ServersAssumption DEF Crash
<1>10. ASSUME NEW q \in Processes, Migrates(q) PROVE FALSE
  BY <1>6, <1>10 DEF Migrates
<1>11. ASSUME NEW q \in Savers, Saves(q) PROVE SyncStep(p)
  BY <1>2, <1>11 DEF Saves
<1>12. ~Commands /\ ~CommandCrash /\ ~UNCHANGED vars
  BY <1>6 DEF Commands, CommandCrash, vars
<1>13. ~ReceiveMetric
  BY DEF ReceiveMetric, NewMetric
<1>14. ~UserEdits
  BY <1>5 DEF UserEdits
<1> QED
  BY <1>7, <1>8, <1>9, <1>10, <1>11, <1>12, <1>13, <1>14 DEF Next

\* A server that builds a dashboard again takes away no edit of its table or its
\* parts from before the server looked, also none that follows a YAML, and keeps
\* the name (isDashChanged and the copy of the name in Save).  Only what leaves
\* no trace in updated_at goes: a YAML that nobody has edited since, and pins.
THEOREM EditsSurvive == Spec => EditsKept
<1> DEFINE Kept(p) ==
        /\ sync[p].pc = "delete" /\ sync'[p].pc = "insert" =>
            LET d == dash[Tpl(p)]
            IN  d.exists /\ (~(d.own \subseteq Unmarked) \/ d.name # Old(p).name) => Tpl(p) \in late
        /\ sync[p].pc = "insert" /\ sync'[p].pc = "gauges" /\ ~dash[Tpl(p)].exists /\ Old(p).exists =>
            dash'[Tpl(p)].name = Old(p).name
<1>1. ASSUME DashInv, [Next]_vars, NEW p \in Syncers PROVE Kept(p)
  <2>1. ASSUME sync[p].pc = "delete",
               LET d == dash[Tpl(p)]
               IN  d.exists /\ (~(d.own \subseteq Unmarked) \/ d.name # Old(p).name)
        PROVE  Tpl(p) \in late
    <3>0. Tpl(p) \in Tpls /\ dash[Tpl(p)] \in Made
      BY <1>1, <2>1, AtHand, DashFields DEF Savers, DashInv, DashTypes
    <3>5. LET d == dash[Tpl(p)] IN d.own \subseteq Unmarked \/ d.updated \/ d.touched # {}
      BY <3>0 DEF Made, Told
    <3>1. /\ sync[p].todo # << >> /\ Tpl(p) = sync[p].todo[1] /\ Tpl(p) = Head(sync[p].todo)
          /\ Len(sync[p].todo) \in Nat /\ Len(sync[p].todo) >= 1
          /\ Old(p) = sync[p].old[Tpl(p)] /\ Old(p).exists
      BY <1>1, <2>1, AtHand DEF Savers, SaverOK
    <3>2. KeptBy(sync[p], dash, late) /\ 1 \in 1..Len(sync[p].todo)
      BY <1>1, <3>1 DEF DashInv
    <3>3. Tpl(p) \in late \/ Same(Old(p), dash[Tpl(p)])
      BY <2>1, <3>1, <3>2 DEF KeptBy
    <3>4. ~Old(p).updated /\ (Tpl(p) \in late \/ ~dash[Tpl(p)].exists \/ dash[Tpl(p)].touched = {})
      BY <2>1, <3>1, <3>2 DEF KeptBy
    <3> QED
      BY <2>1, <3>1, <3>3, <3>4, <3>5 DEF Same
  <2>2. ASSUME sync[p].pc = "insert", sync'[p].pc = "gauges", ~dash[Tpl(p)].exists, Old(p).exists
        PROVE  dash'[Tpl(p)].name = Old(p).name
    <3>1. SyncStep(p)
      BY <1>1, <2>2, OwnStep
    <3>2. SaveInsert(p)
      BY <2>2, <3>1 DEF SyncStep, SyncRead, SyncCheck, SaveDelete, SaveParts, SaveMonitors
    <3>3. p # User /\ Tpl(p) \in Tpls /\ dash \in [Tpls -> Dashes]
      BY <1>1, <2>2, AtHand, SaversAssumption DEF Savers, DashInv, DashTypes
    <3>4. dash' = [dash EXCEPT ![Tpl(p)] = NewDash(Old(p).name, Own(p))]
      BY <2>2, <3>2, <3>3 DEF SaveInsert
    <3>5. NewDash(Old(p).name, Own(p)).name = Old(p).name
      BY DEF NewDash
    <3> QED
      BY <3>3, <3>4, <3>5
  <2> QED
    BY <2>1, <2>2
<1>2. DashInv /\ [Next]_vars => [\A p \in Syncers : Kept(p)]_dashVars
  BY <1>1
<1> QED
  BY <1>2, DashInvariant, PTL DEF Spec, EditsKept
=============================================================================
