------------------------- MODULE MetricAlertsProofs -------------------------
(***************************************************************************)
(* Proofs about the alerting manager and its users, for every number of    *)
(* monitors, series, users, alerts and events and every clock: the events  *)
(* of an alert are one history, in which a change of status changes it,    *)
(* reminders are spaced, a pause ends by a user only, and the tables       *)
(* implement an AlertLife.                                                 *)
(***************************************************************************)
EXTENDS MetricAlerts, FiniteSetTheorems, SequenceTheorems, TLAPS

-----------------------------------------------------------------------------
(* The inductive invariant.                                                *)

AlertRows == [series : Series, event : 1..Len(events)]
EventRows == [alert : AlertIds, name : Names, status : Statuses,
              createdAt : Int, clonedFrom : 0..MaxEvents]
Selected == [id : Monitors, state : {"active", "firing", "no-data"}]

EventPlans == [op : {"event"}, series : Series, alert : AlertIds, base : 1..MaxEvents,
               name : Names, status : Statuses, at : Int]
CreatePlans == [op : {"create"}, series : Series, at : Int]
NotifyPlans == [op : {"notify"}, series : Series, event : 0..MaxEvents]

\* What an event with this name, status and time does to the event before it.
Follows(prev, name, status, at) ==
    /\ name \in {"status-changed", "recurring"}
    /\ name = "status-changed" => prev.status # status
    /\ name = "recurring" => /\ prev.status = "open" /\ status = "open"
                             /\ at - prev.createdAt >= RemindAfter

\* Event i of alert a is the last one in es.
LastEvent(es, a, i) ==
    /\ i \in 1..Len(es) /\ es[i].alert = a
    /\ \A j \in 1..Len(es) : es[j].alert = a => j <= i

\* Event i is the first one of its alert, or a clone of the one before it.
InHistory(es, i) ==
    LET e == es[i]
    IN  \/ /\ e.name = "created" /\ e.clonedFrom = 0
           /\ \A j \in 1..(i - 1) : es[j].alert # e.alert
        \/ /\ e.clonedFrom \in 1..(i - 1) /\ es[e.clonedFrom].alert = e.alert
           /\ \A j \in 1..(i - 1) : es[j].alert = e.alert => j <= e.clonedFrom
           /\ Follows(es[e.clonedFrom], e.name, e.status, e.createdAt)

\* A plan still fits the event that it was made from, though that may not be
\* the last one of its alert any more.
Fits(p, es) ==
    /\ p.base \in 1..Len(es)
    /\ Follows(es[p.base], p.name, p.status, p.at)

\* The tables alerts and alert_events; the unique index leaves one row.
StoreOK ==
    /\ alerts \in [AlertIds -> AlertRows \cup {None}]
    /\ events \in Seq(EventRows) /\ Len(events) <= MaxEvents
    /\ \A i \in 1..Len(events) : InHistory(events, i)
    /\ \A a \in Rows : LastEvent(events, a, alerts[a].event)
    /\ \A a, b \in Rows : a = b

OthersOK ==
    /\ now \in 0..MaxTime
    /\ monitors \in [Monitors -> MonitorStates \cup {None}]
    /\ jobs \subseteq 0..Len(events) /\ gaveUp \subseteq 0..Len(events)
    /\ crashed \in BOOLEAN

\* The manager never works on a monitor that was paused when it was selected.
ManagerOK ==
    /\ mpc \in {"sleep", "monitor", "series", "write", "notify"} /\ firing \in BOOLEAN
    /\ todo \subseteq Selected /\ left \subseteq Series
    /\ cur \in Selected \cup {None}
    /\ mplan \in Plans \cup {None}
    /\ mpc \in {"series", "write", "notify"} => cur \in Selected
    /\ mpc = "write" => mplan \in CreatePlans \/ (mplan \in EventPlans /\ Fits(mplan, events))
    /\ mpc = "notify" => mplan \in NotifyPlans /\ mplan.event <= Len(events)

UsersOK ==
    /\ upc \in [Users -> {"idle", "write", "notify"}]
    /\ uplan \in [Users -> Plans \cup {None}]
    /\ \A u \in Users :
        /\ upc[u] = "write" => uplan[u] \in EventPlans /\ Fits(uplan[u], events)
        /\ upc[u] = "notify" => uplan[u] \in NotifyPlans /\ uplan[u].event <= Len(events)

AlertInv == StoreOK /\ OthersOK /\ ManagerOK /\ UsersOK

-----------------------------------------------------------------------------
(* Events are appended to a history.                                       *)

\* The events that were there stay where they are.
LEMMA AppendEvent ==
    ASSUME NEW es \in Seq(EventRows), NEW e \in EventRows
    PROVE  /\ Append(es, e) \in Seq(EventRows)
           /\ Len(es) \in Nat /\ Len(Append(es, e)) = Len(es) + 1
           /\ \A i \in 1..Len(es) : Append(es, e)[i] = es[i] /\ es[i] \in EventRows
           /\ Append(es, e)[Len(es) + 1] = e
BY AppendProperties, LenProperties, ElementOfSeq

\* Later events change nothing of what a plan was made from.
LEMMA FitsLater ==
    ASSUME NEW es \in Seq(EventRows), NEW e \in EventRows, NEW p, Fits(p, es)
    PROVE  Fits(p, Append(es, e))
<1>1. p.base \in 1..Len(es) /\ Append(es, e)[p.base] = es[p.base]
  BY AppendEvent DEF Fits
<1>2. p.base \in 1..Len(Append(es, e))
  BY <1>1, AppendEvent
<1> QED
  BY <1>1, <1>2 DEF Fits

\* An event that follows on the last one of its alert, or is the first one,
\* goes on with the history.
LEMMA AppendHistory ==
    ASSUME NEW es \in Seq(EventRows), NEW e \in EventRows,
           \A i \in 1..Len(es) : InHistory(es, i),
           \/ /\ e.name = "created" /\ e.clonedFrom = 0
              /\ \A i \in 1..Len(es) : es[i].alert # e.alert
           \/ /\ LastEvent(es, e.alert, e.clonedFrom)
              /\ Follows(es[e.clonedFrom], e.name, e.status, e.createdAt)
    PROVE  \A i \in 1..Len(Append(es, e)) : InHistory(Append(es, e), i)
<1> DEFINE n == Len(es)
           t == Append(es, e)
<1>1. /\ n \in Nat /\ Len(t) = n + 1 /\ t[n + 1] = e
      /\ \A i \in 1..n : t[i] = es[i] /\ es[i] \in EventRows
  BY AppendEvent
<1> HIDE DEF t
<1> SUFFICES ASSUME NEW i \in 1..(n + 1) PROVE InHistory(t, i)
  BY <1>1 DEF t
<1>2. CASE i \in 1..n
  <2>1. InHistory(es, i) /\ t[i] = es[i]
    BY <1>1, <1>2
  <2>2. \A j \in 1..(i - 1) : t[j] = es[j]
    BY <1>1, <1>2
  <2> QED
    BY <2>1, <2>2 DEF InHistory
<1>3. CASE i = n + 1
  <2>1. t[i] = e /\ 1..(i - 1) = 1..n
    BY <1>1, <1>3
  <2>2. \A j \in 1..n : t[j] = es[j]
    BY <1>1
  <2> HIDE DEF n
  <2>3. CASE /\ e.name = "created" /\ e.clonedFrom = 0
             /\ \A j \in 1..Len(es) : es[j].alert # e.alert
    BY <2>1, <2>2, <2>3 DEF InHistory, n
  <2>4. CASE /\ LastEvent(es, e.alert, e.clonedFrom)
             /\ Follows(es[e.clonedFrom], e.name, e.status, e.createdAt)
    BY <2>1, <2>2, <2>4 DEF InHistory, LastEvent, n
  <2> QED
    BY <2>3, <2>4
<1> QED
  BY <1>1, <1>2, <1>3

\* The last event of each alert after one was appended.
LEMMA LastEvents ==
    ASSUME NEW es \in Seq(EventRows), NEW e \in EventRows
    PROVE  /\ LastEvent(Append(es, e), e.alert, Len(es) + 1)
           /\ \A a, i : LastEvent(es, a, i) /\ a # e.alert => LastEvent(Append(es, e), a, i)
<1> DEFINE n == Len(es)
           t == Append(es, e)
<1>1. /\ n \in Nat /\ Len(t) = n + 1 /\ t[n + 1] = e
      /\ \A i \in 1..n : t[i] = es[i]
  BY AppendEvent
<1> HIDE DEF t
<1>2. LastEvent(t, e.alert, n + 1)
  BY <1>1 DEF LastEvent
<1>3. ASSUME NEW a, NEW i, LastEvent(es, a, i), a # e.alert PROVE LastEvent(t, a, i)
  <2>1. i \in 1..n /\ i \in 1..(n + 1) /\ t[i].alert = a
    BY <1>1, <1>3 DEF LastEvent
  <2>2. \A j \in 1..(n + 1) : t[j].alert = a => j \in 1..n
    BY <1>1, <1>3
  <2> QED
    BY <1>1, <1>3, <2>1, <2>2 DEF LastEvent
<1> QED
  BY <1>2, <1>3 DEF t

-----------------------------------------------------------------------------
(* The transactions.                                                       *)

\* A plan has fields of the right kind.
LEMMA PlanKinds ==
    /\ Plans = EventPlans \cup CreatePlans \cup NotifyPlans
    /\ \A p \in EventPlans :
        /\ p.op = "event" /\ p.series \in Series /\ p.alert \in AlertIds /\ p.base \in 1..MaxEvents
        /\ p.name \in Names /\ p.status \in Statuses /\ p.at \in Int
    /\ \A p \in CreatePlans : p.op = "create" /\ p.series \in Series /\ p.at \in Int
    /\ \A p \in NotifyPlans : p.op = "notify" /\ p.series \in Series /\ p.event \in 0..MaxEvents
BY DEF Plans, EventPlans, CreatePlans, NotifyPlans

\* The rows of alerts.
LEMMA RowOf ==
    ASSUME StoreOK, NEW a \in Rows
    PROVE  /\ a \in AlertIds /\ alerts[a] \in AlertRows
           /\ alerts[a].series \in Series /\ alerts[a].event \in 1..Len(events)
           /\ EventOf(a) \in EventRows /\ alerts[a].event \in 1..MaxEvents
<1>1. a \in AlertIds /\ alerts[a] \in AlertRows
  BY DEF StoreOK, Rows
<1>2. alerts[a].series \in Series /\ alerts[a].event \in 1..Len(events)
  BY <1>1 DEF AlertRows
<1>3. EventOf(a) \in EventRows
  BY <1>2, ElementOfSeq DEF EventOf, StoreOK
<1>4. Len(events) \in Nat /\ MaxEvents \in Nat /\ Len(events) <= MaxEvents
  BY LenProperties, BoundsAssumption DEF StoreOK
<1> QED
  BY <1>1, <1>2, <1>3, <1>4

\* InsertAlertEvent: the alert still points to the event that the new one is a
\* clone of, which is therefore its last one.
LEMMA InsertAlertEventStore ==
    ASSUME StoreOK, NEW p \in EventPlans, Fits(p, events), InsertAlertEvent(p)
    PROVE  /\ StoreOK' /\ Len(events') = Len(events) + 1
           /\ \E e \in EventRows : events' = Append(events, e)
<1> DEFINE a == p.alert
           n == Len(events)
           e == [alert |-> p.alert, name |-> p.name, status |-> p.status,
                 createdAt |-> p.at, clonedFrom |-> p.base]
           row == [alerts[a] EXCEPT !.event = n + 1]
<1>1. /\ a \in AlertIds /\ alerts[a] # None /\ alerts[a].event = p.base
      /\ events \in Seq(EventRows) /\ n \in Nat /\ n < MaxEvents
      /\ events' = Append(events, e) /\ alerts' = [alerts EXCEPT ![a] = row]
  BY PlanKinds, LenProperties DEF InsertAlertEvent, Unchanged, StoreOK
<1>2. e \in EventRows
  BY PlanKinds DEF EventRows
<1>3. a \in Rows /\ alerts[a] \in AlertRows
  BY <1>1, RowOf DEF Rows
<1>4. LastEvent(events, a, p.base) /\ Follows(events[p.base], p.name, p.status, p.at)
  BY <1>1, <1>3 DEF StoreOK, Fits
<1>5. /\ e.alert = a /\ e.clonedFrom = p.base /\ e.name = p.name /\ e.status = p.status
      /\ e.createdAt = p.at
  OBVIOUS
<1> HIDE DEF e
<1>6. events' \in Seq(EventRows) /\ Len(events') = n + 1
  BY <1>1, <1>2, AppendEvent
<1>7. \A i \in 1..Len(events') : InHistory(events', i)
  BY <1>1, <1>2, <1>4, <1>5, AppendHistory DEF StoreOK
<1>8. row.event = n + 1 /\ row.series = alerts[a].series /\ row \in [series : Series, event : 1..(n + 1)]
  <2>1. n + 1 \in 1..(n + 1)
    BY <1>1
  <2> HIDE DEF n
  <2> QED
    BY <1>3, <2>1 DEF AlertRows
<1> HIDE DEF row
<1>9. alerts' \in [AlertIds -> [series : Series, event : 1..(n + 1)] \cup {None}]
  <2>1. \A b \in AlertIds : alerts[b] \in [series : Series, event : 1..(n + 1)] \cup {None}
    <3>1. 1..n \subseteq 1..(n + 1)
      BY <1>1
    <3> HIDE DEF n
    <3>2. AlertRows \subseteq [series : Series, event : 1..(n + 1)]
      BY <3>1 DEF AlertRows, n
    <3> QED
      BY <3>2 DEF StoreOK
  <2> QED
    BY <1>1, <1>8, <2>1 DEF StoreOK
<1>10. /\ alerts'[a] = row
       /\ \A b \in AlertIds : b # a => alerts'[b] = alerts[b]
       /\ Rows' \subseteq Rows
  BY <1>1, <1>3 DEF StoreOK, Rows
<1>11. \A b \in Rows' : b = a
  BY <1>3, <1>10 DEF StoreOK
<1>12. \A b \in Rows' : LastEvent(events', b, alerts'[b].event)
  BY <1>1, <1>2, <1>5, <1>8, <1>10, <1>11, LastEvents
<1>13. StoreOK'
  <2>1. Len(events') <= MaxEvents
    BY <1>1, <1>6, BoundsAssumption
  <2>2. AlertRows' = [series : Series, event : 1..(n + 1)]
    BY <1>6 DEF AlertRows
  <2> QED
    BY <1>6, <1>7, <1>9, <1>11, <1>12, <2>1, <2>2 DEF StoreOK
<1> QED
  BY <1>1, <1>2, <1>6, <1>13

\* InsertAlert: there was no row, and the new alert has no events yet.
LEMMA InsertAlertStore ==
    ASSUME StoreOK, NEW p \in CreatePlans, InsertAlert(p)
    PROVE  /\ StoreOK' /\ Len(events') = Len(events) + 1
           /\ \E e \in EventRows : events' = Append(events, e)
<1> DEFINE n == Len(events)
           row == [series |-> p.series, event |-> n + 1]
<1>1. PICK a \in AlertIds :
        /\ \A i \in 1..Len(events) : events[i].alert # a
        /\ events' = Append(events, [alert |-> a, name |-> "created", status |-> "open",
                                     createdAt |-> p.at, clonedFrom |-> 0])
        /\ alerts' = [alerts EXCEPT ![a] = row]
  BY DEF InsertAlert
<1> DEFINE e == [alert |-> a, name |-> "created", status |-> "open",
                 createdAt |-> p.at, clonedFrom |-> 0]
<1>2. e \in EventRows
  BY PlanKinds, BoundsAssumption DEF EventRows, Names, Statuses
<1>3. e.alert = a /\ e.name = "created" /\ e.clonedFrom = 0
  OBVIOUS
<1>4. events' = Append(events, e)
  BY <1>1
<1> HIDE DEF e
<1>5. /\ events \in Seq(EventRows) /\ n \in Nat /\ n < MaxEvents /\ Rows = {}
  BY LenProperties DEF StoreOK, InsertAlert, Conflict, DedupHash
<1>6. events' \in Seq(EventRows) /\ Len(events') = n + 1
  BY <1>2, <1>4, <1>5, AppendEvent
<1>7. \A i \in 1..Len(events') : InHistory(events', i)
  BY <1>1, <1>2, <1>3, <1>4, <1>5, AppendHistory DEF StoreOK
<1>8. row.event = n + 1 /\ row \in [series : Series, event : 1..(n + 1)]
  <2>1. n + 1 \in 1..(n + 1) /\ p.series \in Series
    BY <1>5, PlanKinds
  <2> HIDE DEF n
  <2> QED
    BY <2>1
<1> HIDE DEF row
<1>9. /\ alerts'[a] = row
      /\ \A b \in AlertIds : b # a => alerts'[b] = None
      /\ \A b \in Rows' : b = a
  BY <1>1, <1>5 DEF StoreOK, Rows
<1>10. alerts' \in [AlertIds -> [series : Series, event : 1..(n + 1)] \cup {None}]
  <2>1. \A b \in AlertIds : alerts[b] = None
    BY <1>5 DEF Rows
  <2>2. alerts = [b \in AlertIds |-> None]
    BY <2>1 DEF StoreOK
  <2> QED
    BY <1>1, <1>8, <2>2
<1>11. \A b \in Rows' : LastEvent(events', b, alerts'[b].event)
  BY <1>2, <1>3, <1>4, <1>5, <1>8, <1>9, LastEvents
<1>12. StoreOK'
  <2>1. Len(events') <= MaxEvents
    BY <1>5, <1>6, BoundsAssumption
  <2>2. AlertRows' = [series : Series, event : 1..(n + 1)]
    BY <1>6 DEF AlertRows
  <2> QED
    BY <1>6, <1>7, <1>9, <1>10, <1>11, <2>1, <2>2 DEF StoreOK
<1> QED
  BY <1>2, <1>4, <1>6, <1>12

-----------------------------------------------------------------------------
(* What is planned.                                                        *)

\* The number of outlying points is a number.
LEMMA CheckCounts ==
    ASSUME NEW w, NEW min, NEW max
    PROVE  M!Check(w, CheckNumPoint, min, max).firingFor \in Nat
<1> DEFINE d == CheckNumPoint
           values == SubSeq(M!Fill(w), Len(w) - d + 1, Len(w))
           outliers == {i \in 1..d : M!isOutlier(values[i], min, max) # 0}
<1>1. d \in Nat
  BY BoundsAssumption
<1>2. IsFiniteSet(1..d) /\ outliers \subseteq 1..d
  BY <1>1, FS_Interval
<1>3. M!Cardinality(outliers) = Cardinality(outliers)
  BY DEF M!Cardinality, Cardinality
<1>4. M!Check(w, d, min, max).firingFor \in {0, M!Cardinality(outliers)}
  <2>1. CASE Len(w) < d
    BY <2>1 DEF M!Check
  <2>2. CASE ~(Len(w) < d)
    BY <2>2 DEF M!Check
  <2> QED
    BY <2>1, <2>2
<1> HIDE DEF outliers
<1>5. Cardinality(outliers) \in Nat
  BY <1>2, FS_Subset, FS_CardinalityType
<1> QED
  BY <1>3, <1>4, <1>5

\* StatusPlan: the plan to set another status fits the event of the alert.
LEMMA StatusPlanFits ==
    ASSUME StoreOK, NEW s \in Series, NEW a \in Rows, NEW status \in Statuses, NEW at \in Int,
           NEW p, p = StatusPlan(s, a, status, at)
    PROVE  /\ p \in EventPlans
           /\ EventOf(a).status # status => Fits(p, events)
           /\ (/\ EventOf(a).status = "open" /\ status = "open"
               /\ at - EventOf(a).createdAt >= RemindAfter) =>
                    LET r == [p EXCEPT !.name = "recurring"]
                    IN  r \in EventPlans /\ Fits(r, events)
<1> DEFINE r == [p EXCEPT !.name = "recurring"]
<1>1. a \in AlertIds /\ alerts[a].event \in 1..Len(events) /\ alerts[a].event \in 1..MaxEvents
  BY RowOf
<1>2. p \in EventPlans /\ r \in EventPlans
  BY <1>1 DEF StatusPlan, EventPlans, Names
<1>3. /\ p.base = alerts[a].event /\ p.name = "status-changed" /\ p.status = status /\ p.at = at
      /\ r.base = alerts[a].event /\ r.name = "recurring" /\ r.status = status /\ r.at = at
  BY DEF StatusPlan
<1>4. EventOf(a) = events[alerts[a].event]
  BY DEF EventOf
<1> HIDE DEF r
<1>5. EventOf(a).status # status => Fits(p, events)
  BY <1>1, <1>3, <1>4 DEF Fits, Follows
<1>6. /\ EventOf(a).status = "open" /\ status = "open"
      /\ at - EventOf(a).createdAt >= RemindAfter
      => Fits(r, events)
  BY <1>1, <1>3, <1>4 DEF Fits, Follows
<1> QED
  BY <1>2, <1>5, <1>6 DEF r

\* checkTimeseries plans nothing, a new alert, or an event that fits the one it
\* has read: with one row there is no doubt which of the matching alerts is open.
LEMMA CheckPlans ==
    ASSUME StoreOK, OthersOK, NEW s \in Series, NEW w,
           NEW open, open = (\E a \in Matching(s) : EventOf(a).status = "open"),
           NEW p, p = IF open THEN CheckOpenAlert(s, CHOOSE a \in Matching(s) : TRUE, w)
                      ELSE CheckFiring(s, Matching(s), w)
    PROVE  \/ p = None
           \/ p \in CreatePlans
           \/ p \in EventPlans /\ Fits(p, events)
<1> DEFINE found == Matching(s)
           a == CHOOSE b \in found : TRUE
<1>1. found \subseteq Rows
  BY DEF Matching
<1>2. now \in Int /\ CheckNumPoint \in Int
  BY BoundsAssumption DEF OthersOK
<1>3. found # {} => a \in found /\ a \in Rows
  BY <1>1
<1> HIDE DEF found
<1>4. "open" \in Statuses /\ "closed" \in Statuses
  BY DEF Statuses
<1>5. CASE open
  <2>1. a \in Rows /\ EventOf(a).status = "open"
    <3>1. PICK b \in found : EventOf(b).status = "open"
      BY <1>5 DEF found
    <3>2. b = a
      BY <1>1, <1>3, <3>1 DEF StoreOK
    <3> QED
      BY <1>3, <3>1, <3>2
  <2> HIDE DEF a
  <2> DEFINE at == now - CheckNumPoint + 1
             closing == StatusPlan(s, a, "closed", at)
             reminder == [StatusPlan(s, a, "open", now) EXCEPT !.name = "recurring"]
             due == now - EventOf(a).createdAt >= RemindAfter
  <2>2. p = CheckOpenAlert(s, a, w)
    BY <1>5 DEF a, found
  <2>3. CheckOpenAlert(s, a, w) \in {closing, None} \/ (CheckOpenAlert(s, a, w) = reminder /\ due)
    BY DEF CheckOpenAlert
  <2>4. at \in Int
    BY <1>2
  <2> HIDE DEF at
  <2>5. closing \in EventPlans /\ Fits(closing, events)
    BY <1>4, <2>1, <2>4, StatusPlanFits
  <2>6. due => reminder \in EventPlans /\ Fits(reminder, events)
    BY <1>2, <1>4, <2>1, StatusPlanFits
  <2> HIDE DEF closing, reminder, due
  <2> QED
    BY <2>2, <2>3, <2>5, <2>6
<1>6. CASE ~open
  <2> DEFINE res == M!Check(M!TrimLeadingNaN(w), CheckNumPoint, MinValue, MaxValue)
             at == now - res.firingFor + 1
             reopen == StatusPlan(s, a, "open", at)
             new == [op |-> "create", series |-> s, at |-> at]
  <2>1. res.firingFor \in Nat
    BY CheckCounts
  <2>2. at \in Int
    BY <1>2, <2>1
  <2>3. p \in {None, new} \/ (p = reopen /\ found # {})
    BY <1>6 DEF CheckFiring, found
  <2> HIDE DEF at
  <2>4. new \in CreatePlans
    BY <2>2 DEF CreatePlans
  <2>5. found # {} => EventOf(a).status # "open"
    BY <1>3, <1>6 DEF found
  <2> HIDE DEF a
  <2>6. found # {} => reopen \in EventPlans /\ Fits(reopen, events)
    BY <1>3, <1>4, <2>2, <2>5, StatusPlanFits
  <2> HIDE DEF new, reopen
  <2> QED
    BY <2>3, <2>4, <2>6
<1> QED
  BY <1>5, <1>6

-----------------------------------------------------------------------------
(* What a step leaves alone keeps what it was.                             *)

\* The table of events is left alone, or an event is appended.
EventsGrow == events' = events \/ \E e \in EventRows : events' = Append(events, e)

\* Plans fit, and notifications have their events, after that.
LEMMA PlansKept ==
    ASSUME StoreOK, EventsGrow
    PROVE  /\ \A p : Fits(p, events) => Fits(p, events')
           /\ \A i \in Nat : i <= Len(events) => i <= Len(events')
           /\ \A S : S \subseteq 0..Len(events) => S \subseteq 0..Len(events')
           /\ Len(events) <= Len(events')
<1>1. events \in Seq(EventRows) /\ Len(events) \in Nat
  BY LenProperties DEF StoreOK
<1>2. \A p : Fits(p, events) => Fits(p, events')
  BY <1>1, FitsLater DEF EventsGrow
<1>3. Len(events') \in {Len(events), Len(events) + 1}
  BY <1>1, AppendEvent DEF EventsGrow
<1> QED
  BY <1>1, <1>2, <1>3

\* A step that writes neither alerts nor events.
LEMMA StoreKept == ASSUME StoreOK, UNCHANGED <<alerts, events>> PROVE StoreOK'
BY DEF StoreOK, Rows, AlertRows

\* A step of a user.
LEMMA ManagerKept == ASSUME StoreOK, ManagerOK, UNCHANGED mgr, EventsGrow PROVE ManagerOK'
<1>1. mpc = "notify" => mplan.event \in Nat
  BY PlanKinds DEF ManagerOK
<1> QED
  BY <1>1, PlansKept DEF ManagerOK, mgr

\* A step of the manager or of another user.
LEMMA UsersKept == ASSUME StoreOK, UsersOK, UNCHANGED usr, EventsGrow PROVE UsersOK'
<1>1. \A u \in Users : upc[u] = "notify" => uplan[u].event \in Nat
  BY PlanKinds DEF UsersOK
<1> QED
  BY <1>1, PlansKept DEF UsersOK, usr

\* A step that may write an event.
LEMMA OthersKept ==
    ASSUME StoreOK, OthersOK, UNCHANGED <<now, monitors, notifs, crashed>>, EventsGrow
    PROVE  OthersOK'
BY PlansKept DEF OthersOK, notifs

-----------------------------------------------------------------------------
(* Every step keeps the invariant.                                         *)

\* A step of the manager that writes no event.
LEMMA ManagerSteps ==
    ASSUME AlertInv,
           \/ Tick \/ TickDone \/ MetricMissing \/ QueryFails \/ SelectTimeseries \/ MonitorDone
           \/ CheckTimeseries \/ ManagerWriteFails \/ ManagerNotify
    PROVE  AlertInv'
<1>1. UNCHANGED <<alerts, events, crashed, usr>> /\ EventsGrow
  BY DEF Tick, TickDone, MetricMissing, QueryFails, SelectTimeseries, MonitorDone,
         CheckTimeseries, ManagerWriteFails, ManagerNotify, tables, notifs, EventsGrow
<1>2. StoreOK' /\ UsersOK'
  BY <1>1, StoreKept, UsersKept DEF AlertInv
<1>3. /\ now \in 0..MaxTime /\ monitors \in [Monitors -> MonitorStates \cup {None}]
      /\ jobs \subseteq 0..Len(events) /\ gaveUp \subseteq 0..Len(events) /\ crashed \in BOOLEAN
  BY DEF AlertInv, OthersOK
<1>4. /\ firing \in BOOLEAN /\ todo \subseteq Selected /\ left \subseteq Series
      /\ cur \in Selected \cup {None} /\ mplan \in Plans \cup {None}
      /\ mpc \in {"series", "write", "notify"} => cur \in Selected
  BY DEF AlertInv, ManagerOK
<1>5. \A m \in Monitors, to \in MonitorStates :
        [monitors EXCEPT ![m] = to] \in [Monitors -> MonitorStates \cup {None}]
  BY <1>3
<1>6. ASSUME NEW m \in Selected, NEW to \in {"active", "firing", "no-data", "failed"},
             UpdateMonitorState(m, to)
      PROVE  monitors' \in [Monitors -> MonitorStates \cup {None}]
  <2>1. m.id \in Monitors /\ to \in MonitorStates
    BY DEF Selected, MonitorStates
  <2> QED
    BY <1>3, <1>5, <1>6, <2>1 DEF UpdateMonitorState
<1>7. CASE Tick
  <2>1. todo' \subseteq Selected
    <3>1. ASSUME NEW m \in Monitors, monitors[m] \notin {"paused", "failed", None}
          PROVE  [id |-> m, state |-> monitors[m]] \in Selected
      BY <1>3, <3>1 DEF Selected, MonitorStates
    <3> QED
      BY <1>7, <3>1 DEF Tick
  <2>2. /\ mpc' = "monitor" /\ now' = now + 1 /\ now < MaxTime
        /\ UNCHANGED <<monitors, jobs, gaveUp, cur, left, firing, mplan>>
    BY <1>7 DEF Tick, tables, notifs
  <2>3. now' \in 0..MaxTime
    BY <1>3, <2>2, BoundsAssumption
  <2> QED
    BY <1>1, <1>2, <1>3, <1>4, <2>1, <2>2, <2>3 DEF AlertInv, OthersOK, ManagerOK
<1>8. CASE TickDone \/ QueryFails
  BY <1>1, <1>2, <1>3, <1>4, <1>8
     DEF AlertInv, OthersOK, ManagerOK, TickDone, QueryFails, tables, notifs
<1>9. CASE MetricMissing
  <2>1. monitors' \in [Monitors -> MonitorStates \cup {None}]
    BY <1>4, <1>6, <1>9 DEF MetricMissing
  <2> QED
    BY <1>1, <1>2, <1>3, <1>4, <1>9, <2>1 DEF AlertInv, OthersOK, ManagerOK, MetricMissing, notifs
<1>10. CASE SelectTimeseries
  <2>1. PICK m \in todo, S \in SUBSET Series :
            /\ todo' = todo \ {m}
            /\ \/ /\ UpdateMonitorState(m, "no-data")
                  /\ UNCHANGED <<mpc, cur, left, firing>>
               \/ /\ cur' = m /\ left' = S /\ firing' = FALSE /\ mpc' = "series"
                  /\ UNCHANGED monitors
    BY <1>10 DEF SelectTimeseries
  <2>2. monitors' \in [Monitors -> MonitorStates \cup {None}]
    BY <1>3, <1>4, <1>6, <2>1
  <2>3. mpc = "monitor" /\ UNCHANGED <<now, jobs, gaveUp, mplan>>
    BY <1>10 DEF SelectTimeseries, notifs
  <2>4. ManagerOK'
    BY <1>4, <2>1, <2>3 DEF ManagerOK
  <2> QED
    BY <1>1, <1>2, <1>3, <2>2, <2>3, <2>4 DEF AlertInv, OthersOK
<1>11. CASE MonitorDone
  <2>1. monitors' \in [Monitors -> MonitorStates \cup {None}]
    BY <1>3, <1>4, <1>6, <1>11 DEF MonitorDone
  <2> QED
    BY <1>1, <1>2, <1>3, <1>4, <1>11, <2>1 DEF AlertInv, OthersOK, ManagerOK, MonitorDone, notifs
<1>12. CASE CheckTimeseries
  <2>1. PICK s \in left, w \in Windows :
            LET found == Matching(s)
                open == \E a \in found : EventOf(a).status = "open"
                plan == IF open THEN CheckOpenAlert(s, CHOOSE a \in found : TRUE, w)
                        ELSE CheckFiring(s, found, w)
            IN  /\ left' = left \ {s}
                /\ mplan' = plan
                /\ mpc' = IF plan = None THEN "series" ELSE "write"
                /\ firing' = (firing \/ (plan = None /\ open))
    BY <1>12 DEF CheckTimeseries
  <2> DEFINE open == \E a \in Matching(s) : EventOf(a).status = "open"
             plan == IF open THEN CheckOpenAlert(s, CHOOSE a \in Matching(s) : TRUE, w)
                     ELSE CheckFiring(s, Matching(s), w)
  <2>2. plan = None \/ plan \in CreatePlans \/ (plan \in EventPlans /\ Fits(plan, events))
    BY <1>4, CheckPlans DEF AlertInv
  <2>3. /\ left' = left \ {s} /\ mplan' = plan /\ firing' \in BOOLEAN
        /\ mpc' = IF plan = None THEN "series" ELSE "write"
    BY <2>1
  <2> HIDE DEF plan, open
  <2>4. cur \in Selected /\ UNCHANGED <<now, monitors, jobs, gaveUp, todo, cur>>
    BY <1>4, <1>12 DEF CheckTimeseries, tables, notifs
  <2>5. ManagerOK'
    BY <1>1, <1>4, <2>2, <2>3, <2>4, PlanKinds DEF ManagerOK
  <2> QED
    BY <1>1, <1>2, <1>3, <2>4, <2>5 DEF AlertInv, OthersOK
<1>13. CASE ManagerWriteFails
  BY <1>1, <1>2, <1>3, <1>4, <1>13
     DEF AlertInv, OthersOK, ManagerOK, ManagerWriteFails, tables, notifs
<1>14. CASE ManagerNotify
  <2>1. mplan.event \in 0..Len(events) /\ cur \in Selected
    <3>1. mplan \in NotifyPlans /\ mplan.event <= Len(events) /\ mpc = "notify"
      BY <1>14 DEF ManagerNotify, AlertInv, ManagerOK
    <3>2. Len(events) \in Nat
      BY LenProperties DEF AlertInv, StoreOK
    <3> QED
      BY <1>4, <3>1, <3>2, PlanKinds
  <2>2. jobs' \subseteq 0..Len(events) /\ gaveUp' \subseteq 0..Len(events)
    BY <1>3, <1>14, <2>1 DEF ManagerNotify, Schedule
  <2> QED
    BY <1>1, <1>2, <1>3, <1>4, <1>14, <2>1, <2>2
       DEF AlertInv, OthersOK, ManagerOK, ManagerNotify, tables
<1> QED
  BY <1>7, <1>8, <1>9, <1>10, <1>11, <1>12, <1>13, <1>14

\* The manager's transaction commits.
LEMMA ManagerWriteInv == ASSUME AlertInv, ManagerWrite PROVE AlertInv'
<1>1. /\ mpc = "write" /\ cur \in Selected
      /\ mplan \in CreatePlans \/ (mplan \in EventPlans /\ Fits(mplan, events))
      /\ UNCHANGED <<now, monitors, jobs, gaveUp, crashed, todo, cur, left, usr>>
      /\ mpc' = "notify" /\ firing' \in BOOLEAN
      /\ mplan' = [op |-> "notify", series |-> mplan.series,
                   event |-> IF events' = events THEN 0 ELSE Len(events) + 1]
  BY DEF ManagerWrite, AlertInv, ManagerOK, notifs
<1>2. StoreOK' /\ EventsGrow /\ (events' = events \/ Len(events') = Len(events) + 1)
  <2>1. CASE mplan \in EventPlans /\ Fits(mplan, events) /\ InsertAlertEvent(mplan)
    BY <2>1, InsertAlertEventStore DEF AlertInv, EventsGrow
  <2>2. CASE mplan \in CreatePlans /\ InsertAlert(mplan)
    BY <2>2, InsertAlertStore DEF AlertInv, EventsGrow
  <2>3. CASE UNCHANGED <<alerts, events>>
    BY <2>3, StoreKept DEF AlertInv, EventsGrow
  <2> QED
    BY <1>1, <2>1, <2>2, <2>3, PlanKinds DEF ManagerWrite
<1>3. UsersOK' /\ OthersOK'
  BY <1>1, <1>2, UsersKept, OthersKept DEF AlertInv, notifs
<1>4. mplan' \in NotifyPlans /\ mplan'.event <= Len(events')
  <2>1. Len(events') \in 0..MaxEvents
    BY <1>2, LenProperties, BoundsAssumption DEF StoreOK
  <2>2. mplan.series \in Series
    BY <1>1, PlanKinds
  <2>3. mplan'.event \in 0..Len(events')
    BY <1>1, <1>2, <2>1
  <2> HIDE DEF NotifyPlans
  <2>4. mplan'.event \in 0..MaxEvents
    BY <2>1, <2>3, BoundsAssumption
  <2> QED
    BY <1>1, <2>1, <2>2, <2>3, <2>4 DEF NotifyPlans
<1>5. ManagerOK'
  BY <1>1, <1>4, PlanKinds DEF AlertInv, ManagerOK
<1> QED
  BY <1>2, <1>3, <1>5 DEF AlertInv

\* The requests of a user.
LEMMA UserSteps ==
    ASSUME AlertInv, NEW u \in Users, UserSelectAlert(u) \/ UserStep(u)
    PROVE  AlertInv'
<1>1. /\ UNCHANGED <<now, monitors, crashed, mgr>>
  BY DEF UserSelectAlert, UserStep, UserWrite, UserWriteFails, UserNotify, tables
<1>2. \A v \in Users :
        /\ uplan[v] \in Plans \cup {None} /\ upc[v] \in {"idle", "write", "notify"}
        /\ upc[v] = "write" => uplan[v] \in EventPlans /\ Fits(uplan[v], events)
        /\ upc[v] = "notify" => uplan[v] \in NotifyPlans /\ uplan[v].event <= Len(events)
  BY DEF AlertInv, UsersOK
<1>3. upc \in [Users -> {"idle", "write", "notify"}] /\ uplan \in [Users -> Plans \cup {None}]
  BY DEF AlertInv, UsersOK
<1>4. ASSUME NEW pc \in {"idle", "write", "notify"}, NEW p \in Plans \cup {None},
             upc' = [upc EXCEPT ![u] = pc], uplan' = [uplan EXCEPT ![u] = p],
             pc = "write" => p \in EventPlans /\ Fits(p, events'),
             pc = "notify" => p \in NotifyPlans /\ p.event <= Len(events'),
             EventsGrow
      PROVE  UsersOK' /\ ManagerOK'
  <2>1. ManagerOK'
    BY <1>1, <1>4, ManagerKept DEF AlertInv
  <2>2. \A v \in Users :
            /\ upc[v] = "write" => Fits(uplan[v], events')
            /\ upc[v] = "notify" => uplan[v].event <= Len(events')
    BY <1>2, <1>4, PlansKept, PlanKinds DEF AlertInv
  <2>3. UsersOK'
    BY <1>2, <1>3, <1>4, <2>2 DEF UsersOK
  <2> QED
    BY <2>1, <2>3
<1>5. CASE UserSelectAlert(u)
  <2>1. PICK a \in Rows, status \in Statuses :
            /\ EventOf(a).status # status
            /\ uplan' = [uplan EXCEPT ![u] = StatusPlan(alerts[a].series, a, status,
                                                        EventOf(a).createdAt)]
    BY <1>5 DEF UserSelectAlert
  <2> DEFINE p == StatusPlan(alerts[a].series, a, status, EventOf(a).createdAt)
  <2>2. alerts[a].series \in Series /\ EventOf(a).createdAt \in Int
    BY RowOf DEF AlertInv, EventRows
  <2>3. p \in EventPlans /\ Fits(p, events)
    BY <2>1, <2>2, StatusPlanFits DEF AlertInv
  <2>4. uplan' = [uplan EXCEPT ![u] = p]
    BY <2>1
  <2> HIDE DEF p
  <2>5. /\ upc' = [upc EXCEPT ![u] = "write"] /\ EventsGrow
        /\ UNCHANGED <<alerts, events, jobs, gaveUp>>
    BY <1>5 DEF UserSelectAlert, EventsGrow, tables, notifs
  <2>6. UsersOK' /\ ManagerOK'
    BY <1>4, <2>3, <2>4, <2>5, PlanKinds
  <2>7. StoreOK' /\ OthersOK'
    BY <1>1, <2>5, StoreKept, OthersKept DEF AlertInv, notifs
  <2> QED
    BY <2>6, <2>7 DEF AlertInv
<1>6. CASE UserWrite(u)
  <2> DEFINE p == [op |-> "notify", series |-> uplan[u].series, event |-> Len(events) + 1]
  <2>1. uplan[u] \in EventPlans /\ Fits(uplan[u], events) /\ InsertAlertEvent(uplan[u])
    BY <1>2, <1>6 DEF UserWrite
  <2>2. StoreOK' /\ Len(events') = Len(events) + 1 /\ EventsGrow
    BY <2>1, InsertAlertEventStore DEF AlertInv, EventsGrow
  <2>3. p \in NotifyPlans /\ p.event = Len(events')
    <3>1. Len(events) + 1 \in 0..MaxEvents
      BY <2>2, LenProperties, BoundsAssumption DEF StoreOK
    <3>2. uplan[u].series \in Series
      BY <2>1, PlanKinds
    <3> QED
      BY <2>2, <3>1, <3>2 DEF NotifyPlans
  <2>4. upc' = [upc EXCEPT ![u] = "notify"] /\ uplan' = [uplan EXCEPT ![u] = p] /\ UNCHANGED notifs
    BY <1>6 DEF UserWrite
  <2> HIDE DEF p
  <2>5. Len(events') <= Len(events')
    BY <2>2, LenProperties DEF StoreOK
  <2>6. UsersOK' /\ ManagerOK'
    BY <1>4, <2>2, <2>3, <2>4, <2>5, PlanKinds
  <2>7. OthersOK'
    BY <1>1, <2>2, <2>4, OthersKept DEF AlertInv
  <2> QED
    BY <2>2, <2>6, <2>7 DEF AlertInv
<1>7. CASE UserWriteFails(u) \/ UserNotify(u)
  <2>1. /\ upc' = [upc EXCEPT ![u] = "idle"] /\ uplan' = [uplan EXCEPT ![u] = None]
        /\ UNCHANGED <<alerts, events>> /\ EventsGrow
    BY <1>7 DEF UserWriteFails, UserNotify, EventsGrow, tables
  <2>2. UsersOK' /\ ManagerOK' /\ StoreOK'
    BY <1>4, <2>1, StoreKept DEF AlertInv
  <2>3. jobs' \subseteq 0..Len(events) /\ gaveUp' \subseteq 0..Len(events)
    <3>1. CASE UserWriteFails(u)
      BY <3>1 DEF UserWriteFails, notifs, AlertInv, OthersOK
    <3>2. CASE UserNotify(u)
      <4>1. uplan[u] \in NotifyPlans /\ uplan[u].event <= Len(events) /\ Schedule(uplan[u])
        BY <1>2, <3>2 DEF UserNotify
      <4>2. Len(events) \in Nat
        BY LenProperties DEF AlertInv, StoreOK
      <4>3. uplan[u].event \in 0..Len(events)
        BY <4>1, <4>2, PlanKinds
      <4> QED
        BY <4>1, <4>3 DEF Schedule, AlertInv, OthersOK
    <3> QED
      BY <1>7, <3>1, <3>2
  <2>4. OthersOK'
    BY <1>1, <2>1, <2>3 DEF AlertInv, OthersOK
  <2> QED
    BY <2>2, <2>4 DEF AlertInv
<1> QED
  BY <1>5, <1>6, <1>7 DEF UserStep

\* Users delete alerts and change or delete monitors; the process is killed.
LEMMA OtherSteps ==
    ASSUME AlertInv,
           \/ UserDeleteAlert \/ Crash
           \/ \E m \in Monitors : UserPause(m) \/ UserActivate(m) \/ UserDeleteMonitor(m)
    PROVE  AlertInv'
<1>1. UNCHANGED <<now, events, jobs, gaveUp>> /\ EventsGrow
  BY DEF UserDeleteAlert, Crash, UserPause, UserActivate, UserSetMonitorState, UserDeleteMonitor,
         EventsGrow, tables, notifs
<1>2. ASSUME \A a \in AlertIds : alerts'[a] \in {alerts[a], None}, DOMAIN alerts' = AlertIds,
             \A a \in AlertIds : alerts[a] \in AlertRows \cup {None},
             alerts' \in [AlertIds -> AlertRows \cup {None}]
      PROVE  StoreOK'
  <2>1. \A a \in Rows' : a \in Rows /\ alerts'[a] = alerts[a]
    BY <1>2 DEF Rows
  <2>2. AlertRows' = AlertRows
    BY <1>1 DEF AlertRows
  <2> QED
    BY <1>1, <1>2, <2>1, <2>2 DEF AlertInv, StoreOK
<1>3. alerts \in [AlertIds -> AlertRows \cup {None}]
  BY DEF AlertInv, StoreOK
<1>4. CASE UserDeleteAlert
  <2>1. alerts' \in [AlertIds -> AlertRows \cup {None}] /\ StoreOK'
    BY <1>2, <1>3, <1>4 DEF UserDeleteAlert, Rows
  <2>2. UNCHANGED <<monitors, crashed, mgr, usr>>
    BY <1>4 DEF UserDeleteAlert
  <2> QED
    BY <1>1, <2>1, <2>2, ManagerKept, UsersKept, OthersKept DEF AlertInv, notifs
<1>5. CASE \E m \in Monitors : UserPause(m) \/ UserActivate(m) \/ UserDeleteMonitor(m)
  <2>1. StoreOK'
    <3>1. CASE UNCHANGED alerts
      BY <1>1, <3>1, StoreKept DEF AlertInv
    <3>2. ASSUME NEW m \in Monitors, UserDeleteMonitor(m) PROVE StoreOK'
      BY <1>2, <1>3, <3>2 DEF UserDeleteMonitor
    <3> QED
      BY <1>5, <3>1, <3>2 DEF UserPause, UserActivate, UserSetMonitorState
  <2>2. monitors' \in [Monitors -> MonitorStates \cup {None}] /\ UNCHANGED <<crashed, mgr, usr>>
    BY <1>5 DEF UserPause, UserActivate, UserSetMonitorState, UserDeleteMonitor, AlertInv, OthersOK,
                MonitorStates
  <2>3. OthersOK'
    BY <1>1, <2>2 DEF AlertInv, OthersOK
  <2> QED
    BY <1>1, <2>1, <2>2, <2>3, ManagerKept, UsersKept DEF AlertInv
<1>6. CASE Crash
  <2>1. StoreOK' /\ OthersOK'
    BY <1>1, <1>6, StoreKept DEF Crash, tables, AlertInv, OthersOK
  <2>2. ManagerOK' /\ UsersOK'
    BY <1>6 DEF Crash, ManagerOK, UsersOK
  <2> QED
    BY <2>1, <2>2 DEF AlertInv
<1> QED
  BY <1>4, <1>5, <1>6

-----------------------------------------------------------------------------
(* The theorems.                                                           *)

\* The tables are empty and nobody is at work.
LEMMA AlertInit == Init => AlertInv
<1> SUFFICES ASSUME Init PROVE AlertInv
  OBVIOUS
<1>1. events = << >> /\ Len(events) = 0 /\ Rows = {} /\ events \in Seq(EventRows)
  BY EmptySeq DEF Init, Rows
<1>2. StoreOK
  BY <1>1, BoundsAssumption DEF Init, StoreOK
<1>3. OthersOK
  <2>1. /\ 0 \in 0..MaxTime /\ FALSE \in BOOLEAN
        /\ [m \in Monitors |-> "active"] \in [Monitors -> MonitorStates \cup {None}]
    BY BoundsAssumption DEF MonitorStates
  <2> QED
    BY <2>1 DEF Init, OthersOK
<1>4. ManagerOK /\ UsersOK
  BY DEF Init, ManagerOK, UsersOK
<1> QED
  BY <1>2, <1>3, <1>4 DEF AlertInv

\* Every step keeps the invariant.
LEMMA AlertStep == AlertInv /\ [Next]_vars => AlertInv'
<1> SUFFICES ASSUME AlertInv, [Next]_vars PROVE AlertInv'
  OBVIOUS
<1>1. CASE UNCHANGED vars
  <2>1. /\ UNCHANGED <<alerts, events, now, monitors, notifs, crashed>> /\ UNCHANGED mgr
        /\ UNCHANGED usr /\ EventsGrow
    BY <1>1 DEF vars, notifs, mgr, usr, EventsGrow
  <2> QED
    BY <2>1, StoreKept, OthersKept, ManagerKept, UsersKept DEF AlertInv
<1>2. CASE Next
  BY <1>2, ManagerSteps, ManagerWriteInv, UserSteps, OtherSteps DEF Next, ManagerStep
<1> QED
  BY <1>1, <1>2

\* The invariant holds in every state.
LEMMA AlertInvariant == Spec => []AlertInv
BY AlertInit, AlertStep, PTL DEF Spec

\* Every variable has its type.
THEOREM AlertTypes == Spec => []TypeOK
<1>1. AlertInv => TypeOK
  <2> SUFFICES ASSUME AlertInv PROVE TypeOK
    OBVIOUS
  <2>1. Selected \subseteq [id : Monitors, state : MonitorStates]
    BY DEF Selected, MonitorStates
  <2>2. StoreOK /\ OthersOK /\ ManagerOK /\ UsersOK
    BY DEF AlertInv
  <2>3. /\ alerts \in [AlertIds -> [series : Series, event : 1..Len(events)] \cup {None}]
        /\ events \in Seq([alert : AlertIds, name : Names, status : Statuses,
                           createdAt : Int, clonedFrom : 0..MaxEvents])
        /\ Len(events) <= MaxEvents
    BY <2>2 DEF StoreOK, AlertRows, EventRows
  <2>4. /\ now \in 0..MaxTime /\ monitors \in [Monitors -> MonitorStates \cup {None}]
        /\ jobs \subseteq 0..Len(events) /\ gaveUp \subseteq 0..Len(events) /\ crashed \in BOOLEAN
    BY <2>2 DEF OthersOK
  <2>5. /\ mpc \in {"sleep", "monitor", "series", "write", "notify"} /\ firing \in BOOLEAN
        /\ todo \subseteq [id : Monitors, state : MonitorStates]
        /\ cur \in [id : Monitors, state : MonitorStates] \cup {None}
        /\ left \subseteq Series /\ mplan \in Plans \cup {None}
    BY <2>1, <2>2 DEF ManagerOK
  <2>6. upc \in [Users -> {"idle", "write", "notify"}] /\ uplan \in [Users -> Plans \cup {None}]
    BY <2>2 DEF UsersOK
  <2> QED
    BY <2>3, <2>4, <2>5, <2>6 DEF TypeOK
<1> QED
  BY <1>1, AlertInvariant, PTL

\* The maximum of a set is its member that is not below another.
LEMMA MaxIs ==
    ASSUME NEW S \in SUBSET Int, NEW c \in S, \A x \in S : x <= c
    PROVE  Max(S) = c
<1>1. \E x \in S : \A y \in S : x >= y
  OBVIOUS
<1>2. Max(S) \in S /\ \A y \in S : Max(S) >= y
  BY <1>1 DEF Max
<1>3. Max(S) >= c /\ Max(S) <= c /\ Max(S) \in Int /\ c \in Int
  BY <1>2
<1> QED
  BY <1>3

\* The event before event i of its alert, if there is one.
LEMMA EventBefore ==
    ASSUME StoreOK, NEW i \in 1..Len(events)
    PROVE  LET e == events[i]
               older == Older(e.alert, i)
           IN  \/ older = {} /\ e.name = "created" /\ e.clonedFrom = 0
               \/ /\ older # {} /\ Max(older) = e.clonedFrom
                  /\ Follows(events[Max(older)], e.name, e.status, e.createdAt)
<1> DEFINE e == events[i]
           older == Older(e.alert, i)
<1>1. InHistory(events, i) /\ i \in Nat
  BY DEF StoreOK
<1>2. CASE \A j \in 1..(i - 1) : events[j].alert # e.alert
  BY <1>1, <1>2 DEF InHistory, Older
<1>3. CASE /\ e.clonedFrom \in 1..(i - 1) /\ events[e.clonedFrom].alert = e.alert
           /\ \A j \in 1..(i - 1) : events[j].alert = e.alert => j <= e.clonedFrom
           /\ Follows(events[e.clonedFrom], e.name, e.status, e.createdAt)
  <2>1. e.clonedFrom \in older /\ older \subseteq Int /\ \A j \in older : j <= e.clonedFrom
    BY <1>1, <1>3 DEF Older
  <2> HIDE DEF older
  <2>2. older # {} /\ Max(older) = e.clonedFrom
    BY <2>1, MaxIs
  <2> QED
    BY <1>3, <2>2 DEF older
<1> QED
  BY <1>1, <1>2, <1>3 DEF InHistory

\* The events of an alert are one history, each a clone of the one before it,
\* and the alert points to the last: of two writers that read the same event
\* (the manager's updateAlertEvent and the API's) one is refused.
THEOREM OneHistory == Spec => []HistoryLinear
<1>1. AlertInv => HistoryLinear
  <2> SUFFICES ASSUME AlertInv PROVE HistoryLinear
    OBVIOUS
  <2>1. StoreOK
    BY DEF AlertInv
  <2>2. ASSUME NEW i \in 1..Len(events)
        PROVE  LET older == Older(events[i].alert, i)
               IN  events[i].clonedFrom = IF older = {} THEN 0 ELSE Max(older)
    BY <2>1, EventBefore
  <2>3. ASSUME NEW a \in Rows PROVE alerts[a].event = Max(Older(a, Len(events) + 1))
    <3> DEFINE c == alerts[a].event
               S == Older(a, Len(events) + 1)
    <3>1. LastEvent(events, a, c) /\ Len(events) \in Nat
      BY <2>1, LenProperties DEF StoreOK
    <3> HIDE DEF c
    <3>2. c \in S /\ S \subseteq Int /\ \A x \in S : x <= c
      BY <3>1 DEF LastEvent, Older
    <3> HIDE DEF S
    <3>3. Max(S) = c
      BY <3>2, MaxIs
    <3> QED
      BY <3>3 DEF S, c
  <2> QED
    BY <2>2, <2>3 DEF HistoryLinear
<1> QED
  BY <1>1, AlertInvariant, PTL

\* A status-changed event changes the status of its alert and a reminder is
\* about an open one, whatever checks and requests ran at the same time.
THEOREM StatusHistory == Spec => []StatusAlternates
<1>1. AlertInv => StatusAlternates
  <2> SUFFICES ASSUME AlertInv, NEW i \in 1..Len(events)
               PROVE  LET e == events[i]
                          older == Older(e.alert, i)
                      IN  /\ e.name = "created" <=> older = {}
                          /\ e.name = "status-changed" => events[Max(older)].status # e.status
                          /\ e.name = "recurring" => /\ events[Max(older)].status = "open"
                                                     /\ e.status = "open"
    BY DEF StatusAlternates
  <2> QED
    BY EventBefore DEF Follows, AlertInv
<1> QED
  BY <1>1, AlertInvariant, PTL

\* Only a user ends a pause: the manager updates the state of a monitor only
\* where it still is the one selected, and none is selected while paused.
THEOREM PauseEnds == Spec => PauseHolds
<1>1. ASSUME AlertInv, [Next]_vars
      PROVE  [\A m \in Monitors : monitors[m] = "paused" /\ monitors'[m] # "paused"
                  => UserActivate(m) \/ UserDeleteMonitor(m)]_vars
  <2> SUFFICES ASSUME NEW m \in Monitors, monitors[m] = "paused", monitors'[m] # "paused"
               PROVE  UserActivate(m) \/ UserDeleteMonitor(m)
    OBVIOUS
  <2>1. /\ monitors \in [Monitors -> MonitorStates \cup {None}]
        /\ todo \subseteq Selected
        /\ mpc = "series" => cur \in Selected
    BY <1>1 DEF AlertInv, OthersOK, ManagerOK
  <2>2. monitors' # monitors
    OBVIOUS
  <2>3. ASSUME NEW s \in Selected, NEW to \in MonitorStates, UpdateMonitorState(s, to)
        PROVE  monitors'[m] = monitors[m]
    <3>1. s.state # "paused" /\ s.id \in Monitors
      BY DEF Selected
    <3> QED
      BY <2>1, <2>3, <3>1 DEF UpdateMonitorState
  <2>4. ASSUME NEW n \in Monitors, UserPause(n) \/ UserActivate(n) \/ UserDeleteMonitor(n)
        PROVE  UserActivate(m) \/ UserDeleteMonitor(m)
    <3>1. CASE n = m
      BY <2>1, <2>4, <3>1 DEF UserPause, UserSetMonitorState
    <3>2. CASE n # m
      BY <2>1, <2>4, <3>2 DEF UserPause, UserActivate, UserSetMonitorState, UserDeleteMonitor
    <3> QED
      BY <3>1, <3>2
  <2>5. CASE UNCHANGED vars
    BY <2>2, <2>5 DEF vars
  <2>6. CASE Tick \/ ManagerStep
    <3>1. MetricMissing \/ SelectTimeseries \/ MonitorDone
      BY <2>2, <2>6 DEF Tick, ManagerStep, TickDone, QueryFails, CheckTimeseries, ManagerWrite,
                        ManagerWriteFails, ManagerNotify, tables
    <3>2. CASE MetricMissing
      <4>1. PICK s \in todo : UpdateMonitorState(s, "failed")
        BY <3>2 DEF MetricMissing
      <4> QED
        BY <2>1, <2>3, <4>1 DEF MonitorStates
    <3>3. CASE SelectTimeseries
      <4>1. PICK s \in todo : UpdateMonitorState(s, "no-data")
        BY <2>2, <3>3 DEF SelectTimeseries
      <4> QED
        BY <2>1, <2>3, <4>1 DEF MonitorStates
    <3>4. CASE MonitorDone
      <4>1. PICK to \in {"firing", "active"} : UpdateMonitorState(cur, to)
        BY <2>2, <3>4 DEF MonitorDone
      <4>2. cur \in Selected
        BY <2>1, <3>4 DEF MonitorDone
      <4> QED
        BY <2>3, <4>1, <4>2 DEF MonitorStates
    <3> QED
      BY <3>1, <3>2, <3>3, <3>4
  <2>7. CASE UserDeleteAlert \/ Crash \/ \E u \in Users : UserSelectAlert(u) \/ UserStep(u)
    BY <2>2, <2>7
       DEF UserDeleteAlert, Crash, UserSelectAlert, UserStep, UserWrite, UserWriteFails,
           UserNotify, tables
  <2> QED
    BY <1>1, <2>4, <2>5, <2>6, <2>7 DEF Next
<1> QED
  BY <1>1, AlertInvariant, PTL DEF Spec, PauseHolds

-----------------------------------------------------------------------------
(* Reminders.                                                              *)

Behind == IF CheckNumPoint > 1 THEN CheckNumPoint - 2 ELSE 0

\* No event of the alert is dated before this after e.
Earliest(e) == e.createdAt - IF e.name = "recurring" THEN Behind ELSE 0

EventTimes == \A i \in 1..Len(events) :
    /\ events[i].name = "created" => events[i].createdAt <= now - CheckNumPoint + 1
    /\ events[i].name = "recurring" => events[i].createdAt <= now

Times == \A j \in 1..Len(events) : \A i \in 1..(j - 1) :
    events[i].alert = events[j].alert /\ events[i].name # "status-changed"
        => events[j].createdAt >= Earliest(events[i])

\* The check of series s is still to come in this minute.
Waits(s) == s \in left \/ \E m \in todo : m.id = MonitorOf[s]

\* In a minute each monitor is checked once, and each of its series once.
ChecksOnce ==
    /\ \A m, n \in todo : m.id = n.id => m = n
    /\ mpc \in {"series", "write", "notify"} =>
        /\ \A s \in left : MonitorOf[s] = cur.id
        /\ \A m \in todo : m.id # cur.id
    /\ mpc = "write" => MonitorOf[mplan.series] = cur.id /\ mplan.series \notin left

\* An alert that was reminded of in this minute is not checked again in it.
RemindsOnce == \A i \in 1..Len(events) :
    events[i].name = "recurring" /\ events[i].createdAt = now /\ events[i].alert \in Rows =>
        /\ ~Waits(alerts[events[i].alert].series)
        /\ mpc = "write" /\ mplan.op = "event" => mplan.alert # events[i].alert

\* What the manager is about to write is of this minute, or dated back.
PlanTimes == mpc = "write" =>
    /\ mplan.op = "create" => mplan.at = now - CheckNumPoint + 1
    /\ mplan.op = "event" =>
        /\ mplan.at \in {now - CheckNumPoint + 1, now}
        /\ mplan.alert \in Rows => alerts[mplan.alert].series = mplan.series
        /\ mplan.name = "recurring" => mplan.at = now

\* A user copies the time of the event that was read.
CopiedTimes == \A u \in Users : upc[u] = "write" =>
    /\ uplan[u].at = events[uplan[u].base].createdAt
    /\ uplan[u].name = "status-changed"

SpacedInv == EventTimes /\ Times /\ ChecksOnce /\ RemindsOnce /\ PlanTimes /\ CopiedTimes

\* Rows may be deleted; those that are left are as they were.
RowsShrink == \A a \in Rows' : a \in Rows /\ alerts'[a] = alerts[a]

\* An event that is dated no earlier than allowed is added.
LEMMA AppendTimes ==
    ASSUME StoreOK, EventTimes, Times, now' = now, NEW e \in EventRows, events' = Append(events, e),
           e.name = "created" => e.createdAt <= now - CheckNumPoint + 1,
           e.name = "recurring" => e.createdAt <= now,
           \A i \in 1..Len(events) :
                events[i].alert = e.alert /\ events[i].name # "status-changed"
                    => e.createdAt >= Earliest(events[i])
    PROVE  EventTimes' /\ Times'
<1> DEFINE n == Len(events)
<1>1. /\ n \in Nat /\ Len(events') = n + 1 /\ events'[n + 1] = e
      /\ \A i \in 1..n : events'[i] = events[i]
  BY AppendEvent DEF StoreOK
<1>2. EventTimes'
  <2> SUFFICES ASSUME NEW i \in 1..(n + 1)
               PROVE  /\ events'[i].name = "created" => events'[i].createdAt <= now - CheckNumPoint + 1
                      /\ events'[i].name = "recurring" => events'[i].createdAt <= now
    BY <1>1 DEF EventTimes
  <2>1. CASE i \in 1..n
    BY <1>1, <2>1 DEF EventTimes
  <2>2. CASE i = n + 1
    BY <1>1, <2>2
  <2> QED
    BY <1>1, <2>1, <2>2
<1>3. Times'
  <2> SUFFICES ASSUME NEW j \in 1..(n + 1), NEW i \in 1..(j - 1),
                      events'[i].alert = events'[j].alert, events'[i].name # "status-changed"
               PROVE  events'[j].createdAt >= Earliest(events'[i])
    BY <1>1 DEF Times, Earliest
  <2>1. i \in 1..n /\ events'[i] = events[i]
    BY <1>1
  <2>2. CASE j \in 1..n
    BY <1>1, <2>1, <2>2 DEF Times
  <2>3. CASE j = n + 1
    BY <1>1, <2>1, <2>3
  <2> QED
    BY <1>1, <2>2, <2>3
<1> QED
  BY <1>2, <1>3

\* A step that writes no event in its minute.
LEMMA TimesKept ==
    ASSUME EventTimes, Times, UNCHANGED <<now, events>>
    PROVE  EventTimes' /\ Times'
BY DEF EventTimes, Times, Earliest

\* What the manager does alone, without a write.
LEMMA CopiesKept ==
    ASSUME CopiedTimes, UNCHANGED <<events, usr>>
    PROVE  CopiedTimes'
BY DEF CopiedTimes, usr

\* What users do alone, without a write.
LEMMA ChecksKept ==
    ASSUME ChecksOnce, RemindsOnce, PlanTimes, UNCHANGED <<now, events>>, UNCHANGED mgr, RowsShrink
    PROVE  ChecksOnce' /\ RemindsOnce' /\ PlanTimes'
<1>1. ChecksOnce'
  BY DEF ChecksOnce, mgr
<1>2. RemindsOnce'
  BY DEF RemindsOnce, Waits, mgr, RowsShrink
<1>3. PlanTimes'
  BY DEF PlanTimes, mgr, RowsShrink
<1> QED
  BY <1>1, <1>2, <1>3

\* The last event of the alert of a plan that is not stale.
LEMMA PlanBase ==
    ASSUME StoreOK, NEW p \in EventPlans, Unchanged(p)
    PROVE  /\ p.alert \in Rows /\ p.alert \in AlertIds /\ p.base \in 1..Len(events)
           /\ events[p.base].alert = p.alert
           /\ \A i \in 1..Len(events) : events[i].alert = p.alert => i <= p.base
<1>1. p.alert \in Rows /\ p.alert \in AlertIds /\ alerts[p.alert].event = p.base
  BY PlanKinds DEF Unchanged, Rows
<1> QED
  BY <1>1 DEF StoreOK, LastEvent

\* The events are records of integers.
LEMMA EventRow ==
    ASSUME StoreOK, NEW i \in 1..Len(events)
    PROVE  /\ events[i] \in EventRows /\ events[i].createdAt \in Int /\ events[i].alert \in AlertIds
           /\ i \in Nat /\ Len(events) \in Nat
<1>1. events \in Seq(EventRows)
  BY DEF StoreOK
<1>2. events[i] \in EventRows /\ Len(events) \in Nat
  BY <1>1, ElementOfSeq, LenProperties
<1> QED
  BY <1>2 DEF EventRows

\* How far Earliest is behind.
LEMMA BehindIs ==
    /\ CheckNumPoint \in Nat \ {0} /\ Behind \in Nat
    /\ CheckNumPoint = 1 => Behind = 0
    /\ CheckNumPoint > 1 => Behind = CheckNumPoint - 2
<1>1. CheckNumPoint \in Nat \ {0}
  BY BoundsAssumption
<1> QED
  BY <1>1 DEF Behind

\* The event of a user is dated as the one before it.
LEMMA UserDates ==
    ASSUME StoreOK, Times, NEW p \in EventPlans, Unchanged(p), p.at = events[p.base].createdAt,
           NEW i \in 1..Len(events), events[i].alert = p.alert, events[i].name # "status-changed"
    PROVE  p.at >= Earliest(events[i])
<1>1. /\ p.base \in 1..Len(events) /\ events[p.base].alert = p.alert /\ i <= p.base
      /\ p.base \in Nat /\ events[i].createdAt \in Int
  BY PlanBase, EventRow
<1>2. CASE i = p.base
  BY <1>1, <1>2, BehindIs DEF Earliest
<1>3. CASE i # p.base
  <2>1. i \in 1..(p.base - 1)
    BY <1>1, <1>3
  <2> QED
    BY <1>1, <2>1 DEF Times
<1> QED
  BY <1>2, <1>3

\* So is the event of the manager, or later: an alert that was reminded of was
\* so in an earlier minute.
LEMMA ManagerDates ==
    ASSUME AlertInv, SpacedInv, mpc = "write", mplan \in EventPlans, Unchanged(mplan),
           NEW i \in 1..Len(events), events[i].alert = mplan.alert,
           events[i].name # "status-changed"
    PROVE  mplan.at >= Earliest(events[i])
<1>1. /\ mplan.op = "event" /\ mplan.alert \in Rows /\ mplan.at \in {now - CheckNumPoint + 1, now}
      /\ now \in Nat /\ events[i].createdAt \in Int /\ events[i] \in EventRows
  BY PlanKinds, PlanBase, EventRow, BoundsAssumption DEF AlertInv, OthersOK, SpacedInv, PlanTimes
<1>2. mplan.at >= now - CheckNumPoint + 1 /\ mplan.at \in Int
  BY <1>1, BehindIs
<1>3. CASE events[i].name = "created"
  <2>1. events[i].createdAt <= now - CheckNumPoint + 1 /\ Earliest(events[i]) = events[i].createdAt
    BY <1>1, <1>3 DEF SpacedInv, EventTimes, Earliest
  <2> QED
    BY <1>1, <1>2, <2>1, BehindIs
<1>4. CASE events[i].name = "recurring"
  <2>1. events[i].createdAt <= now /\ Earliest(events[i]) = events[i].createdAt - Behind
    BY <1>1, <1>4 DEF SpacedInv, EventTimes, Earliest
  <2>2. events[i].createdAt # now
    BY <1>1, <1>4 DEF SpacedInv, RemindsOnce
  <2> QED
    BY <1>1, <1>2, <2>1, <2>2, BehindIs
<1> QED
  BY <1>1, <1>3, <1>4 DEF EventRows, Names

\* A plan for series s is of this minute or dated back.
Timely(p, s) ==
    /\ p.series = s
    /\ p.op = "create" => p.at = now - CheckNumPoint + 1
    /\ p.op = "event" => /\ p.at \in {now - CheckNumPoint + 1, now}
                         /\ p.alert \in Rows /\ alerts[p.alert].series = s
                         /\ p.name = "recurring" => p.at = now

\* The check of a series plans nothing else.
LEMMA CheckTimes ==
    ASSUME StoreOK, OthersOK, NEW s \in Series, NEW w,
           NEW open, open = (\E a \in Matching(s) : EventOf(a).status = "open"),
           NEW p, p = IF open THEN CheckOpenAlert(s, CHOOSE a \in Matching(s) : TRUE, w)
                      ELSE CheckFiring(s, Matching(s), w)
    PROVE  p = None \/ Timely(p, s)
<1> SUFFICES ASSUME p # None PROVE Timely(p, s)
  OBVIOUS
<1> DEFINE found == Matching(s)
           a == CHOOSE b \in found : TRUE
           back == now - CheckNumPoint + 1
<1>1. \A b \in found : b \in Rows /\ alerts[b].series = s
  BY DEF Matching
<1>2. found # {} => a \in Rows /\ alerts[a].series = s
  BY <1>1
<1>4. CASE open
  <2>1. found # {}
    BY <1>4
  <2> DEFINE closing == StatusPlan(s, a, "closed", back)
             reminder == [StatusPlan(s, a, "open", now) EXCEPT !.name = "recurring"]
  <2>2. p \in {closing, reminder}
    BY <1>4 DEF CheckOpenAlert
  <2> HIDE DEF a, back, found
  <2>3. /\ closing.op = "event" /\ closing.series = s /\ closing.alert = a /\ closing.at = back
        /\ closing.name = "status-changed"
    BY DEF StatusPlan
  <2>4. /\ reminder.op = "event" /\ reminder.series = s /\ reminder.alert = a /\ reminder.at = now
    BY DEF StatusPlan
  <2> HIDE DEF closing, reminder
  <2> QED
    BY <1>2, <2>1, <2>2, <2>3, <2>4 DEF back, Timely
<1>5. CASE ~open
  <2> DEFINE res == M!Check(M!TrimLeadingNaN(w), CheckNumPoint, MinValue, MaxValue)
             at == now - res.firingFor + 1
             new == [op |-> "create", series |-> s, at |-> at]
             reopen == StatusPlan(s, a, "open", at)
  <2>1. res.firing # 0 /\ (p = new \/ (p = reopen /\ found # {}))
    BY <1>5 DEF CheckFiring
  <2>2. res.firingFor = CheckNumPoint
    BY <2>1 DEF M!Check
  <2>3. at = back
    BY <2>2
  <2> HIDE DEF a, at, back, found, res
  <2>4. new.op = "create" /\ new.series = s /\ new.at = at
    OBVIOUS
  <2>5. /\ reopen.op = "event" /\ reopen.series = s /\ reopen.alert = a /\ reopen.at = at
        /\ reopen.name = "status-changed"
    BY DEF StatusPlan
  <2> HIDE DEF new, reopen
  <2> QED
    BY <1>2, <2>1, <2>3, <2>4, <2>5 DEF back, Timely
<1> QED
  BY <1>4, <1>5

\* The manager goes through its monitors and their series.
LEMMA ManagerSpaces ==
    ASSUME AlertInv, SpacedInv,
           \/ Tick \/ TickDone \/ MetricMissing \/ QueryFails \/ SelectTimeseries \/ MonitorDone
           \/ CheckTimeseries \/ ManagerWriteFails \/ ManagerNotify
    PROVE  SpacedInv'
<1>1. UNCHANGED <<alerts, events, usr>> /\ CopiedTimes'
  BY CopiesKept DEF SpacedInv, Tick, TickDone, MetricMissing, QueryFails, SelectTimeseries, MonitorDone,
         CheckTimeseries, ManagerWriteFails, ManagerNotify, tables
<1>2. /\ todo \subseteq Selected /\ left \subseteq Series
      /\ ChecksOnce /\ RemindsOnce /\ PlanTimes /\ EventTimes /\ Times
  BY DEF AlertInv, ManagerOK, SpacedInv
<1>3. CASE Tick
  <2>1. /\ now' = now + 1 /\ mpc' = "monitor"
        /\ \A m \in todo' : m = [id |-> m.id, state |-> monitors[m.id]]
    BY <1>3 DEF Tick
  <2>2. ChecksOnce' /\ PlanTimes'
    BY <2>1 DEF ChecksOnce, PlanTimes
  <2>3. now \in Nat /\ \A i \in 1..Len(events) : events[i].createdAt \in Int
    BY EventRow, BoundsAssumption DEF AlertInv, OthersOK
  <2>4. EventTimes' /\ RemindsOnce'
    <3>1. \A i \in 1..Len(events) :
            /\ events[i].name = "created" => events[i].createdAt <= (now + 1) - CheckNumPoint + 1
            /\ events[i].name = "recurring" => /\ events[i].createdAt <= now + 1
                                               /\ events[i].createdAt # now + 1
      BY <1>2, <2>3, BehindIs DEF EventTimes
    <3>2. EventTimes'
      BY <1>1, <2>1, <3>1 DEF EventTimes
    <3>3. RemindsOnce'
      BY <1>1, <2>1, <3>1 DEF RemindsOnce
    <3> QED
      BY <3>2, <3>3
  <2>5. Times'
    BY <1>1, <1>2 DEF Times, Earliest
  <2> QED
    BY <1>1, <2>2, <2>4, <2>5 DEF SpacedInv
<1>4. ASSUME ~Tick PROVE EventTimes' /\ Times' /\ now' = now
  <2>1. now' = now
    BY <1>4 DEF TickDone, MetricMissing, QueryFails, SelectTimeseries, MonitorDone,
                CheckTimeseries, ManagerWriteFails, ManagerNotify
  <2> QED
    BY <1>1, <1>2, <2>1, TimesKept
<1>5. CASE TickDone \/ MetricMissing \/ QueryFails
  <2>1. /\ mpc' \in {"sleep", "monitor"} /\ todo' \subseteq todo /\ left' = left /\ ~Tick
    BY <1>5 DEF TickDone, MetricMissing, QueryFails, Tick
  <2>2. ChecksOnce' /\ PlanTimes' /\ RemindsOnce'
    BY <1>1, <1>2, <1>4, <2>1 DEF ChecksOnce, PlanTimes, RemindsOnce, Waits, Rows
  <2> QED
    BY <1>1, <1>4, <2>1, <2>2 DEF SpacedInv
<1>6. CASE SelectTimeseries
  <2>1. PICK m \in todo, S \in SUBSET Series :
            /\ \A s \in S : MonitorOf[s] = m.id
            /\ todo' = todo \ {m}
            /\ \/ UNCHANGED <<mpc, cur, left>>
               \/ cur' = m /\ left' = S /\ mpc' = "series"
    BY <1>6 DEF SelectTimeseries
  <2>2. mpc = "monitor" /\ mpc' # "write" /\ ~Tick
    BY <1>6 DEF SelectTimeseries, Tick
  <2>3. ChecksOnce' /\ PlanTimes'
    BY <1>2, <2>1, <2>2 DEF ChecksOnce, PlanTimes
  <2>4. \A s : ~Waits(s) => ~Waits(s)'
    BY <2>1 DEF Waits
  <2>5. RemindsOnce'
    BY <1>1, <1>2, <1>4, <2>2, <2>4 DEF RemindsOnce, Rows, Waits
  <2> QED
    BY <1>1, <1>4, <2>2, <2>3, <2>5 DEF SpacedInv
<1>7. CASE MonitorDone \/ ManagerWriteFails \/ ManagerNotify
  <2>1. /\ mpc' \in {"monitor", "series"} /\ todo' = todo /\ left' \subseteq left /\ ~Tick
        /\ mpc' = "series" => mpc = "notify" /\ cur' = cur
    BY <1>7 DEF MonitorDone, ManagerWriteFails, ManagerNotify, Tick
  <2>2. ChecksOnce' /\ PlanTimes' /\ RemindsOnce'
    BY <1>1, <1>2, <1>4, <2>1 DEF ChecksOnce, PlanTimes, RemindsOnce, Waits, Rows
  <2> QED
    BY <1>1, <1>4, <2>1, <2>2 DEF SpacedInv
<1>8. CASE CheckTimeseries
  <2>1. PICK s \in left, w \in Windows :
            LET found == Matching(s)
                open == \E a \in found : EventOf(a).status = "open"
                plan == IF open THEN CheckOpenAlert(s, CHOOSE a \in found : TRUE, w)
                        ELSE CheckFiring(s, found, w)
            IN  /\ left' = left \ {s}
                /\ mplan' = plan
                /\ mpc' = IF plan = None THEN "series" ELSE "write"
                /\ firing' = (firing \/ (plan = None /\ open))
    BY <1>8 DEF CheckTimeseries
  <2> DEFINE open == \E a \in Matching(s) : EventOf(a).status = "open"
             plan == IF open THEN CheckOpenAlert(s, CHOOSE a \in Matching(s) : TRUE, w)
                     ELSE CheckFiring(s, Matching(s), w)
  <2>2. s \in Series /\ mpc = "series" /\ UNCHANGED <<todo, cur>> /\ ~Tick
    BY <1>2, <1>8 DEF CheckTimeseries, Tick
  <2>3. plan = None \/ Timely(plan, s)
    BY <2>2, CheckTimes DEF AlertInv
  <2>4. /\ left' = left \ {s} /\ mplan' = plan
        /\ mpc' = IF plan = None THEN "series" ELSE "write"
    BY <2>1
  <2> HIDE DEF plan, open
  <2>5. ChecksOnce'
    BY <1>2, <2>2, <2>3, <2>4 DEF ChecksOnce, Timely
  <2>6. PlanTimes'
    BY <1>1, <1>4, <2>2, <2>3, <2>4 DEF PlanTimes, Rows, Timely
  <2>7. RemindsOnce'
    <3> SUFFICES ASSUME NEW i \in 1..Len(events), events[i].name = "recurring",
                        events[i].createdAt = now, events[i].alert \in Rows
                 PROVE  /\ ~Waits(alerts[events[i].alert].series)'
                        /\ mpc' = "write" /\ mplan'.op = "event" => mplan'.alert # events[i].alert
      BY <1>1, <1>4, <2>2 DEF RemindsOnce, Rows, Waits
    <3>1. ~Waits(alerts[events[i].alert].series)
      BY <1>2 DEF RemindsOnce
    <3>2. alerts[events[i].alert].series # s
      BY <3>1 DEF Waits
    <3> QED
      BY <1>1, <2>2, <2>3, <2>4, <3>1, <3>2 DEF Waits, Timely
  <2> QED
    BY <1>1, <1>4, <2>2, <2>5, <2>6, <2>7 DEF SpacedInv
<1> QED
  BY <1>3, <1>5, <1>6, <1>7, <1>8

\* The manager's transaction commits: its alert has been checked.
LEMMA ManagerWriteSpaces == ASSUME AlertInv, SpacedInv, ManagerWrite PROVE SpacedInv'
<1>1. /\ mpc = "write" /\ mpc' = "notify" /\ UNCHANGED <<now, todo, cur, left, usr>>
      /\ StoreOK /\ ChecksOnce /\ RemindsOnce /\ PlanTimes /\ EventTimes /\ Times /\ CopiedTimes
      /\ mplan \in CreatePlans \/ (mplan \in EventPlans /\ Fits(mplan, events))
      /\ \A u \in Users : upc[u] = "write" => uplan[u].base \in 1..Len(events)
  BY DEF ManagerWrite, SpacedInv, AlertInv, ManagerOK, UsersOK, Fits
<1>2. ChecksOnce' /\ PlanTimes'
  BY <1>1 DEF ChecksOnce, PlanTimes
<1>3. CASE UNCHANGED <<alerts, events>>
  <2>1. RemindsOnce'
    BY <1>1, <1>3 DEF RemindsOnce, Waits, Rows
  <2> QED
    BY <1>1, <1>2, <1>3, <2>1, TimesKept, CopiesKept DEF SpacedInv
<1>4. ASSUME NEW e \in EventRows, events' = Append(events, e),
             e.name = "created" => e.createdAt <= now - CheckNumPoint + 1,
             e.name = "recurring" =>
                /\ e.createdAt <= now /\ e.alert = mplan.alert /\ mplan.alert \in Rows
                /\ mplan.op = "event",
             \A i \in 1..Len(events) :
                events[i].alert = e.alert /\ events[i].name # "status-changed"
                    => e.createdAt >= Earliest(events[i]),
             \A a \in Rows' : \/ a \in Rows /\ alerts'[a].series = alerts[a].series
                              \/ \A i \in 1..Len(events) : events[i].alert # a
      PROVE  SpacedInv'
  <2>1. /\ Len(events) \in Nat /\ Len(events') = Len(events) + 1 /\ events'[Len(events) + 1] = e
        /\ \A i \in 1..Len(events) : events'[i] = events[i]
    BY <1>1, <1>4, AppendEvent DEF StoreOK
  <2>2. EventTimes' /\ Times'
    BY <1>1, <1>4, AppendTimes
  <2>3. CopiedTimes'
    BY <1>1, <2>1 DEF CopiedTimes, usr
  <2>4. ASSUME NEW i \in 1..Len(events'), events'[i].name = "recurring", events'[i].createdAt = now,
               events'[i].alert \in Rows'
        PROVE  ~Waits(alerts'[events'[i].alert].series)
    <3>1. CASE i \in 1..Len(events)
      <4>1. events'[i] = events[i] /\ events[i].alert \in Rows
            /\ alerts'[events[i].alert].series = alerts[events[i].alert].series
        BY <1>4, <2>1, <2>4, <3>1
      <4> QED
        BY <1>1, <2>4, <3>1, <4>1 DEF RemindsOnce
    <3>2. CASE i = Len(events) + 1
      <4>1. /\ events'[i] = e /\ e.alert = mplan.alert /\ mplan.alert \in Rows /\ mplan.op = "event"
        BY <1>4, <2>1, <2>4, <3>2
      <4>2. alerts[mplan.alert].series = mplan.series
        BY <1>1, <4>1 DEF PlanTimes
      <4>3. ~Waits(mplan.series)
        BY <1>1 DEF ChecksOnce, Waits
      <4>4. \/ alerts'[e.alert].series = alerts[e.alert].series
            \/ \A j \in 1..Len(events) : events[j].alert # e.alert
        BY <1>4, <2>4, <4>1
      <4>5. alerts[mplan.alert].event \in 1..Len(events) /\ events[alerts[mplan.alert].event].alert = e.alert
        BY <1>1, <4>1 DEF StoreOK, LastEvent
      <4> QED
        BY <4>1, <4>2, <4>3, <4>4, <4>5
    <3> QED
      BY <2>1, <3>1, <3>2
  <2>5. RemindsOnce'
    BY <1>1, <2>4 DEF RemindsOnce, Waits
  <2> QED
    BY <1>2, <2>2, <2>3, <2>5 DEF SpacedInv
<1>5. CASE mplan \in EventPlans /\ InsertAlertEvent(mplan)
  <2> DEFINE e == [alert |-> mplan.alert, name |-> mplan.name, status |-> mplan.status,
                   createdAt |-> mplan.at, clonedFrom |-> mplan.base]
  <2>1. /\ Unchanged(mplan) /\ events' = Append(events, e) /\ mplan.op = "event"
        /\ alerts' = [alerts EXCEPT ![mplan.alert].event = Len(events) + 1]
    BY <1>5, PlanKinds DEF InsertAlertEvent
  <2>2. e \in EventRows
    BY <1>5, PlanKinds DEF EventRows
  <2>3. /\ e.alert = mplan.alert /\ e.name = mplan.name /\ e.createdAt = mplan.at
    OBVIOUS
  <2> HIDE DEF e
  <2>4. mplan.name # "created" /\ mplan.alert \in Rows /\ now \in Int
    BY <1>1, <1>5, <2>1, PlanKinds, PlanBase, BoundsAssumption
       DEF Fits, Follows, CreatePlans, AlertInv, OthersOK
  <2>5. mplan.name = "recurring" => mplan.at <= now
    BY <1>1, <2>1, <2>4 DEF PlanTimes
  <2>6. \A i \in 1..Len(events) :
            events[i].alert = e.alert /\ events[i].name # "status-changed"
                => e.createdAt >= Earliest(events[i])
    BY <1>1, <1>5, <2>1, <2>3, ManagerDates
  <2>7. \A a \in Rows' : a \in Rows /\ alerts'[a].series = alerts[a].series
    <3>1. alerts \in [AlertIds -> AlertRows \cup {None}] /\ alerts[mplan.alert] \in AlertRows
      BY <1>1, <2>4 DEF StoreOK, Rows
    <3>2. [alerts[mplan.alert] EXCEPT !.event = Len(events) + 1].series = alerts[mplan.alert].series
      BY <3>1 DEF AlertRows
    <3> QED
      BY <2>1, <2>4, <3>1, <3>2 DEF Rows
  <2> QED
    BY <1>4, <2>1, <2>2, <2>3, <2>4, <2>5, <2>6, <2>7
<1>6. CASE mplan \in CreatePlans /\ InsertAlert(mplan)
  <2>1. PICK a \in AlertIds :
            /\ \A i \in 1..Len(events) : events[i].alert # a
            /\ events' = Append(events, [alert |-> a, name |-> "created", status |-> "open",
                                         createdAt |-> mplan.at, clonedFrom |-> 0])
            /\ alerts' = [alerts EXCEPT ![a] = [series |-> mplan.series, event |-> Len(events) + 1]]
    BY <1>6 DEF InsertAlert
  <2> DEFINE e == [alert |-> a, name |-> "created", status |-> "open",
                   createdAt |-> mplan.at, clonedFrom |-> 0]
  <2>2. e \in EventRows
    BY <1>6, PlanKinds, BoundsAssumption DEF EventRows, Names, Statuses
  <2>3. e.alert = a /\ e.name = "created" /\ e.createdAt = mplan.at /\ events' = Append(events, e)
    BY <2>1
  <2> HIDE DEF e
  <2>4. mplan.at = now - CheckNumPoint + 1 /\ now - CheckNumPoint + 1 \in Int
    BY <1>1, <1>6, PlanKinds, BoundsAssumption DEF PlanTimes, AlertInv, OthersOK
  <2>5. \A b \in Rows' : b = a \/ (b \in Rows /\ alerts'[b].series = alerts[b].series)
    BY <1>1, <2>1 DEF Rows, StoreOK
  <2> QED
    BY <1>4, <2>1, <2>2, <2>3, <2>4, <2>5
<1> QED
  BY <1>1, <1>3, <1>5, <1>6, PlanKinds DEF ManagerWrite

\* The requests of a user: the event that is written is dated as the one read.
LEMMA UserSpaces ==
    ASSUME AlertInv, SpacedInv, NEW u \in Users, UserSelectAlert(u) \/ UserStep(u)
    PROVE  SpacedInv'
<1>1. /\ UNCHANGED now /\ UNCHANGED mgr
      /\ StoreOK /\ ChecksOnce /\ RemindsOnce /\ PlanTimes /\ EventTimes /\ Times /\ CopiedTimes
      /\ upc \in [Users -> {"idle", "write", "notify"}] /\ uplan \in [Users -> Plans \cup {None}]
      /\ \A v \in Users : upc[v] = "write" => uplan[v] \in EventPlans /\ uplan[v].base \in 1..Len(events)
  BY DEF UserSelectAlert, UserStep, UserWrite, UserWriteFails, UserNotify, SpacedInv, AlertInv,
         UsersOK, Fits
<1>2. CASE UserWrite(u)
  <2> DEFINE p == uplan[u]
             e == [alert |-> p.alert, name |-> p.name, status |-> p.status,
                   createdAt |-> p.at, clonedFrom |-> p.base]
  <2>1. /\ p \in EventPlans /\ Unchanged(p) /\ events' = Append(events, e)
        /\ alerts' = [alerts EXCEPT ![p.alert].event = Len(events) + 1]
        /\ p.at = events[p.base].createdAt /\ p.name = "status-changed"
    BY <1>1, <1>2 DEF UserWrite, InsertAlertEvent, CopiedTimes
  <2>2. e \in EventRows
    BY <2>1, PlanKinds DEF EventRows
  <2>3. e.alert = p.alert /\ e.name = "status-changed" /\ e.createdAt = p.at
    BY <2>1
  <2> HIDE DEF e
  <2>4. /\ Len(events) \in Nat /\ Len(events') = Len(events) + 1 /\ events'[Len(events) + 1] = e
        /\ \A i \in 1..Len(events) : events'[i] = events[i]
    BY <1>1, <2>1, <2>2, AppendEvent DEF StoreOK
  <2>5. \A i \in 1..Len(events) :
            events[i].alert = e.alert /\ events[i].name # "status-changed"
                => e.createdAt >= Earliest(events[i])
    BY <1>1, <2>1, <2>3, UserDates
  <2>6. EventTimes' /\ Times'
    BY <1>1, <2>1, <2>2, <2>3, <2>5, AppendTimes
  <2>7. \A a \in Rows' : a \in Rows /\ alerts'[a].series = alerts[a].series
    <3>1. /\ alerts \in [AlertIds -> AlertRows \cup {None}] /\ p.alert \in Rows
          /\ alerts[p.alert] \in AlertRows
      BY <1>1, <2>1, PlanBase DEF StoreOK, Rows
    <3>2. [alerts[p.alert] EXCEPT !.event = Len(events) + 1].series = alerts[p.alert].series
      BY <3>1 DEF AlertRows
    <3> HIDE DEF p
    <3> QED
      BY <2>1, <3>1, <3>2 DEF Rows
  <2>8. UNCHANGED <<mpc, todo, cur, left, mplan>>
    BY <1>1 DEF mgr
  <2>9. ChecksOnce' /\ PlanTimes'
    BY <1>1, <2>7, <2>8 DEF ChecksOnce, PlanTimes
  <2>10. RemindsOnce'
    <3> SUFFICES ASSUME NEW i \in 1..Len(events'), events'[i].name = "recurring",
                        events'[i].createdAt = now, events'[i].alert \in Rows'
                 PROVE  /\ ~Waits(alerts'[events'[i].alert].series)
                        /\ mpc = "write" /\ mplan.op = "event" => mplan.alert # events'[i].alert
      BY <1>1, <2>8 DEF RemindsOnce, Waits
    <3>1. i \in 1..Len(events) /\ events'[i] = events[i]
      BY <2>3, <2>4
    <3> QED
      BY <1>1, <2>7, <3>1 DEF RemindsOnce
  <2>11. CopiedTimes'
    BY <1>1, <1>2, <2>4 DEF CopiedTimes, UserWrite
  <2> QED
    BY <2>6, <2>9, <2>10, <2>11 DEF SpacedInv
<1>3. CASE ~UserWrite(u)
  <2>1. UNCHANGED <<alerts, events>>
    BY <1>3 DEF UserSelectAlert, UserStep, UserWriteFails, UserNotify, tables
  <2>2. EventTimes' /\ Times' /\ ChecksOnce' /\ RemindsOnce' /\ PlanTimes'
    BY <1>1, <2>1, TimesKept, ChecksKept DEF RowsShrink, Rows
  <2>3. CASE UserSelectAlert(u)
    <3>1. PICK a \in Rows, status \in Statuses :
            /\ upc' = [upc EXCEPT ![u] = "write"]
            /\ uplan' = [uplan EXCEPT ![u] = StatusPlan(alerts[a].series, a, status,
                                                        EventOf(a).createdAt)]
      BY <2>3 DEF UserSelectAlert
    <3> DEFINE p == StatusPlan(alerts[a].series, a, status, EventOf(a).createdAt)
    <3>2. p.at = events[p.base].createdAt /\ p.name = "status-changed"
      BY DEF StatusPlan, EventOf
    <3>3. uplan' = [uplan EXCEPT ![u] = p]
      BY <3>1
    <3> HIDE DEF p
    <3>4. CopiedTimes'
      BY <1>1, <2>1, <3>1, <3>2, <3>3 DEF CopiedTimes
    <3> QED
      BY <2>2, <3>4 DEF SpacedInv
  <2>4. CASE UserWriteFails(u) \/ UserNotify(u)
    <3>1. CopiedTimes'
      BY <1>1, <2>1, <2>4 DEF CopiedTimes, UserWriteFails, UserNotify
    <3> QED
      BY <2>2, <3>1 DEF SpacedInv
  <2> QED
    BY <1>3, <2>3, <2>4 DEF UserStep
<1> QED
  BY <1>2, <1>3

\* Users delete alerts and change or delete monitors; the process is killed.
LEMMA OthersSpace ==
    ASSUME AlertInv, SpacedInv,
           \/ UserDeleteAlert \/ Crash
           \/ \E m \in Monitors : UserPause(m) \/ UserActivate(m) \/ UserDeleteMonitor(m)
    PROVE  SpacedInv'
<1>1. UNCHANGED <<now, events>>
  BY DEF UserDeleteAlert, Crash, UserPause, UserActivate, UserSetMonitorState, UserDeleteMonitor, tables
<1>2. EventTimes' /\ Times'
  BY <1>1, TimesKept DEF SpacedInv
<1>3. CASE Crash
  <2>1. ChecksOnce' /\ PlanTimes' /\ RemindsOnce' /\ CopiedTimes'
    BY <1>3 DEF Crash, ChecksOnce, PlanTimes, RemindsOnce, Waits, CopiedTimes
  <2> QED
    BY <1>2, <2>1 DEF SpacedInv
<1>4. CASE ~Crash
  <2>1. UNCHANGED mgr /\ UNCHANGED usr
    BY <1>4 DEF UserDeleteAlert, UserPause, UserActivate, UserSetMonitorState, UserDeleteMonitor
  <2>2. DOMAIN alerts = AlertIds
    BY DEF AlertInv, StoreOK
  <2>3. RowsShrink
    <3>1. CASE UserDeleteAlert
      BY <2>2, <3>1 DEF UserDeleteAlert, RowsShrink, Rows
    <3>2. ASSUME NEW m \in Monitors, UserDeleteMonitor(m) PROVE RowsShrink
      BY <2>2, <3>2 DEF UserDeleteMonitor, RowsShrink, Rows
    <3>3. CASE UNCHANGED alerts
      BY <3>3 DEF RowsShrink, Rows
    <3> QED
      BY <1>4, <3>1, <3>2, <3>3 DEF UserPause, UserActivate, UserSetMonitorState
  <2> QED
    BY <1>1, <1>2, <2>1, <2>3, ChecksKept, CopiesKept DEF SpacedInv
<1> QED
  BY <1>3, <1>4

\* Every step keeps the times.
LEMMA SpacedStep == AlertInv /\ SpacedInv /\ [Next]_vars => SpacedInv'
<1> SUFFICES ASSUME AlertInv, SpacedInv, [Next]_vars PROVE SpacedInv'
  OBVIOUS
<1>1. CASE UNCHANGED vars
  <2>1. /\ UNCHANGED <<now, events, alerts>> /\ UNCHANGED mgr /\ UNCHANGED usr /\ RowsShrink
    BY <1>1 DEF vars, mgr, usr, RowsShrink, Rows
  <2> QED
    BY <2>1, TimesKept, ChecksKept, CopiesKept DEF SpacedInv
<1>2. CASE Next
  BY <1>2, ManagerSpaces, ManagerWriteSpaces, UserSpaces, OthersSpace DEF Next, ManagerStep
<1> QED
  BY <1>1, <1>2

\* A reminder comes RemindAfter minutes after its alert was created or reminded
\* of before, but for what the manager dates back (checkOpenAlert), however often
\* users and the manager closed and opened the alert in between.
THEOREM Reminders == Spec => []RemindersSpaced
<1>1. Init => SpacedInv
  BY DEF Init, SpacedInv, EventTimes, Times, ChecksOnce, RemindsOnce, PlanTimes, CopiedTimes
<1>2. AlertInv /\ SpacedInv => RemindersSpaced
  <2> SUFFICES ASSUME AlertInv, SpacedInv, NEW j \in 1..Len(events),
                      NEW i \in Older(events[j].alert, j),
                      events[j].name = "recurring", events[i].name # "status-changed"
               PROVE  events[j].createdAt - WrittenAt(i) >= RemindAfter - Early(i)
    BY DEF RemindersSpaced
  <2>1. /\ i \in 1..(j - 1) /\ j \in Nat /\ i \in 1..Len(events) /\ events[i].alert = events[j].alert
        /\ events[j].createdAt \in Int /\ events[i].createdAt \in Int /\ RemindAfter \in Nat
        /\ events[i].name \in {"created", "recurring"}
    BY EventRow, BoundsAssumption DEF Older, AlertInv, EventRows, Names
  <2>2. Max({0, CheckNumPoint - 2}) = Behind
    <3>1. {0, CheckNumPoint - 2} \in SUBSET Int
      BY BehindIs
    <3>2. Behind \in {0, CheckNumPoint - 2} /\ \A x \in {0, CheckNumPoint - 2} : x <= Behind
      BY BehindIs
    <3> QED
      BY <3>1, <3>2, MaxIs
  <2>3. WrittenAt(i) - Early(i) = Earliest(events[i])
    BY <2>1, <2>2, BehindIs DEF WrittenAt, Early, Earliest
  <2>4. WrittenAt(i) \in Int /\ Early(i) \in Int
    BY <2>1, <2>2, BehindIs DEF WrittenAt, Early
  <2> DEFINE c == events[j].clonedFrom
  <2>5. /\ c \in 1..(j - 1) /\ events[c].alert = events[j].alert /\ i <= c
        /\ events[j].createdAt - events[c].createdAt >= RemindAfter
    BY <2>1 DEF AlertInv, StoreOK, InHistory, Follows
  <2>6. events[c].createdAt \in Int /\ c \in 1..Len(events) /\ c \in Nat
    BY <2>1, <2>5, EventRow DEF AlertInv
  <2> HIDE DEF c
  <2>7. events[c].createdAt >= Earliest(events[i])
    <3>1. CASE i = c
      <4>1. Earliest(events[i]) <= events[i].createdAt
        BY <2>1, BehindIs DEF Earliest
      <4> QED
        BY <2>1, <3>1, <4>1, <2>6
    <3>2. CASE i # c
      <4>1. i \in 1..(c - 1)
        BY <2>1, <2>5, <2>6, <3>2
      <4> QED
        BY <2>1, <2>5, <2>6, <4>1 DEF SpacedInv, Times
    <3> QED
      BY <3>1, <3>2
  <2>8. \A x, y, w, d \in Int : x - y >= RemindAfter /\ y >= w - d => x - w >= RemindAfter - d
    BY <2>1
  <2> QED
    BY <2>1, <2>3, <2>4, <2>5, <2>6, <2>7, <2>8
<1>3. AlertInv /\ SpacedInv /\ AlertInv' /\ [Next]_vars => SpacedInv'
  BY SpacedStep
<1> QED
  BY <1>1, <1>2, <1>3, AlertInvariant, PTL DEF Spec

-----------------------------------------------------------------------------
(* The tables implement the life of an alert.                              *)

Said == [alert : AlertIds, name : Names, status : Statuses]
SaysOf(e) == [alert |-> e.alert, name |-> e.name, status |-> e.status]

\* What the events say, one by one.
LEMMA SeenEvents ==
    ASSUME NEW es \in Seq(EventRows)
    PROVE  LET seen == [i \in 1..Len(es) |-> [alert |-> es[i].alert, name |-> es[i].name,
                                             status |-> es[i].status]]
           IN  /\ seen \in Seq(Said) /\ Len(seen) = Len(es)
               /\ \A i \in 1..Len(es) : seen[i] = SaysOf(es[i])
<1> DEFINE n == Len(es)
           seen == [i \in 1..n |-> [alert |-> es[i].alert, name |-> es[i].name,
                                    status |-> es[i].status]]
<1>1. n \in Nat /\ \A i \in 1..n : es[i] \in EventRows
  BY LenProperties, ElementOfSeq
<1> HIDE DEF n
<1>2. seen \in [1..n -> Said] /\ \A i \in 1..n : seen[i] = SaysOf(es[i])
  BY <1>1 DEF EventRows, Said, SaysOf
<1> HIDE DEF seen
<1>3. seen \in Seq(Said)
  BY <1>1, <1>2, SeqDef
<1>4. 1..n = 1..Len(seen) /\ Len(seen) \in Nat
  BY <1>2, <1>3, LenProperties
<1>5. Len(seen) = n
  BY <1>1, <1>4
<1> QED
  BY <1>2, <1>3, <1>5 DEF n, seen

\* An event that is appended says one thing more.
LEMMA SeenAppended ==
    ASSUME events \in Seq(EventRows), NEW e \in EventRows, events' = Append(events, e)
    PROVE  EventsSeen' = Append(EventsSeen, SaysOf(e))
<1> DEFINE n == Len(events)
           s == EventsSeen
           t == EventsSeen'
<1>1. /\ s \in Seq(Said) /\ Len(s) = n /\ n \in Nat
      /\ \A i \in 1..n : s[i] = SaysOf(events[i])
  BY SeenEvents, LenProperties DEF EventsSeen
<1>2. /\ events' \in Seq(EventRows) /\ Len(events') = n + 1 /\ events'[n + 1] = e
      /\ \A i \in 1..n : events'[i] = events[i]
  BY AppendEvent
<1>3. /\ t \in Seq(Said) /\ Len(t) = n + 1
      /\ \A i \in 1..(n + 1) : t[i] = SaysOf(events'[i])
  BY <1>2, SeenEvents DEF EventsSeen
<1>4. SaysOf(e) \in Said
  BY DEF SaysOf, Said, EventRows
<1> HIDE DEF s, t, n
<1> DEFINE u == Append(s, SaysOf(e))
<1>5. /\ u \in Seq(Said) /\ Len(u) = n + 1 /\ u[n + 1] = SaysOf(e)
      /\ \A i \in 1..n : u[i] = s[i]
  BY <1>1, <1>4, AppendProperties
<1> HIDE DEF u
<1>6. \A i \in 1..(n + 1) : t[i] = u[i]
  <2> SUFFICES ASSUME NEW i \in 1..(n + 1) PROVE t[i] = u[i]
    OBVIOUS
  <2>1. i = n + 1 \/ i \in 1..n
    BY <1>1
  <2> QED
    BY <1>1, <1>2, <1>3, <1>5, <2>1
<1>7. t = u
  BY <1>3, <1>5, <1>6, SeqEqual
<1> QED
  BY <1>7 DEF s, t, u

\* The event that an alert comes to point to is what is seen of it, and the
\* other alerts are left alone.
LEMMA SaidOf ==
    ASSUME StoreOK, NEW e \in EventRows, NEW row, row # None, row.event = Len(events) + 1,
           events' = Append(events, e), alerts' = [alerts EXCEPT ![e.alert] = row]
    PROVE  Life!Say(e.alert, e.name, e.status)
<1> DEFINE n == Len(events)
           a == e.alert
<1>1. /\ n \in Nat /\ a \in AlertIds /\ events'[n + 1] = e /\ Len(events') = n + 1
      /\ \A i \in 1..n : events'[i] = events[i]
      /\ DOMAIN alerts = AlertIds
  BY AppendEvent DEF StoreOK, EventRows
<1>2. alerts'[a] = row /\ \A b \in AlertIds : b # a => alerts'[b] = alerts[b]
  BY <1>1
<1>3. a \in Rows' /\ EventOf(a)' = e
  BY <1>1, <1>2 DEF Rows, EventOf
<1>4. ASSUME NEW b \in AlertIds, b # a PROVE StatusSeen'[b] = StatusSeen[b]
  <2>1. CASE b \in Rows
    <3>1. b \in Rows' /\ EventOf(b)' = EventOf(b)
      <4>1. alerts[b].event \in 1..n
        BY <2>1, RowOf
      <4> QED
        BY <1>1, <1>2, <1>4, <2>1, <4>1 DEF Rows, EventOf
    <3> QED
      BY <1>4, <2>1, <3>1 DEF StatusSeen
  <2>2. CASE b \notin Rows
    <3>1. b \notin Rows'
      BY <1>2, <1>4, <2>2 DEF Rows
    <3>2. Older(b, Len(events) + 1)' = Older(b, Len(events) + 1)
      BY <1>1, <1>4 DEF Older
    <3> QED
      BY <1>4, <2>2, <3>1, <3>2 DEF StatusSeen
  <2> QED
    BY <2>1, <2>2
<1>5. StatusSeen'[a] = e.status
  BY <1>1, <1>3 DEF StatusSeen
<1>6. StatusSeen' = [StatusSeen EXCEPT ![a] = e.status]
  <2>1. /\ StatusSeen' = [b \in AlertIds |-> StatusSeen'[b]]
        /\ [StatusSeen EXCEPT ![a] = e.status]
             = [b \in AlertIds |-> IF b = a THEN e.status ELSE StatusSeen[b]]
    BY <1>1 DEF StatusSeen
  <2>2. \A b \in AlertIds : StatusSeen'[b] = IF b = a THEN e.status ELSE StatusSeen[b]
    BY <1>4, <1>5
  <2> QED
    BY <2>1, <2>2
<1>7. EventsSeen' = Append(EventsSeen, [alert |-> a, name |-> e.name, status |-> e.status])
  BY SeenAppended DEF SaysOf, StoreOK
<1> QED
  BY <1>6, <1>7 DEF Life!Say

\* A plan that is committed is a change or a reminder of the alert as it is
\* now: the alert still points to the event that the plan was made from.
LEMMA PlanLives ==
    ASSUME StoreOK, NEW p \in EventPlans, Fits(p, events), InsertAlertEvent(p)
    PROVE  Life!Next
<1> DEFINE a == p.alert
           e == [alert |-> a, name |-> p.name, status |-> p.status,
                 createdAt |-> p.at, clonedFrom |-> p.base]
           row == [alerts[a] EXCEPT !.event = Len(events) + 1]
<1>1. /\ a \in AlertIds /\ alerts[a] # None /\ alerts[a].event = p.base
      /\ events' = Append(events, e) /\ alerts' = [alerts EXCEPT ![a] = row]
  BY PlanKinds DEF InsertAlertEvent, Unchanged
<1>2. e \in EventRows /\ e.alert = a /\ e.name = p.name /\ e.status = p.status
  BY PlanKinds DEF EventRows
<1>3. a \in Rows /\ alerts[a] \in AlertRows /\ Len(events) \in Nat
  BY <1>1, RowOf, LenProperties DEF Rows, StoreOK
<1>4. row \in [series : Series, event : Nat] /\ row.event = Len(events) + 1
  BY <1>3 DEF AlertRows
<1>5. row # None
  BY <1>4, NoneAssumption
<1> HIDE DEF e, row
<1>6. Life!Say(a, p.name, p.status)
  BY <1>1, <1>2, <1>4, <1>5, SaidOf
<1>7. /\ StatusSeen[a] = events[p.base].status /\ StatusSeen[a] \in Statuses /\ p.status \in Statuses
      /\ Follows(events[p.base], p.name, p.status, p.at)
  BY <1>1, <1>3, RowOf, PlanKinds DEF StatusSeen, EventOf, EventRows, Fits
<1>8. a \in Life!Live
  BY <1>1, <1>7 DEF Life!Live, Statuses
<1>9. CASE p.name = "status-changed"
  <2>1. p.status = IF StatusSeen[a] = "open" THEN "closed" ELSE "open"
    BY <1>7, <1>9 DEF Follows, Statuses
  <2>2. Life!Change(a)
    BY <1>6, <1>8, <1>9, <2>1 DEF Life!Change
  <2> QED
    BY <1>1, <2>2 DEF Life!Next
<1>10. CASE p.name = "recurring"
  <2>1. StatusSeen[a] = "open" /\ p.status = "open"
    BY <1>7, <1>10 DEF Follows
  <2>2. Life!Recur(a)
    BY <1>6, <1>8, <1>10, <2>1 DEF Life!Recur
  <2> QED
    BY <1>1, <2>2 DEF Life!Next
<1> QED
  BY <1>7, <1>9, <1>10 DEF Follows

\* A new alert is born, with an id that no event bears.
LEMMA CreationLives ==
    ASSUME StoreOK, NEW p \in CreatePlans, InsertAlert(p)
    PROVE  Life!Next
<1> DEFINE row == [series |-> p.series, event |-> Len(events) + 1]
<1>1. PICK a \in AlertIds :
        /\ \A i \in 1..Len(events) : events[i].alert # a
        /\ events' = Append(events, [alert |-> a, name |-> "created", status |-> "open",
                                     createdAt |-> p.at, clonedFrom |-> 0])
        /\ alerts' = [alerts EXCEPT ![a] = row]
  BY DEF InsertAlert
<1> DEFINE e == [alert |-> a, name |-> "created", status |-> "open",
                 createdAt |-> p.at, clonedFrom |-> 0]
<1>2. /\ e \in EventRows /\ e.alert = a /\ e.name = "created" /\ e.status = "open"
      /\ events' = Append(events, e)
  BY <1>1, PlanKinds, BoundsAssumption DEF EventRows, Names, Statuses
<1>3. row \in [series : Series, event : Nat] /\ row.event = Len(events) + 1
  BY PlanKinds, LenProperties DEF StoreOK
<1>4. row # None
  BY <1>3, NoneAssumption
<1> HIDE DEF e, row
<1>5. Life!Say(a, "created", "open")
  BY <1>1, <1>2, <1>3, <1>4, SaidOf
<1>6. a \notin Rows
  BY <1>1 DEF StoreOK, LastEvent
<1>7. Older(a, Len(events) + 1) = {}
  BY <1>1, LenProperties DEF Older, StoreOK
<1>8. StatusSeen[a] = "unborn"
  BY <1>6, <1>7 DEF StatusSeen
<1> QED
  BY <1>5, <1>8 DEF Life!Create, Life!Next

\* Rows that are deleted, some or none.
LEMMA DeletionLives ==
    ASSUME StoreOK, UNCHANGED events, DOMAIN alerts' = AlertIds,
           \A a \in AlertIds : alerts'[a] = alerts[a] \/ alerts'[a] = None
    PROVE  Life!Next
<1> DEFINE S == Rows \ Rows'
<1>1. ASSUME NEW a \in AlertIds
      PROVE  StatusSeen'[a] = IF a \in S THEN "deleted" ELSE StatusSeen[a]
  <2>1. CASE a \in Rows'
    <3>1. a \in Rows /\ EventOf(a)' = EventOf(a)
      BY <2>1 DEF Rows, EventOf
    <3> QED
      BY <2>1, <3>1 DEF StatusSeen
  <2>2. CASE a \notin Rows'
    <3>1. Older(a, Len(events) + 1)' = Older(a, Len(events) + 1)
      BY DEF Older
    <3>2. CASE a \in Rows
      <4>1. LastEvent(events, a, alerts[a].event)
        BY <3>2 DEF StoreOK
      <4>2. Older(a, Len(events) + 1) # {}
        BY <4>1, LenProperties DEF LastEvent, Older, StoreOK
      <4> QED
        BY <2>2, <3>1, <3>2, <4>2 DEF StatusSeen
    <3>3. CASE a \notin Rows
      BY <2>2, <3>1, <3>3 DEF StatusSeen
    <3> QED
      BY <3>2, <3>3
  <2> QED
    BY <2>1, <2>2
<1>2. ASSUME NEW a \in S PROVE a \in Life!Live
  <2>1. a \in Rows /\ a \in AlertIds /\ EventOf(a) \in EventRows
    BY RowOf DEF Rows
  <2>2. StatusSeen[a] \in Statuses
    BY <2>1 DEF StatusSeen, EventRows
  <2> QED
    BY <2>1, <2>2 DEF Life!Live, Statuses
<1>3. StatusSeen' = [a \in AlertIds |-> IF a \in S THEN "deleted" ELSE StatusSeen[a]]
  <2>1. StatusSeen' = [a \in AlertIds |-> StatusSeen'[a]]
    BY DEF StatusSeen
  <2> HIDE DEF S
  <2> QED
    BY <1>1, <2>1
<1>4. EventsSeen' = EventsSeen
  BY DEF EventsSeen
<1>5. S \in SUBSET AlertIds /\ S \subseteq Life!Live
  BY <1>2 DEF Rows
<1> HIDE DEF S
<1>6. Life!Delete(S)
  BY <1>3, <1>4, <1>5 DEF Life!Delete
<1> QED
  BY <1>5, <1>6 DEF Life!Next

\* Every step is one of the abstract alerts, or is not seen.
LEMMA LifeStep == AlertInv /\ [Next]_vars => [Life!Next]_(Life!vars)
<1> SUFFICES ASSUME AlertInv, [Next]_vars PROVE Life!Next \/ UNCHANGED Life!vars
  BY Zenon
<1>1. CASE UNCHANGED <<alerts, events>>
  <2>1. StatusSeen' = StatusSeen /\ EventsSeen' = EventsSeen
    BY <1>1 DEF StatusSeen, EventsSeen, Rows, EventOf, Older
  <2> QED
    BY <2>1 DEF Life!vars
<1>2. CASE ManagerWrite
  <2>1. mplan \in CreatePlans \/ (mplan \in EventPlans /\ Fits(mplan, events))
    BY <1>2 DEF ManagerWrite, AlertInv, ManagerOK
  <2>2. \/ mplan \in EventPlans /\ Fits(mplan, events) /\ InsertAlertEvent(mplan)
        \/ mplan \in CreatePlans /\ InsertAlert(mplan)
        \/ UNCHANGED <<alerts, events>>
    BY <1>2, <2>1, PlanKinds DEF ManagerWrite
  <2> QED
    BY <1>1, <2>2, PlanLives, CreationLives DEF AlertInv
<1>3. ASSUME NEW u \in Users, UserWrite(u) PROVE Life!Next
  <2>1. uplan[u] \in EventPlans /\ Fits(uplan[u], events) /\ InsertAlertEvent(uplan[u])
    BY <1>3 DEF UserWrite, AlertInv, UsersOK
  <2> QED
    BY <2>1, PlanLives DEF AlertInv
<1>4. CASE UserDeleteAlert \/ \E m \in Monitors : UserDeleteMonitor(m)
  <2>1. alerts \in [AlertIds -> AlertRows \cup {None}]
    BY DEF AlertInv, StoreOK
  <2>2. /\ UNCHANGED events /\ DOMAIN alerts' = AlertIds
        /\ \A a \in AlertIds : alerts'[a] = alerts[a] \/ alerts'[a] = None
    BY <1>4, <2>1 DEF UserDeleteAlert, UserDeleteMonitor
  <2> QED
    BY <2>2, DeletionLives DEF AlertInv
<1>5. CASE UNCHANGED vars
  BY <1>1, <1>5 DEF vars
<1>6. CASE Next
  <2>1. \/ UNCHANGED <<alerts, events>> \/ ManagerWrite
        \/ \E u \in Users : UserWrite(u)
        \/ UserDeleteAlert \/ \E m \in Monitors : UserDeleteMonitor(m)
    BY <1>6 DEF Next, ManagerStep, UserStep, Tick, TickDone, MetricMissing, QueryFails,
                SelectTimeseries, CheckTimeseries, ManagerWriteFails, ManagerNotify, MonitorDone,
                UserSelectAlert, UserWriteFails, UserNotify, UserPause, UserActivate,
                UserSetMonitorState, Crash, tables
  <2> QED
    BY <1>1, <1>2, <1>3, <1>4, <2>1
<1> QED
  BY <1>5, <1>6

\* The tables alerts and alert_events are the life of each alert, whatever the
\* manager and the users read before and write at the same time.
THEOREM AlertsLive == Spec => LifeImplemented
<1>1. Init => Life!Init
  <2> SUFFICES ASSUME Init PROVE Life!Init
    OBVIOUS
  <2>1. events = << >> /\ Len(events) = 0 /\ Rows = {}
    BY EmptySeq DEF Init, Rows
  <2>2. \A a \in AlertIds : Older(a, Len(events) + 1) = {}
    BY <2>1 DEF Older
  <2>3. StatusSeen = [a \in AlertIds |-> "unborn"]
    BY <2>1, <2>2 DEF StatusSeen
  <2>4. EventsSeen = << >>
    BY <2>1 DEF EventsSeen
  <2> QED
    BY <2>3, <2>4 DEF Life!Init
<1> QED
  BY <1>1, LifeStep, AlertInvariant, PTL DEF Spec, LifeImplemented, Life!Spec
=============================================================================
