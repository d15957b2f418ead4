-------------------------- MODULE ErrorAlertsProofs --------------------------
(***************************************************************************)
(* Proofs about the alerts of error groups, for every number of projects,  *)
(* groups, consumers, channels, errors and events and every clock: an      *)
(* event is announced once, an alert is repeated only when its count has   *)
(* passed the next threshold, and the tables implement an AlertLife.       *)
(***************************************************************************)
EXTENDS ErrorAlerts, SequenceTheorems, WellFoundedInduction, TLAPS

-----------------------------------------------------------------------------
(* The inductive invariant.                                                *)

JobRecs == [project : Projects, group : Groups, span : Nat, time : Nat, due : Nat]
AlertRecs == [project : Projects, group : Groups, createdAt : 0..MaxTime, event : Nat]
Statuses == {"open", "closed"}
EventRecs == [alert : Nat, name : {"created", "recurring", "status-changed"}, status : Statuses,
              count : Nat, createdAt : Nat]
CreateRecs == [op : {"create"}, job : JobRecs, project : Projects, count : {1}]
CountRecs == [op : {"count", "repeat", "update"}, job : JobRecs, project : Projects, alert : Nat,
              base : Nat, since : 0..MaxTime, count : Nat, status : Statuses]
Requests == [alert : Nat, base : Nat, event : EventRecs]

\* The errors recorded are counted for ever, and nothing is recorded ahead.
IngestOK ==
    /\ now \in 0..MaxTime /\ bursts \in Nat
    /\ recorded \in [Projects \X Groups -> [Minutes -> Nat]]
    /\ \A x \in Projects \X Groups :
        /\ recorded[x][MaxTime + 1] < MaxErrors
        /\ \A s, t \in Minutes : s <= t => recorded[x][s] <= recorded[x][t]

\* Who adds a job has recorded an error.
JobOK(j) == j \in JobRecs /\ Errors(j.project, j.group) > 0

\* The group of alert a occurs in the project of the alert only; the errors
\* that a job finds for it; and n, which a job has found before, or the one
\* error that an alert begins with.
Single(a) == \A p \in Projects \ {alerts[a].project} : Errors(p, alerts[a].group) = 0
Found(a) ==
    LET counts == recorded[<<alerts[a].project, alerts[a].group>>]
    IN  IF now - 1 > alerts[a].createdAt THEN counts[now - 1] - counts[alerts[a].createdAt] ELSE 0
Covered(a, n) == n <= 1 \/ n <= Found(a)
Counted(a) == a \in Rows /\ Single(a)

\* The thresholds that a count has not passed.
Ahead(n) == {m \in Thresholds : m > n}

\* Event b of the same alert is the one before event e.
IsPrev(b, e) ==
    /\ b \in 1..(e - 1) /\ events[b].alert = events[e].alert
    /\ \A i \in 1..(e - 1) : events[i].alert = events[e].alert => i <= b

\* The base of a recurring event, and the threshold it has passed.
Passed(e) ==
    events[e].name = "recurring" =>
        \E b \in 1..(e - 1) :
            /\ IsPrev(b, e)
            /\ Counted(events[e].alert) /\ events[b].status = "open" =>
                events[e].count >= nextSpanCountThreshold(events[b].count)

\* An alert points to its last event.
StoreOK ==
    /\ alerts \in Seq(AlertRecs \cup {None}) /\ events \in Seq(EventRecs)
    /\ \A a \in Rows :
        LET l == alerts[a].event
        IN  /\ l \in 1..Len(events) /\ events[l].alert = a
            /\ \A i \in 1..Len(events) : events[i].alert = a => i <= l
    /\ \A i \in 1..Len(events) :
        /\ events[i].alert \in 1..Len(alerts)
        /\ Counted(events[i].alert) => Covered(events[i].alert, events[i].count)
        /\ Passed(i)

\* What a consumer has read or counted for an alert: its count has passed the
\* same thresholds as the event it read, unless it is to repeat the alert.
CountOK(w) ==
    /\ w.alert \in 1..Len(alerts) /\ w.base \in 1..Len(events)
    /\ events[w.base].alert = w.alert /\ events[w.base].status = w.status
    /\ w.alert \in Rows => alerts[w.alert].group = w.job.group /\ alerts[w.alert].createdAt = w.since
    /\ Counted(w.alert) =>
        LET next == nextSpanCountThreshold(events[w.base].count)
        IN  /\ Covered(w.alert, w.count)
            /\ w.op \in {"count", "update"} => Ahead(w.count) = Ahead(events[w.base].count)
            /\ w.op = "repeat" /\ w.status = "open" => w.count >= next

WorkOK ==
    /\ \A j \in jobs : JobOK(j)
    /\ work \in [Consumers -> CreateRecs \cup CountRecs \cup {None}]
    /\ \A c \in Consumers : work[c] # None =>
        JobOK(work[c].job) /\ (work[c].op # "create" => CountOK(work[c]))

RequestOK ==
    /\ request \in Requests \cup {None}
    /\ request # None =>
        /\ request.alert \in 1..Len(alerts) /\ request.event.alert = request.alert
        /\ Counted(request.alert) => Covered(request.alert, request.event.count)

RepeatInv == IngestOK /\ StoreOK /\ WorkOK /\ RequestOK

\* An event waits in one announcement, before it is scheduled for any channel.
AnnounceOK ==
    /\ \A n \in announce : n.event \in 0..Len(events)
    /\ \A m, n \in announce : m.event = n.event /\ m.event # 0 => m = n
    /\ scheduled \in [(0..MaxEvents) \X Channels -> Nat]
    /\ \A n \in announce, x \in DOMAIN scheduled : n.event # 0 /\ x[1] = n.event => scheduled[x] = 0
    /\ \A x \in DOMAIN scheduled :
        x[1] # 0 => scheduled[x] <= 1 /\ (x[1] > Len(events) => scheduled[x] = 0)

ErrorInv == RepeatInv /\ AnnounceOK

-----------------------------------------------------------------------------
(* Counts and thresholds.                                                  *)

\* There is a next threshold for what can be recorded.
LEMMA NextThreshold ==
    ASSUME NEW n \in Nat, n < MaxErrors
    PROVE  LET next == nextSpanCountThreshold(n)
           IN  next \in Thresholds /\ next \in Nat /\ next > n /\ \A m \in Ahead(n) : next <= m
<1>1. Thresholds \subseteq Nat /\ MaxErrors \in Thresholds /\ MaxErrors \in Nat
  BY DEF Thresholds, MaxErrors
<1>2. Ahead(n) \subseteq Nat /\ Ahead(n) # {} /\ Ahead(n) \subseteq Thresholds
  BY <1>1 DEF Ahead
<1>3. PICK x \in Ahead(n) : \A y \in Ahead(n) : ~(<<y, x>> \in OpToRel(<, Nat))
  BY <1>2, WFMin, NatLessThanWellFounded
<1>4. \A y \in Ahead(n) : x <= y
  <2> SUFFICES ASSUME NEW y \in Ahead(n) PROVE x <= y
    OBVIOUS
  <2>1. x \in Nat /\ y \in Nat
    BY <1>2
  <2>2. ~(y < x)
    BY <1>3, <2>1 DEF OpToRel
  <2> QED
    BY <2>1, <2>2
<1>5. LET next == CHOOSE z \in Ahead(n) : \A y \in Ahead(n) : z <= y
      IN  next \in Ahead(n) /\ \A y \in Ahead(n) : next <= y
  BY <1>4
<1>6. nextSpanCountThreshold(n) \in Ahead(n) /\ \A y \in Ahead(n) : nextSpanCountThreshold(n) <= y
  BY <1>5 DEF nextSpanCountThreshold, Min, Ahead
<1> QED
  BY <1>2, <1>6 DEF Ahead

\* The next threshold is known by those that are ahead.
LEMMA SameThreshold ==
    ASSUME NEW m, NEW n, Ahead(m) = Ahead(n)
    PROVE  nextSpanCountThreshold(m) = nextSpanCountThreshold(n)
BY DEF nextSpanCountThreshold, Ahead

\* A count that has passed a threshold, and one that has passed the same ones.
LEMMA StillPassed ==
    ASSUME NEW m \in Nat, NEW n \in Nat, Ahead(m) = Ahead(n), NEW x \in Thresholds, m >= x
    PROVE  n >= x
<1>1. x \in Nat
  BY DEF Thresholds
<1>2. x \notin Ahead(n)
  BY <1>1 DEF Ahead
<1> QED
  BY <1>1, <1>2 DEF Ahead

\* A count that has grown, but not to the next threshold.
LEMMA NotTriggered ==
    ASSUME NEW m \in Nat, NEW n \in Nat, m < MaxErrors, m <= 1 \/ m <= n,
           n < nextSpanCountThreshold(m)
    PROVE  Ahead(n) = Ahead(m)
<1> DEFINE next == nextSpanCountThreshold(m)
<1>1. next \in Nat /\ next > m /\ \A x \in Ahead(m) : next <= x
  BY NextThreshold
<1>2. \A x \in Thresholds : x \in Nat /\ x > 1
  BY DEF Thresholds
<1> HIDE DEF next
<1>3. ASSUME NEW x \in Thresholds PROVE x > n <=> x > m
  <2>1. x > m => x > n
    BY <1>1, <1>2 DEF Ahead, next
  <2>2. x > n => x > m
    BY <1>2
  <2> QED
    BY <2>1, <2>2
<1> QED
  BY <1>3 DEF Ahead

-----------------------------------------------------------------------------
(* The tables grow.                                                        *)

\* The fields of a row.
LEMMA RowFields ==
    /\ \A j \in JobRecs : j.project \in Projects /\ j.group \in Groups /\ j.time \in Nat
    /\ \A r \in AlertRecs : /\ r.project \in Projects /\ r.group \in Groups
                            /\ r.createdAt \in 0..MaxTime /\ r.event \in Nat
    /\ \A e \in EventRecs : /\ e.alert \in Nat /\ e.count \in Nat /\ e.status \in Statuses
                            /\ e.name \in {"created", "recurring", "status-changed"}
BY DEF JobRecs, AlertRecs, EventRecs

\* The rows of the tables.
LEMMA Tables ==
    ASSUME StoreOK
    PROVE  /\ Len(alerts) \in Nat /\ Len(events) \in Nat
           /\ \A a \in Rows : a \in 1..Len(alerts) /\ alerts[a] # None /\ alerts[a] \in AlertRecs
           /\ \A i \in 1..Len(events) : events[i] \in EventRecs
<1>1. Len(alerts) \in Nat /\ Len(events) \in Nat
  BY LenProperties DEF StoreOK
<1>2. \A a \in 1..Len(alerts) : alerts[a] \in AlertRecs \cup {None}
  BY ElementOfSeq DEF StoreOK
<1>3. \A i \in 1..Len(events) : events[i] \in EventRecs
  BY ElementOfSeq DEF StoreOK
<1> QED
  BY <1>1, <1>2, <1>3 DEF Rows

\* What a job finds for an alert is a number that was recorded.
LEMMA FoundErrors ==
    ASSUME IngestOK, StoreOK, NEW a \in Rows
    PROVE  /\ Found(a) \in Nat /\ Found(a) < MaxErrors
           /\ \A n \in Nat : Covered(a, n) => n < MaxErrors
<1> DEFINE x == <<alerts[a].project, alerts[a].group>>
           c == alerts[a].createdAt
<1>1. x \in Projects \X Groups /\ c \in 0..MaxTime
  BY Tables, RowFields
<1>2. now \in 0..MaxTime /\ MaxTime \in Nat /\ MaxErrors \in Nat /\ MaxErrors > 1
  BY BoundsAssumption DEF IngestOK, MaxErrors
<1>3. recorded[x] \in [Minutes -> Nat]
  BY <1>1 DEF IngestOK
<1>4. recorded[x][MaxTime + 1] < MaxErrors /\ \A s, t \in Minutes : s <= t => recorded[x][s] <= recorded[x][t]
  BY <1>1 DEF IngestOK
<1> HIDE DEF x, c
<1>5. ASSUME now - 1 > c
      PROVE  recorded[x][now - 1] - recorded[x][c] \in Nat /\ recorded[x][now - 1] - recorded[x][c] < MaxErrors
  <2>1. /\ now - 1 \in Minutes /\ c \in Minutes /\ MaxTime + 1 \in Minutes
        /\ c <= now - 1 /\ now - 1 <= MaxTime + 1
    BY <1>1, <1>2, <1>5 DEF Minutes
  <2>2. recorded[x][now - 1] \in Nat /\ recorded[x][c] \in Nat /\ recorded[x][MaxTime + 1] \in Nat
    BY <1>3, <2>1
  <2>3. recorded[x][c] <= recorded[x][now - 1] /\ recorded[x][now - 1] <= recorded[x][MaxTime + 1]
    BY <1>4, <2>1
  <2> QED
    BY <1>2, <1>4, <2>2, <2>3
<1>6. Found(a) \in Nat /\ Found(a) < MaxErrors
  BY <1>2, <1>5 DEF Found, x, c
<1> QED
  BY <1>2, <1>6 DEF Covered

\* What later steps leave of the tables: an alert stays what it is or is
\* deleted, the group of an alert does not become one of its project only, what
\* is covered stays covered, and an event keeps what it is but for its count,
\* which passes no threshold.
Grows ==
    /\ Len(alerts) <= Len(alerts)' /\ Len(events) <= Len(events)'
    /\ \A a \in 1..Len(alerts) :
        /\ a \in Rows' => /\ a \in Rows /\ alerts'[a].project = alerts[a].project
                          /\ alerts'[a].group = alerts[a].group
                          /\ alerts'[a].createdAt = alerts[a].createdAt
        /\ Counted(a)' => Counted(a) /\ \A n \in Nat : Covered(a, n) => Covered(a, n)'
    /\ \A i \in 1..Len(events) :
        /\ events'[i].alert = events[i].alert /\ events'[i].status = events[i].status
        /\ events'[i].name = events[i].name
        /\ Counted(events[i].alert)' => Ahead(events'[i].count) = Ahead(events[i].count)

\* What a consumer has read is still of use.
LEMMA CountLater ==
    ASSUME StoreOK, Grows, NEW w \in CountRecs, CountOK(w)
    PROVE  CountOK(w)'
<1>1. Len(alerts) \in Nat /\ Len(events) \in Nat /\ \A i \in 1..Len(events) : events[i] \in EventRecs
  BY Tables
<1>2. w.alert \in 1..Len(alerts) /\ w.base \in 1..Len(events) /\ w.count \in Nat
  BY DEF CountOK, CountRecs
<1>3. Len(alerts)' \in Nat /\ Len(events)' \in Nat => w.alert \in 1..Len(alerts)' /\ w.base \in 1..Len(events)'
  BY <1>1, <1>2 DEF Grows
<1>4. /\ events'[w.base].alert = w.alert /\ events'[w.base].status = w.status
      /\ w.alert \in Rows' =>
            alerts'[w.alert].group = w.job.group /\ alerts'[w.alert].createdAt = w.since
  BY <1>2 DEF Grows, CountOK
<1>5. ASSUME Counted(w.alert)'
      PROVE  LET next == nextSpanCountThreshold(events'[w.base].count)
             IN  /\ Covered(w.alert, w.count)'
                 /\ w.op \in {"count", "update"} => Ahead(w.count) = Ahead(events'[w.base].count)
                 /\ w.op = "repeat" /\ w.status = "open" => w.count >= next
  <2>1. Counted(w.alert) /\ (Covered(w.alert, w.count) => Covered(w.alert, w.count)')
    BY <1>2, <1>5 DEF Grows
  <2>2. Ahead(events'[w.base].count) = Ahead(events[w.base].count)
    BY <1>2, <1>5 DEF Grows, CountOK
  <2>3. nextSpanCountThreshold(events'[w.base].count) = nextSpanCountThreshold(events[w.base].count)
    BY <2>2, SameThreshold
  <2> QED
    BY <2>1, <2>2, <2>3 DEF CountOK
<1>6. w.alert \in 1..Len(alerts)' /\ w.base \in 1..Len(events)'
  BY <1>1, <1>2 DEF Grows
<1> QED
  BY <1>4, <1>5, <1>6 DEF CountOK

\* An event that was repeated for a reason has still got it.
LEMMA PassedLater ==
    ASSUME IngestOK, StoreOK, Grows, events' \in Seq(EventRecs), NEW i \in 1..Len(events)
    PROVE  Passed(i)'
<1>1. Len(events) \in Nat /\ Len(events)' \in Nat /\ Len(events) <= Len(events)'
  BY Tables, LenProperties DEF Grows
<1>2. \A j \in 1..Len(events) : /\ events[j] \in EventRecs /\ events'[j] \in EventRecs
                                /\ events[j].count \in Nat /\ events'[j].count \in Nat
  <2>1. \A j \in 1..Len(events)' : events'[j] \in EventRecs
    BY ElementOfSeq
  <2> QED
    BY <1>1, <2>1, Tables, RowFields
<1>3. SUFFICES ASSUME events'[i].name = "recurring"
               PROVE  \E b \in 1..(i - 1) :
                        /\ IsPrev(b, i)'
                        /\ Counted(events[i].alert)' /\ events'[b].status = "open" =>
                            events'[i].count >= nextSpanCountThreshold(events'[b].count)
  BY DEF Passed
<1>4. Passed(i) /\ events[i].name = "recurring"
  BY <1>3 DEF Grows, StoreOK
<1>5. PICK b \in 1..(i - 1) :
        /\ IsPrev(b, i)
        /\ Counted(events[i].alert) /\ events[b].status = "open" =>
                events[i].count >= nextSpanCountThreshold(events[b].count)
  BY <1>4 DEF Passed
<1>6. \A j \in 1..(i - 1) : j \in 1..Len(events)
  BY <1>1
<1>7. IsPrev(b, i)'
  BY <1>5, <1>6 DEF IsPrev, Grows
<1>8. ASSUME Counted(events[i].alert)', events'[b].status = "open"
      PROVE  events'[i].count >= nextSpanCountThreshold(events'[b].count)
  <2> DEFINE a == events[i].alert
             next == nextSpanCountThreshold(events[b].count)
  <2>1. events'[i].alert = a /\ events[b].alert = a /\ events[b].status = "open" /\ b \in 1..Len(events)
    BY <1>5, <1>6, <1>8 DEF IsPrev, Grows
  <2>2. Counted(a)' /\ a \in 1..Len(alerts)
    BY <1>8, <2>1 DEF StoreOK
  <2>3. Counted(a)
    BY <2>2 DEF Grows
  <2>4. Ahead(events'[i].count) = Ahead(events[i].count) /\ Ahead(events'[b].count) = Ahead(events[b].count)
    BY <2>1, <2>2 DEF Grows
  <2>5. events[b].count < MaxErrors
    <3>1. Covered(a, events[b].count) /\ a \in Rows
      BY <2>1, <2>3 DEF StoreOK, Counted
    <3> QED
      BY <1>2, <2>1, <3>1, FoundErrors
  <2>6. next \in Thresholds /\ events[i].count >= next
    BY <1>2, <1>5, <2>1, <2>3, <2>5, NextThreshold
  <2>7. nextSpanCountThreshold(events'[b].count) = next
    BY <2>4, SameThreshold
  <2>8. events'[i].count >= next
    <3> HIDE DEF next
    <3> QED
      BY <1>2, <2>4, <2>6, StillPassed
  <2> QED
    BY <2>7, <2>8
<1> QED
  BY <1>5, <1>7, <1>8

\* Events that are not new.
LEMMA EventsLater ==
    ASSUME IngestOK, StoreOK, Grows, events' \in Seq(EventRecs), alerts' \in Seq(AlertRecs \cup {None}),
           \A i \in 1..Len(events) : Counted(events[i].alert)' => Covered(events[i].alert, events[i].count)'
    PROVE  \A i \in 1..Len(events) :
            /\ events'[i].alert \in 1..Len(alerts)'
            /\ Counted(events[i].alert)' => Covered(events[i].alert, events[i].count)'
            /\ Passed(i)'
<1> SUFFICES ASSUME NEW i \in 1..Len(events)
             PROVE  /\ events'[i].alert \in 1..Len(alerts)'
                    /\ Counted(events[i].alert)' => Covered(events[i].alert, events[i].count)'
                    /\ Passed(i)'
  OBVIOUS
<1>1. events'[i].alert = events[i].alert /\ events[i].alert \in 1..Len(alerts)
  BY DEF Grows, StoreOK
<1>2. Len(alerts) \in Nat /\ Len(alerts)' \in Nat /\ Len(alerts) <= Len(alerts)'
  BY Tables, LenProperties DEF Grows
<1> QED
  BY <1>1, <1>2, PassedLater

\* The tables after a step that writes no event.
LEMMA NoEvent ==
    ASSUME IngestOK, StoreOK, Grows, events' = events, Len(alerts)' = Len(alerts),
           alerts' \in Seq(AlertRecs \cup {None}),
           \A a \in Rows' : alerts'[a].event = alerts[a].event
    PROVE  StoreOK'
<1>1. \A i \in 1..Len(events) : Counted(events[i].alert)' => Covered(events[i].alert, events[i].count)'
  <2> SUFFICES ASSUME NEW i \in 1..Len(events), Counted(events[i].alert)'
               PROVE  Covered(events[i].alert, events[i].count)'
    OBVIOUS
  <2>1. events[i].alert \in 1..Len(alerts) /\ events[i].count \in Nat
    BY Tables, RowFields DEF StoreOK
  <2>2. Counted(events[i].alert)
    BY <2>1 DEF Grows
  <2>3. Covered(events[i].alert, events[i].count)
    BY <2>2 DEF StoreOK
  <2> QED
    BY <2>1, <2>3 DEF Grows
<1>2. events \in Seq(EventRecs)
  BY DEF StoreOK
<1>3. \A i \in 1..Len(events) :
            /\ events'[i].alert \in 1..Len(alerts)'
            /\ Counted(events[i].alert)' => Covered(events[i].alert, events[i].count)'
            /\ Passed(i)'
  BY <1>1, <1>2, EventsLater
<1>4. \A a \in Rows' : a \in Rows
  BY DEF Grows, Rows
<1>5. \A a \in Rows' :
        LET l == alerts'[a].event
        IN  /\ l \in 1..Len(events) /\ events[l].alert = a
            /\ \A i \in 1..Len(events) : events[i].alert = a => i <= l
  BY <1>4 DEF StoreOK
<1> QED
  BY <1>2, <1>3, <1>5 DEF StoreOK

\* Steps between which no error is recorded and no time passes.
LEMMA StoreGrows ==
    ASSUME now' = now, recorded' = recorded,
           Len(alerts) <= Len(alerts)', Len(events) <= Len(events)',
           \A a \in 1..Len(alerts) :
               a \in Rows' => /\ a \in Rows /\ alerts'[a].project = alerts[a].project
                              /\ alerts'[a].group = alerts[a].group
                              /\ alerts'[a].createdAt = alerts[a].createdAt,
           \A i \in 1..Len(events) :
               /\ events'[i].alert = events[i].alert /\ events'[i].status = events[i].status
               /\ events'[i].name = events[i].name
               /\ Counted(events[i].alert)' => Ahead(events'[i].count) = Ahead(events[i].count)
    PROVE  Grows
<1>1. ASSUME NEW a \in 1..Len(alerts), Counted(a)'
      PROVE  Counted(a) /\ \A n \in Nat : Covered(a, n) => Covered(a, n)'
  <2>1. /\ a \in Rows' /\ a \in Rows /\ alerts'[a].project = alerts[a].project
        /\ alerts'[a].group = alerts[a].group /\ alerts'[a].createdAt = alerts[a].createdAt
    BY <1>1 DEF Counted
  <2>2. Single(a)
    BY <1>1, <2>1 DEF Counted, Single, Errors
  <2>3. Found(a)' = Found(a)
    BY <2>1 DEF Found
  <2> QED
    BY <2>1, <2>2, <2>3 DEF Counted, Covered
<1> QED
  BY <1>1 DEF Grows

\* Steps that leave the tables alone.
LEMMA NothingGrows ==
    ASSUME StoreOK, now' = now, recorded' = recorded, UNCHANGED store
    PROVE  Grows /\ StoreOK'
<1>1. alerts' = alerts /\ events' = events /\ Len(alerts) \in Nat /\ Len(events) \in Nat
  BY Tables DEF store
<1>2. Grows
  BY <1>1, StoreGrows DEF Rows
<1>3. StoreOK'
  BY <1>1 DEF StoreOK, Counted, Covered, Found, Single, Errors, Rows, Passed, IsPrev
<1> QED
  BY <1>2, <1>3

\* The consumers after a step: each has what it had, or nothing, or a record
\* that fits the tables.
LEMMA WorkLater ==
    ASSUME RepeatInv, Grows, \A j : JobOK(j) => JobOK(j)', \A j \in jobs' : JobOK(j)',
           work' \in [Consumers -> CreateRecs \cup CountRecs \cup {None}],
           \A c \in Consumers : \/ work'[c] \in {work[c], None}
                                \/ \E r \in CreateRecs \cup CountRecs :
                                    /\ work'[c] = r /\ JobOK(r.job)'
                                    /\ r.op # "create" => CountOK(r)'
    PROVE  WorkOK'
<1>1. ASSUME NEW c \in Consumers, NEW r, r = work'[c], r # None
      PROVE  JobOK(r.job)' /\ (r.op # "create" => CountOK(r)')
  <2>1. CASE r = work[c]
    <3>1. /\ r \in CreateRecs \cup CountRecs /\ JobOK(r.job) /\ (r.op # "create" => CountOK(r))
      BY <1>1, <2>1 DEF RepeatInv, WorkOK
    <3>2. r.op # "create" => r \in CountRecs
      BY <3>1 DEF CreateRecs
    <3>3. r.op # "create" => CountOK(r)'
      BY <3>1, <3>2, CountLater DEF RepeatInv
    <3> QED
      BY <3>1, <3>3
  <2>2. CASE r # work[c]
    BY <1>1, <2>2
  <2> QED
    BY <2>1, <2>2
<1> QED
  BY <1>1 DEF WorkOK

\* The request of a user after a step of another.
LEMMA RequestLater ==
    ASSUME RepeatInv, Grows, alerts' \in Seq(AlertRecs \cup {None}), request' \in {request, None}
    PROVE  RequestOK'
<1>1. CASE request' = None
  BY <1>1 DEF RequestOK
<1>2. CASE request' # None
  <2> DEFINE r == request
  <2>1. request' = r /\ RequestOK /\ r # None
    BY <1>2 DEF RepeatInv
  <2>2. r \in Requests /\ r.alert \in 1..Len(alerts) /\ r.event.alert = r.alert
    BY <2>1 DEF RequestOK
  <2>3. r.event.count \in Nat
    BY <2>2, RowFields DEF Requests
  <2>4. r.alert \in 1..Len(alerts)'
    BY <2>2, Tables, LenProperties DEF Grows, RepeatInv
  <2>5. ASSUME NEW a, a = r.alert, Counted(a)' PROVE Covered(a, r.event.count)'
    <3>1. Counted(a) /\ Covered(a, r.event.count)
      BY <2>1, <2>2, <2>5 DEF Grows, RequestOK
    <3>2. \A n \in Nat : Covered(a, n) => Covered(a, n)'
      BY <2>2, <2>5 DEF Grows
    <3>3. request' = request
      BY <2>1
    <3> QED
      BY <2>3, <3>1, <3>2, <3>3 DEF Covered
  <2> QED
    BY <2>1, <2>2, <2>4, <2>5 DEF RequestOK
<1> QED
  BY <1>1, <1>2

\* Jobs when nothing is recorded.
LEMMA JobsLater == ASSUME recorded' = recorded PROVE \A j : JobOK(j) => JobOK(j)'
BY DEF JobOK, Errors

\* A step that announces nothing new.
LEMMA NotAnnounced ==
    ASSUME AnnounceOK, announce' \subseteq announce, scheduled' = scheduled,
           Len(events) \in Nat, Len(events)' \in Nat, Len(events) <= Len(events)'
    PROVE  AnnounceOK'
<1>1. \A n \in announce' : n.event \in 0..Len(events)'
  BY DEF AnnounceOK
<1>2. \A x \in DOMAIN scheduled : x[1] \in Nat
  BY DEF AnnounceOK
<1>3. \A x \in DOMAIN scheduled :
        x[1] # 0 => scheduled[x] <= 1 /\ (x[1] > Len(events)' => scheduled[x] = 0)
  BY <1>2 DEF AnnounceOK
<1> QED
  BY <1>1, <1>3 DEF AnnounceOK

\* A step that announces a new event, or none.
LEMMA Announced ==
    ASSUME AnnounceOK, NEW n, announce' = announce \cup {n}, scheduled' = scheduled,
           Len(events) \in Nat, Len(events)' \in Nat,
           \/ n.event = 0 /\ Len(events) <= Len(events)'
           \/ n.event = Len(events) + 1 /\ Len(events)' = Len(events) + 1
    PROVE  AnnounceOK'
<1>1. /\ \A m \in announce' : m.event \in 0..Len(events)' /\ (m = n \/ m.event \in 0..Len(events))
      /\ n.event \in 0..Len(events)' /\ (n.event # 0 => n.event > Len(events))
  BY DEF AnnounceOK
<1>2. \A x \in DOMAIN scheduled : x[1] \in Nat
  BY DEF AnnounceOK
<1>3. \A x \in DOMAIN scheduled :
        x[1] # 0 => scheduled[x] <= 1 /\ (x[1] > Len(events)' => scheduled[x] = 0)
  BY <1>2 DEF AnnounceOK
<1>4. \A m, k \in announce' : m.event = k.event /\ m.event # 0 => m = k
  BY <1>1 DEF AnnounceOK
<1>5. \A m \in announce', x \in DOMAIN scheduled : m.event # 0 /\ x[1] = m.event => scheduled[x] = 0
  BY <1>1, <1>2 DEF AnnounceOK
<1> QED
  BY <1>1, <1>3, <1>4, <1>5 DEF AnnounceOK

-----------------------------------------------------------------------------
(* Time and errors.                                                        *)

\* A minute passes.
LEMMA TickStep == ASSUME RepeatInv, Tick PROVE RepeatInv'
<1>1. /\ now < MaxTime /\ now' = now + 1 /\ recorded' = recorded /\ bursts' = bursts
      /\ alerts' = alerts /\ events' = events /\ work' = work /\ jobs' = jobs /\ request' = request
      /\ IngestOK /\ StoreOK /\ WorkOK
  BY DEF Tick, ingest, store, user, RepeatInv
<1>2. now \in 0..MaxTime /\ now' \in 0..MaxTime /\ MaxTime \in Nat
  BY <1>1, BoundsAssumption DEF IngestOK
<1>3. IngestOK'
  BY <1>1, <1>2 DEF IngestOK
<1>4. ASSUME NEW a \in 1..Len(alerts), Counted(a)'
      PROVE  Counted(a) /\ \A n \in Nat : Covered(a, n) => Covered(a, n)'
  <2>1. Counted(a) /\ a \in Rows
    BY <1>1, <1>4 DEF Counted, Rows, Single, Errors
  <2> DEFINE x == <<alerts[a].project, alerts[a].group>>
             created == alerts[a].createdAt
  <2>2. x \in Projects \X Groups /\ created \in 0..MaxTime
    BY <1>1, <2>1, Tables, RowFields
  <2>3. recorded[x] \in [Minutes -> Nat] /\ \A s, t \in Minutes : s <= t => recorded[x][s] <= recorded[x][t]
    BY <1>1, <2>2 DEF IngestOK
  <2> HIDE DEF x, created
  <2>4. created \in Minutes /\ (now > created => now \in Minutes /\ recorded[x][created] <= recorded[x][now])
    BY <1>2, <2>2, <2>3 DEF Minutes
  <2>5. now - 1 > created => now - 1 \in Minutes /\ recorded[x][now - 1] <= recorded[x][now]
    BY <1>2, <2>2, <2>3 DEF Minutes
  <2>6. Found(a) = IF now - 1 > created THEN recorded[x][now - 1] - recorded[x][created] ELSE 0
    BY DEF Found, x, created
  <2>7. Found(a)' = IF now > created THEN recorded[x][now] - recorded[x][created] ELSE 0
    <3>1. now' - 1 = now
      BY <1>1, <1>2
    <3> QED
      BY <1>1, <3>1 DEF Found, x, created
  <2>8. now > created => recorded[x][now] \in Nat /\ recorded[x][created] \in Nat
    BY <2>3, <2>4
  <2>9. now - 1 > created => recorded[x][now - 1] \in Nat
    BY <2>3, <2>5
  <2> HIDE DEF Found
  <2>10. Found(a) \in Nat /\ Found(a)' \in Nat /\ Found(a) <= Found(a)'
    <3>1. CASE now - 1 > created
      <4>1. now > created
        BY <1>2, <2>2, <3>1
      <4>2. recorded[x][created] <= recorded[x][now - 1]
        BY <2>2, <2>3, <2>4, <2>5, <3>1, <1>2
      <4> QED
        BY <2>4, <2>5, <2>6, <2>7, <2>8, <2>9, <3>1, <4>1, <4>2, SMTT(30)
    <3>2. CASE ~(now - 1 > created)
      BY <2>4, <2>6, <2>7, <2>8, <3>2
    <3> QED
      BY <3>1, <3>2
  <2> QED
    BY <2>1, <2>10 DEF Covered
<1>5. Grows
  BY <1>1, <1>4, Tables DEF Grows, Rows
<1>6. StoreOK'
  <2>1. alerts' \in Seq(AlertRecs \cup {None})
    BY <1>1 DEF StoreOK
  <2> QED
    BY <1>1, <1>5, <2>1, NoEvent
<1>7. WorkOK'
  BY <1>1, <1>5, JobsLater, WorkLater DEF WorkOK
<1>8. RequestOK'
  BY <1>1, <1>5, RequestLater DEF StoreOK
<1> QED
  BY <1>3, <1>6, <1>7, <1>8 DEF RepeatInv

\* Errors are recorded, for the minutes after this one.
LEMMA RecordGrows ==
    ASSUME IngestOK, NEW p \in Projects, NEW g \in Groups, NEW n \in Nat \ {0}, Errors(p, g) + n < MaxErrors,
           recorded' = [recorded EXCEPT ![<<p, g>>] = Recorded(recorded[<<p, g>>], n)],
           now' = now, bursts' \in Nat
    PROVE  /\ IngestOK'
           /\ \A x \in Projects \X Groups, t \in Minutes :
                /\ recorded'[x][t] \in Nat /\ recorded[x][t] \in Nat
                /\ recorded'[x][t] >= recorded[x][t]
                /\ t <= now => recorded'[x][t] = recorded[x][t]
           /\ Errors(p, g)' > 0
<1> DEFINE y == <<p, g>>
           new == Recorded(recorded[y], n)
<1>1. /\ y \in Projects \X Groups /\ recorded \in [Projects \X Groups -> [Minutes -> Nat]]
      /\ now \in 0..MaxTime /\ MaxTime \in Nat /\ MaxTime + 1 \in Minutes /\ MaxErrors \in Nat
  BY BoundsAssumption DEF IngestOK, Minutes, MaxErrors
<1>2. \A t \in Minutes : t \in Nat /\ recorded[y][t] \in Nat
  BY <1>1 DEF Minutes
<1>3. /\ new \in [Minutes -> Nat]
      /\ \A t \in Minutes : new[t] = IF t > now THEN recorded[y][t] + n ELSE recorded[y][t]
  BY <1>2 DEF Recorded
<1> HIDE DEF new, y
<1>4. /\ recorded' \in [Projects \X Groups -> [Minutes -> Nat]] /\ recorded'[y] = new
      /\ \A x \in Projects \X Groups : x # y => recorded'[x] = recorded[x]
  BY <1>1, <1>3 DEF new, y
<1>5. new[MaxTime + 1] < MaxErrors /\ new[MaxTime + 1] > 0
  BY <1>1, <1>2, <1>3 DEF Errors, y
<1>6. ASSUME NEW s \in Minutes, NEW t \in Minutes, s <= t PROVE new[s] <= new[t]
  <2>1. recorded[y][s] <= recorded[y][t]
    BY <1>1, <1>6 DEF IngestOK
  <2> QED
    BY <1>1, <1>2, <1>3, <1>6, <2>1
<1>7. IngestOK'
  <2>1. \A x \in Projects \X Groups :
            /\ recorded'[x][MaxTime + 1] < MaxErrors
            /\ \A s, t \in Minutes : s <= t => recorded'[x][s] <= recorded'[x][t]
    BY <1>4, <1>5, <1>6 DEF IngestOK
  <2> QED
    BY <1>1, <1>4, <2>1 DEF IngestOK
<1>8. ASSUME NEW x \in Projects \X Groups, NEW t \in Minutes
      PROVE  /\ recorded'[x][t] \in Nat /\ recorded[x][t] \in Nat
             /\ recorded'[x][t] >= recorded[x][t]
             /\ t <= now => recorded'[x][t] = recorded[x][t]
  <2>1. recorded[x][t] \in Nat
    BY <1>1
  <2> QED
    BY <1>1, <1>2, <1>3, <1>4, <2>1, SMTT(30)
<1>9. Errors(p, g)' > 0
  BY <1>4, <1>5 DEF Errors, y
<1> QED
  BY <1>7, <1>8, <1>9

\* A batch with errors is recorded, and a job may be added.
LEMMA RecordStep == ASSUME RepeatInv, RecordErrors PROVE RepeatInv'
<1>1. /\ now' = now /\ bursts' = bursts + 1
      /\ alerts' = alerts /\ events' = events /\ work' = work /\ request' = request
      /\ IngestOK /\ StoreOK /\ WorkOK
  BY DEF RecordErrors, store, user, RepeatInv
<1>2. PICK p \in Projects, g \in Groups : \E n \in Bursts[p] :
        /\ Errors(p, g) + n < MaxErrors
        /\ recorded' = [recorded EXCEPT ![<<p, g>>] = Recorded(recorded[<<p, g>>], n)]
        /\ \/ jobs' = jobs \cup {[project |-> p, group |-> g, span |-> bursts, time |-> now,
                                  due |-> now + Delay]}
           \/ jobs' = jobs
  BY DEF RecordErrors
<1>3. PICK n \in Bursts[p] :
        /\ Errors(p, g) + n < MaxErrors
        /\ recorded' = [recorded EXCEPT ![<<p, g>>] = Recorded(recorded[<<p, g>>], n)]
        /\ \/ jobs' = jobs \cup {[project |-> p, group |-> g, span |-> bursts, time |-> now,
                                  due |-> now + Delay]}
           \/ jobs' = jobs
  BY <1>2
<1>4. n \in Nat \ {0} /\ bursts \in Nat /\ bursts' \in Nat /\ now \in Nat /\ now + Delay \in Nat
  BY <1>1, BurstsAssumption, BoundsAssumption DEF IngestOK
<1>5. /\ IngestOK'
      /\ \A x \in Projects \X Groups, t \in Minutes :
            /\ recorded'[x][t] \in Nat /\ recorded[x][t] \in Nat
            /\ recorded'[x][t] >= recorded[x][t]
            /\ t <= now => recorded'[x][t] = recorded[x][t]
      /\ Errors(p, g)' > 0
  BY <1>1, <1>3, <1>4, RecordGrows
<1>6. MaxTime + 1 \in Minutes /\ MaxTime \in Nat /\ now \in 0..MaxTime
  BY <1>1, BoundsAssumption DEF IngestOK, Minutes
<1>7. \A q \in Projects, h \in Groups :
        Errors(q, h) \in Nat /\ Errors(q, h)' \in Nat /\ Errors(q, h)' >= Errors(q, h)
  BY <1>5, <1>6 DEF Errors
<1>8. ASSUME NEW a \in 1..Len(alerts), Counted(a)'
      PROVE  Counted(a) /\ \A m \in Nat : Covered(a, m) => Covered(a, m)'
  <2>1. a \in Rows
    BY <1>1, <1>8 DEF Counted, Rows
  <2> DEFINE x == <<alerts[a].project, alerts[a].group>>
             created == alerts[a].createdAt
  <2>2. x \in Projects \X Groups /\ created \in 0..MaxTime /\ alerts[a].group \in Groups
    BY <1>1, <2>1, Tables, RowFields
  <2>3. Counted(a)
    <3>1. \A q \in Projects \ {alerts[a].project} : Errors(q, alerts[a].group)' = 0
      BY <1>1, <1>8 DEF Counted, Single, Errors
    <3>2. ASSUME NEW q \in Projects \ {alerts[a].project} PROVE Errors(q, alerts[a].group) = 0
      <4> DEFINE h == alerts[a].group
      <4>1. Errors(q, h) \in Nat /\ Errors(q, h)' = 0 /\ Errors(q, h)' >= Errors(q, h)
        <5>1. ASSUME NEW k \in Groups PROVE /\ Errors(q, k) \in Nat
                                            /\ Errors(q, k)' >= Errors(q, k)
          BY <1>7
        <5> QED
          BY <1>1, <2>2, <3>1, <5>1 DEF Errors
      <4> HIDE DEF h
      <4>2. Errors(q, h) = 0
        BY <4>1
      <4> QED
        BY <4>2 DEF h
    <3> QED
      BY <2>1, <3>2 DEF Counted, Single
  <2>4. Found(a)' = Found(a)
    <3> HIDE DEF x, created
    <3>1. now - 1 > created => now - 1 \in Minutes /\ created \in Minutes /\ now - 1 <= now /\ created <= now
      BY <1>6, <2>2 DEF Minutes
    <3>2. now - 1 > created =>
            recorded'[x][now - 1] = recorded[x][now - 1] /\ recorded'[x][created] = recorded[x][created]
      BY <1>5, <2>2, <3>1
    <3>3. /\ Found(a) = IF now - 1 > created THEN recorded[x][now - 1] - recorded[x][created] ELSE 0
          /\ Found(a)' = IF now - 1 > created THEN recorded'[x][now - 1] - recorded'[x][created] ELSE 0
      BY <1>1 DEF Found, x, created
    <3> QED
      BY <3>2, <3>3
  <2> QED
    BY <2>3, <2>4 DEF Covered
<1>9. Grows
  BY <1>1, <1>8, Tables DEF Grows, Rows
<1>10. StoreOK'
  <2>1. alerts' \in Seq(AlertRecs \cup {None})
    BY <1>1 DEF StoreOK
  <2> QED
    BY <1>1, <1>9, <2>1, NoEvent
<1>11. \A j : JobOK(j) => JobOK(j)'
  <2> SUFFICES ASSUME NEW j, JobOK(j) PROVE JobOK(j)'
    OBVIOUS
  <2>1. j \in JobRecs /\ Errors(j.project, j.group) > 0 /\ j.project \in Projects /\ j.group \in Groups
    BY RowFields DEF JobOK
  <2>2. Errors(j.project, j.group)' > 0
    BY <1>7, <2>1
  <2> QED
    BY <2>1, <2>2 DEF JobOK
<1>12. \A j \in jobs' : JobOK(j)'
  <2>1. ASSUME NEW j, j = [project |-> p, group |-> g, span |-> bursts, time |-> now, due |-> now + Delay]
        PROVE  JobOK(j)'
    <3>1. j \in JobRecs /\ j.project = p /\ j.group = g
      BY <1>4, <2>1 DEF JobRecs
    <3> QED
      BY <1>5, <3>1 DEF JobOK, Errors
  <2>2. \A j \in jobs : JobOK(j)'
    BY <1>1, <1>11 DEF WorkOK
  <2> QED
    BY <1>3, <2>1, <2>2
<1>13. WorkOK'
  BY <1>1, <1>9, <1>11, <1>12, WorkLater DEF WorkOK
<1>14. RequestOK'
  BY <1>1, <1>9, RequestLater DEF StoreOK
<1> QED
  BY <1>5, <1>10, <1>13, <1>14 DEF RepeatInv

-----------------------------------------------------------------------------
(* Consumers read and count.                                               *)

\* A step that leaves the errors and the tables alone.
LEMMA Aside ==
    ASSUME RepeatInv, now' = now, recorded' = recorded, bursts' = bursts, UNCHANGED store, WorkOK',
           request' \in {request, None}
    PROVE  RepeatInv'
<1>1. Grows /\ StoreOK'
  BY NothingGrows DEF RepeatInv
<1>2. IngestOK'
  BY DEF RepeatInv, IngestOK
<1>3. RequestOK'
  BY <1>1, RequestLater DEF StoreOK
<1> QED
  BY <1>1, <1>2, <1>3 DEF RepeatInv

\* The consumers when the errors and the tables are left alone.
LEMMA AsideWork ==
    ASSUME RepeatInv, now' = now, recorded' = recorded, UNCHANGED store,
           \A j \in jobs' : j \in jobs \/ JobOK(j),
           work' \in [Consumers -> CreateRecs \cup CountRecs \cup {None}],
           \A c \in Consumers : \/ work'[c] \in {work[c], None}
                                \/ \E r \in CreateRecs \cup CountRecs :
                                    work'[c] = r /\ JobOK(r.job) /\ (r.op # "create" => CountOK(r))
    PROVE  WorkOK'
<1>1. Grows
  BY NothingGrows DEF RepeatInv
<1>2. \A j : JobOK(j) => JobOK(j)'
  BY JobsLater
<1>3. \A r \in CreateRecs \cup CountRecs : CountOK(r) => CountOK(r)'
  <2> SUFFICES ASSUME NEW r \in CreateRecs \cup CountRecs, CountOK(r) PROVE CountOK(r)'
    OBVIOUS
  <2>1. alerts' = alerts /\ events' = events
    BY DEF store
  <2> QED
    BY <2>1 DEF CountOK, Counted, Covered, Found, Single, Errors, Rows
<1>4. \A j \in jobs' : JobOK(j)'
  BY <1>2 DEF RepeatInv, WorkOK
<1> QED
  BY <1>1, <1>2, <1>3, <1>4, WorkLater

\* What is at hand.
LEMMA WorkAt ==
    ASSUME RepeatInv, NEW c \in Consumers, work[c] # None
    PROVE  /\ work[c] \in CreateRecs \cup CountRecs /\ JobOK(work[c].job) /\ work[c].job \in JobRecs
           /\ work[c].op # "create" => work[c] \in CountRecs /\ CountOK(work[c])
<1>1. work[c] \in CreateRecs \cup CountRecs /\ JobOK(work[c].job) /\ (work[c].op # "create" => CountOK(work[c]))
  BY DEF RepeatInv, WorkOK
<1>2. work[c].op # "create" => work[c] \in CountRecs
  BY <1>1 DEF CreateRecs
<1> QED
  BY <1>1, <1>2 DEF JobOK

\* A job is dropped.
LEMMA DropStep == ASSUME RepeatInv, NEW c \in Consumers, JobDropped(c) PROVE RepeatInv'
<1>1. /\ now' = now /\ recorded' = recorded /\ bursts' = bursts /\ UNCHANGED store
      /\ work' = work /\ request' = request /\ jobs' \subseteq jobs
  BY DEF JobDropped, ingest, user
<1>2. WorkOK'
  BY <1>1, AsideWork DEF RepeatInv, WorkOK
<1> QED
  BY <1>1, <1>2, Aside

\* A consumer takes a job and looks for the alert.
LEMMA SelectStep == ASSUME RepeatInv, NEW c \in Consumers, SelectErrorAlert(c) PROVE RepeatInv'
<1>1. /\ now' = now /\ recorded' = recorded /\ bursts' = bursts /\ UNCHANGED store
      /\ request' = request /\ StoreOK /\ WorkOK
  BY DEF SelectErrorAlert, ingest, user, RepeatInv
<1>2. PICK job \in jobs :
        /\ jobs' = jobs \ {job}
        /\ \/ work' = [work EXCEPT ![c] = [op |-> "create", job |-> job, project |-> job.project,
                                           count |-> 1]]
           \/ \E a \in Matching(job.group) :
                work' = [work EXCEPT ![c] =
                    [op |-> "count", job |-> job, project |-> alerts[a].project, alert |-> a,
                     base |-> alerts[a].event, since |-> alerts[a].createdAt,
                     count |-> EventOf(a).count, status |-> EventOf(a).status]]
  BY DEF SelectErrorAlert
<1>3. JobOK(job) /\ job \in JobRecs
  BY <1>1 DEF WorkOK, JobOK
<1>4. \E r \in CreateRecs \cup CountRecs :
        work' = [work EXCEPT ![c] = r] /\ JobOK(r.job) /\ (r.op # "create" => CountOK(r))
  <2>1. CASE work' = [work EXCEPT ![c] = [op |-> "create", job |-> job, project |-> job.project,
                                          count |-> 1]]
    <3> DEFINE r == [op |-> "create", job |-> job, project |-> job.project, count |-> 1]
    <3>1. r \in CreateRecs /\ r.job = job /\ r.op = "create"
      BY <1>3, RowFields DEF CreateRecs
    <3> QED
      BY <1>3, <2>1, <3>1
  <2>2. ASSUME NEW a \in Matching(job.group),
               work' = [work EXCEPT ![c] =
                    [op |-> "count", job |-> job, project |-> alerts[a].project, alert |-> a,
                     base |-> alerts[a].event, since |-> alerts[a].createdAt,
                     count |-> EventOf(a).count, status |-> EventOf(a).status]]
        PROVE  \E r \in CreateRecs \cup CountRecs :
                    work' = [work EXCEPT ![c] = r] /\ JobOK(r.job) /\ (r.op # "create" => CountOK(r))
    <3> DEFINE l == alerts[a].event
               r == [op |-> "count", job |-> job, project |-> alerts[a].project, alert |-> a,
                     base |-> l, since |-> alerts[a].createdAt,
                     count |-> events[l].count, status |-> events[l].status]
    <3>1. a \in Rows /\ alerts[a].group = job.group /\ a \in 1..Len(alerts) /\ a \in Nat
      BY <1>1, Tables DEF Matching
    <3>2. l \in 1..Len(events) /\ events[l].alert = a /\ events[l] \in EventRecs /\ l \in Nat
      BY <1>1, <3>1, Tables DEF StoreOK
    <3>3. /\ alerts[a].project \in Projects /\ alerts[a].createdAt \in 0..MaxTime
          /\ events[l].count \in Nat /\ events[l].status \in Statuses
      BY <1>1, <3>1, <3>2, Tables, RowFields
    <3>4. r \in CountRecs
      BY <1>3, <3>1, <3>2, <3>3 DEF CountRecs
    <3>5. /\ r.job = job /\ r.op = "count" /\ r.alert = a /\ r.base = l /\ r.since = alerts[a].createdAt
          /\ r.count = events[l].count /\ r.status = events[l].status
      OBVIOUS
    <3>6. Counted(a) => Covered(a, events[l].count)
      BY <1>1, <3>2 DEF StoreOK
    <3>7. work' = [work EXCEPT ![c] = r]
      BY <2>2 DEF EventOf
    <3> HIDE DEF r, l
    <3>8. CountOK(r)
      BY <3>1, <3>2, <3>5, <3>6 DEF CountOK, l
    <3> QED
      BY <1>3, <3>4, <3>5, <3>7, <3>8
  <2> QED
    BY <1>2, <2>1, <2>2
<1>5. PICK r \in CreateRecs \cup CountRecs :
        work' = [work EXCEPT ![c] = r] /\ JobOK(r.job) /\ (r.op # "create" => CountOK(r))
  BY <1>4
<1>6. WorkOK'
  BY <1>1, <1>2, <1>5, AsideWork DEF WorkOK
<1> QED
  BY <1>1, <1>6, Aside

\* What a job finds, of the project and group that it is about.
LEMMA SpansFound ==
    ASSUME RepeatInv, NEW w \in CountRecs, JobOK(w.job), CountOK(w)
    PROVE  /\ SpanCount(w) \in Nat
           /\ Counted(w.alert) => SpanCount(w) = Found(w.alert)
<1> DEFINE x == <<w.job.project, w.job.group>>
<1>1. w.job \in JobRecs /\ x \in Projects \X Groups /\ w.since \in 0..MaxTime
  BY RowFields DEF CountRecs
<1>2. /\ recorded[x] \in [Minutes -> Nat] /\ now \in 0..MaxTime /\ MaxTime \in Nat
      /\ \A s, t \in Minutes : s <= t => recorded[x][s] <= recorded[x][t]
  BY <1>1, BoundsAssumption DEF RepeatInv, IngestOK
<1>3. SpanCount(w) = IF now - 1 > w.since THEN recorded[x][now - 1] - recorded[x][w.since] ELSE 0
  BY DEF SpanCount
<1>4. SpanCount(w) \in Nat
  <2> HIDE DEF x
  <2>1. CASE now - 1 > w.since
    <3>1. now - 1 \in Minutes /\ w.since \in Minutes /\ w.since <= now - 1
      BY <1>1, <1>2, <2>1 DEF Minutes
    <3>2. /\ recorded[x][now - 1] \in Nat /\ recorded[x][w.since] \in Nat
          /\ recorded[x][w.since] <= recorded[x][now - 1]
      BY <1>2, <3>1
    <3> QED
      BY <1>3, <2>1, <3>2
  <2> QED
    BY <1>3, <2>1
<1>5. ASSUME Counted(w.alert) PROVE SpanCount(w) = Found(w.alert)
  <2>1. alerts[w.alert].group = w.job.group /\ alerts[w.alert].createdAt = w.since
    BY <1>5 DEF CountOK, Counted
  <2>2. Errors(w.job.project, w.job.group) > 0
    BY DEF JobOK
  <2>3. w.job.project = alerts[w.alert].project
    <3>1. SUFFICES ASSUME w.job.project # alerts[w.alert].project PROVE FALSE
      OBVIOUS
    <3>2. Errors(w.job.project, w.job.group) = 0
      BY <1>1, <1>5, <2>1, <3>1 DEF Counted, Single
    <3> QED
      BY <2>2, <3>2
  <2> QED
    BY <1>3, <2>1, <2>3 DEF Found
<1> QED
  BY <1>4, <1>5

\* A consumer counts the errors of an alert.
LEMMA CountStep == ASSUME RepeatInv, NEW c \in Consumers, CountAlertSpans(c) PROVE RepeatInv'
<1> DEFINE w == work[c]
           n == SpanCount(w)
           triggered == n >= nextSpanCountThreshold(w.count) \/ w.status = "closed"
           op == IF triggered THEN "repeat" ELSE "update"
           r == [w EXCEPT !.count = n, !.op = op]
<1>1. /\ now' = now /\ recorded' = recorded /\ bursts' = bursts /\ UNCHANGED store
      /\ request' = request /\ jobs' = jobs /\ WorkOK /\ StoreOK /\ IngestOK
      /\ w # None /\ w.op = "count" /\ work' = [work EXCEPT ![c] = r]
  BY DEF CountAlertSpans, ingest, user, RepeatInv
<1>2. w \in CountRecs /\ JobOK(w.job) /\ CountOK(w)
  BY <1>1, WorkAt
<1>3. n \in Nat /\ (Counted(w.alert) => n = Found(w.alert))
  BY <1>2, SpansFound
<1>4. w.count \in Nat /\ w.status \in Statuses
  BY <1>2 DEF CountRecs
<1>5. op \in {"repeat", "update"}
  OBVIOUS
<1>6. /\ r \in CountRecs /\ r.job = w.job /\ r.alert = w.alert /\ r.base = w.base /\ r.since = w.since
      /\ r.status = w.status /\ r.op = op /\ r.count = n
  <2> HIDE DEF n, op, w
  <2> QED
    BY <1>2, <1>3, <1>5 DEF CountRecs
<1>7. ASSUME Counted(w.alert)
      PROVE  LET next == nextSpanCountThreshold(events[w.base].count)
             IN  /\ Covered(w.alert, n)
                 /\ op = "update" => Ahead(n) = Ahead(events[w.base].count)
                 /\ op = "repeat" /\ w.status = "open" => n >= next
  <2>1. /\ w.alert \in Rows /\ Covered(w.alert, w.count) /\ Ahead(w.count) = Ahead(events[w.base].count)
    BY <1>1, <1>2, <1>7 DEF CountOK, Counted
  <2>2. w.count < MaxErrors
    BY <1>1, <1>4, <2>1, FoundErrors
  <2>3. nextSpanCountThreshold(w.count) = nextSpanCountThreshold(events[w.base].count)
    BY <2>1, SameThreshold
  <2>4. w.count <= 1 \/ w.count <= n
    BY <1>3, <1>7, <2>1 DEF Covered
  <2>5. nextSpanCountThreshold(w.count) \in Nat
    BY <1>4, <2>2, NextThreshold
  <2>6. CASE triggered
    BY <1>3, <1>7, <2>3, <2>6 DEF Covered, Statuses
  <2>7. CASE ~triggered
    <3>1. Ahead(n) = Ahead(w.count)
      <4>1. n < nextSpanCountThreshold(w.count)
        BY <1>3, <2>5, <2>7
      <4> HIDE DEF n, w
      <4> QED
        BY <1>3, <1>4, <2>2, <2>4, <4>1, NotTriggered
    <3> QED
      BY <1>3, <1>7, <2>1, <2>7, <3>1 DEF Covered
  <2> QED
    BY <2>6, <2>7
<1> HIDE DEF r, n, op
<1>8. CountOK(r)
  BY <1>2, <1>5, <1>6, <1>7 DEF CountOK
<1>9. WorkOK'
  BY <1>1, <1>2, <1>6, <1>8, AsideWork DEF WorkOK
<1> QED
  BY <1>1, <1>9, Aside

-----------------------------------------------------------------------------
(* Events are written.                                                     *)

\* The events before a new one.
LEMMA Appended ==
    ASSUME IngestOK, StoreOK, now' = now, recorded' = recorded,
           NEW e \in EventRecs, events' = Append(events, e),
           alerts' \in Seq(AlertRecs \cup {None}), Len(alerts) <= Len(alerts)',
           \A a \in 1..Len(alerts) :
               a \in Rows' => /\ a \in Rows /\ alerts'[a].project = alerts[a].project
                              /\ alerts'[a].group = alerts[a].group
                              /\ alerts'[a].createdAt = alerts[a].createdAt
    PROVE  /\ Grows /\ events' \in Seq(EventRecs)
           /\ Len(events)' = Len(events) + 1 /\ events'[Len(events) + 1] = e
           /\ \A i \in 1..Len(events) :
                /\ events'[i] = events[i]
                /\ events'[i].alert \in 1..Len(alerts)'
                /\ Counted(events[i].alert)' => Covered(events[i].alert, events[i].count)'
                /\ Passed(i)'
<1>1. /\ events' \in Seq(EventRecs) /\ Len(events) \in Nat /\ Len(events)' = Len(events) + 1
      /\ events'[Len(events) + 1] = e /\ \A i \in 1..Len(events) : events'[i] = events[i]
  BY AppendProperties, LenProperties DEF StoreOK
<1>2. Grows
  BY <1>1, StoreGrows
<1>3. \A i \in 1..Len(events) : Counted(events[i].alert)' => Covered(events[i].alert, events[i].count)'
  <2> SUFFICES ASSUME NEW i \in 1..Len(events), NEW a, a = events[i].alert, Counted(a)'
               PROVE  Covered(a, events[i].count)'
    BY <1>1 DEF Counted, Covered, Single, Found, Rows
  <2>1. a \in 1..Len(alerts) /\ events[i].count \in Nat /\ events'[i] = events[i]
    BY <1>1, Tables, RowFields DEF StoreOK
  <2>2. Counted(a)
    BY <1>2, <2>1 DEF Grows
  <2>3. Covered(a, events[i].count)
    BY <2>2 DEF StoreOK
  <2>4. PICK n \in Nat : n = events[i].count
    BY <2>1
  <2>5. Covered(a, n)'
    BY <1>2, <2>1, <2>3, <2>4 DEF Grows
  <2> QED
    BY <2>1, <2>4, <2>5 DEF Covered
<1>4. \A i \in 1..Len(events) :
            /\ events'[i].alert \in 1..Len(alerts)'
            /\ Counted(events[i].alert)' => Covered(events[i].alert, events[i].count)'
            /\ Passed(i)'
  BY <1>1, <1>2, <1>3, EventsLater
<1> QED
  BY <1>1, <1>2, <1>4

\* An alert gets a new event.
LEMMA PointStep ==
    ASSUME IngestOK, StoreOK, now' = now, recorded' = recorded,
           NEW a \in Rows, NEW e \in EventRecs, e.alert = a, PointTo(a, e),
           Counted(a) => Covered(a, e.count),
           LET prev == events[alerts[a].event]
           IN  e.name = "recurring" /\ Counted(a) /\ prev.status = "open" =>
                    e.count >= nextSpanCountThreshold(prev.count)
    PROVE  Grows /\ StoreOK' /\ Len(events)' = Len(events) + 1
<1> DEFINE n == Len(events)
           row == alerts[a]
           new == [row EXCEPT !.event = n + 1]
<1>1. /\ events' = Append(events, e) /\ alerts' = [alerts EXCEPT ![a] = new]
      /\ n \in Nat /\ Len(alerts) \in Nat /\ a \in 1..Len(alerts) /\ row \in AlertRecs
      /\ alerts \in Seq(AlertRecs \cup {None})
  BY Tables DEF PointTo, StoreOK
<1>2. /\ new \in AlertRecs /\ new.project = row.project /\ new.group = row.group
      /\ new.createdAt = row.createdAt /\ new.event = n + 1
  <2> HIDE DEF row, n
  <2> QED
    BY <1>1, SMTT(30) DEF AlertRecs
<1> HIDE DEF new
<1>3. /\ alerts' \in Seq(AlertRecs \cup {None}) /\ Len(alerts)' = Len(alerts)
      /\ alerts'[a] = new /\ \A b \in 1..Len(alerts) : b # a => alerts'[b] = alerts[b]
  BY <1>1, <1>2, ExceptSeq
<1>4. \A b \in 1..Len(alerts) :
        b \in Rows' => /\ b \in Rows /\ alerts'[b].project = alerts[b].project
                       /\ alerts'[b].group = alerts[b].group
                       /\ alerts'[b].createdAt = alerts[b].createdAt
  BY <1>2, <1>3 DEF Rows
<1>5. /\ Grows /\ events' \in Seq(EventRecs) /\ Len(events)' = n + 1 /\ events'[n + 1] = e
      /\ \A i \in 1..n : /\ events'[i] = events[i]
                         /\ events'[i].alert \in 1..Len(alerts)'
                         /\ Counted(events[i].alert)' => Covered(events[i].alert, events[i].count)'
                         /\ Passed(i)'
  BY <1>1, <1>3, <1>4, Appended
<1>6. LET l == row.event
      IN  /\ l \in 1..n /\ events[l].alert = a
          /\ \A i \in 1..n : events[i].alert = a => i <= l
  BY DEF StoreOK
<1>7. Counted(a)' => Counted(a) /\ Covered(a, e.count)'
  <2>1. e.count \in Nat
    BY RowFields
  <2> QED
    BY <1>1, <1>5, <2>1 DEF Grows
<1>8. ASSUME NEW k, k = n + 1 PROVE Passed(k)'
  <2> DEFINE b == row.event
  <2>1. k - 1 = n /\ events'[k] = e /\ b \in 1..n /\ events'[b] = events[b] /\ events[b].alert = a
    BY <1>1, <1>5, <1>6, <1>8
  <2>2. \A i \in 1..n : events'[i] = events[i] /\ (events[i].alert = a => i <= b)
    BY <1>5, <1>6
  <2> HIDE DEF n, row
  <2>3. PICK c : c = b
    OBVIOUS
  <2>4. IsPrev(c, k)'
    BY <2>1, <2>2, <2>3 DEF IsPrev
  <2>5. e.name = "recurring" /\ Counted(a)' /\ events[c].status = "open" =>
            e.count >= nextSpanCountThreshold(events[c].count)
    BY <1>7, <2>3 DEF row
  <2> QED
    BY <2>1, <2>3, <2>4, <2>5 DEF Passed, Counted, Rows, Single, Errors
<1>9. \A b \in Rows' :
        LET l == alerts'[b].event
        IN  /\ l \in 1..Len(events)' /\ events'[l].alert = b
            /\ \A i \in 1..Len(events)' : events'[i].alert = b => i <= l
  <2> SUFFICES ASSUME NEW b \in Rows'
               PROVE  LET l == alerts'[b].event
                      IN  /\ l \in 1..Len(events)' /\ events'[l].alert = b
                          /\ \A i \in 1..Len(events)' : events'[i].alert = b => i <= l
    OBVIOUS
  <2>1. CASE b = a
    BY <1>1, <1>2, <1>3, <1>5, <2>1
  <2>2. CASE b # a
    <3>1. b \in Rows /\ b \in 1..Len(alerts) /\ alerts'[b] = alerts[b]
      BY <1>3, <1>4, <2>2 DEF Rows
    <3>2. LET l == alerts[b].event
          IN  /\ l \in 1..n /\ events[l].alert = b
              /\ \A i \in 1..n : events[i].alert = b => i <= l
      BY <3>1 DEF StoreOK
    <3> QED
      BY <1>1, <1>5, <2>2, <3>1, <3>2
  <2> QED
    BY <2>1, <2>2
<1>10. ASSUME NEW i \in 1..Len(events)'
       PROVE  /\ events'[i].alert \in 1..Len(alerts)'
              /\ Counted(events[i].alert)' => Covered(events[i].alert, events[i].count)'
              /\ Passed(i)'
  <2>1. CASE i \in 1..n
    BY <1>5, <2>1
  <2>2. CASE i \notin 1..n
    <3>1. i = n + 1 /\ events'[i] = e
      BY <1>1, <1>5, <2>2
    <3>2. Counted(events[i].alert)' => Covered(events[i].alert, events[i].count)'
      BY <1>7, <3>1 DEF Counted, Covered, Found, Rows, Single, Errors
    <3> QED
      BY <1>1, <1>3, <1>8, <3>1, <3>2
  <2> QED
    BY <2>1, <2>2
<1> QED
  BY <1>3, <1>5, <1>9, <1>10 DEF StoreOK

\* A step that writes the tables and leaves the errors alone.
LEMMA WriteStep ==
    ASSUME RepeatInv, Grows, StoreOK', now' = now, recorded' = recorded, bursts' = bursts, jobs' = jobs,
           work' = work \/ \E c \in Consumers : work' = [work EXCEPT ![c] = None],
           request' \in {request, None}
    PROVE  RepeatInv'
<1>1. IngestOK'
  BY DEF RepeatInv, IngestOK
<1>2. \A j : JobOK(j) => JobOK(j)'
  BY JobsLater
<1>3. \A j \in jobs' : JobOK(j)'
  BY <1>2 DEF RepeatInv, WorkOK
<1>4. /\ work' \in [Consumers -> CreateRecs \cup CountRecs \cup {None}]
      /\ \A c \in Consumers : work'[c] \in {work[c], None}
  BY DEF RepeatInv, WorkOK
<1>5. WorkOK'
  BY <1>2, <1>3, <1>4, WorkLater
<1>6. RequestOK'
  BY RequestLater DEF StoreOK
<1> QED
  BY <1>1, <1>5, <1>6 DEF RepeatInv

\* A consumer creates an alert, unless another one has.
LEMMA CreateStep ==
    ASSUME RepeatInv, NEW c \in Consumers, CreateAlert(c)
    PROVE  /\ RepeatInv'
           /\ \E n : /\ announce' = announce \cup {n} /\ scheduled' = scheduled
                     /\ \/ n.event = 0 /\ Len(events)' = Len(events)
                        \/ n.event = Len(events) + 1 /\ Len(events)' = Len(events) + 1
<1> DEFINE job == work[c].job
           exists == \E a \in Rows : alerts[a].project = job.project /\ alerts[a].group = job.group
           row == [project |-> job.project, group |-> job.group, createdAt |-> now,
                   event |-> Len(events) + 1]
           e == [alert |-> Len(alerts) + 1, name |-> "created", status |-> "open", count |-> 1,
                 createdAt |-> job.time]
           k == Len(events) + 1
           m == Len(alerts) + 1
<1>1. /\ now' = now /\ recorded' = recorded /\ bursts' = bursts /\ request' = request /\ jobs' = jobs
      /\ scheduled' = scheduled /\ WorkOK /\ StoreOK /\ IngestOK
      /\ work[c] # None /\ work' = [work EXCEPT ![c] = None]
      /\ announce' = announce \cup {Announcement(IF exists THEN 0 ELSE k, job.project, job.project, 1)}
      /\ IF exists THEN UNCHANGED store ELSE alerts' = Append(alerts, row) /\ events' = Append(events, e)
  BY DEF CreateAlert, ingest, user, RepeatInv
<1>2. \A i, p, q, r : Announcement(i, p, q, r).event = i
  BY DEF Announcement
<1>3. CASE exists
  <2>1. Grows /\ StoreOK'
    BY <1>1, <1>3, NothingGrows
  <2>2. RepeatInv'
    BY <1>1, <2>1, WriteStep
  <2>3. Len(events)' = Len(events)
    BY <1>1, <1>3 DEF store
  <2> QED
    BY <1>1, <1>2, <1>3, <2>2, <2>3
<1>4. CASE ~exists
  <2>1. job \in JobRecs /\ Len(alerts) \in Nat /\ Len(events) \in Nat /\ now \in 0..MaxTime
    BY <1>1, WorkAt, Tables DEF IngestOK
  <2>2. /\ row \in AlertRecs /\ e \in EventRecs /\ e.alert = m /\ e.count = 1 /\ e.name = "created"
        /\ row.event = k
    <3>1. job.project \in Projects /\ job.group \in Groups /\ job.time \in Nat
      BY <2>1, RowFields
    <3> HIDE DEF job
    <3> QED
      BY <2>1, <3>1 DEF AlertRecs, EventRecs, Statuses
  <2> HIDE DEF row, e, exists, job
  <2>3. /\ alerts' \in Seq(AlertRecs \cup {None}) /\ Len(alerts)' = m /\ alerts'[m] = row
        /\ \A a \in 1..Len(alerts) : alerts'[a] = alerts[a]
    <3>1. alerts \in Seq(AlertRecs \cup {None}) /\ row \in AlertRecs \cup {None}
      BY <1>1, <2>2 DEF StoreOK
    <3> QED
      BY <1>1, <1>4, <3>1, AppendProperties
  <2>4. \A a \in 1..Len(alerts) :
            a \in Rows' => /\ a \in Rows /\ alerts'[a].project = alerts[a].project
                           /\ alerts'[a].group = alerts[a].group
                           /\ alerts'[a].createdAt = alerts[a].createdAt
    BY <2>3 DEF Rows
  <2>5. /\ Grows /\ events' \in Seq(EventRecs) /\ Len(events)' = k /\ events'[k] = e
        /\ \A i \in 1..Len(events) :
            /\ events'[i] = events[i]
            /\ events'[i].alert \in 1..Len(alerts)'
            /\ Counted(events[i].alert)' => Covered(events[i].alert, events[i].count)'
            /\ Passed(i)'
    BY <1>1, <1>4, <2>1, <2>2, <2>3, <2>4, Appended
  <2>6. \A i \in 1..Len(events) : events[i].alert \in 1..Len(alerts)
    BY <1>1 DEF StoreOK
  <2>7. ASSUME NEW a \in Rows'
        PROVE  LET l == alerts'[a].event
               IN  /\ l \in 1..k /\ events'[l].alert = a
                   /\ \A i \in 1..k : events'[i].alert = a => i <= l
    <3>1. CASE a = m
      BY <2>1, <2>2, <2>3, <2>5, <2>6, <3>1
    <3>2. CASE a # m
      <4>1. a \in 1..Len(alerts) /\ a \in Rows /\ alerts'[a] = alerts[a]
        BY <2>1, <2>3, <3>2 DEF Rows
      <4>2. LET l == alerts[a].event
            IN  /\ l \in 1..Len(events) /\ events[l].alert = a
                /\ \A i \in 1..Len(events) : events[i].alert = a => i <= l
        BY <1>1, <4>1 DEF StoreOK
      <4>3. \A i \in 1..k : (i \in 1..Len(events) /\ events'[i] = events[i]) \/ events'[i].alert = m
        BY <2>1, <2>2, <2>5
      <4>4. alerts[a].event \in 1..Len(events) /\ alerts[a].event \in 1..k
        BY <2>1, <4>2
      <4> QED
        BY <2>5, <3>2, <4>1, <4>2, <4>3, <4>4
    <3> QED
      BY <3>1, <3>2
  <2>8. ASSUME NEW i \in 1..Len(events)'
        PROVE  /\ events'[i].alert \in 1..Len(alerts)'
               /\ Counted(events[i].alert)' => Covered(events[i].alert, events[i].count)'
               /\ Passed(i)'
    <3>1. CASE i \in 1..Len(events)
      BY <2>5, <3>1
    <3>2. CASE i \notin 1..Len(events)
      <4>1. i = k /\ events'[i] = e
        BY <2>1, <2>5, <3>2
      <4> QED
        BY <2>1, <2>2, <2>3, <4>1 DEF Covered, Passed
    <3> QED
      BY <3>1, <3>2
  <2>9. StoreOK'
    BY <2>3, <2>5, <2>7, <2>8 DEF StoreOK
  <2>10. RepeatInv'
    BY <1>1, <2>5, <2>9, WriteStep
  <2>11. PICK n : n = Announcement(k, job.project, job.project, 1)
    OBVIOUS
  <2>12. n.event = k /\ announce' = announce \cup {n}
    BY <1>1, <1>2, <1>4, <2>11
  <2> QED
    BY <1>1, <2>5, <2>10, <2>12
<1> QED
  BY <1>3, <1>4

\* A consumer updates the event that it read.
LEMMA UpdateStep ==
    ASSUME RepeatInv, NEW c \in Consumers, UpdateEvent(c)
    PROVE  RepeatInv' /\ Len(events)' = Len(events)
<1> DEFINE w == work[c]
<1>1. /\ now' = now /\ recorded' = recorded /\ bursts' = bursts /\ request' = request /\ jobs' = jobs
      /\ alerts' = alerts /\ WorkOK /\ StoreOK /\ IngestOK
      /\ w # None /\ w.op = "update" /\ work' = [work EXCEPT ![c] = None]
      /\ events' = IF w.alert \in Rows
                   THEN [events EXCEPT ![w.base].count = w.count, ![w.base].createdAt = w.job.time]
                   ELSE events
  BY DEF UpdateEvent, ingest, user, RepeatInv
<1>2. w \in CountRecs /\ CountOK(w) /\ w.job \in JobRecs
  BY <1>1, WorkAt
<1>3. w.count \in Nat /\ w.job.time \in Nat /\ w.base \in 1..Len(events) /\ events[w.base].alert = w.alert
  BY <1>2, RowFields DEF CountRecs, CountOK
<1>4. CASE w.alert \notin Rows
  <2>1. UNCHANGED store
    BY <1>1, <1>4 DEF store
  <2>2. Grows /\ StoreOK'
    BY <1>1, <2>1, NothingGrows
  <2> QED
    BY <1>1, <1>4, <2>2, WriteStep
<1>5. CASE w.alert \in Rows
  <2> DEFINE b == w.base
             count == w.count
             time == w.job.time
             old == events[b]
             new == [old EXCEPT !.count = count, !.createdAt = time]
  <2>1. Len(alerts) \in Nat /\ Len(events) \in Nat /\ old \in EventRecs /\ events \in Seq(EventRecs)
    BY <1>1, <1>3, Tables DEF StoreOK
  <2>2. /\ new \in EventRecs /\ new.alert = old.alert /\ new.status = old.status /\ new.name = old.name
        /\ new.count = count
    <3> HIDE DEF old, count, time
    <3>1. count \in Nat /\ time \in Nat
      BY <1>3 DEF count, time
    <3> QED
      BY <2>1, <3>1 DEF EventRecs
  <2>3. events' = [events EXCEPT ![b] = new]
    BY <1>1, <1>5
  <2> HIDE DEF new
  <2>4. /\ events' \in Seq(EventRecs) /\ Len(events)' = Len(events) /\ events'[b] = new
        /\ \A i \in 1..Len(events) : i # b => events'[i] = events[i]
    BY <1>3, <2>1, <2>2, <2>3, ExceptSeq
  <2>5. \A i \in 1..Len(events) :
            /\ events'[i].alert = events[i].alert /\ events'[i].status = events[i].status
            /\ events'[i].name = events[i].name
            /\ events'[i].count = IF i = b THEN count ELSE events[i].count
    BY <2>2, <2>4
  <2>6. \A a : (Counted(a)' <=> Counted(a)) /\ \A n : Covered(a, n)' <=> Covered(a, n)
    BY <1>1 DEF Counted, Covered, Found, Single, Errors, Rows
  <2>7. Counted(w.alert) => Covered(w.alert, count) /\ Ahead(count) = Ahead(old.count)
    BY <1>1, <1>2 DEF CountOK
  <2>8. \A i \in 1..Len(events) :
            /\ Counted(events[i].alert)' => Ahead(events'[i].count) = Ahead(events[i].count)
            /\ Counted(events[i].alert)' => Covered(events[i].alert, events[i].count)'
    <3> SUFFICES ASSUME NEW i \in 1..Len(events), NEW a, a = events[i].alert, Counted(a)',
                        NEW n, n = events'[i].count
                 PROVE  Ahead(n) = Ahead(events[i].count) /\ Covered(a, n)'
      BY <2>5, SMTT(30) DEF Counted, Covered, Found, Single, Errors, Rows
    <3>1. Counted(a)
      BY <2>6
    <3>2. CASE i = b
      BY <1>3, <2>5, <2>6, <2>7, <3>1, <3>2
    <3>3. CASE i # b
      <4>1. n = events[i].count /\ Covered(a, n)
        BY <1>1, <2>5, <3>1, <3>3 DEF StoreOK
      <4> QED
        BY <2>6, <4>1
    <3> QED
      BY <3>2, <3>3
  <2>9. Grows
    <3>1. Len(alerts) <= Len(alerts)' /\ Len(events) <= Len(events)'
      BY <1>1, <2>1, <2>4
    <3> QED
      BY <1>1, <2>5, <2>8, <3>1, StoreGrows DEF Rows
  <2>10. alerts' \in Seq(AlertRecs \cup {None})
    BY <1>1 DEF StoreOK
  <2>11. \A i \in 1..Len(events) :
            /\ events'[i].alert \in 1..Len(alerts)'
            /\ Counted(events[i].alert)' => Covered(events[i].alert, events[i].count)'
            /\ Passed(i)'
    BY <1>1, <2>4, <2>8, <2>9, <2>10, EventsLater
  <2>12. \A a \in Rows' :
            LET l == alerts'[a].event
            IN  /\ l \in 1..Len(events)' /\ events'[l].alert = a
                /\ \A i \in 1..Len(events)' : events'[i].alert = a => i <= l
    <3> SUFFICES ASSUME NEW a \in Rows'
                 PROVE  LET l == alerts'[a].event
                        IN  /\ l \in 1..Len(events)' /\ events'[l].alert = a
                            /\ \A i \in 1..Len(events)' : events'[i].alert = a => i <= l
      OBVIOUS
    <3>1. a \in Rows /\ alerts' = alerts
      BY <1>1 DEF Rows
    <3>2. LET l == alerts[a].event
          IN  /\ l \in 1..Len(events) /\ events[l].alert = a
              /\ \A i \in 1..Len(events) : events[i].alert = a => i <= l
      BY <1>1, <3>1 DEF StoreOK
    <3>3. \A i \in 1..Len(events) : events'[i].alert = events[i].alert
      BY <2>5
    <3> QED
      BY <2>4, <3>1, <3>2, <3>3
  <2>13. StoreOK'
    BY <2>4, <2>10, <2>11, <2>12 DEF StoreOK
  <2> QED
    BY <1>1, <2>4, <2>9, <2>13, WriteStep
<1> QED
  BY <1>4, <1>5

\* A consumer repeats an alert.
LEMMA RepeatStep ==
    ASSUME RepeatInv, NEW c \in Consumers, RepeatAlert(c)
    PROVE  /\ RepeatInv'
           /\ \E n : /\ announce' = announce \cup {n} /\ scheduled' = scheduled
                     /\ n.event = Len(events) + 1 /\ Len(events)' = Len(events) + 1
<1> DEFINE w == work[c]
           a == w.alert
           e == [alert |-> w.alert, name |-> "recurring", status |-> "open",
                 count |-> w.count, createdAt |-> w.job.time]
           n == Announcement(Len(events) + 1, w.project, w.job.project, w.count)
<1>1. /\ now' = now /\ recorded' = recorded /\ bursts' = bursts /\ request' = request /\ jobs' = jobs
      /\ scheduled' = scheduled /\ WorkOK /\ StoreOK /\ IngestOK
      /\ w # None /\ w.op = "repeat" /\ work' = [work EXCEPT ![c] = None]
      /\ a \in Rows /\ alerts[a].event = w.base /\ PointTo(a, e)
      /\ announce' = announce \cup {n}
  BY DEF RepeatAlert, ingest, user, RepeatInv, Unchanged
<1>2. w \in CountRecs /\ CountOK(w) /\ w.job \in JobRecs
  BY <1>1, WorkAt
<1>3. w.count \in Nat /\ w.job.time \in Nat /\ a \in Nat
  BY <1>2, RowFields DEF CountRecs
<1>4. e \in EventRecs /\ e.alert = a /\ e.count = w.count
  <2> HIDE DEF w
  <2> QED
    BY <1>3 DEF EventRecs, Statuses
<1> HIDE DEF e
<1>5. Counted(a) => Covered(a, e.count)
  BY <1>2, <1>4 DEF CountOK
<1>6. LET prev == events[alerts[a].event]
      IN  e.name = "recurring" /\ Counted(a) /\ prev.status = "open" =>
                e.count >= nextSpanCountThreshold(prev.count)
  BY <1>1, <1>2, <1>4 DEF CountOK
<1>7. Grows /\ StoreOK' /\ Len(events)' = Len(events) + 1
  <2> HIDE DEF a
  <2> QED
    BY <1>1, <1>4, <1>5, <1>6, PointStep
<1>8. RepeatInv'
  BY <1>1, <1>7, WriteStep
<1>9. n.event = Len(events) + 1
  BY DEF Announcement
<1> QED
  BY <1>1, <1>7, <1>8, <1>9

\* A job fails.
LEMMA FailStep == ASSUME RepeatInv, NEW c \in Consumers, WriteFails(c) PROVE RepeatInv'
<1>1. /\ now' = now /\ recorded' = recorded /\ bursts' = bursts /\ UNCHANGED store
      /\ work' = [work EXCEPT ![c] = None] /\ request' = request /\ work[c] # None
      /\ \A j \in jobs' : j \in jobs \/ j = work[c].job
  BY DEF WriteFails, Retried, ingest, user
<1>2. JobOK(work[c].job)
  BY <1>1, WorkAt
<1>3. WorkOK'
  <2>1. /\ work' \in [Consumers -> CreateRecs \cup CountRecs \cup {None}]
        /\ \A d \in Consumers : work'[d] \in {work[d], None}
    BY <1>1 DEF RepeatInv, WorkOK
  <2> QED
    BY <1>1, <1>2, <2>1, AsideWork
<1> QED
  BY <1>1, <1>3, Aside

\* The process is started again.
LEMMA RestartStep == ASSUME RepeatInv, Restart PROVE RepeatInv'
<1>1. /\ now' = now /\ recorded' = recorded /\ bursts' = bursts /\ UNCHANGED store
      /\ work' = [c \in Consumers |-> None] /\ request' = None
      /\ jobs' = jobs \cup {work[c].job : c \in {d \in Consumers : work[d] # None}}
  BY DEF Restart
<1>2. \A j \in jobs' : j \in jobs \/ JobOK(j)
  BY <1>1, WorkAt
<1>3. WorkOK'
  BY <1>1, <1>2, AsideWork
<1> QED
  BY <1>1, <1>3, Aside

-----------------------------------------------------------------------------
(* Users.                                                                  *)

\* A user's request reads an alert.
LEMMA RequestStep == ASSUME RepeatInv, UserSelectAlert PROVE RepeatInv'
<1>1. /\ now' = now /\ recorded' = recorded /\ bursts' = bursts /\ UNCHANGED store
      /\ alerts' = alerts /\ work' = work /\ jobs' = jobs /\ StoreOK /\ WorkOK /\ IngestOK
  BY DEF UserSelectAlert, ingest, store, RepeatInv
<1>2. PICK a \in Rows : request' = [alert |-> a, base |-> alerts[a].event, event |-> EventOf(a)]
  BY DEF UserSelectAlert
<1> DEFINE l == alerts[a].event
<1>3. a \in 1..Len(alerts) /\ a \in Nat
  BY <1>1, Tables
<1>4. l \in 1..Len(events) /\ l \in Nat /\ events[l].alert = a /\ events[l] \in EventRecs
  BY <1>1, Tables DEF StoreOK
<1>5. Counted(a) => Covered(a, events[l].count)
  BY <1>1, <1>4 DEF StoreOK
<1>6. WorkOK'
  BY <1>1, AsideWork DEF WorkOK
<1>7. StoreOK' /\ IngestOK'
  BY <1>1, NothingGrows DEF IngestOK
<1>8. \A b, n : (Counted(b)' <=> Counted(b)) /\ (Covered(b, n)' <=> Covered(b, n))
  BY <1>1 DEF Counted, Covered, Found, Single, Errors, Rows
<1> DEFINE e == events[l]
<1>9. request' = [alert |-> a, base |-> l, event |-> e] /\ e \in EventRecs /\ e.alert = a
  BY <1>2, <1>4 DEF EventOf
<1>10. Counted(a)' => Covered(a, e.count)'
  <2> HIDE DEF e
  <2>1. PICK n : n = e.count
    OBVIOUS
  <2>2. Counted(a)' => Covered(a, n)'
    BY <1>5, <1>8, <2>1 DEF e
  <2>3. e' = e
    BY <1>1, <1>2 DEF e, store
  <2> QED
    BY <2>1, <2>2, <2>3 DEF Covered
<1>11. RequestOK'
  <2> HIDE DEF l, e
  <2>1. /\ request'.alert = a /\ request'.event = e /\ request' \in Requests
    BY <1>3, <1>4, <1>9 DEF Requests
  <2>2. e' = e
    BY <1>1, <1>2 DEF e, l, store
  <2> QED
    BY <1>1, <1>3, <1>9, <1>10, <2>1, <2>2 DEF RequestOK, Counted, Covered, Single, Found, Rows, Errors
<1> QED
  BY <1>6, <1>7, <1>11 DEF RepeatInv

\* A user changes the status of an alert.
LEMMA StatusStep ==
    ASSUME RepeatInv, UserChangeStatus
    PROVE  /\ RepeatInv'
           /\ \E n : /\ announce' = announce \cup {n} /\ scheduled' = scheduled
                     /\ n.event = Len(events) + 1 /\ Len(events)' = Len(events) + 1
<1> DEFINE a == request.alert
           old == request.event
           status == IF old.status = "open" THEN "closed" ELSE "open"
           p == alerts[a].project
           e == [old EXCEPT !.name = "status-changed", !.status = status]
           n == Announcement(Len(events) + 1, p, p, old.count)
<1>1. /\ now' = now /\ recorded' = recorded /\ bursts' = bursts /\ jobs' = jobs /\ work' = work
      /\ scheduled' = scheduled /\ RequestOK /\ StoreOK /\ IngestOK
      /\ request # None /\ request' = None /\ a \in Rows /\ PointTo(a, e)
      /\ announce' = announce \cup {n}
  BY DEF UserChangeStatus, ingest, RepeatInv, Unchanged
<1>2. old \in EventRecs /\ old.alert = a /\ (Counted(a) => Covered(a, old.count))
  BY <1>1 DEF RequestOK, Requests
<1>3. e \in EventRecs /\ e.alert = a /\ e.count = old.count /\ e.name = "status-changed"
  <2>1. status \in Statuses
    BY DEF Statuses
  <2> HIDE DEF old, status
  <2> QED
    BY <1>2, <2>1 DEF EventRecs
<1> HIDE DEF e
<1>4. Grows /\ StoreOK' /\ Len(events)' = Len(events) + 1
  <2> HIDE DEF a
  <2> QED
    BY <1>1, <1>2, <1>3, PointStep
<1>5. RepeatInv'
  BY <1>1, <1>4, WriteStep
<1>6. n.event = Len(events) + 1
  BY DEF Announcement
<1> QED
  BY <1>1, <1>4, <1>5, <1>6

\* A user deletes an alert.
LEMMA DeleteStep == ASSUME RepeatInv, UserDeleteAlert PROVE RepeatInv' /\ events' = events
<1>1. /\ now' = now /\ recorded' = recorded /\ bursts' = bursts /\ jobs' = jobs /\ work' = work
      /\ request' = request /\ events' = events /\ StoreOK /\ IngestOK
  BY DEF UserDeleteAlert, ingest, RepeatInv
<1>2. PICK a \in Rows : alerts' = [alerts EXCEPT ![a] = None]
  BY DEF UserDeleteAlert
<1>3. a \in 1..Len(alerts) /\ Len(alerts) \in Nat /\ Len(events) \in Nat
  BY <1>1, Tables
<1>4. /\ alerts' \in Seq(AlertRecs \cup {None}) /\ Len(alerts)' = Len(alerts) /\ alerts'[a] = None
      /\ \A b \in 1..Len(alerts) : b # a => alerts'[b] = alerts[b]
  <2>1. alerts \in Seq(AlertRecs \cup {None}) /\ None \in AlertRecs \cup {None}
    BY <1>1 DEF StoreOK
  <2> QED
    BY <1>2, <1>3, <2>1, ExceptSeq
<1>5. \A b \in Rows' : b \in 1..Len(alerts) /\ b \in Rows /\ alerts'[b] = alerts[b]
  BY <1>4 DEF Rows
<1>6. Grows
  BY <1>1, <1>3, <1>4, <1>5, StoreGrows
<1>7. StoreOK'
  BY <1>1, <1>4, <1>5, <1>6, NoEvent
<1> QED
  BY <1>1, <1>6, <1>7, WriteStep

\* A step about other things.
LEMMA OtherStep ==
    ASSUME RepeatInv, now' = now, recorded' = recorded, bursts' = bursts, UNCHANGED store,
           work' = work, jobs' = jobs, request' \in {request, None}
    PROVE  RepeatInv'
<1>1. WorkOK'
  BY AsideWork DEF RepeatInv, WorkOK
<1> QED
  BY <1>1, Aside

-----------------------------------------------------------------------------
(* Notifications.                                                          *)

\* An announcement is scheduled, and waits no longer.
LEMMA ScheduleStep == ASSUME StoreOK, AnnounceOK, ScheduleNotify PROVE AnnounceOK'
<1>1. PICK n \in announce : \E C \in SUBSET Recipients(n) :
        /\ announce' = announce \ {n}
        /\ scheduled' = [x \in DOMAIN scheduled |->
                            scheduled[x] + IF x[1] = n.event /\ x[2] \in C THEN 1 ELSE 0]
  BY DEF ScheduleNotify
<1>0. PICK C \in SUBSET Recipients(n) :
        scheduled' = [x \in DOMAIN scheduled |->
                            scheduled[x] + IF x[1] = n.event /\ x[2] \in C THEN 1 ELSE 0]
  BY <1>1
<1>2. events' = events /\ Len(events) \in Nat
  BY Tables DEF ScheduleNotify, store
<1>3. DOMAIN scheduled' = DOMAIN scheduled /\ DOMAIN scheduled = (0..MaxEvents) \X Channels
  BY <1>0 DEF AnnounceOK
<1>4. \A x \in DOMAIN scheduled : scheduled[x] \in Nat /\ x[1] \in Nat
  BY DEF AnnounceOK
<1>5. \A x \in DOMAIN scheduled :
        scheduled'[x] \in Nat /\ (x[1] # n.event => scheduled'[x] = scheduled[x])
            /\ scheduled'[x] <= scheduled[x] + 1
  <2> SUFFICES ASSUME NEW x \in DOMAIN scheduled
               PROVE  scheduled'[x] \in Nat /\ (x[1] # n.event => scheduled'[x] = scheduled[x])
                        /\ scheduled'[x] <= scheduled[x] + 1
    OBVIOUS
  <2>1. scheduled'[x] = scheduled[x] + (IF x[1] = n.event /\ x[2] \in C THEN 1 ELSE 0)
    BY <1>0
  <2> QED
    BY <1>4, <2>1
<1>6. scheduled' \in [(0..MaxEvents) \X Channels -> Nat]
  BY <1>0, <1>3, <1>5
<1>7. \A m \in announce' : m \in announce /\ m # n
  BY <1>1
<1>8. \A m \in announce', x \in DOMAIN scheduled' : m.event # 0 /\ x[1] = m.event => scheduled'[x] = 0
  BY <1>3, <1>5, <1>7 DEF AnnounceOK
<1>9. \A x \in DOMAIN scheduled' :
        x[1] # 0 => scheduled'[x] <= 1 /\ (x[1] > Len(events)' => scheduled'[x] = 0)
  <2> SUFFICES ASSUME NEW x \in DOMAIN scheduled, x[1] # 0
               PROVE  scheduled'[x] <= 1 /\ (x[1] > Len(events) => scheduled'[x] = 0)
    BY <1>2, <1>3
  <2>1. CASE x[1] = n.event
    <3>1. scheduled[x] = 0 /\ n.event \in 0..Len(events)
      BY <2>1 DEF AnnounceOK
    <3> QED
      BY <1>2, <1>4, <1>5, <2>1, <3>1
  <2>2. CASE x[1] # n.event
    BY <1>4, <1>5, <2>2 DEF AnnounceOK
  <2> QED
    BY <2>1, <2>2
<1> QED
  BY <1>2, <1>6, <1>7, <1>8, <1>9 DEF AnnounceOK

-----------------------------------------------------------------------------
(* The invariant.                                                          *)

\* Nothing has been recorded or announced at the start.
LEMMA ErrorsInitially == Init => ErrorInv
<1> SUFFICES ASSUME Init PROVE ErrorInv
  OBVIOUS
<1>1. /\ now = 0 /\ bursts = 0 /\ jobs = {} /\ work = [c \in Consumers |-> None] /\ request = None
      /\ announce = {} /\ scheduled = [x \in (0..MaxEvents) \X Channels |-> 0]
      /\ alerts = << >> /\ events = << >>
      /\ recorded = [x \in Projects \X Groups |-> [t \in Minutes |-> 0]]
  BY DEF Init
<1>2. IngestOK
  <2>1. MaxTime \in Nat /\ 0 < MaxErrors /\ MaxTime + 1 \in Minutes
    BY BoundsAssumption DEF MaxErrors, Minutes
  <2>2. \A x \in Projects \X Groups : \A t \in Minutes : recorded[x][t] = 0
    BY <1>1
  <2> QED
    BY <1>1, <2>1, <2>2 DEF IngestOK
<1>3. StoreOK
  <2>1. Len(alerts) = 0 /\ Len(events) = 0
    BY <1>1
  <2>2. alerts \in Seq(AlertRecs \cup {None}) /\ events \in Seq(EventRecs)
    BY <1>1, EmptySeq
  <2> QED
    BY <2>1, <2>2 DEF StoreOK, Rows
<1>4. WorkOK /\ RequestOK
  BY <1>1 DEF WorkOK, RequestOK
<1>5. AnnounceOK
  BY <1>1 DEF AnnounceOK
<1> QED
  BY <1>2, <1>3, <1>4, <1>5 DEF ErrorInv, RepeatInv

\* Every step keeps the invariant.
LEMMA ErrorsNext == ErrorInv /\ [Next]_vars => ErrorInv'
<1> SUFFICES ASSUME ErrorInv, [Next]_vars PROVE ErrorInv'
  OBVIOUS
<1> USE DEF ErrorInv
<1>1. RepeatInv /\ AnnounceOK /\ StoreOK /\ Len(events) \in Nat
  BY Tables DEF RepeatInv
<1>2. ASSUME RepeatInv', announce' \subseteq announce, scheduled' = scheduled,
             Len(events)' = Len(events) \/ events' = events
      PROVE  ErrorInv'
  <2>1. Len(events)' \in Nat /\ Len(events) <= Len(events)'
    BY <1>1, <1>2
  <2> QED
    BY <1>1, <1>2, <2>1, NotAnnounced
<1>3. ASSUME RepeatInv', NEW n, announce' = announce \cup {n}, scheduled' = scheduled,
             \/ n.event = 0 /\ Len(events)' = Len(events)
             \/ n.event = Len(events) + 1 /\ Len(events)' = Len(events) + 1
      PROVE  ErrorInv'
  <2>1. Len(events)' \in Nat /\ Len(events) <= Len(events)'
    BY <1>1, <1>3
  <2> QED
    BY <1>1, <1>3, <2>1, Announced
<1>4. CASE Tick
  BY <1>1, <1>2, <1>4, TickStep DEF Tick, store, notif
<1>5. CASE RecordErrors
  BY <1>1, <1>2, <1>5, RecordStep DEF RecordErrors, store, notif
<1>6. CASE UserSelectAlert
  BY <1>1, <1>2, <1>6, RequestStep DEF UserSelectAlert, store, notif
<1>7. CASE UserChangeStatus
  BY <1>1, <1>3, <1>7, StatusStep
<1>8. CASE UserChangeFails
  <2>1. RepeatInv'
    BY <1>1, <1>8, OtherStep DEF UserChangeFails, ingest
  <2> QED
    BY <1>2, <1>8, <2>1 DEF UserChangeFails, store, notif
<1>9. CASE UserDeleteAlert
  BY <1>1, <1>2, <1>9, DeleteStep DEF UserDeleteAlert, notif
<1>10. CASE UserChangeChannel
  <2>1. RepeatInv'
    BY <1>1, <1>10, OtherStep DEF UserChangeChannel, ingest
  <2> QED
    BY <1>2, <1>10, <2>1 DEF UserChangeChannel, store
<1>11. CASE ScheduleNotify
  <2>1. RepeatInv'
    BY <1>1, <1>11, OtherStep DEF ScheduleNotify, ingest, user
  <2> QED
    BY <1>1, <1>11, <2>1, ScheduleStep
<1>12. CASE Restart
  BY <1>1, <1>2, <1>12, RestartStep DEF Restart, store
<1>13. ASSUME NEW c \in Consumers, JobDropped(c) PROVE ErrorInv'
  BY <1>1, <1>2, <1>13, DropStep DEF JobDropped, store, notif
<1>14. ASSUME NEW c \in Consumers, SelectErrorAlert(c) PROVE ErrorInv'
  BY <1>1, <1>2, <1>14, SelectStep DEF SelectErrorAlert, store, notif
<1>15. ASSUME NEW c \in Consumers, CountAlertSpans(c) PROVE ErrorInv'
  BY <1>1, <1>2, <1>15, CountStep DEF CountAlertSpans, store, notif
<1>16. ASSUME NEW c \in Consumers, CreateAlert(c) PROVE ErrorInv'
  BY <1>1, <1>3, <1>16, CreateStep
<1>17. ASSUME NEW c \in Consumers, UpdateEvent(c) PROVE ErrorInv'
  BY <1>1, <1>2, <1>17, UpdateStep DEF UpdateEvent, notif
<1>18. ASSUME NEW c \in Consumers, RepeatAlert(c) PROVE ErrorInv'
  BY <1>1, <1>3, <1>18, RepeatStep
<1>19. ASSUME NEW c \in Consumers, WriteFails(c) PROVE ErrorInv'
  BY <1>1, <1>2, <1>19, FailStep DEF WriteFails, store, notif
<1>20. ASSUME NEW n \in notifs, NothingToNotify(n) \/ Notified(n) \/ SlackGone(n) \/ NotifyFails(n)
       PROVE  ErrorInv'
  <2>1. /\ now' = now /\ ingest' = ingest /\ store' = store /\ work' = work /\ jobs' = jobs
        /\ user' = user /\ announce' = announce /\ scheduled' = scheduled
    BY <1>20 DEF NothingToNotify, Notified, SlackGone, NotifyFails, ingest, store, user
  <2>2. RepeatInv'
    BY <1>1, <2>1, OtherStep DEF ingest, user
  <2> QED
    BY <1>2, <2>1, <2>2 DEF store
<1>21. CASE UNCHANGED vars
  <2>1. /\ now' = now /\ ingest' = ingest /\ store' = store /\ work' = work /\ jobs' = jobs
        /\ user' = user /\ announce' = announce /\ scheduled' = scheduled
    BY <1>21 DEF vars, ingest, store, user
  <2>2. RepeatInv'
    BY <1>1, <2>1, OtherStep DEF ingest, user
  <2> QED
    BY <1>2, <2>1, <2>2 DEF store
<1> QED
  BY <1>4, <1>5, <1>6, <1>7, <1>8, <1>9, <1>10, <1>11, <1>12, <1>13, <1>14, <1>15, <1>16, <1>17,
     <1>18, <1>19, <1>20, <1>21 DEF Next

\* The tables, the consumers, the requests and the announcements fit together.
LEMMA ErrorInvariant == Spec => []ErrorInv
BY ErrorsInitially, ErrorsNext, PTL DEF Spec

-----------------------------------------------------------------------------

\* A recurring event has passed the threshold after the event before it,
\* whatever jobs and users did between the read of an alert and the update
\* of it: countAlertSpans counts on from a count that passed the same
\* thresholds as the event that updateAlertEvent finds the alert pointing to.
THEOREM RepeatsHavePassed == Spec => []RepeatsPassThreshold
<1>1. ErrorInv => RepeatsPassThreshold
  <2> SUFFICES ASSUME ErrorInv, NEW e \in 1..Len(events), events[e].name = "recurring",
                      events[e].alert \in Rows, Single(events[e].alert),
                      NEW b, b = Max({i \in 1..(e - 1) : events[i].alert = events[e].alert}),
                      events[b].status = "open"
               PROVE  events[e].count >= nextSpanCountThreshold(events[b].count)
    BY DEF RepeatsPassThreshold, Single
  <2>1. Passed(e)
    BY DEF ErrorInv, RepeatInv, StoreOK
  <2>2. PICK d \in 1..(e - 1) :
            /\ IsPrev(d, e)
            /\ Counted(events[e].alert) /\ events[d].status = "open" =>
                    events[e].count >= nextSpanCountThreshold(events[d].count)
    BY <2>1 DEF Passed
  <2> DEFINE S == {i \in 1..(e - 1) : events[i].alert = events[e].alert}
  <2>3. d \in S /\ \A i \in S : d >= i
    BY <2>2 DEF IsPrev
  <2>4. b \in S /\ \A i \in S : b >= i
    BY <2>3 DEF Max
  <2>5. b = d
    <3>1. Len(events) \in Nat
      BY Tables DEF ErrorInv, RepeatInv
    <3>2. b \in Int /\ d \in Int /\ b >= d /\ d >= b
      BY <2>3, <2>4, <3>1
    <3> QED
      BY <3>2
  <2> QED
    BY <2>2, <2>5 DEF Counted
<1> QED
  BY <1>1, ErrorInvariant, PTL

\* An event is scheduled at most once for a channel: createAlertEvent
\* announces what its own transaction has inserted, and a conflict leaves it
\* without an event.
THEOREM EventsAnnouncedOnce == Spec => []AnnouncedOnce
<1>1. ErrorInv => AnnouncedOnce
  BY DEF ErrorInv, AnnounceOK, AnnouncedOnce
<1> QED
  BY <1>1, ErrorInvariant, PTL

-----------------------------------------------------------------------------
(* The tables implement the life of an alert.                              *)

\* Every alert has an event, and a request has the status that the event it
\* read has still: events are changed in place, but not their status.
SeenOK ==
    /\ Len(alerts) <= Len(events) /\ Len(events) <= MaxEvents
    /\ request # None =>
        /\ request.base \in 1..Len(events)
        /\ events[request.base].status = request.event.status

Said == [alert : Nat, name : {"created", "recurring", "status-changed"}, status : Statuses]
SaysOf(e) == [alert |-> e.alert, name |-> e.name, status |-> e.status]

\* What the events say, one by one.
LEMMA SeenEvents ==
    ASSUME NEW es \in Seq(EventRecs)
    PROVE  LET told == [i \in 1..Len(es) |-> [alert |-> es[i].alert, name |-> es[i].name,
                                             status |-> es[i].status]]
           IN  /\ told \in Seq(Said) /\ Len(told) = Len(es)
               /\ \A i \in 1..Len(es) : told[i] = SaysOf(es[i])
<1> DEFINE n == Len(es)
           told == [i \in 1..n |-> [alert |-> es[i].alert, name |-> es[i].name,
                                    status |-> es[i].status]]
<1>1. n \in Nat /\ \A i \in 1..n : es[i] \in EventRecs
  BY LenProperties, ElementOfSeq
<1> HIDE DEF n
<1>2. told \in [1..n -> Said] /\ \A i \in 1..n : told[i] = SaysOf(es[i])
  BY <1>1 DEF EventRecs, Said, SaysOf
<1> HIDE DEF told
<1>3. told \in Seq(Said)
  BY <1>1, <1>2, SeqDef
<1>4. 1..n = 1..Len(told) /\ Len(told) \in Nat
  BY <1>2, <1>3, LenProperties
<1>5. Len(told) = n
  BY <1>1, <1>4
<1> QED
  BY <1>2, <1>3, <1>5 DEF n, told

\* An event that is appended says one thing more.
LEMMA SeenAppended ==
    ASSUME events \in Seq(EventRecs), NEW e \in EventRecs, events' = Append(events, e)
    PROVE  EventsSeen' = Append(EventsSeen, SaysOf(e))
<1> DEFINE n == Len(events)
           s == EventsSeen
           t == EventsSeen'
<1>1. /\ s \in Seq(Said) /\ Len(s) = n /\ n \in Nat
      /\ \A i \in 1..n : s[i] = SaysOf(events[i])
  BY SeenEvents, LenProperties DEF EventsSeen
<1>2. /\ events' \in Seq(EventRecs) /\ Len(events') = n + 1 /\ events'[n + 1] = e
      /\ \A i \in 1..n : events'[i] = events[i]
  BY AppendProperties
<1>3. /\ t \in Seq(Said) /\ Len(t) = n + 1
      /\ \A i \in 1..(n + 1) : t[i] = SaysOf(events'[i])
  BY <1>2, SeenEvents DEF EventsSeen
<1>4. SaysOf(e) \in Said
  BY DEF SaysOf, Said, EventRecs
<1> HIDE DEF s, t, n
<1> DEFINE u == Append(s, SaysOf(e))
<1>5. /\ u \in Seq(Said) /\ Len(u) = n + 1 /\ u[n + 1] = SaysOf(e)
      /\ \A i \in 1..n : u[i] = s[i]
  BY <1>1, <1>4, AppendProperties
<1> HIDE DEF u
<1>6. \A i \in 1..(n + 1) : t[i] = u[i]
  <2> SUFFICES ASSUME NEW i \in 1..(n + 1) PROVE t[i] = u[i]
    OBVIOUS
  <2>1. i = n + 1 \/ i \in 1..n
    BY <1>1
  <2> QED
    BY <1>1, <1>2, <1>3, <1>5, <2>1
<1>7. t = u
  BY <1>3, <1>5, <1>6, SeqEqual
<1> QED
  BY <1>7 DEF s, t, u

\* The event that an alert comes to point to is what is seen of it, and the
\* other alerts are left alone.
LEMMA SaidOf ==
    ASSUME StoreOK, NEW a \in 1..MaxEvents, NEW e \in EventRecs, e.alert = a,
           events' = Append(events, e), Len(alerts)' \in Nat,
           a <= Len(alerts)', alerts'[a] # None, alerts'[a].event = Len(events) + 1,
           \A b \in 1..MaxEvents : b # a =>
               /\ b > Len(alerts)' <=> b > Len(alerts)
               /\ b <= Len(alerts) => alerts'[b] = alerts[b]
    PROVE  Life!Say(a, e.name, e.status)
<1> DEFINE n == Len(events)
<1>1. /\ n \in Nat /\ Len(alerts) \in Nat /\ events'[n + 1] = e /\ Len(events)' = n + 1
      /\ \A i \in 1..n : events'[i] = events[i]
  BY LenProperties, AppendProperties DEF StoreOK
<1>2. ASSUME NEW b \in 1..MaxEvents, b # a PROVE StatusSeen'[b] = StatusSeen[b]
  <2>1. b \in Nat
    BY BoundsAssumption
  <2>2. CASE b > Len(alerts)
    BY <1>2, <2>2 DEF StatusSeen
  <2>3. CASE b <= Len(alerts) /\ alerts[b] = None
    BY <1>1, <1>2, <2>1, <2>3 DEF StatusSeen
  <2>4. CASE b <= Len(alerts) /\ alerts[b] # None
    <3>1. b \in Rows
      BY <1>1, <2>1, <2>4 DEF Rows
    <3>2. alerts[b].event \in 1..n
      BY <3>1 DEF StoreOK
    <3>3. EventOf(b)' = EventOf(b)
      BY <1>1, <1>2, <2>4, <3>2 DEF EventOf
    <3> QED
      BY <1>1, <1>2, <2>1, <2>4, <3>3 DEF StatusSeen
  <2> QED
    BY <1>1, <2>1, <2>2, <2>3, <2>4
<1>3. StatusSeen'[a] = e.status
  <2>1. EventOf(a)' = e /\ a \in Nat
    BY <1>1, BoundsAssumption DEF EventOf
  <2> QED
    BY <2>1 DEF StatusSeen
<1>4. StatusSeen' = [StatusSeen EXCEPT ![a] = e.status]
  <2>1. /\ StatusSeen' = [b \in 1..MaxEvents |-> StatusSeen'[b]]
        /\ [StatusSeen EXCEPT ![a] = e.status]
             = [b \in 1..MaxEvents |-> IF b = a THEN e.status ELSE StatusSeen[b]]
    BY DEF StatusSeen
  <2>2. \A b \in 1..MaxEvents : StatusSeen'[b] = IF b = a THEN e.status ELSE StatusSeen[b]
    BY <1>2, <1>3
  <2> QED
    BY <2>1, <2>2
<1>5. EventsSeen' = Append(EventsSeen, [alert |-> a, name |-> e.name, status |-> e.status])
  BY SeenAppended DEF SaysOf, StoreOK
<1> QED
  BY <1>4, <1>5 DEF Life!Say

\* What is seen of an alert that is there.
LEMMA RowSeen ==
    ASSUME StoreOK, SeenOK, NEW a \in Rows
    PROVE  /\ a \in 1..MaxEvents /\ a <= Len(alerts) /\ alerts[a] # None
           /\ StatusSeen[a] = EventOf(a).status /\ StatusSeen[a] \in Statuses
           /\ a \in Life!Live
<1>1. /\ Len(alerts) \in Nat /\ Len(events) \in Nat /\ a \in 1..Len(alerts) /\ alerts[a] # None
      /\ alerts[a].event \in 1..Len(events)
  BY Tables DEF StoreOK
<1>2. a \in 1..MaxEvents
  BY <1>1, BoundsAssumption DEF SeenOK
<1>3. EventOf(a) \in EventRecs
  BY <1>1, Tables DEF EventOf
<1>4. StatusSeen[a] = EventOf(a).status
  BY <1>1, <1>2 DEF StatusSeen
<1>5. StatusSeen[a] \in Statuses
  BY <1>3, <1>4, RowFields
<1> QED
  BY <1>1, <1>2, <1>4, <1>5 DEF Life!Live, Statuses

\* An alert that is pointed to a new event.
LEMMA PointSeen ==
    ASSUME StoreOK, SeenOK, NEW a \in Rows, NEW e \in EventRecs, e.alert = a, PointTo(a, e),
           request' \in {request, None}
    PROVE  Life!Say(a, e.name, e.status) /\ SeenOK'
<1> DEFINE n == Len(events)
           new == [alerts[a] EXCEPT !.event = n + 1]
<1>1. events' = Append(events, e) /\ alerts' = [alerts EXCEPT ![a] = new] /\ n < MaxEvents
  BY DEF PointTo
<1>2. /\ a \in 1..MaxEvents /\ a \in 1..Len(alerts) /\ a <= Len(alerts)
      /\ alerts[a] \in AlertRecs /\ Len(alerts) \in Nat /\ n \in Nat
  BY RowSeen, Tables
<1>3. new.event = n + 1 /\ new \in AlertRecs
  BY <1>2 DEF AlertRecs
<1>4. new # None
  <2>1. AlertRecs \subseteq [project : Projects, group : Groups, createdAt : Nat, event : Nat]
    BY BoundsAssumption DEF AlertRecs
  <2> QED
    BY <1>3, <2>1, NoneAssumption
<1> HIDE DEF new
<1>5. /\ Len(alerts)' = Len(alerts) /\ alerts'[a] = new
      /\ \A b \in 1..Len(alerts) : b # a => alerts'[b] = alerts[b]
  <2>1. alerts \in Seq(AlertRecs \cup {None}) /\ new \in AlertRecs \cup {None}
    BY <1>3 DEF StoreOK
  <2> QED
    BY <1>1, <1>2, <2>1, ExceptSeq
<1>6. \A b \in 1..MaxEvents : b # a =>
        /\ b > Len(alerts)' <=> b > Len(alerts)
        /\ b <= Len(alerts) => alerts'[b] = alerts[b]
  <2> SUFFICES ASSUME NEW b \in 1..MaxEvents, b # a
               PROVE  b <= Len(alerts) => alerts'[b] = alerts[b]
    BY <1>5
  <2>1. b \in Nat /\ b >= 1
    BY BoundsAssumption
  <2> QED
    BY <1>2, <1>5, <2>1
<1>7. Life!Say(a, e.name, e.status)
  BY <1>1, <1>2, <1>3, <1>4, <1>5, <1>6, SaidOf
<1>8. Len(events)' = n + 1 /\ \A i \in 1..n : events'[i] = events[i]
  BY <1>1, AppendProperties DEF StoreOK
<1>9. SeenOK'
  BY <1>1, <1>2, <1>5, <1>8, BoundsAssumption DEF SeenOK
<1> QED
  BY <1>7, <1>9

\* A consumer creates an alert: its id is new.
LEMMA CreateSeen ==
    ASSUME RepeatInv, SeenOK, NEW c \in Consumers, CreateAlert(c)
    PROVE  (Life!Next \/ UNCHANGED store) /\ SeenOK'
<1> DEFINE job == work[c].job
           exists == \E a \in Rows : alerts[a].project = job.project /\ alerts[a].group = job.group
           k == Len(events) + 1
           m == Len(alerts) + 1
           row == [project |-> job.project, group |-> job.group, createdAt |-> now, event |-> k]
           e == [alert |-> m, name |-> "created", status |-> "open", count |-> 1,
                 createdAt |-> job.time]
<1>1. /\ StoreOK /\ work[c] # None /\ request' = request
      /\ IF exists THEN UNCHANGED store
         ELSE k <= MaxEvents /\ alerts' = Append(alerts, row) /\ events' = Append(events, e)
  <2>1. Len(events) \in Nat /\ MaxEvents \in Nat
    BY Tables, BoundsAssumption DEF RepeatInv
  <2> QED
    BY <2>1 DEF CreateAlert, user, RepeatInv
<1>2. CASE exists
  BY <1>1, <1>2 DEF SeenOK, store
<1>3. CASE ~exists
  <2>1. job \in JobRecs /\ Len(alerts) \in Nat /\ Len(events) \in Nat /\ now \in 0..MaxTime
    BY <1>1, WorkAt, Tables DEF RepeatInv, IngestOK
  <2>2. /\ row \in AlertRecs /\ row.event = k
        /\ e \in EventRecs /\ e.alert = m /\ e.name = "created" /\ e.status = "open"
    <3>1. job.project \in Projects /\ job.group \in Groups /\ job.time \in Nat
      BY <2>1, RowFields
    <3> HIDE DEF job
    <3> QED
      BY <2>1, <3>1 DEF AlertRecs, EventRecs, Statuses
  <2>3. row # None
    <3>1. AlertRecs \subseteq [project : Projects, group : Groups, createdAt : Nat, event : Nat]
      BY BoundsAssumption DEF AlertRecs
    <3> QED
      BY <2>2, <3>1, NoneAssumption
  <2> HIDE DEF row, e, exists, job
  <2>4. /\ Len(alerts)' = m /\ alerts'[m] = row
        /\ \A a \in 1..Len(alerts) : alerts'[a] = alerts[a]
    <3>1. alerts \in Seq(AlertRecs \cup {None}) /\ row \in AlertRecs \cup {None}
      BY <1>1, <2>2 DEF StoreOK
    <3> QED
      BY <1>1, <1>3, <3>1, AppendProperties
  <2>5. m \in 1..MaxEvents /\ m \in Nat
    BY <1>1, <1>3, <2>1, BoundsAssumption DEF SeenOK
  <2>6. \A b \in 1..MaxEvents : b # m =>
            /\ b > Len(alerts)' <=> b > Len(alerts)
            /\ b <= Len(alerts) => alerts'[b] = alerts[b]
    <3> SUFFICES ASSUME NEW b \in 1..MaxEvents, b # m
                 PROVE  /\ b > Len(alerts)' <=> b > Len(alerts)
                        /\ b <= Len(alerts) => alerts'[b] = alerts[b]
      OBVIOUS
    <3>1. b \in Nat /\ b >= 1
      BY BoundsAssumption
    <3> QED
      BY <2>1, <2>4, <3>1
  <2>7. Life!Say(m, "created", "open")
    <3>1. events' = Append(events, e) /\ m <= Len(alerts)' /\ Len(alerts)' \in Nat
          /\ alerts'[m] # None /\ alerts'[m].event = Len(events) + 1
      BY <1>1, <1>3, <2>1, <2>2, <2>3, <2>4
    <3> QED
      BY <1>1, <2>2, <2>5, <2>6, <3>1, SaidOf
  <2>8. StatusSeen[m] = "unborn"
    BY <2>1, <2>5 DEF StatusSeen
  <2>9. Life!Next
    BY <2>5, <2>7, <2>8 DEF Life!Create, Life!Next
  <2>10. Len(events)' = k /\ \A i \in 1..Len(events) : events'[i] = events[i]
    BY <1>1, <1>3, <2>2, AppendProperties DEF StoreOK
  <2>11. SeenOK'
    BY <1>1, <1>3, <2>1, <2>4, <2>10, BoundsAssumption DEF SeenOK
  <2> QED
    BY <2>9, <2>11
<1> QED
  BY <1>2, <1>3

\* A consumer changes the count and the time of an event, which is not seen.
LEMMA UpdateSeen ==
    ASSUME RepeatInv, SeenOK, NEW c \in Consumers, UpdateEvent(c)
    PROVE  UNCHANGED Life!vars /\ SeenOK'
<1> DEFINE w == work[c]
<1>1. /\ alerts' = alerts /\ request' = request /\ StoreOK
      /\ events' = IF w.alert \in Rows
                   THEN [events EXCEPT ![w.base].count = w.count, ![w.base].createdAt = w.job.time]
                   ELSE events
  BY DEF UpdateEvent, user, RepeatInv
<1>2. events \in Seq(EventRecs) /\ Len(events) \in Nat /\ \A i \in 1..Len(events) : events[i] \in EventRecs
  BY <1>1, Tables DEF StoreOK
<1>3. w # None /\ w \in CountRecs /\ CountOK(w) /\ w.job \in JobRecs
  BY WorkAt DEF UpdateEvent
<1>4. w.count \in Nat /\ w.job.time \in Nat /\ w.base \in 1..Len(events)
  BY <1>3, RowFields DEF CountRecs, CountOK
<1> HIDE DEF w
<1>5. /\ Len(events)' = Len(events)
      /\ \A i \in 1..Len(events) :
            /\ events'[i].alert = events[i].alert /\ events'[i].name = events[i].name
            /\ events'[i].status = events[i].status
  <2>1. CASE w.alert \in Rows
    <3> DEFINE e == [events[w.base] EXCEPT !.count = w.count, !.createdAt = w.job.time]
    <3>1. /\ e \in EventRecs /\ e.alert = events[w.base].alert /\ e.name = events[w.base].name
          /\ e.status = events[w.base].status
      <4>1. events[w.base] \in EventRecs
        BY <1>2, <1>4
      <4> QED
        BY <1>4, <4>1 DEF EventRecs
    <3>2. events' = [events EXCEPT ![w.base] = e]
      BY <1>1, <1>2, <1>4, <2>1, LenProperties
    <3> HIDE DEF e
    <3>3. /\ Len(events)' = Len(events)
          /\ \A i \in 1..Len(events) : events'[i] = IF i = w.base THEN e ELSE events[i]
      BY <1>2, <1>4, <3>1, <3>2, ExceptSeq
    <3> QED
      BY <3>1, <3>3
  <2>2. CASE w.alert \notin Rows
    BY <1>1, <2>2
  <2> QED
    BY <2>1, <2>2
<1>6. EventsSeen' = EventsSeen
  BY <1>5 DEF EventsSeen
<1>7. StatusSeen' = StatusSeen
  <2>1. \A a \in Rows : EventOf(a)'.status = EventOf(a).status
    BY <1>1, <1>5 DEF StoreOK, EventOf
  <2>2. ASSUME NEW a \in 1..MaxEvents PROVE StatusSeen'[a] = StatusSeen[a]
    <3>1. a \in Nat /\ a >= 1 /\ Len(alerts) \in Nat
      BY <1>1, Tables, BoundsAssumption
    <3>2. a \in Rows \/ a > Len(alerts) \/ alerts[a] = None
      BY <3>1 DEF Rows
    <3> QED
      BY <1>1, <2>1, <3>1, <3>2 DEF StatusSeen
  <2>3. /\ StatusSeen' = [a \in 1..MaxEvents |-> StatusSeen'[a]]
        /\ StatusSeen = [a \in 1..MaxEvents |-> StatusSeen[a]]
    BY DEF StatusSeen
  <2> QED
    BY <2>2, <2>3
<1>8. SeenOK'
  BY <1>1, <1>5 DEF SeenOK
<1> QED
  BY <1>6, <1>7, <1>8 DEF Life!vars

\* A row is deleted.
LEMMA DeleteSeen == ASSUME RepeatInv, SeenOK, UserDeleteAlert PROVE Life!Next /\ SeenOK'
<1>1. PICK a \in Rows : alerts' = [alerts EXCEPT ![a] = None]
  BY DEF UserDeleteAlert
<1>2. StoreOK /\ events' = events /\ request' = request
  BY DEF UserDeleteAlert, RepeatInv
<1>3. /\ a \in 1..MaxEvents /\ a \in 1..Len(alerts) /\ Len(alerts) \in Nat /\ a \in Life!Live
      /\ a \in Nat
  BY <1>2, RowSeen, Tables
<1>4. /\ Len(alerts)' = Len(alerts) /\ alerts'[a] = None
      /\ \A b \in 1..Len(alerts) : b # a => alerts'[b] = alerts[b]
  <2>1. alerts \in Seq(AlertRecs \cup {None}) /\ None \in AlertRecs \cup {None}
    BY <1>2 DEF StoreOK
  <2> QED
    BY <1>1, <1>3, <2>1, ExceptSeq
<1>5. ASSUME NEW b \in 1..MaxEvents
      PROVE  StatusSeen'[b] = IF b \in {a} THEN "deleted" ELSE StatusSeen[b]
  <2>1. b \in Nat /\ b >= 1
    BY BoundsAssumption
  <2>2. CASE b = a
    BY <1>3, <1>4, <2>2 DEF StatusSeen
  <2>3. CASE b # a /\ b <= Len(alerts)
    <3>1. alerts'[b] = alerts[b]
      BY <1>3, <1>4, <2>1, <2>3
    <3> QED
      BY <1>2, <1>4, <2>3, <3>1 DEF StatusSeen, EventOf
  <2>4. CASE b # a /\ b > Len(alerts)
    BY <1>4, <2>4 DEF StatusSeen
  <2> QED
    BY <1>3, <2>1, <2>2, <2>3, <2>4
<1>6. StatusSeen' = [b \in 1..MaxEvents |-> IF b \in {a} THEN "deleted" ELSE StatusSeen[b]]
  <2>1. StatusSeen' = [b \in 1..MaxEvents |-> StatusSeen'[b]]
    BY DEF StatusSeen
  <2> QED
    BY <1>5, <2>1
<1>7. EventsSeen' = EventsSeen
  BY <1>2 DEF EventsSeen
<1>8. Life!Delete({a}) /\ {a} \in SUBSET (1..MaxEvents)
  BY <1>3, <1>6, <1>7 DEF Life!Delete
<1>9. SeenOK'
  BY <1>2, <1>4 DEF SeenOK
<1> QED
  BY <1>8, <1>9 DEF Life!Next

\* A consumer repeats an alert.
LEMMA RepeatSeen ==
    ASSUME RepeatInv, SeenOK, NEW c \in Consumers, RepeatAlert(c)
    PROVE  Life!Next /\ SeenOK'
<1> DEFINE w == work[c]
           a == w.alert
           e == [alert |-> w.alert, name |-> "recurring", status |-> "open",
                 count |-> w.count, createdAt |-> w.job.time]
<1>1. /\ StoreOK /\ request' = request /\ w # None /\ w.op = "repeat"
      /\ a \in Rows /\ PointTo(a, e)
  BY DEF RepeatAlert, user, RepeatInv, Unchanged
<1>2. w \in CountRecs /\ w.job \in JobRecs
  BY <1>1, WorkAt
<1>3. w.count \in Nat /\ w.job.time \in Nat /\ a \in Nat
  BY <1>2, RowFields DEF CountRecs
<1>4. e \in EventRecs /\ e.alert = a /\ e.name = "recurring" /\ e.status = "open"
  <2> HIDE DEF w
  <2> QED
    BY <1>3 DEF EventRecs, Statuses
<1> HIDE DEF e, a
<1>5. Life!Say(a, "recurring", "open") /\ SeenOK'
  BY <1>1, <1>4, PointSeen
<1>6. a \in 1..MaxEvents /\ a \in Life!Live /\ StatusSeen[a] \in {"open", "closed"}
  BY <1>1, RowSeen DEF Statuses
<1>7. Life!Recur(a)
  BY <1>5, <1>6 DEF Life!Recur
<1> QED
  BY <1>5, <1>6, <1>7 DEF Life!Next

\* A user changes the status that the alert has still.
LEMMA StatusSeenChanges ==
    ASSUME RepeatInv, SeenOK, UserChangeStatus
    PROVE  Life!Next /\ SeenOK'
<1> DEFINE a == request.alert
           old == request.event
           status == IF old.status = "open" THEN "closed" ELSE "open"
           e == [old EXCEPT !.name = "status-changed", !.status = status]
<1>1. /\ RequestOK /\ StoreOK /\ request # None /\ request' = None
      /\ a \in Rows /\ alerts[a].event = request.base /\ PointTo(a, e)
  BY DEF UserChangeStatus, RepeatInv, Unchanged
<1>2. old \in EventRecs /\ old.alert = a
  BY <1>1 DEF RequestOK, Requests
<1>3. e \in EventRecs /\ e.alert = a /\ e.name = "status-changed" /\ e.status = status
  <2>1. status \in Statuses
    BY DEF Statuses
  <2> HIDE DEF old, status
  <2> QED
    BY <1>2, <2>1 DEF EventRecs
<1>4. EventOf(a).status = old.status
  BY <1>1 DEF SeenOK, EventOf
<1> HIDE DEF e, a
<1>5. Life!Say(a, "status-changed", status) /\ SeenOK'
  BY <1>1, <1>3, PointSeen
<1>6. a \in 1..MaxEvents /\ a \in Life!Live /\ StatusSeen[a] = old.status
  BY <1>1, <1>4, RowSeen
<1>7. Life!Change(a)
  BY <1>5, <1>6 DEF Life!Change
<1> QED
  BY <1>5, <1>6, <1>7 DEF Life!Next

\* A request reads an event and its status.
LEMMA RequestSeen ==
    ASSUME RepeatInv, SeenOK, UserSelectAlert
    PROVE  UNCHANGED store /\ SeenOK'
<1>1. PICK a \in Rows : request' = [alert |-> a, base |-> alerts[a].event, event |-> EventOf(a)]
  BY DEF UserSelectAlert
<1>2. UNCHANGED <<alerts, events>> /\ StoreOK
  BY DEF UserSelectAlert, store, RepeatInv
<1>3. /\ request'.base \in 1..Len(events)
      /\ events[request'.base].status = request'.event.status
  BY <1>1, <1>2 DEF StoreOK, EventOf
<1> QED
  BY <1>2, <1>3 DEF SeenOK, store

\* Every step is one of the abstract alerts, or is not seen.
LEMMA LifeStep ==
    RepeatInv /\ SeenOK /\ [Next]_vars => [Life!Next]_(Life!vars) /\ SeenOK'
<1> SUFFICES ASSUME RepeatInv, SeenOK, [Next]_vars
             PROVE  (Life!Next \/ UNCHANGED Life!vars) /\ SeenOK'
  BY Zenon
<1>1. ASSUME UNCHANGED store PROVE UNCHANGED Life!vars
  <2>1. StatusSeen' = StatusSeen /\ EventsSeen' = EventsSeen
    BY <1>1 DEF StatusSeen, EventsSeen, EventOf, store
  <2> QED
    BY <2>1 DEF Life!vars
<1>2. ASSUME UNCHANGED store, request' = request \/ request' = None
      PROVE  UNCHANGED Life!vars /\ SeenOK'
  BY <1>1, <1>2 DEF SeenOK, store
<1>3. \/ UNCHANGED store /\ (request' = request \/ request' = None)
      \/ UserSelectAlert \/ UserChangeStatus \/ UserDeleteAlert
      \/ \E c \in Consumers : CreateAlert(c) \/ UpdateEvent(c) \/ RepeatAlert(c)
  <2>1. CASE UNCHANGED vars
    BY <2>1 DEF vars, store
  <2>2. CASE Tick \/ RecordErrors \/ UserChangeFails \/ UserChangeChannel \/ ScheduleNotify \/ Restart
    BY <2>2 DEF Tick, RecordErrors, UserChangeFails, UserChangeChannel, ScheduleNotify, Restart, user
  <2>3. ASSUME NEW c \in Consumers,
               JobDropped(c) \/ SelectErrorAlert(c) \/ CountAlertSpans(c) \/ WriteFails(c)
        PROVE  UNCHANGED store /\ request' = request
    BY <2>3 DEF JobDropped, SelectErrorAlert, CountAlertSpans, WriteFails, user
  <2>4. ASSUME NEW n \in notifs, NothingToNotify(n) \/ Notified(n) \/ SlackGone(n) \/ NotifyFails(n)
        PROVE  UNCHANGED store /\ request' = request
    BY <2>4 DEF NothingToNotify, Notified, SlackGone, NotifyFails, user
  <2> QED
    BY <2>1, <2>2, <2>3, <2>4 DEF Next
<1> QED
  BY <1>1, <1>2, <1>3, RequestSeen, StatusSeenChanges, DeleteSeen, CreateSeen, UpdateSeen,
     RepeatSeen

\* The tables alerts and alert_events are the life of each alert, whatever the
\* jobs and the users read before and write at the same time.
THEOREM AlertsLive == Spec => LifeImplemented
<1>1. Init => Life!Init /\ SeenOK
  <2> SUFFICES ASSUME Init PROVE Life!Init /\ SeenOK
    OBVIOUS
  <2>1. alerts = << >> /\ events = << >> /\ Len(alerts) = 0 /\ Len(events) = 0 /\ request = None
    BY DEF Init
  <2>2. StatusSeen = [a \in 1..MaxEvents |-> "unborn"] /\ EventsSeen = << >>
    BY <2>1, BoundsAssumption DEF StatusSeen, EventsSeen
  <2> QED
    BY <2>1, <2>2, BoundsAssumption DEF Life!Init, SeenOK
<1>2. RepeatInv /\ SeenOK /\ [Next]_vars => SeenOK' /\ [Life!Next]_(Life!vars)
  BY LifeStep
<1>3. ErrorInv => RepeatInv
  BY DEF ErrorInv
<1> QED
  BY <1>1, <1>2, <1>3, ErrorInvariant, PTL DEF Spec, LifeImplemented, Life!Spec
=============================================================================
