---------------------------- MODULE MetricAlerts ----------------------------
(***************************************************************************)
(* The alerting manager (pkg/alerting/manager.go) and the users of the     *)
(* alerting API (alert_handler.go, monitor_handler.go) over the PostgreSQL *)
(* tables monitors, alerts and alert_events of one project.                *)
(*                                                                         *)
(* A transaction is one step; what a goroutine read before it may be stale *)
(* by then.  An event is never changed once it is written; the event an    *)
(* alert points to (alerts.event_id) is its state.  Scheduling the         *)
(* notifications of an event is a step of its own after the commit.        *)
(***************************************************************************)
EXTENDS Integers, Sequences, FiniteSets, FiniteSetsExt

CONSTANTS
    Monitors,       \* metric monitors of the project
    Series,         \* time series (attribute sets) the monitors may return
    MonitorOf,      \* the monitor of each series
    Users,          \* users of the API
    AlertIds,       \* bound: identities of alert rows, natural numbers
    MaxEvents,      \* bound: rows of alert_events
    MaxTime,        \* bound: minutes
    NumPoints,      \* points per window, noDataMinutesThreshold in the code
    Values,         \* values of a point, NaN aside
    NaN,            \* a missing point
    MinValue,       \* MetricMonitorParams.MinValue, NaN if not set
    MaxValue,       \* MetricMonitorParams.MaxValue, NaN if not set
    CheckNumPoint,  \* MetricMonitorParams.CheckNumPoint
    RemindAfter,    \* one hour
    ReuseFor,       \* eight hours
    None            \* no row, no plan, no monitor

ASSUME SeriesAssumption == MonitorOf \in [Series -> Monitors]
ASSUME BoundsAssumption ==
    /\ AlertIds \subseteq Nat \ {0}
    /\ MaxEvents \in Nat /\ MaxTime \in Nat
    /\ NumPoints \in Nat /\ CheckNumPoint \in 1..NumPoints
    /\ RemindAfter \in Nat \ {0} /\ ReuseFor \in Nat

\* A row is not NULL.
ASSUME NoneAssumption == None \notin [series : Series, event : Nat]

M == INSTANCE Madalarm

VARIABLES
    now,       \* the minute of the last tick
    monitors,  \* monitors.state, None for a deleted row
    alerts,    \* rows of alerts: the series and event_id
    events,    \* rows of alert_events; the row number is the id
    jobs,      \* event ids of scheduled notifications
    gaveUp,    \* event ids whose scheduling failed, which is only logged
    crashed,   \* the process was restarted once
    mpc,       \* where the manager is
    todo,      \* monitors of this tick that wait, with the state selected
    cur,       \* the monitor at hand, with the state selected
    left,      \* its time series that wait
    firing,    \* the local variable of Manager.monitor
    mplan,     \* what the manager is about to write
    upc,       \* where each user's request is
    uplan      \* what it is about to write

vars == <<now, monitors, alerts, events, jobs, gaveUp, crashed, mpc, todo, cur,
          left, firing, mplan, upc, uplan>>
tables == <<monitors, alerts, events>>
mgr == <<mpc, todo, cur, left, firing, mplan>>
usr == <<upc, uplan>>
notifs == <<jobs, gaveUp>>

MonitorStates == {"active", "paused", "firing", "no-data", "failed"}
Statuses == {"open", "closed"}
Names == {"created", "status-changed", "recurring"}

Rows == {a \in AlertIds : alerts[a] # None}
EventOf(a) == events[alerts[a].event]

\* The events of alert a that are older than event i.
Older(a, i) == {j \in 1..(i - 1) : events[j].alert = a}

Windows == [1..NumPoints -> Values \cup {NaN}]

-----------------------------------------------------------------------------

Init ==
    /\ now = 0
    /\ monitors = [m \in Monitors |-> "active"]
    /\ alerts = [a \in AlertIds |-> None]
    /\ events = << >>
    /\ jobs = {} /\ gaveUp = {}
    /\ crashed = FALSE
    /\ mpc = "sleep" /\ todo = {} /\ cur = None /\ left = {} /\ firing = FALSE
    /\ mplan = None
    /\ upc = [u \in Users |-> "idle"]
    /\ uplan = [u \in Users |-> None]

-----------------------------------------------------------------------------
(* Transactions.                                                           *)

\* MUTANT: the update is not conditional on event_id.
UnchangedRowExists(p) == alerts[p.alert] # None

\* updateAlertEvent finds the row only while it points to the event that was
\* read, else the transaction is rolled back.
Unchanged(p) == alerts[p.alert] # None /\ alerts[p.alert].event = p.base

\* changeAlertStatus and remindAboutAlert: a clone of the event that was read
\* is inserted and the alert is pointed to it.
InsertAlertEvent(p) ==
    /\ Unchanged(p)
    /\ Len(events) < MaxEvents
    /\ events' = Append(events, [alert |-> p.alert, name |-> p.name, status |-> p.status,
                                 createdAt |-> p.at, clonedFrom |-> p.base])
    /\ alerts' = [alerts EXCEPT ![p.alert].event = Len(events) + 1]

\* The row of an alert that is about to be created; metric alerts leave
\* DedupHash zero, so the unique index (project_id, dedup_hash) has room for
\* one of them.
DedupHash(s) == 0
Conflict(s) == \E a \in Rows : DedupHash(alerts[a].series) = DedupHash(s)

InsertAlert(p) ==
    /\ ~Conflict(p.series)
    /\ monitors[MonitorOf[p.series]] # None
    /\ Len(events) < MaxEvents
    /\ \E a \in AlertIds :
        /\ \A i \in 1..Len(events) : events[i].alert # a
        /\ events' = Append(events, [alert |-> a, name |-> "created", status |-> "open",
                                     createdAt |-> p.at, clonedFrom |-> 0])
        /\ alerts' = [alerts EXCEPT ![a] = [series |-> p.series, event |-> Len(events) + 1]]

-----------------------------------------------------------------------------
(* The manager.                                                            *)

\* tick: selectMetricMonitors; if it fails nothing is checked in this minute.
Tick ==
    /\ mpc = "sleep"
    /\ now < MaxTime
    /\ now' = now + 1
    /\ \/ todo' = {[id |-> m, state |-> monitors[m]] :
                    m \in {n \in Monitors : monitors[n] \notin {"paused", "failed", None}}}
       \/ todo' = {}
    /\ mpc' = "monitor"
    /\ UNCHANGED <<tables, notifs, crashed, cur, left, firing, mplan, usr>>

TickDone ==
    /\ mpc = "monitor" /\ todo = {}
    /\ mpc' = "sleep"
    /\ UNCHANGED <<now, tables, notifs, crashed, todo, cur, left, firing, mplan, usr>>

\* MUTANT: the update is not conditional on the state that was selected.
UpdateMonitorStateAnyway(m, to) ==
    monitors' = IF monitors[m.id] # None THEN [monitors EXCEPT ![m.id] = to] ELSE monitors

\* UpdateMonitorState: the state is set only if it is still the one selected.
\* A failure of the update ends the check of the monitor and is logged.
UpdateMonitorState(m, to) ==
    \/ monitors' = IF monitors[m.id] = m.state THEN [monitors EXCEPT ![m.id] = to] ELSE monitors
    \/ UNCHANGED monitors

\* monitor: a metric of the query does not exist.
MetricMissing ==
    /\ mpc = "monitor"
    /\ \E m \in todo : todo' = todo \ {m} /\ UpdateMonitorState(m, "failed")
    /\ UNCHANGED <<now, alerts, events, notifs, crashed, mpc, cur, left, firing, mplan, usr>>

\* monitor: the metrics cannot be selected or the query fails.
QueryFails ==
    /\ mpc = "monitor"
    /\ \E m \in todo : todo' = todo \ {m}
    /\ UNCHANGED <<now, tables, notifs, crashed, mpc, cur, left, firing, mplan, usr>>

\* monitor: the query returns some of the monitor's series, or none.
SelectTimeseries ==
    /\ mpc = "monitor"
    /\ \E m \in todo, S \in SUBSET Series :
        /\ \A s \in S : MonitorOf[s] = m.id
        /\ todo' = todo \ {m}
        /\ \/ /\ S = {}
              /\ UpdateMonitorState(m, "no-data")
              /\ UNCHANGED <<mpc, cur, left, firing>>
           \/ /\ S # {}
              /\ cur' = m /\ left' = S /\ firing' = FALSE
              /\ mpc' = "series"
              /\ UNCHANGED monitors
    /\ UNCHANGED <<now, alerts, events, notifs, crashed, mplan, usr>>

\* selectMatchingAlert: the alert of the series with the latest event.
Matching(s) ==
    LET rows == {a \in Rows : alerts[a].series = s}
    IN  {a \in rows : \A b \in rows : EventOf(b).createdAt <= EventOf(a).createdAt}

StatusPlan(s, a, status, at) ==
    [op |-> "event", series |-> s, alert |-> a, base |-> alerts[a].event,
     name |-> "status-changed", status |-> status, at |-> at]

\* MUTANT: the age of the last event is not looked at.
CheckOpenAlertEager(s, a, w) ==
    LET res == M!Check(w, CheckNumPoint, MinValue, MaxValue)
    IN  IF res.firing = 0 /\ res.firingFor = 0
        THEN StatusPlan(s, a, "closed", now - CheckNumPoint + 1)
        ELSE IF res.firingFor = CheckNumPoint
        THEN [StatusPlan(s, a, "open", now) EXCEPT !.name = "recurring"]
        ELSE None

\* checkOpenAlert: close it, remind of it or leave it alone.
CheckOpenAlert(s, a, w) ==
    LET res == M!Check(w, CheckNumPoint, MinValue, MaxValue)
    IN  IF res.firing = 0 /\ res.firingFor = 0
        THEN StatusPlan(s, a, "closed", now - CheckNumPoint + 1)
        ELSE IF res.firingFor = CheckNumPoint /\ now - EventOf(a).createdAt >= RemindAfter
        THEN [StatusPlan(s, a, "open", now) EXCEPT !.name = "recurring"]
        ELSE None

\* checkTimeseries without an open alert: reopen a recent one or create one.
CheckFiring(s, found, w) ==
    LET res == M!Check(M!TrimLeadingNaN(w), CheckNumPoint, MinValue, MaxValue)
        alertTime == now - res.firingFor + 1
    IN  IF res.firing = 0 THEN None
        ELSE IF \E a \in found : alertTime - EventOf(a).createdAt < ReuseFor
        THEN StatusPlan(s, CHOOSE a \in found : TRUE, "open", alertTime)
        ELSE [op |-> "create", series |-> s, at |-> alertTime]

\* The read half of checkTimeseries.  A check that writes nothing leaves an
\* open alert open, which counts as firing.
CheckTimeseries ==
    /\ mpc = "series" /\ left # {}
    /\ \E s \in left, w \in Windows :
        LET found == Matching(s)
            open == \E a \in found : EventOf(a).status = "open"
            plan == IF open THEN CheckOpenAlert(s, CHOOSE a \in found : TRUE, w)
                    ELSE CheckFiring(s, found, w)
        IN  /\ left' = left \ {s}
            /\ mplan' = plan
            /\ mpc' = IF plan = None THEN "series" ELSE "write"
            /\ firing' = (firing \/ (plan = None /\ open))
    /\ UNCHANGED <<now, tables, notifs, crashed, todo, cur, usr>>

\* The write half: the transaction commits.  createAlert treats a conflict on
\* the unique index as success and goes on with a zero event id.
ManagerWrite ==
    /\ mpc = "write"
    /\ \/ mplan.op = "event" /\ InsertAlertEvent(mplan)
       \/ mplan.op = "create" /\ InsertAlert(mplan)
       \/ mplan.op = "create" /\ Conflict(mplan.series) /\ UNCHANGED <<alerts, events>>
    /\ mpc' = "notify"
    /\ mplan' = [op |-> "notify", series |-> mplan.series,
                 event |-> IF events' = events THEN 0 ELSE Len(events) + 1]
    /\ firing' = (firing \/ mplan.op = "create" \/ mplan.status = "open")
    /\ UNCHANGED <<now, monitors, notifs, crashed, todo, cur, left, usr>>

\* The transaction fails: "transaction conflict", a foreign key that is gone or
\* a database error.  Manager.monitor returns; the state is not updated.
ManagerWriteFails ==
    /\ mpc = "write"
    /\ mpc' = "monitor" /\ mplan' = None /\ cur' = None /\ left' = {} /\ firing' = FALSE
    /\ UNCHANGED <<now, tables, notifs, crashed, todo, usr>>

\* scheduleNotifyOnMetricAlert; it fails when the monitor is gone or a query
\* or the queue fails.
Schedule(p) ==
    \/ /\ monitors[MonitorOf[p.series]] # None
       /\ jobs' = jobs \cup {p.event}
       /\ UNCHANGED gaveUp
    \/ gaveUp' = gaveUp \cup {p.event} /\ UNCHANGED jobs

ManagerNotify ==
    /\ mpc = "notify"
    /\ Schedule(mplan)
    /\ mpc' = "series" /\ mplan' = None
    /\ UNCHANGED <<now, tables, crashed, todo, cur, left, firing, usr>>

\* The end of Manager.monitor.
MonitorDone ==
    /\ mpc = "series" /\ left = {}
    /\ LET to == IF firing THEN "firing" ELSE "active"
       IN  IF cur.state # to THEN UpdateMonitorState(cur, to) ELSE UNCHANGED monitors
    /\ mpc' = "monitor" /\ cur' = None /\ firing' = FALSE
    /\ UNCHANGED <<now, alerts, events, notifs, crashed, todo, left, mplan, usr>>

-----------------------------------------------------------------------------
(* The users.                                                              *)

\* AlertHandler.changeAlertStatus: the alert is read; a request for the status
\* it has already is done.
UserSelectAlert(u) ==
    /\ upc[u] = "idle"
    /\ \E a \in Rows, status \in Statuses :
        /\ EventOf(a).status # status
        /\ uplan' = [uplan EXCEPT ![u] = StatusPlan(alerts[a].series, a, status,
                                                    EventOf(a).createdAt)]
    /\ upc' = [upc EXCEPT ![u] = "write"]
    /\ UNCHANGED <<now, tables, notifs, crashed, mgr>>

UserWrite(u) ==
    /\ upc[u] = "write"
    /\ InsertAlertEvent(uplan[u])
    /\ upc' = [upc EXCEPT ![u] = "notify"]
    /\ uplan' = [uplan EXCEPT ![u] = [op |-> "notify", series |-> uplan[u].series,
                                        event |-> Len(events) + 1]]
    /\ UNCHANGED <<now, monitors, notifs, crashed, mgr>>

UserWriteFails(u) ==
    /\ upc[u] = "write"
    /\ upc' = [upc EXCEPT ![u] = "idle"]
    /\ uplan' = [uplan EXCEPT ![u] = None]
    /\ UNCHANGED <<now, tables, notifs, crashed, mgr>>

\* MUTANT: the notification of a user's change is forgotten.
UserNotifySkipped(u) ==
    /\ upc[u] = "notify"
    /\ upc' = [upc EXCEPT ![u] = "idle"]
    /\ uplan' = [uplan EXCEPT ![u] = None]
    /\ UNCHANGED <<now, tables, notifs, crashed, mgr>>

UserNotify(u) ==
    /\ upc[u] = "notify"
    /\ Schedule(uplan[u])
    /\ upc' = [upc EXCEPT ![u] = "idle"]
    /\ uplan' = [uplan EXCEPT ![u] = None]
    /\ UNCHANGED <<now, tables, crashed, mgr>>

\* AlertHandler.Delete; the events go with the alert.
UserDeleteAlert ==
    /\ \E a \in Rows : alerts' = [alerts EXCEPT ![a] = None]
    /\ UNCHANGED <<now, monitors, events, notifs, crashed, mgr, usr>>

\* MonitorHandler.Pause and Activate: an update without a condition.
UserSetMonitorState(m, state) ==
    /\ monitors[m] \notin {None, state}
    /\ monitors' = [monitors EXCEPT ![m] = state]
    /\ UNCHANGED <<now, alerts, events, notifs, crashed, mgr, usr>>

UserPause(m) == UserSetMonitorState(m, "paused")
UserActivate(m) == UserSetMonitorState(m, "active")

\* MonitorHandler.Delete; the alerts go with the monitor.
UserDeleteMonitor(m) ==
    /\ monitors[m] # None
    /\ monitors' = [monitors EXCEPT ![m] = None]
    /\ alerts' = [a \in AlertIds |-> IF a \in Rows /\ MonitorOf[alerts[a].series] = m
                                     THEN None ELSE alerts[a]]
    /\ UNCHANGED <<now, events, notifs, crashed, mgr, usr>>

\* The process is killed and started again: what was not written is gone.
Crash ==
    /\ ~crashed
    /\ crashed' = TRUE
    /\ mpc' = "sleep" /\ todo' = {} /\ cur' = None /\ left' = {} /\ firing' = FALSE
    /\ mplan' = None
    /\ upc' = [u \in Users |-> "idle"]
    /\ uplan' = [u \in Users |-> None]
    /\ UNCHANGED <<now, tables, notifs>>

-----------------------------------------------------------------------------

ManagerStep ==
    \/ TickDone \/ MetricMissing \/ QueryFails \/ SelectTimeseries \/ CheckTimeseries
    \/ ManagerWrite \/ ManagerWriteFails \/ ManagerNotify \/ MonitorDone

UserStep(u) == UserWrite(u) \/ UserWriteFails(u) \/ UserNotify(u)

Next ==
    \/ Tick \/ ManagerStep
    \/ \E u \in Users : UserSelectAlert(u) \/ UserStep(u)
    \/ UserDeleteAlert
    \/ \E m \in Monitors : UserPause(m) \/ UserActivate(m) \/ UserDeleteMonitor(m)
    \/ Crash

Spec == Init /\ [][Next]_vars

\* The goroutines of the manager and of the requests are scheduled.
Fairness == WF_vars(ManagerStep) /\ \A u \in Users : WF_vars(UserStep(u))

FairSpec == Spec /\ Fairness

-----------------------------------------------------------------------------
(* Properties.                                                             *)

Plans == [op : {"event"}, series : Series, alert : AlertIds, base : 1..MaxEvents,
          name : Names, status : Statuses, at : Int]
         \cup [op : {"create"}, series : Series, at : Int]
         \cup [op : {"notify"}, series : Series, event : 0..MaxEvents]

\* Every variable has its type.
TypeOK ==
    /\ now \in 0..MaxTime
    /\ monitors \in [Monitors -> MonitorStates \cup {None}]
    /\ alerts \in [AlertIds -> [series : Series, event : 1..Len(events)] \cup {None}]
    /\ events \in Seq([alert : AlertIds, name : Names, status : Statuses,
                       createdAt : Int, clonedFrom : 0..MaxEvents])
    /\ Len(events) <= MaxEvents
    /\ jobs \subseteq 0..Len(events) /\ gaveUp \subseteq 0..Len(events)
    /\ crashed \in BOOLEAN /\ firing \in BOOLEAN
    /\ mpc \in {"sleep", "monitor", "series", "write", "notify"}
    /\ todo \subseteq [id : Monitors, state : MonitorStates]
    /\ cur \in [id : Monitors, state : MonitorStates] \cup {None}
    /\ left \subseteq Series
    /\ upc \in [Users -> {"idle", "write", "notify"}]
    /\ mplan \in Plans \cup {None} /\ uplan \in [Users -> Plans \cup {None}]

\* The events of an alert are one history: each is a clone of the one before
\* it, only the first has nothing before it, and the alert points to the last.
\* Two writers that read the same event can never both commit.
HistoryLinear ==
    /\ \A i \in 1..Len(events) :
        LET older == Older(events[i].alert, i)
        IN  events[i].clonedFrom = IF older = {} THEN 0 ELSE Max(older)
    /\ \A a \in Rows : alerts[a].event = Max(Older(a, Len(events) + 1))

\* A status-changed event really changes the status of its alert, and a
\* reminder neither changes it nor comes for a closed alert, whatever the
\* manager and the users do at the same time.
StatusAlternates ==
    \A i \in 1..Len(events) :
        LET e == events[i]
            older == Older(e.alert, i)
        IN  /\ e.name = "created" <=> older = {}
            /\ e.name = "status-changed" => events[Max(older)].status # e.status
            /\ e.name = "recurring" => events[Max(older)].status = "open" /\ e.status = "open"

\* What a reader of the tables sees of the alerts: the status of each, and what
\* its events say.
StatusSeen ==
    [a \in AlertIds |-> IF a \in Rows THEN EventOf(a).status
                        ELSE IF Older(a, Len(events) + 1) # {} THEN "deleted" ELSE "unborn"]
EventsSeen ==
    [i \in 1..Len(events) |-> [alert |-> events[i].alert, name |-> events[i].name,
                               status |-> events[i].status]]

Life == INSTANCE AlertLife WITH
    Alerts <- AlertIds, Reminded <- {"open"}, status <- StatusSeen, log <- EventsSeen

\* Two goroutines that read, decide and commit at different times write what a
\* single writer without a delay might have: each event is true of the alert
\* when it is written, and only open alerts are reminded of.
LifeImplemented == Life!Spec

\* The minute in which event i was written, if it is a new alert or a reminder:
\* a new alert is dated back to its first outlying point.
WrittenAt(i) == events[i].createdAt + IF events[i].name = "created" THEN CheckNumPoint - 1 ELSE 0

\* How much earlier than RemindAfter a reminder may come: the manager dates a
\* change of status back as well, but it checks an alert once in a minute.
Early(i) == IF events[i].name = "created" THEN CheckNumPoint - 1 ELSE Max({0, CheckNumPoint - 2})

\* A reminder comes RemindAfter minutes after its alert was created or last
\* reminded of, but for what is dated back: however often the alert was closed
\* and opened again since by users, who copy the time of the event they read,
\* or by the manager, and after a restart.  (A reminder may follow sooner on
\* the event that opened the alert again.)
RemindersSpaced ==
    \A j \in 1..Len(events) : \A i \in Older(events[j].alert, j) :
        events[j].name = "recurring" /\ events[i].name # "status-changed" =>
            events[j].createdAt - WrittenAt(i) >= RemindAfter - Early(i)

\* Only a user ends a pause: a check that began before the pause and ends after
\* it does not switch the monitor on again.
PauseHolds ==
    [][\A m \in Monitors :
        monitors[m] = "paused" /\ monitors'[m] # "paused"
            => UserActivate(m) \/ UserDeleteMonitor(m)]_vars

\* Every event that was committed is announced, or that it could not be is
\* logged, unless the process was killed after the commit: createAlertEvent
\* schedules the notification outside the transaction.
EventsAnnounced ==
    \A i \in 1..MaxEvents : Len(events) >= i ~> (i \in jobs \cup gaveUp \/ crashed)

\* NotifChannelWebhookForm.vue says of the id of a notification, which is the
\* id of the event: "A unique message/notification id".
NotificationHasEvent == 0 \notin jobs

=============================================================================
