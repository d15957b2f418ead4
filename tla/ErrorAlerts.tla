---------------------------- MODULE ErrorAlerts ----------------------------
(***************************************************************************)
(* Alerts about errors: the span processor schedules a job per error group *)
(* (pkg/tracing/span_processor.go), the job creates or repeats the alert   *)
(* of the group (pkg/alerting/span_error.go, alert.go), an alert event     *)
(* schedules notifications (notif.go), and further jobs deliver them       *)
(* (notif_email.go, notif_slack.go, notif_webhook.go).                     *)
(*                                                                         *)
(* Time is in minutes.  A transaction is one step, and what a job read     *)
(* before it may be stale by then.  The queue is taskq over PostgreSQL: a  *)
(* job is delivered again after an error or a crash, or dropped; how often *)
(* (RetryLimit, 16) is left open.                                          *)
(***************************************************************************)
EXTENDS Integers, Sequences, FiniteSets, FiniteSetsExt

CONSTANTS
    Projects,    \* projects
    Groups,      \* error groups; a group id does not depend on the project
    Consumers,   \* goroutines of the queue
    Channels,    \* notification channels; e-mail to everyone is one of them
    Kind,        \* the kind of each channel: "email", "slack" or "webhook"
    OnNew,       \* channels of a project's monitors with notifyOnNewErrors
    OnRecurring, \* channels of its monitors with notifyOnRecurringErrors
    Bursts,      \* how many errors of a project may be recorded at once
    Period,      \* of OnceInPeriod
    Delay,       \* of the job
    MaxTime,     \* bound: minutes
    MaxBursts,   \* bound: times that errors are recorded
    MaxEvents,   \* bound: rows of alert_events
    MaxChanges,  \* bound: requests of users that change an alert
    None         \* no row, nothing at hand

\* The values that nextSpanCountThreshold can return.  It goes on doubling; the
\* greatest one here is the bound of what is recorded of a project and group.
Thresholds == {100, 1000, 10000, 100000, 1000000}
    \cup {1000000 * m : m \in {2, 4, 8, 16, 32, 64, 128, 256, 512, 1024}}
MaxErrors == 1024000000

ASSUME BoundsAssumption == MaxTime \in Nat /\ MaxEvents \in Nat /\ Delay \in Nat

\* A batch that is looked at has an error.
ASSUME BurstsAssumption == Bursts \in [Projects -> SUBSET (Nat \ {0})]
ASSUME ChannelsAssumption ==
    /\ Kind \in [Channels -> {"email", "slack", "webhook"}]
    /\ OnNew \in [Projects -> SUBSET Channels]
    /\ OnRecurring \in [Projects -> SUBSET Channels]

\* A row is not NULL.
ASSUME NoneAssumption ==
    None \notin [project : Projects, group : Groups, createdAt : Nat, event : Nat]

VARIABLES
    now,       \* the minute
    recorded,  \* spans_index: errors of a project and group before each minute
    seen,      \* localStorage: names of the jobs added, and when
    jobs,      \* create-error-alert jobs that wait
    alerts,    \* rows of alerts; the row number is the id
    events,    \* rows of alert_events; the row number is the id
    work,      \* each consumer: the job at hand and what it read, or None
    request,   \* a user's request to change the status of an alert, or None
    announce,  \* committed changes whose notifications are to be scheduled
    scheduled, \* how often an event was scheduled for a channel
    notifs,    \* notification jobs that wait
    channels,  \* notif_channels.state
    bursts, changes

vars == <<now, recorded, seen, jobs, alerts, events, work, request, announce,
          scheduled, notifs, channels, bursts, changes>>
store == <<alerts, events>>
notif == <<announce, scheduled, notifs, channels>>
ingest == <<recorded, seen, bursts>>
user == <<request, changes>>

Minutes == 0..(MaxTime + 1)
Errors(p, g) == recorded[<<p, g>>][MaxTime + 1]
Rows == {a \in 1..Len(alerts) : alerts[a] # None}
EventOf(a) == events[alerts[a].event]

-----------------------------------------------------------------------------

Init ==
    /\ now = 0
    /\ recorded = [x \in Projects \X Groups |-> [t \in Minutes |-> 0]]
    /\ seen = {} /\ bursts = 0
    /\ jobs = {}
    /\ alerts = << >> /\ events = << >>
    /\ work = [c \in Consumers |-> None]
    /\ request = None /\ changes = 0
    /\ announce = {} /\ scheduled = [x \in (0..MaxEvents) \X Channels |-> 0] /\ notifs = {}
    /\ channels = [c \in Channels |-> "delivering"]

-----------------------------------------------------------------------------
(* Scheduling.                                                             *)

\* OnceInPeriod names the job after the group and the slot of the period.
JobName(g) == <<g, now \div Period>>

\* n errors are stored in this minute.
Recorded(counts, n) == [t \in Minutes |-> IF t > now THEN counts[t] + n ELSE counts[t]]

\* A batch with an error is stored, and scheduleCreateErrorAlert adds a job
\* unless Exists knows its name.  Exists looks into the cache and then puts the
\* name there without a lock: goroutines at work in the same minute may both
\* miss it.  AddJob may fail, which is only logged; the name stays.
RecordErrors ==
    /\ bursts < MaxBursts
    /\ bursts' = bursts + 1
    /\ \E p \in Projects, g \in Groups : \E n \in Bursts[p] :
        /\ Errors(p, g) + n < MaxErrors
        /\ recorded' = [recorded EXCEPT ![<<p, g>>] = Recorded(@, n)]
        /\ \/ /\ \A x \in seen : x.name = JobName(g) => x.at = now
              /\ seen' = seen \cup {[name |-> JobName(g), at |-> now]}
              /\ \/ jobs' = jobs \cup {[project |-> p, group |-> g, span |-> bursts, time |-> now,
                                        due |-> now + Delay]}
                 \/ UNCHANGED jobs
           \/ /\ \E x \in seen : x.name = JobName(g)
              /\ UNCHANGED <<seen, jobs>>
    /\ UNCHANGED <<now, store, work, user, notif>>

Tick ==
    /\ now < MaxTime
    /\ now' = now + 1
    /\ UNCHANGED <<ingest, jobs, store, work, user, notif>>

-----------------------------------------------------------------------------
(* createErrorAlertHandler.                                                *)

\* What becomes of a job that failed: it is tried again, or dropped.
Retried(job) == {{job}, {}}

\* nextSpanCountThreshold.
nextSpanCountThreshold(n) == Min({m \in Thresholds : m > n})

\* selectMatchingAlert: the alert of the group with the latest event,
\* whichever project it belongs to.
Matching(g) ==
    LET rows == {a \in Rows : alerts[a].group = g}
    IN  {a \in rows : \A b \in rows : EventOf(b).createdAt <= EventOf(a).createdAt}

\* The span cannot be found, and the job is done; or a query fails, and the
\* job may be dropped.
JobDropped(c) ==
    /\ work[c] = None
    /\ \E job \in jobs : job.due <= now /\ jobs' = jobs \ {job}
    /\ UNCHANGED <<now, ingest, store, work, user, notif>>

\* SelectSpan and selectErrorAlert.
SelectErrorAlert(c) ==
    /\ work[c] = None
    /\ \E job \in jobs :
        /\ job.due <= now
        /\ jobs' = jobs \ {job}
        /\ \/ /\ Matching(job.group) = {}
              /\ work' = [work EXCEPT ![c] = [op |-> "create", job |-> job, project |-> job.project,
                                              count |-> 1]]
           \/ \E a \in Matching(job.group) :
                work' = [work EXCEPT ![c] =
                    [op |-> "count", job |-> job, project |-> alerts[a].project, alert |-> a,
                     base |-> alerts[a].event, since |-> alerts[a].createdAt,
                     count |-> EventOf(a).count, status |-> EventOf(a).status]]
    /\ UNCHANGED <<now, ingest, store, user, notif>>

\* countAlertSpans: the spans since the alert was created, the last minute
\* aside.
SpanCount(w) ==
    LET counts == recorded[<<w.job.project, w.job.group>>]
    IN  IF now - 1 > w.since THEN counts[now - 1] - counts[w.since] ELSE 0

\* MUTANT: the threshold does not grow with the count.
CountAlertSpansFlat(c) ==
    /\ work[c] # None /\ work[c].op = "count"
    /\ LET w == work[c]
           triggered == SpanCount(w) >= 100 \/ w.status = "closed"
       IN  work' = [work EXCEPT ![c] = [w EXCEPT !.count = SpanCount(w),
                                                 !.op = IF triggered THEN "repeat" ELSE "update"]]
    /\ UNCHANGED <<now, ingest, jobs, store, user, notif>>

CountAlertSpans(c) ==
    /\ work[c] # None /\ work[c].op = "count"
    /\ LET w == work[c]
           triggered == SpanCount(w) >= nextSpanCountThreshold(w.count) \/ w.status = "closed"
       IN  work' = [work EXCEPT ![c] = [w EXCEPT !.count = SpanCount(w),
                                                 !.op = IF triggered THEN "repeat" ELSE "update"]]
    /\ UNCHANGED <<now, ingest, jobs, store, user, notif>>

\* What createAlertEvent passes to scheduleNotifyOnErrorAlert; the span is
\* looked for in the project of the alert.
Announcement(event, project, spanProject, count) ==
    [event |-> event, project |-> project, found |-> project = spanProject, count |-> count]

\* MUTANT: after a conflict the alert that is there is announced again.
CreateAlertAgain(c) ==
    /\ work[c] # None /\ work[c].op = "create"
    /\ LET job == work[c].job
           same == {a \in Rows : alerts[a].project = job.project /\ alerts[a].group = job.group}
       IN  /\ IF same # {} THEN UNCHANGED store
              ELSE /\ Len(events) < MaxEvents
                   /\ alerts' = Append(alerts, [project |-> job.project, group |-> job.group,
                                                createdAt |-> now, event |-> Len(events) + 1])
                   /\ events' = Append(events, [alert |-> Len(alerts) + 1, name |-> "created",
                                                status |-> "open", count |-> 1,
                                                createdAt |-> job.time])
           /\ announce' = announce \cup
                {Announcement(IF same # {} THEN alerts[CHOOSE a \in same : TRUE].event
                              ELSE Len(events) + 1, job.project, job.project, 1)}
    /\ work' = [work EXCEPT ![c] = None]
    /\ UNCHANGED <<now, ingest, jobs, user, scheduled, notifs, channels>>

\* createAlert: a conflict with an alert of this project and group is taken
\* for success, and the event id stays zero.
CreateAlert(c) ==
    /\ work[c] # None /\ work[c].op = "create"
    /\ LET job == work[c].job
           exists == \E a \in Rows : alerts[a].project = job.project /\ alerts[a].group = job.group
       IN  /\ IF exists THEN UNCHANGED store
              ELSE /\ Len(events) < MaxEvents
                   /\ alerts' = Append(alerts, [project |-> job.project, group |-> job.group,
                                                createdAt |-> now, event |-> Len(events) + 1])
                   /\ events' = Append(events, [alert |-> Len(alerts) + 1, name |-> "created",
                                                status |-> "open", count |-> 1,
                                                createdAt |-> job.time])
           /\ announce' = announce \cup {Announcement(IF exists THEN 0 ELSE Len(events) + 1,
                                                      job.project, job.project, 1)}
    /\ work' = [work EXCEPT ![c] = None]
    /\ UNCHANGED <<now, ingest, jobs, user, scheduled, notifs, channels>>

\* The event that was read is updated in place, if it is still there.
UpdateEvent(c) ==
    /\ work[c] # None /\ work[c].op = "update"
    /\ LET w == work[c]
       IN  events' = IF w.alert \in Rows
                     THEN [events EXCEPT ![w.base].count = w.count,
                                         ![w.base].createdAt = w.job.time]
                     ELSE events
    /\ work' = [work EXCEPT ![c] = None]
    /\ UNCHANGED <<now, ingest, jobs, alerts, user, notif>>

\* InsertAlertEvent and updateAlertEvent: a clone of the event that was read
\* becomes the event of the alert.
PointTo(a, event) ==
    /\ Len(events) < MaxEvents
    /\ events' = Append(events, event)
    /\ alerts' = [alerts EXCEPT ![a].event = Len(events) + 1]

\* MUTANT: the update of the alert is not conditional on event_id.
UnchangedExists(a, base) == a \in Rows

\* updateAlertEvent finds the row only while it points to the event that was
\* read, else "transaction conflict".
Unchanged(a, base) == a \in Rows /\ alerts[a].event = base

\* MUTANT: the event is a clone and keeps the status that was read.
RepeatAlertAsItWas(c) ==
    /\ work[c] # None /\ work[c].op = "repeat"
    /\ LET w == work[c]
       IN  /\ Unchanged(w.alert, w.base)
           /\ PointTo(w.alert,
                      [alert |-> w.alert, name |-> "recurring", status |-> w.status,
                       count |-> w.count, createdAt |-> w.job.time])
           /\ announce' = announce \cup
                {Announcement(Len(events) + 1, w.project, w.job.project, w.count)}
    /\ work' = [work EXCEPT ![c] = None]
    /\ UNCHANGED <<now, ingest, jobs, user, scheduled, notifs, channels>>

\* A recurring event.
RepeatAlert(c) ==
    /\ work[c] # None /\ work[c].op = "repeat"
    /\ LET w == work[c]
       IN  /\ Unchanged(w.alert, w.base)
           /\ PointTo(w.alert,
                      [alert |-> w.alert, name |-> "recurring", status |-> "open",
                       count |-> w.count, createdAt |-> w.job.time])
           /\ announce' = announce \cup
                {Announcement(Len(events) + 1, w.project, w.job.project, w.count)}
    /\ work' = [work EXCEPT ![c] = None]
    /\ UNCHANGED <<now, ingest, jobs, user, scheduled, notifs, channels>>

\* The transaction fails, always when the alert has changed.
WriteFails(c) ==
    /\ work[c] # None /\ work[c].op # "count"
    /\ \E J \in Retried(work[c].job) : jobs' = jobs \cup J
    /\ work' = [work EXCEPT ![c] = None]
    /\ UNCHANGED <<now, ingest, store, user, notif>>

-----------------------------------------------------------------------------
(* The users.                                                              *)

\* AlertHandler.changeAlertStatus reads the alert.
UserSelectAlert ==
    /\ request = None /\ changes < MaxChanges
    /\ \E a \in Rows :
        request' = [alert |-> a, base |-> alerts[a].event, event |-> EventOf(a)]
    /\ changes' = changes + 1
    /\ UNCHANGED <<now, ingest, jobs, store, work, notif>>

\* changeAlertStatus: the other status.
UserChangeStatus ==
    /\ request # None
    /\ Unchanged(request.alert, request.base)
    /\ LET status == IF request.event.status = "open" THEN "closed" ELSE "open"
           p == alerts[request.alert].project
       IN  /\ PointTo(request.alert,
                      [request.event EXCEPT !.name = "status-changed", !.status = status])
           /\ announce' = announce \cup
                {Announcement(Len(events) + 1, p, p, request.event.count)}
    /\ request' = None
    /\ UNCHANGED <<now, ingest, jobs, work, changes, scheduled, notifs, channels>>

UserChangeFails ==
    /\ request # None
    /\ request' = None
    /\ UNCHANGED <<now, ingest, jobs, store, work, changes, notif>>

\* AlertHandler.Delete; the events go with the alert.
UserDeleteAlert ==
    /\ changes < MaxChanges
    /\ \E a \in Rows : alerts' = [alerts EXCEPT ![a] = None]
    /\ changes' = changes + 1
    /\ UNCHANGED <<now, ingest, jobs, events, work, request, notif>>

\* NotifChannelHandler.Pause, Unpause and Delete.
UserChangeChannel ==
    /\ changes < MaxChanges
    /\ \E c \in Channels, state \in {"delivering", "paused", None} :
        /\ Kind[c] # "email" /\ channels[c] \notin {None, state}
        /\ channels' = [channels EXCEPT ![c] = state]
    /\ changes' = changes + 1
    /\ UNCHANGED <<now, ingest, jobs, store, work, request, announce, scheduled, notifs>>

-----------------------------------------------------------------------------
(* Notifications.                                                          *)

\* selectErrorMonitors, the e-mail recipients and the channels: which of them
\* get the notification depends on SpanCount.
Recipients(n) ==
    {c \in IF n.count > 0 THEN OnRecurring[n.project] ELSE OnNew[n.project] :
        channels[c] = "delivering"}

\* scheduleNotifyOnErrorAlert; what fails is only logged.
ScheduleNotify ==
    /\ \E n \in announce :
        /\ announce' = announce \ {n}
        /\ \E C \in SUBSET Recipients(n) :
            /\ n.found \/ C = {}
            /\ scheduled' = [x \in DOMAIN scheduled |->
                                scheduled[x] + IF x[1] = n.event /\ x[2] \in C THEN 1 ELSE 0]
            /\ notifs' = notifs \cup {[event |-> n.event, channel |-> c] : c \in C}
    /\ UNCHANGED <<now, ingest, jobs, store, work, user, channels>>

\* selectAlertWithEvent.
Exists(e) == e # 0 /\ events[e].alert \in Rows

\* NotifyHandler, notifyBySlackHandler and notifyByWebhookHandler when there
\* is nothing to send: a channel that does not deliver, or for e-mail an event
\* that is gone.
NothingToNotify(n) ==
    /\ IF Kind[n.channel] = "email" THEN ~Exists(n.event)
       ELSE Exists(n.event) /\ channels[n.channel] \notin {"delivering", None}
    /\ notifs' = notifs \ {n}
    /\ UNCHANGED <<now, ingest, jobs, store, work, user, announce, scheduled, channels>>

CanNotify(n) == Exists(n.event) /\ channels[n.channel] = "delivering"

Notified(n) ==
    /\ CanNotify(n)
    /\ notifs' = notifs \ {n}
    /\ UNCHANGED <<now, ingest, jobs, store, work, user, announce, scheduled, channels>>

\* Slack answers 404 or its URL cannot be reached: the channel is disabled
\* unless its state has changed.
SlackGone(n) ==
    /\ Kind[n.channel] = "slack" /\ CanNotify(n)
    /\ channels' = [channels EXCEPT ![n.channel] = "disabled"]
    /\ notifs' = notifs \ {n}
    /\ UNCHANGED <<now, ingest, jobs, store, work, user, announce, scheduled>>

\* The event or the channel is gone, a query fails or the other side does not
\* take the message: the job is tried again.
NotifyFails(n) ==
    /\ Kind[n.channel] = "email" => Exists(n.event)
    /\ \E J \in Retried(n) : notifs' = (notifs \ {n}) \cup J
    /\ UNCHANGED <<now, ingest, jobs, store, work, user, announce, scheduled, channels>>

-----------------------------------------------------------------------------

\* The process dies and is started again: the queue delivers the jobs at hand
\* once more.
Restart ==
    /\ changes < MaxChanges /\ changes' = changes + 1
    /\ seen' = {}
    /\ jobs' = jobs \cup {work[c].job : c \in {d \in Consumers : work[d] # None}}
    /\ work' = [c \in Consumers |-> None]
    /\ announce' = {} /\ request' = None
    /\ UNCHANGED <<now, recorded, bursts, store, scheduled, notifs, channels>>

Next ==
    \/ Tick \/ RecordErrors \/ UserSelectAlert \/ UserChangeStatus \/ UserChangeFails \/ UserDeleteAlert
    \/ UserChangeChannel \/ ScheduleNotify \/ Restart
    \/ \E c \in Consumers :
        \/ JobDropped(c) \/ SelectErrorAlert(c) \/ CountAlertSpans(c)
        \/ CreateAlert(c) \/ UpdateEvent(c) \/ RepeatAlert(c) \/ WriteFails(c)
    \/ \E n \in notifs : NothingToNotify(n) \/ Notified(n) \/ SlackGone(n) \/ NotifyFails(n)

Spec == Init /\ [][Next]_vars

-----------------------------------------------------------------------------

\* A repeated alert is worth a notification: if the alert was open, its count
\* has passed the next threshold after the count of its previous event,
\* whichever jobs and users counted, updated and wrote in between.  This is
\* claimed of groups that occur in one project only: the group id and the
\* search for the alert leave the project out, so a job of another project
\* overwrites the count with its own.
RepeatsPassThreshold ==
    \A e \in 1..Len(events) :
        LET f == events[e]
            prev == events[Max({i \in 1..(e - 1) : events[i].alert = f.alert})]
            a == alerts[f.alert]
        IN  f.name = "recurring" /\ f.alert \in Rows /\ prev.status = "open"
                /\ (\A p \in Projects \ {a.project} : Errors(p, a.group) = 0)
            => f.count >= nextSpanCountThreshold(prev.count)

\* However often a job is duplicated, retried or lost in a crash, an alert
\* event is handed to a notification channel at most once: createAlertEvent
\* schedules after its transaction, and only the winner of a race has an event.
AnnouncedOnce == \A x \in DOMAIN scheduled : x[1] # 0 => scheduled[x] <= 1

\* What a reader of the tables sees of the alerts: the status of each, and what
\* its events say.
StatusSeen ==
    [a \in 1..MaxEvents |-> IF a > Len(alerts) THEN "unborn"
                            ELSE IF alerts[a] = None THEN "deleted" ELSE EventOf(a).status]
EventsSeen ==
    [i \in 1..Len(events) |-> [alert |-> events[i].alert, name |-> events[i].name,
                               status |-> events[i].status]]

Life == INSTANCE AlertLife WITH
    Alerts <- 1..MaxEvents, Reminded <- {"open", "closed"},
    status <- StatusSeen, log <- EventsSeen

\* Jobs and users that read, count and commit at different times write what a
\* single writer without a delay might have: each event is true of the alert
\* when it is written, and an error opens the alert again.
LifeImplemented == Life!Spec
=============================================================================
