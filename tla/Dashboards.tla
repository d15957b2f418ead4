---------------------------- MODULE Dashboards ----------------------------
(***************************************************************************)
(* Dashboards made from templates (pkg/metrics/dash_syncer.go): a server   *)
(* makes those of its project when it starts and when a metric appears     *)
(* for the first time, builds the ones again that nobody has changed, and  *)
(* users edit them at the same time (dash_handler.go, dash_gauge_handler.go*)
(* and grid_column_handler.go).                                            *)
(*                                                                         *)
(* A part is a gauge or a column of the grid.  The statements of Save are  *)
(* not one transaction: the one that holds the lock only holds the lock.   *)
(***************************************************************************)
EXTENDS Integers, Sequences, FiniteSets

CONSTANTS
    Syncers,       \* servers
    User,          \* the process of a request that replaces a dashboard by YAML
    Templates,     \* a sequence of templates
    TableMetrics,  \* the metrics of the table of a template
    Gauges,        \* the gauges of a template
    Columns,       \* the columns of the grid of a template
    PartMetrics,   \* the metrics of a part
    MonitorMetrics,\* the metrics of the monitor of a template
    MaxEdits       \* bound: what users do

Metrics == UNION ({TableMetrics[i] : i \in DOMAIN Templates}
                  \cup {MonitorMetrics[i] : i \in DOMAIN Templates}
                  \cup {PartMetrics[x] : x \in DOMAIN PartMetrics})
Savers == Syncers \cup {User}
Tpls == DOMAIN Templates
Free == "free"  \* nobody has the lock

\* The templates are files of the program, of which there are some.
ASSUME TemplatesAssumption == Len(Templates) \in Nat \ {0} /\ Tpls = 1..Len(Templates)
ASSUME SaversAssumption == User \notin Syncers /\ Free \notin Savers

VARIABLES
    metrics,   \* the table of metrics
    dash,      \* the dashboard of each template
    monitors,  \* how many monitors each template has made
    syncLock,  \* pg_try_advisory_xact_lock of the project
    sync,      \* each saver: where it is and what it has read
    jobs,      \* jobs of createDashboardsTask
    late,      \* templates edited after a syncer looked, for the properties
    gaps,      \* how often a dashboard was away but for a sync that finished
    edits

dashVars == <<metrics, dash, monitors, syncLock, sync, jobs, late, gaps, edits>>

\* A dashboard: who named it; whether updated_at differs from created_at; its
\* parts and those of them with an updated_at that differs; and, for the
\* properties, what in it is the work of users.
NoDash == [exists |-> FALSE]
NewDash(name, own) ==
    [exists |-> TRUE, name |-> name, updated |-> FALSE, parts |-> {}, touched |-> {}, own |-> own]

Idle == [pc |-> "idle", job |-> FALSE, todo |-> << >>, metrics |-> {}, old |-> [t \in Tpls |-> NoDash], parts |-> {}]

DashInit ==
    /\ metrics = {} /\ dash = [t \in Tpls |-> NoDash] /\ monitors = [t \in Tpls |-> 0]
    /\ syncLock = Free /\ sync = [p \in Savers |-> Idle]
    /\ jobs = 0 /\ late = {} /\ gaps = [t \in Tpls |-> 0] /\ edits = 0

-----------------------------------------------------------------------------
(* CreateDashboardsHandler.                                                *)

Tpl(p) == Head(sync[p].todo)
Old(p) == sync[p].old[Tpl(p)]

\* The saver has finished, or fails, when the queue has its job again.
Ends(p) ==
    /\ sync' = [sync EXCEPT ![p] = Idle]
    /\ syncLock' = IF syncLock = p THEN Free ELSE syncLock

SaveFails(p) == Ends(p) /\ jobs' = IF sync[p].job THEN jobs + 1 ELSE jobs

\* On to the next template, or the end of the list.
Skips(p) ==
    IF Len(sync[p].todo) = 1 THEN Ends(p)
    ELSE sync' = [sync EXCEPT ![p].todo = Tail(@), ![p].pc = "check"] /\ UNCHANGED syncLock

\* MUTANT: the dashboards are made without the lock of the project.
SyncBeginUnlocked(p, job) ==
    /\ sync[p] = Idle
    /\ sync' = [sync EXCEPT ![p].pc = "read", ![p].job = job]
    /\ jobs' = IF job THEN jobs - 1 ELSE jobs
    /\ UNCHANGED <<metrics, dash, monitors, syncLock, late, gaps, edits>>

\* When the server starts, or for a job.  With the lock taken by another,
\* there is nothing to do.
SyncBegin(p, job) ==
    /\ sync[p] = Idle
    /\ IF syncLock # Free THEN UNCHANGED <<sync, syncLock>>
       ELSE sync' = [sync EXCEPT ![p].pc = "read", ![p].job = job] /\ syncLock' = p
    /\ jobs' = IF job THEN jobs - 1 ELSE jobs
    /\ UNCHANGED <<metrics, dash, monitors, late, gaps, edits>>

\* createDashboards: the metrics and the dashboards are read once.
SyncRead(p) ==
    /\ sync[p].pc = "read"
    /\ sync' = [sync EXCEPT ![p].pc = "check", ![p].todo = [i \in DOMAIN Templates |-> i],
                            ![p].metrics = metrics, ![p].old = dash]
    /\ UNCHANGED <<metrics, dash, monitors, syncLock, jobs, late, gaps, edits>>

\* MUTANT: the gauges and columns are not looked at.
isDashOnlyChanged(old, now) == old.updated

\* isDashChanged: of the dashboard as it was read, and its parts as they are.
isDashChanged(old, now) == old.updated \/ (now.exists /\ now.touched # {})

\* HasMetrics: the parts that are left when those with an unknown metric are
\* taken away; a dashboard needs a column, and all metrics of its table.
PartsWith(t, known) == {x \in Gauges[t] \cup Columns[t] : PartMetrics[x] \subseteq known}
HasMetrics(t, known) == TableMetrics[t] \subseteq known /\ PartsWith(t, known) \cap Columns[t] # {}

SyncCheck(p) ==
    /\ sync[p].pc = "check"
    /\ LET t == Tpl(p)
           known == sync[p].metrics
       IN  IF \/ Old(p).exists /\ isDashChanged(Old(p), dash[t])
              \/ ~HasMetrics(t, known)
           THEN Skips(p)
           ELSE /\ sync' = [sync EXCEPT ![p].pc = IF Old(p).exists THEN "delete" ELSE "insert",
                                        ![p].parts = PartsWith(t, known)]
                /\ UNCHANGED syncLock
    /\ UNCHANGED <<metrics, dash, monitors, jobs, late, gaps, edits>>

-----------------------------------------------------------------------------
(* Save.                                                                   *)

\* What a saver writes is the work of a user, or of the program.
Own(p) == IF p = User THEN {"yaml"} ELSE {}

\* A syncer has read dashboard t, or looked at its parts, and will save it.
HasRead(t) == \E p \in Syncers : t \in {sync[p].todo[i] : i \in DOMAIN sync[p].todo}
HasLooked(t) == \E p \in Syncers : sync[p].pc \notin {"idle", "read", "check"} /\ Tpl(p) = t

\* The parts go with the dashboard.
SaveDelete(p) ==
    /\ sync[p].pc = "delete"
    /\ dash' = [dash EXCEPT ![Tpl(p)] = NoDash]
    /\ sync' = [sync EXCEPT ![p].pc = "insert"]
    /\ UNCHANGED <<metrics, monitors, syncLock, jobs, late, gaps, edits>>

\* InsertDashboard does nothing on a conflict; the id is then that of the old
\* dashboard, if there was one, and the parts cannot be stored without one.
\* A sync keeps the name of the old dashboard; YAML brings its own.
SaveInsert(p) ==
    /\ sync[p].pc = "insert"
    /\ IF dash[Tpl(p)].exists
       THEN /\ IF ~Old(p).exists THEN SaveFails(p)
               ELSE sync' = [sync EXCEPT ![p].pc = "gauges"] /\ UNCHANGED <<syncLock, jobs>>
            /\ UNCHANGED dash
       ELSE /\ dash' = [dash EXCEPT ![Tpl(p)] =
                           NewDash(IF p = User THEN "user"
                                   ELSE IF Old(p).exists THEN Old(p).name ELSE "template", Own(p))]
            /\ sync' = [sync EXCEPT ![p].pc = "gauges"]
            /\ UNCHANGED <<syncLock, jobs>>
    /\ late' = IF p = User /\ HasRead(Tpl(p)) THEN late \cup {Tpl(p)} ELSE late
    /\ UNCHANGED <<metrics, monitors, gaps, edits>>

\* InsertDashGauges, then InsertGridColumns; a dashboard that a user deleted
\* makes them fail.
SaveParts(p, from, kind, to) ==
    /\ sync[p].pc = from
    /\ LET new == sync[p].parts \cap kind[Tpl(p)]
       IN  IF new # {} /\ ~dash[Tpl(p)].exists THEN SaveFails(p) /\ UNCHANGED dash
           ELSE /\ dash' = IF new = {} THEN dash ELSE [dash EXCEPT ![Tpl(p)].parts = @ \cup new, ![Tpl(p)].own = @ \cup Own(p)]
                /\ sync' = [sync EXCEPT ![p].pc = to]
                /\ UNCHANGED <<syncLock, jobs>>
    /\ UNCHANGED <<metrics, monitors, late, gaps, edits>>

\* The monitors of a template are made with its first dashboard.
SaveMonitors(p) ==
    /\ sync[p].pc = "monitors"
    /\ monitors' = IF ~Old(p).exists /\ MonitorMetrics[Tpl(p)] \subseteq sync[p].metrics
                   THEN [monitors EXCEPT ![Tpl(p)] = @ + 1] ELSE monitors
    /\ Skips(p)
    /\ UNCHANGED <<metrics, dash, jobs, late, gaps, edits>>

SyncStep(p) ==
    \/ SyncRead(p) \/ SyncCheck(p) \/ SaveDelete(p) \/ SaveInsert(p)
    \/ SaveParts(p, "gauges", Gauges, "columns") \/ SaveParts(p, "columns", Columns, "monitors")
    \/ SaveMonitors(p)

\* The server stops in the middle.
SyncCut(p) ==
    /\ SaveFails(p)
    /\ gaps' = [t \in Tpls |-> IF sync[p].todo # << >> /\ t = Tpl(p)
                                  /\ sync[p].pc \in {"insert", "gauges", "columns", "monitors"}
                               THEN gaps[t] + 1 ELSE gaps[t]]
    /\ UNCHANGED <<metrics, dash, monitors, late, edits>>

-----------------------------------------------------------------------------
(* Metrics and users.                                                      *)

\* UpsertMetrics: a metric that is new asks for a job, which comes when the
\* period in which no other is taken is over.
NewMetric(m) ==
    /\ m \notin metrics
    /\ metrics' = metrics \cup {m}
    /\ jobs' = jobs + 1
    /\ UNCHANGED <<dash, monitors, syncLock, sync, late, gaps, edits>>

Edits(t, seen, new) ==
    /\ edits < MaxEdits /\ edits' = edits + 1
    /\ dash[t].exists
    /\ dash' = [dash EXCEPT ![t] = new]
    /\ late' = IF seen THEN late \cup {t} ELSE late
    /\ UNCHANGED <<metrics, monitors, syncLock, sync, jobs>>

\* Update of a gauge and of a column, which set updated_at.
EditPart(t, kind) ==
    /\ dash[t].exists
    /\ \E x \in dash[t].parts \cap kind[t] :
        Edits(t, HasLooked(t), [dash[t] EXCEPT !.touched = @ \cup {x}, !.own = @ \cup {"parts"}])
    /\ UNCHANGED gaps

EditGauge(t) == EditPart(t, Gauges)
EditColumn(t) == EditPart(t, Columns)

\* UpdateTable sets updated_at; Update, with a name or a query, does not.
EditTable(t) ==
    Edits(t, HasRead(t), [dash[t] EXCEPT !.updated = TRUE, !.own = @ \cup {"table"}]) /\ UNCHANGED gaps
Rename(t) == Edits(t, HasRead(t), [dash[t] EXCEPT !.name = "user"]) /\ UNCHANGED gaps

\* Pin, and the other edits that leave updated_at alone: of the interval and
\* the order, and parts that are new or deleted.
Pin(t) == Edits(t, FALSE, [dash[t] EXCEPT !.own = @ \cup {"pin"}]) /\ UNCHANGED gaps

DeleteDash(t) ==
    /\ Edits(t, FALSE, NoDash)
    /\ gaps' = [gaps EXCEPT ![t] = @ + 1]

\* FromYAML: Save of what the user wrote, without a lock and without a look at
\* what has changed.  Build gives all of it created_at = updated_at, as it does
\* for a template: to the next sync nobody has edited it.
FromYAML(t) ==
    /\ sync[User] = Idle /\ dash[t].exists /\ edits < MaxEdits
    /\ edits' = edits + 1
    /\ \E parts \in SUBSET (Gauges[t] \cup Columns[t]) :
        sync' = [sync EXCEPT ![User] = [Idle EXCEPT !.pc = "delete", !.todo = <<t>>, !.old = dash,
                                                    !.parts = parts]]
    /\ gaps' = [gaps EXCEPT ![t] = @ + 1]
    /\ UNCHANGED <<metrics, dash, monitors, syncLock, jobs, late>>

UserStep(t) ==
    \/ EditGauge(t) \/ EditColumn(t) \/ EditTable(t) \/ Rename(t) \/ Pin(t)
    \/ DeleteDash(t) \/ FromYAML(t)

-----------------------------------------------------------------------------
(* Properties.                                                             *)

\* Work of users that leaves no trace in updated_at and is lost in the next
\* sync: a dashboard written in YAML that nobody has edited since, and pins,
\* intervals, the order and parts that are new or deleted.
Unmarked == {"yaml", "pin"}

\* A server that builds a dashboard again takes no edit of its table or its
\* parts away, and keeps the name a user gave it, if the user was done before
\* the server looked (isDashChanged and the copy of the name; later edits are
\* lost).  Of the work of users only the unmarked goes, with nothing else on it.
EditsKept ==
    [][\A p \in Syncers :
        /\ sync[p].pc = "delete" /\ sync'[p].pc = "insert" =>
            LET d == dash[Tpl(p)]
            IN  d.exists /\ (~(d.own \subseteq Unmarked) \/ d.name # Old(p).name) => Tpl(p) \in late
        /\ sync[p].pc = "insert" /\ sync'[p].pc = "gauges" /\ ~dash[Tpl(p)].exists /\ Old(p).exists =>
            dash'[Tpl(p)].name = Old(p).name]_dashVars

\* A template makes its monitors once, whatever servers start and jobs run at
\* the same time; once more only if its dashboard was deleted or replaced by a
\* user, or a server stopped while it was saving (Save, and the lock of
\* CreateDashboardsHandler).
MonitorsOnce == \A t \in Tpls : monitors[t] <= 1 + gaps[t]

=============================================================================
