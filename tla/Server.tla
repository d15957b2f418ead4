------------------------------ MODULE Server ------------------------------
(***************************************************************************)
(* How servers start and stop (serve in cmd/uptrace/main.go): each one     *)
(* migrates ClickHouse under the global lock, creates its project and the  *)
(* monitor that comes with it, makes the dashboards and then serves: takes *)
(* metrics in and runs jobs.  An operator migrates between two starts.     *)
(***************************************************************************)
EXTENDS Migrator, Dashboards

ASSUME ServersAssumption == Syncers = Servers

VARIABLES
    stage,    \* how far each server is
    project,  \* whether the project was inserted
    defaults  \* the monitors "Notify on all errors" of the project

serverVars == <<stage, project, defaults>>
vars == <<migratorVars, dashVars, serverVars>>

Init ==
    /\ MigratorInit /\ DashInit
    /\ stage = [p \in Servers |-> "migrate"] /\ project = FALSE /\ defaults = 0

Stage(p, from, to) == stage[p] = from /\ stage' = [stage EXCEPT ![p] = to]

Running(p) == stage[p] # "migrate" \/ proc[p] # Off

\* initClickhouse, and the commands.
Migrates(p) ==
    /\ MigratorStep(p) \/ (p \in Servers /\ stage[p] = "migrate" /\ (StartServer(p) \/ TakeLock(p)))
    /\ UNCHANGED <<dashVars, serverVars>>

Commands ==
    /\ \A p \in Servers : ~Running(p)
    /\ EndCommand \/ \E cmd \in {"migrate", "rollback", "reset"} : StartCommand(cmd)
    /\ UNCHANGED <<dashVars, serverVars>>

\* createProject: the monitor is inserted if created_at is that of this insert.
createProject(p) ==
    /\ proc[p].pc = "done"
    /\ Stage(p, "migrate", IF project THEN "dashboards" ELSE "monitor")
    /\ project' = TRUE
    /\ UNCHANGED <<migratorVars, dashVars, defaults>>

InsertErrorMonitor(p) ==
    /\ Stage(p, "monitor", "dashboards")
    /\ defaults' = defaults + 1
    /\ UNCHANGED <<migratorVars, dashVars, project>>

\* syncDashboards: its errors do not keep the server from serving.
syncDashboards(p) ==
    /\ Stage(p, "dashboards", "syncing")
    /\ SyncBegin(p, FALSE)
    /\ UNCHANGED <<migratorVars, project, defaults>>

Serves(p) ==
    /\ sync[p] = Idle /\ Stage(p, "syncing", "serving")
    /\ UNCHANGED <<migratorVars, dashVars, project, defaults>>

\* The consumer of the queue takes a job of createDashboardsTask.
TakeJob(p) ==
    /\ stage[p] = "serving" /\ jobs > 0 /\ SyncBegin(p, TRUE)
    /\ UNCHANGED <<migratorVars, serverVars>>

Saves(p) == SyncStep(p) /\ UNCHANGED <<migratorVars, serverVars>>

ReceiveMetric ==
    /\ \E p \in Servers : stage[p] = "serving"
    /\ \E m \in Metrics : NewMetric(m)
    /\ UNCHANGED <<migratorVars, serverVars>>

UserEdits ==
    /\ \E p \in Servers : stage[p] = "serving"
    /\ \E t \in Tpls : UserStep(t)
    /\ UNCHANGED <<migratorVars, serverVars>>

\* The server stops or dies, at any point; a request of a user that it serves
\* is taken to be served by another.
Crash(p) ==
    /\ Running(p) /\ MigratorCrash(p)
    /\ SyncCut(p)
    /\ stage' = [stage EXCEPT ![p] = "migrate"]
    /\ UNCHANGED <<project, defaults>>

CommandCrash == MigratorCrash(Operator) /\ UNCHANGED <<dashVars, serverVars>>

Next ==
    \/ \E p \in Servers :
        \/ createProject(p) \/ InsertErrorMonitor(p) \/ syncDashboards(p) \/ Serves(p) \/ TakeJob(p)
        \/ Crash(p)
    \/ \E p \in Processes : Migrates(p)
    \/ \E p \in Savers : Saves(p)
    \/ Commands \/ CommandCrash \/ ReceiveMetric \/ UserEdits

Spec == Init /\ [][Next]_vars

=============================================================================
