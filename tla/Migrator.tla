----------------------------- MODULE Migrator -----------------------------
(***************************************************************************)
(* ClickHouse migrations: chmigrate.Migrator as the server runs it when it *)
(* starts (cmd/uptrace/main.go), under a lock of PostgreSQL, and as the    *)
(* commands of an operator run it (cmd/uptrace/command/ch.go), without.    *)
(*                                                                         *)
(* The name of a migration is its time, here a number.  A mark is a row of *)
(* ch_migrations, which ClickHouse collapses by its sign.                  *)
(***************************************************************************)
EXTENDS Integers, Sequences, FiniteSets, SequencesExt

CONSTANTS
    Servers,    \* processes that serve
    Operator,   \* the process of the commands
    Latest,     \* the migrations of the latest version are 1..Latest
    Known,      \* the migrations each process has, by its version
    MaxRetries, \* how often DB.insert tries again (Config.MaxRetries)
    MaxCommands,\* bound: commands of the operator
    MaxFaults   \* bound: crashes, and statements that fail or are tried again

Migrations == 1..Latest
Processes == Servers \cup {Operator}
NoOne == "no one"

ASSUME VersionsAssumption ==
    /\ Latest \in Nat \ {0}
    /\ Known \in [Processes -> (SUBSET Migrations) \ {{}}]
    /\ Known[Operator] = Migrations
ASSUME RetriesAssumption == MaxRetries \in Nat
ASSUME NamesAssumption == NoOne \notin Processes /\ Operator \notin Servers

VARIABLES
    marks,   \* the rows of each migration, see NoRows
    schema,  \* what each migration has made of the database
    lock,    \* who holds the global lock
    proc,    \* each process: where it is, the migrations before it, their group
    torn,    \* migrations that were unmarked but not undone, for the properties
    commands,
    faults

migratorVars == <<marks, schema, lock, proc, torn, commands, faults>>

\* What CollapsingMergeTree needs of the rows of a migration: how many have
\* sign 1 and sign -1, the group of the last and of the first of them, and
\* the sign of the last row.
NoRows == [state |-> 0, cancel |-> 0, stateGroup |-> 0, cancelGroup |-> 0, newest |-> 0]

Off == [pc |-> "off", cmd |-> "none", todo |-> << >>, group |-> 0]
Done == [Off EXCEPT !.pc = "done"]

MigratorInit ==
    /\ marks = [m \in Migrations |-> NoRows]
    /\ schema = [m \in Migrations |-> "absent"]
    /\ lock = NoOne /\ proc = [p \in Processes |-> Off]
    /\ torn = {} /\ commands = 0 /\ faults = 0

-----------------------------------------------------------------------------
(* The table of migrations.                                                *)

\* A row of the table, stored k times.
Insert(m, sign, group, k) ==
    LET row == marks[m]
    IN  marks' = [marks EXCEPT ![m] =
            IF k = 0 THEN row
            ELSE IF sign = 1
            THEN [row EXCEPT !.state = row.state + k, !.stateGroup = group, !.newest = 1]
            ELSE [row EXCEPT !.cancel = row.cancel + k, !.newest = -1,
                             !.cancelGroup = IF row.cancel = 0 THEN group ELSE row.cancelGroup]]

\* The table read with FINAL: a row is left unless as many have sign 1 as have
\* sign -1 and the last one has sign -1.  AppliedMigrations takes it for an
\* applied migration, whatever its sign.
IsApplied(m) == marks[m].state # marks[m].cancel \/ marks[m].newest = 1
Applied == {m \in Migrations : IsApplied(m)}
GroupOf(m) ==
    IF marks[m].state < marks[m].cancel THEN marks[m].cancelGroup ELSE marks[m].stateGroup

LastGroupID(ms) == LET ids == {GroupOf(m) : m \in ms} \cup {0} IN CHOOSE id \in ids : \A x \in ids : x <= id

Ascending(ms) ==
    [i \in 1..Cardinality(ms) |-> CHOOSE m \in ms : Cardinality({x \in ms : x < m}) = i - 1]

\* MUTANT: the migrations are taken in the order they are found.
UnappliedUnsorted(p) == Reverse(Ascending(Known[p] \ Applied))

\* Unapplied, in ascending order.
Unapplied(p) == Ascending(Known[p] \ Applied)

\* LastGroup: over the migrations the process knows, the last one first.
LastGroup(p) ==
    LET applied == Applied \cap Known[p]
    IN  Reverse(Ascending({m \in applied : GroupOf(m) = LastGroupID(applied)}))

\* MissingMigrations: applied ones that the process does not know.
MissingMigrations(p) == Applied \ Known[p]

-----------------------------------------------------------------------------
\* The process goes on, stops when it has nothing left or fails; the lock ends
\* with the transaction.
Go(p, rec) ==
    /\ proc' = [proc EXCEPT ![p] = rec]
    /\ lock' = IF rec \in {Off, Done} /\ lock = p THEN NoOne ELSE lock

Fails(p) == faults < MaxFaults /\ faults' = faults + 1 /\ Go(p, Off)

\* How DB.insert ends when the row was stored k times: it tries again after an
\* error that does not say whether the row was stored, and may end with one.
Stored(p, k, rec) ==
    \/ k = 1 /\ Go(p, rec) /\ UNCHANGED faults
    \/ k > 1 /\ faults < MaxFaults /\ faults' = faults + 1 /\ Go(p, rec)
    \/ Fails(p)

Quiet == proc[Operator] = Off

\* serve, up to WithGlobalLock.
StartServer(p) ==
    /\ proc[p] = Off /\ Quiet
    /\ Go(p, [Off EXCEPT !.pc = "wait", !.cmd = "serve"])
    /\ UNCHANGED <<marks, schema, torn, commands, faults>>

\* MUTANT: the migrations run without the lock.
TakeNoLock(p) ==
    /\ proc[p].pc = "wait"
    /\ proc' = [proc EXCEPT ![p].pc = "read"]
    /\ UNCHANGED <<marks, schema, lock, torn, commands, faults>>

\* WithGlobalLock: pg_advisory_xact_lock.
TakeLock(p) ==
    /\ proc[p].pc = "wait" /\ lock = NoOne
    /\ proc' = [proc EXCEPT ![p].pc = "read"]
    /\ lock' = p
    /\ UNCHANGED <<marks, schema, torn, commands, faults>>

\* ch migrate, ch rollback and ch reset; the operator gives them one at a time
\* and starts no server meanwhile, as nothing else keeps them apart.
StartCommand(cmd) ==
    /\ proc[Operator] = Off /\ commands < MaxCommands
    /\ \A p \in Servers : proc[p].pc \in {"off", "done"}
    /\ commands' = commands + 1
    /\ Go(Operator, [Off EXCEPT !.pc = "read", !.cmd = cmd])
    /\ UNCHANGED <<marks, schema, torn, faults>>

\* runCHMigrations and Migrate: a server that misses a migration gives up.
ReadMigrations(p) ==
    /\ proc[p].pc = "read" /\ proc[p].cmd \in {"serve", "migrate"}
    /\ IF proc[p].cmd = "serve" /\ MissingMigrations(p) # {} THEN Go(p, Off)
       ELSE IF Unapplied(p) = << >> THEN Go(p, Done)
       ELSE Go(p, [proc[p] EXCEPT !.pc = "mark", !.todo = Unapplied(p),
                                  !.group = LastGroupID(Applied) + 1])
    /\ UNCHANGED <<marks, schema, torn, commands, faults>>

\* MarkApplied: before the migration runs, as markAppliedOnSuccess is off.
MarkApplied(p) ==
    /\ proc[p].pc = "mark"
    /\ \E k \in 0..(MaxRetries + 1) :
        /\ Insert(Head(proc[p].todo), 1, proc[p].group, k)
        /\ Stored(p, k, [proc[p] EXCEPT !.pc = "up"])
    /\ UNCHANGED <<schema, torn, commands>>

\* Exec: the statements of a migration are not one transaction.  The first
\* one fails if what it makes is there.
UpBegins(p) ==
    /\ proc[p].pc = "up"
    /\ LET m == Head(proc[p].todo)
       IN  \/ /\ schema[m] = "absent"
              /\ schema' = [schema EXCEPT ![m] = "partial"]
              /\ Go(p, [proc[p] EXCEPT !.pc = "upping"])
              /\ UNCHANGED faults
           \/ schema[m] # "absent" /\ Go(p, Off) /\ UNCHANGED <<schema, faults>>
           \/ schema[m] = "absent" /\ Fails(p) /\ UNCHANGED schema
    /\ UNCHANGED <<marks, torn, commands>>

UpEnds(p) ==
    /\ proc[p].pc = "upping"
    /\ LET m == Head(proc[p].todo)
           rest == Tail(proc[p].todo)
       IN  \/ /\ schema' = [schema EXCEPT ![m] = "present"]
              /\ Go(p, IF rest = << >> THEN Done ELSE [proc[p] EXCEPT !.todo = rest, !.pc = "mark"])
              /\ UNCHANGED faults
           \/ Fails(p) /\ UNCHANGED schema
    /\ UNCHANGED <<marks, torn, commands>>

\* Rollback, which reset repeats until no group is left.
ReadLastGroup(p) ==
    /\ proc[p].pc = "read" /\ proc[p].cmd \in {"rollback", "reset"}
    /\ IF LastGroup(p) # << >> THEN Go(p, [proc[p] EXCEPT !.pc = "unmark", !.todo = LastGroup(p)])
       ELSE IF proc[p].cmd = "reset" THEN Go(p, [proc[p] EXCEPT !.pc = "drop"])
       ELSE Go(p, Off)
    /\ UNCHANGED <<marks, schema, torn, commands, faults>>

\* MarkUnapplied: before the migration is undone.
MarkUnapplied(p) ==
    /\ proc[p].pc = "unmark"
    /\ LET m == Head(proc[p].todo)
       IN  \E k \in 0..(MaxRetries + 1) :
            /\ Insert(m, -1, GroupOf(m), k)
            /\ torn' = IF k = 0 THEN torn ELSE torn \cup {m}
            /\ Stored(p, k, [proc[p] EXCEPT !.pc = "down"])
    /\ UNCHANGED <<schema, commands>>

\* Down, whose statements drop what is there.
Down(p) ==
    /\ proc[p].pc = "down"
    /\ LET m == Head(proc[p].todo)
           rest == Tail(proc[p].todo)
           next == IF rest # << >> THEN "unmark" ELSE IF proc[p].cmd = "reset" THEN "read" ELSE "off"
       IN  \/ /\ schema' = [schema EXCEPT ![m] = "absent"]
              /\ torn' = torn \ {m}
              /\ Go(p, IF next = "off" THEN Off ELSE [proc[p] EXCEPT !.todo = rest, !.pc = next])
              /\ UNCHANGED faults
           \/ /\ schema' = [schema EXCEPT ![m] = IF @ = "present" THEN "partial" ELSE @]
              /\ Fails(p) /\ UNCHANGED torn
    /\ UNCHANGED <<marks, commands>>

\* Reset: the table is dropped and made again; then the command migrates.
DropTable(p) ==
    /\ proc[p].pc = "drop"
    /\ marks' = [m \in Migrations |-> NoRows]
    /\ Go(p, [proc[p] EXCEPT !.pc = "read", !.cmd = "migrate"])
    /\ UNCHANGED <<schema, torn, commands, faults>>

\* A command has ended.
EndCommand ==
    /\ proc[Operator].pc = "done"
    /\ Go(Operator, Off)
    /\ UNCHANGED <<marks, schema, torn, commands, faults>>

\* The process ends, and its transaction with it.
MigratorCrash(p) ==
    /\ proc[p] # Off /\ faults < MaxFaults
    /\ faults' = faults + 1
    /\ Go(p, Off)
    /\ UNCHANGED <<marks, schema, torn, commands>>

MigratorStep(p) ==
    \/ ReadMigrations(p) \/ MarkApplied(p) \/ UpBegins(p) \/ UpEnds(p)
    \/ ReadLastGroup(p) \/ MarkUnapplied(p) \/ Down(p) \/ DropTable(p)

MigratorNext ==
    \/ \E p \in Servers : StartServer(p) \/ TakeLock(p)
    \/ \E p \in Processes : MigratorStep(p) \/ MigratorCrash(p)
    \/ \E cmd \in {"migrate", "rollback", "reset"} : StartCommand(cmd)
    \/ EndCommand

-----------------------------------------------------------------------------
(* Properties.                                                             *)

\* A migration is run only where nothing of it is there: servers that start
\* together, crash and start again never run one twice, unless the attempt to
\* undo it was cut off after it was unmarked (WithGlobalLock, and the mark
\* that comes before Up).
UpOnce ==
    \A p \in Processes : proc[p].pc = "up" =>
        LET m == Head(proc[p].todo) IN schema[m] = "absent" \/ m \in torn

AppliedLog == [m \in Applied |-> GroupOf(m)]

Log == INSTANCE MigrationLog WITH log <- AppliedLog

\* Every mark is in the table once more than its cancellation, or as often.
MarkedOnce == \A m \in Migrations :
    marks[m].state = marks[m].cancel + IF marks[m].newest = 1 THEN 1 ELSE 0

\* The table implements a log: whoever migrates, rolls back, fails or crashes,
\* marks are added and cancelled at its end only, so that Rollback undoes what
\* was applied last, in the opposite order (Migrate, Rollback), as long as no
\* retry stores a mark twice.  One that does may leave a migration applied that
\* was rolled back, but nothing is added anywhere but at the end.
LogImplemented ==
    Log!Init /\ [][Log!Next \/ (~(MarkedOnce /\ MarkedOnce') /\ Applied' \subseteq Applied)]_AppliedLog

=============================================================================
