------------------------------ MODULE AlertLife ------------------------------
(***************************************************************************)
(* What the alerts of a project promise to whoever reads their events,     *)
(* whatever writes them: an alert is created open, each event says what    *)
(* became of it and is the truth at the moment it is written, nothing is   *)
(* said of an alert that is gone and it never comes back.  There are no    *)
(* goroutines, no rows and no transactions here.                           *)
(***************************************************************************)
EXTENDS Sequences

CONSTANTS
    Alerts,    \* alerts that may ever exist
    Reminded   \* the statuses in which an alert may recur

VARIABLES
    status,    \* of each alert: "unborn", "open", "closed" or "deleted"
    log        \* the events, as they were written

vars == <<status, log>>

Live == {a \in Alerts : status[a] \in {"open", "closed"}}

Init ==
    /\ status = [a \in Alerts |-> "unborn"]
    /\ log = << >>

\* Alert a becomes s, and an event says so.
Say(a, name, s) ==
    /\ log' = Append(log, [alert |-> a, name |-> name, status |-> s])
    /\ status' = [status EXCEPT ![a] = s]

Create(a) == status[a] = "unborn" /\ Say(a, "created", "open")

\* A status-changed event is about a change.
Change(a) ==
    /\ a \in Live
    /\ Say(a, "status-changed", IF status[a] = "open" THEN "closed" ELSE "open")

Recur(a) == a \in Live /\ status[a] \in Reminded /\ Say(a, "recurring", "open")

\* Alerts are deleted together when what they belong to is deleted.
Delete(S) ==
    /\ S \subseteq Live
    /\ UNCHANGED log
    /\ status' = [a \in Alerts |-> IF a \in S THEN "deleted" ELSE status[a]]

Next ==
    \/ \E S \in SUBSET Alerts : Delete(S)
    \/ \E a \in Alerts : Create(a) \/ Change(a) \/ Recur(a)

Spec == Init /\ [][Next]_vars
=============================================================================
