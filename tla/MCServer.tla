------------------------------ MODULE MCServer ------------------------------
(* Two versions of the server, of which the older one lacks a migration that *)
(* comes before its own, and a dashboard with a gauge of a second metric.    *)
EXTENDS Server

MCServers == {"old", "new"}
MCKnown == [p \in MCServers \cup {"operator"} |-> IF p = "old" THEN {2} ELSE {1, 2}]
MCTemplates == <<"redis", "pool">>
MCTableMetrics == <<{}, {"m1"}>>
MCGauges == <<{"memory"}, {}>>
MCColumns == <<{"keys"}, {"used"}>>
MCPartMetrics == [memory |-> {"m2"}, keys |-> {"m1"}, used |-> {"m1"}]
MCMonitorMetrics == <<{"m1"}, {"m2"}>>

\* The operator gives commands before the first metric arrives, or never; after
\* it, a server fails or a user edits, while one server is there or two serve, or
\* edits twice if one is all.  A reset of what was cancelled twice never ends.
MCPhases ==
    /\ \A m \in Migrations : marks[m].cancel <= 3
    /\ sync["user"] # Idle => MCColumns[Head(sync["user"].todo)] \subseteq sync["user"].parts
    /\ \/ metrics = {}
       \/ /\ commands = 0
          /\ faults + edits <= IF faults = 0 /\ ~Running("old") THEN 2 ELSE 1
          /\ edits > 0 /\ Running("old") => \A p \in Servers : stage[p] = "serving"
=============================================================================
