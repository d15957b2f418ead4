--------------------------- MODULE MCMetricAlerts ---------------------------
(* Two series of two monitors, or of one, and one user.                    *)
EXTENDS MetricAlerts, TLC

CONSTANTS m1, m2, s1, s2

OneMonitor == (s1 :> m1)
TwoMonitors == (s1 :> m1) @@ (s2 :> m2)

\* Five events are a new alert, two reminders and the changes of status between
\* them.  Behind the second event, and in the last minute, the alert is the
\* first one, its monitor is on and every event was announced, as reminders have
\* it; what fails, is paused or deleted does so before.
Late == now = MaxTime \/ Len(events) > 2
Calm == Late => /\ gaveUp = {}
                /\ \A m \in Monitors : monitors[m] \in {"active", "firing"}
                /\ \A i \in 1..Len(events) : events[i].alert = 1
=============================================================================
