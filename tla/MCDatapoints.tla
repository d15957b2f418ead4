---------------------------- MODULE MCDatapoints ----------------------------
(* An integer counter that starts again with a new start time, a Prometheus *)
(* counter of the same metric that starts again unnoticed, a histogram and  *)
(* a gauge.                                                                 *)
EXTENDS Datapoints, TLC

MCSeries == {"requests", "jobs", "latency", "heap"}
MCMetricOf == [s \in MCSeries |-> IF s = "jobs" THEN "requests" ELSE s]
MCAttrs == [s \in MCSeries |-> CASE s = "requests" -> [service |-> "a", env |-> "x"]
                                 [] s = "jobs" -> [service_name |-> "b", service |-> "a"]
                                 [] OTHER -> [host |-> "h"]]
MCAttrNames == <<[canonical |-> "deployment.environment", alts |-> <<"environment", "env">>],
                 [canonical |-> "service.name", alts |-> <<"service_name", "service">>]>>
MCSource == [s \in MCSeries |-> CASE s = "requests" -> "sum-int" [] s = "jobs" -> "prom-counter"
                                  [] s = "latency" -> "histogram" [] OTHER -> "gauge"]
MCTotal == [s \in MCSeries |-> CASE s = "requests" -> <<2, 3, 5>> [] s = "jobs" -> <<2, 3>>
                                 [] s = "latency" -> <<1, 4>> [] OTHER -> <<1>>]
MCValue == [MCTotal EXCEPT !["requests"][3] = 1, !["jobs"][2] = 1]
MCStart == [s \in MCSeries |-> CASE s = "requests" -> <<1, 1, 3>> [] s = "jobs" -> <<0, 0>>
                                 [] s = "latency" -> <<1, 1>> [] OTHER -> <<0>>]
MCSymmetry == Permutations(Workers)
=============================================================================
