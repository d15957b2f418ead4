------------------------------ MODULE CallStore ------------------------------
(***************************************************************************)
(* What a store of calls promises to those who give it spans: it remembers *)
(* each end of a call that it takes until it has the other end too, and    *)
(* reports the call then, once.  It has no size and no clock: a span that  *)
(* it refuses it does not take.                                            *)
(***************************************************************************)
EXTENDS Naturals, Sequences

CONSTANT Keys    \* calls

VARIABLES
    pending,  \* the ends of each call that are known, none after a report
    taken,    \* how often each end was taken
    calls     \* the calls that were reported

vars == <<pending, taken, calls>>

Ends == {"client", "server"}

Init ==
    /\ pending = [k \in Keys |-> {}]
    /\ taken = [k \in Keys |-> [client |-> 0, server |-> 0]]
    /\ calls = << >>

\* A span tells one end of call k, or both.
Take(k, ends) ==
    /\ taken' = [taken EXCEPT ![k].client = @ + (IF "client" \in ends THEN 1 ELSE 0),
                              ![k].server = @ + (IF "server" \in ends THEN 1 ELSE 0)]
    /\ LET known == pending[k] \cup ends
       IN  \/ /\ known # Ends
              /\ pending' = [pending EXCEPT ![k] = known]
              /\ UNCHANGED calls
           \/ /\ known = Ends
              /\ pending' = [pending EXCEPT ![k] = {}]
              /\ calls' = Append(calls, k)

Next == \E k \in Keys, ends \in (SUBSET Ends) \ {{}} : Take(k, ends)

Spec == Init /\ [][Next]_vars
=============================================================================
