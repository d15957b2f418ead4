--------------------------- MODULE MigrationLog ---------------------------
(***************************************************************************)
(* What the table of migrations promises: a log that grows and shrinks at  *)
(* its end.  It is ordered by groups, and by names in a group.  A          *)
(* migration is applied after all others, in the last group or in the next *)
(* one, and only the last one is undone.                                   *)
(***************************************************************************)
EXTENDS Naturals

CONSTANT Migrations

VARIABLE log     \* the group of each migration that is applied

Init == log = [m \in {} |-> 0]

Names == DOMAIN log

\* Migration m, in group g, comes after all that are applied.
After(m, g) == \A x \in Names : log[x] < g \/ (log[x] = g /\ x < m)

\* There is no empty group before g.
NextGroup(g) == g = 1 \/ \E x \in Names : log[x] \in {g - 1, g}

Apply(m) ==
    /\ m \notin Names
    /\ DOMAIN log' = Names \cup {m}
    /\ \A x \in Names : log'[x] = log[x]
    /\ After(m, log'[m]) /\ NextGroup(log'[m])

Undo(m) ==
    /\ m \in Names
    /\ \A x \in Names \ {m} : log[x] < log[m] \/ (log[x] = log[m] /\ x < m)
    /\ log' = [x \in Names \ {m} |-> log[x]]

Next == \E m \in Migrations : Apply(m) \/ Undo(m)

Spec == Init /\ [][Next]_log

=============================================================================
