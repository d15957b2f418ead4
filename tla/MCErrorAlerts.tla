--------------------------- MODULE MCErrorAlerts ---------------------------
(* Error alerts of two projects that share an error group.                 *)
EXTENDS ErrorAlerts, TLC

CONSTANTS p1, p2, mail, slack, hook, c1, c2

MCKind == [c \in Channels |-> CASE c = mail -> "email" [] c = slack -> "slack" [] OTHER -> "webhook"]
MCBursts == [p \in Projects |-> IF p = p1 THEN {1000000} ELSE {1}]
MCOnNew == [p \in Projects |-> {mail} \cap Channels]
MCOnRecurring == [p \in Projects |-> IF p = p1 THEN Channels ELSE {}]
Symmetry == Permutations({c1, c2})
=============================================================================
