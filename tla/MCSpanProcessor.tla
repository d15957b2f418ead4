-------------------------- MODULE MCSpanProcessor ---------------------------
(* Every span but the first has two events.                                *)
EXTENDS SpanProcessor

Events == [s \in 1..NumSpans |-> IF s = 1 THEN 0 ELSE 2]
=============================================================================
