---------------------------- MODULE MCMQLEngine ---------------------------
EXTENDS MQLEngine
Id(s) == [id |-> "IDENT", text |-> s]
By(s) == [id |-> "BYTE", text |-> s]
Num(s) == [id |-> "NUMBER", text |-> s]

byHost == <<Id("group"), Id("by"), Id("host")>>
sumAB == <<Id("$a"), By("+"), Id("$b"), Id("as"), Id("s")>>

\* Joins, a column of a column, calls in place, a name used twice.
Joins == <<sumAB, <<Id("s"), By("-"), Id("$a"), Id("as"), Id("d")>>, byHost>>
InPlace == <<<<Id("$a"), Id("as"), Id("x")>>, <<Id("delta"), By("("), Id("x"), By(")"), Id("as"), Id("y")>>,
             <<Id("x"), By("*"), Num("2"), Id("as"), Id("y")>>, byHost>>
Shared == <<sumAB, <<Id("per_min"), By("("), By("("), Id("s"), By("+"), Id("$g"), By(")"), By(")")>>,
            <<Id("s"), By("/"), Num("2")>>, byHost>>
\* A selector that fails to compile leaves its series behind.
Orphan == <<<<Id("avg"), By("("), By("("), Id("$a"), By("+"), Num("1"), By(")"), By(")")>>, sumAB>>
Remainder == <<<<Id("$a"), By("%"), Id("$b"), Id("as"), Id("_r")>>,
               <<Id("_r"), By("+"), Id("_minutes"), Id("as"), Id("z")>>>>
Where == <<<<Id("min"), By("("), Id("$g"), By(")")>>, <<Id("max"), By("("), Id("$a"), By(")")>>,
           <<Id("where"), Id("$b.host"), By("="), Num("1"), Id("or"), Id("svc"), By("="), Num("2")>>,
           <<Id("where"), Id("svc"), Id("exists")>>>>
Malformed == <<<<Id("$a")>>, <<Id("where"), Id("svc"), By("="), Num("1"), Id("and"), Id("env"), Id("exists")>>>>
All == <<<<Id("$a"), By("+"), Id("$b")>>, <<Id("$g")>>, <<Id("group"), Id("by"), Id("all")>>>>
Table == <<<<Id("per_min"), By("("), Id("$a"), By(")")>>, <<Id("delta"), By("("), Id("$g"), By(")")>>, byHost>>

MCQueries == {[table |-> FALSE, parts |-> q] :
                  q \in {Joins, InPlace, Shared, Orphan, Remainder, Where, Malformed, All}}
             \cup {[table |-> TRUE, parts |-> q] : q \in {Table, InPlace}}
MCMetricMap == "$a" :> "counter" @@ "$b" :> "counter" @@ "$g" :> "gauge"
\* Times are in units of half a minute.  The bounds of the first filter fall on
\* buckets; the second cuts off its last bucket, the third begins within one;
\* the last names no interval and is rounded to 12..22 in buckets of a minute.
MCTimeFilters == {[gte |-> 8, lt |-> 20, interval |-> 4], [gte |-> 8, lt |-> 18, interval |-> 4],
                  [gte |-> 10, lt |-> 22, interval |-> 4], [gte |-> 11, lt |-> 21, interval |-> 0]}
MCIntervals == <<2, 4, 6, 10>>
Pt(t, v) == [time |-> t, value |-> v]
MCRows == {<<Pt(8, 5), Pt(12, 3), Pt(16, 6)>>, <<Pt(16, 2)>>, <<Pt(14, 4), Pt(18, 1)>>}
MCNumberOf == "1" :> 1 @@ "2" :> 2
===========================================================================
