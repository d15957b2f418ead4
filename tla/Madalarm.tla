------------------------------ MODULE Madalarm ------------------------------
(***************************************************************************)
(* pkg/madalarm: does a time series fire?  A series is a sequence of       *)
(* numbers in which NaN stands for a missing point.                        *)
(***************************************************************************)
EXTENDS Integers, Sequences, FiniteSets

CONSTANT
    NaN  \* the value of a missing point

\* A bound that is not set is an invalid NullFloat64, here NaN.
isOutlier(x, min, max) ==
    IF min # NaN /\ x < min THEN -1
    ELSE IF max # NaN /\ x > max THEN 1
    ELSE 0

\* Check replaces missing points by 0.
Fill(in) == [i \in 1..Len(in) |-> IF in[i] = NaN THEN 0 ELSE in[i]]

\* Checker.Check with conf.duration = duration.
Check(in, duration, min, max) ==
    IF Len(in) < duration
    THEN [firing |-> 0, firingFor |-> 0]
    ELSE LET values == SubSeq(Fill(in), Len(in) - duration + 1, Len(in))
             outliers == {i \in 1..duration : isOutlier(values[i], min, max) # 0}
             firingFor == Cardinality(outliers)
         IN  [firing |-> IF firingFor = duration
                         THEN isOutlier(values[1], min, max) ELSE 0,
              firingFor |-> firingFor]

\* Manager.checkTimeseries drops the missing points a series begins with, all
\* but the last of them: index is the last missing one.
TrimLeadingNaN(in) ==
    LET leading == {i \in 1..Len(in) : \A j \in 1..i : in[j] = NaN}
        index == IF leading = {} THEN 1 ELSE Cardinality(leading)
    IN  SubSeq(in, index, Len(in))
=============================================================================
