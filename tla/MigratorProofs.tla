--------------------------- MODULE MigratorProofs ---------------------------
(***************************************************************************)
(* Proofs about the migrations of ClickHouse, for every number of servers, *)
(* versions, migrations, commands and faults: nothing is migrated twice,   *)
(* the table of marks implements a log, and a server that has left its     *)
(* migration stage finds all it knows in the table.                        *)
(***************************************************************************)
EXTENDS Server, FiniteSetTheorems, FunctionTheorems, SequenceTheorems, TLAPS

-----------------------------------------------------------------------------
(* Finite sets of numbers in order.                                        *)

Below(S, m) == {x \in S : x < m}

\* An element has fewer below it than a greater one, and fewer than there are.
LEMMA RankMonotonic ==
    ASSUME NEW S \in SUBSET Nat, IsFiniteSet(S), NEW m \in S
    PROVE  /\ Cardinality(Below(S, m)) \in 0..(Cardinality(S) - 1)
           /\ \A k \in S : m < k => Cardinality(Below(S, m)) < Cardinality(Below(S, k))
<1>1. \A k \in S : /\ IsFiniteSet(Below(S, k)) /\ Cardinality(Below(S, k)) \in Nat
                   /\ Below(S, k) \in SUBSET S
  <2> SUFFICES ASSUME NEW k \in S
               PROVE  /\ IsFiniteSet(Below(S, k)) /\ Cardinality(Below(S, k)) \in Nat
                      /\ Below(S, k) \in SUBSET S
    OBVIOUS
  <2>1. Below(S, k) \in SUBSET S
    BY DEF Below
  <2> QED
    BY <2>1, FS_Subset, FS_CardinalityType
<1>2. Cardinality(S) \in Nat
  BY FS_CardinalityType
<1>3. Cardinality(Below(S, m)) < Cardinality(S)
  <2>1. m \notin Below(S, m)
    BY DEF Below
  <2>2. Below(S, m) # S
    BY <2>1
  <2> QED
    BY <1>1, <1>2, <2>2, FS_Subset
<1>4. ASSUME NEW k \in S, m < k
      PROVE  Cardinality(Below(S, m)) < Cardinality(Below(S, k))
  <2>1. Below(S, m) \in SUBSET Below(S, k)
    <3> SUFFICES ASSUME NEW x \in S, x < m PROVE x < k
      BY DEF Below
    <3>1. x \in Nat /\ m \in Nat /\ k \in Nat
      OBVIOUS
    <3> QED
      BY <1>4, <3>1
  <2>2. m \in Below(S, k) /\ m \notin Below(S, m)
    BY <1>4 DEF Below
  <2>3. Below(S, m) # Below(S, k)
    BY <2>2
  <2>4. /\ Cardinality(Below(S, m)) <= Cardinality(Below(S, k))
        /\ Cardinality(Below(S, m)) # Cardinality(Below(S, k))
    BY <1>1, <2>1, <2>3, FS_Subset
  <2> QED
    BY <1>1, <2>4
<1> QED
  BY <1>1, <1>2, <1>3, <1>4

\* Every rank is taken, as the ranks of a set are as many as its elements.
LEMMA RankTaken ==
    ASSUME NEW S \in SUBSET Nat, IsFiniteSet(S), NEW i \in 1..Cardinality(S)
    PROVE  \E m \in S : Cardinality(Below(S, m)) = i - 1
<1> DEFINE n == Cardinality(S)
           rank == [m \in S |-> Cardinality(Below(S, m))]
<1>1. n \in Nat
  BY FS_CardinalityType
<1>2. rank \in [S -> 0..(n - 1)]
  BY RankMonotonic
<1>3. \A m, k \in S : rank[m] = rank[k] => m = k
  <2> SUFFICES ASSUME NEW m \in S, NEW k \in S, m # k PROVE rank[m] # rank[k]
    OBVIOUS
  <2>1. m < k \/ k < m
    OBVIOUS
  <2>2. rank[m] \in Nat /\ rank[k] \in Nat
    BY <1>2
  <2>3. rank[m] < rank[k] \/ rank[k] < rank[m]
    BY <2>1, RankMonotonic
  <2> QED
    BY <2>2, <2>3
<1> HIDE DEF rank
<1>4. rank \in Injection(S, 0..(n - 1))
  BY <1>2, <1>3, Fun_IsInj
<1>5. IsFiniteSet(0..(n - 1)) /\ Cardinality(0..(n - 1)) = n
  <2> HIDE DEF n
  <2>1. 0 \in Int /\ n - 1 \in Int
    BY <1>1
  <2>2. IsFiniteSet(0..(n - 1)) /\ Cardinality(0..(n - 1)) = IF 0 > n - 1 THEN 0 ELSE n - 1 - 0 + 1
    BY <2>1, FS_Interval
  <2> QED
    BY <1>1, <2>2
<1>6. rank \in Surjection(S, 0..(n - 1))
  BY <1>4, <1>5, FS_Injection
<1>7. \A r \in 0..(n - 1) : \E m \in S : rank[m] = r
  BY <1>6 DEF Surjection
<1>8. i - 1 \in 0..(n - 1)
  <2>1. i \in 1..n
    OBVIOUS
  <2> HIDE DEF n
  <2> QED
    BY <1>1, <2>1
<1> QED
  BY <1>7, <1>8 DEF rank

\* A finite set of numbers that is not empty has a greatest element.
LEMMA Greatest ==
    ASSUME NEW S \in SUBSET Nat, IsFiniteSet(S), S # {}
    PROVE  \E m \in S : \A k \in S : k <= m
<1>1. Cardinality(S) \in Nat \ {0}
  BY FS_CardinalityType, FS_EmptySet
<1>2. PICK m \in S : Cardinality(Below(S, m)) = Cardinality(S) - 1
  BY <1>1, RankTaken
<1>3. ASSUME NEW k \in S, m < k PROVE FALSE
  BY <1>1, <1>2, <1>3, RankMonotonic
<1> QED
  BY <1>2, <1>3

\* Ascending lists a set of numbers, each element once and in order.
LEMMA AscendingList ==
    ASSUME NEW S \in SUBSET Nat, IsFiniteSet(S)
    PROVE  /\ Ascending(S) \in Seq(S) /\ Len(Ascending(S)) = Cardinality(S)
           /\ \A i, j \in 1..Len(Ascending(S)) : i < j => Ascending(S)[i] < Ascending(S)[j]
           /\ \A m \in S : \E i \in 1..Len(Ascending(S)) : Ascending(S)[i] = m
           /\ Ascending(S) = << >> <=> S = {}
<1> DEFINE n == Cardinality(S)
           a == Ascending(S)
           e(i) == CHOOSE m \in S : Cardinality(Below(S, m)) = i - 1
<1>1. n \in Nat
  BY FS_CardinalityType
<1>2. a = [i \in 1..n |-> e(i)]
  BY DEF Ascending, Below
<1>3. ASSUME NEW i \in 1..n
      PROVE  e(i) \in S /\ Cardinality(Below(S, e(i))) = i - 1
  BY <1>3, RankTaken
<1> HIDE DEF n, a, e
<1>4. a \in [1..n -> S] /\ \A i \in 1..n : a[i] \in Nat /\ Cardinality(Below(S, a[i])) = i - 1
  BY <1>2, <1>3
<1>5. a \in Seq(S) /\ Len(a) = n
  BY <1>1, <1>4, SeqDef
<1>6. ASSUME NEW i \in 1..n, NEW j \in 1..n, i < j PROVE a[i] < a[j]
  <2>1. a[i] \in S /\ a[j] \in S
    BY <1>4
  <2>2. a[j] < a[i] => j - 1 < i - 1
    BY <1>4, <2>1, RankMonotonic
  <2>3. a[i] = a[j] => i - 1 = j - 1
    BY <1>4
  <2>4. ~ (a[j] < a[i]) /\ a[i] # a[j]
    BY <1>1, <1>6, <2>2, <2>3
  <2> QED
    BY <1>4, <2>4
<1>7. ASSUME NEW m \in S PROVE \E i \in 1..n : a[i] = m
  <2> DEFINE r == Cardinality(Below(S, m))
  <2>1. r \in 0..(n - 1)
    BY RankMonotonic DEF n
  <2> HIDE DEF r
  <2>2. r + 1 \in 1..n /\ (r + 1) - 1 = r
    BY <1>1, <2>1
  <2>3. a[r + 1] \in S /\ Cardinality(Below(S, a[r + 1])) = r
    BY <1>4, <2>2
  <2>4. (a[r + 1] < m => r < r) /\ (m < a[r + 1] => r < r)
    BY <2>3, RankMonotonic DEF r
  <2>5. a[r + 1] = m
    <3> DEFINE b == a[r + 1]
    <3>0. b \in Nat /\ m \in Nat
      BY <2>3
    <3>1. r \in Nat
      BY <1>1, <2>1
    <3>2. (b < m => r < r) /\ (m < b => r < r)
      BY <2>4
    <3> HIDE DEF b
    <3>3. b = m
      BY <3>0, <3>1, <3>2
    <3> QED
      BY <3>3 DEF b
  <2> QED
    BY <2>2, <2>5
<1>8. a = << >> <=> S = {}
  BY <1>1, <1>5, EmptySeq, FS_EmptySet DEF n
<1> QED
  BY <1>5, <1>6, <1>7, <1>8 DEF n, a

-----------------------------------------------------------------------------
(* The inductive invariant of the migrator.                                *)

Row == [state : Nat, cancel : Nat, stateGroup : Nat, cancelGroup : Nat, newest : {-1, 0, 1}]

Working == {"mark", "up", "upping", "unmark", "down"}
Active == Working \cup {"read", "drop"}

Process ==
    [pc : Active \cup {"off", "wait", "done"},
     cmd : {"none", "serve", "migrate", "rollback", "reset"},
     todo : Seq(Migrations), group : Nat]

MigratorTypes ==
    /\ marks \in [Migrations -> Row]
    /\ schema \in [Migrations -> {"absent", "partial", "present"}]
    /\ proc \in [Processes -> Process]
    /\ torn \subseteq Migrations

\* At most one process is at work: a server with the lock, or the operator when
\* no server runs.
Exclusive ==
    /\ \A p \in Servers :
        /\ proc[p].pc \in {"off", "wait", "read", "mark", "up", "upping", "done"}
        /\ proc[p].pc \in Active => lock = p
        /\ proc[p].pc \in {"wait", "read"} => proc[p].cmd = "serve"
    /\ proc[Operator] # Off => \A p \in Servers : proc[p].pc \in {"off", "done"}

\* What the table read with FINAL says of the rows of a migration.
Live(row) == row.state # row.cancel \/ row.newest = 1
GroupIn(row) == IF row.state < row.cancel THEN row.cancelGroup ELSE row.stateGroup

\* Every row has a group.
RowsGrouped ==
    \A m \in Migrations :
        /\ marks[m].newest = 1 => marks[m].state > 0
        /\ marks[m].state > 0 => marks[m].stateGroup > 0
        /\ marks[m].cancel > 0 => marks[m].cancelGroup > 0

\* What is not marked was never run, or undoing it was cut off.
UnmarkedAbsent ==
    \A m \in Migrations : ~Live(marks[m]) => schema[m] = "absent" \/ m \in torn

\* The first migration of its list that a process has not marked, or unmarked, yet.
First(p) == IF proc[p].pc \in {"mark", "unmark"} THEN 1 ELSE 2

\* In the log, x of group h comes before m of group g.
Before(x, h, m, g) == h < g \/ (h = g /\ x < m)

\* A process that migrates has left what is not marked, in ascending order, and
\* the log ends where its list begins.
MigratesOn(p) ==
    LET todo == proc[p].todo
        g == proc[p].group
    IN  /\ \A i \in First(p)..Len(todo) :
            /\ ~Live(marks[todo[i]])
            /\ \A x \in Migrations :
                Live(marks[x]) => Before(x, GroupIn(marks[x]), todo[i], g)
        /\ \A i, j \in 1..Len(todo) : i < j => todo[i] < todo[j]
        /\ g > 0
        /\ g = 1 \/ \E x \in Migrations :
                        Live(marks[x]) /\ GroupIn(marks[x]) \in {g - 1, g}
        /\ proc[p].pc \in {"up", "upping"} => Live(marks[todo[1]])
        /\ proc[p].pc = "up" => schema[todo[1]] = "absent" \/ todo[1] \in torn

\* A process that rolls back has left the end of the log, the last one first; of
\* those it is done with some may be left whose mark was stored too often.
RollsBackOn(p) ==
    LET todo == proc[p].todo
    IN  /\ \A i \in First(p)..Len(todo) :
            /\ Live(marks[todo[i]])
            /\ \A x \in Migrations : Live(marks[x]) =>
                \/ Before(x, GroupIn(marks[x]), todo[i], GroupIn(marks[todo[i]]))
                \/ \E j \in First(p)..i : x = todo[j]
                \/ marks[x].newest # 1
        /\ \A i, j \in 1..Len(todo) : i < j => todo[j] < todo[i]
        /\ proc[p].pc = "down" => todo[1] \in torn

WorkOf(p) ==
    /\ proc[p].pc \in Working => proc[p].todo # << >>
    /\ proc[p].pc \in {"mark", "up", "upping"} => MigratesOn(p)
    /\ proc[p].pc \in {"unmark", "down"} => RollsBackOn(p)
    /\ proc[p].pc = "drop" => \A m \in Migrations : ~Live(marks[m])

MigratorInv ==
    /\ MigratorTypes /\ Exclusive /\ RowsGrouped /\ UnmarkedAbsent
    /\ \A p \in Processes : WorkOf(p)

-----------------------------------------------------------------------------
(* What the table says.                                                    *)

\* Read with FINAL, the table has the migrations that are marked, with the group
\* of their mark.
LEMMA TableReads ==
    ASSUME MigratorTypes, RowsGrouped
    PROVE  /\ Applied = {m \in Migrations : Live(marks[m])}
           /\ \A m \in Migrations : GroupOf(m) = GroupIn(marks[m])
           /\ \A m \in Migrations : GroupIn(marks[m]) \in Nat
           /\ \A m \in Applied : GroupIn(marks[m]) > 0
           /\ MarkedOnce => \A m \in Applied : marks[m].newest = 1
<1>1. \A m \in Migrations : marks[m] \in Row
  BY DEF MigratorTypes
<1>2. \A m \in Migrations : IsApplied(m) <=> Live(marks[m])
  BY DEF IsApplied, Live
<1>3. \A m \in Migrations : GroupOf(m) = GroupIn(marks[m])
  BY DEF GroupOf, GroupIn
<1>4. \A m \in Migrations : GroupIn(marks[m]) \in Nat
  BY <1>1 DEF Row, GroupIn
<1>5. \A m \in Migrations : Live(marks[m]) => GroupIn(marks[m]) > 0
  BY <1>1 DEF RowsGrouped, Row, Live, GroupIn
<1>6. MarkedOnce => \A m \in Migrations : Live(marks[m]) => marks[m].newest = 1
  BY <1>1 DEF MarkedOnce, Row, Live
<1> QED
  BY <1>2, <1>3, <1>4, <1>5, <1>6 DEF Applied

\* Migrations are numbers, and finitely many.
LEMMA MigrationSets ==
    /\ Migrations \subseteq Nat
    /\ \A S \in SUBSET Migrations : IsFiniteSet(S) /\ S \in SUBSET Nat
<1>1. Migrations \subseteq Nat
  BY VersionsAssumption DEF Migrations
<1>2. IsFiniteSet(Migrations)
  BY VersionsAssumption, FS_Interval DEF Migrations
<1> QED
  BY <1>1, <1>2, FS_Subset

\* LastGroupID is the greatest group of the set, or 0 if the set is empty.
LEMMA LastGroupIsGreatest ==
    ASSUME MigratorTypes, RowsGrouped, NEW ms \in SUBSET Applied
    PROVE  /\ LastGroupID(ms) \in Nat
           /\ \A m \in ms : GroupIn(marks[m]) <= LastGroupID(ms)
           /\ LastGroupID(ms) = 0 \/ \E m \in ms : GroupIn(marks[m]) = LastGroupID(ms)
           /\ ms # {} => LastGroupID(ms) # 0
<1> DEFINE groups == {GroupOf(m) : m \in ms}
           ids == groups \cup {0}
           f == [m \in ms |-> GroupOf(m)]
<1>1. ms \in SUBSET Migrations
  BY TableReads
<1>2. \A m \in ms : GroupOf(m) = GroupIn(marks[m]) /\ GroupOf(m) \in Nat /\ GroupOf(m) > 0
  BY <1>1, TableReads
<1>3. f \in Surjection(ms, groups)
  BY DEF Surjection
<1>4. IsFiniteSet(groups)
  BY <1>1, <1>3, MigrationSets, FS_Surjection
<1>5. IsFiniteSet(ids) /\ ids # {}
  BY <1>4, FS_AddElement
<1>6. ids \in SUBSET Nat
  BY <1>2
<1>7. \E id \in ids : \A x \in ids : x <= id
  BY <1>5, <1>6, Greatest
<1>8. LastGroupID(ms) \in ids /\ \A x \in ids : x <= LastGroupID(ms)
  BY <1>7 DEF LastGroupID
<1>9. LastGroupID(ms) \in Nat
  BY <1>6, <1>8
<1>10. \A m \in ms : GroupIn(marks[m]) <= LastGroupID(ms)
  BY <1>2, <1>8
<1>11. LastGroupID(ms) = 0 \/ \E m \in ms : GroupIn(marks[m]) = LastGroupID(ms)
  BY <1>2, <1>8
<1>12. ms # {} => LastGroupID(ms) # 0
  BY <1>2, <1>8, <1>9
<1> QED
  BY <1>9, <1>10, <1>11, <1>12

\* What Unapplied returns.
LEMMA UnappliedList ==
    ASSUME MigratorTypes, RowsGrouped, NEW p \in Processes, NEW s, s = Unapplied(p)
    PROVE  /\ s \in Seq(Migrations)
           /\ \A i \in 1..Len(s) : ~Live(marks[s[i]])
           /\ \A i, j \in 1..Len(s) : i < j => s[i] < s[j]
<1> DEFINE S == Known[p] \ Applied
<1>1. S \in SUBSET Migrations
  BY VersionsAssumption
<1>2. s = Ascending(S) /\ S \in SUBSET Nat /\ IsFiniteSet(S)
  BY <1>1, MigrationSets DEF Unapplied
<1>3. \A m \in S : ~Live(marks[m])
  BY <1>1, TableReads
<1> HIDE DEF S
<1>4. s \in Seq(S) /\ \A i, j \in 1..Len(s) : i < j => s[i] < s[j]
  BY <1>2, AscendingList
<1>5. s \in Seq(Migrations)
  BY <1>1, <1>4, SeqMonotonic
<1>6. \A i \in 1..Len(s) : s[i] \in S
  BY <1>4, ElementOfSeq
<1> QED
  BY <1>3, <1>4, <1>5, <1>6

\* What LastGroup returns to the operator, who knows all migrations: the last
\* group of the log, its end first; nothing only if the log is empty.
LEMMA LastGroupList ==
    ASSUME MigratorTypes, RowsGrouped, NEW s, s = LastGroup(Operator)
    PROVE  /\ s \in Seq(Migrations)
           /\ \A i \in 1..Len(s) : Live(marks[s[i]])
           /\ \A i, j \in 1..Len(s) : i < j => s[j] < s[i]
           /\ \A i \in 1..Len(s) : \A x \in Migrations : Live(marks[x]) =>
                \/ Before(x, GroupIn(marks[x]), s[i], GroupIn(marks[s[i]]))
                \/ \E j \in 1..i : x = s[j]
           /\ s = << >> => \A m \in Migrations : ~Live(marks[m])
<1> DEFINE L == LastGroupID(Applied)
           S == {m \in Applied : GroupOf(m) = L}
           a == Ascending(S)
<1>1. /\ Applied \in SUBSET Migrations /\ Applied \cap Known[Operator] = Applied
      /\ \A m \in Applied : GroupOf(m) = GroupIn(marks[m]) /\ GroupOf(m) \in Nat
  BY TableReads, VersionsAssumption
<1>2. S \in SUBSET Migrations /\ S \in SUBSET Nat /\ IsFiniteSet(S)
  BY <1>1, MigrationSets
<1>3. s = Reverse(a)
  BY <1>1 DEF LastGroup
<1>4. /\ L \in Nat
      /\ \A m \in Applied : GroupIn(marks[m]) <= L
      /\ Applied # {} => S # {}
  BY <1>1, LastGroupIsGreatest
<1>5. \A m \in S : m \in Migrations /\ Live(marks[m]) /\ GroupIn(marks[m]) = L
  BY <1>1, TableReads
<1>6. \A x \in Migrations : Live(marks[x]) =>
        x \in S \/ (GroupIn(marks[x]) \in Nat /\ GroupIn(marks[x]) < L)
  <2> SUFFICES ASSUME NEW x \in Migrations, Live(marks[x]), x \notin S
               PROVE  GroupIn(marks[x]) \in Nat /\ GroupIn(marks[x]) < L
    OBVIOUS
  <2>1. x \in Applied /\ GroupIn(marks[x]) \in Nat
    BY TableReads
  <2>2. GroupIn(marks[x]) # L /\ GroupIn(marks[x]) <= L
    BY <1>1, <1>4, <2>1
  <2> QED
    BY <1>4, <2>1, <2>2
<1>7. S = {} => \A m \in Migrations : ~Live(marks[m])
  BY <1>4, TableReads
<1> HIDE DEF L, S, a
<1>8. /\ a \in Seq(S)
      /\ \A i, j \in 1..Len(a) : i < j => a[i] < a[j]
      /\ \A m \in S : \E i \in 1..Len(a) : a[i] = m
      /\ a = << >> <=> S = {}
  BY <1>2, AscendingList DEF a
<1> DEFINE n == Len(a)
<1>9. n \in Nat /\ \A i \in 1..n : a[i] \in S
  BY <1>8, ElementOfSeq, LenProperties
<1>10. s = [i \in 1..n |-> a[(n - i) + 1]]
  BY <1>3 DEF Reverse
<1> HIDE DEF n
<1>11. \A i \in 1..n : (n - i) + 1 \in 1..n
  BY <1>9
<1>12. \A i \in 1..n : s[i] = a[(n - i) + 1] /\ s[i] \in S
  BY <1>9, <1>10, <1>11
<1>13. s \in Seq(Migrations) /\ Len(s) = n
  <2>1. s \in [1..n -> Migrations]
    BY <1>5, <1>10, <1>12
  <2> QED
    BY <1>9, <2>1, SeqDef
<1>14. \A m \in S : \E i \in 1..n : s[i] = m
  <2> SUFFICES ASSUME NEW m \in S PROVE \E i \in 1..n : s[i] = m
    OBVIOUS
  <2>1. PICK k \in 1..n : a[k] = m
    BY <1>8 DEF n
  <2>2. (n - k) + 1 \in 1..n /\ (n - ((n - k) + 1)) + 1 = k
    BY <1>9
  <2> QED
    BY <1>12, <2>1, <2>2
<1>15. \A i, j \in 1..n : i < j => s[j] < s[i]
  <2> SUFFICES ASSUME NEW i \in 1..n, NEW j \in 1..n, i < j PROVE s[j] < s[i]
    OBVIOUS
  <2>1. (n - j) + 1 < (n - i) + 1
    BY <1>9
  <2> QED
    BY <1>8, <1>11, <1>12, <2>1 DEF n
<1>16. ASSUME NEW i \in 1..n, NEW x \in Migrations, Live(marks[x])
       PROVE  \/ Before(x, GroupIn(marks[x]), s[i], GroupIn(marks[s[i]]))
              \/ \E j \in 1..i : x = s[j]
  <2>1. CASE x \notin S
    BY <1>5, <1>6, <1>12, <1>16, <2>1 DEF Before
  <2>2. CASE x \in S
    <3>1. PICK j \in 1..n : s[j] = x
      BY <1>14, <2>2
    <3>2. CASE j <= i
      <4>1. j \in 1..i
        BY <3>2
      <4> QED
        BY <3>1, <4>1
    <3>3. CASE i < j
      <4>1. x < s[i]
        BY <1>15, <3>1, <3>3
      <4>2. GroupIn(marks[x]) = GroupIn(marks[s[i]])
        BY <1>5, <1>12, <2>2
      <4> QED
        BY <4>1, <4>2 DEF Before
    <3> QED
      BY <3>2, <3>3
  <2> QED
    BY <2>1, <2>2
<1>17. s = << >> => S = {}
  <2>1. s = << >> => n = 0
    BY <1>13, EmptySeq
  <2> QED
    BY <1>14, <1>9, <2>1
<1>18. \A i \in 1..Len(s) : Live(marks[s[i]])
  BY <1>5, <1>12, <1>13
<1> QED
  BY <1>7, <1>13, <1>15, <1>16, <1>17, <1>18

-----------------------------------------------------------------------------
(* Processes.                                                              *)

\* The records of a process that does not run.
LEMMA OffDone ==
    /\ Off \in Process /\ Off.pc = "off" /\ Done \in Process /\ Done.pc = "done"
    /\ \A rec : rec.pc \in Active \cup {"wait"} => rec \notin {Off, Done}
<1>1. << >> \in Seq(Migrations)
  BY EmptySeq
<1>2. Off \in Process /\ Off.pc = "off"
  BY <1>1 DEF Off, Process
<1>3. Done \in Process /\ Done.pc = "done"
  BY <1>1 DEF Off, Done, Process
<1> QED
  BY <1>2, <1>3 DEF Active, Working

\* While a process is at work no other is.
LEMMA OthersRest ==
    ASSUME MigratorTypes, Exclusive, NEW p \in Processes, proc[p].pc \in Active,
           NEW q \in Processes, q # p
    PROVE  proc[q].pc \notin Active
<1>1. CASE p = Operator
  <2>1. proc[Operator] # Off
    BY <1>1, OffDone DEF Active, Working
  <2>2. q \in Servers
    BY <1>1 DEF Processes
  <2> QED
    BY <2>1, <2>2 DEF Exclusive, Active, Working
<1>2. CASE p \in Servers
  <2>1. CASE q \in Servers
    BY <1>2, <2>1 DEF Exclusive
  <2>2. CASE q = Operator
    <3>1. proc[p].pc \notin {"off", "done"}
      BY DEF Active, Working
    <3>2. proc[Operator] = Off
      BY <1>2, <3>1 DEF Exclusive
    <3> QED
      BY <2>2, <3>2, OffDone DEF Active, Working
  <2> QED
    BY <2>1, <2>2 DEF Processes
<1> QED
  BY <1>1, <1>2 DEF Processes

\* A process at work goes on with rec: the others are where they were, and what
\* is left to show is what p does next.
LEMMA GoesOn ==
    ASSUME MigratorInv, NEW p \in Processes, proc[p].pc \in Active,
           NEW rec \in Process, Go(p, rec),
           p \in Servers => rec \in {Off, Done} \/ rec.pc \in {"mark", "up", "upping"},
           WorkOf(p)'
    PROVE  /\ proc' \in [Processes -> Process] /\ Exclusive'
           /\ \A q \in Processes : WorkOf(q)'
<1> USE DEF MigratorInv
<1>1. proc' = [proc EXCEPT ![p] = rec] /\ proc' \in [Processes -> Process]
  BY DEF Go, MigratorTypes
<1>2. /\ proc'[p] = rec
      /\ \A q \in Processes : q # p => proc'[q] = proc[q] /\ proc[q].pc \notin Active
  BY <1>1, OthersRest DEF MigratorTypes
<1>3. \A q \in Processes : WorkOf(q)'
  <2> SUFFICES ASSUME NEW q \in Processes, q # p PROVE WorkOf(q)'
    OBVIOUS
  <2>1. proc'[q].pc \notin Active
    BY <1>2
  <2> QED
    BY <2>1 DEF WorkOf, Active, Working
<1>4. Exclusive'
  <2>1. CASE p = Operator
    <3>1. proc[Operator] # Off
      BY <2>1, OffDone DEF Active, Working
    <3>2. \A q \in Servers : q \in Processes /\ q # p
      BY <2>1, NamesAssumption DEF Processes
    <3>3. \A q \in Servers : proc'[q] = proc[q] /\ proc[q].pc \in {"off", "done"}
      BY <1>2, <3>1, <3>2 DEF Exclusive
    <3>4. \A q \in Servers : proc'[q].pc \in {"off", "done"} /\ proc'[q].pc \notin Active
      BY <3>3 DEF Active, Working
    <3> QED
      BY <3>4 DEF Exclusive
  <2>2. CASE p \in Servers
    <3>1. lock = p /\ proc[p].pc \notin {"off", "done"}
      BY <2>2 DEF Exclusive, Active, Working
    <3>2. Operator \in Processes /\ Operator # p
      BY <2>2, NamesAssumption DEF Processes
    <3>3. proc'[Operator] = Off
      BY <1>2, <2>2, <3>1, <3>2 DEF Exclusive
    <3>4. /\ rec.pc \in {"off", "mark", "up", "upping", "done"}
          /\ rec.pc \in Active => lock' = p
      BY <2>2, <3>1, OffDone DEF Go, Active, Working
    <3>5. \A q \in Servers : q # p => proc'[q] = proc[q] /\ proc'[q].pc \notin Active
      BY <1>2 DEF Processes
    <3>6. \A q \in Servers :
            /\ proc'[q].pc \in {"off", "wait", "read", "mark", "up", "upping", "done"}
            /\ proc'[q].pc \in Active => lock' = q
            /\ proc'[q].pc \in {"wait", "read"} => proc'[q].cmd = "serve"
      BY <1>2, <3>4, <3>5 DEF Exclusive
    <3> QED
      BY <3>3, <3>6 DEF Exclusive
  <2> QED
    BY <2>1, <2>2 DEF Processes
<1> QED
  BY <1>1, <1>3, <1>4

\* A process that has ended has nothing to do.
LEMMA RestingWork ==
    ASSUME NEW p \in Processes, proc'[p].pc \notin Active
    PROVE  WorkOf(p)'
BY DEF WorkOf, Active, Working

\* A process at work fails, crashes or finishes.
LEMMA StopsThere ==
    ASSUME MigratorInv, NEW p \in Processes, proc[p].pc \in Active,
           NEW rec \in {Off, Done}, Go(p, rec),
           marks' \in [Migrations -> Row], schema' = schema, torn' \subseteq Migrations,
           RowsGrouped', UnmarkedAbsent'
    PROVE  MigratorInv'
<1>1. rec \in Process /\ proc'[p].pc \notin Active
  BY OffDone DEF Go, MigratorInv, MigratorTypes, Active, Working
<1>2. WorkOf(p)'
  BY <1>1, RestingWork
<1>3. /\ proc' \in [Processes -> Process] /\ Exclusive'
      /\ \A q \in Processes : WorkOf(q)'
  BY <1>1, <1>2, GoesOn
<1> QED
  BY <1>3 DEF MigratorInv, MigratorTypes

\* The same, with the database as it is.
LEMMA Stops ==
    ASSUME MigratorInv, NEW p \in Processes, proc[p].pc \in Active,
           NEW rec \in {Off, Done}, Go(p, rec), UNCHANGED <<marks, schema, torn>>
    PROVE  MigratorInv'
<1>1. RowsGrouped' /\ UnmarkedAbsent'
  BY DEF MigratorInv, RowsGrouped, UnmarkedAbsent
<1> QED
  BY <1>1, StopsThere DEF MigratorInv, MigratorTypes

\* The list of a process at work.
LEMMA TodoList ==
    ASSUME MigratorInv, NEW p \in Processes, proc[p].pc \in Working
    PROVE  /\ proc[p] \in Process /\ proc[p].todo \in Seq(Migrations)
           /\ Len(proc[p].todo) \in Nat \ {0}
           /\ \A i \in 1..Len(proc[p].todo) : proc[p].todo[i] \in Migrations
           /\ Head(proc[p].todo) = proc[p].todo[1]
<1>1. proc[p] \in Process
  BY DEF MigratorInv, MigratorTypes
<1> DEFINE todo == proc[p].todo
<1>2. todo \in Seq(Migrations) /\ todo # << >>
  BY <1>1 DEF MigratorInv, WorkOf, Process
<1> HIDE DEF todo
<1>3. Len(todo) \in Nat \ {0} /\ Head(todo) = todo[1]
  BY <1>2, EmptySeq, HeadTailProperties
<1>4. \A i \in 1..Len(todo) : todo[i] \in Migrations
  BY <1>2, ElementOfSeq
<1> QED
  BY <1>1, <1>2, <1>3, <1>4 DEF todo

-----------------------------------------------------------------------------
(* Every step keeps the invariant.                                         *)

\* DB.insert may have stored nothing.
LEMMA NoRow ==
    ASSUME marks \in [Migrations -> Row], NEW m \in Migrations, NEW sign, NEW g, Insert(m, sign, g, 0)
    PROVE  marks' = marks
BY DEF Insert

\* The row that marks m, however often it was stored: if m was not applied it is
\* now, in group g.
LEMMA MarkRow ==
    ASSUME marks \in [Migrations -> Row], NEW m \in Migrations, NEW g \in Nat, NEW k \in Nat \ {0},
           Insert(m, 1, g, k), ~Live(marks[m])
    PROVE  /\ marks' \in [Migrations -> Row]
           /\ \A x \in Migrations : x # m => marks'[x] = marks[x]
           /\ Live(marks'[m]) /\ GroupIn(marks'[m]) = g
           /\ marks'[m].state > 0 /\ marks'[m].stateGroup = g
           /\ marks'[m].cancel = marks[m].cancel /\ marks'[m].cancelGroup = marks[m].cancelGroup
<1> DEFINE old == marks[m]
           sum == old.state + k
           row == [old EXCEPT !.state = sum, !.stateGroup = g, !.newest = 1]
<1>1. marks' = [marks EXCEPT ![m] = row]
  BY DEF Insert
<1>2. old \in Row /\ ~Live(old)
  OBVIOUS
<1> HIDE DEF old
<1>7. sum \in Nat /\ sum = old.state + k
  BY <1>2 DEF Row
<1> HIDE DEF sum
<1>3. row \in Row
  BY <1>2, <1>7 DEF Row
<1>4. /\ row.newest = 1 /\ row.stateGroup = g /\ row.state = sum
      /\ row.cancel = old.cancel /\ row.cancelGroup = old.cancelGroup
  BY <1>2 DEF Row
<1> HIDE DEF row
<1>5. old.state \in Nat /\ old.cancel \in Nat /\ old.state = old.cancel
  BY <1>2 DEF Row, Live
<1>6. Live(row) /\ GroupIn(row) = g /\ row.state > 0
  BY <1>4, <1>5, <1>7 DEF Live, GroupIn
<1> QED
  BY <1>1, <1>3, <1>4, <1>6 DEF old

\* The row with the opposite sign, which cancels the mark if both are there once.
LEMMA UnmarkRow ==
    ASSUME marks \in [Migrations -> Row], NEW m \in Migrations, NEW g \in Nat, NEW k \in Nat \ {0},
           Insert(m, -1, g, k)
    PROVE  /\ marks' \in [Migrations -> Row]
           /\ \A x \in Migrations : x # m => marks'[x] = marks[x]
           /\ marks'[m].newest = -1 /\ marks'[m].stateGroup = marks[m].stateGroup
           /\ marks'[m].state = marks[m].state /\ marks'[m].cancel = marks[m].cancel + k
           /\ marks'[m].cancelGroup = IF marks[m].cancel = 0 THEN g ELSE marks[m].cancelGroup
<1> DEFINE old == marks[m]
           h == IF old.cancel = 0 THEN g ELSE old.cancelGroup
           sum == old.cancel + k
           row == [old EXCEPT !.cancel = sum, !.newest = -1, !.cancelGroup = h]
<1>1. marks' = [marks EXCEPT ![m] = row]
  BY DEF Insert
<1>2. old \in Row
  OBVIOUS
<1> HIDE DEF old
<1>3. h \in Nat /\ sum \in Nat /\ sum = old.cancel + k
  BY <1>2 DEF Row
<1> HIDE DEF h, sum
<1>4. row \in Row
  BY <1>2, <1>3 DEF Row
<1>5. /\ row.newest = -1 /\ row.stateGroup = old.stateGroup
      /\ row.state = old.state /\ row.cancel = sum /\ row.cancelGroup = h
  BY <1>2 DEF Row
<1> HIDE DEF row
<1> QED
  BY <1>1, <1>3, <1>4, <1>5 DEF old, h

\* Only the operator rolls back.
LEMMA OperatorRollsBack ==
    ASSUME MigratorInv, NEW p \in Processes,
           \/ proc[p].pc \in {"unmark", "down", "drop"}
           \/ proc[p].pc = "read" /\ proc[p].cmd \in {"migrate", "rollback", "reset"}
    PROVE  p = Operator /\ p \notin Servers
BY NamesAssumption DEF MigratorInv, Exclusive, Processes

\* Migrate reads the table: what it will mark comes after all that is marked.
LEMMA ReadMigrationsInv ==
    ASSUME MigratorInv, NEW p \in Processes, ReadMigrations(p) PROVE MigratorInv'
<1>1. proc[p].pc \in Active /\ proc[p] \in Process
  BY DEF ReadMigrations, Active, MigratorInv, MigratorTypes
<1>2. CASE Go(p, Off) \/ Go(p, Done)
  BY <1>1, <1>2, Stops DEF ReadMigrations
<1>3. CASE /\ Unapplied(p) # << >>
           /\ Go(p, [proc[p] EXCEPT !.pc = "mark", !.todo = Unapplied(p),
                                    !.group = LastGroupID(Applied) + 1])
  <2> DEFINE s == Unapplied(p)
             g == LastGroupID(Applied) + 1
             rec == [proc[p] EXCEPT !.pc = "mark", !.todo = s, !.group = g]
  <2>1. /\ s \in Seq(Migrations) /\ s # << >>
        /\ \A i \in 1..Len(s) : ~Live(marks[s[i]])
        /\ \A i, j \in 1..Len(s) : i < j => s[i] < s[j]
    BY <1>3, UnappliedList DEF MigratorInv
  <2>2. /\ LastGroupID(Applied) \in Nat
        /\ \A m \in Applied : GroupIn(marks[m]) <= LastGroupID(Applied)
        /\ LastGroupID(Applied) = 0 \/ \E m \in Applied : GroupIn(marks[m]) = LastGroupID(Applied)
    BY LastGroupIsGreatest DEF MigratorInv
  <2>3. /\ Applied = {m \in Migrations : Live(marks[m])}
        /\ \A m \in Migrations : GroupIn(marks[m]) \in Nat
    BY TableReads DEF MigratorInv
  <2>4. g \in Nat /\ g > 0 /\ g - 1 = LastGroupID(Applied)
    BY <2>2
  <2>5. \A x \in Migrations : Live(marks[x]) => GroupIn(marks[x]) < g
    BY <2>2, <2>3
  <2>6. g = 1 \/ \E x \in Migrations : Live(marks[x]) /\ GroupIn(marks[x]) = g - 1
    BY <2>2, <2>3
  <2>7. Go(p, rec)
    BY <1>3
  <2> HIDE DEF s, g
  <2>8. rec \in Process
    BY <1>1, <2>1, <2>4 DEF Process, Active, Working
  <2>9. /\ proc'[p] = rec /\ rec.pc = "mark" /\ rec.todo = s /\ rec.group = g
        /\ UNCHANGED <<marks, schema, torn>>
    BY <1>1, <2>7 DEF Go, MigratorInv, MigratorTypes, ReadMigrations, Process
  <2> HIDE DEF rec
  <2>10. MigratesOn(p)'
    BY <2>1, <2>4, <2>5, <2>6, <2>9 DEF MigratesOn, First, Before
  <2>11. WorkOf(p)'
    BY <2>1, <2>9, <2>10 DEF WorkOf
  <2>12. /\ proc' \in [Processes -> Process] /\ Exclusive'
         /\ \A q \in Processes : WorkOf(q)'
    BY <1>1, <2>7, <2>8, <2>9, <2>11, GoesOn
  <2>13. RowsGrouped' /\ UnmarkedAbsent'
    BY <2>9 DEF MigratorInv, RowsGrouped, UnmarkedAbsent
  <2> QED
    BY <2>9, <2>12, <2>13 DEF MigratorInv, MigratorTypes
<1> QED
  BY <1>2, <1>3 DEF ReadMigrations

\* MarkApplied: the new mark is the end of the log.
LEMMA MarkAppliedInv ==
    ASSUME MigratorInv, NEW p \in Processes, MarkApplied(p) PROVE MigratorInv'
<1> DEFINE todo == proc[p].todo
           g == proc[p].group
           m == todo[1]
           rec == [proc[p] EXCEPT !.pc = "up"]
<1>1. proc[p].pc = "mark" /\ proc[p].pc \in Active /\ proc[p].pc \in Working
  BY DEF MarkApplied, Active, Working
<1>2. PICK k \in 0..(MaxRetries + 1) :
            Insert(Head(proc[p].todo), 1, proc[p].group, k) /\ Stored(p, k, rec)
  BY DEF MarkApplied
<1>3. k \in Nat /\ (k = 0 => Fails(p)) /\ (Go(p, rec) \/ Fails(p)) /\ UNCHANGED <<schema, torn>>
  BY <1>2, RetriesAssumption DEF Stored, MarkApplied
<1>4. CASE k = 0
  <2>1. Head(proc[p].todo) \in Migrations
    BY <1>1, TodoList
  <2>2. marks' = marks
    BY <1>2, <1>4, <2>1, NoRow DEF MigratorInv, MigratorTypes
  <2> QED
    BY <1>1, <1>3, <1>4, <2>2, Stops DEF Fails
<1>5. CASE k # 0
  <2>1. /\ proc[p] \in Process /\ todo \in Seq(Migrations) /\ Len(todo) \in Nat \ {0}
        /\ \A i \in 1..Len(todo) : todo[i] \in Migrations
        /\ Head(todo) = m
    BY <1>1, TodoList
  <2>2. MigratesOn(p)
    BY <1>1 DEF MigratorInv, WorkOf
  <2>3. m \in Migrations /\ marks[m] \in Row /\ g \in Nat
    BY <2>1 DEF MigratorInv, MigratorTypes, Process
  <2>4. /\ Insert(m, 1, g, k) /\ marks \in [Migrations -> Row] /\ k \in Nat \ {0}
        /\ ~Live(marks[m])
    BY <1>1, <1>2, <1>3, <1>5, <2>1, <2>2 DEF MigratorInv, MigratorTypes, MigratesOn, First
  <2> HIDE DEF m, g
  <2>5. /\ marks' \in [Migrations -> Row]
        /\ \A x \in Migrations : x # m => marks'[x] = marks[x]
    BY <2>3, <2>4, MarkRow
  <2>6. /\ Live(marks'[m]) /\ GroupIn(marks'[m]) = g
        /\ marks'[m].state > 0 /\ marks'[m].stateGroup = g
        /\ marks'[m].cancel = marks[m].cancel /\ marks'[m].cancelGroup = marks[m].cancelGroup
    BY <2>3, <2>4, MarkRow
  <2> USE DEF m, g
  <2>7. /\ \A i \in 1..Len(todo) : ~Live(marks[todo[i]])
        /\ \A i \in 1..Len(todo) : \A x \in Migrations :
            Live(marks[x]) => Before(x, GroupIn(marks[x]), todo[i], g)
        /\ \A i, j \in 1..Len(todo) : i < j => todo[i] < todo[j]
        /\ g > 0
    BY <1>1, <2>2 DEF MigratesOn, First
  <2>8. ~Live(marks[m]) /\ (schema[m] = "absent" \/ m \in torn)
    BY <2>1, <2>3, <2>7 DEF MigratorInv, UnmarkedAbsent
  <2>9. rec \in Process
    BY <2>1 DEF Process, Active, Working
  <2>10. /\ Go(p, rec) => proc'[p] = rec
         /\ rec.pc = "up" /\ rec.todo = todo /\ rec.group = g /\ UNCHANGED <<schema, torn>>
    BY <1>3, <2>1 DEF Go, MigratorInv, MigratorTypes, Process
  <2>11. ASSUME NEW i \in 2..Len(todo)
         PROVE  m < todo[i] /\ todo[i] # m /\ todo[i] \in Migrations
    <3>1. i \in 1..Len(todo) /\ 1 \in 1..Len(todo) /\ 1 < i
      BY <2>1
    <3>2. todo[i] \in Migrations /\ todo[1] < todo[i] /\ todo[1] \in Migrations
      BY <2>1, <2>7, <3>1
    <3>3. Migrations \subseteq Nat
      BY MigrationSets
    <3>4. todo[i] \in Nat /\ todo[1] \in Nat
      BY <3>2, <3>3
    <3> QED
      BY <3>2, <3>4
  <2> HIDE DEF rec, m, g
  <2>12. ASSUME Go(p, rec) PROVE MigratesOn(p)'
    <3>1. \A i \in 2..Len(todo) :
            /\ ~Live(marks'[todo[i]])
            /\ \A x \in Migrations :
                Live(marks'[x]) => Before(x, GroupIn(marks'[x]), todo[i], g)
      <4> SUFFICES ASSUME NEW i \in 2..Len(todo), NEW x \in Migrations, Live(marks'[x])
                   PROVE  Before(x, GroupIn(marks'[x]), todo[i], g)
        BY <2>5, <2>7, <2>11
      <4>1. CASE x = m
        BY <2>6, <2>11, <4>1 DEF Before
      <4>2. CASE x # m
        BY <2>5, <2>7, <4>2
      <4> QED
        BY <4>1, <4>2
    <3>2. \E x \in Migrations : Live(marks'[x]) /\ GroupIn(marks'[x]) \in {g - 1, g}
      BY <2>3, <2>6
    <3> QED
      BY <2>6, <2>7, <2>8, <2>10, <2>12, <3>1, <3>2 DEF MigratesOn, First, m
  <2>13. ASSUME Go(p, rec) PROVE WorkOf(p)'
    BY <2>1, <2>10, <2>12, <2>13, EmptySeq DEF WorkOf
  <2>14. ASSUME Go(p, rec)
         PROVE  /\ proc' \in [Processes -> Process] /\ Exclusive'
                /\ \A q \in Processes : WorkOf(q)'
    BY <1>1, <2>9, <2>10, <2>13, <2>14, GoesOn
  <2>15. RowsGrouped'
    <3> SUFFICES ASSUME NEW x \in Migrations
                 PROVE  /\ marks'[x].newest = 1 => marks'[x].state > 0
                        /\ marks'[x].state > 0 => marks'[x].stateGroup > 0
                        /\ marks'[x].cancel > 0 => marks'[x].cancelGroup > 0
      BY DEF RowsGrouped
    <3>1. CASE x = m
      BY <2>3, <2>6, <2>7, <3>1 DEF MigratorInv, RowsGrouped
    <3>2. CASE x # m
      BY <2>5, <3>2 DEF MigratorInv, RowsGrouped
    <3> QED
      BY <3>1, <3>2
  <2>16. UnmarkedAbsent'
    BY <2>5, <2>6, <2>10 DEF MigratorInv, UnmarkedAbsent
  <2>17. CASE Go(p, rec)
    BY <2>5, <2>10, <2>14, <2>15, <2>16, <2>17 DEF MigratorInv, MigratorTypes
  <2>18. CASE Fails(p)
    BY <1>1, <2>5, <2>10, <2>15, <2>16, <2>18, StopsThere DEF Fails, MigratorInv, MigratorTypes
  <2> QED
    BY <1>3, <2>17, <2>18
<1> QED
  BY <1>4, <1>5

\* Up begins: what it makes is marked already.
LEMMA UpBeginsInv ==
    ASSUME MigratorInv, NEW p \in Processes, UpBegins(p) PROVE MigratorInv'
<1> DEFINE todo == proc[p].todo
           m == todo[1]
           rec == [proc[p] EXCEPT !.pc = "upping"]
<1>1. /\ proc[p].pc = "up" /\ proc[p].pc \in Active /\ proc[p].pc \in Working
      /\ UNCHANGED <<marks, torn>>
  BY DEF UpBegins, Active, Working
<1>2. CASE (Go(p, Off) \/ Fails(p)) /\ UNCHANGED schema
  BY <1>1, <1>2, Stops DEF Fails
<1>3. CASE schema' = [schema EXCEPT ![Head(todo)] = "partial"] /\ Go(p, rec)
  <2>1. /\ proc[p] \in Process /\ Len(todo) \in Nat \ {0} /\ Head(todo) = m
        /\ m \in Migrations /\ todo # << >>
    BY <1>1, TodoList, EmptySeq
  <2>2. MigratesOn(p) /\ Live(marks[m])
    BY <1>1 DEF MigratorInv, WorkOf, MigratesOn
  <2>3. rec \in Process
    BY <2>1 DEF Process, Active, Working
  <2>4. proc'[p] = rec /\ rec.pc = "upping" /\ rec.todo = todo /\ rec.group = proc[p].group
    BY <1>3, <2>1 DEF Go, MigratorInv, MigratorTypes, Process
  <2>5. /\ schema' \in [Migrations -> {"absent", "partial", "present"}]
        /\ \A x \in Migrations : x # m => schema'[x] = schema[x]
    BY <1>3, <2>1 DEF MigratorInv, MigratorTypes
  <2> HIDE DEF rec
  <2>6. WorkOf(p)'
    BY <1>1, <2>1, <2>2, <2>4 DEF WorkOf, MigratesOn, First
  <2>7. /\ proc' \in [Processes -> Process] /\ Exclusive'
        /\ \A q \in Processes : WorkOf(q)'
    BY <1>1, <1>3, <2>3, <2>4, <2>6, GoesOn
  <2>8. RowsGrouped' /\ UnmarkedAbsent'
    BY <1>1, <2>2, <2>5 DEF MigratorInv, RowsGrouped, UnmarkedAbsent
  <2> QED
    BY <1>1, <2>5, <2>7, <2>8 DEF MigratorInv, MigratorTypes
<1> QED
  BY <1>1, <1>2, <1>3 DEF UpBegins

\* Up ends: on to the rest of the list.
LEMMA UpEndsInv ==
    ASSUME MigratorInv, NEW p \in Processes, UpEnds(p) PROVE MigratorInv'
<1> DEFINE todo == proc[p].todo
           m == todo[1]
           rest == Tail(todo)
           next == [proc[p] EXCEPT !.todo = rest, !.pc = "mark"]
           rec == IF rest = << >> THEN Done ELSE next
<1>1. /\ proc[p].pc = "upping" /\ proc[p].pc \in Active /\ proc[p].pc \in Working
      /\ UNCHANGED <<marks, torn>>
  BY DEF UpEnds, Active, Working
<1>2. CASE Fails(p) /\ UNCHANGED schema
  BY <1>1, <1>2, Stops DEF Fails
<1>3. CASE schema' = [schema EXCEPT ![Head(todo)] = "present"] /\ Go(p, rec)
  <2>1. /\ proc[p] \in Process /\ Len(todo) \in Nat \ {0} /\ Head(todo) = m
        /\ m \in Migrations /\ todo # << >> /\ todo \in Seq(Migrations)
    BY <1>1, TodoList, EmptySeq
  <2>2. /\ rest \in Seq(Migrations) /\ Len(rest) = Len(todo) - 1
        /\ \A i \in 1..Len(rest) : rest[i] = todo[i + 1]
    BY <2>1, HeadTailProperties
  <2>3. MigratesOn(p) /\ Live(marks[m])
    BY <1>1 DEF MigratorInv, WorkOf, MigratesOn
  <2>4. next \in Process /\ next.pc = "mark" /\ next.todo = rest /\ next.group = proc[p].group
    BY <2>1, <2>2 DEF Process, Active, Working
  <2>5. rec \in Process
    BY <2>4, OffDone
  <2>6. proc'[p] = rec
    BY <1>3 DEF Go, MigratorInv, MigratorTypes
  <2>7. /\ schema' \in [Migrations -> {"absent", "partial", "present"}]
        /\ \A x \in Migrations : x # m => schema'[x] = schema[x]
    BY <1>3, <2>1 DEF MigratorInv, MigratorTypes
  <2> HIDE DEF rest, next
  <2>8. WorkOf(p)'
    <3>1. CASE rest = << >>
      BY <2>6, <3>1, OffDone DEF WorkOf, Working
    <3>2. CASE rest # << >>
      <4>1. proc'[p].pc = "mark" /\ proc'[p].todo = rest /\ proc'[p].group = proc[p].group
        BY <2>4, <2>6, <3>2
      <4>2. \A i \in 1..Len(rest) : i + 1 \in 2..Len(todo) /\ i + 1 \in 1..Len(todo)
        BY <2>1, <2>2
      <4>3. \A i \in 1..Len(rest) :
              /\ ~Live(marks[rest[i]])
              /\ \A x \in Migrations : Live(marks[x]) =>
                    Before(x, GroupIn(marks[x]), rest[i], proc[p].group)
        BY <1>1, <2>2, <2>3, <4>2 DEF MigratesOn, First
      <4>4. \A i, j \in 1..Len(rest) : i < j => rest[i] < rest[j]
        <5> SUFFICES ASSUME NEW i \in 1..Len(rest), NEW j \in 1..Len(rest), i < j
                     PROVE  rest[i] < rest[j]
          OBVIOUS
        <5>1. i \in Nat /\ j \in Nat /\ i + 1 < j + 1
          BY <2>1, <2>2
        <5>2. \A k, l \in 1..Len(todo) : k < l => todo[k] < todo[l]
          BY <2>3 DEF MigratesOn
        <5>3. todo[i + 1] < todo[j + 1]
          BY <4>2, <5>1, <5>2
        <5> QED
          BY <2>2, <5>3
      <4>5. MigratesOn(p)'
        BY <1>1, <2>3, <4>1, <4>3, <4>4 DEF MigratesOn, First
      <4> QED
        BY <3>2, <4>1, <4>5 DEF WorkOf
    <3> QED
      BY <3>1, <3>2
  <2>9. rec \in {Off, Done} \/ rec.pc \in {"mark", "up", "upping"}
    BY <2>4
  <2> HIDE DEF rec
  <2>10. /\ proc' \in [Processes -> Process] /\ Exclusive'
         /\ \A q \in Processes : WorkOf(q)'
    BY <1>1, <1>3, <2>5, <2>8, <2>9, GoesOn
  <2>11. RowsGrouped' /\ UnmarkedAbsent'
    BY <1>1, <2>3, <2>7 DEF MigratorInv, RowsGrouped, UnmarkedAbsent
  <2> QED
    BY <1>1, <2>7, <2>10, <2>11 DEF MigratorInv, MigratorTypes
<1> QED
  BY <1>2, <1>3 DEF UpEnds

\* Rollback reads the last group.
LEMMA ReadLastGroupInv ==
    ASSUME MigratorInv, NEW p \in Processes, ReadLastGroup(p) PROVE MigratorInv'
<1> DEFINE s == LastGroup(p)
           unmark == [proc[p] EXCEPT !.pc = "unmark", !.todo = s]
           drop == [proc[p] EXCEPT !.pc = "drop"]
<1>1. /\ proc[p].pc \in Active /\ proc[p] \in Process
      /\ UNCHANGED <<marks, schema, torn>>
  BY DEF ReadLastGroup, Active, MigratorInv, MigratorTypes
<1>2. p = Operator /\ p \notin Servers
  BY OperatorRollsBack DEF ReadLastGroup
<1>3. /\ s \in Seq(Migrations)
      /\ \A i \in 1..Len(s) : Live(marks[s[i]])
      /\ \A i, j \in 1..Len(s) : i < j => s[j] < s[i]
      /\ \A i \in 1..Len(s) : \A x \in Migrations : Live(marks[x]) =>
            \/ Before(x, GroupIn(marks[x]), s[i], GroupIn(marks[s[i]]))
            \/ \E j \in 1..i : x = s[j]
      /\ s = << >> => \A m \in Migrations : ~Live(marks[m])
  BY <1>2, LastGroupList DEF MigratorInv
<1> HIDE DEF s
<1>4. CASE Go(p, Off)
  BY <1>1, <1>4, Stops
<1>5. ASSUME NEW rec \in Process, Go(p, rec), WorkOf(p)' PROVE MigratorInv'
  <2>1. /\ proc' \in [Processes -> Process] /\ Exclusive'
        /\ \A q \in Processes : WorkOf(q)'
    BY <1>1, <1>2, <1>5, GoesOn
  <2>2. RowsGrouped' /\ UnmarkedAbsent'
    BY <1>1 DEF MigratorInv, RowsGrouped, UnmarkedAbsent
  <2> QED
    BY <1>1, <2>1, <2>2 DEF MigratorInv, MigratorTypes
<1>6. CASE s # << >> /\ Go(p, unmark)
  <2>1. unmark \in Process /\ unmark.pc = "unmark" /\ unmark.todo = s
    BY <1>1, <1>3 DEF Process, Active, Working
  <2>2. proc'[p] = unmark
    BY <1>6 DEF Go, MigratorInv, MigratorTypes
  <2> HIDE DEF unmark
  <2>3. WorkOf(p)'
    BY <1>1, <1>3, <1>6, <2>1, <2>2 DEF WorkOf, RollsBackOn, First
  <2> QED
    BY <1>5, <1>6, <2>1, <2>3
<1>7. CASE s = << >> /\ Go(p, drop)
  <2>1. drop \in Process /\ drop.pc = "drop"
    BY <1>1 DEF Process, Active, Working
  <2>2. proc'[p] = drop
    BY <1>7 DEF Go, MigratorInv, MigratorTypes
  <2> HIDE DEF drop
  <2>3. WorkOf(p)'
    BY <1>1, <1>3, <1>7, <2>1, <2>2 DEF WorkOf, Working
  <2> QED
    BY <1>5, <1>7, <2>1, <2>3
<1> QED
  BY <1>4, <1>6, <1>7 DEF ReadLastGroup, s

\* MarkUnapplied takes the end of the log away.
LEMMA MarkUnappliedInv ==
    ASSUME MigratorInv, NEW p \in Processes, MarkUnapplied(p) PROVE MigratorInv'
<1> DEFINE todo == proc[p].todo
           m == todo[1]
           rec == [proc[p] EXCEPT !.pc = "down"]
<1>1. /\ proc[p].pc = "unmark" /\ proc[p].pc \in Active /\ proc[p].pc \in Working
      /\ UNCHANGED schema
  BY DEF MarkUnapplied, Active, Working
<1>2. p \notin Servers
  BY <1>1, OperatorRollsBack
<1>3. /\ proc[p] \in Process /\ Len(todo) \in Nat \ {0} /\ Head(todo) = m
      /\ m \in Migrations /\ todo # << >>
      /\ \A i \in 1..Len(todo) : todo[i] \in Migrations
  BY <1>1, TodoList, EmptySeq
<1>4. PICK k \in 0..(MaxRetries + 1) :
            /\ Insert(m, -1, GroupOf(m), k) /\ Stored(p, k, rec)
            /\ torn' = IF k = 0 THEN torn ELSE torn \cup {m}
  BY <1>3 DEF MarkUnapplied
<1>5. k \in Nat /\ (k = 0 => Fails(p)) /\ (Go(p, rec) \/ Fails(p))
  BY <1>4, RetriesAssumption DEF Stored
<1>6. CASE k = 0
  <2>1. marks' = marks
    BY <1>3, <1>4, <1>6, NoRow DEF MigratorInv, MigratorTypes
  <2> QED
    BY <1>1, <1>4, <1>5, <1>6, <2>1, Stops DEF Fails
<1>7. CASE k # 0
  <2>0. k \in Nat \ {0} /\ torn' = torn \cup {m}
    BY <1>4, <1>5, <1>7
  <2>1. RollsBackOn(p)
    BY <1>1 DEF MigratorInv, WorkOf
  <2>2. /\ \A i \in 1..Len(todo) : Live(marks[todo[i]])
        /\ \A i \in 1..Len(todo) : \A x \in Migrations : Live(marks[x]) =>
            \/ Before(x, GroupIn(marks[x]), todo[i], GroupIn(marks[todo[i]]))
            \/ \E j \in 1..i : x = todo[j]
            \/ marks[x].newest # 1
        /\ \A i, j \in 1..Len(todo) : i < j => todo[j] < todo[i]
    BY <1>1, <2>1 DEF RollsBackOn, First
  <2>3. marks \in [Migrations -> Row] /\ GroupOf(m) \in Nat /\ Live(marks[m])
    BY <1>3, <2>2, TableReads DEF MigratorInv, MigratorTypes
  <2> DEFINE g == GroupOf(m)
  <2> HIDE DEF g, m
  <2>4. g \in Nat /\ Insert(m, -1, g, k)
    BY <1>4, <2>3 DEF g
  <2>5. /\ marks' \in [Migrations -> Row]
        /\ \A x \in Migrations : x # m => marks'[x] = marks[x]
    BY <1>3, <2>0, <2>3, <2>4, UnmarkRow
  <2>6. /\ marks'[m].newest = -1 /\ marks'[m].stateGroup = marks[m].stateGroup
        /\ marks'[m].state = marks[m].state /\ marks'[m].cancel = marks[m].cancel + k
        /\ marks'[m].cancelGroup = IF marks[m].cancel = 0 THEN g ELSE marks[m].cancelGroup
    BY <1>3, <2>0, <2>3, <2>4, UnmarkRow
  <2>7. rec \in Process
    BY <1>3 DEF Process, Active, Working
  <2>8. (Go(p, rec) => proc'[p] = rec) /\ rec.pc = "down" /\ rec.todo = todo
    BY <1>3 DEF Go, MigratorInv, MigratorTypes, Process
  <2> HIDE DEF rec
  <2>9. ASSUME NEW i \in 2..Len(todo)
        PROVE  todo[i] \in Migrations /\ todo[i] # m /\ i \in 1..Len(todo)
    <3>1. i \in 1..Len(todo) /\ 1 \in 1..Len(todo) /\ 1 < i
      BY <1>3
    <3>2. todo[i] \in Migrations /\ todo[i] < m /\ m \in Migrations
      BY <1>3, <2>2, <3>1 DEF m
    <3> QED
      BY <3>1, <3>2, MigrationSets
  <2>10. ASSUME Go(p, rec) PROVE RollsBackOn(p)'
    <3>1. ASSUME NEW i \in 2..Len(todo)
          PROVE  /\ Live(marks'[todo[i]])
                 /\ \A x \in Migrations : Live(marks'[x]) =>
                    \/ Before(x, GroupIn(marks'[x]), todo[i], GroupIn(marks'[todo[i]]))
                    \/ \E j \in 2..i : x = todo[j]
                    \/ marks'[x].newest # 1
      <4>1. marks'[todo[i]] = marks[todo[i]] /\ Live(marks[todo[i]])
        BY <2>2, <2>5, <2>9
      <4> SUFFICES ASSUME NEW x \in Migrations, Live(marks'[x]), marks'[x].newest = 1
                   PROVE  \/ Before(x, GroupIn(marks'[x]), todo[i], GroupIn(marks'[todo[i]]))
                          \/ \E j \in 2..i : x = todo[j]
        BY <4>1
      <4>2. x # m /\ marks'[x] = marks[x]
        BY <2>5, <2>6
      <4>3. \/ Before(x, GroupIn(marks[x]), todo[i], GroupIn(marks[todo[i]]))
            \/ \E j \in 1..i : x = todo[j]
        BY <2>2, <2>9, <4>2
      <4>4. ASSUME NEW j \in 1..i, x = todo[j] PROVE j \in 2..i
        BY <4>2, <4>4 DEF m
      <4> QED
        BY <4>1, <4>2, <4>3, <4>4
    <3>2. m \in torn'
      BY <2>0
    <3> QED
      BY <2>2, <2>8, <2>10, <3>1, <3>2 DEF RollsBackOn, First, m
  <2>11. ASSUME Go(p, rec) PROVE WorkOf(p)'
    BY <1>3, <2>8, <2>10, <2>11 DEF WorkOf
  <2>12. ASSUME Go(p, rec)
         PROVE  /\ proc' \in [Processes -> Process] /\ Exclusive'
                /\ \A q \in Processes : WorkOf(q)'
    BY <1>1, <1>2, <2>7, <2>11, <2>12, GoesOn
  <2>13. RowsGrouped'
    <3> SUFFICES ASSUME NEW x \in Migrations
                 PROVE  /\ marks'[x].newest = 1 => marks'[x].state > 0
                        /\ marks'[x].state > 0 => marks'[x].stateGroup > 0
                        /\ marks'[x].cancel > 0 => marks'[x].cancelGroup > 0
      BY DEF RowsGrouped
    <3>1. CASE x = m
      <4>1. g > 0
        BY <1>3, <2>3, TableReads DEF MigratorInv, g
      <4>2. marks[m].cancel \in Nat
        BY <1>3, <2>3 DEF Row
      <4> QED
        BY <1>3, <2>6, <3>1, <4>1, <4>2 DEF MigratorInv, RowsGrouped
    <3>2. CASE x # m
      BY <2>5, <3>2 DEF MigratorInv, RowsGrouped
    <3> QED
      BY <3>1, <3>2
  <2>14. UnmarkedAbsent'
    BY <1>1, <2>0, <2>5 DEF MigratorInv, UnmarkedAbsent
  <2>15. torn' \subseteq Migrations
    BY <1>3, <2>0 DEF MigratorInv, MigratorTypes
  <2>16. CASE Go(p, rec)
    BY <1>1, <2>5, <2>12, <2>13, <2>14, <2>15, <2>16 DEF MigratorInv, MigratorTypes
  <2>17. CASE Fails(p)
    BY <1>1, <2>5, <2>13, <2>14, <2>15, <2>17, StopsThere DEF Fails
  <2> QED
    BY <1>5, <2>16, <2>17
<1> QED
  BY <1>6, <1>7

\* Down undoes what was unmarked, or leaves it torn; on to the rest of the list.
LEMMA DownInv ==
    ASSUME MigratorInv, NEW p \in Processes, Down(p) PROVE MigratorInv'
<1> DEFINE todo == proc[p].todo
           m == todo[1]
           rest == Tail(todo)
           next == IF rest # << >> THEN "unmark" ELSE IF proc[p].cmd = "reset" THEN "read" ELSE "off"
           on == [proc[p] EXCEPT !.todo = rest, !.pc = next]
           rec == IF next = "off" THEN Off ELSE on
<1>1. /\ proc[p].pc = "down" /\ proc[p].pc \in Active /\ proc[p].pc \in Working
      /\ UNCHANGED marks
  BY DEF Down, Active, Working
<1>2. p \notin Servers
  BY <1>1, OperatorRollsBack
<1>3. /\ proc[p] \in Process /\ Len(todo) \in Nat \ {0} /\ Head(todo) = m
      /\ m \in Migrations /\ todo # << >> /\ todo \in Seq(Migrations)
  BY <1>1, TodoList, EmptySeq
<1>4. RollsBackOn(p) /\ m \in torn
  BY <1>1 DEF MigratorInv, WorkOf, RollsBackOn
<1>5. ASSUME schema' \in [Migrations -> {"absent", "partial", "present"}],
             \A x \in Migrations : x # m => schema'[x] = schema[x],
             NEW r \in Process, Go(p, r), WorkOf(p)',
             \/ UNCHANGED torn
             \/ torn' = torn \ {m} /\ schema'[m] = "absent"
      PROVE  MigratorInv'
  <2>1. /\ proc' \in [Processes -> Process] /\ Exclusive'
        /\ \A q \in Processes : WorkOf(q)'
    BY <1>1, <1>2, <1>5, GoesOn
  <2>2. RowsGrouped'
    BY <1>1 DEF MigratorInv, RowsGrouped
  <2>3. UnmarkedAbsent'
    BY <1>1, <1>4, <1>5 DEF MigratorInv, UnmarkedAbsent
  <2> QED
    BY <1>1, <1>5, <2>1, <2>2, <2>3 DEF MigratorInv, MigratorTypes
<1>6. CASE /\ schema' = [schema EXCEPT ![m] = IF schema[m] = "present" THEN "partial" ELSE schema[m]]
           /\ Fails(p) /\ UNCHANGED torn
  <2>1. proc'[p] = Off /\ Go(p, Off)
    BY <1>6 DEF Fails, Go, MigratorInv, MigratorTypes
  <2>2. WorkOf(p)'
    BY <2>1, OffDone, RestingWork DEF Active, Working
  <2>3. /\ schema' \in [Migrations -> {"absent", "partial", "present"}]
        /\ \A x \in Migrations : x # m => schema'[x] = schema[x]
    BY <1>3, <1>6 DEF MigratorInv, MigratorTypes
  <2> QED
    BY <1>5, <1>6, <2>1, <2>2, <2>3, OffDone
<1>7. CASE schema' = [schema EXCEPT ![m] = "absent"] /\ torn' = torn \ {m} /\ Go(p, rec)
  <2>1. /\ schema' \in [Migrations -> {"absent", "partial", "present"}]
        /\ \A x \in Migrations : x # m => schema'[x] = schema[x]
        /\ schema'[m] = "absent"
    BY <1>3, <1>7 DEF MigratorInv, MigratorTypes
  <2>2. /\ rest \in Seq(Migrations) /\ Len(rest) = Len(todo) - 1
        /\ \A i \in 1..Len(rest) : rest[i] = todo[i + 1]
    BY <1>3, HeadTailProperties
  <2> HIDE DEF rest
  <2>3. next # "off" => on \in Process /\ on.pc = next /\ on.todo = rest
    BY <1>3, <2>2 DEF Process, Active, Working
  <2>4. rec \in Process
    BY <2>3, OffDone
  <2>5. proc'[p] = rec
    BY <1>7 DEF Go, MigratorInv, MigratorTypes
  <2>6. WorkOf(p)'
    <3>1. CASE rest = << >>
      BY <2>3, <2>5, <3>1, OffDone DEF WorkOf, Working
    <3>2. CASE rest # << >>
      <4>1. proc'[p].pc = "unmark" /\ proc'[p].todo = rest
        BY <2>3, <2>5, <3>2
      <4>2. \A i \in 1..Len(rest) : i + 1 \in 2..Len(todo) /\ i + 1 \in 1..Len(todo)
        BY <1>3, <2>2
      <4>3. ASSUME NEW i \in 1..Len(rest)
            PROVE  /\ Live(marks[rest[i]])
                   /\ \A x \in Migrations : Live(marks[x]) =>
                        \/ Before(x, GroupIn(marks[x]), rest[i], GroupIn(marks[rest[i]]))
                        \/ \E j \in 1..i : x = rest[j]
                        \/ marks[x].newest # 1
        <5>1. /\ Live(marks[todo[i + 1]])
              /\ \A x \in Migrations : Live(marks[x]) =>
                  \/ Before(x, GroupIn(marks[x]), todo[i + 1], GroupIn(marks[todo[i + 1]]))
                  \/ \E j \in 2..(i + 1) : x = todo[j]
                  \/ marks[x].newest # 1
          BY <1>1, <1>4, <4>2 DEF RollsBackOn, First
        <5>2. ASSUME NEW j \in 2..(i + 1) PROVE j - 1 \in 1..i /\ rest[j - 1] = todo[j]
          <6>1. j - 1 \in 1..Len(rest) /\ j - 1 \in 1..i /\ (j - 1) + 1 = j
            BY <1>3, <2>2
          <6> QED
            BY <2>2, <6>1
        <5>3. rest[i] = todo[i + 1]
          BY <2>2
        <5> QED
          BY <5>1, <5>2, <5>3
      <4>4. \A i, j \in 1..Len(rest) : i < j => rest[j] < rest[i]
        <5> SUFFICES ASSUME NEW i \in 1..Len(rest), NEW j \in 1..Len(rest), i < j
                     PROVE  rest[j] < rest[i]
          OBVIOUS
        <5>1. i \in Nat /\ j \in Nat /\ i + 1 < j + 1
          BY <1>3, <2>2
        <5>2. \A k, l \in 1..Len(todo) : k < l => todo[l] < todo[k]
          BY <1>4 DEF RollsBackOn
        <5>3. todo[j + 1] < todo[i + 1]
          BY <4>2, <5>1, <5>2
        <5> QED
          BY <2>2, <5>3
      <4>5. RollsBackOn(p)'
        BY <1>1, <4>1, <4>3, <4>4 DEF RollsBackOn, First
      <4> QED
        BY <3>2, <4>1, <4>5 DEF WorkOf
    <3> QED
      BY <3>1, <3>2
  <2> HIDE DEF rec, on, next
  <2> QED
    BY <1>5, <1>7, <2>1, <2>4, <2>6
<1> QED
  BY <1>3, <1>6, <1>7 DEF Down

\* DropTable comes after the last group was undone: it drops no mark.
LEMMA DropTableInv ==
    ASSUME MigratorInv, NEW p \in Processes, DropTable(p) PROVE MigratorInv'
<1> DEFINE rec == [proc[p] EXCEPT !.pc = "read", !.cmd = "migrate"]
<1>1. /\ proc[p].pc = "drop" /\ proc[p].pc \in Active /\ proc[p] \in Process
      /\ UNCHANGED <<schema, torn>> /\ Go(p, rec)
  BY DEF DropTable, Active, MigratorInv, MigratorTypes
<1>2. p \notin Servers
  BY <1>1, OperatorRollsBack
<1>3. \A m \in Migrations : ~Live(marks[m])
  BY <1>1 DEF MigratorInv, WorkOf
<1>4. \A m \in Migrations : marks'[m] = NoRows
  BY DEF DropTable
<1>5. NoRows \in Row /\ NoRows.newest = 0 /\ NoRows.state = 0 /\ NoRows.cancel = 0
  BY DEF NoRows, Row
<1>6. marks' \in [Migrations -> Row]
  BY <1>5 DEF DropTable
<1>7. rec \in Process /\ rec.pc = "read"
  BY <1>1 DEF Process, Active, Working
<1>8. proc'[p] = rec
  BY <1>1 DEF Go, MigratorInv, MigratorTypes
<1> HIDE DEF rec
<1>9. WorkOf(p)'
  BY <1>7, <1>8 DEF WorkOf, Working
<1>10. /\ proc' \in [Processes -> Process] /\ Exclusive'
       /\ \A q \in Processes : WorkOf(q)'
  BY <1>1, <1>2, <1>7, <1>9, GoesOn
<1>11. RowsGrouped'
  BY <1>4, <1>5 DEF RowsGrouped
<1>12. UnmarkedAbsent'
  BY <1>1, <1>3 DEF MigratorInv, UnmarkedAbsent
<1> QED
  BY <1>1, <1>6, <1>10, <1>11, <1>12 DEF MigratorInv, MigratorTypes

\* A process that is not at work starts, ends or waits for the lock.
LEMMA IdleStep ==
    ASSUME MigratorInv, NEW p \in Processes, proc[p].pc \notin Active,
           NEW rec \in Process, Go(p, rec), UNCHANGED <<marks, schema, torn>>,
           \/ rec = Off
           \/ /\ p \in Servers /\ proc[Operator] = Off
              /\ rec.pc = "wait" /\ rec.cmd = "serve"
    PROVE  MigratorInv'
<1>1. proc' = [proc EXCEPT ![p] = rec] /\ proc' \in [Processes -> Process]
  BY DEF Go, MigratorInv, MigratorTypes
<1>2. /\ proc'[p] = rec /\ rec.pc \notin Active
      /\ \A q \in Processes : q # p => proc'[q] = proc[q]
  BY <1>1, OffDone DEF MigratorInv, MigratorTypes, Active, Working
<1>3. \A q \in Processes : WorkOf(q)'
  <2> SUFFICES ASSUME NEW q \in Processes PROVE WorkOf(q)'
    OBVIOUS
  <2>1. CASE q = p
    BY <1>2, <2>1, RestingWork
  <2>2. CASE q # p
    <3>1. proc'[q] = proc[q] /\ WorkOf(q)
      BY <1>2, <2>2 DEF MigratorInv
    <3> QED
      BY <3>1 DEF WorkOf, MigratesOn, RollsBackOn, First
  <2> QED
    BY <2>1, <2>2
<1>4. \A q \in Servers :
        /\ proc'[q].pc \in {"off", "wait", "read", "mark", "up", "upping", "done"}
        /\ proc'[q].pc \in Active => lock' = q
        /\ proc'[q].pc \in {"wait", "read"} => proc'[q].cmd = "serve"
  <2> SUFFICES ASSUME NEW q \in Servers
               PROVE  /\ proc'[q].pc \in {"off", "wait", "read", "mark", "up", "upping", "done"}
                      /\ proc'[q].pc \in Active => lock' = q
                      /\ proc'[q].pc \in {"wait", "read"} => proc'[q].cmd = "serve"
    OBVIOUS
  <2>1. CASE q = p
    BY <1>2, <2>1, OffDone
  <2>2. CASE q # p
    <3>1. q \in Processes /\ proc'[q] = proc[q]
      BY <1>2, <2>2 DEF Processes
    <3>2. proc[q].pc \in Active => lock = q /\ lock' = q
      BY <2>2 DEF Go, MigratorInv, Exclusive
    <3> QED
      BY <3>1, <3>2 DEF MigratorInv, Exclusive
  <2> QED
    BY <2>1, <2>2
<1>5. proc'[Operator] # Off => \A q \in Servers : proc'[q].pc \in {"off", "done"}
  <2> SUFFICES ASSUME proc'[Operator] # Off, NEW q \in Servers
               PROVE  proc'[q].pc \in {"off", "done"}
    OBVIOUS
  <2>1. Operator \in Processes /\ q \in Processes /\ q # Operator
    BY NamesAssumption DEF Processes
  <2>2. proc[Operator] # Off
    BY <1>2, <2>1, NamesAssumption
  <2>3. proc[q].pc \in {"off", "done"}
    BY <2>2 DEF MigratorInv, Exclusive
  <2> QED
    BY <1>2, <2>1, <2>2, <2>3, OffDone
<1>6. Exclusive'
  BY <1>4, <1>5 DEF Exclusive
<1>7. RowsGrouped' /\ UnmarkedAbsent'
  BY DEF MigratorInv, RowsGrouped, UnmarkedAbsent
<1> QED
  BY <1>1, <1>3, <1>6, <1>7 DEF MigratorInv, MigratorTypes

\* A process starts its work when no other is at work.
LEMMA WorkBegins ==
    ASSUME MigratorInv, NEW p \in Processes,
           \A q \in Processes : q # p => proc[q].pc \notin Active,
           NEW rec \in Process, rec.pc = "read", proc' = [proc EXCEPT ![p] = rec],
           UNCHANGED <<marks, schema, torn>>,
           \/ p \in Servers /\ lock' = p /\ rec.cmd = "serve" /\ proc[Operator] = Off
           \/ p = Operator /\ \A q \in Servers : proc[q].pc \in {"off", "done"}
    PROVE  MigratorInv'
<1>1. proc' \in [Processes -> Process]
  BY DEF MigratorInv, MigratorTypes
<1>2. /\ proc'[p] = rec
      /\ \A q \in Processes : q # p => proc'[q] = proc[q]
  BY <1>1 DEF MigratorInv, MigratorTypes
<1>3. \A q \in Processes : WorkOf(q)'
  BY <1>2 DEF WorkOf, Active, Working
<1>4. Servers \subseteq Processes /\ Operator \in Processes /\ Operator \notin Servers
  BY NamesAssumption DEF Processes
<1>5. Exclusive'
  <2>1. CASE p \in Servers /\ lock' = p /\ rec.cmd = "serve" /\ proc[Operator] = Off
    BY <1>2, <1>4, <2>1 DEF MigratorInv, Exclusive
  <2>2. CASE p = Operator /\ \A q \in Servers : proc[q].pc \in {"off", "done"}
    <3>1. \A q \in Servers : proc'[q].pc \in {"off", "done"}
      BY <1>2, <1>4, <2>2
    <3> QED
      BY <3>1 DEF Exclusive, Active, Working
  <2> QED
    BY <2>1, <2>2
<1>6. RowsGrouped' /\ UnmarkedAbsent'
  BY DEF MigratorInv, RowsGrouped, UnmarkedAbsent
<1> QED
  BY <1>1, <1>3, <1>5, <1>6 DEF MigratorInv, MigratorTypes

\* StartServer and TakeLock.
LEMMA ServerStartsInv ==
    ASSUME MigratorInv, NEW p \in Servers, StartServer(p) \/ TakeLock(p) PROVE MigratorInv'
<1>1. p \in Processes /\ p # Operator /\ Operator \in Processes
  BY NamesAssumption DEF Processes
<1>2. proc[p] \in Process
  BY <1>1 DEF MigratorInv, MigratorTypes
<1>3. CASE StartServer(p)
  <2> DEFINE rec == [Off EXCEPT !.pc = "wait", !.cmd = "serve"]
  <2>1. rec \in Process /\ rec.pc = "wait" /\ rec.cmd = "serve"
    BY OffDone DEF Process, Off
  <2>2. Go(p, rec) /\ UNCHANGED <<marks, schema, torn>> /\ proc[Operator] = Off
    BY <1>3 DEF StartServer, Quiet
  <2>3. proc[p].pc \notin Active
    BY <1>3, OffDone DEF StartServer, Active, Working
  <2> HIDE DEF rec
  <2> QED
    BY <1>1, <2>1, <2>2, <2>3, IdleStep
<1>4. CASE TakeLock(p)
  <2> DEFINE rec == [proc[p] EXCEPT !.pc = "read"]
  <2>1. rec \in Process /\ rec.pc = "read" /\ rec.cmd = "serve"
    BY <1>2, <1>4 DEF Process, Active, Working, TakeLock, MigratorInv, Exclusive
  <2>2. /\ proc' = [proc EXCEPT ![p] = rec] /\ lock' = p /\ lock = NoOne
        /\ UNCHANGED <<marks, schema, torn>>
    BY <1>4 DEF TakeLock
  <2>3. proc[Operator] = Off
    BY <1>4 DEF TakeLock, MigratorInv, Exclusive
  <2>4. \A q \in Processes : q # p => proc[q].pc \notin Active
    <3> SUFFICES ASSUME NEW q \in Processes, proc[q].pc \in Active PROVE FALSE
      OBVIOUS
    <3>1. q # Operator
      BY <2>3, OffDone DEF Active, Working
    <3>2. q \in Servers /\ lock = q
      BY <3>1 DEF Processes, MigratorInv, Exclusive
    <3> QED
      BY <2>2, <3>2, NamesAssumption DEF Processes
  <2> HIDE DEF rec
  <2> QED
    BY <1>1, <2>1, <2>2, <2>3, <2>4, WorkBegins
<1> QED
  BY <1>3, <1>4

\* The commands start and end.
LEMMA CommandsInv ==
    ASSUME MigratorInv,
           EndCommand \/ \E cmd \in {"migrate", "rollback", "reset"} : StartCommand(cmd)
    PROVE  MigratorInv'
<1>1. Operator \in Processes
  BY DEF Processes
<1>2. CASE EndCommand
  <2>1. /\ proc[Operator].pc \notin Active /\ Go(Operator, Off)
        /\ UNCHANGED <<marks, schema, torn>>
    BY <1>2 DEF EndCommand, Active, Working
  <2> QED
    BY <1>1, <2>1, OffDone, IdleStep
<1>3. ASSUME NEW cmd \in {"migrate", "rollback", "reset"}, StartCommand(cmd) PROVE MigratorInv'
  <2> DEFINE rec == [Off EXCEPT !.pc = "read", !.cmd = cmd]
  <2>1. rec \in Process /\ rec.pc = "read"
    BY OffDone DEF Process, Off, Active, Working
  <2>2. /\ proc' = [proc EXCEPT ![Operator] = rec] /\ UNCHANGED <<marks, schema, torn>>
        /\ \A q \in Servers : proc[q].pc \in {"off", "done"}
    BY <1>3 DEF StartCommand, Go
  <2>3. \A q \in Processes : q # Operator => proc[q].pc \notin Active
    BY <2>2 DEF Processes, Active, Working
  <2> HIDE DEF rec
  <2> QED
    BY <1>1, <2>1, <2>2, <2>3, WorkBegins
<1> QED
  BY <1>2, <1>3

\* A crash, at any point.
LEMMA MigratorCrashInv ==
    ASSUME MigratorInv, NEW p \in Processes, MigratorCrash(p) PROVE MigratorInv'
<1>1. Go(p, Off) /\ UNCHANGED <<marks, schema, torn>>
  BY DEF MigratorCrash
<1>2. CASE proc[p].pc \in Active
  BY <1>1, <1>2, Stops
<1>3. CASE proc[p].pc \notin Active
  BY <1>1, <1>3, OffDone, IdleStep
<1> QED
  BY <1>2, <1>3

\* No one has migrated yet.
LEMMA MigratorInitInv == MigratorInit => MigratorInv
<1> SUFFICES ASSUME MigratorInit PROVE MigratorInv
  OBVIOUS
<1>1. \A m \in Migrations : marks[m] = NoRows /\ schema[m] = "absent"
  BY DEF MigratorInit
<1>2. NoRows \in Row /\ NoRows.newest = 0 /\ NoRows.state = 0 /\ NoRows.cancel = 0
  BY DEF NoRows, Row
<1>3. \A p \in Processes : proc[p] = Off
  BY DEF MigratorInit
<1>4. MigratorTypes
  BY <1>2, OffDone DEF MigratorInit, MigratorTypes
<1>5. Exclusive
  BY <1>3, OffDone DEF Exclusive, Processes, Active, Working
<1>6. RowsGrouped /\ UnmarkedAbsent
  BY <1>1, <1>2 DEF RowsGrouped, UnmarkedAbsent
<1>7. \A p \in Processes : WorkOf(p)
  BY <1>3, OffDone DEF WorkOf, Working
<1> QED
  BY <1>4, <1>5, <1>6, <1>7 DEF MigratorInv

\* Every step of the migrator keeps the invariant.
LEMMA MigratorStepInv == MigratorInv /\ [MigratorNext]_migratorVars => MigratorInv'
<1> SUFFICES ASSUME MigratorInv, [MigratorNext]_migratorVars PROVE MigratorInv'
  OBVIOUS
<1>1. CASE UNCHANGED migratorVars
  BY <1>1 DEF migratorVars, MigratorInv, MigratorTypes, Exclusive, RowsGrouped,
              UnmarkedAbsent, WorkOf, MigratesOn, RollsBackOn, First
<1>2. ASSUME NEW p \in Processes, MigratorStep(p) PROVE MigratorInv'
  BY <1>2, ReadMigrationsInv, MarkAppliedInv, UpBeginsInv, UpEndsInv, ReadLastGroupInv,
     MarkUnappliedInv, DownInv, DropTableInv DEF MigratorStep
<1> QED
  BY <1>1, <1>2, ServerStartsInv, CommandsInv, MigratorCrashInv DEF MigratorNext

\* The server's steps are the migrator's, or leave it alone.
LEMMA ServerMigrates == [Next]_vars => [MigratorNext]_migratorVars
<1> SUFFICES ASSUME [Next]_vars PROVE [MigratorNext]_migratorVars
  OBVIOUS
<1>1. CASE UNCHANGED vars
  BY <1>1 DEF vars
<1>2. ASSUME NEW p \in Servers,
             \/ createProject(p) \/ InsertErrorMonitor(p) \/ syncDashboards(p) \/ Serves(p)
             \/ TakeJob(p)
      PROVE  UNCHANGED migratorVars
  BY <1>2 DEF createProject, InsertErrorMonitor, syncDashboards, Serves, TakeJob
<1>3. ASSUME NEW p \in Savers, Saves(p) PROVE UNCHANGED migratorVars
  BY <1>3 DEF Saves
<1>4. CASE ReceiveMetric \/ UserEdits
  BY <1>4 DEF ReceiveMetric, UserEdits
<1>5. ASSUME NEW p \in Servers, Crash(p) PROVE MigratorNext
  BY <1>5 DEF Crash, MigratorNext, Processes
<1>6. CASE CommandCrash
  BY <1>6 DEF CommandCrash, MigratorNext, Processes
<1>7. CASE Commands
  BY <1>7 DEF Commands, MigratorNext
<1>8. ASSUME NEW p \in Processes, Migrates(p) PROVE MigratorNext
  BY <1>8 DEF Migrates, MigratorNext
<1> QED
  BY <1>1, <1>2, <1>3, <1>4, <1>5, <1>6, <1>7, <1>8 DEF Next

\* The invariant holds in every state of the server.
LEMMA MigratorInvariant == Spec => []MigratorInv
<1>1. Init => MigratorInv
  BY MigratorInitInv DEF Init
<1>2. MigratorInv /\ [Next]_vars => MigratorInv'
  BY MigratorStepInv, ServerMigrates
<1> QED
  BY <1>1, <1>2, PTL DEF Spec

\* A migration runs only where nothing of it is there, or where undoing it was
\* cut off: the lock keeps servers apart, and the mark comes before Up.
THEOREM MigrationsRunOnce == Spec => []UpOnce
<1>1. MigratorInv => UpOnce
  <2> SUFFICES ASSUME MigratorInv, NEW p \in Processes, proc[p].pc = "up"
               PROVE  LET m == Head(proc[p].todo) IN schema[m] = "absent" \/ m \in torn
    BY DEF UpOnce
  <2>1. proc[p].pc \in Working /\ MigratesOn(p)
    BY DEF MigratorInv, WorkOf, Working
  <2> QED
    BY <2>1, TodoList DEF MigratesOn
<1> QED
  BY <1>1, MigratorInvariant, PTL

-----------------------------------------------------------------------------
(* The table implements the log.                                           *)

\* What is marked, and the group of its mark.
Marked == {m \in Migrations : Live(marks[m])}
MarkLog == [m \in Marked |-> GroupIn(marks[m])]

LogReads == AppliedLog = MarkLog /\ DOMAIN AppliedLog = Marked /\ Applied = Marked

\* A step of the log; or a mark or its cancellation is there twice, and nothing
\* is added.
LogStepped == Log!Next \/ (~(MarkedOnce /\ MarkedOnce') /\ Applied' \subseteq Applied)

\* The log that the table implements has what is marked.
LEMMA LogOfMarks == MigratorInv => LogReads
<1> SUFFICES ASSUME MigratorTypes, RowsGrouped PROVE LogReads
  BY DEF MigratorInv
<1>1. Applied = Marked /\ \A m \in Migrations : GroupOf(m) = GroupIn(marks[m])
  BY TableReads DEF Marked
<1>2. Marked \subseteq Migrations
  BY DEF Marked
<1> QED
  BY <1>1, <1>2 DEF AppliedLog, MarkLog, LogReads

\* So it has after every step.
LEMMA LogOfMarksNext == MigratorInv' => LogReads'
BY LogOfMarks, PTL

\* MarkApplied is the log's Apply.
LEMMA MarkAppliedApplies ==
    ASSUME MigratorInv, MigratorInv', NEW p \in Processes, MarkApplied(p)
    PROVE  [LogStepped]_AppliedLog
<1> DEFINE m == proc[p].todo[1]
           g == proc[p].group
<1>1. AppliedLog = MarkLog /\ DOMAIN AppliedLog = Marked
  BY LogOfMarks DEF LogReads
<1>2. AppliedLog' = MarkLog' /\ DOMAIN AppliedLog' = Marked'
  BY LogOfMarksNext DEF LogReads
<1>3. CASE UNCHANGED marks
  BY <1>1, <1>2, <1>3 DEF MarkLog, Marked
<1>4. ASSUME NEW k \in Nat, k # 0, Insert(Head(proc[p].todo), 1, g, k) PROVE Log!Next
  <2>1. /\ proc[p].pc = "mark" /\ proc[p] \in Process /\ MigratesOn(p)
        /\ Len(proc[p].todo) \in Nat \ {0} /\ m \in Migrations /\ Head(proc[p].todo) = m
    BY TodoList DEF MarkApplied, Working, MigratorInv, WorkOf
  <2>2. 1 \in First(p)..Len(proc[p].todo)
    BY <2>1 DEF First
  <2>3. /\ ~Live(marks[m]) /\ g \in Nat
        /\ \A x \in Migrations : Live(marks[x]) => Before(x, GroupIn(marks[x]), m, g)
        /\ g = 1 \/ \E x \in Migrations : Live(marks[x]) /\ GroupIn(marks[x]) \in {g - 1, g}
    BY <2>1, <2>2 DEF MigratesOn, Process
  <2> HIDE DEF m, g
  <2>4. /\ \A x \in Migrations : x # m => marks'[x] = marks[x]
        /\ Live(marks'[m]) /\ GroupIn(marks'[m]) = g
    BY <1>4, <2>1, <2>3, MarkRow DEF MigratorInv, MigratorTypes, g
  <2>5. m \notin Marked /\ Marked' = Marked \cup {m}
    BY <2>1, <2>3, <2>4 DEF Marked
  <2>6. \A x \in Marked : MarkLog'[x] = MarkLog[x] /\ MarkLog[x] = GroupIn(marks[x])
    BY <2>3, <2>4, <2>5 DEF Marked, MarkLog
  <2>7. MarkLog'[m] = g
    BY <2>4, <2>5 DEF MarkLog
  <2>8. Log!After(m, g)
    BY <1>1, <2>3, <2>6 DEF Log!After, Log!Names, Before, Marked
  <2>9. Log!NextGroup(g)
    BY <1>1, <2>3, <2>6 DEF Log!NextGroup, Log!Names, Marked
  <2>10. Log!Apply(m)
    BY <1>1, <1>2, <2>5, <2>6, <2>7, <2>8, <2>9 DEF Log!Apply, Log!Names
  <2> QED
    BY <2>1, <2>10 DEF Log!Next
<1> HIDE DEF g
<1>5. PICK k \in Nat : Insert(Head(proc[p].todo), 1, g, k)
  BY RetriesAssumption DEF MarkApplied, g
<1>6. CASE k = 0
  <2>1. Head(proc[p].todo) \in Migrations
    BY TodoList DEF MarkApplied, Working
  <2> QED
    BY <1>3, <1>5, <1>6, <2>1, NoRow DEF MigratorInv, MigratorTypes
<1> QED
  BY <1>4, <1>5, <1>6 DEF LogStepped

\* MarkUnapplied is the log's Undo, if the mark and the row that cancels it are
\* there once.
LEMMA MarkUnappliedUndoes ==
    ASSUME MigratorInv, MigratorInv', NEW p \in Processes, MarkUnapplied(p)
    PROVE  [LogStepped]_AppliedLog
<1> DEFINE m == proc[p].todo[1]
<1>1. AppliedLog = MarkLog /\ DOMAIN AppliedLog = Marked /\ Applied = Marked
  BY LogOfMarks DEF LogReads
<1>2. AppliedLog' = MarkLog' /\ DOMAIN AppliedLog' = Marked' /\ Applied' = Marked'
  BY LogOfMarksNext DEF LogReads
<1>3. CASE UNCHANGED marks
  BY <1>1, <1>2, <1>3 DEF MarkLog, Marked
<1>4. ASSUME NEW k \in Nat, k # 0,
             Insert(Head(proc[p].todo), -1, GroupOf(Head(proc[p].todo)), k)
      PROVE  LogStepped
  <2>1. /\ proc[p].pc = "unmark" /\ RollsBackOn(p)
        /\ Len(proc[p].todo) \in Nat \ {0} /\ m \in Migrations /\ Head(proc[p].todo) = m
    BY TodoList DEF MarkUnapplied, Working, MigratorInv, WorkOf
  <2>2. 1 \in First(p)..Len(proc[p].todo)
    BY <2>1 DEF First
  <2>3. \A x \in Migrations : Live(marks[x]) =>
            \/ Before(x, GroupIn(marks[x]), m, GroupIn(marks[m]))
            \/ \E j \in First(p)..1 : x = proc[p].todo[j]
            \/ marks[x].newest # 1
    BY <2>1, <2>2 DEF RollsBackOn
  <2>4. \A j \in First(p)..1 : j = 1
    BY <2>1 DEF First
  <2>5. /\ Live(marks[m])
        /\ \A x \in Migrations : Live(marks[x]) /\ x # m =>
              \/ Before(x, GroupIn(marks[x]), m, GroupIn(marks[m]))
              \/ marks[x].newest # 1
    BY <2>1, <2>2, <2>3, <2>4 DEF RollsBackOn
  <2> HIDE DEF m
  <2>6. GroupOf(m) \in Nat
    BY <2>1, TableReads DEF MigratorInv
  <2>7. /\ \A x \in Migrations : x # m => marks'[x] = marks[x]
        /\ marks'[m].newest = -1
    BY <1>4, <2>1, <2>6, UnmarkRow DEF MigratorInv, MigratorTypes
  <2>8. m \in Marked /\ Marked' \subseteq Marked
    BY <2>1, <2>5, <2>7 DEF Marked
  <2>9. CASE MarkedOnce /\ MarkedOnce'
    <3>1. Marked' = Marked \ {m}
      <4>1. marks'[m].state = marks'[m].cancel /\ ~Live(marks'[m])
        <5>1. marks'[m].state = marks'[m].cancel + IF marks'[m].newest = 1 THEN 1 ELSE 0
          BY <2>1, <2>9 DEF MarkedOnce
        <5>2. marks'[m] \in Row
          BY <2>1 DEF MigratorInv, MigratorTypes
        <5> QED
          BY <2>7, <5>1, <5>2 DEF Row, Live
      <4> QED
        BY <2>1, <2>7, <4>1 DEF Marked
    <3>2. \A x \in Marked : /\ x \in Migrations /\ MarkLog[x] = GroupIn(marks[x])
                            /\ marks[x].newest = 1
      BY <1>1, <2>9, TableReads DEF MigratorInv, Marked, MarkLog
    <3>3. MarkLog' = [x \in Marked \ {m} |-> MarkLog[x]]
      BY <2>7, <3>1, <3>2 DEF MarkLog
    <3>4. \A x \in Marked \ {m} : MarkLog[x] < MarkLog[m] \/ (MarkLog[x] = MarkLog[m] /\ x < m)
      BY <2>5, <2>8, <3>2 DEF Before, Marked
    <3>5. Log!Undo(m)
      BY <1>1, <1>2, <2>8, <3>1, <3>3, <3>4 DEF Log!Undo, Log!Names
    <3> QED
      BY <2>1, <3>5 DEF Log!Next, LogStepped
  <2> QED
    BY <1>1, <1>2, <2>8, <2>9 DEF LogStepped
<1>5. PICK k \in Nat : Insert(Head(proc[p].todo), -1, GroupOf(Head(proc[p].todo)), k)
  BY RetriesAssumption DEF MarkUnapplied
<1>6. CASE k = 0
  <2>1. Head(proc[p].todo) \in Migrations
    BY TodoList DEF MarkUnapplied, Working
  <2> QED
    BY <1>3, <1>5, <1>6, <2>1, NoRow DEF MigratorInv, MigratorTypes
<1> QED
  BY <1>4, <1>5, <1>6

\* DropTable finds the log empty and leaves it so.
LEMMA DropTableStutters ==
    ASSUME MigratorInv, MigratorInv', NEW p \in Processes, DropTable(p)
    PROVE  UNCHANGED AppliedLog
<1>1. AppliedLog = MarkLog
  BY LogOfMarks DEF LogReads
<1>2. AppliedLog' = MarkLog'
  BY LogOfMarksNext DEF LogReads
<1>3. Marked = {}
  BY DEF DropTable, MigratorInv, WorkOf, Marked
<1>4. Marked' = {}
  BY DEF DropTable, NoRows, Live, Marked
<1> QED
  BY <1>1, <1>2, <1>3, <1>4 DEF MarkLog

\* Every step of the migrator is a step of the log, or leaves it alone.
LEMMA LogStep == MigratorInv /\ MigratorInv' /\ [MigratorNext]_migratorVars => [LogStepped]_AppliedLog
<1> SUFFICES ASSUME MigratorInv, MigratorInv', [MigratorNext]_migratorVars
             PROVE  [LogStepped]_AppliedLog
  OBVIOUS
<1>1. CASE UNCHANGED marks
  <2>1. AppliedLog = MarkLog
    BY LogOfMarks DEF LogReads
  <2>2. AppliedLog' = MarkLog'
    BY LogOfMarksNext DEF LogReads
  <2> QED
    BY <1>1, <2>1, <2>2 DEF MarkLog, Marked
<1>2. ASSUME NEW p \in Processes, MigratorStep(p)
      PROVE  \/ UNCHANGED marks
             \/ MarkApplied(p) \/ MarkUnapplied(p) \/ DropTable(p)
  BY <1>2 DEF MigratorStep, ReadMigrations, UpBegins, UpEnds, ReadLastGroup, Down
<1>3. \/ UNCHANGED marks
      \/ \E p \in Processes : MarkApplied(p) \/ MarkUnapplied(p) \/ DropTable(p)
  BY <1>2 DEF MigratorNext, migratorVars, StartServer, TakeLock, MigratorCrash,
              StartCommand, EndCommand
<1> QED
  BY <1>1, <1>3, MarkAppliedApplies, MarkUnappliedUndoes, DropTableStutters

\* The table of migrations implements a log that grows and shrinks at its end,
\* whoever migrates, rolls back or crashes (Migrate, Rollback, Reset), as long as
\* no retry of DB.insert stores a row twice; then the log still grows at its end
\* only, but may keep what was undone.
THEOREM TableImplementsLog == Spec => LogImplemented
<1>1. Init => Log!Init
  <2> SUFFICES ASSUME Init PROVE Log!Init
    OBVIOUS
  <2>1. MigratorInit /\ MigratorInv
    BY MigratorInitInv DEF Init
  <2>2. AppliedLog = MarkLog
    BY <2>1, LogOfMarks DEF LogReads
  <2>3. Marked = {}
    BY <2>1 DEF MigratorInit, Marked, NoRows, Live
  <2> QED
    BY <2>2, <2>3 DEF Log!Init, MarkLog
<1>2. MigratorInv /\ MigratorInv' /\ [Next]_vars => [LogStepped]_AppliedLog
  BY LogStep, ServerMigrates
<1> QED
  BY <1>1, <1>2, MigratorInvariant, PTL DEF Spec, LogImplemented, LogStepped

-----------------------------------------------------------------------------
(* A server serves what it has migrated.                                   *)

\* A server that has gone on behind WithGlobalLock, in whatever version, has all
\* migrations it knows in the table.
ServesMigrated == \A p \in Servers : stage[p] # "migrate" => Known[p] \subseteq Applied

\* What a server that migrates has not marked yet is in its list.
ListsUnmarked(p) ==
    \A m \in Known[p] :
        Live(marks[m]) \/ \E i \in First(p)..Len(proc[p].todo) : proc[p].todo[i] = m

Stages == {"migrate", "monitor", "dashboards", "syncing", "serving"}

\* Behind the migrations all are marked; and no one takes a mark away from a
\* server that runs, as the operator is alone.
ServeInv ==
    /\ stage \in [Servers -> Stages]
    /\ \A p \in Servers :
        /\ proc[p].pc \in {"mark", "up", "upping"} => ListsUnmarked(p)
        /\ proc[p].pc = "done" => \A m \in Known[p] : Live(marks[m])
        /\ stage[p] # "migrate" => proc[p].pc = "done"
    /\ proc[Operator] # Off => \A p \in Servers : proc[p].pc = "off"

\* Every migration a process knows is marked or unapplied.
LEMMA UnappliedAll ==
    ASSUME MigratorTypes, RowsGrouped, NEW p \in Processes, NEW s, s = Unapplied(p),
           NEW m \in Known[p], ~Live(marks[m])
    PROVE  \E i \in 1..Len(s) : s[i] = m
<1> DEFINE S == Known[p] \ Applied
<1>1. S \in SUBSET Migrations
  BY VersionsAssumption
<1>2. s = Ascending(S) /\ S \in SUBSET Nat /\ IsFiniteSet(S)
  BY <1>1, MigrationSets DEF Unapplied
<1>3. m \in S
  BY TableReads
<1> HIDE DEF S
<1> QED
  BY <1>2, <1>3, AscendingList

\* What a step of one process leaves to the others: marks are not taken away,
\* and p is the only one that moves.
LEMMA OthersServe ==
    ASSUME ServeInv, MigratorInv, NEW p \in Processes, proc[Operator] # Off => p = Operator,
           \A q \in Processes : q # p => proc'[q] = proc[q] /\ (q \in Servers => stage'[q] = stage[q]),
           \A q \in Servers \ {p} : \A m \in Known[q] : Live(marks[m]) => Live(marks'[m]),
           NEW q \in Servers, q # p
    PROVE  /\ proc'[q].pc \in {"mark", "up", "upping"} => ListsUnmarked(q)'
           /\ proc'[q].pc = "done" => \A m \in Known[q] : Live(marks'[m])
           /\ stage'[q] # "migrate" => proc'[q].pc = "done"
<1>1. q \in Processes /\ proc'[q] = proc[q] /\ stage'[q] = stage[q]
  BY DEF Processes
<1> QED
  BY <1>1 DEF ServeInv, ListsUnmarked, First

\* Reading the table: the list has all that is not marked.
LEMMA ReadServes ==
    ASSUME ServeInv, MigratorInv, NEW p \in Servers, ReadMigrations(p)
    PROVE  /\ proc'[p].pc \in {"mark", "up", "upping"} => ListsUnmarked(p)'
           /\ proc'[p].pc = "done" => \A m \in Known[p] : Live(marks'[m])
<1>1. /\ p \in Processes /\ proc[p] \in Process /\ marks' = marks
      /\ Off.pc = "off" /\ Done.pc = "done"
  BY OffDone DEF Processes, MigratorInv, MigratorTypes, ReadMigrations
<1> DEFINE s == Unapplied(p)
           rec == [proc[p] EXCEPT !.pc = "mark", !.todo = s, !.group = LastGroupID(Applied) + 1]
<1>2. \A m \in Known[p] : Live(marks[m]) \/ \E i \in 1..Len(s) : s[i] = m
  BY <1>1, UnappliedAll DEF MigratorInv
<1>3. CASE Go(p, Off)
  BY <1>1, <1>3 DEF Go, MigratorInv, MigratorTypes
<1>4. CASE s = << >> /\ Go(p, Done)
  <2>1. proc'[p].pc = "done" /\ Len(s) = 0
    BY <1>1, <1>4, EmptySeq DEF Go, MigratorInv, MigratorTypes
  <2> QED
    BY <1>1, <1>2, <2>1
<1>5. CASE Go(p, rec)
  <2>1. rec.pc = "mark" /\ rec.todo = s
    BY <1>1 DEF Process
  <2>2. proc'[p] = rec
    BY <1>1, <1>5 DEF Go, MigratorInv, MigratorTypes
  <2> HIDE DEF s, rec
  <2> QED
    BY <1>1, <1>2, <2>1, <2>2 DEF ListsUnmarked, First
<1> QED
  BY <1>3, <1>4, <1>5 DEF ReadMigrations

\* Marking the first of the list.
LEMMA MarkServes ==
    ASSUME ServeInv, MigratorInv, NEW p \in Servers, MarkApplied(p)
    PROVE  /\ proc'[p].pc \in {"off", "up"}
           /\ proc'[p].pc = "up" => ListsUnmarked(p)'
           /\ \A m \in Migrations : Live(marks[m]) => Live(marks'[m])
<1> DEFINE todo == proc[p].todo
           rec == [proc[p] EXCEPT !.pc = "up"]
<1>1. /\ p \in Processes /\ proc[p] \in Process /\ proc[p].pc = "mark"
      /\ Off.pc = "off" /\ proc \in [Processes -> Process]
      /\ marks \in [Migrations -> Row]
  BY OffDone DEF Processes, MigratorInv, MigratorTypes, MarkApplied
<1>2. /\ Len(todo) \in Nat \ {0} /\ \A i \in 1..Len(todo) : todo[i] \in Migrations
      /\ Head(todo) = todo[1] /\ proc[p].group \in Nat
  BY <1>1, TodoList DEF Working, Process
<1>3. PICK k \in 0..(MaxRetries + 1) :
            Insert(Head(todo), 1, proc[p].group, k) /\ Stored(p, k, rec)
  BY DEF MarkApplied
<1>4. k \in Nat /\ (k = 0 => Fails(p)) /\ (Go(p, rec) \/ Fails(p))
  BY <1>3, RetriesAssumption DEF Stored
<1>5. /\ Go(p, rec) => proc'[p] = rec
      /\ Fails(p) => proc'[p].pc = "off"
      /\ rec.pc = "up" /\ rec.todo = todo
  BY <1>1 DEF Fails, Go, Process
<1>6. CASE k = 0
  <2>1. marks' = marks
    BY <1>1, <1>2, <1>3, <1>6, NoRow
  <2> QED
    BY <1>4, <1>5, <1>6, <2>1
<1>7. CASE k # 0
  <2>1. /\ \A x \in Migrations : x # todo[1] => marks'[x] = marks[x]
        /\ Live(marks'[todo[1]])
    <3>1. ~Live(marks[todo[1]]) /\ todo[1] \in Migrations
      <4>1. MigratesOn(p) /\ 1 \in First(p)..Len(todo)
        BY <1>1, <1>2 DEF MigratorInv, WorkOf, First
      <4> QED
        BY <1>1, <1>2, <4>1 DEF MigratesOn
    <3>2. Insert(todo[1], 1, proc[p].group, k) /\ k \in Nat \ {0}
      BY <1>2, <1>3, <1>4, <1>7
    <3> HIDE DEF todo
    <3> QED
      BY <1>1, <1>2, <3>1, <3>2, MarkRow
  <2>2. \A m \in Known[p] : m \in Migrations
    BY <1>1, VersionsAssumption
  <2>3. \A m \in Known[p] : Live(marks[m]) \/ \E i \in 1..Len(todo) : todo[i] = m
    BY <1>1 DEF ServeInv, ListsUnmarked, First
  <2> HIDE DEF rec, todo
  <2>4. ASSUME NEW m \in Known[p], ~Live(marks'[m]) PROVE \E i \in 2..Len(todo) : todo[i] = m
    <3>1. m # todo[1] /\ marks'[m] = marks[m]
      BY <2>1, <2>2, <2>4
    <3>2. PICK i \in 1..Len(todo) : todo[i] = m
      BY <2>3, <2>4, <3>1
    <3>3. i \in 2..Len(todo)
      BY <1>2, <3>1, <3>2
    <3> QED
      BY <3>2, <3>3
  <2> QED
    BY <1>4, <1>5, <2>1, <2>4 DEF ListsUnmarked, First
<1> QED
  BY <1>6, <1>7

\* The first of the list has run: the rest is to be marked, or all is.
LEMMA UpEndsServes ==
    ASSUME ServeInv, MigratorInv, NEW p \in Servers, UpEnds(p)
    PROVE  /\ proc'[p].pc \in {"off", "mark", "done"} /\ marks' = marks
           /\ proc'[p].pc = "mark" => ListsUnmarked(p)'
           /\ proc'[p].pc = "done" => \A m \in Known[p] : Live(marks[m])
<1> DEFINE todo == proc[p].todo
           rest == Tail(todo)
           next == [proc[p] EXCEPT !.todo = rest, !.pc = "mark"]
<1>1. /\ p \in Processes /\ proc[p] \in Process /\ proc[p].pc = "upping" /\ marks' = marks
      /\ Off.pc = "off" /\ Done.pc = "done" /\ proc \in [Processes -> Process]
  BY OffDone DEF Processes, MigratorInv, MigratorTypes, UpEnds
<1>2. todo \in Seq(Migrations) /\ Len(todo) \in Nat \ {0}
  BY <1>1, TodoList DEF Working
<1>3. /\ rest \in Seq(Migrations) /\ Len(rest) = Len(todo) - 1
      /\ \A i \in 1..Len(rest) : rest[i] = todo[i + 1]
  BY <1>2, EmptySeq, HeadTailProperties
<1>4. \A m \in Known[p] : Live(marks[m]) \/ \E i \in 2..Len(todo) : todo[i] = m
  BY <1>1 DEF ServeInv, ListsUnmarked, First
<1>5. \A m \in Known[p] : Live(marks[m]) \/ \E i \in 1..Len(rest) : rest[i] = m
  <2> SUFFICES ASSUME NEW m \in Known[p], NEW i \in 2..Len(todo), todo[i] = m
               PROVE  \E j \in 1..Len(rest) : rest[j] = m
    BY <1>4
  <2> HIDE DEF todo, rest
  <2>1. i - 1 \in 1..Len(rest) /\ (i - 1) + 1 = i
    BY <1>2, <1>3
  <2> QED
    BY <1>3, <2>1
<1>6. CASE Fails(p)
  BY <1>1, <1>6 DEF Fails, Go
<1>7. CASE rest = << >> /\ Go(p, Done)
  <2>1. proc'[p].pc = "done" /\ Len(rest) = 0
    BY <1>1, <1>7, EmptySeq DEF Go
  <2> QED
    BY <1>1, <1>5, <2>1
<1>8. CASE Go(p, next)
  <2>1. proc'[p] = next /\ next.pc = "mark" /\ next.todo = rest
    BY <1>1, <1>8 DEF Go, Process
  <2> HIDE DEF next, rest
  <2> QED
    BY <1>1, <1>5, <2>1 DEF ListsUnmarked, First
<1> QED
  BY <1>6, <1>7, <1>8 DEF UpEnds

\* The work of one process.
LEMMA StepServes ==
    ASSUME ServeInv, MigratorInv, NEW p \in Processes, MigratorStep(p), UNCHANGED stage
    PROVE  ServeInv'
<1>1. proc \in [Processes -> Process] /\ proc[p].pc \in Active /\ proc[p] # Off
  BY OffDone DEF MigratorStep, ReadMigrations, MarkApplied, UpBegins, UpEnds, ReadLastGroup,
                 MarkUnapplied, Down, DropTable, Active, Working, MigratorInv, MigratorTypes
<1>2. \A q \in Processes : q # p => proc'[q] = proc[q]
  <2>1. \E rec : Go(p, rec)
    <3>1. CASE MarkApplied(p) \/ MarkUnapplied(p)
      BY <3>1 DEF MarkApplied, MarkUnapplied, Stored, Fails
    <3>2. CASE ReadMigrations(p) \/ UpBegins(p) \/ UpEnds(p)
      BY <3>2 DEF ReadMigrations, UpBegins, UpEnds, Fails
    <3>3. CASE ReadLastGroup(p) \/ Down(p) \/ DropTable(p)
      BY <3>3 DEF ReadLastGroup, Down, DropTable, Fails
    <3> QED
      BY <3>1, <3>2, <3>3 DEF MigratorStep
  <2> QED
    BY <1>1, <2>1 DEF Go
<1>3. proc[Operator] # Off => p = Operator
  BY <1>1 DEF ServeInv, Processes, Active, Working
<1>4. CASE p = Operator
  <2>1. \A q \in Servers : proc[q].pc = "off" /\ proc'[q] = proc[q] /\ stage[q] = "migrate"
    BY <1>1, <1>2, <1>4, NamesAssumption DEF ServeInv, Processes
  <2> QED
    BY <2>1 DEF ServeInv
<1>5. CASE p \in Servers /\ p # Operator
  <2>1. Operator \in Processes /\ proc'[Operator] = Off
    BY <1>2, <1>3, <1>5 DEF Processes
  <2>2. stage[p] = "migrate" /\ stage'[p] = "migrate"
    BY <1>1, <1>5 DEF ServeInv, Active, Working
  <2>3. /\ proc'[p].pc \in {"mark", "up", "upping"} => ListsUnmarked(p)'
        /\ proc'[p].pc = "done" => \A m \in Known[p] : Live(marks'[m])
        /\ \A m \in Migrations : Live(marks[m]) => Live(marks'[m])
    <3>1. CASE ReadMigrations(p)
      <4>1. marks' = marks
        BY <3>1 DEF ReadMigrations
      <4> QED
        BY <1>5, <3>1, <4>1, ReadServes
    <3>2. CASE MarkApplied(p)
      BY <1>5, <3>2, MarkServes
    <3>3. CASE UpEnds(p)
      BY <1>5, <3>3, UpEndsServes
    <3>4. CASE UpBegins(p)
      <4> DEFINE rec == [proc[p] EXCEPT !.pc = "upping"]
      <4>1. /\ marks' = marks /\ proc[p].pc = "up"
            /\ proc'[p] = Off \/ proc'[p] = rec
        BY <1>1, <3>4 DEF UpBegins, Go, Fails
      <4>2. rec.pc = "upping" /\ rec.todo = proc[p].todo
        BY <1>1 DEF MigratorInv, MigratorTypes, Process
      <4> HIDE DEF rec
      <4>3. CASE proc'[p] = Off
        BY <4>1, <4>3, OffDone
      <4>4. CASE proc'[p] = rec
        BY <1>5, <4>1, <4>2, <4>4 DEF ServeInv, ListsUnmarked, First
      <4> QED
        BY <4>1, <4>3, <4>4
    <3>5. ~(ReadLastGroup(p) \/ MarkUnapplied(p) \/ Down(p) \/ DropTable(p))
      BY <1>5, OperatorRollsBack DEF ReadLastGroup, MarkUnapplied, Down, DropTable
    <3> QED
      BY <3>1, <3>2, <3>3, <3>4, <3>5 DEF MigratorStep
  <2>4. \A q \in Servers : Known[q] \subseteq Migrations
    BY VersionsAssumption DEF Processes
  <2>5. ASSUME NEW q \in Servers, q # p
        PROVE  /\ proc'[q].pc \in {"mark", "up", "upping"} => ListsUnmarked(q)'
               /\ proc'[q].pc = "done" => \A m \in Known[q] : Live(marks'[m])
               /\ stage'[q] # "migrate" => proc'[q].pc = "done"
    BY <1>2, <1>3, <2>3, <2>4, <2>5, OthersServe
  <2> QED
    BY <2>1, <2>2, <2>3, <2>5 DEF ServeInv
<1> QED
  BY <1>4, <1>5, NamesAssumption DEF Processes

\* A process that starts, waits, ends or crashes: it is at no migration.
LEMMA RestServes ==
    ASSUME ServeInv, MigratorInv, NEW p \in Processes, UNCHANGED marks,
           proc' = [proc EXCEPT ![p] = proc'[p]],
           p \in Servers => /\ proc'[p].pc \in {"off", "wait", "read"} /\ stage'[p] = "migrate"
                            /\ proc[Operator] # Off => proc'[p].pc = "off",
           p = Operator /\ proc'[p] # Off => \A q \in Servers : proc[q].pc = "off",
           stage' \in [Servers -> Stages], \A q \in Servers : q # p => stage'[q] = stage[q]
    PROVE  ServeInv'
<1>1. proc \in [Processes -> Process] /\ Operator \in Processes /\ Servers \subseteq Processes
  BY DEF MigratorInv, MigratorTypes, Processes
<1>2. \A q \in Processes : q # p => proc'[q] = proc[q]
  BY <1>1
<1>3. ASSUME NEW q \in Servers
      PROVE  /\ proc'[q].pc \in {"mark", "up", "upping"} => ListsUnmarked(q)'
             /\ proc'[q].pc = "done" => \A m \in Known[q] : Live(marks'[m])
             /\ stage'[q] # "migrate" => proc'[q].pc = "done"
  <2>1. CASE q = p
    BY <2>1
  <2>2. CASE q # p
    BY <1>1, <1>2, <2>2 DEF ServeInv, ListsUnmarked, First
  <2> QED
    BY <2>1, <2>2
<1>4. ASSUME proc'[Operator] # Off, NEW q \in Servers PROVE proc'[q].pc = "off"
  <2>1. CASE p = Operator
    BY <1>1, <1>2, <1>4, <2>1, NamesAssumption
  <2>2. CASE p # Operator
    BY <1>1, <1>2, <1>4, <2>2 DEF ServeInv
  <2> QED
    BY <2>1, <2>2
<1> QED
  BY <1>3, <1>4 DEF ServeInv

\* Every step of the servers and of the operator.
LEMMA ServeStep == ServeInv /\ MigratorInv /\ [Next]_vars => ServeInv'
<1> SUFFICES ASSUME ServeInv, MigratorInv, [Next]_vars PROVE ServeInv'
  OBVIOUS
<1>0. /\ proc \in [Processes -> Process] /\ Operator \in Processes /\ Servers \subseteq Processes
      /\ Off.pc = "off" /\ Done.pc = "done"
  BY OffDone DEF MigratorInv, MigratorTypes, Processes
<1>1. CASE UNCHANGED <<migratorVars, stage>>
  BY <1>1 DEF migratorVars, ServeInv, ListsUnmarked, First
<1>2. CASE UNCHANGED vars \/ ReceiveMetric \/ UserEdits
  BY <1>1, <1>2 DEF vars, serverVars, ReceiveMetric, UserEdits
<1>3. ASSUME NEW p \in Savers, Saves(p) PROVE ServeInv'
  BY <1>1, <1>3 DEF Saves, serverVars
<1>4. ASSUME NEW p \in Servers,
             createProject(p) \/ InsertErrorMonitor(p) \/ syncDashboards(p) \/ Serves(p) \/ TakeJob(p)
      PROVE  ServeInv'
  <2>1. UNCHANGED migratorVars
    BY <1>4 DEF createProject, InsertErrorMonitor, syncDashboards, Serves, TakeJob
  <2>2. stage' \in [Servers -> Stages] /\ \A q \in Servers : q # p => stage'[q] = stage[q]
    <3>1. stage \in [Servers -> Stages]
      BY DEF ServeInv
    <3>2. stage' = stage \/ \E to \in Stages : stage' = [stage EXCEPT ![p] = to]
      BY <1>4 DEF createProject, InsertErrorMonitor, syncDashboards, Serves, TakeJob, Stage,
                  serverVars, Stages
    <3> QED
      BY <3>1, <3>2
  <2>3. stage'[p] # "migrate" => proc[p].pc = "done"
    <3>1. CASE createProject(p)
      BY <3>1 DEF createProject
    <3>2. CASE TakeJob(p)
      BY <3>2 DEF TakeJob, serverVars, ServeInv
    <3>3. CASE InsertErrorMonitor(p) \/ syncDashboards(p) \/ Serves(p)
      BY <3>3 DEF InsertErrorMonitor, syncDashboards, Serves, Stage, ServeInv
    <3> QED
      BY <1>4, <3>1, <3>2, <3>3
  <2> QED
    BY <2>1, <2>2, <2>3 DEF migratorVars, ServeInv, ListsUnmarked, First
<1>5. ASSUME NEW p \in Servers, Crash(p) PROVE ServeInv'
  <2>1. /\ proc' = [proc EXCEPT ![p] = Off] /\ UNCHANGED marks
        /\ stage' = [stage EXCEPT ![p] = "migrate"]
    BY <1>5 DEF Crash, MigratorCrash, Go
  <2>2. proc'[p] = Off /\ proc' = [proc EXCEPT ![p] = proc'[p]]
    BY <1>0, <2>1
  <2>3. /\ stage' \in [Servers -> Stages] /\ stage'[p] = "migrate"
        /\ \A q \in Servers : q # p => stage'[q] = stage[q]
    BY <2>1 DEF ServeInv, Stages
  <2> QED
    BY <1>0, <2>1, <2>2, <2>3, RestServes, NamesAssumption
<1>6. CASE CommandCrash
  <2>1. /\ proc' = [proc EXCEPT ![Operator] = Off] /\ UNCHANGED <<marks, stage>>
    BY <1>6 DEF CommandCrash, MigratorCrash, Go, serverVars
  <2>2. proc'[Operator] = Off /\ proc' = [proc EXCEPT ![Operator] = proc'[Operator]]
    BY <1>0, <2>1
  <2> QED
    BY <1>0, <2>1, <2>2, RestServes, NamesAssumption DEF ServeInv
<1>7. CASE Commands
  <2>1. \A q \in Servers : stage[q] = "migrate" /\ proc[q] = Off
    BY <1>7 DEF Commands, Running
  <2>2. UNCHANGED <<marks, stage>> /\ \E rec : proc' = [proc EXCEPT ![Operator] = rec]
    BY <1>7 DEF Commands, EndCommand, StartCommand, Go, serverVars
  <2>3. proc' = [proc EXCEPT ![Operator] = proc'[Operator]]
    BY <1>0, <2>2
  <2> QED
    BY <1>0, <2>1, <2>2, <2>3, RestServes, NamesAssumption DEF ServeInv
<1>8. ASSUME NEW p \in Processes, Migrates(p) PROVE ServeInv'
  <2>1. UNCHANGED stage
    BY <1>8 DEF Migrates, serverVars
  <2>2. CASE MigratorStep(p)
    BY <2>1, <2>2, StepServes
  <2>3. CASE p \in Servers /\ stage[p] = "migrate" /\ (StartServer(p) \/ TakeLock(p))
    <3>1. proc'[p].pc \in {"wait", "read"} /\ proc' = [proc EXCEPT ![p] = proc'[p]] /\ UNCHANGED marks
      <4>1. CASE StartServer(p)
        <5> DEFINE rec == [Off EXCEPT !.pc = "wait", !.cmd = "serve"]
        <5>1. rec.pc = "wait"
          BY OffDone DEF Process
        <5> HIDE DEF rec
        <5>2. proc' = [proc EXCEPT ![p] = rec] /\ UNCHANGED marks
          BY <4>1 DEF StartServer, Go, rec
        <5> QED
          BY <1>0, <5>1, <5>2
      <4>2. CASE TakeLock(p)
        <5> DEFINE rec == [proc[p] EXCEPT !.pc = "read"]
        <5>1. rec.pc = "read"
          BY <1>0 DEF Process
        <5>2. proc' = [proc EXCEPT ![p] = rec] /\ UNCHANGED marks
          BY <4>2 DEF TakeLock
        <5> HIDE DEF rec
        <5> QED
          BY <1>0, <5>1, <5>2
      <4> QED
        BY <2>3, <4>1, <4>2
    <3>2. proc[Operator] = Off
      BY <1>0, <2>3 DEF StartServer, TakeLock, Quiet, ServeInv
    <3> QED
      BY <1>0, <2>1, <2>3, <3>1, <3>2, RestServes, NamesAssumption DEF ServeInv
  <2> QED
    BY <1>8, <2>2, <2>3 DEF Migrates
<1> QED
  BY <1>2, <1>3, <1>4, <1>5, <1>6, <1>7, <1>8 DEF Next

\* No server creates its project, makes dashboards or takes metrics in before the
\* table has all migrations of its version, and none is undone under it (serve,
\* WithGlobalLock, Migrate).
THEOREM ServersHaveMigrated == Spec => []ServesMigrated
<1>1. Init => ServeInv
  BY OffDone DEF Init, MigratorInit, ServeInv, Processes, Stages
<1>2. MigratorInv /\ ServeInv => ServesMigrated
  <2> SUFFICES ASSUME MigratorInv, ServeInv, NEW p \in Servers, stage[p] # "migrate"
               PROVE  Known[p] \subseteq Applied
    BY DEF ServesMigrated
  <2>1. Known[p] \subseteq Migrations /\ \A m \in Known[p] : Live(marks[m])
    BY VersionsAssumption DEF ServeInv, Processes
  <2> QED
    BY <2>1, TableReads DEF MigratorInv
<1> QED
  BY <1>1, <1>2, ServeStep, MigratorInvariant, PTL DEF Spec
=============================================================================
