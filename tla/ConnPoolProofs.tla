--------------------------- MODULE ConnPoolProofs ---------------------------
(***************************************************************************)
(* Proofs about the connection pool for every number of workers and        *)
(* connections and every pool size.                                        *)
(***************************************************************************)
EXTENDS ConnPool, FiniteSetTheorems, SequenceTheorems, TLAPS

USE DEF poolVars, sockVars, dialVars, lateVars

\* What is left of a stack without its top.
LEMMA PrefixSeq ==
    ASSUME NEW s \in Seq(Conns), NEW n \in 0..Len(s)
    PROVE  /\ SubSeq(s, 1, n) \in Seq(Conns)
           /\ Len(SubSeq(s, 1, n)) = n
           /\ \A i \in 1..n : SubSeq(s, 1, n)[i] = s[i]
<1>1. SubSeq(s, 1, n) \in Seq(Conns)
  OBVIOUS
<1>2. Len(SubSeq(s, 1, n)) = n
  OBVIOUS
<1>3. \A i \in 1..n : SubSeq(s, 1, n)[i] = s[i]
  OBVIOUS
<1> QED
  BY <1>1, <1>2, <1>3

\* popIdle on a stack that is not empty.
LEMMA PopSeq ==
    ASSUME NEW s \in Seq(Conns), s # << >>
    PROVE  /\ Len(s) \in Nat \ {0}
           /\ s[Len(s)] \in Conns
           /\ SubSeq(s, 1, Len(s) - 1) \in Seq(Conns)
           /\ Len(SubSeq(s, 1, Len(s) - 1)) = Len(s) - 1
           /\ \A i \in 1..(Len(s) - 1) : SubSeq(s, 1, Len(s) - 1)[i] = s[i]
<1>1. Len(s) \in Nat \ {0}
  BY EmptySeq
<1>2. s[Len(s)] \in Conns
  BY <1>1, ElementOfSeq
<1>3. Len(s) - 1 \in 0..Len(s)
  BY <1>1
<1> QED
  BY <1>1, <1>2, <1>3, PrefixSeq, Zenon

\* The variables start with values of their types.
LEMMA TypeInit == Init => TypeOK
<1> SUFFICES ASSUME Init PROVE TypeOK
  OBVIOUS
<1>1. /\ pc \in [Workers -> Labels]
      /\ \A w \in Workers : pc[w] = "start" /\ cn[w] = NoConn
  BY DEF Init, Labels
<1>2. \A w \in Workers :
        cn[w] # NoConn <=> pc[w] \in OwningLabels \cup {"putFree", "close"}
  BY <1>1 DEF OwningLabels
<1>3. cn \in [Workers -> Conns \cup {NoConn}]
  BY DEF Init
<1>4. idleConns \in Seq(Conns)
  BY EmptySeq DEF Init
<1>5. queue \in 0..PoolSize /\ timeouts \in 0..MaxTimeouts
  BY PoolSizeAssumption, MaxTimeoutsAssumption DEF Init
<1>6. unread \in [Conns -> {"no", "underway", "arrived"}]
  BY DEF Init
<1> QED
  BY <1>1, <1>2, <1>3, <1>4, <1>5, <1>6 DEF Init, TypeOK

\* Every step of the pool keeps the types.
LEMMA TypeStep == TypeOK /\ [Next]_vars => TypeOK'
<1> SUFFICES ASSUME TypeOK, [Next]_vars PROVE TypeOK'
  OBVIOUS
<1> USE PoolSizeAssumption, MaxTimeoutsAssumption, NoConnAssumption
<1>1. ASSUME NEW w \in Workers, Get(w) PROVE TypeOK'
  BY <1>1 DEF Get, TypeOK, Goto, Labels, OwningLabels
<1>2. ASSUME NEW w \in Workers, WaitTurn(w) PROVE TypeOK'
  BY <1>2 DEF WaitTurn, TypeOK, Goto, Labels, OwningLabels
<1>3. ASSUME NEW w \in Workers, WaitCancelled(w) PROVE TypeOK'
  BY <1>3 DEF WaitCancelled, TypeOK, Goto, Labels, OwningLabels
<1>4. ASSUME NEW w \in Workers, WaitTurnTaken(w) PROVE TypeOK'
  BY <1>4 DEF WaitTurnTaken, TypeOK, Goto, Labels, OwningLabels
<1>5. ASSUME NEW w \in Workers, WaitTimeout(w) PROVE TypeOK'
  BY <1>5 DEF WaitTimeout, TypeOK, Goto, Labels, OwningLabels
<1>6. ASSUME NEW w \in Workers, popIdle(w) PROVE TypeOK'
  <2>1. CASE idleConns = << >>
    BY <1>6, <2>1 DEF popIdle, TypeOK, Goto, Labels, OwningLabels
  <2>2. CASE idleConns # << >>
    <3>1. idleConns' \in Seq(Conns) /\ idleConns[Len(idleConns)] \in Conns
      BY <1>6, <2>2, PopSeq DEF popIdle, TypeOK
    <3> QED
      BY <1>6, <2>2, <3>1, ZenonT(30) DEF popIdle, TypeOK, Goto, Labels, OwningLabels
  <2> QED
    BY <2>1, <2>2
<1>7. ASSUME NEW w \in Workers, Healthy(w) PROVE TypeOK'
  BY <1>7 DEF Healthy, TypeOK, Goto, Labels, OwningLabels
<1>8. ASSUME NEW w \in Workers, Unhealthy(w) PROVE TypeOK'
  BY <1>8 DEF Unhealthy, TypeOK, Goto, CloseSock, Labels, OwningLabels
<1>9. ASSUME NEW w \in Workers, DialClosedCheck(w) PROVE TypeOK'
  BY <1>9 DEF DialClosedCheck, TypeOK, Goto, Labels, OwningLabels
<1>10. ASSUME NEW w \in Workers, DialErrorsCheck(w) PROVE TypeOK'
  BY <1>10 DEF DialErrorsCheck, TypeOK, Goto, Labels, OwningLabels
<1>11. ASSUME NEW w \in Workers, DialOK(w) PROVE TypeOK'
  BY <1>11 DEF DialOK, Fresh, TypeOK, Goto, Labels, OwningLabels
<1>12. ASSUME NEW w \in Workers, DialFail(w) PROVE TypeOK'
  BY <1>12 DEF DialFail, TypeOK, Goto, Labels, OwningLabels
<1>13. ASSUME NEW w \in Workers, CountDialError(w) PROVE TypeOK'
  BY <1>13 DEF CountDialError, TypeOK, Goto, Labels, OwningLabels
<1>14. ASSUME NEW w \in Workers, GetFailed(w) PROVE TypeOK'
  BY <1>14 DEF GetFailed, freeTurn, TypeOK, Goto, Labels, OwningLabels
<1>15. ASSUME NEW w \in Workers, Register(w) PROVE TypeOK'
  BY <1>15 DEF Register, TypeOK, Goto, Labels, OwningLabels
<1>16. ASSUME NEW w \in Workers, UseFailed(w) PROVE TypeOK'
  BY <1>16 DEF UseFailed, TypeOK, Goto, Labels, OwningLabels
<1>17. ASSUME NEW w \in Workers, UseDone(w) PROVE TypeOK'
  BY <1>17 DEF UseDone, TypeOK, Goto, Labels, OwningLabels
<1>18. ASSUME NEW w \in Workers, UseLeftUnread(w) PROVE TypeOK'
  BY <1>18 DEF UseLeftUnread, TypeOK, Goto, Labels, OwningLabels
<1>19. ASSUME NEW c \in Conns, AnswerArrives(c) PROVE TypeOK'
  BY <1>19 DEF AnswerArrives, TypeOK
<1>20. ASSUME NEW w \in Workers, Put(w) PROVE TypeOK'
  <2>1. cn[w] \in Conns
    BY <1>20 DEF Put, TypeOK, OwningLabels
  <2>2. idleConns' \in Seq(Conns)
    BY <1>20, <2>1, AppendProperties, SMTT(30) DEF Put, TypeOK
  <2> QED
    BY <1>20, <2>2 DEF Put, TypeOK, Goto, Labels, OwningLabels
<1>21. ASSUME NEW w \in Workers, PutFreeTurn(w) PROVE TypeOK'
  BY <1>21 DEF PutFreeTurn, freeTurn, TypeOK, Goto, Labels, OwningLabels
<1>22. ASSUME NEW w \in Workers, Remove(w) PROVE TypeOK'
  BY <1>22 DEF Remove, TypeOK, Goto, Labels, OwningLabels
<1>23. ASSUME NEW w \in Workers, RemoveFreeTurn(w) PROVE TypeOK'
  BY <1>23 DEF RemoveFreeTurn, freeTurn, TypeOK, Goto, Labels, OwningLabels
<1>24. ASSUME NEW w \in Workers, closeConn(w) PROVE TypeOK'
  BY <1>24 DEF closeConn, CloseSock, TypeOK, Goto, Labels, OwningLabels
<1>25. CASE TryDialClosed \/ TryDialOK
  BY <1>25 DEF TryDialClosed, TryDialOK, TypeOK
<1>26. CASE CloseBegin
  BY <1>26 DEF CloseBegin, TypeOK
<1>27. CASE CloseSweep
  BY <1>27 DEF CloseSweep, TypeOK
<1>28. CASE UNCHANGED vars
  BY <1>28 DEF vars, TypeOK
<1> QED
  BY <1>1, <1>2, <1>3, <1>4, <1>5, <1>6, <1>7, <1>8, <1>9, <1>10, <1>11,
     <1>12, <1>13, <1>14, <1>15, <1>16, <1>17, <1>18, <1>19, <1>20, <1>21,
     <1>22, <1>23, <1>24, <1>25, <1>26, <1>27, <1>28
     DEF Next, WorkerStep

\* The type invariant holds in every reachable state.
THEOREM TypeCorrect == Spec => []TypeOK
BY TypeInit, TypeStep, PTL DEF Spec

-----------------------------------------------------------------------------
(* Turns.                                                                  *)

\* Workers are finitely many, and so are those inside the pool.
LEMMA HoldersFinite ==
    /\ IsFiniteSet(Holders) /\ Cardinality(Holders) \in Nat
    /\ IsFiniteSet(Busy) /\ Cardinality(Busy) \in Nat
BY WorkersAssumption, FS_Subset, FS_CardinalityType DEF Holders, Busy

\* A step of w that neither enters nor leaves the pool.
LEMMA HoldersSame ==
    ASSUME TypeOK, NEW w \in Workers, NEW l, Goto(w, l),
           pc[w] \in HoldingLabels <=> l \in HoldingLabels
    PROVE  Holders' = Holders
BY DEF TypeOK, Goto, Holders

\* A step of w into the pool.
LEMMA HoldersEnter ==
    ASSUME TypeOK, NEW w \in Workers, NEW l, Goto(w, l),
           pc[w] \notin HoldingLabels, l \in HoldingLabels
    PROVE  Cardinality(Holders') = Cardinality(Holders) + 1
<1>1. Holders' = Holders \cup {w} /\ w \notin Holders
  BY DEF TypeOK, Goto, Holders
<1> QED
  BY <1>1, HoldersFinite, FS_AddElement

\* A step of w out of the pool.
LEMMA HoldersLeave ==
    ASSUME TypeOK, NEW w \in Workers, NEW l, Goto(w, l),
           pc[w] \in HoldingLabels, l \notin HoldingLabels
    PROVE  Cardinality(Holders') = Cardinality(Holders) - 1
<1>1. Holders' = Holders \ {w} /\ w \in Holders
  BY DEF TypeOK, Goto, Holders
<1> QED
  BY <1>1, HoldersFinite, FS_RemoveElement

\* What a step of one worker does to the turns: nothing, or it takes a token,
\* or it goes on without one, or it gives its turn back.
LEMMA TurnSteps ==
    ASSUME TypeOK, Next
    PROVE  \/ Holders' = Holders /\ UNCHANGED <<queue, timeouts>>
           \/ /\ Cardinality(Holders') = Cardinality(Holders) + 1
              /\ queue > 0 /\ queue' = queue - 1 /\ UNCHANGED timeouts
           \/ /\ Cardinality(Holders') = Cardinality(Holders) + 1
              /\ timeouts' = timeouts + 1 /\ UNCHANGED queue
           \/ /\ Cardinality(Holders') = Cardinality(Holders) - 1
              /\ freeTurn /\ UNCHANGED timeouts
<1> USE DEF HoldingLabels, Labels
<1>1. ASSUME NEW w \in Workers, Get(w) \/ WaitCancelled(w) \/ Healthy(w) \/ Unhealthy(w)
      PROVE  Holders' = Holders /\ UNCHANGED <<queue, timeouts>>
  BY <1>1, HoldersSame DEF Get, WaitCancelled, Healthy, Unhealthy
<1>2. ASSUME NEW w \in Workers, popIdle(w) \/ Put(w) \/ UseLeftUnread(w)
      PROVE  Holders' = Holders /\ UNCHANGED <<queue, timeouts>>
  BY <1>2, HoldersSame DEF popIdle, Put, UseLeftUnread
<1>3. ASSUME NEW w \in Workers, DialClosedCheck(w) \/ DialErrorsCheck(w)
      PROVE  Holders' = Holders /\ UNCHANGED <<queue, timeouts>>
  BY <1>3, HoldersSame DEF DialClosedCheck, DialErrorsCheck
<1>4. ASSUME NEW w \in Workers, DialOK(w) \/ DialFail(w) \/ CountDialError(w) \/ Register(w)
      PROVE  Holders' = Holders /\ UNCHANGED <<queue, timeouts>>
  BY <1>4, HoldersSame DEF DialOK, DialFail, CountDialError, Register
<1>5. ASSUME NEW w \in Workers, UseFailed(w) \/ UseDone(w) \/ Remove(w) \/ closeConn(w)
      PROVE  Holders' = Holders /\ UNCHANGED <<queue, timeouts>>
  BY <1>5, HoldersSame DEF UseFailed, UseDone, Remove, closeConn
<1>6. ASSUME NEW w \in Workers, WaitTurn(w), pc'[w] # "pop"
      PROVE  Holders' = Holders /\ UNCHANGED <<queue, timeouts>>
  <2>1. /\ UNCHANGED <<queue, timeouts>>
        /\ pc[w] = "turn"
        /\ Goto(w, "start") \/ Goto(w, "wait")
    BY <1>6 DEF WaitTurn, Goto, TypeOK
  <2> QED
    BY <2>1, HoldersSame
<1>7. ASSUME NEW w \in Workers, WaitTurnTaken(w) \/ (WaitTurn(w) /\ pc'[w] = "pop")
      PROVE  /\ Cardinality(Holders') = Cardinality(Holders) + 1
             /\ queue > 0 /\ queue' = queue - 1 /\ UNCHANGED timeouts
  <2>1. /\ queue > 0 /\ queue' = queue - 1 /\ UNCHANGED timeouts
        /\ pc[w] \in {"turn", "wait"}
        /\ Goto(w, "pop")
    BY <1>7 DEF WaitTurn, WaitTurnTaken, Goto, TypeOK
  <2> QED
    BY <2>1, HoldersEnter
<1>8. ASSUME NEW w \in Workers, WaitTimeout(w)
      PROVE  /\ Cardinality(Holders') = Cardinality(Holders) + 1
             /\ timeouts' = timeouts + 1 /\ UNCHANGED queue
  BY <1>8, HoldersEnter DEF WaitTimeout
<1>9. ASSUME NEW w \in Workers, GetFailed(w) \/ PutFreeTurn(w) \/ RemoveFreeTurn(w)
      PROVE  /\ Cardinality(Holders') = Cardinality(Holders) - 1
             /\ freeTurn /\ UNCHANGED timeouts
  <2>1. /\ freeTurn /\ UNCHANGED timeouts
        /\ pc[w] \in {"free", "putFree", "removeFree"}
        /\ Goto(w, "start") \/ Goto(w, "close")
    BY <1>9 DEF GetFailed, PutFreeTurn, RemoveFreeTurn, Goto
  <2> QED
    BY <2>1, HoldersLeave
<1>10. ASSUME (\E c \in Conns : AnswerArrives(c)) \/ TryDialClosed \/ TryDialOK
              \/ CloseBegin \/ CloseSweep
       PROVE  Holders' = Holders /\ UNCHANGED <<queue, timeouts>>
  BY <1>10 DEF AnswerArrives, TryDialClosed, TryDialOK, CloseBegin, CloseSweep, Holders
<1> HIDE DEF HoldingLabels, Labels
<1> QED
  BY <1>1, <1>2, <1>3, <1>4, <1>5, <1>6, <1>7, <1>8, <1>9, <1>10
     DEF Next, WorkerStep

\* TurnAccounting is kept by every step.
LEMMA TurnStep == TypeOK /\ TurnAccounting /\ [Next]_vars => TurnAccounting'
<1> SUFFICES ASSUME TypeOK, TurnAccounting, [Next]_vars PROVE TurnAccounting'
  OBVIOUS
<1> DEFINE n == Cardinality(Holders)
<1>1. n \in Nat /\ queue \in 0..PoolSize /\ PoolSize \in Nat /\ timeouts \in Nat
  BY HoldersFinite, PoolSizeAssumption, MaxTimeoutsAssumption DEF TypeOK
<1>2. CASE UNCHANGED vars
  BY <1>2 DEF vars, TurnAccounting, Holders
<1>3. CASE Next
  <2>1. \/ n' = n /\ UNCHANGED <<queue, timeouts>>
        \/ n' = n + 1 /\ queue > 0 /\ queue' = queue - 1 /\ UNCHANGED timeouts
        \/ n' = n + 1 /\ timeouts' = timeouts + 1 /\ UNCHANGED queue
        \/ n' = n - 1 /\ freeTurn /\ UNCHANGED timeouts
    BY <1>3, TurnSteps
  <2>2. queue + n >= PoolSize /\ queue + n <= PoolSize + timeouts
    BY DEF TurnAccounting
  <2>3. n' \in Nat
    BY WorkersAssumption, FS_Subset, FS_CardinalityType DEF Holders
  <2> HIDE DEF n
  <2>4. queue' + n' >= PoolSize /\ queue' + n' <= PoolSize + timeouts'
    BY <1>1, <2>1, <2>2, <2>3 DEF freeTurn
  <2> QED
    BY <2>4 DEF n, TurnAccounting
<1> QED
  BY <1>2, <1>3

\* No worker is inside an idle pool.
LEMMA TurnInit == Init => TurnAccounting
<1> SUFFICES ASSUME Init PROVE TurnAccounting
  OBVIOUS
<1>1. Holders = {}
  BY DEF Init, Holders, HoldingLabels
<1> QED
  BY <1>1, FS_EmptySet, PoolSizeAssumption DEF Init, TurnAccounting

\* Whatever the interleaving of Gets, Puts, Removes and timeouts, no turn is
\* lost, and turns exceed PoolSize only by the waits that timed out.
THEOREM TurnsAccounted == Spec => []TurnAccounting
BY TypeInit, TypeStep, TurnInit, TurnStep, PTL DEF Spec
-----------------------------------------------------------------------------
(* The number of connections.                                              *)

\* Idle connections and workers that have one, or dial one, share the room
\* that the turns leave.
Occupancy == Len(idleConns) + Cardinality(Busy) <= PoolSize + timeouts

\* A connection in the pool's books is idle or a busy worker has it.
ConnsCovered ==
    \A c \in conns :
        \/ \E i \in 1..Len(idleConns) : idleConns[i] = c
        \/ \E w \in Busy : cn[w] = c

\* A step of w that leaves it busy or not busy.
LEMMA BusySame ==
    ASSUME TypeOK, NEW w \in Workers, NEW l, Goto(w, l),
           pc[w] \in BusyLabels <=> l \in BusyLabels
    PROVE  Busy' = Busy
BY DEF TypeOK, Goto, Busy

\* A step of w that makes it busy.
LEMMA BusyEnter ==
    ASSUME TypeOK, NEW w \in Workers, NEW l, Goto(w, l),
           pc[w] \notin BusyLabels, l \in BusyLabels
    PROVE  Cardinality(Busy') = Cardinality(Busy) + 1
<1>1. Busy' = Busy \cup {w} /\ w \notin Busy
  BY DEF TypeOK, Goto, Busy
<1> QED
  BY <1>1, HoldersFinite, FS_AddElement

\* A step of w after which it is not busy any more.
LEMMA BusyLeave ==
    ASSUME TypeOK, NEW w \in Workers, NEW l, Goto(w, l),
           pc[w] \in BusyLabels, l \notin BusyLabels
    PROVE  Cardinality(Busy') = Cardinality(Busy) - 1
<1>1. Busy' = Busy \ {w} /\ w \in Busy
  BY DEF TypeOK, Goto, Busy
<1> QED
  BY <1>1, HoldersFinite, FS_RemoveElement

\* A worker that found the stack empty is inside the pool: the busy workers
\* are then no more than the workers inside.
LEMMA BusyBound ==
    /\ Cardinality(Busy) <= Cardinality(Holders)
    /\ Cardinality(Busy') <= Cardinality(Holders')
<1>1. IsFiniteSet(Holders) /\ IsFiniteSet(Holders')
  BY WorkersAssumption, FS_Subset DEF Holders
<1>2. Busy \subseteq Holders /\ Busy' \subseteq Holders'
  BY DEF Busy, Holders, BusyLabels, HoldingLabels, Labels
<1> QED
  BY <1>1, <1>2, FS_Subset

\* What a step does to the idle stack and to the busy workers.
LEMMA OccupancySteps ==
    ASSUME TypeOK, Next
    PROVE  \/ /\ Busy' = Busy \/ Cardinality(Busy') = Cardinality(Busy) - 1
              /\ Len(idleConns') = Len(idleConns) \/ Len(idleConns') = 0
              /\ timeouts' = timeouts \/ timeouts' = timeouts + 1
           \/ /\ Cardinality(Busy') = Cardinality(Busy) + 1
              /\ Len(idleConns') = Len(idleConns) - 1 /\ UNCHANGED timeouts
           \/ /\ Cardinality(Busy') = Cardinality(Busy) - 1
              /\ Len(idleConns') = Len(idleConns) + 1 /\ UNCHANGED timeouts
           \/ /\ Len(idleConns') = 0 /\ Holders' = Holders /\ UNCHANGED timeouts
<1> DEFINE Shrinks == /\ Busy' = Busy \/ Cardinality(Busy') = Cardinality(Busy) - 1
                      /\ Len(idleConns') = Len(idleConns) \/ Len(idleConns') = 0
                      /\ timeouts' = timeouts \/ timeouts' = timeouts + 1
<1> USE DEF BusyLabels
<1>1. ASSUME NEW w \in Workers,
             Get(w) \/ WaitTurn(w) \/ WaitCancelled(w) \/ WaitTurnTaken(w) \/ WaitTimeout(w)
      PROVE  Shrinks
  BY <1>1, BusySame DEF Get, WaitTurn, WaitCancelled, WaitTurnTaken, WaitTimeout
<1>2. ASSUME NEW w \in Workers, popIdle(w), idleConns # << >>
      PROVE  /\ Cardinality(Busy') = Cardinality(Busy) + 1
             /\ Len(idleConns') = Len(idleConns) - 1 /\ UNCHANGED timeouts
  BY <1>2, BusyEnter, PopSeq DEF popIdle, TypeOK
<1>3. ASSUME NEW w \in Workers, popIdle(w), idleConns = << >>
      PROVE  Len(idleConns') = 0 /\ Holders' = Holders /\ UNCHANGED timeouts
  BY <1>3, HoldersSame, EmptySeq DEF popIdle, TypeOK, HoldingLabels, Labels
<1>4. ASSUME NEW w \in Workers, Healthy(w) \/ Unhealthy(w) \/ DialOK(w) \/ DialFail(w)
      PROVE  Shrinks
  BY <1>4, BusySame, BusyLeave DEF Healthy, Unhealthy, DialOK, DialFail
<1>5. ASSUME NEW w \in Workers, DialClosedCheck(w) \/ DialErrorsCheck(w)
      PROVE  Shrinks
  BY <1>5, BusySame, BusyLeave DEF DialClosedCheck, DialErrorsCheck
<1>6. ASSUME NEW w \in Workers, CountDialError(w) \/ GetFailed(w) \/ Register(w) \/ UseFailed(w)
      PROVE  Shrinks
  BY <1>6, BusySame DEF CountDialError, GetFailed, Register, UseFailed
<1>7. ASSUME NEW w \in Workers, UseDone(w) \/ UseLeftUnread(w) \/ Remove(w)
      PROVE  Shrinks
  BY <1>7, BusySame, BusyLeave DEF UseDone, UseLeftUnread, Remove
<1>8. ASSUME NEW w \in Workers, Put(w)
      PROVE  \/ Shrinks
             \/ /\ Cardinality(Busy') = Cardinality(Busy) - 1
                /\ Len(idleConns') = Len(idleConns) + 1 /\ UNCHANGED timeouts
  <2>1. cn[w] \in Conns /\ idleConns \in Seq(Conns)
    BY <1>8 DEF Put, TypeOK, OwningLabels
  <2>2. Cardinality(Busy') = Cardinality(Busy) - 1
    BY <1>8, BusyLeave DEF Put
  <2> QED
    BY <1>8, <2>1, <2>2, AppendProperties DEF Put
<1>9. ASSUME NEW w \in Workers, PutFreeTurn(w) \/ RemoveFreeTurn(w) \/ closeConn(w)
      PROVE  Shrinks
  BY <1>9, BusySame DEF PutFreeTurn, RemoveFreeTurn, closeConn
<1>10. ASSUME (\E c \in Conns : AnswerArrives(c)) \/ TryDialClosed \/ TryDialOK
              \/ CloseBegin \/ CloseSweep
       PROVE  Shrinks
  BY <1>10, EmptySeq DEF AnswerArrives, TryDialClosed, TryDialOK, CloseBegin, CloseSweep, Busy
<1> HIDE DEF Shrinks, BusyLabels
<1>11. Shrinks => /\ Busy' = Busy \/ Cardinality(Busy') = Cardinality(Busy) - 1
                  /\ Len(idleConns') = Len(idleConns) \/ Len(idleConns') = 0
                  /\ timeouts' = timeouts \/ timeouts' = timeouts + 1
  BY DEF Shrinks
<1> QED
  BY <1>1, <1>2, <1>3, <1>4, <1>5, <1>6, <1>7, <1>8, <1>9, <1>10, <1>11
     DEF Next, WorkerStep

\* Occupancy is kept by every step; a dial starts only from an empty stack,
\* where TurnAccounting bounds the workers.
LEMMA OccupancyStep ==
    TypeOK /\ TurnAccounting /\ Occupancy /\ [Next]_vars => Occupancy'
<1> SUFFICES ASSUME TypeOK, TurnAccounting, Occupancy, [Next]_vars PROVE Occupancy'
  OBVIOUS
<1>1. CASE UNCHANGED vars
  BY <1>1 DEF vars, Occupancy, Busy
<1>2. CASE Next
  <2> DEFINE b == Cardinality(Busy)
             h == Cardinality(Holders)
             k == Len(idleConns)
  <2>1. /\ b \in Nat /\ b' \in Nat /\ h \in Nat /\ h' \in Nat
        /\ k \in Nat /\ k' \in Nat /\ PoolSize \in Nat
        /\ timeouts \in Nat /\ queue \in Nat
    <3>1. TypeOK'
      BY TypeStep
    <3>2. b' \in Nat /\ h' \in Nat
      BY WorkersAssumption, FS_Subset, FS_CardinalityType DEF Holders, Busy
    <3> QED
      BY <3>1, <3>2, HoldersFinite, PoolSizeAssumption, MaxTimeoutsAssumption, LenProperties
         DEF TypeOK
  <2>2. b <= h /\ b' <= h'
    BY BusyBound
  <2>3. \/ /\ b' = b \/ b' = b - 1
           /\ k' = k \/ k' = 0
           /\ timeouts' = timeouts \/ timeouts' = timeouts + 1
        \/ b' = b + 1 /\ k' = k - 1 /\ UNCHANGED timeouts
        \/ b' = b - 1 /\ k' = k + 1 /\ UNCHANGED timeouts
        \/ k' = 0 /\ h' = h /\ UNCHANGED timeouts
    BY <1>2, OccupancySteps
  <2>4. queue + h <= PoolSize + timeouts /\ k + b <= PoolSize + timeouts
    BY DEF TurnAccounting, Occupancy
  <2> HIDE DEF b, h, k
  <2>5. k' + b' <= PoolSize + timeouts'
    BY <2>1, <2>2, <2>3, <2>4
  <2> QED
    BY <2>5 DEF b, k, Occupancy
<1> QED
  BY <1>1, <1>2

\* A connection enters the books in the hands of a busy worker, and leaves
\* them before that worker lets go of it.
LEMMA CoveredStep == TypeOK /\ ConnsCovered /\ [Next]_vars => ConnsCovered'
<1> SUFFICES ASSUME TypeOK, ConnsCovered, [Next]_vars PROVE ConnsCovered'
  OBVIOUS
<1> USE DEF ConnsCovered, Busy, BusyLabels, Goto, TypeOK
<1>1. ASSUME NEW w \in Workers,
             Get(w) \/ WaitTurn(w) \/ WaitCancelled(w) \/ WaitTurnTaken(w) \/ WaitTimeout(w)
      PROVE  ConnsCovered'
  BY <1>1, SMTT(30) DEF Get, WaitTurn, WaitCancelled, WaitTurnTaken, WaitTimeout
<1>2. ASSUME NEW w \in Workers, popIdle(w)
      PROVE  ConnsCovered'
  <2>1. CASE idleConns = << >>
    BY <1>2, <2>1 DEF popIdle
  <2>2. CASE idleConns # << >>
    <3>1. /\ Len(idleConns) \in Nat \ {0}
          /\ Len(idleConns') = Len(idleConns) - 1
          /\ \A i \in 1..(Len(idleConns) - 1) : idleConns'[i] = idleConns[i]
      BY <1>2, <2>2, PopSeq DEF popIdle
    <3>2. /\ cn' = [cn EXCEPT ![w] = idleConns[Len(idleConns)]]
          /\ pc[w] = "pop" /\ pc' = [pc EXCEPT ![w] = "check"] /\ conns' = conns
      BY <1>2, <2>2 DEF popIdle
    <3> SUFFICES ASSUME NEW c \in conns
                 PROVE  \/ \E i \in 1..Len(idleConns') : idleConns'[i] = c
                        \/ \E v \in Busy' : cn'[v] = c
      BY <3>2
    <3>3. CASE c = idleConns[Len(idleConns)]
      BY <3>2, <3>3
    <3>4. ASSUME NEW i \in 1..Len(idleConns), idleConns[i] = c, i # Len(idleConns)
          PROVE  \E j \in 1..Len(idleConns') : idleConns'[j] = c
      <4>1. i \in 1..(Len(idleConns) - 1)
        BY <3>1, <3>4
      <4> QED
        BY <3>1, <3>4, <4>1
    <3>5. ASSUME NEW v \in Busy, cn[v] = c PROVE \E u \in Busy' : cn'[u] = c
      BY <3>2, <3>5
    <3> QED
      BY <3>2, <3>3, <3>4, <3>5
  <2> QED
    BY <2>1, <2>2
<1>3. ASSUME NEW w \in Workers, Healthy(w) \/ Unhealthy(w)
      PROVE  ConnsCovered'
  BY <1>3 DEF Healthy, Unhealthy
<1>4. ASSUME NEW w \in Workers, DialFail(w) \/ DialOK(w)
      PROVE  ConnsCovered'
  <2>1. cn[w] = NoConn
    BY <1>4 DEF DialFail, DialOK, OwningLabels
  <2>2. conns' = conns /\ NoConn \notin conns
    BY <1>4, NoConnAssumption DEF DialFail, DialOK
  <2> QED
    BY <1>4, <2>1, <2>2 DEF DialFail, DialOK
<1>5. ASSUME NEW w \in Workers, DialClosedCheck(w) \/ DialErrorsCheck(w)
      PROVE  ConnsCovered'
  <2>1. cn[w] = NoConn
    BY <1>5 DEF DialClosedCheck, DialErrorsCheck, OwningLabels
  <2>2. conns' = conns /\ NoConn \notin conns
    BY <1>5, NoConnAssumption DEF DialClosedCheck, DialErrorsCheck
  <2> QED
    BY <1>5, <2>1, <2>2 DEF DialClosedCheck, DialErrorsCheck
<1>6. ASSUME NEW w \in Workers, CountDialError(w) \/ GetFailed(w) \/ Register(w) \/ UseFailed(w)
      PROVE  ConnsCovered'
  BY <1>6 DEF CountDialError, GetFailed, Register, UseFailed
<1>7. ASSUME NEW w \in Workers, UseDone(w) \/ UseLeftUnread(w) \/ Remove(w)
      PROVE  ConnsCovered'
  BY <1>7 DEF UseDone, UseLeftUnread, Remove
<1>8. ASSUME NEW w \in Workers, Put(w)
      PROVE  ConnsCovered'
  <2>1. CASE MaxIdleConns = 0 \/ Len(idleConns) < MaxIdleConns
    <3>1. cn[w] \in Conns
      BY <1>8 DEF Put, OwningLabels
    <3>2. /\ Len(idleConns) \in Nat /\ Len(idleConns') = Len(idleConns) + 1
          /\ \A i \in 1..Len(idleConns) : idleConns'[i] = idleConns[i]
          /\ idleConns'[Len(idleConns) + 1] = cn[w]
      BY <1>8, <2>1, <3>1, AppendProperties, LenProperties, SMTT(30) DEF Put
    <3> SUFFICES ASSUME NEW c \in conns
                 PROVE  \/ \E i \in 1..Len(idleConns') : idleConns'[i] = c
                        \/ \E v \in Busy' : cn'[v] = c
      BY <1>8, <2>1 DEF Put
    <3>3. CASE c = cn[w]
      BY <3>2, <3>3
    <3>4. CASE c # cn[w]
      BY <1>8, <2>1, <3>2, <3>4, SMTT(30) DEF Put
    <3> QED
      BY <3>3, <3>4
  <2>2. CASE ~(MaxIdleConns = 0 \/ Len(idleConns) < MaxIdleConns)
    BY <1>8, <2>2 DEF Put
  <2> QED
    BY <2>1, <2>2
<1>9. ASSUME NEW w \in Workers, PutFreeTurn(w) \/ RemoveFreeTurn(w) \/ closeConn(w)
      PROVE  ConnsCovered'
  BY <1>9 DEF PutFreeTurn, RemoveFreeTurn, closeConn
<1>10. ASSUME (\E d \in Conns : AnswerArrives(d)) \/ TryDialClosed \/ TryDialOK
              \/ CloseBegin \/ CloseSweep
       PROVE  ConnsCovered'
  BY <1>10 DEF AnswerArrives, TryDialClosed, TryDialOK, CloseBegin, CloseSweep
<1>11. CASE UNCHANGED vars
  BY <1>11 DEF vars
<1> HIDE DEF ConnsCovered, Busy, BusyLabels, Goto, TypeOK
<1> QED
  BY <1>1, <1>2, <1>3, <1>4, <1>5, <1>6, <1>7, <1>8, <1>9, <1>10, <1>11
     DEF Next, WorkerStep

\* Counting the idle stack and the busy workers counts the books.
LEMMA CoveredBound ==
    TypeOK /\ Occupancy /\ ConnsCovered => ConnsBounded
<1> SUFFICES ASSUME TypeOK, Occupancy, ConnsCovered PROVE ConnsBounded
  OBVIOUS
<1> DEFINE I == 1..Len(idleConns)
           S == {idleConns[i] : i \in I}
           T == {cn[w] : w \in Busy}
<1>1. Len(idleConns) \in Nat
  BY LenProperties DEF TypeOK
<1>2. IsFiniteSet(I) /\ Cardinality(I) = Len(idleConns)
  <2>1. ASSUME NEW n \in Nat PROVE IsFiniteSet(1..n) /\ Cardinality(1..n) = n
    BY FS_Interval
  <2> QED
    BY <1>1, <2>1
<1>3. IsFiniteSet(S) /\ Cardinality(S) <= Cardinality(I)
  <2> DEFINE f == [i \in I |-> idleConns[i]]
  <2>1. f \in Surjection(I, S)
    BY DEF Surjection
  <2> HIDE DEF f, S, I
  <2> QED
    BY <1>2, <2>1, FS_Surjection
<1>4. IsFiniteSet(T) /\ Cardinality(T) <= Cardinality(Busy)
  <2> DEFINE g == [w \in Busy |-> cn[w]]
  <2>1. g \in Surjection(Busy, T)
    BY DEF Surjection
  <2> HIDE DEF g, T
  <2> QED
    BY <2>1, HoldersFinite, FS_Surjection
<1>5. conns \subseteq S \cup T
  BY DEF ConnsCovered
<1>6. /\ IsFiniteSet(S \cup T)
      /\ Cardinality(S \cup T) = Cardinality(S) + Cardinality(T) - Cardinality(S \cap T)
      /\ Cardinality(S \cap T) \in Nat
  BY <1>3, <1>4, FS_Union, FS_Intersection, FS_CardinalityType
<1>7. IsFiniteSet(conns) /\ Cardinality(conns) <= Cardinality(S \cup T)
  BY <1>5, <1>6, FS_Subset, Zenon
<1>8. /\ Cardinality(conns) \in Nat /\ Cardinality(S \cup T) \in Nat
      /\ Cardinality(S) \in Nat /\ Cardinality(T) \in Nat /\ Cardinality(Busy) \in Nat
  BY <1>3, <1>4, <1>6, <1>7, HoldersFinite, FS_CardinalityType
<1> HIDE DEF I, S, T
<1>9. PoolSize \in Nat /\ timeouts \in Nat
  BY PoolSizeAssumption, MaxTimeoutsAssumption DEF TypeOK
<1> QED
  BY <1>1, <1>2, <1>3, <1>4, <1>6, <1>7, <1>8, <1>9 DEF Occupancy, ConnsBounded

\* The pool starts empty.
LEMMA BooksInit == Init => Occupancy /\ ConnsCovered
<1> SUFFICES ASSUME Init PROVE Occupancy /\ ConnsCovered
  OBVIOUS
<1>1. Busy = {}
  BY DEF Init, Busy, BusyLabels
<1> QED
  BY <1>1, FS_EmptySet, EmptySeq, PoolSizeAssumption DEF Init, Occupancy, ConnsCovered

\* The books never hold more than PoolSize connections and one more for every
\* wait that timed out.
THEOREM BooksBounded == Spec => []ConnsBounded
<1>1. Init => TypeOK /\ TurnAccounting /\ Occupancy /\ ConnsCovered
  BY TypeInit, TurnInit, BooksInit
<1>2. TypeOK /\ TurnAccounting /\ Occupancy /\ ConnsCovered /\ [Next]_vars
        => (TypeOK /\ TurnAccounting /\ Occupancy /\ ConnsCovered)'
  BY TypeStep, TurnStep, OccupancyStep, CoveredStep
<1>3. TypeOK /\ Occupancy /\ ConnsCovered => ConnsBounded
  BY CoveredBound
<1> QED
  BY <1>1, <1>2, <1>3, PTL DEF Spec
-----------------------------------------------------------------------------
(* One user per connection.                                                *)

\* A connection changes hands only through the idle stack, and a dialled one
\* is new to everybody.
LEMMA ExclusiveStep == TypeOK /\ ExclusiveUse /\ [Next]_vars => ExclusiveUse'
<1> SUFFICES ASSUME TypeOK, ExclusiveUse, [Next]_vars PROVE ExclusiveUse'
  OBVIOUS
<1> USE DEF ExclusiveUse, Owners, OwningLabels, Goto, TypeOK
<1>1. ASSUME NEW w \in Workers,
             Get(w) \/ WaitTurn(w) \/ WaitCancelled(w) \/ WaitTurnTaken(w) \/ WaitTimeout(w)
      PROVE  ExclusiveUse'
  BY <1>1, SMTT(30) DEF Get, WaitTurn, WaitCancelled, WaitTurnTaken, WaitTimeout
<1>2. ASSUME NEW w \in Workers, popIdle(w)
      PROVE  ExclusiveUse'
  <2>1. CASE idleConns = << >>
    BY <1>2, <2>1 DEF popIdle
  <2>2. CASE idleConns # << >>
    <3> DEFINE n == Len(idleConns)
    <3>1. /\ n \in Nat \ {0}
          /\ Len(idleConns') = n - 1
          /\ \A i \in 1..(n - 1) : idleConns'[i] = idleConns[i]
      BY <1>2, <2>2, PopSeq DEF popIdle
    <3>2. /\ cn' = [cn EXCEPT ![w] = idleConns[n]]
          /\ pc[w] = "pop" /\ pc' = [pc EXCEPT ![w] = "check"]
      BY <1>2, <2>2 DEF popIdle
    <3> HIDE DEF n
    <3>3. Owners' = Owners \cup {w} /\ w \notin Owners /\ Owners \subseteq Workers
      BY <3>2
    <3>4. /\ n \in 1..Len(idleConns)
          /\ \A i \in 1..Len(idleConns') : /\ i \in 1..Len(idleConns) /\ i # n
                                           /\ idleConns'[i] = idleConns[i]
      BY <3>1 DEF n
    <3>5. /\ cn'[w] = idleConns[n]
          /\ \A v \in Owners : cn'[v] = cn[v] /\ cn[v] # idleConns[n]
      BY <3>2, <3>3, <3>4
    <3>6. \A u, v \in Owners' : u # v => cn'[u] # cn'[v]
      BY <3>3, <3>5
    <3>7. \A v \in Owners', i \in 1..Len(idleConns') : cn'[v] # idleConns'[i]
      BY <3>3, <3>4, <3>5
    <3>8. \A i, j \in 1..Len(idleConns') : i # j => idleConns'[i] # idleConns'[j]
      BY <3>4
    <3> QED
      BY <3>6, <3>7, <3>8
  <2> QED
    BY <2>1, <2>2
<1>3. ASSUME NEW w \in Workers, Healthy(w) \/ Unhealthy(w) \/ DialFail(w)
      PROVE  ExclusiveUse'
  BY <1>3 DEF Healthy, Unhealthy, DialFail
<1>4. ASSUME NEW w \in Workers, DialOK(w)
      PROVE  ExclusiveUse'
  <2>1. PICK c \in Fresh : cn' = [cn EXCEPT ![w] = c]
    BY <1>4 DEF DialOK
  <2>2. /\ \A v \in Workers : cn[v] # c
        /\ \A i \in 1..Len(idleConns) : idleConns[i] # c
    BY <2>1 DEF Fresh, Referenced
  <2> QED
    BY <1>4, <2>1, <2>2 DEF DialOK
<1>5. ASSUME NEW w \in Workers, DialClosedCheck(w) \/ DialErrorsCheck(w)
      PROVE  ExclusiveUse'
  BY <1>5 DEF DialClosedCheck, DialErrorsCheck
<1>6. ASSUME NEW w \in Workers, CountDialError(w) \/ GetFailed(w) \/ Register(w) \/ UseFailed(w)
      PROVE  ExclusiveUse'
  BY <1>6, SMTT(30) DEF CountDialError, GetFailed, Register, UseFailed
<1>7. ASSUME NEW w \in Workers, UseDone(w) \/ UseLeftUnread(w) \/ Remove(w)
      PROVE  ExclusiveUse'
  BY <1>7 DEF UseDone, UseLeftUnread, Remove
<1>8. ASSUME NEW w \in Workers, Put(w)
      PROVE  ExclusiveUse'
  <2>1. CASE MaxIdleConns = 0 \/ Len(idleConns) < MaxIdleConns
    <3> DEFINE n == Len(idleConns)
    <3>1. cn[w] \in Conns
      BY <1>8 DEF Put
    <3>2. /\ n \in Nat /\ Len(idleConns') = n + 1
          /\ \A i \in 1..n : idleConns'[i] = idleConns[i]
          /\ idleConns'[n + 1] = cn[w]
      <4>1. idleConns' = Append(idleConns, cn[w])
        BY <1>8, <2>1 DEF Put
      <4> QED
        BY <3>1, <4>1, AppendProperties, LenProperties
    <3>3. pc[w] = "put" /\ pc' = [pc EXCEPT ![w] = "putFree"] /\ cn' = cn
      BY <1>8, <2>1 DEF Put
    <3>4. Owners' = Owners \ {w} /\ w \in Owners
      BY <3>3
    <3>5. \A i \in 1..n : idleConns[i] # cn[w]
      BY <3>4
    <3> HIDE DEF n
    <3>6. \A i \in 1..Len(idleConns') :
            \/ i \in 1..n /\ idleConns'[i] = idleConns[i]
            \/ i = n + 1 /\ i \notin 1..n /\ idleConns'[i] = cn[w]
      BY <3>2
    <3>7. \A u, v \in Owners' : u # v => cn'[u] # cn'[v]
      BY <3>3, <3>4
    <3>8. \A v \in Owners', i \in 1..Len(idleConns') : cn'[v] # idleConns'[i]
      BY <3>3, <3>4, <3>6 DEF n
    <3>9. \A i, j \in 1..Len(idleConns') : i # j => idleConns'[i] # idleConns'[j]
      BY <3>5, <3>6 DEF n
    <3> QED
      BY <3>7, <3>8, <3>9
  <2>2. CASE ~(MaxIdleConns = 0 \/ Len(idleConns) < MaxIdleConns)
    BY <1>8, <2>2 DEF Put
  <2> QED
    BY <2>1, <2>2
<1>9. ASSUME NEW w \in Workers, PutFreeTurn(w) \/ RemoveFreeTurn(w) \/ closeConn(w)
      PROVE  ExclusiveUse'
  BY <1>9 DEF PutFreeTurn, RemoveFreeTurn, closeConn
<1>10. ASSUME (\E d \in Conns : AnswerArrives(d)) \/ TryDialClosed \/ TryDialOK \/ CloseBegin
       PROVE  ExclusiveUse'
  BY <1>10 DEF AnswerArrives, TryDialClosed, TryDialOK, CloseBegin
<1>11. CASE CloseSweep
  BY <1>11, EmptySeq DEF CloseSweep
<1>12. CASE UNCHANGED vars
  BY <1>12 DEF vars
<1> HIDE DEF ExclusiveUse, Owners, OwningLabels, Goto, TypeOK
<1> QED
  BY <1>1, <1>2, <1>3, <1>4, <1>5, <1>6, <1>7, <1>8, <1>9, <1>10, <1>11, <1>12
     DEF Next, WorkerStep

\* Nobody owns anything at first.
LEMMA ExclusiveInit == Init => ExclusiveUse
BY EmptySeq DEF Init, ExclusiveUse, Owners, OwningLabels

\* No two workers ever use the same connection, however the pool is driven.
THEOREM ConnsExclusive == Spec => []ExclusiveUse
BY TypeInit, TypeStep, ExclusiveInit, ExclusiveStep, PTL DEF Spec

-----------------------------------------------------------------------------
(* The fail-fast mode.                                                     *)

\* The error is stored before it is counted.
DialInv ==
    /\ FailFastIsWatched
    /\ \A w \in Workers : pc[w] = "dialCount" => lastDialError # "nil"

\* A dial stores its error before it counts it, and only the dial that brings the
\* count to PoolSize starts tryDial, which resets the count only as it ends.
LEMMA DialStep == TypeOK /\ DialInv /\ [Next]_vars => DialInv'
<1> SUFFICES ASSUME TypeOK, DialInv, [Next]_vars PROVE DialInv'
  OBVIOUS
<1> USE PoolSizeAssumption DEF DialInv, FailFastIsWatched, closed, Goto, TypeOK
<1>1. ASSUME NEW w \in Workers,
             Get(w) \/ WaitTurn(w) \/ WaitCancelled(w) \/ WaitTurnTaken(w) \/ WaitTimeout(w)
      PROVE  DialInv'
  BY <1>1 DEF Get, WaitTurn, WaitCancelled, WaitTurnTaken, WaitTimeout
<1>2. ASSUME NEW w \in Workers, popIdle(w) \/ Healthy(w) \/ Unhealthy(w) \/ DialOK(w)
      PROVE  DialInv'
  BY <1>2 DEF popIdle, Healthy, Unhealthy, DialOK
<1>3. ASSUME NEW w \in Workers, DialClosedCheck(w) \/ DialErrorsCheck(w)
      PROVE  DialInv'
  BY <1>3 DEF DialClosedCheck, DialErrorsCheck
<1>4. ASSUME NEW w \in Workers, DialFail(w)
      PROVE  DialInv'
  BY <1>4 DEF DialFail
<1>5. ASSUME NEW w \in Workers, CountDialError(w)
      PROVE  DialInv'
  BY <1>5 DEF CountDialError
<1>6. ASSUME NEW w \in Workers, GetFailed(w) \/ Register(w) \/ UseFailed(w) \/ UseDone(w)
      PROVE  DialInv'
  BY <1>6 DEF GetFailed, Register, UseFailed, UseDone
<1>7. ASSUME NEW w \in Workers, UseLeftUnread(w) \/ Put(w) \/ PutFreeTurn(w) \/ Remove(w)
      PROVE  DialInv'
  BY <1>7 DEF UseLeftUnread, Put, PutFreeTurn, Remove
<1>8. ASSUME NEW w \in Workers, RemoveFreeTurn(w) \/ closeConn(w)
      PROVE  DialInv'
  BY <1>8 DEF RemoveFreeTurn, closeConn
<1>9. ASSUME (\E d \in Conns : AnswerArrives(d)) \/ CloseBegin \/ CloseSweep
      PROVE  DialInv'
  BY <1>9 DEF AnswerArrives, CloseBegin, CloseSweep
<1>10. CASE TryDialClosed \/ TryDialOK
  BY <1>10 DEF TryDialClosed, TryDialOK
<1>11. CASE UNCHANGED vars
  BY <1>11 DEF vars
<1> HIDE DEF DialInv, FailFastIsWatched, closed, Goto, TypeOK
<1> QED
  BY <1>1, <1>2, <1>3, <1>4, <1>5, <1>6, <1>7, <1>8, <1>9, <1>10, <1>11
     DEF Next, WorkerStep

\* A pool that has stopped dialling has an error to return and one tryDial
\* that will end it, whatever the number of concurrent failures.
THEOREM FailFastWatched == Spec => []FailFastIsWatched
<1>1. Init => DialInv
  BY PoolSizeAssumption DEF Init, DialInv, FailFastIsWatched, closed
<1>2. DialInv => FailFastIsWatched
  BY DEF DialInv
<1> QED
  BY <1>1, <1>2, TypeInit, TypeStep, DialStep, PTL DEF Spec

-----------------------------------------------------------------------------
(* No forgotten socket.                                                    *)

\* NewConn looks at _closed before it dials.
LEMMA OverlapStep == TypeOK /\ LateDialsOverlap /\ [Next]_vars => LateDialsOverlap'
<1> SUFFICES ASSUME TypeOK, LateDialsOverlap, [Next]_vars PROVE LateDialsOverlap'
  OBVIOUS
<1> USE DEF LateDialsOverlap, DialLabels, closed, Goto, TypeOK
<1>1. ASSUME NEW w \in Workers,
             Get(w) \/ WaitTurn(w) \/ WaitCancelled(w) \/ WaitTurnTaken(w) \/ WaitTimeout(w)
      PROVE  LateDialsOverlap'
  BY <1>1 DEF Get, WaitTurn, WaitCancelled, WaitTurnTaken, WaitTimeout
<1>2. ASSUME NEW w \in Workers, popIdle(w) \/ Healthy(w) \/ Unhealthy(w)
      PROVE  LateDialsOverlap'
  BY <1>2 DEF popIdle, Healthy, Unhealthy
<1>3. ASSUME NEW w \in Workers, DialClosedCheck(w) \/ DialErrorsCheck(w)
      PROVE  LateDialsOverlap'
  BY <1>3 DEF DialClosedCheck, DialErrorsCheck
<1>4. ASSUME NEW w \in Workers, DialOK(w) \/ DialFail(w) \/ CountDialError(w)
      PROVE  LateDialsOverlap'
  BY <1>4 DEF DialOK, DialFail, CountDialError
<1>5. ASSUME NEW w \in Workers, GetFailed(w) \/ Register(w) \/ UseFailed(w) \/ UseDone(w)
      PROVE  LateDialsOverlap'
  BY <1>5 DEF GetFailed, Register, UseFailed, UseDone
<1>6. ASSUME NEW w \in Workers, UseLeftUnread(w) \/ Put(w) \/ PutFreeTurn(w) \/ Remove(w)
      PROVE  LateDialsOverlap'
  BY <1>6 DEF UseLeftUnread, Put, PutFreeTurn, Remove
<1>7. ASSUME NEW w \in Workers, RemoveFreeTurn(w) \/ closeConn(w)
      PROVE  LateDialsOverlap'
  BY <1>7 DEF RemoveFreeTurn, closeConn
<1>8. ASSUME (\E d \in Conns : AnswerArrives(d)) \/ TryDialClosed \/ TryDialOK
             \/ CloseBegin \/ CloseSweep
      PROVE  LateDialsOverlap'
  BY <1>8 DEF AnswerArrives, TryDialClosed, TryDialOK, CloseBegin, CloseSweep
<1>9. CASE UNCHANGED vars
  BY <1>9 DEF vars
<1> HIDE DEF LateDialsOverlap, Goto, TypeOK
<1> QED
  BY <1>1, <1>2, <1>3, <1>4, <1>5, <1>6, <1>7, <1>8, <1>9 DEF Next, WorkerStep

\* A socket is opened by a worker that registers it next, and taken out of the
\* books only by one that closes it next or by the sweep of Close; a worker
\* that registers one after the sweep had begun to dial before.
LEMMA NoLeakStep == TypeOK /\ NoSocketLeak /\ [Next]_vars => NoSocketLeak'
<1> SUFFICES ASSUME TypeOK, NoSocketLeak, [Next]_vars PROVE NoSocketLeak'
  OBVIOUS
<1>0. LateDialsOverlap'
  BY OverlapStep DEF NoSocketLeak
<1> HIDE DEF LateDialsOverlap
<1> USE DEF NoSocketLeak, CloseSock, Goto, TypeOK
<1>1. ASSUME NEW w \in Workers,
             Get(w) \/ WaitTurn(w) \/ WaitCancelled(w) \/ WaitTurnTaken(w) \/ WaitTimeout(w)
      PROVE  NoSocketLeak'
  BY <1>0, <1>1 DEF Get, WaitTurn, WaitCancelled, WaitTurnTaken, WaitTimeout
<1>2. ASSUME NEW w \in Workers, popIdle(w) \/ Healthy(w) \/ Unhealthy(w)
      PROVE  NoSocketLeak'
  BY <1>0, <1>2 DEF popIdle, Healthy, Unhealthy
<1>3. ASSUME NEW w \in Workers, DialClosedCheck(w) \/ DialErrorsCheck(w)
      PROVE  NoSocketLeak'
  BY <1>0, <1>3 DEF DialClosedCheck, DialErrorsCheck
<1>4. ASSUME NEW w \in Workers, DialOK(w) \/ DialFail(w) \/ CountDialError(w)
      PROVE  NoSocketLeak'
  <2>1. CASE DialFail(w) \/ CountDialError(w)
    BY <1>0, <2>1 DEF DialFail, CountDialError
  <2>2. CASE DialOK(w)
    <3>1. PICK d \in Fresh : open' = open \cup {d} /\ cn' = [cn EXCEPT ![w] = d]
      BY <2>2 DEF DialOK
    <3>2. /\ conns' = conns /\ closer' = closer /\ late' = late
          /\ pc[w] = "dialing" /\ pc' = [pc EXCEPT ![w] = "register"]
      BY <2>2 DEF DialOK
    <3> QED
      BY <1>0, <3>1, <3>2
  <2> QED
    BY <1>4, <2>1, <2>2
<1>5. ASSUME NEW w \in Workers, GetFailed(w) \/ Register(w) \/ UseFailed(w) \/ UseDone(w)
      PROVE  NoSocketLeak'
  <2>1. CASE GetFailed(w) \/ UseFailed(w) \/ UseDone(w)
    BY <1>0, <2>1 DEF GetFailed, UseFailed, UseDone
  <2>2. CASE Register(w)
    <3>1. closer = "done" => w \in overlap
      BY <2>2 DEF Register, LateDialsOverlap, DialLabels, closed
    <3>2. cn[w] \in conns' /\ (closer' = "done" => cn[w] \in late')
      BY <2>2, <3>1 DEF Register
    <3>3. /\ conns \subseteq conns' /\ late \subseteq late'
          /\ open' = open /\ cn' = cn /\ closer' = closer
          /\ pc' = [pc EXCEPT ![w] = "use"]
      BY <2>2 DEF Register
    <3> QED
      BY <1>0, <3>2, <3>3
  <2> QED
    BY <1>5, <2>1, <2>2
<1>6. ASSUME NEW w \in Workers, UseLeftUnread(w) \/ Put(w) \/ PutFreeTurn(w) \/ Remove(w)
      PROVE  NoSocketLeak'
  <2>1. CASE UseLeftUnread(w) \/ Remove(w)
    BY <1>0, <2>1 DEF UseLeftUnread, Remove
  <2>2. CASE Put(w) \/ PutFreeTurn(w)
    BY <1>0, <2>2 DEF Put, PutFreeTurn
  <2> QED
    BY <1>6, <2>1, <2>2
<1>7. ASSUME NEW w \in Workers, RemoveFreeTurn(w) \/ closeConn(w)
      PROVE  NoSocketLeak'
  BY <1>0, <1>7 DEF RemoveFreeTurn, closeConn
<1>8. ASSUME (\E d \in Conns : AnswerArrives(d)) \/ TryDialClosed \/ TryDialOK
             \/ CloseBegin \/ CloseSweep
      PROVE  NoSocketLeak'
  BY <1>0, <1>8 DEF AnswerArrives, TryDialClosed, TryDialOK, CloseBegin, CloseSweep
<1>9. CASE UNCHANGED vars
  BY <1>0, <1>9 DEF vars
<1> HIDE DEF NoSocketLeak, CloseSock, Goto, TypeOK
<1> QED
  BY <1>1, <1>2, <1>3, <1>4, <1>5, <1>6, <1>7, <1>8, <1>9 DEF Next, WorkerStep

\* An open socket is in the books, where the sweep of Close is going to find
\* it, or in the hands of a worker that registers or closes it next; after the
\* sweep it may also be one of a dial that had found the pool open before
\* Close began.
THEOREM SocketsAccounted == Spec => []NoSocketLeak
<1>1. Init => NoSocketLeak
  BY DEF Init, NoSocketLeak, LateDialsOverlap, closed, DialLabels
<1> QED
  BY <1>1, TypeInit, TypeStep, NoLeakStep, PTL DEF Spec

-----------------------------------------------------------------------------
(* No connection is closed under its user.                                 *)

\* While no wait has timed out, a worker that closes a connection is the last
\* to have it; and while the pool is open, connections that are registered,
\* used, put back or idle are open.
ClosesItsOwn ==
    timeouts = 0 =>
        \A v \in Workers : pc[v] = "close" =>
            /\ \A w \in Owners : cn[v] # cn[w]
            /\ \A i \in 1..Len(idleConns) : cn[v] # idleConns[i]
OpenWhileUsed ==
    (timeouts = 0 /\ ~closed) =>
        /\ \A w \in Workers : pc[w] \in {"register", "use", "put"} => cn[w] \in open
        /\ \A i \in 1..Len(idleConns) : idleConns[i] \in open
OpenInv == ClosesItsOwn /\ OpenWhileUsed

\* Without a timeout the channel has room for the turn of every worker, so Put
\* never closes the connection that it has just made idle.
LEMMA RoomForTurn ==
    ASSUME TypeOK, TurnAccounting, timeouts = 0, NEW w \in Workers, pc[w] \in HoldingLabels
    PROVE  queue < PoolSize
<1> DEFINE n == Cardinality(Holders)
<1>1. n \in Nat /\ queue \in Nat /\ PoolSize \in Nat
  BY HoldersFinite, PoolSizeAssumption DEF TypeOK
<1>2. w \in Holders
  BY DEF Holders
<1>3. n # 0
  BY <1>2, HoldersFinite, FS_EmptySet
<1>4. queue + n <= PoolSize + 0
  BY DEF TurnAccounting
<1> HIDE DEF n
<1> QED
  BY <1>1, <1>3, <1>4

\* A connection is closed by the worker that owned it last, and by the sweep of
\* Close.
LEMMA OpenStep ==
    TypeOK /\ TurnAccounting /\ ExclusiveUse /\ OpenInv /\ [Next]_vars => OpenInv'
<1> SUFFICES ASSUME TypeOK, TurnAccounting, ExclusiveUse, OpenInv, [Next]_vars, timeouts' = 0
             PROVE  OpenInv'
  BY DEF OpenInv, ClosesItsOwn, OpenWhileUsed
<1> USE DEF ExclusiveUse, OpenInv, ClosesItsOwn, OpenWhileUsed, Owners, OwningLabels,
            CloseSock, closed, Goto, TypeOK
<1>1. ASSUME NEW w \in Workers,
             Get(w) \/ WaitTurn(w) \/ WaitCancelled(w) \/ WaitTurnTaken(w)
      PROVE  OpenInv'
  BY <1>1 DEF Get, WaitTurn, WaitCancelled, WaitTurnTaken
<1>2. ASSUME NEW w \in Workers, WaitTimeout(w)
      PROVE  OpenInv'
  <2>1. timeouts \in Nat /\ timeouts' = timeouts + 1
    BY <1>2, MaxTimeoutsAssumption DEF WaitTimeout
  <2> QED
    BY <2>1
<1>3. ASSUME NEW w \in Workers, popIdle(w)
      PROVE  OpenInv'
  <2>1. CASE idleConns = << >>
    BY <1>3, <2>1 DEF popIdle
  <2>2. CASE idleConns # << >>
    <3> DEFINE n == Len(idleConns)
    <3>1. /\ n \in Nat \ {0}
          /\ Len(idleConns') = n - 1
          /\ \A i \in 1..(n - 1) : idleConns'[i] = idleConns[i]
      BY <1>3, <2>2, PopSeq DEF popIdle
    <3>2. /\ cn' = [cn EXCEPT ![w] = idleConns[n]]
          /\ pc[w] = "pop" /\ pc' = [pc EXCEPT ![w] = "check"]
          /\ UNCHANGED <<open, closer, timeouts>>
      BY <1>3, <2>2 DEF popIdle
    <3> HIDE DEF n
    <3>3. /\ n \in 1..Len(idleConns)
          /\ \A i \in 1..Len(idleConns') : /\ i \in 1..Len(idleConns)
                                           /\ idleConns'[i] = idleConns[i]
      BY <3>1 DEF n
    <3>4. /\ pc'[w] = "check" /\ cn'[w] = idleConns[n]
          /\ \A v \in Workers : v # w => pc'[v] = pc[v] /\ cn'[v] = cn[v]
      BY <3>2
    <3>5. ClosesItsOwn'
      BY <3>2, <3>3, <3>4
    <3>6. OpenWhileUsed'
      BY <3>2, <3>3, <3>4
    <3> QED
      BY <3>5, <3>6
  <2> QED
    BY <2>1, <2>2
<1>4. ASSUME NEW w \in Workers, Healthy(w) \/ Unhealthy(w) \/ DialFail(w)
      PROVE  OpenInv'
  BY <1>4 DEF Healthy, Unhealthy, DialFail
<1>5. ASSUME NEW w \in Workers, DialOK(w)
      PROVE  OpenInv'
  <2>1. PICK c \in Fresh : cn' = [cn EXCEPT ![w] = c] /\ open' = open \cup {c}
    BY <1>5 DEF DialOK
  <2>2. /\ \A v \in Workers : cn[v] # c
        /\ \A i \in 1..Len(idleConns) : idleConns[i] # c
    BY <2>1 DEF Fresh, Referenced
  <2>3. /\ pc[w] = "dialing" /\ pc' = [pc EXCEPT ![w] = "register"]
        /\ UNCHANGED <<idleConns, closer, timeouts>>
    BY <1>5 DEF DialOK
  <2> QED
    BY <2>1, <2>2, <2>3
<1>6. ASSUME NEW w \in Workers, DialClosedCheck(w) \/ DialErrorsCheck(w)
      PROVE  OpenInv'
  BY <1>6 DEF DialClosedCheck, DialErrorsCheck
<1>7. ASSUME NEW w \in Workers, CountDialError(w) \/ GetFailed(w) \/ Register(w) \/ UseFailed(w)
      PROVE  OpenInv'
  BY <1>7 DEF CountDialError, GetFailed, Register, UseFailed
<1>8. ASSUME NEW w \in Workers, UseDone(w) \/ UseLeftUnread(w) \/ Remove(w)
      PROVE  OpenInv'
  BY <1>8 DEF UseDone, UseLeftUnread, Remove
<1>9. ASSUME NEW w \in Workers, Put(w)
      PROVE  OpenInv'
  <2>1. CASE MaxIdleConns = 0 \/ Len(idleConns) < MaxIdleConns
    <3> DEFINE n == Len(idleConns)
    <3>1. cn[w] \in Conns
      BY <1>9 DEF Put
    <3>2. /\ n \in Nat /\ Len(idleConns') = n + 1
          /\ \A i \in 1..n : idleConns'[i] = idleConns[i]
          /\ idleConns'[n + 1] = cn[w]
      BY <1>9, <2>1, <3>1, AppendProperties, LenProperties, SMTT(30) DEF Put
    <3>3. /\ pc[w] = "put" /\ pc' = [pc EXCEPT ![w] = "putFree"] /\ cn' = cn
          /\ UNCHANGED <<open, closer, timeouts>>
      BY <1>9, <2>1 DEF Put
    <3> HIDE DEF n
    <3>4. \A i \in 1..Len(idleConns') :
            \/ i \in 1..n /\ idleConns'[i] = idleConns[i]
            \/ idleConns'[i] = cn[w]
      BY <3>2
    <3> QED
      BY <3>3, <3>4 DEF n
  <2>2. CASE ~(MaxIdleConns = 0 \/ Len(idleConns) < MaxIdleConns)
    BY <1>9, <2>2 DEF Put
  <2> QED
    BY <2>1, <2>2
<1>10. ASSUME NEW w \in Workers, PutFreeTurn(w)
       PROVE  OpenInv'
  <2>1. pc[w] \in HoldingLabels /\ timeouts = 0
    BY <1>10 DEF PutFreeTurn, HoldingLabels, Labels
  <2>2. queue < PoolSize
    BY <2>1, RoomForTurn
  <2> QED
    BY <1>10, <2>2 DEF PutFreeTurn
<1>11. ASSUME NEW w \in Workers, RemoveFreeTurn(w) \/ closeConn(w)
       PROVE  OpenInv'
  BY <1>11 DEF RemoveFreeTurn, closeConn
<1>12. ASSUME (\E d \in Conns : AnswerArrives(d)) \/ TryDialClosed \/ TryDialOK \/ CloseBegin
       PROVE  OpenInv'
  BY <1>12 DEF AnswerArrives, TryDialClosed, TryDialOK, CloseBegin
<1>13. CASE CloseSweep
  BY <1>13, EmptySeq DEF CloseSweep
<1>14. CASE UNCHANGED vars
  BY <1>14 DEF vars
<1> HIDE DEF ExclusiveUse, OpenInv, ClosesItsOwn, OpenWhileUsed, Owners, OwningLabels,
             CloseSock, closed, Goto, TypeOK
<1> QED
  BY <1>1, <1>2, <1>3, <1>4, <1>5, <1>6, <1>7, <1>8, <1>9, <1>10, <1>11, <1>12, <1>13, <1>14
     DEF Next, WorkerStep

\* While no wait has timed out and the pool is open, nobody closes a connection
\* under a worker that uses it, or one that is idle.
THEOREM NotClosedInUse == Spec => []NoCloseInUse
<1>1. Init => OpenInv
  BY EmptySeq DEF Init, OpenInv, ClosesItsOwn, OpenWhileUsed
<1>2. OpenInv => NoCloseInUse
  BY DEF OpenInv, OpenWhileUsed, NoCloseInUse
<1> QED
  BY <1>1, <1>2, TypeInit, TypeStep, TurnInit, TurnStep, ExclusiveInit, ExclusiveStep, OpenStep, PTL
     DEF Spec
=============================================================================
