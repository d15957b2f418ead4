------------------------------ MODULE ConnPool ------------------------------
(***************************************************************************)
(* The ClickHouse connection pool of pkg/go-clickhouse/ch/chpool and the   *)
(* way pkg/go-clickhouse/ch/db.go uses it.                                 *)
(*                                                                         *)
(* A worker is a goroutine that runs queries: DB.getConn, the query itself *)
(* and DB.releaseConn.  A turn is a token of the buffered channel          *)
(* ConnPool.queue; a worker needs one to be in the pool, except that a     *)
(* worker whose wait times out goes on without one (waitTurn's timer case  *)
(* returns nil).  Each atomic load, channel operation and section under    *)
(* connsMu is a step of its own; what a goroutine does to a connection     *)
(* nobody else can reach is part of the step before or after it.           *)
(*                                                                         *)
(* Sockets are drawn from Conns; one that is closed and that nothing       *)
(* refers to any more may be drawn again.                                  *)
(***************************************************************************)
EXTENDS Integers, Sequences, FiniteSets

CONSTANTS
    Workers,       \* goroutines that run queries
    Conns,         \* connection identities
    NoConn,        \* a nil *Conn
    PoolSize,      \* Config.PoolSize
    MaxIdleConns,  \* Config.MaxIdleConns, 0 means no limit
    MaxTimeouts    \* bound of the model: how many waits may time out

ASSUME PoolSizeAssumption == PoolSize \in Nat \ {0}
ASSUME MaxIdleAssumption == MaxIdleConns \in Nat
ASSUME MaxTimeoutsAssumption == MaxTimeouts \in Nat
ASSUME WorkersAssumption == IsFiniteSet(Workers)
ASSUME NoConnAssumption == NoConn \notin Conns

VARIABLES
    queue,          \* tokens in ConnPool.queue
    conns,          \* ConnPool.conns
    idleConns,      \* ConnPool.idleConns, the top of the stack last
    open,           \* connections whose socket is open
    unread,         \* answer bytes nobody asked for: none, under way, arrived
    dialErrorsNum,  \* ConnPool.dialErrorsNum
    lastDialError,  \* ConnPool.lastDialError: nil or an error
    tryDials,       \* running tryDial goroutines
    closer,         \* progress of ConnPool.Close
    overlap,        \* history: workers that had looked at _closed in NewConn when
                    \* Close began, until they register a connection
    late,           \* history: connections that such a worker registered after
                    \* the sweep of Close
    timeouts,       \* Stats.Timeouts
    pc,             \* where each worker is
    cn              \* the connection each worker holds

vars == <<queue, conns, idleConns, open, unread, dialErrorsNum, lastDialError,
          tryDials, closer, overlap, late, timeouts, pc, cn>>

poolVars == <<queue, conns, idleConns>>
sockVars == <<open, unread>>
dialVars == <<dialErrorsNum, lastDialError, tryDials>>
lateVars == <<overlap, late>>

Labels == {"start", "turn", "wait", "pop", "check", "closedCheck", "dialCheck",
           "dialing", "dialCount", "free", "register", "use", "put", "putFree",
           "remove", "removeFree", "close"}

\* A worker between waitTurn's success and freeTurn.
HoldingLabels == Labels \ {"start", "turn", "wait", "close"}
Holders == {w \in Workers : pc[w] \in HoldingLabels}

\* A worker that has a connection in the pool's books, or is going to.
BusyLabels == {"check", "closedCheck", "dialCheck", "dialing", "register",
               "use", "put", "remove"}
Busy == {w \in Workers : pc[w] \in BusyLabels}

\* A worker that owns the connection it refers to.
OwningLabels == {"check", "register", "use", "put", "remove", "removeFree"}
Owners == {w \in Workers : pc[w] \in OwningLabels}

\* A worker of NewConn that has found the pool open.
DialLabels == {"dialCheck", "dialing", "register"}

closed == closer # "open"

Referenced == conns \cup {idleConns[i] : i \in 1..Len(idleConns)}
                    \cup {cn[w] : w \in Workers}

Fresh == Conns \ (open \cup Referenced)

Goto(w, label) == pc' = [pc EXCEPT ![w] = label]

\* (*Conn).Close: the first call closes the socket, later calls do nothing.
CloseSock(c) ==
    /\ open' = open \ {c}
    /\ unread' = [unread EXCEPT ![c] = "no"]

-----------------------------------------------------------------------------

Init ==
    /\ queue = PoolSize
    /\ conns = {}
    /\ idleConns = << >>
    /\ open = {}
    /\ unread = [c \in Conns |-> "no"]
    /\ dialErrorsNum = 0
    /\ lastDialError = "nil"
    /\ tryDials = 0
    /\ closer = "open"
    /\ overlap = {}
    /\ late = {}
    /\ timeouts = 0
    /\ pc = [w \in Workers |-> "start"]
    /\ cn = [w \in Workers |-> NoConn]

\* MUTANT: a send without the default case, on a channel without a limit.
freeTurnUnlimited == queue' = queue + 1

\* freeTurn: a send that gives up when the channel is full.
freeTurn == queue' = IF queue < PoolSize THEN queue + 1 ELSE queue

-----------------------------------------------------------------------------
(* Get.  A Get on a closed pool returns ErrClosed and changes nothing.     *)

Get(w) ==
    /\ pc[w] = "start"
    /\ ~closed
    /\ Goto(w, "turn")
    /\ UNCHANGED <<poolVars, sockVars, dialVars, closer, lateVars,
                   timeouts, cn>>

\* waitTurn up to the blocking select: a cancelled context, the fast path, or
\* a wait.
WaitTurn(w) ==
    /\ pc[w] = "turn"
    /\ \/ /\ Goto(w, "start")
          /\ UNCHANGED queue
       \/ /\ queue > 0
          /\ queue' = queue - 1
          /\ Goto(w, "pop")
       \/ /\ queue = 0
          /\ Goto(w, "wait")
          /\ UNCHANGED queue
    /\ UNCHANGED <<conns, idleConns, sockVars, dialVars, closer, lateVars,
                   timeouts, cn>>

WaitCancelled(w) ==
    /\ pc[w] = "wait"
    /\ Goto(w, "start")
    /\ UNCHANGED <<poolVars, sockVars, dialVars, closer, lateVars,
                   timeouts, cn>>

WaitTurnTaken(w) ==
    /\ pc[w] = "wait"
    /\ queue > 0
    /\ queue' = queue - 1
    /\ Goto(w, "pop")
    /\ UNCHANGED <<conns, idleConns, sockVars, dialVars, closer, lateVars,
                   timeouts, cn>>

\* The timer case returns nil: the worker goes on without a token.
WaitTimeout(w) ==
    /\ pc[w] = "wait"
    /\ timeouts < MaxTimeouts
    /\ timeouts' = timeouts + 1
    /\ Goto(w, "pop")
    /\ UNCHANGED <<poolVars, sockVars, dialVars, closer, lateVars, cn>>

\* MUTANT: the popped connection stays on the stack.
popIdlePeeks(w) ==
    /\ pc[w] = "pop"
    /\ IF idleConns = << >>
       THEN Goto(w, "closedCheck") /\ UNCHANGED cn
       ELSE /\ cn' = [cn EXCEPT ![w] = idleConns[Len(idleConns)]]
            /\ Goto(w, "check")
    /\ UNCHANGED <<poolVars, sockVars, dialVars, closer, lateVars, timeouts>>

popIdle(w) ==
    /\ pc[w] = "pop"
    /\ \/ /\ idleConns = << >>
          /\ Goto(w, "closedCheck")
          /\ UNCHANGED <<idleConns, cn>>
       \/ /\ idleConns # << >>
          /\ cn' = [cn EXCEPT ![w] = idleConns[Len(idleConns)]]
          /\ idleConns' = SubSeq(idleConns, 1, Len(idleConns) - 1)
          /\ Goto(w, "check")
    /\ UNCHANGED <<queue, conns, sockVars, dialVars, closer, lateVars,
                   timeouts>>

\* isHealthyConn: connCheck's read succeeds only on an open socket on which
\* nothing has arrived.
Healthy(w) ==
    /\ pc[w] = "check"
    /\ cn[w] \in open
    /\ unread[cn[w]] # "arrived"
    /\ Goto(w, "use")
    /\ UNCHANGED <<poolVars, sockVars, dialVars, closer, lateVars,
                   timeouts, cn>>

\* MUTANT: closeConn instead of CloseConn.
UnhealthyStaysInBooks(w) ==
    /\ pc[w] = "check"
    /\ CloseSock(cn[w])
    /\ cn' = [cn EXCEPT ![w] = NoConn]
    /\ Goto(w, "pop")
    /\ UNCHANGED <<poolVars, dialVars, closer, lateVars, timeouts>>

\* Too old, idle for too long or failing connCheck: CloseConn, then the loop
\* of Get goes on.
Unhealthy(w) ==
    /\ pc[w] = "check"
    /\ conns' = conns \ {cn[w]}
    /\ CloseSock(cn[w])
    /\ cn' = [cn EXCEPT ![w] = NoConn]
    /\ Goto(w, "pop")
    /\ UNCHANGED <<queue, idleConns, dialVars, closer, lateVars, timeouts>>

-----------------------------------------------------------------------------
(* NewConn and dialConn.                                                   *)

DialClosedCheck(w) ==
    /\ pc[w] = "closedCheck"
    /\ Goto(w, IF closed THEN "free" ELSE "dialCheck")
    /\ UNCHANGED <<poolVars, sockVars, dialVars, closer, lateVars,
                   timeouts, cn>>

\* After PoolSize failures getLastDialError's value is returned instead.
DialErrorsCheck(w) ==
    /\ pc[w] = "dialCheck"
    /\ Goto(w, IF dialErrorsNum >= PoolSize THEN "free" ELSE "dialing")
    /\ UNCHANGED <<poolVars, sockVars, dialVars, closer, lateVars,
                   timeouts, cn>>

DialOK(w) ==
    /\ pc[w] = "dialing"
    /\ \E c \in Fresh :
        /\ open' = open \cup {c}
        /\ cn' = [cn EXCEPT ![w] = c]
    /\ Goto(w, "register")
    /\ UNCHANGED <<poolVars, unread, dialVars, closer, lateVars, timeouts>>

DialFail(w) ==
    /\ pc[w] = "dialing"
    /\ lastDialError' = "error"
    /\ Goto(w, "dialCount")
    /\ UNCHANGED <<poolVars, sockVars, dialErrorsNum, tryDials, closer, lateVars,
                   timeouts, cn>>

\* MUTANT: the count is compared before the increment.
CountDialErrorLate(w) ==
    /\ pc[w] = "dialCount"
    /\ dialErrorsNum' = dialErrorsNum + 1
    /\ tryDials' = IF dialErrorsNum = PoolSize THEN tryDials + 1 ELSE tryDials
    /\ Goto(w, "free")
    /\ UNCHANGED <<poolVars, sockVars, lastDialError, closer, lateVars,
                   timeouts, cn>>

\* The failure that makes the count reach PoolSize starts tryDial.
CountDialError(w) ==
    /\ pc[w] = "dialCount"
    /\ dialErrorsNum' = dialErrorsNum + 1
    /\ tryDials' = IF dialErrorsNum' = PoolSize THEN tryDials + 1 ELSE tryDials
    /\ Goto(w, "free")
    /\ UNCHANGED <<poolVars, sockVars, lastDialError, closer, lateVars,
                   timeouts, cn>>

\* MUTANT: the turn is kept when the dial fails.
GetFailedKeepsTurn(w) ==
    /\ pc[w] = "free"
    /\ Goto(w, "start")
    /\ UNCHANGED <<poolVars, sockVars, dialVars, closer, lateVars,
                   timeouts, cn>>

GetFailed(w) ==
    /\ pc[w] = "free"
    /\ freeTurn
    /\ Goto(w, "start")
    /\ UNCHANGED <<conns, idleConns, sockVars, dialVars, closer, lateVars,
                   timeouts, cn>>

\* MUTANT: the new connection is not added to ConnPool.conns.
RegisterForgets(w) ==
    /\ pc[w] = "register"
    /\ Goto(w, "use")
    /\ UNCHANGED <<poolVars, sockVars, dialVars, closer, lateVars,
                   timeouts, cn>>

Register(w) ==
    /\ pc[w] = "register"
    /\ conns' = conns \cup {cn[w]}
    /\ overlap' = overlap \ {w}
    /\ late' = IF closer = "done" /\ w \in overlap
               THEN late \cup {cn[w]} ELSE late
    /\ Goto(w, "use")
    /\ UNCHANGED <<queue, idleConns, sockVars, dialVars, closer, timeouts, cn>>

-----------------------------------------------------------------------------
(* DB.initConn, the query and DB.releaseConn.                              *)

\* An error of hello or of the query, or a connection closed by somebody else.
UseFailed(w) ==
    /\ pc[w] = "use"
    /\ Goto(w, "remove")
    /\ UNCHANGED <<poolVars, sockVars, dialVars, closer, lateVars,
                   timeouts, cn>>

\* The query succeeded and the whole answer was read.  An answer that was
\* already on its way when the query began is read in the place of the
\* query's own, which then stays behind.
UseDone(w) ==
    /\ pc[w] = "use"
    /\ cn[w] \in open
    /\ Goto(w, "put")
    /\ UNCHANGED <<poolVars, sockVars, dialVars, closer, lateVars,
                   timeouts, cn>>

\* The caller stopped reading before the end of the answer: readInsertResult
\* takes only its first packet, and blockIter.Close after a ScanBlock error
\* does not drain it.  Put sees what is in the reader's buffer and removes the
\* connection; it does not see what is still on the wire.
UseLeftUnread(w) ==
    /\ pc[w] = "use"
    /\ cn[w] \in open
    /\ \/ /\ Goto(w, "remove")
          /\ UNCHANGED unread
       \/ /\ Goto(w, "put")
          /\ unread' = [unread EXCEPT ![cn[w]] = "underway"]
    /\ UNCHANGED <<poolVars, open, dialVars, closer, lateVars, timeouts, cn>>

\* What the server sent reaches the socket of an idle connection.
AnswerArrives(c) ==
    /\ unread[c] = "underway"
    /\ \E i \in 1..Len(idleConns) : idleConns[i] = c
    /\ unread' = [unread EXCEPT ![c] = "arrived"]
    /\ UNCHANGED <<poolVars, open, dialVars, closer, lateVars,
                   timeouts, pc, cn>>

\* MUTANT: a connection over MaxIdleConns is closed but made idle all the same.
PutOverLimit(w) ==
    /\ pc[w] = "put"
    /\ idleConns' = Append(idleConns, cn[w])
    /\ Goto(w, IF MaxIdleConns = 0 \/ Len(idleConns) < MaxIdleConns
               THEN "putFree" ELSE "removeFree")
    /\ UNCHANGED <<queue, conns, sockVars, dialVars, closer, lateVars,
                   timeouts, cn>>

\* Put, the section under connsMu.
Put(w) ==
    /\ pc[w] = "put"
    /\ IF MaxIdleConns = 0 \/ Len(idleConns) < MaxIdleConns
       THEN /\ idleConns' = Append(idleConns, cn[w])
            /\ Goto(w, "putFree")
            /\ UNCHANGED conns
       ELSE /\ conns' = conns \ {cn[w]}
            /\ Goto(w, "removeFree")
            /\ UNCHANGED idleConns
    /\ UNCHANGED <<queue, sockVars, dialVars, closer, lateVars, timeouts, cn>>

\* Put, after the unlock: when freeTurn fails the connection is closed
\* although it has been put on the stack.
PutFreeTurn(w) ==
    /\ pc[w] = "putFree"
    /\ freeTurn
    /\ IF queue < PoolSize
       THEN /\ Goto(w, "start")
            /\ cn' = [cn EXCEPT ![w] = NoConn]
       ELSE /\ Goto(w, "close")
            /\ UNCHANGED cn
    /\ UNCHANGED <<conns, idleConns, sockVars, dialVars, closer, lateVars,
                   timeouts>>

Remove(w) ==
    /\ pc[w] = "remove"
    /\ conns' = conns \ {cn[w]}
    /\ Goto(w, "removeFree")
    /\ UNCHANGED <<queue, idleConns, sockVars, dialVars, closer, lateVars,
                   timeouts, cn>>

RemoveFreeTurn(w) ==
    /\ pc[w] = "removeFree"
    /\ freeTurn
    /\ Goto(w, "close")
    /\ UNCHANGED <<conns, idleConns, sockVars, dialVars, closer, lateVars,
                   timeouts, cn>>

closeConn(w) ==
    /\ pc[w] = "close"
    /\ CloseSock(cn[w])
    /\ cn' = [cn EXCEPT ![w] = NoConn]
    /\ Goto(w, "start")
    /\ UNCHANGED <<poolVars, dialVars, closer, lateVars, timeouts>>

-----------------------------------------------------------------------------
(* tryDial: one iteration that ends it.  An iteration whose dial fails     *)
(* sets lastDialError again and changes nothing else.                      *)

TryDialClosed ==
    /\ tryDials > 0
    /\ closed
    /\ tryDials' = tryDials - 1
    /\ UNCHANGED <<poolVars, sockVars, dialErrorsNum, lastDialError, closer,
                   lateVars, timeouts, pc, cn>>

TryDialOK ==
    /\ tryDials > 0
    /\ dialErrorsNum' = 0
    /\ tryDials' = tryDials - 1
    /\ UNCHANGED <<poolVars, sockVars, lastDialError, closer, lateVars,
                   timeouts, pc, cn>>

-----------------------------------------------------------------------------
(* Close: the compare-and-swap, then the sweep under connsMu.              *)

CloseBegin ==
    /\ closer = "open"
    /\ closer' = "closing"
    /\ overlap' = {w \in Workers : pc[w] \in DialLabels}
    /\ UNCHANGED <<poolVars, sockVars, dialVars, late, timeouts, pc, cn>>

CloseSweep ==
    /\ closer = "closing"
    /\ closer' = "done"
    /\ open' = open \ conns
    /\ unread' = [c \in Conns |-> IF c \in conns THEN "no" ELSE unread[c]]
    /\ conns' = {}
    /\ idleConns' = << >>
    /\ UNCHANGED <<queue, dialVars, lateVars, timeouts, pc, cn>>

-----------------------------------------------------------------------------

\* The steps a worker takes without waiting for anybody.
WorkerStep(w) ==
    \/ WaitTurn(w) \/ popIdle(w) \/ Healthy(w) \/ Unhealthy(w)
    \/ DialClosedCheck(w) \/ DialErrorsCheck(w) \/ DialOK(w) \/ DialFail(w)
    \/ CountDialError(w) \/ GetFailed(w) \/ Register(w)
    \/ UseFailed(w) \/ UseDone(w) \/ UseLeftUnread(w)
    \/ Put(w) \/ PutFreeTurn(w) \/ Remove(w) \/ RemoveFreeTurn(w) \/ closeConn(w)

Next ==
    \/ \E w \in Workers :
        \/ Get(w) \/ WaitCancelled(w) \/ WaitTurnTaken(w) \/ WaitTimeout(w)
        \/ WorkerStep(w)
    \/ \E c \in Conns : AnswerArrives(c)
    \/ TryDialClosed \/ TryDialOK
    \/ CloseBegin \/ CloseSweep

Spec == Init /\ [][Next]_vars

\* Every goroutine that is not blocked is scheduled.  A blocked receiver of a
\* Go channel queues in FIFO order and a send hands its token to the first of
\* them, so a worker cannot miss tokens for ever.  A dial is retried every
\* second and the server is not down for ever.
Fairness ==
    /\ \A w \in Workers : WF_vars(WorkerStep(w)) /\ SF_vars(WaitTurnTaken(w))
    /\ WF_vars(TryDialOK)

FairSpec == Spec /\ Fairness

-----------------------------------------------------------------------------
(* Properties.                                                             *)

\* Every variable has its type; a worker refers to a connection exactly while
\* it checks, registers, uses, returns or closes one.
TypeOK ==
    /\ queue \in 0..PoolSize
    /\ conns \subseteq Conns
    /\ idleConns \in Seq(Conns)
    /\ open \subseteq Conns
    /\ unread \in [Conns -> {"no", "underway", "arrived"}]
    /\ dialErrorsNum \in Nat
    /\ lastDialError \in {"nil", "error"}
    /\ tryDials \in Nat
    /\ closer \in {"open", "closing", "done"}
    /\ overlap \subseteq Workers
    /\ late \subseteq Conns
    /\ timeouts \in 0..MaxTimeouts
    /\ pc \in [Workers -> Labels]
    /\ cn \in [Workers -> Conns \cup {NoConn}]
    /\ \A w \in Workers :
        cn[w] # NoConn <=> pc[w] \in OwningLabels \cup {"putFree", "close"}

\* Turns are neither lost nor made up.  Whatever path a Get takes out of the
\* pool (error, Put, Remove), tokens plus workers inside never fall below
\* PoolSize, or the pool would shrink for good; and they exceed it only by
\* the waits that timed out and went on without a token.
TurnAccounting ==
    /\ queue + Cardinality(Holders) >= PoolSize
    /\ queue + Cardinality(Holders) <= PoolSize + timeouts

\* The pool's books never hold more connections than PoolSize plus the waits
\* that timed out: a worker dials only when the idle stack was empty, however
\* Gets, Puts and dials interleave.
ConnsBounded == Cardinality(conns) <= PoolSize + timeouts

\* A connection belongs to one worker at most, and not to one while it is on
\* the idle stack: two queries never interleave their bytes on one socket.
ExclusiveUse ==
    /\ \A v, w \in Owners : v # w => cn[v] # cn[w]
    /\ \A w \in Owners, i \in 1..Len(idleConns) : cn[w] # idleConns[i]
    /\ \A i, j \in 1..Len(idleConns) : i # j => idleConns[i] # idleConns[j]

\* While nobody has timed out waiting and the pool is open, nobody closes a
\* connection under a worker that uses it, or one on the idle stack.  (After a
\* timeout Put may close the connection it has just made idle, and another
\* worker may have popped it by then.)
NoCloseInUse ==
    (timeouts = 0 /\ ~closed) =>
        /\ \A w \in Workers : pc[w] \in {"use", "put"} => cn[w] \in open
        /\ \A i \in 1..Len(idleConns) : idleConns[i] \in open

\* No dial begins after Close has.
LateDialsOverlap ==
    closed => \A w \in Workers : pc[w] \in DialLabels => w \in overlap

\* Close and Put, Remove and the failing paths of Get forget no socket: an open
\* one is in ConnPool.conns, where the sweep of Close is going to find it, or a
\* worker is about to put it there or to close it.  Once Close has swept, only
\* dials that had found the pool open before Close began leave a socket in
\* conns that nobody looks for any more (CloseReleasesAll), one each.
NoSocketLeak ==
    /\ \A c \in open :
        \/ c \in conns /\ closer # "done"
        \/ c \in late
        \/ \E w \in Workers :
            cn[w] = c /\ pc[w] \in {"register", "removeFree", "close"}
    /\ LateDialsOverlap

\* A pool that answers Get with the last dial error instead of dialling has
\* that error at hand, so Get never returns nil for both the connection and
\* the error, and unless it is closed exactly one tryDial is at work to end
\* that mode.
FailFastIsWatched ==
    /\ dialErrorsNum >= PoolSize => lastDialError # "nil"
    /\ (dialErrorsNum >= PoolSize /\ ~closed) => tryDials = 1
    /\ dialErrorsNum < PoolSize => tryDials = 0
    /\ tryDials <= 1

\* A worker that waits for a turn gets one even if the timer never fires and
\* its context is never cancelled: every worker in the pool gives its turn
\* back, whichever way its dial, query and release go.
WaiterServed == \A w \in Workers : pc[w] = "wait" ~> pc[w] # "wait"

\* The fail-fast mode ends once the server accepts connections again.
DialRecovers == dialErrorsNum >= PoolSize ~> (dialErrorsNum = 0 \/ closed)

\* config.go: "WithPoolSize configures maximum number of socket connections."
PoolSizeIsMaximum == Cardinality(conns) <= PoolSize

\* pool.go removes a connection that "has unread data" as a bad one, and
\* connCheck fails with "unexpected read from socket": a worker never starts
\* a query on a connection on which the answer of another query is coming in.
HandedOutClean == \A w \in Workers : pc[w] = "use" => unread[cn[w]] = "no"

\* db.go: "Close closes the database client, releasing any open resources."
\* Once Close has returned and no query is running no socket is open.
CloseReleasesAll ==
    (closer = "done" /\ \A w \in Workers : pc[w] = "start") => open = {}

=============================================================================
