------------------------------- MODULE Server -------------------------------
(***************************************************************************)
(* The life of a connection in the server: the HTTP handler that admits    *)
(* and registers it, the end of its read loop, the semaphore that bounds   *)
(* the connections, the byte totals that Stats() reports, and Shutdown().  *)
(* Every handler, reader, Stats() and Shutdown() is a goroutine; a         *)
(* connection is one request for an upgrade.                               *)
(***************************************************************************)
EXTENDS Integers, FiniteSets, Functions

CONSTANTS Conns,     \* upgrade requests
          Limits,    \* values of MaxConcurrentConnections, 0 for no limit
          MaxBytes   \* bound on the bytes of one connection

ASSUME ConnsFinite == IsFiniteSet(Conns)
ASSUME LimitsType == Limits \subseteq Nat /\ MaxBytes \in Nat

VARIABLES handler,   \* [Conns -> next step of the handler, then of the reader]
          cur,       \* [Conns -> value of the semaphore that TryAcquire loaded]
          sem,       \* g.Connections: [current, max]
          active,    \* g.active
          isClosed,  \* [Conns -> BOOLEAN]: the connection's close() was called
          bytes,     \* [Conns -> ingressBytes + egressBytes]
          total,     \* g.totalIngressBytes + g.totalEgressBytes
          stats,     \* Stats(): [pc, sum, must, visited, at]
          shut       \* Shutdown(): [pc, must, visited]

serverVars == <<handler, cur, sem, active, isClosed, bytes, total, stats, shut>>

NoStats == [pc |-> "idle", sum |-> 0, must |-> {}, visited |-> {}, at |-> {}]
NoShut == [pc |-> "idle", must |-> {}, visited |-> {}]

ServerInit ==
    /\ handler = [c \in Conns |-> "new"]
    /\ cur = [c \in Conns |-> 0]
    /\ sem \in {[current |-> 0, max |-> n] : n \in Limits}
    /\ active = {} /\ total = 0
    /\ isClosed = [c \in Conns |-> FALSE]
    /\ bytes = [c \in Conns |-> 0]
    /\ stats = NoStats
    /\ shut = NoShut

HandlerStep(c, from, to) == handler[c] = from /\ handler' = [handler EXCEPT ![c] = to]

-----------------------------------------------------------------------------
(* The handler.                                                            *)

\* Not an upgrade, or too many connections from this address.
Refuse(c) ==
    /\ HandlerStep(c, "new", "refused")
    /\ UNCHANGED <<cur, sem, active, isClosed, bytes, total, stats, shut>>

\* TryAcquire without a limit.
AcquireUnlimited(c) ==
    /\ sem.max = 0
    /\ HandlerStep(c, "new", "acquired")
    /\ UNCHANGED <<cur, sem, active, isClosed, bytes, total, stats, shut>>

Full(n) == n >= sem.max

\* TryAcquire: load the counter, then compare and swap, again if it has changed.
AcquireLoad(c) ==
    /\ sem.max > 0 /\ handler[c] \in {"new", "acquire"}
    /\ cur' = [cur EXCEPT ![c] = IF Full(sem.current) THEN 0 ELSE sem.current]
    /\ handler' = [handler EXCEPT ![c] = IF Full(sem.current) THEN "refused" ELSE "swap"]
    /\ UNCHANGED <<sem, active, isClosed, bytes, total, stats, shut>>

SwapsAlways(c) == TRUE
Swaps(c) == sem.current = cur[c]

AcquireSwap(c) ==
    /\ HandlerStep(c, "swap", IF Swaps(c) THEN "acquired" ELSE "acquire")
    /\ sem' = [sem EXCEPT !.current = IF Swaps(c) THEN cur[c] + 1 ELSE @]
    /\ cur' = [cur EXCEPT ![c] = 0]
    /\ UNCHANGED <<active, isClosed, bytes, total, stats, shut>>

Release(n) == IF sem.max = 0 THEN n ELSE n - 1

\* Wisp v2 is required and not offered, or the upgrade fails.
HandlerError(c) ==
    /\ HandlerStep(c, "acquired", "refused")
    /\ sem' = [sem EXCEPT !.current = Release(@)]
    /\ UNCHANGED <<cur, active, isClosed, bytes, total, stats, shut>>

\* The connection is registered; its read loop starts, for v2 after the INFO packet.
Register(c) ==
    /\ HandlerStep(c, "acquired", "reading")
    /\ active' = active \cup {c}
    /\ UNCHANGED <<cur, sem, isClosed, bytes, total, stats, shut>>

-----------------------------------------------------------------------------
(* The connection.                                                         *)

\* Bytes counted by the reader or, even while it ends, by a stream's goroutine.
Count(c) ==
    /\ handler[c] \in {"reading", "handling", "delete", "total", "release"}
    /\ bytes[c] < MaxBytes
    /\ bytes' = [bytes EXCEPT ![c] = @ + 1]
    /\ UNCHANGED <<handler, cur, sem, active, isClosed, total, stats, shut>>

\* A frame has been read, perhaps before the socket was closed: the reader is
\* away from the socket until the handler of its packet returns...
Handle(c) ==
    /\ HandlerStep(c, "reading", "handling")
    /\ UNCHANGED <<cur, sem, active, isClosed, bytes, total, stats, shut>>

\* ...which a terminal or a destination that takes no data may put off for ever.
HandleReturn(c) ==
    /\ HandlerStep(c, "handling", "reading")
    /\ UNCHANGED <<cur, sem, active, isClosed, bytes, total, stats, shut>>

\* The read loop ends: end of input, a protocol error, the handshake deadline...
ReadEnd(c) ==
    /\ HandlerStep(c, "reading", "delete")
    /\ isClosed' = [isClosed EXCEPT ![c] = TRUE]
    /\ UNCHANGED <<cur, sem, active, bytes, total, stats, shut>>

\* ...or, the socket being closed, an error.
ReadClosed(c) == isClosed[c] /\ ReadEnd(c)

(* deleteAllWispStreams, once the streams are closed.                      *)

DeleteMissed(c) ==
    /\ HandlerStep(c, "delete", "total")
    /\ UNCHANGED <<cur, sem, active, isClosed, bytes, total, stats, shut>>

DeleteActive(c) ==
    /\ HandlerStep(c, "delete", "total")
    /\ active' = active \ {c}
    /\ UNCHANGED <<cur, sem, isClosed, bytes, total, stats, shut>>

AddTotal(c) ==
    /\ HandlerStep(c, "total", "release")
    /\ total' = total + bytes[c]
    /\ UNCHANGED <<cur, sem, active, isClosed, bytes, stats, shut>>

ReleaseConn(c) ==
    /\ HandlerStep(c, "release", "ended")
    /\ sem' = [sem EXCEPT !.current = Release(@)]
    /\ UNCHANGED <<cur, active, isClosed, bytes, total, stats, shut>>

-----------------------------------------------------------------------------
(* Stats(): the totals are read, then the active connections one by one.   *)

StatsTotals ==
    /\ stats.pc = "idle"
    /\ stats' = [NoStats EXCEPT !.pc = "range", !.sum = total, !.must = active]
    /\ UNCHANGED <<handler, cur, sem, active, isClosed, bytes, total, shut>>

\* Range comes to a connection, and then its bytes are read.
StatsVisit(c) ==
    /\ stats.pc = "range" /\ stats.at = {} /\ c \in active \ stats.visited
    /\ stats' = [stats EXCEPT !.at = {c}, !.visited = @ \cup {c}]
    /\ UNCHANGED <<handler, cur, sem, active, isClosed, bytes, total, shut>>

StatsRead(c) ==
    /\ c \in stats.at
    /\ stats' = [stats EXCEPT !.at = {}, !.sum = @ + bytes[c]]
    /\ UNCHANGED <<handler, cur, sem, active, isClosed, bytes, total, shut>>

\* Range may miss a connection stored meanwhile, and no other.
StatsReturn ==
    /\ stats.pc = "range" /\ stats.at = {}
    /\ (stats.must \cap active) \subseteq stats.visited
    /\ stats' = NoStats
    /\ UNCHANGED <<handler, cur, sem, active, isClosed, bytes, total, shut>>

-----------------------------------------------------------------------------
(* Shutdown(): every active connection is closed.  main calls it at the    *)
(* signal and again when the listener has ended.                           *)

ShutdownBegin ==
    /\ shut.pc = "idle"
    /\ shut' = [pc |-> "range", must |-> active, visited |-> {}]
    /\ UNCHANGED <<handler, cur, sem, active, isClosed, bytes, total, stats>>

ShutdownClose(c) ==
    /\ shut.pc = "range" /\ c \in active \ shut.visited
    /\ shut' = [shut EXCEPT !.visited = @ \cup {c}]
    /\ isClosed' = [isClosed EXCEPT ![c] = TRUE]
    /\ UNCHANGED <<handler, cur, sem, active, bytes, total, stats>>

RangeCompleteSome == shut.visited # {}
RangeComplete == (shut.must \cap active) \subseteq shut.visited

ShutdownReturn ==
    /\ shut.pc = "range" /\ RangeComplete
    /\ shut' = NoShut
    /\ UNCHANGED <<handler, cur, sem, active, isClosed, bytes, total, stats>>

-----------------------------------------------------------------------------
Handler(c) == AcquireUnlimited(c) \/ AcquireLoad(c) \/ AcquireSwap(c) \/ HandlerError(c) \/ Register(c)
Reader(c) == Handle(c) \/ HandleReturn(c) \/ Count(c) \/ ReadEnd(c)
Ending(c) == DeleteActive(c) \/ AddTotal(c) \/ ReleaseConn(c)
ShutdownStep == ShutdownReturn \/ \E c \in Conns : ShutdownClose(c)

ServerNext ==
    \/ \E c \in Conns : Refuse(c) \/ Handler(c) \/ Reader(c) \/ Ending(c)
                        \/ StatsVisit(c) \/ StatsRead(c)
    \/ StatsTotals \/ StatsReturn \/ ShutdownBegin \/ ShutdownStep

ServerSpec == ServerInit /\ [][ServerNext]_serverVars

\* Handlers, ending readers and Shutdown run on, and a reader that comes back
\* to a closed socket gets an error as soon as its buffer is used up, which is
\* after finitely many frames.  Nothing makes the handler of a packet return,
\* and clients and Stats owe nothing.
FairSpec ==
    /\ ServerSpec /\ WF_serverVars(ShutdownStep)
    /\ \A c \in Conns : /\ WF_serverVars(Handler(c)) /\ WF_serverVars(Ending(c))
                       /\ SF_serverVars(ReadClosed(c))

-----------------------------------------------------------------------------
(* Properties.                                                             *)

\* Types of the handlers, the counters and the two ranges.
TypeOK ==
    /\ handler \in [Conns -> {"new", "acquire", "swap", "acquired", "refused", "reading",
                         "handling", "delete", "total", "release", "ended"}]
    /\ sem \in [current : Nat, max : Limits] /\ sem.current <= sem.max
    /\ cur \in [Conns -> 0..sem.max]
    /\ active \in SUBSET Conns /\ isClosed \in [Conns -> BOOLEAN]
    /\ bytes \in [Conns -> 0..MaxBytes] /\ total \in Nat
    /\ stats \in [pc : {"idle", "range"}, sum : Nat, must : SUBSET Conns,
                  visited : SUBSET Conns, at : SUBSET Conns]
    /\ shut \in [pc : {"idle", "range"}, must : SUBSET Conns, visited : SUBSET Conns]

Holding == {c \in Conns : handler[c] \in {"acquired", "reading", "handling", "delete", "total",
                                         "release"}}

\* The semaphore counts the connections that hold it, whichever path each one
\* took to give it up, and so there are never more than the limit, if there is one.
SemaphoreExact ==
    IF sem.max = 0 THEN sem.current = 0
    ELSE sem.current = Cardinality(Holding) /\ Cardinality(Holding) <= sem.max

\* Stats() never reports more bytes than were transferred: no connection is
\* counted both in the totals and among the active ones.
NoDoubleCount == stats.sum <= SumFunction(bytes)

\* A connection open when Shutdown() is called ends and frees its slot, unless
\* its reader is in the handler of a packet that never returns: closing the
\* socket is all Shutdown() does, and it reaches nothing else.
ShutdownEnds ==
    \A c \in Conns :
        (shut.pc = "range" /\ c \in shut.must) ~>
            (handler[c] = "ended" \/ [](handler[c] = "handling"))

=============================================================================
