----------------------------- MODULE StreamTable -----------------------------
(***************************************************************************)
(* The streams of one connection: the table c.streams, the direct-mapped   *)
(* c.streamCache in front of it, and c.streamCount.  The reader goroutine  *)
(* handles CONNECT, DATA and CLOSE packets one at a time; the close() of   *)
(* each stream runs in some other goroutine, step by step, and the client  *)
(* may use an id again once its stream is gone.  A stream object is the    *)
(* number of the CONNECT that created it; 0 stands for a nil pointer.      *)
(***************************************************************************)
EXTENDS Integers, FiniteSets

CONSTANTS Ids,            \* stream ids the client uses
          Slots, Slot,    \* Slot[i] = i & (streamCacheSize - 1)
          MaxCreated,     \* bound on the stream objects created
          MaxStreams,     \* MaxConcurrentStreamsPerConnection, 0 for no limit
          MaxViolations   \* WsCloseAfterViolations, 0 for never

ASSUME SlotType == Slot \in [Ids -> Slots]
ASSUME LimitsType == {MaxCreated, MaxStreams, MaxViolations} \subseteq Nat

VARIABLES streams,      \* c.streams: [Ids -> Objects \cup {0}]
          cache,        \* c.streamCache
          streamCount,  \* c.streamCount
          violations,   \* c.violations
          conn,         \* c.close(): "open", "closing" (isClosed is set), "closed" (so is the socket)
          created,      \* how many stream objects there are
          idOf,         \* idOf[o] = o.streamId
          isOpen,       \* o.isOpen
          closing,      \* [pc, seen]: next step of o.close(), the cache entry it read
          reader        \* [pc, id, obj]: next step, packet's stream id, stream found

vars == <<streams, cache, streamCount, violations, conn, created, idOf, isOpen, closing, reader>>

Objects == 1..MaxCreated
Idle == [pc |-> "idle", id |-> 0, obj |-> 0]

Init ==
    /\ streams = [i \in Ids |-> 0]
    /\ cache = [k \in Slots |-> 0]
    /\ streamCount = 0 /\ violations = 0 /\ conn = "open" /\ created = 0
    /\ idOf = [o \in Objects |-> 0]
    /\ isOpen = [o \in Objects |-> FALSE]
    /\ closing = [o \in Objects |-> [pc |-> "none", seen |-> 0]]
    /\ reader = Idle

\* The reader waits for a packet, and a packet can still arrive.  (A short frame
\* may also be in its buffer already: handled as if before the socket closed.)
Reading == reader.pc = "idle" /\ conn # "closed"

-----------------------------------------------------------------------------
(* handleConnectPacket.                                                    *)

AtLimit == MaxStreams > 0 /\ streamCount >= MaxStreams

\* What c.close() leaves when the reader calls it: the socket is closed unless
\* another goroutine is on its way to closing it.
ClosedByReader == IF conn = "open" THEN "closed" ELSE conn

\* violation(reason): the connection is closed after too many.  The counter is
\* bounded one above the limit: it is only ever compared with the limit.
Violation ==
    IF MaxViolations = 0 THEN UNCHANGED <<violations, conn>>
    ELSE /\ violations <= MaxViolations
         /\ violations' = violations + 1
         /\ conn' = IF violations' >= MaxViolations THEN ClosedByReader ELSE conn

\* Refused for the number of streams, or (AtLimit or not) for the source's rate.
ConnectThrottled ==
    /\ Reading
    /\ Violation
    /\ UNCHANGED <<streams, cache, streamCount, created, idOf, isOpen, closing, reader>>

\* LoadOrStore: an id that is taken is refused, and the new object dropped.
IdFreeUnchecked(i) == TRUE
IdFree(i) == streams[i] = 0

ConnectStore(i) ==
    /\ Reading /\ created < MaxCreated
    /\ ~AtLimit
    /\ IdFree(i)
    /\ LET o == created + 1 IN
          /\ created' = o
          /\ idOf' = [idOf EXCEPT ![o] = i]
          /\ isOpen' = [isOpen EXCEPT ![o] = TRUE]
          /\ streams' = [streams EXCEPT ![i] = o]
          /\ reader' = [pc |-> "count", id |-> i, obj |-> o]
    /\ UNCHANGED <<cache, streamCount, violations, conn, closing>>

CountAfterConnect(o) == streamCount + 1

\* streamCount.Add(1), then go stream.handleConnect: it may close from now on.
ConnectCount ==
    /\ reader.pc = "count"
    /\ streamCount' = CountAfterConnect(reader.obj)
    /\ closing' = [closing EXCEPT ![reader.obj].pc = "ready"]
    /\ reader' = Idle
    /\ UNCHANGED <<streams, cache, violations, conn, created, idOf, isOpen>>

-----------------------------------------------------------------------------
(* handleDataPacket: finding the stream.                                   *)

CacheHit(i) == cache[Slot[i]] # 0 /\ idOf[cache[Slot[i]]] = i

DataCached(i) ==
    /\ Reading
    /\ CacheHit(i)
    /\ reader' = [pc |-> "found", id |-> i, obj |-> cache[Slot[i]]]
    /\ UNCHANGED <<streams, cache, streamCount, violations, conn, created, idOf, isOpen, closing>>

\* Not cached: the table is read here, and the cache filled in the next step.
DataLoad(i) ==
    /\ Reading
    /\ ~CacheHit(i) /\ streams[i] # 0
    /\ reader' = [pc |-> "fill", id |-> i, obj |-> streams[i]]
    /\ UNCHANGED <<streams, cache, streamCount, violations, conn, created, idOf, isOpen, closing>>

DataFill ==
    /\ reader.pc = "fill"
    /\ cache' = [cache EXCEPT ![Slot[reader.id]] = reader.obj]
    /\ reader' = [reader EXCEPT !.pc = "found"]
    /\ UNCHANGED <<streams, streamCount, violations, conn, created, idOf, isOpen, closing>>

\* Delivered to the stream found if it is open, dropped if it is not.
DataHandle ==
    /\ reader.pc = "found"
    /\ reader' = Idle
    /\ UNCHANGED <<streams, cache, streamCount, violations, conn, created, idOf, isOpen, closing>>

-----------------------------------------------------------------------------
(* Closing: handleClosePacket, handleConnect and the rest call close();    *)
(* the one that wins runs deleteWispStream.                                *)

CloseBegin(o) ==
    /\ closing[o].pc = "ready" /\ isOpen[o]
    /\ isOpen' = [isOpen EXCEPT ![o] = FALSE]
    /\ closing' = [closing EXCEPT ![o].pc = "delete"]
    /\ UNCHANGED <<streams, cache, streamCount, violations, conn, created, idOf, reader>>

CloseDelete(o) ==
    /\ closing[o].pc = "delete"
    /\ streams' = [streams EXCEPT ![idOf[o]] = 0]
    /\ closing' = [closing EXCEPT ![o].pc = "look"]
    /\ UNCHANGED <<cache, streamCount, violations, conn, created, idOf, isOpen, reader>>

\* The cache entry, if it is for this id, is remembered for the swap.
CloseLookSkipped(o) ==
    /\ closing[o].pc = "look"
    /\ closing' = [closing EXCEPT ![o] = [pc |-> "swap", seen |-> 0]]
    /\ UNCHANGED <<streams, cache, streamCount, violations, conn, created, idOf, isOpen, reader>>
CloseLook(o) ==
    /\ closing[o].pc = "look"
    /\ closing' = [closing EXCEPT ![o] = [pc |-> "swap",
                      seen |-> IF CacheHit(idOf[o]) THEN cache[Slot[idOf[o]]] ELSE 0]]
    /\ UNCHANGED <<streams, cache, streamCount, violations, conn, created, idOf, isOpen, reader>>

CloseSwap(o) ==
    /\ closing[o].pc = "swap"
    /\ cache' = [cache EXCEPT ![Slot[idOf[o]]] = IF @ = closing[o].seen THEN 0 ELSE @]
    /\ closing' = [closing EXCEPT ![o].pc = "count"]
    /\ UNCHANGED <<streams, streamCount, violations, conn, created, idOf, isOpen, reader>>

CloseCountSkipped(o) == streamCount
CountAfterClose(o) == streamCount - 1

CloseCount(o) ==
    /\ closing[o].pc = "count"
    /\ streamCount' = CountAfterClose(o)
    /\ closing' = [closing EXCEPT ![o].pc = "done"]
    /\ UNCHANGED <<streams, cache, violations, conn, created, idOf, isOpen, reader>>

CloseStep(o) == CloseDelete(o) \/ CloseLook(o) \/ CloseSwap(o) \/ CloseCount(o)

-----------------------------------------------------------------------------
(* The end of the connection.                                              *)

\* close() of the connection in another goroutine: the flag, then the socket.
ConnCloseBegin ==
    /\ conn = "open"
    /\ conn' = "closing"
    /\ UNCHANGED <<streams, cache, streamCount, violations, created, idOf, isOpen, closing, reader>>

ConnCloseSocket ==
    /\ conn = "closing"
    /\ conn' = "closed"
    /\ UNCHANGED <<streams, cache, streamCount, violations, created, idOf, isOpen, closing, reader>>

\* The read loop ends, because the socket is closed or (ReaderEof) because the
\* client ends the stream of frames; deleteAllWispStreams closes the connection
\* and starts to range over the table...
ReaderRange ==
    /\ reader.pc = "idle"
    /\ conn' = ClosedByReader
    /\ reader' = [Idle EXCEPT !.pc = "range"]
    /\ UNCHANGED <<streams, cache, streamCount, violations, created, idOf, isOpen, closing>>

ReaderEof == conn # "closed" /\ ReaderRange
ReaderEnd == conn = "closed" /\ ReaderRange

\* The close() the range last called, of stream reader.obj, has returned.
RangeFree == reader.pc = "range" /\ \A o \in {reader.obj} \ {0} : closing[o].pc = "done"

\* ...closing each stream it finds open...
RangeClose(i) ==
    /\ RangeFree /\ streams[i] # 0
    /\ LET o == streams[i] IN
          /\ closing[o].pc = "ready" /\ isOpen[o]
          /\ isOpen' = [isOpen EXCEPT ![o] = FALSE]
          /\ closing' = [closing EXCEPT ![o].pc = "delete"]
          /\ reader' = [reader EXCEPT !.obj = o]
    /\ UNCHANGED <<streams, cache, streamCount, violations, conn, created, idOf>>

\* ...until the rest are closed, or being closed by another goroutine.
RangeDone ==
    /\ RangeFree
    /\ \A i \in Ids : streams[i] # 0 => ~isOpen[streams[i]]
    /\ reader' = [reader EXCEPT !.pc = "ended"]
    /\ UNCHANGED <<streams, cache, streamCount, violations, conn, created, idOf, isOpen, closing>>

Finished == reader.pc = "ended" /\ conn = "closed" /\ (\A o \in Objects : closing[o].pc \in {"none", "done"})
            /\ UNCHANGED vars

ReaderStep == ConnectCount \/ DataFill \/ DataHandle \/ ReaderEnd \/ RangeDone
              \/ \E i \in Ids : RangeClose(i)

Next ==
    \/ ConnectThrottled \/ ConnCloseBegin \/ ConnCloseSocket \/ ReaderEof \/ ReaderStep \/ Finished
    \/ \E i \in Ids : ConnectStore(i) \/ DataCached(i) \/ DataLoad(i)
    \/ \E o \in Objects : CloseBegin(o) \/ CloseStep(o)

Spec == Init /\ [][Next]_vars

\* Goroutines that can run do. Nobody has to open, use or close anything.
FairSpec == Spec /\ WF_vars(ReaderStep) /\ \A o \in Objects : WF_vars(CloseStep(o))

-----------------------------------------------------------------------------
(* Properties.                                                             *)

\* An open stream is the one its id leads to: the Delete of an older stream's
\* close(), which goes by id, never removes a newer stream with that id.
OpenIsMapped == \A o \in Objects : isOpen[o] => streams[idOf[o]] = o

Mapped == {o \in Objects : \E i \in Ids : streams[i] = o}
Counting == {o \in Objects : closing[o].pc \notin {"none", "done"}}

\* streamCount counts the streams that started and have not finished closing;
\* so it is never below the table's size (but for the one being created) and
\* the per-connection limit holds for the table.
CountIsExact ==
    /\ streamCount = Cardinality(Counting)
    /\ MaxStreams > 0 => Cardinality(Mapped) <= MaxStreams

\* Once the close() of a stream has returned the cache does not lead to it any more, so that DATA
\* for a stream with the same id finds the new one, unless a DATA packet was on its way through
\* the table meanwhile: the reader had found the stream there before the Delete, and stores it in
\* the cache only after close() has looked at the entry. Then it may stay for as long as the slot
\* sees no other id.
CacheForgets ==
    \A o \in Objects :
        [](closing[o].pc = "look" /\ ~(reader.pc = "fill" /\ reader.obj = o) =>
               [](closing[o].pc = "done" => cache[Slot[idOf[o]]] # o))

\* When the connection ends every stream is closed and uncounted.
AllClosedAtEnd == reader.pc = "range" ~> (streamCount = 0 /\ \A i \in Ids : streams[i] = 0)

=============================================================================
