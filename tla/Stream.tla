------------------------------- MODULE Stream -------------------------------
(***************************************************************************)
(* One Wisp stream (wispStream), from CONNECT to CLOSE, and the goroutines *)
(* that share it:                                                          *)
(*   reader   the connection's read loop in handleDataPacket, one DATA     *)
(*            packet at a time;                                            *)
(*   connect  handleConnect: admission, dial, flush of the data that came  *)
(*            early, then readFromConnection;                              *)
(*   ingress  runIngressWriter, which writes queued packets upstream;      *)
(*   close()  run by whichever goroutine wins its compare-and-swap.        *)
(* A step is one atomic access, one critical section or one socket call.   *)
(* DATA packets are numbered in the order the client sends them and have   *)
(* length 1; the client and the destination are external, and so are the   *)
(* other streams that share this one's slot of the cache.                  *)
(***************************************************************************)
EXTENDS Integers, Sequences, SequencesExt

CONSTANTS NumPackets,     \* how many DATA packets the client sends
          BufferLength,   \* config.BufferRemainingLength
          MaxEarly,       \* the 16 MiB bound on pendingData, in packets
          MaxIngress,     \* maxPendingQueueBytes(), in packets
          MaxReplies      \* how many times the destination sends data

ASSUME BoundsType == /\ {NumPackets, MaxEarly, MaxIngress, MaxReplies} \subseteq Nat
                     /\ BufferLength \in Nat \ {0}

VARIABLES
    s,            \* [kind, confirm, isOpen, connReadyDone, ingressActive, conn]: the stream's
                  \* type, c.streamConfirm, its atomic flags, and its socket, which is
                  \* "nil", "open", "broken" (I/O fails) or "closed"
    closing,      \* [by, pc, sent, from, had]: who runs close(), its next step, CLOSE packets it
                  \* queued; history: the last packet the reader took up before it, and s.conn then
    connect,      \* [pc, early, replies, drained, readied]: next step, drained pendingData, DATA
                  \* packets queued; history: the last packet before the drain and the signal
    pendingData,  \* s.pendingData
    reader,       \* [pc, handled, cached, refused]: next step, number of DATA packets it is done
                  \* with, whether streamCache has the stream, CLOSE packets it queued
    ingress,      \* [pending, writing, pc, batch, failed]: pendingIngress, ingressWriting, the
                  \* writer's next step and batch, and whether a failed one has yet to close()
    flow,         \* [remaining, sent, credit, continues]: s.bufferRemaining, packets the client
                  \* sent, the credit it has left, and CONTINUE packets on their way to it
    connClosed,   \* c.isClosed: the WebSocket connection is closed
    upstream,     \* history: packets written to the destination
    puts          \* history: how often each packet's buffer went back to its pool

vars == <<s, closing, connect, pendingData, reader, ingress, flow, connClosed, upstream, puts>>

Packets == 1..NumPackets
Packet  == reader.handled + 1      \* the packet the reader is handling

\* Moves of the goroutines' program counters.
ConnectTo(pc) == connect' = [connect EXCEPT !.pc = pc]
ReaderTo(pc)  == reader' = [reader EXCEPT !.pc = pc]

\* Buffers go back (putWSPayloadBuf, releaseIngressJob).
Put(S) == puts' = [n \in Packets |-> IF n \in S THEN puts[n] + 1 ELSE puts[n]]

Init ==
    /\ s \in [kind : {"tcp", "udp"}, confirm : BOOLEAN, isOpen : {TRUE},
              connReadyDone : {FALSE}, ingressActive : {FALSE}, conn : {"nil"}]
    /\ s.kind = "udp" => ~s.confirm     \* nothing asks for it then
    /\ closing = [by |-> "none", pc |-> "idle", sent |-> 0, from |-> NumPackets, had |-> "nil"]
    /\ connect = [pc |-> "admit", early |-> <<>>, replies |-> 0, drained |-> 0, readied |-> 0]
    /\ pendingData = <<>>
    /\ reader = [pc |-> "idle", handled |-> 0, cached |-> FALSE, refused |-> 0]
    /\ ingress = [pending |-> <<>>, writing |-> FALSE, pc |-> "none", batch |-> <<>>,
                  failed |-> FALSE]
    /\ flow = [remaining |-> 0, sent |-> 0, continues |-> 0,
               credit |-> IF s.confirm THEN 0 ELSE BufferLength]
    /\ connClosed = FALSE
    /\ upstream = <<>>
    /\ puts = [n \in Packets |-> 0]

-----------------------------------------------------------------------------
(* The client (external): on a TCP stream it spends the credit CONTINUE    *)
(* grants, which for a stream to be confirmed comes only with the dial.    *)

ClientSend ==
    /\ flow.sent < NumPackets
    /\ s.kind = "tcp" => flow.credit > 0
    /\ flow' = [flow EXCEPT !.sent = @ + 1, !.credit = IF s.kind = "tcp" THEN @ - 1 ELSE @]
    /\ UNCHANGED <<s, closing, connect, pendingData, reader, ingress, connClosed, upstream, puts>>

ClientContinue ==
    /\ flow.continues > 0
    /\ flow' = [flow EXCEPT !.continues = @ - 1, !.credit = BufferLength]
    /\ UNCHANGED <<s, closing, connect, pendingData, reader, ingress, connClosed, upstream, puts>>

\* sendPacket: a CONTINUE is queued unless the connection is closed.
Continue(f) == IF connClosed THEN f ELSE [f EXCEPT !.continues = @ + 1]

-----------------------------------------------------------------------------
(* close(reason).                                                          *)

\* The packet the reader took up last.
Taken == IF reader.pc \in {"idle", "ended"} THEN reader.handled ELSE Packet

\* The compare-and-swap on isOpen: p runs close() if it wins...
CloseAgain(p) ==
    /\ s' = [s EXCEPT !.isOpen = FALSE]
    /\ closing' = [closing EXCEPT !.by = p, !.pc = "signal", !.from = Taken, !.had = s.conn]
Close(p) ==
    IF s.isOpen
    THEN /\ s' = [s EXCEPT !.isOpen = FALSE]
         /\ closing' = [closing EXCEPT !.by = p, !.pc = "signal", !.from = Taken, !.had = s.conn]
    ELSE UNCHANGED <<s, closing>>

\* ...and does nothing else until it returns.
Busy(p) == closing.by = p /\ closing.pc # "done"

CloseTo(pc) == closing' = [closing EXCEPT !.pc = pc]

\* A CLOSE packet: the reader starts a goroutine that calls close().
CloseByClient ==
    /\ s.isOpen
    /\ Close("goroutine")
    /\ UNCHANGED <<connect, pendingData, reader, ingress, flow, connClosed, upstream, puts>>

CloseSignal ==
    /\ closing.pc = "signal"
    /\ CloseTo("delete")
    /\ s' = [s EXCEPT !.connReadyDone = TRUE]
    /\ UNCHANGED <<connect, pendingData, reader, ingress, flow, connClosed, upstream, puts>>

\* deleteWispStream: the stream leaves the table and the cache (in detail in StreamTable)...
CloseDelete ==
    /\ closing.pc = "delete"
    /\ CloseTo("conn")
    /\ reader' = [reader EXCEPT !.cached = FALSE]
    /\ UNCHANGED <<s, connect, pendingData, ingress, flow, connClosed, upstream, puts>>

\* ...until when the table has it.
Listed == closing.pc \in {"idle", "signal", "delete"}

\* s.conn is closed if it is there; a dial in progress has not stored it yet.
ClosedConnKept == s.conn
ClosedConn == IF s.conn = "nil" THEN "nil" ELSE "closed"

CloseConn ==
    /\ closing.pc = "conn"
    /\ CloseTo("ingress")
    /\ s' = [s EXCEPT !.conn = ClosedConn]
    /\ UNCHANGED <<connect, pendingData, reader, ingress, flow, connClosed, upstream, puts>>

\* Only an active ingress queue has to be drained.
AfterIngress == IF s.ingressActive THEN "drain" ELSE "send"

CloseIngress ==
    /\ closing.pc = "ingress"
    /\ CloseTo(AfterIngress)
    /\ s' = [s EXCEPT !.ingressActive = FALSE]
    /\ UNCHANGED <<connect, pendingData, reader, ingress, flow, connClosed, upstream, puts>>

CloseDrain ==
    /\ closing.pc = "drain"
    /\ CloseTo("send")
    /\ Put(ToSet(ingress.pending))
    /\ ingress' = [ingress EXCEPT !.pending = <<>>]
    /\ UNCHANGED <<s, connect, pendingData, reader, flow, connClosed, upstream>>

\* sendClosePacket says nothing on a closed connection.
CloseSend ==
    /\ closing.pc = "send"
    /\ closing' = [closing EXCEPT !.pc = "done", !.sent = IF connClosed THEN @ ELSE @ + 1]
    /\ UNCHANGED <<s, connect, pendingData, reader, ingress, flow, connClosed, upstream, puts>>

CloseStep == CloseSignal \/ CloseDelete \/ CloseConn \/ CloseIngress \/ CloseDrain \/ CloseSend

-----------------------------------------------------------------------------
(* handleConnect.                                                          *)

\* Turned away by a filter, the egress policy, DNS, a rate limit, reputation
\* or the SYN semaphore.
ConnectRefuse ==
    /\ connect.pc = "admit"
    /\ ConnectTo("return")
    /\ Close("connect")
    /\ UNCHANGED <<pendingData, reader, ingress, flow, connClosed, upstream, puts>>

ConnectAdmit ==
    /\ connect.pc = "admit"
    /\ ConnectTo("dial")
    /\ flow' = [flow EXCEPT !.remaining = BufferLength]
    /\ UNCHANGED <<s, closing, pendingData, reader, ingress, connClosed, upstream, puts>>

DialOk ==
    /\ connect.pc = "dial"
    /\ ConnectTo("dialed")
    /\ s' = [s EXCEPT !.conn = "open"]
    /\ UNCHANGED <<closing, pendingData, reader, ingress, flow, connClosed, upstream, puts>>

DialErrorUnclosed ==
    /\ connect.pc = "dial"
    /\ ConnectTo("return")
    /\ UNCHANGED <<s, closing, pendingData, reader, ingress, flow, connClosed, upstream, puts>>
DialError ==
    /\ connect.pc = "dial"
    /\ ConnectTo("return")
    /\ Close("connect")
    /\ UNCHANGED <<pendingData, reader, ingress, flow, connClosed, upstream, puts>>

\* The SYN-flood signature matched a dial, failed or not: the socket...
SignatureMatch ==
    /\ connect.pc \in {"dial", "dialed"} /\ s.kind = "tcp"
    /\ ConnectTo("sigClose")
    /\ s' = [s EXCEPT !.conn = ClosedConn]
    /\ UNCHANGED <<closing, pendingData, reader, ingress, flow, connClosed, upstream, puts>>

\* ...the stream...
SignatureClose ==
    /\ connect.pc = "sigClose"
    /\ ConnectTo("sigCloseAll")
    /\ Close("connect")
    /\ UNCHANGED <<pendingData, reader, ingress, flow, connClosed, upstream, puts>>

\* ...and the connection are closed.
SignatureCloseAll ==
    /\ connect.pc = "sigCloseAll" /\ ~Busy("connect")
    /\ ConnectTo("return")
    /\ connClosed' = TRUE
    /\ UNCHANGED <<s, closing, pendingData, reader, ingress, flow, upstream, puts>>

Confirm ==
    /\ connect.pc = "dialed"
    /\ ConnectTo("drain")
    /\ flow' = IF s.confirm /\ s.kind = "tcp" THEN Continue(flow) ELSE flow
    /\ UNCHANGED <<s, closing, pendingData, reader, ingress, connClosed, upstream, puts>>

DrainEarlyReady ==
    /\ connect.pc = "drain"
    /\ connect' = [connect EXCEPT !.pc = "flush", !.early = pendingData, !.drained = reader.handled]
    /\ pendingData' = <<>>
    /\ s' = [s EXCEPT !.connReadyDone = TRUE]
    /\ UNCHANGED <<closing, reader, ingress, flow, connClosed, upstream, puts>>
DrainEarly ==
    /\ connect.pc = "drain"
    /\ connect' = [connect EXCEPT !.pc = "flush", !.early = pendingData, !.drained = reader.handled]
    /\ pendingData' = <<>>
    /\ UNCHANGED <<s, closing, reader, ingress, flow, connClosed, upstream, puts>>

FlushCheck ==
    /\ connect.pc = "flush" /\ connect.early # <<>>
    /\ ConnectTo(IF s.isOpen THEN "write" ELSE "return")
    /\ UNCHANGED <<s, closing, pendingData, reader, ingress, flow, connClosed, upstream, puts>>

FlushWrite ==
    /\ connect.pc = "write" /\ s.conn = "open"
    /\ upstream' = Append(upstream, Head(connect.early))
    /\ connect' = [connect EXCEPT !.pc = "flush", !.early = Tail(@)]
    /\ UNCHANGED <<s, closing, pendingData, reader, ingress, flow, connClosed, puts>>

FlushError ==
    /\ connect.pc = "write" /\ s.conn # "open"
    /\ ConnectTo("return")
    /\ Close("connect")
    /\ UNCHANGED <<pendingData, reader, ingress, flow, connClosed, upstream, puts>>

ActivateIngress ==
    /\ connect.pc = "flush" /\ connect.early = <<>>
    /\ ConnectTo("signal")
    /\ s' = [s EXCEPT !.ingressActive = @ \/ s.kind = "tcp"]
    /\ UNCHANGED <<closing, pendingData, reader, ingress, flow, connClosed, upstream, puts>>

SignalConnReady ==
    /\ connect.pc = "signal"
    /\ connect' = [connect EXCEPT !.pc = "read", !.readied = reader.handled]
    /\ s' = [s EXCEPT !.connReadyDone = TRUE]
    /\ UNCHANGED <<closing, pendingData, reader, ingress, flow, connClosed, upstream, puts>>

\* readFromConnection: the destination sent data, which is queued as DATA...
ReadData ==
    /\ connect.pc = "read" /\ s.conn = "open" /\ connect.replies < MaxReplies
    /\ connect' = [connect EXCEPT !.replies = @ + 1]
    /\ UNCHANGED <<s, closing, pendingData, reader, ingress, flow, connClosed, upstream, puts>>

\* ...unless Bandwidth.Wait gave up because the connection was closed...
ReadStopped ==
    /\ connect.pc = "read" /\ s.conn = "open" /\ connClosed
    /\ ConnectTo("return")
    /\ UNCHANGED <<s, closing, pendingData, reader, ingress, flow, connClosed, upstream, puts>>

\* ...or the destination ends the stream, or the socket fails.
ReadEnd ==
    /\ connect.pc = "read"
    /\ ConnectTo("return")
    /\ Close("connect")
    /\ UNCHANGED <<pendingData, reader, ingress, flow, connClosed, upstream, puts>>

\* The deferred signalConnReady.
ConnectReturn ==
    /\ connect.pc = "return" /\ ~Busy("connect")
    /\ ConnectTo("exit")
    /\ s' = [s EXCEPT !.connReadyDone = TRUE]
    /\ UNCHANGED <<closing, pendingData, reader, ingress, flow, connClosed, upstream, puts>>

ConnectRun ==
    \/ ConnectRefuse \/ ConnectAdmit \/ DialOk \/ DialError \/ SignatureMatch \/ SignatureClose
    \/ SignatureCloseAll \/ Confirm \/ DrainEarly \/ FlushCheck \/ FlushError
    \/ ActivateIngress \/ SignalConnReady \/ ConnectReturn

ConnectStep == ConnectRun \/ FlushWrite

ReadStep == ReadData \/ ReadStopped \/ ReadEnd

-----------------------------------------------------------------------------
(* handleDataPacket, as the reader runs it for Packet.                     *)

Finish == reader' = [reader EXCEPT !.pc = "idle", !.handled = Packet]

\* The reader is done with the packet and puts its buffer back itself.
Drop == Finish /\ Put({Packet})

\* One packet of credit is used up; the last one is answered by CONTINUE.
UseCredit ==
    flow' = IF flow.remaining = 1 THEN Continue([flow EXCEPT !.remaining = BufferLength])
                                  ELSE [flow EXCEPT !.remaining = @ - 1]

NextPacket == reader.pc = "idle" /\ ~Busy("reader") /\ reader.handled < flow.sent

\* Neither the cache nor the table has the stream: every such packet is answered by a CLOSE of
\* its own (sendPacket: unless the connection is closed).
DataRefused ==
    /\ NextPacket /\ ~Listed /\ ~reader.cached
    /\ reader' = [reader EXCEPT !.handled = Packet, !.refused = IF connClosed THEN @ ELSE @ + 1]
    /\ Put({Packet})
    /\ UNCHANGED <<s, closing, connect, pendingData, ingress, flow, connClosed, upstream>>

\* It is found in the cache, or in the table...
DataFound ==
    /\ NextPacket /\ (Listed \/ reader.cached)
    /\ ReaderTo(IF reader.cached THEN "found" ELSE "fill")
    /\ UNCHANGED <<s, closing, connect, pendingData, ingress, flow, connClosed, upstream, puts>>

\* ...and then put into the cache, which close() may have cleared meanwhile.
DataFill ==
    /\ reader.pc = "fill"
    /\ reader' = [reader EXCEPT !.pc = "found", !.cached = TRUE]
    /\ UNCHANGED <<s, closing, connect, pendingData, ingress, flow, connClosed, upstream, puts>>

\* A stream that is found but closed swallows the packet.
DataClosed ==
    /\ reader.pc = "found" /\ ~s.isOpen
    /\ Drop
    /\ UNCHANGED <<s, closing, connect, pendingData, ingress, flow, connClosed, upstream>>

\* isOpen was true; Bandwidth.Wait may now hold the packet for any time.
DataOpen ==
    /\ reader.pc = "found" /\ s.isOpen
    /\ ReaderTo("admitted")
    /\ UNCHANGED <<s, closing, connect, pendingData, ingress, flow, connClosed, upstream, puts>>

\* A DATA packet for another stream takes the slot of the cache.
DataOfOther ==
    /\ reader.pc = "idle" /\ ~Busy("reader") /\ reader.cached
    /\ reader' = [reader EXCEPT !.cached = FALSE]
    /\ UNCHANGED <<s, closing, connect, pendingData, ingress, flow, connClosed, upstream, puts>>

\* Bandwidth.Wait gives up when the connection is closed.
DataStopped ==
    /\ reader.pc = "admitted" /\ connClosed
    /\ Drop
    /\ UNCHANGED <<s, closing, connect, pendingData, ingress, flow, connClosed, upstream>>

\* The dial is not done: the data is copied and kept.
DataEarly ==
    /\ reader.pc = "admitted" /\ ~s.connReadyDone /\ Len(pendingData) < MaxEarly
    /\ pendingData' = Append(pendingData, Packet)
    /\ Drop
    /\ UNCHANGED <<s, closing, connect, ingress, flow, connClosed, upstream>>

DataEarlyFull ==
    /\ reader.pc = "admitted" /\ ~s.connReadyDone /\ Len(pendingData) >= MaxEarly
    /\ Drop
    /\ Close("reader")
    /\ UNCHANGED <<connect, pendingData, ingress, flow, connClosed, upstream>>

\* Before admission streamType is still 0, but then ingressActive is false too.
DataReady ==
    /\ reader.pc = "admitted" /\ s.connReadyDone
    /\ ReaderTo(IF s.kind = "tcp" /\ s.ingressActive THEN "queue" ELSE "direct")
    /\ UNCHANGED <<s, closing, connect, pendingData, ingress, flow, connClosed, upstream, puts>>

\* queueIngressOwned and submitIngress look at ingressActive and isOpen.
QueueRefused ==
    /\ reader.pc = "queue" /\ ~(s.ingressActive /\ s.isOpen)
    /\ Drop
    /\ UNCHANGED <<s, closing, connect, pendingData, ingress, flow, connClosed, upstream>>

QueueChecked ==
    /\ reader.pc = "queue" /\ s.ingressActive /\ s.isOpen
    /\ ReaderTo("enqueue")
    /\ UNCHANGED <<s, closing, connect, pendingData, ingress, flow, connClosed, upstream, puts>>

QueueFull ==
    /\ reader.pc = "enqueue" /\ Len(ingress.pending) >= MaxIngress
    /\ Drop
    /\ Close("reader")
    /\ UNCHANGED <<connect, pendingData, ingress, flow, connClosed, upstream>>

\* go s.runIngressWriter(), unless one runs.
StartedIngress == IF ingress.writing THEN ingress.pc ELSE "take"

EnqueueAlsoPut ==
    /\ reader.pc = "enqueue" /\ Len(ingress.pending) < MaxIngress
    /\ ingress' = [ingress EXCEPT !.pending = Append(@, Packet), !.writing = TRUE,
                                  !.pc = StartedIngress]
    /\ UseCredit
    /\ Drop
    /\ UNCHANGED <<s, closing, connect, pendingData, connClosed, upstream>>
Enqueue ==
    /\ reader.pc = "enqueue" /\ Len(ingress.pending) < MaxIngress
    /\ ingress' = [ingress EXCEPT !.pending = Append(@, Packet), !.writing = TRUE,
                                  !.pc = StartedIngress]
    /\ UseCredit
    /\ Finish
    /\ UNCHANGED <<s, closing, connect, pendingData, connClosed, upstream, puts>>

\* writeAll(stream.conn, payload).
DirectWrite ==
    /\ reader.pc = "direct" /\ s.conn = "open"
    /\ upstream' = Append(upstream, Packet)
    /\ IF s.kind = "tcp" THEN UseCredit ELSE UNCHANGED flow
    /\ Drop
    /\ UNCHANGED <<s, closing, connect, pendingData, ingress, connClosed>>

DirectError ==
    /\ reader.pc = "direct" /\ s.conn \in {"broken", "closed"}
    /\ Drop
    /\ Close("reader")
    /\ UNCHANGED <<connect, pendingData, ingress, flow, connClosed, upstream>>

\* A nil conn is a run-time panic: the process ends, every goroutine with it.
DirectPanic ==
    /\ reader.pc = "direct" /\ s.conn = "nil"
    /\ ReaderTo("panic") /\ ConnectTo("exit") /\ CloseTo("gone")
    /\ ingress' = [ingress EXCEPT !.pc = "none", !.failed = FALSE]
    /\ UNCHANGED <<s, pendingData, flow, connClosed, upstream, puts>>

\* The read loop ends on a closed connection and closes its streams
\* (deleteAllWispStreams).
ReaderEnd ==
    /\ reader.pc = "idle" /\ ~Busy("reader") /\ connClosed
    /\ ReaderTo("ended")
    /\ Close("reader")
    /\ UNCHANGED <<connect, pendingData, ingress, flow, connClosed, upstream, puts>>

ReaderRun ==
    \/ DataRefused \/ DataFound \/ DataFill \/ DataClosed \/ DataOpen \/ DataStopped
    \/ DataEarly \/ DataEarlyFull \/ DataReady
    \/ QueueRefused \/ QueueChecked \/ QueueFull \/ Enqueue
    \/ DirectError \/ DirectPanic \/ ReaderEnd

ReaderStep == ReaderRun \/ DirectWrite \/ DataOfOther

-----------------------------------------------------------------------------
(* runIngressWriter.                                                       *)

\* The writer may leave, resetting ingressWriting in the same critical section.
QueueEmptyUnchecked == TRUE
QueueEmpty == ingress.pending = <<>>

IngressExit ==
    /\ ingress.pc = "take" /\ QueueEmpty
    /\ ingress' = [ingress EXCEPT !.pc = "none", !.writing = FALSE]
    /\ UNCHANGED <<s, closing, connect, pendingData, reader, flow, connClosed, upstream, puts>>

IngressTake ==
    /\ ingress.pc = "take" /\ ingress.pending # <<>>
    /\ ingress' = [ingress EXCEPT !.pc = "check", !.batch = ingress.pending, !.pending = <<>>]
    /\ UNCHANGED <<s, closing, connect, pendingData, reader, flow, connClosed, upstream, puts>>

\* The stream was closed meanwhile: the batch is released unwritten.
IngressAbandon ==
    /\ ingress.pc = "check" /\ ~s.isOpen
    /\ ingress' = [ingress EXCEPT !.pc = "clear", !.batch = <<>>]
    /\ Put(ToSet(ingress.batch))
    /\ UNCHANGED <<s, closing, connect, pendingData, reader, flow, connClosed, upstream>>

IngressGo ==
    /\ ingress.pc = "check" /\ s.isOpen
    /\ ingress' = [ingress EXCEPT !.pc = "write"]
    /\ UNCHANGED <<s, closing, connect, pendingData, reader, flow, connClosed, upstream, puts>>

\* The whole batch is written and its buffers are put back...
IngressWrite ==
    /\ ingress.pc = "write" /\ s.conn = "open"
    /\ upstream' = upstream \o ingress.batch
    /\ ingress' = [ingress EXCEPT !.pc = "take", !.batch = <<>>]
    /\ Put(ToSet(ingress.batch))
    /\ UNCHANGED <<s, closing, connect, pendingData, reader, flow, connClosed>>

\* ...or some prefix of it; the buffers are put back and the writer gives up.
IngressError ==
    /\ ingress.pc = "write" /\ s.conn # "open"
    /\ \E k \in 0..(Len(ingress.batch) - 1) : upstream' = upstream \o SubSeq(ingress.batch, 1, k)
    /\ ingress' = [ingress EXCEPT !.pc = "clear", !.batch = <<>>, !.failed = TRUE]
    /\ Put(ToSet(ingress.batch))
    /\ UNCHANGED <<s, closing, connect, pendingData, reader, flow, connClosed>>

IngressClear ==
    /\ ingress.pc = "clear"
    /\ ingress' = [ingress EXCEPT !.pc = "none", !.writing = FALSE]
    /\ UNCHANGED <<s, closing, connect, pendingData, reader, flow, connClosed, upstream, puts>>

\* The close() after a failed write, once ingressWriting is reset.
IngressClose ==
    /\ ingress.failed /\ ingress.pc # "clear"
    /\ ingress' = [ingress EXCEPT !.failed = FALSE]
    /\ Close("ingress")
    /\ UNCHANGED <<connect, pendingData, reader, flow, connClosed, upstream, puts>>

IngressRun ==
    \/ IngressExit \/ IngressTake \/ IngressAbandon \/ IngressGo \/ IngressError \/ IngressClear

IngressStep == IngressRun \/ IngressWrite

-----------------------------------------------------------------------------
(* Environment.                                                            *)

\* The destination resets the connection.
ConnBreak ==
    /\ s.conn = "open"
    /\ s' = [s EXCEPT !.conn = "broken"]
    /\ UNCHANGED <<closing, connect, pendingData, reader, ingress, flow, connClosed, upstream, puts>>

\* c.close() for any reason.
ConnectionClose ==
    /\ ~connClosed
    /\ connClosed' = TRUE
    /\ UNCHANGED <<s, closing, connect, pendingData, reader, ingress, flow, upstream, puts>>

Next ==
    \/ ClientSend \/ ClientContinue \/ CloseByClient \/ ConnBreak \/ ConnectionClose
    \/ ConnectStep \/ ReadStep \/ ReaderStep \/ IngressStep \/ IngressClose \/ CloseStep

Spec == Init /\ [][Next]_vars

\* Goroutines that can run do; a dial returns within its timeout, a read from a socket that is
\* no longer open fails and so does a write to it. Nothing obliges the client or the destination
\* to do anything: a write to an open socket (writeAll, WriteTo) has no deadline and may block.
Fairness ==
    /\ WF_vars(CloseStep) /\ WF_vars(ConnectRun) /\ WF_vars(ReadEnd /\ s.conn # "open")
    /\ WF_vars(ReaderRun) /\ WF_vars(IngressRun) /\ WF_vars(IngressClose)

FairSpec == Spec /\ Fairness

-----------------------------------------------------------------------------
(* Properties.                                                             *)

\* Packets on their way to the destination, the ones written first.
Pipeline == upstream \o connect.early \o ingress.batch \o ingress.pending

\* No packet overtakes another, although early data, direct writes and the ingress writer take
\* three different routes.
InOrder == \A i, j \in 1..Len(Pipeline) : i < j => Pipeline[i] < Pipeline[j]

\* The early data that waits for the drain, or misses it: it was held after the drain and before
\* the signal, and stays for ever.
Held == {n \in ToSet(pendingData) : n > connect.drained /\ (s.connReadyDone => n <= connect.readied)}

\* What the reader is done with is written, on its way, or held.
NothingDropped == 1..reader.handled = ToSet(Pipeline) \cup Held

\* While the stream is open packets reach the destination in the order the client sent them; and
\* while the socket works too, none is dropped, not even by a second ingress writer, and the
\* drain misses none that came before it or after the signal.
DeliveredInOrder ==
    s.isOpen => InOrder /\ (s.conn # "broken" /\ ~connClosed => NothingDropped)

\* handleDataPacket may use stream.conn without a nil check only because an
\* open stream is never signalled ready without a socket; a stream closed
\* while its dial is running is ready and has none.
ReadyHasConn == s.isOpen /\ s.connReadyDone => s.conn # "nil"

\* A packet's buffer goes back to its pool at most once, and never while the
\* ingress queue or batch still has to write from it.
BufferPutOnce ==
    \A n \in Packets :
        puts[n] <= (IF n \in ToSet(ingress.batch \o ingress.pending) THEN 0 ELSE 1)

\* No CLOSE is queued for an open stream; close(), however many goroutines call it, queues one,
\* which the client misses only if the connection is closed; and every other CLOSE answers one
\* DATA packet that the reader took up after the stream had been closed (handleDataPacket).
ClosesAccounted ==
    IF s.isOpen THEN closing.sent + reader.refused = 0
    ELSE /\ closing.sent <= 1
         /\ closing.pc = "done" => closing.sent = 1 \/ connClosed
         /\ reader.refused <= Taken - closing.from

\* The destination does not take what the ingress writer has for it.
Blocked == ingress.pc = "write" /\ s.conn = "open"

\* The ingress queue is written out (in order, see above), or the stream is closed, unless the
\* destination stops reading for good: the ingress writer never leaves while the reader believes
\* it is running.
QueuedIsWritten ==
    ingress.pending # <<>> ~> (ingress.batch \o ingress.pending = <<>> \/ ~s.isOpen \/ []Blocked)

\* A stream that was open with its socket in place never leaves the socket
\* open once close() has returned. (One closed during its dial may.)
SocketReleased == closing.pc = "done" /\ closing.had # "nil" => s.conn # "open"

=============================================================================
