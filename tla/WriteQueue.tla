----------------------------- MODULE WriteQueue -----------------------------
(***************************************************************************)
(* The outgoing side of one WebSocket connection (wispConnection): any     *)
(* goroutine submits frames with submitWrite, at most one runWriter        *)
(* goroutine drains pendingWrites to the socket in batches, and close()    *)
(* may run at any moment from any goroutine.                               *)
(*                                                                         *)
(* A step is what runs under pendingMutex, one atomic access of isClosed,  *)
(* or one call on the socket; everything else interleaves.  A request is a *)
(* writeReq; answering it stands for both of its releases, ReadBufPool.Put *)
(* of its buffer and the send on its done channel, which the code always   *)
(* performs together.  A writer goroutine is named by the request whose    *)
(* submitWrite started it.                                                 *)
(***************************************************************************)
EXTENDS Integers, Sequences, FiniteSets, SequencesExt, FiniteSetsExt

CONSTANTS Requests,     \* every writeReq submitted on the connection
          Size,         \* Size[r] = len(r.data)
          MaxPending    \* maxPendingQueueBytes()

ASSUME RequestsFinite == IsFiniteSet(Requests)
ASSUME SizeType == Size \in [Requests -> Nat \ {0}]
ASSUME MaxPendingType == MaxPending \in Nat \ {0}

VARIABLES closePhase,     \* how far the one effective close() has come
          sock,           \* "up", or "down" once closed or failed
          pendingWrites,  \* c.pendingWrites
          pendingBytes,   \* c.pendingBytes
          writeActive,    \* c.writeActive
          spc,            \* where submitWrite(r) is
          wpc,            \* where the writer started by r is
          batch,          \* that writer's current batch
          sent,           \* how many frames of it the socket has taken
          reply,          \* answers given to r, oldest first
          accepted,       \* history: requests in the order they were queued
          wire            \* history: frames in the order the socket took them

queueVars  == <<pendingWrites, pendingBytes, writeActive>>
writerVars == <<wpc, batch, sent>>
vars == <<closePhase, sock, queueVars, spc, writerVars, reply, accepted, wire>>

isClosed == closePhase # "open"

\* Bytes of a sequence of requests (the loop over batch in runWriter).
TotalSize(s) == SumFunction([i \in DOMAIN s |-> Size[s[i]]])

\* Every request of set S is answered e.
Answer(S, e) == [r \in Requests |-> IF r \in S THEN Append(reply[r], e) ELSE reply[r]]

Init ==
    /\ closePhase = "open"
    /\ sock = "up"
    /\ pendingWrites = <<>> /\ pendingBytes = 0 /\ writeActive = FALSE
    /\ spc = [r \in Requests |-> "idle"]
    /\ wpc = [r \in Requests |-> "none"]
    /\ batch = [r \in Requests |-> <<>>]
    /\ sent = [r \in Requests |-> 0]
    /\ reply = [r \in Requests |-> <<>>]
    /\ accepted = <<>> /\ wire = <<>>

-----------------------------------------------------------------------------
(* close(): the caller that wins the compare-and-swap closes the socket,   *)
(* then empties the queue under the lock.                                  *)

\* close() called for a reason outside this module: the reader ended, a
\* violation, Shutdown, or a CLOSE packet for stream 0.
CloseBegin ==
    /\ ~isClosed
    /\ closePhase' = "won"
    /\ UNCHANGED <<sock, queueVars, spc, writerVars, reply, accepted, wire>>

CloseSocket ==
    /\ closePhase = "won"
    /\ closePhase' = "sockClosed"
    /\ sock' = "down"
    /\ UNCHANGED <<queueVars, spc, writerVars, reply, accepted, wire>>

CloseDrain ==
    /\ closePhase = "sockClosed"
    /\ closePhase' = "closed"
    /\ reply' = Answer(ToSet(pendingWrites), "err")
    /\ pendingWrites' = <<>>
    /\ pendingBytes' = 0
    /\ UNCHANGED <<sock, writeActive, spc, writerVars, accepted, wire>>

\* close() as called by the module's own goroutines: a no-op for a loser.
TryCloseForgotten == UNCHANGED closePhase
TryClose == closePhase' = IF isClosed THEN closePhase ELSE "won"

-----------------------------------------------------------------------------
(* submitWrite(r).                                                         *)

SubmitClosed(r) ==
    /\ spc[r] = "idle"
    /\ isClosed
    /\ spc' = [spc EXCEPT ![r] = "returned"]
    /\ reply' = Answer({r}, "err")
    /\ UNCHANGED <<closePhase, sock, queueVars, writerVars, accepted, wire>>

\* isClosed was false when read; nothing keeps it so.
SubmitCheck(r) ==
    /\ spc[r] = "idle"
    /\ ~isClosed
    /\ spc' = [spc EXCEPT ![r] = "checked"]
    /\ UNCHANGED <<closePhase, sock, queueVars, writerVars, reply, accepted, wire>>

OverflowsLate(r) == pendingBytes > MaxPending
Overflows(r) == pendingBytes + Size[r] > MaxPending

SubmitOverflow(r) ==
    /\ spc[r] = "checked"
    /\ Overflows(r)
    /\ spc' = [spc EXCEPT ![r] = "overflow"]
    /\ reply' = Answer({r}, "err")
    /\ UNCHANGED <<closePhase, sock, queueVars, writerVars, accepted, wire>>

SubmitOverflowClose(r) ==
    /\ spc[r] = "overflow"
    /\ spc' = [spc EXCEPT ![r] = "returned"]
    /\ TryClose
    /\ UNCHANGED <<sock, queueVars, writerVars, reply, accepted, wire>>

\* go c.runWriter(), unless a writer already has the role.
StartWriterAlways(r) == wpc' = [wpc EXCEPT ![r] = "take"]
StartWriter(r) == wpc' = IF writeActive THEN wpc ELSE [wpc EXCEPT ![r] = "take"]

SubmitEnqueue(r) ==
    /\ spc[r] = "checked"
    /\ ~Overflows(r)
    /\ spc' = [spc EXCEPT ![r] = "returned"]
    /\ pendingWrites' = Append(pendingWrites, r)
    /\ pendingBytes' = pendingBytes + Size[r]
    /\ writeActive' = TRUE
    /\ StartWriter(r)
    /\ accepted' = Append(accepted, r)
    /\ UNCHANGED <<closePhase, sock, batch, sent, reply, wire>>

-----------------------------------------------------------------------------
(* runWriter, as run by writer w.                                          *)

WriterExit(w) ==
    /\ wpc[w] = "take"
    /\ pendingWrites = <<>>
    /\ writeActive' = FALSE
    /\ wpc' = [wpc EXCEPT ![w] = "exit"]
    /\ UNCHANGED <<closePhase, sock, pendingWrites, pendingBytes, spc, batch, sent,
                   reply, accepted, wire>>

\* The writer takes the whole queue as its batch and leaves an empty one.
TakeBatchAliased(w) ==
    /\ batch' = [batch EXCEPT ![w] = pendingWrites]
    /\ sent' = [sent EXCEPT ![w] = 0]
    /\ pendingWrites' = pendingWrites
TakeBatch(w) ==
    /\ batch' = [batch EXCEPT ![w] = pendingWrites]
    /\ sent' = [sent EXCEPT ![w] = 0]
    /\ pendingWrites' = <<>>

WriterTake(w) ==
    /\ wpc[w] = "take"
    /\ pendingWrites # <<>>
    /\ TakeBatch(w)
    /\ pendingBytes' = pendingBytes - TotalSize(pendingWrites)
    /\ wpc' = [wpc EXCEPT ![w] = "write"]
    /\ UNCHANGED <<closePhase, sock, writeActive, spc, reply, accepted, wire>>

\* The socket takes the next frame of the batch (writeAll, Buffers.WriteTo).
WriterWrite(w) ==
    /\ wpc[w] = "write"
    /\ sent[w] < Len(batch[w])
    /\ sock = "up"
    /\ wire' = Append(wire, batch[w][sent[w] + 1])
    /\ sent' = [sent EXCEPT ![w] = @ + 1]
    /\ UNCHANGED <<closePhase, sock, queueVars, spc, wpc, batch, reply, accepted>>

\* writeAll and WriteTo return nil only after the last frame of the batch.
WroteSome(w) == sent[w] > 0
WroteAll(w) == sent[w] = Len(batch[w])

\* The write failed part-way; the whole batch is answered with the error.
WriterError(w) ==
    /\ wpc[w] = "write"
    /\ ~WroteAll(w)
    /\ sock = "down"
    /\ reply' = Answer(ToSet(batch[w]), "err")
    /\ wpc' = [wpc EXCEPT ![w] = "clear"]
    /\ UNCHANGED <<closePhase, sock, queueVars, spc, batch, sent, accepted, wire>>

WriterDone(w) ==
    /\ wpc[w] = "write"
    /\ WroteAll(w)
    /\ reply' = Answer(ToSet(batch[w]), "ok")
    /\ wpc' = [wpc EXCEPT ![w] = "take"]
    /\ UNCHANGED <<closePhase, sock, queueVars, spc, batch, sent, accepted, wire>>

\* After an error the writer gives up its role without draining the queue...
WriterClear(w) ==
    /\ wpc[w] = "clear"
    /\ writeActive' = FALSE
    /\ wpc' = [wpc EXCEPT ![w] = "close"]
    /\ UNCHANGED <<closePhase, sock, pendingWrites, pendingBytes, spc, batch, sent,
                   reply, accepted, wire>>

\* ...and relies on close() to do that.
WriterClose(w) ==
    /\ wpc[w] = "close"
    /\ wpc' = [wpc EXCEPT ![w] = "exit"]
    /\ TryClose
    /\ UNCHANGED <<sock, queueVars, spc, batch, sent, reply, accepted, wire>>

\* The peer resets the connection, or the write deadline passes (it is set
\* once before the final frame and never moved back, so the failure lasts).
SockFail ==
    /\ sock = "up"
    /\ sock' = "down"
    /\ UNCHANGED <<closePhase, queueVars, spc, writerVars, reply, accepted, wire>>

-----------------------------------------------------------------------------
CloseStep == CloseSocket \/ CloseDrain

SubmitStep(r) == \/ SubmitClosed(r) \/ SubmitCheck(r) \/ SubmitOverflow(r)
                 \/ SubmitOverflowClose(r) \/ SubmitEnqueue(r)

\* What the writer does by itself; WriterWrite needs a socket with room.
WriterRun(w) == \/ WriterExit(w) \/ WriterTake(w) \/ WriterError(w)
                \/ WriterDone(w) \/ WriterClear(w) \/ WriterClose(w)

WriterStep(w) == WriterRun(w) \/ WriterWrite(w)

\* Every submission has returned and every goroutine has ended.
Quiescent ==
    /\ \A r \in Requests : spc[r] = "returned" /\ wpc[r] \in {"none", "exit"}
    /\ closePhase = "closed"

Done == Quiescent /\ UNCHANGED vars

Next == \/ CloseBegin \/ CloseStep \/ SockFail
        \/ \E r \in Requests : SubmitStep(r) \/ WriterStep(r)
        \/ Done

Spec == Init /\ [][Next]_vars

\* A goroutine that can run does.  A socket write has no deadline while the
\* connection is open: it may wait for ever for a client that does not read.
\* Nothing obliges anyone to submit, to close or to break the socket.
Fairness ==
    /\ WF_vars(CloseStep)
    /\ \A r \in Requests :
          /\ WF_vars(SubmitOverflow(r) \/ SubmitOverflowClose(r) \/ SubmitEnqueue(r))
          /\ WF_vars(WriterRun(r))

FairSpec == Spec /\ Fairness

-----------------------------------------------------------------------------
(* Properties.                                                             *)

SubmitPC == {"idle", "checked", "overflow", "returned"}
WriterPC == {"none", "take", "write", "clear", "close", "exit"}

\* Types of the connection's queue state and of its goroutines.
TypeOK ==
    /\ closePhase \in {"open", "won", "sockClosed", "closed"}
    /\ sock \in {"up", "down"}
    /\ pendingWrites \in Seq(Requests)
    /\ writeActive \in BOOLEAN
    /\ spc \in [Requests -> SubmitPC]
    /\ wpc \in [Requests -> WriterPC]
    /\ batch \in [Requests -> Seq(Requests)]
    /\ sent \in [Requests -> Nat]
    /\ \A w \in Requests : sent[w] <= Len(batch[w])
    /\ reply \in [Requests -> Seq({"ok", "err"})]
    /\ accepted \in Seq(Requests)
    /\ wire \in Seq(Requests)

\* pendingBytes is the size of the queue and within its limit, although three
\* places adjust it (submitWrite, runWriter, close) and close() resets it to 0
\* while a writer may hold a batch it has already subtracted.
ByteAccounting ==
    /\ pendingBytes = TotalSize(pendingWrites)
    /\ pendingBytes <= MaxPending

\* Writers that hold the role writeActive stands for.
ActiveWriters == {w \in Requests : wpc[w] \in {"take", "write", "clear"}}

\* At most one runWriter uses the socket, and writeActive says whether one
\* does, even while a failed writer is on its way to close() and a submitter
\* has started the next.
SingleWriter ==
    /\ writeActive <=> ActiveWriters # {}
    /\ \A v, w \in ActiveWriters : v = w

\* Frames reach the socket in the order submitWrite queued them, none skipped
\* and none repeated, whatever batches the writers cut the queue into.
WireFIFO == IsPrefix(wire, accepted)

\* No request is answered twice: its pooled buffer goes back to ReadBufPool
\* once, and its done channel (capacity 1) never blocks the writer.
AnsweredAtMostOnce == \A r \in Requests : Len(reply[r]) <= 1

\* writeAndWait returns nil only if the socket took the whole frame.
OkMeansSent == \A r \in Requests : Contains(reply[r], "ok") => Contains(wire, r)

\* Both: however a request leaves the queue (refused, drained by close(), written, failed with
\* its batch), it is answered at most once, and with success only if the socket took it.
AnsweredOnceTruthfully == AnsweredAtMostOnce /\ OkMeansSent

\* A queued frame is without a writer only when the connection is closed or
\* the writer that failed is about to close it.
QueueHasWriter ==
    pendingWrites # <<>> => \/ writeActive
                            \/ isClosed
                            \/ \E w \in Requests : wpc[w] = "close"

\* The client does not read: a writer waits in a socket write that nothing ends.
Blocked ==
    /\ sock = "up" /\ ~isClosed
    /\ \E w \in Requests : wpc[w] = "write" /\ ~WroteAll(w)

\* A request queued before close() has drained the queue is answered, through any race of
\* overflow, a failing writer and close(), unless the client stops reading for good on a
\* connection nobody closes.  One queued after the drain has no such promise: while a failed
\* writer still holds its role submitWrite starts no other, and the request stays queued.
QueuedBeforeDrainIsAnswered ==
    \A r \in Requests :
        (closePhase # "closed" /\ Contains(accepted, r)) ~> (reply[r] # <<>> \/ []Blocked)

\* The queue implements an ordered channel over the socket.
Channel == INSTANCE OrderedChannel WITH Frames <- Requests, up <- (sock = "up")

\* Every step of the queue is a step of that channel or leaves it unchanged.
ImplementsChannel == Channel!Spec
=============================================================================
