---------------------------- MODULE StreamProofs ----------------------------
(***************************************************************************)
(* The order of a stream's data, its buffers and its socket, for every     *)
(* number of packets and every bound on the queues.                        *)
(***************************************************************************)
EXTENDS Stream, SequenceTheorems, TLAPS

-----------------------------------------------------------------------------
(* The inductive invariants.                                               *)

ConnectPC == {"admit", "dial", "dialed", "sigClose", "sigCloseAll", "drain", "flush", "write",
              "signal", "read", "return", "exit"}
ReaderPC == {"idle", "fill", "found", "admitted", "queue", "enqueue", "direct", "ended", "panic"}
ClosePC == {"idle", "signal", "delete", "conn", "ingress", "drain", "send", "done", "gone"}

StreamType == [kind : {"tcp", "udp"}, confirm : BOOLEAN, isOpen : BOOLEAN, connReadyDone : BOOLEAN,
               ingressActive : BOOLEAN, conn : {"nil", "open", "broken", "closed"}]
CloserType == [by : {"none", "goroutine", "connect", "reader", "ingress"}, pc : ClosePC, sent : Nat,
               from : Nat, had : {"nil", "open", "broken", "closed"}]
ConnectType == [pc : ConnectPC, early : Seq(Nat), replies : Nat, drained : Nat,
                readied : Nat]
ReaderType == [pc : ReaderPC, handled : Nat, cached : BOOLEAN, refused : Nat]
IngressType == [pending : Seq(Nat), writing : BOOLEAN, pc : {"none", "take", "check", "write", "clear"},
                batch : Seq(Nat), failed : BOOLEAN]

\* Types of the stream and of its goroutines.
TypeOK ==
    /\ s \in StreamType /\ closing \in CloserType /\ connect \in ConnectType
    /\ reader \in ReaderType /\ ingress \in IngressType
    /\ pendingData \in Seq(Nat) /\ upstream \in Seq(Nat)
    /\ connClosed \in BOOLEAN /\ puts \in [Packets -> Nat]
    /\ connect.pc = "write" => connect.early # <<>>

\* Steps of handleConnect before the early data is drained.
BeforeDrain == {"admit", "dial", "dialed", "sigClose", "drain"}

\* How far handleConnect and the reader are while the stream is open. The
\* stream is signalled ready only when handleConnect is past the flush, and on
\* TCP the ingress queue is then active; close() has not begun.
OpenControl ==
    /\ closing.pc = "idle"
    /\ reader.pc \notin {"ended", "panic"}
    /\ IF s.connReadyDone THEN connect.pc \in {"read", "return", "exit"}
       ELSE connect.pc \in BeforeDrain \cup {"flush", "write", "signal"}
    /\ connect.pc \in {"admit", "dial"} => s.conn = "nil"
    /\ s.conn = "nil" => connect.pc \in {"admit", "dial", "sigClose"}
    /\ s.conn = "closed" => connect.pc = "sigClose"
    /\ s.kind = "tcp" /\ (connect.pc = "signal" \/ s.connReadyDone) => s.ingressActive
    /\ reader.pc \in {"queue", "enqueue", "direct"} => s.connReadyDone
    /\ reader.pc = "direct" => s.kind = "udp"

\* close() has sent nothing before its last step, and a panic ends every goroutine.
Control ==
    /\ s.isOpen => OpenControl
    /\ closing.sent <= 1 /\ (closing.pc \notin {"done", "gone"} => closing.sent = 0)
    /\ reader.pc = "panic" => closing.pc = "gone" /\ ingress.pc = "none"
    /\ reader.pc \in {"queue", "enqueue"} => s.kind = "tcp"

\* Packet numbers up to n, in increasing order.
Ascending(q, n) ==
    /\ \A i \in 1..Len(q) : q[i] \in 1..n
    /\ \A i, j \in 1..Len(q) : i < j => q[i] < q[j]

\* The ingress queue behind the batch of its one writer, open or not, and the
\* buffers: none of a packet still to come has been put back.
Buffers ==
    /\ ~ingress.writing => ingress.pc = "none"
    /\ ingress.pc \in {"none", "take", "clear"} /\ reader.pc # "panic" => ingress.batch = <<>>
    /\ Ascending(ingress.batch \o ingress.pending, reader.handled)
    /\ s.kind = "udp" => ingress.batch = <<>> /\ ingress.pending = <<>>
    /\ \A n \in Packets : n > reader.handled => puts[n] = 0
    /\ BufferPutOnce

\* Where the packets are while the stream is open: one route at a time is used.
Routes ==
    /\ connect.pc \in BeforeDrain => upstream = <<>> /\ connect.early = <<>>
    /\ connect.pc \in {"signal", "read", "return", "exit"} => connect.early = <<>>
    /\ ~s.connReadyDone => ingress.batch = <<>> /\ ingress.pending = <<>>

\* No packet is lost, by a socket that fails after the flush begins excepted.
Complete ==
    ~connClosed /\ (s.conn = "broken" => connect.pc \in BeforeDrain)
      => 1..reader.handled = ToSet(Pipeline) \cup ToSet(pendingData)

Order ==
    s.isOpen => /\ Routes
                /\ Ascending(Pipeline, reader.handled)
                /\ Ascending(pendingData, reader.handled)
                /\ Complete

-----------------------------------------------------------------------------
(* Type correctness.                                                       *)

\* A call of close(): the stream is not open afterwards, and only the caller
\* that found it open goes on.
LEMMA CloseFacts ==
    ASSUME TypeOK, NEW p \in {"goroutine", "connect", "reader", "ingress"}, Close(p)
    PROVE  /\ s' \in StreamType /\ closing' \in CloserType
           /\ s'.isOpen = FALSE /\ s'.kind = s.kind /\ s'.conn = s.conn
           /\ closing'.sent = closing.sent
           /\ closing'.pc = closing.pc \/ (s.isOpen /\ closing'.pc = "signal")
           /\ closing'.had = IF s.isOpen THEN s.conn ELSE closing.had
<1>0. s \in StreamType /\ closing \in CloserType /\ Taken \in Nat
  BY DEF TypeOK, ReaderType, Taken, Packet
<1>1. CASE s.isOpen
  <2>1. /\ s' = [s EXCEPT !.isOpen = FALSE]
        /\ closing' = [closing EXCEPT !.by = p, !.pc = "signal", !.from = Taken, !.had = s.conn]
    BY <1>1 DEF Close
  <2> QED
    BY <1>0, <1>1, <2>1 DEF StreamType, CloserType, ClosePC
<1>2. CASE ~s.isOpen
  <2>1. s' = s /\ closing' = closing
    BY <1>2 DEF Close
  <2> QED
    BY <1>0, <1>2, <2>1 DEF StreamType, CloserType, ClosePC
<1> QED
  BY <1>1, <1>2

\* The empty queue.
Nil == <<>>

\* It is a sequence of packets.
LEMMA NilType == Nil \in Seq(Nat)
BY DEF Nil

\* Buffers that go back are counted.
LEMMA PutType ==
    ASSUME TypeOK, NEW S, Put(S)
    PROVE  puts' \in [Packets -> Nat]
BY DEF TypeOK, Put

\* Types of the stream and the step of close().
LEMMA CloseTypes == ASSUME TypeOK, CloseStep PROVE TypeOK'
<1> USE DEF TypeOK
<1>1. CASE CloseSignal
  BY <1>1 DEF CloseSignal, CloseTo, StreamType, CloserType, ClosePC
<1>1a. CASE CloseDelete
  BY <1>1a DEF CloseDelete, CloseTo, CloserType, ClosePC, ReaderType
<1>2. CASE CloseConn
  <2>1. ClosedConn \in {"nil", "closed"}
    BY DEF ClosedConn
  <2> QED
    BY <1>2, <2>1 DEF CloseConn, CloseTo, StreamType, CloserType, ClosePC
<1>3. CASE CloseIngress
  <2>1. AfterIngress \in {"drain", "send"}
    BY DEF AfterIngress
  <2> QED
    BY <1>3, <2>1 DEF CloseIngress, CloseTo, StreamType, CloserType, ClosePC
<1>4. CASE CloseDrain
  <2>1. puts' \in [Packets -> Nat]
    BY <1>4, PutType DEF CloseDrain
  <2>2. ingress' \in IngressType
    <3>1. ingress' = [ingress EXCEPT !.pending = Nil]
      BY <1>4 DEF CloseDrain, Nil
    <3> QED
      BY <3>1, NilType DEF IngressType
  <2> QED
    BY <1>4, <2>1, <2>2 DEF CloseDrain, CloseTo, CloserType, ClosePC
<1>5. CASE CloseSend
  <2> DEFINE n == IF connClosed THEN closing.sent ELSE closing.sent + 1
  <2>1. n \in Nat
    BY DEF CloserType
  <2>2. closing' = [closing EXCEPT !.pc = "done", !.sent = n]
    BY <1>5 DEF CloseSend
  <2> HIDE DEF n
  <2>3. closing' \in CloserType
    BY <2>1, <2>2 DEF CloserType, ClosePC
  <2> QED
    BY <1>5, <2>3 DEF CloseSend
<1> QED
  BY <1>1, <1>1a, <1>2, <1>3, <1>4, <1>5 DEF CloseStep

\* The steps of handleConnect that call close().
ConnectCloses == ConnectRefuse \/ DialError \/ SignatureClose \/ FlushError \/ ReadEnd

\* Types and the steps of handleConnect.
LEMMA ConnectTypes == ASSUME TypeOK, ConnectStep \/ ReadStep PROVE TypeOK'
<1> USE DEF TypeOK, ConnectTo
<1>1. CASE ConnectCloses
  <2>1. Close("connect") /\ UNCHANGED <<pendingData, reader, ingress, connClosed, upstream, puts>>
    BY <1>1 DEF ConnectCloses, ConnectRefuse, DialError, SignatureClose, FlushError, ReadEnd
  <2>2. connect' \in ConnectType /\ connect'.pc # "write"
    BY <1>1 DEF ConnectCloses, ConnectRefuse, DialError, SignatureClose, FlushError, ReadEnd,
                ConnectType, ConnectPC
  <2> QED
    BY <2>1, <2>2, CloseFacts
<1>2. CASE ConnectAdmit \/ Confirm \/ ReadStopped \/ SignatureCloseAll
  BY <1>2 DEF ConnectAdmit, Confirm, ReadStopped, SignatureCloseAll, ConnectType, ConnectPC
<1>3. CASE DialOk \/ SignalConnReady \/ ConnectReturn
  <2>1. CASE DialOk
    BY <2>1 DEF DialOk, ConnectType, ConnectPC, StreamType
  <2>2. CASE SignalConnReady
    BY <2>2 DEF SignalConnReady, ConnectType, ConnectPC, StreamType, ReaderType
  <2>3. CASE ConnectReturn
    BY <2>3 DEF ConnectReturn, ConnectType, ConnectPC, StreamType
  <2> QED
    BY <1>3, <2>1, <2>2, <2>3
<1>4. CASE SignatureMatch
  <2>1. ClosedConn \in {"nil", "closed"}
    BY DEF ClosedConn
  <2> QED
    BY <1>4, <2>1 DEF SignatureMatch, ConnectType, ConnectPC, StreamType
<1>5. CASE DrainEarly
  <2>1. connect' = [connect EXCEPT !.pc = "flush", !.early = pendingData, !.drained = reader.handled]
    BY <1>5 DEF DrainEarly
  <2>2. connect' \in ConnectType
    BY <2>1 DEF ConnectType, ConnectPC, ReaderType
  <2> QED
    BY <1>5, <2>2, NilType DEF DrainEarly, Nil
<1>6. CASE FlushCheck
  BY <1>6 DEF FlushCheck, ConnectType, ConnectPC
<1>7. CASE FlushWrite
  <2> DEFINE t == Tail(connect.early)
  <2>1. connect' = [connect EXCEPT !.pc = "flush", !.early = t]
    BY <1>7 DEF FlushWrite
  <2>2. connect.early \in Seq(Nat) /\ connect.early # <<>>
    BY <1>7 DEF FlushWrite, ConnectType
  <2>3. t \in Seq(Nat) /\ Head(connect.early) \in Nat
    BY <2>2
  <2> HIDE DEF t
  <2>4. connect' \in ConnectType
    BY <2>1, <2>3 DEF ConnectType, ConnectPC
  <2> QED
    BY <1>7, <2>3, <2>4 DEF FlushWrite
<1>8. CASE ActivateIngress
  <2>1. (s.ingressActive \/ s.kind = "tcp") \in BOOLEAN
    OBVIOUS
  <2> QED
    BY <1>8, <2>1 DEF ActivateIngress, ConnectType, ConnectPC, StreamType
<1>9. CASE ReadData
  <2>1. connect' = [connect EXCEPT !.replies = connect.replies + 1]
    BY <1>9 DEF ReadData
  <2>2. connect' \in ConnectType
    <3> DEFINE n == connect.replies + 1
    <3>1. n \in Nat
      BY DEF ConnectType
    <3>2. connect' = [connect EXCEPT !.replies = n]
      BY <2>1
    <3> HIDE DEF n
    <3> QED
      BY <3>1, <3>2 DEF ConnectType
  <2>3. connect'.pc = connect.pc /\ connect'.early = connect.early
    BY <2>1 DEF ConnectType
  <2> QED
    BY <1>9, <2>2, <2>3 DEF ReadData
<1> QED
  BY <1>1, <1>2, <1>3, <1>4, <1>5, <1>6, <1>7, <1>8, <1>9
     DEF ConnectStep, ConnectRun, ReadStep, ConnectCloses

\* The reader goes on to the next packet.
LEMMA FinishType ==
    ASSUME TypeOK, Finish
    PROVE  /\ reader' \in ReaderType /\ Packet \in Nat
           /\ Packet = reader.handled + 1 /\ reader'.handled = Packet /\ reader'.pc = "idle"
<1>1. reader \in ReaderType
  BY DEF TypeOK
<1>2. Packet \in Nat /\ Packet = reader.handled + 1
  BY <1>1 DEF Packet, ReaderType
<1>3. reader' = [reader EXCEPT !.pc = "idle", !.handled = Packet]
  BY DEF Finish
<1> QED
  BY <1>1, <1>2, <1>3 DEF ReaderType, ReaderPC

\* Types and the steps of the reader.
LEMMA ReaderTypes == ASSUME TypeOK, ReaderStep PROVE TypeOK'
<1> USE DEF TypeOK
<1>1. CASE DataClosed \/ DataStopped \/ QueueRefused
  <2>1. Drop /\ UNCHANGED <<s, closing, connect, pendingData, ingress, connClosed, upstream>>
    BY <1>1 DEF DataClosed, DataStopped, QueueRefused
  <2> QED
    BY <2>1, FinishType, PutType DEF Drop
<1>2. CASE DataFound \/ DataFill \/ DataOpen \/ DataOfOther \/ DataReady \/ QueueChecked
  BY <1>2 DEF DataFound, DataFill, DataOpen, DataOfOther, DataReady, QueueChecked, ReaderTo,
              ReaderType, ReaderPC
<1>2a. CASE DataRefused
  <2> DEFINE n == IF connClosed THEN reader.refused ELSE reader.refused + 1
  <2>1. n \in Nat /\ Packet \in Nat
    BY DEF ReaderType, Packet
  <2>2. /\ reader' = [reader EXCEPT !.handled = Packet, !.refused = n] /\ Put({Packet})
        /\ UNCHANGED <<s, closing, connect, pendingData, ingress, connClosed, upstream>>
    BY <1>2a DEF DataRefused
  <2> HIDE DEF n
  <2>3. reader' \in ReaderType
    BY <2>1, <2>2 DEF ReaderType, ReaderPC
  <2> QED
    BY <2>2, <2>3, PutType
<1>3. CASE DataEarly
  <2>1. Finish /\ Put({Packet}) /\ pendingData' = Append(pendingData, Packet)
        /\ UNCHANGED <<s, closing, connect, ingress, connClosed, upstream>>
    BY <1>3 DEF DataEarly, Drop
  <2>2. pendingData' \in Seq(Nat)
    BY <2>1, FinishType
  <2> QED
    BY <2>1, <2>2, FinishType, PutType
<1>4. CASE DataEarlyFull \/ QueueFull \/ DirectError
  <2>1. /\ Drop /\ Close("reader")
        /\ UNCHANGED <<connect, pendingData, ingress, connClosed, upstream>>
    BY <1>4 DEF DataEarlyFull, QueueFull, DirectError
  <2> QED
    BY <2>1, FinishType, PutType, CloseFacts DEF Drop
<1>5. CASE Enqueue
  <2>1. /\ Finish /\ UNCHANGED <<s, closing, connect, pendingData, connClosed, upstream, puts>>
        /\ ingress' = [ingress EXCEPT !.pending = Append(ingress.pending, Packet), !.writing = TRUE,
                                      !.pc = StartedIngress]
    BY <1>5 DEF Enqueue
  <2>2. StartedIngress \in {"none", "take", "check", "write", "clear"}
    BY DEF StartedIngress, IngressType
  <2>3. ingress' \in IngressType
    <3> DEFINE q == Append(ingress.pending, Packet)
    <3>1. ingress.pending \in Seq(Nat)
      BY DEF IngressType
    <3>2. q \in Seq(Nat)
      BY <2>1, <3>1, FinishType
    <3> HIDE DEF q
    <3>3. ingress' = [ingress EXCEPT !.pending = q, !.writing = TRUE, !.pc = StartedIngress]
      BY <2>1 DEF q
    <3> QED
      BY <2>2, <3>2, <3>3 DEF IngressType
  <2> QED
    BY <2>1, <2>3, FinishType
<1>6. CASE DirectWrite
  <2>1. Finish /\ Put({Packet}) /\ upstream' = Append(upstream, Packet)
        /\ UNCHANGED <<s, closing, connect, pendingData, ingress, connClosed>>
    BY <1>6 DEF DirectWrite, Drop
  <2>2. upstream' \in Seq(Nat)
    BY <2>1, FinishType
  <2> QED
    BY <2>1, <2>2, FinishType, PutType
<1>7. CASE DirectPanic
  <2>1. /\ reader' = [reader EXCEPT !.pc = "panic"] /\ connect' = [connect EXCEPT !.pc = "exit"]
        /\ closing' = [closing EXCEPT !.pc = "gone"]
        /\ ingress' = [ingress EXCEPT !.pc = "none", !.failed = FALSE]
        /\ UNCHANGED <<s, pendingData, connClosed, upstream, puts>>
    BY <1>7 DEF DirectPanic, ReaderTo, ConnectTo, CloseTo
  <2>2. reader' \in ReaderType /\ connect' \in ConnectType /\ closing' \in CloserType
    BY <2>1 DEF ReaderType, ReaderPC, ConnectType, ConnectPC, CloserType, ClosePC
  <2>3. ingress' \in IngressType
    BY <2>1 DEF IngressType
  <2> QED
    BY <2>1, <2>2, <2>3
<1>8. CASE ReaderEnd
  <2>1. /\ reader' = [reader EXCEPT !.pc = "ended"] /\ Close("reader")
        /\ UNCHANGED <<connect, pendingData, ingress, connClosed, upstream, puts>>
    BY <1>8 DEF ReaderEnd, ReaderTo
  <2>2. reader' \in ReaderType
    BY <2>1 DEF ReaderType, ReaderPC
  <2> QED
    BY <2>1, <2>2, CloseFacts
<1> QED
  BY <1>1, <1>2, <1>2a, <1>3, <1>4, <1>5, <1>6, <1>7, <1>8 DEF ReaderStep, ReaderRun

\* Types and the steps of the ingress writer.
LEMMA IngressTypes == ASSUME TypeOK, IngressStep \/ IngressClose PROVE TypeOK'
<1> USE DEF TypeOK
<1>1. CASE IngressExit \/ IngressGo \/ IngressClear
  BY <1>1 DEF IngressExit, IngressGo, IngressClear, IngressType
<1>6. CASE IngressTake
  <2>1. ingress' = [ingress EXCEPT !.pc = "check", !.batch = ingress.pending, !.pending = Nil]
    BY <1>6 DEF IngressTake, Nil
  <2>2. ingress' \in IngressType
    BY <2>1, NilType DEF IngressType
  <2> QED
    BY <1>6, <2>2 DEF IngressTake
<1>2. CASE IngressAbandon
  <2>1. ingress' \in IngressType
    <3>1. ingress' = [ingress EXCEPT !.pc = "clear", !.batch = Nil]
      BY <1>2 DEF IngressAbandon, Nil
    <3> QED
      BY <3>1, NilType DEF IngressType
  <2> QED
    BY <1>2, <2>1, PutType DEF IngressAbandon
<1>3. CASE IngressWrite
  <2>1. ingress' \in IngressType /\ upstream' \in Seq(Nat)
    <3>1. ingress' = [ingress EXCEPT !.pc = "take", !.batch = Nil]
      BY <1>3 DEF IngressWrite, Nil
    <3>2. ingress' \in IngressType /\ ingress.batch \in Seq(Nat)
      BY <3>1, NilType DEF IngressType
    <3> QED
      BY <1>3, <3>2 DEF IngressWrite
  <2> QED
    BY <1>3, <2>1, PutType DEF IngressWrite
<1>4. CASE IngressError
  <2>1. ingress' \in IngressType
    <3>1. ingress' = [ingress EXCEPT !.pc = "clear", !.batch = Nil, !.failed = TRUE]
      BY <1>4 DEF IngressError, Nil
    <3> QED
      BY <3>1, NilType DEF IngressType
  <2>2. PICK k \in 0..(Len(ingress.batch) - 1) : upstream' = upstream \o SubSeq(ingress.batch, 1, k)
    BY <1>4 DEF IngressError
  <2>3. ingress.batch \in Seq(Nat)
    BY DEF IngressType
  <2>4. SubSeq(ingress.batch, 1, k) \in Seq(Nat)
    BY <2>2, <2>3
  <2> QED
    BY <1>4, <2>1, <2>2, <2>4, PutType DEF IngressError
<1>5. CASE IngressClose
  <2>1. ingress' \in IngressType
    BY <1>5 DEF IngressClose, IngressType
  <2> QED
    BY <1>5, <2>1, CloseFacts DEF IngressClose
<1> QED
  BY <1>1, <1>2, <1>3, <1>4, <1>5, <1>6 DEF IngressStep, IngressRun

\* Every step keeps the types.
LEMMA TypeStep == TypeOK /\ [Next]_vars => TypeOK'
<1> SUFFICES ASSUME TypeOK, [Next]_vars PROVE TypeOK'
  OBVIOUS
<1>1. CASE ClientSend \/ ClientContinue \/ ConnectionClose \/ UNCHANGED vars
  BY <1>1 DEF ClientSend, ClientContinue, ConnectionClose, vars, TypeOK
<1>2. CASE CloseByClient
  BY <1>2, CloseFacts DEF CloseByClient, TypeOK
<1>3. CASE ConnBreak
  BY <1>3 DEF ConnBreak, TypeOK, StreamType
<1> QED
  BY <1>1, <1>2, <1>3, CloseTypes, ConnectTypes, ReaderTypes, IngressTypes DEF Next

\* A stream starts well typed.
LEMMA TypeInit == Init => TypeOK
<1> SUFFICES ASSUME Init PROVE TypeOK
  OBVIOUS
<1>1. s \in StreamType /\ closing \in CloserType /\ reader \in ReaderType
  BY BoundsType DEF Init, StreamType, CloserType, ReaderType, ClosePC, ReaderPC
<1>2. connect \in ConnectType /\ ingress \in IngressType
  BY DEF Init, ConnectType, IngressType, ConnectPC
<1>3. pendingData \in Seq(Nat) /\ upstream \in Seq(Nat)
  BY NilType DEF Init, Nil
<1>4. puts \in [Packets -> Nat] /\ connClosed \in BOOLEAN /\ connect.pc = "admit"
  BY DEF Init
<1> QED
  BY <1>1, <1>2, <1>3, <1>4 DEF TypeOK

-----------------------------------------------------------------------------
(* Control.                                                                *)

\* A goroutine has called close(): the stream is not open any more.
LEMMA ControlClosed ==
    ASSUME TypeOK, Control, NEW p \in {"goroutine", "connect", "reader", "ingress"}, Close(p),
           reader'.pc \in {reader.pc, "idle", "ended"}, ingress'.pc = ingress.pc
    PROVE  Control'
<1>1. /\ s'.isOpen = FALSE /\ s'.kind = s.kind /\ closing'.sent = closing.sent
      /\ closing'.pc = closing.pc \/ (s.isOpen /\ closing'.pc = "signal")
  BY CloseFacts
<1>2. CASE closing'.pc = closing.pc
  BY <1>1, <1>2 DEF Control
<1>3. CASE s.isOpen /\ closing'.pc = "signal"
  <2>1. closing.pc = "idle" /\ reader.pc # "panic" /\ closing.sent = 0
    BY <1>3 DEF Control, OpenControl
  <2> QED
    BY <1>1, <1>3, <2>1 DEF Control
<1> QED
  BY <1>1, <1>2, <1>3

\* The steps of close().
LEMMA ControlClose == ASSUME TypeOK, Control, CloseStep PROVE Control'
<1>0. /\ s \in StreamType /\ closing \in CloserType /\ ingress \in IngressType
      /\ reader \in ReaderType
  BY DEF TypeOK
<1>1. closing.pc \notin {"idle", "done", "gone"} /\ closing.sent = 0
  BY DEF CloseStep, CloseSignal, CloseDelete, CloseConn, CloseIngress, CloseDrain, CloseSend, Control
<1>2. ~s.isOpen /\ reader.pc # "panic"
  BY <1>1 DEF Control, OpenControl
<1>3. s'.isOpen = s.isOpen /\ s'.kind = s.kind /\ reader'.pc = reader.pc
  BY <1>0 DEF CloseStep, CloseSignal, CloseDelete, CloseConn, CloseIngress, CloseDrain, CloseSend,
              StreamType, ReaderType
<1>4. closing'.sent <= 1 /\ (closing'.pc \notin {"done", "gone"} => closing'.sent = 0)
  <2>1. CASE CloseSend
    BY <1>0, <1>1, <2>1 DEF CloseSend, CloserType
  <2>2. CASE CloseSignal \/ CloseDelete \/ CloseConn \/ CloseIngress \/ CloseDrain
    <3>1. closing'.sent = closing.sent
      BY <1>0, <2>2 DEF CloseSignal, CloseDelete, CloseConn, CloseIngress, CloseDrain, CloseTo, CloserType
    <3> QED
      BY <1>1, <3>1
  <2> QED
    BY <2>1, <2>2 DEF CloseStep
<1> QED
  BY <1>2, <1>3, <1>4 DEF Control

\* A step of handleConnect, or of the environment, that does not call close().
LEMMA ControlKept ==
    ASSUME Control, UNCHANGED <<closing, reader, ingress>>, s'.kind = s.kind, s'.isOpen = s.isOpen,
           s.isOpen => OpenControl'
    PROVE  Control'
BY DEF Control

\* The steps of handleConnect.
LEMMA ControlConnect == ASSUME TypeOK, Control, ConnectStep \/ ReadStep PROVE Control'
<1>0. s \in StreamType /\ connect \in ConnectType
  BY DEF TypeOK
<1>a. s.isOpen => OpenControl
  BY DEF Control
<1> USE DEF ConnectTo
<1>1. CASE ConnectCloses
  <2>1. Close("connect") /\ UNCHANGED <<reader, ingress>>
    BY <1>1 DEF ConnectCloses, ConnectRefuse, DialError, SignatureClose, FlushError, ReadEnd
  <2> QED
    BY <2>1, ControlClosed
<1>2. CASE ConnectAdmit \/ Confirm \/ ReadStopped \/ ReadData \/ DrainEarly \/ FlushCheck
           \/ FlushWrite \/ SignatureCloseAll
  <2>1. UNCHANGED <<s, closing, reader, ingress>>
    BY <1>2 DEF ConnectAdmit, Confirm, ReadStopped, ReadData, DrainEarly, FlushCheck, FlushWrite,
                SignatureCloseAll
  <2>2. /\ ConnectAdmit => connect.pc = "admit" /\ connect'.pc = "dial"
        /\ Confirm => connect.pc = "dialed" /\ connect'.pc = "drain"
        /\ ReadStopped => connect.pc = "read" /\ connect'.pc = "return"
        /\ ReadData => connect'.pc = connect.pc
        /\ DrainEarly => connect.pc = "drain" /\ connect'.pc = "flush"
        /\ FlushCheck /\ s.isOpen => connect.pc = "flush" /\ connect'.pc = "write"
        /\ FlushWrite => connect.pc = "write" /\ connect'.pc = "flush"
        /\ SignatureCloseAll => connect.pc = "sigCloseAll"
    BY <1>0 DEF ConnectAdmit, Confirm, ReadStopped, ReadData, DrainEarly, FlushCheck, FlushWrite,
                SignatureCloseAll, ConnectType
  <2>3. s.isOpen => OpenControl'
    BY <1>a, <1>2, <2>1, <2>2 DEF OpenControl, BeforeDrain
  <2> QED
    BY <2>1, <2>3, ControlKept
<1>3. CASE DialOk \/ SignalConnReady \/ ConnectReturn \/ SignatureMatch \/ ActivateIngress
  <2>1. /\ UNCHANGED <<closing, reader, ingress>>
        /\ s'.kind = s.kind /\ s'.isOpen = s.isOpen /\ s.kind \in {"tcp", "udp"}
    BY <1>0, <1>3 DEF DialOk, SignalConnReady, ConnectReturn, SignatureMatch, ActivateIngress, StreamType
  <2>2. CASE DialOk
    <3>1. /\ connect.pc = "dial" /\ connect'.pc = "dialed" /\ s'.conn = "open"
          /\ s'.connReadyDone = s.connReadyDone /\ s'.ingressActive = s.ingressActive
      BY <1>0, <2>2 DEF DialOk, StreamType, ConnectType
    <3>2. s.isOpen => OpenControl'
      BY <1>a, <2>1, <3>1 DEF OpenControl, BeforeDrain
    <3> QED
      BY <2>1, <3>2, ControlKept
  <2>3. CASE SignalConnReady
    <3>1. /\ connect.pc = "signal" /\ connect'.pc = "read" /\ s'.conn = s.conn
          /\ s'.connReadyDone = TRUE /\ s'.ingressActive = s.ingressActive
      BY <1>0, <2>3 DEF SignalConnReady, StreamType, ConnectType
    <3>2. s.isOpen => OpenControl'
      BY <1>a, <2>1, <3>1 DEF OpenControl, BeforeDrain
    <3> QED
      BY <2>1, <3>2, ControlKept
  <2>4. CASE ConnectReturn
    <3>1. /\ connect.pc = "return" /\ connect'.pc = "exit" /\ s'.conn = s.conn
          /\ s'.connReadyDone = TRUE /\ s'.ingressActive = s.ingressActive
      BY <1>0, <2>4 DEF ConnectReturn, StreamType, ConnectType
    <3>2. s.isOpen => OpenControl'
      BY <1>a, <2>1, <3>1 DEF OpenControl, BeforeDrain
    <3> QED
      BY <2>1, <3>2, ControlKept
  <2>5. CASE SignatureMatch
    <3>1. /\ connect.pc \in {"dial", "dialed"} /\ connect'.pc = "sigClose" /\ s'.conn \in {"nil", "closed"}
          /\ s'.connReadyDone = s.connReadyDone /\ s'.ingressActive = s.ingressActive
      BY <1>0, <2>5 DEF SignatureMatch, StreamType, ConnectType, ClosedConn
    <3>2. s.isOpen => OpenControl'
      BY <1>a, <2>1, <3>1 DEF OpenControl, BeforeDrain
    <3> QED
      BY <2>1, <3>2, ControlKept
  <2>6. CASE ActivateIngress
    <3>1. /\ connect.pc = "flush" /\ connect'.pc = "signal" /\ s'.conn = s.conn
          /\ s'.connReadyDone = s.connReadyDone /\ (s.kind = "tcp" => s'.ingressActive)
      BY <1>0, <2>6 DEF ActivateIngress, StreamType, ConnectType
    <3>2. s.isOpen => OpenControl'
      BY <1>a, <2>1, <3>1 DEF OpenControl, BeforeDrain
    <3> QED
      BY <2>1, <3>2, ControlKept
  <2> QED
    BY <1>3, <2>2, <2>3, <2>4, <2>5, <2>6
<1> QED
  BY <1>1, <1>2, <1>3 DEF ConnectStep, ConnectRun, ReadStep, ConnectCloses

\* The steps of the reader.
LEMMA ControlReader == ASSUME TypeOK, Control, ReaderStep PROVE Control'
<1>0. s \in StreamType /\ reader \in ReaderType /\ ingress \in IngressType /\ closing \in CloserType
  BY DEF TypeOK
<1>1. CASE DataClosed \/ DataStopped \/ QueueRefused \/ DataEarly \/ DirectWrite \/ Enqueue
  <2>1. Finish /\ UNCHANGED <<s, closing, connect>>
    BY <1>1 DEF DataClosed, DataStopped, QueueRefused, DataEarly, DirectWrite, Enqueue, Drop
  <2>2. reader'.pc = "idle"
    BY <2>1, FinishType
  <2> QED
    BY <2>1, <2>2 DEF Control, OpenControl
<1>1a. CASE DataRefused \/ DataOfOther
  <2>1. UNCHANGED <<s, closing, connect, ingress>> /\ reader.pc = "idle" /\ reader'.pc = "idle"
    BY <1>0, <1>1a DEF DataRefused, DataOfOther, NextPacket, ReaderType
  <2> QED
    BY <2>1 DEF Control, OpenControl
<1>2. CASE DataFound \/ DataFill \/ DataOpen \/ DataReady \/ QueueChecked
  <2>1. UNCHANGED <<s, closing, connect, ingress>>
    BY <1>2 DEF DataFound, DataFill, DataOpen, DataReady, QueueChecked
  <2>2. \/ reader'.pc \in {"fill", "found", "admitted"}
        \/ reader'.pc = "queue" /\ s.connReadyDone /\ s.kind = "tcp"
        \/ reader'.pc = "direct" /\ s.connReadyDone /\ ~(s.kind = "tcp" /\ s.ingressActive)
        \/ reader'.pc = "enqueue" /\ reader.pc = "queue"
    BY <1>0, <1>2 DEF DataFound, DataFill, DataOpen, DataReady, QueueChecked, ReaderTo, ReaderType
  <2>3. s.isOpen => OpenControl'
    <3>1. s.isOpen => OpenControl
      BY DEF Control
    <3>2. s.kind \in {"tcp", "udp"}
      BY <1>0 DEF StreamType
    <3> QED
      BY <2>1, <2>2, <3>1, <3>2 DEF OpenControl
  <2> QED
    BY <2>1, <2>2, <2>3 DEF Control
<1>3. CASE DataEarlyFull \/ QueueFull \/ DirectError \/ ReaderEnd
  <2>1. Close("reader") /\ UNCHANGED ingress
    BY <1>3 DEF DataEarlyFull, QueueFull, DirectError, ReaderEnd
  <2>2. reader'.pc \in {"idle", "ended"}
    BY <1>0, <1>3, FinishType DEF DataEarlyFull, QueueFull, DirectError, ReaderEnd, Drop, ReaderTo, ReaderType
  <2> QED
    BY <2>1, <2>2, ControlClosed
<1>4. CASE DirectPanic
  <2>1. ~s.isOpen
    BY <1>4 DEF DirectPanic, Control, OpenControl
  <2>2. /\ reader'.pc = "panic" /\ closing'.pc = "gone" /\ closing'.sent = closing.sent
        /\ ingress'.pc = "none" /\ s' = s
    BY <1>0, <1>4 DEF DirectPanic, ReaderTo, CloseTo, ReaderType, CloserType, IngressType
  <2> QED
    BY <2>1, <2>2 DEF Control
<1> QED
  BY <1>1, <1>1a, <1>2, <1>3, <1>4 DEF ReaderStep, ReaderRun

\* Every step keeps the control invariant.
LEMMA ControlStep == TypeOK /\ Control /\ [Next]_vars => Control'
<1> SUFFICES ASSUME TypeOK, Control, [Next]_vars PROVE Control'
  OBVIOUS
<1>0. s \in StreamType /\ ingress \in IngressType
  BY DEF TypeOK
<1>1. CASE ClientSend \/ ClientContinue \/ ConnectionClose \/ UNCHANGED vars
  <2>1. UNCHANGED <<s, closing, connect, reader, ingress>>
    BY <1>1 DEF ClientSend, ClientContinue, ConnectionClose, vars
  <2> QED
    BY <2>1 DEF Control, OpenControl
<1>2. CASE CloseByClient
  BY <1>2, ControlClosed DEF CloseByClient
<1>3. CASE ConnBreak
  <2>1. /\ UNCHANGED <<closing, connect, reader, ingress>> /\ s.conn = "open" /\ s'.conn = "broken"
        /\ s'.kind = s.kind /\ s'.isOpen = s.isOpen /\ s'.connReadyDone = s.connReadyDone
        /\ s'.ingressActive = s.ingressActive
    BY <1>0, <1>3 DEF ConnBreak, StreamType
  <2> QED
    BY <2>1 DEF Control, OpenControl
<1>4. CASE IngressStep
  <2>1. UNCHANGED <<s, closing, connect, reader>> /\ ingress.pc # "none"
    BY <1>4 DEF IngressStep, IngressRun, IngressExit, IngressTake, IngressAbandon, IngressGo,
                IngressWrite, IngressError, IngressClear
  <2> QED
    BY <2>1 DEF Control, OpenControl
<1>5. CASE IngressClose
  <2>1. Close("ingress") /\ reader' = reader /\ ingress'.pc = ingress.pc
    BY <1>0, <1>5 DEF IngressClose, IngressType
  <2> QED
    BY <2>1, ControlClosed
<1> QED
  BY <1>1, <1>2, <1>3, <1>4, <1>5, ControlClose, ControlConnect, ControlReader DEF Next

\* Before the first step the stream is open and its dial is to come.
LEMMA ControlInit == Init => Control
<1> SUFFICES ASSUME Init PROVE Control
  OBVIOUS
<1>1. /\ closing.pc = "idle" /\ closing.sent = 0 /\ connect.pc = "admit" /\ reader.pc = "idle"
      /\ s.conn = "nil" /\ s.connReadyDone = FALSE
  BY DEF Init
<1> QED
  BY <1>1 DEF Control, OpenControl, BeforeDrain

\* An open stream that is signalled ready has its socket.
THEOREM ReadyStreamsHaveConn == Spec => []ReadyHasConn
<1>1. TypeOK /\ Control => ReadyHasConn
  BY DEF TypeOK, Control, OpenControl, ReadyHasConn
<1> QED
  BY <1>1, TypeInit, TypeStep, ControlInit, ControlStep, PTL DEF Spec

-----------------------------------------------------------------------------
(* CLOSE packets.                                                          *)

\* As long as the table has the stream nothing is refused, each refusal is of a packet taken up
\* after the stream was closed, and close() ends with its own CLOSE unless the connection closed.
Answers ==
    /\ Listed => reader.refused = 0
    /\ ~s.isOpen => closing.from + reader.refused <= Taken
    /\ closing.pc = "done" => closing.sent = 1 \/ connClosed

\* The reader goes forward, and close() with it.
LEMMA AnswersKept ==
    ASSUME TypeOK, TypeOK', Answers, s'.isOpen = s.isOpen, closing'.from = closing.from,
           Listed' => Listed, reader'.refused = reader.refused, Taken <= Taken',
           closing'.pc = "done" => closing'.sent = 1 \/ connClosed'
    PROVE  Answers'
<1>1. /\ closing.from \in Nat /\ reader.refused \in Nat
      /\ Taken \in Nat /\ Taken' \in Nat
  BY DEF TypeOK, CloserType, ReaderType, Taken, Packet
<1> QED
  BY <1>1 DEF Answers

\* A goroutine has called close().
LEMMA AnswersClosed ==
    ASSUME TypeOK, TypeOK', Control, Answers,
           NEW p \in {"goroutine", "connect", "reader", "ingress"}, Close(p),
           reader'.refused = reader.refused, Taken <= Taken', connClosed => connClosed'
    PROVE  Answers'
<1>0. /\ closing \in CloserType /\ s \in StreamType /\ reader.refused \in Nat
      /\ Taken \in Nat /\ Taken' \in Nat
  BY DEF TypeOK, CloserType, ReaderType, Taken, Packet
<1>1. CASE s.isOpen
  <2>1. Listed /\ reader.refused = 0
    BY <1>1 DEF Control, OpenControl, Listed, Answers
  <2>2. closing'.from = Taken /\ closing'.pc = "signal"
    BY <1>0, <1>1 DEF Close, CloserType
  <2> QED
    BY <1>0, <2>1, <2>2 DEF Answers
<1>2. CASE ~s.isOpen
  <2>1. UNCHANGED <<s, closing>>
    BY <1>2 DEF Close
  <2>2. closing'.pc = "done" => closing'.sent = 1 \/ connClosed'
    BY <2>1 DEF Answers
  <2> QED
    BY <2>1, <2>2, AnswersKept DEF Listed
<1> QED
  BY <1>1, <1>2

\* The steps of the reader.
LEMMA AnswersReader == ASSUME TypeOK, TypeOK', Control, Answers, ReaderStep PROVE Answers'
<1>0. reader \in ReaderType /\ closing \in CloserType
  BY DEF TypeOK
<1>c. connClosed' = connClosed
  BY DEF ReaderStep, ReaderRun, DataRefused, DataFound, DataFill, DataClosed, DataOpen, DataOfOther,
         DataStopped, DataEarly, DataEarlyFull, DataReady, QueueRefused, QueueChecked, QueueFull,
         Enqueue, DirectWrite, DirectError, DirectPanic, ReaderEnd
<1>d. closing.pc = "done" => closing.sent = 1 \/ connClosed
  BY DEF Answers
<1>1. Packet = reader.handled + 1 /\ Packet \in Nat /\ reader.handled \in Nat
  BY <1>0 DEF Packet, ReaderType
<1>2. CASE DataClosed \/ DataStopped \/ QueueRefused \/ DataEarly \/ DirectWrite \/ Enqueue
  <2>1. Finish /\ UNCHANGED <<s, closing>> /\ reader.pc \notin {"idle", "ended"}
    BY <1>2 DEF DataClosed, DataStopped, QueueRefused, DataEarly, DirectWrite, Enqueue, Drop
  <2>2. reader'.refused = reader.refused /\ Taken' = Taken
    BY <1>0, <1>1, <2>1 DEF Finish, ReaderType, Taken, Packet
  <2> QED
    BY <1>1, <1>c, <1>d, <2>1, <2>2, AnswersKept DEF Listed, Taken
<1>3. CASE DataFound \/ DataFill \/ DataOpen \/ DataReady \/ QueueChecked \/ DataOfOther
  <2>1. UNCHANGED <<s, closing>>
    BY <1>3 DEF DataFound, DataFill, DataOpen, DataReady, QueueChecked, DataOfOther
  <2>2. /\ reader'.refused = reader.refused /\ reader'.handled = reader.handled
        /\ reader'.pc \in {"idle", "ended"} => reader.pc \in {"idle", "ended"}
    BY <1>0, <1>3 DEF DataFound, DataFill, DataOpen, DataReady, QueueChecked, DataOfOther,
                      ReaderTo, ReaderType
  <2>3. Taken <= Taken'
    BY <1>1, <2>2 DEF Taken, Packet
  <2> QED
    BY <1>c, <1>d, <2>1, <2>2, <2>3, AnswersKept DEF Listed
<1>4. CASE DataRefused
  <2>1. /\ UNCHANGED <<s, closing>> /\ ~Listed /\ reader.pc = "idle"
        /\ reader'.handled = Packet /\ reader'.pc = "idle"
        /\ reader'.refused \in {reader.refused, reader.refused + 1}
    BY <1>0, <1>4 DEF DataRefused, NextPacket, ReaderType
  <2>2. ~Listed' /\ ~s.isOpen
    BY <2>1 DEF Listed, Control, OpenControl
  <2>3. Taken' = Taken + 1 /\ Taken \in Nat
    BY <1>1, <2>1 DEF Taken, Packet
  <2>4. closing.from \in Nat /\ reader.refused \in Nat
    BY <1>0 DEF CloserType, ReaderType
  <2> QED
    BY <1>c, <1>d, <2>1, <2>2, <2>3, <2>4 DEF Answers
<1>5. CASE DataEarlyFull \/ QueueFull \/ DirectError \/ ReaderEnd
  <2>1. Close("reader")
    BY <1>5 DEF DataEarlyFull, QueueFull, DirectError, ReaderEnd
  <2>2. reader'.refused = reader.refused /\ Taken' = Taken
    BY <1>0, <1>1, <1>5 DEF DataEarlyFull, QueueFull, DirectError, ReaderEnd, Drop, Finish, ReaderTo,
                            ReaderType, Taken, Packet
  <2> QED
    BY <1>1, <1>c, <2>1, <2>2, AnswersClosed DEF Taken
<1>6. CASE DirectPanic
  <2>1. /\ s' = s /\ closing'.from = closing.from /\ ~Listed' /\ reader.pc = "direct"
        /\ closing'.pc = "gone"
        /\ reader'.pc = "panic" /\ reader'.handled = reader.handled
        /\ reader'.refused = reader.refused
    BY <1>0, <1>6 DEF DirectPanic, ReaderTo, CloseTo, ReaderType, CloserType, Listed
  <2>2. Taken' = Taken
    BY <2>1 DEF Taken, Packet
  <2> QED
    BY <1>1, <2>1, <2>2, AnswersKept DEF Taken
<1> QED
  BY <1>2, <1>3, <1>4, <1>5, <1>6 DEF ReaderStep, ReaderRun

\* A connection that is closed stays closed.
LEMMA ClosedForEver == [Next]_vars /\ connClosed => connClosed'
BY DEF Next, ConnectStep, ConnectRun, ReadStep, ReaderStep, ReaderRun, IngressStep, IngressRun,
       ConnectRefuse, ConnectAdmit, DialOk, DialError, SignatureMatch, SignatureClose,
       SignatureCloseAll, Confirm, DrainEarly, FlushCheck, FlushWrite, FlushError, ActivateIngress,
       SignalConnReady, ConnectReturn, ReadData, ReadStopped, ReadEnd, DataRefused, DataFound,
       DataFill, DataClosed, DataOpen, DataOfOther, DataStopped, DataEarly, DataEarlyFull, DataReady,
       QueueRefused, QueueChecked, QueueFull, Enqueue, DirectWrite, DirectError, DirectPanic,
       ReaderEnd, IngressExit, IngressTake, IngressAbandon, IngressGo, IngressWrite, IngressError,
       IngressClear, IngressClose, CloseStep, CloseSignal, CloseDelete, CloseConn, CloseIngress,
       CloseDrain, CloseSend, ClientSend, ClientContinue, CloseByClient, ConnBreak,
       ConnectionClose, vars

\* Every step keeps the account of the CLOSE packets.
LEMMA AnswersStep == TypeOK /\ TypeOK' /\ Control /\ Answers /\ [Next]_vars => Answers'
<1> SUFFICES ASSUME TypeOK, TypeOK', Control, Answers, [Next]_vars PROVE Answers'
  OBVIOUS
<1>0. /\ s \in StreamType /\ closing \in CloserType /\ reader \in ReaderType
      /\ Taken \in Nat
  BY DEF TypeOK, ReaderType, Taken, Packet
<1>c. connClosed => connClosed'
  BY ClosedForEver
<1>1. ASSUME s'.isOpen = s.isOpen, closing' = closing, reader' = reader PROVE Answers'
  BY <1>1, <1>c DEF Answers, Listed, Taken, Packet
<1>2. ASSUME NEW p \in {"goroutine", "connect", "reader", "ingress"}, Close(p), reader' = reader
      PROVE  Answers'
  <2>1. Taken' = Taken
    BY <1>2 DEF Taken, Packet
  <2> QED
    BY <1>0, <1>2, <1>c, <2>1, AnswersClosed
<1>3. CASE CloseByClient \/ IngressClose \/ ConnectCloses
  BY <1>2, <1>3 DEF CloseByClient, IngressClose, ConnectCloses, ConnectRefuse, DialError,
                    SignatureClose, FlushError, ReadEnd
<1>4. CASE ConnectAdmit \/ DialOk \/ SignatureMatch \/ SignatureCloseAll \/ Confirm \/ DrainEarly
           \/ FlushCheck \/ FlushWrite \/ ActivateIngress \/ SignalConnReady \/ ConnectReturn
           \/ ReadData \/ ReadStopped
  <2>1. s'.isOpen = s.isOpen /\ closing' = closing /\ reader' = reader
    BY <1>0, <1>4
       DEF ConnectAdmit, DialOk, SignatureMatch, SignatureCloseAll, Confirm, DrainEarly, FlushCheck,
           FlushWrite, ActivateIngress, SignalConnReady, ConnectReturn, ReadData, ReadStopped,
           StreamType
  <2> QED
    BY <1>1, <2>1
<1>5. CASE CloseStep
  <2>1. /\ s'.isOpen = s.isOpen /\ closing'.from = closing.from /\ reader'.refused = reader.refused
        /\ reader'.pc = reader.pc /\ reader'.handled = reader.handled
    BY <1>0, <1>5 DEF CloseStep, CloseSignal, CloseDelete, CloseConn, CloseIngress, CloseDrain,
                      CloseSend, CloseTo, StreamType, CloserType, ReaderType
  <2>2. Listed' => Listed
    BY <1>0, <1>5 DEF CloseStep, CloseSignal, CloseDelete, CloseConn, CloseIngress, CloseDrain,
                      CloseSend, CloseTo, AfterIngress, CloserType, Listed
  <2>3. Taken' = Taken
    BY <2>1 DEF Taken, Packet
  <2>4. closing'.pc = "done" => closing'.sent = 1 \/ connClosed'
    <3>1. closing.pc # "done"
      BY <1>5 DEF CloseStep, CloseSignal, CloseDelete, CloseConn, CloseIngress, CloseDrain, CloseSend
    <3>2. CASE CloseSend
      <4>1. closing.sent = 0 /\ connClosed' = connClosed
        BY <3>2 DEF CloseSend, Control
      <4> QED
        BY <1>0, <3>2, <4>1 DEF CloseSend, CloserType
    <3>3. CASE ~CloseSend
      BY <1>0, <1>5, <3>3 DEF CloseStep, CloseSignal, CloseDelete, CloseConn, CloseIngress,
                              AfterIngress, CloseDrain, CloseTo, CloserType
    <3> QED
      BY <3>2, <3>3
  <2> QED
    BY <1>0, <2>1, <2>2, <2>3, <2>4, AnswersKept
<1>6. CASE ClientSend \/ ClientContinue \/ ConnectionClose \/ ConnBreak \/ IngressStep \/ UNCHANGED vars
  <2>1. s'.isOpen = s.isOpen /\ closing' = closing /\ reader' = reader
    BY <1>0, <1>6
       DEF ClientSend, ClientContinue, ConnectionClose, ConnBreak, IngressStep, IngressRun,
           IngressExit, IngressTake, IngressAbandon, IngressGo, IngressWrite, IngressError,
           IngressClear, vars, StreamType
  <2> QED
    BY <1>1, <2>1
<1> QED
  BY <1>3, <1>4, <1>5, <1>6, AnswersReader
     DEF Next, ConnectStep, ConnectRun, ReadStep, ConnectCloses

\* For every number of packets, however many goroutines call close(), and whoever comes first:
\* the stream's own CLOSE is queued at most once, never while it is open, and before close() is
\* done unless the connection closed; and every other CLOSE for its id answers one DATA packet
\* that the reader took up after the stream's end.
THEOREM ClosePacketsAccounted == Spec => []ClosesAccounted
<1>1. Init => Answers
  <2> SUFFICES ASSUME Init PROVE Answers
    OBVIOUS
  <2>1. reader.refused = 0 /\ s.isOpen /\ closing.pc = "idle"
    BY DEF Init
  <2> QED
    BY <2>1 DEF Answers
<1>2. TypeOK /\ Control /\ Answers => ClosesAccounted
  <2> SUFFICES ASSUME TypeOK, Control, Answers PROVE ClosesAccounted
    OBVIOUS
  <2>1. /\ closing.from \in Nat /\ reader.refused \in Nat /\ Taken \in Nat
        /\ closing.sent \in Nat
    BY DEF TypeOK, CloserType, ReaderType, Taken, Packet
  <2>2. s.isOpen => closing.sent = 0 /\ reader.refused = 0
    BY DEF Control, OpenControl, Answers, Listed
  <2> QED
    BY <2>1, <2>2 DEF Control, Answers, ClosesAccounted
<1> QED
  BY <1>1, <1>2, TypeInit, TypeStep, ControlInit, ControlStep, AnswersStep, PTL DEF Spec

-----------------------------------------------------------------------------
(* The socket.                                                             *)

\* From the moment an open stream has its socket: no dial can replace it, and
\* close() closes it before it goes on.
SocketKept ==
    /\ connect.pc \notin {"admit", "dial"}
    /\ s.conn # "nil"
    /\ closing.pc \in {"ingress", "drain", "send", "done"} => s.conn = "closed"

\* Every step keeps it so.
LEMMA SocketStep == TypeOK /\ SocketKept /\ [Next]_vars => SocketKept'
<1> SUFFICES ASSUME TypeOK, SocketKept, [Next]_vars PROVE SocketKept'
  OBVIOUS
<1>0. s \in StreamType /\ closing \in CloserType /\ connect \in ConnectType
  BY DEF TypeOK
<1>1. ASSUME NEW p \in {"goroutine", "connect", "reader", "ingress"}, Close(p),
             connect'.pc \notin {"admit", "dial"}
      PROVE  SocketKept'
  BY <1>1, CloseFacts DEF SocketKept
<1>2. CASE CloseStep
  <2>1. connect' = connect /\ s'.conn \in {s.conn, "closed"}
    BY <1>0, <1>2 DEF CloseStep, CloseSignal, CloseDelete, CloseConn, CloseIngress, CloseDrain,
                      CloseSend, StreamType, ClosedConn
  <2>2. CASE CloseSignal \/ CloseDelete
    BY <1>0, <2>1, <2>2 DEF CloseSignal, CloseDelete, CloseTo, CloserType, SocketKept
  <2>3. CASE CloseConn
    BY <1>0, <2>1, <2>3 DEF CloseConn, ClosedConn, StreamType, SocketKept
  <2>4. CASE CloseIngress \/ CloseDrain \/ CloseSend
    <3>1. s.conn = "closed"
      BY <2>4 DEF CloseIngress, CloseDrain, CloseSend, SocketKept
    <3> QED
      BY <2>1, <3>1 DEF SocketKept
  <2> QED
    BY <1>2, <2>2, <2>3, <2>4 DEF CloseStep
<1>3. CASE ConnectStep \/ ReadStep
  <2>1. connect'.pc \notin {"admit", "dial"}
    BY <1>0, <1>3
       DEF ConnectStep, ConnectRun, ReadStep, ConnectRefuse, ConnectAdmit, DialOk, DialError,
           SignatureMatch, SignatureClose, SignatureCloseAll, Confirm, DrainEarly, FlushCheck, FlushWrite, FlushError,
           ActivateIngress, SignalConnReady, ConnectReturn, ReadData, ReadStopped, ReadEnd,
           ConnectTo, ConnectType, SocketKept
  <2>2. CASE ConnectCloses
    <3>1. Close("connect")
      BY <2>2 DEF ConnectCloses, ConnectRefuse, DialError, SignatureClose, FlushError, ReadEnd
    <3> QED
      BY <1>1, <2>1, <3>1
  <2>3. CASE ~ConnectCloses
    <3>1. closing' = closing /\ (s'.conn = s.conn \/ (SignatureMatch /\ s'.conn = ClosedConn))
      BY <1>0, <1>3, <2>3
         DEF ConnectStep, ConnectRun, ReadStep, ConnectCloses, ConnectAdmit, DialOk, SignatureMatch,
             SignatureCloseAll, Confirm, DrainEarly, FlushCheck, FlushWrite,
             ActivateIngress, SignalConnReady, ConnectReturn, ReadData, ReadStopped,
             StreamType, SocketKept
    <3> QED
      BY <2>1, <3>1 DEF SocketKept, ClosedConn
  <2> QED
    BY <2>2, <2>3
<1>4. CASE ReaderStep
  <2>1. CASE DirectPanic
    BY <2>1 DEF DirectPanic, SocketKept
  <2>2. CASE DataEarlyFull \/ QueueFull \/ DirectError \/ ReaderEnd
    <3>1. Close("reader") /\ connect' = connect
      BY <2>2 DEF DataEarlyFull, QueueFull, DirectError, ReaderEnd
    <3> QED
      BY <1>1, <3>1 DEF SocketKept
  <2>3. CASE UNCHANGED <<s, closing, connect>>
    BY <2>3 DEF SocketKept
  <2> QED
    BY <1>4, <2>1, <2>2, <2>3
       DEF ReaderStep, ReaderRun, DataRefused, DataFound, DataFill, DataClosed, DataOpen, DataOfOther,
           DataStopped, DataEarly, DataReady, QueueRefused, QueueChecked, Enqueue, DirectWrite
<1>5. CASE CloseByClient \/ IngressClose
  BY <1>1, <1>5 DEF CloseByClient, IngressClose, SocketKept
<1>6. CASE ConnBreak
  BY <1>0, <1>6 DEF ConnBreak, StreamType, SocketKept
<1>7. CASE IngressStep \/ ClientSend \/ ClientContinue \/ ConnectionClose \/ UNCHANGED vars
  <2>1. UNCHANGED <<s, closing, connect>>
    BY <1>7 DEF IngressStep, IngressRun, IngressExit, IngressTake, IngressAbandon, IngressGo, IngressWrite,
                IngressError, IngressClear, ClientSend, ClientContinue, ConnectionClose, vars
  <2> QED
    BY <2>1 DEF SocketKept
<1> QED
  BY <1>2, <1>3, <1>4, <1>5, <1>6, <1>7 DEF Next

\* A stream that had its socket when it was closed.
HadSocket == ~s.isOpen /\ closing.had # "nil" => SocketKept

\* The step of a goroutine that calls close(), if its dial is over.
LEMMA HadSocketClosed ==
    ASSUME TypeOK, Control, HadSocket, SocketKept => SocketKept',
           NEW p \in {"goroutine", "connect", "reader", "ingress"}, Close(p),
           connect' = connect \/ connect'.pc \notin {"admit", "dial"}
    PROVE  HadSocket'
<1>1. CASE s.isOpen
  <2>1. closing'.had = s.conn /\ s'.conn = s.conn /\ closing'.pc = "signal"
    BY <1>1, CloseFacts DEF Control, OpenControl, Close, TypeOK, CloserType
  <2>2. s.conn # "nil" => connect'.pc \notin {"admit", "dial"}
    BY <1>1 DEF Control, OpenControl
  <2> QED
    BY <2>1, <2>2 DEF HadSocket, SocketKept
<1>2. CASE ~s.isOpen
  <2>1. UNCHANGED <<s, closing>>
    BY <1>2 DEF Close
  <2> QED
    BY <1>2, <2>1 DEF HadSocket
<1> QED
  BY <1>1, <1>2

\* Every step keeps it so.
LEMMA HadSocketStep == TypeOK /\ Control /\ HadSocket /\ [Next]_vars => HadSocket'
<1> SUFFICES ASSUME TypeOK, Control, HadSocket, [Next]_vars PROVE HadSocket'
  OBVIOUS
<1>0. s \in StreamType /\ closing \in CloserType /\ (SocketKept => SocketKept')
  BY SocketStep DEF TypeOK
<1>1. ASSUME s'.isOpen = s.isOpen, closing'.had = closing.had PROVE HadSocket'
  BY <1>0, <1>1 DEF HadSocket
<1>2. CASE ConnectCloses
  <2>1. Close("connect") /\ connect'.pc \notin {"admit", "dial"}
    BY <1>2 DEF ConnectCloses, ConnectRefuse, DialError, SignatureClose, FlushError, ReadEnd,
                ConnectTo, TypeOK, ConnectType
  <2> QED
    BY <1>0, <2>1, HadSocketClosed
<1>3. CASE DataEarlyFull \/ QueueFull \/ DirectError \/ ReaderEnd
  <2>1. Close("reader") /\ connect' = connect
    BY <1>3 DEF DataEarlyFull, QueueFull, DirectError, ReaderEnd
  <2> QED
    BY <1>0, <2>1, HadSocketClosed
<1>4. CASE CloseByClient \/ IngressClose
  BY <1>0, <1>4, HadSocketClosed DEF CloseByClient, IngressClose
<1>5. CASE CloseStep \/ DirectPanic
  BY <1>0, <1>1, <1>5
     DEF CloseStep, CloseSignal, CloseDelete, CloseConn, CloseIngress, CloseDrain, CloseSend,
         CloseTo, DirectPanic, StreamType, CloserType
<1>6. CASE ConnectAdmit \/ DialOk \/ SignatureMatch \/ SignatureCloseAll \/ Confirm \/ DrainEarly
           \/ FlushCheck \/ FlushWrite \/ ActivateIngress \/ SignalConnReady \/ ConnectReturn
           \/ ReadData \/ ReadStopped
  <2>1. s'.isOpen = s.isOpen /\ closing' = closing
    BY <1>0, <1>6
       DEF ConnectAdmit, DialOk, SignatureMatch, SignatureCloseAll, Confirm, DrainEarly, FlushCheck,
           FlushWrite, ActivateIngress, SignalConnReady, ConnectReturn, ReadData, ReadStopped,
           StreamType
  <2> QED
    BY <1>1, <2>1
<1>7. CASE UNCHANGED <<s, closing>>
  BY <1>1, <1>7
<1>8. CASE ConnBreak
  BY <1>0, <1>1, <1>8 DEF ConnBreak, StreamType
<1>9. CASE ReaderStep
  BY <1>3, <1>5, <1>7, <1>9
     DEF ReaderStep, ReaderRun, DataRefused, DataFound, DataFill, DataClosed, DataOpen, DataOfOther,
         DataStopped, DataEarly, DataReady, QueueRefused, QueueChecked, Enqueue, DirectWrite
<1>10. CASE IngressStep \/ ClientSend \/ ClientContinue \/ ConnectionClose \/ UNCHANGED vars
  BY <1>7, <1>10
     DEF IngressStep, IngressRun, IngressExit, IngressTake, IngressAbandon, IngressGo, IngressWrite,
         IngressError, IngressClear, ClientSend, ClientContinue, ConnectionClose, vars
<1> QED
  BY <1>2, <1>4, <1>5, <1>6, <1>8, <1>9, <1>10
     DEF Next, ConnectStep, ConnectRun, ReadStep, ConnectCloses

\* A stream that was open with its socket in place never leaves the socket open
\* once close() has returned.
THEOREM SocketIsReleased == Spec => []SocketReleased
<1>1. Init => HadSocket
  BY DEF Init, HadSocket
<1>2. TypeOK /\ Control /\ HadSocket => SocketReleased
  BY DEF Control, OpenControl, HadSocket, SocketKept, SocketReleased
<1> QED
  BY <1>1, <1>2, TypeInit, TypeStep, ControlInit, ControlStep, HadSocketStep, PTL DEF Spec

-----------------------------------------------------------------------------
(* Sequences of packets.                                                   *)

\* What is in two sequences one after the other.
LEMMA ConcatFacts ==
    ASSUME NEW a \in Seq(Nat), NEW b \in Seq(Nat)
    PROVE  /\ a \o b \in Seq(Nat) /\ Len(a) \in Nat /\ Len(b) \in Nat
           /\ Len(a \o b) = Len(a) + Len(b)
           /\ \A i \in 1..Len(a) : (a \o b)[i] = a[i]
           /\ \A i \in 1..Len(b) : (a \o b)[Len(a) + i] = b[i]
<1>1. Len(a) \in Nat /\ Len(b) \in Nat
  OBVIOUS
<1>2. /\ a \o b \in Seq(Nat) /\ Len(a \o b) = Len(a) + Len(b)
      /\ \A i \in 1 .. Len(a) + Len(b) : (a \o b)[i] = IF i <= Len(a) THEN a[i] ELSE b[i - Len(a)]
  BY ConcatProperties
<1>3. ASSUME NEW i \in 1..Len(a) PROVE (a \o b)[i] = a[i]
  BY <1>1, <1>2
<1>4. ASSUME NEW i \in 1..Len(b) PROVE (a \o b)[Len(a) + i] = b[i]
  <2>1. Len(a) + i \in 1..(Len(a) + Len(b)) /\ ~(Len(a) + i <= Len(a)) /\ Len(a) + i - Len(a) = i
    BY <1>1
  <2> QED
    BY <1>2, <2>1
<1> QED
  BY <1>1, <1>2, <1>3, <1>4

\* Appending to the second of two sequences appends to both together.
LEMMA AppendAfter ==
    ASSUME NEW a \in Seq(Nat), NEW b \in Seq(Nat), NEW x \in Nat
    PROVE  a \o Append(b, x) = Append(a \o b, x) /\ a \o b \in Seq(Nat)
<1> DEFINE u == <<x>>
<1>1. Append(b, x) = b \o u /\ u \in Seq(Nat)
  BY AppendIsConcat
<1>2. a \o b \in Seq(Nat)
  BY ConcatFacts
<1>3. Append(a \o b, x) = (a \o b) \o u
  BY <1>2, AppendIsConcat
<1> HIDE DEF u
<1>4. (a \o b) \o u = a \o (b \o u)
  BY <1>1, ConcatAssociative, SMTT(30)
<1> QED
  BY <1>1, <1>2, <1>3, <1>4

\* The elements of a sequence.
LEMMA ToSetIs ==
    ASSUME NEW a \in Seq(Nat)
    PROVE  ToSet(a) = {a[i] : i \in 1..Len(a)}
BY DEF ToSet

\* The empty sequence has none.
LEMMA ToSetNil == ToSet(<<>>) = {}
BY DEF ToSet

\* Two sequences one after the other have those of both.
LEMMA ToSetConcat ==
    ASSUME NEW a \in Seq(Nat), NEW b \in Seq(Nat)
    PROVE  ToSet(a \o b) = ToSet(a) \cup ToSet(b)
<1> DEFINE c == a \o b
<1>1. /\ c \in Seq(Nat) /\ Len(a) \in Nat /\ Len(b) \in Nat /\ Len(c) = Len(a) + Len(b)
      /\ \A i \in 1..Len(a) : c[i] = a[i]
      /\ \A i \in 1..Len(b) : c[Len(a) + i] = b[i]
  BY ConcatFacts
<1>2. /\ ToSet(a) = {a[i] : i \in 1..Len(a)} /\ ToSet(b) = {b[i] : i \in 1..Len(b)}
      /\ ToSet(c) = {c[i] : i \in 1..Len(c)}
  BY <1>1, ToSetIs
<1> HIDE DEF c
<1>3. ASSUME NEW i \in 1..Len(c) PROVE c[i] \in ToSet(a) \cup ToSet(b)
  <2>1. CASE i <= Len(a)
    <3>1. i \in 1..Len(a)
      BY <1>1, <2>1
    <3> QED
      BY <1>1, <1>2, <3>1
  <2>2. CASE ~(i <= Len(a))
    <3>1. i - Len(a) \in 1..Len(b) /\ Len(a) + (i - Len(a)) = i
      BY <1>1, <2>2
    <3> QED
      BY <1>1, <1>2, <3>1
  <2> QED
    BY <2>1, <2>2
<1>4. ASSUME NEW i \in 1..Len(a) PROVE a[i] \in ToSet(c)
  <2>1. i \in 1..Len(c)
    BY <1>1
  <2> QED
    BY <1>1, <1>2, <2>1
<1>5. ASSUME NEW i \in 1..Len(b) PROVE b[i] \in ToSet(c)
  <2>1. Len(a) + i \in 1..Len(c)
    BY <1>1
  <2> QED
    BY <1>1, <1>2, <2>1
<1>6. ToSet(c) = ToSet(a) \cup ToSet(b)
  BY <1>2, <1>3, <1>4, <1>5
<1> QED
  BY <1>6 DEF c

\* One more packet.
LEMMA ToSetAppend ==
    ASSUME NEW a \in Seq(Nat), NEW x \in Nat
    PROVE  ToSet(Append(a, x)) = ToSet(a) \cup {x} /\ Append(a, x) \in Seq(Nat)
<1>1. Append(a, x) = a \o <<x>> /\ <<x>> \in Seq(Nat)
  BY AppendIsConcat
<1>2. ToSet(<<x>>) = {x}
  BY DEF ToSet
<1>3. ToSet(a \o <<x>>) = ToSet(a) \cup ToSet(<<x>>)
  BY <1>1, ToSetConcat
<1> QED
  BY <1>1, <1>2, <1>3

\* The empty sequence is in order.
LEMMA AscendingNil == \A n : Ascending(<<>>, n)
BY DEF Ascending

\* A sequence in order stays so for a larger bound.
LEMMA AscendingWeaken ==
    ASSUME NEW a \in Seq(Nat), NEW m \in Nat, NEW n \in Nat, m <= n, Ascending(a, m)
    PROVE  Ascending(a, n)
BY DEF Ascending

\* The next packet goes last.
LEMMA AscendingAppend ==
    ASSUME NEW a \in Seq(Nat), NEW n \in Nat, Ascending(a, n)
    PROVE  Ascending(Append(a, n + 1), n + 1)
<1> DEFINE c == Append(a, n + 1)
<1>1. /\ Len(a) \in Nat /\ Len(c) = Len(a) + 1 /\ c[Len(a) + 1] = n + 1
      /\ \A i \in 1..Len(a) : c[i] = a[i]
  OBVIOUS
<1>2. \A i \in 1..Len(a) : a[i] \in 1..n
  BY DEF Ascending
<1>3. \A i, j \in 1..Len(a) : i < j => a[i] < a[j]
  BY DEF Ascending
<1> HIDE DEF c
<1>4. ASSUME NEW i \in 1..Len(c) PROVE c[i] \in 1..(n + 1)
  <2>1. CASE i = Len(a) + 1
    BY <1>1, <2>1
  <2>2. CASE i # Len(a) + 1
    <3>1. i \in 1..Len(a)
      BY <1>1, <2>2
    <3>2. c[i] \in 1..n
      BY <1>1, <1>2, <3>1
    <3> QED
      BY <3>2
  <2> QED
    BY <2>1, <2>2
<1>5. ASSUME NEW i \in 1..Len(c), NEW j \in 1..Len(c), i < j PROVE c[i] < c[j]
  <2>1. i \in 1..Len(a)
    BY <1>1, <1>5
  <2>2. c[i] \in 1..n
    BY <1>1, <1>2, <2>1
  <2>3. CASE j = Len(a) + 1
    BY <1>1, <2>2, <2>3
  <2>4. CASE j # Len(a) + 1
    <3>1. j \in 1..Len(a)
      BY <1>1, <2>4
    <3> QED
      BY <1>1, <1>3, <1>5, <2>1, <3>1
  <2> QED
    BY <2>3, <2>4
<1>6. Ascending(c, n + 1)
  BY <1>4, <1>5 DEF Ascending
<1> QED
  BY <1>6 DEF c

\* Two sequences one after the other are in order when each is and the last
\* of the first comes before the first of the second.
LEMMA AscendingConcat ==
    ASSUME NEW a \in Seq(Nat), NEW b \in Seq(Nat), NEW n \in Nat
    PROVE  Ascending(a \o b, n) <=>
             /\ Ascending(a, n) /\ Ascending(b, n)
             /\ \A i \in 1..Len(a), j \in 1..Len(b) : a[i] < b[j]
<1> DEFINE c == a \o b
<1>1. /\ c \in Seq(Nat) /\ Len(a) \in Nat /\ Len(b) \in Nat /\ Len(c) = Len(a) + Len(b)
      /\ \A i \in 1..Len(a) : c[i] = a[i]
      /\ \A i \in 1..Len(b) : c[Len(a) + i] = b[i]
  BY ConcatFacts
<1>i. /\ \A i \in 1..Len(a) : i \in 1..Len(c)
      /\ \A i \in 1..Len(b) : Len(a) + i \in 1..Len(c)
  BY <1>1
<1> HIDE DEF c
<1>2. ASSUME Ascending(c, n)
      PROVE  Ascending(a, n) /\ Ascending(b, n) /\ \A i \in 1..Len(a), j \in 1..Len(b) : a[i] < b[j]
  <2>0. /\ \A i \in 1..Len(c) : c[i] \in 1..n
        /\ \A i, j \in 1..Len(c) : i < j => c[i] < c[j]
    BY <1>2 DEF Ascending
  <2>1. Ascending(a, n)
    BY <1>1, <1>i, <2>0 DEF Ascending
  <2>2. ASSUME NEW i \in 1..Len(b) PROVE b[i] \in 1..n
    BY <1>1, <1>i, <2>0
  <2>3. ASSUME NEW i \in 1..Len(b), NEW j \in 1..Len(b), i < j PROVE b[i] < b[j]
    <3>1. Len(a) + i < Len(a) + j
      BY <1>1, <2>3
    <3> QED
      BY <1>1, <1>i, <2>0, <3>1
  <2>4. ASSUME NEW i \in 1..Len(a), NEW j \in 1..Len(b) PROVE a[i] < b[j]
    <3>1. i < Len(a) + j
      BY <1>1
    <3> QED
      BY <1>1, <1>i, <2>0, <3>1
  <2> QED
    BY <2>1, <2>2, <2>3, <2>4 DEF Ascending
<1>3. ASSUME Ascending(a, n), Ascending(b, n), \A i \in 1..Len(a), j \in 1..Len(b) : a[i] < b[j]
      PROVE  Ascending(c, n)
  <2>0. /\ \A i \in 1..Len(a) : a[i] \in 1..n
        /\ \A i \in 1..Len(b) : b[i] \in 1..n
        /\ \A i, j \in 1..Len(a) : i < j => a[i] < a[j]
        /\ \A i, j \in 1..Len(b) : i < j => b[i] < b[j]
    BY <1>3 DEF Ascending
  <2>1. ASSUME NEW i \in 1..Len(c)
        PROVE  \/ i \in 1..Len(a) /\ c[i] = a[i]
               \/ i - Len(a) \in 1..Len(b) /\ c[i] = b[i - Len(a)]
    <3>1. CASE i <= Len(a)
      <4>1. i \in 1..Len(a)
        BY <1>1, <3>1
      <4> QED
        BY <1>1, <4>1
    <3>2. CASE ~(i <= Len(a))
      <4>1. i - Len(a) \in 1..Len(b) /\ Len(a) + (i - Len(a)) = i
        BY <1>1, <3>2
      <4> QED
        BY <1>1, <4>1
    <3> QED
      BY <3>1, <3>2
  <2>2. ASSUME NEW i \in 1..Len(c) PROVE c[i] \in 1..n
    BY <2>0, <2>1
  <2>3. ASSUME NEW i \in 1..Len(c), NEW j \in 1..Len(c), i < j PROVE c[i] < c[j]
    <3>1. CASE i \in 1..Len(a) /\ c[i] = a[i]
      <4>1. CASE j \in 1..Len(a) /\ c[j] = a[j]
        BY <2>0, <2>3, <3>1, <4>1
      <4>2. CASE j - Len(a) \in 1..Len(b) /\ c[j] = b[j - Len(a)]
        BY <1>3, <3>1, <4>2
      <4> QED
        BY <2>1, <4>1, <4>2
    <3>2. CASE i - Len(a) \in 1..Len(b) /\ c[i] = b[i - Len(a)]
      <4>1. j \notin 1..Len(a) /\ i - Len(a) < j - Len(a)
        BY <1>1, <2>3, <3>2
      <4>2. j - Len(a) \in 1..Len(b) /\ c[j] = b[j - Len(a)]
        BY <2>1, <4>1
      <4> QED
        BY <2>0, <3>2, <4>1, <4>2
    <3> QED
      BY <2>1, <3>1, <3>2
  <2> QED
    BY <2>2, <2>3 DEF Ascending
<1>4. Ascending(c, n) <=>
             /\ Ascending(a, n) /\ Ascending(b, n)
             /\ \A i \in 1..Len(a), j \in 1..Len(b) : a[i] < b[j]
  BY <1>2, <1>3
<1> QED
  BY <1>4 DEF c

\* Packets in order are at most n, and none is in both halves.
LEMMA AscendingSets ==
    ASSUME NEW a \in Seq(Nat), NEW b \in Seq(Nat), NEW n \in Nat, Ascending(a \o b, n)
    PROVE  /\ ToSet(a) \subseteq 1..n /\ ToSet(b) \subseteq 1..n
           /\ ToSet(a) \cap ToSet(b) = {}
<1>1. /\ Ascending(a, n) /\ Ascending(b, n)
      /\ \A i \in 1..Len(a), j \in 1..Len(b) : a[i] < b[j]
  BY AscendingConcat
<1>2. ToSet(a) = {a[i] : i \in 1..Len(a)} /\ ToSet(b) = {b[i] : i \in 1..Len(b)}
  BY ToSetIs
<1>3. /\ \A i \in 1..Len(a) : a[i] \in 1..n
      /\ \A i \in 1..Len(b) : b[i] \in 1..n
  BY <1>1 DEF Ascending
<1> QED
  BY <1>1, <1>2, <1>3

-----------------------------------------------------------------------------
(* The buffers.                                                            *)

\* The packets the ingress writer has and those it has still to take.
Queued == ingress.batch \o ingress.pending

\* They are packets the reader is done with.
LEMMA QueuedFacts ==
    ASSUME TypeOK, Buffers
    PROVE  /\ ingress.batch \in Seq(Nat) /\ ingress.pending \in Seq(Nat) /\ reader.handled \in Nat
           /\ Queued \in Seq(Nat) /\ ToSet(Queued) = ToSet(ingress.batch) \cup ToSet(ingress.pending)
           /\ ToSet(Queued) \subseteq 1..reader.handled
           /\ ToSet(ingress.batch) \cap ToSet(ingress.pending) = {}
<1>1. ingress.batch \in Seq(Nat) /\ ingress.pending \in Seq(Nat) /\ reader.handled \in Nat
  BY DEF TypeOK, IngressType, ReaderType
<1>2. Queued \in Seq(Nat) /\ ToSet(Queued) = ToSet(ingress.batch) \cup ToSet(ingress.pending)
  BY <1>1, ConcatFacts, ToSetConcat DEF Queued
<1>3. /\ ToSet(ingress.batch) \subseteq 1..reader.handled /\ ToSet(ingress.pending) \subseteq 1..reader.handled
      /\ ToSet(ingress.batch) \cap ToSet(ingress.pending) = {}
  BY <1>1, AscendingSets DEF Buffers
<1> QED
  BY <1>1, <1>2, <1>3

\* What the number of times each buffer was put back has to satisfy.
PutsOK == /\ \A n \in Packets : n > reader.handled => puts[n] = 0
          /\ BufferPutOnce

\* Packets that leave the queue have their buffers put back.
LEMMA PutsReleased ==
    ASSUME TypeOK, Buffers, NEW S, Put(S), S \subseteq ToSet(Queued),
           ToSet(Queued)' \subseteq ToSet(Queued) \ S, reader' = reader
    PROVE  PutsOK'
<1>1. \A n \in Packets : puts'[n] = IF n \in S THEN puts[n] + 1 ELSE puts[n]
  BY DEF Put
<1>2. /\ reader.handled \in Nat /\ ToSet(Queued) \subseteq 1..reader.handled
      /\ puts \in [Packets -> Nat] /\ Packets \subseteq Nat
  BY QueuedFacts, BoundsType DEF TypeOK, Packets
<1>3. \A n \in Packets : puts[n] <= (IF n \in ToSet(Queued) THEN 0 ELSE 1)
  BY DEF Buffers, BufferPutOnce, Queued
<1>4. \A n \in Packets : n > reader.handled => puts[n] = 0
  BY DEF Buffers
<1>5. ASSUME NEW n \in Packets PROVE n > reader'.handled => puts'[n] = 0
  <2>1. n > reader.handled => n \notin S
    BY <1>2
  <2> QED
    BY <1>1, <1>4, <2>1
<1>6. ASSUME NEW n \in Packets PROVE puts'[n] <= (IF n \in ToSet(Queued)' THEN 0 ELSE 1)
  <2>1. CASE n \in S
    <3>1. puts[n] = 0 /\ n \notin ToSet(Queued)'
      BY <1>2, <1>3, <2>1
    <3> QED
      BY <1>1, <2>1, <3>1
  <2>2. CASE n \notin S
    <3>1. puts'[n] = puts[n] /\ (n \in ToSet(Queued)' => n \in ToSet(Queued)) /\ puts[n] \in Nat
      BY <1>1, <1>2, <2>2
    <3> QED
      BY <1>3, <3>1
  <2> QED
    BY <2>1, <2>2
<1> QED
  BY <1>5, <1>6 DEF PutsOK, BufferPutOnce, Queued

\* The reader is done with a packet and has put its buffer back: dropped, refused or written.
LEMMA BuffersDrop ==
    ASSUME TypeOK, TypeOK', Buffers, Put({Packet}), reader'.handled = Packet,
           ingress' = ingress, s'.kind = s.kind, reader.pc # "panic"
    PROVE  Buffers'
<1>0. Put({Packet})
  OBVIOUS
<1>1. Packet = reader.handled + 1 /\ reader'.handled = Packet
  BY DEF Packet
<1>2. /\ reader.handled \in Nat /\ ToSet(Queued) \subseteq 1..reader.handled /\ Queued \in Seq(Nat)
      /\ puts \in [Packets -> Nat] /\ Packets \subseteq Nat
  BY QueuedFacts, BoundsType DEF TypeOK, Packets
<1>3. Ascending(ingress.batch \o ingress.pending, reader.handled + 1)
  <2>1. Ascending(Queued, reader.handled)
    BY DEF Buffers, Queued
  <2>2. Ascending(Queued, reader.handled + 1)
    BY <1>2, <2>1, AscendingWeaken
  <2> QED
    BY <2>2 DEF Queued
<1>4. \A n \in Packets : puts'[n] = IF n = Packet THEN puts[n] + 1 ELSE puts[n]
  BY <1>0 DEF Put
<1>5. ASSUME NEW n \in Packets PROVE n > Packet => puts'[n] = 0
  <2>1. n > Packet => n > reader.handled /\ n # Packet
    BY <1>1, <1>2
  <2> QED
    BY <1>4, <2>1 DEF Buffers
<1>6. ASSUME NEW n \in Packets PROVE puts'[n] <= (IF n \in ToSet(Queued) THEN 0 ELSE 1)
  <2>1. puts[n] <= (IF n \in ToSet(Queued) THEN 0 ELSE 1)
    BY DEF Buffers, BufferPutOnce, Queued
  <2>2. CASE n = Packet
    <3>1. puts[n] = 0 /\ n \notin ToSet(Queued)
      BY <1>1, <1>2, <2>2 DEF Buffers
    <3> QED
      BY <1>4, <2>2, <3>1
  <2>3. CASE n # Packet
    BY <1>4, <2>1, <2>3
  <2> QED
    BY <2>2, <2>3
<1>7. BufferPutOnce'
  BY <1>6 DEF BufferPutOnce, Queued
<1> QED
  BY <1>1, <1>3, <1>5, <1>7 DEF Buffers

\* A packet enters the ingress queue with its buffer.
LEMMA BuffersEnqueue == ASSUME TypeOK, TypeOK', Control, Buffers, Enqueue PROVE Buffers'
<1>0. /\ Finish /\ UNCHANGED <<s, puts>> /\ reader.pc = "enqueue"
      /\ ingress' = [ingress EXCEPT !.pending = Append(ingress.pending, Packet), !.writing = TRUE,
                                    !.pc = StartedIngress]
  BY DEF Enqueue
<1>1. Packet = reader.handled + 1 /\ reader'.handled = Packet /\ reader'.pc = "idle" /\ Packet \in Nat
  BY <1>0, FinishType
<1>2. /\ reader.handled \in Nat /\ ToSet(Queued) \subseteq 1..reader.handled /\ Queued \in Seq(Nat)
      /\ ingress.batch \in Seq(Nat) /\ ingress.pending \in Seq(Nat)
      /\ puts \in [Packets -> Nat] /\ Packets \subseteq Nat
  BY QueuedFacts, BoundsType DEF TypeOK, Packets
<1>3. /\ ingress'.batch = ingress.batch /\ ingress'.pending = Append(ingress.pending, Packet)
      /\ ingress'.writing = TRUE /\ ingress'.pc = StartedIngress
  BY <1>0 DEF TypeOK, IngressType
<1>4. Queued' = Append(Queued, Packet)
  <2>1. ingress.batch \o Append(ingress.pending, Packet) = Append(ingress.batch \o ingress.pending, Packet)
    BY <1>1, <1>2, AppendAfter
  <2>2. Queued' = ingress.batch \o Append(ingress.pending, Packet)
    BY <1>3 DEF Queued
  <2> QED
    BY <2>1, <2>2 DEF Queued
<1>5. Ascending(Queued', Packet)
  <2>1. Ascending(Queued, reader.handled)
    BY DEF Buffers, Queued
  <2> QED
    BY <1>1, <1>2, <1>4, <2>1, AscendingAppend
<1>6. ToSet(Queued)' = ToSet(Queued) \cup {Packet}
  BY <1>1, <1>2, <1>4, ToSetAppend
<1>7. ASSUME NEW n \in Packets PROVE n > Packet => puts[n] = 0
  BY <1>1, <1>2 DEF Buffers
<1>8. ASSUME NEW n \in Packets PROVE puts[n] <= (IF n \in ToSet(Queued)' THEN 0 ELSE 1)
  <2>1. puts[n] <= (IF n \in ToSet(Queued) THEN 0 ELSE 1)
    BY DEF Buffers, BufferPutOnce, Queued
  <2>2. CASE n = Packet
    <3>1. puts[n] = 0
      BY <1>1, <1>2, <2>2 DEF Buffers
    <3> QED
      BY <3>1
  <2>3. CASE n # Packet
    BY <1>6, <2>1, <2>3
  <2> QED
    BY <2>2, <2>3
<1>9. ingress'.pc \in {"none", "take", "clear"} => ingress'.batch = <<>>
  <2>1. ~ingress.writing => ingress.batch = <<>>
    BY <1>0 DEF Buffers
  <2>2. ingress.writing => ingress'.pc = ingress.pc
    BY <1>3 DEF StartedIngress
  <2> QED
    BY <1>0, <1>3, <2>1, <2>2 DEF Buffers
<1>10. s'.kind # "udp"
  BY <1>0 DEF Control
<1>11. BufferPutOnce'
  BY <1>0, <1>8 DEF BufferPutOnce, Queued
<1> QED
  BY <1>0, <1>1, <1>3, <1>5, <1>7, <1>9, <1>10, <1>11 DEF Buffers, Queued

\* A step that leaves the queue, its writer and the buffers alone.
LEMMA BuffersSame ==
    ASSUME Buffers, ingress'.batch = ingress.batch, ingress'.pending = ingress.pending,
           ingress'.writing = ingress.writing, ingress'.pc = ingress.pc,
           puts' = puts, reader'.handled = reader.handled, s'.kind = s.kind,
           reader.pc = "panic" => reader'.pc = "panic"
    PROVE  Buffers'
BY DEF Buffers, BufferPutOnce

\* The steps of the reader.
LEMMA BuffersReader == ASSUME TypeOK, TypeOK', Control, Buffers, ReaderStep PROVE Buffers'
<1>0. s \in StreamType /\ reader \in ReaderType /\ ingress \in IngressType
  BY DEF TypeOK
<1>1. CASE \/ DataClosed \/ DataStopped \/ QueueRefused \/ DataEarly \/ DirectWrite
           \/ DataEarlyFull \/ QueueFull \/ DirectError
  <2>1. Drop /\ ingress' = ingress /\ reader.pc # "panic"
    BY <1>1 DEF DataClosed, DataStopped, QueueRefused, DataEarly, DirectWrite, DataEarlyFull,
                QueueFull, DirectError, NextPacket
  <2>2. s'.kind = s.kind
    BY <1>1, CloseFacts DEF DataClosed, DataStopped, QueueRefused, DataEarly, DirectWrite,
                DataEarlyFull, QueueFull, DirectError
  <2> QED
    BY <2>1, <2>2, FinishType, BuffersDrop DEF Drop
<1>1a. CASE DataRefused
  <2>1. /\ UNCHANGED <<s, ingress>> /\ Put({Packet}) /\ reader.pc = "idle"
        /\ reader'.handled = Packet
    BY <1>0, <1>1a DEF DataRefused, NextPacket, ReaderType
  <2> QED
    BY <1>0, <2>1, BuffersDrop
<1>2. CASE DataFound \/ DataFill \/ DataOpen \/ DataOfOther \/ DataReady \/ QueueChecked
  <2>1. /\ UNCHANGED <<s, ingress, puts>> /\ reader.pc # "panic" /\ reader'.handled = reader.handled
    BY <1>0, <1>2 DEF DataFound, DataFill, DataOpen, DataOfOther, DataReady, QueueChecked, ReaderTo,
                      NextPacket, ReaderType
  <2> QED
    BY <2>1, BuffersSame
<1>3. CASE ReaderEnd
  <2>1. /\ UNCHANGED <<ingress, puts>> /\ reader.pc # "panic" /\ reader'.handled = reader.handled
    BY <1>0, <1>3 DEF ReaderEnd, ReaderTo, ReaderType
  <2>2. s'.kind = s.kind
    BY <1>3, CloseFacts DEF ReaderEnd
  <2> QED
    BY <2>1, <2>2, BuffersSame
<1>4. CASE DirectPanic
  <2>1. /\ UNCHANGED <<s, puts>> /\ reader'.pc = "panic" /\ reader'.handled = reader.handled
    BY <1>0, <1>4 DEF DirectPanic, ReaderTo, ReaderType
  <2>2. /\ ingress'.batch = ingress.batch /\ ingress'.pending = ingress.pending
        /\ ingress'.writing = ingress.writing /\ ingress'.pc = "none"
    BY <1>0, <1>4 DEF DirectPanic, IngressType
  <2> QED
    BY <2>1, <2>2 DEF Buffers, BufferPutOnce
<1> QED
  BY <1>1, <1>1a, <1>2, <1>3, <1>4, BuffersEnqueue DEF ReaderStep, ReaderRun

\* The ingress writer gives up or has written its batch, whose buffers go back.
LEMMA BuffersBatch ==
    ASSUME TypeOK, TypeOK', Control, Buffers, Put(ToSet(ingress.batch)),
           ingress'.batch = <<>>, ingress'.pending = ingress.pending, ingress.pc # "none",
           ingress'.writing = ingress.writing, ingress'.pc # "none", UNCHANGED <<s, reader>>
    PROVE  Buffers'
<1>1. /\ ingress.batch \in Seq(Nat) /\ ingress.pending \in Seq(Nat) /\ reader.handled \in Nat
      /\ Queued \in Seq(Nat) /\ ToSet(Queued) = ToSet(ingress.batch) \cup ToSet(ingress.pending)
      /\ ToSet(Queued) \subseteq 1..reader.handled
      /\ ToSet(ingress.batch) \cap ToSet(ingress.pending) = {}
  BY QueuedFacts
<1>2. Queued' = ingress.pending
  <2>1. <<>> \o ingress.pending = ingress.pending
    BY <1>1, ConcatEmptySeq
  <2> QED
    BY <2>1 DEF Queued
<1>3. ToSet(Queued)' = ToSet(ingress.pending)
  BY <1>2
<1>4. PutsOK'
  BY <1>1, <1>3, PutsReleased
<1>5. Ascending(ingress.pending, reader.handled)
  BY <1>1, AscendingConcat DEF Buffers
<1>6. Ascending(Queued', reader.handled)
  BY <1>2, <1>5
<1>7. ingress.writing
  BY DEF Buffers
<1> QED
  BY <1>4, <1>6, <1>7 DEF Buffers, Queued, PutsOK

\* The steps of the ingress writer.
LEMMA BuffersIngress == ASSUME TypeOK, TypeOK', Control, Buffers, IngressStep PROVE Buffers'
<1>0. ingress \in IngressType
  BY DEF TypeOK
<1>1. UNCHANGED <<s, reader>> /\ ingress.pc # "none" /\ reader.pc # "panic"
  BY DEF IngressStep, IngressRun, IngressExit, IngressTake, IngressAbandon, IngressGo, IngressWrite,
         IngressError, IngressClear, Control
<1>w. ingress.writing
  BY <1>1 DEF Buffers
<1>2. CASE IngressAbandon \/ IngressWrite \/ IngressError
  <2>1. /\ Put(ToSet(ingress.batch)) /\ ingress'.pending = ingress.pending
        /\ ingress'.writing = ingress.writing /\ ingress'.pc # "none"
    BY <1>0, <1>2 DEF IngressAbandon, IngressWrite, IngressError, IngressType
  <2>2. ingress'.batch = <<>>
    BY <1>0, <1>2 DEF IngressAbandon, IngressWrite, IngressError, IngressType
  <2> QED
    BY <1>1, <2>1, <2>2, BuffersBatch
<1>3. CASE IngressExit \/ IngressClear \/ IngressGo
  <2>1. /\ puts' = puts /\ ingress'.pending = ingress.pending /\ ingress'.batch = ingress.batch
    BY <1>0, <1>3 DEF IngressExit, IngressClear, IngressGo, IngressType
  <2>2. \/ ingress'.pc = "none" /\ ingress.pc \in {"take", "clear"}
        \/ ingress'.pc = "write" /\ ingress'.writing = ingress.writing
    BY <1>0, <1>3 DEF IngressExit, IngressClear, IngressGo, IngressType
  <2> QED
    BY <1>1, <1>w, <2>1, <2>2 DEF Buffers, BufferPutOnce
<1>4. CASE IngressTake
  <2>1. /\ puts' = puts /\ ingress'.batch = ingress.pending /\ ingress'.pc = "check"
        /\ ingress'.writing = ingress.writing /\ ingress.pc = "take"
    BY <1>0, <1>4 DEF IngressTake, IngressType
  <2>2. ingress'.pending = <<>>
    BY <1>0, <1>4 DEF IngressTake, IngressType
  <2>3. ingress.batch = <<>> /\ ingress.pending \in Seq(Nat)
    BY <1>0, <1>1, <2>1 DEF Buffers, IngressType
  <2>4. ingress.pending \o <<>> = ingress.pending /\ <<>> \o ingress.pending = ingress.pending
    BY <2>3, ConcatEmptySeq
  <2>5. ingress'.batch \o ingress'.pending = ingress.batch \o ingress.pending
    BY <2>1, <2>2, <2>3, <2>4
  <2>6. BufferPutOnce'
    BY <2>1, <2>5 DEF Buffers, BufferPutOnce
  <2>7. s'.kind = "udp" => ingress'.batch = <<>> /\ ingress'.pending = <<>>
    BY <1>1, <2>1, <2>2 DEF Buffers
  <2>8. Ascending(ingress'.batch \o ingress'.pending, reader'.handled)
    BY <1>1, <2>5 DEF Buffers
  <2> QED
    BY <1>1, <1>w, <2>1, <2>6, <2>7, <2>8 DEF Buffers
<1> QED
  BY <1>2, <1>3, <1>4 DEF IngressStep, IngressRun

\* close() drains the queue.
LEMMA BuffersDrain == ASSUME TypeOK, TypeOK', Control, Buffers, CloseDrain PROVE Buffers'
<1>0. ingress \in IngressType
  BY DEF TypeOK
<1>1. /\ ingress.batch \in Seq(Nat) /\ ingress.pending \in Seq(Nat) /\ reader.handled \in Nat
      /\ Queued \in Seq(Nat) /\ ToSet(Queued) = ToSet(ingress.batch) \cup ToSet(ingress.pending)
      /\ ToSet(Queued) \subseteq 1..reader.handled
      /\ ToSet(ingress.batch) \cap ToSet(ingress.pending) = {}
  BY QueuedFacts
<1>2. /\ Put(ToSet(ingress.pending)) /\ UNCHANGED <<s, reader>> /\ ingress'.batch = ingress.batch
      /\ ingress'.writing = ingress.writing /\ ingress'.pc = ingress.pc
  BY <1>0 DEF CloseDrain, IngressType
<1>3. ingress'.pending = <<>>
  BY <1>0 DEF CloseDrain, IngressType
<1>4. Queued' = ingress.batch
  <2>1. ingress.batch \o <<>> = ingress.batch
    BY <1>1, ConcatEmptySeq
  <2> QED
    BY <1>2, <1>3, <2>1 DEF Queued
<1>5. PutsOK'
  <2>1. ToSet(Queued)' = ToSet(ingress.batch)
    BY <1>4
  <2> QED
    BY <1>1, <1>2, <2>1, PutsReleased
<1>6. Ascending(ingress.batch, reader.handled)
  BY <1>1, AscendingConcat DEF Buffers
<1>7. Ascending(Queued', reader.handled)
  BY <1>4, <1>6
<1> QED
  BY <1>2, <1>3, <1>5, <1>7 DEF Buffers, Queued, PutsOK

\* Every step keeps the buffers accounted for.
LEMMA BuffersStep == TypeOK /\ TypeOK' /\ Control /\ Buffers /\ [Next]_vars => Buffers'
<1> SUFFICES ASSUME TypeOK, TypeOK', Control, Buffers, [Next]_vars PROVE Buffers'
  OBVIOUS
<1>0. s \in StreamType /\ ingress \in IngressType /\ reader \in ReaderType
  BY DEF TypeOK
<1>1. CASE \/ ClientSend \/ ClientContinue \/ ConnectionClose \/ ConnBreak \/ UNCHANGED vars
           \/ CloseSignal \/ CloseDelete \/ CloseConn \/ CloseIngress \/ CloseSend
  <2>1. /\ UNCHANGED <<ingress, puts>> /\ s'.kind = s.kind
        /\ reader'.handled = reader.handled /\ reader'.pc = reader.pc
    BY <1>0, <1>1 DEF ClientSend, ClientContinue, ConnectionClose, ConnBreak, vars, CloseSignal,
                      CloseDelete, CloseConn, CloseIngress, CloseSend, StreamType, ReaderType
  <2> QED
    BY <2>1, BuffersSame
<1>2. CASE ConnectStep \/ ReadStep
  <2>1. UNCHANGED <<reader, ingress, puts>>
    BY <1>2 DEF ConnectStep, ConnectRun, ReadStep, ConnectRefuse, ConnectAdmit, DialOk, DialError,
           SignatureMatch, SignatureClose, SignatureCloseAll, Confirm, DrainEarly, FlushCheck, FlushWrite, FlushError,
           ActivateIngress, SignalConnReady, ConnectReturn, ReadData, ReadStopped, ReadEnd
  <2>2. CASE ConnectCloses
    <3>1. Close("connect")
      BY <2>2 DEF ConnectCloses, ConnectRefuse, DialError, SignatureClose, FlushError, ReadEnd
    <3> QED
      BY <2>1, <3>1, CloseFacts, BuffersSame
  <2>3. CASE ~ConnectCloses
    <3>1. s'.kind = s.kind
      BY <1>0, <1>2, <2>3
         DEF ConnectStep, ConnectRun, ReadStep, ConnectCloses, ConnectAdmit, DialOk, SignatureMatch,
             SignatureCloseAll, Confirm, DrainEarly, FlushCheck, FlushWrite,
             ActivateIngress, SignalConnReady, ConnectReturn, ReadData, ReadStopped, StreamType
    <3> QED
      BY <2>1, <3>1, BuffersSame
  <2> QED
    BY <2>2, <2>3
<1>3. CASE CloseByClient
  <2>1. UNCHANGED <<reader, ingress, puts>> /\ s'.kind = s.kind
    BY <1>3, CloseFacts DEF CloseByClient
  <2> QED
    BY <2>1, BuffersSame
<1>4. CASE IngressClose
  <2>1. UNCHANGED <<reader, puts>> /\ s'.kind = s.kind
    BY <1>4, CloseFacts DEF IngressClose
  <2>2. /\ ingress'.batch = ingress.batch /\ ingress'.pending = ingress.pending
        /\ ingress'.writing = ingress.writing /\ ingress'.pc = ingress.pc
    BY <1>0, <1>4 DEF IngressClose, IngressType
  <2> QED
    BY <2>1, <2>2, BuffersSame
<1> QED
  BY <1>1, <1>2, <1>3, <1>4, BuffersReader, BuffersIngress, BuffersDrain DEF Next, CloseStep

\* Before the first packet nothing is queued or put back.
LEMMA BuffersInit == Init => Buffers
<1> SUFFICES ASSUME Init PROVE Buffers
  OBVIOUS
<1>1. ingress.pc = "none" /\ (\A n \in Packets : puts[n] = 0)
  BY DEF Init
<1>2. ingress.batch = <<>> /\ ingress.pending = <<>>
  BY DEF Init
<1>3. ingress.batch \o ingress.pending = <<>>
  BY <1>2, NilType, ConcatEmptySeq DEF Nil
<1> QED
  BY <1>1, <1>2, <1>3, AscendingNil DEF Buffers, BufferPutOnce

\* A packet's buffer goes back to its pool at most once, and never while the
\* ingress queue or batch still has to write from it, whichever of the reader,
\* the ingress writer and close() puts it back.
THEOREM BuffersArePutOnce == Spec => []BufferPutOnce
<1>1. Buffers => BufferPutOnce
  BY DEF Buffers
<1> QED
  BY <1>1, TypeInit, TypeStep, ControlInit, ControlStep, BuffersInit, BuffersStep, PTL DEF Spec

-----------------------------------------------------------------------------
(* The order of the packets.                                               *)

\* The pipeline, part by part.
Pipe(a, e, b, p) == a \o e \o b \o p

\* It is a sequence of packets.
LEMMA PipeType ==
    ASSUME NEW a \in Seq(Nat), NEW e \in Seq(Nat), NEW b \in Seq(Nat), NEW p \in Seq(Nat)
    PROVE  Pipe(a, e, b, p) \in Seq(Nat)
<1>1. a \o e \in Seq(Nat)
  BY ConcatFacts
<1>2. (a \o e) \o b \in Seq(Nat)
  BY <1>1, ConcatFacts
<1>3. ((a \o e) \o b) \o p \in Seq(Nat)
  BY <1>2, ConcatFacts
<1> QED
  BY <1>3 DEF Pipe

\* The pipeline while the ingress queue is empty.
LEMMA PipeFlush ==
    ASSUME NEW a \in Seq(Nat), NEW e \in Seq(Nat)
    PROVE  Pipe(a, e, Nil, Nil) = a \o e
<1>1. a \o e \in Seq(Nat)
  BY ConcatFacts
<1>2. (a \o e) \o <<>> = a \o e
  BY <1>1, ConcatEmptySeq
<1> QED
  BY <1>2 DEF Pipe, Nil

\* The pipeline once the early data is flushed.
LEMMA PipeQueue ==
    ASSUME NEW a \in Seq(Nat), NEW b \in Seq(Nat), NEW p \in Seq(Nat)
    PROVE  Pipe(a, Nil, b, p) = (a \o b) \o p /\ a \o b \in Seq(Nat)
<1>1. a \o <<>> = a
  BY ConcatEmptySeq
<1>2. a \o b \in Seq(Nat)
  BY ConcatFacts
<1> QED
  BY <1>1, <1>2 DEF Pipe, Nil

\* The pipeline while the ingress writer has no batch either.
LEMMA PipeWritten ==
    ASSUME NEW a \in Seq(Nat), NEW p \in Seq(Nat)
    PROVE  Pipe(a, Nil, Nil, p) = a \o p
<1>1. a \o <<>> = a
  BY ConcatEmptySeq
<1> QED
  BY <1>1 DEF Pipe, Nil

\* The first of the early packets moves to the end of those written.
LEMMA MoveHead ==
    ASSUME NEW a \in Seq(Nat), NEW e \in Seq(Nat), e # <<>>
    PROVE  /\ Append(a, Head(e)) \o Tail(e) = a \o e
           /\ Append(a, Head(e)) \in Seq(Nat) /\ Tail(e) \in Seq(Nat)
<1> DEFINE h == Head(e)
           t == Tail(e)
           u == <<h>>
<1>1. h \in Nat /\ t \in Seq(Nat) /\ Len(t) = Len(e) - 1 /\ \A i \in 1..Len(t) : t[i] = e[i + 1]
  BY HeadTailProperties
<1>2. u \in Seq(Nat) /\ Len(u) = 1 /\ u[1] = e[1] /\ Len(e) \in Nat /\ Len(e) > 0
  BY <1>1
<1>3. Append(a, h) = a \o u /\ Append(a, h) \in Seq(Nat)
  BY <1>1, AppendIsConcat
<1> HIDE DEF h, t, u
<1>a. u \in Seq(Nat) /\ t \in Seq(Nat)
  BY <1>1, <1>2
<1>4. u \o t = e
  <2>1. /\ u \o t \in Seq(Nat) /\ Len(u \o t) = Len(u) + Len(t)
        /\ (\A i \in 1..Len(u) : (u \o t)[i] = u[i])
        /\ (\A i \in 1..Len(t) : (u \o t)[Len(u) + i] = t[i])
    BY <1>a, ConcatFacts
  <2> DEFINE c == u \o t
  <2>2. c \in Seq(Nat) /\ Len(c) = Len(e) /\ c[1] = e[1] /\ \A i \in 1..Len(t) : c[1 + i] = e[i + 1]
    BY <1>1, <1>2, <2>1, SMTT(30)
  <2> HIDE DEF c
  <2>3. ASSUME NEW i \in 1..Len(c) PROVE c[i] = e[i]
    <3>1. CASE i = 1
      BY <2>2, <3>1
    <3>2. CASE i # 1
      <4>1. i - 1 \in 1..Len(t) /\ 1 + (i - 1) = i /\ (i - 1) + 1 = i
        BY <1>1, <1>2, <2>2, <3>2
      <4> QED
        BY <2>2, <4>1
    <3> QED
      BY <3>1, <3>2
  <2>4. c = e
    BY <2>2, <2>3, SeqEqual
  <2> QED
    BY <2>4 DEF c
<1>5. (a \o u) \o t = a \o (u \o t)
  BY <1>a, ConcatAssociative, SMTT(30)
<1>6. Append(a, h) \o t = a \o e
  BY <1>3, <1>4, <1>5
<1> QED
  BY <1>1, <1>3, <1>6 DEF h, t

\* Packets lost from the middle leave the others in order.
LEMMA AscendingPrefix ==
    ASSUME NEW a \in Seq(Nat), NEW c \in Seq(Nat), NEW p \in Seq(Nat), NEW n \in Nat,
           Len(c) <= Len(a), \A i \in 1..Len(c) : c[i] = a[i],
           Ascending(a \o p, n)
    PROVE  Ascending(c \o p, n)
<1>1. /\ Ascending(a, n) /\ Ascending(p, n)
      /\ \A i \in 1..Len(a), j \in 1..Len(p) : a[i] < p[j]
  BY AscendingConcat
<1>2. Len(a) \in Nat /\ Len(c) \in Nat
  OBVIOUS
<1>3. \A i \in 1..Len(c) : i \in 1..Len(a)
  BY <1>2
<1>4. Ascending(c, n)
  BY <1>1, <1>3 DEF Ascending
<1>5. \A i \in 1..Len(c), j \in 1..Len(p) : c[i] < p[j]
  BY <1>1, <1>3
<1> QED
  BY <1>1, <1>4, <1>5, AscendingConcat

\* A failed write got as far as the k-th packet of the batch.
LEMMA AscendingCut ==
    ASSUME NEW a \in Seq(Nat), NEW b \in Seq(Nat), NEW p \in Seq(Nat), NEW n \in Nat,
           NEW k \in Nat, k <= Len(b), Ascending((a \o b) \o p, n)
    PROVE  /\ Ascending((a \o SubSeq(b, 1, k)) \o p, n)
           /\ a \o SubSeq(b, 1, k) \in Seq(Nat)
<1> DEFINE d == SubSeq(b, 1, k)
<1>1. /\ d \in Seq(Nat) /\ Len(d) = k /\ \A i \in 1..k : d[i] = b[i]
  OBVIOUS
<1> HIDE DEF d
<1>2. /\ a \o b \in Seq(Nat) /\ Len(a) \in Nat /\ Len(b) \in Nat /\ Len(a \o b) = Len(a) + Len(b)
      /\ (\A i \in 1..Len(a) : (a \o b)[i] = a[i])
      /\ (\A i \in 1..Len(b) : (a \o b)[Len(a) + i] = b[i])
  BY ConcatFacts
<1>3. /\ a \o d \in Seq(Nat) /\ Len(a \o d) = Len(a) + Len(d)
      /\ (\A i \in 1..Len(a) : (a \o d)[i] = a[i])
      /\ (\A i \in 1..Len(d) : (a \o d)[Len(a) + i] = d[i])
  BY <1>1, ConcatFacts
<1> DEFINE x == a \o b
           y == a \o d
<1>4. ASSUME NEW i \in 1..Len(y) PROVE y[i] = x[i]
  <2> HIDE DEF x, y
  <2>1. CASE i <= Len(a)
    <3>1. i \in 1..Len(a)
      BY <1>2, <2>1
    <3> QED
      BY <1>2, <1>3, <3>1 DEF x, y
  <2>2. CASE ~(i <= Len(a))
    <3>0. i \in 1..(Len(a) + k)
      BY <1>1, <1>3 DEF y
    <3>1. /\ i - Len(a) \in 1..k /\ i - Len(a) \in 1..Len(b) /\ Len(a) + (i - Len(a)) = i
      BY <1>2, <2>2, <3>0
    <3> QED
      BY <1>1, <1>2, <1>3, <3>1 DEF x, y
  <2> QED
    BY <2>1, <2>2
<1>5. Len(y) <= Len(x)
  BY <1>1, <1>2, <1>3
<1>6. x \in Seq(Nat) /\ y \in Seq(Nat) /\ Ascending(x \o p, n)
  BY <1>2, <1>3
<1> HIDE DEF x, y
<1>7. Ascending(y \o p, n)
  BY <1>4, <1>5, <1>6, AscendingPrefix
<1> QED
  BY <1>3, <1>7 DEF y, d

\* The parts of the pipeline are sequences of packets.
LEMMA PartTypes ==
    ASSUME TypeOK
    PROVE  /\ upstream \in Seq(Nat) /\ connect.early \in Seq(Nat)
           /\ ingress.batch \in Seq(Nat) /\ ingress.pending \in Seq(Nat)
           /\ pendingData \in Seq(Nat) /\ reader.handled \in Nat
           /\ Pipeline = Pipe(upstream, connect.early, ingress.batch, ingress.pending)
           /\ Pipeline \in Seq(Nat)
<1>1. /\ upstream \in Seq(Nat) /\ connect.early \in Seq(Nat)
      /\ ingress.batch \in Seq(Nat) /\ ingress.pending \in Seq(Nat)
      /\ pendingData \in Seq(Nat) /\ reader.handled \in Nat
  BY DEF TypeOK, ConnectType, IngressType, ReaderType
<1>2. Pipeline = Pipe(upstream, connect.early, ingress.batch, ingress.pending)
  BY DEF Pipeline, Pipe
<1> QED
  BY <1>1, <1>2, PipeType

\* The states in which no packet may be lost.
Lossless == ~connClosed /\ (s.conn = "broken" => connect.pc \in BeforeDrain)

\* A step that moves packets along the pipeline only, or none.
LEMMA OrderSame ==
    ASSUME TypeOK, Order, s.isOpen, Routes', Lossless' => Lossless,
           Pipeline' = Pipeline, pendingData' = pendingData, reader'.handled = reader.handled
    PROVE  Order'
<1>1. /\ Ascending(Pipeline, reader.handled) /\ Ascending(pendingData, reader.handled)
      /\ Lossless => 1..reader.handled = ToSet(Pipeline) \cup ToSet(pendingData)
  BY DEF Order, Complete, Lossless
<1>2. Ascending(Pipeline', reader'.handled) /\ Ascending(pendingData', reader'.handled)
  BY <1>1
<1>3. Lossless' => 1..reader'.handled = ToSet(Pipeline)' \cup ToSet(pendingData)'
  BY <1>1
<1> QED
  BY <1>2, <1>3 DEF Order, Complete, Lossless

\* The pipeline does not change when its parts do not.
LEMMA PipelineSame ==
    ASSUME upstream' = upstream, connect'.early = connect.early, ingress'.batch = ingress.batch,
           ingress'.pending = ingress.pending
    PROVE  Pipeline' = Pipeline
BY DEF Pipeline

\* The reader is done with a packet that went to the end of the pipeline.
LEMMA OrderAppends ==
    ASSUME TypeOK, Order, s.isOpen, Routes', Lossless' => Lossless, Finish,
           \/ Pipeline' = Append(Pipeline, Packet) /\ pendingData' = pendingData
           \/ Pipeline' = Pipeline /\ pendingData' = Append(pendingData, Packet)
    PROVE  Order'
<1>0. /\ Pipeline \in Seq(Nat) /\ pendingData \in Seq(Nat) /\ reader.handled \in Nat
  BY PartTypes
<1>1. /\ Ascending(Pipeline, reader.handled) /\ Ascending(pendingData, reader.handled)
      /\ Lossless => 1..reader.handled = ToSet(Pipeline) \cup ToSet(pendingData)
  BY DEF Order, Complete, Lossless
<1>2. Packet = reader.handled + 1 /\ reader'.handled = Packet /\ Packet \in Nat
  BY FinishType
<1>3. /\ Ascending(Pipeline, Packet) /\ Ascending(pendingData, Packet)
  BY <1>0, <1>1, <1>2, AscendingWeaken
<1>4. /\ Ascending(Append(Pipeline, Packet), Packet) /\ Ascending(Append(pendingData, Packet), Packet)
  BY <1>0, <1>1, <1>2, AscendingAppend
<1>5. Ascending(Pipeline', reader'.handled) /\ Ascending(pendingData', reader'.handled)
  BY <1>2, <1>3, <1>4
<1>6. /\ ToSet(Append(Pipeline, Packet)) = ToSet(Pipeline) \cup {Packet}
      /\ ToSet(Append(pendingData, Packet)) = ToSet(pendingData) \cup {Packet}
  BY <1>0, <1>2, ToSetAppend
<1>7. ToSet(Pipeline)' \cup ToSet(pendingData)' = (ToSet(Pipeline) \cup ToSet(pendingData)) \cup {Packet}
  BY <1>6
<1>8. 1..Packet = 1..reader.handled \cup {Packet}
  BY <1>0, <1>2
<1>9. Lossless' => 1..reader'.handled = ToSet(Pipeline)' \cup ToSet(pendingData)'
  BY <1>1, <1>2, <1>7, <1>8
<1> QED
  BY <1>5, <1>9 DEF Order, Complete, Lossless

\* close() runs, or has been called: nothing is promised any more.
LEMMA OrderClosed == ASSUME s'.isOpen = FALSE PROVE Order'
BY DEF Order

\* The steps of handleConnect.
LEMMA OrderConnect == ASSUME TypeOK, TypeOK', Control, Order, ConnectStep \/ ReadStep PROVE Order'
<1>0. s \in StreamType /\ connect \in ConnectType
  BY DEF TypeOK
<1>1. CASE ConnectCloses
  <2>1. Close("connect")
    BY <1>1 DEF ConnectCloses, ConnectRefuse, DialError, SignatureClose, FlushError, ReadEnd
  <2> QED
    BY <2>1, CloseFacts, OrderClosed
<1>2. CASE ~ConnectCloses /\ ~s.isOpen
  <2>1. s'.isOpen = s.isOpen
    BY <1>0, <1>2
       DEF ConnectStep, ConnectRun, ReadStep, ConnectCloses, ConnectAdmit, DialOk, SignatureMatch,
           SignatureCloseAll, Confirm, DrainEarly, FlushCheck, FlushWrite,
           ActivateIngress, SignalConnReady, ConnectReturn, ReadData, ReadStopped, StreamType
  <2> QED
    BY <1>2, <2>1 DEF Order
<1>3. CASE ~ConnectCloses /\ s.isOpen
  <2>0. OpenControl /\ Routes
    BY <1>3 DEF Control, Order
  <2>1. CASE DrainEarly
    <3>1. /\ connect.pc = "drain" /\ connect'.pc = "flush" /\ connect'.early = pendingData
          /\ UNCHANGED <<s, reader, ingress, connClosed, upstream>>
      BY <1>0, <2>1 DEF DrainEarly, ConnectType
    <3>2. pendingData' = <<>>
      BY <2>1 DEF DrainEarly
    <3>3. /\ upstream = <<>> /\ connect.early = <<>> /\ ingress.batch = <<>> /\ ingress.pending = <<>>
          /\ s.connReadyDone = FALSE
      BY <1>0, <2>0, <3>1 DEF Routes, OpenControl, BeforeDrain, StreamType
    <3>4. /\ pendingData \in Seq(Nat) /\ upstream \in Seq(Nat) /\ connect.early \in Seq(Nat)
          /\ ingress.batch \in Seq(Nat) /\ ingress.pending \in Seq(Nat) /\ reader.handled \in Nat
          /\ Pipeline = Pipe(upstream, connect.early, ingress.batch, ingress.pending)
      BY PartTypes
    <3>5. Pipeline' = Pipe(upstream, pendingData, ingress.batch, ingress.pending)
      BY <3>1 DEF Pipeline, Pipe
    <3>6. Pipeline' = upstream \o pendingData
      <4>1. Pipeline' = Pipe(upstream, pendingData, Nil, Nil)
        BY <3>3, <3>5 DEF Nil
      <4> QED
        BY <3>4, <4>1, PipeFlush
    <3>7. Pipeline' = pendingData
      BY <3>3, <3>4, <3>6, ConcatEmptySeq
    <3>8. Pipeline = <<>>
      <4>0. Pipeline = Pipe(upstream, connect.early, Nil, Nil)
        BY <3>3, <3>4 DEF Nil
      <4>1. Pipeline = upstream \o connect.early
        BY <3>4, <4>0, PipeFlush
      <4>2. upstream \o <<>> = upstream
        BY <3>4, ConcatEmptySeq
      <4> QED
        BY <3>3, <4>1, <4>2
    <3>9. Routes'
      BY <3>1, <3>3 DEF Routes, BeforeDrain
    <3>10. Ascending(pendingData, reader.handled)
      BY <1>3 DEF Order
    <3>11. Ascending(Pipeline', reader'.handled) /\ Ascending(pendingData', reader'.handled)
      BY <3>1, <3>2, <3>7, <3>10, AscendingNil
    <3>12. Lossless' => Lossless
      BY <3>1 DEF Lossless, BeforeDrain
    <3>13. Lossless => 1..reader.handled = ToSet(pendingData)
      BY <1>3, <3>8, ToSetNil DEF Order, Complete, Lossless
    <3>14. Lossless' => 1..reader'.handled = ToSet(Pipeline)' \cup ToSet(pendingData)'
      BY <3>1, <3>2, <3>7, <3>12, <3>13, ToSetNil
    <3> QED
      BY <3>9, <3>11, <3>14 DEF Order, Complete, Lossless
  <2>2. CASE FlushWrite
    <3>1. /\ connect.pc = "write" /\ connect'.pc = "flush" /\ s.connReadyDone = FALSE
          /\ upstream' = Append(upstream, Head(connect.early))
          /\ UNCHANGED <<s, reader, ingress, connClosed, pendingData>>
      BY <1>0, <2>0, <2>2 DEF FlushWrite, ConnectType, OpenControl, StreamType
    <3>2. connect'.early = Tail(connect.early) /\ connect.early # <<>>
      BY <1>0, <2>2 DEF FlushWrite, ConnectType, TypeOK
    <3>3. ingress.batch = <<>> /\ ingress.pending = <<>>
      BY <2>0, <3>1 DEF Routes
    <3>4. /\ upstream \in Seq(Nat) /\ connect.early \in Seq(Nat)
          /\ ingress.batch \in Seq(Nat) /\ ingress.pending \in Seq(Nat)
          /\ Pipeline = Pipe(upstream, connect.early, ingress.batch, ingress.pending)
      BY PartTypes
    <3> DEFINE a == Append(upstream, Head(connect.early))
               t == Tail(connect.early)
    <3>5. a \o t = upstream \o connect.early /\ a \in Seq(Nat) /\ t \in Seq(Nat)
      BY <3>2, <3>4, MoveHead
    <3>6. Pipeline' = Pipe(a, t, ingress.batch, ingress.pending)
      BY <3>1, <3>2 DEF Pipeline, Pipe
    <3> HIDE DEF a, t
    <3>7. Pipeline' = a \o t /\ Pipeline = upstream \o connect.early
      <4>1. Pipeline = Pipe(upstream, connect.early, Nil, Nil) /\ Pipeline' = Pipe(a, t, Nil, Nil)
        BY <3>3, <3>4, <3>6 DEF Nil
      <4> QED
        BY <3>4, <3>5, <4>1, PipeFlush
    <3>8. Routes'
      BY <3>1, <3>3 DEF Routes, BeforeDrain
    <3>9. Lossless' => Lossless
      BY <3>1 DEF Lossless, BeforeDrain
    <3> QED
      BY <1>3, <3>1, <3>5, <3>7, <3>8, <3>9, OrderSame
  <2>3. CASE \/ ConnectAdmit \/ DialOk \/ SignatureMatch \/ SignatureCloseAll \/ Confirm \/ FlushCheck
             \/ ActivateIngress \/ SignalConnReady \/ ConnectReturn \/ ReadData \/ ReadStopped
    <3>1. /\ UNCHANGED <<reader, ingress, pendingData, upstream>> /\ connect'.early = connect.early
          /\ connClosed => connClosed'
      <4>1. CASE SignalConnReady
        BY <1>0, <4>1 DEF SignalConnReady, ConnectType
      <4>2. CASE ~SignalConnReady
        BY <1>0, <2>3, <4>2
           DEF ConnectAdmit, DialOk, SignatureMatch, SignatureCloseAll, Confirm, FlushCheck,
               ActivateIngress, ConnectReturn, ReadData, ReadStopped, ConnectTo, ConnectType
      <4> QED
        BY <4>1, <4>2
    <3>2. Pipeline' = Pipeline
      BY <3>1, PipelineSame
    <3>3. /\ ConnectAdmit => connect.pc = "admit" /\ connect'.pc = "dial" /\ s' = s
          /\ Confirm => connect.pc = "dialed" /\ connect'.pc = "drain" /\ s' = s
          /\ ReadStopped => connect.pc = "read" /\ connect'.pc = "return" /\ s' = s
          /\ ReadData => connect'.pc = connect.pc /\ s' = s
          /\ FlushCheck => connect.pc = "flush" /\ connect'.pc = "write" /\ s' = s
          /\ SignatureCloseAll => connect.pc = "sigCloseAll"
      BY <1>0, <1>3 DEF ConnectAdmit, Confirm, ReadStopped, ReadData, FlushCheck, SignatureCloseAll,
            ConnectTo, ConnectType
    <3>4. /\ DialOk => connect.pc = "dial" /\ connect'.pc = "dialed" /\ s'.connReadyDone = s.connReadyDone
                       /\ s.conn = "nil"
          /\ SignatureMatch => /\ connect.pc \in {"dial", "dialed"} /\ connect'.pc = "sigClose"
                               /\ s'.connReadyDone = s.connReadyDone
      BY <1>0, <2>0 DEF DialOk, SignatureMatch, ConnectTo, ConnectType, StreamType, OpenControl
    <3>5. /\ SignalConnReady => connect.pc = "signal" /\ connect'.pc = "read" /\ s'.conn = s.conn
                                /\ s'.connReadyDone
          /\ ConnectReturn => connect.pc = "return" /\ connect'.pc = "exit" /\ s'.conn = s.conn
                                /\ s'.connReadyDone
          /\ ActivateIngress => /\ connect.pc = "flush" /\ connect'.pc = "signal" /\ s'.conn = s.conn
                                /\ s'.connReadyDone = s.connReadyDone /\ connect.early = <<>>
      BY <1>0 DEF SignalConnReady, ConnectReturn, ActivateIngress, ConnectTo, ConnectType, StreamType
    <3>6. Routes'
      BY <2>0, <2>3, <3>1, <3>3, <3>4, <3>5 DEF Routes, OpenControl, BeforeDrain
    <3>7. Lossless' => Lossless
      BY <2>0, <2>3, <3>1, <3>3, <3>4, <3>5 DEF Lossless, OpenControl, BeforeDrain
    <3> QED
      BY <1>3, <3>1, <3>2, <3>6, <3>7, OrderSame
  <2> QED
    BY <1>3, <2>1, <2>2, <2>3 DEF ConnectStep, ConnectRun, ReadStep, ConnectCloses
<1> QED
  BY <1>1, <1>2, <1>3

\* The steps of the reader.
LEMMA OrderReader ==
    ASSUME TypeOK, TypeOK', Control, Buffers, Order, ReaderStep
    PROVE  Order'
<1>0. s \in StreamType /\ reader \in ReaderType /\ ingress \in IngressType
  BY DEF TypeOK
<1>q. upstream \in Seq(Nat) /\ ingress.batch \in Seq(Nat) /\ ingress.pending \in Seq(Nat)
  BY PartTypes
<1>p. /\ upstream \in Seq(Nat) /\ connect.early \in Seq(Nat) /\ reader.handled \in Nat
      /\ ingress.batch \in Seq(Nat) /\ ingress.pending \in Seq(Nat) /\ pendingData \in Seq(Nat)
      /\ Pipeline = Pipe(upstream, connect.early, ingress.batch, ingress.pending)
      /\ Pipeline \in Seq(Nat)
  BY PartTypes
<1>1. CASE DataEarlyFull \/ QueueFull \/ DirectError \/ ReaderEnd
  <2>1. Close("reader")
    BY <1>1 DEF DataEarlyFull, QueueFull, DirectError, ReaderEnd
  <2> QED
    BY <2>1, CloseFacts, OrderClosed
<1>2. CASE DataRefused \/ DataClosed \/ QueueRefused \/ DirectPanic
  <2>1. ~s.isOpen
    BY <1>2 DEF DataRefused, DataClosed, QueueRefused, DirectPanic, Control, OpenControl, Listed
  <2>2. s' = s
    BY <1>2 DEF DataRefused, DataClosed, QueueRefused, DirectPanic
  <2> QED
    BY <2>1, <2>2 DEF Order
<1>3. CASE DataFound \/ DataFill \/ DataOpen \/ DataOfOther \/ DataReady \/ QueueChecked
  <2>1. /\ UNCHANGED <<s, connect, pendingData, ingress, connClosed, upstream>>
        /\ reader'.handled = reader.handled
    BY <1>0, <1>3 DEF DataFound, DataFill, DataOpen, DataOfOther, DataReady, QueueChecked, ReaderTo,
                      ReaderType
  <2>2. Pipeline' = Pipeline
    BY <2>1, PipelineSame
  <2>3. s.isOpen => Routes' /\ (Lossless' => Lossless)
    BY <2>1 DEF Order, Routes, Lossless, BeforeDrain
  <2> QED
    BY <2>1, <2>2, <2>3, OrderSame DEF Order
<1>4. CASE DataStopped
  <2>1. /\ UNCHANGED <<s, connect, pendingData, ingress, connClosed, upstream>> /\ connClosed /\ Finish
    BY <1>4 DEF DataStopped, Drop
  <2>2. Pipeline' = Pipeline
    BY <2>1, PipelineSame
  <2>3. reader'.handled = reader.handled + 1
    BY <2>1, FinishType
  <2>4. ASSUME s.isOpen PROVE Order'
    <3>1. Routes /\ Ascending(Pipeline, reader.handled) /\ Ascending(pendingData, reader.handled)
      BY <2>4 DEF Order
    <3>2. Ascending(Pipeline, reader.handled + 1) /\ Ascending(pendingData, reader.handled + 1)
      BY <1>p, <3>1, AscendingWeaken
    <3>3. Routes'
      BY <2>1, <3>1 DEF Routes, BeforeDrain
    <3>4. Ascending(Pipeline', reader'.handled) /\ Ascending(pendingData', reader'.handled)
      BY <2>1, <2>2, <2>3, <3>2
    <3> QED
      BY <2>1, <3>3, <3>4 DEF Order, Complete
  <2> QED
    BY <2>1, <2>4 DEF Order
<1>5. CASE DataEarly
  <2>1. /\ UNCHANGED <<s, connect, ingress, connClosed, upstream>> /\ Finish
        /\ pendingData' = Append(pendingData, Packet)
    BY <1>5 DEF DataEarly, Drop
  <2>2. Pipeline' = Pipeline
    BY <2>1, PipelineSame
  <2>3. s.isOpen => Routes' /\ (Lossless' => Lossless)
    BY <2>1 DEF Order, Routes, Lossless, BeforeDrain
  <2> QED
    BY <2>1, <2>2, <2>3, OrderAppends DEF Order
<1>6. CASE Enqueue /\ ~s.isOpen
  BY <1>6 DEF Enqueue, Order
<1>7. CASE Enqueue /\ s.isOpen
  <2>0. OpenControl /\ Routes
    BY <1>7 DEF Control, Order
  <2>1. /\ UNCHANGED <<s, connect, pendingData, connClosed, upstream>> /\ Finish
        /\ ingress'.batch = ingress.batch /\ reader.pc = "enqueue"
    BY <1>0, <1>7 DEF Enqueue, IngressType
  <2>2. ingress'.pending = Append(ingress.pending, Packet)
    BY <1>0, <1>7 DEF Enqueue, IngressType
  <2>3. Packet \in Nat
    BY <2>1, FinishType
  <2>4. s.connReadyDone /\ connect.early = <<>>
    BY <2>0, <2>1 DEF OpenControl, Routes
  <2>5. Pipeline' = Append(Pipeline, Packet)
    <3> DEFINE q == Append(ingress.pending, Packet)
               u == upstream \o ingress.batch
    <3>1. q \in Seq(Nat)
      BY <1>p, <2>3
    <3>2. Pipeline = Pipe(upstream, Nil, ingress.batch, ingress.pending)
      BY <1>p, <2>4 DEF Nil
    <3>3. Pipeline' = Pipe(upstream, Nil, ingress.batch, q)
      BY <2>1, <2>2, <2>4 DEF Pipeline, Pipe, Nil
    <3> HIDE DEF q
    <3>4. Pipeline = u \o ingress.pending /\ Pipeline' = u \o q /\ u \in Seq(Nat)
      <4>1. /\ Pipe(upstream, Nil, ingress.batch, ingress.pending) = u \o ingress.pending
            /\ u \in Seq(Nat)
        BY <1>q, PipeQueue
      <4>2. Pipe(upstream, Nil, ingress.batch, q) = u \o q
        BY <1>p, <3>1, PipeQueue, ZenonT(40)
      <4> QED
        BY <3>2, <3>3, <4>1, <4>2
    <3> HIDE DEF u
    <3>5. u \o Append(ingress.pending, Packet) = Append(u \o ingress.pending, Packet)
      BY <1>p, <2>3, <3>4, AppendAfter
    <3> QED
      BY <3>4, <3>5 DEF q
  <2>6. Routes' /\ (Lossless' => Lossless)
    BY <2>0, <2>1, <2>4 DEF Routes, Lossless, BeforeDrain
  <2> QED
    BY <1>7, <2>1, <2>5, <2>6, OrderAppends
<1>8. CASE DirectWrite /\ ~s.isOpen
  BY <1>8 DEF DirectWrite, Order
<1>9. CASE DirectWrite /\ s.isOpen
  <2>0. OpenControl /\ Routes
    BY <1>9 DEF Control, Order
  <2>1. /\ UNCHANGED <<s, connect, pendingData, ingress, connClosed>> /\ Finish
        /\ upstream' = Append(upstream, Packet) /\ reader.pc = "direct"
    BY <1>9 DEF DirectWrite, Drop
  <2>2. Packet \in Nat
    BY <2>1, FinishType
  <2>3. /\ s.connReadyDone /\ connect.pc \in {"read", "return", "exit"} /\ connect.early = <<>>
        /\ ingress.batch = <<>> /\ ingress.pending = <<>>
    BY <2>0, <2>1 DEF OpenControl, Routes, Buffers
  <2>4. Pipeline' = Append(Pipeline, Packet)
    <3> DEFINE v == Append(upstream, Packet)
    <3>1. v \in Seq(Nat)
      BY <1>p, <2>2
    <3>2. Pipeline = Pipe(upstream, Nil, Nil, Nil)
      BY <1>p, <2>3 DEF Nil
    <3>3. Pipeline' = Pipe(v, Nil, Nil, Nil)
      BY <2>1, <2>3 DEF Pipeline, Pipe, Nil
    <3> HIDE DEF v
    <3>4. Pipeline = upstream \o Nil /\ Pipeline' = v \o Nil
      BY <1>p, <3>1, <3>2, <3>3, NilType, PipeFlush
    <3>5. upstream \o Nil = upstream
      BY <1>p, ConcatEmptySeq DEF Nil
    <3>6. v \o Nil = v
      BY <3>1, ConcatEmptySeq DEF Nil
    <3> QED
      BY <3>4, <3>5, <3>6 DEF v
  <2>5. Routes' /\ (Lossless' => Lossless)
    BY <2>0, <2>1, <2>3 DEF Routes, Lossless, BeforeDrain
  <2> QED
    BY <1>9, <2>1, <2>4, <2>5, OrderAppends
<1> QED
  BY <1>1, <1>2, <1>3, <1>4, <1>5, <1>6, <1>7, <1>8, <1>9 DEF ReaderStep, ReaderRun

\* The steps of the ingress writer, which moves packets from the queue to its
\* batch and from there to the destination; only a failed write loses some.
LEMMA OrderIngress ==
    ASSUME TypeOK, TypeOK', Control, Buffers, Order, IngressStep
    PROVE  Order'
<1>0. s \in StreamType /\ ingress \in IngressType
  BY DEF TypeOK
<1>q. upstream \in Seq(Nat) /\ ingress.batch \in Seq(Nat) /\ ingress.pending \in Seq(Nat)
  BY PartTypes
<1>p. /\ upstream \in Seq(Nat) /\ connect.early \in Seq(Nat) /\ reader.handled \in Nat
      /\ ingress.batch \in Seq(Nat) /\ ingress.pending \in Seq(Nat) /\ pendingData \in Seq(Nat)
      /\ Pipeline = Pipe(upstream, connect.early, ingress.batch, ingress.pending)
  BY PartTypes
<1>s. /\ UNCHANGED <<s, closing, connect, pendingData, reader, connClosed>>
      /\ reader.pc # "panic"
  BY DEF IngressStep, IngressRun, IngressExit, IngressTake, IngressAbandon, IngressGo, IngressWrite,
         IngressError, IngressClear, Control
<1>1. CASE ~s.isOpen
  BY <1>1, <1>s DEF Order
<1>2. CASE s.isOpen /\ (IngressExit \/ IngressGo \/ IngressClear)
  <2>1. /\ upstream' = upstream /\ ingress'.batch = ingress.batch
        /\ ingress'.pending = ingress.pending
    BY <1>0, <1>2 DEF IngressExit, IngressGo, IngressClear, IngressType
  <2>2. Pipeline' = Pipeline
    BY <1>s, <2>1, PipelineSame
  <2>3. Routes' /\ (Lossless' => Lossless)
    BY <1>2, <1>s, <2>1 DEF Order, Routes, Lossless, BeforeDrain
  <2> QED
    BY <1>2, <1>s, <2>2, <2>3, OrderSame
<1>3. CASE s.isOpen /\ IngressTake
  <2>0. OpenControl /\ Routes
    BY <1>3 DEF Control, Order
  <2>1. /\ upstream' = upstream /\ ingress'.batch = ingress.pending /\ ingress.pc = "take"
        /\ ingress.pending # <<>>
    BY <1>0, <1>3 DEF IngressTake, IngressType
  <2>2. ingress'.pending = <<>>
    BY <1>0, <1>3 DEF IngressTake, IngressType
  <2>3. /\ ingress.batch = <<>> /\ s.connReadyDone /\ connect.early = <<>>
    BY <1>s, <2>0, <2>1 DEF Buffers, Routes, OpenControl
  <2>4. Pipeline' = Pipeline
    <3>1. Pipeline = Pipe(upstream, Nil, Nil, ingress.pending)
      BY <1>p, <2>3 DEF Nil
    <3>2. Pipeline' = Pipe(upstream, Nil, ingress.pending, Nil)
      BY <1>s, <2>1, <2>2, <2>3 DEF Pipeline, Pipe, Nil
    <3>3. Pipeline = upstream \o ingress.pending
      BY <1>q, <3>1, PipeWritten
    <3>4. Pipeline' = (upstream \o ingress.pending) \o Nil /\ upstream \o ingress.pending \in Seq(Nat)
      BY <1>p, <3>2, NilType, PipeQueue
    <3>5. (upstream \o ingress.pending) \o Nil = upstream \o ingress.pending
      BY <3>4, ConcatEmptySeq DEF Nil
    <3> QED
      BY <3>3, <3>4, <3>5
  <2>5. Routes' /\ (Lossless' => Lossless)
    BY <1>s, <2>0, <2>3 DEF Routes, OpenControl, Lossless, BeforeDrain
  <2> QED
    BY <1>3, <1>s, <2>4, <2>5, OrderSame
<1>4. CASE s.isOpen /\ IngressWrite
  <2>0. OpenControl /\ Routes
    BY <1>4 DEF Control, Order
  <2>1. /\ upstream' = upstream \o ingress.batch /\ ingress'.pending = ingress.pending
    BY <1>0, <1>4 DEF IngressWrite, IngressType
  <2>2. ingress'.batch = <<>>
    BY <1>0, <1>4 DEF IngressWrite, IngressType
  <2> DEFINE u == upstream \o ingress.batch
  <2>u. u \in Seq(Nat)
    BY <1>p, ConcatFacts
  <2>3. Pipeline' = Pipeline
    <3>1. CASE s.connReadyDone
      <4>1. connect.early = <<>>
        BY <2>0, <3>1 DEF Routes, OpenControl
      <4>2. Pipeline = Pipe(upstream, Nil, ingress.batch, ingress.pending)
        BY <1>p, <4>1 DEF Nil
      <4>3. Pipeline' = Pipe(u, Nil, Nil, ingress.pending)
        BY <1>s, <2>1, <2>2, <4>1 DEF Pipeline, Pipe, Nil
      <4>4. Pipeline = u \o ingress.pending
        BY <1>q, <4>2, PipeQueue
      <4> HIDE DEF u
      <4>5. Pipeline' = u \o ingress.pending
        BY <1>q, <2>u, <4>3, PipeWritten
      <4> QED
        BY <4>4, <4>5
    <3>2. CASE ~s.connReadyDone
      <4>1. ingress.batch = <<>>
        BY <2>0, <3>2 DEF Routes
      <4>2. upstream \o <<>> = upstream
        BY <1>p, ConcatEmptySeq
      <4>3. upstream' = upstream /\ ingress'.batch = ingress.batch
        BY <2>1, <2>2, <4>1, <4>2
      <4> QED
        BY <1>s, <2>1, <4>3, PipelineSame
    <3> QED
      BY <3>1, <3>2
  <2>4. Routes' /\ (Lossless' => Lossless)
    <3>1. s.conn = "open" /\ ingress.pc = "write"
      BY <1>4 DEF IngressWrite
    <3>2. ~s.connReadyDone => ingress.batch = <<>> /\ ingress.pending = <<>>
      BY <2>0 DEF Routes
    <3>3. ~s.connReadyDone => upstream' = upstream
      <4>1. upstream \o <<>> = upstream
        BY <1>p, ConcatEmptySeq
      <4> QED
        BY <2>1, <3>2, <4>1
    <3>4. s.connReadyDone => connect.pc \notin BeforeDrain
      BY <2>0 DEF OpenControl, BeforeDrain
    <3> QED
      BY <1>s, <2>0, <2>1, <2>2, <3>2, <3>3, <3>4 DEF Routes, Lossless, BeforeDrain
  <2> QED
    BY <1>4, <1>s, <2>3, <2>4, OrderSame
<1>5. CASE s.isOpen /\ IngressError
  <2>0. OpenControl /\ Routes /\ Ascending(Pipeline, reader.handled) /\ Ascending(pendingData, reader.handled)
    BY <1>5 DEF Control, Order
  <2>1. PICK k : k \in 0..(Len(ingress.batch) - 1) /\ upstream' = upstream \o SubSeq(ingress.batch, 1, k)
    BY <1>5 DEF IngressError
  <2>2. ingress'.pending = ingress.pending /\ s.conn # "open"
    BY <1>0, <1>5 DEF IngressError, IngressType
  <2>3. ingress'.batch = <<>>
    BY <1>0, <1>5 DEF IngressError, IngressType
  <2>4. k \in Nat /\ k <= Len(ingress.batch) /\ Len(ingress.batch) # 0
    BY <1>p, <2>1
  <2>5. ingress.batch # <<>>
    BY <2>4
  <2>6. s.connReadyDone /\ connect.early = <<>> /\ connect.pc \notin BeforeDrain
    BY <2>0, <2>5 DEF Routes, OpenControl, BeforeDrain
  <2>7. s.conn = "broken"
    BY <1>0, <2>0, <2>2, <2>6 DEF OpenControl, StreamType, BeforeDrain
  <2> DEFINE w == upstream \o SubSeq(ingress.batch, 1, k)
  <2>8. Pipeline = Pipe(upstream, Nil, ingress.batch, ingress.pending)
    BY <1>p, <2>6 DEF Nil
  <2>9. Pipeline = (upstream \o ingress.batch) \o ingress.pending
    BY <1>q, <2>8, PipeQueue
  <2>10. Ascending((upstream \o ingress.batch) \o ingress.pending, reader.handled)
    BY <2>0, <2>9
  <2>11. Ascending(w \o ingress.pending, reader.handled) /\ w \in Seq(Nat)
    BY <1>p, <2>4, <2>10, AscendingCut
  <2>12. Pipeline' = Pipe(w, Nil, Nil, ingress.pending)
    BY <1>s, <2>1, <2>2, <2>3, <2>6 DEF Pipeline, Pipe, Nil
  <2> HIDE DEF w
  <2>13. Pipeline' = w \o ingress.pending
    BY <1>q, <2>11, <2>12, PipeWritten
  <2>14. Ascending(Pipeline', reader'.handled) /\ Ascending(pendingData', reader'.handled)
    BY <1>s, <2>0, <2>11, <2>13
  <2>15. Routes'
    BY <1>s, <2>0, <2>6 DEF Routes, OpenControl, BeforeDrain
  <2>16. ~Lossless'
    BY <1>s, <2>6, <2>7 DEF Lossless
  <2> QED
    BY <2>14, <2>15, <2>16 DEF Order, Complete, Lossless
<1> QED
  BY <1>1, <1>2, <1>3, <1>4, <1>5 DEF IngressStep, IngressRun, IngressAbandon

\* Every step keeps an open stream's packets in order.
LEMMA OrderStep ==
    TypeOK /\ TypeOK' /\ Control /\ Buffers /\ Order /\ [Next]_vars => Order'
<1> SUFFICES ASSUME TypeOK, TypeOK', Control, Buffers, Order, [Next]_vars PROVE Order'
  OBVIOUS
<1>0. s \in StreamType
  BY DEF TypeOK
<1>1. CASE ClientSend \/ ClientContinue \/ ConnectionClose \/ ConnBreak \/ UNCHANGED vars
  <2>1. UNCHANGED <<connect, pendingData, reader, ingress, upstream>> /\ (connClosed => connClosed')
    BY <1>1 DEF ClientSend, ClientContinue, ConnectionClose, ConnBreak, vars
  <2>2. /\ s'.isOpen = s.isOpen /\ s'.connReadyDone = s.connReadyDone
        /\ s.conn = "broken" => s'.conn = "broken"
    BY <1>0, <1>1 DEF ClientSend, ClientContinue, ConnectionClose, ConnBreak, vars, StreamType
  <2>3. Pipeline' = Pipeline
    BY <2>1, PipelineSame
  <2>4. s.isOpen => Routes' /\ (Lossless' => Lossless)
    BY <2>1, <2>2 DEF Order, Routes, Lossless, BeforeDrain
  <2>5. CASE s.isOpen
    BY <2>1, <2>3, <2>4, <2>5, OrderSame
  <2>6. CASE ~s.isOpen
    BY <2>2, <2>6 DEF Order
  <2> QED
    BY <2>5, <2>6
<1>2. CASE CloseByClient \/ IngressClose
  <2>1. Close("goroutine") \/ Close("ingress")
    BY <1>2 DEF CloseByClient, IngressClose
  <2> QED
    BY <2>1, CloseFacts, OrderClosed
<1>3. CASE CloseStep
  <2>1. closing.pc # "idle"
    BY <1>3 DEF CloseStep, CloseSignal, CloseDelete, CloseConn, CloseIngress, CloseDrain, CloseSend
  <2>2. ~s.isOpen
    BY <2>1 DEF Control, OpenControl
  <2>3. s'.isOpen = s.isOpen
    BY <1>0, <1>3 DEF CloseStep, CloseSignal, CloseDelete, CloseConn, CloseIngress, CloseDrain, CloseSend, StreamType
  <2> QED
    BY <2>2, <2>3 DEF Order
<1> QED
  BY <1>1, <1>2, <1>3, OrderConnect, OrderReader, OrderIngress DEF Next

\* Before the first packet the pipeline is empty.
LEMMA OrderInit == Init => Order
<1> SUFFICES ASSUME Init PROVE Order
  OBVIOUS
<1>1. /\ upstream = <<>> /\ connect.early = <<>> /\ pendingData = <<>>
      /\ ingress.batch = <<>> /\ ingress.pending = <<>>
  BY DEF Init
<1>2. connect.pc = "admit" /\ reader.handled = 0
  BY DEF Init
<1>3. Pipeline = <<>>
  <2>1. Pipeline = Pipe(Nil, Nil, Nil, Nil)
    BY <1>1 DEF Pipeline, Pipe, Nil
  <2>2. Pipeline = Nil \o Nil
    BY <2>1, NilType, PipeFlush
  <2>3. Nil \o <<>> = Nil
    BY NilType, ConcatEmptySeq
  <2> QED
    BY <2>2, <2>3 DEF Nil
<1>4. Routes
  BY <1>1, <1>2 DEF Routes, BeforeDrain
<1>5. 1..reader.handled = {}
  BY <1>2
<1>6. ToSet(Pipeline) \cup ToSet(pendingData) = {}
  BY <1>1, <1>3, ToSetNil
<1>7. Ascending(Pipeline, reader.handled) /\ Ascending(pendingData, reader.handled)
  BY <1>1, <1>3, AscendingNil
<1> QED
  BY <1>4, <1>5, <1>6, <1>7 DEF Order, Complete

\* Of the early data only what came after the drain is left, and of an open stream that is ready
\* nothing that came later.
LeftOver ==
    /\ connect.drained <= reader.handled
    /\ \A i \in 1..Len(pendingData) : pendingData[i] > connect.drained
    /\ s.isOpen /\ s.connReadyDone =>
           \A i \in 1..Len(pendingData) : pendingData[i] <= connect.readied

\* The reader goes forward, and holds a packet only when it is done with it.
LEMMA LeftOverStep == TypeOK /\ Control /\ Order /\ LeftOver /\ [Next]_vars => LeftOver'
<1> SUFFICES ASSUME TypeOK, Control, Order, LeftOver, [Next]_vars PROVE LeftOver'
  OBVIOUS
<1>0. /\ connect \in ConnectType /\ reader \in ReaderType /\ pendingData \in Seq(Nat)
      /\ s \in StreamType /\ Packet \in Nat /\ Packet = reader.handled + 1
      /\ connect.drained \in Nat /\ connect.readied \in Nat /\ reader.handled \in Nat
  BY DEF TypeOK, ConnectType, ReaderType, Packet
<1>1. ASSUME pendingData' = pendingData, connect'.drained = connect.drained,
             connect'.readied = connect.readied, reader'.handled \in {reader.handled, Packet},
             s'.isOpen => s.isOpen /\ s'.connReadyDone = s.connReadyDone
      PROVE  LeftOver'
  BY <1>0, <1>1 DEF LeftOver
<1>c. ASSUME NEW p \in {"goroutine", "connect", "reader", "ingress"}, Close(p) PROVE s'.isOpen = FALSE
  BY <1>c, CloseFacts
<1>2. CASE DrainEarly
  <2>1. reader' = reader /\ connect'.drained = reader.handled /\ pendingData' = <<>>
    BY <1>0, <1>2 DEF DrainEarly, ConnectType
  <2> QED
    BY <1>0, <2>1 DEF LeftOver
<1>3. CASE DataEarly
  <2>1. /\ connect' = connect /\ pendingData' = Append(pendingData, Packet)
        /\ reader'.handled = Packet /\ s' = s /\ ~s.connReadyDone
    BY <1>0, <1>3 DEF DataEarly, Drop, Finish, ReaderType
  <2>2. \A i \in 1..Len(pendingData') : pendingData'[i] > connect.drained
    BY <1>0, <2>1 DEF LeftOver
  <2> QED
    BY <1>0, <2>1, <2>2 DEF LeftOver
<1>4. CASE SignalConnReady
  <2>1. /\ UNCHANGED <<pendingData, reader>> /\ connect'.drained = connect.drained
        /\ connect'.readied = reader.handled /\ s'.isOpen = s.isOpen
    BY <1>0, <1>4 DEF SignalConnReady, ConnectType, StreamType
  <2>2. s.isOpen => \A i \in 1..Len(pendingData) : pendingData[i] <= reader.handled
    BY <1>0 DEF Order, Ascending
  <2> QED
    BY <1>0, <2>1, <2>2 DEF LeftOver
<1>5. CASE ConnectReturn
  <2>1. /\ UNCHANGED <<pendingData, reader>> /\ connect'.drained = connect.drained
        /\ connect'.readied = connect.readied /\ s'.isOpen = s.isOpen /\ s'.connReadyDone
        /\ connect.pc = "return"
    BY <1>0, <1>5 DEF ConnectReturn, ConnectTo, ConnectType, StreamType
  <2>2. s.isOpen => s.connReadyDone
    BY <2>1 DEF Control, OpenControl, BeforeDrain
  <2> QED
    BY <1>0, <2>1, <2>2 DEF LeftOver
<1>6. CASE \/ ConnectAdmit \/ DialOk \/ SignatureMatch \/ SignatureCloseAll \/ Confirm \/ FlushCheck
           \/ FlushWrite \/ ActivateIngress \/ ReadData \/ ReadStopped
  <2>1. /\ UNCHANGED <<pendingData, reader>> /\ connect'.drained = connect.drained
        /\ connect'.readied = connect.readied /\ s'.isOpen = s.isOpen
        /\ s'.connReadyDone = s.connReadyDone
    <3>1. CASE ConnectAdmit \/ SignatureCloseAll \/ Confirm
      BY <1>0, <3>1 DEF ConnectAdmit, SignatureCloseAll, Confirm, ConnectTo, ConnectType
    <3>2. CASE DialOk \/ SignatureMatch \/ ActivateIngress
      BY <1>0, <3>2 DEF DialOk, SignatureMatch, ActivateIngress, ConnectTo, ConnectType, StreamType
    <3>3. CASE FlushCheck \/ FlushWrite \/ ReadData \/ ReadStopped
      BY <1>0, <3>3 DEF FlushCheck, FlushWrite, ReadData, ReadStopped, ConnectTo, ConnectType
    <3> QED
      BY <1>6, <3>1, <3>2, <3>3
  <2> QED
    BY <1>1, <2>1
<1>7. CASE CloseByClient \/ IngressClose \/ ConnectCloses
  <2>1. UNCHANGED <<pendingData, reader>> /\ connect'.drained = connect.drained
        /\ connect'.readied = connect.readied
    BY <1>0, <1>7 DEF CloseByClient, IngressClose, ConnectCloses, ConnectRefuse, DialError,
                      SignatureClose, FlushError, ReadEnd, ConnectTo, ConnectType
  <2>2. s'.isOpen = FALSE
    BY <1>7, <1>c DEF CloseByClient, IngressClose, ConnectCloses, ConnectRefuse, DialError,
                      SignatureClose, FlushError, ReadEnd
  <2> QED
    BY <1>1, <2>1, <2>2
<1>8. CASE DataEarlyFull \/ QueueFull \/ DirectError \/ ReaderEnd
  <2>1. UNCHANGED <<pendingData, connect>> /\ Close("reader")
    BY <1>8 DEF DataEarlyFull, QueueFull, DirectError, ReaderEnd
  <2>2. reader'.handled \in {reader.handled, Packet}
    BY <1>0, <1>8 DEF DataEarlyFull, QueueFull, DirectError, ReaderEnd, Drop, Finish, ReaderTo,
                      ReaderType
  <2> QED
    BY <1>1, <1>c, <2>1, <2>2
<1>9. CASE \/ DataRefused \/ DataFound \/ DataFill \/ DataClosed \/ DataOpen \/ DataStopped
           \/ DataReady \/ QueueRefused \/ QueueChecked \/ Enqueue \/ DirectPanic \/ DirectWrite
           \/ DataOfOther
  <2>1. /\ UNCHANGED <<pendingData, s>> /\ connect'.drained = connect.drained
        /\ connect'.readied = connect.readied
    BY <1>0, <1>9
       DEF DataRefused, DataFound, DataFill, DataClosed, DataOpen, DataStopped, DataReady,
           QueueRefused, QueueChecked, Enqueue, DirectPanic, DirectWrite, DataOfOther,
           ConnectTo, ConnectType
  <2>2. reader'.handled \in {reader.handled, Packet}
    BY <1>0, <1>9
       DEF DataRefused, DataFound, DataFill, DataClosed, DataOpen, DataStopped, DataReady,
           QueueRefused, QueueChecked, Enqueue, DirectPanic, DirectWrite, DataOfOther,
           Drop, Finish, ReaderTo, ReaderType
  <2> QED
    BY <1>1, <2>1, <2>2
<1>10. CASE CloseStep
  <2>1. /\ UNCHANGED <<pendingData, connect>> /\ reader'.handled = reader.handled
        /\ s'.isOpen = s.isOpen /\ closing.pc # "idle"
    BY <1>0, <1>10 DEF CloseStep, CloseSignal, CloseDelete, CloseConn, CloseIngress, CloseDrain,
                       CloseSend, ReaderType, StreamType
  <2>2. ~s.isOpen
    BY <2>1 DEF Control, OpenControl
  <2> QED
    BY <1>1, <2>1, <2>2
<1>11. CASE ClientSend \/ ClientContinue \/ ConnBreak \/ ConnectionClose \/ IngressStep \/ UNCHANGED vars
  <2>1. /\ UNCHANGED <<pendingData, connect, reader>> /\ s'.isOpen = s.isOpen
        /\ s'.connReadyDone = s.connReadyDone
    BY <1>0, <1>11
       DEF ClientSend, ClientContinue, ConnBreak, ConnectionClose, IngressStep, IngressRun,
           IngressExit, IngressTake, IngressAbandon, IngressGo, IngressWrite, IngressError,
           IngressClear, StreamType, vars
  <2> QED
    BY <1>1, <2>1
<1> QED
  BY <1>2, <1>3, <1>4, <1>5, <1>6, <1>7, <1>8, <1>9, <1>10, <1>11
     DEF Next, ConnectStep, ConnectRun, ConnectCloses, ReadStep, ReaderStep, ReaderRun

\* For every number of packets and every bound on the queues: while a stream is open its packets
\* reach the destination in the order the client sent them, by whichever of the three routes; and
\* while the socket works, each one is written or on its way that the reader was done with before
\* the early data was drained or after the stream was signalled ready. What it holds as early data
\* in between is not: it stays in pendingData.
THEOREM DataIsInOrder == Spec => []DeliveredInOrder
<1>1. Init => LeftOver
  <2> SUFFICES ASSUME Init PROVE LeftOver
    OBVIOUS
  <2>1. connect.drained = 0 /\ reader.handled = 0 /\ pendingData = <<>>
    BY DEF Init
  <2> QED
    BY <2>1 DEF LeftOver
<1>2. TypeOK /\ Order /\ LeftOver => DeliveredInOrder
  <2> SUFFICES ASSUME TypeOK, Order, LeftOver, s.isOpen
               PROVE  InOrder /\ (s.conn # "broken" /\ ~connClosed => NothingDropped)
    BY DEF DeliveredInOrder
  <2>1. InOrder
    BY DEF Order, Ascending, InOrder
  <2>2. pendingData \in Seq(Nat)
    BY DEF TypeOK
  <2>3. ToSet(pendingData) = Held
    BY <2>2, ToSetIs DEF LeftOver, Held
  <2> QED
    BY <2>1, <2>3 DEF Order, Complete, NothingDropped
<1> QED
  BY <1>1, <1>2, TypeInit, TypeStep, ControlInit, ControlStep, BuffersInit, BuffersStep,
     OrderInit, OrderStep, LeftOverStep, PTL DEF Spec
=============================================================================
