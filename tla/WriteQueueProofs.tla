-------------------------- MODULE WriteQueueProofs --------------------------
(***************************************************************************)
(* Theorems about WriteQueue, for any set of requests, sizes and limit.    *)
(***************************************************************************)
EXTENDS WriteQueue, SumTheorems, TLAPS

-----------------------------------------------------------------------------
(* Type correctness.                                                       *)

\* Answering some requests keeps every request's answers well typed.
LEMMA AnswerType ==
    ASSUME reply \in [Requests -> Seq({"ok", "err"})],
           NEW S, NEW e \in {"ok", "err"}
    PROVE  Answer(S, e) \in [Requests -> Seq({"ok", "err"})]
BY DEF Answer

\* Every step of the connection's goroutines keeps its state well typed.
LEMMA TypeStep == TypeOK /\ [Next]_vars => TypeOK'
<1> SUFFICES ASSUME TypeOK, [Next]_vars
             PROVE  TypeOK'
  OBVIOUS
<1> USE DEF TypeOK, SubmitPC, WriterPC, queueVars, writerVars
<1>1. CASE UNCHANGED vars
  BY <1>1 DEF vars
<1>2. CASE CloseBegin
  BY <1>2 DEF CloseBegin
<1>3. CASE CloseSocket
  BY <1>3 DEF CloseSocket
<1>4. CASE CloseDrain
  BY <1>4, AnswerType DEF CloseDrain
<1>5. CASE SockFail
  BY <1>5 DEF SockFail
<1>6. ASSUME NEW r \in Requests, SubmitStep(r)
      PROVE  TypeOK'
  <2>1. CASE SubmitClosed(r)
    BY <2>1, AnswerType DEF SubmitClosed
  <2>2. CASE SubmitCheck(r)
    BY <2>2 DEF SubmitCheck
  <2>3. CASE SubmitOverflow(r)
    BY <2>3, AnswerType DEF SubmitOverflow
  <2>4. CASE SubmitOverflowClose(r)
    BY <2>4 DEF SubmitOverflowClose, TryClose, isClosed
  <2>5. CASE SubmitEnqueue(r)
    BY <2>5 DEF SubmitEnqueue, StartWriter
  <2> QED
    BY <1>6, <2>1, <2>2, <2>3, <2>4, <2>5 DEF SubmitStep
<1>7. ASSUME NEW w \in Requests, WriterStep(w)
      PROVE  TypeOK'
  <2>1. CASE WriterExit(w)
    BY <2>1 DEF WriterExit
  <2>2. CASE WriterTake(w)
    BY <2>2 DEF WriterTake, TakeBatch
  <2>3. CASE WriterWrite(w)
    <3>1. batch[w][sent[w] + 1] \in Requests
      BY <2>3 DEF WriterWrite
    <3>2. wire' \in Seq(Requests)
      BY <2>3, <3>1 DEF WriterWrite
    <3>3. sent' = [sent EXCEPT ![w] = sent[w] + 1] /\ batch' = batch
      BY <2>3 DEF WriterWrite
    <3>4. sent' \in [Requests -> Nat]
      BY <3>3
    <3>5. ASSUME NEW v \in Requests
          PROVE  sent'[v] <= Len(batch'[v])
      <4>1. CASE v = w
        BY <2>3, <3>3, <4>1 DEF WriterWrite
      <4>2. CASE v # w
        BY <3>3, <4>2
      <4> QED
        BY <4>1, <4>2
    <3> QED
      BY <2>3, <3>2, <3>4, <3>5 DEF WriterWrite
  <2>4. CASE WriterError(w)
    BY <2>4, AnswerType DEF WriterError
  <2>5. CASE WriterDone(w)
    BY <2>5, AnswerType DEF WriterDone
  <2>6. CASE WriterClear(w)
    BY <2>6 DEF WriterClear
  <2>7. CASE WriterClose(w)
    BY <2>7 DEF WriterClose, TryClose, isClosed
  <2> QED
    BY <1>7, <2>1, <2>2, <2>3, <2>4, <2>5, <2>6, <2>7 DEF WriterStep, WriterRun
<1> QED
  BY <1>1, <1>2, <1>3, <1>4, <1>5, <1>6, <1>7 DEF Next, CloseStep, Done

\* The connection's state stays well typed; in particular no writer counts
\* more frames as written than its batch holds.
THEOREM TypeCorrect == Spec => []TypeOK
<1>1. ASSUME Init
      PROVE  TypeOK
  <2>1. \A w \in Requests : batch[w] = <<>> /\ sent[w] = 0
    BY <1>1 DEF Init
  <2>2. \A w \in Requests : sent[w] <= Len(batch[w])
    BY <2>1
  <2> QED
    <3>1. /\ pendingWrites \in Seq(Requests) /\ accepted \in Seq(Requests)
          /\ wire \in Seq(Requests)
      BY <1>1 DEF Init
    <3>2. /\ batch \in [Requests -> Seq(Requests)]
          /\ reply \in [Requests -> Seq({"ok", "err"})]
      BY <1>1 DEF Init
    <3>3. sent \in [Requests -> Nat]
      BY <1>1 DEF Init
    <3>4. /\ spc \in [Requests -> SubmitPC]
          /\ wpc \in [Requests -> WriterPC]
      BY <1>1 DEF Init, SubmitPC, WriterPC
    <3> QED
      BY <1>1, <2>2, <3>1, <3>2, <3>3, <3>4 DEF Init, TypeOK
<1> QED
  BY <1>1, TypeStep, PTL DEF Spec
-----------------------------------------------------------------------------
(* One writer.                                                             *)

\* The writer's role is handed over only under pendingMutex.
LEMMA SingleWriterStep == TypeOK /\ SingleWriter /\ [Next]_vars => SingleWriter'
<1> SUFFICES ASSUME TypeOK, SingleWriter, [Next]_vars
             PROVE  SingleWriter'
  OBVIOUS
<1> USE DEF SingleWriter, ActiveWriters, queueVars, writerVars
<1>1. CASE UNCHANGED <<wpc, writeActive>>
  BY <1>1
<1>2. ASSUME NEW r \in Requests, SubmitEnqueue(r)
      PROVE  SingleWriter'
  <2>1. CASE writeActive
    BY <1>2, <2>1 DEF SubmitEnqueue, StartWriter, TypeOK
  <2>2. CASE ~writeActive
    <3>1. wpc' = [wpc EXCEPT ![r] = "take"] /\ writeActive' = TRUE
      BY <1>2, <2>2 DEF SubmitEnqueue, StartWriter
    <3>2. \A w \in Requests : wpc[w] \notin {"take", "write", "clear"}
      BY <2>2
    <3> QED
      BY <3>1, <3>2 DEF TypeOK
  <2> QED
    BY <2>1, <2>2
<1>3. ASSUME NEW w \in Requests,
             \/ WriterTake(w) \/ WriterError(w) \/ WriterDone(w)
      PROVE  SingleWriter'
  <2>1. /\ wpc[w] \in {"take", "write"} /\ writeActive' = writeActive
        /\ \E to \in {"take", "write", "clear"} : wpc' = [wpc EXCEPT ![w] = to]
    BY <1>3 DEF WriterTake, WriterError, WriterDone
  <2>2. ActiveWriters' = ActiveWriters
    BY <2>1 DEF TypeOK
  <2> QED
    BY <2>1, <2>2
<1>4. ASSUME NEW w \in Requests, WriterExit(w) \/ WriterClear(w)
      PROVE  SingleWriter'
  <2>1. /\ wpc[w] \in {"take", "clear"} /\ writeActive' = FALSE
        /\ \E to \in {"exit", "close"} : wpc' = [wpc EXCEPT ![w] = to]
    BY <1>4 DEF WriterExit, WriterClear
  <2>2. \A v \in Requests : v # w => wpc[v] \notin {"take", "write", "clear"}
    BY <2>1
  <2>3. \A v \in Requests : wpc'[v] \notin {"take", "write", "clear"}
    BY <2>1, <2>2 DEF TypeOK
  <2> QED
    BY <2>1, <2>3
<1>5. ASSUME NEW w \in Requests, WriterClose(w)
      PROVE  SingleWriter'
  <2>1. wpc[w] = "close" /\ wpc' = [wpc EXCEPT ![w] = "exit"] /\ writeActive' = writeActive
    BY <1>5 DEF WriterClose
  <2>2. ActiveWriters' = ActiveWriters
    BY <2>1 DEF TypeOK
  <2> QED
    BY <2>1, <2>2
<1>6. ASSUME NEW r \in Requests, SubmitStep(r)
      PROVE  SingleWriter'
  BY <1>1, <1>2, <1>6
     DEF SubmitStep, SubmitClosed, SubmitCheck, SubmitOverflow, SubmitOverflowClose
<1>7. ASSUME NEW w \in Requests, WriterStep(w)
      PROVE  SingleWriter'
  BY <1>1, <1>3, <1>4, <1>5, <1>7 DEF WriterStep, WriterRun, WriterWrite
<1> QED
  BY <1>1, <1>6, <1>7
     DEF Next, CloseStep, CloseBegin, CloseSocket, CloseDrain, SockFail, Done, vars

\* writeActive is set exactly while one goroutine has the writer's role, so
\* two runWriter loops never write to the socket at the same time.
THEOREM OneWriter == Spec => []SingleWriter
<1>1. Init => SingleWriter
  BY DEF Init, SingleWriter, ActiveWriters
<1> QED
  BY <1>1, TypeCorrect, SingleWriterStep, PTL DEF Spec
-----------------------------------------------------------------------------
(* One answer.                                                             *)

\* What is in a sequence of requests, as runWriter and close() range over it.
LEMMA ToSetOfSeq ==
    ASSUME NEW s \in Seq(Requests)
    PROVE  /\ ToSet(s) = {s[i] : i \in 1..Len(s)}
           /\ ToSet(s) \subseteq Requests
BY DEF ToSet

\* An empty queue holds nothing.
LEMMA ToSetOfEmpty == ToSet(<<>>) = {}
BY DEF ToSet

\* A queue that submitWrite appends to holds what it held and the new request.
LEMMA ToSetOfAppend ==
    ASSUME NEW s \in Seq(Requests), NEW r \in Requests
    PROVE  ToSet(Append(s, r)) = ToSet(s) \cup {r}
<1> DEFINE t == Append(s, r)
<1>1. t \in Seq(Requests) /\ Len(t) = Len(s) + 1 /\ t[Len(s) + 1] = r
  OBVIOUS
<1>2. \A i \in 1..Len(s) : t[i] = s[i]
  OBVIOUS
<1>3. ToSet(t) = {t[i] : i \in 1..Len(t)} /\ ToSet(s) = {s[i] : i \in 1..Len(s)}
  BY <1>1, ToSetOfSeq
<1>4. Len(s) \in Nat
  OBVIOUS
<1> HIDE DEF t
<1>5. ASSUME NEW x \in ToSet(t)
      PROVE  x \in ToSet(s) \cup {r}
  BY <1>1, <1>2, <1>3, <1>4
<1>6. ASSUME NEW x \in ToSet(s) \cup {r}
      PROVE  x \in ToSet(t)
  BY <1>1, <1>2, <1>3, <1>4
<1>7. ToSet(t) = ToSet(s) \cup {r}
  BY <1>5, <1>6
<1> QED
  BY <1>7 DEF t

\* The inductive form of AnsweredAtMostOnce: whatever still holds a request
\* (its submitter, the queue, a writer's batch) holds it alone and unanswered.
Held(r) == spc[r] = "returned" /\ reply[r] = <<>>

OwnedOnce ==
    /\ \A r \in Requests : spc[r] \in {"idle", "checked"} => reply[r] = <<>>
    /\ \A r \in ToSet(pendingWrites) : Held(r)
    /\ \A w \in Requests : wpc[w] = "write" =>
          \A r \in ToSet(batch[w]) : Held(r) /\ r \notin ToSet(pendingWrites)
    /\ AnsweredAtMostOnce

\* An unanswered request that is answered has one answer; the others keep theirs.
LEMMA AnswerOnce ==
    ASSUME TypeOK, NEW S, NEW e \in {"ok", "err"},
           \A r \in S : reply[r] = <<>>,
           AnsweredAtMostOnce, reply' = Answer(S, e)
    PROVE  /\ AnsweredAtMostOnce'
           /\ \A r \in Requests \ S : reply'[r] = reply[r]
<1>1. \A r \in Requests \ S : reply'[r] = reply[r]
  BY DEF Answer, TypeOK
<1>2. ASSUME NEW r \in Requests, r \in S
      PROVE  Len(reply'[r]) <= 1
  <2>1. reply'[r] = Append(<<>>, e)
    BY <1>2 DEF Answer, TypeOK
  <2> QED
    BY <2>1
<1>3. \A r \in Requests : Len(reply'[r]) <= 1
  BY <1>1, <1>2 DEF AnsweredAtMostOnce
<1> QED
  BY <1>1, <1>3 DEF AnsweredAtMostOnce

\* Each step hands a request on or answers it, never both.
LEMMA OwnedOnceStep ==
    TypeOK /\ SingleWriter /\ OwnedOnce /\ [Next]_vars => OwnedOnce'
<1> SUFFICES ASSUME TypeOK, SingleWriter, OwnedOnce, [Next]_vars
             PROVE  OwnedOnce'
  OBVIOUS
<1> USE DEF queueVars, writerVars, Held
<1>0. /\ ToSet(pendingWrites) \subseteq Requests
      /\ \A w \in Requests : ToSet(batch[w]) \subseteq Requests
  BY ToSetOfSeq DEF TypeOK
<1>1. CASE UNCHANGED <<pendingWrites, spc, wpc, batch, reply>>
  BY <1>1 DEF OwnedOnce, AnsweredAtMostOnce
<1>2. CASE CloseDrain
  <2>1. /\ AnsweredAtMostOnce'
        /\ \A r \in Requests \ ToSet(pendingWrites) : reply'[r] = reply[r]
    BY <1>2, AnswerOnce DEF CloseDrain, OwnedOnce
  <2>2. ToSet(pendingWrites') = {} /\ UNCHANGED <<spc, wpc, batch>>
    BY <1>2, ToSetOfEmpty DEF CloseDrain
  <2> QED
    BY <1>0, <2>1, <2>2 DEF OwnedOnce
<1>3. ASSUME NEW r \in Requests, SubmitClosed(r) \/ SubmitOverflow(r)
      PROVE  OwnedOnce'
  <2>1. /\ spc[r] \in {"idle", "checked"} /\ reply[r] = <<>>
        /\ reply' = Answer({r}, "err")
        /\ UNCHANGED <<pendingWrites, wpc, batch>>
        /\ spc'[r] \notin {"idle", "checked"}
        /\ \A q \in Requests \ {r} : spc'[q] = spc[q]
    BY <1>3 DEF SubmitClosed, SubmitOverflow, OwnedOnce, TypeOK
  <2>2. AnsweredAtMostOnce' /\ \A q \in Requests \ {r} : reply'[q] = reply[q]
    BY <2>1, AnswerOnce DEF OwnedOnce
  <2>3. /\ r \notin ToSet(pendingWrites)
        /\ \A w \in Requests : wpc[w] = "write" => r \notin ToSet(batch[w])
    BY <2>1 DEF OwnedOnce
  <2>4. \A q \in Requests : spc'[q] \in {"idle", "checked"} => reply'[q] = <<>>
    BY <2>1, <2>2 DEF OwnedOnce
  <2>5. \A q \in ToSet(pendingWrites') : Held(q)'
    BY <1>0, <2>1, <2>2, <2>3 DEF OwnedOnce
  <2>6. ASSUME NEW w \in Requests, wpc'[w] = "write", NEW q \in ToSet(batch'[w])
        PROVE  Held(q)' /\ q \notin ToSet(pendingWrites')
    <3>1. wpc[w] = "write" /\ q \in ToSet(batch[w]) /\ q \in Requests \ {r}
      BY <1>0, <2>1, <2>3, <2>6
    <3>2. Held(q) /\ q \notin ToSet(pendingWrites)
      BY <3>1 DEF OwnedOnce
    <3> QED
      BY <2>1, <2>2, <3>1, <3>2
  <2> QED
    BY <2>2, <2>4, <2>5, <2>6 DEF OwnedOnce
<1>4. ASSUME NEW r \in Requests, SubmitCheck(r) \/ SubmitOverflowClose(r)
      PROVE  OwnedOnce'
  <2>1. /\ spc[r] \in {"idle", "overflow"}
        /\ UNCHANGED <<pendingWrites, wpc, batch, reply>>
        /\ \A q \in Requests \ {r} : spc'[q] = spc[q]
        /\ spc'[r] \in {"idle", "checked"} => spc[r] = "idle"
    BY <1>4 DEF SubmitCheck, SubmitOverflowClose, TypeOK
  <2>2. /\ r \notin ToSet(pendingWrites)
        /\ \A w \in Requests : wpc[w] = "write" => r \notin ToSet(batch[w])
    BY <2>1 DEF OwnedOnce
  <2> QED
    BY <1>0, <2>1, <2>2 DEF OwnedOnce, AnsweredAtMostOnce
<1>5. ASSUME NEW r \in Requests, SubmitEnqueue(r)
      PROVE  OwnedOnce'
  <2>1. /\ spc[r] = "checked" /\ spc'[r] = "returned"
        /\ \A q \in Requests \ {r} : spc'[q] = spc[q]
        /\ pendingWrites' = Append(pendingWrites, r)
        /\ UNCHANGED <<batch, reply>>
    BY <1>5 DEF SubmitEnqueue, TypeOK
  <2>2. \A w \in Requests : wpc'[w] = "write" => wpc[w] = "write"
    BY <1>5 DEF SubmitEnqueue, StartWriter, TypeOK
  <2>3. ToSet(pendingWrites') = ToSet(pendingWrites) \cup {r}
    BY <2>1, ToSetOfAppend DEF TypeOK
  <2>4. \A w \in Requests : wpc[w] = "write" => r \notin ToSet(batch[w])
    BY <2>1 DEF OwnedOnce
  <2> QED
    BY <1>0, <2>1, <2>2, <2>3, <2>4 DEF OwnedOnce, AnsweredAtMostOnce
<1>6. ASSUME NEW w \in Requests, WriterTake(w)
      PROVE  OwnedOnce'
  <2>1. /\ batch' = [batch EXCEPT ![w] = pendingWrites] /\ pendingWrites' = <<>>
        /\ wpc' = [wpc EXCEPT ![w] = "write"] /\ UNCHANGED <<spc, reply>>
    BY <1>6 DEF WriterTake, TakeBatch
  <2>2. \A v \in Requests : wpc'[v] = "write" => v = w
    BY <1>6, <2>1 DEF WriterTake, SingleWriter, ActiveWriters, TypeOK
  <2>3. batch'[w] = pendingWrites /\ ToSet(pendingWrites') = {}
    BY <2>1, ToSetOfEmpty DEF TypeOK
  <2> QED
    BY <2>1, <2>2, <2>3 DEF OwnedOnce, AnsweredAtMostOnce
<1>7. ASSUME NEW w \in Requests, WriterError(w) \/ WriterDone(w)
      PROVE  OwnedOnce'
  <2>1. PICK e \in {"ok", "err"} : reply' = Answer(ToSet(batch[w]), e)
    BY <1>7 DEF WriterError, WriterDone
  <2>2. /\ wpc[w] = "write" /\ UNCHANGED <<pendingWrites, spc, batch>>
        /\ \E p \in {"clear", "take"} : wpc' = [wpc EXCEPT ![w] = p]
    BY <1>7 DEF WriterError, WriterDone
  <2>3. \A r \in ToSet(batch[w]) : Held(r) /\ r \notin ToSet(pendingWrites)
    BY <2>2 DEF OwnedOnce
  <2>4. /\ AnsweredAtMostOnce'
        /\ \A r \in Requests \ ToSet(batch[w]) : reply'[r] = reply[r]
    BY <2>1, <2>3, AnswerOnce DEF OwnedOnce
  <2>5. \A v \in Requests : wpc'[v] # "write"
    BY <2>2 DEF SingleWriter, ActiveWriters, TypeOK
  <2> QED
    BY <1>0, <2>2, <2>3, <2>4, <2>5 DEF OwnedOnce
<1>8. ASSUME NEW w \in Requests,
             WriterExit(w) \/ WriterClear(w) \/ WriterClose(w)
      PROVE  OwnedOnce'
  <2>1. UNCHANGED <<pendingWrites, spc, batch, reply>>
    BY <1>8 DEF WriterExit, WriterClear, WriterClose
  <2>2. \A v \in Requests : wpc'[v] = "write" => wpc[v] = "write"
    BY <1>8 DEF WriterExit, WriterClear, WriterClose, TypeOK
  <2> QED
    BY <2>1, <2>2 DEF OwnedOnce, AnsweredAtMostOnce
<1>9. ASSUME NEW r \in Requests, SubmitStep(r)
      PROVE  OwnedOnce'
  BY <1>3, <1>4, <1>5, <1>9 DEF SubmitStep
<1>10. ASSUME NEW w \in Requests, WriterStep(w)
       PROVE  OwnedOnce'
  BY <1>1, <1>6, <1>7, <1>8, <1>10 DEF WriterStep, WriterRun, WriterWrite
<1> QED
  BY <1>1, <1>2, <1>9, <1>10
     DEF Next, CloseStep, CloseBegin, CloseSocket, SockFail, Done, vars

\* No submitter is answered twice and no pooled buffer is returned twice, in
\* any race of the writer's error path, a full queue and close().
THEOREM OneAnswer == Spec => []AnsweredAtMostOnce
<1>1. Init => OwnedOnce
  BY ToSetOfEmpty DEF Init, OwnedOnce, AnsweredAtMostOnce
<1>2. OwnedOnce => AnsweredAtMostOnce
  BY DEF OwnedOnce
<1> QED
  BY <1>1, <1>2, TypeCorrect, OneWriter, OwnedOnceStep, PTL DEF Spec
-----------------------------------------------------------------------------
(* Order, and the implementation of OrderedChannel.                        *)

\* Requests queued or in a batch but not yet on the wire are, in order, the
\* rest of the accepted history, as long as the socket is up.
PendingInOrder ==
    /\ Len(pendingWrites) <= Len(accepted)
    /\ \A j \in 1..Len(pendingWrites) :
          pendingWrites[j] = accepted[Len(accepted) - Len(pendingWrites) + j]

BatchInOrder(w) ==
    /\ Len(wire) + Len(batch[w]) - sent[w] = Len(accepted) - Len(pendingWrites)
    /\ \A j \in sent[w] + 1 .. Len(batch[w]) :
          batch[w][j] = accepted[Len(wire) - sent[w] + j]

UpInOrder ==
    /\ \A w \in Requests : wpc[w] \notin {"clear", "close"}
    /\ PendingInOrder
    /\ \A w \in Requests : wpc[w] = "write" => BatchInOrder(w)
    /\ (\A w \in Requests : wpc[w] # "write") =>
          Len(wire) = Len(accepted) - Len(pendingWrites)

AcceptedOnce == \A i \in 1..Len(accepted) : spc[accepted[i]] = "returned"

InOrder ==
    /\ AcceptedOnce
    /\ closePhase \in {"sockClosed", "closed"} => sock = "down"
    /\ Len(wire) <= Len(accepted)
    /\ \A i \in 1..Len(wire) : wire[i] = accepted[i]
    /\ sock = "up" => UpInOrder

\* Length and elements of a sequence after an append.
LEMMA AppendFacts ==
    ASSUME NEW s \in Seq(Requests), NEW r \in Requests
    PROVE  /\ Append(s, r) \in Seq(Requests)
           /\ Len(Append(s, r)) = Len(s) + 1 /\ Len(s) \in Nat
           /\ Append(s, r)[Len(s) + 1] = r
           /\ \A i \in 1..Len(s) : Append(s, r)[i] = s[i]
OBVIOUS

\* A request is queued at the end of the history, behind the rest of the queue.
LEMMA EnqueueInOrder ==
    ASSUME TypeOK, SingleWriter, InOrder, NEW r \in Requests, SubmitEnqueue(r)
    PROVE  InOrder'
<1>1. /\ pendingWrites' = Append(pendingWrites, r) /\ accepted' = Append(accepted, r)
      /\ spc'[r] = "returned" /\ \A q \in Requests \ {r} : spc'[q] = spc[q]
      /\ UNCHANGED <<closePhase, sock, batch, sent, wire>>
  BY DEF SubmitEnqueue, TypeOK
<1>2. \A w \in Requests : /\ wpc'[w] = "write" <=> wpc[w] = "write"
                          /\ wpc'[w] \in {"clear", "close"} => wpc[w] \in {"clear", "close"}
  <2>1. CASE writeActive
    BY <2>1 DEF SubmitEnqueue, StartWriter
  <2>2. CASE ~writeActive
    <3>1. wpc' = [wpc EXCEPT ![r] = "take"]
      BY <2>2 DEF SubmitEnqueue, StartWriter
    <3>2. \A w \in Requests : wpc[w] # "write"
      BY <2>2 DEF SingleWriter, ActiveWriters
    <3> QED
      BY <3>1, <3>2 DEF TypeOK
  <2> QED
    BY <2>1, <2>2
<1>3. /\ Len(accepted) \in Nat /\ Len(wire) \in Nat /\ Len(pendingWrites) \in Nat
      /\ \A i \in 1..Len(accepted) : accepted[i] \in Requests
      /\ \A w \in Requests : sent[w] \in Nat /\ Len(batch[w]) \in Nat /\ sent[w] <= Len(batch[w])
  BY DEF TypeOK
<1>4. /\ Len(accepted') = Len(accepted) + 1 /\ accepted'[Len(accepted) + 1] = r
      /\ \A i \in 1..Len(accepted) : accepted'[i] = accepted[i]
  BY <1>1, AppendFacts DEF TypeOK
<1>5. /\ Len(pendingWrites') = Len(pendingWrites) + 1
      /\ pendingWrites'[Len(pendingWrites) + 1] = r
      /\ \A i \in 1..Len(pendingWrites) : pendingWrites'[i] = pendingWrites[i]
  BY <1>1, AppendFacts DEF TypeOK
<1>6. AcceptedOnce'
  <2> SUFFICES ASSUME NEW i \in 1..Len(accepted') PROVE spc'[accepted'[i]] = "returned"
    BY DEF AcceptedOnce
  <2>1. CASE i = Len(accepted) + 1
    BY <1>1, <1>4, <2>1
  <2>2. CASE i \in 1..Len(accepted)
    BY <1>1, <1>3, <1>4, <2>2 DEF InOrder, AcceptedOnce
  <2> QED
    BY <1>3, <1>4, <2>1, <2>2
<1>7. Len(wire') <= Len(accepted') /\ \A i \in 1..Len(wire') : wire'[i] = accepted'[i]
  BY <1>1, <1>3, <1>4 DEF InOrder
<1>8. ASSUME sock = "up"
      PROVE  UpInOrder'
  <2>1. UpInOrder
    BY <1>8 DEF InOrder
  <2>2. PendingInOrder'
    <3>1. Len(pendingWrites') <= Len(accepted')
      BY <1>3, <1>4, <1>5, <2>1 DEF UpInOrder, PendingInOrder
    <3>2. ASSUME NEW j \in 1..Len(pendingWrites')
          PROVE  pendingWrites'[j] = accepted'[Len(accepted') - Len(pendingWrites') + j]
      <4>1. CASE j = Len(pendingWrites) + 1
        BY <1>3, <1>4, <1>5, <4>1
      <4>2. CASE j \in 1..Len(pendingWrites)
        <5>1. Len(accepted) - Len(pendingWrites) + j \in 1..Len(accepted)
          BY <1>3, <4>2, <2>1 DEF UpInOrder, PendingInOrder
        <5>2. Len(accepted') - Len(pendingWrites') + j = Len(accepted) - Len(pendingWrites) + j
          BY <1>3, <1>4, <1>5
        <5>3. pendingWrites[j] = accepted[Len(accepted) - Len(pendingWrites) + j]
          BY <4>2, <2>1 DEF UpInOrder, PendingInOrder
        <5> QED
          BY <1>4, <1>5, <4>2, <5>1, <5>2, <5>3
      <4> QED
        BY <1>3, <1>5, <4>1, <4>2
    <3> QED
      BY <3>1, <3>2 DEF PendingInOrder
  <2>3. ASSUME NEW w \in Requests, wpc'[w] = "write"
        PROVE  BatchInOrder(w)'
    <3>1. BatchInOrder(w)
      BY <1>2, <2>1, <2>3 DEF UpInOrder
    <3>2. Len(wire) + Len(batch[w]) - sent[w] = Len(accepted') - Len(pendingWrites')
      BY <1>3, <1>4, <1>5, <3>1 DEF BatchInOrder
    <3>3. ASSUME NEW j \in sent[w] + 1 .. Len(batch[w])
          PROVE  batch[w][j] = accepted'[Len(wire) - sent[w] + j]
      <4>1. Len(wire) - sent[w] + j \in 1..Len(accepted)
        BY <1>3, <3>1, SMTT(30) DEF BatchInOrder
      <4> QED
        BY <1>4, <3>1, <4>1 DEF BatchInOrder
    <3> QED
      BY <1>1, <3>2, <3>3 DEF BatchInOrder
  <2>4. ASSUME \A w \in Requests : wpc'[w] # "write"
        PROVE  Len(wire') = Len(accepted') - Len(pendingWrites')
    <3>1. Len(wire) = Len(accepted) - Len(pendingWrites)
      BY <1>2, <2>1, <2>4 DEF UpInOrder
    <3> QED
      BY <1>1, <1>3, <1>4, <1>5, <3>1
  <2> QED
    BY <1>2, <2>1, <2>2, <2>3, <2>4 DEF UpInOrder
<1> QED
  BY <1>1, <1>6, <1>7, <1>8 DEF InOrder

\* The writer takes the queue as it stands: its batch continues the wire.
LEMMA TakeInOrder ==
    ASSUME TypeOK, SingleWriter, InOrder, NEW w \in Requests, WriterTake(w)
    PROVE  InOrder'
<1>1. /\ wpc[w] = "take" /\ pendingWrites' = <<>>
      /\ batch'[w] = pendingWrites /\ sent'[w] = 0 /\ wpc'[w] = "write"
      /\ \A v \in Requests \ {w} : wpc'[v] = wpc[v]
      /\ UNCHANGED <<closePhase, sock, spc, accepted, wire>>
  BY DEF WriterTake, TakeBatch, TypeOK
<1>2. \A v \in Requests : wpc[v] # "write"
  BY <1>1 DEF SingleWriter, ActiveWriters
<1>3. \A v \in Requests : wpc'[v] = "write" => v = w
  BY <1>1, <1>2
<1>4. Len(accepted) \in Nat /\ Len(wire) \in Nat /\ Len(pendingWrites) \in Nat
  BY SMTT(30) DEF TypeOK
<1>5. Len(pendingWrites') = 0
  BY <1>1
<1>6. ASSUME sock = "up"
      PROVE  UpInOrder'
  <2>1. UpInOrder /\ Len(wire) = Len(accepted) - Len(pendingWrites)
    BY <1>2, <1>6 DEF InOrder, UpInOrder
  <2>2. PendingInOrder'
    BY <1>1, <1>4, <1>5 DEF PendingInOrder
  <2>3. BatchInOrder(w)'
    BY <1>1, <1>4, <1>5, <2>1 DEF BatchInOrder, UpInOrder, PendingInOrder
  <2> QED
    BY <1>1, <1>3, <2>1, <2>2, <2>3 DEF UpInOrder
<1> QED
  BY <1>1, <1>6 DEF InOrder, AcceptedOnce

\* The frame the socket takes is the oldest accepted one not yet on the wire.
LEMMA WriteIsNext ==
    ASSUME TypeOK, InOrder, NEW w \in Requests, WriterWrite(w)
    PROVE  /\ Len(wire) < Len(accepted)
           /\ wire' = Append(wire, accepted[Len(wire) + 1])
<1>1. UpInOrder /\ wpc[w] = "write"
  BY DEF WriterWrite, InOrder
<1>2. BatchInOrder(w) /\ PendingInOrder
  BY <1>1 DEF UpInOrder
<1>3. /\ Len(accepted) \in Nat /\ Len(wire) \in Nat /\ Len(pendingWrites) \in Nat
      /\ sent[w] \in Nat /\ Len(batch[w]) \in Nat /\ sent[w] < Len(batch[w])
  BY SMTT(30) DEF TypeOK, WriterWrite
<1>4. Len(wire) < Len(accepted)
  BY <1>2, <1>3 DEF BatchInOrder, PendingInOrder
<1>5. batch[w][sent[w] + 1] = accepted[Len(wire) - sent[w] + (sent[w] + 1)]
  <2>1. sent[w] + 1 \in sent[w] + 1 .. Len(batch[w])
    BY <1>3
  <2> QED
    BY <1>2, <2>1 DEF BatchInOrder
<1>6. Len(wire) - sent[w] + (sent[w] + 1) = Len(wire) + 1
  BY <1>3
<1> QED
  BY <1>4, <1>5, <1>6 DEF WriterWrite

\* Writing a frame moves it from the batch to the wire and keeps the order.
LEMMA WriteInOrder ==
    ASSUME TypeOK, SingleWriter, InOrder, NEW w \in Requests, WriterWrite(w)
    PROVE  InOrder'
<1>1. /\ wpc[w] = "write" /\ sock = "up"
      /\ sent'[w] = sent[w] + 1 /\ UNCHANGED <<closePhase, sock, pendingWrites, spc, wpc, batch, accepted>>
  BY DEF WriterWrite, TypeOK, queueVars
<1>2. /\ Len(accepted) \in Nat /\ Len(wire) \in Nat /\ Len(pendingWrites) \in Nat
      /\ sent[w] \in Nat /\ Len(batch[w]) \in Nat
  BY SMTT(30) DEF TypeOK
<1>3. accepted[Len(wire) + 1] \in Requests
  BY <1>2, WriteIsNext, SMTT(30) DEF TypeOK
<1>4. /\ Len(wire') = Len(wire) + 1 /\ wire'[Len(wire) + 1] = accepted[Len(wire) + 1]
      /\ \A i \in 1..Len(wire) : wire'[i] = wire[i]
  <2>1. wire' = Append(wire, accepted[Len(wire) + 1]) /\ wire \in Seq(Requests)
    BY WriteIsNext DEF TypeOK
  <2> QED
    BY <1>3, <2>1, AppendFacts
<1>5. Len(wire') <= Len(accepted') /\ \A i \in 1..Len(wire') : wire'[i] = accepted'[i]
  BY <1>1, <1>2, <1>4, WriteIsNext DEF InOrder
<1>6. \A v \in Requests : wpc[v] = "write" => v = w
  BY <1>1 DEF SingleWriter, ActiveWriters
<1>7. BatchInOrder(w)'
  <2>1. BatchInOrder(w)
    BY <1>1 DEF InOrder, UpInOrder
  <2> DEFINE k == Len(wire)   l == Len(wire')   m == sent[w]   n == sent'[w]
             b == Len(batch[w])   a == Len(accepted)   q == Len(pendingWrites)
  <2>a. k \in Nat /\ m \in Nat /\ b \in Nat /\ a \in Nat /\ q \in Nat /\ l = k + 1 /\ n = m + 1
    BY <1>1, <1>2, <1>4
  <2>b. k + b - m = a - q
    BY <2>1 DEF BatchInOrder
  <2>2. l + b - n = a - q
    <3> HIDE DEF k, l, m, n, a, b, q
    <3> QED  BY <2>a, <2>b
  <2>3. ASSUME NEW j \in sent'[w] + 1 .. Len(batch[w])
        PROVE  batch[w][j] = accepted[Len(wire') - sent'[w] + j]
    <3>1. j \in sent[w] + 1 .. Len(batch[w]) /\ Len(wire') - sent'[w] + j = Len(wire) - sent[w] + j
      <4>1. j \in n + 1 .. b
        OBVIOUS
      <4> HIDE DEF k, l, m, n, a, b, q
      <4>2. j \in m + 1 .. b /\ l - n + j = k - m + j
        BY <2>a, <4>1
      <4> QED
        BY <4>2 DEF k, l, m, n, b
    <3> QED
      BY <2>1, <3>1 DEF BatchInOrder
  <2> QED
    BY <1>1, <2>2, <2>3 DEF BatchInOrder
<1>8. UpInOrder'
  BY <1>1, <1>6, <1>7 DEF InOrder, UpInOrder, PendingInOrder
<1> QED
  BY <1>1, <1>5, <1>8 DEF InOrder, AcceptedOnce

\* A finished batch leaves the queue as all that is still to be written.
LEMMA DoneInOrder ==
    ASSUME TypeOK, SingleWriter, InOrder, NEW w \in Requests, WriterDone(w)
    PROVE  InOrder'
<1>1. /\ wpc[w] = "write" /\ sent[w] = Len(batch[w]) /\ wpc'[w] = "take"
      /\ \A v \in Requests \ {w} : wpc'[v] = wpc[v]
      /\ UNCHANGED <<closePhase, sock, pendingWrites, spc, accepted, wire>>
  BY DEF WriterDone, WroteAll, TypeOK, queueVars
<1>2. \A v \in Requests : wpc'[v] # "write" /\ (v # w => wpc[v] \notin {"take", "write", "clear"})
  BY <1>1 DEF SingleWriter, ActiveWriters
<1>3. ASSUME sock = "up"
      PROVE  UpInOrder'
  <2>1. UpInOrder /\ BatchInOrder(w)
    BY <1>1, <1>3 DEF InOrder, UpInOrder
  <2>2. Len(wire) = Len(accepted) - Len(pendingWrites)
    BY <1>1, <2>1 DEF BatchInOrder, TypeOK
  <2> QED
    BY <1>1, <1>2, <2>1, <2>2 DEF UpInOrder, PendingInOrder
<1> QED
  BY <1>1, <1>3 DEF InOrder, AcceptedOnce
\* A step that only moves goroutines, or takes the socket down, keeps the order.
LEMMA QuietInOrder ==
    ASSUME TypeOK, InOrder,
           UNCHANGED <<pendingWrites, batch, sent, accepted, wire>>,
           \A r \in Requests : spc[r] = "returned" => spc'[r] = "returned",
           sock' = "up" =>
              /\ sock = "up" /\ closePhase' \notin {"sockClosed", "closed"}
              /\ \A w \in Requests :
                    /\ wpc'[w] = "write" <=> wpc[w] = "write"
                    /\ wpc'[w] \in {"clear", "close"} => wpc[w] \in {"clear", "close"},
           sock' \in {"up", "down"}
    PROVE  InOrder'
<1>1. AcceptedOnce'
  <2>1. \A i \in 1..Len(accepted) : accepted[i] \in Requests
    BY DEF TypeOK
  <2> QED
    BY <2>1 DEF InOrder, AcceptedOnce
<1>2. ASSUME sock' = "up"
      PROVE  UpInOrder'
  <2>1. UpInOrder
    BY <1>2 DEF InOrder
  <2> QED
    BY <1>2, <2>1 DEF UpInOrder, PendingInOrder, BatchInOrder
<1> QED
  BY <1>1, <1>2 DEF InOrder

\* Every step keeps the frames in order.
LEMMA InOrderStep == TypeOK /\ SingleWriter /\ InOrder /\ [Next]_vars => InOrder'
<1> SUFFICES ASSUME TypeOK, SingleWriter, InOrder, [Next]_vars
             PROVE  InOrder'
  OBVIOUS
<1> USE DEF queueVars, writerVars
<1>0. sock \in {"up", "down"} /\ (sock = "up" => closePhase \notin {"sockClosed", "closed"})
  BY DEF TypeOK, InOrder
<1>1. CASE UNCHANGED vars
  BY <1>0, <1>1, QuietInOrder DEF vars
<1>2. CASE CloseBegin \/ CloseSocket \/ SockFail
  BY <1>0, <1>2, QuietInOrder DEF CloseBegin, CloseSocket, SockFail
<1>3. CASE CloseDrain
  BY <1>3 DEF CloseDrain, InOrder, AcceptedOnce
<1>4. ASSUME NEW r \in Requests, SubmitStep(r)
      PROVE  InOrder'
  <2>1. CASE SubmitClosed(r) \/ SubmitCheck(r) \/ SubmitOverflow(r) \/ SubmitOverflowClose(r)
    <3>1. /\ UNCHANGED <<sock, pendingWrites, wpc, batch, sent, accepted, wire>>
          /\ \A q \in Requests : spc[q] = "returned" => spc'[q] = "returned"
      BY <2>1 DEF SubmitClosed, SubmitCheck, SubmitOverflow, SubmitOverflowClose, TypeOK
    <3>2. closePhase' = closePhase \/ closePhase' = "won"
      BY <2>1 DEF SubmitClosed, SubmitCheck, SubmitOverflow, SubmitOverflowClose, TryClose
    <3> QED
      BY <1>0, <3>1, <3>2, QuietInOrder
  <2>2. CASE SubmitEnqueue(r)
    BY <2>2, EnqueueInOrder
  <2> QED
    BY <1>4, <2>1, <2>2 DEF SubmitStep
<1>5. ASSUME NEW w \in Requests, WriterStep(w)
      PROVE  InOrder'
  <2>1. CASE WriterExit(w) \/ WriterError(w) \/ WriterClear(w) \/ WriterClose(w)
    <3>1. UNCHANGED <<sock, pendingWrites, spc, batch, sent, accepted, wire>>
      BY <2>1 DEF WriterExit, WriterError, WriterClear, WriterClose
    <3>2. closePhase' = closePhase \/ closePhase' = "won"
      BY <2>1 DEF WriterExit, WriterError, WriterClear, WriterClose, TryClose
    <3>3. sock = "up" => wpc[w] = "take" /\ wpc' = [wpc EXCEPT ![w] = "exit"]
      BY <2>1 DEF WriterExit, WriterError, WriterClear, WriterClose, InOrder, UpInOrder
    <3>4. sock = "up" => \A v \in Requests :
                            /\ wpc'[v] = "write" <=> wpc[v] = "write"
                            /\ wpc'[v] \in {"clear", "close"} => wpc[v] \in {"clear", "close"}
      BY <3>3 DEF TypeOK
    <3> QED
      BY <1>0, <3>1, <3>2, <3>4, QuietInOrder
  <2>2. CASE WriterTake(w)
    BY <2>2, TakeInOrder
  <2>3. CASE WriterWrite(w)
    BY <2>3, WriteInOrder
  <2>4. CASE WriterDone(w)
    BY <2>4, DoneInOrder
  <2> QED
    BY <1>5, <2>1, <2>2, <2>3, <2>4 DEF WriterStep, WriterRun
<1> QED
  BY <1>1, <1>2, <1>3, <1>4, <1>5 DEF Next, CloseStep, Done

\* Nothing is accepted, queued or written yet.
LEMMA InOrderInit == Init => InOrder
BY DEF Init, InOrder, AcceptedOnce, UpInOrder, PendingInOrder, BatchInOrder

\* Frames reach the socket in the order they were queued, with no gap and no
\* repetition, whatever the interleaving of submitters, writers and close().
THEOREM FramesInOrder == Spec => []WireFIFO
<1>1. ASSUME TypeOK, InOrder
      PROVE  WireFIFO
  <2>1. SubSeq(wire, 1, Len(wire)) = [i \in 1..Len(wire) |-> wire[i]]
    BY <1>1 DEF TypeOK
  <2>2. SubSeq(accepted, 1, Len(wire)) = [i \in 1..Len(wire) |-> accepted[i]]
    BY <1>1 DEF TypeOK, InOrder
  <2> QED
    BY <1>1, <2>1, <2>2 DEF InOrder, WireFIFO, IsPrefix
<1> QED
  BY <1>1, InOrderInit, InOrderStep, TypeCorrect, OneWriter, PTL DEF Spec

\* A step of the queue is Accept, Deliver or Down of OrderedChannel, or
\* invisible to it.
LEMMA ChannelStep ==
    TypeOK /\ SingleWriter /\ InOrder /\ [Next]_vars => [Channel!Next]_(Channel!vars)
<1> SUFFICES ASSUME TypeOK, SingleWriter, InOrder, [Next]_vars
             PROVE  [Channel!Next]_(Channel!vars)
  OBVIOUS
<1> USE DEF queueVars, writerVars, Channel!vars
<1>1. CASE UNCHANGED <<accepted, wire, sock>>
  BY <1>1
<1>2. CASE CloseSocket \/ SockFail
  <2>1. sock' = "down" /\ UNCHANGED <<accepted, wire>>
    BY <1>2 DEF CloseSocket, SockFail
  <2>2. CASE sock = "up"
    BY <2>1, <2>2 DEF Channel!Next, Channel!Down
  <2>3. CASE sock # "up"
    BY <2>1, <2>3
  <2> QED
    BY <2>2, <2>3
<1>3. ASSUME NEW r \in Requests, SubmitEnqueue(r)
      PROVE  Channel!Next
  <2>1. \A i \in 1..Len(accepted) : accepted[i] # r
    BY <1>3 DEF SubmitEnqueue, InOrder, AcceptedOnce
  <2>2. Channel!Accept(r)
    BY <1>3, <2>1 DEF SubmitEnqueue, Channel!Accept
  <2> QED
    BY <2>2 DEF Channel!Next
<1>4. ASSUME NEW w \in Requests, WriterWrite(w)
      PROVE  Channel!Next
  <2>1. Channel!Deliver
    BY <1>4, WriteIsNext DEF WriterWrite, Channel!Deliver
  <2> QED
    BY <2>1 DEF Channel!Next
<1>5. ASSUME NEW r \in Requests, SubmitStep(r)
      PROVE  [Channel!Next]_(Channel!vars)
  BY <1>1, <1>3, <1>5
     DEF SubmitStep, SubmitClosed, SubmitCheck, SubmitOverflow, SubmitOverflowClose
<1>6. ASSUME NEW w \in Requests, WriterStep(w)
      PROVE  [Channel!Next]_(Channel!vars)
  BY <1>1, <1>4, <1>6
     DEF WriterStep, WriterRun, WriterExit, WriterTake, WriterError, WriterDone, WriterClear,
         WriterClose, TakeBatch
<1> QED
  BY <1>1, <1>2, <1>5, <1>6
     DEF Next, CloseStep, CloseBegin, CloseDrain, Done, vars

\* The connection's write queue implements an ordered channel.
THEOREM QueueImplementsChannel == Spec => ImplementsChannel
<1>1. Init => Channel!Init
  BY DEF Init, Channel!Init
<1>2. Spec => []InOrder
  BY InOrderInit, InOrderStep, TypeCorrect, OneWriter, PTL DEF Spec
<1> QED
  BY <1>1, <1>2, ChannelStep, TypeCorrect, OneWriter, PTL
     DEF Spec, ImplementsChannel, Channel!Spec
-----------------------------------------------------------------------------
(* A nil error means the frame was written.                                *)

\* The part of a batch counted as sent is on the wire, and so is every
\* request answered "ok".
SentOnWire ==
    /\ \A w \in Requests : wpc[w] = "write" =>
          \A i \in 1..sent[w] : batch[w][i] \in ToSet(wire)
    /\ \A r \in Requests : Contains(reply[r], "ok") => r \in ToSet(wire)

\* Answering a set of requests says ok to no request outside it.
LEMMA AnswerOk ==
    ASSUME TypeOK, NEW S, NEW ans \in {"ok", "err"}, reply' = Answer(S, ans),
           NEW r \in Requests, Contains(reply'[r], "ok")
    PROVE  Contains(reply[r], "ok") \/ (r \in S /\ ans = "ok")
<1>1. CASE r \notin S
  <2>1. reply'[r] = reply[r]
    BY <1>1 DEF Answer
  <2> QED
    BY <2>1 DEF Contains
<1>2. CASE r \in S
  <2>1. reply[r] \in Seq({"ok", "err"}) /\ reply'[r] = Append(reply[r], ans)
    BY <1>2 DEF Answer, TypeOK
  <2>2. PICK i \in 1..Len(reply'[r]) : reply'[r][i] = "ok"
    BY DEF Contains
  <2>3. CASE i = Len(reply[r]) + 1
    BY <1>2, <2>1, <2>2, <2>3
  <2>4. CASE i \in 1..Len(reply[r])
    <3>1. reply[r][i] = "ok"
      BY <2>1, <2>2, <2>4
    <3> QED
      BY <2>4, <3>1 DEF Contains
  <2> QED
    BY <2>1, <2>3, <2>4
<1> QED
  BY <1>1, <1>2

\* Every step counts a frame as sent, or answers ok, only with the frame on the wire.
LEMMA SentOnWireStep ==
    TypeOK /\ TypeOK' /\ SingleWriter /\ SentOnWire /\ [Next]_vars => SentOnWire'
<1> SUFFICES ASSUME TypeOK, TypeOK', SingleWriter, SentOnWire, [Next]_vars
             PROVE  SentOnWire'
  OBVIOUS
<1> USE DEF queueVars, writerVars
<1>1. CASE UNCHANGED <<batch, sent, reply, wire>>
           /\ \A w \in Requests : wpc'[w] = "write" => wpc[w] = "write"
  BY <1>1 DEF SentOnWire
<1>2. ASSUME NEW S, reply' = Answer(S, "err"), UNCHANGED <<batch, sent, wire>>,
             \A w \in Requests : wpc'[w] = "write" => wpc[w] = "write"
      PROVE  SentOnWire'
  <2>1. \A r \in Requests : Contains(reply'[r], "ok") => Contains(reply[r], "ok")
    BY <1>2, AnswerOk
  <2> QED
    BY <1>2, <2>1 DEF SentOnWire
<1>3. ASSUME NEW w \in Requests, WriterTake(w)
      PROVE  SentOnWire'
  <2>1. sent'[w] = 0 /\ UNCHANGED <<reply, wire>>
    BY <1>3 DEF WriterTake, TakeBatch, TypeOK
  <2>2. \A v \in Requests \ {w} : wpc'[v] = wpc[v] /\ batch'[v] = batch[v] /\ sent'[v] = sent[v]
    BY <1>3 DEF WriterTake, TakeBatch, TypeOK
  <2> QED
    BY <2>1, <2>2 DEF SentOnWire
<1>4. ASSUME NEW w \in Requests, WriterWrite(w)
      PROVE  SentOnWire'
  <2>1. /\ wire' = Append(wire, batch[w][sent[w] + 1]) /\ batch[w][sent[w] + 1] \in Requests
        /\ sent' = [sent EXCEPT ![w] = sent[w] + 1] /\ UNCHANGED <<wpc, batch, reply>>
    BY <1>4 DEF WriterWrite, TypeOK
  <2>2. ToSet(wire') = ToSet(wire) \cup {batch[w][sent[w] + 1]}
    BY <2>1, ToSetOfAppend DEF TypeOK
  <2>3. ASSUME NEW v \in Requests, wpc'[v] = "write", NEW i \in 1..sent'[v]
        PROVE  batch'[v][i] \in ToSet(wire')
    <3>1. CASE v = w /\ i = sent[w] + 1
      BY <2>1, <2>2, <3>1
    <3>2. CASE i \in 1..sent[v]
      BY <2>1, <2>2, <2>3, <3>2 DEF SentOnWire
    <3> QED
      BY <2>1, <2>3, <3>1, <3>2 DEF TypeOK
  <2> QED
    BY <2>1, <2>2, <2>3 DEF SentOnWire
<1>5. ASSUME NEW w \in Requests, WriterDone(w)
      PROVE  SentOnWire'
  <2>1. /\ wpc[w] = "write" /\ sent[w] = Len(batch[w])
        /\ reply' = Answer(ToSet(batch[w]), "ok") /\ UNCHANGED <<batch, sent, wire>>
    BY <1>5 DEF WriterDone, WroteAll
  <2>2. ToSet(batch[w]) \subseteq ToSet(wire)
    <3>1. ToSet(batch[w]) = {batch[w][i] : i \in 1..Len(batch[w])}
      BY ToSetOfSeq DEF TypeOK
    <3> QED
      BY <2>1, <3>1 DEF SentOnWire
  <2>3. \A r \in Requests : Contains(reply'[r], "ok") =>
                              Contains(reply[r], "ok") \/ r \in ToSet(batch[w])
    BY <2>1, AnswerOk
  <2>4. \A v \in Requests : wpc'[v] = "write" => wpc[v] = "write"
    BY <1>5 DEF WriterDone, TypeOK
  <2> QED
    BY <2>1, <2>2, <2>3, <2>4 DEF SentOnWire
<1>6. ASSUME NEW r \in Requests, SubmitStep(r)
      PROVE  SentOnWire'
  <2>1. CASE SubmitClosed(r) \/ SubmitOverflow(r)
    BY <1>2, <2>1 DEF SubmitClosed, SubmitOverflow
  <2>2. CASE SubmitCheck(r) \/ SubmitOverflowClose(r)
    BY <1>1, <2>2 DEF SubmitCheck, SubmitOverflowClose
  <2>3. CASE SubmitEnqueue(r)
    <3>1. \A w \in Requests : wpc'[w] = "write" => wpc[w] = "write"
      BY <2>3 DEF SubmitEnqueue, StartWriter, TypeOK
    <3> QED
      BY <1>1, <2>3, <3>1 DEF SubmitEnqueue
  <2> QED
    BY <1>6, <2>1, <2>2, <2>3 DEF SubmitStep
<1>7. ASSUME NEW w \in Requests, WriterStep(w)
      PROVE  SentOnWire'
  <2>1. CASE WriterExit(w) \/ WriterClear(w) \/ WriterClose(w)
    <3>1. \A v \in Requests : wpc'[v] = "write" => wpc[v] = "write"
      BY <2>1 DEF WriterExit, WriterClear, WriterClose, TypeOK
    <3> QED
      BY <1>1, <2>1, <3>1 DEF WriterExit, WriterClear, WriterClose
  <2>2. CASE WriterError(w)
    <3>1. \A v \in Requests : wpc'[v] = "write" => wpc[v] = "write"
      BY <2>2 DEF WriterError, TypeOK
    <3> QED
      BY <1>2, <2>2, <3>1 DEF WriterError
  <2> QED
    BY <1>3, <1>4, <1>5, <1>7, <2>1, <2>2 DEF WriterStep, WriterRun
<1>8. CASE CloseDrain
  BY <1>2, <1>8 DEF CloseDrain
<1> QED
  BY <1>1, <1>6, <1>7, <1>8
     DEF Next, CloseStep, CloseBegin, CloseSocket, SockFail, Done, vars

\* writeAndWait returns nil only for a frame the socket has taken.
THEOREM OkIsTruthful == Spec => []OkMeansSent
<1>1. Init => SentOnWire
  BY DEF Init, SentOnWire, Contains
<1>2. ASSUME TypeOK, SentOnWire
      PROVE  OkMeansSent
  <2>1. ToSet(wire) = {wire[i] : i \in 1..Len(wire)}
    BY <1>2, ToSetOfSeq DEF TypeOK
  <2>2. \A r \in ToSet(wire) : Contains(wire, r)
    BY <2>1 DEF Contains
  <2> QED
    BY <1>2, <2>2 DEF SentOnWire, OkMeansSent
<1> QED
  BY <1>1, <1>2, TypeCorrect, OneWriter, SentOnWireStep, PTL DEF Spec

-----------------------------------------------------------------------------
\* However a request leaves the queue, it is answered at most once, and writeAndWait returns nil
\* only for a frame the socket took.
THEOREM AnswersAreTruthful == Spec => []AnsweredOnceTruthfully
<1>1. AnsweredAtMostOnce /\ OkMeansSent => AnsweredOnceTruthfully
  BY DEF AnsweredOnceTruthfully
<1>2. QED
  BY <1>1, OneAnswer, OkIsTruthful, PTL

-----------------------------------------------------------------------------
(* Nobody's frame waits without someone to write or to refuse it.          *)

\* The writer gives up its role only over an empty queue, or to close().
LEMMA QueueHasWriterStep ==
    TypeOK /\ SingleWriter /\ QueueHasWriter /\ [Next]_vars => QueueHasWriter'
<1> SUFFICES ASSUME TypeOK, SingleWriter, QueueHasWriter, [Next]_vars
             PROVE  QueueHasWriter'
  OBVIOUS
<1> USE DEF QueueHasWriter, isClosed, queueVars, writerVars
<1>1. CASE UNCHANGED vars
  BY <1>1 DEF vars
<1>2. CASE CloseBegin \/ CloseSocket \/ CloseDrain
  BY <1>2 DEF CloseBegin, CloseSocket, CloseDrain
<1>3. CASE SockFail
  BY <1>3 DEF SockFail
<1>4. ASSUME NEW r \in Requests, SubmitStep(r)
      PROVE  QueueHasWriter'
  <2>1. CASE SubmitClosed(r) \/ SubmitCheck(r) \/ SubmitOverflow(r)
    BY <2>1 DEF SubmitClosed, SubmitCheck, SubmitOverflow
  <2>2. CASE SubmitOverflowClose(r)
    BY <2>2 DEF SubmitOverflowClose, TryClose
  <2>3. CASE SubmitEnqueue(r)
    BY <2>3 DEF SubmitEnqueue
  <2> QED
    BY <1>4, <2>1, <2>2, <2>3 DEF SubmitStep
<1>5. ASSUME NEW w \in Requests, WriterStep(w)
      PROVE  QueueHasWriter'
  <2>1. CASE WriterExit(w)
    BY <2>1 DEF WriterExit
  <2>2. CASE WriterTake(w)
    BY <2>2 DEF WriterTake, TakeBatch
  <2>3. CASE WriterWrite(w)
    BY <2>3 DEF WriterWrite
  <2>4. CASE WriterError(w) \/ WriterDone(w)
    <3>1. w \in ActiveWriters /\ writeActive' = writeActive
      BY <2>4 DEF WriterError, WriterDone, ActiveWriters
    <3> QED
      BY <3>1 DEF SingleWriter
  <2>5. CASE WriterClear(w)
    <3>1. wpc'[w] = "close"
      BY <2>5 DEF WriterClear, TypeOK
    <3> QED
      BY <3>1
  <2>6. CASE WriterClose(w)
    <3>1. closePhase' # "open"
      BY <2>6 DEF WriterClose, TryClose
    <3> QED
      BY <3>1
  <2> QED
    BY <1>5, <2>1, <2>2, <2>3, <2>4, <2>5, <2>6 DEF WriterStep, WriterRun
<1> QED
  BY <1>1, <1>2, <1>3, <1>4, <1>5 DEF Next, CloseStep, Done

\* A frame in the queue always has a writer, a close() under way, or a failed
\* writer that is about to call close().
THEOREM QueueIsServed == Spec => []QueueHasWriter
<1>1. Init => QueueHasWriter
  BY DEF Init, QueueHasWriter
<1> QED
  BY <1>1, TypeCorrect, OneWriter, QueueHasWriterStep, PTL DEF Spec

-----------------------------------------------------------------------------
(* The byte count of the queue.                                            *)

\* The empty queue has no bytes, and one more request adds its own.
LEMMA TotalSizeFacts ==
    /\ TotalSize(<<>>) = 0
    /\ \A s \in Seq(Requests), r \in Requests :
          TotalSize(s) \in Nat /\ TotalSize(Append(s, r)) = TotalSize(s) + Size[r]
<1>1. TotalSize(<<>>) = 0
  <2> DEFINE g == [i \in DOMAIN <<>> |-> Size[<<>>[i]]]
  <2>1. DOMAIN g = {}
    OBVIOUS
  <2> HIDE DEF g
  <2>2. SumFunctionOnSet(g, {}) = 0
    BY FS_EmptySet, SumType
  <2> QED
    BY <2>1, <2>2 DEF TotalSize, SumFunction, g
<1>2. ASSUME NEW s \in Seq(Requests), NEW r \in Requests
      PROVE  TotalSize(s) \in Nat /\ TotalSize(Append(s, r)) = TotalSize(s) + Size[r]
  <2> DEFINE n == Len(s)
             t == Append(s, r)
             g == [i \in DOMAIN s |-> Size[s[i]]]
             f == [i \in DOMAIN t |-> Size[t[i]]]
  <2>1. /\ n \in Nat /\ DOMAIN s = 1..n /\ DOMAIN t = 1..(n + 1)
        /\ t[n + 1] = r /\ \A i \in 1..n : t[i] = s[i] /\ s[i] \in Requests
    OBVIOUS
  <2>2. 1..(n + 1) = 1..n \cup {n + 1} /\ n + 1 \notin 1..n /\ IsFiniteSet(1..n)
    <3> HIDE DEF n, t
    <3>1. IsFiniteSet(1..n)
      BY <2>1, FS_Interval
    <3> QED
      BY <2>1, <3>1
  <2>3. /\ DOMAIN g = 1..n /\ DOMAIN f = 1..n \cup {n + 1}
        /\ \A i \in 1..n : g[i] \in Nat /\ g[i] = f[i]
        /\ f[n + 1] = Size[r] /\ Size[r] \in Nat
    BY <2>1, <2>2, SizeType
  <2> HIDE DEF g, f, n
  <2> DEFINE I == 1..n
             x == n + 1
  <2>a. IsFiniteSet(I) /\ x \notin I
    BY <2>2
  <2>b. \A i \in I : g[i] \in Int /\ g[i] = f[i]
    BY <2>3
  <2>c. (\A i \in I : f[i] \in Int) /\ f[x] \in Int
    BY <2>3
  <2>4. SumFunctionOnSet(g, 1..n) \in Nat
    BY <2>2, <2>3, SumNat
  <2> HIDE DEF I, x
  <2>d. SumFunctionOnSet(g, I) = SumFunctionOnSet(f, I)
    BY <2>a, <2>b, SumAgree
  <2>e. SumFunctionOnSet(f, I \cup {x}) = SumFunctionOnSet(f, I) + f[x]
    BY <2>a, <2>c, SumAdd
  <2>5. SumFunctionOnSet(g, 1..n) = SumFunctionOnSet(f, 1..n)
    BY <2>d DEF I
  <2>6. SumFunctionOnSet(f, 1..n \cup {n + 1}) = SumFunctionOnSet(f, 1..n) + f[n + 1]
    BY <2>e DEF I, x
  <2>7. TotalSize(s) = SumFunctionOnSet(g, 1..n)
    BY <2>3 DEF TotalSize, SumFunction, g
  <2>8. TotalSize(t) = SumFunctionOnSet(f, 1..n \cup {n + 1})
    BY <2>3 DEF TotalSize, SumFunction, f
  <2> QED
    BY <2>3, <2>4, <2>5, <2>6, <2>7, <2>8
<1> QED
  BY <1>1, <1>2

\* The three places that adjust pendingBytes keep it the size of the queue.
LEMMA ByteAccountingStep == TypeOK /\ ByteAccounting /\ [Next]_vars => ByteAccounting'
<1> SUFFICES ASSUME TypeOK, ByteAccounting, [Next]_vars
             PROVE  ByteAccounting'
  OBVIOUS
<1> USE DEF queueVars, writerVars
<1>0. pendingWrites \in Seq(Requests) /\ TotalSize(pendingWrites) \in Nat /\ MaxPending \in Nat
  <2>1. pendingWrites \in Seq(Requests)
    BY DEF TypeOK
  <2>2. CASE Requests = {}
    BY <2>1, <2>2, TotalSizeFacts, MaxPendingType
  <2>3. CASE Requests # {}
    BY <2>1, <2>3, TotalSizeFacts, MaxPendingType
  <2> QED
    BY <2>2, <2>3
<1>1. CASE UNCHANGED <<pendingWrites, pendingBytes>>
  BY <1>1 DEF ByteAccounting, TotalSize
<1>2. CASE pendingWrites' = <<>> /\ pendingBytes' = 0
  BY <1>0, <1>2, TotalSizeFacts DEF ByteAccounting
<1>3. ASSUME NEW r \in Requests, SubmitEnqueue(r)
      PROVE  ByteAccounting'
  <2>1. /\ pendingWrites' = Append(pendingWrites, r)
        /\ pendingBytes' = pendingBytes + Size[r]
        /\ ~(pendingBytes + Size[r] > MaxPending)
    BY <1>3 DEF SubmitEnqueue, Overflows
  <2>2. TotalSize(Append(pendingWrites, r)) = TotalSize(pendingWrites) + Size[r]
    BY <1>0, TotalSizeFacts
  <2>3. Size[r] \in Nat
    BY SizeType
  <2> QED
    BY <1>0, <2>1, <2>2, <2>3 DEF ByteAccounting
<1>4. ASSUME NEW w \in Requests, WriterTake(w)
      PROVE  ByteAccounting'
  <2>1. pendingWrites' = <<>> /\ pendingBytes' = pendingBytes - TotalSize(pendingWrites)
    BY <1>4 DEF WriterTake, TakeBatch
  <2>2. pendingBytes' = 0
    BY <1>0, <2>1 DEF ByteAccounting
  <2> QED
    BY <1>2, <2>1, <2>2
<1>5. CASE CloseStep
  BY <1>1, <1>2, <1>5 DEF CloseStep, CloseSocket, CloseDrain
<1>6. ASSUME NEW r \in Requests, SubmitStep(r)
      PROVE  ByteAccounting'
  BY <1>1, <1>3, <1>6
     DEF SubmitStep, SubmitClosed, SubmitCheck, SubmitOverflow, SubmitOverflowClose
<1>7. ASSUME NEW w \in Requests, WriterStep(w)
      PROVE  ByteAccounting'
  BY <1>1, <1>4, <1>7
     DEF WriterStep, WriterRun, WriterExit, WriterWrite, WriterError, WriterDone, WriterClear, WriterClose
<1>8. CASE CloseBegin \/ SockFail \/ Done \/ UNCHANGED vars
  BY <1>1, <1>8 DEF CloseBegin, SockFail, Done, vars
<1> QED
  BY <1>5, <1>6, <1>7, <1>8 DEF Next

\* pendingBytes is exactly the size of the queue and never above
\* maxPendingQueueBytes(), whatever the order of submitWrite, runWriter and close().
THEOREM BytesAreExact == Spec => []ByteAccounting
<1>1. ASSUME Init PROVE ByteAccounting
  BY <1>1, TotalSizeFacts, MaxPendingType DEF Init, ByteAccounting
<1> QED
  BY <1>1, TypeCorrect, ByteAccountingStep, PTL DEF Spec
=============================================================================
