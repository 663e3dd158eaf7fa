----------------------------- MODULE NodeProofs -----------------------------
(***************************************************************************)
(* Proofs about the Node wrapper: its worker processes (Wrapper) and one   *)
(* request proxied to a worker (ProxiedRequest).                           *)
(***************************************************************************)
EXTENDS Wrapper, ProxiedRequest, SumTheorems, TLAPS

-----------------------------------------------------------------------------
(* A proxied request: the objects of route() and the events still due.     *)

Objects == [client : {"open", "ended", "destroyed"},
            req : {"pending", "upgraded", "responded", "destroyed"},
            up : {"none", "open", "ended", "destroyed"},
            res : {"none", "body", "ended", "aborted"},
            piped : BOOLEAN]

EventNames == {"socket error", "socket close", "upgrade", "up error", "up close",
               "response", "res aborted", "res end", "req error"}

\* A pair of the objects and the events due, as the handlers pass them on.
Pairs == [st : Objects, ev : SUBSET EventNames]

\* A client that has gone and left an upgraded socket is still to be reported.
ClientReported(st, ev) ==
    st.client = "destroyed" /\ st.up \in {"open", "ended"} => "socket close" \in ev

\* So is an upgraded socket or a response that has gone and left a client.
AnswerReported(st, ev) ==
    /\ st.up = "destroyed" => st.client = "destroyed" \/ "up close" \in ev
    /\ st.res = "aborted" => st.client = "destroyed" \/ "res aborted" \in ev

\* What is gone on one side only has an event due that will take the other.
SidesInv ==
    /\ s \in Objects /\ events \in SUBSET EventNames
    /\ ClientReported(s, events) /\ AnswerReported(s, events)

\* The data of one side.
Pieces == [sent : Nat, head : Seq(Nat), unread : Seq(Nat), out : Seq(Nat)]

\* The pieces o passed on, h that came with the request or the answer and u unread, in this
\* order, are the n pieces sent, behind z heads of an answer.
InOrder(n, h, u, o, z) ==
    /\ z <= Len(o) /\ n = (Len(o) - z) + Len(h) + Len(u)
    /\ \A i \in 1..Len(o) : o[i] = i - z
    /\ \A i \in 1..Len(h) : h[i] = (Len(o) - z) + i
    /\ \A i \in 1..Len(u) : u[i] = (Len(o) - z) + Len(h) + i

Numbered(d, z) == InOrder(d.sent, d.head, d.unread, d.out, z)

\* Before the worker has answered nothing of it can have arrived.
NotAnswered ==
    /\ "upgrade" \notin events /\ "response" \notin events
    /\ s.up = "none" /\ ~s.piped
    /\ back.sent = 0 /\ back.head = <<>> /\ back.unread = <<>> /\ back.out = <<>>

\* That the pieces stay in order needs that an answer arrives at most once, and
\* nothing is read from a socket before its head was put back.
RelayInv ==
    /\ down \in Pieces /\ back \in Pieces
    /\ Numbered(down, 0)
    /\ (back.out = <<>> /\ Numbered(back, 0)) \/ Numbered(back, 1)
    /\ answer # "answered" => NotAnswered
    /\ "upgrade" \in events \/ "response" \in events => back.out = <<>> /\ ~s.piped
    /\ ~("upgrade" \in events /\ "response" \in events)
    /\ s.piped => back.out # <<>> /\ down.head = <<>> /\ back.head = <<>>

\* socket.destroy() leaves no client and takes no event away.
LEMMA SocketKeeps ==
    ASSUME NEW x \in Pairs
    PROVE  /\ Socket(x) \in Pairs
           /\ Socket(x).st.client = "destroyed"
           /\ Socket(x).st.up = x.st.up
           /\ Socket(x).st.res = x.st.res
           /\ x.ev \subseteq Socket(x).ev
           /\ x.st.client # "destroyed" => "socket close" \in Socket(x).ev
           /\ Socket(x).st.piped = x.st.piped
           /\ Socket(x).ev \subseteq x.ev \cup {"socket close"}
<1>1. x.st \in Objects /\ x.ev \in SUBSET EventNames
  BY DEF Pairs
<1>2. CASE x.st.client = "destroyed"
  BY <1>1, <1>2 DEF Socket, Pairs
<1>3. CASE x.st.client # "destroyed"
  <2> DEFINE y == [x.st EXCEPT !.client = "destroyed"]
             f == x.ev \cup {"socket close"}
  <2>1. y \in Objects /\ y.client = "destroyed" /\ y.up = x.st.up /\ y.res = x.st.res
        /\ y.piped = x.st.piped
    BY <1>1 DEF Objects
  <2>2. f \in SUBSET EventNames /\ x.ev \subseteq f /\ "socket close" \in f
        /\ f \subseteq x.ev \cup {"socket close"}
    BY <1>1 DEF EventNames
  <2>3. Socket(x) = [st |-> y, ev |-> f]
    BY <1>3 DEF Socket
  <2> HIDE DEF y, f
  <2>4. [st |-> y, ev |-> f] \in Pairs
    BY <2>1, <2>2 DEF Pairs
  <2>5. [st |-> y, ev |-> f].st = y /\ [st |-> y, ev |-> f].ev = f
    OBVIOUS
  <2> QED
    BY <2>1, <2>2, <2>3, <2>4, <2>5
<1> QED
  BY <1>2, <1>3

\* proxySocket.destroy() leaves no upgraded socket and reports the one it ends.
LEMMA ProxySocketKeeps ==
    ASSUME NEW x \in Pairs
    PROVE  /\ ProxySocket(x) \in Pairs
           /\ ProxySocket(x).st.client = x.st.client
           /\ ProxySocket(x).st.res = x.st.res
           /\ ProxySocket(x).st.up \notin {"open", "ended"}
           /\ x.ev \subseteq ProxySocket(x).ev
           /\ ProxySocket(x).st.up = "destroyed"
                => x.st.up = "destroyed" \/ "up close" \in ProxySocket(x).ev
           /\ x.st.up = "none" => ProxySocket(x).st.up = "none"
           /\ ProxySocket(x).st.piped = x.st.piped
           /\ ProxySocket(x).ev \subseteq x.ev \cup {"up close"}
<1>1. x.st \in Objects /\ x.ev \in SUBSET EventNames
  BY DEF Pairs
<1>2. CASE x.st.up \notin {"open", "ended"}
  BY <1>1, <1>2 DEF ProxySocket, Pairs
<1>3. CASE x.st.up \in {"open", "ended"}
  <2> DEFINE y == [x.st EXCEPT !.up = "destroyed"]
             f == x.ev \cup {"up close"}
  <2>1. y \in Objects /\ y.up = "destroyed" /\ y.client = x.st.client /\ y.res = x.st.res
        /\ y.piped = x.st.piped
    BY <1>1 DEF Objects
  <2>2. f \in SUBSET EventNames /\ x.ev \subseteq f /\ "up close" \in f
        /\ f \subseteq x.ev \cup {"up close"}
    BY <1>1 DEF EventNames
  <2>3. ProxySocket(x) = [st |-> y, ev |-> f]
    BY <1>3 DEF ProxySocket
  <2> HIDE DEF y, f
  <2>4. [st |-> y, ev |-> f] \in Pairs
    BY <2>1, <2>2 DEF Pairs
  <2>5. [st |-> y, ev |-> f].st = y /\ [st |-> y, ev |-> f].ev = f
    OBVIOUS
  <2> QED
    BY <1>3, <2>1, <2>2, <2>3, <2>4, <2>5
<1> QED
  BY <1>2, <1>3

\* proxyReq.destroy() reports the response it aborts, and takes no event of a
\* socket or of an aborted response away.
LEMMA ProxyReqKeeps ==
    ASSUME NEW x \in Pairs
    PROVE  /\ ProxyReq(x) \in Pairs
           /\ ProxyReq(x).st.client = x.st.client
           /\ ProxyReq(x).st.up = x.st.up
           /\ x.ev \ {"upgrade", "response", "res end"} \subseteq ProxyReq(x).ev
           /\ ProxyReq(x).st.res = "aborted"
                => x.st.res = "aborted" \/ "res aborted" \in ProxyReq(x).ev
           /\ ProxyReq(x).st.piped = x.st.piped
           /\ ProxyReq(x).ev \subseteq x.ev \cup {"req error", "res aborted"}
<1>1. x.st \in Objects /\ x.ev \in SUBSET EventNames
  BY DEF Pairs
<1>2. CASE x.st.req = "pending"
  <2> DEFINE y == [x.st EXCEPT !.req = "destroyed"]
             f == (x.ev \ {"upgrade", "response"}) \cup {"req error"}
  <2>1. y \in Objects /\ y.up = x.st.up /\ y.client = x.st.client /\ y.res = x.st.res
        /\ y.piped = x.st.piped
    BY <1>1 DEF Objects
  <2>2. /\ f \in SUBSET EventNames /\ x.ev \ {"upgrade", "response", "res end"} \subseteq f
        /\ f \subseteq x.ev \cup {"req error", "res aborted"}
    BY <1>1 DEF EventNames
  <2>3. ProxyReq(x) = [st |-> y, ev |-> f]
    BY <1>2 DEF ProxyReq
  <2> HIDE DEF y, f
  <2>4. [st |-> y, ev |-> f] \in Pairs
    BY <2>1, <2>2 DEF Pairs
  <2>5. [st |-> y, ev |-> f].st = y /\ [st |-> y, ev |-> f].ev = f
    OBVIOUS
  <2> QED
    BY <2>1, <2>2, <2>3, <2>4, <2>5
<1>3. CASE x.st.req = "responded" /\ x.st.res = "body"
  <2> DEFINE y == [x.st EXCEPT !.req = "destroyed", !.res = "aborted"]
             f == (x.ev \ {"res end"}) \cup {"res aborted"}
  <2>1. y \in Objects /\ y.up = x.st.up /\ y.client = x.st.client /\ y.piped = x.st.piped
    BY <1>1 DEF Objects
  <2>2. /\ f \in SUBSET EventNames /\ x.ev \ {"upgrade", "response", "res end"} \subseteq f
        /\ "res aborted" \in f /\ f \subseteq x.ev \cup {"req error", "res aborted"}
    BY <1>1 DEF EventNames
  <2>3. ProxyReq(x) = [st |-> y, ev |-> f]
    BY <1>3 DEF ProxyReq
  <2> HIDE DEF y, f
  <2>4. [st |-> y, ev |-> f] \in Pairs
    BY <2>1, <2>2 DEF Pairs
  <2>5. [st |-> y, ev |-> f].st = y /\ [st |-> y, ev |-> f].ev = f
    OBVIOUS
  <2> QED
    BY <2>1, <2>2, <2>3, <2>4, <2>5
<1>4. CASE x.st.req # "pending" /\ ~(x.st.req = "responded" /\ x.st.res = "body")
  BY <1>1, <1>4 DEF ProxyReq, Pairs
<1> QED
  BY <1>2, <1>3, <1>4

\* The pairs the handlers start from.
LEMMA PairsHere ==
    ASSUME SidesInv
    PROVE  /\ Here \in Pairs /\ Here.st = s /\ Here.ev = events
           /\ \A e \in EventNames : /\ After(e) \in Pairs
                                    /\ After(e).st = s /\ After(e).ev = events \ {e}
BY DEF SidesInv, Pairs, Here, After

\* A step to a pair that reports what it should.
LEMMA SidesPair ==
    ASSUME NEW x \in Pairs, Become(x), ClientReported(x.st, x.ev), AnswerReported(x.st, x.ev)
    PROVE  SidesInv'
BY DEF Become, SidesInv, Pairs, ClientReported, AnswerReported

\* The request is destroyed, by the timeout or because the worker closed.
LEMMA SidesProxyReq ==
    ASSUME SidesInv, Become(ProxyReq(Here))
    PROVE  SidesInv'
<1> DEFINE a == Here  b == ProxyReq(a)
<1>1. a \in Pairs /\ a.st = s /\ a.ev = events
  BY PairsHere
<1>2. /\ b \in Pairs /\ b.st.client = s.client /\ b.st.up = s.up
      /\ a.ev \ {"upgrade", "response", "res end"} \subseteq b.ev
      /\ b.st.res = "aborted" => s.res = "aborted" \/ "res aborted" \in b.ev
  BY <1>1, ProxyReqKeeps
<1>3. Become(b)
  OBVIOUS
<1> HIDE DEF a, b
<1>4. ClientReported(b.st, b.ev) /\ AnswerReported(b.st, b.ev)
  BY <1>1, <1>2 DEF SidesInv, ClientReported, AnswerReported
<1> QED
  BY SidesPair, <1>2, <1>3, <1>4

\* The steps of the handlers that destroy something.
LEMMA SidesDestroy ==
    ASSUME SidesInv,
           \/ OnSocketError \/ OnSocketClose \/ OnUpstreamError \/ OnUpstreamClose
           \/ OnTimeout \/ OnResponseAborted \/ OnRequestError
    PROVE  SidesInv'
<1>1. /\ s \in Objects /\ events \in SUBSET EventNames
      /\ ClientReported(s, events) /\ AnswerReported(s, events)
  BY DEF SidesInv
<1>3. CASE OnSocketError
  <2> DEFINE a == After("socket error")  b == ProxyReq(a)  c == ProxySocket(b)
             d == Socket(c)
  <2>1. a \in Pairs
    BY PairsHere DEF EventNames
  <2>2. b \in Pairs
    BY <2>1, ProxyReqKeeps
  <2>3. c \in Pairs /\ c.st.up \notin {"open", "ended"}
    BY <2>2, ProxySocketKeeps
  <2>4. d \in Pairs /\ d.st.client = "destroyed" /\ d.st.up = c.st.up
    BY <2>3, SocketKeeps
  <2>5. Become(d)
    BY <1>3 DEF OnSocketError
  <2> HIDE DEF d
  <2> QED
    BY SidesPair, <2>3, <2>4, <2>5 DEF ClientReported, AnswerReported
<1>4. CASE OnSocketClose
  <2> DEFINE a == After("socket close")  b == ProxyReq(a)  c == ProxySocket(b)
  <2>1. a \in Pairs /\ a.st = s /\ a.ev = events \ {"socket close"}
    BY PairsHere DEF EventNames
  <2>2. /\ b \in Pairs /\ b.st.client = s.client /\ b.st.up = s.up
        /\ a.ev \ {"upgrade", "response", "res end"} \subseteq b.ev
        /\ b.st.res = "aborted" => s.res = "aborted" \/ "res aborted" \in b.ev
    BY <2>1, ProxyReqKeeps
  <2>3. /\ c \in Pairs /\ c.st.up \notin {"open", "ended"} /\ c.st.client = b.st.client
        /\ c.st.res = b.st.res /\ b.ev \subseteq c.ev
        /\ c.st.up = "destroyed" => b.st.up = "destroyed" \/ "up close" \in c.ev
    BY <2>2, ProxySocketKeeps
  <2>5. Become(c)
    BY <1>4 DEF OnSocketClose, ClientClosed
  <2>6. ClientReported(c.st, c.ev)
    BY <2>3 DEF ClientReported
  <2> HIDE DEF a, b, c
  <2>7. AnswerReported(c.st, c.ev)
    BY <1>1, <2>1, <2>2, <2>3 DEF AnswerReported
  <2> QED
    BY SidesPair, <2>3, <2>5, <2>6, <2>7
<1>5. ASSUME NEW e \in {"up error", "up close", "res aborted", "req error"},
             Become(Socket(After(e)))
      PROVE  SidesInv'
  <2> DEFINE a == After(e)  d == Socket(a)
  <2>1. a \in Pairs /\ a.st = s /\ a.ev = events \ {e}
    BY PairsHere DEF EventNames
  <2>2. /\ d \in Pairs /\ d.st.client = "destroyed" /\ d.st.up = s.up /\ a.ev \subseteq d.ev
        /\ s.client # "destroyed" => "socket close" \in d.ev
    BY <2>1, SocketKeeps
  <2>3. Become(d)
    BY <1>5
  <2> HIDE DEF a, d
  <2>4. ClientReported(d.st, d.ev)
    BY <1>1, <2>1, <2>2 DEF ClientReported
  <2>5. AnswerReported(d.st, d.ev)
    BY <2>2 DEF AnswerReported
  <2> QED
    BY SidesPair, <2>2, <2>3, <2>4, <2>5
<1> QED
  BY <1>3, <1>4, <1>5, SidesProxyReq DEF OnUpstreamError, OnUpstreamClose, OnTimeout,
     OnResponseAborted, OnRequestError, LostUpstream

\* The steps that report an answer, and those of the client and the worker.
LEMMA SidesMove ==
    ASSUME SidesInv,
           \/ OnUpgrade \/ OnResponse \/ OnResponseEnd \/ ClientEnds \/ ResponseDone
           \/ \E error \in BOOLEAN : ClientLeaves(error) \/ WorkerCloses(error)
           \/ \E e \in {"upgrade", "response"} : WorkerAnswers(e)
    PROVE  SidesInv'
<1>1. /\ s \in Objects /\ events \in SUBSET EventNames
      /\ ClientReported(s, events) /\ AnswerReported(s, events)
  BY DEF SidesInv
<1>2. CASE OnUpgrade
  <2> DEFINE y == [s EXCEPT !.req = "upgraded", !.up = "open"]
             z == [y EXCEPT !.piped = TRUE]
             f == events \ {"upgrade"}
  <2>3. y \in Objects /\ y.client = s.client /\ y.up = "open" /\ y.res = s.res
    BY <1>1 DEF Objects
  <2>4. z \in Objects /\ z.client = s.client /\ z.up = "open" /\ z.res = s.res
    BY <1>1 DEF Objects
  <2>5. f \in SUBSET EventNames
    BY <1>1
  <2> HIDE DEF y, z, f
  <2>6. CASE ClientGone
    <3> DEFINE g == [st |-> y, ev |-> f]  c == ProxySocket(g)
    <3>1. g \in Pairs /\ g.st = y /\ g.ev = f
      BY <2>3, <2>5 DEF Pairs
    <3>2. c \in Pairs /\ c.st.client = y.client /\ c.st.up \notin {"open", "ended"}
      BY <3>1, ProxySocketKeeps
    <3>3. Become(c) /\ s.client = "destroyed"
      BY <1>2, <2>6 DEF OnUpgrade, ClientGone, y, f
    <3> HIDE DEF c
    <3> QED
      BY SidesPair, <2>3, <3>2, <3>3 DEF ClientReported, AnswerReported
  <2>7. CASE ~ClientGone
    <3>1. s.client # "destroyed"
      BY <2>7 DEF ClientGone
    <3>2. s' = z /\ events' = f
      BY <1>2, <2>7 DEF OnUpgrade, y, z, f
    <3>3. "res aborted" \in events => "res aborted" \in f
      BY DEF f
    <3> QED
      BY <1>1, <2>4, <2>5, <3>1, <3>2, <3>3 DEF SidesInv, ClientReported, AnswerReported
  <2> QED
    BY <2>6, <2>7
<1>3. CASE OnResponse
  <2> DEFINE y == [s EXCEPT !.req = "responded", !.res = "body"]
  <2>1. s' = y /\ events' = events \ {"response"}
    BY <1>1, <1>3 DEF OnResponse, Become, After, Objects
  <2>2. y \in Objects /\ y.client = s.client /\ y.up = s.up /\ y.res = "body"
    BY <1>1 DEF Objects
  <2> HIDE DEF y
  <2> QED
    BY <1>1, <2>1, <2>2 DEF SidesInv, ClientReported, AnswerReported
<1>4. CASE OnResponseEnd
  <2> DEFINE c == IF s.client = "open" THEN "ended" ELSE s.client
             y == [s EXCEPT !.res = "ended", !.client = c]
  <2>1. s' = y /\ events' = events \ {"res end"}
    BY <1>1, <1>4 DEF OnResponseEnd, Become, After, Objects
  <2>2. c \in {"open", "ended", "destroyed"} /\ (c = "destroyed" <=> s.client = "destroyed")
    BY <1>1 DEF Objects
  <2> HIDE DEF c
  <2>3. y \in Objects /\ y.client = c /\ y.up = s.up /\ y.res = "ended"
    BY <1>1, <2>2 DEF Objects
  <2> HIDE DEF y
  <2> QED
    BY <1>1, <2>1, <2>2, <2>3 DEF SidesInv, ClientReported, AnswerReported
<1>5. CASE ClientEnds
  <2> DEFINE y == [s EXCEPT !.up = "ended"]
  <2>1. s' = y /\ events' = events /\ s.client # "destroyed"
    BY <1>5 DEF ClientEnds
  <2>2. y \in Objects /\ y.client = s.client /\ y.up = "ended" /\ y.res = s.res
    BY <1>1 DEF Objects
  <2> HIDE DEF y
  <2> QED
    BY <1>1, <2>1, <2>2 DEF SidesInv, ClientReported, AnswerReported
<1>6. CASE ResponseDone \/ \E e \in {"upgrade", "response"} : WorkerAnswers(e)
  <2>1. s' = s /\ \E e \in {"res end", "upgrade", "response"} : events' = events \cup {e}
    BY <1>6 DEF ResponseDone, WorkerAnswers
  <2>2. events' \in SUBSET EventNames /\ events \subseteq events'
    BY <1>1, <2>1 DEF EventNames
  <2> QED
    BY <1>1, <2>1, <2>2 DEF SidesInv, ClientReported, AnswerReported
<1>7. ASSUME NEW error \in BOOLEAN, ClientLeaves(error)
      PROVE  SidesInv'
  <2> DEFINE y == [s EXCEPT !.client = "destroyed"]
  <2>1. s' = y
    BY <1>7 DEF ClientLeaves
  <2>2. events' \in SUBSET EventNames /\ "socket close" \in events'
    BY <1>1, <1>7 DEF ClientLeaves, EventNames
  <2>3. y \in Objects /\ y.client = "destroyed"
    BY <1>1 DEF Objects
  <2> HIDE DEF y
  <2> QED
    BY <2>1, <2>2, <2>3 DEF SidesInv, ClientReported, AnswerReported
<1>8. ASSUME NEW error \in BOOLEAN, WorkerCloses(error)
      PROVE  SidesInv'
  <2>1. CASE Become(ProxyReq(Here))
    BY <2>1, SidesProxyReq
  <2>2. CASE /\ s.up \in {"open", "ended"}
             /\ s' = [ProxySocket(Here).st EXCEPT
                         !.client = IF s.piped /\ ~error /\ @ = "open" THEN "ended" ELSE @]
             /\ events' = ProxySocket(Here).ev \cup (IF error THEN {"up error"} ELSE {})
    <3> DEFINE c == IF s.piped /\ ~error /\ s.client = "open" THEN "ended" ELSE s.client
               y == [s EXCEPT !.up = "destroyed", !.client = c]
               f == (events \cup {"up close"}) \cup (IF error THEN {"up error"} ELSE {})
    <3>1. /\ ProxySocket(Here).st = [s EXCEPT !.up = "destroyed"]
          /\ ProxySocket(Here).ev = events \cup {"up close"}
          /\ [s EXCEPT !.up = "destroyed"].client = s.client
      BY <1>1, <2>2 DEF ProxySocket, Here, Objects
    <3>2. s' = y /\ events' = f
      BY <2>2, <3>1
    <3>3. c \in {"open", "ended", "destroyed"} /\ (c = "destroyed" <=> s.client = "destroyed")
      BY <1>1 DEF Objects
    <3>4. f \in SUBSET EventNames /\ events \subseteq f /\ "up close" \in f
      BY <1>1 DEF EventNames
    <3> HIDE DEF c, f
    <3>5. y \in Objects /\ y.client = c /\ y.up = "destroyed" /\ y.res = s.res
      BY <1>1, <3>3 DEF Objects
    <3> HIDE DEF y
    <3> QED
      BY <1>1, <3>2, <3>3, <3>4, <3>5 DEF SidesInv, ClientReported, AnswerReported
  <2> QED
    BY <1>8, <2>1, <2>2 DEF WorkerCloses
<1> QED
  BY <1>2, <1>3, <1>4, <1>5, <1>6, <1>7, <1>8

\* Every step keeps the invariant.
LEMMA SidesStep == SidesInv /\ [RequestNext]_requestVars => SidesInv'
<1> SUFFICES ASSUME SidesInv, [RequestNext]_requestVars PROVE SidesInv'
  OBVIOUS
<1>1. ASSUME UNCHANGED <<s, events>>
      PROVE  SidesInv'
  BY <1>1 DEF SidesInv, ClientReported, AnswerReported
<1>2. CASE ClientSends \/ WorkerSends \/ PipeDown \/ PipeBack \/ UNCHANGED requestVars
  BY <1>1, <1>2 DEF ClientSends, WorkerSends, PipeDown, PipeBack, requestVars
<1>4. CASE \/ Deliver \/ OnTimeout \/ ClientEnds \/ ResponseDone
           \/ \E error \in BOOLEAN : ClientLeaves(error) \/ WorkerCloses(error)
           \/ \E e \in {"upgrade", "response"} : WorkerAnswers(e)
  BY <1>4, SidesMove, SidesDestroy DEF Deliver
<1> QED
  BY <1>2, <1>4 DEF RequestNext

\* When route() is called no event is due and nothing but the client can have gone.
LEMMA SidesInit == RequestInit => SidesInv
BY DEF RequestInit, SidesInv, Objects, EventNames, ClientReported, AnswerReported

\* When no event is due, the client's socket and the upgraded socket, or the
\* response, have gone together or not at all (route() in index.ts).
THEOREM SidesEndTogether == RequestSpec => []NoOrphanSide
<1>1. SidesInv => NoOrphanSide
  BY DEF SidesInv, NoOrphanSide, ClientReported, AnswerReported
<1> QED
  BY <1>1, SidesInit, SidesStep, PTL DEF RequestSpec

-----------------------------------------------------------------------------
(* The data of a proxied request.                                          *)

\* The head put in front of what is unread.
LEMMA OrderUnshift ==
    ASSUME NEW n \in Nat, NEW h \in Seq(Nat), NEW u \in Seq(Nat), NEW o \in Seq(Nat),
           NEW z \in {0, 1}, InOrder(n, h, u, o, z), NEW e \in Seq(Nat), Len(e) = 0
    PROVE  InOrder(n, e, h \o u, o, z)
<1> DEFINE v == h \o u
<1>1. Len(h) \in Nat /\ Len(u) \in Nat /\ Len(o) \in Nat
  OBVIOUS
<1>2. Len(v) = Len(h) + Len(u) /\ \A i \in 1..Len(v) : v[i] = IF i <= Len(h) THEN h[i] ELSE u[i - Len(h)]
  OBVIOUS
<1> HIDE DEF v
<1>3. \A i \in 1..Len(v) : v[i] = (Len(o) - z) + i
  <2> SUFFICES ASSUME NEW i \in 1..Len(v) PROVE v[i] = (Len(o) - z) + i
    OBVIOUS
  <2>1. CASE i <= Len(h)
    <3>1. v[i] = h[i] /\ i \in 1..Len(h)
      BY <1>1, <1>2, <2>1
    <3>2. h[i] = (Len(o) - z) + i
      BY <3>1 DEF InOrder
    <3> QED
      BY <3>1, <3>2
  <2>2. CASE i > Len(h)
    <3> DEFINE j == i - Len(h)
    <3>1. v[i] = u[j] /\ j \in 1..Len(u) /\ i = Len(h) + j
      BY <1>1, <1>2, <2>2
    <3>2. u[j] = (Len(o) - z) + Len(h) + j
      BY <3>1 DEF InOrder
    <3> HIDE DEF j
    <3> QED
      BY <1>1, <3>1, <3>2
  <2> QED
    BY <1>1, <1>2, <2>1, <2>2
<1> QED
  BY <1>1, <1>2, <1>3 DEF InOrder, v

\* One more piece behind the unread ones.
LEMMA OrderSend ==
    ASSUME NEW n \in Nat, NEW h \in Seq(Nat), NEW u \in Seq(Nat), NEW o \in Seq(Nat),
           NEW z \in {0, 1}, InOrder(n, h, u, o, z)
    PROVE  InOrder(n + 1, h, Append(u, n + 1), o, z)
<1> DEFINE v == Append(u, n + 1)
<1>1. Len(h) \in Nat /\ Len(u) \in Nat /\ Len(o) \in Nat
  OBVIOUS
<1>2. Len(v) = Len(u) + 1 /\ v[Len(u) + 1] = n + 1 /\ \A i \in 1..Len(u) : v[i] = u[i]
  OBVIOUS
<1> HIDE DEF v
<1>3. \A i \in 1..Len(v) : v[i] = (Len(o) - z) + Len(h) + i
  <2> SUFFICES ASSUME NEW i \in 1..Len(v) PROVE v[i] = (Len(o) - z) + Len(h) + i
    OBVIOUS
  <2>1. CASE i <= Len(u)
    <3>1. v[i] = u[i] /\ i \in 1..Len(u)
      BY <1>1, <1>2, <2>1
    <3> QED
      BY <3>1 DEF InOrder
  <2>2. CASE i = Len(u) + 1
    <3>1. v[i] = n + 1
      BY <1>1, <1>2, <2>2
    <3> QED
      BY <1>1, <2>2, <3>1 DEF InOrder
  <2> QED
    BY <1>1, <1>2, <2>1, <2>2
<1> QED
  BY <1>1, <1>2, <1>3 DEF InOrder, v

\* The first unread piece passed on, once there is no head left.
LEMMA OrderPass ==
    ASSUME NEW n \in Nat, NEW h \in Seq(Nat), NEW u \in Seq(Nat), NEW o \in Seq(Nat),
           NEW z \in {0, 1}, InOrder(n, h, u, o, z), Len(h) = 0, u # <<>>
    PROVE  InOrder(n, h, Tail(u), Append(o, Head(u)), z)
<1> DEFINE v == Tail(u)
           p == Append(o, Head(u))
<1>1. Len(h) \in Nat /\ Len(u) \in Nat /\ Len(o) \in Nat /\ Len(u) > 0
  OBVIOUS
<1>2. Len(v) = Len(u) - 1 /\ \A i \in 1..Len(v) : v[i] = u[i + 1]
  OBVIOUS
<1>3. Len(p) = Len(o) + 1 /\ p[Len(o) + 1] = u[1] /\ \A i \in 1..Len(o) : p[i] = o[i]
  OBVIOUS
<1> HIDE DEF v, p
<1>4. u[1] = (Len(o) - z) + 1
  BY <1>1 DEF InOrder
<1>5. \A i \in 1..Len(p) : p[i] = i - z
  <2> SUFFICES ASSUME NEW i \in 1..Len(p) PROVE p[i] = i - z
    OBVIOUS
  <2>1. CASE i <= Len(o)
    <3>1. p[i] = o[i] /\ i \in 1..Len(o)
      BY <1>1, <1>3, <2>1
    <3> QED
      BY <3>1 DEF InOrder
  <2>2. CASE i = Len(o) + 1
    BY <1>1, <1>3, <1>4, <2>2
  <2> QED
    BY <1>1, <1>3, <2>1, <2>2
<1>6. \A i \in 1..Len(v) : v[i] = (Len(p) - z) + Len(h) + i
  BY <1>1, <1>2, <1>3 DEF InOrder
<1>7. z <= Len(p) /\ n = (Len(p) - z) + Len(h) + Len(v)
  BY <1>1, <1>2, <1>3 DEF InOrder
<1> QED
  BY <1>5, <1>6, <1>7 DEF InOrder, v, p

\* The head of the answer before anything was passed on.
LEMMA OrderHead ==
    ASSUME NEW n \in Nat, NEW h \in Seq(Nat), NEW u \in Seq(Nat), NEW o \in Seq(Nat),
           InOrder(n, h, u, o, 0), o = <<>>
    PROVE  InOrder(n, h, u, Append(o, 0), 1)
<1> DEFINE p == Append(o, 0)
<1>1. Len(h) \in Nat /\ Len(u) \in Nat /\ Len(o) = 0
  OBVIOUS
<1>2. Len(p) = 1 /\ \A i \in 1..Len(p) : p[i] = 0
  OBVIOUS
<1> HIDE DEF p
<1> QED
  BY <1>1, <1>2 DEF InOrder, p

\* The fields of a record of pieces.
LEMMA PiecesTypes ==
    ASSUME NEW d \in Pieces
    PROVE  d.sent \in Nat /\ d.head \in Seq(Nat) /\ d.unread \in Seq(Nat) /\ d.out \in Seq(Nat)
BY DEF Pieces

\* Unshift keeps the order and leaves no head.
LEMMA UnshiftKeeps ==
    ASSUME NEW d \in Pieces, NEW z \in {0, 1}, Numbered(d, z)
    PROVE  /\ Unshift(d) \in Pieces /\ Numbered(Unshift(d), z)
           /\ Unshift(d).head = <<>> /\ Unshift(d).out = d.out
<1> DEFINE nil == <<>>
           u == d.head \o d.unread
           e == [d EXCEPT !.unread = u, !.head = nil]
<1>1. d.sent \in Nat /\ d.head \in Seq(Nat) /\ d.unread \in Seq(Nat) /\ d.out \in Seq(Nat)
  BY PiecesTypes
<1>2. nil \in Seq(Nat) /\ Len(nil) = 0 /\ u \in Seq(Nat)
  BY <1>1
<1>3. Unshift(d) = e
  BY DEF Unshift
<1>4. InOrder(d.sent, nil, u, d.out, z)
  <2> HIDE DEF nil
  <2> QED
    BY <1>1, <1>2, OrderUnshift DEF Numbered
<1> HIDE DEF u, nil
<1>5. e \in Pieces /\ e.sent = d.sent /\ e.head = nil /\ e.unread = u /\ e.out = d.out
  BY <1>2, ZenonT(30) DEF Pieces
<1> HIDE DEF e
<1>6. Numbered(e, z)
  BY <1>4, <1>5 DEF Numbered
<1> QED
  BY <1>3, <1>5, <1>6 DEF nil

\* Sends keeps the order.
LEMMA SendsKeeps ==
    ASSUME NEW d \in Pieces, NEW z \in {0, 1}, Numbered(d, z)
    PROVE  /\ Sends(d) \in Pieces /\ Numbered(Sends(d), z)
           /\ Sends(d).head = d.head /\ Sends(d).out = d.out
<1> DEFINE n == d.sent + 1
           u == Append(d.unread, n)
           e == [d EXCEPT !.sent = n, !.unread = u]
<1>1. d.sent \in Nat /\ d.head \in Seq(Nat) /\ d.unread \in Seq(Nat) /\ d.out \in Seq(Nat)
  BY PiecesTypes
<1>2. n \in Nat /\ u \in Seq(Nat)
  BY <1>1
<1>3. Sends(d) = e
  BY DEF Sends
<1>4. InOrder(n, d.head, u, d.out, z)
  BY <1>1, OrderSend DEF Numbered
<1> HIDE DEF n, u
<1>5. e \in Pieces /\ e.sent = n /\ e.head = d.head /\ e.unread = u /\ e.out = d.out
  BY <1>2, ZenonT(30) DEF Pieces
<1> HIDE DEF e
<1>6. Numbered(e, z)
  BY <1>4, <1>5 DEF Numbered
<1> QED
  BY <1>3, <1>5, <1>6

\* Passes keeps the order once there is no head left.
LEMMA PassesKeeps ==
    ASSUME NEW d \in Pieces, NEW z \in {0, 1}, Numbered(d, z), d.head = <<>>, d.unread # <<>>
    PROVE  /\ Passes(d) \in Pieces /\ Numbered(Passes(d), z)
           /\ Passes(d).head = <<>> /\ Passes(d).out # <<>>
<1> DEFINE u == Tail(d.unread)
           o == Append(d.out, Head(d.unread))
           e == [d EXCEPT !.unread = u, !.out = o]
<1>1. d.sent \in Nat /\ d.head \in Seq(Nat) /\ d.unread \in Seq(Nat) /\ d.out \in Seq(Nat)
  BY PiecesTypes
<1>2. u \in Seq(Nat) /\ o \in Seq(Nat) /\ o # <<>>
  <2>1. d.unread[1] \in Nat /\ Head(d.unread) = d.unread[1] /\ u \in Seq(Nat)
    BY <1>1
  <2>2. o \in Seq(Nat) /\ Len(o) = Len(d.out) + 1 /\ Len(d.out) \in Nat
    BY <1>1, <2>1
  <2> HIDE DEF o, u
  <2> QED
    BY <2>1, <2>2
<1>3. Passes(d) = e
  BY DEF Passes
<1>4. Len(d.head) = 0
  OBVIOUS
<1>5. InOrder(d.sent, d.head, u, o, z)
  BY <1>1, <1>4, OrderPass DEF Numbered
<1> HIDE DEF u, o
<1>6. e \in Pieces /\ e.sent = d.sent /\ e.head = d.head /\ e.unread = u /\ e.out = o
  BY <1>2, ZenonT(30) DEF Pieces
<1> HIDE DEF e
<1>7. Numbered(e, z)
  BY <1>5, <1>6 DEF Numbered
<1> QED
  BY <1>2, <1>3, <1>6, <1>7

\* The head of the answer goes before all of it.
LEMMA AnswerHead ==
    ASSUME NEW d \in Pieces, Numbered(d, 0), d.out = <<>>
    PROVE  LET e == [d EXCEPT !.out = Append(@, 0)]
           IN  e \in Pieces /\ Numbered(e, 1) /\ e.head = d.head /\ e.out # <<>>
<1> DEFINE o == Append(d.out, 0)
           e == [d EXCEPT !.out = o]
<1>1. d.sent \in Nat /\ d.head \in Seq(Nat) /\ d.unread \in Seq(Nat) /\ d.out \in Seq(Nat)
  BY PiecesTypes
<1>2. o \in Seq(Nat) /\ o # <<>>
  BY <1>1
<1>3. [d EXCEPT !.out = Append(@, 0)] = e
  OBVIOUS
<1>4. InOrder(d.sent, d.head, d.unread, o, 1)
  BY <1>1, OrderHead DEF Numbered
<1> HIDE DEF o
<1>5. e \in Pieces /\ e.sent = d.sent /\ e.head = d.head /\ e.unread = d.unread /\ e.out = o
  BY <1>2 DEF Pieces
<1> HIDE DEF e
<1>6. Numbered(e, 1)
  BY <1>4, <1>5 DEF Numbered
<1> QED
  BY <1>2, <1>3, <1>5, <1>6

\* A step that moves no data and reports no new answer.
LEMMA RelayQuiet ==
    ASSUME RelayInv, UNCHANGED <<answer, down, back>>,
           "upgrade" \in events' => "upgrade" \in events,
           "response" \in events' => "response" \in events,
           s'.piped = s.piped, s.up = "none" => s'.up = "none"
    PROVE  RelayInv'
<1>1. NotAnswered => NotAnswered'
  BY DEF NotAnswered
<1> QED
  BY <1>1 DEF RelayInv

\* The handlers that destroy something move no data.
LEMMA RelayDestroy ==
    ASSUME SidesInv, RelayInv,
           \/ OnSocketError \/ OnSocketClose \/ OnUpstreamError \/ OnUpstreamClose
           \/ OnTimeout \/ OnResponseAborted \/ OnRequestError
    PROVE  RelayInv'
<1>0. UNCHANGED <<answer, down, back>>
  BY DEF OnSocketError, OnSocketClose, OnUpstreamError, OnUpstreamClose,
         OnTimeout, OnResponseAborted, OnRequestError
<1>1. ASSUME NEW x \in Pairs, Become(x), x.st.piped = s.piped, s.up = "none" => x.st.up = "none",
             x.ev \subseteq events \cup {"socket close", "up close", "req error", "res aborted"}
      PROVE  RelayInv'
  BY <1>0, <1>1, RelayQuiet DEF Become
<1>2. CASE OnSocketError
  <2> DEFINE a == After("socket error")  b == ProxyReq(a)  c == ProxySocket(b)
             d == Socket(c)
  <2>1. a \in Pairs /\ a.st = s /\ a.ev \subseteq events
    BY PairsHere DEF EventNames
  <2>2. /\ b \in Pairs /\ b.st.piped = s.piped /\ b.st.up = s.up
        /\ b.ev \subseteq a.ev \cup {"req error", "res aborted"}
    BY <2>1, ProxyReqKeeps
  <2>3. /\ c \in Pairs /\ c.st.piped = b.st.piped /\ c.ev \subseteq b.ev \cup {"up close"}
        /\ b.st.up = "none" => c.st.up = "none"
    BY <2>2, ProxySocketKeeps
  <2>4. /\ d \in Pairs /\ d.st.piped = c.st.piped /\ d.st.up = c.st.up
        /\ d.ev \subseteq c.ev \cup {"socket close"}
    BY <2>3, SocketKeeps
  <2>5. Become(d)
    BY <1>2 DEF OnSocketError
  <2> HIDE DEF a, b, c, d
  <2> QED
    BY <1>1, <2>1, <2>2, <2>3, <2>4, <2>5
<1>3. CASE OnSocketClose
  <2> DEFINE a == After("socket close")  b == ProxyReq(a)  c == ProxySocket(b)
  <2>1. a \in Pairs /\ a.st = s /\ a.ev \subseteq events
    BY PairsHere DEF EventNames
  <2>2. /\ b \in Pairs /\ b.st.piped = s.piped /\ b.st.up = s.up
        /\ b.ev \subseteq a.ev \cup {"req error", "res aborted"}
    BY <2>1, ProxyReqKeeps
  <2>3. /\ c \in Pairs /\ c.st.piped = b.st.piped /\ c.ev \subseteq b.ev \cup {"up close"}
        /\ b.st.up = "none" => c.st.up = "none"
    BY <2>2, ProxySocketKeeps
  <2>4. Become(c)
    BY <1>3 DEF OnSocketClose, ClientClosed
  <2> HIDE DEF a, b, c
  <2> QED
    BY <1>1, <2>1, <2>2, <2>3, <2>4
<1>4. ASSUME NEW e \in {"up error", "up close", "res aborted", "req error"},
             Become(Socket(After(e)))
      PROVE  RelayInv'
  <2> DEFINE a == After(e)  d == Socket(a)
  <2>1. a \in Pairs /\ a.st = s /\ a.ev \subseteq events
    BY PairsHere DEF EventNames
  <2>2. /\ d \in Pairs /\ d.st.piped = s.piped /\ d.st.up = s.up
        /\ d.ev \subseteq a.ev \cup {"socket close"}
    BY <2>1, SocketKeeps
  <2>3. Become(d)
    BY <1>4
  <2> HIDE DEF a, d
  <2> QED
    BY <1>1, <2>1, <2>2, <2>3
<1>5. CASE OnTimeout
  <2> DEFINE a == Here  b == ProxyReq(a)
  <2>1. a \in Pairs /\ a.st = s /\ a.ev = events
    BY PairsHere
  <2>2. /\ b \in Pairs /\ b.st.piped = s.piped /\ b.st.up = s.up
        /\ b.ev \subseteq a.ev \cup {"req error", "res aborted"}
    BY <2>1, ProxyReqKeeps
  <2>3. Become(b)
    BY <1>5 DEF OnTimeout
  <2> HIDE DEF a, b
  <2> QED
    BY <1>1, <2>1, <2>2, <2>3
<1> QED
  BY <1>2, <1>3, <1>4, <1>5 DEF OnUpstreamError, OnUpstreamClose,
     OnResponseAborted, OnRequestError, LostUpstream

\* So do the steps of the client and the worker that end one of them.
LEMMA RelayEnds ==
    ASSUME SidesInv, RelayInv,
           \/ OnResponseEnd \/ ClientEnds \/ ResponseDone
           \/ \E error \in BOOLEAN : ClientLeaves(error) \/ WorkerCloses(error)
    PROVE  RelayInv'
<1>0. s \in Objects /\ UNCHANGED <<answer, down, back>>
  BY DEF SidesInv, OnResponseEnd, ClientEnds, ResponseDone, ClientLeaves, WorkerCloses
<1>1. /\ "upgrade" \in events' => "upgrade" \in events
      /\ "response" \in events' => "response" \in events
      /\ s'.piped = s.piped /\ (s.up = "none" => s'.up = "none")
  <2>1. CASE OnResponseEnd
    BY <1>0, <2>1 DEF OnResponseEnd, Become, After, Objects
  <2>2. CASE ClientEnds
    BY <1>0, <2>2 DEF ClientEnds, Objects
  <2>3. CASE ResponseDone
    BY <1>0, <2>3 DEF ResponseDone
  <2>4. ASSUME NEW error \in BOOLEAN, ClientLeaves(error)
        PROVE  <1>1!:
    BY <1>0, <2>4 DEF ClientLeaves, Objects
  <2>5. CASE Become(ProxyReq(Here))
    <3> DEFINE a == Here  b == ProxyReq(a)
    <3>1. a \in Pairs /\ a.st = s /\ a.ev = events
      BY PairsHere
    <3>2. /\ b \in Pairs /\ b.st.piped = s.piped /\ b.st.up = s.up
          /\ b.ev \subseteq a.ev \cup {"req error", "res aborted"}
      BY <3>1, ProxyReqKeeps
    <3>3. s' = b.st /\ events' = b.ev
      BY <2>5 DEF Become
    <3> HIDE DEF a, b
    <3> QED
      BY <3>1, <3>2, <3>3
  <2>6. ASSUME NEW error \in BOOLEAN, s.up \in {"open", "ended"},
               s' = [ProxySocket(Here).st EXCEPT
                         !.client = IF s.piped /\ ~error /\ @ = "open" THEN "ended" ELSE @],
               events' = ProxySocket(Here).ev \cup (IF error THEN {"up error"} ELSE {})
        PROVE  <1>1!:
    <3> DEFINE a == Here  b == ProxySocket(a)
               c == IF s.piped /\ ~error /\ b.st.client = "open" THEN "ended" ELSE b.st.client
    <3>1. a \in Pairs /\ a.st = s /\ a.ev = events
      BY PairsHere
    <3>2. /\ b \in Pairs /\ b.st.piped = s.piped /\ b.st \in Objects
          /\ b.ev \subseteq a.ev \cup {"up close"}
      BY <3>1, ProxySocketKeeps DEF Pairs
    <3>3. s' = [b.st EXCEPT !.client = c]
      BY <2>6
    <3> HIDE DEF a, b, c
    <3>4. s'.piped = b.st.piped
      BY <3>2, <3>3 DEF Objects
    <3>5. events' \subseteq b.ev \cup {"up error"}
      BY <2>6 DEF a, b
    <3> QED
      BY <2>6, <3>1, <3>2, <3>4, <3>5
  <2> QED
    BY <2>1, <2>2, <2>3, <2>4, <2>5, <2>6 DEF WorkerCloses
<1> QED
  BY <1>0, <1>1, RelayQuiet

\* The answer of the worker and its report to route().
LEMMA RelayAnswer ==
    ASSUME SidesInv, RelayInv,
           \/ OnUpgrade \/ OnResponse
           \/ \E e \in {"upgrade", "response"} : WorkerAnswers(e)
    PROVE  RelayInv'
<1>0. s \in Objects /\ down \in Pieces /\ back \in Pieces /\ Numbered(down, 0)
  BY DEF SidesInv, RelayInv
<1>1. CASE OnUpgrade
  <2> DEFINE y == [s EXCEPT !.req = "upgraded", !.up = "open"]
             z == [y EXCEPT !.piped = TRUE]
             f == events \ {"upgrade"}
  <2>0. "upgrade" \in events /\ UNCHANGED answer
    BY <1>1 DEF OnUpgrade
  <2>1. /\ back.out = <<>> /\ Numbered(back, 0) /\ ~s.piped /\ "response" \notin events
        /\ answer = "answered"
    <3>1. back.out = <<>> /\ ~s.piped /\ "response" \notin events /\ answer = "answered"
      BY <2>0 DEF RelayInv, NotAnswered
    <3>2. Len(back.out) = 0
      BY <3>1
    <3>3. ~Numbered(back, 1)
      BY <3>2 DEF Numbered, InOrder
    <3> QED
      BY <3>1, <3>3 DEF RelayInv
  <2>2. "upgrade" \notin f /\ "response" \notin f
    BY <2>1
  <2>3. y \in Objects /\ y.piped = s.piped
    BY <1>0 DEF Objects
  <2> HIDE DEF y, f
  <2>4. CASE ClientGone
    <3> DEFINE g == [st |-> y, ev |-> f]  c == ProxySocket(g)
    <3>0. f \in SUBSET EventNames
      BY DEF f, SidesInv
    <3>1. g \in Pairs /\ g.st = y /\ g.ev = f
      BY <2>3, <3>0 DEF Pairs
    <3>2. c \in Pairs /\ c.st.piped = y.piped /\ c.ev \subseteq f \cup {"up close"}
      BY <3>1, ProxySocketKeeps
    <3>3. Become(c) /\ UNCHANGED <<down, back>>
      BY <1>1, <2>4 DEF OnUpgrade, y, f
    <3>4. s' = c.st /\ events' = c.ev
      BY <3>3 DEF Become
    <3> HIDE DEF c
    <3>5. s'.piped = s.piped /\ "upgrade" \notin events' /\ "response" \notin events'
      BY <2>2, <2>3, <3>2, <3>4
    <3> QED
      BY <2>0, <2>1, <3>3, <3>5 DEF RelayInv
  <2>5. CASE ~ClientGone
    <3> DEFINE e == Unshift(back)
               b == [e EXCEPT !.out = Append(@, 0)]
    <3>1. /\ s' = z /\ events' = f /\ down' = Unshift(down) /\ back' = b
      BY <1>1, <2>5 DEF OnUpgrade, y, z, f
    <3>2. s'.piped = TRUE
      BY <2>3, <3>1 DEF Objects
    <3>3. down' \in Pieces /\ Numbered(down', 0) /\ down'.head = <<>>
      BY <1>0, <3>1, UnshiftKeeps
    <3>4. e \in Pieces /\ Numbered(e, 0) /\ e.out = <<>> /\ e.head = <<>>
      BY <1>0, <2>1, UnshiftKeeps
    <3>5. b \in Pieces /\ Numbered(b, 1) /\ b.head = <<>> /\ b.out # <<>>
      <4> HIDE DEF e
      <4> QED
        BY <3>4, AnswerHead
    <3> HIDE DEF b, e
    <3> QED
      BY <2>0, <2>1, <2>2, <3>1, <3>2, <3>3, <3>5 DEF RelayInv, Numbered
  <2> QED
    BY <2>4, <2>5
<1>2. CASE OnResponse
  <2> DEFINE b == [back EXCEPT !.out = Append(@, 0)]
  <2>0. /\ "response" \in events /\ UNCHANGED <<answer, down>> /\ events' = events \ {"response"}
        /\ s' = [s EXCEPT !.req = "responded", !.res = "body"] /\ back' = b
    BY <1>0, <1>2 DEF OnResponse, Become, After, Objects
  <2>1. /\ back.out = <<>> /\ Numbered(back, 0) /\ ~s.piped /\ "upgrade" \notin events
        /\ answer = "answered"
    <3>1. back.out = <<>> /\ ~s.piped /\ "upgrade" \notin events /\ answer = "answered"
      BY <2>0 DEF RelayInv, NotAnswered
    <3>2. Len(back.out) = 0
      BY <3>1
    <3>3. ~Numbered(back, 1)
      BY <3>2 DEF Numbered, InOrder
    <3> QED
      BY <3>1, <3>3 DEF RelayInv
  <2>2. b \in Pieces /\ Numbered(b, 1)
    BY <1>0, <2>1, AnswerHead
  <2>3. s'.piped = s.piped
    BY <1>0, <2>0 DEF Objects
  <2> HIDE DEF b
  <2> QED
    BY <2>0, <2>1, <2>2, <2>3 DEF RelayInv, Numbered
<1>3. ASSUME NEW e \in {"upgrade", "response"}, WorkerAnswers(e)
      PROVE  RelayInv'
  <2>1. /\ answer # "answered" /\ answer' = "answered" /\ events' = events \cup {e}
        /\ UNCHANGED <<s, down>>
    BY <1>3 DEF WorkerAnswers
  <2>2. NotAnswered
    BY <2>1 DEF RelayInv
  <2>3. PICK n \in 0..1 : back' = [back EXCEPT !.sent = n, !.head = [i \in 1..n |-> i]]
    <3> DEFINE N == IF e = "upgrade" THEN 1 ELSE 0
    <3>1. \E n \in 0..N : back' = [back EXCEPT !.sent = n, !.head = [i \in 1..n |-> i]]
      BY <1>3, Zenon DEF WorkerAnswers
    <3>2. \A n \in 0..N : n \in 0..1
      OBVIOUS
    <3> HIDE DEF N
    <3> QED
      BY <3>1, <3>2, Zenon
  <2> DEFINE h == [i \in 1..n |-> i]
             b == [back EXCEPT !.sent = n, !.head = h]
  <2>4. h \in Seq(Nat) /\ Len(h) = n /\ (\A i \in 1..n : h[i] = i) /\ n \in Nat
    <3>1. n \in Nat /\ h \in [1..n -> Nat]
      OBVIOUS
    <3>2. h \in Seq(Nat)
      BY <3>1
    <3>3. Len(h) = n
      BY <3>1
    <3> QED
      BY <3>1, <3>2, <3>3
  <2>5. back.unread \in Seq(Nat) /\ back.out \in Seq(Nat) /\ Len(back.unread) = 0 /\ Len(back.out) = 0
    BY <1>0, <2>2, PiecesTypes DEF NotAnswered
  <2> HIDE DEF h
  <2>6. b \in Pieces /\ b.sent = n /\ b.head = h /\ b.unread = back.unread /\ b.out = back.out
    BY <1>0, <2>4, ZenonT(30) DEF Pieces
  <2>7. back' = b
    BY <2>3 DEF h
  <2> HIDE DEF b
  <2>8. Numbered(b, 0)
    <3> DEFINE u == back.unread  o == back.out
    <3>1. Len(u) = 0 /\ Len(o) = 0
      BY <2>5
    <3> HIDE DEF u, o
    <3>2. InOrder(n, h, u, o, 0)
      BY <2>4, <3>1 DEF InOrder
    <3> QED
      BY <2>6, <3>2 DEF Numbered, u, o
  <2> QED
    BY <2>1, <2>2, <2>6, <2>7, <2>8 DEF RelayInv, NotAnswered, Numbered
<1> QED
  BY <1>1, <1>2, <1>3

\* The data the two sides send and the pipes pass on.
LEMMA RelayData ==
    ASSUME SidesInv, RelayInv,
           ClientSends \/ WorkerSends \/ PipeDown \/ PipeBack
    PROVE  RelayInv'
<1>0. /\ down \in Pieces /\ back \in Pieces /\ Numbered(down, 0)
      /\ UNCHANGED <<s, events, answer>>
  BY DEF RelayInv, ClientSends, WorkerSends, PipeDown, PipeBack
<1>1. CASE ClientSends
  <2>1. down' = Sends(down) /\ UNCHANGED back
    BY <1>1 DEF ClientSends
  <2>2. down' \in Pieces /\ Numbered(down', 0) /\ down'.head = down.head
    BY <1>0, <2>1, SendsKeeps
  <2> QED
    BY <1>0, <2>1, <2>2 DEF RelayInv, NotAnswered, Numbered
<1>2. CASE WorkerSends
  <2>1. /\ back' = Sends(back) /\ UNCHANGED down
        /\ "upgrade" \in events \/ s.up \in {"open", "ended"}
    BY <1>2 DEF WorkerSends
  <2>2. answer = "answered"
    BY <2>1 DEF RelayInv, NotAnswered
  <2>3. ASSUME NEW z \in {0, 1}, Numbered(back, z)
        PROVE  back' \in Pieces /\ Numbered(back', z) /\ back'.head = back.head /\ back'.out = back.out
    BY <1>0, <2>1, <2>3, SendsKeeps
  <2> QED
    BY <1>0, <2>1, <2>2, <2>3 DEF RelayInv, Numbered
<1>3. CASE PipeDown
  <2>1. down' = Passes(down) /\ UNCHANGED back /\ s.piped /\ down.unread # <<>>
    BY <1>3 DEF PipeDown
  <2>2. down' \in Pieces /\ Numbered(down', 0) /\ down'.head = <<>>
    BY <1>0, <2>1, PassesKeeps DEF RelayInv
  <2> QED
    BY <1>0, <2>1, <2>2 DEF RelayInv, NotAnswered, Numbered
<1>4. CASE PipeBack
  <2>1. back' = Passes(back) /\ UNCHANGED down /\ s.piped /\ back.unread # <<>>
    BY <1>4 DEF PipeBack
  <2>2. Numbered(back, 1) /\ back.head = <<>> /\ answer = "answered"
    BY <2>1 DEF RelayInv, NotAnswered
  <2>3. back' \in Pieces /\ Numbered(back', 1) /\ back'.head = <<>> /\ back'.out # <<>>
    BY <1>0, <2>1, <2>2, PassesKeeps
  <2> QED
    BY <1>0, <2>1, <2>2, <2>3 DEF RelayInv, Numbered
<1> QED
  BY <1>1, <1>2, <1>3, <1>4

\* Every step keeps the invariant.
LEMMA RelayStep == SidesInv /\ RelayInv /\ [RequestNext]_requestVars => RelayInv'
<1> SUFFICES ASSUME SidesInv, RelayInv, [RequestNext]_requestVars PROVE RelayInv'
  OBVIOUS
<1>1. CASE UNCHANGED requestVars
  BY <1>1 DEF RelayInv, NotAnswered, requestVars
<1>3. CASE \/ OnTimeout \/ ClientEnds \/ ResponseDone \/ Deliver
           \/ ClientSends \/ WorkerSends \/ PipeDown \/ PipeBack
           \/ \E error \in BOOLEAN : ClientLeaves(error) \/ WorkerCloses(error)
           \/ \E e \in {"upgrade", "response"} : WorkerAnswers(e)
  BY <1>3, RelayDestroy, RelayEnds, RelayAnswer, RelayData DEF Deliver
<1> QED
  BY <1>1, <1>3 DEF RequestNext

\* Before route() has read anything there is at most the head of the request.
LEMMA RelayInit == RequestInit => RelayInv
<1> SUFFICES ASSUME RequestInit PROVE RelayInv
  OBVIOUS
<1> DEFINE nil == <<>>
<1>1. PICK n \in 0..1 : down = [sent |-> n, head |-> [i \in 1..n |-> i], unread |-> nil, out |-> nil]
  BY DEF RequestInit
<1> DEFINE h == [i \in 1..n |-> i]
<1>2. n \in Nat /\ h \in Seq(Nat) /\ Len(h) = n /\ (\A i \in 1..n : h[i] = i)
  <2>1. n \in Nat /\ h \in [1..n -> Nat]
    OBVIOUS
  <2> QED
    BY <2>1
<1>3. nil \in Seq(Nat) /\ Len(nil) = 0
  OBVIOUS
<1>4. back = [sent |-> 0, head |-> nil, unread |-> nil, out |-> nil]
  BY DEF RequestInit
<1>5. /\ back.sent = 0 /\ back.head = <<>> /\ back.unread = <<>> /\ back.out = <<>>
      /\ "upgrade" \notin events /\ "response" \notin events /\ s.up = "none" /\ ~s.piped
  BY DEF RequestInit
<1> HIDE DEF h, nil
<1>6. down \in Pieces /\ down.sent = n /\ down.head = h /\ down.unread = nil /\ down.out = nil
  BY <1>1, <1>2, <1>3 DEF Pieces, h
<1>7. Numbered(down, 0)
  BY <1>2, <1>3, <1>6 DEF Numbered, InOrder
<1>8. back \in Pieces
  BY <1>3, <1>4 DEF Pieces
<1>9. Numbered(back, 0)
  BY <1>3, <1>4 DEF Numbered, InOrder
<1> QED
  BY <1>5, <1>6, <1>7, <1>8, <1>9 DEF RelayInv, NotAnswered

\* Each side receives the other's data in order from the first byte, what was
\* read before the pipes existed included, and the client gets one head of an
\* answer before any of it.
THEOREM DataRelayed == RequestSpec => []Relayed
<1>1. SidesInv /\ RelayInv => Relayed
  <2> SUFFICES ASSUME RelayInv PROVE Relayed
    OBVIOUS
  <2>0. down.out \in Seq(Nat) /\ back.out \in Seq(Nat)
    BY PiecesTypes DEF RelayInv
  <2>1. \A i \in DOMAIN down.out : down.out[i] = i
    BY <2>0 DEF RelayInv, Numbered, InOrder
  <2>2. ASSUME back.out # <<>>
        PROVE  Head(back.out) = 0 /\ \A i \in DOMAIN Tail(back.out) : Tail(back.out)[i] = i
    <3> DEFINE o == back.out
    <3>1. o \in Seq(Nat) /\ Len(o) > 0 /\ \A i \in 1..Len(o) : o[i] = i - 1
      <4>1. o \in Seq(Nat) /\ Len(o) > 0
        BY <2>0, <2>2
      <4>2. Numbered(back, 1)
        BY <2>2 DEF RelayInv
      <4> QED
        BY <4>1, <4>2 DEF Numbered, InOrder
    <3>2. Head(o) = o[1] /\ DOMAIN Tail(o) = 1..(Len(o) - 1) /\ Len(o) \in Nat
      BY <2>0, <2>2
    <3>3. \A i \in 1..(Len(o) - 1) : Tail(o)[i] = o[i + 1]
      BY <2>0, <2>2
    <3> HIDE DEF o
    <3>4. \A i \in DOMAIN Tail(o) : Tail(o)[i] = i
      BY <3>1, <3>2, <3>3
    <3>5. Head(o) = 0
      BY <3>1, <3>2
    <3> QED
      BY <3>4, <3>5 DEF o
  <2> QED
    BY <2>1, <2>2 DEF Relayed
<1> QED
  BY <1>1, SidesInit, SidesStep, RelayInit, RelayStep, PTL DEF RequestSpec

-----------------------------------------------------------------------------
(* The worker processes.                                                   *)

WorkerStates ==
    [st : {"none", "spawning", "spawned", "listening", "exited", "closed"}, port : Nat,
     sig : {"no", "term", "kill"}, handled : BOOLEAN]

CallStates ==
    [pc : {"idle", "ok", "failed", "fail", "detect", "spawn", "wait"}, i : Nat, count : Nat,
     port : Nat, worker : Workers \cup {0}]

StopStates ==
    [pc : {"idle", "wait", "done"}, workers : SUBSET Workers, gone : SUBSET Workers]

\* Types of the wrapper's state.
WrapperTypeOK ==
    /\ running \in BOOLEAN /\ processes \in Seq(Workers) /\ ports \in Seq(Nat)
    /\ calls \in [Callers -> CallStates] /\ worker \in [Workers -> WorkerStates]
    /\ spawned \in 0..MaxWorkers /\ stop \in StopStates

\* The two lists are parallel and name each worker, and each port, once.
Parallel(procs, prts, ws) ==
    /\ Len(prts) = Len(procs)
    /\ \A k \in 1..Len(procs) : ws[procs[k]].port = prts[k] /\ ws[procs[k]].handled
    /\ \A j, k \in 1..Len(procs) : j # k => procs[j] # procs[k] /\ prts[j] # prts[k]

\* A worker is handled only once it is on the list, and stays there while it
\* runs and was not told to end.
Listed(procs, ws) ==
    \A w \in Workers : /\ ws[w].st \in {"spawning", "spawned", "listening"}
                       /\ ws[w].handled /\ ws[w].sig = "no"
                       => \E k \in 1..Len(procs) : procs[k] = w

\* No worker that was not spawned yet has a close handler.
Unspawned == \A w \in Workers : w > spawned => ~worker[w].handled

\* One call of start() at a time.
OneCall == \A c, d \in Callers : calls[c].pc \notin Settled /\ calls[d].pc \notin Settled => c = d

\* The port a start() is about to use is no listed worker's, and the worker it
\* has spawned there is not listed yet.
InCall(c) ==
    /\ calls[c].pc \in {"detect", "spawn"} => calls[c].port \notin ToSet(ports)
    /\ calls[c].pc = "spawn" =>
         /\ calls[c].worker \in Workers /\ calls[c].worker <= spawned
         /\ ~worker[calls[c].worker].handled
         /\ worker[calls[c].worker].port = calls[c].port

\* While stop() waits, no start() adds a worker and each listed one was told to end.
Stopping ==
    stop.pc = "wait" =>
        /\ \A c \in Callers : calls[c].pc \in Settled
        /\ \A k \in 1..Len(processes) : Exited(processes[k]) \/ worker[processes[k]].sig # "no"

\* The inductive invariant of the lists.
ListsInv ==
    /\ WrapperTypeOK
    /\ ~running => processes = <<>>
    /\ Parallel(processes, ports, worker) /\ Listed(processes, worker)
    /\ Unspawned /\ OneCall /\ Stopping
    /\ \A c \in Callers : InCall(c)

\* The place d requests before the place r of the next one, among n.
Back(r, d, n) == IF r >= d THEN r - d ELSE (r + n) - d

\* The choices remembered are those at the places before the next one.
PicksInv ==
    /\ reqIndex \in Nat /\ picks \in Seq(Nat)
    /\ Len(picks) <= Len(ports)
    /\ picks # <<>> =>
         /\ reqIndex < Len(ports)
         /\ \A j \in 1..Len(picks) :
              picks[j] = ports[Back(reqIndex, (Len(picks) - j) + 1, Len(ports)) + 1]

\* The elements of a list.
LEMMA ListElements ==
    ASSUME NEW S, NEW q \in Seq(S), NEW x
    PROVE  x \in ToSet(q) <=> \E k \in 1..Len(q) : q[k] = x
<1>1. DOMAIN q = 1..Len(q)
  OBVIOUS
<1> QED
  BY <1>1, Zenon DEF ToSet

\* What splice(k - 1, 1) leaves of a list.
LEMMA RemoveAtList ==
    ASSUME NEW S, NEW q \in Seq(S), NEW k \in 1..Len(q)
    PROVE  /\ RemoveAt(q, k) \in Seq(S) /\ Len(RemoveAt(q, k)) = Len(q) - 1
           /\ \A i \in 1..(Len(q) - 1) :
                RemoveAt(q, k)[i] = IF i < k THEN q[i] ELSE q[i + 1]
<1> DEFINE a == SubSeq(q, 1, k - 1)
           b == SubSeq(q, k + 1, Len(q))
<1>1. Len(q) \in Nat /\ k \in Nat
  OBVIOUS
<1>2. a \in Seq(S) /\ Len(a) = k - 1 /\ \A i \in 1..(k - 1) : a[i] = q[i]
  BY <1>1
<1>3. b \in Seq(S) /\ Len(b) = Len(q) - k /\ \A i \in 1..(Len(q) - k) : b[i] = q[k + i]
  BY <1>1
<1>4. RemoveAt(q, k) = a \o b
  BY DEF RemoveAt
<1> HIDE DEF a, b
<1>5. a \o b \in Seq(S) /\ Len(a \o b) = Len(q) - 1
  <2>0. a \in Seq(S) /\ b \in Seq(S)
    BY <1>2, <1>3
  <2>1. a \o b \in Seq(S) /\ Len(a \o b) = Len(a) + Len(b)
    BY <2>0
  <2>2. (k - 1) + (Len(q) - k) = Len(q) - 1
    BY <1>1
  <2> QED
    BY <1>2, <1>3, <2>1, <2>2
<1>6. ASSUME NEW i \in 1..(Len(q) - 1)
      PROVE  (a \o b)[i] = IF i < k THEN q[i] ELSE q[i + 1]
  <2>1. CASE i < k
    <3>1. (a \o b)[i] = a[i] /\ i \in 1..(k - 1)
      BY <1>1, <1>2, <1>3, <2>1
    <3> QED
      BY <1>2, <2>1, <3>1
  <2>2. CASE ~(i < k)
    <3>1. (a \o b)[i] = b[i - (k - 1)] /\ i - (k - 1) \in 1..(Len(q) - k)
      BY <1>1, <1>2, <1>3, <2>2
    <3>2. k + (i - (k - 1)) = i + 1
      BY <1>1
    <3> QED
      BY <1>3, <2>2, <3>1, <3>2
  <2> QED
    BY <2>1, <2>2
<1> QED
  BY <1>4, <1>5, <1>6

\* Empty lists are parallel.
LEMMA ParallelEmpty ==
    ASSUME NEW p, NEW q, NEW ws, p = <<>>, q = <<>>
    PROVE  Parallel(p, q, ws)
BY DEF Parallel

\* So are lists of which nothing changes but states and signals of the workers.
LEMMA ParallelMove ==
    ASSUME NEW p \in Seq(Workers), NEW q, NEW ws, NEW us, Parallel(p, q, ws),
           \A w \in Workers : ws[w].handled => us[w].handled /\ us[w].port = ws[w].port
    PROVE  Parallel(p, q, us)
<1>1. \A k \in 1..Len(p) : p[k] \in Workers
  OBVIOUS
<1> QED
  BY <1>1, Zenon DEF Parallel

\* A worker and its port pushed on them.
LEMMA ParallelPush ==
    ASSUME NEW p \in Seq(Workers), NEW q \in Seq(Nat), NEW ws, NEW us, Parallel(p, q, ws),
           NEW w \in Workers, NEW n \in Nat, ~ws[w].handled, us[w].handled, us[w].port = n,
           \A k \in 1..Len(q) : q[k] # n,
           \A v \in Workers : v # w => us[v].handled = ws[v].handled /\ us[v].port = ws[v].port
    PROVE  Parallel(Append(p, w), Append(q, n), us)
<1> DEFINE a == Append(p, w)
           b == Append(q, n)
           m == Len(p)
<1>1. m \in Nat /\ Len(q) = m /\ \A k \in 1..m : p[k] \in Workers
  BY DEF Parallel
<1>2. Len(a) = m + 1 /\ a[m + 1] = w /\ \A k \in 1..m : a[k] = p[k]
  OBVIOUS
<1>3. Len(b) = m + 1 /\ b[m + 1] = n /\ \A k \in 1..m : b[k] = q[k]
  BY <1>1
<1>4. \A k \in 1..(m + 1) : k \in 1..m \/ k = m + 1
  BY <1>1
<1> HIDE DEF a, b, m
<1>5. \A k \in 1..m : p[k] # w /\ us[p[k]].port = q[k] /\ us[p[k]].handled /\ q[k] # n
  BY <1>1 DEF Parallel, m
<1>6. \A k \in 1..Len(a) : us[a[k]].port = b[k] /\ us[a[k]].handled
  BY <1>2, <1>3, <1>4, <1>5
<1>7. ASSUME NEW j \in 1..Len(a), NEW k \in 1..Len(a), j # k
      PROVE  a[j] # a[k] /\ b[j] # b[k]
  <2>1. CASE j \in 1..m /\ k \in 1..m
    BY <1>2, <1>3, <1>7, <2>1 DEF Parallel, m
  <2>2. CASE j = m + 1 /\ k \in 1..m
    BY <1>2, <1>3, <1>5, <2>2
  <2>3. CASE j \in 1..m /\ k = m + 1
    BY <1>2, <1>3, <1>5, <2>3
  <2> QED
    BY <1>2, <1>4, <1>7, <2>1, <2>2, <2>3
<1> QED
  BY <1>2, <1>3, <1>6, <1>7 DEF Parallel, a, b

\* The same place spliced out of both.
LEMMA ParallelSplice ==
    ASSUME NEW p \in Seq(Workers), NEW q \in Seq(Nat), NEW ws, Parallel(p, q, ws),
           NEW k \in 1..Len(p)
    PROVE  Parallel(RemoveAt(p, k), RemoveAt(q, k), ws)
<1> DEFINE a == RemoveAt(p, k)
           b == RemoveAt(q, k)
           m == Len(p)
           at(i) == IF i < k THEN i ELSE i + 1
<1>1. m \in Nat /\ Len(q) = m /\ k \in 1..m
  BY DEF Parallel
<1>2. Len(a) = m - 1 /\ \A i \in 1..(m - 1) : a[i] = p[at(i)]
  BY RemoveAtList
<1>3. Len(b) = m - 1 /\ \A i \in 1..(m - 1) : b[i] = q[at(i)]
  <2>1. k \in 1..Len(q)
    BY <1>1
  <2>2. /\ Len(b) = Len(q) - 1
        /\ \A i \in 1..(Len(q) - 1) : b[i] = IF i < k THEN q[i] ELSE q[i + 1]
    BY <2>1, RemoveAtList
  <2> HIDE DEF b, m
  <2> QED
    BY <1>1, <2>2
<1>4. \A i \in 1..(m - 1) : at(i) \in 1..m
  BY <1>1
<1>5. \A i, j \in 1..(m - 1) : i # j => at(i) # at(j)
  BY <1>1
<1>6. /\ \A i \in 1..m : ws[p[i]].port = q[i] /\ ws[p[i]].handled
      /\ \A i, j \in 1..m : i # j => p[i] # p[j] /\ q[i] # q[j]
  BY DEF Parallel
<1> HIDE DEF a, b, m, at
<1>7. \A i \in 1..(m - 1) : ws[a[i]].port = b[i] /\ ws[a[i]].handled
  BY <1>2, <1>3, <1>4, <1>6
<1>8. \A i, j \in 1..(m - 1) : i # j => a[i] # a[j] /\ b[i] # b[j]
  <2> SUFFICES ASSUME NEW i \in 1..(m - 1), NEW j \in 1..(m - 1), i # j
               PROVE  a[i] # a[j] /\ b[i] # b[j]
    OBVIOUS
  <2>1. at(i) \in 1..m /\ at(j) \in 1..m /\ at(i) # at(j)
    BY <1>4, <1>5
  <2>2. p[at(i)] # p[at(j)] /\ q[at(i)] # q[at(j)]
    BY <1>6, <2>1
  <2> QED
    BY <1>2, <1>3, <2>2
<1> QED
  BY <1>2, <1>3, <1>7, <1>8 DEF Parallel, a, b

\* A signal changes nothing but the signal, of the workers it is sent to.
LEMMA SignalledWorkers ==
    ASSUME WrapperTypeOK, NEW W, NEW sig \in {"no", "term", "kill"}
    PROVE  /\ Signalled(W, sig) \in [Workers -> WorkerStates]
           /\ \A w \in Workers :
                /\ Signalled(W, sig)[w].st = worker[w].st
                /\ Signalled(W, sig)[w].port = worker[w].port
                /\ Signalled(W, sig)[w].handled = worker[w].handled
                /\ w \notin W => Signalled(W, sig)[w].sig = worker[w].sig
                /\ w \in W /\ ~Exited(w) => Signalled(W, sig)[w].sig = sig
<1> DEFINE u(w) == IF w \in W /\ ~Exited(w) THEN [worker[w] EXCEPT !.sig = sig] ELSE worker[w]
<1>1. ASSUME NEW w \in Workers
      PROVE  /\ u(w) \in WorkerStates /\ u(w).st = worker[w].st /\ u(w).port = worker[w].port
             /\ u(w).handled = worker[w].handled
             /\ w \notin W => u(w).sig = worker[w].sig
             /\ w \in W /\ ~Exited(w) => u(w).sig = sig
  <2>1. worker[w] \in WorkerStates
    BY DEF WrapperTypeOK
  <2> QED
    BY <2>1 DEF WorkerStates
<1>2. Signalled(W, sig) = [w \in Workers |-> u(w)]
  BY DEF Signalled
<1> HIDE DEF u
<1> QED
  BY <1>1, <1>2

\* Every listed worker is a worker.
LEMMA ListedWorkers ==
    ASSUME WrapperTypeOK
    PROVE  /\ ToSet(processes) \in SUBSET Workers
           /\ \A w : w \in ToSet(processes) <=> \E k \in 1..Len(processes) : processes[k] = w
<1>1. processes \in Seq(Workers)
  BY DEF WrapperTypeOK
<1>2. \A k \in 1..Len(processes) : processes[k] \in Workers
  BY <1>1
<1>3. \A w : w \in ToSet(processes) <=> \E k \in 1..Len(processes) : processes[k] = w
  BY <1>1, ListElements
<1> QED
  BY <1>2, <1>3

\* signal("SIGKILL") empties the lists and tells every worker on them to end.
LEMMA SignalAllLists ==
    ASSUME ListsInv, SignalAll
    PROVE  /\ worker' \in [Workers -> WorkerStates]
           /\ running' \in BOOLEAN /\ processes' \in Seq(Workers) /\ ports' \in Seq(Nat)
           /\ ~running' => processes' = <<>>
           /\ Parallel(processes', ports', worker') /\ Listed(processes', worker')
           /\ ToSet(ports') \subseteq ToSet(ports)
           /\ \A w \in Workers : worker'[w].handled = worker[w].handled
                                 /\ worker'[w].port = worker[w].port
<1>0. WrapperTypeOK
  BY DEF ListsInv
<1>1. CASE ~running
  BY <1>0, <1>1 DEF SignalAll, ListsInv, WrapperTypeOK
<1>2. CASE running
  <2> DEFINE W == ToSet(processes)
  <2>1. W \in SUBSET Workers /\ \A w : w \in W <=> \E k \in 1..Len(processes) : processes[k] = w
    BY <1>0, ListedWorkers
  <2>2. /\ worker' = Signalled(W, "kill") /\ running' = FALSE /\ processes' = <<>> /\ ports' = <<>>
    BY <1>2 DEF SignalAll, SetWorkers
  <2> HIDE DEF W
  <2>3. /\ worker' \in [Workers -> WorkerStates]
        /\ \A w \in Workers : /\ worker'[w].st = worker[w].st
                              /\ worker'[w].port = worker[w].port
                              /\ worker'[w].handled = worker[w].handled
                              /\ w \notin W => worker'[w].sig = worker[w].sig
                              /\ w \in W /\ ~Exited(w) => worker'[w].sig = "kill"
    BY <1>0, <2>1, <2>2, SignalledWorkers
  <2>4. ASSUME NEW w \in Workers, worker'[w].st \in {"spawning", "spawned", "listening"},
               worker'[w].handled, worker'[w].sig = "no"
        PROVE  FALSE
    <3>1. worker[w].st \in {"spawning", "spawned", "listening"} /\ worker[w].handled /\ ~Exited(w)
      BY <2>3, <2>4 DEF Exited
    <3>2. CASE w \in W
      BY <2>3, <2>4, <3>1, <3>2
    <3>3. CASE w \notin W
      <4>1. worker[w].sig = "no"
        BY <2>3, <2>4, <3>3
      <4> QED
        BY <2>1, <3>1, <3>3, <4>1 DEF ListsInv, Listed
    <3> QED
      BY <3>2, <3>3
  <2>5. Listed(processes', worker')
    BY <2>4 DEF Listed
  <2>6. Parallel(processes', ports', worker')
    BY <2>2, ParallelEmpty
  <2>7. ToSet(ports') = {} /\ processes' \in Seq(Workers) /\ ports' \in Seq(Nat)
    BY <2>2 DEF ToSet
  <2> QED
    BY <2>2, <2>3, <2>5, <2>6, <2>7
<1> QED
  BY <1>1, <1>2

\* A step that leaves the lists alone and neither revives a worker nor takes
\* a signal back.
LEMMA ListsMove ==
    ASSUME ListsInv, UNCHANGED <<running, processes, ports>>,
           worker' \in [Workers -> WorkerStates],
           \A w \in Workers :
             /\ worker'[w].handled = worker[w].handled
             /\ worker[w].handled =>
                  /\ worker'[w].port = worker[w].port
                  /\ worker'[w].st \in {"spawning", "spawned", "listening"} =>
                       worker[w].st \in {"spawning", "spawned", "listening"}
                  /\ worker'[w].sig = "no" => worker[w].sig = "no"
    PROVE  /\ running' \in BOOLEAN /\ processes' \in Seq(Workers) /\ ports' \in Seq(Nat)
           /\ ~running' => processes' = <<>>
           /\ Parallel(processes', ports', worker') /\ Listed(processes', worker')
<1>1. /\ running \in BOOLEAN /\ processes \in Seq(Workers) /\ ports \in Seq(Nat)
      /\ ~running => processes = <<>>
      /\ Parallel(processes, ports, worker) /\ Listed(processes, worker)
  BY DEF ListsInv, WrapperTypeOK
<1>2. Parallel(processes, ports, worker')
  BY <1>1, ParallelMove
<1>3. Listed(processes, worker')
  BY <1>1 DEF Listed
<1> QED
  BY <1>1, <1>2, <1>3

\* A step of the one start() in progress.
LEMMA SoloCall ==
    ASSUME WrapperTypeOK, NEW c \in Callers, NEW r \in CallStates,
           calls' = [calls EXCEPT ![c] = r],
           \A d \in Callers : d # c => calls[d].pc \in Settled,
           r.pc \in {"detect", "spawn"} => r.port \notin ToSet(ports'),
           r.pc = "spawn" => /\ r.worker \in Workers /\ r.worker <= spawned'
                             /\ ~worker'[r.worker].handled
                             /\ worker'[r.worker].port = r.port
    PROVE  /\ calls' \in [Callers -> CallStates] /\ OneCall'
           /\ \A d \in Callers : InCall(d)'
<1>1. calls' \in [Callers -> CallStates] /\ calls'[c] = r
  BY DEF WrapperTypeOK
<1>2. \A d \in Callers : d # c => calls'[d].pc \in Settled
  BY DEF WrapperTypeOK
<1>3. OneCall'
  BY <1>2 DEF OneCall
<1>4. ASSUME NEW d \in Callers
      PROVE  InCall(d)'
  <2>1. CASE d = c
    BY <1>1, <2>1 DEF InCall
  <2>2. CASE d # c
    <3>1. calls'[d].pc \notin {"detect", "spawn"}
      BY <1>2, <2>2 DEF Settled
    <3> QED
      BY <3>1 DEF InCall
  <2> QED
    BY <2>1, <2>2
<1> QED
  BY <1>1, <1>3, <1>4

\* The other callers have settled when one is in start() or may call it.
LEMMA OthersSettled ==
    ASSUME ListsInv, NEW c \in Callers, calls[c].pc \notin Settled \/ MayCall
    PROVE  /\ \A d \in Callers : d # c => calls[d].pc \in Settled
           /\ stop.pc # "wait"
BY DEF ListsInv, OneCall, Stopping, MayCall

\* getAvailablePort waits for detect of a port that no listed worker has, or fails.
LEMMA SearchResult ==
    ASSUME NEW call \in CallStates, NEW p, NEW prts
    PROVE  LET r == SearchFrom(call, p, prts)
           IN  /\ r \in CallStates /\ r.pc \in {"fail", "detect"}
               /\ r.pc = "detect" => r.port \notin ToSet(prts)
<1> DEFINE C == Candidates(p, prts)
           q == CHOOSE x \in C : \A y \in C : x <= y
           f == [call EXCEPT !.pc = "fail"]
           g == [call EXCEPT !.pc = "detect", !.port = q]
<1>1. C \in SUBSET Nat /\ \A x \in C : x \notin ToSet(prts)
  BY PortsType DEF Candidates, TakenPorts
<1>2. SearchFrom(call, p, prts) = IF C = {} THEN f ELSE g
  BY DEF SearchFrom
<1>3. f \in CallStates /\ f.pc = "fail"
  BY DEF CallStates
<1>4. ASSUME C # {}
      PROVE  g \in CallStates /\ g.pc = "detect" /\ g.port \notin ToSet(prts)
  <2> HIDE DEF C
  <2>1. \E x \in C : \A y \in C : x <= y
    BY <1>1, <1>4, LeastNatural
  <2>2. q \in C
    BY <2>1, Zenon
  <2>3. q \in Nat /\ q \notin ToSet(prts)
    BY <1>1, <2>2
  <2> HIDE DEF q
  <2>4. g \in CallStates /\ g.pc = "detect" /\ g.port = q
    BY <2>3, ZenonT(30) DEF CallStates
  <2> QED
    BY <2>3, <2>4
<1> HIDE DEF f, g
<1> QED
  BY <1>2, <1>3, <1>4

\* So does a turn of the loop of start().
LEMMA TurnResult ==
    ASSUME NEW call \in CallStates, NEW i \in Nat, NEW prts
    PROVE  LET r == Turn(call, i, prts)
           IN  /\ r \in CallStates /\ r.pc \in {"fail", "detect"}
               /\ r.pc = "detect" => r.port \notin ToSet(prts)
<1> DEFINE a == [call EXCEPT !.i = i]
           f == [call EXCEPT !.i = i, !.pc = "fail"]
<1>1. a \in CallStates
  BY DEF CallStates
<1>2. f \in CallStates /\ f.pc = "fail"
  BY ZenonT(30) DEF CallStates
<1>3. Turn(call, i, prts) = IF Preferred(i) \in Ports THEN SearchFrom(a, Preferred(i), prts) ELSE f
  BY DEF Turn
<1> HIDE DEF a, f
<1>4. LET r == SearchFrom(a, Preferred(i), prts)
      IN  /\ r \in CallStates /\ r.pc \in {"fail", "detect"}
          /\ r.pc = "detect" => r.port \notin ToSet(prts)
  BY <1>1, SearchResult
<1> QED
  BY <1>2, <1>3, <1>4

\* Steps of start() that leave the workers and the lists alone.
LEMMA ListsCall ==
    ASSUME ListsInv, NEW c \in Callers, NEW r \in CallStates,
           calls[c].pc \notin Settled \/ MayCall,
           calls' = [calls EXCEPT ![c] = r], UNCHANGED <<stop, spawned>>,
           /\ running' \in BOOLEAN /\ processes' \in Seq(Workers) /\ ports' \in Seq(Nat)
           /\ ~running' => processes' = <<>>
           /\ Parallel(processes', ports', worker') /\ Listed(processes', worker'),
           worker' \in [Workers -> WorkerStates],
           \A w \in Workers : w > spawned => ~worker'[w].handled,
           r.pc # "spawn", r.pc = "detect" => r.port \notin ToSet(ports')
    PROVE  ListsInv'
<1>0. WrapperTypeOK
  BY DEF ListsInv
<1>1. (\A d \in Callers : d # c => calls[d].pc \in Settled) /\ stop.pc # "wait"
  BY OthersSettled
<1>2. calls' \in [Callers -> CallStates] /\ OneCall' /\ \A d \in Callers : InCall(d)'
  BY <1>0, <1>1, SoloCall
<1>3. WrapperTypeOK'
  BY <1>0, <1>2 DEF WrapperTypeOK
<1>4. Stopping' /\ Unspawned'
  BY <1>1 DEF Stopping, Unspawned
<1> QED
  BY <1>2, <1>3, <1>4 DEF ListsInv

\* start() before it has a worker, and while it waits for one to be ready.
LEMMA ListsStart ==
    ASSUME ListsInv, NEW c \in Callers,
           \/ StartRefused(c) \/ StartFail(c) \/ DetectBusy(c) \/ WorkerReady(c) \/ WorkerNotReady(c)
           \/ \E n \in 1..MaxCount : StartBegin(c, n)
    PROVE  ListsInv'
<1>0. /\ WrapperTypeOK /\ Unspawned /\ worker \in [Workers -> WorkerStates]
      /\ calls[c] \in CallStates /\ ports \in Seq(Nat)
  BY DEF ListsInv, WrapperTypeOK
<1>f. /\ [calls[c] EXCEPT !.pc = "failed"] \in CallStates
      /\ [calls[c] EXCEPT !.pc = "failed"].pc = "failed"
      /\ Fail(c) => calls' = [calls EXCEPT ![c] = [calls[c] EXCEPT !.pc = "failed"]]
  BY <1>0 DEF CallStates, Fail
<1>u. ASSUME NEW r \in CallStates, calls[c].pc \notin Settled \/ MayCall,
             calls' = [calls EXCEPT ![c] = r], UNCHANGED <<stop, spawned>>,
             UNCHANGED <<running, processes, ports, worker>>,
             r.pc # "spawn", r.pc = "detect" => r.port \notin ToSet(ports)
      PROVE  ListsInv'
  <2>1. /\ running' \in BOOLEAN /\ processes' \in Seq(Workers) /\ ports' \in Seq(Nat)
        /\ ~running' => processes' = <<>>
        /\ Parallel(processes', ports', worker') /\ Listed(processes', worker')
    BY <1>0, <1>u, ListsMove
  <2>2. \A w \in Workers : w > spawned => ~worker'[w].handled
    BY <1>0, <1>u DEF Unspawned
  <2> QED
    BY <1>0, <1>u, <2>1, <2>2, ListsCall
<1>s. ASSUME calls[c].pc \notin Settled, Fail(c), SignalAll, UNCHANGED <<stop, spawned>>
      PROVE  ListsInv'
  <2>1. /\ worker' \in [Workers -> WorkerStates]
        /\ running' \in BOOLEAN /\ processes' \in Seq(Workers) /\ ports' \in Seq(Nat)
        /\ ~running' => processes' = <<>>
        /\ Parallel(processes', ports', worker') /\ Listed(processes', worker')
        /\ \A w \in Workers : worker'[w].handled = worker[w].handled
    BY <1>s, SignalAllLists
  <2>2. \A w \in Workers : w > spawned => ~worker'[w].handled
    BY <1>0, <2>1 DEF Unspawned
  <2> DEFINE r == [calls[c] EXCEPT !.pc = "failed"]
  <2>3. r \in CallStates /\ r.pc = "failed" /\ calls' = [calls EXCEPT ![c] = r]
    BY <1>f, <1>s
  <2> HIDE DEF r
  <2> QED
    BY <1>s, <2>1, <2>2, <2>3, ListsCall
<1>1. CASE StartRefused(c)
  <2> DEFINE r == [calls[c] EXCEPT !.pc = "failed"]
  <2>1. MayCall /\ Fail(c) /\ UNCHANGED <<running, processes, ports, stop, spawned, worker>>
    BY <1>1 DEF StartRefused
  <2>2. r \in CallStates /\ r.pc = "failed" /\ calls' = [calls EXCEPT ![c] = r]
    BY <1>f, <2>1
  <2> HIDE DEF r
  <2> QED
    BY <1>u, <2>1, <2>2
<1>2. CASE StartFail(c)
  <2> DEFINE r == [calls[c] EXCEPT !.pc = "failed"]
  <2>1. calls[c].pc \notin Settled /\ Fail(c) /\ UNCHANGED <<stop, spawned>>
    BY <1>2 DEF StartFail, Settled
  <2>2. r \in CallStates /\ r.pc = "failed" /\ calls' = [calls EXCEPT ![c] = r]
    BY <1>f, <2>1
  <2> HIDE DEF r
  <2>3. CASE processes # <<>>
    BY <1>2, <1>s, <2>1, <2>3 DEF StartFail
  <2>4. CASE processes = <<>>
    BY <1>2, <1>u, <2>1, <2>2, <2>4 DEF StartFail
  <2> QED
    BY <2>3, <2>4
<1>3. CASE DetectBusy(c)
  <2> DEFINE r == SearchFrom(calls[c], calls[c].port + 1, ports)
  <2>1. calls[c].pc \notin Settled /\ UNCHANGED <<running, processes, ports, stop, spawned, worker>>
    BY <1>3 DEF DetectBusy, At, Settled
  <2>2. calls' = [calls EXCEPT ![c] = r]
    BY <1>3 DEF DetectBusy
  <2>3. r \in CallStates /\ r.pc \in {"fail", "detect"} /\ (r.pc = "detect" => r.port \notin ToSet(ports))
    BY <1>0, SearchResult
  <2> HIDE DEF r
  <2> QED
    BY <1>u, <2>1, <2>2, <2>3
<1>4. CASE WorkerReady(c)
  <2> DEFINE t == Turn(calls[c], calls[c].i + 1, ports)
             o == [calls[c] EXCEPT !.pc = "ok"]
             r == IF calls[c].i + 1 < calls[c].count THEN t ELSE o
  <2>1. calls[c].pc \notin Settled /\ UNCHANGED <<running, processes, ports, stop, spawned, worker>>
    BY <1>4 DEF WorkerReady, At, Settled
  <2>2. calls' = [calls EXCEPT ![c] = r]
    BY <1>4 DEF WorkerReady
  <2>3. calls[c].i + 1 \in Nat
    BY <1>0 DEF CallStates
  <2>4. t \in CallStates /\ t.pc \in {"fail", "detect"} /\ (t.pc = "detect" => t.port \notin ToSet(ports))
    BY <1>0, <2>3, TurnResult
  <2>5. o \in CallStates /\ o.pc = "ok"
    BY <1>0 DEF CallStates
  <2> HIDE DEF t, o
  <2>6. r \in CallStates /\ r.pc # "spawn" /\ (r.pc = "detect" => r.port \notin ToSet(ports))
    BY <2>4, <2>5
  <2> HIDE DEF r
  <2> QED
    BY <1>u, <2>1, <2>2, <2>6
<1>5. CASE WorkerNotReady(c)
  BY <1>5, <1>s DEF WorkerNotReady, At, Settled
<1>6. ASSUME NEW n \in 1..MaxCount, StartBegin(c, n)
      PROVE  ListsInv'
  <2> DEFINE nil == <<>>
             b == [NoCall EXCEPT !.count = n]
             r == Turn(b, 0, nil)
  <2>1. /\ MayCall /\ processes = <<>> /\ running' = TRUE /\ processes' = nil /\ ports' = nil
        /\ UNCHANGED <<stop, spawned, worker>> /\ calls' = [calls EXCEPT ![c] = r]
    BY <1>6 DEF StartBegin, NotRunning, SetWorkers
  <2>2. b \in CallStates
    <3>1. n \in Nat
      BY BoundsType
    <3> QED
      BY <3>1 DEF NoCall, CallStates
  <2>3. r \in CallStates /\ r.pc \in {"fail", "detect"} /\ (r.pc = "detect" => r.port \notin ToSet(nil))
    <3> HIDE DEF b, nil
    <3> QED
      BY <2>2, TurnResult
  <2>4. nil \in Seq(Workers) /\ nil \in Seq(Nat) /\ Parallel(nil, nil, worker)
    BY ParallelEmpty
  <2>5. Listed(nil, worker)
    BY <2>1 DEF ListsInv
  <2>6. \A w \in Workers : w > spawned => ~worker'[w].handled
    BY <1>0, <2>1 DEF Unspawned
  <2> HIDE DEF r, nil
  <2> QED
    BY <1>0, <2>1, <2>3, <2>4, <2>5, <2>6, ListsCall
<1> QED
  BY <1>1, <1>2, <1>3, <1>4, <1>5, <1>6

\* A worker is spawned on the port that was found free.
LEMMA ListsSpawn ==
    ASSUME ListsInv, NEW c \in Callers, DetectFree(c)
    PROVE  ListsInv'
<1> DEFINE n == spawned + 1
           p == calls[c].port
           r == [calls[c] EXCEPT !.pc = "spawn", !.worker = n]
           v == [worker[n] EXCEPT !.st = "spawning", !.port = p]
<1>0. /\ WrapperTypeOK /\ Unspawned /\ worker \in [Workers -> WorkerStates]
      /\ calls \in [Callers -> CallStates] /\ calls[c] \in CallStates /\ spawned \in 0..MaxWorkers
      /\ MaxWorkers \in Nat
  BY BoundsType DEF ListsInv, WrapperTypeOK
<1>1. /\ calls[c].pc = "detect" /\ spawned < MaxWorkers /\ spawned' = n
      /\ UNCHANGED <<running, processes, ports, stop>>
      /\ worker' = [worker EXCEPT ![spawned'].st = "spawning", ![spawned'].port = calls[c].port]
      /\ calls' = [calls EXCEPT ![c].pc = "spawn", ![c].worker = spawned']
  BY DEF DetectFree, At
<1>2. n \in Workers /\ n > spawned /\ n \in 0..MaxWorkers /\ n \in Nat
  BY <1>0, <1>1 DEF Workers
<1>3. p \in Nat /\ p \notin ToSet(ports)
  BY <1>0, <1>1 DEF ListsInv, InCall, CallStates
<1>4. /\ (\A d \in Callers : d # c => calls[d].pc \in Settled) /\ stop.pc # "wait"
  BY <1>1, OthersSettled DEF Settled
<1>5. worker' = [worker EXCEPT ![n] = v]
  <2> HIDE DEF n, p
  <2>1. worker' = [worker EXCEPT ![n].st = "spawning", ![n].port = p]
    BY <1>1 DEF p
  <2> QED
    BY <1>0, <1>2, <2>1, ZenonT(30)
<1>6. calls' = [calls EXCEPT ![c] = r]
  <2> HIDE DEF n
  <2>1. calls' = [calls EXCEPT ![c].pc = "spawn", ![c].worker = n]
    BY <1>1
  <2> QED
    BY <1>0, <2>1, ZenonT(30)
<1>7. worker[n] \in WorkerStates /\ ~worker[n].handled
  BY <1>0, <1>2 DEF Unspawned
<1> HIDE DEF n, p
<1>8. v \in WorkerStates /\ v.port = p /\ v.handled = worker[n].handled
  BY <1>3, <1>7, ZenonT(30) DEF WorkerStates
<1>9. r \in CallStates /\ r.pc = "spawn" /\ r.port = p /\ r.worker = n
  <2>1. n \in Workers \cup {0}
    BY <1>2
  <2> QED
    BY <1>0, <2>1, ZenonT(30) DEF CallStates, p
<1> HIDE DEF r, v
<1>10. /\ worker' \in [Workers -> WorkerStates] /\ worker'[n] = v
       /\ \A w \in Workers : w # n => worker'[w] = worker[w]
  BY <1>0, <1>2, <1>5, <1>8
<1>11. \A w \in Workers : worker'[w].handled = worker[w].handled
  BY <1>8, <1>10
<1>12. /\ running' \in BOOLEAN /\ processes' \in Seq(Workers) /\ ports' \in Seq(Nat)
       /\ ~running' => processes' = <<>>
       /\ Parallel(processes', ports', worker') /\ Listed(processes', worker')
  <2>1. \A w \in Workers : worker[w].handled => worker'[w] = worker[w]
    BY <1>7, <1>10
  <2> QED
    BY <1>1, <1>10, <1>11, <2>1, ListsMove
<1>13. calls' \in [Callers -> CallStates] /\ OneCall' /\ \A d \in Callers : InCall(d)'
  <2>1. r.port \notin ToSet(ports')
    BY <1>1, <1>3, <1>9
  <2>2. /\ r.worker \in Workers /\ r.worker <= spawned' /\ ~worker'[r.worker].handled
        /\ worker'[r.worker].port = r.port
    <3>1. n <= spawned'
      BY <1>1, <1>2
    <3>2. ~worker'[n].handled /\ worker'[n].port = p
      BY <1>7, <1>8, <1>10
    <3> QED
      BY <1>2, <1>9, <3>1, <3>2
  <2> QED
    BY <1>0, <1>4, <1>6, <1>9, <2>1, <2>2, SoloCall
<1>14. WrapperTypeOK'
  BY <1>0, <1>1, <1>2, <1>10, <1>12, <1>13 DEF WrapperTypeOK
<1>15. Unspawned'
  <2>1. \A w \in Workers : w > n => w > spawned
    BY <1>0 DEF n, Workers
  <2> QED
    BY <1>0, <1>1, <1>11, <2>1 DEF Unspawned
<1>16. Stopping'
  BY <1>1, <1>4 DEF Stopping
<1> QED
  BY <1>12, <1>13, <1>14, <1>15, <1>16 DEF ListsInv

\* The spawn fails: the workers on the lists are killed.
LEMMA ListsSpawnError ==
    ASSUME ListsInv, NEW c \in Callers, SpawnError(c)
    PROVE  ListsInv'
<1> DEFINE n == calls[c].worker
           r == [calls[c] EXCEPT !.pc = "failed"]
           d == [worker[n] EXCEPT !.st = "closed"]
           W == ToSet(processes)
           g == Signalled(W, "kill")
<1>0. /\ WrapperTypeOK /\ Unspawned /\ worker \in [Workers -> WorkerStates]
      /\ calls \in [Callers -> CallStates] /\ calls[c] \in CallStates
  BY DEF ListsInv, WrapperTypeOK
<1>1. calls[c].pc = "spawn" /\ Fail(c) /\ UNCHANGED <<stop, spawned>>
  BY DEF SpawnError, At
<1>2. n \in Workers /\ ~worker[n].handled
  BY <1>1 DEF ListsInv, InCall
<1>3. r \in CallStates /\ r.pc = "failed" /\ calls' = [calls EXCEPT ![c] = r]
  BY <1>0, <1>1 DEF CallStates, Fail
<1>4. d \in WorkerStates /\ d.st = "closed" /\ ~d.handled /\ d.port = worker[n].port
  BY <1>0, <1>2 DEF WorkerStates
<1>5. [worker EXCEPT ![n].st = "closed"] = [worker EXCEPT ![n] = d]
  BY <1>0, <1>2
<1>6. W \in SUBSET Workers /\ \A w : w \in W <=> \E k \in 1..Len(processes) : processes[k] = w
  BY <1>0, ListedWorkers
<1>7. /\ g \in [Workers -> WorkerStates]
      /\ \A w \in Workers : /\ g[w].st = worker[w].st
                            /\ g[w].port = worker[w].port
                            /\ g[w].handled = worker[w].handled
                            /\ w \notin W => g[w].sig = worker[w].sig
                            /\ w \in W /\ ~Exited(w) => g[w].sig = "kill"
  <2> HIDE DEF W
  <2> QED
    BY <1>0, <1>6, SignalledWorkers
<1> HIDE DEF r, d, g
<1>8. CASE processes # <<>>
  <2>1. /\ worker' = [w \in Workers |-> IF w = n THEN [worker EXCEPT ![n].st = "closed"][w] ELSE g[w]]
        /\ running' = FALSE /\ processes' = <<>> /\ ports' = <<>>
    BY <1>8 DEF SpawnError, SetWorkers, g
  <2>2. worker' = [w \in Workers |-> IF w = n THEN d ELSE g[w]]
    BY <1>0, <1>2, <1>5, <2>1
  <2>3. /\ worker' \in [Workers -> WorkerStates] /\ worker'[n] = d
        /\ \A w \in Workers : w # n => worker'[w] = g[w]
    BY <1>2, <1>4, <1>7, <2>2
  <2>4. ASSUME NEW w \in Workers, worker'[w].st \in {"spawning", "spawned", "listening"},
               worker'[w].handled, worker'[w].sig = "no"
        PROVE  FALSE
    <3>0. w # n /\ worker'[w] = g[w]
      BY <1>4, <2>3, <2>4
    <3>1. worker[w].st \in {"spawning", "spawned", "listening"} /\ worker[w].handled /\ ~Exited(w)
      BY <1>7, <2>4, <3>0 DEF Exited
    <3>2. w \notin W /\ worker[w].sig = "no"
      BY <1>7, <2>4, <3>0, <3>1
    <3> QED
      BY <1>6, <3>1, <3>2 DEF ListsInv, Listed
  <2>5. Listed(processes', worker') /\ Parallel(processes', ports', worker')
    BY <2>1, <2>4, ParallelEmpty DEF Listed
  <2>6. processes' \in Seq(Workers) /\ ports' \in Seq(Nat) /\ running' \in BOOLEAN
    <3>1. processes' = <<>> /\ ports' = <<>>
      BY <2>1
    <3>2. processes' \in Seq(Workers) /\ ports' \in Seq(Nat)
      BY <3>1
    <3>3. running' \in BOOLEAN
      BY <2>1, Zenon
    <3> QED
      BY <3>2, <3>3
  <2>7. \A w \in Workers : w > spawned => ~worker'[w].handled
    BY <1>0, <1>2, <1>4, <1>7, <2>3 DEF Unspawned
  <2> QED
    BY <1>1, <1>3, <2>1, <2>3, <2>5, <2>6, <2>7, ListsCall DEF Settled
<1>9. CASE processes = <<>>
  <2>1. worker' = [worker EXCEPT ![n] = d] /\ UNCHANGED <<running, processes, ports>>
    BY <1>5, <1>9 DEF SpawnError
  <2>2. /\ worker' \in [Workers -> WorkerStates] /\ worker'[n] = d
        /\ \A w \in Workers : w # n => worker'[w] = worker[w]
    BY <1>0, <1>2, <1>4, <2>1
  <2>3. \A w \in Workers : worker[w].handled => worker'[w] = worker[w]
    BY <1>2, <2>2
  <2>4. \A w \in Workers : worker'[w].handled = worker[w].handled
    <3>1. worker[n].handled = FALSE /\ d.handled = FALSE
      <4>1. worker[n].handled \in BOOLEAN /\ d.handled \in BOOLEAN
        BY <1>0, <1>2, <1>4 DEF WorkerStates
      <4> QED
        BY <1>2, <1>4, <4>1
    <3> QED
      BY <2>2, <3>1
  <2>5. /\ running' \in BOOLEAN /\ processes' \in Seq(Workers) /\ ports' \in Seq(Nat)
        /\ ~running' => processes' = <<>>
        /\ Parallel(processes', ports', worker') /\ Listed(processes', worker')
    BY <2>1, <2>2, <2>3, <2>4, ListsMove
  <2>6. \A w \in Workers : w > spawned => ~worker'[w].handled
    BY <1>0, <2>4 DEF Unspawned
  <2> QED
    BY <1>1, <1>3, <2>2, <2>5, <2>6, ListsCall DEF Settled
<1> QED
  BY <1>8, <1>9

\* The worker is recorded with its port and its handler.
LEMMA ListsSpawnDone ==
    ASSUME ListsInv, NEW c \in Callers, SpawnDone(c)
    PROVE  ListsInv'
<1> DEFINE n == calls[c].worker
           p == calls[c].port
           r == [calls[c] EXCEPT !.pc = "wait"]
           t == IF worker[n].st = "spawning" THEN "spawned" ELSE worker[n].st
           v == [worker[n] EXCEPT !.handled = TRUE, !.st = t]
<1>0. /\ WrapperTypeOK /\ Unspawned /\ worker \in [Workers -> WorkerStates]
      /\ calls \in [Callers -> CallStates] /\ calls[c] \in CallStates
      /\ processes \in Seq(Workers) /\ ports \in Seq(Nat)
      /\ Parallel(processes, ports, worker) /\ Listed(processes, worker)
  BY DEF ListsInv, WrapperTypeOK
<1>1. /\ calls[c].pc = "spawn" /\ UNCHANGED <<stop, spawned>>
      /\ running' = TRUE /\ processes' = Append(processes, n) /\ ports' = Append(ports, p)
      /\ worker' = [worker EXCEPT ![n].handled = TRUE, ![n].st = IF @ = "spawning" THEN "spawned" ELSE @]
      /\ calls' = [calls EXCEPT ![c].pc = "wait"]
  BY DEF SpawnDone, At, SetWorkers
<1>2. /\ n \in Workers /\ n <= spawned /\ ~worker[n].handled /\ worker[n].port = p
      /\ p \in Nat /\ p \notin ToSet(ports)
  BY <1>0, <1>1 DEF ListsInv, InCall, CallStates
<1>3. r \in CallStates /\ r.pc = "wait" /\ calls' = [calls EXCEPT ![c] = r]
  BY <1>0, <1>1 DEF CallStates
<1>4. worker[n] \in WorkerStates /\ t \in {"none", "spawning", "spawned", "listening", "exited", "closed"}
  BY <1>0, <1>2 DEF WorkerStates
<1>5. worker' = [worker EXCEPT ![n] = v]
  <2> HIDE DEF n
  <2>1. worker' = [worker EXCEPT ![n].handled = TRUE, ![n].st = IF @ = "spawning" THEN "spawned" ELSE @]
    BY <1>1
  <2> QED
    BY <1>0, <1>2, <2>1, ZenonT(30)
<1> HIDE DEF n, p, r, t
<1>6. v \in WorkerStates /\ v.handled /\ v.port = worker[n].port
  BY <1>4, ZenonT(30) DEF WorkerStates
<1> HIDE DEF v
<1>7. /\ worker' \in [Workers -> WorkerStates] /\ worker'[n] = v
      /\ \A w \in Workers : w # n => worker'[w] = worker[w]
  BY <1>0, <1>2, <1>5, <1>6
<1>8. Parallel(processes', ports', worker')
  <2>1. \A k \in 1..Len(ports) : ports[k] # p
    BY <1>0, <1>2, ListElements
  <2>2. worker'[n].handled /\ worker'[n].port = p
    BY <1>2, <1>6, <1>7
  <2>3. \A w \in Workers : w # n => /\ worker'[w].handled = worker[w].handled
                                    /\ worker'[w].port = worker[w].port
    BY <1>7
  <2>4. Parallel(Append(processes, n), Append(ports, p), worker')
    BY <1>0, <1>2, <2>1, <2>2, <2>3, ParallelPush
  <2> QED
    BY <1>1, <2>4
<1>9. Listed(processes', worker')
  <2>1. /\ Len(processes') = Len(processes) + 1 /\ processes'[Len(processes) + 1] = n
        /\ \A k \in 1..Len(processes) : processes'[k] = processes[k]
        /\ Len(processes) \in Nat
    BY <1>0, <1>1, <1>2
  <2>2. /\ Len(processes) + 1 \in 1..Len(processes')
        /\ \A k \in 1..Len(processes) : k \in 1..Len(processes')
    BY <2>1
  <2> SUFFICES ASSUME NEW w \in Workers,
                      worker'[w].st \in {"spawning", "spawned", "listening"},
                      worker'[w].handled, worker'[w].sig = "no"
               PROVE  \E k \in 1..Len(processes') : processes'[k] = w
    BY DEF Listed
  <2>3. CASE w = n
    BY <2>1, <2>2, <2>3
  <2>4. CASE w # n
    <3>1. \E k \in 1..Len(processes) : processes[k] = w
      BY <1>0, <1>7, <2>4 DEF Listed
    <3> QED
      BY <2>1, <2>2, <3>1
  <2> QED
    BY <2>3, <2>4
<1>10. processes' \in Seq(Workers) /\ ports' \in Seq(Nat)
  BY <1>0, <1>1, <1>2
<1>11. \A w \in Workers : w > spawned => ~worker'[w].handled
  <2>1. \A w \in Workers : w > spawned => w # n
    BY <1>0, <1>2 DEF Workers, WrapperTypeOK
  <2> QED
    BY <1>0, <1>7, <2>1 DEF Unspawned
<1>12. running' \in BOOLEAN /\ (~running' => processes' = <<>>)
  BY <1>1, Zenon
<1> QED
  BY <1>1, <1>3, <1>7, <1>8, <1>9, <1>10, <1>11, <1>12, ListsCall DEF Settled

\* The lists are gone when the worker has spawned.
LEMMA ListsSpawnLost ==
    ASSUME ListsInv, NEW c \in Callers, SpawnLost(c)
    PROVE  ListsInv'
<1> DEFINE n == calls[c].worker
           r == [calls[c] EXCEPT !.pc = "failed"]
           t == IF worker[n].st = "spawning" THEN "spawned" ELSE worker[n].st
           v == [worker[n] EXCEPT !.st = t]
<1>0. /\ WrapperTypeOK /\ Unspawned /\ worker \in [Workers -> WorkerStates]
      /\ calls \in [Callers -> CallStates] /\ calls[c] \in CallStates
  BY DEF ListsInv, WrapperTypeOK
<1>1. /\ calls[c].pc = "spawn" /\ Fail(c) /\ UNCHANGED <<running, processes, ports, stop, spawned>>
      /\ worker' = [worker EXCEPT ![n].st = IF @ = "spawning" THEN "spawned" ELSE @]
  BY DEF SpawnLost, At
<1>2. n \in Workers /\ ~worker[n].handled /\ worker[n] \in WorkerStates
  BY <1>0, <1>1 DEF ListsInv, InCall
<1>3. r \in CallStates /\ r.pc = "failed" /\ calls' = [calls EXCEPT ![c] = r]
  BY <1>0, <1>1 DEF CallStates, Fail
<1>4. t \in {"none", "spawning", "spawned", "listening", "exited", "closed"}
  BY <1>2 DEF WorkerStates
<1>5. worker' = [worker EXCEPT ![n] = v]
  BY <1>0, <1>1, <1>2
<1> HIDE DEF n, r, t
<1>6. v \in WorkerStates /\ v.handled = worker[n].handled
  BY <1>2, <1>4 DEF WorkerStates
<1> HIDE DEF v
<1>7. /\ worker' \in [Workers -> WorkerStates] /\ worker'[n] = v
      /\ \A w \in Workers : w # n => worker'[w] = worker[w]
  BY <1>0, <1>2, <1>5, <1>6
<1>8. /\ \A w \in Workers : worker[w].handled => worker'[w] = worker[w]
      /\ \A w \in Workers : worker'[w].handled = worker[w].handled
  BY <1>2, <1>6, <1>7
<1>9. /\ running' \in BOOLEAN /\ processes' \in Seq(Workers) /\ ports' \in Seq(Nat)
      /\ ~running' => processes' = <<>>
      /\ Parallel(processes', ports', worker') /\ Listed(processes', worker')
  BY <1>1, <1>7, <1>8, ListsMove
<1>10. \A w \in Workers : w > spawned => ~worker'[w].handled
  BY <1>0, <1>8 DEF Unspawned
<1> QED
  BY <1>1, <1>3, <1>7, <1>9, <1>10, ListsCall DEF Settled

\* A step that is none of start(), and adds no worker to the lists.
LEMMA ListsEvent ==
    ASSUME ListsInv, UNCHANGED <<calls, spawned>>,
           /\ running' \in BOOLEAN /\ processes' \in Seq(Workers) /\ ports' \in Seq(Nat)
           /\ ~running' => processes' = <<>>
           /\ Parallel(processes', ports', worker') /\ Listed(processes', worker'),
           worker' \in [Workers -> WorkerStates],
           \A w \in Workers : /\ worker'[w].handled = worker[w].handled
                              /\ worker'[w].port = worker[w].port,
           ToSet(ports') \subseteq ToSet(ports), stop' \in StopStates, Stopping'
    PROVE  ListsInv'
<1>1. WrapperTypeOK'
  BY DEF ListsInv, WrapperTypeOK
<1>2. Unspawned' /\ OneCall'
  BY DEF ListsInv, Unspawned, OneCall
<1>3. ASSUME NEW c \in Callers
      PROVE  InCall(c)'
  <2>1. InCall(c)
    BY DEF ListsInv
  <2> QED
    BY <2>1 DEF InCall
<1> QED
  BY <1>1, <1>2, <1>3 DEF ListsInv

\* A worker listens, exits or finds its port taken.
LEMMA ListsWorker ==
    ASSUME ListsInv, NEW w \in Workers, Listen(w) \/ Exit(w)
    PROVE  ListsInv'
<1>0. /\ WrapperTypeOK /\ worker \in [Workers -> WorkerStates] /\ stop \in StopStates
      /\ worker[w] \in WorkerStates /\ processes \in Seq(Workers)
  BY DEF ListsInv, WrapperTypeOK
<1>1. PICK t \in {"listening", "exited"} : worker' = [worker EXCEPT ![w].st = t]
  BY DEF Listen, Exit
<1>2. /\ worker[w].st \in {"spawning", "spawned", "listening"}
      /\ UNCHANGED <<running, processes, ports, calls, stop, spawned>>
  BY DEF Listen, Exit
<1> DEFINE v == [worker[w] EXCEPT !.st = t]
<1>3. worker' = [worker EXCEPT ![w] = v]
  BY <1>0, <1>1
<1>4. /\ v \in WorkerStates /\ v.handled = worker[w].handled /\ v.port = worker[w].port
      /\ v.sig = worker[w].sig /\ v.st = t
  BY <1>0 DEF WorkerStates
<1> HIDE DEF v
<1>5. /\ worker' \in [Workers -> WorkerStates] /\ worker'[w] = v
      /\ \A u \in Workers : u # w => worker'[u] = worker[u]
  BY <1>0, <1>3, <1>4
<1>6. \A u \in Workers :
         /\ worker'[u].handled = worker[u].handled /\ worker'[u].port = worker[u].port
         /\ worker'[u].sig = worker[u].sig
         /\ worker'[u].st \in {"spawning", "spawned", "listening"} =>
              worker[u].st \in {"spawning", "spawned", "listening"}
         /\ worker[u].st \in {"exited", "closed"} => worker'[u].st \in {"exited", "closed"}
  BY <1>2, <1>4, <1>5
<1>7. /\ running' \in BOOLEAN /\ processes' \in Seq(Workers) /\ ports' \in Seq(Nat)
      /\ ~running' => processes' = <<>>
      /\ Parallel(processes', ports', worker') /\ Listed(processes', worker')
  BY <1>2, <1>5, <1>6, ListsMove
<1>8. Stopping'
  <2>1. \A k \in 1..Len(processes) : processes[k] \in Workers
    BY <1>0
  <2> QED
    BY <1>2, <1>6, <2>1 DEF ListsInv, Stopping, Exited
<1> QED
  BY <1>0, <1>2, <1>5, <1>6, <1>7, <1>8, ListsEvent

\* The close event of a worker.
LEMMA ListsClosed ==
    ASSUME ListsInv, NEW w \in Workers, Closed(w)
    PROVE  ListsInv'
<1> DEFINE v == [worker[w] EXCEPT !.st = "closed"]
<1>0. /\ WrapperTypeOK /\ worker \in [Workers -> WorkerStates] /\ stop \in StopStates
      /\ worker[w] \in WorkerStates /\ processes \in Seq(Workers) /\ ports \in Seq(Nat)
      /\ running \in BOOLEAN /\ (~running => processes = <<>>)
      /\ Parallel(processes, ports, worker) /\ Listed(processes, worker)
  BY DEF ListsInv, WrapperTypeOK
<1>1. /\ worker[w].st = "exited" /\ worker' = [worker EXCEPT ![w].st = "closed"]
      /\ UNCHANGED <<calls, stop, spawned>>
  BY DEF Closed
<1>2. worker' = [worker EXCEPT ![w] = v]
  BY <1>0, <1>1
<1>3. /\ v \in WorkerStates /\ v.handled = worker[w].handled /\ v.port = worker[w].port
      /\ v.sig = worker[w].sig /\ v.st = "closed"
  BY <1>0 DEF WorkerStates
<1> HIDE DEF v
<1>4. /\ worker' \in [Workers -> WorkerStates] /\ worker'[w] = v
      /\ \A u \in Workers : u # w => worker'[u] = worker[u]
  BY <1>0, <1>2, <1>3
<1>5. \A u \in Workers :
         /\ worker'[u].handled = worker[u].handled /\ worker'[u].port = worker[u].port
         /\ worker'[u].sig = worker[u].sig
         /\ worker'[u].st \in {"spawning", "spawned", "listening"} =>
              u # w /\ worker[u].st \in {"spawning", "spawned", "listening"}
         /\ worker[u].st \in {"exited", "closed"} => worker'[u].st \in {"exited", "closed"}
  BY <1>1, <1>3, <1>4
<1>6. \A k \in 1..Len(processes) : processes[k] \in Workers
  BY <1>0
<1>p. Parallel(processes, ports, worker')
  <2>1. \A u \in Workers : worker[u].handled => worker'[u].handled /\ worker'[u].port = worker[u].port
    BY <1>5
  <2> QED
    BY <1>0, <2>1, ParallelMove
<1>7. ASSUME UNCHANGED <<running, processes, ports>>
      PROVE  ListsInv'
  <2>1. /\ running' \in BOOLEAN /\ processes' \in Seq(Workers) /\ ports' \in Seq(Nat)
        /\ ~running' => processes' = <<>>
        /\ Parallel(processes', ports', worker') /\ Listed(processes', worker')
    BY <1>4, <1>5, <1>7, ListsMove
  <2>2. Stopping'
    BY <1>1, <1>5, <1>6, <1>7 DEF ListsInv, Stopping, Exited
  <2> QED
    BY <1>0, <1>1, <1>4, <1>5, <1>7, <2>1, <2>2, ListsEvent
<1>8. CASE ~worker[w].handled
  BY <1>7, <1>8 DEF Closed
<1>9. CASE worker[w].handled /\ w \notin ToSet(processes)
  <2>1. processes' = processes /\ ports' = ports /\ running' = (running /\ processes # <<>>)
    BY <1>9 DEF Closed, SetWorkers, Spliced, WithoutPort
  <2>2. CASE processes # <<>>
    <3>1. running' = running
      BY <1>0, <2>1, <2>2, Zenon
    <3> QED
      BY <1>7, <2>1, <3>1
  <2>3. CASE processes = <<>>
    <3>1. /\ running' \in BOOLEAN /\ processes' \in Seq(Workers) /\ ports' \in Seq(Nat)
          /\ ~running' => processes' = <<>>
      BY <1>0, <2>1, <2>3
    <3>2. Parallel(processes', ports', worker')
      BY <1>p, <2>1
    <3>3. Listed(processes', worker')
      BY <1>0, <1>5, <2>1 DEF Listed
    <3>4. Stopping'
      BY <1>1, <1>5, <1>6, <2>1 DEF ListsInv, Stopping, Exited
    <3> QED
      BY <1>0, <1>1, <1>4, <1>5, <2>1, <3>1, <3>2, <3>3, <3>4, ListsEvent
  <2> QED
    BY <2>2, <2>3
<1>10. CASE worker[w].handled /\ w \in ToSet(processes)
  <2> DEFINE k == CHOOSE i \in 1..Len(processes) : processes[i] = w
             a == RemoveAt(processes, k)
             b == RemoveAt(ports, k)
             m == Len(processes)
  <2>1. processes' = a /\ ports' = b /\ running' = (running /\ a # <<>>)
    BY <1>10 DEF Closed, SetWorkers, Spliced, WithoutPort
  <2>2. k \in 1..m /\ processes[k] = w
    <3>1. \E i \in 1..Len(processes) : processes[i] = w
      BY <1>0, <1>10, ListElements
    <3> QED
      BY <3>1, Zenon
  <2> HIDE DEF k
  <2>3. m \in Nat /\ Len(ports) = m
    BY <1>0 DEF Parallel
  <2>4. /\ a \in Seq(Workers) /\ Len(a) = m - 1
        /\ \A i \in 1..(m - 1) : a[i] = IF i < k THEN processes[i] ELSE processes[i + 1]
    BY <1>0, <2>2, RemoveAtList
  <2>5. /\ b \in Seq(Nat) /\ Len(b) = m - 1
        /\ \A i \in 1..(m - 1) : b[i] = IF i < k THEN ports[i] ELSE ports[i + 1]
    <3>1. k \in 1..Len(ports)
      BY <2>2, <2>3
    <3>2. /\ b \in Seq(Nat) /\ Len(b) = Len(ports) - 1
          /\ \A i \in 1..(Len(ports) - 1) : b[i] = IF i < k THEN ports[i] ELSE ports[i + 1]
      BY <1>0, <3>1, RemoveAtList
    <3> HIDE DEF b, m
    <3> QED
      BY <2>3, <3>2
  <2>6. Parallel(a, b, worker')
    BY <1>0, <1>p, <2>2, ParallelSplice
  <2> HIDE DEF a, b, m
  <2>7. ASSUME NEW i \in 1..m, i # k
        PROVE  \E j \in 1..Len(a) : a[j] = processes[i]
    <3>1. CASE i < k
      <4>1. i \in 1..(m - 1) /\ a[i] = processes[i]
        BY <2>2, <2>3, <2>4, <3>1
      <4> QED
        BY <2>4, <4>1
    <3>2. CASE i > k
      <4>1. i - 1 \in 1..(m - 1) /\ ~(i - 1 < k) /\ (i - 1) + 1 = i
        BY <2>2, <2>3, <3>2
      <4>2. a[i - 1] = processes[i]
        BY <2>4, <4>1
      <4> QED
        BY <2>4, <4>1, <4>2
    <3> QED
      BY <2>2, <2>3, <2>7, <3>1, <3>2
  <2>8. Listed(a, worker')
    <3> SUFFICES ASSUME NEW u \in Workers,
                        worker'[u].st \in {"spawning", "spawned", "listening"},
                        worker'[u].handled, worker'[u].sig = "no"
                 PROVE  \E j \in 1..Len(a) : a[j] = u
      BY DEF Listed
    <3>1. u # w /\ \E i \in 1..m : processes[i] = u
      BY <1>0, <1>5 DEF Listed, m
    <3> QED
      BY <2>2, <2>7, <3>1
  <2>9. \A i \in 1..(m - 1) : \E j \in 1..m : a[i] = processes[j] /\ b[i] = ports[j]
    <3> SUFFICES ASSUME NEW i \in 1..(m - 1)
                 PROVE  \E j \in 1..m : a[i] = processes[j] /\ b[i] = ports[j]
      OBVIOUS
    <3>1. i \in 1..m /\ i + 1 \in 1..m
      BY <2>3
    <3>2. CASE i < k
      BY <2>4, <2>5, <3>1, <3>2
    <3>3. CASE ~(i < k)
      BY <2>4, <2>5, <3>1, <3>3
    <3> QED
      BY <3>2, <3>3
  <2>10. ToSet(b) \subseteq ToSet(ports)
    <3>1. \A x : x \in ToSet(b) <=> \E i \in 1..Len(b) : b[i] = x
      BY <2>5, ListElements
    <3>2. \A x : x \in ToSet(ports) <=> \E i \in 1..Len(ports) : ports[i] = x
      BY <1>0, ListElements
    <3> QED
      BY <2>3, <2>5, <2>9, <3>1, <3>2
  <2>11. Stopping'
    <3>1. ASSUME stop.pc = "wait", NEW i \in 1..Len(a)
          PROVE  worker'[a[i]].st \in {"exited", "closed"} \/ worker'[a[i]].sig # "no"
      <4>1. PICK j \in 1..m : a[i] = processes[j]
        BY <2>4, <2>9
      <4>2. Exited(processes[j]) \/ worker[processes[j]].sig # "no"
        BY <3>1, <4>1 DEF ListsInv, Stopping, m
      <4> QED
        BY <1>5, <1>6, <4>1, <4>2 DEF Exited, m
    <3>2. stop.pc = "wait" => \A c \in Callers : calls[c].pc \in Settled
      BY DEF ListsInv, Stopping
    <3> QED
      BY <1>1, <2>1, <3>1, <3>2 DEF Stopping, Exited
  <2>12. running' \in BOOLEAN /\ (~running' => processes' = <<>>)
    <3>1. ~running => a = <<>>
      BY <1>0, <2>2, <2>3 DEF m
    <3> QED
      BY <1>0, <2>1, <3>1, Zenon
  <2> QED
    BY <1>0, <1>1, <1>4, <1>5, <2>1, <2>4, <2>5, <2>6, <2>8, <2>10, <2>11, <2>12, ListsEvent
<1> QED
  BY <1>8, <1>9, <1>10

\* stop() and kill(), and a request, which touches neither list.
LEMMA ListsStop ==
    ASSUME ListsInv, Route \/ StopBegin \/ StopGraceful \/ StopTimeout \/ Kill
    PROVE  ListsInv'
<1> DEFINE W == ToSet(processes)
<1>0. /\ WrapperTypeOK /\ worker \in [Workers -> WorkerStates] /\ stop \in StopStates
      /\ processes \in Seq(Workers) /\ ports \in Seq(Nat)
      /\ running \in BOOLEAN /\ (~running => processes = <<>>)
      /\ Parallel(processes, ports, worker) /\ Listed(processes, worker)
  BY DEF ListsInv, WrapperTypeOK
<1>1. W \in SUBSET Workers /\ \A w : w \in W <=> \E k \in 1..Len(processes) : processes[k] = w
  BY <1>0, ListedWorkers
<1>2. UNCHANGED <<calls, spawned>>
  BY DEF Route, StopBegin, StopGraceful, StopTimeout, Kill
<1> HIDE DEF W
<1>3. CASE Route
  <2>1. UNCHANGED <<running, processes, ports, worker, stop>>
    BY <1>3 DEF Route
  <2> QED
    BY <1>2, <2>1 DEF ListsInv, WrapperTypeOK, Unspawned, OneCall, Stopping, InCall, Exited
<1>4. CASE StopBegin
  <2>1. /\ UNCHANGED <<running, processes, ports>> /\ worker' = Signalled(W, "term") /\ MayCall
        /\ stop' = [pc |-> "wait", workers |-> W, gone |-> {w \in W : Exited(w)}]
    BY <1>4 DEF StopBegin, W
  <2>s. stop' \in StopStates
    <3>1. {w \in W : Exited(w)} \in SUBSET Workers
      BY <1>1
    <3> QED
      BY <1>1, <2>1, <3>1 DEF StopStates
  <2>2. /\ worker' \in [Workers -> WorkerStates]
        /\ \A w \in Workers : /\ worker'[w].st = worker[w].st
                              /\ worker'[w].port = worker[w].port
                              /\ worker'[w].handled = worker[w].handled
                              /\ w \notin W => worker'[w].sig = worker[w].sig
                              /\ w \in W /\ ~Exited(w) => worker'[w].sig = "term"
    BY <1>0, <1>1, <2>1, SignalledWorkers
  <2>3. Parallel(processes, ports, worker')
    <3>1. \A u \in Workers : worker[u].handled => worker'[u].handled /\ worker'[u].port = worker[u].port
      BY <2>2
    <3> QED
      BY <1>0, <3>1, ParallelMove
  <2>4. Listed(processes, worker')
    <3> SUFFICES ASSUME NEW w \in Workers,
                        worker'[w].st \in {"spawning", "spawned", "listening"},
                        worker'[w].handled, worker'[w].sig = "no", w \notin W
                 PROVE  \E k \in 1..Len(processes) : processes[k] = w
      BY <1>1 DEF Listed
    <3> QED
      BY <1>0, <2>2 DEF Listed
  <2>5. Stopping'
    <3>1. ASSUME NEW k \in 1..Len(processes)
          PROVE  worker'[processes[k]].st \in {"exited", "closed"} \/ worker'[processes[k]].sig # "no"
      <4>1. processes[k] \in Workers /\ processes[k] \in W
        BY <1>0, <1>1
      <4> QED
        BY <2>2, <4>1 DEF Exited
    <3>2. \A c \in Callers : calls'[c].pc \in Settled
      BY <1>2, <2>1 DEF MayCall
    <3> QED
      BY <2>1, <3>1, <3>2 DEF Stopping, Exited
  <2> QED
    BY <1>0, <1>2, <2>1, <2>s, <2>2, <2>3, <2>4, <2>5, ListsEvent
<1>5. ASSUME stop.pc = "wait", stop' = [stop EXCEPT !.pc = "done"], SetWorkers(FALSE, <<>>, <<>>),
             worker' \in [Workers -> WorkerStates],
             \A w \in Workers : /\ worker'[w].st = worker[w].st
                                /\ worker'[w].port = worker[w].port
                                /\ worker'[w].handled = worker[w].handled
                                /\ worker'[w].sig = "no" => worker[w].sig = "no"
      PROVE  ListsInv'
  <2>1. running' = FALSE /\ processes' = <<>> /\ ports' = <<>>
    BY <1>5 DEF SetWorkers
  <2>2. Parallel(processes', ports', worker')
    BY <2>1, ParallelEmpty
  <2>3. ASSUME NEW w \in Workers, worker'[w].st \in {"spawning", "spawned", "listening"},
               worker'[w].handled, worker'[w].sig = "no"
        PROVE  FALSE
    <3>1. /\ worker[w].st \in {"spawning", "spawned", "listening"} /\ worker[w].handled
          /\ worker[w].sig = "no"
      BY <1>5, <2>3
    <3>2. PICK k \in 1..Len(processes) : processes[k] = w
      BY <1>0, <3>1 DEF Listed
    <3> QED
      BY <1>5, <3>1, <3>2 DEF ListsInv, Stopping, Exited
  <2>4. Listed(processes', worker')
    BY <2>3 DEF Listed
  <2>5. processes' \in Seq(Workers) /\ ports' \in Seq(Nat) /\ ToSet(ports') = {}
    BY <2>1 DEF ToSet
  <2>6. running' \in BOOLEAN
    BY <2>1, Zenon
  <2>7. stop' \in StopStates /\ stop'.pc = "done"
    BY <1>0, <1>5 DEF StopStates
  <2>s. Stopping'
    BY <2>7 DEF Stopping
  <2>8. ToSet(ports') \subseteq ToSet(ports)
    BY <2>5
  <2> QED
    BY <1>2, <1>5, <2>1, <2>2, <2>4, <2>5, <2>6, <2>7, <2>s, <2>8, ListsEvent
<1>6. CASE StopGraceful
  <2>1. /\ stop.pc = "wait" /\ stop' = [stop EXCEPT !.pc = "done"] /\ SetWorkers(FALSE, <<>>, <<>>)
        /\ UNCHANGED worker
    BY <1>6 DEF StopGraceful
  <2> QED
    BY <1>0, <1>5, <2>1
<1>7. CASE StopTimeout
  <2> DEFINE L == LateWorkers(stop.workers)
  <2>1. /\ stop.pc = "wait" /\ stop' = [stop EXCEPT !.pc = "done"] /\ SetWorkers(FALSE, <<>>, <<>>)
        /\ worker' = Signalled(L, "kill")
    BY <1>7 DEF StopTimeout
  <2> HIDE DEF L
  <2>2. /\ worker' \in [Workers -> WorkerStates]
        /\ \A w \in Workers : /\ worker'[w].st = worker[w].st
                              /\ worker'[w].port = worker[w].port
                              /\ worker'[w].handled = worker[w].handled
                              /\ w \notin L => worker'[w].sig = worker[w].sig
                              /\ w \in L /\ ~Exited(w) => worker'[w].sig = "kill"
    BY <1>0, <2>1, SignalledWorkers
  <2>3. ASSUME NEW w \in Workers, worker'[w].sig = "no", w \in L, Exited(w)
        PROVE  worker[w].sig = "no"
    BY <2>1, <2>3 DEF Signalled
  <2>4. \A w \in Workers : worker'[w].sig = "no" => worker[w].sig = "no"
    BY <2>2, <2>3
  <2> QED
    BY <1>5, <2>1, <2>2, <2>4
<1>8. CASE Kill
  <2>1. MayCall /\ SignalAll /\ UNCHANGED stop
    BY <1>8 DEF Kill
  <2>2. Stopping'
    BY <2>1 DEF MayCall, Stopping
  <2>3. /\ worker' \in [Workers -> WorkerStates]
        /\ running' \in BOOLEAN /\ processes' \in Seq(Workers) /\ ports' \in Seq(Nat)
        /\ ~running' => processes' = <<>>
        /\ Parallel(processes', ports', worker') /\ Listed(processes', worker')
        /\ ToSet(ports') \subseteq ToSet(ports)
        /\ \A w \in Workers : worker'[w].handled = worker[w].handled
                              /\ worker'[w].port = worker[w].port
    BY <2>1, SignalAllLists
  <2> QED
    BY <1>0, <1>2, <2>1, <2>2, <2>3, ListsEvent
<1> QED
  BY <1>3, <1>4, <1>6, <1>7, <1>8

\* Every step keeps the invariant of the lists.
LEMMA ListsStep == ListsInv /\ [Next]_vars => ListsInv'
<1> SUFFICES ASSUME ListsInv, [Next]_vars PROVE ListsInv'
  OBVIOUS
<1>1. CASE UNCHANGED vars
  BY <1>1 DEF vars, ListsInv, WrapperTypeOK, Unspawned, OneCall, Stopping, InCall, Exited
<1>2. ASSUME NEW c \in Callers,
             \/ StartRefused(c) \/ StartFail(c) \/ Start(c)
             \/ \E n \in 1..MaxCount : StartBegin(c, n)
      PROVE  ListsInv'
  BY <1>2, ListsStart, ListsSpawn, ListsSpawnError, ListsSpawnDone, ListsSpawnLost DEF Start
<1>3. ASSUME NEW w \in Workers, Listen(w) \/ Exit(w) \/ Closed(w)
      PROVE  ListsInv'
  BY <1>3, ListsWorker, ListsClosed
<1> QED
  BY <1>1, <1>2, <1>3, ListsStop DEF Next

\* A new wrapper has no workers.
LEMMA ListsInit == Init => ListsInv
<1> SUFFICES ASSUME Init PROVE ListsInv
  OBVIOUS
<1> DEFINE w0 == [st |-> "none", port |-> 0, sig |-> "no", handled |-> FALSE]
<1>1. /\ running = FALSE /\ processes = <<>> /\ ports = <<>> /\ spawned = 0
      /\ calls = [c \in Callers |-> NoCall] /\ worker = [w \in Workers |-> w0]
      /\ stop = [pc |-> "idle", workers |-> {}, gone |-> {}]
  BY DEF Init
<1>2. w0 \in WorkerStates /\ w0.st = "none" /\ ~w0.handled
  BY DEF WorkerStates
<1>3. NoCall \in CallStates /\ NoCall.pc = "idle"
  BY DEF NoCall, CallStates
<1>4. stop \in StopStates /\ stop.pc = "idle"
  BY <1>1 DEF StopStates
<1> HIDE DEF w0
<1>5. /\ calls \in [Callers -> CallStates] /\ worker \in [Workers -> WorkerStates]
      /\ \A c \in Callers : calls[c].pc = "idle"
      /\ \A w \in Workers : worker[w].st = "none" /\ ~worker[w].handled
  BY <1>1, <1>2, <1>3
<1>6. /\ processes \in Seq(Workers) /\ ports \in Seq(Nat) /\ spawned \in 0..MaxWorkers
      /\ running \in BOOLEAN
  <2>1. processes \in Seq(Workers) /\ ports \in Seq(Nat)
    BY <1>1
  <2>2. spawned \in 0..MaxWorkers
    BY <1>1, BoundsType
  <2>3. running \in BOOLEAN
    BY <1>1, Zenon
  <2> QED
    BY <2>1, <2>2, <2>3
<1>7. WrapperTypeOK
  BY <1>4, <1>5, <1>6 DEF WrapperTypeOK
<1>8. Parallel(processes, ports, worker)
  BY <1>1, ParallelEmpty
<1>9. Listed(processes, worker) /\ Unspawned /\ OneCall /\ Stopping
  BY <1>4, <1>5 DEF Listed, Unspawned, OneCall, Stopping, Settled
<1>10. \A c \in Callers : InCall(c)
  BY <1>5 DEF InCall
<1> QED
  BY <1>1, <1>7, <1>8, <1>9, <1>10 DEF ListsInv

\* processes and processPorts stay parallel and name each worker and each port
\* once, and a worker that start() has recorded stays listed as long as it runs
\* and was not told to end, for any number of callers, ports and workers.
THEOREM ListsStayParallel == Spec => []ListsMatch
<1>1. ListsInv => ListsMatch
  <2> SUFFICES ASSUME ListsInv PROVE ListsMatch
    OBVIOUS
  <2>0. /\ WrapperTypeOK /\ (~running => processes = <<>>)
        /\ Parallel(processes, ports, worker) /\ Listed(processes, worker)
    BY DEF ListsInv
  <2>1. \A w : w \in ToSet(processes) <=> \E k \in 1..Len(processes) : processes[k] = w
    BY <2>0, ListedWorkers
  <2>2. ASSUME NEW v \in ToSet(processes), NEW w \in ToSet(processes), v # w
        PROVE  worker[v].port # worker[w].port
    <3>1. PICK j \in 1..Len(processes) : processes[j] = v
      BY <2>1
    <3>2. PICK k \in 1..Len(processes) : processes[k] = w
      BY <2>1
    <3>3. j # k
      BY <2>2, <3>1, <3>2
    <3> QED
      BY <2>0, <3>1, <3>2, <3>3 DEF Parallel
  <2>3. \A w \in Workers :
           Live(w) /\ worker[w].handled /\ worker[w].sig = "no" => w \in ToSet(processes)
    BY <2>0, <2>1 DEF Listed, Live
  <2>4. /\ Len(ports) = Len(processes)
        /\ \A k \in 1..Len(processes) : worker[processes[k]].port = ports[k]
    BY <2>0 DEF Parallel
  <2> QED
    BY <2>0, <2>2, <2>3, <2>4 DEF ListsMatch
<1> QED
  BY <1>1, ListsInit, ListsStep, PTL DEF Spec

-----------------------------------------------------------------------------
(* The choice of a worker.                                                 *)

\* Two ways to divide with a remainder are one.
LEMMA DivisionUnique ==
    ASSUME NEW n \in Nat, n > 0, NEW a \in Int, NEW b \in Int,
           NEW x \in 0..(n - 1), NEW y \in 0..(n - 1), a * n + x = b * n + y
    PROVE  x = y
<1>1. CASE a = b
  BY <1>1
<1>2. CASE a > b
  <2>1. PICK d \in Nat : a = b + 1 + d
    BY <1>2
  <2>2. a * n = b * n + n + d * n /\ d * n >= 0
    BY <2>1
  <2> QED
    BY <2>2
<1>3. CASE a < b
  <2>1. PICK d \in Nat : b = a + 1 + d
    BY <1>3
  <2>2. b * n = a * n + n + d * n /\ d * n >= 0
    BY <2>1
  <2> QED
    BY <2>2
<1> QED
  BY <1>1, <1>2, <1>3

\* The remainder of the next number.
LEMMA NextRemainder ==
    ASSUME NEW n \in Nat, n > 0, NEW a \in Nat
    PROVE  /\ a % n \in 0..(n - 1)
           /\ (a + 1) % n = IF (a % n) + 1 = n THEN 0 ELSE (a % n) + 1
           /\ a < n => a % n = a
<1> DEFINE q == a \div n   r == a % n
           p == (a + 1) \div n   t == (a + 1) % n
<1>1. q \in Int /\ r \in 0..(n - 1) /\ a = q * n + r
  OBVIOUS
<1>2. p \in Int /\ t \in 0..(n - 1) /\ a + 1 = p * n + t
  OBVIOUS
<1> HIDE DEF q, r, p, t
<1>3. CASE r + 1 = n
  <2>1. a + 1 = (q + 1) * n + 0
    BY <1>1, <1>3
  <2>2. t = 0
    BY <1>1, <1>2, <2>1, DivisionUnique
  <2> QED
    BY <1>1, <1>3, <2>2
<1>4. CASE r + 1 # n
  <2>1. a + 1 = q * n + (r + 1) /\ r + 1 \in 0..(n - 1)
    BY <1>1, <1>4
  <2> QED
    BY <1>1, <1>2, <2>1, DivisionUnique
<1>5. a < n => r = a
  <2>1. a = 0 * n + a
    OBVIOUS
  <2> QED
    BY <1>1, <2>1, DivisionUnique
<1> QED
  BY <1>1, <1>3, <1>4, <1>5 DEF r, t

\* After a request the place d + 1 back is the place that was d back.
LEMMA BackMoves ==
    ASSUME NEW n \in Nat, NEW r \in Nat, r < n, NEW d \in 0..(n - 1), NEW t \in Nat,
           t = IF r + 1 = n THEN 0 ELSE r + 1
    PROVE  Back(t, d + 1, n) = IF d = 0 THEN r ELSE Back(r, d, n)
BY DEF Back

\* No two of the n places before the next one are the same, and each is on the list.
LEMMA BackPlaces ==
    ASSUME NEW n \in Nat, NEW r \in Nat, r < n, NEW d \in 1..n, NEW e \in 1..n
    PROVE  /\ Back(r, d, n) + 1 \in 1..n
           /\ Back(r, d, n) = Back(r, e, n) => d = e
BY DEF Back

\* A request remembers its choice, and forgets one that is Len(ports) back.
LEMMA PicksRoute ==
    ASSUME PicksInv, ports \in Seq(Nat), Route
    PROVE  PicksInv'
<1> DEFINE n == Len(ports)   m == Len(picks)   e == reqIndex % n   t == (reqIndex + 1) % n
           all == Append(picks, ports[e + 1])
<1>0. /\ reqIndex \in Nat /\ picks \in Seq(Nat) /\ n \in Nat /\ m \in Nat /\ m <= n
      /\ m # 0 => reqIndex < n /\ \A j \in 1..m : picks[j] = ports[Back(reqIndex, (m - j) + 1, n) + 1]
  BY DEF PicksInv
<1>1. /\ ports # <<>> /\ picks' = (IF Len(all) > n THEN Tail(all) ELSE all)
      /\ reqIndex' = t /\ ports' = ports
  BY DEF Route, NextIndex
<1>2. n > 0
  BY <1>1
<1>3. /\ e \in 0..(n - 1) /\ t = (IF e + 1 = n THEN 0 ELSE e + 1)
      /\ reqIndex < n => e = reqIndex
  BY <1>0, <1>2, NextRemainder
<1>4. ports[e + 1] \in Nat
  BY <1>2, <1>3
<1>5. /\ all \in Seq(Nat) /\ Len(all) = m + 1 /\ all[m + 1] = ports[e + 1]
      /\ \A j \in 1..m : all[j] = picks[j]
  BY <1>0, <1>4
<1> HIDE DEF all, e, t, n, m
<1>6. t \in Nat /\ t < n /\ e \in Nat /\ e < n
  BY <1>0, <1>2, <1>3
<1>7. ASSUME NEW j \in 1..(m + 1), (m + 1) - j <= n - 1
      PROVE  all[j] = ports[Back(t, ((m + 1) - j) + 1, n) + 1]
  <2>1. (m + 1) - j \in 0..(n - 1)
    BY <1>0, <1>7
  <2>2. Back(t, ((m + 1) - j) + 1, n) = IF (m + 1) - j = 0 THEN e ELSE Back(e, (m + 1) - j, n)
    BY <1>0, <1>3, <1>6, <2>1, BackMoves
  <2>3. CASE j = m + 1
    <3>1. (m + 1) - j = 0
      BY <1>0, <2>3
    <3> QED
      BY <1>5, <2>2, <2>3, <3>1
  <2>4. CASE j # m + 1
    <3>1. j \in 1..m /\ (m + 1) - j # 0 /\ (m + 1) - j = (m - j) + 1 /\ m # 0
      BY <1>0, <2>4
    <3>2. e = reqIndex
      BY <1>0, <1>3, <3>1
    <3> QED
      BY <1>0, <1>5, <2>2, <3>1, <3>2
  <2> QED
    BY <2>3, <2>4
<1>8. CASE m < n
  <2>1. picks' = all /\ Len(picks') = m + 1
    BY <1>0, <1>1, <1>5, <1>8
  <2>2. \A j \in 1..Len(picks') : picks'[j] = ports[Back(t, (Len(picks') - j) + 1, n) + 1]
    BY <1>0, <1>7, <1>8, <2>1
  <2>3. Len(ports') = n /\ Len(picks') <= n
    BY <1>0, <1>1, <1>8, <2>1 DEF n
  <2> QED
    BY <1>1, <1>5, <1>6, <2>1, <2>2, <2>3 DEF PicksInv
<1>9. CASE m = n
  <2>1. picks' = Tail(all)
    BY <1>0, <1>1, <1>5, <1>9
  <2>2. picks' \in Seq(Nat) /\ Len(picks') = m /\ \A j \in 1..m : picks'[j] = all[j + 1]
    BY <1>0, <1>5, <2>1
  <2>3. \A j \in 1..Len(picks') : picks'[j] = ports[Back(t, (Len(picks') - j) + 1, n) + 1]
    <3> SUFFICES ASSUME NEW j \in 1..m
                 PROVE  picks'[j] = ports[Back(t, (m - j) + 1, n) + 1]
      BY <2>2
    <3>1. j + 1 \in 1..(m + 1) /\ (m + 1) - (j + 1) = m - j /\ m - j <= n - 1
      BY <1>0, <1>9
    <3> QED
      BY <1>7, <2>2, <3>1
  <2>4. Len(ports') = n /\ Len(picks') <= n
    BY <1>0, <1>1, <1>9, <2>2 DEF n
  <2> QED
    BY <1>1, <1>6, <2>2, <2>3, <2>4 DEF PicksInv
<1> QED
  BY <1>0, <1>8, <1>9

\* Every step either chooses a worker, or starts the history over with new
\* lists, or leaves the lists, the index and the history alone.
LEMMA PicksStep == ListsInv /\ ListsInv' /\ PicksInv /\ [Next]_vars => PicksInv'
<1> SUFFICES ASSUME ListsInv, ListsInv', PicksInv, [Next]_vars PROVE PicksInv'
  OBVIOUS
<1>0. ports \in Seq(Nat) /\ ports' \in Seq(Nat)
  BY DEF ListsInv, WrapperTypeOK
<1>1. ASSUME UNCHANGED <<ports, reqIndex, picks>> PROVE PicksInv'
  BY <1>1 DEF PicksInv
<1>2. ASSUME picks' = <<>>, reqIndex' = reqIndex PROVE PicksInv'
  <2>1. picks' \in Seq(Nat) /\ Len(picks') = 0 /\ Len(ports') \in Nat /\ Len(picks') <= Len(ports')
    BY <1>0, <1>2
  <2> QED
    BY <1>2, <2>1 DEF PicksInv
<1>3. ASSUME SignalAll, reqIndex' = reqIndex PROVE PicksInv'
  BY <1>1, <1>2, <1>3 DEF SignalAll, SetWorkers
<1>4. CASE UNCHANGED vars
  BY <1>1, <1>4 DEF vars
<1>5. ASSUME NEW c \in Callers,
             \/ StartRefused(c) \/ StartFail(c) \/ Start(c)
             \/ \E n \in 1..MaxCount : StartBegin(c, n)
      PROVE  PicksInv'
  <2>1. CASE StartRefused(c) \/ DetectBusy(c) \/ DetectFree(c) \/ SpawnLost(c) \/ WorkerReady(c)
    BY <1>1, <2>1 DEF StartRefused, DetectBusy, DetectFree, SpawnLost, WorkerReady
  <2>2. CASE StartFail(c) \/ WorkerNotReady(c)
    BY <1>1, <1>3, <2>2 DEF StartFail, WorkerNotReady
  <2>3. CASE SpawnDone(c)
    BY <1>2, <2>3 DEF SpawnDone, SetWorkers
  <2>4. CASE SpawnError(c)
    BY <1>1, <1>2, <2>4 DEF SpawnError, SetWorkers
  <2>5. CASE \E n \in 1..MaxCount : StartBegin(c, n)
    BY <1>2, <2>5 DEF StartBegin, SetWorkers
  <2> QED
    BY <1>5, <2>1, <2>2, <2>3, <2>4, <2>5 DEF Start
<1>6. ASSUME NEW w \in Workers, Listen(w) \/ Exit(w) \/ Closed(w)
      PROVE  PicksInv'
  BY <1>1, <1>2, <1>6 DEF Listen, Exit, Closed, SetWorkers
<1>7. CASE StopBegin \/ StopGraceful \/ StopTimeout \/ Kill
  BY <1>1, <1>2, <1>3, <1>7 DEF StopBegin, StopGraceful, StopTimeout, Kill, SetWorkers
<1> QED
  BY <1>0, <1>4, <1>5, <1>6, <1>7, PicksRoute DEF Next

\* As long as the workers stay the same the requests go round all of them: no
\* port is chosen twice among Len(ports) requests in a row, whatever reqIndex
\* was left at by an earlier, longer list.
THEOREM RequestsGoRound == Spec => []RoundRobin
<1>1. Init => PicksInv
  <2> SUFFICES ASSUME Init PROVE PicksInv
    OBVIOUS
  <2>1. reqIndex = 0 /\ picks = <<>> /\ ports = <<>>
    BY DEF Init
  <2>2. picks \in Seq(Nat) /\ Len(picks) = 0 /\ Len(ports) = 0
    BY <2>1
  <2> QED
    BY <2>1, <2>2 DEF PicksInv
<1>2. ListsInv /\ PicksInv => RoundRobin
  <2> SUFFICES ASSUME ListsInv, PicksInv, NEW i \in DOMAIN picks, NEW j \in DOMAIN picks,
                      picks[i] = picks[j]
               PROVE  i = j
    BY DEF RoundRobin, IsInjective
  <2> DEFINE n == Len(ports)   m == Len(picks)
  <2>1. /\ reqIndex \in Nat /\ n \in Nat /\ m \in Nat /\ m <= n /\ i \in 1..m /\ j \in 1..m
        /\ \A a, b \in 1..n : a # b => ports[a] # ports[b]
    <3>1. ports \in Seq(Nat) /\ Parallel(processes, ports, worker)
      BY DEF ListsInv, WrapperTypeOK
    <3>2. reqIndex \in Nat /\ picks \in Seq(Nat) /\ m <= n
      BY DEF PicksInv
    <3>3. \A a, b \in 1..n : a # b => ports[a] # ports[b]
      BY <3>1 DEF Parallel
    <3> QED
      BY <3>1, <3>2, <3>3
  <2>2. /\ reqIndex < n
        /\ picks[i] = ports[Back(reqIndex, (m - i) + 1, n) + 1]
        /\ picks[j] = ports[Back(reqIndex, (m - j) + 1, n) + 1]
    BY <2>1 DEF PicksInv
  <2> HIDE DEF n, m
  <2> DEFINE d == (m - i) + 1   e == (m - j) + 1
  <2>3. d \in 1..n /\ e \in 1..n /\ (d = e => i = j)
    BY <2>1
  <2>4. picks[i] = ports[Back(reqIndex, d, n) + 1] /\ picks[j] = ports[Back(reqIndex, e, n) + 1]
    BY <2>2
  <2> HIDE DEF d, e
  <2>5. /\ Back(reqIndex, d, n) + 1 \in 1..n /\ Back(reqIndex, e, n) + 1 \in 1..n
        /\ Back(reqIndex, d, n) = Back(reqIndex, e, n) => d = e
    BY <2>1, <2>2, <2>3, BackPlaces
  <2>6. Back(reqIndex, d, n) \in Int /\ Back(reqIndex, e, n) \in Int
    BY <2>1, <2>3 DEF Back
  <2>7. Back(reqIndex, d, n) + 1 = Back(reqIndex, e, n) + 1
    BY <2>1, <2>4, <2>5
  <2> QED
    BY <2>3, <2>5, <2>6, <2>7
<1> QED
  BY <1>1, <1>2, ListsInit, ListsStep, PicksStep, PTL DEF Spec
=============================================================================
