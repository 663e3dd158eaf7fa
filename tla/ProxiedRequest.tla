--------------------------- MODULE ProxiedRequest ---------------------------
(***************************************************************************)
(* One upgrade request after route() has chosen a worker: the client's     *)
(* socket, the request to the worker, the upgraded socket ("upstream") or  *)
(* the ordinary response, and the events by which Node reports what became *)
(* of each, in any order that Node allows.                                 *)
(***************************************************************************)
EXTENDS Integers, Sequences, SequencesExt

CONSTANT MaxItems  \* bound on the pieces of data each side sends

ASSUME ItemsType == MaxItems \in Nat

VARIABLES s,       \* what the handlers of route() act on, see RequestInit
          events,  \* events Node has still to deliver
          answer,  \* "thinking", "silent" (never answers) or "answered"
          down,    \* data of the client: [sent, head, unread, out], its pieces numbered
          back     \* data of the worker: the same; 0 in "out" is the head of the answer

requestVars == <<s, events, answer, down, back>>

\* The client may have gone before route() is called; its close event is then over.
RequestInit ==
    /\ \E c \in {"open", "destroyed"} :
         s = [client |-> c,         \* "open", "ended" (by socket.end()) or "destroyed"
              req |-> "pending",    \* "pending", "upgraded", "responded" or "destroyed"
              up |-> "none",        \* "none", "open", "ended" (by the pipe) or "destroyed"
              res |-> "none",       \* "none", "body", "ended" or "aborted"
              piped |-> FALSE]
    /\ events = {}
    /\ answer \in {"thinking", "silent"}
    /\ \E n \in 0..1 : down = [sent |-> n, head |-> [i \in 1..n |-> i], unread |-> <<>>, out |-> <<>>]
    /\ back = [sent |-> 0, head |-> <<>>, unread |-> <<>>, out |-> <<>>]

-----------------------------------------------------------------------------
(* destroy() on each object, and the events that follow: applied to a pair *)
(* of s and events.                                                        *)

Socket(x) == [st |-> IF x.st.client = "destroyed" THEN x.st ELSE [x.st EXCEPT !.client = "destroyed"],
              ev |-> IF x.st.client = "destroyed" THEN x.ev ELSE x.ev \cup {"socket close"}]

\* Nothing before the answer is delivered any more; after an upgrade the request is over.
ProxyReq(x) ==
    CASE x.st.req = "pending" ->
           [st |-> [x.st EXCEPT !.req = "destroyed"],
            ev |-> (x.ev \ {"upgrade", "response"}) \cup {"req error"}]
      [] x.st.req = "responded" /\ x.st.res = "body" ->
           [st |-> [x.st EXCEPT !.req = "destroyed", !.res = "aborted"],
            ev |-> (x.ev \ {"res end"}) \cup {"res aborted"}]
      [] OTHER -> x

ProxySocket(x) ==
    IF x.st.up \in {"open", "ended"}
    THEN [st |-> [x.st EXCEPT !.up = "destroyed"], ev |-> x.ev \cup {"up close"}]
    ELSE x

Become(x) == s' = x.st /\ events' = x.ev
Here == [st |-> s, ev |-> events]
After(e) == [st |-> s, ev |-> events \ {e}]

-----------------------------------------------------------------------------
(* The handlers of route().                                                *)

OnSocketError ==
    /\ "socket error" \in events
    /\ Become(Socket(ProxySocket(ProxyReq(After("socket error")))))
    /\ UNCHANGED <<answer, down, back>>

ClientClosed(x) == ProxySocket(ProxyReq(x))

OnSocketClose ==
    /\ "socket close" \in events /\ "socket error" \notin events
    /\ Become(ClientClosed(After("socket close")))
    /\ UNCHANGED <<answer, down, back>>

ClientGoneUnchecked == FALSE
ClientGone == s.client = "destroyed"

UnshiftBehind(d) == [d EXCEPT !.unread = @ \o d.head, !.head = <<>>]
Unshift(d) == [d EXCEPT !.unread = d.head \o @, !.head = <<>>]

OnUpgrade ==
    /\ "upgrade" \in events
    /\ LET open == [s EXCEPT !.req = "upgraded", !.up = "open"]
           due == events \ {"upgrade"} IN
         IF ClientGone THEN Become(ProxySocket([st |-> open, ev |-> due])) /\ UNCHANGED <<down, back>>
         ELSE /\ s' = [open EXCEPT !.piped = TRUE] /\ events' = due
              /\ down' = Unshift(down)
              /\ back' = [Unshift(back) EXCEPT !.out = Append(@, 0)]
    /\ UNCHANGED answer

OnUpstreamError ==
    /\ "up error" \in events
    /\ Become(Socket(After("up error")))
    /\ UNCHANGED <<answer, down, back>>

LostUpstream(x) == Socket(x)

OnUpstreamClose ==
    /\ "up close" \in events /\ "up error" \notin events
    /\ Become(LostUpstream(After("up close")))
    /\ UNCHANGED <<answer, down, back>>

\* No answer, or no more of it, for ten seconds: destroy(new Error(...)).
TimedNever == FALSE
Timed == s.req = "pending" \/ s.res = "body"

OnTimeout ==
    /\ Timed
    /\ Become(ProxyReq(Here))
    /\ UNCHANGED <<answer, down, back>>

OnResponse ==
    /\ "response" \in events
    /\ Become([After("response") EXCEPT !.st.req = "responded", !.st.res = "body"])
    /\ back' = [back EXCEPT !.out = Append(@, 0)]
    /\ UNCHANGED <<answer, down>>

OnResponseAborted ==
    /\ "res aborted" \in events
    /\ Become(Socket(After("res aborted")))
    /\ UNCHANGED <<answer, down, back>>

OnResponseEnd ==
    /\ "res end" \in events
    /\ LET x == [After("res end") EXCEPT !.st.res = "ended"] IN
         Become([x EXCEPT !.st.client = IF @ = "open" THEN "ended" ELSE @])
    /\ UNCHANGED <<answer, down, back>>

OnRequestError ==
    /\ "req error" \in events
    /\ Become(Socket(After("req error")))
    /\ UNCHANGED <<answer, down, back>>

-----------------------------------------------------------------------------
(* The client, the worker and the pipes.                                   *)

\* The client disconnects or its connection fails: Node destroys the socket.
ClientLeaves(error) ==
    /\ s.client # "destroyed"
    /\ s' = [s EXCEPT !.client = "destroyed"]
    /\ events' = events \cup {"socket close"} \cup (IF error THEN {"socket error"} ELSE {})
    /\ UNCHANGED <<answer, down, back>>

\* The client half-closes: the pipe ends the upstream socket.
ClientEnds ==
    /\ s.piped /\ s.client # "destroyed" /\ s.up = "open" /\ down.unread = <<>>
    /\ s' = [s EXCEPT !.up = "ended"]
    /\ UNCHANGED <<events, answer, down, back>>

\* The worker answers; what it sends right behind an upgrade is in proxyHead.
WorkerAnswers(e) ==
    /\ answer = "thinking" /\ s.req = "pending"
    /\ events' = events \cup {e} /\ answer' = "answered"
    /\ \E n \in 0..(IF e = "upgrade" THEN 1 ELSE 0) :
         back' = [back EXCEPT !.sent = n, !.head = [i \in 1..n |-> i]]
    /\ UNCHANGED <<s, down>>

Sends(d) == [d EXCEPT !.sent = @ + 1, !.unread = Append(@, d.sent + 1)]
Passes(d) == [d EXCEPT !.unread = Tail(@), !.out = Append(@, Head(d.unread))]

ClientSends ==
    /\ s.client = "open" /\ s.up # "ended" /\ down.sent < MaxItems
    /\ down' = Sends(down)
    /\ UNCHANGED <<s, events, answer, back>>

WorkerSends ==
    /\ "upgrade" \in events \/ s.up \in {"open", "ended"}
    /\ back.sent < MaxItems
    /\ back' = Sends(back)
    /\ UNCHANGED <<s, events, answer, down>>

\* pipe() moves a piece when the other side has room for it: one that does not
\* read holds it back for ever, and with it the end of its sender.
PipeDown ==
    /\ s.piped /\ s.client # "destroyed" /\ s.up = "open" /\ down.unread # <<>>
    /\ down' = Passes(down)
    /\ UNCHANGED <<s, events, answer, back>>

PipeBack ==
    /\ s.piped /\ s.client # "destroyed" /\ s.up \in {"open", "ended"} /\ back.unread # <<>>
    /\ back' = Passes(back)
    /\ UNCHANGED <<s, events, answer, down>>

\* The worker closes its end, which Node reports once its data is read, or resets it.
WorkerCloses(error) ==
    /\ \/ s.req = "pending" /\ Become(ProxyReq(Here))
       \/ s.res = "body" /\ Become(ProxyReq(Here))
       \/ /\ s.up \in {"open", "ended"}
          /\ error \/ ~s.piped \/ back.unread = <<>>
          /\ s' = [ProxySocket(Here).st EXCEPT
                      !.client = IF s.piped /\ ~error /\ @ = "open" THEN "ended" ELSE @]
          /\ events' = ProxySocket(Here).ev \cup (IF error THEN {"up error"} ELSE {})
    /\ UNCHANGED <<answer, down, back>>

\* The whole response has been piped; it never is while nobody reads it.
ResponseDone ==
    /\ s.res = "body" /\ s.client # "destroyed" /\ "res end" \notin events
    /\ events' = events \cup {"res end"}
    /\ UNCHANGED <<s, answer, down, back>>

-----------------------------------------------------------------------------
Deliver ==
    \/ OnSocketError \/ OnSocketClose \/ OnUpgrade \/ OnUpstreamError \/ OnUpstreamClose
    \/ OnResponse \/ OnResponseAborted \/ OnResponseEnd \/ OnRequestError

RequestNext ==
    \/ Deliver \/ OnTimeout
    \/ \E error \in BOOLEAN : ClientLeaves(error) \/ WorkerCloses(error)
    \/ ClientEnds \/ ResponseDone
    \/ ClientSends \/ WorkerSends \/ PipeDown \/ PipeBack
    \/ \E e \in {"upgrade", "response"} : WorkerAnswers(e)

\* The event loop delivers what is due, and the timer fires when nothing flows: before the answer,
\* and in a response piped to a socket that is gone, which takes nothing. Neither side has
\* to send, to read what the pipes have for it, or to close.
Fairness ==
    /\ WF_requestVars(OnSocketError) /\ WF_requestVars(OnSocketClose) /\ WF_requestVars(OnUpgrade)
    /\ WF_requestVars(OnUpstreamError) /\ WF_requestVars(OnUpstreamClose) /\ WF_requestVars(OnResponse)
    /\ WF_requestVars(OnResponseAborted) /\ WF_requestVars(OnResponseEnd) /\ WF_requestVars(OnRequestError)
    /\ WF_requestVars(OnTimeout /\ (s.req = "pending" \/ s.client = "destroyed"))

RequestSpec == RequestInit /\ [][RequestNext]_requestVars /\ Fairness

-----------------------------------------------------------------------------
(* Properties.                                                             *)

Busy == s.req = "pending" \/ s.res = "body" \/ s.up \in {"open", "ended"}

\* At rest, the two ends are alike: a client that has gone has left no upgraded socket and no
\* body behind, and an upgraded socket that has gone has taken the client with it, whichever
\* of the events of the other side came first.
NoOrphanSide ==
    events = {} =>
      /\ s.client = "destroyed" => s.up \notin {"open", "ended"}
      /\ s.up = "destroyed" \/ s.res = "aborted" => s.client = "destroyed"

\* Each side receives the other's data in order from the first byte, including what was read
\* before the pipes existed, and the client gets one head of an answer before any of it.
Relayed ==
    LET InOrder(out) == \A i \in DOMAIN out : out[i] = i IN
    /\ InOrder(down.out)
    /\ back.out # <<>> => Head(back.out) = 0 /\ InOrder(Tail(back.out))

\* A client is not left waiting: it gets the upgrade or a response, or its socket is closed, also
\* when the worker never answers; and one that has gone, even before route() was called, does not
\* keep the worker busy for ever. (One that only ends its side and reads no more may: the pipe
\* waits for it, and an upgraded socket has no timeout.)
RequestEnds ==
    /\ <>(s.client = "destroyed" \/ s.piped \/ s.res # "none")
    /\ s.client = "destroyed" ~> ~Busy

=============================================================================
