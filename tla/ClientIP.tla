------------------------------ MODULE ClientIP ------------------------------
(***************************************************************************)
(* The address a request is counted under (ResolveClientIP): the peer of  *)
(* the connection, or what the trusted headers say when the peer is a      *)
(* trusted proxy. The client writes headers as it likes, the proxies on    *)
(* the way pass them on each in its own way, and only the first line of a  *)
(* header is read. parseRealIP is on.                                      *)
(***************************************************************************)
EXTENDS Integers, SequencesExt

CONSTANTS Client,      \* the last address on the way that is no trusted proxy
          Others,      \* other addresses a header may name
          Proxies,     \* the addresses within trustedProxies
          Junk,        \* a part of a header that is no address
          Headers,     \* how many trustedHeaders there are
          MaxParts,    \* bound on the parts of what the client writes
          MaxHops      \* bound on the proxies on the way

ASSUME ClientIPAssumption ==
    /\ Client \notin Proxies /\ Junk \notin Proxies /\ Client # Junk
    /\ Headers \in Nat /\ MaxParts \in Nat /\ MaxHops \in Nat

Parts == {Client, Junk} \cup Others \cup Proxies
Names == 1..Headers
Nobody == Junk

VARIABLES peer,      \* the address the request comes from
          headers,   \* [Names -> [first, rest]]: the parts of the first line, of all further lines
          says,      \* history: [Names -> what the proxies have made of the header]
          hops,      \* how many proxies the request has passed
          counted    \* the address it is counted under, Nobody before

clientIPVars == <<peer, headers, says, hops, counted>>

Header(first) == [first |-> first, rest |-> <<>>]

\* A header that is not there; an empty line is read like one of junk.
Absent == Header(<<>>)
Written == {Absent} \cup
    [first : SeqOf(Parts, MaxParts) \ {<<>>}, rest : SeqOf(Parts, MaxParts)]

\* The client has sent its request with headers as it likes, to a proxy or to the server.
ClientIPInit ==
    /\ peer = Client /\ headers \in [Names -> Written]
    /\ says = [i \in Names |-> "anything"]
    /\ hops = 0 /\ counted = Nobody

-----------------------------------------------------------------------------
(* The way of the request.                                                 *)

\* What a proxy may make of a header when the request comes from address a: pass it on, append
\* a to it, add a line of its own, replace it, or drop it.
Joined(h) == Header(h.first \o h.rest)
Appended(h, a) == Header(Append(h.first \o h.rest, a))
Added(h, a) == IF h = Absent THEN Header(<<a>>) ELSE [h EXCEPT !.rest = Append(@, a)]

\* What the header can say afterwards: a proxy that replaces it, or appends to it, makes it name
\* the client if the request comes from there.
SaysNow(i, way) ==
    IF peer = Client
    THEN IF way \in {"sets", "appends"} THEN "client" ELSE IF way = "drops" THEN "nothing" ELSE says[i]
    ELSE IF way \in {"sets", "drops"} THEN "nothing" ELSE says[i]

Passed(h, way) ==
    CASE way = "passes" -> h
      [] way = "appends" -> Appended(h, peer)
      [] way = "adds" -> Added(h, peer)
      [] way = "sets" -> Header(<<peer>>)
      [] way = "drops" -> Absent

Ways == {"passes", "appends", "adds", "sets", "drops"}

\* A trusted proxy forwards the request.
Forward(proxy, ways) ==
    /\ counted = Nobody /\ hops < MaxHops
    /\ headers' = [i \in Names |-> Passed(headers[i], ways[i])]
    /\ says' = [i \in Names |-> SaysNow(i, ways[i])]
    /\ peer' = proxy /\ hops' = hops + 1
    /\ UNCHANGED counted

\* The wrapper routes the request to a worker: Node joins the lines of a header, and route adds
\* nothing to them.
Route(proxy) ==
    /\ counted = Nobody /\ hops < MaxHops
    /\ headers' = [i \in Names |-> Joined(headers[i])]
    /\ peer' = proxy /\ hops' = hops + 1
    /\ UNCHANGED <<says, counted>>

-----------------------------------------------------------------------------
(* ResolveClientIP.                                                        *)

Usable(part) == part # Junk /\ part \notin Proxies

\* Header.Get reads the first line; its last usable part counts.
FirstUsable(h) == SelectInSeq(h.first, Usable)
Candidate(h) == SelectLastInSeq(h.first, Usable)

\* The first header with a candidate.
Chosen == SelectInSeq(headers, LAMBDA h : Candidate(h) # 0)

ResolveClientIP ==
    IF peer \notin Proxies \/ Chosen = 0 THEN peer
    ELSE headers[Chosen].first[Candidate(headers[Chosen])]

\* The server counts the request.
Serve ==
    /\ counted = Nobody
    /\ counted' = ResolveClientIP
    /\ UNCHANGED <<peer, headers, says, hops>>

ClientIPNext ==
    \/ \E proxy \in Proxies : Route(proxy) \/ \E ways \in [Names -> Ways] : Forward(proxy, ways)
    \/ Serve

ClientIPSpec == ClientIPInit /\ [][ClientIPNext]_clientIPVars

-----------------------------------------------------------------------------
(* Properties.                                                             *)

\* The request comes from the client itself, or a proxy next to the client has put its address
\* into a trusted header, and the trusted headers before that one can say nothing.
Accountable ==
    \/ peer = Client
    \/ \E i \in Names : says[i] = "client" /\ \A j \in Names : j < i => says[j] = "nothing"

\* Whatever the client writes and however the proxies behind the first pass it on, such a
\* request is counted under the address of the client.
CountedAsClient == counted # Nobody /\ Accountable => counted = Client

=============================================================================
