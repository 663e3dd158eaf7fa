-------------------------------- MODULE Dial --------------------------------
(***************************************************************************)
(* What handleConnect does for the streams of one connection before data   *)
(* flows: the name is looked up through DNSCache, the first address that   *)
(* the egress policy allows is picked, the dial takes a slot of the SYN    *)
(* semaphore, and its result feeds the SYN-flood detector of the           *)
(* destination. All streams ask for the same name. What the stream does    *)
(* afterwards is in Stream; the rate limits on the way are in Limits.      *)
(***************************************************************************)
EXTENDS Integers, Sequences, FiniteSets, SequencesExt

CONSTANTS Streams,     \* goroutines running handleConnect, one stream after another
          Zones,       \* what the name may resolve to: sequences of addresses
          Class,       \* [address -> its class]
          V4,          \* the IPv4 addresses
          Configs,     \* [private, loopback, direct: BOOLEAN, order]
          TTL, Timeout,         \* of the cache; dnsLookupTimeout
          SynLimit,             \* of InFlightSyns
          Window, MinSamples, FailPercent,  \* of the detectors, FailedHandshakeRatio
          MaxDelay,    \* bound: how long a runnable goroutine waits
          MaxDials,    \* bound on the streams
          MaxTime      \* bound on the clock

ASSUME DialAssumption ==
    /\ \A z \in Zones : z \in Seq(DOMAIN Class)
    /\ "none" \notin DOMAIN Class /\ V4 \subseteq DOMAIN Class
    /\ \A a \in DOMAIN Class : Class[a] \in {"public", "loopback", "private", "linklocal",
                                             "multicast", "unspecified"}
    /\ \A c \in Configs : c.private \in BOOLEAN /\ c.loopback \in BOOLEAN
    /\ SynLimit \in Nat \ {0} /\ MinSamples \in Nat \ {0}
    /\ Window \in Nat \ {0} /\ FailPercent \in Nat /\ MaxDelay \in Nat  \* no window, no detector
    /\ TTL \in Nat \ {0} /\ Timeout \in Nat   \* NewDNSCache makes the TTL positive
    /\ IsFiniteSet(Streams)

Address == DOMAIN Class
NoAddr == "none"

VARIABLES now, config,
          cache,     \* the entry of d.cache: [raw, ips, at, expires]; "raw" before reorderIPs
          flight,    \* d.group: [since, answer], since is -1 if nothing is in flight
          pc, at,    \* [Streams -> next step], [Streams -> the time it has read]
          got,       \* [Streams -> the answer it was given: [raw, ips, at]]
          addr, ok,  \* [Streams -> the address it dials], [Streams -> it succeeded]
          syn,       \* InFlightSyns.current
          ring,      \* [Address -> samples of the detector]
          matched,   \* a signature has matched and closed the connection
          started,   \* streams so far
          history    \* the results of the dials: [addr, t, ok]

names == <<cache, flight>>
dials == <<addr, ok, syn, ring, matched, history>>
vars == <<now, config, names, pc, at, got, dials, started>>

NoAnswer == [raw |-> <<>>, ips |-> <<>>, at |-> -1]
NoEntry == [raw |-> <<>>, ips |-> <<>>, at |-> -1, expires |-> -1]
NoFlight == [since |-> -1, answer |-> NoAnswer]

Init ==
    /\ now = 0 /\ config \in Configs
    /\ cache = NoEntry /\ flight = NoFlight
    /\ pc = [s \in Streams |-> "idle"] /\ at = [s \in Streams |-> 0]
    /\ got = [s \in Streams |-> NoAnswer]
    /\ addr = [s \in Streams |-> NoAddr] /\ ok = [s \in Streams |-> FALSE]
    /\ syn = 0 /\ matched = FALSE /\ started = 0
    /\ ring = [a \in Address |-> <<>>] /\ history = <<>>

Goto(s, to) == pc' = [pc EXCEPT ![s] = to]

-----------------------------------------------------------------------------
(* DNSCache.LookupIPAddr                                                   *)

\* A stream gets past the name and port lists: its lookup reads the clock.
Lookup(s) ==
    /\ pc[s] = "idle" /\ ~matched /\ started < MaxDials /\ now + Timeout < MaxTime
    /\ started' = started + 1
    /\ at' = [at EXCEPT ![s] = now] /\ Goto(s, "check")
    /\ UNCHANGED <<now, config, names, got, dials>>

FreshAlways(s) == cache # NoEntry
FreshEntry(s) == at[s] < cache.expires

CacheHit(s) ==
    /\ pc[s] = "check" /\ FreshEntry(s)
    /\ got' = [got EXCEPT ![s] = [raw |-> cache.raw, ips |-> cache.ips, at |-> cache.at]]
    /\ Goto(s, "pick")
    /\ UNCHANGED <<now, config, names, at, dials, started>>

CacheMiss(s) ==
    /\ pc[s] = "check" /\ ~FreshEntry(s)
    /\ Goto(s, "miss")
    /\ UNCHANGED <<now, config, names, at, got, dials, started>>

\* group.Do: the first caller starts a lookup, with its own timeout; others join it.
Do(s) ==
    /\ pc[s] = "miss"
    /\ flight' = IF flight = NoFlight THEN [since |-> now, answer |-> NoAnswer] ELSE flight
    /\ Goto(s, "wait")
    /\ UNCHANGED <<now, config, cache, at, got, dials, started>>

\* The resolver answers with what the name resolves to just then, or fails (<<>>).
Answer(zone) ==
    /\ flight # NoFlight /\ flight.answer = NoAnswer
    /\ flight' = [flight EXCEPT !.answer = [raw |-> zone, ips |-> <<>>, at |-> now]]
    /\ UNCHANGED <<now, config, cache, pc, at, got, dials, started>>

IsV4(a) == a \in V4
Family(ips, v4) == FlattenSeq([i \in DOMAIN ips |-> IF IsV4(ips[i]) = v4 THEN <<ips[i]>> ELSE <<>>])
ReorderedSwapped(ips) ==
    IF config.order = "ipv4first" THEN Family(ips, FALSE) \o Family(ips, TRUE) ELSE ips
reorderIPs(ips) ==
    CASE config.order = "ipv4first" -> Family(ips, TRUE) \o Family(ips, FALSE)
      [] config.order = "ipv6first" -> Family(ips, FALSE) \o Family(ips, TRUE)
      [] OTHER -> ips

\* The answer, an error too, is cached and given to everyone who waits.
Land ==
    /\ flight.answer # NoAnswer
    /\ LET a == [flight.answer EXCEPT !.ips = reorderIPs(flight.answer.raw)] IN
         /\ cache' = [raw |-> a.raw, ips |-> a.ips, at |-> a.at, expires |-> now + TTL]
         /\ got' = [s \in Streams |-> IF pc[s] = "wait" THEN a ELSE got[s]]
    /\ pc' = [s \in Streams |-> IF pc[s] = "wait" THEN "pick" ELSE pc[s]]
    /\ flight' = NoFlight
    /\ UNCHANGED <<now, config, at, dials, started>>

\* expire(), by the ticker of cleanup.
Expire ==
    /\ cache # NoEntry /\ now > cache.expires
    /\ cache' = NoEntry
    /\ UNCHANGED <<now, config, flight, pc, at, got, dials, started>>

-----------------------------------------------------------------------------
(* EgressPolicy.Evaluate and the choice of the address.                    *)

Evaluate(a) ==
    CASE Class[a] = "unspecified" -> FALSE
      [] Class[a] = "loopback" -> config.loopback
      [] Class[a] = "linklocal" -> config.private
      [] Class[a] = "private" -> config.private
      [] Class[a] = "multicast" -> FALSE
      [] OTHER -> TRUE

PickedIndex(ips) == SelectInSeq(ips, Evaluate)

\* No address, or none that is allowed: the stream is closed.
PickNone(s) ==
    /\ pc[s] = "pick" /\ PickedIndex(got[s].ips) = 0
    /\ got' = [got EXCEPT ![s] = NoAnswer] /\ at' = [at EXCEPT ![s] = 0] /\ Goto(s, "idle")
    /\ UNCHANGED <<now, config, names, dials, started>>

Pick(s) ==
    /\ pc[s] = "pick" /\ PickedIndex(got[s].ips) # 0
    /\ addr' = [addr EXCEPT ![s] = got[s].ips[PickedIndex(got[s].ips)]]
    /\ at' = [at EXCEPT ![s] = 0] /\ Goto(s, "admit")
    /\ UNCHANGED <<now, config, names, got, ok, syn, ring, matched, history, started>>

\* The stream names an address instead of a host.
DirectIP(s, a) ==
    /\ pc[s] = "idle" /\ ~matched /\ started < MaxDials
    /\ started' = started + 1
    /\ IF config.direct /\ Evaluate(a)
       THEN /\ addr' = [addr EXCEPT ![s] = a] /\ Goto(s, "admit")
            /\ got' = [got EXCEPT ![s] = [raw |-> <<a>>, ips |-> <<a>>, at |-> now]]
       ELSE UNCHANGED <<addr, pc, got>>
    /\ UNCHANGED <<now, config, names, at, ok, syn, ring, matched, history>>

-----------------------------------------------------------------------------
(* The dial.                                                               *)

Done(s) ==
    /\ Goto(s, "idle") /\ at' = [at EXCEPT ![s] = 0]
    /\ addr' = [addr EXCEPT ![s] = NoAddr] /\ got' = [got EXCEPT ![s] = NoAnswer]
    /\ ok' = [ok EXCEPT ![s] = FALSE]

\* A rate limit, the reputation of the destination or the semaphore refuses; or the stream is
\* UDP, which takes no slot and feeds no detector (and is refused if there is a proxy).
NoSyn(s) ==
    /\ pc[s] = "admit" /\ Done(s)
    /\ UNCHANGED <<now, config, names, syn, ring, matched, history, started>>

TryAcquire(s) ==
    /\ pc[s] = "admit" /\ syn < SynLimit
    /\ syn' = syn + 1 /\ Goto(s, "dial") /\ got' = [got EXCEPT ![s] = NoAnswer]
    /\ UNCHANGED <<now, config, names, at, addr, ok, ring, matched, history, started>>

ReleasedIfOk(result) == IF result THEN syn - 1 ELSE syn
Released(result) == syn - 1

\* The dial ends; Record reads the clock.
Dialled(s, result) ==
    /\ pc[s] = "dial"
    /\ syn' = Released(result)
    /\ ok' = [ok EXCEPT ![s] = result] /\ at' = [at EXCEPT ![s] = now]
    /\ history' = Append(history, [addr |-> addr[s], t |-> now, ok |-> result])
    /\ Goto(s, "record")
    /\ UNCHANGED <<now, config, names, got, addr, ring, matched, started>>

\* Samples are dropped from the front while they are older than the window.
PrunedNever(samples, cutoff) == samples
Pruned(samples, cutoff) ==
    LET keep == {i \in DOMAIN samples : samples[i].t >= cutoff} IN
    IF keep = {} THEN <<>>
    ELSE SubSeq(samples, CHOOSE i \in keep : \A j \in keep : i <= j, Len(samples))

Record(s) ==
    /\ pc[s] = "record"
    /\ ring' = [ring EXCEPT ![addr[s]] =
                  Pruned(Append(@, [t |-> at[s], ok |-> ok[s]]), at[s] - Window)]
    /\ Goto(s, "match")
    /\ UNCHANGED <<now, config, names, at, got, addr, ok, syn, matched, history, started>>

Failed(samples) == Cardinality({i \in DOMAIN samples : ~samples[i].ok})
Match(samples) ==
    /\ Len(samples) >= MinSamples
    /\ Failed(samples) * 100 >= FailPercent * Len(samples)

\* A match closes the stream and the connection; otherwise the stream goes on or fails.
MatchStep(s) ==
    /\ pc[s] = "match"
    /\ matched' = (matched \/ Match(ring[addr[s]]))
    /\ Done(s)
    /\ UNCHANGED <<now, config, names, syn, ring, history, started>>

-----------------------------------------------------------------------------
\* Time passes, no further than a runnable goroutine may lag or a lookup may take.
Tick ==
    /\ now < MaxTime
    /\ \A s \in Streams : pc[s] \in {"check", "miss", "record", "match"} => now < at[s] + MaxDelay
    /\ flight # NoFlight => now < flight.since + Timeout
    /\ now' = now + 1
    /\ UNCHANGED <<config, names, pc, at, got, dials, started>>

Step(s) ==
    \/ Lookup(s) \/ CacheHit(s) \/ CacheMiss(s) \/ Do(s) \/ PickNone(s) \/ Pick(s)
    \/ \E a \in Address : DirectIP(s, a)
    \/ NoSyn(s) \/ TryAcquire(s)
    \/ \E result \in BOOLEAN : Dialled(s, result)
    \/ Record(s) \/ MatchStep(s)

Next ==
    \/ \E s \in Streams : Step(s)
    \/ \E zone \in Zones \cup {<<>>} : Answer(zone)
    \/ Land \/ Expire
    \/ Tick

Spec == Init /\ [][Next]_vars

-----------------------------------------------------------------------------
(* Properties.                                                             *)

\* An answer, or an error, that a lookup is given was true of the name no longer ago than the
\* TTL and one lookup: sharing a lookup or reading the cache around an expiry gives no older one.
AnswerIsRecent ==
    \A s \in Streams : pc[s] = "pick" => got[s].at > at[s] - TTL - Timeout

\* What the configuration allows, and which of two addresses of an answer it prefers.
Reachable == {a \in Address : \/ Class[a] = "public"
                              \/ Class[a] = "loopback" /\ config.loopback
                              \/ Class[a] \in {"private", "linklocal"} /\ config.private}
Better(raw, i, j) ==
    IF IsV4(raw[i]) = IsV4(raw[j]) \/ config.order \notin {"ipv4first", "ipv6first"} THEN i < j
    ELSE IsV4(raw[i]) = (config.order = "ipv4first")

\* Whatever the answers were and whoever looked them up, the address dialled is one the policy
\* allows, and of those the first of the preferred family, in the order of the answer.
DialsBestAllowed ==
    \A s \in Streams : pc[s] = "admit" =>
      LET raw == got[s].raw
          good == {i \in DOMAIN raw : raw[i] \in Reachable}
      IN  \E i \in good : raw[i] = addr[s] /\ \A j \in good \ {i} : Better(raw, i, j)

\* The SYN semaphore counts exactly the TCP dials in progress, on every way out of the dial,
\* and never more than its limit.
SynExact ==
    /\ syn = Cardinality({s \in Streams : pc[s] = "dial"})
    /\ syn <= SynLimit

\* The connection is closed for a signature only if enough of its dials to one destination have
\* failed lately, although results are recorded late and out of order.
Lately(a) == {i \in DOMAIN history : /\ history[i].addr = a
                                     /\ history[i].t >= now - Window - 2 * MaxDelay}
MatchIsJustified ==
    [][~matched /\ matched' =>
         \E a \in Address :
           /\ Cardinality(Lately(a)) >= MinSamples
           /\ Cardinality({i \in Lately(a) : ~history[i].ok}) * 100 >= FailPercent * MinSamples]_vars

=============================================================================
