----------------------------- MODULE DialProofs -----------------------------
(***************************************************************************)
(* For any number of streams, any limits and any configuration: the SYN    *)
(* semaphore is exact, a lookup is never given an answer older than the    *)
(* TTL and one lookup, the best address that is allowed is dialled, and a  *)
(* signature matches only what has failed lately. Then the connections,    *)
(* Stats() and the reputation store of the server the streams belong to.   *)
(***************************************************************************)
EXTENDS Dial, Server, Reputation, SumTheorems, SequenceTheorems, FiniteSetTheorems, TLAPS

-----------------------------------------------------------------------------
(* The semaphore of the dials.                                             *)

PCs == {"idle", "check", "miss", "wait", "pick", "admit", "dial", "record", "match"}
Dialling == {s \in Streams : pc[s] = "dial"}

\* The inductive invariant for the semaphore.
SynInv == pc \in [Streams -> PCs] /\ syn \in Nat /\ SynExact

\* The dials in progress are finitely many.
LEMMA DiallingFinite == IsFiniteSet(Dialling) /\ Cardinality(Dialling) \in Nat
<1>1. Dialling \subseteq Streams
  BY DEF Dialling
<1> QED
  BY <1>1, DialAssumption, FS_Subset, FS_CardinalityType

\* A stream that leaves the dial alone leaves the semaphore exact.
LEMMA SynUntouched ==
    ASSUME SynInv, syn' = syn, pc' \in [Streams -> PCs], Dialling' = Dialling
    PROVE  SynInv'
BY DEF SynInv, SynExact, Dialling

\* Every step keeps the semaphore exact.
LEMMA SynStep == SynInv /\ [Next]_vars => SynInv'
<1> SUFFICES ASSUME SynInv, [Next]_vars PROVE SynInv'
  OBVIOUS
<1>0. /\ pc \in [Streams -> PCs] /\ syn \in Nat
      /\ syn = Cardinality(Dialling) /\ syn <= SynLimit /\ SynLimit \in Nat
  BY DialAssumption DEF SynInv, SynExact, Dialling
<1>1. ASSUME NEW s \in Streams, TryAcquire(s) PROVE SynInv'
  <2>1. pc' = [pc EXCEPT ![s] = "dial"] /\ pc[s] = "admit" /\ syn' = syn + 1 /\ syn < SynLimit
    BY <1>1 DEF TryAcquire, Goto
  <2>2. s \notin Dialling /\ Dialling' = Dialling \cup {s}
    BY <1>0, <2>1 DEF Dialling
  <2>3. Cardinality(Dialling') = Cardinality(Dialling) + 1
    BY <2>2, DiallingFinite, FS_AddElement
  <2> QED
    BY <1>0, <2>1, <2>3 DEF SynInv, SynExact, Dialling, PCs
<1>2. ASSUME NEW s \in Streams, NEW result \in BOOLEAN, Dialled(s, result) PROVE SynInv'
  <2>1. pc' = [pc EXCEPT ![s] = "record"] /\ pc[s] = "dial" /\ syn' = syn - 1
    BY <1>2 DEF Dialled, Goto, Released
  <2>2. s \in Dialling /\ Dialling' = Dialling \ {s}
    BY <1>0, <2>1 DEF Dialling
  <2>3. Cardinality(Dialling') = Cardinality(Dialling) - 1
    BY <2>2, DiallingFinite, FS_RemoveElement
  <2>4. Cardinality(Dialling) # 0
    BY <2>2, DiallingFinite, FS_EmptySet
  <2> QED
    BY <1>0, <2>1, <2>3, <2>4, DiallingFinite DEF SynInv, SynExact, Dialling, PCs
<1>3. ASSUME NEW s \in Streams, NEW to \in PCs \ {"dial"}, pc[s] # "dial",
             pc' = [pc EXCEPT ![s] = to], syn' = syn
      PROVE  SynInv'
  <2>1. Dialling' = Dialling /\ pc' \in [Streams -> PCs]
    BY <1>0, <1>3 DEF Dialling
  <2> QED
    BY <1>3, <2>1, SynUntouched
<1>4. CASE UNCHANGED <<pc, syn>>
  BY <1>0, <1>4, SynUntouched DEF Dialling
<1>5. ASSUME NEW s \in Streams, Step(s) PROVE SynInv'
  <2>1. CASE Lookup(s)
    BY <1>3, <2>1 DEF Lookup, Goto, dials, PCs
  <2>2. CASE CacheHit(s)
    BY <1>3, <2>2 DEF CacheHit, Goto, dials, PCs
  <2>3. CASE CacheMiss(s)
    BY <1>3, <2>3 DEF CacheMiss, Goto, dials, PCs
  <2>4. CASE Do(s)
    BY <1>3, <2>4 DEF Do, Goto, dials, PCs
  <2>5. CASE PickNone(s)
    BY <1>3, <2>5 DEF PickNone, Goto, dials, PCs
  <2>6. CASE Pick(s)
    BY <1>3, <2>6 DEF Pick, Goto, PCs
  <2>7. ASSUME NEW a \in Address, DirectIP(s, a) PROVE SynInv'
    BY <1>3, <1>4, <2>7 DEF DirectIP, Goto, PCs
  <2>8. CASE NoSyn(s)
    BY <1>3, <2>8 DEF NoSyn, Done, Goto, PCs
  <2>9. CASE Record(s)
    BY <1>3, <2>9 DEF Record, Goto, PCs
  <2>10. CASE MatchStep(s)
    BY <1>3, <2>10 DEF MatchStep, Done, Goto, PCs
  <2> QED
    BY <1>1, <1>2, <1>5, <2>1, <2>2, <2>3, <2>4, <2>5, <2>6, <2>7, <2>8, <2>9, <2>10 DEF Step
<1>6. CASE Land
  <2>1. pc' = [s \in Streams |-> IF pc[s] = "wait" THEN "pick" ELSE pc[s]] /\ syn' = syn
    BY <1>6 DEF Land, dials
  <2>2. Dialling' = Dialling /\ pc' \in [Streams -> PCs]
    BY <1>0, <2>1 DEF Dialling, PCs
  <2> QED
    BY <2>1, <2>2, SynUntouched
<1>7. ASSUME NEW zone, Answer(zone) PROVE SynInv'
  BY <1>4, <1>7 DEF Answer, dials
<1>8. CASE Expire \/ Tick \/ UNCHANGED vars
  BY <1>4, <1>8 DEF Expire, Tick, vars, dials
<1> QED
  BY <1>5, <1>6, <1>7, <1>8 DEF Next

\* InFlightSyns counts exactly the TCP dials in progress, however each one
\* ends, and never exceeds its limit: for any number of streams and any limit.
THEOREM SynSemaphoreIsExact == Spec => []SynExact
<1>1. Init => SynInv
  <2> SUFFICES ASSUME Init PROVE SynInv
    OBVIOUS
  <2>1. Dialling = {}
    BY DEF Init, Dialling
  <2>2. Cardinality(Dialling) = 0
    BY <2>1, FS_EmptySet
  <2> QED
    BY <2>2, DialAssumption DEF Init, SynInv, SynExact, Dialling, PCs
<1>2. SynInv => SynExact
  BY DEF SynInv
<1> QED
  BY <1>1, <1>2, SynStep, PTL DEF Spec

-----------------------------------------------------------------------------
(* The age of an answer.                                                   *)

\* Types of the clock and of what is timed by it.
TimeTypes ==
    /\ now \in Nat /\ at \in [Streams -> Nat] /\ pc \in [Streams -> PCs]
    /\ cache.at \in Int /\ cache.expires \in Int
    /\ flight \in [since : Int, answer : [raw : Seq(Address), ips : {<<>>}, at : Int]]
    /\ DOMAIN got = Streams /\ \A s \in Streams : got[s].at \in Int

\* A lookup in flight has not taken longer than its timeout; its answer, when
\* there is one, is not from before it began.
FlightInTime ==
    flight # NoFlight =>
        /\ flight.since >= 0 /\ flight.since <= now /\ now <= flight.since + Timeout
        /\ flight.answer # NoAnswer => flight.answer.at >= flight.since

\* An entry expires no later than the TTL and one lookup after its answer.
EntryIsTimed == cache.expires >= 0 => cache.expires <= cache.at + TTL + Timeout

\* Nobody has read a time that has yet to come.
PastTimes == \A s \in Streams : at[s] <= now

\* The inductive invariant for the age of answers.
AgeInv == TimeTypes /\ FlightInTime /\ EntryIsTimed /\ PastTimes /\ AnswerIsRecent

\* Nothing has been looked up yet.
LEMMA AgeInit == Init => AgeInv
<1> SUFFICES ASSUME Init PROVE AgeInv
  OBVIOUS
<1>1. NoAnswer \in [raw : Seq(Address), ips : {<<>>}, at : Int]
  BY DEF NoAnswer
<1>2. TimeTypes
  BY <1>1 DEF Init, TimeTypes, NoEntry, NoFlight, NoAnswer, PCs
<1> QED
  BY <1>2 DEF Init, AgeInv, FlightInTime, EntryIsTimed, PastTimes, AnswerIsRecent, NoEntry

\* A stream's own step that leaves the names alone and is not given an answer.
LEMMA AgeElsewhere ==
    ASSUME AgeInv, NEW s \in Streams, NEW to \in PCs \ {"pick"}, NEW t \in Nat, t <= now,
           pc' = [pc EXCEPT ![s] = to], at' = [at EXCEPT ![s] = t],
           DOMAIN got' = Streams, got'[s].at \in Int,
           \A u \in Streams \ {s} : got'[u] = got[u],
           UNCHANGED <<now, cache, flight>>
    PROVE  AgeInv'
<1>1. TimeTypes'
  BY DEF AgeInv, TimeTypes
<1>2. AnswerIsRecent'
  BY DEF AgeInv, TimeTypes, AnswerIsRecent
<1> QED
  BY <1>1, <1>2 DEF AgeInv, TimeTypes, FlightInTime, EntryIsTimed, PastTimes

\* A fresh entry is not too old for the one who finds it.
LEMMA AgeHit == ASSUME AgeInv, NEW s \in Streams, CacheHit(s) PROVE AgeInv'
<1>0. TTL \in Nat /\ Timeout \in Nat
  BY DialAssumption
<1>1. /\ pc' = [pc EXCEPT ![s] = "pick"] /\ at[s] < cache.expires
      /\ got' = [got EXCEPT ![s] = [raw |-> cache.raw, ips |-> cache.ips, at |-> cache.at]]
      /\ UNCHANGED <<now, cache, flight, at>>
  BY DEF CacheHit, FreshEntry, Goto, names
<1>2. got'[s].at = cache.at /\ \A u \in Streams \ {s} : got'[u] = got[u] /\ pc'[u] = pc[u]
  BY <1>1 DEF AgeInv, TimeTypes
<1>3. cache.at > at[s] - TTL - Timeout
  <2>1. /\ at[s] \in Nat /\ cache.at \in Int /\ cache.expires \in Int
        /\ cache.expires >= 0 => cache.expires <= cache.at + TTL + Timeout
    BY DEF AgeInv, TimeTypes, EntryIsTimed
  <2> QED
    BY <1>0, <1>1, <2>1
<1>4. TimeTypes'
  BY <1>1, <1>2 DEF AgeInv, TimeTypes, PCs
<1>5. AnswerIsRecent'
  BY <1>1, <1>2, <1>3 DEF AgeInv, AnswerIsRecent
<1> QED
  BY <1>1, <1>4, <1>5 DEF AgeInv, FlightInTime, EntryIsTimed, PastTimes

\* The answer of a lookup is not too old for those who joined it, nor for
\* those who will find it in the cache.
LEMMA AgeLand == ASSUME AgeInv, Land PROVE AgeInv'
<1>0. TTL \in Nat \ {0} /\ Timeout \in Nat /\ now \in Nat
  BY DialAssumption DEF AgeInv, TimeTypes
<1> DEFINE a == [flight.answer EXCEPT !.ips = reorderIPs(flight.answer.raw)]
<1>1. a.at = flight.answer.at
  BY DEF AgeInv, TimeTypes
<1>2. /\ cache' = [raw |-> a.raw, ips |-> a.ips, at |-> a.at, expires |-> now + TTL]
      /\ got' = [s \in Streams |-> IF pc[s] = "wait" THEN a ELSE got[s]]
      /\ pc' = [s \in Streams |-> IF pc[s] = "wait" THEN "pick" ELSE pc[s]]
      /\ flight' = NoFlight /\ UNCHANGED <<now, at>> /\ flight.answer # NoAnswer
  BY DEF Land
<1> HIDE DEF a
<1>3. flight # NoFlight
  BY <1>2 DEF NoFlight
<1>4. /\ flight.answer.at \in Int /\ flight.since \in Int
      /\ flight.answer.at >= flight.since /\ now <= flight.since + Timeout
  BY <1>2, <1>3 DEF AgeInv, TimeTypes, FlightInTime
<1>5. TimeTypes'
  <2>1. NoFlight \in [since : Int, answer : [raw : Seq(Address), ips : {<<>>}, at : Int]]
    BY DEF NoFlight, NoAnswer
  <2>2. DOMAIN got' = Streams /\ \A s \in Streams : got'[s].at \in Int
    BY <1>1, <1>2, <1>4 DEF AgeInv, TimeTypes
  <2>3. cache'.at \in Int /\ cache'.expires \in Int
    BY <1>0, <1>1, <1>2, <1>4
  <2> QED
    BY <1>2, <2>1, <2>2, <2>3 DEF AgeInv, TimeTypes, PCs
<1>6. EntryIsTimed'
  <2>1. cache'.at = flight.answer.at /\ cache'.expires = now + TTL
    BY <1>1, <1>2
  <2> QED
    BY <1>0, <1>4, <2>1 DEF EntryIsTimed
<1>7. AnswerIsRecent'
  <2> SUFFICES ASSUME NEW s \in Streams, pc'[s] = "pick"
               PROVE  got'[s].at > at'[s] - TTL - Timeout
    BY DEF AnswerIsRecent
  <2>1. CASE pc[s] = "wait"
    <3>1. got'[s].at = flight.answer.at /\ at'[s] = at[s] /\ at[s] \in Nat /\ at[s] <= now
      BY <1>1, <1>2, <2>1 DEF AgeInv, TimeTypes, PastTimes
    <3> QED
      BY <1>0, <1>4, <3>1
  <2>2. CASE pc[s] # "wait"
    BY <1>2, <2>2 DEF AgeInv, AnswerIsRecent
  <2> QED
    BY <2>1, <2>2
<1> QED
  BY <1>2, <1>5, <1>6, <1>7 DEF AgeInv, FlightInTime, PastTimes

\* A lookup is joined, or begins now.
LEMMA AgeDo == ASSUME AgeInv, NEW s \in Streams, Do(s) PROVE AgeInv'
<1>0. Timeout \in Nat /\ now \in Nat
  BY DialAssumption DEF AgeInv, TimeTypes
<1>1. /\ pc' = [pc EXCEPT ![s] = "wait"] /\ UNCHANGED <<now, cache, at, got>>
      /\ flight' = IF flight = NoFlight THEN [since |-> now, answer |-> NoAnswer] ELSE flight
  BY DEF Do, Goto
<1>2. NoAnswer \in [raw : Seq(Address), ips : {<<>>}, at : Int]
  BY DEF NoAnswer
<1>3. TimeTypes'
  BY <1>0, <1>1, <1>2 DEF AgeInv, TimeTypes, PCs
<1>4. FlightInTime'
  BY <1>0, <1>1 DEF AgeInv, FlightInTime
<1>5. AnswerIsRecent'
  BY <1>1 DEF AgeInv, TimeTypes, AnswerIsRecent
<1> QED
  BY <1>1, <1>3, <1>4, <1>5 DEF AgeInv, EntryIsTimed, PastTimes

\* The resolver's answer is of this moment.
LEMMA AgeAnswer == ASSUME AgeInv, NEW zone \in Zones \cup {<<>>}, Answer(zone) PROVE AgeInv'
<1>z. zone \in Seq(Address)
  <2>1. CASE zone \in Zones
    BY <2>1, DialAssumption DEF Address
  <2>2. CASE zone = <<>>
    BY <2>2
  <2> QED
    BY <2>1, <2>2
<1>0. zone \in Seq(Address) /\ now \in Nat
  BY <1>z DEF AgeInv, TimeTypes
<1>1. /\ flight # NoFlight /\ UNCHANGED <<now, cache, pc, at, got>>
      /\ flight' = [flight EXCEPT !.answer = [raw |-> zone, ips |-> <<>>, at |-> now]]
  BY DEF Answer
<1>2. flight'.since = flight.since /\ flight'.answer.at = now
  BY <1>1 DEF AgeInv, TimeTypes
<1>3. TimeTypes'
  BY <1>0, <1>1 DEF AgeInv, TimeTypes
<1>4. FlightInTime'
  BY <1>1, <1>2 DEF AgeInv, FlightInTime
<1> QED
  BY <1>1, <1>3, <1>4 DEF AgeInv, EntryIsTimed, PastTimes, AnswerIsRecent

\* Time passes no further than a lookup may take.
LEMMA AgeTick == ASSUME AgeInv, Tick PROVE AgeInv'
<1>0. Timeout \in Nat /\ now \in Nat
  BY DialAssumption DEF AgeInv, TimeTypes
<1>1. /\ now' = now + 1 /\ UNCHANGED <<cache, flight, pc, at, got>>
      /\ flight # NoFlight => now < flight.since + Timeout
  BY DEF Tick, names
<1>2. TimeTypes'
  BY <1>0, <1>1 DEF AgeInv, TimeTypes
<1>3. FlightInTime'
  <2>1. flight.since \in Int
    BY DEF AgeInv, TimeTypes
  <2> QED
    BY <1>0, <1>1, <2>1 DEF AgeInv, FlightInTime
<1>4. PastTimes'
  BY <1>0, <1>1 DEF AgeInv, TimeTypes, PastTimes
<1> QED
  BY <1>1, <1>2, <1>3, <1>4 DEF AgeInv, EntryIsTimed, AnswerIsRecent

\* Every step keeps the ages bounded.
LEMMA AgeStep == AgeInv /\ [Next]_vars => AgeInv'
<1> SUFFICES ASSUME AgeInv, [Next]_vars PROVE AgeInv'
  OBVIOUS
<1>0. /\ now \in Nat /\ at \in [Streams -> Nat] /\ PastTimes /\ DOMAIN got = Streams
      /\ \A s \in Streams : got[s].at \in Int
  BY DEF AgeInv, TimeTypes
<1>1. ASSUME NEW s \in Streams, Step(s) PROVE AgeInv'
  <2>1. at' = at => at' = [at EXCEPT ![s] = at[s]] /\ at[s] \in Nat /\ at[s] <= now
    BY <1>0 DEF PastTimes
  <2>2. got' = got => /\ DOMAIN got' = Streams /\ got'[s].at \in Int
                      /\ \A u \in Streams \ {s} : got'[u] = got[u]
    BY <1>0
  <2>3. got' = [got EXCEPT ![s] = NoAnswer] =>
                      /\ DOMAIN got' = Streams /\ got'[s].at \in Int
                      /\ \A u \in Streams \ {s} : got'[u] = got[u]
    BY <1>0 DEF NoAnswer
  <2>t. 0 \in Nat /\ 0 <= now /\ now <= now
    BY <1>0
  <2>4. CASE Lookup(s)
    BY <1>0, <2>t, <2>2, <2>4, AgeElsewhere DEF Lookup, Goto, names, PCs
  <2>5. CASE CacheMiss(s)
    BY <2>1, <2>2, <2>5, AgeElsewhere DEF CacheMiss, Goto, names, PCs
  <2>6. CASE PickNone(s)
    BY <1>0, <2>t, <2>3, <2>6, AgeElsewhere DEF PickNone, Goto, names, PCs
  <2>7. CASE Pick(s)
    BY <1>0, <2>t, <2>2, <2>7, AgeElsewhere DEF Pick, Goto, names, PCs
  <2>8. ASSUME NEW a \in Address, DirectIP(s, a) PROVE AgeInv'
    <3>1. UNCHANGED <<now, cache, flight, at>>
      BY <2>8 DEF DirectIP, names
    <3>2. CASE config.direct /\ Evaluate(a)
      <4>1. /\ pc' = [pc EXCEPT ![s] = "admit"]
            /\ got' = [got EXCEPT ![s] = [raw |-> <<a>>, ips |-> <<a>>, at |-> now]]
        BY <2>8, <3>2 DEF DirectIP, Goto
      <4>2. /\ DOMAIN got' = Streams /\ got'[s].at \in Int
            /\ \A u \in Streams \ {s} : got'[u] = got[u]
        BY <1>0, <4>1
      <4> QED
        BY <2>1, <3>1, <4>1, <4>2, AgeElsewhere DEF PCs
    <3>3. CASE ~(config.direct /\ Evaluate(a))
      <4>1. UNCHANGED <<pc, got>>
        BY <2>8, <3>3 DEF DirectIP
      <4> QED
        BY <3>1, <4>1 DEF AgeInv, TimeTypes, FlightInTime, EntryIsTimed, PastTimes, AnswerIsRecent
    <3> QED
      BY <3>2, <3>3
  <2>9. CASE NoSyn(s)
    BY <1>0, <2>t, <2>3, <2>9, AgeElsewhere DEF NoSyn, Done, Goto, names, PCs
  <2>10. CASE TryAcquire(s)
    BY <2>1, <2>3, <2>10, AgeElsewhere DEF TryAcquire, Goto, names, PCs
  <2>11. ASSUME NEW result \in BOOLEAN, Dialled(s, result) PROVE AgeInv'
    BY <1>0, <2>t, <2>2, <2>11, AgeElsewhere DEF Dialled, Goto, names, PCs
  <2>12. CASE Record(s)
    BY <2>1, <2>2, <2>12, AgeElsewhere DEF Record, Goto, names, PCs
  <2>13. CASE MatchStep(s)
    BY <1>0, <2>t, <2>3, <2>13, AgeElsewhere DEF MatchStep, Done, Goto, names, PCs
  <2> QED
    BY <1>1, <2>4, <2>5, <2>6, <2>7, <2>8, <2>9, <2>10, <2>11, <2>12, <2>13, AgeHit, AgeDo DEF Step
<1>2. CASE Expire
  <2>1. cache' = NoEntry /\ UNCHANGED <<now, flight, pc, at, got>>
    BY <1>2 DEF Expire
  <2> QED
    BY <2>1 DEF AgeInv, TimeTypes, FlightInTime, EntryIsTimed, PastTimes, AnswerIsRecent, NoEntry
<1>3. CASE UNCHANGED vars
  BY <1>3 DEF AgeInv, TimeTypes, FlightInTime, EntryIsTimed, PastTimes, AnswerIsRecent, vars, names
<1> QED
  BY <1>1, <1>2, <1>3, AgeLand, AgeAnswer, AgeTick DEF Next

\* Whoever looks a name up, and whether the answer comes from the cache around
\* its expiry or from a lookup another stream started, it was true of the name
\* no longer ago than the TTL and one lookup: for any TTL, timeout and delay.
THEOREM AnswersAreRecent == Spec => []AnswerIsRecent
<1>1. AgeInv => AnswerIsRecent
  BY DEF AgeInv
<1> QED
  BY <1>1, AgeInit, AgeStep, PTL DEF Spec

-----------------------------------------------------------------------------
(* The choice of the address.                                              *)

\* f lists what the sequence raw has at the indices in P, in the order of raw; h gives
\* the index of each.
Lists(f, h, raw, P) ==
    /\ \A k \in 1..Len(f) : h[k] \in P /\ f[k] = raw[h[k]]
    /\ \A j \in 1..Len(f), k \in 1..Len(f) : j < k => h[j] < h[k]
    /\ \A i \in P : \E k \in 1..Len(f) : h[k] = i

\* A list goes on with the next index.
LEMMA ListsMore ==
    ASSUME NEW f \in Seq(Address), NEW h, NEW raw, NEW n \in Nat,
           NEW P \in SUBSET (1..n), Lists(f, h, raw, P), raw[n + 1] \in Address
    PROVE  \E g : Lists(f \o <<raw[n + 1]>>, g, raw, P \cup {n + 1})
<1> DEFINE e == raw[n + 1]
           m == Len(f) + 1
           g == [k \in Nat |-> IF k = m THEN n + 1 ELSE h[k]]
           F == f \o <<e>>
<1>0. e \in Address /\ Len(f) \in Nat
  OBVIOUS
<1> HIDE DEF e
<1>1. /\ m \in Nat /\ F \in Seq(Address) /\ Len(F) = m /\ F[m] = e
      /\ \A k \in 1..Len(f) : F[k] = f[k]
  <2>1. <<e>> \in Seq(Address) /\ Len(<<e>>) = 1 /\ <<e>>[1] = e
    BY <1>0
  <2> QED
    BY <1>0, <2>1
<1>2. g[m] = n + 1 /\ \A k \in 1..Len(f) : g[k] = h[k]
  <2>1. \A k \in 1..Len(f) : k \in Nat /\ k # m
    BY <1>0
  <2> HIDE DEF m
  <2> QED
    BY <1>1, <2>1
<1>3. /\ \A k \in 1..Len(f) : h[k] \in P /\ f[k] = raw[h[k]]
      /\ \A j \in 1..Len(f), k \in 1..Len(f) : j < k => h[j] < h[k]
      /\ \A i \in P : \E k \in 1..Len(f) : h[k] = i
  BY DEF Lists
<1>4. \A k \in 1..m : k = m \/ k \in 1..Len(f)
  <2> SUFFICES ASSUME NEW k \in 1..m PROVE k = m \/ k \in 1..Len(f)
    OBVIOUS
  <2> SUFFICES ASSUME NEW l \in Nat, l = Len(f), k # l + 1, k \in 1..(l + 1) PROVE k \in 1..l
    BY <1>0
  <2> QED
    OBVIOUS
<1>5. 1..Len(f) \subseteq 1..m /\ m \in 1..m
  BY <1>0
<1> HIDE DEF g, F
<1>6. \A k \in 1..m : g[k] \in P \cup {n + 1} /\ F[k] = raw[g[k]]
  BY <1>1, <1>2, <1>3, <1>4 DEF e
<1>7. ASSUME NEW j \in 1..m, NEW k \in 1..m, j < k PROVE g[j] < g[k]
  <2>1. j \in 1..Len(f)
    BY <1>1, <1>7
  <2>2. CASE k = m
    <3>1. g[j] \in 1..n
      BY <1>2, <1>3, <2>1
    <3> QED
      BY <1>2, <2>2, <3>1
  <2>3. CASE k \in 1..Len(f)
    BY <1>2, <1>3, <1>7, <2>1, <2>3
  <2> QED
    BY <1>4, <2>2, <2>3
<1>8. ASSUME NEW i \in P \cup {n + 1} PROVE \E k \in 1..m : g[k] = i
  BY <1>2, <1>3, <1>5
<1>9. Lists(F, g, raw, P \cup {n + 1})
  BY <1>1, <1>6, <1>7, <1>8 DEF Lists
<1> QED
  BY <1>2, <1>9 DEF F, e

\* The addresses of a family, in the order of the answer.
LEMMA FamilyLists ==
    ASSUME NEW raw \in Seq(Address), NEW v \in BOOLEAN
    PROVE  /\ Family(raw, v) \in Seq(Address)
           /\ \E h : Lists(Family(raw, v), h, raw, {i \in DOMAIN raw : IsV4(raw[i]) = v})
<1> DEFINE F == [i \in DOMAIN raw |-> IF IsV4(raw[i]) = v THEN <<raw[i]>> ELSE <<>>]
           P(n) == {i \in 1..n : IsV4(raw[i]) = v}
           Listed(n) == \E h : Lists(Joint(F, n), h, raw, P(n))
           N == {n \in Nat : n <= Len(raw) => Listed(n)}
<1>0. Len(raw) \in Nat /\ DOMAIN raw = 1..Len(raw) /\ \A i \in 1..Len(raw) : raw[i] \in Address
  OBVIOUS
<1>1. F \in Seq(Seq(Address)) /\ Len(F) = Len(raw)
  <2>1. \A i \in 1..Len(raw) : (IF IsV4(raw[i]) = v THEN <<raw[i]>> ELSE <<>>) \in Seq(Address)
    BY <1>0
  <2> QED
    BY <1>0, <2>1, IsASeq
<1>2. /\ Joint(F, 0) = <<>> /\ Joint(F, Len(raw)) = Family(raw, v)
      /\ \A c \in 0..Len(raw) : Joint(F, c) \in Seq(Address)
      /\ \A c \in 0..(Len(raw) - 1) : Joint(F, c + 1) = Joint(F, c) \o F[c + 1]
  <2>1. FlattenSeq(F) = Family(raw, v)
    BY DEF Family
  <2> HIDE DEF F
  <2> QED
    BY <1>1, <2>1, JointSteps
<1>3. 0 \in N
  <2>2. Len(Joint(F, 0)) = 0 /\ P(0) = {}
    BY <1>2
  <2>3. Lists(Joint(F, 0), [i \in Nat |-> 0], raw, P(0))
    <3> HIDE DEF P, F
    <3> QED
      BY <2>2 DEF Lists
  <2> QED
    BY <2>3
<1>4. ASSUME NEW n \in Nat, n \in N PROVE n + 1 \in N
  <2>s. n <= Len(raw) => Listed(n)
    BY <1>4, Zenon
  <2> HIDE DEF Listed
  <2> SUFFICES ASSUME n + 1 <= Len(raw) PROVE Listed(n + 1)
    OBVIOUS
  <2>t. Listed(n)
    BY <1>0, <2>s
  <2> USE DEF Listed
  <2>1. PICK h : Lists(Joint(F, n), h, raw, P(n))
    BY <2>t, Zenon
  <2>2. /\ n + 1 \in 1..Len(raw) /\ n \in 0..Len(raw) /\ n \in 0..(Len(raw) - 1)
        /\ raw[n + 1] \in Address
    BY <1>0
  <2>3. Joint(F, n) \in Seq(Address) /\ Joint(F, n + 1) = Joint(F, n) \o F[n + 1]
    BY <1>2, <2>2
  <2>4. CASE IsV4(raw[n + 1]) = v
    <3>1. F[n + 1] = <<raw[n + 1]>>
      BY <1>0, <2>2, <2>4
    <3>2. P(n + 1) = P(n) \cup {n + 1} /\ P(n) \in SUBSET (1..n)
      BY <2>4
    <3> DEFINE J == Joint(F, n)   K == Joint(F, n + 1)   Q == P(n)
    <3>3. K = J \o <<raw[n + 1]>> /\ J \in Seq(Address) /\ Lists(J, h, raw, Q)
      BY <2>1, <2>3, <3>1
    <3> HIDE DEF J, K, Q
    <3>4. \E g : Lists(J \o <<raw[n + 1]>>, g, raw, Q \cup {n + 1})
      BY <2>1, <2>2, <3>2, <3>3, ListsMore DEF Q
    <3> QED
      BY <3>2, <3>3, <3>4 DEF K, Q
  <2>5. CASE IsV4(raw[n + 1]) # v
    <3>1. F[n + 1] = <<>>
      BY <1>0, <2>2, <2>5
    <3>2. P(n + 1) = P(n)
      BY <2>5
    <3>3. Joint(F, n + 1) = Joint(F, n)
      <4> DEFINE J == Joint(F, n)
      <4>1. J \in Seq(Address) /\ Joint(F, n + 1) = J \o <<>>
        BY <2>3, <3>1
      <4> HIDE DEF J
      <4>2. J \o <<>> = J
        BY <4>1
      <4> QED
        BY <4>1, <4>2 DEF J
    <3> QED
      BY <2>1, <3>2, <3>3
  <2> QED
    BY <2>4, <2>5
<1> HIDE DEF N
<1>5. Nat \subseteq N
  BY <1>3, <1>4, NatSetInduction
<1>6. \E h : Lists(Joint(F, Len(raw)), h, raw, P(Len(raw)))
  <2> HIDE DEF Listed
  <2>1. Listed(Len(raw))
    BY <1>0, <1>5 DEF N
  <2> QED
    BY <2>1, Zenon DEF Listed
<1>7. P(Len(raw)) = {i \in DOMAIN raw : IsV4(raw[i]) = v}
  BY <1>0
<1>8. Len(raw) \in 0..Len(raw)
  BY <1>0
<1> HIDE DEF F, P
<1> QED
  BY <1>2, <1>6, <1>7, <1>8

\* The first index of F, of length n, with an element of G is p.
FirstIn(F, n, p, G) == p \in 1..n /\ F[p] \in G /\ \A q \in 1..n : F[q] \in G => p <= q

\* The answer raw has x at an index that comes before the others with an element of G;
\* those in P come before those in Q.
Foremost(raw, x, P, Q, G) ==
    \E i \in P \cup Q :
       /\ raw[i] = x
       /\ \A j \in P : raw[j] \in G => j = i \/ (i \in P /\ i < j)
       /\ \A j \in Q : raw[j] \in G => j = i \/ i \in P \/ (i \in Q /\ i < j)

\* Of two lists of an answer, one after the other, the first address in G comes before
\* the others of its list, and before all of the second list if it is in the first.
LEMMA FirstOfTwo ==
    ASSUME NEW raw, NEW f \in Seq(Address), NEW g \in Seq(Address), NEW h, NEW k, NEW P, NEW Q,
           Lists(f, h, raw, P), Lists(g, k, raw, Q), NEW G,
           NEW p, FirstIn(f \o g, Len(f) + Len(g), p, G)
    PROVE  Foremost(raw, (f \o g)[p], P, Q, G)
<1> DEFINE F == f \o g
<1>1. /\ Len(f) \in Nat /\ Len(g) \in Nat
      /\ \A q \in 1..Len(f) : F[q] = f[q]
      /\ \A q \in 1..Len(g) : F[Len(f) + q] = g[q]
  OBVIOUS
<1>2. /\ p \in 1..(Len(f) + Len(g)) /\ F[p] \in G
      /\ \A q \in 1..(Len(f) + Len(g)) : F[q] \in G => p <= q
  BY DEF FirstIn
<1> HIDE DEF F
<1>3. /\ \A q \in 1..Len(f) : h[q] \in P /\ f[q] = raw[h[q]]
      /\ \A j \in 1..Len(f), q \in 1..Len(f) : j < q => h[j] < h[q]
      /\ \A i \in P : \E q \in 1..Len(f) : h[q] = i
  BY DEF Lists
<1>4. /\ \A q \in 1..Len(g) : k[q] \in Q /\ g[q] = raw[k[q]]
      /\ \A j \in 1..Len(g), q \in 1..Len(g) : j < q => k[j] < k[q]
      /\ \A i \in Q : \E q \in 1..Len(g) : k[q] = i
  BY DEF Lists
<1>5. ASSUME NEW j \in P, raw[j] \in G
      PROVE  \E q \in 1..Len(f) : h[q] = j /\ p <= q
  <2>1. PICK q \in 1..Len(f) : h[q] = j
    BY <1>3
  <2>2. F[q] \in G /\ q \in 1..(Len(f) + Len(g))
    BY <1>1, <1>3, <1>5, <2>1
  <2> QED
    BY <1>2, <2>1, <2>2
<1>6. ASSUME NEW j \in Q, raw[j] \in G
      PROVE  \E q \in 1..Len(g) : k[q] = j /\ p <= Len(f) + q
  <2>1. PICK q \in 1..Len(g) : k[q] = j
    BY <1>4
  <2>2. F[Len(f) + q] \in G /\ Len(f) + q \in 1..(Len(f) + Len(g))
    BY <1>1, <1>4, <1>6, <2>1
  <2> QED
    BY <1>2, <2>1, <2>2
<1>7. CASE p <= Len(f)
  <2>1. p \in 1..Len(f)
    BY <1>1, <1>2, <1>7
  <2>2. h[p] \in P /\ raw[h[p]] = F[p]
    BY <1>1, <1>3, <2>1
  <2>3. ASSUME NEW j \in P, raw[j] \in G PROVE j = h[p] \/ h[p] < j
    <3>1. PICK q \in 1..Len(f) : h[q] = j /\ p <= q
      BY <1>5, <2>3
    <3>2. p = q \/ p < q
      BY <1>1, <2>1, <3>1
    <3> QED
      BY <1>3, <2>1, <3>1, <3>2
  <2> QED
    BY <2>2, <2>3 DEF F, Foremost
<1>8. CASE p > Len(f)
  <2> DEFINE o == p - Len(f)
  <2>1. o \in 1..Len(g) /\ p = Len(f) + o
    BY <1>1, <1>2, <1>8
  <2> HIDE DEF o
  <2>2. k[o] \in Q /\ raw[k[o]] = F[p]
    BY <1>1, <1>4, <2>1
  <2>3. ASSUME NEW j \in P, raw[j] \in G PROVE FALSE
    BY <1>1, <1>2, <1>5, <1>8, <2>3
  <2>4. ASSUME NEW j \in Q, raw[j] \in G PROVE j = k[o] \/ k[o] < j
    <3>1. PICK q \in 1..Len(g) : k[q] = j /\ p <= Len(f) + q
      BY <1>6, <2>4
    <3>2. o = q \/ o < q
      BY <1>1, <2>1, <3>1
    <3> QED
      BY <1>4, <2>1, <3>1, <3>2
  <2> QED
    BY <2>2, <2>3, <2>4 DEF F, Foremost
<1> QED
  BY <1>1, <1>2, <1>7, <1>8

\* Evaluate allows the addresses that the configuration makes reachable.
LEMMA EvaluateReachable ==
    ASSUME config \in Configs, NEW a \in Address
    PROVE  Evaluate(a) <=> a \in Reachable
<1>1. /\ config.private \in BOOLEAN /\ config.loopback \in BOOLEAN
      /\ Class[a] \in {"public", "loopback", "private", "linklocal", "multicast", "unspecified"}
  BY DialAssumption DEF Address
<1> QED
  BY <1>1 DEF Evaluate, Reachable

\* What is picked is the first reachable address of the list.
LEMMA PickedFirst ==
    ASSUME config \in Configs, NEW ips \in Seq(Address), PickedIndex(ips) # 0
    PROVE  /\ PickedIndex(ips) \in 1..Len(ips) /\ ips[PickedIndex(ips)] \in Reachable
           /\ \A q \in 1..Len(ips) : ips[q] \in Reachable => PickedIndex(ips) <= q
<1> DEFINE I == {i \in 1..Len(ips) : Evaluate(ips[i])}
<1>1. PickedIndex(ips) = IF I # {} THEN Min(I) ELSE 0
  BY DEF PickedIndex, SelectInSeq
<1>2. I # {} /\ I \in SUBSET Nat
  BY <1>1
<1>3. Min(I) = CHOOSE x \in I : \A y \in I : x <= y
  BY DEF Min
<1>4. \A i \in 1..Len(ips) : i \in I <=> ips[i] \in Reachable
  BY EvaluateReachable
<1>5. I \subseteq 1..Len(ips)
  OBVIOUS
<1> HIDE DEF I
<1>6. \E x \in I : \A y \in I : x <= y
  BY <1>2, LeastNatural
<1>7. Min(I) \in I /\ \A y \in I : Min(I) <= y
  BY <1>3, <1>6
<1> QED
  BY <1>1, <1>2, <1>4, <1>5, <1>7

\* Of the addresses of the answer that are reachable, a is the one preferred.
Best(raw, a) ==
    LET good == {i \in DOMAIN raw : raw[i] \in Reachable}
    IN  \E i \in good : raw[i] = a /\ \A j \in good \ {i} : Better(raw, i, j)

\* The first allowed address after reorderIPs is the best of the answer.
LEMMA PickIsBest ==
    ASSUME config \in Configs, NEW raw \in Seq(Address), NEW ips, ips = reorderIPs(raw),
           PickedIndex(ips) # 0
    PROVE  ips[PickedIndex(ips)] \in Reachable /\ Best(raw, ips[PickedIndex(ips)])
<1> DEFINE p == PickedIndex(ips)
           P(v) == {i \in DOMAIN raw : IsV4(raw[i]) = v}
<1>0. P(TRUE) \cup P(FALSE) = DOMAIN raw
  <2>1. \A i \in DOMAIN raw : IsV4(raw[i]) = TRUE \/ IsV4(raw[i]) = FALSE
    BY DEF IsV4
  <2> QED
    BY <2>1, Zenon
<1>1. ASSUME NEW v \in BOOLEAN, config.order = IF v THEN "ipv4first" ELSE "ipv6first"
      PROVE  ips[p] \in Reachable /\ Best(raw, ips[p])
  <2> DEFINE w == ~v
             f == Family(raw, v)
             g == Family(raw, w)
  <2>w. w \in BOOLEAN /\ ((v = TRUE /\ w = FALSE) \/ (v = FALSE /\ w = TRUE))
    BY Zenon
  <2>1. f \in Seq(Address) /\ g \in Seq(Address)
    BY <2>w, FamilyLists
  <2>2. PICK h : Lists(f, h, raw, P(v))
    BY FamilyLists
  <2>3. PICK k : Lists(g, k, raw, P(w))
    BY <2>w, FamilyLists
  <2>4. ips = f \o g
    BY <1>1, <2>w DEF reorderIPs
  <2>5. ips \in Seq(Address) /\ Len(ips) = Len(f) + Len(g)
    BY <2>1, <2>4
  <2>6. /\ p \in 1..(Len(f) + Len(g)) /\ ips[p] \in Reachable
        /\ \A q \in 1..(Len(f) + Len(g)) : ips[q] \in Reachable => p <= q
    BY <2>5, PickedFirst
  <2> HIDE DEF p, f, g
  <2>7. PICK i \in P(v) \cup P(w) :
             /\ raw[i] = ips[p]
             /\ \A j \in P(v) : raw[j] \in Reachable => j = i \/ (i \in P(v) /\ i < j)
             /\ \A j \in P(w) : raw[j] \in Reachable => j = i \/ i \in P(v) \/ (i \in P(w) /\ i < j)
    <3> HIDE DEF P, w
    <3>1. FirstIn(f \o g, Len(f) + Len(g), p, Reachable)
      BY <2>4, <2>6 DEF FirstIn
    <3>2. Foremost(raw, (f \o g)[p], P(v), P(w), Reachable)
      BY <2>1, <2>2, <2>3, <3>1, FirstOfTwo
    <3> QED
      BY <2>4, <3>2 DEF Foremost
  <2>8. P(v) \cup P(w) = DOMAIN raw
    BY <1>0, <2>w
  <2>9. ASSUME NEW j \in DOMAIN raw, raw[j] \in Reachable, j # i PROVE Better(raw, i, j)
    <3>1. CASE j \in P(v)
      <4>1. i \in P(v) /\ i < j
        BY <2>7, <2>9, <3>1
      <4> QED
        BY <3>1, <4>1 DEF Better
    <3>2. CASE j \in P(w) /\ i \in P(v)
      <4>1. IsV4(raw[i]) = v /\ IsV4(raw[j]) = w
        BY <3>2
      <4>2. (config.order = "ipv4first") = v
        BY <1>1, <2>w
      <4> QED
        BY <1>1, <2>w, <4>1, <4>2 DEF Better
    <3>3. CASE j \in P(w) /\ i \in P(w) /\ i < j
      BY <3>3 DEF Better
    <3> QED
      BY <2>7, <2>8, <2>9, <3>1, <3>2, <3>3
  <2> QED
    BY <2>6, <2>7, <2>8, <2>9 DEF Best
<1>2. CASE config.order \notin {"ipv4first", "ipv6first"}
  <2>1. ips = raw
    BY <1>2 DEF reorderIPs
  <2>2. /\ p \in 1..Len(raw) /\ raw[p] \in Reachable
        /\ \A q \in 1..Len(raw) : raw[q] \in Reachable => p <= q
    BY <2>1, PickedFirst
  <2> HIDE DEF p
  <2>3. ASSUME NEW j \in DOMAIN raw, raw[j] \in Reachable, j # p PROVE Better(raw, p, j)
    <3>1. p < j
      BY <2>2, <2>3
    <3> QED
      BY <1>2, <3>1 DEF Better
  <2>4. p \in {i \in DOMAIN raw : raw[i] \in Reachable} /\ raw[p] = ips[p]
    BY <2>1, <2>2
  <2> QED
    BY <2>2, <2>3, <2>4 DEF Best, p
<1> QED
  BY <1>1, <1>2

\* An answer that was put in order.
Ordered(x) == x.raw \in Seq(Address) /\ x.ips = reorderIPs(x.raw)

\* The inductive invariant of the choice, with AgeInv: the entry of the cache and the
\* answers that streams are about to choose from were put in order.
PickInv ==
    /\ config \in Configs /\ DOMAIN addr = Streams
    /\ cache.expires >= 0 => Ordered(cache)
    /\ \A s \in Streams : pc[s] = "pick" => Ordered(got[s])
    /\ DialsBestAllowed

\* What has to be shown of a step; the configuration does not change.
LEMMA PickNext ==
    ASSUME config \in Configs, config' = config, DOMAIN addr' = Streams,
           cache'.expires >= 0 => Ordered(cache'),
           \A u \in Streams : pc'[u] = "pick" => Ordered(got'[u]),
           \A u \in Streams : pc'[u] = "admit" => Best(got'[u].raw, addr'[u])
    PROVE  PickInv'
<1>1. cache'.expires >= 0 => Ordered(cache)'
  BY DEF Ordered, reorderIPs
<1>2. \A u \in Streams : pc'[u] = "pick" => Ordered(got[u])'
  BY DEF Ordered, reorderIPs
<1>3. DialsBestAllowed'
  BY DEF DialsBestAllowed, Best, Reachable, Better
<1> QED
  BY <1>1, <1>2, <1>3 DEF PickInv

\* What is known before a step.
LEMMA PickBefore ==
    ASSUME PickInv, AgeInv
    PROVE  /\ config \in Configs /\ DOMAIN addr = Streams /\ DOMAIN got = Streams
           /\ pc \in [Streams -> PCs] /\ at \in [Streams -> Nat]
           /\ cache.expires >= 0 => Ordered(cache)
           /\ \A u \in Streams : pc[u] = "pick" => Ordered(got[u])
           /\ \A u \in Streams : pc[u] = "admit" => Best(got[u].raw, addr[u])
<1>1. \A u \in Streams : pc[u] = "admit" => Best(got[u].raw, addr[u])
  BY DEF PickInv, DialsBestAllowed, Best
<1> QED
  BY <1>1 DEF PickInv, AgeInv, TimeTypes

\* A stream's own step that neither gives it an answer nor chooses.
LEMMA PickElsewhere ==
    ASSUME PickInv, AgeInv, NEW s \in Streams, NEW to \in PCs \ {"pick", "admit"},
           pc' = [pc EXCEPT ![s] = to], UNCHANGED <<config, cache>>, DOMAIN addr' = Streams,
           \A u \in Streams \ {s} : got'[u] = got[u] /\ addr'[u] = addr[u]
    PROVE  PickInv'
<1>1. ASSUME NEW u \in Streams, pc'[u] \in {"pick", "admit"}
      PROVE  u \in Streams \ {s} /\ pc'[u] = pc[u]
  BY <1>1, PickBefore
<1>2. \A u \in Streams : pc'[u] = "pick" => Ordered(got'[u])
  BY <1>1, PickBefore
<1>3. \A u \in Streams : pc'[u] = "admit" => Best(got'[u].raw, addr'[u])
  BY <1>1, PickBefore
<1>4. cache'.expires >= 0 => Ordered(cache')
  BY PickBefore
<1> QED
  BY <1>2, <1>3, <1>4, PickBefore, PickNext

\* Every step keeps the answers in order and the choice the best.
LEMMA PickStep == PickInv /\ AgeInv /\ [Next]_vars => PickInv'
<1> SUFFICES ASSUME PickInv, AgeInv, [Next]_vars PROVE PickInv'
  OBVIOUS
<1>0. /\ config \in Configs /\ DOMAIN addr = Streams /\ DOMAIN got = Streams
      /\ pc \in [Streams -> PCs] /\ at \in [Streams -> Nat]
      /\ cache.expires >= 0 => Ordered(cache)
  BY PickBefore
<1>o. \A u \in Streams : pc[u] = "pick" => Ordered(got[u])
  BY PickBefore
<1>b. \A u \in Streams : pc[u] = "admit" => Best(got[u].raw, addr[u])
  BY PickBefore
<1>1. ASSUME NEW s \in Streams, Step(s) PROVE PickInv'
  <2>1. got' = got => \A u \in Streams \ {s} : got'[u] = got[u]
    OBVIOUS
  <2>2. addr' = addr => DOMAIN addr' = Streams /\ \A u \in Streams \ {s} : addr'[u] = addr[u]
    BY <1>0
  <2>3. got' = [got EXCEPT ![s] = NoAnswer] => \A u \in Streams \ {s} : got'[u] = got[u]
    BY <1>0
  <2>4. addr' = [addr EXCEPT ![s] = NoAddr] =>
           DOMAIN addr' = Streams /\ \A u \in Streams \ {s} : addr'[u] = addr[u]
    BY <1>0
  <2>5. CASE Lookup(s)
    BY <2>1, <2>2, <2>5, PickElsewhere DEF Lookup, Goto, names, dials, PCs
  <2>6. CASE CacheMiss(s)
    BY <2>1, <2>2, <2>6, PickElsewhere DEF CacheMiss, Goto, names, dials, PCs
  <2>7. CASE Do(s)
    BY <2>1, <2>2, <2>7, PickElsewhere DEF Do, Goto, names, dials, PCs
  <2>8. CASE PickNone(s)
    BY <2>2, <2>3, <2>8, PickElsewhere DEF PickNone, Goto, names, dials, PCs
  <2>9. CASE NoSyn(s)
    BY <2>3, <2>4, <2>9, PickElsewhere DEF NoSyn, Done, Goto, names, PCs
  <2>10. CASE TryAcquire(s)
    BY <2>2, <2>3, <2>10, PickElsewhere DEF TryAcquire, Goto, names, PCs
  <2>11. ASSUME NEW result \in BOOLEAN, Dialled(s, result) PROVE PickInv'
    BY <2>1, <2>2, <2>11, PickElsewhere DEF Dialled, Goto, names, PCs
  <2>12. CASE Record(s)
    BY <2>1, <2>2, <2>12, PickElsewhere DEF Record, Goto, names, PCs
  <2>13. CASE MatchStep(s)
    BY <2>3, <2>4, <2>13, PickElsewhere DEF MatchStep, Done, Goto, names, PCs
  <2>14. CASE CacheHit(s)
    <3>1. /\ pc' = [pc EXCEPT ![s] = "pick"] /\ at[s] < cache.expires
          /\ got' = [got EXCEPT ![s] = [raw |-> cache.raw, ips |-> cache.ips, at |-> cache.at]]
          /\ UNCHANGED <<config, cache, addr>>
      BY <2>14 DEF CacheHit, FreshEntry, Goto, names, dials
    <3>2. got'[s].raw = cache.raw /\ got'[s].ips = cache.ips
      BY <1>0, <3>1
    <3>3. Ordered(cache)
      <4>1. at[s] \in Nat /\ cache.expires \in Int
        BY DEF AgeInv, TimeTypes
      <4> QED
        BY <1>0, <3>1, <4>1
    <3>4. Ordered(got'[s])
      BY <3>2, <3>3 DEF Ordered
    <3>5. ASSUME NEW u \in Streams, u # s PROVE pc'[u] = pc[u] /\ got'[u] = got[u]
      BY <1>0, <3>1, <3>5
    <3>6. pc'[s] = "pick"
      BY <1>0, <3>1
    <3>7. \A u \in Streams : pc'[u] = "pick" => Ordered(got'[u])
      BY <1>o, <3>4, <3>5
    <3>8. \A u \in Streams : pc'[u] = "admit" => Best(got'[u].raw, addr'[u])
      BY <1>b, <3>1, <3>5, <3>6
    <3> QED
      BY <1>0, <3>1, <3>7, <3>8, PickNext
  <2>15. CASE Pick(s)
    <3> DEFINE p == PickedIndex(got[s].ips)
    <3>1. /\ pc[s] = "pick" /\ pc' = [pc EXCEPT ![s] = "admit"] /\ p # 0
          /\ addr' = [addr EXCEPT ![s] = got[s].ips[p]]
          /\ UNCHANGED <<config, cache, got>>
      BY <2>15 DEF Pick, Goto, names
    <3>2. got[s].raw \in Seq(Address) /\ got[s].ips = reorderIPs(got[s].raw)
      BY <1>o, <3>1 DEF Ordered
    <3>3. Best(got[s].raw, got[s].ips[p])
      BY <1>0, <3>1, <3>2, PickIsBest
    <3> HIDE DEF p
    <3>4. /\ addr'[s] = got[s].ips[p] /\ pc'[s] = "admit" /\ DOMAIN addr' = Streams
          /\ \A u \in Streams \ {s} : addr'[u] = addr[u] /\ pc'[u] = pc[u]
      BY <1>0, <3>1
    <3>5. \A u \in Streams : pc'[u] = "pick" => Ordered(got'[u])
      BY <1>o, <3>1, <3>4
    <3>6. \A u \in Streams : pc'[u] = "admit" => Best(got'[u].raw, addr'[u])
      BY <1>b, <3>1, <3>3, <3>4
    <3> QED
      BY <1>0, <3>1, <3>4, <3>5, <3>6, PickNext
  <2>16. ASSUME NEW a \in Address, DirectIP(s, a) PROVE PickInv'
    <3>1. UNCHANGED <<config, cache>>
      BY <2>16 DEF DirectIP, names
    <3>2. CASE config.direct /\ Evaluate(a)
      <4> DEFINE x == [raw |-> <<a>>, ips |-> <<a>>, at |-> now]
      <4>1. /\ pc' = [pc EXCEPT ![s] = "admit"] /\ addr' = [addr EXCEPT ![s] = a]
            /\ got' = [got EXCEPT ![s] = x]
        BY <2>16, <3>2 DEF DirectIP, Goto
      <4>2. x.raw = <<a>>
        OBVIOUS
      <4> HIDE DEF x
      <4>3. /\ addr'[s] = a /\ got'[s].raw = <<a>> /\ pc'[s] = "admit" /\ DOMAIN addr' = Streams
            /\ \A u \in Streams \ {s} : /\ addr'[u] = addr[u] /\ pc'[u] = pc[u]
                                        /\ got'[u] = got[u]
        BY <1>0, <4>1, <4>2
      <4>4. a \in Reachable
        BY <1>0, <3>2, EvaluateReachable
      <4>5. Best(<<a>>, a)
        BY <4>4 DEF Best
      <4>6. \A u \in Streams : pc'[u] = "pick" => Ordered(got'[u])
        BY <1>o, <4>3
      <4>7. \A u \in Streams : pc'[u] = "admit" => Best(got'[u].raw, addr'[u])
        BY <1>b, <4>3, <4>5
      <4> QED
        BY <1>0, <3>1, <4>3, <4>6, <4>7, PickNext
    <3>3. CASE ~(config.direct /\ Evaluate(a))
      <4>1. UNCHANGED <<addr, pc, got>>
        BY <2>16, <3>3 DEF DirectIP
      <4> QED
        BY <1>0, <1>o, <1>b, <3>1, <4>1, PickNext
    <3> QED
      BY <3>2, <3>3
  <2> QED
    BY <1>1, <2>5, <2>6, <2>7, <2>8, <2>9, <2>10, <2>11, <2>12, <2>13, <2>14, <2>15, <2>16 DEF Step
<1>2. CASE Land
  <2> DEFINE a == [flight.answer EXCEPT !.ips = reorderIPs(flight.answer.raw)]
  <2>1. Ordered(a)
    <3>1. flight.answer \in [raw : Seq(Address), ips : {<<>>}, at : Int]
      BY DEF AgeInv, TimeTypes
    <3>2. a.raw = flight.answer.raw /\ a.ips = reorderIPs(flight.answer.raw)
      BY <3>1
    <3> HIDE DEF a
    <3> QED
      BY <3>1, <3>2 DEF Ordered
  <2>2. /\ cache' = [raw |-> a.raw, ips |-> a.ips, at |-> a.at, expires |-> now + TTL]
        /\ got' = [u \in Streams |-> IF pc[u] = "wait" THEN a ELSE got[u]]
        /\ pc' = [u \in Streams |-> IF pc[u] = "wait" THEN "pick" ELSE pc[u]]
        /\ UNCHANGED <<config, addr>>
    BY <1>2 DEF Land, dials
  <2> HIDE DEF a
  <2>3. Ordered(cache')
    <3>1. cache'.raw = a.raw /\ cache'.ips = a.ips
      BY <2>2
    <3> QED
      BY <2>1, <3>1 DEF Ordered
  <2>4. \A u \in Streams : pc'[u] = "pick" => Ordered(got'[u])
    BY <1>o, <2>1, <2>2
  <2>5. \A u \in Streams : pc'[u] = "admit" => Best(got'[u].raw, addr'[u])
    BY <1>b, <2>2
  <2> QED
    BY <1>0, <2>2, <2>3, <2>4, <2>5, PickNext
<1>3. CASE Expire
  <2>1. cache' = NoEntry /\ UNCHANGED <<config, pc, got, addr>>
    BY <1>3 DEF Expire, dials
  <2>2. ~(cache'.expires >= 0)
    BY <2>1 DEF NoEntry
  <2> QED
    BY <1>0, <1>o, <1>b, <2>1, <2>2, PickNext
<1>4. CASE UNCHANGED <<config, cache, pc, got, addr>>
  BY <1>0, <1>o, <1>b, <1>4, PickNext
<1>5. ASSUME NEW zone, Answer(zone) PROVE PickInv'
  BY <1>4, <1>5 DEF Answer, dials
<1>6. CASE Tick \/ UNCHANGED vars
  BY <1>4, <1>6 DEF Tick, vars, names, dials
<1> QED
  BY <1>1, <1>2, <1>3, <1>5, <1>6 DEF Next

\* Nothing has been answered yet.
LEMMA PickInit == Init => PickInv
<1> SUFFICES ASSUME Init PROVE PickInv
  OBVIOUS
<1>1. config \in Configs /\ DOMAIN addr = Streams /\ \A s \in Streams : pc[s] = "idle"
  BY DEF Init
<1>2. ~(cache.expires >= 0)
  BY DEF Init, NoEntry
<1> QED
  BY <1>1, <1>2 DEF PickInv, DialsBestAllowed

\* Whatever the name resolves to, whoever looked it up and whatever the policy, a stream
\* dials the reachable address that comes first in the order of the configuration.
THEOREM BestAllowedIsDialled == Spec => []DialsBestAllowed
<1>1. PickInv => DialsBestAllowed
  BY DEF PickInv
<1> QED
  BY <1>1, AgeInit, AgeStep, PickInit, PickStep, PTL DEF Spec

-----------------------------------------------------------------------------
(* The detector of failed handshakes.                                      *)

Sample == [t : Nat, ok : BOOLEAN]
Result == [addr : Address, t : Nat, ok : BOOLEAN]
Recording == {s \in Streams : pc[s] = "record"}

\* The times of samples: none much before an earlier one, none before or after a time.
Spread(R) == \A i \in 1..Len(R), j \in 1..Len(R) : i < j => R[j].t >= R[i].t - MaxDelay
Since(R, from) == \A i \in 1..Len(R) : R[i].t >= from
Until(R, to) == \A i \in 1..Len(R) : R[i].t <= to

\* Types of what the detectors use.
RingTypes ==
    /\ ring \in [Address -> Seq(Sample)] /\ history \in Seq(Result) /\ ok \in [Streams -> BOOLEAN]
    /\ \A s \in Streams : pc[s] \in {"dial", "record", "match"} => addr[s] \in Address

\* A result is recorded, and matched, soon after its dial; so the samples of a detector
\* are nearly in order, and when it is matched none is much older than the window.
RingTimes ==
    /\ \A s \in Streams : pc[s] \in {"record", "match"} => now <= at[s] + MaxDelay
    /\ \A a \in Address : Spread(ring[a]) /\ Until(ring[a], now)
    /\ \A s \in Streams : pc[s] = "match" => Since(ring[addr[s]], at[s] - Window - MaxDelay)

\* f names the result in the history that each sample was made from, and g the one that
\* each stream has yet to record; no result is named twice.
Traced(f, g) ==
    /\ \A a \in Address : \A i \in 1..Len(ring[a]) :
         /\ f[a][i] \in 1..Len(history) /\ history[f[a][i]].addr = a
         /\ history[f[a][i]].t = ring[a][i].t /\ history[f[a][i]].ok = ring[a][i].ok
    /\ \A a \in Address : \A i \in 1..Len(ring[a]), j \in 1..Len(ring[a]) :
         i # j => f[a][i] # f[a][j]
    /\ \A s \in Recording :
         /\ g[s] \in 1..Len(history) /\ history[g[s]].addr = addr[s]
         /\ history[g[s]].t = at[s] /\ history[g[s]].ok = ok[s]
    /\ \A s \in Recording, u \in Recording : s # u => g[s] # g[u]
    /\ \A s \in Recording : \A i \in 1..Len(ring[addr[s]]) : f[addr[s]][i] # g[s]

\* The inductive invariant of the detectors, with AgeInv and PickInv.
RingInv == RingTypes /\ RingTimes /\ \E f, g : Traced(f, g)

\* R is what is left of L without its first d samples.
Suffix(R, L, d) == Len(R) = Len(L) - d /\ \A i \in 1..Len(R) : R[i] = L[i + d]

\* Pruning drops samples from the front, and the first that is left is in the window.
LEMMA PrunedSuffix ==
    ASSUME NEW L \in Seq(Sample), NEW cutoff \in Int
    PROVE  /\ Pruned(L, cutoff) \in Seq(Sample)
           /\ \E d \in 0..Len(L) : Suffix(Pruned(L, cutoff), L, d)
           /\ Len(Pruned(L, cutoff)) # 0 => Pruned(L, cutoff)[1].t >= cutoff
<1> DEFINE keep == {i \in DOMAIN L : L[i].t >= cutoff}
           m == CHOOSE i \in keep : \A j \in keep : i <= j
<1>0. Len(L) \in Nat /\ DOMAIN L = 1..Len(L) /\ \A i \in 1..Len(L) : L[i] \in Sample
  OBVIOUS
<1>1. Pruned(L, cutoff) = IF keep = {} THEN <<>> ELSE SubSeq(L, m, Len(L))
  BY DEF Pruned
<1>2. CASE keep = {}
  <2>1. Pruned(L, cutoff) = <<>>
    BY <1>1, <1>2
  <2>2. Pruned(L, cutoff) \in Seq(Sample) /\ Len(Pruned(L, cutoff)) = 0
    BY <2>1
  <2>3. Suffix(Pruned(L, cutoff), L, Len(L)) /\ Len(L) \in 0..Len(L)
    BY <1>0, <2>2 DEF Suffix
  <2> QED
    BY <2>2, <2>3
<1>3. CASE keep # {}
  <2>1. keep \in SUBSET Nat /\ keep \subseteq 1..Len(L)
    BY <1>0
  <2>2. \A i \in keep : L[i].t >= cutoff
    OBVIOUS
  <2> HIDE DEF keep
  <2>3. \E i \in keep : \A j \in keep : i <= j
    BY <1>3, <2>1, LeastNatural
  <2>4. m \in keep
    BY <2>3
  <2>5. m \in 1..Len(L) /\ L[m].t >= cutoff /\ Pruned(L, cutoff) = SubSeq(L, m, Len(L))
    BY <1>1, <1>3, <2>1, <2>2, <2>4
  <2> HIDE DEF m
  <2> DEFINE R == SubSeq(L, m, Len(L))
             d == m - 1
  <2>6. /\ R \in Seq(Sample) /\ Len(R) = Len(L) - m + 1
        /\ \A i \in 1..Len(R) : R[i] = L[i + m - 1]
    <3>1. m \in 1..(Len(L) + 1) /\ Len(L) \in (m - 1)..Len(L)
      BY <1>0, <2>5
    <3> QED
      BY <1>0, <2>5, <3>1, SubSeqProperties
  <2>7. /\ d \in 0..Len(L) /\ Len(R) = Len(L) - d /\ \A i \in 1..Len(R) : i + m - 1 = i + d
        /\ 1 \in 1..Len(R) /\ 1 + m - 1 = m
    BY <1>0, <2>5, <2>6
  <2> HIDE DEF R, d
  <2>8. Suffix(R, L, d)
    BY <2>6, <2>7 DEF Suffix
  <2>9. R[1] = L[m]
    BY <2>6, <2>7
  <2> QED
    BY <2>5, <2>6, <2>7, <2>8, <2>9 DEF R
<1> QED
  BY <1>2, <1>3

\* P is R with the new sample x at time n, in order and pruned.
Fed(R, x, n, P) ==
    /\ P \in Seq(Sample) /\ Spread(P) /\ Until(P, n) /\ Since(P, x.t - Window - MaxDelay)
    /\ \A from \in Int : Since(R, from) /\ x.t >= from => Since(P, from)

\* Recording keeps the samples of a detector nearly in order, and drops those that are
\* much older than the window.
LEMMA RecordedTimes ==
    ASSUME NEW R \in Seq(Sample), NEW x \in Sample, NEW n \in Nat,
           x.t <= n, n <= x.t + MaxDelay, Spread(R), Until(R, n)
    PROVE  Fed(R, x, n, Pruned(Append(R, x), x.t - Window))
<1> DEFINE L == Append(R, x)
           c == x.t - Window
           P == Pruned(L, c)
<1>0. MaxDelay \in Nat /\ Window \in Nat /\ x.t \in Nat /\ c \in Int
  BY DialAssumption DEF Sample
<1>1. L \in Seq(Sample) /\ Len(R) \in Nat
  OBVIOUS
<1>2. /\ P \in Seq(Sample)
      /\ Len(P) # 0 => P[1].t >= c
      /\ \E d \in 0..Len(L) : Suffix(P, L, d)
  <2> HIDE DEF L, c
  <2> QED
    BY <1>0, <1>1, PrunedSuffix
<1>3. /\ Len(L) = Len(R) + 1 /\ L[Len(R) + 1] = x
      /\ \A i \in 1..Len(R) : L[i] = R[i] /\ R[i] \in Sample
  BY <1>1
<1>4. PICK d \in 0..Len(L) : Suffix(P, L, d)
  BY <1>2
<1> HIDE DEF L, P, c
<1>t. \A i \in 1..Len(R) : R[i].t \in Nat
  BY <1>3 DEF Sample
<1>5. ASSUME NEW i \in 1..Len(L), NEW j \in 1..Len(L), i < j PROVE L[j].t >= L[i].t - MaxDelay
  <2>1. i \in 1..Len(R)
    BY <1>1, <1>3, <1>5
  <2>2. CASE j \in 1..Len(R)
    BY <1>3, <1>5, <2>1, <2>2 DEF Spread
  <2>3. CASE j = Len(R) + 1
    <3>1. L[j].t = x.t /\ L[i].t = R[i].t /\ R[i].t \in Nat /\ R[i].t <= n
      BY <1>3, <1>t, <2>1, <2>3 DEF Until
    <3> QED
      BY <1>0, <3>1
  <2> QED
    BY <1>1, <1>3, <2>2, <2>3
<1>6. ASSUME NEW i \in 1..Len(L) PROVE L[i].t \in Nat /\ L[i].t <= n
  <2>1. CASE i \in 1..Len(R)
    BY <1>3, <1>t, <2>1 DEF Until
  <2>2. CASE i = Len(R) + 1
    BY <1>0, <1>3, <2>2
  <2> QED
    BY <1>1, <1>3, <2>1, <2>2
<1>7. ASSUME NEW i \in 1..Len(P) PROVE P[i] = L[i + d] /\ i + d \in 1..Len(L)
  BY <1>2, <1>4, <1>1 DEF Suffix
<1>8. Spread(P)
  <2> SUFFICES ASSUME NEW i \in 1..Len(P), NEW j \in 1..Len(P), i < j
               PROVE  P[j].t >= P[i].t - MaxDelay
    BY DEF Spread
  <2>1. i + d < j + d
    BY <1>4
  <2> QED
    BY <1>5, <1>7, <2>1
<1>9. Until(P, n)
  BY <1>6, <1>7 DEF Until
<1>10. Since(P, x.t - Window - MaxDelay)
  <2> SUFFICES ASSUME NEW i \in 1..Len(P) PROVE P[i].t >= c - MaxDelay
    BY DEF Since, c
  <2>0. Len(P) \in Nat
    BY <1>2
  <2>1. 1 \in 1..Len(P) /\ Len(P) # 0 /\ P[1].t >= c
    <3>1. 1 \in 1..Len(P) /\ Len(P) # 0
      BY <2>0
    <3> QED
      BY <1>2, <3>1
  <2>2. P[1].t \in Nat /\ P[i].t \in Nat
    BY <1>6, <1>7, <2>1
  <2>3. i = 1 \/ P[i].t >= P[1].t - MaxDelay
    BY <1>8, <2>1 DEF Spread
  <2> QED
    BY <1>0, <2>1, <2>2, <2>3
<1>11. ASSUME NEW from \in Int, Since(R, from), x.t >= from PROVE Since(P, from)
  <2>1. ASSUME NEW i \in 1..Len(L) PROVE L[i].t >= from
    <3>1. i \in 1..Len(R) \/ i = Len(R) + 1
      BY <1>1, <1>3
    <3> QED
      BY <1>3, <1>11, <3>1 DEF Since
  <2> QED
    BY <1>7, <2>1 DEF Since
<1> QED
  <2>1. Fed(R, x, n, P)
    BY <1>2, <1>8, <1>9, <1>10, <1>11 DEF Fed
  <2> QED
    BY <2>1 DEF P, L, c

\* The times of samples are times.
LEMMA SampleTimes ==
    ASSUME NEW R \in Seq(Sample) PROVE \A i \in 1..Len(R) : R[i].t \in Nat
<1>1. \A i \in 1..Len(R) : R[i] \in Sample
  OBVIOUS
<1> QED
  BY <1>1 DEF Sample

\* What is known of the clock and the streams before a step.
LEMMA RingBefore ==
    ASSUME AgeInv, PickInv
    PROVE  /\ now \in Nat /\ at \in [Streams -> Nat] /\ pc \in [Streams -> PCs]
           /\ DOMAIN addr = Streams /\ \A s \in Streams : at[s] <= now
           /\ \A s \in Streams : pc[s] = "admit" => addr[s] \in Address
           /\ MaxDelay \in Nat /\ Window \in Nat
<1>1. ASSUME NEW s \in Streams, pc[s] = "admit" PROVE addr[s] \in Address
  <2>1. Best(got[s].raw, addr[s])
    BY <1>1, PickBefore
  <2> QED
    BY <2>1 DEF Best, Reachable
<1> QED
  BY <1>1, DialAssumption DEF AgeInv, TimeTypes, PastTimes, PickInv

\* A step that feeds no detector: who still has to record or to match keeps what it knew.
LEMMA RingQuiet ==
    ASSUME AgeInv, PickInv, RingInv, UNCHANGED <<ring, history>>, now' \in Nat, now <= now',
           ok' \in [Streams -> BOOLEAN],
           \A u \in Streams : pc'[u] = "dial" => addr'[u] \in Address,
           \A u \in Streams : pc'[u] \in {"record", "match"} =>
              /\ pc[u] = pc'[u] /\ at'[u] = at[u] /\ addr'[u] = addr[u] /\ ok'[u] = ok[u]
              /\ now' <= at[u] + MaxDelay
    PROVE  RingInv'
<1>0. /\ now \in Nat /\ RingTypes /\ RingTimes
  BY RingBefore DEF RingInv
<1>1. RingTypes'
  BY <1>0 DEF RingTypes
<1>2. RingTimes'
  <2>1. \A u \in Streams : pc'[u] \in {"record", "match"} => now' <= at'[u] + MaxDelay
    OBVIOUS
  <2>2. \A a \in Address : Spread(ring'[a]) /\ Until(ring'[a], now')
    <3> SUFFICES ASSUME NEW a \in Address PROVE Spread(ring[a]) /\ Until(ring[a], now')
      OBVIOUS
    <3>1. Spread(ring[a]) /\ Until(ring[a], now) /\ ring[a] \in Seq(Sample)
      BY <1>0 DEF RingTimes, RingTypes
    <3>2. \A i \in 1..Len(ring[a]) : ring[a][i].t \in Nat
      BY <3>1, SampleTimes
    <3> QED
      BY <1>0, <3>1, <3>2 DEF Until
  <2>3. \A u \in Streams : pc'[u] = "match" => Since(ring'[addr'[u]], at'[u] - Window - MaxDelay)
    BY <1>0 DEF RingTimes
  <2> QED
    BY <2>1, <2>2, <2>3 DEF RingTimes, Spread, Until, Since
<1>3. PICK f, g : Traced(f, g)
  BY DEF RingInv
<1>4. Traced(f, g)'
  <2>1. ASSUME NEW u \in Recording' PROVE /\ u \in Recording /\ at'[u] = at[u]
                                          /\ addr'[u] = addr[u] /\ ok'[u] = ok[u]
    BY <2>1 DEF Recording
  <2> QED
    BY <1>3, <2>1 DEF Traced
<1> QED
  BY <1>1, <1>2, <1>4 DEF RingInv

\* A dial ends: its result is the last of the history, and no sample's yet.
LEMMA RingDialled ==
    ASSUME AgeInv, PickInv, RingInv, NEW s \in Streams, NEW result \in BOOLEAN, Dialled(s, result)
    PROVE  RingInv'
<1>0. /\ now \in Nat /\ at \in [Streams -> Nat] /\ pc \in [Streams -> PCs] /\ MaxDelay \in Nat
      /\ DOMAIN addr = Streams
  BY RingBefore
<1>1. /\ pc[s] = "dial" /\ pc' = [pc EXCEPT ![s] = "record"] /\ ok' = [ok EXCEPT ![s] = result]
      /\ at' = [at EXCEPT ![s] = now] /\ UNCHANGED <<now, addr, ring>>
      /\ history' = Append(history, [addr |-> addr[s], t |-> now, ok |-> result])
  BY DEF Dialled, Goto
<1>2. RingTypes /\ RingTimes /\ addr[s] \in Address
  BY <1>1 DEF RingInv, RingTypes
<1> DEFINE x == [addr |-> addr[s], t |-> now, ok |-> result]
           n == Len(history) + 1
<1>3. x \in Result /\ x.addr = addr[s] /\ x.t = now /\ x.ok = result
  BY <1>0, <1>2 DEF Result
<1>h. history \in Seq(Result)
  BY <1>2 DEF RingTypes
<1> HIDE DEF x
<1>4. /\ history' \in Seq(Result) /\ Len(history) \in Nat /\ Len(history') = n /\ history'[n] = x
      /\ \A i \in 1..Len(history) : history'[i] = history[i]
  <2>1. history' = Append(history, x)
    BY <1>1 DEF x
  <2> QED
    BY <1>3, <1>h, <2>1
<1>5. /\ pc'[s] = "record" /\ at'[s] = now /\ ok'[s] = result /\ ok' \in [Streams -> BOOLEAN]
      /\ \A u \in Streams \ {s} : pc'[u] = pc[u] /\ at'[u] = at[u] /\ ok'[u] = ok[u]
  BY <1>0, <1>1, <1>2 DEF RingTypes
<1>6. RingTypes'
  BY <1>1, <1>2, <1>4, <1>5 DEF RingTypes
<1>7. RingTimes'
  <2>1. \A u \in Streams : pc'[u] \in {"record", "match"} => now <= at'[u] + MaxDelay
    BY <1>0, <1>2, <1>5 DEF RingTimes
  <2>2. \A u \in Streams : pc'[u] = "match" => u # s
    BY <1>5
  <2>3. \A u \in Streams : pc'[u] = "match" => Since(ring[addr[u]], at'[u] - Window - MaxDelay)
    BY <1>2, <1>5, <2>2 DEF RingTimes
  <2>4. \A a \in Address : Spread(ring[a]) /\ Until(ring[a], now)
    BY <1>2 DEF RingTimes
  <2> QED
    BY <1>1, <2>1, <2>3, <2>4 DEF RingTimes, Spread, Until, Since
<1>8. PICK f, g : Traced(f, g)
  BY DEF RingInv
<1>9. PICK G : G[s] = n /\ \A u \in Streams \ {s} : G[u] = g[u]
  <2> DEFINE G == [u \in Streams |-> IF u = s THEN n ELSE g[u]]
  <2>1. G[s] = n /\ \A u \in Streams \ {s} : G[u] = g[u]
    OBVIOUS
  <2> HIDE DEF G
  <2> QED
    BY <2>1
<1>10. n \in 1..n /\ \A i \in 1..Len(history) : i \in 1..n /\ i # n
  BY <1>4
<1>11. ASSUME NEW u \in Recording' PROVE u = s \/ (u \in Recording \ {s} /\ u \in Streams)
  BY <1>5, <1>11 DEF Recording
<1>12. s \notin Recording
  BY <1>1 DEF Recording
<1> HIDE DEF n
<1>13. Traced(f, G)'
  <2>1. \A a \in Address : \A i \in 1..Len(ring[a]) :
         /\ f[a][i] \in 1..Len(history) /\ history[f[a][i]].addr = a
         /\ history[f[a][i]].t = ring[a][i].t /\ history[f[a][i]].ok = ring[a][i].ok
    BY <1>8 DEF Traced
  <2>2. \A a \in Address : \A i \in 1..Len(ring'[a]) :
         /\ f[a][i] \in 1..Len(history') /\ history'[f[a][i]].addr = a
         /\ history'[f[a][i]].t = ring'[a][i].t /\ history'[f[a][i]].ok = ring'[a][i].ok
    BY <1>1, <1>4, <1>10, <2>1
  <2>3. \A u \in Recording :
         /\ g[u] \in 1..Len(history) /\ history[g[u]].addr = addr[u]
         /\ history[g[u]].t = at[u] /\ history[g[u]].ok = ok[u]
    BY <1>8 DEF Traced
  <2>4. \A u \in Recording' :
         /\ G[u] \in 1..Len(history') /\ history'[G[u]].addr = addr'[u]
         /\ history'[G[u]].t = at'[u] /\ history'[G[u]].ok = ok'[u]
    <3> SUFFICES ASSUME NEW u \in Recording'
                 PROVE  /\ G[u] \in 1..Len(history') /\ history'[G[u]].addr = addr'[u]
                        /\ history'[G[u]].t = at'[u] /\ history'[G[u]].ok = ok'[u]
      OBVIOUS
    <3>1. CASE u = s
      BY <1>1, <1>3, <1>4, <1>5, <1>9, <1>10, <3>1
    <3>2. CASE u \in Recording \ {s} /\ u \in Streams
      BY <1>1, <1>4, <1>5, <1>9, <1>10, <2>3, <3>2
    <3> QED
      BY <1>11, <3>1, <3>2
  <2>5. \A u \in Recording', v \in Recording' : u # v => G[u] # G[v]
    <3>1. \A u \in Recording, v \in Recording : u # v => g[u] # g[v]
      BY <1>8 DEF Traced
    <3> QED
      BY <1>9, <1>10, <1>11, <2>3, <3>1
  <2>6. \A u \in Recording' : \A i \in 1..Len(ring'[addr'[u]]) : f[addr'[u]][i] # G[u]
    <3> SUFFICES ASSUME NEW u \in Recording', NEW i \in 1..Len(ring[addr[u]])
                 PROVE  f[addr[u]][i] # G[u]
      BY <1>1
    <3>1. CASE u = s
      BY <1>2, <1>9, <1>10, <2>1, <3>1
    <3>2. CASE u \in Recording \ {s} /\ u \in Streams
      BY <1>8, <1>9, <3>2 DEF Traced
    <3> QED
      BY <1>11, <3>1, <3>2
  <2>7. \A a \in Address : \A i \in 1..Len(ring'[a]), j \in 1..Len(ring'[a]) :
         i # j => f[a][i] # f[a][j]
    BY <1>1, <1>8 DEF Traced
  <2> QED
    BY <2>2, <2>4, <2>5, <2>6, <2>7 DEF Traced
<1> QED
  BY <1>6, <1>7, <1>13 DEF RingInv

\* A result is recorded: its sample joins those of its destination.
LEMMA RingRecord ==
    ASSUME AgeInv, PickInv, RingInv, NEW s \in Streams, Record(s)
    PROVE  RingInv'
<1>0. /\ now \in Nat /\ at \in [Streams -> Nat] /\ pc \in [Streams -> PCs] /\ MaxDelay \in Nat
      /\ Window \in Nat /\ \A u \in Streams : at[u] <= now
  BY RingBefore
<1> DEFINE a == addr[s]
           R == ring[a]
           x == [t |-> at[s], ok |-> ok[s]]
           L == Append(R, x)
           P == Pruned(L, at[s] - Window)
<1>1. /\ pc[s] = "record" /\ pc' = [pc EXCEPT ![s] = "match"] /\ ring' = [ring EXCEPT ![a] = P]
      /\ UNCHANGED <<now, at, addr, ok, history>>
  BY DEF Record, Goto
<1>2. RingTypes /\ RingTimes /\ a \in Address
  BY <1>1 DEF RingInv, RingTypes
<1>3. /\ R \in Seq(Sample) /\ Spread(R) /\ Until(R, now) /\ now <= at[s] + MaxDelay
      /\ x \in Sample /\ x.t = at[s] /\ x.ok = ok[s]
  <2>1. R \in Seq(Sample) /\ Spread(R) /\ Until(R, now) /\ now <= at[s] + MaxDelay
    BY <1>1, <1>2 DEF RingTypes, RingTimes
  <2>2. x \in Sample /\ x.t = at[s] /\ x.ok = ok[s]
    BY <1>0, <1>2 DEF RingTypes, Sample
  <2> QED
    BY <2>1, <2>2
<1>4. L \in Seq(Sample) /\ Len(R) \in Nat /\ Len(L) = Len(R) + 1 /\ L[Len(R) + 1] = x
  <2> HIDE DEF R, x
  <2> QED
    BY <1>3
<1>5. \A i \in 1..Len(R) : L[i] = R[i]
  <2> HIDE DEF R, x
  <2> QED
    BY <1>3
<1>6. Fed(R, x, now, P)
  <2>1. P = Pruned(Append(R, x), x.t - Window)
    BY <1>3
  <2> HIDE DEF R, x, P, L
  <2>2. x.t <= now /\ now <= x.t + MaxDelay
    BY <1>0, <1>3
  <2> QED
    BY <1>0, <1>3, <2>1, <2>2, RecordedTimes
<1>7. PICK d \in 0..Len(L) : Suffix(P, L, d)
  <2>1. at[s] - Window \in Int
    BY <1>0
  <2> HIDE DEF L
  <2> QED
    BY <1>4, <2>1, PrunedSuffix
<1>8. /\ P \in Seq(Sample) /\ Spread(P) /\ Until(P, now) /\ Since(P, at[s] - Window - MaxDelay)
      /\ \A from \in Int : Since(R, from) /\ at[s] >= from => Since(P, from)
  <2> HIDE DEF R, x, P, L
  <2> QED
    BY <1>3, <1>6 DEF Fed
<1>9. /\ ring' \in [Address -> Seq(Sample)] /\ ring'[a] = P
      /\ \A b \in Address \ {a} : ring'[b] = ring[b]
  <2>1. ring \in [Address -> Seq(Sample)]
    BY <1>2 DEF RingTypes
  <2> HIDE DEF P
  <2> QED
    BY <1>1, <1>2, <1>8, <2>1
<1>10. pc'[s] = "match" /\ \A u \in Streams \ {s} : pc'[u] = pc[u]
  BY <1>0, <1>1
<1> HIDE DEF R, x, L, P
<1>11. RingTypes'
  BY <1>1, <1>2, <1>9, <1>10 DEF RingTypes, a
<1>12. RingTimes'
  <2>1. \A u \in Streams : pc'[u] \in {"record", "match"} => now <= at[u] + MaxDelay
    BY <1>1, <1>2, <1>10 DEF RingTimes
  <2>2. \A b \in Address : Spread(ring'[b]) /\ Until(ring'[b], now)
    BY <1>2, <1>8, <1>9 DEF RingTimes
  <2>3. ASSUME NEW u \in Streams, pc'[u] = "match"
        PROVE  Since(ring'[addr[u]], at[u] - Window - MaxDelay)
    <3>1. CASE u = s
      BY <1>8, <1>9, <3>1 DEF a
    <3>2. CASE u # s /\ addr[u] # a
      BY <1>2, <1>9, <1>10, <2>3, <3>2 DEF RingTimes, RingTypes
    <3>3. CASE u # s /\ addr[u] = a
      <4>1. Since(R, at[u] - Window - MaxDelay)
        BY <1>2, <1>10, <2>3, <3>3 DEF RingTimes, R
      <4>2. at[u] - Window - MaxDelay \in Int /\ at[s] >= at[u] - Window - MaxDelay
        <5>1. at[u] \in Nat /\ at[s] \in Nat /\ at[u] <= now
          BY <1>0
        <5> QED
          BY <1>0, <1>3, <5>1
      <4> QED
        BY <1>8, <1>9, <3>3, <4>1, <4>2
    <3> QED
      BY <3>1, <3>2, <3>3
  <2> QED
    BY <1>1, <2>1, <2>2, <2>3 DEF RingTimes, Spread, Until, Since
<1>13. PICK f, g : Traced(f, g)
  BY DEF RingInv
<1>14. /\ s \in Recording /\ Recording' = Recording \ {s} /\ Recording \subseteq Streams
  BY <1>1, <1>10 DEF Recording
<1> DEFINE H == [j \in 1..Len(L) |-> IF j = Len(R) + 1 THEN g[s] ELSE f[a][j]]
<1>15. H[Len(R) + 1] = g[s] /\ \A j \in 1..Len(R) : j \in 1..Len(L) /\ H[j] = f[a][j]
  BY <1>4
<1>16. \A j \in 1..Len(L) : j = Len(R) + 1 \/ j \in 1..Len(R)
  BY <1>4
<1> HIDE DEF H
<1>17. ASSUME NEW j \in 1..Len(L)
       PROVE  /\ H[j] \in 1..Len(history) /\ history[H[j]].addr = a
              /\ history[H[j]].t = L[j].t /\ history[H[j]].ok = L[j].ok
  <2>1. CASE j = Len(R) + 1
    <3>1. /\ g[s] \in 1..Len(history) /\ history[g[s]].addr = addr[s]
          /\ history[g[s]].t = at[s] /\ history[g[s]].ok = ok[s]
      BY <1>13, <1>14 DEF Traced
    <3> QED
      BY <1>3, <1>4, <1>15, <2>1, <3>1
  <2>2. CASE j \in 1..Len(R)
    <3>1. /\ f[a][j] \in 1..Len(history) /\ history[f[a][j]].addr = a
          /\ history[f[a][j]].t = R[j].t /\ history[f[a][j]].ok = R[j].ok
      BY <1>2, <1>13, <2>2 DEF Traced, R
    <3> QED
      BY <1>5, <1>15, <2>2, <3>1
  <2> QED
    BY <1>16, <2>1, <2>2
<1>18. ASSUME NEW i \in 1..Len(L), NEW j \in 1..Len(L), i # j PROVE H[i] # H[j]
  <2>1. \A q \in 1..Len(R) : f[a][q] # g[s]
    BY <1>13, <1>14 DEF Traced, R
  <2>2. \A p \in 1..Len(R), q \in 1..Len(R) : p # q => f[a][p] # f[a][q]
    BY <1>2, <1>13 DEF Traced, R
  <2> QED
    BY <1>15, <1>16, <1>18, <2>1, <2>2
<1>19. ASSUME NEW u \in Recording \ {s}, addr[u] = a, NEW j \in 1..Len(L) PROVE H[j] # g[u]
  <2>1. g[s] # g[u]
    BY <1>13, <1>14, <1>19 DEF Traced
  <2>2. \A q \in 1..Len(R) : f[a][q] # g[u]
    <3>1. \A q \in 1..Len(ring[addr[u]]) : f[addr[u]][q] # g[u]
      BY <1>13, <1>19 DEF Traced
    <3> QED
      BY <1>19, <3>1 DEF R
  <2> QED
    BY <1>15, <1>16, <2>1, <2>2
<1>20. PICK F : /\ \A b \in Address \ {a} : F[b] = f[b]
                /\ \A i \in 1..Len(P) : F[a][i] = H[i + d]
  <2> DEFINE E == [i \in 1..Len(P) |-> H[i + d]]
             F == [b \in Address |-> IF b = a THEN E ELSE f[b]]
  <2>1. F[a] = E /\ \A b \in Address \ {a} : F[b] = f[b]
    BY <1>2
  <2>2. \A i \in 1..Len(P) : E[i] = H[i + d]
    OBVIOUS
  <2> HIDE DEF F, E
  <2> QED
    BY <2>1, <2>2
<1>21. ASSUME NEW i \in 1..Len(P) PROVE P[i] = L[i + d] /\ i + d \in 1..Len(L)
  <2>1. Len(P) = Len(L) - d /\ P[i] = L[i + d]
    BY <1>7 DEF Suffix
  <2>2. Len(L) \in Nat
    BY <1>4
  <2> QED
    BY <1>7, <2>1, <2>2
<1>22. Traced(F, g)'
  <2>1. ASSUME NEW b \in Address, NEW i \in 1..Len(ring'[b])
        PROVE  /\ F[b][i] \in 1..Len(history) /\ history[F[b][i]].addr = b
               /\ history[F[b][i]].t = ring'[b][i].t /\ history[F[b][i]].ok = ring'[b][i].ok
    <3>1. CASE b = a
      <4>1. i \in 1..Len(P) /\ ring'[b] = P /\ F[b][i] = H[i + d]
        BY <1>9, <1>20, <2>1, <3>1
      <4>2. P[i] = L[i + d] /\ i + d \in 1..Len(L)
        BY <1>21, <4>1
      <4> QED
        BY <1>17, <3>1, <4>1, <4>2
    <3>2. CASE b # a
      <4>1. ring'[b] = ring[b] /\ F[b] = f[b]
        BY <1>9, <1>20, <3>2
      <4> QED
        BY <1>13, <2>1, <4>1 DEF Traced
    <3> QED
      BY <3>1, <3>2
  <2>2. ASSUME NEW b \in Address, NEW i \in 1..Len(ring'[b]), NEW j \in 1..Len(ring'[b]), i # j
        PROVE  F[b][i] # F[b][j]
    <3>1. CASE b = a
      <4>1. i \in 1..Len(P) /\ j \in 1..Len(P) /\ F[b][i] = H[i + d] /\ F[b][j] = H[j + d]
        BY <1>9, <1>20, <2>2, <3>1
      <4>2. i + d \in 1..Len(L) /\ j + d \in 1..Len(L) /\ i + d # j + d
        BY <1>7, <1>21, <2>2, <4>1
      <4> QED
        BY <1>18, <4>1, <4>2
    <3>2. CASE b # a
      <4>1. ring'[b] = ring[b] /\ F[b] = f[b]
        BY <1>9, <1>20, <3>2
      <4> QED
        BY <1>13, <2>2, <4>1 DEF Traced
    <3> QED
      BY <3>1, <3>2
  <2>3. \A u \in Recording' :
         /\ g[u] \in 1..Len(history) /\ history[g[u]].addr = addr[u]
         /\ history[g[u]].t = at[u] /\ history[g[u]].ok = ok[u]
    BY <1>13, <1>14 DEF Traced
  <2>4. \A u \in Recording', v \in Recording' : u # v => g[u] # g[v]
    BY <1>13, <1>14 DEF Traced
  <2>5. ASSUME NEW u \in Recording', NEW i \in 1..Len(ring'[addr[u]]) PROVE F[addr[u]][i] # g[u]
    <3>0. u \in Recording \ {s} /\ addr[u] \in Address
      BY <1>2, <1>14, <2>5 DEF RingTypes, Recording
    <3>1. CASE addr[u] = a
      <4>1. i \in 1..Len(P) /\ F[addr[u]][i] = H[i + d]
        BY <1>9, <1>20, <2>5, <3>1
      <4> QED
        BY <1>19, <1>21, <3>0, <3>1, <4>1
    <3>2. CASE addr[u] # a
      <4>1. ring'[addr[u]] = ring[addr[u]] /\ F[addr[u]] = f[addr[u]]
        BY <1>9, <1>20, <3>0, <3>2
      <4> QED
        BY <1>13, <2>5, <3>0, <4>1 DEF Traced
    <3> QED
      BY <3>1, <3>2
  <2> QED
    BY <1>1, <2>1, <2>2, <2>3, <2>4, <2>5 DEF Traced
<1> QED
  BY <1>11, <1>12, <1>22 DEF RingInv

\* Every step keeps the detectors' invariant.
LEMMA RingStep == AgeInv /\ PickInv /\ RingInv /\ [Next]_vars => RingInv'
<1> SUFFICES ASSUME AgeInv, PickInv, RingInv, [Next]_vars PROVE RingInv'
  OBVIOUS
<1>0. /\ now \in Nat /\ at \in [Streams -> Nat] /\ pc \in [Streams -> PCs] /\ MaxDelay \in Nat
      /\ DOMAIN addr = Streams /\ \A u \in Streams : pc[u] = "admit" => addr[u] \in Address
      /\ ok \in [Streams -> BOOLEAN] /\ now <= now
  BY RingBefore DEF RingInv, RingTypes
<1>1. \A u \in Streams : pc[u] = "dial" => addr[u] \in Address
  BY DEF RingInv, RingTypes
<1>2. \A u \in Streams : pc[u] \in {"record", "match"} => now <= at[u] + MaxDelay
  BY DEF RingInv, RingTimes
<1>3. ASSUME NEW s \in Streams, NEW to \in PCs \ {"record", "match"},
             pc' = [pc EXCEPT ![s] = to], UNCHANGED <<now, ring, history>>,
             to = "dial" => addr'[s] \in Address, ok' \in [Streams -> BOOLEAN],
             \A u \in Streams \ {s} : at'[u] = at[u] /\ addr'[u] = addr[u] /\ ok'[u] = ok[u]
      PROVE  RingInv'
  <2>1. pc'[s] = to /\ \A u \in Streams \ {s} : pc'[u] = pc[u]
    BY <1>0, <1>3
  <2>2. ASSUME NEW u \in Streams, pc'[u] \in {"record", "match"}
        PROVE  /\ pc[u] = pc'[u] /\ at'[u] = at[u] /\ addr'[u] = addr[u] /\ ok'[u] = ok[u]
               /\ now' <= at[u] + MaxDelay
    <3>1. u \in Streams \ {s}
      BY <1>3, <2>1, <2>2
    <3> QED
      BY <1>2, <1>3, <2>1, <2>2, <3>1
  <2>3. \A u \in Streams : pc'[u] = "dial" => addr'[u] \in Address
    BY <1>1, <1>3, <2>1
  <2> QED
    BY <1>0, <1>3, <2>2, <2>3, RingQuiet
<1>4. ASSUME NEW s \in Streams, Step(s) PROVE RingInv'
  <2>1. /\ at' = at => \A u \in Streams \ {s} : at'[u] = at[u]
        /\ \A v : at' = [at EXCEPT ![s] = v] => \A u \in Streams \ {s} : at'[u] = at[u]
    BY <1>0
  <2>2. /\ addr' = addr => \A u \in Streams \ {s} : addr'[u] = addr[u]
        /\ \A v : addr' = [addr EXCEPT ![s] = v] => \A u \in Streams \ {s} : addr'[u] = addr[u]
    BY <1>0
  <2>3. /\ ok' = ok => ok' \in [Streams -> BOOLEAN] /\ \A u \in Streams \ {s} : ok'[u] = ok[u]
        /\ ok' = [ok EXCEPT ![s] = FALSE] =>
             ok' \in [Streams -> BOOLEAN] /\ \A u \in Streams \ {s} : ok'[u] = ok[u]
    BY <1>0
  <2>4. CASE Lookup(s)
    BY <1>3, <2>1, <2>2, <2>3, <2>4 DEF Lookup, Goto, dials, PCs
  <2>5. CASE CacheHit(s)
    BY <1>3, <2>1, <2>2, <2>3, <2>5 DEF CacheHit, Goto, dials, PCs
  <2>6. CASE CacheMiss(s)
    BY <1>3, <2>1, <2>2, <2>3, <2>6 DEF CacheMiss, Goto, dials, PCs
  <2>7. CASE Do(s)
    BY <1>3, <2>1, <2>2, <2>3, <2>7 DEF Do, Goto, dials, PCs
  <2>8. CASE PickNone(s)
    BY <1>3, <2>1, <2>2, <2>3, <2>8 DEF PickNone, Goto, dials, PCs
  <2>9. CASE Pick(s)
    BY <1>3, <2>1, <2>2, <2>3, <2>9 DEF Pick, Goto, PCs
  <2>10. ASSUME NEW a \in Address, DirectIP(s, a) PROVE RingInv'
    <3>1. UNCHANGED <<now, at, ok, ring, history>>
      BY <2>10 DEF DirectIP
    <3>2. CASE config.direct /\ Evaluate(a)
      <4>1. pc' = [pc EXCEPT ![s] = "admit"] /\ addr' = [addr EXCEPT ![s] = a]
        BY <2>10, <3>2 DEF DirectIP, Goto
      <4> QED
        BY <1>3, <2>1, <2>2, <2>3, <3>1, <4>1 DEF PCs
    <3>3. CASE ~(config.direct /\ Evaluate(a))
      <4>1. UNCHANGED <<addr, pc>>
        BY <2>10, <3>3 DEF DirectIP
      <4> QED
        BY <1>0, <1>1, <1>2, <3>1, <4>1, RingQuiet
    <3> QED
      BY <3>2, <3>3
  <2>11. CASE NoSyn(s)
    BY <1>3, <2>1, <2>2, <2>3, <2>11 DEF NoSyn, Done, Goto, PCs
  <2>12. CASE TryAcquire(s)
    BY <1>0, <1>3, <2>1, <2>2, <2>3, <2>12 DEF TryAcquire, Goto, PCs
  <2>13. CASE MatchStep(s)
    BY <1>3, <2>1, <2>2, <2>3, <2>13 DEF MatchStep, Done, Goto, PCs
  <2> QED
    BY <1>4, <2>4, <2>5, <2>6, <2>7, <2>8, <2>9, <2>10, <2>11, <2>12, <2>13, RingDialled,
       RingRecord DEF Step
<1>5. CASE UNCHANGED <<now, pc, at, addr, ok, ring, history>>
  BY <1>0, <1>1, <1>2, <1>5, RingQuiet
<1>6. CASE Land
  <2>1. /\ pc' = [u \in Streams |-> IF pc[u] = "wait" THEN "pick" ELSE pc[u]]
        /\ UNCHANGED <<now, at, addr, ok, ring, history>>
    BY <1>6 DEF Land, dials
  <2>2. \A u \in Streams : pc'[u] \in {"dial", "record", "match"} => pc[u] = pc'[u]
    BY <2>1
  <2> QED
    BY <1>0, <1>1, <1>2, <2>1, <2>2, RingQuiet
<1>7. CASE Tick
  <2>1. /\ now' = now + 1 /\ UNCHANGED <<pc, at, addr, ok, ring, history>>
        /\ \A u \in Streams : pc[u] \in {"check", "miss", "record", "match"} => now < at[u] + MaxDelay
    BY <1>7 DEF Tick, dials
  <2>2. now' \in Nat /\ now <= now'
    BY <1>0, <2>1
  <2>3. \A u \in Streams : pc[u] \in {"record", "match"} => now' <= at[u] + MaxDelay
    <3> SUFFICES ASSUME NEW u \in Streams, pc[u] \in {"record", "match"}
                 PROVE  now' <= at[u] + MaxDelay
      OBVIOUS
    <3>1. now < at[u] + MaxDelay /\ at[u] \in Nat
      BY <1>0, <2>1
    <3> QED
      BY <1>0, <2>1, <3>1
  <2> QED
    BY <1>0, <1>1, <2>1, <2>2, <2>3, RingQuiet
<1>8. ASSUME NEW zone, Answer(zone) PROVE RingInv'
  BY <1>5, <1>8 DEF Answer, dials
<1>9. CASE Expire \/ UNCHANGED vars
  BY <1>5, <1>9 DEF Expire, vars, dials
<1> QED
  BY <1>4, <1>6, <1>7, <1>8, <1>9 DEF Next

\* Nothing has been dialled yet.
LEMMA RingInit == Init => RingInv
<1> SUFFICES ASSUME Init PROVE RingInv
  OBVIOUS
<1>1. /\ history = <<>> /\ ring = [a \in Address |-> <<>>] /\ ok = [s \in Streams |-> FALSE]
      /\ \A s \in Streams : pc[s] = "idle"
  BY DEF Init
<1>2. \A a \in Address : ring[a] \in Seq(Sample) /\ Len(ring[a]) = 0
  BY <1>1
<1>3. RingTypes
  <2>1. ring \in [Address -> Seq(Sample)]
    BY <1>1
  <2> QED
    BY <1>1, <2>1 DEF RingTypes
<1>4. RingTimes
  BY <1>1, <1>2 DEF RingTimes, Spread, Until
<1>5. Recording = {}
  BY <1>1 DEF Recording
<1>6. Traced(0, 0)
  BY <1>2, <1>5 DEF Traced
<1> QED
  BY <1>3, <1>4, <1>6 DEF RingInv

\* More of them times a percentage is no less.
LEMMA TimesMore ==
    ASSUME NEW p \in Nat, NEW m \in Nat, NEW n \in Nat, m <= n PROVE p * m <= p * n
<1>1. PICK k \in Nat : n = m + k
  <2>1. n - m \in Nat /\ n = m + (n - m)
    OBVIOUS
  <2> QED
    BY <2>1
<1>2. p * (m + k) = p * m + p * k /\ p * k \in Nat /\ p * m \in Nat
  OBVIOUS
<1> QED
  BY <1>1, <1>2

\* A finite set has at least as many elements as one that can be mapped into it.
LEMMA AtLeast ==
    ASSUME NEW S, NEW T, IsFiniteSet(T), NEW h, \A i \in S : h[i] \in T,
           \A i \in S, j \in S : i # j => h[i] # h[j]
    PROVE  Cardinality(S) <= Cardinality(T) /\ Cardinality(S) \in Nat /\ Cardinality(T) \in Nat
<1> DEFINE k == [i \in S |-> h[i]]
<1>1. k \in Injection(S, T)
  <2>1. k \in [S -> T] /\ DOMAIN k = S
    OBVIOUS
  <2>2. \A i \in S, j \in S : k[i] = k[j] => i = j
    OBVIOUS
  <2> HIDE DEF k
  <2> QED
    BY <2>1, <2>2 DEF Injection, IsInjective
<1> HIDE DEF k
<1>2. IsFiniteSet(S) /\ Cardinality(S) <= Cardinality(T)
  BY <1>1, FS_Injection
<1> QED
  BY <1>2, FS_CardinalityType

\* The signature of a destination matches only if enough dials to it have failed lately.
Justified ==
    ~matched /\ matched' =>
       \E a \in Address :
         /\ Cardinality(Lately(a)) >= MinSamples
         /\ Cardinality({i \in Lately(a) : ~history[i].ok}) * 100 >= FailPercent * MinSamples

\* Each sample that counts is a result of its own, and recent.
LEMMA MatchJustified ==
    ASSUME AgeInv, PickInv, RingInv, NEW s \in Streams, MatchStep(s)
    PROVE  Justified
<1> DEFINE a == addr[s]
           R == ring[a]
           bad == {i \in DOMAIN R : ~R[i].ok}
           late == Lately(a)
           failed == {i \in late : ~history[i].ok}
<1> SUFFICES ASSUME ~matched, matched'
             PROVE  \E b \in Address :
                      /\ Cardinality(Lately(b)) >= MinSamples
                      /\ Cardinality({i \in Lately(b) : ~history[i].ok}) * 100
                            >= FailPercent * MinSamples
  BY DEF Justified
<1>0. /\ now \in Nat /\ at \in [Streams -> Nat] /\ MaxDelay \in Nat /\ Window \in Nat
      /\ at[s] <= now /\ at[s] \in Nat
  BY RingBefore
<1>c. MinSamples \in Nat /\ FailPercent \in Nat
  BY DialAssumption
<1>1. /\ pc[s] = "match" /\ Match(R)
  BY DEF MatchStep
<1>2. /\ a \in Address /\ R \in Seq(Sample) /\ now <= at[s] + MaxDelay
      /\ Since(R, at[s] - Window - MaxDelay) /\ history \in Seq(Result)
  BY <1>1 DEF RingInv, RingTypes, RingTimes
<1>3. Len(R) >= MinSamples /\ Cardinality(bad) * 100 >= FailPercent * Len(R)
  BY <1>1 DEF Match, Failed
<1>4. PICK f, g : Traced(f, g)
  BY DEF RingInv
<1>5. /\ \A i \in 1..Len(R) :
           /\ f[a][i] \in 1..Len(history) /\ history[f[a][i]].addr = a
           /\ history[f[a][i]].t = R[i].t /\ history[f[a][i]].ok = R[i].ok
      /\ \A i \in 1..Len(R), j \in 1..Len(R) : i # j => f[a][i] # f[a][j]
  BY <1>2, <1>4 DEF Traced
<1>6. /\ Len(R) \in Nat /\ Len(history) \in Nat /\ DOMAIN R = 1..Len(R)
      /\ DOMAIN history = 1..Len(history) /\ \A i \in 1..Len(R) : R[i].t \in Nat
  <2> HIDE DEF R
  <2> QED
    BY <1>2, SampleTimes
<1>7. bad \subseteq 1..Len(R) /\ \A i \in bad : ~R[i].ok
  BY <1>6
<1>8. failed \subseteq late /\ \A i \in late : ~history[i].ok => i \in failed
  OBVIOUS
<1>9. late = {i \in DOMAIN history : /\ history[i].addr = a
                                     /\ history[i].t >= now - Window - 2 * MaxDelay}
  BY DEF Lately
<1> HIDE DEF R, bad, late, failed
<1>10. \A i \in 1..Len(R) : f[a][i] \in late
  <2> SUFFICES ASSUME NEW i \in 1..Len(R) PROVE f[a][i] \in late
    OBVIOUS
  <2>1. R[i].t >= at[s] - Window - MaxDelay /\ R[i].t \in Nat
    BY <1>2, <1>6 DEF Since
  <2>2. R[i].t >= now - Window - 2 * MaxDelay
    BY <1>0, <1>2, <2>1
  <2> QED
    BY <1>5, <1>6, <1>9, <2>2
<1>11. IsFiniteSet(late) /\ IsFiniteSet(failed)
  <2>1. late \subseteq 1..Len(history)
    BY <1>6, <1>9
  <2>2. IsFiniteSet(1..Len(history))
    BY <1>6, FS_Interval
  <2> QED
    BY <1>8, <2>1, <2>2, FS_Subset
<1>12. Cardinality(late) >= Len(R) /\ Cardinality(late) \in Nat
  <2> DEFINE S == 1..Len(R)
             h == f[a]
  <2>1. \A n \in Nat : Cardinality(1..n) = n
    <3> SUFFICES ASSUME NEW n \in Nat PROVE Cardinality(1..n) = n
      OBVIOUS
    <3>1. Cardinality(1..n) = IF 1 > n THEN 0 ELSE n - 1 + 1
      BY FS_Interval
    <3> QED
      BY <3>1
  <2>2. \A i \in S : h[i] \in late
    BY <1>10
  <2>3. \A i \in S, j \in S : i # j => h[i] # h[j]
    BY <1>5
  <2> HIDE DEF S, h
  <2>4. Cardinality(S) <= Cardinality(late) /\ Cardinality(late) \in Nat
    BY <1>11, <2>2, <2>3, AtLeast
  <2> QED
    BY <1>6, <2>1, <2>4 DEF S
<1>13. /\ Cardinality(bad) <= Cardinality(failed)
       /\ Cardinality(bad) \in Nat /\ Cardinality(failed) \in Nat
  <2>1. \A i \in bad : f[a][i] \in failed
    BY <1>5, <1>7, <1>8, <1>10
  <2>2. \A i \in bad, j \in bad : i # j => f[a][i] # f[a][j]
    BY <1>5, <1>7
  <2> QED
    BY <1>11, <2>1, <2>2, AtLeast
<1>14. FailPercent * MinSamples <= FailPercent * Len(R)
  BY <1>3, <1>6, <1>c, TimesMore
<1>15. FailPercent * MinSamples \in Nat /\ FailPercent * Len(R) \in Nat
  BY <1>6, <1>c
<1>16. Cardinality(late) >= MinSamples /\ Cardinality(failed) * 100 >= FailPercent * MinSamples
  BY <1>3, <1>6, <1>c, <1>12, <1>13, <1>14, <1>15
<1> QED
  BY <1>2, <1>16 DEF late, failed

\* The connection is closed for a signature only if enough of its dials to one destination
\* have failed lately: for any number of streams that record and match in any order, any
\* window, any ratio and any delay between a dial's end and its record.
THEOREM MatchesAreJustified == Spec => MatchIsJustified
<1>1. AgeInv /\ PickInv /\ RingInv /\ [Next]_vars => [Justified]_vars
  <2> SUFFICES ASSUME AgeInv, PickInv, RingInv, Next PROVE Justified
    OBVIOUS
  <2>1. ASSUME NEW s \in Streams, Step(s) PROVE Justified
    <3>1. ASSUME NEW a \in Address, DirectIP(s, a) PROVE matched' = matched
      BY <3>1 DEF DirectIP
    <3>2. ASSUME NEW result \in BOOLEAN, Dialled(s, result) PROVE matched' = matched
      BY <3>2 DEF Dialled
    <3>3. MatchStep(s) \/ matched' = matched
      BY <2>1, <3>1, <3>2 DEF Step, Lookup, CacheHit, CacheMiss, Do, PickNone, Pick, NoSyn,
                              TryAcquire, Record, dials
    <3> QED
      BY <3>3, MatchJustified DEF Justified
  <2>2. ASSUME NEW zone, Answer(zone) PROVE matched' = matched
    BY <2>2 DEF Answer, dials
  <2>3. Land \/ Expire \/ Tick => matched' = matched
    BY DEF Land, Expire, Tick, dials
  <2> QED
    BY <2>1, <2>2, <2>3 DEF Next, Justified
<1>2. MatchIsJustified <=> [][Justified]_vars
  BY PTL DEF MatchIsJustified, Justified
<1> QED
  BY <1>1, <1>2, AgeInit, AgeStep, PickInit, PickStep, RingInit, RingStep, PTL DEF Spec

-----------------------------------------------------------------------------
(* The connection semaphore of the server.                                 *)

\* A handler about to compare and swap has loaded a value below the limit, so
\* that a swap which succeeds does not pass the limit; without a limit no
\* handler comes that far.
LoadedBelowLimit == \A c \in Conns : handler[c] = "swap" => cur[c] < sem.max

\* The inductive invariant. That the counter stays between zero and the limit,
\* a part of TypeOK, needs the other two.
SemInv == TypeOK /\ SemaphoreExact /\ LoadedBelowLimit

\* The connections that hold the semaphore are finitely many.
LEMMA HoldingFinite == IsFiniteSet(Holding) /\ Cardinality(Holding) \in Nat
<1>1. Holding \subseteq Conns
  BY DEF Holding
<1> QED
  BY <1>1, FS_Subset, FS_CardinalityType, ConnsFinite

\* A handler that acquires adds one connection to those that hold the semaphore.
LEMMA HoldingGains ==
    ASSUME TypeOK, NEW c \in Conns, c \notin Holding,
           handler' = [handler EXCEPT ![c] = "acquired"]
    PROVE  Cardinality(Holding') = Cardinality(Holding) + 1
<1>1. Holding' = Holding \cup {c}
  BY DEF Holding, TypeOK
<1> QED
  BY <1>1, HoldingFinite, FS_AddElement

\* One that releases takes one away.
LEMMA HoldingLoses ==
    ASSUME TypeOK, NEW c \in Conns, c \in Holding,
           NEW to \in {"refused", "ended"}, handler' = [handler EXCEPT ![c] = to]
    PROVE  /\ Cardinality(Holding') = Cardinality(Holding) - 1
           /\ Cardinality(Holding) > 0
<1>1. Holding' = Holding \ {c}
  BY DEF Holding, TypeOK
<1>2. Cardinality(Holding') = Cardinality(Holding) - 1
  BY <1>1, HoldingFinite, FS_RemoveElement
<1>3. Cardinality(Holding) # 0
  BY HoldingFinite, FS_EmptySet
<1> QED
  BY <1>2, <1>3, HoldingFinite

\* No handler has started: nobody holds the semaphore and it counts nobody.
LEMMA SemInit == ServerInit => SemInv
<1> SUFFICES ASSUME ServerInit PROVE SemInv
  OBVIOUS
<1>0. sem \in [current : Nat, max : Limits] /\ sem.current = 0 /\ sem.max \in Nat
  BY LimitsType DEF ServerInit
<1>1. TypeOK
  <2>1. cur \in [Conns -> 0..sem.max] /\ bytes \in [Conns -> 0..MaxBytes]
    BY <1>0, LimitsType DEF ServerInit
  <2>2. /\ stats \in [pc : {"idle", "range"}, sum : Nat, must : SUBSET Conns,
                       visited : SUBSET Conns, at : SUBSET Conns]
        /\ shut \in [pc : {"idle", "range"}, must : SUBSET Conns, visited : SUBSET Conns]
    BY DEF ServerInit, NoStats, NoShut
  <2> QED
    BY <1>0, <2>1, <2>2 DEF ServerInit, TypeOK
<1>2. Holding = {}
  BY DEF ServerInit, Holding
<1>3. Cardinality(Holding) = 0
  BY <1>2, FS_EmptySet
<1>4. SemaphoreExact
  BY <1>0, <1>3 DEF SemaphoreExact
<1> QED
  BY <1>1, <1>4 DEF SemInv, ServerInit, LoadedBelowLimit

\* A step of a handler that neither takes nor gives up the semaphore.
LEMMA SamePlace ==
    ASSUME SemInv, sem' = sem, Holding' = Holding, TypeOK', LoadedBelowLimit'
    PROVE  SemInv'
BY DEF SemInv, SemaphoreExact

\* Every step keeps the semaphore exact.
LEMMA SemStep == SemInv /\ [ServerNext]_serverVars => SemInv'
<1> SUFFICES ASSUME SemInv, [ServerNext]_serverVars PROVE SemInv'
  OBVIOUS
<1> USE ConnsFinite, LimitsType
<1>1. TypeOK /\ SemaphoreExact /\ LoadedBelowLimit
  BY DEF SemInv
<1>n. sem.current \in Nat /\ sem.max \in Nat /\ sem.current <= sem.max
  BY <1>1 DEF TypeOK
<1>2. ASSUME NEW c \in Conns, Refuse(c) PROVE SemInv'
  <2>1. TypeOK' /\ LoadedBelowLimit' /\ Holding' = Holding
    BY <1>1, <1>2 DEF Refuse, HandlerStep, TypeOK, LoadedBelowLimit, Holding
  <2> QED
    BY <1>2, <2>1, SamePlace DEF Refuse
<1>3. ASSUME NEW c \in Conns, AcquireUnlimited(c) PROVE SemInv'
  <2>1. TypeOK' /\ LoadedBelowLimit'
    BY <1>1, <1>3 DEF AcquireUnlimited, HandlerStep, TypeOK, LoadedBelowLimit
  <2>2. SemaphoreExact'
    BY <1>1, <1>3 DEF AcquireUnlimited, SemaphoreExact
  <2> QED
    BY <2>1, <2>2 DEF SemInv
<1>4. ASSUME NEW c \in Conns, AcquireLoad(c) PROVE SemInv'
  <2> DEFINE v == IF Full(sem.current) THEN 0 ELSE sem.current
             to == IF Full(sem.current) THEN "refused" ELSE "swap"
  <2>a. /\ v \in 0..sem.max /\ (to = "swap" => v < sem.max)
        /\ to \in {"refused", "swap"}
    <3>1. CASE Full(sem.current)
      BY <1>n, <3>1
    <3>2. CASE ~Full(sem.current)
      BY <1>n, <3>2 DEF Full
    <3> QED
      BY <3>1, <3>2
  <2>b. /\ cur' = [cur EXCEPT ![c] = v] /\ handler' = [handler EXCEPT ![c] = to]
        /\ handler[c] \in {"new", "acquire"}
        /\ UNCHANGED <<sem, active, isClosed, bytes, total, stats, shut>>
    BY <1>4 DEF AcquireLoad
  <2> HIDE DEF v, to
  <2>1. TypeOK' /\ LoadedBelowLimit' /\ Holding' = Holding
    BY <1>1, <2>a, <2>b DEF TypeOK, LoadedBelowLimit, Holding
  <2> QED
    BY <1>4, <2>1, SamePlace DEF AcquireLoad
<1>5. ASSUME NEW c \in Conns, AcquireSwap(c) PROVE SemInv'
  <2>1. handler[c] = "swap" /\ cur[c] < sem.max /\ c \notin Holding
    BY <1>1, <1>5 DEF AcquireSwap, HandlerStep, LoadedBelowLimit, Holding
  <2>2. TypeOK' /\ LoadedBelowLimit'
    BY <1>1, <1>5, <2>1 DEF AcquireSwap, HandlerStep, Swaps, TypeOK, LoadedBelowLimit
  <2>3. CASE Swaps(c)
    <3>1. handler' = [handler EXCEPT ![c] = "acquired"]
      BY <1>5, <2>3 DEF AcquireSwap, HandlerStep
    <3>2. Cardinality(Holding') = Cardinality(Holding) + 1
      BY <1>1, <2>1, <3>1, HoldingGains
    <3>3. sem'.current = sem.current + 1 /\ sem'.max = sem.max /\ sem.current < sem.max
      BY <1>1, <1>5, <2>1, <2>3 DEF AcquireSwap, Swaps, TypeOK
    <3>4. SemaphoreExact'
      BY <1>1, <1>n, <3>2, <3>3, HoldingFinite DEF SemaphoreExact
    <3> QED
      BY <2>2, <3>4 DEF SemInv
  <2>4. CASE ~Swaps(c)
    <3>1. Holding' = Holding
      BY <1>1, <1>5, <2>4 DEF AcquireSwap, HandlerStep, Holding, TypeOK
    <3>2. sem'.current = sem.current /\ sem'.max = sem.max
      BY <1>1, <1>5, <2>4 DEF AcquireSwap, TypeOK
    <3> QED
      BY <1>1, <2>2, <3>1, <3>2 DEF SemInv, SemaphoreExact
  <2> QED
    BY <2>3, <2>4
<1>6. ASSUME NEW c \in Conns, NEW to \in {"refused", "ended"}, c \in Holding,
             handler' = [handler EXCEPT ![c] = to], sem' = [sem EXCEPT !.current = Release(@)],
             UNCHANGED <<cur, active, isClosed, bytes, total, stats, shut>>
      PROVE  SemInv'
  <2>1. Cardinality(Holding') = Cardinality(Holding) - 1 /\ Cardinality(Holding) > 0
    BY <1>1, <1>6, HoldingLoses
  <2>2. /\ sem'.max = sem.max
        /\ sem'.current = IF sem.max = 0 THEN sem.current ELSE sem.current - 1
    BY <1>1, <1>6 DEF Release, TypeOK
  <2>3. SemaphoreExact'
    BY <1>1, <1>n, <2>1, <2>2, HoldingFinite DEF SemaphoreExact
  <2>4. sem'.current \in Nat /\ sem'.current <= sem'.max
    BY <1>1, <1>n, <2>1, <2>2, HoldingFinite DEF SemaphoreExact
  <2>5. TypeOK' /\ LoadedBelowLimit'
    BY <1>1, <1>6, <2>2, <2>4 DEF TypeOK, LoadedBelowLimit
  <2> QED
    BY <2>3, <2>5 DEF SemInv
<1>7. ASSUME NEW c \in Conns, HandlerError(c) PROVE SemInv'
  <2>1. c \in Holding
    BY <1>7 DEF HandlerError, HandlerStep, Holding
  <2> QED
    BY <1>6, <1>7, <2>1 DEF HandlerError, HandlerStep
<1>8. ASSUME NEW c \in Conns, ReleaseConn(c) PROVE SemInv'
  <2>1. c \in Holding
    BY <1>8 DEF ReleaseConn, HandlerStep, Holding
  <2> QED
    BY <1>6, <1>8, <2>1 DEF ReleaseConn, HandlerStep
<1>9. ASSUME NEW c \in Conns, Register(c) \/ Handle(c) \/ HandleReturn(c) \/ ReadEnd(c)
                             \/ DeleteActive(c)
      PROVE  SemInv'
  <2>1. TypeOK' /\ LoadedBelowLimit' /\ Holding' = Holding /\ sem' = sem
    BY <1>1, <1>9, ZenonT(40) DEF Register, Handle, HandleReturn, ReadEnd, DeleteActive,
                      HandlerStep, TypeOK, LoadedBelowLimit, Holding
  <2> QED
    BY <2>1, SamePlace
<1>10. ASSUME NEW c \in Conns, Count(c) \/ AddTotal(c) PROVE SemInv'
  <2>1. /\ bytes[c] \in Nat /\ total + bytes[c] \in Nat
        /\ bytes[c] < MaxBytes => bytes[c] + 1 \in 0..MaxBytes
    BY <1>1 DEF TypeOK
  <2>2. CASE Count(c)
    <3>1. TypeOK' /\ LoadedBelowLimit' /\ Holding' = Holding /\ sem' = sem
      BY <1>1, <2>1, <2>2 DEF Count, TypeOK, LoadedBelowLimit, Holding
    <3> QED
      BY <3>1, SamePlace
  <2>3. CASE AddTotal(c)
    <3>1. TypeOK' /\ LoadedBelowLimit' /\ Holding' = Holding /\ sem' = sem
      BY <1>1, <2>1, <2>3 DEF AddTotal, HandlerStep, TypeOK, LoadedBelowLimit, Holding
    <3> QED
      BY <3>1, SamePlace
  <2> QED
    BY <1>10, <2>2, <2>3
<1>11. ASSUME \/ StatsTotals \/ StatsReturn \/ ShutdownBegin \/ ShutdownStep
              \/ \E c \in Conns : StatsVisit(c) \/ StatsRead(c)
              \/ UNCHANGED serverVars
       PROVE  SemInv'
  <2>1. UNCHANGED <<handler, cur, sem, active, bytes, total>>
    BY <1>11 DEF StatsTotals, StatsReturn, StatsVisit, StatsRead, ShutdownBegin,
                 ShutdownStep, ShutdownReturn, ShutdownClose, serverVars
  <2>2. stats' \in [pc : {"idle", "range"}, sum : Nat, must : SUBSET Conns,
                    visited : SUBSET Conns, at : SUBSET Conns]
    <3>1. ASSUME NEW c \in Conns PROVE stats.sum + bytes[c] \in Nat
      BY <1>1 DEF TypeOK
    <3>2. CASE StatsTotals
      <4>1. stats' = [pc |-> "range", sum |-> total, must |-> active, visited |-> {}, at |-> {}]
        BY <3>2 DEF StatsTotals, NoStats
      <4> QED
        BY <1>1, <4>1 DEF TypeOK
    <3>5. CASE StatsReturn
      BY <3>5 DEF StatsReturn, NoStats
    <3>3. ASSUME NEW c \in Conns, StatsVisit(c)
          PROVE  stats' \in [pc : {"idle", "range"}, sum : Nat, must : SUBSET Conns,
                             visited : SUBSET Conns, at : SUBSET Conns]
      BY <1>1, <3>3 DEF StatsVisit, TypeOK
    <3>6. ASSUME NEW c \in Conns, StatsRead(c)
          PROVE  stats' \in [pc : {"idle", "range"}, sum : Nat, must : SUBSET Conns,
                             visited : SUBSET Conns, at : SUBSET Conns]
      BY <1>1, <3>1, <3>6 DEF StatsRead, TypeOK
    <3>4. CASE ShutdownBegin \/ ShutdownStep \/ UNCHANGED serverVars
      BY <1>1, <3>4 DEF ShutdownBegin, ShutdownStep, ShutdownReturn, ShutdownClose, serverVars, TypeOK
    <3> QED
      BY <1>11, <3>2, <3>3, <3>4, <3>5, <3>6
  <2>3. /\ shut' \in [pc : {"idle", "range"}, must : SUBSET Conns, visited : SUBSET Conns]
        /\ isClosed' \in [Conns -> BOOLEAN]
    <3>1. CASE ShutdownBegin \/ ShutdownStep
      <4>1. CASE ShutdownBegin
        BY <1>1, <4>1 DEF ShutdownBegin, TypeOK
      <4>2. CASE ShutdownReturn
        BY <1>1, <4>2 DEF ShutdownReturn, NoShut, TypeOK
      <4>3. ASSUME NEW c \in Conns, ShutdownClose(c)
            PROVE  /\ shut' \in [pc : {"idle", "range"}, must : SUBSET Conns,
                                  visited : SUBSET Conns]
                   /\ isClosed' \in [Conns -> BOOLEAN]
        BY <1>1, <4>3 DEF ShutdownClose, TypeOK
      <4> QED
        BY <3>1, <4>1, <4>2, <4>3 DEF ShutdownStep
    <3>2. CASE UNCHANGED <<shut, isClosed>>
      BY <1>1, <3>2 DEF TypeOK
    <3> QED
      BY <1>11, <3>1, <3>2 DEF StatsTotals, StatsReturn, StatsVisit, StatsRead, serverVars
  <2>4. TypeOK' /\ LoadedBelowLimit' /\ Holding' = Holding /\ sem' = sem
    BY <1>1, <2>1, <2>2, <2>3 DEF TypeOK, LoadedBelowLimit, Holding
  <2> QED
    BY <2>4, SamePlace
<1> QED
  BY <1>2, <1>3, <1>4, <1>5, <1>7, <1>8, <1>9, <1>10, <1>11
     DEF ServerNext, Handler, Reader, Ending

\* Types are kept; in particular TryAcquire and Release keep the counter
\* between zero and the limit.
THEOREM ServerTypeCorrect == ServerSpec => []TypeOK
<1>1. SemInv => TypeOK
  BY DEF SemInv
<1> QED
  BY <1>1, SemInit, SemStep, PTL DEF ServerSpec

\* The semaphore counts the connections that hold it, on every way out of the
\* handler and of the read loop, and never admits more than the limit.
THEOREM SemaphoreIsExact == ServerSpec => []SemaphoreExact
<1>1. SemInv => SemaphoreExact
  BY DEF SemInv
<1> QED
  BY <1>1, SemInit, SemStep, PTL DEF ServerSpec

-----------------------------------------------------------------------------
(* Stats() against connections that end while it runs.                     *)

\* The connections whose bytes are in the totals.
InTotal == {c \in Conns : handler[c] \in {"release", "ended"}}

\* The connections whose bytes can be in the sum of a running Stats(): read
\* from the table, or in the totals by now without having been found there.
Counted == (stats.visited \cup InTotal) \ stats.at

\* A connection leaves g.active before its bytes enter the totals, so one that
\* Range finds is not in the totals that Stats() read before.
StatsInv ==
    /\ TypeOK
    /\ \A c \in active : handler[c] \in {"reading", "handling", "delete"}
    /\ total <= SumFunctionOnSet(bytes, InTotal)
    /\ stats.at \subseteq stats.visited
    /\ stats.pc = "idle" => stats.at = {} /\ stats.sum = 0
    /\ stats.sum <= SumFunctionOnSet(bytes, Counted)

\* Sums over sets of connections are naturals and grow with the set.
LEMMA BytesSums ==
    ASSUME TypeOK, NEW T \in SUBSET Conns
    PROVE  /\ IsFiniteSet(T) /\ \A c \in T : bytes[c] \in Nat
           /\ SumFunctionOnSet(bytes, T) \in Nat
           /\ \A S \in SUBSET T : SumFunctionOnSet(bytes, S) <= SumFunctionOnSet(bytes, T)
<1>1. IsFiniteSet(T) /\ \A c \in T : bytes[c] \in Nat
  BY FS_Subset, ConnsFinite DEF TypeOK
<1> QED
  BY <1>1, SumNat, SumMonotone

\* A step that changes neither the bytes nor Stats() and takes no connection
\* out of the totals.
LEMMA StatsQuiet ==
    ASSUME StatsInv, TypeOK', UNCHANGED <<bytes, stats, total>>,
           InTotal \subseteq InTotal', \A c \in active' : handler'[c] \in {"reading", "handling", "delete"}
    PROVE  StatsInv'
<1>1. TypeOK /\ total \in Nat /\ stats.sum \in Nat
  BY DEF StatsInv, TypeOK
<1>2. InTotal' \in SUBSET Conns /\ InTotal \in SUBSET InTotal'
  BY DEF InTotal
<1>3. Counted' \in SUBSET Conns /\ Counted \in SUBSET Counted'
  BY <1>1, <1>2 DEF Counted, TypeOK
<1> DEFINE A == InTotal' B == Counted'
<1>4. A \in SUBSET Conns /\ InTotal \in SUBSET A /\ B \in SUBSET Conns /\ Counted \in SUBSET B
  BY <1>2, <1>3
<1>5. total' = total /\ bytes' = bytes /\ stats' = stats
  OBVIOUS
<1> HIDE DEF A, B
<1>6. /\ SumFunctionOnSet(bytes, InTotal) <= SumFunctionOnSet(bytes, A)
      /\ SumFunctionOnSet(bytes, Counted) <= SumFunctionOnSet(bytes, B)
      /\ SumFunctionOnSet(bytes, A) \in Nat /\ SumFunctionOnSet(bytes, B) \in Nat
      /\ SumFunctionOnSet(bytes, InTotal) \in Nat /\ SumFunctionOnSet(bytes, Counted) \in Nat
  <2>1. InTotal \in SUBSET Conns /\ Counted \in SUBSET Conns
    BY <1>4
  <2> QED
    BY <1>1, <1>4, <2>1, BytesSums
<1>7. total <= SumFunctionOnSet(bytes, A) /\ stats.sum <= SumFunctionOnSet(bytes, B)
  BY <1>1, <1>6 DEF StatsInv
<1> QED
  BY <1>5, <1>7 DEF StatsInv, A, B

\* Bytes are counted, also while the connection ends.
LEMMA StatsCount ==
    ASSUME StatsInv, TypeOK', NEW c \in Conns, Count(c)
    PROVE  StatsInv'
<1>1. TypeOK /\ total \in Nat /\ stats.sum \in Nat /\ bytes \in [Conns -> Int]
  BY LimitsType DEF StatsInv, TypeOK
<1>2. /\ bytes' = [bytes EXCEPT ![c] = bytes[c] + 1] /\ InTotal' = InTotal /\ Counted' = Counted
      /\ UNCHANGED <<handler, active, total, stats>>
  BY DEF Count, InTotal, Counted
<1>3. InTotal \in SUBSET Conns /\ Counted \in SUBSET Conns
  BY <1>1 DEF InTotal, Counted, TypeOK
<1> DEFINE f == [bytes EXCEPT ![c] = bytes[c] + 1]
<1>4. /\ SumFunctionOnSet(bytes, InTotal) <= SumFunctionOnSet(f, InTotal)
      /\ SumFunctionOnSet(bytes, Counted) <= SumFunctionOnSet(f, Counted)
  BY <1>1, <1>3, SumBump, ConnsFinite
<1>5. f = bytes'
  BY <1>2
<1> HIDE DEF f
<1>6. SumFunctionOnSet(bytes, InTotal) \in Nat /\ SumFunctionOnSet(bytes, Counted) \in Nat
  BY <1>1, <1>3, BytesSums
<1>t. \A T \in SUBSET Conns : SumFunctionOnSet(f, T) \in Int
  <2> SUFFICES ASSUME NEW T \in SUBSET Conns PROVE SumFunctionOnSet(f, T) \in Int
    OBVIOUS
  <2>1. IsFiniteSet(T) /\ \A x \in T : f[x] \in Int
    BY <1>1, FS_Subset, ConnsFinite DEF f
  <2> QED
    BY <2>1, SumType
<1>7. total <= SumFunctionOnSet(f, InTotal) /\ stats.sum <= SumFunctionOnSet(f, Counted)
  BY <1>1, <1>3, <1>4, <1>6, <1>t DEF StatsInv
<1> QED
  BY <1>2, <1>5, <1>7 DEF StatsInv

\* The bytes of an ended connection enter the totals; it left g.active before.
LEMMA StatsAddTotal ==
    ASSUME StatsInv, TypeOK', NEW c \in Conns, AddTotal(c)
    PROVE  StatsInv'
<1>1. TypeOK /\ total \in Nat /\ stats.sum \in Nat /\ bytes[c] \in Nat
  BY LimitsType DEF StatsInv, TypeOK
<1>2. /\ total' = total + bytes[c] /\ UNCHANGED <<active, bytes, stats>>
      /\ handler[c] = "total" /\ c \notin InTotal /\ InTotal' = InTotal \cup {c}
      /\ Counted \in SUBSET Counted'
  BY <1>1 DEF AddTotal, HandlerStep, InTotal, Counted, TypeOK
<1>3. \A d \in active : handler'[d] \in {"reading", "handling", "delete"}
  BY <1>1, <1>2 DEF AddTotal, HandlerStep, StatsInv, TypeOK
<1>4. InTotal \in SUBSET Conns /\ Counted \in SUBSET Conns /\ Counted' \in SUBSET Conns
  BY <1>1, <1>2 DEF InTotal, Counted, TypeOK
<1>5. SumFunctionOnSet(bytes, InTotal \cup {c}) = SumFunctionOnSet(bytes, InTotal) + bytes[c]
  <2>1. IsFiniteSet(InTotal) /\ \A d \in InTotal : bytes[d] \in Int
    BY <1>1, <1>4, BytesSums
  <2> QED
    BY <1>1, <1>2, <2>1, SumAdd
<1>6. SumFunctionOnSet(bytes, InTotal) \in Nat /\ SumFunctionOnSet(bytes, Counted) \in Nat
  BY <1>1, <1>4, BytesSums
<1>7. total' <= SumFunctionOnSet(bytes', InTotal')
  BY <1>1, <1>2, <1>5, <1>6 DEF StatsInv
<1> DEFINE B == Counted'
<1>8. B \in SUBSET Conns /\ Counted \in SUBSET B
  BY <1>2, <1>4
<1> HIDE DEF B
<1>9. SumFunctionOnSet(bytes, Counted) <= SumFunctionOnSet(bytes, B) /\ SumFunctionOnSet(bytes, B) \in Nat
  BY <1>1, <1>8, BytesSums
<1>10. stats.sum <= SumFunctionOnSet(bytes, B)
  BY <1>1, <1>6, <1>9 DEF StatsInv
<1> QED
  BY <1>2, <1>3, <1>7, <1>10 DEF StatsInv, B

\* Stats() reads the totals, comes to a connection, reads its bytes, returns.
LEMMA StatsOwn ==
    ASSUME StatsInv, TypeOK',
           StatsTotals \/ StatsReturn \/ \E c \in Conns : StatsVisit(c) \/ StatsRead(c)
    PROVE  StatsInv'
<1>1. TypeOK /\ total \in Nat /\ stats.sum \in Nat
  BY DEF StatsInv, TypeOK
<1>2. UNCHANGED <<handler, active, bytes, total>> /\ InTotal' = InTotal
  BY DEF StatsTotals, StatsReturn, StatsVisit, StatsRead, InTotal
<1>3. InTotal \in SUBSET Conns /\ Counted \in SUBSET Conns
  BY <1>1 DEF InTotal, Counted, TypeOK
<1>4. ASSUME stats'.at \subseteq stats'.visited,
             stats'.pc = "idle" => stats'.at = {} /\ stats'.sum = 0,
             stats'.sum <= SumFunctionOnSet(bytes, Counted')
      PROVE  StatsInv'
  BY <1>2, <1>4 DEF StatsInv
<1>5. CASE StatsTotals
  <2>1. stats'.at = {} /\ stats'.visited = {} /\ stats'.pc = "range" /\ stats'.sum = total
    BY <1>5 DEF StatsTotals, NoStats
  <2>2. Counted' = InTotal
    BY <1>2, <2>1 DEF Counted
  <2> QED
    BY <1>4, <2>1, <2>2 DEF StatsInv
<1>6. CASE StatsReturn
  <2>1. stats'.at = {} /\ stats'.visited = {} /\ stats'.pc = "idle" /\ stats'.sum = 0
    BY <1>6 DEF StatsReturn, NoStats
  <2>2. Counted' = InTotal
    BY <1>2, <2>1 DEF Counted
  <2>3. SumFunctionOnSet(bytes, InTotal) \in Nat
    BY <1>1, <1>3, BytesSums
  <2> QED
    BY <1>4, <2>1, <2>2, <2>3
<1>7. ASSUME NEW c \in Conns, StatsVisit(c) PROVE StatsInv'
  <2>1. /\ stats'.at = {c} /\ stats'.visited = stats.visited \cup {c} /\ stats'.pc = "range"
        /\ stats'.sum = stats.sum /\ stats.at = {} /\ c \in active /\ c \notin stats.visited
    BY <1>1, <1>7 DEF StatsVisit, TypeOK
  <2>2. c \notin InTotal
    BY <2>1 DEF StatsInv, InTotal
  <2>3. Counted' = Counted
    BY <1>2, <2>1, <2>2 DEF Counted
  <2> QED
    BY <1>4, <2>1, <2>3 DEF StatsInv
<1>8. ASSUME NEW c \in Conns, StatsRead(c) PROVE StatsInv'
  <2>1. /\ stats'.at = {} /\ stats'.visited = stats.visited /\ stats'.pc = stats.pc
        /\ stats'.sum = stats.sum + bytes[c] /\ c \in stats.at /\ bytes[c] \in Nat
    <3>1. stats' = [stats EXCEPT !.at = {}, !.sum = stats.sum + bytes[c]] /\ c \in stats.at
      BY <1>8 DEF StatsRead
    <3>2. stats \in [pc : {"idle", "range"}, sum : Nat, must : SUBSET Conns,
                      visited : SUBSET Conns, at : SUBSET Conns]
      BY <1>1 DEF TypeOK
    <3>3. bytes[c] \in Nat
      BY <1>1, LimitsType DEF TypeOK
    <3> QED
      BY <3>1, <3>2, <3>3
  <2>2. c \notin Counted /\ stats.pc # "idle" /\ c \in stats.visited
    BY <2>1 DEF StatsInv, Counted
  <2> DEFINE B == Counted'
  <2>3. B \in SUBSET Conns /\ Counted \cup {c} \in SUBSET B
    BY <1>1, <1>2, <1>3, <2>1, <2>2 DEF Counted, TypeOK, InTotal
  <2> HIDE DEF B
  <2>4. SumFunctionOnSet(bytes, Counted \cup {c}) = SumFunctionOnSet(bytes, Counted) + bytes[c]
    <3>1. IsFiniteSet(Counted) /\ \A d \in Counted : bytes[d] \in Int
      BY <1>1, <1>3, BytesSums
    <3>2. bytes[c] \in Int
      BY <2>1
    <3> QED
      BY <2>2, <3>1, <3>2, SumAdd
  <2>5. /\ SumFunctionOnSet(bytes, Counted \cup {c}) <= SumFunctionOnSet(bytes, B)
        /\ SumFunctionOnSet(bytes, B) \in Nat /\ SumFunctionOnSet(bytes, Counted) \in Nat
    BY <1>1, <1>3, <2>3, BytesSums
  <2>6. stats'.sum <= SumFunctionOnSet(bytes, B)
    BY <1>1, <2>1, <2>4, <2>5 DEF StatsInv
  <2> QED
    BY <1>4, <2>1, <2>2, <2>6 DEF B
<1> QED
  BY <1>5, <1>6, <1>7, <1>8

\* Every step keeps Stats() from counting a connection twice.
LEMMA StatsStep == StatsInv /\ TypeOK' /\ [ServerNext]_serverVars => StatsInv'
<1> SUFFICES ASSUME StatsInv, TypeOK', [ServerNext]_serverVars PROVE StatsInv'
  OBVIOUS
<1>1. TypeOK /\ \A c \in active : handler[c] \in {"reading", "handling", "delete"}
  BY DEF StatsInv
<1>2. ASSUME NEW c \in Conns, Refuse(c) \/ Handler(c) \/ Handle(c) \/ HandleReturn(c) \/ ReadEnd(c)
                             \/ DeleteActive(c) \/ ReleaseConn(c)
      PROVE  StatsInv'
  <2>1. UNCHANGED <<bytes, stats, total>>
    BY <1>2 DEF Refuse, Handler, AcquireUnlimited, AcquireLoad, AcquireSwap, HandlerError,
                Register, Handle, HandleReturn, ReadEnd, DeleteActive, ReleaseConn
  <2>2. InTotal \subseteq InTotal'
    BY <1>1, <1>2 DEF Refuse, Handler, AcquireUnlimited, AcquireLoad, AcquireSwap, HandlerError,
                      Register, Handle, HandleReturn, ReadEnd, DeleteActive, ReleaseConn, HandlerStep, InTotal, TypeOK
  <2>3. \A d \in active' : handler'[d] \in {"reading", "handling", "delete"}
    BY <1>1, <1>2 DEF Refuse, Handler, AcquireUnlimited, AcquireLoad, AcquireSwap, HandlerError,
                      Register, Handle, HandleReturn, ReadEnd, DeleteActive, ReleaseConn, HandlerStep, TypeOK
  <2> QED
    BY <2>1, <2>2, <2>3, StatsQuiet
<1>3. CASE ShutdownBegin \/ ShutdownStep \/ UNCHANGED serverVars
  <2>1. UNCHANGED <<handler, active, bytes, stats, total>>
    BY <1>3 DEF ShutdownBegin, ShutdownStep, ShutdownReturn, ShutdownClose, serverVars
  <2>2. InTotal' = InTotal
    BY <2>1 DEF InTotal
  <2> QED
    BY <1>1, <2>1, <2>2, StatsQuiet
<1> QED
  BY <1>2, <1>3, StatsCount, StatsAddTotal, StatsOwn DEF ServerNext, Reader, Ending

\* Stats() never reports more bytes than were transferred, whichever
\* connections end between its reads of the totals and of the table.
THEOREM StatsCountsOnce == ServerSpec => []NoDoubleCount
<1>1. ASSUME ServerInit PROVE StatsInv
  <2>1. TypeOK
    BY <1>1, SemInit DEF SemInv
  <2>2. InTotal = {} /\ Counted = {} /\ active = {} /\ total = 0
    BY <1>1 DEF ServerInit, InTotal, Counted, NoStats
  <2>3. SumFunctionOnSet(bytes, {}) \in Nat
    BY <2>1, BytesSums
  <2>4. stats.at = {} /\ stats.visited = {} /\ stats.sum = 0
    BY <1>1 DEF ServerInit, NoStats
  <2> QED
    BY <2>1, <2>2, <2>3, <2>4 DEF StatsInv
<1>2. ASSUME StatsInv PROVE NoDoubleCount
  <2>1. TypeOK /\ Counted \in SUBSET Conns /\ DOMAIN bytes = Conns /\ stats.sum \in Nat
    BY <1>2 DEF StatsInv, Counted, InTotal, TypeOK
  <2>2. /\ SumFunctionOnSet(bytes, Counted) <= SumFunctionOnSet(bytes, Conns)
        /\ SumFunctionOnSet(bytes, Conns) \in Nat /\ SumFunctionOnSet(bytes, Counted) \in Nat
    BY <2>1, BytesSums
  <2> QED
    BY <1>2, <2>1, <2>2 DEF NoDoubleCount, SumFunction, StatsInv
<1> QED
  BY <1>1, <1>2, ServerTypeCorrect, StatsStep, PTL DEF ServerSpec

-----------------------------------------------------------------------------
(* The reputation store.                                                   *)

\* Scores as they are in memory and in a file.
Entries == [score : 0..100, seen : SUBSET Sources]
Snapshots == [Keys -> Entries]
Files == [kind : {"absent", "torn", "full"}, data : Snapshots]
SaveStates ==
    [pc : {"idle", "evict", "marshal", "create", "write", "rename", "returned"}, data : Snapshots,
     fd : {"none", "tmp", "store", "gone"}, last : BOOLEAN]

\* Types of the scores, of the maintenance goroutines and of the files.
ScoresTypeOK ==
    /\ mem \in [Procs -> Snapshots] /\ up \in [Procs -> BOOLEAN]
    /\ maint \in [Procs -> SaveStates]
    /\ tmp \in Files /\ store \in Files /\ saved \in Snapshots

\* A score stays between 0 and 100, and a weight that is not negative does not
\* lower it.
LEMMA ClampRaises ==
    ASSUME NEW s \in 0..100, NEW v \in Int
    PROVE  /\ clampScore(s + v) \in 0..100
           /\ v >= 0 => clampScore(s + v) >= s
<1>1. s \in Int /\ s >= 0 /\ s <= 100 /\ s + v \in Int
  OBVIOUS
<1>2. 0 \in 0..100 /\ 100 \in 0..100
  OBVIOUS
<1> QED
  BY <1>1, <1>2, SMTT(30) DEF clampScore

\* No entry is an entry of score 0.
LEMMA NoScoresType == NoScores \in Snapshots
BY DEF NoScores, Snapshots, Entries

\* An event is reported: some source or destination gets some weight.
Report(p) ==
    \/ \E k \in Sources, w \in Weights : AddSource(p, k, w)
    \/ \E k \in Dests, w \in Weights, src \in Sources : AddDest(p, k, w, src)

\* The scores after a report: only the one it is about can be lower, and only
\* by a negative weight.
LEMMA ScoresSet ==
    ASSUME ScoresTypeOK, NEW p \in Procs, Report(p)
    PROVE  /\ mem' \in [Procs -> Snapshots]
           /\ \A q \in Procs, j \in Keys :
                mem'[q][j].score < mem[q][j].score => q = p /\ Forgiving(p, j)
<1>0. mem \in [Procs -> Snapshots] /\ Weights \subseteq Int /\ Escalation \in Int
  BY WeightsType DEF ScoresTypeOK
<1>1. ASSUME NEW k \in Keys, NEW e \in Entries, mem' = [mem EXCEPT ![p][k] = e]
      PROVE  /\ mem' \in [Procs -> Snapshots] /\ mem'[p][k] = e
             /\ \A q \in Procs, j \in Keys : (q # p \/ j # k) => mem'[q][j] = mem[q][j]
  BY <1>0, <1>1 DEF Snapshots
<1>2. ASSUME NEW k \in Keys
      PROVE  mem[p][k] \in Entries /\ mem[p][k].score \in 0..100 /\ mem[p][k].seen \in SUBSET Sources
  BY <1>0 DEF Snapshots, Entries
<1>3. ASSUME NEW q \in Procs, NEW k \in Keys
      PROVE  mem[q][k].score \in 0..100
  BY <1>0 DEF Snapshots, Entries
<1>4. ASSUME NEW k \in Sources, NEW w \in Weights, AddSource(p, k, w)
      PROVE  /\ mem' \in [Procs -> Snapshots]
             /\ \A q \in Procs, j \in Keys :
                  mem'[q][j].score < mem[q][j].score => q = p /\ j = k /\ w < 0
  <2> DEFINE c == clampScore(mem[p][k].score + w)
             e == [mem[p][k] EXCEPT !.score = c]
  <2>1. k \in Keys /\ w \in Int
    BY <1>0 DEF Keys
  <2>2. mem' = [mem EXCEPT ![p][k] = e]
    BY <1>0, <1>4, <2>1 DEF AddSource, Snapshots
  <2>3. mem[p][k].score \in 0..100
    BY <1>2, <2>1
  <2>4. c \in 0..100 /\ (w >= 0 => c >= mem[p][k].score)
    BY <2>1, <2>3, ClampRaises
  <2> HIDE DEF c
  <2>5. e \in Entries /\ e.score = c
    BY <1>2, <2>1, <2>4 DEF Entries
  <2> HIDE DEF e
  <2>6. /\ mem' \in [Procs -> Snapshots] /\ mem'[p][k] = e
        /\ \A q \in Procs, j \in Keys : (q # p \/ j # k) => mem'[q][j] = mem[q][j]
    BY <1>1, <2>1, <2>2, <2>5
  <2> QED
    BY <1>3, <2>1, <2>3, <2>4, <2>5, <2>6, SMTT(30)
<1>5. ASSUME NEW k \in Dests, NEW w \in Weights, NEW src \in Sources, AddDest(p, k, w, src)
      PROVE  /\ mem' \in [Procs -> Snapshots]
             /\ \A q \in Procs, j \in Keys :
                  mem'[q][j].score < mem[q][j].score =>
                      q = p /\ j = k /\ (w < 0 \/ Escalation < 0)
  <2> DEFINE b == clampScore(mem[p][k].score + w)
             c == IF src \in mem[p][k].seen THEN b ELSE clampScore(b + Escalation)
             e == [score |-> c, seen |-> mem[p][k].seen \cup {src}]
  <2>1. k \in Keys /\ w \in Int
    BY <1>0 DEF Keys
  <2>2. mem' = [mem EXCEPT ![p][k] = e]
    BY <1>5 DEF AddDest
  <2>3. b \in 0..100 /\ (w >= 0 => b >= mem[p][k].score)
    BY <1>2, <2>1, ClampRaises
  <2> HIDE DEF b
  <2>4. c \in 0..100 /\ (Escalation >= 0 => c >= b)
    BY <1>0, <2>3, ClampRaises
  <2> HIDE DEF c
  <2>5. e \in Entries /\ e.score = c
    BY <1>2, <2>1, <2>4 DEF Entries
  <2> HIDE DEF e
  <2>s. mem[p][k].score \in 0..100
    BY <1>2, <2>1
  <2>6. w >= 0 /\ Escalation >= 0 => c >= mem[p][k].score
    BY <2>3, <2>4, <2>s
  <2>7. /\ mem' \in [Procs -> Snapshots] /\ mem'[p][k] = e
        /\ \A q \in Procs, j \in Keys : (q # p \/ j # k) => mem'[q][j] = mem[q][j]
    BY <1>1, <2>1, <2>2, <2>5
  <2> QED
    BY <1>0, <1>3, <2>1, <2>4, <2>5, <2>6, <2>7, <2>s, SMTT(30)
<1>6. CASE \E k \in Sources, w \in Weights : AddSource(p, k, w)
  BY <1>4, <1>6 DEF Forgiving
<1>7. CASE \E k \in Dests, w \in Weights, src \in Sources : AddDest(p, k, w, src)
  BY <1>5, <1>7 DEF Forgiving
<1> QED
  BY <1>6, <1>7 DEF Report

\* A tick's decay and eviction keep the types; an eviction leaves an entry as it
\* is, or makes one below 5 a new one.
LEMMA ScoresTick ==
    ASSUME ScoresTypeOK, NEW p \in Procs
    PROVE  /\ \A delta \in Decays : Decay(p, delta) => mem' \in [Procs -> Snapshots]
           /\ \A old \in SUBSET Keys : Evict(p, old) =>
                /\ mem' \in [Procs -> Snapshots]
                /\ \A q \in Procs, k \in Keys :
                     \/ mem'[q][k] = mem[q][k]
                     \/ mem[q][k].score < 5 /\ mem'[q][k].score = 0
<1>0. mem \in [Procs -> Snapshots] /\ Decays \subseteq Nat
  BY WeightsType DEF ScoresTypeOK
<1>1. ASSUME NEW k \in Keys
      PROVE  mem[p][k] \in Entries /\ mem[p][k].score \in 0..100 /\ mem[p][k].seen \in SUBSET Sources
  BY <1>0 DEF Snapshots, Entries
<1>2. ASSUME NEW delta \in Decays, Decay(p, delta) PROVE mem' \in [Procs -> Snapshots]
  <2> DEFINE m == [k \in Keys |-> Decayed(mem[p][k], delta)]
  <2>1. mem' = [mem EXCEPT ![p] = m]
    BY <1>2 DEF Decay
  <2>2. ASSUME NEW k \in Keys PROVE Decayed(mem[p][k], delta) \in Entries
    <3> DEFINE c == clampScore(mem[p][k].score - delta)
    <3>1. mem[p][k].score - delta = mem[p][k].score + (0 - delta) /\ 0 - delta \in Int
      BY <1>0, <1>1
    <3>2. c \in 0..100
      BY <1>1, <3>1, ClampRaises
    <3> HIDE DEF c
    <3>3. [mem[p][k] EXCEPT !.score = c] \in Entries
      BY <1>1, <3>2 DEF Entries
    <3> QED
      BY <3>3 DEF c, Decayed
  <2>3. m \in Snapshots
    BY <2>2 DEF Snapshots
  <2> HIDE DEF m
  <2> QED
    BY <1>0, <2>1, <2>3
<1>3. ASSUME NEW old \in SUBSET Keys, Evict(p, old)
      PROVE  /\ mem' \in [Procs -> Snapshots]
             /\ \A q \in Procs, k \in Keys :
                  \/ mem'[q][k] = mem[q][k]
                  \/ mem[q][k].score < 5 /\ mem'[q][k].score = 0
  <2> DEFINE e(k) == IF k \in old /\ Evictable(mem[p][k]) THEN NoScores[k] ELSE mem[p][k]
             m == [k \in Keys |-> e(k)]
  <2>1. mem' = [mem EXCEPT ![p] = m]
    BY <1>3 DEF Evict
  <2>2. ASSUME NEW k \in Keys
        PROVE  e(k) \in Entries /\ (e(k) = mem[p][k] \/ (mem[p][k].score < 5 /\ e(k).score = 0))
    BY <1>1, NoScoresType DEF Evictable, NoScores, Snapshots
  <2>3. m \in Snapshots
    BY <2>2 DEF Snapshots
  <2>4. \A k \in Keys : m[k] = mem[p][k] \/ (mem[p][k].score < 5 /\ m[k].score = 0)
    BY <2>2
  <2> HIDE DEF m
  <2>5. mem'[p] = m /\ \A q \in Procs : q # p => mem'[q] = mem[q]
    BY <1>0, <2>1
  <2> QED
    BY <1>0, <2>1, <2>3, <2>4, <2>5
<1> QED
  BY <1>2, <1>3

\* The steps of a save, and of the process, leave the scores in memory alone, or
\* the process does not run before or after them.
LEMMA ScoresElse ==
    ASSUME ScoresTypeOK, NEW p \in Procs,
           \/ StopSave(p) \/ SaveStep(p) \/ Shutdown(p) \/ MainReturns(p)
           \/ Crash(p) \/ Restart(p)
    PROVE  /\ mem' \in [Procs -> Snapshots]
           /\ \A q \in Procs : up[q] /\ up'[q] => mem'[q] = mem[q]
<1>0. mem \in [Procs -> Snapshots] /\ up \in [Procs -> BOOLEAN] /\ store \in Files
  BY DEF ScoresTypeOK
<1>1. CASE StopSave(p) \/ SaveStep(p) \/ Shutdown(p)
  BY <1>0, <1>1 DEF StopSave, SaveStep, Shutdown, Marshal, CreateTmp, WriteTmp,
                    WriteError, Rename
<1>2. CASE MainReturns(p) \/ Crash(p)
  <2>1. up' = [up EXCEPT ![p] = FALSE] /\ mem' = [mem EXCEPT ![p] = NoScores]
    BY <1>2 DEF MainReturns, Crash, Down
  <2> QED
    BY <1>0, <2>1, NoScoresType
<1>3. CASE Restart(p)
  <2>1. Loaded \in Snapshots
    BY <1>0, NoScoresType DEF Loaded, Files
  <2>2. ~up[p] /\ mem' = [mem EXCEPT ![p] = Loaded]
    BY <1>3 DEF Restart
  <2> QED
    BY <1>0, <2>1, <2>2
<1> QED
  BY <1>1, <1>2, <1>3

\* A higher score is in no lower tier, whatever the order of the thresholds.
LEMMA TierMonotone ==
    ASSUME NEW s \in Int, NEW t \in Int, s <= t
    PROVE  Tier(t) >= Tier(s)
<1>1. Warn \in Nat /\ Throttle \in Nat /\ Strict \in Nat
  BY ThresholdsType
<1> QED
  BY <1>1 DEF Tier

\* A score below 5 is in no tier if no threshold is 1 to 4.
LEMMA TierBelow ==
    ASSUME {Warn, Throttle, Strict} \cap (1..4) = {}, NEW s \in Int, s < 5
    PROVE  Tier(s) = 0 /\ Tier(0) = 0
<1>1. Warn \in Nat /\ Throttle \in Nat /\ Strict \in Nat
  BY ThresholdsType
<1>2. Warn \notin 1..4 /\ Throttle \notin 1..4 /\ Strict \notin 1..4
  OBVIOUS
<1>3. (Warn = 0 \/ Warn >= 5) /\ (Throttle = 0 \/ Throttle >= 5) /\ (Strict = 0 \/ Strict >= 5)
  BY <1>1, <1>2
<1> QED
  BY <1>1, <1>3 DEF Tier

\* The goroutine's state after each step of it.
LEMMA SaveSteps ==
    ASSUME ScoresTypeOK, NEW p \in Procs
    PROVE  /\ Idle \in SaveStates /\ Idle.pc = "idle"
           /\ AfterSave(p) \in SaveStates /\ AfterSave(p).pc \in {"idle", "returned"}
           /\ \A d \in {"evict", "marshal", "rename"} : Go(p, d) =>
                maint' \in [Procs -> SaveStates] /\ maint'[p].pc = d /\ maint'[p].data = maint[p].data
           /\ StopSave(p) => maint' \in [Procs -> SaveStates] /\ maint'[p].pc = "marshal"
           /\ Marshal(p) => maint' \in [Procs -> SaveStates] /\ maint'[p].pc = "create"
           /\ CreateTmp(p) => /\ maint' \in [Procs -> SaveStates] /\ maint'[p].pc = "write"
                                 /\ maint'[p].fd = "tmp"
<1>0. maint \in [Procs -> SaveStates] /\ maint[p] \in SaveStates /\ mem[p] \in Snapshots
  BY DEF ScoresTypeOK
<1>1. Idle \in SaveStates /\ Idle.pc = "idle"
  BY NoScoresType DEF Idle, SaveStates
<1>2. AfterSave(p) \in SaveStates /\ AfterSave(p).pc \in {"idle", "returned"}
  BY <1>1 DEF AfterSave, SaveStates
<1>3. ASSUME NEW d \in {"evict", "marshal", "rename"}, Go(p, d)
      PROVE  maint' \in [Procs -> SaveStates] /\ maint'[p].pc = d /\ maint'[p].data = maint[p].data
  BY <1>0, <1>3 DEF Go, SaveStates
<1>4. ASSUME NEW e \in SaveStates, maint' = [maint EXCEPT ![p] = e]
      PROVE  maint' \in [Procs -> SaveStates] /\ maint'[p] = e
  BY <1>0, <1>4
<1>5. ASSUME StopSave(p)
      PROVE  maint' \in [Procs -> SaveStates] /\ maint'[p].pc = "marshal"
  <2> DEFINE e == [maint[p] EXCEPT !.pc = "marshal", !.last = TRUE]
  <2>1. e \in SaveStates /\ e.pc = "marshal"
    BY <1>0, ZenonT(30) DEF SaveStates
  <2>2. maint' = [maint EXCEPT ![p] = e]
    BY <1>5 DEF StopSave
  <2> HIDE DEF e
  <2> QED
    BY <1>4, <2>1, <2>2
<1>6. ASSUME Marshal(p)
      PROVE  maint' \in [Procs -> SaveStates] /\ maint'[p].pc = "create"
  <2> DEFINE d == mem[p]
  <2> DEFINE e == [maint[p] EXCEPT !.pc = "create", !.data = d]
  <2>2. maint' = [maint EXCEPT ![p] = e]
    BY <1>6 DEF Marshal
  <2>3. d \in Snapshots
    BY <1>0
  <2> HIDE DEF d
  <2>1. e \in SaveStates /\ e.pc = "create"
    BY <1>0, <2>3, ZenonT(30) DEF SaveStates
  <2> HIDE DEF e
  <2> QED
    BY <1>4, <2>1, <2>2
<1>7. ASSUME CreateTmp(p)
      PROVE  /\ maint' \in [Procs -> SaveStates] /\ maint'[p].pc = "write"
             /\ maint'[p].fd = "tmp"
  <2> DEFINE e == [maint[p] EXCEPT !.pc = "write", !.fd = "tmp"]
  <2>1. e \in SaveStates /\ e.pc = "write" /\ e.fd = "tmp"
    BY <1>0, ZenonT(30) DEF SaveStates
  <2>2. maint' = [maint EXCEPT ![p] = e]
    BY <1>7 DEF CreateTmp
  <2> HIDE DEF e
  <2> QED
    BY <1>4, <2>1, <2>2
<1> QED
  BY <1>1, <1>2, <1>3, <1>5, <1>6, <1>7

\* A step of one process, as Next gives it.
ProcStep(p) ==
    \/ Report(p)
    \/ \E delta \in Decays : Decay(p, delta)
    \/ \E old \in SUBSET Keys : Evict(p, old)
    \/ StopSave(p) \/ SaveStep(p)
    \/ Shutdown(p) \/ MainReturns(p) \/ Crash(p) \/ Restart(p)

\* One process takes every step.
LEMMA StepOfProcess == ReputationNext => \E p \in Procs : ProcStep(p)
<1> SUFFICES ASSUME ReputationNext PROVE \E p \in Procs : ProcStep(p)
  OBVIOUS
<1>1. PICK p \in Procs :
        \/ (\E k \in Sources, w \in Weights : AddSource(p, k, w))
           \/ (\E k \in Dests, w \in Weights, src \in Sources : AddDest(p, k, w, src))
        \/ \E delta \in Decays : Decay(p, delta)
        \/ \E old \in SUBSET Keys : Evict(p, old)
        \/ StopSave(p) \/ SaveStep(p)
        \/ Shutdown(p) \/ MainReturns(p) \/ Crash(p) \/ Restart(p)
  BY Zenon DEF ReputationNext
<1>2. CASE \/ \E k \in Sources, w \in Weights : AddSource(p, k, w)
           \/ \E k \in Dests, w \in Weights, src \in Sources : AddDest(p, k, w, src)
  <2>1. Report(p)
    BY <1>2, Zenon DEF Report
  <2> QED
    BY <2>1, Zenon DEF ProcStep
<1> QED
  BY <1>1, <1>2, Zenon DEF ProcStep

\* Every step keeps the types.
LEMMA ScoresTypeStep ==
    ASSUME ScoresTypeOK, NEW p \in Procs, ProcStep(p)
    PROVE  ScoresTypeOK'
<1>0. /\ up \in [Procs -> BOOLEAN] /\ maint \in [Procs -> SaveStates]
      /\ tmp \in Files /\ store \in Files /\ saved \in Snapshots
  BY DEF ScoresTypeOK
<1>f. Torn \in Files /\ Absent \in Files
      /\ \A d \in Snapshots : File("full", d) \in Files
  BY NoScoresType DEF Torn, Absent, File, Files
<1>m. mem' \in [Procs -> Snapshots]
  BY ScoresSet, ScoresTick, ScoresElse DEF ProcStep
<1>1. ASSUME UNCHANGED <<tmp, store, saved>>, up' \in [Procs -> BOOLEAN],
             maint' \in [Procs -> SaveStates]
      PROVE  ScoresTypeOK'
  BY <1>0, <1>1, <1>m DEF ScoresTypeOK
<1>2. CASE \/ Report(p)
           \/ Shutdown(p)
  BY <1>0, <1>1, <1>2 DEF Report, AddSource, AddDest, Shutdown
<1>3. CASE \/ \E delta \in Decays : Decay(p, delta)
           \/ \E old \in SUBSET Keys : Evict(p, old)
  BY <1>0, <1>1, <1>3, SaveSteps DEF Decay, Evict
<1>4. CASE StopSave(p) \/ Marshal(p)
  BY <1>0, <1>1, <1>4, SaveSteps DEF StopSave, Marshal
<1>5. CASE CreateTmp(p)
  <2>1. maint' \in [Procs -> SaveStates] /\ tmp' \in Files /\ UNCHANGED <<up, store, saved>>
    BY <1>5, <1>f, SaveSteps DEF CreateTmp
  <2> QED
    BY <1>0, <1>m, <2>1 DEF ScoresTypeOK
<1>6. CASE WriteTmp(p)
  <2>1. maint[p].data \in Snapshots
    BY <1>0 DEF SaveStates
  <2>2. \A f : \A g \in Written(f, maint[p].data) : g \in Files
    BY <1>f, <2>1 DEF Written
  <2>3. tmp' \in Files /\ store' \in Files /\ UNCHANGED <<up, saved>>
    BY <1>0, <1>6, <2>2 DEF WriteTmp
  <2>4. maint' \in [Procs -> SaveStates]
    BY <1>6, SaveSteps DEF WriteTmp
  <2> QED
    BY <1>0, <1>m, <2>3, <2>4 DEF ScoresTypeOK
<1>7. CASE WriteError(p)
  BY <1>0, <1>1, <1>7, SaveSteps DEF WriteError
<1>8. CASE Rename(p)
  <2>1. maint[p].data \in Snapshots /\ \A q \in Procs : maint[q].fd \in {"none", "tmp", "store", "gone"}
    BY <1>0 DEF SaveStates
  <2>2. \A q \in Procs : [maint[q] EXCEPT !.fd = RenamedFd(@)] \in SaveStates
    BY <1>0, <2>1 DEF SaveStates, RenamedFd
  <2>3. maint' \in [Procs -> SaveStates]
    BY <1>0, <1>8, <2>2, SaveSteps DEF Rename
  <2>4. tmp' \in Files /\ store' \in Files /\ saved' \in Snapshots /\ UNCHANGED up
    BY <1>0, <1>8, <1>f, <2>1 DEF Rename
  <2> QED
    BY <1>0, <1>m, <2>3, <2>4 DEF ScoresTypeOK
<1>9. CASE MainReturns(p) \/ Crash(p)
  BY <1>0, <1>1, <1>9, SaveSteps DEF MainReturns, Crash, Down
<1>10. CASE Restart(p)
  BY <1>0, <1>1, <1>10 DEF Restart
<1> QED
  BY <1>2, <1>3, <1>4, <1>5, <1>6, <1>7, <1>8, <1>9, <1>10 DEF ProcStep, SaveStep

\* Before the first request nobody has a score and nothing was saved.
LEMMA ScoresInit == ReputationInit => ScoresTypeOK /\ \A p \in Procs : maint[p].pc = "idle"
<1> SUFFICES ASSUME ReputationInit PROVE ScoresTypeOK /\ \A p \in Procs : maint[p].pc = "idle"
  OBVIOUS
<1>1. Idle \in SaveStates /\ Idle.pc = "idle" /\ Absent \in Files
  BY NoScoresType DEF Idle, Absent, File, SaveStates, Files
<1>2. /\ mem = [p \in Procs |-> NoScores] /\ up = [p \in Procs |-> TRUE]
      /\ maint = [p \in Procs |-> Idle] /\ tmp = Absent /\ store = Absent
      /\ saved = NoScores
  BY DEF ReputationInit
<1> QED
  BY <1>1, <1>2, NoScoresType DEF ScoresTypeOK

\* While a process runs, a tier falls only by decay or by a report with a
\* negative weight about this very key, for any number of processes on the store
\* and any weights, provided no threshold is from 1 to 4 (Evict clears entries
\* below 5): those of the repository's configurations are 10 and more.
THEOREM TierFallsOnlyByDecay ==
    ASSUME {Warn, Throttle, Strict} \cap (1..4) = {}
    PROVE  ReputationSpec => TierFallsByDecay
<1> DEFINE Kept == \A p \in Procs, k \in Keys :
                      up[p] /\ up'[p] /\ Tier(mem'[p][k].score) < Tier(mem[p][k].score) =>
                          (\E delta \in Decays : Decay(p, delta)) \/ Forgiving(p, k)
<1>1. ScoresTypeOK /\ [ReputationNext]_reputationVars => ScoresTypeOK' /\ [Kept]_reputationVars
  <2> SUFFICES ASSUME ScoresTypeOK, [ReputationNext]_reputationVars
               PROVE  ScoresTypeOK' /\ [Kept]_reputationVars
    OBVIOUS
  <2>1. CASE UNCHANGED reputationVars
    BY <2>1 DEF reputationVars, ScoresTypeOK
  <2>2. CASE ReputationNext
    <3>1. PICK p \in Procs : ProcStep(p)
      BY <2>2, StepOfProcess
    <3>2. ScoresTypeOK'
      BY <3>1, ScoresTypeStep
    <3>3. ASSUME NEW q \in Procs, NEW k \in Keys
          PROVE  mem[q][k].score \in 0..100 /\ mem'[q][k].score \in 0..100
      <4>1. mem \in [Procs -> Snapshots] /\ mem' \in [Procs -> Snapshots]
        BY <3>2 DEF ScoresTypeOK
      <4> QED
        BY <4>1 DEF Snapshots, Entries
    <3>4. ASSUME NEW q \in Procs, NEW k \in Keys,
                 \/ mem'[q][k].score >= mem[q][k].score
                 \/ mem[q][k].score < 5 /\ mem'[q][k].score = 0
          PROVE  Tier(mem'[q][k].score) >= Tier(mem[q][k].score)
      <4>0. mem[q][k].score \in Int /\ mem'[q][k].score \in Int
        BY <3>3, SMTT(30)
      <4>1. CASE mem'[q][k].score >= mem[q][k].score
        BY <4>0, <4>1, TierMonotone
      <4>2. CASE mem[q][k].score < 5 /\ mem'[q][k].score = 0
        <5>1. Tier(mem[q][k].score) = 0 /\ Tier(0) = 0
          BY <4>0, <4>2, TierBelow
        <5> QED
          BY <4>2, <5>1
      <4> QED
        BY <3>4, <4>1, <4>2
    <3>5. Kept
      <4>0. \A q \in Procs, k \in Keys : Tier(mem'[q][k].score) \in Int /\ Tier(mem[q][k].score) \in Int
        BY DEF Tier
      <4>k. ASSUME NEW q \in Procs, NEW k \in Keys, Tier(mem'[q][k].score) >= Tier(mem[q][k].score)
            PROVE  ~(Tier(mem'[q][k].score) < Tier(mem[q][k].score))
        BY <4>0, <4>k
      <4>1. CASE Report(p)
        <5>1. ASSUME NEW q \in Procs, NEW k \in Keys, ~(q = p /\ Forgiving(p, k))
              PROVE  mem'[q][k].score >= mem[q][k].score
          <6>1. ~(mem'[q][k].score < mem[q][k].score)
            BY <4>1, <5>1, ScoresSet
          <6>2. mem'[q][k].score \in Int /\ mem[q][k].score \in Int
            BY <3>3, SMTT(30)
          <6> QED
            BY <6>1, <6>2
        <5> QED
          BY <3>4, <4>k, <5>1
      <4>2. CASE \E delta \in Decays : Decay(p, delta)
        <5>1. \A q \in Procs : q # p => mem'[q] = mem[q]
          BY <4>2 DEF Decay, ScoresTypeOK
        <5>2. ASSUME NEW q \in Procs, NEW k \in Keys, q # p
              PROVE  Tier(mem'[q][k].score) >= Tier(mem[q][k].score)
          <6>1. mem'[q][k].score >= mem[q][k].score
            BY <3>3, <5>1, <5>2
          <6> QED
            BY <3>4, <6>1
        <5> QED
          BY <4>2, <4>k, <5>2
      <4>3. CASE \E old \in SUBSET Keys : Evict(p, old)
        <5>1. \A q \in Procs, k \in Keys :
                 \/ mem'[q][k] = mem[q][k]
                 \/ mem[q][k].score < 5 /\ mem'[q][k].score = 0
          BY <4>3, ScoresTick
        <5>2. \A q \in Procs, k \in Keys :
                 \/ mem'[q][k].score >= mem[q][k].score
                 \/ mem[q][k].score < 5 /\ mem'[q][k].score = 0
          BY <3>3, <5>1
        <5> QED
          BY <3>4, <4>k, <5>2
      <4>4. CASE \/ StopSave(p) \/ SaveStep(p) \/ Shutdown(p) \/ MainReturns(p)
                 \/ Crash(p) \/ Restart(p)
        <5>1. \A q \in Procs : up[q] /\ up'[q] => mem'[q] = mem[q]
          BY <4>4, ScoresElse
        <5> QED
          BY <3>3, <3>4, <4>k, <5>1
      <4> QED
        BY <3>1, <4>1, <4>2, <4>3, <4>4 DEF ProcStep
    <3> QED
      BY <3>2, <3>5
  <2> QED
    BY <2>1, <2>2
<1>2. ReputationInit => ScoresTypeOK
  BY ScoresInit
<1> QED
  BY <1>1, <1>2, PTL DEF ReputationSpec, TierFallsByDecay, Kept

\* The store holds what the last save that succeeded had marshalled; between
\* its creation and its write the temporary file is torn, and before the rename
\* it is whole.
StoreInv ==
    /\ Loaded = saved
    /\ \A p \in Procs :
         /\ maint[p].pc = "write" => tmp = Torn /\ maint[p].fd = "tmp"
         /\ maint[p].pc = "rename" => tmp = File("full", maint[p].data)

\* With one process on the store, every step keeps that.
LEMMA StoreStep ==
    ASSUME \A p, q \in Procs : p = q, ScoresTypeOK, StoreInv,
           NEW p \in Procs, ProcStep(p)
    PROVE  StoreInv' /\ (~up[p] /\ up'[p] => mem'[p] = saved)
<1>0. /\ maint \in [Procs -> SaveStates] /\ Loaded = saved
      /\ maint[p].pc = "write" => tmp = Torn /\ maint[p].fd = "tmp"
      /\ maint[p].pc = "rename" => tmp = File("full", maint[p].data)
      /\ mem \in [Procs -> Snapshots] /\ up \in [Procs -> BOOLEAN]
  BY DEF StoreInv, ScoresTypeOK
<1>1. ASSUME UNCHANGED <<tmp, store, saved>>, maint'[p].pc \notin {"write", "rename"} \/ maint' = maint
      PROVE  StoreInv'
  <2>1. Loaded' = saved'
    BY <1>0, <1>1 DEF Loaded
  <2> QED
    BY <1>0, <1>1, <2>1 DEF StoreInv
<1>2. CASE \/ Report(p)
           \/ Shutdown(p)
  BY <1>1, <1>2 DEF Report, AddSource, AddDest, Shutdown
<1>3. CASE \/ \E delta \in Decays : Decay(p, delta)
           \/ \E old \in SUBSET Keys : Evict(p, old)
  BY <1>1, <1>3, SaveSteps DEF Decay, Evict
<1>4. CASE StopSave(p) \/ Marshal(p)
  BY <1>1, <1>4, SaveSteps DEF StopSave, Marshal
<1>5. CASE CreateTmp(p)
  <2>1. maint'[p].pc = "write" /\ maint'[p].fd = "tmp" /\ tmp' = Torn /\ UNCHANGED <<up, store, saved>>
    BY <1>5, SaveSteps DEF CreateTmp
  <2>2. Loaded' = saved'
    BY <1>0, <2>1 DEF Loaded
  <2> QED
    BY <2>1, <2>2 DEF StoreInv, Torn
<1>6. CASE WriteTmp(p)
  <2>1. /\ maint[p].pc = "write" /\ maint'[p].pc = "rename" /\ maint'[p].data = maint[p].data
        /\ UNCHANGED <<up, saved>>
    BY <1>6, SaveSteps DEF WriteTmp, At
  <2>2. tmp = Torn /\ maint[p].fd = "tmp"
    BY <1>0, <2>1
  <2>3. Written(tmp, maint[p].data) = {File("full", maint[p].data)}
    BY <2>2 DEF Written, Torn, File
  <2>4. tmp' = File("full", maint[p].data) /\ store' = store
    BY <1>6, <2>2, <2>3 DEF WriteTmp
  <2>5. Loaded' = saved'
    BY <1>0, <2>1, <2>4 DEF Loaded
  <2> QED
    BY <2>1, <2>4, <2>5 DEF StoreInv, File
<1>7. CASE WriteError(p)
  <2>1. UNCHANGED <<tmp, store, saved, up>> /\ maint'[p] = AfterSave(p)
    BY <1>0, <1>7 DEF WriteError
  <2> QED
    BY <1>1, <2>1, SaveSteps
<1>8. CASE Rename(p)
  <2>1. maint[p].pc = "rename" /\ UNCHANGED up /\ maint'[p] = AfterSave(p)
    BY <1>8 DEF Rename, At
  <2>2. tmp = File("full", maint[p].data)
    BY <1>0, <2>1
  <2>3. tmp.kind = "full" /\ tmp.data = maint[p].data
    BY <2>2 DEF File
  <2>4. store' = tmp /\ saved' = maint[p].data
    BY <1>8, <2>3 DEF Rename
  <2>5. Loaded' = saved'
    BY <2>3, <2>4 DEF Loaded
  <2> QED
    BY <2>1, <2>5, SaveSteps DEF StoreInv
<1>9. CASE MainReturns(p) \/ Crash(p)
  <2>1. maint'[p] = Idle /\ UNCHANGED <<tmp, store, saved>> /\ up'[p] = FALSE
    BY <1>0, <1>9 DEF MainReturns, Crash, Down
  <2> QED
    BY <1>1, <2>1, SaveSteps
<1>10. CASE Restart(p)
  <2>1. UNCHANGED <<maint, tmp, store, saved>> /\ mem'[p] = Loaded
    BY <1>0, <1>10 DEF Restart
  <2> QED
    BY <1>0, <1>1, <2>1
<1> QED
  BY <1>2, <1>3, <1>4, <1>5, <1>6, <1>7, <1>8, <1>9, <1>10 DEF ProcStep, SaveStep

\* A process that is alone on its store and starts again, after a crash, an
\* exit or a failed write between any two steps of a save, has the scores of
\* the last save that succeeded.
THEOREM RestartHasLastSave ==
    ASSUME \A p, q \in Procs : p = q
    PROVE  ReputationSpec => RestartRestores
<1> DEFINE Restored == \A p \in Procs : ~up[p] /\ up'[p] => mem'[p] = saved
           Inv == ScoresTypeOK /\ StoreInv
<1>1. ReputationInit => Inv
  <2> SUFFICES ASSUME ReputationInit PROVE StoreInv
    BY ScoresInit
  <2>1. store = Absent /\ saved = NoScores
    BY DEF ReputationInit
  <2>2. Loaded = saved
    BY <2>1 DEF Loaded, Absent, File
  <2> QED
    BY <2>2, ScoresInit DEF StoreInv
<1>2. Inv /\ [ReputationNext]_reputationVars => Inv' /\ [Restored]_reputationVars
  <2> SUFFICES ASSUME ScoresTypeOK, StoreInv, [ReputationNext]_reputationVars
               PROVE  Inv' /\ [Restored]_reputationVars
    OBVIOUS
  <2>1. CASE UNCHANGED reputationVars
    BY <2>1 DEF reputationVars, ScoresTypeOK, StoreInv, Loaded
  <2>2. CASE ReputationNext
    <3>1. PICK p \in Procs : ProcStep(p)
      BY <2>2, StepOfProcess
    <3>2. ScoresTypeOK'
      BY <3>1, ScoresTypeStep
    <3>3. StoreInv' /\ (~up[p] /\ up'[p] => mem'[p] = saved)
      BY <3>1, StoreStep
    <3> QED
      BY <3>2, <3>3
  <2> QED
    BY <2>1, <2>2
<1> QED
  BY <1>1, <1>2, PTL DEF ReputationSpec, RestartRestores, Restored
=============================================================================
