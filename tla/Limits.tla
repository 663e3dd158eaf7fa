------------------------------- MODULE Limits -------------------------------
(***************************************************************************)
(* What a source may do per unit of time: the number of its requests      *)
(* (SlidingWindow), the rate of its data (BandwidthLimiter), and the       *)
(* maintenance that forgets idle sources. Handlers and read loops of one   *)
(* source run concurrently; each reads the clock before it takes a         *)
(* limiter's lock. Time is in units in which a packet costs a whole number.*)
(* The address that stands for the source is the subject of ClientIP.      *)
(***************************************************************************)
EXTENDS Integers, FiniteSets, SequencesExt

CONSTANTS Callers,     \* goroutines that serve one source
          Limit, Window, WindowIdle,      \* a SlidingWindow and its Evict
          Burst, MaxCost, BandwidthIdle,  \* the BandwidthLimiter, its packets, its Evict
          MaxDelay,    \* bound: how long a runnable goroutine waits for a lock or the processor
          MaxTime      \* bound on the clock

\* The interval at which windows are forgotten, twice their length, leaves room for a caller that
\* was late to lock.
ASSUME LimitsAssumption ==
    /\ IsFiniteSet(Callers)
    /\ {Window, WindowIdle, Burst, MaxCost, BandwidthIdle, MaxDelay, MaxTime} \subseteq Nat
    /\ Limit \in Nat \ {0} /\ MaxDelay < Window
    /\ Window + MaxDelay <= WindowIdle

None == [start |-> -1, count |-> 0]

VARIABLES now,       \* the clock
          pc,        \* [Callers -> next step]
          at,        \* [Callers -> the time it has read, or when its timer is due]
          cost,      \* [Callers -> cost of the packet it waits for]
          entry,     \* the window entry of the source, or None; counts beyond Limit + 1 are alike
          bucket,    \* [next, lastSeen] of the source, -Burst when there is none
          allowed,   \* [Times -> how many requests were allowed then], within the last Window
          level,     \* packets passed beyond the rate so far
          forgotten  \* history: by how much the debts that Evict forgot were longer than its interval

vars == <<now, pc, at, cost, entry, bucket, allowed, level, forgotten>>

Times == 0..MaxTime
Max2(a, b) == IF a > b THEN a ELSE b
Min2(a, b) == IF a < b THEN a ELSE b
NoBucket == [next |-> -Burst, lastSeen |-> -Burst]

Init ==
    /\ now = 0
    /\ pc = [p \in Callers |-> "idle"]
    /\ at = [p \in Callers |-> 0]
    /\ cost = [p \in Callers |-> 0]
    /\ entry = None /\ bucket = NoBucket
    /\ allowed = [t \in Times |-> 0] /\ level = 0 /\ forgotten = 0

-----------------------------------------------------------------------------
(* SlidingWindow.                                                          *)

\* A request arrives; Allow reads the clock.
Arrive(p) ==
    /\ pc[p] = "idle"
    /\ at' = [at EXCEPT ![p] = now]
    /\ pc' = [pc EXCEPT ![p] = "allow"]
    /\ UNCHANGED <<now, cost, entry, bucket, allowed, level, forgotten>>

Expired(t) == t - entry.start >= Window
Starts(t) == entry = None \/ Expired(t)

\* Allow, under the lock.
Allow(p) ==
    /\ pc[p] = "allow"
    /\ entry' = IF Starts(at[p]) THEN [start |-> at[p], count |-> 1]
                ELSE [entry EXCEPT !.count = Min2(@ + 1, Limit + 1)]
    /\ at' = [at EXCEPT ![p] = 0]
    /\ LET ok == entry'.count <= Limit IN
         /\ pc' = [pc EXCEPT ![p] = IF ok THEN "open" ELSE "idle"]
         /\ allowed' = IF ok THEN [allowed EXCEPT ![now] = @ + 1] ELSE allowed
    /\ UNCHANGED <<now, cost, bucket, level, forgotten>>

WindowEvictableIdle(e) == e.start < now
WindowEvictable(e) == e.start < now - WindowIdle

EvictWindow ==
    /\ entry # None /\ WindowEvictable(entry)
    /\ entry' = None
    /\ UNCHANGED <<now, pc, at, cost, bucket, allowed, level, forgotten>>

-----------------------------------------------------------------------------
(* BandwidthLimiter.                                                       *)

\* Wait is called with a packet and reads the clock.
Packet(p, c) ==
    /\ pc[p] = "open"
    /\ cost' = [cost EXCEPT ![p] = c]
    /\ at' = [at EXCEPT ![p] = now]
    /\ pc' = [pc EXCEPT ![p] = "reserve"]
    /\ UNCHANGED <<now, entry, bucket, allowed, level, forgotten>>

StartOf(t) == Max2(bucket.next, t - Burst)

\* Wait returns true.
Pass(p) ==
    /\ pc' = [pc EXCEPT ![p] = "open"]
    /\ level' = level + cost[p]
    /\ at' = [at EXCEPT ![p] = 0] /\ cost' = [cost EXCEPT ![p] = 0]

\* Wait, under the lock: reserve the time of the packet, and pass at once if it is over.
Reserve(p) ==
    /\ pc[p] = "reserve"
    /\ LET finish == StartOf(at[p]) + cost[p] IN
         /\ bucket' = [next |-> finish, lastSeen |-> at[p]]
         /\ IF finish <= now THEN Pass(p)
            ELSE /\ pc' = [pc EXCEPT ![p] = "sleep"]
                 /\ at' = [at EXCEPT ![p] = finish]
                 /\ UNCHANGED <<cost, level>>
    /\ UNCHANGED <<now, entry, allowed, forgotten>>

\* The timer of Wait.
Wake(p) ==
    /\ pc[p] = "sleep" /\ now >= at[p]
    /\ Pass(p)
    /\ UNCHANGED <<now, entry, bucket, allowed, forgotten>>

\* The connection closes; a Wait in progress gives up and keeps its reservation.
Close(p) ==
    /\ pc[p] \in {"open", "sleep"}
    /\ pc' = [pc EXCEPT ![p] = "idle"]
    /\ at' = [at EXCEPT ![p] = 0] /\ cost' = [cost EXCEPT ![p] = 0]
    /\ UNCHANGED <<now, entry, bucket, allowed, level, forgotten>>

BucketEvictableSoon(b) == b.lastSeen < now
BucketEvictable(b) == b.lastSeen < now - BandwidthIdle

\* How much longer the debt was than the interval, less a burst and the delay of a caller.
Excess(b) == Max2(b.next - b.lastSeen - (BandwidthIdle - Burst - MaxDelay), 0)

EvictBandwidth ==
    /\ bucket # NoBucket /\ BucketEvictable(bucket)
    /\ bucket' = NoBucket
    /\ forgotten' = forgotten + Excess(bucket)
    /\ UNCHANGED <<now, pc, at, cost, entry, allowed, level>>

-----------------------------------------------------------------------------
\* Time passes, no further than a goroutine that can run may lag behind.
Tick ==
    /\ now < MaxTime
    /\ \A p \in Callers : pc[p] \in {"allow", "reserve", "sleep"} => now < at[p] + MaxDelay
    /\ now' = now + 1
    /\ allowed' = [t \in Times |-> IF t > now' - Window THEN allowed[t] ELSE 0]
    /\ level' = Max2(level - 1, 0)
    /\ UNCHANGED <<pc, at, cost, entry, bucket, forgotten>>

Next ==
    \/ \E p \in Callers : Arrive(p) \/ Allow(p) \/ Reserve(p) \/ Wake(p) \/ Close(p)
    \/ \E p \in Callers, c \in 1..MaxCost : Packet(p, c)
    \/ EvictWindow \/ EvictBandwidth \/ Tick

Spec == Init /\ [][Next]_vars

-----------------------------------------------------------------------------
(* Properties.                                                             *)

\* How many requests were allowed after time x.
AllowedAfter(x) == SumFunctionOnSet(allowed, {t \in Times : t > x})

\* However the callers interleave and whenever entries are evicted, the window allows no more
\* than twice its limit within any stretch of its length, less the delay of a caller.
WindowBound == AllowedAfter(now - (Window - MaxDelay)) <= 2 * Limit

\* The packets passed within any stretch of time cost no more than the stretch, one burst (or
\* one packet), the delay of a caller, and the debts Evict forgot as far as they were longer than
\* its interval: reservations of shorter debts do not overlap, not even after Evict.
RateBound == level <= MaxDelay + Max2(Burst, MaxCost) + forgotten

=============================================================================
