---------------------------- MODULE LimitsProofs ----------------------------
(***************************************************************************)
(* The bounds the limiters keep, for every limit, window, burst and number *)
(* of goroutines of a source; and the address a request is counted under,  *)
(* for any headers and any way of the request through trusted proxies.     *)
(***************************************************************************)
EXTENDS Limits, ClientIP, SumTheorems, SequenceTheorems, TLAPS

-----------------------------------------------------------------------------
(* The inductive invariants.                                               *)

PCs == {"idle", "allow", "open", "reserve", "sleep"}

\* Types, and how far the clock may be ahead of the time a caller has read or
\* its timer is due.
TypeOK ==
    /\ now \in Times /\ pc \in [Callers -> PCs] /\ at \in [Callers -> Nat]
    /\ cost \in [Callers -> 0..MaxCost]
    /\ entry \in [start : Int, count : Nat] /\ bucket \in [next : Int, lastSeen : Int]
    /\ allowed \in [Times -> Nat] /\ level \in Nat /\ forgotten \in Nat

Punctual ==
    \A p \in Callers :
        /\ pc[p] \in {"allow", "reserve"} => at[p] <= now /\ now <= at[p] + MaxDelay
        /\ pc[p] = "sleep" => now <= at[p] + MaxDelay

\* What the entry says of the requests allowed: those after its first are counted in it, and
\* only one full entry lies less than a window before it.
WindowInv ==
    /\ \A t \in Times : t > now => allowed[t] = 0
    /\ entry = None => AllowedAfter(now - Window) <= Limit
    /\ entry # None =>
         /\ entry.start \in 0..now
         /\ AllowedAfter(entry.start + MaxDelay) <= Min2(entry.count, Limit)
         /\ AllowedAfter(entry.start - (Window - MaxDelay)) <= Limit + Min2(entry.count, Limit)

\* Callers whose timer is due between y and x, from y on, or by x, and what their packets cost.
Due(y, x) == {p \in Callers : pc[p] = "sleep" /\ y <= at[p] /\ at[p] <= x}
DueFrom(y) == {p \in Callers : pc[p] = "sleep" /\ y <= at[p]}
DueBy(x) == {p \in Callers : pc[p] = "sleep" /\ at[p] <= x}
Asleep == {p \in Callers : pc[p] = "sleep"}
Cost(S) == SumFunctionOnSet(cost, S)

\* The bound on the level, and the earliest time at which the next packet can start.
MaxLevel == MaxDelay + Max2(Burst, MaxCost) + forgotten
Horizon == Max2(bucket.next, now - MaxDelay - Burst)

\* Reservations do not overlap but for what was forgotten, so that the packets due between two
\* moments cost no more than the time between them and one packet, and those due from a moment
\* on no more than the time from there to the next start and one packet; with what has passed,
\* those due by a later moment, and all of them, stay within the rate.
RateInv ==
    /\ \A y \in Int : Cost(DueFrom(y)) <= Max2(0, Horizon - y + MaxCost) + forgotten
    /\ \A y \in Int : \A x \in Int : Cost(Due(y, x)) <= Max2(0, x - y + MaxCost) + forgotten
    /\ \A x \in Int : x >= now => level + Cost(DueBy(x)) <= MaxLevel + (x - now)
    /\ level + Cost(Asleep) <= MaxLevel + (Horizon - now)

-----------------------------------------------------------------------------
(* Types and the clock.                                                    *)

\* The constants one by one.
LEMMA Bounds ==
    /\ Window \in Nat /\ WindowIdle \in Nat /\ Burst \in Nat /\ MaxCost \in Nat
    /\ BandwidthIdle \in Nat /\ MaxDelay \in Nat /\ MaxTime \in Nat
    /\ Limit \in Nat /\ Limit >= 1 /\ MaxDelay < Window
    /\ Window + MaxDelay <= WindowIdle
BY LimitsAssumption

\* The larger of two numbers.
LEMMA Max2Facts ==
    ASSUME NEW a \in Int, NEW b \in Int
    PROVE  /\ Max2(a, b) \in Int /\ a <= Max2(a, b) /\ b <= Max2(a, b)
           /\ Max2(a, b) = a \/ Max2(a, b) = b
BY DEF Max2

\* The time until which Wait reserves.
Finish(p) == StartOf(at[p]) + cost[p]

\* What a reservation does.
LEMMA ReserveFacts ==
    ASSUME TypeOK, NEW p \in Callers, Reserve(p)
    PROVE  /\ Finish(p) \in Int
           /\ bucket' = [next |-> Finish(p), lastSeen |-> at[p]]
           /\ bucket.next + cost[p] <= Finish(p) /\ at[p] - Burst + cost[p] <= Finish(p)
           /\ \/ Finish(p) <= now /\ Pass(p)
              \/ /\ Finish(p) > now
                 /\ pc' = [pc EXCEPT ![p] = "sleep"] /\ at' = [at EXCEPT ![p] = Finish(p)]
                 /\ UNCHANGED <<cost, level>>
           /\ UNCHANGED <<now, entry, allowed, forgotten>> /\ pc[p] = "reserve"
<1>1. bucket.next \in Int /\ at[p] \in Nat /\ cost[p] \in Nat /\ now \in Int
  BY Bounds DEF TypeOK, Times
<1>2. /\ StartOf(at[p]) \in Int /\ bucket.next <= StartOf(at[p]) /\ at[p] - Burst <= StartOf(at[p])
  <2>1. at[p] - Burst \in Int
    BY <1>1, Bounds
  <2> QED
    BY <1>1, <2>1, Max2Facts DEF StartOf
<1>3. /\ Finish(p) \in Int
      /\ bucket.next + cost[p] <= Finish(p) /\ at[p] - Burst + cost[p] <= Finish(p)
  BY <1>1, <1>2, Bounds DEF Finish
<1>4. /\ bucket' = [next |-> Finish(p), lastSeen |-> at[p]]
      /\ IF Finish(p) <= now THEN Pass(p)
         ELSE /\ pc' = [pc EXCEPT ![p] = "sleep"] /\ at' = [at EXCEPT ![p] = Finish(p)]
              /\ UNCHANGED <<cost, level>>
      /\ UNCHANGED <<now, entry, allowed, forgotten>> /\ pc[p] = "reserve"
  BY DEF Reserve, Finish
<1> QED
  BY <1>1, <1>3, <1>4

\* What the return of Wait does.
LEMMA PassFacts ==
    ASSUME TypeOK, NEW p \in Callers, Pass(p)
    PROVE  /\ pc' \in [Callers -> PCs] /\ at' \in [Callers -> Nat] /\ cost' \in [Callers -> 0..MaxCost]
           /\ level' \in Nat /\ level' = level + cost[p] /\ pc'[p] = "open"
           /\ \A q \in Callers : q # p => pc'[q] = pc[q] /\ at'[q] = at[q] /\ cost'[q] = cost[q]
<1>1. cost[p] \in Nat
  BY Bounds DEF TypeOK
<1> QED
  BY <1>1, Bounds DEF Pass, TypeOK, PCs

\* Types are kept.
LEMMA TypeStep == TypeOK /\ [Next]_vars => TypeOK'
<1> SUFFICES ASSUME TypeOK, [Next]_vars PROVE TypeOK'
  OBVIOUS
<1>0. now \in Nat
  BY Bounds DEF TypeOK, Times
<1>1. ASSUME NEW p \in Callers, Arrive(p) PROVE TypeOK'
  BY <1>0, <1>1 DEF Arrive, TypeOK, PCs
<1>2. ASSUME NEW p \in Callers, Allow(p) PROVE TypeOK'
  <2> DEFINE new == [start |-> at[p], count |-> 1]
             more == [entry EXCEPT !.count = Min2(entry.count + 1, Limit + 1)]
             ok == entry'.count <= Limit
  <2>1. new \in [start : Int, count : Nat]
    BY DEF TypeOK
  <2>2. more \in [start : Int, count : Nat]
    <3>1. entry.count \in Nat
      BY DEF TypeOK
    <3> DEFINE m == Min2(entry.count + 1, Limit + 1)
    <3>2. m \in Nat
      BY <3>1, Bounds DEF Min2
    <3>3. more = [entry EXCEPT !.count = m]
      OBVIOUS
    <3> HIDE DEF m, more
    <3> QED
      BY <3>2, <3>3 DEF TypeOK
  <2>3. entry' = new \/ entry' = more
    BY <1>2 DEF Allow
  <2>4. entry' \in [start : Int, count : Nat]
    BY <2>1, <2>2, <2>3
  <2>5. /\ at' = [at EXCEPT ![p] = 0] /\ UNCHANGED <<now, cost, bucket, level, forgotten>>
        /\ pc' = [pc EXCEPT ![p] = IF ok THEN "open" ELSE "idle"]
        /\ allowed' = [allowed EXCEPT ![now] = allowed[now] + 1] \/ allowed' = allowed
    BY <1>2 DEF Allow
  <2>6. pc' \in [Callers -> PCs] /\ at' \in [Callers -> Nat]
    BY <2>5 DEF TypeOK, PCs
  <2>7. allowed' \in [Times -> Nat]
    <3>1. allowed[now] + 1 \in Nat /\ now \in Times
      BY DEF TypeOK
    <3> QED
      BY <2>5, <3>1 DEF TypeOK
  <2> QED
    BY <2>4, <2>5, <2>6, <2>7 DEF TypeOK
<1>3. ASSUME NEW p \in Callers, Reserve(p) PROVE TypeOK'
  <2>1. bucket' \in [next : Int, lastSeen : Int]
    <3>1. at[p] \in Int
      BY DEF TypeOK
    <3> QED
      BY <1>3, <3>1, ReserveFacts
  <2>2. CASE Pass(p)
    BY <1>3, <2>1, <2>2, PassFacts, ReserveFacts DEF TypeOK
  <2>3. CASE /\ Finish(p) > now
             /\ pc' = [pc EXCEPT ![p] = "sleep"] /\ at' = [at EXCEPT ![p] = Finish(p)]
             /\ UNCHANGED <<cost, level>>
    <3>1. Finish(p) \in Nat
      BY <1>0, <1>3, <2>3, ReserveFacts
    <3>2. pc' \in [Callers -> PCs] /\ at' \in [Callers -> Nat]
      BY <2>3, <3>1 DEF TypeOK, PCs
    <3> QED
      BY <1>3, <2>1, <2>3, <3>2, ReserveFacts DEF TypeOK
  <2> QED
    BY <1>3, <2>2, <2>3, ReserveFacts
<1>4. ASSUME NEW p \in Callers, Wake(p) PROVE TypeOK'
  BY <1>4, PassFacts DEF Wake, TypeOK
<1>5. ASSUME NEW p \in Callers, Close(p) PROVE TypeOK'
  BY <1>5, Bounds DEF Close, TypeOK, PCs
<1>6. ASSUME NEW p \in Callers, NEW c \in 1..MaxCost, Packet(p, c) PROVE TypeOK'
  BY <1>0, <1>6, Bounds DEF Packet, TypeOK, PCs
<1>7. CASE EvictWindow
  BY <1>7 DEF EvictWindow, None, TypeOK
<1>8. CASE EvictBandwidth
  <2>1. Excess(bucket) \in Nat
    BY Bounds DEF Excess, Max2, TypeOK
  <2>2. forgotten' \in Nat /\ NoBucket \in [next : Int, lastSeen : Int]
    BY <1>8, <2>1, Bounds DEF EvictBandwidth, NoBucket, TypeOK
  <2> QED
    BY <1>8, <2>2 DEF EvictBandwidth, TypeOK
<1>9. CASE Tick
  <2>1. now' \in Times
    BY <1>0, <1>9, Bounds DEF Tick, Times
  <2>2. allowed' \in [Times -> Nat]
    BY <1>9 DEF Tick, TypeOK
  <2>3. level' \in Nat
    BY <1>9 DEF Tick, TypeOK, Max2
  <2> QED
    BY <1>9, <2>1, <2>2, <2>3 DEF Tick, TypeOK
<1>10. CASE UNCHANGED vars
  BY <1>10 DEF vars, TypeOK
<1> QED
  BY <1>1, <1>2, <1>3, <1>4, <1>5, <1>6, <1>7, <1>8, <1>9, <1>10 DEF Next

\* No caller is later than MaxDelay.
LEMMA PunctualStep == TypeOK /\ Punctual /\ [Next]_vars => Punctual'
<1> SUFFICES ASSUME TypeOK, Punctual, [Next]_vars PROVE Punctual'
  OBVIOUS
<1>0. now \in Nat /\ at \in [Callers -> Nat] /\ pc \in [Callers -> PCs]
  BY Bounds DEF TypeOK, Times
<1>1. ASSUME NEW p \in Callers, Arrive(p) PROVE Punctual'
  BY <1>0, <1>1, Bounds DEF Arrive, Punctual
<1>2. ASSUME NEW p \in Callers, Allow(p) PROVE Punctual'
  <2> DEFINE next == IF entry'.count <= Limit THEN "open" ELSE "idle"
  <2>0. pc' = [pc EXCEPT ![p] = next] /\ next \in {"open", "idle"}
    BY <1>2 DEF Allow
  <2> HIDE DEF next
  <2>1. /\ now' = now /\ pc'[p] \in {"open", "idle"}
        /\ \A q \in Callers : q # p => pc'[q] = pc[q] /\ at'[q] = at[q]
    BY <1>0, <1>2, <2>0 DEF Allow
  <2> QED
    BY <2>1 DEF Punctual
<1>3. ASSUME NEW p \in Callers, Reserve(p) PROVE Punctual'
  <2>1. CASE Pass(p)
    BY <1>3, <2>1, PassFacts, ReserveFacts DEF Punctual
  <2>2. CASE /\ Finish(p) > now
             /\ pc' = [pc EXCEPT ![p] = "sleep"] /\ at' = [at EXCEPT ![p] = Finish(p)]
    <3>1. /\ now' = now /\ pc'[p] = "sleep" /\ at'[p] = Finish(p) /\ Finish(p) \in Int
          /\ \A q \in Callers : q # p => pc'[q] = pc[q] /\ at'[q] = at[q]
      BY <1>0, <1>3, <2>2, ReserveFacts
    <3>2. now <= Finish(p) + MaxDelay
      BY <1>0, <2>2, <3>1, Bounds
    <3> QED
      BY <3>1, <3>2 DEF Punctual
  <2> QED
    BY <1>3, <2>1, <2>2, ReserveFacts
<1>4. ASSUME NEW p \in Callers, Wake(p) PROVE Punctual'
  BY <1>4, PassFacts DEF Wake, Punctual
<1>5. ASSUME NEW p \in Callers, Close(p) PROVE Punctual'
  BY <1>0, <1>5 DEF Close, Punctual
<1>6. ASSUME NEW p \in Callers, NEW c \in 1..MaxCost, Packet(p, c) PROVE Punctual'
  BY <1>0, <1>6, Bounds DEF Packet, Punctual
<1>7. CASE EvictWindow \/ EvictBandwidth \/ UNCHANGED vars
  BY <1>7 DEF EvictWindow, EvictBandwidth, vars, Punctual
<1>8. CASE Tick
  BY <1>0, <1>8, Bounds DEF Tick, Punctual
<1> QED
  BY <1>1, <1>2, <1>3, <1>4, <1>5, <1>6, <1>7, <1>8 DEF Next

\* The clock starts at zero and nobody waits.
LEMMA TypeInit == Init => TypeOK /\ Punctual
<1> SUFFICES ASSUME Init PROVE TypeOK /\ Punctual
  OBVIOUS
<1>1. TypeOK
  BY Bounds DEF Init, TypeOK, Times, PCs, None, NoBucket
<1> QED
  BY <1>1 DEF Init, Punctual

-----------------------------------------------------------------------------
(* The sliding window.                                                     *)

\* The clock has finitely many readings.
LEMMA FiniteTimes == ASSUME NEW x PROVE IsFiniteSet({t \in Times : t > x})
<1>1. IsFiniteSet(Times)
  BY Bounds, FS_Interval DEF Times
<1> QED
  BY <1>1, FS_Subset

\* The requests of f after time x.
After(f, x) == SumFunctionOnSet(f, {t \in Times : t > x})

\* They become fewer as x grows.
LEMMA AfterFacts ==
    ASSUME NEW f \in [Times -> Nat], NEW x \in Int
    PROVE  /\ After(f, x) \in Nat
           /\ \A y \in Int : x <= y => After(f, y) <= After(f, x)
<1> DEFINE A(y) == {t \in Times : t > y}
<1>1. ASSUME NEW y \in Int PROVE IsFiniteSet(A(y)) /\ \A t \in A(y) : f[t] \in Nat
  BY FiniteTimes
<1>2. After(f, x) \in Nat
  BY <1>1, SumNat DEF After
<1>3. ASSUME NEW y \in Int, x <= y PROVE After(f, y) <= After(f, x)
  <2>1. A(y) \in SUBSET A(x)
    BY <1>3, Bounds DEF Times
  <2> QED
    BY <1>1, <2>1, SumMonotone DEF After
<1> QED
  BY <1>2, <1>3

\* What is forgotten makes no count larger.
LEMMA AfterSmaller ==
    ASSUME NEW f \in [Times -> Nat], NEW g \in [Times -> Nat], NEW x \in Int,
           \A t \in Times : g[t] <= f[t]
    PROVE  After(g, x) <= After(f, x)
<1> DEFINE A == {t \in Times : t > x}
<1>1. IsFiniteSet(A)
  BY FiniteTimes
<1>2. \A t \in A : g[t] \in Int /\ f[t] \in Int /\ g[t] <= f[t]
  OBVIOUS
<1>3. SumFunctionOnSet(g, A) <= SumFunctionOnSet(f, A)
  <2> HIDE DEF A
  <2> QED
    BY <1>1, <1>2, SumOrder
<1> QED
  BY <1>3 DEF After

\* One more request, at time n.
LEMMA AfterOneMore ==
    ASSUME NEW f \in [Times -> Nat], NEW g \in [Times -> Nat], NEW n \in Times, NEW x \in Int,
           g[n] = f[n] + 1, \A t \in Times : t # n => f[t] = g[t]
    PROVE  /\ n <= x => After(g, x) = After(f, x)
           /\ n > x => After(g, x) = After(f, x) + 1
<1> DEFINE A == {t \in Times : t > x}
<1>0. n \in Int /\ f[n] \in Int /\ g[n] - f[n] = 1
  BY Bounds DEF Times
<1>1. IsFiniteSet(A)
  BY FiniteTimes
<1>2. /\ \A t \in A : f[t] \in Int /\ g[t] \in Int
      /\ \A t \in A : t # n => f[t] = g[t]
  BY <1>0
<1>3. n \in A <=> n > x
  BY <1>0
<1> HIDE DEF A
<1>4. CASE n \in A
  <2>1. SumFunctionOnSet(g, A) = SumFunctionOnSet(f, A) + (g[n] - f[n])
    BY <1>1, <1>2, <1>4, SumChange
  <2> QED
    BY <1>0, <1>3, <1>4, <2>1 DEF After, A
<1>5. CASE n \notin A
  <2>1. SumFunctionOnSet(g, A) = SumFunctionOnSet(f, A)
    BY <1>1, <1>2, <1>5, SumChange
  <2> QED
    BY <1>0, <1>3, <1>5, <2>1 DEF After, A
<1> QED
  BY <1>4, <1>5

\* No request after time n.
LEMMA AfterNone ==
    ASSUME NEW f \in [Times -> Nat], NEW n \in Times, \A t \in Times : t > n => f[t] = 0,
           NEW x \in Int, n <= x
    PROVE  After(f, x) = 0
<1> DEFINE A == {t \in Times : t > x}
<1>1. IsFiniteSet(A)
  BY FiniteTimes
<1>2. \A t \in A : f[t] = 0
  <2>1. \A t \in A : t \in Times /\ t > n
    BY Bounds DEF Times
  <2> QED
    BY <2>1
<1> HIDE DEF A
<1>3. SumFunctionOnSet(f, A) = 0
  BY <1>1, <1>2, SumZero
<1> QED
  BY <1>3 DEF After, A

\* The invariant, in these terms.
LEMMA WindowInvIs ==
    /\ WindowInv <=>
         /\ \A t \in Times : t > now => allowed[t] = 0
         /\ entry = None => After(allowed, now - Window) <= Limit
         /\ entry # None =>
              /\ entry.start \in 0..now
              /\ After(allowed, entry.start + MaxDelay) <= Min2(entry.count, Limit)
              /\ After(allowed, entry.start - (Window - MaxDelay)) <= Limit + Min2(entry.count, Limit)
    /\ WindowInv' <=>
         /\ \A t \in Times : t > now' => allowed'[t] = 0
         /\ entry' = None => After(allowed', now' - Window) <= Limit
         /\ entry' # None =>
              /\ entry'.start \in 0..now'
              /\ After(allowed', entry'.start + MaxDelay) <= Min2(entry'.count, Limit)
              /\ After(allowed', entry'.start - (Window - MaxDelay)) <= Limit + Min2(entry'.count, Limit)
BY DEF WindowInv, AllowedAfter, After, None, Min2

\* Allow starts a new entry: what was allowed less than a window before it is
\* in one entry, or was counted before the last one was forgotten.
LEMMA WindowStart ==
    ASSUME TypeOK, Punctual, WindowInv, NEW p \in Callers, Allow(p), Starts(at[p])
    PROVE  WindowInv'
<1>0. /\ now \in Int /\ now >= 0 /\ at[p] \in Nat /\ entry.start \in Int /\ entry.count \in Nat
      /\ at[p] <= now /\ now <= at[p] + MaxDelay /\ now \in Times /\ allowed \in [Times -> Nat]
  BY Bounds DEF TypeOK, Times, Punctual, Allow
<1>1. /\ entry' = [start |-> at[p], count |-> 1] /\ now' = now
      /\ allowed' = [allowed EXCEPT ![now] = allowed[now] + 1]
  BY Bounds DEF Allow
<1>2. entry'.start = at[p] /\ entry'.count = 1 /\ entry' # None
  BY <1>0, <1>1 DEF None
<1>m. Min2(1, Limit) = 1
  BY Bounds DEF Min2
<1> DEFINE b == at[p] - (Window - MaxDelay)
           e == at[p] + MaxDelay
<1>3. b \in Int /\ e \in Int
  BY <1>0, Bounds
<1>4. After(allowed, b) <= Limit
  <2>1. CASE entry = None
    <3>1. now - Window <= b /\ now - Window \in Int
      BY <1>0, Bounds
    <3>2. After(allowed, now - Window) <= Limit
      BY <2>1, WindowInvIs
    <3>3. After(allowed, b) <= After(allowed, now - Window) /\ After(allowed, now - Window) \in Nat
      BY <1>0, <1>3, <3>1, AfterFacts
    <3>4. After(allowed, b) \in Nat
      BY <1>0, <1>3, AfterFacts
    <3> QED
      BY <3>2, <3>3, <3>4, Bounds
  <2>2. CASE entry # None
    <3> DEFINE d == entry.start + MaxDelay
               m == Min2(entry.count, Limit)
    <3>1. d <= b /\ d \in Int
      BY <1>0, <2>2, Bounds DEF Starts, Expired
    <3>2. m <= Limit /\ m \in Int
      BY <1>0, Bounds DEF Min2
    <3>3. After(allowed, d) <= m
      BY <2>2, WindowInvIs
    <3> HIDE DEF d, m
    <3>4. After(allowed, b) <= After(allowed, d) /\ After(allowed, d) \in Nat
      BY <1>0, <1>3, <3>1, AfterFacts
    <3>5. After(allowed, b) \in Nat
      BY <1>0, <1>3, AfterFacts
    <3> QED
      BY <3>2, <3>3, <3>4, <3>5, Bounds
  <2> QED
    BY <2>1, <2>2
<1>5. now <= e /\ now > b
  BY <1>0, Bounds
<1> HIDE DEF b, e
<1>6. After(allowed, e) = 0
  <2>1. \A t \in Times : t > now => allowed[t] = 0
    BY WindowInvIs
  <2> QED
    BY <1>0, <1>3, <1>5, <2>1, AfterNone
<1>7. After(allowed', e) = After(allowed, e) /\ After(allowed', b) = After(allowed, b) + 1
  <2>1. /\ now <= e => After(allowed', e) = After(allowed, e)
        /\ now > b => After(allowed', b) = After(allowed, b) + 1
    <3>1. /\ allowed' \in [Times -> Nat] /\ allowed'[now] = allowed[now] + 1
          /\ \A t \in Times : t # now => allowed[t] = allowed'[t]
      BY <1>0, <1>1
    <3> QED
      BY <1>0, <1>3, <3>1, AfterOneMore
  <2> QED
    BY <1>5, <2>1
<1>8. After(allowed, b) \in Nat
  BY <1>0, <1>3, AfterFacts
<1>9. After(allowed', e) <= 1 /\ After(allowed', b) <= Limit + 1
  BY <1>4, <1>6, <1>7, <1>8, Bounds
<1>10. \A t \in Times : t > now => allowed'[t] = 0
  <2>1. \A t \in Times : t > now => allowed[t] = 0
    BY WindowInvIs
  <2> QED
    BY <1>0, <1>1, <2>1
<1> QED
  <2>1. After(allowed', at[p] + MaxDelay) <= 1 /\ After(allowed', at[p] - (Window - MaxDelay)) <= Limit + 1
    BY <1>9 DEF b, e
  <2>2. at[p] \in 0..now
    BY <1>0
  <2> QED
    BY <1>1, <1>2, <1>m, <1>10, <2>1, <2>2, WindowInvIs

\* Allow counts one more in the entry.
LEMMA WindowCount ==
    ASSUME TypeOK, WindowInv, NEW p \in Callers, Allow(p), ~Starts(at[p])
    PROVE  WindowInv'
<1> DEFINE m == Min2(entry.count + 1, Limit + 1)
<1>0. /\ now \in Int /\ now \in Times /\ allowed \in [Times -> Nat]
      /\ entry.start \in Int /\ entry.count \in Nat /\ entry # None
  BY Bounds DEF TypeOK, Times, Starts
<1>1. /\ entry' = [entry EXCEPT !.count = m] /\ now' = now
      /\ allowed' = IF entry'.count <= Limit THEN [allowed EXCEPT ![now] = allowed[now] + 1] ELSE allowed
  BY DEF Allow
<1>3. entry'.start = entry.start /\ entry'.count = m
  BY <1>1 DEF TypeOK
<1>m. m \in Nat /\ (m <= Limit => m = entry.count + 1) /\ (m > Limit => m = Limit + 1)
  BY <1>0, Bounds DEF Min2
<1> HIDE DEF m
<1> DEFINE b == entry.start - (Window - MaxDelay)
           e == entry.start + MaxDelay
<1>4. b \in Int /\ e \in Int
  BY <1>0, Bounds
<1>5. /\ After(allowed, e) <= Min2(entry.count, Limit) /\ After(allowed, b) <= Limit + Min2(entry.count, Limit)
      /\ entry.start \in 0..now /\ \A t \in Times : t > now => allowed[t] = 0
  BY <1>0, WindowInvIs
<1>6. entry' # None
  BY <1>3, <1>5 DEF None
<1> HIDE DEF b, e
<1>7. After(allowed, e) \in Nat /\ After(allowed, b) \in Nat
  BY <1>0, <1>4, AfterFacts
<1>8. CASE m <= Limit
  <2>1. allowed' = [allowed EXCEPT ![now] = allowed[now] + 1]
    BY <1>1, <1>3, <1>8
  <2>2. /\ After(allowed', e) = After(allowed, e) \/ After(allowed', e) = After(allowed, e) + 1
        /\ After(allowed', b) = After(allowed, b) \/ After(allowed', b) = After(allowed, b) + 1
    <3>1. /\ now <= e => After(allowed', e) = After(allowed, e)
          /\ now > e => After(allowed', e) = After(allowed, e) + 1
          /\ now <= b => After(allowed', b) = After(allowed, b)
          /\ now > b => After(allowed', b) = After(allowed, b) + 1
      <4>1. /\ allowed' \in [Times -> Nat] /\ allowed'[now] = allowed[now] + 1
            /\ \A t \in Times : t # now => allowed[t] = allowed'[t]
        BY <1>0, <2>1
      <4> QED
        BY <1>0, <1>4, <4>1, AfterOneMore
    <3> QED
      BY <1>0, <1>4, <3>1
  <2>3. Min2(entry.count, Limit) = entry.count /\ Min2(m, Limit) = entry.count + 1
    BY <1>0, <1>8, <1>m, Bounds DEF Min2
  <2>4. After(allowed', e) <= Min2(m, Limit) /\ After(allowed', b) <= Limit + Min2(m, Limit)
    BY <1>0, <1>5, <1>7, <2>2, <2>3, Bounds
  <2>5. \A t \in Times : t > now => allowed'[t] = 0
    BY <1>0, <1>5, <2>1
  <2> QED
    BY <1>1, <1>3, <1>5, <1>6, <2>4, <2>5, WindowInvIs DEF b, e
<1>9. CASE m > Limit
  <2>1. allowed' = allowed
    BY <1>1, <1>3, <1>9, <1>m, Bounds
  <2>2. Min2(entry.count, Limit) <= Min2(m, Limit) /\ Min2(entry.count, Limit) \in Int /\ Min2(m, Limit) \in Int
    BY <1>0, <1>9, <1>m, Bounds DEF Min2
  <2>3. After(allowed, e) <= Min2(m, Limit) /\ After(allowed, b) <= Limit + Min2(m, Limit)
    BY <1>5, <1>7, <2>2, Bounds
  <2> QED
    BY <1>1, <1>3, <1>5, <1>6, <2>1, <2>3, WindowInvIs DEF b, e
<1> QED
  BY <1>8, <1>9, <1>m, Bounds

\* Time passes.
LEMMA WindowTick ==
    ASSUME TypeOK, TypeOK', WindowInv, Tick
    PROVE  WindowInv'
<1>0. /\ now \in Int /\ now' = now + 1 /\ allowed \in [Times -> Nat] /\ allowed' \in [Times -> Nat]
      /\ entry' = entry /\ entry.start \in Int /\ entry.count \in Nat
  BY Bounds DEF TypeOK, Times, Tick
<1>1. \A t \in Times : allowed'[t] <= allowed[t]
  <2>1. \A t \in Times : allowed[t] \in Nat
    BY <1>0
  <2> QED
    BY <2>1 DEF Tick
<1>2. \A x \in Int : After(allowed', x) <= After(allowed, x) /\ After(allowed', x) \in Nat /\ After(allowed, x) \in Nat
  BY <1>0, <1>1, AfterSmaller, AfterFacts
<1>3. \A t \in Times : t > now' => allowed'[t] = 0
  <2>1. \A t \in Times : t > now => allowed[t] = 0
    BY WindowInvIs
  <2>2. \A t \in Times : t \in Int
    BY Bounds DEF Times
  <2> QED
    BY <1>0, <2>1, <2>2 DEF Tick
<1>4. CASE entry = None
  <2> DEFINE a == now - Window
             c == now' - Window
  <2>1. a \in Int /\ c \in Int /\ a <= c
    BY <1>0, Bounds
  <2>2. After(allowed, a) <= Limit
    BY <1>4, WindowInvIs
  <2> HIDE DEF a, c
  <2>3. After(allowed, c) <= After(allowed, a)
    BY <1>0, <2>1, AfterFacts
  <2>4. After(allowed', c) <= Limit
    BY <1>2, <2>1, <2>2, <2>3, Bounds
  <2> QED
    BY <1>0, <1>3, <1>4, <2>4, WindowInvIs DEF c
<1>5. CASE entry # None
  <2> DEFINE b == entry.start - (Window - MaxDelay)
             e == entry.start + MaxDelay
             m == Min2(entry.count, Limit)
  <2>1. b \in Int /\ e \in Int /\ m \in Int
    BY <1>0, Bounds DEF Min2
  <2>2. After(allowed, e) <= m /\ After(allowed, b) <= Limit + m /\ entry.start \in 0..now
    BY <1>5, WindowInvIs
  <2>3. entry.start \in 0..now'
    BY <1>0, <2>2
  <2> HIDE DEF b, e, m
  <2>4. After(allowed', e) <= m /\ After(allowed', b) <= Limit + m
    BY <1>2, <2>1, <2>2, Bounds
  <2> QED
    BY <1>0, <1>3, <1>5, <2>3, <2>4, WindowInvIs DEF b, e, m
<1> QED
  BY <1>4, <1>5

\* An entry is forgotten: it is so old that what it counted is, too.
LEMMA WindowForget ==
    ASSUME TypeOK, WindowInv, EvictWindow
    PROVE  WindowInv'
<1>0. /\ now \in Int /\ allowed \in [Times -> Nat] /\ entry.start \in Int /\ entry.count \in Nat
      /\ now' = now /\ allowed' = allowed /\ entry' = None /\ entry # None
      /\ entry.start < now - WindowIdle
  BY Bounds DEF TypeOK, Times, EvictWindow, WindowEvictable
<1> DEFINE e == entry.start + MaxDelay
           a == now - Window
           m == Min2(entry.count, Limit)
<1>1. e \in Int /\ a \in Int /\ e <= a
  BY <1>0, Bounds
<1>2. m \in Int /\ m <= Limit
  BY <1>0, Bounds DEF Min2
<1>3. After(allowed, e) <= m /\ \A t \in Times : t > now => allowed[t] = 0
  BY <1>0, WindowInvIs
<1> HIDE DEF e, a, m
<1>4. After(allowed, a) <= After(allowed, e) /\ After(allowed, e) \in Nat
  BY <1>0, <1>1, AfterFacts
<1>5. After(allowed, a) \in Nat
  BY <1>0, <1>1, AfterFacts
<1>6. After(allowed, a) <= Limit
  BY <1>2, <1>3, <1>4, <1>5, Bounds
<1> QED
  BY <1>0, <1>3, <1>6, WindowInvIs DEF a

\* Every step keeps what the entry says.
LEMMA WindowStep == TypeOK /\ TypeOK' /\ Punctual /\ WindowInv /\ [Next]_vars => WindowInv'
<1> SUFFICES ASSUME TypeOK, TypeOK', Punctual, WindowInv, [Next]_vars PROVE WindowInv'
  OBVIOUS
<1>1. CASE UNCHANGED <<now, entry, allowed>>
  BY <1>1, WindowInvIs
<1>2. CASE \E p \in Callers : Allow(p)
  BY <1>2, WindowStart, WindowCount
<1> QED
  BY <1>1, <1>2, WindowTick, WindowForget, ReserveFacts
     DEF Next, vars, Arrive, Wake, Close, Packet, EvictBandwidth

\* At first nothing has been allowed.
LEMMA WindowInit == Init => WindowInv
<1> SUFFICES ASSUME Init PROVE WindowInv
  OBVIOUS
<1>1. entry = None /\ allowed = [t \in Times |-> 0] /\ now = 0
  BY DEF Init
<1> DEFINE a == now - Window
           A == {t \in Times : t > a}
<1>2. IsFiniteSet(A) /\ \A t \in A : allowed[t] = 0
  BY <1>1, FiniteTimes
<1> HIDE DEF A
<1>3. SumFunctionOnSet(allowed, A) = 0
  BY <1>2, SumZero
<1>4. After(allowed, a) = 0
  BY <1>3 DEF After, A
<1>5. After(allowed, now - Window) <= Limit
  BY <1>4, Bounds
<1> QED
  BY <1>1, <1>5, WindowInvIs

\* However the callers interleave and whenever entries are forgotten, no more
\* than twice the limit is allowed in any stretch of the length of the window,
\* less the delay of a caller between its clock and its lock.
THEOREM WindowIsBounded == Spec => []WindowBound
<1>1. TypeOK /\ WindowInv => WindowBound
  <2> SUFFICES ASSUME TypeOK, WindowInv PROVE After(allowed, now - (Window - MaxDelay)) <= 2 * Limit
    BY DEF WindowBound, AllowedAfter, After
  <2>0. /\ now \in Int /\ allowed \in [Times -> Nat] /\ entry.start \in Int /\ entry.count \in Nat
    BY Bounds DEF TypeOK, Times
  <2> DEFINE x == now - (Window - MaxDelay)
  <2>1. x \in Int /\ After(allowed, x) \in Nat
    BY <2>0, Bounds, AfterFacts
  <2>2. CASE entry = None
    <3> DEFINE a == now - Window
    <3>1. a \in Int /\ a <= x
      BY <2>0, Bounds
    <3>2. After(allowed, a) <= Limit
      BY <2>2, WindowInvIs
    <3> HIDE DEF a, x
    <3>3. After(allowed, x) <= After(allowed, a) /\ After(allowed, a) \in Nat
      BY <2>0, <2>1, <3>1, AfterFacts
    <3>4. After(allowed, x) <= 2 * Limit
      BY <2>1, <3>2, <3>3, Bounds
    <3> QED
      BY <3>4 DEF x
  <2>3. CASE entry # None
    <3> DEFINE b == entry.start - (Window - MaxDelay)
               m == Min2(entry.count, Limit)
    <3>1. m \in Int /\ m <= Limit
      BY <2>0, Bounds DEF Min2
    <3>2. After(allowed, b) <= Limit + m /\ entry.start \in 0..now
      BY <2>3, WindowInvIs
    <3>3. b \in Int /\ b <= x
      BY <2>0, <3>2, Bounds
    <3> HIDE DEF b, m, x
    <3>4. After(allowed, x) <= After(allowed, b) /\ After(allowed, b) \in Nat
      BY <2>0, <2>1, <3>3, AfterFacts
    <3>5. After(allowed, x) <= 2 * Limit
      BY <2>1, <3>1, <3>2, <3>4, Bounds
    <3> QED
      BY <3>5 DEF x
  <2> QED
    BY <2>2, <2>3
<1> QED
  BY <1>1, TypeInit, TypeStep, PunctualStep, WindowInit, WindowStep, PTL DEF Spec

-----------------------------------------------------------------------------
(* The bandwidth limiter.                                                  *)

\* What the packets of some callers cost.
LEMMA CostFacts ==
    ASSUME TypeOK, NEW S \in SUBSET Callers
    PROVE  /\ IsFiniteSet(S) /\ \A q \in S : cost[q] \in Nat
           /\ Cost(S) \in Nat
           /\ \A T \in SUBSET S : Cost(T) <= Cost(S) /\ Cost(T) \in Nat
<1>1. IsFiniteSet(Callers) /\ \A q \in Callers : cost[q] \in Nat
  BY LimitsAssumption, Bounds DEF TypeOK
<1>2. IsFiniteSet(S) /\ \A q \in S : cost[q] \in Nat
  BY <1>1, FS_Subset
<1>3. Cost(S) \in Nat
  BY <1>2, SumNat DEF Cost
<1>4. ASSUME NEW T \in SUBSET S PROVE Cost(T) <= Cost(S) /\ Cost(T) \in Nat
  <2>1. IsFiniteSet(T) /\ \A q \in T : cost[q] \in Nat
    BY <1>2, FS_Subset
  <2>2. SumFunctionOnSet(cost, T) <= SumFunctionOnSet(cost, S)
    BY <1>2, SumMonotone
  <2>3. SumFunctionOnSet(cost, T) \in Nat
    BY <2>1, SumNat
  <2> QED
    BY <2>2, <2>3 DEF Cost
<1> QED
  BY <1>2, <1>3, <1>4

\* One caller more costs its packet more.
LEMMA CostAdd ==
    ASSUME TypeOK, NEW S \in SUBSET Callers, NEW p \in Callers, p \notin S
    PROVE  Cost(S \cup {p}) = Cost(S) + cost[p]
<1>1. IsFiniteSet(S) /\ (\A q \in S : cost[q] \in Int) /\ cost[p] \in Int
  <2>1. \A q \in Callers : cost[q] \in Int
    BY Bounds DEF TypeOK
  <2> QED
    BY <2>1, CostFacts
<1> QED
  BY <1>1, SumAdd DEF Cost

\* The packets of callers that stand still cost the same.
LEMMA CostKept ==
    ASSUME TypeOK, TypeOK', NEW S \in SUBSET Callers, \A q \in S : cost'[q] = cost[q]
    PROVE  SumFunctionOnSet(cost', S) = Cost(S)
<1>1. IsFiniteSet(S) /\ \A q \in S : cost[q] \in Int /\ cost[q] = cost'[q]
  BY CostFacts
<1>2. SumFunctionOnSet(cost, S) = SumFunctionOnSet(cost', S)
  BY <1>1, SumAgree
<1> QED
  BY <1>2 DEF Cost

\* The parts of the invariant, with the sums spelt out.
LEMMA RateParts ==
    ASSUME TypeOK
    PROVE  /\ MaxLevel \in Nat /\ MaxDelay + Burst + forgotten <= MaxLevel
           /\ MaxDelay + MaxCost + forgotten <= MaxLevel
           /\ Horizon \in Int /\ bucket.next <= Horizon /\ now - MaxDelay - Burst <= Horizon
           /\ now \in Nat /\ bucket.next \in Int /\ bucket.lastSeen \in Int /\ level \in Nat /\ forgotten \in Nat
           /\ \A q \in Callers : at[q] \in Nat /\ cost[q] \in Nat /\ cost[q] <= MaxCost
           /\ Asleep \in SUBSET Callers
           /\ \A x : DueBy(x) \in SUBSET Asleep /\ DueFrom(x) \in SUBSET Asleep /\ \A y : Due(y, x) \in SUBSET DueFrom(y)
<1>1. /\ now \in Nat /\ bucket.next \in Int /\ bucket.lastSeen \in Int /\ level \in Nat /\ forgotten \in Nat
      /\ \A q \in Callers : at[q] \in Nat /\ cost[q] \in Nat /\ cost[q] <= MaxCost
  BY Bounds DEF TypeOK, Times
<1>2. /\ MaxLevel \in Nat /\ MaxDelay + Burst + forgotten <= MaxLevel
      /\ MaxDelay + MaxCost + forgotten <= MaxLevel
  BY <1>1, Bounds DEF MaxLevel, Max2
<1>3. Horizon \in Int /\ bucket.next <= Horizon /\ now - MaxDelay - Burst <= Horizon
  BY <1>1, Bounds DEF Horizon, Max2
<1>4. /\ Asleep \in SUBSET Callers
      /\ \A x : DueBy(x) \in SUBSET Asleep /\ DueFrom(x) \in SUBSET Asleep /\ \A y : Due(y, x) \in SUBSET DueFrom(y)
  BY DEF Asleep, DueBy, DueFrom, Due
<1> QED
  BY <1>1, <1>2, <1>3, <1>4

\* A step after which the same callers sleep.
LEMMA RateSame ==
    ASSUME TypeOK, TypeOK', RateInv, UNCHANGED <<now, bucket, level, forgotten>>,
           \A q \in Callers : /\ pc'[q] = "sleep" <=> pc[q] = "sleep"
                              /\ pc[q] = "sleep" => at'[q] = at[q] /\ cost'[q] = cost[q]
    PROVE  RateInv'
<1>1. Asleep' = Asleep /\ \A x : DueBy(x)' = DueBy(x) /\ DueFrom(x)' = DueFrom(x) /\ \A y : Due(y, x)' = Due(y, x)
  BY DEF Asleep, DueBy, DueFrom, Due
<1>2. \A S \in SUBSET Asleep : SumFunctionOnSet(cost', S) = Cost(S)
  <2> SUFFICES ASSUME NEW S \in SUBSET Asleep PROVE SumFunctionOnSet(cost', S) = Cost(S)
    OBVIOUS
  <2>1. S \in SUBSET Callers /\ \A q \in S : cost'[q] = cost[q]
    BY DEF Asleep
  <2> QED
    BY <2>1, CostKept
<1>3. /\ Cost(Asleep)' = Cost(Asleep)
      /\ \A x : Cost(DueBy(x))' = Cost(DueBy(x)) /\ Cost(DueFrom(x))' = Cost(DueFrom(x)) /\ \A y : Cost(Due(y, x))' = Cost(Due(y, x))
  BY <1>1, <1>2, RateParts DEF Cost
<1>m. MaxLevel' = MaxLevel /\ Horizon' = Horizon /\ forgotten' = forgotten /\ now' = now /\ level' = level
  BY DEF MaxLevel, Horizon
<1> QED
  BY <1>3, <1>m DEF RateInv

\* A caller stops sleeping: its packet passes when its time has come, or it
\* gives up.
LEMMA RateLeave ==
    ASSUME TypeOK, TypeOK', RateInv, UNCHANGED <<now, bucket, forgotten>>,
           NEW p \in Callers, pc[p] = "sleep", pc'[p] # "sleep",
           \A q \in Callers : q # p => pc'[q] = pc[q] /\ at'[q] = at[q] /\ cost'[q] = cost[q],
           level' = level \/ (level' = level + cost[p] /\ at[p] <= now)
    PROVE  RateInv'
<1>0. /\ now \in Nat /\ bucket.next \in Int /\ level \in Nat /\ cost[p] \in Nat /\ at[p] \in Nat /\ forgotten \in Nat
      /\ MaxLevel \in Nat /\ Horizon \in Int
  BY RateParts
<1>1. Asleep' = Asleep \ {p} /\ \A x : DueBy(x)' = DueBy(x) \ {p} /\ DueFrom(x)' = DueFrom(x) \ {p} /\ \A y : Due(y, x)' = Due(y, x) \ {p}
  BY DEF Asleep, DueBy, DueFrom, Due
<1>2. ASSUME NEW S \in SUBSET Asleep
      PROVE  /\ SumFunctionOnSet(cost', S \ {p}) = Cost(S \ {p}) /\ Cost(S \ {p}) <= Cost(S)
             /\ Cost(S) \in Nat /\ Cost(S \ {p}) \in Nat
             /\ p \in S => Cost(S) = Cost(S \ {p}) + cost[p]
  <2> DEFINE R == S \ {p}
  <2>1. R \in SUBSET Callers /\ S \in SUBSET Callers /\ R \in SUBSET S /\ p \notin R
        /\ \A q \in R : cost'[q] = cost[q]
    BY DEF Asleep
  <2>2. p \in S => R \cup {p} = S
    OBVIOUS
  <2> HIDE DEF R
  <2>3. SumFunctionOnSet(cost', R) = Cost(R)
    BY <2>1, CostKept
  <2>4. Cost(R) <= Cost(S) /\ Cost(S) \in Nat /\ Cost(R) \in Nat
    BY <2>1, CostFacts
  <2>5. Cost(R \cup {p}) = Cost(R) + cost[p]
    BY <2>1, CostAdd
  <2>6. /\ SumFunctionOnSet(cost', R) = Cost(R) /\ Cost(R) <= Cost(S)
        /\ Cost(S) \in Nat /\ Cost(R) \in Nat /\ (p \in S => Cost(S) = Cost(R) + cost[p])
    BY <2>2, <2>3, <2>4, <2>5
  <2> QED
    BY <2>6 DEF R
<1>3. ASSUME NEW x \in Int, NEW y \in Int PROVE Cost(Due(y, x))' <= Max2(0, x - y + MaxCost) + forgotten
  <2> DEFINE S == Due(y, x)
  <2>1. S \in SUBSET Asleep /\ Cost(S) <= Max2(0, x - y + MaxCost) + forgotten
    BY RateParts DEF RateInv
  <2>2. Cost(Due(y, x))' = SumFunctionOnSet(cost', S \ {p})
    BY <1>1 DEF Cost
  <2>3. Max2(0, x - y + MaxCost) \in Int
    BY Bounds DEF Max2
  <2> HIDE DEF S
  <2> DEFINE m == Max2(0, x - y + MaxCost)
  <2>4. SumFunctionOnSet(cost', S \ {p}) = Cost(S \ {p}) /\ Cost(S \ {p}) <= Cost(S)
        /\ Cost(S) \in Nat /\ Cost(S \ {p}) \in Nat
    BY <1>2, <2>1
  <2>5. m \in Int /\ Cost(S) <= m + forgotten
    BY <2>1, <2>3
  <2> HIDE DEF m
  <2>6. Cost(S \ {p}) <= m + forgotten
    BY <1>0, <2>4, <2>5
  <2> QED
    BY <2>2, <2>4, <2>6 DEF m
<1>f. ASSUME NEW y \in Int PROVE Cost(DueFrom(y))' <= Max2(0, Horizon - y + MaxCost) + forgotten
  <2> DEFINE S == DueFrom(y)
  <2>1. S \in SUBSET Asleep /\ Cost(S) <= Max2(0, Horizon - y + MaxCost) + forgotten
    BY RateParts DEF RateInv
  <2>2. Cost(DueFrom(y))' = SumFunctionOnSet(cost', S \ {p})
    BY <1>1 DEF Cost
  <2>3. Max2(0, Horizon - y + MaxCost) \in Int
    BY <1>0, Bounds DEF Max2
  <2> HIDE DEF S
  <2> DEFINE m == Max2(0, Horizon - y + MaxCost)
  <2>4. SumFunctionOnSet(cost', S \ {p}) = Cost(S \ {p}) /\ Cost(S \ {p}) <= Cost(S)
        /\ Cost(S) \in Nat /\ Cost(S \ {p}) \in Nat
    BY <1>2, <2>1
  <2>5. m \in Int /\ Cost(S) <= m + forgotten
    BY <2>1, <2>3
  <2> HIDE DEF m
  <2>6. Cost(S \ {p}) <= m + forgotten
    BY <1>0, <2>4, <2>5
  <2> QED
    BY <2>2, <2>4, <2>6 DEF m
<1>4. ASSUME NEW x \in Int, x >= now PROVE level' + Cost(DueBy(x))' <= MaxLevel + (x - now)
  <2> DEFINE S == DueBy(x)
  <2>1. S \in SUBSET Asleep /\ level + Cost(S) <= MaxLevel + (x - now)
    BY <1>4, RateParts DEF RateInv
  <2>2. Cost(DueBy(x))' = SumFunctionOnSet(cost', S \ {p})
    BY <1>1 DEF Cost
  <2>3. at[p] <= now => p \in S
    BY <1>0, <1>4 DEF DueBy
  <2> HIDE DEF S
  <2>4. /\ SumFunctionOnSet(cost', S \ {p}) = Cost(S \ {p}) /\ Cost(S \ {p}) <= Cost(S)
        /\ Cost(S) \in Nat /\ Cost(S \ {p}) \in Nat
        /\ p \in S => Cost(S) = Cost(S \ {p}) + cost[p]
    BY <1>2, <2>1
  <2>5. CASE level' = level
    BY <1>0, <2>1, <2>2, <2>4, <2>5
  <2>6. CASE level' = level + cost[p] /\ at[p] <= now
    BY <1>0, <2>1, <2>2, <2>3, <2>4, <2>6
  <2> QED
    BY <2>5, <2>6
<1>5. level' + Cost(Asleep)' <= MaxLevel + (Horizon - now)
  <2>1. Cost(Asleep)' = SumFunctionOnSet(cost', Asleep \ {p})
    BY <1>1 DEF Cost
  <2>2. p \in Asleep /\ Asleep \in SUBSET Asleep
    BY DEF Asleep
  <2>3. level + Cost(Asleep) <= MaxLevel + (Horizon - now)
    BY DEF RateInv
  <2>4. /\ SumFunctionOnSet(cost', Asleep \ {p}) = Cost(Asleep \ {p})
        /\ Cost(Asleep) \in Nat /\ Cost(Asleep \ {p}) \in Nat
        /\ Cost(Asleep) = Cost(Asleep \ {p}) + cost[p]
    BY <1>2, <2>2
  <2> QED
    BY <1>0, <2>1, <2>3, <2>4
<1>6. Horizon' = Horizon /\ MaxLevel' = MaxLevel /\ now' = now /\ forgotten' = forgotten
  BY DEF Horizon, MaxLevel
<1> QED
  BY <1>3, <1>4, <1>5, <1>6, <1>f DEF RateInv

\* A packet passes at once: it is reserved behind all others and the time of
\* its reservation is over.
LEMMA RatePass ==
    ASSUME TypeOK, TypeOK', Punctual, RateInv, NEW p \in Callers, Reserve(p), Finish(p) <= now, Pass(p)
    PROVE  RateInv'
<1>0. /\ now \in Nat /\ bucket.next \in Int /\ level \in Nat /\ cost[p] \in Nat /\ at[p] \in Nat /\ forgotten \in Nat
      /\ MaxLevel \in Nat /\ Horizon \in Int
  BY RateParts
<1>r. /\ Finish(p) \in Int /\ now' = now /\ forgotten' = forgotten
      /\ bucket'.next = Finish(p) /\ bucket'.lastSeen = at[p]
      /\ bucket.next + cost[p] <= Finish(p) /\ at[p] - Burst + cost[p] <= Finish(p)
      /\ pc[p] = "reserve"
  BY ReserveFacts
<1>c. level' = level + cost[p] /\ pc'[p] = "open"
      /\ \A q \in Callers : q # p => pc'[q] = pc[q] /\ at'[q] = at[q] /\ cost'[q] = cost[q]
  BY PassFacts
<1>l. now <= at[p] + MaxDelay
  BY <1>r DEF Punctual
<1>h. Horizon + cost[p] <= Finish(p)
  BY <1>0, <1>r, <1>l, Bounds DEF Horizon, Max2
<1>1. Asleep' = Asleep /\ \A x : DueBy(x)' = DueBy(x) /\ DueFrom(x)' = DueFrom(x) /\ \A y : Due(y, x)' = Due(y, x)
  BY <1>r, <1>c DEF Asleep, DueBy, DueFrom, Due
<1>2. ASSUME NEW S \in SUBSET Asleep
      PROVE  SumFunctionOnSet(cost', S) = Cost(S) /\ Cost(S) \in Nat /\ Cost(S) <= Cost(Asleep)
  <2>1. S \in SUBSET Callers /\ \A q \in S : cost'[q] = cost[q]
    BY <1>r, <1>c DEF Asleep
  <2>2. SumFunctionOnSet(cost', S) = Cost(S)
    BY <2>1, CostKept
  <2> QED
    BY <2>2, RateParts, CostFacts
<1>3. level + Cost(Asleep) <= MaxLevel + (Horizon - now) /\ Cost(Asleep) \in Nat
  BY RateParts, CostFacts DEF RateInv
<1>4. level' + Cost(Asleep) <= MaxLevel + (Finish(p) - now)
  BY <1>0, <1>r, <1>c, <1>h, <1>3
<1>5. ASSUME NEW x \in Int, NEW y \in Int PROVE Cost(Due(y, x))' <= Max2(0, x - y + MaxCost) + forgotten
  <2>1. Due(y, x) \in SUBSET Asleep /\ Cost(Due(y, x)) <= Max2(0, x - y + MaxCost) + forgotten
    BY RateParts DEF RateInv
  <2>2. Cost(Due(y, x))' = SumFunctionOnSet(cost', Due(y, x))
    BY <1>1 DEF Cost
  <2> QED
    BY <1>2, <2>1, <2>2
<1>g. Horizon <= Horizon' /\ Horizon' \in Int
  BY <1>0, <1>r, Bounds DEF Horizon, Max2
<1>f. ASSUME NEW y \in Int PROVE Cost(DueFrom(y))' <= Max2(0, Horizon' - y + MaxCost) + forgotten
  <2>1. DueFrom(y) \in SUBSET Asleep /\ Cost(DueFrom(y)) <= Max2(0, Horizon - y + MaxCost) + forgotten
    BY RateParts DEF RateInv
  <2>2. Cost(DueFrom(y))' = SumFunctionOnSet(cost', DueFrom(y))
    BY <1>1 DEF Cost
  <2>3. Cost(DueFrom(y))' = Cost(DueFrom(y)) /\ Cost(DueFrom(y)) \in Nat
    BY <1>2, <2>1, <2>2
  <2> DEFINE h == Horizon
             k == Horizon'
             n == Cost(DueFrom(y))
  <2>4. n \in Nat /\ h \in Int /\ k \in Int /\ h <= k /\ n <= Max2(0, h - y + MaxCost) + forgotten
    BY <1>0, <1>g, <2>1, <2>3
  <2> HIDE DEF h, k, n
  <2>5. n <= Max2(0, k - y + MaxCost) + forgotten
    BY <1>0, <2>4, Bounds DEF Max2
  <2> QED
    BY <2>3, <2>5 DEF k, n
<1>6. ASSUME NEW x \in Int, x >= now PROVE level' + Cost(DueBy(x))' <= MaxLevel + (x - now)
  <2> DEFINE S == DueBy(x)
  <2>1. S \in SUBSET Asleep
    BY RateParts
  <2>2. Cost(DueBy(x))' = SumFunctionOnSet(cost', S)
    BY <1>1 DEF Cost
  <2> HIDE DEF S
  <2>3. Cost(DueBy(x))' = Cost(S) /\ Cost(S) \in Nat /\ Cost(S) <= Cost(Asleep)
    BY <1>2, <2>1, <2>2
  <2>4. Finish(p) <= x
    BY <1>0, <1>6, <1>r
  <2> QED
    BY <1>0, <1>3, <1>4, <1>r, <1>c, <2>3, <2>4
<1>7. level' + Cost(Asleep)' <= MaxLevel + (Horizon' - now')
  <2>1. Cost(Asleep)' = Cost(Asleep)
    BY <1>1, <1>2 DEF Cost
  <2>2. Finish(p) <= Horizon' /\ Horizon' \in Int
    BY <1>0, <1>r, Bounds DEF Horizon, Max2
  <2> QED
    BY <1>0, <1>3, <1>4, <1>r, <1>c, <2>1, <2>2
<1>8. MaxLevel' = MaxLevel
  BY <1>r DEF MaxLevel
<1> QED
  BY <1>5, <1>6, <1>7, <1>8, <1>f, <1>r DEF RateInv

\* A packet has to wait: its reservation begins where all others end.
LEMMA RateWait ==
    ASSUME TypeOK, TypeOK', Punctual, RateInv, NEW p \in Callers, Reserve(p), Finish(p) > now,
           pc' = [pc EXCEPT ![p] = "sleep"], at' = [at EXCEPT ![p] = Finish(p)],
           UNCHANGED <<cost, level>>
    PROVE  RateInv'
<1>0. /\ now \in Nat /\ bucket.next \in Int /\ level \in Nat /\ cost[p] \in Nat /\ at[p] \in Nat /\ forgotten \in Nat
      /\ cost[p] <= MaxCost /\ MaxLevel \in Nat /\ Horizon \in Int
  BY RateParts
<1>r. /\ Finish(p) \in Int /\ now' = now /\ forgotten' = forgotten
      /\ bucket'.next = Finish(p) /\ bucket'.lastSeen = at[p]
      /\ bucket.next + cost[p] <= Finish(p) /\ at[p] - Burst + cost[p] <= Finish(p)
      /\ pc[p] = "reserve"
  BY ReserveFacts
<1>c. /\ pc'[p] = "sleep" /\ at'[p] = Finish(p)
      /\ \A q \in Callers : q # p => pc'[q] = pc[q] /\ at'[q] = at[q]
  BY DEF TypeOK
<1>l. now <= at[p] + MaxDelay
  BY <1>r DEF Punctual
<1>h. Horizon + cost[p] <= Finish(p)
  BY <1>0, <1>r, <1>l, Bounds DEF Horizon, Max2
<1>s. ASSUME NEW S \in SUBSET Asleep
      PROVE  /\ Cost(S) \in Nat /\ Cost(S) <= Cost(Asleep)
             /\ Cost(S \cup {p}) = Cost(S) + cost[p]
  <2>1. S \in SUBSET Callers /\ p \notin S
    BY <1>r DEF Asleep
  <2> QED
    BY <2>1, RateParts, CostFacts, CostAdd
<1>1. Asleep' = Asleep \cup {p}
  BY <1>c DEF Asleep
<1>2. level + Cost(Asleep) <= MaxLevel + (Horizon - now) /\ Cost(Asleep) \in Nat
  BY RateParts, CostFacts DEF RateInv
<1>3. level + Cost(Asleep) + cost[p] <= MaxLevel + (Finish(p) - now)
  BY <1>0, <1>r, <1>h, <1>2
<1>5. ASSUME NEW x \in Int, NEW y \in Int PROVE Cost(Due(y, x))' <= Max2(0, x - y + MaxCost) + forgotten
  <2> DEFINE S == Due(y, x)
  <2>1. S \in SUBSET Asleep /\ Cost(S) <= Max2(0, x - y + MaxCost) + forgotten
    BY RateParts DEF RateInv
  <2>a. Cost(S) \in Nat /\ Cost(S \cup {p}) = Cost(S) + cost[p]
    BY <1>s, <2>1
  <2>2. CASE y <= Finish(p) /\ Finish(p) <= x
    <3>1. Due(y, x)' = S \cup {p}
      BY <1>c, <2>2 DEF Due
    <3>2. Cost(Due(y, x))' = Cost(S) + cost[p]
      BY <2>a, <3>1 DEF Cost
    <3>3. Cost(S) <= Cost(DueFrom(y)) /\ Cost(DueFrom(y)) <= Max2(0, Horizon - y + MaxCost) + forgotten
          /\ Cost(DueFrom(y)) \in Nat
      <4>1. S \in SUBSET DueFrom(y) /\ DueFrom(y) \in SUBSET Callers
        BY DEF Due, DueFrom
      <4> QED
        BY <4>1, CostFacts DEF RateInv
    <3> DEFINE h == Horizon
               f == Finish(p)
               n == Cost(S)
    <3>4. /\ n \in Nat /\ h \in Int /\ f \in Int /\ h + cost[p] <= f /\ y <= f /\ f <= x
          /\ n <= Max2(0, h - y + MaxCost) + forgotten
      <4>1. Max2(0, Horizon - y + MaxCost) \in Int
        BY <1>0, Bounds DEF Max2
      <4>2. Cost(S) <= Max2(0, Horizon - y + MaxCost) + forgotten
        BY <1>0, <2>a, <3>3, <4>1
      <4> QED
        BY <1>0, <1>r, <1>h, <2>2, <2>a, <4>2
    <3> HIDE DEF h, f, n
    <3>5. n + cost[p] <= Max2(0, x - y + MaxCost) + forgotten
      BY <1>0, <3>4, Bounds DEF Max2
    <3> QED
      BY <3>2, <3>5 DEF n
  <2>3. CASE ~(y <= Finish(p) /\ Finish(p) <= x)
    <3>1. Due(y, x)' = S
      BY <1>c, <1>r, <2>3 DEF Due
    <3> QED
      BY <2>1, <3>1 DEF Cost
  <2> QED
    BY <2>2, <2>3
<1>6. ASSUME NEW x \in Int, x >= now PROVE level' + Cost(DueBy(x))' <= MaxLevel + (x - now)
  <2> DEFINE S == DueBy(x)
  <2>1. S \in SUBSET Asleep /\ level + Cost(S) <= MaxLevel + (x - now)
    BY <1>6, RateParts DEF RateInv
  <2>2. CASE Finish(p) <= x
    <3>1. DueBy(x)' = S \cup {p}
      BY <1>c, <2>2 DEF DueBy
    <3>2. Cost(DueBy(x))' = Cost(S) + cost[p] /\ Cost(S) \in Nat /\ Cost(S) <= Cost(Asleep)
      BY <1>s, <2>1, <3>1 DEF Cost
    <3> HIDE DEF S
    <3> QED
      BY <1>0, <1>2, <1>3, <1>r, <2>2, <3>2
  <2>3. CASE ~(Finish(p) <= x)
    <3>1. DueBy(x)' = S
      BY <1>c, <1>r, <2>3 DEF DueBy
    <3> QED
      BY <2>1, <3>1 DEF Cost
  <2> QED
    BY <2>2, <2>3
<1>7. level' + Cost(Asleep)' <= MaxLevel + (Horizon' - now')
  <2>1. Cost(Asleep)' = Cost(Asleep) + cost[p]
    <3>1. Asleep \in SUBSET Asleep
      OBVIOUS
    <3>2. Cost(Asleep \cup {p}) = Cost(Asleep) + cost[p]
      BY <1>s, <3>1
    <3> QED
      BY <1>1, <3>2 DEF Cost
  <2>2. Finish(p) <= Horizon' /\ Horizon' \in Int
    BY <1>0, <1>r, Bounds DEF Horizon, Max2
  <2> QED
    BY <1>0, <1>2, <1>3, <1>r, <2>1, <2>2
<1>f. ASSUME NEW y \in Int PROVE Cost(DueFrom(y))' <= Max2(0, Horizon' - y + MaxCost) + forgotten
  <2> DEFINE S == DueFrom(y)
             h == Horizon
             f == Finish(p)
             k == Horizon'
             n == Cost(S)
  <2>1. S \in SUBSET Asleep /\ n <= Max2(0, h - y + MaxCost) + forgotten
    BY RateParts DEF RateInv
  <2>2. n \in Nat /\ Cost(S \cup {p}) = n + cost[p]
    BY <1>s, <2>1
  <2>3. h \in Int /\ f \in Int /\ k \in Int /\ f <= k /\ h <= k /\ h + cost[p] <= f
    BY <1>0, <1>r, <1>h, Bounds DEF Horizon, Max2
  <2>4. CASE y <= Finish(p)
    <3>1. DueFrom(y)' = S \cup {p}
      BY <1>c, <2>4 DEF DueFrom
    <3>2. Cost(DueFrom(y))' = n + cost[p]
      BY <2>2, <3>1 DEF Cost
    <3>3. y <= f
      BY <2>4
    <3> HIDE DEF S, h, f, k, n
    <3>4. n + cost[p] <= Max2(0, k - y + MaxCost) + forgotten
      BY <1>0, <2>1, <2>2, <2>3, <3>3, Bounds DEF Max2
    <3> QED
      BY <3>2, <3>4 DEF k
  <2>5. CASE ~(y <= Finish(p))
    <3>1. DueFrom(y)' = S
      BY <1>c, <1>r, <2>5 DEF DueFrom
    <3>2. Cost(DueFrom(y))' = n
      BY <3>1 DEF Cost
    <3> HIDE DEF S, h, f, k, n
    <3>3. n <= Max2(0, k - y + MaxCost) + forgotten
      BY <1>0, <2>1, <2>2, <2>3, Bounds DEF Max2
    <3> QED
      BY <3>2, <3>3 DEF k
  <2> QED
    BY <2>4, <2>5
<1>8. MaxLevel' = MaxLevel
  BY <1>r DEF MaxLevel
<1> QED
  BY <1>5, <1>6, <1>7, <1>8, <1>f, <1>r DEF RateInv

\* Time passes, and what has passed so far weighs one less.
LEMMA RateTick ==
    ASSUME TypeOK, TypeOK', Punctual, RateInv, Tick
    PROVE  RateInv'
<1>0. /\ now \in Nat /\ bucket.next \in Int /\ level \in Nat /\ MaxLevel \in Nat /\ Horizon \in Int
      /\ MaxDelay + Burst + forgotten <= MaxLevel /\ MaxDelay + MaxCost + forgotten <= MaxLevel
      /\ forgotten \in Nat /\ MaxDelay \in Nat /\ MaxCost \in Nat /\ Burst \in Nat
  BY RateParts, Bounds
<1>t. /\ now' = now + 1 /\ bucket' = bucket /\ pc' = pc /\ at' = at /\ cost' = cost
      /\ level' = Max2(level - 1, 0) /\ forgotten' = forgotten
  BY DEF Tick
<1>1. Asleep' = Asleep /\ \A x : DueBy(x)' = DueBy(x) /\ DueFrom(x)' = DueFrom(x) /\ \A y : Due(y, x)' = Due(y, x)
  BY <1>t DEF Asleep, DueBy, DueFrom, Due
<1>2. \A S : Cost(S) = SumFunctionOnSet(cost', S)
  BY <1>t DEF Cost
<1>3. /\ Cost(Asleep)' = Cost(Asleep)
      /\ \A x : Cost(DueBy(x))' = Cost(DueBy(x)) /\ Cost(DueFrom(x))' = Cost(DueFrom(x)) /\ \A y : Cost(Due(y, x))' = Cost(Due(y, x))
  BY <1>1, <1>2 DEF Cost
<1> DEFINE y0 == now + 1 - MaxDelay
<1>4. ASSUME NEW q \in Callers, pc[q] = "sleep" PROVE y0 <= at[q]
  <2>1. at[q] \in Nat
    BY RateParts
  <2>2. now < at[q] + MaxDelay
    BY <1>4 DEF Tick
  <2> QED
    BY <1>0, <2>1, <2>2
<1>5. Asleep = DueFrom(y0) /\ \A x : DueBy(x) = Due(y0, x)
  BY <1>4 DEF Asleep, Due, DueFrom, DueBy
<1>6. y0 \in Int
  BY <1>0
<1>7. Horizon <= Horizon' /\ bucket.next <= Horizon' /\ now + 1 - MaxDelay - Burst <= Horizon' /\ Horizon' \in Int
  BY <1>0, <1>t DEF Horizon, Max2
<1>8. Cost(Asleep) \in Nat /\ \A x : Cost(DueBy(x)) \in Nat
  BY RateParts, CostFacts
<1>9. ASSUME NEW x \in Int, x >= now' PROVE level' + Cost(DueBy(x))' <= MaxLevel + (x - now')
  <2> DEFINE n == Cost(DueBy(x))
  <2>1. n \in Nat /\ Cost(DueBy(x))' = n
    BY <1>3, <1>8
  <2>2. x >= now
    BY <1>0, <1>9, <1>t
  <2>3. level + n <= MaxLevel + (x - now)
    BY <2>2 DEF RateInv
  <2>4. n <= Max2(0, x - y0 + MaxCost) + forgotten
    BY <1>5, <1>6 DEF RateInv
  <2> HIDE DEF n
  <2>5. CASE level >= 1
    <3>1. level' = level - 1
      BY <1>0, <1>t, <2>5 DEF Max2
    <3> QED
      BY <1>0, <1>t, <2>1, <2>3, <3>1
  <2>6. CASE level = 0
    <3>1. level' = 0
      BY <1>t, <2>6 DEF Max2
    <3>2. n <= x - y0 + MaxCost + forgotten
      BY <1>0, <1>9, <1>t, <2>1, <2>4 DEF Max2
    <3> QED
      BY <1>0, <1>9, <1>t, <2>1, <3>1, <3>2
  <2> QED
    BY <1>0, <2>5, <2>6
<1>10. level' + Cost(Asleep)' <= MaxLevel + (Horizon' - now')
  <2> DEFINE n == Cost(Asleep)
             h == Horizon'
  <2>1. n \in Nat /\ Cost(Asleep)' = n
    BY <1>3, <1>8
  <2>3. level + n <= MaxLevel + (Horizon - now)
    BY DEF RateInv
  <2>4. n <= Max2(0, Horizon - y0 + MaxCost) + forgotten
    BY <1>0, <1>5, <1>6 DEF RateInv
  <2>h. h \in Int /\ Horizon <= h /\ bucket.next <= h /\ now + 1 - MaxDelay - Burst <= h
    BY <1>7
  <2> HIDE DEF n, h
  <2>5. CASE level >= 1
    <3>1. level' = level - 1
      BY <1>0, <1>t, <2>5 DEF Max2
    <3>2. level' + n <= MaxLevel + (h - now')
      BY <1>0, <1>t, <2>1, <2>3, <2>h, <3>1
    <3> QED
      BY <2>1, <3>2 DEF h
  <2>6. CASE level = 0
    <3>1. level' = 0
      BY <1>t, <2>6 DEF Max2
    <3>2. level' + n <= MaxLevel + (h - now')
      BY <1>0, <1>t, <2>1, <2>4, <2>h, <3>1 DEF Max2
    <3> QED
      BY <2>1, <3>2 DEF h
  <2> QED
    BY <1>0, <2>5, <2>6
<1>11. \A y \in Int : \A x \in Int : Cost(Due(y, x))' <= Max2(0, x - y + MaxCost) + forgotten
  BY <1>3 DEF RateInv
<1>f. ASSUME NEW y \in Int PROVE Cost(DueFrom(y))' <= Max2(0, Horizon' - y + MaxCost) + forgotten
  <2> DEFINE h == Horizon
             k == Horizon'
             n == Cost(DueFrom(y))
  <2>1. n \in Nat /\ Cost(DueFrom(y))' = n
    BY <1>3, RateParts, CostFacts
  <2>2. h \in Int /\ k \in Int /\ h <= k /\ n <= Max2(0, h - y + MaxCost) + forgotten
    BY <1>0, <1>7 DEF RateInv
  <2> HIDE DEF h, k, n
  <2>3. n <= Max2(0, k - y + MaxCost) + forgotten
    BY <1>0, <2>1, <2>2 DEF Max2
  <2> QED
    BY <2>1, <2>3 DEF k
<1>12. MaxLevel' = MaxLevel
  BY <1>t DEF MaxLevel
<1> QED
  BY <1>9, <1>10, <1>11, <1>12, <1>f, <1>t DEF RateInv

\* A bucket is forgotten: its reservations end before any that can still begin, but for the
\* part of the debt that was longer than the interval, which is put on record.
LEMMA RateForget ==
    ASSUME TypeOK, TypeOK', RateInv, EvictBandwidth
    PROVE  RateInv'
<1>0. /\ now \in Nat /\ bucket.next \in Int /\ bucket.lastSeen \in Int /\ level \in Nat
      /\ MaxLevel \in Nat /\ Horizon \in Int /\ forgotten \in Nat
      /\ MaxDelay \in Nat /\ MaxCost \in Nat /\ Burst \in Nat /\ BandwidthIdle \in Nat
  BY RateParts, Bounds
<1> DEFINE excess == Excess(bucket)
           h == Horizon
           k == Horizon'
<1>e. /\ now' = now /\ pc' = pc /\ at' = at /\ cost' = cost /\ level' = level
      /\ bucket'.next = -Burst /\ forgotten' = forgotten + excess
      /\ bucket.lastSeen < now - BandwidthIdle
  BY DEF EvictBandwidth, NoBucket, BucketEvictable
<1>1. excess \in Nat /\ bucket.next - bucket.lastSeen - (BandwidthIdle - Burst - MaxDelay) <= excess
  BY <1>0 DEF Excess, Max2
<1> HIDE DEF excess
<1>2. h \in Int /\ k \in Int /\ h <= k + excess
  BY <1>0, <1>1, <1>e DEF Horizon, Max2
<1>m. MaxLevel' = MaxLevel + excess
  BY <1>0, <1>1, <1>e, Bounds DEF MaxLevel, Max2
<1> HIDE DEF h, k
<1>3. Asleep' = Asleep /\ \A x : DueBy(x)' = DueBy(x) /\ DueFrom(x)' = DueFrom(x) /\ \A y : Due(y, x)' = Due(y, x)
  BY <1>e DEF Asleep, DueBy, DueFrom, Due
<1>4. \A S : Cost(S) = SumFunctionOnSet(cost', S)
  BY <1>e DEF Cost
<1>5. /\ Cost(Asleep)' = Cost(Asleep)
      /\ \A x : Cost(DueBy(x))' = Cost(DueBy(x)) /\ Cost(DueFrom(x))' = Cost(DueFrom(x)) /\ \A y : Cost(Due(y, x))' = Cost(Due(y, x))
  BY <1>3, <1>4 DEF Cost
<1>6. ASSUME NEW S \in SUBSET Asleep PROVE Cost(S) \in Nat
  BY RateParts, CostFacts
<1>7. ASSUME NEW y \in Int PROVE Cost(DueFrom(y))' <= Max2(0, Horizon' - y + MaxCost) + forgotten'
  <2> DEFINE n == Cost(DueFrom(y))
  <2>1. n \in Nat
    BY <1>6, RateParts
  <2>2. n <= Max2(0, h - y + MaxCost) + forgotten
    BY DEF RateInv, h
  <2> HIDE DEF n
  <2>3. n <= Max2(0, k - y + MaxCost) + (forgotten + excess)
    BY <1>0, <1>1, <1>2, <2>1, <2>2 DEF Max2
  <2> QED
    BY <1>5, <1>e, <2>3 DEF k, n
<1>8. ASSUME NEW y \in Int, NEW x \in Int PROVE Cost(Due(y, x))' <= Max2(0, x - y + MaxCost) + forgotten'
  <2> DEFINE n == Cost(Due(y, x))
  <2>1. n \in Nat
    <3>1. Due(y, x) \in SUBSET Asleep
      BY DEF Due, Asleep
    <3> QED
      BY <1>6, <3>1
  <2>2. n <= Max2(0, x - y + MaxCost) + forgotten
    BY DEF RateInv
  <2> HIDE DEF n
  <2>3. n <= Max2(0, x - y + MaxCost) + (forgotten + excess)
    BY <1>0, <1>1, <2>1, <2>2 DEF Max2
  <2> QED
    BY <1>5, <1>e, <2>3 DEF n
<1>9. ASSUME NEW x \in Int, x >= now' PROVE level' + Cost(DueBy(x))' <= MaxLevel' + (x - now')
  <2> DEFINE n == Cost(DueBy(x))
  <2>1. n \in Nat
    BY <1>6, RateParts
  <2>2. level + n <= MaxLevel + (x - now)
    BY <1>9, <1>e DEF RateInv
  <2> HIDE DEF n
  <2>3. level + n <= MaxLevel + excess + (x - now)
    BY <1>0, <1>1, <2>1, <2>2
  <2> QED
    BY <1>5, <1>e, <1>m, <2>3 DEF n
<1>10. level' + Cost(Asleep)' <= MaxLevel' + (Horizon' - now')
  <2> DEFINE n == Cost(Asleep)
  <2>1. n \in Nat
    BY <1>6
  <2>2. level + n <= MaxLevel + (h - now)
    BY DEF RateInv, h
  <2> HIDE DEF n
  <2>3. level + n <= MaxLevel + excess + (k - now)
    BY <1>0, <1>1, <1>2, <2>1, <2>2
  <2> QED
    BY <1>5, <1>e, <1>m, <2>3 DEF k, n
<1> QED
  BY <1>7, <1>8, <1>9, <1>10 DEF RateInv

\* Every step keeps the reservations within the rate.
LEMMA RateStep == TypeOK /\ TypeOK' /\ Punctual /\ RateInv /\ [Next]_vars => RateInv'
<1> SUFFICES ASSUME TypeOK, TypeOK', Punctual, RateInv, [Next]_vars PROVE RateInv'
  OBVIOUS
<1>1. ASSUME NEW p \in Callers, Arrive(p) PROVE RateInv'
  BY <1>1, RateSame DEF Arrive, TypeOK
<1>2. ASSUME NEW p \in Callers, Allow(p) PROVE RateInv'
  <2>1. /\ pc[p] = "allow" /\ at' = [at EXCEPT ![p] = 0] /\ UNCHANGED <<now, bucket, level, cost, forgotten>>
        /\ pc' = [pc EXCEPT ![p] = IF entry'.count <= Limit THEN "open" ELSE "idle"]
    BY <1>2 DEF Allow
  <2> QED
    BY <2>1, RateSame DEF TypeOK
<1>3. ASSUME NEW p \in Callers, Reserve(p) PROVE RateInv'
  BY <1>3, ReserveFacts, RatePass, RateWait
<1>4. ASSUME NEW p \in Callers, Wake(p) PROVE RateInv'
  <2>1. now >= at[p] /\ pc[p] = "sleep" /\ Pass(p) /\ UNCHANGED <<now, bucket, forgotten>>
    BY <1>4 DEF Wake
  <2>2. now \in Nat /\ at[p] \in Nat
    BY RateParts
  <2>3. at[p] <= now
    BY <2>1, <2>2
  <2> QED
    BY <2>1, <2>3, PassFacts, RateLeave
<1>5. ASSUME NEW p \in Callers, Close(p) PROVE RateInv'
  <2>1. /\ pc[p] \in {"open", "sleep"} /\ pc'[p] = "idle" /\ UNCHANGED <<now, bucket, level, forgotten>>
        /\ \A q \in Callers : q # p => pc'[q] = pc[q] /\ at'[q] = at[q] /\ cost'[q] = cost[q]
    BY <1>5 DEF Close, TypeOK
  <2>2. CASE pc[p] = "open"
    BY <2>1, <2>2, RateSame
  <2>3. CASE pc[p] = "sleep"
    BY <2>1, <2>3, RateLeave
  <2> QED
    BY <2>1, <2>2, <2>3
<1>6. ASSUME NEW p \in Callers, NEW c \in 1..MaxCost, Packet(p, c) PROVE RateInv'
  BY <1>6, RateSame DEF Packet, TypeOK
<1>7. CASE EvictWindow
  BY <1>7, RateSame DEF EvictWindow
<1>8. CASE UNCHANGED vars
  BY <1>8, RateSame DEF vars
<1> QED
  BY <1>1, <1>2, <1>3, <1>4, <1>5, <1>6, <1>7, <1>8, RateTick, RateForget DEF Next

\* At first nothing is reserved.
LEMMA RateInit == Init => RateInv
<1> SUFFICES ASSUME Init PROVE RateInv
  OBVIOUS
<1>0. MaxDelay \in Nat /\ MaxCost \in Nat /\ Burst \in Nat
  BY Bounds
<1>1. /\ now = 0 /\ level = 0 /\ bucket.next = -Burst /\ forgotten = 0
      /\ \A q \in Callers : pc[q] # "sleep"
  BY DEF Init, NoBucket
<1>2. Asleep = {} /\ \A x : DueBy(x) = {} /\ DueFrom(x) = {} /\ \A y : Due(y, x) = {}
  BY <1>1 DEF Asleep, DueBy, DueFrom, Due
<1>3. SumFunctionOnSet(cost, {}) = 0
  BY SumType, FS_EmptySet
<1>4. Cost(Asleep) = 0 /\ \A x : Cost(DueBy(x)) = 0 /\ Cost(DueFrom(x)) = 0 /\ \A y : Cost(Due(y, x)) = 0
  BY <1>2, <1>3 DEF Cost
<1>5. MaxLevel \in Nat /\ MaxDelay + Burst <= MaxLevel
  BY <1>0, <1>1 DEF MaxLevel, Max2
<1>6. level + Cost(Asleep) <= MaxLevel + (Horizon - now)
  <2>1. Horizon \in Int /\ -Burst <= Horizon
    BY <1>0, <1>1 DEF Horizon, Max2
  <2> QED
    BY <1>0, <1>1, <1>4, <1>5, <2>1
<1>7. \A x \in Int : x >= now => level + Cost(DueBy(x)) <= MaxLevel + (x - now)
  BY <1>1, <1>4, <1>5
<1>8. \A y \in Int : \A x \in Int : Cost(Due(y, x)) <= Max2(0, x - y + MaxCost) + forgotten
  BY <1>0, <1>1, <1>4 DEF Max2
<1>9. \A y \in Int : Cost(DueFrom(y)) <= Max2(0, Horizon - y + MaxCost) + forgotten
  BY <1>0, <1>1, <1>4 DEF Horizon, Max2
<1> QED
  BY <1>1, <1>6, <1>7, <1>8, <1>9 DEF RateInv

\* However the packets of a source interleave, wait and give up, and whenever its bucket is
\* forgotten, what passes beyond the rate costs no more than one burst (or one packet), the delay
\* of a caller, and what the debts that Evict forgot had beyond its interval.
THEOREM RateIsBounded == Spec => []RateBound
<1>1. TypeOK /\ RateInv => RateBound
  <2> SUFFICES ASSUME TypeOK, RateInv PROVE level <= MaxLevel
    BY DEF RateBound, MaxLevel
  <2>1. now \in Int /\ now >= now /\ level \in Nat /\ MaxLevel \in Nat
    BY RateParts
  <2>2. level + Cost(DueBy(now)) <= MaxLevel + (now - now)
    BY <2>1 DEF RateInv
  <2>3. Cost(DueBy(now)) \in Nat
    BY RateParts, CostFacts
  <2> QED
    BY <2>1, <2>2, <2>3
<1> QED
  BY <1>1, TypeInit, TypeStep, PunctualStep, RateInit, RateStep, PTL DEF Spec

-----------------------------------------------------------------------------
(* The address of the client.                                              *)

Lines == [first : Seq(Parts), rest : Seq(Parts)]

\* All parts of s from place k on are addresses of proxies.
ProxiesFrom(s, k) == \A i \in 1..Len(s) : i >= k => s[i] \in Proxies

\* The header can only name proxies; the last address in its first line that is no proxy is the
\* client's, and nothing but proxies follows it.
NamesNobody(h) == ProxiesFrom(h.first, 1) /\ ProxiesFrom(h.rest, 1)
NamesClient(h) ==
    /\ \E k \in 1..Len(h.first) : h.first[k] = Client /\ ProxiesFrom(h.first, k + 1)
    /\ ProxiesFrom(h.rest, 1)

\* The inductive invariant: the headers are what the history says.
HeadersInv ==
    /\ peer \in {Client} \cup Proxies
    /\ headers \in [Names -> Lines]
    /\ says \in [Names -> {"anything", "client", "nothing"}]
    /\ peer = Client => \A i \in Names : says[i] = "anything"
    /\ \A i \in Names : says[i] = "client" => NamesClient(headers[i])
    /\ \A i \in Names : says[i] = "nothing" => NamesNobody(headers[i])
    /\ CountedAsClient

\* A sequence of at most n parts is a sequence of parts.
LEMMA SeqOfParts ==
    ASSUME NEW n \in Nat
    PROVE  SeqOf(Parts, n) \subseteq Seq(Parts)
<1> SUFFICES ASSUME NEW s \in SeqOf(Parts, n) PROVE s \in Seq(Parts)
  OBVIOUS
<1>1. PICK m \in 0..n : s \in [1..m -> Parts]
  BY DEF SeqOf
<1>2. m \in Nat
  OBVIOUS
<1> QED
  BY <1>1, <1>2

\* Proxies behind proxies are proxies.
LEMMA ProxiesBehind ==
    ASSUME NEW s \in Seq(Parts), NEW t \in Seq(Parts), NEW k \in Nat \ {0},
           ProxiesFrom(s, k), ProxiesFrom(t, 1)
    PROVE  s \o t \in Seq(Parts) /\ ProxiesFrom(s \o t, k)
<1>1. /\ s \o t \in Seq(Parts) /\ Len(s \o t) = Len(s) + Len(t)
      /\ \A i \in 1..Len(s) + Len(t) : (s \o t)[i] = IF i <= Len(s) THEN s[i] ELSE t[i - Len(s)]
  BY ConcatProperties
<1>2. Len(s) \in Nat /\ Len(t) \in Nat
  OBVIOUS
<1>3. ASSUME NEW i \in 1..Len(s) + Len(t), i >= k PROVE (s \o t)[i] \in Proxies
  <2>1. CASE i <= Len(s)
    <3>1. i \in 1..Len(s)
      BY <1>2, <2>1
    <3> QED
      BY <1>1, <1>3, <2>1, <3>1 DEF ProxiesFrom
  <2>2. CASE ~(i <= Len(s))
    <3>1. i - Len(s) \in 1..Len(t) /\ i - Len(s) >= 1
      BY <1>2, <2>2
    <3> QED
      BY <1>1, <2>2, <3>1 DEF ProxiesFrom
  <2> QED
    BY <2>1, <2>2
<1> QED
  BY <1>1, <1>3 DEF ProxiesFrom

\* One proxy alone, and nothing at all.
LEMMA ShortLines ==
    /\ <<>> \in Seq(Parts) /\ ProxiesFrom(<<>>, 1) /\ Client \in Parts
    /\ \A a \in Parts : <<a>> \in Seq(Parts) /\ Len(<<a>>) = 1 /\ <<a>>[1] = a
    /\ \A a \in Proxies : a \in Parts /\ ProxiesFrom(<<a>>, 1)
BY DEF ProxiesFrom, Parts

\* A header of one line.
LEMMA OneLine ==
    ASSUME NEW s \in Seq(Parts)
    PROVE  /\ Header(s) \in Lines /\ Header(s).first = s /\ Header(s).rest = <<>>
           /\ ProxiesFrom(s, 1) => NamesNobody(Header(s))
           /\ (\E k \in 1..Len(s) : s[k] = Client /\ ProxiesFrom(s, k + 1)) => NamesClient(Header(s))
<1>1. /\ Header(s) \in Lines /\ Header(s).first = s /\ Header(s).rest = <<>>
  BY ShortLines DEF Header, Lines
<1> QED
  BY <1>1, ShortLines DEF NamesNobody, NamesClient

\* What the lines of a header say together.
LEMMA JoinedLines ==
    ASSUME NEW h \in Lines
    PROVE  /\ Joined(h) \in Lines
           /\ NamesNobody(h) => NamesNobody(Joined(h))
           /\ NamesClient(h) => NamesClient(Joined(h))
<1> DEFINE f == h.first
           r == h.rest
           j == f \o r
<1>0. /\ f \in Seq(Parts) /\ r \in Seq(Parts) /\ Joined(h) = [first |-> j, rest |-> <<>>]
      /\ Joined(h).first = j /\ Joined(h).rest = <<>>
  BY DEF Joined, Header, Lines
<1>1. /\ j \in Seq(Parts) /\ Len(j) = Len(f) + Len(r)
      /\ \A i \in 1..Len(f) + Len(r) : j[i] = IF i <= Len(f) THEN f[i] ELSE r[i - Len(f)]
  BY <1>0, ConcatProperties
<1>2. Joined(h) \in Lines
  BY <1>0, <1>1, ShortLines DEF Lines
<1>3. ASSUME NamesNobody(h) PROVE NamesNobody(Joined(h))
  <2>1. ProxiesFrom(f, 1) /\ ProxiesFrom(r, 1)
    BY <1>3 DEF NamesNobody
  <2>2. ProxiesFrom(j, 1)
    BY <1>0, <2>1, ProxiesBehind
  <2> QED
    BY <1>0, <2>2, ShortLines DEF NamesNobody
<1>4. ASSUME NamesClient(h) PROVE NamesClient(Joined(h))
  <2>1. PICK k \in 1..Len(f) : f[k] = Client /\ ProxiesFrom(f, k + 1)
    BY <1>4 DEF NamesClient
  <2>2. ProxiesFrom(r, 1)
    BY <1>4 DEF NamesClient
  <2>3. Len(f) \in Nat /\ Len(r) \in Nat /\ k + 1 \in Nat \ {0}
    BY <1>0
  <2>4. ProxiesFrom(j, k + 1)
    BY <1>0, <2>1, <2>2, <2>3, ProxiesBehind
  <2>5. k \in 1..Len(j) /\ j[k] = Client
    <3>1. k \in 1..Len(f) + Len(r) /\ k <= Len(f)
      <4> HIDE DEF f, r
      <4> QED
        BY <2>1, <2>3
    <3> QED
      BY <1>1, <2>1, <3>1
  <2> QED
    BY <1>0, <2>4, <2>5, ShortLines DEF NamesClient
<1> QED
  BY <1>2, <1>3, <1>4

\* A proxy behind the first passes a header on: what it says stays, unless it is replaced or
\* dropped.
LEMMA PassedByProxy ==
    ASSUME NEW h \in Lines, NEW way \in Ways, peer \in Proxies
    PROVE  /\ Passed(h, way) \in Lines
           /\ NamesNobody(h) => NamesNobody(Passed(h, way))
           /\ NamesClient(h) /\ way \notin {"sets", "drops"} => NamesClient(Passed(h, way))
           /\ way \in {"sets", "drops"} => NamesNobody(Passed(h, way))
<1> DEFINE one == <<peer>>
<1>o. one \in Seq(Parts) /\ ProxiesFrom(one, 1) /\ peer \in Parts
  BY ShortLines
<1>1. CASE way = "passes"
  BY <1>1 DEF Passed
<1>2. CASE way = "appends"
  <2> DEFINE g == Joined(h)
             b == [first |-> <<>>, rest |-> one]
  <2>1. g \in Lines /\ (NamesNobody(h) => NamesNobody(g)) /\ (NamesClient(h) => NamesClient(g)) /\ g.rest = <<>>
    BY JoinedLines DEF Joined, Header
  <2> DEFINE e == [g EXCEPT !.rest = one]
  <2>2. e \in Lines /\ e.first = g.first /\ e.rest = one
    BY <1>o, <2>1 DEF Lines
  <2>3. (NamesNobody(g) => NamesNobody(e)) /\ (NamesClient(g) => NamesClient(e))
    BY <1>o, <2>2 DEF NamesNobody, NamesClient
  <2>4. Passed(h, way) = Joined(e)
    <3>1. Passed(h, way) = Header(Append(h.first \o h.rest, peer))
      BY <1>2 DEF Passed, Appended
    <3>2. h.first \o h.rest \in Seq(Parts) /\ g.first = h.first \o h.rest
      BY ConcatProperties DEF Joined, Header, Lines
    <3>3. Append(h.first \o h.rest, peer) = (h.first \o h.rest) \o one
      BY <1>o, <3>2, AppendIsConcat
    <3> HIDE DEF g, e, one
    <3> QED
      BY <2>2, <3>1, <3>2, <3>3 DEF Joined
  <2> HIDE DEF e, g
  <2>5. Joined(e) \in Lines /\ (NamesNobody(e) => NamesNobody(Joined(e))) /\ (NamesClient(e) => NamesClient(Joined(e)))
    BY <2>2, JoinedLines
  <2> QED
    BY <1>2, <2>1, <2>3, <2>4, <2>5
<1>3. CASE way = "adds"
  <2>1. Passed(h, way) = IF h = Absent THEN Header(one) ELSE [h EXCEPT !.rest = Append(h.rest, peer)]
    BY <1>3 DEF Passed, Added
  <2>2. CASE h = Absent
    <3>1. Passed(h, way) = [first |-> one, rest |-> <<>>]
      BY <2>1, <2>2 DEF Header
    <3>2. NamesNobody(Passed(h, way)) /\ Passed(h, way) \in Lines
      BY <1>o, <3>1, ShortLines DEF NamesNobody, Lines
    <3>3. ~NamesClient(h)
      BY <2>2 DEF NamesClient, Absent, Header
    <3> QED
      BY <1>3, <3>2, <3>3
  <2>3. CASE h # Absent
    <3> DEFINE r == h.rest \o one
               e == [h EXCEPT !.rest = r]
    <3>1. h.rest \in Seq(Parts) /\ Append(h.rest, peer) = r
      BY <1>o, AppendIsConcat DEF Lines
    <3>2. Passed(h, way) = e
      BY <2>1, <2>3, <3>1
    <3>3. r \in Seq(Parts) /\ (ProxiesFrom(h.rest, 1) => ProxiesFrom(r, 1))
      <4>1. 1 \in Nat \ {0}
        OBVIOUS
      <4>2. r \in Seq(Parts)
        BY <1>o, <3>1, ConcatProperties
      <4>3. ASSUME ProxiesFrom(h.rest, 1) PROVE ProxiesFrom(r, 1)
        BY <1>o, <3>1, <4>1, <4>3, ProxiesBehind
      <4> QED
        BY <4>2, <4>3
    <3> HIDE DEF r
    <3>4. e \in Lines /\ e.first = h.first /\ e.rest = r
      BY <3>3 DEF Lines
    <3> HIDE DEF e
    <3> QED
      BY <1>3, <3>2, <3>3, <3>4 DEF NamesNobody, NamesClient
  <2> QED
    BY <2>2, <2>3
<1>4. CASE way = "sets"
  <2>1. Passed(h, way) = Header(one)
    BY <1>4 DEF Passed
  <2> HIDE DEF one
  <2> QED
    BY <1>4, <1>o, <2>1, OneLine
<1>5. CASE way = "drops"
  <2>1. Passed(h, way) = Header(<<>>)
    BY <1>5 DEF Passed, Absent
  <2> QED
    BY <1>5, <2>1, ShortLines, OneLine
<1> QED
  BY <1>1, <1>2, <1>3, <1>4, <1>5 DEF Ways

\* The proxy next to the client: only what it replaces, appends to or drops says something.
LEMMA PassedByFirst ==
    ASSUME NEW h \in Lines, NEW way \in Ways, peer = Client
    PROVE  /\ Passed(h, way) \in Lines
           /\ way \in {"sets", "appends"} => NamesClient(Passed(h, way))
           /\ way = "drops" => NamesNobody(Passed(h, way))
<1> DEFINE one == <<peer>>
           f == h.first
           r == h.rest
<1>o. one \in Seq(Parts) /\ Len(one) = 1 /\ one[1] = Client /\ f \in Seq(Parts) /\ r \in Seq(Parts)
  BY ShortLines DEF Lines
<1>1. CASE way = "passes"
  BY <1>1 DEF Passed
<1>2. CASE way = "appends"
  <2> DEFINE j == f \o r
             s == j \o one
  <2>1. j \in Seq(Parts) /\ Len(j) \in Nat
    <3> HIDE DEF f, r
    <3>1. j \in Seq(Parts)
      BY <1>o, ConcatProperties
    <3> QED
      BY <3>1
  <2>2. Append(j, peer) = s
    <3>1. peer \in Parts
      BY ShortLines
    <3> HIDE DEF j
    <3> QED
      BY <2>1, <3>1, AppendIsConcat
  <2>3. Passed(h, way) = Header(s)
    BY <1>2, <2>2 DEF Passed, Appended
  <2> HIDE DEF j
  <2>4. s \in Seq(Parts) /\ Len(s) = Len(j) + 1 /\ s[Len(j) + 1] = Client
    <3>1. /\ s \in Seq(Parts) /\ Len(s) = Len(j) + Len(one)
          /\ \A i \in 1..Len(j) + Len(one) : s[i] = IF i <= Len(j) THEN j[i] ELSE one[i - Len(j)]
      BY <1>o, <2>1, ConcatProperties
    <3>2. Len(j) + 1 \in 1..Len(j) + Len(one) /\ ~(Len(j) + 1 <= Len(j)) /\ Len(j) + 1 - Len(j) = 1
      BY <1>o, <2>1
    <3> QED
      BY <1>o, <3>1, <3>2
  <2> DEFINE k == Len(j) + 1
  <2>5. k \in 1..Len(s) /\ s[k] = Client /\ ProxiesFrom(s, k + 1)
    <3>1. k \in Nat /\ k >= 1 /\ Len(s) = k
      BY <2>1, <2>4
    <3> QED
      BY <2>4, <3>1 DEF ProxiesFrom
  <2> HIDE DEF s, k
  <2> QED
    BY <1>2, <2>3, <2>4, <2>5, OneLine
<1>3. CASE way = "adds"
  <2>1. Passed(h, way) = IF h = Absent THEN Header(one) ELSE [h EXCEPT !.rest = Append(r, peer)]
    BY <1>3 DEF Passed, Added
  <2>2. Append(r, peer) \in Seq(Parts)
    BY <1>o, ShortLines
  <2>3. Header(one) \in Lines /\ [h EXCEPT !.rest = Append(r, peer)] \in Lines
    BY <1>o, <2>2, ShortLines DEF Header, Lines
  <2> QED
    BY <1>3, <2>1, <2>3
<1>4. CASE way = "sets"
  <2>1. Passed(h, way) = Header(one)
    BY <1>4 DEF Passed
  <2> HIDE DEF one
  <2>2. 1 \in 1..Len(one) /\ ProxiesFrom(one, 1 + 1)
    BY <1>o DEF ProxiesFrom
  <2> QED
    BY <1>4, <1>o, <2>1, <2>2, OneLine
<1>5. CASE way = "drops"
  <2>1. Passed(h, way) = Header(<<>>)
    BY <1>5 DEF Passed, Absent
  <2> QED
    BY <1>5, <2>1, ShortLines, OneLine
<1> QED
  BY <1>1, <1>2, <1>3, <1>4, <1>5 DEF Ways

\* The least of a set of numbers that has one.
LEMMA MinOfSome ==
    ASSUME NEW I \in SUBSET Int, NEW k \in I, \A i \in I : k <= i
    PROVE  Min(I) = k
<1>1. \E x \in I : \A y \in I : x <= y
  OBVIOUS
<1>2. Min(I) \in I /\ \A y \in I : Min(I) <= y
  BY <1>1, Zenon DEF Min
<1> DEFINE m == Min(I)
<1>3. m \in I /\ m <= k /\ k <= m
  BY <1>2
<1> HIDE DEF m
<1>4. m \in Int /\ k \in Int
  BY <1>3
<1>5. m = k
  BY <1>3, <1>4
<1> QED
  BY <1>5 DEF m

\* The greatest of a set of numbers that has one.
LEMMA MaxOfSome ==
    ASSUME NEW I \in SUBSET Int, NEW k \in I, \A i \in I : k >= i
    PROVE  Max(I) = k
<1>1. \E x \in I : \A y \in I : x >= y
  OBVIOUS
<1>2. Max(I) \in I /\ \A y \in I : Max(I) >= y
  BY <1>1, Zenon DEF Max
<1> DEFINE m == Max(I)
<1>3. m \in I /\ m >= k /\ k >= m
  BY <1>2
<1> HIDE DEF m
<1>4. m \in Int /\ k \in Int
  BY <1>3
<1>5. m = k
  BY <1>3, <1>4
<1> QED
  BY <1>5 DEF m

\* In a line that names the client the last part that can be used is the client; in one that
\* names nobody there is none.
LEMMA CandidateOf ==
    ASSUME NEW h \in Lines
    PROVE  /\ NamesClient(h) => Candidate(h) # 0 /\ h.first[Candidate(h)] = Client
           /\ NamesNobody(h) => Candidate(h) = 0
<1> DEFINE s == h.first
           I == {i \in 1..Len(s) : Usable(s[i])}
<1>1. Usable(Client) /\ \A a \in Proxies : ~Usable(a)
  BY ClientIPAssumption DEF Usable
<1>2. s \in Seq(Parts) /\ Len(s) \in Nat /\ I \in SUBSET Int
  BY DEF Lines
<1>3. Candidate(h) = IF I # {} THEN Max(I) ELSE 0
  BY DEF Candidate, SelectLastInSeq
<1>4. ASSUME NamesNobody(h) PROVE Candidate(h) = 0
  <2>1. ProxiesFrom(s, 1)
    BY <1>4 DEF NamesNobody
  <2>2. \A i \in 1..Len(s) : s[i] \in Proxies
    <3> HIDE DEF s
    <3> QED
      BY <1>2, <2>1 DEF ProxiesFrom
  <2>3. I = {}
    BY <1>1, <2>2
  <2> QED
    BY <1>3, <2>3
<1>5. ASSUME NamesClient(h) PROVE Candidate(h) # 0 /\ s[Candidate(h)] = Client
  <2>1. PICK k \in 1..Len(s) : s[k] = Client /\ ProxiesFrom(s, k + 1)
    BY <1>5 DEF NamesClient
  <2> HIDE DEF s
  <2>2. k \in I /\ k \in Nat /\ k # 0
    BY <1>1, <1>2, <2>1
  <2>3. ASSUME NEW i \in I PROVE k >= i
    <3>1. i \in 1..Len(s) /\ Usable(s[i])
      OBVIOUS
    <3>2. ~(i >= k + 1)
      BY <1>1, <2>1, <3>1 DEF ProxiesFrom
    <3> QED
      BY <1>2, <2>2, <3>1, <3>2
  <2> HIDE DEF I
  <2>4. Max(I) = k
    BY <1>2, <2>2, <2>3, MaxOfSome
  <2> QED
    BY <1>3, <2>1, <2>2, <2>4
<1> QED
  BY <1>4, <1>5

\* A request whose client is accountable is counted under its address.
LEMMA ResolvesToClient ==
    ASSUME HeadersInv, Accountable
    PROVE  ResolveClientIP = Client
<1>0. peer \in {Client} \cup Proxies /\ headers \in [Names -> Lines] /\ Client \notin Proxies /\ Headers \in Nat
  BY ClientIPAssumption DEF HeadersInv
<1>1. CASE peer = Client
  BY <1>0, <1>1 DEF ResolveClientIP
<1>2. CASE peer # Client
  <2>1. PICK k \in Names : says[k] = "client" /\ \A j \in Names : j < k => says[j] = "nothing"
    BY <1>2 DEF Accountable
  <2>2. Candidate(headers[k]) # 0 /\ headers[k].first[Candidate(headers[k])] = Client
    BY <1>0, <2>1, CandidateOf DEF HeadersInv
  <2>3. ASSUME NEW j \in Names, j < k PROVE Candidate(headers[j]) = 0
    BY <1>0, <2>1, <2>3, CandidateOf DEF HeadersInv
  <2>4. Len(headers) = Headers
    <3> DEFINE hs == headers
    <3>1. hs \in [1..Headers -> Lines] /\ Headers \in Nat
      BY <1>0 DEF Names
    <3> HIDE DEF hs
    <3>2. hs \in Seq(Lines)
      BY <3>1
    <3>3. Len(hs) = Headers
      BY <3>1, <3>2
    <3> QED
      BY <3>3 DEF hs
  <2> DEFINE I == {i \in 1..Len(headers) : Candidate(headers[i]) # 0}
  <2>5. I \in SUBSET Int /\ k \in I /\ k \in Int /\ k # 0
    BY <1>0, <2>2, <2>4 DEF Names
  <2>6. ASSUME NEW i \in I PROVE k <= i
    <3>1. i \in Names /\ i \in Int
      BY <1>0, <2>4 DEF Names
    <3> QED
      BY <2>3, <2>5, <3>1
  <2>7. Chosen = IF I # {} THEN Min(I) ELSE 0
    BY DEF Chosen, SelectInSeq
  <2> HIDE DEF I
  <2>8. Min(I) = k
    BY <2>5, <2>6, MinOfSome
  <2>9. Chosen = k
    BY <2>5, <2>7, <2>8
  <2> QED
    BY <1>0, <1>2, <2>2, <2>5, <2>9 DEF ResolveClientIP
<1> QED
  BY <1>1, <1>2

\* A way through a proxy keeps the headers as the history says.
LEMMA ForwardStep ==
    ASSUME HeadersInv, NEW proxy \in Proxies, NEW ways \in [Names -> Ways], Forward(proxy, ways)
    PROVE  HeadersInv'
<1>0. /\ peer \in {Client} \cup Proxies /\ headers \in [Names -> Lines] /\ Client \notin Proxies
      /\ says \in [Names -> {"anything", "client", "nothing"}] /\ counted = Nobody
  BY ClientIPAssumption DEF HeadersInv, Forward
<1>1. /\ headers' = [i \in Names |-> Passed(headers[i], ways[i])]
      /\ says' = [i \in Names |-> SaysNow(i, ways[i])]
      /\ peer' = proxy /\ counted' = Nobody
  BY <1>0 DEF Forward
<1>2. ASSUME NEW i \in Names
      PROVE  /\ headers'[i] \in Lines /\ says'[i] \in {"anything", "client", "nothing"}
             /\ says'[i] = "client" => NamesClient(headers'[i])
             /\ says'[i] = "nothing" => NamesNobody(headers'[i])
  <2> DEFINE h == headers[i]
             way == ways[i]
  <2>1. h \in Lines /\ way \in Ways /\ headers'[i] = Passed(h, way) /\ says'[i] = SaysNow(i, way)
    BY <1>0, <1>1
  <2>2. /\ says[i] = "client" => NamesClient(h)
        /\ says[i] = "nothing" => NamesNobody(h)
        /\ says[i] \in {"anything", "client", "nothing"}
    BY <1>0 DEF HeadersInv
  <2> HIDE DEF h, way
  <2>3. CASE peer = Client
    <3>1. /\ Passed(h, way) \in Lines
          /\ way \in {"sets", "appends"} => NamesClient(Passed(h, way))
          /\ way = "drops" => NamesNobody(Passed(h, way))
      BY <2>1, <2>3, PassedByFirst
    <3>2. says[i] = "anything"
      BY <2>3 DEF HeadersInv
    <3> QED
      BY <2>1, <2>3, <3>1, <3>2 DEF SaysNow
  <2>4. CASE peer # Client
    <3>1. /\ Passed(h, way) \in Lines
          /\ NamesNobody(h) => NamesNobody(Passed(h, way))
          /\ NamesClient(h) /\ way \notin {"sets", "drops"} => NamesClient(Passed(h, way))
          /\ way \in {"sets", "drops"} => NamesNobody(Passed(h, way))
      BY <1>0, <2>1, <2>4, PassedByProxy
    <3> QED
      BY <2>1, <2>2, <2>4, <3>1 DEF SaysNow
  <2> QED
    BY <2>3, <2>4
<1>3. headers' \in [Names -> Lines] /\ says' \in [Names -> {"anything", "client", "nothing"}]
  BY <1>1, <1>2
<1>4. peer' \in {Client} \cup Proxies /\ peer' # Client
  BY <1>0, <1>1
<1> QED
  BY <1>1, <1>2, <1>3, <1>4 DEF HeadersInv, CountedAsClient

\* So does the wrapper.
LEMMA RouteStep ==
    ASSUME HeadersInv, NEW proxy \in Proxies, Route(proxy)
    PROVE  HeadersInv'
<1>0. /\ headers \in [Names -> Lines] /\ Client \notin Proxies
      /\ headers' = [i \in Names |-> Joined(headers[i])] /\ says' = says
      /\ peer' = proxy /\ counted' = Nobody
  BY ClientIPAssumption DEF HeadersInv, Route
<1>1. ASSUME NEW i \in Names
      PROVE  /\ headers'[i] \in Lines
             /\ says[i] = "client" => NamesClient(headers'[i])
             /\ says[i] = "nothing" => NamesNobody(headers'[i])
  BY <1>0, JoinedLines DEF HeadersInv
<1>2. headers' \in [Names -> Lines] /\ peer' \in {Client} \cup Proxies /\ peer' # Client
  BY <1>0, <1>1
<1> QED
  BY <1>0, <1>1, <1>2 DEF HeadersInv, CountedAsClient

\* Whatever the client writes into however many trusted headers, and however the proxies behind
\* the first pass them on: when the first has put the client's address into one of them, and none
\* before it can say anything, the request is counted under that address.
THEOREM ClientsAreCounted == ClientIPSpec => []CountedAsClient
<1>1. ClientIPInit => HeadersInv
  <2> SUFFICES ASSUME ClientIPInit PROVE HeadersInv
    OBVIOUS
  <2>1. Written \subseteq Lines
    <3>1. SeqOf(Parts, MaxParts) \subseteq Seq(Parts)
      BY ClientIPAssumption, SeqOfParts
    <3>2. Absent \in Lines
      BY ShortLines, OneLine DEF Absent
    <3> QED
      BY <3>1, <3>2 DEF Written, Lines
  <2>2. headers \in [Names -> Lines]
    BY <2>1 DEF ClientIPInit
  <2> QED
    BY <2>2 DEF ClientIPInit, HeadersInv, CountedAsClient
<1>2. HeadersInv /\ [ClientIPNext]_clientIPVars => HeadersInv'
  <2> SUFFICES ASSUME HeadersInv, [ClientIPNext]_clientIPVars PROVE HeadersInv'
    OBVIOUS
  <2>1. CASE Serve
    <3>1. /\ counted' = ResolveClientIP /\ UNCHANGED <<peer, headers, says>>
      BY <2>1 DEF Serve
    <3>2. Accountable' = Accountable
      BY <3>1 DEF Accountable
    <3>3. CountedAsClient'
      BY <3>1, <3>2, ResolvesToClient DEF CountedAsClient
    <3> QED
      BY <3>1, <3>3 DEF HeadersInv, NamesClient, NamesNobody, ProxiesFrom
  <2>2. CASE UNCHANGED clientIPVars
    BY <2>2 DEF clientIPVars, HeadersInv, CountedAsClient, Accountable
  <2> QED
    BY <2>1, <2>2, ForwardStep, RouteStep DEF ClientIPNext
<1>3. HeadersInv => CountedAsClient
  BY DEF HeadersInv
<1> QED
  BY <1>1, <1>2, <1>3, PTL DEF ClientIPSpec

=============================================================================
