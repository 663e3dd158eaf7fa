------------------------------- MODULE Wrapper -------------------------------
(***************************************************************************)
(* The Node wrapper's worker processes: start, stop, kill and the choice   *)
(* of a worker by route.  JavaScript runs one piece of code at a time, so  *)
(* an action is what runs between two awaits or in one event handler.  A   *)
(* worker is the number of the spawn that made it.                         *)
(***************************************************************************)
EXTENDS Integers, Sequences, FiniteSets, SequencesExt

CONSTANTS Callers,      \* callers of start()
          Configs,      \* values of config.port, as sequences (a number is one of length 1)
          Ports,        \* 1..65535, bounded
          MaxCount,     \* bound on start's count
          MaxWorkers    \* bound on the workers ever spawned

ASSUME PortsType == Ports \subseteq Nat /\ Configs \subseteq (Seq(Nat) \ {<<>>})
ASSUME BoundsType == {MaxCount, MaxWorkers} \subseteq Nat \ {0}

VARIABLES
    portConfig,  \* this.config.port
    running,     \* this.processes is not undefined
    processes,   \* this.processes, <<>> when undefined
    ports,       \* this.processPorts
    reqIndex,    \* this.reqIndex
    calls,       \* each start(): [pc, i, count, port, worker]
    stop,        \* the stop(): [pc, workers, gone]
    spawned,     \* how many workers were spawned
    worker,      \* each worker: [st, port, sig, handled]
    picks        \* history: ports routed to since the workers last changed

vars == <<portConfig, running, processes, ports, reqIndex, calls, stop, spawned, worker, picks>>

Workers == 1..MaxWorkers
NoCall == [pc |-> "idle", i |-> 0, count |-> 0, port |-> 0, worker |-> 0]
Settled == {"idle", "ok", "failed"}

Init ==
    /\ portConfig \in Configs
    /\ running = FALSE /\ processes = <<>> /\ ports = <<>> /\ reqIndex = 0
    /\ calls = [c \in Callers |-> NoCall]
    /\ stop = [pc |-> "idle", workers |-> {}, gone |-> {}]
    /\ spawned = 0
    /\ worker = [w \in Workers |-> [st |-> "none", port |-> 0, sig |-> "no", handled |-> FALSE]]
    /\ picks = <<>>

Live(w) == worker[w].st \in {"spawning", "spawned", "listening"}
Exited(w) == worker[w].st \in {"exited", "closed"}
Listening(p) == \E w \in Workers : worker[w].st = "listening" /\ worker[w].port = p

AllGone == \A w \in stop.workers : w \in stop.gone \/ worker[w].st = "closed"

\* No code is left to run before the next event, synchronously or as a microtask.
Quiet == ~(stop.pc = "wait" /\ AllGone) /\ \A c \in Callers : calls[c].pc # "fail"
At(c, pc) == Quiet /\ calls[c].pc = pc

\* A caller that awaits each call makes the next one when none is in flight.
MayCall == Quiet /\ stop.pc # "wait" /\ \A c \in Callers : calls[c].pc \in Settled

SetWorkers(def, procs, prts) ==
    /\ running' = def /\ processes' = procs /\ ports' = prts /\ picks' = <<>>

Signalled(ws, sig) == [w \in Workers |->
    IF w \in ws /\ ~Exited(w) THEN [worker[w] EXCEPT !.sig = sig] ELSE worker[w]]

\* signal("SIGKILL"): a warning and nothing else when this.processes is undefined.
SignalAll ==
    IF running THEN worker' = Signalled(ToSet(processes), "kill") /\ SetWorkers(FALSE, <<>>, <<>>)
    ELSE UNCHANGED <<worker, running, processes, ports, picks>>

Fail(c) == calls' = [calls EXCEPT ![c].pc = "failed"]

-----------------------------------------------------------------------------
(* start(count).                                                           *)

Preferred(i) == IF i + 1 <= Len(portConfig) THEN portConfig[i + 1] ELSE portConfig[Len(portConfig)]

\* getAvailablePort: the ports from p on that no worker of this wrapper has.
TakenPorts(prts) == ToSet(prts)
Candidates(p, prts) == {q \in Ports : q >= p} \ TakenPorts(prts)

\* The search for a port from p on: waiting for detect, or out of ports.
SearchFrom(call, p, prts) ==
    IF Candidates(p, prts) = {} THEN [call EXCEPT !.pc = "fail"]
    ELSE [call EXCEPT !.pc = "detect", !.port = CHOOSE q \in Candidates(p, prts) :
                                                   \A r \in Candidates(p, prts) : q <= r]

\* The i-th turn of the loop, up to its first await.
Turn(call, i, prts) ==
    IF Preferred(i) \in Ports THEN SearchFrom([call EXCEPT !.i = i], Preferred(i), prts)
    ELSE [call EXCEPT !.i = i, !.pc = "fail"]

StartRefused(c) ==
    /\ calls[c].pc \in Settled /\ MayCall
    /\ processes # <<>>
    /\ Fail(c)
    /\ UNCHANGED <<portConfig, running, processes, ports, reqIndex, stop, spawned, worker, picks>>

NotRunning == processes = <<>>

StartBegin(c, n) ==
    /\ calls[c].pc \in Settled /\ MayCall /\ spawned + n <= MaxWorkers
    /\ NotRunning
    /\ SetWorkers(TRUE, <<>>, <<>>)
    /\ calls' = [calls EXCEPT ![c] = Turn([NoCall EXCEPT !.count = n], 0, <<>>)]
    /\ UNCHANGED <<portConfig, reqIndex, stop, spawned, worker>>

\* No valid or no available port: the workers started so far are killed.
StartFail(c) ==
    /\ calls[c].pc = "fail"
    /\ Fail(c)
    /\ IF processes # <<>> THEN SignalAll ELSE UNCHANGED <<worker, running, processes, ports, picks>>
    /\ UNCHANGED <<portConfig, reqIndex, stop, spawned>>

DetectBusy(c) ==
    /\ At(c, "detect") /\ Listening(calls[c].port)
    /\ calls' = [calls EXCEPT ![c] = SearchFrom(@, @.port + 1, ports)]
    /\ UNCHANGED <<portConfig, running, processes, ports, reqIndex, stop, spawned, worker, picks>>

DetectFree(c) ==
    /\ At(c, "detect") /\ ~Listening(calls[c].port)
    /\ spawned < MaxWorkers
    /\ spawned' = spawned + 1
    /\ worker' = [worker EXCEPT ![spawned'].st = "spawning", ![spawned'].port = calls[c].port]
    /\ calls' = [calls EXCEPT ![c].pc = "spawn", ![c].worker = spawned']
    /\ UNCHANGED <<portConfig, running, processes, ports, reqIndex, stop, picks>>

SpawnError(c) ==
    /\ At(c, "spawn") /\ worker[calls[c].worker].st = "spawning"
    /\ Fail(c)
    /\ LET dead == [worker EXCEPT ![calls[c].worker].st = "closed"] IN
          IF processes # <<>>
          THEN /\ worker' = [w \in Workers |-> IF w = calls[c].worker THEN dead[w]
                                               ELSE Signalled(ToSet(processes), "kill")[w]]
               /\ SetWorkers(FALSE, <<>>, <<>>)
          ELSE worker' = dead /\ UNCHANGED <<running, processes, ports, picks>>
    /\ UNCHANGED <<portConfig, reqIndex, stop, spawned>>

\* The worker is recorded with its port and its close handler installed...
SpawnDone(c) ==
    /\ At(c, "spawn") /\ running
    /\ LET w == calls[c].worker IN
          /\ SetWorkers(TRUE, Append(processes, w), Append(ports, calls[c].port))
          /\ worker' = [worker EXCEPT ![w].handled = TRUE,
                                      ![w].st = IF @ = "spawning" THEN "spawned" ELSE @]
          /\ calls' = [calls EXCEPT ![c].pc = "wait"]
    /\ UNCHANGED <<portConfig, reqIndex, stop, spawned>>

\* ...or this.processes is undefined by now and push throws.
SpawnLost(c) ==
    /\ At(c, "spawn") /\ ~running
    /\ worker' = [worker EXCEPT ![calls[c].worker].st = IF @ = "spawning" THEN "spawned" ELSE @]
    /\ Fail(c)
    /\ UNCHANGED <<portConfig, running, processes, ports, reqIndex, stop, spawned, picks>>

\* waitForWorker: something on the port answered the health check.
WorkerReady(c) ==
    /\ At(c, "wait") /\ Listening(calls[c].port)
    /\ calls' = [calls EXCEPT ![c] = IF @.i + 1 < @.count THEN Turn(@, @.i + 1, ports)
                                     ELSE [@ EXCEPT !.pc = "ok"]]
    /\ UNCHANGED <<portConfig, running, processes, ports, reqIndex, stop, spawned, worker, picks>>

\* The worker exited, or ten seconds passed: all workers are killed.
WorkerNotReady(c) ==
    /\ At(c, "wait")
    /\ Fail(c)
    /\ SignalAll
    /\ UNCHANGED <<portConfig, reqIndex, stop, spawned>>

-----------------------------------------------------------------------------
(* The worker processes.                                                   *)

\* The server binds its port; if it is taken it exits.
Listen(w) ==
    /\ worker[w].st \in {"spawning", "spawned"}
    /\ worker' = [worker EXCEPT ![w].st = IF Listening(worker[w].port) THEN "exited" ELSE "listening"]
    /\ UNCHANGED <<portConfig, running, processes, ports, reqIndex, calls, stop, spawned, picks>>

\* It exits: signalled, or by itself.
Exit(w) ==
    /\ worker[w].st \in {"spawned", "listening"}
    /\ worker' = [worker EXCEPT ![w].st = "exited"]
    /\ UNCHANGED <<portConfig, running, processes, ports, reqIndex, calls, stop, spawned, picks>>

\* splice(idx, 1) of either list, at the index of the worker, if it is found.
Spliced(list, w) ==
    IF w \in ToSet(processes) THEN RemoveAt(list, CHOOSE k \in 1..Len(processes) : processes[k] = w)
    ELSE list

WithoutPortKept(w, prts) == prts
WithoutPort(w, prts) == Spliced(prts, w)

\* Its close event: the handler takes it and its port off the lists, and drops
\* this.processes when (found or not) the list is empty.
Closed(w) ==
    /\ Quiet /\ worker[w].st = "exited"
    /\ worker' = [worker EXCEPT ![w].st = "closed"]
    /\ LET left == Spliced(processes, w) IN
          IF worker[w].handled
          THEN SetWorkers(running /\ left # <<>>, left, WithoutPort(w, ports))
          ELSE UNCHANGED <<running, processes, ports, picks>>
    /\ UNCHANGED <<portConfig, reqIndex, calls, stop, spawned>>

-----------------------------------------------------------------------------
(* route, stop and kill.                                                   *)

NextIndexSkips(len) == (reqIndex + 2) % len
NextIndex(len) == (reqIndex + 1) % len

\* nextPort(); only the last Len(ports) choices are remembered.
Route ==
    /\ Quiet /\ ports # <<>>
    /\ LET len == Len(ports)
           all == Append(picks, ports[(reqIndex % len) + 1])
       IN /\ picks' = IF Len(all) > len THEN Tail(all) ELSE all
          /\ reqIndex' = NextIndex(len)
    /\ UNCHANGED <<portConfig, running, processes, ports, calls, stop, spawned, worker>>

StopBegin ==
    /\ stop.pc # "wait" /\ MayCall
    /\ processes # <<>>
    /\ LET ws == ToSet(processes) IN
          /\ stop' = [pc |-> "wait", workers |-> ws, gone |-> {w \in ws : Exited(w)}]
          /\ worker' = Signalled(ws, "term")
    /\ UNCHANGED <<portConfig, running, processes, ports, reqIndex, calls, spawned, picks>>

StopGraceful ==
    /\ stop.pc = "wait" /\ AllGone
    /\ stop' = [stop EXCEPT !.pc = "done"]
    /\ SetWorkers(FALSE, <<>>, <<>>)
    /\ UNCHANGED <<portConfig, reqIndex, calls, spawned, worker>>

LateWorkersNone(ws) == {}
LateWorkers(ws) == {w \in ws : ~Exited(w)}

StopTimeout ==
    /\ Quiet /\ stop.pc = "wait"
    /\ stop' = [stop EXCEPT !.pc = "done"]
    /\ worker' = Signalled(LateWorkers(stop.workers), "kill")
    /\ SetWorkers(FALSE, <<>>, <<>>)
    /\ UNCHANGED <<portConfig, reqIndex, calls, spawned>>

Kill ==
    /\ MayCall /\ running
    /\ SignalAll
    /\ UNCHANGED <<portConfig, reqIndex, calls, stop, spawned>>

-----------------------------------------------------------------------------
Start(c) ==
    \/ DetectBusy(c) \/ DetectFree(c) \/ SpawnError(c) \/ SpawnDone(c) \/ SpawnLost(c)
    \/ WorkerReady(c) \/ WorkerNotReady(c)

Next ==
    \/ \E c \in Callers : \/ StartRefused(c) \/ StartFail(c) \/ Start(c)
                         \/ \E n \in 1..MaxCount : StartBegin(c, n)
    \/ \E w \in Workers : Listen(w) \/ Exit(w) \/ Closed(w)
    \/ Route \/ StopBegin \/ StopGraceful \/ StopTimeout \/ Kill

Spec == Init /\ [][Next]_vars

\* Promises settle, timers fire, and a process whose close is due emits it.
FairSpec ==
    /\ Spec
    /\ WF_vars(StopGraceful) /\ WF_vars(StopTimeout)
    /\ \A c \in Callers : WF_vars(StartFail(c)) /\ WF_vars(Start(c))
    /\ \A w \in Workers : WF_vars(Closed(w))

-----------------------------------------------------------------------------
(* Properties.                                                             *)

\* route sends a request to a worker's own port: processes and processPorts stay parallel, and
\* the ports distinct, through every push, splice and reset; and a worker start() has recorded
\* stays on the list as long as it runs, unless it was told to end: no later start(), stop() or
\* close event loses it.
ListsMatch ==
    /\ Len(ports) = Len(processes) /\ (~running => processes = <<>>)
    /\ \A k \in 1..Len(processes) : worker[processes[k]].port = ports[k]
    /\ \A v, w \in ToSet(processes) : v # w => worker[v].port # worker[w].port
    /\ \A w \in Workers :
           Live(w) /\ worker[w].handled /\ worker[w].sig = "no" => w \in ToSet(processes)

\* As long as the workers stay the same, requests go round all of them: no port
\* is chosen twice among Len(ports) requests in a row.
RoundRobin == IsInjective(picks)

\* Every call settles: start() resolves, or is refused or fails, although its worker may be
\* neither healthy nor gone; stop() resolves when each worker it stopped has exited or was killed.
CallsSettle ==
    /\ \A c \in Callers : calls[c].pc \notin Settled ~> calls[c].pc \in Settled
    /\ stop.pc = "wait" ~>
         (stop.pc = "done" /\ \A w \in stop.workers : Exited(w) \/ worker[w].sig = "kill")

\* A running worker is on the list, so that stop() and kill() reach it, unless
\* it was told to end or its start() is still in progress.
NoOrphan ==
    \A w \in Workers : Live(w) /\ worker[w].sig = "no" =>
        \/ w \in ToSet(processes)
        \/ \E c \in Callers : calls[c].pc = "spawn" /\ calls[c].worker = w
=============================================================================
