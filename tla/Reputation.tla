----------------------------- MODULE Reputation -----------------------------
(***************************************************************************)
(* The reputation scores of one or more server processes and the file they *)
(* are kept in.  Each process has its maps in memory, guarded by a lock,   *)
(* and one maintenance goroutine that decays, evicts and saves them; the   *)
(* wrapper gives all its workers the same configuration and so the same    *)
(* storePath.  Processes crash, are told to stop, exit and start again.    *)
(***************************************************************************)
EXTENDS Integers, FiniteSets

CONSTANTS Procs,      \* server processes that use the store
          Sources,    \* keys of r.sources
          Dests,      \* keys of r.dests
          Weights,    \* values of cfg.Weights and cfg.DestWeights; the configurations in the
                      \* repository have negative ones, for what should lower a score
          Escalation, \* cfg.DestWeights["distinctSourcesEscalation"]
          Decays,     \* values of int(DecayPerHour * elapsed hours) at a tick
          Warn, Throttle, Strict  \* cfg.Thresholds, 0 for none

ASSUME WeightsType == /\ Weights \subseteq Int /\ Escalation \in Int
                      /\ Decays \subseteq Nat
ASSUME ThresholdsType == {Warn, Throttle, Strict} \subseteq Nat

VARIABLES mem,    \* [Procs -> scores]: r.sources and r.dests
          up,     \* [Procs -> BOOLEAN]: the process runs
          stop,   \* [Procs -> BOOLEAN]: g.stop is closed
          maint,  \* [Procs -> [pc, data, fd, last]]: next step of RunMaintenance, the
                  \* marshalled snapshot, the name the open file now has, and
                  \* whether this save is the last
          tmp,    \* the file storePath.tmp
          store,  \* the file storePath
          saved   \* history: what the last SaveNow that succeeded had marshalled

reputationVars == <<mem, up, stop, maint, tmp, store, saved>>

Keys == Sources \cup Dests
NoScores == [k \in Keys |-> [score |-> 0, seen |-> {}]]

\* A file is absent, torn (created or written in part) or holds a snapshot.
File(kind, data) == [kind |-> kind, data |-> data]
Absent == File("absent", NoScores)
Torn == File("torn", NoScores)

Idle == [pc |-> "idle", data |-> NoScores, fd |-> "none", last |-> FALSE]

ReputationInit ==
    /\ mem = [p \in Procs |-> NoScores]
    /\ up = [p \in Procs |-> TRUE]
    /\ stop = [p \in Procs |-> FALSE]
    /\ maint = [p \in Procs |-> Idle]
    /\ tmp = Absent /\ store = Absent /\ saved = NoScores

-----------------------------------------------------------------------------
(* Scores.                                                                 *)

clampScore(v) == IF v < 0 THEN 0 ELSE IF v > 100 THEN 100 ELSE v

Tier(score) ==
    IF Strict > 0 /\ score >= Strict THEN 3
    ELSE IF Throttle > 0 /\ score >= Throttle THEN 2
    ELSE IF Warn > 0 /\ score >= Warn THEN 1
    ELSE 0

AddSource(p, k, w) ==
    /\ up[p]
    /\ mem' = [mem EXCEPT ![p][k].score = clampScore(@ + w)]
    /\ UNCHANGED <<up, stop, maint, tmp, store, saved>>

\* A destination's score escalates with each new source that misuses it.
AddDest(p, k, w, src) ==
    /\ up[p]
    /\ LET e == mem[p][k]
           base == clampScore(e.score + w)
       IN mem' = [mem EXCEPT ![p][k] =
              [score |-> IF src \in e.seen THEN base ELSE clampScore(base + Escalation),
               seen |-> e.seen \cup {src}]]
    /\ UNCHANGED <<up, stop, maint, tmp, store, saved>>

-----------------------------------------------------------------------------
(* RunMaintenance: a tick decays, evicts and saves; stop saves and returns. *)

At(p, pc) == up[p] /\ maint[p].pc = pc
Go(p, pc) == maint' = [maint EXCEPT ![p].pc = pc]

Decayed(e, delta) == [e EXCEPT !.score = clampScore(@ - delta)]

Decay(p, delta) ==
    /\ At(p, "idle")
    /\ mem' = [mem EXCEPT ![p] = [k \in Keys |-> Decayed(@[k], delta)]]
    /\ Go(p, "evict")
    /\ UNCHANGED <<up, stop, tmp, store, saved>>

EvictableAny(e) == TRUE
Evictable(e) == e.score < 5

\* Entries of low score, of those in "old", not seen for EvictAfter, are deleted.
Evict(p, old) ==
    /\ At(p, "evict")
    /\ mem' = [mem EXCEPT ![p] = [k \in Keys |->
                  IF k \in old /\ Evictable(@[k]) THEN NoScores[k] ELSE @[k]]]
    /\ Go(p, "marshal")
    /\ UNCHANGED <<up, stop, tmp, store, saved>>

StopSave(p) ==
    /\ At(p, "idle") /\ stop[p]
    /\ maint' = [maint EXCEPT ![p] = [@ EXCEPT !.pc = "marshal", !.last = TRUE]]
    /\ UNCHANGED <<mem, up, stop, tmp, store, saved>>

(* SaveNow: the maps are marshalled under the lock, and written without it. *)

Marshal(p) ==
    /\ At(p, "marshal")
    /\ maint' = [maint EXCEPT ![p] = [@ EXCEPT !.pc = "create", !.data = mem[p]]]
    /\ UNCHANGED <<mem, up, stop, tmp, store, saved>>

CreateInPlace(p) ==
    /\ At(p, "create")
    /\ tmp' = Torn /\ store' = Torn
    /\ maint' = [maint EXCEPT ![p] = [@ EXCEPT !.pc = "write", !.fd = "tmp"]]
    /\ UNCHANGED <<mem, up, stop, saved>>

\* os.WriteFile truncates the file, then writes it.
CreateTmp(p) ==
    /\ At(p, "create")
    /\ tmp' = Torn
    /\ maint' = [maint EXCEPT ![p] = [@ EXCEPT !.pc = "write", !.fd = "tmp"]]
    /\ UNCHANGED <<mem, up, stop, store, saved>>

\* What a write leaves: the snapshot, or a mixture if another process has written.
Written(f, data) == {File("full", data)} \cup (IF f.kind = "full" THEN {Torn} ELSE {})

\* The write goes to the file opened, whatever other processes have renamed.
WriteTmp(p) ==
    /\ At(p, "write")
    /\ IF maint[p].fd = "tmp" THEN tmp' \in Written(tmp, maint[p].data) ELSE UNCHANGED tmp
    /\ IF maint[p].fd = "store" THEN store' \in Written(store, maint[p].data) ELSE UNCHANGED store
    /\ Go(p, "rename")
    /\ UNCHANGED <<mem, up, stop, saved>>

\* The goroutine goes on to wait for the next tick, or returns.
AfterSave(p) == IF maint[p].last THEN [Idle EXCEPT !.pc = "returned"] ELSE Idle

\* A failed write is an error that RunMaintenance ignores.
WriteError(p) ==
    /\ At(p, "write")
    /\ maint' = [maint EXCEPT ![p] = AfterSave(p)]
    /\ UNCHANGED <<mem, up, stop, tmp, store, saved>>

RenamedFd(fd) == IF fd = "tmp" THEN "store" ELSE IF fd = "store" THEN "gone" ELSE fd

\* It fails, to no effect, if another process has renamed the file.
Rename(p) ==
    /\ At(p, "rename")
    /\ IF tmp.kind = "absent" THEN UNCHANGED <<tmp, store, saved>>
       ELSE tmp' = Absent /\ store' = tmp /\ saved' = maint[p].data
    /\ maint' = [q \in Procs |->
                    IF q = p THEN AfterSave(p)
                    ELSE IF tmp.kind = "absent" THEN maint[q]
                    ELSE [maint[q] EXCEPT !.fd = RenamedFd(@)]]
    /\ UNCHANGED <<mem, up, stop>>

-----------------------------------------------------------------------------
(* The process: main and Shutdown.                                         *)

\* SIGTERM: Shutdown closes g.stop, and makes ListenAndServe return.
Shutdown(p) ==
    /\ up[p] /\ ~stop[p]
    /\ stop' = [stop EXCEPT ![p] = TRUE]
    /\ UNCHANGED <<mem, up, maint, tmp, store, saved>>

Down(p) ==
    /\ up' = [up EXCEPT ![p] = FALSE]
    /\ mem' = [mem EXCEPT ![p] = NoScores]
    /\ maint' = [maint EXCEPT ![p] = Idle]
    /\ UNCHANGED <<stop, tmp, store, saved>>

\* main returns, which ends every goroutine; a crash does so at any time.
MainReturns(p) == up[p] /\ stop[p] /\ Down(p)
Crash(p) == up[p] /\ ~stop[p] /\ Down(p)

\* BuildGlobals: Load starts empty from an absent file and from one it cannot parse.
Loaded == IF store.kind = "full" THEN store.data ELSE NoScores

Restart(p) ==
    /\ ~up[p]
    /\ up' = [up EXCEPT ![p] = TRUE]
    /\ stop' = [stop EXCEPT ![p] = FALSE]
    /\ mem' = [mem EXCEPT ![p] = Loaded]
    /\ UNCHANGED <<maint, tmp, store, saved>>

SaveStep(p) ==
    Marshal(p) \/ CreateTmp(p) \/ WriteTmp(p) \/ WriteError(p) \/ Rename(p)

ReputationNext ==
    \E p \in Procs :
        \/ \E k \in Sources, w \in Weights : AddSource(p, k, w)
        \/ \E k \in Dests, w \in Weights, src \in Sources : AddDest(p, k, w, src)
        \/ \E delta \in Decays : Decay(p, delta)
        \/ \E old \in SUBSET Keys : Evict(p, old)
        \/ StopSave(p) \/ SaveStep(p)
        \/ Shutdown(p) \/ MainReturns(p) \/ Crash(p) \/ Restart(p)

ReputationSpec == ReputationInit /\ [][ReputationNext]_reputationVars

-----------------------------------------------------------------------------
(* Properties.                                                             *)

\* A process that starts again, after a crash, an exit or a failed write between any two steps of
\* a save, can read the store and has the scores of the last save that succeeded.
RestartRestores == [][\A p \in Procs : ~up[p] /\ up'[p] => mem'[p] = saved]_reputationVars

\* A report about k that may lower its score: one of its weights is negative.
Forgiving(p, k) ==
    \/ \E w \in Weights : w < 0 /\ AddSource(p, k, w)
    \/ \E w \in Weights, src \in Sources : (w < 0 \/ Escalation < 0) /\ AddDest(p, k, w, src)

\* While a process runs, the tier of a source or destination falls only when its scores decay or
\* when something is reported about this very key under a negative weight: eviction and saving
\* never give one that is watched a clean record, nor does a report about another.
TierFallsByDecay ==
    [][\A p \in Procs, k \in Keys :
          up[p] /\ up'[p] /\ Tier(mem'[p][k].score) < Tier(mem[p][k].score) =>
              (\E delta \in Decays : Decay(p, delta)) \/ Forgiving(p, k)]_reputationVars

=============================================================================
