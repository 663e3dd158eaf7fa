------------------------------- MODULE Session -------------------------------
(***************************************************************************)
(* A connection from its handshake to its end, and the terminals (Twisp)   *)
(* a client may open once it has logged in. The read loop handles one      *)
(* packet after the other; each terminal has goroutines of its own that    *)
(* start, watch and close it. TCP and UDP streams are in Stream and        *)
(* StreamTable: here it only matters that one was opened.                  *)
(***************************************************************************)
EXTENDS Integers, FiniteSets

CONSTANTS Terms,       \* terminals: one per CONNECT packet that starts one
          TermIds,     \* stream ids the client uses for them
          None,        \* no terminal
          MaxPackets   \* bound on the client's packets

ASSUME SessionAssumption == None \notin Terms /\ MaxPackets \in Nat

VARIABLES config,    \* [v2, auth, required, twisp]: c.isV2 and the configuration
          shake,     \* c.handshakeDone: "pending", or "nil"
          deadline,  \* of reads: "none", "armed" or "expired"
          authenticated,
          login,     \* history: the server has checked a right password
          isClosed,  \* c.isClosed; the socket is closed
          opened,    \* a stream was opened
          rpc,       \* the read loop: "read", "closing" (a terminal), "end", "sweep", "sweeping", "done"
          rt,        \* the terminal it is closing
          todo,      \* terminals that deleteAllWispStreams has still to close
          packets,   \* packets handled
          term,      \* [Terms -> [pc, id, proc, isOpen, closer]]
          terminals, \* c.twispStreams.streams
          pend,      \* terminals a CLOSE packet has started a goroutine for
          misused    \* history: an open terminal's id was used again, or one came after the sweep

handshake == <<config, shake, deadline, authenticated, login>>
loop == <<rpc, rt, todo, packets>>
terms == <<term, terminals, pend, misused>>
sessionVars == <<handshake, isClosed, opened, loop, terms>>

NoTerm == [pc |-> "free", id |-> 0, proc |-> "none", isOpen |-> FALSE, closer |-> "none"]
Configs == {c \in [v2 : BOOLEAN, auth : BOOLEAN, required : BOOLEAN, twisp : BOOLEAN] :
              /\ c.required => c.auth
              /\ c.required \/ c.twisp => c.v2}  \* requiresV2

\* The read deadline the HTTP handler sets before v2Handshake.
UnarmedDeadline == "none"
FirstDeadline == IF config.v2 THEN "armed" ELSE "none"

SessionInit ==
    /\ config \in Configs
    /\ shake = IF config.v2 THEN "pending" ELSE "nil"
    /\ deadline = FirstDeadline
    /\ authenticated = FALSE /\ login = FALSE /\ isClosed = FALSE /\ opened = FALSE
    /\ rpc = "read" /\ rt = None /\ todo = {} /\ packets = 0
    /\ term = [t \in Terms |-> NoTerm]
    /\ terminals = [i \in TermIds |-> None]
    /\ pend = {} /\ misused = FALSE

-----------------------------------------------------------------------------
(* The handshake.                                                          *)

\* A packet is read: the socket is open and the deadline has not passed.
Receive ==
    /\ rpc = "read" /\ ~isClosed /\ deadline # "expired" /\ packets < MaxPackets
    /\ packets' = packets + 1

BeforeHandshake == shake = "pending"

\* handleInfo; kind says what the payload holds: it does not parse or is of another version,
\* names no user, or has a wrong or a right password.
AuthPassed(kind) == config.auth /\ kind = "right"
Refused(kind) ==
    \/ kind = "invalid"
    \/ config.auth /\ kind = "wrong"
    \/ config.required /\ ~AuthPassed(kind)

InfoRefused(kind) ==
    /\ Receive /\ BeforeHandshake /\ Refused(kind)
    /\ isClosed' = TRUE
    /\ UNCHANGED <<handshake, opened, rpc, rt, todo, terms>>

Cleared == deadline' = "none"

InfoAccepted(kind) ==
    /\ Receive /\ BeforeHandshake /\ ~Refused(kind)
    /\ authenticated' = AuthPassed(kind)
    /\ login' = (login \/ (config.auth /\ kind = "right"))
    /\ Cleared /\ shake' = "nil"
    /\ UNCHANGED <<config, isClosed, opened, rpc, rt, todo, terms>>

\* Dropped: anything but INFO and CLOSE before the handshake, INFO after it or on a stream.
Ignored ==
    /\ Receive
    /\ UNCHANGED <<handshake, isClosed, opened, rpc, rt, todo, terms>>

\* CLOSE of stream 0.
CloseConnection ==
    /\ Receive
    /\ isClosed' = TRUE
    /\ UNCHANGED <<handshake, opened, rpc, rt, todo, terms>>

\* The deadline passes, unless the handshake clears it first.
Deadline ==
    /\ deadline = "armed" /\ deadline' = "expired"
    /\ UNCHANGED <<config, shake, authenticated, login, isClosed, opened, loop, terms>>

\* Another goroutine closes the connection: Shutdown(), a full or failing write queue.
CloseElsewhere ==
    /\ ~isClosed /\ isClosed' = TRUE
    /\ UNCHANGED <<handshake, opened, loop, terms>>

-----------------------------------------------------------------------------
(* Packets of streams and terminals, once the handshake is over.           *)

Data == Receive /\ ~BeforeHandshake

OpenStream ==
    /\ Data /\ opened' = TRUE
    /\ UNCHANGED <<handshake, isClosed, rpc, rt, todo, terms>>

TwispUnchecked == config.twisp /\ config.v2
TwispAllowed == config.twisp /\ config.v2 /\ config.auth /\ authenticated

Over(t) == term[t].pc = "failed" \/ term[t].closer = "done"

\* CONNECT of a terminal. The refusals send a CLOSE packet and are Ignored.
Connect(t, id) ==
    /\ Data /\ TwispAllowed
    /\ term[t].pc = "free"
    /\ term' = [term EXCEPT ![t] = [NoTerm EXCEPT !.pc = "starting", !.id = id]]
    /\ misused' = (misused \/ \E u \in Terms : term[u].id = id /\ ~Over(u))
    /\ UNCHANGED <<handshake, isClosed, opened, rpc, rt, todo, terminals, pend>>

\* CLOSE of a terminal: a goroutine will close it.
ClosePacket(id) ==
    /\ Data /\ terminals[id] # None
    /\ pend' = pend \cup {terminals[id]}
    /\ UNCHANGED <<handshake, isClosed, opened, rpc, rt, todo, term, terminals, misused>>

\* close(): only the first caller goes on.
BeginClose(t) == term' = [term EXCEPT ![t].isOpen = FALSE, ![t].closer = "remove"]

\* DATA whose write to the terminal fails: the read loop closes the terminal itself.
DataFails(id) ==
    /\ Data /\ terminals[id] # None /\ term[terminals[id]].isOpen
    /\ BeginClose(terminals[id])
    /\ rpc' = "closing" /\ rt' = terminals[id]
    /\ UNCHANGED <<handshake, isClosed, opened, todo, terminals, pend, misused>>

\* The read loop has closed the terminal.
Closed ==
    /\ rpc \in {"closing", "sweeping"} /\ term[rt].closer = "done"
    /\ rpc' = IF rpc = "closing" THEN "read" ELSE "sweep"
    /\ rt' = None
    /\ UNCHANGED <<handshake, isClosed, opened, todo, packets, terms>>

-----------------------------------------------------------------------------
(* handleTwisp and the goroutines of a terminal.                           *)

\* pty.StartWithSize
StartProcess(t) ==
    /\ term[t].pc = "starting"
    /\ term' = [term EXCEPT ![t].pc = "started", ![t].proc = "running", ![t].isOpen = TRUE]
    /\ UNCHANGED <<handshake, isClosed, opened, loop, terminals, pend, misused>>

\* The command does not parse or does not start: a CLOSE packet and no terminal.
StartFails(t) ==
    /\ term[t].pc = "starting"
    /\ term' = [term EXCEPT ![t].pc = "failed"]
    /\ UNCHANGED <<handshake, isClosed, opened, loop, terminals, pend, misused>>

\* twispStreams.add; then readPty and cmd.Wait run.
Register(t) ==
    /\ term[t].pc = "started"
    /\ term' = [term EXCEPT ![t].pc = "live"]
    /\ terminals' = [terminals EXCEPT ![term[t].id] = t]
    /\ misused' = (misused \/ rpc \in {"sweep", "sweeping", "done"})
    /\ UNCHANGED <<handshake, isClosed, opened, loop, pend>>

ProcessExits(t) ==
    /\ term[t].proc = "running"
    /\ term' = [term EXCEPT ![t].proc = "exited"]
    /\ UNCHANGED <<handshake, isClosed, opened, loop, terminals, pend, misused>>

\* cmd.Wait returns, or readPty fails, which it may also do while the process runs.
CloseOwn(t) ==
    /\ term[t].pc = "live" /\ term[t].isOpen
    /\ BeginClose(t)
    /\ UNCHANGED <<handshake, isClosed, opened, loop, terminals, pend, misused>>

CloseExited(t) == term[t].proc # "running" /\ CloseOwn(t)

\* The goroutine of a CLOSE packet.
CloseAsked(t) ==
    /\ t \in pend /\ pend' = pend \ {t}
    /\ IF term[t].isOpen THEN BeginClose(t) ELSE UNCHANGED term
    /\ UNCHANGED <<handshake, isClosed, opened, loop, terminals, misused>>

\* The rest of close(): out of the registry by id, terminal closed and process killed,
\* a CLOSE packet unless the connection is closed.
CloseRemove(t) ==
    /\ term[t].closer = "remove"
    /\ terminals' = [terminals EXCEPT ![term[t].id] = None]
    /\ term' = [term EXCEPT ![t].closer = "kill"]
    /\ UNCHANGED <<handshake, isClosed, opened, loop, pend, misused>>

KilledNot(p) == p
Killed(p) == IF p = "running" THEN "killed" ELSE p

CloseKill(t) ==
    /\ term[t].closer = "kill"
    /\ term' = [term EXCEPT ![t].closer = "done", ![t].proc = Killed(@)]
    /\ UNCHANGED <<handshake, isClosed, opened, loop, terminals, pend, misused>>

-----------------------------------------------------------------------------
(* The end of the read loop: deleteAllWispStreams.                         *)

ReadFails ==
    /\ rpc = "read" /\ (isClosed \/ deadline = "expired")
    /\ rpc' = "end" /\ isClosed' = TRUE
    /\ UNCHANGED <<handshake, opened, rt, todo, packets, terms>>

\* The client hangs up, or breaks the protocol.
ReadEnds ==
    /\ rpc = "read" /\ rpc' = "end" /\ isClosed' = TRUE
    /\ UNCHANGED <<handshake, opened, rt, todo, packets, terms>>

Snapshot == {terminals[i] : i \in TermIds} \ {None}

SweepBegin ==
    /\ rpc = "end"
    /\ todo' = Snapshot /\ rpc' = "sweep"
    /\ UNCHANGED <<handshake, isClosed, opened, rt, packets, terms>>

SweepClose(t) ==
    /\ rpc = "sweep" /\ t \in todo
    /\ todo' = todo \ {t}
    /\ IF term[t].isOpen THEN BeginClose(t) /\ rpc' = "sweeping" /\ rt' = t
       ELSE UNCHANGED <<term, rpc, rt>>
    /\ UNCHANGED <<handshake, isClosed, opened, packets, terminals, pend, misused>>

SweepEnd ==
    /\ rpc = "sweep" /\ todo = {} /\ rpc' = "done"
    /\ UNCHANGED <<handshake, isClosed, opened, rt, todo, packets, terms>>

-----------------------------------------------------------------------------
Client ==
    \/ \E kind \in {"invalid", "anonymous", "wrong", "right"} : InfoRefused(kind) \/ InfoAccepted(kind)
    \/ Ignored \/ CloseConnection \/ OpenStream
    \/ \E id \in TermIds : DataFails(id) \/ ClosePacket(id) \/ \E t \in Terms : Connect(t, id)

TermStep(t) ==
    \/ StartProcess(t) \/ StartFails(t) \/ Register(t) \/ CloseExited(t)
    \/ CloseAsked(t) \/ CloseRemove(t) \/ CloseKill(t)

End == ReadFails \/ SweepBegin \/ (\E t \in Terms : SweepClose(t)) \/ SweepEnd \/ Closed

SessionNext ==
    \/ Client \/ Deadline \/ CloseElsewhere \/ ReadEnds \/ End
    \/ \E t \in Terms : TermStep(t) \/ ProcessExits(t) \/ CloseOwn(t)

\* Time passes; goroutines that can run do.
SessionSpec == SessionInit /\ [][SessionNext]_sessionVars /\ WF_sessionVars(Deadline) /\ WF_sessionVars(End)
             /\ \A t \in Terms : WF_sessionVars(TermStep(t))

-----------------------------------------------------------------------------
(* Properties.                                                             *)

\* On a v2 connection nothing is opened before the handshake is over, and no process is ever
\* started for a client whose password was not checked, whatever order its packets come in.
NothingBeforeLogin ==
    /\ opened => shake = "nil"
    /\ \A t \in Terms : term[t].pc # "free" => config.v2 /\ shake = "nil" /\ login

\* The handshake comes to an end: INFO is accepted, or the connection closes at the deadline; and
\* a client that completed it is not cut off later by the deadline.
HandshakeInTime ==
    /\ <>(shake = "nil" \/ rpc = "done")
    /\ [][shake = "nil" /\ rpc = "read" /\ rpc' = "end" => deadline # "expired"]_sessionVars

\* When the connection has ended, no process of its terminals runs on, as long as the client
\* used no id of an open terminal again and no terminal was registered after the sweep.
ProcessesEnd == rpc = "done" ~> (misused \/ \A t \in Terms : term[t].proc # "running")

=============================================================================
