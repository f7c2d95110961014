--------------------------- MODULE StatefulSessions ---------------------------
(***************************************************************************)
(* The connections to upstream MCP servers: session_manager.go keeps one   *)
(* per server in stateful mode, under one mutex, and session_result.go     *)
(* hands them to the calls; a call to a server in stateless mode opens one *)
(* for itself.  A call is a sequence of steps (read the server's row, get  *)
(* a session, call the tool, drop the session if it broke), and calls,     *)
(* administrators, the idle cleanup and the shutdown interleave.           *)
(*                                                                         *)
(* The manager's methods are atomic, since they hold the mutex, but for    *)
(* GetOrCreateSession, which holds it while the upstream is connected.     *)
(***************************************************************************)
EXTENDS Naturals

CONSTANTS
    Server,     \* names of MCP servers
    Stateful,   \* those registered with SessionMode stateful
    Untimed,    \* those with transport SSE, whose connect no timeout bounds
    Caller,     \* goroutines that call tools: how many calls overlap
    Client,     \* identities of upstream connections; a bound on how many
                \*   are ever opened
    MaxReg,     \* bound on registrations
    None        \* no session, no connection, no call, nobody

ASSUME StatefulAssumption == Stateful \subseteq Server
ASSUME UntimedAssumption == Untimed \subseteq Server
ASSUME NobodyAssumption == None \notin Caller /\ None \notin Client

VARIABLES
    reg,        \* names that have a row in mcp_servers
    lastReg,    \* how many rows were ever inserted
    sessions,   \* SessionManager.sessions
    aged,       \* names whose session was last handed out longer ago than
                \*   the idle timeout
    conn,       \* the connections opened so far, by identity
    mu,         \* who holds SessionManager.mu across a connect, or None
    call,       \* the call each caller is executing, or None
    closing,    \* names that a deregister or archive will close the session of
    cleaner,    \* whether the cleanup goroutine runs
    phase       \* of the process: "up", "stopping" (the cleanup was told to
                \*   stop) or "down" (all sessions were closed)

vars == <<reg, lastReg, sessions, aged, conn, mu, call, closing, cleaner, phase>>

\* A connection is open until the gateway closes it: one the upstream has
\* dropped shows only in the calls that fail on it.
Conn == [srv : Server, state : {"open", "closed"}]

Call == [pc : {"get", "connect", "calling", "invalidate"}, srv : Server,
         client : Client \cup {None}]

ASSUME NoneAssumption == None \notin Conn /\ None \notin Call

At(c, p) == call[c] # None /\ call[c].pc = p

Goto(c, p) == call' = [call EXCEPT ![c].pc = p]

Use(c, k) == call' = [call EXCEPT ![c].pc = "calling", ![c].client = k]

Finish(c) == call' = [call EXCEPT ![c] = None]

IsStateful(c) == call[c].srv \in Stateful

\* Client.Close on the connections K.
Closed(K) == [k \in Client |-> IF k \in K THEN [conn[k] EXCEPT !.state = "closed"]
                                          ELSE conn[k]]

\* Take the sessions of the servers S out of the map and close their clients.
Drop(S) ==
    /\ conn' = Closed({sessions[s] : s \in S} \ {None})
    /\ sessions' = [s \in Server |-> IF s \in S THEN None ELSE sessions[s]]
    /\ aged' = aged \ S

------------------------------------------------------------------------------
(* A tool call.                                                            *)

Begin(c, s) ==
    /\ call[c] = None
    /\ s \in reg
    /\ call' = [call EXCEPT ![c] = [pc |-> IF s \in Stateful THEN "get" ELSE "connect",
                                    srv |-> s, client |-> None]]
    /\ UNCHANGED <<reg, lastReg, sessions, aged, conn, mu, closing, cleaner, phase>>

\* (mutant) The mutex is released while the upstream is connected.
GetUnlocked(c) ==
    /\ At(c, "get")
    /\ mu = None
    /\ IF sessions[call[c].srv] # None
       THEN /\ Use(c, sessions[call[c].srv])
            /\ aged' = aged \ {call[c].srv}
       ELSE Goto(c, "connect") /\ UNCHANGED aged
    /\ UNCHANGED <<reg, lastReg, sessions, conn, mu, closing, cleaner, phase>>

\* (mutant) What the map holds is handed out, a session or not.
GetUnchecked(c) ==
    /\ At(c, "get")
    /\ mu = None
    /\ Use(c, sessions[call[c].srv])
    /\ aged' = aged \ {call[c].srv}
    /\ UNCHANGED <<reg, lastReg, sessions, conn, mu, closing, cleaner, phase>>

\* GetOrCreateSession: the session there is, or a connect under the mutex.
Get(c) ==
    /\ At(c, "get")
    /\ mu = None
    /\ IF sessions[call[c].srv] # None
       THEN /\ Use(c, sessions[call[c].srv])
            /\ aged' = aged \ {call[c].srv}
            /\ UNCHANGED mu
       ELSE /\ Goto(c, "connect")
            /\ mu' = c
            /\ UNCHANGED aged
    /\ UNCHANGED <<reg, lastReg, sessions, conn, closing, cleaner, phase>>

Unlocked(c) == IF mu = c THEN None ELSE mu

\* The upstream answered the Initialize.
Connected(c) ==
    /\ At(c, "connect")
    /\ \E k \in Client :
          /\ conn[k] = None
          /\ conn' = [conn EXCEPT ![k] = [srv |-> call[c].srv, state |-> "open"]]
          /\ Use(c, k)
          /\ IF IsStateful(c)
             THEN /\ sessions' = [sessions EXCEPT ![call[c].srv] = k]
                  /\ aged' = aged \ {call[c].srv}
             ELSE UNCHANGED <<sessions, aged>>
    /\ mu' = Unlocked(c)
    /\ UNCHANGED <<reg, lastReg, closing, cleaner, phase>>

\* (mutant) The error return forgets to unlock.
RefusedHolding(c) ==
    /\ At(c, "connect")
    /\ Finish(c)
    /\ UNCHANGED <<reg, lastReg, sessions, aged, conn, mu, closing, cleaner, phase>>

\* The upstream refused, or did not answer in time where there is a timeout.
Refused(c) ==
    /\ At(c, "connect")
    /\ Finish(c)
    /\ mu' = Unlocked(c)
    /\ UNCHANGED <<reg, lastReg, sessions, aged, conn, closing, cleaner, phase>>

\* The call returns, with a result or an error that does not look like one of
\* the connection; closeIfApplicable closes the connection of a stateless call.
Return(c) ==
    /\ At(c, "calling")
    /\ conn' = IF IsStateful(c) THEN conn ELSE Closed({call[c].client})
    /\ Finish(c)
    /\ UNCHANGED <<reg, lastReg, sessions, aged, mu, closing, cleaner, phase>>

\* isConnectionError: the upstream or the network dropped the connection, the
\* gateway closed it meanwhile, or the caller gave up waiting.
Break(c) ==
    /\ At(c, "calling")
    /\ IsStateful(c)
    /\ Goto(c, "invalidate")
    /\ UNCHANGED <<reg, lastReg, sessions, aged, conn, mu, closing, cleaner, phase>>

\* (mutant) The connection is closed but stays in the map.
InvalidateKeeping(c) ==
    /\ At(c, "invalidate")
    /\ mu = None
    /\ conn' = Closed({sessions[call[c].srv]} \ {None})
    /\ Finish(c)
    /\ UNCHANGED <<reg, lastReg, sessions, aged, mu, closing, cleaner, phase>>

\* InvalidateSession, by the name of the server.
Invalidate(c) ==
    /\ At(c, "invalidate")
    /\ mu = None
    /\ Drop({call[c].srv})
    /\ Finish(c)
    /\ UNCHANGED <<reg, lastReg, mu, closing, cleaner, phase>>

------------------------------------------------------------------------------
(* Administrators.                                                         *)

Register(s) ==
    /\ s \notin reg
    /\ lastReg < MaxReg
    /\ lastReg' = lastReg + 1
    /\ reg' = reg \cup {s}
    /\ UNCHANGED <<sessions, aged, conn, mu, call, closing, cleaner, phase>>

\* DeregisterMcpServer deletes the row before it closes the session.
Deregister(s) ==
    /\ s \in reg
    /\ reg' = reg \ {s}
    /\ closing' = closing \cup {s}
    /\ UNCHANGED <<lastReg, sessions, aged, conn, mu, call, cleaner, phase>>

\* ArchiveServer closes the session and keeps the row, which the calls of
\* invokeToolHandler still find.
Archive(s) ==
    /\ s \in reg
    /\ closing' = closing \cup {s}
    /\ UNCHANGED <<reg, lastReg, sessions, aged, conn, mu, call, cleaner, phase>>

\* The close comes last in both, and not at all when a delete before it fails.
CloseSession(s) ==
    /\ s \in closing
    /\ mu = None
    /\ Drop({s})
    /\ closing' = closing \ {s}
    /\ UNCHANGED <<reg, lastReg, mu, call, cleaner, phase>>

------------------------------------------------------------------------------
(* Time, and the end of the process.                                       *)

\* The idle timeout has passed since the session of s was last handed out,
\* whether or not the call it was handed to has returned.
Age(s) ==
    /\ sessions[s] # None
    /\ aged' = aged \cup {s}
    /\ UNCHANGED <<reg, lastReg, sessions, conn, mu, call, closing, cleaner, phase>>

\* (mutant) The comparison with the idle timeout is the wrong way round.
CleanupFresh ==
    /\ cleaner
    /\ mu = None
    /\ aged # {}
    /\ Drop(Server \ aged)
    /\ UNCHANGED <<reg, lastReg, mu, call, closing, cleaner, phase>>

\* cleanupIdleSessions.
Cleanup ==
    /\ cleaner
    /\ mu = None
    /\ aged # {}
    /\ Drop(aged)
    /\ UNCHANGED <<reg, lastReg, mu, call, closing, cleaner, phase>>

\* Shutdown closes the stop channel, which the cleanup goroutine will notice,
\* and then all sessions; the HTTP server is stopped only after that.
Shutdown ==
    /\ phase = "up"
    /\ phase' = "stopping"
    /\ UNCHANGED <<reg, lastReg, sessions, aged, conn, mu, call, closing, cleaner>>

StopCleaner ==
    /\ phase # "up"
    /\ cleaner
    /\ cleaner' = FALSE
    /\ UNCHANGED <<reg, lastReg, sessions, aged, conn, mu, call, closing, phase>>

CloseAllSessions ==
    /\ phase = "stopping"
    /\ mu = None
    /\ Drop(Server)
    /\ phase' = "down"
    /\ UNCHANGED <<reg, lastReg, mu, call, closing, cleaner>>

------------------------------------------------------------------------------
Init ==
    /\ reg = {}
    /\ lastReg = 0
    /\ sessions = [s \in Server |-> None]
    /\ aged = {}
    /\ conn = [k \in Client |-> None]
    /\ mu = None
    /\ call = [c \in Caller |-> None]
    /\ closing = {}
    /\ cleaner = TRUE
    /\ phase = "up"

\* A call runs on.
Step(c) ==
    Get(c) \/ Connected(c) \/ Refused(c) \/ Return(c) \/ Break(c) \/ Invalidate(c)

Next ==
    \/ \E c \in Caller : Step(c) \/ \E s \in Server : Begin(c, s)
    \/ \E s \in Server :
          Register(s) \/ Deregister(s) \/ Archive(s) \/ CloseSession(s) \/ Age(s)
    \/ Cleanup \/ Shutdown \/ StopCleaner \/ CloseAllSessions

Spec == Init /\ [][Next]_vars

\* The gateway waits for an upstream that owes it no answer: CallTool has no
\* timeout, nor has the connect of the SSE transport, and the context both are
\* given is never done (gin's), or when a client of the proxy gives up, which it
\* need not.
Awaits(c) ==
    \/ At(c, "calling")
    \/ At(c, "connect") /\ call[c].srv \in Untimed

\* A Go mutex starves nobody, so who waits for it again and again gets it; the
\* initialisation timeout ends the connects it bounds.  No upstream owes more.
Fairness ==
    /\ \A c \in Caller : SF_vars(~Awaits(c) /\ Step(c))
    /\ SF_vars(Cleanup)

FairSpec == Spec /\ Fairness

------------------------------------------------------------------------------
(* Properties.                                                             *)

\* Every variable keeps its shape, and a tool is only called on a connection.
TypeOK ==
    /\ reg \in SUBSET Server
    /\ lastReg \in Nat
    /\ sessions \in [Server -> Client \cup {None}]
    /\ aged \in SUBSET Server
    /\ conn \in [Client -> Conn \cup {None}]
    /\ mu \in Caller \cup {None}
    /\ call \in [Caller -> Call \cup {None}]
    /\ closing \in SUBSET Server
    /\ cleaner \in BOOLEAN
    /\ phase \in {"up", "stopping", "down"}
    /\ \A c \in Caller : At(c, "calling") => call[c].client # None

Alive(k) == conn[k] # None /\ conn[k].state # "closed"

\* GetOrCreateSession never hands out a connection the gateway has closed, or
\* one of another server.
SessionsAlive ==
    \A s \in Server : sessions[s] # None =>
        Alive(sessions[s]) /\ conn[sessions[s]].srv = s

\* No connection leaks: one that is not closed is the session of its server,
\* or belongs to a stateless call in progress, which will close it.  So there
\* is at most one connection to a stateful server.
ConnectionsOwned ==
    \A k \in Client : Alive(k) =>
        \/ sessions[conn[k].srv] = k
        \/ \E c \in Caller : At(c, "calling") /\ ~IsStateful(c) /\ call[c].client = k

\* The holder of the mutex waits for an SSE server.
HeldUp == mu # None /\ Awaits(mu)

\* Every call ends, although one mutex serves all servers and is held across
\* connects, unless its own upstream keeps it for ever, or the SSE server does
\* that the holder of the mutex connects to: nothing else blocks a call, and one
\* such server that is silent blocks them all.
CallsEnd ==
    \A c \in Caller : []<>(call[c] = None) \/ <>[]Awaits(c) \/ <>[]HeldUp

\* A session nobody asks for is closed as long as the cleanup runs, again unless
\* an SSE server keeps the holder of the mutex waiting for ever.
IdleSessionsClose ==
    \A s \in Server : []<>(s \notin aged \/ ~cleaner) \/ <>[]HeldUp
==============================================================================
