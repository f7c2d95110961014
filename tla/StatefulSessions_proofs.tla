----------------------- MODULE StatefulSessions_proofs -----------------------
(* Proofs about the sessions with upstream servers: whatever the numbers of  *)
(* servers, callers and connections, no session in the map is a closed one,  *)
(* and no connection leaks.                                                  *)
EXTENDS StatefulSessions, TLAPS

\* Only calls to stateful servers come near the map, and the one that connects
\* for it holds the mutex, under which the map still has no session.
Locked ==
    \A c \in Caller :
        /\ At(c, "get") \/ At(c, "invalidate") => IsStateful(c)
        /\ At(c, "connect") /\ IsStateful(c) <=> mu = c
        /\ mu = c => sessions[call[c].srv] = None

\* The map holds no session of a server in stateless mode.
OnlyStateful == \A s \in Server : sessions[s] # None => s \in Stateful

\* A call of a tool has a connection; that of a stateless call is its own.
CallsConnected ==
    \A c \in Caller : At(c, "calling") =>
        /\ conn[call[c].client] # None
        /\ IsStateful(c) \/ conn[call[c].client].srv = call[c].srv

IInv == TypeOK /\ SessionsAlive /\ ConnectionsOwned
        /\ Locked /\ OnlyStateful /\ CallsConnected

USE StatefulAssumption, NobodyAssumption, NoneAssumption

------------------------------------------------------------------------------
(* The three ways in which a call goes on.                                  *)

LEMMA GotoType ==
    ASSUME TypeOK, NEW c \in Caller, call[c] # None,
           NEW p \in {"get", "connect", "calling", "invalidate"}, Goto(c, p)
    PROVE  /\ call' \in [Caller -> Call \cup {None}]
           /\ call'[c] # None
           /\ call'[c].pc = p
           /\ call'[c].srv = call[c].srv
           /\ call'[c].client = call[c].client
           /\ \A d \in Caller \ {c} : call'[d] = call[d]
<1>1. call[c] \in Call
  BY DEF TypeOK
<1>2. [call[c] EXCEPT !.pc = p] \in Call
  BY <1>1 DEF Call
<1>3. call' = [call EXCEPT ![c] = [call[c] EXCEPT !.pc = p]]
  BY DEF Goto
<1>4. call'[c] = [call[c] EXCEPT !.pc = p] /\ \A d \in Caller \ {c} : call'[d] = call[d]
  BY <1>3 DEF TypeOK
<1>5. /\ [call[c] EXCEPT !.pc = p].pc = p
      /\ [call[c] EXCEPT !.pc = p].srv = call[c].srv
      /\ [call[c] EXCEPT !.pc = p].client = call[c].client
  BY <1>1 DEF Call
<1> QED
  BY <1>2, <1>3, <1>4, <1>5 DEF TypeOK

LEMMA UseType ==
    ASSUME TypeOK, NEW c \in Caller, call[c] # None, NEW k \in Client, Use(c, k)
    PROVE  /\ call' \in [Caller -> Call \cup {None}]
           /\ call'[c] # None
           /\ call'[c].pc = "calling"
           /\ call'[c].srv = call[c].srv
           /\ call'[c].client = k
           /\ \A d \in Caller \ {c} : call'[d] = call[d]
<1> DEFINE r == [[call[c] EXCEPT !.pc = "calling"] EXCEPT !.client = k]
<1>1. call[c] \in Call
  BY DEF TypeOK
<1>2. r \in Call /\ r.pc = "calling" /\ r.srv = call[c].srv /\ r.client = k
  BY <1>1 DEF Call
<1>3. call' = [call EXCEPT ![c] = r]
  BY DEF Use, TypeOK
<1> HIDE DEF r
<1>4. call'[c] = r /\ \A d \in Caller \ {c} : call'[d] = call[d]
  BY <1>3 DEF TypeOK
<1> QED
  BY <1>2, <1>3, <1>4 DEF TypeOK

LEMMA FinishType ==
    ASSUME TypeOK, NEW c \in Caller, Finish(c)
    PROVE  /\ call' \in [Caller -> Call \cup {None}]
           /\ call'[c] = None
           /\ \A d \in Caller \ {c} : call'[d] = call[d]
BY DEF Finish, TypeOK

\* Close changes nothing but the state of the connections that are closed.
LEMMA ClosedConn ==
    ASSUME TypeOK, NEW K \in SUBSET Client, \A k \in K : conn[k] # None
    PROVE  /\ Closed(K) \in [Client -> Conn \cup {None}]
           /\ \A k \in K : /\ Closed(K)[k] # None
                           /\ Closed(K)[k].state = "closed"
                           /\ Closed(K)[k].srv = conn[k].srv
           /\ \A k \in Client \ K : Closed(K)[k] = conn[k]
<1>1. \A k \in K : conn[k] \in Conn
  BY DEF TypeOK
<1>2. \A r \in Conn : /\ [r EXCEPT !.state = "closed"] \in Conn
                      /\ [r EXCEPT !.state = "closed"].state = "closed"
                      /\ [r EXCEPT !.state = "closed"].srv = r.srv
  BY DEF Conn
<1>3. \A k \in Client : Closed(K)[k] = IF k \in K THEN [conn[k] EXCEPT !.state = "closed"]
                                                  ELSE conn[k]
  BY DEF Closed
<1>4. Closed(K) \in [Client -> Conn \cup {None}]
  BY <1>1, <1>2 DEF Closed, TypeOK
<1> QED
  BY <1>1, <1>2, <1>3, <1>4

------------------------------------------------------------------------------
(* The steps.                                                               *)

\* Dropping sessions under the free mutex keeps everything, also when the call
\* that asked for it ends.
LEMMA DropKeeps ==
    ASSUME IInv, NEW S \in SUBSET Server, mu = None, mu' = mu, Drop(S),
           \A c \in Caller : call'[c] = call[c]
                             \/ (call'[c] = None /\ At(c, "invalidate"))
    PROVE  /\ conn' \in [Client -> Conn \cup {None}]
           /\ sessions' \in [Server -> Client \cup {None}]
           /\ aged' \in SUBSET Server
           /\ SessionsAlive'
           /\ ConnectionsOwned'
           /\ Locked'
           /\ OnlyStateful'
           /\ CallsConnected'
<1> DEFINE K == {sessions[s] : s \in S} \ {None}
<1>1. TypeOK /\ SessionsAlive /\ ConnectionsOwned /\ Locked /\ OnlyStateful /\ CallsConnected
  BY DEF IInv
<1>2. K \in SUBSET Client /\ \A k \in K : conn[k] # None
  BY <1>1 DEF TypeOK, SessionsAlive, Alive
<1>3. conn' = Closed(K)
  BY DEF Drop
<1>4. /\ conn' \in [Client -> Conn \cup {None}]
      /\ \A k \in K : conn'[k] # None /\ conn'[k].state = "closed" /\ conn'[k].srv = conn[k].srv
      /\ \A k \in Client \ K : conn'[k] = conn[k]
  <2> HIDE DEF K
  <2> QED
    BY <1>1, <1>2, <1>3, ClosedConn
<1>5. /\ sessions' \in [Server -> Client \cup {None}]
      /\ \A s \in S : sessions'[s] = None
      /\ \A s \in Server \ S : sessions'[s] = sessions[s]
  BY <1>1 DEF Drop, TypeOK
<1>6. aged' \in SUBSET Server
  BY <1>1 DEF Drop, TypeOK
\* A session that stays is not one of those closed, which are of other servers.
<1>7. \A s \in Server \ S : sessions[s] \notin K
  BY <1>1 DEF SessionsAlive, Alive
<1>8. SessionsAlive'
  BY <1>1, <1>4, <1>5, <1>7 DEF SessionsAlive, Alive, TypeOK
<1>9. ConnectionsOwned'
  <2> SUFFICES ASSUME NEW k \in Client, Alive(k)'
               PROVE  \/ sessions'[conn'[k].srv] = k
                      \/ \E c \in Caller : At(c, "calling")' /\ ~IsStateful(c)'
                                           /\ call'[c].client = k
    BY DEF ConnectionsOwned
  <2>1. k \notin K /\ conn'[k] = conn[k] /\ Alive(k)
    BY <1>4 DEF Alive
  <2>2. CASE sessions[conn[k].srv] = k
    <3>1. conn[k].srv \in Server
      BY <1>1, <2>1 DEF TypeOK, Alive, Conn
    <3>2. conn[k].srv \notin S
      BY <2>1, <2>2
    <3> QED
      BY <1>5, <2>1, <2>2, <3>1, <3>2
  <2>3. CASE \E c \in Caller : At(c, "calling") /\ ~IsStateful(c) /\ call[c].client = k
    BY <2>3 DEF At, IsStateful
  <2> QED
    BY <1>1, <2>1, <2>2, <2>3 DEF ConnectionsOwned
<1>10. Locked'
  BY <1>1 DEF Locked, At, IsStateful
<1>11. OnlyStateful'
  BY <1>1, <1>5 DEF OnlyStateful
<1>12. CallsConnected'
  <2> HIDE DEF K
  <2> SUFFICES ASSUME NEW c \in Caller, At(c, "calling")'
               PROVE  /\ conn'[call'[c].client] # None
                      /\ IsStateful(c)' \/ conn'[call'[c].client].srv = call'[c].srv
    BY DEF CallsConnected
  <2>1. call'[c] = call[c] /\ At(c, "calling")
    BY DEF At
  <2>2. call[c].client \in Client
    BY <1>1, <2>1 DEF TypeOK, At, Call
  <2>3. conn'[call[c].client] # None /\ conn'[call[c].client].srv = conn[call[c].client].srv
    BY <1>1, <1>4, <2>1, <2>2 DEF CallsConnected
  <2> QED
    BY <1>1, <2>1, <2>3 DEF CallsConnected, IsStateful
<1> QED
  BY <1>4, <1>5, <1>6, <1>8, <1>9, <1>10, <1>11, <1>12

LEMMA BeginKeeps ==
    ASSUME IInv, NEW c \in Caller, NEW s \in Server, Begin(c, s)
    PROVE  IInv'
<1> DEFINE r == [pc |-> IF s \in Stateful THEN "get" ELSE "connect",
                 srv |-> s, client |-> None]
<1> USE DEF IInv, Begin
<1>1. r \in Call /\ r # None /\ r.srv = s /\ r.pc = IF s \in Stateful THEN "get" ELSE "connect"
  BY DEF TypeOK, Call
<1> HIDE DEF r
<1>2. /\ call' \in [Caller -> Call \cup {None}]
      /\ call'[c] = r
      /\ \A d \in Caller \ {c} : call'[d] = call[d]
  BY <1>1 DEF TypeOK, r
<1>3. TypeOK'
  BY <1>1, <1>2 DEF TypeOK, At
<1>4. SessionsAlive' /\ OnlyStateful'
  BY DEF SessionsAlive, Alive, OnlyStateful
<1>5. ConnectionsOwned'
  BY <1>2 DEF ConnectionsOwned, Alive, At, IsStateful
<1>6. Locked'
  BY <1>1, <1>2 DEF Locked, At, IsStateful
<1>7. CallsConnected'
  BY <1>1, <1>2 DEF CallsConnected, At, IsStateful
<1> QED
  BY <1>3, <1>4, <1>5, <1>6, <1>7

LEMMA GetKeeps ==
    ASSUME IInv, NEW c \in Caller, Get(c)
    PROVE  IInv'
<1> USE DEF IInv
<1>1. call[c] # None /\ call[c].pc = "get" /\ IsStateful(c) /\ mu = None
  BY DEF Get, At, Locked
<1>2. call[c].srv \in Server
  BY <1>1 DEF TypeOK, Call
<1>3. UNCHANGED <<reg, lastReg, sessions, conn, closing, cleaner, phase>>
  BY DEF Get
<1>4. SessionsAlive' /\ OnlyStateful'
  BY <1>3 DEF SessionsAlive, Alive, OnlyStateful
<1>5. CASE sessions[call[c].srv] # None
  <2> DEFINE k == sessions[call[c].srv]
  <2>1. k \in Client /\ Use(c, k) /\ aged' = aged \ {call[c].srv} /\ mu' = mu
    BY <1>2, <1>5 DEF Get, TypeOK
  <2> HIDE DEF k
  <2>2. /\ call' \in [Caller -> Call \cup {None}]
        /\ call'[c] # None
        /\ call'[c].pc = "calling"
        /\ call'[c].srv = call[c].srv
        /\ call'[c].client = k
        /\ \A d \in Caller \ {c} : call'[d] = call[d]
    BY <1>1, <2>1, UseType
  <2>3. TypeOK'
    BY <1>3, <2>1, <2>2 DEF TypeOK, At
  <2>4. ConnectionsOwned'
    BY <1>1, <1>3, <2>2 DEF ConnectionsOwned, Alive, At, IsStateful
  <2>5. Locked'
    BY <1>1, <1>3, <2>1, <2>2 DEF Locked, At, IsStateful
  <2>6. conn[k] # None
    BY <1>2, <1>5 DEF k, SessionsAlive, Alive
  <2>7. CallsConnected'
    BY <1>1, <1>3, <2>2, <2>6 DEF CallsConnected, At, IsStateful
  <2> QED
    BY <1>4, <2>3, <2>4, <2>5, <2>7
<1>6. CASE sessions[call[c].srv] = None
  <2>1. Goto(c, "connect") /\ mu' = c /\ aged' = aged
    BY <1>6 DEF Get
  <2>2. /\ call' \in [Caller -> Call \cup {None}]
        /\ call'[c] # None
        /\ call'[c].pc = "connect"
        /\ call'[c].srv = call[c].srv
        /\ \A d \in Caller \ {c} : call'[d] = call[d]
    BY <1>1, <2>1, GotoType
  <2>3. TypeOK'
    BY <1>3, <2>1, <2>2 DEF TypeOK, At
  <2>4. ConnectionsOwned'
    BY <1>1, <1>3, <2>2 DEF ConnectionsOwned, Alive, At, IsStateful
  <2>5. Locked'
    BY <1>1, <1>3, <1>6, <2>1, <2>2 DEF Locked, At, IsStateful
  <2>6. CallsConnected'
    BY <1>3, <2>2 DEF CallsConnected, At, IsStateful
  <2> QED
    BY <1>4, <2>3, <2>4, <2>5, <2>6
<1> QED
  BY <1>5, <1>6

LEMMA ConnectedKeeps ==
    ASSUME IInv, NEW c \in Caller, Connected(c)
    PROVE  IInv'
<1> USE DEF IInv
<1>1. call[c] # None /\ call[c].pc = "connect" /\ call[c] \in Call
  BY DEF Connected, At, TypeOK
<1>2. call[c].srv \in Server
  BY <1>1 DEF Call
<1>3. UNCHANGED <<reg, lastReg, closing, cleaner, phase>> /\ mu' = Unlocked(c)
  BY DEF Connected
<1> DEFINE r == [srv |-> call[c].srv, state |-> "open"]
<1>4. PICK k \in Client :
          /\ conn[k] = None
          /\ conn' = [conn EXCEPT ![k] = r]
          /\ Use(c, k)
          /\ IF IsStateful(c)
             THEN /\ sessions' = [sessions EXCEPT ![call[c].srv] = k]
                  /\ aged' = aged \ {call[c].srv}
             ELSE UNCHANGED <<sessions, aged>>
  BY DEF Connected
<1>5. r \in Conn /\ r # None /\ r.srv = call[c].srv /\ r.state = "open"
  BY <1>2 DEF Conn
<1> HIDE DEF r
<1>6. /\ conn' \in [Client -> Conn \cup {None}]
      /\ conn'[k] = r
      /\ \A j \in Client \ {k} : conn'[j] = conn[j]
  BY <1>4, <1>5 DEF TypeOK
<1>7. /\ call' \in [Caller -> Call \cup {None}]
      /\ call'[c] # None
      /\ call'[c].pc = "calling"
      /\ call'[c].srv = call[c].srv
      /\ call'[c].client = k
      /\ \A d \in Caller \ {c} : call'[d] = call[d]
  BY <1>1, <1>4, UseType
\* Nothing refers to the new identity yet.
<1>8. \A s \in Server : sessions[s] # k
  BY <1>4 DEF SessionsAlive, Alive
<1>9. /\ sessions' \in [Server -> Client \cup {None}]
      /\ aged' \in SUBSET Server
      /\ \A s \in Server : sessions'[s] = IF IsStateful(c) /\ s = call[c].srv THEN k ELSE sessions[s]
  BY <1>2, <1>4 DEF TypeOK
<1>10. mu' \in Caller \cup {None}
  BY <1>3 DEF TypeOK, Unlocked
<1>11. TypeOK'
  BY <1>3, <1>6, <1>7, <1>9, <1>10 DEF TypeOK, At
<1>12. SessionsAlive'
  BY <1>5, <1>6, <1>8, <1>9 DEF SessionsAlive, Alive, TypeOK
<1>13. OnlyStateful'
  BY <1>9 DEF OnlyStateful, IsStateful
<1>14. IsStateful(c) => mu = c /\ sessions[call[c].srv] = None
  BY <1>1 DEF Locked, At
<1>15. ConnectionsOwned'
  <2> SUFFICES ASSUME NEW j \in Client, Alive(j)'
               PROVE  \/ sessions'[conn'[j].srv] = j
                      \/ \E d \in Caller : At(d, "calling")' /\ ~IsStateful(d)'
                                           /\ call'[d].client = j
    BY DEF ConnectionsOwned
  <2>1. CASE j = k
    BY <1>2, <1>5, <1>6, <1>7, <1>9, <2>1 DEF At, IsStateful
  <2>2. CASE j # k
    <3>1. conn'[j] = conn[j] /\ Alive(j)
      BY <1>6, <2>2 DEF Alive
    <3>2. conn[j].srv \in Server
      BY <3>1 DEF TypeOK, Conn, Alive
    <3>3. CASE sessions[conn[j].srv] = j
      BY <1>9, <1>14, <3>1, <3>2, <3>3
    <3>4. CASE \E d \in Caller : At(d, "calling") /\ ~IsStateful(d) /\ call[d].client = j
      BY <1>1, <1>7, <3>4 DEF At, IsStateful
    <3> QED
      BY <3>1, <3>3, <3>4 DEF ConnectionsOwned
  <2> QED
    BY <2>1, <2>2
<1>16. Locked'
  BY <1>1, <1>3, <1>7, <1>9, <1>14 DEF Locked, At, IsStateful, Unlocked
<1>17. CallsConnected'
  <2> SUFFICES ASSUME NEW d \in Caller, At(d, "calling")'
               PROVE  /\ conn'[call'[d].client] # None
                      /\ IsStateful(d)' \/ conn'[call'[d].client].srv = call'[d].srv
    BY DEF CallsConnected
  <2>1. CASE d = c
    BY <1>5, <1>6, <1>7, <2>1
  <2>2. CASE d # c
    <3>1. call'[d] = call[d] /\ At(d, "calling")
      BY <1>7, <2>2 DEF At
    <3>2. call[d].client \in Client /\ conn[call[d].client] # None
      BY <3>1 DEF TypeOK, Call, At, CallsConnected
    <3> QED
      BY <1>4, <1>6, <3>1, <3>2 DEF CallsConnected, IsStateful
  <2> QED
    BY <2>1, <2>2
<1> QED
  BY <1>11, <1>12, <1>13, <1>15, <1>16, <1>17

LEMMA RefusedKeeps ==
    ASSUME IInv, NEW c \in Caller, Refused(c)
    PROVE  IInv'
<1> USE DEF IInv
<1>1. call[c] # None /\ call[c].pc = "connect" /\ Finish(c) /\ mu' = Unlocked(c)
  BY DEF Refused, At
<1>2. UNCHANGED <<reg, lastReg, sessions, aged, conn, closing, cleaner, phase>>
  BY DEF Refused
<1>3. /\ call' \in [Caller -> Call \cup {None}]
      /\ call'[c] = None
      /\ \A d \in Caller \ {c} : call'[d] = call[d]
  BY <1>1, FinishType
<1>4. TypeOK'
  BY <1>1, <1>2, <1>3 DEF TypeOK, At, Unlocked
<1>5. SessionsAlive' /\ OnlyStateful'
  BY <1>2 DEF SessionsAlive, Alive, OnlyStateful
<1>6. ConnectionsOwned'
  BY <1>1, <1>2, <1>3 DEF ConnectionsOwned, Alive, At, IsStateful
<1>7. Locked'
  BY <1>1, <1>2, <1>3 DEF Locked, At, IsStateful, Unlocked
<1>8. CallsConnected'
  BY <1>2, <1>3 DEF CallsConnected, At, IsStateful
<1> QED
  BY <1>4, <1>5, <1>6, <1>7, <1>8

\* A stateful call leaves its connection, which is in the map or closed; a
\* stateless one closes its own, which is in the map of no server.
LEMMA ReturnKeeps ==
    ASSUME IInv, NEW c \in Caller, Return(c)
    PROVE  IInv'
<1> USE DEF IInv
<1>1. call[c] # None /\ call[c].pc = "calling" /\ Finish(c) /\ call[c].client \in Client
  BY DEF Return, At, TypeOK, Call
<1>2. UNCHANGED <<reg, lastReg, sessions, aged, mu, closing, cleaner, phase>>
  BY DEF Return
<1>3. /\ call' \in [Caller -> Call \cup {None}]
      /\ call'[c] = None
      /\ \A d \in Caller \ {c} : call'[d] = call[d]
  BY <1>1, FinishType
<1> DEFINE K == IF IsStateful(c) THEN {} ELSE {call[c].client}
<1>4. K \in SUBSET Client /\ \A k \in K : conn[k] # None /\ conn[k].srv \notin Stateful
  BY <1>1 DEF CallsConnected, At, IsStateful
<1>5. /\ conn' \in [Client -> Conn \cup {None}]
      /\ \A k \in K : /\ conn'[k] # None
                      /\ conn'[k].state = "closed"
                      /\ conn'[k].srv = conn[k].srv
      /\ \A k \in Client \ K : conn'[k] = conn[k]
  <2>1. CASE IsStateful(c)
    BY <2>1 DEF Return, TypeOK
  <2>2. CASE ~IsStateful(c)
    <3>1. conn' = Closed(K)
      BY <2>2 DEF Return
    <3> HIDE DEF K
    <3> QED
      BY <1>4, <3>1, ClosedConn
  <2> QED
    BY <2>1, <2>2
<1>6. \A k \in Client : Alive(k)' => k \notin K /\ Alive(k) /\ conn'[k] = conn[k]
  <2> HIDE DEF K
  <2> QED
    BY <1>5 DEF Alive
<1>7. \A k \in K : k # None /\ call[c].client = k /\ ~IsStateful(c)
  BY <1>4
<1>8. \A s \in Server : sessions[s] \notin K
  BY <1>4, <1>7 DEF SessionsAlive, OnlyStateful
<1> HIDE DEF K
<1>9. TypeOK'
  BY <1>1, <1>2, <1>3, <1>5 DEF TypeOK, At
<1>10. SessionsAlive' /\ OnlyStateful'
  BY <1>2, <1>5, <1>8 DEF SessionsAlive, Alive, OnlyStateful, TypeOK
<1>11. ConnectionsOwned'
  <2> SUFFICES ASSUME NEW k \in Client, Alive(k)'
               PROVE  \/ sessions'[conn'[k].srv] = k
                      \/ \E d \in Caller : At(d, "calling")' /\ ~IsStateful(d)'
                                           /\ call'[d].client = k
    BY DEF ConnectionsOwned
  <2>1. Alive(k) /\ conn'[k] = conn[k] /\ k \notin K
    BY <1>6
  <2>2. ~(At(c, "calling") /\ ~IsStateful(c) /\ call[c].client = k)
    BY <2>1 DEF K
  <2> QED
    BY <1>2, <1>3, <2>1, <2>2 DEF ConnectionsOwned, At, IsStateful
<1>12. Locked'
  BY <1>1, <1>2, <1>3 DEF Locked, At, IsStateful
<1>13. CallsConnected'
  <2> SUFFICES ASSUME NEW d \in Caller, At(d, "calling")'
               PROVE  /\ conn'[call'[d].client] # None
                      /\ IsStateful(d)' \/ conn'[call'[d].client].srv = call'[d].srv
    BY DEF CallsConnected
  <2>1. call'[d] = call[d] /\ At(d, "calling")
    BY <1>3 DEF At
  <2>2. call[d].client \in Client
    BY <2>1 DEF TypeOK, Call, At
  <2>3. conn'[call[d].client] # None /\ conn'[call[d].client].srv = conn[call[d].client].srv
    BY <1>5, <2>1, <2>2 DEF CallsConnected
  <2> QED
    BY <2>1, <2>3 DEF CallsConnected, IsStateful
<1> QED
  BY <1>9, <1>10, <1>11, <1>12, <1>13

LEMMA BreakKeeps ==
    ASSUME IInv, NEW c \in Caller, Break(c)
    PROVE  IInv'
<1> USE DEF IInv
<1>1. call[c] # None /\ call[c].pc = "calling" /\ IsStateful(c) /\ Goto(c, "invalidate")
  BY DEF Break, At
<1>2. UNCHANGED <<reg, lastReg, sessions, aged, conn, mu, closing, cleaner, phase>>
  BY DEF Break
<1>3. /\ call' \in [Caller -> Call \cup {None}]
      /\ call'[c] # None
      /\ call'[c].pc = "invalidate"
      /\ call'[c].srv = call[c].srv
      /\ \A d \in Caller \ {c} : call'[d] = call[d]
  BY <1>1, GotoType
<1>4. TypeOK'
  BY <1>2, <1>3 DEF TypeOK, At
<1>5. SessionsAlive' /\ OnlyStateful'
  BY <1>2 DEF SessionsAlive, Alive, OnlyStateful
<1>6. ConnectionsOwned'
  BY <1>1, <1>2, <1>3 DEF ConnectionsOwned, Alive, At, IsStateful
<1>7. Locked'
  BY <1>1, <1>2, <1>3 DEF Locked, At, IsStateful
<1>8. CallsConnected'
  BY <1>2, <1>3 DEF CallsConnected, At, IsStateful
<1> QED
  BY <1>4, <1>5, <1>6, <1>7, <1>8

LEMMA InvalidateKeeps ==
    ASSUME IInv, NEW c \in Caller, Invalidate(c)
    PROVE  IInv'
<1>1. TypeOK
  BY DEF IInv
<1>2. call[c].srv \in Server
  BY <1>1 DEF Invalidate, At, TypeOK, Call
<1>3. Drop({call[c].srv}) /\ mu = None /\ mu' = mu /\ Finish(c) /\ At(c, "invalidate")
  BY DEF Invalidate
<1>4. /\ call' \in [Caller -> Call \cup {None}]
      /\ call'[c] = None
      /\ \A d \in Caller \ {c} : call'[d] = call[d]
  BY <1>1, <1>3, FinishType
<1>5. /\ conn' \in [Client -> Conn \cup {None}]
      /\ sessions' \in [Server -> Client \cup {None}]
      /\ aged' \in SUBSET Server
      /\ SessionsAlive' /\ ConnectionsOwned' /\ Locked' /\ OnlyStateful' /\ CallsConnected'
  <2>1. \A d \in Caller : call'[d] = call[d] \/ (call'[d] = None /\ At(d, "invalidate"))
    BY <1>3, <1>4
  <2>2. {call[c].srv} \in SUBSET Server
    BY <1>2
  <2> QED
    BY <1>3, <2>1, <2>2, DropKeeps
<1>6. TypeOK'
  BY <1>1, <1>4, <1>5 DEF TypeOK, Invalidate, At
<1> QED
  BY <1>5, <1>6 DEF IInv

\* The cleanup, the end of the process and the administrators drop sessions,
\* and change no call.
LEMMA DropStepKeeps ==
    ASSUME IInv, NEW S \in SUBSET Server, mu = None, Drop(S),
           UNCHANGED <<mu, call, reg, lastReg>>, closing' \in SUBSET Server,
           cleaner' \in BOOLEAN, phase' \in {"up", "stopping", "down"}
    PROVE  IInv'
<1>1. TypeOK
  BY DEF IInv
<1>2. /\ conn' \in [Client -> Conn \cup {None}]
      /\ sessions' \in [Server -> Client \cup {None}]
      /\ aged' \in SUBSET Server
      /\ SessionsAlive' /\ ConnectionsOwned' /\ Locked' /\ OnlyStateful' /\ CallsConnected'
  <2>1. mu' = mu /\ \A c \in Caller : call'[c] = call[c] \/ (call'[c] = None /\ At(c, "invalidate"))
    OBVIOUS
  <2> QED
    BY <2>1, DropKeeps
<1>3. TypeOK'
  BY <1>1, <1>2 DEF TypeOK, At
<1> QED
  BY <1>2, <1>3 DEF IInv

\* What concerns neither the sessions nor the connections nor the calls.
LEMMA AsideKeeps ==
    ASSUME IInv, UNCHANGED <<sessions, conn, mu, call>>,
           reg' \in SUBSET Server, lastReg' \in Nat, aged' \in SUBSET Server,
           closing' \in SUBSET Server, cleaner' \in BOOLEAN,
           phase' \in {"up", "stopping", "down"}
    PROVE  IInv'
BY DEF IInv, TypeOK, SessionsAlive, ConnectionsOwned, Alive, Locked, OnlyStateful,
       CallsConnected, At, IsStateful

------------------------------------------------------------------------------
(* The theorems.                                                            *)

\* IInv is inductive.
LEMMA NextKeeps == IInv /\ [Next]_vars => IInv'
<1> SUFFICES ASSUME IInv, [Next]_vars PROVE IInv'
  OBVIOUS
<1> USE DEF IInv
<1>1. ASSUME NEW c \in Caller, Step(c) PROVE IInv'
  <2> HIDE DEF IInv
  <2> QED
    BY <1>1, GetKeeps, ConnectedKeeps, RefusedKeeps, ReturnKeeps, BreakKeeps,
       InvalidateKeeps DEF Step
<1>2. ASSUME NEW c \in Caller, NEW s \in Server, Begin(c, s) PROVE IInv'
  BY <1>2, BeginKeeps
<1>3. ASSUME NEW s \in Server, Register(s) PROVE IInv'
  BY <1>3, AsideKeeps DEF Register, TypeOK
<1>4. ASSUME NEW s \in Server, Deregister(s) PROVE IInv'
  BY <1>4, AsideKeeps DEF Deregister, TypeOK
<1>5. ASSUME NEW s \in Server, Archive(s) PROVE IInv'
  BY <1>5, AsideKeeps DEF Archive, TypeOK
<1>6. ASSUME NEW s \in Server, CloseSession(s) PROVE IInv'
  BY <1>6, DropStepKeeps DEF CloseSession, TypeOK
<1>7. ASSUME NEW s \in Server, Age(s) PROVE IInv'
  BY <1>7, AsideKeeps DEF Age, TypeOK
<1>8. CASE Cleanup
  BY <1>8, DropStepKeeps DEF Cleanup, TypeOK
<1>9. CASE Shutdown
  BY <1>9, AsideKeeps DEF Shutdown, TypeOK
<1>10. CASE StopCleaner
  BY <1>10, AsideKeeps DEF StopCleaner, TypeOK
<1>11. CASE CloseAllSessions
  BY <1>11, DropStepKeeps DEF CloseAllSessions, TypeOK
<1>12. CASE UNCHANGED vars
  BY <1>12, AsideKeeps DEF vars, TypeOK
<1> HIDE DEF IInv
<1> QED
  BY <1>1, <1>2, <1>3, <1>4, <1>5, <1>6, <1>7, <1>8, <1>9, <1>10, <1>11, <1>12
     DEF Next

LEMMA InitKeeps == Init => IInv
BY DEF Init, IInv, TypeOK, SessionsAlive, ConnectionsOwned, Alive, Locked, OnlyStateful,
       CallsConnected, At

LEMMA AlwaysIInv == Spec => []IInv
BY InitKeeps, NextKeeps, PTL DEF Spec

\* Every variable keeps its shape, and no tool is called without a connection
\* (GetOrCreateSession and InvalidateSession in session_manager.go).
THEOREM SessionsTyped == Spec => []TypeOK
BY AlwaysIInv, PTL DEF IInv

\* The session GetOrCreateSession hands out is never one that the cleanup, an
\* invalidation, a deregister or the shutdown has closed, nor another server's.
THEOREM SessionsStayAlive == Spec => []SessionsAlive
BY AlwaysIInv, PTL DEF IInv

\* No interleaving of calls, failures, cleanups and shutdown leaks an upstream
\* connection or opens two to one stateful server: the mutex held across the
\* connect (session_manager.go) is what makes it so.
THEOREM NoConnectionLeaks == Spec => []ConnectionsOwned
BY AlwaysIInv, PTL DEF IInv
==============================================================================
