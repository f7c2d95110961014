------------------------ MODULE DashboardSession_proofs ------------------------
(* Proofs about one tab of the dashboard: for any users, roles, sessions and  *)
(* number of acts, the tab shows the user the server sees, a logout holds, and *)
(* no 401 makes it reload for ever.                                           *)
EXTENDS DashboardSession, TLAPS

\* An answer under way says what is so on the server: of the session it was
\* asked with, or of the one a login has made.
Truthful(r) ==
    /\ r.status = "ok" /\ r.kind \in {"boot", "guard"} =>
          IF serverMode = "development" THEN r.user = Nobody
          ELSE r.user \in User /\ r.session \in Session /\ owner[r.session] = r.user
    /\ r.kind = "login" /\ r.status \in {"sent", "ok"} => r.user \in User
    /\ r.kind = "login" /\ r.status = "ok" => r.session \in Session /\ owner[r.session] = r.user
    /\ r.status = "forbidden" =>
          /\ r.kind = "page" /\ r.session \in Session
          /\ owner[r.session] # None /\ RoleOf(owner[r.session]) # "system_admin"
    /\ r.kind = "overview" => ~r.adminOnly

Answers == \A r \in reqs : Truthful(r)

\* A request is under way only where the tab was when it was sent, with the
\* cookie of that moment.
Placed(r) ==
    /\ r.kind = "boot" => app = "boot" /\ r.session = cookie
    /\ app = "boot" => r.kind \in {"boot", "abandoned"}
    /\ patient =>
         /\ r.kind = "guard" => guard = "checking" /\ r.session = cookie
         /\ r.kind = "login" => path = "login" /\ busy
         /\ r.kind = "logout" => guard = "in"
         /\ r.kind = "page" => guard = "in" /\ r.session = cookie

Places == \A r \in reqs : Placed(r)

\* There is one bootstrap, and who waits has one guard, login or logout.
OneAwaited ==
    \A q, r \in reqs :
        /\ q.kind = r.kind
        /\ q.kind = "boot" \/ (patient /\ q.kind \in {"guard", "login", "logout"})
        => q = r

\* Cookie and cache are of one user.
ActorKnown == patient /\ cached \in User => cookie \in Session /\ owner[cookie] = cached

\* A confirmed logout leaves neither.
LoggedOut ==
    signedOut => /\ cookie = None
                 /\ patient /\ serverMode = "enterprise" => cached = None /\ guard # "in"

\* The tab that the interceptor has reloaded stays at the login form and waits
\* for nothing but its bootstrap.
Bounced ==
    \/ bounces = 0
    \/ /\ bounces = 1 /\ path = "login" /\ ~leaving
       /\ \A r \in reqs : r.kind \in {"boot", "abandoned"}

IInv == TypeOK /\ Answers /\ Places /\ OneAwaited /\ ActorKnown /\ LoggedOut /\ Bounced

USE RoleAssumption, NoneAssumption, ActsAssumption

------------------------------------------------------------------------------
(* Requests.                                                                *)

LEMMA SentReq ==
    ASSUME NEW kind \in Kind, NEW k \in Session \cup {None}
    PROVE  /\ Sent(kind, k) \in Req
           /\ Sent(kind, k).kind = kind /\ Sent(kind, k).session = k
           /\ Sent(kind, k).status = "sent" /\ ~Sent(kind, k).adminOnly
           /\ \A u \in User : /\ [Sent(kind, k) EXCEPT !.user = u] \in Req
                              /\ [Sent(kind, k) EXCEPT !.user = u].kind = kind
                              /\ [Sent(kind, k) EXCEPT !.user = u].status = "sent"
                              /\ [Sent(kind, k) EXCEPT !.user = u].user = u
BY DEF Sent, Req

\* What is true of a session stays so, for no session changes hands.
LEMMA TruthStays ==
    ASSUME TypeOK, NEW r \in Req, Truthful(r), serverMode' = serverMode,
           \A k \in Session : owner[k] # None => owner'[k] = owner[k]
    PROVE  Truthful(r)'
BY DEF TypeOK, Truthful, RoleOf

------------------------------------------------------------------------------
(* The gateway's steps.                                                     *)

LEMMA ServedType ==
    ASSUME TypeOK, UNCHANGED <<view, cookie, cached, bounces, signedOut, patient>>,
           acts' \in 0..MaxActs, serverMode' = serverMode, disabled' \subseteq User,
           owner' \in [Session -> User \cup {None}],
           \A k \in live' : k \in Session /\ owner'[k] # None,
           reqs' \subseteq Req
    PROVE  TypeOK'
BY DEF TypeOK, view

\* The view is left alone; each request stays where it is or is answered.
LEMMA ServedKeeps ==
    ASSUME IInv, UNCHANGED <<view, cookie, cached, bounces, signedOut, patient>>,
           serverMode' = serverMode,
           \A k \in Session : owner[k] # None => owner'[k] = owner[k],
           NEW r \in reqs, NEW a,
           reqs' = (reqs \ {r}) \cup {a} \/ reqs' \subseteq reqs,
           a.kind = r.kind,
           a.kind = "login" \/ a.session = r.session
    PROVE  /\ Places' /\ OneAwaited' /\ ActorKnown' /\ LoggedOut' /\ Bounced'
           /\ Truthful(a)' => Answers'
<1> USE DEF IInv, TypeOK
<1>1. Places'
  <2>1. ASSUME NEW q \in reqs PROVE Placed(q)'
    BY <2>1 DEF Places, Placed, view
  <2>2. Placed(a)'
    BY <2>1 DEF Placed, view, Req
  <2> QED
    BY <2>1, <2>2 DEF Places
<1>6. OneAwaited'
  <2> SUFFICES ASSUME NEW p \in reqs', NEW q \in reqs', p.kind = q.kind,
                      p.kind = "boot" \/ (patient /\ p.kind \in {"guard", "login", "logout"})
               PROVE  p = q
    BY DEF OneAwaited
  <2>1. p \in reqs /\ q \in reqs => p = q
    BY DEF OneAwaited
  <2>2. p \in reqs /\ p.kind = r.kind => p = r
    BY DEF OneAwaited
  <2>3. q \in reqs /\ q.kind = r.kind => q = r
    BY DEF OneAwaited
  <2>4. CASE reqs' \subseteq reqs
    BY <2>1, <2>4
  <2>5. CASE reqs' = (reqs \ {r}) \cup {a}
    <3>1. (p \in reqs /\ p # r) \/ p = a
      BY <2>5
    <3>2. (q \in reqs /\ q # r) \/ q = a
      BY <2>5
    <3> QED
      BY <2>1, <2>2, <2>3, <3>1, <3>2
  <2> QED
    BY <2>4, <2>5
<1>2. ActorKnown'
  BY DEF ActorKnown
<1>3. LoggedOut'
  BY DEF LoggedOut, view
<1>4. Bounced'
  BY DEF Bounced, view
<1>5. ASSUME Truthful(a)' PROVE Answers'
  <2>1. ASSUME NEW q \in reqs PROVE Truthful(q)'
    BY <2>1, TruthStays DEF Answers
  <2> QED
    BY <1>5, <2>1 DEF Answers
<1> QED
  BY <1>1, <1>2, <1>3, <1>4, <1>5, <1>6

LEMMA ServeKeeps == ASSUME IInv, NEW r \in reqs, Serve(r) PROVE IInv'
<1>1. r \in Req /\ Truthful(r) /\ r.status = "sent" /\ TypeOK
  BY DEF IInv, TypeOK, Answers, Serve
<1>2. CASE ServeVerify(r)
  <2>2. PICK u \in User \cup {Nobody, None}, s \in {"ok", "unauthorized"} :
          /\ Answered(r, s, u)
          /\ \/ serverMode = "development" /\ s = "ok" /\ u = Nobody
             \/ serverMode = "enterprise" /\ s = "ok" /\ r.session \in live /\ u = owner[r.session]
             \/ serverMode = "enterprise" /\ s = "unauthorized" /\ u = None
    BY <1>1, <1>2 DEF ServeVerify, HasSession, TypeOK
  <2> DEFINE a == [r EXCEPT !.status = s, !.user = u]
  <2>3. /\ a \in Req /\ a.status = s /\ a.user = u
        /\ a.kind = r.kind /\ a.session = r.session /\ a.adminOnly = r.adminOnly
    BY <1>1 DEF Req
  <2>4. reqs' = (reqs \ {r}) \cup {a}
    BY <2>2 DEF Answered
  <2> HIDE DEF a
  <2>5. UNCHANGED server
    BY <1>2 DEF ServeVerify
  <2>6. Truthful(a)'
    BY <1>1, <1>2, <2>2, <2>3, <2>5 DEF Truthful, ServeVerify, server, TypeOK
  <2>7. TypeOK'
    BY <1>1, <2>3, <2>4, <2>5, ServedType DEF TypeOK, Serve, server
  <2> QED
    BY <2>3, <2>4, <2>5, <2>6, <2>7, ServedKeeps DEF IInv, Serve, server
<1>3. CASE ServeLogin(r)
  <2>1. CASE Answered(r, "unauthorized", None) /\ UNCHANGED server
    <3> DEFINE a == [r EXCEPT !.status = "unauthorized", !.user = None]
    <3>1. /\ a \in Req /\ a.status = "unauthorized" /\ a.kind = r.kind
          /\ a.session = r.session /\ a.adminOnly = r.adminOnly
      BY <1>1 DEF Req
    <3>2. reqs' = (reqs \ {r}) \cup {a}
      BY <2>1 DEF Answered
    <3> HIDE DEF a
    <3>3. Truthful(a)'
      BY <1>3, <3>1 DEF Truthful, ServeLogin
    <3>4. TypeOK'
      BY <1>1, <2>1, <3>1, <3>2, ServedType DEF TypeOK, Serve, server
    <3> QED
      BY <2>1, <3>1, <3>2, <3>3, <3>4, ServedKeeps DEF IInv, Serve, server
  <2>2. ASSUME NEW k \in Session, owner[k] = None,
               owner' = [owner EXCEPT ![k] = r.user], live' = live \cup {k},
               reqs' = (reqs \ {r}) \cup {[r EXCEPT !.status = "ok", !.session = k]},
               UNCHANGED <<serverMode, disabled>>
        PROVE  IInv'
    <3> DEFINE a == [r EXCEPT !.status = "ok", !.session = k]
    <3>1. /\ a \in Req /\ a.status = "ok" /\ a.kind = "login"
          /\ a.session = k /\ a.user = r.user /\ r.user \in User /\ r.kind = "login"
          /\ a.adminOnly = r.adminOnly
      BY <1>1, <1>3 DEF Req, Truthful, ServeLogin
    <3>2. reqs' = (reqs \ {r}) \cup {a}
      BY <2>2
    <3> HIDE DEF a
    <3>3. /\ owner' \in [Session -> User \cup {None}] /\ owner'[k] = r.user
          /\ \A l \in Session : owner[l] # None => owner'[l] = owner[l]
      BY <1>1, <2>2, <3>1 DEF TypeOK
    <3>4. Truthful(a)'
      BY <3>1, <3>3 DEF Truthful
    <3>5. TypeOK'
      BY <1>1, <2>2, <3>1, <3>2, <3>3, ServedType DEF TypeOK, Serve
    <3> QED
      BY <2>2, <3>1, <3>2, <3>3, <3>4, <3>5, ServedKeeps DEF IInv, Serve
  <2> QED
    BY <1>3, <2>1, <2>2 DEF ServeLogin
<1>4. CASE ServeLogout(r)
  <2> DEFINE a == [r EXCEPT !.status = "ok", !.user = None]
  <2>1. /\ a \in Req /\ a.status = "ok" /\ a.kind = r.kind
        /\ a.session = r.session /\ a.adminOnly = r.adminOnly
    BY <1>1 DEF Req
  <2>2. reqs' = (reqs \ {r}) \cup {a} \/ reqs' \subseteq reqs
    BY <1>4 DEF ServeLogout, Answered
  <2> HIDE DEF a
  <2>3. Truthful(a)'
    BY <1>4, <2>1 DEF Truthful, ServeLogout
  <2>4. TypeOK'
    BY <1>1, <1>4, <2>1, <2>2, ServedType DEF TypeOK, Serve, ServeLogout
  <2> QED
    BY <1>4, <2>1, <2>2, <2>3, <2>4, ServedKeeps DEF IInv, Serve, ServeLogout
<1>5. CASE ServeRead(r)
  <2>1. PICK s \in {"ok", "unauthorized", "forbidden"} :
          /\ Answered(r, s, None)
          /\ s = "forbidden" => r.adminOnly /\ Authenticated(r.session) /\ ~Authorized(r.session)
    BY <1>5 DEF ServeRead
  <2> DEFINE a == [r EXCEPT !.status = s, !.user = None]
  <2>2. /\ a \in Req /\ a.status = s /\ a.kind = r.kind
        /\ a.session = r.session /\ a.adminOnly = r.adminOnly
    BY <1>1 DEF Req
  <2>3. reqs' = (reqs \ {r}) \cup {a}
    BY <2>1 DEF Answered
  <2> HIDE DEF a
  <2>4. UNCHANGED server
    BY <1>5 DEF ServeRead
  <2>5. s = "forbidden" => /\ r.kind = "page" /\ r.session \in Session
                           /\ owner[r.session] # None
                           /\ RoleOf(owner[r.session]) # "system_admin"
    BY <1>1, <1>5, <2>1 DEF ServeRead, Authenticated, Authorized, HasSession, TypeOK, Truthful
  <2>6. Truthful(a)'
    BY <1>1, <1>5, <2>2, <2>4, <2>5 DEF Truthful, ServeRead, server, RoleOf
  <2>7. TypeOK'
    BY <1>1, <2>2, <2>3, <2>4, ServedType DEF TypeOK, Serve, server
  <2> QED
    BY <2>2, <2>3, <2>4, <2>6, <2>7, ServedKeeps DEF IInv, Serve, server
<1> QED
  BY <1>2, <1>3, <1>4, <1>5 DEF Serve

LEMMA LoseKeeps == ASSUME IInv, NEW r \in reqs, Lose(r) PROVE IInv'
<1> DEFINE a == [r EXCEPT !.status = "lost", !.user = None]
<1>1. r \in Req /\ Truthful(r) /\ TypeOK
  BY DEF IInv, TypeOK, Answers
<1>2. /\ a \in Req /\ a.status = "lost" /\ a.kind = r.kind
      /\ a.session = r.session /\ a.adminOnly = r.adminOnly
  BY <1>1 DEF Req
<1>3. reqs' = (reqs \ {r}) \cup {a}
  BY DEF Lose, Answered
<1> HIDE DEF a
<1>4. Truthful(a)'
  BY <1>1, <1>2 DEF Truthful
<1>5. TypeOK'
  BY <1>1, <1>2, <1>3, ServedType DEF TypeOK, Lose, server
<1> QED
  BY <1>2, <1>3, <1>4, <1>5, ServedKeeps DEF IInv, Lose, server

LEMMA ActCounted ==
    ASSUME TypeOK, acts < MaxActs, acts' = acts + 1
    PROVE  acts' \in 0..MaxActs
<1>1. acts \in 0..MaxActs
  BY DEF TypeOK
<1> QED
  BY <1>1

LEMMA EnvironmentKeeps == ASSUME IInv, acts < MaxActs, acts' = acts + 1, Environment PROVE IInv'
<1>1. UNCHANGED <<serverMode, owner, reqs, view, cookie, cached, bounces, signedOut, patient>>
  BY DEF Environment, Expire, Disable
<1>2. TypeOK'
  <2>1. disabled' \subseteq User /\ live' \subseteq live
    BY DEF Environment, Expire, Disable, IInv, TypeOK
  <2>2. acts' \in 0..MaxActs
    BY ActCounted DEF IInv
  <2> QED
    BY <1>1, <2>1, <2>2, ServedType DEF IInv, TypeOK
<1>3. Answers' /\ Places' /\ OneAwaited' /\ ActorKnown' /\ LoggedOut' /\ Bounced'
  BY <1>1 DEF IInv, Answers, Truthful, RoleOf, Places, Placed, OneAwaited, ActorKnown, LoggedOut,
              Bounced, view
<1> QED
  BY <1>2, <1>3 DEF IInv

------------------------------------------------------------------------------
(* What answers do in the browser.                                          *)

\* What the guarded routes ask for when they are rendered.
LEMMA EntryReq ==
    ASSUME NEW k \in Session \cup {None},
           NEW kind, kind \in {"overview", "guard"}
    PROVE  \E n \in Req : /\ n = Sent(kind, k) /\ n.kind = kind /\ n.session = k
                          /\ n.status = "sent" /\ ~n.adminOnly
BY SentReq DEF Kind

\* What is known of a request that settles.
LEMMA Settling ==
    ASSUME IInv, NEW r \in reqs, Settle(r)
    PROVE  /\ TypeOK /\ r \in Req /\ Truthful(r) /\ Placed(r) /\ r.status # "sent"
           /\ UNCHANGED <<server, bounces, patient, acts>>
           /\ \A q \in reqs : q \in Req /\ Truthful(q) /\ Placed(q)
BY DEF IInv, TypeOK, Answers, Places, Settle

LEMMA BootKeeps == ASSUME IInv, NEW r \in reqs, Settle(r), BootSettles(r) PROVE IInv'
<1>1. /\ TypeOK /\ r \in Req /\ Truthful(r) /\ Placed(r) /\ r.status # "sent"
      /\ UNCHANGED <<server, bounces, patient, acts>>
      /\ \A q \in reqs : q \in Req /\ Truthful(q) /\ Placed(q)
  BY Settling
<1>2. /\ r.kind = "boot" /\ app = "boot" /\ guard = "none" /\ r.session = cookie
      /\ UNCHANGED <<busy, cookie, signedOut>> /\ app' = "ready"
  BY <1>1 DEF BootSettles, Placed, TypeOK
<1>3. \A q \in reqs \ {r} : q.kind = "abandoned"
  BY <1>1, <1>2 DEF Placed, IInv, OneAwaited
<1>4. /\ cached' = r.user /\ leaving' = leaving /\ r.status = "ok"
      \/ /\ r.status # "ok"
         /\ cached' \in {cached, None}
         /\ leaving' \in BOOLEAN
         /\ path = "login" => leaving' = leaving
         /\ r.status # "unauthorized" => leaving' = leaving
  BY <1>1 DEF BootSettles, SetUser, Expel, ClearUser, TypeOK
<1>5. cached' \in User \cup {Nobody, None}
  BY <1>1, <1>4 DEF TypeOK, Req
<1>6. ActorKnown'
  BY <1>1, <1>2, <1>4 DEF IInv, ActorKnown, Truthful, server
<1>7. signedOut /\ patient /\ serverMode = "enterprise" => cached' = None
  BY <1>1, <1>2, <1>4 DEF IInv, LoggedOut, Truthful
<1>9. CASE path = "home"
  <2>1. PICK n \in Req :
          /\ n.kind = IF cached' # None THEN "overview" ELSE "guard"
          /\ n.session = cookie /\ n.status = "sent" /\ ~n.adminOnly
          /\ reqs' = (reqs \ {r}) \cup {n}
          /\ path' = "home" /\ menuMode' = "unknown"
          /\ guard' = IF cached' # None THEN "in" ELSE "checking"
    <3>1. Enter(cached', cookie, reqs \ {r})
      BY <1>9 DEF BootSettles
    <3>2. cookie \in Session \cup {None}
      BY <1>1 DEF TypeOK
    <3>3. CASE cached' # None
      BY <3>1, <3>2, <3>3, EntryReq DEF Enter
    <3>4. CASE cached' = None
      BY <3>1, <3>2, <3>4, EntryReq DEF Enter
    <3> QED
      BY <3>3, <3>4
  <2>2. TypeOK'
    BY <1>1, <1>2, <1>4, <1>5, <2>1 DEF TypeOK, server
  <2>3. Answers'
    BY <1>1, <2>1 DEF Answers, Truthful, server, RoleOf
  <2>4. Places'
    BY <1>1, <1>2, <1>3, <2>1 DEF Places, Placed
  <2>5. OneAwaited'
    BY <1>3, <2>1 DEF OneAwaited
  <2>6. LoggedOut'
    BY <1>1, <1>2, <1>7, <2>1 DEF IInv, LoggedOut, server
  <2>7. Bounced'
    BY <1>1, <1>9 DEF IInv, Bounced
  <2> QED
    BY <1>6, <2>2, <2>3, <2>4, <2>5, <2>6, <2>7 DEF IInv
<1>10. CASE path = "login"
  <2>1. reqs' = reqs \ {r} /\ UNCHANGED <<path, guard, menuMode>>
    BY <1>10 DEF BootSettles
  <2>2. TypeOK'
    BY <1>1, <1>2, <1>4, <1>5, <2>1 DEF TypeOK, server
  <2>3. Answers'
    BY <1>1, <2>1 DEF Answers, Truthful, server, RoleOf
  <2>4. Places'
    BY <1>1, <1>2, <1>3, <2>1 DEF Places, Placed
  <2>5. OneAwaited'
    BY <1>3, <2>1 DEF OneAwaited
  <2>6. LoggedOut'
    BY <1>1, <1>2, <1>7, <2>1 DEF IInv, LoggedOut, server
  <2>7. Bounced'
    BY <1>1, <1>4, <1>10, <2>1 DEF IInv, Bounced
  <2> QED
    BY <1>6, <2>2, <2>3, <2>4, <2>5, <2>6, <2>7 DEF IInv
<1> QED
  BY <1>1, <1>9, <1>10 DEF TypeOK

\* Nothing but a bootstrap settles after the interceptor's reload.
LEMMA NotBounced ==
    ASSUME IInv, NEW r \in reqs, r.kind \notin {"boot", "abandoned"}
    PROVE  bounces = 0
BY DEF IInv, Bounced

\* Who waits for a guard, a login or a logout waits for nothing else but what
\* the dashboard loads.
LEMMA WaitsAlone ==
    ASSUME IInv, patient, NEW r \in reqs, r.kind \in {"guard", "login", "logout"},
           NEW q \in reqs, q # r
    PROVE  q.kind \in {"overview", "abandoned"} \/ (r.kind = "logout" /\ q.kind = "page")
<1>1. q \in Req /\ Placed(q) /\ Placed(r) /\ TypeOK
  BY DEF IInv, TypeOK, Places
<1>2. q.kind # r.kind
  BY DEF IInv, OneAwaited
<1>3. q.kind \in Kind
  BY <1>1 DEF Req
<1> QED
  BY <1>1, <1>2, <1>3 DEF Placed, TypeOK, Kind

LEMMA GuardKeeps == ASSUME IInv, NEW r \in reqs, Settle(r), GuardSettles(r) PROVE IInv'
<1>1. /\ TypeOK /\ r \in Req /\ Truthful(r) /\ Placed(r) /\ r.status # "sent"
      /\ UNCHANGED <<server, bounces, patient, acts>>
      /\ \A q \in reqs : q \in Req /\ Truthful(q) /\ Placed(q)
  BY Settling
<1>2. /\ r.kind = "guard" /\ app = "ready" /\ bounces = 0
      /\ patient => guard = "checking" /\ r.session = cookie
      /\ UNCHANGED <<app, busy, cookie, signedOut>>
  BY <1>1, NotBounced DEF GuardSettles, Placed, TypeOK
\* Who waits waits for nothing else when a guard is under way.
<1>3. patient => \A q \in reqs \ {r} : q.kind \in {"overview", "abandoned"}
  BY <1>1, <1>2, WaitsAlone
<1>4. /\ cached' = r.user /\ leaving' = leaving /\ r.status = "ok"
      \/ /\ r.status # "ok" /\ cached' = None /\ leaving' \in BOOLEAN
         /\ r.status # "unauthorized" => leaving' = leaving
  BY <1>1 DEF GuardSettles, SetUser, ClearUser, TypeOK
<1>5. cached' \in User \cup {Nobody, None}
  BY <1>1, <1>4 DEF TypeOK, Req
<1>6. ActorKnown'
  BY <1>1, <1>2, <1>4 DEF IInv, ActorKnown, Truthful, server
<1>7. signedOut /\ patient /\ serverMode = "enterprise" => r.status # "ok"
  BY <1>1, <1>2 DEF IInv, LoggedOut, Truthful
<1>8. Bounced'
  BY <1>1, <1>2 DEF Bounced
<1>9. r.status = "ok" => r.user # None
  BY <1>1, <1>2 DEF Truthful
<1>10. CASE guard = "checking" /\ r.status = "ok"
  <2>1. Enter(r.user, cookie, reqs \ {r})
    BY <1>10 DEF GuardSettles
  <2>2. PICK n \in Req :
          /\ n.kind = "overview" /\ n.session = cookie /\ n.status = "sent" /\ ~n.adminOnly
          /\ reqs' = (reqs \ {r}) \cup {n}
          /\ path' = "home" /\ menuMode' = "unknown" /\ guard' = "in"
    <3>1. cookie \in Session \cup {None}
      BY <1>1 DEF TypeOK
    <3> QED
      BY <1>9, <1>10, <2>1, <3>1, EntryReq DEF Enter
  <2>3. TypeOK'
    BY <1>1, <1>2, <1>4, <1>5, <2>2 DEF TypeOK, server
  <2>4. Answers'
    BY <1>1, <2>2 DEF Answers, Truthful, server, RoleOf
  <2>5. Places'
    BY <1>1, <1>2, <1>3, <2>2 DEF Places, Placed
  <2>6. OneAwaited'
    BY <1>1, <1>3, <2>2 DEF IInv, OneAwaited
  <2>7. LoggedOut'
    BY <1>1, <1>2, <1>7, <1>10, <2>2 DEF IInv, LoggedOut, server
  <2> QED
    BY <1>6, <1>8, <2>3, <2>4, <2>5, <2>6, <2>7 DEF IInv
<1>11. CASE guard # "checking" \/ r.status # "ok"
  <2>1. \/ path' = "login" /\ guard' = "none" /\ reqs' \subseteq reqs \ {r} /\ menuMode' = menuMode
        \/ guard # "checking" /\ reqs' = reqs \ {r} /\ UNCHANGED <<path, guard, menuMode>>
    BY <1>11 DEF GuardSettles, ToLogin, Unmounted
  <2>2. TypeOK'
    BY <1>1, <1>2, <1>4, <1>5, <2>1 DEF TypeOK, server
  <2>3. Answers'
    BY <1>1, <2>1 DEF Answers, Truthful, server, RoleOf
  <2>4. Places'
    BY <1>1, <1>2, <1>3, <2>1 DEF Places, Placed
  <2>5. OneAwaited'
    BY <1>1, <2>1 DEF IInv, OneAwaited
  <2>6. LoggedOut'
    BY <1>1, <1>2, <1>4, <1>7, <1>11, <2>1 DEF IInv, LoggedOut, server
  <2> QED
    BY <1>6, <1>8, <2>2, <2>3, <2>4, <2>5, <2>6 DEF IInv
<1> QED
  BY <1>10, <1>11

LEMMA LoginKeeps == ASSUME IInv, NEW r \in reqs, Settle(r), LoginSettles(r) PROVE IInv'
<1>1. /\ TypeOK /\ r \in Req /\ Truthful(r) /\ Placed(r) /\ r.status # "sent"
      /\ UNCHANGED <<server, bounces, patient, acts>>
      /\ \A q \in reqs : q \in Req /\ Truthful(q) /\ Placed(q)
  BY Settling
<1>2. /\ r.kind = "login" /\ app = "ready" /\ bounces = 0
      /\ patient => path = "login" /\ guard = "none"
      /\ app' = app /\ busy' = FALSE
  BY <1>1, NotBounced DEF LoginSettles, Placed, TypeOK
<1>3. patient => \A q \in reqs \ {r} : q.kind \in {"overview", "abandoned"}
  BY <1>1, <1>2, WaitsAlone
<1>4. \/ /\ r.status = "ok" /\ cookie' = r.session /\ cached' = r.user /\ signedOut' = FALSE
         /\ leaving' = leaving /\ r.user \in User /\ r.session \in Session
         /\ owner[r.session] = r.user
      \/ /\ r.status # "ok" /\ UNCHANGED <<cookie, signedOut>> /\ cached' \in {cached, None}
         /\ leaving' \in BOOLEAN
         /\ path = "login" => leaving' = leaving
  BY <1>1, <1>2 DEF LoginSettles, SetUser, Expel, ClearUser, TypeOK, Truthful
<1>5. cached' \in User \cup {Nobody, None} /\ cookie' \in Session \cup {None}
  BY <1>1, <1>4 DEF TypeOK
<1>6. ActorKnown'
  BY <1>1, <1>4 DEF IInv, ActorKnown, server
<1>7. Bounced'
  BY <1>1, <1>2 DEF Bounced
<1>8. CASE r.status = "ok" /\ path = "login"
  <2>1. Enter(r.user, r.session, reqs \ {r})
    BY <1>8 DEF LoginSettles
  <2>2. PICK n \in Req :
          /\ n.kind = "overview" /\ n.session = r.session /\ n.status = "sent" /\ ~n.adminOnly
          /\ reqs' = (reqs \ {r}) \cup {n}
          /\ path' = "home" /\ menuMode' = "unknown" /\ guard' = "in"
    <3>1. r.user # None /\ r.session \in Session \cup {None}
      BY <1>4, <1>8
    <3> QED
      BY <2>1, <3>1, EntryReq DEF Enter
  <2>3. TypeOK'
    BY <1>1, <1>2, <1>4, <1>5, <2>2 DEF TypeOK, server
  <2>4. Answers'
    BY <1>1, <2>2 DEF Answers, Truthful, server, RoleOf
  <2>5. Places'
    BY <1>1, <1>2, <1>3, <2>2 DEF Places, Placed
  <2>6. OneAwaited'
    BY <1>1, <1>3, <2>2 DEF IInv, OneAwaited
  <2>7. LoggedOut'
    BY <1>4, <1>8 DEF LoggedOut
  <2> QED
    BY <1>6, <1>7, <2>3, <2>4, <2>5, <2>6, <2>7 DEF IInv
<1>9. CASE r.status # "ok" \/ path # "login"
  <2>1. reqs' = reqs \ {r} /\ UNCHANGED <<path, guard, menuMode>>
    BY <1>9 DEF LoginSettles
  <2>2. TypeOK'
    BY <1>1, <1>2, <1>4, <1>5, <2>1 DEF TypeOK, server
  <2>3. Answers'
    BY <1>1, <2>1 DEF Answers, Truthful, server, RoleOf
  <2>4. Places'
    BY <1>1, <1>2, <1>3, <2>1 DEF Places, Placed
  <2>5. OneAwaited'
    BY <1>1, <2>1 DEF IInv, OneAwaited
  <2>6. LoggedOut'
    BY <1>1, <1>4, <2>1 DEF IInv, LoggedOut, server
  <2> QED
    BY <1>6, <1>7, <2>2, <2>3, <2>4, <2>5, <2>6 DEF IInv
<1> QED
  BY <1>8, <1>9

LEMMA LogoutKeeps == ASSUME IInv, NEW r \in reqs, Settle(r), LogoutSettles(r) PROVE IInv'
<1>1. /\ TypeOK /\ r \in Req /\ Truthful(r) /\ Placed(r) /\ r.status # "sent"
      /\ UNCHANGED <<server, bounces, patient, acts>>
      /\ \A q \in reqs : q \in Req /\ Truthful(q) /\ Placed(q)
  BY Settling
<1>2. /\ r.kind = "logout" /\ app = "ready" /\ bounces = 0
      /\ patient => guard = "in"
      /\ UNCHANGED <<app, busy, menuMode, leaving>>
      /\ cached' = None /\ path' = "login" /\ guard' = "none"
      /\ \A q \in reqs' : q \in reqs /\ q # r /\ q.kind # "page"
      /\ (cookie' = None /\ signedOut' = TRUE) \/ UNCHANGED <<cookie, signedOut>>
  BY <1>1, NotBounced DEF LogoutSettles, Placed, TypeOK, ClearUser, ToLogin, Unmounted
<1>3. patient => \A q \in reqs' : q.kind \in {"overview", "abandoned"}
  BY <1>1, <1>2, WaitsAlone
<1>4. TypeOK'
  BY <1>1, <1>2 DEF TypeOK, server
<1>5. Answers'
  BY <1>1, <1>2 DEF Answers, Truthful, server, RoleOf
<1>6. Places'
  BY <1>1, <1>2, <1>3 DEF Places, Placed
<1>7. OneAwaited'
  BY <1>1, <1>2 DEF IInv, OneAwaited
<1>8. ActorKnown' /\ LoggedOut'
  BY <1>1, <1>2 DEF IInv, ActorKnown, LoggedOut, server
<1>9. Bounced'
  BY <1>1, <1>2 DEF Bounced
<1> QED
  BY <1>4, <1>5, <1>6, <1>7, <1>8, <1>9 DEF IInv

LEMMA ReadKeeps ==
    ASSUME IInv, NEW r \in reqs, Settle(r), OverviewSettles(r) \/ PageSettles(r)
    PROVE  IInv'
<1>1. /\ TypeOK /\ r \in Req /\ Truthful(r) /\ Placed(r) /\ r.status # "sent"
      /\ UNCHANGED <<server, bounces, patient, acts>>
      /\ \A q \in reqs : q \in Req /\ Truthful(q) /\ Placed(q)
  BY Settling
<1>2. /\ r.kind \in {"overview", "page"} /\ bounces = 0
      /\ reqs' = reqs \ {r} /\ menuMode' \in {menuMode, serverMode}
      /\ UNCHANGED <<path, app, guard, busy, cookie, signedOut>>
      /\ cached' \in {cached, None} /\ leaving' \in BOOLEAN
      /\ r.status # "unauthorized" => leaving' = leaving
  BY <1>1, NotBounced DEF OverviewSettles, PageSettles, Expel, ClearUser, TypeOK
<1>3. TypeOK'
  BY <1>1, <1>2 DEF TypeOK, server
<1>4. Answers'
  BY <1>1, <1>2 DEF Answers, Truthful, server, RoleOf
<1>5. Places'
  BY <1>1, <1>2 DEF Places, Placed
<1>6. OneAwaited'
  BY <1>1, <1>2 DEF IInv, OneAwaited
<1>7. ActorKnown' /\ LoggedOut'
  BY <1>1, <1>2 DEF IInv, ActorKnown, LoggedOut, server
<1>8. Bounced'
  BY <1>1, <1>2 DEF Bounced
<1> QED
  BY <1>3, <1>4, <1>5, <1>6, <1>7, <1>8 DEF IInv

------------------------------------------------------------------------------
(* What the user does.                                                      *)

\* A new document waits for its bootstrap.
LEMMA DocumentKeeps ==
    ASSUME IInv, NEW p \in {"home", "login"}, Document(p),
           acts' \in 0..MaxActs, UNCHANGED <<signedOut, patient>>,
           bounces' \in {0, 1},
           bounces' = 1 => p = "login"
    PROVE  IInv'
<1> TypeOK
  BY DEF IInv
<1>1. UNCHANGED <<server, cookie, cached>> /\ path' = p /\ app' = "boot" /\ guard' = "none"
  BY DEF Document
<1>4. ~leaving'
  BY DEF Document
<1>2. /\ Sent("boot", cookie) \in Req
      /\ Sent("boot", cookie).kind = "boot" /\ Sent("boot", cookie).session = cookie
      /\ Sent("boot", cookie).status = "sent"
  <2>1. cookie \in Session \cup {None} /\ "boot" \in Kind
    BY <1>1 DEF TypeOK, Kind
  <2> QED
    BY <2>1, SentReq
<1>3. \A q \in reqs' :
        \/ q = Sent("boot", cookie)
        \/ q \in Req /\ q.kind = "abandoned" /\ q.status = "sent"
  <2>1. \A r \in Req : /\ [r EXCEPT !.kind = "abandoned"] \in Req
                       /\ [r EXCEPT !.kind = "abandoned"].kind = "abandoned"
                       /\ [r EXCEPT !.kind = "abandoned"].status = r.status
    BY DEF Req, Kind
  <2> SUFFICES ASSUME NEW q \in reqs', q # Sent("boot", cookie)
               PROVE  q \in Req /\ q.kind = "abandoned" /\ q.status = "sent"
    OBVIOUS
  <2>2. PICK r \in reqs : r.status = "sent" /\ q = [r EXCEPT !.kind = "abandoned"]
    BY DEF Document
  <2>3. r \in Req
    BY <1>1 DEF TypeOK
  <2> QED
    BY <2>1, <2>2, <2>3
<1>5. TypeOK'
  <2>1. /\ serverMode' \in {"development", "enterprise"} /\ disabled' \subseteq User
        /\ owner' \in [Session -> User \cup {None}]
        /\ live' \subseteq {k \in Session : owner'[k] # None}
        /\ cookie' \in Session \cup {None} /\ cached' \in User \cup {Nobody, None}
    BY <1>1 DEF TypeOK, server
  <2>2. signedOut' \in BOOLEAN /\ patient' \in BOOLEAN
    BY DEF TypeOK
  <2>3. /\ path' \in {"home", "login"} /\ app' \in {"boot", "ready"}
        /\ guard' \in {"none", "checking", "in"} /\ guard' = "none"
        /\ menuMode' \in {"unknown", "development", "enterprise"}
    BY DEF Document
  <2>4. busy' \in BOOLEAN /\ leaving' \in BOOLEAN
    BY Zenon DEF Document
  <2>5. reqs' \subseteq Req /\ bounces' \in Nat
    BY <1>2, <1>3
  <2> QED
    BY <2>1, <2>2, <2>3, <2>4, <2>5, Zenon DEF TypeOK
<1>6. Answers'
  BY <1>2, <1>3 DEF Answers, Truthful
<1>7. Places'
  BY <1>1, <1>2, <1>3 DEF Places, Placed
<1>8. OneAwaited'
  BY <1>2, <1>3 DEF OneAwaited
<1>9. ActorKnown' /\ LoggedOut'
  <2>1. ActorKnown'
    BY <1>1 DEF IInv, ActorKnown, server
  <2>2. LoggedOut'
    <3>1. LoggedOut /\ guard' = "none" /\ UNCHANGED <<serverMode, cookie, cached>>
      BY <1>1 DEF IInv, server
    <3> QED
      BY <3>1 DEF LoggedOut
  <2> QED
    BY <2>1, <2>2
<1>10. Bounced'
  <2>1. path' = p
    BY <1>1
  <2> QED
    BY <1>2, <1>3, <1>4, <2>1 DEF Bounced
<1> QED
  BY <1>5, <1>6, <1>7, <1>8, <1>9, <1>10 DEF IInv

LEMMA KindsAsked == {"boot", "login", "logout", "page"} \subseteq Kind
BY DEF Kind

\* One request more, of a kind that is not under way where it must be alone.
LEMMA AskKeeps ==
    ASSUME IInv, acts' \in 0..MaxActs, bounces' = 0,
           UNCHANGED <<server, cookie, cached, path, app, guard, menuMode, leaving,
                       signedOut, patient>>,
           busy' = busy \/ busy' = TRUE,
           NEW n \in Req, Truthful(n), Placed(n)', n.kind # "boot",
           reqs' \subseteq reqs \cup {n},
           patient /\ n.kind \in {"guard", "login", "logout"} =>
               \A q \in reqs : q.kind # n.kind
    PROVE  IInv'
<1>1. TypeOK'
  <2>1. TypeOK /\ busy' \in BOOLEAN /\ reqs' \subseteq Req
    BY DEF IInv, TypeOK
  <2>2. leaving' \in BOOLEAN /\ signedOut' \in BOOLEAN /\ patient' \in BOOLEAN
    BY <2>1 DEF TypeOK
  <2> QED
    BY <2>1, <2>2 DEF TypeOK, server
<1>2. Answers'
  BY DEF IInv, Answers, Truthful, server, RoleOf
<1>3. Places'
  BY DEF IInv, Places, Placed
<1>4. OneAwaited'
  BY DEF IInv, OneAwaited
<1>5. ActorKnown' /\ LoggedOut' /\ Bounced'
  BY DEF IInv, ActorKnown, LoggedOut, Bounced, server
<1> QED
  BY <1>1, <1>2, <1>3, <1>4, <1>5 DEF IInv

LEMMA BackKeeps ==
    ASSUME IInv, Back, acts' \in 0..MaxActs, bounces' = 0, patient' = patient
    PROVE  IInv'
<1>1. /\ TypeOK /\ app = "ready" /\ app' = app /\ path = "login" /\ busy' = FALSE
      /\ UNCHANGED <<server, cookie, cached, leaving, signedOut>>
      /\ \A q \in reqs : q \in Req /\ Truthful(q) /\ Placed(q)
      /\ guard = "none"
  BY DEF IInv, TypeOK, Back, Answers, Places
<1>2. PICK n \in Req :
        /\ n.kind = IF cached # None THEN "overview" ELSE "guard"
        /\ n.session = cookie /\ n.status = "sent" /\ ~n.adminOnly
        /\ reqs' = reqs \cup {n}
        /\ path' = "home" /\ menuMode' = "unknown"
        /\ guard' = IF cached # None THEN "in" ELSE "checking"
  <2>1. cookie \in Session \cup {None} /\ Enter(cached, cookie, reqs)
    BY <1>1 DEF TypeOK, Back
  <2>2. CASE cached # None
    BY <2>1, <2>2, EntryReq DEF Enter
  <2>3. CASE cached = None
    BY <2>1, <2>3, EntryReq DEF Enter
  <2> QED
    BY <2>2, <2>3
<1>3. patient => \A q \in reqs : q.kind \in {"overview", "abandoned"}
  <2> SUFFICES ASSUME patient, NEW q \in reqs PROVE q.kind \in {"overview", "abandoned"}
    OBVIOUS
  <2>1. q.kind \in Kind /\ q.kind \notin {"guard", "login", "logout"} /\ Placed(q)
    BY <1>1 DEF Back, Answerless, Req
  <2> QED
    BY <1>1, <2>1 DEF Placed, Kind
<1>4. TypeOK'
  BY <1>1, <1>2 DEF TypeOK, server
<1>5. Answers'
  BY <1>1, <1>2 DEF Answers, Truthful, server, RoleOf
<1>6. Places'
  BY <1>1, <1>2, <1>3 DEF Places, Placed
<1>7. OneAwaited'
  BY <1>1, <1>2, <1>3 DEF IInv, OneAwaited, Placed
<1>8. ActorKnown' /\ LoggedOut' /\ Bounced'
  BY <1>1, <1>2 DEF IInv, ActorKnown, LoggedOut, Bounced, server
<1> QED
  BY <1>4, <1>5, <1>6, <1>7, <1>8 DEF IInv

LEMMA ForwardKeeps ==
    ASSUME IInv, Forward, acts' \in 0..MaxActs, bounces' = 0, patient' = patient
    PROVE  IInv'
<1>1. /\ TypeOK /\ app = "ready" /\ path' = "login" /\ guard' = "none"
      /\ UNCHANGED <<server, cookie, cached, app, busy, menuMode, leaving, signedOut>>
      /\ \A q \in reqs' : q \in reqs /\ q.kind # "page"
      /\ \A q \in reqs : q \in Req /\ Truthful(q) /\ Placed(q)
  BY DEF IInv, TypeOK, Forward, ToLogin, Unmounted, Answers, Places
<1>2. patient => \A q \in reqs : q.kind \notin {"guard", "login", "logout"}
  BY DEF Forward, Answerless
<1>3. TypeOK'
  BY <1>1 DEF TypeOK, server
<1>4. Answers'
  BY <1>1 DEF Answers, Truthful, server, RoleOf
<1>5. Places'
  BY <1>1, <1>2 DEF Places, Placed
<1>6. OneAwaited'
  BY <1>1 DEF IInv, OneAwaited
<1>7. ActorKnown' /\ LoggedOut' /\ Bounced'
  BY <1>1 DEF IInv, ActorKnown, LoggedOut, Bounced, server
<1> QED
  BY <1>3, <1>4, <1>5, <1>6, <1>7 DEF IInv

LEMMA ActKeeps == ASSUME IInv, acts < MaxActs, acts' = acts + 1, Act PROVE IInv'
<1>1. /\ acts' \in 0..MaxActs /\ bounces' = 0 /\ patient' = patient /\ TypeOK
      /\ cookie \in Session \cup {None}
  BY ActCounted DEF Act, IInv, TypeOK
<1>2. ASSUME NEW p \in {"home", "login"}, Visit(p) PROVE IInv'
  BY <1>1, <1>2, DocumentKeeps DEF Visit
<1>3. ASSUME NEW u \in User, Login(u) PROVE IInv'
  <2> DEFINE m == [Sent("login", cookie) EXCEPT !.user = u]
  <2>1. PICK n \in Req : n = m /\ n.kind = "login" /\ n.status = "sent" /\ n.user = u
    <3>1. m \in Req /\ m.kind = "login" /\ m.status = "sent" /\ m.user = u
      BY <1>1, SentReq, KindsAsked
    <3> HIDE DEF m
    <3> QED
      BY <3>1
  <2>2. reqs' = reqs \cup {n} /\ path = "login" /\ app = "ready" /\ ~busy /\ busy' = TRUE
    BY <1>3, <2>1 DEF Login
  <2>3. Truthful(n) /\ Placed(n)'
    <3>1. path' = "login" /\ app' = "ready"
      BY <1>3, <2>2 DEF Login
    <3> QED
      BY <2>1, <2>2, <3>1 DEF Truthful, Placed
  <2>4. patient => \A q \in reqs : q.kind # "login"
    BY <2>2 DEF IInv, Places, Placed
  <2> QED
    BY <1>1, <1>3, <2>1, <2>2, <2>3, <2>4, AskKeeps DEF Login
<1>4. CASE Logout
  <2>1. PICK n \in Req : n = Sent("logout", cookie) /\ n.kind = "logout" /\ n.status = "sent"
    BY <1>1, SentReq, KindsAsked
  <2>2. reqs' = reqs \cup {n} /\ UNCHANGED <<server, view, cookie, cached, signedOut>> /\ Visible
    BY <1>4, <2>1 DEF Logout
  <2>3. Truthful(n) /\ Placed(n)'
    <3>1. guard' = "in" /\ app' = "ready"
      BY <2>2 DEF view, Visible
    <3> QED
      BY <2>1, <3>1 DEF Truthful, Placed
  <2>4. patient => \A q \in reqs : q.kind # "logout"
    BY <1>4 DEF Logout, Answerless
  <2> QED
    BY <1>1, <2>1, <2>2, <2>3, <2>4, AskKeeps DEF view
<1>5. ASSUME NEW p \in Page, Open(p) PROVE IInv'
  <2> DEFINE b == p \in AdminOnly
             d == p \in NeedsUser
             m == [Sent("page", cookie) EXCEPT !.adminOnly = b, !.needsUser = d]
  <2>1. PICK n \in Req : n = m /\ n.kind = "page" /\ n.status = "sent" /\ n.session = cookie
    <3>1. b \in BOOLEAN /\ d \in BOOLEAN
      OBVIOUS
    <3>2. "page" \in Kind
      BY DEF Kind
    <3>3. m \in Req /\ m.kind = "page" /\ m.status = "sent" /\ m.session = cookie
      BY <1>1, <3>1, <3>2 DEF Sent, Req
    <3> HIDE DEF m
    <3> QED
      BY <3>3
  <2>2. /\ reqs' \subseteq reqs \cup {n} /\ Visible
        /\ UNCHANGED <<server, view, cookie, cached, signedOut>>
    BY <1>5, <2>1 DEF Open, Unmounted
  <2>3. Truthful(n) /\ Placed(n)'
    <3>1. guard' = "in" /\ app' = "ready" /\ cookie' = cookie
      BY <2>2 DEF view, Visible
    <3> QED
      BY <2>1, <3>1 DEF Truthful, Placed
  <2> QED
    BY <1>1, <2>1, <2>2, <2>3, AskKeeps DEF view
<1> QED
  BY <1>1, <1>2, <1>3, <1>4, <1>5, BackKeeps, ForwardKeeps DEF Act

------------------------------------------------------------------------------
LEMMA NextKeeps == IInv /\ [Next]_vars => IInv'
<1> SUFFICES ASSUME IInv, [Next]_vars PROVE IInv'
  OBVIOUS
<1>1. ASSUME NEW r \in reqs, Progress(r) PROVE IInv'
  BY <1>1, ServeKeeps, LoseKeeps, BootKeeps, GuardKeeps, LoginKeeps, LogoutKeeps, ReadKeeps
     DEF Progress, Settle
<1>2. CASE Bounce
  <2>1. acts' \in 0..MaxActs
    BY <1>2 DEF Bounce, IInv, TypeOK
  <2>2. bounces' = 1
    BY <1>2 DEF Bounce, IInv, Bounced
  <2> QED
    BY <1>2, <2>1, <2>2, DocumentKeeps DEF Bounce
<1>3. CASE UNCHANGED vars
  <2> USE DEF vars, server, view
  <2>1. TypeOK'
    BY <1>3 DEF IInv, TypeOK
  <2>2. Answers' /\ Places' /\ OneAwaited'
    BY <1>3 DEF IInv, Answers, Truthful, RoleOf, Places, Placed, OneAwaited
  <2>3. ActorKnown' /\ LoggedOut' /\ Bounced'
    BY <1>3 DEF IInv, ActorKnown, LoggedOut, Bounced
  <2> QED
    BY <2>1, <2>2, <2>3 DEF IInv
<1> QED
  BY <1>1, <1>2, <1>3, ActKeeps, EnvironmentKeeps DEF Next

LEMMA InitKeeps == Init => IInv
<1> SUFFICES ASSUME Init PROVE IInv
  OBVIOUS
<1>1. /\ Sent("boot", None) \in Req
      /\ Sent("boot", None).kind = "boot" /\ Sent("boot", None).session = None
      /\ Sent("boot", None).status = "sent"
  BY SentReq DEF Kind
<1>2. TypeOK
  <2>1. busy \in BOOLEAN /\ leaving \in BOOLEAN /\ signedOut \in BOOLEAN /\ patient \in BOOLEAN
    BY Zenon DEF Init
  <2>2. reqs \subseteq Req /\ bounces \in Nat /\ acts \in 0..MaxActs
    BY <1>1 DEF Init
  <2>3. /\ serverMode \in {"development", "enterprise"} /\ disabled \subseteq User
        /\ owner \in [Session -> User \cup {None}]
        /\ live \subseteq {k \in Session : owner[k] # None}
        /\ cookie \in Session \cup {None} /\ cached \in User \cup {Nobody, None}
        /\ path \in {"home", "login"} /\ app \in {"boot", "ready"}
        /\ guard \in {"none", "checking", "in"} /\ guard = "none"
        /\ menuMode \in {"unknown", "development", "enterprise"}
    BY DEF Init
  <2> QED
    BY <2>1, <2>2, <2>3, Zenon DEF TypeOK
<1>3. Answers /\ Places /\ OneAwaited
  BY <1>1 DEF Init, Answers, Truthful, Places, Placed, OneAwaited
<1>4. ActorKnown /\ LoggedOut /\ Bounced
  BY DEF Init, ActorKnown, LoggedOut, Bounced
<1> QED
  BY <1>2, <1>3, <1>4 DEF IInv

LEMMA AlwaysIInv == Spec => []IInv
BY InitKeeps, NextKeeps, PTL DEF Spec

------------------------------------------------------------------------------
(* The results.                                                             *)

\* Every variable keeps its shape, and the dashboard is on the screen only once
\* the bootstrap has settled (App.tsx, RouteGuard.tsx).
THEOREM SessionTyped == Spec => []TypeOK
<1>1. IInv => TypeOK
  BY DEF IInv
<1> QED
  BY <1>1, AlwaysIInv, PTL

\* A dead session, or a handler that misses a user in development mode, reloads
\* the tab at most once between two acts of the user (client.ts, the interceptor).
THEOREM BouncesOnce == Spec => []OneBounce
<1>1. IInv => OneBounce
  BY DEF IInv, Bounced, OneBounce
<1> QED
  BY <1>1, AlwaysIInv, PTL

\* A user who waits is shown the user the server takes him for
\* (RouteGuard.tsx, LoginPage.tsx).
THEOREM ActorsShown == Spec => []ActorShown
<1>1. IInv => ActorShown
  BY DEF IInv, ActorKnown, ActorShown
<1> QED
  BY <1>1, AlwaysIInv, PTL

\* After a confirmed logout no request is let in before the next login, and who
\* waits does not see the dashboard (DashboardLayout.tsx, onLogout).
THEOREM LogoutsHold == Spec => []LogoutHolds
<1>1. IInv => LogoutHolds
  <2> SUFFICES ASSUME IInv, signedOut, serverMode = "enterprise"
               PROVE  ~Authenticated(cookie) /\ (patient => ~Visible)
    BY DEF LogoutHolds
  <2>1. cookie = None /\ None \notin live
    BY DEF IInv, LoggedOut, TypeOK
  <2>2. patient => guard # "in"
    BY DEF IInv, LoggedOut
  <2> QED
    BY <2>1, <2>2 DEF Authenticated, HasSession, Visible
<1> QED
  BY <1>1, AlwaysIInv, PTL

\* No page of a system administrator's menu is refused to one who waits
\* (DashboardLayout.tsx, middleware.go).
THEOREM AdminsGetServed == Spec => []AdminsServed
<1>1. IInv => AdminsServed
  <2> SUFFICES ASSUME IInv, patient, NEW r \in reqs, r.status = "forbidden"
               PROVE  RoleOf(cached) # "system_admin"
    BY DEF AdminsServed
  <2>1. /\ r.kind = "page" /\ r.session \in Session /\ RoleOf(owner[r.session]) # "system_admin"
        /\ r.session = cookie
    BY DEF IInv, Answers, Truthful, Places, Placed
  <2>2. CASE cached \in User
    BY <2>1, <2>2 DEF IInv, ActorKnown
  <2>3. CASE cached \notin User
    BY <2>3 DEF RoleOf
  <2> QED
    BY <2>2, <2>3
<1> QED
  BY <1>1, AlwaysIInv, PTL
==============================================================================
