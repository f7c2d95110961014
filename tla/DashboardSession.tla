--------------------------- MODULE DashboardSession ---------------------------
(* One browser tab of the dashboard and the web sessions of the gateway: the
   bootstrap of the app, the route guard, the login page, the layout with its
   menu and logout, and the interceptor that reacts to 401.  A request is sent
   with the cookie of that moment, served later, and answered later still; it
   may also fail on the way (the client gives up after 60 s).                *)
EXTENDS Naturals, FiniteSets

CONSTANTS
    User,       \* accounts
    Role,       \* the role of each account
    Session,    \* identities of web sessions
    MaxActs,    \* bound on what user and environment do
    Nobody,     \* the cached user of development mode: a user without account
    None

ASSUME RoleAssumption == Role \in [User -> {"system_admin", "service_admin", "member", "auditor"}]
ASSUME NoneAssumption == None \notin User \cup Session \cup {Nobody} /\ Nobody \notin User
ASSUME ActsAssumption == MaxActs \in Nat

VARIABLES
    serverMode, \* development or enterprise, fixed at initialisation
    disabled,   \* users whose account is disabled
    owner,      \* user_sessions: the user of a session, None if it does not exist
    live,       \* the sessions that are neither revoked nor expired
    cookie,     \* the browser's session cookie
    cached,     \* sessionStorage: the user the dashboard shows
    path,       \* "login", or "home" for every guarded route
    app,        \* App: "boot" until the bootstrap's verify has settled
    guard,      \* RouteGuard: "none" when not mounted, "checking", or "in"
    busy,       \* LoginPage: loading
    menuMode,   \* DashboardLayout: the mode the overview has told, "unknown" before
    leaving,    \* location.href was set; the document is about to be replaced
    reqs,       \* requests in flight
    bounces,    \* history: reloads by the interceptor since the user last acted
    signedOut,  \* history: a logout was answered, and no login since
    patient,    \* the user waits for what was asked before going elsewhere
    acts

server == <<serverMode, disabled, owner, live>>
view == <<path, app, guard, busy, menuMode, leaving>>
vars == <<server, view, cookie, cached, reqs, bounces, signedOut, patient, acts>>

Page == {"/", "/servers", "/tools", "/tool-collections", "/prompts", "/resources",
         "/diagnostics", "/device-tokens", "/users", "/stats", "/my-services",
         "/my-stats", "/permission-groups", "/audit"}

\* The pages that load from an endpoint of the admin group.
AdminOnly == {"/permission-groups", "/users", "/stats", "/my-stats", "/device-tokens",
              "/my-services"}

\* The pages that load device tokens, whose handler wants to know the user.
NeedsUser == {"/device-tokens", "/my-services"}

DevMenu == {"/", "/servers", "/tools", "/tool-collections", "/prompts", "/resources",
            "/diagnostics"}
SystemAdminMenu == {"/", "/servers", "/permission-groups", "/users", "/tool-collections",
                    "/stats", "/audit"}
ServiceAdminMenu == {"/my-services", "/device-tokens", "/my-stats", "/servers",
                     "/tool-collections"}
MemberMenu == {"/my-services", "/device-tokens", "/my-stats"}
AuditorMenu == {"/stats", "/audit"}

RoleOf(u) == IF u \in User THEN Role[u] ELSE "none"

\* What the layout offers to the user it finds in the cache.
Menu ==
    IF menuMode = "development" THEN DevMenu
    ELSE CASE RoleOf(cached) = "system_admin" -> SystemAdminMenu
           [] RoleOf(cached) = "service_admin" -> ServiceAdminMenu
           [] RoleOf(cached) = "auditor" -> AuditorMenu
           [] OTHER -> MemberMenu

Kind == {"boot", "guard", "login", "logout", "overview", "page", "abandoned"}
Req == [kind : Kind, session : Session \cup {None}, user : User \cup {Nobody, None},
        adminOnly : BOOLEAN, needsUser : BOOLEAN,
        status : {"sent", "ok", "unauthorized", "forbidden", "lost"}]

\* A request of the given kind, with cookie k.
Sent(kind, k) ==
    [kind |-> kind, session |-> k, user |-> None, adminOnly |-> FALSE,
     needsUser |-> FALSE, status |-> "sent"]

\* The dashboard is on the screen.
Visible == app = "ready" /\ path = "home" /\ guard = "in"

------------------------------------------------------------------------------
(* The server.                                                             *)

HasSession(k) == k \in live

\* The request's session is live and its user may work: what the middleware
\* asks of every request but verify, login and logout.
Authenticated(k) ==
    serverMode = "development" \/ (HasSession(k) /\ owner[k] \notin disabled)

Authorized(k) == serverMode = "development" \/ RoleOf(owner[k]) = "system_admin"

Answered(r, status, user) ==
    reqs' = (reqs \ {r}) \cup {[r EXCEPT !.status = status, !.user = user]}

\* Verify does not look at the account's status.
ServeVerify(r) ==
    /\ r.kind \in {"boot", "guard"}
    /\ IF serverMode = "development" THEN Answered(r, "ok", Nobody)
       ELSE IF HasSession(r.session) THEN Answered(r, "ok", owner[r.session])
       ELSE Answered(r, "unauthorized", None)
    /\ UNCHANGED server

\* Neither does login.  The password may be wrong, and in development mode
\* there need not be any account.
ServeLogin(r) ==
    /\ r.kind = "login"
    /\ \/ Answered(r, "unauthorized", None) /\ UNCHANGED server
       \/ \E k \in Session :
            /\ owner[k] = None
            /\ owner' = [owner EXCEPT ![k] = r.user]
            /\ live' = live \cup {k}
            /\ reqs' = (reqs \ {r}) \cup {[r EXCEPT !.status = "ok", !.session = k]}
            /\ UNCHANGED <<serverMode, disabled>>

\* The session is revoked.  A page that was reloaded meanwhile hears nothing.
ServeLogout(r) ==
    /\ r.kind \in {"logout", "abandoned"}
    /\ live' = live \ {r.session}
    /\ IF r.kind = "logout" THEN Answered(r, "ok", None) ELSE reqs' = reqs \ {r}
    /\ UNCHANGED <<serverMode, disabled, owner>>

\* The middleware finds no user in development mode, where it lets all in, so
\* a handler that asks for one answers 401 itself.
NoUser(r) == r.needsUser /\ serverMode = "development"

ServeRead(r) ==
    /\ r.kind \in {"overview", "page"}
    /\ Answered(r, IF ~Authenticated(r.session) \/ NoUser(r) THEN "unauthorized"
                   ELSE IF r.adminOnly /\ ~Authorized(r.session) THEN "forbidden"
                   ELSE "ok", None)
    /\ UNCHANGED server

Serve(r) ==
    /\ r.status = "sent"
    /\ ServeVerify(r) \/ ServeLogin(r) \/ ServeLogout(r) \/ ServeRead(r)
    /\ UNCHANGED <<view, cookie, cached, bounces, signedOut, patient, acts>>

Expire(k) ==
    /\ live' = live \ {k}
    /\ UNCHANGED <<serverMode, disabled, owner>>

\* Disabling a user, which is refused for a system administrator, revokes the
\* sessions; an error of that is only logged.
Disable(u) ==
    /\ Role[u] # "system_admin"
    /\ disabled' = disabled \cup {u}
    /\ live' \in {live, {k \in live : owner[k] # u}}
    /\ UNCHANGED <<serverMode, owner>>

------------------------------------------------------------------------------
(* The browser.                                                            *)

\* What sessionStorage is told.
SetUser(u) == cached' = u
ClearUser == cached' = None

\* A new document at p: all state of the app is lost, sessionStorage and
\* cookie stay, and the bootstrap asks verify.
Document(p) ==
    /\ path' = p
    /\ app' = "boot"
    /\ guard' = "none"
    /\ busy' = FALSE
    /\ menuMode' = "unknown"
    /\ leaving' = FALSE
    /\ reqs' = {[r EXCEPT !.kind = "abandoned"] :
                   r \in {q \in reqs : q.kind \in {"logout", "abandoned"} /\ q.status = "sent"}}
               \cup {Sent("boot", cookie)}
    /\ UNCHANGED <<server, cookie, cached>>

\* The guarded routes are rendered, with c in the cache and k for a cookie:
\* the guard trusts a cached user and asks verify otherwise.  The layout
\* inside it asks for the overview.  rs: the other requests in flight.
Enter(c, k, rs) ==
    /\ path' = "home"
    /\ guard' = IF c # None THEN "in" ELSE "checking"
    /\ menuMode' = "unknown"
    /\ reqs' = rs \cup {Sent(IF c # None THEN "overview" ELSE "guard", k)}

\* Mutant: a page that is left lets its load run on.
UnmountedLoading(rs) == rs

\* A page that is left aborts its load; the layout does not abort its own.
Unmounted(rs) == {r \in rs : r.kind # "page"}

\* The route /login takes the place of the guarded ones.
ToLogin(rs) == path' = "login" /\ guard' = "none" /\ reqs' = Unmounted(rs)

\* Mutant: the interceptor reloads wherever it is.
ExpelAlways(r) ==
    IF r.status = "unauthorized"
    THEN ClearUser /\ leaving' = TRUE
    ELSE UNCHANGED <<cached, leaving>>

\* The interceptor: what a 401 does before the caller sees the error.
Expel(r) ==
    IF r.status = "unauthorized"
    THEN /\ ClearUser
         /\ leaving' = (leaving \/ path # "login")
    ELSE UNCHANGED <<cached, leaving>>

\* Mutant: without finally, the app is only rendered after an answer.
BootSettlesAnswered(r) ==
    /\ r.kind = "boot"
    /\ app' = IF r.status = "lost" THEN "boot" ELSE "ready"
    /\ IF r.status = "ok" THEN SetUser(r.user) /\ UNCHANGED leaving ELSE Expel(r)
    /\ IF path = "home" /\ app' = "ready"
       THEN Enter(cached', cookie, reqs \ {r})
       ELSE reqs' = reqs \ {r} /\ UNCHANGED <<path, guard, menuMode>>
    /\ UNCHANGED <<busy, cookie, signedOut>>

\* The bootstrap's verify settles; the app is rendered whatever came.
BootSettles(r) ==
    /\ r.kind = "boot"
    /\ app' = "ready"
    /\ IF r.status = "ok" THEN SetUser(r.user) /\ UNCHANGED leaving ELSE Expel(r)
    /\ IF path = "home"
       THEN Enter(cached', cookie, reqs \ {r})
       ELSE reqs' = reqs \ {r} /\ UNCHANGED <<path, guard, menuMode>>
    /\ UNCHANGED <<busy, cookie, signedOut>>

\* The guard's verify settles: into the dashboard, or to the login page.  The
\* answer changes the cache also when the guard is no longer there.
GuardSettles(r) ==
    /\ r.kind = "guard"
    /\ IF r.status = "ok"
       THEN SetUser(r.user) /\ UNCHANGED leaving
       ELSE ClearUser /\ leaving' = (leaving \/ (r.status = "unauthorized" /\ path # "login"))
    /\ CASE guard = "checking" /\ r.status = "ok" -> Enter(r.user, cookie, reqs \ {r})
         [] guard = "checking" /\ r.status # "ok" -> ToLogin(reqs \ {r}) /\ UNCHANGED menuMode
         [] OTHER -> reqs' = reqs \ {r} /\ UNCHANGED <<path, guard, menuMode>>
    /\ UNCHANGED <<app, busy, cookie, signedOut>>

\* Mutant: the login leaves it to the guard to fill the cache.
LoginSettlesUncached(r) ==
    /\ r.kind = "login"
    /\ busy' = FALSE
    /\ IF r.status = "ok"
       THEN cookie' = r.session /\ signedOut' = FALSE /\ UNCHANGED <<cached, leaving>>
       ELSE Expel(r) /\ UNCHANGED <<cookie, signedOut>>
    /\ IF r.status = "ok" /\ path = "login"
       THEN Enter(cached, r.session, reqs \ {r})
       ELSE reqs' = reqs \ {r} /\ UNCHANGED <<path, guard, menuMode>>
    /\ UNCHANGED app

\* LoginPage: onSubmit after its await.  The navigation to / mounts the guard
\* unless the user has gone there meanwhile.
LoginSettles(r) ==
    /\ r.kind = "login"
    /\ busy' = FALSE
    /\ IF r.status = "ok"
       THEN /\ cookie' = r.session
            /\ SetUser(r.user)
            /\ signedOut' = FALSE
            /\ UNCHANGED leaving
       ELSE Expel(r) /\ UNCHANGED <<cookie, signedOut>>
    /\ IF r.status = "ok" /\ path = "login"
       THEN Enter(r.user, r.session, reqs \ {r})
       ELSE reqs' = reqs \ {r} /\ UNCHANGED <<path, guard, menuMode>>
    /\ UNCHANGED app

\* Mutant: the logout does not clear the cache.
LogoutSettlesCached(r) ==
    /\ r.kind = "logout"
    /\ cookie' = IF r.status = "ok" THEN None ELSE cookie
    /\ signedOut' = (signedOut \/ r.status = "ok")
    /\ ToLogin(reqs \ {r})
    /\ UNCHANGED <<app, busy, cached, menuMode, leaving>>

\* onLogout after its await; errors are ignored.
LogoutSettles(r) ==
    /\ r.kind = "logout"
    /\ cookie' = IF r.status = "ok" THEN None ELSE cookie
    /\ signedOut' = (signedOut \/ r.status = "ok")
    /\ ClearUser
    /\ ToLogin(reqs \ {r})
    /\ UNCHANGED <<app, busy, menuMode, leaving>>

\* Mutant: the overview's answer is read whatever it is.
OverviewSettlesUnread(r) ==
    /\ r.kind = "overview"
    /\ menuMode' = IF guard # "in" THEN menuMode
                   ELSE IF r.status = "ok" THEN serverMode ELSE "undefined"
    /\ Expel(r)
    /\ reqs' = reqs \ {r}
    /\ UNCHANGED <<path, app, guard, busy, cookie, signedOut>>

OverviewSettles(r) ==
    /\ r.kind = "overview"
    /\ menuMode' = IF r.status = "ok" /\ guard = "in" THEN serverMode ELSE menuMode
    /\ Expel(r)
    /\ reqs' = reqs \ {r}
    /\ UNCHANGED <<path, app, guard, busy, cookie, signedOut>>

\* A page shows its rows or an Alert, which is DashboardPages' matter.
PageSettles(r) ==
    /\ r.kind = "page"
    /\ Expel(r)
    /\ reqs' = reqs \ {r}
    /\ UNCHANGED <<path, app, guard, busy, menuMode, cookie, signedOut>>

Settle(r) ==
    /\ r.status # "sent"
    /\ \/ BootSettles(r) \/ GuardSettles(r) \/ LoginSettles(r)
       \/ LogoutSettles(r) \/ OverviewSettles(r) \/ PageSettles(r)
    /\ UNCHANGED <<server, bounces, patient, acts>>

\* The client gives up on a request, whether it was served or not.
Lose(r) ==
    /\ r.kind # "abandoned"
    /\ r.status # "lost"
    /\ Answered(r, "lost", None)
    /\ UNCHANGED <<server, view, cookie, cached, bounces, signedOut, patient, acts>>

\* The document at /login replaces this one.
Bounce ==
    /\ leaving
    /\ Document("login")
    /\ bounces' = bounces + 1
    /\ UNCHANGED <<signedOut, patient, acts>>

------------------------------------------------------------------------------
(* The user.                                                               *)

\* Something the user asked for, or waits for, has not come back.
Answerless == \E r \in reqs : r.kind \in {"guard", "login", "logout"}

\* An address is typed, or the page reloaded.
Visit(p) == Document(p) /\ UNCHANGED signedOut

Login(u) ==
    /\ app = "ready" /\ path = "login" /\ ~busy
    /\ busy' = TRUE
    /\ reqs' = reqs \cup {[Sent("login", cookie) EXCEPT !.user = u]}
    /\ UNCHANGED <<server, cookie, cached, path, app, guard, menuMode, leaving, signedOut>>

Logout ==
    /\ Visible
    /\ patient => ~Answerless
    /\ reqs' = reqs \cup {Sent("logout", cookie)}
    /\ UNCHANGED <<server, view, cookie, cached, signedOut>>

Open(p) ==
    /\ Visible
    /\ p \in Menu
    /\ reqs' = Unmounted(reqs)
               \cup {[Sent("page", cookie) EXCEPT !.adminOnly = (p \in AdminOnly),
                                                  !.needsUser = (p \in NeedsUser)]}
    /\ UNCHANGED <<server, view, cookie, cached, signedOut>>

\* The browser's Back and Forward between routes of the one document.
Back ==
    /\ app = "ready" /\ path = "login"
    /\ patient => ~Answerless
    /\ Enter(cached, cookie, reqs)
    /\ busy' = FALSE
    /\ UNCHANGED <<server, cookie, cached, app, leaving, signedOut>>

Forward ==
    /\ app = "ready" /\ path = "home"
    /\ patient => ~Answerless
    /\ ToLogin(reqs)
    /\ UNCHANGED <<server, cookie, cached, app, busy, menuMode, leaving, signedOut>>

Act ==
    /\ \/ \E p \in {"home", "login"} : Visit(p)
       \/ \E u \in User : Login(u)
       \/ \E p \in Page : Open(p)
       \/ Logout \/ Back \/ Forward
    /\ bounces' = 0
    /\ UNCHANGED patient

Environment ==
    /\ \/ \E k \in live : Expire(k)
       \/ \E u \in User \ disabled : Disable(u)
    /\ UNCHANGED <<view, cookie, cached, reqs, bounces, signedOut, patient>>

------------------------------------------------------------------------------
Init ==
    /\ serverMode \in {"development", "enterprise"}
    /\ disabled = {}
    /\ owner = [k \in Session |-> None]
    /\ live = {}
    /\ cookie = None
    /\ cached = None
    /\ path = "home"
    /\ app = "boot"
    /\ guard = "none"
    /\ busy = FALSE
    /\ menuMode = "unknown"
    /\ leaving = FALSE
    /\ reqs = {Sent("boot", None)}
    /\ bounces = 0
    /\ signedOut = FALSE
    /\ patient \in BOOLEAN
    /\ acts = 0

Progress(r) == Serve(r) \/ Lose(r) \/ Settle(r)

Next ==
    \/ \E r \in reqs : Progress(r)
    \/ Bounce
    \/ acts < MaxActs /\ acts' = acts + 1 /\ (Act \/ Environment)

Spec == Init /\ [][Next]_vars

\* Every request settles within the client's timeout, and a navigation that
\* was begun takes place.  The user owes nothing.
Fairness == WF_vars(\E r \in reqs : Progress(r)) /\ WF_vars(Bounce)

FairSpec == Spec /\ Fairness

------------------------------------------------------------------------------
(* Properties.                                                             *)

\* Every variable keeps its shape; a dashboard on the screen is never a page
\* whose bootstrap has not settled.
TypeOK ==
    /\ serverMode \in {"development", "enterprise"}
    /\ disabled \subseteq User
    /\ owner \in [Session -> User \cup {None}]
    /\ live \subseteq {k \in Session : owner[k] # None}
    /\ cookie \in Session \cup {None}
    /\ cached \in User \cup {Nobody, None}
    /\ path \in {"home", "login"}
    /\ app \in {"boot", "ready"}
    /\ guard \in {"none", "checking", "in"}
    /\ guard # "none" => app = "ready" /\ path = "home"
    /\ busy \in BOOLEAN
    /\ menuMode \in {"unknown", "development", "enterprise"}
    /\ leaving \in BOOLEAN
    /\ reqs \subseteq Req
    /\ bounces \in Nat
    /\ signedOut \in BOOLEAN
    /\ patient \in BOOLEAN
    /\ acts \in 0..MaxActs

\* The user is thrown out once: bootstrap, guard and interceptor all react to
\* the 401s of a dead session, and in development mode to those of handlers that
\* miss a user; the reload at /login asks verify again, and may hear another
\* 401, but does not reload again (client.ts).
OneBounce == bounces <= 1

\* The user in the header is the user the server sees: the guard trusts
\* sessionStorage and the server the cookie, whatever order of logins,
\* failed logouts, reloads and late answers made them (RouteGuard.tsx).  It takes
\* a user who waits: the answer of a guard that is gone still writes the cache.
ActorShown ==
    patient /\ Visible /\ cached \in User /\ cookie \in live => owner[cookie] = cached

\* After a logout the server has confirmed nothing brings the dashboard back
\* without a login: not Back, not a reload, not an answer under way
\* (DashboardLayout.tsx, onLogout).  Who does not wait may be shown its frame by
\* the late answer of a guard, but no request he sends is let in any more.
LogoutHolds ==
    signedOut /\ serverMode = "enterprise" =>
        ~Authenticated(cookie) /\ (patient => ~Visible)

\* A page that the menu offers is not refused to a system administrator: the
\* menu goes by the cached role and the API by the session's user.
AdminsServed ==
    patient => \A r \in reqs :
        r.status = "forbidden" /\ path = "home" => RoleOf(cached) # "system_admin"

\* The screen does not stay blank: whatever fails, bootstrap, guard and reload
\* end with the app rendered, in the dashboard or at the login form.
TabSettles ==
    app = "boot" \/ guard = "checking" \/ leaving
        ~> app = "ready" /\ ~leaving /\ (Visible \/ path = "login")
==============================================================================
