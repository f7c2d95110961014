# MCPJungle in TLA+

MCPJungle is a gateway between AI clients and MCP servers: administrators
register upstream servers, the gateway stores their tools in MySQL, exposes the
tools of the published ones through an in-memory MCP proxy, and forwards calls
to the upstreams; a browser dashboard edits and shows all of it. This directory holds
models of its core logic, the TLC configurations that check them, and TLAPS
proofs about them. Paths below are relative to `src/`; `service/` stands for
`internal/service/` and `web/` for `web/dashboard/src/`. Run `tlc -config X.cfg M` for the runs
listed below and `tlapm` on the eight `_proofs` modules.

## 1. Inventory

| Component | State it keeps | Operations | What is hard | What makes it correct |
|---|---|---|---|---|
| Server lifecycle (`service/mcp/lifecycle.go`, `server.go`) | rows of `mcp_servers`: status, failure count | register, validate, publish, enable, disable, archive, deregister | no lock and no transaction: every handler reads a row, works on the copy and writes all columns back | a stop is not undone, a deleted server stays deleted, a server serves only if somebody asked, a validation ends unless its upstream never answers |
| Tools, prompts, resources (`service/mcp/tool.go`, `prompt.go`, `resource.go`) | their tables, `enabled` flags | persist, toggle, delete, expose | table and proxy change in separate calls; foreign key but no unique index | proxy and table agree when nobody works on the server; one row per tool; no orphan |
| MCP proxy (`service/mcp/proxy.go`, `mcp.go`) | tools exposed, in memory; rebuilt at start | add, delete, rebuild, call | crash between table and proxy | the gateway can always start |
| Health check (`service/mcp/health_check.go`) | `health_fail_count`, status | one check per server every 60 s | a check holds a row for up to 10 s while handlers change it | a dead server leaves service, a live one does not stay unhealthy, a late verdict puts nothing online |
| Stateful sessions (`service/mcp/session_manager.go`, `session_result.go`) | one client per server name, last use | get or create, invalidate, close, idle cleanup, shutdown | a mutex held across a connect, which over SSE nothing bounds; sessions are known by server name only | no closed session handed out, no connection leaked, nothing but a silent upstream blocks a call or the cleanup |
| Upstream OAuth (`service/mcp/upstream_oauth.go`) | pending sessions, tokens | begin, complete, forced re-registration | completion of a forced registration deletes what it has just saved | a completed authorisation leaves a server and its token |
| Tool collections (`service/toolcollection`) | rows, two maps of in-memory servers | create, update, delete; callbacks on tool deletion and addition | callbacks race with creation | a collection exposes no deleted or disabled tool |
| Permission groups (`service/permission`, `web/pages/PermissionGroupsPage.tsx`) | groups, memberships, grants, soft-deleted; the page's list, forms and drawer | create, edit, disable, add, remove, effective services | soft-deleted rows in joins and under a unique index; a drawer that opens when an answer comes | a disabled group grants nothing for good; list and drawer show what the tables hold |
| Dashboard sessions (`service/usersession`, `internal/api/dashboard_auth.go`, `middleware.go`, `web/App.tsx`, `RouteGuard`, `DashboardLayout`, `LoginPage`, `api/client.ts`) | session rows; cookie; the user in sessionStorage; where the tab is | bootstrap, guard, login, logout, expiry, disabling, the 401 interceptor | two sources of who is logged in, answers that come late, a reload that asks again | no reload loop, a logout holds, the user shown is the user the server sees, no blank screen |
| Device tokens (`service/devicetoken`, `web/pages/DeviceTokensPage.tsx`) | rows, grants; the secret on the page | create in three steps, revoke, delete; show once | a creation that is overtaken by a revoke; a secret that is shown once, in a dialog that a spinner or an error replaces | a revoked token stays revoked; no working token nobody knows of |
| List pages (`web/pages/*`, `ServerForm`, `ToolCollectionForm`, `service/dashboard`) | the last answer, flags of what is awaited | load, toggle, delete, create, edit | a client that gives up before the server has acted | the table is what the server said, or an error was shown; nothing waits for ever |
| Users (`service/user`, `internal/api/users.go`) | rows | create, delete, disable | a disable is three separate writes | see sessions and statistics |
| Call events and statistics (`service/callevent`, `recordUserCall`, `web/pages/StatsPage.tsx`, `MyStatsPage.tsx`) | event rows, counters | record, list, aggregate | check-then-create of a counter; a join with deleted users | no call counted twice, few lost; no call shown that was not made |
| Server configuration (`service/config`) | one row | init | check-then-create | one configuration |
| Audit events, telemetry, encryption, CLI | none the program decides on | | | not modelled |

How they interact. The HTTP handlers (`internal/api`) call the lifecycle; the
lifecycle writes the tables, the proxy and, through callbacks, the tool
collections; the health check writes the same rows from its own goroutine; a
call through the proxy reads the server's row, asks the access rules and then
the sessions; deregistering and archiving close the session; start-up rebuilds
proxy and collections from the tables. The dashboard is one document per tab:
its pages call the dashboard API with the session cookie and keep what they are
told in React state; sessionStorage alone survives a reload. Every request has
a timeout of 60 s, after which the browser forgets it and the gateway may still
carry it out.

## 2. Modules

| Module | Models |
|---|---|
| `ServingContract` | the abstract promise: a server goes online only while a request asks for it |
| `ServerLifecycle` | servers, tools, proxy, handlers, health check, restart |
| `ServerLifecycle_proofs` | theorems about it |
| `StatefulSessions` | upstream connections and the calls on them |
| `StatefulSessions_proofs` | theorems about it |
| `ToolCollections`, `ToolCollections_proofs` | collections, their in-memory servers, the callbacks of the tools; theorems |
| `DashboardSession`, `DashboardSession_proofs` | one tab: bootstrap, guard, login, menu, logout, interceptor, and the web sessions of the gateway; theorems |
| `DashboardPages`, `DashboardPages_proofs` | the list pages as one machine, over the rows they show; theorems |
| `PermissionGroups`, `PermissionGroups_proofs` | groups, their page, other clients; theorems |
| `DeviceTokens`, `DeviceTokens_proofs` | tokens, the page that makes them, other clients; theorems |
| `CallStats`, `CallStats_proofs` | the counters, the calls that write them, the two pages that add them up; theorems |
| `MC...` | instances and symmetry sets for TLC; `StatefulSessions` needs none |

### ServerLifecycle

`row` and `tools` are the tables, `proxy` the exposed (server, tool) pairs,
`job[w]` the request a handler goroutine executes: which call it makes next
(`pc`), the row copy it read, the rows it has still to write. `check[s]` is the
row copy of a health check in flight. `halted`, `gone` and `lost` are history:
which servers were stopped or deleted, with success, and not asked for since,
and of which the verdict of a validation could not be saved or died with the
process. `Awaits` says when a handler waits for an upstream: while it connects
and lists the tools, and, when the tools are in the table, for the prompts and
resources, which have no state of their own here.

One action is one database call or one group of proxy calls between two
database calls, so handlers interleave exactly where the code lets them.
`SaveRow` is gorm's `Save`: an UPDATE by primary key of all columns and, when it
matches nothing, an INSERT, which is how a handler's stale copy can bring a
deleted row back. The foreign key of `tools.server_id` guards both the delete of
a server and the insert of a tool. `Fail` is a database error before any call;
the handler returns and what it has written stays. `Restart` drops handlers,
checks and proxy and rebuilds the proxy as `initMCPProxyServer` does.

Left out, because no property depends on it: server configuration and
credentials, the split of the proxy and its tables into HTTP and SSE halves (one
`proxy`), prompts and resources (their code repeats that of the tools, which
stand for all three), the cached tool instances (they follow the proxy), and
the names of the errors. A lookup by name followed by one by id counts as one
read. Rounds of the health check do not overlap on a server: a check ends
within 10 s and rounds are 60 s apart. The failure count saturates at the
threshold, beyond which the code never looks. `DisableServer`,
`UpdateServerConfig` and `registerServerTools` have no caller and are not
modelled. Archiving and deregistering also close the server's session, under
the mutex of the sessions; that is a step of StatefulSessions. A forced
registration is a deregister followed by a register.

### StatefulSessions

`sessions` is the manager's map and `mu` its mutex when it is held across a
connect; every other method of the manager is one atomic step. A call reads the
server's row (`Begin`), gets a session (`Get`, then `Connected` or `Refused`
when there is none), calls the tool, and returns, or, when the error looks like
one of the connection, invalidates the session by the server's name. A call to
a stateless server connects for itself and closes what it opened. `conn`
records every connection ever opened, with the server it was opened for. A
connection exists once the code that opens it has returned it. `Untimed` are the
servers with transport SSE, whose connect no timeout bounds; `Awaits` says when a
call waits for an upstream that owes it no answer: during such a connect and
during the call of the tool.

Time is `Age`: the idle timeout passes since a session was last handed out,
also while the call it was handed to is still running. That an upstream drops a
connection is not a state of its own: it shows only in `Break`, which any
stateful call may take, for the caller's own cancellation counts as a connection
error too (`session_result.go:26`). Closing the session is the last step of a
deregister or archive and may never come, when a delete before it fails.

### ToolCollections

`group` is the table, `object` the service's maps from names to in-memory
servers, `content` the tools each of them offers, `sse` the API layer's cache
of SSE servers, which keeps an in-memory server alive after its collection is
gone. `servers`, `rows` and `instances` are what the collections see of the
tools: the server rows, the tool rows with their `enabled` flags, and
`MCPService.toolInstances`. `job[w]` is a handler. `failed` is history: a
database call has failed since the last start.

`Create` fills a new in-memory server tool by tool, inserts the row and joins
the map last; `Update` changes the in-memory server and then the row; `Delete`
leaves the map and then deletes the row. `Collect` and `Spread` are the
addition callback before and under its locks, `Forget` the deletion callback.
`Overwrite` is gorm's `Updates` with a struct, which writes no empty field.
`Restart` rebuilds one in-memory server for each row.

Left out: descriptions and names' syntax, the HTTP and SSE halves of a
collection (one object), servers that are not published (a registration counts
from its publication, so the race of a switch with the registration's earlier
steps is that of ServerLifecycle), and the switching of a whole server, which
is a sequence of the switches of its tools.

### DashboardSession

`owner` and `live` are the session table, `disabled` the accounts; `cookie`,
`cached` (sessionStorage), `path`, `app`, `guard`, `busy`, `menuMode` and
`leaving` the browser. A request in `reqs` carries the cookie of the moment it
was sent; `Serve` answers it later, `Settle` is the handler after its `await`,
and `Lose` the client that gives up, before or after it was served. `Expel` is
the interceptor, which runs before any handler sees the error. `Document` is a
new document: React's state is lost, the unanswered requests are dropped, a
logout already sent is still served. `bounces` counts the interceptor's reloads
since the user last acted, `signedOut` that a logout was confirmed, `patient`
says that the user waits for guard, login and logout before going elsewhere.
A page that loads tokens (`NeedsUser`) is refused in development mode, where the
middleware lets all requests in and looks up no user (`NoUser`). An address
that is typed opens the overview, whose load is the layout's; another page is
opened from the menu, with a load of its own.
The run has an administrator and a member; the menus of the other two roles are
defined from the code and entered by nobody in this instance.

### DashboardPages

Overview, servers, tools, tool collections, prompts, resources, diagnostics and
users are one machine with a `page` fixed at the start: a load, controls that
send a mutation, a reload after success, a toast after failure. `View` and
`Offers` say what each shows and which controls its rows have: the switch of a
server always asks to enable, because the list's `enabled` is never filled in;
the switches of tools are disabled, because `server_enabled` is not sent; the
users' edit calls a route the gateway does not have. A form that waits holds its
button; the form of a new user has one input, whose Enter submits it again all
the same. `told` and `others` are
history for a patient user: rows about which an error was shown, and rows
somebody else has changed. `GiveUp` covers refusals, lost answers and timeouts;
after a timeout the request may still be served (`heard = FALSE`). What the
detail rows, figures and badges say is left out, as is the dialog with a new
user's access token, which covers the page until it is dismissed.

### PermissionGroups

`status` and `link` are the tables; a link, member or service, is `none`, `live`
or (soft-)`deleted`, and cannot be added again once deleted, because
`FirstOrCreate` does not see it and the unique index does.
`ServicesThrough` is the join of `UserEffectiveServices`. The page has a list,
two forms with one `submitting`, a Popconfirm and a drawer; an answer may come
when the drawer is closed or about another group. The edit form, with one input,
can be submitted again while it waits. Where the administrator does
not wait, fewer acts are allowed (`MaxHaste`).

### DeviceTokens

`Insert`, `Save` and `Grant` are the three database calls of `Create`; a handler
may stop between them. The rows of a list come with Go's field names (`ID`,
`Status`), for the model has no JSON tags, while the page reads `id` and
`status`: of an answer the page only knows whether there are rows (`Table`), a
row never offers to be revoked, and its removal names no id and is refused.
Tokens are revoked and deleted by other clients (`Foreign`).

`createdToken` is the token whose secret the page holds, `View` what the page
draws: after a creation the dialog and the spinner of the reload are drawn
together, so on an empty table there is the spinner alone, and after a reload
that fails an error alone. `seen` collects what `Displayed` has shown, `told` the
tokens in whose place an error was shown. MyServicesPage keeps no token and no
server, for want of the same names, and is not modelled.

### CallStats

`stat` is the table, keyed by account, server and day; `calls` the goroutines
inside `recordUserCall`, which asks for the row (`First`) and then creates it or
lets the database add one. `made`, `begun`, `failed` and `bore` are history: calls
of a key, all of them, calls an error of the database lost, names an account has
had. The pages hold the
rows of one answer; `shift` is the day by which a change of the clocks moves the
first day of a range.

## 3. Runs

| Run | Instance | Checks | Shows |
|---|---|---|---|
| `serial` | 1 server, 2 tools, 1 handler, all requests, failures and crashes, threshold 2 | TypeOK, StopSticks, GoneStays, NoGhostTools, UniqueTools, KeepsContract | what holds as long as administrators take turns, with health checks, failing calls and crashes at any moment; refinement of `ServingContract`, proved for any number of handlers |
| `races` | 1 server, 1 tool, 2 handlers, register, validate, deregister, failures and crashes, fairness | ToolsOwned, ValidatingHeld, ValidationEnds | no orphaned tool row; a server stays in validation only if its verdict was lost or its upstream keeps a handler waiting |
| `health` | 1 server, 1 handler, threshold 3, failures | DeadServerLeaves, LiveServerRecovers | liveness of the health check |
| `sessions` | 3 servers (two stateful, one of them SSE, and a stateless one), 2 calls, 2 connections, 2 registrations, fairness | TypeOK, SessionsAlive, ConnectionsOwned, CallsEnd, IdleSessionsClose | no closed session is handed out, no connection leaks, and a call or the cleanup is blocked for ever by a silent upstream only |
| `collections` | 1 server with 2 tools, 2 collections, 1 handler, all requests, failures and crashes | TypeOK, HidesDisabled, EndpointsStored, CollectionsExact | what an endpoint offers follows the tools and its row, and every start repairs what a failure left |
| `session` | 2 users (administrator, member), 2 sessions, 4 acts, both modes, fairness | TypeOK, OneBounce, ActorShown, LogoutHolds, AdminsServed, TabSettles | the tab neither loops nor goes blank, and shows who is logged in |
| `pages` | 8 pages, 2 rows, 2 requests, 3 acts, fairness | TypeOK, ShownOrTold, Settles | tables do not lie without a word; nothing waits for ever |
| `groups` | 2 groups, 1 user, 1 server, 3 acts (2 when impatient), an act only with fewer than 2 requests in flight, fairness | TypeOK, ShownOrTold, DisabledForGood, Settles | the same of list and drawer, and that a disabled group stays so |
| `tokens` | 3 tokens, 1 server, 4 acts | TypeOK, SecretSeenOrTold, RevokedForGood | no token is lost from sight without a word, none revived |
| `stats` | 2 accounts, 2 names, 3 days, 2 calls at a time, 3 calls, ranges of 1 and 3 days | TypeOK, CountsCalls, ShownMade | what is lost, and that nothing is invented |
| `removal` | 1 group, 1 user, 1 server | refutes RemovalRevokes | `service/permission/service.go:133` |
| `returns` | 2 servers with a tool each, 2 collections that include one or both, 1 handler, neither updates nor failures nor crashes | refutes ReenabledReturns | `service/toolcollection/toolcollection.go:448` |

`StopSticks`, `GoneStays`, `NoGhostTools` and `UniqueTools` hold as long as the
requests for one server come one at a time (`serial` has one handler; section 5
proves them for any number of handlers on different servers). With two handlers
on one server they fail, as section 4 describes. Likewise `HidesDisabled`: a tool
disabled while a collection is being created (`Insert`, `Disable`, `Hide`,
`Forget`, then `Attach`), or while the addition callback waits for its locks,
stays in it. `EndpointsStored` fails when a collection is deleted while it is
being created (`Insert`, `Detach`, `Erase`, then `Attach` leaves an endpoint
without a row). `collections` has one handler; section 5 proves both for any
number of handlers without these two overlaps. `CollectionsExact` holds with one
server, where no collection can name a deregistered server while a tool comes
back; with two its upper half, `OffersSelected`, is proved (section 5), and its lower
half, `ReenabledReturns`, fails (`returns`). Of `LogoutHolds` the part about the screen,
and `ShownOrTold`, `ActorShown`, `AdminsServed` and `SecretSeenOrTold` speak of
a user who waits for answers; the runs also explore one who does not, for the
other properties.

Bounds. One server is enough in the lifecycle: rows of different servers never
touch each other but through the proxy, whose entries carry the server. Two
handlers are enough for every race of a stale copy against a write; a second
tool tells "some" from "all" of a server's tools, and a second row id lets a
name be registered again. `MaxId` and `MaxKey` bound AUTO_INCREMENT. `races` has
one row id: what is about a name that is registered again is `serial`'s, whose
handlers take turns. In the
collections the two configurations exclude a tool each, so an update adds one and
removes the other and empties no field; `MaxObj = 3` is one in-memory server per
collection and one more, being filled or kept alive by the SSE cache. In the
sessions two calls meet on one mutex and one session, and a stateful and a
stateless server tell the two ownership rules apart; a second stateful server is
the one whose calls a silent SSE server must be excused for; two registrations
are any two of the servers, or one name used again; once two connections were opened, a connect can
only be refused. (Liveness rules out symmetry and with it a third connection; the
safety of any number is proved.) In the dashboard a failure needs one act to
set it up, one to race with it and at most one more to go back; four acts reach
login, use, logout and another login in one tab, or two creations of tokens with
a visit before and a revoke after them, and two sessions let a cookie and a cached
user differ. Two rows tell the row that was acted on from another;
two requests in flight are an answer and the one that overtakes it. The gap
between two ranges is two days, as large as twice the shift of the clocks, which
may differ for each. What is proved (below) holds for every
value of these constants.

Deadlock is checked in the lifecycle and in the collections. It is not in the
sessions, where the process may shut down, nor in the dashboard, where a user may
have nothing left to do within the bound on acts.

Fairness. A handler goroutine runs on, but where it waits for an upstream it is
owed nothing, nor, when it archives, for the mutex of the sessions (weak fairness
of the other steps): listing tools, prompts
and resources has no timeout, nor has the connect over SSE, and the context they
are given is never done, being gin's, or ends when a client of the proxy gives
up, which it need not. The ticker of the health check never
stops, and a check has a timeout of 10 s. Administrators, time and crashes owe
nothing. Calls and the cleanup wait for a Go mutex, which in its starvation mode
passes to the longest waiter: strong fairness, again not of the steps that an
upstream owes. A connect that is not SSE ends by the initialisation timeout.
`ValidationEnds`, `CallsEnd` and `IdleSessionsClose` name the upstream that keeps
a handler, a call or the holder of the mutex for ever as the one excuse. In the
dashboard the client's timeout of 60 s (`web/api/client.ts:8`) makes every request
settle, one way or the other, and a navigation once begun takes place; users and
the gateway owe nothing.

## 4. Findings

`removal` shows that a service removed from a group, or a member removed from
it, keeps its access, because the join of `UserEffectiveServices` does not look
at `deleted_at`, against the comment on `RemoveService`; it is described under
`findings` in `PROJECT.json`.

`returns` shows that a tool enabled or registered again comes back to no
collection while one collection includes a deregistered server:
`handleToolAddition` gives up at the first collection it cannot resolve, against
`README.md:774` and `docs/guides/tool-groups.mdx:36`. The attempt to prove
`CollectionsExact` for several servers stopped at exactly that step.

Confirmed by TLC on earlier versions of these modules, whose runs gave way to
those above: publishing a recovered server again exposes a tool an administrator
had disabled (`lifecycle.go:43`, against `internal/model/mcp_tool.go:19`); a
publish that read its row before a disable puts the server online after the
disable returned success (`lifecycle.go:382`, against line 303 of
`docs/superpowers/specs/2026-07-20-internal-mcp-hub-design.md`); a call that read
its server's row before a deregister leaves a session after it, which the next
registration of the name inherits (`session_manager.go:97`, against
`server.go:137`); the SSE server of a deleted collection stays in
the cache and serves on (`tool_collections.go:326`, against `cmd/delete.go:32`).

Observed while modelling, with no run of its own: a verdict of the health check
that was under way during a disable overwrites the status `disabled`
(`health_check.go:107`); a handler's `Save` writes an old `health_fail_count`
back (`server.go:287`) and re-creates a row deleted meanwhile
(`lifecycle.go:340`); a publish exposes tools loaded before a deregister
(`lifecycle.go:47`); two validations of one draft persist its tools twice
(`lifecycle.go:330`); a restart forgets the tools of a recovered server that
waits to be published (`proxy.go:453`, against `health_check.go:104`); archiving a recovered server that
waits to be published leaves its tools in the proxy (`lifecycle.go:440`); a crash
during a validation, or a verdict that cannot be saved (`lifecycle.go:352`),
leaves the status `validating`, from which no request validates again
(`lifecycle.go:330`), and so does an upstream that accepts the connection and
then lists nothing (`lifecycle.go:182`, without a timeout); an error on a session closes whatever
session the server has by then (`session_manager.go:138`); updating a collection
with a list left empty keeps the old list in its row, because gorm's `Updates`
skips zero fields and the client omits empty lists, while the endpoint follows
the request until the next start (`toolcollection.go:227`); a collection that names
a deregistered server can no longer be updated (`toolcollection.go:149`); the SSE connect has
no timeout (`util.go:521`, `:526`) and runs under the mutex of all sessions
(`session_manager.go:88`), and the context it is given is never done
(`internal/api/mcp_tools.go:61` passes gin's) or ends when a client of the proxy
gives up, so that one SSE server that does not answer stops every stateful call,
the cleanup and the shutdown; a call of a tool has no timeout either
(`tool.go:150`), but holds no mutex; a
connection whose initialisation fails is not closed by who opened it
(`util.go:424`); at shutdown sessions are closed before the HTTP server stops
(`cmd/start.go:584`).

In the dashboard. Session: a guard's answer that comes after the user has gone
writes the cache all the same, so that a user who navigates, logs out and goes on
without waiting may see the frame of the dashboard again after a confirmed
logout, though no request he sends is let in (a proof of `LogoutHolds` failed
here; it takes six acts, and the bound of four had hidden it); a late 401 of the overview throws out a tab that
has logged in meanwhile; in development mode a logout leaves the user at a login
form there may be no account for; menus offer members pages whose API refuses
them; in development mode the handlers that need a user answer 401, which throws
out a tab that opens `/device-tokens` or `/my-services`, as the menu offers while
the overview has not answered, also for a user who waits (`device_tokens.go:17`,
`client.ts:17`). Pages: list answers out of order leave an old table in front of an
impatient user; one `toggling` name releases another row's switch; a late create
closes a form that was opened again; Enter submits the form of a new user again
while it waits (`UsersPage.tsx:153`), and of two users made so the dialog shows
the last token only; the edit form of a group likewise
(`PermissionGroupsPage.tsx:346`); when the page changes from its empty state
to the table the form is mounted anew and can be sent twice; after a failed load
the Alert stays until the page is left, but for users, tokens and statistics; the
toggle of ToolsPage cannot be reached; users are edited by a route that is not
there; JSON that is no object passes the check of the server form. Groups: a
late `openDetail` opens the drawer again; the picked user stays for the next
group; a removed member or service can never be added again;
`handleAddService` cannot be reached, since no server comes with an id. Tokens:
the `Save` of a creation revives a token revoked or deleted since its insert; a
reload that fails after a creation puts an Alert in the place of the secret, and
on an empty table, where the spinner covers the dialog until then, the secret of
a working token is never seen (`DeviceTokensPage.tsx:51`); as ids and statuses
come under names the page does not read, no row offers to be revoked, a removal
asks for the token `undefined`, every secret is stored under that name, and
MyServicesPage finds neither tokens nor servers;
a restricted token whose grants cannot be read is
given all services (`internal/api/middleware.go`). Statistics: calls that race
for the first row of a day are lost but one; deleted users appear together under
an empty name while their tokens go on calling; "7d" covers eight dates; a call
is counted before its outcome is known.

## 5. Proofs

What a theorem states holds for every value of the constants, whatever the
interleaving; hypotheses beyond the named ASSUMEs of the modules stand in the
theorem. Each proof has one step per action, and lemmas where several actions
share an operator.

`ServerLifecycle_proofs`, for any number of handlers:
* `TypeCorrect`: `Spec => []TypeOK`. TypeOK is inductive; one lemma per
  variable-writing operator.
* `FlowCorrect`: which requests a handler at each `pc` can be executing. It is
  not in the type and is what the next theorem needs: only a job that serves
  ever reaches a step that writes `online`.
* `ContractCorrect`: `Spec => KeepsContract`. Initial states map to initial
  states; an arrival is an `Ask` or a stutter, a step that writes `online` is a
  `Release`, every other step, verdict, failure and restart only shrinks both
  sets, a `Wane`.
* `ToolsAlwaysOwned`: `Spec => []ToolsOwned`. A tool row without its server
  would stop the gateway from starting. The strengthening `KeysOK` says that
  every id held in a row, a job's copy, a check's copy or a tool row was drawn
  from AUTO_INCREMENT; with the foreign key, no save or delete can then orphan
  a tool, however stale the copy it comes from.

* `VerdictsOwed`: `Spec => []ValidatingHeld`, inductive beside the type: a server
  becomes `validating` only by the `Mark` of a handler, which from then on owes
  the verdict (`Owed`); what another handler owes a step leaves alone
  (`OwedStays`), a handler that saves leaves another status behind
  (`SavesOther`), and one that ends without saving, by a failing call or with the
  process, makes the verdict lost. Stale copies do no harm here: two handlers may
  overwrite each other's rows, but none writes `validating` but in `Mark`.

`StopsStick`, `GoneServersStay`, `GhostsStayAway` and `ToolsAreUnique` are
`Spec /\ []Apart => []...`: any number of handlers run, together with checks,
calls, failures and restarts, but no two of them on the same server (`Apart`; no
lock of the code provides it, so it is a hypothesis, and `OneHandlerIsApart`
derives it from `Worker = {w}`). All four come from one invariant, `Serial`. Its
heart is `Held`: the copy a handler works on is of the row that is there. That
is the conjunct a second handler on the server breaks, and with it all four.
Around it: `Tables` (no two servers share an id, a server that may be validated
has no tool rows, a key names one tool), `JobsOK` (at each `pc`, what the tables
hold of the handler's server, and whether its request asks for service), and
`Exposing` (the proxy exposes a server's rows only, unless its handler is about
to hide the rest). `GoneStays` and `StopSticks` are themselves inductive beside
these. A step of a handler leaves every other server as it is (`Elsewhere`),
and a lemma (`OthersStay`) says that the other handlers keep what they know.

`StatefulSessions_proofs`: `SessionsTyped`, `SessionsStayAlive` and
`NoConnectionLeaks` from one inductive invariant `IInv`, which adds to the three
properties: the caller that connects for a stateful server, and nobody else,
holds the mutex, and the map has no session of that server meanwhile (`Locked`:
without it a second connect could overwrite the first); the map has sessions of
stateful servers only (`OnlyStateful`: so a stateless call never closes a
session of the map); and a call that runs has a connection, a stateless one its
own (`CallsConnected`).

`ToolCollections_proofs`. `CollectionsTyped` is for all schedules; its invariant
`Typed` adds to the type what a handler at each `pc` has in hand. The others are
for any number of handlers too, under what the failing schedules of section 3
break. `ToolsAlone`: while a handler changes the tools no other is under way,
though requests for collections may overlap freely. `OneEach`: no two handlers
work on one collection. `Orderly` is both. No lock of the code provides them, so
they are hypotheses; `OneHandlerIsOrderly` derives them from `Worker = {w}`.
* `DisabledStayHidden` (`HidesDisabled`), under `ToolsAlone`, from `RowsOK` and
  `Offers`: what the proxy has is switched on, or is about to be hidden by the
  handler, and so is what a collection or a half-filled in-memory server holds.
* `EndpointsAndRows` (`EndpointsStored`), under `OneEach`, from `Ends`: only a
  handler that is between map and table of a collection may have left one without
  the other.
* `OffersStaySelected` (`OffersSelected`), under `Orderly`, from these and two
  more: no two endpoints share an in-memory server, nor do two handlers fill one
  or has one joined the map while it is being filled (`Own`), and, until a call
  fails, contents and work in hand stay inside the stored selection (`Inside`).
  The hypothesis `\A c, d \in Config : Overwrite(c, d) = d` says that updates
  empty no list; one that does leaves its old list in the row (section 4).
* `CollectionsFollow` (`CollectionsExact`), which adds that nothing is missing
  (`Full`), and the hypothesis `Server = {s}`: with one server no collection can
  name a deregistered one when a tool comes back, and with two `returns` refutes
  it.

Each of these invariants is first shown for the handler that takes the step
(`RowsOf(w)`, `OffersOf(w)`, `OwnOf(w)`, `InsideOf(w)`, `FullOf(w)`), in terms of
what this handler alone has in hand, and then lifted to all of them: a change of
the tools has no others to consider (`Quiet`), and what another handler has in
hand for its own collection, a step on a different one leaves as it is
(`Undisturbed`).

`DashboardSession_proofs`: `SessionTyped`, `BouncesOnce`, `ActorsShown`,
`LogoutsHold` and `AdminsGetServed` from one invariant. `Answers`: what an answer
under way says is still so on the server, since sessions never change hands.
`Places`: a request is awaited only where it was sent, and with the cookie of
the moment, which for guard, login, logout and pages rests on the user's
patience. `OneAwaited`: never two boots, nor, if he is patient, two guards, logins
or logouts. From these `ActorKnown` (the cached user is the cookie's owner),
`LoggedOut` (after a confirmed logout there is neither) and `Bounced` (where the
tab is after the interceptor's reload, so that it has nothing more to be refused;
in development mode as in the other).

`DashboardPages_proofs`: `SheetsTyped` from `Sheet`, the type and the shape of each
kind of request. `ReadIsServed` adds `Honest`, for a patient user: one
request is awaited at a time (`Alone`), an error was shown about the row of
whatever else is under way (`AbandonedTold`), an answer that is awaited says what
the gateway serves now (`AnswersRight`), and a row that differs on the screen has
a reload due, unless it is one of those the property excepts (`TableOK`). That a
new request finds a free number is a lemma on finite sets (`RoomForId`).

`PermissionGroups_proofs`: `DisabledStays` needs one invariant, that every group's
row has a status of the table (`StatusTyped`); the point to argue is
`UpdateGroup`, which writes two columns. `GroupsTyped` is for all variables.
`ShownIsStored` has the shape of `ReadIsServed` over the groups no error was
shown about and nobody else has changed (`Silent`), with a list and a drawer that
fall due separately (`ListOK`, `DrawerOK`), and `UndrawnApart`: a disable that
will not refresh the drawer is not of the group the drawer shows.

`DeviceTokens_proofs`: `TokensTyped`, `SecretsSeenOrTold` and `RevokedStays` from
one inductive invariant `IInv`. To the properties it adds: a creation past its
insert names the row it was given, and a served load carries a table
(`Informed`); the page shows that it loads only while the answer may come
(`LoadAwaited`), so that a secret behind the spinner is still to be seen or told
of; what is on the screen was seen (`DisplayedSeen`); a patient administrator
awaits one answer at a time (`OneAwaited`), without which one secret could take
the place of another before it was drawn; and he has been told of each creation
that went on after it was no longer awaited (`AbandonedTold`).

`CallStats_proofs`: `StatsTyped`, `CallsAreCounted` and `SumsAreMade`. `CountsCalls` bounds the
loss; the inductive form is `Counted`: while a counter has no row nothing of it
is lost, and once it has one, what was lost and the calls that may still lose a
race together are fewer than `MaxCallers`. The call that makes the row turns its
rivals from pending into racing ones, which is a fact about the cardinalities of
finite sets. `RowsAreMade`: each row that a page holds, or an answer carries,
counts calls that were made, under a name its account has borne. `SumsAreMade`
(`ShownMade`) adds up what `RowsAreMade` says of each row. The sums are folds,
and a fold over a finite set is a function chosen by its recursion; that such a
function exists, adds element by element, and is monotone is shown by the
smallest counterexample: the proper subsets of a finite set are well founded, and
a minimal set without the property has an element whose removal gives it.

Assumptions: the named ASSUMEs of the eight modules, on the kinds of constants,
on bounds being numbers and on `None` being none of the values, and the
hypotheses above; the accounts and servers that calls are counted for are
finitely many. The passing instances of section 3 satisfy all of them but, in
`races`, that no two handlers work on one server; `collections` satisfies
`Orderly` because it has one handler.

Only model-checked: liveness, which needs fairness and ENABLED
(`ValidationEnds`, `DeadServerLeaves`, `LiveServerRecovers`, `CallsEnd`,
`IdleSessionsClose`, `TabSettles`, `Settles`). Every other property of a passing
run is a theorem.

## 6. Plan

1. Done: `ServingContract` and the eight models, each with its proofs: every
   safety property a passing run checks is a theorem.
2. `AccessPolicy` (abstract: who may call what) and `Access`: the check made for
   every proxy call over tokens, groups and users, composed from `DeviceTokens`
   and `PermissionGroups`; expiry of tokens.
3. `UpstreamOAuth`: pending sessions, completion, forced completion, expiry;
   property: after a completion the server has its token.
4. `ServerConfig`: init; the daily aggregation once the program calls it.

## 7. Not modelled

Payload formats, encryption, configuration files, the database's own
migrations, telemetry, the audit log (written, never read by the program) and the
command line client. Of the dashboard: AuditPage is a placeholder without an
API; ClientsPage has no route and calls endpoints that do not exist; CopyButton,
JsonViewer, the tags and badges only render; React's StrictMode, which mounts
twice in development builds, is left out. Components planned but not yet
modelled are marked so in `PROJECT.json`.
