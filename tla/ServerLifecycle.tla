--------------------------- MODULE ServerLifecycle ---------------------------
(***************************************************************************)
(* The lifecycle of the registered MCP servers, as internal/service/mcp    *)
(* runs it: rows of the tables mcp_servers and tools, the tools exposed in *)
(* the gateway's in-memory MCP proxy, the HTTP handlers that change them,  *)
(* and the periodic health check.                                          *)
(*                                                                         *)
(* Nothing locks a server: a handler reads its row, works on the copy, and *)
(* gorm's Save writes every column of the copy back.  Each database call   *)
(* is atomic, so a handler is a sequence of steps, one per call, and the   *)
(* steps of different handlers and of the health check interleave.         *)
(***************************************************************************)
EXTENDS Naturals, FiniteSets

CONSTANTS
    Server,     \* names of MCP servers (unique index on mcp_servers.name)
    Tool,       \* tools the upstream servers offer
    Worker,     \* HTTP handler goroutines: how many requests overlap
    Request,    \* kinds of request the administrators send
    Threshold,  \* HealthCheckConfig.MaxConsecutiveFailures
    Faults,     \* whether a database call may fail
    Crashes,    \* whether the process may stop and restart
    MaxId,      \* bound on the server rows ever created
    MaxKey,     \* bound on the tool rows ever created
    None        \* no row, no job, no check

AllRequest == {"register", "validate", "publish", "enable", "disable",
               "enableTool", "disableTool", "archive", "deregister"}

ASSUME ThresholdAssumption == Threshold \in Nat \ {0}
ASSUME RequestAssumption == Request \subseteq AllRequest
ASSUME SwitchAssumption == Faults \in BOOLEAN /\ Crashes \in BOOLEAN
ASSUME BoundAssumption == MaxId \in Nat /\ MaxKey \in Nat
VARIABLES
    row,        \* mcp_servers: the live row of each name, or None
    tools,      \* the tools table
    proxy,      \* <<server, tool>> pairs the in-memory proxy exposes
    job,        \* the request each worker is executing, or None
    check,      \* the row copy a health-check goroutine holds, or None
    up,         \* whether each upstream answers an MCP Initialize
    nextId,     \* AUTO_INCREMENT of mcp_servers
    nextKey,    \* AUTO_INCREMENT of tools
    halted,     \* history: a disable or archive returned success, and no
                \*   request to serve the server has begun since
    gone,       \* history: a deregister returned, and no register began since
    lost        \* history: the verdict on the server could not be saved, or
                \*   died with the process, and no validation began since

stores  == <<row, tools, proxy>>
counters == <<nextId, nextKey>>
history == <<halted, gone, lost>>
vars == <<row, tools, proxy, job, check, up, nextId, nextKey,
          halted, gone, lost>>

Status == {"draft", "validating", "validation_failed", "pending_publish",
           "online", "unhealthy", "disabled", "archived"}

\* Statuses whose capabilities belong in the proxy.
Active == {"online", "unhealthy"}

\* Where a handler is: the name of the database call or proxy call it makes next.
Pc == {"readDraft", "mark", "connect", "persist", "accept", "reject", "clean",
       "readPending", "release", "load", "expose",
       "switch", "readTools", "saveTool", "showTool",
       "list", "drop", "hide", "bury", "erase"}

Row == [id : Nat, status : Status, fails : 0..Threshold]
ToolRow == [key : Nat, sid : Nat, tool : Tool, enabled : BOOLEAN]

\* snap is the row copy the handler holds, names and rows its local lists.
Job == [req : AllRequest, pc : Pc, srv : Server, snap : Row,
        names : SUBSET Tool, rows : SUBSET ToolRow]

ASSUME NoneAssumption == None \notin Row /\ None \notin Job

------------------------------------------------------------------------------
(* The database.                                                           *)

HasRow(s, id) == row[s] # None /\ row[s].id = id

RowsOf(id) == {r \in tools : r.sid = id}

\* The tools a server row has at least one row for.
ToolsOf(id) == {r.tool : r \in RowsOf(id)}

\* db.Save(server): UPDATE by primary key; when it touches no row, gorm falls
\* back on INSERT ... ON DUPLICATE KEY UPDATE, which re-creates a deleted row
\* or, when the name was registered again, overwrites the new row but its id.
SaveRow(s, r) ==
    [row EXCEPT ![s] = IF row[s] = None THEN r ELSE [r EXCEPT !.id = row[s].id]]

\* (mutant) A schema without the foreign key.
MayDeleteUnchecked(id) == TRUE

\* Unscoped().Delete(server) is refused while tools reference the row (the
\* foreign key of model.Tool.Server).
MayDelete(id) == RowsOf(id) = {}

\* db.Create(tool), refused by the same foreign key when the server is gone.
CreateTool(s, id, t) ==
    IF HasRow(s, id)
    THEN tools \cup {[key |-> nextKey, sid |-> id, tool |-> t, enabled |-> TRUE]}
    ELSE tools

\* db.Save(tool) fails only if it would insert a tool of a deleted server.
MaySaveTool(s, r) == (\E x \in tools : x.key = r.key) \/ HasRow(s, r.sid)

\* Re-inserting a deleted tool takes the column default enabled = true.
SaveTool(r, on) ==
    IF \E x \in tools : x.key = r.key
    THEN {x \in tools : x.key # r.key} \cup {[r EXCEPT !.enabled = on]}
    ELSE tools \cup {[r EXCEPT !.enabled = TRUE]}

------------------------------------------------------------------------------
(* Handlers.                                                               *)

At(w, p) == job[w] # None /\ job[w].pc = p

Goto(w, p) == job' = [job EXCEPT ![w].pc = p]

GotoWith(w, p, s) == job' = [job EXCEPT ![w].pc = p, ![w].snap = s]

Finish(w) == job' = [job EXCEPT ![w] = None]

\* The requests that, when they end well, leave their server served.
Serving == {"register", "publish", "enable"}

NewJob(q, p, s, r, ts) ==
    [req |-> q, pc |-> p, srv |-> s, snap |-> r, names |-> ts, rows |-> {}]

\* A worker takes a request on server s and reads its row first.
Begin(w, s, q, p, ts) ==
    /\ q \in Request
    /\ job[w] = None
    /\ row[s] # None
    /\ job' = [job EXCEPT ![w] = NewJob(q, p, s, row[s], ts)]
    /\ halted' = IF q \in Serving THEN halted \ {s} ELSE halted
    /\ UNCHANGED <<stores, check, up, counters, gone, lost>>

\* Room for the tool rows of this validation and of every other one running.
KeysLeft == nextKey + Cardinality(Worker) * Cardinality(Tool) <= MaxKey + 1

------------------------------------------------------------------------------
(* Registration: CreateDraftServer, ValidateServer, PublishServer in one   *)
(* request.                                                                *)

Register(w, s) ==
    /\ "register" \in Request
    /\ job[w] = None
    /\ row[s] = None
    /\ nextId <= MaxId
    /\ KeysLeft
    /\ row' = [row EXCEPT ![s] = [id |-> nextId, status |-> "draft", fails |-> 0]]
    /\ job' = [job EXCEPT ![w] = NewJob("register", "readDraft", s, row'[s], {})]
    /\ nextId' = nextId + 1
    /\ halted' = halted \ {s}
    /\ gone' = gone \ {s}
    /\ lost' = lost \ {s}
    /\ UNCHANGED <<tools, proxy, check, up, nextKey>>

\* (mutant) A validation may be started over while one is under way.
ValidatableAgain(r) == r.status \in {"draft", "validating", "validation_failed"}

\* ValidateServer accepts only rows that are not validated yet.
Validatable(r) == r.status \in {"draft", "validation_failed"}

\* PublishServer accepts only validated rows.
Publishable(r) == r.status = "pending_publish"

Validate(w, s) ==
    /\ KeysLeft
    /\ row[s] # None /\ Validatable(row[s])
    /\ Begin(w, s, "validate", "mark", {})

\* Where a handler goes when its validation fails: registerMcpServer deletes
\* the draft, the validate endpoint returns the error.
LeaveValidation(w) ==
    IF job[w].req = "register" THEN Goto(w, "clean") ELSE Finish(w)

ReadDraft(w) ==
    /\ At(w, "readDraft")
    /\ IF /\ HasRow(job[w].srv, job[w].snap.id)
          /\ Validatable(row[job[w].srv])
       THEN GotoWith(w, "mark", row[job[w].srv])
       ELSE LeaveValidation(w)
    /\ UNCHANGED <<stores, check, up, counters, history>>

Mark(w) ==
    /\ At(w, "mark")
    /\ row' = SaveRow(job[w].srv, [job[w].snap EXCEPT !.status = "validating"])
    /\ Goto(w, "connect")
    /\ lost' = lost \ {job[w].srv}
    /\ UNCHANGED <<tools, proxy, check, up, counters, halted, gone>>

\* persistServerCapabilities connects and lists the upstream's tools.
Connect(w) ==
    /\ At(w, "connect")
    /\ IF up[job[w].srv]
       THEN job' = [job EXCEPT ![w].pc = "persist", ![w].names = Tool]
       ELSE Goto(w, "reject")
    /\ UNCHANGED <<stores, check, up, counters, history>>

Persist(w) ==
    /\ At(w, "persist")
    /\ \E t \in job[w].names :
          /\ tools' = CreateTool(job[w].srv, job[w].snap.id, t)
          /\ job' = [job EXCEPT ![w].names = @ \ {t}]
    /\ nextKey' = nextKey + 1
    /\ UNCHANGED <<row, proxy, check, up, nextId, history>>

Persisted(w) ==
    /\ At(w, "persist")
    /\ job[w].names = {}
    /\ Goto(w, "accept")
    /\ UNCHANGED <<stores, check, up, counters, history>>

Accept(w) ==
    /\ At(w, "accept")
    /\ row' = SaveRow(job[w].srv, [job[w].snap EXCEPT !.status = "pending_publish"])
    /\ IF job[w].req = "register" THEN Goto(w, "readPending") ELSE Finish(w)
    /\ UNCHANGED <<tools, proxy, check, up, counters, history>>

\* (mutant) The failure is returned but not written to the row.
RejectUnsaved(w) ==
    /\ At(w, "reject")
    /\ LeaveValidation(w)
    /\ UNCHANGED <<stores, check, up, counters, history>>

Reject(w) ==
    /\ At(w, "reject")
    /\ row' = SaveRow(job[w].srv, [job[w].snap EXCEPT !.status = "validation_failed"])
    /\ LeaveValidation(w)
    /\ UNCHANGED <<tools, proxy, check, up, counters, history>>

\* registerMcpServer deletes the draft it created; the error is ignored.
Clean(w) ==
    /\ At(w, "clean")
    /\ row' = IF HasRow(job[w].srv, job[w].snap.id) /\ MayDelete(job[w].snap.id)
              THEN [row EXCEPT ![job[w].srv] = None]
              ELSE row
    /\ Finish(w)
    /\ UNCHANGED <<tools, proxy, check, up, counters, history>>

------------------------------------------------------------------------------
(* PublishServer: the row goes online, then the proxy gets the tools.      *)

Publish(w, s) ==
    /\ row[s] # None /\ Publishable(row[s])
    /\ Begin(w, s, "publish", "release", {})

ReadPending(w) ==
    /\ At(w, "readPending")
    /\ IF /\ HasRow(job[w].srv, job[w].snap.id)
          /\ Publishable(row[job[w].srv])
       THEN GotoWith(w, "release", row[job[w].srv])
       ELSE Finish(w)
    /\ UNCHANGED <<stores, check, up, counters, history>>

Release(w) ==
    /\ At(w, "release")
    /\ row' = SaveRow(job[w].srv, [job[w].snap EXCEPT !.status = "online"])
    /\ Goto(w, "load")
    /\ UNCHANGED <<tools, proxy, check, up, counters, history>>

\* registerToProxyTools loads every tool of the server, enabled or not.
Load(w) ==
    /\ At(w, "load")
    /\ job' = [job EXCEPT ![w].pc = "expose", ![w].names = ToolsOf(job[w].snap.id)]
    /\ UNCHANGED <<stores, check, up, counters, history>>

Expose(w) ==
    /\ At(w, "expose")
    /\ \E t \in job[w].names :
          /\ proxy' = proxy \cup {<<job[w].srv, t>>}
          /\ job' = [job EXCEPT ![w].names = @ \ {t}]
    /\ UNCHANGED <<row, tools, check, up, counters, history>>

Exposed(w) ==
    /\ At(w, "expose")
    /\ job[w].names = {}
    /\ Finish(w)
    /\ UNCHANGED <<stores, check, up, counters, history>>

------------------------------------------------------------------------------
(* EnableMcpServer, DisableMcpServer, EnableTools, DisableTools.           *)

TurnsOn(q) == q \in {"enable", "enableTool"}

\* (mutant) A status that is not one of the constants.
SwitchedStatusUnknown(q) == IF TurnsOn(q) THEN "enabled" ELSE "disabled"

SwitchedStatus(q) == IF TurnsOn(q) THEN "online" ELSE "disabled"

\* setMcpServerEnabled skips the write when the status is right already.
SwitchServer(w, s, q) ==
    /\ q \in {"enable", "disable"}
    /\ row[s] # None
    /\ Begin(w, s, q, IF row[s].status = SwitchedStatus(q) THEN "readTools"
                                                           ELSE "switch", {})

SwitchTool(w, s, t, q) ==
    /\ q \in {"enableTool", "disableTool"}
    /\ Begin(w, s, q, "readTools", {t})

Switch(w) ==
    /\ At(w, "switch")
    /\ row' = SaveRow(job[w].srv,
                      [job[w].snap EXCEPT !.status = SwitchedStatus(job[w].req)])
    /\ Goto(w, "readTools")
    /\ UNCHANGED <<tools, proxy, check, up, counters, history>>

\* The rows setToolsEnabled will change: of a server, all that differ; of one
\* tool, the row with the least key, if it differs.
ToChange(q, id, ts) ==
    {r \in RowsOf(id) :
        /\ r.enabled # TurnsOn(q)
        /\ q \in {"enableTool", "disableTool"} =>
              /\ r.tool \in ts
              /\ \A x \in RowsOf(id) : x.tool = r.tool => r.key <= x.key}

\* setToolsEnabled reads the server again by name.
ReadTools(w) ==
    /\ At(w, "readTools")
    /\ IF row[job[w].srv] = None
       THEN Finish(w)
       ELSE job' = [job EXCEPT
                      ![w].pc = "saveTool",
                      ![w].snap = row[job[w].srv],
                      ![w].rows = ToChange(job[w].req, row[job[w].srv].id, job[w].names)]
    /\ UNCHANGED <<stores, check, up, counters, history>>

SaveNextTool(w) ==
    /\ At(w, "saveTool")
    /\ \E r \in job[w].rows :
          IF MaySaveTool(job[w].srv, r)
          THEN /\ tools' = SaveTool(r, TurnsOn(job[w].req))
               /\ job' = [job EXCEPT ![w].pc = "showTool",
                                     ![w].rows = @ \ {r},
                                     ![w].names = {r.tool}]
          ELSE Finish(w) /\ UNCHANGED tools
    /\ UNCHANGED <<row, proxy, check, up, counters, history>>

\* The tool is added to the proxy, or taken out of it, whatever the status.
ShowTool(w) ==
    /\ At(w, "showTool")
    /\ proxy' = IF TurnsOn(job[w].req)
                THEN proxy \cup ({job[w].srv} \X job[w].names)
                ELSE proxy \ ({job[w].srv} \X job[w].names)
    /\ Goto(w, "saveTool")
    /\ UNCHANGED <<row, tools, check, up, counters, history>>

Switched(w) ==
    /\ At(w, "saveTool")
    /\ job[w].rows = {}
    /\ Finish(w)
    /\ halted' = IF job[w].req = "disable" THEN halted \cup {job[w].srv} ELSE halted
    /\ UNCHANGED <<stores, check, up, counters, gone, lost>>

------------------------------------------------------------------------------
(* ArchiveServer and DeregisterMcpServer: both run deregisterServerTools.  *)

Archive(w, s) ==
    /\ row[s] # None
    /\ Begin(w, s, "archive", IF row[s].status \in Active THEN "list" ELSE "bury", {})

Deregister(w, s) == Begin(w, s, "deregister", "list", {})

\* ListToolsByServer reads the server again by name.
List(w) ==
    /\ At(w, "list")
    /\ IF row[job[w].srv] = None
       THEN Finish(w)
       ELSE job' = [job EXCEPT ![w].pc = "drop",
                               ![w].names = ToolsOf(row[job[w].srv].id)]
    /\ UNCHANGED <<stores, check, up, counters, history>>

Drop(w) ==
    /\ At(w, "drop")
    /\ tools' = tools \ RowsOf(job[w].snap.id)
    /\ Goto(w, "hide")
    /\ UNCHANGED <<row, proxy, check, up, counters, history>>

\* (mutant) Only the tables are cleaned.
HideNothing(w) ==
    /\ At(w, "hide")
    /\ Goto(w, IF job[w].req = "archive" THEN "bury" ELSE "erase")
    /\ UNCHANGED <<stores, check, up, counters, history>>

Hide(w) ==
    /\ At(w, "hide")
    /\ proxy' = proxy \ ({job[w].srv} \X job[w].names)
    /\ Goto(w, IF job[w].req = "archive" THEN "bury" ELSE "erase")
    /\ UNCHANGED <<row, tools, check, up, counters, history>>

Bury(w) ==
    /\ At(w, "bury")
    /\ row' = SaveRow(job[w].srv, [job[w].snap EXCEPT !.status = "archived"])
    /\ Finish(w)
    /\ halted' = halted \cup {job[w].srv}
    /\ UNCHANGED <<tools, proxy, check, up, counters, gone, lost>>

\* Deleting a row that is gone already is no error; the foreign key is one.
Erase(w) ==
    /\ At(w, "erase")
    /\ IF MayDelete(job[w].snap.id)
       THEN /\ row' = IF HasRow(job[w].srv, job[w].snap.id)
                      THEN [row EXCEPT ![job[w].srv] = None]
                      ELSE row
            /\ gone' = gone \cup {job[w].srv}
       ELSE UNCHANGED <<row, gone>>
    /\ Finish(w)
    /\ UNCHANGED <<tools, proxy, check, up, counters, halted, lost>>

------------------------------------------------------------------------------
(* A database call that fails ends the handler with what it did so far,    *)
(* but for the failures the code logs and steps over.                      *)

Fail(w) ==
    /\ Faults
    /\ job[w] # None
    /\ job[w].pc \notin {"connect", "expose", "showTool", "hide"}
    /\ IF job[w].pc \in {"readDraft", "mark", "accept", "reject"}
       THEN LeaveValidation(w)
       ELSE IF job[w].pc = "persist"
       THEN \E t \in job[w].names : job' = [job EXCEPT ![w].names = @ \ {t}]
       ELSE Finish(w)
    /\ lost' = IF job[w].pc \in {"accept", "reject"} THEN lost \cup {job[w].srv} ELSE lost
    /\ UNCHANGED <<stores, check, up, counters, halted, gone>>

------------------------------------------------------------------------------
(* The health check: a goroutine per active server and round, which holds  *)
(* the row it was started with until the upstream answered or timed out.   *)

StartCheck(s) ==
    /\ check[s] = None
    /\ row[s] # None
    /\ row[s].status \in Active
    /\ check' = [check EXCEPT ![s] = row[s]]
    /\ UNCHANGED <<stores, job, up, counters, history>>

Saturate(n) == IF n > Threshold THEN Threshold ELSE n

\* (mutant) The failure is reported but not counted.
AfterFailureUncounted(c, r) ==
    [r EXCEPT !.status = IF c.status = "online" /\ c.fails + 1 >= Threshold
                         THEN "unhealthy" ELSE @]

\* recordHealthFailure, on the copy c and the current row r.
AfterFailure(c, r) ==
    [r EXCEPT !.fails = Saturate(c.fails + 1),
              !.status = IF c.status = "online" /\ c.fails + 1 >= Threshold
                         THEN "unhealthy" ELSE @]

\* (mutant) Recovery puts the server straight back online.
AfterSuccessOnline(c, r) ==
    [r EXCEPT !.fails = 0,
              !.status = IF c.status = "unhealthy" THEN "online" ELSE @]

\* (mutant) Recovery resets the counter and forgets the status.
AfterSuccessResetOnly(c, r) == [r EXCEPT !.fails = 0]

\* recordHealthSuccess: a recovered server waits to be published again.
AfterSuccess(c, r) ==
    [r EXCEPT !.fails = 0,
              !.status = IF c.status = "unhealthy" THEN "pending_publish" ELSE @]

\* (mutant) The verdict is written with Save, like everywhere else.
FinishCheckSaving(s) ==
    /\ check[s] # None
    /\ check' = [check EXCEPT ![s] = None]
    /\ row' = SaveRow(s, IF up[s] THEN AfterSuccess(check[s], check[s])
                                 ELSE AfterFailure(check[s], check[s]))
    /\ UNCHANGED <<tools, proxy, job, up, counters, history>>

\* Updates ... WHERE id: a row deleted in the meantime stays deleted.
FinishCheck(s) ==
    /\ check[s] # None
    /\ check' = [check EXCEPT ![s] = None]
    /\ row' = IF HasRow(s, check[s].id)
              THEN [row EXCEPT ![s] = IF up[s] THEN AfterSuccess(check[s], @)
                                               ELSE AfterFailure(check[s], @)]
              ELSE row
    /\ UNCHANGED <<tools, proxy, job, up, counters, history>>

------------------------------------------------------------------------------
(* The process stops and starts again: handlers and checks are lost, and   *)
(* initMCPProxyServer rebuilds the proxy from the tables.                  *)

LoadedAtStart ==
    {p \in Server \X Tool :
        /\ row[p[1]] # None
        /\ row[p[1]].status \in Active
        /\ \E r \in RowsOf(row[p[1]].id) : r.tool = p[2] /\ r.enabled}

\* ListTools looks up the server of every tool; one that is missing makes
\* NewMCPService, and with it the start, fail.
Startable == \A r \in tools : \E s \in Server : HasRow(s, r.sid)

\* A handler that has marked its server and owes it a verdict.
Validating(w) == \E p \in {"connect", "persist", "accept", "reject"} : At(w, p)

Restart ==
    /\ Crashes
    /\ Startable
    /\ job' = [w \in Worker |-> None]
    /\ check' = [s \in Server |-> None]
    /\ proxy' = LoadedAtStart
    /\ lost' = lost \cup {s \in Server : \E w \in Worker : Validating(w) /\ job[w].srv = s}
    /\ UNCHANGED <<row, tools, up, counters, halted, gone>>

\* The upstream of s starts or stops answering.
Flip(s) ==
    /\ up' = [up EXCEPT ![s] = ~@]
    /\ UNCHANGED <<stores, job, check, counters, history>>

------------------------------------------------------------------------------
Init ==
    /\ row = [s \in Server |-> None]
    /\ tools = {}
    /\ proxy = {}
    /\ job = [w \in Worker |-> None]
    /\ check = [s \in Server |-> None]
    /\ up \in [Server -> BOOLEAN]
    /\ nextId = 1
    /\ nextKey = 1
    /\ halted = {}
    /\ gone = {}
    /\ lost = {}

\* An administrator's request reaches a free worker.
Arrive(w, s) ==
    \/ Register(w, s)
    \/ Validate(w, s)
    \/ Publish(w, s)
    \/ \E q \in {"enable", "disable"} : SwitchServer(w, s, q)
    \/ \E q \in {"enableTool", "disableTool"}, t \in Tool : SwitchTool(w, s, t, q)
    \/ Archive(w, s)
    \/ Deregister(w, s)

\* A handler runs on.
Step(w) ==
    \/ ReadDraft(w) \/ Mark(w) \/ Connect(w) \/ Persist(w) \/ Persisted(w)
    \/ Accept(w) \/ Reject(w) \/ Clean(w)
    \/ ReadPending(w) \/ Release(w) \/ Load(w) \/ Expose(w) \/ Exposed(w)
    \/ Switch(w) \/ ReadTools(w) \/ SaveNextTool(w) \/ ShowTool(w) \/ Switched(w)
    \/ List(w) \/ Drop(w) \/ Hide(w) \/ Bury(w) \/ Erase(w)

Next ==
    \/ \E w \in Worker, s \in Server : Arrive(w, s)
    \/ \E w \in Worker : Step(w) \/ Fail(w)
    \/ \E s \in Server : StartCheck(s) \/ FinishCheck(s) \/ Flip(s)
    \/ Restart

Spec == Init /\ [][Next]_vars

\* A handler waits for an upstream: while it connects and lists the tools, and
\* when it has persisted them and lists prompts and resources.  None of these
\* calls but some connects has a timeout, and gin's context is never done.
Awaits(w) == At(w, "connect") \/ (At(w, "persist") /\ job[w].names = {})

\* Handler goroutines run on where they do not wait for an upstream, nor, on the
\* way to saving "archived", for the mutex of the sessions; the ticker starts
\* checks for ever and a check ends within its 10 seconds.  Administrators,
\* upstreams and crashes owe nothing.
Fairness ==
    /\ \A w \in Worker : WF_vars(~Awaits(w) /\ ~At(w, "bury") /\ Step(w))
    /\ \A s \in Server : WF_vars(StartCheck(s)) /\ WF_vars(FinishCheck(s))

FairSpec == Spec /\ Fairness

------------------------------------------------------------------------------
(* Properties.                                                             *)

\* Every variable keeps its shape; in particular every status a handler or a
\* check writes is one of the constants of model/mcp_server.go.
TypeOK ==
    /\ row \in [Server -> Row \cup {None}]
    /\ tools \in SUBSET ToolRow
    /\ proxy \in SUBSET (Server \X Tool)
    /\ job \in [Worker -> Job \cup {None}]
    /\ check \in [Server -> Row \cup {None}]
    /\ up \in [Server -> BOOLEAN]
    /\ nextId \in Nat
    /\ nextKey \in Nat
    /\ halted \in SUBSET Server
    /\ gone \in SUBSET Server
    /\ lost \in SUBSET Server

\* No handler works on s.
Idle(s) == \A w \in Worker : job[w] = None \/ job[w].srv # s

HasStatus(s, S) == row[s] # None /\ row[s].status \in S

\* Once DisableMcpServer or ArchiveServer returned success, the server is not
\* online again before somebody asks for it: no late health verdict, restart
\* or left-over copy of its row brings it back.
StopSticks == \A s \in halted : ~HasStatus(s, {"online"})

\* Once DeregisterMcpServer returned success, no write puts the server's row
\* back before the name is registered again.
GoneStays == \A s \in gone : row[s] = None

\* When no handler works on a server, each tool the proxy exposes under its
\* name has a row of the current registration behind it.
NoGhostTools ==
    \A s \in Server : Idle(s) =>
        \A t \in Tool : <<s, t>> \in proxy =>
            row[s] # None /\ t \in ToolsOf(row[s].id)

\* A tool name is unique within its server (model/mcp_tool.go), although the
\* table has no index that says so.
UniqueTools ==
    \A r1, r2 \in tools : r1.sid = r2.sid /\ r1.tool = r2.tool => r1 = r2

\* The process can always start again: no tool row outlives its server row,
\* which ListTools, called by initMCPProxyServer, would stumble over.
ToolsOwned == Startable

\* The servers whose requests in progress ask for them to be served, and the
\* servers that are.
Asked ==
    {s \in Server : \E w \in Worker :
        job[w] # None /\ job[w].srv = s /\ job[w].req \in Serving}

Served == {s \in Server : HasStatus(s, {"online"})}

\* Handlers, health check and restarts together keep the contract: a server
\* goes online only within a request that asks for it.
Contract == INSTANCE ServingContract WITH asked <- Asked, serving <- Served
KeepsContract == Contract!Spec

\* The row says "validating" only while some handler still owes the server a
\* verdict, however many race, unless that verdict could not be saved or died
\* with the process.  No request validates such a row again, so one that nobody
\* owes a verdict would be stuck for no reason.
ValidatingHeld ==
    \A s \in Server : HasStatus(s, {"validating"}) =>
        s \in lost \/ \E w \in Worker : Validating(w) /\ job[w].srv = s

\* A validation ends, unless its verdict was lost or the upstream, which owes
\* no answer, keeps a handler waiting for ever.
ValidationEnds ==
    \A s \in Server :
        \/ []<>(~HasStatus(s, {"validating"}) \/ s \in lost)
        \/ <>[](\E w \in Worker : Awaits(w) /\ job[w].srv = s)

\* A server whose upstream stays dead is taken off the served ones for good,
\* once administrators leave it alone.
DeadServerLeaves ==
    \A s \in Server : <>[](~up[s] /\ Idle(s)) => <>[]~HasStatus(s, {"online"})

\* A server whose upstream stays up does not stay unhealthy.
LiveServerRecovers ==
    \A s \in Server : <>[](up[s] /\ Idle(s)) => <>[]~HasStatus(s, {"unhealthy"})
==============================================================================
