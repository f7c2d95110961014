--------------------------- MODULE ToolCollections ---------------------------
(***************************************************************************)
(* Tool collections: named selections of the gateway's tools, each with an *)
(* MCP endpoint of its own (service/toolcollection, api/tool_collections). *)
(* A collection is a row with its configuration and an in-memory MCP       *)
(* server with the tools it exposes; callbacks of MCPService keep the      *)
(* servers in step with the tools that come and go.  Clients of the SSE    *)
(* transport go through a cache of the API layer.                          *)
(*                                                                         *)
(* A handler's reads between two of its writes are one step.  The servers  *)
(* for the HTTP and the SSE half of a collection are one object here.      *)
(* What MCPService does to its tools is as in ServerLifecycle, with        *)
(* servers that are always published: a registration counts from the step  *)
(* that puts the server online.                                            *)
(***************************************************************************)
EXTENDS Naturals, FiniteSets

CONSTANTS
    Collection, \* names of tool collections
    Server,     \* names of MCP servers
    Tool,       \* canonical tool names
    Owner,      \* the server in each tool's name
    Config,     \* configurations administrators submit
    Worker,     \* HTTP handler goroutines: how many requests overlap
    Request,    \* kinds of request the administrators send
    Faults,     \* whether database calls may fail
    Crashes,    \* whether the process may stop and restart
    MaxObj,     \* bound on the in-memory servers alive at once
    None        \* no row, no object, no job

AllRequest == {"create", "update", "delete", "register", "deregister", "enable", "disable"}

\* included_tools, included_servers and excluded_tools; an empty list is one
\* left out of the request, as the command line does.
AllConfig == [tools : SUBSET Tool, servers : SUBSET Server, excluded : SUBSET Tool]

ASSUME OwnerAssumption == Owner \in [Tool -> Server]
ASSUME ConfigAssumption == Config \subseteq AllConfig
ASSUME RequestAssumption == Request \subseteq AllRequest
ASSUME SwitchAssumption == Faults \in BOOLEAN /\ Crashes \in BOOLEAN
\* There is room for an in-memory server per collection.
ASSUME BoundAssumption ==
    MaxObj \in Nat /\ IsFiniteSet(Collection) /\ Cardinality(Collection) <= MaxObj

VARIABLES
    servers,    \* the names with a row in mcp_servers
    rows,       \* tools table: "on" or "off" (enabled), or None
    instances,  \* MCPService.toolInstances, the tools the main proxy exposes
    group,      \* tool_collections: the configuration of each name, or None
    object,     \* ToolCollectionService.mcpServers: the object of each name
    content,    \* the tools each in-memory server exposes
    sse,        \* Server.collectionSseServers: the object each name's SSE
                \*   clients are served by
    job,        \* the request each worker is executing, or None
    failed      \* history: a database call has failed since the last start

database == <<servers, rows, group>>
memory == <<instances, object, content, sse>>
vars == <<servers, rows, instances, group, object, content, sse, job, failed>>

Object == 1 .. MaxObj

\* A handler: todo are the tools it has still to add, drop those it removes;
\* tool is the one its addition callback is about, names the collections the
\* callback has chosen.
Job == [pc : {"resolve", "fill", "insert", "attach", "compare", "apply", "store",
              "detach", "erase", "expose", "collect", "spread",
              "hide", "forget", "deregister"},
        coll : Collection \cup {None}, cfg : Config \cup {None},
        obj : Object \cup {None}, srv : Server \cup {None},
        tool : Tool \cup {None}, todo : SUBSET Tool, drop : SUBSET Tool, names : SUBSET Collection]

ASSUME NoneAssumption == None \notin {"on", "off"} \cup Server \cup AllConfig \cup Object \cup Job

NewJob(pc) == [pc |-> pc, coll |-> None, cfg |-> None, obj |-> None, srv |-> None,
               tool |-> None, todo |-> {}, drop |-> {}, names |-> {}]

At(w, pc) == job[w] # None /\ job[w].pc = pc

Goto(w, pc) == job' = [job EXCEPT ![w].pc = pc]

\* The handler w continues as j, or returns (j = None).
Become(w, j) == job' = [job EXCEPT ![w] = j]

Finish(w) == Become(w, None)

\* The tools that have a row, whether enabled or not, under a server's name.
ToolsOf(s) == {t \in Tool : Owner[t] = s /\ rows[t] # None}

\* ResolveEffectiveTools fails when an included server has no row.
Resolvable(cfg) == cfg.servers \subseteq servers

Effective(cfg) ==
    (cfg.tools \cup UNION {ToolsOf(s) : s \in cfg.servers}) \ cfg.excluded

\* GetToolInstance and GetToolParentServer both succeed.
Usable(t) == t \in instances /\ Owner[t] \in servers

------------------------------------------------------------------------------
(* CreateToolCollection fills the new in-memory server before it inserts   *)
(* the row, and joins the map last.                                        *)

Create(w, g, cfg) ==
    /\ "create" \in Request
    /\ job[w] = None
    /\ Become(w, [NewJob("resolve") EXCEPT !.coll = g, !.cfg = cfg])
    /\ UNCHANGED <<database, memory, failed>>

\* The in-memory servers somebody can still reach.
Alive == {object[g] : g \in Collection} \cup {sse[g] : g \in Collection}
         \cup {job[w].obj : w \in {v \in Worker : job[v] # None}}

Resolve(w) ==
    /\ At(w, "resolve")
    /\ Object \ Alive # {}
    /\ LET cfg == job[w].cfg
           o == CHOOSE i \in Object \ Alive : TRUE
       IN  IF Resolvable(cfg) /\ Effective(cfg) # {}
           THEN /\ Become(w, [job[w] EXCEPT !.pc = "fill", !.obj = o, !.todo = Effective(cfg)])
                /\ content' = [content EXCEPT ![o] = {}]
           ELSE Finish(w) /\ UNCHANGED content
    /\ UNCHANGED <<database, instances, object, sse, failed>>

FillOne(w) ==
    /\ At(w, "fill")
    /\ \E t \in job[w].todo :
          IF Usable(t)
          THEN /\ content' = [content EXCEPT ![job[w].obj] = @ \cup {t}]
               /\ Become(w, [job[w] EXCEPT !.todo = @ \ {t}])
          ELSE Finish(w) /\ UNCHANGED content
    /\ UNCHANGED <<database, instances, object, sse, failed>>

Filled(w) ==
    /\ At(w, "fill")
    /\ job[w].todo = {}
    /\ Goto(w, "insert")
    /\ UNCHANGED <<database, memory, failed>>

\* The name is unique.
Insert(w) ==
    /\ At(w, "insert")
    /\ LET g == job[w].coll IN
       IF group[g] = None
       THEN /\ group' = [group EXCEPT ![g] = job[w].cfg]
            /\ Goto(w, "attach")
       ELSE Finish(w) /\ UNCHANGED group
    /\ UNCHANGED <<servers, rows, memory, failed>>

Attach(w) ==
    /\ At(w, "attach")
    /\ object' = [object EXCEPT ![job[w].coll] = job[w].obj]
    /\ Finish(w)
    /\ UNCHANGED <<database, instances, content, sse, failed>>

------------------------------------------------------------------------------
(* UpdateToolCollection changes the in-memory server before the row.       *)

Update(w, g, cfg) ==
    /\ "update" \in Request
    /\ job[w] = None
    /\ Become(w, [NewJob("compare") EXCEPT !.coll = g, !.cfg = cfg])
    /\ UNCHANGED <<database, memory, failed>>

\* (mutant) An endpoint is taken for granted where there is a row.
ApplicableToRow(g, new) ==
    /\ group[g] # None
    /\ Resolvable(group[g]) /\ Resolvable(new)
    /\ \A t \in Effective(new) \ Effective(group[g]) : Usable(t)
    /\ \A t \in Effective(group[g]) \ Effective(new) : Owner[t] \in servers

\* The update of g to the configuration new goes on: it finds the row, the
\* in-memory server, the tools it adds and the servers of those it removes.
Applicable(g, new) ==
    /\ group[g] # None
    /\ Resolvable(group[g]) /\ Resolvable(new)
    /\ object[g] # None
    /\ \A t \in Effective(new) \ Effective(group[g]) : Usable(t)
    /\ \A t \in Effective(group[g]) \ Effective(new) : Owner[t] \in servers

\* An update that adds and removes no tool goes on only when it changes the
\* description, which the model leaves open.
Compare(w) ==
    /\ At(w, "compare")
    /\ LET g == job[w].coll
           old == group[g]
           new == job[w].cfg
       IN  \/ /\ Applicable(g, new)
              /\ Become(w, [job[w] EXCEPT !.pc = "apply", !.obj = object[g],
                                          !.todo = Effective(new) \ Effective(old),
                                          !.drop = Effective(old) \ Effective(new)])
           \/ /\ Applicable(g, new) => Effective(new) = Effective(old)
              /\ Finish(w)
    /\ UNCHANGED <<database, memory, failed>>

\* (mutant) The tools that left the collection are not removed.
ApplyAdding(w) ==
    /\ At(w, "apply")
    /\ content' = [content EXCEPT ![job[w].obj] = @ \cup job[w].todo]
    /\ Goto(w, "store")
    /\ UNCHANGED <<database, instances, object, sse, failed>>

Apply(w) ==
    /\ At(w, "apply")
    /\ content' = [content EXCEPT ![job[w].obj] = (@ \ job[w].drop) \cup job[w].todo]
    /\ Goto(w, "store")
    /\ UNCHANGED <<database, instances, object, sse, failed>>

\* gorm's Updates with a struct writes only the fields that are not zero.
Overwrite(old, new) ==
    [f \in DOMAIN old |-> IF new[f] = {} THEN old[f] ELSE new[f]]

Store(w) ==
    /\ At(w, "store")
    /\ LET g == job[w].coll IN
       group' = IF group[g] = None THEN group
                ELSE [group EXCEPT ![g] = Overwrite(group[g], job[w].cfg)]
    /\ Finish(w)
    /\ UNCHANGED <<servers, rows, memory, failed>>

------------------------------------------------------------------------------
(* DeleteToolCollection leaves the map first and then deletes the row.     *)

Delete(w, g) ==
    /\ "delete" \in Request
    /\ job[w] = None
    /\ Become(w, [NewJob("detach") EXCEPT !.coll = g])
    /\ UNCHANGED <<database, memory, failed>>

\* (mutant) The endpoint stays in the map.
DetachNothing(w) ==
    /\ At(w, "detach")
    /\ Goto(w, "erase")
    /\ UNCHANGED <<database, memory, failed>>

Detach(w) ==
    /\ At(w, "detach")
    /\ object' = [object EXCEPT ![job[w].coll] = None]
    /\ Goto(w, "erase")
    /\ UNCHANGED <<database, instances, content, sse, failed>>

Erase(w) ==
    /\ At(w, "erase")
    /\ group' = [group EXCEPT ![job[w].coll] = None]
    /\ Finish(w)
    /\ UNCHANGED <<servers, rows, memory, failed>>

------------------------------------------------------------------------------
(* Tools come: a server is registered and published, or a tool enabled.    *)

Register(w, s) ==
    /\ "register" \in Request
    /\ job[w] = None
    /\ s \notin servers
    /\ servers' = servers \cup {s}
    /\ rows' = [t \in Tool |-> IF Owner[t] = s THEN "on" ELSE rows[t]]
    /\ Become(w, [NewJob("expose") EXCEPT !.todo = {t \in Tool : Owner[t] = s}])
    /\ UNCHANGED <<group, memory, failed>>

Enable(w, t) ==
    /\ "enable" \in Request
    /\ job[w] = None
    /\ rows[t] = "off"
    /\ rows' = [rows EXCEPT ![t] = "on"]
    /\ Become(w, [NewJob("expose") EXCEPT !.todo = {t}])
    /\ UNCHANGED <<servers, group, memory, failed>>

\* addToolInstance, before the addition callback for the tool.
Expose(w) ==
    /\ At(w, "expose")
    /\ \E t \in job[w].todo :
          /\ instances' = instances \cup {t}
          /\ Become(w, [job[w] EXCEPT !.pc = "collect", !.todo = @ \ {t}, !.tool = t])
    /\ UNCHANGED <<database, object, content, sse, failed>>

Exposed(w) ==
    /\ At(w, "expose")
    /\ job[w].todo = {}
    /\ Finish(w)
    /\ UNCHANGED <<database, memory, failed>>

\* handleToolAddition, up to the locks: one collection that cannot be resolved
\* ends it for all of them.
Collect(w) ==
    /\ At(w, "collect")
    /\ LET t == job[w].tool
           live == {g \in Collection : group[g] # None}
       IN  IF Usable(t) /\ \A g \in live : Resolvable(group[g])
           THEN Become(w, [job[w] EXCEPT !.pc = "spread",
                                         !.names = {g \in live : t \in Effective(group[g])}])
           ELSE Become(w, [job[w] EXCEPT !.pc = "expose", !.tool = None])
    /\ UNCHANGED <<database, memory, failed>>

\* handleToolAddition under the locks.
Spread(w) ==
    /\ At(w, "spread")
    /\ content' = [o \in Object |-> IF \E g \in job[w].names : object[g] = o
                                   THEN content[o] \cup {job[w].tool} ELSE content[o]]
    /\ Become(w, [job[w] EXCEPT !.pc = "expose", !.tool = None, !.names = {}])
    /\ UNCHANGED <<database, instances, object, sse, failed>>

------------------------------------------------------------------------------
(* Tools go: a tool is disabled, or a server deregistered.                 *)

Disable(w, t) ==
    /\ "disable" \in Request
    /\ job[w] = None
    /\ rows[t] = "on"
    /\ rows' = [rows EXCEPT ![t] = "off"]
    /\ Become(w, [NewJob("hide") EXCEPT !.drop = {t}])
    /\ UNCHANGED <<servers, group, memory, failed>>

Deregister(w, s) ==
    /\ "deregister" \in Request
    /\ job[w] = None
    /\ s \in servers
    /\ rows' = [t \in Tool |-> IF Owner[t] = s THEN None ELSE rows[t]]
    /\ Become(w, [NewJob("hide") EXCEPT !.drop = ToolsOf(s), !.srv = s])
    /\ UNCHANGED <<servers, group, memory, failed>>

\* deleteToolInstances.
Hide(w) ==
    /\ At(w, "hide")
    /\ instances' = instances \ job[w].drop
    /\ Goto(w, "forget")
    /\ UNCHANGED <<database, object, content, sse, failed>>

\* (mutant) The callback is not made.
ForgetNothing(w) ==
    /\ At(w, "forget")
    /\ IF job[w].srv = None THEN Finish(w) ELSE Goto(w, "deregister")
    /\ UNCHANGED <<database, memory, failed>>

\* handleToolDeletion, for the objects in the map.
Forget(w) ==
    /\ At(w, "forget")
    /\ content' = [o \in Object |->
                     IF \E g \in Collection : object[g] = o
                     THEN content[o] \ job[w].drop ELSE content[o]]
    /\ IF job[w].srv = None THEN Finish(w) ELSE Goto(w, "deregister")
    /\ UNCHANGED <<database, instances, object, sse, failed>>

DropServer(w) ==
    /\ At(w, "deregister")
    /\ servers' = servers \ {job[w].srv}
    /\ Finish(w)
    /\ UNCHANGED <<rows, group, memory, failed>>

------------------------------------------------------------------------------
(* Clients, and the process.                                               *)

\* getCollectionSseServer: the cached server, or a new one around the object
\* in the map.
ConnectSse(g) ==
    /\ sse[g] = None
    /\ object[g] # None
    /\ sse' = [sse EXCEPT ![g] = object[g]]
    /\ UNCHANGED <<database, instances, object, content, job, failed>>

\* initToolCollectionMCPServers: what the collection g serves after a start
\* with the tools T in the proxy.
ServedAtStart(g, T) ==
    IF group[g] # None /\ Resolvable(group[g]) THEN Effective(group[g]) \cap T ELSE {}

\* The process stops and starts again with one object for each collection.
Restart ==
    /\ Crashes
    /\ job' = [w \in Worker |-> None]
    /\ instances' = {t \in Tool : rows[t] = "on" /\ Owner[t] \in servers}
    /\ LET live == {g \in Collection : group[g] # None} IN
       \E o \in [live -> 1 .. Cardinality(live)] :
          /\ \A g, h \in live : o[g] = o[h] => g = h
          /\ object' = [g \in Collection |-> IF g \in live THEN o[g] ELSE None]
          /\ content' = [i \in Object |-> UNION {ServedAtStart(g, instances') :
                                                 g \in {h \in live : o[h] = i}}]
    /\ sse' = [g \in Collection |-> None]
    /\ failed' = FALSE
    /\ UNCHANGED database

\* A database call fails: the handler returns, or, in the addition callback,
\* goes on with the next tool; what was written stays.
Fail(w) ==
    /\ Faults
    /\ job[w] # None
    /\ \/ /\ job[w].pc \in {"resolve", "fill", "insert", "compare", "store", "erase", "deregister"}
          /\ Finish(w)
       \/ /\ At(w, "collect")
          /\ Become(w, [job[w] EXCEPT !.pc = "expose", !.tool = None])
    /\ failed' = TRUE
    /\ UNCHANGED <<database, memory>>

------------------------------------------------------------------------------
Init ==
    /\ servers = {}
    /\ rows = [t \in Tool |-> None]
    /\ instances = {}
    /\ group = [g \in Collection |-> None]
    /\ object = [g \in Collection |-> None]
    /\ content = [o \in Object |-> {}]
    /\ sse = [g \in Collection |-> None]
    /\ job = [w \in Worker |-> None]
    /\ failed = FALSE

\* A request reaches a handler.
Arrive(w) ==
    \/ \E g \in Collection :
          \/ \E cfg \in Config : Create(w, g, cfg) \/ Update(w, g, cfg)
          \/ Delete(w, g)
    \/ \E s \in Server : Register(w, s) \/ Deregister(w, s)
    \/ \E t \in Tool : Enable(w, t) \/ Disable(w, t)

\* A handler makes its next call.
Step(w) ==
    \/ Resolve(w) \/ FillOne(w) \/ Filled(w) \/ Insert(w) \/ Attach(w)
    \/ Compare(w) \/ Apply(w) \/ Store(w)
    \/ Detach(w) \/ Erase(w)
    \/ Expose(w) \/ Exposed(w) \/ Collect(w) \/ Spread(w)
    \/ Hide(w) \/ Forget(w) \/ DropServer(w)

Next ==
    \/ \E w \in Worker : Arrive(w) \/ Step(w) \/ Fail(w)
    \/ \E g \in Collection : ConnectSse(g)
    \/ Restart

Spec == Init /\ [][Next]_vars

------------------------------------------------------------------------------
(* Properties.                                                             *)

\* A handler that works on an in-memory server has one, which is where
\* UpdateToolCollection would dereference a nil pointer.
HoldsObject(j) ==
    j.pc \in {"fill", "insert", "attach", "apply", "store"} => j.obj # None

\* Every variable has its shape.
TypeOK ==
    /\ servers \subseteq Server
    /\ rows \in [Tool -> {"on", "off", None}]
    /\ instances \subseteq Tool
    /\ group \in [Collection -> AllConfig \cup {None}]
    /\ object \in [Collection -> Object \cup {None}]
    /\ content \in [Object -> SUBSET Tool]
    /\ sse \in [Collection -> Object \cup {None}]
    /\ \A w \in Worker : job[w] # None => job[w] \in Job /\ HoldsObject(job[w])
    /\ failed \in BOOLEAN

Idle == \A w \in Worker : job[w] = None

\* A tool that is disabled or gone is offered through no collection, whatever
\* failed on the way (README.md:772).
HidesDisabled ==
    Idle => \A g \in Collection : object[g] # None =>
               \A t \in content[object[g]] : rows[t] = "on"

\* Every endpoint belongs to a stored collection, and unless a call to the
\* database has failed every stored collection has its endpoint: create and
\* delete keep the map and the table together, over restarts too.
EndpointsStored ==
    Idle => \A g \in Collection :
               /\ object[g] # None => group[g] # None
               /\ ~failed /\ group[g] # None => object[g] # None

\* Unless a call to the database has failed since the start, a collection
\* offers exactly the effective tools of its stored configuration that the
\* gateway offers, whatever came, went or was updated in between
\* (docs/guides/tool-groups.mdx:36).
CollectionsExact ==
    Idle /\ ~failed =>
        \A g \in Collection : object[g] # None =>
            content[object[g]] = Effective(group[g]) \cap instances

\* One half of that, whatever the number of servers: a collection offers
\* nothing outside the selection of its stored configuration.
OffersSelected ==
    Idle /\ ~failed =>
        \A g \in Collection : object[g] # None =>
            content[object[g]] \subseteq Effective(group[g])

\* The other half: what the gateway offers and a collection selects is in the
\* collection, also after it has been away ("if the tool is re-enabled or added
\* again later, it will automatically become available in the group again",
\* README.md:774).
ReenabledReturns ==
    Idle /\ ~failed =>
        \A g \in Collection : object[g] # None =>
            Effective(group[g]) \cap instances \subseteq content[object[g]]
==============================================================================
