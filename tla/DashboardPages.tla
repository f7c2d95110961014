---------------------------- MODULE DashboardPages ----------------------------
(* One list page of the dashboard and the rows of the gateway it shows.  All
   pages are one machine: a load when the page is mounted, controls that send a
   mutation, a reload when it has succeeded, a toast when it has failed.  They
   differ in the controls, in the error they keep, and in what the gateway
   tells them.  A request is served at one moment and answered at a later one;
   the client may give up on it before, and the gateway serve it after.      *)
EXTENDS Naturals, FiniteSets

CONSTANTS
    Row,        \* names of servers, tools, prompts, collections or users
    MaxActs,    \* bound on what the user and others do
    MaxReqs,    \* bound on the requests in flight
    None

ASSUME NoneAssumption == None \notin Row
ASSUME BoundsAssumption == MaxActs \in Nat /\ MaxReqs \in Nat \ {0}

VARIABLES
    page,       \* the page that is open
    rows,       \* the gateway: absent, off (disabled) or on
    data,       \* the rows of the last answer, None before
    error,      \* a load has failed
    loading,    \* a load is awaited
    toggling,   \* the one row whose switch shows that it waits
    formOpen,   \* the form that creates a row is open
    editing,    \* UsersPage: the user whose servers are edited
    submitting, \* the request the form waits for, 0 for none
    reqs,       \* requests in flight
    told,       \* history of the patient: rows about which an error was shown
    others,     \* and rows somebody else has changed
    patient,    \* the user acts when nothing is awaited
    acts

ui == <<page, data, error, loading, toggling, formOpen, editing, submitting>>
vars == <<ui, rows, reqs, told, others, patient, acts>>

Page == {"overview", "servers", "tools", "tool-collections", "prompts", "resources",
         "diagnostics", "users"}
Mark == {"absent", "off", "on"}
Table == [Row -> Mark]
ASSUME TableAssumption == None \notin Table
\* Users and tool collections cannot be disabled here.
Marks == IF page \in {"users", "tool-collections"} THEN {"absent", "on"} ELSE Mark
Req == [id : 1..MaxReqs, kind : {"load", "toggle", "remove", "create", "update"},
        row : Row \cup {None}, to : Mark, bad : BOOLEAN, heard : BOOLEAN,
        status : {"sent", "ok"}, table : Table \cup {None}]

------------------------------------------------------------------------------
(* What the gateway says.                                                   *)

\* A server's row carries no flag: Enabled is declared and never filled in.
ServedServer(m) == IF m = "absent" THEN "absent" ELSE "off"

Served(t) == IF page = "servers" THEN [n \in Row |-> ServedServer(t[n])] ELSE t

\* The answer, if the client still waits for it.
Answered(q, t) ==
    reqs' = (reqs \ {q}) \cup
              (IF q.heard THEN {[q EXCEPT !.status = "ok", !.table = t]} ELSE {})

\* Only what is there can be changed, and only what is not there created.
Fits(q) == ~q.bad /\ (q.kind = "create" <=> rows[q.row] = "absent")

Carried(q) ==
    /\ Fits(q)
    /\ rows' = [rows EXCEPT ![q.row] = q.to]
    /\ Answered(q, None)

\* Registering with an upstream that wants OAuth creates no row yet, and is
\* answered like a success.
Pending(q) ==
    /\ page = "servers" /\ q.kind = "create" /\ Fits(q)
    /\ Answered(q, None)
    /\ UNCHANGED rows

Listed(q) == Answered(q, Served(rows)) /\ UNCHANGED rows

Serve(q) ==
    /\ q.status = "sent"
    /\ IF q.kind = "load" THEN Listed(q) ELSE Carried(q) \/ Pending(q)
    /\ UNCHANGED <<ui, told, others, patient, acts>>

------------------------------------------------------------------------------
(* What a page shows.                                                       *)

Shown(n) == IF data = None THEN "absent" ELSE data[n]
Empty == \A n \in Row : Shown(n) = "absent"

\* The empty state has a button that opens the form, or a link to the servers.
ServersView == IF data # None /\ Empty THEN "first" ELSE "table"
ToolCollectionsView == IF data # None /\ Empty THEN "first" ELSE "table"
ToolsView == IF data # None /\ Empty THEN "link" ELSE "table"
PromptsView == IF data # None /\ Empty THEN "link" ELSE "table"

\* The pages without controls: figures, or a list.
OverviewView == IF data # None /\ Empty THEN "link" ELSE "figures"
DiagnosticsView == "figures"
ResourcesView == IF data # None /\ Empty THEN "link" ELSE "list"

\* UsersPage knows no empty state; it starts from an empty table.
UsersView == "table"

\* An error takes the place of everything, and only a spinner that of an error.
View ==
    IF loading /\ (data = None \/ (page = "users" /\ Empty)) THEN "spin"
    ELSE IF error THEN "alert"
    ELSE CASE page = "overview" -> OverviewView
           [] page = "servers" -> ServersView
           [] page = "tools" -> ToolsView
           [] page = "tool-collections" -> ToolCollectionsView
           [] page = "prompts" -> PromptsView
           [] page = "resources" -> ResourcesView
           [] page = "diagnostics" -> DiagnosticsView
           [] page = "users" -> UsersView

\* The mutations a row offers.  The switch of a server always asks to enable.
ServersOffers == {"toggle", "remove"}
\* A tool's switch needs server_enabled, which the gateway does not send.
ToolsOffers == {}
PromptsOffers == {"toggle"}
ToolCollectionsOffers == {"remove"}
\* The role for which the page hides the button does not exist.
UsersOffers == {"remove", "edit"}

Offers ==
    CASE page = "servers" -> ServersOffers
      [] page = "tools" -> ToolsOffers
      [] page = "prompts" -> PromptsOffers
      [] page = "tool-collections" -> ToolCollectionsOffers
      [] page = "users" -> UsersOffers
      [] OTHER -> {}

\* The table lies under the spinner while it loads, and under an open dialog.
Clickable(n) ==
    View = "table" /\ ~loading /\ ~formOpen /\ editing = None /\ Shown(n) # "absent"

Waiting == {q \in reqs : q.heard}
FreeId == CHOOSE i \in 1..MaxReqs : \A q \in reqs : q.id # i
Room == Cardinality(reqs) < MaxReqs
MayAct == Room /\ (patient => Waiting = {})

Sent(i, kind, n, to) ==
    [id |-> i, kind |-> kind, row |-> n, to |-> to, bad |-> FALSE, heard |-> TRUE,
     status |-> "sent", table |-> None]

------------------------------------------------------------------------------
(* What the user does.                                                      *)

\* The switch of a row, which is held only while toggling names the row.
Toggle(n) ==
    /\ "toggle" \in Offers /\ Clickable(n) /\ toggling # n /\ MayAct
    /\ toggling' = n
    /\ reqs' = reqs \cup {Sent(FreeId, "toggle", n, IF Shown(n) = "off" THEN "on" ELSE "off")}
    /\ UNCHANGED <<page, data, error, loading, formOpen, editing, submitting, rows, told>>

\* Confirmed deletion of a row.
Remove(n) ==
    /\ "remove" \in Offers /\ Clickable(n) /\ MayAct
    /\ reqs' = reqs \cup {Sent(FreeId, "remove", n, "absent")}
    /\ UNCHANGED <<ui, rows, told>>

OpenForm ==
    /\ page \in {"servers", "tool-collections", "users"}
    /\ View \in {"table", "first"} /\ ~formOpen /\ editing = None
    /\ formOpen' = TRUE
    /\ UNCHANGED <<page, data, error, loading, toggling, editing, submitting, rows, reqs, told>>

\* Cancel works also while the form waits.
CloseForm ==
    /\ View \in {"table", "first"}
    /\ formOpen \/ editing # None
    /\ formOpen' = FALSE /\ editing' = None
    /\ UNCHANGED <<page, data, error, loading, toggling, submitting, rows, reqs, told>>

\* Input of the server form: which fields there are goes by the transport.
ServerInput ==
    [transport : {"streamable_http", "sse"}, env : {"blank"}]
    \cup [transport : {"stdio"}, env : {"blank", "object", "other", "broken"}]

\* onSubmit of the server form returns early for text that is no JSON; other
\* JSON than an object is sent, and does not fit what the gateway reads.
ServerSubmits(v) == v.env # "broken"
ServerBad(v) == v.env = "other"

Submit(bad) ==
    /\ View \in {"table", "first"} /\ formOpen /\ MayAct
    /\ submitting' = FreeId
    /\ \E n \in Row : reqs' = reqs \cup {[Sent(FreeId, "create", n, "on") EXCEPT !.bad = bad]}
    /\ UNCHANGED <<page, data, error, loading, toggling, formOpen, editing, rows, told>>

\* A waiting form holds its button.
ServerForm ==
    /\ page = "servers" /\ submitting = 0
    /\ \E v \in ServerInput : ServerSubmits(v) /\ Submit(ServerBad(v))

ToolCollectionForm == page = "tool-collections" /\ submitting = 0 /\ Submit(FALSE)

\* The user form has one input, whose Enter submits whatever the button does.
UserForm == page = "users" /\ Submit(FALSE)

OpenEdit(n) ==
    /\ "edit" \in Offers /\ Clickable(n)
    /\ editing' = n
    /\ UNCHANGED <<page, data, error, loading, toggling, formOpen, submitting, rows, reqs, told>>

\* Mutant: the handler does not return early without a target.
EditUntargeted ==
    /\ page = "users" /\ View = "table" /\ submitting = 0 /\ MayAct
    /\ submitting' = FreeId
    /\ reqs' = reqs \cup {[Sent(FreeId, "update", editing, "on") EXCEPT !.bad = TRUE]}
    /\ UNCHANGED <<page, data, error, loading, toggling, formOpen, editing, rows, told>>

\* Saving the servers of a user: the gateway has no such route.
Edit ==
    /\ editing # None /\ View = "table" /\ submitting = 0 /\ MayAct
    /\ submitting' = FreeId
    /\ reqs' = reqs \cup {[Sent(FreeId, "update", editing, "on") EXCEPT !.bad = TRUE]}
    /\ UNCHANGED <<page, data, error, loading, toggling, formOpen, editing, rows, told>>

\* The page is left and opened again: its load is aborted, its mutations run on.
Reopen ==
    /\ MayAct
    /\ data' = None /\ error' = FALSE /\ loading' = TRUE /\ toggling' = None
    /\ formOpen' = FALSE /\ editing' = None /\ submitting' = 0
    /\ LET left == {q \in reqs : q.kind # "load" /\ q.status = "sent"} IN
         /\ reqs' = {[q EXCEPT !.heard = FALSE] : q \in left} \cup {Sent(FreeId, "load", None, "on")}
         /\ told' = IF patient THEN {q.row : q \in left} ELSE told
    /\ UNCHANGED <<page, rows>>

------------------------------------------------------------------------------
(* What answers do.                                                         *)

\* load(), called once more.
Reload(q) ==
    /\ loading' = TRUE
    /\ reqs' = (reqs \ {q}) \cup {Sent(q.id, "load", None, "on")}

\* An error is shown.  The request was refused or its answer lost, or the
\* client gave up on what is still to be served.
Fails(q) ==
    /\ told' = IF patient THEN told \cup {q.row} ELSE told
    /\ reqs' \in {reqs \ {q}, {IF r = q THEN [q EXCEPT !.heard = FALSE] ELSE r : r \in reqs}}
    /\ q.status = "ok" => reqs' = reqs \ {q}

\* Mutant: the error ends the load without finally.
LoadSettlesSpinning(q, ok) ==
    /\ q.kind = "load"
    /\ loading' = ~ok
    /\ data' = IF ok THEN q.table ELSE data
    /\ error' = IF ok THEN (page # "users" /\ error) ELSE TRUE
    /\ submitting' = submitting
    /\ reqs' = reqs \ {q}
    /\ UNCHANGED <<toggling, formOpen, editing, told>>

\* Only UsersPage forgets an error.  The form is mounted anew when the page
\* changes from the empty state to the table or back, or to the error.
LoadSettles(q, ok) ==
    /\ q.kind = "load"
    /\ loading' = FALSE
    /\ data' = IF ok THEN q.table ELSE data
    /\ error' = IF ok THEN (page # "users" /\ error) ELSE TRUE
    /\ submitting' = IF page # "users" /\ View' # View THEN 0 ELSE submitting
    /\ reqs' = reqs \ {q}
    /\ UNCHANGED <<toggling, formOpen, editing, told>>

\* Mutant: a toggle trusts its own click and does not load.
ToggleSettlesAlone(q, ok) ==
    /\ q.kind = "toggle"
    /\ toggling' = None
    /\ IF ok THEN reqs' = reqs \ {q} /\ UNCHANGED told ELSE Fails(q)
    /\ UNCHANGED <<data, error, loading, formOpen, editing, submitting>>

\* toggle() of ServersPage and PromptsPage after the await.
ToggleSettles(q, ok) ==
    /\ q.kind = "toggle"
    /\ toggling' = None
    /\ IF ok THEN Reload(q) /\ UNCHANGED told
             ELSE Fails(q) /\ UNCHANGED loading
    /\ UNCHANGED <<data, error, formOpen, editing, submitting>>

\* remove() after the await.
RemoveSettles(q, ok) ==
    /\ q.kind = "remove"
    /\ IF ok THEN Reload(q) /\ UNCHANGED told
             ELSE Fails(q) /\ UNCHANGED loading
    /\ UNCHANGED <<data, error, toggling, formOpen, editing, submitting>>

\* onSubmit, or onCreate, after the await: it closes the form that is open,
\* which need not be the one that was sent.
CreateSettles(q, ok) ==
    /\ q.kind = "create"
    /\ submitting' = IF page = "users" \/ submitting = q.id THEN 0 ELSE submitting
    /\ IF ok THEN Reload(q) /\ formOpen' = FALSE /\ UNCHANGED told
             ELSE Fails(q) /\ UNCHANGED <<loading, formOpen>>
    /\ UNCHANGED <<data, error, toggling, editing>>

\* onEdit after the await, which never succeeds.
UpdateSettles(q) ==
    /\ q.kind = "update"
    /\ submitting' = 0
    /\ Fails(q)
    /\ UNCHANGED <<data, error, loading, toggling, formOpen, editing>>

Settle(q, ok) ==
    /\ q.heard
    /\ UNCHANGED <<page, rows, others, patient, acts>>
    /\ \/ LoadSettles(q, ok) \/ ToggleSettles(q, ok) \/ RemoveSettles(q, ok)
       \/ CreateSettles(q, ok) \/ (~ok /\ UpdateSettles(q))

Hear(q) == q.status = "ok" /\ Settle(q, TRUE)
GiveUp(q) == Settle(q, FALSE)

------------------------------------------------------------------------------
\* Another administrator, the command line, discovery.
Foreign(n) ==
    /\ \E m \in Marks \ {rows[n]} : rows' = [rows EXCEPT ![n] = m]
    /\ others' = IF patient THEN others \cup {n} ELSE others
    /\ UNCHANGED <<ui, reqs, told>>

Dialog == OpenForm \/ CloseForm \/ \E n \in Row : OpenEdit(n)

Act ==
    \/ \E n \in Row : Toggle(n) \/ Remove(n)
    \/ ServerForm \/ ToolCollectionForm \/ UserForm \/ Edit
    \/ Reopen

Init ==
    /\ page \in Page
    /\ rows \in [Row -> Marks]
    /\ data = None /\ error = FALSE /\ loading = TRUE /\ toggling = None
    /\ formOpen = FALSE /\ editing = None /\ submitting = 0
    /\ reqs = {Sent(1, "load", None, "on")}
    /\ told = {}
    /\ others = {}
    /\ patient \in BOOLEAN
    /\ acts = 0

Progress(q) == Serve(q) \/ Hear(q) \/ GiveUp(q)

Next ==
    \/ \E q \in reqs : Progress(q)
    \/ Dialog /\ UNCHANGED <<others, patient, acts>>
    \/ /\ acts < MaxActs /\ acts' = acts + 1
       /\ UNCHANGED patient
       /\ \/ Act /\ UNCHANGED others
          \/ \E n \in Row : Foreign(n)

Spec == Init /\ [][Next]_vars

\* Every request settles within the client's timeout.
FairSpec == Spec /\ WF_vars(\E q \in reqs : Progress(q))

------------------------------------------------------------------------------
(* Properties.                                                             *)

\* Every variable keeps its shape.
TypeOK ==
    /\ page \in Page /\ rows \in Table /\ data \in Table \cup {None}
    /\ error \in BOOLEAN /\ loading \in BOOLEAN
    /\ toggling \in Row \cup {None}
    /\ formOpen \in BOOLEAN /\ editing \in Row \cup {None} /\ submitting \in 0..MaxReqs
    /\ reqs \subseteq Req
    /\ \A q, r \in reqs : q.id = r.id => q = r
    /\ told \subseteq Row /\ others \subseteq Row
    /\ patient \in BOOLEAN /\ acts \in 0..MaxActs

\* Who does one thing at a time and is alone sees in the table what the
\* gateway has told it, or was shown an error about the row: answers that got lost,
\* refusals that went half way and requests served after the client gave up
\* included (ServersPage.tsx and its siblings reload only after success).
ShownOrTold ==
    patient /\ reqs = {} /\ View \in {"table", "list", "figures"} =>
        \A n \in Row : Shown(n) = Served(rows)[n] \/ n \in told \cup others

\* No spinner, held switch or waiting form stays for ever: every handler ends
\* in its finally, whatever the gateway answers.
Settles == loading \/ toggling # None \/ submitting # 0
           ~> ~loading /\ toggling = None /\ submitting = 0
==============================================================================
