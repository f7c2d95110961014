--------------------------- MODULE PermissionGroups ---------------------------
(* Permission groups: the tables of the gateway, the access they grant, and the
   page on which an administrator edits them, with its list, its two forms and
   its drawer, while other clients of the API edit the same groups.  Members and
   services of a group are links of the same kind, soft-deleted and under a
   unique index that counts deleted rows.                                    *)
EXTENDS Naturals, FiniteSets

CONSTANTS
    Group, User, Server,
    MaxActs,    \* bound on what the administrator and the others do,
    MaxHaste,   \* and the lower one where the administrator does not wait
    MaxReqs,    \* one acts only with fewer requests in flight
    None

ASSUME NoneAssumption == None \notin Group \cup User \cup Server
ASSUME KindAssumption == User \cap Server = {}
ASSUME BoundsAssumption == MaxActs \in Nat /\ MaxHaste \in 0..MaxActs /\ MaxReqs \in Nat \ {0}

VARIABLES
    status,     \* permission_groups: none, active or disabled
    link,       \* members and services of a group: none, live or deleted
    groups,     \* the page's list, with the status of each group
    error,      \* a load of the list has failed
    loading,    \* the list is awaited
    createOpen, editTarget, submitting,
    asking,     \* the group whose Popconfirm asks whether to disable it
    detail,     \* what the drawer shows, None when it is closed
    detailLoading,
    picked,     \* addMemberId: the user selected in the drawer
    reqs,       \* requests in flight
    told,       \* history of the patient: groups about which an error was shown
    others,     \* and groups somebody else has changed
    patient,    \* the administrator acts when nothing is awaited
    acts

tables == <<status, link>>
list == <<groups, error, loading>>
forms == <<createOpen, editTarget, submitting, asking>>
drawer == <<detail, detailLoading, picked>>
history == <<others, patient, acts>>
vars == <<tables, list, forms, drawer, reqs, told, history>>

Entity == User \cup Server
GroupStatus == {"none", "active", "disabled"}
\* A row of the list, and the answer to the drawer's question.
GroupList == [Group -> GroupStatus]
Detail == [group : Group, status : GroupStatus, links : SUBSET Entity]

Req == [id : 0..(2 * MaxActs + 1), heard : BOOLEAN, answer : {"sent", "ok"},
        kind : {"load", "detail", "create", "update", "disable", "add", "remove"},
        group : Group \cup {None}, entity : Entity \cup {None}, drawn : BOOLEAN,
        list : GroupList \cup {None}, detail : Detail \cup {None}]

------------------------------------------------------------------------------
(* The gateway.                                                             *)

Members(g) == {x \in Entity : link[g][x] = "live"}

GetGroup(g) == [group |-> g, status |-> status[g], links |-> Members(g)]

CreateGroup(g) ==
    /\ status[g] = "none"
    /\ status' = [status EXCEPT ![g] = "active"]
    /\ UNCHANGED link

\* Mutant: the row of the edit form is written back whole.
UpdateGroupWhole(g) == status' = [status EXCEPT ![g] = "active"] /\ UNCHANGED link

\* Only name and description are written, whatever the form was opened on.
UpdateGroup(g) == UNCHANGED tables

DisableGroup(g) ==
    /\ status' = [status EXCEPT ![g] = IF status[g] = "none" THEN "none" ELSE "disabled"]
    /\ UNCHANGED link

\* AddMember and AddService: FirstOrCreate does not see a deleted row, and the
\* unique index refuses a second one.
AddLink(g, x) ==
    /\ link[g][x] # "deleted"
    /\ link' = [link EXCEPT ![g][x] = "live"]
    /\ UNCHANGED status

\* RemoveMember and RemoveService.
RemoveLink(g, x) ==
    /\ link[g][x] = "live"
    /\ link' = [link EXCEPT ![g][x] = "deleted"]
    /\ UNCHANGED status

\* UserEffectiveServices: it joins the links without looking at deleted_at.
ServicesThrough(u, g) ==
    IF status[g] = "active" /\ link[g][u] # "none"
    THEN {s \in Server : link[g][s] # "none"}
    ELSE {}

UserEffectiveServices(u) == UNION {ServicesThrough(u, g) : g \in Group}

Carry(q) ==
    \/ q.kind = "create" /\ CreateGroup(q.group)
    \/ q.kind = "update" /\ UpdateGroup(q.group)
    \/ q.kind = "disable" /\ DisableGroup(q.group)
    \/ q.kind = "add" /\ AddLink(q.group, q.entity)
    \/ q.kind = "remove" /\ RemoveLink(q.group, q.entity)

\* The answer, if the client still waits for it.
Answered(q, l, d) ==
    reqs' = (reqs \ {q}) \cup
              (IF q.heard THEN {[q EXCEPT !.answer = "ok", !.list = l, !.detail = d]} ELSE {})

Serve(q) ==
    /\ q.answer = "sent"
    /\ \/ q.kind = "load" /\ Answered(q, status, None) /\ UNCHANGED tables
       \/ q.kind = "detail" /\ Answered(q, None, GetGroup(q.group)) /\ UNCHANGED tables
       \/ Carry(q) /\ Answered(q, None, None)
    /\ UNCHANGED <<list, forms, drawer, told, history>>

------------------------------------------------------------------------------
(* The page.                                                                *)

Listed == {g \in Group : groups[g] # "none"}

View == IF loading /\ Listed = {} THEN "spin" ELSE IF error THEN "alert" ELSE "page"

Waiting == {q \in reqs : q.heard}

\* The id of what an act sends; the next one is for what its answer may send.
NewId == 2 * (acts + 1)

MayAct == Cardinality(reqs) < MaxReqs /\ (patient => Waiting = {})

Sent(i, kind, g, x) ==
    [id |-> i, kind |-> kind, group |-> g, entity |-> x, drawn |-> FALSE, heard |-> TRUE,
     answer |-> "sent", list |-> None, detail |-> None]

\* A dialog, an open drawer and the spinner of the table cover the rows.
RowsReachable ==
    View = "page" /\ ~loading /\ ~createOpen /\ editTarget = None /\ detail = None

\* The drawer shows a skeleton instead of its controls while it loads.
DrawerReachable ==
    View = "page" /\ detail # None /\ ~detailLoading /\ ~createOpen /\ editTarget = None

\* The users that may be added, by what the drawer shows; the page has loaded
\* them by then.
AvailableUsers == User \ detail.links

\* No server comes with an id, so none can be added.
AvailableServers == {}

OpenCreate ==
    /\ View = "page" /\ detail = None /\ editTarget = None
    /\ createOpen' = TRUE
    /\ UNCHANGED <<editTarget, submitting, asking, drawer, reqs>>

\* The name may be taken, which only the gateway knows.
Create(g) ==
    /\ View = "page" /\ createOpen /\ ~submitting /\ MayAct
    /\ submitting' = TRUE
    /\ reqs' = reqs \cup {Sent(NewId, "create", g, None)}
    /\ UNCHANGED <<createOpen, editTarget, asking, drawer>>

OpenEdit(g) ==
    /\ RowsReachable /\ g \in Listed
    /\ editTarget' = g
    /\ UNCHANGED <<createOpen, submitting, asking, drawer, reqs>>

\* A waiting form holds its button, but not the Enter in the one input of this.
Edit ==
    /\ View = "page" /\ editTarget # None /\ MayAct
    /\ submitting' = TRUE
    /\ reqs' = reqs \cup {Sent(NewId, "update", editTarget, None)}
    /\ UNCHANGED <<createOpen, editTarget, asking, drawer>>

\* Cancel of either form, also while it waits.
CloseForms ==
    /\ View = "page" /\ (createOpen \/ editTarget # None)
    /\ createOpen' = FALSE /\ editTarget' = None
    /\ UNCHANGED <<submitting, asking, drawer, reqs>>

\* The Popconfirm of a row is offered for an active group, and stays above a
\* drawer that opens meanwhile.
AskDisable(g) ==
    /\ RowsReachable /\ groups[g] = "active"
    /\ asking' = g
    /\ UNCHANGED <<createOpen, editTarget, submitting, drawer, reqs>>

OnDisable ==
    /\ View = "page" /\ asking # None /\ MayAct
    /\ asking' = None
    /\ reqs' = reqs \cup {[Sent(NewId, "disable", asking, None) EXCEPT
                             !.drawn = (detail # None /\ detail.group = asking)]}
    /\ UNCHANGED <<createOpen, editTarget, submitting, drawer>>

OpenDetail(g) ==
    /\ RowsReachable /\ g \in Listed /\ MayAct
    /\ detailLoading' = TRUE
    /\ reqs' = reqs \cup {Sent(NewId, "detail", g, None)}
    /\ UNCHANGED <<forms, detail, picked>>

\* The drawer is closed by its mask, also while it loads; the selection stays.
CloseDetail ==
    /\ View = "page" /\ detail # None
    /\ detail' = None
    /\ UNCHANGED <<forms, detailLoading, picked, reqs>>

Pick(u) ==
    /\ DrawerReachable /\ u \in AvailableUsers
    /\ picked' = u
    /\ UNCHANGED <<forms, detail, detailLoading, reqs>>

HandleAddMember ==
    /\ DrawerReachable /\ picked # None /\ MayAct
    /\ reqs' = reqs \cup {Sent(NewId, "add", detail.group, picked)}
    /\ UNCHANGED <<forms, drawer>>

HandleRemoveMember(u) ==
    /\ DrawerReachable /\ u \in detail.links \cap User /\ MayAct
    /\ reqs' = reqs \cup {Sent(NewId, "remove", detail.group, u)}
    /\ UNCHANGED <<forms, drawer>>

HandleRemoveService(s) ==
    /\ DrawerReachable /\ s \in detail.links \cap Server /\ MayAct
    /\ reqs' = reqs \cup {Sent(NewId, "remove", detail.group, s)}
    /\ UNCHANGED <<forms, drawer>>

------------------------------------------------------------------------------
(* What answers do.  ok: there is an answer, and it is no error.            *)

\* An error is shown.  The request was refused or its answer lost, or the
\* client gave up on what is still to be served.
Fails(q) ==
    /\ told' = IF patient THEN told \cup {q.group} ELSE told
    /\ reqs' \in {reqs \ {q}, {IF r = q THEN [q EXCEPT !.heard = FALSE] ELSE r : r \in reqs}}
    /\ q.answer = "ok" \/ q.kind = "detail" => reqs' = reqs \ {q}

\* Mutant: the list is taken from an error as well.
LoadSettlesAnyhow(q, ok) ==
    /\ q.kind = "load"
    /\ loading' = FALSE
    /\ groups' = q.list
    /\ error' = (error \/ ~ok)
    /\ reqs' = reqs \ {q}
    /\ UNCHANGED <<forms, drawer, told>>

\* load() of the list.
LoadSettles(q, ok) ==
    /\ q.kind = "load"
    /\ loading' = FALSE
    /\ groups' = IF ok THEN q.list ELSE groups
    /\ error' = (error \/ ~ok)
    /\ reqs' = reqs \ {q}
    /\ UNCHANGED <<forms, drawer, told>>

\* Mutant: an error leaves the drawer loading.
DetailSettlesLoading(q, ok) ==
    /\ q.kind = "detail"
    /\ IF ok THEN /\ detail' = q.detail
                  /\ detailLoading' = FALSE
                  /\ reqs' = reqs \ {q}
                  /\ UNCHANGED told
             ELSE Fails(q) /\ UNCHANGED <<detail, detailLoading>>
    /\ UNCHANGED <<list, forms, picked>>

\* openDetail after its await: it opens the drawer on what was asked, also
\* when it was closed or another group was asked for meanwhile.
DetailSettles(q, ok) ==
    /\ q.kind = "detail"
    /\ detailLoading' = FALSE
    /\ IF ok THEN detail' = q.detail /\ reqs' = reqs \ {q} /\ UNCHANGED told
             ELSE Fails(q) /\ UNCHANGED detail
    /\ UNCHANGED <<list, forms, picked>>

\* onCreate after its await.
CreateSettles(q, ok) ==
    /\ q.kind = "create"
    /\ submitting' = FALSE
    /\ IF ok THEN /\ createOpen' = FALSE
                  /\ loading' = TRUE
                  /\ reqs' = (reqs \ {q}) \cup {Sent(q.id, "load", None, None)}
                  /\ UNCHANGED told
             ELSE Fails(q) /\ UNCHANGED <<createOpen, loading>>
    /\ UNCHANGED <<groups, error, editTarget, asking, drawer>>

\* onEdit after its await.
UpdateSettles(q, ok) ==
    /\ q.kind = "update"
    /\ submitting' = FALSE
    /\ IF ok THEN /\ editTarget' = None
                  /\ loading' = TRUE
                  /\ reqs' = (reqs \ {q}) \cup {Sent(q.id, "load", None, None)}
                  /\ UNCHANGED told
             ELSE Fails(q) /\ UNCHANGED <<editTarget, loading>>
    /\ UNCHANGED <<groups, error, createOpen, asking, drawer>>

\* onDisable after its await: the drawer is asked for again if it showed the
\* group when the administrator confirmed.
DisableSettles(q, ok) ==
    /\ q.kind = "disable"
    /\ IF ok THEN /\ loading' = TRUE
                  /\ detailLoading' = (detailLoading \/ q.drawn)
                  /\ reqs' = (reqs \ {q}) \cup {Sent(q.id, "load", None, None)} \cup
                       (IF q.drawn THEN {Sent(q.id + 1, "detail", q.group, None)} ELSE {})
                  /\ UNCHANGED told
             ELSE Fails(q) /\ UNCHANGED <<loading, detailLoading>>
    /\ UNCHANGED <<groups, error, forms, detail, picked>>

\* Mutant: the drawer is not asked for again.
RemoveSettlesAlone(q, ok) ==
    /\ q.kind = "remove"
    /\ IF ok THEN reqs' = reqs \ {q} /\ UNCHANGED told ELSE Fails(q)
    /\ UNCHANGED <<list, forms, drawer>>

\* The handlers of the drawer after their await: they ask again for the group
\* they were called on.
RemoveSettles(q, ok) ==
    /\ q.kind = "remove"
    /\ IF ok THEN /\ detailLoading' = TRUE
                  /\ reqs' = (reqs \ {q}) \cup {Sent(q.id, "detail", q.group, None)}
                  /\ UNCHANGED told
             ELSE Fails(q) /\ UNCHANGED detailLoading
    /\ UNCHANGED <<list, forms, detail, picked>>

AddSettles(q, ok) ==
    /\ q.kind = "add"
    /\ IF ok THEN /\ picked' = None
                  /\ detailLoading' = TRUE
                  /\ reqs' = (reqs \ {q}) \cup {Sent(q.id, "detail", q.group, None)}
                  /\ UNCHANGED told
             ELSE Fails(q) /\ UNCHANGED <<detailLoading, picked>>
    /\ UNCHANGED <<list, forms, detail>>

Settle(q, ok) ==
    /\ q.heard
    /\ \/ LoadSettles(q, ok) \/ DetailSettles(q, ok) \/ CreateSettles(q, ok)
       \/ UpdateSettles(q, ok) \/ DisableSettles(q, ok) \/ AddSettles(q, ok)
       \/ RemoveSettles(q, ok)
    /\ UNCHANGED <<tables, history>>

Hear(q) == q.answer = "ok" /\ Settle(q, TRUE)
GiveUp(q) == Settle(q, FALSE)

------------------------------------------------------------------------------
\* Another client of the API.
Foreign(g) ==
    /\ status[g] # "none"
    /\ DisableGroup(g) \/ \E x \in Entity : AddLink(g, x) \/ RemoveLink(g, x)
    /\ others' = IF patient THEN others \cup {g} ELSE others
    /\ UNCHANGED <<list, forms, drawer, reqs, told>>

Dialog ==
    \/ OpenCreate \/ CloseForms \/ CloseDetail
    \/ \E g \in Group : OpenEdit(g) \/ AskDisable(g)
    \/ \E u \in User : Pick(u)

Act ==
    \/ OnDisable \/ Edit \/ HandleAddMember
    \/ \E g \in Group : Create(g) \/ OpenDetail(g)
    \/ \E u \in User : HandleRemoveMember(u)
    \/ \E s \in Server : HandleRemoveService(s)

Init ==
    /\ status \in [Group -> {"none", "active"}]
    /\ \E full \in SUBSET {g \in Group : status[g] = "active"} :
         link = [g \in Group |-> [x \in Entity |-> IF g \in full THEN "live" ELSE "none"]]
    /\ groups = [g \in Group |-> "none"]
    /\ error = FALSE /\ loading = TRUE
    /\ createOpen = FALSE /\ editTarget = None /\ submitting = FALSE /\ asking = None
    /\ detail = None /\ detailLoading = FALSE /\ picked = None
    /\ reqs = {Sent(0, "load", None, None)}
    /\ told = {} /\ others = {}
    /\ patient \in BOOLEAN
    /\ acts = 0

Progress(q) == Serve(q) \/ Hear(q) \/ GiveUp(q)

Next ==
    \/ \E q \in reqs : Progress(q)
    \/ Dialog /\ UNCHANGED <<tables, list, told, history>>
    \/ /\ acts < (IF patient THEN MaxActs ELSE MaxHaste)
       /\ acts' = acts + 1
       /\ UNCHANGED patient
       /\ \/ Act /\ UNCHANGED <<tables, list, told, others>>
          \/ \E g \in Group : Foreign(g)

Spec == Init /\ [][Next]_vars

\* Every request settles within the client's timeout.
FairSpec == Spec /\ WF_vars(\E q \in reqs : Progress(q))

------------------------------------------------------------------------------
(* Properties.                                                             *)

\* Every variable keeps its shape.
TypeOK ==
    /\ status \in [Group -> GroupStatus]
    /\ link \in [Group -> [Entity -> {"none", "live", "deleted"}]]
    /\ groups \in GroupList
    /\ error \in BOOLEAN /\ loading \in BOOLEAN
    /\ createOpen \in BOOLEAN /\ editTarget \in Group \cup {None}
    /\ submitting \in BOOLEAN /\ asking \in Group \cup {None}
    /\ detail \in Detail \cup {None} /\ detailLoading \in BOOLEAN
    /\ picked \in User \cup {None}
    /\ reqs \subseteq Req
    /\ \A q, r \in reqs : q.id = r.id => q = r
    /\ told \subseteq Group \cup {None} /\ others \subseteq Group
    /\ patient \in BOOLEAN /\ acts \in 0..MaxActs

\* What an administrator who waits reads in list and drawer is what the tables
\* hold, but for groups about which an error was shown or that somebody else
\* has changed: every handler asks again for what it has changed, and a request
\* the client gave up on may still be served (PermissionGroupsPage.tsx).
ShownOrTold ==
    patient /\ reqs = {} /\ View = "page" =>
        /\ \A g \in Group \ (told \cup others) : groups[g] = status[g]
        /\ detail # None /\ detail.group \notin told \cup others =>
              detail = GetGroup(detail.group)

\* A disabled group grants nothing ever after: no edit, from however old a
\* form, no late request and no new link brings it back (permission/service.go).
DisabledForGood ==
    [][\A g \in Group : status[g] = "disabled" =>
          status'[g] = "disabled" /\ \A u \in User : ServicesThrough(u, g)' = {}]_vars

\* No spinner, skeleton or waiting form stays for ever, whatever the gateway
\* answers and however the administrator clicks on (PermissionGroupsPage.tsx).
Settles == loading \/ detailLoading \/ submitting ~> ~loading /\ ~detailLoading /\ ~submitting

\* What the comment on RemoveService says: it revokes the group's access.
RemovalRevokes ==
    \A g \in Group, s \in Server :
        link[g][s] = "deleted" => \A u \in User : s \notin ServicesThrough(u, g)
==============================================================================
