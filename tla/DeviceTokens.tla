----------------------------- MODULE DeviceTokens -----------------------------
(* Device tokens: how the gateway creates, revokes and deletes them, and the page
   on which an administrator makes them.  The secret of a token leaves the
   gateway once, and the page shows it once.  The rows of the list come with
   Go's field names, since model.DeviceToken has no JSON tags: the page reads
   neither ids nor statuses, only whether there are rows.                    *)
EXTENDS Naturals, FiniteSets

CONSTANTS
    Server,
    MaxToken,   \* bound on the tokens
    MaxActs,    \* bound on what the administrator and the others do
    None

ASSUME NoneAssumption == None \notin Server \cup Nat
ASSUME BoundsAssumption == MaxToken \in Nat \ {0} /\ MaxActs \in Nat

Token == 1..MaxToken
Table == {"empty", "filled"}

VARIABLES
    token,      \* device_tokens, by id; None for no row
    lastId,     \* the highest id ever given to a row
    data,       \* the table of the page
    error, loading, createOpen, submitting,
    createdToken, \* the token whose secret the page holds
    reqs,       \* requests in flight
    seen,       \* history: tokens whose secret was shown
    told,       \* history: tokens in whose place an error was shown
    patient,    \* the administrator acts when nothing is awaited
    acts

server == <<token, lastId>>
form == <<createOpen, submitting, createdToken>>
view == <<data, error, loading, form>>
vars == <<server, view, reqs, seen, told, patient, acts>>

TokenRow == [ready : BOOLEAN, status : {"active", "revoked"},
             scope : {"inherit_all", "restricted"}, granted : SUBSET Server]

Req == [kind : {"load", "create", "remove"}, heard : BOOLEAN,
        step : {"sent", "inserted", "saved", "ok"},
        id : Token \cup {None}, scope : {"inherit_all", "restricted"},
        asked : SUBSET Server, rows : Table \cup {None}]

Sent(kind) ==
    [kind |-> kind, heard |-> TRUE, step |-> "sent", id |-> None,
     scope |-> "inherit_all", asked |-> {}, rows |-> None]

Replace(q, r) == (reqs \ {q}) \cup {r}
\* The answer, if somebody waits for it.
Answered(q, r) == (reqs \ {q}) \cup (IF q.heard THEN {[r EXCEPT !.step = "ok"]} ELSE {})

------------------------------------------------------------------------------
(* The gateway.                                                             *)

Rows == {i \in Token : token[i] # None}

\* Mutant: an id is given again when its row is gone.
InsertReusing(q) ==
    /\ q.kind = "create" /\ q.step = "sent"
    /\ \E i \in Token :
         /\ token[i] = None /\ \A j \in Token : j < i => token[j] # None
         /\ token' = [token EXCEPT ![i] =
                [ready |-> FALSE, status |-> "active", scope |-> q.scope, granted |-> {}]]
         /\ reqs' = Replace(q, [q EXCEPT !.step = "inserted", !.id = i])
         /\ lastId' = IF i > lastId THEN i ELSE lastId
         /\ told' = IF q.heard \/ ~patient THEN told ELSE told \cup {i}
    /\ UNCHANGED seen

\* Create, first part: the row is there before it has a secret.
Insert(q) ==
    /\ q.kind = "create" /\ q.step = "sent" /\ lastId < MaxToken
    /\ lastId' = lastId + 1
    /\ token' = [token EXCEPT ![lastId'] =
           [ready |-> FALSE, status |-> "active", scope |-> q.scope, granted |-> {}]]
    /\ reqs' = Replace(q, [q EXCEPT !.step = "inserted", !.id = lastId'])
    /\ told' = IF q.heard \/ ~patient THEN told ELSE told \cup {lastId'}
    /\ UNCHANGED seen

\* Second part: Save writes every column of the row it has in memory, status
\* included, and inserts the row again if it is gone.
Save(q) ==
    /\ q.kind = "create" /\ q.step = "inserted"
    /\ token' = [token EXCEPT ![q.id] =
           [ready |-> TRUE, status |-> "active", scope |-> q.scope, granted |-> {}]]
    /\ reqs' = Replace(q, [q EXCEPT !.step = "saved"])
    /\ UNCHANGED <<lastId, seen, told>>

\* Third part: the grants of a restricted token.
Grant(q) ==
    /\ q.kind = "create" /\ q.step = "saved"
    /\ token' = IF token[q.id] = None THEN token
                ELSE [token EXCEPT ![q.id].granted =
                        IF q.scope = "restricted" THEN q.asked ELSE {}]
    /\ reqs' = Answered(q, q)
    /\ UNCHANGED <<lastId, seen, told>>

List(q) ==
    /\ q.kind = "load" /\ q.step = "sent"
    /\ reqs' = Answered(q, [q EXCEPT !.rows = IF Rows = {} THEN "empty" ELSE "filled"])
    /\ UNCHANGED <<server, seen, told>>

\* The removal the page asks for names no id: a bad request.
Serve(q) ==
    Insert(q) \/ Save(q) \/ Grant(q) \/ List(q)

------------------------------------------------------------------------------
(* The page.                                                                *)

\* The spinner comes back while the table is empty, and an error hides all.
View ==
    IF loading /\ data = "empty" THEN "spin"
    ELSE IF error THEN "alert" ELSE "page"

\* The secret on the screen.
Displayed == IF View = "page" /\ createdToken # None THEN {createdToken} ELSE {}

Awaited == {q \in reqs : q.heard}
MayAct == patient => Awaited = {}

\* The page is left and opened again: its load is aborted, and it loads.
Reopen ==
    /\ MayAct
    /\ data' = "empty" /\ error' = FALSE /\ loading' = TRUE
    /\ createOpen' = FALSE /\ submitting' = FALSE /\ createdToken' = None
    /\ reqs' = {[q EXCEPT !.heard = FALSE] :
                  q \in {q \in reqs : q.kind # "load" /\ q.step # "ok"}}
               \cup {Sent("load")}

\* The dialog with the secret covers the page.
Reachable == View = "page" /\ createdToken = None

OpenCreate ==
    /\ Reachable /\ ~createOpen
    /\ createOpen' = TRUE
    /\ UNCHANGED <<data, error, loading, submitting, createdToken, reqs>>

\* Cancel works also while the form waits.
CloseCreate ==
    /\ Reachable /\ createOpen
    /\ createOpen' = FALSE
    /\ UNCHANGED <<data, error, loading, submitting, createdToken, reqs>>

\* onCreate up to its await.  A restricted token may ask for nothing: a comma
\* satisfies the form.
Create(scope, asked) ==
    /\ Reachable /\ createOpen /\ ~submitting /\ MayAct
    /\ scope = "inherit_all" => asked = {}
    /\ submitting' = TRUE
    /\ reqs' = reqs \cup {[Sent("create") EXCEPT !.scope = scope, !.asked = asked]}
    /\ UNCHANGED <<data, error, loading, createOpen, createdToken>>

\* A row offers its removal.  It would offer to revoke an active token, but has
\* no status the page can read.
RemoveRow ==
    /\ Reachable /\ ~createOpen /\ ~loading /\ data = "filled" /\ MayAct
    /\ reqs' = reqs \cup {Sent("remove")}
    /\ UNCHANGED view

Dismiss ==
    /\ View = "page" /\ createdToken # None
    /\ createdToken' = None
    /\ UNCHANGED <<data, error, loading, createOpen, submitting, reqs>>

------------------------------------------------------------------------------
(* What answers do.                                                         *)

Told(i) == IF patient /\ i # None THEN told \cup {i} ELSE told

\* An error is shown.  The request was refused or its answer lost, or the
\* client gave up on what the gateway goes on with.
Fails(q) ==
    /\ reqs' \in {reqs \ {q}, Replace(q, [q EXCEPT !.heard = FALSE])}
    /\ q.step = "ok" => reqs' = reqs \ {q}
    /\ told' = Told(q.id)

\* Mutant: the table is set whatever came back.
LoadSettlesAnyhow(q, ok) ==
    /\ q.kind = "load"
    /\ loading' = FALSE /\ error' = ~ok /\ data' = q.rows
    /\ UNCHANGED form
    /\ reqs' = reqs \ {q}
    /\ seen' = seen \cup Displayed'
    /\ told' = IF ok THEN told ELSE Told(createdToken)

\* load() after its await.  Its error takes the place of the dialog.
LoadSettles(q, ok) ==
    /\ q.kind = "load"
    /\ loading' = FALSE /\ error' = ~ok
    /\ data' = IF ok THEN q.rows ELSE data
    /\ UNCHANGED form
    /\ reqs' = reqs \ {q}
    /\ seen' = seen \cup Displayed'
    /\ told' = IF ok THEN told ELSE Told(createdToken)

Reload(q) == loading' = TRUE /\ reqs' = Replace(q, Sent("load"))

\* Mutant: the secret is only taken while the form is open.
CreateSettlesIfOpen(q, ok) ==
    /\ q.kind = "create"
    /\ submitting' = FALSE
    /\ UNCHANGED <<data, error>>
    /\ IF ok
       THEN /\ createdToken' = IF createOpen THEN q.id ELSE createdToken
            /\ createOpen' = FALSE
            /\ Reload(q)
            /\ seen' = seen \cup Displayed'
            /\ UNCHANGED told
       ELSE Fails(q) /\ UNCHANGED <<createdToken, createOpen, loading, seen>>

\* onCreate after its await.  The secret and the spinner of the load are drawn
\* together, and on an empty table the spinner alone.
CreateSettles(q, ok) ==
    /\ q.kind = "create"
    /\ submitting' = FALSE
    /\ UNCHANGED <<data, error>>
    /\ IF ok
       THEN /\ createdToken' = q.id
            /\ createOpen' = FALSE
            /\ Reload(q)
            /\ seen' = seen \cup Displayed'
            /\ UNCHANGED told
       ELSE Fails(q) /\ UNCHANGED <<createdToken, createOpen, loading, seen>>

\* remove() after its await, which never succeeds.
RemoveSettles(q) ==
    /\ q.kind = "remove"
    /\ Fails(q)
    /\ UNCHANGED <<view, seen>>

Settle(q, ok) ==
    /\ q.heard
    /\ LoadSettles(q, ok) \/ CreateSettles(q, ok) \/ (~ok /\ RemoveSettles(q))
    /\ UNCHANGED server

Hear(q) == q.step = "ok" /\ Settle(q, TRUE)
GiveUp(q) == Settle(q, FALSE)

\* A handler stops between two steps, with an error nobody waits for: nothing
\* undoes the steps before.
Drop(q) ==
    /\ ~q.heard
    /\ reqs' = reqs \ {q}
    /\ UNCHANGED <<server, view, seen, told>>

------------------------------------------------------------------------------
\* Another client of the API, which knows the ids.
Revoke(i) == token' = [token EXCEPT ![i].status = "revoked"]
Delete(i) == token' = [token EXCEPT ![i] = None]

Foreign ==
    /\ \E i \in Rows : Revoke(i) \/ Delete(i)
    /\ UNCHANGED <<lastId, reqs, seen, told>>

Act ==
    \/ Reopen
    \/ \E s \in {"inherit_all", "restricted"}, a \in SUBSET Server : Create(s, a)
    \/ RemoveRow

Dialog == OpenCreate \/ CloseCreate \/ Dismiss

Init ==
    /\ token \in [Token -> {None, [ready |-> TRUE, status |-> "active",
                                   scope |-> "inherit_all", granted |-> {}]}]
    /\ \A i \in Token : i > 1 => token[i] = None
    /\ lastId = 1
    /\ data = "empty" /\ error = FALSE /\ loading = TRUE
    /\ createOpen = FALSE /\ submitting = FALSE /\ createdToken = None
    /\ reqs = {Sent("load")}
    /\ seen = {} /\ told = {}
    /\ patient \in BOOLEAN
    /\ acts = 0

Next ==
    \/ \E q \in reqs : /\ \/ Serve(q) /\ UNCHANGED view
                          \/ Hear(q) \/ GiveUp(q) \/ Drop(q)
                       /\ UNCHANGED <<patient, acts>>
    \/ Dialog /\ UNCHANGED <<server, seen, told, patient, acts>>
    \/ /\ acts < MaxActs /\ acts' = acts + 1
       /\ UNCHANGED patient
       /\ \/ Act /\ UNCHANGED <<server, seen, told>>
          \/ Foreign /\ UNCHANGED view

Spec == Init /\ [][Next]_vars

------------------------------------------------------------------------------
(* Properties.                                                             *)

\* Every variable keeps its shape.
TypeOK ==
    /\ token \in [Token -> TokenRow \cup {None}]
    /\ lastId \in Token
    /\ data \in Table
    /\ error \in BOOLEAN /\ loading \in BOOLEAN
    /\ createOpen \in BOOLEAN /\ submitting \in BOOLEAN
    /\ createdToken \in Token \cup {None}
    /\ reqs \subseteq Req
    /\ seen \subseteq Token /\ told \subseteq Token
    /\ patient \in BOOLEAN /\ acts \in 0..MaxActs

\* No token works that nobody can use or was warned of: who waits has seen the
\* secret of every working token of this tab, or in its place an error, of its
\* creation or of the load that hides it, or an answer is still to come, whatever
\* is cancelled, lost or revoked meanwhile (DeviceTokensPage.tsx, onCreate and
\* load).  Token 1 may be older than the tab.
SecretSeenOrTold ==
    patient => \A i \in Rows \ {1} :
        token[i].ready /\ token[i].status = "active" =>
            \/ i \in seen \cup told
            \/ \E q \in reqs : q.kind = "create" /\ q.id = i
            \/ createdToken = i /\ loading

\* What was revoked or deleted stays so, once the creation of the token is over:
\* until then its last Save may bring the row back.  No id is given twice, and
\* no late request revives a row (devicetoken/service.go, Create and Revoke).
RevokedForGood ==
    [][\A i \in 1..lastId :
          /\ token[i] = None \/ token[i].status = "revoked"
          /\ ~\E q \in reqs : q.kind = "create" /\ q.id = i
          => token'[i] = None \/ token'[i].status = "revoked"]_vars
==============================================================================
