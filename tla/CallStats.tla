------------------------------ MODULE CallStats ------------------------------
(* The call counters: a counted row for each user, server and day, written by
   calls that run side by side, and the two pages that add the rows up.  Users
   are deleted for good while their device tokens go on calling, and their
   names may be given again.                                                *)
EXTENDS Integers, FiniteSets, FiniteSetsExt

CONSTANTS
    Account,    \* users, by id
    Name, Server,
    MaxCallers, \* calls at a time
    MaxCalls, MaxDay, MaxVisits,    \* bounds on calls, days and pages opened
    Week, Month,\* days the ranges reach back
    None

ASSUME NoneAssumption == None \notin Name
ASSUME BoundsAssumption ==
    {MaxCallers, MaxCalls, MaxDay, MaxVisits} \subseteq Nat /\ MaxCallers > 0
ASSUME FiniteAssumption == IsFiniteSet(Account) /\ IsFiniteSet(Server)
ASSUME RangeAssumption == Week \in Nat \ {0} /\ Month \in Nat /\ Month >= Week + 2

VARIABLES
    name,       \* of each account; None before it is created and after its deletion
    stat,       \* user_call_stats: the count of each key, 0 for no row
    calls,      \* tool calls that are being recorded
    made,       \* history: calls of each key whose recording has begun
    begun,      \* all of them, which MaxCalls bounds
    failed,     \* history: calls of each key that an error of the database lost
    bore,       \* history: the name an account has or had
    today,      \* the day, as both the gateway and the browser count in UTC
    page, me,   \* the open page, and the name of who is logged in
    rows, error, loading, range,
    shift,      \* what a change of the clocks does to the first day of a range
    req,        \* the request of the open page
    visits

tables == <<name, stat, bore>>
shownVars == <<page, me, rows, error, loading, range, shift, req, visits>>
vars == <<tables, calls, made, begun, failed, today, shownVars>>

Day == 0..MaxDay
Key == Account \X Server \X Day
\* A row of the answer.  of tells rows apart that are equal otherwise.
CallStat == [date : Day, username : Name \cup {None}, server : Server,
             count : 1..MaxCalls, of : Account]
Call == [id : 1..MaxCallers, key : Key, found : {"unknown", "row", "none"}]
Req == [state : {"none", "sent", "ok"}, answer : SUBSET CallStat]
Ranges == {"today", "7d", "30d"}

Asked == [state |-> "sent", answer |-> {}]

------------------------------------------------------------------------------
(* The gateway.                                                             *)

\* recordUserCall up to the answer of First.
Begin(a, s) ==
    /\ Cardinality(calls) < MaxCallers
    /\ begun < MaxCalls /\ begun' = begun + 1
    /\ bore[a] # None
    /\ LET k == <<a, s, today>> IN
         /\ made' = [made EXCEPT ![k] = @ + 1]
         /\ \E i \in 1..MaxCallers :
              /\ \A c \in calls : c.id # i
              /\ \A j \in 1..(i - 1) : \E c \in calls : c.id = j
              /\ calls' = calls \cup {[id |-> i, key |-> k, found |-> "unknown"]}
    /\ UNCHANGED <<tables, failed>>

First(c) ==
    /\ c.found = "unknown"
    /\ calls' = (calls \ {c}) \cup
                  {[c EXCEPT !.found = IF stat[c.key] = 0 THEN "none" ELSE "row"]}
    /\ UNCHANGED <<tables, made, begun, failed>>

\* Mutant: an upsert writes the first count over whatever the row holds.
CreateRowOver(c) ==
    /\ c.found = "none"
    /\ stat' = [stat EXCEPT ![c.key] = 1]
    /\ calls' = calls \ {c}
    /\ UNCHANGED <<name, bore, made, begun, failed>>

\* Create: the unique index refuses a second row, and nobody tries again.
CreateRow(c) ==
    /\ c.found = "none"
    /\ stat' = [stat EXCEPT ![c.key] = IF @ = 0 THEN 1 ELSE @]
    /\ calls' = calls \ {c}
    /\ UNCHANGED <<name, bore, made, begun, failed>>

\* Update: the database adds one, to whatever the row holds by now.
Increment(c) ==
    /\ c.found = "row"
    /\ stat' = [stat EXCEPT ![c.key] = @ + 1]
    /\ calls' = calls \ {c}
    /\ UNCHANGED <<name, bore, made, begun, failed>>

\* Errors of the database are ignored.
Ignore(c) ==
    /\ calls' = calls \ {c}
    /\ failed' = [failed EXCEPT ![c.key] = @ + 1]
    /\ UNCHANGED <<tables, made, begun>>

\* Names are unique among the users there are.
CreateUser(a, n) ==
    /\ bore[a] = None /\ \A b \in Account : name[b] # n
    /\ name' = [name EXCEPT ![a] = n]
    /\ bore' = [bore EXCEPT ![a] = n]
    /\ UNCHANGED <<stat, calls, made, begun, failed>>

\* The row is removed, not marked; tokens and counts stay.
DeleteUser(a) ==
    /\ name[a] # None
    /\ name' = [name EXCEPT ![a] = None]
    /\ UNCHANGED <<stat, bore, calls, made, begun, failed>>

\* ListCallStats.  The left join leaves the name of a deleted user empty.
ListCallStats ==
    {[date |-> k[3], username |-> name[k[1]], server |-> k[2], count |-> stat[k], of |-> k[1]] :
       k \in {k \in Key : stat[k] > 0}}

Record(c) == First(c) \/ CreateRow(c) \/ Increment(c) \/ Ignore(c)

\* The answer to the page.
Serve ==
    /\ req.state = "sent"
    /\ req' = [state |-> "ok", answer |-> ListCallStats]
    /\ UNCHANGED <<page, me, rows, error, loading, range, shift, visits>>

------------------------------------------------------------------------------
(* The pages.                                                               *)

\* A page is opened and asks for the rows; the request of the page before it
\* is aborted.  Who is logged in may be any user there is.
Visit(p, n) ==
    /\ visits < MaxVisits /\ visits' = visits + 1
    /\ n \in {name[a] : a \in Account} \ {None}
    /\ page' = p /\ me' = n
    /\ rows' = {} /\ error' = FALSE /\ loading' = TRUE /\ range' = "7d"
    /\ req' = Asked
    /\ UNCHANGED shift

\* Mutant: the page of one user keeps everybody's rows.
KeptAll(answer) == answer

\* Only the rows of who is logged in stay on the page of one user.
Kept(answer) == IF page = "mine" THEN {r \in answer : r.username = me} ELSE answer

\* Mutant: the rows are taken from an error as well.
LoadSettlesAnyhow(ok) ==
    /\ req.state # "none"
    /\ loading' = FALSE /\ error' = ~ok
    /\ rows' = IF ok THEN Kept(req.answer) ELSE {None}
    /\ req' = [state |-> "none", answer |-> {}]
    /\ UNCHANGED <<page, me, range, shift, visits>>

LoadSettles(ok) ==
    /\ req.state # "none"
    /\ loading' = FALSE /\ error' = ~ok
    /\ rows' = IF ok THEN Kept(req.answer) ELSE rows
    /\ req' = [state |-> "none", answer |-> {}]
    /\ UNCHANGED <<page, me, range, shift, visits>>

Hear == req.state = "ok" /\ LoadSettles(TRUE)
\* The request was refused, or its answer lost or too late.
GiveUp == LoadSettles(FALSE)

View == IF loading THEN "spin" ELSE IF error THEN "alert" ELSE "page"

\* The rows of a range.  The first day is reckoned in local time and written in
\* UTC, so that a change of the clocks in between may move it.
Since(r, t, moved) == IF r = "7d" THEN t - Week + moved ELSE t - Month + moved
Filtered(r, t, moved) ==
    IF r = "today" THEN {x \in rows : x.date = t}
    ELSE {x \in rows : x.date >= Since(r, t, moved)}

\* Choosing a range renders the page, whose clock may have been put on.
ChooseRange(r) ==
    /\ page = "mine" /\ View = "page"
    /\ range' = r
    /\ shift' \in {-1, 0, 1}
    /\ UNCHANGED <<page, me, rows, error, loading, req, visits>>

Count(S) == MapThenSumSet(LAMBDA x : x.count, S)
ByUser(S) == [n \in {x.username : x \in S} |-> Count({x \in S : x.username = n})]
ByServer(S) == [s \in {x.server : x \in S} |-> Count({x \in S : x.server = s})]
ByDate(S) == [d \in {x.date : x \in S} |-> Count({x \in S : x.date = d})]

------------------------------------------------------------------------------

Init ==
    /\ \E a \in Account, n \in Name :
         name = [b \in Account |-> IF b = a THEN n ELSE None]
    /\ bore = name
    /\ stat = [k \in Key |-> 0]
    /\ calls = {}
    /\ made = [k \in Key |-> 0] /\ begun = 0 /\ failed = [k \in Key |-> 0]
    /\ today = 0
    /\ page = "all" /\ me \in {name[a] : a \in Account} \ {None}
    /\ rows = {} /\ error = FALSE /\ loading = TRUE /\ range = "7d" /\ shift = 0
    /\ req = Asked /\ visits = 0

Midnight ==
    /\ today < MaxDay
    /\ today' = today + 1
    /\ UNCHANGED <<tables, calls, made, begun, failed, shownVars>>

Next ==
    \/ /\ \/ \E a \in Account, s \in Server : Begin(a, s)
          \/ \E c \in calls : Record(c)
          \/ \E a \in Account, n \in Name : CreateUser(a, n)
          \/ \E a \in Account : DeleteUser(a)
       /\ UNCHANGED <<today, shownVars>>
    \/ /\ \/ Serve \/ Hear \/ GiveUp
          \/ \E p \in {"all", "mine"}, n \in Name : Visit(p, n)
          \/ \E r \in Ranges : ChooseRange(r)
       /\ UNCHANGED <<tables, calls, made, begun, failed, today>>
    \/ Midnight

Spec == Init /\ [][Next]_vars

------------------------------------------------------------------------------
(* Properties.                                                             *)

\* Every variable keeps its shape.
TypeOK ==
    /\ name \in [Account -> Name \cup {None}] /\ bore \in [Account -> Name \cup {None}]
    /\ stat \in [Key -> 0..MaxCalls]
    /\ calls \subseteq Call
    /\ \A c, d \in calls : c.id = d.id => c = d
    /\ made \in [Key -> 0..begun] /\ failed \in [Key -> 0..begun] /\ begun \in 0..MaxCalls
    /\ today \in Day
    /\ page \in {"all", "mine"} /\ me \in Name
    /\ rows \subseteq CallStat
    /\ error \in BOOLEAN /\ loading \in BOOLEAN
    /\ range \in Ranges /\ shift \in {-1, 0, 1}
    /\ req \in Req
    /\ visits \in 0..MaxVisits

Pending(k) == Cardinality({c \in calls : c.key = k})

\* No call is counted twice, and but for errors of the database only those are
\* lost that raced for the first row of the day, fewer than there are calls at
\* a time (proxy.go, recordUserCall).
CountsCalls ==
    \A k \in Key :
        /\ stat[k] + Pending(k) + failed[k] <= made[k]
        /\ made[k] <= stat[k] + Pending(k) + failed[k] + MaxCallers - 1

\* The calls of K made by accounts that had the name, or are gone for none.
MadeBy(n, K) ==
    MapThenSumSet(LAMBDA k : made[k],
        {k \in K : IF n = None THEN name[k[1]] = None ELSE bore[k[1]] = n})

\* What either page adds up for a user, a server or a day are calls of accounts
\* that had the name, or were deleted where it shows none, whoever is deleted,
\* named again or counted meanwhile; my page shows mine only, and a longer
\* range no less, however a change of the clocks moves the first day of each
\* (user.go, ListCallStats; StatsPage.tsx and MyStatsPage.tsx).
ShownMade ==
    View = "page" =>
        /\ \A n \in DOMAIN ByUser(rows) : ByUser(rows)[n] <= MadeBy(n, Key)
        /\ page = "mine" =>
             LET Of(r) == Filtered(r, today, shift) IN
               /\ \A x \in DOMAIN ByServer(Of(range)) :
                    ByServer(Of(range))[x] <= MadeBy(me, {k \in Key : k[2] = x})
               /\ \A d \in DOMAIN ByDate(Of(range)) :
                    ByDate(Of(range))[d] <= MadeBy(me, {k \in Key : k[3] = d})
               /\ \A m, n \in {-1, 0, 1} :
                    /\ Count(Of("today")) <= Count(Filtered("7d", today, m))
                    /\ Count(Filtered("7d", today, m)) <= Count(Filtered("30d", today, n))
==============================================================================
