----------------------- MODULE PermissionGroups_proofs -----------------------
(* Proofs about permission groups: for any groups, users and servers, however *)
(* old the forms and late the requests, a disabled group never grants again;  *)
(* every variable keeps its shape; and what a patient administrator reads is  *)
(* what the tables hold, unless an error was shown.                           *)
EXTENDS PermissionGroups, TLAPS

StatusTyped == status \in [Group -> GroupStatus]

\* Whatever a group is asked for, a disabled one stays so.
StatusStep ==
    /\ StatusTyped'
    /\ \A g \in Group : status[g] = "disabled" => status'[g] = "disabled"

LEMMA CarryKeeps == ASSUME StatusTyped, NEW q, Carry(q) PROVE StatusStep
<1>1. CASE CreateGroup(q.group)
  BY <1>1 DEF CreateGroup, StatusTyped, StatusStep, GroupStatus
<1>2. CASE DisableGroup(q.group)
  BY <1>2 DEF DisableGroup, StatusTyped, StatusStep, GroupStatus
<1>3. CASE UNCHANGED status
  BY <1>3 DEF StatusTyped, StatusStep
<1> QED
  BY <1>1, <1>2, <1>3 DEF Carry, UpdateGroup, AddLink, RemoveLink, tables

LEMMA NextStep == ASSUME StatusTyped, [Next]_vars PROVE StatusStep
<1>1. CASE UNCHANGED status
  BY <1>1 DEF StatusTyped, StatusStep
<1>2. ASSUME NEW q \in reqs, Serve(q) PROVE StatusStep
  BY <1>1, <1>2, CarryKeeps DEF Serve, tables
<1>3. ASSUME NEW q \in reqs, Hear(q) \/ GiveUp(q) PROVE StatusStep
  BY <1>1, <1>3 DEF Hear, GiveUp, Settle, tables
<1>4. ASSUME NEW g \in Group, Foreign(g) PROVE StatusStep
  <2>1. CASE DisableGroup(g)
    BY <2>1 DEF DisableGroup, StatusTyped, StatusStep, GroupStatus
  <2> QED
    BY <1>1, <1>4, <2>1 DEF Foreign, AddLink, RemoveLink
<1> QED
  BY <1>1, <1>2, <1>3, <1>4 DEF Next, Progress, vars, tables

LEMMA AlwaysStatusTyped == Spec => []StatusTyped
<1>1. Init => StatusTyped
  BY DEF Init, StatusTyped, GroupStatus
<1>2. StatusTyped /\ [Next]_vars => StatusTyped'
  BY NextStep DEF StatusStep
<1> QED
  BY <1>1, <1>2, PTL DEF Spec

\* A group that was disabled grants nothing ever after, whatever form, request
\* or other client touches it (permission/service.go; PermissionGroupsPage.tsx).
THEOREM DisabledStays == Spec => DisabledForGood
<1>1. StatusTyped /\ [Next]_vars =>
        [\A g \in Group : status[g] = "disabled" =>
            status'[g] = "disabled" /\ \A u \in User : ServicesThrough(u, g)' = {}]_vars
  BY NextStep DEF StatusStep, ServicesThrough
<1> QED
  BY <1>1, AlwaysStatusTyped, PTL DEF Spec, DisabledForGood
------------------------------------------------------------------------------
(* The page and what it has asked for.                                       *)

\* What a request is about, and what its answer holds.
Shaped(q) ==
    /\ q.kind # "load" => q.group \in Group
    /\ q.kind \in {"add", "remove"} => q.entity \in Entity
    /\ q.kind \in {"load", "detail"} => q.heard
    /\ q.kind = "load" /\ q.answer = "ok" => q.list \in GroupList
    /\ q.kind = "detail" /\ q.answer = "ok" => q.detail \in Detail /\ q.detail.group = q.group
    /\ q.drawn => q.kind = "disable"

\* Nobody else has an id the request may still give away.
ReqsOK ==
    /\ \A q \in reqs : Shaped(q) /\ q.id <= 2 * acts + 1 /\ (q.drawn => q.id <= 2 * acts)
    /\ \A q, r \in reqs : q.drawn => r.id # q.id + 1

Created(g) == status[g] # "none"

\* The page knows of created groups only.
Known ==
    /\ \A g \in Group : groups[g] # "none" => Created(g)
    /\ detail # None => Created(detail.group)
    /\ \A q \in reqs :
         /\ q.kind = "load" /\ q.answer = "ok" =>
               \A g \in Group : q.list[g] # "none" => Created(g)
         /\ q.kind \in {"detail", "add", "remove"} \/ q.drawn => Created(q.group)

Page == TypeOK /\ ReqsOK /\ Known

\* The parts of TypeOK a step of the network leaves alone.
ReqsTyped ==
    /\ reqs \subseteq Req
    /\ \A q, r \in reqs : q.id = r.id => q = r

LEMMA ReqFields ==
    ASSUME NEW q \in Req
    PROVE  /\ q.id \in Nat /\ q.heard \in BOOLEAN /\ q.answer \in {"sent", "ok"}
           /\ q.kind \in {"load", "detail", "create", "update", "disable", "add", "remove"}
           /\ q.group \in Group \cup {None} /\ q.entity \in Entity \cup {None}
           /\ q.drawn \in BOOLEAN
BY BoundsAssumption DEF Req

\* A request leaves.
LEMMA Gone ==
    ASSUME ReqsTyped, ReqsOK, reqs' \subseteq reqs, acts \in Nat, acts' \in Nat, acts <= acts'
    PROVE  ReqsTyped' /\ ReqsOK'
<1>1. \A q \in reqs : q.id \in Nat
  BY ReqFields DEF ReqsTyped
<1>2. ReqsTyped'
  BY DEF ReqsTyped
<1>3. \A q \in reqs' : Shaped(q) /\ q.id <= 2 * acts' + 1 /\ (q.drawn => q.id <= 2 * acts')
  BY <1>1 DEF ReqsOK
<1> QED
  BY <1>2, <1>3 DEF ReqsOK

\* A request, its answer, or what is sent on its answer takes its place.
LEMMA Replaced ==
    ASSUME ReqsTyped, ReqsOK, NEW q \in reqs, NEW a \in Req, Shaped(a), a.id = q.id,
           a.drawn => q.drawn, reqs' = (reqs \ {q}) \cup {a}, acts' = acts
    PROVE  ReqsTyped' /\ ReqsOK'
<1>1. ReqsTyped'
  BY DEF ReqsTyped
<1>2. \A r \in reqs' : Shaped(r) /\ r.id <= 2 * acts' + 1 /\ (r.drawn => r.id <= 2 * acts')
  BY DEF ReqsOK
<1>3. \A x, y \in reqs' : x.drawn => y.id # x.id + 1
  BY DEF ReqsOK
<1> QED
  BY <1>1, <1>2, <1>3 DEF ReqsOK

\* The answer to a disabling sends two.
LEMMA Doubled ==
    ASSUME ReqsTyped, ReqsOK, NEW q \in reqs, q.drawn,
           NEW a \in Req, Shaped(a), a.id = q.id, ~a.drawn,
           NEW b \in Req, Shaped(b), b.id = q.id + 1, ~b.drawn,
           acts \in Nat,
           reqs' = (reqs \ {q}) \cup {a, b}, acts' = acts
    PROVE  ReqsTyped' /\ ReqsOK'
<1>1. \A r \in reqs : r.id \in Nat
  BY ReqFields DEF ReqsTyped
<1>2. \A r \in reqs : r.id # q.id + 1
  BY DEF ReqsOK
<1>3. ReqsTyped'
  BY <1>2 DEF ReqsTyped
<1>4. \A r \in reqs' : Shaped(r) /\ r.id <= 2 * acts' + 1 /\ (r.drawn => r.id <= 2 * acts')
  BY <1>1 DEF ReqsOK
<1>5. ASSUME NEW x \in reqs', NEW y \in reqs', x.drawn PROVE y.id # x.id + 1
  BY <1>1, <1>2, <1>5 DEF ReqsOK, ReqsTyped
<1> QED
  BY <1>3, <1>4, <1>5 DEF ReqsOK

\* A request on its way.
IsSent(n, i, kind, g) ==
    /\ n \in Req /\ Shaped(n) /\ n.id = i /\ n.kind = kind /\ n.group = g
    /\ n.heard /\ n.answer = "sent" /\ ~n.drawn

LEMMA SentFields ==
    ASSUME NEW i \in 0..(2 * MaxActs + 1), NEW g \in Group \cup {None},
           NEW x \in Entity \cup {None},
           NEW kind \in {"load", "detail", "create", "update", "disable", "add", "remove"},
           kind # "load" => g \in Group, kind \in {"add", "remove"} => x \in Entity,
           NEW n, n = Sent(i, kind, g, x)
    PROVE  IsSent(n, i, kind, g)
<1>1. /\ n.id = i /\ n.kind = kind /\ n.group = g /\ n.entity = x /\ n.heard
      /\ n.answer = "sent" /\ ~n.drawn
  BY DEF Sent
<1>2. n \in Req
  BY DEF Sent, Req
<1> QED
  BY <1>1, <1>2 DEF Shaped, IsSent

\* An act sends a request.
LEMMA Asked ==
    ASSUME ReqsTyped, ReqsOK, acts \in 0..MaxActs, acts' \in 0..MaxActs, acts' = acts + 1,
           NEW n \in Req, Shaped(n), n.id = NewId, reqs' = reqs \cup {n}
    PROVE  ReqsTyped' /\ ReqsOK'
<1>1. \A r \in reqs : r.id \in Nat /\ r.id < n.id
  BY ReqFields DEF ReqsTyped, ReqsOK, NewId
<1>2. ReqsTyped'
  BY <1>1 DEF ReqsTyped
<1>3. \A r \in reqs' : Shaped(r) /\ r.id <= 2 * acts' + 1 /\ (r.drawn => r.id <= 2 * acts')
  BY <1>1 DEF ReqsOK, NewId
<1>4. ASSUME NEW x \in reqs', NEW y \in reqs', x.drawn PROVE y.id # x.id + 1
  <2>1. CASE x \in reqs /\ y \in reqs
    BY <1>4, <2>1 DEF ReqsOK
  <2>2. CASE x \in reqs /\ y = n
    BY <1>1, <1>4, <2>2 DEF ReqsOK, NewId
  <2>3. CASE x = n
    BY <1>1, <2>3 DEF NewId
  <2> QED
    BY <2>1, <2>2, <2>3
<1> QED
  BY <1>2, <1>3, <1>4 DEF ReqsOK

------------------------------------------------------------------------------
(* What the gateway does for a request.                                      *)

TablesTyped ==
    /\ status \in [Group -> GroupStatus]
    /\ link \in [Group -> [Entity -> {"none", "live", "deleted"}]]

\* Only the group it is about changes, and none is forgotten.
ChangesOnly(h) ==
    /\ TablesTyped'
    /\ \A g \in Group : Created(g) => Created(g)'
    /\ \A g \in Group : g # h => status'[g] = status[g] /\ link'[g] = link[g]

LEMMA TablesSame == ASSUME TablesTyped, UNCHANGED tables, NEW h PROVE ChangesOnly(h)
BY DEF tables, TablesTyped, ChangesOnly, Created

LEMMA DisableChanges ==
    ASSUME TablesTyped, NEW h \in Group, DisableGroup(h)
    PROVE  ChangesOnly(h)
BY DEF DisableGroup, TablesTyped, ChangesOnly, Created, GroupStatus

LEMMA LinkChanges ==
    ASSUME TablesTyped, NEW h \in Group, NEW x \in Entity, AddLink(h, x) \/ RemoveLink(h, x)
    PROVE  ChangesOnly(h)
<1>1. PICK v \in {"live", "deleted"} : link' = [link EXCEPT ![h][x] = v]
  BY DEF AddLink, RemoveLink
<1>2. status' = status
  BY DEF AddLink, RemoveLink
<1>3. link[h] \in [Entity -> {"none", "live", "deleted"}]
  BY DEF TablesTyped
<1>4. [link[h] EXCEPT ![x] = v] \in [Entity -> {"none", "live", "deleted"}]
  BY <1>3
<1>5. link' = [link EXCEPT ![h] = [link[h] EXCEPT ![x] = v]]
  BY <1>1
<1>6. link' \in [Group -> [Entity -> {"none", "live", "deleted"}]]
  BY <1>4, <1>5 DEF TablesTyped
<1>7. \A g \in Group : g # h => link'[g] = link[g]
  BY <1>5 DEF TablesTyped
<1> QED
  BY <1>2, <1>6, <1>7 DEF ChangesOnly, TablesTyped, Created

LEMMA CarryChanges ==
    ASSUME TablesTyped, NEW q \in Req, Shaped(q), Carry(q)
    PROVE  /\ ChangesOnly(q.group)
           /\ q.kind \in {"create", "update", "disable", "add", "remove"}
           /\ q.kind = "create" => ~Created(q.group)
           /\ q.kind = "update" => UNCHANGED tables
<1>1. CASE q.kind = "create" /\ CreateGroup(q.group)
  BY <1>1 DEF CreateGroup, TablesTyped, ChangesOnly, Created, GroupStatus
<1>2. CASE q.kind = "update" /\ UpdateGroup(q.group)
  BY <1>2, TablesSame DEF UpdateGroup
<1>3. CASE q.kind = "disable" /\ DisableGroup(q.group)
  BY <1>3, DisableChanges DEF Shaped
<1>4. CASE \/ q.kind = "add" /\ AddLink(q.group, q.entity)
           \/ q.kind = "remove" /\ RemoveLink(q.group, q.entity)
  BY <1>4, LinkChanges DEF Shaped
<1> QED
  BY <1>1, <1>2, <1>3, <1>4 DEF Carry

\* The answer a to q.
Answers(q, a) ==
    /\ a.id = q.id /\ a.heard = q.heard /\ a.kind = q.kind /\ a.group = q.group
    /\ a.entity = q.entity /\ a.drawn = q.drawn /\ a.answer = "ok"
    /\ q.kind = "load" => a.list = status
    /\ q.kind = "detail" => a.detail = GetGroup(q.group)

LEMMA GetGroupType ==
    ASSUME TablesTyped, NEW g \in Group
    PROVE  GetGroup(g) \in Detail /\ GetGroup(g).group = g /\ GetGroup(g).status = status[g]
BY DEF GetGroup, Detail, Members, TablesTyped

LEMMA Served ==
    ASSUME TablesTyped, NEW q \in Req, Shaped(q), Serve(q)
    PROVE  /\ ChangesOnly(q.group)
           /\ q.kind \in {"load", "detail", "update"} => UNCHANGED tables
           /\ q.kind = "create" => ~Created(q.group)
           /\ q.answer = "sent"
           /\ UNCHANGED <<list, forms, drawer, told, history>>
           /\ \/ ~q.heard /\ reqs' = reqs \ {q}
              \/ /\ q.heard
                 /\ \E a \in Req : Shaped(a) /\ Answers(q, a) /\ reqs' = (reqs \ {q}) \cup {a}
<1> DEFINE new(l, d) == [q EXCEPT !.answer = "ok", !.list = l, !.detail = d]
<1>1. ASSUME NEW l \in GroupList \cup {None}, NEW d \in Detail \cup {None}, Answered(q, l, d),
             q.kind = "load" => l = status, q.kind = "detail" => d = GetGroup(q.group)
      PROVE  \/ ~q.heard /\ reqs' = reqs \ {q}
             \/ /\ q.heard
                /\ \E a \in Req : Shaped(a) /\ Answers(q, a) /\ reqs' = (reqs \ {q}) \cup {a}
  <2>1. new(l, d) \in Req
    BY DEF Req
  <2>2. /\ new(l, d).answer = "ok" /\ new(l, d).list = l /\ new(l, d).detail = d
        /\ new(l, d).id = q.id /\ new(l, d).heard = q.heard /\ new(l, d).kind = q.kind
        /\ new(l, d).group = q.group /\ new(l, d).entity = q.entity
        /\ new(l, d).drawn = q.drawn
    BY DEF Req
  <2>3. Answers(q, new(l, d))
    BY <1>1, <2>2 DEF Answers
  <2>4. q.kind = "detail" => GetGroup(q.group) \in Detail /\ GetGroup(q.group).group = q.group
    BY GetGroupType DEF Shaped
  <2>5. Shaped(new(l, d))
    BY <1>1, <2>2, <2>4 DEF Shaped, TablesTyped, GroupList
  <2>6. CASE q.heard
    <3>1. reqs' = (reqs \ {q}) \cup {new(l, d)}
      BY <1>1, <2>6 DEF Answered
    <3> QED
      BY <2>1, <2>3, <2>5, <2>6, <3>1
  <2>7. CASE ~q.heard
    BY <1>1, <2>7 DEF Answered
  <2> QED
    BY <2>6, <2>7
<1>2. q.answer = "sent" /\ UNCHANGED <<list, forms, drawer, told, history>>
  BY DEF Serve
<1>3. CASE q.kind = "load" /\ Answered(q, status, None) /\ UNCHANGED tables
  <2>1. status \in GroupList
    BY DEF TablesTyped, GroupList
  <2> QED
    BY <1>1, <1>2, <1>3, <2>1, TablesSame
<1>4. CASE q.kind = "detail" /\ Answered(q, None, GetGroup(q.group)) /\ UNCHANGED tables
  <2>1. GetGroup(q.group) \in Detail
    BY <1>4, GetGroupType DEF Shaped
  <2> QED
    BY <1>1, <1>2, <1>4, <2>1, TablesSame
<1>5. CASE Carry(q) /\ Answered(q, None, None)
  BY <1>1, <1>2, <1>5, CarryChanges
<1> QED
  BY <1>3, <1>4, <1>5 DEF Serve

\* The page's own variables.
PageTyped ==
    /\ groups \in GroupList
    /\ error \in BOOLEAN /\ loading \in BOOLEAN
    /\ createOpen \in BOOLEAN /\ editTarget \in Group \cup {None}
    /\ submitting \in BOOLEAN /\ asking \in Group \cup {None}
    /\ detail \in Detail \cup {None} /\ detailLoading \in BOOLEAN
    /\ picked \in User \cup {None}
    /\ told \subseteq Group \cup {None} /\ others \subseteq Group
    /\ patient \in BOOLEAN /\ acts \in 0..MaxActs

LEMMA TypeParts == TypeOK <=> TablesTyped /\ ReqsTyped /\ PageTyped
BY DEF TypeOK, TablesTyped, ReqsTyped, PageTyped

LEMMA TypePartsNext == TypeOK' <=> TablesTyped' /\ ReqsTyped' /\ PageTyped'
BY DEF TypeOK, TablesTyped, ReqsTyped, PageTyped

LEMMA ServeKeepsPage ==
    ASSUME Page, NEW q \in reqs, Serve(q)
    PROVE  Page'
<1>1. TablesTyped /\ ReqsTyped /\ PageTyped /\ ReqsOK /\ Known /\ q \in Req /\ Shaped(q)
  BY TypeParts DEF Page, ReqsTyped, ReqsOK
<1>2. /\ ChangesOnly(q.group)
      /\ UNCHANGED <<list, forms, drawer, told, history>>
      /\ \/ ~q.heard /\ reqs' = reqs \ {q}
         \/ /\ q.heard
            /\ \E a \in Req : Shaped(a) /\ Answers(q, a) /\ reqs' = (reqs \ {q}) \cup {a}
  BY <1>1, Served
<1>3. PageTyped' /\ acts' = acts /\ acts \in Nat /\ groups' = groups /\ detail' = detail
  BY <1>1, <1>2 DEF PageTyped, list, forms, drawer, history
<1>4. TablesTyped' /\ \A g \in Group : Created(g) => Created(g)'
  BY <1>2 DEF ChangesOnly
<1>5. \A g \in Group : groups[g] # "none" => Created(g)'
  BY <1>1, <1>4 DEF Known
<1>6. detail # None => Created(detail.group)'
  BY <1>1, <1>3, <1>4 DEF Known, PageTyped, Detail
<1>7. ASSUME NEW r \in reqs
      PROVE  /\ r.kind = "load" /\ r.answer = "ok" =>
                   \A g \in Group : r.list[g] # "none" => Created(g)'
             /\ r.kind \in {"detail", "add", "remove"} \/ r.drawn => Created(r.group)'
  <2>1. r.kind \in {"detail", "add", "remove"} \/ r.drawn => r.group \in Group
    BY <1>1 DEF ReqsOK, Shaped
  <2> QED
    BY <1>1, <1>4, <2>1 DEF Known
<1>8. CASE ~q.heard /\ reqs' = reqs \ {q}
  <2>1. ReqsTyped' /\ ReqsOK'
    BY <1>1, <1>3, <1>8, Gone
  <2>2. Known'
    BY <1>3, <1>5, <1>6, <1>7, <1>8 DEF Known
  <2> QED
    BY <1>3, <1>4, <2>1, <2>2, TypePartsNext DEF Page
<1>9. CASE \E a \in Req : Shaped(a) /\ Answers(q, a) /\ reqs' = (reqs \ {q}) \cup {a}
  <2>1. PICK a \in Req : Shaped(a) /\ Answers(q, a) /\ reqs' = (reqs \ {q}) \cup {a}
    BY <1>9
  <2>2. ReqsTyped' /\ ReqsOK'
    BY <1>1, <1>3, <2>1, Replaced DEF Answers
  <2>3. /\ a.kind = "load" => \A g \in Group : a.list[g] # "none" => Created(g)'
        /\ a.kind \in {"detail", "add", "remove"} \/ a.drawn => Created(a.group)'
    BY <1>4, <1>7, <2>1 DEF Answers, Created
  <2>4. Known'
    BY <1>3, <1>5, <1>6, <1>7, <2>1, <2>3 DEF Known
  <2> QED
    BY <1>3, <1>4, <2>2, <2>4, TypePartsNext DEF Page
<1> QED
  BY <1>2, <1>8, <1>9

------------------------------------------------------------------------------
(* What the page does about the end of a request.                            *)

\* The client has given up on a that was q.
Abandoned(q, a) ==
    /\ a \in Req /\ Shaped(a) /\ ~a.heard /\ a.id = q.id /\ a.kind = q.kind /\ a.group = q.group
    /\ a.drawn = q.drawn

\* It shows an error,
Refused(q) ==
    /\ q.kind # "load"
    /\ told' = IF patient THEN told \cup {q.group} ELSE told
    /\ UNCHANGED <<groups, error, detail>>
    /\ \/ reqs' = reqs \ {q}
       \/ q.kind # "detail" /\ \E a : Abandoned(q, a) /\ reqs' = (reqs \ {q}) \cup {a}

\* takes the list,
Loaded(q, ok) ==
    /\ q.kind = "load"
    /\ IF ok THEN groups' = q.list /\ error' = error ELSE groups' = groups /\ error' = TRUE
    /\ reqs' = reqs \ {q}
    /\ UNCHANGED <<detail, told>>

\* shows the group,
Drawn(q) ==
    /\ q.kind = "detail"
    /\ detail' = q.detail
    /\ reqs' = reqs \ {q}
    /\ UNCHANGED <<groups, error, told>>

\* or asks again for what has changed.
Followed(q) ==
    /\ UNCHANGED <<groups, error, detail, told>>
    /\ \/ /\ q.kind \in {"create", "update"} \/ (q.kind = "disable" /\ ~q.drawn)
          /\ \E n : IsSent(n, q.id, "load", None) /\ reqs' = (reqs \ {q}) \cup {n}
       \/ /\ q.drawn
          /\ \E n, m : /\ IsSent(n, q.id, "load", None) /\ IsSent(m, q.id + 1, "detail", q.group)
                       /\ reqs' = (reqs \ {q}) \cup {n, m}
       \/ /\ q.kind \in {"add", "remove"}
          /\ \E n : IsSent(n, q.id, "detail", q.group) /\ reqs' = (reqs \ {q}) \cup {n}

LEMMA Failed ==
    ASSUME NEW q \in Req, Shaped(q), q \in reqs, q.heard, Fails(q), q.kind # "load",
           UNCHANGED <<groups, error, detail>>
    PROVE  Refused(q)
<1> DEFINE a == [q EXCEPT !.heard = FALSE]
<1>1. CASE reqs' = reqs \ {q}
  BY <1>1 DEF Fails, Refused
<1>2. CASE reqs' = {IF r = q THEN a ELSE r : r \in reqs} /\ q.kind # "detail"
  <2>1. reqs' = (reqs \ {q}) \cup {a}
    BY <1>2
  <2>2. a \in Req /\ a.heard = FALSE /\ a.id = q.id /\ a.kind = q.kind /\ a.group = q.group
        /\ a.drawn = q.drawn /\ a.entity = q.entity
    BY DEF Req
  <2>3. Abandoned(q, a)
    BY <1>2, <2>2 DEF Abandoned, Shaped
  <2> QED
    BY <1>2, <2>1, <2>3 DEF Fails, Refused
<1> QED
  BY <1>1, <1>2 DEF Fails

LEMMA SentIs ==
    ASSUME NEW i \in 0..(2 * MaxActs + 1), NEW g \in Group
    PROVE  /\ IsSent(Sent(i, "load", None, None), i, "load", None)
           /\ IsSent(Sent(i, "detail", g, None), i, "detail", g)
<1>1. IsSent(Sent(i, "load", None, None), i, "load", None)
  BY SentFields
<1>2. IsSent(Sent(i, "detail", g, None), i, "detail", g)
  BY SentFields
<1> QED
  BY <1>1, <1>2

LEMMA Settled ==
    ASSUME Page, NEW q \in reqs, NEW ok \in BOOLEAN, Settle(q, ok), ok => q.answer = "ok"
    PROVE  /\ PageTyped' /\ UNCHANGED <<tables, history>> /\ q.heard
           /\ \/ Refused(q) \/ Loaded(q, ok)
              \/ q.answer = "ok" /\ (Drawn(q) \/ Followed(q))
<1>1. /\ TablesTyped /\ ReqsTyped /\ PageTyped /\ q \in Req /\ Shaped(q) /\ q.id \in Nat
      /\ q.id \in 0..(2 * MaxActs + 1) /\ acts \in Nat /\ acts <= MaxActs
      /\ q.drawn => q.id <= 2 * acts
  BY TypeParts, ReqFields, BoundsAssumption DEF Page, ReqsTyped, ReqsOK, PageTyped, Req
<1>2. /\ q.heard /\ UNCHANGED <<tables, history>>
      /\ others' = others /\ patient' = patient /\ acts' = acts
  BY DEF Settle, history
<1>3. q.kind # "load" => q.group \in Group
  BY <1>1 DEF Shaped
<1>4. ASSUME told' = told \/ told' = told \cup {q.group}
      PROVE  told' \subseteq Group \cup {None}
  BY <1>1, <1>4 DEF PageTyped, Req
<1>5. Fails(q) => told' = told \/ told' = told \cup {q.group}
  BY DEF Fails
<1>6. /\ IsSent(Sent(q.id, "load", None, None), q.id, "load", None)
      /\ q.kind # "load" => IsSent(Sent(q.id, "detail", q.group, None), q.id, "detail", q.group)
      /\ q.kind # "load" /\ q.drawn =>
           IsSent(Sent(q.id + 1, "detail", q.group, None), q.id + 1, "detail", q.group)
  <2>1. q.drawn => q.id + 1 \in 0..(2 * MaxActs + 1)
    BY <1>1, BoundsAssumption
  <2>2. IsSent(Sent(q.id, "load", None, None), q.id, "load", None)
    BY <1>1, SentFields
  <2> QED
    BY <1>1, <1>3, <2>1, <2>2, SentIs
<1>7. CASE LoadSettles(q, ok)
  <2>1. UNCHANGED <<forms, drawer, told>> /\ loading' = FALSE
    BY <1>7 DEF LoadSettles
  <2>2. Loaded(q, ok) /\ groups' \in GroupList /\ error' \in BOOLEAN
    BY <1>1, <1>7 DEF LoadSettles, Loaded, drawer, Shaped, PageTyped
  <2> QED
    BY <1>1, <1>2, <2>1, <2>2 DEF PageTyped, forms, drawer
<1>8. CASE DetailSettles(q, ok)
  <2>1. UNCHANGED <<list, forms, picked>> /\ detailLoading' = FALSE /\ q.kind = "detail"
    BY <1>8 DEF DetailSettles
  <2>2. CASE ok
    <3>1. Drawn(q) /\ detail' \in Detail /\ told' = told
      BY <1>1, <1>8, <2>1, <2>2 DEF DetailSettles, Drawn, list, Shaped
    <3> QED
      BY <1>1, <1>2, <2>1, <2>2, <3>1 DEF PageTyped, list, forms
  <2>3. CASE ~ok
    <3>1. Fails(q) /\ detail' = detail
      BY <1>8, <2>3 DEF DetailSettles
    <3>2. Refused(q)
      BY <1>1, <1>2, <2>1, <3>1, Failed DEF list
    <3> QED
      BY <1>1, <1>2, <1>4, <1>5, <2>1, <3>1, <3>2 DEF PageTyped, list, forms
  <2> QED
    BY <2>2, <2>3
<1>9. CASE CreateSettles(q, ok)
  <2>1. UNCHANGED <<groups, error, editTarget, asking, drawer>> /\ submitting' = FALSE
        /\ q.kind = "create"
    BY <1>9 DEF CreateSettles
  <2>2. CASE ok
    <3>1. createOpen' = FALSE /\ loading' = TRUE /\ told' = told
          /\ reqs' = (reqs \ {q}) \cup {Sent(q.id, "load", None, None)}
      BY <1>9, <2>2 DEF CreateSettles
    <3>2. \E n : IsSent(n, q.id, "load", None) /\ reqs' = (reqs \ {q}) \cup {n}
      BY <1>6, <3>1
    <3>3. Followed(q)
      BY <2>1, <3>1, <3>2 DEF Followed, drawer
    <3> QED
      BY <1>1, <1>2, <2>1, <2>2, <3>1, <3>3 DEF PageTyped, drawer
  <2>3. CASE ~ok
    <3>1. Fails(q) /\ createOpen' = createOpen /\ loading' = loading
      BY <1>9, <2>3 DEF CreateSettles
    <3>2. Refused(q)
      BY <1>1, <1>2, <2>1, <3>1, Failed DEF drawer
    <3> QED
      BY <1>1, <1>2, <1>4, <1>5, <2>1, <3>1, <3>2 DEF PageTyped, drawer
  <2> QED
    BY <2>2, <2>3
<1>10. CASE UpdateSettles(q, ok)
  <2>1. UNCHANGED <<groups, error, createOpen, asking, drawer>> /\ submitting' = FALSE
        /\ q.kind = "update"
    BY <1>10 DEF UpdateSettles
  <2>2. CASE ok
    <3>1. editTarget' = None /\ loading' = TRUE /\ told' = told
          /\ reqs' = (reqs \ {q}) \cup {Sent(q.id, "load", None, None)}
      BY <1>10, <2>2 DEF UpdateSettles
    <3>2. \E n : IsSent(n, q.id, "load", None) /\ reqs' = (reqs \ {q}) \cup {n}
      BY <1>6, <3>1
    <3>3. Followed(q)
      BY <2>1, <3>1, <3>2 DEF Followed, drawer
    <3> QED
      BY <1>1, <1>2, <2>1, <2>2, <3>1, <3>3 DEF PageTyped, drawer
  <2>3. CASE ~ok
    <3>1. Fails(q) /\ editTarget' = editTarget /\ loading' = loading
      BY <1>10, <2>3 DEF UpdateSettles
    <3>2. Refused(q)
      BY <1>1, <1>2, <2>1, <3>1, Failed DEF drawer
    <3> QED
      BY <1>1, <1>2, <1>4, <1>5, <2>1, <3>1, <3>2 DEF PageTyped, drawer
  <2> QED
    BY <2>2, <2>3
<1>11. CASE DisableSettles(q, ok)
  <2>1. UNCHANGED <<groups, error, forms, detail, picked>> /\ q.kind = "disable"
    BY <1>11 DEF DisableSettles
  <2>2. CASE ok
    <3>1. loading' = TRUE /\ detailLoading' \in BOOLEAN /\ told' = told
          /\ reqs' = (reqs \ {q}) \cup {Sent(q.id, "load", None, None)} \cup
                       (IF q.drawn THEN {Sent(q.id + 1, "detail", q.group, None)} ELSE {})
      BY <1>1, <1>11, <2>2 DEF DisableSettles, PageTyped
    <3>2. Followed(q)
      <4>1. CASE q.drawn
        <5>1. reqs' = (reqs \ {q}) \cup {Sent(q.id, "load", None, None),
                                         Sent(q.id + 1, "detail", q.group, None)}
          BY <3>1, <4>1
        <5> QED
          BY <1>6, <2>1, <3>1, <4>1, <5>1 DEF Followed
      <4>2. CASE ~q.drawn
        <5>1. reqs' = (reqs \ {q}) \cup {Sent(q.id, "load", None, None)}
          BY <3>1, <4>2
        <5> QED
          BY <1>6, <2>1, <3>1, <4>2, <5>1 DEF Followed
      <4> QED
        BY <4>1, <4>2
    <3> QED
      BY <1>1, <1>2, <2>1, <2>2, <3>1, <3>2 DEF PageTyped, forms
  <2>3. CASE ~ok
    <3>1. Fails(q) /\ loading' = loading /\ detailLoading' = detailLoading
      BY <1>11, <2>3 DEF DisableSettles
    <3>2. Refused(q)
      BY <1>1, <1>2, <2>1, <3>1, Failed
    <3> QED
      BY <1>1, <1>2, <1>4, <1>5, <2>1, <3>1, <3>2 DEF PageTyped, forms
  <2> QED
    BY <2>2, <2>3
<1>12. CASE AddSettles(q, ok) \/ RemoveSettles(q, ok)
  <2>1. /\ UNCHANGED <<list, forms, detail>> /\ q.kind \in {"add", "remove"}
        /\ picked' = None \/ picked' = picked
    BY <1>12 DEF AddSettles, RemoveSettles
  <2>2. CASE ok
    <3>1. detailLoading' = TRUE /\ told' = told
          /\ reqs' = (reqs \ {q}) \cup {Sent(q.id, "detail", q.group, None)}
      BY <1>12, <2>2 DEF AddSettles, RemoveSettles
    <3>2. Followed(q)
      BY <1>6, <2>1, <3>1 DEF Followed, list
    <3> QED
      BY <1>1, <1>2, <2>1, <2>2, <3>1, <3>2 DEF PageTyped, list, forms
  <2>3. CASE ~ok
    <3>1. Fails(q) /\ detailLoading' = detailLoading
      BY <1>12, <2>3 DEF AddSettles, RemoveSettles
    <3>2. Refused(q)
      BY <1>1, <1>2, <2>1, <3>1, Failed DEF list
    <3> QED
      BY <1>1, <1>2, <1>4, <1>5, <2>1, <3>1, <3>2 DEF PageTyped, list, forms
  <2> QED
    BY <2>2, <2>3
<1> QED
  BY <1>7, <1>8, <1>9, <1>10, <1>11, <1>12 DEF Settle

LEMMA SettleKeepsPage ==
    ASSUME Page, NEW q \in reqs, NEW ok \in BOOLEAN, Settle(q, ok), ok => q.answer = "ok"
    PROVE  Page'
<1>1. /\ TablesTyped /\ ReqsTyped /\ PageTyped /\ ReqsOK /\ Known /\ q \in Req /\ Shaped(q)
      /\ q.id \in Nat /\ acts \in Nat
      /\ q.drawn => q.kind = "disable"
  BY TypeParts, ReqFields, BoundsAssumption DEF Page, ReqsTyped, ReqsOK, PageTyped, Shaped
<1>2. /\ PageTyped' /\ status' = status /\ link' = link /\ acts' = acts
      /\ \/ Refused(q) \/ Loaded(q, ok)
         \/ q.answer = "ok" /\ (Drawn(q) \/ Followed(q))
  BY Settled DEF tables, history
<1>3. TablesTyped' /\ \A g : Created(g)' <=> Created(g)
  BY <1>1, <1>2 DEF TablesTyped, Created
<1>4. q.kind # "load" => q.group \in Group
  BY <1>1 DEF Shaped
<1>5. \A g \in Group : groups'[g] # "none" => Created(g)
  BY <1>1, <1>2 DEF Known, Refused, Loaded, Drawn, Followed
<1>6. detail' # None => Created(detail'.group)
  BY <1>1, <1>2 DEF Known, Refused, Loaded, Drawn, Followed, Shaped
<1>7. ASSUME /\ ReqsTyped' /\ ReqsOK'
             /\ \A r \in reqs' :
                  /\ r.kind = "load" /\ r.answer = "ok" =>
                        \A g \in Group : r.list[g] # "none" => Created(g)
                  /\ r.kind \in {"detail", "add", "remove"} \/ r.drawn => Created(r.group)
      PROVE  Page'
  BY <1>2, <1>3, <1>5, <1>6, <1>7, TypePartsNext DEF Page, Known, Created
<1>8. CASE reqs' = reqs \ {q}
  <2>1. ReqsTyped' /\ ReqsOK'
    BY <1>1, <1>2, <1>8, Gone
  <2> QED
    BY <1>1, <1>7, <1>8, <2>1 DEF Known
<1>9. ASSUME NEW n \in Req, Shaped(n), n.id = q.id, n.drawn => q.drawn,
             n.kind # "load" \/ n.answer = "sent",
             n.kind \in {"detail", "add", "remove"} \/ n.drawn => Created(n.group),
             reqs' = (reqs \ {q}) \cup {n}
      PROVE  Page'
  <2>1. ReqsTyped' /\ ReqsOK'
    BY <1>1, <1>2, <1>9, Replaced
  <2> QED
    BY <1>1, <1>7, <1>9, <2>1 DEF Known
<1>10. CASE \E a : Abandoned(q, a) /\ reqs' = (reqs \ {q}) \cup {a}
  <2>1. PICK a : Abandoned(q, a) /\ reqs' = (reqs \ {q}) \cup {a}
    BY <1>10
  <2>2. a.kind # "load"
    BY <2>1 DEF Abandoned, Shaped
  <2>3. a.kind \in {"detail", "add", "remove"} \/ a.drawn => Created(a.group)
    BY <1>1, <2>1 DEF Abandoned, Known
  <2> QED
    BY <1>9, <2>1, <2>2, <2>3 DEF Abandoned
<1>11. CASE \E n : IsSent(n, q.id, "load", None) /\ reqs' = (reqs \ {q}) \cup {n}
  <2>1. PICK n : IsSent(n, q.id, "load", None) /\ reqs' = (reqs \ {q}) \cup {n}
    BY <1>11
  <2> QED
    BY <1>9, <2>1 DEF IsSent
<1>12. CASE /\ q.kind \in {"add", "remove"}
            /\ \E n : IsSent(n, q.id, "detail", q.group) /\ reqs' = (reqs \ {q}) \cup {n}
  <2>1. PICK n : IsSent(n, q.id, "detail", q.group) /\ reqs' = (reqs \ {q}) \cup {n}
    BY <1>12
  <2>2. Created(q.group)
    BY <1>1, <1>12 DEF Known
  <2> QED
    BY <1>9, <2>1, <2>2 DEF IsSent
<1>13. CASE /\ q.drawn
            /\ \E n, m : /\ IsSent(n, q.id, "load", None)
                         /\ IsSent(m, q.id + 1, "detail", q.group)
                         /\ reqs' = (reqs \ {q}) \cup {n, m}
  <2>1. PICK n, m : /\ IsSent(n, q.id, "load", None) /\ IsSent(m, q.id + 1, "detail", q.group)
                    /\ reqs' = (reqs \ {q}) \cup {n, m}
    BY <1>13
  <2>2. Created(q.group)
    BY <1>1, <1>13 DEF Known
  <2>3. /\ n \in Req /\ Shaped(n) /\ n.id = q.id /\ ~n.drawn /\ n.kind = "load"
        /\ n.answer = "sent"
        /\ m \in Req /\ Shaped(m) /\ m.id = q.id + 1 /\ ~m.drawn /\ m.kind = "detail"
        /\ m.group = q.group
    BY <2>1 DEF IsSent
  <2>4. ReqsTyped' /\ ReqsOK'
    BY <1>1, <1>2, <1>13, <2>1, <2>3, Doubled
  <2> QED
    BY <1>1, <1>7, <2>1, <2>2, <2>3, <2>4 DEF Known
<1> QED
  BY <1>2, <1>8, <1>10, <1>11, <1>12, <1>13 DEF Refused, Loaded, Drawn, Followed

------------------------------------------------------------------------------
(* What the administrator and others do.                                     *)

\* An act sends a request about a group the page shows, after its last answer
\* if the administrator waits.
Sending(n) ==
    /\ IsSent(n, NewId, n.kind, n.group) \/ (n.drawn /\ n.kind = "disable" /\ n.id = NewId)
    /\ n \in Req /\ Shaped(n) /\ n.heard /\ n.answer = "sent" /\ n.kind # "load"
    /\ n.kind \in {"detail", "add", "remove"} \/ n.drawn => Created(n.group)
    /\ n.kind = "disable" /\ ~n.drawn => detail = None \/ detail.group # n.group
    /\ reqs' = reqs \cup {n}

LEMMA Acting ==
    ASSUME Page, Act, acts < MaxActs, acts' = acts + 1,
           UNCHANGED <<tables, list, told, others, patient>>
    PROVE  /\ PageTyped' /\ detail' = detail
           /\ patient => Waiting = {}
           /\ \E n : Sending(n)
<1>1. /\ TablesTyped /\ ReqsTyped /\ PageTyped /\ Known /\ acts' \in 0..MaxActs
      /\ NewId \in 0..(2 * MaxActs + 1)
  BY TypeParts, BoundsAssumption DEF Page, PageTyped, NewId
<1>2. /\ groups' = groups /\ error' = error /\ loading' = loading /\ told' = told
      /\ others' = others /\ patient' = patient
  BY DEF list
<1>3. ASSUME NEW n, NEW kind \in {"create", "update", "detail", "add", "remove"},
             NEW g \in Group, NEW x \in Entity \cup {None},
             kind \in {"add", "remove"} => x \in Entity,
             kind \in {"detail", "add", "remove"} => Created(g),
             n = Sent(NewId, kind, g, x), reqs' = reqs \cup {n}
      PROVE  Sending(n)
  <2>1. IsSent(n, NewId, kind, g)
    BY <1>1, <1>3, SentFields
  <2> QED
    BY <1>3, <2>1 DEF Sending, IsSent
<1>4. detail # None => detail \in Detail /\ detail.group \in Group /\ Created(detail.group)
  BY <1>1 DEF PageTyped, Known, Detail
<1>5. CASE OnDisable
  <2>1. /\ asking \in Group /\ asking' = None
        /\ UNCHANGED <<createOpen, editTarget, submitting, drawer>>
        /\ patient => Waiting = {}
    BY <1>1, <1>5 DEF OnDisable, MayAct, PageTyped
  <2>2. PICK d \in BOOLEAN : d = (detail # None /\ detail.group = asking)
    OBVIOUS
  <2>3. PICK i \in 0..(2 * MaxActs + 1) : i = NewId
    BY <1>1
  <2>4. PICK n : n = [Sent(i, "disable", asking, None) EXCEPT !.drawn = d]
    OBVIOUS
  <2>5. reqs' = reqs \cup {n}
    BY <1>5, <2>2, <2>3, <2>4 DEF OnDisable
  <2>6. /\ n \in Req /\ Shaped(n)
        /\ n.id = i /\ n.kind = "disable" /\ n.group = asking /\ n.heard = TRUE
        /\ n.answer = "sent" /\ n.drawn = d
    <3>1. /\ n.id = i /\ n.kind = "disable" /\ n.group = asking /\ n.heard = TRUE
          /\ n.answer = "sent" /\ n.drawn = d
      BY <2>4 DEF Sent
    <3>2. n \in Req
      BY <2>1, <2>4 DEF Sent, Req
    <3> QED
      BY <2>1, <3>1, <3>2 DEF Shaped
  <2>7. Sending(n)
    BY <1>4, <2>2, <2>3, <2>5, <2>6 DEF Sending, IsSent
  <2>8. PageTyped'
    BY <1>1, <1>2, <2>1 DEF PageTyped, drawer
  <2> QED
    BY <2>1, <2>7, <2>8 DEF drawer
<1>6. CASE Edit
  <2>1. patient => Waiting = {}
    BY <1>6 DEF Edit, MayAct
  <2>2. editTarget \in Group
    BY <1>1, <1>6 DEF Edit, PageTyped
  <2>3. \E n : Sending(n)
    BY <1>3, <1>6, <2>2 DEF Edit
  <2>4. PageTyped' /\ detail' = detail
    BY <1>1, <1>2, <1>6 DEF Edit, PageTyped, drawer
  <2> QED
    BY <2>1, <2>2, <2>3, <2>4
<1>7. CASE HandleAddMember
  <2>1. detail # None /\ picked \in User /\ (patient => Waiting = {})
    BY <1>1, <1>7 DEF HandleAddMember, DrawerReachable, MayAct, PageTyped
  <2>2. \E n : Sending(n)
    BY <1>3, <1>4, <1>7, <2>1 DEF HandleAddMember, Entity
  <2>3. PageTyped' /\ detail' = detail
    BY <1>1, <1>2, <1>7 DEF HandleAddMember, PageTyped, forms, drawer
  <2> QED
    BY <2>1, <2>2, <2>3
<1>8. ASSUME NEW g \in Group, Create(g)
      PROVE  /\ PageTyped' /\ detail' = detail
             /\ patient => Waiting = {}
             /\ \E n : Sending(n)
  <2>1. \E n : Sending(n)
    BY <1>3, <1>8 DEF Create
  <2>2. PageTyped' /\ detail' = detail
    BY <1>1, <1>2, <1>8 DEF Create, PageTyped, drawer
  <2> QED
    BY <1>8, <2>1, <2>2 DEF Create, MayAct
<1>9. ASSUME NEW g \in Group, OpenDetail(g)
      PROVE  /\ PageTyped' /\ detail' = detail
             /\ patient => Waiting = {}
             /\ \E n : Sending(n)
  <2>1. Created(g)
    BY <1>1, <1>9 DEF OpenDetail, Listed, Known
  <2>2. \E n : Sending(n)
    BY <1>3, <1>9, <2>1 DEF OpenDetail
  <2>3. PageTyped' /\ detail' = detail
    BY <1>1, <1>2, <1>9 DEF OpenDetail, PageTyped, forms
  <2> QED
    BY <1>9, <2>2, <2>3 DEF OpenDetail, MayAct
<1>10. ASSUME NEW x \in Entity, HandleRemoveMember(x) \/ HandleRemoveService(x)
       PROVE  /\ PageTyped' /\ detail' = detail
              /\ patient => Waiting = {}
              /\ \E n : Sending(n)
  <2>1. detail # None
    BY <1>10 DEF HandleRemoveMember, HandleRemoveService, DrawerReachable
  <2>2. \E n : Sending(n)
    BY <1>3, <1>4, <1>10, <2>1 DEF HandleRemoveMember, HandleRemoveService
  <2>3. PageTyped' /\ detail' = detail
    BY <1>1, <1>2, <1>10 DEF HandleRemoveMember, HandleRemoveService, PageTyped, forms, drawer
  <2> QED
    BY <1>10, <2>2, <2>3 DEF HandleRemoveMember, HandleRemoveService, MayAct
<1> QED
  BY <1>5, <1>6, <1>7, <1>8, <1>9, <1>10 DEF Act, Entity

LEMMA ActKeepsPage ==
    ASSUME Page, Act, acts < MaxActs, acts' = acts + 1,
           UNCHANGED <<tables, list, told, others, patient>>
    PROVE  Page'
<1>1. /\ TablesTyped /\ ReqsTyped /\ PageTyped /\ ReqsOK /\ Known
      /\ acts \in 0..MaxActs /\ acts' \in 0..MaxActs
  BY TypeParts, BoundsAssumption DEF Page, PageTyped
<1>2. PageTyped' /\ detail' = detail /\ \E n : Sending(n)
  BY Acting
<1>3. PICK n : Sending(n)
  BY <1>2
<1>4. /\ n \in Req /\ Shaped(n) /\ n.id = NewId /\ n.answer = "sent" /\ reqs' = reqs \cup {n}
      /\ n.kind \in {"detail", "add", "remove"} \/ n.drawn => Created(n.group)
  BY <1>3 DEF Sending, IsSent
<1>5. ReqsTyped' /\ ReqsOK'
  BY <1>1, <1>4, Asked
<1>6. status' = status /\ TablesTyped' /\ groups' = groups
  BY <1>1 DEF tables, list, TablesTyped
<1>7. Known'
  BY <1>1, <1>2, <1>4, <1>6 DEF Known, Created
<1> QED
  BY <1>2, <1>5, <1>6, <1>7, TypePartsNext DEF Page

LEMMA ForeignChanges ==
    ASSUME TablesTyped, NEW g \in Group, Foreign(g)
    PROVE  /\ ChangesOnly(g)
           /\ others' = IF patient THEN others \cup {g} ELSE others
           /\ UNCHANGED <<list, forms, drawer, reqs, told>>
BY DisableChanges, LinkChanges DEF Foreign

LEMMA ForeignKeepsPage ==
    ASSUME Page, NEW g \in Group, Foreign(g), acts < MaxActs, acts' = acts + 1,
           patient' = patient
    PROVE  Page'
<1>1. /\ TablesTyped /\ ReqsTyped /\ PageTyped /\ ReqsOK /\ Known
      /\ acts \in Nat /\ acts' \in 0..MaxActs
  BY TypeParts, BoundsAssumption DEF Page, PageTyped
<1>2. /\ ChangesOnly(g) /\ reqs' = reqs
      /\ others' = IF patient THEN others \cup {g} ELSE others
      /\ UNCHANGED <<list, forms, drawer, told>>
  BY <1>1, ForeignChanges
<1>3. PageTyped' /\ groups' = groups /\ detail' = detail
  BY <1>1, <1>2 DEF PageTyped, list, forms, drawer
<1>4. ReqsTyped' /\ ReqsOK'
  BY <1>1, <1>2, Gone
<1>5. Known'
  <2>1. \A x \in Group : Created(x) => Created(x)'
    BY <1>2 DEF ChangesOnly
  <2>2. detail # None => detail.group \in Group
    BY <1>1 DEF PageTyped, Detail
  <2>3. \A r \in reqs : r.kind \in {"detail", "add", "remove"} \/ r.drawn => r.group \in Group
    BY <1>1 DEF ReqsOK, Shaped
  <2>4. \A x \in Group : groups[x] # "none" => Created(x)'
    BY <1>1, <2>1 DEF Known
  <2>5. detail # None => \A x \in Group : x = detail.group => Created(x)'
    BY <1>1, <2>1 DEF Known
  <2>6. ASSUME NEW r \in reqs
        PROVE  /\ r.kind = "load" /\ r.answer = "ok" =>
                     \A x \in Group : r.list[x] # "none" => Created(x)'
               /\ r.kind \in {"detail", "add", "remove"} \/ r.drawn => Created(r.group)'
    BY <1>1, <2>1, <2>3 DEF Known
  <2> QED
    BY <1>2, <1>3, <2>2, <2>4, <2>5, <2>6 DEF Known, Created
<1> QED
  BY <1>2, <1>3, <1>4, <1>5, TypePartsNext DEF Page, ChangesOnly

\* Dialogs and the drawer are opened and closed at any time.
LEMMA DialogKeepsPage ==
    ASSUME Page, Dialog, UNCHANGED <<tables, list, told, history>>
    PROVE  Page' /\ reqs' = reqs /\ detail' \in {None, detail}
<1>1. /\ TablesTyped /\ ReqsTyped /\ PageTyped /\ ReqsOK /\ Known
      /\ acts \in Nat
  BY TypeParts, BoundsAssumption DEF Page, PageTyped
<1>2. /\ status' = status /\ link' = link /\ groups' = groups /\ error' = error
      /\ loading' = loading /\ told' = told /\ others' = others /\ patient' = patient
      /\ acts' = acts
  BY DEF tables, list, history
<1>3. reqs' = reqs /\ detail' \in {None, detail} /\ PageTyped'
  <2>1. CASE OpenCreate \/ CloseForms
    BY <1>1, <1>2, <2>1 DEF OpenCreate, CloseForms, PageTyped, forms, drawer
  <2>2. CASE CloseDetail
    BY <1>1, <1>2, <2>2 DEF CloseDetail, PageTyped, forms
  <2>3. CASE \E g \in Group : OpenEdit(g) \/ AskDisable(g)
    BY <1>1, <1>2, <2>3 DEF OpenEdit, AskDisable, PageTyped, drawer
  <2>4. CASE \E u \in User : Pick(u)
    BY <1>1, <1>2, <2>4 DEF Pick, PageTyped, forms
  <2> QED
    BY <2>1, <2>2, <2>3, <2>4 DEF Dialog
<1>4. TablesTyped' /\ ReqsTyped' /\ ReqsOK'
  BY <1>1, <1>2, <1>3, Gone DEF TablesTyped
<1>5. Known'
  BY <1>1, <1>2, <1>3 DEF Known, Created
<1> QED
  BY <1>3, <1>4, <1>5, TypePartsNext DEF Page

LEMMA PageStep == ASSUME Page, [Next]_vars PROVE Page'
<1>1. ASSUME NEW q \in reqs, Progress(q) PROVE Page'
  BY <1>1, ServeKeepsPage, SettleKeepsPage DEF Progress, Hear, GiveUp
<1>2. CASE Dialog /\ UNCHANGED <<tables, list, told, history>>
  BY <1>2, DialogKeepsPage
<1>3. CASE /\ acts < (IF patient THEN MaxActs ELSE MaxHaste)
           /\ acts' = acts + 1
           /\ UNCHANGED patient
           /\ \/ Act /\ UNCHANGED <<tables, list, told, others>>
              \/ \E g \in Group : Foreign(g)
  <2>1. acts < MaxActs
    BY <1>3, TypeParts, BoundsAssumption DEF Page, PageTyped
  <2> QED
    BY <1>3, <2>1, ActKeepsPage, ForeignKeepsPage
<1>4. CASE UNCHANGED vars
  <2>1. /\ status' = status /\ link' = link /\ groups' = groups /\ detail' = detail
        /\ reqs' = reqs /\ acts' = acts
    BY <1>4 DEF vars, tables, list, drawer, history
  <2>2. TypeOK'
    BY <1>4 DEF vars, tables, list, forms, drawer, history, Page, TypeOK
  <2>3. ReqsOK' /\ Known'
    BY <2>1 DEF Page, ReqsOK, Known, Created
  <2> QED
    BY <2>2, <2>3 DEF Page
<1> QED
  BY <1>1, <1>2, <1>3, <1>4 DEF Next

LEMMA PageAtFirst == ASSUME Init PROVE Page /\ \A q \in reqs : IsSent(q, 0, "load", None)
<1>1. TablesTyped
  <2>1. PICK full \in SUBSET {g \in Group : status[g] = "active"} :
          link = [g \in Group |-> [x \in Entity |-> IF g \in full THEN "live" ELSE "none"]]
    BY DEF Init
  <2> QED
    BY <2>1 DEF Init, TablesTyped, GroupStatus
<1>2. PICK n : n = Sent(0, "load", None, None)
  OBVIOUS
<1>3. IsSent(n, 0, "load", None)
  BY <1>2, SentFields, BoundsAssumption
<1>4. reqs = {n}
  BY <1>2 DEF Init
<1>5. ReqsTyped /\ ReqsOK
  <2>1. n \in Req /\ Shaped(n) /\ n.id = 0 /\ ~n.drawn /\ acts = 0
    BY <1>3 DEF IsSent, Init
  <2> QED
    BY <1>4, <2>1 DEF ReqsTyped, ReqsOK
<1>6. PageTyped
  <2>1. groups \in GroupList /\ patient \in BOOLEAN
    BY DEF Init, GroupList, GroupStatus
  <2>2. acts \in 0..MaxActs
    BY BoundsAssumption DEF Init
  <2> QED
    BY <2>1, <2>2 DEF Init, PageTyped
<1>7. Known
  BY <1>3, <1>4 DEF Init, Known, IsSent
<1> QED
  BY <1>1, <1>3, <1>4, <1>5, <1>6, <1>7, TypeParts DEF Page

LEMMA AlwaysPage == Spec => []Page
BY PageAtFirst, PageStep, PTL DEF Spec

\* The tables, the page and the requests between them are always well-formed,
\* and no two requests in flight are taken for one another.
THEOREM GroupsTyped == Spec => []TypeOK
<1>1. Page => TypeOK
  BY DEF Page
<1> QED
  BY <1>1, AlwaysPage, PTL

------------------------------------------------------------------------------
(* What an administrator reads who waits for every answer before acting.     *)

\* Nothing else is under way while a change is.
Alone == \A q, r \in Waiting : q.kind \notin {"load", "detail"} => r = q

\* The groups nothing has been said about and nobody else has touched.
Silent == Group \ (told \cup others)

\* What the client gave up on may still be served, but has been reported.
AbandonedTold == \A q \in reqs : ~q.heard => q.group \in told

AnswersRight ==
    \A q \in Waiting : q.answer = "ok" =>
        /\ q.kind = "load" => \A g \in Silent : q.list[g] = status[g]
        /\ q.kind = "detail" /\ q.group \in Silent => q.detail = GetGroup(q.group)

\* The list is right or will be asked for again.
ListDue(g) ==
    \E q \in Waiting :
        \/ q.kind = "load"
        \/ q.kind \in {"create", "disable"} /\ q.answer = "ok" /\ q.group = g

ListOK == ~error => \A g \in Silent : groups[g] = status[g] \/ ListDue(g)

\* And so is the drawer.
DrawerDue(g) ==
    \E q \in Waiting :
        /\ q.group = g
        /\ \/ q.kind = "detail"
           \/ q.answer = "ok" /\ (q.kind \in {"add", "remove"} \/ q.drawn)

DrawerOK ==
    detail # None /\ detail.group \in Silent =>
        detail = GetGroup(detail.group) \/ DrawerDue(detail.group)

\* A disabling that will not ask for the drawer again is not about what it shows.
UndrawnApart ==
    \A q \in Waiting : q.kind = "disable" /\ ~q.drawn /\ detail # None => detail.group # q.group

Honest ==
    patient => Alone /\ AbandonedTold /\ AnswersRight /\ ListOK /\ DrawerOK /\ UndrawnApart

\* A step that touches the tables of one group only, one that is told or was
\* touched by others, or nothing.
LEMMA Elsewhere ==
    ASSUME NEW g, NEW h, ChangesOnly(h), g \in Group, g # h
    PROVE  status'[g] = status[g] /\ GetGroup(g)' = GetGroup(g)
BY DEF ChangesOnly, GetGroup, Members

LEMMA ActHonest ==
    ASSUME Page, Honest, Act, acts < MaxActs, acts' = acts + 1,
           UNCHANGED <<tables, list, told, others, patient>>
    PROVE  Honest'
<1> SUFFICES ASSUME patient, patient' = patient
             PROVE  /\ Alone' /\ AbandonedTold' /\ AnswersRight'
                    /\ ListOK' /\ DrawerOK' /\ UndrawnApart'
  BY DEF Honest
<1>1. PICK n : Sending(n)
  BY Acting
<1>2. Waiting = {} /\ detail' = detail
  BY Acting
<1>3. /\ n.heard /\ n.answer = "sent" /\ reqs' = reqs \cup {n}
      /\ n.kind = "disable" /\ ~n.drawn /\ detail # None => detail.group # n.group
  BY <1>1 DEF Sending, IsSent
<1>4. Waiting' = {n}
  BY <1>2, <1>3 DEF Waiting
<1>5. /\ status' = status /\ link' = link /\ groups' = groups /\ error' = error /\ told' = told
      /\ others' = others
  BY DEF tables, list
<1>6. Alone' /\ AnswersRight'
  BY <1>3, <1>4 DEF Alone, AnswersRight
<1>7. AbandonedTold'
  BY <1>3, <1>5 DEF Honest, AbandonedTold
<1>8. ListOK'
  BY <1>2, <1>5 DEF Honest, ListOK, ListDue, Silent
<1>9. DrawerOK'
  BY <1>2, <1>5 DEF Honest, DrawerOK, DrawerDue, Silent, GetGroup, Members
<1>10. UndrawnApart'
  BY <1>2, <1>3, <1>4 DEF UndrawnApart
<1> QED
  BY <1>6, <1>7, <1>8, <1>9, <1>10

LEMMA ForeignHonest ==
    ASSUME Page, Honest, NEW g \in Group, Foreign(g), patient' = patient
    PROVE  Honest'
<1> SUFFICES ASSUME patient
             PROVE  /\ Alone' /\ AbandonedTold' /\ AnswersRight'
                    /\ ListOK' /\ DrawerOK' /\ UndrawnApart'
  BY DEF Honest
<1>1. TablesTyped /\ Honest
  BY TypeParts DEF Page
<1>2. ChangesOnly(g) /\ others' = others \cup {g} /\ UNCHANGED <<list, forms, drawer, reqs, told>>
  BY <1>1, ForeignChanges
<1>3. /\ groups' = groups /\ error' = error /\ detail' = detail /\ Waiting' = Waiting
      /\ reqs' = reqs /\ told' = told
  BY <1>2 DEF list, drawer, Waiting
<1>4. Silent' = Silent \ {g}
  BY <1>2, <1>3 DEF Silent
<1>5. \A x \in Silent' : status'[x] = status[x] /\ GetGroup(x)' = GetGroup(x) /\ x \in Silent
  BY <1>2, <1>4, Elsewhere DEF Silent
<1>6. Alone' /\ AbandonedTold' /\ UndrawnApart'
  BY <1>1, <1>3 DEF Honest, Alone, AbandonedTold, UndrawnApart
<1>7. AnswersRight'
  BY <1>1, <1>3, <1>5 DEF Honest, AnswersRight
<1>8. ListOK'
  BY <1>1, <1>3, <1>5 DEF Honest, ListOK, ListDue
<1>9. DrawerOK'
  BY <1>1, <1>3, <1>5 DEF Honest, DrawerOK, DrawerDue
<1> QED
  BY <1>6, <1>7, <1>8, <1>9

LEMMA DialogHonest ==
    ASSUME Page, Honest, Dialog, UNCHANGED <<tables, list, told, history>>
    PROVE  Honest'
<1>1. reqs' = reqs /\ detail' \in {None, detail}
  BY DialogKeepsPage
<1>2. /\ status' = status /\ link' = link /\ groups' = groups /\ error' = error /\ told' = told
      /\ others' = others /\ patient' = patient
  BY DEF tables, list, history
<1>3. Waiting' = Waiting /\ Silent' = Silent
  BY <1>1, <1>2 DEF Waiting, Silent
<1>4. \A g : GetGroup(g)' = GetGroup(g)
  BY <1>2 DEF GetGroup, Members
<1>5. patient => Alone' /\ AbandonedTold' /\ UndrawnApart'
  BY <1>1, <1>2, <1>3 DEF Honest, Alone, AbandonedTold, UndrawnApart
<1>6. patient => AnswersRight'
  BY <1>2, <1>3, <1>4 DEF Honest, AnswersRight
<1>7. patient => ListOK'
  BY <1>2, <1>3 DEF Honest, ListOK, ListDue
<1>8. patient => DrawerOK'
  BY <1>1, <1>3, <1>4 DEF Honest, DrawerOK, DrawerDue
<1> QED
  BY <1>2, <1>5, <1>6, <1>7, <1>8 DEF Honest

LEMMA ServeHonest ==
    ASSUME Page, Honest, NEW q \in reqs, Serve(q)
    PROVE  Honest'
<1>1. /\ TablesTyped /\ ReqsTyped /\ PageTyped /\ ReqsOK /\ Known /\ q \in Req /\ Shaped(q)
  BY TypeParts DEF Page, ReqsTyped, ReqsOK
<1>2. /\ ChangesOnly(q.group)
      /\ q.kind \in {"load", "detail", "update"} => UNCHANGED tables
      /\ q.kind = "create" => ~Created(q.group)
      /\ q.answer = "sent"
      /\ UNCHANGED <<list, forms, drawer, told, history>>
      /\ \/ ~q.heard /\ reqs' = reqs \ {q}
         \/ /\ q.heard
            /\ \E a \in Req : Shaped(a) /\ Answers(q, a) /\ reqs' = (reqs \ {q}) \cup {a}
  BY <1>1, Served
<1>3. /\ groups' = groups /\ error' = error /\ detail' = detail /\ told' = told
      /\ others' = others /\ patient' = patient
  BY <1>2 DEF list, drawer, history
<1>4. Silent' = Silent
  BY <1>3 DEF Silent
<1> SUFFICES ASSUME patient
             PROVE  /\ Alone' /\ AbandonedTold' /\ AnswersRight'
                    /\ ListOK' /\ DrawerOK' /\ UndrawnApart'
  BY <1>3 DEF Honest
<1>5. Alone /\ AbandonedTold /\ AnswersRight /\ ListOK /\ DrawerOK /\ UndrawnApart
  BY DEF Honest
<1>6. ASSUME NEW g \in Silent, g # q.group
      PROVE  status'[g] = status[g] /\ GetGroup(g)' = GetGroup(g)
  BY <1>2, <1>6, Elsewhere DEF Silent
<1>7. detail # None => detail.group \in Group /\ Created(detail.group)
  BY <1>1 DEF PageTyped, Detail, Known
<1>8. CASE ~q.heard /\ reqs' = reqs \ {q}
  <2>1. q.group \in told /\ Waiting' = Waiting
    BY <1>5, <1>8 DEF AbandonedTold, Waiting
  <2>2. \A g \in Silent : status'[g] = status[g] /\ GetGroup(g)' = GetGroup(g)
    BY <1>6, <2>1 DEF Silent
  <2>3. Alone' /\ AbandonedTold' /\ UndrawnApart'
    BY <1>3, <1>5, <1>8, <2>1 DEF Alone, AbandonedTold, UndrawnApart
  <2>4. AnswersRight'
    BY <1>4, <1>5, <2>1, <2>2 DEF AnswersRight
  <2>5. ListOK'
    BY <1>3, <1>4, <1>5, <2>1, <2>2 DEF ListOK, ListDue
  <2>6. DrawerOK'
    BY <1>3, <1>4, <1>5, <2>1, <2>2 DEF DrawerOK, DrawerDue
  <2> QED
    BY <2>3, <2>4, <2>5, <2>6
<1>9. CASE q.heard /\ \E a \in Req : Answers(q, a) /\ reqs' = (reqs \ {q}) \cup {a}
  <2>1. PICK a \in Req : Answers(q, a) /\ reqs' = (reqs \ {q}) \cup {a}
    BY <1>9
  <2>2. /\ a.heard /\ a.kind = q.kind /\ a.group = q.group /\ a.answer = "ok"
        /\ a.drawn <=> q.drawn
    BY <1>9, <2>1 DEF Answers
  <2>3. q \in Waiting /\ Waiting' = (Waiting \ {q}) \cup {a}
    BY <1>9, <2>1, <2>2 DEF Waiting
  <2>4. Alone'
    BY <1>5, <2>2, <2>3 DEF Alone
  <2>5. AbandonedTold'
    BY <1>3, <1>5, <2>1, <2>2 DEF AbandonedTold
  <2>6. UndrawnApart'
    BY <1>3, <1>5, <2>2, <2>3 DEF UndrawnApart
  <2>7. CASE q.kind \in {"load", "detail"}
    <3>1. status' = status /\ \A g : GetGroup(g)' = GetGroup(g)
      BY <1>2, <2>7 DEF tables, GetGroup, Members
    <3>2. /\ a.kind = "load" => \A g \in Silent : a.list[g] = status[g]
          /\ a.kind = "detail" => a.detail = GetGroup(a.group)
      BY <2>1, <2>2 DEF Answers
    <3>3. AnswersRight'
      <4>1. ASSUME NEW r \in Waiting', r.answer = "ok"
            PROVE  /\ r.kind = "load" => \A g \in Silent : r.list[g] = status[g]
                   /\ r.kind = "detail" /\ r.group \in Silent => r.detail = GetGroup(r.group)
        BY <1>5, <2>3, <3>2, <4>1 DEF AnswersRight
      <4> QED
        BY <1>4, <3>1, <4>1 DEF AnswersRight
    <3>4. ListOK'
      <4>1. ASSUME NEW g \in Silent, ListDue(g) PROVE ListDue(g)'
        BY <1>2, <2>2, <2>3, <4>1 DEF ListDue
      <4> QED
        BY <1>3, <1>4, <1>5, <3>1, <4>1 DEF ListOK
    <3>5. DrawerOK'
      <4>1. ASSUME NEW g, DrawerDue(g) PROVE DrawerDue(g)'
        BY <1>2, <2>2, <2>3, <4>1 DEF DrawerDue
      <4> QED
        BY <1>3, <1>4, <1>5, <3>1, <4>1 DEF DrawerOK
    <3> QED
      BY <2>4, <2>5, <2>6, <3>3, <3>4, <3>5
  <2>8. CASE q.kind \notin {"load", "detail"}
    <3>1. Waiting = {q} /\ Waiting' = {a}
      BY <1>5, <2>3, <2>8 DEF Alone
    <3>2. AnswersRight'
      BY <2>2, <2>8, <3>1 DEF AnswersRight
    <3>3. ListOK'
      <4>1. ASSUME NEW g \in Silent, ~error PROVE status'[g] = groups[g] \/ ListDue(g)'
        <5>1. groups[g] = status[g]
          BY <1>2, <1>5, <2>8, <3>1, <4>1 DEF ListOK, ListDue
        <5>2. CASE g # q.group
          BY <1>6, <5>1, <5>2
        <5>3. CASE q.kind \in {"create", "disable"} /\ g = q.group
          BY <2>2, <3>1, <5>3 DEF ListDue
        <5>4. CASE q.kind \notin {"create", "disable"}
          <6>1. status' = status
            BY <1>1, <1>2, <2>8, <5>4, ReqFields DEF Serve, Carry, UpdateGroup, AddLink,
               RemoveLink, tables
          <6> QED
            BY <5>1, <6>1
        <5> QED
          BY <5>2, <5>3, <5>4
      <4> QED
        BY <1>3, <1>4, <4>1 DEF ListOK
    <3>4. DrawerOK'
      <4>1. ASSUME detail # None, detail.group \in Silent
            PROVE  \A g : g = detail.group => detail = GetGroup(g)' \/ DrawerDue(g)'
        <5>1. detail = GetGroup(detail.group)
          BY <1>2, <1>5, <2>8, <3>1, <4>1 DEF DrawerOK, DrawerDue
        <5>2. CASE detail.group # q.group
          BY <1>6, <4>1, <5>1, <5>2
        <5>3. CASE detail.group = q.group /\ (q.kind \in {"add", "remove"} \/ q.drawn)
          BY <2>2, <3>1, <5>3 DEF DrawerDue
        <5>4. CASE q.kind = "update"
          BY <1>2, <5>1, <5>4 DEF tables, GetGroup, Members
        <5>5. q.kind = "create" => detail.group # q.group
          BY <1>2, <1>7, <4>1
        <5>6. q.kind = "disable" /\ ~q.drawn => detail.group # q.group
          BY <1>5, <2>3, <4>1 DEF UndrawnApart
        <5> QED
          BY <1>1, <2>8, <5>2, <5>3, <5>4, <5>5, <5>6, ReqFields
      <4> QED
        BY <1>3, <1>4, <4>1 DEF DrawerOK
    <3> QED
      BY <2>4, <2>5, <2>6, <3>2, <3>3, <3>4
  <2> QED
    BY <2>7, <2>8
<1> QED
  BY <1>2, <1>8, <1>9

LEMMA SettleHonest ==
    ASSUME Page, Honest, NEW q \in reqs, NEW ok \in BOOLEAN, Settle(q, ok), ok => q.answer = "ok"
    PROVE  Honest'
<1>1. /\ TablesTyped /\ ReqsTyped /\ PageTyped /\ ReqsOK /\ q \in Req /\ Shaped(q)
  BY TypeParts DEF Page, ReqsTyped, ReqsOK
<1>2. /\ UNCHANGED <<tables, history>> /\ q.heard
      /\ \/ Refused(q) \/ Loaded(q, ok)
         \/ q.answer = "ok" /\ (Drawn(q) \/ Followed(q))
  BY Settled
<1>3. status' = status /\ link' = link /\ others' = others /\ patient' = patient
  BY <1>2 DEF tables, history
<1>4. \A g : GetGroup(g)' = GetGroup(g)
  BY <1>3 DEF GetGroup, Members
<1> SUFFICES ASSUME patient
             PROVE  /\ Alone' /\ AbandonedTold' /\ AnswersRight'
                    /\ ListOK' /\ DrawerOK' /\ UndrawnApart'
  BY <1>3 DEF Honest
<1>5. Alone /\ AbandonedTold /\ AnswersRight /\ ListOK /\ DrawerOK /\ UndrawnApart
  BY DEF Honest
<1>6. q \in Waiting
  BY <1>2 DEF Waiting
<1>7. CASE Refused(q)
  <2>1. /\ groups' = groups /\ error' = error /\ detail' = detail
        /\ told' = told \cup {q.group} /\ q.kind # "load"
    BY <1>7 DEF Refused
  <2>2. Waiting' = Waiting \ {q}
    BY <1>7 DEF Refused, Abandoned, Waiting
  <2>3. AbandonedTold'
    BY <1>5, <1>7, <2>1 DEF Refused, Abandoned, AbandonedTold
  <2>4. Silent' \subseteq Silent /\ q.group \notin Silent'
    BY <1>3, <2>1 DEF Silent
  <2>5. Alone' /\ UndrawnApart'
    BY <1>5, <2>1, <2>2 DEF Alone, UndrawnApart
  <2>6. AnswersRight'
    BY <1>3, <1>4, <1>5, <2>2, <2>4 DEF AnswersRight
  <2>7. \A g \in Silent' : (ListDue(g) => ListDue(g)') /\ (DrawerDue(g) => DrawerDue(g)')
    BY <2>1, <2>2, <2>4 DEF ListDue, DrawerDue
  <2>8. ListOK'
    BY <1>3, <1>5, <2>1, <2>4, <2>7 DEF ListOK
  <2>9. DrawerOK'
    BY <1>4, <1>5, <2>1, <2>4, <2>7 DEF DrawerOK
  <2> QED
    BY <2>3, <2>5, <2>6, <2>8, <2>9
<1>8. CASE Loaded(q, ok)
  <2>1. /\ detail' = detail /\ told' = told /\ reqs' = reqs \ {q} /\ q.kind = "load"
        /\ IF ok THEN groups' = q.list /\ error' = error ELSE groups' = groups /\ error' = TRUE
    BY <1>8 DEF Loaded
  <2>2. Waiting' = Waiting \ {q} /\ Silent' = Silent
    BY <1>3, <2>1 DEF Waiting, Silent
  <2>3. Alone' /\ UndrawnApart' /\ AbandonedTold'
    BY <1>5, <2>1, <2>2 DEF Alone, UndrawnApart, AbandonedTold
  <2>4. AnswersRight'
    BY <1>3, <1>4, <1>5, <2>2 DEF AnswersRight
  <2>5. ListOK'
    <3>1. CASE ok
      BY <1>3, <1>5, <1>6, <2>1, <2>2, <3>1 DEF ListOK, AnswersRight
    <3>2. CASE ~ok
      BY <2>1, <3>2 DEF ListOK
    <3> QED
      BY <3>1, <3>2
  <2>6. DrawerOK'
    <3>1. ~q.drawn
      BY <1>1, <2>1 DEF Shaped
    <3>2. \A g : DrawerDue(g) => DrawerDue(g)'
      BY <2>1, <2>2, <3>1 DEF DrawerDue
    <3> QED
      BY <1>4, <1>5, <2>1, <2>2, <3>2 DEF DrawerOK
  <2> QED
    BY <2>3, <2>4, <2>5, <2>6
<1>9. CASE q.answer = "ok" /\ Drawn(q)
  <2>1. /\ groups' = groups /\ error' = error /\ told' = told /\ reqs' = reqs \ {q}
        /\ q.kind = "detail" /\ detail' = q.detail
    BY <1>9 DEF Drawn
  <2>2. Waiting' = Waiting \ {q} /\ Silent' = Silent
    BY <1>3, <2>1 DEF Waiting, Silent
  <2>3. Alone' /\ AbandonedTold'
    BY <1>5, <2>1, <2>2 DEF Alone, AbandonedTold
  <2>4. UndrawnApart'
    BY <1>5, <1>6, <2>1, <2>2 DEF Alone, UndrawnApart
  <2>5. AnswersRight'
    BY <1>3, <1>4, <1>5, <2>2 DEF AnswersRight
  <2>6. ListOK'
    <3>1. \A g : ListDue(g) => ListDue(g)'
      BY <2>1, <2>2 DEF ListDue
    <3> QED
      BY <1>3, <1>5, <2>1, <2>2, <3>1 DEF ListOK
  <2>7. DrawerOK'
    <3>1. q.detail.group = q.group
      BY <1>1, <1>9, <2>1 DEF Shaped
    <3>2. q.group \in Silent => q.detail = GetGroup(q.group)
      BY <1>5, <1>6, <1>9, <2>1 DEF AnswersRight
    <3> QED
      BY <1>4, <2>1, <2>2, <3>1, <3>2 DEF DrawerOK
  <2> QED
    BY <2>3, <2>4, <2>5, <2>6, <2>7
<1>10. CASE q.answer = "ok" /\ Followed(q)
  <2>1. /\ groups' = groups /\ error' = error /\ told' = told /\ detail' = detail
        /\ q.kind \notin {"load", "detail"}
    BY <1>1, <1>10 DEF Followed, Shaped
  <2>2. Waiting = {q} /\ Silent' = Silent
    BY <1>3, <1>5, <1>6, <2>1 DEF Alone, Silent
  <2>3. PICK S : /\ reqs' = (reqs \ {q}) \cup S
                 /\ \A n \in S : /\ n.heard /\ n.answer = "sent" /\ ~n.drawn
                                 /\ n.kind \in {"load", "detail"}
                 /\ q.kind \in {"create", "update", "disable"} => \E n \in S : n.kind = "load"
                 /\ q.kind \in {"add", "remove"} \/ q.drawn =>
                       \E n \in S : n.kind = "detail" /\ n.group = q.group
    <3>1. q.drawn => q.kind = "disable"
      BY <1>1 DEF Shaped
    <3>2. CASE \E n : IsSent(n, q.id, "load", None) /\ reqs' = (reqs \ {q}) \cup {n}
                      /\ q.kind \notin {"add", "remove"} /\ ~q.drawn
      <4>1. PICK n : /\ IsSent(n, q.id, "load", None) /\ reqs' = (reqs \ {q}) \cup {n}
                     /\ q.kind \notin {"add", "remove"} /\ ~q.drawn
        BY <3>2
      <4>2. n.heard /\ n.answer = "sent" /\ ~n.drawn /\ n.kind = "load"
        BY <4>1 DEF IsSent
      <4> WITNESS {n}
      <4> QED
        BY <4>1, <4>2
    <3>3. CASE \E n, m : /\ IsSent(n, q.id, "load", None)
                         /\ IsSent(m, q.id + 1, "detail", q.group)
                         /\ reqs' = (reqs \ {q}) \cup {n, m}
      BY <3>3 DEF IsSent
    <3>4. CASE /\ q.kind \in {"add", "remove"}
               /\ \E n : IsSent(n, q.id, "detail", q.group) /\ reqs' = (reqs \ {q}) \cup {n}
      BY <3>1, <3>4 DEF IsSent
    <3> QED
      BY <1>10, <3>1, <3>2, <3>3, <3>4 DEF Followed
  <2>4. Waiting' = S
    BY <2>2, <2>3 DEF Waiting
  <2>5. Alone' /\ AbandonedTold' /\ UndrawnApart' /\ AnswersRight'
    BY <1>5, <2>1, <2>3, <2>4 DEF Alone, AbandonedTold, UndrawnApart, AnswersRight
  <2>6. ListOK'
    <3>1. ASSUME NEW g, ListDue(g) PROVE ListDue(g)'
      BY <2>1, <2>2, <2>3, <2>4, <3>1 DEF ListDue
    <3> QED
      BY <1>3, <1>5, <2>1, <2>2, <3>1 DEF ListOK
  <2>7. DrawerOK'
    <3>1. ASSUME NEW g, DrawerDue(g) PROVE DrawerDue(g)'
      BY <2>1, <2>2, <2>3, <2>4, <3>1 DEF DrawerDue
    <3> QED
      BY <1>4, <1>5, <2>1, <2>2, <3>1 DEF DrawerOK
  <2> QED
    BY <2>5, <2>6, <2>7
<1> QED
  BY <1>2, <1>7, <1>8, <1>9, <1>10

LEMMA HonestStep == ASSUME Page, Honest, [Next]_vars PROVE Honest'
<1>1. ASSUME NEW q \in reqs, Progress(q) PROVE Honest'
  BY <1>1, ServeHonest, SettleHonest DEF Progress, Hear, GiveUp
<1>2. CASE Dialog /\ UNCHANGED <<tables, list, told, history>>
  BY <1>2, DialogHonest
<1>3. CASE /\ acts < (IF patient THEN MaxActs ELSE MaxHaste)
           /\ acts' = acts + 1
           /\ UNCHANGED patient
           /\ \/ Act /\ UNCHANGED <<tables, list, told, others>>
              \/ \E g \in Group : Foreign(g)
  <2>1. acts < MaxActs
    BY <1>3, TypeParts, BoundsAssumption DEF Page, PageTyped
  <2> QED
    BY <1>3, <2>1, ActHonest, ForeignHonest
<1>4. CASE UNCHANGED vars
  <2>1. /\ status' = status /\ link' = link /\ groups' = groups /\ detail' = detail
        /\ reqs' = reqs /\ error' = error /\ told' = told /\ others' = others
        /\ patient' = patient
    BY <1>4 DEF vars, tables, list, drawer, history
  <2>2. Waiting' = Waiting /\ Silent' = Silent /\ \A g : GetGroup(g)' = GetGroup(g)
    BY <2>1 DEF Waiting, Silent, GetGroup, Members
  <2> QED
    BY <2>1, <2>2 DEF Honest, Alone, AbandonedTold, AnswersRight, ListOK, ListDue, DrawerOK,
       DrawerDue, UndrawnApart
<1> QED
  BY <1>1, <1>2, <1>3, <1>4 DEF Next

LEMMA HonestAtFirst == ASSUME Init PROVE Honest
<1>1. \A q \in reqs : q.heard /\ q.kind = "load" /\ q.answer = "sent"
  BY PageAtFirst DEF IsSent
<1>2. \E q \in reqs : TRUE
  BY DEF Init
<1>3. AbandonedTold /\ Alone /\ AnswersRight
  BY <1>1 DEF AbandonedTold, Alone, AnswersRight, Waiting
<1>4. ListOK
  BY <1>1, <1>2 DEF ListOK, ListDue, Waiting
<1>5. DrawerOK /\ UndrawnApart
  BY <1>1 DEF Init, DrawerOK, UndrawnApart, Waiting
<1> QED
  BY <1>3, <1>4, <1>5 DEF Honest

\* What an administrator who waits reads in list and drawer is what the tables
\* hold, but for groups about which an error was shown or that somebody else
\* has changed (PermissionGroupsPage.tsx).
THEOREM ShownIsStored == Spec => []ShownOrTold
<1>1. Page /\ Honest => ShownOrTold
  <2> SUFFICES ASSUME Page, Honest, patient, reqs = {}, View = "page"
               PROVE  /\ \A g \in Group \ (told \cup others) : groups[g] = status[g]
                      /\ detail # None /\ detail.group \notin told \cup others =>
                            detail = GetGroup(detail.group)
    BY DEF ShownOrTold
  <2>1. Waiting = {} /\ ~error
    BY DEF Waiting, View
  <2>2. detail # None => detail.group \in Group
    BY DEF Page, TypeOK, Detail
  <2> QED
    BY <2>1, <2>2 DEF Honest, ListOK, ListDue, DrawerOK, DrawerDue, Silent
<1> QED
  BY <1>1, PageAtFirst, HonestAtFirst, PageStep, HonestStep, PTL DEF Spec
==============================================================================
