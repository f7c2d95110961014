------------------------- MODULE DashboardPages_proofs -------------------------
(* Proofs about the list pages: for any rows and any number of requests, every
   variable keeps its shape, and what a patient user reads is what the gateway
   serves, unless an error was shown.                                         *)
EXTENDS DashboardPages, FiniteSetTheorems, FunctionTheorems, TLAPS

------------------------------------------------------------------------------
(* Requests.                                                                 *)

\* What a request is about, and what its answer holds.
Shaped(q) ==
    /\ q.kind # "load" => q.row \in Row
    /\ q.kind = "load" => q.heard
    /\ q.kind = "load" /\ q.status = "ok" => q.table \in Table

\* TypeOK in parts: the requests, and the page with what the user did.
ReqsTyped ==
    /\ reqs \subseteq Req
    /\ \A q, r \in reqs : q.id = r.id => q = r

UiTyped ==
    /\ page \in Page /\ data \in Table \cup {None}
    /\ error \in BOOLEAN /\ loading \in BOOLEAN
    /\ toggling \in Row \cup {None}
    /\ formOpen \in BOOLEAN /\ editing \in Row \cup {None} /\ submitting \in 0..MaxReqs
    /\ told \subseteq Row /\ others \subseteq Row
    /\ patient \in BOOLEAN /\ acts \in 0..MaxActs

LEMMA TypeParts == TypeOK <=> UiTyped /\ rows \in Table /\ ReqsTyped
BY DEF TypeOK, UiTyped, ReqsTyped

LEMMA TypePartsNext == TypeOK' <=> UiTyped' /\ rows' \in Table /\ ReqsTyped'
BY DEF TypeOK, UiTyped, ReqsTyped

Shapes == \A q \in reqs : Shaped(q)

Sheet == TypeOK /\ Shapes

LEMMA ReqFields ==
    ASSUME NEW q \in Req
    PROVE  /\ q.id \in 1..MaxReqs /\ q.id \in Nat /\ q.id # 0
           /\ q.heard \in BOOLEAN /\ q.status \in {"sent", "ok"}
           /\ q.kind \in {"load", "toggle", "remove", "create", "update"}
           /\ q.row \in Row \cup {None} /\ q.to \in Mark /\ q.bad \in BOOLEAN
           /\ q.table \in Table \cup {None}
BY BoundsAssumption DEF Req

\* There is an id for a request that there is room for.
LEMMA RoomForId ==
    ASSUME ReqsTyped, Room
    PROVE  FreeId \in 1..MaxReqs /\ \A q \in reqs : q.id # FreeId
<1> DEFINE I == 1..MaxReqs
           id == [q \in reqs |-> q.id]
<1>1. IsFiniteSet(I) /\ Cardinality(I) = MaxReqs
  BY FS_Interval, BoundsAssumption
<1>2. id \in [reqs -> I]
  BY ReqFields DEF ReqsTyped
<1>3. id \in Injection(reqs, I)
  BY <1>2, Fun_IsInj DEF ReqsTyped
<1>4. IsFiniteSet(reqs)
  BY <1>1, <1>3, FS_Injection
<1>5. ASSUME \A i \in I : \E q \in reqs : q.id = i PROVE FALSE
  <2>1. id \in Surjection(reqs, I)
    BY <1>2, <1>5, Fun_IsSurj
  <2>2. Cardinality(I) <= Cardinality(reqs)
    BY <1>4, <2>1, FS_Surjection
  <2> QED
    BY <1>1, <1>4, <2>2, FS_CardinalityType, BoundsAssumption DEF Room
<1>6. \E i \in I : \A q \in reqs : q.id # i
  BY <1>5
<1> QED
  BY <1>6 DEF FreeId

\* A request on its way.
IsSent(n, i, kind, r) ==
    /\ n \in Req /\ Shaped(n) /\ n.id = i /\ n.kind = kind /\ n.row = r
    /\ n.heard /\ n.status = "sent"

LEMMA SentFields ==
    ASSUME NEW i \in 1..MaxReqs, NEW r \in Row \cup {None}, NEW to \in Mark,
           NEW kind \in {"load", "toggle", "remove", "create", "update"},
           kind # "load" => r \in Row,
           NEW n, n = Sent(i, kind, r, to)
    PROVE  IsSent(n, i, kind, r)
<1>1. n.id = i /\ n.kind = kind /\ n.row = r /\ n.heard /\ n.status = "sent"
  BY DEF Sent
<1>2. n \in Req
  BY DEF Sent, Req
<1> QED
  BY <1>1, <1>2 DEF Shaped, IsSent

LEMMA SentBad ==
    ASSUME NEW i \in 1..MaxReqs, NEW r \in Row, NEW b \in BOOLEAN,
           NEW kind \in {"create", "update"},
           NEW n, n = [Sent(i, kind, r, "on") EXCEPT !.bad = b]
    PROVE  IsSent(n, i, kind, r)
<1>1. n.id = i /\ n.kind = kind /\ n.row = r /\ n.heard = TRUE /\ n.status = "sent"
  BY DEF Sent
<1>2. n \in Req
  BY DEF Sent, Req, Mark
<1> QED
  BY <1>1, <1>2 DEF Shaped, IsSent

\* A request leaves,
LEMMA Gone ==
    ASSUME ReqsTyped, Shapes, reqs' \subseteq reqs
    PROVE  ReqsTyped' /\ Shapes'
BY DEF ReqsTyped, Shapes

\* another takes its place,
LEMMA Replaced ==
    ASSUME ReqsTyped, Shapes, NEW q \in reqs, NEW a \in Req, Shaped(a), a.id = q.id,
           reqs' = (reqs \ {q}) \cup {a}
    PROVE  ReqsTyped' /\ Shapes'
BY DEF ReqsTyped, Shapes

\* or a new one is sent.
LEMMA Asked ==
    ASSUME ReqsTyped, Shapes, NEW n \in Req, Shaped(n), \A q \in reqs : q.id # n.id,
           reqs' = reqs \cup {n}
    PROVE  ReqsTyped' /\ Shapes'
BY DEF ReqsTyped, Shapes

------------------------------------------------------------------------------
(* What the gateway does for a request.                                      *)

LEMMA ServedTable ==
    ASSUME rows \in Table
    PROVE  Served(rows) \in Table
BY DEF Served, ServedServer, Table, Mark

\* The answer a to q.
Answers(q, a) ==
    /\ a.id = q.id /\ a.heard = q.heard /\ a.kind = q.kind /\ a.row = q.row /\ a.status = "ok"
    /\ q.kind = "load" => a.table = Served(rows)

\* A load changes nothing, and a change is to one row.
LEMMA Serves ==
    ASSUME rows \in Table, NEW q \in Req, Shaped(q), Serve(q)
    PROVE  /\ rows' \in Table /\ UNCHANGED <<ui, told, others, patient, acts>>
           /\ q.kind = "load" => rows' = rows
           /\ \A n \in Row : n # q.row => rows'[n] = rows[n]
           /\ \/ ~q.heard /\ reqs' = reqs \ {q}
              \/ /\ q.heard
                 /\ \E a \in Req : Shaped(a) /\ Answers(q, a) /\ reqs' = (reqs \ {q}) \cup {a}
<1> DEFINE new(t) == [q EXCEPT !.status = "ok", !.table = t]
<1>1. ASSUME NEW t \in Table \cup {None}, Answered(q, t), q.kind = "load" => t = Served(rows)
      PROVE  \/ ~q.heard /\ reqs' = reqs \ {q}
             \/ /\ q.heard
                /\ \E a \in Req : Shaped(a) /\ Answers(q, a) /\ reqs' = (reqs \ {q}) \cup {a}
  <2>1. new(t) \in Req
    BY DEF Req
  <2>2. /\ new(t).status = "ok" /\ new(t).table = t /\ new(t).id = q.id
        /\ new(t).heard = q.heard /\ new(t).kind = q.kind /\ new(t).row = q.row
    BY DEF Req
  <2>3. Answers(q, new(t))
    BY <1>1, <2>2 DEF Answers
  <2>4. Shaped(new(t))
    BY <1>1, <2>2, ServedTable DEF Shaped
  <2>5. CASE q.heard
    <3>1. reqs' = (reqs \ {q}) \cup {new(t)}
      BY <1>1, <2>5 DEF Answered
    <3> QED
      BY <2>1, <2>3, <2>4, <2>5, <3>1
  <2>6. CASE ~q.heard
    BY <1>1, <2>6 DEF Answered
  <2> QED
    BY <2>5, <2>6
<1>2. UNCHANGED <<ui, told, others, patient, acts>>
  BY DEF Serve
<1>3. CASE q.kind = "load"
  <2>1. Answered(q, Served(rows)) /\ rows' = rows
    BY <1>3 DEF Serve, Listed
  <2> QED
    BY <1>1, <1>2, <2>1, ServedTable
<1>4. CASE q.kind # "load"
  <2>1. Answered(q, None) /\ (rows' = [rows EXCEPT ![q.row] = q.to] \/ rows' = rows)
    BY <1>4 DEF Serve, Carried, Pending
  <2>2. rows' \in Table /\ \A n \in Row : n # q.row => rows'[n] = rows[n]
    BY <2>1, ReqFields DEF Table
  <2> QED
    BY <1>1, <1>2, <1>4, <2>1, <2>2
<1> QED
  BY <1>3, <1>4

LEMMA ServeKeepsSheet ==
    ASSUME Sheet, NEW q \in reqs, Serve(q)
    PROVE  Sheet'
<1>1. UiTyped /\ rows \in Table /\ ReqsTyped /\ Shapes /\ q \in Req /\ Shaped(q)
  BY TypeParts DEF Sheet, ReqsTyped, Shapes
<1>2. /\ rows' \in Table /\ UNCHANGED <<ui, told, others, patient, acts>>
      /\ \/ ~q.heard /\ reqs' = reqs \ {q}
         \/ /\ q.heard
            /\ \E a \in Req : Shaped(a) /\ Answers(q, a) /\ reqs' = (reqs \ {q}) \cup {a}
  BY <1>1, Serves
<1>3. UiTyped'
  BY <1>1, <1>2 DEF UiTyped, ui
<1>4. CASE ~q.heard /\ reqs' = reqs \ {q}
  BY <1>1, <1>2, <1>3, <1>4, Gone, TypePartsNext DEF Sheet
<1>5. CASE \E a \in Req : Shaped(a) /\ Answers(q, a) /\ reqs' = (reqs \ {q}) \cup {a}
  <2>1. PICK a \in Req : Shaped(a) /\ Answers(q, a) /\ reqs' = (reqs \ {q}) \cup {a}
    BY <1>5
  <2>2. ReqsTyped' /\ Shapes'
    BY <1>1, <2>1, Replaced DEF Answers
  <2> QED
    BY <1>2, <1>3, <2>2, TypePartsNext DEF Sheet
<1> QED
  BY <1>2, <1>4, <1>5

------------------------------------------------------------------------------
(* What the page does about the end of a request.                            *)

\* The client has given up on a that was q.
Abandoned(q, a) ==
    /\ a \in Req /\ Shaped(a) /\ ~a.heard /\ a.id = q.id /\ a.row = q.row
    /\ a.status = "sent"

\* It shows an error,
Refused(q) ==
    /\ q.kind # "load"
    /\ told' = IF patient THEN told \cup {q.row} ELSE told
    /\ UNCHANGED <<data, error>>
    /\ \/ reqs' = reqs \ {q}
       \/ \E a : Abandoned(q, a) /\ reqs' = (reqs \ {q}) \cup {a}

\* takes the rows,
Loaded(q, ok) ==
    /\ q.kind = "load"
    /\ IF ok THEN data' = q.table /\ (error' => error) ELSE data' = data /\ error' = TRUE
    /\ reqs' = reqs \ {q}
    /\ told' = told

\* or asks for them again.
Followed(q) ==
    /\ q.kind # "load"
    /\ UNCHANGED <<data, error, told>>
    /\ \E n : IsSent(n, q.id, "load", None) /\ reqs' = (reqs \ {q}) \cup {n}

LEMMA Failed ==
    ASSUME NEW q \in Req, Shaped(q), q \in reqs, q.heard, Fails(q), q.kind # "load",
           UNCHANGED <<data, error>>
    PROVE  Refused(q)
<1> DEFINE a == [q EXCEPT !.heard = FALSE]
<1>1. CASE reqs' = reqs \ {q}
  BY <1>1 DEF Fails, Refused
<1>2. CASE reqs' = {IF r = q THEN a ELSE r : r \in reqs} /\ q.status # "ok"
  <2>1. reqs' = (reqs \ {q}) \cup {a}
    BY <1>2
  <2>2. a \in Req /\ a.heard = FALSE /\ a.id = q.id /\ a.kind = q.kind /\ a.row = q.row
        /\ a.status = q.status
    BY DEF Req
  <2>3. Abandoned(q, a)
    BY <1>2, <2>2, ReqFields DEF Abandoned, Shaped
  <2> QED
    BY <1>2, <2>1, <2>3 DEF Fails, Refused
<1> QED
  BY <1>1, <1>2 DEF Fails

LEMMA Reloads ==
    ASSUME NEW q \in Req, Reload(q)
    PROVE  loading' = TRUE /\ \E n : IsSent(n, q.id, "load", None) /\ reqs' = (reqs \ {q}) \cup {n}
<1>1. q.id \in 1..MaxReqs /\ "on" \in Mark
  BY ReqFields DEF Mark
<1>2. PICK n : n = Sent(q.id, "load", None, "on")
  OBVIOUS
<1>3. IsSent(n, q.id, "load", None)
  BY <1>1, <1>2, SentFields
<1>4. loading' = TRUE /\ reqs' = (reqs \ {q}) \cup {n}
  BY <1>2 DEF Reload
<1> QED
  BY <1>3, <1>4

\* The handlers of the three mutations that succeed agree on the end.
LEMMA Mutated ==
    ASSUME UiTyped, NEW q \in reqs, q \in Req, Shaped(q), q.heard, NEW ok \in BOOLEAN,
           q.kind # "load", UNCHANGED <<data, error>>,
           IF ok THEN Reload(q) /\ told' = told ELSE Fails(q) /\ loading' = loading
    PROVE  /\ loading' \in BOOLEAN /\ told' \subseteq Row
           /\ Refused(q) \/ (ok /\ Followed(q))
<1>1. q.row \in Row
  BY DEF Shaped
<1>2. CASE ok
  BY <1>2, Reloads DEF Followed, UiTyped
<1>3. CASE ~ok
  <2>1. Refused(q)
    BY <1>3, Failed
  <2>2. told' \subseteq Row
    BY <1>1, <1>3 DEF Fails, UiTyped
  <2> QED
    BY <1>3, <2>1, <2>2 DEF UiTyped
<1> QED
  BY <1>2, <1>3

LEMMA Settled ==
    ASSUME Sheet, NEW q \in reqs, NEW ok \in BOOLEAN, Settle(q, ok), ok => q.status = "ok"
    PROVE  /\ UiTyped' /\ UNCHANGED <<page, rows, others, patient, acts>> /\ q.heard
           /\ Refused(q) \/ Loaded(q, ok) \/ (ok /\ Followed(q))
<1>1. UiTyped /\ rows \in Table /\ ReqsTyped /\ q \in Req /\ Shaped(q)
  BY TypeParts DEF Sheet, ReqsTyped, Shapes
<1>2. /\ q.heard /\ page' = page /\ rows' = rows /\ others' = others /\ patient' = patient
      /\ acts' = acts
  BY DEF Settle
<1>3. 0 \in 0..MaxReqs
  BY BoundsAssumption
<1>4. CASE LoadSettles(q, ok)
  <2>1. /\ q.kind = "load" /\ loading' = FALSE /\ toggling' = toggling /\ formOpen' = formOpen
        /\ editing' = editing /\ told' = told /\ reqs' = reqs \ {q}
    BY <1>4 DEF LoadSettles
  <2>2. submitting' \in {0, submitting}
    BY <1>4 DEF LoadSettles
  <2>3. Loaded(q, ok) /\ data' \in Table \cup {None}
    <3>1. CASE ok
      BY <1>1, <1>4, <2>1, <3>1 DEF LoadSettles, Loaded, Shaped
    <3>2. CASE ~ok
      BY <1>1, <1>4, <2>1, <3>2 DEF LoadSettles, Loaded, UiTyped
    <3> QED
      BY <3>1, <3>2
  <2>4. error' \in BOOLEAN
    BY <1>1, <1>4 DEF LoadSettles, UiTyped
  <2>5. UiTyped'
    BY <1>1, <1>2, <1>3, <2>1, <2>2, <2>3, <2>4 DEF UiTyped
  <2> QED
    BY <1>2, <2>3, <2>5
<1>5. CASE ToggleSettles(q, ok) \/ RemoveSettles(q, ok) \/ CreateSettles(q, ok)
  <2>1. /\ data' = data /\ error' = error /\ editing' = editing /\ toggling' \in {toggling, None}
        /\ formOpen' \in {formOpen, FALSE}
    BY <1>5 DEF ToggleSettles, RemoveSettles, CreateSettles
  <2>2. q.kind \in {"toggle", "remove", "create"}
    BY <1>5 DEF ToggleSettles, RemoveSettles, CreateSettles
  <2>3. submitting' \in {0, submitting}
    BY <1>5 DEF ToggleSettles, RemoveSettles, CreateSettles
  <2>4. IF ok THEN Reload(q) /\ told' = told ELSE Fails(q) /\ loading' = loading
    BY <1>5 DEF ToggleSettles, RemoveSettles, CreateSettles
  <2>5. /\ loading' \in BOOLEAN /\ told' \subseteq Row
        /\ Refused(q) \/ (ok /\ Followed(q))
    BY <1>1, <1>2, <2>1, <2>2, <2>4, Mutated
  <2>6. UiTyped'
    BY <1>1, <1>2, <1>3, <2>1, <2>3, <2>5 DEF UiTyped
  <2> QED
    BY <1>2, <2>5, <2>6
<1>6. CASE UpdateSettles(q)
  <2>1. /\ q.kind = "update" /\ submitting' = 0 /\ Fails(q)
        /\ data' = data /\ error' = error /\ loading' = loading /\ toggling' = toggling
        /\ formOpen' = formOpen /\ editing' = editing
    BY <1>6 DEF UpdateSettles
  <2>2. Refused(q)
    BY <1>1, <1>2, <2>1, Failed
  <2>3. told' \subseteq Row
    BY <1>1, <2>1 DEF Fails, Shaped, UiTyped
  <2>4. UiTyped'
    BY <1>1, <1>2, <1>3, <2>1, <2>3 DEF UiTyped
  <2> QED
    BY <1>2, <2>2, <2>4
<1> QED
  BY <1>4, <1>5, <1>6 DEF Settle

LEMMA SettleKeepsSheet ==
    ASSUME Sheet, NEW q \in reqs, NEW ok \in BOOLEAN, Settle(q, ok), ok => q.status = "ok"
    PROVE  Sheet'
<1>1. UiTyped /\ rows \in Table /\ ReqsTyped /\ Shapes /\ q \in Req
  BY TypeParts DEF Sheet, ReqsTyped
<1>2. /\ UiTyped' /\ page' = page /\ rows' = rows
      /\ Refused(q) \/ Loaded(q, ok) \/ Followed(q)
  BY Settled
<1>3. CASE reqs' = reqs \ {q}
  <2>1. ReqsTyped' /\ Shapes'
    BY <1>1, <1>3, Gone
  <2> QED
    BY <1>1, <1>2, <2>1, TypePartsNext DEF Sheet
<1>4. CASE \E a \in Req : Shaped(a) /\ a.id = q.id /\ reqs' = (reqs \ {q}) \cup {a}
  <2>1. ReqsTyped' /\ Shapes'
    BY <1>1, <1>4, Replaced
  <2> QED
    BY <1>1, <1>2, <2>1, TypePartsNext DEF Sheet
<1> QED
  BY <1>2, <1>3, <1>4 DEF Refused, Loaded, Followed, Abandoned, IsSent

------------------------------------------------------------------------------
(* What the user and others do.                                              *)

\* A click sends a request.
Clicked(n) ==
    /\ n.id = FreeId /\ IsSent(n, n.id, n.kind, n.row) /\ n.kind # "load" /\ n.row \in Row
    /\ reqs' = reqs \cup {n}
    /\ UNCHANGED <<page, data, error, rows, told>>

\* A page that is left takes with it what nobody would answer any more.
Left == {q \in reqs : q.kind # "load" /\ q.status = "sent"}

Reopened ==
    /\ data' = None /\ error' = FALSE
    /\ \E n : IsSent(n, FreeId, "load", None) /\
              reqs' = {[q EXCEPT !.heard = FALSE] : q \in Left} \cup {n}
    /\ told' = IF patient THEN {q.row : q \in Left} ELSE told
    /\ UNCHANGED <<page, rows>>

LEMMA Submits ==
    ASSUME Sheet, Room, NEW b \in BOOLEAN, Submit(b),
           UNCHANGED <<others, patient>>, acts' \in 0..MaxActs
    PROVE  UiTyped' /\ \E n : Clicked(n)
<1>1. FreeId \in 1..MaxReqs /\ UiTyped
  BY RoomForId, TypeParts DEF Sheet
<1>2. /\ submitting' = FreeId
      /\ UNCHANGED <<page, data, error, loading, toggling, formOpen, editing, rows, told>>
  BY DEF Submit
<1>3. PICK r \in Row :
        reqs' = reqs \cup {[Sent(FreeId, "create", r, "on") EXCEPT !.bad = b]}
  BY DEF Submit
<1>4. PICK i \in 1..MaxReqs : i = FreeId
  BY <1>1
<1>5. PICK n : n = [Sent(i, "create", r, "on") EXCEPT !.bad = b]
  OBVIOUS
<1>6. IsSent(n, i, "create", r) /\ reqs' = reqs \cup {n}
  BY <1>3, <1>4, <1>5, SentBad
<1>7. Clicked(n)
  BY <1>2, <1>4, <1>6 DEF Clicked, IsSent
<1>8. submitting' \in 0..MaxReqs
  BY <1>1, <1>2, BoundsAssumption
<1> QED
  BY <1>1, <1>2, <1>7, <1>8 DEF UiTyped

LEMMA Edits ==
    ASSUME Sheet, Room, Edit, UNCHANGED <<others, patient>>, acts' \in 0..MaxActs
    PROVE  UiTyped' /\ \E n : Clicked(n)
<1>1. FreeId \in 1..MaxReqs /\ UiTyped
  BY RoomForId, TypeParts DEF Sheet
<1>2. /\ submitting' = FreeId /\ editing \in Row
      /\ UNCHANGED <<page, data, error, loading, toggling, formOpen, editing, rows, told>>
  BY <1>1 DEF Edit, UiTyped
<1>3. PICK r \in Row : r = editing
  BY <1>2
<1>4. PICK i \in 1..MaxReqs : i = FreeId
  BY <1>1
<1>5. PICK n : n = [Sent(i, "update", r, "on") EXCEPT !.bad = TRUE]
  OBVIOUS
<1>6. IsSent(n, i, "update", r)
  BY <1>5, SentBad
<1>7. reqs' = reqs \cup {n}
  BY <1>3, <1>4, <1>5 DEF Edit
<1>8. Clicked(n)
  BY <1>2, <1>4, <1>6, <1>7 DEF Clicked, IsSent
<1>9. submitting' \in 0..MaxReqs
  BY <1>1, <1>2, BoundsAssumption
<1> QED
  BY <1>1, <1>2, <1>8, <1>9 DEF UiTyped

LEMMA RowClicks ==
    ASSUME Sheet, NEW r \in Row, Toggle(r) \/ Remove(r), UNCHANGED <<others, patient>>,
           acts' \in 0..MaxActs
    PROVE  UiTyped' /\ \E n : Clicked(n)
<1>1. FreeId \in 1..MaxReqs /\ UiTyped
  BY RoomForId, TypeParts DEF Sheet, Toggle, Remove, MayAct
<1>2. PICK kind \in {"toggle", "remove"}, to \in Mark :
        reqs' = reqs \cup {Sent(FreeId, kind, r, to)}
  <2>1. CASE Toggle(r)
    <3>1. PICK to \in Mark : to = IF Shown(r) = "off" THEN "on" ELSE "off"
      BY DEF Mark
    <3> QED
      BY <2>1, <3>1 DEF Toggle
  <2>2. CASE Remove(r)
    BY <2>2 DEF Remove, Mark
  <2> QED
    BY <2>1, <2>2
<1>3. /\ toggling' \in {toggling, r}
      /\ UNCHANGED <<page, data, error, loading, formOpen, editing, submitting, rows, told>>
  BY DEF Toggle, Remove, ui
<1>4. PICK n : n = Sent(FreeId, kind, r, to)
  OBVIOUS
<1>5. IsSent(n, FreeId, kind, r)
  BY <1>1, <1>4, SentFields
<1>6. Clicked(n)
  BY <1>2, <1>3, <1>4, <1>5 DEF Clicked, IsSent
<1> QED
  BY <1>1, <1>3, <1>6 DEF UiTyped

LEMMA Reopens ==
    ASSUME Sheet, Reopen, UNCHANGED <<others, patient>>, acts' \in 0..MaxActs
    PROVE  UiTyped' /\ Reopened
<1>1. /\ FreeId \in 1..MaxReqs /\ UiTyped /\ 0 \in 0..MaxReqs
      /\ \A q \in Left : q.row \in Row
  BY RoomForId, TypeParts, BoundsAssumption DEF Sheet, Reopen, MayAct, Left, Shapes, Shaped
<1>2. PICK n : n = Sent(FreeId, "load", None, "on")
  OBVIOUS
<1>3. IsSent(n, FreeId, "load", None)
  BY <1>1, <1>2, SentFields DEF Mark
<1>4. Reopened
  BY <1>2, <1>3 DEF Reopen, Reopened, Left
<1>5. told' \subseteq Row
  BY <1>1, <1>4 DEF Reopened, UiTyped
<1>6. /\ page' = page /\ data' = None /\ error' = FALSE /\ loading' = TRUE
      /\ toggling' = None /\ formOpen' = FALSE /\ editing' = None /\ submitting' = 0
  BY DEF Reopen
<1>7. UiTyped'
  BY <1>1, <1>5, <1>6 DEF UiTyped
<1> QED
  BY <1>4, <1>7

LEMMA Acts ==
    ASSUME Sheet, Act, UNCHANGED <<others, patient>>, acts' \in 0..MaxActs
    PROVE  /\ UiTyped' /\ MayAct /\ UNCHANGED <<page, rows>>
           /\ (\E n : Clicked(n)) \/ Reopened
<1>1. CASE \E n \in Row : Toggle(n) \/ Remove(n)
  <2>1. MayAct
    BY <1>1 DEF Toggle, Remove
  <2> QED
    BY <1>1, <2>1, RowClicks DEF Clicked
<1>2. CASE ServerForm \/ ToolCollectionForm \/ UserForm
  <2>1. PICK b \in BOOLEAN : Submit(b)
    BY <1>2 DEF ServerForm, ToolCollectionForm, UserForm, ServerBad
  <2>2. MayAct
    BY <2>1 DEF Submit
  <2> QED
    BY <2>1, <2>2, Submits DEF MayAct, Clicked
<1>3. CASE Edit
  <2>1. MayAct
    BY <1>3 DEF Edit
  <2> QED
    BY <1>3, <2>1, Edits DEF MayAct, Clicked
<1>4. CASE Reopen
  BY <1>4, Reopens DEF Reopen
<1> QED
  BY <1>1, <1>2, <1>3, <1>4 DEF Act

\* What is left behind is as it was, but that nobody waits for it.
LEMMA LeftBehind ==
    ASSUME Sheet, NEW r \in {[q EXCEPT !.heard = FALSE] : q \in Left}
    PROVE  \E q \in Left : /\ r = [q EXCEPT !.heard = FALSE]
                           /\ r \in Req /\ Shaped(r) /\ ~r.heard /\ r.id = q.id
                           /\ r.kind = q.kind /\ r.row = q.row /\ r.status = "sent"
<1>1. PICK q \in Left : r = [q EXCEPT !.heard = FALSE]
  OBVIOUS
<1>2. q \in Req /\ Shaped(q) /\ q.kind # "load" /\ q.status = "sent"
  BY DEF Left, Sheet, TypeOK, Shapes
<1>3. /\ r \in Req /\ r.heard = FALSE /\ r.id = q.id /\ r.kind = q.kind /\ r.row = q.row
      /\ r.status = q.status
  BY <1>1, <1>2 DEF Req
<1>4. Shaped(r)
  BY <1>2, <1>3 DEF Shaped
<1> QED
  BY <1>1, <1>2, <1>3, <1>4

LEMMA ActKeepsSheet ==
    ASSUME Sheet, Act, UNCHANGED <<others, patient>>, acts' \in 0..MaxActs
    PROVE  Sheet'
<1>1. UiTyped /\ rows \in Table /\ ReqsTyped /\ Shapes
  BY TypeParts DEF Sheet
<1>2. /\ UiTyped' /\ MayAct /\ page' = page /\ rows' = rows
      /\ (\E n : Clicked(n)) \/ Reopened
  BY Acts
<1>3. FreeId \in 1..MaxReqs /\ \A q \in reqs : q.id # FreeId
  BY <1>1, <1>2, RoomForId DEF MayAct
<1>4. CASE \E n : Clicked(n)
  <2>1. PICK n : Clicked(n)
    BY <1>4
  <2>2. n \in Req /\ Shaped(n) /\ n.id = FreeId /\ reqs' = reqs \cup {n}
    BY <2>1 DEF Clicked, IsSent
  <2>3. ReqsTyped' /\ Shapes'
    BY <1>1, <1>3, <2>2, Asked
  <2> QED
    BY <1>1, <1>2, <2>3, TypePartsNext DEF Sheet
<1>5. CASE Reopened
  <2>1. PICK n : IsSent(n, FreeId, "load", None) /\
                 reqs' = {[q EXCEPT !.heard = FALSE] : q \in Left} \cup {n}
    BY <1>5 DEF Reopened
  <2>2. n \in Req /\ Shaped(n) /\ n.id = FreeId /\ n.kind = "load"
    BY <2>1 DEF IsSent
  <2>3. ASSUME NEW r \in reqs', r # n
        PROVE  \E q \in reqs : /\ r = [q EXCEPT !.heard = FALSE]
                               /\ r \in Req /\ Shaped(r) /\ ~r.heard /\ r.id = q.id
    BY <2>1, <2>3, LeftBehind DEF Left
  <2>4. reqs' \subseteq Req /\ Shapes'
    BY <2>2, <2>3 DEF Shapes
  <2>5. ASSUME NEW x \in reqs', NEW y \in reqs', x.id = y.id PROVE x = y
    <3>1. CASE x = n \/ y = n
      BY <1>3, <2>2, <2>3, <2>5, <3>1
    <3>2. CASE x # n /\ y # n
      <4>1. PICK p \in reqs : x = [p EXCEPT !.heard = FALSE] /\ x.id = p.id
        BY <2>3, <3>2
      <4>2. PICK q \in reqs : y = [q EXCEPT !.heard = FALSE] /\ y.id = q.id
        BY <2>3, <3>2
      <4>3. p = q
        BY <1>1, <2>5, <4>1, <4>2 DEF ReqsTyped
      <4> QED
        BY <4>1, <4>2, <4>3
    <3> QED
      BY <3>1, <3>2
  <2>6. ReqsTyped'
    BY <2>4, <2>5 DEF ReqsTyped
  <2> QED
    BY <1>1, <1>2, <2>4, <2>6, TypePartsNext DEF Sheet
<1> QED
  BY <1>2, <1>4, <1>5

LEMMA SheetStep == ASSUME Sheet, [Next]_vars PROVE Sheet'
<1>1. UiTyped /\ rows \in Table /\ ReqsTyped /\ Shapes
  BY TypeParts DEF Sheet
<1>2. ASSUME NEW q \in reqs, Progress(q) PROVE Sheet'
  BY <1>2, ServeKeepsSheet, SettleKeepsSheet DEF Progress, Hear, GiveUp
<1>3. ASSUME Dialog, UNCHANGED <<others, patient, acts>> PROVE Sheet'
  <2>1. /\ page' = page /\ data' = data /\ error' = error /\ loading' = loading
        /\ toggling' = toggling /\ submitting' = submitting /\ rows' = rows /\ reqs' = reqs
        /\ told' = told
    BY <1>3 DEF Dialog, OpenForm, CloseForm, OpenEdit
  <2>2. formOpen' \in BOOLEAN
    BY <1>1, <1>3 DEF Dialog, OpenForm, CloseForm, OpenEdit, UiTyped
  <2>3. editing' \in Row \cup {None}
    BY <1>1, <1>3 DEF Dialog, OpenForm, CloseForm, OpenEdit, UiTyped
  <2>4. UiTyped'
    BY <1>1, <1>3, <2>1, <2>2, <2>3 DEF UiTyped
  <2>5. ReqsTyped' /\ Shapes'
    BY <1>1, <2>1 DEF ReqsTyped, Shapes
  <2> QED
    BY <1>1, <2>1, <2>4, <2>5, TypePartsNext DEF Sheet
<1>4. ASSUME acts < MaxActs, acts' = acts + 1 PROVE acts' \in 0..MaxActs
  BY <1>1, <1>4, BoundsAssumption DEF UiTyped
<1>5. ASSUME NEW n \in Row, Foreign(n), acts' \in 0..MaxActs, patient' = patient PROVE Sheet'
  <2>1. PICK m \in Marks : rows' = [rows EXCEPT ![n] = m]
    BY <1>5 DEF Foreign
  <2>2. rows' \in Table
    BY <1>1, <2>1 DEF Table, Marks, Mark
  <2>3. UNCHANGED <<ui, reqs, told>> /\ others' \subseteq Row
    BY <1>1, <1>5 DEF Foreign, UiTyped
  <2>4. UiTyped'
    BY <1>1, <1>5, <2>3 DEF UiTyped, ui
  <2>5. ReqsTyped' /\ Shapes'
    BY <1>1, <2>3 DEF ReqsTyped, Shapes, ui
  <2> QED
    BY <2>2, <2>4, <2>5, TypePartsNext DEF Sheet
<1>6. CASE UNCHANGED vars
  <2>1. UNCHANGED <<ui, rows, reqs, told, others, patient, acts>>
    BY <1>6 DEF vars
  <2>2. UiTyped' /\ rows' = rows
    BY <1>1, <2>1 DEF UiTyped, ui
  <2>3. ReqsTyped' /\ Shapes'
    BY <1>1, <2>1 DEF ReqsTyped, Shapes, ui
  <2> QED
    BY <1>1, <2>2, <2>3, TypePartsNext DEF Sheet
<1> QED
  BY <1>2, <1>3, <1>4, <1>5, <1>6, ActKeepsSheet DEF Next

LEMMA SheetAtFirst == ASSUME Init PROVE Sheet /\ \A q \in reqs : IsSent(q, 1, "load", None)
<1>1. PICK n : n = Sent(1, "load", None, "on")
  OBVIOUS
<1>2. IsSent(n, 1, "load", None)
  BY <1>1, SentFields, BoundsAssumption DEF Mark
<1>3. reqs = {n}
  BY <1>1 DEF Init
<1>4. ReqsTyped /\ Shapes
  BY <1>2, <1>3 DEF ReqsTyped, Shapes, IsSent
<1>5. rows \in Table
  BY DEF Init, Table, Marks, Mark
<1>6. acts \in 0..MaxActs /\ submitting \in 0..MaxReqs /\ patient \in BOOLEAN
  BY BoundsAssumption DEF Init
<1>7. UiTyped
  BY <1>6 DEF Init, UiTyped
<1> QED
  BY <1>2, <1>3, <1>4, <1>5, <1>7, TypeParts DEF Sheet

LEMMA AlwaysSheet == Spec => []Sheet
BY SheetAtFirst, SheetStep, PTL DEF Spec

\* A page, the rows of the gateway and the requests between them are always
\* well-formed, and no two requests in flight are taken for one another.
THEOREM SheetsTyped == Spec => []TypeOK
<1>1. Sheet => TypeOK
  BY DEF Sheet
<1> QED
  BY <1>1, AlwaysSheet, PTL

------------------------------------------------------------------------------
(* What a user who waits is shown.                                           *)

\* Rows that only this user has changed, without being shown an error.
Silent == Row \ (told \cup others)

\* One thing at a time is awaited.
Alone == \A q, r \in Waiting : q = r

\* About what the client has given up on, an error was shown.
AbandonedTold == \A q \in reqs \ Waiting : q.status = "sent" /\ q.row \in told

\* The answer on its way is what the gateway would say now,
AnswersRight ==
    \A q \in Waiting : q.kind = "load" /\ q.status = "ok" =>
        \A n \in Silent : q.table[n] = Served(rows)[n]

\* and so is the table, unless its end is still to be handled.
Due(n) == \E q \in Waiting : q.kind = "load" \/ q.row = n

TableOK == error \/ \A n \in Silent : Due(n) \/ Shown(n) = Served(rows)[n]

Honest == patient => Alone /\ AbandonedTold /\ AnswersRight /\ TableOK

\* What the gateway says of a row goes by that row.
LEMMA ServedSame ==
    ASSUME rows \in Table, rows' \in Table, page' = page, NEW n \in Row, rows'[n] = rows[n]
    PROVE  Served(rows)'[n] = Served(rows)[n]
BY DEF Served, Table

LEMMA ShownSame == ASSUME data' = data PROVE \A n : Shown(n)' = Shown(n)
BY DEF Shown

LEMMA ServeHonest ==
    ASSUME Sheet, Honest, patient, NEW q \in reqs, Serve(q)
    PROVE  Honest'
<1>1. /\ UiTyped /\ rows \in Table /\ ReqsTyped /\ q \in Req /\ Shaped(q)
      /\ Alone /\ AbandonedTold /\ AnswersRight /\ TableOK
  BY TypeParts DEF Sheet, ReqsTyped, Shapes, Honest
<1>2. /\ rows' \in Table /\ UNCHANGED <<ui, told, others, patient, acts>>
      /\ q.kind = "load" => rows' = rows
      /\ \A n \in Row : n # q.row => rows'[n] = rows[n]
      /\ \/ ~q.heard /\ reqs' = reqs \ {q}
         \/ /\ q.heard
            /\ \E a \in Req : Shaped(a) /\ Answers(q, a) /\ reqs' = (reqs \ {q}) \cup {a}
  BY <1>1, Serves
<1>3. /\ page' = page /\ data' = data /\ error' = error /\ patient' = patient /\ told' = told
      /\ Silent' = Silent
  BY <1>2 DEF ui, Silent
<1>4. \A n : Shown(n)' = Shown(n)
  BY <1>3, ShownSame
<1>5. \A n \in Row : n # q.row \/ q.kind = "load" => Served(rows)'[n] = Served(rows)[n]
  BY <1>1, <1>2, <1>3, ServedSame
<1>6. CASE ~q.heard /\ reqs' = reqs \ {q}
  <2>1. Waiting' = Waiting
    BY <1>6 DEF Waiting
  <2>2. \A n \in Silent : Served(rows)'[n] = Served(rows)[n]
    BY <1>1, <1>5, <1>6 DEF AbandonedTold, Waiting, Silent
  <2>3. Alone' /\ AbandonedTold'
    BY <1>1, <1>3, <1>6, <2>1 DEF Alone, AbandonedTold
  <2>4. AnswersRight'
    BY <1>1, <1>3, <2>1, <2>2 DEF AnswersRight
  <2>5. TableOK'
    BY <1>1, <1>3, <1>4, <2>1, <2>2 DEF TableOK, Due
  <2> QED
    BY <2>3, <2>4, <2>5 DEF Honest
<1>7. CASE q.heard /\ \E a \in Req : Answers(q, a) /\ reqs' = (reqs \ {q}) \cup {a}
  <2>1. PICK a \in Req : Answers(q, a) /\ reqs' = (reqs \ {q}) \cup {a}
    BY <1>7
  <2>2. Waiting = {q} /\ Waiting' = {a} /\ reqs' \ Waiting' = reqs \ Waiting
    <3>1. a.heard
      BY <1>7, <2>1 DEF Answers
    <3>2. Waiting = {q}
      BY <1>1, <1>7 DEF Waiting, Alone
    <3>3. Waiting' = {a}
      BY <2>1, <3>1, <3>2 DEF Waiting
    <3>4. a \notin reqs \ {q}
      BY <1>1, <2>1, <3>1, <3>2 DEF Waiting
    <3> QED
      BY <2>1, <3>2, <3>3, <3>4
  <2>3. Alone' /\ AbandonedTold'
    BY <1>1, <1>3, <2>2 DEF Alone, AbandonedTold
  <2>4. AnswersRight'
    BY <1>1, <1>3, <1>5, <2>1, <2>2 DEF AnswersRight, Answers, Silent
  <2>5. TableOK'
    <3>1. ASSUME NEW n \in Silent', ~error'
          PROVE  Due(n)' \/ Shown(n)' = Served(rows)'[n]
      <4>1. CASE q.kind = "load" \/ q.row = n
        BY <2>1, <2>2, <4>1 DEF Due, Answers
      <4>2. CASE q.kind # "load" /\ q.row # n
        <5>1. ~Due(n) /\ n \in Silent /\ n \in Row
          BY <1>3, <2>2, <3>1, <4>2 DEF Due, Silent
        <5>2. Shown(n) = Served(rows)[n]
          BY <1>1, <1>3, <3>1, <5>1 DEF TableOK
        <5> QED
          BY <1>4, <1>5, <4>2, <5>1, <5>2
      <4> QED
        BY <4>1, <4>2
    <3> QED
      BY <3>1 DEF TableOK
  <2> QED
    BY <2>3, <2>4, <2>5 DEF Honest
<1> QED
  BY <1>2, <1>6, <1>7

LEMMA SettleHonest ==
    ASSUME Sheet, Honest, patient, NEW q \in reqs, NEW ok \in BOOLEAN, Settle(q, ok),
           ok => q.status = "ok"
    PROVE  Honest'
<1>1. /\ UiTyped /\ rows \in Table /\ ReqsTyped /\ q \in Req /\ Shaped(q)
      /\ Alone /\ AbandonedTold /\ AnswersRight /\ TableOK
  BY TypeParts DEF Sheet, ReqsTyped, Shapes, Honest
<1>2. /\ page' = page /\ rows' = rows /\ others' = others /\ patient' = patient /\ q.heard
      /\ Refused(q) \/ Loaded(q, ok) \/ Followed(q)
  BY Settled
<1>3. Served(rows)' = Served(rows)
  BY <1>2 DEF Served
<1>4. Waiting = {q} /\ reqs \ Waiting = reqs \ {q}
  BY <1>1, <1>2 DEF Waiting, Alone
<1>5. CASE Refused(q)
  <2>1. /\ q.kind # "load" /\ told' = told \cup {q.row} /\ data' = data /\ error' = error
        /\ \/ reqs' = reqs \ {q}
           \/ \E a : Abandoned(q, a) /\ reqs' = (reqs \ {q}) \cup {a}
    BY <1>5 DEF Refused
  <2>2. Waiting' = {} /\ \A r \in reqs' : r.status = "sent" /\ r.row \in told'
    BY <1>1, <1>4, <2>1 DEF Waiting, AbandonedTold, Abandoned
  <2>3. Alone' /\ AbandonedTold' /\ AnswersRight'
    BY <2>2 DEF Alone, AbandonedTold, AnswersRight
  <2>4. \A n : Shown(n)' = Shown(n)
    BY <2>1, ShownSame
  <2>5. Silent' \subseteq Silent \ {q.row}
    BY <1>2, <2>1 DEF Silent
  <2>6. \A n \in Silent' : ~Due(n)
    BY <1>4, <2>1, <2>5 DEF Due
  <2>7. TableOK'
    BY <1>1, <1>3, <2>1, <2>4, <2>5, <2>6 DEF TableOK
  <2> QED
    BY <2>3, <2>7 DEF Honest
<1>6. CASE Loaded(q, ok)
  <2>1. /\ q.kind = "load" /\ told' = told /\ reqs' = reqs \ {q}
        /\ IF ok THEN data' = q.table ELSE error' = TRUE
    BY <1>6 DEF Loaded
  <2>2. Waiting' = {} /\ reqs' \ Waiting' = reqs \ Waiting /\ Silent' = Silent
    BY <1>2, <1>4, <2>1 DEF Waiting, Silent
  <2>3. Alone' /\ AbandonedTold' /\ AnswersRight'
    BY <1>1, <2>1, <2>2 DEF Alone, AbandonedTold, AnswersRight
  <2>4. TableOK'
    <3>1. CASE ok
      <4>1. q.table \in Table /\ data' = q.table /\ q.table # None
        BY <1>1, <2>1, <3>1, TableAssumption DEF Shaped
      <4>2. \A n : Shown(n)' = q.table[n]
        BY <4>1 DEF Shown
      <4>3. \A n \in Silent : q.table[n] = Served(rows)[n]
        BY <1>1, <1>4, <2>1, <3>1 DEF AnswersRight
      <4> QED
        BY <1>3, <2>2, <4>2, <4>3 DEF TableOK
    <3>2. CASE ~ok
      BY <2>1, <3>2 DEF TableOK
    <3> QED
      BY <3>1, <3>2
  <2> QED
    BY <2>3, <2>4 DEF Honest
<1>7. CASE Followed(q)
  <2>1. /\ told' = told
        /\ \E n : IsSent(n, q.id, "load", None) /\ reqs' = (reqs \ {q}) \cup {n}
    BY <1>7 DEF Followed
  <2>2. PICK n : IsSent(n, q.id, "load", None) /\ reqs' = (reqs \ {q}) \cup {n}
    BY <2>1
  <2>3. Waiting' = {n} /\ n.kind = "load" /\ n.status = "sent"
    BY <1>4, <2>2 DEF Waiting, IsSent
  <2>4. \A r \in reqs' \ Waiting' : r \in reqs \ Waiting
    BY <1>4, <2>2, <2>3
  <2>5. Alone' /\ AbandonedTold' /\ AnswersRight'
    BY <1>1, <2>1, <2>3, <2>4 DEF Alone, AbandonedTold, AnswersRight
  <2>6. TableOK'
    BY <2>3 DEF TableOK, Due
  <2> QED
    BY <2>5, <2>6 DEF Honest
<1> QED
  BY <1>2, <1>5, <1>6, <1>7

\* A user who waits clicks only when nothing is awaited.
LEMMA ActHonest ==
    ASSUME Sheet, Honest, patient, Act, UNCHANGED <<others, patient>>, acts' \in 0..MaxActs
    PROVE  Honest'
<1>1. /\ UiTyped /\ rows \in Table /\ ReqsTyped
      /\ Alone /\ AbandonedTold /\ AnswersRight /\ TableOK
  BY TypeParts DEF Sheet, Honest
<1>2. /\ MayAct /\ Waiting = {} /\ page' = page /\ rows' = rows
      /\ (\E n : Clicked(n)) \/ Reopened
  BY Acts DEF MayAct
<1>3. Served(rows)' = Served(rows)
  BY <1>2 DEF Served
<1>4. CASE \E n : Clicked(n)
  <2>1. PICK n : Clicked(n)
    BY <1>4
  <2>2. /\ n.heard /\ n.status = "sent" /\ reqs' = reqs \cup {n}
        /\ data' = data /\ error' = error /\ told' = told
    BY <2>1 DEF Clicked, IsSent
  <2>3. Waiting' = {n} /\ Silent' = Silent
    BY <1>2, <2>2 DEF Waiting, Silent
  <2>4. Alone' /\ AbandonedTold' /\ AnswersRight'
    BY <1>1, <1>2, <2>2, <2>3 DEF Alone, AbandonedTold, AnswersRight
  <2>5. \A m : Shown(m)' = Shown(m)
    BY <2>2, ShownSame
  <2>6. \A m : ~Due(m)
    BY <1>2 DEF Due
  <2>7. TableOK'
    BY <1>1, <1>3, <2>2, <2>3, <2>5, <2>6 DEF TableOK
  <2> QED
    BY <2>4, <2>7 DEF Honest
<1>5. CASE Reopened
  <2>1. PICK n : IsSent(n, FreeId, "load", None) /\
                 reqs' = {[q EXCEPT !.heard = FALSE] : q \in Left} \cup {n}
    BY <1>5 DEF Reopened
  <2>2. told' = {q.row : q \in Left}
    BY <1>5 DEF Reopened
  <2>3. n.heard /\ n.kind = "load" /\ n.status = "sent"
    BY <2>1 DEF IsSent
  <2>4. ASSUME NEW r \in reqs', r # n
        PROVE  ~r.heard /\ r.status = "sent" /\ r.row \in told'
    <3>1. PICK q \in Left : ~r.heard /\ r.row = q.row /\ r.status = "sent"
      BY <2>1, <2>4, LeftBehind
    <3> QED
      BY <2>2, <3>1
  <2>5. Waiting' = {n}
    BY <2>1, <2>3, <2>4 DEF Waiting
  <2>6. Alone' /\ AbandonedTold' /\ AnswersRight'
    BY <2>3, <2>4, <2>5 DEF Alone, AbandonedTold, AnswersRight
  <2>7. TableOK'
    BY <2>3, <2>5 DEF TableOK, Due
  <2> QED
    BY <2>6, <2>7 DEF Honest
<1> QED
  BY <1>2, <1>4, <1>5

LEMMA HonestStep == ASSUME Sheet, Honest, [Next]_vars PROVE Honest'
<1>1. patient' = patient
  BY DEF Next, Progress, Serve, Hear, GiveUp, Settle, vars
<1>2. CASE ~patient
  BY <1>1, <1>2 DEF Honest
<1>3. CASE patient
  <2>1. UiTyped /\ rows \in Table /\ Alone /\ AbandonedTold /\ AnswersRight /\ TableOK
    BY <1>3, TypeParts DEF Sheet, Honest
  <2>2. ASSUME NEW q \in reqs, Progress(q) PROVE Honest'
    BY <1>3, <2>2, ServeHonest, SettleHonest DEF Progress, Hear, GiveUp
  <2>3. ASSUME page' = page, data' = data, error' = error, reqs' = reqs, told' = told,
               rows' = rows, others' = others
        PROVE  Honest'
    <3>1. Waiting' = Waiting /\ Silent' = Silent /\ Served(rows)' = Served(rows)
      BY <2>3 DEF Waiting, Silent, Served
    <3>2. \A n : Shown(n)' = Shown(n)
      BY <2>3, ShownSame
    <3>3. Alone' /\ AbandonedTold' /\ AnswersRight'
      BY <2>1, <2>3, <3>1 DEF Alone, AbandonedTold, AnswersRight
    <3>4. TableOK'
      BY <2>1, <2>3, <3>1, <3>2 DEF TableOK, Due
    <3> QED
      BY <3>3, <3>4 DEF Honest
  <2>4. ASSUME Dialog, others' = others PROVE Honest'
    <3>1. /\ page' = page /\ data' = data /\ error' = error /\ reqs' = reqs /\ told' = told
          /\ rows' = rows
      BY <2>4 DEF Dialog, OpenForm, CloseForm, OpenEdit
    <3> QED
      BY <2>3, <2>4, <3>1
  <2>5. ASSUME acts < MaxActs, acts' = acts + 1 PROVE acts' \in 0..MaxActs
    BY <2>1, <2>5, BoundsAssumption DEF UiTyped
  <2>6. ASSUME NEW n \in Row, Foreign(n) PROVE Honest'
    <3>1. PICK m \in Marks : rows' = [rows EXCEPT ![n] = m]
      BY <2>6 DEF Foreign
    <3>2. rows' \in Table /\ \A r \in Row : r # n => rows'[r] = rows[r]
      BY <2>1, <3>1 DEF Table, Marks, Mark
    <3>3. /\ page' = page /\ data' = data /\ error' = error /\ reqs' = reqs /\ told' = told
          /\ others' = others \cup {n}
      BY <1>3, <2>6 DEF Foreign, ui
    <3>4. Waiting' = Waiting /\ Silent' = Silent \ {n}
      BY <3>3 DEF Waiting, Silent
    <3>5. \A r \in Silent' : Served(rows)'[r] = Served(rows)[r]
      BY <2>1, <3>2, <3>3, <3>4, ServedSame DEF Silent
    <3>6. \A r : Shown(r)' = Shown(r)
      BY <3>3, ShownSame
    <3>7. Alone' /\ AbandonedTold'
      BY <2>1, <3>3, <3>4 DEF Alone, AbandonedTold
    <3>8. AnswersRight'
      BY <2>1, <3>4, <3>5 DEF AnswersRight
    <3>9. TableOK'
      BY <2>1, <3>3, <3>4, <3>5, <3>6 DEF TableOK, Due
    <3> QED
      BY <3>7, <3>8, <3>9 DEF Honest
  <2>7. CASE UNCHANGED vars
    BY <2>3, <2>7 DEF vars, ui
  <2> QED
    BY <1>3, <2>2, <2>4, <2>5, <2>6, <2>7, ActHonest DEF Next
<1> QED
  BY <1>2, <1>3

LEMMA HonestAtFirst == ASSUME Init PROVE Honest
<1>1. \A q \in reqs : IsSent(q, 1, "load", None)
  BY SheetAtFirst
<1>2. reqs # {} /\ \A q, r \in reqs : q = r
  BY DEF Init
<1>3. Waiting = reqs /\ \A q \in Waiting : q.kind = "load" /\ q.status = "sent"
  BY <1>1 DEF Waiting, IsSent
<1>4. Alone /\ AbandonedTold /\ AnswersRight
  BY <1>2, <1>3 DEF Alone, AbandonedTold, AnswersRight
<1>5. TableOK
  BY <1>2, <1>3 DEF TableOK, Due
<1> QED
  BY <1>4, <1>5 DEF Honest

\* A page that shows rows is not the page of an error.
LEMMA ErrorHidesRows == error => View \notin {"table", "list", "figures"}
BY DEF View

\* Who waits and is alone reads in the table what the gateway says, or was
\* shown an error about the row.
THEOREM ReadIsServed == Spec => []ShownOrTold
<1>1. Sheet /\ Honest /\ [Next]_vars => Honest'
  BY HonestStep
<1>2. Spec => []Honest
  BY <1>1, HonestAtFirst, AlwaysSheet, PTL DEF Spec
<1>3. ASSUME Honest PROVE ShownOrTold
  <2>1. ASSUME patient, reqs = {}, View \in {"table", "list", "figures"}, NEW n \in Row
        PROVE  Shown(n) = Served(rows)[n] \/ n \in told \cup others
    <3>1. ~error
      BY <2>1, ErrorHidesRows
    <3>2. ~Due(n)
      BY <2>1 DEF Due, Waiting
    <3> QED
      BY <1>3, <2>1, <3>1, <3>2 DEF Honest, TableOK, Silent
  <2> QED
    BY <2>1 DEF ShownOrTold
<1> QED
  BY <1>2, <1>3, PTL
================================================================================
