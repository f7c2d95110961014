------------------------- MODULE DeviceTokens_proofs -------------------------
(* Proofs about device tokens and their page, for any servers and bounds: no  *)
(* working token is unknown to who asked for it, and what was revoked stays   *)
(* revoked.                                                                   *)
EXTENDS DeviceTokens, TLAPS

\* A create request knows its row from the insert on, and the answer of a load
\* the table.
Informed ==
    \A q \in reqs :
        /\ q.kind = "create" => IF q.step = "sent" THEN q.id = None ELSE q.id \in Token
        /\ q.kind = "load" => IF q.step = "sent" THEN q.rows = None ELSE q.rows \in Table

\* The page shows that it loads only while the answer may come.
LoadAwaited == loading => \E q \in reqs : q.kind = "load" /\ q.heard

\* What is on the screen was seen.
DisplayedSeen == Displayed \subseteq seen

\* Who waits awaits one answer at a time.
OneAwaited == patient => \A q, r \in Awaited : q = r

\* Who waits has been told of every creation that went on without him.
AbandonedTold ==
    patient => \A q \in reqs : q.kind = "create" /\ ~q.heard /\ q.id # None => q.id \in told

IInv == TypeOK /\ Informed /\ LoadAwaited /\ DisplayedSeen /\ OneAwaited
        /\ AbandonedTold /\ SecretSeenOrTold

USE BoundsAssumption, NoneAssumption

------------------------------------------------------------------------------
(* The gateway's steps leave the view alone and nobody's answer out.         *)

LEMMA ViewKept ==
    ASSUME UNCHANGED view
    PROVE  View' = View /\ Displayed' = Displayed /\ UNCHANGED <<createdToken, loading>>
BY DEF View, Displayed, view, form

LEMMA ReqShape ==
    ASSUME NEW q \in Req
    PROVE  /\ \A s \in {"sent", "inserted", "saved", "ok"} :
                /\ [q EXCEPT !.step = s] \in Req
                /\ [q EXCEPT !.step = s].step = s
                /\ [q EXCEPT !.step = s].kind = q.kind
                /\ [q EXCEPT !.step = s].heard = q.heard
                /\ [q EXCEPT !.step = s].id = q.id
           /\ [q EXCEPT !.heard = FALSE] \in Req
           /\ [q EXCEPT !.heard = FALSE].heard = FALSE
           /\ [q EXCEPT !.heard = FALSE].kind = q.kind
           /\ [q EXCEPT !.heard = FALSE].step = q.step
           /\ [q EXCEPT !.heard = FALSE].id = q.id
           /\ [q EXCEPT !.heard = FALSE].rows = q.rows
BY DEF Req

\* A request that is replaced by one like it, or answered, with its row as it
\* was or less of a working one, keeps all that is said about requests.
LEMMA ServedKeeps ==
    ASSUME IInv, NEW q \in reqs, NEW r \in Req, UNCHANGED <<view, patient, acts, seen, lastId>>,
           r.kind = q.kind, r.heard = q.heard,
           reqs' = Replace(q, r) \/ (reqs' = reqs \ {q} /\ ~q.heard),
           r.kind = "create" => r.id \in Token /\ r.step # "sent" /\ q.id = r.id,
           r.kind # "create" => q.id = r.id,
           r.kind = "load" => r.rows \in Table /\ r.step # "sent",
           told' = told,
           token' \in [Token -> TokenRow \cup {None}],
           \A i \in Token : token'[i] # None /\ token'[i].ready /\ token'[i].status = "active" =>
               \/ token[i] # None /\ token[i].ready /\ token[i].status = "active"
               \/ r.kind = "create" /\ i = r.id
    PROVE  IInv'
<1>1. TypeOK'
  BY DEF IInv, TypeOK, view, form, Replace
<1>2. Informed'
  BY DEF IInv, Informed, Replace
<1>3. LoadAwaited' /\ DisplayedSeen'
  BY ViewKept DEF IInv, LoadAwaited, DisplayedSeen, Replace
<1>4. OneAwaited'
  <2>1. Awaited' \subseteq (Awaited \ {q}) \cup {r}
    BY DEF Awaited, Replace
  <2>2. r \in Awaited' => q \in Awaited
    BY DEF Awaited, Replace
  <2> QED
    BY <2>1, <2>2 DEF IInv, OneAwaited
<1>5. AbandonedTold'
  BY DEF IInv, AbandonedTold, Replace
<1>6. SecretSeenOrTold'
  <2> SUFFICES ASSUME patient, NEW i \in Token, i # 1, token'[i] # None, token'[i].ready,
                      token'[i].status = "active", i \notin seen \cup told,
                      ~(createdToken = i /\ loading)
               PROVE  \E p \in reqs' : p.kind = "create" /\ p.id = i
    BY ViewKept DEF SecretSeenOrTold, Rows
  <2>1. \E p \in reqs : p.kind = "create" /\ p.id = i
    BY DEF IInv, SecretSeenOrTold, Rows
  <2>2. PICK p \in reqs : p.kind = "create" /\ p.id = i
    BY <2>1
  <2>3. CASE p # q
    BY <2>2, <2>3 DEF Replace
  <2>4. CASE p = q /\ reqs' = Replace(q, r)
    BY <2>2, <2>4 DEF Replace
  <2>5. CASE p = q /\ reqs' = reqs \ {q} /\ ~q.heard
    BY <2>2, <2>5 DEF IInv, AbandonedTold, TypeOK, Token
  <2> QED
    BY <2>3, <2>4, <2>5
<1> QED
  BY <1>1, <1>2, <1>3, <1>4, <1>5, <1>6 DEF IInv

LEMMA InsertKeeps ==
    ASSUME IInv, NEW q \in reqs, Insert(q), UNCHANGED <<view, patient, acts>>
    PROVE  IInv'
<1> DEFINE r == [q EXCEPT !.step = "inserted", !.id = lastId']
           row == [ready |-> FALSE, status |-> "active", scope |-> q.scope, granted |-> {}]
<1>1. q \in Req /\ lastId' \in Token /\ lastId' = lastId + 1
  BY DEF IInv, TypeOK, Insert, Token
<1>2. /\ r \in Req /\ r.step = "inserted" /\ r.id = lastId' /\ r.kind = "create"
      /\ r.heard = q.heard
  BY <1>1 DEF Req, Insert
<1>3. row \in TokenRow /\ ~row.ready
  BY <1>1 DEF TokenRow, Req
<1>4. token' = [token EXCEPT ![lastId'] = row] /\ reqs' = Replace(q, r)
  BY DEF Insert
<1>5. /\ token' \in [Token -> TokenRow \cup {None}]
      /\ ~token'[lastId'].ready
      /\ \A i \in Token \ {lastId'} : token'[i] = token[i]
  BY <1>1, <1>3, <1>4 DEF IInv, TypeOK
<1>6. told' = IF q.heard \/ ~patient THEN told ELSE told \cup {lastId'}
  BY DEF Insert
<1> HIDE DEF r, row
<1>7. TypeOK'
  BY <1>1, <1>2, <1>4, <1>5, <1>6
     DEF IInv, TypeOK, view, form, Replace, Insert
<1>8. Informed'
  BY <1>1, <1>2, <1>4 DEF IInv, Informed, Replace
<1>9. LoadAwaited' /\ DisplayedSeen'
  <2>1. q.kind = "create" /\ seen' = seen
    BY DEF Insert
  <2> QED
    BY <1>4, <2>1, ViewKept DEF IInv, LoadAwaited, DisplayedSeen, Replace
<1>10. OneAwaited'
  <2>1. Awaited' \subseteq (Awaited \ {q}) \cup {r} /\ (r \in Awaited' => q \in Awaited)
    BY <1>2, <1>4 DEF Awaited, Replace
  <2> QED
    BY <2>1 DEF IInv, OneAwaited
<1>11. AbandonedTold'
  BY <1>2, <1>4, <1>6 DEF IInv, AbandonedTold, Replace
<1>12. SecretSeenOrTold'
  <2> SUFFICES ASSUME patient, NEW i \in Token, i # 1, token'[i] # None, token'[i].ready,
                      token'[i].status = "active", i \notin seen \cup told',
                      ~(createdToken = i /\ loading)
               PROVE  \E p \in reqs' : p.kind = "create" /\ p.id = i
    BY ViewKept DEF SecretSeenOrTold, Rows, Insert
  <2>1. i # lastId' /\ token'[i] = token[i] /\ i \notin told
    BY <1>5, <1>6
  <2>2. PICK p \in reqs : p.kind = "create" /\ p.id = i
    BY <2>1 DEF IInv, SecretSeenOrTold, Rows
  <2>3. p # q
    BY <2>2, NoneAssumption DEF IInv, Informed, Insert, Token
  <2> QED
    BY <2>2, <2>3, <1>4 DEF Replace
<1> QED
  BY <1>7, <1>8, <1>9, <1>10, <1>11, <1>12 DEF IInv

LEMMA ServeKeeps ==
    ASSUME IInv, NEW q \in reqs, Serve(q), UNCHANGED <<view, patient, acts>>
    PROVE  IInv'
<1>1. q \in Req /\ reqs \subseteq Req
  BY DEF IInv, TypeOK
<1>2. CASE Insert(q)
  BY <1>2, InsertKeeps
<1>3. CASE Save(q)
  <2> DEFINE r == [q EXCEPT !.step = "saved"]
             row == [ready |-> TRUE, status |-> "active", scope |-> q.scope, granted |-> {}]
  <2>1. r \in Req /\ r.step = "saved" /\ r.kind = "create" /\ r.id = q.id /\ r.heard = q.heard
    BY <1>1, <1>3, ReqShape DEF Save
  <2>2. q.id \in Token
    BY <1>3 DEF IInv, Informed, Save
  <2>3. row \in TokenRow
    BY <1>1 DEF Req, TokenRow
  <2>4. token' = [token EXCEPT ![q.id] = row] /\ reqs' = Replace(q, r)
    BY <1>3 DEF Save
  <2>5. /\ token' \in [Token -> TokenRow \cup {None}]
        /\ \A i \in Token \ {q.id} : token'[i] = token[i]
    BY <2>2, <2>3, <2>4 DEF IInv, TypeOK
  <2>6. reqs' = Replace(q, r) /\ UNCHANGED <<lastId, seen, told>>
    BY <1>3 DEF Save
  <2>7. q.kind = "create"
    BY <1>3 DEF Save
  <2> HIDE DEF r, row
  <2> QED
    BY <2>1, <2>2, <2>5, <2>6, <2>7, ServedKeeps
<1>4. CASE Grant(q)
  <2> DEFINE r == [q EXCEPT !.step = "ok"]
             g == IF q.scope = "restricted" THEN q.asked ELSE {}
  <2>1. r \in Req /\ r.step = "ok" /\ r.kind = "create" /\ r.id = q.id /\ r.heard = q.heard
    BY <1>1, <1>4, ReqShape DEF Grant
  <2>2. q.id \in Token
    BY <1>4 DEF IInv, Informed, Grant
  <2>3. token[q.id] # None => [token[q.id] EXCEPT !.granted = g] \in TokenRow
    BY <1>1, <2>2 DEF IInv, TypeOK, TokenRow, Req
  <2>4. token' = IF token[q.id] = None THEN token
                 ELSE [token EXCEPT ![q.id] = [token[q.id] EXCEPT !.granted = g]]
    BY <1>4 DEF Grant
  <2> HIDE DEF g
  <2>5. /\ token' \in [Token -> TokenRow \cup {None}]
        /\ \A i \in Token \ {q.id} : token'[i] = token[i]
    BY <2>2, <2>3, <2>4 DEF IInv, TypeOK
  <2>6. reqs' = Replace(q, r) \/ (reqs' = reqs \ {q} /\ ~q.heard)
    BY <1>4 DEF Grant, Answered, Replace
  <2> HIDE DEF r
  <2> QED
    BY <1>4, <2>1, <2>2, <2>5, <2>6, ServedKeeps DEF Grant
<1>5. CASE List(q)
  <2> DEFINE t == IF Rows = {} THEN "empty" ELSE "filled"
             r == [[q EXCEPT !.rows = t] EXCEPT !.step = "ok"]
  <2>1. t \in Table
    BY DEF Table
  <2> HIDE DEF t
  <2>2. [q EXCEPT !.rows = t] \in Req
    BY <1>1, <2>1 DEF Req
  <2>3. r \in Req /\ r.kind = q.kind /\ q.kind = "load" /\ r.id = q.id /\ r.heard = q.heard
        /\ r.step = "ok" /\ r.rows = t
    BY <1>1, <1>5, <2>2 DEF List, Req
  <2>4. reqs' = Replace(q, r) \/ (reqs' = reqs \ {q} /\ ~q.heard)
    BY <1>5 DEF List, Answered, Replace, t
  <2>5. token' = token /\ token \in [Token -> TokenRow \cup {None}]
    BY <1>5 DEF List, server, IInv, TypeOK
  <2> HIDE DEF r
  <2> QED
    BY <1>5, <2>1, <2>3, <2>4, <2>5, ServedKeeps DEF List, server
<1> QED
  BY <1>2, <1>3, <1>4, <1>5 DEF Serve

------------------------------------------------------------------------------
(* The page's steps leave the gateway alone.                                 *)

LEMMA LoadSent ==
    /\ Sent("load") \in Req /\ Sent("load").kind = "load" /\ Sent("load").heard
    /\ Sent("load").step = "sent" /\ Sent("load").rows = None
BY DEF Sent, Req

LEMMA DialogKeeps ==
    ASSUME IInv, Dialog, UNCHANGED <<server, seen, told, patient, acts>>
    PROVE  IInv'
<1>1. UNCHANGED <<reqs, token, lastId, data, error, loading, seen, told, patient, acts>>
  BY DEF Dialog, OpenCreate, CloseCreate, Dismiss, server
<1>2. /\ createOpen' \in BOOLEAN /\ submitting' \in BOOLEAN
      /\ createdToken' = createdToken \/ (createdToken' = None /\ View = "page")
  BY DEF Dialog, OpenCreate, CloseCreate, Dismiss, IInv, TypeOK
<1>3. TypeOK'
  BY <1>1, <1>2 DEF IInv, TypeOK
<1>4. View' = View /\ Awaited' = Awaited
  BY <1>1 DEF View, Awaited
<1>5. Informed' /\ AbandonedTold' /\ LoadAwaited' /\ OneAwaited'
  BY <1>1, <1>4 DEF IInv, Informed, AbandonedTold, LoadAwaited, OneAwaited
<1>6. DisplayedSeen'
  BY <1>1, <1>2, <1>4 DEF IInv, DisplayedSeen, Displayed
\* The secret that is dismissed was on the screen.
<1>7. SecretSeenOrTold'
  <2>1. \A i \in Token : createdToken = i => createdToken' = i \/ i \in seen
    BY <1>2, NoneAssumption DEF IInv, DisplayedSeen, Displayed, Token
  <2> QED
    BY <1>1, <2>1 DEF IInv, SecretSeenOrTold, Rows
<1> QED
  BY <1>3, <1>5, <1>6, <1>7 DEF IInv

LEMMA ReopenKeeps ==
    ASSUME IInv, Reopen, UNCHANGED <<server, seen, told, patient>>, acts' \in 0..MaxActs
    PROVE  IInv'
<1> DEFINE kept == {q \in reqs : q.kind # "load" /\ q.step # "ok"}
           quiet(q) == [q EXCEPT !.heard = FALSE]
<1>1. reqs' = {quiet(q) : q \in kept} \cup {Sent("load")}
  BY DEF Reopen
<1>2. \A q \in reqs : quiet(q) \in Req /\ quiet(q).kind = q.kind /\ quiet(q).step = q.step
                      /\ quiet(q).id = q.id /\ ~quiet(q).heard
  BY ReqShape DEF IInv, TypeOK
<1> HIDE DEF quiet
<1>3. reqs' \subseteq Req
  BY <1>1, <1>2, LoadSent
<1>4. TypeOK'
  BY <1>3 DEF IInv, TypeOK, Reopen, server, Table
<1>5. Informed'
  BY <1>1, <1>2, LoadSent DEF IInv, Informed
<1>6. LoadAwaited' /\ DisplayedSeen'
  BY <1>1, LoadSent DEF Reopen, LoadAwaited, DisplayedSeen, Displayed
<1>7. OneAwaited'
  BY <1>1, <1>2, LoadSent DEF OneAwaited, Awaited
<1>8. patient => \A q \in reqs : ~q.heard
  BY DEF Reopen, MayAct, Awaited
<1>9. AbandonedTold'
  BY <1>1, <1>2, <1>8, LoadSent DEF IInv, AbandonedTold
<1>10. SecretSeenOrTold'
  <2> SUFFICES ASSUME patient, NEW i \in Token \ {1}, token[i] # None, token[i].ready,
                      token[i].status = "active"
               PROVE  i \in seen \cup told
    BY DEF SecretSeenOrTold, Rows, server
  <2>1. \/ i \in seen \cup told
        \/ \E q \in reqs : q.kind = "create" /\ q.id = i
        \/ loading
    BY DEF IInv, SecretSeenOrTold, Rows
  <2>2. ~loading
    BY <1>8 DEF IInv, LoadAwaited
  <2> QED
    BY <2>1, <2>2, <1>8, NoneAssumption DEF IInv, AbandonedTold, Token
<1> QED
  BY <1>4, <1>5, <1>6, <1>7, <1>9, <1>10 DEF IInv

\* A request is sent: nothing else was awaited by who waits.
LEMMA SendKeeps ==
    ASSUME IInv, NEW q \in Req, q.heard, q.kind # "load",
           q.kind = "create" => q.step = "sent" /\ q.id = None, MayAct,
           reqs' = reqs \cup {q},
           UNCHANGED <<data, error, loading, createOpen, createdToken, server, seen, told,
                       patient>>,
           submitting' \in BOOLEAN, acts' \in 0..MaxActs
    PROVE  IInv'
<1>1. TypeOK'
  BY DEF IInv, TypeOK, server
<1>2. Informed'
  BY DEF IInv, Informed
<1>3. LoadAwaited' /\ DisplayedSeen'
  BY DEF IInv, LoadAwaited, DisplayedSeen, Displayed, View
<1>4. OneAwaited'
  BY DEF OneAwaited, Awaited, MayAct
<1>5. AbandonedTold'
  BY DEF IInv, AbandonedTold
<1>6. SecretSeenOrTold'
  BY DEF IInv, SecretSeenOrTold, Rows, server
<1> QED
  BY <1>1, <1>2, <1>3, <1>4, <1>5, <1>6 DEF IInv

LEMMA ActKeeps ==
    ASSUME IInv, Act, UNCHANGED <<server, seen, told, patient>>, acts' \in 0..MaxActs
    PROVE  IInv'
<1>1. CASE Reopen
  BY <1>1, ReopenKeeps
<1>2. ASSUME NEW s \in {"inherit_all", "restricted"}, NEW a \in SUBSET Server, Create(s, a)
      PROVE  IInv'
  <2> DEFINE q == [Sent("create") EXCEPT !.scope = s, !.asked = a]
  <2>1. /\ q \in Req /\ q.heard /\ q.kind = "create" /\ q.step = "sent" /\ q.id = None
    BY DEF Sent, Req
  <2>2. reqs' = reqs \cup {q}
    BY <1>2 DEF Create
  <2> HIDE DEF q
  <2> QED
    BY <1>2, <2>1, <2>2, SendKeeps DEF Create
<1>3. CASE RemoveRow
  <2>1. Sent("remove") \in Req /\ Sent("remove").heard /\ Sent("remove").kind = "remove"
    BY DEF Sent, Req
  <2>2. reqs' = reqs \cup {Sent("remove")} /\ MayAct /\ UNCHANGED view
    BY <1>3 DEF RemoveRow
  <2>3. submitting' \in BOOLEAN
    BY <2>2 DEF view, form, IInv, TypeOK
  <2> QED
    BY <2>1, <2>2, <2>3, SendKeeps DEF view, form
<1> QED
  BY <1>1, <1>2, <1>3 DEF Act

LEMMA ForeignKeeps ==
    ASSUME IInv, Foreign, UNCHANGED <<view, patient>>, acts' \in 0..MaxActs
    PROVE  IInv'
<1>1. PICK i \in Rows : Revoke(i) \/ Delete(i)
  BY DEF Foreign
<1>2. i \in Token /\ token[i] \in TokenRow
  BY DEF Rows, IInv, TypeOK
<1>3. /\ [token[i] EXCEPT !.status = "revoked"] \in TokenRow
      /\ [token[i] EXCEPT !.status = "revoked"].status = "revoked"
  BY <1>2 DEF TokenRow
<1>4. \/ token' = [token EXCEPT ![i] = [token[i] EXCEPT !.status = "revoked"]]
      \/ token' = [token EXCEPT ![i] = None]
  BY <1>1 DEF Revoke, Delete
<1>5. /\ token' \in [Token -> TokenRow \cup {None}]
      /\ token'[i] = None \/ token'[i].status = "revoked"
      /\ \A j \in Token \ {i} : token'[j] = token[j]
  BY <1>2, <1>3, <1>4 DEF IInv, TypeOK
<1>6. UNCHANGED <<lastId, reqs, seen, told>>
  BY DEF Foreign
<1>7. TypeOK'
  BY <1>5, <1>6 DEF IInv, TypeOK, view, form
<1>8. SecretSeenOrTold'
  BY <1>5, <1>6, ViewKept DEF IInv, SecretSeenOrTold, Rows
<1>9. Informed' /\ AbandonedTold' /\ OneAwaited'
  BY <1>6 DEF IInv, Informed, AbandonedTold, OneAwaited, Awaited
<1>10. LoadAwaited' /\ DisplayedSeen'
  BY <1>6, ViewKept DEF IInv, LoadAwaited, DisplayedSeen
<1> QED
  BY <1>7, <1>8, <1>9, <1>10 DEF IInv

------------------------------------------------------------------------------
(* Answers.                                                                  *)

\* An awaited request is over, given up or followed by a load, and what was due
\* to who waits was seen, told, or is due with the load that follows.
LEMMA SettledKeeps ==
    ASSUME IInv, NEW q \in reqs, q.heard, NEW r \in Req,
           reqs' = reqs \ {q} \/ reqs' = Replace(q, r),
           \/ r.kind = "load" /\ r.step = "sent" /\ r.rows = None
           \/ ~r.heard /\ r.kind = q.kind /\ r.id = q.id /\ r.step = q.step /\ r.rows = q.rows,
           UNCHANGED <<token, patient>>,
           seen \subseteq seen', told \subseteq told',
           patient => \A i \in Token :
               (q.kind = "create" /\ q.id = i) \/ (createdToken = i /\ loading) =>
                   i \in seen' \cup told' \/ (createdToken' = i /\ loading'),
           patient /\ q.kind = "create" /\ q.id # None /\ r.kind = "create" => q.id \in told'
    PROVE  Informed' /\ OneAwaited' /\ AbandonedTold' /\ SecretSeenOrTold'
<1>1. Informed'
  BY DEF IInv, Informed, Replace
<1>2. OneAwaited'
  <2> SUFFICES ASSUME patient PROVE OneAwaited'
    BY DEF OneAwaited
  <2>1. \A p \in reqs : p.heard => p = q
    BY DEF IInv, OneAwaited, Awaited
  <2>2. \A p \in Awaited' : p = r /\ p.heard
    BY <2>1 DEF Awaited, Replace
  <2> QED
    BY <2>2 DEF OneAwaited
<1>3. AbandonedTold'
  BY DEF IInv, AbandonedTold, Replace
<1>4. SecretSeenOrTold'
  <2> SUFFICES ASSUME patient, NEW i \in Token \ {1}, token[i] # None, token[i].ready,
                      token[i].status = "active", i \notin seen' \cup told',
                      ~(createdToken' = i /\ loading')
               PROVE  \E p \in reqs' : p.kind = "create" /\ p.id = i
    BY DEF SecretSeenOrTold, Rows
  <2>1. PICK p \in reqs : p.kind = "create" /\ p.id = i
    BY DEF IInv, SecretSeenOrTold, Rows
  <2>2. p # q
    BY <2>1
  <2> QED
    BY <2>1, <2>2 DEF Replace
<1> QED
  BY <1>1, <1>2, <1>3, <1>4

\* The case of an error about a mutation.
LEMMA FailsKeeps ==
    ASSUME IInv, NEW q \in reqs, q.heard, q.kind # "load", Fails(q),
           UNCHANGED <<token, patient, seen, data, error, loading, createdToken>>
    PROVE  /\ reqs' \subseteq Req /\ told' \subseteq Token
           /\ Informed' /\ OneAwaited' /\ AbandonedTold' /\ SecretSeenOrTold'
           /\ LoadAwaited' /\ DisplayedSeen'
<1> DEFINE r == [q EXCEPT !.heard = FALSE]
<1>1. q \in Req /\ reqs \subseteq Req /\ told \subseteq Token
  BY DEF IInv, TypeOK
<1>2. /\ r \in Req /\ ~r.heard /\ r.kind = q.kind /\ r.id = q.id /\ r.step = q.step
      /\ r.rows = q.rows
  BY <1>1, ReqShape
<1>3. reqs' = reqs \ {q} \/ reqs' = Replace(q, r)
  BY DEF Fails
<1>4. told' = IF patient /\ q.id # None THEN told \cup {q.id} ELSE told
  BY DEF Fails, Told
<1>5. q.id \in Token \cup {None}
  BY <1>1 DEF Req
<1> HIDE DEF r
<1>6. reqs' \subseteq Req /\ told' \subseteq Token
  BY <1>1, <1>2, <1>3, <1>4, <1>5 DEF Replace
<1>7. Informed' /\ OneAwaited' /\ AbandonedTold' /\ SecretSeenOrTold'
  <2>1. \A i \in Token : i # None
    BY NoneAssumption DEF Token
  <2> QED
    BY <1>2, <1>3, <1>4, <2>1, SettledKeeps
<1>8. LoadAwaited' /\ DisplayedSeen'
  BY <1>3 DEF IInv, LoadAwaited, DisplayedSeen, Displayed, View, Replace
<1> QED
  BY <1>6, <1>7, <1>8

LEMMA LoadKeeps ==
    ASSUME IInv, NEW q \in reqs, q.heard, NEW ok \in BOOLEAN, LoadSettles(q, ok),
           ok => q.step = "ok",
           UNCHANGED <<server, patient, acts>>
    PROVE  IInv'
<1>1. /\ q \in Req /\ q.kind = "load" /\ loading' = FALSE /\ error' = ~ok
      /\ reqs' = reqs \ {q} /\ UNCHANGED <<form, token, lastId, createdToken>>
      /\ seen' = seen \cup Displayed'
  BY DEF LoadSettles, IInv, TypeOK, server, form
<1>2. data' \in Table
  BY DEF LoadSettles, IInv, TypeOK, Informed
<1>3. told' = IF ok \/ ~patient \/ createdToken = None THEN told ELSE told \cup {createdToken}
  BY DEF LoadSettles, Told
<1>4. createdToken \in Token \cup {None} /\ Displayed' \subseteq Token
  BY <1>1 DEF IInv, TypeOK, Displayed
<1>5. TypeOK'
  BY <1>1, <1>2, <1>3, <1>4 DEF IInv, TypeOK, form
<1>6. LoadAwaited' /\ DisplayedSeen'
  BY <1>1 DEF LoadAwaited, DisplayedSeen
\* The secret is on the screen now, or the error.
<1>7. ASSUME NEW i \in Token, createdToken = i, patient PROVE i \in seen' \cup told'
  <2>1. i # None
    BY NoneAssumption DEF Token
  <2>2. CASE ok
    BY <1>1, <1>7, <2>1, <2>2 DEF Displayed, View
  <2>3. CASE ~ok
    BY <1>3, <1>7, <2>1, <2>3
  <2> QED
    BY <2>2, <2>3
<1>8. Informed' /\ OneAwaited' /\ AbandonedTold' /\ SecretSeenOrTold'
  BY <1>1, <1>3, <1>7, LoadSent, SettledKeeps
<1> QED
  BY <1>5, <1>6, <1>8 DEF IInv

LEMMA CreateKeeps ==
    ASSUME IInv, NEW q \in reqs, q.heard, NEW ok \in BOOLEAN, CreateSettles(q, ok),
           ok => q.step = "ok", UNCHANGED <<server, patient, acts>>
    PROVE  IInv'
<1>1. /\ q \in Req /\ reqs \subseteq Req /\ UNCHANGED <<token, lastId, data, error>>
      /\ q.kind = "create" /\ submitting' = FALSE
  BY DEF CreateSettles, IInv, TypeOK, server
<1>2. CASE ok
  <2>1. q.id \in Token
    BY <1>1, <1>2 DEF IInv, Informed
  <2>2. /\ createdToken' = q.id /\ createOpen' = FALSE /\ loading' = TRUE /\ told' = told
        /\ seen' = seen \cup Displayed' /\ reqs' = Replace(q, Sent("load"))
    BY <1>2 DEF CreateSettles, Reload
  <2>3. Displayed' \subseteq Token
    BY <2>1, <2>2 DEF Displayed
  <2>4. TypeOK'
    BY <1>1, <2>1, <2>2, <2>3, LoadSent DEF IInv, TypeOK, Replace
  <2>5. LoadAwaited' /\ DisplayedSeen'
    BY <2>2, LoadSent DEF LoadAwaited, DisplayedSeen, Replace
  <2>6. patient => ~loading
    BY <1>1 DEF IInv, LoadAwaited, OneAwaited, Awaited
  <2>7. Informed' /\ OneAwaited' /\ AbandonedTold' /\ SecretSeenOrTold'
    BY <1>1, <2>2, <2>6, LoadSent, SettledKeeps
  <2> QED
    BY <2>4, <2>5, <2>7 DEF IInv
<1>3. CASE ~ok
  <2>1. Fails(q) /\ UNCHANGED <<createdToken, createOpen, loading, seen>>
    BY <1>3 DEF CreateSettles
  <2>2. /\ reqs' \subseteq Req /\ told' \subseteq Token
        /\ Informed' /\ OneAwaited' /\ AbandonedTold' /\ SecretSeenOrTold'
        /\ LoadAwaited' /\ DisplayedSeen'
    BY <1>1, <2>1, FailsKeeps
  <2>3. TypeOK'
    BY <1>1, <2>1, <2>2 DEF IInv, TypeOK
  <2> QED
    BY <2>2, <2>3 DEF IInv
<1> QED
  BY <1>2, <1>3

LEMMA RemoveKeeps ==
    ASSUME IInv, NEW q \in reqs, q.heard, RemoveSettles(q), UNCHANGED <<server, patient, acts>>
    PROVE  IInv'
<1>1. q.kind = "remove" /\ Fails(q)
      /\ UNCHANGED <<token, lastId, data, error, loading, createOpen, submitting, createdToken,
                     seen>>
  BY DEF RemoveSettles, server, view, form
<1>2. /\ reqs' \subseteq Req /\ told' \subseteq Token
      /\ Informed' /\ OneAwaited' /\ AbandonedTold' /\ SecretSeenOrTold'
      /\ LoadAwaited' /\ DisplayedSeen'
  BY <1>1, FailsKeeps
<1>3. TypeOK'
  BY <1>1, <1>2 DEF IInv, TypeOK
<1> QED
  BY <1>2, <1>3 DEF IInv

LEMMA SettleKeeps ==
    ASSUME IInv, NEW q \in reqs, NEW ok \in BOOLEAN, Settle(q, ok), ok => q.step = "ok",
           UNCHANGED <<patient, acts>>
    PROVE  IInv'
<1>1. q.heard /\ UNCHANGED server
  BY DEF Settle
<1> QED
  BY <1>1, LoadKeeps, CreateKeeps, RemoveKeeps DEF Settle

LEMMA DropKeeps ==
    ASSUME IInv, NEW q \in reqs, Drop(q), UNCHANGED <<patient, acts>>
    PROVE  IInv'
<1>1. reqs' = reqs \ {q} /\ ~q.heard /\ UNCHANGED <<server, view, seen, told>>
  BY DEF Drop
<1>2. TypeOK'
  BY <1>1 DEF IInv, TypeOK, server, view, form
<1>3. Awaited' = Awaited
  BY <1>1 DEF Awaited
<1>4. Informed' /\ OneAwaited' /\ AbandonedTold'
  BY <1>1, <1>3 DEF IInv, Informed, OneAwaited, AbandonedTold
<1>5. LoadAwaited' /\ DisplayedSeen'
  BY <1>1, ViewKept DEF IInv, LoadAwaited, DisplayedSeen
<1>6. SecretSeenOrTold'
  BY <1>1, ViewKept, NoneAssumption
     DEF IInv, SecretSeenOrTold, AbandonedTold, Rows, server, Token
<1> QED
  BY <1>2, <1>4, <1>5, <1>6 DEF IInv

LEMMA NextKeeps == IInv /\ [Next]_vars => IInv'
<1> SUFFICES ASSUME IInv, [Next]_vars PROVE IInv'
  OBVIOUS
<1>1. ASSUME NEW q \in reqs, Serve(q) /\ UNCHANGED view, UNCHANGED <<patient, acts>>
      PROVE  IInv'
  BY <1>1, ServeKeeps
<1>2. ASSUME NEW q \in reqs, Hear(q) \/ GiveUp(q), UNCHANGED <<patient, acts>>
      PROVE  IInv'
  BY <1>2, SettleKeeps DEF Hear, GiveUp
<1>3. ASSUME NEW q \in reqs, Drop(q), UNCHANGED <<patient, acts>>
      PROVE  IInv'
  BY <1>3, DropKeeps
<1>4. CASE Dialog /\ UNCHANGED <<server, seen, told, patient, acts>>
  BY <1>4, DialogKeeps
<1>5. CASE /\ acts < MaxActs /\ acts' = acts + 1 /\ UNCHANGED patient
           /\ \/ Act /\ UNCHANGED <<server, seen, told>>
              \/ Foreign /\ UNCHANGED view
  <2>1. acts' \in 0..MaxActs
    BY <1>5 DEF IInv, TypeOK
  <2> QED
    BY <1>5, <2>1, ActKeeps, ForeignKeeps
<1>6. CASE UNCHANGED vars
  <2>1. UNCHANGED <<server, view, reqs, seen, told, patient, acts>>
    BY <1>6 DEF vars
  <2>2. TypeOK'
    BY <2>1 DEF IInv, TypeOK, server, view, form
  <2>3. Awaited' = Awaited
    BY <2>1 DEF Awaited
  <2>4. Informed' /\ OneAwaited' /\ AbandonedTold'
    BY <2>1, <2>3 DEF IInv, Informed, OneAwaited, AbandonedTold
  <2>5. LoadAwaited' /\ DisplayedSeen' /\ SecretSeenOrTold'
    BY <2>1, ViewKept DEF IInv, LoadAwaited, DisplayedSeen, SecretSeenOrTold, Rows, server
  <2> QED
    BY <2>2, <2>4, <2>5 DEF IInv
<1> QED
  BY <1>1, <1>2, <1>3, <1>4, <1>5, <1>6 DEF Next

LEMMA InitKeeps == Init => IInv
<1> SUFFICES ASSUME Init PROVE IInv
  OBVIOUS
<1>1. Sent("load") \in Req /\ Sent("load").kind = "load" /\ Sent("load").heard
  BY LoadSent
<1>2. token \in [Token -> TokenRow \cup {None}]
  <2> DEFINE row == [ready |-> TRUE, status |-> "active", scope |-> "inherit_all", granted |-> {}]
  <2>1. row \in TokenRow
    BY DEF TokenRow
  <2>2. token \in [Token -> {None, row}]
    BY DEF Init
  <2> HIDE DEF row
  <2> QED
    BY <2>1, <2>2
<1>3. TypeOK
  <2>1. lastId \in Token /\ acts \in 0..MaxActs
    BY DEF Init, Token
  <2> QED
    BY <1>1, <1>2, <2>1 DEF Init, TypeOK, Table
<1>4. Informed /\ OneAwaited /\ AbandonedTold
  BY <1>1, LoadSent DEF Init, Informed, OneAwaited, AbandonedTold, Awaited
<1>5. LoadAwaited /\ DisplayedSeen
  BY <1>1 DEF Init, LoadAwaited, DisplayedSeen, Displayed
<1>6. SecretSeenOrTold
  BY DEF Init, SecretSeenOrTold, Rows, Token
<1> QED
  BY <1>3, <1>4, <1>5, <1>6 DEF IInv

LEMMA AlwaysIInv == Spec => []IInv
BY InitKeeps, NextKeeps, PTL DEF Spec

------------------------------------------------------------------------------

\* Every variable keeps its shape, whatever the page cannot read of the
\* gateway's rows (DeviceTokensPage.tsx, devicetoken/service.go).
THEOREM TokensTyped == Spec => []TypeOK
BY AlwaysIInv, PTL DEF IInv

\* No working token is unknown to the administrator who waits: its secret was on
\* the screen, or an error in its place, or an answer is still to come
\* (DeviceTokensPage.tsx, onCreate and load).
THEOREM SecretsSeenOrTold == Spec => []SecretSeenOrTold
BY AlwaysIInv, PTL DEF IInv

\* What was revoked or deleted never works again once its creation is over
\* (devicetoken/service.go, Create, Revoke and Delete).
THEOREM RevokedStays == Spec => RevokedForGood
<1> DEFINE Over(i) == token[i] = None \/ token[i].status = "revoked"
           Made(i) == ~\E q \in reqs : q.kind = "create" /\ q.id = i
<1>1. ASSUME IInv, Next, NEW i \in 1..lastId, Over(i), Made(i)
      PROVE  Over(i)'
  <2>1. i \in Token /\ lastId \in Token
    BY <1>1 DEF IInv, TypeOK, Token
  <2>2. CASE token' = token
    BY <1>1, <2>2
  <2>3. ASSUME NEW q \in reqs, Serve(q) PROVE Over(i)'
    <3>1. CASE Insert(q)
      BY <1>1, <2>1, <3>1 DEF Insert, IInv, TypeOK, Token
    <3>2. CASE Save(q) \/ Grant(q)
      <4>1. q.id # i
        BY <1>1, <3>2 DEF Save, Grant
      <4> QED
        BY <1>1, <2>1, <3>2, <4>1 DEF Save, Grant, IInv, TypeOK
    <3>3. CASE List(q)
      BY <1>1, <3>3 DEF List, server
    <3> QED
      BY <2>3, <3>1, <3>2, <3>3 DEF Serve
  <2>4. CASE Foreign
    BY <1>1, <2>1, <2>4 DEF Foreign, Revoke, Delete, Rows, IInv, TypeOK, TokenRow
  <2> QED
    BY <1>1, <2>2, <2>3, <2>4 DEF Next, Hear, GiveUp, Settle, Drop, server
<1>2. IInv /\ [Next]_vars =>
        [\A i \in 1..lastId :
            /\ token[i] = None \/ token[i].status = "revoked"
            /\ ~\E q \in reqs : q.kind = "create" /\ q.id = i
            => token'[i] = None \/ token'[i].status = "revoked"]_vars
  BY <1>1
<1> QED
  BY <1>2, AlwaysIInv, PTL DEF Spec, RevokedForGood
==============================================================================
