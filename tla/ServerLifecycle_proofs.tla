------------------------ MODULE ServerLifecycle_proofs ------------------------
(***************************************************************************)
(* Proofs about ServerLifecycle, for every set of servers, tools and       *)
(* workers.                                                                *)
(***************************************************************************)
EXTENDS ServerLifecycle, TLAPS

USE DEF stores, counters, history

------------------------------------------------------------------------------
(* Type correctness.                                                       *)

\* A handler that is somewhere holds a well-formed job.
LEMMA JobAt ==
    ASSUME TypeOK, NEW w \in Worker, job[w] # None
    PROVE  /\ job[w] \in Job
           /\ job[w].srv \in Server
           /\ job[w].snap \in Row
           /\ job[w].names \in SUBSET Tool
           /\ job[w].rows \in SUBSET ToolRow
           /\ job[w].req \in AllRequest
BY DEF TypeOK, Job

\* A row that is there is well-formed.
LEMMA RowAt ==
    ASSUME TypeOK, NEW s \in Server, row[s] # None
    PROVE  row[s] \in Row /\ row[s].id \in Nat /\ row[s].status \in Status
BY DEF TypeOK, Row

\* Saving a well-formed copy, with any status of the lifecycle, leaves a
\* well-formed table.
LEMMA SaveRowType ==
    ASSUME TypeOK, NEW s \in Server, NEW r \in Row, NEW st \in Status
    PROVE  SaveRow(s, [r EXCEPT !.status = st]) \in [Server -> Row \cup {None}]
<1>1. [r EXCEPT !.status = st] \in Row
  BY DEF Row
<1>2. ASSUME NEW q \in Row, row[s] # None
      PROVE  [q EXCEPT !.id = row[s].id] \in Row
  BY <1>2, RowAt DEF Row
<1>3. QED
  BY <1>1, <1>2 DEF SaveRow, TypeOK

\* The elementary moves of a handler keep its job well-formed.
LEMMA FinishType ==
    ASSUME TypeOK, NEW w \in Worker, Finish(w)
    PROVE  job' \in [Worker -> Job \cup {None}]
BY DEF Finish, TypeOK

LEMMA GotoType ==
    ASSUME TypeOK, NEW w \in Worker, job[w] # None, NEW p \in Pc, Goto(w, p)
    PROVE  job' \in [Worker -> Job \cup {None}]
<1>1. [job[w] EXCEPT !.pc = p] \in Job
  BY JobAt DEF Job
<1>2. QED
  BY <1>1 DEF Goto, TypeOK

LEMMA GotoWithType ==
    ASSUME TypeOK, NEW w \in Worker, job[w] # None, NEW p \in Pc, NEW r \in Row,
           GotoWith(w, p, r)
    PROVE  job' \in [Worker -> Job \cup {None}]
<1>1. [job[w] EXCEPT !.pc = p, !.snap = r] \in Job
  BY JobAt DEF Job
<1>2. QED
  BY <1>1 DEF GotoWith, TypeOK

LEMMA LeaveValidationType ==
    ASSUME TypeOK, NEW w \in Worker, job[w] # None, LeaveValidation(w)
    PROVE  job' \in [Worker -> Job \cup {None}]
BY FinishType, GotoType DEF LeaveValidation, Pc

\* A new request starts from a well-formed job.
LEMMA BeginType ==
    ASSUME TypeOK, NEW w \in Worker, NEW s \in Server, NEW q, NEW p \in Pc,
           NEW ts \in SUBSET Tool, Begin(w, s, q, p, ts)
    PROVE  TypeOK'
<1>1. NewJob(q, p, s, row[s], ts) \in Job
  BY RowAt, RequestAssumption DEF Begin, NewJob, Job
<1>2. QED
  BY <1>1 DEF Begin, TypeOK

LEMMA ArriveType ==
    ASSUME TypeOK, NEW w \in Worker, NEW s \in Server, Arrive(w, s)
    PROVE  TypeOK'
<1>1. CASE Register(w, s)
  <2>1. [id |-> nextId, status |-> "draft", fails |-> 0] \in Row
    BY ThresholdAssumption DEF TypeOK, Row, Status
  <2>2. row' \in [Server -> Row \cup {None}] /\ row'[s] \in Row
    BY <1>1, <2>1 DEF Register, TypeOK
  <2>3. NewJob("register", "readDraft", s, row'[s], {}) \in Job
    BY <2>2 DEF NewJob, Job, AllRequest, Pc
  <2>4. job' \in [Worker -> Job \cup {None}]
    BY <1>1, <2>3 DEF Register, TypeOK
  <2>5. QED
    BY <1>1, <2>2, <2>4, ThresholdAssumption DEF Register, TypeOK
<1>2. CASE Validate(w, s)
  BY <1>2, BeginType DEF Validate, Pc
<1>3. CASE Publish(w, s)
  BY <1>3, BeginType DEF Publish, Pc
<1>4. CASE \E q \in {"enable", "disable"} : SwitchServer(w, s, q)
  BY <1>4, BeginType DEF SwitchServer, Pc
<1>5. CASE \E q \in {"enableTool", "disableTool"}, t \in Tool : SwitchTool(w, s, t, q)
  <2>1. PICK q \in {"enableTool", "disableTool"}, t \in Tool : SwitchTool(w, s, t, q)
    BY <1>5
  <2>2. {t} \in SUBSET Tool /\ "readTools" \in Pc
    BY DEF Pc
  <2>3. QED
    BY <2>1, <2>2, BeginType DEF SwitchTool
<1>6. CASE Archive(w, s)
  BY <1>6, BeginType DEF Archive, Pc
<1>7. CASE Deregister(w, s)
  BY <1>7, BeginType DEF Deregister, Pc
<1>8. QED
  BY <1>1, <1>2, <1>3, <1>4, <1>5, <1>6, <1>7 DEF Arrive

\* A handler's next step, in the order of Step.
LEMMA StepType ==
    ASSUME TypeOK, NEW w \in Worker, Step(w)
    PROVE  TypeOK'
<1> USE DEF At
<1>1. CASE ReadDraft(w)
  <2>1. job[w] # None /\ "mark" \in Pc
    BY <1>1 DEF ReadDraft, Pc
  <2>2. job' \in [Worker -> Job \cup {None}]
    BY <1>1, <2>1, JobAt, RowAt, GotoWithType, LeaveValidationType DEF ReadDraft, HasRow
  <2>3. QED
    BY <1>1, <2>2 DEF ReadDraft, TypeOK
<1>2. CASE Mark(w)
  <2>1. job[w] # None /\ "connect" \in Pc /\ "validating" \in Status
    BY <1>2 DEF Mark, Pc, Status
  <2>2. row' \in [Server -> Row \cup {None}]
    BY <1>2, <2>1, JobAt, SaveRowType DEF Mark
  <2>3. job' \in [Worker -> Job \cup {None}]
    BY <1>2, <2>1, GotoType DEF Mark
  <2>4. QED
    BY <1>2, <2>2, <2>3 DEF Mark, TypeOK
<1>3. CASE Connect(w)
  <2>1. [job[w] EXCEPT !.pc = "persist", !.names = Tool] \in Job
    BY <1>3, JobAt DEF Connect, Job, Pc
  <2>2. job' \in [Worker -> Job \cup {None}]
    BY <1>3, <2>1, GotoType DEF Connect, Pc, TypeOK
  <2>3. QED
    BY <1>3, <2>2 DEF Connect, TypeOK
<1>4. CASE Persist(w)
  <2>1. PICK t \in job[w].names :
              /\ tools' = CreateTool(job[w].srv, job[w].snap.id, t)
              /\ job' = [job EXCEPT ![w].names = @ \ {t}]
    BY <1>4 DEF Persist
  <2>2. t \in Tool /\ job[w].snap.id \in Nat
    BY <1>4, <2>1, JobAt DEF Persist, Row
  <2>3. [key |-> nextKey, sid |-> job[w].snap.id, tool |-> t, enabled |-> TRUE] \in ToolRow
    BY <2>2 DEF ToolRow, TypeOK
  <2>4. tools' \in SUBSET ToolRow
    BY <2>1, <2>3 DEF CreateTool, TypeOK
  <2>5. [job[w] EXCEPT !.names = @ \ {t}] \in Job
    BY <1>4, JobAt DEF Persist, Job
  <2>6. job' \in [Worker -> Job \cup {None}]
    BY <2>1, <2>5 DEF TypeOK
  <2>7. nextKey' \in Nat
    BY <1>4 DEF Persist, TypeOK
  <2>8. QED
    BY <1>4, <2>4, <2>6, <2>7 DEF Persist, TypeOK
<1>5. CASE Persisted(w)
  BY <1>5, GotoType DEF Persisted, Pc, TypeOK
<1>6. CASE Accept(w)
  <2>1. job[w] # None /\ "readPending" \in Pc /\ "pending_publish" \in Status
    BY <1>6 DEF Accept, Pc, Status
  <2>2. row' \in [Server -> Row \cup {None}]
    BY <1>6, <2>1, JobAt, SaveRowType DEF Accept
  <2>3. job' \in [Worker -> Job \cup {None}]
    BY <1>6, <2>1, GotoType, FinishType DEF Accept
  <2>4. QED
    BY <1>6, <2>2, <2>3 DEF Accept, TypeOK
<1>7. CASE Reject(w)
  <2>1. job[w] # None /\ "validation_failed" \in Status
    BY <1>7 DEF Reject, Status
  <2>2. row' \in [Server -> Row \cup {None}]
    BY <1>7, <2>1, JobAt, SaveRowType DEF Reject
  <2>3. job' \in [Worker -> Job \cup {None}]
    BY <1>7, <2>1, LeaveValidationType DEF Reject
  <2>4. QED
    BY <1>7, <2>2, <2>3 DEF Reject, TypeOK
<1>8. CASE Clean(w)
  <2>1. job' \in [Worker -> Job \cup {None}]
    BY <1>8, FinishType DEF Clean
  <2>2. QED
    BY <1>8, <2>1 DEF Clean, TypeOK
<1>9. CASE ReadPending(w)
  <2>1. job[w] # None /\ "release" \in Pc
    BY <1>9 DEF ReadPending, Pc
  <2>2. job' \in [Worker -> Job \cup {None}]
    BY <1>9, <2>1, JobAt, RowAt, GotoWithType, FinishType DEF ReadPending, HasRow
  <2>3. QED
    BY <1>9, <2>2 DEF ReadPending, TypeOK
<1>10. CASE Release(w)
  <2>1. job[w] # None /\ "load" \in Pc /\ "online" \in Status
    BY <1>10 DEF Release, Pc, Status
  <2>2. row' \in [Server -> Row \cup {None}]
    BY <1>10, <2>1, JobAt, SaveRowType DEF Release
  <2>3. job' \in [Worker -> Job \cup {None}]
    BY <1>10, <2>1, GotoType DEF Release
  <2>4. QED
    BY <1>10, <2>2, <2>3 DEF Release, TypeOK
<1>11. CASE Load(w)
  <2>1. ToolsOf(job[w].snap.id) \in SUBSET Tool
    BY DEF ToolsOf, RowsOf, TypeOK, ToolRow
  <2>2. [job[w] EXCEPT !.pc = "expose", !.names = ToolsOf(job[w].snap.id)] \in Job
    BY <1>11, <2>1, JobAt DEF Load, Job, Pc
  <2>3. QED
    BY <1>11, <2>2 DEF Load, TypeOK
<1>12. CASE Expose(w)
  <2>1. PICK t \in job[w].names :
              /\ proxy' = proxy \cup {<<job[w].srv, t>>}
              /\ job' = [job EXCEPT ![w].names = @ \ {t}]
    BY <1>12 DEF Expose
  <2>2. t \in Tool /\ job[w].srv \in Server
    BY <1>12, <2>1, JobAt DEF Expose
  <2>3. [job[w] EXCEPT !.names = @ \ {t}] \in Job
    BY <1>12, JobAt DEF Expose, Job
  <2>4. job' \in [Worker -> Job \cup {None}]
    BY <2>1, <2>3 DEF TypeOK
  <2>5. proxy' \in SUBSET (Server \X Tool)
    BY <2>1, <2>2 DEF TypeOK
  <2>6. QED
    BY <1>12, <2>4, <2>5 DEF Expose, TypeOK
<1>13. CASE Exposed(w)
  BY <1>13, FinishType DEF Exposed, TypeOK
<1>14. CASE Switch(w)
  <2>1. job[w] # None /\ "readTools" \in Pc /\ SwitchedStatus(job[w].req) \in Status
    BY <1>14 DEF Switch, Pc, Status, SwitchedStatus
  <2>2. row' \in [Server -> Row \cup {None}]
    BY <1>14, <2>1, JobAt, SaveRowType DEF Switch
  <2>3. job' \in [Worker -> Job \cup {None}]
    BY <1>14, <2>1, GotoType DEF Switch
  <2>4. QED
    BY <1>14, <2>2, <2>3 DEF Switch, TypeOK
<1>15. CASE ReadTools(w)
  <2>1. CASE row[job[w].srv] = None
    BY <1>15, <2>1, FinishType DEF ReadTools, TypeOK
  <2>2. CASE row[job[w].srv] # None
    <3> DEFINE change == ToChange(job[w].req, row[job[w].srv].id, job[w].names)
    <3>1. change \in SUBSET ToolRow
      BY DEF ToChange, RowsOf, TypeOK
    <3>2. row[job[w].srv] \in Row
      BY <1>15, <2>2, JobAt, RowAt DEF ReadTools
    <3>3. [job[w] EXCEPT !.pc = "saveTool", !.snap = row[job[w].srv], !.rows = change] \in Job
      <4> HIDE DEF change
      <4> QED
        BY <1>15, <3>1, <3>2, JobAt DEF ReadTools, Job, Pc
    <3>4. QED
      BY <1>15, <2>2, <3>3 DEF ReadTools, TypeOK
  <2>3. QED
    BY <2>1, <2>2
<1>16. CASE SaveNextTool(w)
  <2>1. PICK r \in job[w].rows :
          IF MaySaveTool(job[w].srv, r)
          THEN /\ tools' = SaveTool(r, TurnsOn(job[w].req))
               /\ job' = [job EXCEPT ![w].pc = "showTool",
                                     ![w].rows = @ \ {r},
                                     ![w].names = {r.tool}]
          ELSE Finish(w) /\ UNCHANGED tools
    BY <1>16 DEF SaveNextTool
  <2>2. r \in ToolRow /\ r.tool \in Tool
    BY <1>16, <2>1, JobAt DEF SaveNextTool, ToolRow
  <2>3. TurnsOn(job[w].req) \in BOOLEAN
    BY DEF TurnsOn
  <2>4. [r EXCEPT !.enabled = TurnsOn(job[w].req)] \in ToolRow /\ [r EXCEPT !.enabled = TRUE] \in ToolRow
    BY <2>2, <2>3 DEF ToolRow
  <2>5. tools' \in SUBSET ToolRow
    BY <2>1, <2>4 DEF SaveTool, TypeOK
  <2>6. [job[w] EXCEPT !.pc = "showTool", !.rows = @ \ {r}, !.names = {r.tool}] \in Job
    BY <1>16, <2>2, JobAt DEF SaveNextTool, Job, Pc
  <2>7. job' \in [Worker -> Job \cup {None}]
    BY <2>1, <2>6, FinishType DEF TypeOK
  <2>8. QED
    BY <1>16, <2>5, <2>7 DEF SaveNextTool, TypeOK
<1>17. CASE ShowTool(w)
  <2>1. {job[w].srv} \X job[w].names \subseteq Server \X Tool
    BY <1>17, JobAt DEF ShowTool
  <2>2. job' \in [Worker -> Job \cup {None}]
    BY <1>17, GotoType DEF ShowTool, Pc
  <2>3. QED
    BY <1>17, <2>1, <2>2 DEF ShowTool, TypeOK
<1>18. CASE Switched(w)
  BY <1>18, FinishType, JobAt DEF Switched, TypeOK
<1>19. CASE List(w)
  <2>1. ToolsOf(row[job[w].srv].id) \in SUBSET Tool
    BY DEF ToolsOf, RowsOf, TypeOK, ToolRow
  <2>2. [job[w] EXCEPT !.pc = "drop", !.names = ToolsOf(row[job[w].srv].id)] \in Job
    BY <1>19, <2>1, JobAt DEF List, Job, Pc
  <2>3. job' \in [Worker -> Job \cup {None}]
    BY <1>19, <2>2, FinishType DEF List, TypeOK
  <2>4. QED
    BY <1>19, <2>3 DEF List, TypeOK
<1>20. CASE Drop(w)
  <2>1. job' \in [Worker -> Job \cup {None}]
    BY <1>20, GotoType DEF Drop, Pc
  <2>2. QED
    BY <1>20, <2>1 DEF Drop, TypeOK
<1>21. CASE Hide(w)
  <2>1. job' \in [Worker -> Job \cup {None}]
    BY <1>21, GotoType DEF Hide, Pc
  <2>2. QED
    BY <1>21, <2>1 DEF Hide, TypeOK
<1>22. CASE Bury(w)
  <2>1. job[w] # None /\ "archived" \in Status
    BY <1>22 DEF Bury, Status
  <2>2. row' \in [Server -> Row \cup {None}]
    BY <1>22, <2>1, JobAt, SaveRowType DEF Bury
  <2>3. job' \in [Worker -> Job \cup {None}]
    BY <1>22, FinishType DEF Bury
  <2>4. QED
    BY <1>22, <2>1, <2>2, <2>3, JobAt DEF Bury, TypeOK
<1>23. CASE Erase(w)
  <2>1. job' \in [Worker -> Job \cup {None}]
    BY <1>23, FinishType DEF Erase
  <2>2. row' \in [Server -> Row \cup {None}] /\ gone' \in SUBSET Server
    BY <1>23, JobAt DEF Erase, TypeOK
  <2>3. QED
    BY <1>23, <2>1, <2>2 DEF Erase, TypeOK
<1>24. QED
  BY <1>1, <1>2, <1>3, <1>4, <1>5, <1>6, <1>7, <1>8, <1>9, <1>10, <1>11, <1>12,
     <1>13, <1>14, <1>15, <1>16, <1>17, <1>18, <1>19, <1>20, <1>21, <1>22, <1>23
     DEF Step

LEMMA FailType ==
    ASSUME TypeOK, NEW w \in Worker, Fail(w)
    PROVE  TypeOK'
<1>1. ASSUME NEW t \in job[w].names PROVE [job[w] EXCEPT !.names = @ \ {t}] \in Job
  BY JobAt DEF Fail, Job
<1>2. job' \in [Worker -> Job \cup {None}]
  BY <1>1, FinishType, LeaveValidationType DEF Fail, TypeOK
<1>3. lost' \in SUBSET Server
  BY JobAt DEF Fail, TypeOK
<1>4. QED
  BY <1>2, <1>3 DEF Fail, TypeOK

LEMMA VerdictType ==
    ASSUME TypeOK, NEW s \in Server, check[s] # None, NEW r \in Row
    PROVE  /\ AfterFailure(check[s], r) \in Row /\ AfterFailure(check[s], r).id = r.id
           /\ AfterSuccess(check[s], r) \in Row /\ AfterSuccess(check[s], r).id = r.id
<1>1. check[s] \in Row /\ check[s].fails \in Nat
  BY ThresholdAssumption DEF TypeOK, Row
<1>2. Saturate(check[s].fails + 1) \in 0..Threshold /\ 0 \in 0..Threshold
  BY <1>1, ThresholdAssumption DEF Saturate
<1>3. {"unhealthy", "pending_publish", r.status} \subseteq Status
  BY DEF Row, Status
<1>4. QED
  BY <1>2, <1>3 DEF AfterFailure, AfterSuccess, Row

LEMMA CheckType ==
    ASSUME TypeOK, NEW s \in Server, FinishCheck(s)
    PROVE  TypeOK'
<1>1. row' \in [Server -> Row \cup {None}]
  BY VerdictType DEF FinishCheck, HasRow, TypeOK
<1>2. QED
  BY <1>1 DEF FinishCheck, TypeOK

\* Every variable keeps its shape in every behaviour.
THEOREM TypeCorrect == Spec => []TypeOK
<1>1. Init => TypeOK
  BY ThresholdAssumption DEF Init, TypeOK
<1>2. TypeOK /\ [Next]_vars => TypeOK'
  <2> SUFFICES ASSUME TypeOK, [Next]_vars PROVE TypeOK'
    OBVIOUS
  <2>1. CASE \E w \in Worker, s \in Server : Arrive(w, s)
    BY <2>1, ArriveType
  <2>2. CASE \E w \in Worker : Step(w) \/ Fail(w)
    BY <2>2, StepType, FailType
  <2>3. CASE \E s \in Server : StartCheck(s) \/ FinishCheck(s) \/ Flip(s)
    BY <2>3, CheckType DEF StartCheck, Flip, TypeOK
  <2>4. CASE Restart
    BY <2>4 DEF Restart, LoadedAtStart, TypeOK
  <2>5. CASE UNCHANGED vars
    BY <2>5 DEF vars, TypeOK
  <2>6. QED
    BY <2>1, <2>2, <2>3, <2>4, <2>5 DEF Next
<1>3. QED
  BY <1>1, <1>2, PTL DEF Spec

------------------------------------------------------------------------------
(* How handlers move.  The ways a step changes its job, and what a step may *)
(* not touch: the other jobs, the request it serves and its server.         *)

\* The tool rows a handler can have copies of after its next step.
Known(w) == job[w].rows \cup tools

\* One update of the job of w, to program counter p.
MovesTo(w, p) ==
    \/ Goto(w, p)
    \/ \E r : GotoWith(w, p, r)
    \/ \E ts : job' = [job EXCEPT ![w].pc = p, ![w].names = ts]
    \/ \E ts : p = job[w].pc /\ job' = [job EXCEPT ![w].names = ts]
    \/ \E r, rs : /\ rs \subseteq Known(w)
                  /\ job' = [job EXCEPT ![w].pc = p, ![w].snap = r, ![w].rows = rs]
    \/ \E ts, rs : /\ rs \subseteq Known(w)
                   /\ job' = [job EXCEPT ![w].pc = p, ![w].rows = rs, ![w].names = ts]

OthersKeep(w) == \A x \in Worker \ {w} : job'[x] = job[x]

LEMMA MoveKeeps ==
    ASSUME TypeOK, NEW w \in Worker, job[w] # None, NEW p, MovesTo(w, p)
    PROVE  /\ OthersKeep(w)
           /\ job'[w].pc = p
           /\ job'[w].req = job[w].req
           /\ job'[w].srv = job[w].srv
           /\ job'[w].rows \subseteq Known(w)
<1> USE JobAt DEF TypeOK, Job, OthersKeep, Known
<1>1. CASE Goto(w, p) \/ \E r : GotoWith(w, p, r)
  BY <1>1 DEF Goto, GotoWith
<1>2. CASE \E ts : job' = [job EXCEPT ![w].pc = p, ![w].names = ts]
  BY <1>2
<1>3. CASE \E ts : p = job[w].pc /\ job' = [job EXCEPT ![w].names = ts]
  BY <1>3
<1>4. CASE \E r, rs : /\ rs \subseteq Known(w)
                      /\ job' = [job EXCEPT ![w].pc = p, ![w].snap = r, ![w].rows = rs]
  BY <1>4
<1>5. CASE \E ts, rs : /\ rs \subseteq Known(w)
                       /\ job' = [job EXCEPT ![w].pc = p, ![w].rows = rs, ![w].names = ts]
  BY <1>5
<1>6. QED
  BY <1>1, <1>2, <1>3, <1>4, <1>5 DEF MovesTo

\* The steps from p to q that matter to who may write "online".
MayFollow(w, q) ==
    \/ q = job[w].pc
    \/ q \notin {"readDraft", "clean", "readPending", "release", "switch"}
    \/ q \in {"clean", "readPending"} /\ job[w].req = "register"
    \/ q = "release" /\ job[w].pc = "readPending"

\* Every step of a handler ends its job, or moves it and keeps its request and
\* its server.
Kept(w) ==
    /\ OthersKeep(w)
    /\ \/ job'[w] = None
       \/ /\ job'[w].req = job[w].req
          /\ job'[w].srv = job[w].srv
          /\ job'[w].rows \subseteq Known(w)
          /\ MayFollow(w, job'[w].pc)

LEMMA StepKeeps ==
    ASSUME TypeOK, NEW w \in Worker, Step(w) \/ Fail(w)
    PROVE  job[w] # None /\ Kept(w)
<1>1. job[w] # None
  BY DEF Step, Fail, ReadDraft, Mark, Connect, Persist, Persisted, Accept,
     Reject, Clean, ReadPending, Release, Load, Expose, Exposed, Switch, ReadTools,
     SaveNextTool, ShowTool, Switched, List, Drop, Hide, Bury, Erase, At
<1> SUFFICES Kept(w)
  BY <1>1
<1>2. ASSUME NEW p, MayFollow(w, p)
      PROVE  /\ Goto(w, p) => Kept(w)
             /\ \A r : GotoWith(w, p, r) => Kept(w)
             /\ \A ts : job' = [job EXCEPT ![w].pc = p, ![w].names = ts] => Kept(w)
             /\ \A r, rs : /\ rs \subseteq Known(w)
                           /\ job' = [job EXCEPT ![w].pc = p, ![w].snap = r, ![w].rows = rs]
                           => Kept(w)
             /\ \A ts, rs : /\ rs \subseteq Known(w)
                            /\ job' = [job EXCEPT ![w].pc = p, ![w].rows = rs, ![w].names = ts]
                            => Kept(w)
  <2>1. MovesTo(w, p) => Kept(w)
    BY <1>1, <1>2, MoveKeeps DEF Kept
  <2>2. QED
    BY <2>1 DEF MovesTo
<1>3. ASSUME NEW ts, job' = [job EXCEPT ![w].names = ts]
      PROVE  Kept(w)
  <2>1. MovesTo(w, job[w].pc)
    BY <1>3 DEF MovesTo
  <2>2. QED
    BY <1>1, <2>1, MoveKeeps DEF Kept, MayFollow
<1>4. ASSUME Finish(w) PROVE Kept(w)
  BY <1>4 DEF Finish, TypeOK, Kept, OthersKeep
<1>5. ASSUME LeaveValidation(w) PROVE Kept(w)
  BY <1>2, <1>4, <1>5 DEF LeaveValidation, MayFollow
<1>6. CASE Mark(w) \/ Persisted(w) \/ Release(w) \/ Switch(w) \/ ShowTool(w)
           \/ Drop(w) \/ Hide(w)
  <2>1. \E p : Goto(w, p) /\ MayFollow(w, p)
    BY <1>6 DEF Mark, Persisted, Release, Switch, ShowTool, Drop, Hide, MayFollow
  <2>2. QED
    BY <1>2, <2>1
<1>7. CASE ReadDraft(w) \/ Reject(w)
  <2>1. MayFollow(w, "mark")
    BY DEF MayFollow
  <2>2. QED
    BY <1>2, <1>5, <1>7, <2>1 DEF ReadDraft, Reject
<1>8. CASE Fail(w)
  BY <1>3, <1>4, <1>5, <1>8 DEF Fail
<1>9. CASE Accept(w)
  BY <1>2, <1>4, <1>9 DEF Accept, MayFollow
<1>10. CASE ReadPending(w)
  BY <1>2, <1>4, <1>10 DEF ReadPending, At, MayFollow
<1>11. CASE Connect(w) \/ Load(w) \/ List(w)
  <2>1. \A p \in {"persist", "reject", "expose", "drop"} : MayFollow(w, p)
    BY DEF MayFollow
  <2>2. CASE Connect(w)
    BY <1>2, <2>1, <2>2 DEF Connect
  <2>3. CASE Load(w)
    BY <1>2, <2>1, <2>3 DEF Load
  <2>4. CASE List(w)
    BY <1>2, <1>4, <2>1, <2>4 DEF List
  <2>5. QED
    BY <1>11, <2>2, <2>3, <2>4
<1>12. CASE Persist(w) \/ Expose(w)
  BY <1>3, <1>12 DEF Persist, Expose
<1>13. CASE Clean(w) \/ Exposed(w) \/ Switched(w) \/ Bury(w) \/ Erase(w)
  BY <1>4, <1>13 DEF Clean, Exposed, Switched, Bury, Erase
<1>14. CASE ReadTools(w)
  <2>1. \/ Finish(w)
        \/ \E r, rs : /\ rs \subseteq Known(w)
                      /\ job' = [job EXCEPT ![w].pc = "saveTool", ![w].snap = r, ![w].rows = rs]
    BY <1>14 DEF ReadTools, Known, ToChange, RowsOf
  <2>2. QED
    <3>1. MayFollow(w, "saveTool")
      BY DEF MayFollow
    <3>2. \A r, rs : /\ rs \subseteq Known(w)
                    /\ job' = [job EXCEPT ![w].pc = "saveTool", ![w].snap = r, ![w].rows = rs]
                    => Kept(w)
      BY <1>2, <3>1
    <3>3. QED
      BY <1>4, <2>1, <3>2, Zenon
<1>15. CASE SaveNextTool(w)
  <2>1. PICK r \in job[w].rows :
           \/ Finish(w)
           \/ job' = [job EXCEPT ![w].pc = "showTool", ![w].rows = @ \ {r},
                                 ![w].names = {r.tool}]
    BY <1>15 DEF SaveNextTool
  <2>2. job[w].rows \ {r} \subseteq Known(w)
    BY DEF Known
  <2>3. QED
    BY <1>2, <1>4, <2>1, <2>2 DEF MayFollow
<1>16. QED
  BY <1>1, <1>6, <1>7, <1>8, <1>9, <1>10, <1>11, <1>12, <1>13, <1>14, <1>15 DEF Step

------------------------------------------------------------------------------
(* The contract.  A handler writes "online" in two places, release and     *)
(* switch; what has to be known is which requests ever get there.          *)

FlowOK ==
    \A w \in Worker : job[w] # None =>
        /\ job[w].pc \in {"readDraft", "clean", "readPending"} => job[w].req = "register"
        /\ job[w].pc = "release" => job[w].req \in {"register", "publish"}
        /\ job[w].pc = "switch" => job[w].req \in {"enable", "disable"}

LEMMA FlowStep ==
    ASSUME TypeOK, FlowOK, [Next]_vars
    PROVE  FlowOK'
<1> USE DEF FlowOK
<1>1. ASSUME NEW w \in Worker, NEW s \in Server, Arrive(w, s)
      PROVE  FlowOK'
  <2>1. ASSUME NEW q, NEW p, NEW ts, Begin(w, s, q, p, ts),
               p \in {"readDraft", "clean", "readPending"} => q = "register",
               p = "release" => q \in {"register", "publish"},
               p = "switch" => q \in {"enable", "disable"}
        PROVE  FlowOK'
    BY <2>1 DEF Begin, NewJob, TypeOK
  <2>2. CASE Register(w, s)
    BY <2>2 DEF Register, NewJob, TypeOK
  <2>3. CASE \/ Validate(w, s) \/ Publish(w, s) \/ Archive(w, s) \/ Deregister(w, s)
    BY <2>1, <2>3 DEF Validate, Publish, Archive, Deregister
  <2>4. CASE \E q \in {"enable", "disable"} : SwitchServer(w, s, q)
    BY <2>1, <2>4 DEF SwitchServer
  <2>5. CASE \E q \in {"enableTool", "disableTool"}, t \in Tool : SwitchTool(w, s, t, q)
    BY <2>1, <2>5 DEF SwitchTool
  <2>6. QED
    BY <1>1, <2>2, <2>3, <2>4, <2>5 DEF Arrive
<1>2. ASSUME NEW w \in Worker, Step(w) \/ Fail(w)
      PROVE  FlowOK'
  BY <1>2, StepKeeps DEF Kept, OthersKeep, MayFollow
<1>3. CASE \E s \in Server : StartCheck(s) \/ FinishCheck(s) \/ Flip(s)
  BY <1>3 DEF StartCheck, FinishCheck, Flip
<1>4. CASE Restart
  BY <1>4 DEF Restart
<1>5. CASE UNCHANGED vars
  BY <1>5 DEF vars
<1>6. QED
  BY <1>1, <1>2, <1>3, <1>4, <1>5 DEF Next

\* "online" is written only by requests that ask for it.
THEOREM FlowCorrect == Spec => []FlowOK
<1>1. Init => FlowOK
  BY DEF Init, FlowOK
<1>2. TypeOK /\ FlowOK /\ [Next]_vars => FlowOK'
  BY FlowStep
<1>3. QED
  BY <1>1, <1>2, TypeCorrect, PTL DEF Spec

\* Saving a copy of row s changes who is served only for s.
LEMMA SaveServes ==
    ASSUME TypeOK, NEW s \in Server, NEW r \in Row, NEW st \in Status,
           row' = SaveRow(s, [r EXCEPT !.status = st])
    PROVE  Served' = IF st = "online" THEN Served \cup {s} ELSE Served \ {s}
<1>1. row'[s] # None /\ row'[s].status = st
  <2>1. [r EXCEPT !.status = st] \in Row /\ [r EXCEPT !.status = st].status = st
    BY DEF Row
  <2>2. row[s] # None => [[r EXCEPT !.status = st] EXCEPT !.id = row[s].id] \in Row
    BY <2>1, RowAt DEF Row
  <2>3. [[r EXCEPT !.status = st] EXCEPT !.id = row[s].id].status = st
    BY DEF Row
  <2>4. QED
    BY <2>1, <2>2, <2>3, NoneAssumption DEF SaveRow, TypeOK
<1>2. \A x \in Server \ {s} : row'[x] = row[x]
  BY DEF SaveRow, TypeOK
<1>3. QED
  BY <1>1, <1>2 DEF Served, HasStatus

\* A step of a handler asks for nothing new, and drops what its request asked
\* for only by ending.
LEMMA StepAsks ==
    ASSUME TypeOK, NEW w \in Worker, Step(w) \/ Fail(w)
    PROVE  /\ Asked' \subseteq Asked
           /\ job'[w] # None => Asked' = Asked
<1>1. ASSUME NEW x \in Worker, job'[x] # None
      PROVE  job[x] # None /\ job'[x].req = job[x].req /\ job'[x].srv = job[x].srv
  BY <1>1, StepKeeps DEF Kept, OthersKeep
<1>2. ASSUME NEW x \in Worker, job[x] # None, job'[w] # None
      PROVE  job'[x] # None
  BY <1>2, StepKeeps DEF Kept, OthersKeep
<1>3. QED
  BY <1>1, <1>2 DEF Asked

LEMMA GotoStays ==
    ASSUME TypeOK, NEW w \in Worker, job[w] # None, NEW p \in Pc, Goto(w, p)
    PROVE  job'[w] # None
<1>1. [job[w] EXCEPT !.pc = p] \in Job
  BY JobAt DEF Job
<1>2. QED
  BY <1>1, NoneAssumption DEF Goto, TypeOK

\* Only release and switch put a server into service, and only one that is
\* asked for.
LEMMA StepServes ==
    ASSUME TypeOK, FlowOK, NEW w \in Worker, Step(w) \/ Fail(w)
    PROVE  \/ Served' \subseteq Served
           \/ \E s \in Asked : Served' = Served \cup {s} /\ Asked' = Asked
<1> DEFINE s == job[w].srv
           r == job[w].snap
<1>1. job[w] # None /\ s \in Server /\ r \in Row
  BY StepKeeps, JobAt
<1>2. ASSUME NEW st \in Status, row' = SaveRow(s, [r EXCEPT !.status = st])
      PROVE  Served' = IF st = "online" THEN Served \cup {s} ELSE Served \ {s}
  BY <1>1, <1>2, SaveServes
<1>3. CASE row' = row
  BY <1>3 DEF Served, HasStatus
<1>4. CASE Mark(w) \/ Accept(w) \/ Reject(w) \/ Bury(w)
  <2>1. PICK st \in {"validating", "pending_publish", "validation_failed", "archived"} :
           row' = SaveRow(s, [r EXCEPT !.status = st])
    BY <1>4 DEF Mark, Accept, Reject, Bury
  <2>2. st \in Status /\ st # "online"
    BY DEF Status
  <2>3. QED
    BY <1>2, <2>1, <2>2
<1>5. CASE Clean(w) \/ Erase(w)
  <2>1. row' = row \/ row' = [row EXCEPT ![s] = None]
    BY <1>5 DEF Clean, Erase
  <2>2. QED
    BY <1>1, <1>3, <2>1 DEF Served, HasStatus, TypeOK
<1>6. ASSUME job[w].req \in Serving, job'[w] # None
      PROVE  s \in Asked /\ Asked' = Asked
  BY <1>1, <1>6, StepAsks DEF Asked
<1>7. CASE Release(w)
  <2>1. job[w].req \in Serving
    BY <1>1, <1>7 DEF Release, At, FlowOK, Serving
  <2>2. job'[w] # None
    BY <1>1, <1>7, GotoStays DEF Release, Pc
  <2>3. QED
    BY <1>2, <1>6, <1>7, <2>1, <2>2 DEF Release, Status
<1>8. CASE Switch(w)
  <2>1. job'[w] # None
    BY <1>1, <1>8, GotoStays DEF Switch, Pc
  <2>2. CASE job[w].req = "enable"
    BY <1>2, <1>6, <1>8, <2>1, <2>2 DEF Switch, SwitchedStatus, TurnsOn, Serving, Status
  <2>3. CASE job[w].req = "disable"
    BY <1>2, <1>8, <2>3 DEF Switch, SwitchedStatus, TurnsOn, Status
  <2>4. QED
    BY <1>1, <1>8, <2>2, <2>3 DEF Switch, At, FlowOK
<1>9. QED
  BY <1>3, <1>4, <1>5, <1>7, <1>8 DEF Step, Fail, stores, ReadDraft, Connect, Persist,
     Persisted, ReadPending, Load, Expose, Exposed, ReadTools, SaveNextTool, ShowTool,
     Switched, List, Drop, Hide

LEMMA ArriveServes ==
    ASSUME TypeOK, NEW w \in Worker, NEW s \in Server, Arrive(w, s)
    PROVE  Served' = Served /\ (Asked' = Asked \/ Asked' = Asked \cup {s})
<1>1. ASSUME NEW q, NEW p, NEW r, NEW ts, job[w] = None,
             job' = [job EXCEPT ![w] = NewJob(q, p, s, r, ts)]
      PROVE  Asked' = Asked \/ Asked' = Asked \cup {s}
  <2>1. /\ job'[w] = NewJob(q, p, s, r, ts)
        /\ \A x \in Worker \ {w} : job'[x] = job[x]
    BY <1>1 DEF TypeOK
  <2>2. NewJob(q, p, s, r, ts).req = q /\ NewJob(q, p, s, r, ts).srv = s
    BY DEF NewJob
  <2>3. QED
    BY <1>1, <2>1, <2>2 DEF Asked
<1>2. ASSUME NEW q, NEW p, NEW ts, Begin(w, s, q, p, ts)
      PROVE  Served' = Served /\ (Asked' = Asked \/ Asked' = Asked \cup {s})
  BY <1>1, <1>2 DEF Begin, stores, Served, HasStatus
<1>3. CASE Register(w, s)
  <2>1. Served' = Served
    BY <1>3, NoneAssumption DEF Register, Served, HasStatus, TypeOK
  <2>2. QED
    BY <1>1, <1>3, <2>1 DEF Register
<1>4. CASE \/ Validate(w, s) \/ Publish(w, s) \/ Archive(w, s) \/ Deregister(w, s)
  BY <1>2, <1>4 DEF Validate, Publish, Archive, Deregister
<1>5. CASE \E q \in {"enable", "disable"} : SwitchServer(w, s, q)
  BY <1>2, <1>5 DEF SwitchServer
<1>6. CASE \E q \in {"enableTool", "disableTool"}, t \in Tool : SwitchTool(w, s, t, q)
  BY <1>2, <1>6 DEF SwitchTool
<1>7. QED
  BY <1>3, <1>4, <1>5, <1>6 DEF Arrive

\* A verdict takes servers out of service, and puts none into it.
LEMMA CheckServes ==
    ASSUME TypeOK, NEW s \in Server, StartCheck(s) \/ FinishCheck(s) \/ Flip(s)
    PROVE  Served' \subseteq Served /\ Asked' = Asked
<1>1. Asked' = Asked
  BY DEF StartCheck, FinishCheck, Flip, Asked
<1>2. CASE StartCheck(s) \/ Flip(s)
  BY <1>1, <1>2 DEF StartCheck, Flip, stores, Served, HasStatus
<1>3. CASE FinishCheck(s)
  <2>1. ASSUME NEW c, NEW r \in Row
        PROVE  /\ AfterFailure(c, r).status = "online" => r.status = "online"
               /\ AfterSuccess(c, r).status = "online" => r.status = "online"
    BY DEF AfterFailure, AfterSuccess, Row
  <2>2. \A x \in Server \ {s} : row'[x] = row[x]
    BY <1>3 DEF FinishCheck, TypeOK
  <2>3. row'[s] # None /\ row'[s].status = "online"
        => row[s] # None /\ row[s].status = "online"
    BY <1>3, <2>1, RowAt DEF FinishCheck, HasRow, TypeOK
  <2>4. QED
    BY <1>1, <2>2, <2>3 DEF Served, HasStatus
<1>4. QED
  BY <1>2, <1>3

\* Handlers, health check and restarts implement the contract: a server goes
\* online only within a request that asks for it.
THEOREM ContractCorrect == Spec => KeepsContract
<1>1. Init => Contract!Init
  BY DEF Init, Contract!Init, Asked, Served, HasStatus
<1>2. TypeOK /\ FlowOK /\ [Next]_vars => [Contract!Next]_(Contract!vars)
  <2> SUFFICES ASSUME TypeOK, FlowOK, [Next]_vars
               PROVE  [Contract!Next]_(Contract!vars)
    OBVIOUS
  <2> USE DEF Contract!Next, Contract!Ask, Contract!Release, Contract!Wane, Contract!vars
  <2>1. CASE \E w \in Worker, s \in Server : Arrive(w, s)
    BY <2>1, ArriveServes
  <2>2. CASE \E w \in Worker : Step(w) \/ Fail(w)
    <3>1. PICK w \in Worker : Step(w) \/ Fail(w)
      BY <2>2
    <3>2. Asked \subseteq Server
      BY DEF Asked
    <3>3. QED
      BY <3>1, <3>2, StepAsks, StepServes
  <2>3. CASE \E s \in Server : StartCheck(s) \/ FinishCheck(s) \/ Flip(s)
    BY <2>3, CheckServes
  <2>4. CASE Restart
    <3>1. Served' = Served /\ Asked' = {}
      BY <2>4 DEF Restart, Served, HasStatus, Asked
    <3>2. QED
      BY <3>1
  <2>5. CASE UNCHANGED vars
    BY <2>5 DEF vars, Asked, Served, HasStatus
  <2>6. QED
    BY <2>1, <2>2, <2>3, <2>4, <2>5 DEF Next
<1>3. QED
  BY <1>1, <1>2, TypeCorrect, FlowCorrect, PTL DEF Spec, KeepsContract, Contract!Spec

------------------------------------------------------------------------------
(* Ownership.  No tool row outlives its server, because the foreign key    *)
(* refuses both ways of getting there and because a stale copy of a tool   *)
(* row, wherever a handler holds one, names the server of the row itself.  *)

\* The copies of tool rows there are, in the table and in the handlers.
Copies ==
    tools \cup {r \in ToolRow : \E w \in Worker : job[w] # None /\ r \in job[w].rows}

KeysOK ==
    /\ \A r \in Copies : r.key < nextKey
    /\ \A r1, r2 \in Copies : r1.key = r2.key => r1.sid = r2.sid

\* Every copy after a step is a copy of one there was before.
NothingNew == \A r \in Copies' : \E c \in Copies : c.key = r.key /\ c.sid = r.sid

LEMMA NothingNewKeeps ==
    ASSUME TypeOK, KeysOK, NothingNew, nextKey' = nextKey
    PROVE  KeysOK'
<1>1. \A r \in Copies' : r.key < nextKey'
  BY DEF KeysOK, NothingNew
<1>2. \A r1, r2 \in Copies' : r1.key = r2.key => r1.sid = r2.sid
  BY DEF KeysOK, NothingNew
<1>3. QED
  BY <1>1, <1>2 DEF KeysOK

\* The copies handlers hold after a step were known before it.
LEMMA StepCopies ==
    ASSUME TypeOK, NEW w \in Worker, Step(w) \/ Fail(w)
    PROVE  Copies' \subseteq Copies \cup tools'
<1>1. ASSUME NEW x \in Worker, NEW r \in ToolRow, job'[x] # None, r \in job'[x].rows
      PROVE  r \in Copies
  <2>1. CASE x = w
    BY <1>1, <2>1, StepKeeps DEF Kept, Known, Copies
  <2>2. CASE x # w
    BY <1>1, <2>2, StepKeeps DEF Kept, OthersKeep, Copies
  <2>3. QED
    BY <2>1, <2>2
<1>2. QED
  BY <1>1 DEF Copies

\* The steps that change the tools table.
LEMMA ToolsStep ==
    ASSUME TypeOK, KeysOK, NEW w \in Worker, Step(w) \/ Fail(w)
    PROVE  KeysOK'
<1>1. CASE Persist(w)
  <2>1. nextKey' = nextKey + 1 /\ nextKey \in Nat
    BY <1>1 DEF Persist, TypeOK
  <2>2. \A r \in tools' : r \in tools \/ r.key = nextKey
    BY <1>1 DEF Persist, CreateTool
  <2>3. \A r1, r2 \in tools' : r1.key = nextKey /\ r2.key = nextKey
                              => r1 \in tools \/ r2 \in tools \/ r1.sid = r2.sid
    BY <1>1 DEF Persist, CreateTool
  <2>4. \A r \in Copies' : r \in Copies \/ (r \in tools' /\ r.key = nextKey)
    BY <2>2, StepCopies DEF Copies
  <2>5. \A r \in Copies : r.key < nextKey /\ r.key \in Nat
    BY DEF KeysOK, Copies, ToolRow, TypeOK
  <2>6. \A r \in Copies' : r.key < nextKey'
    BY <2>1, <2>4, <2>5
  <2>7. ASSUME NEW r1 \in Copies', NEW r2 \in Copies', r1.key = r2.key
        PROVE  r1.sid = r2.sid
    <3>1. CASE r1.key = nextKey
      <4>1. ~(r1.key < nextKey) /\ ~(r2.key < nextKey)
        BY <2>1, <2>7, <3>1
      <4>2. r1 \notin Copies /\ r2 \notin Copies
        BY <2>5, <4>1
      <4>3. QED
        BY <2>3, <2>4, <2>7, <3>1, <4>2 DEF Copies
    <3>2. CASE r1.key # nextKey
      BY <2>4, <2>7, <3>2 DEF KeysOK
    <3>3. QED
      BY <3>1, <3>2
  <2>8. QED
    BY <2>6, <2>7 DEF KeysOK
<1>2. CASE SaveNextTool(w)
  <2>1. ASSUME NEW r \in tools'
        PROVE  \E c \in Copies : c.key = r.key /\ c.sid = r.sid
    <3>1. job[w] # None /\ job[w].rows \in SUBSET ToolRow
      BY StepKeeps, JobAt
    <3>2. PICK q \in job[w].rows :
             tools' \subseteq tools \cup {[q EXCEPT !.enabled = TurnsOn(job[w].req)],
                                        [q EXCEPT !.enabled = TRUE]}
      BY <1>2 DEF SaveNextTool, SaveTool
    <3>3. q \in Copies
      BY <3>1 DEF Copies
    <3>4. CASE r \in tools
      BY <3>4 DEF Copies
    <3>5. CASE r \notin tools
      <4>1. r.key = q.key /\ r.sid = q.sid
        BY <3>1, <3>2, <3>5 DEF ToolRow
      <4>2. QED
        BY <3>3, <4>1
    <3>6. QED
      BY <3>4, <3>5
  <2>2. NothingNew
    BY <2>1, StepCopies DEF NothingNew
  <2>3. QED
    BY <1>2, <2>2, NothingNewKeeps DEF SaveNextTool, counters
<1>3. CASE tools' \subseteq tools /\ nextKey' = nextKey
  BY <1>3, StepCopies, NothingNewKeeps DEF NothingNew, Copies
<1>4. QED
  BY <1>1, <1>2, <1>3 DEF Step, Fail, ReadDraft, Mark, Connect, Persisted, Accept,
     Reject, Clean, ReadPending, Release, Load, Expose, Exposed, Switch, ReadTools,
     ShowTool, Switched, List, Drop, Hide, Bury, Erase

LEMMA KeysStep ==
    ASSUME TypeOK, KeysOK, [Next]_vars
    PROVE  KeysOK'
<1>1. ASSUME NEW w \in Worker, NEW s \in Server, Arrive(w, s)
      PROVE  KeysOK'
  <2>1. ASSUME NEW q, NEW p, NEW r, NEW ts,
               job' = [job EXCEPT ![w] = NewJob(q, p, s, r, ts)],
               tools' = tools, nextKey' = nextKey
        PROVE  KeysOK'
    <3>1. /\ job'[w].rows = {}
          /\ \A x \in Worker \ {w} : job'[x] = job[x]
      BY <2>1 DEF NewJob, TypeOK
    <3>2. Copies' \subseteq Copies
      BY <2>1, <3>1 DEF Copies
    <3>3. QED
      BY <2>1, <3>2, NothingNewKeeps DEF NothingNew
  <2>2. ASSUME NEW q, NEW p, NEW ts, Begin(w, s, q, p, ts) PROVE KeysOK'
    BY <2>1, <2>2 DEF Begin, stores, counters
  <2>3. CASE Register(w, s)
    BY <2>1, <2>3 DEF Register
  <2>4. CASE \/ Validate(w, s) \/ Publish(w, s) \/ Archive(w, s) \/ Deregister(w, s)
    BY <2>2, <2>4 DEF Validate, Publish, Archive, Deregister
  <2>5. CASE \E q \in {"enable", "disable"} : SwitchServer(w, s, q)
    BY <2>2, <2>5 DEF SwitchServer
  <2>6. CASE \E q \in {"enableTool", "disableTool"}, t \in Tool : SwitchTool(w, s, t, q)
    BY <2>2, <2>6 DEF SwitchTool
  <2>7. QED
    BY <1>1, <2>3, <2>4, <2>5, <2>6 DEF Arrive
<1>2. CASE \E w \in Worker : Step(w) \/ Fail(w)
  BY <1>2, ToolsStep
<1>3. CASE \E s \in Server : StartCheck(s) \/ FinishCheck(s) \/ Flip(s)
  <2>1. Copies' = Copies /\ nextKey' = nextKey
    BY <1>3 DEF StartCheck, FinishCheck, Flip, stores, counters, Copies
  <2>2. QED
    BY <2>1, NothingNewKeeps DEF NothingNew
<1>4. CASE Restart
  <2>1. Copies' \subseteq Copies /\ nextKey' = nextKey
    BY <1>4 DEF Restart, counters, Copies
  <2>2. QED
    BY <2>1, NothingNewKeeps DEF NothingNew
<1>5. CASE UNCHANGED vars
  BY <1>5 DEF vars, KeysOK, Copies
<1>6. QED
  BY <1>1, <1>2, <1>3, <1>4, <1>5 DEF Next

\* Writes to the servers table that keep the id of every row.
KeepsIds == \A s \in Server : row[s] # None => row'[s] # None /\ row'[s].id = row[s].id

LEMMA OwnedKeeps ==
    ASSUME Startable, KeepsIds,
           \A r \in tools' : \/ \E c \in tools : c.sid = r.sid
                             \/ \E s \in Server : HasRow(s, r.sid)
    PROVE  Startable'
<1>1. ASSUME NEW r \in tools'
      PROVE  \E s \in Server : HasRow(s, r.sid)
  BY DEF Startable
<1>2. \A id, s \in Server : HasRow(s, id) => HasRow(s, id)'
  BY DEF KeepsIds, HasRow
<1>3. QED
  BY <1>1, <1>2 DEF Startable, KeepsIds, HasRow

\* Save writes back a copy under the id its row has now.
LEMMA SaveKeepsIds ==
    ASSUME TypeOK, NEW s \in Server, NEW r \in Row, NEW st \in Status,
           row' = SaveRow(s, [r EXCEPT !.status = st])
    PROVE  KeepsIds
<1>1. \A x \in Server \ {s} : row'[x] = row[x]
  BY DEF SaveRow, TypeOK
<1>2. ASSUME row[s] # None
      PROVE  row'[s] # None /\ row'[s].id = row[s].id
  <2>1. row'[s] = [[r EXCEPT !.status = st] EXCEPT !.id = row[s].id]
    BY <1>2 DEF SaveRow, TypeOK
  <2>2. [r EXCEPT !.status = st] \in Row
    BY DEF Row
  <2>3. row'[s] \in Row /\ row'[s].id = row[s].id
    BY <1>2, <2>1, <2>2, RowAt DEF Row
  <2>4. QED
    BY <2>3, NoneAssumption
<1>3. QED
  BY <1>1, <1>2 DEF KeepsIds

\* Deleting a row that no tool references.
LEMMA DeleteKeepsOwners ==
    ASSUME TypeOK, Startable, NEW s \in Server, NEW id, HasRow(s, id), MayDelete(id),
           row' = [row EXCEPT ![s] = None], tools' = tools
    PROVE  Startable'
<1>1. ASSUME NEW r \in tools
      PROVE  \E x \in Server : HasRow(x, r.sid)'
  <2>1. PICK x \in Server : HasRow(x, r.sid)
    BY DEF Startable
  <2>2. r.sid # id
    BY DEF MayDelete, RowsOf
  <2>3. x # s
    BY <2>1, <2>2 DEF HasRow
  <2>4. QED
    BY <2>1, <2>3 DEF HasRow, TypeOK
<1>2. QED
  BY <1>1 DEF Startable

LEMMA OwnersStep ==
    ASSUME TypeOK, KeysOK, Startable, NEW w \in Worker, Step(w) \/ Fail(w)
    PROVE  Startable'
<1> DEFINE s == job[w].srv
           r == job[w].snap
<1>1. job[w] # None /\ s \in Server /\ r \in Row /\ job[w].rows \in SUBSET ToolRow
  BY StepKeeps, JobAt
<1>2. CASE row' = row /\ tools' \subseteq tools
  BY <1>2, OwnedKeeps DEF KeepsIds
<1>3. CASE Mark(w) \/ Accept(w) \/ Reject(w) \/ Release(w) \/ Switch(w) \/ Bury(w)
  <2>1. SwitchedStatus(job[w].req) \in Status
    BY DEF SwitchedStatus, Status
  <2>2. {"validating", "pending_publish", "validation_failed", "online", "archived"}
          \subseteq Status
    BY DEF Status
  <2>3. \E st \in Status : row' = SaveRow(s, [r EXCEPT !.status = st])
    BY <1>3, <2>1, <2>2 DEF Mark, Accept, Reject, Release, Switch, Bury
  <2>4. tools' = tools
    BY <1>3 DEF Mark, Accept, Reject, Release, Switch, Bury
  <2>5. QED
    BY <1>1, <2>3, <2>4, SaveKeepsIds, OwnedKeeps
<1>4. CASE Clean(w) \/ Erase(w)
  <2>1. /\ tools' = tools
        /\ \/ row' = row
           \/ /\ HasRow(s, r.id) /\ MayDelete(r.id)
              /\ row' = [row EXCEPT ![s] = None]
    BY <1>4 DEF Clean, Erase
  <2>2. QED
    BY <1>1, <1>2, <2>1, DeleteKeepsOwners
<1>5. CASE Persist(w)
  <2>1. \A x \in tools' : x \in tools \/ HasRow(s, x.sid)
    BY <1>5 DEF Persist, CreateTool
  <2>2. QED
    BY <1>1, <1>5, <2>1, OwnedKeeps DEF Persist, KeepsIds
<1>6. CASE SaveNextTool(w)
  <2>1. PICK q \in job[w].rows :
           \/ tools' = tools
           \/ MaySaveTool(s, q) /\ tools' = SaveTool(q, TurnsOn(job[w].req))
    BY <1>6 DEF SaveNextTool
  <2>2. row' = row
    BY <1>6 DEF SaveNextTool
  <2>3. \A x \in tools' : x \in tools \/ x.sid = q.sid
    BY <1>1, <2>1 DEF SaveTool, ToolRow
  <2>4. MaySaveTool(s, q) => (\E c \in tools : c.sid = q.sid) \/ HasRow(s, q.sid)
    <3>1. q \in Copies /\ tools \subseteq Copies
      BY <1>1 DEF Copies
    <3>2. QED
      BY <3>1 DEF MaySaveTool, KeysOK
  <2>5. QED
    BY <1>1, <2>1, <2>2, <2>3, <2>4, OwnedKeeps DEF KeepsIds
<1>7. QED
  BY <1>2, <1>3, <1>4, <1>5, <1>6 DEF Step, Fail, stores, ReadDraft, Connect,
     Persisted, ReadPending, Load, Expose, Exposed, ReadTools, ShowTool, Switched,
     List, Drop, Hide

\* The foreign key and the copies handlers hold never leave a tool without its
\* server, so the gateway can always start again.
THEOREM ToolsAlwaysOwned == Spec => []ToolsOwned
<1>1. Init => KeysOK /\ Startable
  BY DEF Init, KeysOK, Copies, Startable
<1>2. TypeOK /\ KeysOK /\ Startable /\ [Next]_vars => KeysOK' /\ Startable'
  <2> SUFFICES ASSUME TypeOK, KeysOK, Startable, [Next]_vars
               PROVE  Startable'
    BY KeysStep
  <2>1. ASSUME NEW w \in Worker, NEW s \in Server, Arrive(w, s)
        PROVE  Startable'
    <3>1. tools' = tools /\ KeepsIds
      <4>1. ASSUME NEW q, NEW p, NEW ts, Begin(w, s, q, p, ts)
            PROVE  tools' = tools /\ KeepsIds
        BY <4>1 DEF Begin, stores, KeepsIds
      <4>2. CASE Register(w, s)
        BY <4>2 DEF Register, KeepsIds, TypeOK
      <4>3. CASE \/ Validate(w, s) \/ Publish(w, s) \/ Archive(w, s) \/ Deregister(w, s)
        BY <4>1, <4>3 DEF Validate, Publish, Archive, Deregister
      <4>4. CASE \E q \in {"enable", "disable"} : SwitchServer(w, s, q)
        BY <4>1, <4>4 DEF SwitchServer
      <4>5. CASE \E q \in {"enableTool", "disableTool"}, t \in Tool : SwitchTool(w, s, t, q)
        BY <4>1, <4>5 DEF SwitchTool
      <4>6. QED
        BY <2>1, <4>2, <4>3, <4>4, <4>5 DEF Arrive
    <3>2. QED
      BY <3>1, OwnedKeeps
  <2>2. CASE \E w \in Worker : Step(w) \/ Fail(w)
    BY <2>2, OwnersStep
  <2>3. CASE \E s \in Server : StartCheck(s) \/ FinishCheck(s) \/ Flip(s)
    <3>1. CASE \E s \in Server : StartCheck(s) \/ Flip(s)
      BY <3>1, OwnedKeeps DEF StartCheck, Flip, stores, KeepsIds
    <3>2. CASE \E s \in Server : FinishCheck(s)
      <4>1. PICK s \in Server : FinishCheck(s)
        BY <3>2
      <4>2. \A x \in Server \ {s} : row'[x] = row[x]
        BY <4>1 DEF FinishCheck, TypeOK
      <4>3. ASSUME row[s] # None
            PROVE  row'[s] # None /\ row'[s].id = row[s].id
        <5>1. CASE row' = row
          BY <4>3, <5>1
        <5>2. CASE row'[s] \in {AfterFailure(check[s], row[s]), AfterSuccess(check[s], row[s])}
          <6>1. check[s] # None /\ row[s] \in Row
            BY <4>1, <4>3, RowAt DEF FinishCheck
          <6>2. \A v \in {AfterFailure(check[s], row[s]), AfterSuccess(check[s], row[s])} :
                   v \in Row /\ v.id = row[s].id
            BY <6>1, VerdictType
          <6>3. QED
            BY <5>2, <6>2, NoneAssumption
        <5>3. QED
          BY <4>1, <5>1, <5>2 DEF FinishCheck, TypeOK
      <4>4. QED
        BY <4>1, <4>2, <4>3, OwnedKeeps DEF FinishCheck, KeepsIds
    <3>3. QED
      BY <2>3, <3>1, <3>2
  <2>4. CASE Restart
    BY <2>4, OwnedKeeps DEF Restart, KeepsIds
  <2>5. CASE UNCHANGED vars
    BY <2>5, OwnedKeeps DEF vars, KeepsIds
  <2>6. QED
    BY <2>1, <2>2, <2>3, <2>4, <2>5 DEF Next
<1>3. QED
  BY <1>1, <1>2, TypeCorrect, PTL DEF Spec, ToolsOwned

------------------------------------------------------------------------------
(* Verdicts.                                                               *)

\* Some handler owes s a verdict, or the verdict is lost.
Owed(s) == s \in lost \/ \E w \in Worker : Validating(w) /\ job[w].srv = s

\* A step of w leaves the claims of the others alone.
LEMMA OwedStays ==
    ASSUME NEW w \in Worker, NEW s \in Server, Owed(s),
           \A x \in Worker \ {w} : job'[x] = job[x],
           s \in lost => s \in lost',
           Validating(w) /\ job[w].srv = s =>
               s \in lost' \/ (Validating(w)' /\ job'[w].srv = s)
    PROVE  Owed(s)'
<1>1. CASE s \in lost
  BY <1>1 DEF Owed
<1>2. CASE \E x \in Worker : Validating(x) /\ job[x].srv = s
  <2>1. PICK x \in Worker : Validating(x) /\ job[x].srv = s
    BY <1>2
  <2>2. CASE x = w
    BY <2>1, <2>2 DEF Owed
  <2>3. CASE x # w
    <3>1. Validating(x)' /\ job'[x].srv = s
      BY <2>1, <2>3 DEF Validating, At
    <3>2. QED
      BY <3>1 DEF Owed
  <2>4. QED
    BY <2>2, <2>3
<1>3. QED
  BY <1>1, <1>2 DEF Owed

\* A handler that saves another status leaves no new row "validating".
LEMMA SavesOther ==
    ASSUME TypeOK, NEW w \in Worker, job[w] # None, NEW st \in Status, st # "validating",
           row' = SaveRow(job[w].srv, [job[w].snap EXCEPT !.status = st]),
           NEW s \in Server, HasStatus(s, {"validating"})'
    PROVE  s # job[w].srv /\ HasStatus(s, {"validating"})
<1>1. /\ job[w].srv \in Server /\ job[w].snap \in Row
      /\ row \in [Server -> Row \cup {None}]
  BY JobAt DEF TypeOK
<1>2. ASSUME s = job[w].srv PROVE row'[s].status = st
  BY <1>1, <1>2 DEF SaveRow, Row
<1>3. s # job[w].srv
  BY <1>2 DEF HasStatus
<1>4. row'[s] = row[s]
  BY <1>1, <1>3 DEF SaveRow
<1>5. QED
  BY <1>3, <1>4 DEF HasStatus

\* What a step of handler w has to show: nobody else moves, no other server
\* becomes "validating", and w's own claim is kept or lost.
LEMMA StepOwes ==
    ASSUME TypeOK, ValidatingHeld, NEW w \in Worker, Step(w) \/ Fail(w)
    PROVE  ValidatingHeld'
<1> USE DEF Goto, GotoWith, Finish, LeaveValidation
<1> SUFFICES ASSUME NEW s \in Server, HasStatus(s, {"validating"})'
             PROVE  Owed(s)'
  BY DEF ValidatingHeld, Owed
<1>1. HasStatus(s, {"validating"}) => Owed(s)
  BY DEF ValidatingHeld, Owed
<1>2. job \in [Worker -> Job \cup {None}] /\ row \in [Server -> Row \cup {None}]
  BY DEF TypeOK
<1>3. CASE Mark(w)
  <2>1. job[w] # None /\ ~Validating(w) /\ job'[w].srv = job[w].srv /\ Validating(w)'
    <3>1. job[w] # None /\ job[w].pc = "mark" /\ job[w] \in Job
      BY <1>3, JobAt DEF Mark, At
    <3>2. job'[w] = [job[w] EXCEPT !.pc = "connect"] /\ job'[w] \in Job
      BY <1>2, <1>3, <3>1 DEF Mark, Job, Pc
    <3>3. job'[w].pc = "connect" /\ job'[w].srv = job[w].srv /\ job'[w] # None
      BY <3>1, <3>2, NoneAssumption DEF Job
    <3>4. QED
      BY <3>1, <3>3 DEF At, Validating
  <2>2. CASE s = job[w].srv
    BY <2>1, <2>2 DEF Owed
  <2>3. CASE s # job[w].srv
    <3>1. row'[s] = row[s] /\ (s \in lost => s \in lost')
      BY <1>2, <1>3, <2>3, JobAt DEF Mark, At, SaveRow
    <3>2. Owed(s)
      BY <1>1, <3>1 DEF HasStatus
    <3>3. \A x \in Worker \ {w} : job'[x] = job[x]
      BY <1>2, <1>3 DEF Mark
    <3>4. QED
      BY <2>1, <3>1, <3>2, <3>3, OwedStays
  <2>4. QED
    BY <2>2, <2>3
<1>4. CASE Accept(w) \/ Reject(w)
  <2>1. PICK st \in Status :
           /\ st # "validating" /\ job[w] # None /\ lost' = lost
           /\ row' = SaveRow(job[w].srv, [job[w].snap EXCEPT !.status = st])
    BY <1>4 DEF Accept, Reject, At, Status
  <2>2. s # job[w].srv /\ Owed(s)
    BY <1>1, <2>1, SavesOther
  <2>3. \A x \in Worker \ {w} : job'[x] = job[x]
    BY <1>2, <1>4 DEF Accept, Reject
  <2>4. QED
    BY <2>1, <2>2, <2>3, OwedStays
<1>5. CASE Release(w) \/ Switch(w) \/ Bury(w)
  <2>1. PICK st \in Status :
           /\ st # "validating" /\ job[w] # None /\ lost' = lost /\ ~Validating(w)
           /\ row' = SaveRow(job[w].srv, [job[w].snap EXCEPT !.status = st])
    BY <1>5 DEF Release, Switch, Bury, SwitchedStatus, At, Validating, Status
  <2>2. Owed(s)
    BY <1>1, <2>1, SavesOther
  <2>3. \A x \in Worker \ {w} : job'[x] = job[x]
    BY <1>2, <1>5 DEF Release, Switch, Bury
  <2>4. QED
    BY <2>1, <2>2, <2>3, OwedStays
<1>6. CASE Connect(w) \/ Persist(w) \/ Persisted(w)
  <2>1. row' = row /\ lost' = lost /\ \A x \in Worker \ {w} : job'[x] = job[x]
    BY <1>2, <1>6 DEF Connect, Persist, Persisted
  <2>2. job'[w].srv = job[w].srv /\ Validating(w)'
    <3>1. job[w] # None /\ job[w] \in Job
      BY <1>6, JobAt DEF Connect, Persist, Persisted, At
    <3>2. PICK p \in {"connect", "persist", "accept", "reject"} :
             job'[w] \in Job /\ job'[w].pc = p /\ job'[w].srv = job[w].srv
      <4>1. CASE Connect(w)
        <5>1. \/ job'[w] = [job[w] EXCEPT !.pc = "persist", !.names = Tool]
              \/ job'[w] = [job[w] EXCEPT !.pc = "reject"]
          BY <1>2, <4>1 DEF Connect
        <5>2. QED
          BY <3>1, <5>1 DEF Job, Pc
      <4>2. CASE Persist(w)
        <5>1. PICK t \in job[w].names : job'[w] = [job[w] EXCEPT !.names = @ \ {t}]
          BY <1>2, <4>2 DEF Persist
        <5>2. QED
          BY <3>1, <4>2, <5>1 DEF Persist, At, Job
      <4>3. CASE Persisted(w)
        <5>1. job'[w] = [job[w] EXCEPT !.pc = "accept"]
          BY <1>2, <4>3 DEF Persisted
        <5>2. QED
          BY <3>1, <5>1 DEF Job, Pc
      <4>4. QED
        BY <1>6, <4>1, <4>2, <4>3
    <3>3. QED
      BY <3>2, NoneAssumption DEF At, Validating
  <2>3. QED
    BY <1>1, <2>1, <2>2, OwedStays DEF HasStatus
<1>7. CASE Fail(w)
  <2>1. row' = row /\ lost \subseteq lost' /\ \A x \in Worker \ {w} : job'[x] = job[x]
    BY <1>2, <1>7 DEF Fail
  <2>2. CASE job[w].pc \in {"accept", "reject"}
    BY <1>1, <1>7, <2>1, <2>2, OwedStays DEF Fail, HasStatus
  <2>3. CASE job[w].pc = "persist"
    <3>1. job'[w].srv = job[w].srv /\ Validating(w)'
      <4>1. job[w] # None /\ job[w] \in Job
        BY <1>7, JobAt DEF Fail
      <4>2. PICK t \in job[w].names : job'[w] = [job[w] EXCEPT !.names = @ \ {t}]
        BY <1>2, <1>7, <2>3 DEF Fail
      <4>3. job'[w] \in Job /\ job'[w].pc = "persist" /\ job'[w].srv = job[w].srv
        BY <2>3, <4>1, <4>2 DEF Job
      <4>4. QED
        BY <4>3, NoneAssumption DEF At, Validating
    <3>2. QED
      BY <1>1, <2>1, <3>1, OwedStays DEF HasStatus
  <2>4. CASE job[w].pc \notin {"accept", "reject", "persist"}
    <3>1. ~Validating(w)
      BY <1>7, <2>4 DEF Fail, Validating, At
    <3>2. QED
      BY <1>1, <2>1, <3>1, OwedStays DEF HasStatus
  <2>5. QED
    BY <2>2, <2>3, <2>4
<1>8. CASE Clean(w) \/ Erase(w)
  <2>1. ~Validating(w) /\ lost' = lost /\ \A x \in Worker \ {w} : job'[x] = job[x]
    BY <1>2, <1>8 DEF Clean, Erase, Validating, At
  <2>2. row'[s] \in {row[s], None}
    BY <1>2, <1>8, JobAt DEF Clean, Erase, At
  <2>3. QED
    BY <1>1, <2>1, <2>2, OwedStays DEF HasStatus
<1>9. CASE \/ ReadDraft(w) \/ ReadPending(w) \/ Load(w) \/ Expose(w) \/ Exposed(w)
           \/ ReadTools(w) \/ SaveNextTool(w) \/ ShowTool(w) \/ Switched(w)
           \/ List(w) \/ Drop(w) \/ Hide(w)
  <2>1. /\ ~Validating(w) /\ row' = row /\ lost' = lost
        /\ \A x \in Worker \ {w} : job'[x] = job[x]
    BY <1>2, <1>9 DEF ReadDraft, ReadPending, Load, Expose, Exposed, ReadTools,
       SaveNextTool, ShowTool, Switched, List, Drop, Hide, Validating, At
  <2>2. QED
    BY <1>1, <2>1, OwedStays DEF HasStatus
<1>10. QED
  BY <1>3, <1>4, <1>5, <1>6, <1>7, <1>8, <1>9 DEF Step

\* A row says "validating" only while a handler owes its server a verdict, or
\* the verdict was lost to a failing save or a crash.
THEOREM VerdictsOwed == Spec => []ValidatingHeld
<1>1. Init => ValidatingHeld
  BY DEF Init, ValidatingHeld, HasStatus
<1>2. TypeOK /\ ValidatingHeld /\ [Next]_vars => ValidatingHeld'
  <2> SUFFICES ASSUME TypeOK, ValidatingHeld, [Next]_vars
               PROVE  ValidatingHeld'
    OBVIOUS
  <2>1. job \in [Worker -> Job \cup {None}] /\ row \in [Server -> Row \cup {None}]
    BY DEF TypeOK
  <2>2. ASSUME NEW w \in Worker, NEW s \in Server, Arrive(w, s)
        PROVE  ValidatingHeld'
    <3>1. /\ job[w] = None /\ \A x \in Worker \ {w} : job'[x] = job[x]
          /\ \A x \in Server \ {s} : row'[x] = row[x] /\ (x \in lost' <=> x \in lost)
          /\ (row'[s] = row[s] /\ lost' = lost) \/ row'[s].status = "draft"
      <4>1. ASSUME NEW q, NEW p, NEW ts, Begin(w, s, q, p, ts)
            PROVE  /\ job[w] = None /\ \A x \in Worker \ {w} : job'[x] = job[x]
                   /\ row' = row /\ lost' = lost
        BY <2>1, <4>1 DEF Begin
      <4>2. CASE Register(w, s)
        BY <2>1, <4>2 DEF Register
      <4>3. CASE \/ Validate(w, s) \/ Publish(w, s) \/ Archive(w, s) \/ Deregister(w, s)
        BY <4>1, <4>3 DEF Validate, Publish, Archive, Deregister
      <4>4. CASE \E q \in {"enable", "disable"} : SwitchServer(w, s, q)
        BY <4>1, <4>4 DEF SwitchServer
      <4>5. CASE \E q \in {"enableTool", "disableTool"}, t \in Tool : SwitchTool(w, s, t, q)
        BY <4>1, <4>5 DEF SwitchTool
      <4>6. QED
        BY <2>2, <4>2, <4>3, <4>4, <4>5 DEF Arrive
    <3>2. ASSUME NEW x \in Server, HasStatus(x, {"validating"})' PROVE Owed(x)'
      <4>1. HasStatus(x, {"validating"}) /\ (x \in lost => x \in lost')
        BY <3>1, <3>2 DEF HasStatus
      <4>2. Owed(x) /\ ~Validating(w)
        BY <3>1, <4>1 DEF ValidatingHeld, Owed, Validating, At
      <4>3. QED
        BY <3>1, <4>1, <4>2, OwedStays
    <3>3. QED
      BY <3>2 DEF ValidatingHeld, Owed
  <2>3. CASE \E w \in Worker : Step(w) \/ Fail(w)
    BY <2>3, StepOwes
  <2>4. CASE \E s \in Server : StartCheck(s) \/ FinishCheck(s) \/ Flip(s)
    <3>1. UNCHANGED <<job, lost>>
      BY <2>4 DEF StartCheck, FinishCheck, Flip
    <3>2. ASSUME NEW x \in Server, HasStatus(x, {"validating"})'
          PROVE  HasStatus(x, {"validating"})
      <4>1. CASE row'[x] = row[x]
        BY <3>2, <4>1 DEF HasStatus
      <4>2. CASE row'[x] # row[x]
        <5>1. /\ FinishCheck(x) /\ row[x] \in Row
              /\ row'[x] \in {AfterSuccess(check[x], row[x]), AfterFailure(check[x], row[x])}
          BY <2>1, <2>4, <4>2 DEF StartCheck, FinishCheck, Flip, HasRow
        <5>2. row'[x].status \in {row[x].status, "unhealthy", "pending_publish"}
          BY <5>1 DEF AfterSuccess, AfterFailure, Row
        <5>3. QED
          BY <3>2, <5>1, <5>2, NoneAssumption DEF HasStatus
      <4>3. QED
        BY <4>1, <4>2
    <3>3. QED
      BY <3>1, <3>2 DEF ValidatingHeld, Validating, At
  <2>5. CASE Restart
    BY <2>5 DEF Restart, ValidatingHeld, HasStatus, Validating, At
  <2>6. CASE UNCHANGED vars
    BY <2>6 DEF vars, ValidatingHeld, HasStatus, Validating, At
  <2>7. QED
    BY <2>2, <2>3, <2>4, <2>5, <2>6 DEF Next
<1>3. QED
  BY <1>1, <1>2, TypeCorrect, PTL DEF Spec

------------------------------------------------------------------------------
(* Requests for one server one at a time.  Any number of handlers run, on   *)
(* different servers.  Then the copy a handler holds is of the row there    *)
(* is, so nothing it writes brings back what another request has taken      *)
(* away; only the health check, faults and crashes come in between.         *)

\* No two handlers work on one server: nothing in the code sees to it, so it is
\* a hypothesis of the theorems, what administrators who wait for one another
\* provide.
Apart ==
    \A v, w \in Worker : job[v] # None /\ job[w] # None /\ job[v].srv = job[w].srv => v = w

\* The copy a handler holds is of the live row.
Held == \A w \in Worker : job[w] # None => HasRow(job[w].srv, job[w].snap.id)

\* The ids of live rows are distinct.
IdsOK ==
    \A s \in Server : row[s] # None =>
        /\ row[s].id < nextId
        /\ \A x \in Server : HasRow(x, row[s].id) => x = s

\* A server that may be validated has no tools yet.
Fresh == \A s \in Server : row[s] # None /\ Validatable(row[s]) => RowsOf(row[s].id) = {}

KeyOwn == \A q, r \in tools : q.key < nextKey /\ (q.key = r.key => q = r)

\* The tools the proxy exposes for s are among S.
Shown(s, S) == \A t \in Tool : <<s, t>> \in proxy => t \in S

\* The tools the current registration of s has rows for.
Listed(s) == IF row[s] = None THEN {} ELSE ToolsOf(row[s].id)

\* What a handler has seen to by where it is.
InPlace(w) ==
    /\ job[w].pc \in {"mark", "connect", "reject"} => RowsOf(job[w].snap.id) = {}
    /\ job[w].pc = "persist" => job[w].names \cap ToolsOf(job[w].snap.id) = {}
    /\ job[w].pc \in {"connect", "persist"} => ~Validatable(row[job[w].srv])
    /\ job[w].pc \in {"saveTool", "showTool"} => job[w].rows \subseteq RowsOf(job[w].snap.id)
    /\ job[w].pc \in {"expose", "showTool"} => job[w].names \subseteq ToolsOf(job[w].snap.id)
    /\ job[w].pc = "drop" => ToolsOf(job[w].snap.id) \subseteq job[w].names
    /\ job[w].pc = "hide" => Shown(job[w].srv, job[w].names)

\* What it has been asked for and is not done with.
Asks(w) ==
    /\ job[w].req \in Serving => job[w].srv \notin halted
    /\ job[w].req = "disable" /\ job[w].pc \in {"readTools", "saveTool", "showTool"}
       => ~HasStatus(job[w].srv, {"online"})

JobsOK == \A w \in Worker : job[w] # None => InPlace(w) /\ Asks(w)

\* Whoever has dropped the rows of a server is about to hide its tools.
Hiding(s) == \E w \in Worker : job[w] # None /\ job[w].srv = s /\ job[w].pc = "hide"
Exposing == \A s \in Server : Hiding(s) \/ Shown(s, Listed(s))

Tables == IdsOK /\ Fresh /\ KeyOwn /\ UniqueTools /\ Startable

\* The step is one of w, which alone works on s.
Alone(w, s) == OthersKeep(w) /\ \A v \in Worker \ {w} : job[v] # None => job[v].srv # s

\* What the step leaves as it is for whoever works on another server than s.
Elsewhere(s) ==
    \A x \in Server \ {s} :
        /\ row'[x] = row[x]
        /\ \A i \in Nat : HasRow(x, i) => RowsOf(i)' = RowsOf(i)
        /\ \A t \in Tool : <<x, t>> \in proxy' <=> <<x, t>> \in proxy
        /\ x \in halted' <=> x \in halted

Serial == TypeOK /\ FlowOK /\ Held /\ Tables /\ JobsOK /\ Exposing /\ GoneStays /\ StopSticks

\* Writes to the servers table that keep which rows there are.
SameIds == \A s \in Server : \A id \in Nat : HasRow(s, id)' <=> HasRow(s, id)

LEMMA SameRows ==
    ASSUME TypeOK, TypeOK', SameIds, NEW s \in Server
    PROVE  /\ row'[s] = None <=> row[s] = None
           /\ row[s] # None => row'[s].id = row[s].id
<1>1. /\ row[s] # None => row[s].id \in Nat
      /\ row'[s] # None => row'[s].id \in Nat
  BY DEF TypeOK, Row
<1>2. ASSUME row[s] # None PROVE row'[s] # None /\ row'[s].id = row[s].id
  BY <1>1, <1>2 DEF SameIds, HasRow
<1>3. ASSUME row'[s] # None PROVE row[s] # None
  BY <1>1, <1>3 DEF SameIds, HasRow
<1> QED
  BY <1>2, <1>3

LEMMA TablesKeep ==
    ASSUME TypeOK, TypeOK', Tables, SameIds, UNCHANGED <<tools, counters>>,
           \A s \in Server : row'[s] # None /\ Validatable(row'[s]) => RowsOf(row'[s].id) = {}
    PROVE  Tables'
<1>1. IdsOK'
  BY SameRows DEF Tables, IdsOK, HasRow
<1>2. Fresh'
  BY DEF Fresh, RowsOf, Validatable
<1>3. KeyOwn' /\ UniqueTools'
  BY DEF Tables, KeyOwn, UniqueTools
<1>4. Startable'
  <2> SUFFICES ASSUME NEW r \in tools PROVE \E s \in Server : HasRow(s, r.sid)'
    BY DEF Startable
  <2>1. r.sid \in Nat
    BY DEF TypeOK, ToolRow
  <2> QED
    BY <2>1 DEF Tables, Startable, SameIds
<1> QED
  BY <1>1, <1>2, <1>3, <1>4 DEF Tables

LEMMA ExposingKeeps ==
    ASSUME Exposing, NEW w \in Worker, OthersKeep(w), job[w] = None \/ job[w].pc # "hide",
           proxy' \subseteq proxy,
           \A s \in Server : Listed(s) \subseteq Listed(s)'
    PROVE  Exposing'
<1> SUFFICES ASSUME NEW s \in Server, ~Hiding(s)'
             PROVE  Shown(s, Listed(s))'
  BY DEF Exposing
<1>1. ~Hiding(s)
  BY DEF Hiding, OthersKeep
<1> QED
  BY <1>1 DEF Exposing, Shown

\* A handler that works on another server goes on with what it had.
LEMMA OthersStay ==
    ASSUME TypeOK, Held, JobsOK, NEW s \in Server, Elsewhere(s),
           NEW v \in Worker, job[v] # None, job[v].srv # s, job'[v] = job[v]
    PROVE  HasRow(job[v].srv, job[v].snap.id)' /\ InPlace(v)' /\ Asks(v)'
<1> DEFINE x == job[v].srv
           id == job[v].snap.id
<1>1. x \in Server \ {s} /\ id \in Nat
  BY JobAt DEF Row
<1>2. HasRow(x, id) /\ InPlace(v) /\ Asks(v)
  BY DEF Held, JobsOK
<1>3. /\ row'[x] = row[x] /\ RowsOf(id)' = RowsOf(id)
      /\ \A t \in Tool : <<x, t>> \in proxy' <=> <<x, t>> \in proxy
      /\ x \in halted' <=> x \in halted
  <2>1. RowsOf(job[v].snap.id)' = {r \in tools' : r.sid = job'[v].snap.id}
    BY DEF RowsOf
  <2>2. \A i \in Nat : HasRow(x, i) => {r \in tools' : r.sid = i} = RowsOf(i)
    BY <1>1 DEF Elsewhere, RowsOf
  <2> QED
    BY <1>1, <1>2, <2>1, <2>2 DEF Elsewhere
<1>4. ToolsOf(id)' = ToolsOf(id)
  BY <1>3 DEF ToolsOf
<1>5. InPlace(v)'
  BY <1>2, <1>3, <1>4 DEF InPlace, Shown
<1>6. HasRow(x, id)' /\ Asks(v)'
  BY <1>2, <1>3 DEF HasRow, Asks, HasStatus
<1> QED
  BY <1>5, <1>6

\* So it is enough to look at the handler that makes the step.
LEMMA JobsKeep ==
    ASSUME TypeOK, Held, JobsOK, NEW w \in Worker, NEW s \in Server, Alone(w, s), Elsewhere(s),
           \/ job'[w] = None
           \/ HasRow(job[w].srv, job[w].snap.id)' /\ InPlace(w)' /\ Asks(w)'
    PROVE  Held' /\ JobsOK'
<1>1. ASSUME NEW v \in Worker, job'[v] # None
      PROVE  HasRow(job[v].srv, job[v].snap.id)' /\ InPlace(v)' /\ Asks(v)'
  <2>1. CASE v = w
    BY <1>1, <2>1
  <2>2. CASE v # w
    <3>1. job'[v] = job[v] /\ job[v] # None /\ job[v].srv # s
      BY <1>1, <2>2 DEF Alone, OthersKeep
    <3> QED
      BY <3>1, OthersStay
  <2> QED
    BY <2>1, <2>2
<1> QED
  BY <1>1 DEF Held, JobsOK

LEMMA ListedSame ==
    ASSUME TypeOK, TypeOK', SameIds, tools' = tools
    PROVE  \A s \in Server : Listed(s)' = Listed(s)
BY SameRows DEF Listed, ToolsOf, RowsOf

LEMMA SavedRow ==
    ASSUME TypeOK, NEW s \in Server, row[s] # None, NEW r \in Row, NEW st \in Status,
           row' = SaveRow(s, [r EXCEPT !.status = st])
    PROVE  /\ row'[s] # None /\ row'[s].status = st
           /\ \A x \in Server \ {s} : row'[x] = row[x]
           /\ SameIds
<1>1. /\ [r EXCEPT !.status = st] \in Row /\ row[s].id \in Nat
      /\ row' = [row EXCEPT ![s] = [[r EXCEPT !.status = st] EXCEPT !.id = row[s].id]]
  BY RowAt DEF SaveRow, Row
<1>2. /\ [[r EXCEPT !.status = st] EXCEPT !.id = row[s].id] \in Row
      /\ [[r EXCEPT !.status = st] EXCEPT !.id = row[s].id].status = st
      /\ [[r EXCEPT !.status = st] EXCEPT !.id = row[s].id].id = row[s].id
  BY <1>1 DEF Row
<1>3. row'[s] # None /\ row'[s].status = st /\ row'[s].id = row[s].id
  BY <1>1, <1>2, NoneAssumption DEF TypeOK
<1>4. \A x \in Server \ {s} : row'[x] = row[x]
  BY <1>1 DEF TypeOK
<1> QED
  BY <1>3, <1>4 DEF SameIds, HasRow

\* Where a handler is after its step.
At1(w, p) == job'[w] # None /\ job'[w].pc = p

\* It has the same request, server and copy as before.
SameSnap(w) == job'[w].req = job[w].req /\ job'[w].srv = job[w].srv /\ job'[w].snap = job[w].snap

LEMMA Went ==
    ASSUME TypeOK, NEW w \in Worker, job[w] # None, NEW p \in Pc, Goto(w, p)
    PROVE  /\ At1(w, p) /\ SameSnap(w)
           /\ job'[w].names = job[w].names /\ job'[w].rows = job[w].rows
<1>1. [job[w] EXCEPT !.pc = p] \in Job
  BY JobAt DEF Job
<1>2. job'[w] = [job[w] EXCEPT !.pc = p] /\ job[w] \in Job
  BY JobAt DEF Goto, TypeOK
<1> QED
  BY <1>1, <1>2, NoneAssumption DEF Job, At1, SameSnap

LEMMA WentWith ==
    ASSUME TypeOK, NEW w \in Worker, job[w] # None, NEW p \in Pc, NEW r \in Row,
           GotoWith(w, p, r)
    PROVE  /\ At1(w, p) /\ job'[w].snap = r
           /\ job'[w].req = job[w].req /\ job'[w].srv = job[w].srv
           /\ job'[w].names = job[w].names /\ job'[w].rows = job[w].rows
<1>1. [job[w] EXCEPT !.pc = p, !.snap = r] \in Job
  BY JobAt DEF Job
<1>2. job'[w] = [job[w] EXCEPT !.pc = p, !.snap = r] /\ job[w] \in Job
  BY JobAt DEF GotoWith, TypeOK
<1> QED
  BY <1>1, <1>2, NoneAssumption DEF Job, At1

\* A handler's request ends; whatever it was doing, nothing is left to do.
LEMMA Ended ==
    ASSUME Serial, NEW w \in Worker, NEW s \in Server, Alone(w, s), Elsewhere(s), Finish(w)
    PROVE  Held' /\ JobsOK' /\ job'[w] = None
<1>1. job'[w] = None
  BY DEF Finish, Serial, TypeOK
<1> QED
  BY <1>1, JobsKeep DEF Serial

\* The servers table and the proxy stay; only what the handler is about changes.
LEMMA JobKeeps ==
    ASSUME Serial, NEW w \in Worker, OthersKeep(w), TypeOK', FlowOK', Held', JobsOK',
           job[w] = None \/ job[w].pc # "hide",
           UNCHANGED <<stores, counters, gone>>,
           \A s \in halted' : s \in halted \/ ~HasStatus(s, {"online"})
    PROVE  Serial'
<1> row' = row /\ tools' = tools /\ proxy' = proxy /\ gone' = gone
  OBVIOUS
<1>1. SameIds /\ TypeOK /\ Tables
  BY DEF SameIds, HasRow, Serial
<1>2. Tables'
  BY <1>1, TablesKeep DEF Tables, Fresh
<1>3. Exposing'
  <2>1. \A s \in Server : Listed(s) \subseteq Listed(s)'
    BY <1>1, ListedSame
  <2> QED
    BY <2>1, ExposingKeeps DEF Serial
<1>4. GoneStays' /\ StopSticks'
  BY DEF Serial, GoneStays, StopSticks, HasStatus
<1> QED
  BY <1>2, <1>3, <1>4 DEF Serial

\* A copy is saved with another status.  "online" takes a request to serve.
LEMMA SaveKeeps ==
    ASSUME Serial, NEW w \in Worker, Alone(w, job[w].srv), TypeOK', FlowOK',
           job[w] # None, job[w].pc # "hide",
           NEW st \in Status,
           row' = SaveRow(job[w].srv, [job[w].snap EXCEPT !.status = st]),
           UNCHANGED <<tools, proxy, counters, gone>>,
           halted' \in {halted, halted \cup {job[w].srv}},
           st \in {"draft", "validation_failed"} => RowsOf(job[w].snap.id) = {},
           st = "online" => job[w].srv \notin halted'
    PROVE  /\ Tables' /\ Exposing' /\ GoneStays' /\ StopSticks' /\ SameIds
           /\ Elsewhere(job[w].srv)
           /\ row'[job[w].srv] # None /\ row'[job[w].srv].status = st
           /\ \A id : RowsOf(id)' = RowsOf(id) /\ ToolsOf(id)' = ToolsOf(id)
<1> DEFINE s == job[w].srv
<1>1. /\ TypeOK /\ Tables /\ s \in Server /\ job[w].snap \in Row
      /\ row[s] # None /\ row[s].id = job[w].snap.id
  BY JobAt DEF Serial, Held, HasRow
<1>2. /\ row'[s] # None /\ row'[s].status = st
      /\ \A x \in Server \ {s} : row'[x] = row[x]
      /\ SameIds
  BY <1>1, SavedRow
<1>3. row'[s].id = row[s].id
  BY <1>1, <1>2, SameRows
<1>4. \A x \in Server : row'[x] # None /\ Validatable(row'[x]) => RowsOf(row'[x].id) = {}
  BY <1>1, <1>2, <1>3 DEF Tables, Fresh, Validatable
<1>5. Tables'
  BY <1>1, <1>2, <1>4, TablesKeep
<1>6. Exposing'
  BY <1>1, <1>2, ListedSame, ExposingKeeps DEF Serial, Alone
<1>7. GoneStays'
  <2>1. gone \subseteq Server /\ GoneStays /\ gone' = gone
    BY DEF Serial, TypeOK
  <2> QED
    BY <1>1, <1>2, <2>1 DEF GoneStays
<1>8. StopSticks'
  <2>1. halted' \subseteq Server /\ StopSticks
    BY DEF Serial, TypeOK
  <2> QED
    BY <1>1, <1>2, <2>1 DEF StopSticks, HasStatus
<1>9. \A id : RowsOf(id)' = RowsOf(id) /\ ToolsOf(id)' = ToolsOf(id)
  BY DEF RowsOf, ToolsOf
<1>10. Elsewhere(s)
  BY <1>2 DEF Elsewhere, RowsOf
<1> QED
  BY <1>2, <1>5, <1>6, <1>7, <1>8, <1>9, <1>10

\* What holds of a handler that is somewhere.
LEMMA Here ==
    ASSUME Serial, NEW w \in Worker, job[w] # None
    PROVE  /\ w \in Worker /\ TypeOK /\ InPlace(w) /\ Asks(w)
           /\ job[w].srv \in Server /\ job[w].snap \in Row /\ job[w].snap.id \in Nat
           /\ row[job[w].srv] # None /\ row[job[w].srv].id = job[w].snap.id
           /\ row[job[w].srv] \in Row
           /\ HasRow(job[w].srv, job[w].snap.id)
           /\ job[w].req \in AllRequest /\ job[w].rows \in SUBSET ToolRow
<1> w \in Worker /\ TypeOK
  BY DEF Serial
<1> QED
  BY JobAt, RowAt DEF Serial, Held, JobsOK, HasRow, Row

\* The step of a handler that only reads.
Reads(w) ==
    \/ ReadDraft(w) \/ Connect(w) \/ Persisted(w) \/ ReadPending(w) \/ Load(w)
    \/ Exposed(w) \/ ReadTools(w) \/ Switched(w) \/ List(w) \/ Fail(w)

\* After which it has the copy, the request and the server it had.
LEMMA ReadsKeep ==
    ASSUME Serial, NEW w \in Worker, Alone(w, job[w].srv), job[w] # None, Reads(w), TypeOK'
    PROVE  Held' /\ JobsOK'
<1> USE DEF At, Pc
<1> DEFINE s == job[w].srv
<1> row' = row /\ tools' = tools /\ proxy' = proxy
  BY DEF Reads, ReadDraft, Connect, Persisted, ReadPending, Load, Exposed, ReadTools,
     Switched, List, Fail
<1>1. /\ w \in Worker /\ TypeOK /\ InPlace(w) /\ Asks(w)
      /\ s \in Server /\ row[s] # None /\ row[s].id = job[w].snap.id /\ row[s] \in Row
  BY Here
<1>elsewhere. Elsewhere(s)
  BY DEF Elsewhere, RowsOf, Reads, ReadDraft, Connect, Persisted, ReadPending, Load, Exposed,
     ReadTools, Switched, List, Fail
<1>2. ASSUME Finish(w) PROVE Held' /\ JobsOK'
  BY <1>1, <1>2, <1>elsewhere, Ended
<1>3. ASSUME job'[w] # None, job'[w].srv = s, job'[w].req = job[w].req,
             job'[w].snap.id = job[w].snap.id, halted' = halted, InPlace(w)',
             job'[w].pc \in {"readTools", "saveTool", "showTool"}
             => job[w].pc \in {"readTools", "saveTool", "showTool"}
      PROVE  Held' /\ JobsOK'
  <2>1. HasRow(job[w].srv, job[w].snap.id)'
    BY <1>1, <1>3 DEF HasRow
  <2>2. Asks(w)'
    BY <1>1, <1>3 DEF Asks, HasStatus
  <2> QED
    BY <1>1, <1>3, <1>elsewhere, <2>1, <2>2, JobsKeep DEF Serial
<1>4. ASSUME LeaveValidation(w), halted' = halted PROVE Held' /\ JobsOK'
  <2>1. CASE Goto(w, "clean")
    <3>1. At1(w, "clean") /\ SameSnap(w)
      BY <1>1, <2>1, Went
    <3>2. InPlace(w)'
      BY <3>1 DEF InPlace, At1
    <3> QED
      BY <1>3, <1>4, <3>1, <3>2 DEF At1, SameSnap
  <2> QED
    BY <1>2, <1>4, <2>1 DEF LeaveValidation
<1>5. CASE ReadDraft(w)
  <2>1. CASE GotoWith(w, "mark", row[s]) /\ Validatable(row[s])
    <3>1. /\ At1(w, "mark") /\ job'[w].snap = row[s]
          /\ job'[w].req = job[w].req /\ job'[w].srv = s
      BY <1>1, <2>1, WentWith
    <3>2. RowsOf(row[s].id) = {}
      BY <1>1, <2>1 DEF Serial, Tables, Fresh
    <3>3. InPlace(w)'
      BY <3>1, <3>2 DEF InPlace, At1, RowsOf
    <3> QED
      BY <1>1, <1>3, <1>5, <3>1, <3>3 DEF ReadDraft, At1
  <2> QED
    BY <1>4, <1>5, <2>1 DEF ReadDraft
<1>6. CASE Connect(w)
  <2>1. RowsOf(job[w].snap.id) = {} /\ ~Validatable(row[s])
    BY <1>1, <1>6 DEF Connect, InPlace
  <2>2. ToolsOf(job[w].snap.id) = {}
    BY <2>1 DEF ToolsOf
  <2>3. job'[w] # None /\ SameSnap(w) /\ job'[w].pc \in {"persist", "reject"}
    <3>1. CASE Goto(w, "reject")
      BY <1>1, <3>1, Went DEF At1
    <3>2. CASE job' = [job EXCEPT ![w].pc = "persist", ![w].names = Tool]
      <4>1. job'[w] = [job[w] EXCEPT !.pc = "persist", !.names = Tool] /\ job[w] \in Job
        BY <1>1, <3>2, JobAt DEF TypeOK
      <4>2. [job[w] EXCEPT !.pc = "persist", !.names = Tool] \in Job
        BY <4>1 DEF Job
      <4> QED
        BY <4>1, <4>2, NoneAssumption DEF Job, SameSnap
    <3> QED
      BY <1>6, <3>1, <3>2 DEF Connect
  <2>4. InPlace(w)'
    BY <2>1, <2>2, <2>3 DEF InPlace, SameSnap, RowsOf, ToolsOf
  <2> QED
    BY <1>3, <1>6, <2>3, <2>4 DEF Connect, SameSnap
<1>7. CASE Persisted(w)
  <2>1. At1(w, "accept") /\ SameSnap(w)
    BY <1>1, <1>7, Went DEF Persisted
  <2>2. InPlace(w)'
    BY <2>1 DEF InPlace, At1
  <2> QED
    BY <1>3, <1>7, <2>1, <2>2 DEF Persisted, At1, SameSnap
<1>8. CASE ReadPending(w)
  <2>1. CASE GotoWith(w, "release", row[s])
    <3>1. /\ At1(w, "release") /\ job'[w].snap = row[s]
          /\ job'[w].req = job[w].req /\ job'[w].srv = s
      BY <1>1, <2>1, WentWith
    <3>2. InPlace(w)'
      BY <3>1 DEF InPlace, At1
    <3> QED
      BY <1>1, <1>3, <1>8, <3>1, <3>2 DEF ReadPending, At1
  <2> QED
    BY <1>2, <1>8, <2>1 DEF ReadPending
<1>9. CASE Load(w)
  <2>1. job'[w] = [job[w] EXCEPT !.pc = "expose", !.names = ToolsOf(job[w].snap.id)]
        /\ job[w] \in Job
    BY <1>1, <1>9, JobAt DEF Load, TypeOK
  <2>2. ToolsOf(job[w].snap.id) \in SUBSET Tool
    BY <1>1 DEF TypeOK, ToolsOf, RowsOf, ToolRow
  <2>3. [job[w] EXCEPT !.pc = "expose", !.names = ToolsOf(job[w].snap.id)] \in Job
    BY <2>1, <2>2 DEF Job
  <2>4. /\ At1(w, "expose") /\ SameSnap(w)
        /\ job'[w].names = ToolsOf(job[w].snap.id)
    BY <2>1, <2>3, NoneAssumption DEF Job, At1, SameSnap
  <2>5. InPlace(w)'
    BY <2>4 DEF InPlace, At1, SameSnap, ToolsOf, RowsOf
  <2> QED
    BY <1>3, <1>9, <2>4, <2>5 DEF Load, At1, SameSnap
<1>10. CASE Exposed(w) \/ Switched(w)
  BY <1>2, <1>10 DEF Exposed, Switched
<1>11. CASE ReadTools(w)
  <2>1. PICK rs : /\ rs \subseteq RowsOf(row[s].id)
                  /\ job' = [job EXCEPT ![w].pc = "saveTool", ![w].snap = row[s],
                                        ![w].rows = rs]
    BY <1>1, <1>11 DEF ReadTools, ToChange
  <2>2. job'[w] = [job[w] EXCEPT !.pc = "saveTool", !.snap = row[s], !.rows = rs]
        /\ job[w] \in Job
    BY <1>1, <2>1, JobAt DEF TypeOK
  <2>3. rs \in SUBSET ToolRow
    BY <1>1, <2>1 DEF TypeOK, RowsOf
  <2>4. [job[w] EXCEPT !.pc = "saveTool", !.snap = row[s], !.rows = rs] \in Job
    BY <1>1, <2>2, <2>3 DEF Job
  <2>5. /\ At1(w, "saveTool") /\ job'[w].snap = row[s] /\ job'[w].rows = rs
        /\ job'[w].req = job[w].req /\ job'[w].srv = s
    BY <2>2, <2>4, NoneAssumption DEF Job, At1
  <2>6. InPlace(w)'
    BY <2>1, <2>5 DEF InPlace, At1, RowsOf
  <2> QED
    BY <1>1, <1>3, <1>11, <2>5, <2>6 DEF ReadTools, At1
<1>12. CASE List(w)
  <2>1. job' = [job EXCEPT ![w].pc = "drop", ![w].names = ToolsOf(row[s].id)]
    BY <1>1, <1>12 DEF List
  <2>2. job'[w] = [job[w] EXCEPT !.pc = "drop", !.names = ToolsOf(row[s].id)]
        /\ job[w] \in Job
    BY <1>1, <2>1, JobAt DEF TypeOK
  <2>3. ToolsOf(row[s].id) \in SUBSET Tool
    BY <1>1 DEF TypeOK, ToolsOf, RowsOf, ToolRow
  <2>4. [job[w] EXCEPT !.pc = "drop", !.names = ToolsOf(row[s].id)] \in Job
    BY <2>2, <2>3 DEF Job
  <2>5. At1(w, "drop") /\ SameSnap(w) /\ job'[w].names = ToolsOf(row[s].id)
    BY <2>2, <2>4, NoneAssumption DEF Job, At1, SameSnap
  <2>6. InPlace(w)'
    BY <1>1, <2>5 DEF InPlace, At1, SameSnap, ToolsOf, RowsOf
  <2> QED
    BY <1>3, <1>12, <2>5, <2>6 DEF List, At1, SameSnap
<1>13. CASE Fail(w)
  <2>1. CASE job[w].pc = "persist" /\ \E t \in job[w].names :
                job' = [job EXCEPT ![w].names = @ \ {t}]
    <3>1. PICK t \in job[w].names : job' = [job EXCEPT ![w].names = @ \ {t}]
      BY <2>1
    <3>2. job'[w] = [job[w] EXCEPT !.names = @ \ {t}] /\ job[w] \in Job
      BY <1>1, <3>1, JobAt DEF TypeOK
    <3>3. [job[w] EXCEPT !.names = @ \ {t}] \in Job
      BY <3>2 DEF Job
    <3>4. /\ At1(w, "persist") /\ SameSnap(w)
          /\ job'[w].names = job[w].names \ {t}
      BY <2>1, <3>2, <3>3, NoneAssumption DEF Job, At1, SameSnap
    <3>5. InPlace(w)'
      BY <1>1, <2>1, <3>4 DEF InPlace, At1, SameSnap, ToolsOf, RowsOf
    <3> QED
      BY <1>3, <1>13, <3>4, <3>5 DEF Fail, At1, SameSnap
  <2> QED
    BY <1>2, <1>4, <1>13, <2>1 DEF Fail
<1> QED
  BY <1>5, <1>6, <1>7, <1>8, <1>9, <1>10, <1>11, <1>12, <1>13 DEF Reads

\* A step of a handler that saves its copy.
Saves(w) ==
    Mark(w) \/ Accept(w) \/ Reject(w) \/ Release(w) \/ Switch(w) \/ Bury(w)

LEMMA SavesKeep ==
    ASSUME Serial, NEW w \in Worker, Alone(w, job[w].srv), job[w] # None, Saves(w), TypeOK', FlowOK'
    PROVE  Serial'
<1> USE DEF At, Pc
<1> DEFINE s == job[w].srv
<1>1. /\ w \in Worker /\ TypeOK /\ InPlace(w) /\ Asks(w)
      /\ s \in Server /\ row[s] # None /\ row[s].id = job[w].snap.id
      /\ job[w].snap.id \in Nat /\ HasRow(s, job[w].snap.id)
  BY Here
<1> DEFINE Saved(st) ==
      /\ Tables' /\ Exposing' /\ GoneStays' /\ StopSticks' /\ SameIds /\ Elsewhere(s)
      /\ row'[s] # None /\ row'[s].status = st
      /\ \A id : RowsOf(id)' = RowsOf(id) /\ ToolsOf(id)' = ToolsOf(id)
<1>2. ASSUME NEW st \in Status, Saved(st), job'[w] # None, SameSnap(w), halted' = halted,
             InPlace(w)', Asks(w)'
      PROVE  Serial'
  <2>1. HasRow(job[w].srv, job[w].snap.id)'
    BY <1>1, <1>2 DEF SameSnap, SameIds
  <2> QED
    BY <1>1, <1>2, <2>1, JobsKeep DEF Serial
<1>3. ASSUME NEW st \in Status, Saved(st), Finish(w)
      PROVE  Serial'
  BY <1>1, <1>3, Ended DEF Serial
<1>4. ASSUME NEW st \in Status, Saved(st), LeaveValidation(w), halted' = halted
      PROVE  Serial'
  <2>1. CASE Goto(w, "clean")
    <3>1. At1(w, "clean") /\ SameSnap(w)
      BY <1>1, <2>1, Went
    <3>2. InPlace(w)' /\ Asks(w)'
      BY <1>1, <1>4, <3>1 DEF InPlace, At1, Asks, SameSnap
    <3> QED
      BY <1>2, <1>4, <3>1, <3>2 DEF At1
  <2> QED
    BY <1>3, <1>4, <2>1 DEF LeaveValidation
<1>5. CASE Mark(w)
  <2>1. RowsOf(job[w].snap.id) = {}
    BY <1>1, <1>5 DEF Mark, InPlace
  <2>2. Saved("validating")
    BY <1>1, <1>5, SaveKeeps DEF Mark, Status
  <2>3. At1(w, "connect") /\ SameSnap(w)
    BY <1>1, <1>5, Went DEF Mark
  <2>4. halted' = halted
    BY <1>5 DEF Mark
  <2>5. RowsOf(job[w].snap.id)' = {} /\ ~Validatable(row'[s])
    BY <2>1, <2>2 , <2>3 DEF Validatable, SameSnap
  <2>6. InPlace(w)'
    BY <2>3, <2>5 DEF InPlace, At1, SameSnap
  <2>7. Asks(w)'
    BY <1>1, <2>3, <2>4 DEF Asks, At1, SameSnap
  <2> QED
    BY <1>2, <2>2, <2>3, <2>4, <2>6, <2>7 DEF At1, Status
<1>6. CASE Accept(w)
  <2>1. Saved("pending_publish")
    BY <1>1, <1>6, SaveKeeps DEF Accept, Status
  <2>2. halted' = halted
    BY <1>6 DEF Accept
  <2>3. CASE Goto(w, "readPending")
    <3>1. At1(w, "readPending") /\ SameSnap(w)
      BY <1>1, <2>3, Went
    <3>2. InPlace(w)' /\ Asks(w)'
      BY <1>1, <2>2, <3>1 DEF InPlace, At1, Asks, SameSnap
    <3> QED
      BY <1>2, <2>1, <2>2, <3>1, <3>2 DEF At1, Status
  <2> QED
    BY <1>3, <1>6, <2>1, <2>3 DEF Accept, Status
<1>7. CASE Reject(w)
  <2>1. RowsOf(job[w].snap.id) = {}
    BY <1>1, <1>7 DEF Reject, InPlace
  <2>2. Saved("validation_failed")
    BY <1>1, <1>7, <2>1, SaveKeeps DEF Reject, Status
  <2>3. halted' = halted /\ LeaveValidation(w)
    BY <1>7 DEF Reject
  <2> QED
    BY <1>4, <2>2, <2>3 DEF Status
<1>8. CASE Release(w)
  <2>1. s \notin halted /\ halted' = halted
    BY <1>1, <1>8 DEF Release, Serial, FlowOK, Asks, Serving
  <2>2. Saved("online")
    BY <1>1, <1>8, <2>1, SaveKeeps DEF Release, Status
  <2>3. At1(w, "load") /\ SameSnap(w)
    BY <1>1, <1>8, Went DEF Release
  <2>4. InPlace(w)' /\ Asks(w)'
    BY <1>1, <2>1, <2>3 DEF InPlace, At1, Asks, SameSnap
  <2> QED
    BY <1>2, <2>1, <2>2, <2>3, <2>4 DEF At1, Status
<1>9. CASE Switch(w)
  <2>1. job[w].req \in {"enable", "disable"}
    BY <1>1, <1>9 DEF Switch, Serial, FlowOK
  <2>2. /\ halted' = halted
        /\ job[w].req = "enable" => s \notin halted
    BY <1>1, <1>9 DEF Switch, Asks, Serving
  <2>3. /\ SwitchedStatus(job[w].req) \in Status
        /\ SwitchedStatus(job[w].req) \notin {"draft", "validation_failed"}
        /\ job[w].req = "disable" => SwitchedStatus(job[w].req) # "online"
    BY DEF SwitchedStatus, TurnsOn, Status
  <2>4. Saved(SwitchedStatus(job[w].req))
    BY <1>1, <1>9, <2>1, <2>2, <2>3, SaveKeeps DEF Switch
  <2>5. At1(w, "readTools") /\ SameSnap(w)
    BY <1>1, <1>9, Went DEF Switch
  <2>6. InPlace(w)'
    BY <2>5 DEF InPlace, At1
  <2>7. Asks(w)'
    BY <1>1, <2>1, <2>2, <2>3, <2>4, <2>5 DEF Asks, SameSnap, HasStatus, Serving
  <2> QED
    BY <1>2, <2>2, <2>3, <2>4, <2>5, <2>6, <2>7 DEF At1
<1>10. CASE Bury(w)
  <2>1. halted' = halted \cup {s} /\ Finish(w)
    BY <1>10 DEF Bury
  <2>2. Saved("archived")
    BY <1>1, <1>10, <2>1, SaveKeeps DEF Bury, Status
  <2> QED
    BY <1>3, <2>1, <2>2 DEF Status
<1> QED
  BY <1>5, <1>6, <1>7, <1>8, <1>9, <1>10 DEF Saves

\* A row that no tool references is deleted: nothing was listed under it.
LEMMA DeletesKeep ==
    ASSUME Serial, NEW w \in Worker, Alone(w, job[w].srv), job[w] # None, Clean(w) \/ Erase(w), TypeOK', FlowOK'
    PROVE  Serial'
<1> DEFINE s == job[w].srv
<1>1. /\ TypeOK /\ s \in Server /\ row[s] # None /\ row[s].id = job[w].snap.id
      /\ HasRow(s, job[w].snap.id) /\ job[w].pc # "hide" /\ w \in Worker
  BY Here DEF Clean, Erase, At
<1>2. /\ Finish(w) /\ tools' = tools /\ proxy' = proxy /\ halted' = halted
      /\ nextId' = nextId /\ nextKey' = nextKey
  BY DEF Clean, Erase
<1>elsewhere. Elsewhere(s)
  BY <1>1, <1>2 DEF Elsewhere, RowsOf, Clean, Erase, TypeOK
<1>3. Held' /\ JobsOK'
  BY <1>1, <1>2, <1>elsewhere, Ended
<1>4. CASE MayDelete(job[w].snap.id)
  <2>1. row' = [row EXCEPT ![s] = None]
    BY <1>1, <1>4 DEF Clean, Erase
  <2>2. row'[s] = None /\ \A x \in Server \ {s} : row'[x] = row[x]
    BY <1>1, <2>1 DEF TypeOK
  <2>3. IdsOK' /\ Fresh' /\ KeyOwn' /\ UniqueTools'
    <3>1. IdsOK /\ Fresh /\ KeyOwn /\ UniqueTools
      BY DEF Serial, Tables
    <3>2. IdsOK'
      BY <1>2, <2>2, <3>1 DEF IdsOK, HasRow
    <3>3. Fresh'
      BY <1>2, <2>2, <3>1 DEF Fresh, RowsOf
    <3>4. KeyOwn' /\ UniqueTools'
      BY <1>2, <3>1 DEF KeyOwn, UniqueTools
    <3> QED
      BY <3>2, <3>3, <3>4
  <2>4. Startable'
    BY <1>1, <1>2, <1>4, <2>1, DeleteKeepsOwners DEF Serial, Tables
  <2>5. Exposing'
    <3>1. Listed(s) = {}
      BY <1>1, <1>4 DEF Listed, ToolsOf, MayDelete
    <3>2. \A x \in Server \ {s} : Listed(x)' = Listed(x)
      BY <1>2, <2>2 DEF Listed, ToolsOf, RowsOf
    <3>3. \A x \in Server : Listed(x) \subseteq Listed(x)'
      BY <3>1, <3>2
    <3> QED
      BY <1>1, <1>2, <3>3, ExposingKeeps DEF Serial, Alone
  <2>6. GoneStays'
    <3>1. gone' \subseteq gone \cup {s} /\ gone \subseteq Server
      BY <1>1 DEF Clean, Erase, TypeOK
    <3> QED
      BY <2>2, <3>1 DEF Serial, GoneStays
  <2>7. StopSticks'
    <3>1. halted \subseteq Server
      BY <1>1 DEF TypeOK
    <3> QED
      BY <1>2, <2>2, <3>1 DEF Serial, StopSticks, HasStatus
  <2> QED
    BY <1>3, <2>3, <2>4, <2>5, <2>6, <2>7 DEF Serial, Tables
<1>5. CASE ~MayDelete(job[w].snap.id)
  <2>1. row' = row /\ gone' = gone
    BY <1>5 DEF Clean, Erase
  <2> QED
    BY <1>1, <1>2, <1>3, <2>1, JobKeeps DEF Alone
<1> QED
  BY <1>4, <1>5

LEMMA RowsStay ==
    ASSUME Serial, UNCHANGED <<row, halted, gone>>
    PROVE  GoneStays' /\ StopSticks'
BY DEF Serial, GoneStays, StopSticks, HasStatus

\* A validation adds a tool of the upstream its server has no row for yet.
LEMMA PersistKeeps ==
    ASSUME Serial, NEW w \in Worker, Alone(w, job[w].srv), job[w] # None, Persist(w), TypeOK', FlowOK'
    PROVE  Serial'
<1> DEFINE s == job[w].srv
           id == job[w].snap.id
<1>1. /\ w \in Worker /\ TypeOK /\ InPlace(w) /\ Asks(w)
      /\ s \in Server /\ row[s] # None /\ row[s].id = id /\ HasRow(s, id)
      /\ job[w].pc = "persist" /\ nextKey \in Nat /\ id \in Nat
  BY Here DEF Persist, At, TypeOK
<1>2. /\ row' = row /\ proxy' = proxy /\ nextId' = nextId /\ nextKey' = nextKey + 1
      /\ halted' = halted /\ gone' = gone
  BY DEF Persist
<1>3. PICK t \in job[w].names :
        /\ tools' = CreateTool(s, id, t)
        /\ job' = [job EXCEPT ![w].names = @ \ {t}]
  BY DEF Persist
<1>4. PICK new \in ToolRow :
        /\ new.key = nextKey /\ new.sid = id /\ new.tool = t
        /\ tools' = tools \cup {new}
  <2>1. t \in Tool
    BY <1>1, JobAt
  <2>2. [key |-> nextKey, sid |-> id, tool |-> t, enabled |-> TRUE] \in ToolRow
    BY <1>1, <2>1 DEF ToolRow
  <2> QED
    BY <1>1, <1>3, <2>2 DEF CreateTool
<1>5. t \notin ToolsOf(id) /\ ~Validatable(row[s])
  BY <1>1 DEF InPlace
<1>6. \A r \in tools : r.key \in Nat /\ r.key < nextKey
  BY <1>1 DEF Serial, Tables, KeyOwn, TypeOK, ToolRow
<1>7. IdsOK' /\ Startable'
  <2>1. IdsOK /\ Startable
    BY DEF Serial, Tables
  <2>2. IdsOK'
    BY <1>2, <2>1 DEF IdsOK, HasRow
  <2>3. Startable'
    BY <1>1, <1>2, <1>4, <2>1 DEF Startable, HasRow
  <2> QED
    BY <2>2, <2>3
<1>8. Fresh'
  <2> SUFFICES ASSUME NEW x \in Server, row[x] # None, Validatable(row[x])
               PROVE  RowsOf(row[x].id)' = {}
    BY <1>2 DEF Fresh, RowsOf
  <2>1. row[x].id # id
    BY <1>1, <1>5 DEF Serial, Tables, IdsOK, HasRow
  <2>2. RowsOf(row[x].id) = {}
    BY DEF Serial, Tables, Fresh
  <2> QED
    BY <1>2, <1>4, <2>1, <2>2 DEF RowsOf
<1>9. KeyOwn'
  <2>1. KeyOwn
    BY DEF Serial, Tables
  <2>2. \A r \in tools' : r.key < nextKey'
    BY <1>1, <1>2, <1>4, <1>6
  <2>3. \A q, r \in tools' : q.key = r.key => q = r
    BY <1>1, <1>4, <1>6, <2>1 DEF KeyOwn
  <2> QED
    BY <2>2, <2>3 DEF KeyOwn
<1>10. UniqueTools'
  BY <1>4, <1>5 DEF Serial, Tables, UniqueTools, ToolsOf, RowsOf
<1>11. Exposing'
  <2>1. \A x \in Server : Listed(x) \subseteq Listed(x)'
    BY <1>2, <1>4 DEF Listed, ToolsOf, RowsOf
  <2> QED
    BY <1>1, <1>2, <2>1, ExposingKeeps DEF Serial, Alone
<1>elsewhere. Elsewhere(s)
  <2>1. ASSUME NEW x \in Server \ {s}, NEW i \in Nat, HasRow(x, i) PROVE RowsOf(i)' = RowsOf(i)
    <3>1. i # id
      BY <1>1, <2>1 DEF Serial, Tables, IdsOK, HasRow
    <3> QED
      BY <1>4, <3>1 DEF RowsOf
  <2> QED
    BY <1>2, <2>1 DEF Elsewhere
<1>12. Held' /\ JobsOK'
  <2>1. job'[w] = [job[w] EXCEPT !.names = @ \ {t}] /\ job[w] \in Job
    BY <1>1, <1>3, JobAt DEF TypeOK
  <2>2. [job[w] EXCEPT !.names = @ \ {t}] \in Job
    BY <2>1 DEF Job
  <2>3. /\ At1(w, "persist") /\ SameSnap(w) /\ job'[w].names = job[w].names \ {t}
    BY <1>1, <2>1, <2>2, NoneAssumption DEF Job, At1, SameSnap
  <2>4. ToolsOf(id)' = ToolsOf(id) \cup {t}
    BY <1>4, <2>3 DEF ToolsOf, RowsOf, SameSnap
  <2>5. InPlace(w)'
    BY <1>1, <1>2, <1>5, <2>3, <2>4 DEF InPlace, At1, SameSnap
  <2>6. Asks(w)'
    BY <1>1, <1>2, <2>3 DEF Asks, At1, SameSnap
  <2>7. HasRow(job[w].srv, job[w].snap.id)'
    BY <1>1, <1>2, <2>3 DEF HasRow, SameSnap
  <2> QED
    BY <1>1, <1>elsewhere, <2>3, <2>5, <2>6, <2>7, JobsKeep DEF Serial
<1> QED
  BY <1>2, <1>7, <1>8, <1>9, <1>10, <1>11, <1>12, RowsStay DEF Serial, Tables

\* The rows of a tool that is switched: as many, and of the same tools.
LEMMA SaveToolKeeps ==
    ASSUME Serial, NEW w \in Worker, Alone(w, job[w].srv), job[w] # None, SaveNextTool(w), TypeOK', FlowOK'
    PROVE  Serial'
<1> DEFINE s == job[w].srv
           id == job[w].snap.id
<1>1. /\ w \in Worker /\ TypeOK /\ InPlace(w) /\ Asks(w)
      /\ s \in Server /\ row[s] # None /\ row[s].id = id /\ HasRow(s, id)
      /\ job[w].pc = "saveTool" /\ job[w].rows \in SUBSET ToolRow
      /\ job[w].rows \subseteq tools
  BY Here DEF SaveNextTool, At, InPlace, RowsOf
<1>2. /\ row' = row /\ proxy' = proxy /\ nextId' = nextId /\ nextKey' = nextKey
      /\ halted' = halted /\ gone' = gone
  BY DEF SaveNextTool
<1>3. PICK r \in job[w].rows :
        /\ tools' = SaveTool(r, TurnsOn(job[w].req))
        /\ job' = [job EXCEPT ![w].pc = "showTool", ![w].rows = @ \ {r},
                              ![w].names = {r.tool}]
  BY <1>1 DEF SaveNextTool, MaySaveTool
<1>4. r \in tools /\ r \in ToolRow /\ r.sid = id
  BY <1>1 DEF InPlace, RowsOf
<1>5. PICK new \in ToolRow :
        /\ new.key = r.key /\ new.sid = r.sid /\ new.tool = r.tool
        /\ tools' = (tools \ {r}) \cup {new}
  <2>1. [r EXCEPT !.enabled = TurnsOn(job[w].req)] \in ToolRow
    <3>1. TurnsOn(job[w].req) \in BOOLEAN
      BY DEF TurnsOn
    <3> QED
      BY <1>4, <3>1 DEF ToolRow
  <2>2. {x \in tools : x.key # r.key} = tools \ {r}
    BY <1>4 DEF Serial, Tables, KeyOwn
  <2>3. tools' = (tools \ {r}) \cup {[r EXCEPT !.enabled = TurnsOn(job[w].req)]}
    BY <1>3, <1>4, <2>2 DEF SaveTool
  <2>4. /\ [r EXCEPT !.enabled = TurnsOn(job[w].req)].key = r.key
        /\ [r EXCEPT !.enabled = TurnsOn(job[w].req)].sid = r.sid
        /\ [r EXCEPT !.enabled = TurnsOn(job[w].req)].tool = r.tool
    BY <1>4 DEF ToolRow
  <2> QED
    BY <2>1, <2>3, <2>4
<1>6. ASSUME NEW i
      PROVE  /\ ToolsOf(i)' = ToolsOf(i)
             /\ RowsOf(i) = {} => RowsOf(i)' = {}
  BY <1>4, <1>5 DEF ToolsOf, RowsOf
<1>7. Tables'
  <2>1. IdsOK /\ Fresh /\ KeyOwn /\ UniqueTools /\ Startable
    BY DEF Serial, Tables
  <2>2. IdsOK' /\ Fresh'
    BY <1>2, <1>6, <2>1 DEF IdsOK, Fresh, HasRow
  <2>3. KeyOwn'
    BY <1>2, <1>4, <1>5, <2>1 DEF KeyOwn
  <2>4. UniqueTools'
    BY <1>4, <1>5, <2>1 DEF UniqueTools
  <2>5. Startable'
    BY <1>2, <1>4, <1>5, <2>1 DEF Startable, HasRow
  <2> QED
    BY <2>2, <2>3, <2>4, <2>5 DEF Tables
<1>8. Exposing'
  <2>1. \A x \in Server : Listed(x) \subseteq Listed(x)'
    BY <1>2, <1>6 DEF Listed
  <2> QED
    BY <1>1, <1>2, <2>1, ExposingKeeps DEF Serial, Alone
<1>elsewhere. Elsewhere(s)
  <2>1. ASSUME NEW x \in Server \ {s}, NEW i \in Nat, HasRow(x, i) PROVE RowsOf(i)' = RowsOf(i)
    <3>1. i # id
      BY <1>1, <2>1 DEF Serial, Tables, IdsOK, HasRow
    <3> QED
      BY <1>4, <1>5, <3>1 DEF RowsOf
  <2> QED
    BY <1>2, <2>1 DEF Elsewhere
<1>9. Held' /\ JobsOK'
  <2>1. /\ job'[w] = [job[w] EXCEPT !.pc = "showTool", !.rows = @ \ {r}, !.names = {r.tool}]
        /\ job[w] \in Job
    BY <1>1, <1>3, JobAt DEF TypeOK
  <2>2. [job[w] EXCEPT !.pc = "showTool", !.rows = @ \ {r}, !.names = {r.tool}] \in Job
    BY <1>4, <2>1 DEF Job, Pc, ToolRow
  <2>3. /\ At1(w, "showTool") /\ SameSnap(w)
        /\ job'[w].rows = job[w].rows \ {r} /\ job'[w].names = {r.tool}
    BY <2>1, <2>2, NoneAssumption DEF Job, At1, SameSnap
  <2>4. job[w].rows \ {r} \subseteq RowsOf(id)' /\ r.tool \in ToolsOf(id)'
    BY <1>1, <1>4, <1>5, <2>3 DEF InPlace, RowsOf, ToolsOf, SameSnap
  <2>5. InPlace(w)'
    BY <2>3, <2>4 DEF InPlace, At1, SameSnap
  <2>6. Asks(w)'
    BY <1>1, <1>2, <2>3 DEF Asks, At1, SameSnap, HasStatus
  <2>7. HasRow(job[w].srv, job[w].snap.id)'
    BY <1>1, <1>2, <2>3 DEF HasRow, SameSnap
  <2> QED
    BY <1>1, <1>elsewhere, <2>3, <2>5, <2>6, <2>7, JobsKeep DEF Serial
<1> QED
  BY <1>2, <1>7, <1>8, <1>9, RowsStay DEF Serial

\* The proxy gets a tool the handler has just read, or loses some.
Shows(w) == Expose(w) \/ ShowTool(w)

LEMMA ShowsKeep ==
    ASSUME Serial, NEW w \in Worker, Alone(w, job[w].srv), job[w] # None, Shows(w), TypeOK', FlowOK'
    PROVE  Serial'
<1> USE DEF At, Pc
<1> DEFINE s == job[w].srv
           id == job[w].snap.id
<1>1. /\ w \in Worker /\ TypeOK /\ InPlace(w) /\ Asks(w)
      /\ s \in Server /\ row[s] # None /\ row[s].id = id /\ HasRow(s, id)
      /\ job[w].pc # "hide" /\ job[w].names \subseteq ToolsOf(id)
  BY Here DEF Shows, Expose, ShowTool, InPlace
<1>2. /\ row' = row /\ tools' = tools /\ nextId' = nextId /\ nextKey' = nextKey
      /\ halted' = halted /\ gone' = gone
  BY DEF Shows, Expose, ShowTool
<1>3. Tables'
  BY <1>1, <1>2, TablesKeep DEF Serial, Tables, Fresh, SameIds, HasRow
<1>4. Exposing'
  <2>1. proxy' \subseteq proxy \cup ({s} \X job[w].names)
    BY DEF Shows, Expose, ShowTool
  <2>2. Listed(s) = ToolsOf(id)
    BY <1>1 DEF Listed
  <2>3. \A x \in Server : Listed(x)' = Listed(x)
    BY <1>2 DEF Listed, ToolsOf, RowsOf
  <2>4. Shown(s, Listed(s))
    BY <1>1 DEF Serial, Exposing, Hiding, Alone
  <2>5. ASSUME NEW x \in Server, x = s PROVE Shown(x, Listed(x))'
    BY <1>1, <2>1, <2>2, <2>3, <2>4, <2>5 DEF Shown
  <2>6. ASSUME NEW x \in Server \ {s}, Hiding(x) PROVE Hiding(x)'
    BY <2>6 DEF Hiding, Alone, OthersKeep
  <2>7. ASSUME NEW x \in Server \ {s}, Shown(x, Listed(x)) PROVE Shown(x, Listed(x))'
    BY <2>1, <2>3, <2>7 DEF Shown
  <2> QED
    BY <2>5, <2>6, <2>7 DEF Serial, Exposing
<1>5. /\ job'[w] # None /\ SameSnap(w) /\ job'[w].names \subseteq job[w].names
      /\ job'[w].rows = job[w].rows
      /\ (job'[w].pc = "saveTool" /\ job[w].pc = "showTool") \/ job'[w].pc = "expose"
  <2>1. CASE ShowTool(w)
    BY <1>1, <2>1, Went DEF ShowTool, At1, SameSnap
  <2>2. CASE Expose(w)
    <3>1. PICK t \in job[w].names : job' = [job EXCEPT ![w].names = @ \ {t}]
      BY <2>2 DEF Expose
    <3>2. job'[w] = [job[w] EXCEPT !.names = @ \ {t}] /\ job[w] \in Job
      BY <1>1, <3>1, JobAt DEF TypeOK
    <3>3. [job[w] EXCEPT !.names = @ \ {t}] \in Job
      BY <3>2 DEF Job
    <3> QED
      BY <2>2, <3>2, <3>3, NoneAssumption DEF Job, SameSnap, Expose
  <2> QED
    BY <2>1, <2>2 DEF Shows
<1>6. InPlace(w)'
  BY <1>1, <1>2, <1>5 DEF InPlace, SameSnap, ToolsOf, RowsOf
<1>7. Asks(w)'
  BY <1>1, <1>2, <1>5 DEF Asks, SameSnap, HasStatus
<1>elsewhere. Elsewhere(s)
  <2>1. \A x \in Server \ {s}, t \in Tool : <<x, t>> \in proxy' <=> <<x, t>> \in proxy
    BY DEF Shows, Expose, ShowTool
  <2> QED
    BY <1>2, <2>1 DEF Elsewhere, RowsOf
<1>held. HasRow(job[w].srv, job[w].snap.id)'
  BY <1>1, <1>2, <1>5 DEF HasRow, SameSnap
<1>8. Held' /\ JobsOK'
  BY <1>1, <1>elsewhere, <1>held, <1>6, <1>7, JobsKeep DEF Serial
<1> QED
  BY <1>2, <1>3, <1>4, <1>8, RowsStay DEF Serial

\* deregisterServerTools: first the rows go, then the tools leave the proxy.
LEMMA DropKeeps ==
    ASSUME Serial, NEW w \in Worker, Alone(w, job[w].srv), job[w] # None, Drop(w), TypeOK', FlowOK'
    PROVE  Serial'
<1> USE DEF At, Pc
<1> DEFINE s == job[w].srv
           id == job[w].snap.id
<1>1. /\ w \in Worker /\ TypeOK /\ InPlace(w) /\ Asks(w)
      /\ s \in Server /\ row[s] # None /\ row[s].id = id /\ HasRow(s, id)
      /\ job[w].pc = "drop" /\ ToolsOf(id) \subseteq job[w].names
  BY Here DEF Drop, InPlace
<1>2. /\ row' = row /\ proxy' = proxy /\ nextId' = nextId /\ nextKey' = nextKey
      /\ halted' = halted /\ gone' = gone /\ tools' = tools \ RowsOf(id)
  BY DEF Drop
<1>3. At1(w, "hide") /\ SameSnap(w) /\ job'[w].names = job[w].names
  BY <1>1, Went DEF Drop
<1>4. Tables'
  <2>1. IdsOK /\ Fresh /\ KeyOwn /\ UniqueTools /\ Startable
    BY DEF Serial, Tables
  <2>2. IdsOK' /\ Startable'
    BY <1>2, <2>1 DEF IdsOK, Startable, HasRow
  <2>3. Fresh'
    BY <1>2, <2>1 DEF Fresh, RowsOf
  <2>4. KeyOwn' /\ UniqueTools'
    BY <1>2, <2>1 DEF KeyOwn, UniqueTools
  <2> QED
    BY <2>2, <2>3, <2>4 DEF Tables
<1>5. Shown(s, job[w].names)
  BY <1>1 DEF Serial, Exposing, Hiding, Shown, Listed, Alone
<1>6. Exposing'
  <2>1. ASSUME NEW x \in Server, x = s PROVE Hiding(x)'
    BY <1>1, <1>3, <2>1 DEF Hiding, At1, SameSnap
  <2>2. ASSUME NEW x \in Server \ {s} PROVE Listed(x)' = Listed(x)
    <3>1. row[x] # None => row[x].id # id
      BY <1>1 DEF Serial, Tables, IdsOK, HasRow
    <3>2. row[x] # None => RowsOf(row[x].id)' = RowsOf(row[x].id)
      BY <1>2, <3>1 DEF RowsOf
    <3> QED
      BY <1>2, <3>2 DEF Listed, ToolsOf
  <2>3. ASSUME NEW x \in Server \ {s}, Hiding(x) PROVE Hiding(x)'
    BY <2>3 DEF Hiding, Alone, OthersKeep
  <2>4. ASSUME NEW x \in Server \ {s}, Shown(x, Listed(x)) PROVE Shown(x, Listed(x))'
    BY <1>2, <2>2, <2>4 DEF Shown
  <2> QED
    BY <2>1, <2>3, <2>4 DEF Serial, Exposing
<1>7. InPlace(w)' /\ Asks(w)'
  BY <1>1, <1>2, <1>3, <1>5 DEF InPlace, Asks, At1, SameSnap, Shown
<1>elsewhere. Elsewhere(s)
  <2>1. ASSUME NEW x \in Server \ {s}, NEW i \in Nat, HasRow(x, i) PROVE RowsOf(i)' = RowsOf(i)
    <3>1. i # id
      BY <1>1, <2>1 DEF Serial, Tables, IdsOK, HasRow
    <3> QED
      BY <1>2, <3>1 DEF RowsOf
  <2> QED
    BY <1>2, <2>1 DEF Elsewhere
<1>held. HasRow(job[w].srv, job[w].snap.id)'
  BY <1>1, <1>2, <1>3 DEF HasRow, SameSnap
<1>8. Held' /\ JobsOK'
  BY <1>1, <1>elsewhere, <1>held, <1>7, JobsKeep DEF Serial
<1> QED
  BY <1>2, <1>4, <1>6, <1>8, RowsStay DEF Serial

LEMMA HideKeeps ==
    ASSUME Serial, NEW w \in Worker, Alone(w, job[w].srv), job[w] # None, Hide(w), TypeOK', FlowOK'
    PROVE  Serial'
<1> USE DEF At, Pc
<1> DEFINE s == job[w].srv
<1>1. /\ w \in Worker /\ TypeOK /\ InPlace(w) /\ Asks(w)
      /\ s \in Server /\ row[s] # None /\ row[s].id = job[w].snap.id
      /\ HasRow(s, job[w].snap.id)
      /\ job[w].pc = "hide" /\ Shown(s, job[w].names)
  BY Here DEF Hide, InPlace
<1>2. /\ row' = row /\ tools' = tools /\ nextId' = nextId /\ nextKey' = nextKey
      /\ halted' = halted /\ gone' = gone
      /\ proxy' = proxy \ ({s} \X job[w].names)
  BY DEF Hide
<1>3. Tables'
  BY <1>1, <1>2, TablesKeep DEF Serial, Tables, Fresh, SameIds, HasRow
<1>4. /\ job'[w] # None /\ SameSnap(w) /\ job'[w].pc \in {"bury", "erase"}
  BY <1>1, Went DEF Hide, At1
<1>5. Exposing'
  <2>1. \A x \in Server : Listed(x)' = Listed(x)
    BY <1>2 DEF Listed, ToolsOf, RowsOf
  <2>2. ASSUME NEW x \in Server, x = s PROVE Shown(x, Listed(x))'
    BY <1>1, <1>2, <2>2 DEF Shown
  <2>3. ASSUME NEW x \in Server \ {s}, Hiding(x) PROVE Hiding(x)'
    BY <2>3 DEF Hiding, Alone, OthersKeep
  <2>4. ASSUME NEW x \in Server \ {s}, Shown(x, Listed(x)) PROVE Shown(x, Listed(x))'
    BY <1>2, <2>1, <2>4 DEF Shown
  <2> QED
    BY <2>2, <2>3, <2>4 DEF Serial, Exposing
<1>6. InPlace(w)' /\ Asks(w)'
  BY <1>1, <1>2, <1>4 DEF InPlace, Asks, SameSnap
<1>elsewhere. Elsewhere(s)
  <2>1. \A x \in Server \ {s}, t \in Tool : <<x, t>> \in proxy' <=> <<x, t>> \in proxy
    BY <1>2
  <2> QED
    BY <1>2, <2>1 DEF Elsewhere, RowsOf
<1>held. HasRow(job[w].srv, job[w].snap.id)'
  BY <1>1, <1>2, <1>4 DEF HasRow, SameSnap
<1>7. Held' /\ JobsOK'
  BY <1>1, <1>elsewhere, <1>held, <1>6, JobsKeep DEF Serial
<1> QED
  BY <1>2, <1>3, <1>5, <1>7, RowsStay DEF Serial

LEMMA SerialSteps ==
    ASSUME Serial, Apart, NEW w \in Worker, Step(w) \/ Fail(w), TypeOK', FlowOK'
    PROVE  Serial'
<1>1. TypeOK
  BY DEF Serial
<1>2. job[w] # None /\ Alone(w, job[w].srv)
  BY <1>1, StepKeeps DEF Kept, Alone, Apart
<1>3. CASE Reads(w)
  <2>1. /\ UNCHANGED <<stores, counters, gone>> /\ job[w].pc # "hide"
        /\ \A s \in halted' : s \in halted \/ ~HasStatus(s, {"online"})
    <3>1. CASE Switched(w)
      BY <1>2, <3>1, Here DEF Switched, At, Asks
    <3> QED
      BY <1>3, <3>1 DEF Reads, ReadDraft, Connect, Persisted, ReadPending, Load, Exposed,
         ReadTools, List, Fail, At
  <2> QED
    BY <1>2, <1>3, <2>1, ReadsKeep, JobKeeps DEF Alone
<1> QED
  BY <1>2, <1>3, SavesKeep, DeletesKeep, PersistKeeps, SaveToolKeeps, ShowsKeep, DropKeeps,
     HideKeeps DEF Step, Reads, Saves, Shows

\* Whoever takes a request for s is alone with it.
LEMMA ArrivesAlone ==
    ASSUME TypeOK, Apart', NEW w \in Worker, NEW s \in Server, NEW q \in AllRequest,
           NEW p \in Pc, NEW r \in Row, NEW ts \in SUBSET Tool,
           job' = [job EXCEPT ![w] = NewJob(q, p, s, r, ts)]
    PROVE  Alone(w, s)
<1>1. NewJob(q, p, s, r, ts) \in Job /\ NewJob(q, p, s, r, ts).srv = s
  BY DEF NewJob, Job
<1>2. job'[w] # None /\ job'[w].srv = s
  BY <1>1, NoneAssumption DEF TypeOK
<1>3. OthersKeep(w)
  BY DEF TypeOK, OthersKeep
<1> QED
  BY <1>2, <1>3 DEF Apart, Alone, OthersKeep

\* A request arrives at a free worker, and copies the row there is.
LEMMA BeginKeeps ==
    ASSUME Serial, Apart', NEW w \in Worker, NEW s \in Server, NEW q, NEW p,
           NEW ts \in SUBSET Tool, Begin(w, s, q, p, ts), TypeOK', FlowOK',
           p \in {"mark", "release", "switch", "readTools", "list", "bury"},
           p = "mark" => Validatable(row[s]),
           q = "disable" /\ p = "readTools" => ~HasStatus(s, {"online"})
    PROVE  Serial'
<1>1. w \in Worker /\ TypeOK /\ job[w] = None /\ row[s] # None
  BY DEF Serial, Begin
<1>2. /\ UNCHANGED <<stores, counters, gone>> /\ halted' \subseteq halted
      /\ q \in Serving => s \notin halted'
  BY DEF Begin
<1>3. job'[w] = NewJob(q, p, s, row[s], ts)
  BY <1>1 DEF Begin, TypeOK
<1>4. /\ job'[w].req = q /\ job'[w].pc = p /\ job'[w].srv = s /\ job'[w].snap = row[s]
  BY <1>3 DEF NewJob
<1>5. Validatable(row[s]) => RowsOf(row[s].id) = {}
  BY <1>1 DEF Serial, Tables, Fresh
<1>6. HasRow(job[w].srv, job[w].snap.id)'
  BY <1>1, <1>2, <1>4 DEF HasRow
<1>7. InPlace(w)'
  BY <1>2, <1>4, <1>5 DEF InPlace, RowsOf
<1>8. Asks(w)'
  BY <1>2, <1>4 DEF Asks, HasStatus
<1>9. Alone(w, s) /\ Elsewhere(s)
  <2>1. Alone(w, s)
    BY <1>1, RowAt, RequestAssumption, ArrivesAlone DEF Begin, Pc
  <2>2. Elsewhere(s)
    BY DEF Elsewhere, RowsOf, Begin
  <2> QED
    BY <2>1, <2>2
<1>10. Held' /\ JobsOK'
  BY <1>1, <1>6, <1>7, <1>8, <1>9, JobsKeep DEF Serial
<1> QED
  BY <1>1, <1>2, <1>9, <1>10, JobKeeps DEF Alone

\* A registration creates a row no tool can have referenced before.
LEMMA RegisterKeeps ==
    ASSUME Serial, Apart', NEW w \in Worker, NEW s \in Server, Register(w, s), TypeOK', FlowOK'
    PROVE  Serial'
<1>1. /\ w \in Worker /\ TypeOK /\ job[w] = None /\ row[s] = None /\ nextId \in Nat
      /\ IdsOK /\ Fresh /\ KeyOwn /\ UniqueTools /\ Startable
  BY DEF Serial, Tables, Register, TypeOK
<1>2. /\ tools' = tools /\ proxy' = proxy /\ nextKey' = nextKey /\ nextId' = nextId + 1
      /\ halted' = halted \ {s} /\ gone' = gone \ {s}
  BY DEF Register
<1>3. /\ row'[s] = [id |-> nextId, status |-> "draft", fails |-> 0]
      /\ \A x \in Server \ {s} : row'[x] = row[x]
      /\ job'[w] = NewJob("register", "readDraft", s, row'[s], {})
  BY <1>1 DEF Register, TypeOK
<1>4. /\ row'[s].id = nextId /\ row'[s].status = "draft" /\ row'[s] # None
      /\ job'[w].req = "register" /\ job'[w].pc = "readDraft"
      /\ job'[w].srv = s /\ job'[w].snap = row'[s]
  <2>1. [id |-> nextId, status |-> "draft", fails |-> 0] \in Row
    BY <1>1, ThresholdAssumption DEF Row, Status
  <2> QED
    BY <1>3, <2>1, NoneAssumption DEF NewJob
<1>alone. Alone(w, s)
  <2>1. row'[s] \in Row
    BY <1>4 DEF TypeOK
  <2>2. "register" \in AllRequest /\ "readDraft" \in Pc /\ {} \in SUBSET Tool
    BY DEF AllRequest, Pc
  <2>3. job' = [job EXCEPT ![w] = NewJob("register", "readDraft", s, row'[s], {})]
    BY DEF Register
  <2> QED
    BY <1>1, <2>1, <2>2, <2>3, ArrivesAlone
<1>5. \A x \in Server : row[x] # None => row[x].id \in Nat /\ row[x].id < nextId
  BY <1>1, RowAt DEF IdsOK
<1>6. RowsOf(nextId) = {}
  <2> SUFFICES ASSUME NEW r \in tools, r.sid = nextId PROVE FALSE
    BY DEF RowsOf
  <2> QED
    BY <1>1, <1>5 DEF Startable, HasRow
<1>7. IdsOK'
  <2>1. ASSUME NEW x \in Server, row'[x] # None PROVE row'[x].id < nextId'
    BY <1>1, <1>2, <1>3, <1>4, <1>5, <2>1
  <2>2. ASSUME NEW x \in Server, NEW y \in Server, row'[x] # None, row'[y] # None,
               row'[x].id = row'[y].id
        PROVE  x = y
    <3>1. CASE x = s \/ y = s
      BY <1>1, <1>3, <1>4, <1>5, <2>2, <3>1
    <3>2. CASE x # s /\ y # s
      BY <1>1, <1>3, <2>2, <3>2 DEF IdsOK, HasRow
    <3> QED
      BY <3>1, <3>2
  <2> QED
    BY <2>1, <2>2 DEF IdsOK, HasRow
<1>8. Fresh'
  BY <1>1, <1>2, <1>3, <1>4, <1>6 DEF Fresh, RowsOf
<1>9. KeyOwn' /\ UniqueTools'
  BY <1>1, <1>2 DEF KeyOwn, UniqueTools
<1>10. Startable'
  BY <1>1, <1>2, <1>3 DEF Startable, HasRow
<1>11. Exposing'
  <2>1. \A x \in Server : Listed(x) \subseteq Listed(x)'
    BY <1>1, <1>2, <1>3 DEF Listed, ToolsOf, RowsOf
  <2> QED
    BY <1>1, <1>2, <1>alone, <2>1, ExposingKeeps DEF Serial, Alone
<1>12. GoneStays' /\ StopSticks'
  <2>1. gone \subseteq Server /\ halted \subseteq Server
    BY <1>1 DEF TypeOK
  <2> QED
    BY <1>2, <1>3, <2>1 DEF Serial, GoneStays, StopSticks, HasStatus
<1>13. Held' /\ JobsOK'
  <2>1. HasRow(job[w].srv, job[w].snap.id)'
    BY <1>4 DEF HasRow
  <2>2. InPlace(w)' /\ Asks(w)'
    BY <1>2, <1>4 DEF InPlace, Asks
  <2>3. Elsewhere(s)
    BY <1>1, <1>2, <1>3 DEF Elsewhere, RowsOf
  <2> QED
    BY <1>1, <1>alone, <2>1, <2>2, <2>3, JobsKeep DEF Serial
<1> QED
  BY <1>7, <1>8, <1>9, <1>10, <1>11, <1>12, <1>13 DEF Serial, Tables

LEMMA SerialArrives ==
    ASSUME Serial, Apart', NEW w \in Worker, NEW s \in Server, Arrive(w, s), TypeOK', FlowOK'
    PROVE  Serial'
<1>1. CASE Register(w, s)
  BY <1>1, RegisterKeeps
<1>2. CASE Validate(w, s)
  BY <1>2, BeginKeeps DEF Validate
<1>3. CASE Publish(w, s)
  BY <1>3, BeginKeeps DEF Publish
<1>4. CASE \E q \in {"enable", "disable"} : SwitchServer(w, s, q)
  <2>1. PICK q \in {"enable", "disable"} : SwitchServer(w, s, q)
    BY <1>4
  <2>2. CASE row[s].status = SwitchedStatus(q)
    <3>1. Begin(w, s, q, "readTools", {})
      BY <2>1, <2>2 DEF SwitchServer
    <3>2. q = "disable" => ~HasStatus(s, {"online"})
      BY <2>2 DEF SwitchedStatus, TurnsOn, HasStatus
    <3> QED
      BY <3>1, <3>2, BeginKeeps
  <2>3. CASE row[s].status # SwitchedStatus(q)
    BY <2>1, <2>3, BeginKeeps DEF SwitchServer
  <2> QED
    BY <2>2, <2>3
<1>5. CASE \E q \in {"enableTool", "disableTool"}, t \in Tool : SwitchTool(w, s, t, q)
  BY <1>5, BeginKeeps DEF SwitchTool
<1>6. CASE Archive(w, s) \/ Deregister(w, s)
  <2>1. CASE Archive(w, s) /\ row[s].status \in Active
    BY <2>1, BeginKeeps DEF Archive
  <2>2. CASE Archive(w, s) /\ row[s].status \notin Active
    BY <2>2, BeginKeeps DEF Archive
  <2>3. CASE Deregister(w, s)
    BY <2>3, BeginKeeps DEF Deregister
  <2> QED
    BY <1>6, <2>1, <2>2, <2>3
<1> QED
  BY <1>1, <1>2, <1>3, <1>4, <1>5, <1>6 DEF Arrive

\* The health check changes no id, and writes none of the statuses a handler
\* relies on.
LEMMA VerdictKeeps ==
    ASSUME Serial, NEW s \in Server, TypeOK', FlowOK',
           StartCheck(s) \/ FinishCheck(s) \/ Flip(s)
    PROVE  Serial'
<1>1. /\ tools' = tools /\ proxy' = proxy /\ job' = job /\ nextId' = nextId
      /\ nextKey' = nextKey /\ halted' = halted /\ gone' = gone /\ TypeOK
  BY DEF StartCheck, FinishCheck, Flip, Serial
<1>2. \A x \in Server \ {s} : row'[x] = row[x]
  BY <1>1 DEF StartCheck, FinishCheck, Flip, TypeOK
<1>3. \/ row' = row
      \/ /\ row[s] # None /\ row'[s] # None /\ row'[s].id = row[s].id
         /\ row'[s].status \in {"unhealthy", "pending_publish", row[s].status}
  <2>1. CASE row' # row
    <3>1. /\ row[s] # None /\ check[s] # None
          /\ row'[s] = IF up[s] THEN AfterSuccess(check[s], row[s])
                                ELSE AfterFailure(check[s], row[s])
      BY <1>1, <2>1 DEF StartCheck, FinishCheck, Flip, HasRow, TypeOK
    <3>2. row[s] \in Row /\ row'[s] # None
      BY <1>1, <2>1, <3>1, RowAt, VerdictType, NoneAssumption DEF TypeOK
    <3>3. row'[s].id = row[s].id
      BY <3>1, <3>2 DEF AfterSuccess, AfterFailure, Row
    <3>4. row'[s].status \in {"unhealthy", "pending_publish", row[s].status}
      BY <3>1, <3>2 DEF AfterSuccess, AfterFailure, Row
    <3> QED
      BY <3>1, <3>2, <3>3, <3>4
  <2> QED
    BY <2>1
<1>4. ASSUME NEW x \in Server
      PROVE  /\ row'[x] = None <=> row[x] = None
             /\ row[x] # None => row'[x].id = row[x].id
             /\ row[x] # None /\ Validatable(row'[x]) => Validatable(row[x])
             /\ HasStatus(x, {"online"})' => HasStatus(x, {"online"})
  BY <1>2, <1>3 DEF Validatable, HasStatus
<1>5. SameIds
  BY <1>4 DEF SameIds, HasRow
<1>6. Tables'
  <2>1. \A x \in Server : row'[x] # None /\ Validatable(row'[x]) => RowsOf(row'[x].id) = {}
    BY <1>4 DEF Serial, Tables, Fresh
  <2> QED
    BY <1>1, <1>5, <2>1, TablesKeep DEF Serial
<1>7. Exposing'
  <2>1. \A x \in Server : Listed(x)' = Listed(x)
    BY <1>1, <1>5, ListedSame
  <2> QED
    BY <1>1, <2>1 DEF Serial, Exposing, Hiding, Shown
<1>8. GoneStays' /\ StopSticks'
  <2>1. gone \subseteq Server /\ halted \subseteq Server
    BY <1>1 DEF TypeOK
  <2> QED
    BY <1>1, <1>4, <2>1 DEF Serial, GoneStays, StopSticks
<1>9. Held' /\ JobsOK'
  <2>1. ASSUME NEW w \in Worker, job[w] # None
        PROVE  HasRow(job[w].srv, job[w].snap.id)' /\ InPlace(w)' /\ Asks(w)'
    <3>1. /\ InPlace(w) /\ Asks(w) /\ job[w].srv \in Server /\ row[job[w].srv] # None
          /\ HasRow(job[w].srv, job[w].snap.id) /\ job[w].snap.id \in Nat
      BY <2>1, Here
    <3>2. \A id : RowsOf(id)' = RowsOf(id) /\ ToolsOf(id)' = ToolsOf(id)
      BY <1>1 DEF RowsOf, ToolsOf
    <3>3. InPlace(w)'
      BY <1>1, <1>4, <3>1, <3>2 DEF InPlace, Shown
    <3>4. Asks(w)'
      BY <1>1, <1>4, <3>1 DEF Asks
    <3>5. HasRow(job[w].srv, job[w].snap.id)'
      BY <1>1, <1>4, <3>1 DEF HasRow
    <3> QED
      BY <3>3, <3>4, <3>5
  <2> QED
    BY <1>1, <2>1 DEF Held, JobsOK
<1> QED
  BY <1>6, <1>7, <1>8, <1>9 DEF Serial

\* A restart ends the handlers and exposes only what the tables list.
LEMMA RestartKeeps ==
    ASSUME Serial, Restart, TypeOK', FlowOK'
    PROVE  Serial'
<1>1. /\ row' = row /\ tools' = tools /\ nextId' = nextId /\ nextKey' = nextKey
      /\ halted' = halted /\ gone' = gone /\ proxy' = LoadedAtStart
      /\ \A w \in Worker : job'[w] = None
  BY DEF Restart
<1>2. Tables'
  BY <1>1, TablesKeep DEF Serial, Tables, Fresh, SameIds, HasRow
<1>3. \A x \in Server : Listed(x)' = Listed(x)
  BY <1>1 DEF Listed, ToolsOf, RowsOf
<1>4. ASSUME NEW x \in Server, NEW t \in Tool, <<x, t>> \in proxy'
      PROVE  t \in Listed(x)
  BY <1>1, <1>4 DEF LoadedAtStart, Listed, ToolsOf
<1>5. Exposing'
  BY <1>3, <1>4 DEF Exposing, Shown
<1>6. Held' /\ JobsOK'
  BY <1>1 DEF Held, JobsOK
<1> QED
  BY <1>1, <1>2, <1>5, <1>6, RowsStay DEF Serial

LEMMA SerialNext ==
    ASSUME Serial, Apart, Apart', [Next]_vars, TypeOK', FlowOK'
    PROVE  Serial'
<1>1. CASE \E x \in Worker, s \in Server : Arrive(x, s)
  BY <1>1, SerialArrives
<1>2. CASE \E x \in Worker : Step(x) \/ Fail(x)
  BY <1>2, SerialSteps
<1>3. CASE \E s \in Server : StartCheck(s) \/ FinishCheck(s) \/ Flip(s)
  BY <1>3, VerdictKeeps
<1>4. CASE Restart
  BY <1>4, RestartKeeps
<1>5. CASE UNCHANGED vars
  <2> row' = row /\ tools' = tools /\ proxy' = proxy /\ job' = job /\ nextId' = nextId
      /\ nextKey' = nextKey /\ halted' = halted /\ gone' = gone
    BY <1>5 DEF vars
  <2>1. IdsOK' /\ Fresh' /\ KeyOwn' /\ UniqueTools' /\ Startable'
    BY DEF Serial, Tables, IdsOK, Fresh, KeyOwn, UniqueTools, Startable, HasRow, RowsOf
  <2>2. Held' /\ Exposing' /\ GoneStays' /\ StopSticks'
    BY DEF Serial, Held, Exposing, Hiding, Shown, Listed, ToolsOf, RowsOf, HasRow, GoneStays,
       StopSticks, HasStatus
  <2>3. JobsOK'
    BY DEF Serial, JobsOK, InPlace, Asks, Shown, ToolsOf, RowsOf, HasStatus
  <2> QED
    BY <2>1, <2>2, <2>3 DEF Serial, Tables
<1> QED
  BY <1>1, <1>2, <1>3, <1>4, <1>5 DEF Next

LEMMA SerialInvariant == Spec /\ []Apart => []Serial
<1>1. Init /\ TypeOK /\ FlowOK => Serial
  BY DEF Init, Serial, Held, Tables, IdsOK, Fresh, KeyOwn, UniqueTools, Startable, JobsOK,
     Exposing, Shown, GoneStays, StopSticks
<1>2. Serial /\ Apart /\ Apart' /\ TypeOK' /\ FlowOK' /\ [Next]_vars => Serial'
  BY SerialNext
<1> QED
  BY <1>1, <1>2, TypeCorrect, FlowCorrect, PTL DEF Spec

\* With one handler goroutine the hypothesis holds of itself.
LEMMA OneHandlerIsApart ==
    ASSUME NEW w, Worker = {w}
    PROVE  Spec => []Apart
<1>1. Apart
  BY DEF Apart
<1> QED
  BY <1>1, PTL

\* While the requests for a server come one at a time, a server that was
\* disabled or archived is not served again before it is asked for, whatever
\* the requests for other servers, the health check, a failing database or a
\* restart do meanwhile.
THEOREM StopsStick == Spec /\ []Apart => []StopSticks
<1>1. Serial => StopSticks
  BY DEF Serial
<1> QED
  BY <1>1, SerialInvariant, PTL

\* Likewise a deregistered server stays gone: no verdict of the health check
\* and no handler puts its row back.
THEOREM GoneServersStay == Spec /\ []Apart => []GoneStays
<1>1. Serial => GoneStays
  BY DEF Serial
<1> QED
  BY <1>1, SerialInvariant, PTL

\* Likewise a server no request works on exposes only tools it has rows for,
\* also after requests that failed half way and after restarts.
THEOREM GhostsStayAway == Spec /\ []Apart => []NoGhostTools
<1>1. Serial => NoGhostTools
  BY DEF Serial, NoGhostTools, Idle, Exposing, Hiding, Shown, Listed
<1> QED
  BY <1>1, SerialInvariant, PTL

\* Likewise no server lists a tool twice, also when its validation failed half
\* way and was sent again.
THEOREM ToolsAreUnique == Spec /\ []Apart => []UniqueTools
<1>1. Serial => UniqueTools
  BY DEF Serial, Tables
<1> QED
  BY <1>1, SerialInvariant, PTL
==============================================================================
