------------------------ MODULE ToolCollections_proofs ------------------------
(* Proofs about tool collections, for any collections, servers, tools,        *)
(* configurations and handlers.  Every variable keeps its shape however the   *)
(* handlers overlap.  What is disabled is hidden while tool changes run       *)
(* alone; the map of endpoints and the table agree while no two handlers work *)
(* on one collection; and under both the endpoints follow the configurations. *)
EXTENDS ToolCollections, FiniteSetTheorems, TLAPS

------------------------------------------------------------------------------
(* Every variable keeps its shape, however many handlers overlap.            *)

\* What a handler knows at each of its steps.
Fits(j, pc) ==
    /\ pc \in {"resolve", "compare", "fill", "insert", "attach", "apply", "store"} =>
          j.coll \in Collection /\ j.cfg \in Config
    /\ pc \in {"detach", "erase"} => j.coll \in Collection
    /\ pc \in {"fill", "insert", "attach", "apply", "store"} => j.obj \in Object
    /\ pc \in {"collect", "spread"} => j.tool \in Tool
    /\ pc = "deregister" => j.srv \in Server

Shaped(j) == Fits(j, j.pc)

Jobs ==
    /\ job \in [Worker -> Job \cup {None}]
    /\ \A w \in Worker : job[w] # None => Shaped(job[w])

TablesTyped ==
    /\ servers \subseteq Server
    /\ rows \in [Tool -> {"on", "off", None}]
    /\ group \in [Collection -> AllConfig \cup {None}]

MemoryTyped ==
    /\ instances \subseteq Tool
    /\ object \in [Collection -> Object \cup {None}]
    /\ content \in [Object -> SUBSET Tool]
    /\ sse \in [Collection -> Object \cup {None}]
    /\ failed \in BOOLEAN

Typed == TablesTyped /\ MemoryTyped /\ Jobs

LEMMA TypedIsTypeOK == ASSUME Typed PROVE TypeOK
<1>1. \A w \in Worker : job[w] # None => job[w] \in Job /\ HoldsObject(job[w])
  BY NoneAssumption DEF Typed, Jobs, Shaped, Fits, HoldsObject
<1> QED
  BY <1>1 DEF Typed, TablesTyped, MemoryTyped, TypeOK

LEMMA JobFields ==
    ASSUME NEW j \in Job
    PROVE  /\ j # None
           /\ j.coll \in Collection \cup {None} /\ j.cfg \in Config \cup {None}
           /\ j.obj \in Object \cup {None} /\ j.srv \in Server \cup {None}
           /\ j.tool \in Tool \cup {None} /\ j.todo \subseteq Tool /\ j.drop \subseteq Tool
           /\ j.names \subseteq Collection
BY NoneAssumption DEF Job

\* A handler goes on, or returns.
LEMMA Becomes ==
    ASSUME Jobs, NEW w \in Worker, NEW j \in Job \cup {None}, j # None => Shaped(j), Become(w, j)
    PROVE  Jobs' /\ job'[w] = j /\ \A v \in Worker : v # w => job'[v] = job[v]
BY DEF Jobs, Become

LEMMA JobAt ==
    ASSUME Jobs, NEW w \in Worker, NEW pc, At(w, pc)
    PROVE  job[w] \in Job /\ Shaped(job[w]) /\ job[w].pc = pc /\ job[w] # None
BY DEF Jobs, At

LEMMA Returns ==
    ASSUME Jobs, NEW w \in Worker, Finish(w)
    PROVE  Jobs' /\ job'[w] = None
BY Becomes DEF Finish

Pc == {"resolve", "fill", "insert", "attach", "compare", "apply", "store",
       "detach", "erase", "expose", "collect", "spread",
       "hide", "forget", "deregister"}

\* All but the next step is the same.
Carries(j, k) ==
    /\ k.coll = j.coll /\ k.cfg = j.cfg /\ k.obj = j.obj /\ k.srv = j.srv /\ k.tool = j.tool
    /\ k.todo = j.todo /\ k.drop = j.drop /\ k.names = j.names

LEMMA Goes ==
    ASSUME Jobs, NEW w \in Worker, job[w] # None, NEW pc \in Pc, Goto(w, pc), Fits(job[w], pc)
    PROVE  Jobs' /\ job'[w] \in Job /\ job'[w].pc = pc /\ Carries(job[w], job'[w])
<1>1. PICK k : k = [job[w] EXCEPT !.pc = pc]
  OBVIOUS
<1>2. job[w] \in Job
  BY DEF Jobs
<1>3. k \in Job /\ k.pc = pc /\ Carries(job[w], k)
  BY <1>1, <1>2 DEF Job, Pc, Carries
<1>4. Shaped(k)
  BY <1>3 DEF Shaped, Fits, Carries
<1>5. Become(w, k)
  BY <1>1, <1>2 DEF Goto, Become, Jobs
<1> QED
  BY <1>3, <1>4, <1>5, Becomes

LEMMA EffectiveTools ==
    ASSUME NEW c \in AllConfig
    PROVE  Effective(c) \subseteq Tool
BY DEF Effective, AllConfig, ToolsOf

------------------------------------------------------------------------------
(* What each step does.                                                      *)

Still == UNCHANGED <<database, memory, failed>>

LEMMA StillTyped ==
    ASSUME TablesTyped, MemoryTyped, Still
    PROVE  TablesTyped' /\ MemoryTyped'
BY DEF TablesTyped, MemoryTyped, Still, database, memory

LEMMA CreateDoes ==
    ASSUME Typed, NEW w \in Worker, NEW g \in Collection, NEW c \in Config, Create(w, g, c)
    PROVE  /\ Typed' /\ Still /\ job[w] = None
           /\ job'[w] \in Job /\ job'[w].pc = "resolve" /\ job'[w].coll = g /\ job'[w].cfg = c
<1>1. PICK k : k = [NewJob("resolve") EXCEPT !.coll = g, !.cfg = c]
  OBVIOUS
<1>2. k.pc = "resolve" /\ k.obj = None /\ k.coll = g /\ k.cfg = c
  BY <1>1 DEF NewJob
<1>3. k \in Job
  BY <1>1 DEF NewJob, Job
<1>4. Shaped(k)
  BY <1>2 DEF Shaped, Fits
<1>5. Become(w, k) /\ Still /\ job[w] = None
  BY <1>1 DEF Create, Still
<1>6. Jobs' /\ job'[w] = k
  BY <1>3, <1>4, <1>5, Becomes DEF Typed
<1> QED
  BY <1>2, <1>3, <1>5, <1>6, StillTyped DEF Typed

LEMMA ResolveDoes ==
    ASSUME Typed, NEW w \in Worker, Resolve(w)
    PROVE  /\ Typed' /\ UNCHANGED <<database, instances, object, sse, failed>>
           /\ At(w, "resolve")
           /\ \/ job'[w] = None /\ content' = content
              \/ /\ Resolvable(job[w].cfg)
                 /\ job'[w] \in Job /\ job'[w].pc = "fill"
                 /\ job'[w].coll = job[w].coll /\ job'[w].cfg = job[w].cfg
                 /\ job'[w].obj \in Object \ Alive
                 /\ job'[w].todo = Effective(job[w].cfg)
                 /\ content' = [content EXCEPT ![job'[w].obj] = {}]
<1>1. /\ At(w, "resolve") /\ job[w] \in Job /\ job[w].coll \in Collection
      /\ job[w].cfg \in Config /\ job[w].cfg \in AllConfig
  BY JobAt, ConfigAssumption DEF Typed, Resolve, Shaped, Fits
<1>2. UNCHANGED <<database, instances, object, sse, failed>>
  BY DEF Resolve
<1>3. TablesTyped'
  BY <1>2 DEF Typed, TablesTyped, database
<1>4. CASE Finish(w) /\ content' = content
  <2>1. MemoryTyped'
    BY <1>2, <1>4 DEF Typed, MemoryTyped
  <2> QED
    BY <1>1, <1>2, <1>3, <1>4, <2>1, Returns DEF Typed
<1>5. CASE ~(Finish(w) /\ content' = content)
  <2>1. PICK o \in Object \ Alive :
          /\ Resolvable(job[w].cfg)
          /\ Become(w, [job[w] EXCEPT !.pc = "fill", !.obj = o, !.todo = Effective(job[w].cfg)])
          /\ content' = [content EXCEPT ![o] = {}]
    BY <1>5 DEF Resolve
  <2>2. PICK k : k = [job[w] EXCEPT !.pc = "fill", !.obj = o, !.todo = Effective(job[w].cfg)]
    OBVIOUS
  <2>3. Effective(job[w].cfg) \subseteq Tool
    BY <1>1, EffectiveTools
  <2>4. /\ k \in Job /\ k.pc = "fill" /\ k.coll = job[w].coll /\ k.cfg = job[w].cfg
        /\ k.obj = o /\ k.todo = Effective(job[w].cfg)
    BY <1>1, <2>2, <2>3 DEF Job
  <2>5. Shaped(k)
    BY <1>1, <2>4 DEF Shaped, Fits
  <2>6. Jobs' /\ job'[w] = k
    BY <2>1, <2>2, <2>4, <2>5, Becomes DEF Typed
  <2>7. MemoryTyped'
    BY <1>2, <2>1 DEF Typed, MemoryTyped
  <2> QED
    BY <1>1, <1>2, <1>3, <2>1, <2>4, <2>6, <2>7 DEF Typed
<1> QED
  BY <1>4, <1>5

LEMMA FillOneDoes ==
    ASSUME Typed, NEW w \in Worker, FillOne(w)
    PROVE  /\ Typed' /\ UNCHANGED <<database, instances, object, sse, failed>>
           /\ At(w, "fill")
           /\ \/ job'[w] = None /\ content' = content
              \/ \E t \in job[w].todo :
                    /\ Usable(t)
                    /\ job'[w] \in Job /\ job'[w].pc = "fill"
                    /\ job'[w].coll = job[w].coll /\ job'[w].cfg = job[w].cfg
                    /\ job'[w].obj = job[w].obj /\ job'[w].todo = job[w].todo \ {t}
                    /\ content' = [content EXCEPT ![job[w].obj] = @ \cup {t}]
<1>1. /\ At(w, "fill") /\ job[w] \in Job /\ job[w].coll \in Collection
      /\ job[w].cfg \in Config /\ job[w].obj \in Object /\ job[w].todo \subseteq Tool
      /\ job[w].pc = "fill"
  BY JobAt, JobFields DEF Typed, FillOne, Shaped, Fits
<1>2. UNCHANGED <<database, instances, object, sse, failed>>
  BY DEF FillOne
<1>3. TablesTyped'
  BY <1>2 DEF Typed, TablesTyped, database
<1>4. CASE Finish(w) /\ content' = content
  <2>1. MemoryTyped'
    BY <1>2, <1>4 DEF Typed, MemoryTyped
  <2> QED
    BY <1>1, <1>2, <1>3, <1>4, <2>1, Returns DEF Typed
<1>5. CASE ~(Finish(w) /\ content' = content)
  <2>1. PICK t \in job[w].todo :
          /\ Usable(t)
          /\ content' = [content EXCEPT ![job[w].obj] = @ \cup {t}]
          /\ Become(w, [job[w] EXCEPT !.todo = @ \ {t}])
    BY <1>5 DEF FillOne
  <2>2. PICK k : k = [job[w] EXCEPT !.todo = @ \ {t}]
    OBVIOUS
  <2>3. /\ k \in Job /\ k.pc = "fill" /\ k.coll = job[w].coll /\ k.cfg = job[w].cfg
        /\ k.obj = job[w].obj /\ k.todo = job[w].todo \ {t}
    BY <1>1, <2>2 DEF Job
  <2>4. Shaped(k)
    BY <1>1, <2>3 DEF Shaped, Fits
  <2>5. Jobs' /\ job'[w] = k
    BY <2>1, <2>2, <2>3, <2>4, Becomes DEF Typed
  <2>6. MemoryTyped'
    BY <1>1, <1>2, <2>1 DEF Typed, MemoryTyped
  <2> QED
    BY <1>1, <1>2, <1>3, <2>1, <2>3, <2>5, <2>6 DEF Typed
<1> QED
  BY <1>4, <1>5

LEMMA FilledDoes ==
    ASSUME Typed, NEW w \in Worker, Filled(w)
    PROVE  /\ Typed' /\ Still /\ At(w, "fill") /\ job[w].todo = {}
           /\ job'[w] \in Job /\ job'[w].pc = "insert" /\ Carries(job[w], job'[w])
<1>1. /\ At(w, "fill") /\ job[w] # None /\ Fits(job[w], "insert")
  BY JobAt DEF Typed, Filled, Shaped, Fits
<1>2. Goto(w, "insert") /\ job[w].todo = {} /\ Still
  BY DEF Filled, Still
<1> QED
  BY <1>1, <1>2, Goes, StillTyped DEF Typed, Pc

LEMMA InsertDoes ==
    ASSUME Typed, NEW w \in Worker, Insert(w)
    PROVE  /\ Typed' /\ UNCHANGED <<servers, rows, memory, failed>> /\ At(w, "insert")
           /\ \/ job'[w] = None /\ group' = group
              \/ /\ group[job[w].coll] = None
                 /\ group' = [group EXCEPT ![job[w].coll] = job[w].cfg]
                 /\ job'[w] \in Job /\ job'[w].pc = "attach" /\ Carries(job[w], job'[w])
<1>1. /\ At(w, "insert") /\ job[w] # None /\ Fits(job[w], "attach")
      /\ job[w].coll \in Collection /\ job[w].cfg \in AllConfig
  BY JobAt, ConfigAssumption DEF Typed, Insert, Shaped, Fits
<1>2. UNCHANGED <<servers, rows, memory, failed>>
  BY DEF Insert
<1>3. MemoryTyped'
  BY <1>2 DEF Typed, MemoryTyped, memory
<1>4. CASE group[job[w].coll] = None
  <2>1. group' = [group EXCEPT ![job[w].coll] = job[w].cfg] /\ Goto(w, "attach")
    BY <1>4 DEF Insert
  <2>2. TablesTyped'
    BY <1>1, <1>2, <2>1 DEF Typed, TablesTyped
  <2>3. Jobs' /\ job'[w] \in Job /\ job'[w].pc = "attach" /\ Carries(job[w], job'[w])
    BY <1>1, <2>1, Goes DEF Typed, Pc
  <2> QED
    BY <1>1, <1>2, <1>3, <1>4, <2>1, <2>2, <2>3 DEF Typed
<1>5. CASE group[job[w].coll] # None
  <2>1. group' = group /\ Finish(w)
    BY <1>5 DEF Insert
  <2>2. TablesTyped'
    BY <1>2, <2>1 DEF Typed, TablesTyped
  <2> QED
    BY <1>1, <1>2, <1>3, <2>1, <2>2, Returns DEF Typed
<1> QED
  BY <1>4, <1>5

LEMMA AttachDoes ==
    ASSUME Typed, NEW w \in Worker, Attach(w)
    PROVE  /\ Typed' /\ UNCHANGED <<database, instances, content, sse, failed>>
           /\ At(w, "attach") /\ job'[w] = None
           /\ object' = [object EXCEPT ![job[w].coll] = job[w].obj]
<1>1. At(w, "attach") /\ job[w].coll \in Collection /\ job[w].obj \in Object
  BY JobAt DEF Typed, Attach, Shaped, Fits
<1>2. /\ object' = [object EXCEPT ![job[w].coll] = job[w].obj] /\ Finish(w)
      /\ UNCHANGED <<database, instances, content, sse, failed>>
  BY DEF Attach
<1>3. TablesTyped' /\ MemoryTyped'
  BY <1>1, <1>2 DEF Typed, TablesTyped, MemoryTyped, database
<1> QED
  BY <1>1, <1>2, <1>3, Returns DEF Typed

LEMMA UpdateDoes ==
    ASSUME Typed, NEW w \in Worker, NEW g \in Collection, NEW c \in Config, Update(w, g, c)
    PROVE  /\ Typed' /\ Still /\ job[w] = None
           /\ job'[w] \in Job /\ job'[w].pc = "compare" /\ job'[w].coll = g /\ job'[w].cfg = c
<1>1. PICK k : k = [NewJob("compare") EXCEPT !.coll = g, !.cfg = c]
  OBVIOUS
<1>2. k.pc = "compare" /\ k.coll = g /\ k.cfg = c
  BY <1>1 DEF NewJob
<1>3. k \in Job
  BY <1>1 DEF NewJob, Job
<1>4. Shaped(k)
  BY <1>2 DEF Shaped, Fits
<1>5. Become(w, k) /\ Still /\ job[w] = None
  BY <1>1 DEF Update, Still
<1>6. Jobs' /\ job'[w] = k
  BY <1>3, <1>4, <1>5, Becomes DEF Typed
<1> QED
  BY <1>2, <1>3, <1>5, <1>6, StillTyped DEF Typed

LEMMA CompareDoes ==
    ASSUME Typed, NEW w \in Worker, Compare(w)
    PROVE  /\ Typed' /\ Still /\ At(w, "compare")
           /\ \/ job'[w] = None
              \/ /\ Applicable(job[w].coll, job[w].cfg)
                 /\ job'[w] \in Job /\ job'[w].pc = "apply"
                 /\ job'[w].coll = job[w].coll /\ job'[w].cfg = job[w].cfg
                 /\ job'[w].obj = object[job[w].coll]
                 /\ job'[w].todo = Effective(job[w].cfg) \ Effective(group[job[w].coll])
                 /\ job'[w].drop = Effective(group[job[w].coll]) \ Effective(job[w].cfg)
<1>1. /\ At(w, "compare") /\ job[w] \in Job /\ job[w].coll \in Collection
      /\ job[w].cfg \in Config /\ job[w].cfg \in AllConfig
  BY JobAt, ConfigAssumption DEF Typed, Compare, Shaped, Fits
<1>2. Still
  BY DEF Compare, Still
<1>3. CASE Finish(w)
  BY <1>1, <1>2, <1>3, StillTyped, Returns DEF Typed
<1>4. CASE ~Finish(w)
  <2> DEFINE g == job[w].coll
             old == Effective(group[g])
             new == Effective(job[w].cfg)
  <2>1. /\ Applicable(g, job[w].cfg)
        /\ Become(w, [job[w] EXCEPT !.pc = "apply", !.obj = object[g],
                                    !.todo = new \ old, !.drop = old \ new])
    BY <1>4 DEF Compare
  <2>2. group[g] \in AllConfig /\ object[g] \in Object
    BY <1>1, <2>1 DEF Applicable, Typed, TablesTyped, MemoryTyped
  <2>3. old \subseteq Tool /\ new \subseteq Tool
    BY <1>1, <2>2, EffectiveTools
  <2> HIDE DEF old, new
  <2>4. PICK k : k = [job[w] EXCEPT !.pc = "apply", !.obj = object[g],
                                    !.todo = new \ old, !.drop = old \ new]
    OBVIOUS
  <2>5. /\ k \in Job /\ k.pc = "apply" /\ k.coll = job[w].coll /\ k.cfg = job[w].cfg
        /\ k.obj = object[g] /\ k.todo = new \ old /\ k.drop = old \ new
    BY <1>1, <2>2, <2>3, <2>4 DEF Job
  <2>6. Shaped(k)
    BY <1>1, <2>2, <2>5 DEF Shaped, Fits
  <2>7. Jobs' /\ job'[w] = k
    BY <2>1, <2>4, <2>5, <2>6, Becomes DEF Typed
  <2> QED
    BY <1>1, <1>2, <2>1, <2>5, <2>7, StillTyped DEF Typed, old, new
<1> QED
  BY <1>3, <1>4

LEMMA ApplyDoes ==
    ASSUME Typed, NEW w \in Worker, Apply(w)
    PROVE  /\ Typed' /\ UNCHANGED <<database, instances, object, sse, failed>>
           /\ At(w, "apply") /\ job[w].obj \in Object
           /\ content' = [content EXCEPT ![job[w].obj] = (@ \ job[w].drop) \cup job[w].todo]
           /\ job'[w] \in Job /\ job'[w].pc = "store" /\ Carries(job[w], job'[w])
<1>1. /\ At(w, "apply") /\ job[w] # None /\ Fits(job[w], "store") /\ job[w].obj \in Object
      /\ job[w].todo \subseteq Tool
  BY JobAt, JobFields DEF Typed, Apply, Shaped, Fits
<1>2. /\ content' = [content EXCEPT ![job[w].obj] = (@ \ job[w].drop) \cup job[w].todo]
      /\ Goto(w, "store") /\ UNCHANGED <<database, instances, object, sse, failed>>
  BY DEF Apply
<1>3. TablesTyped' /\ MemoryTyped'
  BY <1>1, <1>2 DEF Typed, TablesTyped, MemoryTyped, database
<1>4. Jobs' /\ job'[w] \in Job /\ job'[w].pc = "store" /\ Carries(job[w], job'[w])
  BY <1>1, <1>2, Goes DEF Typed, Pc
<1> QED
  BY <1>1, <1>2, <1>3, <1>4 DEF Typed

\* A configuration written over another is one.
LEMMA OverwriteType ==
    ASSUME NEW old \in AllConfig, NEW new \in AllConfig
    PROVE  Overwrite(old, new) \in AllConfig
BY DEF Overwrite, AllConfig

LEMMA StoreDoes ==
    ASSUME Typed, NEW w \in Worker, Store(w)
    PROVE  /\ Typed' /\ UNCHANGED <<servers, rows, memory, failed>> /\ At(w, "store")
           /\ job'[w] = None /\ job[w].coll \in Collection /\ job[w].cfg \in Config
           /\ \/ group' = group
              \/ /\ group[job[w].coll] # None
                 /\ group' = [group EXCEPT ![job[w].coll] =
                                Overwrite(group[job[w].coll], job[w].cfg)]
<1>1. /\ At(w, "store") /\ job[w].coll \in Collection
      /\ job[w].cfg \in Config /\ job[w].cfg \in AllConfig
  BY JobAt, ConfigAssumption DEF Typed, Store, Shaped, Fits
<1>2. UNCHANGED <<servers, rows, memory, failed>> /\ Finish(w)
  BY DEF Store
<1>3. MemoryTyped'
  BY <1>2 DEF Typed, MemoryTyped, memory
<1>4. \/ group' = group
      \/ /\ group[job[w].coll] # None
         /\ group' = [group EXCEPT ![job[w].coll] = Overwrite(group[job[w].coll], job[w].cfg)]
  BY DEF Store
<1>5. TablesTyped'
  <2>1. group[job[w].coll] # None =>
          Overwrite(group[job[w].coll], job[w].cfg) \in AllConfig
    BY <1>1, OverwriteType DEF Typed, TablesTyped
  <2> QED
    BY <1>1, <1>2, <1>4, <2>1 DEF Typed, TablesTyped
<1> QED
  BY <1>1, <1>2, <1>3, <1>4, <1>5, Returns DEF Typed

LEMMA DeleteDoes ==
    ASSUME Typed, NEW w \in Worker, NEW g \in Collection, Delete(w, g)
    PROVE  /\ Typed' /\ Still /\ job[w] = None
           /\ job'[w] \in Job /\ job'[w].pc = "detach" /\ job'[w].coll = g
<1>1. PICK k : k = [NewJob("detach") EXCEPT !.coll = g]
  OBVIOUS
<1>2. k.pc = "detach" /\ k.coll = g
  BY <1>1 DEF NewJob
<1>3. k \in Job
  BY <1>1 DEF NewJob, Job
<1>4. Shaped(k)
  BY <1>2 DEF Shaped, Fits
<1>5. Become(w, k) /\ Still /\ job[w] = None
  BY <1>1 DEF Delete, Still
<1>6. Jobs' /\ job'[w] = k
  BY <1>3, <1>4, <1>5, Becomes DEF Typed
<1> QED
  BY <1>2, <1>3, <1>5, <1>6, StillTyped DEF Typed

LEMMA DetachDoes ==
    ASSUME Typed, NEW w \in Worker, Detach(w)
    PROVE  /\ Typed' /\ UNCHANGED <<database, instances, content, sse, failed>>
           /\ At(w, "detach") /\ job[w].coll \in Collection
           /\ object' = [object EXCEPT ![job[w].coll] = None]
           /\ job'[w] \in Job /\ job'[w].pc = "erase" /\ Carries(job[w], job'[w])
<1>1. At(w, "detach") /\ job[w] # None /\ Fits(job[w], "erase") /\ job[w].coll \in Collection
  BY JobAt DEF Typed, Detach, Shaped, Fits
<1>2. /\ object' = [object EXCEPT ![job[w].coll] = None] /\ Goto(w, "erase")
      /\ UNCHANGED <<database, instances, content, sse, failed>>
  BY DEF Detach
<1>3. TablesTyped' /\ MemoryTyped'
  BY <1>1, <1>2 DEF Typed, TablesTyped, MemoryTyped, database
<1>4. Jobs' /\ job'[w] \in Job /\ job'[w].pc = "erase" /\ Carries(job[w], job'[w])
  BY <1>1, <1>2, Goes DEF Typed, Pc
<1> QED
  BY <1>1, <1>2, <1>3, <1>4 DEF Typed

LEMMA EraseDoes ==
    ASSUME Typed, NEW w \in Worker, Erase(w)
    PROVE  /\ Typed' /\ UNCHANGED <<servers, rows, memory, failed>> /\ At(w, "erase")
           /\ job'[w] = None /\ job[w].coll \in Collection
           /\ group' = [group EXCEPT ![job[w].coll] = None]
<1>1. At(w, "erase") /\ job[w].coll \in Collection
  BY JobAt DEF Typed, Erase, Shaped, Fits
<1>2. /\ UNCHANGED <<servers, rows, memory, failed>> /\ Finish(w)
      /\ group' = [group EXCEPT ![job[w].coll] = None]
  BY DEF Erase
<1>3. TablesTyped' /\ MemoryTyped'
  BY <1>1, <1>2 DEF Typed, TablesTyped, MemoryTyped, memory
<1> QED
  BY <1>1, <1>2, <1>3, Returns DEF Typed

LEMMA RegisterDoes ==
    ASSUME Typed, NEW w \in Worker, NEW s \in Server, Register(w, s)
    PROVE  /\ Typed' /\ UNCHANGED <<group, memory, failed>> /\ job[w] = None
           /\ s \notin servers /\ servers' = servers \cup {s}
           /\ rows' = [t \in Tool |-> IF Owner[t] = s THEN "on" ELSE rows[t]]
           /\ job'[w] \in Job /\ job'[w].pc = "expose"
           /\ job'[w].todo = {t \in Tool : Owner[t] = s}
<1>1. PICK k : k = [NewJob("expose") EXCEPT !.todo = {t \in Tool : Owner[t] = s}]
  OBVIOUS
<1>2. k.pc = "expose" /\ k.todo = {t \in Tool : Owner[t] = s}
  BY <1>1 DEF NewJob
<1>3. k \in Job
  BY <1>1 DEF NewJob, Job
<1>4. Shaped(k)
  BY <1>2 DEF Shaped, Fits
<1>5. /\ Become(w, k) /\ job[w] = None /\ s \notin servers /\ servers' = servers \cup {s}
      /\ rows' = [t \in Tool |-> IF Owner[t] = s THEN "on" ELSE rows[t]]
      /\ UNCHANGED <<group, memory, failed>>
  BY <1>1 DEF Register
<1>6. Jobs' /\ job'[w] = k
  BY <1>3, <1>4, <1>5, Becomes DEF Typed
<1>7. TablesTyped' /\ MemoryTyped'
  BY <1>5 DEF Typed, TablesTyped, MemoryTyped, memory
<1> QED
  BY <1>2, <1>3, <1>5, <1>6, <1>7 DEF Typed

LEMMA EnableDoes ==
    ASSUME Typed, NEW w \in Worker, NEW t \in Tool, Enable(w, t)
    PROVE  /\ Typed' /\ UNCHANGED <<servers, group, memory, failed>> /\ job[w] = None
           /\ rows[t] = "off" /\ rows' = [rows EXCEPT ![t] = "on"]
           /\ job'[w] \in Job /\ job'[w].pc = "expose" /\ job'[w].todo = {t}
<1>1. PICK k : k = [NewJob("expose") EXCEPT !.todo = {t}]
  OBVIOUS
<1>2. k.pc = "expose" /\ k.todo = {t}
  BY <1>1 DEF NewJob
<1>3. k \in Job
  BY <1>1 DEF NewJob, Job
<1>4. Shaped(k)
  BY <1>2 DEF Shaped, Fits
<1>5. /\ Become(w, k) /\ job[w] = None /\ rows[t] = "off" /\ rows' = [rows EXCEPT ![t] = "on"]
      /\ UNCHANGED <<servers, group, memory, failed>>
  BY <1>1 DEF Enable
<1>6. Jobs' /\ job'[w] = k
  BY <1>3, <1>4, <1>5, Becomes DEF Typed
<1>7. TablesTyped' /\ MemoryTyped'
  BY <1>5 DEF Typed, TablesTyped, MemoryTyped, memory
<1> QED
  BY <1>2, <1>3, <1>5, <1>6, <1>7 DEF Typed

LEMMA ExposeDoes ==
    ASSUME Typed, NEW w \in Worker, Expose(w)
    PROVE  /\ Typed' /\ UNCHANGED <<database, object, content, sse, failed>> /\ At(w, "expose")
           /\ \E t \in job[w].todo :
                /\ t \in Tool /\ instances' = instances \cup {t}
                /\ job'[w] \in Job /\ job'[w].pc = "collect" /\ job'[w].tool = t
                /\ job'[w].todo = job[w].todo \ {t}
<1>1. At(w, "expose") /\ job[w] \in Job /\ job[w].todo \subseteq Tool
  BY JobAt, JobFields DEF Typed, Expose
<1>2. PICK t \in job[w].todo :
        /\ instances' = instances \cup {t}
        /\ Become(w, [job[w] EXCEPT !.pc = "collect", !.todo = @ \ {t}, !.tool = t])
  BY DEF Expose
<1>3. PICK k : k = [job[w] EXCEPT !.pc = "collect", !.todo = @ \ {t}, !.tool = t]
  OBVIOUS
<1>4. k \in Job /\ k.pc = "collect" /\ k.tool = t /\ k.todo = job[w].todo \ {t}
  BY <1>1, <1>3 DEF Job
<1>5. Shaped(k)
  BY <1>1, <1>4 DEF Shaped, Fits
<1>6. Jobs' /\ job'[w] = k
  BY <1>2, <1>3, <1>4, <1>5, Becomes DEF Typed
<1>7. UNCHANGED <<database, object, content, sse, failed>>
  BY DEF Expose
<1>8. TablesTyped' /\ MemoryTyped'
  BY <1>1, <1>2, <1>7 DEF Typed, TablesTyped, MemoryTyped, database
<1> QED
  BY <1>1, <1>2, <1>4, <1>6, <1>7, <1>8 DEF Typed

LEMMA ExposedDoes ==
    ASSUME Typed, NEW w \in Worker, Exposed(w)
    PROVE  /\ Typed' /\ Still /\ At(w, "expose") /\ job[w].todo = {} /\ job'[w] = None
<1>1. Finish(w) /\ Still /\ At(w, "expose") /\ job[w].todo = {}
  BY DEF Exposed, Still
<1> QED
  BY <1>1, Returns, StillTyped DEF Typed

\* The handler goes back to expose the next tool.
LEMMA NextTool ==
    ASSUME Jobs, NEW w \in Worker, job[w] # None,
           \/ Become(w, [job[w] EXCEPT !.pc = "expose", !.tool = None])
           \/ Become(w, [job[w] EXCEPT !.pc = "expose", !.tool = None, !.names = {}])
    PROVE  Jobs' /\ job'[w] \in Job /\ job'[w].pc = "expose" /\ job'[w].todo = job[w].todo
<1>1. job[w] \in Job
  BY DEF Jobs
<1>2. PICK k : /\ \/ k = [job[w] EXCEPT !.pc = "expose", !.tool = None]
                  \/ k = [job[w] EXCEPT !.pc = "expose", !.tool = None, !.names = {}]
               /\ Become(w, k)
  OBVIOUS
<1>3. k \in Job /\ k.pc = "expose" /\ k.todo = job[w].todo
  BY <1>1, <1>2 DEF Job
<1>4. Shaped(k)
  BY <1>3 DEF Shaped, Fits
<1> QED
  BY <1>2, <1>3, <1>4, Becomes

LEMMA CollectDoes ==
    ASSUME Typed, NEW w \in Worker, Collect(w)
    PROVE  /\ Typed' /\ Still /\ At(w, "collect") /\ job[w].tool \in Tool
           /\ job'[w] \in Job /\ job'[w].todo = job[w].todo
           /\ \/ /\ job'[w].pc = "spread" /\ job'[w].tool = job[w].tool
                 /\ job'[w].names = {g \in Collection : /\ group[g] # None
                                                        /\ job[w].tool \in Effective(group[g])}
              \/ /\ job'[w].pc = "expose"
                 /\ ~(/\ Usable(job[w].tool)
                      /\ \A g \in Collection : group[g] # None => Resolvable(group[g]))
<1>1. At(w, "collect") /\ job[w] # None /\ job[w] \in Job /\ job[w].tool \in Tool
  BY JobAt DEF Typed, Collect, Shaped, Fits
<1>2. Still
  BY DEF Collect, Still
<1>3. CASE /\ Usable(job[w].tool)
           /\ \A g \in Collection : group[g] # None => Resolvable(group[g])
  <2> DEFINE names == {g \in Collection : group[g] # None /\ job[w].tool \in Effective(group[g])}
  <2>1. names = {g \in {h \in Collection : group[h] # None} :
                    job[w].tool \in Effective(group[g])}
    OBVIOUS
  <2>2. Become(w, [job[w] EXCEPT !.pc = "spread", !.names = names])
    BY <1>3, <2>1 DEF Collect
  <2>3. names \subseteq Collection
    OBVIOUS
  <2> HIDE DEF names
  <2>4. PICK k : k = [job[w] EXCEPT !.pc = "spread", !.names = names]
    OBVIOUS
  <2>5. k \in Job /\ k.pc = "spread" /\ k.tool = job[w].tool /\ k.todo = job[w].todo
        /\ k.names = names
    BY <1>1, <2>3, <2>4 DEF Job
  <2>6. Shaped(k)
    BY <1>1, <2>5 DEF Shaped, Fits
  <2>7. Jobs' /\ job'[w] = k
    BY <2>2, <2>4, <2>5, <2>6, Becomes DEF Typed
  <2> QED
    BY <1>1, <1>2, <2>5, <2>7, StillTyped DEF Typed, names
<1>4. CASE ~(/\ Usable(job[w].tool)
             /\ \A g \in Collection : group[g] # None => Resolvable(group[g]))
  <2>1. Become(w, [job[w] EXCEPT !.pc = "expose", !.tool = None])
    BY <1>4 DEF Collect
  <2> QED
    BY <1>1, <1>2, <1>4, <2>1, NextTool, StillTyped DEF Typed
<1> QED
  BY <1>3, <1>4

LEMMA SpreadDoes ==
    ASSUME Typed, NEW w \in Worker, Spread(w)
    PROVE  /\ Typed' /\ UNCHANGED <<database, instances, object, sse, failed>>
           /\ At(w, "spread") /\ job[w].tool \in Tool
           /\ content' = [o \in Object |-> IF \E g \in job[w].names : object[g] = o
                                           THEN content[o] \cup {job[w].tool} ELSE content[o]]
           /\ job'[w] \in Job /\ job'[w].pc = "expose" /\ job'[w].todo = job[w].todo
<1>1. At(w, "spread") /\ job[w] # None /\ job[w].tool \in Tool
  BY JobAt DEF Typed, Spread, Shaped, Fits
<1>2. /\ content' = [o \in Object |-> IF \E g \in job[w].names : object[g] = o
                                      THEN content[o] \cup {job[w].tool} ELSE content[o]]
      /\ UNCHANGED <<database, instances, object, sse, failed>>
      /\ Become(w, [job[w] EXCEPT !.pc = "expose", !.tool = None, !.names = {}])
  BY DEF Spread
<1>3. TablesTyped' /\ MemoryTyped'
  BY <1>1, <1>2 DEF Typed, TablesTyped, MemoryTyped, database
<1> QED
  BY <1>1, <1>2, <1>3, NextTool DEF Typed

LEMMA DisableDoes ==
    ASSUME Typed, NEW w \in Worker, NEW t \in Tool, Disable(w, t)
    PROVE  /\ Typed' /\ UNCHANGED <<servers, group, memory, failed>> /\ job[w] = None
           /\ rows[t] = "on" /\ rows' = [rows EXCEPT ![t] = "off"]
           /\ job'[w] \in Job /\ job'[w].pc = "hide" /\ job'[w].drop = {t} /\ job'[w].srv = None
<1>1. PICK k : k = [NewJob("hide") EXCEPT !.drop = {t}]
  OBVIOUS
<1>2. k.pc = "hide" /\ k.drop = {t} /\ k.srv = None
  BY <1>1 DEF NewJob
<1>3. k \in Job
  BY <1>1 DEF NewJob, Job
<1>4. Shaped(k)
  BY <1>2 DEF Shaped, Fits
<1>5. /\ Become(w, k) /\ job[w] = None /\ rows[t] = "on" /\ rows' = [rows EXCEPT ![t] = "off"]
      /\ UNCHANGED <<servers, group, memory, failed>>
  BY <1>1 DEF Disable
<1>6. Jobs' /\ job'[w] = k
  BY <1>3, <1>4, <1>5, Becomes DEF Typed
<1>7. TablesTyped' /\ MemoryTyped'
  BY <1>5 DEF Typed, TablesTyped, MemoryTyped, memory
<1> QED
  BY <1>2, <1>3, <1>5, <1>6, <1>7 DEF Typed

LEMMA DeregisterDoes ==
    ASSUME Typed, NEW w \in Worker, NEW s \in Server, Deregister(w, s)
    PROVE  /\ Typed' /\ UNCHANGED <<servers, group, memory, failed>> /\ job[w] = None
           /\ rows' = [t \in Tool |-> IF Owner[t] = s THEN None ELSE rows[t]]
           /\ job'[w] \in Job /\ job'[w].pc = "hide" /\ job'[w].drop = ToolsOf(s)
           /\ job'[w].srv = s
<1>1. PICK k : k = [NewJob("hide") EXCEPT !.drop = ToolsOf(s), !.srv = s]
  OBVIOUS
<1>2. k.pc = "hide" /\ k.drop = ToolsOf(s) /\ k.srv = s
  BY <1>1 DEF NewJob
<1>3. k \in Job
  <2>1. ToolsOf(s) \subseteq Tool
    BY DEF ToolsOf
  <2> QED
    BY <1>1, <2>1 DEF NewJob, Job
<1>4. Shaped(k)
  BY <1>2 DEF Shaped, Fits
<1>5. /\ Become(w, k) /\ job[w] = None
      /\ rows' = [t \in Tool |-> IF Owner[t] = s THEN None ELSE rows[t]]
      /\ UNCHANGED <<servers, group, memory, failed>>
  BY <1>1 DEF Deregister
<1>6. Jobs' /\ job'[w] = k
  BY <1>3, <1>4, <1>5, Becomes DEF Typed
<1>7. TablesTyped' /\ MemoryTyped'
  BY <1>5 DEF Typed, TablesTyped, MemoryTyped, memory
<1> QED
  BY <1>2, <1>3, <1>5, <1>6, <1>7 DEF Typed

LEMMA HideDoes ==
    ASSUME Typed, NEW w \in Worker, Hide(w)
    PROVE  /\ Typed' /\ UNCHANGED <<database, object, content, sse, failed>> /\ At(w, "hide")
           /\ instances' = instances \ job[w].drop
           /\ job'[w] \in Job /\ job'[w].pc = "forget" /\ Carries(job[w], job'[w])
<1>1. At(w, "hide") /\ job[w] # None /\ Fits(job[w], "forget")
  BY JobAt DEF Typed, Hide, Fits
<1>2. /\ instances' = instances \ job[w].drop /\ Goto(w, "forget")
      /\ UNCHANGED <<database, object, content, sse, failed>>
  BY DEF Hide
<1>3. TablesTyped' /\ MemoryTyped'
  BY <1>2 DEF Typed, TablesTyped, MemoryTyped, database
<1>4. Jobs' /\ job'[w] \in Job /\ job'[w].pc = "forget" /\ Carries(job[w], job'[w])
  BY <1>1, <1>2, Goes DEF Typed, Pc
<1> QED
  BY <1>1, <1>2, <1>3, <1>4 DEF Typed

LEMMA ForgetDoes ==
    ASSUME Typed, NEW w \in Worker, Forget(w)
    PROVE  /\ Typed' /\ UNCHANGED <<database, instances, object, sse, failed>> /\ At(w, "forget")
           /\ content' = [o \in Object |->
                            IF \E g \in Collection : object[g] = o
                            THEN content[o] \ job[w].drop ELSE content[o]]
           /\ \/ job'[w] = None
              \/ /\ job[w].srv \in Server
                 /\ job'[w] \in Job /\ job'[w].pc = "deregister" /\ Carries(job[w], job'[w])
<1>1. At(w, "forget") /\ job[w] # None /\ job[w].srv \in Server \cup {None}
  BY JobAt, JobFields DEF Typed, Forget
<1>2. /\ content' = [o \in Object |-> IF \E g \in Collection : object[g] = o
                                      THEN content[o] \ job[w].drop ELSE content[o]]
      /\ UNCHANGED <<database, instances, object, sse, failed>>
  BY DEF Forget
<1>3. TablesTyped' /\ MemoryTyped'
  BY <1>2 DEF Typed, TablesTyped, MemoryTyped, database
<1>4. CASE job[w].srv = None
  <2>1. Finish(w)
    BY <1>4 DEF Forget
  <2> QED
    BY <1>1, <1>2, <1>3, <2>1, Returns DEF Typed
<1>5. CASE job[w].srv # None
  <2>1. Goto(w, "deregister") /\ Fits(job[w], "deregister")
    BY <1>1, <1>5 DEF Forget, Fits
  <2>2. Jobs' /\ job'[w] \in Job /\ job'[w].pc = "deregister" /\ Carries(job[w], job'[w])
    BY <1>1, <2>1, Goes DEF Typed, Pc
  <2> QED
    BY <1>1, <1>2, <1>3, <1>5, <2>2 DEF Typed
<1> QED
  BY <1>4, <1>5

LEMMA DropServerDoes ==
    ASSUME Typed, NEW w \in Worker, DropServer(w)
    PROVE  /\ Typed' /\ UNCHANGED <<rows, group, memory, failed>> /\ At(w, "deregister")
           /\ servers' = servers \ {job[w].srv} /\ job'[w] = None
<1>1. /\ At(w, "deregister") /\ UNCHANGED <<rows, group, memory, failed>>
      /\ servers' = servers \ {job[w].srv} /\ Finish(w)
  BY DEF DropServer
<1>2. TablesTyped' /\ MemoryTyped'
  BY <1>1 DEF Typed, TablesTyped, MemoryTyped, memory
<1> QED
  BY <1>1, <1>2, Returns DEF Typed

LEMMA ConnectSseDoes ==
    ASSUME Typed, NEW g \in Collection, ConnectSse(g)
    PROVE  Typed' /\ UNCHANGED <<database, instances, object, content, job, failed>>
<1>1. /\ object[g] # None /\ sse' = [sse EXCEPT ![g] = object[g]]
      /\ UNCHANGED <<database, instances, object, content, job, failed>>
  BY DEF ConnectSse
<1>2. TablesTyped' /\ MemoryTyped' /\ Jobs'
  BY <1>1 DEF Typed, TablesTyped, MemoryTyped, Jobs, database
<1> QED
  BY <1>1, <1>2 DEF Typed

Live == {g \in Collection : group[g] # None}

LEMMA RestartDoes ==
    ASSUME Typed, Restart
    PROVE  /\ Typed' /\ UNCHANGED database /\ failed' = FALSE
           /\ \A w \in Worker : job'[w] = None
           /\ instances' = {t \in Tool : rows[t] = "on" /\ Owner[t] \in servers}
           /\ \A g \in Collection : object'[g] # None <=> group[g] # None
           /\ \A g, h \in Collection : object'[g] # None /\ object'[g] = object'[h] => g = h
           /\ \A g \in Live : content'[object'[g]] = ServedAtStart(g, instances')
<1>1. PICK o \in [Live -> 1 .. Cardinality(Live)] :
        /\ \A g, h \in Live : o[g] = o[h] => g = h
        /\ object' = [g \in Collection |-> IF g \in Live THEN o[g] ELSE None]
        /\ content' = [i \in Object |-> UNION {ServedAtStart(g, instances') :
                                               g \in {h \in Live : o[h] = i}}]
  BY DEF Restart, Live
<1>2. /\ job' = [w \in Worker |-> None] /\ UNCHANGED database /\ failed' = FALSE
      /\ instances' = {t \in Tool : rows[t] = "on" /\ Owner[t] \in servers}
      /\ sse' = [g \in Collection |-> None]
  BY DEF Restart
<1>3. Cardinality(Live) \in Nat /\ Cardinality(Live) <= MaxObj
  <2>1. Live \subseteq Collection
    BY DEF Live
  <2>2. Cardinality(Live) <= Cardinality(Collection) /\ IsFiniteSet(Live)
    BY <2>1, FS_Subset, BoundAssumption
  <2> QED
    BY <2>2, FS_CardinalityType, BoundAssumption
<1>4. \A g \in Live : o[g] \in Object /\ o[g] # None
  BY <1>1, <1>3, NoneAssumption, BoundAssumption DEF Object
<1>5. object' \in [Collection -> Object \cup {None}]
  BY <1>1, <1>4 DEF Live
<1>6. instances' \subseteq Tool
  BY <1>2
<1>7. \A g \in Live : ServedAtStart(g, instances') \subseteq Tool
  BY <1>6 DEF ServedAtStart
<1>8. content' \in [Object -> SUBSET Tool]
  BY <1>1, <1>7
<1>9. Jobs'
  BY <1>2 DEF Jobs
<1>10. TablesTyped' /\ MemoryTyped'
  BY <1>2, <1>5, <1>6, <1>8 DEF Typed, TablesTyped, MemoryTyped, database
<1>11. \A g \in Collection : object'[g] # None <=> group[g] # None
  BY <1>1, <1>4 DEF Live
<1>12. \A g, h \in Collection : object'[g] # None /\ object'[g] = object'[h] => g = h
  BY <1>1, <1>4 DEF Live
<1>13. ASSUME NEW g \in Live PROVE content'[object'[g]] = ServedAtStart(g, instances')
  <2>1. g \in Collection /\ object'[g] = o[g] /\ o[g] \in Object
    BY <1>1, <1>4 DEF Live
  <2>2. {h \in Live : o[h] = o[g]} = {g}
    BY <1>1
  <2>3. content'[o[g]] = UNION {ServedAtStart(h, instances') : h \in {h \in Live : o[h] = o[g]}}
    BY <1>1, <2>1
  <2>4. content'[o[g]] = UNION {ServedAtStart(h, instances') : h \in {g}}
    BY <2>2, <2>3
  <2> QED
    BY <2>1, <2>4
<1> QED
  BY <1>2, <1>9, <1>10, <1>11, <1>12, <1>13 DEF Typed

LEMMA FailDoes ==
    ASSUME Typed, NEW w \in Worker, Fail(w)
    PROVE  /\ Typed' /\ UNCHANGED <<database, memory>> /\ failed' = TRUE /\ job[w] # None
           /\ \/ job'[w] = None /\ job[w].pc \in {"resolve", "fill", "insert", "compare", "store",
                                                  "erase", "deregister"}
              \/ /\ At(w, "collect")
                 /\ job'[w] \in Job /\ job'[w].pc = "expose" /\ job'[w].todo = job[w].todo
<1>1. UNCHANGED <<database, memory>> /\ failed' = TRUE /\ job[w] # None
  BY DEF Fail
<1>2. TablesTyped' /\ MemoryTyped'
  BY <1>1 DEF Typed, TablesTyped, MemoryTyped, database, memory
<1>3. CASE /\ Finish(w)
           /\ job[w].pc \in {"resolve", "fill", "insert", "compare", "store", "erase",
                             "deregister"}
  BY <1>1, <1>2, <1>3, Returns DEF Typed
<1>4. CASE At(w, "collect") /\ Become(w, [job[w] EXCEPT !.pc = "expose", !.tool = None])
  BY <1>1, <1>2, <1>4, NextTool DEF Typed
<1> QED
  BY <1>3, <1>4 DEF Fail

LEMMA TypedInit == Init => Typed
BY NoneAssumption DEF Init, Typed, TablesTyped, MemoryTyped, Jobs

LEMMA ArriveTyped ==
    ASSUME Typed, NEW w \in Worker, Arrive(w)
    PROVE  Typed'
<1>1. CASE \E g \in Collection, c \in Config : Create(w, g, c) \/ Update(w, g, c)
  BY <1>1, CreateDoes, UpdateDoes
<1>2. CASE \E g \in Collection : Delete(w, g)
  BY <1>2, DeleteDoes
<1>3. CASE \E s \in Server : Register(w, s) \/ Deregister(w, s)
  BY <1>3, RegisterDoes, DeregisterDoes
<1>4. CASE \E t \in Tool : Enable(w, t) \/ Disable(w, t)
  BY <1>4, EnableDoes, DisableDoes
<1> QED
  BY <1>1, <1>2, <1>3, <1>4 DEF Arrive

LEMMA StepTyped ==
    ASSUME Typed, NEW w \in Worker, Step(w)
    PROVE  Typed'
<1>1. CASE Resolve(w) \/ FillOne(w) \/ Filled(w) \/ Insert(w) \/ Attach(w)
  BY <1>1, ResolveDoes, FillOneDoes, FilledDoes, InsertDoes, AttachDoes
<1>2. CASE Compare(w) \/ Apply(w) \/ Store(w) \/ Detach(w) \/ Erase(w)
  BY <1>2, CompareDoes, ApplyDoes, StoreDoes, DetachDoes, EraseDoes
<1>3. CASE Expose(w) \/ Exposed(w) \/ Collect(w) \/ Spread(w)
  BY <1>3, ExposeDoes, ExposedDoes, CollectDoes, SpreadDoes
<1>4. CASE Hide(w) \/ Forget(w) \/ DropServer(w)
  BY <1>4, HideDoes, ForgetDoes, DropServerDoes
<1> QED
  BY <1>1, <1>2, <1>3, <1>4 DEF Step

LEMMA StutterTyped ==
    ASSUME Typed, UNCHANGED vars
    PROVE  Typed'
BY DEF Typed, TablesTyped, MemoryTyped, Jobs, vars

LEMMA TypedStep ==
    ASSUME Typed, [Next]_vars
    PROVE  Typed'
<1>1. CASE \E w \in Worker : Arrive(w) \/ Step(w) \/ Fail(w)
  BY <1>1, ArriveTyped, StepTyped, FailDoes
<1>2. CASE \E g \in Collection : ConnectSse(g)
  BY <1>2, ConnectSseDoes
<1>3. CASE Restart
  BY <1>3, RestartDoes
<1>4. CASE UNCHANGED vars
  BY <1>4, StutterTyped
<1> QED
  BY <1>1, <1>2, <1>3, <1>4 DEF Next

LEMMA TypedInvariant == Spec => []Typed
<1>1. Typed /\ [Next]_vars => Typed'
  BY TypedStep
<1> QED
  BY <1>1, TypedInit, PTL DEF Spec

\* Every variable keeps its shape, and a handler that works on an in-memory
\* server has one, for any number of overlapping handlers: an update uses at
\* toolcollection.go:212 what it found at :167.
THEOREM CollectionsTyped == Spec => []TypeOK
<1>1. Typed => TypeOK
  BY TypedIsTypeOK
<1> QED
  BY <1>1, TypedInvariant, PTL

------------------------------------------------------------------------------
(* Handlers that overlap.                                                    *)

In(w, pcs) == job[w] # None /\ job[w].pc \in pcs

Adding == {"expose", "collect", "spread"}

Filling == {"fill", "insert", "attach"}

Acts(w) == Arrive(w) \/ Step(w) \/ Fail(w)

OthersKeep(w) == \A v \in Worker \ {w} : job'[v] = job[v]

\* A step is of one handler, and the others stay where they are.
LEMMA OneActs ==
    ASSUME Typed, NEW w \in Worker, Acts(w)
    PROVE  OthersKeep(w)
<1>1. job \in [Worker -> Job \cup {None}]
  BY DEF Typed, Jobs
<1>2. ASSUME NEW j, job' = [job EXCEPT ![w] = j]
      PROVE  OthersKeep(w)
  BY <1>1, <1>2 DEF OthersKeep
<1>3. CASE Arrive(w)
  BY <1>2, <1>3 DEF Arrive, Create, Update, Delete, Register, Deregister, Enable, Disable, Become
<1>4. CASE Step(w)
  <2>1. CASE Resolve(w) \/ FillOne(w) \/ Filled(w) \/ Insert(w) \/ Attach(w)
    BY <1>1, <2>1 DEF OthersKeep, Resolve, FillOne, Filled, Insert, Attach, Become, Finish, Goto
  <2>2. CASE Compare(w) \/ Apply(w) \/ Store(w) \/ Detach(w) \/ Erase(w)
    BY <1>1, <2>2 DEF OthersKeep, Compare, Apply, Store, Detach, Erase, Become, Finish, Goto
  <2>3. CASE Expose(w) \/ Exposed(w) \/ Collect(w) \/ Spread(w)
    BY <1>1, <2>3 DEF OthersKeep, Expose, Exposed, Collect, Spread, Become, Finish
  <2>4. CASE Hide(w) \/ Forget(w) \/ DropServer(w)
    BY <1>1, <2>4 DEF OthersKeep, Hide, Forget, DropServer, Become, Finish, Goto
  <2> QED
    BY <1>4, <2>1, <2>2, <2>3, <2>4 DEF Step
<1>5. CASE Fail(w)
  BY <1>1, <1>5 DEF OthersKeep, Fail, Become, Finish
<1> QED
  BY <1>3, <1>4, <1>5 DEF Acts

\* No two handlers work on one collection.
OneEach ==
    \A v, w \in Worker :
        job[v] # None /\ job[w] # None /\ job[v].coll \in Collection /\ job[v].coll = job[w].coll
            => v = w

------------------------------------------------------------------------------
(* The tools: a tool change runs alone, the requests for collections overlap. *)

On == {t \in Tool : rows[t] = "on"}

\* The tools whose row is off or gone and that an endpoint may still offer.
Dropping(w) == IF In(w, {"hide", "forget"}) THEN job[w].drop ELSE {}

\* The tools of the proxy have a row that is on, but for those on their way out,
\* and a row a server; the proxy has every tool that is on but for those a
\* handler has still to add, which are on.
RowsOf(w) ==
    /\ \A t \in Tool : rows[t] # None => Owner[t] \in servers
    /\ \A t \in instances : t \in On \/ (In(w, {"hide"}) /\ t \in job[w].drop)
    /\ \A t \in On : t \in instances \/ (In(w, Adding) /\ t \in job[w].todo)
    /\ In(w, Adding) => job[w].todo \subseteq On
    /\ In(w, {"collect", "spread"}) => job[w].tool \in instances
    /\ In(w, {"hide", "forget"}) => job[w].drop \cap On = {}
    /\ In(w, {"hide", "forget", "deregister"}) =>
          \A t \in Tool : Owner[t] = job[w].srv => rows[t] = None

\* What endpoints offer is on, but for tools on their way out; so is what a
\* handler has put into an in-memory server that is no endpoint yet, and what
\* an update is going to add.
OffersOf(w) ==
    /\ \A g \in Collection : object[g] # None => content[object[g]] \subseteq On \cup Dropping(w)
    /\ In(w, Filling) => content[job[w].obj] \subseteq On
    /\ In(w, {"apply"}) => job[w].todo \subseteq On

\* The handlers of collections leave the tools alone.
LEMMA RowsKept ==
    ASSUME NEW w \in Worker, RowsOf(w), UNCHANGED <<servers, rows, instances>>,
           ~In(w, {"hide"} \cup Adding),
           job'[w] = None \/ job'[w].pc \notin Adding \cup {"hide", "forget", "deregister"}
    PROVE  RowsOf(w)'
BY DEF RowsOf, In, On, Adding

LEMMA RowsStep ==
    ASSUME Typed, NEW w \in Worker, RowsOf(w), Acts(w)
    PROVE  RowsOf(w)'
<1> USE DEF database, memory
<1>1. ASSUME NEW g \in Collection, NEW c \in Config, Create(w, g, c) \/ Update(w, g, c)
      PROVE  RowsOf(w)'
  BY <1>1, RowsKept, CreateDoes, UpdateDoes DEF Still, In, Adding
<1>2. ASSUME NEW g \in Collection, Delete(w, g)
      PROVE  RowsOf(w)'
  BY <1>2, RowsKept, DeleteDoes DEF Still, In, Adding
<1>3. CASE Resolve(w) \/ FillOne(w)
  BY <1>3, RowsKept, ResolveDoes, FillOneDoes DEF In, Adding, At
<1>4. CASE Filled(w) \/ Compare(w)
  BY <1>4, RowsKept, FilledDoes, CompareDoes DEF Still, In, Adding, At
<1>5. CASE Insert(w) \/ Store(w) \/ Erase(w)
  BY <1>5, RowsKept, InsertDoes, StoreDoes, EraseDoes DEF In, Adding, At
<1>6. CASE Attach(w) \/ Detach(w) \/ Apply(w)
  BY <1>6, RowsKept, AttachDoes, DetachDoes, ApplyDoes DEF In, Adding, At
<1>7. ASSUME NEW s \in Server, Register(w, s)
      PROVE  RowsOf(w)'
  <2>1. /\ job[w] = None /\ instances' = instances /\ servers' = servers \cup {s}
        /\ rows' = [t \in Tool |-> IF Owner[t] = s THEN "on" ELSE rows[t]]
        /\ job'[w] # None /\ job'[w].pc = "expose" /\ job'[w].todo = {t \in Tool : Owner[t] = s}
    BY <1>7, RegisterDoes, JobFields
  <2>2. \A t \in Tool : rows'[t] = IF Owner[t] = s THEN "on" ELSE rows[t]
    BY <2>1
  <2>3. instances \subseteq Tool /\ \A t \in instances : rows[t] = "on"
    BY <2>1 DEF Typed, MemoryTyped, RowsOf, In, On
  <2> QED
    BY <2>1, <2>2, <2>3 DEF RowsOf, In, On, Adding
<1>8. ASSUME NEW t \in Tool, Enable(w, t)
      PROVE  RowsOf(w)'
  <2>1. /\ job[w] = None /\ instances' = instances /\ servers' = servers
        /\ rows[t] = "off" /\ rows' = [rows EXCEPT ![t] = "on"]
        /\ job'[w] # None /\ job'[w].pc = "expose" /\ job'[w].todo = {t}
    BY <1>8, EnableDoes, JobFields
  <2>2. \A u \in Tool : rows'[u] = IF u = t THEN "on" ELSE rows[u]
    BY <2>1 DEF Typed, TablesTyped
  <2>3. instances \subseteq Tool /\ \A u \in instances : rows[u] = "on"
    BY <2>1 DEF Typed, MemoryTyped, RowsOf, In, On
  <2>4. rows[t] # None
    BY <2>1, NoneAssumption
  <2> QED
    BY <2>1, <2>2, <2>3, <2>4 DEF RowsOf, In, On, Adding
<1>9. CASE Expose(w)
  <2>1. PICK t \in job[w].todo :
          /\ t \in Tool /\ instances' = instances \cup {t}
          /\ job'[w] # None /\ job'[w].pc = "collect" /\ job'[w].tool = t
          /\ job'[w].todo = job[w].todo \ {t}
    BY <1>9, ExposeDoes, JobFields
  <2>2. job[w] # None /\ job[w].pc = "expose" /\ servers' = servers /\ rows' = rows
    BY <1>9, ExposeDoes DEF At
  <2> QED
    BY <2>1, <2>2 DEF RowsOf, In, On, Adding
<1>10. CASE Exposed(w) \/ Collect(w) \/ Spread(w)
  <2>1. /\ UNCHANGED <<servers, rows, instances>> /\ job[w] # None
        /\ job[w].pc \in Adding
    BY <1>10, ExposedDoes, CollectDoes, SpreadDoes DEF Still, At, Adding
  <2>2. \/ job'[w] = None /\ job[w].todo = {}
        \/ job'[w] # None /\ job'[w].pc = "expose" /\ job'[w].todo = job[w].todo
        \/ /\ job[w].pc = "collect" /\ job'[w] # None
           /\ job'[w].pc = "spread" /\ job'[w].tool = job[w].tool /\ job'[w].todo = job[w].todo
    BY <1>10, ExposedDoes, CollectDoes, SpreadDoes, JobFields DEF At
  <2> QED
    BY <2>1, <2>2 DEF RowsOf, In, On, Adding
<1>11. ASSUME NEW t \in Tool, Disable(w, t)
       PROVE  RowsOf(w)'
  <2>1. /\ job[w] = None /\ instances' = instances /\ servers' = servers
        /\ rows[t] = "on" /\ rows' = [rows EXCEPT ![t] = "off"]
        /\ job'[w] # None /\ job'[w].pc = "hide" /\ job'[w].drop = {t} /\ job'[w].srv = None
    BY <1>11, DisableDoes, JobFields
  <2>2. \A u \in Tool : rows'[u] = IF u = t THEN "off" ELSE rows[u]
    BY <2>1 DEF Typed, TablesTyped
  <2>3. instances \subseteq Tool /\ \A u \in instances : rows[u] = "on"
    BY <2>1 DEF Typed, MemoryTyped, RowsOf, In, On
  <2>4. rows[t] # None /\ \A u \in Tool : Owner[u] # None
    BY <2>1, OwnerAssumption, NoneAssumption
  <2> QED
    BY <2>1, <2>2, <2>3, <2>4 DEF RowsOf, In, On, Adding
<1>12. ASSUME NEW s \in Server, Deregister(w, s)
       PROVE  RowsOf(w)'
  <2>1. /\ job[w] = None /\ instances' = instances /\ servers' = servers
        /\ rows' = [t \in Tool |-> IF Owner[t] = s THEN None ELSE rows[t]]
        /\ job'[w] # None /\ job'[w].pc = "hide" /\ job'[w].drop = ToolsOf(s)
        /\ job'[w].srv = s
    BY <1>12, DeregisterDoes, JobFields
  <2>2. \A u \in Tool : rows'[u] = IF Owner[u] = s THEN None ELSE rows[u]
    BY <2>1
  <2>3. instances \subseteq Tool /\ \A u \in instances : rows[u] = "on"
    BY <2>1 DEF Typed, MemoryTyped, RowsOf, In, On
  <2>4. \A u \in ToolsOf(s) : u \in Tool /\ Owner[u] = s
    BY DEF ToolsOf
  <2>5. \A u \in instances : Owner[u] = s => u \in ToolsOf(s)
    BY <2>3, NoneAssumption DEF ToolsOf
  <2> QED
    BY <2>1, <2>2, <2>3, <2>4, <2>5, NoneAssumption DEF RowsOf, In, On, Adding
<1>13. CASE Hide(w)
  <2>1. /\ job[w] # None /\ job[w].pc = "hide" /\ servers' = servers /\ rows' = rows
        /\ instances' = instances \ job[w].drop
        /\ job'[w] # None /\ job'[w].pc = "forget" /\ Carries(job[w], job'[w])
    BY <1>13, HideDoes, JobFields DEF At
  <2> QED
    BY <2>1 DEF RowsOf, In, On, Adding, Carries
<1>14. CASE Forget(w)
  <2>1. /\ job[w] # None /\ job[w].pc = "forget" /\ UNCHANGED <<servers, rows, instances>>
        /\ \/ job'[w] = None
           \/ job'[w] # None /\ job'[w].pc = "deregister" /\ Carries(job[w], job'[w])
    BY <1>14, ForgetDoes, JobFields DEF At
  <2> QED
    BY <2>1 DEF RowsOf, In, On, Adding, Carries
<1>15. CASE DropServer(w)
  <2>1. /\ job[w] # None /\ job[w].pc = "deregister" /\ UNCHANGED <<rows, instances>>
        /\ servers' = servers \ {job[w].srv} /\ job'[w] = None
    BY <1>15, DropServerDoes DEF At
  <2> QED
    BY <2>1 DEF RowsOf, In, On, Adding
<1>16. CASE Fail(w)
  <2>1. /\ job[w] # None /\ UNCHANGED <<servers, rows, instances>> /\ job[w].pc # "hide"
        /\ \/ job'[w] = None /\ job[w].pc \notin Adding
           \/ /\ job[w].pc = "collect" /\ job'[w] # None /\ job'[w].pc = "expose"
              /\ job'[w].todo = job[w].todo
    BY <1>16, FailDoes, JobFields DEF At, Adding
  <2> QED
    BY <2>1 DEF RowsOf, In, On, Adding
<1> QED
  BY <1>1, <1>2, <1>3, <1>4, <1>5, <1>6, <1>7, <1>8, <1>9, <1>10, <1>11, <1>12, <1>13, <1>14,
     <1>15, <1>16 DEF Acts, Arrive, Step

\* What a handler finds in the proxy is on, unless it is hiding a tool.
LEMMA UsableOn ==
    ASSUME NEW w \in Worker, RowsOf(w), ~In(w, {"hide"}), NEW t \in instances
    PROVE  t \in On
BY DEF RowsOf

\* Nothing an endpoint offers changes, and no tool goes off.
LEMMA OffersKept ==
    ASSUME NEW w \in Worker, OffersOf(w), UNCHANGED <<object, content>>, On \subseteq On',
           ~In(w, {"hide", "forget"}),
           \/ job'[w] = None
           \/ job'[w].pc \notin Filling \cup {"apply"}
           \/ In(w, Filling) /\ job'[w].obj = job[w].obj /\ job'[w].pc # "apply"
    PROVE  OffersOf(w)'
BY DEF OffersOf, Dropping, In, Filling

LEMMA OffersStep ==
    ASSUME Typed, NEW w \in Worker, RowsOf(w), OffersOf(w), Acts(w)
    PROVE  OffersOf(w)'
<1> USE DEF database, memory
<1>0. /\ \A g \in Collection : object[g] # None => object[g] \in Object
      /\ content \in [Object -> SUBSET Tool]
      /\ instances \subseteq Tool
  BY DEF Typed, MemoryTyped
<1>1. ASSUME NEW g \in Collection, NEW c \in Config, Create(w, g, c) \/ Update(w, g, c)
      PROVE  OffersOf(w)'
  BY <1>1, OffersKept, CreateDoes, UpdateDoes DEF Still, In, Filling, On
<1>2. ASSUME NEW g \in Collection, Delete(w, g)
      PROVE  OffersOf(w)'
  BY <1>2, OffersKept, DeleteDoes DEF Still, In, Filling, On
<1>3. CASE Resolve(w)
  <2>1. CASE job'[w] = None /\ content' = content
    BY <1>3, <2>1, OffersKept, ResolveDoes DEF In, On, At
  <2>2. CASE ~(job'[w] = None /\ content' = content)
    <3>1. /\ job[w] # None /\ job[w].pc = "resolve" /\ UNCHANGED <<rows, object>>
          /\ job'[w].pc = "fill" /\ job'[w].obj \in Object
          /\ content' = [content EXCEPT ![job'[w].obj] = {}]
      BY <1>3, <2>2, ResolveDoes DEF At
    <3>2. /\ content'[job'[w].obj] = {}
          /\ \A o \in Object : content'[o] \subseteq content[o]
      BY <1>0, <3>1
    <3> QED
      BY <1>0, <3>1, <3>2 DEF OffersOf, In, On, Dropping, Filling
  <2> QED
    BY <2>1, <2>2
<1>4. CASE FillOne(w)
  <2>1. CASE job'[w] = None /\ content' = content
    BY <1>4, <2>1, OffersKept, FillOneDoes DEF In, On, At
  <2>2. CASE ~(job'[w] = None /\ content' = content)
    <3>1. PICK t \in job[w].todo :
            /\ Usable(t) /\ job'[w].pc = "fill" /\ job'[w].obj = job[w].obj
            /\ content' = [content EXCEPT ![job[w].obj] = @ \cup {t}]
      BY <1>4, <2>2, FillOneDoes
    <3>2. job[w] # None /\ job[w].pc = "fill" /\ UNCHANGED <<rows, object>>
      BY <1>4, FillOneDoes DEF At
    <3>3. t \in On
      BY <3>1, <3>2, UsableOn DEF Usable, In
    <3>4. job[w].obj \in Object
      BY <3>2, JobAt DEF At, Typed, Shaped, Fits
    <3>5. \A o \in Object : content'[o] \subseteq content[o] \cup {t}
      BY <1>0, <3>1, <3>4
    <3> QED
      BY <1>0, <3>1, <3>2, <3>3, <3>4, <3>5 DEF OffersOf, In, On, Dropping, Filling
  <2> QED
    BY <2>1, <2>2
<1>5. CASE Filled(w) \/ Insert(w)
  <2>1. /\ UNCHANGED <<rows, object, content>> /\ job[w] # None
        /\ job[w].pc \in {"fill", "insert"}
        /\ \/ job'[w] = None
           \/ job'[w].pc \in Filling /\ job'[w].obj = job[w].obj
    BY <1>5, FilledDoes, InsertDoes DEF Still, Carries, At, Filling
  <2> QED
    BY <2>1, OffersKept DEF In, Filling, On
<1>6. CASE Attach(w)
  <2>1. /\ job[w] # None /\ job[w].pc = "attach" /\ UNCHANGED <<rows, content>>
        /\ job'[w] = None /\ object' = [object EXCEPT ![job[w].coll] = job[w].obj]
    BY <1>6, AttachDoes DEF At
  <2>2. \A g \in Collection : object'[g] \in {object[g], job[w].obj}
    BY <2>1 DEF Typed, MemoryTyped
  <2> QED
    BY <2>1, <2>2 DEF OffersOf, In, On, Dropping, Filling
<1>7. CASE Compare(w)
  <2>1. CASE job'[w] = None
    BY <1>7, <2>1, OffersKept, CompareDoes DEF Still, In, On, At
  <2>2. CASE job'[w] # None
    <3>1. /\ UNCHANGED <<rows, object, content>> /\ job[w] # None /\ job[w].pc = "compare"
          /\ Applicable(job[w].coll, job[w].cfg) /\ job'[w].pc = "apply"
          /\ job'[w].todo = Effective(job[w].cfg) \ Effective(group[job[w].coll])
      BY <1>7, <2>2, CompareDoes DEF Still, At
    <3>2. job'[w].todo \subseteq On
      BY <3>1, UsableOn DEF Applicable, Usable, In
    <3> QED
      BY <3>1, <3>2 DEF OffersOf, In, On, Dropping, Filling
  <2> QED
    BY <2>1, <2>2
<1>8. CASE Apply(w)
  <2>1. /\ job[w] # None /\ job[w].pc = "apply" /\ UNCHANGED <<rows, object>>
        /\ job[w].obj \in Object /\ job'[w].pc = "store"
        /\ content' = [content EXCEPT ![job[w].obj] = (@ \ job[w].drop) \cup job[w].todo]
    BY <1>8, ApplyDoes DEF At
  <2>2. \A o \in Object : content'[o] \subseteq content[o] \cup job[w].todo
    BY <1>0, <2>1
  <2> QED
    BY <1>0, <2>1, <2>2 DEF OffersOf, In, On, Dropping, Filling
<1>9. CASE Store(w) \/ Erase(w)
  BY <1>9, OffersKept, StoreDoes, EraseDoes DEF In, On, At
<1>10. CASE Detach(w)
  <2>1. /\ job[w] # None /\ job[w].pc = "detach" /\ UNCHANGED <<rows, content>>
        /\ job'[w].pc = "erase" /\ object' = [object EXCEPT ![job[w].coll] = None]
    BY <1>10, DetachDoes DEF At
  <2>2. \A g \in Collection : object'[g] \in {object[g], None}
    BY <2>1 DEF Typed, MemoryTyped
  <2> QED
    BY <2>1, <2>2 DEF OffersOf, In, On, Dropping, Filling
<1>11. ASSUME NEW s \in Server, Register(w, s)
       PROVE  OffersOf(w)'
  <2>1. On \subseteq On'
    BY <1>11, RegisterDoes DEF On
  <2> QED
    BY <1>11, <2>1, OffersKept, RegisterDoes DEF In, Filling
<1>12. ASSUME NEW t \in Tool, Enable(w, t)
       PROVE  OffersOf(w)'
  <2>1. On \subseteq On'
    BY <1>12, EnableDoes DEF On, Typed, TablesTyped
  <2> QED
    BY <1>12, <2>1, OffersKept, EnableDoes DEF In, Filling
<1>13. CASE Expose(w)
  <2>1. /\ UNCHANGED <<rows, object, content>> /\ job[w] # None /\ job[w].pc = "expose"
        /\ job'[w].pc = "collect"
    BY <1>13, ExposeDoes DEF At
  <2> QED
    BY <2>1, OffersKept DEF In, Filling, On
<1>14. CASE Exposed(w) \/ Collect(w)
  <2>1. /\ UNCHANGED <<rows, object, content>> /\ job[w] # None
        /\ job[w].pc \in {"expose", "collect"}
        /\ job'[w] = None \/ job'[w].pc \in {"expose", "spread"}
    BY <1>14, ExposedDoes, CollectDoes DEF Still, At
  <2> QED
    BY <2>1, OffersKept DEF In, Filling, On
<1>15. CASE Spread(w)
  <2>1. /\ job[w] # None /\ job[w].pc = "spread" /\ UNCHANGED <<rows, object>>
        /\ job'[w].pc = "expose"
        /\ content' = [o \in Object |-> IF \E g \in job[w].names : object[g] = o
                                        THEN content[o] \cup {job[w].tool} ELSE content[o]]
    BY <1>15, SpreadDoes DEF At
  <2>2. job[w].tool \in On
    BY <2>1, UsableOn DEF RowsOf, In
  <2>3. \A o \in Object : content'[o] \subseteq content[o] \cup {job[w].tool}
    BY <2>1
  <2> QED
    BY <1>0, <2>1, <2>2, <2>3 DEF OffersOf, In, On, Dropping, Filling
<1>16. ASSUME NEW t \in Tool, Disable(w, t)
       PROVE  OffersOf(w)'
  <2>1. /\ job[w] = None /\ UNCHANGED <<object, content>>
        /\ rows' = [rows EXCEPT ![t] = "off"]
        /\ job'[w] # None /\ job'[w].pc = "hide" /\ job'[w].drop = {t}
    BY <1>16, DisableDoes, JobFields
  <2>2. On \subseteq On' \cup {t}
    BY <2>1 DEF On, Typed, TablesTyped
  <2> QED
    BY <2>1, <2>2 DEF OffersOf, In, Dropping, Filling
<1>17. ASSUME NEW s \in Server, Deregister(w, s)
       PROVE  OffersOf(w)'
  <2>1. /\ job[w] = None /\ UNCHANGED <<object, content>>
        /\ rows' = [t \in Tool |-> IF Owner[t] = s THEN None ELSE rows[t]]
        /\ job'[w] # None /\ job'[w].pc = "hide" /\ job'[w].drop = ToolsOf(s)
    BY <1>17, DeregisterDoes, JobFields
  <2>2. On \subseteq On' \cup ToolsOf(s)
    BY <2>1, NoneAssumption DEF On, ToolsOf
  <2> QED
    BY <2>1, <2>2 DEF OffersOf, In, Dropping, Filling
<1>18. CASE Hide(w)
  <2>1. /\ job[w] # None /\ job[w].pc = "hide" /\ UNCHANGED <<rows, object, content>>
        /\ job'[w] # None /\ job'[w].pc = "forget" /\ Carries(job[w], job'[w])
    BY <1>18, HideDoes, JobFields DEF At
  <2> QED
    BY <2>1 DEF OffersOf, In, On, Dropping, Filling, Carries
<1>19. CASE Forget(w)
  <2>1. /\ job[w] # None /\ job[w].pc = "forget" /\ UNCHANGED <<rows, object>>
        /\ job'[w] = None \/ job'[w].pc = "deregister"
        /\ content' = [o \in Object |-> IF \E g \in Collection : object[g] = o
                                        THEN content[o] \ job[w].drop ELSE content[o]]
    BY <1>19, ForgetDoes DEF At
  <2>2. \A g \in Collection : object[g] # None =>
          content'[object[g]] = content[object[g]] \ job[w].drop
    BY <1>0, <2>1
  <2> QED
    BY <2>1, <2>2 DEF OffersOf, In, On, Dropping, Filling
<1>20. CASE DropServer(w)
  BY <1>20, OffersKept, DropServerDoes DEF In, On, At
<1>21. CASE Fail(w)
  <2>1. /\ job[w] # None /\ UNCHANGED <<rows, object, content>>
        /\ job[w].pc \notin {"hide", "forget"}
        /\ job'[w] = None \/ job'[w].pc = "expose"
    BY <1>21, FailDoes DEF At
  <2> QED
    BY <2>1, OffersKept DEF In, Filling, On
<1> QED
  BY <1>1, <1>2, <1>3, <1>4, <1>5, <1>6, <1>7, <1>8, <1>9, <1>10, <1>11, <1>12, <1>13, <1>14,
     <1>15, <1>16, <1>17, <1>18, <1>19, <1>20, <1>21 DEF Acts, Arrive, Step

------------------------------------------------------------------------------
(* From the handler that acts to all of them.                                *)

\* The handlers that change which tools there are.
Changing == Adding \cup {"hide", "forget", "deregister"}

\* While a tool comes or goes no other request is under way.
ToolsAlone == \A v, w \in Worker : v # w /\ In(w, Changing) => job[v] = None

\* The tools whose row is off or gone and that endpoints may still offer.
Leaving == UNION {Dropping(w) : w \in Worker}

\* The tools of the proxy have a row that is on, but for those on their way out,
\* and a row a server; the proxy has every tool that is on but for those
\* handlers have still to add, which are on.
RowsOK ==
    /\ \A t \in Tool : rows[t] # None => Owner[t] \in servers
    /\ \A t \in instances : t \in On \/ \E w \in Worker : In(w, {"hide"}) /\ t \in job[w].drop
    /\ \A t \in On : t \in instances \/ \E w \in Worker : In(w, Adding) /\ t \in job[w].todo
    /\ \A w \in Worker :
          /\ In(w, Adding) => job[w].todo \subseteq On
          /\ In(w, {"collect", "spread"}) => job[w].tool \in instances
          /\ In(w, {"hide", "forget"}) => job[w].drop \cap On = {}
          /\ In(w, {"hide", "forget", "deregister"}) =>
                \A t \in Tool : Owner[t] = job[w].srv => rows[t] = None

\* What endpoints offer is on, but for tools on their way out; so is what
\* handlers have put into in-memory servers that are no endpoints yet, and what
\* updates are going to add.
Offers ==
    /\ \A g \in Collection : object[g] # None => content[object[g]] \subseteq On \cup Leaving
    /\ \A w \in Worker :
          /\ In(w, Filling) => content[job[w].obj] \subseteq On
          /\ In(w, {"apply"}) => job[w].todo \subseteq On

LEMMA Busy ==
    ASSUME Typed, NEW w \in Worker, Acts(w)
    PROVE  job[w] # None \/ job'[w] # None
<1>1. CASE Arrive(w)
  BY <1>1, CreateDoes, UpdateDoes, DeleteDoes, RegisterDoes, DeregisterDoes, EnableDoes,
     DisableDoes, JobFields DEF Arrive
<1>2. CASE Step(w) \/ Fail(w)
  BY <1>2 DEF Step, Fail, Resolve, FillOne, Filled, Insert, Attach, Compare, Apply, Store, Detach,
     Erase, Expose, Exposed, Collect, Spread, Hide, Forget, DropServer, At
<1> QED
  BY <1>1, <1>2 DEF Acts

\* Around a step of w no other handler changes tools, and if w does none is busy.
LEMMA Quiet ==
    ASSUME Typed, ToolsAlone, ToolsAlone', NEW w \in Worker, Acts(w)
    PROVE  \A v \in Worker \ {w} :
              /\ job'[v] = job[v]
              /\ ~In(v, Changing) /\ ~In(v, Changing)'
              /\ In(w, Changing) \/ In(w, Changing)' => job[v] = None
<1>1. OthersKeep(w) /\ (job[w] # None \/ job'[w] # None)
  BY OneActs, Busy
<1> QED
  BY <1>1 DEF ToolsAlone, OthersKeep, In

LEMMA RowsOfAll ==
    ASSUME RowsOK, NEW w \in Worker, \A v \in Worker \ {w} : ~In(v, Changing)
    PROVE  RowsOf(w)
<1>1. \A v \in Worker : In(v, {"hide"}) \/ In(v, Adding) => v = w
  BY DEF Changing, Adding, In
<1> QED
  BY <1>1 DEF RowsOK, RowsOf

LEMMA RowsOfOne ==
    ASSUME NEW w \in Worker, RowsOf(w)', \A v \in Worker \ {w} : ~In(v, Changing)'
    PROVE  RowsOK'
<1>1. \A v \in Worker \ {w} :
         /\ ~In(v, Adding)' /\ ~In(v, {"collect", "spread"})'
         /\ ~In(v, {"hide", "forget"})' /\ ~In(v, {"hide", "forget", "deregister"})'
  BY DEF Changing, Adding, In
<1> QED
  BY <1>1 DEF RowsOK, RowsOf

\* A handler that changes no tools puts into in-memory servers only tools that
\* are on.
LEMMA FillsOn ==
    ASSUME Typed, NEW w \in Worker, RowsOf(w), OffersOf(w), Acts(w),
           ~In(w, Changing), ~In(w, Changing)'
    PROVE  /\ rows' = rows
           /\ \A o \in Object : content'[o] \subseteq content[o] \cup On
<1> USE DEF database, memory
<1>0. content \in [Object -> SUBSET Tool]
  BY DEF Typed, MemoryTyped
<1>1. CASE Arrive(w)
  <2>1. ASSUME NEW s \in Server, Register(w, s) \/ Deregister(w, s) PROVE FALSE
    BY <2>1, RegisterDoes, DeregisterDoes, JobFields DEF In, Changing, Adding
  <2>2. ASSUME NEW t \in Tool, Enable(w, t) \/ Disable(w, t) PROVE FALSE
    BY <2>2, EnableDoes, DisableDoes, JobFields DEF In, Changing, Adding
  <2> QED
    BY <1>1, <2>1, <2>2, CreateDoes, UpdateDoes, DeleteDoes DEF Arrive, Still
<1>2. CASE Resolve(w)
  <2>1. rows' = rows
    BY <1>2, ResolveDoes
  <2>2. content' = content \/ \E o \in Object : content' = [content EXCEPT ![o] = {}]
    BY <1>2, ResolveDoes
  <2> QED
    BY <1>0, <2>1, <2>2
<1>3. CASE FillOne(w)
  <2>1. At(w, "fill") /\ rows' = rows
    BY <1>3, FillOneDoes
  <2>2. job[w].obj \in Object
    BY <2>1, JobAt DEF Typed, Shaped, Fits
  <2>3. content' = content \/ \E t \in On : content' = [content EXCEPT ![job[w].obj] = @ \cup {t}]
    BY <1>3, <2>1, FillOneDoes, UsableOn DEF Usable, In, At
  <2> QED
    BY <1>0, <2>1, <2>2, <2>3
<1>4. CASE Filled(w) \/ Insert(w) \/ Attach(w) \/ Compare(w)
  BY <1>4, FilledDoes, InsertDoes, AttachDoes, CompareDoes DEF Still
<1>5. CASE Apply(w)
  <2>1. /\ job[w] # None /\ job[w].pc = "apply" /\ rows' = rows /\ job[w].obj \in Object
        /\ content' = [content EXCEPT ![job[w].obj] = (@ \ job[w].drop) \cup job[w].todo]
    BY <1>5, ApplyDoes DEF At
  <2>2. job[w].todo \subseteq On
    BY <2>1 DEF OffersOf, In
  <2> QED
    BY <1>0, <2>1, <2>2
<1>6. CASE Store(w) \/ Detach(w) \/ Erase(w)
  BY <1>6, StoreDoes, DetachDoes, EraseDoes
<1>7. CASE Expose(w) \/ Exposed(w) \/ Collect(w) \/ Spread(w)
  BY <1>7, ExposeDoes, ExposedDoes, CollectDoes, SpreadDoes DEF In, At, Changing, Adding
<1>8. CASE Hide(w) \/ Forget(w) \/ DropServer(w)
  BY <1>8, HideDoes, ForgetDoes, DropServerDoes DEF In, At, Changing, Adding
<1>9. CASE Fail(w)
  BY <1>9, FailDoes
<1> QED
  BY <1>1, <1>2, <1>3, <1>4, <1>5, <1>6, <1>7, <1>8, <1>9 DEF Acts, Step

LEMMA ToolsNext ==
    ASSUME Typed, ToolsAlone, ToolsAlone', RowsOK, Offers, [Next]_vars
    PROVE  RowsOK' /\ Offers'
<1>1. ASSUME NEW w \in Worker, Acts(w) PROVE RowsOK' /\ Offers'
  <2>1. \A v \in Worker \ {w} :
           /\ job'[v] = job[v] /\ ~In(v, Changing) /\ ~In(v, Changing)'
           /\ In(w, Changing) \/ In(w, Changing)' => job[v] = None
    BY <1>1, Quiet
  <2>2. RowsOf(w)
    BY <2>1, RowsOfAll
  <2>3. RowsOf(w)'
    BY <1>1, <2>2, RowsStep
  <2>4. RowsOK'
    BY <2>1, <2>3, RowsOfOne
  <2>5. Leaving = Dropping(w)
    BY <2>1 DEF Leaving, Dropping, In, Changing
  <2>6. OffersOf(w)
    BY <2>5 DEF Offers, OffersOf
  <2>7. OffersOf(w)'
    BY <1>1, <2>2, <2>6, OffersStep
  <2>8. Dropping(w)' \subseteq Leaving'
    BY DEF Leaving
  <2>9. ASSUME NEW v \in Worker \ {w}, job[v] # None
        PROVE  /\ In(v, Filling) => content'[job[v].obj] \subseteq On'
               /\ In(v, {"apply"}) => job[v].todo \subseteq On'
    <3>1. ~In(w, Changing) /\ ~In(w, Changing)'
      BY <2>1, <2>9
    <3>2. On' = On /\ \A o \in Object : content'[o] \subseteq content[o] \cup On
      BY <1>1, <2>2, <2>6, <3>1, FillsOn DEF On
    <3>3. In(v, Filling) => job[v].obj \in Object
      BY <2>9 DEF In, Filling, Typed, Jobs, Shaped, Fits
    <3> QED
      BY <3>2, <3>3 DEF Offers
  <2>10. ASSUME NEW v \in Worker
         PROVE  /\ In(v, Filling)' => content'[job'[v].obj] \subseteq On'
                /\ In(v, {"apply"})' => job'[v].todo \subseteq On'
    <3>1. CASE v = w
      BY <2>7, <3>1 DEF OffersOf
    <3>2. CASE v # w
      BY <2>1, <2>9, <3>2 DEF In
    <3> QED
      BY <3>1, <3>2
  <2>11. \A g \in Collection : object'[g] # None => content'[object'[g]] \subseteq On' \cup Leaving'
    BY <2>7, <2>8 DEF OffersOf
  <2> QED
    BY <2>4, <2>10, <2>11 DEF Offers
<1>2. CASE Restart
  <2>1. /\ UNCHANGED <<servers, rows, group>> /\ \A w \in Worker : job'[w] = None
        /\ instances' = {t \in Tool : rows[t] = "on" /\ Owner[t] \in servers}
        /\ \A g \in Collection : object'[g] # None <=> group[g] # None
        /\ \A g \in Live : content'[object'[g]] = ServedAtStart(g, instances')
    BY <1>2, RestartDoes DEF database
  <2>2. \A g \in Live : ServedAtStart(g, instances') \subseteq instances'
    BY DEF ServedAtStart
  <2>3. \A t \in Tool : rows[t] = "on" => rows[t] # None
    BY NoneAssumption
  <2>4. instances' = On'
    BY <2>1, <2>3 DEF RowsOK, On
  <2>5. RowsOK'
    BY <2>1, <2>4 DEF RowsOK, In, On
  <2>6. Offers'
    BY <2>1, <2>2, <2>4 DEF Offers, In, Live
  <2> QED
    BY <2>5, <2>6
<1>3. CASE (\E g \in Collection : ConnectSse(g)) \/ UNCHANGED vars
  <2>1. UNCHANGED <<servers, rows, instances, object, content, job>>
    BY <1>3, ConnectSseDoes DEF vars, database, memory
  <2> QED
    BY <2>1 DEF RowsOK, Offers, Leaving, Dropping, In, On
<1> QED
  BY <1>1, <1>2, <1>3 DEF Next, Acts

\* A tool that is disabled or gone is offered through no collection while no
\* request is under way, whatever failed before: handleToolDeletion
\* (toolcollection.go:417) takes it out of every endpoint, and nothing that
\* fills one adds a tool the proxy does not have.  The requests for collections
\* may overlap one another, but not a change of the tools.
THEOREM DisabledStayHidden == Spec /\ []ToolsAlone => []HidesDisabled
<1>1. Init => RowsOK /\ Offers
  <2>1. ASSUME Init PROVE On = {}
    BY <2>1, NoneAssumption DEF Init, On
  <2> QED
    BY <2>1 DEF Init, RowsOK, Offers, In
<1>2. Typed /\ ToolsAlone /\ ToolsAlone' /\ RowsOK /\ Offers /\ [Next]_vars => RowsOK' /\ Offers'
  BY ToolsNext
<1>3. Offers => HidesDisabled
  BY DEF Offers, HidesDisabled, Idle, On, Leaving, Dropping, In
<1> QED
  BY <1>1, <1>2, <1>3, TypedInvariant, PTL DEF Spec

------------------------------------------------------------------------------
(* The map of endpoints and the table.                                       *)

\* A handler is between the table and the map.
Between(g) == \E w \in Worker : In(w, {"attach", "erase"}) /\ job[w].coll = g

\* An endpoint belongs to a stored collection, and unless a call has failed a
\* stored collection has an endpoint, but for those whose handler is just
\* between the table and the map.
Ends ==
    /\ \A g \in Collection : object[g] # None => group[g] # None
    /\ ~failed => \A g \in Collection : group[g] # None => object[g] # None \/ Between(g)
    /\ \A w \in Worker : In(w, {"attach"}) => group[job[w].coll] # None
    /\ \A w \in Worker : In(w, {"erase"}) => object[job[w].coll] = None

\* Handlers between the table and the map work on collections.
LEMMA BetweenAt ==
    ASSUME Typed, NEW v \in Worker, In(v, {"attach", "erase"})
    PROVE  job[v].coll \in Collection
BY JobAt DEF In, Typed, Jobs, Shaped, Fits

LEMMA EndsKept ==
    ASSUME Typed, NEW w \in Worker, Ends, UNCHANGED <<object, failed>>, OthersKeep(w),
           \A g \in Collection : group'[g] # None <=> group[g] # None,
           ~In(w, {"attach", "erase"}),
           job'[w] = None \/ job'[w].pc \notin {"attach", "erase"}
    PROVE  Ends'
<1>1. ASSUME NEW v \in Worker, In(v, {"attach", "erase"})' \/ In(v, {"attach", "erase"})
      PROVE  job'[v] = job[v] /\ job[v].coll \in Collection
  <2>1. job'[v] = job[v]
    BY <1>1 DEF OthersKeep, In
  <2> QED
    BY <1>1, <2>1, BetweenAt DEF In
<1>2. \A v \in Worker : job'[v] = job[v] => (In(v, {"attach"})' <=> In(v, {"attach"}))
                                            /\ (In(v, {"erase"})' <=> In(v, {"erase"}))
  BY DEF In
<1>3. \A g \in Collection : Between(g) => Between(g)'
  BY <1>1, <1>2 DEF Between, In
<1> QED
  BY <1>1, <1>2, <1>3 DEF Ends, In

\* Steps that neither go between the table and the map nor leave.
LEMMA EndsAside ==
    ASSUME Typed, NEW w \in Worker, Ends, UNCHANGED <<object, failed>>, OthersKeep(w),
           group' = group,
           job[w] = None \/ job[w].pc \notin {"attach", "erase"},
           job'[w] = None \/ job'[w].pc \notin {"attach", "erase"}
    PROVE  Ends'
BY EndsKept DEF In

LEMMA EndsStep ==
    ASSUME Typed, OneEach, Ends, NEW w \in Worker, Acts(w)
    PROVE  Ends'
<1> USE DEF database, memory
<1>0. /\ \A g \in Collection : group[g] # None => group[g] \in AllConfig
      /\ \A c \in AllConfig : c # None
      /\ \A o \in Object : o # None
  BY NoneAssumption DEF Typed, TablesTyped
<1>a. OthersKeep(w)
  BY OneActs
<1>b. ASSUME NEW v \in Worker, v # w, In(v, {"attach", "erase"})'
      PROVE  /\ job'[v] = job[v] /\ In(v, {"attach", "erase"}) /\ job[v].coll \in Collection
             /\ job[w] # None => job[v].coll # job[w].coll
  <2>1. job'[v] = job[v] /\ In(v, {"attach", "erase"})
    BY <1>a, <1>b DEF OthersKeep, In
  <2> QED
    BY <1>b, <2>1, BetweenAt DEF OneEach, In
<1>c. ASSUME NEW g \in Collection, job[w] # None, job[w].coll # g, Between(g) PROVE Between(g)'
  BY <1>a, <1>c DEF Between, OthersKeep, In
<1>1. ASSUME NEW g \in Collection, NEW c \in Config, Create(w, g, c) \/ Update(w, g, c)
      PROVE  Ends'
  BY <1>1, <1>a, EndsAside, CreateDoes, UpdateDoes DEF Still
<1>2. ASSUME NEW g \in Collection, Delete(w, g)
      PROVE  Ends'
  BY <1>2, <1>a, EndsAside, DeleteDoes DEF Still
<1>3. CASE Resolve(w) \/ FillOne(w) \/ Apply(w)
  BY <1>3, <1>a, EndsAside, ResolveDoes, FillOneDoes, ApplyDoes DEF At
<1>4. CASE Filled(w) \/ Compare(w)
  BY <1>4, <1>a, EndsAside, FilledDoes, CompareDoes DEF Still, At
<1>5. CASE Insert(w)
  <2>1. job[w] # None /\ job[w].pc = "insert" /\ UNCHANGED <<object, failed>>
    BY <1>5, InsertDoes DEF At
  <2>2. CASE job'[w] = None /\ group' = group
    BY <1>a, <2>1, <2>2, EndsAside
  <2>3. CASE ~(job'[w] = None /\ group' = group)
    <3>1. /\ group' = [group EXCEPT ![job[w].coll] = job[w].cfg]
          /\ job'[w].pc = "attach" /\ job'[w].coll = job[w].coll /\ job'[w] # None
      BY <1>5, <2>3, InsertDoes, JobFields DEF Carries
    <3>2. job[w].coll \in Collection /\ job[w].cfg \in AllConfig
      BY <2>1, JobAt, ConfigAssumption DEF At, Typed, Shaped, Fits
    <3>3. \A g \in Collection : group'[g] = IF g = job[w].coll THEN job[w].cfg ELSE group[g]
      BY <3>1, <3>2 DEF Typed, TablesTyped
    <3>4. Between(job[w].coll)'
      BY <3>1 DEF Between, In
    <3>5. ASSUME NEW v \in Worker, In(v, {"attach"})' PROVE group'[job'[v].coll] # None
      BY <1>0, <1>b, <2>1, <3>1, <3>2, <3>3, <3>5 DEF Ends, In
    <3>6. ASSUME NEW v \in Worker, In(v, {"erase"})' PROVE object'[job'[v].coll] = None
      BY <1>b, <2>1, <3>1, <3>6 DEF Ends, In
    <3>7. \A g \in Collection : object'[g] # None => group'[g] # None
      BY <1>0, <2>1, <3>2, <3>3 DEF Ends
    <3>8. ASSUME ~failed', NEW g \in Collection, group'[g] # None
          PROVE  object'[g] # None \/ Between(g)'
      BY <1>c, <2>1, <3>1, <3>2, <3>3, <3>4, <3>8 DEF Ends
    <3> QED
      BY <3>5, <3>6, <3>7, <3>8 DEF Ends
  <2> QED
    BY <2>2, <2>3
<1>6. CASE Attach(w)
  <2>1. /\ job[w] # None /\ job[w].pc = "attach" /\ UNCHANGED <<group, failed>>
        /\ job'[w] = None /\ object' = [object EXCEPT ![job[w].coll] = job[w].obj]
    BY <1>6, AttachDoes DEF At
  <2>2. job[w].coll \in Collection /\ job[w].obj \in Object
    BY <2>1, JobAt DEF At, Typed, Shaped, Fits
  <2>3. \A g \in Collection : object'[g] = IF g = job[w].coll THEN job[w].obj ELSE object[g]
    BY <2>1, <2>2 DEF Typed, MemoryTyped
  <2>4. ASSUME NEW v \in Worker, In(v, {"attach"})' PROVE group'[job'[v].coll] # None
    BY <1>b, <2>1, <2>4 DEF Ends, In
  <2>5. ASSUME NEW v \in Worker, In(v, {"erase"})' PROVE object'[job'[v].coll] = None
    BY <1>b, <2>1, <2>3, <2>5 DEF Ends, In
  <2>6. \A g \in Collection : object'[g] # None => group'[g] # None
    BY <2>1, <2>3 DEF Ends, In
  <2>7. ASSUME ~failed', NEW g \in Collection, group'[g] # None
        PROVE  object'[g] # None \/ Between(g)'
    BY <1>0, <1>c, <2>1, <2>2, <2>3, <2>7 DEF Ends
  <2> QED
    BY <2>4, <2>5, <2>6, <2>7 DEF Ends
<1>7. CASE Store(w)
  <2>1. /\ job[w] # None /\ job[w].pc = "store" /\ UNCHANGED <<object, failed>> /\ job'[w] = None
        /\ job[w].coll \in Collection /\ job[w].cfg \in AllConfig
        /\ \/ group' = group
           \/ /\ group[job[w].coll] # None
              /\ group' = [group EXCEPT ![job[w].coll] =
                             Overwrite(group[job[w].coll], job[w].cfg)]
    BY <1>7, StoreDoes, ConfigAssumption DEF At
  <2>2. group[job[w].coll] # None => Overwrite(group[job[w].coll], job[w].cfg) \in AllConfig
    BY <1>0, <2>1, OverwriteType
  <2>3. \A g \in Collection : group'[g] # None <=> group[g] # None
    BY <1>0, <2>1, <2>2 DEF Typed, TablesTyped
  <2> QED
    BY <1>a, <2>1, <2>3, EndsKept DEF In
<1>8. CASE Detach(w)
  <2>1. /\ job[w] # None /\ job[w].pc = "detach" /\ UNCHANGED <<group, failed>>
        /\ job[w].coll \in Collection /\ object' = [object EXCEPT ![job[w].coll] = None]
        /\ job'[w] # None /\ job'[w].pc = "erase" /\ job'[w].coll = job[w].coll
    BY <1>8, DetachDoes, JobFields DEF At, Carries
  <2>2. \A g \in Collection : object'[g] = IF g = job[w].coll THEN None ELSE object[g]
    BY <2>1 DEF Typed, MemoryTyped
  <2>3. Between(job[w].coll)'
    BY <2>1 DEF Between, In
  <2>4. ASSUME NEW v \in Worker, In(v, {"attach"})' PROVE group'[job'[v].coll] # None
    BY <1>b, <2>1, <2>4 DEF Ends, In
  <2>5. ASSUME NEW v \in Worker, In(v, {"erase"})' PROVE object'[job'[v].coll] = None
    BY <1>b, <2>1, <2>2, <2>5 DEF Ends, In
  <2>6. \A g \in Collection : object'[g] # None => group'[g] # None
    BY <2>1, <2>2 DEF Ends
  <2>7. ASSUME ~failed', NEW g \in Collection, group'[g] # None
        PROVE  object'[g] # None \/ Between(g)'
    BY <1>c, <2>1, <2>2, <2>3, <2>7 DEF Ends
  <2> QED
    BY <2>4, <2>5, <2>6, <2>7 DEF Ends
<1>9. CASE Erase(w)
  <2>1. /\ job[w] # None /\ job[w].pc = "erase" /\ UNCHANGED <<object, failed>> /\ job'[w] = None
        /\ job[w].coll \in Collection /\ group' = [group EXCEPT ![job[w].coll] = None]
    BY <1>9, EraseDoes DEF At
  <2>2. \A g \in Collection : group'[g] = IF g = job[w].coll THEN None ELSE group[g]
    BY <2>1 DEF Typed, TablesTyped
  <2>4. ASSUME NEW v \in Worker, In(v, {"attach"})' PROVE group'[job'[v].coll] # None
    BY <1>b, <2>1, <2>2, <2>4 DEF Ends, In
  <2>5. ASSUME NEW v \in Worker, In(v, {"erase"})' PROVE object'[job'[v].coll] = None
    BY <1>b, <2>1, <2>5 DEF Ends, In
  <2>6. \A g \in Collection : object'[g] # None => group'[g] # None
    BY <2>1, <2>2 DEF Ends, In
  <2>7. ASSUME ~failed', NEW g \in Collection, group'[g] # None
        PROVE  object'[g] # None \/ Between(g)'
    BY <1>c, <2>1, <2>2, <2>7 DEF Ends
  <2> QED
    BY <2>4, <2>5, <2>6, <2>7 DEF Ends
<1>10. ASSUME \/ \E s \in Server : Register(w, s) \/ Deregister(w, s)
              \/ \E t \in Tool : Enable(w, t) \/ Disable(w, t)
       PROVE  Ends'
  <2>1. /\ job[w] = None /\ UNCHANGED <<group, object, failed>>
        /\ job'[w].pc \in {"expose", "hide"}
    BY <1>10, RegisterDoes, DeregisterDoes, EnableDoes, DisableDoes
  <2> QED
    BY <1>a, <2>1, EndsAside
<1>11. CASE Expose(w) \/ Spread(w) \/ Hide(w) \/ Forget(w)
  <2>1. /\ job[w] # None /\ UNCHANGED <<group, object, failed>>
        /\ job[w].pc \in {"expose", "spread", "hide", "forget"}
        /\ job'[w] = None \/ job'[w].pc \in {"collect", "expose", "forget", "deregister"}
    BY <1>11, ExposeDoes, SpreadDoes, HideDoes, ForgetDoes DEF At
  <2> QED
    BY <1>a, <2>1, EndsAside
<1>12. CASE Exposed(w) \/ Collect(w) \/ DropServer(w)
  <2>1. /\ job[w] # None /\ UNCHANGED <<group, object, failed>>
        /\ job[w].pc \in {"expose", "collect", "deregister"}
        /\ job'[w] = None \/ job'[w].pc \in {"spread", "expose"}
    BY <1>12, ExposedDoes, CollectDoes, DropServerDoes DEF At, Still
  <2> QED
    BY <1>a, <2>1, EndsAside
<1>13. CASE Fail(w)
  <2>1. /\ job[w] # None /\ UNCHANGED <<group, object>> /\ failed' = TRUE
        /\ job[w].pc # "attach"
        /\ job'[w] = None \/ job'[w].pc = "expose"
    BY <1>13, FailDoes DEF At
  <2> QED
    BY <1>b, <2>1 DEF Ends, In
<1> QED
  BY <1>1, <1>2, <1>3, <1>4, <1>5, <1>6, <1>7, <1>8, <1>9, <1>10, <1>11, <1>12, <1>13
     DEF Acts, Arrive, Step

LEMMA EndsNext ==
    ASSUME Typed, OneEach, Ends, [Next]_vars
    PROVE  Ends'
<1>1. ASSUME NEW w \in Worker, Acts(w) PROVE Ends'
  BY <1>1, EndsStep
<1>2. CASE Restart
  <2>1. /\ UNCHANGED group /\ \A w \in Worker : job'[w] = None
        /\ \A g \in Collection : object'[g] # None <=> group[g] # None
    BY <1>2, RestartDoes DEF database
  <2> QED
    BY <2>1 DEF Ends, In
<1>3. CASE (\E g \in Collection : ConnectSse(g)) \/ UNCHANGED vars
  <2>1. UNCHANGED <<group, object, job, failed>>
    BY <1>3, ConnectSseDoes DEF vars, database
  <2> QED
    BY <2>1 DEF Ends, Between, In
<1> QED
  BY <1>1, <1>2, <1>3 DEF Next, Acts

\* While no request is under way every endpoint belongs to a stored collection,
\* and unless a call to the database has failed since the start every stored
\* collection has its endpoint: create and delete keep the map and the table
\* together (toolcollection.go:125-131, 272-280), over restarts too, as long as
\* nobody deletes a collection that is still being created.
THEOREM EndpointsAndRows == Spec /\ []OneEach => []EndpointsStored
<1>1. Init => Ends
  BY DEF Init, Ends, In
<1>2. Typed /\ OneEach /\ Ends /\ [Next]_vars => Ends'
  BY EndsNext
<1>3. Ends => EndpointsStored
  BY DEF Ends, Between, EndpointsStored, Idle, In
<1> QED
  BY <1>1, <1>2, <1>3, TypedInvariant, PTL DEF Spec

------------------------------------------------------------------------------
(* What the endpoints offer, against the configurations.                     *)

\* Every endpoint has an in-memory server of its own, one that w fills is
\* nobody's yet, and an update by w works on that of its collection.
OwnOf(w) ==
    /\ \A g, h \in Collection : object[g] # None /\ object[g] = object[h] => g = h
    /\ In(w, Filling) => \A g \in Collection : object[g] # job[w].obj
    /\ In(w, {"apply", "store"}) => object[job[w].coll] = job[w].obj

LEMMA OwnKept ==
    ASSUME NEW w \in Worker, OwnOf(w), UNCHANGED object,
           \/ job'[w] = None
           \/ job'[w].pc \notin Filling \cup {"apply", "store"}
           \/ In(w, Filling) /\ job'[w].pc \in Filling /\ job'[w].obj = job[w].obj
           \/ /\ In(w, {"apply"}) /\ job'[w].pc = "store"
              /\ job'[w].obj = job[w].obj /\ job'[w].coll = job[w].coll
    PROVE  OwnOf(w)'
BY DEF OwnOf, In, Filling

LEMMA OwnStep ==
    ASSUME Typed, NEW w \in Worker, OwnOf(w), Acts(w)
    PROVE  OwnOf(w)'
<1> USE DEF database, memory
<1>1. ASSUME NEW g \in Collection, NEW c \in Config, Create(w, g, c) \/ Update(w, g, c)
      PROVE  OwnOf(w)'
  BY <1>1, OwnKept, CreateDoes, UpdateDoes DEF Still, Filling
<1>2. ASSUME NEW g \in Collection, Delete(w, g)
      PROVE  OwnOf(w)'
  BY <1>2, OwnKept, DeleteDoes DEF Still, Filling
<1>3. CASE Resolve(w)
  <2>1. CASE job'[w] = None
    BY <1>3, <2>1, OwnKept, ResolveDoes
  <2>2. CASE job'[w] # None
    <3>1. /\ UNCHANGED object /\ job'[w].pc = "fill" /\ job'[w].obj \notin Alive
      BY <1>3, <2>2, ResolveDoes
    <3>2. \A g \in Collection : object[g] # job'[w].obj
      BY <3>1 DEF Alive
    <3> QED
      BY <3>1, <3>2 DEF OwnOf, In, Filling
  <2> QED
    BY <2>1, <2>2
<1>4. CASE FillOne(w) \/ Filled(w) \/ Insert(w)
  <2>1. /\ UNCHANGED object /\ In(w, Filling)
        /\ job'[w] = None \/ (job'[w].pc \in Filling /\ job'[w].obj = job[w].obj)
    BY <1>4, FillOneDoes, FilledDoes, InsertDoes DEF Still, Carries, At, In, Filling
  <2> QED
    BY <2>1, OwnKept
<1>5. CASE Attach(w)
  <2>1. /\ job[w] # None /\ job[w].pc = "attach"
        /\ job'[w] = None /\ object' = [object EXCEPT ![job[w].coll] = job[w].obj]
    BY <1>5, AttachDoes DEF At
  <2>2. job[w].coll \in Collection
    BY <2>1, JobAt DEF At, Typed, Shaped, Fits
  <2>3. \A g \in Collection : object'[g] = IF g = job[w].coll THEN job[w].obj ELSE object[g]
    BY <2>1, <2>2 DEF Typed, MemoryTyped
  <2> QED
    BY <2>1, <2>2, <2>3 DEF OwnOf, In, Filling
<1>6. CASE Compare(w)
  <2>1. CASE job'[w] = None
    BY <1>6, <2>1, OwnKept, CompareDoes DEF Still
  <2>2. CASE job'[w] # None
    <3>1. /\ UNCHANGED object /\ job'[w].pc = "apply"
          /\ job'[w].coll = job[w].coll /\ job'[w].obj = object[job[w].coll]
      BY <1>6, <2>2, CompareDoes DEF Still
    <3> QED
      BY <3>1 DEF OwnOf, In, Filling
  <2> QED
    BY <2>1, <2>2
<1>7. CASE Apply(w) \/ Store(w)
  <2>1. /\ UNCHANGED object
        /\ \/ job'[w] = None
           \/ /\ In(w, {"apply"}) /\ job'[w].pc = "store"
              /\ job'[w].obj = job[w].obj /\ job'[w].coll = job[w].coll
    BY <1>7, ApplyDoes, StoreDoes DEF Carries, At, In
  <2> QED
    BY <2>1, OwnKept
<1>8. CASE Detach(w)
  <2>1. job'[w].pc = "erase" /\ \A g \in Collection : object'[g] \in {object[g], None}
    BY <1>8, DetachDoes DEF Typed, MemoryTyped
  <2> QED
    BY <2>1 DEF OwnOf, In, Filling
<1>9. CASE Erase(w) \/ DropServer(w)
  BY <1>9, OwnKept, EraseDoes, DropServerDoes
<1>10. ASSUME \/ \E s \in Server : Register(w, s) \/ Deregister(w, s)
              \/ \E t \in Tool : Enable(w, t) \/ Disable(w, t)
       PROVE  OwnOf(w)'
  <2>1. UNCHANGED object /\ job'[w].pc \in {"expose", "hide"}
    BY <1>10, RegisterDoes, DeregisterDoes, EnableDoes, DisableDoes
  <2> QED
    BY <2>1, OwnKept DEF Filling
<1>11. CASE Expose(w) \/ Spread(w) \/ Hide(w) \/ Forget(w)
  <2>1. /\ UNCHANGED object
        /\ job'[w] = None \/ job'[w].pc \in {"collect", "expose", "forget", "deregister"}
    BY <1>11, ExposeDoes, SpreadDoes, HideDoes, ForgetDoes
  <2> QED
    BY <2>1, OwnKept DEF Filling
<1>12. CASE Exposed(w) \/ Collect(w) \/ Fail(w)
  <2>1. UNCHANGED object /\ (job'[w] = None \/ job'[w].pc \in {"spread", "expose"})
    BY <1>12, ExposedDoes, CollectDoes, FailDoes DEF Still
  <2> QED
    BY <2>1, OwnKept DEF Filling
<1> QED
  BY <1>1, <1>2, <1>3, <1>4, <1>5, <1>6, <1>7, <1>8, <1>9, <1>10, <1>11, <1>12
     DEF Acts, Arrive, Step

\* Effective, over given rows.
Selected(r, c) ==
    {t \in Tool : (t \in c.tools \/ (Owner[t] \in c.servers /\ r[t] # None)) /\ t \notin c.excluded}

LEMMA EffectiveIsSelected ==
    ASSUME NEW c \in AllConfig
    PROVE  Effective(c) = Selected(rows, c)
<1>1. c.tools \subseteq Tool /\ c.servers \subseteq Server
  BY DEF AllConfig
<1>2. ASSUME NEW t PROVE t \in Effective(c) <=> t \in Selected(rows, c)
  BY <1>1 DEF Effective, Selected, ToolsOf
<1> QED
  BY <1>2

\* The collections that no other handler than w is about to store.
Free(w) == {g \in Collection : \A v \in Worker \ {w} : ~(In(v, {"store"}) /\ job[v].coll = g)}

\* The configuration the endpoint of g follows, as far as w has to do with it:
\* an update changes the endpoint before the row.
Due(w, g) == IF In(w, {"store"}) /\ job[w].coll = g THEN job[w].cfg ELSE group[g]

\* What w has in hand.  A server being filled ends with exactly the selection,
\* an update makes the difference between two.
Prepared(w) ==
    /\ In(w, {"fill"}) =>
          content[job[w].obj] \cup job[w].todo = Selected(rows, job[w].cfg)
    /\ In(w, {"insert", "attach"}) => content[job[w].obj] = Selected(rows, job[w].cfg)
    /\ In(w, {"attach"}) => group[job[w].coll] = job[w].cfg
    /\ In(w, {"apply"}) =>
          /\ job[w].todo = Selected(rows, job[w].cfg) \ Selected(rows, group[job[w].coll])
          /\ job[w].drop = Selected(rows, group[job[w].coll]) \ Selected(rows, job[w].cfg)
    /\ In(w, {"spread"}) => \A g \in job[w].names :
          group[g] # None /\ job[w].tool \in Selected(rows, group[g])

\* Unless a call has failed an endpoint offers tools its configuration selects,
\* but for tools on their way out.
InsideOf(w) ==
    /\ \A g \in Collection : group[g] # None => group[g] \in Config
    /\ ~failed => \A g \in Free(w) : object[g] # None =>
          content[object[g]] \subseteq Selected(rows, Due(w, g)) \cup Dropping(w)
    /\ Prepared(w)

\* Nobody else begins or ends to store while w acts.
LEMMA FreeKeeps ==
    ASSUME Typed, OneEach, NEW w \in Worker, Acts(w)
    PROVE  /\ Free(w)' = Free(w) /\ Free(w) \subseteq Collection
           /\ job[w] # None /\ job[w].coll \in Collection => job[w].coll \in Free(w)
<1>1. OthersKeep(w)
  BY OneActs
<1>2. \A v \in Worker \ {w} : In(v, {"store"})' = In(v, {"store"})
  BY <1>1 DEF OthersKeep, In
<1> QED
  BY <1>1, <1>2 DEF Free, OthersKeep, OneEach, In

\* The steps in which a handler has no business with any of this.
LEMMA InsideKept ==
    ASSUME NEW w \in Worker, InsideOf(w), UNCHANGED <<group, object, content>>, Free(w)' = Free(w),
           \A c \in AllConfig : Selected(rows, c) \subseteq Selected(rows', c),
           \A g \in Collection : object[g] # None => group[g] # None,
           failed' = failed \/ failed' = TRUE,
           \/ failed' = TRUE
           \/ ~In(w, {"store", "hide", "forget"}),
           \/ job'[w] = None
           \/ job'[w].pc \notin Filling \cup {"apply", "store", "spread", "hide", "forget"}
    PROVE  InsideOf(w)'
<1>1. ASSUME ~failed', NEW g \in Free(w), object'[g] # None
      PROVE  content'[object'[g]] \subseteq Selected(rows', Due(w, g)') \cup Dropping(w)'
  <2>1. /\ content[object[g]] \subseteq Selected(rows, group[g]) /\ group[g] \in AllConfig
    BY <1>1, ConfigAssumption DEF InsideOf, Prepared, Due, Dropping, In, Free
  <2>2. Due(w, g)' = group[g]
    BY DEF Due, In
  <2>3. Selected(rows, group[g]) \subseteq Selected(rows', group[g])
    BY <2>1
  <2> QED
    BY <1>1, <2>1, <2>2, <2>3
<1>2. \A g \in Collection : group'[g] # None => group'[g] \in Config
  BY DEF InsideOf, Prepared
<1>3. ~In(w, Filling \cup {"apply", "store", "spread"})'
  BY DEF In
<1> QED
  BY <1>1, <1>2, <1>3 DEF InsideOf, Prepared, In, Filling

LEMMA InsideStep ==
    ASSUME \A c, d \in Config : Overwrite(c, d) = d,
           Typed, OneEach, Ends, NEW w \in Worker, OwnOf(w), InsideOf(w), Acts(w)
    PROVE  InsideOf(w)'
<1> USE DEF database, memory
<1>0. /\ \A g \in Collection : object[g] # None => object[g] \in Object /\ group[g] # None
      /\ \A g \in Collection : group[g] # None => group[g] \in Config /\ group[g] \in AllConfig
      /\ content \in [Object -> SUBSET Tool] /\ None \notin Config
  BY ConfigAssumption, NoneAssumption DEF Typed, MemoryTyped, TablesTyped, InsideOf, Prepared, Ends
<1>f. /\ Free(w)' = Free(w) /\ Free(w) \subseteq Collection
      /\ job[w] # None /\ job[w].coll \in Collection => job[w].coll \in Free(w)
  BY FreeKeeps
<1>k. ASSUME UNCHANGED <<group, object, content, failed>>, rows' = rows,
             ~In(w, {"store", "hide", "forget"}),
             \/ job'[w] = None
             \/ job'[w].pc \notin Filling \cup {"apply", "store", "spread", "hide", "forget"}
      PROVE  InsideOf(w)'
  BY <1>0, <1>k, <1>f, InsideKept DEF Selected
<1>1. ASSUME NEW g \in Collection, NEW c \in Config, Create(w, g, c) \/ Update(w, g, c)
      PROVE  InsideOf(w)'
  BY <1>1, <1>k, CreateDoes, UpdateDoes DEF Still, In, Filling
<1>2. ASSUME NEW g \in Collection, Delete(w, g)
      PROVE  InsideOf(w)'
  BY <1>2, <1>k, DeleteDoes DEF Still, In, Filling
<1>3. CASE Resolve(w)
  <2>1. CASE job'[w] = None /\ content' = content
    BY <1>3, <2>1, <1>k, ResolveDoes DEF At, In
  <2>2. CASE ~(job'[w] = None /\ content' = content)
    <3>1. /\ job[w] # None /\ job[w].pc = "resolve" /\ job[w].cfg \in AllConfig
          /\ UNCHANGED <<rows, group, object, failed>>
          /\ job'[w] # None /\ job'[w].pc = "fill" /\ job'[w].cfg = job[w].cfg
          /\ job'[w].obj \in Object \ Alive
          /\ job'[w].todo = Effective(job[w].cfg)
          /\ content' = [content EXCEPT ![job'[w].obj] = {}]
      BY <1>3, <2>2, ResolveDoes, JobFields, JobAt, ConfigAssumption DEF At, Typed, Shaped, Fits
    <3>2. \A g \in Collection : object[g] # job'[w].obj
      BY <3>1 DEF Alive
    <3>3. job'[w].todo = Selected(rows, job[w].cfg)
      BY <3>1, EffectiveIsSelected
    <3>4. content'[job'[w].obj] = {}
      BY <1>0, <3>1
    <3>5. \A g \in Collection : object[g] # None => content'[object[g]] = content[object[g]]
      BY <1>0, <3>1, <3>2
    <3> QED
      BY <1>f, <3>1, <3>3, <3>4, <3>5 DEF InsideOf, Prepared, In, Due, Dropping
  <2> QED
    BY <2>1, <2>2
<1>4. CASE FillOne(w)
  <2>1. CASE job'[w] = None /\ content' = content
    BY <1>4, <2>1, <1>k, FillOneDoes DEF At, In
  <2>2. CASE ~(job'[w] = None /\ content' = content)
    <3>1. PICK t \in job[w].todo :
            /\ job'[w] \in Job /\ job'[w].pc = "fill" /\ job'[w].cfg = job[w].cfg
            /\ job'[w].obj = job[w].obj /\ job'[w].todo = job[w].todo \ {t}
            /\ content' = [content EXCEPT ![job[w].obj] = @ \cup {t}]
      BY <1>4, <2>2, FillOneDoes
    <3>2. /\ job[w] # None /\ job[w].pc = "fill" /\ job[w].obj \in Object
          /\ UNCHANGED <<rows, group, object, failed>>
      BY <1>4, FillOneDoes, JobAt DEF At, Typed, Shaped, Fits
    <3>3. \A g \in Collection : object[g] # job[w].obj
      BY <3>2 DEF OwnOf, In, Filling
    <3>4. content'[job[w].obj] = content[job[w].obj] \cup {t}
      BY <1>0, <3>1, <3>2
    <3>5. \A g \in Collection : object[g] # None => content'[object[g]] = content[object[g]]
      BY <1>0, <3>1, <3>3
    <3>6. content'[job'[w].obj] \cup job'[w].todo = Selected(rows, job[w].cfg)
      BY <1>f, <3>1, <3>2, <3>4 DEF InsideOf, Prepared, In
    <3> QED
      BY <1>f, <3>1, <3>2, <3>5, <3>6 DEF InsideOf, Prepared, In, Due, Dropping
  <2> QED
    BY <2>1, <2>2
<1>5. CASE Filled(w)
  <2>1. /\ job[w] # None /\ job[w].pc = "fill" /\ job[w].todo = {}
        /\ UNCHANGED <<rows, group, object, content, failed>>
        /\ job'[w] # None /\ job'[w].pc = "insert" /\ Carries(job[w], job'[w])
    BY <1>5, FilledDoes, JobFields DEF At, Still
  <2> QED
    BY <1>f, <2>1 DEF InsideOf, Prepared, In, Due, Dropping, Carries
<1>6. CASE Insert(w)
  <2>1. /\ job[w] # None /\ job[w].pc = "insert" /\ UNCHANGED <<rows, object, content, failed>>
        /\ job[w].coll \in Collection /\ job[w].cfg \in Config
    BY <1>6, InsertDoes, JobAt DEF At, Typed, Shaped, Fits
  <2>2. CASE job'[w] = None /\ group' = group
    BY <2>1, <2>2, <1>k DEF In
  <2>3. CASE ~(job'[w] = None /\ group' = group)
    <3>1. /\ group[job[w].coll] = None
          /\ group' = [group EXCEPT ![job[w].coll] = job[w].cfg]
          /\ job'[w] # None /\ job'[w].pc = "attach" /\ Carries(job[w], job'[w])
      BY <1>6, <2>3, InsertDoes, JobFields
    <3>2. \A g \in Collection : group'[g] = IF g = job[w].coll THEN job[w].cfg ELSE group[g]
      BY <2>1, <3>1 DEF Typed, TablesTyped
    <3>3. object[job[w].coll] = None
      BY <1>0, <2>1, <3>1
    <3> QED
      BY <1>f, <2>1, <3>1, <3>2, <3>3 DEF InsideOf, Prepared, In, Due, Dropping, Carries
  <2> QED
    BY <2>2, <2>3
<1>7. CASE Attach(w)
  <2>1. /\ job[w] # None /\ job[w].pc = "attach" /\ UNCHANGED <<rows, group, content, failed>>
        /\ job'[w] = None /\ object' = [object EXCEPT ![job[w].coll] = job[w].obj]
        /\ job[w].coll \in Collection
    BY <1>7, AttachDoes, JobAt DEF At, Typed, Shaped, Fits
  <2>2. \A g \in Collection : object'[g] = IF g = job[w].coll THEN job[w].obj ELSE object[g]
    BY <2>1 DEF Typed, MemoryTyped
  <2>3. /\ content[job[w].obj] = Selected(rows, job[w].cfg) /\ group[job[w].coll] = job[w].cfg
    BY <1>f, <2>1 DEF InsideOf, Prepared, In
  <2> QED
    BY <1>f, <2>1, <2>2, <2>3 DEF InsideOf, Prepared, In, Due, Dropping
<1>8. CASE Compare(w)
  <2>1. CASE job'[w] = None
    BY <1>8, <2>1, <1>k, CompareDoes DEF Still, In, At
  <2>2. CASE job'[w] # None
    <3>1. /\ UNCHANGED <<rows, group, object, content, failed>>
          /\ job[w] # None /\ job[w].pc = "compare"
          /\ job[w].coll \in Collection /\ job[w].cfg \in AllConfig
          /\ group[job[w].coll] # None
          /\ job'[w].pc = "apply" /\ job'[w].coll = job[w].coll /\ job'[w].cfg = job[w].cfg
          /\ job'[w].todo = Effective(job[w].cfg) \ Effective(group[job[w].coll])
          /\ job'[w].drop = Effective(group[job[w].coll]) \ Effective(job[w].cfg)
      BY <1>8, <2>2, CompareDoes, JobAt, ConfigAssumption
         DEF Still, At, Typed, Shaped, Fits, Applicable
    <3>2. /\ Effective(job[w].cfg) = Selected(rows, job[w].cfg)
          /\ Effective(group[job[w].coll]) = Selected(rows, group[job[w].coll])
      BY <1>0, <3>1, EffectiveIsSelected
    <3> QED
      BY <1>f, <2>2, <3>1, <3>2 DEF InsideOf, Prepared, In, Due, Dropping
  <2> QED
    BY <2>1, <2>2
<1>9. CASE Apply(w)
  <2>1. /\ job[w] # None /\ job[w].pc = "apply" /\ UNCHANGED <<rows, group, object, failed>>
        /\ job[w].obj \in Object /\ job[w].coll \in Collection
        /\ content' = [content EXCEPT ![job[w].obj] = (@ \ job[w].drop) \cup job[w].todo]
        /\ job'[w] # None /\ job'[w].pc = "store" /\ Carries(job[w], job'[w])
    BY <1>9, ApplyDoes, JobFields, JobAt DEF At, Typed, Shaped, Fits
  <2> DEFINE old == Selected(rows, group[job[w].coll])
             new == Selected(rows, job[w].cfg)
  <2>2. /\ object[job[w].coll] = job[w].obj
        /\ \A g \in Collection \ {job[w].coll} : object[g] # job[w].obj
        /\ job[w].obj # None
    BY <2>1, NoneAssumption DEF OwnOf, In
  <2>3. /\ \A g \in Collection \ {job[w].coll} :
             object[g] # None => content'[object[g]] = content[object[g]]
        /\ content'[job[w].obj] = (content[job[w].obj] \ job[w].drop) \cup job[w].todo
    BY <1>0, <2>1, <2>2
  <2>4. job[w].todo = new \ old /\ job[w].drop = old \ new
    BY <1>f, <2>1 DEF InsideOf, Prepared, In
  <2>5. ~failed => content[job[w].obj] \subseteq old
    BY <1>f, <2>1, <2>2 DEF InsideOf, Prepared, In, Due, Dropping
  <2>6. ~failed => content'[job[w].obj] \subseteq new
    <3> HIDE DEF old, new
    <3> QED
      BY <2>3, <2>4, <2>5
  <2>7. ASSUME ~failed, NEW g \in Free(w), object[g] # None
        PROVE  content'[object[g]] \subseteq Selected(rows, Due(w, g)')
    <3>1. CASE g = job[w].coll
      BY <2>1, <2>2, <2>6, <2>7, <3>1 DEF Due, In, Carries
    <3>2. CASE g # job[w].coll
      BY <1>f, <2>1, <2>3, <2>7, <3>2 DEF Due, In, Carries, InsideOf, Prepared, Dropping
    <3> QED
      BY <3>1, <3>2
  <2> QED
    BY <1>f, <2>1, <2>7 DEF InsideOf, Prepared, In
<1>10. CASE Store(w)
  <2>1. /\ job[w] # None /\ job[w].pc = "store" /\ UNCHANGED <<rows, object, content, failed>>
        /\ job'[w] = None /\ job[w].coll \in Collection /\ job[w].cfg \in Config
    BY <1>10, StoreDoes DEF At
  <2>2. group[job[w].coll] # None => Overwrite(group[job[w].coll], job[w].cfg) = job[w].cfg
    BY <1>0, <2>1
  <2>3. group' = IF group[job[w].coll] = None THEN group
                 ELSE [group EXCEPT ![job[w].coll] = job[w].cfg]
    BY <1>10, <2>2 DEF Store
  <2>4. \A g \in Collection :
          group'[g] = IF g = job[w].coll /\ group[g] # None THEN job[w].cfg ELSE group[g]
    BY <2>1, <2>3 DEF Typed, TablesTyped
  <2> QED
    BY <1>0, <1>f, <2>1, <2>4 DEF InsideOf, Prepared, In, Due, Dropping
<1>11. CASE Detach(w)
  <2>1. /\ job[w] # None /\ job[w].pc = "detach" /\ UNCHANGED <<rows, group, content, failed>>
        /\ job'[w].pc = "erase" /\ \A g \in Collection : object'[g] \in {object[g], None}
    BY <1>11, DetachDoes DEF At, Typed, MemoryTyped
  <2> QED
    BY <1>f, <2>1 DEF InsideOf, Prepared, In, Due, Dropping
<1>12. CASE Erase(w)
  <2>1. /\ job[w] # None /\ job[w].pc = "erase" /\ UNCHANGED <<rows, object, content, failed>>
        /\ job'[w] = None /\ job[w].coll \in Collection
        /\ group' = [group EXCEPT ![job[w].coll] = None]
    BY <1>12, EraseDoes DEF At
  <2>2. \A g \in Collection : group'[g] = IF g = job[w].coll THEN None ELSE group[g]
    BY <2>1 DEF Typed, TablesTyped
  <2>3. object[job[w].coll] = None
    BY <2>1 DEF Ends, In
  <2> QED
    BY <1>f, <2>1, <2>2, <2>3 DEF InsideOf, Prepared, In, Due, Dropping
<1>13. ASSUME NEW s \in Server, Register(w, s)
       PROVE  InsideOf(w)'
  <2>1. /\ job[w] = None /\ job'[w].pc = "expose" /\ UNCHANGED <<group, object, content, failed>>
        /\ rows' = [t \in Tool |-> IF Owner[t] = s THEN "on" ELSE rows[t]]
    BY <1>13, RegisterDoes
  <2>2. \A c \in AllConfig : Selected(rows, c) \subseteq Selected(rows', c)
    BY <2>1, NoneAssumption DEF Selected
  <2> QED
    BY <1>0, <1>f, <2>1, <2>2, InsideKept DEF In, Filling
<1>14. ASSUME NEW t \in Tool, Enable(w, t)
       PROVE  InsideOf(w)'
  <2>1. /\ job[w] = None /\ job'[w].pc = "expose" /\ UNCHANGED <<group, object, content, failed>>
        /\ \A u \in Tool : rows'[u] = IF u = t THEN "on" ELSE rows[u]
    BY <1>14, EnableDoes DEF Typed, TablesTyped
  <2>2. \A c \in AllConfig : Selected(rows, c) \subseteq Selected(rows', c)
    BY <2>1, NoneAssumption DEF Selected
  <2> QED
    BY <1>0, <1>f, <2>1, <2>2, InsideKept DEF In, Filling
<1>15. CASE Expose(w) \/ Exposed(w)
  <2>1. /\ UNCHANGED <<rows, group, object, content, failed>>
        /\ job[w] # None /\ job[w].pc = "expose" /\ (job'[w] = None \/ job'[w].pc = "collect")
    BY <1>15, ExposeDoes, ExposedDoes DEF At, Still
  <2> QED
    BY <2>1, <1>k DEF In, Filling
<1>16. CASE Collect(w)
  <2>1. /\ UNCHANGED <<rows, group, object, content, failed>>
        /\ job[w] # None /\ job[w].pc = "collect"
    BY <1>16, CollectDoes DEF At, Still
  <2>2. CASE job'[w].pc = "expose"
    BY <2>1, <2>2, <1>k DEF In, Filling
  <2>3. CASE job'[w].pc # "expose"
    <3>1. /\ job'[w].pc = "spread" /\ job'[w].tool = job[w].tool
          /\ job'[w].names = {g \in Collection : /\ group[g] # None
                                                 /\ job[w].tool \in Effective(group[g])}
      BY <1>16, <2>3, CollectDoes
    <3>2. \A g \in Collection : group[g] # None =>
            Effective(group[g]) = Selected(rows, group[g])
      BY <1>0, EffectiveIsSelected
    <3> QED
      BY <1>f, <2>1, <3>1, <3>2 DEF InsideOf, Prepared, In, Due, Dropping, Filling
  <2> QED
    BY <2>2, <2>3
<1>17. CASE Spread(w)
  <2>1. /\ job[w] # None /\ job[w].pc = "spread" /\ UNCHANGED <<rows, group, object, failed>>
        /\ job'[w].pc = "expose" /\ job[w].names \subseteq Collection
        /\ content' = [o \in Object |-> IF \E g \in job[w].names : object[g] = o
                                        THEN content[o] \cup {job[w].tool} ELSE content[o]]
    BY <1>17, SpreadDoes, JobAt, JobFields DEF At, Typed
  <2>2. ASSUME NEW g \in Collection, object[g] # None
        PROVE  \/ content'[object[g]] = content[object[g]]
               \/ /\ content'[object[g]] = content[object[g]] \cup {job[w].tool}
                  /\ job[w].tool \in Selected(rows, group[g])
    <3>1. CASE \E h \in job[w].names : object[h] = object[g]
      <4>1. g \in job[w].names
        BY <2>1, <2>2, <3>1 DEF OwnOf
      <4> QED
        BY <1>0, <1>f, <2>1, <2>2, <3>1, <4>1 DEF InsideOf, Prepared, In
    <3>2. CASE ~\E h \in job[w].names : object[h] = object[g]
      BY <1>0, <2>1, <2>2, <3>2
    <3> QED
      BY <3>1, <3>2
  <2>3. ASSUME ~failed, NEW g \in Free(w), object[g] # None
        PROVE  content'[object[g]] \subseteq Selected(rows, group[g])
    <3>1. content[object[g]] \subseteq Selected(rows, group[g])
      BY <1>f, <2>1, <2>3 DEF InsideOf, Prepared, In, Due, Dropping
    <3> QED
      BY <1>f, <2>2, <2>3, <3>1
  <2> QED
    BY <1>f, <2>1, <2>3 DEF InsideOf, Prepared, In, Due, Filling
<1>18. ASSUME NEW t \in Tool, Disable(w, t)
       PROVE  InsideOf(w)'
  <2>1. /\ job[w] = None /\ job'[w].pc = "hide" /\ UNCHANGED <<group, object, content, failed>>
        /\ rows[t] = "on" /\ \A u \in Tool : rows'[u] = IF u = t THEN "off" ELSE rows[u]
    BY <1>18, DisableDoes DEF Typed, TablesTyped
  <2>2. \A c \in AllConfig : Selected(rows, c) \subseteq Selected(rows', c)
    BY <2>1, NoneAssumption DEF Selected
  <2> QED
    BY <1>0, <1>f, <2>1, <2>2 DEF InsideOf, Prepared, In, Due, Dropping, Filling
<1>19. ASSUME NEW s \in Server, Deregister(w, s)
       PROVE  InsideOf(w)'
  <2>1. /\ job[w] = None /\ UNCHANGED <<group, object, content, failed>>
        /\ job'[w] # None /\ job'[w].pc = "hide" /\ job'[w].drop = ToolsOf(s)
        /\ rows' = [t \in Tool |-> IF Owner[t] = s THEN None ELSE rows[t]]
    BY <1>19, DeregisterDoes, JobFields
  <2>2. \A c \in AllConfig : Selected(rows, c) \subseteq Selected(rows', c) \cup ToolsOf(s)
    BY <2>1 DEF Selected, ToolsOf
  <2> QED
    BY <1>0, <1>f, <2>1, <2>2 DEF InsideOf, Prepared, In, Due, Dropping, Filling
<1>20. CASE Hide(w)
  <2>1. /\ job[w] # None /\ job[w].pc = "hide"
        /\ UNCHANGED <<rows, group, object, content, failed>>
        /\ job'[w] # None /\ job'[w].pc = "forget" /\ Carries(job[w], job'[w])
    BY <1>20, HideDoes, JobFields DEF At
  <2> QED
    BY <1>f, <2>1 DEF InsideOf, Prepared, In, Due, Dropping, Carries, Filling
<1>21. CASE Forget(w)
  <2>1. /\ job[w] # None /\ job[w].pc = "forget" /\ UNCHANGED <<rows, group, object, failed>>
        /\ job'[w] = None \/ job'[w].pc = "deregister"
        /\ content' = [o \in Object |-> IF \E g \in Collection : object[g] = o
                                        THEN content[o] \ job[w].drop ELSE content[o]]
    BY <1>21, ForgetDoes DEF At
  <2>2. \A g \in Collection : object[g] # None =>
          content'[object[g]] = content[object[g]] \ job[w].drop
    BY <1>0, <2>1
  <2>3. ASSUME ~failed, NEW g \in Free(w), object[g] # None
        PROVE  content'[object[g]] \subseteq Selected(rows, group[g])
    <3>1. content[object[g]] \subseteq Selected(rows, group[g]) \cup job[w].drop
      BY <1>f, <2>1, <2>3 DEF InsideOf, Prepared, In, Due, Dropping
    <3> QED
      BY <1>f, <2>2, <2>3, <3>1
  <2> QED
    BY <1>f, <2>1, <2>3 DEF InsideOf, Prepared, In, Due, Filling
<1>22. CASE DropServer(w)
  BY <1>22, <1>k, DropServerDoes DEF At, In
<1>23. CASE Fail(w)
  <2>1. /\ UNCHANGED <<rows, group, object, content>> /\ failed' = TRUE
        /\ job'[w] = None \/ job'[w].pc = "expose"
    BY <1>23, FailDoes
  <2> QED
    BY <1>0, <1>f, <2>1 DEF InsideOf, Prepared, In
<1> QED
  BY <1>1, <1>2, <1>3, <1>4, <1>5, <1>6, <1>7, <1>8, <1>9, <1>10, <1>11, <1>12, <1>13, <1>14,
     <1>15, <1>16, <1>17, <1>18, <1>19, <1>20, <1>21, <1>22, <1>23
     DEF Acts, Arrive, Step

\* The tool the addition callback is about, which endpoints may still lack.
Coming(w) == IF In(w, {"collect", "spread"}) THEN {job[w].tool} ELSE {}

\* Unless a call has failed an endpoint offers every tool of the proxy that its
\* configuration selects, but for the one that is just coming; the callback has
\* chosen every collection that selects it.
FullOf(w) ==
    /\ ~failed => \A g \in Free(w) : object[g] # None =>
          Selected(rows, Due(w, g)) \cap instances \subseteq content[object[g]] \cup Coming(w)
    /\ In(w, {"spread"}) => \A g \in Collection :
          group[g] # None /\ job[w].tool \in Selected(rows, group[g]) => g \in job[w].names

LEMMA FullKept ==
    ASSUME NEW w \in Worker, FullOf(w), UNCHANGED <<group, object, content, failed>>,
           Free(w)' = Free(w), Free(w) \subseteq Collection,
           \A g \in Collection : object[g] # None => group[g] \in AllConfig,
           \A c \in AllConfig :
              Selected(rows', c) \cap instances' \subseteq Selected(rows, c) \cap instances,
           ~In(w, {"store", "collect", "spread"}),
           job'[w] = None \/ job'[w].pc \notin {"store", "collect", "spread"}
    PROVE  FullOf(w)'
<1>1. ASSUME ~failed, NEW g \in Free(w), object[g] # None
      PROVE  Selected(rows', Due(w, g)') \cap instances' \subseteq content[object[g]]
  <2>1. Selected(rows, group[g]) \cap instances \subseteq content[object[g]]
    BY <1>1 DEF FullOf, Due, Coming, In
  <2>2. Due(w, g)' = group[g]
    BY DEF Due, In
  <2> QED
    BY <1>1, <2>1, <2>2
<1> QED
  BY <1>1 DEF FullOf, In

LEMMA FullStep ==
    ASSUME \A c, d \in Config : Overwrite(c, d) = d, NEW s, Server = {s},
           Typed, OneEach, Ends, NEW w \in Worker, RowsOf(w), OwnOf(w), InsideOf(w), FullOf(w),
           Acts(w)
    PROVE  FullOf(w)'
<1> USE DEF database, memory
<1>0. /\ \A g \in Collection : object[g] # None => object[g] \in Object /\ group[g] # None
      /\ \A g \in Collection : group[g] # None => group[g] \in Config /\ group[g] \in AllConfig
      /\ content \in [Object -> SUBSET Tool] /\ None \notin Config
  BY ConfigAssumption, NoneAssumption DEF Typed, MemoryTyped, TablesTyped, InsideOf, Prepared, Ends
<1>f. /\ Free(w)' = Free(w) /\ Free(w) \subseteq Collection
      /\ job[w] # None /\ job[w].coll \in Collection => job[w].coll \in Free(w)
  BY FreeKeeps
<1>k. ASSUME UNCHANGED <<rows, instances, group, object, content, failed>>,
             ~In(w, {"store", "collect", "spread"}),
             job'[w] = None \/ job'[w].pc \notin {"store", "collect", "spread"}
      PROVE  FullOf(w)'
  BY <1>0, <1>f, <1>k, FullKept
<1>1. ASSUME NEW g \in Collection, NEW c \in Config, Create(w, g, c) \/ Update(w, g, c)
      PROVE  FullOf(w)'
  BY <1>1, <1>k, CreateDoes, UpdateDoes DEF Still, In
<1>2. ASSUME NEW g \in Collection, Delete(w, g)
      PROVE  FullOf(w)'
  BY <1>2, <1>k, DeleteDoes DEF Still, In
<1>3. CASE Resolve(w)
  <2>1. CASE job'[w] = None /\ content' = content
    BY <1>3, <2>1, <1>k, ResolveDoes DEF At, In
  <2>2. CASE ~(job'[w] = None /\ content' = content)
    <3>1. /\ job[w] # None /\ job[w].pc = "resolve"
          /\ UNCHANGED <<rows, instances, group, object, failed>>
          /\ job'[w].pc = "fill" /\ job'[w].obj \in Object \ Alive
          /\ content' = [content EXCEPT ![job'[w].obj] = {}]
      BY <1>3, <2>2, ResolveDoes DEF At
    <3>2. \A g \in Collection : object[g] # job'[w].obj
      BY <3>1 DEF Alive
    <3>3. \A g \in Collection : object[g] # None => content'[object[g]] = content[object[g]]
      BY <1>0, <3>1, <3>2
    <3> QED
      BY <1>f, <3>1, <3>3 DEF FullOf, In, Due, Coming
  <2> QED
    BY <2>1, <2>2
<1>4. CASE FillOne(w)
  <2>1. CASE job'[w] = None /\ content' = content
    BY <1>4, <2>1, <1>k, FillOneDoes DEF At, In
  <2>2. CASE ~(job'[w] = None /\ content' = content)
    <3>1. PICK t \in job[w].todo :
            /\ job'[w].pc = "fill" /\ content' = [content EXCEPT ![job[w].obj] = @ \cup {t}]
      BY <1>4, <2>2, FillOneDoes
    <3>2. /\ job[w] # None /\ job[w].pc = "fill"
          /\ UNCHANGED <<rows, instances, group, object, failed>>
      BY <1>4, FillOneDoes DEF At
    <3>3. \A g \in Collection : object[g] # job[w].obj
      BY <3>2 DEF OwnOf, In, Filling
    <3>4. \A g \in Collection : object[g] # None => content'[object[g]] = content[object[g]]
      BY <1>0, <3>1, <3>3
    <3> QED
      BY <1>f, <3>1, <3>2, <3>4 DEF FullOf, In, Due, Coming
  <2> QED
    BY <2>1, <2>2
<1>5. CASE Filled(w)
  BY <1>5, <1>k, FilledDoes DEF At, In, Still
<1>6. CASE Insert(w)
  <2>1. /\ job[w] # None /\ job[w].pc = "insert"
        /\ UNCHANGED <<rows, instances, object, content, failed>>
        /\ job[w].coll \in Collection
    BY <1>6, InsertDoes, JobAt DEF At, Typed, Shaped, Fits
  <2>2. CASE job'[w] = None /\ group' = group
    BY <2>1, <2>2, <1>k DEF In
  <2>3. CASE ~(job'[w] = None /\ group' = group)
    <3>1. /\ group[job[w].coll] = None
          /\ group' = [group EXCEPT ![job[w].coll] = job[w].cfg]
          /\ job'[w].pc = "attach"
      BY <1>6, <2>3, InsertDoes
    <3>2. \A g \in Collection : group'[g] = IF g = job[w].coll THEN job[w].cfg ELSE group[g]
      BY <2>1, <3>1 DEF Typed, TablesTyped
    <3>3. object[job[w].coll] = None
      BY <1>0, <2>1, <3>1
    <3> QED
      BY <1>f, <2>1, <3>1, <3>2, <3>3 DEF FullOf, In, Due, Coming
  <2> QED
    BY <2>2, <2>3
<1>7. CASE Attach(w)
  <2>1. /\ job[w] # None /\ job[w].pc = "attach"
        /\ UNCHANGED <<rows, instances, group, content, failed>>
        /\ job'[w] = None /\ object' = [object EXCEPT ![job[w].coll] = job[w].obj]
        /\ job[w].coll \in Collection
    BY <1>7, AttachDoes, JobAt DEF At, Typed, Shaped, Fits
  <2>2. \A g \in Collection : object'[g] = IF g = job[w].coll THEN job[w].obj ELSE object[g]
    BY <2>1 DEF Typed, MemoryTyped
  <2>3. /\ content[job[w].obj] = Selected(rows, job[w].cfg) /\ group[job[w].coll] = job[w].cfg
    BY <2>1 DEF InsideOf, Prepared, In
  <2> QED
    BY <1>f, <2>1, <2>2, <2>3 DEF FullOf, In, Due, Coming
<1>8. CASE Compare(w)
  <2>1. /\ UNCHANGED <<rows, instances, group, object, content, failed>>
        /\ job[w] # None /\ job[w].pc = "compare"
        /\ job'[w] = None \/ job'[w].pc = "apply"
    BY <1>8, CompareDoes DEF Still, At
  <2> QED
    BY <2>1, <1>k DEF In
<1>9. CASE Apply(w)
  <2>1. /\ job[w] # None /\ job[w].pc = "apply"
        /\ UNCHANGED <<rows, instances, group, object, failed>>
        /\ job[w].obj \in Object /\ job[w].coll \in Collection
        /\ content' = [content EXCEPT ![job[w].obj] = (@ \ job[w].drop) \cup job[w].todo]
        /\ job'[w] # None /\ job'[w].pc = "store" /\ Carries(job[w], job'[w])
    BY <1>9, ApplyDoes, JobFields, JobAt DEF At, Typed, Shaped, Fits
  <2> DEFINE old == Selected(rows, group[job[w].coll])
             new == Selected(rows, job[w].cfg)
  <2>2. /\ object[job[w].coll] = job[w].obj
        /\ \A g \in Collection \ {job[w].coll} : object[g] # job[w].obj
        /\ job[w].obj # None
    BY <2>1, NoneAssumption DEF OwnOf, In
  <2>3. /\ \A g \in Collection \ {job[w].coll} :
             object[g] # None => content'[object[g]] = content[object[g]]
        /\ content'[job[w].obj] = (content[job[w].obj] \ job[w].drop) \cup job[w].todo
    BY <1>0, <2>1, <2>2
  <2>4. job[w].todo = new \ old /\ job[w].drop = old \ new
    BY <2>1 DEF InsideOf, Prepared, In
  <2>5. ~failed => old \cap instances \subseteq content[job[w].obj]
    BY <1>f, <2>1, <2>2 DEF FullOf, In, Due, Coming
  <2>6. ~failed => new \cap instances \subseteq content'[job[w].obj]
    <3> HIDE DEF old, new
    <3> QED
      BY <2>3, <2>4, <2>5
  <2>7. ASSUME ~failed, NEW g \in Free(w), object[g] # None
        PROVE  Selected(rows, Due(w, g)') \cap instances \subseteq content'[object[g]]
    <3>1. CASE g = job[w].coll
      BY <2>1, <2>2, <2>6, <2>7, <3>1 DEF Due, In, Carries
    <3>2. CASE g # job[w].coll
      BY <1>f, <2>1, <2>3, <2>7, <3>2 DEF Due, In, Carries, FullOf, Coming
    <3> QED
      BY <3>1, <3>2
  <2> QED
    BY <1>f, <2>1, <2>7 DEF FullOf, In
<1>10. CASE Store(w)
  <2>1. /\ job[w] # None /\ job[w].pc = "store"
        /\ UNCHANGED <<rows, instances, object, content, failed>>
        /\ job'[w] = None /\ job[w].coll \in Collection /\ job[w].cfg \in Config
    BY <1>10, StoreDoes DEF At
  <2>2. group[job[w].coll] # None => Overwrite(group[job[w].coll], job[w].cfg) = job[w].cfg
    BY <1>0, <2>1
  <2>3. group' = IF group[job[w].coll] = None THEN group
                 ELSE [group EXCEPT ![job[w].coll] = job[w].cfg]
    BY <1>10, <2>2 DEF Store
  <2>4. \A g \in Collection :
          group'[g] = IF g = job[w].coll /\ group[g] # None THEN job[w].cfg ELSE group[g]
    BY <2>1, <2>3 DEF Typed, TablesTyped
  <2> QED
    BY <1>0, <1>f, <2>1, <2>4 DEF FullOf, In, Due, Coming
<1>11. CASE Detach(w)
  <2>1. /\ job[w] # None /\ job[w].pc = "detach"
        /\ UNCHANGED <<rows, instances, group, content, failed>>
        /\ job'[w].pc = "erase" /\ \A g \in Collection : object'[g] \in {object[g], None}
    BY <1>11, DetachDoes DEF At, Typed, MemoryTyped
  <2> QED
    BY <1>f, <2>1 DEF FullOf, In, Due, Coming
<1>12. CASE Erase(w)
  <2>1. /\ job[w] # None /\ job[w].pc = "erase"
        /\ UNCHANGED <<rows, instances, object, content, failed>>
        /\ job'[w] = None /\ job[w].coll \in Collection
        /\ group' = [group EXCEPT ![job[w].coll] = None]
    BY <1>12, EraseDoes DEF At
  <2>2. \A g \in Collection : group'[g] = IF g = job[w].coll THEN None ELSE group[g]
    BY <2>1 DEF Typed, TablesTyped
  <2>3. object[job[w].coll] = None
    BY <2>1 DEF Ends, In
  <2> QED
    BY <1>f, <2>1, <2>2, <2>3 DEF FullOf, In, Due, Coming
<1>13. ASSUME NEW r \in Server, Register(w, r)
       PROVE  FullOf(w)'
  <2>1. /\ job[w] = None /\ job'[w].pc = "expose"
        /\ UNCHANGED <<instances, group, object, content, failed>>
        /\ rows' = [t \in Tool |-> IF Owner[t] = r THEN "on" ELSE rows[t]]
    BY <1>13, RegisterDoes
  <2>2. \A t \in instances : rows[t] # None
    BY <2>1, NoneAssumption DEF RowsOf, In, On
  <2>3. \A c \in AllConfig :
          Selected(rows', c) \cap instances' \subseteq Selected(rows, c) \cap instances
    BY <2>1, <2>2 DEF Selected
  <2> QED
    BY <1>0, <1>f, <2>1, <2>3, FullKept DEF In
<1>14. ASSUME NEW t \in Tool, Enable(w, t) \/ Disable(w, t)
       PROVE  FullOf(w)'
  <2>1. /\ job[w] = None /\ job'[w].pc \in {"expose", "hide"}
        /\ UNCHANGED <<instances, group, object, content, failed>>
        /\ rows[t] # None /\ \A u \in Tool : u # t => rows'[u] = rows[u]
    BY <1>14, EnableDoes, DisableDoes, NoneAssumption DEF Typed, TablesTyped
  <2>2. \A c \in AllConfig :
          Selected(rows', c) \cap instances' \subseteq Selected(rows, c) \cap instances
    BY <2>1 DEF Selected
  <2> QED
    BY <1>0, <1>f, <2>1, <2>2, FullKept DEF In
<1>15. CASE Expose(w)
  <2>1. PICK t \in job[w].todo :
          /\ instances' = instances \cup {t}
          /\ job'[w] \in Job /\ job'[w].pc = "collect" /\ job'[w].tool = t
    BY <1>15, ExposeDoes
  <2>2. /\ UNCHANGED <<rows, group, object, content, failed>>
        /\ job[w] # None /\ job[w].pc = "expose" /\ job'[w] # None
    BY <1>15, <2>1, ExposeDoes, JobFields DEF At
  <2> QED
    BY <1>f, <2>1, <2>2 DEF FullOf, In, Due, Coming
<1>16. CASE Exposed(w)
  BY <1>16, <1>k, ExposedDoes DEF At, In, Still
<1>17. CASE Collect(w)
  <2>1. /\ UNCHANGED <<rows, instances, group, object, content, failed>>
        /\ job[w] # None /\ job[w].pc = "collect" /\ job[w].tool \in Tool
        /\ job'[w] # None
    BY <1>17, CollectDoes, JobFields DEF At, Still
  <2>2. Usable(job[w].tool) /\ Owner[job[w].tool] = s
    <3>1. job[w].tool \in instances /\ rows[job[w].tool] = "on"
      BY <2>1 DEF RowsOf, In, On
    <3> QED
      BY <2>1, <3>1, OwnerAssumption, NoneAssumption DEF RowsOf, Usable
  <2>3. \A g \in Collection : group[g] # None => Resolvable(group[g])
    BY <1>0, <2>2 DEF AllConfig, Resolvable, Usable
  <2>4. /\ job'[w].pc = "spread" /\ job'[w].tool = job[w].tool
        /\ job'[w].names = {g \in Collection : /\ group[g] # None
                                               /\ job[w].tool \in Effective(group[g])}
    BY <1>17, <2>2, <2>3, CollectDoes
  <2>5. \A g \in Collection : group[g] # None => Effective(group[g]) = Selected(rows, group[g])
    BY <1>0, EffectiveIsSelected
  <2> QED
    BY <1>f, <2>1, <2>4, <2>5 DEF FullOf, In, Due, Coming
<1>18. CASE Spread(w)
  <2>1. /\ job[w] # None /\ job[w].pc = "spread"
        /\ UNCHANGED <<rows, instances, group, object, failed>>
        /\ job'[w].pc = "expose"
        /\ content' = [o \in Object |-> IF \E g \in job[w].names : object[g] = o
                                        THEN content[o] \cup {job[w].tool} ELSE content[o]]
    BY <1>18, SpreadDoes DEF At
  <2>2. ASSUME ~failed, NEW g \in Free(w), object[g] # None
        PROVE  Selected(rows, group[g]) \cap instances \subseteq content'[object[g]]
    <3>1. Selected(rows, group[g]) \cap instances \subseteq content[object[g]] \cup {job[w].tool}
      BY <1>f, <2>1, <2>2 DEF FullOf, In, Due, Coming
    <3>2. content[object[g]] \subseteq content'[object[g]]
      BY <1>0, <1>f, <2>1, <2>2
    <3>3. CASE job[w].tool \in Selected(rows, group[g])
      <4>1. g \in job[w].names
        BY <1>0, <1>f, <2>1, <2>2, <3>3 DEF FullOf, In
      <4>2. job[w].tool \in content'[object[g]]
        BY <1>0, <1>f, <2>1, <2>2, <4>1
      <4> QED
        BY <3>1, <3>2, <4>2
    <3> QED
      BY <3>1, <3>2, <3>3
  <2> QED
    BY <1>f, <2>1, <2>2 DEF FullOf, In, Due, Coming
<1>19. ASSUME NEW r \in Server, Deregister(w, r)
       PROVE  FullOf(w)'
  <2>1. /\ job[w] = None /\ job'[w].pc = "hide"
        /\ UNCHANGED <<instances, group, object, content, failed>>
        /\ rows' = [t \in Tool |-> IF Owner[t] = r THEN None ELSE rows[t]]
    BY <1>19, DeregisterDoes
  <2>2. \A c \in AllConfig :
          Selected(rows', c) \cap instances' \subseteq Selected(rows, c) \cap instances
    BY <2>1 DEF Selected
  <2> QED
    BY <1>0, <1>f, <2>1, <2>2, FullKept DEF In
<1>20. CASE Hide(w)
  <2>1. /\ job[w] # None /\ job[w].pc = "hide" /\ job'[w].pc = "forget"
        /\ UNCHANGED <<rows, group, object, content, failed>>
        /\ instances' \subseteq instances
    BY <1>20, HideDoes DEF At
  <2>2. \A c \in AllConfig :
          Selected(rows', c) \cap instances' \subseteq Selected(rows, c) \cap instances
    BY <2>1
  <2> QED
    BY <1>0, <1>f, <2>1, <2>2, FullKept DEF In
<1>21. CASE Forget(w)
  <2>1. /\ job[w] # None /\ job[w].pc = "forget"
        /\ UNCHANGED <<rows, instances, group, object, failed>>
        /\ job'[w] = None \/ job'[w].pc = "deregister"
        /\ content' = [o \in Object |-> IF \E g \in Collection : object[g] = o
                                        THEN content[o] \ job[w].drop ELSE content[o]]
    BY <1>21, ForgetDoes DEF At
  <2>2. instances \cap job[w].drop = {}
    BY <2>1 DEF RowsOf, In
  <2>3. ASSUME ~failed, NEW g \in Free(w), object[g] # None
        PROVE  Selected(rows, group[g]) \cap instances \subseteq content'[object[g]]
    <3>1. Selected(rows, group[g]) \cap instances \subseteq content[object[g]]
      BY <1>f, <2>1, <2>3 DEF FullOf, In, Due, Coming
    <3>2. content'[object[g]] = content[object[g]] \ job[w].drop
      BY <1>0, <1>f, <2>1, <2>3
    <3> QED
      BY <2>2, <3>1, <3>2
  <2> QED
    BY <1>f, <2>1, <2>3 DEF FullOf, In, Due, Coming
<1>22. CASE DropServer(w)
  BY <1>22, <1>k, DropServerDoes DEF At, In
<1>23. CASE Fail(w)
  <2>1. failed' = TRUE /\ (job'[w] = None \/ job'[w].pc = "expose")
    BY <1>23, FailDoes
  <2> QED
    BY <1>f, <2>1 DEF FullOf, In
<1> QED
  BY <1>1, <1>2, <1>3, <1>4, <1>5, <1>6, <1>7, <1>8, <1>9, <1>10, <1>11, <1>12, <1>13, <1>14,
     <1>15, <1>16, <1>17, <1>18, <1>19, <1>20, <1>21, <1>22, <1>23
     DEF Acts, Arrive, Step

------------------------------------------------------------------------------
(* From the handler that acts to all of them, again.                         *)

\* A handler that changes no tools leaves alone the collections it is not asked
\* about and the in-memory servers that are in use, but for its own.
LEMMA Locally ==
    ASSUME Typed, NEW w \in Worker, Acts(w), ~In(w, Changing), ~In(w, Changing)'
    PROVE  /\ UNCHANGED <<rows, instances>> /\ (failed' = failed \/ failed' = TRUE)
           /\ \A g \in Collection : job[w] = None \/ job[w].coll # g =>
                 object'[g] = object[g] /\ group'[g] = group[g]
           /\ \A o \in Object : o \in Alive /\ ~(In(w, Filling \cup {"apply"}) /\ o = job[w].obj) =>
                 content'[o] = content[o]
<1> USE DEF database, memory
<1>0. /\ content \in [Object -> SUBSET Tool] /\ object \in [Collection -> Object \cup {None}]
      /\ group \in [Collection -> AllConfig \cup {None}]
  BY DEF Typed, TablesTyped, MemoryTyped
<1>1. CASE Arrive(w)
  <2>1. ASSUME NEW s \in Server, Register(w, s) \/ Deregister(w, s) PROVE FALSE
    BY <2>1, RegisterDoes, DeregisterDoes, JobFields DEF In, Changing, Adding
  <2>2. ASSUME NEW t \in Tool, Enable(w, t) \/ Disable(w, t) PROVE FALSE
    BY <2>2, EnableDoes, DisableDoes, JobFields DEF In, Changing, Adding
  <2> QED
    BY <1>1, <2>1, <2>2, CreateDoes, UpdateDoes, DeleteDoes DEF Arrive, Still
<1>2. CASE Resolve(w)
  <2>1. /\ UNCHANGED <<rows, instances, object, group, failed>>
        /\ content' = content \/ \E i \in Object \ Alive : content' = [content EXCEPT ![i] = {}]
    BY <1>2, ResolveDoes
  <2> QED
    BY <1>0, <2>1
<1>3. CASE FillOne(w)
  <2>1. /\ UNCHANGED <<rows, instances, object, group, failed>> /\ In(w, Filling)
        /\ content' = content \/ \E t : content' = [content EXCEPT ![job[w].obj] = @ \cup {t}]
    BY <1>3, FillOneDoes DEF In, At, Filling
  <2> QED
    BY <1>0, <2>1 DEF In
<1>4. CASE Filled(w) \/ Compare(w)
  BY <1>4, FilledDoes, CompareDoes DEF Still
<1>5. CASE Insert(w) \/ Store(w) \/ Erase(w)
  <2>1. /\ UNCHANGED <<rows, instances, object, content, failed>> /\ job[w] # None
        /\ group' = group \/ \E c : group' = [group EXCEPT ![job[w].coll] = c]
    BY <1>5, InsertDoes, StoreDoes, EraseDoes DEF At
  <2> QED
    BY <1>0, <2>1
<1>6. CASE Attach(w) \/ Detach(w)
  <2>1. /\ UNCHANGED <<rows, instances, group, content, failed>> /\ job[w] # None
        /\ \E o : object' = [object EXCEPT ![job[w].coll] = o]
    BY <1>6, AttachDoes, DetachDoes DEF At
  <2> QED
    BY <1>0, <2>1
<1>7. CASE Apply(w)
  <2>1. /\ UNCHANGED <<rows, instances, object, group, failed>> /\ In(w, Filling \cup {"apply"})
        /\ content' = [content EXCEPT ![job[w].obj] = (@ \ job[w].drop) \cup job[w].todo]
    BY <1>7, ApplyDoes DEF At, In
  <2> QED
    BY <1>0, <2>1
<1>8. CASE Expose(w) \/ Exposed(w) \/ Collect(w) \/ Spread(w)
  BY <1>8, ExposeDoes, ExposedDoes, CollectDoes, SpreadDoes DEF In, At, Changing, Adding
<1>9. CASE Hide(w) \/ Forget(w) \/ DropServer(w)
  BY <1>9, HideDoes, ForgetDoes, DropServerDoes DEF In, At, Changing
<1>10. CASE Fail(w)
  BY <1>10, FailDoes
<1> QED
  BY <1>1, <1>2, <1>3, <1>4, <1>5, <1>6, <1>7, <1>8, <1>9, <1>10 DEF Acts, Step

\* The in-memory server a handler fills is the one it filled before, or one that
\* nobody could reach; and no other becomes an endpoint.
LEMMA FillsOwn ==
    ASSUME Typed, NEW w \in Worker, Acts(w)
    PROVE  /\ In(w, Filling)' =>
                 (In(w, Filling) /\ job'[w].obj = job[w].obj) \/ job'[w].obj \notin Alive
           /\ \A g \in Collection :
                 object'[g] \in {object[g], None} \/ (In(w, Filling) /\ object'[g] = job[w].obj)
<1> USE DEF database, memory
<1>0. object \in [Collection -> Object \cup {None}]
  BY DEF Typed, MemoryTyped
<1>1. CASE Arrive(w)
  <2>1. object' = object /\ job'[w].pc \in {"resolve", "compare", "detach", "expose", "hide"}
    BY <1>1, CreateDoes, UpdateDoes, DeleteDoes, RegisterDoes, DeregisterDoes, EnableDoes,
       DisableDoes DEF Arrive, Still
  <2> QED
    BY <2>1 DEF In, Filling
<1>2. CASE Resolve(w)
  BY <1>2, ResolveDoes DEF In, Filling
<1>3. CASE FillOne(w) \/ Filled(w) \/ Insert(w)
  BY <1>3, FillOneDoes, FilledDoes, InsertDoes DEF In, At, Filling, Still, Carries
<1>4. CASE Attach(w)
  <2>1. /\ In(w, Filling) /\ job'[w] = None
        /\ object' = [object EXCEPT ![job[w].coll] = job[w].obj]
    BY <1>4, AttachDoes DEF In, At, Filling
  <2> QED
    BY <1>0, <2>1 DEF In
<1>5. CASE Compare(w) \/ Apply(w) \/ Store(w) \/ Erase(w)
  BY <1>5, CompareDoes, ApplyDoes, StoreDoes, EraseDoes DEF In, Filling, Still
<1>6. CASE Detach(w)
  <2>1. job'[w].pc = "erase" /\ object' = [object EXCEPT ![job[w].coll] = None]
    BY <1>6, DetachDoes
  <2> QED
    BY <1>0, <2>1 DEF In, Filling
<1>7. CASE Expose(w) \/ Exposed(w) \/ Collect(w) \/ Spread(w)
  BY <1>7, ExposeDoes, ExposedDoes, CollectDoes, SpreadDoes DEF In, Filling, Still
<1>8. CASE Hide(w) \/ Forget(w) \/ DropServer(w)
  BY <1>8, HideDoes, ForgetDoes, DropServerDoes DEF In, Filling
<1>9. CASE Fail(w)
  BY <1>9, FailDoes DEF In, Filling
<1> QED
  BY <1>1, <1>2, <1>3, <1>4, <1>5, <1>6, <1>7, <1>8, <1>9 DEF Acts, Step

\* Requests take turns where it matters: a tool change runs alone, and no two
\* handlers work on one collection.
Orderly == ToolsAlone /\ OneEach

Around == Typed /\ Typed' /\ Orderly /\ Orderly'

\* Every endpoint has an in-memory server of its own, one that is being filled
\* is nobody else's, and an update works on that of its collection.
Own ==
    /\ \A g, h \in Collection : object[g] # None /\ object[g] = object[h] => g = h
    /\ \A w \in Worker : In(w, Filling) => \A g \in Collection : object[g] # job[w].obj
    /\ \A v, w \in Worker : In(v, Filling) /\ In(w, Filling) /\ job[v].obj = job[w].obj => v = w
    /\ \A w \in Worker : In(w, {"apply", "store"}) => object[job[w].coll] = job[w].obj

\* What a handler has in hand stays as it is while another one acts.
LEMMA Undisturbed ==
    ASSUME Around, Own, NEW w \in Worker, Acts(w), NEW v \in Worker \ {w}, job[v] # None
    PROVE  /\ job'[v] = job[v] /\ ~In(v, Changing)
           /\ UNCHANGED <<rows, instances>> /\ (failed' = failed \/ failed' = TRUE)
           /\ job[v].coll \in Collection =>
                 /\ object'[job[v].coll] = object[job[v].coll]
                 /\ group'[job[v].coll] = group[job[v].coll]
           /\ In(v, Filling \cup {"apply", "store"}) =>
                 job[v].coll \in Collection /\ job[v].obj \in Object
                 /\ content'[job[v].obj] = content[job[v].obj]
<1>1. job'[v] = job[v] /\ ~In(v, Changing) /\ ~In(w, Changing) /\ ~In(w, Changing)'
  BY Quiet DEF Around, Orderly
<1>2. /\ UNCHANGED <<rows, instances>> /\ (failed' = failed \/ failed' = TRUE)
      /\ \A g \in Collection : job[w] = None \/ job[w].coll # g =>
            object'[g] = object[g] /\ group'[g] = group[g]
      /\ \A o \in Object : o \in Alive /\ ~(In(w, Filling \cup {"apply"}) /\ o = job[w].obj) =>
            content'[o] = content[o]
  BY <1>1, Locally DEF Around
<1>3. job[v].coll \in Collection /\ job[w] # None => job[w].coll # job[v].coll
  BY DEF Around, Orderly, OneEach
<1>4. ASSUME In(v, Filling \cup {"apply", "store"})
      PROVE  /\ job[v].coll \in Collection /\ job[v].obj \in Object
             /\ content'[job[v].obj] = content[job[v].obj]
  <2>1. job[v].coll \in Collection /\ job[v].obj \in Object
    BY <1>4 DEF Around, Typed, Jobs, Shaped, Fits, In, Filling
  <2>2. job[v].obj \in Alive
    BY DEF Alive
  <2>3. ASSUME In(w, Filling \cup {"apply"}), job[v].obj = job[w].obj PROVE FALSE
    <3>1. job[w].coll \in Collection /\ job[w].coll # job[v].coll /\ job[v].obj # None
      BY <1>3, <2>1, <2>3, NoneAssumption DEF Around, Typed, Jobs, Shaped, Fits, In, Filling
    <3>2. In(v, Filling) \/ In(v, {"apply", "store"})
      BY <1>4 DEF In
    <3>3. In(w, Filling) \/ In(w, {"apply", "store"})
      BY <2>3 DEF In
    <3> QED
      BY <2>1, <2>3, <3>1, <3>2, <3>3 DEF Own
  <2> QED
    BY <1>2, <2>1, <2>2, <2>3
<1> QED
  BY <1>1, <1>2, <1>3, <1>4

LEMMA OwnActs ==
    ASSUME Around, Own, NEW w \in Worker, Acts(w)
    PROVE  Own'
<1>0. Typed /\ \A o \in Object : o # None
  BY NoneAssumption DEF Around
<1>1. OwnOf(w)'
  <2>1. OwnOf(w)
    BY DEF Own, OwnOf
  <2> QED
    BY <1>0, <2>1, OwnStep
<1>2. /\ In(w, Filling)' =>
            (In(w, Filling) /\ job'[w].obj = job[w].obj) \/ job'[w].obj \notin Alive
      /\ \A g \in Collection :
            object'[g] \in {object[g], None} \/ (In(w, Filling) /\ object'[g] = job[w].obj)
  BY <1>0, FillsOwn
<1>3. OthersKeep(w)
  BY <1>0, OneActs
<1>4. \A v \in Worker \ {w} : In(v, Filling)' =>
         /\ job'[v] = job[v] /\ In(v, Filling) /\ job[v].obj \in Object /\ job[v].obj \in Alive
  <2> SUFFICES ASSUME NEW v \in Worker \ {w}, In(v, Filling)'
               PROVE  /\ job'[v] = job[v] /\ In(v, Filling)
                      /\ job[v].obj \in Object /\ job[v].obj \in Alive
    OBVIOUS
  <2>1. job'[v] = job[v] /\ In(v, Filling) /\ job[v] # None
    BY <1>3 DEF OthersKeep, In
  <2> QED
    BY <1>0, <2>1 DEF Typed, Jobs, Shaped, Fits, In, Filling, Alive
<1>5. ASSUME NEW v \in Worker, In(v, Filling)', NEW g \in Collection
      PROVE  object'[g] # job'[v].obj
  <2>1. CASE v = w
    BY <1>1, <1>5, <2>1 DEF OwnOf
  <2>2. CASE v # w
    <3>1. job'[v] = job[v] /\ In(v, Filling) /\ job[v].obj # None
      BY <1>0, <1>4, <1>5, <2>2
    <3> QED
      BY <1>2, <2>2, <3>1 DEF Own
  <2> QED
    BY <2>1, <2>2
<1>6. ASSUME NEW u \in Worker, NEW v \in Worker, In(u, Filling)', In(v, Filling)',
             job'[u].obj = job'[v].obj
      PROVE  u = v
  BY <1>2, <1>4, <1>6 DEF Own
<1>7. ASSUME NEW v \in Worker, In(v, {"apply", "store"})'
      PROVE  object'[job'[v].coll] = job'[v].obj
  <2>1. CASE v = w
    BY <1>1, <1>7, <2>1 DEF OwnOf
  <2>2. CASE v # w
    <3>1. job'[v] = job[v] /\ In(v, {"apply", "store"}) /\ job[v] # None
      BY <1>3, <1>7, <2>2 DEF OthersKeep, In
    <3>2. job[v].coll \in Collection
      BY <1>0, <3>1 DEF Typed, Jobs, Shaped, Fits, In
    <3>3. object'[job[v].coll] = object[job[v].coll]
      BY <2>2, <3>1, <3>2, Undisturbed
    <3> QED
      BY <3>1, <3>3 DEF Own
  <2> QED
    BY <2>1, <2>2
<1> QED
  BY <1>1, <1>5, <1>6, <1>7 DEF Own, OwnOf

\* w has changed the endpoint of g and not yet the row.
Stores(w, g) == In(w, {"store"}) /\ job[w].coll = g

\* Unless a call has failed an endpoint offers tools its configuration selects,
\* but for tools on their way out; one whose update is not stored yet, tools the
\* new configuration selects.
Inside ==
    /\ \A g \in Collection : group[g] # None => group[g] \in Config
    /\ ~failed => \A g \in Collection : object[g] # None =>
          \/ \E w \in Worker : Stores(w, g)
          \/ content[object[g]] \subseteq Selected(rows, group[g]) \cup Leaving
    /\ ~failed => \A w \in Worker : In(w, {"store"}) =>
          content[object[job[w].coll]] \subseteq Selected(rows, job[w].cfg)
    /\ \A w \in Worker : Prepared(w)

\* The tools the addition callbacks are about.
Arriving == UNION {Coming(w) : w \in Worker}

\* Every collection that selects the tool has been chosen by the callback.
Gathered(w) ==
    In(w, {"spread"}) => \A g \in Collection :
        group[g] # None /\ job[w].tool \in Selected(rows, group[g]) => g \in job[w].names

\* Unless a call has failed an endpoint offers every tool of the proxy that its
\* configuration selects, but for those that are just coming.
Full ==
    /\ ~failed => \A g \in Collection : object[g] # None =>
          \/ \E w \in Worker : Stores(w, g)
          \/ Selected(rows, group[g]) \cap instances \subseteq content[object[g]] \cup Arriving
    /\ ~failed => \A w \in Worker : In(w, {"store"}) =>
          Selected(rows, job[w].cfg) \cap instances \subseteq content[object[job[w].coll]]
    /\ \A w \in Worker : Gathered(w)

\* A handler about to store, seen by the one that acts.
LEMMA StoresFree ==
    ASSUME NEW w \in Worker
    PROVE  /\ \A g \in Collection :
                 (g \in Free(w) <=> \A v \in Worker \ {w} : ~Stores(v, g))
           /\ \A g \in Collection : Due(w, g) = IF Stores(w, g) THEN job[w].cfg ELSE group[g]
BY DEF Free, Due, Stores

LEMMA StoresFreeAfter ==
    ASSUME NEW w \in Worker
    PROVE  /\ \A g \in Collection :
                 (g \in Free(w)' <=> \A v \in Worker \ {w} : ~Stores(v, g)')
           /\ \A g \in Collection :
                 Due(w, g)' = IF Stores(w, g)' THEN job'[w].cfg ELSE group'[g]
BY DEF Free, Due, Stores

\* Where the one that acts is about to store afterwards.
LEMMA StoresAfter ==
    ASSUME Around, NEW w \in Worker, OwnOf(w)', NEW g, In(w, {"store"})', g = job'[w].coll
    PROVE  g \in Free(w)' /\ object'[g] # None /\ Due(w, g)' = job'[w].cfg
<1>1. g \in Collection /\ job'[w].obj \in Object
  BY DEF Around, Typed, Jobs, Shaped, Fits, In
<1>2. \A v \in Worker \ {w} : ~Stores(v, g)'
  BY <1>1 DEF Around, Orderly, OneEach, In, Stores
<1>3. object'[g] = job'[w].obj
  BY DEF OwnOf, In
<1>4. Stores(w, g)'
  BY DEF Stores
<1> QED
  BY <1>1, <1>2, <1>3, <1>4, StoresFreeAfter, NoneAssumption

\* What holds of all holds as far as the one that acts can see.
LEMMA InsideOfAll ==
    ASSUME Around, Inside, NEW w \in Worker, Acts(w)
    PROVE  InsideOf(w)
<1>0. \A v \in Worker \ {w} : ~In(v, Changing)
  BY Quiet DEF Around, Orderly
<1>1. Leaving \subseteq Dropping(w)
  BY <1>0 DEF Leaving, Dropping, In, Changing
<1>2. ASSUME ~failed, NEW g \in Free(w), object[g] # None
      PROVE  content[object[g]] \subseteq Selected(rows, Due(w, g)) \cup Dropping(w)
  <2>1. g \in Collection /\ \A v \in Worker \ {w} : ~Stores(v, g)
    BY StoresFree DEF Free
  <2>2. CASE Stores(w, g)
    BY <1>2, <2>1, <2>2, StoresFree DEF Inside, Stores
  <2>3. CASE ~Stores(w, g)
    BY <1>1, <1>2, <2>1, <2>3, StoresFree DEF Inside
  <2> QED
    BY <2>2, <2>3
<1> QED
  BY <1>2 DEF Inside, InsideOf

LEMMA InsideActs ==
    ASSUME \A c, d \in Config : Overwrite(c, d) = d,
           Around, Ends, Own, Inside, NEW w \in Worker, Acts(w)
    PROVE  Inside'
<1>1. OwnOf(w) /\ OwnOf(w)'
  BY OwnStep DEF Own, OwnOf, Around
<1>2. /\ \A v \in Worker \ {w} : ~In(v, Changing)
      /\ OthersKeep(w)
  BY Quiet, OneActs DEF Around, Orderly
<1>3. InsideOf(w)
  BY InsideOfAll
<1>4. InsideOf(w)'
  BY <1>1, <1>3, InsideStep DEF Around, Orderly
<1>5. Dropping(w)' \subseteq Leaving'
  BY DEF Leaving
<1>6. ASSUME ~failed', NEW g \in Collection, object'[g] # None,
             \A v \in Worker : ~Stores(v, g)'
      PROVE  content'[object'[g]] \subseteq Selected(rows', group'[g]) \cup Leaving'
  <2>1. g \in Free(w)' /\ Due(w, g)' = group'[g]
    BY <1>6, StoresFreeAfter
  <2>2. content'[object'[g]] \subseteq Selected(rows', Due(w, g)') \cup Dropping(w)'
    BY <1>4, <1>6, <2>1 DEF InsideOf
  <2> QED
    BY <1>5, <2>1, <2>2
<1>7. ASSUME ~failed', NEW v \in Worker, In(v, {"store"})'
      PROVE  content'[object'[job'[v].coll]] \subseteq Selected(rows', job'[v].cfg)
  <2>1. CASE v = w
    <3> SUFFICES ASSUME NEW g, g = job'[w].coll
                 PROVE  content'[object'[g]] \subseteq Selected(rows', job'[w].cfg)
      BY <2>1
    <3>1. g \in Free(w)' /\ object'[g] # None /\ Due(w, g)' = job'[w].cfg
      BY <1>1, <1>7, <2>1, StoresAfter
    <3>2. Dropping(w)' = {}
      BY <1>7, <2>1 DEF Dropping, In
    <3>3. content'[object'[g]] \subseteq Selected(rows', Due(w, g)') \cup Dropping(w)'
      BY <1>4, <1>7, <3>1 DEF InsideOf
    <3> QED
      BY <3>1, <3>2, <3>3
  <2>2. CASE v # w
    <3>1. job'[v] = job[v] /\ In(v, {"store"}) /\ job[v] # None
      BY <1>2, <1>7, <2>2 DEF OthersKeep, In
    <3>2. In(v, Filling \cup {"apply", "store"})
      BY <3>1 DEF In
    <3>3. /\ rows' = rows /\ ~failed /\ job[v].coll \in Collection
          /\ object'[job[v].coll] = object[job[v].coll]
          /\ content'[job[v].obj] = content[job[v].obj]
      BY <1>7, <2>2, <3>1, <3>2, Undisturbed
    <3>4. object[job[v].coll] = job[v].obj
      BY <3>1 DEF Own, In
    <3> QED
      BY <3>1, <3>3, <3>4 DEF Inside
  <2> QED
    BY <2>1, <2>2
<1>8. ASSUME NEW v \in Worker PROVE Prepared(v)'
  <2>1. CASE v = w
    BY <1>4, <2>1 DEF InsideOf
  <2>2. CASE v # w /\ job[v] = None
    <3>1. job'[v] = None
      BY <1>2, <2>2 DEF OthersKeep
    <3> QED
      BY <3>1 DEF Prepared, In
  <2>3. CASE v # w /\ job[v] # None
    <3>1. /\ job'[v] = job[v] /\ rows' = rows /\ ~In(v, Changing)
          /\ In(v, Filling \cup {"apply", "store"}) =>
                /\ content'[job[v].obj] = content[job[v].obj]
                /\ group'[job[v].coll] = group[job[v].coll]
      <4>1. v \in Worker \ {w}
        BY <2>3
      <4> QED
        BY <2>3, <4>1, Undisturbed DEF In
    <3>2. \A p : In(v, p)' <=> In(v, p)
      BY <3>1 DEF In
    <3>3. Prepared(v) /\ job[v].pc # "spread"
      BY <2>3, <3>1 DEF Inside, In, Changing, Adding
    <3>4. CASE In(v, Filling \cup {"apply"})
      BY <3>1, <3>3, <3>4 DEF Prepared, In, Filling
    <3>5. CASE ~In(v, Filling \cup {"apply"})
      BY <3>1, <3>3, <3>5 DEF Prepared, In, Filling
    <3> QED
      BY <3>4, <3>5
  <2> QED
    BY <2>1, <2>2, <2>3
<1>9. \A g \in Collection : group'[g] # None => group'[g] \in Config
  BY <1>4 DEF InsideOf
<1> QED
  BY <1>6, <1>7, <1>8, <1>9 DEF Inside

LEMMA FullActs ==
    ASSUME \A c, d \in Config : Overwrite(c, d) = d, NEW s, Server = {s},
           Around, RowsOK, Ends, Own, Inside, Full, NEW w \in Worker, Acts(w)
    PROVE  Full'
<1>1. OwnOf(w) /\ OwnOf(w)'
  BY OwnStep DEF Own, OwnOf, Around
<1>2. /\ \A v \in Worker \ {w} : ~In(v, Changing) /\ ~In(v, Changing)'
      /\ OthersKeep(w)
  BY Quiet, OneActs DEF Around, Orderly
<1>3. FullOf(w)
  <2>1. Arriving \subseteq Coming(w)
    BY <1>2 DEF Arriving, Coming, In, Changing, Adding
  <2>2. ASSUME ~failed, NEW g \in Free(w), object[g] # None
        PROVE  Selected(rows, Due(w, g)) \cap instances \subseteq content[object[g]] \cup Coming(w)
    <3>1. g \in Collection /\ \A v \in Worker \ {w} : ~Stores(v, g)
      BY StoresFree DEF Free
    <3>2. CASE Stores(w, g)
      BY <2>2, <3>1, <3>2, StoresFree DEF Full, Stores
    <3>3. CASE ~Stores(w, g)
      BY <2>1, <2>2, <3>1, <3>3, StoresFree DEF Full
    <3> QED
      BY <3>2, <3>3
  <2> QED
    BY <2>2 DEF Full, FullOf, Gathered
<1>4. RowsOf(w)
  BY <1>2, RowsOfAll
<1>5. FullOf(w)'
  BY <1>1, <1>3, <1>4, InsideOfAll, FullStep DEF Around, Orderly
<1>6. Coming(w)' \subseteq Arriving'
  BY DEF Arriving
<1>7. ASSUME ~failed', NEW g \in Collection, object'[g] # None,
             \A v \in Worker : ~Stores(v, g)'
      PROVE  Selected(rows', group'[g]) \cap instances'
                \subseteq content'[object'[g]] \cup Arriving'
  <2>1. g \in Free(w)' /\ Due(w, g)' = group'[g]
    BY <1>7, StoresFreeAfter
  <2>2. Selected(rows', Due(w, g)') \cap instances' \subseteq content'[object'[g]] \cup Coming(w)'
    BY <1>5, <1>7, <2>1 DEF FullOf
  <2> QED
    BY <1>6, <2>1, <2>2
<1>8. ASSUME ~failed', NEW v \in Worker, In(v, {"store"})'
      PROVE  Selected(rows', job'[v].cfg) \cap instances' \subseteq content'[object'[job'[v].coll]]
  <2>1. CASE v = w
    <3> SUFFICES ASSUME NEW g, g = job'[w].coll
                 PROVE  Selected(rows', job'[w].cfg) \cap instances' \subseteq content'[object'[g]]
      BY <2>1
    <3>1. g \in Free(w)' /\ object'[g] # None /\ Due(w, g)' = job'[w].cfg
      BY <1>1, <1>8, <2>1, StoresAfter
    <3>2. Coming(w)' = {}
      BY <1>8, <2>1 DEF Coming, In
    <3>3. Selected(rows', Due(w, g)') \cap instances' \subseteq content'[object'[g]] \cup Coming(w)'
      BY <1>5, <1>8, <3>1 DEF FullOf
    <3> QED
      BY <3>1, <3>2, <3>3
  <2>2. CASE v # w
    <3>1. job'[v] = job[v] /\ In(v, {"store"}) /\ job[v] # None
      BY <1>2, <1>8, <2>2 DEF OthersKeep, In
    <3>2. In(v, Filling \cup {"apply", "store"})
      BY <3>1 DEF In
    <3>3. /\ rows' = rows /\ instances' = instances /\ ~failed /\ job[v].coll \in Collection
          /\ object'[job[v].coll] = object[job[v].coll]
          /\ content'[job[v].obj] = content[job[v].obj]
      BY <1>8, <2>2, <3>1, <3>2, Undisturbed
    <3>4. object[job[v].coll] = job[v].obj
      BY <3>1 DEF Own, In
    <3> QED
      BY <3>1, <3>3, <3>4 DEF Full
  <2> QED
    BY <2>1, <2>2
<1>9. ASSUME NEW v \in Worker PROVE Gathered(v)'
  <2>1. CASE v = w
    BY <1>5, <2>1 DEF FullOf, Gathered
  <2>2. CASE v # w
    BY <1>2, <2>2 DEF Gathered, In, Changing, Adding
  <2> QED
    BY <2>1, <2>2
<1> QED
  BY <1>7, <1>8, <1>9 DEF Full

\* A restart, or a step of nobody.
LEMMA IdleSteps ==
    ASSUME Typed, RowsOK, Ends, Own, Inside,
           Restart \/ (\E g \in Collection : ConnectSse(g)) \/ UNCHANGED vars
    PROVE  /\ Own' /\ Inside'
           /\ (\A s : Server = {s} => (Full => Full'))
<1> USE DEF database, memory
<1>0. /\ \A g \in Collection : object[g] # None => object[g] \in Object /\ group[g] # None
      /\ \A g \in Collection : group[g] # None => group[g] \in Config /\ group[g] \in AllConfig
  BY ConfigAssumption DEF Typed, MemoryTyped, Inside, Ends
<1>1. CASE Restart
  <2>1. /\ UNCHANGED <<rows, group, servers>> /\ \A w \in Worker : job'[w] = None
        /\ instances' = {t \in Tool : rows[t] = "on" /\ Owner[t] \in servers}
        /\ \A g \in Collection : object'[g] # None <=> group[g] # None
        /\ \A g, h \in Collection : object'[g] # None /\ object'[g] = object'[h] => g = h
        /\ \A g \in Live : content'[object'[g]] = ServedAtStart(g, instances')
    BY <1>1, RestartDoes
  <2>2. Own'
    BY <2>1 DEF Own, In
  <2>3. ASSUME NEW g \in Collection, object'[g] # None
        PROVE  /\ g \in Live /\ group[g] \in AllConfig /\ group[g] # None
               /\ Effective(group[g]) = Selected(rows, group[g])
    BY <1>0, <2>1, <2>3, EffectiveIsSelected DEF Live
  <2>4. ASSUME NEW g \in Collection, object'[g] # None
        PROVE  content'[object'[g]] \subseteq Selected(rows, group[g])
    <3>1. ServedAtStart(g, instances') \subseteq Effective(group[g])
      BY DEF ServedAtStart
    <3> QED
      BY <2>1, <2>3, <2>4, <3>1
  <2>5. Inside'
    BY <1>0, <2>1, <2>4 DEF Inside, Prepared, In
  <2>6. ASSUME NEW s, Server = {s}, NEW g \in Collection, object'[g] # None
        PROVE  Selected(rows, group[g]) \cap instances' \subseteq content'[object'[g]]
    <3>1. Resolvable(group[g]) \/ instances' = {}
      <4>1. ASSUME NEW t \in instances' PROVE s \in servers
        BY <2>1, <2>6, <4>1, OwnerAssumption
      <4>2. group[g].servers \subseteq {s}
        BY <2>3, <2>6 DEF AllConfig
      <4> QED
        BY <4>1, <4>2 DEF Resolvable
    <3>2. Effective(group[g]) \cap instances' \subseteq ServedAtStart(g, instances')
      BY <2>3, <2>6, <3>1 DEF ServedAtStart
    <3> QED
      BY <2>1, <2>3, <2>6, <3>2
  <2>7. ASSUME NEW s, Server = {s} PROVE Full'
    BY <2>1, <2>6, <2>7 DEF Full, Gathered, In
  <2> QED
    BY <2>2, <2>5, <2>7
<1>2. CASE (\E g \in Collection : ConnectSse(g)) \/ UNCHANGED vars
  <2>1. UNCHANGED <<rows, instances, group, object, content, job, failed>>
    BY <1>2, ConnectSseDoes DEF vars
  <2>2. Own'
    BY <2>1 DEF Own, In
  <2>3. Inside'
    BY <2>1 DEF Inside, Prepared, Stores, Leaving, Dropping, In
  <2>4. Full => Full'
    BY <2>1 DEF Full, Gathered, Stores, Arriving, Coming, In
  <2> QED
    BY <2>2, <2>3, <2>4
<1> QED
  BY <1>1, <1>2

\* What holds of tools, endpoints and selections together.
Kept == RowsOK /\ Offers /\ Ends /\ Own /\ Inside

LEMMA KeptNext ==
    ASSUME \A c, d \in Config : Overwrite(c, d) = d, Around, Kept, [Next]_vars
    PROVE  Kept'
<1>1. RowsOK' /\ Offers' /\ Ends'
  BY ToolsNext, EndsNext DEF Around, Orderly, Kept
<1>2. Own' /\ Inside'
  <2>1. ASSUME NEW w \in Worker, Acts(w) PROVE Own' /\ Inside'
    BY <2>1, OwnActs, InsideActs DEF Kept
  <2>2. CASE Restart \/ (\E g \in Collection : ConnectSse(g)) \/ UNCHANGED vars
    BY <2>2, IdleSteps DEF Around, Kept
  <2> QED
    BY <2>1, <2>2 DEF Next, Acts
<1> QED
  BY <1>1, <1>2 DEF Kept

LEMMA FullNext ==
    ASSUME \A c, d \in Config : Overwrite(c, d) = d, NEW s, Server = {s},
           Around, Kept, Full, [Next]_vars
    PROVE  Full'
<1>1. ASSUME NEW w \in Worker, Acts(w) PROVE Full'
  BY <1>1, FullActs DEF Kept
<1>2. CASE Restart \/ (\E g \in Collection : ConnectSse(g)) \/ UNCHANGED vars
  BY <1>2, IdleSteps DEF Around, Kept
<1> QED
  BY <1>1, <1>2 DEF Next, Acts

LEMMA KeptInit == ASSUME Init PROVE Kept /\ Full
<1>1. On = {}
  BY NoneAssumption DEF Init, On
<1>2. RowsOK /\ Offers
  BY <1>1 DEF Init, RowsOK, Offers, In
<1>3. Ends /\ Own /\ Inside /\ Full
  BY DEF Init, Ends, Own, Inside, Prepared, Full, Gathered, In
<1> QED
  BY <1>2, <1>3 DEF Kept

LEMMA AlwaysKept ==
    ASSUME \A c, d \in Config : Overwrite(c, d) = d
    PROVE  Spec /\ []Orderly => []Kept
<1>1. Init => Kept
  BY KeptInit
<1>2. Typed /\ Typed' /\ Orderly /\ Orderly' /\ Kept /\ [Next]_vars => Kept'
  BY KeptNext DEF Around
<1> QED
  BY <1>1, <1>2, TypedInvariant, PTL DEF Spec

\* While nobody is under way an endpoint that is there has a stored selection.
LEMMA AtRest ==
    ASSUME Typed, Kept, Idle, ~failed, NEW g \in Collection, object[g] # None
    PROVE  /\ Effective(group[g]) = Selected(rows, group[g])
           /\ content[object[g]] \subseteq Selected(rows, group[g])
           /\ content[object[g]] \subseteq instances
<1>1. group[g] \in AllConfig
  BY DEF Kept, Ends, Typed, TablesTyped
<1>2. \A w \in Worker : ~Stores(w, g)
  BY DEF Idle, Stores, In
<1>3. Leaving = {}
  BY DEF Leaving, Dropping, Idle, In
<1>4. content[object[g]] \subseteq Selected(rows, group[g])
  BY <1>2, <1>3 DEF Kept, Inside
<1>5. content[object[g]] \subseteq On /\ On \subseteq instances
  BY <1>3 DEF Kept, Offers, RowsOK, Idle, In
<1> QED
  BY <1>1, <1>4, <1>5, EffectiveIsSelected

\* An update that leaves no list empty that was not writes the whole row.  Then,
\* unless a call to the database has failed, a collection offers nothing outside
\* the selection of its stored configuration while no request is under way,
\* whatever was registered, updated or restarted in between.  Requests for
\* different collections may overlap; those for one, and changes of the tools,
\* may not.
THEOREM OffersStaySelected ==
    ASSUME \A c, d \in Config : Overwrite(c, d) = d
    PROVE  Spec /\ []Orderly => []OffersSelected
<1>1. Typed /\ Kept => OffersSelected
  <2> SUFFICES ASSUME Typed, Kept, Idle, ~failed, NEW g \in Collection, object[g] # None
               PROVE  content[object[g]] \subseteq Effective(group[g])
    BY DEF OffersSelected
  <2> QED
    BY AtRest
<1> QED
  BY <1>1, AlwaysKept, TypedInvariant, PTL

\* With one upstream server a collection offers exactly the tools of the proxy
\* that its stored configuration selects, after every sequence of requests and
\* restarts without a failed call, as many of them for different collections at
\* once as there are.  With two servers it may not: handleToolAddition
\* (toolcollection.go:448) gives up when any collection includes a server that
\* is gone.
THEOREM CollectionsFollow ==
    ASSUME \A c, d \in Config : Overwrite(c, d) = d, NEW s, Server = {s}
    PROVE  Spec /\ []Orderly => []CollectionsExact
<1>1. Init => Full
  BY KeptInit
<1>2. Typed /\ Typed' /\ Orderly /\ Orderly' /\ Kept /\ Full /\ [Next]_vars => Full'
  BY FullNext DEF Around
<1>3. Typed /\ Kept /\ Full => CollectionsExact
  <2> SUFFICES ASSUME Typed, Kept, Full, Idle, ~failed, NEW g \in Collection, object[g] # None
               PROVE  content[object[g]] = Effective(group[g]) \cap instances
    BY DEF CollectionsExact
  <2>1. \A w \in Worker : ~Stores(w, g)
    BY DEF Idle, Stores, In
  <2>2. Arriving = {}
    BY DEF Arriving, Coming, Idle, In
  <2>3. Selected(rows, group[g]) \cap instances \subseteq content[object[g]]
    BY <2>1, <2>2 DEF Full
  <2> QED
    BY <2>3, AtRest
<1> QED
  BY <1>1, <1>2, <1>3, AlwaysKept, TypedInvariant, PTL DEF Spec

\* With one handler goroutine both hypotheses hold of themselves.
LEMMA OneHandlerIsOrderly ==
    ASSUME NEW w, Worker = {w}
    PROVE  Spec => []Orderly
<1>1. Orderly
  BY DEF Orderly, ToolsAlone, OneEach
<1> QED
  BY <1>1, PTL
==============================================================================
