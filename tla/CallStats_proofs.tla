--------------------------- MODULE CallStats_proofs ---------------------------
(* Proofs about the call counters: for any users, servers and number of calls *)
(* at a time, no call is counted twice, and fewer are lost than may race for  *)
(* the first row of a day.                                                    *)
EXTENDS CallStats, FiniteSetTheorems, WellFoundedInduction, TLAPS

\* The calls of a key that have found no row and are about to write the first.
Racing(k) == {c \in calls : c.key = k /\ c.found = "none"}

\* The calls of a key that were refused by the index and not counted.
Lost(k) == made[k] - stat[k] - Pending(k) - failed[k]

\* Without a row nothing is lost yet; with one, those that were refused and
\* those that may still be leave one place, the place of the call that wrote it.
Raced(k) ==
    /\ Lost(k) >= 0
    /\ stat[k] = 0 => Lost(k) = 0
    /\ stat[k] > 0 => Lost(k) + Cardinality(Racing(k)) < MaxCallers

Counted ==
    /\ IsFiniteSet(calls) /\ Cardinality(calls) <= MaxCallers
    /\ \A k \in Key : Raced(k)

IInv == TypeOK /\ Counted

USE NoneAssumption, BoundsAssumption, RangeAssumption

------------------------------------------------------------------------------
(* Counting the calls under way.                                            *)

LEMMA CallsCounted ==
    ASSUME IsFiniteSet(calls), NEW k
    PROVE  /\ Cardinality(calls) \in Nat
           /\ Pending(k) \in Nat
           /\ Cardinality(Racing(k)) \in Nat
           /\ Cardinality(Racing(k)) <= Cardinality(calls)
<1>1. {c \in calls : c.key = k} \in SUBSET calls /\ Racing(k) \in SUBSET calls
  BY DEF Racing
<1> QED
  BY <1>1, FS_Subset, FS_CardinalityType DEF Pending

LEMMA CallEnds ==
    ASSUME IsFiniteSet(calls), NEW c \in calls, calls' = calls \ {c}, NEW k
    PROVE  /\ IsFiniteSet(calls') /\ Cardinality(calls') = Cardinality(calls) - 1
           /\ Pending(k)' = IF c.key = k THEN Pending(k) - 1 ELSE Pending(k)
           /\ Cardinality(Racing(k)') =
                IF c.key = k /\ c.found = "none" THEN Cardinality(Racing(k)) - 1
                ELSE Cardinality(Racing(k))
           /\ Cardinality(Racing(k)') \in 0..Cardinality(calls')
<1> DEFINE P == {d \in calls : d.key = k}
<1>1. P \in SUBSET calls /\ Racing(k) \in SUBSET calls
  BY DEF Racing
<1>2. IsFiniteSet(P) /\ IsFiniteSet(Racing(k))
  BY <1>1, FS_Subset
<1>3. {d \in calls' : d.key = k} = P \ {c} /\ Racing(k)' = Racing(k) \ {c}
  BY DEF Racing
<1>4. Cardinality(P \ {c}) = IF c.key = k THEN Cardinality(P) - 1 ELSE Cardinality(P)
  BY <1>2, FS_RemoveElement
<1>5. Cardinality(Racing(k) \ {c}) =
        IF c.key = k /\ c.found = "none" THEN Cardinality(Racing(k)) - 1
        ELSE Cardinality(Racing(k))
  BY <1>2, FS_RemoveElement DEF Racing
<1>6. IsFiniteSet(calls \ {c}) /\ Cardinality(calls \ {c}) = Cardinality(calls) - 1
  BY FS_RemoveElement
<1>7. Cardinality(Racing(k) \ {c}) \in 0..Cardinality(calls \ {c})
  <2>1. Racing(k) \ {c} \in SUBSET (calls \ {c})
    BY DEF Racing
  <2> QED
    BY <1>6, <2>1, FS_Subset, FS_CardinalityType
<1> QED
  BY <1>3, <1>4, <1>5, <1>6, <1>7 DEF Pending

LEMMA CallStarts ==
    ASSUME IsFiniteSet(calls), NEW d, d \notin calls, calls' = calls \cup {d}, NEW k
    PROVE  /\ IsFiniteSet(calls') /\ Cardinality(calls') = Cardinality(calls) + 1
           /\ Pending(k)' = IF d.key = k THEN Pending(k) + 1 ELSE Pending(k)
           /\ Cardinality(Racing(k)') =
                IF d.key = k /\ d.found = "none" THEN Cardinality(Racing(k)) + 1
                ELSE Cardinality(Racing(k))
<1> DEFINE P == {c \in calls : c.key = k}
<1>1. P \in SUBSET calls /\ Racing(k) \in SUBSET calls
  BY DEF Racing
<1>2. IsFiniteSet(P) /\ IsFiniteSet(Racing(k)) /\ d \notin P /\ d \notin Racing(k)
  BY <1>1, FS_Subset
<1>3. /\ {c \in calls' : c.key = k} = IF d.key = k THEN P \cup {d} ELSE P
      /\ Racing(k)' = IF d.key = k /\ d.found = "none" THEN Racing(k) \cup {d} ELSE Racing(k)
  BY DEF Racing
<1>4. /\ Cardinality(P \cup {d}) = Cardinality(P) + 1
      /\ Cardinality(Racing(k) \cup {d}) = Cardinality(Racing(k)) + 1
  BY <1>2, FS_AddElement
<1>5. IsFiniteSet(calls \cup {d}) /\ Cardinality(calls \cup {d}) = Cardinality(calls) + 1
  BY FS_AddElement
<1> QED
  BY <1>3, <1>4, <1>5 DEF Pending

LEMMA CallFound ==
    ASSUME IsFiniteSet(calls), NEW c \in calls, NEW d, d \notin calls, d.key = c.key,
           c.found = "unknown", calls' = (calls \ {c}) \cup {d}, NEW k
    PROVE  /\ IsFiniteSet(calls') /\ Cardinality(calls') = Cardinality(calls)
           /\ Pending(k)' = Pending(k)
           /\ Cardinality(Racing(k)') =
                IF d.key = k /\ d.found = "none" THEN Cardinality(Racing(k)) + 1
                ELSE Cardinality(Racing(k))
<1> DEFINE P == {b \in calls : b.key = k}
<1>1. P \in SUBSET calls /\ Racing(k) \in SUBSET calls
  BY DEF Racing
<1>2. IsFiniteSet(P) /\ IsFiniteSet(Racing(k)) /\ d \notin P /\ d \notin Racing(k)
  BY <1>1, FS_Subset
<1>3. /\ {b \in calls' : b.key = k} = IF d.key = k THEN (P \ {c}) \cup {d} ELSE P
      /\ Racing(k)' = IF d.key = k /\ d.found = "none" THEN Racing(k) \cup {d} ELSE Racing(k)
  BY DEF Racing
<1>4. d.key = k => Cardinality((P \ {c}) \cup {d}) = Cardinality(P)
  <2> SUFFICES ASSUME d.key = k PROVE Cardinality((P \ {c}) \cup {d}) = Cardinality(P)
    OBVIOUS
  <2>1. c \in P /\ Cardinality(P) \in Nat
    BY <1>2, FS_CardinalityType
  <2>2. IsFiniteSet(P \ {c}) /\ Cardinality(P \ {c}) = Cardinality(P) - 1 /\ d \notin P \ {c}
    BY <1>2, <2>1, FS_RemoveElement
  <2>3. Cardinality((P \ {c}) \cup {d}) = Cardinality(P \ {c}) + 1
    BY <2>2, FS_AddElement
  <2> QED
    BY <2>1, <2>2, <2>3
<1>5. Cardinality(Racing(k) \cup {d}) = Cardinality(Racing(k)) + 1
  BY <1>2, FS_AddElement
<1>6. IsFiniteSet(calls') /\ Cardinality(calls') = Cardinality(calls)
  <2>1. Cardinality(calls) \in Nat
    BY FS_CardinalityType
  <2>2. IsFiniteSet(calls \ {c}) /\ Cardinality(calls \ {c}) = Cardinality(calls) - 1
    BY FS_RemoveElement
  <2>3. Cardinality((calls \ {c}) \cup {d}) = Cardinality(calls \ {c}) + 1
        /\ IsFiniteSet((calls \ {c}) \cup {d})
    BY <2>2, FS_AddElement
  <2> QED
    BY <2>1, <2>2, <2>3
<1> QED
  BY <1>3, <1>4, <1>5, <1>6 DEF Pending

------------------------------------------------------------------------------
(* The gateway's steps.  What the counts are, the bounds follow.            *)

CountsTyped ==
    /\ stat \in [Key -> Nat] /\ made \in [Key -> 0..begun] /\ failed \in [Key -> Nat]
    /\ begun \in 0..MaxCalls
    /\ calls \subseteq Call
    /\ \A c, d \in calls : c.id = d.id => c = d

LEMMA BeginKeeps ==
    ASSUME IInv, NEW a \in Account, NEW s \in Server, Begin(a, s)
    PROVE  CountsTyped' /\ Counted'
<1> DEFINE key == <<a, s, today>>
<1>1. key \in Key /\ IsFiniteSet(calls) /\ TypeOK
  BY DEF IInv, TypeOK, Key, Counted
<1>2. PICK i \in 1..MaxCallers :
        /\ \A c \in calls : c.id # i
        /\ calls' = calls \cup {[id |-> i, key |-> key, found |-> "unknown"]}
  BY DEF Begin
<1>3. /\ made' = [made EXCEPT ![key] = @ + 1]
      /\ begun < MaxCalls /\ begun' = begun + 1
      /\ stat' = stat /\ failed' = failed /\ Cardinality(calls) < MaxCallers
  BY DEF Begin, tables
<1> DEFINE d == [id |-> i, key |-> key, found |-> "unknown"]
<1>4. d \in Call /\ d.key = key /\ d.found = "unknown" /\ d.id = i /\ d \notin calls
  BY <1>1, <1>2 DEF Call
<1> HIDE DEF key
<1>5. CountsTyped'
  <2>1. made' \in [Key -> 0..begun']
    BY <1>1, <1>3 DEF TypeOK
  <2>2. calls' \subseteq Call /\ \A b, c \in calls' : b.id = c.id => b = c
    BY <1>1, <1>2, <1>4 DEF TypeOK
  <2> QED
    BY <1>1, <1>3, <2>1, <2>2 DEF TypeOK, CountsTyped
<1> HIDE DEF d
<1>6. /\ IsFiniteSet(calls') /\ Cardinality(calls') = Cardinality(calls) + 1
      /\ \A k \in Key : /\ Pending(k)' = IF key = k THEN Pending(k) + 1 ELSE Pending(k)
                        /\ Cardinality(Racing(k)') = Cardinality(Racing(k))
  BY <1>1, <1>2, <1>4, CallStarts DEF d
<1>7. ASSUME NEW k \in Key PROVE Raced(k)'
  <2>1. Raced(k) /\ Pending(k) \in Nat /\ Cardinality(Racing(k)) \in Nat
    BY <1>1, CallsCounted DEF IInv, Counted
  <2>2. Lost(k)' = Lost(k)
    BY <1>1, <1>3, <1>6, <2>1 DEF Lost, TypeOK
  <2> QED
    BY <1>3, <1>6, <2>1, <2>2 DEF Raced
<1>8. Cardinality(calls) \in Nat
  BY <1>1, FS_CardinalityType
<1> QED
  BY <1>3, <1>5, <1>6, <1>7, <1>8 DEF Counted

LEMMA FirstKeeps ==
    ASSUME IInv, NEW c \in calls, First(c)
    PROVE  CountsTyped' /\ Counted'
<1> DEFINE d == [c EXCEPT !.found = IF stat[c.key] = 0 THEN "none" ELSE "row"]
<1>1. TypeOK /\ IsFiniteSet(calls) /\ c \in Call /\ c.key \in Key
  BY DEF IInv, TypeOK, Counted, Call
<1>2. /\ d \in Call /\ d.id = c.id /\ d.key = c.key
      /\ d.found = IF stat[c.key] = 0 THEN "none" ELSE "row"
  BY <1>1 DEF Call
<1>3. /\ c.found = "unknown" /\ calls' = (calls \ {c}) \cup {d}
      /\ UNCHANGED <<stat, made, begun, failed>>
  BY DEF First, tables
<1> HIDE DEF d
<1>4. d \notin calls
  BY <1>1, <1>2, <1>3 DEF TypeOK
<1>5. CountsTyped'
  <2>1. calls' \subseteq Call /\ \A b, e \in calls' : b.id = e.id => b = e
    BY <1>1, <1>2, <1>3 DEF TypeOK
  <2> QED
    BY <1>1, <1>3, <2>1 DEF TypeOK, CountsTyped
<1>6. /\ IsFiniteSet(calls') /\ Cardinality(calls') = Cardinality(calls)
      /\ \A k \in Key :
            /\ Pending(k)' = Pending(k)
            /\ Cardinality(Racing(k)') =
                 IF d.key = k /\ d.found = "none" THEN Cardinality(Racing(k)) + 1
                 ELSE Cardinality(Racing(k))
  BY <1>1, <1>2, <1>3, <1>4, CallFound
<1>7. ASSUME NEW k \in Key PROVE Raced(k)'
  <2>1. Raced(k) /\ Cardinality(Racing(k)) \in Nat /\ stat[k] \in Nat
    BY <1>1, CallsCounted DEF IInv, Counted, TypeOK
  <2>2. Lost(k)' = Lost(k)
    BY <1>3, <1>6 DEF Lost
  <2> QED
    BY <1>2, <1>3, <1>6, <2>1, <2>2 DEF Raced
<1> QED
  BY <1>5, <1>6, <1>7 DEF IInv, Counted

\* A recording that ends adds one to the count, to the failures or to the lost.
LEMMA EndKeeps ==
    ASSUME IInv, NEW c \in calls, calls' = calls \ {c}, UNCHANGED <<made, begun>>,
           stat' \in [Key -> Nat], failed' \in [Key -> Nat],
           \A k \in Key \ {c.key} : stat'[k] = stat[k] /\ failed'[k] = failed[k],
           LET k == c.key IN
             \/ stat'[k] = stat[k] + 1 /\ failed'[k] = failed[k]
             \/ stat'[k] = stat[k] /\ failed'[k] = failed[k] + 1
             \/ stat'[k] = stat[k] /\ failed'[k] = failed[k] /\ c.found = "none" /\ stat[k] > 0
    PROVE  CountsTyped' /\ Counted'
<1>1. /\ TypeOK /\ IsFiniteSet(calls) /\ c \in Call /\ c.key \in Key
      /\ Cardinality(calls) <= MaxCallers /\ Cardinality(calls) \in Nat
  BY CallsCounted DEF IInv, TypeOK, Counted, Call
<1>2. CountsTyped'
  BY <1>1 DEF TypeOK, CountsTyped
<1>3. /\ IsFiniteSet(calls') /\ Cardinality(calls') = Cardinality(calls) - 1
      /\ \A k \in Key :
            /\ Pending(k)' = IF c.key = k THEN Pending(k) - 1 ELSE Pending(k)
            /\ Cardinality(Racing(k)') =
                 IF c.key = k /\ c.found = "none" THEN Cardinality(Racing(k)) - 1
                 ELSE Cardinality(Racing(k))
            /\ Cardinality(Racing(k)') \in 0..Cardinality(calls')
  BY <1>1, CallEnds
<1>4. ASSUME NEW k \in Key PROVE Raced(k)'
  <2>1. /\ Raced(k) /\ Pending(k) \in Nat /\ Cardinality(Racing(k)) \in Nat
        /\ stat[k] \in Nat /\ failed[k] \in Nat /\ made[k] \in Nat
    BY <1>1, CallsCounted DEF IInv, Counted, TypeOK
  <2>2. CASE c.key # k
    <3>1. Lost(k)' = Lost(k)
      BY <1>3, <2>2 DEF Lost
    <3> QED
      BY <1>3, <2>1, <2>2, <3>1 DEF Raced
  <2>3. CASE c.key = k
    <3>1. Lost(k) \in Int
      BY <2>1 DEF Lost
    <3>2. CASE stat'[k] = stat[k] + 1 /\ failed'[k] = failed[k]
      <4>1. Lost(k)' = Lost(k)
        BY <1>3, <2>1, <2>3, <3>2 DEF Lost
      <4>2. /\ Cardinality(Racing(k)') \in Nat
            /\ Cardinality(Racing(k)') <= Cardinality(Racing(k))
            /\ Cardinality(Racing(k)') < MaxCallers
        <5>1. MaxCallers \in Nat /\ Cardinality(calls') \in Nat /\ Cardinality(calls') < MaxCallers
          BY <1>1, <1>3, FS_CardinalityType
        <5>2. Cardinality(Racing(k)') \in 0..Cardinality(calls')
          BY <1>3
        <5>3. Cardinality(Racing(k)') =
                 IF c.key = k /\ c.found = "none" THEN Cardinality(Racing(k)) - 1
                 ELSE Cardinality(Racing(k))
          BY <1>3
        <5> QED
          BY <2>1, <5>1, <5>2, <5>3
      <4>3. stat'[k] > 0 /\ (stat[k] = 0 \/ stat[k] > 0)
        BY <2>1, <3>2
      <4>4. Lost(k)' >= 0 /\ Lost(k)' + Cardinality(Racing(k)') < MaxCallers
        BY <2>1, <3>1, <4>1, <4>2, <4>3 DEF Raced
      <4> QED
        BY <4>3, <4>4 DEF Raced
    <3>3. CASE stat'[k] = stat[k] /\ failed'[k] = failed[k] + 1
      <4>1. Lost(k)' = Lost(k)
        BY <1>3, <2>1, <2>3, <3>3 DEF Lost
      <4> QED
        BY <1>3, <2>1, <2>3, <3>1, <3>3, <4>1 DEF Raced
    <3>4. CASE stat'[k] = stat[k] /\ failed'[k] = failed[k] /\ c.found = "none" /\ stat[k] > 0
      <4>1. Lost(k)' = Lost(k) + 1
        BY <1>3, <2>1, <2>3, <3>4 DEF Lost
      <4> QED
        BY <1>3, <2>1, <2>3, <3>1, <3>4, <4>1 DEF Raced
    <3> QED
      BY <2>3, <3>2, <3>3, <3>4
  <2> QED
    BY <2>2, <2>3
<1> QED
  BY <1>1, <1>2, <1>3, <1>4 DEF Counted

LEMMA RecordKeeps ==
    ASSUME IInv, NEW c \in calls, Record(c)
    PROVE  CountsTyped' /\ Counted'
<1>1. /\ TypeOK /\ c.key \in Key /\ stat \in [Key -> Nat] /\ failed \in [Key -> Nat]
  BY DEF IInv, TypeOK, Call
<1>2. CASE CreateRow(c)
  <2>1. /\ calls' = calls \ {c} /\ UNCHANGED <<made, begun, failed>> /\ c.found = "none"
        /\ stat' = [stat EXCEPT ![c.key] = IF @ = 0 THEN 1 ELSE @]
    BY <1>2 DEF CreateRow
  <2>2. \/ stat[c.key] = 0 /\ stat'[c.key] = stat[c.key] + 1
        \/ stat[c.key] > 0 /\ stat'[c.key] = stat[c.key]
    BY <1>1, <2>1
  <2>3. stat' \in [Key -> Nat] /\ \A k \in Key \ {c.key} : stat'[k] = stat[k]
    BY <1>1, <2>1
  <2> QED
    BY <1>1, <2>1, <2>2, <2>3, EndKeeps
<1>3. CASE Increment(c)
  BY <1>1, <1>3, EndKeeps DEF Increment
<1>4. CASE Ignore(c)
  BY <1>1, <1>4, EndKeeps DEF Ignore, tables
<1> QED
  BY <1>2, <1>3, <1>4, FirstKeeps DEF Record

------------------------------------------------------------------------------
(* The other steps: they leave the counts alone.                            *)

LEMMA CountsStay ==
    ASSUME IInv, UNCHANGED <<stat, calls, made, begun, failed>>
    PROVE  CountsTyped' /\ Counted'
<1>1. CountsTyped'
  BY DEF IInv, TypeOK, CountsTyped
<1>2. ASSUME NEW k \in Key PROVE Raced(k)'
  <2>1. Raced(k)
    BY DEF IInv, Counted
  <2> QED
    BY <2>1 DEF Raced, Lost, Pending, Racing
<1> QED
  BY <1>1, <1>2 DEF IInv, Counted

\* What is put on the screen are rows of ListCallStats.
LEMMA ListTyped == ASSUME TypeOK PROVE ListCallStats \subseteq CallStat
<1> SUFFICES ASSUME NEW r \in ListCallStats PROVE r \in CallStat
  OBVIOUS
<1>1. PICK k \in Key :
        /\ stat[k] > 0
        /\ r = [date |-> k[3], username |-> name[k[1]], server |-> k[2],
                count |-> stat[k], of |-> k[1]]
  BY DEF ListCallStats
<1>2. k[1] \in Account /\ k[2] \in Server /\ k[3] \in Day
  BY DEF Key
<1>3. stat[k] \in 1..MaxCalls /\ name[k[1]] \in Name \cup {None}
  BY <1>1, <1>2 DEF TypeOK
<1> QED
  BY <1>1, <1>2, <1>3 DEF CallStat

ShownTyped ==
    /\ page \in {"all", "mine"} /\ me \in Name
    /\ rows \subseteq CallStat
    /\ error \in BOOLEAN /\ loading \in BOOLEAN
    /\ range \in Ranges /\ shift \in {-1, 0, 1}
    /\ req \in Req
    /\ visits \in 0..MaxVisits

LEMMA ShownKeeps ==
    ASSUME TypeOK,
           \/ Serve \/ Hear \/ GiveUp
           \/ \E p \in {"all", "mine"}, n \in Name : Visit(p, n)
           \/ \E r \in Ranges : ChooseRange(r)
    PROVE  ShownTyped'
<1>1. CASE Serve
  <2>1. req' \in Req
    BY <1>1, ListTyped DEF Serve, Req
  <2> QED
    BY <1>1, <2>1 DEF Serve, TypeOK, ShownTyped
<1>2. ASSUME NEW ok \in BOOLEAN, LoadSettles(ok) PROVE ShownTyped'
  <2>1. rows' \subseteq CallStat
    BY <1>2 DEF LoadSettles, Kept, TypeOK, Req
  <2>2. req' \in Req /\ loading' \in BOOLEAN /\ error' \in BOOLEAN
    BY <1>2 DEF LoadSettles, Req
  <2> QED
    BY <1>2, <2>1, <2>2 DEF LoadSettles, TypeOK, ShownTyped
<1>3. ASSUME NEW p \in {"all", "mine"}, NEW n \in Name, Visit(p, n) PROVE ShownTyped'
  <2>1. visits' \in 0..MaxVisits
    BY <1>3 DEF Visit, TypeOK
  <2>2. req' \in Req /\ rows' \subseteq CallStat /\ range' \in Ranges
    BY <1>3 DEF Visit, Asked, Req, Ranges
  <2> QED
    BY <1>3, <2>1, <2>2 DEF Visit, TypeOK, ShownTyped
<1>4. ASSUME NEW r \in Ranges, ChooseRange(r) PROVE ShownTyped'
  BY <1>4 DEF ChooseRange, TypeOK, ShownTyped
<1> QED
  BY <1>1, <1>2, <1>3, <1>4 DEF Hear, GiveUp

LEMMA NamesKept ==
    ASSUME TypeOK
    PROVE  /\ \A a \in Account, n \in Name : CreateUser(a, n) =>
                name' \in [Account -> Name \cup {None}] /\ bore' \in [Account -> Name \cup {None}]
           /\ \A a \in Account : DeleteUser(a) =>
                name' \in [Account -> Name \cup {None}] /\ bore' = bore
BY DEF TypeOK, CreateUser, DeleteUser

LEMMA TypedAgain ==
    ASSUME CountsTyped', Counted', ShownTyped', today' \in Day,
           name' \in [Account -> Name \cup {None}], bore' \in [Account -> Name \cup {None}]
    PROVE  IInv'
<1>1. stat' \in [Key -> 0..MaxCalls] /\ failed' \in [Key -> 0..begun']
  <2>1. ASSUME NEW k \in Key PROVE Pending(k)' \in Nat
    <3>1. IsFiniteSet(calls') /\ {c \in calls' : c.key = k} \in SUBSET calls'
      BY DEF Counted
    <3> QED
      BY <3>1, FS_Subset, FS_CardinalityType DEF Pending
  <2>2. \A k \in Key : stat'[k] \in 0..MaxCalls /\ failed'[k] \in 0..begun'
    BY <2>1 DEF Counted, CountsTyped, Raced, Lost
  <2> QED
    BY <2>2 DEF CountsTyped
<1> QED
  BY <1>1 DEF IInv, TypeOK, CountsTyped, ShownTyped

LEMMA NextKeeps == IInv /\ [Next]_vars => IInv'
<1> SUFFICES ASSUME IInv, [Next]_vars PROVE IInv'
  OBVIOUS
<1>1. TypeOK
  BY DEF IInv
<1>2. UNCHANGED shownVars => ShownTyped'
  BY <1>1 DEF shownVars, TypeOK, ShownTyped
<1>3. UNCHANGED today => today' \in Day
  BY <1>1 DEF TypeOK
<1>4. UNCHANGED <<name, bore>> =>
        name' \in [Account -> Name \cup {None}] /\ bore' \in [Account -> Name \cup {None}]
  BY <1>1 DEF TypeOK
<1>5. ASSUME NEW a \in Account, NEW s \in Server, Begin(a, s), UNCHANGED <<today, shownVars>>
      PROVE  IInv'
  <2>1. UNCHANGED <<name, bore>>
    BY <1>5 DEF Begin, tables
  <2> QED
    BY <1>2, <1>3, <1>4, <1>5, <2>1, BeginKeeps, TypedAgain
<1>6. ASSUME NEW c \in calls, Record(c), UNCHANGED <<today, shownVars>>
      PROVE  IInv'
  <2>1. UNCHANGED <<name, bore>>
    BY <1>6 DEF Record, First, CreateRow, Increment, Ignore, tables
  <2> QED
    BY <1>2, <1>3, <1>4, <1>6, <2>1, RecordKeeps, TypedAgain
<1>7. ASSUME NEW a \in Account, UNCHANGED <<today, shownVars>>,
             DeleteUser(a) \/ \E n \in Name : CreateUser(a, n)
      PROVE  IInv'
  <2>1. UNCHANGED <<stat, calls, made, begun, failed>>
    BY <1>7 DEF DeleteUser, CreateUser
  <2>2. name' \in [Account -> Name \cup {None}] /\ bore' \in [Account -> Name \cup {None}]
    BY <1>1, <1>4, <1>7, NamesKept DEF TypeOK
  <2> QED
    BY <1>2, <1>3, <1>7, <2>1, <2>2, CountsStay, TypedAgain
<1>8. CASE /\ \/ Serve \/ Hear \/ GiveUp
              \/ \E p \in {"all", "mine"}, n \in Name : Visit(p, n)
              \/ \E r \in Ranges : ChooseRange(r)
           /\ UNCHANGED <<tables, calls, made, begun, failed, today>>
  <2>1. ShownTyped'
    BY <1>1, <1>8, ShownKeeps
  <2>2. UNCHANGED <<stat, calls, made, begun, failed>> /\ UNCHANGED <<name, bore>> /\ UNCHANGED today
    BY <1>8 DEF tables
  <2> QED
    BY <1>3, <1>4, <2>1, <2>2, CountsStay, TypedAgain
<1>9. CASE Midnight
  <2>1. UNCHANGED <<stat, calls, made, begun, failed>> /\ UNCHANGED <<name, bore>>
        /\ UNCHANGED shownVars
    BY <1>9 DEF Midnight, tables
  <2>2. today' \in Day
    BY <1>1, <1>9 DEF Midnight, TypeOK, Day
  <2> QED
    BY <1>2, <1>4, <2>1, <2>2, CountsStay, TypedAgain
<1>10. CASE UNCHANGED vars
  <2>1. UNCHANGED <<stat, calls, made, begun, failed>> /\ UNCHANGED <<name, bore>>
        /\ UNCHANGED shownVars /\ UNCHANGED today
    BY <1>10 DEF vars, tables
  <2> QED
    BY <1>2, <1>3, <1>4, <2>1, CountsStay, TypedAgain
<1> QED
  BY <1>5, <1>6, <1>7, <1>8, <1>9, <1>10 DEF Next

LEMMA InitKeeps == Init => IInv
<1> SUFFICES ASSUME Init PROVE IInv
  OBVIOUS
<1>1. PICK a \in Account, n \in Name : name = [b \in Account |-> IF b = a THEN n ELSE None]
  BY DEF Init
<1>2. /\ name \in [Account -> Name \cup {None}] /\ bore = name
      /\ me \in {name[b] : b \in Account} \ {None}
  BY <1>1 DEF Init
<1>3. me \in Name
  BY <1>2
<1>4. /\ today \in Day /\ visits \in 0..MaxVisits /\ req \in Req /\ range \in Ranges
      /\ rows \subseteq CallStat /\ shift \in {-1, 0, 1} /\ page \in {"all", "mine"}
      /\ error \in BOOLEAN /\ loading \in BOOLEAN
  <2>1. today \in Day /\ visits \in 0..MaxVisits /\ shift \in {-1, 0, 1}
    BY DEF Init, Day
  <2>2. req \in Req /\ range \in Ranges /\ rows \subseteq CallStat /\ page \in {"all", "mine"}
    BY DEF Init, Asked, Req, Ranges
  <2>3. error \in BOOLEAN /\ loading \in BOOLEAN
    BY Zenon DEF Init
  <2> QED
    BY <2>1, <2>2, <2>3
<1>5. /\ stat \in [Key -> 0..MaxCalls] /\ made \in [Key -> 0..begun]
      /\ failed \in [Key -> 0..begun] /\ begun \in 0..MaxCalls
      /\ calls \subseteq Call /\ \A c, d \in calls : c.id = d.id => c = d
  BY DEF Init
<1>6. TypeOK
  BY <1>2, <1>3, <1>4, <1>5 DEF TypeOK
<1>7. IsFiniteSet(calls) /\ Cardinality(calls) = 0
  BY FS_EmptySet DEF Init
<1>8. ASSUME NEW k \in Key PROVE Raced(k)
  <2>1. {c \in calls : c.key = k} = {}
    BY DEF Init
  <2>2. stat[k] = 0 /\ made[k] = 0 /\ failed[k] = 0 /\ Pending(k) = 0
    BY <2>1, FS_EmptySet DEF Init, Pending
  <2> QED
    BY <2>2 DEF Raced, Lost
<1> QED
  BY <1>6, <1>7, <1>8 DEF IInv, Counted

LEMMA AlwaysIInv == Spec => []IInv
BY InitKeeps, NextKeeps, PTL DEF Spec

------------------------------------------------------------------------------
(* The results.                                                             *)

\* Every variable keeps its shape: what the pages hold are rows of the list,
\* and each call under way is one of its own (proxy.go, user.go).
THEOREM StatsTyped == Spec => []TypeOK
<1>1. IInv => TypeOK
  BY DEF IInv
<1> QED
  BY <1>1, AlwaysIInv, PTL

\* No call is counted twice, and of the calls that race for the first row of a
\* day at most as many are lost as there are calls at a time, less one
\* (proxy.go, recordUserCall).
THEOREM CallsAreCounted == Spec => []CountsCalls
<1>1. IInv => CountsCalls
  <2> SUFFICES ASSUME IInv, NEW k \in Key
               PROVE  /\ stat[k] + Pending(k) + failed[k] <= made[k]
                      /\ made[k] <= stat[k] + Pending(k) + failed[k] + MaxCallers - 1
    BY DEF CountsCalls
  <2>1. Raced(k) /\ IsFiniteSet(calls)
    BY DEF IInv, Counted
  <2>2. Pending(k) \in Nat /\ Cardinality(Racing(k)) \in Nat
    BY <2>1, CallsCounted
  <2>3. stat[k] \in Nat /\ made[k] \in Nat /\ failed[k] \in Nat
    BY DEF IInv, TypeOK
  <2>4. Lost(k) \in 0..(MaxCallers - 1)
    <3>1. MaxCallers \in Nat \ {0} /\ Lost(k) \in Int
      BY <2>2, <2>3 DEF Lost
    <3> QED
      BY <2>1, <2>2, <2>3, <3>1 DEF Raced
  <2> QED
    BY <2>2, <2>3, <2>4 DEF Lost
<1> QED
  BY <1>1, AlwaysIInv, PTL

------------------------------------------------------------------------------
(* What a page shows, row by row: the sums of ShownMade are over these rows. *)

\* Rows of different keys, none counting more than was made, under the name the
\* account has or had, or under none when it is gone for good.
RowsTrue(S) ==
    /\ \A r \in S : /\ r.count <= made[<<r.of, r.server, r.date>>]
                    /\ bore[r.of] # None
                    /\ r.username = bore[r.of] \/ (r.username = None /\ name[r.of] = None)
    /\ \A q, r \in S : q.of = r.of /\ q.server = r.server /\ q.date = r.date => q = r

RowsMade == RowsTrue(rows) /\ (page = "mine" => \A r \in rows : r.username = me)

\* Who calls has had a name, which he bears or has lost.
NamesBorne ==
    /\ \A k \in Key : made[k] > 0 => bore[k[1]] # None
    /\ \A a \in Account : name[a] \in {None, bore[a]}

ShownInv == IInv /\ NamesBorne /\ RowsMade /\ RowsTrue(req.answer)

LEMMA ListTrue == ASSUME IInv, NamesBorne PROVE RowsTrue(ListCallStats)
<1>1. ASSUME NEW k \in Key, stat[k] > 0
      PROVE  stat[k] <= made[k] /\ bore[k[1]] # None /\ name[k[1]] \in {None, bore[k[1]]}
  <2>1. Pending(k) \in Nat /\ stat[k] \in Nat /\ made[k] \in Nat /\ failed[k] \in Nat
    BY CallsCounted DEF IInv, Counted, TypeOK
  <2>2. stat[k] <= made[k]
    BY <2>1 DEF IInv, Counted, Raced, Lost
  <2> QED
    BY <1>1, <2>1, <2>2 DEF NamesBorne, Key
<1>2. ASSUME NEW r \in ListCallStats
      PROVE  \E k \in Key : /\ stat[k] > 0 /\ r.count = stat[k] /\ r.username = name[k[1]]
                            /\ r = [date |-> k[3], username |-> name[k[1]], server |-> k[2],
                                    count |-> stat[k], of |-> k[1]]
                            /\ k = <<r.of, r.server, r.date>>
  <2>1. PICK k \in Key :
          /\ stat[k] > 0
          /\ r = [date |-> k[3], username |-> name[k[1]], server |-> k[2],
                  count |-> stat[k], of |-> k[1]]
    BY DEF ListCallStats
  <2> QED
    BY <2>1 DEF Key
<1>3. ASSUME NEW r \in ListCallStats
      PROVE  /\ r.count <= made[<<r.of, r.server, r.date>>]
             /\ bore[r.of] # None
             /\ r.username = bore[r.of] \/ (r.username = None /\ name[r.of] = None)
  <2>1. PICK k \in Key :
          /\ stat[k] > 0 /\ r.count = stat[k] /\ r.username = name[k[1]]
          /\ r.of = k[1] /\ k = <<r.of, r.server, r.date>>
    BY <1>2
  <2>2. stat[k] <= made[k] /\ bore[k[1]] # None /\ name[k[1]] \in {None, bore[k[1]]}
    BY <1>1, <2>1
  <2> QED
    BY <2>1, <2>2
<1>4. ASSUME NEW q \in ListCallStats, NEW r \in ListCallStats,
             q.of = r.of, q.server = r.server, q.date = r.date
      PROVE  q = r
  BY <1>2, <1>4
<1> QED
  BY <1>3, <1>4 DEF RowsTrue

\* A true row stays true: calls are not unmade, and no account gets a second name.
LEMMA RowsStayTrue ==
    ASSUME NEW S \in SUBSET CallStat, RowsTrue(S), TypeOK, TypeOK',
           \A k \in Key : made[k] <= made'[k],
           \A a \in Account : bore[a] # None =>
               bore'[a] = bore[a] /\ (name[a] = None => name'[a] = None)
    PROVE  RowsTrue(S)'
<1>1. ASSUME NEW r \in S
      PROVE  /\ r.count <= made'[<<r.of, r.server, r.date>>]
             /\ bore'[r.of] # None
             /\ r.username = bore'[r.of] \/ (r.username = None /\ name'[r.of] = None)
  <2>1. r.of \in Account /\ r.count \in Int /\ <<r.of, r.server, r.date>> \in Key
    BY DEF CallStat, Key
  <2>2. made[<<r.of, r.server, r.date>>] \in Int /\ made'[<<r.of, r.server, r.date>>] \in Int
    BY <2>1 DEF TypeOK
  <2>3. /\ r.count <= made[<<r.of, r.server, r.date>>] /\ bore[r.of] # None
        /\ r.username = bore[r.of] \/ (r.username = None /\ name[r.of] = None)
    BY DEF RowsTrue
  <2>4. made[<<r.of, r.server, r.date>>] <= made'[<<r.of, r.server, r.date>>]
    BY <2>1
  <2>5. bore'[r.of] = bore[r.of] /\ (name[r.of] = None => name'[r.of] = None)
    BY <2>1, <2>3
  <2>6. r.count <= made'[<<r.of, r.server, r.date>>]
    BY <2>1, <2>2, <2>3, <2>4
  <2> QED
    BY <2>3, <2>5, <2>6
<1> QED
  BY <1>1 DEF RowsTrue

\* What the steps of the gateway do to the names and to what was made.
LEMMA GatewayGrows ==
    ASSUME ShownInv, [Next]_vars
    PROVE  /\ \A k \in Key : made[k] <= made'[k]
           /\ \A a \in Account : bore[a] # None =>
                bore'[a] = bore[a] /\ (name[a] = None => name'[a] = None)
           /\ NamesBorne'
<1>1. TypeOK /\ NamesBorne
  BY DEF ShownInv, IInv
<1>2. CASE UNCHANGED <<name, bore, made>>
  BY <1>1, <1>2 DEF TypeOK, NamesBorne
<1>3. ASSUME NEW a \in Account, NEW s \in Server, Begin(a, s)
      PROVE  /\ \A k \in Key : made[k] <= made'[k]
             /\ UNCHANGED <<name, bore>> /\ NamesBorne'
  <2> DEFINE key == <<a, s, today>>
  <2>1. key \in Key /\ key[1] = a
    BY <1>1 DEF TypeOK, Key
  <2>2. /\ made' = [made EXCEPT ![key] = @ + 1] /\ bore[a] # None
        /\ UNCHANGED <<name, bore>>
    BY <1>3 DEF Begin, tables
  <2> HIDE DEF key
  <2>3. \A k \in Key : /\ made[k] <= made'[k]
                       /\ k # key => made'[k] = made[k]
    BY <1>1, <2>1, <2>2 DEF TypeOK
  <2>4. \A k \in Key : made'[k] > 0 => bore'[k[1]] # None
    BY <1>1, <2>1, <2>2, <2>3 DEF NamesBorne
  <2>5. \A b \in Account : name'[b] \in {None, bore'[b]}
    BY <1>1, <2>2 DEF NamesBorne
  <2>6. NamesBorne'
    BY <2>4, <2>5 DEF NamesBorne
  <2> QED
    BY <2>2, <2>3, <2>6
<1>4. ASSUME NEW a \in Account, NEW n \in Name, CreateUser(a, n)
      PROVE  /\ UNCHANGED made /\ NamesBorne'
             /\ \A b \in Account : bore[b] # None =>
                  bore'[b] = bore[b] /\ (name[b] = None => name'[b] = None)
  <2>1. /\ bore[a] = None /\ UNCHANGED made
        /\ name' = [name EXCEPT ![a] = n] /\ bore' = [bore EXCEPT ![a] = n]
    BY <1>4 DEF CreateUser
  <2>2. \A b \in Account : /\ b # a => bore'[b] = bore[b] /\ name'[b] = name[b]
                           /\ b = a => bore'[b] = n /\ name'[b] = n
    BY <1>1, <2>1 DEF TypeOK
  <2>3. \A k \in Key : k[1] \in Account
    BY DEF Key
  <2> QED
    BY <1>1, <2>1, <2>2, <2>3 DEF NamesBorne
<1>5. ASSUME NEW a \in Account, DeleteUser(a)
      PROVE  /\ UNCHANGED made /\ NamesBorne'
             /\ \A b \in Account : bore[b] # None =>
                  bore'[b] = bore[b] /\ (name[b] = None => name'[b] = None)
  BY <1>1, <1>5 DEF DeleteUser, TypeOK, NamesBorne
<1>6. \A c \in calls : Record(c) => UNCHANGED <<name, bore, made>>
  BY DEF Record, First, CreateRow, Increment, Ignore, tables
<1>7. \A k \in Key : made[k] \in Int
  BY <1>1 DEF TypeOK
<1>8. Midnight \/ UNCHANGED vars => UNCHANGED <<name, bore, made>>
  BY DEF Midnight, vars, tables
<1> QED
  BY <1>2, <1>3, <1>4, <1>5, <1>6, <1>7, <1>8 DEF Next, tables

LEMMA ShownNext == ShownInv /\ [Next]_vars => ShownInv'
<1> SUFFICES ASSUME ShownInv, [Next]_vars PROVE ShownInv'
  OBVIOUS
<1>1. IInv /\ IInv' /\ TypeOK /\ TypeOK' /\ NamesBorne
  BY NextKeeps DEF ShownInv, IInv
<1>2. NamesBorne'
  BY GatewayGrows
<1>3. ASSUME NEW S \in SUBSET CallStat, RowsTrue(S) PROVE RowsTrue(S)'
  BY <1>1, <1>3, GatewayGrows, RowsStayTrue
<1>4. ASSUME NEW S \in SUBSET CallStat, NEW T \in SUBSET CallStat, RowsTrue(S), RowsTrue(T),
             rows' = S, req'.answer = T, page' = "mine" => \A r \in S : r.username = me'
      PROVE  ShownInv'
  <2>1. RowsTrue(S)' /\ RowsTrue(T)'
    BY <1>3, <1>4
  <2>2. RowsTrue(rows)' /\ RowsTrue(req.answer)'
    BY <1>4, <2>1 DEF RowsTrue
  <2>3. (page = "mine" => \A r \in rows : r.username = me)'
    BY <1>4
  <2> QED
    BY <1>1, <1>2, <2>2, <2>3 DEF ShownInv, RowsMade
<1>5. /\ rows \in SUBSET CallStat /\ req.answer \in SUBSET CallStat
      /\ RowsTrue(rows) /\ RowsTrue(req.answer)
      /\ page = "mine" => \A r \in rows : r.username = me
  BY <1>1 DEF TypeOK, Req, ShownInv, RowsMade
<1>6. RowsTrue({}) /\ {} \in SUBSET CallStat
  BY DEF RowsTrue
<1>7. CASE UNCHANGED <<page, me, rows, req>>
  BY <1>4, <1>5, <1>7
<1>8. CASE Serve
  <2>1. req'.answer = ListCallStats /\ UNCHANGED <<page, me, rows>>
    BY <1>8 DEF Serve
  <2>2. ListCallStats \in SUBSET CallStat /\ RowsTrue(ListCallStats)
    BY <1>1, ListTyped, ListTrue
  <2> QED
    BY <1>4, <1>5, <2>1, <2>2
<1>9. ASSUME NEW ok \in BOOLEAN, LoadSettles(ok) PROVE ShownInv'
  <2>1. /\ req'.answer = {} /\ UNCHANGED <<page, me>>
        /\ rows' = rows \/ rows' = Kept(req.answer)
    BY <1>9 DEF LoadSettles
  <2>2. /\ Kept(req.answer) \in SUBSET CallStat /\ RowsTrue(Kept(req.answer))
        /\ page = "mine" => \A r \in Kept(req.answer) : r.username = me
    BY <1>5 DEF Kept, RowsTrue
  <2> QED
    BY <1>4, <1>5, <1>6, <2>1, <2>2
<1>10. ASSUME NEW p \in {"all", "mine"}, NEW n \in Name, Visit(p, n) PROVE ShownInv'
  <2>1. rows' = {} /\ req'.answer = {}
    BY <1>10 DEF Visit, Asked
  <2> QED
    BY <1>4, <1>6, <2>1
<1>11. \A r \in Ranges : ChooseRange(r) => UNCHANGED <<page, me, rows, req>>
  BY DEF ChooseRange
<1> QED
  BY <1>7, <1>8, <1>9, <1>10, <1>11 DEF Next, Hear, GiveUp, Midnight, vars, shownVars

LEMMA ShownInit == Init => ShownInv
<1> SUFFICES ASSUME Init PROVE ShownInv
  OBVIOUS
<1>1. IInv /\ rows = {} /\ req.answer = {}
  BY InitKeeps DEF Init, Asked
<1>2. NamesBorne
  <2>1. \A k \in Key : made[k] = 0
    BY DEF Init
  <2>2. bore = name
    BY DEF Init
  <2> QED
    BY <2>1, <2>2 DEF NamesBorne
<1> QED
  BY <1>1, <1>2 DEF ShownInv, RowsMade, RowsTrue

\* The rows on a page are of different keys, none counts more calls than were
\* made, and each is under the name its account has or had, or under none when
\* the account is gone for good; my page shows mine only (user.go,
\* ListCallStats; MyStatsPage.tsx).
THEOREM RowsAreMade == Spec => []RowsMade
<1>1. ShownInv => RowsMade
  BY DEF ShownInv
<1> QED
  BY <1>1, ShownInit, ShownNext, PTL DEF Spec

------------------------------------------------------------------------------
(* Sums.  A property of every subset of a finite set is shown by looking at a *)
(* smallest subset that lacks it, which the library's theorem on well-founded *)
(* orderings provides.                                                        *)

Chosen(s) == CHOOSE x \in s : TRUE

\* g adds F up over every subset of S, taking out one chosen element at a time,
\* as MapThenSumSet does.
Adds(g, S, F) ==
    g = [s \in SUBSET S |-> IF s = {} THEN 0 ELSE F[Chosen(s)] + g[s \ {Chosen(s)}]]

\* A set of subsets of a finite set has one that none of its own subsets is in.
LEMMA Smallest ==
    ASSUME NEW S, IsFiniteSet(S), NEW T, T \subseteq SUBSET S, T # {}
    PROVE  \E s \in T : \A t \in T : t \subseteq s => t = s
<1>1. IsWellFoundedOn(StrictSubsetOrdering(S), SUBSET S)
  BY FS_StrictSubsetOrderingWellFounded, FS_FiniteSubsetsOfFinite
<1>2. PICK s \in T : \A t \in T : <<t, s>> \notin StrictSubsetOrdering(S)
  BY <1>1, WFMin
<1> QED
  BY <1>2 DEF StrictSubsetOrdering

LEMMA Taken ==
    ASSUME NEW s, s # {}
    PROVE  Chosen(s) \in s
  BY DEF Chosen

LEMMA AddsStep ==
    ASSUME NEW S, NEW F, NEW g, Adds(g, S, F), NEW s \in SUBSET S
    PROVE  g[s] = IF s = {} THEN 0 ELSE F[Chosen(s)] + g[s \ {Chosen(s)}]
  BY DEF Adds

\* Two of them agree wherever both are defined.
LEMMA AddsAgree ==
    ASSUME NEW S, NEW T, IsFiniteSet(S), NEW F, NEW g, NEW h, Adds(g, S, F), Adds(h, T, F),
           NEW v \in SUBSET S, v \in SUBSET T
    PROVE  g[v] = h[v]
<1> DEFINE Bad == {s \in SUBSET v : g[s] # h[s]}
<1>1. SUFFICES ASSUME Bad # {} PROVE FALSE
  OBVIOUS
<1>2. IsFiniteSet(v) /\ Bad \subseteq SUBSET v
  BY FS_Subset
<1> HIDE DEF Bad
<1>3. PICK s \in Bad : \A t \in Bad : t \subseteq s => t = s
  BY <1>1, <1>2, Smallest
<1> USE DEF Bad
<1>4. s \in SUBSET S /\ s \in SUBSET T /\ g[s] # h[s]
  OBVIOUS
<1> DEFINE x == Chosen(s)
<1>5. CASE s = {}
  BY <1>4, <1>5 DEF Adds
<1>6. CASE s # {}
  <2>1. x \in s
    BY <1>6, Taken
  <2>2. s \ {x} \in SUBSET v /\ s \ {x} # s /\ s \ {x} \subseteq s
    BY <2>1
  <2>3. g[s \ {x}] = h[s \ {x}]
    BY <1>3, <2>2
  <2>4. g[s] = F[x] + g[s \ {x}]
    BY <1>4, <1>6 DEF Adds
  <2>5. h[s] = F[x] + h[s \ {x}]
    BY <1>4, <1>6 DEF Adds
  <2> QED
    BY <1>4, <2>3, <2>4, <2>5
<1> QED
  BY <1>5, <1>6

\* There is one for every finite set.
LEMMA AddsExists ==
    ASSUME NEW S, IsFiniteSet(S), NEW F
    PROVE  \E g : Adds(g, S, F)
<1> DEFINE Bad == {s \in SUBSET S : ~ \E g : Adds(g, s, F)}
<1>1. Bad \subseteq SUBSET S /\ \A t \in SUBSET S : t \in Bad <=> ~ \E g : Adds(g, t, F)
  OBVIOUS
<1> HIDE DEF Bad
<1>2. SUFFICES ASSUME Bad # {} PROVE FALSE
  <2>1. S \in SUBSET S
    OBVIOUS
  <2> QED
    BY <1>1, <2>1
<1>3. PICK s \in Bad : \A t \in Bad : t \subseteq s => t = s
  BY <1>1, <1>2, Smallest
<1>4. s \in SUBSET S /\ ~ \E g : Adds(g, s, F)
  BY <1>1
<1> DEFINE G(t) == CHOOSE g : Adds(g, t, F)
<1>5. \A t \in SUBSET s : t # s => Adds(G(t), t, F)
  <2> SUFFICES ASSUME NEW t \in SUBSET s, t # s PROVE Adds(G(t), t, F)
    OBVIOUS
  <2>1. \E g : Adds(g, t, F)
    BY <1>1, <1>3, <1>4
  <2> QED
    BY <2>1
<1> HIDE DEF G
<1> DEFINE rest(t) == t \ {Chosen(t)}
           g == [t \in SUBSET s |-> IF t = {} THEN 0 ELSE F[Chosen(t)] + G(rest(t))[rest(t)]]
<1>6. ASSUME NEW t \in SUBSET s, t # {}
      PROVE  rest(t) \in SUBSET t /\ rest(t) \in SUBSET s /\ rest(t) # s
  <2>1. Chosen(t) \in t
    BY <1>6, Taken
  <2> QED
    BY <2>1
<1>7. ASSUME NEW t \in SUBSET s
      PROVE  g[t] = IF t = {} THEN 0 ELSE F[Chosen(t)] + G(rest(t))[rest(t)]
  OBVIOUS
<1>8. g = [t \in SUBSET s |-> g[t]]
  OBVIOUS
<1> HIDE DEF g, rest
<1>9. ASSUME NEW u \in SUBSET s, u # s PROVE g[u] = G(u)[u]
  <2>1. Adds(G(u), u, F) /\ u \in SUBSET u
    BY <1>5, <1>9
  <2>2. G(u)[u] = IF u = {} THEN 0 ELSE F[Chosen(u)] + G(u)[rest(u)]
    BY <2>1, AddsStep DEF rest
  <2>3. CASE u = {}
    BY <1>7, <2>2, <2>3
  <2>4. CASE u # {}
    <3>1. rest(u) \in SUBSET u /\ rest(u) \in SUBSET s /\ rest(u) # s
      BY <1>6, <2>4
    <3>2. Adds(G(rest(u)), rest(u), F) /\ rest(u) \in SUBSET rest(u)
      BY <1>5, <3>1
    <3>3. IsFiniteSet(u)
      <4>1. u \in SUBSET S
        BY <1>4
      <4> QED
        BY <4>1, FS_Subset
    <3>4. G(u)[rest(u)] = G(rest(u))[rest(u)]
      BY <2>1, <3>1, <3>2, <3>3, AddsAgree
    <3> QED
      BY <1>7, <2>2, <2>4, <3>4
  <2> QED
    BY <2>3, <2>4
<1>10. ASSUME NEW t \in SUBSET s
       PROVE  g[t] = IF t = {} THEN 0 ELSE F[Chosen(t)] + g[rest(t)]
  BY <1>6, <1>7, <1>9
<1>11. g = [t \in SUBSET s |-> IF t = {} THEN 0 ELSE F[Chosen(t)] + g[t \ {Chosen(t)}]]
  BY <1>8, <1>10 DEF rest
<1>12. Adds(g, s, F)
  BY <1>11 DEF Adds
<1> QED
  BY <1>4, <1>12

\* The sum of a set of naturals is a natural, whichever element is taken first.
LEMMA AddsTake ==
    ASSUME NEW S, IsFiniteSet(S), NEW F \in [S -> Nat], NEW g, Adds(g, S, F),
           NEW v \in SUBSET S
    PROVE  g[v] \in Nat /\ \A a \in v : g[v] = F[a] + g[v \ {a}]
<1> DEFINE Good(s) == g[s] \in Nat /\ \A a \in s : g[s] = F[a] + g[s \ {a}]
           Bad == {s \in SUBSET S : ~Good(s)}
<1>1. Bad \subseteq SUBSET S /\ \A t \in SUBSET S : t \in Bad <=> ~Good(t)
  OBVIOUS
<1>2. SUFFICES ASSUME Bad # {} PROVE FALSE
  OBVIOUS
<1> HIDE DEF Good, Bad
<1>3. PICK s \in Bad : \A t \in Bad : t \subseteq s => t = s
  BY <1>1, <1>2, Smallest
<1> DEFINE x == Chosen(s)
<1>4. \A t \in SUBSET s : t # s => Good(t)
  BY <1>1, <1>3
<1>5. s \in SUBSET S /\ ~Good(s)
  BY <1>1
<1>6. g[s] = IF s = {} THEN 0 ELSE F[x] + g[s \ {x}]
  <2>1. s \in SUBSET S
    BY <1>5
  <2> QED
    BY <2>1, AddsStep
<1>7. s # {}
  BY <1>5, <1>6 DEF Good
<1>8. x \in s /\ s \ {x} \in SUBSET s /\ s \ {x} # s
  BY <1>7, Taken
<1> HIDE DEF x
<1>9. Good(s \ {x})
  BY <1>4, <1>8
<1>10. F[x] \in Nat /\ g[s \ {x}] \in Nat /\ \A b \in s : F[b] \in Nat
  BY <1>5, <1>8, <1>9 DEF Good
<1>11. ASSUME NEW a \in s PROVE g[s] = F[a] + g[s \ {a}]
  <2>1. CASE a = x
    BY <1>6, <1>7, <2>1
  <2>2. CASE a # x
    <3> DEFINE r == (s \ {x}) \ {a}
    <3>1. r = (s \ {a}) \ {x} /\ s \ {a} \in SUBSET s /\ s \ {a} # s /\ r \in SUBSET s /\ r # s
      OBVIOUS
    <3>2. Good(s \ {a}) /\ Good(r)
      BY <1>4, <3>1
    <3>3. g[s \ {a}] = F[x] + g[r]
      BY <1>8, <2>2, <3>1, <3>2 DEF Good
    <3>4. g[s \ {x}] = F[a] + g[r]
      BY <1>9, <2>2 DEF Good
    <3>5. g[r] \in Nat /\ F[a] \in Nat
      BY <1>10, <3>2 DEF Good
    <3> HIDE DEF r
    <3> QED
      BY <1>6, <1>7, <1>10, <3>3, <3>4, <3>5
  <2> QED
    BY <2>1, <2>2
<1>12. g[s] \in Nat
  BY <1>6, <1>7, <1>10
<1> QED
  BY <1>5, <1>11, <1>12 DEF Good

\* One sum is at most another when each of its terms has one of the other, a
\* different one, that is as large.
LEMMA AddsBelow ==
    ASSUME NEW S, IsFiniteSet(S), NEW F \in [S -> Nat], NEW g, Adds(g, S, F),
           NEW T, IsFiniteSet(T), NEW H \in [T -> Nat], NEW h, Adds(h, T, H),
           NEW m \in [S -> T], \A a, b \in S : m[a] = m[b] => a = b,
           \A a \in S : F[a] <= H[m[a]]
    PROVE  g[S] <= h[T]
<1> DEFINE Into(s, t) == \A a \in s : m[a] \in t
           Good(s) == \A t \in SUBSET T : Into(s, t) => g[s] <= h[t]
           Bad == {s \in SUBSET S : ~Good(s)}
<1>1. Bad \subseteq SUBSET S /\ \A t \in SUBSET S : t \in Bad <=> ~Good(t)
  OBVIOUS
<1>2. SUFFICES ASSUME Bad # {} PROVE FALSE
  <2>1. Good(S)
    BY <1>1, <1>2
  <2> QED
    BY <2>1
<1> HIDE DEF Bad
<1>3. PICK s \in Bad : \A t \in Bad : t \subseteq s => t = s
  BY <1>1, <1>2, Smallest
<1>4. s \in SUBSET S /\ \A t \in SUBSET s : t # s => Good(t)
  BY <1>1, <1>3
<1>5. PICK t \in SUBSET T : Into(s, t) /\ ~(g[s] <= h[t])
  BY <1>1
<1> HIDE DEF Good
<1>6. g[s] \in Nat /\ h[t] \in Nat
  BY <1>4, AddsTake
<1>7. s # {}
  <2>1. g[s] = IF s = {} THEN 0 ELSE F[Chosen(s)] + g[s \ {Chosen(s)}]
    BY <1>4, AddsStep
  <2> QED
    BY <1>5, <1>6, <2>1
<1>8. PICK a \in s : TRUE
  BY <1>7
<1> DEFINE r == s \ {a}
           q == t \ {m[a]}
<1>9. Into(r, q) /\ r \in SUBSET s /\ r # s /\ q \in SUBSET T /\ r \in SUBSET S
  BY <1>4, <1>5
<1>10. g[r] <= h[q]
  BY <1>4, <1>9 DEF Good
<1>11. g[s] = F[a] + g[r] /\ h[t] = H[m[a]] + h[q]
  BY <1>4, <1>5, AddsTake
<1>12. g[r] \in Nat /\ h[q] \in Nat
  BY <1>9, AddsTake
<1>13. F[a] \in Nat /\ H[m[a]] \in Nat /\ F[a] <= H[m[a]]
  BY <1>4
<1> HIDE DEF r, q
<1> QED
  BY <1>5, <1>10, <1>11, <1>12, <1>13

\* What Count adds up, and MadeBy.
LEMMA CountAdds ==
    ASSUME NEW S, IsFiniteSet(S)
    PROVE  \E g : Adds(g, S, [r \in S |-> r.count]) /\ Count(S) = g[S]
<1> DEFINE Recurs(i) == i = [s \in SUBSET S |->
                        IF s = {} THEN 0 ELSE Chosen(s).count + i[s \ {Chosen(s)}]]
<1>1. Count(S) = (CHOOSE i : Recurs(i))[S]
  BY DEF Count, MapThenSumSet, MapThenFoldSet, Chosen
<1>2. PICK g : Adds(g, S, [r \in S |-> r.count])
  BY AddsExists
<1>3. \A s \in SUBSET S : s # {} => Chosen(s) \in S
  BY Taken
<1>4. \A i : Recurs(i) <=> Adds(i, S, [r \in S |-> r.count])
  BY <1>3 DEF Adds
<1> QED
  BY <1>1, <1>2, <1>4

LEMMA MadeAdds ==
    ASSUME NEW K, IsFiniteSet(K)
    PROVE  \E h : Adds(h, K, [k \in K |-> made[k]]) /\ MapThenSumSet(LAMBDA k : made[k], K) = h[K]
<1> DEFINE Recurs(i) == i = [s \in SUBSET K |->
                        IF s = {} THEN 0 ELSE made[Chosen(s)] + i[s \ {Chosen(s)}]]
<1>1. MapThenSumSet(LAMBDA k : made[k], K) = (CHOOSE i : Recurs(i))[K]
  BY DEF MapThenSumSet, MapThenFoldSet, Chosen
<1>2. PICK h : Adds(h, K, [k \in K |-> made[k]])
  BY AddsExists
<1>3. \A s \in SUBSET K : s # {} => Chosen(s) \in K
  BY Taken
<1>4. \A i : Recurs(i) <=> Adds(i, K, [k \in K |-> made[k]])
  BY <1>3 DEF Adds
<1> QED
  BY <1>1, <1>2, <1>4

KeyOf(r) == <<r.of, r.server, r.date>>

LEMMA KeysFinite == IsFiniteSet(Key)
<1> DEFINE P == (Account \X Server) \X Day
           f == [p \in P |-> <<p[1][1], p[1][2], p[2]>>]
<1>1. IsFiniteSet(Day)
  BY FS_Interval DEF Day
<1>2. IsFiniteSet(Account \X Server)
  BY FiniteAssumption, FS_Product
<1>3. IsFiniteSet(P)
  BY <1>1, <1>2, FS_Product
<1>4. f \in [P -> Key]
  BY DEF Key
<1>5. \A k \in Key : \E p \in P : f[p] = k
  <2> SUFFICES ASSUME NEW k \in Key PROVE \E p \in P : f[p] = k
    OBVIOUS
  <2>1. k[1] \in Account /\ k[2] \in Server /\ k[3] \in Day /\ k = <<k[1], k[2], k[3]>>
    BY DEF Key
  <2>2. <<<<k[1], k[2]>>, k[3]>> \in P /\ f[<<<<k[1], k[2]>>, k[3]>>] = k
    BY <2>1
  <2> QED
    BY <2>2
<1>6. f \in Surjection(P, Key)
  BY <1>4, <1>5 DEF Surjection
<1> QED
  BY <1>3, <1>6, FS_Surjection

\* Rows of a page are rows of different keys.
LEMMA RowsKeyed ==
    ASSUME ShownInv
    PROVE  /\ IsFiniteSet(rows)
           /\ \A r \in rows : /\ KeyOf(r) \in Key /\ r.count \in Nat /\ made[KeyOf(r)] \in Nat
                              /\ r.count <= made[KeyOf(r)]
           /\ \A q, r \in rows : KeyOf(q) = KeyOf(r) => q = r
<1>1. TypeOK /\ RowsTrue(rows)
  BY DEF ShownInv, IInv, RowsMade
<1>2. \A r \in rows : /\ KeyOf(r) \in Key /\ r.count \in Nat
                      /\ r.count <= made[KeyOf(r)]
  <2> SUFFICES ASSUME NEW r \in rows
               PROVE  /\ KeyOf(r) \in Key /\ r.count \in Nat
                      /\ r.count <= made[KeyOf(r)]
    OBVIOUS
  <2>1. r \in CallStat
    BY <1>1 DEF TypeOK
  <2>2. KeyOf(r) \in Key /\ r.count \in Nat
    BY <2>1 DEF CallStat, KeyOf, Key
  <2> QED
    BY <1>1, <2>2 DEF RowsTrue, KeyOf
<1>3. \A k \in Key : made[k] \in Nat
  BY <1>1 DEF TypeOK
<1>4. \A q, r \in rows : KeyOf(q) = KeyOf(r) => q = r
  BY <1>1 DEF RowsTrue, KeyOf
<1> DEFINE m == [r \in rows |-> KeyOf(r)]
<1>5. m \in [rows -> Key] /\ \A q, r \in rows : m[q] = m[r] => q = r
  BY <1>2, <1>4
<1> HIDE DEF m
<1>6. m \in Injection(rows, Key)
  BY <1>5 DEF Injection, IsInjective
<1> QED
  BY <1>2, <1>3, <1>4, <1>6, KeysFinite, FS_Injection

\* Rows add up to no more than the calls of any keys that theirs are among.
LEMMA CountBelowMade ==
    ASSUME ShownInv, NEW S \in SUBSET rows, NEW K \in SUBSET Key, \A r \in S : KeyOf(r) \in K
    PROVE  Count(S) <= MapThenSumSet(LAMBDA k : made[k], K)
<1>1. IsFiniteSet(S) /\ IsFiniteSet(K)
  BY RowsKeyed, KeysFinite, FS_Subset
<1>2. PICK g : Adds(g, S, [r \in S |-> r.count]) /\ Count(S) = g[S]
  BY <1>1, CountAdds
<1>3. PICK h : Adds(h, K, [k \in K |-> made[k]])
               /\ MapThenSumSet(LAMBDA k : made[k], K) = h[K]
  BY <1>1, MadeAdds
<1> DEFINE F == [r \in S |-> r.count]
           H == [k \in K |-> made[k]]
           m == [r \in S |-> KeyOf(r)]
<1>4. F \in [S -> Nat] /\ m \in [S -> K]
  BY RowsKeyed
<1>5. H \in [K -> Nat]
  BY DEF ShownInv, IInv, TypeOK
<1>6. \A q, r \in S : m[q] = m[r] => q = r
  BY RowsKeyed
<1>7. \A r \in S : F[r] <= H[m[r]]
  BY RowsKeyed
<1> HIDE DEF F, H, m
<1>8. Adds(g, S, F) /\ Adds(h, K, H)
  BY <1>2, <1>3 DEF F, H
<1>9. g[S] <= h[K]
  BY <1>1, <1>4, <1>5, <1>6, <1>7, <1>8, AddsBelow
<1> QED
  BY <1>2, <1>3, <1>9

\* More rows add up to no less.
LEMMA CountGrows ==
    ASSUME ShownInv, NEW S \in SUBSET rows, NEW T \in SUBSET rows, S \subseteq T
    PROVE  Count(S) <= Count(T)
<1>1. IsFiniteSet(S) /\ IsFiniteSet(T)
  BY RowsKeyed, FS_Subset
<1>2. PICK g : Adds(g, S, [r \in S |-> r.count]) /\ Count(S) = g[S]
  BY <1>1, CountAdds
<1>3. PICK h : Adds(h, T, [r \in T |-> r.count]) /\ Count(T) = h[T]
  BY <1>1, CountAdds
<1> DEFINE F == [r \in S |-> r.count]
           H == [r \in T |-> r.count]
           m == [r \in S |-> r]
<1>4. F \in [S -> Nat] /\ H \in [T -> Nat] /\ m \in [S -> T]
  BY RowsKeyed
<1>5. /\ \A q, r \in S : m[q] = m[r] => q = r
      /\ \A r \in S : F[r] <= H[m[r]]
  BY RowsKeyed
<1> HIDE DEF F, H, m
<1>6. Adds(g, S, F) /\ Adds(h, T, H)
  BY <1>2, <1>3 DEF F, H
<1>7. g[S] <= h[T]
  BY <1>1, <1>4, <1>5, <1>6, AddsBelow
<1> QED
  BY <1>2, <1>3, <1>7

\* Rows under one name add up to no more than the calls of who has or had it,
\* or of who is gone where there is none.
LEMMA NameBelowMade ==
    ASSUME ShownInv, NEW n, NEW S \in SUBSET rows, NEW K \in SUBSET Key,
           \A r \in S : r.username = n /\ KeyOf(r) \in K
    PROVE  Count(S) <= MadeBy(n, K)
<1> DEFINE L == {k \in K : IF n = None THEN name[k[1]] = None ELSE bore[k[1]] = n}
<1>1. ASSUME NEW r \in S PROVE KeyOf(r) \in L
  <2>1. RowsTrue(rows)
    BY DEF ShownInv, RowsMade
  <2>2. /\ bore[r.of] # None
        /\ r.username = bore[r.of] \/ (r.username = None /\ name[r.of] = None)
    BY <2>1 DEF RowsTrue
  <2>3. KeyOf(r) \in K /\ KeyOf(r)[1] = r.of /\ r.username = n
    BY DEF KeyOf
  <2> QED
    BY <2>2, <2>3
<1>2. L \in SUBSET Key
  OBVIOUS
<1>3. MadeBy(n, K) = MapThenSumSet(LAMBDA k : made[k], L)
  BY DEF MadeBy
<1> HIDE DEF L
<1> QED
  BY <1>1, <1>2, <1>3, CountBelowMade

\* What a page adds up for a user, a server or a day are calls that were made
\* under that name, or by who is gone where it shows none, and a longer range
\* shows no less (user.go, ListCallStats; StatsPage.tsx, MyStatsPage.tsx).
THEOREM SumsAreMade == Spec => []ShownMade
<1>1. ASSUME ShownInv PROVE ShownMade
  <2>1. /\ rows \subseteq CallStat /\ today \in Int /\ shift \in {-1, 0, 1} /\ range \in Ranges
        /\ Week \in Nat \ {0} /\ Month \in Nat /\ Month >= Week + 2
    BY <1>1 DEF ShownInv, IInv, TypeOK, Day
  <2> DEFINE Of(r) == Filtered(r, today, shift)
  <2>2. \A n \in DOMAIN ByUser(rows) : ByUser(rows)[n] <= MadeBy(n, Key)
    <3> SUFFICES ASSUME NEW n \in DOMAIN ByUser(rows)
                 PROVE  ByUser(rows)[n] <= MadeBy(n, Key)
      OBVIOUS
    <3> DEFINE S == {r \in rows : r.username = n}
    <3>1. ByUser(rows)[n] = Count(S)
      BY DEF ByUser
    <3>2. S \in SUBSET rows /\ \A r \in S : r.username = n /\ KeyOf(r) \in Key
      BY <1>1, RowsKeyed
    <3> HIDE DEF S
    <3> QED
      BY <1>1, <3>1, <3>2, NameBelowMade
  <2>3. ASSUME page = "mine" PROVE \A r \in rows : r.username = me
    BY <1>1, <2>3 DEF ShownInv, RowsMade
  <2>4. \A r \in Ranges : Of(r) \in SUBSET rows
    BY DEF Filtered
  <2>5. ASSUME page = "mine", NEW x \in DOMAIN ByServer(Of(range))
        PROVE  ByServer(Of(range))[x] <= MadeBy(me, {k \in Key : k[2] = x})
    <3> DEFINE S == {r \in Of(range) : r.server = x}
               K == {k \in Key : k[2] = x}
    <3>1. ByServer(Of(range))[x] = Count(S)
      BY <2>5 DEF ByServer
    <3>2. S \in SUBSET rows /\ K \in SUBSET Key
      BY <2>1, <2>4
    <3>3. \A r \in S : r.username = me /\ KeyOf(r) \in K
      BY <1>1, <2>3, <2>5, <3>2, RowsKeyed DEF KeyOf
    <3> HIDE DEF S, K
    <3>4. Count(S) <= MadeBy(me, K)
      BY <1>1, <3>2, <3>3, NameBelowMade
    <3> QED
      BY <3>1, <3>4 DEF K
  <2>6. ASSUME page = "mine", NEW d \in DOMAIN ByDate(Of(range))
        PROVE  ByDate(Of(range))[d] <= MadeBy(me, {k \in Key : k[3] = d})
    <3> DEFINE S == {r \in Of(range) : r.date = d}
               K == {k \in Key : k[3] = d}
    <3>1. ByDate(Of(range))[d] = Count(S)
      BY <2>6 DEF ByDate
    <3>2. S \in SUBSET rows /\ K \in SUBSET Key
      BY <2>1, <2>4
    <3>3. \A r \in S : r.username = me /\ KeyOf(r) \in K
      BY <1>1, <2>3, <2>6, <3>2, RowsKeyed DEF KeyOf
    <3> HIDE DEF S, K
    <3>4. Count(S) <= MadeBy(me, K)
      BY <1>1, <3>2, <3>3, NameBelowMade
    <3> QED
      BY <3>1, <3>4 DEF K
  <2>7. \A r \in rows : r.date \in Int
    BY <2>1 DEF CallStat, Day
  <2>8. ASSUME NEW m \in {-1, 0, 1}, NEW n \in {-1, 0, 1}
        PROVE  /\ Count(Of("today")) <= Count(Filtered("7d", today, m))
               /\ Count(Filtered("7d", today, m)) <= Count(Filtered("30d", today, n))
    <3> DEFINE T == Filtered("7d", today, m)
               M == Filtered("30d", today, n)
    <3>1. T \in SUBSET rows /\ M \in SUBSET rows /\ Of("today") \in SUBSET rows
      BY DEF Filtered
    <3>2. Of("today") \subseteq T
      BY <2>1, <2>7 DEF Filtered, Since
    <3>3. T \subseteq M
      BY <2>1, <2>7 DEF Filtered, Since
    <3> HIDE DEF T, M, Of
    <3>4. Count(Of("today")) <= Count(T) /\ Count(T) <= Count(M)
      BY <1>1, <3>1, <3>2, <3>3, CountGrows
    <3> QED
      BY <3>4 DEF T, M
  <2> HIDE DEF Of
  <2>9. page = "mine" =>
           /\ \A x \in DOMAIN ByServer(Of(range)) :
                ByServer(Of(range))[x] <= MadeBy(me, {k \in Key : k[2] = x})
           /\ \A d \in DOMAIN ByDate(Of(range)) :
                ByDate(Of(range))[d] <= MadeBy(me, {k \in Key : k[3] = d})
           /\ \A m, n \in {-1, 0, 1} :
                /\ Count(Of("today")) <= Count(Filtered("7d", today, m))
                /\ Count(Filtered("7d", today, m)) <= Count(Filtered("30d", today, n))
    BY <2>5, <2>6, <2>8
  <2> QED
    BY <2>2, <2>9 DEF ShownMade, Of
<1> QED
  BY <1>1, ShownInit, ShownNext, PTL DEF Spec
==============================================================================
