--------------------------- MODULE TtlCacheProofs ---------------------------
(***************************************************************************)
(* For any number of keys and goroutines, any limit and any clock bound:   *)
(* the types of TtlCache hold; cleanupOldest picks the entries that expire *)
(* first among those its Range has read, whatever the other goroutines do; *)
(* and as long as no goroutine acts on a look at the map that another made *)
(* stale, the counter is exact and the limit is kept.                      *)
(***************************************************************************)
EXTENDS TtlCache, FiniteSetTheorems, TLAPS

\* Adding a key to a partial function, or taking one away, leaves a partial
\* function.
LEMMA WithType ==
    ASSUME NEW D, NEW R, NEW f \in Partial(D, R), NEW k \in D, NEW e \in R
    PROVE  /\ With(f, k, e) \in Partial(D, R)
           /\ DOMAIN With(f, k, e) = DOMAIN f \union {k}
           /\ \A x \in DOMAIN f \union {k}:
                With(f, k, e)[x] = IF x = k THEN e ELSE f[x]
<1>1. PICK S \in SUBSET D: f \in [S -> R]  BY DEF Partial
<1>2. With(f, k, e) \in [S \union {k} -> R]  BY <1>1 DEF With
<1>3. S \union {k} \in SUBSET D  OBVIOUS
<1> QED  BY <1>1, <1>2, <1>3 DEF With, Partial

LEMMA WithoutType ==
    ASSUME NEW D, NEW R, NEW f \in Partial(D, R), NEW k
    PROVE  Without(f, k) \in Partial(D, R)
<1>1. PICK S \in SUBSET D: f \in [S -> R]  BY DEF Partial
<1>2. Without(f, k) \in [S \ {k} -> R]  BY <1>1 DEF Without
<1>3. S \ {k} \in SUBSET D  OBVIOUS
<1> QED  BY <1>2, <1>3 DEF Partial

\* Its values are of the range, and its domain of the domain.
LEMMA PartialValues ==
    ASSUME NEW D, NEW R, NEW f \in Partial(D, R)
    PROVE  DOMAIN f \subseteq D /\ \A x \in DOMAIN f: f[x] \in R
BY DEF Partial

LEMMA EmptyType ==
    ASSUME NEW D, NEW R
    PROVE  <<>> \in Partial(D, R) /\ DOMAIN <<>> = {}
<1>1. <<>> \in [{} -> R] /\ DOMAIN <<>> = {}  OBVIOUS
<1> QED  BY <1>1 DEF Partial

\* A goroutine between calls has well-typed locals.
LEMMA IdleType == Idle \in Local
BY EmptyType DEF Idle, Local, Control

LEMMA LocUpdates ==
    ASSUME TypeOK, NEW p \in Proc
    PROVE  /\ loc[p] \in Local
           /\ \A pc \in Control: Goto(p, pc) => loc' \in [Proc -> Local]
           /\ Return(p) => loc' \in [Proc -> Local]
           /\ \A l \in Local: loc' = [loc EXCEPT ![p] = l] => loc' \in [Proc -> Local]
           /\ \A pc \in Control, n \in Nat:
                 [Idle EXCEPT !.pc = pc, !.n = n] \in Local
           /\ \A pc \in Control: [Idle EXCEPT !.pc = pc] \in Local
           /\ \A pc \in Control, keys \in SUBSET Key, n \in Nat:
                 [Idle EXCEPT !.pc = pc, !.keys = keys, !.n = n] \in Local
<1>1. loc \in [Proc -> Local] /\ loc[p] \in Local  BY DEF TypeOK
<1>2. \A pc \in Control: [loc[p] EXCEPT !.pc = pc] \in Local  BY <1>1 DEF Local
<1>3. \A pc \in Control: Goto(p, pc) => loc' \in [Proc -> Local]
  BY <1>1, <1>2 DEF Goto
<1>4. Return(p) => loc' \in [Proc -> Local]  BY <1>1, IdleType DEF Return
<1>5. /\ \A pc \in Control, n \in Nat: [Idle EXCEPT !.pc = pc, !.n = n] \in Local
      /\ \A pc \in Control: [Idle EXCEPT !.pc = pc] \in Local
      /\ \A pc \in Control, keys \in SUBSET Key, n \in Nat:
            [Idle EXCEPT !.pc = pc, !.keys = keys, !.n = n] \in Local
  BY IdleType DEF Local
<1> QED  BY <1>1, <1>3, <1>4, <1>5

LEMMA DeleteType ==
    ASSUME TypeOK, NEW p \in Proc, NEW k, MapDelete(p, k)
    PROVE  data' \in Partial(Key, Expiration) /\ raced' \in BOOLEAN
<1>1. data' \in Partial(Key, Expiration)  BY WithoutType DEF TypeOK, MapDelete
<1>2. raced' \in BOOLEAN
  <2>1. raced \in BOOLEAN /\ raced' = (raced \/ (Has(k) /\ Stale(p, k)))
    BY DEF TypeOK, MapDelete
  <2>2. (Has(k) /\ Stale(p, k)) \in BOOLEAN  BY DEF Has, Stale
  <2> QED  BY <2>1, <2>2
<1> QED  BY <1>1, <1>2

-----------------------------------------------------------------------------
(* Type correctness                                                        *)

\* What a Range adds to seen is well typed.
LEMMA VisitType ==
    ASSUME TypeOK, NEW p \in Proc, NEW k \in DOMAIN data
    PROVE  /\ k \in Key /\ data[k] \in Expiration
           /\ With(loc[p].seen, k, data[k]) \in Partial(Key, Expiration)
<1>1. data \in Partial(Key, Expiration) /\ loc[p].seen \in Partial(Key, Expiration)
  BY LocUpdates DEF TypeOK, Local
<1>2. k \in Key /\ data[k] \in Expiration  BY <1>1, PartialValues
<1> QED  BY <1>1, <1>2, WithType

\* The candidates after a visit are keys.
LEMMA CandidatesType ==
    ASSUME NEW keys \in SUBSET Key, NEW seen, NEW k \in Key, NEW e,
           NEW c \in Candidates(keys, seen, k, e)
    PROVE  c \in SUBSET Key
BY DEF Candidates

\* The steps of SetWithTTL keep the types.
LEMMA SetType ==
    ASSUME TypeOK, NEW p \in Worker
    PROVE  /\ \A k \in Key: SetLoad(p, k) => TypeOK'
           /\ SetSteps(p) => TypeOK'
<1> p \in Proc  BY DEF Proc
<1>0. /\ loc \in [Proc -> Local] /\ loc[p] \in Local
      /\ data \in Partial(Key, Expiration) /\ itemCount \in Int /\ now \in 0..MaxTime
      /\ stop \in BOOLEAN /\ closed \in BOOLEAN /\ raced \in BOOLEAN
      /\ closing \in {"no", "waiting", "done"}
  BY LocUpdates DEF TypeOK
<1>1. ASSUME NEW k \in Key, SetLoad(p, k) PROVE TypeOK'
  <2>1. loc' \in [Proc -> Local]  BY <1>0, <1>1 DEF SetLoad, Local, Control
  <2> QED  BY <1>0, <1>1, <2>1 DEF SetLoad, MapUnchanged, RestUnchanged, TypeOK
<1>2. CASE SetDelete(p)
  <2>1. loc' \in [Proc -> Local]  BY <1>2, LocUpdates DEF SetDelete, Control
  <2>2. data' \in Partial(Key, Expiration) /\ raced' \in BOOLEAN
    BY <1>2, DeleteType DEF SetDelete
  <2> QED  BY <1>0, <1>2, <2>1, <2>2 DEF SetDelete, RestUnchanged, TypeOK
<1>3. CASE SetAdd(p)
  <2>1. loc' \in [Proc -> Local]  BY <1>3, LocUpdates DEF SetAdd, Control
  <2> QED  BY <1>0, <1>3, <2>1 DEF SetAdd, MapUnchanged, RestUnchanged, TypeOK
<1>4. CASE SetStore(p)
  <2>1. PICK k \in loc[p].keys, ttl \in Ttl:
           /\ data' = With(data, k, now + ttl)
           /\ raced' = (raced \/ (~Has(k) /\ Stale(p, k)))
    BY <1>4 DEF SetStore
  <2>2. k \in Key /\ now + ttl \in Expiration  BY <1>0 DEF Local, Expiration
  <2>3. data' \in Partial(Key, Expiration)  BY <1>0, <2>1, <2>2, WithType
  <2>4. raced' \in BOOLEAN
    <3>1. (~Has(k) /\ Stale(p, k)) \in BOOLEAN  BY DEF Has, Stale
    <3> QED  BY <1>0, <2>1, <3>1
  <2>5. [Idle EXCEPT !.pc = "setCheck"] \in Local  BY LocUpdates DEF Control
  <2>6. loc' \in [Proc -> Local]  BY <1>0, <1>4, <2>5 DEF SetStore
  <2> QED  BY <1>0, <1>4, <2>3, <2>4, <2>6 DEF SetStore, RestUnchanged, TypeOK
<1>5. CASE SetCheck(p)
  <2>1. loc' \in [Proc -> Local]  BY <1>5, LocUpdates DEF SetCheck, Control
  <2> QED  BY <1>0, <1>5, <2>1 DEF SetCheck, MapUnchanged, RestUnchanged, TypeOK
<1> QED  BY <1>1, <1>2, <1>3, <1>4, <1>5 DEF SetSteps

\* So do those of cleanupOldest.
LEMMA OldestType ==
    ASSUME TypeOK, NEW p \in Worker, OldestSteps(p)
    PROVE  TypeOK'
<1> p \in Proc  BY DEF Proc
<1>0. /\ loc \in [Proc -> Local] /\ loc[p] \in Local
      /\ data \in Partial(Key, Expiration) /\ itemCount \in Int /\ now \in 0..MaxTime
      /\ stop \in BOOLEAN /\ closed \in BOOLEAN /\ raced \in BOOLEAN
      /\ closing \in {"no", "waiting", "done"}
  BY LocUpdates DEF TypeOK
<1>1. CASE OldestCheck(p)
  <2>1. loc' \in [Proc -> Local]  BY <1>1, LocUpdates DEF OldestCheck, Control
  <2> QED  BY <1>0, <1>1, <2>1 DEF OldestCheck, MapUnchanged, RestUnchanged, TypeOK
<1>2. CASE OldestVisit(p)
  <2>0. PICK k \in DOMAIN data \ DOMAIN loc[p].seen:
           \E keys \in Candidates(loc[p].keys, loc[p].seen, k, data[k]):
              loc' = [loc EXCEPT ![p].keys = keys,
                                 ![p].seen = With(loc[p].seen, k, data[k])]
    BY <1>2 DEF OldestVisit
  <2>1. PICK keys \in Candidates(loc[p].keys, loc[p].seen, k, data[k]):
           loc' = [loc EXCEPT ![p].keys = keys,
                              ![p].seen = With(loc[p].seen, k, data[k])]
    BY <2>0
  <2>2. k \in Key /\ With(loc[p].seen, k, data[k]) \in Partial(Key, Expiration)
    BY VisitType
  <2>3. keys \in SUBSET Key  BY <1>0, <2>2, CandidatesType DEF Local
  <2>4. loc' \in [Proc -> Local]  BY <1>0, <2>1, <2>2, <2>3 DEF Local
  <2> QED  BY <1>0, <1>2, <2>4 DEF OldestVisit, MapUnchanged, RestUnchanged, TypeOK
<1>3. CASE OldestRanged(p)
  <2>1. loc' \in [Proc -> Local]  BY <1>3, LocUpdates DEF OldestRanged, Control
  <2> QED  BY <1>0, <1>3, <2>1 DEF OldestRanged, MapUnchanged, RestUnchanged, TypeOK
<1>4. CASE OldestDelete(p)
  <2>1. PICK k \in loc[p].keys:
          /\ MapDelete(p, k)
          /\ loc' = [loc EXCEPT
               ![p] = [Idle EXCEPT
                         !.pc = IF loc[p].keys = {k} THEN "subtract"
                                ELSE "oldestDelete",
                         !.keys = loc[p].keys \ {k}, !.n = loc[p].n + 1]]
    BY <1>4 DEF OldestDelete
  <2>2. data' \in Partial(Key, Expiration) /\ raced' \in BOOLEAN  BY <2>1, DeleteType
  <2>3. /\ (IF loc[p].keys = {k} THEN "subtract" ELSE "oldestDelete") \in Control
        /\ loc[p].keys \ {k} \in SUBSET Key /\ loc[p].n + 1 \in Nat
    BY <1>0 DEF Local, Control
  <2>4. loc' \in [Proc -> Local]  BY <1>0, <2>1, <2>3, LocUpdates
  <2> QED  BY <1>0, <1>4, <2>2, <2>4 DEF OldestDelete, RestUnchanged, TypeOK
<1> QED  BY <1>1, <1>2, <1>3, <1>4 DEF OldestSteps

\* So does the end of a call, of a worker or of the cleaner.
LEMMA SubtractType ==
    ASSUME TypeOK, NEW p \in Proc, Subtract(p)
    PROVE  TypeOK'
<1>1. loc' \in [Proc -> Local]  BY LocUpdates DEF Subtract
<1>2. loc[p] \in Local /\ itemCount \in Int  BY LocUpdates DEF TypeOK
<1>3. itemCount' \in Int
  <2>1. loc[p].n \in Nat  BY <1>2 DEF Local
  <2> QED  BY <1>2, <2>1 DEF Subtract
<1> QED  BY <1>1, <1>3 DEF Subtract, MapUnchanged, RestUnchanged, TypeOK

\* So do Get, Delete and Clear.
LEMMA OtherCallsType ==
    ASSUME TypeOK, NEW p \in Worker
    PROVE  /\ \A k \in Key: GetLoad(p, k) \/ Delete(p, k) => TypeOK'
           /\ GetDelete(p) \/ Clear(p) \/ ClearSteps(p) => TypeOK'
<1> p \in Proc  BY DEF Proc
<1>0. /\ loc \in [Proc -> Local] /\ loc[p] \in Local
      /\ data \in Partial(Key, Expiration) /\ itemCount \in Int /\ now \in 0..MaxTime
      /\ stop \in BOOLEAN /\ closed \in BOOLEAN /\ raced \in BOOLEAN
      /\ closing \in {"no", "waiting", "done"}
  BY LocUpdates DEF TypeOK
<1>1. ASSUME NEW k \in Key, GetLoad(p, k) PROVE TypeOK'
  <2>1. loc' \in [Proc -> Local]  BY <1>0, <1>1 DEF GetLoad, Local, Control
  <2> QED  BY <1>0, <1>1, <2>1 DEF GetLoad, MapUnchanged, RestUnchanged, TypeOK
<1>2. ASSUME NEW k \in Key, Delete(p, k) PROVE TypeOK'
  <2>1. loc' \in [Proc -> Local]  BY <1>0, <1>2 DEF Delete, Local, Control
  <2>2. data' \in Partial(Key, Expiration) /\ raced' \in BOOLEAN
    BY <1>2, DeleteType DEF Delete
  <2> QED  BY <1>0, <1>2, <2>1, <2>2 DEF Delete, RestUnchanged, TypeOK
<1>3. CASE GetDelete(p)
  <2>1. [Idle EXCEPT !.pc = "subtract", !.n = 1] \in Local  BY LocUpdates DEF Control
  <2>2. loc' \in [Proc -> Local]  BY <1>0, <1>3, <2>1 DEF GetDelete
  <2>3. data' \in Partial(Key, Expiration) /\ raced' \in BOOLEAN
    BY <1>3, DeleteType DEF GetDelete
  <2> QED  BY <1>0, <1>3, <2>2, <2>3 DEF GetDelete, RestUnchanged, TypeOK
<1>4. CASE Clear(p)
  <2>1. loc' \in [Proc -> Local]  BY <1>4, LocUpdates DEF Clear, Control
  <2> QED  BY <1>0, <1>4, <2>1 DEF Clear, MapUnchanged, RestUnchanged, TypeOK
<1>5. CASE ClearVisit(p)
  <2>1. PICK k \in DOMAIN data \ DOMAIN loc[p].seen:
          /\ MapDelete(p, k)
          /\ loc' = [loc EXCEPT ![p].seen = With(loc[p].seen, k, data[k]),
                                ![p].n = loc[p].n + 1]
    BY <1>5 DEF ClearVisit
  <2>2. With(loc[p].seen, k, data[k]) \in Partial(Key, Expiration)  BY VisitType
  <2>3. loc' \in [Proc -> Local]  BY <1>0, <2>1, <2>2 DEF Local
  <2>4. data' \in Partial(Key, Expiration) /\ raced' \in BOOLEAN  BY <2>1, DeleteType
  <2> QED  BY <1>0, <1>5, <2>3, <2>4 DEF ClearVisit, RestUnchanged, TypeOK
<1>6. CASE ClearRanged(p)
  <2>1. loc' \in [Proc -> Local]  BY <1>6, LocUpdates DEF ClearRanged, Control
  <2> QED  BY <1>0, <1>6, <2>1 DEF ClearRanged, MapUnchanged, RestUnchanged, TypeOK
<1>7. CASE ClearStore(p)
  <2>1. loc' \in [Proc -> Local]  BY <1>7, LocUpdates DEF ClearStore
  <2>2. raced' \in BOOLEAN
    <3>1. (\E q \in Proc \ {p}: Ahead(q) # 0) \in BOOLEAN  OBVIOUS
    <3> QED  BY <1>0, <1>7, <3>1 DEF ClearStore
  <2> QED  BY <1>0, <1>7, <2>1, <2>2 DEF ClearStore, RestUnchanged, TypeOK
<1> QED  BY <1>1, <1>2, <1>3, <1>4, <1>5, <1>6, <1>7 DEF ClearSteps

\* So do the cleanup goroutine, Close and the clock.
LEMMA CleanerType ==
    ASSUME TypeOK,
           Cleanup \/ CleanSteps \/ StopCleaner \/ Close \/ CloseReturn \/ Tick
    PROVE  TypeOK'
<1> DEFINE p == Cleaner
<1> p \in Proc  BY DEF Proc
<1>0. /\ loc \in [Proc -> Local] /\ loc[p] \in Local
      /\ data \in Partial(Key, Expiration) /\ itemCount \in Int /\ now \in 0..MaxTime
      /\ stop \in BOOLEAN /\ closed \in BOOLEAN /\ raced \in BOOLEAN
      /\ closing \in {"no", "waiting", "done"}
  BY LocUpdates DEF TypeOK
<1>1. CASE Cleanup
  <2>1. loc' \in [Proc -> Local]  BY <1>1, LocUpdates DEF Cleanup, Control
  <2> QED  BY <1>0, <1>1, <2>1 DEF Cleanup, MapUnchanged, RestUnchanged, TypeOK
<1>2. CASE CleanVisit
  <2>1. PICK k \in DOMAIN data \ DOMAIN loc[p].seen:
         loc' = [loc EXCEPT
            ![p].seen = With(loc[p].seen, k, data[k]),
            ![p].pc = IF Expired(data[k]) THEN "cleanDelete" ELSE @,
            ![p].keys = IF Expired(data[k]) THEN {k} ELSE {}]
    BY <1>2 DEF CleanVisit
  <2>2. k \in Key /\ With(loc[p].seen, k, data[k]) \in Partial(Key, Expiration)
    BY VisitType
  <2>3. loc' \in [Proc -> Local]
    <3> DEFINE seen == With(loc[p].seen, k, data[k])
    <3> HIDE DEF seen, p
    <3>0. seen \in Partial(Key, Expiration)  BY <2>2 DEF seen
    <3>1. CASE Expired(data[k])
      <4>1. loc' = [loc EXCEPT ![p].seen = seen, ![p].pc = "cleanDelete",
                               ![p].keys = {k}]
        BY <2>1, <3>1 DEF seen
      <4> QED  BY <1>0, <2>2, <3>0, <4>1 DEF Local, Control
    <3>2. CASE ~Expired(data[k])
      <4>1. loc' = [loc EXCEPT ![p].seen = seen, ![p].pc = @, ![p].keys = {}]
        BY <2>1, <3>2 DEF seen
      <4> QED  BY <1>0, <2>2, <3>0, <4>1 DEF Local
    <3> QED  BY <3>1, <3>2
  <2> QED  BY <1>0, <1>2, <2>3 DEF CleanVisit, MapUnchanged, RestUnchanged, TypeOK
<1>3. CASE CleanDelete
  <2>1. loc' \in [Proc -> Local]  BY <1>0, <1>3 DEF CleanDelete, Local, Control
  <2>2. data' \in Partial(Key, Expiration) /\ raced' \in BOOLEAN
    BY <1>3, DeleteType DEF CleanDelete
  <2> QED  BY <1>0, <1>3, <2>1, <2>2 DEF CleanDelete, RestUnchanged, TypeOK
<1>4. CASE CleanRanged
  <2>0. loc[p].n \in Nat /\ "subtract" \in Control  BY <1>0 DEF Local, Control
  <2>1. [Idle EXCEPT !.pc = "subtract", !.n = loc[p].n] \in Local
    BY <2>0, LocUpdates
  <2>2. loc' \in [Proc -> Local]  BY <1>0, <1>4, <2>1, LocUpdates DEF CleanRanged
  <2> QED  BY <1>0, <1>4, <2>2 DEF CleanRanged, MapUnchanged, RestUnchanged, TypeOK
<1>5. CASE Subtract(Cleaner)  BY <1>5, SubtractType
<1>6. CASE StopCleaner
  <2>1. loc' \in [Proc -> Local]  BY <1>6, LocUpdates DEF StopCleaner, Control
  <2> QED  BY <1>0, <1>6, <2>1 DEF StopCleaner, TypeOK
<1>7. CASE Close  BY <1>0, <1>7 DEF Close, TypeOK
<1>8. CASE CloseReturn  BY <1>0, <1>8 DEF CloseReturn, TypeOK
<1>9. CASE Tick  BY <1>0, <1>9, CacheAssumption DEF CacheAssumption, Tick, TypeOK
<1> QED  BY <1>1, <1>2, <1>3, <1>4, <1>5, <1>6, <1>7, <1>8, <1>9 DEF CleanSteps

\* Every step keeps the types.
LEMMA TypeStep == TypeOK /\ [Next]_vars => TypeOK'
<1> SUFFICES ASSUME TypeOK, [Next]_vars PROVE TypeOK'  OBVIOUS
<1>1. ASSUME NEW p \in Worker, WorkerNext(p) PROVE TypeOK'
  <2> p \in Proc  BY DEF Proc
  <2> QED  BY <1>1, SetType, OldestType, OtherCallsType, SubtractType DEF WorkerNext
<1>2. CASE Cleanup \/ CleanSteps \/ StopCleaner \/ Close \/ CloseReturn \/ Tick
  BY <1>2, CleanerType
<1>3. CASE UNCHANGED vars  BY <1>3 DEF vars, TypeOK
<1> QED  BY <1>1, <1>2, <1>3 DEF Next

LEMMA TypeInit == Init => TypeOK
<1> SUFFICES ASSUME Init PROVE TypeOK  OBVIOUS
<1>1. data \in Partial(Key, Expiration)  BY EmptyType DEF Init
<1>2. loc \in [Proc -> Local]  BY IdleType DEF Init
<1>3. now \in 0..MaxTime  BY CacheAssumption DEF CacheAssumption, Init
<1>4. itemCount \in Int /\ closing \in {"no", "waiting", "done"}
  BY DEF Init
<1>5. stop = FALSE /\ closed = FALSE /\ raced = FALSE  BY DEF Init
<1> QED  BY <1>1, <1>2, <1>3, <1>4, <1>5 DEF TypeOK

\* The cache, its counter and the locals of every goroutine have their types.
THEOREM TypeCorrect == Spec => []TypeOK
<1> QED  BY TypeInit, TypeStep, PTL DEF Spec

-----------------------------------------------------------------------------
(* cleanupOldest picks the oldest of what it reads                         *)

\* The candidates are among the keys read, all of them while there is room, and
\* none of them expires after a key that is left out.
Scan(l) ==
    /\ l.keys \subseteq DOMAIN l.seen
    /\ Cardinality(l.keys) < Threshold => l.keys = DOMAIN l.seen
    /\ \A c \in l.keys, k \in DOMAIN l.seen \ l.keys: l.seen[c] <= l.seen[k]

\* A Range starts with no candidate, and keeps Scan at each visit.
ScanOf(l) ==
    /\ l.pc \in {"setCheck", "oldestCheck"} => l.keys = {} /\ l.seen = <<>>
    /\ l.pc = "oldestRange" => Scan(l)

ScanInv == \A p \in Worker: ScanOf(loc[p])

IInv == TypeOK /\ ScanInv

\* The visit of one more key keeps the candidates the oldest of what was read.
LEMMA VisitScan ==
    ASSUME NEW keys \in SUBSET Key, NEW seen \in Partial(Key, Expiration),
           NEW k \in Key, NEW e \in Expiration, k \notin DOMAIN seen,
           keys \subseteq DOMAIN seen,
           Cardinality(keys) < Threshold => keys = DOMAIN seen,
           \A c \in keys, d \in DOMAIN seen \ keys: seen[c] <= seen[d],
           NEW next \in Candidates(keys, seen, k, e)
    PROVE  /\ next \subseteq DOMAIN seen \union {k}
           /\ Cardinality(next) < Threshold => next = DOMAIN seen \union {k}
           /\ \A c \in next, d \in (DOMAIN seen \union {k}) \ next:
                With(seen, k, e)[c] <= With(seen, k, e)[d]
<1>0. \A x \in DOMAIN seen \union {k}:
         With(seen, k, e)[x] = IF x = k THEN e ELSE seen[x]
  BY DEF With
<1> DEFINE after == With(seen, k, e)
<1>1. /\ \A x \in DOMAIN seen: after[x] = seen[x] /\ seen[x] \in Int
      /\ after[k] = e /\ e \in Int
  <2>1. ASSUME NEW x \in Expiration PROVE x \in Int
    <3>1. PICK t \in 0..MaxTime, ttl \in Ttl: x = t + ttl  BY DEF Expiration
    <3> QED  BY <3>1, CacheAssumption DEF CacheAssumption
  <2>2. \A x \in DOMAIN seen: seen[x] \in Expiration  BY PartialValues
  <2> QED  BY <1>0, <2>1, <2>2
<1> HIDE DEF after
<1>2. CASE Cardinality(keys) < Threshold
  <2>1. next = DOMAIN seen \union {k}  BY <1>2 DEF Candidates
  <2> QED  BY <2>1
<1>3. CASE ~(Cardinality(keys) < Threshold)
  <2>1. PICK c \in Newest(keys, seen):
           next = IF e < seen[c] THEN (keys \ {c}) \union {k} ELSE keys
    BY <1>3 DEF Candidates
  <2>2. c \in keys /\ \A d \in keys: seen[d] <= seen[c]  BY <2>1 DEF Newest
  <2>3. CASE e < seen[c]
    <3>1. next = (keys \ {c}) \union {k}  BY <2>1, <2>3
    <3>2. IsFiniteSet(keys)  BY CacheAssumption, FS_Subset DEF CacheAssumption
    <3>3. IsFiniteSet(keys \ {c}) /\ Cardinality(keys \ {c}) = Cardinality(keys) - 1
      BY <2>2, <3>2, FS_RemoveElement
    <3>4. Cardinality(next) = Cardinality(keys \ {c}) + 1
      BY <3>1, <3>3, FS_AddElement
    <3>5. Cardinality(next) = Cardinality(keys)
      BY <3>2, <3>3, <3>4, FS_CardinalityType
    <3>6. ASSUME NEW x \in next, NEW d \in (DOMAIN seen \union {k}) \ next
          PROVE  after[x] <= after[d]
      <4>1. d \in DOMAIN seen /\ d # k /\ (d = c \/ d \notin keys)
        BY <3>1, <3>6
      <4>2. seen[c] <= seen[d]  BY <1>1, <2>2, <4>1
      <4>3. CASE x = k  BY <1>1, <2>2, <2>3, <4>1, <4>2, <4>3
      <4>4. CASE x \in keys  BY <1>1, <2>2, <4>1, <4>2, <4>4
      <4> QED  BY <3>1, <4>3, <4>4
    <3> QED  BY <1>3, <2>2, <3>1, <3>5, <3>6 DEF after
  <2>4. CASE ~(e < seen[c])
    <3>1. next = keys  BY <2>1, <2>4
    <3>2. ASSUME NEW x \in keys, NEW d \in (DOMAIN seen \union {k}) \ keys
          PROVE  after[x] <= after[d]
      BY <1>1, <2>2, <2>4, <3>2
    <3> QED  BY <1>3, <3>1, <3>2 DEF after
  <2> QED  BY <2>3, <2>4
<1> QED  BY <1>2, <1>3

\* A visit of cleanupOldest keeps Scan in the goroutine that makes it.
LEMMA OldestVisitScan ==
    ASSUME IInv, NEW p \in Worker, OldestVisit(p)
    PROVE  ScanOf(loc'[p])
<1> p \in Proc  BY DEF Proc
<1>0. TypeOK  BY DEF IInv
<1>1. TypeOK /\ loc[p] \in Local /\ loc \in [Proc -> Local]
  BY <1>0, LocUpdates DEF TypeOK
<1>2. loc[p].pc = "oldestRange" /\ Scan(loc[p])
  BY DEF IInv, ScanInv, ScanOf, OldestVisit
<1>3. PICK k \in DOMAIN data \ DOMAIN loc[p].seen:
         \E keys \in Candidates(loc[p].keys, loc[p].seen, k, data[k]):
            loc' = [loc EXCEPT ![p].keys = keys,
                               ![p].seen = With(loc[p].seen, k, data[k])]
  BY DEF OldestVisit
<1>4. PICK keys \in Candidates(loc[p].keys, loc[p].seen, k, data[k]):
         loc' = [loc EXCEPT ![p].keys = keys,
                            ![p].seen = With(loc[p].seen, k, data[k])]
  BY <1>3
<1>5. /\ k \in Key /\ data[k] \in Expiration
      /\ loc[p].keys \in SUBSET Key /\ loc[p].seen \in Partial(Key, Expiration)
  BY <1>1, VisitType DEF Local
<1> DEFINE seen == With(loc[p].seen, k, data[k])
<1>6. DOMAIN seen = DOMAIN loc[p].seen \union {k}  BY DEF With
<1>7. /\ keys \subseteq DOMAIN seen
      /\ Cardinality(keys) < Threshold => keys = DOMAIN seen
      /\ \A c \in keys, d \in DOMAIN seen \ keys: seen[c] <= seen[d]
  <2> HIDE DEF seen
  <2>1. /\ keys \subseteq DOMAIN loc[p].seen \union {k}
        /\ Cardinality(keys) < Threshold => keys = DOMAIN loc[p].seen \union {k}
        /\ \A c \in keys, d \in (DOMAIN loc[p].seen \union {k}) \ keys:
             With(loc[p].seen, k, data[k])[c] <= With(loc[p].seen, k, data[k])[d]
    BY <1>2, <1>3, <1>4, <1>5, VisitScan DEF Scan
  <2> QED  BY <1>6, <2>1 DEF seen
<1> HIDE DEF seen
<1>8. /\ loc'[p].pc = "oldestRange" /\ loc'[p].keys = keys /\ loc'[p].seen = seen
  BY <1>1, <1>2, <1>4 DEF Local, seen
<1> QED  BY <1>7, <1>8 DEF ScanOf, Scan

\* A step of goroutine p that leaves it elsewhere than in cleanupOldest, or on
\* its way there with nothing read, keeps ScanInv.
LEMMA OneGoroutine ==
    ASSUME IInv, NEW p \in Proc, ScanOf(loc'[p]),
           \A q \in Proc \ {p}: loc'[q] = loc[q]
    PROVE  ScanInv'
<1>1. ASSUME NEW q \in Worker PROVE ScanOf(loc'[q])
  <2>1. CASE q = p  BY <2>1
  <2>2. CASE q # p
    <3>1. loc'[q] = loc[q]  BY <2>2 DEF Proc
    <3>2. ScanOf(loc[q])  BY DEF IInv, ScanInv
    <3> QED  BY <3>1, <3>2
  <2> QED  BY <2>1, <2>2
<1>2. ScanInv' = \A q \in Worker: ScanOf(loc'[q])  BY DEF ScanInv, ScanOf, Scan
<1> QED  BY <1>1, <1>2

\* Every step of a worker keeps ScanInv.
LEMMA WorkerScan ==
    ASSUME IInv, NEW p \in Worker, WorkerNext(p)
    PROVE  ScanInv'
<1> p \in Proc  BY DEF Proc
<1>0. TypeOK  BY DEF IInv
<1>1. loc \in [Proc -> Local] /\ loc[p] \in Local  BY <1>0, LocUpdates DEF TypeOK
<1>2. ScanOf(loc[p])  BY DEF IInv, ScanInv
<1> DEFINE Elsewhere == loc'[p].pc \notin {"setCheck", "oldestCheck", "oldestRange"}
           Others == \A q \in Proc \ {p}: loc'[q] = loc[q]
<1>3. ASSUME Elsewhere, Others PROVE ScanInv'
  <2>1. ScanOf(loc'[p])  BY <1>3 DEF ScanOf
  <2> QED  BY <1>3, <2>1, OneGoroutine
<1>4. ASSUME NEW k \in Key, SetLoad(p, k) \/ GetLoad(p, k) \/ Delete(p, k)
      PROVE  ScanInv'
  <2>1. Elsewhere /\ Others  BY <1>1, <1>4 DEF SetLoad, GetLoad, Delete, Local
  <2> QED  BY <1>3, <2>1
<1>5. CASE SetDelete(p) \/ SetAdd(p) \/ Clear(p) \/ ClearRanged(p)
  <2>1. Elsewhere /\ Others
    BY <1>1, <1>5 DEF SetDelete, SetAdd, Clear, ClearRanged, Goto, Local
  <2> QED  BY <1>3, <2>1
<1>6. CASE ClearVisit(p)
  <2>1. Elsewhere /\ Others  BY <1>1, <1>6 DEF ClearVisit, Local
  <2> QED  BY <1>3, <2>1
<1>7. CASE ClearStore(p) \/ Subtract(p)
  <2>1. Elsewhere /\ Others  BY <1>1, <1>7 DEF ClearStore, Subtract, Return, Idle
  <2> QED  BY <1>3, <2>1
<1>8. CASE GetDelete(p)
  <2>1. Elsewhere /\ Others  BY <1>1, <1>8 DEF GetDelete, Idle
  <2> QED  BY <1>3, <2>1
<1>9. CASE OldestDelete(p)
  <2>1. Elsewhere /\ Others  BY <1>1, <1>9 DEF OldestDelete, Idle
  <2> QED  BY <1>3, <2>1
<1>10. CASE SetStore(p)
  <2>1. Others /\ loc'[p] = [Idle EXCEPT !.pc = "setCheck"]  BY <1>1, <1>10 DEF SetStore
  <2>2. loc'[p].pc = "setCheck" /\ loc'[p].keys = {} /\ loc'[p].seen = <<>>
    BY <2>1 DEF Idle
  <2>3. ScanOf(loc'[p])  BY <2>2 DEF ScanOf
  <2> QED  BY <2>1, <2>3, OneGoroutine
<1>11. CASE SetCheck(p)
  <2>1. Others  BY <1>1, <1>11 DEF SetCheck, Goto, Return
  <2>2. CASE Goto(p, "oldestCheck")
    <3>1. loc[p].keys = {} /\ loc[p].seen = <<>>  BY <1>2, <1>11 DEF SetCheck, ScanOf
    <3>2. loc'[p].pc = "oldestCheck" /\ loc'[p].keys = {} /\ loc'[p].seen = <<>>
      BY <1>1, <2>2, <3>1 DEF Goto, Local
    <3>3. ScanOf(loc'[p])  BY <3>2 DEF ScanOf
    <3> QED  BY <2>1, <3>3, OneGoroutine
  <2>3. CASE Return(p)
    <3>1. Elsewhere  BY <1>1, <2>3 DEF Return, Idle
    <3> QED  BY <1>3, <2>1, <3>1
  <2> QED  BY <1>11, <2>2, <2>3 DEF SetCheck
<1>12. CASE OldestCheck(p)
  <2>1. Others  BY <1>1, <1>12 DEF OldestCheck, Goto, Return
  <2>2. CASE Goto(p, "oldestRange")
    <3>1. loc[p].keys = {} /\ loc[p].seen = <<>>  BY <1>2, <1>12 DEF OldestCheck, ScanOf
    <3>2. loc'[p].pc = "oldestRange" /\ loc'[p].keys = {} /\ loc'[p].seen = <<>>
      BY <1>1, <2>2, <3>1 DEF Goto, Local
    <3>3. DOMAIN <<>> = {}  BY EmptyType
    <3>4. Scan(loc'[p])  BY <3>2, <3>3 DEF Scan
    <3>5. ScanOf(loc'[p])  BY <3>2, <3>4 DEF ScanOf
    <3> QED  BY <2>1, <3>5, OneGoroutine
  <2>3. CASE Return(p)
    <3>1. Elsewhere  BY <1>1, <2>3 DEF Return, Idle
    <3> QED  BY <1>3, <2>1, <3>1
  <2> QED  BY <1>12, <2>2, <2>3 DEF OldestCheck
<1>13. CASE OldestVisit(p)
  <2>1. Others  BY <1>1, <1>13 DEF OldestVisit
  <2>2. ScanOf(loc'[p])  BY <1>13, OldestVisitScan
  <2> QED  BY <2>1, <2>2, OneGoroutine
<1>14. CASE OldestRanged(p)
  <2>1. Others  BY <1>1, <1>14 DEF OldestRanged, Goto, Return
  <2>2. Elsewhere  BY <1>1, <1>14 DEF OldestRanged, Goto, Return, Local, Idle
  <2> QED  BY <1>3, <2>1, <2>2
<1> QED
  BY <1>4, <1>5, <1>6, <1>7, <1>8, <1>9, <1>10, <1>11, <1>12, <1>13, <1>14
  DEF WorkerNext, SetSteps, OldestSteps, ClearSteps

\* Every step keeps the inductive invariant.
LEMMA Inductive == IInv /\ [Next]_vars => IInv'
<1> SUFFICES ASSUME IInv, [Next]_vars PROVE IInv'  OBVIOUS
<1>1. TypeOK'  BY TypeStep DEF IInv
<1>2. ScanInv'
  <2>1. ASSUME NEW p \in Worker, WorkerNext(p) PROVE ScanInv'
    BY <2>1, WorkerScan
  <2>2. ASSUME \A p \in Worker: loc'[p] = loc[p] PROVE ScanInv'
    <3>1. \A p \in Worker: ScanOf(loc[p])  BY DEF IInv, ScanInv
    <3>2. ScanInv' = \A p \in Worker: ScanOf(loc'[p])  BY DEF ScanInv, ScanOf, Scan
    <3> QED  BY <2>2, <3>1, <3>2
  <2>3. CASE Cleanup \/ CleanSteps \/ StopCleaner
    <3>1. loc \in [Proc -> Local] /\ Cleaner \notin Worker
      BY CacheAssumption DEF IInv, TypeOK, CacheAssumption
    <3>2. ASSUME NEW p \in Worker PROVE loc'[p] = loc[p]
      <4>1. p \in Proc /\ p # Cleaner  BY <3>1 DEF Proc
      <4>2. CASE Cleanup  BY <3>1, <4>1, <4>2 DEF Cleanup, Goto
      <4>3. CASE CleanVisit  BY <3>1, <4>1, <4>3 DEF CleanVisit
      <4>4. CASE CleanDelete  BY <3>1, <4>1, <4>4 DEF CleanDelete
      <4>5. CASE CleanRanged  BY <3>1, <4>1, <4>5 DEF CleanRanged, Return
      <4>6. CASE Subtract(Cleaner)  BY <3>1, <4>1, <4>6 DEF Subtract, Return
      <4>7. CASE StopCleaner  BY <3>1, <4>1, <4>7 DEF StopCleaner, Goto
      <4> QED  BY <2>3, <4>2, <4>3, <4>4, <4>5, <4>6, <4>7 DEF CleanSteps
    <3> QED  BY <2>2, <3>2
  <2>4. CASE Close \/ CloseReturn \/ Tick \/ UNCHANGED vars
    <3>1. loc' = loc  BY <2>4 DEF Close, CloseReturn, Tick, vars
    <3> QED  BY <2>2, <3>1
  <2> QED  BY <2>1, <2>3, <2>4 DEF Next
<1> QED  BY <1>1, <1>2 DEF IInv

LEMMA Initial == Init => IInv
<1> SUFFICES ASSUME Init PROVE ScanInv  BY TypeInit DEF IInv
<1>1. \A p \in Worker: loc[p] = Idle  BY DEF Init, Proc
<1>2. Idle.pc = "idle"  BY DEF Idle
<1> QED  BY <1>1, <1>2 DEF ScanInv, ScanOf

\* cleanupOldest never prefers a younger entry to an older one it has read,
\* whatever the other goroutines do to the map during its Range.
THEOREM EvictsOldest == Spec => []OldestChosen
<1>1. IInv => OldestChosen  BY DEF IInv, ScanInv, ScanOf, Scan, OldestChosen
<1> QED  BY Initial, Inductive, <1>1, PTL DEF Spec

-----------------------------------------------------------------------------
(* The counter counts the entries, up to what goroutines have in hand       *)

AheadOf(l) == IF l.pc = "setStore" THEN 1 ELSE l.n

Removing == {"oldestDelete", "subtract", "clearRange", "clearStore",
             "cleanRange", "cleanDelete"}

\* Only a goroutine that removes entries has some to take off the counter; a Set
\* that replaces an entry has one key.
CountsOf(l) ==
    /\ l.pc \notin Removing => l.n = 0
    /\ l.pc = "setDelete" => \E k \in Key: l.keys = {k}

\* The look at the map that a goroutine acts on is still right.
LookOf(l, D) ==
    /\ l.pc \in {"setDelete", "getDelete", "oldestRange", "oldestDelete",
                 "cleanDelete"} => l.keys \subseteq D
    /\ l.pc \in {"setAdd", "setStore"} => l.keys \intersect D = {}
    /\ l.pc = "clearRange" => DOMAIN l.seen \intersect D = {}
    /\ l.pc = "clearStore" => D = {}

\* A goroutine that has stored an entry, and has neither removed one since nor
\* found the counter within the limit.
OwingOf(l) ==
    \/ l.pc \in {"setCheck", "oldestCheck", "oldestRange"}
    \/ l.pc = "oldestDelete" /\ l.n = 0
Owing == {p \in Proc: OwingOf(loc[p])}

Counted ==
    /\ \A p \in Proc: LookOf(loc[p], DOMAIN data)
    /\ Drift = 0
    /\ MaxItems > 0 => Cardinality(DOMAIN data) <= MaxItems + Cardinality(Owing)

CountInv ==
    /\ IInv
    /\ IsFiniteSet(InHand)
    /\ \A p \in Proc: CountsOf(loc[p])
    /\ ~raced => Counted

\* The elements of InHand that goroutines P have, h of them each.
Hand(h, P) == UNION {{q} \X (1..h[q]): q \in P}

\* p has as many of them as h says.
LEMMA HandOfOne ==
    ASSUME NEW p, NEW n \in Nat
    PROVE  IsFiniteSet({p} \X (1..n)) /\ Cardinality({p} \X (1..n)) = n
<1>1. IsFiniteSet(1..n) /\ Cardinality(1..n) = n
  <2>1. IsFiniteSet(1..n) /\ Cardinality(1..n) = IF 1 > n THEN 0 ELSE n - 1 + 1
    BY FS_Interval
  <2> QED  BY <2>1
<1>2. IsFiniteSet({p}) /\ Cardinality({p}) = 1  BY FS_Singleton
<1>3. /\ IsFiniteSet({p} \X (1..n))
      /\ Cardinality({p} \X (1..n)) = Cardinality({p}) * Cardinality(1..n)
  BY <1>1, <1>2, FS_Product
<1> QED  BY <1>1, <1>2, <1>3

\* InHand is what p has in hand and what the others have.
LEMMA HandSplit ==
    ASSUME NEW h \in [Proc -> Nat], NEW p \in Proc,
           IsFiniteSet(Hand(h, Proc \ {p}))
    PROVE  /\ IsFiniteSet(Hand(h, Proc))
           /\ Cardinality(Hand(h, Proc)) = Cardinality(Hand(h, Proc \ {p})) + h[p]
<1> DEFINE Own == {p} \X (1..h[p])
           Rest == Hand(h, Proc \ {p})
<1>1. Hand(h, Proc) = Rest \union Own  BY DEF Hand
<1>2. Rest \intersect Own = {}  BY DEF Hand
<1>3. h[p] \in Nat  OBVIOUS
<1>4. IsFiniteSet(Own) /\ Cardinality(Own) = h[p]  BY <1>3, HandOfOne
<1> HIDE DEF Own, Rest
<1>5. IsFiniteSet(Rest)  BY DEF Rest
<1>6. /\ IsFiniteSet(Rest \union Own)
      /\ Cardinality(Rest \union Own)
           = Cardinality(Rest) + Cardinality(Own) - Cardinality(Rest \intersect Own)
  BY <1>4, <1>5, FS_Union
<1>7. Cardinality(Rest) \in Nat /\ Cardinality({}) = 0
  BY <1>5, FS_CardinalityType, FS_EmptySet
<1>8. Cardinality(Rest \intersect Own) = 0  BY <1>2, <1>7
<1>9. Cardinality(Rest \union Own) = Cardinality(Rest) + h[p]
  BY <1>3, <1>4, <1>6, <1>7, <1>8
<1> QED  BY <1>1, <1>6, <1>9 DEF Rest

\* A change of what p has in hand changes their number by as much.
LEMMA HandChange ==
    ASSUME NEW h \in [Proc -> Nat], NEW g \in [Proc -> Nat], NEW p \in Proc,
           \A q \in Proc \ {p}: g[q] = h[q],
           IsFiniteSet(Hand(h, Proc))
    PROVE  /\ IsFiniteSet(Hand(g, Proc))
           /\ Cardinality(Hand(h, Proc)) \in Nat
           /\ Cardinality(Hand(g, Proc)) = Cardinality(Hand(h, Proc)) - h[p] + g[p]
<1>1. Hand(g, Proc \ {p}) = Hand(h, Proc \ {p})  BY DEF Hand
<1>2. Hand(h, Proc \ {p}) \in SUBSET Hand(h, Proc)  BY DEF Hand
<1>3. IsFiniteSet(Hand(h, Proc \ {p}))  BY <1>2, FS_Subset
<1>4. Cardinality(Hand(h, Proc \ {p})) \in Nat /\ Cardinality(Hand(h, Proc)) \in Nat
  BY <1>3, FS_CardinalityType
<1>5. Cardinality(Hand(h, Proc)) = Cardinality(Hand(h, Proc \ {p})) + h[p]
  BY <1>3, HandSplit
<1>6. /\ IsFiniteSet(Hand(g, Proc))
      /\ Cardinality(Hand(g, Proc)) = Cardinality(Hand(g, Proc \ {p})) + g[p]
  BY <1>1, <1>3, HandSplit
<1>7. h[p] \in Nat /\ g[p] \in Nat  OBVIOUS
<1> QED  BY <1>1, <1>4, <1>5, <1>6, <1>7

AheadFun == [q \in Proc |-> AheadOf(loc[q])]

LEMMA AheadType ==
    ASSUME NEW l \in Local
    PROVE  AheadOf(l) \in Nat
BY DEF AheadOf, Local

LEMMA InHandIs ==
    InHand = Hand(AheadFun, Proc) /\ (TypeOK => AheadFun \in [Proc -> Nat])
<1>1. InHand = Hand(AheadFun, Proc)
  BY DEF InHand, Hand, AheadFun, Ahead, AheadOf
<1>2. ASSUME TypeOK PROVE AheadFun \in [Proc -> Nat]
  BY <1>2, AheadType DEF TypeOK, AheadFun
<1> QED  BY <1>1, <1>2

\* What is known while no look at the map was stale.
LEMMA CountedFacts ==
    ASSUME CountInv
    PROVE  /\ IsFiniteSet(DOMAIN data) /\ Cardinality(DOMAIN data) \in Nat
           /\ Cardinality(InHand) \in Nat
           /\ IsFiniteSet(Owing) /\ Cardinality(Owing) \in Nat
           /\ itemCount \in Int /\ MaxItems \in Nat
           /\ ~raced => itemCount = Cardinality(DOMAIN data) + Cardinality(InHand)
<1>1. data \in Partial(Key, Expiration) /\ itemCount \in Int
  BY DEF CountInv, IInv, TypeOK
<1>2. DOMAIN data \in SUBSET Key  BY <1>1, PartialValues
<1>3. IsFiniteSet(DOMAIN data)
  BY <1>2, FS_Subset, CacheAssumption DEF CacheAssumption
<1>4. IsFiniteSet(Owing)
  <2>1. IsFiniteSet(Proc)  BY FS_AddElement, CacheAssumption DEF CacheAssumption, Proc
  <2>2. Owing \in SUBSET Proc  BY DEF Owing
  <2> QED  BY <2>1, <2>2, FS_Subset
<1>5. /\ Cardinality(DOMAIN data) \in Nat /\ Cardinality(InHand) \in Nat
      /\ Cardinality(Owing) \in Nat
  BY <1>3, <1>4, FS_CardinalityType DEF CountInv
<1>6. ~raced => itemCount - Cardinality(DOMAIN data) - Cardinality(InHand) = 0
  BY DEF CountInv, Counted, Drift
<1> QED  BY <1>1, <1>3, <1>4, <1>5, <1>6, CacheAssumption DEF CacheAssumption

-----------------------------------------------------------------------------
(* One step of a goroutine                                                 *)

\* p leaves the keys of the map alone (d = 0), or takes a key out or puts one in
\* that no other goroutine has looked at and is about to act on.
KeysStep(p, d) ==
    \/ d = 0 /\ DOMAIN data' = DOMAIN data
    \/ \E k \in Key:
         /\ \A q \in Proc \ {p}: k \notin Trusted(q)
         /\ \/ /\ d = -1 /\ k \in DOMAIN data
               /\ DOMAIN data' = DOMAIN data \ {k}
            \/ /\ d = 1 /\ k \notin DOMAIN data
               /\ DOMAIN data' = DOMAIN data \union {k}

\* The others' looks stay right.
LEMMA LookKept ==
    ASSUME CountInv, ~raced, NEW p \in Proc, NEW d, KeysStep(p, d),
           NEW q \in Proc \ {p}
    PROVE  LookOf(loc[q], DOMAIN data')
<1>1. LookOf(loc[q], DOMAIN data)  BY DEF CountInv, Counted
<1>2. CASE DOMAIN data' = DOMAIN data  BY <1>1, <1>2
<1>3. ASSUME NEW k \in Key, k \notin Trusted(q),
             \/ DOMAIN data' = DOMAIN data \ {k}
             \/ DOMAIN data' = DOMAIN data \union {k}
      PROVE  LookOf(loc[q], DOMAIN data')
  <2>1. /\ loc[q].pc \notin {"clearRange", "clearStore"}
        /\ k \notin loc[q].keys
    BY <1>3 DEF Trusted
  <2> QED  BY <1>1, <1>3, <2>1 DEF LookOf
<1> QED  BY <1>2, <1>3 DEF KeysStep

\* The number of keys changes by d.
LEMMA KeysCount ==
    ASSUME CountInv, NEW p \in Proc, NEW d, KeysStep(p, d)
    PROVE  d \in Int /\ Cardinality(DOMAIN data') = Cardinality(DOMAIN data) + d
<1>1. IsFiniteSet(DOMAIN data) /\ Cardinality(DOMAIN data) \in Nat  BY CountedFacts
<1>2. ASSUME NEW k
      PROVE  /\ k \in DOMAIN data => Cardinality(DOMAIN data \ {k})
                                       = Cardinality(DOMAIN data) - 1
             /\ k \notin DOMAIN data => Cardinality(DOMAIN data \union {k})
                                          = Cardinality(DOMAIN data) + 1
  BY <1>1, FS_AddElement, FS_RemoveElement
<1>3. CASE d = 0 /\ DOMAIN data' = DOMAIN data  BY <1>1, <1>3
<1>4. ASSUME NEW k \in Key, d = -1, k \in DOMAIN data,
             DOMAIN data' = DOMAIN data \ {k}
      PROVE  d \in Int /\ Cardinality(DOMAIN data') = Cardinality(DOMAIN data) + d
  BY <1>1, <1>2, <1>4
<1>5. ASSUME NEW k \in Key, d = 1, k \notin DOMAIN data,
             DOMAIN data' = DOMAIN data \union {k}
      PROVE  d \in Int /\ Cardinality(DOMAIN data') = Cardinality(DOMAIN data) + d
  BY <1>1, <1>2, <1>5
<1> QED  BY <1>3, <1>4, <1>5 DEF KeysStep

\* The number of goroutines that owe a look at the limit.
LEMMA OwingCount ==
    ASSUME CountInv, CountInv => TypeOK', NEW p \in Proc,
           \A q \in Proc \ {p}: loc'[q] = loc[q]
    PROVE  /\ Cardinality(Owing') \in Nat
           /\ OwingOf(loc[p]) /\ ~OwingOf(loc'[p])
                => Cardinality(Owing') = Cardinality(Owing) - 1
           /\ ~OwingOf(loc[p]) /\ OwingOf(loc'[p])
                => Cardinality(Owing') = Cardinality(Owing) + 1
           /\ (OwingOf(loc[p]) <=> OwingOf(loc'[p]))
                => Cardinality(Owing') = Cardinality(Owing)
<1>1. IsFiniteSet(Owing) /\ Cardinality(Owing) \in Nat  BY CountedFacts
<1>2. \A q \in Proc: q \in Owing <=> OwingOf(loc[q])  BY DEF Owing
<1>3. Owing' = {q \in Proc: OwingOf(loc'[q])}  BY DEF Owing, OwingOf
<1>4. CASE OwingOf(loc[p]) /\ ~OwingOf(loc'[p])
  <2>1. Owing' = Owing \ {p} /\ p \in Owing  BY <1>2, <1>3, <1>4 DEF Owing
  <2> QED  BY <1>1, <1>4, <2>1, FS_RemoveElement, FS_CardinalityType
<1>5. CASE ~OwingOf(loc[p]) /\ OwingOf(loc'[p])
  <2>1. Owing' = Owing \union {p} /\ p \notin Owing  BY <1>2, <1>3, <1>5 DEF Owing
  <2> QED  BY <1>1, <1>5, <2>1, FS_AddElement, FS_CardinalityType
<1>6. CASE OwingOf(loc[p]) <=> OwingOf(loc'[p])
  <2>1. Owing' = Owing  BY <1>2, <1>3, <1>6 DEF Owing
  <2> QED  BY <1>1, <1>6, <2>1
<1> QED  BY <1>4, <1>5, <1>6

\* A step of p keeps the count if the counter moves with the map and with what p
\* has in hand, and p gives up owing only with an entry removed or the map
\* within its limit.
LEMMA StepCount ==
    ASSUME CountInv, IInv', NEW p \in Proc, NEW l, l = loc'[p], NEW d,
           \A q \in Proc \ {p}: loc'[q] = loc[q],
           CountsOf(l),
           raced => raced',
           ~raced' => /\ LookOf(l, DOMAIN data')
                      /\ KeysStep(p, d)
                      /\ itemCount' = itemCount + d + AheadOf(l) - AheadOf(loc[p])
                      /\ \/ MaxItems > 0 => Cardinality(DOMAIN data') <= MaxItems
                         \/ d <= 0 /\ (OwingOf(loc[p]) => OwingOf(l))
                         \/ d <= -1
                         \/ d <= 1 /\ ~OwingOf(loc[p]) /\ OwingOf(l)
    PROVE  CountInv'
<1>1. TypeOK /\ TypeOK' /\ IInv  BY DEF CountInv, IInv
<1>2. /\ AheadFun \in [Proc -> Nat] /\ InHand = Hand(AheadFun, Proc)
      /\ IsFiniteSet(InHand)
  BY <1>1, InHandIs DEF CountInv
<1>3. loc \in [Proc -> Local] /\ loc' \in [Proc -> Local] /\ l \in Local
  BY <1>1 DEF TypeOK
<1> DEFINE g == [q \in Proc |-> AheadOf(loc'[q])]
<1>4. /\ g \in [Proc -> Nat] /\ \A q \in Proc \ {p}: g[q] = AheadFun[q]
      /\ g[p] = AheadOf(l) /\ AheadFun[p] = AheadOf(loc[p])
  BY <1>3, AheadType DEF AheadFun
<1>5. InHand' = Hand(g, Proc)  BY DEF InHand, Hand, Ahead, AheadOf
<1> HIDE DEF g
<1>6. /\ IsFiniteSet(InHand')
      /\ Cardinality(InHand') = Cardinality(InHand) - AheadOf(loc[p]) + AheadOf(l)
  <2>1. /\ IsFiniteSet(Hand(g, Proc))
        /\ Cardinality(Hand(g, Proc)) = Cardinality(Hand(AheadFun, Proc))
                                          - AheadFun[p] + g[p]
    BY <1>2, <1>4, HandChange
  <2> QED  BY <1>2, <1>4, <1>5, <2>1
<1>7. \A q \in Proc: CountsOf(loc'[q])
  BY DEF CountInv
<1>8. ASSUME ~raced' PROVE Counted'
  <2>0. ~raced  BY <1>8
  <2>1. /\ itemCount \in Int /\ Cardinality(DOMAIN data) \in Nat
        /\ Cardinality(InHand) \in Nat /\ Cardinality(Owing) \in Nat
        /\ MaxItems \in Nat
        /\ itemCount = Cardinality(DOMAIN data) + Cardinality(InHand)
    BY <2>0, CountedFacts
  <2>2. d \in Int /\ Cardinality(DOMAIN data') = Cardinality(DOMAIN data) + d
    BY <1>8, KeysCount
  <2>3. AheadOf(l) \in Nat /\ AheadOf(loc[p]) \in Nat  BY <1>3, AheadType
  <2>4. Drift' = 0
    <3>1. Drift' = itemCount' - Cardinality(DOMAIN data') - Cardinality(InHand')
      BY DEF Drift
    <3> QED  BY <1>6, <1>8, <2>1, <2>2, <2>3, <3>1
  <2>5. ASSUME NEW q \in Proc PROVE LookOf(loc'[q], DOMAIN data')
    <3>1. CASE q = p  BY <1>8, <3>1
    <3>2. CASE q # p
      <4>1. q \in Proc \ {p} /\ loc'[q] = loc[q]  BY <3>2
      <4>2. LookOf(loc[q], DOMAIN data')  BY <1>8, <2>0, <4>1, LookKept
      <4> QED  BY <4>1, <4>2
    <3> QED  BY <3>1, <3>2
  <2>6. MaxItems > 0 => Cardinality(DOMAIN data') <= MaxItems + Cardinality(Owing')
    <3>1. MaxItems > 0 => Cardinality(DOMAIN data) <= MaxItems + Cardinality(Owing)
      BY <2>0 DEF CountInv, Counted
    <3>2. /\ Cardinality(Owing') \in Nat
          /\ OwingOf(loc[p]) /\ ~OwingOf(l)
               => Cardinality(Owing') = Cardinality(Owing) - 1
          /\ ~OwingOf(loc[p]) /\ OwingOf(l)
               => Cardinality(Owing') = Cardinality(Owing) + 1
          /\ (OwingOf(loc[p]) <=> OwingOf(l))
               => Cardinality(Owing') = Cardinality(Owing)
      BY <1>1, OwingCount
    <3> QED  BY <1>8, <2>1, <2>2, <3>1, <3>2
  <2>7. (\A q \in Proc: LookOf(loc[q], DOMAIN data))'
    BY <2>5 DEF LookOf
  <2> QED  BY <2>4, <2>6, <2>7 DEF Counted
<1>9. (\A q \in Proc: CountsOf(loc[q]))'  BY <1>7 DEF CountsOf
<1> QED  BY <1>6, <1>8, <1>9 DEF CountInv

\* A step that leaves the map and the counter alone.
LEMMA LocalStep ==
    ASSUME CountInv, IInv', NEW p \in Proc, NEW l, l = loc'[p],
           UNCHANGED <<data, raced, itemCount>>,
           \A q \in Proc \ {p}: loc'[q] = loc[q],
           CountsOf(l), AheadOf(l) = AheadOf(loc[p]),
           ~raced => LookOf(l, DOMAIN data),
           \/ OwingOf(loc[p]) => OwingOf(l)
           \/ ~raced /\ MaxItems > 0 => Cardinality(DOMAIN data) <= MaxItems
    PROVE  CountInv'
<1>1. loc[p] \in Local /\ l \in Local /\ itemCount \in Int
  BY DEF CountInv, IInv, TypeOK
<1>2. AheadOf(loc[p]) \in Nat  BY <1>1, AheadType
<1>3. KeysStep(p, 0) /\ itemCount' = itemCount + 0 + AheadOf(l) - AheadOf(loc[p])
  BY <1>1, <1>2 DEF KeysStep
<1> QED  BY <1>3, StepCount

\* What Delete of the map does to the keys, unless it makes a look stale.
LEMMA DeleteKeys ==
    ASSUME TypeOK, NEW p \in Proc, NEW k \in Key, MapDelete(p, k)
    PROVE  /\ raced => raced'
           /\ DOMAIN data' = DOMAIN data \ {k}
           /\ ~raced' /\ Has(k) => KeysStep(p, -1)
<1>1. DOMAIN data' = DOMAIN data \ {k}  BY DEF MapDelete, Without
<1>2. ASSUME ~raced', Has(k) PROVE \A q \in Proc \ {p}: k \notin Trusted(q)
  BY <1>2 DEF MapDelete, Stale
<1> QED  BY <1>1, <1>2 DEF MapDelete, KeysStep, Has

\* A step that removes an entry and has it in hand from then on.
LEMMA RemoveStep ==
    ASSUME CountInv, IInv', NEW p \in Proc, NEW l, l = loc'[p], NEW k \in Key,
           MapDelete(p, k), ~raced => Has(k), UNCHANGED itemCount,
           \A q \in Proc \ {p}: loc'[q] = loc[q],
           CountsOf(l), AheadOf(l) = AheadOf(loc[p]) + 1,
           ~raced' => LookOf(l, DOMAIN data \ {k})
    PROVE  CountInv'
<1>1. loc[p] \in Local /\ itemCount \in Int /\ TypeOK
  BY DEF CountInv, IInv, TypeOK
<1>2. AheadOf(loc[p]) \in Nat  BY <1>1, AheadType
<1>3. /\ raced => raced'
      /\ DOMAIN data' = DOMAIN data \ {k}
      /\ ~raced' => KeysStep(p, -1)
  BY <1>1, DeleteKeys
<1>4. itemCount' = itemCount + (-1) + AheadOf(l) - AheadOf(loc[p])
  BY <1>1, <1>2
<1> QED  BY <1>3, <1>4, StepCount

-----------------------------------------------------------------------------
(* Each step of a goroutine keeps the count                                *)

\* What a goroutine's step starts from.
LEMMA AtStep ==
    ASSUME CountInv, NEW p \in Proc
    PROVE  /\ loc \in [Proc -> Local] /\ loc[p] \in Local /\ itemCount \in Int
           /\ loc[p].keys \in SUBSET Key /\ loc[p].n \in Nat
           /\ CountsOf(loc[p])
           /\ ~raced => LookOf(loc[p], DOMAIN data)
           /\ Idle \in Local /\ CountsOf(Idle) /\ AheadOf(Idle) = 0
           /\ LookOf(Idle, DOMAIN data) /\ ~OwingOf(Idle)
<1>1. loc \in [Proc -> Local] /\ loc[p] \in Local /\ itemCount \in Int
  BY DEF CountInv, IInv, TypeOK
<1>2. Idle.pc = "idle" /\ Idle.n = 0  BY DEF Idle
<1> QED  BY <1>1, <1>2, IdleType DEF CountInv, Counted, Local, CountsOf, LookOf,
         AheadOf, OwingOf, Removing

\* Within the limit by the counter is within it by the map.
LEMMA WithinLimit ==
    ASSUME CountInv, ~raced, ~(itemCount > MaxItems)
    PROVE  Cardinality(DOMAIN data) <= MaxItems
BY CountedFacts

LEMMA SetCount ==
    ASSUME CountInv, IInv', NEW p \in Worker,
           SetSteps(p) \/ \E k \in Key: SetLoad(p, k)
    PROVE  CountInv'
<1> p \in Proc  BY DEF Proc
<1>0. TypeOK /\ ScanOf(loc[p])  BY DEF CountInv, IInv, ScanInv
<1> DEFINE l == loc'[p]
           Others == \A q \in Proc \ {p}: loc'[q] = loc[q]
<1>1. ASSUME NEW k \in Key, SetLoad(p, k) PROVE CountInv'
  <2>1. /\ l.pc = IF Has(k) THEN "setDelete" ELSE "setAdd"
        /\ l.keys = {k} /\ l.n = loc[p].n /\ Others
    BY <1>1, AtStep DEF SetLoad, Local
  <2>2. loc[p].pc = "idle" /\ loc[p].n = 0  BY <1>1 DEF SetLoad, Idle
  <2>3. CountsOf(l) /\ AheadOf(l) = AheadOf(loc[p]) /\ LookOf(l, DOMAIN data)
    BY <2>1, <2>2 DEF CountsOf, AheadOf, LookOf, Has
  <2>4. ~OwingOf(loc[p])  BY <2>2 DEF OwingOf
  <2> QED  BY <1>1, <2>1, <2>3, <2>4, LocalStep DEF SetLoad, MapUnchanged
<1>2. CASE SetDelete(p)
  <2>1. /\ loc[p].pc = "setDelete" /\ l.pc = "setStore" /\ l.keys = loc[p].keys
        /\ l.n = loc[p].n /\ Others
    BY <1>2, AtStep DEF SetDelete, Goto, Local
  <2>2. PICK k \in Key: loc[p].keys = {k}  BY <2>1, AtStep DEF CountsOf
  <2>3. MapDelete(p, k) /\ UNCHANGED itemCount  BY <1>2, <2>2 DEF SetDelete
  <2>4. ~raced => Has(k)  BY <2>1, <2>2, AtStep DEF LookOf, Has
  <2>5. loc[p].n = 0  BY <2>1, AtStep DEF CountsOf, Removing
  <2>6. CountsOf(l) /\ AheadOf(l) = AheadOf(loc[p]) + 1 /\ LookOf(l, DOMAIN data \ {k})
    BY <2>1, <2>2, <2>5 DEF CountsOf, AheadOf, LookOf
  <2> QED  BY <2>1, <2>3, <2>4, <2>6, RemoveStep
<1>3. CASE SetAdd(p)
  <2>1. /\ loc[p].pc = "setAdd" /\ l.pc = "setStore" /\ l.keys = loc[p].keys
        /\ l.n = loc[p].n /\ Others
    BY <1>3, AtStep DEF SetAdd, Goto, Local
  <2>2. loc[p].n = 0  BY <2>1, AtStep DEF CountsOf, Removing
  <2>3. CountsOf(l) /\ AheadOf(l) = 1 /\ AheadOf(loc[p]) = 0
    BY <2>1, <2>2 DEF CountsOf, AheadOf
  <2>4. ~raced => LookOf(l, DOMAIN data)  BY <2>1, AtStep DEF LookOf
  <2>5. /\ UNCHANGED <<data, raced>>
        /\ itemCount' = itemCount + 0 + AheadOf(l) - AheadOf(loc[p])
    BY <1>3, <2>3, AtStep DEF SetAdd, MapUnchanged
  <2>6. KeysStep(p, 0) /\ ~OwingOf(loc[p])  BY <2>1, <2>5 DEF KeysStep, OwingOf
  <2> QED  BY <2>1, <2>3, <2>4, <2>5, <2>6, StepCount
<1>4. CASE SetStore(p)
  <2>1. PICK k \in loc[p].keys, ttl \in Ttl:
           /\ data' = With(data, k, now + ttl)
           /\ raced' = (raced \/ (~Has(k) /\ Stale(p, k)))
    BY <1>4 DEF SetStore
  <2>2. l = [Idle EXCEPT !.pc = "setCheck"] /\ Others /\ loc[p].pc = "setStore"
    BY <1>4, AtStep DEF SetStore
  <2>3. l.pc = "setCheck" /\ l.n = 0  BY <2>2 DEF Idle
  <2>4. /\ CountsOf(l) /\ AheadOf(l) = 0 /\ AheadOf(loc[p]) = 1
        /\ LookOf(l, DOMAIN data') /\ OwingOf(l) /\ ~OwingOf(loc[p])
    BY <2>2, <2>3 DEF CountsOf, AheadOf, LookOf, OwingOf
  <2>5. /\ k \in Key /\ (~raced => ~Has(k)) /\ (raced => raced')
        /\ DOMAIN data' = DOMAIN data \union {k}
    BY <2>1, <2>2, AtStep DEF LookOf, Has, With
  <2>6. ASSUME ~raced' PROVE KeysStep(p, 1)
    <3>1. \A q \in Proc \ {p}: k \notin Trusted(q)
      BY <2>1, <2>5, <2>6 DEF Stale
    <3> QED  BY <2>5, <2>6, <3>1 DEF KeysStep, Has
  <2>7. itemCount' = itemCount + 1 + AheadOf(l) - AheadOf(loc[p])
    BY <1>4, <2>4, AtStep DEF SetStore
  <2> QED  BY <2>2, <2>4, <2>5, <2>6, <2>7, StepCount
<1>5. CASE SetCheck(p)
  <2>0. /\ loc[p].pc = "setCheck" /\ loc[p].n = 0 /\ loc[p].keys = {}
        /\ AheadOf(loc[p]) = 0
        /\ UNCHANGED <<data, raced, itemCount>>
    BY <1>0, <1>5, AtStep
       DEF SetCheck, CountsOf, Removing, AheadOf, MapUnchanged, ScanOf
  <2>1. CASE Goto(p, "oldestCheck")
    <3>1. l.pc = "oldestCheck" /\ l.n = 0 /\ Others
      BY <2>0, <2>1, AtStep DEF Goto, Local
    <3>2. CountsOf(l) /\ AheadOf(l) = 0 /\ LookOf(l, DOMAIN data) /\ OwingOf(l)
      BY <3>1 DEF CountsOf, AheadOf, LookOf, OwingOf
    <3> QED  BY <2>0, <3>1, <3>2, LocalStep
  <2>2. CASE Return(p) /\ (MaxItems > 0 => ~(itemCount > MaxItems))
    <3>1. l = Idle /\ Others  BY <2>2, AtStep DEF Return
    <3>2. ~raced /\ MaxItems > 0 => Cardinality(DOMAIN data) <= MaxItems
      BY <2>2, WithinLimit
    <3> QED  BY <2>0, <3>1, <3>2, AtStep, LocalStep
  <2> QED  BY <1>5, <2>1, <2>2 DEF SetCheck
<1> QED  BY <1>1, <1>2, <1>3, <1>4, <1>5 DEF SetSteps

\* cleanupOldest removes at least one entry if it reads any.
LEMMA ThresholdPositive == Threshold \in Int /\ Threshold >= 1
<1> DEFINE S == {MaxItems \div 5, 1}
<1>1. S \subseteq Int  BY CacheAssumption DEF CacheAssumption
<1>2. \E x \in S: \A y \in S: x >= y  BY <1>1
<1>3. Max(S) \in S /\ \A y \in S: Max(S) >= y  BY <1>2 DEF Max
<1> QED  BY <1>1, <1>3 DEF Threshold

LEMMA OldestCount ==
    ASSUME CountInv, IInv', NEW p \in Worker, OldestSteps(p)
    PROVE  CountInv'
<1> p \in Proc  BY DEF Proc
<1>0. TypeOK /\ ScanOf(loc[p])  BY DEF CountInv, IInv, ScanInv
<1> DEFINE l == loc'[p]
           Others == \A q \in Proc \ {p}: loc'[q] = loc[q]
<1>1. CASE OldestCheck(p)
  <2>0. /\ loc[p].pc = "oldestCheck" /\ loc[p].n = 0 /\ loc[p].keys = {}
        /\ AheadOf(loc[p]) = 0
        /\ UNCHANGED <<data, raced, itemCount>>
    BY <1>0, <1>1, AtStep
       DEF OldestCheck, CountsOf, Removing, AheadOf, MapUnchanged, ScanOf
  <2>1. CASE Goto(p, "oldestRange")
    <3>1. l.pc = "oldestRange" /\ l.n = 0 /\ l.keys = {} /\ Others
      BY <2>0, <2>1, AtStep DEF Goto, Local
    <3>2. CountsOf(l) /\ AheadOf(l) = 0 /\ LookOf(l, DOMAIN data) /\ OwingOf(l)
      BY <3>1 DEF CountsOf, AheadOf, LookOf, OwingOf
    <3> QED  BY <2>0, <3>1, <3>2, LocalStep
  <2>2. CASE Return(p) /\ ~(itemCount > MaxItems)
    <3>1. l = Idle /\ Others  BY <2>2, AtStep DEF Return
    <3>2. ~raced => Cardinality(DOMAIN data) <= MaxItems  BY <2>2, WithinLimit
    <3> QED  BY <2>0, <3>1, <3>2, AtStep, LocalStep
  <2> QED  BY <1>1, <2>1, <2>2 DEF OldestCheck
<1>2. CASE OldestVisit(p)
  <2>0. PICK k \in DOMAIN data \ DOMAIN loc[p].seen:
           \E keys \in Candidates(loc[p].keys, loc[p].seen, k, data[k]):
              loc' = [loc EXCEPT ![p].keys = keys,
                                 ![p].seen = With(loc[p].seen, k, data[k])]
    BY <1>2 DEF OldestVisit
  <2>1. PICK keys \in Candidates(loc[p].keys, loc[p].seen, k, data[k]):
           loc' = [loc EXCEPT ![p].keys = keys,
                              ![p].seen = With(loc[p].seen, k, data[k])]
    BY <2>0
  <2>2. keys \subseteq loc[p].keys \union {k}
    BY DEF Candidates, Newest
  <2>3. /\ loc[p].pc = "oldestRange" /\ l.pc = "oldestRange" /\ l.keys = keys
        /\ l.n = loc[p].n /\ Others
    BY <1>2, <2>1, AtStep DEF OldestVisit, Local
  <2>4. CountsOf(l) /\ AheadOf(l) = AheadOf(loc[p]) /\ OwingOf(l)
    BY <2>3, AtStep DEF CountsOf, AheadOf, OwingOf
  <2>5. ~raced => LookOf(l, DOMAIN data)
    BY <2>2, <2>3, AtStep DEF LookOf
  <2> QED  BY <1>2, <2>3, <2>4, <2>5, LocalStep DEF OldestVisit, MapUnchanged
<1>3. CASE OldestRanged(p)
  <2>0. /\ loc[p].pc = "oldestRange" /\ loc[p].n = 0 /\ AheadOf(loc[p]) = 0
        /\ UNCHANGED <<data, raced, itemCount>>
    BY <1>3, AtStep
       DEF OldestRanged, CountsOf, Removing, AheadOf, MapUnchanged
  <2>1. CASE Goto(p, "oldestDelete")
    <3>1. l.pc = "oldestDelete" /\ l.n = 0 /\ l.keys = loc[p].keys /\ Others
      BY <2>0, <2>1, AtStep DEF Goto, Local
    <3>2. CountsOf(l) /\ AheadOf(l) = 0 /\ OwingOf(l)
      BY <3>1 DEF CountsOf, AheadOf, OwingOf
    <3>3. ~raced => LookOf(l, DOMAIN data)  BY <2>0, <3>1, AtStep DEF LookOf
    <3> QED  BY <2>0, <3>1, <3>2, <3>3, LocalStep
  <2>2. CASE Return(p) /\ loc[p].keys = {}
    <3>1. l = Idle /\ Others  BY <2>2, AtStep DEF Return
    <3>2. Cardinality({}) < Threshold
      BY FS_EmptySet, ThresholdPositive
    <3>3. DOMAIN data = {}
      BY <1>0, <1>3, <2>0, <2>2, <3>2 DEF OldestRanged, ScanOf, Scan
    <3>4. Cardinality(DOMAIN data) <= MaxItems
      BY <3>3, FS_EmptySet, CacheAssumption DEF CacheAssumption
    <3> QED  BY <2>0, <3>1, <3>4, AtStep, LocalStep
  <2> QED  BY <1>3, <2>1, <2>2 DEF OldestRanged
<1>4. CASE OldestDelete(p)
  <2>1. PICK k \in loc[p].keys:
          /\ MapDelete(p, k)
          /\ loc' = [loc EXCEPT
               ![p] = [Idle EXCEPT
                         !.pc = IF loc[p].keys = {k} THEN "subtract"
                                ELSE "oldestDelete",
                         !.keys = loc[p].keys \ {k}, !.n = loc[p].n + 1]]
    BY <1>4 DEF OldestDelete
  <2>2. /\ loc[p].pc = "oldestDelete" /\ l.pc \in {"subtract", "oldestDelete"}
        /\ l.keys = loc[p].keys \ {k} /\ l.n = loc[p].n + 1 /\ Others
    BY <1>4, <2>1, AtStep DEF OldestDelete, Idle
  <2>3. k \in Key /\ (~raced => Has(k))
    BY <2>2, AtStep DEF LookOf, Has
  <2>4. CountsOf(l) /\ AheadOf(l) = AheadOf(loc[p]) + 1
    BY <2>2 DEF CountsOf, AheadOf, Removing
  <2>5. ~raced => LookOf(l, DOMAIN data \ {k})
    BY <2>2, AtStep DEF LookOf
  <2>6. raced => raced'  BY <2>1 DEF MapDelete
  <2> QED  BY <1>4, <2>1, <2>2, <2>3, <2>4, <2>5, <2>6, RemoveStep DEF OldestDelete
<1> QED  BY <1>1, <1>2, <1>3, <1>4 DEF OldestSteps

\* The end of a call takes off the counter what the call removed.
LEMMA SubtractCount ==
    ASSUME CountInv, IInv', NEW p \in Proc, Subtract(p)
    PROVE  CountInv'
<1> DEFINE l == loc'[p]
           Others == \A q \in Proc \ {p}: loc'[q] = loc[q]
<1>1. /\ loc[p].pc = "subtract" /\ l = Idle /\ Others
      /\ UNCHANGED <<data, raced>> /\ itemCount' = itemCount - loc[p].n
  BY AtStep DEF Subtract, Return, MapUnchanged
<1>2. AheadOf(loc[p]) = loc[p].n /\ ~OwingOf(loc[p])  BY <1>1 DEF AheadOf, OwingOf
<1>3. itemCount' = itemCount + 0 + AheadOf(l) - AheadOf(loc[p])
  BY <1>1, <1>2, AtStep
<1>4. KeysStep(p, 0)  BY <1>1 DEF KeysStep
<1> QED  BY <1>1, <1>2, <1>3, <1>4, AtStep, StepCount

\* Get and Delete.
LEMMA GetDeleteCount ==
    ASSUME CountInv, IInv', NEW p \in Worker,
           \/ \E k \in Key: GetLoad(p, k) \/ Delete(p, k)
           \/ GetDelete(p)
    PROVE  CountInv'
<1> p \in Proc  BY DEF Proc
<1>0. TypeOK  BY DEF CountInv, IInv
<1> DEFINE l == loc'[p]
           Others == \A q \in Proc \ {p}: loc'[q] = loc[q]
<1>1. ASSUME NEW k \in Key, GetLoad(p, k) PROVE CountInv'
  <2>1. l.pc = "getDelete" /\ l.keys = {k} /\ l.n = loc[p].n /\ Others
    BY <1>1, AtStep DEF GetLoad, Local
  <2>2. loc[p].pc = "idle" /\ loc[p].n = 0  BY <1>1 DEF GetLoad, Idle
  <2>3. CountsOf(l) /\ AheadOf(l) = AheadOf(loc[p]) /\ LookOf(l, DOMAIN data)
    BY <1>1, <2>1, <2>2 DEF CountsOf, AheadOf, LookOf, Has, GetLoad
  <2>4. ~OwingOf(loc[p])  BY <2>2 DEF OwingOf
  <2> QED  BY <1>1, <2>1, <2>3, <2>4, LocalStep DEF GetLoad, MapUnchanged
<1>2. ASSUME NEW k \in Key, Delete(p, k) PROVE CountInv'
  <2>1. l.pc = "subtract" /\ l.n = 1 /\ Others
    BY <1>2, AtStep DEF Delete, Local
  <2>2. loc[p].pc = "idle" /\ loc[p].n = 0  BY <1>2 DEF Delete, Idle
  <2>3. CountsOf(l) /\ AheadOf(l) = AheadOf(loc[p]) + 1 /\ LookOf(l, DOMAIN data \ {k})
    BY <2>1, <2>2 DEF CountsOf, AheadOf, LookOf, Removing
  <2> QED  BY <1>2, <2>1, <2>3, RemoveStep DEF Delete
<1>3. CASE GetDelete(p)
  <2>1. PICK k \in loc[p].keys: MapDelete(p, k)  BY <1>3 DEF GetDelete
  <2>2. l.pc = "subtract" /\ l.n = 1 /\ Others
    BY <1>3, AtStep DEF GetDelete, Idle
  <2>3. /\ loc[p].pc = "getDelete" /\ loc[p].n = 0
        /\ k \in Key /\ (~raced => Has(k))
    BY <1>3, AtStep DEF GetDelete, CountsOf, Removing, LookOf, Has
  <2>4. CountsOf(l) /\ AheadOf(l) = AheadOf(loc[p]) + 1 /\ LookOf(l, DOMAIN data \ {k})
    BY <2>2, <2>3 DEF CountsOf, AheadOf, LookOf, Removing
  <2> QED  BY <1>3, <2>1, <2>2, <2>3, <2>4, RemoveStep DEF GetDelete
<1> QED  BY <1>1, <1>2, <1>3

\* The counter that Clear resets was what Clear itself has in hand, unless others
\* had entries in hand or the map was changed behind its Range.
LEMMA ClearStoreHand ==
    ASSUME CountInv, ~raced', NEW p \in Proc, ClearStore(p)
    PROVE  itemCount = AheadOf(loc[p])
<1>1. /\ ~raced /\ loc[p].pc = "clearStore"
      /\ \A q \in Proc \ {p}: Ahead(q) = 0
  BY DEF ClearStore
<1>2. DOMAIN data = {}  BY <1>1, AtStep DEF LookOf
<1>3. itemCount = Cardinality(InHand) /\ Cardinality(InHand) \in Nat
  BY <1>1, <1>2, CountedFacts, FS_EmptySet
<1>4. AheadOf(loc[p]) \in Nat /\ Ahead(p) = AheadOf(loc[p])
  BY AtStep, AheadType DEF Ahead, AheadOf
<1>5. InHand = {p} \X (1..AheadOf(loc[p]))
  BY <1>1, <1>4 DEF InHand
<1> QED  BY <1>3, <1>4, <1>5, HandOfOne

LEMMA ClearCount ==
    ASSUME CountInv, IInv', NEW p \in Worker, Clear(p) \/ ClearSteps(p)
    PROVE  CountInv'
<1> p \in Proc  BY DEF Proc
<1>0. TypeOK  BY DEF CountInv, IInv
<1> DEFINE l == loc'[p]
           Others == \A q \in Proc \ {p}: loc'[q] = loc[q]
<1>1. CASE Clear(p)
  <2>1. l.pc = "clearRange" /\ l.n = 0 /\ l.seen = <<>> /\ Others
    BY <1>1, AtStep DEF Clear, Goto, Local, Idle
  <2>2. loc[p].pc = "idle" /\ loc[p].n = 0  BY <1>1 DEF Clear, Idle
  <2>3. DOMAIN <<>> = {}  BY EmptyType
  <2>4. CountsOf(l) /\ AheadOf(l) = AheadOf(loc[p]) /\ LookOf(l, DOMAIN data)
    BY <2>1, <2>2, <2>3 DEF CountsOf, AheadOf, LookOf
  <2>5. ~OwingOf(loc[p])  BY <2>2 DEF OwingOf
  <2> QED  BY <1>1, <2>1, <2>4, <2>5, LocalStep DEF Clear, MapUnchanged
<1>2. CASE ClearVisit(p)
  <2>1. PICK k \in DOMAIN data \ DOMAIN loc[p].seen:
          /\ MapDelete(p, k)
          /\ loc' = [loc EXCEPT ![p].seen = With(loc[p].seen, k, data[k]),
                                ![p].n = loc[p].n + 1]
    BY <1>2 DEF ClearVisit
  <2> DEFINE seen == With(loc[p].seen, k, data[k])
  <2>2. DOMAIN seen = DOMAIN loc[p].seen \union {k}  BY DEF With
  <2> HIDE DEF seen
  <2>3. /\ loc[p].pc = "clearRange" /\ l.pc = "clearRange" /\ l.seen = seen
        /\ l.n = loc[p].n + 1 /\ Others
    BY <1>2, <2>1, AtStep DEF ClearVisit, Local, seen
  <2>4. k \in Key /\ Has(k)  BY <1>0, <2>1, VisitType DEF Has
  <2>5. CountsOf(l) /\ AheadOf(l) = AheadOf(loc[p]) + 1
    BY <2>3 DEF CountsOf, AheadOf, Removing
  <2>6. ~raced => LookOf(l, DOMAIN data \ {k})
    BY <2>2, <2>3, AtStep DEF LookOf
  <2>7. raced => raced'  BY <2>1 DEF MapDelete
  <2> QED  BY <1>2, <2>1, <2>3, <2>4, <2>5, <2>6, <2>7, RemoveStep DEF ClearVisit
<1>3. CASE ClearRanged(p)
  <2>1. /\ loc[p].pc = "clearRange" /\ l.pc = "clearStore" /\ l.n = loc[p].n /\ Others
        /\ DOMAIN data \subseteq DOMAIN loc[p].seen
    BY <1>3, AtStep DEF ClearRanged, Goto, Local
  <2>2. CountsOf(l) /\ AheadOf(l) = AheadOf(loc[p]) /\ ~OwingOf(loc[p])
    BY <2>1 DEF CountsOf, AheadOf, Removing, OwingOf
  <2>3. ~raced => LookOf(l, DOMAIN data)
    BY <2>1, AtStep DEF LookOf
  <2> QED  BY <1>3, <2>1, <2>2, <2>3, LocalStep DEF ClearRanged, MapUnchanged
<1>4. CASE ClearStore(p)
  <2>1. /\ l = Idle /\ Others /\ loc[p].pc = "clearStore"
        /\ itemCount' = 0 /\ data' = data /\ (raced => raced')
    BY <1>4, AtStep DEF ClearStore, Return
  <2>2. ~raced' => itemCount' = itemCount + 0 + AheadOf(l) - AheadOf(loc[p])
    BY <1>4, <2>1, AtStep, ClearStoreHand
  <2>3. KeysStep(p, 0) /\ ~OwingOf(loc[p])  BY <2>1 DEF KeysStep, OwingOf
  <2>4. LookOf(l, DOMAIN data') /\ CountsOf(l)  BY <2>1, AtStep
  <2> QED  BY <2>1, <2>2, <2>3, <2>4, StepCount
<1> QED  BY <1>1, <1>2, <1>3, <1>4 DEF ClearSteps

\* The cleanup goroutine.
LEMMA CleanCount ==
    ASSUME CountInv, IInv', Cleanup \/ CleanSteps
    PROVE  CountInv'
<1> DEFINE p == Cleaner
           l == loc'[p]
           Others == \A q \in Proc \ {p}: loc'[q] = loc[q]
<1> p \in Proc  BY DEF Proc
<1>0. TypeOK  BY DEF CountInv, IInv
<1>1. CASE Cleanup
  <2>1. l.pc = "cleanRange" /\ l.n = 0 /\ Others
    BY <1>1, AtStep DEF Cleanup, Goto, Local, Idle
  <2>2. loc[p].pc = "idle" /\ loc[p].n = 0  BY <1>1 DEF Cleanup, Idle
  <2>3. CountsOf(l) /\ AheadOf(l) = AheadOf(loc[p]) /\ LookOf(l, DOMAIN data)
    BY <2>1, <2>2 DEF CountsOf, AheadOf, LookOf
  <2>4. ~OwingOf(loc[p])  BY <2>2 DEF OwingOf
  <2> QED  BY <1>1, <2>1, <2>3, <2>4, LocalStep DEF Cleanup, MapUnchanged
<1>2. CASE CleanVisit
  <2>1. PICK k \in DOMAIN data \ DOMAIN loc[p].seen:
         loc' = [loc EXCEPT
            ![p].seen = With(loc[p].seen, k, data[k]),
            ![p].pc = IF Expired(data[k]) THEN "cleanDelete" ELSE @,
            ![p].keys = IF Expired(data[k]) THEN {k} ELSE {}]
    BY <1>2 DEF CleanVisit
  <2>2. /\ loc[p].pc = "cleanRange" /\ l.pc \in {"cleanRange", "cleanDelete"}
        /\ l.keys \subseteq {k} /\ l.n = loc[p].n /\ Others
    <3> DEFINE seen == With(loc[p].seen, k, data[k])
               pc == IF Expired(data[k]) THEN "cleanDelete" ELSE loc[p].pc
               keys == IF Expired(data[k]) THEN {k} ELSE {}
    <3>1. loc[p].pc = "cleanRange"  BY <1>2 DEF CleanVisit
    <3>2. pc \in {"cleanRange", "cleanDelete"} /\ keys \subseteq {k}  BY <3>1
    <3>3. loc' = [loc EXCEPT ![p].seen = seen, ![p].pc = pc, ![p].keys = keys]
      BY <2>1, AtStep DEF Local
    <3> HIDE DEF seen, pc, keys
    <3>4. l.pc = pc /\ l.keys = keys /\ l.n = loc[p].n /\ Others
      BY <3>3, AtStep DEF Local
    <3> QED  BY <3>1, <3>2, <3>4
  <2>3. CountsOf(l) /\ AheadOf(l) = AheadOf(loc[p]) /\ ~OwingOf(loc[p])
    BY <2>2 DEF CountsOf, AheadOf, Removing, OwingOf
  <2>4. LookOf(l, DOMAIN data)  BY <2>2 DEF LookOf
  <2> QED  BY <1>2, <2>2, <2>3, <2>4, LocalStep DEF CleanVisit, MapUnchanged
<1>3. CASE CleanDelete
  <2>1. PICK k \in loc[p].keys: MapDelete(p, k)  BY <1>3 DEF CleanDelete
  <2>2. /\ loc[p].pc = "cleanDelete" /\ l.pc = "cleanRange"
        /\ l.n = loc[p].n + 1 /\ Others
    BY <1>3, AtStep DEF CleanDelete, Local
  <2>3. k \in Key /\ (~raced => Has(k))  BY <2>2, AtStep DEF LookOf, Has
  <2>4. CountsOf(l) /\ AheadOf(l) = AheadOf(loc[p]) + 1 /\ LookOf(l, DOMAIN data \ {k})
    BY <2>2 DEF CountsOf, AheadOf, LookOf, Removing
  <2> QED  BY <1>3, <2>1, <2>2, <2>3, <2>4, RemoveStep DEF CleanDelete
<1>4. CASE CleanRanged
  <2>1. /\ loc[p].pc = "cleanRange" /\ Others /\ AheadOf(loc[p]) = loc[p].n
        /\ \/ l.pc = "subtract" /\ l.n = loc[p].n
           \/ l = Idle /\ loc[p].n = 0
    <3>1. loc[p].pc = "cleanRange" /\ loc[p].n \in Nat
      BY <1>4, AtStep DEF CleanRanged
    <3>2. Return(p) => Others /\ l = Idle  BY AtStep DEF Return
    <3>3. loc' = [loc EXCEPT ![p] = [Idle EXCEPT !.pc = "subtract", !.n = loc[p].n]]
             => Others /\ l.pc = "subtract" /\ l.n = loc[p].n
      BY AtStep DEF Idle
    <3> QED  BY <1>4, <3>1, <3>2, <3>3 DEF CleanRanged, AheadOf
  <2>2. /\ CountsOf(l) /\ AheadOf(l) = AheadOf(loc[p])
        /\ LookOf(l, DOMAIN data) /\ ~OwingOf(loc[p])
    BY <2>1, AtStep DEF CountsOf, AheadOf, LookOf, Removing, OwingOf
  <2> QED  BY <1>4, <2>1, <2>2, LocalStep DEF CleanRanged, MapUnchanged
<1>5. CASE Subtract(Cleaner)  BY <1>5, SubtractCount
<1> QED  BY <1>1, <1>2, <1>3, <1>4, <1>5 DEF CleanSteps

\* What remains leaves map, counter and goroutines alone but for the end of the
\* cleanup goroutine.
LEMMA RestCount ==
    ASSUME CountInv, IInv',
           StopCleaner \/ Close \/ CloseReturn \/ Tick \/ UNCHANGED vars
    PROVE  CountInv'
<1>1. CASE StopCleaner
  <2> DEFINE p == Cleaner
             l == loc'[p]
             Others == \A q \in Proc \ {p}: loc'[q] = loc[q]
  <2> p \in Proc  BY DEF Proc
  <2>1. l.pc = "exited" /\ l.n = loc[p].n /\ Others
    BY <1>1, AtStep DEF StopCleaner, Goto, Local
  <2>2. loc[p].pc = "idle" /\ loc[p].n = 0  BY <1>1 DEF StopCleaner, Idle
  <2>3. /\ CountsOf(l) /\ AheadOf(l) = AheadOf(loc[p]) /\ LookOf(l, DOMAIN data)
        /\ ~OwingOf(loc[p])
    BY <2>1, <2>2 DEF CountsOf, AheadOf, LookOf, OwingOf
  <2> QED  BY <1>1, <2>1, <2>3, LocalStep DEF StopCleaner
<1>2. CASE Close \/ CloseReturn \/ Tick \/ UNCHANGED vars
  <2>1. UNCHANGED <<data, itemCount, loc, raced>>
    BY <1>2 DEF Close, CloseReturn, Tick, vars
  <2>2. InHand' = InHand /\ Owing' = Owing
    BY <2>1 DEF InHand, Ahead, Owing, OwingOf
  <2>3. (~raced => Counted)'
    BY <2>1, <2>2 DEF CountInv, Counted, Drift, LookOf
  <2> QED  BY <2>1, <2>2, <2>3 DEF CountInv, CountsOf
<1> QED  BY <1>1, <1>2

LEMMA CountStep == CountInv /\ [Next]_vars => CountInv'
<1> SUFFICES ASSUME CountInv, [Next]_vars PROVE CountInv'  OBVIOUS
<1>1. IInv'  BY Inductive DEF CountInv
<1>2. ASSUME NEW p \in Worker, WorkerNext(p) PROVE CountInv'
  <2> p \in Proc  BY DEF Proc
  <2> QED  BY <1>1, <1>2, SetCount, OldestCount, GetDeleteCount, ClearCount,
           SubtractCount DEF WorkerNext
<1> QED  BY <1>1, <1>2, CleanCount, RestCount DEF Next

LEMMA CountInit == Init => CountInv
<1> SUFFICES ASSUME Init PROVE CountInv  OBVIOUS
<1>1. IInv  BY Initial
<1>2. \A p \in Proc: loc[p] = Idle  BY DEF Init
<1>3. Idle.pc = "idle" /\ Idle.n = 0  BY DEF Idle
<1>4. DOMAIN data = {} /\ itemCount = 0 /\ Cardinality(DOMAIN data) = 0
  BY EmptyType, FS_EmptySet DEF Init
<1>5. InHand = {}
  <2>1. \A p \in Proc: {p} \X (1..Ahead(p)) = {}  BY <1>2, <1>3 DEF Ahead
  <2> QED  BY <2>1 DEF InHand
<1>6. IsFiniteSet(InHand) /\ Cardinality(InHand) = 0  BY <1>5, FS_EmptySet
<1>7. \A p \in Proc: CountsOf(loc[p]) /\ LookOf(loc[p], DOMAIN data) /\ ~OwingOf(loc[p])
  BY <1>2, <1>3 DEF CountsOf, LookOf, OwingOf
<1>8. Drift = 0  BY <1>4, <1>6 DEF Drift
<1>9. Cardinality(DOMAIN data) <= MaxItems + Cardinality(Owing)
  <2>1. Owing = {}  BY <1>7 DEF Owing
  <2> QED  BY <1>4, <2>1, FS_EmptySet, CacheAssumption DEF CacheAssumption
<1> QED  BY <1>1, <1>6, <1>7, <1>8, <1>9 DEF CountInv, Counted

\* The counter is the number of entries, up to what goroutines have in hand, in
\* every interleaving of any number of goroutines in which none acts on a look at
\* the map that another has made stale.
THEOREM CounterExact == Spec => []CountExact
<1>1. CountInv => CountExact  BY DEF CountInv, Counted, CountExact
<1> QED  BY CountInit, CountStep, <1>1, PTL DEF Spec

\* In those interleavings the cache is back within its limit whenever no call is
\* under way.
THEOREM BoundKept == Spec => []BoundUnlessRaced
<1>1. CountInv => BoundUnlessRaced
  <2> SUFFICES ASSUME CountInv, ~raced, Quiet, MaxItems > 0
               PROVE  Cardinality(DOMAIN data) <= MaxItems
    BY DEF BoundUnlessRaced
  <2>1. Owing = {}  BY DEF Quiet, Owing, OwingOf
  <2>2. Cardinality(Owing) = 0  BY <2>1, FS_EmptySet
  <2> QED  BY <2>2, CountedFacts DEF CountInv, Counted
<1> QED  BY CountInit, CountStep, <1>1, PTL DEF Spec
=============================================================================
