------------------------------ MODULE TtlCache ------------------------------
(***************************************************************************)
(* The in-memory cache of the memos store (store/cache/cache.go): entries  *)
(* that expire in a sync.Map, and an atomic counter of them beside it.     *)
(* Each access to the map or to the counter is one step, so the goroutines *)
(* that serve requests and the cleanup goroutine interleave between them.  *)
(* A value does not matter to the cache, so an entry is its expiration;    *)
(* the store installs no eviction callback (store/store.go) and nothing    *)
(* but `item` is ever stored.  Range visits the keys in any order, and     *)
(* what it reads of a key is the key's entry when it is visited.           *)
(***************************************************************************)
EXTENDS Integers, FiniteSetsExt

CONSTANTS
    Key,
    Worker,     \* goroutines that call the cache
    Clearer,    \* those that also call Clear; in the store, none
    Cleaner,    \* the goroutine of cleanupLoop
    MaxItems,   \* config.MaxItems; 0 lifts the limit
    Ttl,        \* times to live that callers ask for
    MaxTime,    \* bound on the clock
    MaxDrift    \* bound: no Set, Get or Delete begins with the
                \* counter further off

ASSUME CacheAssumption ==
    /\ Clearer \subseteq Worker /\ Cleaner \notin Worker
    /\ IsFiniteSet(Key) /\ IsFiniteSet(Worker)
    /\ MaxItems \in Nat /\ Ttl \subseteq Nat /\ MaxTime \in Nat /\ MaxDrift \in Nat

VARIABLES
    data,       \* the sync.Map: expiration of each key that has an entry
    itemCount,
    now,
    loc,        \* program counter and locals of each goroutine
    stop,       \* stopChan is closed
    closed,     \* closedChan is closed
    closing,    \* the caller of Close: "no", "waiting" or "done"
    raced       \* history: a look at the map went stale before its use

vars == <<data, itemCount, now, loc, stop, closed, closing, raced>>

Proc == Worker \union {Cleaner}
Control == {"idle", "setDelete", "setAdd", "setStore", "setCheck",
            "oldestCheck", "oldestRange", "oldestDelete", "getDelete",
            "clearRange", "clearStore", "cleanRange", "cleanDelete",
            "subtract", "exited"}

Idle == [pc |-> "idle", keys |-> {}, seen |-> <<>>, n |-> 0]

\* keys: what the goroutine is about to write or delete, the candidates of an
\* eviction included.  seen: what its Range has visited, with the expiration
\* read.  n: entries it removed and has not taken off the counter.
Partial(D, R) == UNION {[S -> R]: S \in SUBSET D}
Expiration == {t + ttl: t \in 0..MaxTime, ttl \in Ttl}
Local == [pc: Control, keys: SUBSET Key, seen: Partial(Key, Expiration), n: Nat]

TypeOK ==
    /\ data \in Partial(Key, Expiration)
    /\ itemCount \in Int
    /\ now \in 0..MaxTime
    /\ loc \in [Proc -> Local]
    /\ stop \in BOOLEAN /\ closed \in BOOLEAN /\ raced \in BOOLEAN
    /\ closing \in {"no", "waiting", "done"}

Init ==
    /\ data = <<>> /\ itemCount = 0 /\ now = 0
    /\ loc = [p \in Proc |-> Idle]
    /\ stop = FALSE /\ closed = FALSE /\ closing = "no" /\ raced = FALSE

-----------------------------------------------------------------------------
(* The map, the counter and the clock                                      *)

Has(k) == k \in DOMAIN data
Expired(e) == now > e
Without(f, k) == [x \in DOMAIN f \ {k} |-> f[x]]
With(f, k, e) == [x \in DOMAIN f \union {k} |-> IF x = k THEN e ELSE f[x]]

\* Entries the counter is ahead by on account of p: removed and not yet taken
\* off, or counted and not yet stored.
Ahead(p) == IF loc[p].pc = "setStore" THEN 1 ELSE loc[p].n

\* The entries p has looked at and acts on later, trusting that look.
Trusted(p) ==
    CASE loc[p].pc \in {"clearRange", "clearStore"} -> Key
      [] OTHER -> loc[p].keys

\* p adds or removes k while another goroutine trusts its look at k.
Stale(p, k) == \E q \in Proc \ {p}: k \in Trusted(q)

\* One element for each entry the counter is ahead by.
InHand == UNION {{p} \X (1..Ahead(p)): p \in Proc}

Drift == itemCount - Cardinality(DOMAIN data) - Cardinality(InHand)
Small == Drift \in -MaxDrift..MaxDrift

Goto(p, pc) == loc' = [loc EXCEPT ![p].pc = pc]
Return(p) == loc' = [loc EXCEPT ![p] = Idle]

MapUnchanged == UNCHANGED <<data, raced>>
RestUnchanged == UNCHANGED <<now, stop, closed, closing>>

\* Delete(key) of the map, which may find nothing to delete.
MapDelete(p, k) ==
    /\ data' = Without(data, k)
    /\ raced' = (raced \/ (Has(k) /\ Stale(p, k)))

-----------------------------------------------------------------------------
(* SetWithTTL                                                              *)

\* Mutant: a key that has an entry is counted again.
SetAlwaysCounts(p, k) ==
    /\ loc[p] = Idle /\ Small
    /\ loc' = [loc EXCEPT ![p].pc = "setAdd", ![p].keys = {k}]
    /\ UNCHANGED itemCount /\ MapUnchanged /\ RestUnchanged

\* The look for an entry of this key.
SetLoad(p, k) ==
    /\ loc[p] = Idle /\ Small
    /\ loc' = [loc EXCEPT ![p].pc = IF Has(k) THEN "setDelete" ELSE "setAdd",
                          ![p].keys = {k}]
    /\ UNCHANGED itemCount /\ MapUnchanged /\ RestUnchanged

SetDelete(p) ==
    /\ loc[p].pc = "setDelete"
    /\ \E k \in loc[p].keys: MapDelete(p, k)
    /\ Goto(p, "setStore")
    /\ UNCHANGED itemCount /\ RestUnchanged

SetAdd(p) ==
    /\ loc[p].pc = "setAdd"
    /\ itemCount' = itemCount + 1
    /\ Goto(p, "setStore")
    /\ MapUnchanged /\ RestUnchanged

\* Mutant: entries outlive their time by one tick.
StoreLate(p) ==
    /\ loc[p].pc = "setStore"
    /\ \E k \in loc[p].keys, ttl \in Ttl:
         /\ data' = With(data, k, now + ttl + 1)
         /\ raced' = (raced \/ (~Has(k) /\ Stale(p, k)))
    /\ loc' = [loc EXCEPT ![p] = [Idle EXCEPT !.pc = "setCheck"]]
    /\ UNCHANGED itemCount /\ RestUnchanged

SetStore(p) ==
    /\ loc[p].pc = "setStore"
    /\ \E k \in loc[p].keys, ttl \in Ttl:
         /\ data' = With(data, k, now + ttl)
         /\ raced' = (raced \/ (~Has(k) /\ Stale(p, k)))
    /\ loc' = [loc EXCEPT ![p] = [Idle EXCEPT !.pc = "setCheck"]]
    /\ UNCHANGED itemCount /\ RestUnchanged

\* Mutant: the limit is off by one.
CheckOneMore(p) ==
    /\ loc[p].pc = "setCheck"
    /\ IF MaxItems > 0 /\ itemCount > MaxItems + 1
       THEN Goto(p, "oldestCheck") ELSE Return(p)
    /\ UNCHANGED itemCount /\ MapUnchanged /\ RestUnchanged

SetCheck(p) ==
    /\ loc[p].pc = "setCheck"
    /\ IF MaxItems > 0 /\ itemCount > MaxItems
       THEN Goto(p, "oldestCheck") ELSE Return(p)
    /\ UNCHANGED itemCount /\ MapUnchanged /\ RestUnchanged

-----------------------------------------------------------------------------
(* cleanupOldest                                                           *)

Threshold == Max({MaxItems \div 5, 1})

\* The candidate that expires last; among equals the code keeps the first one it
\* met, here any of them.
Newest(keys, seen) == {c \in keys: \A d \in keys: seen[d] <= seen[c]}

\* Mutant: whatever is met later replaces a candidate.
ReplaceAny(keys, seen, k, e) ==
    IF Cardinality(keys) < Threshold THEN {keys \union {k}}
    ELSE {(keys \ {c}) \union {k}: c \in Newest(keys, seen)}

\* The sets of candidates that may follow `keys` after a visit of k, expiring at e.
Candidates(keys, seen, k, e) ==
    IF Cardinality(keys) < Threshold THEN {keys \union {k}}
    ELSE {IF e < seen[c] THEN (keys \ {c}) \union {k} ELSE keys:
             c \in Newest(keys, seen)}

OldestCheck(p) ==
    /\ loc[p].pc = "oldestCheck"
    /\ IF itemCount > MaxItems THEN Goto(p, "oldestRange") ELSE Return(p)
    /\ UNCHANGED itemCount /\ MapUnchanged /\ RestUnchanged

OldestVisit(p) ==
    /\ loc[p].pc = "oldestRange"
    /\ \E k \in DOMAIN data \ DOMAIN loc[p].seen:
         \E keys \in Candidates(loc[p].keys, loc[p].seen, k, data[k]):
            loc' = [loc EXCEPT ![p].keys = keys,
                               ![p].seen = With(loc[p].seen, k, data[k])]
    /\ UNCHANGED itemCount /\ MapUnchanged /\ RestUnchanged

OldestRanged(p) ==
    /\ loc[p].pc = "oldestRange"
    /\ DOMAIN data \subseteq DOMAIN loc[p].seen
    /\ IF loc[p].keys = {} THEN Return(p) ELSE Goto(p, "oldestDelete")
    /\ UNCHANGED itemCount /\ MapUnchanged /\ RestUnchanged

OldestDelete(p) ==
    /\ loc[p].pc = "oldestDelete"
    /\ \E k \in loc[p].keys:
         /\ MapDelete(p, k)
         /\ loc' = [loc EXCEPT
              ![p] = [Idle EXCEPT
                        !.pc = IF loc[p].keys = {k} THEN "subtract"
                               ELSE "oldestDelete",
                        !.keys = loc[p].keys \ {k}, !.n = loc[p].n + 1]]
    /\ UNCHANGED itemCount /\ RestUnchanged

\* The call ends with what it removed taken off the counter.
Subtract(p) ==
    /\ loc[p].pc = "subtract"
    /\ itemCount' = itemCount - loc[p].n
    /\ Return(p)
    /\ MapUnchanged /\ RestUnchanged

-----------------------------------------------------------------------------
(* Get, Delete and Clear                                                   *)

\* Only an expired entry makes Get change anything.
GetLoad(p, k) ==
    /\ loc[p] = Idle /\ Small
    /\ Has(k) /\ Expired(data[k])
    /\ loc' = [loc EXCEPT ![p].pc = "getDelete", ![p].keys = {k}]
    /\ UNCHANGED itemCount /\ MapUnchanged /\ RestUnchanged

GetDelete(p) ==
    /\ loc[p].pc = "getDelete"
    /\ \E k \in loc[p].keys: MapDelete(p, k)
    /\ loc' = [loc EXCEPT ![p] = [Idle EXCEPT !.pc = "subtract", !.n = 1]]
    /\ UNCHANGED itemCount /\ RestUnchanged

\* LoadAndDelete is one step of the map.
Delete(p, k) ==
    /\ loc[p] = Idle /\ Small
    /\ Has(k)
    /\ MapDelete(p, k)
    /\ loc' = [loc EXCEPT ![p].pc = "subtract", ![p].n = 1]
    /\ UNCHANGED itemCount /\ RestUnchanged

Clear(p) ==
    /\ p \in Clearer
    /\ loc[p] = Idle
    /\ Goto(p, "clearRange")
    /\ UNCHANGED itemCount /\ MapUnchanged /\ RestUnchanged

\* Range deletes what it visits, whatever the entry has become since.
ClearVisit(p) ==
    /\ loc[p].pc = "clearRange"
    /\ \E k \in DOMAIN data \ DOMAIN loc[p].seen:
         /\ MapDelete(p, k)
         /\ loc' = [loc EXCEPT ![p].seen = With(loc[p].seen, k, data[k]),
                               ![p].n = loc[p].n + 1]
    /\ UNCHANGED itemCount /\ RestUnchanged

ClearRanged(p) ==
    /\ loc[p].pc = "clearRange"
    /\ DOMAIN data \subseteq DOMAIN loc[p].seen
    /\ Goto(p, "clearStore")
    /\ UNCHANGED itemCount /\ MapUnchanged /\ RestUnchanged

\* Store(0) also wipes out what others have counted and not stored, or removed
\* and not subtracted.
ClearStore(p) ==
    /\ loc[p].pc = "clearStore"
    /\ itemCount' = 0
    /\ raced' = (raced \/ \E q \in Proc \ {p}: Ahead(q) # 0)
    /\ Return(p)
    /\ UNCHANGED data /\ RestUnchanged

-----------------------------------------------------------------------------
(* cleanupLoop, cleanup and Close                                          *)

\* The ticker fires.
Cleanup ==
    /\ loc[Cleaner] = Idle
    /\ Goto(Cleaner, "cleanRange")
    /\ UNCHANGED itemCount /\ MapUnchanged /\ RestUnchanged

CleanVisit ==
    /\ loc[Cleaner].pc = "cleanRange"
    /\ \E k \in DOMAIN data \ DOMAIN loc[Cleaner].seen:
         loc' = [loc EXCEPT
            ![Cleaner].seen = With(loc[Cleaner].seen, k, data[k]),
            ![Cleaner].pc = IF Expired(data[k]) THEN "cleanDelete" ELSE @,
            ![Cleaner].keys = IF Expired(data[k]) THEN {k} ELSE {}]
    /\ UNCHANGED itemCount /\ MapUnchanged /\ RestUnchanged

CleanDelete ==
    /\ loc[Cleaner].pc = "cleanDelete"
    /\ \E k \in loc[Cleaner].keys: MapDelete(Cleaner, k)
    /\ loc' = [loc EXCEPT ![Cleaner].pc = "cleanRange", ![Cleaner].keys = {},
                          ![Cleaner].n = loc[Cleaner].n + 1]
    /\ UNCHANGED itemCount /\ RestUnchanged

CleanRanged ==
    /\ loc[Cleaner].pc = "cleanRange"
    /\ DOMAIN data \subseteq DOMAIN loc[Cleaner].seen
    /\ IF loc[Cleaner].n > 0
       THEN loc' = [loc EXCEPT ![Cleaner] =
                      [Idle EXCEPT !.pc = "subtract", !.n = loc[Cleaner].n]]
       ELSE Return(Cleaner)
    /\ UNCHANGED itemCount /\ MapUnchanged /\ RestUnchanged

\* Mutant: the loop ends without closing closedChan.
StopUnannounced ==
    /\ loc[Cleaner] = Idle /\ stop
    /\ Goto(Cleaner, "exited")
    /\ UNCHANGED <<data, itemCount, now, stop, closed, closing, raced>>

\* The loop sees stopChan closed; the deferred function closes closedChan.
StopCleaner ==
    /\ loc[Cleaner] = Idle /\ stop
    /\ Goto(Cleaner, "exited")
    /\ closed' = TRUE
    /\ UNCHANGED <<data, itemCount, now, stop, closing, raced>>

\* Shutdown calls Close once, and does not wait for requests that are still
\* served when its time is up; a call after that one would return at once.
Close ==
    /\ closing = "no"
    /\ stop' = TRUE /\ closing' = "waiting"
    /\ UNCHANGED <<data, itemCount, now, loc, closed, raced>>

CloseReturn ==
    /\ closing = "waiting" /\ closed
    /\ closing' = "done"
    /\ UNCHANGED <<data, itemCount, now, loc, stop, closed, raced>>

Tick ==
    /\ now < MaxTime
    /\ now' = now + 1
    /\ UNCHANGED <<data, itemCount, loc, stop, closed, closing, raced>>

-----------------------------------------------------------------------------
SetSteps(p) == SetDelete(p) \/ SetAdd(p) \/ SetStore(p) \/ SetCheck(p)
OldestSteps(p) == OldestCheck(p) \/ OldestVisit(p) \/ OldestRanged(p) \/ OldestDelete(p)
ClearSteps(p) == ClearVisit(p) \/ ClearRanged(p) \/ ClearStore(p)
CleanSteps == CleanVisit \/ CleanDelete \/ CleanRanged \/ Subtract(Cleaner)

WorkerNext(p) ==
    \/ \E k \in Key: SetLoad(p, k) \/ GetLoad(p, k) \/ Delete(p, k)
    \/ Clear(p)
    \/ SetSteps(p) \/ OldestSteps(p) \/ ClearSteps(p) \/ GetDelete(p) \/ Subtract(p)

Next ==
    \/ \E p \in Worker: WorkerNext(p)
    \/ Cleanup \/ CleanSteps \/ StopCleaner
    \/ Close \/ CloseReturn \/ Tick

\* The runtime schedules the cleanup goroutine, and its select chooses at random
\* between a tick and stopChan when both are ready.
Fairness == WF_vars(CleanSteps) /\ SF_vars(StopCleaner) /\ WF_vars(CloseReturn)

Spec == Init /\ [][Next]_vars /\ Fairness

-----------------------------------------------------------------------------
(* Properties                                                              *)

\* The counter is the number of entries, up to what goroutines have in hand,
\* as long as no goroutine changed an entry that another had looked at and was
\* about to change: the counter needs no lock when callers keep to keys of
\* their own, which is what TestCacheConcurrency relies on.
CountExact == ~raced => Drift = 0

\* When no call is under way the cache holds at most MaxItems entries, again unless
\* a goroutine acted on a stale look.
Quiet == \A p \in Proc: loc[p].pc \in {"idle", "exited"}
BoundUnlessRaced == ~raced /\ Quiet /\ MaxItems > 0 => Cardinality(DOMAIN data) <= MaxItems

\* cleanupOldest picks, of all entries its Range has read, those that expire
\* first, whatever other goroutines do to the map meanwhile.
OldestChosen ==
    \A p \in Worker: loc[p].pc = "oldestRange" =>
        \A c \in loc[p].keys, k \in DOMAIN loc[p].seen \ loc[p].keys:
            loc[p].seen[c] <= loc[p].seen[k]

\* Close waits for the cleanup goroutine, and the wait ends: shutdown does not hang
\* on a cleanup under way or on a ticker that keeps firing.
CloseReturns == closing = "waiting" ~> closing = "done"

\* "MaxItems is the maximum number of items allowed in the cache" (cache.go:49).
\* Two goroutines that find the same entry expired both take it off the counter;
\* from then on the cache keeps more than MaxItems entries.
MaxItemsAllowed == Quiet /\ MaxItems > 0 => Cardinality(DOMAIN data) <= MaxItems
=============================================================================
