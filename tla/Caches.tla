------------------------------- MODULE Caches -------------------------------
(***************************************************************************)
(* Challenge 15, solutions/challenge15_solution.go: the three caches that  *)
(* Challenge15_DistributedCacheSolution runs one after the other. Their    *)
(* variables are apart.                                                    *)
(***************************************************************************)
EXTENDS Integers, FiniteSets

CONSTANTS
    Requests,                    \* calls of cacheGet for the key
    LoadsMayFail,                \* whether loadFunc may return an error
    None,
    HotReaders,                  \* calls of cacheGet
    HotWriters,                  \* calls of cacheSet; a writer writes its own name
    threshold,                   \* accesses that make the key hot
    Readers,                     \* goroutines that call cacheGet over and over
    MaxWrites,                   \* bound: calls of cacheSet
    Nodes,                       \* subscribers
    Capacity                     \* of a subscriber's channel

\* The goroutines of the stampede and of the hot key are finitely many, None is none of
\* their values, and the key needs an access to turn hot.
ASSUME CacheAssumption ==
    /\ IsFiniteSet(Requests) /\ None \notin Requests
    /\ IsFiniteSet(HotReaders) /\ HotReaders \cap HotWriters = {} /\ None \notin HotWriters
    /\ threshold \in Nat \ {0}
    /\ MaxWrites \in Nat /\ Capacity \in Nat

VARIABLES
    fresh,                       \* cache.data holds an unexpired entry
    lk,                          \* cache.loadingKeys[key], or None
    loading,                     \* object -> loadingKey.loading
    waiters,                     \* object -> requests whose channels are in loadingKey.waiters
    requestPc,                   \* request -> where its cacheGet is
    obj,                         \* request -> the LoadingKey it works with
    mine,                        \* request -> the waiters it took over when it began to load
    stopped,                     \* the runtime has stopped the program
    global,                      \* globalCache's value, or None
    local,                       \* localReplica's value, or None
    count,                       \* hotKeys' counter
    hotPc,                       \* reader or writer -> where it is
    got,                         \* reader -> the value promotion has read
    store,                       \* dataStore's version, 0 before the first write
    cached,                      \* the cache entry's version, 0 if there is none
    expired,                     \* the entry's Expiry is past
    writing,                     \* versions whose cacheSet has still to notify, each with the nodes left
    queue,                       \* node -> notices in its channel
    readerPc,                    \* reader -> where its cacheGet is
    loaded,                      \* reader -> the version it read from the store
    told                         \* node -> notices taken from the channel, or dropped because it was full

(***************************************************************************)
(* solution1_CacheStampedePrevention of solutions/challenge15_solution.go: *)
(* concurrent cacheGet calls for one key, which mean to share one load.    *)
(*                                                                         *)
(* A LoadingKey object is named by the request that created it. The        *)
(* `delete' of the map entry is made without cache.mu, so it races with    *)
(* the lookup, and the Go runtime may stop the program ("concurrent map    *)
(* writes"): Fatal.                                                        *)
(***************************************************************************)

singleVars == <<fresh, lk, loading, waiters, requestPc, obj, mine, stopped>>

SingleTypeOK ==
    /\ fresh \in BOOLEAN
    /\ lk \in Requests \cup {None}
    /\ loading \in [Requests -> BOOLEAN]
    /\ waiters \in [Requests -> SUBSET Requests]
    /\ requestPc \in [Requests -> {"start", "miss", "keyed", "waiting", "loading", "loaded",
                            "stored", "notified", "served", "failed"}]
    /\ obj \in [Requests -> Requests \cup {None}]
    /\ mine \in [Requests -> SUBSET Requests]
    /\ stopped \in BOOLEAN

SingleInit ==
    /\ fresh = FALSE
    /\ lk = None
    /\ loading = [r \in Requests |-> FALSE]
    /\ waiters = [r \in Requests |-> {}]
    /\ requestPc = [r \in Requests |-> "start"]
    /\ obj = [r \in Requests |-> None]
    /\ mine = [r \in Requests |-> {}]
    /\ stopped = FALSE
-----------------------------------------------------------------------------
SingleGoto(r, from, to) ==
    /\ ~stopped
    /\ requestPc[r] = from
    /\ requestPc' = [requestPc EXCEPT ![r] = to]

\* The lookup under cache.mu.RLock.
Lookup(r) ==
    /\ SingleGoto(r, "start", IF fresh THEN "served" ELSE "miss")
    /\ UNCHANGED <<fresh, lk, loading, waiters, obj, mine, stopped>>

\* Under cache.mu: the key's LoadingKey is found or made.
GetLoadingKey(r) ==
    /\ SingleGoto(r, "miss", "keyed")
    /\ lk' = IF lk = None THEN r ELSE lk
    /\ obj' = [obj EXCEPT ![r] = lk']
    /\ UNCHANGED <<fresh, loading, waiters, mine, stopped>>

\* Under loadingKey.mu: somebody is loading, wait for them.
Wait(r) ==
    /\ SingleGoto(r, "keyed", "waiting")
    /\ loading[obj[r]]
    /\ waiters' = [waiters EXCEPT ![obj[r]] = @ \cup {r}]
    /\ UNCHANGED <<fresh, lk, loading, obj, mine, stopped>>

\* The waiters' list after the loader has taken them over.
Taken(r) == [waiters EXCEPT ![obj[r]] = {}]

\* Under loadingKey.mu: this request loads, for the waiters there are now.
StartLoad(r) ==
    /\ SingleGoto(r, "keyed", "loading")
    /\ ~loading[obj[r]]
    /\ loading' = [loading EXCEPT ![obj[r]] = TRUE]
    /\ mine' = [mine EXCEPT ![r] = waiters[obj[r]]]
    /\ waiters' = Taken(r)
    /\ UNCHANGED <<fresh, lk, obj, stopped>>

\* Faulty EndLoading: the error path forgets the flag.
EndLoadingOnSuccess(r) ==
    IF requestPc[r] = "loading" THEN loading ELSE [loading EXCEPT ![obj[r]] = FALSE]

\* Faulty EndLoading: the flag is cleared to no value.
EndLoadingNone(r) == [loading EXCEPT ![obj[r]] = None]

EndLoading(r) == [loading EXCEPT ![obj[r]] = FALSE]

\* loadFunc fails: the waiters taken over are dropped with the local variable.
LoadFails(r) ==
    /\ LoadsMayFail
    /\ SingleGoto(r, "loading", "failed")
    /\ loading' = EndLoading(r)
    /\ mine' = [mine EXCEPT ![r] = {}]
    /\ UNCHANGED <<fresh, lk, waiters, obj, stopped>>

LoadSucceeds(r) ==
    /\ SingleGoto(r, "loading", "loaded")
    /\ UNCHANGED <<fresh, lk, loading, waiters, obj, mine, stopped>>

\* The value goes into cache.data under cache.mu.
Store(r) ==
    /\ SingleGoto(r, "loaded", "stored")
    /\ fresh' = TRUE
    /\ UNCHANGED <<lk, loading, waiters, obj, mine, stopped>>

\* The waiters taken over get the value (their channels have room for it).
Notify(r) ==
    /\ ~stopped
    /\ requestPc[r] = "stored"
    /\ requestPc' = [q \in Requests |-> IF q = r THEN "notified"
                                 ELSE IF q \in mine[r] THEN "served" ELSE requestPc[q]]
    /\ mine' = [mine EXCEPT ![r] = {}]
    /\ UNCHANGED <<fresh, lk, loading, waiters, obj, stopped>>

\* Under loadingKey.mu, not cache.mu: whatever object the map holds is deleted.
Finish(r) ==
    /\ SingleGoto(r, "notified", "served")
    /\ loading' = EndLoading(r)
    /\ lk' = None
    /\ UNCHANGED <<fresh, waiters, obj, mine, stopped>>

\* The unguarded delete meets another access to the map.
Fatal(r, q) ==
    /\ ~stopped
    /\ r # q
    /\ requestPc[r] = "notified" /\ requestPc[q] \in {"miss", "notified"}
    /\ stopped' = TRUE
    /\ UNCHANGED <<fresh, lk, loading, waiters, requestPc, obj, mine>>

\* Environment: the entry's TTL is over.
SingleExpire ==
    /\ ~stopped
    /\ fresh
    /\ fresh' = FALSE
    /\ UNCHANGED <<lk, loading, waiters, requestPc, obj, mine, stopped>>

Step(r) ==
    \/ Lookup(r) \/ GetLoadingKey(r) \/ Wait(r) \/ StartLoad(r)
    \/ LoadFails(r) \/ LoadSucceeds(r) \/ Store(r) \/ Notify(r) \/ Finish(r)

SingleNext ==
    \/ \E r \in Requests : Step(r)
    \/ \E r, q \in Requests : Fatal(r, q)
    \/ SingleExpire

-----------------------------------------------------------------------------
\* r is between taking the loading flag and giving it back.
Loads(r) == requestPc[r] \in {"loading", "loaded", "stored", "notified"}

\* The flag of a LoadingKey is up exactly while one request loads with it: on no path,
\* the error path included, does it stay up, and two requests never load with the
\* same object.
FlagMeansOneLoader ==
    \A k \in Requests :
        LET users == {r \in Requests : Loads(r) /\ obj[r] = k} IN
        Cardinality(users) = (IF loading[k] THEN 1 ELSE 0)

\* A waiting request is known to exactly one of: the list of its LoadingKey, a loader
\* that took it over; unless a load failed, which drops the waiters it took over.
\* So nobody is sent a value twice (the channel is closed after the first).
WaiterKnownOnce ==
    \A q \in Requests :
        LET known == {k \in Requests : q \in waiters[k]} IN
        LET taken == {r \in Requests : q \in mine[r]} IN
        /\ Cardinality(known) + Cardinality(taken) <= 1
        /\ known # {} \/ taken # {} => requestPc[q] = "waiting"
        /\ requestPc[q] = "waiting" => \/ known = {obj[q]}
                                \/ taken # {}
                                \/ \E r \in Requests : requestPc[r] = "failed"

(***************************************************************************)
(* solution2_HotKeyHandling of solutions/challenge15_solution.go: a global *)
(* cache, access counting, and a local replica for a key that turns hot.   *)
(* One key; every sync.Map and atomic operation is a step of its own.      *)
(***************************************************************************)

hotVars == <<global, local, count, hotPc, got>>

Values == HotWriters \cup {None}

HotTypeOK ==
    /\ global \in Values
    /\ local \in Values
    /\ count \in 0 .. Cardinality(HotReaders)
    /\ hotPc \in [HotReaders \cup HotWriters ->
                {"start", "global", "count", "promote", "store", "check", "update", "done"}]
    /\ got \in [HotReaders -> Values]

HotInit ==
    /\ global = None
    /\ local = None
    /\ count = 0
    /\ hotPc = [p \in HotReaders \cup HotWriters |-> "start"]
    /\ got = [r \in HotReaders |-> None]

HotGoto(p, from, to) == hotPc[p] = from /\ hotPc' = [hotPc EXCEPT ![p] = to]
-----------------------------------------------------------------------------
\* cacheGet asks the replica first ...
GetLocal(r) ==
    /\ HotGoto(r, "start", IF local # None THEN "count" ELSE "global")
    /\ UNCHANGED <<global, local, count, got>>

\* ... then the global cache; a miss is not counted.
GetGlobal(r) ==
    /\ HotGoto(r, "global", IF global # None THEN "count" ELSE "done")
    /\ UNCHANGED <<global, local, count, got>>

\* Faulty TurnsHot: the access one past the threshold promotes.
TurnsHotLate(n) == n = threshold + 1

\* newCount == cache.threshold, exactly one access of all
TurnsHot(n) == n = threshold

\* atomic.AddInt64(counter, 1)
NewCount == count + 1

\* cacheIncrementAccess counts; one access promotes the key.
IncrementAccess(r) ==
    /\ HotGoto(r, "count", IF TurnsHot(NewCount) THEN "promote" ELSE "done")
    /\ count' = NewCount
    /\ UNCHANGED <<global, local, got>>

\* The promotion reads the global value ...
PromoteLoad(r) ==
    /\ HotGoto(r, "promote", "store")
    /\ got' = [got EXCEPT ![r] = global]
    /\ UNCHANGED <<global, local, count>>

\* ... and stores it in the replica.
PromoteStore(r) ==
    /\ HotGoto(r, "store", "done")
    /\ local' = got[r]
    /\ UNCHANGED <<global, count, got>>

\* cacheSet stores globally ...
SetGlobal(w) ==
    /\ HotGoto(w, "start", "check")
    /\ global' = w
    /\ UNCHANGED <<local, count, got>>

\* ... looks whether the key is hot ...
SetCheck(w) ==
    /\ HotGoto(w, "check", IF local # None THEN "update" ELSE "done")
    /\ UNCHANGED <<global, local, count, got>>

\* ... and if so stores in the replica too.
SetLocal(w) ==
    /\ HotGoto(w, "update", "done")
    /\ local' = w
    /\ UNCHANGED <<global, count, got>>

Read(r) ==
    GetLocal(r) \/ GetGlobal(r) \/ IncrementAccess(r) \/ PromoteLoad(r) \/ PromoteStore(r)

Write(w) == SetGlobal(w) \/ SetCheck(w) \/ SetLocal(w)

HotNext == (\E r \in HotReaders : Read(r)) \/ (\E w \in HotWriters : Write(w))

-----------------------------------------------------------------------------
\* Exactly one access promotes: at most one reader is ever promoting, the replica appears
\* only after the threshold was reached, and a key that has reached it is replicated or about
\* to be.
PromotedOnce ==
    /\ Cardinality({r \in HotReaders : hotPc[r] \in {"promote", "store"}}) <= 1
    /\ local # None => count >= threshold
    /\ count >= threshold =>
          local # None \/ \E r \in HotReaders : hotPc[r] \in {"promote", "store"}
    /\ \A r \in HotReaders : hotPc[r] \in {"promote", "store"} => local = None

TurnedHot == count >= threshold

\* A key that has its replica keeps it.
ReplicaKept == local # None => local' # None

(***************************************************************************)
(* solution3_ConsistencyGuarantee of solutions/challenge15_solution.go: a  *)
(* write-through cache over a data store, with invalidation notices to the *)
(* other nodes. One key; the value of a write is a version number, newest  *)
(* highest. Nothing ever reads an entry's Version. The listener that       *)
(* would delete entries on a notice is never called by the code.           *)
(***************************************************************************)

throughVars == <<store, cached, expired, writing, queue, readerPc, loaded, told>>

Versions == 0 .. MaxWrites

ThroughTypeOK ==
    /\ store \in Versions
    /\ cached \in Versions
    /\ expired \in BOOLEAN
    /\ writing \in [Versions -> SUBSET Nodes]
    /\ queue \in [Nodes -> 0 .. Capacity]
    /\ readerPc \in [Readers -> {"idle", "miss", "fill"}]
    /\ loaded \in [Readers -> Versions]
    /\ told \in [Nodes -> [taken : Versions, dropped : Versions]]

ThroughInit ==
    /\ store = 0
    /\ cached = 0
    /\ expired = FALSE
    /\ writing = [v \in Versions |-> {}]
    /\ queue = [n \in Nodes |-> 0]
    /\ readerPc = [r \in Readers |-> "idle"]
    /\ loaded = [r \in Readers |-> 0]
    /\ told = [n \in Nodes |-> [taken |-> 0, dropped |-> 0]]
-----------------------------------------------------------------------------
\* Faulty CachedBySet: cacheSet invalidates nothing and caches nothing.
CachedBySetOld == cached

CachedBySet == store + 1

\* cacheSet under cache.mu: store and cache together; then the subscribers are copied.
Set ==
    /\ store < MaxWrites
    /\ store' = store + 1
    /\ cached' = CachedBySet
    /\ expired' = FALSE
    /\ writing' = [writing EXCEPT ![store + 1] = Nodes]
    /\ UNCHANGED <<queue, readerPc, loaded, told>>

Room(n) == queue[n] < Capacity

\* One round of cacheSet's notification loop, for a node with room in its channel.
NotifySent(v, n) ==
    /\ n \in writing[v]
    /\ Room(n)
    /\ writing' = [writing EXCEPT ![v] = @ \ {n}]
    /\ queue' = [queue EXCEPT ![n] = @ + 1]
    /\ UNCHANGED <<store, cached, expired, readerPc, loaded, told>>

\* Faulty Drops: a dropped notice leaves no trace.
DropsUncounted(n) == told

Drops(n) == [told EXCEPT ![n].dropped = @ + 1]

\* The same when the channel is full: the send's default case drops the notice.
NotifyDropped(v, n) ==
    /\ n \in writing[v]
    /\ ~Room(n)
    /\ writing' = [writing EXCEPT ![v] = @ \ {n}]
    /\ told' = Drops(n)
    /\ UNCHANGED <<store, cached, expired, queue, readerPc, loaded>>

\* The other node takes a notice from its channel.
Receive(n) ==
    /\ queue[n] > 0
    /\ queue' = [queue EXCEPT ![n] = @ - 1]
    /\ told' = [told EXCEPT ![n].taken = @ + 1]
    /\ UNCHANGED <<store, cached, expired, writing, readerPc, loaded>>

\* cacheGet returns an unexpired entry.
GetHit(r) ==
    /\ readerPc[r] = "idle"
    /\ cached # 0 /\ ~expired
    /\ UNCHANGED throughVars

\* cacheGet finds no entry, or an expired one.
GetMiss(r) ==
    /\ readerPc[r] = "idle"
    /\ cached = 0 \/ expired
    /\ readerPc' = [readerPc EXCEPT ![r] = "miss"]
    /\ UNCHANGED <<store, cached, expired, writing, queue, loaded, told>>

\* It reads the store under cache.mu.RLock, which it gives back; nothing there: done.
GetLoad(r) ==
    /\ readerPc[r] = "miss"
    /\ loaded' = [loaded EXCEPT ![r] = store]
    /\ readerPc' = [readerPc EXCEPT ![r] = IF store = 0 THEN "idle" ELSE "fill"]
    /\ UNCHANGED <<store, cached, expired, writing, queue, told>>

\* It writes what it read into the cache under cache.mu, with a new expiry, whatever
\* the cache holds by now.
GetFill(r) ==
    /\ readerPc[r] = "fill"
    /\ cached' = loaded[r]
    /\ expired' = FALSE
    /\ readerPc' = [readerPc EXCEPT ![r] = "idle"]
    /\ UNCHANGED <<store, writing, queue, loaded, told>>

\* Every entry is given an Expiry, by cacheSet and by cacheGet's refill.
HasExpiry == cached # 0

\* Five seconds pass.
ThroughExpire ==
    /\ HasExpiry
    /\ ~expired
    /\ expired' = TRUE
    /\ UNCHANGED <<store, cached, writing, queue, readerPc, loaded, told>>

Get(r) == GetHit(r) \/ GetMiss(r) \/ GetLoad(r) \/ GetFill(r)

ThroughNext ==
    \/ Set
    \/ \E v \in Versions, n \in Nodes : NotifySent(v, n) \/ NotifyDropped(v, n)
    \/ \E n \in Nodes : Receive(n)
    \/ \E r \in Readers : Get(r)
    \/ ThroughExpire

-----------------------------------------------------------------------------
Stale == cached # 0 /\ ~expired /\ cached # store


\* The only step that makes the cache stale is a refill whose load was overtaken by a
\* write; a write itself, also one that meets an expired entry or refills under way,
\* leaves the cache fresh.
StaleByLateFill ==
    ~Stale /\ Stale' => \E r \in Readers : readerPc[r] = "fill" /\ loaded[r] # store

\* Every write is announced to every node once: taken, queued, or dropped because the
\* channel was full. Nothing is announced before it is written.
NoticesAccounted ==
    \A n \in Nodes :
        store = told[n].taken + told[n].dropped + queue[n]
                + Cardinality({v \in Versions : n \in writing[v]})

(***************************************************************************)
(* The three caches of Challenge15_DistributedCacheSolution.               *)
(***************************************************************************)

cacheVars == <<singleVars, hotVars, throughVars>>

CachesInit == SingleInit /\ HotInit /\ ThroughInit

CachesNext ==
    \/ SingleNext /\ UNCHANGED <<hotVars, throughVars>>
    \/ HotNext /\ UNCHANGED <<singleVars, throughVars>>
    \/ ThroughNext /\ UNCHANGED <<singleVars, hotVars>>

CachesSpec == CachesInit /\ [][CachesNext]_cacheVars
-----------------------------------------------------------------------------
\* challenge15: a LoadingKey has one loader on every path and a waiting request is known to
\* exactly one place that can answer it; exactly one access promotes a key that turns hot;
\* and no invalidation notice is lost without trace.
CachesRight ==
    /\ SingleTypeOK /\ FlagMeansOneLoader /\ WaiterKnownOnce
    /\ HotTypeOK /\ PromotedOnce
    /\ ThroughTypeOK /\ NoticesAccounted

\* Only a refill overtaken by a write makes the write-through cache stale, and a hot key
\* keeps its replica.
CacheSteps == [][StaleByLateFill /\ ReplicaKept]_cacheVars
=============================================================================
