---------------------------- MODULE CachesProofs -----------------------------
(***************************************************************************)
(* Theorems about the caches of challenge 15, for any number of requests,  *)
(* readers, writers, versions and nodes.                                   *)
(***************************************************************************)
EXTENDS Caches, FiniteSetTheorems, TLAPS

\* A set of at most one element.
LEMMA AtMostOne ==
    ASSUME NEW S, \A x, y \in S : x = y
    PROVE  IsFiniteSet(S) /\ Cardinality(S) \in 0 .. 1
<1>1. CASE S = {}
    BY <1>1, FS_EmptySet
<1>2. CASE S # {}
    <2>1. PICK x \in S : TRUE
        BY <1>2, Zenon
    <2>2. S = {x}
        BY <2>1, Zenon
    <2> QED
        BY <2>2, FS_Singleton
<1> QED
    BY <1>1, <1>2, Zenon
-----------------------------------------------------------------------------
(***************************************************************************)
(* The stampede.                                                           *)
(***************************************************************************)

HasObject(r) ==
    requestPc[r] \in {"keyed", "waiting", "loading", "loaded", "stored", "notified", "failed"}

\* Where requests are, and what they work with.
ObjectsKnown == \A r \in Requests : HasObject(r) => obj[r] \in Requests

\* The flag of an object is up exactly if somebody loads with it, and only one does.
FlagInv ==
    /\ \A r, q \in Requests : Loads(r) /\ Loads(q) /\ obj[r] = obj[q] => r = q
    /\ \A r \in Requests : Loads(r) => loading[obj[r]]
    /\ \A k \in Requests : loading[k] => \E r \in Requests : Loads(r) /\ obj[r] = k

\* What the two places that know a waiting request say of it.
WaitersInv ==
    /\ \A k, q \in Requests : q \in waiters[k] => requestPc[q] = "waiting" /\ obj[q] = k
    /\ \A r, q \in Requests :
          q \in mine[r] => /\ requestPc[q] = "waiting"
                           /\ requestPc[r] \in {"loading", "loaded", "stored"}
                           /\ \A k \in Requests : q \notin waiters[k]
    /\ \A r, s, q \in Requests : q \in mine[r] /\ q \in mine[s] => r = s
    /\ \A q \in Requests :
          requestPc[q] = "waiting" => \/ q \in waiters[obj[q]]
                                      \/ \E r \in Requests : q \in mine[r]
                                      \/ \E r \in Requests : requestPc[r] = "failed"

SingleInv == SingleTypeOK /\ ObjectsKnown /\ FlagInv /\ WaitersInv

LEMMA SingleInitially == SingleInit => SingleInv
<1> SUFFICES ASSUME SingleInit PROVE SingleInv
  BY Zenon
<1>1. SingleTypeOK
  BY Zenon DEF SingleInit, SingleTypeOK
<1>2. ObjectsKnown /\ FlagInv /\ WaitersInv
  BY Zenon DEF SingleInit, ObjectsKnown, HasObject, FlagInv, WaitersInv, Loads
<1> QED
  BY <1>1, <1>2, Zenon DEF SingleInv

\* What one request's cacheGet does keeps the invariant.
LEMMA RequestStep ==
    ASSUME SingleInv, NEW r \in Requests, Step(r)
    PROVE  SingleInv'
<1> USE DEF SingleInv
<1>0. SingleTypeOK'
  <2> USE DEF SingleTypeOK
  <2>1. CASE Lookup(r)          BY <2>1, Zenon DEF Lookup, SingleGoto
  <2>2. CASE GetLoadingKey(r)   BY <2>2, Zenon DEF GetLoadingKey, SingleGoto
  <2>3. CASE Wait(r)            BY <2>3, Zenon DEF Wait, SingleGoto
  <2>4. CASE StartLoad(r)
    <3>1. obj[r] \in Requests
      BY <2>4, Zenon DEF StartLoad, SingleGoto, ObjectsKnown, HasObject
    <3> QED
      BY <2>4, <3>1, Zenon DEF StartLoad, SingleGoto, Taken
  <2>5. CASE LoadFails(r)       BY <2>5, Zenon DEF LoadFails, SingleGoto, EndLoading
  <2>6. CASE LoadSucceeds(r)    BY <2>6, Zenon DEF LoadSucceeds, SingleGoto
  <2>7. CASE Store(r)           BY <2>7, Zenon DEF Store, SingleGoto
  <2>8. CASE Notify(r)          BY <2>8, Zenon DEF Notify
  <2>9. CASE Finish(r)          BY <2>9, Zenon DEF Finish, SingleGoto, EndLoading
  <2> QED
    BY <2>1, <2>2, <2>3, <2>4, <2>5, <2>6, <2>7, <2>8, <2>9, Zenon DEF Step
<1>1. ObjectsKnown'
  <2> USE DEF SingleTypeOK, ObjectsKnown, HasObject
  <2>1. CASE Lookup(r)          BY <2>1, Zenon DEF Lookup, SingleGoto
  <2>2. CASE GetLoadingKey(r)   BY <2>2, Zenon DEF GetLoadingKey, SingleGoto
  <2>3. CASE Wait(r)            BY <2>3, Zenon DEF Wait, SingleGoto
  <2>4. CASE StartLoad(r)       BY <2>4, Zenon DEF StartLoad, SingleGoto
  <2>5. CASE LoadFails(r)       BY <2>5, Zenon DEF LoadFails, SingleGoto
  <2>6. CASE LoadSucceeds(r)    BY <2>6, Zenon DEF LoadSucceeds, SingleGoto
  <2>7. CASE Store(r)           BY <2>7, Zenon DEF Store, SingleGoto
  <2>8. CASE Notify(r)          BY <2>8, Zenon DEF Notify, WaitersInv
  <2>9. CASE Finish(r)          BY <2>9, Zenon DEF Finish, SingleGoto
  <2> QED
    BY <2>1, <2>2, <2>3, <2>4, <2>5, <2>6, <2>7, <2>8, <2>9, Zenon DEF Step
<1>2. FlagInv'
  <2> USE DEF SingleTypeOK, ObjectsKnown, HasObject, FlagInv, Loads
  <2>1. CASE Lookup(r)          BY <2>1 DEF Lookup, SingleGoto
  <2>2. CASE GetLoadingKey(r)   BY <2>2 DEF GetLoadingKey, SingleGoto
  <2>3. CASE Wait(r)            BY <2>3 DEF Wait, SingleGoto
  <2>4. CASE StartLoad(r)       BY <2>4 DEF StartLoad, SingleGoto
  <2>5. CASE LoadFails(r)       BY <2>5 DEF LoadFails, SingleGoto, EndLoading
  <2>6. CASE LoadSucceeds(r)    BY <2>6 DEF LoadSucceeds, SingleGoto
  <2>7. CASE Store(r)           BY <2>7 DEF Store, SingleGoto
  <2>8. CASE Notify(r)          BY <2>8 DEF Notify, WaitersInv
  <2>9. CASE Finish(r)          BY <2>9 DEF Finish, SingleGoto, EndLoading
  <2> QED
    BY <2>1, <2>2, <2>3, <2>4, <2>5, <2>6, <2>7, <2>8, <2>9, Zenon DEF Step
<1>3. WaitersInv'
  <2> USE DEF SingleTypeOK, ObjectsKnown, HasObject, WaitersInv
  <2>1. CASE Lookup(r)          BY <2>1 DEF Lookup, SingleGoto
  <2>2. CASE GetLoadingKey(r)   BY <2>2 DEF GetLoadingKey, SingleGoto
  <2>3. CASE Wait(r)            BY <2>3 DEF Wait, SingleGoto
  <2>4. CASE StartLoad(r)       BY <2>4 DEF StartLoad, SingleGoto, Taken
  <2>5. CASE LoadFails(r)       BY <2>5 DEF LoadFails, SingleGoto
  <2>6. CASE LoadSucceeds(r)    BY <2>6 DEF LoadSucceeds, SingleGoto
  <2>7. CASE Store(r)           BY <2>7 DEF Store, SingleGoto
  <2>8. CASE Notify(r)          BY <2>8 DEF Notify
  <2>9. CASE Finish(r)          BY <2>9 DEF Finish, SingleGoto
  <2> QED
    BY <2>1, <2>2, <2>3, <2>4, <2>5, <2>6, <2>7, <2>8, <2>9, Zenon DEF Step
<1> QED
  BY <1>0, <1>1, <1>2, <1>3, Zenon

\* So do the entry's expiry and the runtime's stop, which move no request.
LEMMA SingleStep == SingleInv /\ [SingleNext]_singleVars => SingleInv'
<1> SUFFICES ASSUME SingleInv, [SingleNext]_singleVars PROVE SingleInv'
  BY Zenon
<1>1. ASSUME NEW r \in Requests, Step(r) PROVE SingleInv'
  BY <1>1, RequestStep, Zenon
<1>2. CASE \/ \E r, q \in Requests : Fatal(r, q)
           \/ SingleExpire \/ UNCHANGED singleVars
  <2>1. /\ UNCHANGED <<lk, loading, waiters, requestPc, obj, mine>>
        /\ fresh' \in BOOLEAN /\ stopped' \in BOOLEAN
    BY <1>2, Zenon DEF Fatal, SingleExpire, singleVars, SingleInv, SingleTypeOK
  <2>2. SingleTypeOK'
    BY <2>1, Zenon DEF SingleInv, SingleTypeOK
  <2>3. ObjectsKnown' /\ FlagInv' /\ WaitersInv'
    BY <2>1 DEF SingleInv, ObjectsKnown, HasObject, FlagInv, WaitersInv, Loads
  <2> QED
    BY <2>2, <2>3, Zenon DEF SingleInv
<1> QED
  BY <1>1, <1>2, Zenon DEF SingleNext

\* The invariant says what the run checks of the stampede.
LEMMA SingleRight == SingleInv => SingleTypeOK /\ FlagMeansOneLoader /\ WaiterKnownOnce
<1> SUFFICES ASSUME SingleInv PROVE FlagMeansOneLoader /\ WaiterKnownOnce
  BY Zenon DEF SingleInv
<1>1. FlagMeansOneLoader
  <2> SUFFICES ASSUME NEW k \in Requests
               PROVE  Cardinality({r \in Requests : Loads(r) /\ obj[r] = k})
                        = (IF loading[k] THEN 1 ELSE 0)
    BY Zenon DEF FlagMeansOneLoader
  <2> DEFINE users == {r \in Requests : Loads(r) /\ obj[r] = k}
  <2>1. CASE loading[k]
    <3>1. PICK r \in Requests : Loads(r) /\ obj[r] = k
      BY <2>1, Zenon DEF SingleInv, FlagInv
    <3>2. users = {r}
      BY <3>1 DEF SingleInv, FlagInv
    <3> QED
      BY <2>1, <3>2, FS_Singleton, Zenon
  <2>2. CASE ~loading[k]
    <3>1. users = {}
      BY <2>2 DEF SingleInv, FlagInv
    <3> QED
      BY <2>2, <3>1, FS_EmptySet, Zenon
  <2> QED
    BY <2>1, <2>2, Zenon
<1>2. WaiterKnownOnce
  <2> SUFFICES ASSUME NEW q \in Requests
               PROVE  LET known == {k \in Requests : q \in waiters[k]}
                          taken == {r \in Requests : q \in mine[r]}
                      IN  /\ Cardinality(known) + Cardinality(taken) <= 1
                          /\ known # {} \/ taken # {} => requestPc[q] = "waiting"
                          /\ requestPc[q] = "waiting" =>
                                \/ known = {obj[q]}
                                \/ taken # {}
                                \/ \E r \in Requests : requestPc[r] = "failed"
    BY Zenon DEF WaiterKnownOnce
  <2> DEFINE known == {k \in Requests : q \in waiters[k]}
             taken == {r \in Requests : q \in mine[r]}
  <2>1. /\ \A k, l \in known : k = l
        /\ \A r, s \in taken : r = s
        /\ known = {} \/ taken = {}
    BY DEF SingleInv, WaitersInv
  <2>2. Cardinality(known) + Cardinality(taken) <= 1
    <3>1. Cardinality(known) \in 0 .. 1 /\ Cardinality(taken) \in 0 .. 1
      BY <2>1, AtMostOne, Zenon
    <3>2. Cardinality(known) = 0 \/ Cardinality(taken) = 0
      BY <2>1, FS_EmptySet, Zenon
    <3> QED
      BY <3>1, <3>2
  <2>3. known # {} \/ taken # {} => requestPc[q] = "waiting"
    BY DEF SingleInv, WaitersInv
  <2>4. requestPc[q] = "waiting" =>
            known = {obj[q]} \/ taken # {} \/ \E r \in Requests : requestPc[r] = "failed"
    BY DEF SingleInv, WaitersInv, ObjectsKnown, HasObject
  <2> QED
    BY <2>2, <2>3, <2>4, Zenon
<1> QED
  BY <1>1, <1>2, Zenon
-----------------------------------------------------------------------------
(***************************************************************************)
(* The hot key.                                                            *)
(***************************************************************************)

\* Readers that are past the counter; a miss is past it without having counted.
Past == {r \in HotReaders : hotPc[r] \in {"promote", "store", "done"}}

Promoting(r) == hotPc[r] \in {"promote", "store"}

\* The variables' types; the count is bounded by CountInv.
PlacesInv ==
    /\ global \in Values /\ local \in Values
    /\ count \in Nat
    /\ hotPc \in [HotReaders \cup HotWriters ->
                    {"start", "global", "count", "promote", "store", "check", "update", "done"}]
    /\ \A w \in HotWriters : hotPc[w] \in {"start", "check", "update", "done"}
    /\ got \in [HotReaders -> Values]

\* Every access counted is of a reader of its own.
CountInv == count <= Cardinality(Past)

\* The promoting reader is alone, nothing is replicated before it is done, and the value it
\* takes to the replica is there: a reader counts only a hit, and nothing deletes the key.
PromotionInv ==
    /\ \A r, q \in HotReaders : Promoting(r) /\ Promoting(q) => r = q
    /\ \A r \in HotReaders : Promoting(r) => local = None /\ TurnedHot
    /\ TurnedHot => local # None \/ \E r \in HotReaders : Promoting(r)
    /\ local # None => TurnedHot /\ global # None
    /\ \A r \in HotReaders : hotPc[r] \in {"count", "promote", "store"} => global # None
    /\ \A r \in HotReaders : hotPc[r] = "store" => got[r] # None
    /\ \A w \in HotWriters : hotPc[w] = "update" => local # None

HotInv == PlacesInv /\ CountInv /\ PromotionInv

LEMMA HotInitially == HotInit => HotInv
<1> SUFFICES ASSUME HotInit PROVE HotInv
  BY Zenon
<1> USE CacheAssumption
<1>1. PlacesInv
  BY Zenon DEF HotInit, PlacesInv, Values
<1>2. Cardinality(Past) \in Nat
  BY FS_Subset, FS_CardinalityType, Zenon DEF Past
<1>3. CountInv
  BY <1>2 DEF HotInit, CountInv
<1>4. PromotionInv
  BY DEF HotInit, PromotionInv, Promoting, TurnedHot
<1> QED
  BY <1>1, <1>3, <1>4, Zenon DEF HotInv

\* A reader that gets past the counter is one more that has; the others stay there.
LEMMA PastGrows ==
    ASSUME PlacesInv, NEW p \in HotReaders \cup HotWriters, NEW to,
           hotPc' = [hotPc EXCEPT ![p] = to],
           p \in HotReaders => p \notin Past \/ to \in {"promote", "store", "done"}
    PROVE  /\ Cardinality(Past) \in Nat /\ Cardinality(Past') \in Nat
           /\ Cardinality(Past) <= Cardinality(Past')
           /\ p \in HotReaders /\ p \notin Past /\ to \in {"promote", "store", "done"} =>
                 Cardinality(Past') = Cardinality(Past) + 1
<1> USE CacheAssumption DEF PlacesInv
<1>1. IsFiniteSet(Past) /\ IsFiniteSet(Past')
  BY FS_Subset, Zenon DEF Past
<1>2. Past \subseteq Past'
  BY Zenon DEF Past
<1>3. p \in HotReaders /\ p \notin Past /\ to \in {"promote", "store", "done"} =>
          Past' = Past \cup {p}
  BY Zenon DEF Past
<1> QED
  BY <1>1, <1>2, <1>3, FS_Subset, FS_AddElement, FS_CardinalityType, Zenon

LEMMA HotStep == HotInv /\ [HotNext]_hotVars => HotInv'
<1> SUFFICES ASSUME HotInv, [HotNext]_hotVars PROVE HotInv'
  BY Zenon
<1> USE CacheAssumption DEF HotInv
<1>1. PlacesInv'
  <2> USE DEF PlacesInv, Values
  <2>1. ASSUME NEW r \in HotReaders, GetLocal(r) \/ GetGlobal(r) PROVE PlacesInv'
    BY <2>1, Zenon DEF GetLocal, GetGlobal, HotGoto
  <2>2. ASSUME NEW r \in HotReaders, IncrementAccess(r) PROVE PlacesInv'
    BY <2>2 DEF IncrementAccess, NewCount, HotGoto
  <2>3. ASSUME NEW r \in HotReaders, PromoteLoad(r) \/ PromoteStore(r) PROVE PlacesInv'
    BY <2>3 DEF PromoteLoad, PromoteStore, HotGoto
  <2>4. ASSUME NEW w \in HotWriters, Write(w) PROVE PlacesInv'
    BY <2>4, Zenon DEF Write, SetGlobal, SetCheck, SetLocal, HotGoto
  <2>5. CASE UNCHANGED hotVars
    BY <2>5, Zenon DEF hotVars
  <2> QED
    BY <2>1, <2>2, <2>3, <2>4, <2>5, Zenon DEF HotNext, Read
<1>2. CountInv'
  <2> USE DEF CountInv
  <2>1. ASSUME NEW r \in HotReaders, Read(r), ~IncrementAccess(r) PROVE CountInv'
    <3>1. count' = count
      BY <2>1, Zenon DEF Read, GetLocal, GetGlobal, PromoteLoad, PromoteStore
    <3>2. PICK to : /\ hotPc' = [hotPc EXCEPT ![r] = to]
                    /\ r \notin Past \/ to \in {"promote", "store", "done"}
      BY <2>1, Zenon DEF Read, GetLocal, GetGlobal, PromoteLoad, PromoteStore, HotGoto, Past
    <3>3. Cardinality(Past) \in Nat /\ Cardinality(Past') \in Nat
          /\ Cardinality(Past) <= Cardinality(Past')
      BY <3>2, PastGrows, Zenon
    <3> QED
      BY <3>1, <3>3 DEF PlacesInv
  <2>2. ASSUME NEW r \in HotReaders, IncrementAccess(r) PROVE CountInv'
    <3>1. count' = count + 1 /\ r \notin Past
      BY <2>2, Zenon DEF IncrementAccess, NewCount, HotGoto, Past
    <3>2. PICK to \in {"promote", "store", "done"} : hotPc' = [hotPc EXCEPT ![r] = to]
      BY <2>2, Zenon DEF IncrementAccess, HotGoto
    <3>3. Cardinality(Past) \in Nat /\ Cardinality(Past') = Cardinality(Past) + 1
      BY <3>1, <3>2, PastGrows, Zenon
    <3> QED
      BY <3>1, <3>3 DEF PlacesInv
  <2>3. ASSUME NEW w \in HotWriters, Write(w) PROVE CountInv'
    <3>1. count' = count
      BY <2>3, Zenon DEF Write, SetGlobal, SetCheck, SetLocal
    <3>2. PICK to : hotPc' = [hotPc EXCEPT ![w] = to]
      BY <2>3, Zenon DEF Write, SetGlobal, SetCheck, SetLocal, HotGoto
    <3>3. Cardinality(Past) \in Nat /\ Cardinality(Past') \in Nat
          /\ Cardinality(Past) <= Cardinality(Past')
      BY <3>2, PastGrows, Zenon
    <3> QED
      BY <3>1, <3>3 DEF PlacesInv
  <2>4. CASE UNCHANGED hotVars
    BY <2>4, Zenon DEF hotVars, Past
  <2> QED
    BY <2>1, <2>2, <2>3, <2>4, Zenon DEF HotNext
<1>3. PromotionInv'
  <2> USE DEF PlacesInv, PromotionInv, Promoting, TurnedHot
  <2>1. ASSUME NEW r \in HotReaders, GetLocal(r) \/ GetGlobal(r) PROVE PromotionInv'
    BY <2>1 DEF GetLocal, GetGlobal, HotGoto
  <2>2. ASSUME NEW r \in HotReaders, IncrementAccess(r) PROVE PromotionInv'
    BY <2>2 DEF IncrementAccess, NewCount, TurnsHot, HotGoto
  <2>3. ASSUME NEW r \in HotReaders, PromoteLoad(r) PROVE PromotionInv'
    BY <2>3, Zenon DEF PromoteLoad, HotGoto
  <2>4. ASSUME NEW r \in HotReaders, PromoteStore(r) PROVE PromotionInv'
    BY <2>4, Zenon DEF PromoteStore, HotGoto
  <2>5. ASSUME NEW w \in HotWriters, SetGlobal(w) PROVE PromotionInv'
    BY <2>5, Zenon DEF SetGlobal, HotGoto
  <2>6. ASSUME NEW w \in HotWriters, SetCheck(w) PROVE PromotionInv'
    BY <2>6, Zenon DEF SetCheck, HotGoto
  <2>7. ASSUME NEW w \in HotWriters, SetLocal(w) PROVE PromotionInv'
    BY <2>7, Zenon DEF SetLocal, HotGoto
  <2>8. CASE UNCHANGED hotVars
    BY <2>8, Zenon DEF hotVars
  <2> QED
    BY <2>1, <2>2, <2>3, <2>4, <2>5, <2>6, <2>7, <2>8, Zenon DEF HotNext, Read, Write
<1> QED
  BY <1>1, <1>2, <1>3, Zenon

\* What a promotion or a cacheSet stores in the replica is a value.
LEMMA ReplicaStep == HotInv /\ [HotNext]_hotVars => ReplicaKept
<1> SUFFICES ASSUME HotInv, [HotNext]_hotVars PROVE ReplicaKept
  BY Zenon
<1> USE CacheAssumption DEF HotInv, PromotionInv, ReplicaKept
<1>1. ASSUME NEW r \in HotReaders, Read(r) PROVE ReplicaKept
  BY <1>1, Zenon DEF Read, GetLocal, GetGlobal, IncrementAccess, PromoteLoad, PromoteStore, HotGoto
<1>2. ASSUME NEW w \in HotWriters, Write(w) PROVE ReplicaKept
  BY <1>2, Zenon DEF Write, SetGlobal, SetCheck, SetLocal
<1>3. CASE UNCHANGED hotVars
  BY <1>3, Zenon DEF hotVars
<1> QED
  BY <1>1, <1>2, <1>3, Zenon DEF HotNext

\* The invariant says what the run checks of the hot key.
LEMMA HotRight == HotInv => HotTypeOK /\ PromotedOnce
<1> SUFFICES ASSUME HotInv PROVE HotTypeOK /\ PromotedOnce
  BY Zenon
<1> USE CacheAssumption DEF HotInv
<1>1. Cardinality(Past) \in Nat /\ Cardinality(HotReaders) \in Nat
      /\ Cardinality(Past) <= Cardinality(HotReaders)
  BY FS_Subset, FS_CardinalityType, Zenon DEF Past
<1>2. HotTypeOK
  BY <1>1 DEF HotTypeOK, PlacesInv, CountInv
<1>3. Cardinality({r \in HotReaders : hotPc[r] \in {"promote", "store"}}) \in 0 .. 1
  BY AtMostOne, Zenon DEF PromotionInv, Promoting
<1>4. PromotedOnce
  BY <1>3 DEF PromotedOnce, PromotionInv, Promoting, TurnedHot
<1> QED
  BY <1>2, <1>4, Zenon
-----------------------------------------------------------------------------
(***************************************************************************)
(* The write-through cache.                                                *)
(***************************************************************************)

\* Writes whose cacheSet has not come to node n yet.
Announcing(n) == {v \in Versions : n \in writing[v]}

\* The variables' types; the notices told are bounded by NoticesAccounted.
ThroughTypes ==
    /\ store \in Versions
    /\ cached \in Versions
    /\ expired \in BOOLEAN
    /\ writing \in [Versions -> SUBSET Nodes]
    /\ queue \in [Nodes -> 0 .. Capacity]
    /\ readerPc \in [Readers -> {"idle", "miss", "fill"}]
    /\ loaded \in [Readers -> Versions]

ToldType == told \in [Nodes -> [taken : Nat, dropped : Nat]]

\* Only what is written is announced.
OnlyWritten == \A n \in Nodes : Announcing(n) \subseteq 1 .. store

NoticesInv ==
    \A n \in Nodes :
        store = told[n].taken + told[n].dropped + queue[n] + Cardinality(Announcing(n))

ThroughInv == ThroughTypes /\ ToldType /\ OnlyWritten /\ NoticesInv

\* Announcements under way are finitely many, also after a step.
LEMMA AnnouncingFinite ==
    ASSUME NEW n \in Nodes
    PROVE  /\ IsFiniteSet(Announcing(n)) /\ IsFiniteSet(Announcing(n)')
           /\ Cardinality(Announcing(n)) \in Nat /\ Cardinality(Announcing(n)') \in Nat
<1>1. IsFiniteSet(Versions)
  BY CacheAssumption, FS_Interval DEF Versions
<1>2. Announcing(n) \subseteq Versions /\ Announcing(n)' \subseteq Versions
  BY Zenon DEF Announcing
<1>3. IsFiniteSet(Announcing(n)) /\ IsFiniteSet(Announcing(n)')
  BY <1>1, <1>2, FS_Subset, Zenon
<1> QED
  BY <1>3, FS_CardinalityType, Zenon

LEMMA ThroughInitially == ThroughInit => ThroughInv
<1> SUFFICES ASSUME ThroughInit PROVE ThroughInv
  BY Zenon
<1> USE CacheAssumption DEF ThroughInit
<1>1. ThroughTypes
  <2>1. 0 \in Versions /\ 0 \in 0 .. Capacity
    BY DEF Versions
  <2> QED
    BY <2>1, Zenon DEF ThroughTypes
<1>0. ToldType
  BY Zenon DEF ToldType
<1>2. \A n \in Nodes : Announcing(n) = {}
  BY Zenon DEF Announcing
<1>3. OnlyWritten
  BY <1>2, Zenon DEF OnlyWritten
<1>4. NoticesInv
  BY <1>2, FS_EmptySet DEF NoticesInv
<1> QED
  BY <1>0, <1>1, <1>3, <1>4, Zenon DEF ThroughInv

\* The types are kept.
LEMMA ThroughTypesStep == ThroughTypes /\ ThroughNext => ThroughTypes'
<1> SUFFICES ASSUME ThroughTypes, ThroughNext PROVE ThroughTypes'
  BY Zenon
<1> USE CacheAssumption DEF ThroughTypes, Versions
<1>1. CASE Set
  <2>1. store' \in Versions /\ cached' \in Versions
    BY <1>1 DEF Set, CachedBySet
  <2>2. writing' \in [Versions -> SUBSET Nodes]
    BY <1>1, Zenon DEF Set
  <2> QED
    BY <1>1, <2>1, <2>2, Zenon DEF Set
<1>2. ASSUME NEW v \in Versions, NEW n \in Nodes, NotifySent(v, n) PROVE ThroughTypes'
  BY <1>2 DEF NotifySent, Room
<1>3. ASSUME NEW v \in Versions, NEW n \in Nodes, NotifyDropped(v, n) PROVE ThroughTypes'
  BY <1>3, Zenon DEF NotifyDropped
<1>4. ASSUME NEW n \in Nodes, Receive(n) PROVE ThroughTypes'
  BY <1>4 DEF Receive
<1>5. ASSUME NEW r \in Readers, Get(r) PROVE ThroughTypes'
  BY <1>5 DEF Get, GetHit, GetMiss, GetLoad, GetFill, throughVars
<1>6. CASE ThroughExpire
  BY <1>6, Zenon DEF ThroughExpire
<1> QED
  BY <1>1, <1>2, <1>3, <1>4, <1>5, <1>6, Zenon DEF ThroughNext

LEMMA ToldStep == ToldType /\ ThroughNext => ToldType'
<1> SUFFICES ASSUME ToldType, ThroughNext PROVE ToldType'
  BY Zenon
<1> USE DEF ToldType
<1>1. ASSUME NEW v \in Versions, NEW n \in Nodes, NotifyDropped(v, n) PROVE ToldType'
  BY <1>1 DEF NotifyDropped, Drops
<1>2. ASSUME NEW n \in Nodes, Receive(n) PROVE ToldType'
  BY <1>2 DEF Receive
<1>3. CASE UNCHANGED told
  BY <1>3, Zenon
<1> QED
  BY <1>1, <1>2, <1>3, Zenon
  DEF ThroughNext, Set, NotifySent, Get, GetHit, GetMiss, GetLoad, GetFill, ThroughExpire,
      throughVars

\* One notice leaves the loop of the cacheSet of version v for node n; the others stay.
LEMMA NoticeLeaves ==
    ASSUME ThroughTypes, NEW v \in Versions, NEW n \in Nodes, n \in writing[v],
           writing' = [writing EXCEPT ![v] = @ \ {n}]
    PROVE  /\ Cardinality(Announcing(n)') = Cardinality(Announcing(n)) - 1
           /\ \A m \in Nodes : m # n => Announcing(m)' = Announcing(m)
           /\ \A m \in Nodes : Announcing(m)' \subseteq Announcing(m)
<1>1. v \in Announcing(n) /\ Announcing(n)' = Announcing(n) \ {v}
  BY Zenon DEF Announcing, ThroughTypes
<1>2. Cardinality(Announcing(n)') = Cardinality(Announcing(n)) - 1
  BY <1>1, AnnouncingFinite, FS_RemoveElement, Zenon
<1>3. /\ \A m \in Nodes : m # n => Announcing(m)' = Announcing(m)
      /\ \A m \in Nodes : Announcing(m)' \subseteq Announcing(m)
  BY Zenon DEF Announcing, ThroughTypes
<1> QED
  BY <1>2, <1>3, Zenon

\* Every write is announced once to every node, and no notice leaves without trace.
LEMMA NoticesStep ==
    ThroughInv /\ ThroughNext => OnlyWritten' /\ NoticesInv'
<1> SUFFICES ASSUME ThroughInv, ThroughNext PROVE OnlyWritten' /\ NoticesInv'
  BY Zenon
<1> USE CacheAssumption DEF ThroughInv
<1>1. CASE Set
  <2>1. store \in Nat /\ store' = store + 1 /\ store + 1 \in Versions
    BY <1>1 DEF Set, ThroughTypes, Versions
  <2>2. \A n \in Nodes : /\ Announcing(n)' = Announcing(n) \cup {store + 1}
                         /\ store + 1 \notin Announcing(n)
    BY <1>1, <2>1 DEF Set, ThroughTypes, Announcing, OnlyWritten
  <2>3. OnlyWritten'
    BY <2>1, <2>2 DEF OnlyWritten
  <2>4. \A n \in Nodes : Cardinality(Announcing(n)') = Cardinality(Announcing(n)) + 1
    BY <2>2, AnnouncingFinite, FS_AddElement
  <2>5. NoticesInv'
    BY <1>1, <2>1, <2>4, AnnouncingFinite DEF Set, NoticesInv, ThroughTypes, ToldType
  <2> QED
    BY <2>3, <2>5, Zenon
<1>2. ASSUME NEW v \in Versions, NEW n \in Nodes, NotifySent(v, n)
      PROVE  OnlyWritten' /\ NoticesInv'
  <2>1. /\ Cardinality(Announcing(n)') = Cardinality(Announcing(n)) - 1
        /\ \A m \in Nodes : m # n => Announcing(m)' = Announcing(m)
        /\ \A m \in Nodes : Announcing(m)' \subseteq Announcing(m)
    BY <1>2, NoticeLeaves, Zenon DEF NotifySent
  <2>2. OnlyWritten'
    BY <1>2, <2>1, Zenon DEF OnlyWritten, NotifySent
  <2>3. NoticesInv'
    BY <1>2, <2>1, AnnouncingFinite DEF NoticesInv, NotifySent, ThroughTypes, ToldType
  <2> QED
    BY <2>2, <2>3, Zenon
<1>3. ASSUME NEW v \in Versions, NEW n \in Nodes, NotifyDropped(v, n)
      PROVE  OnlyWritten' /\ NoticesInv'
  <2>1. /\ Cardinality(Announcing(n)') = Cardinality(Announcing(n)) - 1
        /\ \A m \in Nodes : m # n => Announcing(m)' = Announcing(m)
        /\ \A m \in Nodes : Announcing(m)' \subseteq Announcing(m)
    BY <1>3, NoticeLeaves, Zenon DEF NotifyDropped
  <2>2. OnlyWritten'
    BY <1>3, <2>1, Zenon DEF OnlyWritten, NotifyDropped
  <2>3. NoticesInv'
    BY <1>3, <2>1, AnnouncingFinite DEF NoticesInv, NotifyDropped, Drops, ThroughTypes, ToldType
  <2> QED
    BY <2>2, <2>3, Zenon
<1>4. ASSUME NEW n \in Nodes, Receive(n) PROVE OnlyWritten' /\ NoticesInv'
  <2>1. \A m \in Nodes : Announcing(m)' = Announcing(m)
    BY <1>4, Zenon DEF Receive, Announcing
  <2>2. OnlyWritten'
    BY <1>4, <2>1, Zenon DEF OnlyWritten, Receive
  <2>3. NoticesInv'
    BY <1>4, <2>1, AnnouncingFinite DEF NoticesInv, Receive, ThroughTypes, ToldType
  <2> QED
    BY <2>2, <2>3, Zenon
<1>5. CASE (\E r \in Readers : Get(r)) \/ ThroughExpire
  <2>1. UNCHANGED <<store, writing, queue, told>>
    BY <1>5, Zenon DEF Get, GetHit, GetMiss, GetLoad, GetFill, ThroughExpire, throughVars
  <2> QED
    BY <2>1, Zenon DEF OnlyWritten, NoticesInv, Announcing
<1> QED
  BY <1>1, <1>2, <1>3, <1>4, <1>5, Zenon DEF ThroughNext

LEMMA ThroughStep == ThroughInv /\ [ThroughNext]_throughVars => ThroughInv'
<1>1. CASE UNCHANGED throughVars
  BY <1>1, Zenon DEF throughVars, ThroughInv, ThroughTypes, ToldType, OnlyWritten, NoticesInv, Announcing
<1> QED
  BY <1>1, ThroughTypesStep, ToldStep, NoticesStep, Zenon DEF ThroughInv

\* The invariant says what the run checks of the write-through cache.
LEMMA ThroughRight == ThroughInv => ThroughTypeOK /\ NoticesAccounted
<1> SUFFICES ASSUME ThroughInv PROVE ThroughTypeOK /\ NoticesAccounted
  BY Zenon
<1> USE CacheAssumption DEF ThroughInv
<1>1. NoticesAccounted
  BY Zenon DEF NoticesAccounted, NoticesInv, Announcing
<1>2. \A n \in Nodes : told[n].taken \in Versions /\ told[n].dropped \in Versions
  BY AnnouncingFinite DEF NoticesInv, ThroughTypes, ToldType, Versions
<1>3. told \in [Nodes -> [taken : Versions, dropped : Versions]]
  BY <1>2, Zenon DEF ToldType
<1> QED
  BY <1>1, <1>3, Zenon DEF ThroughTypeOK, ThroughTypes

\* A write leaves the cache as new as the store, and an expired entry is not stale.
LEMMA StaleStep == ThroughInv /\ [ThroughNext]_throughVars => StaleByLateFill
<1> SUFFICES ASSUME ThroughInv, [ThroughNext]_throughVars PROVE StaleByLateFill
  BY Zenon
<1> USE DEF StaleByLateFill, Stale
<1>1. CASE Set
  BY <1>1, Zenon DEF Set, CachedBySet
<1>2. ASSUME NEW r \in Readers, GetFill(r) PROVE StaleByLateFill
  BY <1>2, Zenon DEF GetFill
<1>3. CASE ThroughExpire
  BY <1>3, Zenon DEF ThroughExpire
<1>4. CASE UNCHANGED <<store, cached, expired>>
  BY <1>4, Zenon
<1> QED
  BY <1>1, <1>2, <1>3, <1>4, Zenon
  DEF ThroughNext, throughVars, NotifySent, NotifyDropped, Receive, Get, GetHit, GetMiss, GetLoad
-----------------------------------------------------------------------------
CachesInv == SingleInv /\ HotInv /\ ThroughInv

\* A step of one cache is a step or a stutter of each.
LEMMA CachesStep ==
    CachesInv /\ [CachesNext]_cacheVars => CachesInv' /\ StaleByLateFill /\ ReplicaKept
<1>1. [CachesNext]_cacheVars =>
          [SingleNext]_singleVars /\ [HotNext]_hotVars /\ [ThroughNext]_throughVars
  BY Zenon DEF CachesNext, cacheVars
<1> QED
  BY <1>1, SingleStep, HotStep, ThroughStep, StaleStep, ReplicaStep, Zenon DEF CachesInv

\* The caches of challenge15 keep what CachesRight says, whatever number of goroutines use
\* them: one loader per LoadingKey also after a failed load, a waiting request known to one
\* place, one promotion, every notice accounted for.
THEOREM CachesKeepRight == CachesSpec => []CachesRight
<1>1. CachesInit => CachesInv
  BY SingleInitially, HotInitially, ThroughInitially, Zenon DEF CachesInit, CachesInv
<1>2. CachesInv => CachesRight
  BY SingleRight, HotRight, ThroughRight, Zenon DEF CachesInv, CachesRight
<1>3. CachesInv /\ [CachesNext]_cacheVars => CachesInv'
  BY CachesStep, Zenon
<1> QED
  BY <1>1, <1>2, <1>3, PTL DEF CachesSpec

\* No step of the write-through cache but a refill that a write overtook makes its entry
\* stale, and no step takes a hot key's replica away.
THEOREM CachesStepRight == CachesSpec => CacheSteps
<1>1. CachesInit => CachesInv
  BY SingleInitially, HotInitially, ThroughInitially, Zenon DEF CachesInit, CachesInv
<1>2. CachesInv /\ [CachesNext]_cacheVars => [StaleByLateFill /\ ReplicaKept]_cacheVars
  BY CachesStep, Zenon
<1>3. CachesInv /\ [CachesNext]_cacheVars => CachesInv'
  BY CachesStep, Zenon
<1> QED
  BY <1>1, <1>2, <1>3, PTL DEF CachesSpec, CacheSteps
=============================================================================
