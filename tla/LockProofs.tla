------------------------------ MODULE LockProofs ------------------------------
(***************************************************************************)
(* Proofs about the three locks of challenge 9.                            *)
(*   TTLLock, for any nodes, resources and TTLs: the type invariant,       *)
(*   mutual exclusion within the TTL, the order of fencing tokens.         *)
(*   LeaseLock, for any workers and any lease duration: the unexpired      *)
(*   lease is unique, IDs are never shared, a valid lease ends only        *)
(*   through its holder.                                                   *)
(*   Redlock, for any number of nodes, clients, retries and any TTL: a     *)
(*   client's won nodes stay its own while its attempt is younger than     *)
(*   the TTL, hence two clients never hold the lock together.              *)
(* Each of them implements ExclusiveRight.                                 *)
(***************************************************************************)
EXTENDS TTLLock, LeaseLock, Redlock, FiniteSetTheorems, TLAPS

\* Every step keeps the types: ages saturate and every TTL is one of TTLs.
LEMMA TypeStep == TypeOK /\ [Next]_vars => TypeOK'
<1> SUFFICES ASSUME TypeOK, [Next]_vars PROVE TypeOK'
  BY Zenon
<1> USE TTLAssumption, AgeAssumption
    DEF TypeOK, LockInfo, NodeState, Lock, State, NoLock, Idle, Ages, Active
<1>1. ASSUME NEW n \in Nodes, NEW r \in Resources, NEW ttl \in TTLs,
             AcquireReentrant(n, r, ttl)
      PROVE TypeOK'
  BY <1>1 DEF AcquireReentrant, Obtained
<1>2. ASSUME NEW n \in Nodes, NEW r \in Resources, NEW ttl \in TTLs,
             AcquireNew(n, r, ttl)
      PROVE TypeOK'
  BY <1>2 DEF AcquireNew, Obtained, NewToken
<1>3. ASSUME NEW n \in Nodes, NEW ttl \in TTLs, Extend(n, ttl)
      PROVE TypeOK'
  BY <1>3, SMTT(40) DEF Extend, Obtained
<1>4. ASSUME NEW n \in Nodes, Release(n)
      PROVE TypeOK'
  BY <1>4 DEF Release
<1>5. ASSUME NEW n \in Nodes, Crash(n) \/ Restart(n)
      PROVE TypeOK'
  BY <1>5 DEF Crash, Restart
<1>6. CASE Cleanup
  BY <1>6 DEF Cleanup
<1>7. CASE Tick
  BY <1>7 DEF Tick, OlderLock, OlderState, Older
<1>8. CASE UNCHANGED vars
  BY <1>8, Zenon DEF vars
<1>9. QED
  BY <1>1, <1>2, <1>3, <1>4, <1>5, <1>6, <1>7, <1>8, Zenon DEF Next, NodeStep

LEMMA TypeInit == Init => TypeOK
  BY AgeAssumption
  DEF Init, TypeOK, LockInfo, NodeState, Lock, State, NoLock, Idle, Ages, Active

\* The type invariant of the lock table, the counter and the nodes.
THEOREM TypeCorrect == Spec => []TypeOK
<1>1. QED BY TypeInit, TypeStep, PTL DEF Spec
-----------------------------------------------------------------------------
\* A node within its TTL keeps its entry: nobody else's acquire, release, extend
\* or the cleanup loop touches an entry that has not expired.
LEMMA BelieverStep ==
    TypeOK /\ BelieverOwnsEntry /\ [Next]_vars => BelieverOwnsEntry'
<1> SUFFICES ASSUME TypeOK, BelieverOwnsEntry, [Next]_vars PROVE BelieverOwnsEntry'
  BY Zenon
<1> USE NoneAssumption, TTLAssumption, AgeAssumption
    DEF TypeOK, LockInfo, NodeState, Lock, State, NoLock, Idle, Ages, Active,
        BelieverOwnsEntry, Believes
<1>1. ASSUME NEW n \in Nodes, NEW r \in Resources, NEW ttl \in TTLs,
             AcquireReentrant(n, r, ttl)
      PROVE  BelieverOwnsEntry'
  BY <1>1 DEF AcquireReentrant, Obtained, Exists
<1>2. ASSUME NEW n \in Nodes, NEW r \in Resources, NEW ttl \in TTLs,
             AcquireNew(n, r, ttl)
      PROVE  BelieverOwnsEntry'
  BY <1>2 DEF AcquireNew, Obtained, NewToken, Exists, Unexpired
<1>3. ASSUME NEW n \in Nodes, NEW ttl \in TTLs, Extend(n, ttl)
      PROVE  BelieverOwnsEntry'
  <2>1. CASE OwnEntry(n, node[n].resource)
    BY <1>3, <2>1 DEF Extend, Obtained, OwnEntry
  <2>2. CASE ~OwnEntry(n, node[n].resource)
    BY <1>3, <2>2 DEF Extend
  <2>3. QED BY <2>1, <2>2, Zenon
<1>4. ASSUME NEW n \in Nodes, Release(n)
      PROVE  BelieverOwnsEntry'
  <2>1. \A m \in Nodes \ {n} : node'[m] = node[m]
    BY <1>4, Zenon DEF Release
  <2>2. node'[n].pc = "idle"
    BY <1>4, Zenon DEF Release
  <2>3. CASE OwnEntry(n, node[n].resource)
    BY <1>4, <2>1, <2>2, <2>3 DEF Release, OwnEntry
  <2>4. CASE ~OwnEntry(n, node[n].resource)
    BY <1>4, <2>1, <2>2, <2>4 DEF Release
  <2>5. QED BY <2>3, <2>4, Zenon
<1>5. ASSUME NEW n \in Nodes, Crash(n) \/ Restart(n)
      PROVE  BelieverOwnsEntry'
  <2>1. \A m \in Nodes \ {n} : node'[m] = node[m]
    BY <1>5, Zenon DEF Crash, Restart
  <2>2. node'[n].pc \in {"idle", "crashed"} /\ locks' = locks
    BY <1>5 DEF Crash, Restart
  <2>3. QED BY <2>1, <2>2
<1>6. CASE Cleanup
  BY <1>6 DEF Cleanup, CleanupDue
<1>7. CASE Tick
  BY <1>7 DEF Tick, OlderLock, OlderState, Older, Exists
<1>8. CASE UNCHANGED vars
  BY <1>8 DEF vars
<1>9. QED
  <2> HIDE DEF TypeOK, BelieverOwnsEntry
  <2>1. QED
    BY <1>1, <1>2, <1>3, <1>4, <1>5, <1>6, <1>7, <1>8, Zenon DEF Next, NodeStep

LEMMA BelieverInit == Init => BelieverOwnsEntry
  BY DEF Init, BelieverOwnsEntry, Believes, Active, Idle, State

\* Two nodes are never both within the TTL of one resource: both would own its entry.
THEOREM LockMutualExclusion == Spec => []MutualExclusion
<1>1. BelieverOwnsEntry => MutualExclusion
  BY DEF BelieverOwnsEntry, MutualExclusion
<1>2. QED
  BY <1>1, TypeInit, TypeStep, BelieverInit, BelieverStep, PTL DEF Spec
-----------------------------------------------------------------------------
FencingInv == TokensIssued /\ StaleTokenIsSmaller

\* Tokens come only from the counter, so an entry made after a node got its token
\* carries a larger one.
LEMMA FencingStep == TypeOK /\ FencingInv /\ [Next]_vars => FencingInv'
<1> SUFFICES ASSUME TypeOK, FencingInv, [Next]_vars PROVE FencingInv'
  BY Zenon
<1> USE NoneAssumption, TTLAssumption, AgeAssumption
    DEF TypeOK, LockInfo, NodeState, Lock, State, NoLock, Idle, Ages, Active,
        FencingInv, TokensIssued, StaleTokenIsSmaller, Exists
<1>1. ASSUME NEW n \in Nodes, NEW r \in Resources, NEW ttl \in TTLs,
             AcquireReentrant(n, r, ttl)
      PROVE  FencingInv'
  BY <1>1, Zenon DEF AcquireReentrant, Obtained
<1>2. ASSUME NEW n \in Nodes, NEW r \in Resources, NEW ttl \in TTLs,
             AcquireNew(n, r, ttl)
      PROVE  FencingInv'
  BY <1>2 DEF AcquireNew, Obtained, NewToken
<1>3. ASSUME NEW n \in Nodes, NEW ttl \in TTLs, Extend(n, ttl)
      PROVE  FencingInv'
  <2>1. \A m \in Nodes : /\ node'[m].token = node[m].token
                         /\ node'[m].resource = node[m].resource
                         /\ Active(m)' <=> Active(m)
    BY <1>3 DEF Extend, Obtained
  <2>2. \A r \in Resources : /\ locks'[r].token = locks[r].token
                             /\ locks'[r].holder = locks[r].holder
    BY <1>3 DEF Extend, OwnEntry
  <2>3. fencingToken' = fencingToken
    BY <1>3, Zenon DEF Extend
  <2> HIDE DEF TypeOK, Active
  <2>4. QED BY <2>1, <2>2, <2>3, Zenon
<1>4. ASSUME NEW n \in Nodes, Release(n)
      PROVE  FencingInv'
  BY <1>4 DEF Release, OwnEntry
<1>5. ASSUME NEW n \in Nodes, Crash(n) \/ Restart(n)
      PROVE  FencingInv'
  BY <1>5 DEF Crash, Restart
<1>6. CASE Cleanup
  BY <1>6 DEF Cleanup
<1>7. CASE Tick
  BY <1>7, Zenon DEF Tick, OlderLock, OlderState
<1>8. CASE UNCHANGED vars
  BY <1>8, Zenon DEF vars
<1>9. QED
  <2> HIDE DEF TypeOK, FencingInv
  <2>1. QED
    BY <1>1, <1>2, <1>3, <1>4, <1>5, <1>6, <1>7, <1>8, Zenon DEF Next, NodeStep

LEMMA FencingInit == Init => FencingInv
  BY DEF Init, FencingInv, TokensIssued, StaleTokenIsSmaller, Active, Exists,
         Idle, State, NoLock, Lock

\* A node that lost a resource's entry to another node always has a smaller token
\* than the one acquire gave the new holder.
THEOREM FencingOrder == Spec => []StaleTokenIsSmaller
<1>1. FencingInv => StaleTokenIsSmaller
  BY Zenon DEF FencingInv
<1>2. QED
  BY <1>1, TypeInit, TypeStep, FencingInit, FencingStep, PTL DEF Spec
-----------------------------------------------------------------------------
\* Every step of the lock is a step of ExclusiveRight or changes no right: only a
\* successful acquire or extend gives one, and then nobody else had it.
LEMMA RightStep ==
    TypeOK /\ BelieverOwnsEntry /\ BelieverOwnsEntry' /\ [Next]_vars
        => [Right!Next]_([r \in Resources |-> {n \in Nodes : Believes(n, r)}])
<1> DEFINE own == [r \in Resources |-> {n \in Nodes : Believes(n, r)}]
<1> SUFFICES ASSUME TypeOK, BelieverOwnsEntry, BelieverOwnsEntry', [Next]_vars
             PROVE  Right!Next \/ own' = own
  BY Zenon
<1>1. ASSUME \A n \in Nodes, r \in Resources : Believes(n, r)' => Believes(n, r)
      PROVE  Right!Next
  BY <1>1, Zenon DEF Right!Next, Right!Lose
<1>2. ASSUME NEW n \in Nodes, NEW r \in Resources,
             \A m \in Nodes : Believes(m, r) => m = n,
             Believes(n, r)',
             \A m \in Nodes : Believes(m, r)' => m = n,
             \A m \in Nodes, q \in Resources : 
                 q # r => (Believes(m, q)' <=> Believes(m, q))
      PROVE  Right!Next
  <2>1. own'[r] = {n} /\ own[r] \subseteq {n} BY <1>2, Zenon
  <2>2. \A q \in Resources : q # r => own'[q] = own[q] BY <1>2, Zenon
  <2>3. own' = [own EXCEPT ![r] = {n}] BY <2>1, <2>2, Zenon
  <2>4. Right!Grant(n, r) BY <2>1, <2>3, Zenon DEF Right!Grant
  <2>5. QED BY <2>4, Zenon DEF Right!Next
<1> USE NoneAssumption, TTLAssumption, AgeAssumption
    DEF TypeOK, LockInfo, NodeState, Lock, State, NoLock, Idle, Ages, Active,
        BelieverOwnsEntry, Believes
<1> HIDE DEF own
<1>3. ASSUME NEW n \in Nodes, NEW r \in Resources, NEW ttl \in TTLs,
             AcquireReentrant(n, r, ttl) \/ AcquireNew(n, r, ttl)
      PROVE  Right!Next \/ own' = own
  <2>1. \A m \in Nodes \ {n} : node'[m] = node[m]
    BY <1>3, Zenon DEF AcquireReentrant, AcquireNew, Obtained
  <2>2. /\ node[n].pc = "idle"
        /\ node'[n] = State("acquired", r, 0, ttl, node'[n].token)
    BY <1>3 DEF AcquireReentrant, AcquireNew, Obtained
  <2>3. \A m \in Nodes : Believes(m, r) => m = n
    BY <1>3 DEF AcquireReentrant, AcquireNew, Exists, Unexpired
  <2>4. CASE ttl > 0
    <3>1. Believes(n, r)'
      BY <2>2, <2>4
    <3>2. \A m \in Nodes : Believes(m, r)' => m = n
      BY <2>1, <2>3, Zenon
    <3>3. \A m \in Nodes, q \in Resources :
              q # r => (Believes(m, q)' <=> Believes(m, q))
      BY <2>1, <2>2
    <3>4. QED BY ONLY <1>2, <2>3, <3>1, <3>2, <3>3
  <2>5. CASE ttl = 0
    BY <1>1, <2>1, <2>2, <2>5
  <2>6. ttl > 0 \/ ttl = 0
    OBVIOUS
  <2>7. QED BY ONLY <2>4, <2>5, <2>6, Zenon
<1>4. ASSUME NEW n \in Nodes, NEW ttl \in TTLs, Extend(n, ttl)
      PROVE  Right!Next \/ own' = own
  <2>0. PICK r \in Resources : r = node[n].resource
    BY <1>4, Zenon DEF Extend
  <2>1. \A m \in Nodes \ {n} : node'[m] = node[m]
    BY <1>4, Zenon DEF Extend, Obtained
  <2>2. Active(n) /\ node[n].resource = r
    BY <1>4, <2>0, Zenon DEF Extend
  <2>3. CASE OwnEntry(n, r)
    <3>1. node'[n] = State("extended", r, 0, ttl, node[n].token)
      BY <1>4, <2>2, <2>3 DEF Extend, Obtained
    <3>2. \A m \in Nodes : Believes(m, r) => m = n
      BY <2>3, <2>2, Zenon DEF OwnEntry
    <3>3. CASE ttl > 0
      <4>1. Believes(n, r)'
        BY <3>1, <3>3
      <4>2. \A m \in Nodes : Believes(m, r)' => m = n
        BY <2>1, <3>2, Zenon
      <4>3. \A m \in Nodes, q \in Resources :
                q # r => (Believes(m, q)' <=> Believes(m, q))
        BY <2>1, <2>2, <3>1
      <4>4. QED BY ONLY <1>2, <2>2, <3>2, <4>1, <4>2, <4>3
    <3>4. CASE ttl = 0
      BY <1>1, <2>1, <2>2, <3>1, <3>4
    <3>5. ttl > 0 \/ ttl = 0
      OBVIOUS
    <3>6. QED BY ONLY <3>3, <3>4, <3>5, Zenon
  <2>4. CASE ~OwnEntry(n, r)
    BY <1>1, <1>4, <2>1, <2>2, <2>4 DEF Extend
  <2>5. QED BY <2>3, <2>4, Zenon
<1>5. ASSUME NEW n \in Nodes, Release(n) \/ Crash(n) \/ Restart(n)
      PROVE  Right!Next \/ own' = own
  BY <1>1, <1>5, SMTT(40) DEF Release, Crash, Restart
<1>6. CASE Cleanup
  BY <1>1, <1>6, Zenon DEF Cleanup
<1>7. CASE Tick
  BY <1>1, <1>7 DEF Tick, OlderState, Older
<1>8. CASE UNCHANGED vars
  BY <1>1, <1>8, Zenon DEF vars
<1>9. QED
  BY <1>3, <1>4, <1>5, <1>6, <1>7, <1>8, Zenon DEF Next, NodeStep

\* The TTL lock with fencing tokens implements the abstract exclusive right.
THEOREM LockImplementsRight == Spec => ImplementsExclusiveRight
<1>1. Init => Right!Init
  BY DEF Init, Right!Init, Believes, Active, Idle, State
<1>2. QED
  BY <1>1, TypeInit, TypeStep, BelieverInit, BelieverStep, RightStep, PTL
  DEF Spec, ImplementsExclusiveRight, Right!Spec

(***************************************************************************)
(* LeaseLock.                                                              *)
(***************************************************************************)
\* Every ID in use was handed out by the counter.
IDsIssued ==
    /\ current.ID <= counter
    /\ \A w \in Workers : mine[w] <= counter

\* A worker that points at the current lease, expired or not, is its holder.
PointerIsHolder ==
    \A w \in Workers : mine[w] # 0 /\ mine[w] = current.ID => current.Holder = w

LeaseInv ==
    /\ LeaseTypeOK
    /\ IDsIssued
    /\ PointerIsHolder
    /\ LeasesDistinct
    /\ HolderIsCurrent

LEMMA LeaseInvInit == LeaseInit => LeaseInv
  BY DurationAssumption
  DEF LeaseInit, LeaseInv, LeaseTypeOK, IDsIssued, PointerIsHolder, LeasesDistinct,
      HolderIsCurrent, Holds, Lease, NoLease, TimeLeft

\* One step per action: the table and the workers' pointers change together.
LEMMA LeaseInvStep == LeaseInv /\ [LeaseNext]_leaseVars => LeaseInv'
<1> SUFFICES ASSUME LeaseInv, [LeaseNext]_leaseVars PROVE LeaseInv'
  BY Zenon
<1> USE DurationAssumption, WorkersAssumption
    DEF LeaseInv, LeaseTypeOK, IDsIssued, PointerIsHolder, LeasesDistinct, HolderIsCurrent,
        Holds, Lease, NoLease, TimeLeft, Leased
<1>1. ASSUME NEW w \in Workers, AcquireAgain(w)
      PROVE  LeaseInv'
  BY <1>1 DEF AcquireAgain, Work, Valid
<1>2. ASSUME NEW w \in Workers, AcquireLease(w)
      PROVE  LeaseInv'
  BY <1>2 DEF AcquireLease, Work, Valid, NewID
<1>3. ASSUME NEW w \in Workers, Heartbeat(w)
      PROVE  LeaseInv'
  <2>1. CASE SameLease(w)
    BY <1>3, <2>1 DEF Heartbeat, SameLease, Work
  <2>2. CASE ~SameLease(w)
    BY <1>3, <2>2 DEF Heartbeat, Stop
  <2>3. QED BY <2>1, <2>2, Zenon
<1>4. ASSUME NEW w \in Workers, Finish(w)
      PROVE  LeaseInv'
  BY <1>4 DEF Finish, SameLease, Stop
<1>5. ASSUME NEW w \in Workers, WorkerCrash(w)
      PROVE  LeaseInv'
  BY <1>5 DEF WorkerCrash, Stop
<1>6. CASE CleanupLeases
  BY <1>6 DEF CleanupLeases, Removable
<1>7. CASE LeaseTick
  BY <1>7 DEF LeaseTick, Less
<1>8. CASE UNCHANGED leaseVars
  BY <1>8, Zenon DEF leaseVars
<1>9. QED
  <2> HIDE DEF LeaseInv
  <2>1. QED
    BY <1>1, <1>2, <1>3, <1>4, <1>5, <1>6, <1>7, <1>8, Zenon DEF LeaseNext, WorkerStep

\* The leases' table, the counter of IDs and the workers' pointers keep their types.
THEOREM LeaseTypeCorrect == LeaseSpec => []LeaseTypeOK
<1>1. LeaseInv => LeaseTypeOK
  BY Zenon DEF LeaseInv
<1>2. QED
  BY <1>1, LeaseInvInit, LeaseInvStep, PTL DEF LeaseSpec

\* Two workers never hold unexpired leases together.
THEOREM LeaseMutualExclusion == LeaseSpec => []LeaseExclusion
<1>1. LeaseInv => LeaseExclusion
  BY Zenon DEF LeaseInv, HolderIsCurrent, LeaseExclusion
<1>2. QED
  BY <1>1, LeaseInvInit, LeaseInvStep, PTL DEF LeaseSpec

\* No two workers ever point at the same lease.
THEOREM LeaseIDsDistinct == LeaseSpec => []LeasesDistinct
<1>1. LeaseInv => LeasesDistinct
  BY Zenon DEF LeaseInv
<1>2. QED
  BY <1>1, LeaseInvInit, LeaseInvStep, PTL DEF LeaseSpec

\* A valid lease ends only by its holder's release, stop or crash.
THEOREM ValidLeaseProtected == LeaseSpec => ValidLeaseEndsByHolder
<1>1. LeaseInv /\ LeaseInv' /\ [LeaseNext]_leaseVars =>
        [\A w \in Workers : Holds(w) => current'.ID = mine[w] \/ mine'[w] = 0]_leaseVars
  <2> SUFFICES ASSUME LeaseInv, LeaseNext, NEW v \in Workers, Holds(v)
               PROVE  current'.ID = mine[v] \/ mine'[v] = 0
    BY Zenon
  <2> USE DurationAssumption, WorkersAssumption
      DEF LeaseInv, LeaseTypeOK, PointerIsHolder, HolderIsCurrent, Holds, Lease, NoLease,
          TimeLeft, Leased
  <2>1. ASSUME NEW w \in Workers, AcquireAgain(w) \/ AcquireLease(w)
        PROVE  current'.ID = mine[v] \/ mine'[v] = 0
    BY <2>1, Zenon DEF AcquireAgain, AcquireLease, Valid
  <2>2. ASSUME NEW w \in Workers, Heartbeat(w) \/ WorkerCrash(w)
        PROVE  current'.ID = mine[v] \/ mine'[v] = 0
    BY <2>2 DEF Heartbeat, WorkerCrash, SameLease
  <2>3. ASSUME NEW w \in Workers, Finish(w)
        PROVE  current'.ID = mine[v] \/ mine'[v] = 0
    BY <2>3, Zenon DEF Finish, Stop, SameLease
  <2>4. CASE CleanupLeases \/ LeaseTick
    BY <2>4 DEF CleanupLeases, LeaseTick, Removable
  <2>5. QED
    BY <2>1, <2>2, <2>3, <2>4, Zenon DEF LeaseNext, WorkerStep
<1>2. QED
  BY <1>1, LeaseInvInit, LeaseInvStep, PTL DEF LeaseSpec, ValidLeaseEndsByHolder
-----------------------------------------------------------------------------
\* Only acquireLease and renewLease give a right, and then nobody else has one.
LEMMA LeaseRightStep ==
    LeaseInv /\ LeaseInv' /\ [LeaseNext]_leaseVars
        => [LeaseRight!Next]_([r \in {"shared_resource"} |-> {w \in Workers : Holds(w)}])
<1> DEFINE own == [r \in {"shared_resource"} |-> {w \in Workers : Holds(w)}]
<1> SUFFICES ASSUME LeaseInv, LeaseInv', [LeaseNext]_leaseVars
             PROVE  LeaseRight!Next \/ own' = own
  BY Zenon
<1>1. ASSUME \A w \in Workers : Holds(w)' => Holds(w)
      PROVE  LeaseRight!Next
  BY <1>1, Zenon DEF LeaseRight!Next, LeaseRight!Lose
<1>2. ASSUME NEW w \in Workers, Holds(w)', \A v \in Workers : Holds(v) => v = w
      PROVE  LeaseRight!Next
  <2>1. \A v \in Workers : Holds(v)' => v = w
    BY <1>2 DEF LeaseInv, HolderIsCurrent
  <2>2. own' = [own EXCEPT !["shared_resource"] = {w}]
    BY <1>2, <2>1, Zenon
  <2>3. LeaseRight!Grant(w, "shared_resource")
    BY <1>2, <2>2, Zenon DEF LeaseRight!Grant
  <2>4. QED BY <2>3, Zenon DEF LeaseRight!Next
<1> HIDE DEF own
<1> USE DurationAssumption, WorkersAssumption
    DEF LeaseInv, LeaseTypeOK, PointerIsHolder, HolderIsCurrent, Holds, Lease, NoLease,
        TimeLeft, Leased
<1>3. ASSUME NEW w \in Workers, AcquireAgain(w) \/ AcquireLease(w)
      PROVE  LeaseRight!Next
  <2>1. Holds(w)'
    BY <1>3 DEF AcquireAgain, AcquireLease, Work, NewID
  <2>2. \A v \in Workers : Holds(v) => v = w
    BY <1>3, Zenon DEF AcquireAgain, AcquireLease, Valid
  <2>3. QED BY ONLY <1>2, <2>1, <2>2, <1>3, Zenon
<1>4. ASSUME NEW w \in Workers, Heartbeat(w)
      PROVE  LeaseRight!Next
  <2>1. CASE SameLease(w)
    BY <1>2, <1>4, <2>1 DEF Heartbeat, SameLease, Work
  <2>2. CASE ~SameLease(w)
    BY <1>1, <1>4, <2>2 DEF Heartbeat, Stop
  <2>3. QED BY <2>1, <2>2, Zenon
<1>5. ASSUME NEW w \in Workers, Finish(w) \/ WorkerCrash(w)
      PROVE  LeaseRight!Next
  BY <1>1, <1>5 DEF Finish, WorkerCrash, Stop
<1>6. CASE CleanupLeases \/ LeaseTick \/ UNCHANGED leaseVars
  BY <1>1, <1>6 DEF CleanupLeases, LeaseTick, Less, leaseVars
<1>7. QED
  BY <1>3, <1>4, <1>5, <1>6, Zenon DEF LeaseNext, WorkerStep

\* The lease manager implements the abstract exclusive right.
THEOREM LeaseImplementsRight == LeaseSpec => LeaseIsExclusiveRight
<1>1. LeaseInit => LeaseRight!Init
  BY Zenon DEF LeaseInit, LeaseRight!Init, Holds
<1>2. QED
  BY <1>1, LeaseInvInit, LeaseInvStep, LeaseRightStep, PTL
  DEF LeaseSpec, LeaseIsExclusiveRight, LeaseRight!Spec
-----------------------------------------------------------------------------
\* The nodes whose entry is the client's and no older than its attempt.
WonSet(c) == {k \in LockNodes : value[k] = c /\ age[k] <= elapsed[c]}

\* Where the client's entries can be, by where its loops are.
Swept ==
    \A c \in Clients : \A k \in LockNodes :
        value[k] = c =>
            /\ pc[c] \notin {"start", "done"}
            /\ pc[c] = "locking" => k < at[c]
            /\ pc[c] \in {"unlocking", "releasing"} => k >= at[c]

Cursor ==
    \A c \in Clients :
        /\ pc[c] \in {"locking", "unlocking", "releasing"} => at[c] \in LockNodes
        /\ pc[c] = "holding" => at[c] = 1 /\ lockedNodes[c] >= quorum
        /\ pc[c] = "locking" => lockedNodes[c] < at[c]
        /\ pc[c] \in {"locking", "decide", "unlocking"} => retry[c] < Retries

RedlockInv == RedlockTypeOK /\ Cursor /\ Swept /\ WonNodesKept

LEMMA WonSetFinite ==
    ASSUME NEW S \in SUBSET LockNodes
    PROVE  IsFiniteSet(S) /\ Cardinality(S) \in Nat /\ Cardinality(S) <= N
<1>1. IsFiniteSet(LockNodes) /\ Cardinality(LockNodes) = N
  BY NAssumption, FS_Interval DEF LockNodes
<1>2. QED BY <1>1, FS_Subset, FS_CardinalityType, Zenon

LEMMA RedlockInvInit == RedlockInit => RedlockInv
<1> SUFFICES ASSUME RedlockInit PROVE RedlockInv
  BY Zenon
<1>1. RedlockTypeOK /\ Cursor /\ Swept
  BY NAssumption, TimeAssumption, RetriesAssumption, ClientAssumption
  DEF RedlockInit, RedlockTypeOK, Cursor, Swept, PCs, LockNodes
<1>2. WonNodesKept
  BY Zenon DEF RedlockInit, WonNodesKept
<1>3. QED BY <1>1, <1>2, Zenon DEF RedlockInv

Loops == RedlockTypeOK /\ Cursor /\ Swept

\* The bookkeeping of the loops: who can have entries where.
LEMMA LoopStep == Loops /\ [RedlockNext]_redlockVars => Loops'
<1> SUFFICES ASSUME RedlockTypeOK, Cursor, Swept, [RedlockNext]_redlockVars PROVE Loops'
  BY Zenon DEF Loops
<1> USE NAssumption, TimeAssumption, RetriesAssumption, ClientAssumption
    DEF RedlockTypeOK, Cursor, Swept, PCs, LockNodes
<1>1. ASSUME NEW c \in Clients, StartAttempt(c)
      PROVE  Loops'
  BY <1>1 DEF StartAttempt, freshCount, Loops
<1>2. ASSUME NEW c \in Clients, GiveUp(c)
      PROVE  Loops'
  BY <1>2, Zenon DEF GiveUp, Loops
<1>3. ASSUME NEW c \in Clients, LockSingleNode(c)
      PROVE  Loops'
  <2>1. at[c] \in LockNodes /\ pc[c] = "locking"
    BY <1>3, Zenon DEF LockSingleNode
  <2>2. PICK k \in LockNodes : k = at[c]
    BY <2>1, Zenon
  <2>3. /\ at' = [at EXCEPT ![c] = k + 1]
        /\ pc' = [pc EXCEPT ![c] = IF k = N THEN "decide" ELSE "locking"]
        /\ retry' = retry /\ elapsed' = elapsed
        /\ \/ lockedNodes' = [lockedNodes EXCEPT ![c] = lockedNodes[c] + 1]
           \/ lockedNodes' = lockedNodes
    BY <1>3, <2>1, <2>2, Zenon DEF LockSingleNode
  <2>4. /\ \A q \in LockNodes \ {k} : value'[q] = value[q]
        /\ value'[k] \in {value[k], c}
    BY <1>3, <2>2 DEF LockSingleNode
  <2>5. value' \in [LockNodes -> Clients \cup {NoEntry}] /\ age' \in [LockNodes -> 0 .. TTL]
    <3>1. /\ value' \in {value, [value EXCEPT ![k] = c]}
          /\ age' \in {age, [age EXCEPT ![k] = 0]}
      BY ONLY <1>3, <2>2, Zenon DEF LockSingleNode
    <3>2. QED
      BY ONLY <3>1, RedlockTypeOK, TimeAssumption, k \in LockNodes, c \in Clients
  <2>6. RedlockTypeOK'
    <3>1. at' \in [Clients -> 1 .. N + 1]
      <4>1. at' = [at EXCEPT ![c] = k + 1]
        BY ONLY <2>3, Zenon
      <4>2. QED BY ONLY <4>1, RedlockTypeOK, NAssumption, k \in LockNodes, c \in Clients
    <3>2. pc' \in [Clients -> PCs]
      BY <2>3, Zenon
    <3>3. lockedNodes' \in [Clients -> 0 .. N]
      <4>1. lockedNodes[c] \in 0 .. N - 1
        BY <2>1, <2>2
      <4>2. lockedNodes[c] \in 0 .. N /\ lockedNodes[c] + 1 \in 0 .. N
        BY ONLY <4>1, NAssumption
      <4>3. lockedNodes' = [lockedNodes EXCEPT ![c] = lockedNodes[c] + 1]
            \/ lockedNodes' = lockedNodes
        BY <2>3, Zenon
      <4>4. QED
        BY ONLY <4>2, <4>3, lockedNodes \in [Clients -> 0 .. N], c \in Clients, Zenon
    <3>4. retry' \in [Clients -> 0 .. Retries] /\ elapsed' \in [Clients -> 0 .. TTL]
      BY <2>1, <2>3, Zenon
    <3>5. QED BY <2>5, <3>1, <3>2, <3>3, <3>4, Zenon
  <2>7. Cursor'
    <3>1. ASSUME NEW d \in Clients \ {c}
          PROVE  /\ pc'[d] = pc[d] /\ at'[d] = at[d] /\ retry'[d] = retry[d]
                 /\ lockedNodes'[d] = lockedNodes[d]
      BY ONLY <2>3, <3>1, RedlockTypeOK, Zenon
    <3>2. /\ at'[c] = k + 1 /\ retry'[c] = retry[c]
          /\ lockedNodes'[c] < at'[c]
          /\ pc'[c] = IF k = N THEN "decide" ELSE "locking"
      BY <2>1, <2>2, <2>3
    <3>3. ASSUME NEW d \in Clients
          PROVE  /\ pc'[d] \in {"locking", "unlocking", "releasing"} => at'[d] \in LockNodes
                 /\ pc'[d] = "holding" => at'[d] = 1 /\ lockedNodes'[d] >= quorum
                 /\ pc'[d] = "locking" => lockedNodes'[d] < at'[d]
                 /\ pc'[d] \in {"locking", "decide", "unlocking"} => retry'[d] < Retries
      <4>1. CASE d = c
        BY <2>1, <2>2, <3>2, <4>1
      <4>2. CASE d # c
        BY <3>1, <4>2, Zenon
      <4>3. QED BY <4>1, <4>2, Zenon
    <3>4. QED BY <3>3, Zenon
  <2>8. Swept'
    <3> SUFFICES ASSUME NEW d \in Clients, NEW q \in LockNodes, value'[q] = d
                 PROVE  /\ pc'[d] \notin {"start", "done"}
                        /\ pc'[d] = "locking" => q < at'[d]
                        /\ pc'[d] \in {"unlocking", "releasing"} => q >= at'[d]
      BY Zenon
    <3>1. CASE d = c
      <4>1. /\ at'[c] = k + 1
            /\ pc'[c] \in {"locking", "decide"}
        BY <2>3
      <4>2. q = k \/ value[q] = c
        BY <2>4, <3>1, Zenon
      <4>3. q < k + 1
        <5>1. value[q] = c => q < at[c]
          BY ONLY Swept, <2>1, c \in Clients, q \in LockNodes, Zenon DEF Swept
        <5>2. q \in 1 .. N /\ k \in 1 .. N
          BY Zenon
        <5>3. QED BY ONLY <2>2, <4>2, <5>1, <5>2, NAssumption
      <4>4. QED BY <3>1, <4>1, <4>3, Zenon
    <3>2. CASE d # c
      BY <2>1, <2>2, <2>3, <2>4, <3>2, Zenon
    <3>3. QED BY <3>1, <3>2, Zenon
  <2>9. QED BY <2>6, <2>7, <2>8, Zenon DEF Loops
<1>4. ASSUME NEW c \in Clients, Decide(c)
      PROVE  Loops'
  <2>1. RedlockTypeOK'
    BY ONLY <1>4, RedlockTypeOK, NAssumption, c \in Clients DEF Decide
  <2>2. Swept'
    BY <1>4 DEF Decide
  <2>3. Cursor'
    <3>1. CASE Won(c)
      BY <1>4, <3>1, Zenon DEF Decide, Won
    <3>2. CASE ~Won(c)
      BY <1>4, <3>2 DEF Decide
    <3>3. QED BY <3>1, <3>2, Zenon
  <2>4. QED BY <2>1, <2>2, <2>3, Zenon DEF Loops
<1>5. ASSUME NEW c \in Clients, StartRelease(c)
      PROVE  Loops'
  <2>1. RedlockTypeOK'
    BY ONLY <1>5, RedlockTypeOK, c \in Clients, Zenon DEF StartRelease
  <2>2. Cursor'
    BY <1>5 DEF StartRelease
  <2>3. Swept'
    BY <1>5 DEF StartRelease
  <2>4. QED BY <2>1, <2>2, <2>3, Zenon DEF Loops
<1>6. ASSUME NEW c \in Clients, UnlockSingleNode(c)
      PROVE  Loops'
  <2>1. at[c] \in LockNodes /\ pc[c] = "unlocking"
    BY <1>6, Zenon DEF UnlockSingleNode
  <2>2. PICK k \in LockNodes : k = at[c]
    BY <2>1, Zenon
  <2>3. /\ at' = [at EXCEPT ![c] = k + 1]
        /\ pc' = [pc EXCEPT ![c] = IF k = N THEN "start" ELSE "unlocking"]
        /\ lockedNodes' = lockedNodes /\ elapsed' = elapsed
        /\ retry' = [retry EXCEPT ![c] = IF k = N THEN retry[c] + 1 ELSE retry[c]]
    BY <1>6, <2>1, <2>2, Zenon DEF UnlockSingleNode, LastNode, nextRetry
  <2>4. /\ value'[k] # c
        /\ \A q \in LockNodes : value'[q] \in {value[q], NoEntry}
    <3>1. CASE value[k] = c
      BY <1>6, <2>2, <3>1 DEF UnlockSingleNode, UnlockNode
    <3>2. CASE value[k] # c
      BY <1>6, <2>2, <3>2, Zenon DEF UnlockSingleNode, UnlockNode
    <3>3. QED BY <3>1, <3>2, Zenon
  <2>5. value' \in [LockNodes -> Clients \cup {NoEntry}] /\ age' \in [LockNodes -> 0 .. TTL]
    <3>1. /\ value' \in {value, [value EXCEPT ![k] = NoEntry]}
          /\ age' \in {age, [age EXCEPT ![k] = 0]}
      BY ONLY <1>6, <2>2, Zenon DEF UnlockSingleNode, UnlockNode
    <3>2. value \in [LockNodes -> Clients \cup {NoEntry}] /\ age \in [LockNodes -> 0 .. TTL]
      BY ONLY RedlockTypeOK, Zenon
    <3>3. value' \in [LockNodes -> Clients \cup {NoEntry}]
      BY ONLY <3>1, <3>2, k \in LockNodes, Zenon
    <3>4. age' \in [LockNodes -> 0 .. TTL]
      BY ONLY <3>1, <3>2, TimeAssumption, k \in LockNodes
    <3>5. QED BY ONLY <3>3, <3>4, Zenon
  <2>6. RedlockTypeOK'
    <3>1. at' \in [Clients -> 1 .. N + 1]
      <4>1. at' = [at EXCEPT ![c] = k + 1]
        BY ONLY <2>3, Zenon
      <4>2. QED BY ONLY <4>1, RedlockTypeOK, NAssumption, k \in LockNodes, c \in Clients
    <3>2. pc' \in [Clients -> PCs]
      BY <2>3, Zenon
    <3>3. lockedNodes' \in [Clients -> 0 .. N]
      BY <2>1, <2>2, <2>3, Zenon
    <3>4. retry' \in [Clients -> 0 .. Retries] /\ elapsed' \in [Clients -> 0 .. TTL]
      <4>1. retry[c] \in 0 .. Retries /\ retry[c] + 1 \in 0 .. Retries
        BY <2>1
      <4>2. QED BY <2>3, <4>1, Zenon
    <3>5. QED BY <2>5, <3>1, <3>2, <3>3, <3>4, Zenon
  <2>7. Cursor'
    <3>1. ASSUME NEW d \in Clients \ {c}
          PROVE  /\ pc'[d] = pc[d] /\ at'[d] = at[d] /\ retry'[d] = retry[d]
                 /\ lockedNodes'[d] = lockedNodes[d]
      BY ONLY <2>3, <3>1, RedlockTypeOK, Zenon
    <3>2. /\ at'[c] = k + 1
          /\ retry'[c] = IF k = N THEN retry[c] + 1 ELSE retry[c]
          /\ pc'[c] = IF k = N THEN "start" ELSE "unlocking"
      BY ONLY <2>3, RedlockTypeOK, c \in Clients, Zenon
    <3>3. retry[c] < Retries => pc'[c] # "unlocking" \/ retry'[c] < Retries
      BY ONLY <3>2, Zenon
    <3>4. ASSUME NEW d \in Clients
          PROVE  /\ pc'[d] \in {"locking", "unlocking", "releasing"} => at'[d] \in LockNodes
                 /\ pc'[d] = "holding" => at'[d] = 1 /\ lockedNodes'[d] >= quorum
                 /\ pc'[d] = "locking" => lockedNodes'[d] < at'[d]
                 /\ pc'[d] \in {"locking", "decide", "unlocking"} => retry'[d] < Retries
      <4>1. CASE d = c
        BY ONLY <2>1, <3>2, <3>3, <4>1, Cursor, NAssumption, k \in LockNodes, c \in Clients
      <4>2. CASE d # c
        BY ONLY <3>1, <4>2, Cursor, d \in Clients, Zenon
      <4>3. QED BY ONLY <4>1, <4>2, Zenon
    <3>5. QED BY ONLY <3>4, Zenon
  <2>8. Swept'
    <3> SUFFICES ASSUME NEW d \in Clients, NEW q \in LockNodes, value'[q] = d
                 PROVE  /\ pc'[d] \notin {"start", "done"}
                        /\ pc'[d] = "locking" => q < at'[d]
                        /\ pc'[d] \in {"unlocking", "releasing"} => q >= at'[d]
      BY Zenon
    <3>1. CASE d = c
      <4>1. /\ at'[c] = k + 1
            /\ pc'[c] = IF k = N THEN "start" ELSE "unlocking"
        BY <2>3
      <4>2. q # k /\ value[q] = c
        BY <2>4, <3>1, Zenon
      <4>3. q >= k + 1 /\ k # N
        <5>1. pc[c] \in {"unlocking", "releasing"} => q >= at[c]
          BY ONLY Swept, <4>2, c \in Clients, q \in LockNodes, Zenon DEF Swept
        <5>2. q >= k
          BY <2>1, <2>2, <5>1, Zenon
        <5>3. q \in 1 .. N /\ k \in 1 .. N /\ q # k
          BY <4>2, Zenon
        <5>4. QED BY ONLY <5>2, <5>3, NAssumption
      <4>4. QED BY <3>1, <4>1, <4>3, Zenon
    <3>2. CASE d # c
      BY <2>1, <2>2, <2>3, <2>4, <3>2, Zenon
    <3>3. QED BY <3>1, <3>2, Zenon
  <2>9. QED BY <2>6, <2>7, <2>8, Zenon DEF Loops
<1>7. ASSUME NEW c \in Clients, ReleaseSingleNode(c)
      PROVE  Loops'
  <2>1. at[c] \in LockNodes /\ pc[c] = "releasing"
    BY <1>7, Zenon DEF ReleaseSingleNode
  <2>2. PICK k \in LockNodes : k = at[c]
    BY <2>1, Zenon
  <2>3. /\ at' = [at EXCEPT ![c] = k + 1]
        /\ pc' = [pc EXCEPT ![c] = IF k = N THEN "done" ELSE "releasing"]
        /\ lockedNodes' = lockedNodes /\ elapsed' = elapsed
        /\ retry' = retry
    BY <1>7, <2>1, <2>2, Zenon DEF ReleaseSingleNode, LastNode
  <2>4. /\ value'[k] # c
        /\ \A q \in LockNodes : value'[q] \in {value[q], NoEntry}
    <3>1. CASE value[k] = c
      BY <1>7, <2>2, <3>1 DEF ReleaseSingleNode, UnlockNode
    <3>2. CASE value[k] # c
      BY <1>7, <2>2, <3>2, Zenon DEF ReleaseSingleNode, UnlockNode
    <3>3. QED BY <3>1, <3>2, Zenon
  <2>5. value' \in [LockNodes -> Clients \cup {NoEntry}] /\ age' \in [LockNodes -> 0 .. TTL]
    <3>1. /\ value' \in {value, [value EXCEPT ![k] = NoEntry]}
          /\ age' \in {age, [age EXCEPT ![k] = 0]}
      BY ONLY <1>7, <2>2, Zenon DEF ReleaseSingleNode, UnlockNode
    <3>2. value \in [LockNodes -> Clients \cup {NoEntry}] /\ age \in [LockNodes -> 0 .. TTL]
      BY ONLY RedlockTypeOK, Zenon
    <3>3. value' \in [LockNodes -> Clients \cup {NoEntry}]
      BY ONLY <3>1, <3>2, k \in LockNodes, Zenon
    <3>4. age' \in [LockNodes -> 0 .. TTL]
      BY ONLY <3>1, <3>2, TimeAssumption, k \in LockNodes
    <3>5. QED BY ONLY <3>3, <3>4, Zenon
  <2>6. RedlockTypeOK'
    <3>1. at' \in [Clients -> 1 .. N + 1]
      <4>1. at' = [at EXCEPT ![c] = k + 1]
        BY ONLY <2>3, Zenon
      <4>2. QED BY ONLY <4>1, RedlockTypeOK, NAssumption, k \in LockNodes, c \in Clients
    <3>2. pc' \in [Clients -> PCs]
      BY <2>3, Zenon
    <3>3. lockedNodes' \in [Clients -> 0 .. N]
      BY <2>1, <2>2, <2>3, Zenon
    <3>4. retry' \in [Clients -> 0 .. Retries] /\ elapsed' \in [Clients -> 0 .. TTL]
      BY <2>1, <2>3, Zenon
    <3>5. QED BY <2>5, <3>1, <3>2, <3>3, <3>4, Zenon
  <2>7. Cursor'
    <3>1. ASSUME NEW d \in Clients \ {c}
          PROVE  /\ pc'[d] = pc[d] /\ at'[d] = at[d] /\ retry'[d] = retry[d]
                 /\ lockedNodes'[d] = lockedNodes[d]
      BY ONLY <2>3, <3>1, RedlockTypeOK, Zenon
    <3>2. /\ at'[c] = k + 1
          /\ retry'[c] = retry[c]
          /\ pc'[c] = IF k = N THEN "done" ELSE "releasing"
      BY ONLY <2>3, RedlockTypeOK, c \in Clients, Zenon
    <3>3. retry[c] < Retries => pc'[c] # "unlocking" \/ retry'[c] < Retries
      BY ONLY <3>2, Zenon
    <3>4. ASSUME NEW d \in Clients
          PROVE  /\ pc'[d] \in {"locking", "unlocking", "releasing"} => at'[d] \in LockNodes
                 /\ pc'[d] = "holding" => at'[d] = 1 /\ lockedNodes'[d] >= quorum
                 /\ pc'[d] = "locking" => lockedNodes'[d] < at'[d]
                 /\ pc'[d] \in {"locking", "decide", "unlocking"} => retry'[d] < Retries
      <4>1. CASE d = c
        BY ONLY <2>1, <3>2, <3>3, <4>1, Cursor, NAssumption, k \in LockNodes, c \in Clients
      <4>2. CASE d # c
        BY ONLY <3>1, <4>2, Cursor, d \in Clients, Zenon
      <4>3. QED BY ONLY <4>1, <4>2, Zenon
    <3>5. QED BY ONLY <3>4, Zenon
  <2>8. Swept'
    <3> SUFFICES ASSUME NEW d \in Clients, NEW q \in LockNodes, value'[q] = d
                 PROVE  /\ pc'[d] \notin {"start", "done"}
                        /\ pc'[d] = "locking" => q < at'[d]
                        /\ pc'[d] \in {"unlocking", "releasing"} => q >= at'[d]
      BY Zenon
    <3>1. CASE d = c
      <4>1. /\ at'[c] = k + 1
            /\ pc'[c] = IF k = N THEN "done" ELSE "releasing"
        BY <2>3, Zenon
      <4>2. q # k /\ value[q] = c
        BY <2>4, <3>1, Zenon
      <4>3. q >= k + 1 /\ k # N
        <5>1. pc[c] \in {"unlocking", "releasing"} => q >= at[c]
          BY ONLY Swept, <4>2, c \in Clients, q \in LockNodes, Zenon DEF Swept
        <5>2. q >= k
          BY <2>1, <2>2, <5>1, Zenon
        <5>3. q \in 1 .. N /\ k \in 1 .. N /\ q # k
          BY <4>2, Zenon
        <5>4. QED BY ONLY <5>2, <5>3, NAssumption
      <4>4. QED BY <3>1, <4>1, <4>3, Zenon
    <3>2. CASE d # c
      BY <2>1, <2>2, <2>3, <2>4, <3>2, Zenon
    <3>3. QED BY <3>1, <3>2, Zenon
  <2>9. QED BY <2>6, <2>7, <2>8, Zenon DEF Loops
<1>8. CASE RedlockTick
  <2>1. RedlockTypeOK'
    <3>1. /\ \A k \in LockNodes : age[k] \in 0 .. TTL /\ OlderEntry(age[k]) \in 0 .. TTL
          /\ \A c \in Clients : elapsed[c] \in 0 .. TTL /\ OlderEntry(elapsed[c]) \in 0 .. TTL
      BY ONLY RedlockTypeOK, TimeAssumption DEF OlderEntry
    <3>2. /\ age' \in [LockNodes -> 0 .. TTL]
          /\ elapsed' \in [Clients -> 0 .. TTL]
      BY ONLY <1>8, <3>1, Zenon DEF RedlockTick
    <3>3. QED BY ONLY <1>8, <3>2, RedlockTypeOK, Zenon DEF RedlockTick
  <2>2. Cursor'
    BY ONLY <1>8, Cursor, Zenon DEF RedlockTick
  <2>3. Swept'
    BY ONLY <1>8, Swept, Zenon DEF RedlockTick
  <2>4. QED BY <2>1, <2>2, <2>3, Zenon DEF Loops
<1>9. CASE UNCHANGED redlockVars
  BY <1>9, Zenon DEF redlockVars, Loops
<1>10. QED
  <2> HIDE DEF RedlockTypeOK, Cursor, Swept
  <2>1. QED
    BY <1>1, <1>2, <1>3, <1>4, <1>5, <1>6, <1>7, <1>8, <1>9, Zenon DEF RedlockNext, ClientStep
-----------------------------------------------------------------------------
\* A client in an attempt that is younger than the TTL.
Counting(c) == pc[c] \in {"locking", "decide", "holding"} /\ elapsed[c] < TTL

\* A set of nodes that only grows still has as many nodes.
LEMMA Grows ==
    ASSUME NEW S \in SUBSET LockNodes, NEW T \in SUBSET LockNodes, S \subseteq T
    PROVE  Cardinality(S) <= Cardinality(T)
  BY WonSetFinite, FS_Subset, Zenon

\* An entry that counts for its client is not free for another one.
LEMMA CountedNotFree ==
    ASSUME RedlockTypeOK, NEW c \in Clients, Counting(c), NEW k \in WonSet(c)
    PROVE  ~Free(k)
<1>1. k \in LockNodes /\ value[k] = c /\ age[k] <= elapsed[c] /\ elapsed[c] < TTL
  BY Zenon DEF WonSet, Counting
<1>2. age[k] \in Nat /\ elapsed[c] \in Nat /\ TTL \in Nat
  BY <1>1, TimeAssumption DEF RedlockTypeOK
<1>3. age[k] < TTL
  BY <1>1, <1>2
<1>4. value[k] # NoEntry
  BY <1>1, ClientAssumption, Zenon
<1>5. QED BY <1>3, <1>4, Zenon DEF Free

\* No step takes from a client, while its attempt is young, a node that it won, and a node it
\* wins is counted once.
LEMMA WonStep == Loops /\ Loops' /\ WonNodesKept /\ [RedlockNext]_redlockVars => WonNodesKept'
<1> SUFFICES ASSUME Loops, Loops', WonNodesKept, [RedlockNext]_redlockVars,
                    NEW c \in Clients, Counting(c)'
             PROVE  Cardinality(WonSet(c)') >= lockedNodes'[c]
  BY Zenon DEF WonNodesKept, WonSet, Counting
<1>1. /\ WonSet(c) \in SUBSET LockNodes /\ WonSet(c)' \in SUBSET LockNodes
      /\ Cardinality(WonSet(c)) \in Nat /\ Cardinality(WonSet(c)') \in Nat
  BY WonSetFinite, Zenon DEF WonSet, LockNodes
<1>2. lockedNodes[c] \in Nat /\ lockedNodes'[c] \in Nat
  BY DEF Loops, RedlockTypeOK
<1>3. Counting(c) => Cardinality(WonSet(c)) >= lockedNodes[c]
  BY Zenon DEF WonNodesKept, WonSet, Counting
<1>4. ASSUME Counting(c), lockedNodes'[c] = lockedNodes[c], WonSet(c) \subseteq WonSet(c)'
      PROVE  Cardinality(WonSet(c)') >= lockedNodes'[c]
  <2>1. Cardinality(WonSet(c)) <= Cardinality(WonSet(c)')
    BY <1>1, <1>4, Grows, Zenon
  <2>2. QED BY <1>1, <1>2, <1>3, <1>4, <2>1
<1>5. ASSUME NEW d \in Clients, StartAttempt(d)
      PROVE  Cardinality(WonSet(c)') >= lockedNodes'[c]
  <2>1. CASE d = c
    <3>1. lockedNodes'[c] = 0
      BY <1>5, <2>1, Zenon DEF StartAttempt, freshCount, Loops, RedlockTypeOK
    <3>2. QED BY <1>1, <3>1
  <2>2. CASE d # c
    BY <1>4, <1>5, <2>2, Zenon DEF StartAttempt, Counting, WonSet, Loops, RedlockTypeOK
  <2>3. QED BY <2>1, <2>2, Zenon
<1>6. ASSUME NEW d \in Clients, GiveUp(d) \/ StartRelease(d)
      PROVE  Cardinality(WonSet(c)') >= lockedNodes'[c]
  BY <1>4, <1>6, Zenon DEF GiveUp, StartRelease, Counting, WonSet, Loops, RedlockTypeOK
<1>7. ASSUME NEW d \in Clients, Decide(d)
      PROVE  Cardinality(WonSet(c)') >= lockedNodes'[c]
  BY <1>4, <1>7, Zenon DEF Decide, Counting, WonSet, Loops, RedlockTypeOK
<1>8. ASSUME NEW d \in Clients, LockSingleNode(d)
      PROVE  Cardinality(WonSet(c)') >= lockedNodes'[c]
  <2>1. at[d] \in LockNodes /\ pc[d] = "locking"
    BY <1>8, Zenon DEF LockSingleNode, Loops, Cursor
  <2>2. PICK k \in LockNodes : k = at[d]
    BY <2>1, Zenon
  <2>3. Counting(c) /\ elapsed' = elapsed
    BY <1>8, <2>1, Zenon DEF LockSingleNode, Counting, Loops, RedlockTypeOK
  <2>4. CASE ~Free(k)
    <3>1. value' = value /\ age' = age /\ lockedNodes'[c] = lockedNodes[c]
      BY <1>8, <2>2, <2>4, Zenon DEF LockSingleNode, Loops, RedlockTypeOK
    <3>2. QED BY <1>4, <2>3, <3>1, Zenon DEF WonSet
  <2>5. CASE Free(k)
    <3>1. /\ value' = [value EXCEPT ![k] = d] /\ age' = [age EXCEPT ![k] = 0]
          /\ lockedNodes' = [lockedNodes EXCEPT ![d] = lockedNodes[d] + 1]
      BY <1>8, <2>2, <2>5, Zenon DEF LockSingleNode
    <3>2. k \notin WonSet(c)
      BY <2>3, <2>5, CountedNotFree, Zenon DEF Loops
    <3>3. WonSet(c) \subseteq WonSet(c)'
      BY <2>3, <3>1, <3>2, Zenon DEF WonSet, Loops, RedlockTypeOK
    <3>4. CASE d # c
      BY <1>4, <2>3, <3>1, <3>3, <3>4, Zenon DEF Loops, RedlockTypeOK
    <3>5. CASE d = c
      <4>1. k \in WonSet(c)'
        BY <2>3, <3>1, <3>5 DEF WonSet, Loops, RedlockTypeOK
      <4>2. Cardinality(WonSet(c) \cup {k}) = Cardinality(WonSet(c)) + 1
        BY <1>1, <3>2, WonSetFinite, FS_AddElement, Zenon
      <4>3. Cardinality(WonSet(c) \cup {k}) <= Cardinality(WonSet(c)')
        BY <1>1, <3>3, <4>1, Grows, Zenon
      <4>4. lockedNodes'[c] = lockedNodes[c] + 1
        BY <3>1, <3>5, Zenon DEF Loops, RedlockTypeOK
      <4>5. QED BY <1>1, <1>2, <1>3, <2>3, <4>2, <4>3, <4>4
    <3>6. QED BY <3>4, <3>5, Zenon
  <2>6. QED BY <2>4, <2>5, Zenon
<1>9. ASSUME NEW d \in Clients, UnlockSingleNode(d) \/ ReleaseSingleNode(d)
      PROVE  Cardinality(WonSet(c)') >= lockedNodes'[c]
  <2>1. pc[d] \in {"unlocking", "releasing"} /\ pc'[d] \notin {"locking", "decide", "holding"}
    BY <1>9, Zenon DEF UnlockSingleNode, ReleaseSingleNode, Loops, RedlockTypeOK
  <2>2. d # c
    BY <2>1, Zenon DEF Counting
  <2>3. Counting(c) /\ lockedNodes' = lockedNodes /\ elapsed' = elapsed
    BY <1>9, <2>2, Zenon DEF UnlockSingleNode, ReleaseSingleNode, Counting, Loops, RedlockTypeOK
  <2>4. PICK k \in LockNodes : k = at[d]
    BY <2>1, Zenon DEF Loops, Cursor
  <2>5. UnlockNode(d, k)
    BY <1>9, <2>4, Zenon DEF UnlockSingleNode, ReleaseSingleNode
  <2>6. WonSet(c) \subseteq WonSet(c)'
    <3>1. CASE value[k] = d
      BY <2>2, <2>3, <2>5, <3>1, Zenon DEF UnlockNode, WonSet, Loops, RedlockTypeOK
    <3>2. CASE value[k] # d
      BY <2>3, <2>5, <3>2, Zenon DEF UnlockNode, WonSet
    <3>3. QED BY <3>1, <3>2, Zenon
  <2>7. QED BY <1>4, <2>3, <2>6, Zenon
<1>10. CASE RedlockTick
  <2>1. /\ pc' = pc /\ value' = value /\ lockedNodes' = lockedNodes
        /\ pc[c] \in {"locking", "decide", "holding"}
        /\ elapsed'[c] = OlderEntry(elapsed[c])
        /\ \A k \in LockNodes : value[k] # NoEntry => age'[k] = OlderEntry(age[k])
    BY <1>10, Zenon DEF RedlockTick, Counting, Loops, RedlockTypeOK
  <2>2. Counting(c)
    BY <2>1, TimeAssumption, Zenon DEF Counting, OlderEntry, Loops, RedlockTypeOK
  <2>3. WonSet(c) \subseteq WonSet(c)'
    BY <2>1, <2>2, TimeAssumption, ClientAssumption
    DEF WonSet, OlderEntry, Counting, Loops, RedlockTypeOK
  <2>4. QED BY <1>4, <2>1, <2>2, <2>3, Zenon
<1>11. CASE UNCHANGED redlockVars
  BY <1>4, <1>11, Zenon DEF redlockVars, Counting, WonSet
<1>12. QED
  BY <1>5, <1>6, <1>7, <1>8, <1>9, <1>10, <1>11, Zenon DEF RedlockNext, ClientStep

LEMMA RedlockInvStep == RedlockInv /\ [RedlockNext]_redlockVars => RedlockInv'
<1>1. RedlockInv <=> Loops /\ WonNodesKept
  BY Zenon DEF RedlockInv, Loops
<1>2. RedlockInv' <=> Loops' /\ WonNodesKept'
  BY Zenon DEF RedlockInv, Loops
<1>3. QED BY <1>1, <1>2, LoopStep, WonStep, Zenon

\* Two majorities of the nodes meet, and the node in which they meet has one entry.
LEMMA OneHolder == RedlockInv => RedlockExclusion
<1> SUFFICES ASSUME RedlockInv, NEW c \in Clients, NEW d \in Clients, HoldsMajority(c), HoldsMajority(d)
             PROVE  c = d
  BY Zenon DEF RedlockExclusion
<1>1. ASSUME NEW e \in Clients, HoldsMajority(e)
      PROVE  Cardinality(WonSet(e)) >= quorum
  <2>1. Counting(e) /\ lockedNodes[e] >= quorum
    BY <1>1, TimeAssumption DEF RedlockInv, Cursor, HoldsMajority, Counting, RedlockTypeOK
  <2>2. Cardinality(WonSet(e)) >= lockedNodes[e]
    BY <2>1, Zenon DEF RedlockInv, WonNodesKept, WonSet, Counting
  <2>3. Cardinality(WonSet(e)) \in Nat /\ lockedNodes[e] \in Nat /\ quorum \in Nat
    BY WonSetFinite, NAssumption DEF WonSet, RedlockInv, RedlockTypeOK, quorum
  <2>4. QED BY <2>1, <2>2, <2>3
<1>2. IsFiniteSet(LockNodes) /\ Cardinality(LockNodes) = N
  BY NAssumption, FS_Interval DEF LockNodes
<1>3. /\ WonSet(c) \in SUBSET LockNodes /\ WonSet(d) \in SUBSET LockNodes
      /\ Cardinality(WonSet(c)) \in Nat /\ Cardinality(WonSet(d)) \in Nat
  BY WonSetFinite, Zenon DEF WonSet
<1>4. Cardinality(WonSet(c)) + Cardinality(WonSet(d)) > N
  <2>1. Cardinality(WonSet(c)) >= quorum /\ Cardinality(WonSet(d)) >= quorum
    BY <1>1, Zenon
  <2>2. QED BY <1>3, <2>1, NAssumption DEF quorum
<1>5. WonSet(c) \cap WonSet(d) # {}
  BY <1>2, <1>3, <1>4, FS_MajoritiesIntersect, Zenon
<1>6. QED BY <1>5, Zenon DEF WonSet

\* For any number of nodes and clients, any TTL and drift and any interleaving of the calls to
\* the nodes: one holder at most, a holder's majority stays its own, and a client that gave up
\* or released leaves no entry.
THEOREM RedlockSafe == RedlockSpec => []RedlockSafety
<1>1. RedlockInv => RedlockSafety
  BY OneHolder, Zenon DEF RedlockInv, Swept, RedlockSafety, NothingLeftBehind
<1>2. QED
  BY <1>1, RedlockInvInit, RedlockInvStep, PTL DEF RedlockSpec
-----------------------------------------------------------------------------
\* Only the decision after the locking loop gives a right, and then nobody else has one.
LEMMA RedlockRightStep ==
    RedlockInv /\ RedlockInv' /\ [RedlockNext]_redlockVars
        => [RedlockRight!Next]_([r \in {"distributed_resource"} |-> {c \in Clients : HoldsMajority(c)}])
<1> DEFINE own == [r \in {"distributed_resource"} |-> {c \in Clients : HoldsMajority(c)}]
<1> SUFFICES ASSUME RedlockInv, RedlockInv', [RedlockNext]_redlockVars
             PROVE  RedlockRight!Next \/ own' = own
  BY Zenon
<1>1. ASSUME \A c \in Clients : HoldsMajority(c)' => HoldsMajority(c)
      PROVE  RedlockRight!Next
  BY <1>1, Zenon DEF RedlockRight!Next, RedlockRight!Lose
<1>2. ASSUME NEW c \in Clients, Decide(c)
      PROVE  RedlockRight!Next
  <2>1. ASSUME NEW d \in Clients, d # c
        PROVE  HoldsMajority(d)' <=> HoldsMajority(d)
    BY <1>2, <2>1, Zenon DEF Decide, HoldsMajority, RedlockInv, RedlockTypeOK
  <2>2. CASE HoldsMajority(c)'
    <3>1. \A d \in Clients : HoldsMajority(d)' => d = c
      <4>1. RedlockExclusion'
        BY OneHolder, PTL
      <4>2. QED BY <2>2, <4>1, Zenon DEF RedlockExclusion
    <3>2. \A d \in Clients : HoldsMajority(d) => d = c
      BY <2>1, <3>1, Zenon
    <3>3. own' = [own EXCEPT !["distributed_resource"] = {c}]
      BY <2>2, <3>1, Zenon
    <3>4. RedlockRight!Grant(c, "distributed_resource")
      BY <3>2, <3>3, Zenon DEF RedlockRight!Grant
    <3>5. QED BY <3>4, Zenon DEF RedlockRight!Next
  <2>3. CASE ~HoldsMajority(c)'
    BY <1>1, <2>1, <2>3, Zenon
  <2>4. QED BY <2>2, <2>3, Zenon
<1> HIDE DEF own
<1>3. ASSUME NEW c \in Clients,
             StartAttempt(c) \/ GiveUp(c) \/ LockSingleNode(c) \/ StartRelease(c)
      PROVE  RedlockRight!Next
  <2>1. \A d \in Clients : HoldsMajority(d)' => HoldsMajority(d)
    BY <1>3, Zenon
    DEF StartAttempt, GiveUp, LockSingleNode, StartRelease, HoldsMajority, RedlockInv, RedlockTypeOK
  <2>2. QED BY <1>1, <2>1, Zenon
<1>4. ASSUME NEW c \in Clients, UnlockSingleNode(c) \/ ReleaseSingleNode(c)
      PROVE  RedlockRight!Next
  <2>1. \A d \in Clients : HoldsMajority(d)' => HoldsMajority(d)
    BY <1>4, Zenon DEF UnlockSingleNode, ReleaseSingleNode, HoldsMajority, RedlockInv, RedlockTypeOK
  <2>2. QED BY <1>1, <2>1, Zenon
<1>5. CASE RedlockTick
  <2>1. \A d \in Clients : HoldsMajority(d)' => HoldsMajority(d)
    <3>1. elapsed \in [Clients -> 0 .. TTL]
      BY Zenon DEF RedlockInv, RedlockTypeOK
    <3>2. QED BY <1>5, <3>1, TimeAssumption DEF RedlockTick, OlderEntry, HoldsMajority
  <2>2. QED BY <1>1, <2>1, Zenon
<1>6. CASE UNCHANGED redlockVars
  <2>1. \A d \in Clients : HoldsMajority(d)' => HoldsMajority(d)
    BY <1>6, Zenon DEF redlockVars, HoldsMajority
  <2>2. QED BY <1>1, <2>1, Zenon
<1>7. QED
  BY <1>2, <1>3, <1>4, <1>5, <1>6, Zenon DEF RedlockNext, ClientStep

\* Redlock implements the abstract exclusive right for any instance.
THEOREM RedlockImplementsRight == RedlockSpec => RedlockIsExclusiveRight
<1>1. RedlockInit => RedlockRight!Init
  BY Zenon DEF RedlockInit, RedlockRight!Init, HoldsMajority
<1>2. QED
  BY <1>1, RedlockInvInit, RedlockInvStep, RedlockRightStep, PTL
  DEF RedlockSpec, RedlockIsExclusiveRight, RedlockRight!Spec
=============================================================================
