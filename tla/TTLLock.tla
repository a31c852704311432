------------------------------- MODULE TTLLock -------------------------------
(***************************************************************************)
(* solution1_TTLWithFencingToken of solutions/challenge09_solution.go: a   *)
(* lock table with a time to live and a fencing token per entry, a cleanup *)
(* goroutine, and the nodes that acquire, extend and release.              *)
(*                                                                         *)
(* The code compares timestamps only through time.Since, so an entry holds *)
(* its age instead of its timestamp: `timestamp = time.Now()' is age 0 and *)
(* Tick makes everything one unit older, saturating above every TTL.       *)
(* Every call runs under dl.mu and is one action.                          *)
(***************************************************************************)
EXTENDS Integers

CONSTANTS
    Nodes,       \* the callers' nodeIDs
    Resources,   \* the keys of dl.locks
    TTLs,        \* the TTLs callers pass
    MaxAge,      \* ages saturate here
    MaxToken,    \* bound: tokens handed out in one behaviour
    None         \* no holder: the key is not in dl.locks

ASSUME NoneAssumption == None \notin Nodes
ASSUME TTLAssumption  == TTLs \subseteq Nat
ASSUME AgeAssumption  == MaxAge \in Nat /\ \A t \in TTLs : t < MaxAge
ASSUME TokenAssumption == MaxToken \in Nat

VARIABLES
    locks,         \* dl.locks: resource -> LockInfo, holder None if absent
    fencingToken,  \* dl.fencingToken
    node           \* each node's goroutine: pc, the lock it asked for, its token,
                   \* and how long ago (age) it last got or extended it, for ttl

vars == <<locks, fencingToken, node>>

Ages == 0 .. MaxAge

LockInfo == [holder : Nodes \cup {None}, age : Ages, ttl : Nat, token : Nat]

NodeState == [pc : {"idle", "acquired", "extended", "crashed"},
              resource : Resources \cup {None}, age : Ages,
              ttl : Nat, token : Nat]

Lock(h, a, ttl, t) == [holder |-> h, age |-> a, ttl |-> ttl, token |-> t]

NoLock == Lock(None, 0, 0, 0)

State(p, r, a, ttl, t) ==
    [pc |-> p, resource |-> r, age |-> a, ttl |-> ttl, token |-> t]

Idle == State("idle", None, 0, 0, 0)

\* The node is between a successful acquire and its release.
Active(n) == node[n].pc \in {"acquired", "extended"}

TypeOK ==
    /\ locks \in [Resources -> LockInfo]
    /\ fencingToken \in Nat
    /\ node \in [Nodes -> NodeState]
    /\ \A n \in Nodes : Active(n) => node[n].resource \in Resources

Init ==
    /\ locks = [r \in Resources |-> NoLock]
    /\ fencingToken = 0
    /\ node = [n \in Nodes |-> Idle]
-----------------------------------------------------------------------------
Exists(r) == locks[r].holder # None

\* Faulty Unexpired: `time.Since(lock.timestamp) < lock.ttl' off by more
\* than its boundary: the last unit of the TTL is already treated as expired.
UnexpiredEarly(l) == l.age + 1 < l.ttl

\* acquire's TTL check.
Unexpired(l) == l.age < l.ttl

\* Faulty CleanupDue: the loop never finds an entry due.
CleanupDueNever(l) == l.age > l.ttl + MaxAge

\* The cleanup loop's check; at age = ttl an entry is neither unexpired nor due.
CleanupDue(l) == l.age > l.ttl

\* The node holds what acquire or extend returned.
Obtained(n, r, ttl, token, pc) ==
    node' = [node EXCEPT ![n] = State(pc, r, 0, ttl, token)]

\* Faulty NewToken: a fresh entry reuses the last token.
NewTokenReused == IF fencingToken = 0 THEN 1 ELSE fencingToken

\* Faulty NewToken: the counter is decremented, leaving its unsigned range.
NewTokenNegative == fencingToken - 1

\* dl.fencingToken.Add(1)
NewToken == fencingToken + 1

\* acquire, same node again while its entry is unexpired: the entry is renewed
\* and its token returned. A node gets here after a crash and a restart.
AcquireReentrant(n, r, ttl) ==
    /\ node[n].pc = "idle"
    /\ Exists(r) /\ Unexpired(locks[r]) /\ locks[r].holder = n
    /\ locks' = [locks EXCEPT ![r] = Lock(n, 0, ttl, locks[r].token)]
    /\ Obtained(n, r, ttl, locks[r].token, "acquired")
    /\ UNCHANGED fencingToken

\* acquire of an absent or expired entry: a new entry with the next token.
AcquireNew(n, r, ttl) ==
    /\ node[n].pc = "idle"
    /\ ~(Exists(r) /\ Unexpired(locks[r]))
    /\ fencingToken < MaxToken
    /\ fencingToken' = NewToken
    /\ locks' = [locks EXCEPT ![r] = Lock(n, 0, ttl, NewToken)]
    /\ Obtained(n, r, ttl, NewToken, "acquired")

\* acquire while another node's entry is unexpired returns (0, false): no change.

\* Faulty OwnEntry: the owner check of release and extend is dropped.
OwnEntryUnchecked(n, r) == Exists(r)

\* release's and extend's check: the entry exists, and holder and token match.
OwnEntry(n, r) ==
    /\ Exists(r)
    /\ locks[r].holder = n
    /\ locks[r].token = node[n].token

\* extend: works on any entry that is still in the table, expired or not. When it
\* fails the node goes on to release all the same.
Extend(n, ttl) ==
    LET r == node[n].resource IN
    /\ node[n].pc = "acquired"
    /\ UNCHANGED fencingToken
    /\ \/ /\ OwnEntry(n, r)
          /\ locks' = [locks EXCEPT ![r] = Lock(n, 0, ttl, locks[r].token)]
          /\ Obtained(n, r, ttl, node[n].token, "extended")
       \/ /\ ~OwnEntry(n, r)
          /\ node' = [node EXCEPT ![n] = State("extended", r, node[n].age, node[n].ttl, node[n].token)]
          /\ UNCHANGED locks

\* release: only an entry with this holder and token is deleted; the node is done
\* with the lock whatever release returns.
Release(n) ==
    LET r == node[n].resource IN
    /\ node[n].pc = "extended"
    /\ locks' = IF OwnEntry(n, r) THEN [locks EXCEPT ![r] = NoLock] ELSE locks
    /\ node' = [node EXCEPT ![n] = Idle]
    /\ UNCHANGED fencingToken

\* One tick of the cleanup goroutine: every due entry goes, under dl.mu.
Cleanup ==
    /\ \E r \in Resources : Exists(r) /\ CleanupDue(locks[r])
    /\ locks' = [r \in Resources |->
                    IF Exists(r) /\ CleanupDue(locks[r]) THEN NoLock ELSE locks[r]]
    /\ UNCHANGED <<fencingToken, node>>

Older(age) == IF age < MaxAge THEN age + 1 ELSE age

OlderLock(l) == Lock(l.holder, Older(l.age), l.ttl, l.token)

OlderState(s) == State(s.pc, s.resource, Older(s.age), s.ttl, s.token)

\* Environment: time passes.
Tick ==
    /\ locks' = [r \in Resources |-> IF Exists(r) THEN OlderLock(locks[r]) ELSE locks[r]]
    /\ node' = [n \in Nodes |-> IF Active(n) THEN OlderState(node[n]) ELSE node[n]]
    /\ UNCHANGED fencingToken

\* Environment: a node dies while it holds the lock and never releases it ...
Crash(n) ==
    /\ Active(n)
    /\ node' = [node EXCEPT ![n] = State("crashed", None, 0, 0, 0)]
    /\ UNCHANGED <<locks, fencingToken>>

\* ... and comes back under the same nodeID, remembering nothing.
Restart(n) ==
    /\ node[n].pc = "crashed"
    /\ node' = [node EXCEPT ![n] = Idle]
    /\ UNCHANGED <<locks, fencingToken>>

NodeStep(n) ==
    \/ \E r \in Resources, ttl \in TTLs : AcquireReentrant(n, r, ttl)
    \/ \E r \in Resources, ttl \in TTLs : AcquireNew(n, r, ttl)
    \/ \E ttl \in TTLs : Extend(n, ttl)
    \/ Release(n)
    \/ Crash(n)
    \/ Restart(n)

Next == Cleanup \/ Tick \/ \E n \in Nodes : NodeStep(n)

Spec == Init /\ [][Next]_vars

\* The ticker of the cleanup goroutine keeps firing and time keeps passing; no
\* node is assumed to do anything.
FairSpec == Spec /\ WF_vars(Cleanup) /\ WF_vars(Tick)
-----------------------------------------------------------------------------
\* The node got or extended the lock less than its TTL ago.
Believes(n, r) ==
    /\ Active(n)
    /\ node[n].resource = r
    /\ node[n].age < node[n].ttl

\* No two nodes are within the TTL of the same resource, whatever the order of
\* acquire, extend, release, cleanup, crashes and restarts.
MutualExclusion ==
    \A r \in Resources : \A n, m \in Nodes :
        Believes(n, r) /\ Believes(m, r) => n = m

\* What makes the fencing token worth checking downstream: of two nodes that both
\* still act on a resource, the one that no longer owns the entry has the strictly
\* smaller token, so a store that has seen the newer token can refuse the older.
StaleTokenIsSmaller ==
    \A n \in Nodes : \A r \in Resources :
        (/\ Active(n)
         /\ node[n].resource = r
         /\ Exists(r)
         /\ locks[r].holder # n)
        => node[n].token < locks[r].token

\* The inductive strengthening of MutualExclusion: a node that believes it has the
\* lock owns the entry, and the two agree on the age and the TTL.
BelieverOwnsEntry ==
    \A n \in Nodes : \A r \in Resources :
        Believes(n, r) =>
            /\ locks[r].holder = n
            /\ locks[r].token = node[n].token
            /\ locks[r].age = node[n].age
            /\ locks[r].ttl = node[n].ttl

\* The inductive strengthening of StaleTokenIsSmaller: no token is ahead of the counter.
TokensIssued ==
    /\ \A n \in Nodes : node[n].token <= fencingToken
    /\ \A r \in Resources : locks[r].token <= fencingToken

\* A lock whose holder has crashed does not stay: it expires and is cleaned up or
\* taken over, unless the node comes back.
CrashedLockFreed ==
    \A n \in Nodes : \A r \in Resources :
        (node[n].pc = "crashed" /\ locks[r].holder = n)
        ~> (node[n].pc # "crashed" \/ locks[r].holder # n)

Right == INSTANCE ExclusiveRight WITH
    Clients <- Nodes,
    owners <- [r \in Resources |-> {n \in Nodes : Believes(n, r)}]

\* The TTL lock implements ExclusiveRight.
ImplementsExclusiveRight == Right!Spec
=============================================================================
