------------------------------- MODULE Redlock -------------------------------
(***************************************************************************)
(* solution2_RedlockAlgorithm of solutions/challenge09_solution.go: clients *)
(* that lock a majority of N independent nodes one after the other, each    *)
(* node under its own mutex, with bounded retries and a validity time.      *)
(*                                                                         *)
(* One call of lockSingleNode or unlockSingleNode is one action; the loops  *)
(* of acquireRedlock and releaseRedlock are the cursor `at'. Timestamps are *)
(* represented by ages that saturate at TTL, as only time.Since reads them. *)
(***************************************************************************)
EXTENDS Integers, FiniteSets

CONSTANTS
    N,         \* number of lock nodes (nodeCount)
    Clients,   \* one goroutine each; its value is unique
    TTL,       \* ttl passed to acquireRedlock
    Drift,     \* redlock.drift
    Retries,   \* redlock.retries
    NoEntry    \* no entry at a node

ASSUME NAssumption == N \in Nat \ {0}
ASSUME TimeAssumption == TTL \in Nat \ {0} /\ Drift \in 0 .. TTL
ASSUME RetriesAssumption == Retries \in Nat \ {0}
ASSUME ClientAssumption == NoEntry \notin Clients

VARIABLES
    value,        \* node -> the client whose entry it stores, or NoEntry
    age,          \* node -> time since that entry's timestamp
    pc,           \* client -> where its goroutine is
    at,           \* client -> next node of the loop it is in
    lockedNodes,  \* client -> nodes won in this attempt
    retry,        \* client -> attempt number
    elapsed       \* client -> time since startTime of this attempt

nodeVars == <<value, age>>
redlockVars == <<value, age, pc, at, lockedNodes, retry, elapsed>>

LockNodes == 1 .. N

\* Faulty quorum: half of the nodes is taken for a majority.
quorumHalf == (N + 1) \div 2 - (N % 2)

quorum == (N \div 2) + 1

PCs == {"start", "locking", "decide", "unlocking", "holding", "releasing", "done"}

RedlockTypeOK ==
    /\ value \in [LockNodes -> Clients \cup {NoEntry}]
    /\ age \in [LockNodes -> 0 .. TTL]
    /\ pc \in [Clients -> PCs]
    /\ at \in [Clients -> 1 .. N + 1]
    /\ lockedNodes \in [Clients -> 0 .. N]
    /\ retry \in [Clients -> 0 .. Retries]
    /\ elapsed \in [Clients -> 0 .. TTL]

RedlockInit ==
    /\ value = [k \in LockNodes |-> NoEntry]
    /\ age = [k \in LockNodes |-> 0]
    /\ pc = [c \in Clients |-> "start"]
    /\ at = [c \in Clients |-> 1]
    /\ lockedNodes = [c \in Clients |-> 0]
    /\ retry = [c \in Clients |-> 0]
    /\ elapsed = [c \in Clients |-> 0]
-----------------------------------------------------------------------------
\* Faulty freshCount: the counter of won nodes survives a failed attempt.
freshCountKept(c) == lockedNodes[c]

\* lockedNodes := 0
freshCount(c) == 0

\* The head of the retry loop: startTime := now, lockedNodes := 0.
StartAttempt(c) ==
    /\ pc[c] = "start"
    /\ retry[c] < Retries
    /\ pc' = [pc EXCEPT ![c] = "locking"]
    /\ at' = [at EXCEPT ![c] = 1]
    /\ lockedNodes' = [lockedNodes EXCEPT ![c] = freshCount(c)]
    /\ elapsed' = [elapsed EXCEPT ![c] = 0]
    /\ UNCHANGED <<value, age, retry>>

\* After the last retry acquireRedlock returns (false, 0).
GiveUp(c) ==
    /\ pc[c] = "start"
    /\ ~(retry[c] < Retries)
    /\ pc' = [pc EXCEPT ![c] = "done"]
    /\ UNCHANGED <<value, age, at, lockedNodes, retry, elapsed>>

\* lockSingleNode refuses a node with an unexpired entry, its own included.
Free(k) == value[k] = NoEntry \/ ~(age[k] < TTL)

\* One iteration of the locking loop.
LockSingleNode(c) ==
    LET k == at[c] IN
    /\ pc[c] = "locking"
    /\ value' = IF Free(k) THEN [value EXCEPT ![k] = c] ELSE value
    /\ age' = IF Free(k) THEN [age EXCEPT ![k] = 0] ELSE age
    /\ lockedNodes' = [lockedNodes EXCEPT ![c] = IF Free(k) THEN @ + 1 ELSE @]
    /\ at' = [at EXCEPT ![c] = k + 1]
    /\ pc' = [pc EXCEPT ![c] = IF k = N THEN "decide" ELSE "locking"]
    /\ UNCHANGED <<retry, elapsed>>

\* lockedNodes >= quorum && ttl - elapsed - drift > 0
Won(c) == lockedNodes[c] >= quorum /\ TTL - elapsed[c] - Drift > 0

\* The test after the loop: hold the lock, or unlock every node again.
Decide(c) ==
    /\ pc[c] = "decide"
    /\ pc' = [pc EXCEPT ![c] = IF Won(c) THEN "holding" ELSE "unlocking"]
    /\ at' = [at EXCEPT ![c] = 1]
    /\ UNCHANGED <<value, age, lockedNodes, retry, elapsed>>

\* The critical section ends; releaseRedlock starts.
StartRelease(c) ==
    /\ pc[c] = "holding"
    /\ pc' = [pc EXCEPT ![c] = "releasing"]
    /\ UNCHANGED <<value, age, at, lockedNodes, retry, elapsed>>

\* The unlocking loops visit every node.
LastNode(k) == k = N

\* Faulty nextRetry: a failed attempt is not counted.
nextRetryUncounted(n) == n

\* retry++
nextRetry(n) == n + 1

\* unlockSingleNode deletes the entry only if its value is the caller's.
UnlockNode(c, k) ==
    /\ value' = IF value[k] = c THEN [value EXCEPT ![k] = NoEntry] ELSE value
    /\ age' = IF value[k] = c THEN [age EXCEPT ![k] = 0] ELSE age

\* One iteration of the unlocking loop after a failed attempt; after the last node
\* the next attempt begins.
UnlockSingleNode(c) ==
    LET k == at[c] IN
    /\ pc[c] = "unlocking"
    /\ UnlockNode(c, k)
    /\ at' = [at EXCEPT ![c] = k + 1]
    /\ pc' = [pc EXCEPT ![c] = IF LastNode(k) THEN "start" ELSE @]
    /\ retry' = [retry EXCEPT ![c] = IF LastNode(k) THEN nextRetry(@) ELSE @]
    /\ UNCHANGED <<lockedNodes, elapsed>>

\* One iteration of releaseRedlock; after the last node the goroutine ends.
ReleaseSingleNode(c) ==
    LET k == at[c] IN
    /\ pc[c] = "releasing"
    /\ UnlockNode(c, k)
    /\ at' = [at EXCEPT ![c] = k + 1]
    /\ pc' = [pc EXCEPT ![c] = IF LastNode(k) THEN "done" ELSE @]
    /\ UNCHANGED <<lockedNodes, retry, elapsed>>

OlderEntry(a) == IF a < TTL THEN a + 1 ELSE a

\* Environment: time passes for the entries and for the running attempts.
RedlockTick ==
    /\ age' = [k \in LockNodes |-> IF value[k] = NoEntry THEN age[k] ELSE OlderEntry(age[k])]
    /\ elapsed' = [c \in Clients |->
                      IF pc[c] \in {"locking", "decide", "holding"}
                      THEN OlderEntry(elapsed[c]) ELSE elapsed[c]]
    /\ UNCHANGED <<value, pc, at, lockedNodes, retry>>

ClientStep(c) ==
    \/ StartAttempt(c)
    \/ GiveUp(c)
    \/ LockSingleNode(c)
    \/ Decide(c)
    \/ StartRelease(c)
    \/ UnlockSingleNode(c)
    \/ ReleaseSingleNode(c)

RedlockNext == RedlockTick \/ \E c \in Clients : ClientStep(c)

RedlockSpec == RedlockInit /\ [][RedlockNext]_redlockVars

\* The Go scheduler runs every goroutine that can run.
RedlockFairSpec == RedlockSpec /\ \A c \in Clients : WF_redlockVars(ClientStep(c))
-----------------------------------------------------------------------------
\* The client is in its critical section and within the validity it was returned.
HoldsMajority(c) == pc[c] = "holding" /\ TTL - elapsed[c] - Drift > 0

\* Two clients are never both in the critical section within their validity,
\* however their per-node calls interleave and whatever time passes in between.
RedlockExclusion == \A c, d \in Clients : HoldsMajority(c) /\ HoldsMajority(d) => c = d

\* Why: a client that won nodes still has them while its attempt is younger than
\* the TTL, so a holder has a majority and majorities meet.
WonNodesKept ==
    \A c \in Clients :
        (pc[c] \in {"locking", "decide", "holding"} /\ elapsed[c] < TTL)
        => Cardinality({k \in LockNodes : value[k] = c /\ age[k] <= elapsed[c]})
               >= lockedNodes[c]

\* A goroutine that has given up or released leaves no entry of its own on any node,
\* though other clients were locking and unlocking in between.
NothingLeftBehind ==
    \A c \in Clients : pc[c] \in {"start", "done"} => \A k \in LockNodes : value[k] # c

\* Exclusion, the reason for it, and cleanliness, all together.
RedlockSafety == RedlockTypeOK /\ RedlockExclusion /\ WonNodesKept /\ NothingLeftBehind

RedlockRight == INSTANCE ExclusiveRight WITH
    Resources <- {"distributed_resource"},
    owners <- [r \in {"distributed_resource"} |-> {c \in Clients : HoldsMajority(c)}]

\* Redlock implements ExclusiveRight for its one resource.
RedlockIsExclusiveRight == RedlockRight!Spec
=============================================================================
