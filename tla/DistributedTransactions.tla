----------------------- MODULE DistributedTransactions -----------------------
(***************************************************************************)
(* challenges/challenge31_distributed_transaction.go: the two transactions *)
(* of the demonstration over replicated participants, the partition that   *)
(* meets them, and the lock manager. Amounts are in units of 50.           *)
(***************************************************************************)
EXTENDS Integers, FiniteSets, Sequences

CONSTANTS
    Participants,   \* node1, node2, ...
    MaxLockCalls    \* calls of AcquireLock and ReleaseLocks

VARIABLES
    available,      \* participants that are not partitioned
    Data,           \* participant -> account -> balance
    prepState,      \* participant -> its State
    step,           \* transaction -> next operation of its program, 1 at BeginTransaction
    TxnState,
    WriteSet,       \* transaction -> account -> value, or Unset
    toAsk,          \* transaction -> participants that the current loop has still to visit
    asked,          \* transaction -> participants whose goroutine has not ended
    refused,        \* transaction -> a participant failed to prepare
    beside,         \* the two transactions were open at once
    locks,          \* resource -> {<<transaction, type>>}
    lockCalls

txnVars ==
    <<available, Data, prepState, step, TxnState, WriteSet, toAsk, asked, refused, beside,
      locks, lockCalls>>

Txns == {1, 2}

Accounts == {"alice", "bob"}

Resources == {"A", "B"}

Unset == -100

\* Transaction 1 moves 2 units from Alice to Bob, transaction 2 takes 1 unit from Alice.
Program(t) == IF t = 1 THEN <<[key |-> "alice", add |-> -2], [key |-> "bob", add |-> 2]>>
              ELSE <<[key |-> "alice", add |-> -1]>>

Initial == 20

TxnInit ==
    /\ available = Participants
    /\ Data = [p \in Participants |-> [a \in Accounts |-> Initial]]
    /\ prepState = [p \in Participants |-> "init"]
    /\ step = [t \in Txns |-> 0]
    /\ TxnState = [t \in Txns |-> "init"]
    /\ WriteSet = [t \in Txns |-> [a \in Accounts |-> Unset]]
    /\ toAsk = [t \in Txns |-> {}] /\ asked = [t \in Txns |-> {}]
    /\ refused = [t \in Txns |-> FALSE]
    /\ beside = FALSE
    /\ locks = [r \in Resources |-> {}] /\ lockCalls = 0

Open(t) == TxnState[t] # "init" /\ step[t] # -1

NotLocks == UNCHANGED <<locks, lockCalls>>

BeginTransaction(t) ==
    /\ TxnState[t] = "init"
    /\ TxnState' = [TxnState EXCEPT ![t] = "active"]
    /\ step' = [step EXCEPT ![t] = 1]
    /\ beside' = (beside \/ \E u \in Txns : Open(u))
    /\ UNCHANGED <<available, Data, prepState, WriteSet, toAsk, asked, refused>> /\ NotLocks

\* The own write set first, then any participant that answers; the map is in no order.
ReadFrom(t, k) ==
    IF WriteSet[t][k] # Unset THEN {WriteSet[t][k]} ELSE {Data[p][k] : p \in available}

\* Read an account, then Write the new balance into the write set.
ReadWrite(t) ==
    /\ TxnState[t] = "active" /\ step[t] <= Len(Program(t))
    /\ LET op == Program(t)[step[t]]
       IN \E v \in ReadFrom(t, op.key) :
            WriteSet' = [WriteSet EXCEPT ![t][op.key] = v + op.add]
    /\ step' = [step EXCEPT ![t] = @ + 1]
    /\ UNCHANGED <<available, Data, prepState, TxnState, toAsk, asked, refused, beside>> /\ NotLocks

\* Commit, up to the loop of prepare.
Prepare(t) ==
    /\ TxnState[t] = "active" /\ step[t] > Len(Program(t))
    /\ TxnState' = [TxnState EXCEPT ![t] = "preparing"]
    /\ toAsk' = [toAsk EXCEPT ![t] = Participants]
    /\ UNCHANGED <<available, Data, prepState, step, WriteSet, asked, refused, beside>> /\ NotLocks

\* A participant that is partitioned is passed over.
AskToPrepare(t, p) ==
    /\ TxnState[t] = "preparing" /\ p \in toAsk[t]
    /\ toAsk' = [toAsk EXCEPT ![t] = @ \ {p}]
    /\ asked' = IF p \in available THEN [asked EXCEPT ![t] = @ \cup {p}] ELSE asked
    /\ UNCHANGED <<available, Data, prepState, step, TxnState, WriteSet, refused, beside>> /\ NotLocks

Prepares(t, p) ==
    /\ TxnState[t] = "preparing" /\ p \in asked[t]
    /\ asked' = [asked EXCEPT ![t] = @ \ {p}]
    /\ \/ prepState' = [prepState EXCEPT ![p] = "prepared"] /\ UNCHANGED refused
       \/ refused' = [refused EXCEPT ![t] = TRUE] /\ UNCHANGED prepState
    /\ UNCHANGED <<available, Data, step, TxnState, WriteSet, toAsk, beside>> /\ NotLocks

AllAnswered(t) == toAsk[t] = {} /\ asked[t] = {}

\* Faulty: the errors of the participants are not looked at.
PreparedAnyhow(t) ==
    /\ TxnState[t] = "preparing" /\ AllAnswered(t)
    /\ TxnState' = [TxnState EXCEPT ![t] = "committing"]
    /\ asked' = [asked EXCEPT ![t] = Participants]
    /\ UNCHANGED <<available, Data, prepState, step, WriteSet, toAsk, refused, beside>> /\ NotLocks

\* doCommit goes to every participant, asked before or not.
Prepared(t) ==
    /\ TxnState[t] = "preparing" /\ AllAnswered(t) /\ ~refused[t]
    /\ TxnState' = [TxnState EXCEPT ![t] = "committing"]
    /\ asked' = [asked EXCEPT ![t] = Participants]
    /\ UNCHANGED <<available, Data, prepState, step, WriteSet, toAsk, refused, beside>> /\ NotLocks

\* Commit returns the error; nobody is told to abort, and the state stays.
PrepareFailed(t) ==
    /\ TxnState[t] = "preparing" /\ AllAnswered(t) /\ refused[t] /\ step[t] # -1
    /\ step' = [step EXCEPT ![t] = -1]
    /\ UNCHANGED <<available, Data, prepState, TxnState, WriteSet, toAsk, asked, refused, beside>> /\ NotLocks

Written(t, row) == [a \in Accounts |-> IF WriteSet[t][a] # Unset THEN WriteSet[t][a] ELSE row[a]]

\* Faulty: a participant that is partitioned misses the commit.
ApplyIfAvailable(t, p) ==
    /\ TxnState[t] = "committing" /\ p \in asked[t]
    /\ asked' = [asked EXCEPT ![t] = @ \ {p}]
    /\ Data' = IF p \in available THEN [Data EXCEPT ![p] = Written(t, @)] ELSE Data
    /\ prepState' = [prepState EXCEPT ![p] = "committed"]
    /\ UNCHANGED <<available, step, TxnState, WriteSet, toAsk, refused, beside>> /\ NotLocks

\* The whole write set under the lock of the participant.
ApplyWriteSet(t, p) ==
    /\ TxnState[t] = "committing" /\ p \in asked[t]
    /\ asked' = [asked EXCEPT ![t] = @ \ {p}]
    /\ Data' = [Data EXCEPT ![p] = Written(t, @)]
    /\ prepState' = [prepState EXCEPT ![p] = "committed"]
    /\ UNCHANGED <<available, step, TxnState, WriteSet, toAsk, refused, beside>> /\ NotLocks

CommitReturns(t) ==
    /\ TxnState[t] = "committing" /\ asked[t] = {}
    /\ TxnState' = [TxnState EXCEPT ![t] = "committed"]
    /\ step' = [step EXCEPT ![t] = -1]
    /\ UNCHANGED <<available, Data, prepState, WriteSet, toAsk, asked, refused, beside>> /\ NotLocks

SimulatePartition(p) ==
    /\ available = Participants
    /\ available' = available \ {p}
    /\ UNCHANGED <<Data, prepState, step, TxnState, WriteSet, toAsk, asked, refused, beside>> /\ NotLocks

NotTxns ==
    UNCHANGED <<available, Data, prepState, step, TxnState, WriteSet, toAsk, asked, refused, beside>>

\* Faulty: shared locks of others do not stand in the way.
ConflictExclusive(t, r, type) == \E l \in locks[r] : l[1] # t /\ l[2] = "exclusive"

Conflict(t, r, type) == \E l \in locks[r] : l[1] # t /\ (l[2] = "exclusive" \/ type = "exclusive")

\* Refused at once on a conflict: nobody waits. Beginning and committing never call it.
AcquireLock(t, r, type) ==
    /\ lockCalls < MaxLockCalls
    /\ lockCalls' = lockCalls + 1
    /\ locks' = IF Conflict(t, r, type) THEN locks ELSE [locks EXCEPT ![r] = @ \cup {<<t, type>>}]
    /\ NotTxns

ReleaseLocks(t) ==
    /\ lockCalls < MaxLockCalls
    /\ lockCalls' = lockCalls + 1
    /\ locks' = [r \in Resources |-> {l \in locks[r] : l[1] # t}]
    /\ NotTxns

\* The demonstration locks after both transactions have returned.
LockTime == \A t \in Txns : step[t] = -1

TxnRuns(t) ==
    \/ ReadWrite(t) \/ Prepare(t) \/ Prepared(t) \/ PrepareFailed(t) \/ CommitReturns(t)
    \/ \E p \in Participants : AskToPrepare(t, p) \/ Prepares(t, p) \/ ApplyWriteSet(t, p)

TxnNext ==
    \/ \E t \in Txns : BeginTransaction(t) \/ TxnRuns(t)
    \/ \E p \in Participants : SimulatePartition(p)
    \/ LockTime /\ \E t \in Txns : ReleaseLocks(t) \/ \E r \in Resources, type \in {"shared", "exclusive"} : AcquireLock(t, r, type)
-----------------------------------------------------------------------------
Total(t, a) == LET ops == {i \in 1..Len(Program(t)) : Program(t)[i].key = a}
               IN IF ops = {} THEN 0 ELSE Program(t)[CHOOSE i \in ops : TRUE].add

Committed(t, a) == IF TxnState[t] = "committed" THEN Total(t, a) ELSE 0

Over == \A t \in Txns : ~Open(t)

\* When both transactions are over, one that returned an error has left no trace in the data,
\* and every participant, partitioned or not, has what the committed ones wrote; the
\* transactions that were open at once may have lost an update or left the participants
\* different, but only the account that both write. Nobody holds a lock against another's
\* exclusive lock.
TransactionsRight ==
    /\ Over => \A p \in Participants, a \in Accounts :
         \/ Data[p][a] = Initial + Committed(1, a) + Committed(2, a)
         \/ /\ beside /\ a = "alice" /\ \A t \in Txns : TxnState[t] = "committed"
            /\ \E u \in Txns : Data[p][a] = Initial + Total(u, a)
    /\ \A r \in Resources : \A l, m \in locks[r] : l[1] # m[1] => l[2] = "shared" /\ m[2] = "shared"

\* A transaction that has begun to commit returns.
CommitBegun == \E t \in Txns : TxnState[t] = "preparing" /\ Open(t)

CommitsOver == \A t \in Txns : TxnState[t] \in {"preparing", "committing"} => ~Open(t)
=============================================================================
