---------------------------- MODULE RetryConsumer ----------------------------
(***************************************************************************)
(* Consumption with retries in solutions/solution18_message_bus.go         *)
(* (FaultTolerantMessageBus): ConsumeWithRetry, consumePartition,          *)
(* processMessageWithTimeout and commitOffset, for one group and one       *)
(* partition that rebalances move between consumers.                       *)
(*                                                                         *)
(* ConsumeWithRetry works from a copy of the assignment, so two consumers  *)
(* may be at work on the partition at once. A message is its offset.       *)
(***************************************************************************)
EXTENDS Integers

CONSTANTS
    Readers,       \* the consumers of the group that read the partition
    maxRetries,
    MaxSent        \* bound: messages sent to the partition

ASSUME RetriesAssumption == maxRetries \in Nat \ {0}
ASSUME SentAssumption == MaxSent \in Nat

VARIABLES
    sent,      \* partition.Offset, the number of messages in the partition
    offset,    \* mb.offsetMgr.offsets[group][topic][partition]
    assigned,  \* the consumers group.Assignments gives the partition to (at most one)
    dlq,       \* offsets in mb.dlq.messages
    handled,   \* offsets for which the handler has returned nil at least once
    late,      \* offsets whose handler still runs after its timeout
    pc,        \* consumer -> where its ConsumeWithRetry is
    next,      \* consumer -> the offset it is at
    upto,      \* consumer -> the end of the batch it read
    retryCount

retryVars == <<sent, offset, assigned, dlq, handled, late, pc, next, upto, retryCount>>

Offsets == 0 .. MaxSent - 1

RetryTypeOK ==
    /\ sent \in 0 .. MaxSent
    /\ offset \in 0 .. MaxSent
    /\ assigned \in SUBSET Readers
    /\ dlq \in SUBSET Offsets
    /\ handled \in SUBSET Offsets
    /\ late \in SUBSET Offsets
    /\ pc \in [Readers -> {"idle", "assigned", "read", "process", "commit"}]
    /\ next \in [Readers -> 0 .. MaxSent]
    /\ upto \in [Readers -> 0 .. MaxSent]
    /\ retryCount \in [Readers -> 0 .. maxRetries - 1]

RetryInit ==
    /\ sent = 0
    /\ offset = 0
    /\ assigned = {}
    /\ dlq = {}
    /\ handled = {}
    /\ late = {}
    /\ pc = [c \in Readers |-> "idle"]
    /\ next = [c \in Readers |-> 0]
    /\ upto = [c \in Readers |-> 0]
    /\ retryCount = [c \in Readers |-> 0]
-----------------------------------------------------------------------------
\* Send appends to the partition under partition.mu.
Send ==
    /\ sent < MaxSent
    /\ sent' = sent + 1
    /\ UNCHANGED <<offset, assigned, dlq, handled, late, pc, next, upto, retryCount>>

\* A rebalance gives the partition to one consumer (module ConsumerGroups).
Reassign(c) ==
    /\ assigned' = {c}
    /\ UNCHANGED <<sent, offset, dlq, handled, late, pc, next, upto, retryCount>>

\* ConsumeWithRetry copies the assignments under group.mu.RLock.
ConsumeWithRetry(c) ==
    /\ pc[c] = "idle"
    /\ c \in assigned
    /\ pc' = [pc EXCEPT ![c] = "assigned"]
    /\ UNCHANGED <<sent, offset, assigned, dlq, handled, late, next, upto, retryCount>>

\* Faulty FirstOffset: the scan starts after the offset.
FirstOffsetPlusOne == IF offset < MaxSent THEN offset + 1 ELSE offset

\* The first offset the scan `msg.Offset >= lastOffset' lets through.
FirstOffset == offset

\* consumePartition reads lastOffset under offsetMgr.mu ...
ReadOffset(c) ==
    /\ pc[c] = "assigned"
    /\ next' = [next EXCEPT ![c] = FirstOffset]
    /\ pc' = [pc EXCEPT ![c] = "read"]
    /\ UNCHANGED <<sent, offset, assigned, dlq, handled, late, upto, retryCount>>

\* ... and then the messages from there on, under partition.mu.
ReadMessages(c) ==
    /\ pc[c] = "read"
    /\ upto' = [upto EXCEPT ![c] = sent]
    /\ retryCount' = [retryCount EXCEPT ![c] = 0]
    /\ pc' = [pc EXCEPT ![c] = IF next[c] < sent THEN "process" ELSE "idle"]
    /\ UNCHANGED <<sent, offset, assigned, dlq, handled, late, next>>

\* The loop goes on to the next message of the batch, or returns.
Advance(c) ==
    /\ next' = [next EXCEPT ![c] = next[c] + 1]
    /\ retryCount' = [retryCount EXCEPT ![c] = 0]
    /\ pc' = [pc EXCEPT ![c] = IF next[c] + 1 < upto[c] THEN "process" ELSE "idle"]

\* The handler returns nil in time.
HandlerSucceeds(c) ==
    /\ pc[c] = "process"
    /\ handled' = handled \cup {next[c]}
    /\ pc' = [pc EXCEPT ![c] = "commit"]
    /\ UNCHANGED <<sent, offset, assigned, dlq, late, next, upto, retryCount>>

\* commitOffset stores the offset unconditionally, also below the stored one.
CommitOffset(c) ==
    /\ pc[c] = "commit"
    /\ offset' = next[c] + 1
    /\ Advance(c)
    /\ UNCHANGED <<sent, assigned, dlq, handled, late, upto>>

\* The handler goroutine goes on after a timeout, or has returned an error or panicked.
StillRunning(c) == late' \in {late, late \cup {next[c]}}

\* Faulty AfterFailure: failures are not counted.
AfterFailureSame(c) == retryCount[c]

\* retryCount++
AfterFailure(c) == retryCount[c] + 1

\* A failed attempt that is not the last: back off and call the handler again.
Retry(c) ==
    /\ pc[c] = "process"
    /\ AfterFailure(c) < maxRetries
    /\ retryCount' = [retryCount EXCEPT ![c] = AfterFailure(c)]
    /\ StillRunning(c)
    /\ UNCHANGED <<sent, offset, assigned, dlq, handled, pc, next, upto>>

DeadLettered(c) == dlq \cup {next[c]}

\* The last attempt failed: the message goes to the dead letter queue. The offset is
\* not committed; a later success moves it past the message.
DeadLetter(c) ==
    /\ pc[c] = "process"
    /\ AfterFailure(c) >= maxRetries
    /\ dlq' = DeadLettered(c)
    /\ Advance(c)
    /\ StillRunning(c)
    /\ UNCHANGED <<sent, offset, assigned, handled, upto>>

\* A handler that timed out returns after all; its result is never read.
LateHandlerReturns(o) ==
    /\ o \in late
    /\ late' = late \ {o}
    /\ handled' \in {handled, handled \cup {o}}
    /\ UNCHANGED <<sent, offset, assigned, dlq, pc, next, upto, retryCount>>

Consume(c) ==
    \/ ReadOffset(c) \/ ReadMessages(c)
    \/ HandlerSucceeds(c) \/ CommitOffset(c)
    \/ Retry(c) \/ DeadLetter(c)

RetryNext ==
    \/ Send
    \/ \E c \in Readers : Reassign(c) \/ ConsumeWithRetry(c) \/ Consume(c)
    \/ \E o \in Offsets : LateHandlerReturns(o)

RetrySpec == RetryInit /\ [][RetryNext]_retryVars
-----------------------------------------------------------------------------
Settled(o) == o \in handled \cup dlq

\* No message is lost: everything below the committed offset was handled or is in
\* the dead letter queue, although offsets are stored unconditionally, two consumers
\* may be at work at once, and a dead-lettered message commits nothing.
NoMessageLost == \A o \in Offsets : o < offset => Settled(o)

\* The inductive form: the same holds below every consumer's position.
PositionsSettled ==
    \A c \in Readers :
        /\ pc[c] \in {"read", "process", "commit"} =>
               \A o \in Offsets : o < next[c] => Settled(o)
        /\ pc[c] = "commit" => Settled(next[c])
        /\ pc[c] \in {"process", "commit"} => next[c] < upto[c]

\* A message that a consumer has begun to process is handled or dead-lettered: the
\* retry loop ends.
BegunIsSettled ==
    \A c \in Readers, o \in Offsets :
        (pc[c] = "process" /\ next[c] = o) ~> Settled(o)
=============================================================================
