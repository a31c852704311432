------------------------- MODULE PracticalMessageBus -------------------------
(***************************************************************************)
(* practical/message_bus_example.go: partitioned topics, one consumer      *)
(* group, rebalancing, consumers that poll, offsets that are kept per      *)
(* partition number whatever the topic, and retention.                     *)
(***************************************************************************)
EXTENDS Integers, FiniteSets, Sequences

CONSTANTS
    MaxConsumers,
    Partitions,     \* of every topic
    KeyPartitions,  \* those that the keys of the messages hash to
    MaxMessages,    \* published in all
    MaxRounds       \* of consumePartitions, by all the consumers together

VARIABLES
    subscribed,     \* consumer -> Topics
    log,            \* topic -> partition -> the offset of its first message and the next one
    mbLock,         \* who is in JoinGroup, holding mb.mu, or 0
    groupLock,      \* whose rebalance holds group.mu, or 0
    join,           \* consumer -> how far JoinGroup is
    rebalance,      \* consumer -> how far the rebalance is that it triggered
    assignments,    \* partition -> consumer, or 0
    offsets,        \* partition -> committed offset of the group
    rounds,         \* of consumePartitions so far
    consumer,       \* consumer -> what its Consume loop does
    handled,        \* <<topic, partition, offset>> -> how often a handler has succeeded with it
    failed,         \* messages that have failed
    late,           \* handlers that go on after their timeout
    dlq

mbVars ==
    <<subscribed, log, mbLock, groupLock, join, rebalance, assignments, offsets, rounds, consumer,
      handled, failed, late, dlq>>

\* Numbered in the order in which they join, as they are alike.
Consumers == 1..MaxConsumers

Topics == {"orders", "events"}

Messages == Topics \X Partitions \X (0..(MaxMessages - 1))

Idle == [at |-> "poll", todo |-> <<>>, batch |-> <<>>]

Subscriptions == {<<"orders">>, <<"orders", "events">>}

MBInit ==
    /\ \E s \in Subscriptions : subscribed = [c \in Consumers |-> s]
    /\ log = [t \in Topics |-> [p \in Partitions |-> [first |-> 0, next |-> 0]]]
    /\ mbLock = 0 /\ groupLock = 0
    /\ join = [c \in Consumers |-> "no"]
    /\ rebalance = [c \in Consumers |-> "no"]
    /\ assignments = [p \in Partitions |-> 0]
    /\ offsets = [p \in Partitions |-> 0]
    /\ consumer = [c \in Consumers |-> Idle]
    /\ rounds = 0
    /\ handled = [m \in Messages |-> 0]
    /\ failed = {} /\ late = {} /\ dlq = {}

NotGroup == UNCHANGED <<mbLock, groupLock, join, rebalance, assignments>>

NotConsumers == UNCHANGED <<offsets, rounds, consumer, handled, failed, late, dlq>>

Published == Cardinality({m \in Messages : m[3] < log[m[1]][m[2]].next})
-----------------------------------------------------------------------------
\* selectPartition has hashed the key. A topic without subscribers
\* concerns nobody.
Publish(t, p) ==
    /\ \E c \in Consumers : \E i \in DOMAIN subscribed[c] : subscribed[c][i] = t
    /\ mbLock = 0 /\ Published < MaxMessages
    /\ log' = [log EXCEPT ![t][p].next = @ + 1]
    /\ UNCHANGED subscribed /\ NotGroup /\ NotConsumers

\* Faulty: when all the messages have expired all are removed.
enforceRetentionAll(t, p) ==
    /\ mbLock = 0
    /\ \E cutoff \in (log[t][p].first + 1)..log[t][p].next : log' = [log EXCEPT ![t][p].first = cutoff]
    /\ UNCHANGED subscribed /\ NotGroup /\ NotConsumers

\* The cutoff is the first message that has not expired; without one nothing is removed.
enforceRetention(t, p) ==
    /\ mbLock = 0
    /\ \E cutoff \in (log[t][p].first + 1)..(log[t][p].next - 1) : log' = [log EXCEPT ![t][p].first = cutoff]
    /\ UNCHANGED subscribed /\ NotGroup /\ NotConsumers
-----------------------------------------------------------------------------
\* JoinGroup takes mb.mu, then group.mu.
JoinLocks(c) ==
    /\ join[c] = "no" /\ (\A d \in 1..(c - 1) : join[d] # "no") /\ mbLock = 0
    /\ mbLock' = c
    /\ join' = [join EXCEPT ![c] = "locked"]
    /\ UNCHANGED <<subscribed, log, groupLock, rebalance, assignments>> /\ NotConsumers

\* Faulty: mb.mu is not unlocked.
JoinAddsLocked(c) ==
    /\ join[c] = "locked" /\ groupLock = 0
    /\ join' = [join EXCEPT ![c] = "joined"]
    /\ rebalance' = [rebalance EXCEPT ![c] = "find"]
    /\ UNCHANGED <<subscribed, log, mbLock, groupLock, assignments>> /\ NotConsumers

JoinAdds(c) ==
    /\ join[c] = "locked" /\ groupLock = 0
    /\ mbLock' = 0
    /\ join' = [join EXCEPT ![c] = "joined"]
    /\ rebalance' = [rebalance EXCEPT ![c] = "find"]
    /\ UNCHANGED <<subscribed, log, groupLock, assignments>> /\ NotConsumers

RebalanceFinds(c) ==
    /\ rebalance[c] = "find" /\ mbLock = 0
    /\ rebalance' = [rebalance EXCEPT ![c] = "lock"]
    /\ UNCHANGED <<subscribed, log, mbLock, groupLock, join, assignments>> /\ NotConsumers

\* rebalance takes group.mu, and then mb.mu again.
RebalanceLocks(c) ==
    /\ rebalance[c] = "lock" /\ groupLock = 0
    /\ groupLock' = c
    /\ rebalance' = [rebalance EXCEPT ![c] = "locked"]
    /\ UNCHANGED <<subscribed, log, mbLock, join, assignments>> /\ NotConsumers

Joined == {c \in Consumers : join[c] = "joined"}

Orders(S) == {f \in [1..Cardinality(S) -> S] : \A x \in S : \E i \in DOMAIN f : f[i] = x}

\* Faulty: all to the first member.
RoundRobinFirst(parts, members) == [i \in DOMAIN parts |-> members[1]]

\* The partition at place i of the list goes to member i modulo their number.
RoundRobin(parts, members) == [i \in DOMAIN parts |-> members[((i - 1) % Len(members)) + 1]]

\* The list has every topic's partitions, in the order of the topics; a later one overwrites.
Assigned(members) ==
    LET topics == UNION {{subscribed[c][i] : i \in DOMAIN subscribed[c]} : c \in Joined}
        n == Cardinality(Partitions)
        robin == RoundRobin([i \in 1..(n * Cardinality(topics)) |-> (i - 1) % n], members)
    IN  [p \in Partitions |-> robin[n * (Cardinality(topics) - 1) + p + 1]]

RebalanceAssigns(c) ==
    /\ rebalance[c] = "locked" /\ mbLock = 0
    /\ \E members \in Orders(Joined) : assignments' = Assigned(members)
    /\ groupLock' = 0
    /\ rebalance' = [rebalance EXCEPT ![c] = "done"]
    /\ UNCHANGED <<subscribed, log, mbLock, join>> /\ NotConsumers
-----------------------------------------------------------------------------
Set(c, r) == consumer' = [consumer EXCEPT ![c] = r]

\* A round looks at the assignments as they are when it begins, and goes through its
\* partitions in some order, and through the topics in theirs.
consumePartitions(c) ==
    /\ join[c] = "joined" /\ groupLock = 0
    /\ consumer[c].at = "poll" /\ rounds < MaxRounds
    /\ rounds' = rounds + 1
    /\ \E parts \in Orders({p \in Partitions : assignments[p] = c}) :
          /\ parts # <<>>
          /\ LET n == Len(subscribed[c])
                 pairs == [i \in 1..(n * Len(parts)) |->
                             <<subscribed[c][((i - 1) % n) + 1], parts[((i - 1) \div n) + 1]>>]
             IN  Set(c, [Idle EXCEPT !.at = "fetch", !.todo = pairs])
    /\ UNCHANGED <<subscribed, log, offsets, handled, failed, late, dlq>> /\ NotGroup

\* Faulty: the message at the committed offset is taken for done.
UncommittedAfter(t, p) ==
    SelectSeq([i \in 1..(log[t][p].next - log[t][p].first) |-> <<t, p, log[t][p].first + i - 1>>],
              LAMBDA m : m[3] > offsets[p])

\* The messages of the partition from the committed offset on, whichever topic committed it.
Uncommitted(t, p) ==
    SelectSeq([i \in 1..(log[t][p].next - log[t][p].first) |-> <<t, p, log[t][p].first + i - 1>>],
              LAMBDA m : m[3] >= offsets[p])

\* What a consumer is at when its batch is b and it has still to look at todo.
Onwards(c, b, todo) ==
    [at |-> IF b # <<>> THEN "process" ELSE IF todo # <<>> THEN "fetch" ELSE "poll",
     todo |-> todo, batch |-> b]

consumePartition(c) ==
    /\ consumer[c].at = "fetch" /\ mbLock = 0
    /\ LET next == Head(consumer[c].todo)
       IN  Set(c, Onwards(c, Uncommitted(next[1], next[2]), Tail(consumer[c].todo)))
    /\ UNCHANGED <<subscribed, log, rounds, offsets, handled, failed, late, dlq>> /\ NotGroup

Rest(c) == Onwards(c, Tail(consumer[c].batch), consumer[c].todo)

processMessage(c) ==
    /\ consumer[c].at = "process"
    /\ handled' = [handled EXCEPT ![Head(consumer[c].batch)] = @ + 1]
    /\ Set(c, [consumer[c] EXCEPT !.at = "commit"])
    /\ UNCHANGED <<subscribed, log, rounds, offsets, failed, late, dlq>> /\ NotGroup

\* Attempts is counted in a copy of the message, whose own count stays 0.
handleFailedMessage(m) ==
    LET attempts == 0 + 1
    IN  dlq' = IF attempts >= 3 THEN dlq \cup {m} ELSE dlq

\* An error, a panic, or a timeout that leaves the handler running (one at a time here).
ProcessFails(c) ==
    /\ consumer[c].at = "process"
    /\ LET m == Head(consumer[c].batch)
       IN  /\ (late' = late \/ (late = {} /\ late' = {m}))
           /\ failed' = failed \cup {m}
           /\ handleFailedMessage(m)
    /\ Set(c, Rest(c))
    /\ UNCHANGED <<subscribed, log, rounds, offsets, handled>> /\ NotGroup

LateHandlerEnds ==
    /\ \E m \in late :
          /\ late' = late \ {m}
          /\ handled' = [handled EXCEPT ![m] = @ + 1]
    /\ UNCHANGED <<subscribed, log, rounds, offsets, consumer, failed, dlq>> /\ NotGroup

\* Faulty: one too far.
commitOffsetAhead(c) ==
    /\ consumer[c].at = "commit"
    /\ offsets' = [offsets EXCEPT ![Head(consumer[c].batch)[2]] = Head(consumer[c].batch)[3] + 2]
    /\ Set(c, Rest(c))
    /\ UNCHANGED <<subscribed, log, rounds, handled, failed, late, dlq>> /\ NotGroup

\* The offset is set, not raised.
commitOffset(c) ==
    /\ consumer[c].at = "commit"
    /\ offsets' = [offsets EXCEPT ![Head(consumer[c].batch)[2]] = Head(consumer[c].batch)[3] + 1]
    /\ Set(c, Rest(c))
    /\ UNCHANGED <<subscribed, log, rounds, handled, failed, late, dlq>> /\ NotGroup

GroupStep(c) ==
    \/ JoinAdds(c) \/ RebalanceFinds(c) \/ RebalanceLocks(c) \/ RebalanceAssigns(c)

ConsumeStep(c) ==
    \/ consumePartitions(c) \/ consumePartition(c) \/ processMessage(c) \/ ProcessFails(c) \/ commitOffset(c)

MBNext ==
    \/ \E t \in Topics, p \in KeyPartitions : Publish(t, p)
    \/ \E t \in Topics, p \in Partitions : enforceRetention(t, p)
    \/ \E c \in Consumers : JoinLocks(c) \/ GroupStep(c) \/ ConsumeStep(c)
    \/ LateHandlerEnds

-----------------------------------------------------------------------------
\* With every rebalance over, each partition has one member of the group, and no member is
\* idle while there are partitions enough. A committed offset is behind a message that was
\* handled, and a group of one topic passes over no message that it has not tried, unless
\* retention removed it. Retention never empties a partition. No message reaches the dead
\* letter queue, however often it fails.
GroupRight ==
    /\ Joined # {} /\ (\A c \in Joined : rebalance[c] = "done") =>
          /\ {assignments[p] : p \in Partitions} \subseteq Joined
          /\ Cardinality(Joined) <= Cardinality(Partitions) =>
                Joined \subseteq {assignments[p] : p \in Partitions}
    /\ \A p \in Partitions : offsets[p] > 0 => \E t \in Topics : handled[<<t, p, offsets[p] - 1>>] > 0
    /\ \A c \in Consumers, m \in Messages :
          /\ subscribed[c] = <<m[1]>>
          /\ m[3] < offsets[m[2]]
          => handled[m] > 0 \/ m \in failed \/ m[3] < log[m[1]][m[2]].first
    /\ \A t \in Topics, p \in Partitions : log[t][p].next > 0 => log[t][p].first < log[t][p].next
    /\ dlq = {}

\* JoinGroup holds mb.mu and waits for group.mu, which a rebalance holds that waits for mb.mu.
JoinDeadlock == mbLock # 0 /\ groupLock # 0

JoinBegun(c) == join[c] # "no"

JoinOver(c) == rebalance[c] = "done" \/ JoinDeadlock
=============================================================================
