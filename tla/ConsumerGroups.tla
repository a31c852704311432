--------------------------- MODULE ConsumerGroups ---------------------------
(***************************************************************************)
(* One consumer group of the message bus in                                *)
(* solutions/solution18_message_bus.go: CreateTopic, JoinGroup, the        *)
(* rebalance goroutines that JoinGroup and the health checker start, and   *)
(* the health checker itself.                                              *)
(*                                                                         *)
(* Two locks matter, mb.mu and group.mu. JoinGroup takes group.mu while it *)
(* holds mb.mu; rebalance takes mb.mu (for reading) while it holds         *)
(* group.mu. Every critical section that takes no second lock is one step. *)
(***************************************************************************)
EXTENDS Integers, FiniteSets, Sequences

CONSTANTS
    Consumers,
    Topics,         \* consumer -> the topics its JoinGroup names
    NumPartitions,  \* topic -> config.NumPartitions
    MaxJoins,       \* bound: calls of JoinGroup in one behaviour
    None

TopicNames == DOMAIN NumPartitions

ASSUME GroupAssumption ==
    /\ IsFiniteSet(Consumers) /\ None \notin Consumers
    /\ Topics \in [Consumers -> SUBSET TopicNames]
    /\ \A t \in TopicNames : NumPartitions[t] \in Nat
    /\ MaxJoins \in Nat

VARIABLES
    mbmu,         \* the consumer whose JoinGroup holds mb.mu, or None
    topics,       \* mb.topics
    consumers,    \* group.Consumers: consumer -> absent, active, inactive
    overdue,      \* consumers whose Heartbeat is more than 30 seconds old
    assignments,  \* group.Assignments: topic -> partition -> consumer, or None
    spawned,      \* rebalance goroutines that have not looked the group up
    waiting,      \* rebalance goroutines that wait for group.mu
    rebalancing,  \* a rebalance holds group.mu
    todo,         \* its <<consumer, topic>> pairs still to collect
    copies,       \* its topicPartitions: how often a topic's partitions occur
    activeConsumers, \* what it deals the partitions to, empty before it does
    consumerIndex,
    checker,      \* the health checker
    joins

lockVars == <<mbmu, joins>>
dealVars == <<activeConsumers, consumerIndex>>
rebalanceVars == <<rebalancing, todo, copies, dealVars>>
groupVars == <<mbmu, topics, consumers, overdue, assignments, spawned, waiting,
          rebalancing, todo, copies, activeConsumers, consumerIndex, checker, joins>>

Partitions(t) == 0 .. NumPartitions[t] - 1

Unassigned == [t \in TopicNames |-> [p \in Partitions(t) |-> None]]

NoCopies == [t \in TopicNames |-> 0]

GroupTypeOK ==
    /\ mbmu \in Consumers \cup {None}
    /\ topics \subseteq TopicNames
    /\ consumers \in [Consumers -> {"absent", "active", "inactive"}]
    /\ overdue \subseteq Consumers
    /\ \A t \in TopicNames :
        assignments[t] \in [Partitions(t) -> Consumers \cup {None}]
    /\ spawned \in 0 .. 2 * MaxJoins
    /\ waiting \in 0 .. 2 * MaxJoins
    /\ rebalancing \in BOOLEAN
    /\ todo \subseteq Consumers \X TopicNames
    /\ copies \in [TopicNames -> 0 .. Cardinality(Consumers)]
    /\ activeConsumers \in Seq(Consumers) /\ consumerIndex \in Nat
    /\ checker \in {"idle", "checking"}
    /\ joins \in 0 .. MaxJoins

\* After CreateConsumerGroup.
GroupInit ==
    /\ mbmu = None
    /\ topics = {}
    /\ consumers = [c \in Consumers |-> "absent"]
    /\ overdue = {}
    /\ assignments = Unassigned
    /\ spawned = 0
    /\ waiting = 0
    /\ rebalancing = FALSE
    /\ todo = {}
    /\ copies = NoCopies
    /\ activeConsumers = <<>>
    /\ consumerIndex = 0
    /\ checker = "idle"
    /\ joins = 0
-----------------------------------------------------------------------------
\* CreateTopic; an existing topic is an error and changes nothing. Nothing is
\* rebalanced.
CreateTopic(t) ==
    /\ mbmu = None
    /\ t \notin topics
    /\ topics' = topics \cup {t}
    /\ UNCHANGED <<consumers, overdue, assignments, spawned, waiting, checker,
                   lockVars, rebalanceVars>>

\* JoinGroup takes mb.mu and keeps it to its end.
JoinGroup(c) ==
    /\ mbmu = None
    /\ joins < MaxJoins
    /\ mbmu' = c
    /\ joins' = joins + 1
    /\ UNCHANGED <<topics, consumers, overdue, assignments, spawned, waiting,
                   checker, rebalanceVars>>

\* JoinGroup has group.mu too: a new Consumer with a fresh heartbeat replaces
\* any older one, a rebalance is started, both locks are given back.
JoinRegister(c) ==
    /\ mbmu = c
    /\ ~rebalancing
    /\ consumers' = [consumers EXCEPT ![c] = "active"]
    /\ overdue' = overdue \ {c}
    /\ spawned' = spawned + 1
    /\ mbmu' = None
    /\ UNCHANGED <<topics, assignments, waiting, checker, joins, rebalanceVars>>
-----------------------------------------------------------------------------
Active == {c \in Consumers : consumers[c] = "active"}

\* rebalance reads mb.groups under mb.mu.RLock and lets go of it.
RebalanceLookup ==
    /\ spawned > 0
    /\ mbmu = None
    /\ spawned' = spawned - 1
    /\ waiting' = waiting + 1
    /\ UNCHANGED <<topics, consumers, overdue, assignments, checker, lockVars,
                   rebalanceVars>>

\* rebalance gets group.mu.
RebalanceStart ==
    /\ waiting > 0
    /\ ~rebalancing
    /\ waiting' = waiting - 1
    /\ rebalancing' = TRUE
    /\ todo' = {pair \in Active \X TopicNames : pair[2] \in Topics[pair[1]]}
    /\ copies' = NoCopies
    /\ UNCHANGED <<topics, consumers, overdue, assignments, spawned, checker,
                   lockVars, dealVars>>

\* One round of the collecting loop, under mb.mu.RLock. A topic that several
\* consumers name is collected several times.
RebalanceCollect ==
    /\ rebalancing
    /\ mbmu = None
    /\ \E pair \in todo :
        /\ todo' = todo \ {pair}
        /\ copies' = IF pair[2] \in topics
                     THEN [copies EXCEPT ![pair[2]] = @ + 1] ELSE copies
    /\ UNCHANGED <<topics, consumers, overdue, assignments, spawned, waiting,
                   checker, lockVars, rebalancing, dealVars>>

\* The active consumers in some order, as the loop over the map finds them.
Orders(S) == {cs \in [1 .. Cardinality(S) -> S] : \A i, j \in DOMAIN cs : cs[i] = cs[j] => i = j}

\* With an active consumer, the old assignments are cleared.
RebalanceClear ==
    /\ rebalancing /\ todo = {} /\ activeConsumers = <<>>
    /\ Active # {}
    /\ activeConsumers' \in Orders(Active)
    /\ assignments' = Unassigned
    /\ UNCHANGED <<topics, consumers, overdue, spawned, waiting, checker, lockVars,
                   rebalancing, todo, copies, consumerIndex>>

\* The consumer who gets partition p of topic t: the loop overwrites what it dealt from
\* earlier copies, so the last copy counts.
Dealt(t, p) ==
    activeConsumers[((consumerIndex + (copies[t] - 1) * NumPartitions[t] + p)
                        % Len(activeConsumers)) + 1]

\* One topic, in any order, is dealt out, all its copies.
RebalanceDeal(t) ==
    /\ activeConsumers # <<>> /\ copies[t] > 0
    /\ assignments' = [assignments EXCEPT ![t] = [p \in Partitions(t) |-> Dealt(t, p)]]
    /\ consumerIndex' = consumerIndex + copies[t] * NumPartitions[t]
    /\ copies' = [copies EXCEPT ![t] = 0]
    /\ UNCHANGED <<topics, consumers, overdue, spawned, waiting, checker, lockVars,
                   rebalancing, todo, activeConsumers>>

\* Faulty HoldsAfter: the early return leaves group.mu locked.
HoldsAfterEarlyReturn == Active = {}

\* group.mu once rebalance has returned: unlocked on every path (defer).
HoldsAfter == FALSE

\* rebalance returns: all topics are dealt out, or no consumer is active and the old
\* assignments stay.
RebalanceFinish ==
    /\ rebalancing /\ todo = {}
    /\ IF activeConsumers # <<>> THEN copies = NoCopies ELSE Active = {}
    /\ rebalancing' = HoldsAfter
    /\ copies' = NoCopies
    /\ activeConsumers' = <<>> /\ consumerIndex' = 0
    /\ UNCHANGED <<topics, consumers, overdue, assignments, spawned, waiting, checker,
                   lockVars, todo>>
-----------------------------------------------------------------------------
\* Environment: 30 seconds pass since the consumer joined. Nothing but JoinGroup
\* ever sets Heartbeat.
HeartbeatExpires(c) ==
    /\ consumers[c] = "active"
    /\ c \notin overdue
    /\ overdue' = overdue \cup {c}
    /\ UNCHANGED <<topics, consumers, assignments, spawned, waiting, checker,
                   lockVars, rebalanceVars>>

\* runHealthChecker copies mb.groups under mb.mu.RLock.
HealthTick ==
    /\ checker = "idle"
    /\ mbmu = None
    /\ checker' = "checking"
    /\ UNCHANGED <<topics, consumers, overdue, assignments, spawned, waiting,
                   lockVars, rebalanceVars>>

\* Faulty Rebalances: an inactive consumer starts no rebalance.
RebalancesNone(late) == 0

\* Faulty Rebalances: the goroutine count runs backwards.
RebalancesNegative(late) == -Cardinality(late)

\* One `go mb.rebalance' for every consumer marked inactive.
Rebalances(late) == Cardinality(late)

\* checkGroupHealth, under group.mu.
CheckGroupHealth ==
    LET late == Active \cap overdue IN
    /\ checker = "checking"
    /\ ~rebalancing
    /\ checker' = "idle"
    /\ consumers' = [c \in Consumers |->
                        IF c \in late THEN "inactive" ELSE consumers[c]]
    /\ spawned' = spawned + Rebalances(late)
    /\ UNCHANGED <<topics, overdue, assignments, waiting, lockVars, rebalanceVars>>
-----------------------------------------------------------------------------
Rebalance ==
    \/ RebalanceLookup \/ RebalanceStart \/ RebalanceCollect
    \/ RebalanceClear \/ (\E t \in TopicNames : RebalanceDeal(t)) \/ RebalanceFinish

GroupNext ==
    \/ Rebalance
    \/ HealthTick \/ CheckGroupHealth
    \/ \E c \in Consumers : JoinGroup(c) \/ JoinRegister(c) \/ HeartbeatExpires(c)
    \/ \E t \in TopicNames : CreateTopic(t)

GroupSpec == GroupInit /\ [][GroupNext]_groupVars
-----------------------------------------------------------------------------
GroupSettled == spawned = 0 /\ waiting = 0 /\ ~rebalancing

Owned(t, c) == {p \in Partitions(t) : assignments[t][p] = c}

\* When all rebalances are done and the group has active members, every assigned
\* partition is assigned to one of them (no partition is left with a consumer the
\* health checker has given up), a topic is assigned completely or not at all, and
\* only topics that an active member asked for are assigned. A topic's partitions are
\* spread evenly: although rebalance deals out a topic as often as consumers named it,
\* and only the last deal counts, two members never differ by more than one partition.
AssignmentSettles ==
    GroupSettled /\ Active # {} =>
        \A t \in TopicNames :
            /\ \/ assignments[t] = Unassigned[t]
               \/ /\ \A p \in Partitions(t) : assignments[t][p] \in Active
                  /\ \E c \in Active : t \in Topics[c]
            /\ \A c, d \in Active : Cardinality(Owned(t, c)) <= Cardinality(Owned(t, d)) + 1

\* JoinGroup waits for group.mu with mb.mu in its hand while a rebalance waits for
\* mb.mu with group.mu in its hand.
LockCycle == mbmu # None /\ rebalancing /\ todo # {}

\* Every rebalance that was started is finished, unless the two locks are taken
\* crosswise by JoinGroup and rebalance.
RebalancesFinish == (spawned > 0) ~> (GroupSettled \/ LockCycle)

\* Every JoinGroup returns: the bus manages its groups while they are rebalanced.
EveryJoinReturns == \A c \in Consumers : (mbmu = c) ~> (mbmu # c)
=============================================================================
