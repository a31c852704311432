----------------------------- MODULE MessageBus -----------------------------
(***************************************************************************)
(* RunSolution18 of solutions/solution18_message_bus.go builds three buses, *)
(* one after the other: the partitioned bus (consumer groups), the         *)
(* transactional bus, and the fault-tolerant bus (consumption with         *)
(* retries). They share no state, so a behaviour here is a run of one of   *)
(* them, the other two as they are made.                                   *)
(***************************************************************************)
EXTENDS ConsumerGroups, TransactionalBus, RetryConsumer

VARIABLE part    \* the bus that runs

busVars == <<part, groupVars, txVars, retryVars>>

BusTypeOK ==
    /\ part \in {"partitioned", "exactlyOnce", "faultTolerant"}
    /\ GroupTypeOK /\ TxTypeOK /\ RetryTypeOK

BusInit ==
    /\ part \in {"partitioned", "exactlyOnce", "faultTolerant"}
    /\ GroupInit /\ TxInit /\ RetryInit

NotGroup == UNCHANGED <<part, txVars, retryVars>>

NotTx == UNCHANGED <<part, groupVars, retryVars>>

NotRetry == UNCHANGED <<part, groupVars, txVars>>

BusNext ==
    \/ part = "partitioned" /\ GroupNext /\ NotGroup
    \/ part = "exactlyOnce" /\ TxNext /\ NotTx
    \/ part = "faultTolerant" /\ RetryNext /\ NotRetry

\* Goroutines run and a free mutex is given to whoever waits for it; a call of
\* ConsumeWithRetry that was made runs on.
BusSpec ==
    /\ BusInit /\ [][BusNext]_busVars
    /\ WF_busVars(part = "partitioned" /\ Rebalance /\ NotGroup)
    /\ WF_busVars(part = "partitioned" /\ CheckGroupHealth /\ NotGroup)
    /\ WF_busVars(part = "partitioned" /\ (\E c \in Consumers : JoinRegister(c)) /\ NotGroup)
    /\ \A c \in Readers : WF_busVars(part = "faultTolerant" /\ Consume(c) /\ NotRetry)
-----------------------------------------------------------------------------
\* Every variable has its type, and assignments settle on active members (see
\* ConsumerGroups).
SettledAssignment == BusTypeOK /\ AssignmentSettles

\* Rebalances finish unless the lock cycle closes, and a message that a consumer has begun
\* with is handled or dead-lettered (see ConsumerGroups and RetryConsumer).
BusProgress == RebalancesFinish /\ BegunIsSettled
=============================================================================
