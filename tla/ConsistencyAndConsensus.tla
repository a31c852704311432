----------------------- MODULE ConsistencyAndConsensus -----------------------
(***************************************************************************)
(* Challenges 12 (distributed transactions), 13 (event sourcing), 14       *)
(* (sagas) and solution 20 (consensus) of solutions/, and the systems of   *)
(* challenges 28 (task scheduler), 29 (actors), 30 (reactive streams) and  *)
(* 31 (distributed transactions). Each runs its components one after the   *)
(* other; they share no state, so a behaviour here is a run of one of      *)
(* them.                                                                   *)
(***************************************************************************)
EXTENDS BlockchainConsensus, ConsistencyModels

CONSTANTS
    Streams, snapshotInterval, MaxEvents, MaxPublished, Sagas, MaxRuns, CompensationMayFail,
    SagaOrders, Capacity, MaxTask, FreeTasks, Workers, Retries, MailboxSize, MaxSends,
    maxRestarts, Requests, StreamBuffer, MaxItems, MaxDrains, IntMax, Nodes, MaxLockCalls

VARIABLES
    part,    \* the component that runs
    stream, snapshots, globalVersion,
    published, updating, summary, orderCount, beside,
    avail, history, done, compensated, logged, sagaPc, at, attempt, runs,
    commandBus, eventBus, serving, sagaStep, status, completed, undoing, blocked, starting,
    failed, stopped,
    queue, working, pending, reserved, paid, shipped, started, reported,
    maxRetries, taskQueue, pendingTasks, runningTasks, completedTasks, failedTasks, round,
    localQueue, isIdle, doing, stopping,
    spawned, mailbox, counter, restarts, loop, cancelled, shutDown, sends, ask, treated, owed,
    overlap,
    operator, source, emitted, itemBuffer, errorBuffer, droppedItems, requested, drain,
    received, errors, unsubscribed, complete, together,
    available, Data, prepState, txnStep, TxnState, WriteSet, toAsk, asked, refused, opened,
    locks, lockCalls

\* What the sagas share and how often their steps are tried: two sagas compete for one payment.
Shares == [i \in {1, 2} |-> IF i = 1 THEN 2 ELSE 1]

Tries == [i \in 1 .. 3 |-> IF i = 3 THEN 1 ELSE 2]

Sourcing == INSTANCE EventSourcing

Saga == INSTANCE SagaPattern WITH
    Stock <- Shares, MaxRetries <- Tries, executed <- done, pc <- sagaPc, step <- sagaStep

Scheduler == INSTANCE TaskScheduler

Actor == INSTANCE ActorModel WITH state <- counter, stopped <- shutDown

Reactive == INSTANCE ReactiveStreams

Txn == INSTANCE DistributedTransactions WITH
    Participants <- Nodes, step <- txnStep, beside <- opened

snapshotVars == <<stream, snapshots, globalVersion>>

projectionVars == <<published, updating, summary, orderCount, beside>>

compensatingVars == <<avail, history, done, compensated, logged, sagaPc, at, attempt, runs>>

orchestratedVars ==
    <<commandBus, eventBus, serving, sagaStep, status, completed, undoing, blocked,
      starting, failed, stopped>>

choreographedVars == <<queue, working, pending, reserved, paid, shipped, started, reported>>

schedulerVars ==
    <<maxRetries, taskQueue, pendingTasks, runningTasks, completedTasks, failedTasks, round,
      localQueue, isIdle, doing, stopping>>

actorVars ==
    <<spawned, mailbox, counter, restarts, loop, cancelled, shutDown, sends, ask, treated,
      owed, overlap>>

reactiveVars ==
    <<operator, source, emitted, itemBuffer, errorBuffer, droppedItems, requested, drain,
      received, errors, unsubscribed, complete, together>>

txnVars ==
    <<available, Data, prepState, txnStep, TxnState, WriteSet, toAsk, asked, refused,
      opened, locks, lockCalls>>

transactionVars == <<commitVars, orderVars, userVars>>

sourcingVars == <<snapshotVars, projectionVars>>

sagaVars == <<compensatingVars, orchestratedVars, choreographedVars>>

serviceVars == <<schedulerVars, actorVars, reactiveVars, txnVars>>

vars == <<part, transactionVars, sourcingVars, chainVars, sagaVars, serviceVars>>

Parts ==
    {"twophase", "order", "cqrs", "snapshot", "projection", "pow", "pbft", "raft",
     "compensating", "orchestration", "choreography", "scheduler", "actors", "streams",
     "transactions"}

\* The part that runs, as it is made; the variables of the others are empty, but for those of
\* the chains.
Init ==
    /\ part \in Parts
    /\ IF part = "twophase" THEN CommitInit
       ELSE prepared = {} /\ storedData = {} /\ versions = {} /\ toPrepare = {}
            /\ votes = {} /\ toCommit = {} /\ phase = {} /\ written = {}
    /\ IF part = "order" THEN OrderInit
       ELSE inventory = {} /\ balance = {} /\ step = {} /\ mode = {} /\ executed = {}
    /\ IF part = "cqrs" THEN UserInit
       ELSE events = {} /\ original = {} /\ user = {} /\ version = {} /\ mine = {}
            /\ overlapped = {}
    /\ IF part = "snapshot" THEN Sourcing!SnapshotInit
       ELSE stream = {} /\ snapshots = {} /\ globalVersion = {}
    /\ IF part = "projection" THEN Sourcing!ProjectionInit
       ELSE published = {} /\ updating = {} /\ summary = {} /\ orderCount = {}
            /\ beside = {}
    /\ ChainsInit
    /\ IF part = "compensating" THEN Saga!CompensatingInit
       ELSE avail = {} /\ history = {} /\ done = {} /\ compensated = {} /\ logged = {}
            /\ sagaPc = {} /\ at = {} /\ attempt = {} /\ runs = {}
    /\ IF part = "orchestration" THEN Saga!OrchestratedInit
       ELSE commandBus = {} /\ eventBus = {} /\ serving = {} /\ sagaStep = {} /\ status = {}
            /\ completed = {} /\ undoing = {} /\ blocked = {} /\ starting = {}
            /\ failed = {} /\ stopped = {}
    /\ IF part = "choreography" THEN Saga!ChoreographedInit
       ELSE queue = {} /\ working = {} /\ pending = {} /\ reserved = {} /\ paid = {}
            /\ shipped = {} /\ started = {} /\ reported = {}
    /\ IF part = "scheduler" THEN Scheduler!SchedulerInit
       ELSE maxRetries = {} /\ taskQueue = {} /\ pendingTasks = {} /\ runningTasks = {}
            /\ completedTasks = {} /\ failedTasks = {} /\ round = {} /\ localQueue = {}
            /\ isIdle = {} /\ doing = {} /\ stopping = {}
    /\ IF part = "actors" THEN Actor!ActorInit
       ELSE spawned = {} /\ mailbox = {} /\ counter = {} /\ restarts = {} /\ loop = {}
            /\ cancelled = {} /\ shutDown = {} /\ sends = {} /\ ask = {} /\ treated = {}
            /\ owed = {} /\ overlap = {}
    /\ IF part = "streams" THEN Reactive!StreamInit
       ELSE operator = {} /\ source = {} /\ emitted = {} /\ itemBuffer = {}
            /\ errorBuffer = {} /\ droppedItems = {} /\ requested = {} /\ drain = {}
            /\ received = {} /\ errors = {} /\ unsubscribed = {} /\ complete = {}
            /\ together = {}
    /\ IF part = "transactions" THEN Txn!TxnInit
       ELSE available = {} /\ Data = {} /\ prepState = {} /\ txnStep = {} /\ TxnState = {}
            /\ WriteSet = {} /\ toAsk = {} /\ asked = {} /\ refused = {} /\ opened = {}
            /\ locks = {} /\ lockCalls = {}

OnlyCommit == UNCHANGED <<part, sourcingVars, chainVars, sagaVars, serviceVars, orderVars,
    userVars>>

CommitStep == part = "twophase" /\ CommitNext /\ OnlyCommit

OnlyOrder == UNCHANGED <<part, sourcingVars, chainVars, sagaVars, serviceVars, commitVars,
    userVars>>

OrderStep == part = "order" /\ OrderNext /\ OnlyOrder

OnlyUser == UNCHANGED <<part, sourcingVars, chainVars, sagaVars, serviceVars, commitVars,
    orderVars>>

UserStep == part = "cqrs" /\ UserNext /\ OnlyUser

OnlySnapshot == UNCHANGED <<part, transactionVars, chainVars, sagaVars, serviceVars,
    projectionVars>>

SnapshotStep == part = "snapshot" /\ Sourcing!SnapshotNext /\ OnlySnapshot

OnlyProjection == UNCHANGED <<part, transactionVars, chainVars, sagaVars, serviceVars,
    snapshotVars>>

ProjectionStep == part = "projection" /\ Sourcing!ProjectionNext /\ OnlyProjection

OnlyWork == UNCHANGED <<part, transactionVars, sourcingVars, sagaVars, serviceVars,
    pbftVars, raftVars>>

WorkStep == part = "pow" /\ WorkNext /\ OnlyWork

OnlyPBFT == UNCHANGED <<part, transactionVars, sourcingVars, sagaVars, serviceVars,
    workVars, raftVars>>

PBFTStep == part = "pbft" /\ PBFTNext /\ OnlyPBFT

OnlyRaft == UNCHANGED <<part, transactionVars, sourcingVars, sagaVars, serviceVars,
    workVars, pbftVars>>

RaftStep == part = "raft" /\ RaftNext /\ OnlyRaft

OnlyCompensating == UNCHANGED <<part, transactionVars, sourcingVars, chainVars, serviceVars,
    orchestratedVars, choreographedVars>>

CompensatingStep == part = "compensating" /\ Saga!CompensatingNext /\ OnlyCompensating

OnlyOrchestrated == UNCHANGED <<part, transactionVars, sourcingVars, chainVars, serviceVars,
    compensatingVars, choreographedVars>>

OrchestratedStep == part = "orchestration" /\ Saga!OrchestratedNext /\ OnlyOrchestrated

OnlyChoreographed == UNCHANGED <<part, transactionVars, sourcingVars, chainVars,
    serviceVars, compensatingVars, orchestratedVars>>

ChoreographedStep == part = "choreography" /\ Saga!ChoreographedNext /\ OnlyChoreographed

OnlyScheduler == UNCHANGED <<part, transactionVars, sourcingVars, chainVars, sagaVars,
    actorVars, reactiveVars, txnVars>>

SchedulerStep == part = "scheduler" /\ Scheduler!SchedulerNext /\ OnlyScheduler

OnlyActor == UNCHANGED <<part, transactionVars, sourcingVars, chainVars, sagaVars,
    schedulerVars, reactiveVars, txnVars>>

ActorStep == part = "actors" /\ Actor!ActorNext /\ OnlyActor

OnlyReactive == UNCHANGED <<part, transactionVars, sourcingVars, chainVars, sagaVars,
    schedulerVars, actorVars, txnVars>>

ReactiveStep == part = "streams" /\ Reactive!StreamNext /\ OnlyReactive

OnlyTxn == UNCHANGED <<part, transactionVars, sourcingVars, chainVars, sagaVars,
    schedulerVars, actorVars, reactiveVars>>

TxnStep == part = "transactions" /\ Txn!TxnNext /\ OnlyTxn

Next ==
    \/ CommitStep \/ OrderStep \/ UserStep \/ SnapshotStep \/ ProjectionStep \/ WorkStep
    \/ PBFTStep \/ RaftStep \/ CompensatingStep \/ OrchestratedStep \/ ChoreographedStep
    \/ SchedulerStep \/ ActorStep \/ ReactiveStep \/ TxnStep

\* A goroutine that can go on and a call under way: one of them takes its step. A saga
\* exchanges finitely many messages, so no channel is contended for ever.
GoesOn ==
    \/ part = "compensating" /\ (\E s \in Sagas : Saga!Run(s)) /\ OnlyCompensating
    \/ part = "orchestration" /\ Saga!OrchestratedProgress /\ OnlyOrchestrated
    \/ part = "choreography" /\ Saga!ChoreographedProgress /\ OnlyChoreographed
    \/ part = "pbft" /\ (\E p \in BlockProposals : waitForConsensus(p)) /\ OnlyPBFT
    \/ part = "scheduler" /\ OnlyScheduler
       /\ (Scheduler!SchedulerRuns \/ \E n \in Workers : Scheduler!WorkerRuns(n))
    \/ part = "actors" /\ (\E l \in Actor!Loops : Actor!LoopRuns(l)) /\ OnlyActor
    \/ part = "transactions" /\ (\E t \in Txn!Txns : Txn!TxnRuns(t)) /\ OnlyTxn

Spec == Init /\ [][Next]_vars /\ WF_vars(GoesOn)
-----------------------------------------------------------------------------
\* Transactions are written by all participants or none, a failed order leaves nothing
\* behind, and what is read from a log (the user, a stream from its snapshot, the order
\* projections) is what was appended (see ConsistencyModels and EventSourcing).
StoresAgree ==
    /\ part = "twophase" => CommitTypeOK /\ AllOrNothing
    /\ part = "order" => OrderTypeOK /\ FailedLeavesNothing
    /\ part = "cqrs" => UserTypeOK /\ ShowsWhatWasAppended
    /\ part = "snapshot" => Sourcing!SnapshotTypeOK /\ Sourcing!StreamRebuilds
    /\ part = "projection" => Sourcing!ProjectionTypeOK /\ Sourcing!ProjectionsMatch

\* Stock and execution flags agree through retries, compensation and repeated executions;
\* only what was done is undone, and in reverse; the orchestrator does not block on its own
\* channel; no saga stays half done, and none is shipped unpaid (see SagaPattern).
SagasConsistent ==
    /\ part = "compensating" =>
          /\ Saga!CompensatingTypeOK /\ Saga!StockAccounted
          /\ Saga!FailedKeepsNothing /\ Saga!UndoneInReverse
    /\ part = "orchestration" =>
          /\ Saga!OrchestratedTypeOK /\ Saga!UndoFollowsFailure
          /\ Saga!OrchestratorNeverStuck
    /\ part = "choreography" =>
          Saga!ChoreographedTypeOK /\ Saga!NothingHalfDone /\ Saga!ShippedIsPaid

\* Challenges 28 to 31: the scheduler never duplicates, loses track of or starts a task too
\* early, actors count right while one loop runs, a stream delivers what was buffered, and
\* transactions that do not overlap leave all participants with the same balances.
ServicesRight ==
    /\ part = "scheduler" => Scheduler!SchedulerRight
    /\ part = "actors" => Actor!ActorsRight
    /\ part = "streams" => Reactive!StreamsRight
    /\ part = "transactions" => Txn!TransactionsRight

\* Work that the components have begun, and its end.
Begun ==
    \/ part = "compensating" /\ Saga!Executing
    \/ part = "orchestration" /\ failed # {}
    \/ part = "choreography" /\ started # {}
    \/ part = "pbft" /\ \E p \in BlockProposals : Waiting(p)
    \/ part = "scheduler" /\ Scheduler!WaitsForWorker
    \/ part = "actors" /\ Actor!Ending
    \/ part = "transactions" /\ Txn!CommitBegun

Done ==
    \/ part = "compensating" /\ Saga!ExecutionsOver
    \/ part = "orchestration" /\ Saga!FailuresUndone
    \/ part = "choreography" /\ Saga!SagasReported
    \/ part = "pbft" /\ \A p \in BlockProposals : ~Waiting(p)
    \/ part = "scheduler" /\ Scheduler!FreeTasksHandedOut
    \/ part = "actors" /\ Actor!Ended
    \/ part = "transactions" /\ Txn!CommitsOver

\* executeSaga returns, what a failed saga did is undone by the orchestrator, the
\* choreography's monitor reports every saga, a PBFT proposal is answered, a task without
\* dependencies gets a worker, the loops of a cancelled actor end, and Commit returns.
WorkEnds == Begun ~> Done
=============================================================================
