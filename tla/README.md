# go-async-practice in TLA+

The repository teaches concurrency in Go: `challenges/` holds programs with deliberate
defects, `solutions/` the corrected ones, and around them are examples, scenarios, in-process
buses and loggers, clients of external services, an interactive course and tools. This
directory models every part whose behaviour is decided by goroutines inside the process: all
solutions, the examples, the scenarios, the buses and the logger of `practical/`, and nearly
all challenges as they are.

Contents: [inventory](#inventory), [modules](#modules), [runs](#runs), [bounds](#bounds),
[fairness](#fairness), [proofs](#proofs), [where code and comments disagree](#where-code-and-comments-disagree),
[not modelled](#not-modelled), [plan](#plan).

Run a configuration with `tlc -config MCDistributedLocks.cfg DistributedLocks`, a proof with
`tlapm LockProofs.tla`. `PROJECT.json` has the exact list of runs, the source lines behind
every definition, the hazards, and for each property faulty variants of the code that it
rejects (the operators commented `Faulty ...`).

## Inventory

A source file demonstrates up to three components one after the other. They share no state
with each other; inside a component goroutines share state under mutexes, atomics and
channels.

| Source | Component: state | Operations | What is hard | What makes it correct |
|---|---|---|---|---|
| challenge09_solution | TTL lock: entry per resource, token counter | acquire, extend, release, cleanup ticker | expiry against extension, late release, crash | one unexpired holder; fencing tokens order the holders |
| | Redlock: entry per node | lock and unlock node by node, retries | time passes between nodes; failed attempts leave entries | one holder within its validity; every client finishes |
| | Lease manager: current lease | acquire, renew, release, cleanup, heartbeat | stale lease pointers | one valid lease, ended only by its holder |
| solution18 | Consumer groups: members, assignments, two mutexes | JoinGroup, rebalance, health check | many rebalances in flight, lock order | assignments settle on active members |
| | Transactions: buffers, partitions | Begin, SendTransactional, Commit | commit message by message | a successful commit has sent everything, in order |
| | Consumption with retries: offset, dead letters | consume, time out, retry, dead-letter, commit | handlers that outlive their timeout, moved partitions | nothing below the offset is unhandled |
| challenge15_solution | Singleflight, hot-key and write-through cache | get, load, notify; count, promote; set, expire | separate locks, failing loads, refill overtaken by a write | one loader; one promotion; stale only by a late refill |
| challenge14_solution | Compensating, orchestrated and choreographed saga | execute, retry, undo, publish, monitor | failing compensation, full channels, dropped events | stock adds up; only done steps are undone, in reverse |
| solution17 | Reliable, bounded and breaker event bus | subscribe, publish, process, clean up, retry | same ID twice, ring at its limit, breaker of separate atomics | once per TTL; accepted events are drained; refused ones kept |
| solution19 | Buffered, structured and multi-sink logger | log, batch, flush, trace, fall back | select may pick the shutdown first; sinks that fail | entries reach every sink in order; what no sink takes goes to the fallback, if there is one |
| challenge10_solution | Vector clocks, Lamport clocks, sequence buffer | send, receive, recheck; swap; add, time out | reordering, lost CAS, timeouts that skip | causal order; total order extends causality |
| challenge11_solution | Pull pipeline, token bucket with breaker, adaptive buffer | pull, close; refill, acquire; enqueue, resize | counters raced by workers | exact counters, conserved tokens, bounded buffer |
| challenge16_solution | Windows, watermarks, checkpoints | add, close; update, classify; checkpoint, recover | window closed under a writer, replay | every event counts once, only late ones are dropped |
| challenge12_solution | Two-phase commit, order saga, event-sourced user | prepare, commit; check, undo; append, project | check-then-act; shared maps | all or nothing; failed orders leave nothing |
| challenge13_solution | Snapshot store, order projections | append, get; publish, update | interval boundary; updates in any order | no event missing or doubled; counts match |
| solution20 | Proof-of-work chain, PBFT node, Raft node | mine, cancel; vote; campaign, propose | unlocked nonce search; votes past the quorum | the chain validates; the log is ordered |
| solution21 | Lock-free, partitioned and optimistic graph | add, search; route, traverse; read, commit | separate atomics, lookup and assignment apart | searches find what is there; stale reads do not commit |
| solution22 | Compressed series, windows, shards | write, flush; close; index, retain | flush beside writes, index beside retention | no point lost or doubled |
| solution23 | Columns, wide-column store, hash ring | insert, encode; put, flush; quorum write | flush clears what it did not copy | columns agree; acknowledged rows are where they belong |
| solution24 | Versioned, content-addressed and chunked store | upload parts, deduplicate, place chunks | appends without lock, reference counts | a read returns what was put or fails |
| practical/event_bus | Breaker, subscribers by priority, workers | publish, subscribe, shut down | slices that share an array | every subscriber once, but for an overwritten one |
| practical/message_bus | Group, rebalance, offsets, retention | join, consume, commit, dead-letter | lock order, offsets without the topic | an offset passes over nothing untried |
| practical/distributed_logging | Ring buffer, batcher, two goroutines | log, read, flush, shut down | a ring without locks | a stored entry is in one place |
| challenge28 | Task scheduler: queue, workers, balancer | submit, schedule, steal, run, fail | worker removed with its queue | no task twice or too early |
| challenge29 | Actors: mailboxes, loops | spawn, send, ask, restart, shut down | two loops of one actor | exact counts while one loop runs |
| challenge30 | Reactive stream: buffer, demand, drains | subscribe, request, emit, cancel | drains side by side | what was buffered is delivered once |
| challenge31 | Distributed transactions: replicas, locks | begin, read, write, commit | partition between prepare and commit | separate transactions leave replicas equal |
| challenges 09 to 17, 19, 20, 22, 25, 26 | Lock, broker, pipeline, stores, replicas, saga, cache, stream, event bus, logger, chain, series, tracer, mesh | as their demonstrations call them | updates nobody waits for, check and append apart, full buffers, closed input | they go wrong in the ways that they are there for and in no other |
| examples 01 to 04, challenges 01 to 06 and 08, solutions 01 to 06 and 08, scenarios | Functions made of goroutines and channels | send, receive, select, close, lock, wait | deadlocks, leaks, sends on closed channels | results, no panic, no goroutine left |
| examples/04, solutions 04 to 08 | Ten shared objects: limiters, pools, queue, breaker, batches | take, give back, enqueue, flush | compare-and-swap loops, rollback beside a refill | limits kept, nothing lost or doubled |

The hazards, each with its line and the properties that would show it going wrong, are in
`PROJECT.json`. They are the 40 most exposed ones; others of the same kind (two first events of
one window, integer division at a buffer limit, a breaker's time stamp without its lock) are
modelled too but not listed one by one.

## Modules

A component is its struct as `VARIABLES`, its constructor as an `Init`, and one action per
critical section, atomic operation or channel operation. An action is as large as the lock held
around it, so whatever two goroutines can interleave, two actions can. Components of one source
file are in one module, each with its own variables and its own `...Init` and `...Next`.

| Module | Models |
|---|---|
| `ExclusiveRight` | what any lock promises: a right is granted only while nobody else has one |
| `TTLLock`, `Redlock`, `LeaseLock` | challenge09_solution, composed in `DistributedLocks`; each implements `ExclusiveRight` by a refinement mapping |
| `ConsumerGroups`, `TransactionalBus`, `RetryConsumer` | solution18, composed in `MessageBus`; `MCMessageBus` has the functions that a configuration cannot write down |
| `EventBuses`, `DistributedLoggers`, `PracticalEventBus`, `PracticalLogging` | solution17, solution19 and two systems of practical/, composed in `EventsAndLogs` |
| `MessageOrdering`, `Backpressure`, `StreamProcessing`, `PracticalMessageBus`, `Patterns` | challenges 10, 11, 16 (solved), the message bus of practical/ and the shared objects, composed in `StreamsAndFlow` |
| `ConsistencyModels`, `EventSourcing`, `BlockchainConsensus`, `SagaPattern` | challenges 12, 13, 14 (solved) and solution20, composed in `ConsistencyAndConsensus` |
| `TaskScheduler`, `ActorModel`, `ReactiveStreams`, `DistributedTransactions` | challenges 28 to 31, composed in `ConsistencyAndConsensus` |
| `GraphDatabase`, `TimeSeriesDB`, `ColumnarStore`, `ObjectStorage`, `Caches` | solutions 21 to 24 and challenge15_solution, composed in `StorageEngines` |
| `GoRuntime` | goroutines, channels, select, WaitGroups and mutexes |
| `GoPrograms`, `ChallengePrograms` | Go's statements, and functions of the repository as programs for `GoRuntime` |
| `LockProofs`, `MessageBusProofs`, `CachesProofs`, `CausalOrderProofs`, `MessageOrderingProofs`, `BackpressureProofs`, `ConsistencyAndConsensusProofs` | theorems |

A composing module follows the driver function: the variable `part` (`solution` for the locks)
says which component runs, the others rest. Its properties are conjunctions of properties that are defined, with their
comments, in the component modules. A component with proofs is extended by its composing module
(`StorageEngines` extends `Caches`, `StreamsAndFlow` extends `MessageOrdering` and
`Backpressure`, `ConsistencyAndConsensus` extends `ConsistencyModels` and `BlockchainConsensus`,
`MessageBus` its three buses, `DistributedLocks` its three locks), so that what the run checks and what the theorem states is one
definition; the others are instances. `GoRuntime` does the same with `prog`: a function of the
repository is a sequence of statements per goroutine, translated line by line, and one
interpreter gives the statements Go's meaning. A function's own state is its channels, a few
memory cells and the map flag that tells an unsynchronised map access. A struct is the cells
that its counters and flags need: in challenge 12 a key is present, nil or written in each of
three stores, in challenge 20 a chain is one of the seven that two miners can make.

Conventions of abstraction:

- A payload is a model value, a serial number or the name of the call that brought it. Time is
  an age or a countdown that a `Tick` action moves; a ticker is an action that may always fire.
- A variable called a history in its comment (for example `overlapped`, `lost`, `beside`)
  records what properties need and no guard reads.
- A data race is a nondeterministic choice, or its steps apart. In the Raft node a goroutine
  reads `successCount` and later writes one more, so an increment may be lost or set the counter
  back; the loads of a partitioned graph are read one by one; where the code appends to a slice without
  a lock, one of two appends may be lost; a map that is written while another goroutine touches
  it stops the program.
- Slices that share an array are modelled as such where it matters: in `PracticalEventBus` a
  worker's append and a `Subscribe` may write the same slot; in the event-sourced user the
  shared map really is shared, so an update changes the stored event.
- Crashes are actions where the code handles them: in the TTL lock and the lease manager a
  holder may stop for ever, the checkpoint manager recovers from any kept checkpoint, the task
  scheduler loses a worker, a participant of a transaction is partitioned.

## Runs

| Run | Question | Result |
|---|---|---|
| `distributed_locks` | Does each of the three locks implement `ExclusiveRight`? TTL lock: is there one unexpired holder, are stale tokens smaller, does a crashed holder's lock go away? Redlock: the same for the quorum of three nodes, and does every client finish? Leases: are they distinct, ended only by their holder, and do abandoned ones end? | holds |
| `message_bus` | Do assignments settle, do commits log everything in order, is no message lost, do rebalances and retry loops end? | holds |
| `events_logs` | Does an event bus or logger lose, repeat or reorder anything beyond what it promises, what does a stuck breaker do, and does shutdown finish? | holds |
| `streams_flow` | Is order kept, are limits kept, does every event count once, do shared objects keep their promise, and do waits end? | holds |
| `consistency` | Do transactions, sagas, projections and snapshots agree with their logs, do the chains validate, do scheduler, actors, streams and distributed transactions do what they can promise, and does begun work end? | holds |
| `storage` | What do the storage engines keep, what do their reads return, when may a cache be stale, and do searches, flushes and promotions end? | holds |
| `go_programs` | What does every function put out under every schedule, may it panic, and does it end without leaving a goroutine? | holds |
| `join_returns` | Does every `JoinGroup` return? | violated |
| `atomic_commit` | Does an aborted transaction leave nothing in the partitions? | violated |
| `every_request` | Does one load answer all requests? | violated |
| `inserts_return` | May rows have columns of strings? | violated |
| `node_loss` | Is an object read when as many nodes are down as it has parity chunks? | violated |

Type invariants are checked in every passing run, by name or as a conjunct of the first
invariant of a component.

Where the code cannot keep a general promise, the property says exactly what remains and what
breaks it, so that it is neither empty nor false. `BusProgress` and `WaitsEnd` except states in
which the lock cycle of `join_returns` is closed. `OutputRight`, `SharedStateSafe` and
`GoroutinesEnd` name the functions that may panic, stop or leak (`MayPanic`, `Stuck`,
`MayStay`); these are the defects that the challenges exist for, and a few of the solutions'.
The conjuncts `StoreExercises` and `ServiceExercises` of `OutputRight` bound the damage in
challenges 10 to 26.
`PracticalRight` excepts an event bus slot that was overwritten and a ring that was full or read
too early; `ServicesRight` excepts actors with two loops and transactions that overlap;
`StoresRight` and `DatabasesRight` except what a flush or a reassigned partition forgets.
`StoresRight` also leaves open what `inserts_return` and `node_loss` refute: it says that columns
of ints never panic, and that a read returns what was put or an error, and what was put if the
data chunks are there. `EntriesKept` lets an entry be in no sink only where no fallback is set
or the fallback failed too, as the code logs it. `ChainsValid` follows every submitted
transaction: pending, in the block being mined, in the chain once, or lost with a cancelled
block and nowhere else; a Raft proposal whose increments were lost may time out, but none is
accepted before a majority has it. The channels of the sagas hold three events, for two sagas
(orchestration) or three (choreography): `SagasConsistent` and `WorkEnds` show that this is
enough for no event to be dropped (challenge14_solution:503) and for the orchestrator, which
sends with `mu` held to the channel that only it reads (:380), not to block. In the program they
hold 100 and 10.

Deadlock is not an error where programs end or, being closed systems with a bounded number of
calls, come to rest.

## Bounds

Bounds are constants named `Max...` that appear in guards, or the size of a set of calls. They
are chosen so that every action fires and the contested cases happen:

- **Locks.** Three nodes or workers, so that a takeover can itself be taken over while the
  first holder is late. TTLs of 1 and 2 differ, so an extension may shorten. Redlock has three
  nodes (the least number with a real majority) and two clients with two attempts. `Drift` is
  0: it only shortens the validity, so 0 is the hardest case.
- **Message bus.** Two consumers of which one reads a second topic, 3 and 1 partitions (uneven
  shares), three joins; two transactions, one with two messages, and two calls of commit for
  either; two retries.
- **Events and logs.** Three calls, two workers, channels and rings of 1 or 2, so that both
  fill and wrap; a multi-sink logger without sinks, with one sink and three calls or with two
  sinks and two calls (`MaxVisits`), with and without a fallback; breakers that open after 2 or 3 and may start with earlier failures; three
  subscribers in an array of four slots, so that one append has room and one has not.
- **Streams.** Three nodes and three messages, where causal chains of length three exist;
  sequence numbers to 5 with room for 2; windows of different close times; a history of 2
  checkpoints of which older ones are dropped; two consumers, two partitions and two topics.
  Shared objects have five callers (three where a call has many steps) and a limit of 2.
- **Consistency.** Two transactions at three participants; orders of 1, 2 and 3 units for a
  stock of 4 and a credit of 3, so stock and money run out at different steps; 7 events with a
  snapshot at every third (the program's interval is 5); three miners; PBFT with four replicas,
  two blocks and eight messages, a quorum of prepares, one of commits and two more; two Raft
  proposals at a leader with two peers (the demonstration has five nodes, the theorem is for any
  number); two or three sagas for stock that suffices for one or two.
- **Services.** Tasks of which one depends on another, two workers of which one stops, retries 0
  and 2; a mailbox of 1, three sends, one restart; four items through a buffer of 2 with two
  drains; the two transactions of the demonstration over two replicas. `IntMax` is 7: the
  demand counter wraps around there, as an int64 does at its largest value.
- **Storage.** Graphs of depth 3 with a BFS queue of 1, so that a level is wider than the queue;
  four points with blocks and buffers of 2; four puts with a memtable of 1; two data chunks and
  one parity chunk with one failure; four cache requests (a loader, a waiter, a late waiter and
  one that meets a failed load), a hot key after 2 of 4 reads beside 2 writes, a subscriber's
  channel of 1 that overflows.
- **Go programs.** Three items and two workers. Every loop of the source that is longer is cut
  to this, which keeps the ratio of senders to capacity: channels are shorter than the work.
  Challenges 12 and 20 have two nodes instead of three, challenges 19, 22 and 25 two entries,
  points or messages per goroutine: enough for a dropped entry, a fork, a conflict of replicas
  and a query before the first point.

Model values are not declared symmetric: several of the runs check liveness, where symmetry
is unsound.

## Fairness

Safety properties need none. Liveness properties assume weak fairness only of

- tickers and time: the cleanup goroutines and `Tick` (`distributed_locks`), `checkTimeouts`
  and the passing of time (`streams_flow`), the expiry of an entry (`storage`);
- goroutines already started that can go on: clients of `Redlock`, rebalances and health
  checks, consumers inside `ConsumeWithRetry`, workers, batchers, services and orchestrator of
  the sagas, a search, a flush, a commit under way.

In a composing module this is one condition, `WF_vars(GoesOn)`: if something that runs by
itself can take a step for ever, something takes one. It is weaker than fairness to each
goroutine and is enough because the begun work is finite. In `GoRuntime` each goroutine has its
own weak fairness; a select chooses at random among the cases that are ready, so a loop whose
select again and again finds the channel that tells it to stop does see it: strong fairness of
`SeesStop`, the only use of strong fairness.

The Go scheduler runs every runnable goroutine eventually, and a Go mutex does not starve a
waiter. Nothing is assumed of callers: no call has to be made, no crashed node returns, no
handler has to succeed.

## Proofs

TLC checks instances; these theorems hold for every value of the constants that satisfies the
named assumptions of the component module.

**`LockProofs`**, for the TTL lock (assumes `None` is no node, TTLs are naturals smaller than `MaxAge`, `MaxToken` is
a natural).
`TypeCorrect`. `LockMutualExclusion`: mutual exclusion is not inductive because it says nothing
about the table; `BelieverOwnsEntry` adds that a node within its TTL owns the entry and that
node and entry agree on age and TTL, so an acquire that finds the entry free or expired finds
no believer. `FencingOrder`: needs that no token is ahead of the counter (`TokensIssued`), so
that a new token exceeds all. `LockImplementsRight`: with the mapping `owners[r]` = nodes
within the TTL of `r`, every step is a `Grant`, a `Lose` or a stutter.

For the lease manager (assumes a positive duration and `Nobody` no worker) the inductive
invariant `LeaseInv` joins the type invariant with: IDs come from the counter, a worker that points
at the current lease is its holder, and no two workers point at one lease.
`LeaseTypeCorrect`, `LeaseMutualExclusion`, `LeaseIDsDistinct`, the action property
`ValidLeaseProtected`, and the refinement `LeaseImplementsRight` follow.

For Redlock (assumes at least one node, a positive TTL, a drift of at most the TTL, at
least one attempt, and `NoEntry` no client), two clients that hold the lock have each locked a
majority, majorities of a finite set meet (`OneHolder`), and an entry has one owner. What makes
this inductive is `WonNodesKept`: an entry that a client locked in its present attempt is still
its own as long as the attempt is younger than the TTL, because an entry is never older than
the attempt that made it. `Cursor` and `Swept` say which nodes the loop has passed and which
the unlocking loop has cleared; the clause of `RedlockSafety` that nothing is left behind needs
them. `RedlockSafe` and the refinement `RedlockImplementsRight` follow.

**`MessageBusProofs`**, for consumer groups (assumes finitely many consumers, `None` not among
them, topics with a natural number of partitions). `GroupsSettle`: types, and `AssignmentSettles`. What settles
says nothing while a rebalance is on its way, so the invariant `GroupInv` follows the rebalance:
from the clearing of the old assignments on, a topic is unassigned or dealt out in turn to the
active members in some order, starting anywhere (`AssignmentsFit`); what is being collected
comes from active members, each once per topic (`Collecting`); and every change of the members
leaves a rebalance still to come. That nobody has two partitions more than another is then
arithmetic: among `m` consecutive numbers two remainders modulo `n` occur equally often, give
or take one (`EvenShares`, an injection that shifts one share into the other). `Paid` counts the
rebalance goroutines against the joins, which gives the bounds in the type invariant.

For retries and transactions (assumes at least one retry; every message has a transaction and a
partition, and finitely many calls of commit are considered) `ConsumerLosesNothing`: everything
below the committed offset was handled or dead-lettered, for any number of consumers working
from stale assignments. The strengthening `PositionsSettled` says that a consumer only moves
past settled messages. `ConsumerTypeCorrect` uses it too. `CommitsKeepTheLog`: every message of a
successful commit is in its partition's log, no message is there more often than commits took
it, and first appearances keep the order of the buffer. The invariant `Books` says that what a
commit took is a prefix of the buffer that only grows and that it has sent a prefix of that;
`SentIsLogged`, `OncePerSender` and `Ordered` relate each such prefix to the logs.
`AssignmentsSettle`, `BusKeepsTheLog` and `BusLosesNothing` carry the three results over to
`BusSpec`, the specification that the run `message_bus` checks (`BusSteps`: a step of the
composition is a step of each bus or leaves it alone).

**`CachesProofs`** (assumes finitely many requests and readers, readers that are not writers,
`None` neither, a positive threshold). `CachesKeepRight` and the action property
`CachesStepRight`. For the stampede, `FlagInv` ties the flag of a loading key to its one loader
and `WaitersInv` says that a waiting request is in the loading key's list or in the copy that a
loader took, never in two, until the program stops. For hot keys `CountInv` bounds the counter by the
readers that have passed it and `PromotionInv` keeps the promoting reader alone. For the
write-through cache `NoticesInv` is an equation: notices taken, dropped, queued and still to be
sent to a node add up to the writes.

**`CausalOrderProofs`** and **`MessageOrderingProofs`** (assume finitely many senders and goroutines, natural bounds, and
that `None` is no message, process or number). `MessagesKeepOrder`: `OrderKept`, the invariant
that the run `streams_flow` checks, for the three ways of challenge 10 side by side. It rests
on one theorem for each.

- `DeliveryIsCausal`, vector clocks. That a node delivers nothing before what it depends on
  (`CausalDelivery`) follows from `DeliveryInv`: the entry of a node's clock for another node is
  the number of that node's messages delivered (`ClockCounts`), the clock is at least that of
  every delivered message (`ClockCovers`), and a message is new by its sender's entry
  (`NewByOwn`). This holds however the channel reorders. That a message is only held back after
  a send overtook another between stamp and channel (`HeldOnlyIfOvertaken`) is the harder half.
  As long as nothing was overtaken, `InOrder` (the subject of `CausalOrderProofs`) follows every message from the stamp to the
  channel, through the copying to the inboxes: what one node has counted for itself and another
  has not yet is in hand, in the channel or in the other's inbox (`Located`), messages of one
  sender are there in the order of its clock (`HandOrder`, `HandLast`, `ChannelOrder`,
  `InboxOrder`), and whatever a message depends on is in front of it (`InboxCauses`,
  `ChannelCauses`). So the head of an inbox is always ready (`HeadIsReady`). The invariant is
  `CausalTypes /\ DeliveryInv /\ (overtaken \/ InOrder)`.
- `LamportOrderIsCausal`, Lamport clocks. A timestamp is at most its sender's clock
  (`OwnClock`), above all that the sender knew (`KnewLess`), and the pair of timestamp and
  process is unique (`OneStamp`) although the clock is raised by a compare-and-swap that may
  lose. Clocks are bounded by the operations that have counted (`Ticks`).
- `BufferDeliversInOrder`, sequence numbers. What `addMessage` delivers is the longest run of
  waiting numbers (`RunEnds`), and the number after a timeout is the least that waits.

**`BackpressureProofs`** (assumes finitely many workers and requests, natural sizes, and that
the adaptive buffer starts between the sizes at which it shrinks and grows, as the constructor's
arguments do). `FlowStaysBounded`. `inflight` is the number of workers between a pull and their
release, and a task is in the hands of one worker (`TasksApart`); a circuit that was seen open
comes after `threshold` failures (`Opened`); the adaptive buffer keeps its items ascending and
its sizes between the two limits of `SizesKept`, the rounding of the integer division included.

**`ConsistencyAndConsensusProofs`**, for solution20 (assumes finitely many transfers, proposals
and peers, at least one replica). `ChainsStayValid`. The mining flag keeps all miners but one out (`OneMines`), so
the block searched for still follows the last one (`OnTop`), a transaction is in one place
(`Apart`) and every submitted one is somewhere (`Kept`). PBFT: a block is in the chain as often as commits reached or passed the quorum
(`Counted`). Raft: the racy success counter is at most one more than the goroutines that wrote
it, and so is what a goroutine has read (`PeersCounted`), so whoever finds it above half has a
majority (`ByMajority`, `Accepted`); an entry's index is its place in the log (`Placed`), and the chain has the
accepted proposals once (`ChainExact`).

For the two-phase commit of challenge 12 (assumes finitely many participants and transactions)
`CommitIsAtomic`: nobody writes a transaction before all have prepared it, a returned one is
written everywhere, and participants at rest agree on the version. `AllOrNothing` does not say
why the last vote may start the commit; `CommitInv` does. The votes are the participants whose
goroutine has run (`Voting`), in the second phase a transaction is prepared exactly where it is
not written (`Committing`), and a version is the number of transactions written there
(`VersionsCount`).

The inductive invariants of all modules were model-checked on the instances of the runs before
they were proved.

**Model-checked only.** All liveness properties (fairness and `ENABLED` are beyond the
prover). What recursive functions and folds compute, which needs induction over data:
`StreamExact` and `OutputRight` depend on sums and on programs that are data, and so do the
conjuncts of `StoresAgree` about the order saga (stock is what the completed orders leave, a
sum) and the event-sourced user (a replay). Not attempted yet: `EventsKept`, `EntriesKept`,
`PracticalRight`, `ObjectsRight`, `SagasConsistent`, `ServicesRight`, `DatabasesRight` and
`StoresRight`. `GoRuntime` interprets programs, and its properties are about each program.

## Where code and comments disagree

Five disagreements have runs of their own.

1. `solution18_message_bus.go:264`: `rebalance` takes `mb.mu` while it holds `group.mu`;
   `JoinGroup` takes them the other way round. The second `JoinGroup` can block for ever
   (`join_returns`).
2. `solution18_message_bus.go:389` says "Send all messages atomically". When a later `Send`
   fails the earlier messages stay in their partitions (`atomic_commit`).
3. `challenge15_solution.go:160` prints that one load answers all requests. Requests that join
   during a load are in no list the loader notifies (`every_request`).
4. `solution23_columnar_storage.go:174` takes every value for an int when it updates a column's
   minimum. The demonstration and `tests/solutions_test.go:327` insert rows with a column of
   strings and go on to query them; the second such `Insert` panics (`inserts_return`).
5. `solution24_object_storage.go:21` and `:1020` promise erasure coding for fault tolerance.
   `decode` (:887) does not look at the parity chunks, so one inactive data node makes `Get` fail
   (`node_loss`).

The models admit further behaviours that a reader of the comments may not expect. They have no
run; the properties that are checked are stated so that they hold nevertheless.

Messages and events:

- `CommitTransaction` does not test the state, so a repeated commit sends the messages again;
  `SendTransactional` tests it outside the lock, so a message may be accepted after the commit
  has copied the buffer and is never sent (solution18:385, :371; line 15 promises exactly-once).
- A dead-lettered message commits no offset: as the last of its batch it is dead-lettered again
  (solution18:561).
- practical/message_bus_example.go:14 promises exactly-once semantics. Consumers that overlap
  handle a message twice, and offsets are kept by partition number whatever the topic (:449), so
  a second topic moves them over messages that nobody tried. `handleFailedMessage` counts the
  attempts in its own copy of the message (:428), so no message ever reaches the dead letter
  queue. Its `JoinGroup` and `rebalance` have the lock cycle of solution18 (:272).
- An event whose handlers failed stays among the processed IDs, so publishing it again within
  the TTL is answered as a duplicate (solution17:120).
- A breaker that stores its state and its counter apart may stay half-open for good
  (solution17:485); `BreakerSound` shows that this takes a store that was outdated. The breaker
  of practical/event_bus_example.go has no caller of `RecordSuccess`; half-open with its
  failures at the limit it refuses everything (:280).
- A worker of practical/event_bus_example.go appends the wildcard handlers to the subscribers'
  array (:184); a `Subscribe` at the same time may overwrite one.
- The ring of practical/distributed_logging_example.go claims a position before it sees that it
  is full and does not give it back (:150): the reader passes over it or reads an old entry.
- One pass over the pending messages may leave one that has just become ready
  (challenge10_solution:163). `HeldOnlyIfOvertaken` shows that this takes a send that overtook
  another of its node between stamp and channel.

Caches, stores and transactions:

- The cache is not looked at again under the loading lock, so a fresh key may be loaded twice
  (challenge15_solution:101). A promotion may leave an old value in the hot-key replica until
  the next write (:190). A refill overtaken by a write leaves the old value for one TTL (:333),
  although line 385 prints that consistency is guaranteed.
- A BFS level wider than the queue stops the search (solution21:140). Two calls of
  `getPartition` may give one node two partitions (:300). Overlapping commits of the optimistic
  graph may lower a node's version, although none commits a stale read.
- A block of the time series answers a query with its start only (solution22:191). What is
  `Put` while the memtable is flushed is in no table, and `Get` does not read the tables of a
  flush (solution23:636). `decompress` does not invert `compress` (solution24:582), and a chunk
  location may be lost by two appends at once (:750).
- Two transactions that commit side by side may leave participants with different values
  (challenge12_solution:108, and challenge31:333 where in addition nobody is told to abort).
  Order sagas may overdraw stock together (challenge12_solution:254). Concurrent commands may
  project in the other order (:392). Participants of the two-phase commit always vote yes, so
  `abort` is never called.
- The status of an order projection is that of the goroutine that ran last, not of the last
  event (challenge13_solution:276), and `TotalSpent` stays 0 because no event has both a
  customer and an amount.
- A step stays in the execution history after its compensation, so a saga run again skips it
  and reports success (challenge14_solution:67). Success events of compensation commands turn a
  failed orchestrated saga into a completed one (:375). The choreography's monitor reports
  compensation before the inventory is released (:631).

Streams, chains, services and programs:

- Concurrent watermark updates may move the watermark back, against the comment in
  challenge16_solution:223; the driver calls them in sequence.
- Transactions of a cancelled block are lost (solution20:122). The PBFT node appends a block
  again for every commit past the quorum and counts commits without their senders (:300). The
  Raft node never receives a vote; its `commitIndex` may go back when two proposals commit out
  of order, an entry whose proposal timed out stays in the log, and a follower's timeout may
  overwrite the leader state that the demonstration sets (:444, :576, :581).
- The task scheduler never steals (no local queue gets two tasks), never runs again what failed
  with retries left, and loses the queue of a stopped worker (challenge28:164). A restarted
  actor runs beside its first loop and may lose an increment (challenge29:195). A second
  `Request` makes an unbounded demand negative, and two drains deliver out of order
  (challenge30:148). These challenges mark most of them as bugs.
- Senders that `managerCleanup` does not wait for may meet a closed channel
  (solution06:464); the token limiter's rollback beside a refill lifts the tokens above the
  limit (solution07:219); the batch processor's `Stop` leaves items in its channel
  (examples/04:389); the chat room of scenarios/real_world.go stops at the first join because
  its manager sends to itself (:220).
- Challenge 11 closes its input under the producer, which panics, and waits for consumers whose
  results nobody takes any more (challenge11:144). The asynchronous refill of challenge 12 may
  leave nil in the cache for a written key (:85), and two replicas that both wrote a first
  version never agree (:211). `ResolveForks` of challenge 20 leaves different chains of the same
  length, and a block may follow one that it does not refer to (:185). `Downsample` of challenge
  22 fails on a series whose first point is still to be stored (:200).

## Not modelled

- Challenges 07, 18, 21, 23 and 24: exercises whose solved forms are modelled; 18 redelivers
  without end, the demonstrations of the others make calls of one critical section each.
  Challenge 27 (CQRS): all its handlers race on shared maps and slices, and nothing can be said
  of what is left. Of challenges 09 to 26 the methods that nothing calls, and the endless health
  check of 26, whose effect is a choice in the model. Challenge 32 (Raft): a node reads a nil timer before any
  message is exchanged, and `becomeLeader` locks a mutex that its caller holds, so no election
  is ever won.
- `practical/` except its in-process event bus, message bus and logger: clients of Kafka,
  RabbitMQ, Redis, NATS and databases whose state is outside the repository.
- `interactive/`, `tracker/`, `internal/evaluator`, `debugger/`, `visualizer/`, `cmd/`: dialogues,
  a progress file, timings, drawings and dispatch. Tests and benchmarks are the expectations
  that the models were read against.
- Event versioning (challenge13_solution): a stateless dispatch on the version.
- `Subscribe` of solution17's bounded bus after the first `Publish`: it shifts the list in place
  under workers that iterate over it (:252). The driver subscribes first, and so does the
  model; the same hazard is modelled in `PracticalEventBus`.
- Memory pools, pre-allocation and timing comparisons of solutions 05 and 08, and the tokens,
  sanitising, sessions and nonces of solution 07: no state that goroutines contend for beyond a
  single critical section.
- Duplicates in solution18's dead letter queue, which is modelled as a set.

Inside modelled components: wording, logging, latencies and averages, and branches that no
caller reaches (listed in the component notes of `PROJECT.json`).

## Plan

Done: the locks with their abstract specification and proofs; the distributed components of
challenges 09 to 16 and solutions 17 to 24; examples, scenarios, the small solutions and the
challenges up to 26 as programs of one Go runtime; the in-process systems of `practical/`; the services of challenges
28 to 31; proofs about the three locks, the three message buses, the caches, the order of
messages, backpressure, two-phase commit and the chains.

Next, in this order:

1. **Proofs.** The event buses (`EventsKept`), the loggers (`EntriesKept`), the sagas
   (`SagasConsistent`): each is to be extended by its composing module first.
2. **Late `Subscribe`** of solution17's bounded bus, with one call of a handler per step.
3. **Refinement.** An abstract bounded pool that the semaphores, the connection pool and the
   file pool implement; an abstract log that the buffered, structured and practical loggers do.
