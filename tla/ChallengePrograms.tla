------------------------- MODULE ChallengePrograms -------------------------
(***************************************************************************)
(* The functions of challenges/challenge01 to challenge26, with the faults *)
(* that they are there for, and the scenarios of scenarios/real_world.go,  *)
(* as programs for GoRuntime.                                              *)
(***************************************************************************)
EXTENDS GoPrograms

Challenge01_FixDeadlock ==
    [cap |-> [ch1 |-> 0, ch2 |-> 0],
     code |-> <<<<Spawn({2, 3})>>,
                <<Send("ch1", Const(1)), Receive("ch2"), Result(Same)>>,
                <<Send("ch2", Const(2)), Receive("ch1"), Result(Same)>>>>]

Challenge02_FixRaceCondition ==
    [cap |-> NoChannels,
     code |-> <<<<Go("wg", {2} \cup PoolFrom(3)), Wait("wg"), MapRead>>,
                <<For(2, 4), MapRead, Goto(1), Done("wg")>>>>
              \o Pool(<<For(2, 6), MapRead, MapWrite, MapWritten, Goto(1), Done("wg")>>)]

Challenge03_FixGoroutineLeak ==
    [cap |-> [ch |-> 0],
     code |-> <<<<Spawn({2}), For(Items, Return), Receive("ch"), Result(Same), Goto(2)>>,
                <<Send("ch", Const(1)), Goto(1)>>>>]

Challenge04_ImplementRateLimiter ==
    [cap |-> [requests |-> Items],
     code |-> <<<<For(Items, 4), Send("requests", Same), Goto(1), Close("requests")>>
                    \o CollectAt(5, "requests")>>]

\* No case of the workers' select ever sees that done is closed.
Challenge05_MemoryLeak ==
    [cap |-> [data |-> Items, done |-> 0],
     code |-> <<<<Go("wg", PoolFrom(2)), For(Items, 5), Send("data", Same), Goto(2),
                  Close("done")>>>>
              \o Pool(<<Select({Rcv("data", Fall), Default(1)}), Result(Same), Goto(1)>>)]

Challenge06_ResourceLeak ==
    [cap |-> [done |-> 0],
     code |-> <<<<Go("wg", PoolFrom(3)), Spawn({2}), Select({Rcv("done", Fall), After(Fall)})>>,
                Closer("wg", "done")>>
              \o Pool(<<Either({Fall, 3}), Result(Const(1)), Done("wg")>>)]

\* The results are received until the closer closes them; then the counter is polled.
Challenge08_PerformanceIssue ==
    [cap |-> [results |-> 0],
     code |-> <<<<Go("wg", PoolFrom(3)), Spawn({2}), RangeOver("results", 6), Result(Const(1)),
                  Goto(3), IfAtLeast("x", Workers, Return), Goto(6)>>,
                Closer("wg", "results")>>
              \o Pool(<<Lock("mu"), AddTo("x", 1), Load("x"), Unlock("mu"),
                        Select({Snd("results", Same, Fall), After(Fall)}), Done("wg")>>)]

Challenge08_Benchmark ==
    [cap |-> NoChannels,
     code |-> <<<<Go("wg", PoolFrom(2)), Wait("wg"), Load("x"), Result(Same),
                  Go("inner", PoolFrom(Workers + 2)), Wait("inner"), Load("y"), Result(Same)>>>>
              \o Pool(<<Lock("mu"), Load("x"), Store("x", Plus(1)), Unlock("mu"), Done("wg")>>)
              \o Pool(<<AddTo("y", 1), Done("inner")>>)]
-----------------------------------------------------------------------------
\* A step of processOrder: the context's deadline (5 s) and its own time end the select,
\* and the answer is 1 or, for an error, 0.
OrderStep == <<Either({2, 4}), Send("results", Const(1)), Goto(5), Send("results", Const(0)), Done("wg")>>

\* Any error rolls the order back (2); without one it is completed (1).
Scenario1_ECommercePlatform ==
    [cap |-> [results |-> 3],
     code |-> <<<<Go("wg", {3, 4, 5}), Spawn({2}), RangeOver("results", 7), IfIn({1}, 3),
                  AddTo("x", 1), Goto(3), IfAtLeast("x", 1, 10), Lock("mu"), Goto(12),
                  Result(Const(2)), Goto(Return), Result(Const(1)), Unlock("mu")>>,
                Closer("wg", "results"), OrderStep, OrderStep, OrderStep>>]

\* The manager of the room (2). x and y tell whether the two users have joined, and under
\* which channel: 1 for the one that the manager makes, which nobody reads, 2 for the
\* user's own.
ChatManager ==
    <<Select({Rcv("join", Fall), Rcv("leave", 9), Rcv("broadcast", 23)}),
      Lock("mu"), IfIn({2}, 6), Store("x", Const(1)), Goto(7), Store("y", Const(1)), Unlock("mu"),
      Goto(21),
      Lock("mu"), IfIn({2}, 16), IfAtLeast("x", 2, 13), Goto(14), Close("ch1"),
      Store("x", Const(0)), Goto(20), IfAtLeast("y", 2, 18), Goto(19), Close("ch2"),
      Store("y", Const(0)), Unlock("mu"),
      Send("broadcast", Const(0)), Goto(1),
      RLock("mu"), IfAtLeast("x", 2, 26), Goto(27), Select({Snd("ch1", Same, Fall), Default(Fall)}),
      IfAtLeast("y", 2, 29), Goto(30), Select({Snd("ch2", Same, Fall), Default(Fall)}),
      RUnlock("mu"), Goto(1)>>

\* A user joins, registers a channel, has it read, says something and leaves.
ChatUser(u, x, reader) ==
    <<Send("join", Const(u)), Lock("mu"), Store(x, Const(2)), Unlock("mu"), Spawn({reader}),
      Send("broadcast", Const(u)), Send("leave", Const(u)), Done("wg")>>

Scenario2_RealTimeChat ==
    [cap |-> [join |-> 0, leave |-> 0, broadcast |-> 0, ch1 |-> 1, ch2 |-> 1],
     code |-> <<<<Spawn({2}), Go("wg", {3, 4}), Wait("wg")>>, ChatManager,
                ChatUser(1, "x", 5), ChatUser(2, "y", 6),
                <<RangeOver("ch1", Return), Result(Same), Goto(1)>>,
                <<RangeOver("ch2", Return), Result(Same), Goto(1)>>>>]

\* selectServer and handleRequest over two servers: z is current, x and y the loads. What
\* healthCheck has last made of a server's health is an Either.
BalancedRequest ==
    <<For(4, 13), AddAndLoad("z", 1), Either({Fall, 1}), IfIn(Odd, 9),
      AddTo("x", 1), Result(Const(1)), AddTo("x", -1), Goto(13),
      AddTo("y", 1), Result(Const(1)), AddTo("y", -1), Goto(13), Done("wg")>>

Scenario3_LoadBalancer ==
    [cap |-> NoChannels,
     code |-> <<<<Go("wg", PoolFrom(2)), Wait("wg")>>>> \o Pool(BalancedRequest)]

Scenario4_DataPipeline ==
    [cap |-> [collected |-> 1, transformed |-> 1],
     code |-> <<<<Spawn({2}), Spawn({3})>> \o CollectAt(3, "transformed"),
                ProduceAndClose("collected"),
                <<RangeOver("collected", 5), Either({1, Fall}), Send("transformed", Same), Goto(1),
                  Close("transformed")>>>>]
-----------------------------------------------------------------------------
\* Faulty: acquire does not look who holds the lock.
acquireUnchecked == <<Lock("mu"), Goto(3), Store("x", Const(1)), Unlock("mu")>>

\* x tells whether the resource is locked. A node that finds it locked unlocks mu at 9.
acquire == <<Lock("mu"), IfAtLeast("x", 1, 9), Store("x", Const(1)), Unlock("mu")>>

release == <<Lock("mu"), Store("x", Const(0)), Unlock("mu")>>

LockNode == acquire \o release \o <<Goto(10), Unlock("mu"), Done("wg")>>

Challenge09_DistributedLockProblem ==
    [cap |-> NoChannels,
     code |-> <<<<Go("wg", PoolFrom(2)), Wait("wg"), Load("x"), Result(Same)>>>> \o Pool(LockNode)]

\* Three messages, of which the second resets the counter x and the others add to it. Every
\* handler runs in a goroutine of its own (2 to 4).
Challenge10_MessageOrderingProblem ==
    [cap |-> [messages |-> Items],
     code |-> <<<<Lock("mu"), Unlock("mu"), Go("wg", PoolFrom(5)), For(3, 7),
                  Select({Snd("messages", Same, Fall), Default(Fall)}), Goto(4),
                  Close("messages"), Wait("wg"), Load("x"), Result(Same)>>,
                <<Lock("mu2"), AddTo("x", 1), Unlock("mu2")>>,
                <<Lock("mu2"), Store("x", Const(0)), Unlock("mu2")>>,
                <<Lock("mu2"), AddTo("x", 1), Unlock("mu2")>>>>
              \o Pool(<<RangeOver("messages", 12), RLock("mu"), RUnlock("mu"),
                        IfIn({2}, 8), IfIn({3}, 10),
                        Spawn({2}), Goto(1), Spawn({3}), Goto(1), Spawn({4}), Goto(1),
                        Done("wg")>>)]

AppendVersion(k) == <<Lock("mu"), Result(Const(k)), Unlock("mu"), Done("wg")>>

demonstrateEventSourcingProblem ==
    [cap |-> NoChannels,
     code |-> <<<<Go("wg", {2, 3, 4}), Wait("wg"), Lock("mu"), Unlock("mu")>>,
                AppendVersion(1), AppendVersion(2), AppendVersion(3)>>]

\* processResults is goroutine 2; the last one is the context's timeout. The goroutine that
\* prints the lengths of the channels is left out.
Challenge11_BackpressureProblem ==
    [cap |-> [input |-> 1, output |-> 1, ctx |-> 0],
     code |-> <<<<Go("wg", PoolFrom(3)), Spawn({2, Workers + 3, Workers + 4}), Token("ctx"),
                  Close("input"), Wait("wg"), Close("output")>>,
                <<Select({Rcv("ctx", Return), Rcv("output", Fall)}), Goto(1)>>>>
              \o Pool(<<Select({Rcv("ctx", 4), Rcv("input", Fall)}), Send("output", Same), Goto(1),
                        Done("wg")>>)
              \o <<<<Select({Rcv("ctx", Return), Default(Fall)}), Send("input", Const(1)), Goto(1)>>,
                   <<Cancel("ctx")>>>>]

runStage(in, out) == <<RangeOver(in, Return), Send(out, Same), Goto(1)>>

Challenge11_StreamProcessingProblem ==
    [cap |-> [input |-> 1, stage0 |-> 1, stage1 |-> 1, stage2 |-> 1, output |-> 1],
     code |-> <<<<Spawn(2 .. 5)>>, runStage("input", "stage0"), runStage("stage0", "stage1"),
                runStage("stage1", "stage2"), runStage("stage2", "output")>>]

\* One key, which is all that a writer and a reader share: x in the primary database, y in
\* the cache, z in the index. 0 is no entry, 1 an entry that holds nil, 2 the written value;
\* w is the reader's value, as the goroutine that fills the cache (4) sees it.
Challenge12_ConsistencyProblem ==
    [cap |-> NoChannels,
     code |-> <<<<Go("wg", {2, 3}), Wait("wg"), RLock("mu"), RLock("mu2"), Load("y"),
                  RUnlock("mu2"), RLock("mu3"), IfAtLeast("z", 2, 11), RUnlock("mu3"), Goto(13),
                  RUnlock("mu3"), IfIn({2}, 15), Result(Const(2)), Goto(16), Result(Const(1)),
                  RUnlock("mu")>>,
                <<Lock("mu"), Store("x", Const(2)), Unlock("mu"),
                  Lock("mu2"), Store("y", Const(2)), Unlock("mu2"), Either({Fall, 11}),
                  Lock("mu3"), Store("z", Const(2)), Unlock("mu3"), Done("wg")>>,
                <<RLock("mu2"), Load("y"), RUnlock("mu2"), IfIn({1, 2}, 10),
                  RLock("mu"), Load("x"), RUnlock("mu"), Store("w", Same), Spawn({4}),
                  Result(Same), RLock("mu"), Load("x"), RUnlock("mu"), Result(Same), Done("wg")>>,
                <<Lock("mu2"), Load("w"), Store("y", [v \in Values |-> IF v = 0 THEN 1 ELSE v]),
                  Unlock("mu2")>>>>]

\* A replica writes k and counts its version; what replicate then starts for the other
\* replica follows after Done, which only the function waits for.
Replicate(k, mine, data, version, theirs, theirData, theirVersion) ==
    <<Lock(mine), Store(data, Const(k)), AddAndLoad(version, 1), Unlock(mine), Done("wg"),
      Lock(theirs), IfIn({2}, 10), IfAtLeast(theirVersion, 1, 13), Goto(11),
      IfAtLeast(theirVersion, 2, 13), Store(theirVersion, Same), Store(theirData, Const(k)),
      Unlock(theirs)>>

\* Two of the three replicas: their data in x and y, their versions in z and w.
Challenge12_EventualConsistencyProblem ==
    [cap |-> NoChannels,
     code |-> <<<<Go("wg", {2, 3}), Wait("wg"), RLock("mu"), Load("x"), RUnlock("mu"), Result(Same),
                  RLock("mu2"), Load("y"), RUnlock("mu2"), Result(Same)>>,
                Replicate(1, "mu", "x", "z", "mu2", "y", "w"),
                Replicate(2, "mu2", "y", "w", "mu", "x", "z")>>]

\* x counts the events. AppendEvent leaves the append to a goroutine that nobody waits for.
AppendEvent == <<Lock("mu"), AddTo("x", 1), Unlock("mu")>>

\* Like CreateSnapshot, which ends with a state that is always nil.
ReplayEvents == <<RLock("mu"), Load("x"), RUnlock("mu")>>

Challenge13_EventSourcingProblem ==
    [cap |-> NoChannels,
     code |-> <<<<Go("wg", {2, 3}), Wait("wg"), Spawn({6})>> \o ReplayEvents \o <<Result(Same)>>,
                <<Spawn({4}), Done("wg")>>, <<Spawn({5}), Done("wg")>>,
                AppendEvent, AppendEvent, ReplayEvents>>]

\* The results are the compensations. The second or the third step may fail; Execute then
\* compensates all steps up to and with the failed one, in their order.
Execute ==
    <<Lock("mu"), Either({Fall, 6}), Either({Fall, 10}), Unlock("mu"), Goto(Return),
      Result(Const(1)), Result(Const(2)), Unlock("mu"), Goto(15),
      Result(Const(1)), Result(Const(2)), Result(Const(3)), Unlock("mu"), Goto(19)>>

\* For the steps that were executed, all at once
CompensateAsync ==
    <<Lock("mu"), Unlock("mu"), Go("wg", {2}), Goto(22),
      Lock("mu"), Unlock("mu"), Go("wg", {2, 3}), Wait("wg")>>

CompensateStep(k) == <<Result(Const(k)), Lock("mu"), AddTo("x", 1), Unlock("mu"), Done("wg")>>

Challenge14_SagaPatternProblem ==
    [cap |-> NoChannels,
     code |-> <<Execute \o CompensateAsync, CompensateStep(1), CompensateStep(2)>>]

\* Get of one key by all: x tells whether it is cached, y counts its hits, z the loads. An
\* entry may have expired when it is looked at.
CacheGet ==
    <<RLock("mu"), Load("x"), RUnlock("mu"), IfIn({0}, 6), Either({6, 11}),
      AddTo("z", 1), Lock("mu"), Store("x", Const(1)), Unlock("mu"), Goto(14),
      Lock("mu"), AddTo("y", 1), Unlock("mu"), Done("wg")>>

GetHotKeys == <<RLock("mu"), Load("y"), RUnlock("mu"), Result(Same)>>

EvictAt(at) == <<Lock("mu"), Either({Fall, at + 3}), Store("x", Const(0)), Unlock("mu")>>

Challenge15_DistributedCacheProblem ==
    [cap |-> NoChannels,
     code |-> <<<<Go("wg", PoolFrom(2)), Wait("wg")>> \o GetHotKeys \o EvictAt(7)>>
              \o Pool(CacheGet)]

\* x counts the processed events, y those dropped as late.
ProcessStream ==
    <<Select({Rcv("inputChan", Fall), Rcv("ctx", Return)}), Lock("mu"), Unlock("mu"),
      Lock("mu2"), Unlock("mu2"), AddTo("x", 1), Goto(1)>>

\* The source (4), the ticker with Checkpoint (3) and the timeout (5). inputChan has room for
\* all events.
Challenge16_StreamProcessingProblem ==
    [cap |-> [inputChan |-> Items, ctx |-> 0],
     code |-> <<<<Spawn(2 .. 5), Token("ctx")>>, ProcessStream,
                <<Select({After(Fall), Rcv("ctx", Return)}), Lock("mu3"), Unlock("mu3"), Goto(1)>>,
                <<For(Items, Return), Either({Fall, 5}), AddTo("y", 1), Goto(1),
                  Send("inputChan", Same), Goto(1)>>,
                <<Cancel("ctx")>>>>]

\* Publish waits for both handlers of an event.
Publish == <<Lock("mu"), Unlock("mu"), Go("wg", {2, 3}), Wait("wg")>>

RunChallenge17 ==
    [cap |-> NoChannels,
     code |-> <<<<For(Items, 7)>> \o Publish \o <<Goto(1), RLock("mu"), RUnlock("mu")>>,
                <<Result(Const(1)), Done("wg")>>, <<Result(Const(2)), Done("wg")>>>>]

\* x counts the entries that processLogs has handled, z those that the network sink refused:
\* nobody empties its buffer.
processLogs ==
    <<Select({Rcv("buffer", Fall), Rcv("closed", Return)}),
      Select({Snd("sink", Same, 4), Default(Fall)}), AddTo("z", 1),
      Lock("mu"), AddTo("x", 1), Unlock("mu"), Goto(1)>>

\* Log drops an entry, which y counts, if the buffer is full.
LogEach(n) ==
    <<For(n, 5), Select({Snd("buffer", Same, 1), Default(Fall)}), AddTo("y", 1), Goto(1),
      Done("wg")>>

\* Two entries from each goroutine, and then GetMetrics
RunChallenge19 ==
    [cap |-> [buffer |-> 1, sink |-> 1, closed |-> 0],
     code |-> <<<<Spawn({2}), Go("wg", PoolFrom(3)), Wait("wg"), Lock("mu"), Load("x"),
                  Unlock("mu"), Result(Same)>>,
                processLogs>>
              \o Pool(LogEach(2))]

\* The chains of two nodes, as the blocks of the one (A) and of the other (B) with their
\* heights: 0 genesis only, 1 A1, 2 B1, 3 A1 B1, 4 B1 A1, 5 A1 B2, 6 B1 A2.
LongChains == 3 .. 6

\* The block is valid on top of the chains valid; otherwise AddBlock ends.
ValidateBlockAt(at, chain, mu, valid) ==
    <<RLock(mu), Load(chain), RUnlock(mu), IfIn(valid, at + 5), Goto(at + 9)>>

\* The append has a lock of its own.
AddBlockAt(at, chain, mu, valid, append) ==
    ValidateBlockAt(at, chain, mu, valid)
    \o <<Lock(mu), Load(chain), Store(chain, append), Unlock(mu)>>

\* BroadcastBlock to both nodes, in either order
BroadcastAt(at, valid, append) ==
    <<Either({at + 1, at + 20})>>
    \o AddBlockAt(at + 1, "x", "mu", valid, append) \o AddBlockAt(at + 10, "y", "mu2", valid, append)
    \o <<Goto(at + 38)>>
    \o AddBlockAt(at + 20, "y", "mu2", valid, append) \o AddBlockAt(at + 29, "x", "mu", valid, append)

\* On top of what the node has: genesis, or the block of its peer, and then from 44 on
MineBlock(chain, mu, peer) == <<RLock(mu), Load(chain), RUnlock(mu), IfIn({peer}, 44)>>

Miner(chain, mu, peer, first, second) ==
    MineBlock(chain, mu, peer)
    \o BroadcastAt(5, {0}, first) \o <<Goto(82)>> \o BroadcastAt(44, {peer}, second)
    \o <<Done("wg")>>

\* Faulty: the first node does not take over the longer chain of the second.
ResolveForksOneWay ==
    <<Load("y"), IfIn(LongChains, 9), Load("x"), IfIn(LongChains, 8), Goto(13), Store("y", Same),
      Goto(10), Goto(11), Goto(12), Goto(13)>>

\* The longer chain wins. From statement 3 on
ResolveForks ==
    <<Load("y"), IfIn(LongChains, 9), Load("x"), IfIn(LongChains, 8), Goto(13), Store("y", Same),
      Load("x"), IfIn(LongChains, 13), Load("y"), Store("x", Same)>>

\* The results are the lengths.
RunChallenge20 ==
    LET A1 == [v \in Values |-> IF v = 0 THEN 1 ELSE 4]
        B1 == [v \in Values |-> IF v = 0 THEN 2 ELSE 3]
        length == [v \in Values |-> IF v = 0 THEN 1 ELSE IF v \in LongChains THEN 3 ELSE 2]
    IN  [cap |-> NoChannels,
         code |-> <<<<Go("wg", {2, 3}), Wait("wg")>> \o ResolveForks
                    \o <<Load("x"), Result(length), Load("y"), Result(length)>>,
                    Miner("x", "mu", 2, A1, Const(6)), Miner("y", "mu2", 1, B1, Const(5))>>]

\* x counts the points of the series, y tells whether it is there: processWrites makes it
\* before it stores the first point.
processWrites ==
    <<RangeOver("writeBuffer", Return), Lock("mu"), Store("y", Const(1)), Unlock("mu"),
      Lock("mu2"), AddTo("x", 1), Unlock("mu2"), Goto(1)>>

\* Write drops a point if the buffer is full.
WriteEach(n) == <<For(n, 3), Select({Snd("writeBuffer", Same, 1), Default(1)}), Done("wg")>>

Query ==
    <<RLock("mu"), RLock("mu2"), Load("x"), RUnlock("mu2"), RUnlock("mu"), Result(Same)>>

\* From statement 10 to 24: it looks at the first point, keeps one for each full window and
\* drops the last window.
Downsample ==
    <<RLock("mu"), IfAtLeast("y", 1, 14), RUnlock("mu"), Goto(25),
      RUnlock("mu"), Lock("mu3"), Unlock("mu3"), Lock("mu2"), IfAtLeast("x", 1, 20), Panic,
      AddTo("x", -1), IfAtLeast("x", 1, 23), Goto(24), Either({20, 24}), Unlock("mu2")>>

\* From 27 on; one result for each point, if there is a series
ApplyAggregation ==
    <<RLock("mu"), IfAtLeast("y", 1, 31), RUnlock("mu"), Goto(Return),
      RUnlock("mu"), RLock("mu2"), Load("x"), Result(Same), RUnlock("mu2")>>

\* Two points from each goroutine. Between Downsample and ApplyAggregation is
\* CreateAggregation.
RunChallenge22 ==
    [cap |-> [writeBuffer |-> Workers * 2],
     code |-> <<<<Spawn({2}), Go("wg", PoolFrom(3)), Wait("wg")>> \o Query \o Downsample
                \o <<Lock("mu"), Unlock("mu")>> \o ApplyAggregation,
                processWrites>>
              \o Pool(WriteEach(2))]

\* x counts the spans that the tracer keeps, y those that processSpans (2) has received.
StartSpan == <<Lock("mu"), AddTo("x", 1), Unlock("mu"), Send("buffer", Const(1))>>

processSpans ==
    <<Select({Rcv("buffer", Fall), Rcv("shutdown", Return)}), AddTo("y", 1), Goto(1)>>

\* Service B (3) stands for all that start spans on their own; then the producer of two
\* messages (4) and their consumers.
Challenge25DistributedTracing ==
    [cap |-> [buffer |-> 0, shutdown |-> 0, msgChan |-> 2],
     code |-> <<<<Spawn({2}), Go("wg", {3, 4} \cup PoolFrom(5)), Wait("wg")>>,
                processSpans,
                StartSpan \o <<Done("wg")>>,
                <<For(2, 4), Send("msgChan", Same), Goto(1), Close("msgChan"), Done("wg")>>>>
              \o Pool(<<RangeOver("msgChan", 7)>> \o StartSpan \o <<Goto(1), Done("wg")>>)]

\* z is the counter of the load balancer, which alternates between two instances.
selectInstance ==
    <<RLock("mu"), RUnlock("mu"), AddAndLoad("z", 1), Result([v \in Values |-> v % 2])>>

\* x counts the connections. What the failure and the health checks have made of the instance,
\* and the timeout, are an Either, back to the loop or on.
executeRequest(loop) == <<Lock("mu2"), AddTo("x", 1), Unlock("mu2"), Either({loop, Fall})>>

\* y counts the failures.
callService ==
    selectInstance \o <<For(Items, 11)>> \o executeRequest(5) \o <<Goto(12), AddTo("y", 1)>>

Challenge26ServiceMesh ==
    [cap |-> NoChannels,
     code |-> <<<<Go("wg", PoolFrom(2)), Wait("wg")>>>> \o Pool(callService \o <<Done("wg")>>)]
-----------------------------------------------------------------------------
ChallengeProgram ==
    [Challenge01_FixDeadlock |-> Challenge01_FixDeadlock,
     Challenge02_FixRaceCondition |-> Challenge02_FixRaceCondition,
     Challenge03_FixGoroutineLeak |-> Challenge03_FixGoroutineLeak,
     Challenge04_ImplementRateLimiter |-> Challenge04_ImplementRateLimiter,
     Challenge05_MemoryLeak |-> Challenge05_MemoryLeak,
     Challenge06_ResourceLeak |-> Challenge06_ResourceLeak,
     Challenge08_PerformanceIssue |-> Challenge08_PerformanceIssue,
     Challenge08_Benchmark |-> Challenge08_Benchmark,
     Scenario1_ECommercePlatform |-> Scenario1_ECommercePlatform,
     Scenario2_RealTimeChat |-> Scenario2_RealTimeChat,
     Scenario3_LoadBalancer |-> Scenario3_LoadBalancer,
     Scenario4_DataPipeline |-> Scenario4_DataPipeline,
     Challenge09_DistributedLockProblem |-> Challenge09_DistributedLockProblem,
     Challenge10_MessageOrderingProblem |-> Challenge10_MessageOrderingProblem,
     demonstrateEventSourcingProblem |-> demonstrateEventSourcingProblem,
     Challenge11_BackpressureProblem |-> Challenge11_BackpressureProblem,
     Challenge11_StreamProcessingProblem |-> Challenge11_StreamProcessingProblem,
     Challenge12_ConsistencyProblem |-> Challenge12_ConsistencyProblem,
     Challenge12_EventualConsistencyProblem |-> Challenge12_EventualConsistencyProblem,
     Challenge13_EventSourcingProblem |-> Challenge13_EventSourcingProblem,
     Challenge14_SagaPatternProblem |-> Challenge14_SagaPatternProblem,
     Challenge15_DistributedCacheProblem |-> Challenge15_DistributedCacheProblem,
     Challenge16_StreamProcessingProblem |-> Challenge16_StreamProcessingProblem,
     RunChallenge17 |-> RunChallenge17,
     RunChallenge19 |-> RunChallenge19,
     RunChallenge20 |-> RunChallenge20,
     RunChallenge22 |-> RunChallenge22,
     Challenge25DistributedTracing |-> Challenge25DistributedTracing,
     Challenge26ServiceMesh |-> Challenge26ServiceMesh]
=============================================================================
