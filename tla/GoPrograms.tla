----------------------------- MODULE GoPrograms -----------------------------
(***************************************************************************)
(* The statements that the functions of examples/, challenges/, solutions/ *)
(* and scenarios/ are made of, as far as goroutines can tell them apart: a *)
(* program is its channels with their capacities and, per goroutine, the   *)
(* sequence of its statements. GoRuntime runs them. After the statements   *)
(* come the functions of examples/, and those of solution01 to solution06  *)
(* and solution08 that are made of goroutines; the first goroutine is the  *)
(* function itself.                                                        *)
(*                                                                         *)
(* What is left out is what no other goroutine sees: printing, formatting, *)
(* and how long a Sleep lasts (any statement may be delayed).              *)
(***************************************************************************)
EXTENDS Integers, Sequences

CONSTANTS
    Items,     \* what a producer sends, where the code sends 5, 10 or more
    Workers    \* goroutines of a pool, where the code starts 3 or more

Values == 0 .. Items * Items

\* What a receive from a closed and empty channel gives.
Zero == 0

\* The next statement; the end of the goroutine's function.
Fall == 0
Return == 100

\* What a statement sends or stores, computed from the goroutine's last value.
Same == [v \in Values |-> v]
Const(k) == [v \in Values |-> k]
Plus(k) == [v \in Values |-> v + k]
Times(k) == [v \in Values |-> v * k]
Square == [v \in Values |-> v * v]

\* The goroutines of a pool that come from g on, and their code.
PoolFrom(g) == g .. g + Workers - 1
Pool(body) == [i \in 1 .. Workers |-> body]

NoChannels == [c \in {} |-> 0]
-----------------------------------------------------------------------------
\* The cases of a select. A receive that finds the channel closed goes to shut.
Snd(c, f, to) == [dir |-> "send", ch |-> c, val |-> f, to |-> to]
Rcv(c, to) == [dir |-> "recv", ch |-> c, to |-> to, shut |-> to, get |-> TRUE]
RcvOk(c, to, shut) == [dir |-> "recv", ch |-> c, to |-> to, shut |-> shut, get |-> TRUE]
After(to) == [dir |-> "after", to |-> to]
Default(to) == [dir |-> "default", to |-> to]

Select(cases) == [op |-> "select", cases |-> cases]

\* ch <- f(v);  v = <-ch;  <-ch;  for v := range ch, which ends at shut
Send(c, f) == Select({Snd(c, f, Fall)})
Receive(c) == Select({Rcv(c, Fall)})
Token(c) == Select({[Rcv(c, Fall) EXCEPT !.get = FALSE]})
RangeOver(c, shut) == Select({RcvOk(c, Fall, shut)})

\* close panics on a closed channel, a context's cancel does not.
Close(c) == [op |-> "close", ch |-> c]
Cancel(c) == [op |-> "cancel", ch |-> c]

\* wg.Add(1) and go, for every one of gs; a go that no WaitGroup counts
Go(wg, gs) == [op |-> "go", gs |-> gs, wg |-> wg]
Spawn(gs) == [op |-> "spawn", gs |-> gs]
Done(wg) == [op |-> "done", wg |-> wg]
Wait(wg) == [op |-> "wait", wg |-> wg]

Lock(mu) == [op |-> "lock", mu |-> mu]
Unlock(mu) == [op |-> "unlock", mu |-> mu]
RLock(mu) == [op |-> "rlock", mu |-> mu]
RUnlock(mu) == [op |-> "runlock", mu |-> mu]

\* for v := 1; v <= n; v++, which ends at exit
For(n, exit) == [op |-> "for", n |-> n, to |-> exit]
IfIn(vals, to) == [op |-> "if", vals |-> vals, to |-> to]
Goto(to) == [op |-> "goto", targets |-> {to}]

\* A condition that the model does not compute: an error, a random number.
Either(targets) == [op |-> "goto", targets |-> targets]

\* v = x;  x = f(v);  x += k in one step, and v = x;  if x >= k
Load(x) == [op |-> "load", cell |-> x]
Store(x, f) == [op |-> "store", cell |-> x, val |-> f]
AddTo(x, k) == [op |-> "add", cell |-> x, k |-> k]
AddAndLoad(x, k) == [op |-> "addload", cell |-> x, k |-> k]
IfAtLeast(x, k, to) == [op |-> "test", cell |-> x, k |-> k, to |-> to]

\* if CompareAndSwap(x, v, f(v)), else to
Swap(x, f, to) == [op |-> "cas", cell |-> x, val |-> f, to |-> to]

\* A write of a map, from its start to its end, and a read: the runtime stops the program
\* when it finds another goroutine writing.
MapWrite == [op |-> "mapwrite"]
MapWritten == [op |-> "mapwritten"]
MapRead == [op |-> "mapread"]

\* An index out of range, which nobody recovers from
Panic == [op |-> "panic"]

\* v is one of the program's results.
Result(f) == [op |-> "result", val |-> f]
-----------------------------------------------------------------------------
\* Faulty: the producer forgets to close its channel.
ProduceOnly(c) == <<For(Items, Return), Send(c, Same), Goto(1)>>

\* for i := 1; i <= n; i++ { ch <- i }; close(ch)
ProduceAndClose(c) == <<For(Items, 4), Send(c, Same), Goto(1), Close(c)>>

\* for v := range in { out <- f(v) }, and what follows the loop
Stage(in, f, out, end) == <<RangeOver(in, 4), Send(out, f), Goto(1), end>>

\* Faulty: the channel is closed before the workers are done.
CloserTooSoon(wg, out) == <<Close(out), Wait(wg)>>

\* wg.Wait(); close(out)
Closer(wg, out) == <<Wait(wg), Close(out)>>

\* for v := range c { ... } from statement at on, to the end of the function
CollectAt(at, c) == <<RangeOver(c, Return), Result(Same), Goto(at)>>
-----------------------------------------------------------------------------
\* The loop that comes first does alone what the goroutines then do at once.
Example1_SimpleGoroutine ==
    [cap |-> NoChannels,
     code |-> <<<<For(Workers, 4), Result(Const(1)), Goto(1),
                  Go("wg", PoolFrom(2)), Wait("wg")>>>>
              \o Pool(<<Result(Const(1)), Done("wg")>>)]

\* counter++ without the mutex is a load and a store, and then both under the mutex.
Example2_RaceCondition ==
    [cap |-> NoChannels,
     code |-> <<<<Go("wg", PoolFrom(2)), Wait("wg"), Load("x"), Result(Same),
                  Store("x", Const(0)), Go("wg", PoolFrom(Workers + 2)), Wait("wg"),
                  Load("x"), Result(Same)>>>>
              \o Pool(<<Load("x"), Store("x", Plus(1)), Done("wg")>>)
              \o Pool(<<Lock("mu"), Load("x"), Store("x", Plus(1)), Unlock("mu"),
                        Done("wg")>>)]

Example3_ChannelBasics ==
    [cap |-> [ch |-> 0, bufferedCh |-> 2],
     code |-> <<<<Spawn({2}), RangeOver("ch", 5), Result(Same), Goto(2), Spawn({3})>>
                    \o CollectAt(6, "bufferedCh"),
                ProduceAndClose("ch"),
                ProduceAndClose("bufferedCh")>>]

Example4_SelectStatement ==
    [cap |-> [ch1 |-> 0, ch2 |-> 0],
     code |-> <<<<Spawn({2, 3}), For(2, Return),
                  Select({Rcv("ch1", Fall), Rcv("ch2", Fall), After(2)}), Result(Same), Goto(2)>>,
                <<Send("ch1", Const(1))>>,
                <<Send("ch2", Const(2))>>>>]

Example5_ContextCancellation ==
    [cap |-> [done |-> 0],
     code |-> <<<<Spawn({2}), Cancel("done")>>,
                <<Select({Rcv("done", Return), Default(Fall)}), Goto(1)>>>>]

Example6_Timeout ==
    [cap |-> [result |-> 0, done |-> 0],
     code |-> <<<<Spawn({2}),
                  Select({Rcv("result", Fall), After(4)}), Result(Same), Cancel("done")>>,
                <<Send("result", Const(1))>>>>]

Example7_NonBlockingChannel ==
    [cap |-> [ch |-> 1],
     code |-> <<<<Select({Snd("ch", Const(4), Fall), Default(Fall)}),
                  Select({Rcv("ch", Fall), Default(4)}), Result(Same),
                  Select({Rcv("ch", Fall), Default(Return)}), Result(Same)>>>>]

Example8_WorkerPool ==
    [cap |-> [jobs |-> Items, results |-> Items],
     code |-> <<<<Go("wg", PoolFrom(4)), Spawn({2, 3})>> \o CollectAt(3, "results"),
                ProduceAndClose("jobs"),
                Closer("wg", "results")>>
              \o Pool(Stage("jobs", Times(2), "results", Done("wg")))]

\* gen (2), two sq (3, 4), and the outputs (5, 6) and the closer (7) of merge
Example9_FanInFanOut ==
    [cap |-> [in |-> 0, c1 |-> 0, c2 |-> 0, out |-> 0],
     code |-> <<<<Spawn({2}), Spawn({3, 4}), Go("wg", {5, 6}), Spawn({7})>>
                    \o CollectAt(5, "out"),
                ProduceAndClose("in"),
                Stage("in", Square, "c1", Close("c1")),
                Stage("in", Square, "c2", Close("c2")),
                Stage("c1", Same, "out", Done("wg")),
                Stage("c2", Same, "out", Done("wg")),
                Closer("wg", "out")>>]

Odd == {v \in Values : v % 2 = 1}

Example10_Pipeline ==
    [cap |-> [numbers |-> 0, squared |-> 0, evens |-> 0],
     code |-> <<<<Spawn({2}), Spawn({3}), Spawn({4})>> \o CollectAt(4, "evens"),
                ProduceAndClose("numbers"),
                Stage("numbers", Square, "squared", Close("squared")),
                <<RangeOver("squared", 5), IfIn(Odd, 1), Send("evens", Same), Goto(1),
                  Close("evens")>>>>]

\* Holding a slot is being between the send and the receive.
Example11_Semaphore ==
    [cap |-> [semaphore |-> Workers - 1],
     code |-> <<<<Go("wg", PoolFrom(2)), Wait("wg")>>>>
              \o Pool(<<Send("semaphore", Const(0)), Result(Const(1)), Token("semaphore"),
                        Done("wg")>>)]

\* Publish to one topic, from statement at on: x is closed, y and z whether its
\* subscriber has subscribed.
PublishAt(at, sub, c) ==
    <<RLock("mu"), IfAtLeast("x", 1, at + 5), IfAtLeast(sub, 1, at + 4), Goto(at + 5),
      Select({Snd(c, Const(1), Fall), Default(Fall)}), RUnlock("mu")>>

\* Subscribe, and the messages
Subscriber(sub, c) ==
    <<Lock("mu"), Store(sub, Const(1)), Unlock("mu"), RangeOver(c, 7), Result(Same), Goto(4),
      Done("wg")>>

\* Close closes the channels of those who have subscribed; it runs again when deferred.
CloseAt(at) ==
    <<Lock("mu"), IfAtLeast("x", 1, at + 9), Store("x", Const(1)),
      IfAtLeast("y", 1, at + 5), Goto(at + 6), Close("events"),
      IfAtLeast("z", 1, at + 8), Goto(at + 9), Close("logs"), Unlock("mu")>>

Example13_PubSub ==
    [cap |-> [events |-> 1, logs |-> 1],
     code |-> <<<<Go("wg", {2, 3})>> \o PublishAt(2, "y", "events") \o PublishAt(8, "z", "logs")
                    \o CloseAt(14) \o <<Wait("wg")>> \o CloseAt(25),
                Subscriber("y", "events"),
                Subscriber("z", "logs")>>]

Example14_BoundedParallelism ==
    [cap |-> [taskChan |-> 0, resultChan |-> 0],
     code |-> <<<<Go("wg", PoolFrom(4)), Spawn({2, 3})>> \o CollectAt(3, "resultChan"),
                ProduceAndClose("taskChan"),
                Closer("wg", "resultChan")>>
              \o Pool(Stage("taskChan", Square, "resultChan", Done("wg")))]

\* RetryWithBackoff of MaxAttempts = Items, its error 0 and its success 1. The delay
\* between attempts passes, or the context ends first.
Example15_Retry ==
    [cap |-> [done |-> 0],
     code |-> <<<<For(Items, Return), AddTo("x", 1), Either({Fall, 9}),
                  IfIn({Items}, 7), Select({After(1), Rcv("done", Fall)}), Goto(7),
                  Result(Const(0)), Goto(Return), Result(Const(1))>>>>]
-----------------------------------------------------------------------------
ExampleProgram ==
    [Example1_SimpleGoroutine |-> Example1_SimpleGoroutine,
     Example2_RaceCondition |-> Example2_RaceCondition,
     Example3_ChannelBasics |-> Example3_ChannelBasics,
     Example4_SelectStatement |-> Example4_SelectStatement,
     Example5_ContextCancellation |-> Example5_ContextCancellation,
     Example6_Timeout |-> Example6_Timeout,
     Example7_NonBlockingChannel |-> Example7_NonBlockingChannel,
     Example8_WorkerPool |-> Example8_WorkerPool,
     Example9_FanInFanOut |-> Example9_FanInFanOut,
     Example10_Pipeline |-> Example10_Pipeline,
     Example11_Semaphore |-> Example11_Semaphore,
     Example13_PubSub |-> Example13_PubSub,
     Example14_BoundedParallelism |-> Example14_BoundedParallelism,
     Example15_Retry |-> Example15_Retry]
-----------------------------------------------------------------------------
\* solution01: two goroutines exchange their values, and the function waits for both.
Exchange(size, one, two) ==
    [cap |-> [ch1 |-> size, ch2 |-> size],
     code |-> <<<<Go("wg", {2, 3}), Wait("wg")>>, one, two>>]

\* Faulty: the channels have no buffer.
DeadlockSolution1Unbuffered ==
    Exchange(0, <<Send("ch1", Const(1)), Receive("ch2"), Result(Same), Done("wg")>>,
                <<Send("ch2", Const(2)), Receive("ch1"), Result(Same), Done("wg")>>)

DeadlockSolution1 ==
    Exchange(1, <<Send("ch1", Const(1)), Receive("ch2"), Result(Same), Done("wg")>>,
                <<Send("ch2", Const(2)), Receive("ch1"), Result(Same), Done("wg")>>)

DeadlockSolution2 ==
    Exchange(0, <<Receive("ch1"), Result(Same), Send("ch2", Const(2)), Done("wg")>>,
                <<Send("ch1", Const(1)), Receive("ch2"), Result(Same), Done("wg")>>)

\* A receive that has timed out leaves the value in the buffer.
DeadlockSolution3 ==
    Exchange(1, <<Send("ch1", Const(1)), Select({Rcv("ch2", Fall), After(4)}), Result(Same),
                  Done("wg")>>,
                <<Send("ch2", Const(2)), Select({Rcv("ch1", Fall), After(4)}), Result(Same),
                  Done("wg")>>)
-----------------------------------------------------------------------------
\* solution02: the pool adds to the scores (its first goroutine to x, the second to y)
\* while another goroutine sums them up; then the function prints them.
Scores(writer(_), reader) ==
    [cap |-> [ops |-> 0, result |-> 0],
     code |-> <<<<Go("wg", {2, 3, 4}), Wait("wg"),
                  Load("x"), Result(Same), Load("y"), Result(Same)>>,
                reader, writer("x"), writer("y")>>]

RaceSolution1 ==
    LET writer(x) == <<For(2, 9), Lock("mu"), MapRead, MapWrite, AddTo(x, 1), MapWritten,
                       Unlock("mu"), Goto(1), Done("wg")>>
    IN  Scores(writer, <<For(2, 6), RLock("mu"), MapRead, RUnlock("mu"), Goto(1), Done("wg")>>)

\* LoadOrStore and CompareAndSwap of a sync.Map, until the swap succeeds
RaceSolution2 ==
    LET writer(x) == <<For(2, 5), Load(x), Swap(x, Plus(1), 2), Goto(1), Done("wg")>>
    IN  Scores(writer, <<For(2, 5), Load("x"), Load("y"), Goto(1), Done("wg")>>)

\* The goroutine that owns the map (5): the operations are 1 and 2, to add to x and y, and
\* 3 to sum, which is answered on the result channel. An addition is not answered: the
\* function may read the map while the owner is at the last of them.
Owner ==
    <<RangeOver("ops", Return), IfIn({3}, 10), MapWrite, IfIn({2}, 7), AddTo("x", 1), Goto(8),
      AddTo("y", 1), MapWritten, Goto(1), MapRead, Send("result", Same), Goto(1)>>

RaceSolution3 ==
    [cap |-> [ops |-> 0, result |-> 0],
     code |-> <<<<Spawn({5}), Go("wg", {2, 3, 4}), Wait("wg"), Close("ops"),
                  MapRead, Load("x"), Result(Same), Load("y"), Result(Same)>>,
                <<For(2, 5), Send("ops", Const(3)), Receive("result"), Goto(1), Done("wg")>>,
                <<For(2, 4), Send("ops", Const(1)), Goto(1), Done("wg")>>,
                <<For(2, 4), Send("ops", Const(2)), Goto(1), Done("wg")>>,
                Owner>>]
-----------------------------------------------------------------------------
\* solution03: the function takes Items values of a producer that would send for ever, and
\* tells it to stop.
TakeAndStop(stop) ==
    <<Spawn({2}), For(Items, 6), Receive("ch"), Result(Same), Goto(2), stop>>

\* The counter i is not modelled beyond its first values: it only labels what is sent.
LeakSolution1 ==
    [cap |-> [ch |-> 0, done |-> 0],
     code |-> <<TakeAndStop(Cancel("done")),
                <<Select({Rcv("done", 3), Snd("ch", Const(1), Fall)}), Goto(1),
                  Close("ch")>>>>]

LeakSolution2 ==
    [cap |-> [ch |-> 0, done |-> 0],
     code |-> <<TakeAndStop(Close("done")),
                <<Select({Rcv("done", 4), Default(Fall)}),
                  Select({Snd("ch", Const(1), Fall), Rcv("done", 4)}), Goto(1),
                  Close("ch")>>>>]

LeakSolution3 ==
    [cap |-> [ch |-> 0],
     code |-> <<<<Go("wg", {2}), RangeOver("ch", 5), Result(Same), Goto(2), Wait("wg")>>,
                ProduceAndClose("ch") \o <<Done("wg")>>>>]
-----------------------------------------------------------------------------
\* solution04: the requests are in a closed, buffered channel; each waits for a token.
FillRequests(at) == <<For(Items, at + 3), Send("requests", Same), Goto(at), Close("requests")>>

EachRequest(at, take) ==
    <<RangeOver("requests", at + 4), take, Result(Same), Goto(at)>>

Tick == Select({After(Fall)})

LimiterSolution1 ==
    [cap |-> [requests |-> Items],
     code |-> <<FillRequests(1) \o EachRequest(5, Tick)>>]

\* The bucket holds Rate tokens, and is filled up at every tick.
Rate == 2

Fill(tokens) == [i \in 1 .. Rate |-> Send(tokens, Const(0))]

Refill(tokens) ==
    <<For(Rate, 1), Select({Snd(tokens, Const(0), Fall), Default(Fall)}), Goto(2)>>

LimiterSolution2 ==
    [cap |-> [requests |-> Items, bucket |-> Rate],
     code |-> <<FillRequests(1) \o Fill("bucket") \o <<Spawn({2})>>
                    \o EachRequest(Rate + 6, Token("bucket")),
                <<Tick>> \o Refill("bucket")>>]

LimiterSolution3 ==
    [cap |-> [requests |-> Items, tokens |-> Rate, stop |-> 0],
     code |-> <<Fill("tokens") \o <<Go("wg", {2})>> \o FillRequests(Rate + 2)
                    \o EachRequest(Rate + 6, Token("tokens"))
                    \o <<Close("stop"), Wait("wg")>>,
                <<Select({After(Fall), Rcv("stop", 5)})>> \o Refill("tokens")
                    \o <<Done("wg")>>>>]
-----------------------------------------------------------------------------
\* solution05. The workers may see the closed data channel before the cancelled context,
\* and then receive nil until the select takes the other case; the sender is not waited for.
solution1ContextControl ==
    [cap |-> [data |-> Items, done |-> 0],
     code |-> <<<<Go("wg", PoolFrom(3)), Spawn({2}), Cancel("done"), Close("data"), Wait("wg")>>,
                <<For(Items, Return), Send("data", Same), Goto(1)>>>>
              \o Pool(<<Select({Rcv("done", 4), RcvOk("data", Fall, 1), After(1)}),
                        Result(Same), Goto(1), Done("wg")>>)]

\* A worker: its tasks until quit, and then what is left of them.
QuitThenDrain(tasks, quit, finished) ==
    <<Select({Rcv(quit, 4), Rcv(tasks, Fall)}), Result(Same), Goto(1),
      Select({Rcv(tasks, Fall), Default(7)}), Result(Same), Goto(4), Close(finished)>>

solution2ExplicitClose ==
    [cap |-> [tasks0 |-> 2, quit0 |-> 0, finished0 |-> 0,
              tasks1 |-> 2, quit1 |-> 0, finished1 |-> 0],
     code |-> <<<<Spawn({2, 3}), Send("tasks0", Const(1)), Send("tasks1", Const(2)),
                  Send("tasks0", Const(3)), Close("quit0"), Close("quit1"),
                  Receive("finished0"), Receive("finished1")>>,
                QuitThenDrain("tasks0", "quit0", "finished0"),
                QuitThenDrain("tasks1", "quit1", "finished1")>>]

exampleContextPattern ==
    [cap |-> [ctx |-> 0, done |-> 0],
     code |-> <<<<Spawn({2, 3}), Receive("done"), Cancel("ctx")>>,
                <<Receive("ctx"), Close("done")>>,
                <<Tick, Cancel("ctx")>>>>]

exampleWorkerPoolPattern ==
    [cap |-> [jobs |-> 2],
     code |-> <<<<Go("wg", PoolFrom(2))>>
                    \o <<For(Items, 5), Send("jobs", Same), Goto(2), Close("jobs"), Wait("wg")>>>>
              \o Pool(<<RangeOver("jobs", 4), Result(Same), Goto(1), Done("wg")>>)]

\* Two timers: the ticker's case, and the case that ends the loop.
exampleTickerCleanup ==
    [cap |-> [done |-> 0],
     code |-> <<<<Spawn({2}), Receive("done")>>,
                <<Select({After(1), After(Fall)}), Close("done")>>>>]

exampleChannelBuffering ==
    [cap |-> [ch |-> 2],
     code |-> <<<<Spawn({2})>> \o CollectAt(2, "ch"),
                <<For(Items, 4), Select({Snd("ch", Same, Fall), Default(Fall)}), Goto(1),
                  Close("ch")>>>>]
-----------------------------------------------------------------------------
\* solution06: a request that fails and one that does not both give the slot back.
solution1HTTPClient ==
    [cap |-> [semaphore |-> Workers - 1],
     code |-> <<<<Go("wg", PoolFrom(2)), Wait("wg")>>>>
              \o Pool(<<Send("semaphore", Const(0)), Either({Fall, 4}), Result(Const(1)),
                        Token("semaphore"), Done("wg")>>)]

\* Faulty: InUse is read before the connection's mutex is taken.
DBTaskUnlocked ==
    <<IfAtLeast("x", 1, 11), Lock("mu"), Store("x", Const(1)), Unlock("mu"),
      Result(Const(1)), Lock("mu"), Store("x", Const(0)), Unlock("mu"), Goto(20),
      Goto(11), Lock("mu2"), IfAtLeast("y", 1, 18), Store("y", Const(1)), Unlock("mu2"),
      Result(Const(1)), Lock("mu2"), Store("y", Const(0)), Unlock("mu2"), Goto(20),
      Done("wg")>>

\* Two connections, InUse x under mu and y under mu2; pool.mu is only read-locked once the
\* pool is made. What poolGet returns is put back by poolPut. The ticker's goroutine
\* (poolCleanupIdle and poolStats) only touches LastUsed and is left out.
DBTask ==
    <<Lock("mu"), IfAtLeast("x", 1, 10), Store("x", Const(1)), Unlock("mu"),
      Result(Const(1)), Lock("mu"), Store("x", Const(0)), Unlock("mu"), Goto(20),
      Unlock("mu"), Lock("mu2"), IfAtLeast("y", 1, 18), Store("y", Const(1)), Unlock("mu2"),
      Result(Const(1)), Lock("mu2"), Store("y", Const(0)), Unlock("mu2"), Goto(20),
      Done("wg")>>

solution3DatabaseConnections ==
    [cap |-> NoChannels,
     code |-> <<<<Go("wg", {2, 3, 4}), Wait("wg")>>, DBTask, DBTask, DBTask>>]

\* A worker (3), a sender (2) and, in managerCleanup, the goroutine that waits (4).
solution4GoroutineResources ==
    [cap |-> [ch |-> 1, ctx |-> 0, done |-> 0],
     code |-> <<<<Go("wg", {3}), Spawn({2}), Cancel("ctx"), Lock("mu"), Close("ch"),
                  Unlock("mu"), Spawn({4}), Select({Rcv("done", Fall), After(Fall)})>>,
                <<For(Items, Return), Select({Snd("ch", Same, 1), Rcv("ctx", Return)})>>,
                <<Select({Rcv("ctx", 4), RcvOk("ch", Fall, 1)}), Result(Same), Goto(1),
                  Done("wg")>>,
                <<Wait("wg"), Close("done")>>>>]
-----------------------------------------------------------------------------
\* solution08. Three ways to count: under one mutex, under the mutex of a shard (x under
\* mu, y under mu2), and with an atomic addition. A pool of two adds Items to each.
Twice(body) == <<For(2, Len(body) + 3)>> \o body \o <<Goto(1), Done("wg")>>

\* Faulty: the mutex is forgotten.
slowIncrementUnlocked == <<Load("x"), Store("x", Plus(1))>>

slowIncrement == <<Lock("mu"), Load("x"), Store("x", Plus(1)), Unlock("mu")>>

shardedIncrement(x, mu) == <<Lock(mu), AddTo(x, 1), Unlock(mu)>>

shardedTotal ==
    <<Lock("mu"), Load("x"), Result(Same), Unlock("mu"),
      Lock("mu2"), Load("y"), Result(Same), Unlock("mu2")>>

atomicIncrement == <<AddTo("z", 1)>>

\* The body of a for changes the goroutine's value, and not the rounds it counts.
solution1MinimizeLockContention ==
    [cap |-> NoChannels,
     code |-> <<<<Go("wg", {2, 3}), Wait("wg"), Load("x"), Result(Same), Store("x", Const(0)),
                  Go("wg", {4, 5}), Wait("wg")>> \o shardedTotal
                    \o <<Go("wg", {6, 7}), Wait("wg"), Load("z"), Result(Same)>>,
                Twice(slowIncrement), Twice(slowIncrement),
                Twice(shardedIncrement("x", "mu")), Twice(shardedIncrement("y", "mu2")),
                Twice(atomicIncrement), Twice(atomicIncrement)>>]

benchmark(size) ==
    [cap |-> [ch |-> size, done |-> 0],
     code |-> <<<<Spawn({2}), For(Items, 5), Send("ch", Same), Goto(2), Close("ch"),
                  Receive("done")>>,
                <<RangeOver("ch", 4), Result(Same), Goto(1), Send("done", Const(1))>>>>]

benchmarkUnbuffered == benchmark(0)

benchmarkBuffered == benchmark(2)

\* batch = append(batch, item), and the batch of x items is sent when it is full. From
\* statement at on; next is where the loop goes on.
BatchSize == 2

AppendToBatch(at, next, c) ==
    <<AddTo("x", 1), IfAtLeast("x", BatchSize, at + 3), Goto(next),
      Load("x"), Store("x", Const(0)), Send(c, Same), Goto(next)>>

\* The last batch, if it is not empty
LastBatch(at, c) == <<IfAtLeast("x", 1, at + 2), Goto(at + 4), Load("x"), Send(c, Same), Close(c)>>

benchmarkBatched ==
    [cap |-> [ch |-> 1, done |-> 0],
     code |-> <<<<Spawn({2}), For(Items, 10)>> \o AppendToBatch(3, 2, "ch") \o LastBatch(10, "ch")
                    \o <<Receive("done")>>,
                <<RangeOver("ch", 4), Result(Same), Goto(1), Send("done", Const(1))>>>>]

\* Twice the channel's size is offered to it: x is sent, y dropped.
selectWithDefault ==
    [cap |-> [ch |-> Items],
     code |-> <<<<For(2 * Items, Return), Select({Snd("ch", Same, Fall), Default(5)}),
                  AddTo("x", 1), Goto(1), AddTo("y", 1), Goto(1)>>>>]

runWithoutPool ==
    [cap |-> NoChannels,
     code |-> <<<<Go("wg", PoolFrom(2)), Wait("wg")>>>> \o Pool(<<Result(Const(1)), Done("wg")>>)]

\* newWorkerPool and runWithPool, and benchmarkParallel with its larger channel
poolOf(size) ==
    [cap |-> [tasks |-> size],
     code |-> <<<<Go("wg", PoolFrom(2)), For(Items, 5), Send("tasks", Same), Goto(2),
                  Close("tasks"), Wait("wg")>>>>
              \o Pool(<<RangeOver("tasks", 4), Result(Same), Goto(1), Done("wg")>>)]

runWithPool == poolOf(1)

benchmarkParallel == poolOf(Items)

exampleBatchProcessing ==
    [cap |-> [items |-> Items, batches |-> 1],
     code |-> <<<<Spawn({2, 3}), For(Items, 5), Send("items", Same), Goto(2), Close("items")>>,
                <<RangeOver("items", 9)>> \o AppendToBatch(2, 1, "batches")
                    \o LastBatch(9, "batches"),
                CollectAt(1, "batches")>>]

examplePipeline ==
    [cap |-> [numbers |-> 0, squared |-> 0],
     code |-> <<<<Spawn({2}), Spawn({3})>> \o CollectAt(3, "squared"),
                ProduceAndClose("numbers"),
                Stage("numbers", Square, "squared", Close("squared"))>>]

\* results is never closed: the function counts what it takes.
exampleFanOutFanIn ==
    [cap |-> [jobs |-> Items, results |-> Items],
     code |-> <<<<Spawn(PoolFrom(3)), Spawn({2}), For(Items, Return), Receive("results"),
                  Result(Same), Goto(3)>>,
                ProduceAndClose("jobs")>>
              \o Pool(<<RangeOver("jobs", Return), Send("results", Times(2)), Goto(1)>>)]

exampleSemaphore ==
    [cap |-> [sem |-> Workers - 1],
     code |-> <<<<Go("wg", PoolFrom(2)), Wait("wg")>>>>
              \o Pool(<<Send("sem", Const(0)), Result(Const(1)), Token("sem"), Done("wg")>>)]
-----------------------------------------------------------------------------
SolutionProgram ==
    [DeadlockSolution1 |-> DeadlockSolution1,
     DeadlockSolution2 |-> DeadlockSolution2,
     DeadlockSolution3 |-> DeadlockSolution3,
     RaceSolution1 |-> RaceSolution1,
     RaceSolution2 |-> RaceSolution2,
     RaceSolution3 |-> RaceSolution3,
     LeakSolution1 |-> LeakSolution1,
     LeakSolution2 |-> LeakSolution2,
     LeakSolution3 |-> LeakSolution3,
     LimiterSolution1 |-> LimiterSolution1,
     LimiterSolution2 |-> LimiterSolution2,
     LimiterSolution3 |-> LimiterSolution3,
     solution1ContextControl |-> solution1ContextControl,
     solution2ExplicitClose |-> solution2ExplicitClose,
     exampleContextPattern |-> exampleContextPattern,
     exampleWorkerPoolPattern |-> exampleWorkerPoolPattern,
     exampleTickerCleanup |-> exampleTickerCleanup,
     exampleChannelBuffering |-> exampleChannelBuffering,
     solution1HTTPClient |-> solution1HTTPClient,
     solution3DatabaseConnections |-> solution3DatabaseConnections,
     solution4GoroutineResources |-> solution4GoroutineResources,
     solution1MinimizeLockContention |-> solution1MinimizeLockContention,
     benchmarkUnbuffered |-> benchmarkUnbuffered,
     benchmarkBuffered |-> benchmarkBuffered,
     benchmarkBatched |-> benchmarkBatched,
     selectWithDefault |-> selectWithDefault,
     runWithoutPool |-> runWithoutPool,
     runWithPool |-> runWithPool,
     benchmarkParallel |-> benchmarkParallel,
     exampleBatchProcessing |-> exampleBatchProcessing,
     examplePipeline |-> examplePipeline,
     exampleFanOutFanIn |-> exampleFanOutFanIn,
     exampleSemaphore |-> exampleSemaphore]
=============================================================================
