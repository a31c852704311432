----------------------------- MODULE GoRuntime -----------------------------
(***************************************************************************)
(* Go's goroutines, channels, select, WaitGroups and mutexes, running one  *)
(* of the repository's functions. The scheduler may run any goroutine that *)
(* can go on; goroutine 1 is the function itself.                          *)
(***************************************************************************)
EXTENDS FiniteSets, TLC, ChallengePrograms

VARIABLES
    prog,     \* the program that runs
    pc,       \* goroutine -> its statement, 0 before it is started
    value,    \* goroutine -> the value it last received, loaded or counted
    iter,     \* goroutine -> the rounds of its for loop
    buf,      \* channel -> what it holds
    closed,   \* channels that are closed
    count,    \* WaitGroup -> its counter
    held,     \* mutex -> 0, -1 for a writer, or its readers
    cell,     \* shared variable -> its value
    writing,  \* a goroutine is writing the program's map
    results,  \* what the program has put out, in order
    panicked  \* a goroutine has panicked, and with it the program

vars == <<prog, pc, value, iter, buf, closed, count, held, cell, writing, results, panicked>>

Program == ExampleProgram @@ SolutionProgram @@ ChallengeProgram

Code == Program[prog].code

Channels == DOMAIN Program[prog].cap

Cap(c) == Program[prog].cap[c]

Goroutines == 1 .. 7

MyGoroutines == DOMAIN Code

WaitGroups == {"wg", "inner"}

Mutexes == {"mu", "mu2", "mu3"}

Cells == {"w", "x", "y", "z"}

Started(g) == pc[g] > 0

Ended(g) == pc[g] > Len(Code[g])

Running(g) == Started(g) /\ ~Ended(g)

Statement(g) == Code[g][pc[g]]

TypeOK ==
    /\ prog \in DOMAIN Program
    /\ pc \in [MyGoroutines -> Nat]
    /\ value \in [MyGoroutines -> Values]
    /\ \A c \in Channels : Len(buf[c]) <= Cap(c)
    /\ closed \subseteq Channels
    /\ count \in [WaitGroups -> Nat]
    /\ held \in [Mutexes -> -1 .. Cardinality(Goroutines)]
    /\ panicked \in BOOLEAN

Init ==
    /\ prog \in DOMAIN Program
    /\ pc = [g \in MyGoroutines |-> IF g = 1 THEN 1 ELSE 0]
    /\ value = [g \in MyGoroutines |-> 0]
    /\ iter = [g \in MyGoroutines |-> 0]
    /\ buf = [c \in Channels |-> <<>>]
    /\ closed = {}
    /\ count = [w \in WaitGroups |-> 0]
    /\ held = [m \in Mutexes |-> 0]
    /\ cell = [x \in Cells |-> 0]
    /\ writing = FALSE
    /\ results = <<>>
    /\ panicked = FALSE

\* Where g is after a jump to a statement, or past the present one.
Target(g, to) == IF to = Fall THEN pc[g] + 1 ELSE to

Advance(g, to) == pc' = [pc EXCEPT ![g] = Target(g, to)]
-----------------------------------------------------------------------------
AtSelect(g) == Running(g) /\ Statement(g).op = "select"

\* The cases that a goroutine at a select offers in a direction.
Offers(g, dir) ==
    IF AtSelect(g)
      THEN {k \in Statement(g).cases : k.dir = dir}
      ELSE {}

\* An unbuffered send and a receive happen together.
Rendezvous(g, h) ==
    \E s \in Offers(g, "send"), r \in Offers(h, "recv") :
        /\ s.ch = r.ch
        /\ Cap(s.ch) = 0
        /\ s.ch \notin closed
        /\ pc' = [pc EXCEPT ![g] = Target(g, s.to), ![h] = Target(h, r.to)]
        /\ value' = [value EXCEPT ![h] = IF r.get THEN s.val[value[g]] ELSE @]
        /\ UNCHANGED <<iter, buf, closed, count, held, cell, writing, results, panicked>>

BufferedSend(g) ==
    \E s \in Offers(g, "send") :
        /\ s.ch \notin closed
        /\ Len(buf[s.ch]) < Cap(s.ch)
        /\ buf' = [buf EXCEPT ![s.ch] = Append(@, s.val[value[g]])]
        /\ Advance(g, s.to)
        /\ UNCHANGED <<value, iter, closed, count, held, cell, writing, results, panicked>>

SendOnClosed(g) ==
    /\ \E s \in Offers(g, "send") : s.ch \in closed
    /\ panicked' = TRUE
    /\ UNCHANGED <<pc, value, iter, buf, closed, count, held, cell, writing, results>>

BufferedReceive(g) ==
    \E r \in Offers(g, "recv") :
        /\ buf[r.ch] # <<>>
        /\ value' = [value EXCEPT ![g] = IF r.get THEN Head(buf[r.ch]) ELSE @]
        /\ buf' = [buf EXCEPT ![r.ch] = Tail(@)]
        /\ Advance(g, r.to)
        /\ UNCHANGED <<iter, closed, count, held, cell, writing, results, panicked>>

ReceiveOnClosed(g) ==
    \E r \in Offers(g, "recv") :
        /\ r.ch \in closed
        /\ buf[r.ch] = <<>>
        /\ value' = [value EXCEPT ![g] = IF r.get THEN Zero ELSE @]
        /\ Advance(g, r.shut)
        /\ UNCHANGED <<iter, buf, closed, count, held, cell, writing, results, panicked>>

\* The timer of a select may fire at any time.
TimerFires(g) ==
    \E a \in Offers(g, "after") :
        /\ Advance(g, a.to)
        /\ UNCHANGED <<value, iter, buf, closed, count, held, cell, writing, results, panicked>>

\* A case of g's select can be taken at once.
CaseReady(g) ==
    \/ \E s \in Offers(g, "send") :
          \/ s.ch \in closed
          \/ Len(buf[s.ch]) < Cap(s.ch)
          \/ Cap(s.ch) = 0 /\ \E h \in MyGoroutines \ {g} :
                \E r \in Offers(h, "recv") : r.ch = s.ch
    \/ \E r \in Offers(g, "recv") :
          \/ r.ch \in closed
          \/ buf[r.ch] # <<>>
          \/ Cap(r.ch) = 0 /\ \E h \in MyGoroutines \ {g} :
                \E s \in Offers(h, "send") : s.ch = r.ch

TakeDefault(g) ==
    \E d \in Offers(g, "default") :
        /\ ~CaseReady(g)
        /\ Advance(g, d.to)
        /\ UNCHANGED <<value, iter, buf, closed, count, held, cell, writing, results, panicked>>
-----------------------------------------------------------------------------
CloseChannel(g, i) ==
    /\ i.op \in {"close", "cancel"}
    /\ panicked' = (i.op = "close" /\ i.ch \in closed)
    /\ closed' = closed \cup {i.ch}
    /\ Advance(g, Fall)
    /\ UNCHANGED <<value, iter, buf, count, held, cell, writing, results>>

Start(g, i) ==
    /\ i.op \in {"go", "spawn"}
    /\ pc' = [h \in MyGoroutines |-> IF h = g THEN pc[g] + 1 ELSE IF h \in i.gs THEN 1 ELSE pc[h]]
    /\ count' = IF i.op = "go" THEN [count EXCEPT ![i.wg] = @ + Cardinality(i.gs)] ELSE count
    /\ UNCHANGED <<value, iter, buf, closed, held, cell, writing, results, panicked>>

\* A negative WaitGroup counter is a panic.
WaitGroupStep(g, i) ==
    /\ \/ /\ i.op = "done"
          /\ IF count[i.wg] = 0
               THEN panicked' = TRUE /\ UNCHANGED count
               ELSE count' = [count EXCEPT ![i.wg] = @ - 1] /\ UNCHANGED panicked
       \/ /\ i.op = "wait"
          /\ count[i.wg] = 0
          /\ UNCHANGED <<count, panicked>>
    /\ Advance(g, Fall)
    /\ UNCHANGED <<value, iter, buf, closed, held, cell, writing, results>>

MutexStep(g, i) ==
    /\ \/ i.op = "lock" /\ held[i.mu] = 0 /\ held' = [held EXCEPT ![i.mu] = -1]
       \/ i.op = "rlock" /\ held[i.mu] >= 0 /\ held' = [held EXCEPT ![i.mu] = @ + 1]
       \/ i.op = "unlock" /\ held' = [held EXCEPT ![i.mu] = 0]
       \/ i.op = "runlock" /\ held' = [held EXCEPT ![i.mu] = @ - 1]
    /\ Advance(g, Fall)
    /\ UNCHANGED <<value, iter, buf, closed, count, cell, writing, results, panicked>>

Jump(g, i) ==
    /\ \/ i.op = "goto" /\ (\E to \in i.targets : Advance(g, to)) /\ UNCHANGED <<value, iter>>
       \/ /\ i.op = "for"
          /\ IF iter[g] < i.n
               THEN /\ iter' = [iter EXCEPT ![g] = @ + 1]
                    /\ value' = [value EXCEPT ![g] = iter[g] + 1]
                    /\ Advance(g, Fall)
               ELSE /\ iter' = [iter EXCEPT ![g] = 0]
                    /\ Advance(g, i.to)
                    /\ UNCHANGED value
       \/ /\ i.op = "if"
          /\ Advance(g, IF value[g] \in i.vals THEN i.to ELSE Fall)
          /\ UNCHANGED <<value, iter>>
       \/ /\ i.op = "test"
          /\ Advance(g, IF cell[i.cell] >= i.k THEN i.to ELSE Fall)
          /\ UNCHANGED <<value, iter>>
    /\ UNCHANGED <<buf, closed, count, held, cell, writing, results, panicked>>

MemoryStep(g, i) ==
    /\ \/ /\ i.op = "load"
          /\ value' = [value EXCEPT ![g] = cell[i.cell]]
          /\ Advance(g, Fall)
          /\ UNCHANGED <<cell, results>>
       \/ /\ i.op = "store"
          /\ cell' = [cell EXCEPT ![i.cell] = i.val[value[g]]]
          /\ Advance(g, Fall)
          /\ UNCHANGED <<value, results>>
       \/ /\ i.op = "cas"
          /\ IF cell[i.cell] = value[g]
               THEN cell' = [cell EXCEPT ![i.cell] = i.val[value[g]]] /\ Advance(g, Fall)
               ELSE UNCHANGED cell /\ Advance(g, i.to)
          /\ UNCHANGED <<value, results>>
       \/ /\ i.op = "add"
          /\ cell' = [cell EXCEPT ![i.cell] = @ + i.k]
          /\ Advance(g, Fall)
          /\ UNCHANGED <<value, results>>
       \/ /\ i.op = "addload"
          /\ cell' = [cell EXCEPT ![i.cell] = @ + i.k]
          /\ value' = [value EXCEPT ![g] = cell[i.cell] + i.k]
          /\ Advance(g, Fall)
          /\ UNCHANGED results
       \/ /\ i.op = "result"
          /\ results' = Append(results, i.val[value[g]])
          /\ Advance(g, Fall)
          /\ UNCHANGED <<value, cell>>
    /\ UNCHANGED <<iter, buf, closed, count, held, writing, panicked>>

MapStep(g, i) ==
    /\ i.op \in {"mapwrite", "mapwritten", "mapread"}
    /\ writing' = IF i.op = "mapread" THEN writing ELSE i.op = "mapwrite"
    /\ panicked' = (i.op # "mapwritten" /\ writing)
    /\ Advance(g, Fall)
    /\ UNCHANGED <<value, iter, buf, closed, count, held, cell, results>>

PanicStep(g, i) ==
    /\ i.op = "panic"
    /\ panicked' = TRUE
    /\ UNCHANGED <<pc, value, iter, buf, closed, count, held, cell, writing, results>>

LocalStep(g) ==
    /\ Running(g) /\ ~AtSelect(g)
    /\ LET i == Statement(g)
       IN  \/ CloseChannel(g, i)
           \/ Start(g, i)
           \/ WaitGroupStep(g, i)
           \/ MutexStep(g, i)
           \/ Jump(g, i)
           \/ MemoryStep(g, i)
           \/ MapStep(g, i)
           \/ PanicStep(g, i)

ChannelStep(g) ==
    /\ AtSelect(g)
    /\ \/ \E h \in MyGoroutines \ {g} : Rendezvous(g, h) \/ Rendezvous(h, g)
       \/ BufferedSend(g)
       \/ SendOnClosed(g)
       \/ BufferedReceive(g)
       \/ ReceiveOnClosed(g)
       \/ TimerFires(g)
       \/ TakeDefault(g)

Step(g) ==
    /\ g \in MyGoroutines
    /\ ~panicked
    /\ LocalStep(g) \/ ChannelStep(g)
    /\ UNCHANGED prog

Next == \E g \in Goroutines : Step(g)

\* A select that finds a channel closed which tells its goroutine to stop
SeesStop(g) ==
    /\ g \in MyGoroutines
    /\ ~panicked
    /\ \E r \in Offers(g, "recv") :
          /\ r.ch \in closed \cap {"done", "stop", "ctx", "quit0", "quit1"}
          /\ value' = [value EXCEPT ![g] = IF r.get THEN Zero ELSE @]
          /\ Advance(g, r.shut)
    /\ UNCHANGED <<prog, iter, buf, closed, count, held, cell, writing, results, panicked>>

\* The scheduler lets every goroutine that can go on do so; select chooses at random among
\* the cases that are ready, so that it does not overlook one for ever.
Spec ==
    /\ Init /\ [][Next]_vars
    /\ \A g \in Goroutines : WF_vars(Step(g))
    /\ \A g \in 2 .. 4 : SF_vars(SeesStop(g))
-----------------------------------------------------------------------------
Numbers == [i \in 1 .. Items |-> i]

Each(s, f) == [i \in DOMAIN s |-> f[s[i]]]

\* What a function puts out, in this order
InOrder ==
    [Example2_RaceCondition |-> <<Workers, Workers>>,
     Example3_ChannelBasics |-> Numbers \o Numbers,
     Example7_NonBlockingChannel |-> <<4>>,
     Example10_Pipeline |-> SelectSeq(Each(Numbers, Square), LAMBDA v : v % 2 = 0),
     LeakSolution1 |-> Each(Numbers, Const(1)),
     LeakSolution2 |-> Each(Numbers, Const(1)),
     LeakSolution3 |-> Numbers,
     LimiterSolution1 |-> Numbers,
     LimiterSolution2 |-> Numbers,
     LimiterSolution3 |-> Numbers,
     RaceSolution1 |-> <<2, 2>>,
     RaceSolution2 |-> <<2, 2>>,
     solution1MinimizeLockContention |-> <<4, 2, 2, 4>>,
     benchmarkUnbuffered |-> Numbers,
     benchmarkBuffered |-> Numbers,
     benchmarkBatched |-> <<2, Items - 2>>,
     exampleBatchProcessing |-> <<2, Items - 2>>,
     examplePipeline |-> Each(Numbers, Square),
     Challenge03_FixGoroutineLeak |-> Each(Numbers, Const(1)),
     Challenge04_ImplementRateLimiter |-> Numbers,
     Challenge08_Benchmark |-> <<Workers, Workers>>,
     Challenge09_DistributedLockProblem |-> <<0>>]

\* In any order
InAnyOrder ==
    [Example8_WorkerPool |-> Each(Numbers, Times(2)),
     Example9_FanInFanOut |-> Each(Numbers, Square),
     Example14_BoundedParallelism |-> Each(Numbers, Square),
     DeadlockSolution1 |-> <<1, 2>>,
     DeadlockSolution2 |-> <<1, 2>>,
     solution2ExplicitClose |-> <<1, 2, 3>>,
     exampleWorkerPoolPattern |-> Numbers,
     runWithPool |-> Numbers,
     benchmarkParallel |-> Numbers,
     exampleFanOutFanIn |-> Each(Numbers, Times(2)),
     demonstrateEventSourcingProblem |-> <<1, 2, 3>>,
     RunChallenge17 |-> Each(Numbers, Const(1)) \o Each(Numbers, Const(2))]

\* In any order, and some of it only
InPart ==
    [Example4_SelectStatement |-> <<1, 2>>,
     Example6_Timeout |-> <<1>>,
     Example13_PubSub |-> <<1, 1>>,
     DeadlockSolution3 |-> <<1, 2>>,
     solution1ContextControl |-> Numbers,
     solution4GoroutineResources |-> Numbers,
     exampleChannelBuffering |-> Numbers,
     Challenge01_FixDeadlock |-> <<>>,
     Challenge05_MemoryLeak |-> Numbers,
     Scenario2_RealTimeChat |-> <<>>,
     Scenario4_DataPipeline |-> Numbers]

Count(s, v) == Cardinality({i \in DOMAIN s : s[i] = v})

Within(s, t) == \A v \in Values : Count(s, v) <= Count(t, v)

\* Goroutines that may never end: senders that nobody receives from after a timeout, those
\* that nobody tells to stop, and a loop that a ticker keeps from its timeout
MayStay ==
    [Example4_SelectStatement |-> {2, 3},
     Example6_Timeout |-> {2},
     LimiterSolution2 |-> {2},
     exampleTickerCleanup |-> {1, 2},
     Challenge03_FixGoroutineLeak |-> {2},
     Challenge05_MemoryLeak |-> PoolFrom(2),
     Challenge11_StreamProcessingProblem |-> 2 .. 5,
     RunChallenge19 |-> {2},
     RunChallenge22 |-> {2},
     Challenge25DistributedTracing |-> {2}]

AllEnd ==
    \A g \in MyGoroutines \ (IF prog \in DOMAIN MayStay THEN MayStay[prog] ELSE {}) : ~Running(g)

\* The function has returned; exampleBatchProcessing does so without waiting for its
\* goroutines.
Finished == IF prog = "exampleBatchProcessing" THEN AllEnd ELSE Ended(1)

In(g, first, last) == IF pc[g] \in first .. last THEN 1 ELSE 0

\* A reader never finds in the cache what it does not find in the database afterwards, and a
\* key that stays nil in the cache is one that was read too early; replicas that differ when all
\* is quiet have both stopped at their own first version; an appended event is there in the
\* end, though a replay may come before it; every step of a failed saga that was executed is
\* compensated twice; a Get loads or hits; no event of the stream is lost between the
\* source, the channel and the counters.
StoreExercises ==
    /\ prog = "Challenge10_MessageOrderingProblem" /\ AllEnd => cell["x"] \in {0, 1, 2}
    /\ prog = "Challenge12_ConsistencyProblem" /\ Ended(1) =>
          /\ <<results[1], results[2]>> \in {<<0, 0>>, <<0, 2>>, <<2, 2>>}
          /\ AllEnd /\ cell["y"] # 2 => results[1] = 0
    /\ prog = "Challenge12_EventualConsistencyProblem" /\ AllEnd =>
          cell["x"] = cell["y"] \/ (cell["z"] = 1 /\ cell["w"] = 1)
    /\ prog = "Challenge13_EventSourcingProblem" /\ Ended(1) =>
          /\ results[1] <= cell["x"]
          /\ AllEnd => cell["x"] = 2
    /\ prog = "Challenge14_SagaPatternProblem" /\ Ended(1) =>
          results \in {<<>>, <<1, 2, 1>>, <<1, 2, 3, 1, 2>>, <<1, 2, 3, 2, 1>>}
    /\ prog = "Challenge15_DistributedCacheProblem" /\ Ended(1) =>
          cell["z"] >= 1 /\ cell["z"] + results[1] = Workers
    /\ prog = "Challenge16_StreamProcessingProblem" /\ Ended(4) =>
          cell["x"] + cell["y"] + Len(buf["inputChan"]) + In(2, 2, 6) = Items

\* An event has reached both handlers before the next one is published; an entry of the
\* logger was dropped, refused by its sink or stored there; after ResolveForks the chains have
\* the same length; a point that was written is in the buffer, in processWrites or in the
\* series; every span the tracer keeps was received; the mesh alternates between instances and
\* counts a failure only after all attempts.
ServiceExercises ==
    /\ prog = "RunChallenge17" => Count(results, 1) - Count(results, 2) \in -1 .. 1
    /\ prog = "RunChallenge19" /\ Ended(1) =>
          /\ results[1] <= cell["x"]
          /\ cell["x"] + cell["y"] + Len(buf["buffer"]) + In(2, 2, 5) = 2 * Workers
          /\ Len(buf["sink"]) + cell["z"] = cell["x"] + In(2, 4, 5)
    /\ prog = "RunChallenge20" /\ Ended(1) => results[1] = results[2] /\ results[1] > 1
    /\ prog = "RunChallenge22" /\ pc[1] \in 4 .. 18 =>
          cell["x"] + Len(buf["writeBuffer"]) + In(2, 2, 6) = 2 * Workers
    /\ prog = "RunChallenge22" /\ panicked => results = <<0>>
    /\ prog = "Challenge25DistributedTracing" =>
          /\ cell["y"] <= cell["x"]
          /\ Ended(1) => cell["x"] = 3 /\ cell["y"] + In(2, 2, 2) = cell["x"]
    /\ prog = "Challenge26ServiceMesh" /\ Ended(1) =>
          /\ Count(results, 0) - Count(results, 1) \in -1 .. 1
          /\ cell["x"] \in Workers + cell["y"] * (Items - 1) .. Workers * Items

\* Whatever the schedule, the pipelines and pools put out every item once, in order where
\* a single goroutine handles them; the lossy ones put out no item twice; the counters are
\* exact, but for the one without a mutex; the two functions that lock themselves up put
\* out nothing. Challenges 12 to 26 go wrong in the ways they are there for and in no other:
\* see StoreExercises and ServiceExercises.
OutputRight ==
    /\ prog \in DOMAIN InOrder \ {"Example2_RaceCondition"} =>
          /\ results = SubSeq(InOrder[prog], 1, Len(results))
          /\ Finished => results = InOrder[prog]
    /\ prog \in DOMAIN InAnyOrder =>
          /\ Within(results, InAnyOrder[prog])
          /\ Ended(1) => Len(results) = Len(InAnyOrder[prog])
    /\ prog \in DOMAIN InPart => Within(results, InPart[prog])
    /\ prog = "Example2_RaceCondition" /\ Ended(1) =>
          results[1] \in 1 .. Workers /\ results[2] = Workers
    /\ prog = "RaceSolution3" /\ Ended(1) => results \in {<<2, 2>>, <<1, 2>>, <<2, 1>>}
    /\ prog = "Example15_Retry" /\ Ended(1) =>
          cell["x"] <= Items /\ (results = <<0>> => cell["x"] = Items)
    /\ prog = "selectWithDefault" /\ Ended(1) => cell["x"] = Items /\ cell["y"] = Items
    /\ prog = "Scenario1_ECommercePlatform" /\ Ended(1) =>
          results = IF cell["x"] = 0 THEN <<1>> ELSE <<2>>
    /\ StoreExercises
    /\ ServiceExercises

\* Functions in which a goroutine that nobody waits for may send on a channel that has been
\* closed, two in which a map is read while another goroutine writes it, and one that looks at
\* the first point of a series that has none yet.
MayPanic ==
    {"solution1ContextControl", "solution4GoroutineResources", "Challenge02_FixRaceCondition",
     "RaceSolution3", "Challenge11_BackpressureProblem", "RunChallenge22"}

Between(first, last) == {g \in MyGoroutines : pc[g] \in first .. last}

\* No goroutine sends on a closed channel, closes one twice, makes a WaitGroup negative or
\* touches a map that is being written, except in the functions named; no more goroutines
\* than the semaphore's size hold a slot; a connection of the pool has one user; the balancer's
\* loads are the requests it is handling; and the distributed lock is taken exactly when one
\* node, and no more than one, is in its critical section.
SharedStateSafe ==
    /\ TypeOK
    /\ panicked => prog \in MayPanic
    /\ prog \in {"Example11_Semaphore", "exampleSemaphore", "solution1HTTPClient"} =>
          Cardinality(Between(2, 3) \ {1}) <= Workers - 1
    /\ prog = "solution3DatabaseConnections" =>
          /\ Cardinality(Between(5, 6) \ {1}) <= 1
          /\ Cardinality(Between(15, 16) \ {1}) <= 1
    /\ prog = "Scenario3_LoadBalancer" =>
          /\ cell["x"] = Cardinality(Between(6, 7))
          /\ cell["y"] = Cardinality(Between(10, 11))
    /\ prog = "Challenge09_DistributedLockProblem" =>
          cell["x"] = Cardinality(Between(4, 6) \ {1})

\* A goroutine at a channel or a WaitGroup that nobody else will move
Blocked(g) ==
    /\ Running(g)
    /\ \/ AtSelect(g) /\ Offers(g, "after") \cup Offers(g, "default") = {}
          /\ ~CaseReady(g)
       \/ Statement(g).op = "wait" /\ count[Statement(g).wg] > 0

\* Two senders that wait for each other; the manager of the chat room, which sends to
\* itself; a subscriber who comes after Close, whose channel is never closed; and a consumer
\* with a result that is no longer processed, for which the function waits.
Stuck ==
    \/ prog = "Challenge01_FixDeadlock" /\ Blocked(2) /\ Blocked(3)
    \/ prog = "Scenario2_RealTimeChat" /\ Blocked(1) /\ Blocked(2)
    \/ prog = "Example13_PubSub" /\ cell["x"] = 1 /\ Blocked(1) /\ (Blocked(2) \/ Blocked(3))
    \/ prog = "Challenge11_BackpressureProblem" /\ Ended(2) /\ Blocked(1)
          /\ \E g \in PoolFrom(3) : Blocked(g)

\* The functions end and leave no goroutine behind, but for those that may stay; where they
\* do not, they are stuck for good.
GoroutinesEnd == <>(AllEnd \/ Stuck \/ panicked)
=============================================================================
