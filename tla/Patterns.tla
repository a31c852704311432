------------------------------ MODULE Patterns ------------------------------
(***************************************************************************)
(* Small concurrent objects of the examples and the solutions, each shared *)
(* by a few callers: the counter, the token limiter and the task pool of   *)
(* solution07, the sliding window of solution04, the buffer pool of        *)
(* solution05, the file pool of solution06, the lock-free queue and the    *)
(* dynamic pool of solution08, and the circuit breaker and the batch       *)
(* processor of examples/04. st is the object, pc what each caller does    *)
(* and mine what it has read.                                              *)
(***************************************************************************)
EXTENDS Integers, FiniteSets, Sequences

CONSTANTS
    MaxCallers,
    FewCallers,    \* callers of the queue and of the buffer pool
    Limit,         \* of the counter, the limiter, the pools and the window
    MaxTime,       \* ticks of the window's clock
    MaxCalls       \* of the breaker and the batch processor

VARIABLES kind, st, pc, mine

patternVars == <<kind, st, pc, mine>>

Callers == 1..MaxCallers

At(step) == {c \in Callers : pc[c] = step}

Goes(c, step) == pc' = [pc EXCEPT ![c] = step]

\* Callers are alike where this is used: they are numbered as they begin.
First(c, step) == pc[c] = step /\ \A d \in 1..(c - 1) : pc[d] # step
-----------------------------------------------------------------------------
\* solution07, counterIncrement.
CounterInit == st = [value |-> 0]

\* Faulty: the limit itself is refused.
CounterAddEarly(c) ==
    /\ First(c, "begin")
    /\ st' = [value |-> st.value + 1]
    /\ Goes(c, IF st.value + 1 >= Limit THEN "rollback" ELSE "ok")
    /\ UNCHANGED mine

CounterAdd(c) ==
    /\ First(c, "begin")
    /\ st' = [value |-> st.value + 1]
    /\ Goes(c, IF st.value + 1 > Limit THEN "rollback" ELSE "ok")
    /\ UNCHANGED mine

CounterRollback(c) ==
    /\ pc[c] = "rollback"
    /\ st' = [value |-> st.value - 1]
    /\ Goes(c, "refused") /\ UNCHANGED mine

CounterRight ==
    /\ Cardinality(At("ok")) <= Limit
    /\ st.value = Cardinality(At("ok") \cup At("rollback"))
    /\ At("refused") # {} => Cardinality(At("ok")) = Limit
-----------------------------------------------------------------------------
\* solution07, limiterTryAcquire. issued and extra count the calls since the last refill that
\* were let through, and the rollbacks that were still to come when it came.
LimiterInit == st = [tokens |-> 1, due |-> FALSE, refills |-> 0, issued |-> Limit - 1, extra |-> 0]

LimiterDue == ~st.due /\ st.refills = 0 /\ st' = [st EXCEPT !.due = TRUE] /\ UNCHANGED <<pc, mine>>

LimiterLoads(c) ==
    /\ First(c, "begin")
    /\ Goes(c, IF st.tokens <= 0 THEN "refill" ELSE "take")
    /\ UNCHANGED <<st, mine>>

\* Faulty: the time of the refill is not looked at.
LimiterRefillsAlways(c) ==
    /\ pc[c] = "refill"
    /\ st' = [st EXCEPT !.tokens = Limit, !.due = FALSE]
    /\ Goes(c, "take") /\ UNCHANGED mine

LimiterRefills(c) ==
    /\ pc[c] = "refill"
    /\ st' = IF st.due THEN [tokens |-> Limit, due |-> FALSE, refills |-> 1, issued |-> 0,
                             extra |-> Cardinality(At("rollback"))]
             ELSE st
    /\ Goes(c, "take") /\ UNCHANGED mine

LimiterTakes(c) ==
    /\ pc[c] = "take"
    /\ st' = [st EXCEPT !.tokens = @ - 1, !.issued = IF st.tokens > 0 THEN @ + 1 ELSE @]
    /\ Goes(c, IF st.tokens - 1 < 0 THEN "rollback" ELSE "ok")
    /\ UNCHANGED mine

LimiterRollback(c) ==
    /\ pc[c] = "rollback"
    /\ st' = [st EXCEPT !.tokens = @ + 1]
    /\ Goes(c, "refused") /\ UNCHANGED mine

\* A refill stores the full number, so that a rollback after it adds a token too many.
LimiterRight ==
    /\ st.issued <= Limit + st.extra
    /\ st.tokens <= Limit + st.extra
-----------------------------------------------------------------------------
\* solution07, poolSubmit and the workers. A task is counted after it was sent.
TasksInit == st = [queue |-> 0, running |-> 0, taskCount |-> 0]

TaskChecked(c) ==
    /\ First(c, "begin")
    /\ Goes(c, IF st.taskCount >= Limit THEN "refused" ELSE "send")
    /\ UNCHANGED <<st, mine>>

TaskSent(c) ==
    /\ pc[c] = "send"
    /\ \/ st.queue < Limit /\ st' = [st EXCEPT !.queue = @ + 1] /\ Goes(c, "count")
       \/ st.queue = Limit /\ UNCHANGED st /\ Goes(c, "refused")
    /\ UNCHANGED mine

TaskCounted(c) ==
    /\ pc[c] = "count"
    /\ st' = [st EXCEPT !.taskCount = @ + 1]
    /\ Goes(c, "ok") /\ UNCHANGED mine

\* One worker of five.
TaskStarts ==
    /\ st.queue > 0 /\ st.running = 0
    /\ st' = [st EXCEPT !.queue = @ - 1, !.running = 1] /\ UNCHANGED <<pc, mine>>

\* Faulty: a task that is done is still counted.
TaskEndsUncounted ==
    /\ st.running > 0
    /\ st' = [st EXCEPT !.running = @ - 1] /\ UNCHANGED <<pc, mine>>

TaskEnds ==
    /\ st.running > 0
    /\ st' = [st EXCEPT !.running = @ - 1, !.taskCount = @ - 1] /\ UNCHANGED <<pc, mine>>

\* The count may be behind, even below zero, by the callers that have sent and not counted.
TasksRight == st.taskCount = st.queue + st.running - Cardinality(At("count"))
-----------------------------------------------------------------------------
\* solution04, the sliding window of Window ticks. given are the times of the calls let through.
Window == 2

WindowInit == st = [now |-> 0, requests |-> <<>>, given |-> <<>>]

WindowTicks == st.now < MaxTime /\ st' = [st EXCEPT !.now = @ + 1] /\ UNCHANGED <<pc, mine>>

\* Faulty: it forgets a request one tick early.
WindowAllowForgets(c) ==
    /\ pc[c] = "begin" /\ Len(st.given) < MaxCalls
    /\ LET valid == SelectSeq(st.requests, LAMBDA r : r > st.now - Window + 1)
       IN  IF Len(valid) < Limit
           THEN st' = [st EXCEPT !.requests = Append(valid, st.now), !.given = Append(@, st.now)]
           ELSE st' = [st EXCEPT !.requests = valid]
    /\ UNCHANGED <<pc, mine>>

\* WaitForSlot calls Allow again and again.
WindowAllow(c) ==
    /\ pc[c] = "begin" /\ Len(st.given) < MaxCalls
    /\ LET valid == SelectSeq(st.requests, LAMBDA r : r > st.now - Window)
       IN  IF Len(valid) < Limit
           THEN st' = [st EXCEPT !.requests = Append(valid, st.now), !.given = Append(@, st.now)]
           ELSE st' = [st EXCEPT !.requests = valid]
    /\ UNCHANGED <<pc, mine>>

WindowRight == \A t \in 0..st.now :
    Cardinality({i \in DOMAIN st.given : st.given[i] \in (t - Window + 1)..t}) <= Limit
-----------------------------------------------------------------------------
\* solution08, the queue: next[n] is the node after n, -1 none; node 0 is the sentinel.
QueueInit == st = [next |-> [n \in 0..FewCallers |-> -1], tail |-> 0]

QueueLoadsTail(c) ==
    /\ pc[c] = "begin"
    /\ mine' = [mine EXCEPT ![c] = <<st.tail>>]
    /\ Goes(c, "next") /\ UNCHANGED st

QueueLoadsNext(c) ==
    /\ pc[c] = "next"
    /\ mine' = [mine EXCEPT ![c] = <<@[1], st.next[@[1]]>>]
    /\ Goes(c, "compare") /\ UNCHANGED st

QueueCompares(c) ==
    /\ pc[c] = "compare"
    /\ Goes(c, IF mine[c][1] # st.tail THEN "begin" ELSE IF mine[c][2] = -1 THEN "link" ELSE "help")
    /\ UNCHANGED <<st, mine>>

\* Faulty: the node is stored without comparing.
QueueLinksBlindly(c) ==
    /\ pc[c] = "link"
    /\ st' = [st EXCEPT !.next[mine[c][1]] = c]
    /\ Goes(c, "swing") /\ UNCHANGED mine

QueueLinks(c) ==
    /\ pc[c] = "link"
    /\ IF st.next[mine[c][1]] = -1
       THEN st' = [st EXCEPT !.next[mine[c][1]] = c] /\ Goes(c, "swing")
       ELSE UNCHANGED st /\ Goes(c, "begin")
    /\ UNCHANGED mine

SwapTail(from, to) == st' = IF st.tail = from THEN [st EXCEPT !.tail = to] ELSE st

QueueHelps(c) == pc[c] = "help" /\ SwapTail(mine[c][1], mine[c][2]) /\ Goes(c, "begin") /\ UNCHANGED mine

QueueSwings(c) == pc[c] = "swing" /\ SwapTail(mine[c][1], c) /\ Goes(c, "ok") /\ UNCHANGED mine

ListFrom[n \in -1..FewCallers, k \in 0..FewCallers] ==
    IF n = -1 \/ k = 0 THEN IF n = -1 THEN {} ELSE {n} ELSE {n} \cup ListFrom[st.next[n], k - 1]

\* Every node that was linked stays in the list, and the tail is at most one node behind.
QueueRight ==
    /\ ListFrom[0, FewCallers] = {0} \cup At("swing") \cup At("ok")
    /\ st.next[st.tail] = -1 \/ st.next[st.next[st.tail]] = -1
-----------------------------------------------------------------------------
\* solution08, the dynamic pool: a monitor that adds workers.
DynamicInit == st = [queue |-> 0, workers |-> 1, busy |-> 0, monitor |-> "idle"]

DynamicSubmit(c) ==
    /\ First(c, "begin") /\ st.queue < 2 * Limit
    /\ st' = [st EXCEPT !.queue = @ + 1] /\ Goes(c, "ok") /\ UNCHANGED mine

MonitorDecides ==
    /\ st.monitor = "idle" /\ st.queue > st.workers * 2 /\ st.workers < Limit
    /\ st' = [st EXCEPT !.monitor = "add"] /\ UNCHANGED <<pc, mine>>

MonitorAdds ==
    /\ st.monitor = "add"
    /\ st' = [st EXCEPT !.monitor = "idle", !.workers = @ + 1] /\ UNCHANGED <<pc, mine>>

DynamicTakes ==
    /\ st.queue > 0 /\ st.busy < st.workers
    /\ st' = [st EXCEPT !.queue = @ - 1, !.busy = @ + 1] /\ UNCHANGED <<pc, mine>>

DynamicEnds == st.busy > 0 /\ st' = [st EXCEPT !.busy = @ - 1] /\ UNCHANGED <<pc, mine>>

DynamicRight == st.workers + (IF st.monitor = "add" THEN 1 ELSE 0) <= Limit
-----------------------------------------------------------------------------
\* solution05, the buffer pool: free are the buffers in it, first the first byte of each.
BuffersInit == st = [free |-> {}, first |-> <<>>, allocated |-> 0, reused |-> 0]

\* sync.Pool gives any buffer it has, or makes one (it may also have dropped them).
BufferGot(c, b) ==
    /\ mine' = [mine EXCEPT ![c] = <<b>>]
    /\ Goes(c, "count")

BufferMade(c) ==
    /\ pc[c] = "begin"
    /\ st' = [st EXCEPT !.first = Append(@, 0)]
    /\ BufferGot(c, Len(st.first) + 1)

BufferReused(c) ==
    /\ pc[c] = "begin"
    /\ \E b \in st.free : st' = [st EXCEPT !.free = @ \ {b}] /\ BufferGot(c, b)

\* A buffer whose first byte is 0 passes for a new one.
BufferCounted(c) ==
    /\ pc[c] = "count"
    /\ st' = IF st.first[mine[c][1]] = 0 THEN [st EXCEPT !.allocated = @ + 1] ELSE [st EXCEPT !.reused = @ + 1]
    /\ Goes(c, "fill") /\ UNCHANGED mine

\* Caller 1 stands for the ids that are 0 modulo 256.
BufferFilled(c) ==
    /\ pc[c] = "fill"
    /\ st' = [st EXCEPT !.first[mine[c][1]] = c - 1]
    /\ Goes(c, "put") /\ UNCHANGED mine

BufferPut(c) ==
    /\ pc[c] = "put"
    /\ st' = [st EXCEPT !.free = @ \cup {mine[c][1]}]
    /\ Goes(c, "ok") /\ UNCHANGED mine

\* Nobody shares a buffer; more may be counted as new than were made, never fewer.
BuffersRight ==
    LET using == At("count") \cup At("fill") \cup At("put")
    IN  /\ \A c, d \in using : mine[c] = mine[d] => c = d
        /\ \A c \in using : mine[c][1] \notin st.free
        /\ st.allocated + st.reused = Cardinality(At("fill") \cup At("put") \cup At("ok"))
        /\ st.allocated + Cardinality(At("count")) >= Len(st.first)
-----------------------------------------------------------------------------
\* solution06, the file pool: files are the open ones, disk the temporary files that exist,
\* stale the files that a caller was given and that the pool has closed.
FilesInit == st = [files |-> {}, disk |-> {}, given |-> {}, closed |-> FALSE]

\* Faulty: off by one.
poolOpenLate(c) ==
    /\ ~st.closed /\ pc[c] = "begin"
    /\ \E old \in IF Cardinality(st.files) > Limit THEN {{n} : n \in st.files} ELSE {{}} :
          st' = [st EXCEPT !.files = (@ \ old) \cup {c}, !.disk = @ \cup {c}, !.given = @ \cup {c}]
    /\ Goes(c, "ok") /\ UNCHANGED mine

\* A name of its own for each caller. At the limit some file of the pool is closed, whoever
\* uses it, and stays on the disk.
poolOpen(c) ==
    /\ ~st.closed /\ pc[c] = "begin"
    /\ \E old \in IF Cardinality(st.files) >= Limit THEN {{n} : n \in st.files} ELSE {{}} :
          st' = [st EXCEPT !.files = (@ \ old) \cup {c}, !.disk = @ \cup {c}, !.given = @ \cup {c}]
    /\ Goes(c, "ok") /\ UNCHANGED mine

\* The name is open already.
poolOpenAgain(c) == ~st.closed /\ pc[c] = "ok" /\ c \in st.files /\ UNCHANGED <<st, pc, mine>>

poolCloseAll ==
    /\ ~st.closed
    /\ st' = [st EXCEPT !.files = {}, !.disk = @ \ st.files, !.closed = TRUE]
    /\ UNCHANGED <<pc, mine>>

\* The pool keeps its limit; what it closed by itself is what it leaves on the disk.
FilesRight ==
    /\ Cardinality(st.files) <= Limit
    /\ st.files \subseteq st.disk
    /\ Cardinality(st.disk) = (IF st.closed /\ Cardinality(st.given) > Limit THEN Cardinality(st.given) - Limit
                               ELSE IF st.closed THEN 0 ELSE Cardinality(st.given))
-----------------------------------------------------------------------------
\* examples/04, the circuit breaker: Call holds the lock for as long as fn takes. tested is
\* how many calls have succeeded since it was last open.
BreakerInit == st = [state |-> "closed", failures |-> 0, successCount |-> 0, cooled |-> FALSE, tested |-> 0]

BreakerCools ==
    /\ st.state = "open" /\ ~st.cooled
    /\ st' = [st EXCEPT !.cooled = TRUE] /\ UNCHANGED <<pc, mine>>

Tried == IF st.state = "open" /\ st.cooled THEN [st EXCEPT !.state = "half-open", !.successCount = 0] ELSE st

\* Faulty: a failure while it is tested is counted like any other.
BreakerFailsSoftly ==
    /\ Tried.state # "open"
    /\ st' = [Tried EXCEPT !.failures = (@ + 1) % (2 * Limit), !.cooled = FALSE, !.tested = 0,
                           !.state = IF Tried.failures + 1 = Limit THEN "open" ELSE @]
    /\ UNCHANGED <<pc, mine>>

\* Failures beyond the limit are alike.
BreakerFails ==
    /\ Tried.state # "open"
    /\ st' = [Tried EXCEPT !.failures = IF @ < Limit THEN @ + 1 ELSE @, !.cooled = FALSE, !.tested = 0,
                           !.state = IF @ = "half-open" \/ Tried.failures + 1 >= Limit THEN "open" ELSE @]
    /\ UNCHANGED <<pc, mine>>

BreakerSucceeds ==
    /\ Tried.state # "open"
    /\ LET closes == Tried.state = "half-open" /\ Tried.successCount + 1 >= 2
       IN  st' = [Tried EXCEPT
                    !.successCount = IF Tried.state = "half-open" THEN @ + 1 ELSE @,
                    !.failures = IF closes \/ Tried.state = "closed" THEN 0 ELSE @,
                    !.tested = IF Tried.state = "half-open" THEN @ + 1 ELSE @,
                    !.state = IF closes THEN "closed" ELSE @]
    /\ UNCHANGED <<pc, mine>>

\* It closes after two successes in a row, and a failure while it is tested opens it again.
BreakerRight ==
    /\ st.state = "half-open" => st.tested < 2 /\ st.failures = Limit
    /\ st.state = "closed" => st.failures < Limit /\ st.tested \in {0, 2}
    /\ st.state = "open" => st.failures = Limit
-----------------------------------------------------------------------------
\* examples/04, the batch processor.
BatchInit == st = [channel |-> <<>>, items |-> <<>>, batches |-> <<>>, added |-> 0, dropped |-> {}, run |-> "on"]

\* The channel has room for two batches; a call that finds it full gives up after a while.
BatchAdd ==
    /\ st.added < MaxCalls /\ st.run = "on"
    /\ st' = IF Len(st.channel) < 2 * Limit
             THEN [st EXCEPT !.added = @ + 1, !.channel = Append(@, st.added + 1)]
             ELSE [st EXCEPT !.added = @ + 1, !.dropped = @ \cup {st.added + 1}]
    /\ UNCHANGED <<pc, mine>>

\* Faulty: the items are not taken out.
flushKeeps(s) == IF s.items = <<>> THEN s ELSE [s EXCEPT !.batches = Append(@, s.items)]

flush(s) == IF s.items = <<>> THEN s ELSE [s EXCEPT !.batches = Append(@, s.items), !.items = <<>>]

BatchReceives ==
    /\ st.run \in {"on", "stopped"} /\ st.channel # <<>>
    /\ LET s == [st EXCEPT !.channel = Tail(@), !.items = Append(@, Head(st.channel))]
       IN  st' = IF Len(s.items) >= Limit THEN flush(s) ELSE s
    /\ UNCHANGED <<pc, mine>>

BatchTicks == st.run # "ended" /\ st.items # <<>> /\ st' = flush(st) /\ UNCHANGED <<pc, mine>>

BatchStop == st.run = "on" /\ st' = [st EXCEPT !.run = "stopped"] /\ UNCHANGED <<pc, mine>>

\* The select may take done while items are in the channel, which nobody receives then.
BatchEnds == st.run = "stopped" /\ st' = [flush(st) EXCEPT !.run = "ended"] /\ UNCHANGED <<pc, mine>>

BatchesRight ==
    LET out == [i \in DOMAIN st.batches |-> Len(st.batches[i])]
        inBatches == UNION {{st.batches[i][j] : j \in DOMAIN st.batches[i]} : i \in DOMAIN st.batches}
        elsewhere == {st.channel[i] : i \in DOMAIN st.channel} \cup {st.items[i] : i \in DOMAIN st.items} \cup st.dropped
    IN  /\ \A i \in DOMAIN out : out[i] \in 1..Limit
        /\ inBatches \cup elsewhere = 1..st.added /\ inBatches \cap elsewhere = {}
        /\ st.run = "ended" => st.items = <<>>
-----------------------------------------------------------------------------
Kinds == {"counter", "limiter", "tasks", "window", "queue", "dynamic", "buffers", "files", "breaker", "batch"}

PatternInit ==
    /\ kind \in Kinds
    /\ pc = [c \in Callers |-> "begin"]
    /\ mine = [c \in Callers |-> <<>>]
    /\ CASE kind = "counter" -> CounterInit [] kind = "limiter" -> LimiterInit
         [] kind = "tasks" -> TasksInit     [] kind = "window" -> WindowInit
         [] kind = "queue" -> QueueInit     [] kind = "dynamic" -> DynamicInit
         [] kind = "buffers" -> BuffersInit [] kind = "files" -> FilesInit
         [] kind = "breaker" -> BreakerInit [] kind = "batch" -> BatchInit

QueueStep(c) ==
    \/ QueueLoadsTail(c) \/ QueueLoadsNext(c) \/ QueueCompares(c) \/ QueueLinks(c) \/ QueueHelps(c)
    \/ QueueSwings(c)

CallerStep(c) ==
    \/ kind = "counter" /\ (CounterAdd(c) \/ CounterRollback(c))
    \/ kind = "limiter" /\ (LimiterLoads(c) \/ LimiterRefills(c) \/ LimiterTakes(c) \/ LimiterRollback(c))
    \/ kind = "tasks" /\ (TaskChecked(c) \/ TaskSent(c) \/ TaskCounted(c))
    \/ kind = "window" /\ WindowAllow(c)
    \/ kind = "queue" /\ c <= FewCallers /\ QueueStep(c)
    \/ kind = "dynamic" /\ DynamicSubmit(c)
    \/ kind = "buffers" /\ c <= FewCallers
          /\ (BufferMade(c) \/ BufferReused(c) \/ BufferCounted(c) \/ BufferFilled(c) \/ BufferPut(c))
    \/ kind = "files" /\ (poolOpen(c) \/ poolOpenAgain(c))

ObjectStep ==
    \/ kind = "limiter" /\ LimiterDue
    \/ kind = "tasks" /\ (TaskStarts \/ TaskEnds)
    \/ kind = "window" /\ WindowTicks
    \/ kind = "dynamic" /\ (MonitorDecides \/ MonitorAdds \/ DynamicTakes \/ DynamicEnds)
    \/ kind = "files" /\ poolCloseAll
    \/ kind = "breaker" /\ (BreakerCools \/ BreakerFails \/ BreakerSucceeds)
    \/ kind = "batch" /\ (BatchAdd \/ BatchReceives \/ BatchTicks \/ BatchStop \/ BatchEnds)

PatternNext == kind' = kind /\ (ObjectStep \/ \E c \in Callers : CallerStep(c))
-----------------------------------------------------------------------------
\* Each object keeps its promise while its callers run at the same time: the counter and the
\* limiter let through no more than they may (the limiter one more for each rollback that a
\* refill has overtaken), the task count is off by the callers that have yet to count, every
\* window of the sliding window holds, no node of the queue is lost, the dynamic pool does
\* not grow beyond its limit, no buffer is shared, the file pool keeps its limit and leaves
\* behind what it evicted, the breaker closes only after two successes, and no item is in two
\* batches.
ObjectsKeepPromise ==
    /\ kind = "counter" => CounterRight
    /\ kind = "limiter" => LimiterRight
    /\ kind = "tasks" => TasksRight
    /\ kind = "window" => WindowRight
    /\ kind = "queue" => QueueRight
    /\ kind = "dynamic" => DynamicRight
    /\ kind = "buffers" => BuffersRight
    /\ kind = "files" => FilesRight
    /\ kind = "breaker" => BreakerRight
    /\ kind = "batch" => BatchesRight

\* Every enqueue ends: whoever makes it try again has linked a node or moved the tail.
AllEnqueued == kind = "queue" /\ At("ok") = 1..FewCallers
=============================================================================
