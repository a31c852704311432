---------------------------- MODULE Backpressure ----------------------------
(***************************************************************************)
(* Challenge 11, solutions/challenge11_solution.go: the three ways to hold *)
(* back a producer that Challenge11_BackpressureSolution runs one after    *)
(* the other. Their variables are apart.                                   *)
(***************************************************************************)
EXTENDS Integers, FiniteSets, Sequences

CONSTANTS
    Workers,
    maxInflight,
    capacity,                    \* of the results channel
    MaxTasks,                    \* a worker begins no further round once so many tasks were pulled
    Requests,                    \* calls of processRequest
    maxTokens,
    threshold,
    resetTimeout,
    MaxRefills,                  \* bounds the ticks of the refill
    initialSize, shrinkAbove, growBelow, \* 100, 20, 200
    manyDrops, highThroughput,   \* 5, 20
    dropPolicy,                  \* "tail" in the code; "head" is the other case
    MaxItems                     \* bounds the producer

\* Workers and requests are finitely many, the first size is between the limits that the
\* adjustment compares with, and the policy is one that drops.
ASSUME FlowAssumption ==
    /\ IsFiniteSet(Workers) /\ capacity \in Nat /\ MaxTasks \in Nat
    /\ IsFiniteSet(Requests) /\ maxTokens \in Nat /\ threshold \in Nat
    /\ resetTimeout \in Nat /\ MaxRefills \in Nat
    /\ {initialSize, shrinkAbove, growBelow} \subseteq Nat \ {0}
    /\ shrinkAbove < initialSize /\ initialSize < growBelow
    /\ dropPolicy \in {"tail", "head"} /\ MaxItems \in Nat

VARIABLES
    inflight,                    \* the counter
    taskID,                      \* the last task pulled
    results,                     \* the channel
    open,                        \* the channel is not closed
    done,                        \* ctx.Done() is closed
    workerPc,                    \* worker -> where it is
    task,                        \* worker -> its task, 0 if none
    consumer,                    \* processResults still runs
    tokens, refills,             \* the bucket; ticks that added a token
    failures, successCount, state, sinceFail, \* the breaker
    requestPc,                   \* request -> where it is
    failed, passed,              \* requests that failed, that got a token
    data, maxSize, currentSize, dropCount, throughput, \* of the buffer
    id,                          \* items produced
    consumed                     \* items dequeued, in order

(***************************************************************************)
(* solution1_PullBasedArchitecture of solutions/challenge11_solution.go:   *)
(* workers pull a task while few enough are in flight, and give up on a    *)
(* result nobody takes. The context ends, the workers return, and the      *)
(* results channel is closed.                                              *)
(***************************************************************************)

pullVars == <<inflight, taskID, results, open, done, workerPc, task, consumer>>

PullTypeOK ==
    /\ inflight \in 0 .. Cardinality(Workers)
    /\ taskID \in 0 .. MaxTasks + Cardinality(Workers)
    /\ results \in Seq(0 .. MaxTasks + Cardinality(Workers)) /\ Len(results) <= capacity
    /\ open \in BOOLEAN /\ done \in BOOLEAN /\ consumer \in BOOLEAN
    /\ workerPc \in [Workers -> {"loop", "check", "pull", "process", "send", "release", "returned"}]
    /\ task \in [Workers -> 0 .. MaxTasks + Cardinality(Workers)]

PullInit ==
    /\ inflight = 0
    /\ taskID = 0
    /\ results = <<>>
    /\ open = TRUE
    /\ done = FALSE
    /\ workerPc = [w \in Workers |-> "loop"]
    /\ task = [w \in Workers |-> 0]
    /\ consumer = TRUE

PullGoto(w, from, to) == workerPc[w] = from /\ workerPc' = [workerPc EXCEPT ![w] = to]
-----------------------------------------------------------------------------
\* The outer select: return once the context is done.
Loop(w) ==
    /\ done \/ taskID < MaxTasks
    /\ PullGoto(w, "loop", IF done THEN "returned" ELSE "check")
    /\ UNCHANGED <<inflight, taskID, results, open, done, task, consumer>>

\* current < pipeline.maxInflight
MayPull == inflight < maxInflight

\* The counter is loaded and compared ...
Check(w) ==
    /\ PullGoto(w, "check", IF MayPull THEN "pull" ELSE "loop")
    /\ UNCHANGED <<inflight, taskID, results, open, done, task, consumer>>

\* ... and increased in a step of its own.
Pull(w) ==
    /\ PullGoto(w, "pull", "process")
    /\ inflight' = inflight + 1
    /\ UNCHANGED <<taskID, results, open, done, task, consumer>>

\* taskGenerator, and the processing
Generate(w) ==
    /\ PullGoto(w, "process", "send")
    /\ taskID' = taskID + 1
    /\ task' = [task EXCEPT ![w] = taskID + 1]
    /\ UNCHANGED <<inflight, results, open, done, consumer>>

SendResult(w) ==
    /\ Len(results) < capacity
    /\ PullGoto(w, "send", "release")
    /\ results' = Append(results, task[w])
    /\ UNCHANGED <<inflight, taskID, open, done, task, consumer>>

\* Faulty SendTimeout: the send has no timeout.
SendTimeoutNever(w) == FALSE

\* Faulty SendTimeout: the worker goes on without giving its slot back.
SendTimeoutLeaks(w) ==
    /\ PullGoto(w, "send", "loop")
    /\ UNCHANGED <<inflight, taskID, results, open, done, task, consumer>>

\* time.After(100 * time.Millisecond): the result is dropped.
SendTimeout(w) ==
    /\ PullGoto(w, "send", "release")
    /\ UNCHANGED <<inflight, taskID, results, open, done, task, consumer>>

Release(w) ==
    /\ PullGoto(w, "release", "loop")
    /\ inflight' = inflight - 1
    /\ task' = [task EXCEPT ![w] = 0]
    /\ UNCHANGED <<taskID, results, open, done, consumer>>

\* processResults takes a result (also when the context is done: select chooses), or
\* returns.
Consume ==
    /\ consumer
    /\ results # <<>>
    /\ results' = Tail(results)
    /\ UNCHANGED <<inflight, taskID, open, done, workerPc, task, consumer>>

ConsumerReturns ==
    /\ consumer
    /\ done
    /\ consumer' = FALSE
    /\ UNCHANGED <<inflight, taskID, results, open, done, workerPc, task>>

Timeout ==
    /\ ~done
    /\ done' = TRUE
    /\ UNCHANGED <<inflight, taskID, results, open, workerPc, task, consumer>>

\* pipeline.wg.Wait(), close(pipeline.results)
CloseResults ==
    /\ done /\ open
    /\ \A w \in Workers : workerPc[w] = "returned"
    /\ open' = FALSE
    /\ UNCHANGED <<inflight, taskID, results, done, workerPc, task, consumer>>

Work(w) ==
    Loop(w) \/ Check(w) \/ Pull(w) \/ Generate(w) \/ SendResult(w) \/ SendTimeout(w) \/ Release(w)

PullNext ==
    \/ \E w \in Workers : Work(w)
    \/ Consume \/ ConsumerReturns \/ Timeout \/ CloseResults

-----------------------------------------------------------------------------
\* The counter is exact on every path through the two selects, so no slot leaks, and no
\* task is in two hands. (The limit itself can be passed, as the check and the increment
\* are two steps: only the number of workers bounds what is in flight.)
InflightExact ==
    /\ inflight = Cardinality({w \in Workers : workerPc[w] \in {"process", "send", "release"}})
    /\ \A v, w \in Workers : v # w /\ task[v] # 0 => task[v] # task[w]

\* No worker can send on the closed channel, and the counter is back at zero by then.
ClosedWhenIdle == ~open => inflight = 0 /\ \A w \in Workers : workerPc[w] = "returned"

(***************************************************************************)
(* solution2_TokenBucketWithCircuitBreaker of                              *)
(* solutions/challenge11_solution.go: a request passes a circuit breaker   *)
(* made of atomics, each used in a step of its own, and a token bucket     *)
(* under a mutex, before it is processed.                                  *)
(***************************************************************************)

limitedVars == <<tokens, refills, failures, successCount, state, sinceFail, requestPc, failed, passed>>

N == Cardinality(Requests)

LimitedTypeOK ==
    /\ tokens \in 0 .. maxTokens
    /\ refills \in 0 .. MaxRefills
    /\ failures \in 0 .. N
    /\ successCount \in 0 .. N
    /\ state \in {"closed", "open", "half-open"}
    /\ sinceFail \in 0 .. resetTimeout + 1
    /\ requestPc \in [Requests -> {"idle", "check", "tohalf", "token", "work", "stamp", "count", "open",
                            "ok", "add", "enough", "close", "clear", "clear2", "returned"}]
    /\ failed \subseteq Requests
    /\ passed \subseteq Requests

LimitedInit ==
    /\ tokens = maxTokens
    /\ refills = 0
    /\ failures = 0
    /\ successCount = 0
    /\ state = "closed"
    /\ sinceFail = 0
    /\ requestPc = [r \in Requests |-> "idle"]
    /\ failed = {}
    /\ passed = {}

LimitedGoto(r, from, to) == requestPc[r] = from /\ requestPc' = [requestPc EXCEPT ![r] = to]

breaker == <<failures, successCount, state, sinceFail>>

bucket == <<tokens, refills>>

histories == <<failed, passed>>
-----------------------------------------------------------------------------
Refill ==
    /\ refills < MaxRefills
    /\ tokens < maxTokens
    /\ tokens' = tokens + 1
    /\ refills' = refills + 1
    /\ UNCHANGED <<breaker, requestPc, histories>>

\* checkCircuit reads the state ...
CheckCircuit(r) ==
    /\ LimitedGoto(r, "idle", IF state = "open" THEN "check" ELSE "token")
    /\ UNCHANGED <<breaker, bucket, histories>>

\* ... and of an open circuit the time of the last failure ...
CheckTimeout(r) ==
    /\ LimitedGoto(r, "check", IF sinceFail > resetTimeout THEN "tohalf" ELSE "returned")
    /\ UNCHANGED <<breaker, bucket, histories>>

\* ... before it stores the new state.
StoreHalfOpen(r) ==
    /\ LimitedGoto(r, "tohalf", "token")
    /\ state' = "half-open"
    /\ UNCHANGED <<failures, successCount, sinceFail, bucket, histories>>

\* Faulty HasToken: an empty bucket still gives a token.
HasTokenNegative == tokens >= 0

\* bucket.tokens > 0
HasToken == tokens > 0

\* acquireToken
AcquireToken(r) ==
    /\ LimitedGoto(r, "token", IF HasToken THEN "work" ELSE "returned")
    /\ tokens' = IF HasToken THEN tokens - 1 ELSE tokens
    /\ passed' = IF HasToken THEN passed \cup {r} ELSE passed
    /\ UNCHANGED <<breaker, refills, failed>>

\* A failed request counts, stamps, compares and opens the circuit.
Fail(r) ==
    /\ LimitedGoto(r, "work", "stamp")
    /\ failures' = failures + 1
    /\ failed' = failed \cup {r}
    /\ UNCHANGED <<successCount, state, sinceFail, bucket, passed>>

StampFailure(r) ==
    /\ LimitedGoto(r, "stamp", "count")
    /\ sinceFail' = 0
    /\ UNCHANGED <<failures, successCount, state, bucket, histories>>

\* Faulty TooMany: one failure less opens the circuit.
TooManyEarly == failures >= threshold - 1

\* breaker.failures.Load() >= breaker.threshold
TooMany == failures >= threshold

CompareFailures(r) ==
    /\ LimitedGoto(r, "count", IF TooMany THEN "open" ELSE "returned")
    /\ UNCHANGED <<breaker, bucket, histories>>

StoreOpen(r) ==
    /\ LimitedGoto(r, "open", "returned")
    /\ state' = "open"
    /\ UNCHANGED <<failures, successCount, sinceFail, bucket, histories>>

\* A successful one, in a half-open circuit, counts, compares, closes it and clears both
\* counters.
Succeed(r) ==
    /\ LimitedGoto(r, "work", "ok")
    /\ UNCHANGED <<breaker, bucket, histories>>

LoadState(r) ==
    /\ LimitedGoto(r, "ok", IF state = "half-open" THEN "add" ELSE "returned")
    /\ UNCHANGED <<breaker, bucket, histories>>

AddSuccess(r) ==
    /\ LimitedGoto(r, "add", "enough")
    /\ successCount' = successCount + 1
    /\ UNCHANGED <<failures, state, sinceFail, bucket, histories>>

CompareSuccesses(r) ==
    /\ LimitedGoto(r, "enough", IF successCount >= 2 THEN "close" ELSE "returned")
    /\ UNCHANGED <<breaker, bucket, histories>>

StoreClosed(r) ==
    /\ LimitedGoto(r, "close", "clear")
    /\ state' = "closed"
    /\ UNCHANGED <<failures, successCount, sinceFail, bucket, histories>>

ClearFailures(r) ==
    /\ LimitedGoto(r, "clear", "clear2")
    /\ failures' = 0
    /\ UNCHANGED <<successCount, state, sinceFail, bucket, histories>>

ClearSuccesses(r) ==
    /\ LimitedGoto(r, "clear2", "returned")
    /\ successCount' = 0
    /\ UNCHANGED <<failures, state, sinceFail, bucket, histories>>

Tick ==
    /\ sinceFail <= resetTimeout
    /\ sinceFail' = sinceFail + 1
    /\ UNCHANGED <<failures, successCount, state, bucket, requestPc, histories>>

Step(r) ==
    \/ CheckCircuit(r) \/ CheckTimeout(r) \/ StoreHalfOpen(r) \/ AcquireToken(r)
    \/ Fail(r) \/ StampFailure(r) \/ CompareFailures(r) \/ StoreOpen(r)
    \/ Succeed(r) \/ LoadState(r) \/ AddSuccess(r) \/ CompareSuccesses(r)
    \/ StoreClosed(r) \/ ClearFailures(r) \/ ClearSuccesses(r)

LimitedNext == (\E r \in Requests : Step(r)) \/ Refill \/ Tick

-----------------------------------------------------------------------------
\* Every request that is processed has paid a token of its own.
TokensConserved == tokens + Cardinality(passed) = maxTokens + refills

\* The circuit leaves "closed" only after threshold failures, and no request is lost in
\* the counters: what they hold has happened.
OpenAfterThreshold ==
    /\ state # "closed" => Cardinality(failed) >= threshold
    /\ failures <= Cardinality(failed)

(***************************************************************************)
(* solution3_AdaptiveBuffering of solutions/challenge11_solution.go: a     *)
(* buffer that drops when full and whose size follows drops and            *)
(* throughput. enqueue, dequeue and adjustBufferSize hold its lock.        *)
(* Items are numbered by the producer. The sizes of the code (100, between *)
(* 20 and 200) and what counts as many drops or a high throughput (5, 20)  *)
(* are parameters.                                                         *)
(***************************************************************************)

adaptiveVars == <<data, maxSize, currentSize, dropCount, throughput, id, consumed>>

Shrunk(n) == (n * 8) \div 10

\* Faulty Grown: a doubling.
GrownDouble(n) == n * 2

Grown(n) == (n * 12) \div 10

AdaptiveTypeOK ==
    /\ data \in Seq(0 .. MaxItems - 1) /\ consumed \in Seq(0 .. MaxItems - 1)
    /\ maxSize \in Nat
    /\ currentSize \in 0 .. MaxItems
    /\ dropCount \in 0 .. MaxItems
    /\ throughput \in 0 .. MaxItems
    /\ id \in 0 .. MaxItems

AdaptiveInit ==
    /\ data = <<>>
    /\ maxSize = initialSize
    /\ currentSize = 0
    /\ dropCount = 0
    /\ throughput = 0
    /\ id = 0
    /\ consumed = <<>>
-----------------------------------------------------------------------------
\* produce calls enqueue. A full buffer drops the new item ("tail") or its oldest
\* ("head", and any other policy drops nothing).
Enqueue ==
    /\ id < MaxItems
    /\ id' = id + 1
    /\ LET full == Len(data) >= maxSize
       IN  /\ dropCount' =
                 IF full /\ dropPolicy \in {"tail", "head"} THEN dropCount + 1 ELSE dropCount
           /\ data' = IF full /\ dropPolicy = "tail" THEN data
                      ELSE Append(IF full /\ dropPolicy = "head" THEN Tail(data) ELSE data, id)
           /\ currentSize' = Len(data')
    /\ UNCHANGED <<maxSize, throughput, consumed>>

\* consume calls dequeue.
Dequeue ==
    /\ data # <<>>
    /\ data' = Tail(data)
    /\ consumed' = Append(consumed, Head(data))
    /\ currentSize' = Len(data')
    /\ throughput' = throughput + 1
    /\ UNCHANGED <<maxSize, dropCount, id>>

\* adjustBufferSize
Adjust ==
    /\ maxSize' =
          IF dropCount > manyDrops /\ maxSize > shrinkAbove THEN Shrunk(maxSize)
          ELSE IF dropCount = 0 /\ throughput > highThroughput /\ maxSize < growBelow
                 THEN Grown(maxSize)
          ELSE maxSize
    /\ dropCount' = 0
    /\ throughput' = 0
    /\ UNCHANGED <<data, currentSize, id, consumed>>

AdaptiveNext == Enqueue \/ Dequeue \/ Adjust

-----------------------------------------------------------------------------
\* However the size is adjusted, it and the buffer's length stay within the factors
\* of the two limits, items leave in the order they came, none twice, and
\* currentSize is exact for the producer that reads it without the lock.
BufferKept ==
    /\ maxSize * 10 > (shrinkAbove + 1) * 8 - 10
    /\ maxSize * 10 <= (growBelow - 1) * 12
    /\ Len(data) * 10 <= (growBelow - 1) * 12
    /\ currentSize = Len(data)
    /\ LET all == consumed \o data
       IN  \A i, j \in DOMAIN all : i < j => all[i] < all[j]

(***************************************************************************)
(* The three of Challenge11_BackpressureSolution.                          *)
(***************************************************************************)

flowVars == <<pullVars, limitedVars, adaptiveVars>>

FlowInit == PullInit /\ LimitedInit /\ AdaptiveInit

FlowNext ==
    \/ PullNext /\ UNCHANGED <<limitedVars, adaptiveVars>>
    \/ LimitedNext /\ UNCHANGED <<pullVars, adaptiveVars>>
    \/ AdaptiveNext /\ UNCHANGED <<pullVars, limitedVars>>

FlowSpec == FlowInit /\ [][FlowNext]_flowVars
-----------------------------------------------------------------------------
\* What is in flight, let through or buffered stays within the limits that the races on
\* the counters leave.
FlowBounded ==
    /\ PullTypeOK /\ InflightExact /\ ClosedWhenIdle
    /\ LimitedTypeOK /\ TokensConserved /\ OpenAfterThreshold
    /\ AdaptiveTypeOK /\ BufferKept
=============================================================================
