----------------------------- MODULE EventBuses -----------------------------
(***************************************************************************)
(* Solution 17, solutions/solution17_event_bus.go: the three event buses   *)
(* that RunSolution17 runs one after the other. Their variables are apart. *)
(***************************************************************************)
EXTENDS Integers, FiniteSets, Sequences, Functions, SequencesExt

CONSTANTS
    Calls,                       \* calls of Publish
    ReliableEvents,              \* event IDs
    historyTTL,
    MaxHandlers,                 \* bounds the calls of Subscribe
    MaxTime,                     \* bounds the clock
    None,
    Events,
    Workers,
    Subscribers,                 \* a subscriber is its priority
    bufferSize,                  \* capacity of the channel
    ringSize,                    \* of eventHistory
    Processor,                   \* the goroutine that calls ProcessDLQ
    maxFailures,
    cooldown,
    MaxRetries                   \* of every event

VARIABLES
    now,                         \* the clock
    processedIDs,                \* event -> when it was stored, or None
    handlers,                    \* length of the subscriber list
    cutoff,                      \* the cutoff of the cleanup in progress, or None
    metrics,                     \* the three counters
    reliablePc,                  \* call -> where it is
    event,                       \* call -> its event
    at,                          \* call -> when it passed the duplicate check
    running,                     \* call -> handler goroutines it waits for
    errors,                      \* call -> errors in errChan
    subscribers,                 \* the list of the event type
    ring,                        \* eventHistory: buffer, head and tail
    buffer,                      \* the channel
    shutdown,                    \* "no", "closed" and, once wg.Wait() is over, "returned"
    boundedPc,                   \* event -> where its Publish is
    worker,                      \* worker -> "select", "drain", "exited", or the event it processes
    draining,                    \* workers that are past the shutdown case
    published,                   \* every event in the order of ring.Add, a history
    early,                       \* events accepted before close(shutdown), a history
    failures, state,             \* of the breaker
    sinceFail,                   \* time since lastFailTime, counted to one past cooldownTime
    dlq,                         \* the dead letter queue: events with their RetryCount
    batch,                       \* what ProcessDLQ has still to publish
    breakerPc,                   \* goroutine -> where it is
    cur,                         \* goroutine -> the event it publishes
    result,                      \* goroutine -> what its Publish will return, or returned
    opens,                       \* goroutine -> its failure was one too many
    handled,                     \* events some handler has succeeded for, a history
    discarded,                   \* events given up after MaxRetries, a history
    raced                        \* a store of the breaker was outdated, a history

(***************************************************************************)
(* ReliableEventBus of solutions/solution17_event_bus.go: Publish drops an *)
(* event whose ID is in processedIDs, runs every handler in a goroutine of *)
(* its own and waits for all; cleanupHistory forgets old IDs. One event    *)
(* type; an event is its ID. Time is counted in ticks of the clock.        *)
(***************************************************************************)

reliableVars == <<now, processedIDs, handlers, cutoff, metrics, reliablePc, event, at, running, errors>>

Times == 0 .. MaxTime

ReliableTypeOK ==
    /\ now \in Times
    /\ processedIDs \in [ReliableEvents -> Times \cup {None}]
    /\ handlers \in 0 .. MaxHandlers
    /\ cutoff \in (-historyTTL .. MaxTime - historyTTL) \cup {None}
    /\ metrics \in [processed : Nat, failed : Nat, duplicates : Nat]
    /\ reliablePc \in [Calls -> {"idle", "lookup", "wait", "nil", "duplicate", "error"}]
    /\ event \in [Calls -> ReliableEvents \cup {None}]
    /\ at \in [Calls -> Times \cup {None}]
    /\ running \in [Calls -> 0 .. MaxHandlers]
    /\ errors \in [Calls -> 0 .. MaxHandlers]

ReliableInit ==
    /\ now = 0
    /\ processedIDs = [e \in ReliableEvents |-> None]
    /\ handlers = 0
    /\ cutoff = None
    /\ metrics = [processed |-> 0, failed |-> 0, duplicates |-> 0]
    /\ reliablePc = [c \in Calls |-> "idle"]
    /\ event = [c \in Calls |-> None]
    /\ at = [c \in Calls |-> None]
    /\ running = [c \in Calls |-> 0]
    /\ errors = [c \in Calls |-> 0]

callVars == <<reliablePc, event, at, running, errors>>
-----------------------------------------------------------------------------
\* Subscribe appends: &existing == &handler compares the addresses of two variables
\* and never holds, so a handler subscribed twice is called twice.
ReliableSubscribe ==
    /\ handlers < MaxHandlers
    /\ handlers' = handlers + 1
    /\ UNCHANGED <<now, processedIDs, cutoff, metrics, callVars>>

\* LoadOrStore(event.ID, time.Now())
ReliablePublish(c, e) ==
    /\ reliablePc[c] = "idle"
    /\ event' = [event EXCEPT ![c] = e]
    /\ \/ /\ processedIDs[e] # None
          /\ metrics' = [metrics EXCEPT !.duplicates = @ + 1]
          /\ reliablePc' = [reliablePc EXCEPT ![c] = "duplicate"]
          /\ UNCHANGED <<processedIDs, at>>
       \/ /\ processedIDs[e] = None
          /\ processedIDs' = [processedIDs EXCEPT ![e] = now]
          /\ at' = [at EXCEPT ![c] = now]
          /\ reliablePc' = [reliablePc EXCEPT ![c] = "lookup"]
          /\ UNCHANGED metrics
    /\ UNCHANGED <<now, handlers, cutoff, running, errors>>

\* The handlers are read under the lock; without any, Publish returns.
StartHandlers(c) ==
    /\ reliablePc[c] = "lookup"
    /\ reliablePc' = [reliablePc EXCEPT ![c] = IF handlers = 0 THEN "nil" ELSE "wait"]
    /\ running' = [running EXCEPT ![c] = handlers]
    /\ UNCHANGED <<now, processedIDs, handlers, cutoff, metrics, event, at, errors>>

\* A handler returns nil ...
Handled(c) ==
    /\ running[c] > 0
    /\ running' = [running EXCEPT ![c] = @ - 1]
    /\ metrics' = [metrics EXCEPT !.processed = @ + 1]
    /\ UNCHANGED <<now, processedIDs, handlers, cutoff, reliablePc, event, at, errors>>

\* ... or returns an error or panics.
HandlerFailed(c) ==
    /\ running[c] > 0
    /\ running' = [running EXCEPT ![c] = @ - 1]
    /\ errors' = [errors EXCEPT ![c] = @ + 1]
    /\ metrics' = [metrics EXCEPT !.failed = @ + 1]
    /\ UNCHANGED <<now, processedIDs, handlers, cutoff, reliablePc, event, at>>

\* wg.Wait() is over: the errors decide what Publish returns.
Return(c) ==
    /\ reliablePc[c] = "wait"
    /\ running[c] = 0
    /\ reliablePc' = [reliablePc EXCEPT ![c] = IF errors[c] > 0 THEN "error" ELSE "nil"]
    /\ UNCHANGED <<now, processedIDs, handlers, cutoff, metrics, event, at, running, errors>>

\* The ticker of cleanupHistory fires.
CleanupStart ==
    /\ cutoff = None
    /\ cutoff' = now - historyTTL
    /\ UNCHANGED <<now, processedIDs, handlers, metrics, callVars>>

\* Faulty Outdated: an entry of the cutoff's own time is taken for an old one.
OutdatedEarly(t) == t <= cutoff

\* timestamp.Before(cutoff)
Outdated(t) == t < cutoff

\* Range comes to an entry and deletes it.
CleanupDelete(e) ==
    /\ cutoff # None
    /\ processedIDs[e] # None
    /\ Outdated(processedIDs[e])
    /\ processedIDs' = [processedIDs EXCEPT ![e] = None]
    /\ UNCHANGED <<now, handlers, cutoff, metrics, callVars>>

\* Range is through. It need not have met an entry stored meanwhile, but it has met
\* the outdated ones, which were all there when it began.
CleanupEnd ==
    /\ cutoff # None
    /\ \A e \in ReliableEvents : processedIDs[e] # None => ~Outdated(processedIDs[e])
    /\ cutoff' = None
    /\ UNCHANGED <<now, processedIDs, handlers, metrics, callVars>>

ReliableTick ==
    /\ now < MaxTime
    /\ now' = now + 1
    /\ UNCHANGED <<processedIDs, handlers, cutoff, metrics, callVars>>

ReliableNext ==
    \/ ReliableSubscribe \/ CleanupStart \/ CleanupEnd \/ ReliableTick
    \/ \E e \in ReliableEvents : CleanupDelete(e)
    \/ \E c \in Calls :
          \/ \E e \in ReliableEvents : ReliablePublish(c, e)
          \/ StartHandlers(c) \/ Handled(c) \/ HandlerFailed(c) \/ Return(c)

-----------------------------------------------------------------------------
\* Two calls of Publish that both run the handlers for the same ID are more than
\* historyTTL apart, whatever the calls and the cleanup do in between.
HandledOncePerTTL ==
    \A c, d \in Calls :
        c # d /\ at[c] # None /\ at[d] # None /\ event[c] = event[d] =>
            at[c] - at[d] > historyTTL \/ at[d] - at[c] > historyTTL

\* A call that passed the check is remembered until its ID is old enough to forget.
RememberedForTTL ==
    \A c \in Calls : at[c] # None /\ now - at[c] <= historyTTL =>
        processedIDs[event[c]] = at[c]

\* What Publish answers agrees with the metrics, calls in progress included.
MetricsAgree ==
    /\ metrics.duplicates = Cardinality({c \in Calls : reliablePc[c] = "duplicate"})
    /\ metrics.failed = SumFunction(errors)

(***************************************************************************)
(* BoundedEventBus of solutions/solution17_event_bus.go: Publish records   *)
(* the event in a ring of fixed size and hands it to the workers through a *)
(* bounded channel; a worker calls the subscribers by priority; Shutdown   *)
(* lets the workers empty the channel and waits for them. One event type;  *)
(* an event is the call of Publish that brings it.                         *)
(***************************************************************************)

boundedVars == <<subscribers, ring, buffer, shutdown, boundedPc, worker, draining, published, early>>

BoundedTypeOK ==
    /\ subscribers \in SeqOf(Subscribers, Cardinality(Subscribers))
    /\ ring.buffer \in [0 .. ringSize - 1 -> Events \cup {None}]
    /\ 0 <= ring.head /\ ring.head <= ring.tail /\ ring.tail <= Cardinality(Events)
    /\ Len(buffer) <= bufferSize
    /\ shutdown \in {"no", "closed", "returned"}
    /\ boundedPc \in [Events -> {"idle", "send", "blocked", "accepted", "refused"}]
    /\ worker \in [Workers -> Events \cup {"select", "drain", "exited"}]
    /\ draining \subseteq Workers

BoundedInit ==
    /\ subscribers = <<>>
    /\ ring = [buffer |-> [i \in 0 .. ringSize - 1 |-> None], head |-> 0, tail |-> 0]
    /\ buffer = <<>>
    /\ shutdown = "no"
    /\ boundedPc = [e \in Events |-> "idle"]
    /\ worker = [w \in Workers |-> "select"]
    /\ draining = {}
    /\ published = <<>>
    /\ early = {}
-----------------------------------------------------------------------------
\* The first place whose subscriber has a lower priority, 0 if there is none.
Position(s, list) == SelectInSeq(list, LAMBDA t : s > t)

Insert(s, list) ==
    LET i == Position(s, list)
    IN  IF i = 0 THEN Append(list, s) ELSE InsertAt(list, i, s)

\* Subscribe keeps the list sorted. It is called before the first Publish, as in
\* RunSolution17: the list is updated in place, under workers that iterate over it.
BoundedSubscribe(s) ==
    /\ s \notin ToSet(subscribers)
    /\ published = <<>>
    /\ subscribers' = Insert(s, subscribers)
    /\ UNCHANGED <<ring, buffer, shutdown, boundedPc, worker, draining, published, early>>

\* Faulty NewHead: the head follows once one entry too many was overwritten.
NewHeadLate(r) ==
    IF r.tail + 1 - r.head > ringSize + 1 THEN r.tail + 1 - ringSize ELSE r.head

\* if rb.tail-rb.head > rb.size, after rb.tail++
NewHead(r) == IF r.tail + 1 - r.head > ringSize THEN r.tail + 1 - ringSize ELSE r.head

\* Add
Added(r, e) ==
    [buffer |-> [r.buffer EXCEPT ![r.tail % ringSize] = e],
     head   |-> NewHead(r),
     tail   |-> r.tail + 1]

\* GetRecent
GetRecent(r, n) ==
    LET count == r.tail - r.head
        m     == IF n > count THEN count ELSE n
    IN  [i \in 1 .. m |-> r.buffer[(r.tail - m + i - 1) % ringSize]]

\* Publish records the event first, whatever becomes of it.
BoundedPublish(e) ==
    /\ boundedPc[e] = "idle"
    /\ ring' = Added(ring, e)
    /\ published' = Append(published, e)
    /\ boundedPc' = [boundedPc EXCEPT ![e] = "send"]
    /\ UNCHANGED <<subscribers, buffer, shutdown, worker, draining, early>>

\* case eb.buffer <- event
Send(e) ==
    /\ boundedPc[e] \in {"send", "blocked"}
    /\ Len(buffer) < bufferSize
    /\ buffer' = Append(buffer, e)
    /\ boundedPc' = [boundedPc EXCEPT ![e] = "accepted"]
    /\ early' = IF shutdown = "no" THEN early \cup {e} ELSE early
    /\ UNCHANGED <<subscribers, ring, shutdown, worker, draining, published>>

\* The select waits only where the channel is full ...
Block(e) ==
    /\ boundedPc[e] = "send"
    /\ Len(buffer) = bufferSize
    /\ boundedPc' = [boundedPc EXCEPT ![e] = "blocked"]
    /\ UNCHANGED <<subscribers, ring, buffer, shutdown, worker, draining, published, early>>

\* ... until time.After fires, or the context is done (which a select that has just
\* begun may choose as well).
GiveUp(e) ==
    /\ boundedPc[e] \in {"send", "blocked"}
    /\ boundedPc' = [boundedPc EXCEPT ![e] = "refused"]
    /\ UNCHANGED <<subscribers, ring, buffer, shutdown, worker, draining, published, early>>

\* A worker takes an event, in its loop or in the loop after shutdown.
Take(w) ==
    /\ worker[w] \in {"select", "drain"}
    /\ buffer # <<>>
    /\ worker' = [worker EXCEPT ![w] = Head(buffer)]
    /\ buffer' = Tail(buffer)
    /\ UNCHANGED <<subscribers, ring, shutdown, boundedPc, draining, published, early>>

\* processEvent has called every subscriber whose filter lets the event pass, in the
\* order of the list; an error is only logged.
Processed(w) ==
    /\ worker[w] \in Events
    /\ worker' = [worker EXCEPT ![w] = IF w \in draining THEN "drain" ELSE "select"]
    /\ UNCHANGED <<subscribers, ring, buffer, shutdown, boundedPc, draining, published, early>>

\* case <-eb.shutdown, which the select may choose over a waiting event
SeeShutdown(w) ==
    /\ worker[w] = "select"
    /\ shutdown = "closed"
    /\ worker' = [worker EXCEPT ![w] = "drain"]
    /\ draining' = draining \cup {w}
    /\ UNCHANGED <<subscribers, ring, buffer, shutdown, boundedPc, published, early>>

\* Faulty MayExit: a worker leaves as soon as it has seen the shutdown.
MayExitAtOnce == TRUE

\* The default case of the inner select: nothing is waiting.
MayExit == buffer = <<>>

Exit(w) ==
    /\ worker[w] = "drain"
    /\ MayExit
    /\ worker' = [worker EXCEPT ![w] = "exited"]
    /\ UNCHANGED <<subscribers, ring, buffer, shutdown, boundedPc, draining, published, early>>

\* close(eb.shutdown)
Shutdown ==
    /\ shutdown = "no"
    /\ shutdown' = "closed"
    /\ UNCHANGED <<subscribers, ring, buffer, boundedPc, worker, draining, published, early>>

\* eb.wg.Wait()
ShutdownReturns ==
    /\ shutdown = "closed"
    /\ \A w \in Workers : worker[w] = "exited"
    /\ shutdown' = "returned"
    /\ UNCHANGED <<subscribers, ring, buffer, boundedPc, worker, draining, published, early>>

Work == \E w \in Workers : Take(w) \/ Processed(w) \/ SeeShutdown(w) \/ Exit(w)

BoundedNext ==
    \/ \E s \in Subscribers : BoundedSubscribe(s)
    \/ \E e \in Events : BoundedPublish(e) \/ Send(e) \/ Block(e) \/ GiveUp(e)
    \/ Work
    \/ Shutdown
    \/ ShutdownReturns

-----------------------------------------------------------------------------
\* Once Shutdown has returned, every event accepted before it was called has been
\* processed, in whatever order the workers saw the shutdown and emptied the channel.
ShutdownDrains ==
    shutdown = "returned" =>
        early \cap (ToSet(buffer) \cup {worker[w] : w \in Workers}) = {}

\* GetRecent(n) is the last n published events in order, n capped by the ring's size.
RecentIsHistory ==
    \A n \in 0 .. ringSize + 1 :
        GetRecent(ring, n) =
            LET k == Min({n, ringSize, Len(published)})
            IN  SubSeq(published, Len(published) - k + 1, Len(published))

\* Higher priorities come first in the list processEvent walks through.
SortedByPriority ==
    \A i, j \in DOMAIN subscribers :
        i < j => subscribers[i] >= subscribers[j]

(***************************************************************************)
(* CircuitBreakerEventBus of solutions/solution17_event_bus.go: a circuit  *)
(* breaker guards the handlers of an event type, what it refuses goes to a *)
(* dead letter queue, and ProcessDLQ publishes that again. The breaker's   *)
(* atomics and its lock are used one operation at a time, so each is a     *)
(* step; one event type, with handlers.                                    *)
(***************************************************************************)

breakerVars == <<failures, state, sinceFail, dlq, batch, breakerPc, cur, result, opens, handled, discarded, raced>>

Actors == Events \cup {Processor}

Item(e, n) == [event |-> e, retries |-> n]

Items == [event : Events, retries : 0 .. MaxRetries]

BreakerTypeOK ==
    /\ failures \in 0 .. maxFailures + Cardinality(Events) * 2 ^ (MaxRetries + 1)
    /\ state \in {"closed", "open", "halfopen"}
    /\ sinceFail \in 0 .. cooldown + 1
    /\ Range(dlq) \subseteq Items
    /\ Range(batch) \subseteq Items
    /\ breakerPc \in [Actors -> {"idle", "next", "allow", "tohalf", "half", "refused", "handlers",
                          "failure", "stamp", "open", "success", "close", "reset", "return"}]
    /\ cur \in [Actors -> Items]
    /\ result \in [Actors -> {"none", "nil", "refused", "failed"}]
    /\ opens \in [Actors -> BOOLEAN]
    /\ handled \subseteq Events
    /\ discarded \subseteq Events
    /\ raced \in BOOLEAN

\* A breaker that is closed; earlier events may have failed.
BreakerInit ==
    /\ failures \in 0 .. maxFailures - 1
    /\ state = "closed"
    /\ sinceFail = cooldown + 1
    /\ dlq = <<>>
    /\ batch = <<>>
    /\ breakerPc = [a \in Actors |-> "idle"]
    /\ cur = [a \in Actors |-> Item(IF a = Processor THEN CHOOSE e \in Events : TRUE ELSE a, 0)]
    /\ result = [a \in Actors |-> "none"]
    /\ opens = [a \in Actors |-> FALSE]
    /\ handled = {}
    /\ discarded = {}
    /\ raced = FALSE

breaker == <<failures, state, sinceFail>>

queues == <<dlq, batch>>

histories == <<handled, discarded, raced>>

Goto(a, from, to) == breakerPc[a] = from /\ breakerPc' = [breakerPc EXCEPT ![a] = to]
-----------------------------------------------------------------------------
\* A goroutine publishes its event.
BreakerPublish(e) ==
    /\ result[e] = "none"
    /\ Goto(e, "idle", "allow")
    /\ UNCHANGED <<breaker, queues, cur, result, opens, histories>>

\* Allow reads the state, holding the read lock.
Allow(a) ==
    /\ Goto(a, "allow",
            CASE state = "closed" -> "handlers"
              [] state = "open" -> IF sinceFail > cooldown THEN "tohalf" ELSE "refused"
              [] state = "halfopen" -> "half")
    /\ UNCHANGED <<breaker, queues, cur, result, opens, histories>>

\* A store whose reason no longer holds, as another goroutine has come in between.
Late(outdated) == raced' = (raced \/ outdated)

\* The cooldown has passed: StoreInt32(&cb.state, StateHalfOpen), whatever it is now.
AllowTrial(a) ==
    /\ Goto(a, "tohalf", "handlers")
    /\ state' = "halfopen"
    /\ Late(state # "open")
    /\ UNCHANGED <<failures, sinceFail, queues, cur, result, opens, handled, discarded>>

AllowLimited(a) ==
    /\ Goto(a, "half", IF failures < maxFailures \div 2 THEN "handlers" ELSE "refused")
    /\ UNCHANGED <<breaker, queues, cur, result, opens, histories>>

\* Publish adds a refused event to the queue and returns an error.
Refuse(a) ==
    /\ Goto(a, "refused", "return")
    /\ dlq' = Append(dlq, cur[a])
    /\ result' = [result EXCEPT ![a] = "refused"]
    /\ UNCHANGED <<breaker, batch, cur, opens, histories>>

\* The handlers have run: all succeed, some fail, or all do.
HandlersSucceed(a) ==
    /\ Goto(a, "handlers", "success")
    /\ result' = [result EXCEPT ![a] = "nil"]
    /\ handled' = handled \cup {cur[a].event}
    /\ UNCHANGED <<breaker, queues, cur, opens, discarded, raced>>

SomeHandlersFail(a) ==
    /\ Goto(a, "handlers", "failure")
    /\ result' = [result EXCEPT ![a] = "nil"]
    /\ handled' = handled \cup {cur[a].event}
    /\ UNCHANGED <<breaker, queues, cur, opens, discarded, raced>>

AllHandlersFail(a) ==
    /\ Goto(a, "handlers", "failure")
    /\ result' = [result EXCEPT ![a] = "failed"]
    /\ UNCHANGED <<breaker, queues, cur, opens, histories>>

\* Faulty OpensAt: one failure too late.
OpensLate(n) == n > maxFailures

\* failures >= cb.maxFailures
OpensAt(n) == n >= maxFailures

\* RecordFailure: the counter ...
AddFailure(a) ==
    /\ Goto(a, "failure", "stamp")
    /\ failures' = failures + 1
    /\ opens' = [opens EXCEPT ![a] = OpensAt(failures + 1)]
    /\ UNCHANGED <<state, sinceFail, queues, cur, result, histories>>

\* ... lastFailTime, under the lock that Allow holds for reading ...
StampFailure(a) ==
    /\ \A b \in Actors : breakerPc[b] \notin {"tohalf", "half"}
    /\ Goto(a, "stamp", IF opens[a] THEN "open" ELSE "return")
    /\ sinceFail' = 0
    /\ UNCHANGED <<failures, state, queues, cur, result, opens, histories>>

\* ... and the state.
OpenBreaker(a) ==
    /\ Goto(a, "open", "return")
    /\ state' = "open"
    /\ Late(failures < maxFailures)
    /\ UNCHANGED <<failures, sinceFail, queues, cur, result, opens, handled, discarded>>

\* RecordSuccess: the state is read, ...
LoadState(a) ==
    /\ Goto(a, "success", IF state = "halfopen" THEN "close" ELSE "return")
    /\ UNCHANGED <<breaker, queues, cur, result, opens, histories>>

\* ... stored ...
CloseBreaker(a) ==
    /\ Goto(a, "close", "reset")
    /\ state' = "closed"
    /\ Late(state # "halfopen")
    /\ UNCHANGED <<failures, sinceFail, queues, cur, result, opens, handled, discarded>>

\* ... and the counter cleared, three steps in all.
ResetFailures(a) ==
    /\ Goto(a, "reset", "return")
    /\ failures' = 0
    /\ Late(state # "closed")
    /\ UNCHANGED <<state, sinceFail, queues, cur, result, opens, handled, discarded>>

\* Publish returns to the goroutine that called it.
PublishReturns(e) ==
    /\ e # Processor
    /\ Goto(e, "return", "idle")
    /\ UNCHANGED <<breaker, queues, cur, result, opens, histories>>

\* ProcessDLQ takes the whole queue.
ProcessDLQ ==
    /\ dlq # <<>>
    /\ Goto(Processor, "idle", "next")
    /\ batch' = dlq
    /\ dlq' = <<>>
    /\ UNCHANGED <<breaker, cur, result, opens, histories>>

\* Faulty MayRetry: one retry more than MaxRetries.
MayRetryOneMore(n) == n <= MaxRetries + 1

\* event.RetryCount <= event.MaxRetries
MayRetry(n) == n <= MaxRetries

\* The next event's RetryCount is increased; it is published if that is not too many ...
Retry ==
    /\ batch # <<>>
    /\ MayRetry(Head(batch).retries + 1)
    /\ Goto(Processor, "next", "allow")
    /\ cur' = [cur EXCEPT ![Processor] = Item(Head(batch).event, Head(batch).retries + 1)]
    /\ batch' = Tail(batch)
    /\ UNCHANGED <<breaker, dlq, result, opens, histories>>

\* ... and discarded otherwise.
Discard ==
    /\ batch # <<>>
    /\ ~MayRetry(Head(batch).retries + 1)
    /\ breakerPc[Processor] = "next"
    /\ discarded' = discarded \cup {Head(batch).event}
    /\ batch' = Tail(batch)
    /\ UNCHANGED <<breaker, dlq, breakerPc, cur, result, opens, handled, raced>>

\* Faulty PutBack: what failed again is forgotten.
PutBackNone(res) == <<>>

\* What ProcessDLQ puts back, also when Publish itself already has.
PutBack(res) == IF res # "nil" THEN <<cur[Processor]>> ELSE <<>>

RetryReturns ==
    /\ Goto(Processor, "return", "next")
    /\ dlq' = dlq \o PutBack(result[Processor])
    /\ UNCHANGED <<breaker, batch, cur, result, opens, histories>>

ProcessDLQReturns ==
    /\ batch = <<>>
    /\ Goto(Processor, "next", "idle")
    /\ UNCHANGED <<breaker, queues, cur, result, opens, histories>>

BreakerTick ==
    /\ sinceFail <= cooldown
    /\ sinceFail' = sinceFail + 1
    /\ UNCHANGED <<failures, state, queues, breakerPc, cur, result, opens, histories>>

PublishStep(a) ==
    \/ Allow(a) \/ AllowTrial(a) \/ AllowLimited(a) \/ Refuse(a)
    \/ HandlersSucceed(a) \/ SomeHandlersFail(a) \/ AllHandlersFail(a)
    \/ AddFailure(a) \/ StampFailure(a) \/ OpenBreaker(a)
    \/ LoadState(a) \/ CloseBreaker(a) \/ ResetFailures(a)

BreakerNext ==
    \/ \E e \in Events : BreakerPublish(e) \/ PublishReturns(e)
    \/ \E a \in Actors : PublishStep(a)
    \/ ProcessDLQ \/ Retry \/ Discard \/ RetryReturns \/ ProcessDLQReturns
    \/ BreakerTick

-----------------------------------------------------------------------------
\* The copies of e in the queue, in the batch and in the processor's hands.
Copies(e) ==
    Len(SelectSeq(dlq \o batch, LAMBDA i : i.event = e))
        + IF breakerPc[Processor] \notin {"idle", "next"} /\ cur[Processor].event = e THEN 1 ELSE 0

\* An event the breaker refused is never lost: until it is handled, or discarded after
\* MaxRetries, a copy of it is in the dead letter queue or being published again.
DeadLetterKept ==
    \A e \in Events :
        result[e] = "refused" => e \in handled \cup discarded \/ Copies(e) > 0

InFlight(a) == breakerPc[a] \notin {"idle", "next", "allow", "refused", "return"}

\* As long as no store was outdated the breaker cannot get stuck: half-open means that a trial
\* is on its way which will open or close it, open that maxFailures were counted, and closed,
\* once nobody is recording, that fewer were.
BreakerSound ==
    ~raced =>
        CASE state = "halfopen" -> \E a \in Actors : InFlight(a)
          [] state = "open" -> failures >= maxFailures
          [] state = "closed" -> failures < maxFailures \/ \E a \in Actors : InFlight(a)

\* A refused retry leaves two copies, Publish's and ProcessDLQ's, so copies multiply;
\* MaxRetries bounds by how much.
CopiesBounded == \A e \in Events : Copies(e) <= 2 ^ MaxRetries
=============================================================================
