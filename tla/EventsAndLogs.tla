---------------------------- MODULE EventsAndLogs ----------------------------
(***************************************************************************)
(* RunSolution17 and RunSolution19 (three event buses and three loggers)   *)
(* and the event bus and the logger of practical/. They share no state, so *)
(* a behaviour here is a run of one of them.                               *)
(***************************************************************************)
EXTENDS Integers

CONSTANTS
    Calls, ReliableEvents, Events, Entries, Workers, Subscribers, Sinks, StructuredSinks,
    MultiSinks, MaxVisits, TraceIDs, Processor, historyTTL, MaxHandlers, MaxTime, bufferSize,
    ringSize, batchSize, maxFailures, cooldown, MaxRetries, MaxEvents, BufferSize, openAfter,
    MaxEntries, RingSize, BatchSize, None

VARIABLES
    part,    \* the bus or logger that runs
    now, processedIDs, handlers, cutoff, metrics, reliablePc, event, at, running, errors,
    subscribers, ring, buffer, shutdown, boundedPc, worker, draining, published, early,
    failures, state, sinceFail, dlq, batch, breakerPc, cur, result, opens, handled, discarded,
    raced,
    logBuffer, logBatch, sending, toWrite, processor, logShutdown, logPc, logMetrics,
    logWritten, accepted, logEarly,
    traces, sinks, structuredPc, trace, view, written,
    sinkFailures, sinkState, sinkSinceFail, stats, multiPc, todo, sink, sinkOpens, took,
    successes, hasFallback, fallback,
    publish, breaker, cooled, eventBuffer, closed, slots, count, joining, eventWorker,
    inHandler, served, disturbed, totalEvents, processedEvents, opened, panicked,
    logger, ringBuffer, writePos, readPos, reader, entries, batcher, held, sunk, failedWrites,
    totalLogs, droppedLogs, stopping, spoilt

Buses == INSTANCE EventBuses

Loggers == INSTANCE DistributedLoggers

Bus == INSTANCE PracticalEventBus WITH
    buffer <- eventBuffer, worker <- eventWorker, running <- inHandler, maxFailures <- openAfter

Logging == INSTANCE PracticalLogging WITH
    ring <- ringBuffer, batch <- entries, written <- sunk, shutdown <- stopping

reliableVars ==
    <<now, processedIDs, handlers, cutoff, metrics, reliablePc, event, at, running, errors>>

boundedVars ==
    <<subscribers, ring, buffer, shutdown, boundedPc, worker, draining, published, early>>

breakerVars ==
    <<failures, state, sinceFail, dlq, batch, breakerPc, cur, result, opens, handled,
      discarded, raced>>

bufferedVars ==
    <<logBuffer, logBatch, sending, toWrite, processor, logShutdown, logPc, logMetrics,
      logWritten, accepted, logEarly>>

structuredVars == <<traces, sinks, structuredPc, trace, view, written>>

multiVars ==
    <<sinkFailures, sinkState, sinkSinceFail, stats, multiPc, todo, sink, sinkOpens, took,
      successes, hasFallback, fallback>>

busVars ==
    <<publish, breaker, cooled, eventBuffer, closed, slots, count, joining, eventWorker,
      inHandler, served, disturbed, totalEvents, processedEvents, opened, panicked>>

logVars ==
    <<logger, ringBuffer, writePos, readPos, reader, entries, batcher, held, sunk,
      failedWrites, totalLogs, droppedLogs, stopping, spoilt>>

eventVars == <<reliableVars, boundedVars, breakerVars>>

loggerVars == <<bufferedVars, structuredVars, multiVars>>

practicalVars == <<busVars, logVars>>

vars == <<part, eventVars, loggerVars, practicalVars>>

Parts ==
    {"reliable", "bounded", "breaker", "buffered", "structured", "multisink", "eventbus",
     "logging"}

\* The part that runs, as it is made; the variables of the others are empty.
Init ==
    /\ part \in Parts
    /\ IF part = "reliable" THEN Buses!ReliableInit
       ELSE now = {} /\ processedIDs = {} /\ handlers = {} /\ cutoff = {} /\ metrics = {}
            /\ reliablePc = {} /\ event = {} /\ at = {} /\ running = {} /\ errors = {}
    /\ IF part = "bounded" THEN Buses!BoundedInit
       ELSE subscribers = {} /\ ring = {} /\ buffer = {} /\ shutdown = {} /\ boundedPc = {}
            /\ worker = {} /\ draining = {} /\ published = {} /\ early = {}
    /\ IF part = "breaker" THEN Buses!BreakerInit
       ELSE failures = {} /\ state = {} /\ sinceFail = {} /\ dlq = {} /\ batch = {}
            /\ breakerPc = {} /\ cur = {} /\ result = {} /\ opens = {} /\ handled = {}
            /\ discarded = {} /\ raced = {}
    /\ IF part = "buffered" THEN Loggers!BufferedInit
       ELSE logBuffer = {} /\ logBatch = {} /\ sending = {} /\ toWrite = {}
            /\ processor = {} /\ logShutdown = {} /\ logPc = {} /\ logMetrics = {}
            /\ logWritten = {} /\ accepted = {} /\ logEarly = {}
    /\ IF part = "structured" THEN Loggers!StructuredInit
       ELSE traces = {} /\ sinks = {} /\ structuredPc = {} /\ trace = {} /\ view = {}
            /\ written = {}
    /\ IF part = "multisink" THEN Loggers!MultiInit
       ELSE sinkFailures = {} /\ sinkState = {} /\ sinkSinceFail = {} /\ stats = {}
            /\ multiPc = {} /\ todo = {} /\ sink = {} /\ sinkOpens = {} /\ took = {}
            /\ successes = {} /\ hasFallback = {} /\ fallback = {}
    /\ IF part = "eventbus" THEN Bus!BusInit
       ELSE publish = {} /\ breaker = {} /\ cooled = {} /\ eventBuffer = {} /\ closed = {}
            /\ slots = {} /\ count = {} /\ joining = {} /\ eventWorker = {}
            /\ inHandler = {} /\ served = {} /\ disturbed = {} /\ totalEvents = {}
            /\ processedEvents = {} /\ opened = {} /\ panicked = {}
    /\ IF part = "logging" THEN Logging!LogInit
       ELSE logger = {} /\ ringBuffer = {} /\ writePos = {} /\ readPos = {} /\ reader = {}
            /\ entries = {} /\ batcher = {} /\ held = {} /\ sunk = {} /\ failedWrites = {}
            /\ totalLogs = {} /\ droppedLogs = {} /\ stopping = {} /\ spoilt = {}

OnlyReliable == UNCHANGED <<part, loggerVars, practicalVars, boundedVars, breakerVars>>

ReliableStep == part = "reliable" /\ Buses!ReliableNext /\ OnlyReliable

OnlyBounded == UNCHANGED <<part, loggerVars, practicalVars, reliableVars, breakerVars>>

BoundedStep == part = "bounded" /\ Buses!BoundedNext /\ OnlyBounded

OnlyBreaker == UNCHANGED <<part, loggerVars, practicalVars, reliableVars, boundedVars>>

BreakerStep == part = "breaker" /\ Buses!BreakerNext /\ OnlyBreaker

OnlyBuffered == UNCHANGED <<part, eventVars, practicalVars, structuredVars, multiVars>>

BufferedStep == part = "buffered" /\ Loggers!BufferedNext /\ OnlyBuffered

OnlyStructured == UNCHANGED <<part, eventVars, practicalVars, bufferedVars, multiVars>>

StructuredStep == part = "structured" /\ Loggers!StructuredNext /\ OnlyStructured

OnlyMulti == UNCHANGED <<part, eventVars, practicalVars, bufferedVars, structuredVars>>

MultiStep == part = "multisink" /\ Loggers!MultiNext /\ OnlyMulti

OnlyBus == UNCHANGED <<part, eventVars, loggerVars, logVars>>

BusStep == part = "eventbus" /\ Bus!BusNext /\ OnlyBus

OnlyLog == UNCHANGED <<part, eventVars, loggerVars, busVars>>

LogStep == part = "logging" /\ Logging!LogNext /\ OnlyLog

Next ==
    \/ ReliableStep \/ BoundedStep \/ BreakerStep \/ BufferedStep \/ StructuredStep
    \/ MultiStep \/ BusStep \/ LogStep

\* The workers, the batch processors with their tickers, and the sinks' goroutines
\* run: one that can go on does.
GoesOn ==
    \/ part = "bounded" /\ (Buses!Work \/ Buses!ShutdownReturns) /\ OnlyBounded
    \/ part = "buffered" /\ Loggers!Process /\ OnlyBuffered
    \/ part = "eventbus" /\ Bus!Working /\ OnlyBus
    \/ part = "logging" /\ (Logging!Reading \/ Logging!Batching) /\ OnlyLog

Spec == Init /\ [][Next]_vars /\ WF_vars(GoesOn)
-----------------------------------------------------------------------------
\* No event bus loses or repeats an event beyond what it promises: an ID is handled once
\* per TTL, a shutdown drains what was accepted, the history is the last events, the
\* priorities are kept, and refused events stay in a bounded dead letter queue (see
\* EventBuses).
EventsKept ==
    /\ part = "reliable" =>
          /\ Buses!ReliableTypeOK
          /\ Buses!HandledOncePerTTL /\ Buses!RememberedForTTL /\ Buses!MetricsAgree
    /\ part = "bounded" =>
          /\ Buses!BoundedTypeOK
          /\ Buses!ShutdownDrains /\ Buses!RecentIsHistory /\ Buses!SortedByPriority
    /\ part = "breaker" =>
          Buses!BreakerTypeOK /\ Buses!DeadLetterKept /\ Buses!CopiesBounded /\ Buses!BreakerSound

\* Every sink of the buffered logger gets the accepted entries in order, all of them by
\* the end of a shutdown; a traced entry is found in its trace; and an entry that no
\* sink takes goes to the fallback, if there is one, and only such an entry (see
\* DistributedLoggers).
EntriesKept ==
    /\ part = "buffered" =>
          /\ Loggers!BufferedTypeOK
          /\ Loggers!SinksInOrder /\ Loggers!ShutdownFlushes /\ Loggers!BatchBounded
    /\ part = "structured" => Loggers!StructuredTypeOK /\ Loggers!WrittenIsTraced
    /\ part = "multisink" =>
          Loggers!MultiTypeOK /\ Loggers!EntryLands /\ Loggers!OpenAfterFailures

\* practical/: an event goes once to every subscriber, but for one that Subscribe overwrites,
\* the counters and the breaker tell the truth, and an entry that was stored is in one place
\* as long as the ring was neither full nor read too early (see PracticalEventBus and
\* PracticalLogging).
PracticalRight ==
    /\ part = "eventbus" => Bus!EventBusRight
    /\ part = "logging" => Logging!LoggingRight

\* A breaker of practical/ that is half-open with too many failures takes no event ever after.
StuckBreakerStays == [][part = "eventbus" => Bus!StaysStuck]_vars

\* Work that the buses and loggers have begun, and its end.
Begun ==
    \/ part = "buffered"
    \/ part = "bounded" /\ shutdown = "closed"
    \/ part = "eventbus" /\ \E e \in Bus!EventIDs : Bus!Sent(e)
    \/ part = "logging" /\ stopping

Done ==
    \/ part = "buffered" /\ Loggers!EntriesReachedSinks
    \/ part = "bounded" /\ shutdown = "returned"
    \/ part = "eventbus" /\ \A e \in Bus!EventIDs : Bus!Processed(e)
    \/ part = "logging" /\ Logging!BothEnded

\* An entry accepted before the shutdown reaches every sink, also when no further entry ever
\* fills its batch; the event bus's Shutdown returns; what was sent to the bus of practical/
\* is processed; and Shutdown of its logger returns.
EntriesFlushed == Begun ~> Done
=============================================================================
