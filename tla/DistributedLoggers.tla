------------------------- MODULE DistributedLoggers -------------------------
(***************************************************************************)
(* Solution 19, solutions/solution19_distributed_logging.go: the three     *)
(* loggers that RunSolution19 runs one after the other. Their variables    *)
(* are apart.                                                              *)
(***************************************************************************)
EXTENDS Integers, FiniteSets, Sequences, SequencesExt

CONSTANTS
    Entries,
    Sinks,
    bufferSize,
    batchSize,
    Calls,                       \* calls of LogWithContext; a call is its entry
    TraceIDs,                    \* trace IDs a context can carry
    StructuredSinks,
    None,                        \* no trace ID
    MultiSinks,                  \* sinks that AddSinkWithPriority may add
    MaxVisits,                   \* bound: calls of Log times sinks
    maxFailures,
    cooldown

VARIABLES
    logBuffer,                   \* the channel
    logBatch,
    sending,                     \* batchToSend, empty between two calls of flushBatch
    toWrite,                     \* sinks whose goroutine has still to write it
    processor,                   \* processBatches: "select", "drain" or "returned"
    logShutdown,                 \* "no", "closed" and, once the sinks are closed, "returned"
    logPc,                       \* entry -> where its Log is
    logMetrics,
    logWritten,                  \* sink -> what it was given, in order
    accepted,                    \* the entries sent on the channel, in order, a history
    logEarly,                    \* how many of them before close(shutdown), a history
    traces,                      \* correlator.traces: trace ID -> its Logs, empty where there is no entry
    sinks,                       \* the list
    structuredPc,                \* call -> where it is
    trace,                       \* call -> the trace ID of its context
    view,                        \* call -> the sinks it has still to write to
    written,                     \* sink -> what it was given, in order
    sinkFailures, sinkState, sinkSinceFail, \* sink -> its breaker; time counted past the cooldown
    stats,                       \* sink -> writes that succeeded and that failed
    multiPc,                     \* call -> where it is
    todo,                        \* call -> sinks the range over the map has still to visit
    sink,                        \* call -> the sink it is at
    sinkOpens,                   \* call -> its failure was one too many
    took,                        \* call -> the sinks whose Write took the entry, a history
    successes,                   \* call -> successCount
    hasFallback,                 \* whether fallbackSink is set
    fallback                     \* call -> "unused", or how the fallback's Write went

(***************************************************************************)
(* BufferedLogger of solutions/solution19_distributed_logging.go: Log puts *)
(* an entry into a bounded channel or drops it; processBatches gathers     *)
(* batches and sends each to all sinks; Shutdown flushes what is left. An  *)
(* entry is the call of Log that brings it. AddSink is called before Log.  *)
(***************************************************************************)

bufferedVars == <<logBuffer, logBatch, sending, toWrite, processor, logShutdown, logPc, logMetrics, logWritten,
          accepted, logEarly>>

BufferedTypeOK ==
    /\ Len(logBuffer) <= bufferSize
    /\ Range(logBatch) \subseteq Entries
    /\ Range(sending) \subseteq Entries
    /\ toWrite \subseteq Sinks
    /\ processor \in {"select", "drain", "returned"}
    /\ logShutdown \in {"no", "closed", "returned"}
    /\ logPc \in [Entries -> {"idle", "wait", "count", "logged", "dropped"}]
    /\ logMetrics \in [totalLogs : Nat, droppedLogs : Nat, batchesSent : Nat]
    /\ \A s \in Sinks : Range(logWritten[s]) \subseteq Entries
    /\ logEarly \in 0 .. Len(accepted)

BufferedInit ==
    /\ logBuffer = <<>>
    /\ logBatch = <<>>
    /\ sending = <<>>
    /\ toWrite = {}
    /\ processor = "select"
    /\ logShutdown = "no"
    /\ logPc = [e \in Entries |-> "idle"]
    /\ logMetrics = [totalLogs |-> 0, droppedLogs |-> 0, batchesSent |-> 0]
    /\ logWritten = [s \in Sinks |-> <<>>]
    /\ accepted = <<>>
    /\ logEarly = 0

processing == <<logBatch, sending, toWrite, processor, logWritten>>
-----------------------------------------------------------------------------
\* case l.buffer <- entry, at once or while the second select waits
Send(e) ==
    /\ logPc[e] \in {"idle", "wait"}
    /\ Len(logBuffer) < bufferSize
    /\ logBuffer' = Append(logBuffer, e)
    /\ logPc' = [logPc EXCEPT ![e] = "count"]
    /\ accepted' = Append(accepted, e)
    /\ logEarly' = IF logShutdown = "no" THEN logEarly + 1 ELSE logEarly
    /\ UNCHANGED <<processing, logShutdown, logMetrics>>

CountLog(e) ==
    /\ logPc[e] = "count"
    /\ logPc' = [logPc EXCEPT ![e] = "logged"]
    /\ logMetrics' = [logMetrics EXCEPT !.totalLogs = @ + 1]
    /\ UNCHANGED <<processing, logBuffer, logShutdown, accepted, logEarly>>

\* Buffer full, try with timeout
Wait(e) ==
    /\ logPc[e] = "idle"
    /\ Len(logBuffer) = bufferSize
    /\ logPc' = [logPc EXCEPT ![e] = "wait"]
    /\ UNCHANGED <<processing, logBuffer, logShutdown, logMetrics, accepted, logEarly>>

Drop(e) ==
    /\ logPc[e] = "wait"
    /\ logPc' = [logPc EXCEPT ![e] = "dropped"]
    /\ logMetrics' = [logMetrics EXCEPT !.droppedLogs = @ + 1]
    /\ UNCHANGED <<processing, logBuffer, logShutdown, accepted, logEarly>>

\* Faulty Flushed: the batch is sent without its last entry and cleared.
FlushedShort(entries) == Front(entries)

\* batchToSend, the copy of the batch
Flushed(entries) == entries

\* flushBatch copies and clears the batch, counts it and starts a write to every sink.
Flush(entries) ==
    /\ sending' = Flushed(entries)
    /\ logBatch' = <<>>
    /\ toWrite' = Sinks
    /\ logMetrics' = [logMetrics EXCEPT !.batchesSent = @ + 1]

\* case entry := <-l.buffer
Receive ==
    /\ processor = "select" /\ toWrite = {}
    /\ logBuffer # <<>>
    /\ logBuffer' = Tail(logBuffer)
    /\ LET grown == Append(logBatch, Head(logBuffer))
       IN  IF Len(grown) >= batchSize
             THEN Flush(grown)
             ELSE logBatch' = grown /\ UNCHANGED <<sending, toWrite, logMetrics>>
    /\ UNCHANGED <<processor, logShutdown, logPc, logWritten, accepted, logEarly>>

\* case <-ticker.C
TickerFlush ==
    /\ processor = "select" /\ toWrite = {}
    /\ logBatch # <<>>
    /\ Flush(logBatch)
    /\ UNCHANGED <<processor, logBuffer, logShutdown, logPc, logWritten, accepted, logEarly>>

\* case <-l.shutdown, which the select may choose over a waiting entry
SeeShutdown ==
    /\ processor = "select" /\ toWrite = {}
    /\ logShutdown = "closed"
    /\ processor' = "drain"
    /\ UNCHANGED <<logBuffer, logBatch, sending, toWrite, logShutdown, logPc, logMetrics, logWritten, accepted, logEarly>>

\* Faulty MoreToDrain: the entries still in the channel are left there.
MoreToDrainNot == FALSE

\* for len(l.buffer) > 0
MoreToDrain == logBuffer # <<>>

Drain ==
    /\ processor = "drain" /\ toWrite = {}
    /\ MoreToDrain
    /\ logBatch' = Append(logBatch, Head(logBuffer))
    /\ logBuffer' = Tail(logBuffer)
    /\ UNCHANGED <<processor, sending, toWrite, logShutdown, logPc, logMetrics, logWritten, accepted, logEarly>>

\* The channel was seen empty: the last batch, if any, is flushed before returning.
LastFlush ==
    /\ processor = "drain" /\ toWrite = {}
    /\ ~MoreToDrain
    /\ processor' = "returned"
    /\ IF logBatch # <<>> THEN Flush(logBatch) ELSE UNCHANGED <<sending, logBatch, toWrite, logMetrics>>
    /\ UNCHANGED <<logBuffer, logShutdown, logPc, logWritten, accepted, logEarly>>

\* A sink's goroutine writes the batch; an error is only logged. flushBatch waits for
\* all of them.
Write(s) ==
    /\ s \in toWrite
    /\ logWritten' = [logWritten EXCEPT ![s] = @ \o sending]
    /\ toWrite' = toWrite \ {s}
    /\ sending' = IF toWrite' = {} THEN <<>> ELSE sending
    /\ UNCHANGED <<logBatch, processor, logBuffer, logShutdown, logPc, logMetrics, accepted, logEarly>>

Shutdown ==
    /\ logShutdown = "no"
    /\ logShutdown' = "closed"
    /\ UNCHANGED <<processing, logBuffer, logPc, logMetrics, accepted, logEarly>>

\* wg.Wait() is over; the sinks are flushed and closed.
ShutdownReturns ==
    /\ logShutdown = "closed"
    /\ processor = "returned" /\ toWrite = {}
    /\ logShutdown' = "returned"
    /\ UNCHANGED <<processing, logBuffer, logPc, logMetrics, accepted, logEarly>>

Process ==
    \/ Receive \/ TickerFlush \/ SeeShutdown \/ Drain \/ LastFlush
    \/ \E s \in Sinks : Write(s)

BufferedNext ==
    \/ \E e \in Entries : Send(e) \/ CountLog(e) \/ Wait(e) \/ Drop(e)
    \/ Process
    \/ Shutdown
    \/ ShutdownReturns

-----------------------------------------------------------------------------
\* Every sink gets the accepted entries in the order of the channel, none skipped and
\* none twice: what it was given, what it is being sent, the batch and the channel
\* together are exactly the accepted entries.
SinksInOrder ==
    \A s \in Sinks :
        logWritten[s] \o (IF s \in toWrite THEN sending ELSE <<>>) \o logBatch \o logBuffer = accepted

\* When Shutdown returns, every entry accepted before it was called is written.
ShutdownFlushes ==
    logShutdown = "returned" =>
        \A s \in Sinks : Len(logWritten[s]) >= logEarly

\* Only the last batch, gathered after the shutdown, may exceed batchSize.
BatchBounded ==
    processor = "select" => Len(logBatch) < batchSize /\ Len(sending) <= batchSize

\* Every entry accepted before the shutdown has reached every sink.
EntriesReachedSinks == \A s \in Sinks : Len(logWritten[s]) >= logEarly

(***************************************************************************)
(* StructuredLogger of solutions/solution19_distributed_logging.go:        *)
(* LogWithContext enriches an entry, files it under its trace and writes   *)
(* it to the sinks there are at that moment. Every level is sampled (see   *)
(* shouldSample), and the enrichers fill in fields without state.          *)
(***************************************************************************)

structuredVars == <<traces, sinks, structuredPc, trace, view, written>>

StructuredTypeOK ==
    /\ \A t \in TraceIDs : Range(traces[t]) \subseteq Calls
    /\ Range(sinks) \subseteq StructuredSinks
    /\ structuredPc \in [Calls -> {"idle", "lookup", "write", "returned"}]
    /\ trace \in [Calls -> TraceIDs \cup {None}]
    /\ \A c \in Calls : Range(view[c]) \subseteq StructuredSinks
    /\ \A s \in StructuredSinks : Range(written[s]) \subseteq Calls

StructuredInit ==
    /\ traces = [t \in TraceIDs |-> <<>>]
    /\ sinks = <<>>
    /\ structuredPc = [c \in Calls |-> "idle"]
    /\ trace = [c \in Calls |-> None]
    /\ view = [c \in Calls |-> <<>>]
    /\ written = [s \in StructuredSinks |-> <<>>]
-----------------------------------------------------------------------------
AddSink(s) ==
    /\ s \notin Range(sinks)
    /\ sinks' = Append(sinks, s)
    /\ UNCHANGED <<traces, structuredPc, trace, view, written>>

\* Faulty Filed: a new entry replaces the trace's Logs.
FiledAlone(logs, c) == <<c>>

\* Appended to the trace's Logs, a new TraceInfo where there was none.
Filed(logs, c) == Append(logs, c)

\* LogWithContext up to the end of the correlator's critical section.
Correlate(c, t) ==
    /\ structuredPc[c] = "idle"
    /\ structuredPc' = [structuredPc EXCEPT ![c] = "lookup"]
    /\ trace' = [trace EXCEPT ![c] = t]
    /\ traces' = IF t = None THEN traces ELSE [traces EXCEPT ![t] = Filed(@, c)]
    /\ UNCHANGED <<sinks, view, written>>

\* The sinks are read under the lock and used after it.
ReadSinks(c) ==
    /\ structuredPc[c] = "lookup"
    /\ structuredPc' = [structuredPc EXCEPT ![c] = "write"]
    /\ view' = [view EXCEPT ![c] = sinks]
    /\ UNCHANGED <<traces, sinks, trace, written>>

WriteSink(c) ==
    /\ structuredPc[c] = "write"
    /\ view[c] # <<>>
    /\ written' = [written EXCEPT ![Head(view[c])] = Append(@, c)]
    /\ view' = [view EXCEPT ![c] = Tail(@)]
    /\ UNCHANGED <<traces, sinks, structuredPc, trace>>

StructuredReturn(c) ==
    /\ structuredPc[c] = "write"
    /\ view[c] = <<>>
    /\ structuredPc' = [structuredPc EXCEPT ![c] = "returned"]
    /\ UNCHANGED <<traces, sinks, trace, view, written>>

StructuredNext ==
    \/ \E s \in StructuredSinks : AddSink(s)
    \/ \E c \in Calls :
          \/ \E t \in TraceIDs \cup {None} : Correlate(c, t)
          \/ ReadSinks(c) \/ WriteSink(c) \/ StructuredReturn(c)

-----------------------------------------------------------------------------
\* An entry a sink has shown is found in its trace by GetTraceInfo, exactly once, and no
\* sink gets an entry twice.
WrittenIsTraced ==
    \A s \in StructuredSinks :
        /\ IsInjective(written[s])
        /\ \A c \in Range(written[s]) :
              trace[c] # None =>
                  Cardinality({i \in DOMAIN traces[trace[c]] : traces[trace[c]][i] = c}) = 1

(***************************************************************************)
(* MultiSinkLogger of solutions/solution19_distributed_logging.go: Log     *)
(* writes an entry to every sink whose filter accepts it and whose circuit *)
(* breaker is not open, and to the fallback sink, where one is set, if no  *)
(* sink took it. Calls of Log run concurrently, and the breakers have no   *)
(* lock. There are at most MaxVisits visits of sinks.                      *)
(***************************************************************************)

multiVars ==
    <<sinkFailures, sinkState, sinkSinceFail, stats, multiPc, todo, sink, sinkOpens, took,
      successes, hasFallback, fallback>>

\* The sinks added, all of them with a breaker.
Added == DOMAIN sinkState

MaxWrites == Cardinality(Calls)

MultiTypeOK ==
    /\ sinkFailures \in [Added -> 0 .. MaxWrites]
    /\ Added \subseteq MultiSinks
    /\ sinkState \in [Added -> {"closed", "open", "halfopen"}]
    /\ sinkSinceFail \in [Added -> 0 .. cooldown + 1]
    /\ stats \in [Added -> [written : 0 .. MaxWrites, failed : 0 .. MaxWrites]]
    /\ multiPc \in [Calls -> {"idle", "next", "breaker", "tohalf", "write", "failure", "stamp",
                         "open", "success", "close", "reset", "count", "returned"}]
    /\ todo \in [Calls -> SUBSET Added]
    /\ sink \in [Calls -> Added \cup {None}]
    /\ sinkOpens \in [Calls -> BOOLEAN]
    /\ took \in [Calls -> SUBSET Added]
    /\ successes \in [Calls -> 0 .. Cardinality(Added)]
    /\ hasFallback \in BOOLEAN
    /\ fallback \in [Calls -> {"unused", "written", "failed"}]

\* AddSinkWithPriority and SetFallbackSink come before the first Log, if at all.
MultiInit ==
    /\ hasFallback \in BOOLEAN
    /\ \E added \in SUBSET MultiSinks :
          /\ sinkFailures = [s \in added |-> 0]
          /\ sinkState = [s \in added |-> "closed"]
          /\ sinkSinceFail = [s \in added |-> cooldown + 1]
          /\ stats = [s \in added |-> [written |-> 0, failed |-> 0]]
    /\ multiPc = [c \in Calls |-> "idle"]
    /\ todo = [c \in Calls |-> {}]
    /\ sink = [c \in Calls |-> None]
    /\ sinkOpens = [c \in Calls |-> FALSE]
    /\ took = [c \in Calls |-> {}]
    /\ successes = [c \in Calls |-> 0]
    /\ fallback = [c \in Calls |-> "unused"]

breakers == <<sinkFailures, sinkState, sinkSinceFail>>

record == <<took, successes, fallback>>

Goto(c, from, to) ==
    /\ multiPc[c] = from
    /\ multiPc' = [multiPc EXCEPT ![c] = to]
    /\ UNCHANGED hasFallback
-----------------------------------------------------------------------------
Called == {c \in Calls : multiPc[c] # "idle"}

\* Log. sortedSinks is filled from the map and never sorted: any order is possible.
Log(c) ==
    /\ (Cardinality(Called) + 1) * Cardinality(Added) <= MaxVisits
    /\ Goto(c, "idle", "next")
    /\ todo' = [todo EXCEPT ![c] = Added]
    /\ UNCHANGED <<breakers, stats, sink, sinkOpens, record>>

\* The next sink, unless its filter refuses the entry.
VisitSink(c, s) ==
    /\ s \in todo[c]
    /\ todo' = [todo EXCEPT ![c] = @ \ {s}]
    /\ \/ Goto(c, "next", "breaker") /\ sink' = [sink EXCEPT ![c] = s]
       \/ Goto(c, "next", "next") /\ UNCHANGED sink
    /\ UNCHANGED <<breakers, stats, sinkOpens, record>>

\* What a reader may make of lastFailTime: while another call writes it, anything.
CooledDown(s) ==
    IF \E d \in Calls : multiPc[d] = "stamp" /\ sink[d] = s
      THEN BOOLEAN
      ELSE {sinkSinceFail[s] > cooldown}

\* isCircuitBreakerOpen; an open breaker passes the sink over.
CheckBreaker(c) ==
    /\ multiPc[c] = "breaker"
    /\ \E cooled \in CooledDown(sink[c]) :
          Goto(c, "breaker",
               IF sinkState[sink[c]] # "open" THEN "write" ELSE IF cooled THEN "tohalf" ELSE "next")
    /\ UNCHANGED <<breakers, stats, todo, sink, sinkOpens, record>>

StoreHalfOpen(c) ==
    /\ Goto(c, "tohalf", "write")
    /\ sinkState' = [sinkState EXCEPT ![sink[c]] = "halfopen"]
    /\ UNCHANGED <<sinkFailures, sinkSinceFail, stats, todo, sink, sinkOpens, record>>

\* The sink's Write and updateMetrics.
WriteSucceeds(c) ==
    /\ Goto(c, "write", "success")
    /\ stats' = [stats EXCEPT ![sink[c]].written = @ + 1]
    /\ took' = [took EXCEPT ![c] = @ \cup {sink[c]}]
    /\ UNCHANGED <<breakers, todo, sink, sinkOpens, successes, fallback>>

WriteFails(c) ==
    /\ Goto(c, "write", "failure")
    /\ stats' = [stats EXCEPT ![sink[c]].failed = @ + 1]
    /\ UNCHANGED <<breakers, todo, sink, sinkOpens, record>>

\* Faulty TooMany: one failure less opens the breaker.
TooManyEarly(n) == n >= maxFailures - 1

\* failures >= cb.maxFailures
TooMany(n) == n >= maxFailures

\* recordFailure: the counter, the time, the state.
AddFailure(c) ==
    /\ Goto(c, "failure", "stamp")
    /\ sinkFailures' = [sinkFailures EXCEPT ![sink[c]] = @ + 1]
    /\ sinkOpens' = [sinkOpens EXCEPT ![c] = TooMany(sinkFailures[sink[c]] + 1)]
    /\ UNCHANGED <<sinkState, sinkSinceFail, stats, todo, sink, record>>

StampFailure(c) ==
    /\ Goto(c, "stamp", IF sinkOpens[c] THEN "open" ELSE "next")
    /\ sinkSinceFail' = [sinkSinceFail EXCEPT ![sink[c]] = 0]
    /\ UNCHANGED <<sinkFailures, sinkState, stats, todo, sink, sinkOpens, record>>

StoreOpen(c) ==
    /\ Goto(c, "open", "next")
    /\ sinkState' = [sinkState EXCEPT ![sink[c]] = "open"]
    /\ UNCHANGED <<sinkFailures, sinkSinceFail, stats, todo, sink, sinkOpens, record>>

\* recordSuccess: the state is read, stored, and the counter cleared.
LoadState(c) ==
    /\ Goto(c, "success", IF sinkState[sink[c]] = "halfopen" THEN "close" ELSE "count")
    /\ UNCHANGED <<breakers, stats, todo, sink, sinkOpens, record>>

StoreClosed(c) ==
    /\ Goto(c, "close", "reset")
    /\ sinkState' = [sinkState EXCEPT ![sink[c]] = "closed"]
    /\ UNCHANGED <<sinkFailures, sinkSinceFail, stats, todo, sink, sinkOpens, record>>

ClearFailures(c) ==
    /\ Goto(c, "reset", "count")
    /\ sinkFailures' = [sinkFailures EXCEPT ![sink[c]] = 0]
    /\ UNCHANGED <<sinkState, sinkSinceFail, stats, todo, sink, sinkOpens, record>>

\* successCount++
CountSuccess(c) ==
    /\ Goto(c, "count", "next")
    /\ successes' = [successes EXCEPT ![c] = @ + 1]
    /\ UNCHANGED <<breakers, stats, todo, sink, sinkOpens, took, fallback>>

\* Faulty NeedsFallback: one sink that failed is enough.
NeedsFallbackIfAny(c) == hasFallback /\ successes[c] < Cardinality(Added)

\* successCount == 0 && l.fallbackSink != nil
NeedsFallback(c) == hasFallback /\ successes[c] = 0

\* All sinks are visited: the fallback, if needed, is written to, which may fail too.
MultiReturn(c) ==
    /\ todo[c] = {}
    /\ Goto(c, "next", "returned")
    /\ \E outcome \in IF NeedsFallback(c) THEN {"written", "failed"} ELSE {"unused"} :
          fallback' = [fallback EXCEPT ![c] = outcome]
    /\ UNCHANGED <<breakers, stats, todo, sink, sinkOpens, took, successes>>

Tick ==
    /\ \E s \in Added : sinkSinceFail[s] <= cooldown
    /\ sinkSinceFail' = [s \in Added |->
                        IF sinkSinceFail[s] <= cooldown THEN sinkSinceFail[s] + 1 ELSE sinkSinceFail[s]]
    /\ UNCHANGED <<sinkFailures, sinkState, stats, multiPc, todo, sink, sinkOpens,
                   hasFallback, record>>

MultiNext ==
    \/ \E c \in Calls :
          \/ Log(c) \/ CheckBreaker(c) \/ StoreHalfOpen(c) \/ WriteSucceeds(c) \/ WriteFails(c)
          \/ AddFailure(c) \/ StampFailure(c) \/ StoreOpen(c)
          \/ LoadState(c) \/ StoreClosed(c) \/ ClearFailures(c) \/ CountSuccess(c)
          \/ MultiReturn(c)
          \/ \E s \in Added : VisitSink(c, s)
    \/ Tick

-----------------------------------------------------------------------------
\* A call that has returned dropped its entry only where there is no fallback sink or that
\* one failed as well, and never put into the fallback what another sink had taken.
EntryLands ==
    \A c \in Calls :
        multiPc[c] = "returned" =>
            IF took[c] = {} THEN hasFallback => fallback[c] # "unused"
                            ELSE fallback[c] = "unused"

\* A sink is cut off only after maxFailures failed writes, whatever the calls that race
\* on its breaker see.
OpenAfterFailures ==
    \A s \in Added :
        /\ sinkFailures[s] <= stats[s].failed
        /\ sinkState[s] # "closed" => stats[s].failed >= maxFailures
=============================================================================
