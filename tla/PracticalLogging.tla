-------------------------- MODULE PracticalLogging --------------------------
(***************************************************************************)
(* practical/distributed_logging_example.go: Log calls write to a ring     *)
(* buffer without locks, one goroutine reads it into batches, another one  *)
(* flushes the batch that is under way, and both stop at Shutdown.         *)
(***************************************************************************)
EXTENDS Integers, FiniteSets, Sequences

CONSTANTS
    MaxEntries,    \* calls of Log
    RingSize,      \* 10000 in the code
    BatchSize      \* 100 in the code

VARIABLES
    logger,        \* entry -> how far its Log is, and the position it claimed
    ring,          \* slot -> entry, 0 for the zero value
    writePos, readPos,
    reader,        \* of processBuffer: what it does and the position it reads
    batch,
    batcher,       \* of processBatcher: it runs, writes its last batch, or has ended
    held,          \* the batch that it writes
    written,       \* the batches that went to the sinks, one after the other
    failedWrites,  \* entries of batches that the sink has refused
    totalLogs, droppedLogs,
    shutdown,      \* the channel is closed
    spoilt         \* what has gone wrong in the ring

logVars ==
    <<logger, ring, writePos, readPos, reader, batch, batcher, held, written, failedWrites,
      totalLogs, droppedLogs, shutdown, spoilt>>

\* Numbered as their calls claim a position.
LogEntries == 1..MaxEntries

LogInit ==
    /\ logger = [e \in LogEntries |-> [at |-> "log", pos |-> 0]]
    /\ ring = [i \in 0..(RingSize - 1) |-> 0]
    /\ writePos = 0 /\ readPos = 0
    /\ reader = [at |-> "read", pos |-> 0]
    /\ batch = <<>> /\ batcher = "run" /\ held = <<>>
    /\ written = <<>> /\ failedWrites = {}
    /\ totalLogs = 0 /\ droppedLogs = 0
    /\ shutdown = FALSE
    /\ spoilt = {}

NotReaders == UNCHANGED <<readPos, reader, batch, batcher, held, written, failedWrites, shutdown>>

NotLoggers == UNCHANGED <<logger, ring, writePos, totalLogs, droppedLogs>>
-----------------------------------------------------------------------------
NextEntry(e) == logger[e].at = "log" /\ \A d \in 1..(e - 1) : logger[d].at # "log"

\* ShouldSample says no.
LogSampledOut(e) ==
    /\ NextEntry(e)
    /\ droppedLogs' = droppedLogs + 1
    /\ logger' = [logger EXCEPT ![e].at = "dropped"]
    /\ UNCHANGED <<ring, writePos, totalLogs, spoilt>> /\ NotReaders

\* The position is taken, whether or not there is room.
WriteClaims(e) ==
    /\ NextEntry(e)
    /\ writePos' = writePos + 1
    /\ logger' = [logger EXCEPT ![e] = [at |-> "check", pos |-> writePos]]
    /\ UNCHANGED <<ring, totalLogs, droppedLogs, spoilt>> /\ NotReaders

\* Faulty: the buffer holds one entry more than it has slots.
FullLater(pos) == pos - readPos > RingSize

Full(pos) == pos - readPos >= RingSize

WriteChecks(e) ==
    /\ logger[e].at = "check"
    /\ IF Full(logger[e].pos)
       THEN /\ droppedLogs' = droppedLogs + 1
            /\ logger' = [logger EXCEPT ![e].at = "dropped"]
            /\ spoilt' = spoilt \cup {"skipped"}
       ELSE /\ logger' = [logger EXCEPT ![e].at = "store"]
            /\ UNCHANGED <<droppedLogs, spoilt>>
    /\ UNCHANGED <<ring, writePos, totalLogs>> /\ NotReaders

\* A reader that has advanced over a slot may not have taken what was in it.
WriteStores(e) ==
    /\ logger[e].at = "store"
    /\ ring' = [ring EXCEPT ![logger[e].pos % RingSize] = e]
    /\ totalLogs' = totalLogs + 1
    /\ logger' = [logger EXCEPT ![e].at = "stored"]
    /\ spoilt' = IF reader.at = "take" /\ reader.pos = logger[e].pos - RingSize
                 THEN spoilt \cup {"overwritten"} ELSE spoilt
    /\ UNCHANGED <<writePos, droppedLogs>> /\ NotReaders
-----------------------------------------------------------------------------
ReadAdvances ==
    /\ reader.at = "read" /\ readPos < writePos
    /\ readPos' = readPos + 1
    /\ reader' = [at |-> "take", pos |-> readPos]
    /\ UNCHANGED <<batch, batcher, held, written, failedWrites, shutdown, spoilt>> /\ NotLoggers

\* The sinks take the batch, or refuse it after their retries.
writeBatch(b) ==
    \/ written' = written \o b /\ UNCHANGED failedWrites
    \/ failedWrites' = failedWrites \cup {b[i] : i \in DOMAIN b} /\ UNCHANGED written

\* Faulty: a full batch goes to the sinks without the entry that filled it.
AddLate(entry) ==
    IF Len(batch) + 1 >= BatchSize
    THEN batch' = <<>> /\ writeBatch(batch)
    ELSE batch' = Append(batch, entry) /\ UNCHANGED <<written, failedWrites>>

\* processSingleLog: a full batch goes to the sinks.
Add(entry) ==
    IF Len(batch) + 1 >= BatchSize
    THEN batch' = <<>> /\ writeBatch(Append(batch, entry))
    ELSE batch' = Append(batch, entry) /\ UNCHANGED <<written, failedWrites>>

ReadTakes ==
    /\ reader.at = "take"
    /\ Add(ring[reader.pos % RingSize])
    /\ reader' = [reader EXCEPT !.at = "read"]
    /\ spoilt' = IF \E e \in LogEntries : logger[e].at \in {"check", "store"} /\ logger[e].pos = reader.pos
                 THEN spoilt \cup {"too early"} ELSE spoilt
    /\ UNCHANGED <<readPos, batcher, held, shutdown>> /\ NotLoggers

ReaderEnds ==
    /\ shutdown /\ reader.at = "read" /\ readPos >= writePos
    /\ reader' = [reader EXCEPT !.at = "ended"]
    /\ UNCHANGED <<readPos, batch, batcher, held, written, failedWrites, shutdown, spoilt>> /\ NotLoggers

\* Faulty: the batch is not emptied.
GetBatchKeeps == held' = batch /\ UNCHANGED batch

GetBatch == held' = batch /\ batch' = <<>>

BatcherTicks ==
    /\ batcher = "run" /\ held = <<>> /\ batch # <<>>
    /\ GetBatch
    /\ UNCHANGED <<readPos, reader, batcher, written, failedWrites, shutdown, spoilt>> /\ NotLoggers

BatcherWrites ==
    /\ held # <<>>
    /\ writeBatch(held)
    /\ held' = <<>>
    /\ UNCHANGED <<readPos, reader, batch, batcher, shutdown, spoilt>> /\ NotLoggers

\* It does not wait for the reader.
BatcherEnds ==
    /\ batcher = "run" /\ held = <<>> /\ shutdown
    /\ GetBatch
    /\ batcher' = "ended"
    /\ UNCHANGED <<readPos, reader, written, failedWrites, shutdown, spoilt>> /\ NotLoggers

Shutdown ==
    /\ ~shutdown
    /\ shutdown' = TRUE
    /\ UNCHANGED <<readPos, reader, batch, batcher, held, written, failedWrites, spoilt>> /\ NotLoggers

Reading == ReadAdvances \/ ReadTakes \/ ReaderEnds

Batching == BatcherWrites \/ BatcherEnds

LogNext ==
    \/ \E e \in LogEntries : LogSampledOut(e) \/ WriteClaims(e) \/ WriteChecks(e) \/ WriteStores(e)
    \/ Reading \/ Batching \/ BatcherTicks \/ Shutdown
-----------------------------------------------------------------------------
At(step) == {e \in LogEntries : logger[e].at = step}

\* LogEntries that are stored and that the reader has not taken yet.
Unread ==
    {e \in At("stored") : logger[e].pos >= readPos \/ (reader.at = "take" /\ logger[e].pos = reader.pos)}

Times(e, s) == Cardinality({i \in DOMAIN s : s[i] = e})

\* The counters tell the entries that were stored from the dropped ones. As long as no full
\* ring was skipped over, no slot read before it was stored and none overwritten before it
\* was taken, every entry is in one place: in the ring, in a batch, in the sinks or refused
\* by them. What is left in a batch at the end is there because the batcher did not wait for
\* the reader.
LoggingRight ==
    /\ readPos <= writePos
    /\ totalLogs = Cardinality(At("stored")) /\ droppedLogs = Cardinality(At("dropped"))
    /\ spoilt = {} => \A e \in LogEntries :
          Times(e, written \o batch \o held) + Cardinality({e} \cap failedWrites) + Cardinality({e} \cap Unread)
             = Cardinality({e} \cap At("stored"))
    /\ \A i \in DOMAIN ring : ring[i] # 0 => logger[ring[i]].pos % RingSize = i

\* Shutdown waits for both goroutines and returns.
BothEnded == reader.at = "ended" /\ batcher = "ended" /\ held = <<>>
=============================================================================
