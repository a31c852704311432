--------------------------- MODULE StreamsAndFlow ----------------------------
(***************************************************************************)
(* Challenges 10 (message ordering), 11 (backpressure) and 16 (stream      *)
(* processing) of solutions/, the message bus of practical/, and the       *)
(* limiters, pools, queues and processors of Patterns. They share no       *)
(* state, so a behaviour here is a run of one of them.                     *)
(***************************************************************************)
EXTENDS Backpressure, MessageOrdering

CONSTANTS
    Events, MaxStamp, MaxTime, maxEvents, MarkEvents, Updates, start, MaxMark,
    allowedLateness, MaxOffset, maxHistory, MaxSteps, MaxConsumers, Partitions,
    KeyPartitions, MaxMessages, MaxRounds, MaxCallers, FewCallers, Limit, MaxTicks,
    MaxCalls

VARIABLES
    part,    \* the component that runs
    windows, objects, closedKeys, eventPc, stamp, ptr,
    watermark, time, loaded, result, highest,
    current, history, processedCount, steps,
    subscribed, log, mbLock, groupLock, join, rebalance, assignments, offsets, rounds, reader,
    handled, skipped, late, dlq,
    kind, st, pc, mine

Streaming == INSTANCE StreamProcessing

Group == INSTANCE PracticalMessageBus WITH consumer <- reader, failed <- skipped

Objects == INSTANCE Patterns WITH MaxTime <- MaxTicks

windowVars == <<windows, objects, closedKeys, eventPc, stamp, ptr>>

markVars == <<watermark, time, loaded, result, highest>>

checkpointVars == <<current, history, processedCount, steps>>

groupVars ==
    <<subscribed, log, mbLock, groupLock, join, rebalance, assignments, offsets, rounds,
      reader, handled, skipped, late, dlq>>

patternVars == <<kind, st, pc, mine>>

streamVars == <<windowVars, markVars, checkpointVars>>

otherVars == <<groupVars, patternVars>>

vars == <<part, orderingVars, flowVars, streamVars, otherVars>>

Parts ==
    {"vector", "lamport", "sequence", "pull", "limit", "adaptive", "window", "watermark",
     "checkpoint", "messagebus", "objects"}

\* The part that runs and those of challenges 10 and 11, as they are made; the variables of
\* the other parts are empty.
Init ==
    /\ part \in Parts
    /\ OrderingInit
    /\ FlowInit
    /\ IF part = "window" THEN Streaming!WindowInit
       ELSE windows = {} /\ objects = {} /\ closedKeys = {} /\ eventPc = {} /\ stamp = {}
            /\ ptr = {}
    /\ IF part = "watermark" THEN Streaming!MarkInit
       ELSE watermark = {} /\ time = {} /\ loaded = {} /\ result = {} /\ highest = {}
    /\ IF part = "checkpoint" THEN Streaming!CheckpointInit
       ELSE current = {} /\ history = {} /\ processedCount = {} /\ steps = {}
    /\ IF part = "messagebus" THEN Group!MBInit
       ELSE subscribed = {} /\ log = {} /\ mbLock = {} /\ groupLock = {} /\ join = {}
            /\ rebalance = {} /\ assignments = {} /\ offsets = {} /\ rounds = {}
            /\ reader = {} /\ handled = {} /\ skipped = {} /\ late = {} /\ dlq = {}
    /\ IF part = "objects" THEN Objects!PatternInit
       ELSE kind = {} /\ st = {} /\ pc = {} /\ mine = {}

OnlyCausal == UNCHANGED <<part, flowVars, streamVars, otherVars, lamportVars,
    sequencedVars>>

CausalStep == part = "vector" /\ CausalNext /\ OnlyCausal

OnlyLamport == UNCHANGED <<part, flowVars, streamVars, otherVars, causalVars,
    sequencedVars>>

LamportStep == part = "lamport" /\ LamportNext /\ OnlyLamport

OnlySequenced == UNCHANGED <<part, flowVars, streamVars, otherVars, causalVars,
    lamportVars>>

SequencedStep == part = "sequence" /\ SequencedNext /\ OnlySequenced

OnlyPull == UNCHANGED <<part, orderingVars, streamVars, otherVars, limitedVars,
    adaptiveVars>>

PullStep == part = "pull" /\ PullNext /\ OnlyPull

OnlyLimited == UNCHANGED <<part, orderingVars, streamVars, otherVars, pullVars,
    adaptiveVars>>

LimitedStep == part = "limit" /\ LimitedNext /\ OnlyLimited

OnlyAdaptive == UNCHANGED <<part, orderingVars, streamVars, otherVars, pullVars,
    limitedVars>>

AdaptiveStep == part = "adaptive" /\ AdaptiveNext /\ OnlyAdaptive

OnlyWindow == UNCHANGED <<part, orderingVars, flowVars, otherVars, markVars,
    checkpointVars>>

WindowStep == part = "window" /\ Streaming!WindowNext /\ OnlyWindow

OnlyMark == UNCHANGED <<part, orderingVars, flowVars, otherVars, windowVars,
    checkpointVars>>

MarkStep == part = "watermark" /\ Streaming!MarkNext /\ OnlyMark

OnlyCheckpoint == UNCHANGED <<part, orderingVars, flowVars, otherVars, windowVars,
    markVars>>

CheckpointStep == part = "checkpoint" /\ Streaming!CheckpointNext /\ OnlyCheckpoint

OnlyGroup == UNCHANGED <<part, orderingVars, flowVars, streamVars, patternVars>>

GroupStep == part = "messagebus" /\ Group!MBNext /\ OnlyGroup

OnlyPattern == UNCHANGED <<part, orderingVars, flowVars, streamVars, groupVars>>

PatternStep == part = "objects" /\ Objects!PatternNext /\ OnlyPattern

Next ==
    \/ CausalStep \/ LamportStep \/ SequencedStep \/ PullStep \/ LimitedStep \/ AdaptiveStep
    \/ WindowStep \/ MarkStep \/ CheckpointStep \/ GroupStep \/ PatternStep

\* The goroutine of checkTimeouts has a ticker, and the workers, the consumers and the callers
\* inside a call run: one that can go on does.
GoesOn ==
    \/ part = "sequence" /\ (checkTimeouts \/ TimePasses) /\ OnlySequenced
    \/ part = "pull" /\ ((\E w \in Workers : Work(w)) \/ CloseResults) /\ OnlyPull
    \/ part = "messagebus" /\ (\E c \in Group!Consumers : Group!GroupStep(c)) /\ OnlyGroup
    \/ part = "objects" /\ kind = "queue" /\ PatternStep

Spec == Init /\ [][Next]_vars /\ WF_vars(GoesOn)
-----------------------------------------------------------------------------
\* Every event counts once, in the window it belongs to, and is dropped only when it
\* really is too late (see StreamProcessing). In the message bus of practical/ a rebalanced
\* group has one member for each partition, and an offset passes over nothing that was not
\* tried, with the exceptions that retention and a second topic make (see
\* PracticalMessageBus).
StreamExact ==
    /\ part = "window" => Streaming!WindowTypeOK /\ Streaming!WindowsComplete
    /\ part = "watermark" =>
          Streaming!MarkTypeOK /\ Streaming!DroppedIsLate /\ Streaming!BackOnlyIfUnseen
    /\ part = "checkpoint" => Streaming!CheckpointTypeOK /\ Streaming!CountedOnce
    /\ part = "messagebus" => Group!GroupRight

\* The shared objects of the examples and solutions keep what they promise to callers that
\* come at the same time (see Patterns).
ObjectsRight == part = "objects" => Objects!ObjectsKeepPromise

\* Work that the components have begun, and its end.
Begun ==
    \/ part = "sequence"
    \/ part = "pull" /\ done
    \/ part = "messagebus" /\ \E c \in Group!Consumers : Group!JoinBegun(c)
    \/ part = "objects" /\ kind = "queue"

Done ==
    \/ part = "sequence" /\ NobodyWaits
    \/ part = "pull" /\ ~open
    \/ part = "messagebus" /\ \A c \in Group!Consumers : Group!JoinBegun(c) => Group!JoinOver(c)
    \/ part = "objects" /\ Objects!AllEnqueued

\* No message waits in the sequence buffer for ever (the timeout comes to it, or the overflow
\* drops it); the pipeline shuts down once its context is done; JoinGroup of practical/
\* returns and is rebalanced (unless the lock order of JoinGroup and rebalance stops both);
\* and every enqueue of the lock-free queue ends.
WaitsEnd == Begun ~> Done
=============================================================================
