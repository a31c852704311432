--------------------------- MODULE StorageEngines ----------------------------
(***************************************************************************)
(* RunSolution21 to RunSolution24 (the graph databases, the time series    *)
(* databases, the columnar stores and the object stores) and the caches of *)
(* Challenge15_DistributedCacheSolution. They share no state, so a         *)
(* behaviour here is a run of one of them.                                 *)
(***************************************************************************)
EXTENDS Caches

CONSTANTS
    Stores, MaxDepth, QueueSize, MaxTime, MaxPoints, MaxBuffered, BlockSize, GroupSize,
    MaxPuts, MaxMemtable, MaxOps, MaxFailures, ShortData, DataChunks, ParityChunks

VARIABLES
    part,    \* the store that runs
    adding, nodes, edges, out, in, nodeCount, edgeCount, search, quiet,
    calling, router, loadFactor, partition, raced, traversal,
    tx, version, globalClock, overwritten,
    links, walk,
    written, pending, flushesDue, inFlush, points, blocks, seriesCrashed,
    insert, windows, watermark, oldWatermark, lateData, ticking, settled,
    caller, mapping, shardLoads, shard, now, answer,
    inserter, wal, columns, totalRows, rowGroups, trigger, compactor, overlapped, crashed,
    puts, memtable, size, flushers, flush, level0, gone,
    ring, created, status, rows, request,
    versions, totalObjects, totalSize, upload, parts, calls, doubled,
    objects, index, hashIndex, stored, ops, reused, casCrashed,
    active, chunks, putter, metadata, together

Graph == INSTANCE GraphDatabase

Series == INSTANCE TimeSeriesDB WITH MaxSize <- MaxBuffered, crashed <- seriesCrashed

Columnar == INSTANCE ColumnarStore WITH MaxSize <- MaxMemtable

Objects == INSTANCE ObjectStorage WITH crashed <- casCrashed, status <- active

lockFreeVars == <<adding, nodes, edges, out, in, nodeCount, edgeCount, search, quiet>>

partitionVars == <<calling, router, loadFactor, partition, raced, traversal>>

txVars == <<tx, version, globalClock, overwritten>>

cycleVars == <<links, walk>>

compressedVars == <<written, pending, flushesDue, inFlush, points, blocks, seriesCrashed>>

windowVars == <<insert, windows, watermark, oldWatermark, lateData, ticking, settled>>

shardVars == <<caller, mapping, shardLoads, shard, now, answer>>

columnarVars ==
    <<inserter, wal, columns, totalRows, rowGroups, trigger, compactor, overlapped,
      crashed>>

wideVars == <<puts, memtable, size, flushers, flush, level0, gone>>

ringVars == <<ring, created, status, rows, request>>

s3Vars == <<versions, totalObjects, totalSize, upload, parts, calls, doubled>>

casVars == <<objects, index, hashIndex, stored, ops, reused, casCrashed>>

distVars == <<active, chunks, putter, metadata, together>>

graphVars == <<lockFreeVars, partitionVars, txVars, cycleVars>>

seriesVars == <<compressedVars, windowVars, shardVars>>

columnVars == <<columnarVars, wideVars, ringVars>>

objectVars == <<s3Vars, casVars, distVars>>

vars == <<part, graphVars, seriesVars, columnVars, objectVars, cacheVars>>

\* The part that runs and the caches, as they are made; the variables of the other parts
\* are empty.
Init ==
    /\ part \in Stores
    /\ IF part = "lockfree" THEN Graph!LockFreeInit
       ELSE adding = {} /\ nodes = {} /\ edges = {} /\ out = {} /\ in = {} /\ nodeCount = {}
            /\ edgeCount = {} /\ search = {} /\ quiet = {}
    /\ IF part = "partitioned" THEN Graph!PartitionInit
       ELSE calling = {} /\ router = {} /\ loadFactor = {} /\ partition = {} /\ raced = {}
            /\ traversal = {}
    /\ IF part = "transactions" THEN Graph!TxInit
       ELSE tx = {} /\ version = {} /\ globalClock = {} /\ overwritten = {}
    /\ IF part = "cycles" THEN Graph!CycleInit
       ELSE links = {} /\ walk = {}
    /\ IF part = "compressed" THEN Series!CompressedInit
       ELSE written = {} /\ pending = {} /\ flushesDue = {} /\ inFlush = {} /\ points = {}
            /\ blocks = {} /\ seriesCrashed = {}
    /\ IF part = "windows" THEN Series!WindowInit
       ELSE insert = {} /\ windows = {} /\ watermark = {} /\ oldWatermark = {}
            /\ lateData = {} /\ ticking = {} /\ settled = {}
    /\ IF part = "shards" THEN Series!ShardInit
       ELSE caller = {} /\ mapping = {} /\ shardLoads = {} /\ shard = {} /\ now = {}
            /\ answer = {}
    /\ IF part = "columns" THEN Columnar!ColumnarInit
       ELSE inserter = {} /\ wal = {} /\ columns = {} /\ totalRows = {} /\ rowGroups = {}
            /\ trigger = {} /\ compactor = {} /\ overlapped = {} /\ crashed = {}
    /\ IF part = "wide" THEN Columnar!WideInit
       ELSE puts = {} /\ memtable = {} /\ size = {} /\ flushers = {} /\ flush = {}
            /\ level0 = {} /\ gone = {}
    /\ IF part = "ring" THEN Columnar!RingInit
       ELSE ring = {} /\ created = {} /\ status = {} /\ rows = {} /\ request = {}
    /\ IF part = "s3" THEN Objects!S3Init
       ELSE versions = {} /\ totalObjects = {} /\ totalSize = {} /\ upload = {}
            /\ parts = {} /\ calls = {} /\ doubled = {}
    /\ IF part = "content" THEN Objects!CASInit
       ELSE objects = {} /\ index = {} /\ hashIndex = {} /\ stored = {} /\ ops = {}
            /\ reused = {} /\ casCrashed = {}
    /\ IF part = "chunks" THEN Objects!DistInit
       ELSE active = {} /\ chunks = {} /\ putter = {} /\ metadata = {} /\ together = {}
    /\ CachesInit

OnlyLockFree == UNCHANGED <<part, seriesVars, columnVars, objectVars, cacheVars,
    partitionVars, txVars, cycleVars>>

LockFreeStep == part = "lockfree" /\ Graph!LockFreeNext /\ OnlyLockFree

OnlyPartition == UNCHANGED <<part, seriesVars, columnVars, objectVars, cacheVars,
    lockFreeVars, txVars, cycleVars>>

PartitionStep == part = "partitioned" /\ Graph!PartitionNext /\ OnlyPartition

OnlyTx == UNCHANGED <<part, seriesVars, columnVars, objectVars, cacheVars, lockFreeVars,
    partitionVars, cycleVars>>

TxStep == part = "transactions" /\ Graph!TxNext /\ OnlyTx

OnlyCycle == UNCHANGED <<part, seriesVars, columnVars, objectVars, cacheVars, lockFreeVars,
    partitionVars, txVars>>

CycleStep == part = "cycles" /\ Graph!CycleNext /\ OnlyCycle

OnlyCompressed == UNCHANGED <<part, graphVars, columnVars, objectVars, cacheVars,
    windowVars, shardVars>>

CompressedStep == part = "compressed" /\ Series!CompressedNext /\ OnlyCompressed

OnlyWindow == UNCHANGED <<part, graphVars, columnVars, objectVars, cacheVars,
    compressedVars, shardVars>>

WindowStep == part = "windows" /\ Series!WindowNext /\ OnlyWindow

OnlyShard == UNCHANGED <<part, graphVars, columnVars, objectVars, cacheVars, compressedVars,
    windowVars>>

ShardStep == part = "shards" /\ Series!ShardNext /\ OnlyShard

OnlyColumnar == UNCHANGED <<part, graphVars, seriesVars, objectVars, cacheVars, wideVars,
    ringVars>>

ColumnarStep == part = "columns" /\ Columnar!ColumnarNext /\ OnlyColumnar

OnlyWide == UNCHANGED <<part, graphVars, seriesVars, objectVars, cacheVars, columnarVars,
    ringVars>>

WideStep == part = "wide" /\ Columnar!WideNext /\ OnlyWide

OnlyRing == UNCHANGED <<part, graphVars, seriesVars, objectVars, cacheVars, columnarVars,
    wideVars>>

RingStep == part = "ring" /\ Columnar!RingNext /\ OnlyRing

OnlyS3 == UNCHANGED <<part, graphVars, seriesVars, columnVars, cacheVars, casVars,
    distVars>>

S3Step == part = "s3" /\ Objects!S3Next /\ OnlyS3

OnlyCAS == UNCHANGED <<part, graphVars, seriesVars, columnVars, cacheVars, s3Vars,
    distVars>>

CASStep == part = "content" /\ Objects!CASNext /\ OnlyCAS

OnlyDist == UNCHANGED <<part, graphVars, seriesVars, columnVars, cacheVars, s3Vars,
    casVars>>

DistStep == part = "chunks" /\ Objects!DistNext /\ OnlyDist

OnlySingle == UNCHANGED <<part, graphVars, seriesVars, columnVars, objectVars, hotVars,
    throughVars>>

SingleStep == part = "stampede" /\ SingleNext /\ OnlySingle

OnlyHot == UNCHANGED <<part, graphVars, seriesVars, columnVars, objectVars, singleVars,
    throughVars>>

HotStep == part = "hotkey" /\ HotNext /\ OnlyHot

OnlyThrough == UNCHANGED <<part, graphVars, seriesVars, columnVars, objectVars, singleVars,
    hotVars>>

ThroughStep == part = "writethrough" /\ ThroughNext /\ OnlyThrough

Next ==
    \/ LockFreeStep \/ PartitionStep \/ TxStep \/ CycleStep \/ CompressedStep \/ WindowStep
    \/ ShardStep \/ ColumnarStep \/ WideStep \/ RingStep \/ S3Step \/ CASStep \/ DistStep
    \/ SingleStep \/ HotStep \/ ThroughStep

\* The goroutines of a search and of a flush, the requests of the caches and their loads keep
\* running, and in the write-through cache time passes.
GoesOn ==
    \/ part = "lockfree" /\ LockFreeStep /\ Graph!Searching
    \/ part = "wide" /\ WideStep /\ Columnar!Flushing
    \/ part = "stampede" /\ (\E r \in Requests : Step(r)) /\ OnlySingle
    \/ part = "hotkey" /\ (\E r \in HotReaders : Read(r)) /\ OnlyHot
    \/ part = "writethrough" /\ ThroughExpire /\ OnlyThrough

Spec == Init /\ [][Next]_vars /\ WF_vars(GoesOn)
-----------------------------------------------------------------------------
\* solution21: what two AddEdge calls and a search do at once leaves the counters and the
\* adjacency in agreement, and a search that meets no change finds what there is to find;
\* nodes of the partitioned graph are in the partition that routes to them and a traversal
\* reaches them; a transaction that read a version which was overwritten before its
\* validation does not commit; and a cycle is reported exactly if there is one.
\* solution22: no point is lost or doubled by a flush, a closed window does not change but
\* for what was under way, and a shard's index and its points agree outside of a clean-up.
DatabasesRight ==
    /\ part = "lockfree" => Graph!CountsRight /\ Graph!SearchesRight
    /\ part = "partitioned" => Graph!PartitionsRight /\ Graph!TraversalRight
    /\ part = "transactions" => Graph!StaleReadsRejected
    /\ part = "cycles" => Graph!CycleFound
    /\ part = "compressed" => Series!PointsKept
    /\ part = "windows" => Series!WindowsSettle
    /\ part = "shards" => Series!ShardsRight

\* solution23: columns, log and row groups agree, Get returns the newest value that no
\* flush has cleared, and an acknowledged row is on a node of the ring that owns it.
\* solution24: an upload makes one version with its parts in order, deduplication keeps
\* contents apart while keys are not reused, and a read returns what was put or fails.
StoresRight ==
    /\ part = "columns" => Columnar!RowsRight
    /\ part = "wide" => Columnar!GetRight
    /\ part = "ring" => Columnar!RingRight
    /\ part = "s3" => Objects!UploadsRight
    /\ part = "content" => Objects!ContentRight
    /\ part = "chunks" => Objects!ReadsExact

\* solution23, as its demonstration and its test use it: an Insert never panics, whatever
\* the columns hold.
InsertsReturn == part = "columns" => Columnar!InsertNeverPanics

\* solution24: "Distributed object storage with erasure coding". An object is read even when
\* as many nodes have failed as it has parity chunks.
NodeLossTolerated == part = "chunks" => Objects!FaultTolerant

\* Work that the stores have begun, and its end.
Begun ==
    \/ part = "lockfree" /\ Graph!SearchUnderWay
    \/ part = "wide" /\ Columnar!Overfull
    \/ part = "hotkey" /\ TurnedHot
    \/ part = "writethrough" /\ Stale

Done ==
    \/ part = "lockfree" /\ Graph!SearchOver
    \/ part = "wide" /\ Columnar!FlushOver
    \/ part = "hotkey" /\ local # None
    \/ part = "writethrough" /\ ~Stale

\* A search of the lock-free graph ends, unless a level is wider than the BFS queue; a full
\* memtable is cleared, or no flush is left to do so; a key that turns hot gets its replica;
\* and a stale entry of the write-through cache does not outlive its TTL.
StorageProgress == Begun ~> Done

\* What challenge15 prints: one load answers all requests. Every cacheGet gets an answer, if
\* the runtime does not stop the program.
EveryRequestAnswered ==
    part = "stampede" ~>
        part = "stampede" /\ (stopped \/ \A r \in Requests : requestPc[r] \in {"served", "failed"})
=============================================================================
