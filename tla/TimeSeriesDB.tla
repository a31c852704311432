---------------------------- MODULE TimeSeriesDB ----------------------------
(***************************************************************************)
(* solution22: the series that are buffered, flushed and compressed, the   *)
(* windows that a watermark closes, and the series spread over shards with *)
(* an hour index. Times are natural numbers; names are left out where only *)
(* one series is needed.                                                   *)
(***************************************************************************)
EXTENDS Integers, FiniteSets, Sequences, TLC

CONSTANTS
    MaxTime,     \* bound: the last timestamp
    MaxPoints,   \* bound: points written to the compressed series
    MaxSize,     \* of the write buffer, 10000 in the code
    BlockSize    \* points of a compressed block, 1000 in the code

VARIABLES
    \* CompressedTimeSeries
    written,     \* the points passed to Write
    pending,     \* the write buffer
    flushesDue,  \* goroutines that Write has started for a full buffer
    inFlush,     \* what the running flushes have taken
    points,      \* series.points
    blocks,      \* series.compressed, and the points each block stands for
    crashed,     \* Compress has panicked
    \* WindowedTimeSeries
    insert,      \* Insert call -> its timestamp and how far it is
    windows,     \* window -> the calls counted in it, whether it is Closed
    watermark, oldWatermark,
    lateData,    \* timestamps, which are its keys
    ticking,     \* advanceWatermark is between its two parts
    settled,     \* window -> the calls that it could have when it was closed
    \* DistributedTimeSeries
    caller,      \* process -> its call and how far it is
    mapping,     \* the shards that the series has been mapped to, the last one counts
    shardLoads,
    shard,       \* shard -> points and index of the series, who holds mu
    now,
    answer       \* what the query returned, and what it should have

compressedVars == <<written, pending, flushesDue, inFlush, points, blocks, crashed>>
windowVars == <<insert, windows, watermark, oldWatermark, lateData, ticking, settled>>
shardVars == <<caller, mapping, shardLoads, shard, now, answer>>

Times == 0 .. MaxTime

Elements(s) == {s[i] : i \in DOMAIN s}
-----------------------------------------------------------------------------
CompressedInit ==
    /\ written = {} /\ pending = <<>> /\ points = <<>> /\ blocks = <<>>
    /\ flushesDue = 0
    /\ inFlush = {}
    /\ crashed = FALSE

Write(t) ==
    /\ ~crashed /\ Cardinality(written) < MaxPoints
    /\ LET p == [id |-> Cardinality(written) + 1, time |-> t]
       IN  /\ written' = written \cup {p}
           /\ pending' = Append(pending, p)
           /\ flushesDue' = IF Len(pending') >= MaxSize THEN flushesDue + 1 ELSE flushesDue
    /\ UNCHANGED <<inFlush, points, blocks, crashed>>

\* Faulty: the buffer is emptied after the flush, without what has come since.
FlushTakesLate(due) ==
    /\ ~crashed /\ (due => flushesDue > 0)
    /\ flushesDue' = IF due THEN flushesDue - 1 ELSE flushesDue
    /\ pending' = <<>>
    /\ inFlush' = IF Len(pending) > 1 THEN inFlush \cup {Tail(pending)} ELSE inFlush
    /\ UNCHANGED <<written, points, blocks, crashed>>

\* flush takes the buffer, for the ticker or for a Write, ...
FlushTakes(due) ==
    /\ ~crashed /\ (due => flushesDue > 0)
    /\ flushesDue' = IF due THEN flushesDue - 1 ELSE flushesDue
    /\ pending' = <<>>
    /\ inFlush' = IF pending = <<>> THEN inFlush ELSE inFlush \cup {pending}
    /\ UNCHANGED <<written, points, blocks, crashed>>

\* int64ToBytes takes eight digits of a delta: one below 10 ms, here 0, has less.
CompressPanics(sorted) ==
    \E i \in 1 .. Len(sorted) - 1 : sorted[i + 1].time = sorted[i].time

\* Faulty: the block's times are taken before the points are sorted.
BlockOfUnsorted(s) ==
    [start |-> s[1].time, end |-> s[BlockSize].time, of |-> SubSeq(s, 1, BlockSize)]

\* Compress sorts the points in place, so that the block starts and ends with them.
BlockOf(s) ==
    LET sorted == SortSeq(SubSeq(s, 1, BlockSize), LAMBDA p, q : p.time < q.time)
    IN  [start |-> sorted[1].time, end |-> sorted[BlockSize].time, of |-> sorted]

\* ... appends it to the series, and compresses one block if there is more than one.
FlushAppends(batch) ==
    /\ ~crashed
    /\ inFlush' = inFlush \ {batch}
    /\ LET all == points \o batch
       IN  IF Len(all) <= BlockSize
             THEN points' = all /\ UNCHANGED <<blocks, crashed>>
             ELSE /\ crashed' = CompressPanics(BlockOf(all).of)
                  /\ points' = SubSeq(all, BlockSize + 1, Len(all))
                  /\ blocks' = Append(blocks, BlockOf(all))
    /\ UNCHANGED <<written, pending, flushesDue>>

CompressedNext ==
    \/ \E t \in Times : Write(t)
    \/ \E due \in BOOLEAN : FlushTakes(due)
    \/ \E batch \in inFlush : FlushAppends(batch)

\* What a query returns: the start of every block that meets the range, and the points in it
Query(start, end) ==
    {b.start : b \in {c \in Elements(blocks) : c.end > start /\ c.start < end}}
      \cup {p.time : p \in {q \in Elements(points) : q.time > start /\ q.time < end}}

\* However the flushes of the ticker and of the writers overlap, every point written is in
\* the buffer, in a flush, in memory or in a block, once; and no point that has left the
\* flush is missed by a query of a range that it is in, but that a block stands for its
\* points.
PointsKept ==
    LET batches == UNION {Elements(b) : b \in inFlush}
        packed == UNION {Elements(blocks[i].of) : i \in DOMAIN blocks}
        inMemory == Elements(points) \cup packed
    IN  /\ written = Elements(pending) \cup batches \cup inMemory
        /\ Cardinality(written) = Len(pending) + Cardinality(batches) + Len(points) + Cardinality(packed)
        /\ \A p \in inMemory : \A s, e \in -1 .. MaxTime + 1 : s < p.time /\ p.time < e =>
              \/ p.time \in Query(s, e)
              \/ \E b \in Elements(blocks) : p \in Elements(b.of) /\ b.start \in Query(s, e)
-----------------------------------------------------------------------------
\* Windows of two units; two calls of Insert and the ticker
WindowOf(t) == t \div 2

Ends(w) == 2 * w + 2

Inserts == 1 .. 2

WindowInit ==
    /\ insert \in [Inserts -> {[time |-> t, at |-> "window"] : t \in Times}]
    /\ windows = [w \in {} |-> <<>>]
    /\ watermark = 0 /\ oldWatermark = 0
    /\ lateData = {}
    /\ ticking = FALSE
    /\ settled = [w \in {} |-> {}]

Key(i) == WindowOf(insert[i].time)

Goes(i, step) == insert' = [insert EXCEPT ![i].at = step]

\* The window is made even if the point turns out to be late.
FindWindow(i) ==
    /\ insert[i].at = "window"
    /\ windows' = IF Key(i) \in DOMAIN windows THEN windows
                  ELSE windows @@ (Key(i) :> [calls |-> {}, closed |-> FALSE])
    /\ Goes(i, "check")
    /\ UNCHANGED <<watermark, oldWatermark, lateData, ticking, settled>>

\* Faulty: a late point is counted as any other.
IsLateNever(t) == FALSE

IsLate(t) == t < watermark

\* The watermark is read without the lock.
CheckLate(i) ==
    /\ insert[i].at = "check"
    /\ IF IsLate(insert[i].time)
         THEN lateData' = lateData \cup {insert[i].time} /\ Goes(i, IF ticking THEN "late in tick" ELSE "late")
         ELSE Goes(i, "add") /\ UNCHANGED lateData
    /\ UNCHANGED <<windows, watermark, oldWatermark, ticking, settled>>

Add(i) ==
    /\ insert[i].at = "add"
    /\ windows' = [windows EXCEPT ![Key(i)].calls = @ \cup {i}]
    /\ Goes(i, "done")
    /\ UNCHANGED <<watermark, oldWatermark, lateData, ticking, settled>>

Closes(w, mark) == Ends(w) < mark /\ ~windows[w].closed

AdvanceWatermark(mark) ==
    /\ ~ticking /\ ticking' = TRUE
    /\ oldWatermark' = watermark
    /\ watermark' = mark
    /\ windows' = [w \in DOMAIN windows |-> [windows[w] EXCEPT !.closed = @ \/ Closes(w, mark)]]
    /\ settled' = [w \in {v \in DOMAIN windows : Closes(v, mark)} |->
                      {i \in Inserts : Key(i) = w /\ insert[i].at \in {"add", "done"}}] @@ settled
    /\ UNCHANGED <<insert, lateData>>

\* "Reprocess late data" only deletes it.
DropLate ==
    /\ ticking /\ ticking' = FALSE
    /\ lateData' = {t \in lateData : ~(t > oldWatermark /\ t < watermark)}
    /\ UNCHANGED <<insert, windows, watermark, oldWatermark, settled>>

WindowNext ==
    \/ \E i \in Inserts : FindWindow(i) \/ CheckLate(i) \/ Add(i)
    \/ \E mark \in watermark + 1 .. MaxTime + 2 : AdvanceWatermark(mark)
    \/ DropLate

\* What Aggregate computes for a closed window only changes by the Insert calls that had
\* passed their check when it was closed; a point that was accepted is counted in its own
\* window, and a late one in none: it is kept for good, unless it came in the middle of a
\* tick.
WindowsSettle ==
    /\ \A w \in DOMAIN settled : windows[w].closed /\ windows[w].calls \subseteq settled[w]
    /\ \A i \in Inserts :
          /\ insert[i].at = "done" <=> \E w \in DOMAIN windows : i \in windows[w].calls
          /\ \A w \in DOMAIN windows : i \in windows[w].calls => w = Key(i)
          /\ insert[i].at = "late" => insert[i].time < watermark /\ insert[i].time \in lateData
-----------------------------------------------------------------------------
\* The series on its shards: two writers, one with two points, and a query. A point older
\* than the retention is removed from the front; the index maps an hour to places.
Shards == {0, 1}

Retention == 2

Hour(t) == t \div 2

Call(times) == [times |-> times, at |-> "getShard", shard |-> 0]

EmptySeries == [points |-> <<>>, index |-> [h \in 0 .. Hour(MaxTime) |-> {}], mu |-> "free"]

ShardInit ==
    /\ caller = [w1 |-> Call(<<0, 2>>), w2 |-> Call(<<0>>), q |-> Call(<<-1>>)]
    /\ mapping = <<>>
    /\ shardLoads = [i \in Shards |-> 0]
    /\ shard = [i \in Shards |-> EmptySeries]
    /\ now = Retention
    /\ answer = [got |-> {}, all |-> {}]

Callers == {"w1", "w2", "q"}

AtStep(c, step) == caller[c].times # <<>> /\ caller[c].at = step

\* It is enough that the points of time 0 expire.
Clock ==
    /\ now <= Retention
    /\ now' = now + 1
    /\ UNCHANGED <<caller, mapping, shardLoads, shard, answer>>

Found(c, i) == caller' = [caller EXCEPT ![c].at = "found", ![c].shard = i]

LeastLoaded == CHOOSE i \in Shards : \A j \in Shards :
                   shardLoads[i] < shardLoads[j] \/ (shardLoads[i] = shardLoads[j] /\ i <= j)

\* getShard looks the series up, else it picks a shard and counts the load, and then maps.
PickShard(c) ==
    /\ AtStep(c, "getShard")
    /\ IF mapping # <<>>
         THEN Found(c, mapping[Len(mapping)]) /\ UNCHANGED shardLoads
         ELSE /\ shardLoads' = [shardLoads EXCEPT ![LeastLoaded] = @ + 1]
              /\ caller' = [caller EXCEPT ![c].at = "map", ![c].shard = LeastLoaded]
    /\ UNCHANGED <<mapping, shard, now, answer>>

MapShard(c) ==
    /\ AtStep(c, "map")
    /\ mapping' = Append(mapping, caller[c].shard)
    /\ Found(c, caller[c].shard)
    /\ UNCHANGED <<shardLoads, shard, now, answer>>

MyShard(c) == shard[caller[c].shard]

\* Under shard.mu: the point is appended and indexed, ...
AppendPoint(c) ==
    /\ c # "q" /\ AtStep(c, "found") /\ MyShard(c).mu = "free"
    /\ shard' = [shard EXCEPT ![caller[c].shard].points = Append(@, Head(caller[c].times)),
                              ![caller[c].shard].mu = c]
    /\ caller' = [caller EXCEPT ![c].at = "index"]
    /\ UNCHANGED <<mapping, shardLoads, now, answer>>

IndexPoint(c) ==
    /\ AtStep(c, "index")
    /\ LET ps == MyShard(c).points
       IN  shard' = [shard EXCEPT ![caller[c].shard].index[Hour(ps[Len(ps)])] = @ \cup {Len(ps)}]
    /\ caller' = [caller EXCEPT ![c].at = "retain"]
    /\ UNCHANGED <<mapping, shardLoads, now, answer>>

Expired(t) == t < now - Retention

\* How many points at the front have expired
Cut(ps) == CHOOSE k \in 0 .. Len(ps) :
    /\ \A i \in 1 .. k : Expired(ps[i])
    /\ k < Len(ps) => ~Expired(ps[k + 1])

IndexOf(ps) == [h \in 0 .. Hour(MaxTime) |-> {i \in DOMAIN ps : Hour(ps[i]) = h}]

\* ... old points are removed, and then the index is rebuilt: a query in between, which only
\* takes the lock of the index, finds other points at its places.
Retain(c) ==
    /\ AtStep(c, "retain")
    /\ LET ps == MyShard(c).points
       IN  /\ shard' = [shard EXCEPT ![caller[c].shard].points = SubSeq(ps, Cut(ps) + 1, Len(ps))]
           /\ caller' = [caller EXCEPT ![c].at = IF Cut(ps) > 0 THEN "rebuild" ELSE "return"]
    /\ UNCHANGED <<mapping, shardLoads, now, answer>>

\* Faulty: the index is left as it is.
RebuildNot(c) ==
    /\ AtStep(c, "rebuild")
    /\ caller' = [caller EXCEPT ![c].at = "return"]
    /\ UNCHANGED <<mapping, shardLoads, shard, now, answer>>

Rebuild(c) ==
    /\ AtStep(c, "rebuild")
    /\ shard' = [shard EXCEPT ![caller[c].shard].index = IndexOf(MyShard(c).points)]
    /\ caller' = [caller EXCEPT ![c].at = "return"]
    /\ UNCHANGED <<mapping, shardLoads, now, answer>>

WriteReturns(c) ==
    /\ AtStep(c, "return")
    /\ shard' = [shard EXCEPT ![caller[c].shard].mu = "free"]
    /\ caller' = [caller EXCEPT ![c] = Call(Tail(@.times))]
    /\ UNCHANGED <<mapping, shardLoads, now, answer>>

\* The query of all hours, through the index
RunQuery ==
    /\ AtStep("q", "found")
    /\ LET s == MyShard("q")
           places == {i \in UNION {s.index[h] : h \in DOMAIN s.index} : i <= Len(s.points)}
       IN  answer' = [got |-> {s.points[i] : i \in places},
                      all |-> IF s.mu = "free" THEN Elements(s.points) ELSE {}]
    /\ caller' = [caller EXCEPT !["q"] = Call(<<>>)]
    /\ UNCHANGED <<mapping, shardLoads, shard, now>>

ShardNext ==
    \/ Clock
    \/ RunQuery
    \/ \E c \in Callers :
          \/ PickShard(c) \/ MapShard(c) \/ AppendPoint(c) \/ IndexPoint(c)
          \/ Retain(c) \/ Rebuild(c) \/ WriteReturns(c)

\* A query that no Write disturbs misses no point of its shard; the index is exact whenever
\* mu is free; and unless two first calls for the series have overlapped, all its points
\* are on the one shard that the router names.
ShardsRight ==
    /\ answer.all \subseteq answer.got
    /\ \A i \in Shards : shard[i].mu = "free" => shard[i].index = IndexOf(shard[i].points)
    /\ Len(mapping) = 1 /\ ~(\E c \in Callers : AtStep(c, "map")) =>
          \A i \in Shards \ {mapping[1]} : shard[i].points = <<>> /\ shardLoads[i] = 0
=============================================================================
