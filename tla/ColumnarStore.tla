---------------------------- MODULE ColumnarStore ----------------------------
(***************************************************************************)
(* solution23: the columnar storage with its write-ahead log, column-wise  *)
(* appends and row groups, the wide-column store with its memtable, and    *)
(* the distributed storage on a consistent-hash ring.                      *)
(***************************************************************************)
EXTENDS Integers, FiniteSets, Sequences

CONSTANTS
    GroupSize,   \* rows of a row group, 10000 in the code
    MaxPuts,     \* bound: calls of Put
    MaxSize      \* of the memtable, in values

VARIABLES
    \* ColumnarStorage
    inserter,    \* Insert call -> the columns it has yet to append to, how far it is
    wal, columns, totalRows, rowGroups,
    trigger,     \* the compactor's channel holds a token
    compactor,   \* what it is at, and the chunks of the group it is about to append
    overlapped,  \* two Inserts have been under way at once
    crashed,     \* updateColumnStats has panicked
    \* WideColumnStore
    puts, memtable, size,
    flushers,    \* goroutines of flushMemtable that have not started
    flush,       \* the one that has the flag: how far it is, the keys it saw
    level0,
    gone,        \* puts that a flush has cleared
    \* DistributedColumnar
    ring,        \* place -> node
    created,     \* CreateColumn has been called on the nodes' storage
    status,      \* node -> "active" or "failed"
    rows,        \* node -> the rows inserted there
    request      \* row -> its Write: nodes still to ask, errors, and the outcome

columnarVars ==
    <<inserter, wal, columns, totalRows, rowGroups, trigger, compactor, overlapped, crashed>>
wideVars == <<puts, memtable, size, flushers, flush, level0, gone>>
ringVars == <<ring, created, status, rows, request>>

\* Of a sequence, or of any function
Elements(s) == {s[i] : i \in DOMAIN s}
-----------------------------------------------------------------------------
\* Each Insert has a row, its number, with a value for every column.
Rows == 1 .. 3

\* "name" is a column of strings, the others hold ints.
ColumnSets == {{"id", "value"}, {"id", "name"}}

IdleCompactor == [at |-> "idle", chunks |-> [c \in {} |-> <<>>]]

ColumnarInit ==
    /\ \E cols \in ColumnSets :
          /\ columns = [c \in cols |-> <<>>]
          /\ inserter = [r \in Rows |-> [at |-> "new", left |-> cols]]
    /\ wal = {} /\ totalRows = 0 /\ rowGroups = <<>>
    /\ trigger = FALSE
    /\ compactor = IdleCompactor
    /\ overlapped = FALSE /\ crashed = FALSE

Under(r) == inserter[r].at \notin {"new", "done"}

InsertLogs(r) ==
    /\ ~crashed /\ inserter[r].at = "new"
    /\ wal' = wal \cup {r}
    /\ inserter' = [inserter EXCEPT ![r].at = "append"]
    /\ overlapped' = (overlapped \/ \E s \in Rows : Under(s))
    /\ UNCHANGED <<columns, totalRows, rowGroups, trigger, compactor, crashed>>

\* A column and its stats, under its lock: the second value of a column that holds no ints
\* is one conversion too many.
InsertAppends(r, c) ==
    /\ ~crashed /\ inserter[r].at = "append" /\ c \in inserter[r].left
    /\ columns' = [columns EXCEPT ![c] = Append(@, r)]
    /\ crashed' = (c = "name" /\ columns[c] # <<>>)
    /\ inserter' = [inserter EXCEPT ![r].left = @ \ {c}]
    /\ UNCHANGED <<wal, totalRows, rowGroups, trigger, compactor, overlapped>>

\* Faulty: the row is counted as soon as one of its columns has it.
InsertCountsEarly(r) ==
    /\ ~crashed /\ inserter[r].at = "append" /\ Cardinality(inserter[r].left) <= 1
    /\ totalRows' = totalRows + 1
    /\ inserter' = [inserter EXCEPT ![r].at = "trigger"]
    /\ UNCHANGED <<wal, columns, rowGroups, trigger, compactor, overlapped, crashed>>

InsertCounts(r) ==
    /\ ~crashed /\ inserter[r].at = "append" /\ inserter[r].left = {}
    /\ totalRows' = totalRows + 1
    /\ inserter' = [inserter EXCEPT ![r].at = "trigger"]
    /\ UNCHANGED <<wal, columns, rowGroups, trigger, compactor, overlapped, crashed>>

\* The count is read again, and may have passed the multiple.
InsertTriggers(r) ==
    /\ ~crashed /\ inserter[r].at = "trigger"
    /\ trigger' = (trigger \/ totalRows % GroupSize = 0)
    /\ inserter' = [inserter EXCEPT ![r].at = "done"]
    /\ UNCHANGED <<wal, columns, totalRows, rowGroups, compactor, overlapped, crashed>>

\* Tenths of distinct values: below 1 a dictionary, below 3 runs, else the values.
selectEncoding(values) ==
    LET distinct == 10 * Cardinality(Elements(values))
    IN  IF distinct < Len(values) THEN "dictionary"
        ELSE IF distinct < 3 * Len(values) THEN "runs" ELSE "plain"

\* Faulty: the last run is left out.
runLengthEncodeShort(values) ==
    LET run[i \in 0 .. Len(values)] ==
            IF i <= 1 THEN [done |-> <<>>, count |-> i]
            ELSE IF values[i] = values[i - 1] THEN [run[i - 1] EXCEPT !.count = @ + 1]
            ELSE [done |-> Append(run[i - 1].done, run[i - 1].count), count |-> 1]
    IN  run[Len(values)].done

\* The lengths of the runs: encodeRun leaves the value out.
runLengthEncode(values) ==
    LET run[i \in 0 .. Len(values)] ==
            IF i <= 1 THEN [done |-> <<>>, count |-> i]
            ELSE IF values[i] = values[i - 1] THEN [run[i - 1] EXCEPT !.count = @ + 1]
            ELSE [done |-> Append(run[i - 1].done, run[i - 1].count), count |-> 1]
    IN  IF values = <<>> THEN <<>> ELSE Append(run[Len(values)].done, run[Len(values)].count)

\* Ids in the order of first appearance; the dictionary itself is not kept.
dictionaryEncode(values) ==
    [i \in DOMAIN values |->
        LET first == CHOOSE j \in 1 .. i :
                        values[j] = values[i] /\ \A k \in 1 .. j - 1 : values[k] # values[i]
        IN  Cardinality({values[k] : k \in 1 .. first - 1})]

\* What a chunk's bytes still tell of its values
encodeColumn(values) ==
    CASE selectEncoding(values) = "dictionary" -> dictionaryEncode(values)
      [] selectEncoding(values) = "runs" -> runLengthEncode(values)
      [] OTHER -> values

\* Over all columns of up to four values, and one that is long enough for each encoding:
\* the runs add up and a run ends where the value changes; equal values, and only these,
\* have equal ids, and the ids are 0, 1, ... in order.
EncodingsRight ==
    /\ \A values \in UNION {[1 .. n -> 0 .. 2] : n \in 0 .. 4} :
          LET runs == runLengthEncode(values)
              upTo[i \in 0 .. Len(runs)] == IF i = 0 THEN 0 ELSE upTo[i - 1] + runs[i]
              ids == dictionaryEncode(values)
          IN  /\ upTo[Len(runs)] = Len(values)
              /\ {upTo[i] : i \in 1 .. Len(runs) - 1}
                    = {i \in 1 .. Len(values) - 1 : values[i] # values[i + 1]}
              /\ \A i, j \in DOMAIN values : ids[i] = ids[j] <=> values[i] = values[j]
              /\ Elements(ids) = 0 .. Cardinality(Elements(values)) - 1
    /\ \A n \in 1 .. 12 : selectEncoding([i \in 1 .. n |-> 0])
          = IF n > 10 THEN "dictionary" ELSE IF n > 3 THEN "runs" ELSE "plain"
    /\ encodeColumn([i \in 1 .. 6 |-> 7]) = <<6>>

\* createRowGroup: the rows that the column has of the group
ChunkOf(c, start) ==
    SubSeq(columns[c], start + 1,
           IF start + GroupSize > Len(columns[c]) THEN Len(columns[c]) ELSE start + GroupSize)

CompactorStarts ==
    /\ ~crashed /\ trigger /\ compactor.at = "idle"
    /\ trigger' = FALSE
    /\ compactor' = IF totalRows > 0 /\ Len(rowGroups) * GroupSize < totalRows
                      THEN [compactor EXCEPT !.at = "read"] ELSE compactor
    /\ UNCHANGED <<inserter, wal, columns, totalRows, rowGroups, overlapped, crashed>>

\* The columns are read one by one, while Inserts go on.
CompactorReads(c) ==
    /\ ~crashed /\ compactor.at = "read" /\ c \notin DOMAIN compactor.chunks
    /\ compactor' = [compactor EXCEPT !.chunks =
                        [d \in DOMAIN @ \cup {c} |->
                            IF d = c THEN ChunkOf(c, Len(rowGroups) * GroupSize) ELSE @[d]]]
    /\ UNCHANGED <<inserter, wal, columns, totalRows, rowGroups, trigger, overlapped, crashed>>

\* From its first column to its end an Insert keeps the group list from being changed.
HoldsLock(r) == inserter[r].at = "trigger"
                \/ (inserter[r].at = "append" /\ inserter[r].left # DOMAIN columns)

CompactorAppends ==
    /\ ~crashed /\ compactor.at = "read" /\ DOMAIN compactor.chunks = DOMAIN columns
    /\ \A r \in Rows : ~HoldsLock(r)
    /\ rowGroups' = Append(rowGroups, compactor.chunks)
    /\ compactor' = IdleCompactor
    /\ UNCHANGED <<inserter, wal, columns, totalRows, trigger, overlapped, crashed>>

ColumnarNext ==
    \/ CompactorStarts \/ CompactorAppends \/ \E c \in DOMAIN columns : CompactorReads(c)
    \/ \E r \in Rows :
          \/ InsertLogs(r) \/ InsertCounts(r) \/ InsertTriggers(r)
          \/ \E c \in DOMAIN columns : InsertAppends(r, c)

\* Query puts the i-th values together: they are of one row unless Inserts have overlapped.
\* What a column holds is in the log; the rows that are counted are in all columns; and a
\* row group has rows of its own slice, the same positions of every column, and all of them
\* unless Inserts have overlapped: then the compactor may be called twice for one multiple.
\* Columns of ints never make an Insert panic; that no other column may do so either is
\* InsertNeverPanics. The encodings are exact.
RowsRight ==
    /\ \A c \in DOMAIN columns :
          /\ Elements(columns[c]) \subseteq wal
          /\ totalRows <= Len(columns[c])
          /\ Cardinality(Elements(columns[c])) = Len(columns[c])
    /\ ~overlapped => \A c, d \in DOMAIN columns : \A i \in DOMAIN columns[c] \cap DOMAIN columns[d] :
          columns[c][i] = columns[d][i]
    /\ \A g \in DOMAIN rowGroups : \A c \in DOMAIN columns :
          LET chunk == rowGroups[g][c]
          IN  /\ Len(chunk) \in 1 .. GroupSize /\ (overlapped \/ Len(chunk) = GroupSize)
              /\ chunk = SubSeq(columns[c], (g - 1) * GroupSize + 1, (g - 1) * GroupSize + Len(chunk))
    /\ crashed => "name" \in DOMAIN columns
    /\ wal = {} => EncodingsRight

\* RunSolution23 and TestSolution23_ColumnarStorage insert rows with a column of strings and
\* go on to query them, the one to end with "All columnar storage patterns demonstrated
\* successfully!", the other to expect every row: no Insert panics.
InsertNeverPanics == ~crashed
-----------------------------------------------------------------------------
\* The wide-column store with two row keys; a value is the number of its Put.
Keys == {"a", "b"}

WideInit ==
    /\ puts = 0 /\ size = 0 /\ flushers = 0 /\ level0 = <<>> /\ gone = {}
    /\ memtable = [k \in {} |-> <<>>]
    /\ flush = [at |-> "idle", keys |-> {}]

Put(k) ==
    /\ puts < MaxPuts
    /\ puts' = puts + 1
    /\ memtable' = [j \in DOMAIN memtable \cup {k} |->
                       (IF j \in DOMAIN memtable THEN memtable[j] ELSE <<>>)
                         \o (IF j = k THEN <<puts + 1>> ELSE <<>>)]
    /\ size' = size + 1
    /\ flushers' = IF size + 1 > MaxSize THEN flushers + 1 ELSE flushers
    /\ UNCHANGED <<flush, level0, gone>>

\* flushMemtable gives up if another has the flag.
FlushStarts ==
    /\ flushers > 0
    /\ flushers' = flushers - 1
    /\ flush' = IF flush.at = "idle" THEN [at |-> "keys", keys |-> {}] ELSE flush
    /\ UNCHANGED <<puts, memtable, size, level0, gone>>

FlushReadsKeys ==
    /\ flush.at = "keys"
    /\ flush' = [at |-> "level", keys |-> DOMAIN memtable]
    /\ UNCHANGED <<puts, memtable, size, flushers, level0, gone>>

\* The table goes to the compactor's level 0, and never to sstables, which Get looks through.
FlushAddsTable ==
    /\ flush.at = "level"
    /\ level0' = Append(level0, flush.keys)
    /\ flush' = [flush EXCEPT !.at = "clear"]
    /\ UNCHANGED <<puts, memtable, size, flushers, gone>>

FlushClears ==
    /\ flush.at = "clear"
    /\ gone' = gone \cup UNION {Elements(memtable[k]) : k \in DOMAIN memtable}
    /\ memtable' = [k \in {} |-> <<>>]
    /\ size' = 0
    /\ flush' = [flush EXCEPT !.at = "release"]
    /\ UNCHANGED <<puts, flushers, level0>>

\* Faulty: the flag is not cleared at the end.
FlushKeepsFlag == flush.at = "release" /\ UNCHANGED wideVars

FlushReleases ==
    /\ flush.at = "release"
    /\ flush' = [at |-> "idle", keys |-> {}]
    /\ UNCHANGED <<puts, memtable, size, flushers, level0, gone>>

Flushing == FlushStarts \/ FlushReadsKeys \/ FlushAddsTable \/ FlushClears \/ FlushReleases

WideNext == Flushing \/ \E k \in Keys : Put(k)

\* Faulty: the first version is returned.
GetFirst(k) == IF k \in DOMAIN memtable THEN memtable[k][1] ELSE 0

\* The last version, or 0 for "not found"
Get(k) == IF k \in DOMAIN memtable THEN memtable[k][Len(memtable[k])] ELSE 0

\* Get returns the newest value of a row that no flush has cleared; and every Put is in the
\* memtable or cleared, so that size counts what is there.
GetRight ==
    /\ \A k \in Keys : Get(k) > 0 => \A v \in Elements(memtable[k]) : v <= Get(k)
    /\ \A k \in Keys : Get(k) \notin gone
    /\ gone \cup UNION {Elements(memtable[k]) : k \in DOMAIN memtable} = 1 .. puts
    /\ size = puts - Cardinality(gone)

\* A memtable that is too large is cleared; or no flush is left, as when the one that was
\* to clear it found the flag still held by the last, which had cleared already.
Overfull == size > MaxSize

FlushOver == size = 0 \/ (flush.at = "idle" /\ flushers = 0)
-----------------------------------------------------------------------------
\* Three nodes and the places of the ring; replication 2, as in RunSolution23
RingNodes == {"n0", "n1", "n2"}

Places == 0 .. 3

Replication == 2

\* The ring's keys in order
sortedKeys(r) ==
    LET place[i \in 1 .. Cardinality(DOMAIN r)] ==
            CHOOSE p \in DOMAIN r : Cardinality({q \in DOMAIN r : q < p}) = i - 1
    IN  place

\* The binary search for the first key that is not smaller than hash, 0 after the last
search(keys, hash) ==
    LET bin[left \in 0 .. Len(keys), right \in -1 .. Len(keys)] ==
            IF left > right THEN left % Len(keys)
            ELSE LET mid == (left + right) \div 2
                 IN  IF keys[mid + 1] = hash THEN mid
                     ELSE IF keys[mid + 1] < hash THEN bin[mid + 1, right]
                     ELSE bin[left, mid - 1]
    IN  bin[0, Len(keys) - 1]

\* Faulty: the search runs past the last key.
GetNodesUnwrapped(r, hash, n) ==
    LET keys == sortedKeys(r)
        at(i) == r[keys[search(keys, hash) + i]]
        found[i \in 0 .. Len(keys)] ==
            IF i = 0 THEN <<>>
            ELSE IF search(keys, hash) + i > Len(keys) \/ Len(found[i - 1]) >= n
                    \/ at(i) \in Elements(found[i - 1])
                   THEN found[i - 1]
                   ELSE Append(found[i - 1], at(i))
    IN  found[Len(keys)]

\* The first n nodes that are met from the key on, each once
GetNodes(r, hash, n) ==
    LET keys == sortedKeys(r)
        at(i) == r[keys[((search(keys, hash) + i - 1) % Len(keys)) + 1]]
        found[i \in 0 .. Len(keys)] ==
            IF i = 0 THEN <<>>
            ELSE IF Len(found[i - 1]) >= n \/ at(i) \in Elements(found[i - 1]) THEN found[i - 1]
            ELSE Append(found[i - 1], at(i))
    IN  found[Len(keys)]

Hashes == Places

NoRequest == [at |-> "none", ask |-> {}, errors |-> 0, nodes |-> {}]

\* AddNode has put every node on the ring, at the hashes of its virtual nodes.
RingInit ==
    /\ ring \in {r \in UNION {[d -> RingNodes] : d \in SUBSET Places} : {r[p] : p \in DOMAIN r} = RingNodes}
    /\ created \in BOOLEAN
    /\ status = [n \in RingNodes |-> "active"]
    /\ rows = [n \in RingNodes |-> {}]
    /\ request = [h \in {1} |-> NoRequest]

\* The write of the row that hashes to h
Write(h) ==
    /\ request[h].at = "none"
    /\ LET nodes == Elements(GetNodes(ring, h, Replication))
       IN  request' = [request EXCEPT ![h] =
                          [at |-> "writing", ask |-> nodes, errors |-> 0, nodes |-> nodes]]
    /\ UNCHANGED <<ring, created, status, rows>>

WriteNode(h, n) ==
    /\ request[h].at = "writing" /\ n \in request[h].ask
    /\ IF status[n] = "active"
         THEN /\ rows' = [rows EXCEPT ![n] = @ \cup {h}]
              /\ request' = [request EXCEPT ![h].ask = @ \ {n}]
         ELSE /\ request' = [request EXCEPT ![h].ask = @ \ {n}, ![h].errors = @ + 1]
              /\ UNCHANGED rows
    /\ UNCHANGED <<ring, created, status>>

\* Faulty: the write succeeds whatever the errors.
QuorumAlways(errors) == TRUE

Quorum(errors) == errors <= Replication \div 2

WriteEnds(h) ==
    /\ request[h].at = "writing" /\ request[h].ask = {}
    /\ request' = [request EXCEPT ![h].at = IF Quorum(request[h].errors) THEN "written" ELSE "failed"]
    /\ UNCHANGED <<ring, created, status, rows>>

\* No heartbeat is ever sent: 30 s after the start every node fails, and the rebalancing
\* that this starts moves nothing.
healthCheck(n) ==
    /\ status[n] = "active"
    /\ status' = [status EXCEPT ![n] = "failed"]
    /\ UNCHANGED <<ring, created, rows, request>>

RingNext ==
    \/ \E n \in RingNodes : healthCheck(n)
    \/ \E h \in DOMAIN request : Write(h) \/ WriteEnds(h) \/ \E n \in RingNodes : WriteNode(h, n)

\* Without columns Insert only logs the row.
QueryResult == IF created THEN UNION {rows[n] : n \in {m \in RingNodes : status[m] = "active"}} ELSE {}

\* How far a place is from a hash, clockwise
Distance(hash, p) == (p - hash) % Cardinality(Places)

\* For every ring and hash, GetNodes returns distinct nodes, as many as were asked for,
\* and none that comes later than one it leaves out. A row whose Write
\* succeeded was inserted by at least one of them, and a query finds it as long as one of
\* those is active, provided that the nodes have columns.
RingRight ==
    /\ request = [h \in {1} |-> NoRequest] => \A h \in Hashes : LET found == GetNodes(ring, h, Replication) IN
          /\ Cardinality(Elements(found)) = Len(found)
          /\ Len(found) = Replication
          /\ \A m \in Elements(ring) \ Elements(found) : \A i \in DOMAIN found :
                \A p \in {q \in DOMAIN ring : ring[q] = m} :
                   \E q \in DOMAIN ring : ring[q] = found[i] /\ Distance(h, q) < Distance(h, p)
    /\ \A h \in DOMAIN request : request[h].at = "written" =>
          \E n \in request[h].nodes :
             h \in rows[n] /\ (created /\ status[n] = "active" => h \in QueryResult)
=============================================================================
