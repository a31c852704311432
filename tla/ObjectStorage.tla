---------------------------- MODULE ObjectStorage ----------------------------
(***************************************************************************)
(* solution24: the S3-like store with versions and multipart uploads, the  *)
(* content-addressable store with deduplication, and the distributed store *)
(* with its data and parity chunks.                                        *)
(***************************************************************************)
EXTENDS Integers, FiniteSets, Sequences

CONSTANTS
    MaxOps,       \* bound: calls of Store and Delete
    MaxFailures,  \* bound: nodes that fail
    ShortData,    \* shorter data is not compressed, 100 bytes in the code
    DataChunks, ParityChunks   \* 4 and 2 in the code

VARIABLES
    \* S3CompatibleStorage: one bucket, one key
    versions,     \* of the object, oldest first; none while it does not exist
    totalObjects, totalSize,
    upload,       \* the upload is registered
    parts,        \* part number -> data
    calls,        \* call -> how far it is, what it has put together
    doubled,      \* two calls of CompleteMultipartUpload had found the upload
    \* ContentAddressableStorage
    objects,      \* key -> hash (here the content itself), data, refCount
    index,        \* hash -> keys
    hashIndex,    \* hash -> references of its block
    stored,       \* key -> the content of its last Store
    ops,
    reused,       \* a key has been stored again while it was in use
    crashed,
    \* DistributedObjectStorage: two Puts of the same key
    status,       \* node -> it is active
    chunks,       \* node -> its chunk
    putter,       \* Put -> data, how far each chunk is, the locations, what a chunk's goroutine read
    metadata,     \* of the last Put to end: data (for its checksum) and locations
    together      \* both Puts have been under way at once

s3Vars == <<versions, totalObjects, totalSize, upload, parts, calls, doubled>>
casVars == <<objects, index, hashIndex, stored, ops, reused, crashed>>
distVars == <<status, chunks, putter, metadata, together>>

Without(f, k) == [j \in DOMAIN f \ {k} |-> f[j]]

With(f, k, v) == [j \in DOMAIN f \cup {k} |-> IF j = k THEN v ELSE f[j]]

Empty == [k \in {} |-> 0]
-----------------------------------------------------------------------------
\* Two calls upload part 1, one part 2, two complete the upload, one puts the object.
PartCalls == {"u1", "u1again", "u2"}

PartNumber(c) == IF c = "u2" THEN 2 ELSE 1

CompleteCalls == {"c1", "c2"}

S3Calls == PartCalls \cup CompleteCalls \cup {"put"}

S3Init ==
    /\ versions = <<>> /\ totalObjects = 0 /\ totalSize = 0
    /\ upload = TRUE /\ parts = Empty /\ doubled = FALSE
    /\ calls = [c \in S3Calls |-> [at |-> "new", data |-> <<>>]]

\* Faulty: the previous version stays the latest as well.
AddVersionBeside(vs, data) == Append(vs, [data |-> data, isLatest |-> TRUE])

AddVersion(vs, data) ==
    Append([i \in DOMAIN vs |-> [vs[i] EXCEPT !.isLatest = FALSE]], [data |-> data, isLatest |-> TRUE])

\* The body of PutObject, under the bucket's lock
StoreObject(data) ==
    /\ versions' = AddVersion(versions, data)
    /\ totalObjects' = IF versions = <<>> THEN totalObjects + 1 ELSE totalObjects
    /\ totalSize' = totalSize + Len(data)

PutObject ==
    /\ calls["put"].at = "new"
    /\ StoreObject(<<"put">>)
    /\ calls' = [calls EXCEPT !["put"].at = "done"]
    /\ UNCHANGED <<upload, parts, doubled>>

\* UploadPart and CompleteMultipartUpload look the upload up first, and work on it later.
Lookup(c) ==
    /\ c \in PartCalls \cup CompleteCalls /\ calls[c].at = "new"
    /\ calls' = [calls EXCEPT ![c].at = IF upload THEN "found" ELSE "failed"]
    /\ doubled' = (doubled \/ (upload /\ c \in CompleteCalls
                                /\ \E d \in CompleteCalls \ {c} : calls[d].at \in {"found", "put", "remove"}))
    /\ UNCHANGED <<versions, totalObjects, totalSize, upload, parts>>

UploadPart(c) ==
    /\ c \in PartCalls /\ calls[c].at = "found"
    /\ parts' = With(parts, PartNumber(c), c)
    /\ calls' = [calls EXCEPT ![c].at = "done"]
    /\ UNCHANGED <<versions, totalObjects, totalSize, upload, doubled>>

\* Faulty: the parts in the order of the request, which is 2, 1
InRequestOrder(ps) == <<ps[2], ps[1]>>

InOrder(ps) == <<ps[1], ps[2]>>

CombineParts(c) ==
    /\ c \in CompleteCalls /\ calls[c].at = "found"
    /\ calls' = [calls EXCEPT ![c] = IF {1, 2} \subseteq DOMAIN parts
                                       THEN [at |-> "put", data |-> InOrder(parts)]
                                       ELSE [at |-> "failed", data |-> <<>>]]
    /\ UNCHANGED <<versions, totalObjects, totalSize, upload, parts, doubled>>

PutCombined(c) ==
    /\ c \in CompleteCalls /\ calls[c].at = "put"
    /\ StoreObject(calls[c].data)
    /\ calls' = [calls EXCEPT ![c].at = "remove"]
    /\ UNCHANGED <<upload, parts, doubled>>

RemoveUpload(c) ==
    /\ c \in CompleteCalls /\ calls[c].at = "remove"
    /\ upload' = FALSE
    /\ calls' = [calls EXCEPT ![c].at = "done"]
    /\ UNCHANGED <<versions, totalObjects, totalSize, parts, doubled>>

S3Next ==
    \/ PutObject
    \/ \E c \in S3Calls :
          Lookup(c) \/ UploadPart(c) \/ CombineParts(c) \/ PutCombined(c) \/ RemoveUpload(c)

Combined == {i \in DOMAIN versions : Len(versions[i].data) = 2}

\* The last version, and only this, is marked the latest, the totals count what was put, a
\* combined object has its parts in the order of their numbers, and an upload makes one
\* version, or two if a second call had found it before the first removed it. An upload
\* that is gone has made one.
UploadsRight ==
    /\ \A i \in DOMAIN versions : versions[i].isLatest <=> i = Len(versions)
    /\ totalObjects = IF versions = <<>> THEN 0 ELSE 1
    /\ totalSize = Len(versions) + Cardinality(Combined)
    /\ \A i \in Combined : versions[i].data[1] \in {"u1", "u1again"} /\ versions[i].data[2] = "u2"
    /\ Cardinality(Combined) <= (IF doubled THEN 2 ELSE 1)
    /\ ~upload => Combined # {}
-----------------------------------------------------------------------------
ObjectKeys == {"a", "b"}

\* The second is too long to be left uncompressed.
Contents == {<<1>>, <<2, 3, 4, 5>>}

\* Half of the data is kept ...
compress(data) == IF Len(data) < ShortData THEN data ELSE SubSeq(data, 1, Len(data) \div 2)

\* ... and whatever was kept is read with as many zeroes behind it.
decompress(data) == data \o [i \in DOMAIN data |-> 0]

CASInit ==
    /\ objects = Empty /\ index = Empty /\ hashIndex = Empty /\ stored = Empty
    /\ ops = 0 /\ reused = FALSE /\ crashed = FALSE

\* Same content: a new object with the data of the first key of the index, whatever that
\* key holds now; without that key it is a nil dereference.
StoreDuplicate(k, hash) ==
    LET first == index[hash][1]
    IN  IF first \in DOMAIN objects
          THEN /\ objects' = With([objects EXCEPT ![first].refCount = @ + 1], k,
                                  [hash |-> hash, data |-> objects[first].data, refCount |-> 1])
               /\ index' = [index EXCEPT ![hash] = Append(@, k)]
               /\ UNCHANGED <<hashIndex, crashed>>
          ELSE /\ crashed' = TRUE
               /\ UNCHANGED <<objects, index, hashIndex>>

StoreNew(k, hash) ==
    /\ objects' = With(objects, k, [hash |-> hash, data |-> compress(hash), refCount |-> 1])
    /\ index' = With(index, hash, <<k>>)
    /\ hashIndex' = With(hashIndex, hash, 1)
    /\ UNCHANGED crashed

Store(k, data) ==
    /\ ~crashed /\ ops < MaxOps
    /\ ops' = ops + 1
    /\ IF data \in DOMAIN index THEN StoreDuplicate(k, data) ELSE StoreNew(k, data)
    /\ stored' = With(stored, k, data)
    /\ reused' = (reused \/ k \in DOMAIN objects)

\* Faulty: the key stays in the index.
KeysAll(keys, k) == keys

KeysWithout(keys, k) == SelectSeq(keys, LAMBDA j : j # k)

Delete(k) ==
    /\ ~crashed /\ ops < MaxOps /\ k \in DOMAIN objects
    /\ ops' = ops + 1
    /\ LET hash == objects[k].hash
           left == IF hash \in DOMAIN index THEN KeysWithout(index[hash], k) ELSE <<>>
       IN  /\ hashIndex' = IF objects[k].refCount > 1 \/ hash \notin DOMAIN hashIndex THEN hashIndex
                           ELSE IF hashIndex[hash] > 1 THEN [hashIndex EXCEPT ![hash] = @ - 1]
                           ELSE Without(hashIndex, hash)
           /\ index' = IF left = <<>> THEN Without(index, hash) ELSE [index EXCEPT ![hash] = left]
    /\ objects' = Without(objects, k)
    /\ stored' = Without(stored, k)
    /\ UNCHANGED <<reused, crashed>>

CASNext == \E k \in ObjectKeys : Delete(k) \/ \E data \in Contents : Store(k, data)

Retrieve(k) == decompress(objects[k].data)

\* Until a key is stored again while it is in use: an object has the data of its own
\* content, the index names exactly the keys of a content, each once, and no Store fails.
\* Retrieve then gives short data back with as many zeroes behind it, and half of long data.
ContentRight == reused \/
    /\ ~crashed
    /\ \A k \in DOMAIN objects :
          /\ objects[k].hash = stored[k]
          /\ Retrieve(k) = decompress(compress(stored[k]))
    /\ \A hash \in Contents : {k \in DOMAIN objects : objects[k].hash = hash}
          = IF hash \in DOMAIN index THEN {index[hash][i] : i \in DOMAIN index[hash]} ELSE {}
    /\ \A hash \in DOMAIN index : Cardinality({index[hash][i] : i \in DOMAIN index[hash]}) = Len(index[hash])
-----------------------------------------------------------------------------
Chunks == 0 .. DataChunks + ParityChunks - 1

\* As many nodes as chunks, and the i-th chunk goes to the i-th node.
Puts == {1, 2}

\* Bits for bytes: a chunk is padded with zeroes.
encode(data) ==
    LET size == (Len(data) + DataChunks - 1) \div DataChunks
        byte(i) == IF i <= Len(data) THEN data[i] ELSE 0
        dataChunk(c) == [i \in 1 .. size |-> byte(c * size + i)]
        ones(i) == Cardinality({c \in 0 .. DataChunks - 1 : dataChunk(c)[i] = 1})
    IN  [c \in Chunks |-> IF c < DataChunks THEN dataChunk(c) ELSE [i \in 1 .. size |-> ones(i) % 2]]

\* The data chunks that were found, one after the other; parity is not used.
decode(found) ==
    LET upTo[n \in 0 .. DataChunks] ==
            IF n = 0 THEN <<>>
            ELSE upTo[n - 1] \o (IF n - 1 \in DOMAIN found THEN found[n - 1] ELSE <<>>)
    IN  upTo[DataChunks]

\* The first does not fill its chunks, the second does.
Inputs == <<<<1>>, <<0, 1>>>>

NoMetadata == [data |-> <<>>, locations |-> {}]

DistInit ==
    /\ status = [c \in Chunks |-> TRUE]
    /\ chunks = Empty
    /\ putter = [p \in Puts |->
          [data |-> Inputs[p], at |-> "new", chunk |-> [c \in Chunks |-> "new"],
           locations |-> {}, read |-> Empty]]
    /\ metadata = NoMetadata
    /\ together = FALSE

\* selectNodes tries as many nodes as there are chunks: each of them must be active.
Put(p) ==
    /\ putter[p].at = "new"
    /\ putter' = [putter EXCEPT ![p].at = IF \A c \in Chunks : status[c] THEN "store" ELSE "failed"]
    /\ together' = (together \/ \E q \in Puts : putter[q].at = "store")
    /\ UNCHANGED <<status, chunks, metadata>>

\* A chunk's goroutine stores it under the node's lock and then appends to locations with
\* none: it may write back a slice that it read before another one's append.
PutChunk(p, c) ==
    /\ putter[p].at = "store" /\ putter[p].chunk[c] = "new"
    /\ chunks' = With(chunks, c, encode(putter[p].data)[c])
    /\ putter' = [putter EXCEPT ![p].chunk[c] = "append", ![p].read = With(@, c, putter[p].locations)]
    /\ UNCHANGED <<status, metadata, together>>

AppendLocation(p, c) ==
    /\ putter[p].at = "store" /\ putter[p].chunk[c] = "append"
    /\ putter' = [putter EXCEPT ![p].chunk[c] = "done", ![p].locations = putter[p].read[c] \cup {c},
                                ![p].read = Without(@, c)]
    /\ UNCHANGED <<status, chunks, metadata, together>>

PutMetadata(p) ==
    /\ putter[p].at = "store" /\ \A c \in Chunks : putter[p].chunk[c] = "done"
    /\ metadata' = [data |-> putter[p].data, locations |-> putter[p].locations]
    /\ putter' = [putter EXCEPT ![p].at = "done"]
    /\ UNCHANGED <<status, chunks, together>>

NodeFails(c) ==
    /\ status[c] /\ Cardinality({d \in Chunks : ~status[d]}) < MaxFailures
    /\ status' = [status EXCEPT ![c] = FALSE]
    /\ UNCHANGED <<chunks, putter, metadata, together>>

DistNext ==
    \/ \E c \in Chunks : NodeFails(c)
    \/ \E p \in Puts :
          \/ Put(p) \/ PutMetadata(p)
          \/ \E c \in Chunks : PutChunk(p, c) \/ AppendLocation(p, c)

\* Faulty: the checksum is not compared.
Verified(data, meta) == TRUE

ChecksumMatches(data, meta) == data = meta.data

\* Stands for Get's errors: no data that is put is empty.
NotRead == <<>>

Get ==
    LET found == [c \in {d \in metadata.locations : status[d]} |-> chunks[c]]
    IN  IF ChecksumMatches(decode(found), metadata) THEN decode(found) ELSE NotRead

\* No Put is under way, and never were two
Alone == ~together /\ \A p \in Puts : putter[p].at # "store"

\* Get never returns anything but what was put: whatever nodes have failed and whatever two
\* Puts at once have mixed up, the checksum finds it. And it does return what was put when no
\* Put is under way and never were two at once, the data fills its chunks, no append of a
\* location was lost and the nodes of the data chunks are active.
ReadsExact == metadata # NoMetadata =>
    LET dataFound == \A c \in 0 .. DataChunks - 1 : c \in metadata.locations /\ status[c]
    IN  /\ Get \in {NotRead, metadata.data}
        /\ Alone /\ dataFound /\ Len(metadata.data) % DataChunks = 0 => Get = metadata.data

\* "Distributed object storage with erasure coding", "for fault tolerance": as many nodes as
\* there are parity chunks may fail, and what a Put alone has stored in full is still read.
FaultTolerant ==
    metadata # NoMetadata /\ Alone /\ metadata.locations = Chunks
      /\ Len(metadata.data) % DataChunks = 0
      /\ Cardinality({c \in Chunks : ~status[c]}) <= ParityChunks
    => Get = metadata.data
=============================================================================
