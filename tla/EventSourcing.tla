--------------------------- MODULE EventSourcing ----------------------------
(***************************************************************************)
(* Challenge 13, solutions/challenge13_solution.go: the event store with   *)
(* snapshots and the order projections, run one after the other. Their     *)
(* variables are apart.                                                    *)
(***************************************************************************)
EXTENDS Integers, FiniteSets, Sequences, FiniteSetsExt, SequencesExt

CONSTANTS
    Streams,
    snapshotInterval,
    MaxEvents,                   \* bounds the events appended
    MaxPublished                 \* bounds the events published

VARIABLES
    stream,                      \* stream -> its events
    snapshots,                   \* stream -> version and state of its snapshot; version 0 if none
    globalVersion,
    published,                   \* the write model
    updating,                    \* positions of events whose goroutine has not updated yet
    summary,                     \* Status, ItemCount and TotalAmount of the order
    orderCount,                  \* of the customer's view
    beside                       \* two updates were outstanding at once, a history

(***************************************************************************)
(* solution1_EventStoreWithSnapshot of solutions/challenge13_solution.go:  *)
(* events are appended to streams, every snapshotInterval-th one makes a   *)
(* snapshot, and getStream answers with the snapshot and what follows it.  *)
(* Both hold the store's lock. An event is its global version.             *)
(***************************************************************************)

snapshotVars == <<stream, snapshots, globalVersion>>

Snapshot(version, state) == [version |-> version, state |-> state]

SnapshotTypeOK ==
    /\ \A s \in Streams : Range(stream[s]) \subseteq 1 .. MaxEvents
    /\ snapshots \in [Streams -> [version : 0 .. MaxEvents, state : 0 .. MaxEvents]]
    /\ globalVersion \in 0 .. MaxEvents

SnapshotInit ==
    /\ stream = [s \in Streams |-> <<>>]
    /\ snapshots = [s \in Streams |-> Snapshot(0, 0)]
    /\ globalVersion = 0
-----------------------------------------------------------------------------
\* (streamVersion+1) % store.snapshotInterval == 0
SnapshotDue(version) == version % snapshotInterval = 0

AppendEvent(s) ==
    /\ globalVersion < MaxEvents
    /\ globalVersion' = globalVersion + 1
    /\ stream' = [stream EXCEPT ![s] = Append(@, globalVersion')]
    /\ snapshots' =
          IF SnapshotDue(Len(stream'[s]))
            THEN [snapshots EXCEPT ![s] = Snapshot(Len(stream'[s]), globalVersion')]
            ELSE snapshots

SnapshotNext == \E s \in Streams : AppendEvent(s)

-----------------------------------------------------------------------------
Events(s, from) == SubSeq(stream[s], from + 1, Len(stream[s]))

\* Faulty GetStream: the event of the snapshot is replayed on top of it.
GetStreamOverlap(s, from) ==
    IF snapshots[s].version > from
      THEN [snapshot |-> snapshots[s], events |-> Events(s, snapshots[s].version - 1)]
      ELSE [snapshot |-> Snapshot(0, 0), events |-> Events(s, from)]

\* getStream
GetStream(s, from) ==
    IF snapshots[s].version > from
      THEN [snapshot |-> snapshots[s], events |-> Events(s, snapshots[s].version)]
      ELSE [snapshot |-> Snapshot(0, 0), events |-> Events(s, from)]

\* What getStream answers goes on exactly where the snapshot, or the caller, stands: no
\* event between them is missing and none comes twice; fewer than an interval follow a
\* snapshot; and the snapshot holds what its last event said.
StreamRebuilds ==
    \A s \in Streams : \A from \in 0 .. Len(stream[s]) :
        LET answer == GetStream(s, from)
            known == IF answer.snapshot.version > 0 THEN answer.snapshot.version ELSE from
        IN  /\ known >= from
            /\ SubSeq(stream[s], 1, known) \o answer.events = stream[s]
            /\ known = answer.snapshot.version =>
                  /\ Len(answer.events) < snapshotInterval
                  /\ known > 0 => stream[s][known] = answer.snapshot.state

(***************************************************************************)
(* solution2_ProjectionSeparation of solutions/challenge13_solution.go:    *)
(* publishEvent appends to the write model and starts a goroutine that     *)
(* updates the projections, so updates come in any order. One order of one *)
(* customer; an item's amount is its position in the write model.          *)
(***************************************************************************)

Types == {"OrderCreated", "ItemAdded", "OrderShipped"}

projectionVars == <<published, updating, summary, orderCount, beside>>

Summary(status, items, amount) == [status |-> status, items |-> items, amount |-> amount]

ProjectionTypeOK ==
    /\ \A i \in DOMAIN published : published[i] \in Types
    /\ updating \subseteq DOMAIN published
    /\ summary.status \in {"", "Created", "Shipped"}
    /\ summary.items \in 0 .. MaxPublished /\ summary.amount \in Nat
    /\ orderCount \in 0 .. MaxPublished
    /\ beside \in BOOLEAN

ProjectionInit ==
    /\ published = <<>>
    /\ updating = {}
    /\ summary = Summary("", 0, 0)
    /\ orderCount = 0
    /\ beside = FALSE
-----------------------------------------------------------------------------
publishEvent(type) ==
    /\ Len(published) < MaxPublished
    /\ published' = Append(published, type)
    /\ updating' = updating \cup {Len(published')}
    /\ beside' = (beside \/ updating # {})
    /\ UNCHANGED <<summary, orderCount>>

\* Faulty Updated: every event begins a new summary.
UpdatedAnew(s, type, amount) ==
    CASE type = "OrderCreated" -> Summary("Created", 0, 0)
      [] type = "ItemAdded" -> Summary("", 1, amount)
      [] type = "OrderShipped" -> Summary("Shipped", 0, 0)

Updated(s, type, amount) ==
    CASE type = "OrderCreated" -> Summary("Created", s.items, s.amount)
      [] type = "ItemAdded" -> Summary(s.status, s.items + 1, s.amount + amount)
      [] type = "OrderShipped" -> Summary("Shipped", s.items, s.amount)

\* updateProjections, under the read model's lock. Only OrderCreated names the customer.
updateProjections(i) ==
    /\ updating' = updating \ {i}
    /\ summary' = Updated(summary, published[i], i)
    /\ orderCount' = IF published[i] = "OrderCreated" THEN orderCount + 1 ELSE orderCount
    /\ UNCHANGED <<published, beside>>

ProjectionNext == (\E type \in Types : publishEvent(type)) \/ (\E i \in updating : updateProjections(i))

-----------------------------------------------------------------------------
Applied(types) == {i \in DOMAIN published \ updating : published[i] \in types}

StatusOf(type) == IF type = "OrderCreated" THEN "Created" ELSE "Shipped"

\* Counts and amounts are those of the updates that have run, in whatever order they ran;
\* the status is that of the last event that sets one, provided the updates never ran
\* side by side.
ProjectionsMatch ==
    /\ summary.items = Cardinality(Applied({"ItemAdded"}))
    /\ summary.amount = SumSet(Applied({"ItemAdded"}))
    /\ orderCount = Cardinality(Applied({"OrderCreated"}))
    /\ LET setting == Applied({"OrderCreated", "OrderShipped"})
       IN  ~beside /\ setting # {} => summary.status = StatusOf(published[Max(setting)])
=============================================================================
