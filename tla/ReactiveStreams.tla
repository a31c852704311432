--------------------------- MODULE ReactiveStreams ---------------------------
(***************************************************************************)
(* challenges/challenge30_reactive_streams.go: one subscription of a       *)
(* FlowablePublisher, directly or through an operator, with its emitter,   *)
(* its Requests and the goroutines that drain its buffer. Hot and cold     *)
(* publishers run the same code: a source of its own for each subscriber.  *)
(***************************************************************************)
EXTENDS Integers, FiniteSets, Sequences

CONSTANTS
    StreamBuffer,   \* capacity of subscription.buffer, 100 in the code
    MaxItems,       \* the source emits 1..MaxItems
    MaxDrains,      \* calls of Request
    IntMax          \* the largest int64, an odd number

VARIABLES
    operator,       \* "none", "map", "filter" or "merge"
    source,         \* what the source does: "items", "error" (one, then an item more), "errors" (two)
    emitted,        \* steps of the source so far
    itemBuffer, errorBuffer,
    droppedItems,   \* buffer full
    requested,      \* int64
    drain,          \* drain goroutine -> NotBegun, Ended, InLoop, or what it took: an item, Failure
    received,       \* what OnNext of the TestSubscriber got, in order
    errors,         \* how many errors OnError got
    unsubscribed,   \* cancelled
    complete,       \* emitter.completed
    together        \* two drains were active at once

streamVars ==
    <<operator, source, emitted, itemBuffer, errorBuffer, droppedItems, requested, drain,
      received, errors, unsubscribed, complete, together>>

Drains == 1..MaxDrains

NotBegun == -3

Ended == -2

Failure == -1

InLoop == 0

Script ==
    LET items == [i \in 1..MaxItems |-> i]
    IN CASE source = "items" -> items
         [] source = "error" -> Append(SubSeq(items, 1, MaxItems - 1), Failure) \o <<MaxItems>>
         [] source = "errors" -> <<1, Failure, Failure>>

StreamInit ==
    /\ operator \in {"none", "map", "filter", "merge"}
    /\ source \in {"items", "error", "errors"}
    /\ emitted = 0
    /\ itemBuffer = <<>> /\ errorBuffer = <<>>
    /\ droppedItems = {}
    /\ requested = 0
    /\ drain = [d \in Drains |-> NotBegun]
    /\ received = <<>> /\ errors = 0
    /\ unsubscribed = FALSE /\ complete = FALSE
    /\ together = FALSE

Active(d) == drain[d] \notin {NotBegun, Ended}

Holds(d) == drain[d] > 0 \/ drain[d] = Failure

AddInt64(x, n) == ((x + n + IntMax + 1) % (2 * IntMax + 2)) - IntMax - 1

Fixed == UNCHANGED <<operator, source>>

\* OnSubscribe of the subscriber asks for everything before the source starts; the one of a
\* merge only notes the subscription, and nobody gets hold of it. Later calls are the user's.
Request(n) ==
    /\ operator # "merge"
    /\ \E d \in Drains :
         /\ drain[d] = NotBegun /\ \A c \in 1..(d - 1) : drain[c] # NotBegun
         /\ n = IF d = 1 THEN IntMax ELSE 1
         /\ drain' = [drain EXCEPT ![d] = InLoop]
         /\ together' = (together \/ \E c \in Drains : Active(c))
    /\ requested' = AddInt64(requested, n)
    /\ UNCHANGED <<emitted, itemBuffer, errorBuffer, droppedItems, received, errors, unsubscribed, complete>> /\ Fixed

Subscribed == operator = "merge" \/ drain[1] # NotBegun

NotDrained == UNCHANGED <<requested, drain, received, errors, unsubscribed, together>>

\* Faulty: the oldest item makes room.
NextShifting(item) ==
    IF Len(itemBuffer) < StreamBuffer
    THEN itemBuffer' = Append(itemBuffer, item) /\ UNCHANGED droppedItems
    ELSE itemBuffer' = Append(Tail(itemBuffer), item) /\ UNCHANGED droppedItems

\* Whether the subscription is cancelled or not; dropped without a word when it is full.
EmitterNext(item) ==
    IF Len(itemBuffer) < StreamBuffer
    THEN itemBuffer' = Append(itemBuffer, item) /\ UNCHANGED droppedItems
    ELSE droppedItems' = droppedItems \cup {item} /\ UNCHANGED itemBuffer

\* Blocks while the last error has not been drained.
EmitterError ==
    /\ errorBuffer = <<>>
    /\ errorBuffer' = <<Failure>>

Emit ==
    /\ Subscribed /\ emitted < Len(Script)
    /\ emitted' = emitted + 1
    /\ IF Script[emitted + 1] = Failure
       THEN EmitterError /\ UNCHANGED <<itemBuffer, droppedItems>>
       ELSE EmitterNext(Script[emitted + 1]) /\ UNCHANGED errorBuffer
    /\ UNCHANGED complete /\ NotDrained /\ Fixed

\* The mark that no drain looks at.
Complete ==
    /\ source = "items" /\ emitted = Len(Script) /\ ~complete
    /\ complete' = TRUE
    /\ UNCHANGED <<emitted, itemBuffer, errorBuffer, droppedItems>> /\ NotDrained /\ Fixed

Cancel ==
    /\ ~unsubscribed /\ drain[1] # NotBegun
    /\ unsubscribed' = TRUE
    /\ UNCHANGED <<emitted, itemBuffer, errorBuffer, droppedItems, requested, drain, received,
                   errors, complete, together>> /\ Fixed

\* One turn of the loop of drain: an item, an error, or the end if there is neither.
DrainTakes(d) ==
    /\ drain[d] = InLoop
    /\ \/ /\ itemBuffer # <<>>
          /\ drain' = [drain EXCEPT ![d] = Head(itemBuffer)]
          /\ itemBuffer' = Tail(itemBuffer) /\ UNCHANGED errorBuffer
       \/ /\ errorBuffer # <<>>
          /\ drain' = [drain EXCEPT ![d] = Failure]
          /\ errorBuffer' = <<>> /\ UNCHANGED itemBuffer
       \/ /\ itemBuffer = <<>> /\ errorBuffer = <<>>
          /\ drain' = [drain EXCEPT ![d] = Ended]
          /\ UNCHANGED <<itemBuffer, errorBuffer>>
    /\ UNCHANGED <<emitted, droppedItems, requested, received, errors, unsubscribed, complete, together>> /\ Fixed

\* Faulty: the filter lets the odd ones through.
OnNextOdd(item) ==
    CASE operator = "map" -> <<item * 2>>
      [] operator = "filter" -> IF item % 2 = 1 THEN <<item>> ELSE <<>>
      [] OTHER -> <<item>>

\* Through MapSubscriber or FilterSubscriber, if there is one.
OnNext(item) ==
    CASE operator = "map" -> <<item * 2>>
      [] operator = "filter" -> IF item % 2 = 0 THEN <<item>> ELSE <<>>
      [] OTHER -> <<item>>

DrainDelivers(d) ==
    /\ Holds(d)
    /\ IF drain[d] = Failure
       THEN errors' = errors + 1 /\ UNCHANGED received
       ELSE received' = received \o OnNext(drain[d]) /\ UNCHANGED errors
    /\ drain' = [drain EXCEPT ![d] = InLoop]
    /\ UNCHANGED <<emitted, itemBuffer, errorBuffer, droppedItems, requested, unsubscribed, complete, together>> /\ Fixed

StreamNext ==
    \/ \E n \in {1, IntMax} : Request(n)
    \/ Emit \/ Complete \/ Cancel
    \/ \E d \in Drains : DrainTakes(d) \/ DrainDelivers(d)
-----------------------------------------------------------------------------
Passed == {Script[i] : i \in 1..emitted} \ {Failure}

InFlight == {drain[d] : d \in {x \in Drains : Holds(x)}} \ {Failure}

Kept == (Passed \ droppedItems) \ ({itemBuffer[i] : i \in DOMAIN itemBuffer} \cup InFlight)

Arrived == {i \in Kept : operator = "filter" => i % 2 = 0}

Image(i) == IF operator = "map" THEN i + i ELSE i

Increasing(s) == \A i \in 1..(Len(s) - 1) : s[i] < s[i + 1]

\* What the source emitted and the buffer took arrives once, transformed by the operator,
\* unless it is still buffered; a merge delivers nothing. It arrives in order as long as no
\* two Requests drained at once, and every error that was emitted is either delivered or
\* waits. A second Request makes the count of a subscriber that asked for everything
\* negative.
StreamsRight ==
    /\ {received[i] : i \in DOMAIN received} = {Image(i) : i \in Arrived}
    /\ Len(received) = Cardinality(Arrived)
    /\ ~together => Increasing(received)
    /\ operator = "merge" => received = <<>> /\ errors = 0
    /\ Cardinality({i \in 1..emitted : Script[i] = Failure})
         = errors + Len(errorBuffer) + Cardinality({d \in Drains : drain[d] = Failure})
    /\ requested < 0 <=> Cardinality({d \in Drains : drain[d] # NotBegun}) > 1
=============================================================================
