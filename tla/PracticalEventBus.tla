-------------------------- MODULE PracticalEventBus --------------------------
(***************************************************************************)
(* practical/event_bus_example.go: publishers behind a circuit breaker, a  *)
(* buffered channel, a worker, and the subscribers of one event type and   *)
(* of the wildcard, each called in a goroutine of its own.                 *)
(***************************************************************************)
EXTENDS Integers, FiniteSets, Sequences

CONSTANTS
    MaxEvents,     \* one Publish each
    BufferSize,    \* of the channel, 10000 in the code
    maxFailures    \* of the breaker, 5 in the code

VARIABLES
    publish,       \* event -> how far its Publish is
    breaker,       \* state, failures
    cooled,        \* cooldown has passed since lastFailure
    buffer,        \* the channel
    closed,        \* Shutdown has closed it
    slots,         \* the array behind subscribers[type]
    count,         \* how many of its slots are subscribers
    joining,       \* the priority of the subscriber that is still to come, or "done"
    worker,        \* the event it processes, where it is, the array it looks at
    running,       \* how many goroutines of its subscribers run
    served,        \* the subscribers its event was given to, in order
    disturbed,     \* what a Subscribe at the same time has spoilt: nothing, the event, the array
    totalEvents, processedEvents,
    opened,        \* the breaker has been open
    panicked

busVars ==
    <<publish, breaker, cooled, buffer, closed, slots, count, joining, worker, running, served,
      disturbed, totalEvents, processedEvents, opened, panicked>>

EventIDs == 1..MaxEvents

\* Three subscribers, so that append has made room for a fourth.
Registered == <<"s1", "s2", "s3">>

IdleWorker == [event |-> 0, at |-> "receive", len |-> 0, next |-> 1]

\* A Subscribe at the same time is looked at with one event less.
BusInit ==
    /\ joining \in {"high", "low", "done"}
    /\ publish = [e \in EventIDs |-> IF e < MaxEvents \/ joining = "done" THEN "allow" ELSE "none"]
    /\ breaker = [state |-> "closed", failures |-> 0] /\ cooled = FALSE
    /\ buffer = <<>> /\ closed = FALSE
    /\ slots = Append(Registered, "none") /\ count = 3
    /\ worker = IdleWorker /\ running = 0
    /\ served = <<>> /\ disturbed = "nothing"
    /\ totalEvents = 0 /\ processedEvents = 0
    /\ opened = FALSE /\ panicked = FALSE

Goes(e, step) == publish' = [publish EXCEPT ![e] = step]

NotSubscribers == UNCHANGED <<slots, count, joining, worker, running, served, disturbed, processedEvents>>
-----------------------------------------------------------------------------
\* Publish counts the event before it waits for the channel.
Passes(e) == Goes(e, "send") /\ totalEvents' = totalEvents + 1

\* Faulty: off by one.
RejectsLater == breaker.state = "half-open" /\ breaker.failures > maxFailures \div 2

\* In half-open, limited traffic.
Rejects == breaker.state = "half-open" /\ breaker.failures >= maxFailures \div 2

\* The events are alike: they are numbered as their Publish begins. The read lock is given up before the write lock is taken.
Allow(e) ==
    /\ publish[e] = "allow" /\ \A d \in 1..(e - 1) : publish[d] # "allow"
    /\ \/ breaker.state = "open" /\ Goes(e, IF cooled THEN "upgrade" ELSE "rejected") /\ UNCHANGED totalEvents
       \/ Rejects /\ Goes(e, "rejected") /\ UNCHANGED totalEvents
       \/ breaker.state # "open" /\ ~Rejects /\ Passes(e)
    /\ UNCHANGED <<breaker, cooled, buffer, closed, opened, panicked>> /\ NotSubscribers

\* Faulty: it closes the breaker.
AllowUpgradeCloses(e) ==
    /\ publish[e] = "upgrade"
    /\ breaker' = [state |-> "closed", failures |-> 0]
    /\ Passes(e)
    /\ UNCHANGED <<cooled, buffer, closed, opened, panicked>> /\ NotSubscribers

\* ... and what was seen is not looked at again.
AllowUpgrade(e) ==
    /\ publish[e] = "upgrade"
    /\ breaker' = [state |-> "half-open", failures |-> 0]
    /\ Passes(e)
    /\ UNCHANGED <<cooled, buffer, closed, opened, panicked>> /\ NotSubscribers

\* Failures beyond the limit are all alike.
RecordFailure ==
    /\ breaker' = [state |-> IF breaker.failures + 1 >= maxFailures THEN "open" ELSE breaker.state,
                   failures |-> IF breaker.failures < maxFailures THEN breaker.failures + 1 ELSE maxFailures]
    /\ cooled' = FALSE
    /\ opened' = (opened \/ breaker.failures + 1 >= maxFailures)

\* Sending on the closed channel panics.
Send(e) ==
    /\ publish[e] = "send"
    /\ \/ closed /\ panicked' = TRUE /\ Goes(e, "panicked") /\ UNCHANGED buffer
       \/ ~closed /\ Len(buffer) < BufferSize
          /\ buffer' = Append(buffer, e) /\ Goes(e, "sent") /\ UNCHANGED panicked
    /\ UNCHANGED <<breaker, cooled, closed, totalEvents, opened>> /\ NotSubscribers

SendTimeout(e) ==
    /\ publish[e] = "send" /\ ~closed /\ Len(buffer) = BufferSize
    /\ RecordFailure
    /\ Goes(e, "timeout")
    /\ UNCHANGED <<buffer, closed, totalEvents, panicked>> /\ NotSubscribers

\* The caller's context is done first.
PublishCancelled(e) ==
    /\ publish[e] = "send" /\ ~closed
    /\ Goes(e, "cancelled")
    /\ UNCHANGED <<breaker, cooled, buffer, closed, totalEvents, opened, panicked>> /\ NotSubscribers

Cooldown ==
    /\ ~cooled /\ breaker.state = "open"
    /\ cooled' = TRUE
    /\ UNCHANGED <<publish, breaker, buffer, closed, totalEvents, opened, panicked>> /\ NotSubscribers

Shutdown ==
    /\ ~closed /\ \A e \in EventIDs : publish[e] # "allow"
    /\ closed' = TRUE
    /\ UNCHANGED <<publish, breaker, cooled, buffer, totalEvents, opened, panicked>> /\ NotSubscribers
-----------------------------------------------------------------------------
NotPublishers == UNCHANGED <<publish, closed, totalEvents, panicked>>

NotBreaker == UNCHANGED <<breaker, cooled, opened>>

\* The array has room: a subscriber of high priority moves the others up in place.
Subscribe ==
    /\ ~panicked /\ joining # "done"
    /\ slots' = IF joining = "high" THEN <<"new">> \o SubSeq(slots, 1, 3)
                ELSE [slots EXCEPT ![4] = "new"]
    /\ count' = 4
    /\ joining' = "done"
    /\ disturbed' = CASE worker.at = "wildcard" -> "array"
                      [] worker.at = "start" -> "event"
                      [] OTHER -> "nothing"
    /\ UNCHANGED <<worker, running, served, processedEvents, buffer>> /\ NotPublishers /\ NotBreaker

WorkerReceives ==
    /\ ~panicked /\ worker.at = "receive" /\ buffer # <<>>
    /\ worker' = [event |-> Head(buffer), at |-> "wildcard", len |-> count, next |-> 1]
    /\ buffer' = Tail(buffer)
    /\ UNCHANGED <<slots, count, joining, running, served, disturbed, processedEvents>> /\ NotPublishers /\ NotBreaker

\* The wildcard subscriber is appended to the same array if it has room, else to a copy.
AppendWildcard ==
    /\ ~panicked /\ worker.at = "wildcard"
    /\ slots' = IF worker.len = 3 THEN [slots EXCEPT ![4] = "wild"] ELSE slots
    /\ worker' = [worker EXCEPT !.at = "start", !.len = @ + 1]
    /\ UNCHANGED <<count, joining, running, served, disturbed, processedEvents, buffer>>
    /\ NotPublishers /\ NotBreaker

\* A goroutine for every subscriber of the slice, read one by one. A copy has the slots as
\* they are, since nothing changes them after the fourth subscriber.
StartHandler ==
    /\ ~panicked /\ worker.at = "start" /\ worker.next <= worker.len
    /\ running' = running + 1
    /\ served' = Append(served, IF worker.next = 5 THEN "wild" ELSE slots[worker.next])
    /\ worker' = [worker EXCEPT !.next = @ + 1]
    /\ UNCHANGED <<slots, count, joining, disturbed, processedEvents, buffer>>
    /\ NotPublishers /\ NotBreaker

\* All its retries have failed, or panicked.
HandlerFails ==
    /\ ~panicked /\ running > 0
    /\ running' = running - 1
    /\ RecordFailure
    /\ UNCHANGED <<slots, count, joining, worker, served, disturbed, processedEvents, buffer>>
    /\ NotPublishers

HandlerSucceeds ==
    /\ ~panicked /\ running > 0
    /\ running' = running - 1
    /\ UNCHANGED <<slots, count, joining, worker, served, disturbed, processedEvents, buffer>>
    /\ NotPublishers /\ NotBreaker

\* Faulty: it does not wait for the subscribers.
WorkerEndsAtOnce ==
    /\ ~panicked /\ worker.at = "start" /\ worker.next > worker.len
    /\ worker' = IdleWorker
    /\ served' = <<>>
    /\ disturbed' = IF disturbed = "event" THEN "nothing" ELSE disturbed
    /\ processedEvents' = processedEvents + 1
    /\ UNCHANGED <<slots, count, joining, running, buffer>> /\ NotPublishers /\ NotBreaker

WorkerEnds ==
    /\ ~panicked /\ worker.at = "start" /\ worker.next > worker.len /\ running = 0
    /\ worker' = IdleWorker
    /\ served' = <<>>
    /\ disturbed' = IF disturbed = "event" THEN "nothing" ELSE disturbed
    /\ processedEvents' = processedEvents + 1
    /\ UNCHANGED <<slots, count, joining, running, buffer>> /\ NotPublishers /\ NotBreaker

Working ==
    \/ WorkerReceives \/ AppendWildcard \/ StartHandler \/ HandlerFails \/ HandlerSucceeds \/ WorkerEnds

BusNext ==
    \/ Working \/ Subscribe \/ Cooldown \/ Shutdown
    \/ \E e \in EventIDs : Allow(e) \/ AllowUpgrade(e) \/ Send(e) \/ SendTimeout(e)
                        \/ PublishCancelled(e)
-----------------------------------------------------------------------------
\* Once open the breaker is never closed again (nothing calls RecordSuccess), and it is
\* open when there were as many failures as it takes since it last let a call through. The
\* counters tell the events that were sent from those that are done. An event goes to every
\* subscriber and to the wildcard once, unless a Subscribe came while the worker read the
\* array they share, and the array keeps every subscriber, unless one came between the
\* worker's lookup and its append, which then overwrites the last of them for good. Only Shutdown makes Publish panic.
EventBusRight ==
    /\ opened => breaker.state # "closed"
    /\ breaker.failures >= maxFailures => breaker.state = "open"
    /\ totalEvents = Cardinality({e \in EventIDs : publish[e] \notin {"none", "allow", "upgrade", "rejected"}})
    /\ processedEvents + Len(buffer) + (IF worker.event = 0 THEN 0 ELSE 1) = Cardinality({e \in EventIDs : publish[e] = "sent"})
    /\ worker.at = "receive" => running = 0
    /\ panicked => closed
    /\ worker.at = "start" /\ worker.next > worker.len /\ disturbed = "nothing" =>
          LET subs == {served[i] : i \in DOMAIN served}
          IN  Cardinality(subs) = Len(served) /\ {"s1", "s2", "s3", "wild"} \subseteq subs
    /\ disturbed # "array" =>
          {slots[i] : i \in 1..count} = {"s1", "s2", "s3"} \cup (IF count = 4 THEN {"new"} ELSE {})

\* The half-open breaker lets nobody through, and nothing is left that could open it.
BreakerStuck ==
    /\ breaker.state = "half-open" /\ breaker.failures >= maxFailures \div 2
    /\ worker.at = "receive" /\ buffer = <<>>
    /\ \A e \in EventIDs : publish[e] \notin {"upgrade", "send"}

\* A breaker in that state stays in it: the bus takes no event any more, for as long as it runs.
StaysStuck == BreakerStuck => BreakerStuck'

\* Shutdown or not, only a panic ends the program before what was sent is processed.
Sent(e) == publish[e] = "sent"

Processed(e) == panicked \/ (worker.event # e /\ \A i \in DOMAIN buffer : buffer[i] # e)
=============================================================================
