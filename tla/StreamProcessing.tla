-------------------------- MODULE StreamProcessing --------------------------
(***************************************************************************)
(* Challenge 16, solutions/challenge16_solution.go: windows, watermarks    *)
(* and checkpoints, run one after the other by                             *)
(* Challenge16_StreamProcessingSolution. Their variables are apart.        *)
(***************************************************************************)
EXTENDS Integers, FiniteSets, Sequences, FiniteSetsExt, SequencesExt

CONSTANTS
    Events,                      \* calls of addEvent
    MaxStamp,                    \* timestamps are 0 .. MaxStamp
    MaxTime,                     \* and the current time is at most this
    maxEvents,                   \* of a window, 1000 in the code
    None,
    MarkEvents,                  \* calls of processEvent
    Updates,                     \* calls of updateWatermark
    start,                       \* time.Now() as the processor is made
    MaxMark,                     \* times are 0 .. MaxTime
    allowedLateness,
    MaxOffset,                   \* events are numbered by their offset
    maxHistory,
    MaxSteps                     \* bounds the events processed and checkpoints made, counted together

VARIABLES
    windows,                     \* window key -> the window's pointer, or None
    objects,                     \* the windows made, by pointer
    closedKeys,                  \* how often closedWindows lists a key
    eventPc,                     \* event -> where its addEvent is
    stamp,                       \* event -> its timestamp, None before the call
    ptr,                         \* event -> the window it was given, or None
    watermark,
    time,                        \* call -> its event time, None before the call
    loaded,                      \* call -> the watermark it has loaded, or None
    result,                      \* call -> None while it runs; how it classified its event, or "updated"
    highest,                     \* the highest watermark so far, a history
    current,                     \* currentCheckpoint
    history,                     \* checkpointHistory
    processedCount,
    steps

(***************************************************************************)
(* solution1_WindowManagement of solutions/challenge16_solution.go: events *)
(* go to the window of their timestamp, which getOrCreateWindow hands out  *)
(* as a pointer; closeAndEvictOldWindows closes old windows and removes    *)
(* still older ones. addEvent uses the pointer after the manager's lock    *)
(* was given back. Times are counted in halves of a window.                *)
(***************************************************************************)

windowVars == <<windows, objects, closedKeys, eventPc, stamp, ptr>>

windowDuration == 2

Stamps == 0 .. MaxStamp

Key(t) == t \div windowDuration

Keys == 0 .. Key(MaxStamp)

End(key) == (key + 1) * windowDuration

Pointers == 1 .. Cardinality(Events)

WindowTypeOK ==
    /\ windows \in [Keys -> Pointers \cup {None}]
    /\ DOMAIN objects \subseteq Pointers
    /\ \A p \in DOMAIN objects :
          objects[p] \in [key : Keys, events : SUBSET Events, closed : BOOLEAN,
                          count : 0 .. maxEvents]
    /\ closedKeys \in [Keys -> 0 .. Cardinality(Events)]
    /\ eventPc \in [Events -> {"idle", "create", "append", "added", "refused"}]
    /\ stamp \in [Events -> Stamps \cup {None}]
    /\ ptr \in [Events -> Pointers \cup {None}]

WindowInit ==
    /\ windows = [k \in Keys |-> None]
    /\ objects = [p \in {} |-> None]
    /\ closedKeys = [k \in Keys |-> 0]
    /\ eventPc = [e \in Events |-> "idle"]
    /\ stamp = [e \in Events |-> None]
    /\ ptr = [e \in Events |-> None]
-----------------------------------------------------------------------------
\* addEvent of an event with timestamp t: getOrCreateWindow looks under the read lock ...
Find(e, t) ==
    /\ eventPc[e] = "idle"
    /\ LET w == windows[Key(t)]
       IN  /\ ptr' = [ptr EXCEPT ![e] = w]
           /\ eventPc' = [eventPc EXCEPT ![e] = IF w # None THEN "append" ELSE "create"]
    /\ stamp' = [stamp EXCEPT ![e] = t]
    /\ UNCHANGED <<windows, objects, closedKeys>>

\* ... and under the write lock again, before it makes a window.
Create(e) ==
    /\ eventPc[e] = "create"
    /\ LET k == Key(stamp[e])
           p == Cardinality(DOMAIN objects) + 1
       IN  IF windows[k] # None
             THEN /\ ptr' = [ptr EXCEPT ![e] = windows[k]]
                  /\ UNCHANGED <<windows, objects>>
             ELSE /\ ptr' = [ptr EXCEPT ![e] = p]
                  /\ windows' = [windows EXCEPT ![k] = p]
                  /\ objects' = [q \in DOMAIN objects \cup {p} |->
                        IF q = p THEN [key |-> k, events |-> {}, closed |-> FALSE, count |-> 0]
                        ELSE objects[q]]
    /\ eventPc' = [eventPc EXCEPT ![e] = "append"]
    /\ UNCHANGED <<closedKeys, stamp>>

\* Faulty Accepts: a closed window is not noticed.
AcceptsClosed(w) == Cardinality(w.events) < maxEvents

\* Neither closed nor full.
Accepts(w) == ~w.closed /\ Cardinality(w.events) < maxEvents

\* addEvent under the window's own lock; the window may be gone from the map.
AddEvent(e) ==
    /\ eventPc[e] = "append"
    /\ LET w == objects[ptr[e]]
       IN  IF Accepts(w)
             THEN /\ objects' = [objects EXCEPT ![ptr[e]].events = @ \cup {e}]
                  /\ eventPc' = [eventPc EXCEPT ![e] = "added"]
             ELSE /\ eventPc' = [eventPc EXCEPT ![e] = "refused"]
                  /\ UNCHANGED objects
    /\ UNCHANGED <<windows, closedKeys, stamp, ptr>>

\* currentTime.After(window.End.Add(manager.windowDuration))
CloseDue(k, now) == now > End(k) + windowDuration

EvictDue(k, now) == now > End(k) + 2 * windowDuration

\* closeAndEvictOldWindows; count is the EventCount it reports for the window.
CloseAndEvict(now) ==
    LET toClose == {k \in Keys : /\ windows[k] # None
                                 /\ CloseDue(k, now)
                                 /\ ~objects[windows[k]].closed}
    IN  /\ objects' = [p \in DOMAIN objects |->
              IF p \in {windows[k] : k \in toClose}
                THEN [objects[p] EXCEPT !.closed = TRUE, !.count = Cardinality(objects[p].events)]
                ELSE objects[p]]
        /\ closedKeys' = [k \in Keys |-> IF k \in toClose THEN closedKeys[k] + 1 ELSE closedKeys[k]]
        /\ windows' = [k \in Keys |-> IF CloseDue(k, now) /\ EvictDue(k, now) THEN None ELSE windows[k]]
        /\ UNCHANGED <<eventPc, stamp, ptr>>

WindowNext ==
    \/ \E e \in Events : Create(e) \/ AddEvent(e) \/ \E t \in Stamps : Find(e, t)
    \/ \E now \in 0 .. MaxTime : CloseAndEvict(now)

-----------------------------------------------------------------------------
\* A window's EventCount is final once it was reported, no event goes to a window that
\* was evicted unreported, and every accepted event is in exactly one window, that of
\* its timestamp.
WindowsComplete ==
    /\ \A p \in DOMAIN objects :
          /\ objects[p].closed => objects[p].count = Cardinality(objects[p].events)
          /\ objects[p].closed \/ windows[objects[p].key] = p
          /\ \A e \in objects[p].events : Key(stamp[e]) = objects[p].key
    /\ \A e \in Events : eventPc[e] = "added" =>
          Cardinality({p \in DOMAIN objects : e \in objects[p].events}) = 1

(***************************************************************************)
(* solution2_LateDataHandling of solutions/challenge16_solution.go: the    *)
(* watermark follows the event times, and an event behind it is late, or   *)
(* too late. The watermark is an atomic value that updateWatermark loads,  *)
(* compares and stores in three steps, and processEvent uses what it       *)
(* loaded before it takes the lock.                                        *)
(***************************************************************************)

markVars == <<watermark, time, loaded, result, highest>>

Times == 0 .. MaxMark

AllCalls == MarkEvents \cup Updates

MarkTypeOK ==
    /\ watermark \in Times
    /\ time \in [AllCalls -> Times \cup {None}]
    /\ loaded \in [AllCalls -> Times \cup {None}]
    /\ result \in [AllCalls -> {None, "updated", "on-time", "late-accepted", "too-late"}]
    /\ highest \in Times

MarkInit ==
    /\ watermark = start
    /\ time = [c \in AllCalls |-> None]
    /\ loaded = [c \in AllCalls |-> None]
    /\ result = [c \in AllCalls |-> None]
    /\ highest = start
-----------------------------------------------------------------------------
\* Both functions, called with an event's time, begin with processor.watermark.Load().
Load(c, t) ==
    /\ loaded[c] = None
    /\ time' = [time EXCEPT ![c] = t]
    /\ loaded' = [loaded EXCEPT ![c] = watermark]
    /\ UNCHANGED <<watermark, result, highest>>

\* Faulty Advances: the comparison is left out.
AdvancesAlways(c) == TRUE

\* eventTime.After(currentWatermark), with the value loaded before
Advances(c) == time[c] > loaded[c]

\* updateWatermark stores its time.
Store(c) ==
    /\ c \in Updates
    /\ loaded[c] # None /\ result[c] = None
    /\ watermark' = IF Advances(c) THEN time[c] ELSE watermark
    /\ highest' = Max({highest, watermark'})
    /\ result' = [result EXCEPT ![c] = "updated"]
    /\ UNCHANGED <<time, loaded>>

\* Faulty Classified: an event of exactly the allowed lateness is dropped.
ClassifiedStrict(t, mark) ==
    CASE t >= mark -> "on-time"
      [] t < mark /\ mark - t < allowedLateness -> "late-accepted"
      [] OTHER -> "too-late"

Classified(t, mark) ==
    CASE t >= mark -> "on-time"
      [] t < mark /\ mark - t <= allowedLateness -> "late-accepted"
      [] OTHER -> "too-late"

\* processEvent classifies its event under the lock.
Process(c) ==
    /\ c \in MarkEvents
    /\ loaded[c] # None /\ result[c] = None
    /\ result' = [result EXCEPT ![c] = Classified(time[c], loaded[c])]
    /\ UNCHANGED <<watermark, time, loaded, highest>>

MarkNext == \E c \in AllCalls : Store(c) \/ Process(c) \/ \E t \in Times : Load(c, t)

-----------------------------------------------------------------------------
\* An event is dropped only when the watermark had really passed it by more than the
\* allowed lateness.
DroppedIsLate ==
    \A e \in MarkEvents : result[e] = "too-late" => highest - time[e] > allowedLateness

\* The watermark goes back only between concurrent updates: when it is below the time of
\* a finished update, the update it comes from had loaded a yet smaller watermark.
BackOnlyIfUnseen ==
    \A u \in Updates : result[u] = "updated" /\ watermark < time[u] =>
        \E v \in Updates : time[v] = watermark /\ loaded[v] < watermark

(***************************************************************************)
(* solution3_CheckpointRecovery of solutions/challenge16_solution.go:      *)
(* events are counted into window totals once per ID; checkpoints are deep *)
(* copies, of which the last few are kept; recovery goes back to one. All  *)
(* three hold the manager's lock. One window; an event's value is its      *)
(* offset.                                                                 *)
(***************************************************************************)

checkpointVars == <<current, history, processedCount, steps>>

Checkpoint(offset, ids, total) == [offset |-> offset, ids |-> ids, total |-> total]

Offsets == 1 .. MaxOffset

CheckpointTypeOK ==
    /\ \A c \in Range(history) \cup {current} :
          c.offset \in 0 .. MaxOffset /\ c.ids \subseteq Offsets /\ c.total \in Nat
    /\ Len(history) <= maxHistory
    /\ processedCount \in 0 .. MaxSteps
    /\ steps \in 0 .. MaxSteps

CheckpointInit ==
    /\ current = Checkpoint(0, {}, 0)
    /\ history = <<>>
    /\ processedCount = 0
    /\ steps = 0

Count == steps < MaxSteps /\ steps' = steps + 1
-----------------------------------------------------------------------------
\* Faulty Duplicate: only the offset is compared.
DuplicateOffset(e) == e = current.offset

\* manager.currentCheckpoint.ProcessedIDs[event.ID]
Duplicate(e) == e \in current.ids

\* processEvent; events may come in any order and again.
ProcessEvent(e) ==
    /\ Count
    /\ ~Duplicate(e)
    /\ current' = Checkpoint(e, current.ids \cup {e}, current.total + e)
    /\ processedCount' = processedCount + 1
    /\ UNCHANGED history

SkipDuplicate(e) ==
    /\ Duplicate(e)
    /\ UNCHANGED checkpointVars

\* createCheckpoint appends a copy and forgets the oldest one past maxHistory.
CreateCheckpoint ==
    /\ Count
    /\ LET longer == Append(history, current)
       IN  history' = IF Len(longer) > maxHistory THEN Tail(longer) ELSE longer
    /\ UNCHANGED <<current, processedCount>>

\* Faulty Recovered: the IDs seen since are kept.
RecoveredKeepsIDs(c) == Checkpoint(c.offset, current.ids, c.total)

Recovered(c) == c

\* recoverFromCheckpoint; processedCount is not taken back.
RecoverFromCheckpoint(c) ==
    /\ current' = Recovered(c)
    /\ UNCHANGED <<history, processedCount, steps>>

CheckpointNext ==
    \/ \E e \in Offsets : ProcessEvent(e) \/ SkipDuplicate(e)
    \/ CreateCheckpoint
    \/ \E c \in Range(history) : RecoverFromCheckpoint(c)

-----------------------------------------------------------------------------
\* Exactly-once: after any number of checkpoints, recoveries and replays, the total is
\* that of the processed IDs, each counted once, in the present state and in every
\* checkpoint that can still be recovered.
CountedOnce ==
    \A c \in Range(history) \cup {current} :
        /\ c.total = SumSet(c.ids)
        /\ c.offset \in c.ids \cup {0}
=============================================================================
