----------------------------- MODULE ActorModel -----------------------------
(***************************************************************************)
(* challenges/challenge29_actor_model.go: actors with bounded mailboxes,   *)
(* their message loops, Ask, RestartActor and Shutdown. The actors run     *)
(* CounterBehavior; the second one, if it is spawned, has the ID of the    *)
(* first.                                                                  *)
(***************************************************************************)
EXTENDS Integers, FiniteSets, Sequences

CONSTANTS
    MailboxSize,   \* 10 in the code
    MaxSends,      \* accepted messages over all actors
    Requests,      \* what Send is called with: "increment", "decrement"
    maxRestarts    \* 3 in the code

VARIABLES
    spawned,       \* how many actors: the last is the one in the map
    mailbox,       \* actor -> messages
    state,         \* actor -> the counter
    restarts,      \* actor -> calls of RestartActor
    loop,          \* <<actor, n>> -> what the n-th goroutine in run does
    cancelled,     \* actor -> its context is done
    stopped,       \* as.shutdown
    sends,         \* Send and Ask so far
    ask,           \* "no", "waits", "timeout"
    treated,       \* actor -> messages that its behavior has handled
    owed,          \* actor -> the sum of their effects
    overlap        \* actor -> two of its loops were in the behavior at once

actorVars ==
    <<spawned, mailbox, state, restarts, loop, cancelled, stopped, sends, ask, treated, owed, overlap>>

Actors == 1..2

\* One more than RestartActor may ever start.
LoopNumbers == 1..(maxRestarts + 2)

Loops == Actors \X LoopNumbers

Idle == [at |-> "none"]

Selects == [at |-> "select"]

InBehavior(l) == loop[l].at = "behavior"

ActorInit ==
    /\ spawned = 1
    /\ mailbox = [a \in Actors |-> <<>>]
    /\ state = [a \in Actors |-> 0]
    /\ restarts = [a \in Actors |-> 0]
    /\ loop = [l \in Loops |-> IF l = <<1, 1>> THEN Selects ELSE Idle]
    /\ cancelled = [a \in Actors |-> FALSE]
    /\ stopped = FALSE
    /\ sends = 0
    /\ ask = "no"
    /\ treated = [a \in Actors |-> 0] /\ owed = [a \in Actors |-> 0]
    /\ overlap = [a \in Actors |-> FALSE]

NotRun == UNCHANGED <<state, loop, treated, owed, overlap>>

\* The ID is taken: the first actor leaves the map and goes on.
SpawnActor ==
    /\ spawned = 1
    /\ spawned' = 2
    /\ loop' = [loop EXCEPT ![<<2, 1>>] = Selects]
    /\ UNCHANGED <<mailbox, state, restarts, cancelled, stopped, sends, ask, treated, owed, overlap>>

\* Faulty: the mailbox takes one message more than the sender is told.
PutOneMore(a, m) ==
    mailbox' = [mailbox EXCEPT ![a] = IF Len(@) <= MailboxSize THEN Append(@, m) ELSE @]

\* A full mailbox: the message is lost, and the sender is told.
Put(a, m) ==
    mailbox' = [mailbox EXCEPT ![a] = IF Len(@) < MailboxSize THEN Append(@, m) ELSE @]

Send(a, m) ==
    /\ sends < MaxSends /\ a <= spawned
    /\ Put(a, m)
    /\ sends' = IF Len(mailbox[a]) < MailboxSize THEN sends + 1 ELSE sends
    /\ UNCHANGED <<spawned, restarts, cancelled, stopped, ask>> /\ NotRun

\* Nobody knows the channel that Ask waits on.
Ask(a) ==
    /\ ask = "no"
    /\ sends < MaxSends /\ a <= spawned
    /\ Put(a, "ping")
    /\ sends' = IF Len(mailbox[a]) < MailboxSize THEN sends + 1 ELSE sends
    /\ ask' = IF Len(mailbox[a]) < MailboxSize THEN "waits" ELSE "no"
    /\ UNCHANGED <<spawned, restarts, cancelled, stopped>> /\ NotRun

AskTimeout ==
    /\ ask = "waits"
    /\ ask' = "timeout"
    /\ UNCHANGED <<spawned, mailbox, restarts, cancelled, stopped, sends>> /\ NotRun

\* The loop of run receives, and CounterBehavior reads the state.
Receive(a, n) ==
    /\ loop[<<a, n>>].at = "select" /\ mailbox[a] # <<>>
    /\ loop' = [loop EXCEPT ![<<a, n>>] =
         [at |-> "behavior", msg |-> Head(mailbox[a]), counter |-> state[a]]]
    /\ mailbox' = [mailbox EXCEPT ![a] = Tail(@)]
    /\ overlap' = [overlap EXCEPT ![a] = @ \/ \E l \in Loops : l[1] = a /\ InBehavior(l)]
    /\ UNCHANGED <<spawned, state, restarts, cancelled, stopped, sends, ask, treated, owed>>

Effect(m) == CASE m = "increment" -> 1 [] m = "decrement" -> -1 [] m = "ping" -> 0

\* Faulty: the ping takes the way of the increment.
CounterBehaviorFalls(l) ==
    state' = [state EXCEPT ![l[1]] = loop[l].counter + IF loop[l].msg = "ping" THEN 1 ELSE Effect(loop[l].msg)]

\* A request stores what was read, plus or minus 1; a ping only prints.
CounterBehavior(l) ==
    state' = IF loop[l].msg = "ping" THEN state
             ELSE [state EXCEPT ![l[1]] = loop[l].counter + Effect(loop[l].msg)]

Handled(a, n) ==
    /\ InBehavior(<<a, n>>)
    /\ CounterBehavior(<<a, n>>)
    /\ treated' = [treated EXCEPT ![a] = @ + 1]
    /\ owed' = [owed EXCEPT ![a] = @ + Effect(loop[<<a, n>>].msg)]
    /\ loop' = [loop EXCEPT ![<<a, n>>] = Selects]
    /\ UNCHANGED <<spawned, mailbox, restarts, cancelled, stopped, sends, ask, overlap>>

\* The context is done; a message that is there as well may be chosen instead.
RunEnds(a, n) ==
    /\ loop[<<a, n>>].at = "select" /\ cancelled[a]
    /\ loop' = [loop EXCEPT ![<<a, n>>] = Idle]
    /\ UNCHANGED <<spawned, mailbox, state, restarts, cancelled, stopped, sends, ask, treated, owed, overlap>>

Alive(a) == {n \in LoopNumbers : loop[<<a, n>>].at # "none"}

\* Faulty: one restart too many.
MayRestartLate(a) == restarts[a] <= maxRestarts

MayRestart(a) == restarts[a] + 1 <= maxRestarts

\* The loop that is there goes on: a second one joins it.
RestartActor(a) ==
    /\ a <= spawned /\ restarts[a] <= maxRestarts
    /\ restarts' = [restarts EXCEPT ![a] = @ + 1]
    /\ loop' = IF MayRestart(a) THEN [loop EXCEPT ![<<a, restarts[a] + 2>>] = Selects] ELSE loop
    /\ UNCHANGED <<spawned, mailbox, state, cancelled, stopped, sends, ask, treated, owed, overlap>>

\* Only what the map holds is cancelled; mailboxes are not drained.
Shutdown ==
    /\ ~stopped
    /\ stopped' = TRUE
    /\ cancelled' = [cancelled EXCEPT ![spawned] = TRUE]
    /\ UNCHANGED <<spawned, mailbox, restarts, sends, ask>> /\ NotRun

LoopRuns(l) == Receive(l[1], l[2]) \/ Handled(l[1], l[2]) \/ RunEnds(l[1], l[2])

ActorNext ==
    \/ SpawnActor \/ AskTimeout \/ Shutdown
    \/ \E a \in Actors, m \in Requests : Send(a, m)
    \/ \E a \in Actors : Ask(a) \/ RestartActor(a)
    \/ \E l \in Loops : LoopRuns(l)
-----------------------------------------------------------------------------
InHand(a) == Cardinality({l \in Loops : l[1] = a /\ InBehavior(l)})

\* An accepted message is in a mailbox, in a behavior or handled, once. The counter is the
\* sum of what was handled for as long as only one loop at a time was in the behavior of the
\* actor, which only RestartActor can change. An actor never has more loops than restarts
\* allow. Shutdown cancels the actor of the map: one whose ID was taken over, or that comes
\* later, goes on.
ActorsRight ==
    /\ sends = Len(mailbox[1]) + Len(mailbox[2]) + treated[1] + treated[2] + InHand(1) + InHand(2)
    /\ \A a \in Actors :
         /\ ~overlap[a] => state[a] = owed[a]
         /\ overlap[a] => restarts[a] > 0
         /\ Cardinality(Alive(a)) <= 1 + (IF restarts[a] < maxRestarts THEN restarts[a] ELSE maxRestarts)
    /\ Cardinality({a \in Actors : cancelled[a]}) = IF stopped THEN 1 ELSE 0

\* The loops of a cancelled actor.
Ending == \E a \in Actors : cancelled[a]

Ended == \A a \in Actors : cancelled[a] => Alive(a) = {}
=============================================================================
