---------------------------- MODULE SagaPattern -----------------------------
(***************************************************************************)
(* Challenge 14, solutions/challenge14_solution.go: the three kinds of     *)
(* saga that Challenge14_SagaSolution runs one after the other. Their      *)
(* variables are apart.                                                    *)
(***************************************************************************)
EXTENDS Integers, FiniteSets, SequencesExt

CONSTANTS
    Sagas,
    Stock,                       \* step 1, 2 -> shares there are to start with
    MaxRetries,                  \* step -> step.MaxRetries
    MaxRuns,                     \* bound: calls of executeSaga per saga
    CompensationMayFail,
    Capacity,                    \* of commandBus and of eventBus
    SagaOrders,
    None

VARIABLES
    avail,                       \* step 1, 2 -> inventory, balance
    history,                     \* manager.executionHistory: <<saga, step>> pairs
    executed,                    \* saga -> steps with step.executed
    compensated,                 \* saga -> steps with step.compensated
    logged,                      \* saga -> steps in saga.compensationLog
    pc, at, attempt, runs,
    commandBus, eventBus,        \* the channels
    serving,                     \* commands whose service goroutine runs or waits to send its event
    step,                        \* saga -> CurrentStep, -1 before startSaga
    status,                      \* saga -> Status
    completed,                   \* saga -> CompletedSteps
    undoing,                     \* saga -> steps its compensation goroutine is still to undo, and one
                                 \* more; 0 when there is none
    blocked,                     \* commands the orchestrator waits to send, holding mu (at most one)
    starting,                    \* sagas whose startSaga waits to send the first command
    failed,                      \* sagas for which a failure event was handled
    stopped,                     \* the context is done and the orchestrator has returned
    queue,                       \* event type -> sagas in the channel of its subscription
    working,                     \* service -> the event it works on, or None
    pending,                     \* sagas for which payment has still to publish PaymentFailed
    reserved, paid, shipped,     \* sagas with stock, money, a parcel
    started,
    reported                     \* saga -> what the monitor printed last

(***************************************************************************)
(* solution1_CompensatingSaga of solutions/challenge14_solution.go:        *)
(* executeSaga with executeStep's retries, the idempotency history and     *)
(* compensation in reverse order, for order sagas over shared stock.       *)
(*                                                                         *)
(* Step 1 reserves inventory and step 2 takes a payment: each checks the   *)
(* shared counter and then takes one share from it (two units, 200 in the  *)
(* code). Step 3 ships and may fail. Steps 1 and 2 are idempotent.         *)
(***************************************************************************)

Steps == 1 .. 3
Counted == {1, 2}
Idempotent == {1, 2}

compensatingVars == <<avail, history, executed, compensated, logged, pc, at, attempt, runs>>

CompensatingTypeOK ==
    /\ avail \in [Counted -> Int]
    /\ history \subseteq Sagas \X Steps
    /\ executed \in [Sagas -> SUBSET Steps]
    /\ compensated \in [Sagas -> SUBSET Steps]
    /\ logged \in [Sagas -> SUBSET Steps]
    /\ pc \in [Sagas -> {"idle", "execute", "take", "compensate", "completed", "failed"}]
    /\ at \in [Sagas -> 0 .. 4]
    /\ \A s \in Sagas : at[s] \in Steps => attempt[s] \in 0 .. MaxRetries[at[s]]
    /\ runs \in [Sagas -> 0 .. MaxRuns]

CompensatingInit ==
    /\ avail = Stock
    /\ history = {}
    /\ executed = [s \in Sagas |-> {}]
    /\ compensated = [s \in Sagas |-> {}]
    /\ logged = [s \in Sagas |-> {}]
    /\ pc = [s \in Sagas |-> "idle"]
    /\ at = [s \in Sagas |-> 0]
    /\ attempt = [s \in Sagas |-> 0]
    /\ runs = [s \in Sagas |-> 0]
-----------------------------------------------------------------------------
\* executeSaga is called, for the first time or again after a failure.
Start(s) ==
    /\ pc[s] \in {"idle", "failed"}
    /\ runs[s] < MaxRuns
    /\ runs' = [runs EXCEPT ![s] = @ + 1]
    /\ pc' = [pc EXCEPT ![s] = "execute"]
    /\ at' = [at EXCEPT ![s] = 1]
    /\ attempt' = [attempt EXCEPT ![s] = 0]
    /\ UNCHANGED <<avail, history, executed, compensated, logged>>

\* The loop of executeSaga goes on after a successful step.
Proceed(s) ==
    /\ at' = [at EXCEPT ![s] = @ + 1]
    /\ attempt' = [attempt EXCEPT ![s] = 0]
    /\ pc' = [pc EXCEPT ![s] = IF at[s] = 3 THEN "completed" ELSE "execute"]

AlreadyExecuted(s) == at[s] \in Idempotent /\ <<s, at[s]>> \in history

\* executeStep returns at once: the ExecutionID is in the history.
Skip(s) ==
    /\ pc[s] = "execute"
    /\ AlreadyExecuted(s)
    /\ Proceed(s)
    /\ UNCHANGED <<avail, history, executed, compensated, logged, runs>>

\* Execute's test of the counter succeeds (inventory.Load() >= 2).
Check(s) ==
    /\ pc[s] = "execute" /\ at[s] \in Counted
    /\ ~AlreadyExecuted(s)
    /\ avail[at[s]] >= 1
    /\ pc' = [pc EXCEPT ![s] = "take"]
    /\ UNCHANGED <<avail, history, executed, compensated, logged, at, attempt, runs>>

\* Execute takes its share (inventory.Add(-2)) and executeStep records the success.
Take(s) ==
    /\ pc[s] = "take"
    /\ avail' = [avail EXCEPT ![at[s]] = @ - 1]
    /\ executed' = [executed EXCEPT ![s] = @ \cup {at[s]}]
    /\ history' = history \cup {<<s, at[s]>>}
    /\ Proceed(s)
    /\ UNCHANGED <<compensated, logged, runs>>

CompensatingShip(s) ==
    /\ pc[s] = "execute" /\ at[s] = 3
    /\ executed' = [executed EXCEPT ![s] = @ \cup {3}]
    /\ Proceed(s)
    /\ UNCHANGED <<avail, history, compensated, logged, runs>>

\* Execute returns an error: nothing left in stock, or shipping unavailable.
ExecuteFails(s) ==
    /\ pc[s] = "execute"
    /\ \/ at[s] \in Counted /\ ~AlreadyExecuted(s) /\ avail[at[s]] < 1
       \/ at[s] = 3

\* Faulty Attempts: one attempt too many.
AttemptsOneMore(s) == attempt[s] <= MaxRetries[at[s]]

\* attempt < step.MaxRetries: the loop `attempt <= MaxRetries' has a round left.
Attempts(s) == attempt[s] < MaxRetries[at[s]]

\* Faulty NextAttempt: the attempts are not counted.
NextAttemptSame(s) == attempt[s]

NextAttempt(s) == attempt[s] + 1

Retry(s) ==
    /\ ExecuteFails(s)
    /\ Attempts(s)
    /\ attempt' = [attempt EXCEPT ![s] = NextAttempt(s)]
    /\ UNCHANGED <<avail, history, executed, compensated, logged, pc, at, runs>>

\* j := i - 1
LastDone(s) == at[s] - 1

\* The attempts are used up: compensation starts with the step before.
GiveUp(s) ==
    /\ ExecuteFails(s)
    /\ ~Attempts(s)
    /\ pc' = [pc EXCEPT ![s] = "compensate"]
    /\ at' = [at EXCEPT ![s] = LastDone(s)]
    /\ attempt' = [attempt EXCEPT ![s] = 0]
    /\ UNCHANGED <<avail, history, executed, compensated, logged, runs>>

\* Faulty ToUndo: compensated steps are compensated again.
ToUndoAgain(s) == at[s] \in executed[s]

ToUndo(s) == at[s] \in executed[s] /\ at[s] \notin compensated[s]

\* Compensate gives the share back. (Step 3 is never before a failing step.)
Compensate(s) ==
    /\ pc[s] = "compensate" /\ at[s] \in Steps
    /\ ToUndo(s)
    /\ avail' = [avail EXCEPT ![at[s]] = @ + 1]
    /\ compensated' = [compensated EXCEPT ![s] = @ \cup {at[s]}]
    /\ at' = [at EXCEPT ![s] = @ - 1]
    /\ UNCHANGED <<history, executed, logged, pc, attempt, runs>>

\* Compensate fails: it is logged and the loop goes on.
CompensationFails(s) ==
    /\ CompensationMayFail
    /\ pc[s] = "compensate" /\ at[s] \in Steps
    /\ ToUndo(s)
    /\ logged' = [logged EXCEPT ![s] = @ \cup {at[s]}]
    /\ at' = [at EXCEPT ![s] = @ - 1]
    /\ UNCHANGED <<avail, history, executed, compensated, pc, attempt, runs>>

NothingToUndo(s) ==
    /\ pc[s] = "compensate" /\ at[s] \in Steps
    /\ ~ToUndo(s)
    /\ at' = [at EXCEPT ![s] = @ - 1]
    /\ UNCHANGED <<avail, history, executed, compensated, logged, pc, attempt, runs>>

Fail(s) ==
    /\ pc[s] = "compensate" /\ at[s] = 0
    /\ pc' = [pc EXCEPT ![s] = "failed"]
    /\ UNCHANGED <<avail, history, executed, compensated, logged, at, attempt, runs>>

Run(s) ==
    \/ Skip(s) \/ Check(s) \/ Take(s) \/ CompensatingShip(s) \/ Retry(s) \/ GiveUp(s)
    \/ Compensate(s) \/ CompensationFails(s) \/ NothingToUndo(s) \/ Fail(s)

CompensatingNext == \E s \in Sagas : Start(s) \/ Run(s)

-----------------------------------------------------------------------------
\* What is missing from the stock is exactly what sagas have taken and not given back,
\* through retries, concurrent compensation and repeated executions: nothing is
\* refunded twice and nothing is taken twice.
StockAccounted ==
    \A i \in Counted :
        avail[i] = Stock[i] - Cardinality({s \in Sagas : i \in executed[s] \ compensated[s]})

\* A saga that has failed keeps nothing: each step it executed is compensated, or the
\* failure of its compensation is on record.
FailedKeepsNothing ==
    \A s \in Sagas : pc[s] = "failed" =>
        executed[s] \cap Counted \subseteq compensated[s] \cup logged[s]

\* Compensation runs backwards: in the first execution of a saga no step is compensated
\* while a later one that was executed has not been dealt with.
UndoneInReverse ==
    \A s \in Sagas : runs[s] = 1 =>
        \A i \in compensated[s], k \in executed[s] \cap Counted :
            k > i => k \in compensated[s] \cup logged[s]

Executing == \E s \in Sagas : runs[s] > 0

\* Every call of executeSaga has returned.
ExecutionsOver == \A s \in Sagas : runs[s] > 0 => pc[s] \in {"completed", "failed"}

(***************************************************************************)
(* solution2_OrchestrationSaga of solutions/challenge14_solution.go: one   *)
(* orchestrator goroutine that takes commands and events from two bounded  *)
(* channels, service goroutines that answer commands with events, and a    *)
(* compensation goroutine per failed event.                                *)
(*                                                                         *)
(* A command or event is a pair of a saga and a command type; every step   *)
(* succeeds but ship_order, which may fail.                                *)
(***************************************************************************)

Forward == <<"reserve_inventory", "process_payment", "ship_order">>

\* The compensationSteps map; a completed compensation has no entry.
Undo == [reserve_inventory |-> "release_inventory",
         process_payment |-> "refund_payment",
         ship_order |-> "cancel_shipping"]

Commands == {Forward[i] : i \in DOMAIN Forward} \cup {Undo[c] : c \in DOMAIN Undo}

orchestratedVars == <<commandBus, eventBus, serving, step, status, completed, undoing, blocked,
          starting, failed, stopped>>

Messages == [saga : Sagas, type : Commands]

OrchestratedTypeOK ==
    /\ commandBus \in Seq(Messages) /\ Len(commandBus) <= Capacity
    /\ eventBus \in Seq([saga : Sagas, type : Commands, ok : BOOLEAN])
    /\ Len(eventBus) <= Capacity
    /\ serving \subseteq Messages
    /\ step \in [Sagas -> -1 .. 5]
    /\ status \in [Sagas -> {"none", "running", "completed", "compensating", "compensated"}]
    /\ completed \in [Sagas -> Seq(Commands)]
    /\ undoing \in [Sagas -> 0 .. Len(Forward)]
    /\ blocked \subseteq Messages
    /\ starting \subseteq Sagas
    /\ failed \subseteq Sagas
    /\ stopped \in BOOLEAN

OrchestratedInit ==
    /\ commandBus = <<>>
    /\ eventBus = <<>>
    /\ serving = {}
    /\ step = [s \in Sagas |-> -1]
    /\ status = [s \in Sagas |-> "none"]
    /\ completed = [s \in Sagas |-> <<>>]
    /\ undoing = [s \in Sagas |-> 0]
    /\ blocked = {}
    /\ starting = {}
    /\ failed = {}
    /\ stopped = FALSE
-----------------------------------------------------------------------------
Command(s, c) == [saga |-> s, type |-> c]

\* startSaga under orchestrator.mu.
OrchestratedStartSaga(s) ==
    /\ step[s] = -1
    /\ blocked = {}
    /\ step' = [step EXCEPT ![s] = 0]
    /\ status' = [status EXCEPT ![s] = "running"]
    /\ starting' = starting \cup {s}
    /\ UNCHANGED <<commandBus, eventBus, serving, completed, undoing, blocked, failed, stopped>>

\* startSaga's send of the first command.
SendFirst(s) ==
    /\ s \in starting
    /\ Len(commandBus) < Capacity
    /\ commandBus' = Append(commandBus, Command(s, Forward[1]))
    /\ starting' = starting \ {s}
    /\ UNCHANGED <<eventBus, serving, step, status, completed, undoing, blocked, failed, stopped>>

\* The orchestrator is at its select.
Selecting == ~stopped /\ blocked = {}

\* It takes a command and starts the service goroutine.
RouteCommand ==
    /\ Selecting
    /\ commandBus # <<>>
    /\ commandBus' = Tail(commandBus)
    /\ serving' = serving \cup {Head(commandBus)}
    /\ UNCHANGED <<eventBus, step, status, completed, undoing, blocked, starting, failed, stopped>>

MayFail(c) == c \in {"ship_order", "cancel_shipping"}

\* A service goroutine sends its event.
Serve(m) ==
    /\ m \in serving
    /\ Len(eventBus) < Capacity
    /\ \E ok \in IF MayFail(m.type) THEN BOOLEAN ELSE {TRUE} :
        eventBus' = Append(eventBus, [saga |-> m.saga, type |-> m.type, ok |-> ok])
    /\ serving' = serving \ {m}
    /\ UNCHANGED <<commandBus, step, status, completed, undoing, blocked, starting, failed, stopped>>

OrchestratedEvent == Head(eventBus)

\* A success: the saga moves on, whatever the event's type. Past the last step it is
\* "completed"; otherwise the orchestrator goes on to send the next command, with mu held.
HandleSuccess ==
    /\ Selecting
    /\ eventBus # <<>> /\ OrchestratedEvent.ok
    /\ eventBus' = Tail(eventBus)
    /\ LET s == OrchestratedEvent.saga IN
        /\ completed' = [completed EXCEPT ![s] = Append(@, OrchestratedEvent.type)]
        /\ step' = [step EXCEPT ![s] = @ + 1]
        /\ IF step[s] + 1 >= Len(Forward)
           THEN status' = [status EXCEPT ![s] = "completed"] /\ UNCHANGED blocked
           ELSE blocked' = {Command(s, Forward[step[s] + 2])} /\ UNCHANGED status
    /\ UNCHANGED <<commandBus, serving, undoing, starting, failed, stopped>>

\* The orchestrator's own send, to the channel only it reads.
SendNext(m) ==
    /\ m \in blocked
    /\ Len(commandBus) < Capacity
    /\ commandBus' = Append(commandBus, m)
    /\ blocked' = {}
    /\ UNCHANGED <<eventBus, serving, step, status, completed, undoing, starting, failed, stopped>>

\* i := len(s.CompletedSteps) - 1, counted from one
FirstToUndo(s) == Len(completed[s])

\* A failure: the compensation goroutine is started.
HandleFailure ==
    /\ Selecting
    /\ eventBus # <<>> /\ ~OrchestratedEvent.ok
    /\ eventBus' = Tail(eventBus)
    /\ LET s == OrchestratedEvent.saga IN
        /\ status' = [status EXCEPT ![s] = "compensating"]
        /\ undoing' = [undoing EXCEPT ![s] = FirstToUndo(s) + 1]
        /\ failed' = failed \cup {s}
    /\ UNCHANGED <<commandBus, serving, step, completed, blocked, starting, stopped>>

\* Faulty UndoOf: two entries of compensationSteps are mixed up.
UndoOfMixedUp(c) == IF c = "process_payment" THEN "release_inventory" ELSE "refund_payment"

UndoOf(c) == Undo[c]

NextToUndo(s) == undoing[s] - 1

\* One round of the compensation loop. Events of the compensation are appended behind
\* the index meanwhile, so the loop sees only the steps completed before.
SendUndo(s) ==
    /\ undoing[s] > 1
    /\ Len(commandBus) < Capacity
    /\ commandBus' = Append(commandBus, Command(s, UndoOf(completed[s][NextToUndo(s)])))
    /\ undoing' = [undoing EXCEPT ![s] = NextToUndo(s)]
    /\ UNCHANGED <<eventBus, serving, step, status, completed, blocked, starting, failed, stopped>>

\* The goroutine sleeps after each command, and then sets the status without the lock: an
\* event of the compensation may have made it "completed" meanwhile, or may do so later.
UndoEnds(s) ==
    /\ undoing[s] = 1
    /\ undoing' = [undoing EXCEPT ![s] = 0]
    /\ status' = [status EXCEPT ![s] = "compensated"]
    /\ UNCHANGED <<commandBus, eventBus, serving, step, completed, blocked, starting, failed, stopped>>

\* Environment: the context's timeout.
Stop ==
    /\ Selecting
    /\ stopped' = TRUE
    /\ UNCHANGED <<commandBus, eventBus, serving, step, status, completed, undoing, blocked,
                   starting, failed>>

Orchestrator ==
    \/ RouteCommand \/ HandleSuccess \/ HandleFailure
    \/ \E m \in Messages : SendNext(m)

OrchestratedNext ==
    \/ Orchestrator
    \/ \E m \in Messages : Serve(m)
    \/ \E s \in Sagas : OrchestratedStartSaga(s) \/ SendFirst(s) \/ SendUndo(s) \/ UndoEnds(s)
    \/ Stop

\* What the goroutines do of themselves: all but startSaga and the end of the context.
OrchestratedProgress ==
    \/ Orchestrator
    \/ \E m \in Messages : Serve(m)
    \/ \E s \in Sagas : SendFirst(s) \/ SendUndo(s) \/ UndoEnds(s)

-----------------------------------------------------------------------------
Done(s, c) == \E i \in DOMAIN completed[s] : completed[s][i] = c

\* Only what was done is undone, and in reverse: a release is asked for only after the
\* saga's failure, and the inventory is not released before the refund was asked for.
UndoFollowsFailure ==
    \A s \in Sagas :
        /\ Done(s, "refund_payment") \/ Done(s, "release_inventory") => s \in failed
        /\ s \in failed => ~Done(s, "ship_order")
        /\ Done(s, "release_inventory") => undoing[s] <= 1

\* The orchestrator waits for room in the channel it alone empties only if the sagas
\* outnumber the channel: with a place for every saga it never blocks for good.
OrchestratorNeverStuck ==
    Cardinality(Sagas) < Capacity => (blocked # {} => Len(commandBus) < Capacity)

\* All that failed sagas did is undone, or the context has ended.
FailuresUndone ==
    stopped \/ \A s \in failed : Done(s, "refund_payment") /\ Done(s, "release_inventory")

(***************************************************************************)
(* solution3_ChoreographySaga of solutions/challenge14_solution.go: the    *)
(* inventory, payment and shipping services and the monitor, each a        *)
(* goroutine that reads its own subscriptions and publishes events; a full *)
(* subscription drops the event. The services have subscribed before the   *)
(* first saga starts (the code sleeps for that).                           *)
(***************************************************************************)

\* The event types with a subscriber, and who that is.
Subscriber == [OrderCreated |-> "inventory", PaymentFailed |-> "inventory",
               InventoryReserved |-> "payment", ShippingFailed |-> "payment",
               PaymentProcessed |-> "shipping",
               OrderShipped |-> "monitor", PaymentRefunded |-> "monitor"]

Types == DOMAIN Subscriber
Services == {Subscriber[t] : t \in Types}
ChoreographedEvent == [type : Types, saga : SagaOrders]

choreographedVars == <<queue, working, pending, reserved, paid, shipped, started, reported>>

ChoreographedTypeOK ==
    /\ queue \in [Types -> Seq(SagaOrders)]
    /\ \A t \in Types : Len(queue[t]) <= Capacity
    /\ working \in [Services -> ChoreographedEvent \cup {None}]
    /\ pending \subseteq SagaOrders
    /\ reserved \subseteq SagaOrders
    /\ paid \subseteq SagaOrders
    /\ shipped \subseteq SagaOrders
    /\ started \subseteq SagaOrders
    /\ reported \in [SagaOrders -> {"nothing", "completed", "compensated"}]

ChoreographedInit ==
    /\ queue = [t \in Types |-> <<>>]
    /\ working = [v \in Services |-> None]
    /\ pending = {}
    /\ reserved = {}
    /\ paid = {}
    /\ shipped = {}
    /\ started = {}
    /\ reported = [s \in SagaOrders |-> "nothing"]
-----------------------------------------------------------------------------
\* publish: a non-blocking send to the event type's subscription.
Published(q, t, s) ==
    IF Len(q[t]) < Capacity THEN [q EXCEPT ![t] = Append(@, s)] ELSE q

\* The main goroutine publishes OrderCreated.
ChoreographedStartSaga(s) ==
    /\ s \notin started
    /\ started' = started \cup {s}
    /\ queue' = Published(queue, "OrderCreated", s)
    /\ UNCHANGED <<working, pending, reserved, paid, shipped, reported>>

\* A service takes an event from one of its subscriptions.
Receive(t) ==
    /\ working[Subscriber[t]] = None
    /\ Subscriber[t] # "payment" \/ pending = {}
    /\ queue[t] # <<>>
    /\ queue' = [queue EXCEPT ![t] = Tail(@)]
    /\ working' = [working EXCEPT ![Subscriber[t]] = [type |-> t, saga |-> Head(queue[t])]]
    /\ UNCHANGED <<pending, reserved, paid, shipped, started, reported>>

\* The service has done its work on an event of type t.
Finish(t) ==
    /\ working[Subscriber[t]] # None
    /\ working[Subscriber[t]].type = t
    /\ working' = [working EXCEPT ![Subscriber[t]] = None]

SagaOf(t) == working[Subscriber[t]].saga

\* Inventory: reserve.
Reserve ==
    /\ Finish("OrderCreated")
    /\ reserved' = reserved \cup {SagaOf("OrderCreated")}
    /\ queue' = Published(queue, "InventoryReserved", SagaOf("OrderCreated"))
    /\ UNCHANGED <<pending, paid, shipped, started, reported>>

\* Inventory: release. InventoryReleased has no subscriber.
Release ==
    /\ Finish("PaymentFailed")
    /\ reserved' = reserved \ {SagaOf("PaymentFailed")}
    /\ UNCHANGED <<queue, pending, paid, shipped, started, reported>>

Pay ==
    /\ Finish("InventoryReserved")
    /\ paid' = paid \cup {SagaOf("InventoryReserved")}
    /\ queue' = Published(queue, "PaymentProcessed", SagaOf("InventoryReserved"))
    /\ UNCHANGED <<pending, reserved, shipped, started, reported>>

\* Payment: refund, which publishes PaymentRefunded ...
Refund ==
    /\ Finish("ShippingFailed")
    /\ paid' = paid \ {SagaOf("ShippingFailed")}
    /\ queue' = Published(queue, "PaymentRefunded", SagaOf("ShippingFailed"))
    /\ pending' = pending \cup {SagaOf("ShippingFailed")}
    /\ UNCHANGED <<reserved, shipped, started, reported>>

\* Faulty Forwarded: PaymentFailed is published for nobody.
ForwardedNot(s) == queue

Forwarded(s) == Published(queue, "PaymentFailed", s)

\* ... and then PaymentFailed, which makes inventory release.
ForwardFailure(s) ==
    /\ s \in pending
    /\ pending' = pending \ {s}
    /\ queue' = Forwarded(s)
    /\ UNCHANGED <<working, reserved, paid, shipped, started, reported>>

ShippedEvent == "OrderShipped"

\* Shipping succeeds or fails.
ChoreographedShip ==
    /\ Finish("PaymentProcessed")
    /\ shipped' = shipped \cup {SagaOf("PaymentProcessed")}
    /\ queue' = Published(queue, ShippedEvent, SagaOf("PaymentProcessed"))
    /\ UNCHANGED <<pending, reserved, paid, started, reported>>

ShipFails ==
    /\ Finish("PaymentProcessed")
    /\ queue' = Published(queue, "ShippingFailed", SagaOf("PaymentProcessed"))
    /\ UNCHANGED <<pending, reserved, paid, shipped, started, reported>>

Verdict(t) == IF t = "OrderShipped" THEN "completed" ELSE "compensated"

\* The monitor reports.
Report(t) ==
    /\ Subscriber[t] = "monitor"
    /\ Finish(t)
    /\ reported' = [reported EXCEPT ![SagaOf(t)] = Verdict(t)]
    /\ UNCHANGED <<queue, pending, reserved, paid, shipped, started>>

Work == Reserve \/ Release \/ Pay \/ Refund \/ ChoreographedShip \/ ShipFails

ChoreographedNext ==
    \/ \E s \in SagaOrders : ChoreographedStartSaga(s) \/ ForwardFailure(s)
    \/ \E t \in Types : Receive(t) \/ Report(t)
    \/ Work

\* What the services and the monitor do of themselves.
ChoreographedProgress ==
    \/ Work
    \/ \E t \in Types : Receive(t) \/ Report(t)
    \/ \E s \in SagaOrders : ForwardFailure(s)

-----------------------------------------------------------------------------
\* Where a saga's next event is, if it has one: in a channel, with a service, or
\* still to be forwarded.
InFlight(s) ==
    \/ \E t \in Types \ {"OrderShipped", "PaymentRefunded"} :
        \E i \in DOMAIN queue[t] : queue[t][i] = s
    \/ \E v \in Services \ {"monitor"} : working[v] # None /\ working[v].saga = s
    \/ s \in pending

\* No saga hangs in between: with a place in each channel for every saga, one that has
\* no event under way has not begun, is shipped with its stock and money taken, or is
\* undone completely. (An event dropped by a full channel would break this.)
NothingHalfDone ==
    Cardinality(SagaOrders) <= Capacity =>
        \A s \in started :
            \/ InFlight(s)
            \/ s \in shipped /\ s \in paid /\ s \in reserved
            \/ s \notin shipped /\ s \notin paid /\ s \notin reserved

\* A parcel is never sent for a saga whose payment or reservation is being undone.
ShippedIsPaid == shipped \subseteq paid \cap reserved

\* The monitor has reported every saga that was started.
SagasReported == \A s \in started : reported[s] # "nothing"
=============================================================================
