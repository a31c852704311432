---------------------------- MODULE TaskScheduler ----------------------------
(***************************************************************************)
(* challenges/challenge28_task_scheduler.go: tasks with dependencies, a    *)
(* scheduler that hands one task to each idle worker, workers with local   *)
(* queues, the balancer that steals from them, and the worker that fails.  *)
(***************************************************************************)
EXTENDS Integers, FiniteSets, Sequences

CONSTANTS
    MaxTask,       \* the tasks 1..MaxTask of createTaskGraph
    FreeTasks,     \* more tasks, without dependencies
    Workers,       \* numbered from 0, the one that fails
    Retries        \* the values of MaxRetries

VARIABLES
    maxRetries,                           \* task -> MaxRetries, chosen by its submitter; -1 before that
    taskQueue,
    pendingTasks, runningTasks, completedTasks,
    failedTasks,                          \* those whose Status is "failed"
    round,                                \* the idle workers that scheduleTasks still goes through, s.mu held
    localQueue, isIdle,
    doing,                                \* worker -> the task it executes, 0 in its loop, -1 ended
    stopping                              \* of worker 0: "no", "closed" (stopCh), "removed" (workers[0] = nil)

schedulerVars ==
    <<maxRetries, taskQueue, pendingTasks, runningTasks, completedTasks, failedTasks, round,
      localQueue, isIdle, doing, stopping>>

createTaskGraph == <<{}, {1}, {1}, {2, 3}, {4}>>

Tasks == 1..(MaxTask + FreeTasks)

Dependencies(t) == IF t <= MaxTask THEN createTaskGraph[t] ELSE {}

SchedulerInit ==
    /\ maxRetries = [t \in Tasks |-> -1]
    /\ taskQueue = <<>>
    /\ pendingTasks = {} /\ runningTasks = {} /\ completedTasks = {} /\ failedTasks = {}
    /\ round = <<>>
    /\ localQueue = [w \in Workers |-> <<>>] /\ isIdle = [w \in Workers |-> FALSE]
    /\ doing = [w \in Workers |-> 0]
    /\ stopping = "no"

Unlocked == round = <<>>

NotTables == UNCHANGED <<pendingTasks, runningTasks, completedTasks, failedTasks>>

NotWorkers == UNCHANGED <<localQueue, isIdle, doing, stopping>>

submitTask(t, r) ==
    /\ maxRetries[t] = -1 /\ Unlocked
    /\ maxRetries' = [maxRetries EXCEPT ![t] = r]
    /\ pendingTasks' = pendingTasks \cup {t}
    /\ taskQueue' = Append(taskQueue, t)
    /\ UNCHANGED <<runningTasks, completedTasks, failedTasks, round>> /\ NotWorkers

Listed(w) == w # 0 \/ stopping # "removed"

\* In the order of s.workers.
getAvailableWorkers ==
    SelectSeq([i \in 1..Cardinality(Workers) |-> i - 1], LAMBDA w : Listed(w) /\ isIdle[w])

\* The scheduler's lock is taken and kept while tasks are handed out.
scheduleTasks ==
    /\ Unlocked /\ taskQueue # <<>> /\ getAvailableWorkers # <<>>
    /\ round' = getAvailableWorkers
    /\ UNCHANGED <<maxRetries, taskQueue>> /\ NotTables /\ NotWorkers

\* Faulty: a task may go ahead of what it depends on.
dependenciesStarted(t) == Dependencies(t) \subseteq completedTasks \cup runningTasks

dependenciesMet(t) == Dependencies(t) \subseteq completedTasks

\* Faulty: the worker stays idle in the scheduler's eyes.
assignTaskIdle(w, t) ==
    /\ localQueue' = [localQueue EXCEPT ![w] = Append(@, t)]
    /\ UNCHANGED isIdle

assignTask(w, t) ==
    /\ localQueue' = [localQueue EXCEPT ![w] = Append(@, t)]
    /\ isIdle' = [isIdle EXCEPT ![w] = FALSE]

\* One turn of the loop over the idle workers; a task that must wait goes to the end of the
\* queue, and this worker gets nothing in this round.
ScheduleNext ==
    /\ ~Unlocked /\ taskQueue # <<>>
    /\ LET w == Head(round) t == Head(taskQueue)
       IN IF dependenciesMet(t)
          THEN /\ assignTask(w, t)
               /\ taskQueue' = Tail(taskQueue)
               /\ runningTasks' = runningTasks \cup {t}
               /\ pendingTasks' = pendingTasks \ {t}
               /\ UNCHANGED <<doing, stopping>>
          ELSE /\ taskQueue' = Append(Tail(taskQueue), t)
               /\ UNCHANGED <<runningTasks, pendingTasks>> /\ NotWorkers
    /\ round' = Tail(round)
    /\ UNCHANGED <<maxRetries, completedTasks, failedTasks>>

ScheduleBreaks ==
    /\ ~Unlocked /\ taskQueue = <<>>
    /\ round' = <<>>
    /\ UNCHANGED <<maxRetries, taskQueue>> /\ NotTables /\ NotWorkers

Loads(thief) == {Len(localQueue[w]) : w \in {x \in Workers \ {thief} : Listed(x)}}

\* One idle worker after the other; half of the longest queue moves, if it is longer than 1.
\* The counts of attempts are metrics.
balanceWork(thief) ==
    /\ Listed(thief) /\ isIdle[thief]
    /\ IF \E n \in Loads(thief) : n > 1
       THEN \E victim \in Workers \ {thief} :
              LET n == Len(localQueue[victim])
              IN /\ Listed(victim) /\ \A m \in Loads(thief) : m <= n
                 /\ localQueue' = [localQueue EXCEPT
                      ![victim] = SubSeq(@, n \div 2 + 1, n),
                      ![thief] = @ \o SubSeq(localQueue[victim], 1, n \div 2)]
       ELSE UNCHANGED localQueue
    /\ UNCHANGED <<maxRetries, taskQueue, round, isIdle, doing, stopping>> /\ NotTables

Stopped(w) == w = 0 /\ stopping # "no"

\* processTask up to executeTask.
TakeTask(w) ==
    /\ doing[w] = 0 /\ ~Stopped(w)
    /\ IF localQueue[w] = <<>>
       THEN isIdle' = [isIdle EXCEPT ![w] = TRUE] /\ UNCHANGED <<localQueue, doing>>
       ELSE /\ doing' = [doing EXCEPT ![w] = Head(localQueue[w])]
            /\ localQueue' = [localQueue EXCEPT ![w] = Tail(@)]
            /\ isIdle' = [isIdle EXCEPT ![w] = FALSE]
    /\ UNCHANGED <<maxRetries, taskQueue, round, stopping>> /\ NotTables

\* Faulty: a task that failed and may be tried again counts as completed.
TaskFailsDone(t) ==
    /\ failedTasks' = failedTasks \cup {t}
    /\ pendingTasks' = IF 1 < maxRetries[t] THEN pendingTasks \cup {t} ELSE pendingTasks
    /\ completedTasks' = completedTasks \cup {t}
    /\ UNCHANGED runningTasks

\* RetryCount is 1 now: nothing puts the task back into the queue, or takes it out of
\* runningTasks.
TaskFails(t) ==
    /\ failedTasks' = failedTasks \cup {t}
    /\ pendingTasks' = IF 1 < maxRetries[t] THEN pendingTasks \cup {t} ELSE pendingTasks
    /\ UNCHANGED <<runningTasks, completedTasks>>

TaskCompletes(t) ==
    /\ completedTasks' = completedTasks \cup {t}
    /\ runningTasks' = runningTasks \ {t}
    /\ UNCHANGED <<pendingTasks, failedTasks>>

\* executeTask fails or succeeds by chance, or its context has run out; the tables are
\* updated under the scheduler's lock.
ExecuteTask(w) ==
    /\ doing[w] > 0 /\ Unlocked
    /\ TaskFails(doing[w]) \/ TaskCompletes(doing[w])
    /\ doing' = [doing EXCEPT ![w] = 0]
    /\ UNCHANGED <<maxRetries, taskQueue, round, localQueue, isIdle, stopping>>

WorkerEnds(w) ==
    /\ doing[w] = 0 /\ Stopped(w)
    /\ doing' = [doing EXCEPT ![w] = -1]
    /\ UNCHANGED <<maxRetries, taskQueue, round, localQueue, isIdle, stopping>> /\ NotTables

\* close(workers[0].stopCh), then workers[0] = nil, without a lock.
FailWorker ==
    /\ stopping # "removed"
    /\ stopping' = IF stopping = "no" THEN "closed" ELSE "removed"
    /\ UNCHANGED <<maxRetries, taskQueue, round, localQueue, isIdle, doing>> /\ NotTables

SchedulerRuns == scheduleTasks \/ ScheduleNext \/ ScheduleBreaks

WorkerRuns(w) == TakeTask(w) \/ ExecuteTask(w) \/ WorkerEnds(w)

SchedulerNext ==
    \/ \E t \in Tasks, r \in Retries : submitTask(t, r)
    \/ SchedulerRuns
    \/ \E w \in Workers : WorkerRuns(w) \/ balanceWork(w)
    \/ FailWorker
-----------------------------------------------------------------------------
Times(t, s) == Cardinality({i \in DOMAIN s : s[i] = t})

\* How many places hold the task: the queue, the local queues, a worker.
Copies(t) ==
    Times(t, taskQueue) + Cardinality({w \in Workers : doing[w] = t})
      + Cardinality(UNION {{w} \X {i \in DOMAIN localQueue[w] : localQueue[w][i] = t} : w \in Workers})

Assigned == {t \in Tasks : \E w \in Workers : doing[w] = t \/ Times(t, localQueue[w]) > 0}

\* A task is in one place from its submission until it completes or fails, whatever the
\* balancer does: no local queue ever has two tasks, so nothing is ever stolen. No task is with
\* a worker before all it depends on is completed, and none of that has failed. And the tables: pendingTasks has what is
\* queued and what failed with retries left (which nothing runs again), runningTasks keeps
\* what failed.
SchedulerRight ==
    /\ \A t \in Tasks :
         Copies(t) = IF maxRetries[t] = -1 \/ t \in completedTasks \cup failedTasks THEN 0 ELSE 1
    /\ \A w \in Workers : Len(localQueue[w]) <= 1
    /\ \A t \in Assigned : Dependencies(t) \subseteq completedTasks \ failedTasks
    /\ pendingTasks = {t \in Tasks : Times(t, taskQueue) > 0} \cup {t \in failedTasks : maxRetries[t] > 1}
    /\ runningTasks = Assigned \cup failedTasks

\* A task without dependencies is waiting for a worker.
WaitsForWorker == \E t \in Tasks : Dependencies(t) = {} /\ Times(t, taskQueue) > 0

FreeTasksHandedOut == \A t \in Tasks : Dependencies(t) = {} => Times(t, taskQueue) = 0
=============================================================================
