------------------------- MODULE ConsistencyModels --------------------------
(***************************************************************************)
(* Challenge 12, solutions/challenge12_solution.go: two-phase commit,      *)
(* sagas and the CQRS read model, run one after the other by               *)
(* Challenge12_ConsistencySolution. Their variables are apart.             *)
(***************************************************************************)
EXTENDS Integers, FiniteSets, Sequences, FiniteSetsExt

CONSTANTS
    Participants,
    Txs,                         \* calls of executeTx; a transaction writes its own name
    NoData,                      \* no value yet
    Orders,                      \* an order is its number of units, which cost 1 each
    stock,                       \* the initial inventory
    credit,                      \* and balance
    UserCommands,                \* calls of createUser or updateUser
    Fields

\* A transaction has finitely many participants, and there are finitely many transactions.
ASSUME CommitAssumption == IsFiniteSet(Participants) /\ IsFiniteSet(Txs)

VARIABLES
    prepared,                    \* participant -> transactions prepared there
    storedData,                  \* participant -> the key's value, or NoData
    versions,                    \* participant -> the key's version
    toPrepare,                   \* transaction -> participants whose goroutine has not run yet
    votes,                       \* transaction -> votes received
    toCommit,                    \* transaction -> participants whose commit goroutine has not run yet
    phase,                       \* transaction -> where executeTx is
    written,                     \* transaction -> participants that have written it
    inventory, balance,
    step,                        \* order -> the step executed (1 .. 3) or compensated; 4 when complete
    mode,                        \* order -> "check" or "change" of its step, "undo", "failed", "complete"
    executed,                    \* order -> steps marked Executed
    events,                      \* the store: type, and the Data map as it is now
    original,                    \* the Data maps as they were appended, a history
    user,                        \* version of the event whose Data is the user's map, 0 if there is no user
    version,                     \* userVersions of the user
    mine,                        \* command -> its event's version, 0 before; -1 when projected
    overlapped                   \* two commands have run side by side, a history

(***************************************************************************)
(* solution1_TwoPhaseCommit of solutions/challenge12_solution.go: executeTx *)
(* prepares a write at all participants, counts their votes and commits,   *)
(* every participant in a goroutine of its own under the participant's     *)
(* lock. All transactions write one key. A participant always votes yes,   *)
(* so the code never calls abort.                                          *)
(***************************************************************************)

commitVars == <<prepared, storedData, versions, toPrepare, votes, toCommit, phase, written>>

CommitTypeOK ==
    /\ prepared \in [Participants -> SUBSET Txs]
    /\ storedData \in [Participants -> Txs \cup {NoData}]
    /\ versions \in [Participants -> 0 .. Cardinality(Txs)]
    /\ toPrepare \in [Txs -> SUBSET Participants]
    /\ votes \in [Txs -> 0 .. Cardinality(Participants)]
    /\ toCommit \in [Txs -> SUBSET Participants]
    /\ phase \in [Txs -> {"idle", "prepare", "commit", "done"}]
    /\ written \in [Txs -> SUBSET Participants]

CommitInit ==
    /\ prepared = [p \in Participants |-> {}]
    /\ storedData = [p \in Participants |-> NoData]
    /\ versions = [p \in Participants |-> 0]
    /\ toPrepare = [t \in Txs |-> {}]
    /\ votes = [t \in Txs |-> 0]
    /\ toCommit = [t \in Txs |-> {}]
    /\ phase = [t \in Txs |-> "idle"]
    /\ written = [t \in Txs |-> {}]
-----------------------------------------------------------------------------
\* prepare starts a goroutine for every participant ...
Begin(t) ==
    /\ phase[t] = "idle"
    /\ phase' = [phase EXCEPT ![t] = "prepare"]
    /\ toPrepare' = [toPrepare EXCEPT ![t] = Participants]
    /\ UNCHANGED <<prepared, storedData, versions, votes, toCommit, written>>

\* Faulty Prepare: a participant can vote again.
PrepareAgain(t, p) ==
    /\ p \in toPrepare[t]
    /\ prepared' = [prepared EXCEPT ![p] = @ \cup {t}]
    /\ votes' = [votes EXCEPT ![t] = @ + 1]
    /\ UNCHANGED <<toPrepare, storedData, versions, toCommit, phase, written>>

\* ... which records the transaction and votes yes.
Prepare(t, p) ==
    /\ p \in toPrepare[t]
    /\ toPrepare' = [toPrepare EXCEPT ![t] = @ \ {p}]
    /\ prepared' = [prepared EXCEPT ![p] = @ \cup {t}]
    /\ votes' = [votes EXCEPT ![t] = @ + 1]
    /\ UNCHANGED <<storedData, versions, toCommit, phase, written>>

\* Faulty AllVoted: one vote is not waited for.
AllVotedButOne(t) == votes[t] >= Cardinality(Participants) - 1

\* The loop has received a vote of every participant.
AllVoted(t) == votes[t] = Cardinality(Participants)

Decide(t) ==
    /\ phase[t] = "prepare"
    /\ AllVoted(t)
    /\ phase' = [phase EXCEPT ![t] = "commit"]
    /\ toCommit' = [toCommit EXCEPT ![t] = Participants]
    /\ UNCHANGED <<prepared, storedData, versions, toPrepare, votes, written>>

\* A commit goroutine writes what is prepared, if it is.
Commit(t, p) ==
    /\ p \in toCommit[t]
    /\ toCommit' = [toCommit EXCEPT ![t] = @ \ {p}]
    /\ IF t \in prepared[p]
         THEN /\ storedData' = [storedData EXCEPT ![p] = t]
              /\ versions' = [versions EXCEPT ![p] = @ + 1]
              /\ prepared' = [prepared EXCEPT ![p] = @ \ {t}]
              /\ written' = [written EXCEPT ![t] = @ \cup {p}]
         ELSE UNCHANGED <<storedData, versions, prepared, written>>
    /\ UNCHANGED <<toPrepare, votes, phase>>

\* wg.Wait() returns.
Return(t) ==
    /\ phase[t] = "commit"
    /\ toCommit[t] = {}
    /\ phase' = [phase EXCEPT ![t] = "done"]
    /\ UNCHANGED <<prepared, storedData, versions, toPrepare, votes, toCommit, written>>

CommitNext ==
    \E t \in Txs :
        \/ Begin(t) \/ Decide(t) \/ Return(t)
        \/ \E p \in Participants : Prepare(t, p) \/ Commit(t, p)

CommitSpec == CommitInit /\ [][CommitNext]_commitVars
-----------------------------------------------------------------------------
\* No participant writes a transaction before all have prepared it; one that returned is
\* written everywhere, leaves nothing prepared, and in a quiet state the participants
\* agree on the version. (They need not agree on the value: two transactions that commit
\* side by side may reach two participants in different orders.)
AllOrNothing ==
    /\ \A t \in Txs : written[t] # {} =>
          \A p \in Participants : p \in written[t] \/ t \in prepared[p]
    /\ \A t \in Txs : phase[t] = "done" =>
          written[t] = Participants /\ \A p \in Participants : t \notin prepared[p]
    /\ (\A t \in Txs : phase[t] \in {"idle", "done"}) =>
          \A p \in Participants : versions[p] = Cardinality({t \in Txs : phase[t] = "done"})

(***************************************************************************)
(* solution2_SagaPattern of solutions/challenge12_solution.go: sagas that  *)
(* reserve stock, take a payment and arrange the delivery, and undo the    *)
(* executed steps in reverse when one fails. Every saga has a lock of its  *)
(* own, but stock and balance are shared atomics that a step loads,        *)
(* compares and then changes.                                              *)
(***************************************************************************)

orderVars == <<inventory, balance, step, mode, executed>>

OrderTypeOK ==
    /\ inventory \in Int /\ balance \in Int
    /\ step \in [Orders -> 0 .. 4]
    /\ mode \in [Orders -> {"check", "change", "undo", "failed", "complete"}]
    /\ executed \in [Orders -> SUBSET (1 .. 3)]

OrderInit ==
    /\ inventory = stock
    /\ balance = credit
    /\ step = [o \in Orders |-> 1]
    /\ mode = [o \in Orders |-> "check"]
    /\ executed = [o \in Orders |-> {}]
-----------------------------------------------------------------------------
\* What the step's Load finds is enough; the delivery may fail.
Enough(o) ==
    CASE step[o] = 1 -> inventory >= o
      [] step[o] = 2 -> balance >= o
      [] step[o] = 3 -> TRUE

Check(o) ==
    /\ mode[o] = "check"
    /\ Enough(o)
    /\ mode' = [mode EXCEPT ![o] = "change"]
    /\ UNCHANGED <<inventory, balance, step, executed>>

\* Faulty FirstUndone: the compensation begins one step too early.
FirstUndoneEarly(i) == i - 2

\* for j := i - 1
FirstUndone(i) == i - 1

\* The step fails, and the compensation begins.
Fail(o) ==
    /\ mode[o] = "check"
    /\ ~Enough(o) \/ step[o] = 3
    /\ LET j == FirstUndone(step[o])
       IN  /\ step' = [step EXCEPT ![o] = IF j > 0 THEN j ELSE 0]
           /\ mode' = [mode EXCEPT ![o] = IF j > 0 THEN "undo" ELSE "failed"]
    /\ UNCHANGED <<inventory, balance, executed>>

\* The step's Add, and step.Executed = true.
Change(o) ==
    /\ mode[o] = "change"
    /\ inventory' = IF step[o] = 1 THEN inventory - o ELSE inventory
    /\ balance' = IF step[o] = 2 THEN balance - o ELSE balance
    /\ executed' = [executed EXCEPT ![o] = @ \cup {step[o]}]
    /\ step' = [step EXCEPT ![o] = @ + 1]
    /\ mode' = [mode EXCEPT ![o] = IF step[o] = 3 THEN "complete" ELSE "check"]

\* Compensate of the executed steps, in reverse.
Undo(o) ==
    /\ mode[o] = "undo"
    /\ step[o] \in executed[o]
    /\ inventory' = IF step[o] = 1 THEN inventory + o ELSE inventory
    /\ balance' = IF step[o] = 2 THEN balance + o ELSE balance
    /\ step' = [step EXCEPT ![o] = @ - 1]
    /\ mode' = [mode EXCEPT ![o] = IF step[o] = 1 THEN "failed" ELSE "undo"]
    /\ UNCHANGED executed

OrderNext == \E o \in Orders : Check(o) \/ Fail(o) \/ Change(o) \/ Undo(o)

-----------------------------------------------------------------------------
Total(orders) == SumSet(orders)

OrderQuiet == \A o \in Orders : mode[o] \in {"failed", "complete"}

\* When all sagas have ended, stock and balance are short of exactly what the complete
\* ones took: a failed saga has undone every step it executed, and never more than it
\* executed. (Sagas that both saw enough can overdraw together.)
FailedLeavesNothing ==
    /\ OrderQuiet => LET complete == {o \in Orders : mode[o] = "complete"}
                IN  /\ inventory = stock - Total(complete)
                    /\ balance = credit - Total(complete)
    /\ inventory <= stock /\ balance <= credit

(***************************************************************************)
(* solution3_EventSourcingCQRS of solutions/challenge12_solution.go: a     *)
(* command appends an event under the store's lock and projects it under   *)
(* the read model's, so two commands may project the other way round. The  *)
(* projection of UserCreated keeps the event's own Data map and later      *)
(* updates write into it. One user; a field's value is the version of the  *)
(* event that set it, 0 where it is not set.                               *)
(***************************************************************************)

userVars == <<events, original, user, version, mine, overlapped>>

N == Cardinality(UserCommands)

Maps == [Fields -> 0 .. N]

UserTypeOK ==
    /\ Len(events) <= N
    /\ \A i \in DOMAIN events : events[i].type \in {"created", "updated"} /\ events[i].data \in Maps
    /\ Len(original) = Len(events)
    /\ user \in 0 .. N
    /\ version \in 0 .. N
    /\ mine \in [UserCommands -> -1 .. N]
    /\ overlapped \in BOOLEAN

UserInit ==
    /\ events = <<>>
    /\ original = <<>>
    /\ user = 0
    /\ version = 0
    /\ mine = [c \in UserCommands |-> 0]
    /\ overlapped = FALSE
-----------------------------------------------------------------------------
\* appendEvent; createUser sets every field, updateUser some of them.
AppendEvent(c, type, fields) ==
    /\ mine[c] = 0
    /\ LET v == Len(events) + 1
           data == [f \in Fields |-> IF f \in fields THEN v ELSE 0]
       IN  /\ events' = Append(events, [type |-> type, data |-> data])
           /\ original' = Append(original, data)
           /\ mine' = [mine EXCEPT ![c] = v]
    /\ overlapped' = (overlapped \/ \E d \in UserCommands : mine[d] > 0)
    /\ UNCHANGED <<user, version>>

Create(c) == AppendEvent(c, "created", Fields)

Update(c, fields) == AppendEvent(c, "updated", fields)

Merged(old, new) == [f \in Fields |-> IF new[f] # 0 THEN new[f] ELSE old[f]]

\* The read model, and the store whose Data maps it shares.
Model(log, u, v) == [log |-> log, user |-> u, version |-> v]

\* Faulty Projected: an update of an unknown user makes its map the user's.
ProjectedUnknown(m, v) ==
    IF m.log[v].type = "created" \/ m.user = 0 THEN Model(m.log, v, v)
    ELSE Model([m.log EXCEPT ![m.user].data = Merged(@, m.log[v].data)], m.user, v)

\* projectEvent of the event with version v. No command appends a UserDeleted: its case
\* never runs.
Projected(m, v) ==
    IF m.log[v].type = "created" THEN Model(m.log, v, v)
    ELSE IF m.user = 0 THEN m
    ELSE Model([m.log EXCEPT ![m.user].data = Merged(@, m.log[v].data)], m.user, v)

Become(m) == events' = m.log /\ user' = m.user /\ version' = m.version

\* The command goes on with projectEvent.
ProjectEvent(c) ==
    /\ mine[c] > 0
    /\ Become(Projected(Model(events, user, version), mine[c]))
    /\ mine' = [mine EXCEPT ![c] = -1]
    /\ UNCHANGED <<original, overlapped>>

\* The projection of the events up to v, one after the other.
Replayed[v \in 0 .. N] ==
    IF v = 0 THEN Model(events, 0, 0) ELSE Projected(Replayed[v - 1], v)

\* The maps are made anew and replayEvents(0) runs, with no command beside it.
Replay ==
    /\ \A c \in UserCommands : mine[c] <= 0
    /\ Become(Replayed[Len(events)])
    /\ UNCHANGED <<original, mine, overlapped>>

UserNext ==
    \/ \E c \in UserCommands :
          Create(c) \/ ProjectEvent(c) \/ \E fields \in SUBSET Fields \ {{}} : Update(c, fields)
    \/ Replay

-----------------------------------------------------------------------------
\* The user's map as the appended events give it.
Expected[v \in 0 .. N] ==
    IF v = 0 THEN [f \in Fields |-> 0]
    ELSE IF events[v].type = "created" THEN original[v]
    ELSE IF \A i \in 1 .. v : events[i].type # "created" THEN Expected[v - 1]
    ELSE Merged(Expected[v - 1], original[v])

UserQuiet == \A c \in UserCommands : mine[c] <= 0

Shown == IF user = 0 THEN [f \in Fields |-> 0] ELSE events[user].data

\* As long as commands did not run side by side, the read model shows what was appended,
\* before and after replays, although it writes into the stored events. However they
\* interleave, it writes into the maps of created events only: an update keeps the fields
\* that were appended with it.
ShowsWhatWasAppended ==
    /\ UserQuiet /\ ~overlapped => Shown = Expected[Len(events)]
    /\ \A i \in DOMAIN events : events[i].type = "updated" => events[i].data = original[i]
=============================================================================
