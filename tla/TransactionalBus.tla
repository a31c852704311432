-------------------------- MODULE TransactionalBus --------------------------
(***************************************************************************)
(* Transactions on the message bus (ExactlyOnceMessageBus in               *)
(* solutions/solution18_message_bus.go): SendTransactional buffers a       *)
(* message in its transaction, CommitTransaction sends the buffer through  *)
(* Send, one message after another.                                        *)
(*                                                                         *)
(* SendTransactional reads tx.State outside txManager.mu. A torn read of   *)
(* the string cannot yield "pending" again once it was overwritten, so the *)
(* racy read is modelled by an atomic one.                                 *)
(***************************************************************************)
EXTENDS Integers, Sequences, FiniteSets

CONSTANTS
    Txs,
    Msgs,       \* messages; each is handed to SendTransactional once
    TxOf,       \* message -> its transaction
    Place,      \* message -> <<topic, partition>>; selectPartition(key) is fixed per key
    Commits     \* calls of CommitTransaction, a bound on retries

\* Every message has a transaction and a place, the calls of CommitTransaction are finitely many,
\* and a transaction is not a state of a call.
ASSUME TxAssumption ==
    /\ TxOf \in [Msgs -> Txs]
    /\ Place = [m \in Msgs |-> Place[m]]
    /\ IsFiniteSet(Commits)
    /\ Txs \cap {"todo", "ok", "failed"} = {}

Places == {Place[m] : m \in Msgs}
TxTopicNames == {p[1] : p \in Places}

VARIABLES
    txTopics,  \* mb.topics
    log,       \* <<topic, partition>> -> partition.Messages
    state,     \* transaction -> tx.State, "none" before BeginTransaction
    buffer,    \* transaction -> tx.Messages
    send,      \* message -> progress of its SendTransactional
    call,      \* commit call -> progress of its CommitTransaction
    taken,     \* commit call -> the messages it read from the transaction
    txSent     \* commit call -> how many of them it has sent

txVars == <<txTopics, log, state, buffer, send, call, taken, txSent>>

TxTypeOK ==
    /\ txTopics \subseteq TxTopicNames
    /\ log \in [Places -> Seq(Msgs)]
    /\ state \in [Txs -> {"none", "pending", "committed", "aborted"}]
    /\ buffer \in [Txs -> Seq(Msgs)]
    /\ send \in [Msgs -> {"todo", "checked", "accepted", "refused"}]
    /\ call \in [Commits -> {"todo", "ok", "failed"} \cup Txs]
    /\ taken \in [Commits -> Seq(Msgs)]
    /\ txSent \in [Commits -> Nat] /\ \A k \in Commits : txSent[k] <= Len(taken[k])

TxInit ==
    /\ txTopics = {}
    /\ log = [p \in Places |-> <<>>]
    /\ state = [x \in Txs |-> "none"]
    /\ buffer = [x \in Txs |-> <<>>]
    /\ send = [m \in Msgs |-> "todo"]
    /\ call = [k \in Commits |-> "todo"]
    /\ taken = [k \in Commits |-> <<>>]
    /\ txSent = [k \in Commits |-> 0]
-----------------------------------------------------------------------------
TxCreateTopic(t) ==
    /\ t \notin txTopics
    /\ txTopics' = txTopics \cup {t}
    /\ UNCHANGED <<log, state, buffer, send, call, taken, txSent>>

BeginTransaction(x) ==
    /\ state[x] = "none"
    /\ state' = [state EXCEPT ![x] = "pending"]
    /\ UNCHANGED <<txTopics, log, buffer, send, call, taken, txSent>>

\* SendTransactional up to its test of tx.State.
SendCheck(m) ==
    /\ send[m] = "todo"
    /\ state[TxOf[m]] # "none"
    /\ send' = [send EXCEPT ![m] = IF state[TxOf[m]] = "pending" THEN "checked" ELSE "refused"]
    /\ UNCHANGED <<txTopics, log, state, buffer, call, taken, txSent>>

\* SendTransactional's append, under txManager.mu, which does not look again.
SendAppend(m) ==
    /\ send[m] = "checked"
    /\ buffer' = [buffer EXCEPT ![TxOf[m]] = Append(@, m)]
    /\ send' = [send EXCEPT ![m] = "accepted"]
    /\ UNCHANGED <<txTopics, log, state, call, taken, txSent>>

\* CommitTransaction under txManager.mu. tx.State is set, never tested.
CommitStart(k, x) ==
    /\ call[k] = "todo"
    /\ state[x] # "none"
    /\ state' = [state EXCEPT ![x] = "committed"]
    /\ taken' = [taken EXCEPT ![k] = buffer[x]]
    /\ call' = [call EXCEPT ![k] = x]
    /\ UNCHANGED <<txTopics, log, buffer, send, txSent>>

Committing(k) == call[k] \in Txs

More(k) == txSent[k] < Len(taken[k])

NextMsg(k) == taken[k][txSent[k] + 1]

\* Faulty Sent: the loop skips every other message.
SentTwo(k) == IF txSent[k] + 2 <= Len(taken[k]) THEN txSent[k] + 2 ELSE Len(taken[k])

Sent(k) == txSent[k] + 1

Logged(k) == [log EXCEPT ![Place[NextMsg(k)]] = Append(@, NextMsg(k))]

\* One Send of the loop: the topic exists, the message goes to its partition.
CommitSend(k) ==
    /\ Committing(k) /\ More(k)
    /\ Place[NextMsg(k)][1] \in txTopics
    /\ log' = Logged(k)
    /\ txSent' = [txSent EXCEPT ![k] = Sent(k)]
    /\ UNCHANGED <<txTopics, state, buffer, send, call, taken>>

\* Send fails ("topic not found"): tx.State becomes aborted, the error is returned
\* and what was sent stays sent.
CommitFail(k) ==
    /\ Committing(k) /\ More(k)
    /\ Place[NextMsg(k)][1] \notin txTopics
    /\ state' = [state EXCEPT ![call[k]] = "aborted"]
    /\ call' = [call EXCEPT ![k] = "failed"]
    /\ UNCHANGED <<txTopics, log, buffer, send, taken, txSent>>

CommitReturn(k) ==
    /\ Committing(k) /\ ~More(k)
    /\ call' = [call EXCEPT ![k] = "ok"]
    /\ UNCHANGED <<txTopics, log, state, buffer, send, taken, txSent>>

TxNext ==
    \/ \E t \in TxTopicNames : TxCreateTopic(t)
    \/ \E x \in Txs : BeginTransaction(x)
    \/ \E m \in Msgs : SendCheck(m) \/ SendAppend(m)
    \/ \E k \in Commits : \/ \E x \in Txs : CommitStart(k, x)
                          \/ CommitSend(k) \/ CommitFail(k) \/ CommitReturn(k)

TxSpec == TxInit /\ [][TxNext]_txVars
-----------------------------------------------------------------------------
Logs(m) == {i \in DOMAIN log[Place[m]] : log[Place[m]][i] = m}

Attempts(m) == {k \in Commits : \E i \in DOMAIN taken[k] : taken[k][i] = m}

\* A message is never in its partition more often than CommitTransaction was called
\* on it, so a transaction committed once is not duplicated, and a message no commit
\* took (in particular one of a pending transaction) is not visible to consumers.
OncePerCommit == \A m \in Msgs : Cardinality(Logs(m)) <= Cardinality(Attempts(m))

\* A CommitTransaction that returns nil has sent everything it found in the buffer.
CommitIsComplete ==
    \A k \in Commits : call[k] = "ok" =>
        \A i \in DOMAIN taken[k] : Logs(taken[k][i]) # {}

\* However often a transaction is committed and however its commits interleave, two
\* of its messages in one partition first appear there in the order they were sent.
FirstSentInOrder ==
    \A x \in Txs : \A i, j \in DOMAIN buffer[x] :
        LET a == buffer[x][i]  b == buffer[x][j] IN
        i < j /\ Place[a] = Place[b] /\ Logs(b) # {} =>
            \E l \in Logs(a) : \A n \in Logs(b) : l < n

\* What a commit guarantees about the log, all together.
CommittedLog == OncePerCommit /\ CommitIsComplete /\ FirstSentInOrder

\* "Send all messages atomically": an aborted transaction has sent nothing.
AtomicCommit ==
    \A m \in Msgs : state[TxOf[m]] = "aborted" => Logs(m) = {}
=============================================================================
