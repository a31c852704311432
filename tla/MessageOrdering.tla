-------------------------- MODULE MessageOrdering ---------------------------
(***************************************************************************)
(* Challenge 10, solutions/challenge10_solution.go: the three ways to      *)
(* order messages that Challenge10_MessageOrderingSolution runs one after  *)
(* the other. Their variables are apart.                                   *)
(***************************************************************************)
EXTENDS Integers, FiniteSets, Sequences, FiniteSetsExt, Functions

CONSTANTS
    Nodes,
    Senders,                     \* goroutines that call sendMessage once each
    None,
    Processes,                   \* numbered, as their IDs are compared
    Goroutines,
    MaxOps,                      \* sends and receives of a goroutine
    MaxSeq,                      \* the largest sequence number sent
    MaxAdds,                     \* bounds the calls of addMessage
    maxBufferSize

\* Senders and goroutines are finitely many, and None is neither a process, a clock nor a
\* message.
ASSUME OrderingAssumption ==
    /\ IsFiniteSet(Senders) /\ IsFiniteSet(Goroutines)
    /\ MaxOps \in Nat /\ MaxSeq \in Nat /\ MaxAdds \in Nat /\ maxBufferSize \in Nat
    /\ None \notin Processes /\ None \notin Nat
    /\ None \notin [sender : Nodes, VC : [Nodes -> 0 .. Cardinality(Senders)]]

VARIABLES
    VC,                          \* node -> its vector clock
    stamped,                     \* sender -> the message it has yet to put on the channel, or None
    used,                        \* senders that have called sendMessage
    broadcast,                   \* the channel
    copying,                     \* nodes that still get a copy of the channel's first message
    inbox,                       \* node -> its channel
    held,                        \* node -> messages held back (newPending during a pass)
    recheck,                     \* node -> messages the pass has still to check
    delivered,                   \* node -> messages delivered, in order
    overtaken,                   \* a message was sent before one that is causally earlier
    clock,                       \* process -> its clock
    messages,                    \* process -> messages it has sent or received
    ops,                         \* goroutine -> sends and receives it has begun
    at,                          \* goroutine -> the process it sends or receives on, or None
    msg,                         \* goroutine -> the message it sends or receives, or None
    local,                       \* goroutine -> the clock receive has loaded, or None
    nextSeq,
    pending,                     \* sequence numbers that wait
    overdue,                     \* more than the timeout has passed since the last delivery
    sequence,                    \* what went to deliveryChan, in order
    adds                         \* calls of addMessage

(***************************************************************************)
(* solution1_VectorClock of solutions/challenge10_solution.go: messages    *)
(* stamped with vector clocks, one channel that a goroutine copies to all  *)
(* inboxes, and nodes that hold a message back until it is causally ready. *)
(* sendMessage gives the node's lock back before it uses the channel, so   *)
(* two senders of one node may swap their messages.                        *)
(***************************************************************************)

causalVars == <<VC, stamped, used, broadcast, copying, inbox, held, recheck, delivered, overtaken>>

CausalMessage(n, vc) == [sender |-> n, VC |-> vc]

Clocks == [Nodes -> 0 .. Cardinality(Senders)]

Messages == [sender : Nodes, VC : Clocks]

CausalTypeOK ==
    /\ VC \in [Nodes -> Clocks]
    /\ \A s \in Senders : stamped[s] \in Messages \cup {None}
    /\ used \subseteq Senders
    /\ copying \subseteq Nodes
    /\ overtaken \in BOOLEAN
    /\ Range(broadcast) \subseteq Messages
    /\ \A n \in Nodes : Range(inbox[n] \o held[n] \o recheck[n] \o delivered[n]) \subseteq Messages

CausalInit ==
    /\ VC = [n \in Nodes |-> [m \in Nodes |-> 0]]
    /\ stamped = [s \in Senders |-> None]
    /\ used = {}
    /\ broadcast = <<>>
    /\ copying = {}
    /\ inbox = [n \in Nodes |-> <<>>]
    /\ held = [n \in Nodes |-> <<>>]
    /\ recheck = [n \in Nodes |-> <<>>]
    /\ delivered = [n \in Nodes |-> <<>>]
    /\ overtaken = FALSE
-----------------------------------------------------------------------------
Before(a, b) == a.VC # b.VC /\ \A k \in Nodes : a.VC[k] <= b.VC[k]

\* sendMessage stamps the message under the lock ...
CausalStamp(s, n) ==
    /\ s \notin used
    /\ used' = used \cup {s}
    /\ VC' = [VC EXCEPT ![n][n] = @ + 1]
    /\ stamped' = [stamped EXCEPT ![s] = CausalMessage(n, VC'[n])]
    /\ UNCHANGED <<broadcast, copying, inbox, held, recheck, delivered, overtaken>>

\* ... and sends it after the unlock.
CausalSend(s) ==
    /\ stamped[s] # None
    /\ broadcast' = Append(broadcast, stamped[s])
    /\ overtaken' = (overtaken \/ \E r \in Senders : stamped[r] # None /\ Before(stamped[r], stamped[s]))
    /\ stamped' = [stamped EXCEPT ![s] = None]
    /\ UNCHANGED <<VC, used, copying, inbox, held, recheck, delivered>>

\* The broadcasting goroutine takes a message and copies it to the other nodes' inboxes,
\* in the order of a map.
Copy(n) ==
    /\ broadcast # <<>>
    /\ LET others == IF copying = {} THEN Nodes \ {Head(broadcast).sender} ELSE copying
       IN  /\ n \in others
           /\ inbox' = [inbox EXCEPT ![n] = Append(@, Head(broadcast))]
           /\ copying' = others \ {n}
           /\ broadcast' = IF others = {n} THEN Tail(broadcast) ELSE broadcast
    /\ UNCHANGED <<VC, stamped, used, held, recheck, delivered, overtaken>>

\* Faulty isCausallyReady: any later message of the sender will do.
isCausallyReadyGap(m, vc) ==
    /\ m.VC[m.sender] > vc[m.sender]
    /\ \A k \in Nodes \ {m.sender} : m.VC[k] <= vc[k]

\* isCausallyReady: one past the sender's count, and nothing else unknown.
isCausallyReady(m, vc) ==
    /\ m.VC[m.sender] = vc[m.sender] + 1
    /\ \A k \in Nodes \ {m.sender} : m.VC[k] <= vc[k]

Merged(vc, m) == [k \in Nodes |-> IF m.VC[k] > vc[k] THEN m.VC[k] ELSE vc[k]]

Deliver(n, m) ==
    /\ VC' = [VC EXCEPT ![n] = Merged(@, m)]
    /\ delivered' = [delivered EXCEPT ![n] = Append(@, m)]

\* processMessages receives a message. A ready one is delivered, and the messages held
\* back are to be checked again; another one is held back.
CausalReceive(n) ==
    /\ recheck[n] = <<>>
    /\ inbox[n] # <<>>
    /\ inbox' = [inbox EXCEPT ![n] = Tail(@)]
    /\ LET m == Head(inbox[n])
       IN  IF isCausallyReady(m, VC[n])
             THEN /\ Deliver(n, m)
                  /\ recheck' = [recheck EXCEPT ![n] = held[n]]
                  /\ held' = [held EXCEPT ![n] = <<>>]
             ELSE /\ held' = [held EXCEPT ![n] = Append(@, m)]
                  /\ UNCHANGED <<VC, delivered, recheck>>
    /\ UNCHANGED <<stamped, used, broadcast, copying, overtaken>>

\* The next message of the one pass over those held back.
Recheck(n) ==
    /\ recheck[n] # <<>>
    /\ recheck' = [recheck EXCEPT ![n] = Tail(@)]
    /\ LET m == Head(recheck[n])
       IN  IF isCausallyReady(m, VC[n])
             THEN Deliver(n, m) /\ UNCHANGED held
             ELSE held' = [held EXCEPT ![n] = Append(@, m)] /\ UNCHANGED <<VC, delivered>>
    /\ UNCHANGED <<stamped, used, broadcast, copying, inbox, overtaken>>

CausalNext ==
    \/ \E s \in Senders : CausalSend(s) \/ \E n \in Nodes : CausalStamp(s, n)
    \/ \E n \in Nodes : Copy(n) \/ CausalReceive(n) \/ Recheck(n)

CausalSpec == CausalInit /\ [][CausalNext]_causalVars
-----------------------------------------------------------------------------
\* Causal delivery: no node delivers a message before one its sender had sent or
\* delivered earlier; it has no gap (all that is causally before a delivered message is
\* delivered, or its own) and delivers nothing twice.
CausalDelivery ==
    \A n \in Nodes :
        /\ IsInjective(delivered[n])
        /\ \A i, j \in DOMAIN delivered[n] : i < j => ~Before(delivered[n][j], delivered[n][i])
        /\ \A m \in Range(delivered[n]) : \A k \in Nodes \ {n} :
              m.VC[k] <= Cardinality({d \in Range(delivered[n]) : d.sender = k})

\* One pass over the messages held back may leave a ready one behind, for ever if nothing
\* more arrives. That takes a send that overtook another of its node between the stamp and
\* the channel: otherwise no node ever holds a message back.
HeldOnlyIfOvertaken == overtaken \/ \A n \in Nodes : held[n] = <<>> /\ recheck[n] = <<>>

(***************************************************************************)
(* solution2_LamportTimestamp of solutions/challenge10_solution.go:        *)
(* goroutines that send and receive on processes with atomic Lamport       *)
(* clocks. Two goroutines may use one process at the same time, so the     *)
(* CompareAndSwap of receive can fail and is tried again.                  *)
(***************************************************************************)

lamportVars == <<clock, messages, ops, at, msg, local>>

MaxClock == Cardinality(Goroutines) * MaxOps

\* A message; known are the messages its process had when it was stamped.
LamportMessage(p, ts, known) == [sender |-> p, timestamp |-> ts, known |-> known]

LamportStamp(m) == <<m.timestamp, m.sender>>

Stamps == (1 .. MaxClock) \X Processes

LamportTypeOK ==
    /\ clock \in [Processes -> 0 .. MaxClock]
    /\ \A p \in Processes : {LamportStamp(m) : m \in messages[p]} \subseteq Stamps
    /\ ops \in [Goroutines -> 0 .. MaxOps]
    /\ at \in [Goroutines -> Processes \cup {None}]
    /\ \A g \in Goroutines : msg[g] # None => LamportStamp(msg[g]) \in Stamps
    /\ local \in [Goroutines -> 0 .. MaxClock \cup {None}]

LamportInit ==
    /\ clock = [p \in Processes |-> 0]
    /\ messages = [p \in Processes |-> {}]
    /\ ops = [g \in Goroutines |-> 0]
    /\ at = [g \in Goroutines |-> None]
    /\ msg = [g \in Goroutines |-> None]
    /\ local = [g \in Goroutines |-> None]

Begin(g, p) ==
    /\ at[g] = None
    /\ ops[g] < MaxOps
    /\ ops' = [ops EXCEPT ![g] = @ + 1]
    /\ at' = [at EXCEPT ![g] = p]
-----------------------------------------------------------------------------
\* send: ts := tick(p), an atomic addition
LamportSend(g, p) ==
    /\ Begin(g, p)
    /\ clock' = [clock EXCEPT ![p] = @ + 1]
    /\ msg' = [msg EXCEPT ![g] =
                  LamportMessage(p, clock[p] + 1, {LamportStamp(m) : m \in messages[p]})]
    /\ UNCHANGED <<messages, local>>

\* receive of a message that was sent
LamportReceive(g, p, m) ==
    /\ Begin(g, p)
    /\ m \notin messages[p]
    /\ msg' = [msg EXCEPT ![g] = m]
    /\ local' = [local EXCEPT ![g] = clock[p]]
    /\ UNCHANGED <<clock, messages>>

\* Lamport's clock rule: max(local, received) + 1
NewClock(l, ts) == IF l >= ts THEN l + 1 ELSE ts + 1

\* Faulty Unmoved: the clock is stored without comparing.
UnmovedUnchecked(g) == TRUE

\* The comparison of CompareAndSwap
Unmoved(g) == clock[at[g]] = local[g]

\* CompareAndSwap, and another Load where it fails
Swap(g) ==
    /\ local[g] # None
    /\ IF Unmoved(g)
         THEN /\ clock' = [clock EXCEPT ![at[g]] = NewClock(local[g], msg[g].timestamp)]
              /\ local' = [local EXCEPT ![g] = None]
         ELSE /\ local' = [local EXCEPT ![g] = clock[at[g]]]
              /\ UNCHANGED clock
    /\ UNCHANGED <<messages, ops, at, msg>>

\* Both end by appending the message under the lock.
Record(g) ==
    /\ msg[g] # None
    /\ local[g] = None
    /\ messages' = [messages EXCEPT ![at[g]] = @ \cup {msg[g]}]
    /\ at' = [at EXCEPT ![g] = None]
    /\ msg' = [msg EXCEPT ![g] = None]
    /\ UNCHANGED <<clock, ops, local>>

Sent == UNION {messages[p] : p \in Processes}

LamportNext ==
    \E g \in Goroutines :
        \/ Swap(g)
        \/ Record(g)
        \/ \E p \in Processes : LamportSend(g, p) \/ \E m \in Sent : LamportReceive(g, p, m)

LamportSpec == LamportInit /\ [][LamportNext]_lamportVars
-----------------------------------------------------------------------------
\* The order of getTotalOrder: by timestamp, then by sender.
Less(a, b) == a[1] < b[1] \/ (a[1] = b[1] /\ a[2] < b[2])

\* The total order is one: two messages never share timestamp and sender (the ID they are
\* told apart by), and it extends causality: what a process knew comes before what it
\* then sends, however goroutines interleave on its clock.
TotalOrderIsCausal ==
    /\ \A m, n \in Sent : LamportStamp(m) = LamportStamp(n) => m = n
    /\ \A m \in Sent : \A k \in m.known : Less(k, LamportStamp(m))
    /\ \A p \in Processes : \A m \in messages[p] : m.timestamp <= clock[p]

(***************************************************************************)
(* solution3_SequenceNumberBuffer of solutions/challenge10_solution.go: a  *)
(* partition's messages are delivered by sequence number; later ones wait, *)
(* and a timeout skips what is missing. addMessage and every round of      *)
(* checkTimeouts hold the buffer's lock, so each is one step. Partitions   *)
(* share nothing but the lock: this is one of them.                        *)
(***************************************************************************)

sequencedVars == <<nextSeq, pending, overdue, sequence, adds>>

SequencedTypeOK ==
    /\ nextSeq \in 1 .. MaxSeq + 1
    /\ pending \subseteq 1 .. MaxSeq
    /\ overdue \in BOOLEAN
    /\ Range(sequence) \subseteq 1 .. MaxSeq
    /\ adds \in 0 .. MaxAdds

SequencedInit ==
    /\ nextSeq = 1
    /\ pending = {}
    /\ overdue = FALSE
    /\ sequence = <<>>
    /\ adds = 0
-----------------------------------------------------------------------------
\* The last number of the run that starts at n and goes on in the pending ones.
Run(n) == CHOOSE k \in n .. MaxSeq :
    k + 1 \notin pending /\ \A i \in n + 1 .. k : i \in pending

\* addMessage of the number expected: it and the ones that follow are delivered.
AddExpected(seq) ==
    /\ seq = nextSeq
    /\ nextSeq' = Run(seq) + 1
    /\ sequence' = sequence \o [i \in 1 .. Run(seq) - seq + 1 |-> seq + i - 1]
    /\ pending' = pending \ (seq .. Run(seq))
    /\ overdue' = FALSE

AddLater(seq) ==
    /\ seq > nextSeq
    /\ pending' = pending \cup {seq}
    /\ UNCHANGED <<nextSeq, overdue, sequence>>

\* A duplicate, or one that was skipped.
AddOld(seq) ==
    /\ seq < nextSeq
    /\ UNCHANGED <<nextSeq, pending, overdue, sequence>>

addMessage(seq) ==
    /\ adds < MaxAdds
    /\ adds' = adds + 1
    /\ AddExpected(seq) \/ AddLater(seq) \/ AddOld(seq)

\* Faulty NextAfterSkip: the number skipped to is expected again.
NextAfterSkip0(seq) == seq

\* pb.nextSeq = minSeq and, after the delivery, pb.nextSeq++
NextAfterSkip(seq) == seq + 1

\* What the overflow check leaves of the waiting ones.
Trimmed(waiting, next) ==
    IF Cardinality(waiting) > maxBufferSize
      THEN {s \in waiting : s >= next + maxBufferSize \div 2}
      ELSE waiting

\* Faulty TimedOut: a single waiting message is overlooked.
TimedOutMany == overdue /\ Cardinality(pending) > 1

\* now.Sub(pb.lastDelivery) > pb.timeout && len(pb.pending) > 0
TimedOut == overdue /\ pending # {}

\* A round of checkTimeouts. The timeout delivers one message, the smallest that waits;
\* then the buffer's size is checked.
checkTimeouts ==
    /\ pending # {}
    /\ IF TimedOut
         THEN LET minSeq == Min(pending)
              IN  /\ nextSeq' = NextAfterSkip(minSeq)
                  /\ sequence' = Append(sequence, minSeq)
                  /\ pending' = Trimmed(pending \ {minSeq}, nextSeq')
                  /\ overdue' = FALSE
         ELSE /\ pending' = Trimmed(pending, nextSeq)
              /\ UNCHANGED <<nextSeq, sequence, overdue>>
    /\ UNCHANGED adds

TimePasses ==
    /\ ~overdue
    /\ overdue' = TRUE
    /\ UNCHANGED <<nextSeq, pending, sequence, adds>>

SequencedNext == (\E seq \in 1 .. MaxSeq : addMessage(seq)) \/ checkTimeouts \/ TimePasses

SequencedSpec == SequencedInit /\ [][SequencedNext]_sequencedVars
-----------------------------------------------------------------------------
\* Through reordering, duplicates, skips and overflow, messages are delivered in order
\* and at most once, and what waits has not been passed over.
DeliveredInOrder ==
    /\ \A i, j \in DOMAIN sequence : i < j => sequence[i] < sequence[j]
    /\ \A i \in DOMAIN sequence : sequence[i] < nextSeq
    /\ \A seq \in pending : seq >= nextSeq

NobodyWaits == pending = {}

(***************************************************************************)
(* The three together.                                                     *)
(***************************************************************************)
orderingVars == <<causalVars, lamportVars, sequencedVars>>

OrderingInit == CausalInit /\ LamportInit /\ SequencedInit

OrderingNext ==
    \/ CausalNext /\ UNCHANGED <<lamportVars, sequencedVars>>
    \/ LamportNext /\ UNCHANGED <<causalVars, sequencedVars>>
    \/ SequencedNext /\ UNCHANGED <<causalVars, lamportVars>>

OrderingSpec == OrderingInit /\ [][OrderingNext]_orderingVars
-----------------------------------------------------------------------------
\* Messages are delivered in causal order, the total order by Lamport timestamps extends
\* causality, and a partition's messages leave its buffer by sequence number.
OrderKept ==
    /\ CausalTypeOK /\ CausalDelivery /\ HeldOnlyIfOvertaken
    /\ LamportTypeOK /\ TotalOrderIsCausal
    /\ SequencedTypeOK /\ DeliveredInOrder
=============================================================================
