----------------------- MODULE MessageOrderingProofs ------------------------
(***************************************************************************)
(* Theorems about the three ways of challenge 10 to order messages, for    *)
(* any number of nodes, senders, processes, goroutines and messages.       *)
(***************************************************************************)
EXTENDS CausalOrderProofs, FiniteSetTheorems, TLAPS

\* A set of numbers that is not empty has a least element.
LEMMA LeastNatural ==
    ASSUME NEW T \in SUBSET Nat, T # {}
    PROVE  \E x \in T : \A y \in T : x <= y
<1> DEFINE R == OpToRel(<, Nat)
<1>1. IsWellFoundedOn(R, Nat)
  BY NatLessThanWellFounded, Zenon
<1>2. \A x, y \in Nat : <<y, x>> \in R <=> y < x
  BY Zenon DEF OpToRel
<1> HIDE DEF R
<1>3. PICK x \in T : \A y \in T : ~(<<y, x>> \in R)
  BY <1>1, WFMin, Zenon
<1>4. \A y \in T : ~(y < x)
  BY <1>2, <1>3, Zenon
<1>5. \A y \in T : x <= y
  BY <1>4
<1>6. QED BY <1>5, Zenon

-----------------------------------------------------------------------------
(***************************************************************************)
(* The buffer with sequence numbers.                                       *)
(***************************************************************************)
Numbers == 1 .. MaxSeq

SequencedInv ==
    /\ nextSeq \in 1 .. MaxSeq + 1
    /\ pending \subseteq Numbers
    /\ overdue \in BOOLEAN
    /\ sequence \in Seq(Numbers)
    /\ adds \in 0 .. MaxAdds
    /\ DeliveredInOrder

\* The run of numbers that addMessage delivers ends: all in it wait, the next one does not.
LEMMA RunEnds ==
    ASSUME pending \subseteq Numbers, NEW n \in Numbers
    PROVE  /\ Run(n) \in n .. MaxSeq
           /\ Run(n) + 1 \notin pending
<1> USE OrderingAssumption DEF Numbers
<1> DEFINE T == {k \in n .. MaxSeq : k + 1 \notin pending}
<1>1. T \in SUBSET Nat /\ MaxSeq \in T
  OBVIOUS
<1>2. PICK k \in T : \A y \in T : k <= y
  <2> HIDE DEF T
  <2> QED BY <1>1, LeastNatural, Zenon
<1>3. \A i \in n + 1 .. k : i \in pending
  <2> SUFFICES ASSUME NEW i \in n + 1 .. k, i \notin pending PROVE FALSE
    BY Zenon
  <2>1. i - 1 \in T
    OBVIOUS
  <2>2. QED BY <1>2, <2>1
<1>4. \E j \in n .. MaxSeq : j + 1 \notin pending /\ \A i \in n + 1 .. j : i \in pending
  BY <1>3, Zenon
<1>5. QED BY ONLY <1>4, Zenon DEF Run

\* What is appended continues the increasing sequence below the next number expected.
LEMMA RunAppended ==
    ASSUME NEW s \in Seq(Numbers), NEW a \in Numbers, NEW b \in a .. MaxSeq,
           \A i, j \in DOMAIN s : i < j => s[i] < s[j],
           \A i \in DOMAIN s : s[i] < a,
           NEW t, t = s \o [i \in 1 .. b - a + 1 |-> a + i - 1]
    PROVE  /\ t \in Seq(Numbers)
           /\ \A i, j \in DOMAIN t : i < j => t[i] < t[j]
           /\ \A i \in DOMAIN t : t[i] < b + 1
<1> DEFINE run == [i \in 1 .. b - a + 1 |-> a + i - 1]
<1>0. a \in Nat /\ b \in Nat /\ 1 <= a /\ a <= b /\ b <= MaxSeq /\ MaxSeq \in Nat
  BY OrderingAssumption DEF Numbers
<1>1. run \in Seq(Numbers) /\ Len(run) = b - a + 1
  <2>1. b - a + 1 \in Nat
    BY <1>0
  <2>2. run \in [1 .. b - a + 1 -> Numbers]
    <3>1. \A i \in 1 .. b - a + 1 : a + i - 1 \in Numbers
      BY ONLY <1>0 DEF Numbers
    <3>2. QED BY <3>1, Zenon
  <2>3. run \in Seq(Numbers)
    <3> HIDE DEF run
    <3>1. \E n \in Nat : run \in [1 .. n -> Numbers]
      BY <2>1, <2>2, Zenon
    <3>2. QED BY <3>1, SeqDef, Zenon
  <2>4. QED BY <2>1, <2>3, LenProperties
<1>2. t = s \o run /\ \A i \in 1 .. Len(run) : run[i] = a + i - 1
  BY <1>1, Zenon
<1> HIDE DEF run
<1>3. /\ t \in Seq(Numbers) /\ Len(s) \in Nat
      /\ Len(t) = Len(s) + Len(run)
      /\ \A i \in 1 .. Len(t) : t[i] = IF i <= Len(s) THEN s[i] ELSE run[i - Len(s)]
      /\ DOMAIN t = 1 .. Len(t) /\ DOMAIN s = 1 .. Len(s)
      /\ \A i \in 1 .. Len(s) : s[i] \in Numbers
  <2>1. /\ s \o run \in Seq(Numbers) /\ Len(s \o run) = Len(s) + Len(run)
        /\ \A i \in 1 .. Len(s) + Len(run) :
              (s \o run)[i] = IF i <= Len(s) THEN s[i] ELSE run[i - Len(s)]
    BY <1>1, ConcatProperties, Zenon
  <2>2. DOMAIN t = 1 .. Len(t) /\ DOMAIN s = 1 .. Len(s) /\ Len(s) \in Nat
    BY <1>2, <2>1, LenProperties, Zenon
  <2>3. \A i \in 1 .. Len(s) : s[i] \in Numbers
    BY ElementOfSeq, Zenon
  <2>4. QED BY ONLY <1>2, <2>1, <2>2, <2>3, Zenon
<1>4. \A i \in DOMAIN t : t[i] = IF i <= Len(s) THEN s[i] ELSE a + (i - Len(s)) - 1
  <2> SUFFICES ASSUME NEW i \in DOMAIN t, ~(i <= Len(s))
               PROVE  run[i - Len(s)] = a + (i - Len(s)) - 1
    BY <1>3, Zenon
  <2>1. i - Len(s) \in 1 .. Len(run)
    BY <1>0, <1>1, <1>3
  <2>2. QED BY <1>2, <2>1, Zenon
<1>5. \A i, j \in DOMAIN t : i < j => t[i] < t[j]
  <2> SUFFICES ASSUME NEW i \in DOMAIN t, NEW j \in DOMAIN t, i < j PROVE t[i] < t[j]
    BY Zenon
  <2>1. i \in Int /\ j \in Int /\ (i <= Len(s) => i \in DOMAIN s) /\ (j <= Len(s) => j \in DOMAIN s)
    BY ONLY <1>1, <1>0, <1>3
  <2>2. CASE j <= Len(s)
    BY <1>3, <1>4, <2>1, <2>2
  <2>3. CASE i <= Len(s) /\ ~(j <= Len(s))
    <3>1. t[i] \in Nat /\ t[i] < a
      BY <1>3, <1>4, <2>1, <2>3 DEF Numbers
    <3>2. t[j] = a + (j - Len(s)) - 1
      BY <1>4, <2>3, Zenon
    <3>3. QED BY ONLY <1>0, <1>3, <2>1, <2>3, <3>1, <3>2
  <2>4. CASE ~(i <= Len(s))
    <3>1. t[i] = a + (i - Len(s)) - 1 /\ (~(j <= Len(s)) => t[j] = a + (j - Len(s)) - 1)
      BY <1>4, <2>4, Zenon
    <3>2. QED BY ONLY <1>0, <1>3, <2>1, <2>4, <3>1, i < j
  <2>5. QED BY <2>2, <2>3, <2>4, Zenon
<1>6. \A i \in DOMAIN t : t[i] < b + 1
  <2> SUFFICES ASSUME NEW i \in DOMAIN t PROVE t[i] < b + 1
    BY Zenon
  <2>1. CASE i <= Len(s)
    <3>1. i \in DOMAIN s /\ t[i] = s[i] /\ s[i] \in Numbers /\ s[i] < a
      BY <1>0, <1>1, <1>3, <2>1
    <3>2. QED BY <1>0, <3>1 DEF Numbers
  <2>2. CASE ~(i <= Len(s))
    <3>1. t[i] = a + (i - Len(s)) - 1 /\ i \in 1 .. Len(s) + (b - a + 1)
      BY <1>1, <1>3, <1>4, <2>2, Zenon
    <3>2. QED BY ONLY <1>0, <1>3, <2>2, <3>1
  <2>3. QED BY <2>1, <2>2, Zenon
<1>7. QED BY <1>3, <1>5, <1>6, Zenon

LEMMA SequencedInitially == SequencedInit => SequencedInv
<1> SUFFICES ASSUME SequencedInit PROVE SequencedInv
  BY Zenon
<1>1. sequence \in Seq(Numbers) /\ DOMAIN sequence = {}
  <2>1. sequence = <<>> /\ sequence \in Seq(Numbers) /\ Len(sequence) = 0
    BY EmptySeq, Zenon DEF SequencedInit
  <2>2. DOMAIN sequence = 1 .. 0
    BY <2>1, LenProperties, Zenon
  <2>3. QED BY <2>1, <2>2
<1>2. overdue \in BOOLEAN
  BY Zenon DEF SequencedInit
<1>3. nextSeq \in 1 .. MaxSeq + 1 /\ pending = {} /\ adds \in 0 .. MaxAdds
  BY OrderingAssumption DEF SequencedInit
<1>4. QED
  BY <1>1, <1>2, <1>3, Zenon DEF SequencedInv, DeliveredInOrder

LEMMA AddKeeps ==
    ASSUME SequencedInv, NEW seq \in Numbers, addMessage(seq)
    PROVE  SequencedInv'
<1> USE OrderingAssumption
<1>0. adds' \in 0 .. MaxAdds
  BY DEF addMessage, SequencedInv
<1>1. CASE AddExpected(seq)
  <2>1. Run(seq) \in seq .. MaxSeq /\ Run(seq) + 1 \notin pending
    BY RunEnds, Zenon DEF SequencedInv
  <2>2. /\ sequence' \in Seq(Numbers)
        /\ \A i, j \in DOMAIN sequence' : i < j => sequence'[i] < sequence'[j]
        /\ \A i \in DOMAIN sequence' : sequence'[i] < Run(seq) + 1
    <3>1. \A i, j \in DOMAIN sequence : i < j => sequence[i] < sequence[j]
      BY Zenon DEF SequencedInv, DeliveredInOrder
    <3>2. \A i \in DOMAIN sequence : sequence[i] < seq
      BY <1>1, Zenon DEF SequencedInv, DeliveredInOrder, AddExpected
    <3>3. sequence \in Seq(Numbers) /\ sequence' = sequence \o [i \in 1 .. Run(seq) - seq + 1 |-> seq + i - 1]
      BY <1>1, Zenon DEF AddExpected, SequencedInv
    <3>4. QED BY <2>1, <3>1, <3>2, <3>3, RunAppended, Zenon
  <2>3. /\ nextSeq' = Run(seq) + 1 /\ pending' = pending \ (seq .. Run(seq))
        /\ overdue' = FALSE /\ seq = nextSeq
    BY <1>1, Zenon DEF AddExpected
  <2>4. \A s \in pending' : s >= nextSeq'
    <3>1. \A s \in pending : s >= seq /\ s \in Nat
      BY <2>3 DEF SequencedInv, DeliveredInOrder, Numbers
    <3>2. seq \in Nat /\ Run(seq) \in Nat
      BY <2>1 DEF Numbers
    <3>3. QED BY <2>3, <3>1, <3>2
  <2>5. nextSeq' \in 1 .. MaxSeq + 1 /\ pending' \subseteq Numbers
    <3>1. seq \in 1 .. MaxSeq /\ MaxSeq \in Nat
      BY Zenon DEF Numbers
    <3>2. Run(seq) + 1 \in 1 .. MaxSeq + 1
      BY ONLY <2>1, <3>1
    <3>3. pending' \subseteq Numbers
      BY <2>3, Zenon DEF SequencedInv
    <3>4. QED BY <2>3, <3>2, <3>3, Zenon
  <2>6. overdue' \in BOOLEAN
    BY <2>3, Zenon
  <2>7. QED BY <1>0, <2>2, <2>3, <2>4, <2>5, <2>6, Zenon DEF SequencedInv, DeliveredInOrder
<1>2. CASE AddLater(seq)
  BY <1>0, <1>2 DEF AddLater, SequencedInv, DeliveredInOrder, Numbers
<1>3. CASE AddOld(seq)
  BY <1>0, <1>3, Zenon DEF AddOld, SequencedInv, DeliveredInOrder
<1>4. QED BY <1>1, <1>2, <1>3, Zenon DEF addMessage

LEMMA TimeoutKeeps ==
    ASSUME SequencedInv, checkTimeouts
    PROVE  SequencedInv'
<1> USE OrderingAssumption
<1>0. adds' = adds
  BY Zenon DEF checkTimeouts
<1>1. \A w, n : Trimmed(w, n) \subseteq w
  BY Zenon DEF Trimmed
<1>2. CASE TimedOut
  <2> DEFINE m == Min(pending)
  <2>1. m \in pending /\ \A y \in pending : m <= y
    <3>1. pending \in SUBSET Nat /\ pending # {}
      BY <1>2 DEF SequencedInv, Numbers, TimedOut
    <3>2. \E x \in pending : \A y \in pending : x <= y
      BY <3>1, LeastNatural, Zenon
    <3>3. QED BY <3>2, Zenon DEF Min
  <2>2. /\ nextSeq' = m + 1 /\ sequence' = Append(sequence, m)
        /\ pending' \subseteq pending \ {m} /\ overdue' = FALSE
    BY <1>1, <1>2 DEF checkTimeouts, NextAfterSkip
  <2> HIDE DEF m
  <2>3. m \in Numbers /\ sequence \in Seq(Numbers)
    BY <2>1, Zenon DEF SequencedInv
  <2>4. /\ Append(sequence, m) \in Seq(Numbers) /\ Len(sequence) \in Nat
        /\ DOMAIN sequence = 1 .. Len(sequence)
        /\ DOMAIN Append(sequence, m) = 1 .. Len(sequence) + 1
        /\ \A i \in 1 .. Len(sequence) :
              Append(sequence, m)[i] = sequence[i] /\ sequence[i] \in Numbers
        /\ Append(sequence, m)[Len(sequence) + 1] = m
    BY <2>3, Appended
  <2>5. \A i \in DOMAIN sequence : sequence[i] < m
    BY <2>1, <2>3, <2>4 DEF SequencedInv, DeliveredInOrder, Numbers
  <2>6. \A i, j \in DOMAIN sequence' : i < j => sequence'[i] < sequence'[j]
    BY <2>2, <2>4, <2>5 DEF SequencedInv, DeliveredInOrder
  <2>7. \A i \in DOMAIN sequence' : sequence'[i] < nextSeq'
    BY <2>2, <2>3, <2>4, <2>5 DEF Numbers
  <2>8. /\ \A s \in pending' : s >= nextSeq'
        /\ nextSeq' \in 1 .. MaxSeq + 1 /\ pending' \subseteq Numbers
    <3>1. pending \subseteq Numbers /\ pending' \subseteq Numbers
      BY <2>2, Zenon DEF SequencedInv
    <3>2. m \in 1 .. MaxSeq /\ \A s \in Numbers : s \in Nat
      BY <2>3 DEF Numbers
    <3>3. m + 1 \in 1 .. MaxSeq + 1
      BY ONLY <3>2, OrderingAssumption
    <3>4. \A s \in pending' : s \in Nat /\ m <= s /\ s # m
      BY <2>1, <2>2, <3>1, <3>2, Zenon
    <3>5. \A s \in pending' : s >= m + 1
      BY ONLY <3>2, <3>4
    <3>6. QED BY <2>2, <3>1, <3>3, <3>5, Zenon
  <2>9. QED BY <1>0, <2>2, <2>4, <2>6, <2>7, <2>8, Zenon DEF SequencedInv, DeliveredInOrder
<1>3. CASE ~TimedOut
  <2>1. pending' \subseteq pending /\ UNCHANGED <<nextSeq, sequence, overdue>>
    BY <1>1, <1>3, Zenon DEF checkTimeouts
  <2>2. QED BY <1>0, <2>1, Zenon DEF SequencedInv, DeliveredInOrder
<1>4. QED BY <1>2, <1>3, Zenon

LEMMA SequencedStep == SequencedInv /\ [SequencedNext]_sequencedVars => SequencedInv'
<1> SUFFICES ASSUME SequencedInv, [SequencedNext]_sequencedVars PROVE SequencedInv'
  BY Zenon
<1>1. CASE \E seq \in 1 .. MaxSeq : addMessage(seq)
  BY <1>1, AddKeeps, Zenon DEF Numbers
<1>2. CASE TimePasses
  BY <1>2, Zenon DEF TimePasses, SequencedInv, DeliveredInOrder
<1>3. CASE UNCHANGED sequencedVars
  BY <1>3, Zenon DEF sequencedVars, SequencedInv, DeliveredInOrder
<1>4. QED BY <1>1, <1>2, <1>3, TimeoutKeeps, Zenon DEF SequencedNext

\* The buffer of solution3 delivers in order and at most once, and passes nothing over that
\* waits, for any numbers, duplicates, timeouts and overflows.
THEOREM BufferDeliversInOrder == SequencedSpec => [](SequencedTypeOK /\ DeliveredInOrder)
<1>1. SequencedInv => SequencedTypeOK /\ DeliveredInOrder
  <2> SUFFICES ASSUME SequencedInv PROVE SequencedTypeOK /\ DeliveredInOrder
    BY Zenon
  <2>1. Range(sequence) \subseteq Numbers
    BY RangeOfSeq, Zenon DEF SequencedInv
  <2>2. QED BY <2>1, Zenon DEF SequencedInv, SequencedTypeOK, Numbers
<1>2. QED BY <1>1, SequencedInitially, SequencedStep, PTL DEF SequencedSpec

-----------------------------------------------------------------------------
(***************************************************************************)
(* Lamport's timestamps. A clock is at most the number of sends and of     *)
(* receives whose CompareAndSwap succeeded.                                *)
(***************************************************************************)
Counted ==
    {x \in Goroutines \X (1 .. MaxOps) :
        x[2] < ops[x[1]] \/ (x[2] = ops[x[1]] /\ local[x[1]] = None)}

Ticks == Cardinality(Counted)

LamportMessages(t) ==
    [sender : Processes, timestamp : 1 .. t, known : SUBSET (Nat \X Processes)]

LamportTypes ==
    /\ clock \in [Processes -> 0 .. Ticks]
    /\ messages \in [Processes -> SUBSET LamportMessages(Ticks)]
    /\ ops \in [Goroutines -> 0 .. MaxOps]
    /\ at \in [Goroutines -> Processes \cup {None}]
    /\ DOMAIN msg = Goroutines
    /\ local \in [Goroutines -> 0 .. Ticks \cup {None}]

Busy(g) == at[g] # None

BusyTypes ==
    \A g \in Goroutines :
        /\ Busy(g) => msg[g] \in LamportMessages(Ticks) /\ ops[g] >= 1
        /\ msg[g] # None \/ local[g] # None => Busy(g)

\* The messages there are: recorded, or sent or received right now.
Known == Sent \cup {msg[g] : g \in {h \in Goroutines : Busy(h)}}

OneStamp == \A m, n \in Known : LamportStamp(m) = LamportStamp(n) => m = n

OwnClock == \A m \in Known : m.timestamp <= clock[m.sender]

KnewLess == \A m \in Known : \A k \in m.known : k[1] < m.timestamp

HeldBelow == \A p \in Processes : \A m \in messages[p] : m.timestamp <= clock[p]

\* Before it is recorded a message has moved the clock past its timestamp.
TakenBelow ==
    \A g \in Goroutines : Busy(g) /\ local[g] = None => msg[g].timestamp <= clock[at[g]]

LamportInv ==
    LamportTypes /\ BusyTypes /\ OneStamp /\ OwnClock /\ KnewLess /\ HeldBelow /\ TakenBelow

LEMMA CountedFinite ==
    /\ IsFiniteSet(Counted) /\ Ticks \in Nat
    /\ Ticks <= MaxClock
<1> USE OrderingAssumption
<1>1. IsFiniteSet(1 .. MaxOps) /\ Cardinality(1 .. MaxOps) = MaxOps
  BY FS_Interval
<1>2. /\ IsFiniteSet(Goroutines \X (1 .. MaxOps))
      /\ Cardinality(Goroutines \X (1 .. MaxOps)) = MaxClock
  BY <1>1, FS_Product DEF MaxClock
<1>3. Counted \in SUBSET (Goroutines \X (1 .. MaxOps))
  BY Zenon DEF Counted
<1>4. QED BY <1>2, <1>3, FS_Subset, FS_CardinalityType, Zenon DEF Ticks

\* One more is counted.
LEMMA CountedOneMore ==
    ASSUME NEW x, x \notin Counted, Counted' = Counted \cup {x}
    PROVE  Ticks' = Ticks + 1
BY CountedFinite, FS_AddElement, Zenon DEF Ticks

LEMMA MessagesGrow ==
    ASSUME NEW s \in Nat, NEW t \in Nat, s <= t
    PROVE  LamportMessages(s) \subseteq LamportMessages(t) /\ 0 .. s \subseteq 0 .. t
BY DEF LamportMessages

LEMMA LamportInitially == LamportInit => LamportInv
<1> SUFFICES ASSUME LamportInit PROVE LamportInv
  BY Zenon
<1> USE OrderingAssumption, CountedFinite
<1>1. LamportTypes
  BY DEF LamportInit, LamportTypes
<1>2. BusyTypes /\ \A g \in Goroutines : ~Busy(g)
  BY Zenon DEF LamportInit, BusyTypes, Busy
<1>3. Known = {}
  <2>1. Sent = {}
    BY Zenon DEF LamportInit, Sent
  <2>2. QED BY <1>2, <2>1, Zenon DEF Known
<1>4. HeldBelow /\ TakenBelow
  BY <1>2, Zenon DEF LamportInit, HeldBelow, TakenBelow
<1>5. QED
  BY <1>1, <1>2, <1>3, <1>4, Zenon DEF LamportInv, OneStamp, OwnClock, KnewLess

LEMMA SentKnown == \A p \in Processes : \A m \in messages[p] : m \in Sent /\ m \in Known
BY Zenon DEF Sent, Known

\* What is known is a message.
LEMMA KnownMessages ==
    ASSUME LamportTypes, BusyTypes
    PROVE  Known \subseteq LamportMessages(Ticks) /\ Sent \subseteq Known
<1>1. Sent \subseteq LamportMessages(Ticks)
  BY Zenon DEF Sent, LamportTypes
<1>2. QED BY <1>1, Zenon DEF Known, BusyTypes

LEMMA SendKeeps ==
    ASSUME LamportInv, NEW g \in Goroutines, NEW p \in Processes, LamportSend(g, p)
    PROVE  LamportInv'
<1> USE OrderingAssumption
<1> DEFINE new == LamportMessage(p, clock[p] + 1, {LamportStamp(m) : m \in messages[p]})
<1>0. /\ LamportTypes /\ BusyTypes /\ Ticks \in Nat
      /\ Known \subseteq LamportMessages(Ticks) /\ Sent \subseteq Known
  BY CountedFinite, KnownMessages, Zenon DEF LamportInv
<1>1. /\ at[g] = None /\ ops[g] < MaxOps /\ ops' = [ops EXCEPT ![g] = @ + 1]
      /\ at' = [at EXCEPT ![g] = p] /\ clock' = [clock EXCEPT ![p] = @ + 1]
      /\ msg' = [msg EXCEPT ![g] = new] /\ messages' = messages /\ local' = local
  BY Zenon DEF LamportSend, Begin
<1>2. local[g] = None /\ ~Busy(g)
  BY <1>0, <1>1, Zenon DEF BusyTypes, Busy
<1>3. Ticks' = Ticks + 1
  <2>1. Counted' = Counted \cup {<<g, ops[g] + 1>>}
    BY <1>0, <1>1, <1>2 DEF Counted, LamportTypes
  <2>2. <<g, ops[g] + 1>> \notin Counted
    BY <1>0, <1>1 DEF Counted, LamportTypes
  <2>3. QED BY <2>1, <2>2, CountedOneMore, Zenon
<1>4. LamportMessages(Ticks) \subseteq LamportMessages(Ticks') /\ 0 .. Ticks \subseteq 0 .. Ticks'
  BY <1>0, <1>3, MessagesGrow
<1>5. new \in LamportMessages(Ticks')
  <2>1. \A m \in messages[p] : LamportStamp(m) \in Nat \X Processes
    BY <1>0 DEF LamportTypes, LamportMessages, LamportStamp
  <2>2. clock[p] + 1 \in 1 .. Ticks'
    BY <1>0, <1>3 DEF LamportTypes
  <2>3. QED BY <2>1, <2>2, Zenon DEF LamportMessages, LamportMessage
<1>6. new.sender = p /\ new.timestamp = clock[p] + 1 /\ new.known = {LamportStamp(m) : m \in messages[p]}
  BY Zenon DEF LamportMessage
<1> HIDE DEF new
<1>7. LamportTypes'
  <2>1. clock' \in [Processes -> 0 .. Ticks']
    BY <1>0, <1>1, <1>3 DEF LamportTypes
  <2>2. messages' \in [Processes -> SUBSET LamportMessages(Ticks')]
    BY <1>0, <1>1, <1>4, Zenon DEF LamportTypes
  <2>3. ops' \in [Goroutines -> 0 .. MaxOps] /\ at' \in [Goroutines -> Processes \cup {None}]
    BY <1>0, <1>1 DEF LamportTypes
  <2>4. DOMAIN msg' = Goroutines /\ local' \in [Goroutines -> 0 .. Ticks' \cup {None}]
    BY <1>0, <1>1, <1>4, Zenon DEF LamportTypes
  <2>5. QED BY <2>1, <2>2, <2>3, <2>4, Zenon DEF LamportTypes
<1>8. BusyTypes'
  BY <1>0, <1>1, <1>2, <1>4, <1>5 DEF BusyTypes, Busy, LamportTypes
<1>9. Known' = Known \cup {new} /\ Sent' = Sent
  <2>1. \A h \in Goroutines : h # g => msg'[h] = msg[h] /\ (Busy(h)' <=> Busy(h))
    BY <1>0, <1>1, Zenon DEF LamportTypes, Busy
  <2>2. Busy(g)' /\ msg'[g] = new
    BY <1>0, <1>1, Zenon DEF LamportTypes, Busy
  <2>3. Sent' = Sent
    BY <1>1, Zenon DEF Sent
  <2>4. QED BY <1>2, <2>1, <2>2, <2>3, Zenon DEF Known
<1>10. \A m \in Known : LamportStamp(m) # LamportStamp(new) /\ m.sender \in Processes /\ m.timestamp \in Nat
  BY <1>0, <1>6 DEF LamportInv, OwnClock, LamportStamp, LamportMessages, LamportTypes
<1>11. OneStamp'
  BY <1>9, <1>10, Zenon DEF LamportInv, OneStamp, LamportStamp
<1>12. \A q \in Processes : clock[q] \in Nat /\ clock'[q] \in Nat /\ clock[q] <= clock'[q]
  BY <1>0, <1>1 DEF LamportTypes
<1>13. OwnClock'
  <2>1. \A m \in Known : m.timestamp <= clock'[m.sender]
    BY <1>10, <1>12 DEF LamportInv, OwnClock
  <2>2. new.timestamp <= clock'[p]
    BY <1>0, <1>1, <1>6, <1>12 DEF LamportTypes
  <2>3. QED BY <1>6, <1>9, <2>1, <2>2, Zenon DEF OwnClock
<1>14. KnewLess'
  <2>1. \A m \in messages[p] : m.timestamp < clock[p] + 1
    BY <1>0, <1>10, <1>12, SentKnown DEF LamportInv, HeldBelow
  <2>2. \A k \in new.known : k[1] < new.timestamp
    BY <1>6, <2>1 DEF LamportStamp
  <2>3. QED BY <1>9, <2>2, Zenon DEF LamportInv, KnewLess
<1>15. HeldBelow'
  BY <1>1, <1>10, <1>12, SentKnown DEF LamportInv, HeldBelow
<1>16. TakenBelow'
  <2> SUFFICES ASSUME NEW h \in Goroutines, Busy(h)', local'[h] = None
               PROVE  msg'[h].timestamp <= clock'[at'[h]]
    BY Zenon DEF TakenBelow
  <2>1. CASE h = g
    BY <1>0, <1>1, <1>6, <1>12, <2>1 DEF LamportTypes
  <2>2. CASE h # g
    <3>1. msg'[h] = msg[h] /\ at'[h] = at[h] /\ Busy(h) /\ local[h] = None
      BY <1>0, <1>1, <2>2, Zenon DEF LamportTypes, Busy
    <3>2. msg[h].timestamp \in Nat /\ at[h] \in Processes /\ msg[h].timestamp <= clock[at[h]]
      BY <1>0, <3>1 DEF LamportInv, TakenBelow, BusyTypes, LamportMessages, LamportTypes, Busy
    <3>3. QED BY <1>12, <3>1, <3>2
  <2>3. QED BY <2>1, <2>2, Zenon
<1>17. QED
  BY <1>7, <1>8, <1>11, <1>13, <1>14, <1>15, <1>16, Zenon DEF LamportInv

LEMMA ReceiveKeeps ==
    ASSUME LamportInv, NEW g \in Goroutines, NEW p \in Processes, NEW m \in Sent,
           LamportReceive(g, p, m)
    PROVE  LamportInv'
<1> USE OrderingAssumption
<1>0. /\ LamportTypes /\ BusyTypes /\ Ticks \in Nat
      /\ Known \subseteq LamportMessages(Ticks) /\ Sent \subseteq Known
  BY CountedFinite, KnownMessages, Zenon DEF LamportInv
<1>1. /\ at[g] = None /\ ops[g] < MaxOps /\ ops' = [ops EXCEPT ![g] = @ + 1]
      /\ at' = [at EXCEPT ![g] = p] /\ local' = [local EXCEPT ![g] = clock[p]]
      /\ msg' = [msg EXCEPT ![g] = m] /\ messages' = messages /\ clock' = clock
  BY Zenon DEF LamportReceive, Begin
<1>2. local[g] = None /\ ~Busy(g) /\ clock[p] # None /\ clock[p] \in 0 .. Ticks
  BY <1>0, <1>1 DEF BusyTypes, Busy, LamportTypes
<1>3. Ticks' = Ticks
  <2>1. Counted' = Counted
    BY <1>0, <1>1, <1>2 DEF Counted, LamportTypes
  <2>2. QED BY <2>1, Zenon DEF Ticks
<1>4. LamportTypes'
  BY <1>0, <1>1, <1>2, <1>3 DEF LamportTypes
<1>5. BusyTypes'
  BY <1>0, <1>1, <1>2, <1>3 DEF BusyTypes, Busy, LamportTypes
<1>6. Known' \subseteq Known /\ Sent' = Sent
  <2>1. \A h \in Goroutines : h # g => msg'[h] = msg[h] /\ (Busy(h)' <=> Busy(h))
    BY <1>0, <1>1, Zenon DEF LamportTypes, Busy
  <2>2. Busy(g)' /\ msg'[g] = m
    BY <1>0, <1>1, Zenon DEF LamportTypes, Busy
  <2>3. Sent' = Sent
    BY <1>1, Zenon DEF Sent
  <2>4. QED BY <1>2, <2>1, <2>2, <2>3, Zenon DEF Known
<1>7. OneStamp' /\ OwnClock' /\ KnewLess'
  BY <1>1, <1>6, Zenon DEF LamportInv, OneStamp, OwnClock, KnewLess, LamportStamp
<1>8. HeldBelow'
  BY <1>1, Zenon DEF LamportInv, HeldBelow
<1>9. TakenBelow'
  BY <1>0, <1>1, <1>2, Zenon DEF LamportInv, TakenBelow, LamportTypes, Busy
<1>10. QED
  BY <1>4, <1>5, <1>7, <1>8, <1>9, Zenon DEF LamportInv

LEMMA SwapKeeps ==
    ASSUME LamportInv, NEW g \in Goroutines, Swap(g)
    PROVE  LamportInv'
<1> USE OrderingAssumption
<1>0. /\ LamportTypes /\ BusyTypes /\ Ticks \in Nat
      /\ Known \subseteq LamportMessages(Ticks) /\ Sent \subseteq Known
  BY CountedFinite, KnownMessages, Zenon DEF LamportInv
<1>1. /\ local[g] # None /\ messages' = messages /\ ops' = ops /\ at' = at /\ msg' = msg
  BY Zenon DEF Swap
<1>2. /\ Busy(g) /\ at[g] \in Processes /\ local[g] \in 0 .. Ticks
      /\ msg[g].timestamp \in 1 .. Ticks /\ ops[g] \in 1 .. MaxOps
  BY <1>0, <1>1 DEF BusyTypes, Busy, LamportTypes, LamportMessages
<1>3. Known' = Known /\ Sent' = Sent
  BY <1>1, Zenon DEF Known, Sent, Busy
<1>4. CASE Unmoved(g)
  <2> DEFINE c == NewClock(local[g], msg[g].timestamp)
  <2>1. clock' = [clock EXCEPT ![at[g]] = c] /\ local' = [local EXCEPT ![g] = None]
    BY <1>4, Zenon DEF Swap
  <2>2. c \in 0 .. Ticks + 1 /\ clock[at[g]] <= c /\ msg[g].timestamp <= c
    BY <1>0, <1>2, <1>4 DEF NewClock, Unmoved, LamportTypes
  <2> HIDE DEF c
  <2>3. Ticks' = Ticks + 1
    <3>1. Counted' = Counted \cup {<<g, ops[g]>>}
      BY <1>0, <1>1, <1>2, <2>1 DEF Counted, LamportTypes
    <3>2. <<g, ops[g]>> \notin Counted
      BY <1>0, <1>1, <1>2 DEF Counted, LamportTypes
    <3>3. QED BY <3>1, <3>2, CountedOneMore, Zenon
  <2>4. LamportMessages(Ticks) \subseteq LamportMessages(Ticks') /\ 0 .. Ticks \subseteq 0 .. Ticks'
    BY <1>0, <2>3, MessagesGrow
  <2>5. LamportTypes'
    <3>1. clock' \in [Processes -> 0 .. Ticks']
      <4>1. clock \in [Processes -> 0 .. Ticks'] /\ c \in 0 .. Ticks'
        BY <1>0, <2>2, <2>3, <2>4, Zenon DEF LamportTypes
      <4>2. QED BY ONLY <2>1, <4>1, Zenon
    <3>2. messages' \in [Processes -> SUBSET LamportMessages(Ticks')]
      BY <1>0, <1>1, <2>4, Zenon DEF LamportTypes
    <3>3. local' \in [Goroutines -> 0 .. Ticks' \cup {None}]
      BY <1>0, <2>1, <2>4, Zenon DEF LamportTypes
    <3>4. QED BY <1>0, <1>1, <3>1, <3>2, <3>3, Zenon DEF LamportTypes
  <2>6. BusyTypes'
    BY <1>0, <1>1, <2>1, <2>4, Zenon DEF BusyTypes, Busy, LamportTypes
  <2>7. \A q \in Processes : clock[q] \in Nat /\ clock'[q] \in Nat /\ clock[q] <= clock'[q]
    BY <1>0, <1>2, <2>1, <2>2 DEF LamportTypes
  <2>8. \A m \in Known : m.sender \in Processes /\ m.timestamp \in Nat
    BY <1>0 DEF LamportMessages
  <2>9. OwnClock'
    BY <1>3, <2>7, <2>8 DEF LamportInv, OwnClock
  <2>10. HeldBelow'
    BY <1>1, <2>7, <2>8, SentKnown DEF LamportInv, HeldBelow
  <2>11. TakenBelow'
    <3> SUFFICES ASSUME NEW h \in Goroutines, Busy(h)', local'[h] = None
                 PROVE  msg'[h].timestamp <= clock'[at'[h]]
      BY Zenon DEF TakenBelow
    <3>1. CASE h = g
      BY <1>0, <1>1, <1>2, <2>1, <2>2, <3>1, Zenon DEF LamportTypes
    <3>2. CASE h # g
      <4>1. Busy(h) /\ local[h] = None
        BY <1>0, <1>1, <2>1, <3>2, Zenon DEF LamportTypes, Busy
      <4>2. msg[h].timestamp \in Nat /\ at[h] \in Processes /\ msg[h].timestamp <= clock[at[h]]
        BY <1>0, <4>1 DEF LamportInv, TakenBelow, BusyTypes, LamportMessages, LamportTypes, Busy
      <4>3. QED BY <1>1, <2>7, <4>2
    <3>3. QED BY <3>1, <3>2, Zenon
  <2>12. OneStamp' /\ KnewLess'
    BY <1>3, Zenon DEF LamportInv, OneStamp, KnewLess, LamportStamp
  <2>13. QED
    BY <2>5, <2>6, <2>9, <2>10, <2>11, <2>12, Zenon DEF LamportInv
<1>5. CASE ~Unmoved(g)
  <2>1. clock' = clock /\ local' = [local EXCEPT ![g] = clock[at[g]]]
    BY <1>5, Zenon DEF Swap
  <2>2. clock[at[g]] \in 0 .. Ticks /\ clock[at[g]] # None
    BY <1>0, <1>2 DEF LamportTypes
  <2>3. Ticks' = Ticks
    <3>1. Counted' = Counted
      BY <1>0, <1>1, <2>1, <2>2, Zenon DEF Counted, LamportTypes
    <3>2. QED BY <3>1, Zenon DEF Ticks
  <2>4. LamportTypes'
    BY <1>0, <1>1, <2>1, <2>2, <2>3, Zenon DEF LamportTypes
  <2>5. BusyTypes'
    BY <1>0, <1>1, <2>1, <2>3, Zenon DEF BusyTypes, Busy, LamportTypes
  <2>6. OneStamp' /\ OwnClock' /\ KnewLess'
    BY <1>3, <2>1, Zenon DEF LamportInv, OneStamp, OwnClock, KnewLess, LamportStamp
  <2>7. HeldBelow' /\ TakenBelow'
    BY <1>0, <1>1, <2>1, <2>2, Zenon DEF LamportInv, HeldBelow, TakenBelow, LamportTypes, Busy
  <2>8. QED BY <2>4, <2>5, <2>6, <2>7, Zenon DEF LamportInv
<1>6. QED BY <1>4, <1>5, Zenon

LEMMA RecordKeeps ==
    ASSUME LamportInv, NEW g \in Goroutines, Record(g)
    PROVE  LamportInv'
<1> USE OrderingAssumption
<1>0. /\ LamportTypes /\ BusyTypes /\ Ticks \in Nat
      /\ Known \subseteq LamportMessages(Ticks) /\ Sent \subseteq Known
  BY CountedFinite, KnownMessages, Zenon DEF LamportInv
<1>1. /\ msg[g] # None /\ local[g] = None /\ clock' = clock /\ ops' = ops /\ local' = local
      /\ messages' = [messages EXCEPT ![at[g]] = @ \cup {msg[g]}]
      /\ at' = [at EXCEPT ![g] = None] /\ msg' = [msg EXCEPT ![g] = None]
  BY Zenon DEF Record
<1>2. Busy(g) /\ at[g] \in Processes /\ msg[g] \in LamportMessages(Ticks)
  BY <1>0, <1>1, Zenon DEF BusyTypes, Busy, LamportTypes
<1>3. Ticks' = Ticks
  <2>1. Counted' = Counted
    BY <1>1, Zenon DEF Counted
  <2>2. QED BY <2>1, Zenon DEF Ticks
<1>4. LamportTypes'
  BY <1>0, <1>1, <1>2, <1>3, Zenon DEF LamportTypes
<1>5. BusyTypes'
  BY <1>0, <1>1, <1>3, Zenon DEF BusyTypes, Busy, LamportTypes
<1>6. Known' \subseteq Known
  <2>1. \A h \in Goroutines : Busy(h)' => Busy(h) /\ msg'[h] = msg[h]
    BY <1>0, <1>1, Zenon DEF LamportTypes, Busy
  <2>2. msg[g] \in Known
    BY <1>2, Zenon DEF Known
  <2>3. \A q \in Processes : messages'[q] \subseteq messages[q] \cup {msg[g]}
    BY <1>0, <1>1, Zenon DEF LamportTypes
  <2>4. Sent' \subseteq Known
    <3> SUFFICES ASSUME NEW q \in Processes, NEW m \in messages'[q] PROVE m \in Known
      BY Zenon DEF Sent
    <3>1. QED BY <2>2, <2>3, SentKnown, Zenon
  <2>5. \A h \in Goroutines : Busy(h)' => msg'[h] \in Known
    BY <2>1, Zenon DEF Known
  <2>6. QED BY <2>4, <2>5, Zenon DEF Known
<1>7. OneStamp' /\ OwnClock' /\ KnewLess'
  BY <1>1, <1>6, Zenon DEF LamportInv, OneStamp, OwnClock, KnewLess, LamportStamp
<1>8. HeldBelow'
  <2>1. msg[g].timestamp <= clock[at[g]]
    BY <1>1, <1>2, Zenon DEF LamportInv, TakenBelow
  <2>2. QED BY <1>0, <1>1, <1>2, <2>1, Zenon DEF LamportInv, HeldBelow, LamportTypes
<1>9. TakenBelow'
  BY <1>0, <1>1, Zenon DEF LamportInv, TakenBelow, LamportTypes, Busy
<1>10. QED
  BY <1>4, <1>5, <1>7, <1>8, <1>9, Zenon DEF LamportInv

LEMMA LamportStep == LamportInv /\ [LamportNext]_lamportVars => LamportInv'
<1> SUFFICES ASSUME LamportInv, [LamportNext]_lamportVars PROVE LamportInv'
  BY Zenon
<1>1. CASE UNCHANGED lamportVars
  <2>0. /\ clock' = clock /\ messages' = messages /\ ops' = ops /\ at' = at /\ msg' = msg
        /\ local' = local
    BY <1>1, Zenon DEF lamportVars
  <2>1. Ticks' = Ticks /\ Known' = Known /\ \A g : Busy(g)' <=> Busy(g)
    BY <2>0, Zenon DEF Ticks, Counted, Known, Sent, Busy
  <2>2. LamportTypes' /\ BusyTypes'
    BY <2>0, <2>1, Zenon DEF LamportInv, LamportTypes, BusyTypes
  <2>3. OneStamp' /\ OwnClock' /\ KnewLess'
    BY <2>0, <2>1, Zenon DEF LamportInv, OneStamp, OwnClock, KnewLess, LamportStamp
  <2>4. HeldBelow' /\ TakenBelow'
    BY <2>0, <2>1, Zenon DEF LamportInv, HeldBelow, TakenBelow
  <2>5. QED BY <2>2, <2>3, <2>4, Zenon DEF LamportInv
<1>2. QED
  BY <1>1, SendKeeps, ReceiveKeeps, SwapKeeps, RecordKeeps, Zenon DEF LamportNext

\* The order of getTotalOrder in solution2 is one and extends causality, for any processes
\* and any goroutines that share their clocks.
THEOREM LamportOrderIsCausal == LamportSpec => [](LamportTypeOK /\ TotalOrderIsCausal)
<1>1. LamportInv => LamportTypeOK /\ TotalOrderIsCausal
  <2> SUFFICES ASSUME LamportInv PROVE LamportTypeOK /\ TotalOrderIsCausal
    BY Zenon
  <2>0. /\ LamportTypes /\ BusyTypes /\ Ticks \in Nat /\ Ticks <= MaxClock
        /\ Known \subseteq LamportMessages(Ticks) /\ Sent \subseteq Known
    BY CountedFinite, KnownMessages, Zenon DEF LamportInv
  <2>1. MaxClock \in Nat
    BY OrderingAssumption, FS_CardinalityType DEF MaxClock
  <2>2. 0 .. Ticks \subseteq 0 .. MaxClock
    BY <2>0, <2>1
  <2>3. \A m \in Known : LamportStamp(m) \in Stamps
    BY <2>0, <2>1 DEF LamportMessages, LamportStamp, Stamps
  <2>4. /\ clock \in [Processes -> 0 .. MaxClock]
        /\ local \in [Goroutines -> 0 .. MaxClock \cup {None}]
    BY <2>0, <2>2, Zenon DEF LamportTypes
  <2>5. \A p \in Processes : {LamportStamp(m) : m \in messages[p]} \subseteq Stamps
    BY <2>3, SentKnown, Zenon
  <2>6. \A g \in Goroutines : msg[g] # None => LamportStamp(msg[g]) \in Stamps
    BY <2>0, <2>3, Zenon DEF BusyTypes, Known
  <2>7. LamportTypeOK
    BY <2>0, <2>4, <2>5, <2>6, Zenon DEF LamportTypeOK, LamportTypes
  <2>8. \A m \in Sent : \A k \in m.known : Less(k, LamportStamp(m))
    BY <2>0, Zenon DEF LamportInv, KnewLess, Less, LamportStamp
  <2>9. QED BY <2>0, <2>7, <2>8, Zenon DEF LamportInv, OneStamp, HeldBelow, TotalOrderIsCausal
<1>2. QED BY <1>1, LamportInitially, LamportStep, PTL DEF LamportSpec

-----------------------------------------------------------------------------
LEMMA UsedFinite ==
    ASSUME used \subseteq Senders
    PROVE  /\ IsFiniteSet(used) /\ Cardinality(used) \in Nat
           /\ Cardinality(used) <= Cardinality(Senders) /\ Cardinality(Senders) \in Nat
BY OrderingAssumption, FS_Subset, FS_CardinalityType, Zenon

\* A message is not None, and it is one of the model's messages.
LEMMA CausalMessagesTyped ==
    ASSUME used \subseteq Senders
    PROVE  CausalMessages \subseteq Messages /\ None \notin CausalMessages
<1>1. 0 .. Cardinality(used) \subseteq 0 .. Cardinality(Senders)
  BY UsedFinite
<1>2. CausalMessages \subseteq Messages
  BY <1>1, Zenon DEF CausalMessages, Messages, Clocks
<1>3. QED BY <1>2, OrderingAssumption, Zenon DEF Messages, Clocks

LEMMA CausalInitTypes == CausalInit => CausalTypes
<1> SUFFICES ASSUME CausalInit PROVE CausalTypes
  BY Zenon
<1>1. used \subseteq Senders /\ Cardinality(used) \in Nat
  BY UsedFinite, Zenon DEF CausalInit
<1>2. <<>> \in Seq(CausalMessages)
  BY EmptySeq, Zenon
<1>3. QED BY <1>1, <1>2 DEF CausalInit, CausalTypes

LEMMA CausalInitDelivery == CausalInit => DeliveryInv
<1> SUFFICES ASSUME CausalInit PROVE DeliveryInv
  BY Zenon
<1>1. \A n \in Nodes : DOMAIN delivered[n] = {} /\ Range(delivered[n]) = {}
  <2>1. <<>> \in Seq({}) /\ Len(<<>>) = 0
    BY EmptySeq, Zenon
  <2>2. DOMAIN <<>> = {} /\ Range(<<>>) = {}
    BY <2>1, LenProperties DEF Range
  <2>3. QED BY <2>2, Zenon DEF CausalInit
<1>2. NewByOwn /\ ClockCovers
  BY <1>1, Zenon DEF NewByOwn, ClockCovers
<1>3. ClockCounts
  <2>1. \A n, k \in Nodes : From(n, k) = {}
    BY <1>1, Zenon DEF From
  <2>2. QED BY <2>1, FS_EmptySet, Zenon DEF ClockCounts, CausalInit
<1>4. QED BY <1>2, <1>3, Zenon DEF DeliveryInv

LEMMA DeliverKeeps ==
    ASSUME CausalTypes, DeliveryInv, NEW n \in Nodes, NEW m \in CausalMessages,
           isCausallyReady(m, VC[n]), Deliver(n, m), used' = used
    PROVE  /\ VC' \in [Nodes -> [Nodes -> 0 .. Cardinality(used)]]
           /\ delivered' \in [Nodes -> Seq(CausalMessages)]
           /\ DeliveryInv'
<1> DEFINE s == m.sender
           old == delivered[n]
           new == delivered'[n]
<1>0. /\ s \in Nodes /\ \A k \in Nodes : VC[n][k] \in Nat /\ m.VC[k] \in Nat
      /\ m.VC[s] = VC[n][s] + 1
      /\ \A k \in Nodes : Merged(VC[n], m)[k] = IF k = s THEN VC[n][k] + 1 ELSE VC[n][k]
      /\ \A k \in Nodes : m.VC[k] <= Merged(VC[n], m)[k]
      /\ Merged(VC[n], m) \in [Nodes -> 0 .. Cardinality(used)]
  BY ReadyAddsOne, Zenon DEF Own
<1>1. /\ VC' = [VC EXCEPT ![n] = Merged(VC[n], m)]
      /\ delivered' = [delivered EXCEPT ![n] = Append(old, m)]
  BY Zenon DEF Deliver
<1>2. VC' \in [Nodes -> [Nodes -> 0 .. Cardinality(used)]] /\ VC'[n] = Merged(VC[n], m)
  BY <1>0, <1>1, Zenon DEF CausalTypes
<1>3. old \in Seq(CausalMessages)
  BY Zenon DEF CausalTypes
<1>4. /\ Append(old, m) \in Seq(CausalMessages) /\ Len(old) \in Nat
      /\ DOMAIN old = 1 .. Len(old)
      /\ DOMAIN Append(old, m) = 1 .. Len(old) + 1
      /\ \A i \in 1 .. Len(old) : Append(old, m)[i] = old[i] /\ old[i] \in CausalMessages
      /\ Append(old, m)[Len(old) + 1] = m
  BY <1>3, Appended
<1>5. delivered' \in [Nodes -> Seq(CausalMessages)] /\ new = Append(old, m)
  BY <1>1, <1>4, Zenon DEF CausalTypes
<1>6. \A i \in DOMAIN old : \A k \in Nodes : old[i].VC[k] \in Nat /\ old[i].VC[k] <= VC[n][k]
  <2>1. \A i \in DOMAIN old : \A k \in Nodes : old[i].VC[k] \in Nat
    BY <1>4, CausalEntries, Zenon DEF CausalTypes
  <2>2. QED BY <2>1, Zenon DEF DeliveryInv, ClockCovers
<1>7. \A p \in Nodes : p # n => VC'[p] = VC[p] /\ delivered'[p] = delivered[p]
  BY <1>1, Zenon DEF CausalTypes
<1>8. NewByOwn'
  <2> SUFFICES ASSUME NEW p \in Nodes, NEW i \in DOMAIN delivered'[p],
                      NEW j \in DOMAIN delivered'[p], i < j
               PROVE  delivered'[p][i].VC[delivered'[p][j].sender] < Own(delivered'[p][j])
    BY Zenon DEF NewByOwn, Own
  <2>1. CASE p # n
    BY <1>7, <2>1, Zenon DEF DeliveryInv, NewByOwn
  <2>2. CASE p = n /\ j \in DOMAIN old
    <3>1. i \in DOMAIN old /\ new[i] = old[i] /\ new[j] = old[j]
      BY <1>4, <1>5, <2>2
    <3>2. QED BY <2>2, <3>1, Zenon DEF DeliveryInv, NewByOwn
  <2>3. CASE p = n /\ j \notin DOMAIN old
    <3>1. j = Len(old) + 1 /\ i \in DOMAIN old /\ new[i] = old[i] /\ new[j] = m
      BY <1>4, <1>5, <2>3
    <3>2. old[i].VC[s] < m.VC[s]
      <4>1. old[i].VC[s] \in Nat /\ old[i].VC[s] <= VC[n][s] /\ VC[n][s] \in Nat
        BY <1>0, <1>6, <3>1, Zenon
      <4>2. QED BY ONLY <1>0, <4>1
    <3>3. QED BY <2>3, <3>1, <3>2, Zenon DEF Own
  <2>4. QED BY <2>1, <2>2, <2>3, Zenon
<1>9. ClockCovers'
  <2> SUFFICES ASSUME NEW p \in Nodes, NEW i \in DOMAIN delivered'[p], NEW k \in Nodes
               PROVE  delivered'[p][i].VC[k] <= VC'[p][k]
    BY Zenon DEF ClockCovers
  <2>1. CASE p # n
    BY <1>7, <2>1, Zenon DEF DeliveryInv, ClockCovers
  <2>2. CASE p = n /\ i \in DOMAIN old
    <3>1. new[i] = old[i] /\ VC'[n][k] = Merged(VC[n], m)[k]
      BY <1>2, <1>4, <1>5, <2>2, Zenon
    <3>2. old[i].VC[k] \in Nat /\ old[i].VC[k] <= VC[n][k]
      BY <1>6, <2>2, Zenon
    <3>3. QED BY <1>0, <2>2, <3>1, <3>2
  <2>3. CASE p = n /\ i \notin DOMAIN old
    <3>1. new[i] = m /\ VC'[n][k] = Merged(VC[n], m)[k]
      BY <1>2, <1>4, <1>5, <2>3
    <3>2. QED BY <1>0, <2>3, <3>1, Zenon
  <2>4. QED BY <2>1, <2>2, <2>3, Zenon
<1>10. ClockCounts'
  <2> SUFFICES ASSUME NEW p \in Nodes, NEW k \in Nodes \ {p}
               PROVE  IsFiniteSet(From(p, k)') /\ Cardinality(From(p, k)') = VC'[p][k]
    BY Zenon DEF ClockCounts
  <2>1. IsFiniteSet(From(p, k)) /\ Cardinality(From(p, k)) = VC[p][k]
    BY Zenon DEF DeliveryInv, ClockCounts
  <2>2. CASE p # n
    <3>1. From(p, k)' = From(p, k)
      BY <1>7, <2>2, Zenon DEF From
    <3>2. QED BY <1>7, <2>1, <2>2, <3>1, Zenon
  <2>3. CASE p = n
    <3>1. Range(new) = Range(old) \cup {m}
      BY <1>4, <1>5 DEF Range
    <3>2. VC'[p][k] = IF k = s THEN VC[n][k] + 1 ELSE VC[n][k]
      BY <1>0, <1>2, <2>3, Zenon
    <3>3. CASE k = s
      <4>1. From(p, k)' = From(p, k) \cup {m}
        BY <2>3, <3>1, <3>3, Zenon DEF From
      <4>2. m \notin From(p, k)
        <5>1. \A i \in DOMAIN old : old[i].VC[s] # m.VC[s]
          BY <1>0, <1>6
        <5>2. m \notin Range(old)
          BY <5>1, Zenon DEF Range
        <5>3. QED BY <2>3, <5>2, Zenon DEF From
      <4>3. QED BY <2>1, <2>3, <3>2, <3>3, <4>1, <4>2, FS_AddElement
    <3>4. CASE k # s
      <4>1. From(p, k)' = From(p, k)
        BY <2>3, <3>1, <3>4, Zenon DEF From
      <4>2. QED BY <2>1, <2>3, <3>2, <3>4, <4>1, Zenon
    <3>5. QED BY <3>3, <3>4, Zenon
  <2>4. QED BY <2>2, <2>3, Zenon
<1>11. QED BY <1>2, <1>5, <1>8, <1>9, <1>10, Zenon DEF DeliveryInv

\* ... and to the types, which grow with the number of sends.
LEMMA StampFacts ==
    ASSUME CausalTypes, NEW s \in Senders, NEW n \in Nodes, CausalStamp(s, n)
    PROVE  /\ used' \subseteq Senders /\ Cardinality(used') = Cardinality(used) + 1
           /\ Cardinality(used') \in Nat
           /\ CausalMessages \subseteq CausalMessages'
           /\ VC' \in [Nodes -> [Nodes -> 0 .. Cardinality(used')]]
           /\ \A p, k \in Nodes : VC'[p][k] = IF p = n /\ k = n THEN VC[n][n] + 1 ELSE VC[p][k]
           /\ \A p, k \in Nodes : VC[p][k] \in Nat
           /\ stamped'[s] \in CausalMessages' /\ stamped'[s] # None
           /\ \A r \in Senders : r # s => stamped'[r] = stamped[r]
<1>0. /\ s \notin used /\ used' = used \cup {s} /\ VC' = [VC EXCEPT ![n][n] = @ + 1]
      /\ stamped' = [stamped EXCEPT ![s] = CausalMessage(n, VC'[n])]
  BY Zenon DEF CausalStamp
<1>1. used \subseteq Senders /\ VC \in [Nodes -> [Nodes -> 0 .. Cardinality(used)]]
      /\ stamped \in [Senders -> CausalMessages \cup {None}]
  BY Zenon DEF CausalTypes
<1>2. IsFiniteSet(used) /\ Cardinality(used) \in Nat
  BY <1>1, UsedFinite, Zenon
<1>3. used' \subseteq Senders /\ Cardinality(used') = Cardinality(used) + 1
  BY <1>0, <1>1, <1>2, FS_AddElement, Zenon
<1>4. 0 .. Cardinality(used) \subseteq 0 .. Cardinality(used')
  BY <1>2, <1>3
<1>5. CausalMessages \subseteq CausalMessages'
  BY <1>4, Zenon DEF CausalMessages
<1>6. /\ VC' = [p \in Nodes |-> [k \in Nodes |-> VC'[p][k]]]
      /\ \A p, k \in Nodes : VC'[p][k] = IF p = n /\ k = n THEN VC[n][n] + 1 ELSE VC[p][k]
      /\ \A p, k \in Nodes : VC[p][k] \in 0 .. Cardinality(used)
      /\ stamped[s] = None /\ stamped'[s] = CausalMessage(n, VC'[n])
      /\ \A r \in Senders : r # s => stamped'[r] = stamped[r]
  BY StampClocks
<1>7. \A p, k \in Nodes : VC'[p][k] \in 0 .. Cardinality(used')
  BY <1>2, <1>3, <1>6
<1>8. VC' \in [Nodes -> [Nodes -> 0 .. Cardinality(used')]]
  BY ONLY <1>6, <1>7, Zenon
<1>10. stamped'[s] \in CausalMessages'
  BY <1>6, <1>8 DEF CausalMessages, CausalMessage
<1>11. stamped'[s] # None
  <2>1. 0 .. Cardinality(used') \subseteq 0 .. Cardinality(Senders)
    <3>1. IsFiniteSet(Senders)
      BY OrderingAssumption, Zenon
    <3>2. Cardinality(used') <= Cardinality(Senders) /\ Cardinality(Senders) \in Nat
      BY <1>3, <3>1, FS_Subset, FS_CardinalityType, Zenon
    <3>3. QED BY <1>2, <1>3, <3>2
  <2>2. stamped'[s] \in [sender : Nodes, VC : [Nodes -> 0 .. Cardinality(Senders)]]
    BY <1>10, <2>1, Zenon DEF CausalMessages
  <2>3. QED BY <2>2, OrderingAssumption, Zenon
<1>9. \A p, k \in Nodes : VC[p][k] \in Nat
  BY <1>2, <1>6
<1>12. Cardinality(used') \in Nat
  BY <1>2, <1>3
<1>13. QED BY <1>3, <1>5, <1>6, <1>8, <1>10, <1>11, <1>9, <1>12, Zenon

LEMMA StampKeeps ==
    ASSUME CausalTypes, DeliveryInv, NEW s \in Senders, NEW n \in Nodes, CausalStamp(s, n)
    PROVE  CausalTypes' /\ DeliveryInv'
<1>0. /\ used' = used \cup {s} /\ broadcast' = broadcast /\ copying' = copying
      /\ inbox' = inbox /\ held' = held /\ recheck' = recheck /\ delivered' = delivered
      /\ DOMAIN stamped' = Senders
  BY Zenon DEF CausalStamp, CausalTypes
<1>1. /\ used' \subseteq Senders /\ Cardinality(used') \in Nat
      /\ CausalMessages \subseteq CausalMessages'
      /\ VC' \in [Nodes -> [Nodes -> 0 .. Cardinality(used')]]
      /\ \A p, k \in Nodes : VC'[p][k] = IF p = n /\ k = n THEN VC[n][n] + 1 ELSE VC[p][k]
      /\ \A p, k \in Nodes : VC[p][k] \in Nat
      /\ stamped'[s] \in CausalMessages'
      /\ \A r \in Senders : r # s => stamped'[r] = stamped[r]
  BY StampFacts, Zenon
<1>2. Seq(CausalMessages) \subseteq Seq(CausalMessages')
  BY <1>1, SeqMonotonic, Zenon
<1>3. stamped' \in [Senders -> CausalMessages' \cup {None}]
  <2>1. \A r \in Senders : stamped'[r] \in CausalMessages' \cup {None}
    BY <1>1, Zenon DEF CausalTypes
  <2>2. stamped' = [r \in Senders |-> stamped'[r]]
    BY Zenon DEF CausalStamp, CausalTypes
  <2>3. QED BY ONLY <2>1, <2>2, Zenon
<1>4. CausalTypes'
  <2>1. broadcast' \in Seq(CausalMessages') /\ copying' \subseteq Nodes
    BY <1>0, <1>2, Zenon DEF CausalTypes
  <2>2. /\ inbox' \in [Nodes -> Seq(CausalMessages')] /\ held' \in [Nodes -> Seq(CausalMessages')]
        /\ recheck' \in [Nodes -> Seq(CausalMessages')]
        /\ delivered' \in [Nodes -> Seq(CausalMessages')]
    BY <1>0, <1>2, Zenon DEF CausalTypes
  <2>3. \A r \in Senders : stamped'[r] # None => r \in used'
    BY <1>0, <1>1, Zenon DEF CausalTypes
  <2>4. QED BY <1>1, <1>3, <2>1, <2>2, <2>3, Zenon DEF CausalTypes
<1>5. NewByOwn'
  BY <1>0, Zenon DEF DeliveryInv, NewByOwn, Own
<1>6. ClockCovers'
  <2> SUFFICES ASSUME NEW p \in Nodes, NEW i \in DOMAIN delivered[p], NEW k \in Nodes
               PROVE  delivered[p][i].VC[k] <= VC'[p][k]
    BY <1>0, Zenon DEF ClockCovers
  <2>1. delivered[p][i] \in CausalMessages
    BY LenProperties, ElementOfSeq, Zenon DEF CausalTypes
  <2>2. delivered[p][i].VC[k] \in Nat
    BY <2>1, CausalEntries, Zenon DEF CausalTypes
  <2>3. delivered[p][i].VC[k] <= VC[p][k]
    BY Zenon DEF DeliveryInv, ClockCovers
  <2>4. QED BY <1>1, <2>2, <2>3
<1>7. ClockCounts'
  <2>1. \A p, k : From(p, k)' = From(p, k)
    BY <1>0, Zenon DEF From
  <2>2. \A p \in Nodes : \A k \in Nodes \ {p} : VC'[p][k] = VC[p][k]
    BY <1>1
  <2>3. QED BY <2>1, <2>2, Zenon DEF DeliveryInv, ClockCounts
<1>8. QED BY <1>4, <1>5, <1>6, <1>7, Zenon DEF DeliveryInv

\* Steps that deliver nothing and stamp nothing.
LEMMA SameDelivery ==
    ASSUME DeliveryInv, VC' = VC, delivered' = delivered
    PROVE  DeliveryInv'
<1>1. NewByOwn' /\ ClockCovers'
  BY Zenon DEF DeliveryInv, NewByOwn, ClockCovers, Own
<1>2. ClockCounts'
  BY Zenon DEF DeliveryInv, ClockCounts, From
<1>3. QED BY <1>1, <1>2, Zenon DEF DeliveryInv

LEMMA SameMessages ==
    ASSUME used' = used
    PROVE  CausalMessages' = CausalMessages
BY Zenon DEF CausalMessages

LEMMA SendKeepsTypes ==
    ASSUME CausalTypes, NEW s \in Senders, CausalSend(s)
    PROVE  CausalTypes'
<1>1. /\ stamped[s] \in CausalMessages /\ used' = used
  BY Zenon DEF CausalSend, CausalTypes
<1>2. broadcast' \in Seq(CausalMessages)
  BY <1>1, AppendProperties, Zenon DEF CausalSend, CausalTypes
<1>3. /\ stamped' \in [Senders -> CausalMessages \cup {None}]
      /\ \A r \in Senders : stamped'[r] # None => r \in used'
  BY <1>1, Zenon DEF CausalSend, CausalTypes
<1>4. /\ VC' = VC /\ copying' = copying /\ inbox' = inbox /\ held' = held
      /\ recheck' = recheck /\ delivered' = delivered
  BY Zenon DEF CausalSend
<1>5. QED BY <1>1, <1>2, <1>3, <1>4, SameMessages, Zenon DEF CausalTypes

LEMMA CopyKeepsTypes ==
    ASSUME CausalTypes, NEW n \in Nodes, Copy(n)
    PROVE  CausalTypes'
<1>1. broadcast \in Seq(CausalMessages) /\ broadcast # <<>> /\ used' = used
  BY Zenon DEF Copy, CausalTypes
<1>2. Head(broadcast) \in CausalMessages /\ Tail(broadcast) \in Seq(CausalMessages)
  BY <1>1, HeadTailProperties, Zenon
<1>3. broadcast' \in Seq(CausalMessages)
  BY <1>1, <1>2, Zenon DEF Copy
<1>4. inbox' \in [Nodes -> Seq(CausalMessages)]
  <2>1. Append(inbox[n], Head(broadcast)) \in Seq(CausalMessages)
    BY <1>2, AppendProperties, Zenon DEF CausalTypes
  <2>2. inbox' = [inbox EXCEPT ![n] = Append(inbox[n], Head(broadcast))]
    BY Zenon DEF Copy
  <2>3. QED BY <2>1, <2>2, Zenon DEF CausalTypes
<1>5. copying' \subseteq Nodes
  BY Zenon DEF Copy, CausalTypes
<1>6. /\ VC' = VC /\ stamped' = stamped /\ held' = held
      /\ recheck' = recheck /\ delivered' = delivered
  BY Zenon DEF Copy
<1>7. QED BY <1>1, <1>3, <1>4, <1>5, <1>6, SameMessages, Zenon DEF CausalTypes

LEMMA ReceiveKeepsBoth ==
    ASSUME CausalTypes, DeliveryInv, NEW n \in Nodes, CausalReceive(n)
    PROVE  CausalTypes' /\ DeliveryInv'
<1> DEFINE m == Head(inbox[n])
<1>0. /\ inbox[n] \in Seq(CausalMessages) /\ inbox[n] # <<>> /\ used' = used
      /\ held[n] \in Seq(CausalMessages)
      /\ inbox' = [inbox EXCEPT ![n] = Tail(inbox[n])]
      /\ stamped' = stamped /\ broadcast' = broadcast /\ copying' = copying
  BY Zenon DEF CausalReceive, CausalTypes
<1>1. m \in CausalMessages /\ Tail(inbox[n]) \in Seq(CausalMessages)
  BY <1>0, HeadTailProperties, Zenon
<1>2. inbox' \in [Nodes -> Seq(CausalMessages)]
  BY <1>0, <1>1, Zenon DEF CausalTypes
<1>3. <<>> \in Seq(CausalMessages) /\ Append(held[n], m) \in Seq(CausalMessages)
  BY <1>0, <1>1, EmptySeq, AppendProperties, Zenon
<1>4. CASE isCausallyReady(m, VC[n])
  <2>1. /\ Deliver(n, m) /\ recheck' = [recheck EXCEPT ![n] = held[n]]
        /\ held' = [held EXCEPT ![n] = <<>>]
    BY <1>4, Zenon DEF CausalReceive
  <2>2. /\ VC' \in [Nodes -> [Nodes -> 0 .. Cardinality(used)]]
        /\ delivered' \in [Nodes -> Seq(CausalMessages)] /\ DeliveryInv'
    BY <1>0, <1>1, <1>4, <2>1, DeliverKeeps, Zenon
  <2>3. /\ recheck' \in [Nodes -> Seq(CausalMessages)]
        /\ held' \in [Nodes -> Seq(CausalMessages)]
    BY <1>0, <1>3, <2>1, Zenon DEF CausalTypes
  <2>4. QED BY <1>0, <1>2, <2>2, <2>3, SameMessages, Zenon DEF CausalTypes
<1>5. CASE ~isCausallyReady(m, VC[n])
  <2>1. /\ held' = [held EXCEPT ![n] = Append(held[n], m)]
        /\ VC' = VC /\ delivered' = delivered /\ recheck' = recheck
    BY <1>5, Zenon DEF CausalReceive
  <2>2. held' \in [Nodes -> Seq(CausalMessages)]
    BY <1>3, <2>1, Zenon DEF CausalTypes
  <2>3. CausalTypes'
    BY <1>0, <1>2, <2>1, <2>2, SameMessages, Zenon DEF CausalTypes
  <2>4. QED BY <2>1, <2>3, SameDelivery, Zenon
<1>6. QED BY <1>4, <1>5, Zenon

LEMMA RecheckKeepsBoth ==
    ASSUME CausalTypes, DeliveryInv, NEW n \in Nodes, Recheck(n)
    PROVE  CausalTypes' /\ DeliveryInv'
<1> DEFINE m == Head(recheck[n])
<1>0. /\ recheck[n] \in Seq(CausalMessages) /\ recheck[n] # <<>> /\ used' = used
      /\ held[n] \in Seq(CausalMessages)
      /\ recheck' = [recheck EXCEPT ![n] = Tail(recheck[n])] /\ inbox' = inbox
      /\ stamped' = stamped /\ broadcast' = broadcast /\ copying' = copying
  BY Zenon DEF Recheck, CausalTypes
<1>1. m \in CausalMessages /\ Tail(recheck[n]) \in Seq(CausalMessages)
  BY <1>0, HeadTailProperties, Zenon
<1>2. recheck' \in [Nodes -> Seq(CausalMessages)]
  BY <1>0, <1>1, Zenon DEF CausalTypes
<1>3. Append(held[n], m) \in Seq(CausalMessages)
  BY <1>0, <1>1, AppendProperties, Zenon
<1>4. CASE isCausallyReady(m, VC[n])
  <2>1. Deliver(n, m) /\ held' = held
    BY <1>4, Zenon DEF Recheck
  <2>2. /\ VC' \in [Nodes -> [Nodes -> 0 .. Cardinality(used)]]
        /\ delivered' \in [Nodes -> Seq(CausalMessages)] /\ DeliveryInv'
    BY <1>0, <1>1, <1>4, <2>1, DeliverKeeps, Zenon
  <2>3. QED BY <1>0, <1>2, <2>1, <2>2, SameMessages, Zenon DEF CausalTypes
<1>5. CASE ~isCausallyReady(m, VC[n])
  <2>1. /\ held' = [held EXCEPT ![n] = Append(held[n], m)]
        /\ VC' = VC /\ delivered' = delivered
    BY <1>5, Zenon DEF Recheck
  <2>2. held' \in [Nodes -> Seq(CausalMessages)]
    BY <1>3, <2>1, Zenon DEF CausalTypes
  <2>3. CausalTypes'
    BY <1>0, <1>2, <2>1, <2>2, SameMessages, Zenon DEF CausalTypes
  <2>4. QED BY <2>1, <2>3, SameDelivery, Zenon
<1>6. QED BY <1>4, <1>5, Zenon

LEMMA CausalInvInductive ==
    ASSUME CausalInv, overtaken \in BOOLEAN, [CausalNext]_causalVars
    PROVE  CausalInv' /\ overtaken' \in BOOLEAN
<1>0. CausalTypes /\ DeliveryInv /\ (overtaken \/ InOrder)
  BY Zenon DEF CausalInv
<1>1. ASSUME NEW s \in Senders, CausalSend(s)
      PROVE  CausalInv' /\ overtaken' \in BOOLEAN
  <2>1. CausalTypes' /\ DeliveryInv'
    <3>1. VC' = VC /\ delivered' = delivered
      BY <1>1, Zenon DEF CausalSend
    <3>2. QED BY <1>0, <1>1, <3>1, SendKeepsTypes, SameDelivery, Zenon
  <2>2. overtaken' \in BOOLEAN /\ (overtaken => overtaken')
    BY <1>1, Zenon DEF CausalSend
  <2>3. overtaken' \/ InOrder'
    BY <1>0, <1>1, <2>2, SendInOrder, Zenon
  <2>4. QED BY <2>1, <2>2, <2>3, Zenon DEF CausalInv
<1>2. ASSUME NEW s \in Senders, NEW n \in Nodes, CausalStamp(s, n)
      PROVE  CausalInv' /\ overtaken' \in BOOLEAN
  <2>1. overtaken' = overtaken
    BY <1>2, Zenon DEF CausalStamp
  <2>2. QED BY <1>0, <1>2, <2>1, StampFacts, StampKeeps, StampInOrder, Zenon DEF CausalInv
<1>3. ASSUME NEW n \in Nodes, Copy(n)
      PROVE  CausalInv' /\ overtaken' \in BOOLEAN
  <2>1. overtaken' = overtaken /\ VC' = VC /\ delivered' = delivered
    BY <1>3, Zenon DEF Copy
  <2>2. QED BY <1>0, <1>3, <2>1, CopyKeepsTypes, SameDelivery, CopyInOrder, Zenon DEF CausalInv
<1>4. ASSUME NEW n \in Nodes, CausalReceive(n)
      PROVE  CausalInv' /\ overtaken' \in BOOLEAN
  <2>1. overtaken' = overtaken
    BY <1>4, Zenon DEF CausalReceive
  <2>2. QED BY <1>0, <1>4, <2>1, ReceiveKeepsBoth, ReceiveInOrder, Zenon DEF CausalInv
<1>5. ASSUME NEW n \in Nodes, Recheck(n)
      PROVE  CausalInv' /\ overtaken' \in BOOLEAN
  <2>1. overtaken' = overtaken
    BY <1>5, Zenon DEF Recheck
  <2>2. overtaken
    BY <1>0, <1>5, Zenon DEF Recheck, InOrder, NothingHeld
  <2>3. QED BY <1>0, <1>5, <2>1, <2>2, RecheckKeepsBoth, Zenon DEF CausalInv
<1>6. ASSUME UNCHANGED causalVars
      PROVE  CausalInv' /\ overtaken' \in BOOLEAN
  <2>1. /\ VC' = VC /\ stamped' = stamped /\ used' = used /\ broadcast' = broadcast
        /\ copying' = copying /\ inbox' = inbox /\ held' = held /\ recheck' = recheck
        /\ delivered' = delivered /\ overtaken' = overtaken
    BY <1>6, Zenon DEF causalVars
  <2>2. CausalTypes' /\ DeliveryInv'
    BY <1>0, <2>1, SameDelivery, SameMessages, Zenon DEF CausalTypes
  <2>3. InOrder => InOrder'
    BY <2>1, SameInOrder, Zenon
  <2>4. QED BY <1>0, <2>1, <2>2, <2>3, Zenon DEF CausalInv
<1>7. QED BY <1>1, <1>2, <1>3, <1>4, <1>5, <1>6, Zenon DEF CausalNext

\* The invariant says what the model's properties do.
LEMMA CausalInvSuffices ==
    ASSUME CausalInv, overtaken \in BOOLEAN
    PROVE  CausalTypeOK /\ CausalDelivery /\ HeldOnlyIfOvertaken
<1>0. CausalTypes /\ DeliveryInv /\ (overtaken \/ InOrder)
  BY Zenon DEF CausalInv
<1>1. CausalTypeOK
  <2>1. CausalMessages \subseteq Messages /\ 0 .. Cardinality(used) \subseteq 0 .. Cardinality(Senders)
    BY <1>0, CausalMessagesTyped, UsedFinite DEF CausalTypes
  <2>2. VC \in [Nodes -> Clocks] /\ \A s \in Senders : stamped[s] \in Messages \cup {None}
    BY <1>0, <2>1 DEF CausalTypes, Clocks
  <2>3. \A q \in Seq(CausalMessages) : Range(q) \subseteq Messages
    <3>1. \A q \in Seq(CausalMessages) : \A i \in DOMAIN q : q[i] \in CausalMessages
      BY LenProperties, ElementOfSeq, Zenon
    <3>2. QED BY <2>1, <3>1, Zenon DEF Range
  <2>4. \A n \in Nodes : inbox[n] \o held[n] \o recheck[n] \o delivered[n] \in Seq(CausalMessages)
    <3>1. \A n \in Nodes : /\ inbox[n] \in Seq(CausalMessages) /\ held[n] \in Seq(CausalMessages)
                           /\ recheck[n] \in Seq(CausalMessages)
                           /\ delivered[n] \in Seq(CausalMessages)
      BY <1>0, Zenon DEF CausalTypes
    <3>2. QED BY <3>1, ConcatProperties, Zenon
  <2>5. QED BY <1>0, <2>2, <2>3, <2>4, Zenon DEF CausalTypeOK, CausalTypes
<1>2. CausalDelivery
  <2> SUFFICES ASSUME NEW n \in Nodes
               PROVE  /\ IsInjective(delivered[n])
                      /\ \A i, j \in DOMAIN delivered[n] :
                            i < j => ~Before(delivered[n][j], delivered[n][i])
                      /\ \A m \in Range(delivered[n]) : \A k \in Nodes \ {n} :
                            m.VC[k] <= Cardinality({d \in Range(delivered[n]) : d.sender = k})
    BY Zenon DEF CausalDelivery
  <2>0. /\ \A i \in DOMAIN delivered[n] : i \in Nat /\ delivered[n][i].sender \in Nodes
        /\ \A i \in DOMAIN delivered[n] : \A k \in Nodes : delivered[n][i].VC[k] \in Nat
    <3>1. delivered[n] \in Seq(CausalMessages) /\ Cardinality(used) \in Nat
      BY <1>0, Zenon DEF CausalTypes
    <3>2. \A i \in DOMAIN delivered[n] : i \in Nat /\ delivered[n][i] \in CausalMessages
      BY <3>1, LenProperties, ElementOfSeq
    <3>3. QED BY <3>1, <3>2, CausalEntries, Zenon
  <2>1. \A i, j \in DOMAIN delivered[n] :
            i < j => delivered[n][i].VC[delivered[n][j].sender] < delivered[n][j].VC[delivered[n][j].sender]
    BY <1>0, Zenon DEF DeliveryInv, NewByOwn, Own
  <2>2. \A i, j \in DOMAIN delivered[n] : i < j =>
            delivered[n][i] # delivered[n][j] /\ ~Before(delivered[n][j], delivered[n][i])
    <3> SUFFICES ASSUME NEW i \in DOMAIN delivered[n], NEW j \in DOMAIN delivered[n], i < j
                 PROVE  delivered[n][i] # delivered[n][j] /\ ~Before(delivered[n][j], delivered[n][i])
      BY Zenon
    <3>1. PICK k \in Nodes : /\ delivered[n][i].VC[k] < delivered[n][j].VC[k]
                             /\ delivered[n][i].VC[k] \in Nat /\ delivered[n][j].VC[k] \in Nat
      BY <2>0, <2>1, Zenon
    <3>2. ~(delivered[n][j].VC[k] <= delivered[n][i].VC[k])
      BY <3>1
    <3>3. delivered[n][i] # delivered[n][j]
      BY <3>1
    <3>4. QED BY <3>2, <3>3, Zenon DEF Before
  <2>3. IsInjective(delivered[n])
    <3> SUFFICES ASSUME NEW i \in DOMAIN delivered[n], NEW j \in DOMAIN delivered[n],
                        delivered[n][i] = delivered[n][j], i # j
                 PROVE  FALSE
      BY Zenon DEF IsInjective
    <3>1. i < j \/ j < i
      BY <2>0
    <3>2. QED BY <2>2, <3>1, Zenon
  <2>4. \A m \in Range(delivered[n]) : \A k \in Nodes \ {n} :
            m.VC[k] <= Cardinality({d \in Range(delivered[n]) : d.sender = k})
    BY <1>0, Zenon DEF DeliveryInv, ClockCovers, ClockCounts, From, Range
  <2>5. QED BY <2>2, <2>3, <2>4, Zenon
<1>3. HeldOnlyIfOvertaken
  BY <1>0, Zenon DEF HeldOnlyIfOvertaken, InOrder, NothingHeld
<1>4. QED BY <1>1, <1>2, <1>3, Zenon

\* Causal delivery with vector clocks (solution1_VectorClockOrdering), for any nodes and
\* any number of sends: a node never delivers a message before one it depends on, never
\* twice and never with a gap; and it holds a message back only after a send that
\* overtook another of its node between the stamp and the channel.
THEOREM DeliveryIsCausal ==
    CausalSpec => [](CausalTypeOK /\ CausalDelivery /\ HeldOnlyIfOvertaken)
<1> DEFINE Inv == CausalInv /\ overtaken \in BOOLEAN
<1>1. CausalInit => Inv
  <2>1. CausalInit => overtaken \in BOOLEAN
    BY Zenon DEF CausalInit
  <2>2. QED BY <2>1, CausalInitTypes, CausalInitDelivery, InitInOrder, Zenon DEF CausalInv
<1>2. Inv /\ [CausalNext]_causalVars => Inv'
  BY CausalInvInductive, Zenon
<1>3. Inv => CausalTypeOK /\ CausalDelivery /\ HeldOnlyIfOvertaken
  BY CausalInvSuffices, Zenon
<1> HIDE DEF Inv
<1>4. QED BY <1>1, <1>2, <1>3, PTL DEF CausalSpec

-----------------------------------------------------------------------------
\* Messages keep their order in each of the three ways of challenge 10, for any number of
\* nodes, senders, processes, goroutines and messages: causally by vector clocks, totally
\* by Lamport timestamps, by number from the buffer.
THEOREM MessagesKeepOrder == OrderingSpec => []OrderKept
<1>1. OrderingInit => CausalInit /\ LamportInit /\ SequencedInit
  BY Zenon DEF OrderingInit
<1>2. [OrderingNext]_orderingVars =>
          [CausalNext]_causalVars /\ [LamportNext]_lamportVars /\ [SequencedNext]_sequencedVars
  BY Zenon DEF OrderingNext, orderingVars
<1>3. /\ CausalTypeOK /\ CausalDelivery /\ HeldOnlyIfOvertaken
      /\ LamportTypeOK /\ TotalOrderIsCausal
      /\ SequencedTypeOK /\ DeliveredInOrder
      => OrderKept
  BY Zenon DEF OrderKept
<1>4. QED
  BY <1>1, <1>2, <1>3, DeliveryIsCausal, LamportOrderIsCausal, BufferDeliversInOrder, PTL
     DEF OrderingSpec, CausalSpec, LamportSpec, SequencedSpec
=============================================================================
