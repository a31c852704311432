------------------------- MODULE CausalOrderProofs --------------------------
(***************************************************************************)
(* The inductive invariant behind causal delivery with vector clocks       *)
(* (challenge 10), and the part of it that holds until a send overtakes    *)
(* another of its node: everything on its way is in the order of the       *)
(* clocks. MessageOrderingProofs draws the theorems from it.               *)
(***************************************************************************)
EXTENDS MessageOrdering, TLAPS

\* Facts about sequences.
LEMMA SeqDef == \A S : Seq(S) = UNION {[1 .. n -> S] : n \in Nat}
OBVIOUS

LEMMA SeqMonotonic ==
    ASSUME NEW S, NEW T, S \subseteq T PROVE Seq(S) \subseteq Seq(T)
OBVIOUS

LEMMA LenProperties ==
    ASSUME NEW S, NEW seq \in Seq(S)
    PROVE  Len(seq) \in Nat /\ seq \in [1 .. Len(seq) -> S] /\ DOMAIN seq = 1 .. Len(seq)
OBVIOUS

LEMMA ElementOfSeq ==
    ASSUME NEW S, NEW seq \in Seq(S), NEW n \in 1 .. Len(seq) PROVE seq[n] \in S
OBVIOUS

LEMMA EmptySeq ==
    ASSUME NEW S
    PROVE  /\ <<>> \in Seq(S) /\ Len(<<>>) = 0
           /\ \A seq \in Seq(S) : seq # <<>> => Len(seq) \in Nat \ {0}
OBVIOUS

LEMMA AppendProperties ==
    ASSUME NEW S, NEW seq \in Seq(S), NEW e \in S
    PROVE  /\ Append(seq, e) \in Seq(S) /\ Append(seq, e) # <<>>
           /\ Len(Append(seq, e)) = Len(seq) + 1
           /\ \A i \in 1 .. Len(seq) : Append(seq, e)[i] = seq[i]
           /\ Append(seq, e)[Len(seq) + 1] = e
OBVIOUS

LEMMA HeadTailProperties ==
    ASSUME NEW S, NEW seq \in Seq(S), seq # <<>>
    PROVE  /\ Head(seq) \in S /\ Tail(seq) \in Seq(S)
           /\ Len(Tail(seq)) = Len(seq) - 1
           /\ \A i \in 1 .. Len(Tail(seq)) : Tail(seq)[i] = seq[i + 1]
OBVIOUS

LEMMA ConcatProperties ==
    ASSUME NEW S, NEW s \in Seq(S), NEW t \in Seq(S)
    PROVE  /\ s \o t \in Seq(S) /\ Len(s \o t) = Len(s) + Len(t)
           /\ \A i \in 1 .. Len(s) + Len(t) :
                 (s \o t)[i] = IF i <= Len(s) THEN s[i] ELSE t[i - Len(s)]
OBVIOUS

LEMMA RangeOfSeq == ASSUME NEW S, NEW seq \in Seq(S) PROVE Range(seq) \in SUBSET S
BY DEF Range

\* A sequence with one more element, element by element.
LEMMA Appended ==
    ASSUME NEW S, NEW seq \in Seq(S), NEW e \in S
    PROVE  /\ Append(seq, e) \in Seq(S) /\ Len(seq) \in Nat
           /\ Len(Append(seq, e)) = Len(seq) + 1
           /\ DOMAIN seq = 1 .. Len(seq)
           /\ DOMAIN Append(seq, e) = 1 .. Len(seq) + 1
           /\ \A i \in 1 .. Len(seq) : Append(seq, e)[i] = seq[i] /\ seq[i] \in S
           /\ Append(seq, e)[Len(seq) + 1] = e
BY AppendProperties, LenProperties, ElementOfSeq

\* The rest of a sequence, element by element.
LEMMA Tailed ==
    ASSUME NEW S, NEW seq \in Seq(S), seq # <<>>
    PROVE  /\ Len(seq) \in Nat \ {0} /\ DOMAIN seq = 1 .. Len(seq)
           /\ Head(seq) = seq[1] /\ seq[1] \in S
           /\ Tail(seq) \in Seq(S)
           /\ DOMAIN Tail(seq) = 1 .. Len(seq) - 1
           /\ \A i \in 1 .. Len(seq) - 1 : Tail(seq)[i] = seq[i + 1]
<1>1. Len(seq) \in Nat \ {0} /\ DOMAIN seq = 1 .. Len(seq)
  BY EmptySeq, LenProperties, Zenon
<1>2. /\ Tail(seq) \in Seq(S) /\ Len(Tail(seq)) = Len(seq) - 1
      /\ \A i \in 1 .. Len(Tail(seq)) : Tail(seq)[i] = seq[i + 1]
  BY HeadTailProperties, Zenon
<1>3. DOMAIN Tail(seq) = 1 .. Len(seq) - 1
  BY <1>2, LenProperties, Zenon
<1>4. Head(seq) = seq[1] /\ seq[1] \in S
  <2>1. 1 \in 1 .. Len(seq)
    BY <1>1
  <2>2. QED BY <2>1, ElementOfSeq
<1>5. QED BY <1>1, <1>2, <1>3, <1>4, Zenon

(***************************************************************************)
(* Vector clocks. A message is known by its sender and the sender's entry  *)
(* of its clock.                                                           *)
(***************************************************************************)
CausalMessages == [sender : Nodes, VC : [Nodes -> 0 .. Cardinality(used)]]

CausalTypes ==
    /\ used \subseteq Senders /\ Cardinality(used) \in Nat
    /\ VC \in [Nodes -> [Nodes -> 0 .. Cardinality(used)]]
    /\ stamped \in [Senders -> CausalMessages \cup {None}]
    /\ \A s \in Senders : stamped[s] # None => s \in used
    /\ broadcast \in Seq(CausalMessages)
    /\ copying \subseteq Nodes
    /\ inbox \in [Nodes -> Seq(CausalMessages)]
    /\ held \in [Nodes -> Seq(CausalMessages)]
    /\ recheck \in [Nodes -> Seq(CausalMessages)]
    /\ delivered \in [Nodes -> Seq(CausalMessages)]

Own(m) == m.VC[m.sender]

\* What a node delivers is new by the entry of its sender ...
NewByOwn ==
    \A n \in Nodes : \A i, j \in DOMAIN delivered[n] :
        i < j => delivered[n][i].VC[delivered[n][j].sender] < Own(delivered[n][j])

\* ... and the node's clock has counted it.
ClockCovers ==
    \A n \in Nodes : \A i \in DOMAIN delivered[n] : \A k \in Nodes :
        delivered[n][i].VC[k] <= VC[n][k]

From(n, k) == {d \in Range(delivered[n]) : d.sender = k}

ClockCounts ==
    \A n \in Nodes : \A k \in Nodes \ {n} :
        IsFiniteSet(From(n, k)) /\ Cardinality(From(n, k)) = VC[n][k]

DeliveryInv == NewByOwn /\ ClockCovers /\ ClockCounts

Is(m, k, c) == m.sender = k /\ m.VC[k] = c

\* The j-th message of the channel is yet to be copied to n.
ToCome(n, j) ==
    /\ j \in DOMAIN broadcast
    /\ broadcast[j].sender # n
    /\ copying = {} \/ n \in copying \/ j > 1

InInbox(n, k, c) == \E i \in DOMAIN inbox[n] : Is(inbox[n][i], k, c)

InChannel(n, k, c) == \E j \in DOMAIN broadcast : ToCome(n, j) /\ Is(broadcast[j], k, c)

InHand(s) == stamped[s] # None

Stamped(k, c) == \E s \in Senders : InHand(s) /\ Is(stamped[s], k, c)

NothingHeld == \A n \in Nodes : held[n] = <<>> /\ recheck[n] = <<>>

CopyingHead ==
    copying # {} => broadcast # <<>> /\ broadcast[1].sender \notin copying

OthersMail == \A n \in Nodes : \A i \in DOMAIN inbox[n] : inbox[n][i].sender # n

\* No clock is ahead of the node it counts.
ClocksBehind ==
    /\ \A n, k \in Nodes : VC[n][k] <= VC[k][k]
    /\ \A j \in DOMAIN broadcast : \A k \in Nodes : broadcast[j].VC[k] <= VC[k][k]
    /\ \A n \in Nodes : \A i \in DOMAIN inbox[n] : \A k \in Nodes :
          inbox[n][i].VC[k] <= VC[k][k]
    /\ \A s \in Senders : InHand(s) =>
          \A k \in Nodes : stamped[s].VC[k] <= VC[stamped[s].sender][k]

\* What a node has counted for itself is delivered at the others or on its way.
Located ==
    \A n, k \in Nodes : \A c \in Nat \ {0} :
        n # k /\ VC[n][k] < c /\ c <= VC[k][k] =>
            InInbox(n, k, c) \/ InChannel(n, k, c) \/ Stamped(k, c)

\* Messages of one sender are on their way in the order of its clock: those in hand ...
HandOrder ==
    \A r, s \in Senders : InHand(r) /\ InHand(s) /\ stamped[r].sender = stamped[s].sender =>
        /\ r # s => Own(stamped[r]) # Own(stamped[s])
        /\ Own(stamped[r]) <= Own(stamped[s]) =>
              \A k \in Nodes : stamped[r].VC[k] <= stamped[s].VC[k]

HandLast ==
    \A n \in Nodes : \A s \in Senders : InHand(s) /\ stamped[s].sender # n =>
        /\ VC[n][stamped[s].sender] < Own(stamped[s])
        /\ \A i \in DOMAIN inbox[n] :
              inbox[n][i].sender = stamped[s].sender => Own(inbox[n][i]) < Own(stamped[s])
        /\ \A j \in DOMAIN broadcast :
              ToCome(n, j) /\ broadcast[j].sender = stamped[s].sender =>
                  Own(broadcast[j]) < Own(stamped[s])

\* ... after those in the channel ...
ChannelOrder ==
    \A n \in Nodes : \A j \in DOMAIN broadcast : ToCome(n, j) =>
        /\ VC[n][broadcast[j].sender] < Own(broadcast[j])
        /\ \A i \in DOMAIN inbox[n] :
              inbox[n][i].sender = broadcast[j].sender => Own(inbox[n][i]) < Own(broadcast[j])
        /\ \A h \in DOMAIN broadcast :
              h < j /\ ToCome(n, h) /\ broadcast[h].sender = broadcast[j].sender =>
                  Own(broadcast[h]) < Own(broadcast[j])

\* ... and those in an inbox.
InboxOrder ==
    \A n \in Nodes : \A i \in DOMAIN inbox[n] :
        /\ VC[n][inbox[n][i].sender] < Own(inbox[n][i])
        /\ \A h \in DOMAIN inbox[n] :
              h < i /\ inbox[n][h].sender = inbox[n][i].sender =>
                  Own(inbox[n][h]) < Own(inbox[n][i])

\* c is an entry of m's clock for k that n has yet to reach, other than m itself.
Missing(n, m, k, c) == k # n /\ VC[n][k] < c /\ c <= m.VC[k] /\ ~Is(m, k, c)

\* What a message on its way depends on is before it.
InboxCauses ==
    \A n, k \in Nodes : \A c \in Nat : \A i \in DOMAIN inbox[n] :
        Missing(n, inbox[n][i], k, c) =>
            \E h \in DOMAIN inbox[n] : h < i /\ Is(inbox[n][h], k, c)

ChannelCauses ==
    \A n, k \in Nodes : \A c \in Nat : \A j \in DOMAIN broadcast :
        ToCome(n, j) /\ Missing(n, broadcast[j], k, c) =>
            \/ InInbox(n, k, c)
            \/ \E h \in DOMAIN broadcast : h < j /\ ToCome(n, h) /\ Is(broadcast[h], k, c)

InOrder ==
    /\ NothingHeld /\ CopyingHead /\ OthersMail /\ ClocksBehind /\ Located
    /\ HandOrder /\ HandLast /\ ChannelOrder /\ InboxOrder
    /\ InboxCauses /\ ChannelCauses

CausalInv == CausalTypes /\ DeliveryInv /\ (overtaken \/ InOrder)

\* The entries of a message's clock are numbers.
LEMMA CausalEntries ==
    ASSUME Cardinality(used) \in Nat, NEW m \in CausalMessages
    PROVE  m.sender \in Nodes /\ \A k \in Nodes : m.VC[k] \in Nat
<1>1. m.sender \in Nodes /\ m.VC \in [Nodes -> 0 .. Cardinality(used)]
  BY Zenon DEF CausalMessages
<1>2. QED BY <1>1

\* A ready message moves the node's clock by one, at its sender's entry.
LEMMA ReadyAddsOne ==
    ASSUME CausalTypes, NEW n \in Nodes, NEW m \in CausalMessages, isCausallyReady(m, VC[n])
    PROVE  /\ m.sender \in Nodes
           /\ \A k \in Nodes : VC[n][k] \in Nat /\ m.VC[k] \in Nat
           /\ Own(m) = VC[n][m.sender] + 1
           /\ \A k \in Nodes : Merged(VC[n], m)[k] =
                 IF k = m.sender THEN VC[n][k] + 1 ELSE VC[n][k]
           /\ \A k \in Nodes : m.VC[k] <= Merged(VC[n], m)[k]
           /\ Merged(VC[n], m) \in [Nodes -> 0 .. Cardinality(used)]
<1>0. Cardinality(used) \in Nat /\ VC[n] \in [Nodes -> 0 .. Cardinality(used)]
  BY Zenon DEF CausalTypes
<1>1. m.sender \in Nodes /\ m.VC \in [Nodes -> 0 .. Cardinality(used)]
  BY Zenon DEF CausalMessages
<1>2. \A k \in Nodes : VC[n][k] \in 0 .. Cardinality(used) /\ m.VC[k] \in 0 .. Cardinality(used)
  BY <1>0, <1>1, Zenon
<1>3. m.VC[m.sender] = VC[n][m.sender] + 1 /\ \A k \in Nodes \ {m.sender} : m.VC[k] <= VC[n][k]
  BY Zenon DEF isCausallyReady
<1>4. \A k \in Nodes : Merged(VC[n], m)[k] = IF m.VC[k] > VC[n][k] THEN m.VC[k] ELSE VC[n][k]
  BY Zenon DEF Merged
<1>5. \A k \in Nodes : Merged(VC[n], m)[k] = IF k = m.sender THEN VC[n][k] + 1 ELSE VC[n][k]
  BY <1>0, <1>1, <1>2, <1>3, <1>4
<1>6. Merged(VC[n], m) \in [Nodes -> 0 .. Cardinality(used)]
  BY <1>2, Zenon DEF Merged
<1>7. \A k \in Nodes : m.VC[k] <= Merged(VC[n], m)[k]
  BY <1>0, <1>1, <1>2, <1>3, <1>5
<1>8. QED BY <1>0, <1>1, <1>2, <1>3, <1>5, <1>6, <1>7 DEF Own

\* The parts of a message and of a clock.
LEMMA CausalParts ==
    ASSUME CausalTypes
    PROVE  /\ \A n, k \in Nodes : VC[n][k] \in Nat
           /\ \A n \in Nodes : \A i \in DOMAIN inbox[n] :
                 /\ inbox[n][i].sender \in Nodes /\ Own(inbox[n][i]) \in Nat
                 /\ \A k \in Nodes : inbox[n][i].VC[k] \in Nat
           /\ \A j \in DOMAIN broadcast :
                 /\ broadcast[j].sender \in Nodes /\ Own(broadcast[j]) \in Nat
                 /\ \A k \in Nodes : broadcast[j].VC[k] \in Nat
           /\ \A s \in Senders : InHand(s) =>
                 /\ stamped[s].sender \in Nodes /\ Own(stamped[s]) \in Nat
                 /\ \A k \in Nodes : stamped[s].VC[k] \in Nat
<1>0. Cardinality(used) \in Nat
  BY Zenon DEF CausalTypes
<1>1. \A m \in CausalMessages : m.sender \in Nodes /\ Own(m) \in Nat /\ \A k \in Nodes : m.VC[k] \in Nat
  BY <1>0, CausalEntries, Zenon DEF Own
<1>2. \A n, k \in Nodes : VC[n][k] \in Nat
  BY <1>0 DEF CausalTypes
<1>3. \A n \in Nodes : \A i \in DOMAIN inbox[n] : inbox[n][i] \in CausalMessages
  BY LenProperties, ElementOfSeq, Zenon DEF CausalTypes
<1>4. \A j \in DOMAIN broadcast : broadcast[j] \in CausalMessages
  BY LenProperties, ElementOfSeq, Zenon DEF CausalTypes
<1>5. \A s \in Senders : InHand(s) => stamped[s] \in CausalMessages
  BY Zenon DEF CausalTypes, InHand
<1>6. QED BY <1>1, <1>2, <1>3, <1>4, <1>5, Zenon

\* What CausalStamp does to the clocks and the messages in hand.
LEMMA StampClocks ==
    ASSUME CausalTypes, NEW s \in Senders, NEW n \in Nodes, CausalStamp(s, n)
    PROVE  /\ VC' = [p \in Nodes |-> [k \in Nodes |-> VC'[p][k]]]
           /\ \A p, k \in Nodes : VC'[p][k] = IF p = n /\ k = n THEN VC[n][n] + 1 ELSE VC[p][k]
           /\ \A p, k \in Nodes : VC[p][k] \in 0 .. Cardinality(used)
           /\ stamped[s] = None /\ stamped'[s] = CausalMessage(n, VC'[n])
           /\ stamped'[s].sender = n /\ \A k \in Nodes : stamped'[s].VC[k] = VC'[n][k]
           /\ \A r \in Senders : r # s => stamped'[r] = stamped[r]
<1>0. /\ s \notin used /\ VC' = [VC EXCEPT ![n][n] = @ + 1]
      /\ stamped' = [stamped EXCEPT ![s] = CausalMessage(n, VC'[n])]
  BY Zenon DEF CausalStamp
<1>1. VC \in [Nodes -> [Nodes -> 0 .. Cardinality(used)]] /\ DOMAIN stamped = Senders
  BY Zenon DEF CausalTypes
<1>2. /\ \A p, k \in Nodes : VC[p][k] \in 0 .. Cardinality(used)
      /\ \A p, k \in Nodes : VC'[p][k] = IF p = n /\ k = n THEN VC[n][n] + 1 ELSE VC[p][k]
      /\ VC' = [p \in Nodes |-> VC'[p]] /\ \A p \in Nodes : VC'[p] = [k \in Nodes |-> VC'[p][k]]
  BY <1>0, <1>1, Zenon
<1>3. VC' = [p \in Nodes |-> [k \in Nodes |-> VC'[p][k]]]
  BY ONLY <1>2, Zenon
<1>4. stamped[s] = None
  BY <1>0, Zenon DEF CausalTypes
<1>5. stamped'[s] = CausalMessage(n, VC'[n]) /\ \A r \in Senders : r # s => stamped'[r] = stamped[r]
  BY <1>0, <1>1, Zenon
<1>6. stamped'[s].sender = n /\ \A k \in Nodes : stamped'[s].VC[k] = VC'[n][k]
  BY <1>5 DEF CausalMessage
<1>7. QED BY <1>2, <1>3, <1>4, <1>5, <1>6, Zenon

LEMMA InitInOrder == CausalInit => InOrder
<1> SUFFICES ASSUME CausalInit PROVE InOrder
  BY Zenon
<1>0. DOMAIN <<>> = {}
  <2>1. <<>> \in Seq({}) /\ Len(<<>>) = 0
    BY EmptySeq, Zenon
  <2>2. QED BY <2>1, LenProperties
<1>1. /\ \A n \in Nodes : DOMAIN inbox[n] = {} /\ held[n] = <<>> /\ recheck[n] = <<>>
      /\ DOMAIN broadcast = {} /\ copying = {} /\ \A s \in Senders : ~InHand(s)
      /\ \A n, k \in Nodes : VC[n][k] = 0
  BY <1>0, Zenon DEF CausalInit, InHand
<1>2. NothingHeld /\ CopyingHead /\ OthersMail /\ ClocksBehind /\ HandOrder /\ HandLast
  BY <1>1 DEF NothingHeld, CopyingHead, OthersMail, ClocksBehind, HandOrder, HandLast
<1>3. Located
  BY <1>1 DEF Located
<1>4. ChannelOrder /\ InboxOrder /\ InboxCauses /\ ChannelCauses
  BY <1>1, Zenon DEF ChannelOrder, InboxOrder, InboxCauses, ChannelCauses
<1>5. QED BY <1>2, <1>3, <1>4, Zenon DEF InOrder

LEMMA StampInOrder ==
    ASSUME CausalTypes, InOrder, NEW s \in Senders, NEW n \in Nodes, CausalStamp(s, n),
           stamped'[s] # None
    PROVE  InOrder'
<1> DEFINE new == stamped'[s]
<1>0. /\ broadcast' = broadcast /\ copying' = copying
      /\ inbox' = inbox /\ held' = held /\ recheck' = recheck
  BY Zenon DEF CausalStamp
<1>1. /\ \A p, k \in Nodes : VC'[p][k] = IF p = n /\ k = n THEN VC[n][n] + 1 ELSE VC[p][k]
      /\ \A p, k \in Nodes : VC[p][k] \in Nat
      /\ ~InHand(s) /\ InHand(s)'
      /\ new.sender = n /\ \A k \in Nodes : new.VC[k] = VC'[n][k]
      /\ \A r \in Senders : r # s => stamped'[r] = stamped[r] /\ (InHand(r)' <=> InHand(r))
  BY StampClocks, CausalParts DEF InHand
<1>2. /\ \A p \in Nodes : \A i \in DOMAIN inbox[p] :
            /\ inbox[p][i].sender \in Nodes /\ Own(inbox[p][i]) \in Nat
            /\ \A k \in Nodes : inbox[p][i].VC[k] \in Nat
      /\ \A j \in DOMAIN broadcast :
            /\ broadcast[j].sender \in Nodes /\ Own(broadcast[j]) \in Nat
            /\ \A k \in Nodes : broadcast[j].VC[k] \in Nat
      /\ \A r \in Senders : InHand(r) =>
            /\ stamped[r].sender \in Nodes /\ Own(stamped[r]) \in Nat
            /\ \A k \in Nodes : stamped[r].VC[k] \in Nat
  BY CausalParts, Zenon
<1> HIDE DEF new
<1>3. Own(new) = VC[n][n] + 1
  BY <1>1, Zenon DEF Own
<1>4. \A p \in Nodes : \A j : ToCome(p, j)' <=> ToCome(p, j)
  BY <1>0, Zenon DEF ToCome
<1>5. \A p, k \in Nodes : VC[p][k] <= VC'[p][k] /\ VC'[p][k] \in Nat /\ (p # k => VC'[p][k] = VC[p][k])
  BY <1>1
<1>6. NothingHeld' /\ CopyingHead' /\ OthersMail'
  BY <1>0, Zenon DEF InOrder, NothingHeld, CopyingHead, OthersMail
<1>7. ClocksBehind'
  <2>1. \A p, k \in Nodes : VC'[p][k] <= VC'[k][k]
    BY <1>1 DEF InOrder, ClocksBehind
  <2>2. \A j \in DOMAIN broadcast : \A k \in Nodes : broadcast[j].VC[k] <= VC'[k][k]
    <3> SUFFICES ASSUME NEW j \in DOMAIN broadcast, NEW k \in Nodes
                 PROVE  broadcast[j].VC[k] <= VC'[k][k]
      BY Zenon
    <3>1. broadcast[j].VC[k] <= VC[k][k] /\ broadcast[j].VC[k] \in Nat
      BY <1>2, Zenon DEF InOrder, ClocksBehind
    <3>2. QED BY <1>1, <1>5, <3>1
  <2>3. \A p \in Nodes : \A i \in DOMAIN inbox[p] : \A k \in Nodes : inbox[p][i].VC[k] <= VC'[k][k]
    <3> SUFFICES ASSUME NEW p \in Nodes, NEW i \in DOMAIN inbox[p], NEW k \in Nodes
                 PROVE  inbox[p][i].VC[k] <= VC'[k][k]
      BY Zenon
    <3>1. inbox[p][i].VC[k] <= VC[k][k] /\ inbox[p][i].VC[k] \in Nat
      BY <1>2, Zenon DEF InOrder, ClocksBehind
    <3>2. QED BY <1>1, <1>5, <3>1
  <2>4. \A r \in Senders : InHand(r)' =>
            \A k \in Nodes : stamped'[r].VC[k] <= VC'[stamped'[r].sender][k]
    <3> SUFFICES ASSUME NEW r \in Senders, InHand(r)', NEW k \in Nodes
                 PROVE  stamped'[r].VC[k] <= VC'[stamped'[r].sender][k]
      BY Zenon
    <3>1. CASE r = s
      BY <1>1, <1>5, <3>1 DEF new
    <3>2. CASE r # s
      <4>1. InHand(r) /\ stamped'[r] = stamped[r] /\ stamped[r].sender \in Nodes
            /\ stamped[r].VC[k] \in Nat
        BY <1>1, <1>2, <3>2, Zenon
      <4>2. stamped[r].VC[k] <= VC[stamped[r].sender][k]
        BY <4>1, Zenon DEF InOrder, ClocksBehind
      <4>3. QED BY <1>1, <1>5, <4>1, <4>2
    <3>3. QED BY <3>1, <3>2, Zenon
  <2>5. QED BY <1>0, <2>1, <2>2, <2>3, <2>4, Zenon DEF ClocksBehind
<1>8. Located'
  <2> SUFFICES ASSUME NEW p \in Nodes, NEW k \in Nodes, NEW c \in Nat \ {0},
                      p # k, VC'[p][k] < c, c <= VC'[k][k]
               PROVE  (InInbox(p, k, c) \/ InChannel(p, k, c) \/ Stamped(k, c))'
    BY Zenon DEF Located
  <2>1. InInbox(p, k, c) => InInbox(p, k, c)'
    BY <1>0, Zenon DEF InInbox, Is
  <2>2. InChannel(p, k, c) => InChannel(p, k, c)'
    BY <1>0, <1>4, Zenon DEF InChannel, Is
  <2>3. Stamped(k, c) => Stamped(k, c)'
    BY <1>1, Zenon DEF Stamped, Is
  <2>4. CASE c <= VC[k][k]
    <3>1. VC[p][k] < c
      BY <1>5, Zenon
    <3>2. QED BY <2>1, <2>2, <2>3, <2>4, <3>1, Zenon DEF InOrder, Located
  <2>5. CASE ~(c <= VC[k][k])
    <3>1. k = n /\ c = VC[n][n] + 1
      BY <1>1, <2>5
    <3>2. new.VC[n] = c
      BY <1>1, <3>1, Zenon
    <3>3. QED BY <1>1, <3>1, <3>2, Zenon DEF Stamped, Is, new
  <2>6. QED BY <2>4, <2>5, Zenon
<1>9. \A r \in Senders : InHand(r) /\ stamped[r].sender = n =>
          Own(stamped[r]) < Own(new) /\ \A k \in Nodes : stamped[r].VC[k] <= new.VC[k]
  <2> SUFFICES ASSUME NEW r \in Senders, InHand(r), stamped[r].sender = n
               PROVE  Own(stamped[r]) < Own(new) /\ \A k \in Nodes : stamped[r].VC[k] <= new.VC[k]
    BY Zenon
  <2>1. \A k \in Nodes : stamped[r].VC[k] <= VC[n][k] /\ stamped[r].VC[k] \in Nat
    BY <1>2, Zenon DEF InOrder, ClocksBehind
  <2>2. \A k \in Nodes : stamped[r].VC[k] <= new.VC[k]
    BY <1>1, <1>5, <2>1
  <2>3. Own(stamped[r]) <= VC[n][n] /\ Own(stamped[r]) \in Nat
    BY <2>1, Zenon DEF Own
  <2>4. QED BY <1>1, <1>3, <2>2, <2>3
<1>10. HandOrder'
  <2> SUFFICES ASSUME NEW q \in Senders, NEW r \in Senders, InHand(q)', InHand(r)',
                      stamped'[q].sender = stamped'[r].sender
               PROVE  /\ q # r => Own(stamped'[q]) # Own(stamped'[r])
                      /\ Own(stamped'[q]) <= Own(stamped'[r]) =>
                            \A k \in Nodes : stamped'[q].VC[k] <= stamped'[r].VC[k]
    BY Zenon DEF HandOrder, Own
  <2>1. CASE q # s /\ r # s
    BY <1>1, <2>1 DEF InOrder, HandOrder
  <2>2. CASE q = s /\ r = s
    BY <1>1, <1>5, <2>2 DEF new
  <2>3. CASE q = s /\ r # s
    <3>1. InHand(r) /\ stamped'[r] = stamped[r] /\ stamped[r].sender = n /\ stamped'[q] = new
      BY <1>1, <2>3, Zenon DEF new
    <3>2. Own(stamped[r]) < Own(new) /\ Own(stamped[r]) \in Nat /\ Own(new) \in Nat
      BY <1>1, <1>2, <1>3, <1>9, <3>1
    <3>3. QED BY <3>1, <3>2
  <2>4. CASE q # s /\ r = s
    <3>1. InHand(q) /\ stamped'[q] = stamped[q] /\ stamped[q].sender = n /\ stamped'[r] = new
      BY <1>1, <2>4, Zenon DEF new
    <3>2. Own(stamped[q]) < Own(new) /\ Own(stamped[q]) \in Nat /\ Own(new) \in Nat
      BY <1>1, <1>2, <1>3, <1>9, <3>1
    <3>3. QED BY <1>9, <3>1, <3>2
  <2>5. QED BY <2>1, <2>2, <2>3, <2>4, Zenon
<1>11. HandLast'
  <2> SUFFICES ASSUME NEW p \in Nodes, NEW r \in Senders, InHand(r)', stamped'[r].sender # p
               PROVE  /\ VC'[p][stamped'[r].sender] < Own(stamped'[r])
                      /\ \A i \in DOMAIN inbox[p] :
                            inbox[p][i].sender = stamped'[r].sender =>
                                Own(inbox[p][i]) < Own(stamped'[r])
                      /\ \A j \in DOMAIN broadcast :
                            ToCome(p, j) /\ broadcast[j].sender = stamped'[r].sender =>
                                Own(broadcast[j]) < Own(stamped'[r])
    BY <1>0, <1>4, Zenon DEF HandLast, Own
  <2>1. CASE r # s
    <3>1. InHand(r) /\ stamped'[r] = stamped[r] /\ stamped[r].sender \in Nodes
      BY <1>1, <1>2, <2>1, Zenon
    <3>2. VC'[p][stamped[r].sender] = VC[p][stamped[r].sender]
      BY <1>5, <3>1, Zenon
    <3>3. QED BY <3>1, <3>2, Zenon DEF InOrder, HandLast
  <2>2. CASE r = s
    <3>0. stamped'[r] = new
      BY <2>2, Zenon DEF new
    <3>1. VC'[p][n] < Own(new)
      <4>1. VC'[p][n] = VC[p][n] /\ VC[p][n] <= VC[n][n]
        BY <1>1, <1>5, <3>0, Zenon DEF InOrder, ClocksBehind
      <4>2. QED BY <1>1, <1>3, <4>1
    <3>2. \A i \in DOMAIN inbox[p] : inbox[p][i].sender = n => Own(inbox[p][i]) < Own(new)
      <4> SUFFICES ASSUME NEW i \in DOMAIN inbox[p], inbox[p][i].sender = n
                   PROVE  Own(inbox[p][i]) < Own(new)
        BY Zenon
      <4>1. inbox[p][i].VC[n] <= VC[n][n] /\ inbox[p][i].VC[n] \in Nat
        BY <1>2, Zenon DEF InOrder, ClocksBehind
      <4>2. Own(inbox[p][i]) <= VC[n][n] /\ Own(inbox[p][i]) \in Nat
        BY <4>1, Zenon DEF Own
      <4>3. QED BY <1>1, <1>3, <4>2
    <3>3. \A j \in DOMAIN broadcast : broadcast[j].sender = n => Own(broadcast[j]) < Own(new)
      <4> SUFFICES ASSUME NEW j \in DOMAIN broadcast, broadcast[j].sender = n
                   PROVE  Own(broadcast[j]) < Own(new)
        BY Zenon
      <4>1. broadcast[j].VC[n] <= VC[n][n] /\ broadcast[j].VC[n] \in Nat
        BY <1>2, Zenon DEF InOrder, ClocksBehind
      <4>2. Own(broadcast[j]) <= VC[n][n] /\ Own(broadcast[j]) \in Nat
        BY <4>1, Zenon DEF Own
      <4>3. QED BY <1>1, <1>3, <4>2
    <3>4. QED BY <1>1, <3>0, <3>1, <3>2, <3>3, Zenon
  <2>3. QED BY <2>1, <2>2, Zenon
<1>12. \A p \in Nodes : \A j \in DOMAIN broadcast :
          ToCome(p, j) => VC'[p][broadcast[j].sender] = VC[p][broadcast[j].sender]
  BY <1>2, <1>5, Zenon DEF ToCome
<1>13. ChannelOrder'
  <2> SUFFICES ASSUME NEW p \in Nodes, NEW j \in DOMAIN broadcast, ToCome(p, j)
               PROVE  /\ VC'[p][broadcast[j].sender] < Own(broadcast[j])
                      /\ \A i \in DOMAIN inbox[p] :
                            inbox[p][i].sender = broadcast[j].sender =>
                                Own(inbox[p][i]) < Own(broadcast[j])
                      /\ \A h \in DOMAIN broadcast :
                            h < j /\ ToCome(p, h) /\ broadcast[h].sender = broadcast[j].sender =>
                                Own(broadcast[h]) < Own(broadcast[j])
    BY <1>0, <1>4 DEF ChannelOrder, Own
  <2>1. QED BY <1>12, Zenon DEF InOrder, ChannelOrder
<1>14. InboxOrder'
  <2>1. \A p \in Nodes : \A i \in DOMAIN inbox[p] :
            VC'[p][inbox[p][i].sender] = VC[p][inbox[p][i].sender]
    BY <1>2, <1>5, Zenon DEF InOrder, OthersMail
  <2>2. QED BY <1>0, <2>1 DEF InOrder, InboxOrder, Own
<1>15. \A p, k \in Nodes : \A c \in Nat : \A m : Missing(p, m, k, c)' <=> Missing(p, m, k, c)
  BY <1>5 DEF Missing, Is
<1>16. InboxCauses'
  BY <1>0, <1>15 DEF InOrder, InboxCauses, Is, Missing
<1>17. ChannelCauses'
  <2>1. \A p, k \in Nodes : \A c \in Nat : \A j :
            Missing(p, broadcast[j], k, c)' <=> Missing(p, broadcast[j], k, c)
    BY <1>0, <1>5 DEF Missing, Is
  <2>2. \A p, k \in Nodes : \A c \in Nat : InInbox(p, k, c)' <=> InInbox(p, k, c)
    BY <1>0, Zenon DEF InInbox, Is
  <2>3. \A k \in Nodes : \A c \in Nat : \A j : Is(broadcast[j], k, c)' <=> Is(broadcast[j], k, c)
    BY <1>0, Zenon DEF Is
  <2>4. DOMAIN broadcast' = DOMAIN broadcast
    BY <1>0, Zenon
  <2>5. QED BY <1>4, <2>1, <2>2, <2>3, <2>4, Zenon DEF InOrder, ChannelCauses
<1>18. QED
  BY <1>6, <1>7, <1>8, <1>10, <1>11, <1>13, <1>14, <1>16, <1>17, Zenon DEF InOrder

LEMMA SendInOrder ==
    ASSUME CausalTypes, InOrder, NEW s \in Senders, CausalSend(s), ~overtaken'
    PROVE  InOrder'
<1>m. PICK m : m = stamped[s]
  BY Zenon
<1>l. PICK L : L = Len(broadcast)
  BY Zenon
<1>0. /\ VC' = VC /\ copying' = copying
      /\ inbox' = inbox /\ held' = held /\ recheck' = recheck
      /\ InHand(s)
  BY Zenon DEF CausalSend, InHand
<1>1. /\ \A n, k \in Nodes : VC[n][k] \in Nat
      /\ \A n \in Nodes : \A i \in DOMAIN inbox[n] :
            /\ inbox[n][i].sender \in Nodes /\ Own(inbox[n][i]) \in Nat
            /\ \A k \in Nodes : inbox[n][i].VC[k] \in Nat
      /\ \A j \in DOMAIN broadcast :
            /\ broadcast[j].sender \in Nodes /\ Own(broadcast[j]) \in Nat
            /\ \A k \in Nodes : broadcast[j].VC[k] \in Nat
      /\ \A r \in Senders : InHand(r) =>
            /\ stamped[r].sender \in Nodes /\ Own(stamped[r]) \in Nat
            /\ \A k \in Nodes : stamped[r].VC[k] \in Nat
  BY CausalParts, Zenon
<1>2. m.sender \in Nodes /\ Own(m) \in Nat /\ \A k \in Nodes : m.VC[k] \in Nat
  BY <1>0, <1>1, <1>m, Zenon
<1>3. /\ L \in Nat /\ DOMAIN broadcast = 1 .. L /\ DOMAIN broadcast' = 1 .. L + 1
      /\ \A i \in 1 .. L : broadcast'[i] = broadcast[i]
      /\ broadcast'[L + 1] = m
  <2>1. broadcast \in Seq(CausalMessages) /\ m \in CausalMessages /\ broadcast' = Append(broadcast, m)
    BY <1>m, Zenon DEF CausalTypes, CausalSend
  <2>2. QED BY <1>l, <2>1, Appended
<1>4. \A r \in Senders : /\ InHand(r)' <=> r # s /\ InHand(r)
                         /\ r # s => stamped'[r] = stamped[r]
  BY Zenon DEF CausalSend, CausalTypes, InHand
<1>5. \A r \in Senders : InHand(r) => ~Before(stamped[r], m)
  BY <1>m, Zenon DEF CausalSend, InHand
<1>6. \A n \in Nodes : /\ \A j \in 1 .. L : ToCome(n, j)' <=> ToCome(n, j)
                       /\ ToCome(n, L + 1)' <=> m.sender # n
  <2>1. copying # {} => L + 1 > 1
    <3>1. copying # {} => broadcast # <<>>
      BY Zenon DEF InOrder, CopyingHead
    <3>2. broadcast # <<>> => L # 0
      BY <1>l, EmptySeq, Zenon DEF CausalTypes
    <3>3. QED BY <1>3, <3>1, <3>2
  <2>2. \A j \in 1 .. L : j \in DOMAIN broadcast /\ j \in DOMAIN broadcast'
    BY <1>3
  <2>3. L + 1 \in DOMAIN broadcast'
    BY <1>3
  <2>4. QED BY <1>0, <1>3, <2>1, <2>2, <2>3, Zenon DEF ToCome
<1>7. \A r \in Senders : r # s /\ InHand(r) /\ stamped[r].sender = m.sender =>
          Own(m) < Own(stamped[r])
  <2> SUFFICES ASSUME NEW r \in Senders, r # s, InHand(r), stamped[r].sender = m.sender,
                      Own(stamped[r]) <= Own(m)
               PROVE  FALSE
    BY <1>1, <1>2
  <2>1. Own(stamped[r]) # Own(m) /\ \A k \in Nodes : stamped[r].VC[k] <= m.VC[k]
    BY <1>0, <1>m, Zenon DEF InOrder, HandOrder
  <2>2. stamped[r].VC # m.VC
    BY <2>1, Zenon DEF Own
  <2>3. QED BY <1>5, <2>1, <2>2, Zenon DEF Before
<1>8. NothingHeld' /\ OthersMail'
  BY <1>0, Zenon DEF InOrder, NothingHeld, OthersMail
<1>9. CopyingHead'
  <2> SUFFICES ASSUME copying # {}
               PROVE  broadcast' # <<>> /\ broadcast'[1].sender \notin copying
    BY <1>0, Zenon DEF CopyingHead
  <2>1. broadcast # <<>> /\ broadcast[1].sender \notin copying
    BY Zenon DEF InOrder, CopyingHead
  <2>2. L # 0
    BY <1>l, <2>1, EmptySeq, Zenon DEF CausalTypes
  <2>3. broadcast'[1] = broadcast[1]
    BY <1>3, <2>2
  <2>4. broadcast' # <<>>
    <3>1. 1 \in DOMAIN broadcast'
      BY <1>3
    <3>2. DOMAIN <<>> = {}
      <4>1. <<>> \in Seq({}) /\ Len(<<>>) = 0
        BY EmptySeq, Zenon
      <4>2. QED BY <4>1, LenProperties
    <3>3. QED BY <3>1, <3>2, Zenon
  <2>5. QED BY <2>1, <2>3, <2>4, Zenon
<1>10. ClocksBehind'
  <2>1. \A k \in Nodes : m.VC[k] <= VC[k][k]
    <3> SUFFICES ASSUME NEW k \in Nodes PROVE m.VC[k] <= VC[k][k]
      BY Zenon
    <3>1. m.VC[k] <= VC[m.sender][k] /\ VC[m.sender][k] <= VC[k][k]
      BY <1>0, <1>2, <1>m, Zenon DEF InOrder, ClocksBehind
    <3>2. QED BY <1>1, <1>2, <3>1
  <2>2. \A j \in 1 .. L + 1 : \A k \in Nodes : broadcast'[j].VC[k] <= VC[k][k]
    <3> SUFFICES ASSUME NEW j \in 1 .. L + 1, NEW k \in Nodes PROVE broadcast'[j].VC[k] <= VC[k][k]
      BY Zenon
    <3>1. CASE j \in 1 .. L
      BY <1>3, <3>1, Zenon DEF InOrder, ClocksBehind
    <3>2. CASE j = L + 1
      BY <1>3, <2>1, <3>2, Zenon
    <3>3. QED BY <1>3, <3>1, <3>2
  <2>3. \A r \in Senders : InHand(r)' =>
            \A k \in Nodes : stamped'[r].VC[k] <= VC[stamped'[r].sender][k]
    BY <1>4, Zenon DEF InOrder, ClocksBehind
  <2>4. QED BY <1>0, <1>3, <2>2, <2>3, Zenon DEF InOrder, ClocksBehind
<1>11. \A n, k \in Nodes : \A c \in Nat : InInbox(n, k, c)' <=> InInbox(n, k, c)
  BY <1>0, Zenon DEF InInbox, Is
<1>12. Located'
  <2> SUFFICES ASSUME NEW n \in Nodes, NEW k \in Nodes, NEW c \in Nat \ {0},
                      n # k, VC[n][k] < c, c <= VC[k][k]
               PROVE  (InInbox(n, k, c) \/ InChannel(n, k, c) \/ Stamped(k, c))'
    BY <1>0, Zenon DEF Located
  <2>1. InInbox(n, k, c) \/ InChannel(n, k, c) \/ Stamped(k, c)
    BY Zenon DEF InOrder, Located
  <2>2. CASE InInbox(n, k, c)
    BY <1>11, <2>2, Zenon
  <2>3. CASE InChannel(n, k, c)
    <3>1. PICK j \in 1 .. L : ToCome(n, j) /\ Is(broadcast[j], k, c)
      BY <1>3, <2>3, Zenon DEF InChannel
    <3>2. j \in DOMAIN broadcast' /\ ToCome(n, j)' /\ Is(broadcast[j], k, c)'
      BY <1>3, <1>6, <3>1 DEF Is
    <3>3. QED BY <3>2, Zenon DEF InChannel
  <2>4. CASE Stamped(k, c)
    <3>1. PICK r \in Senders : InHand(r) /\ Is(stamped[r], k, c)
      BY <2>4, Zenon DEF Stamped
    <3>2. CASE r # s
      BY <1>4, <3>1, <3>2, Zenon DEF Stamped, Is
    <3>3. CASE r = s
      <4>1. m.sender = k /\ m.VC[k] = c
        BY <1>m, <3>1, <3>3, Zenon DEF Is
      <4>2. L + 1 \in DOMAIN broadcast' /\ ToCome(n, L + 1)'
        BY <1>3, <1>6, <4>1
      <4>3. broadcast'[L + 1].sender = k /\ broadcast'[L + 1].VC[k] = c
        BY <1>3, <4>1, Zenon
      <4>4. QED BY <4>2, <4>3, Zenon DEF InChannel, Is
    <3>4. QED BY <3>2, <3>3, Zenon
  <2>5. QED BY <2>1, <2>2, <2>3, <2>4, Zenon
<1>13. HandOrder'
  BY <1>4 DEF InOrder, HandOrder, Own
<1>14. HandLast'
  <2> SUFFICES ASSUME NEW n \in Nodes, NEW r \in Senders, InHand(r)', stamped'[r].sender # n
               PROVE  /\ VC'[n][stamped'[r].sender] < Own(stamped'[r])
                      /\ \A i \in DOMAIN inbox'[n] :
                            inbox'[n][i].sender = stamped'[r].sender =>
                                Own(inbox'[n][i]) < Own(stamped'[r])
                      /\ \A j \in DOMAIN broadcast' :
                            ToCome(n, j)' /\ broadcast'[j].sender = stamped'[r].sender =>
                                Own(broadcast'[j]) < Own(stamped'[r])
    BY Zenon DEF HandLast, Own
  <2>0. r # s /\ InHand(r) /\ stamped'[r] = stamped[r] /\ stamped[r].sender # n
    BY <1>4, Zenon
  <2>1. /\ VC[n][stamped[r].sender] < Own(stamped[r])
        /\ \A i \in DOMAIN inbox[n] :
              inbox[n][i].sender = stamped[r].sender => Own(inbox[n][i]) < Own(stamped[r])
        /\ \A j \in 1 .. L :
              ToCome(n, j) /\ broadcast[j].sender = stamped[r].sender =>
                  Own(broadcast[j]) < Own(stamped[r])
    BY <1>3, <2>0, Zenon DEF InOrder, HandLast
  <2>2. ASSUME NEW j \in 1 .. L + 1, ToCome(n, j)', broadcast'[j].sender = stamped[r].sender
        PROVE  Own(broadcast'[j]) < Own(stamped[r])
    <3>1. CASE j \in 1 .. L
      BY <1>3, <1>6, <2>1, <2>2, <3>1, Zenon
    <3>2. CASE j = L + 1
      BY <1>3, <1>7, <2>0, <2>2, <3>2, Zenon
    <3>3. QED BY <1>3, <3>1, <3>2
  <2>3. QED BY <1>0, <1>3, <2>0, <2>1, <2>2, Zenon
<1>15. ChannelOrder'
  <2> SUFFICES ASSUME NEW n \in Nodes, NEW j \in 1 .. L + 1, ToCome(n, j)'
               PROVE  /\ VC[n][broadcast'[j].sender] < Own(broadcast'[j])
                      /\ \A i \in DOMAIN inbox[n] :
                            inbox[n][i].sender = broadcast'[j].sender =>
                                Own(inbox[n][i]) < Own(broadcast'[j])
                      /\ \A h \in 1 .. L + 1 :
                            h < j /\ ToCome(n, h)' /\ broadcast'[h].sender = broadcast'[j].sender =>
                                Own(broadcast'[h]) < Own(broadcast'[j])
    BY <1>0, <1>3, Zenon DEF ChannelOrder, Own
  <2>0. \A h \in 1 .. L + 1 : h < j => h \in 1 .. L
    BY <1>3
  <2>1. CASE j \in 1 .. L
    <3>1. ToCome(n, j) /\ broadcast'[j] = broadcast[j] /\ j \in DOMAIN broadcast
      BY <1>3, <1>6, <2>1, Zenon
    <3>2. /\ VC[n][broadcast[j].sender] < Own(broadcast[j])
          /\ \A i \in DOMAIN inbox[n] :
                inbox[n][i].sender = broadcast[j].sender => Own(inbox[n][i]) < Own(broadcast[j])
          /\ \A h \in 1 .. L :
                h < j /\ ToCome(n, h) /\ broadcast[h].sender = broadcast[j].sender =>
                    Own(broadcast[h]) < Own(broadcast[j])
      BY <1>3, <3>1, Zenon DEF InOrder, ChannelOrder
    <3>3. QED BY <1>3, <1>6, <2>0, <3>1, <3>2, Zenon
  <2>2. CASE j = L + 1
    <3>1. m.sender # n /\ broadcast'[j] = m
      BY <1>3, <1>6, <2>2, Zenon
    <3>2. /\ VC[n][m.sender] < Own(m)
          /\ \A i \in DOMAIN inbox[n] : inbox[n][i].sender = m.sender => Own(inbox[n][i]) < Own(m)
          /\ \A h \in 1 .. L :
                ToCome(n, h) /\ broadcast[h].sender = m.sender => Own(broadcast[h]) < Own(m)
      BY <1>0, <1>m, <1>3, <3>1, Zenon DEF InOrder, HandLast
    <3>3. QED BY <1>3, <1>6, <2>0, <3>1, <3>2, Zenon
  <2>3. QED BY <1>3, <2>1, <2>2
<1>16. InboxOrder' /\ InboxCauses'
  <2>1. InboxOrder'
    BY <1>0, Zenon DEF InOrder, InboxOrder, Own
  <2>2. InboxCauses'
    BY <1>0 DEF InOrder, InboxCauses, Missing, Is
  <2>3. QED BY <2>1, <2>2, Zenon
<1>17. ChannelCauses'
  <2> SUFFICES ASSUME NEW n \in Nodes, NEW k \in Nodes, NEW c \in Nat, NEW j \in 1 .. L + 1,
                      ToCome(n, j)', k # n, VC[n][k] < c, c <= broadcast'[j].VC[k],
                      ~Is(broadcast'[j], k, c)
               PROVE  \/ InInbox(n, k, c)
                      \/ \E h \in 1 .. L + 1 : h < j /\ ToCome(n, h)' /\ Is(broadcast'[h], k, c)
    BY <1>0, <1>3, <1>11 DEF ChannelCauses, Missing, Is
  <2>1. CASE j \in 1 .. L
    <3>1. ToCome(n, j) /\ broadcast'[j] = broadcast[j] /\ j \in DOMAIN broadcast
      BY <1>3, <1>6, <2>1, Zenon
    <3>2. Missing(n, broadcast[j], k, c)
      BY <3>1, Zenon DEF Missing
    <3>3. \/ InInbox(n, k, c)
          \/ \E h \in 1 .. L : h < j /\ ToCome(n, h) /\ Is(broadcast[h], k, c)
      BY <1>3, <3>1, <3>2, Zenon DEF InOrder, ChannelCauses
    <3>4. QED BY <1>3, <1>6, <3>3
  <2>2. CASE j = L + 1
    <3>1. /\ m.sender # n /\ c <= m.VC[k] /\ ~Is(m, k, c)
          /\ m.VC[k] <= VC[m.sender][k] /\ VC[m.sender][k] <= VC[k][k]
      BY <1>0, <1>m, <1>2, <1>3, <1>6, <2>2, Zenon DEF InOrder, ClocksBehind
    <3>2. c \in Nat \ {0} /\ c <= VC[k][k]
      <4>1. VC[n][k] \in Nat /\ VC[k][k] \in Nat /\ VC[m.sender][k] \in Nat /\ m.VC[k] \in Nat
        BY <1>1, <1>2, Zenon
      <4>2. QED BY <3>1, <4>1
    <3>3. ~Stamped(k, c)
      <4> SUFFICES ASSUME NEW r \in Senders, InHand(r), stamped[r].sender = k, stamped[r].VC[k] = c
                   PROVE  FALSE
        BY Zenon DEF Stamped, Is
      <4>1. r # s
        BY <1>m, <3>1, Zenon DEF Is
      <4>2. Own(stamped[r]) = c
        BY Zenon DEF Own
      <4>3. CASE k = m.sender
        <5>1. Own(m) < c
          BY <1>7, <4>1, <4>2, <4>3, Zenon
        <5>2. c <= Own(m)
          BY <3>1, <4>3, Zenon DEF Own
        <5>3. QED BY <1>2, <5>1, <5>2
      <4>4. CASE k # m.sender
        <5>1. VC[m.sender][k] < c
          BY <1>2, <4>2, <4>4, Zenon DEF InOrder, HandLast
        <5>2. QED BY <1>1, <1>2, <3>1, <5>1
      <4>5. QED BY <4>3, <4>4, Zenon
    <3>4. InInbox(n, k, c) \/ InChannel(n, k, c)
      BY <3>2, <3>3, Zenon DEF InOrder, Located
    <3>5. CASE InChannel(n, k, c)
      <4>1. PICK h \in 1 .. L : ToCome(n, h) /\ Is(broadcast[h], k, c)
        BY <1>3, <3>5, Zenon DEF InChannel
      <4>2. h \in 1 .. L + 1 /\ h < j /\ ToCome(n, h)' /\ Is(broadcast'[h], k, c)
        BY <1>3, <1>6, <2>2, <4>1
      <4>3. QED BY <4>2, Zenon
    <3>6. QED BY <3>4, <3>5, Zenon
  <2>3. QED BY <1>3, <2>1, <2>2
<1>18. QED
  BY <1>8, <1>9, <1>10, <1>12, <1>13, <1>14, <1>15, <1>16, <1>17, Zenon DEF InOrder

\* Copying moves the channel on by one when the last node has its copy, else by none.
LEMMA CopyShifts ==
    ASSUME CausalTypes, InOrder, NEW n \in Nodes, Copy(n)
    PROVE  /\ ToCome(n, 1) /\ 1 \in DOMAIN broadcast
           /\ CopyingHead'
           /\ \E d \in {0, 1} : \E L \in Nat :
                 /\ DOMAIN broadcast = 1 .. L /\ DOMAIN broadcast' = 1 .. L - d
                 /\ \A j \in 1 .. L - d : broadcast'[j] = broadcast[j + d] /\ j + d \in 1 .. L
                 /\ \A p \in Nodes : \A j \in 1 .. L - d :
                       ToCome(p, j)' <=> ToCome(p, j + d) /\ ~(p = n /\ j + d = 1)
                 /\ \A p \in Nodes : d = 1 /\ ToCome(p, 1) => p = n
<1>l. PICK L : L = Len(broadcast)
  BY Zenon
<1>o. PICK others : others = IF copying = {} THEN Nodes \ {Head(broadcast).sender} ELSE copying
  BY Zenon
<1>1. /\ L \in Nat \ {0} /\ DOMAIN broadcast = 1 .. L
      /\ Head(broadcast) = broadcast[1]
      /\ DOMAIN Tail(broadcast) = 1 .. L - 1
      /\ \A i \in 1 .. L - 1 : Tail(broadcast)[i] = broadcast[i + 1]
  BY <1>l, Tailed, Zenon DEF CausalTypes, Copy
<1>2. /\ n \in others /\ copying' = others \ {n}
      /\ broadcast' = IF others = {n} THEN Tail(broadcast) ELSE broadcast
  BY <1>o, Zenon DEF Copy
<1>3. broadcast[1].sender \notin others /\ others \subseteq Nodes
  BY <1>o, <1>1, Zenon DEF InOrder, CopyingHead, CausalTypes
<1>4. 1 \in DOMAIN broadcast
  BY <1>1
<1>5. \A p \in Nodes : ToCome(p, 1) <=> p \in others
  BY <1>o, <1>1, <1>3, <1>4 DEF ToCome
<1>6. \A p \in Nodes : \A j \in 1 .. L : j # 1 => (ToCome(p, j) <=> broadcast[j].sender # p)
  BY <1>1 DEF ToCome
<1>7. CASE others = {n}
  <2>1. copying' = {} /\ broadcast' = Tail(broadcast)
    BY <1>2, <1>7, Zenon
  <2>2. CopyingHead'
    BY <2>1, Zenon DEF CopyingHead
  <2>3. DOMAIN broadcast' = 1 .. L - 1 /\ \A j \in 1 .. L - 1 : broadcast'[j] = broadcast[j + 1]
    BY <1>1, <2>1, Zenon
  <2>4. \A p \in Nodes : \A j \in 1 .. L - 1 : ToCome(p, j)' <=> ToCome(p, j + 1)
    <3> SUFFICES ASSUME NEW p \in Nodes, NEW j \in 1 .. L - 1
                 PROVE  ToCome(p, j)' <=> ToCome(p, j + 1)
      BY Zenon
    <3>1. ToCome(p, j)' <=> broadcast'[j].sender # p
      BY <2>1, <2>3, Zenon DEF ToCome
    <3>2. j + 1 \in 1 .. L /\ j + 1 # 1
      BY <1>1
    <3>3. QED BY <1>6, <2>3, <3>1, <3>2, Zenon
  <2>5. \A j \in 1 .. L - 1 : j + 1 \in 1 .. L /\ j + 1 # 1
    BY <1>1
  <2>6. QED BY <1>1, <1>2, <1>4, <1>5, <1>7, <2>2, <2>3, <2>4, <2>5, Zenon
<1>8. CASE others # {n}
  <2>1. copying' # {} /\ broadcast' = broadcast
    BY <1>2, <1>8, Zenon
  <2>2. CopyingHead'
    BY <1>2, <1>3, <2>1, Zenon DEF CopyingHead, Copy
  <2>3. \A p \in Nodes : ToCome(p, 1)' <=> ToCome(p, 1) /\ p # n
    <3>1. \A p \in Nodes : ToCome(p, 1)' <=> p \in others \ {n}
      BY <1>2, <1>3, <1>4, <2>1 DEF ToCome
    <3>2. QED BY <1>5, <3>1, Zenon
  <2>4. \A p \in Nodes : \A j \in 1 .. L : j # 1 => (ToCome(p, j)' <=> ToCome(p, j))
    <3> SUFFICES ASSUME NEW p \in Nodes, NEW j \in 1 .. L, j # 1
                 PROVE  ToCome(p, j)' <=> ToCome(p, j)
      BY Zenon
    <3>1. ToCome(p, j)' <=> broadcast'[j].sender # p
      BY <1>1, <2>1 DEF ToCome
    <3>2. QED BY <1>6, <2>1, <3>1, Zenon
  <2>5. /\ DOMAIN broadcast' = 1 .. L - 0 /\ 0 \in {0, 1} /\ L \in Nat
        /\ \A j \in 1 .. L - 0 : broadcast'[j] = broadcast[j + 0] /\ j + 0 \in 1 .. L
    BY <1>1, <2>1
  <2>6. \A p \in Nodes : \A j \in 1 .. L - 0 :
            ToCome(p, j)' <=> ToCome(p, j + 0) /\ ~(p = n /\ j + 0 = 1)
    <3> SUFFICES ASSUME NEW p \in Nodes, NEW j \in 1 .. L - 0
                 PROVE  ToCome(p, j)' <=> ToCome(p, j + 0) /\ ~(p = n /\ j + 0 = 1)
      BY Zenon
    <3>1. j + 0 = j /\ j \in 1 .. L
      BY <1>1
    <3>2. QED BY <2>3, <2>4, <3>1, Zenon
  <2>7. QED BY <1>1, <1>2, <1>4, <1>5, <2>2, <2>5, <2>6
<1>9. QED BY <1>7, <1>8, Zenon

LEMMA CopyInOrder ==
    ASSUME CausalTypes, InOrder, NEW n \in Nodes, Copy(n)
    PROVE  InOrder'
<1>0. /\ VC' = VC /\ stamped' = stamped /\ held' = held /\ recheck' = recheck
  BY Zenon DEF Copy
<1>1. /\ \A p, k \in Nodes : VC[p][k] \in Nat
      /\ \A j \in DOMAIN broadcast : broadcast[j].sender \in Nodes
  BY CausalParts, Zenon
<1>2. PICK d \in {0, 1}, L \in Nat :
         /\ DOMAIN broadcast = 1 .. L /\ DOMAIN broadcast' = 1 .. L - d
         /\ \A j \in 1 .. L - d : broadcast'[j] = broadcast[j + d] /\ j + d \in 1 .. L
         /\ \A p \in Nodes : \A j \in 1 .. L - d :
               ToCome(p, j)' <=> ToCome(p, j + d) /\ ~(p = n /\ j + d = 1)
         /\ \A p \in Nodes : d = 1 /\ ToCome(p, 1) => p = n
  BY CopyShifts, Zenon
<1>3. ToCome(n, 1) /\ 1 \in DOMAIN broadcast /\ CopyingHead'
  BY CopyShifts, Zenon
<1>4. PICK H : H = broadcast[1]
  BY Zenon
<1>5. PICK I : I = Len(inbox[n])
  BY Zenon
<1>6. /\ I \in Nat /\ DOMAIN inbox[n] = 1 .. I /\ DOMAIN inbox'[n] = 1 .. I + 1
      /\ \A i \in 1 .. I : inbox'[n][i] = inbox[n][i]
      /\ inbox'[n][I + 1] = H
      /\ \A p \in Nodes : p # n => inbox'[p] = inbox[p]
  <2>1. /\ inbox[n] \in Seq(CausalMessages) /\ H \in CausalMessages
        /\ inbox'[n] = Append(inbox[n], H)
        /\ \A p \in Nodes : p # n => inbox'[p] = inbox[p]
    BY <1>4, Tailed, Zenon DEF CausalTypes, Copy
  <2>2. QED BY <1>5, <2>1, Appended
<1>7. H.sender # n
  BY <1>3, <1>4, Zenon DEF ToCome
\* What was to come to p is still to come, or it is the copy n has just got.
<1>8. \A p \in Nodes : \A j \in 1 .. L : ToCome(p, j) =>
          \/ p = n /\ j = 1
          \/ j - d \in 1 .. L - d /\ ToCome(p, j - d)' /\ broadcast'[j - d] = broadcast[j]
  <2> SUFFICES ASSUME NEW p \in Nodes, NEW j \in 1 .. L, ToCome(p, j), ~(p = n /\ j = 1)
               PROVE  j - d \in 1 .. L - d /\ ToCome(p, j - d)' /\ broadcast'[j - d] = broadcast[j]
    BY Zenon
  <2>1. j - d \in 1 .. L - d /\ (j - d) + d = j
    BY <1>2
  <2>2. QED BY <1>2, <2>1, Zenon
\* What is to come to p was to come.
<1>9. \A p \in Nodes : \A j \in 1 .. L - d : ToCome(p, j)' =>
          /\ j + d \in 1 .. L /\ ToCome(p, j + d) /\ broadcast'[j] = broadcast[j + d]
          /\ p = n => 1 < j + d
  <2> SUFFICES ASSUME NEW p \in Nodes, NEW j \in 1 .. L - d, ToCome(p, j)'
               PROVE  /\ j + d \in 1 .. L /\ ToCome(p, j + d) /\ broadcast'[j] = broadcast[j + d]
                      /\ p = n => 1 < j + d
    BY Zenon
  <2>1. /\ j + d \in 1 .. L /\ ToCome(p, j + d) /\ broadcast'[j] = broadcast[j + d]
        /\ ~(p = n /\ j + d = 1)
    BY <1>2, Zenon
  <2>2. QED BY <1>2, <2>1
\* What is in p's inbox was there, or it is the copy.
<1>10. \A p \in Nodes : \A i \in DOMAIN inbox'[p] :
          \/ i \in DOMAIN inbox[p] /\ inbox'[p][i] = inbox[p][i]
          \/ p = n /\ i = I + 1 /\ inbox'[p][i] = H
  <2> SUFFICES ASSUME NEW p \in Nodes, NEW i \in DOMAIN inbox'[p]
               PROVE  \/ i \in DOMAIN inbox[p] /\ inbox'[p][i] = inbox[p][i]
                      \/ p = n /\ i = I + 1 /\ inbox'[p][i] = H
    BY Zenon
  <2>1. CASE p # n
    BY <1>6, <2>1, Zenon
  <2>2. CASE p = n
    <3>1. i \in 1 .. I \/ i = I + 1
      BY <1>6, <2>2
    <3>2. QED BY <1>6, <2>2, <3>1, Zenon
  <2>3. QED BY <2>1, <2>2, Zenon
<1>11. \A p \in Nodes : \A i \in DOMAIN inbox[p] :
          i \in DOMAIN inbox'[p] /\ inbox'[p][i] = inbox[p][i]
  <2>1. \A i \in 1 .. I : i \in 1 .. I + 1
    BY <1>6
  <2>2. QED BY <1>6, <2>1, Zenon
<1>12. \A p, k \in Nodes : \A c \in Nat : InInbox(p, k, c) => InInbox(p, k, c)'
  BY <1>11, Zenon DEF InInbox, Is
<1>13. \A k \in Nodes : \A c \in Nat : Is(H, k, c) => InInbox(n, k, c)'
  <2>1. I + 1 \in DOMAIN inbox'[n] /\ inbox'[n][I + 1] = H
    BY <1>6
  <2>2. QED BY <2>1, Zenon DEF InInbox, Is
<1>14. NothingHeld'
  BY <1>0, Zenon DEF InOrder, NothingHeld
<1>15. OthersMail'
  BY <1>7, <1>10, Zenon DEF InOrder, OthersMail
<1>16. ClocksBehind'
  <2>1. \A j \in 1 .. L - d : \A k \in Nodes : broadcast'[j].VC[k] <= VC[k][k]
    BY <1>2, Zenon DEF InOrder, ClocksBehind
  <2>2. \A p \in Nodes : \A i \in DOMAIN inbox'[p] : \A k \in Nodes : inbox'[p][i].VC[k] <= VC[k][k]
    BY <1>3, <1>4, <1>10, Zenon DEF InOrder, ClocksBehind
  <2>3. \A s \in Senders : InHand(s)' <=> InHand(s)
    BY <1>0, Zenon DEF InHand
  <2>4. QED BY <1>0, <1>2, <2>1, <2>2, <2>3, Zenon DEF InOrder, ClocksBehind
<1>17. Located'
  <2> SUFFICES ASSUME NEW p \in Nodes, NEW k \in Nodes, NEW c \in Nat \ {0},
                      p # k, VC[p][k] < c, c <= VC[k][k]
               PROVE  (InInbox(p, k, c) \/ InChannel(p, k, c) \/ Stamped(k, c))'
    BY <1>0, Zenon DEF Located
  <2>1. InInbox(p, k, c) \/ InChannel(p, k, c) \/ Stamped(k, c)
    BY Zenon DEF InOrder, Located
  <2>2. CASE InInbox(p, k, c)
    BY <1>12, <2>2, Zenon
  <2>3. CASE InChannel(p, k, c)
    <3>1. PICK j \in 1 .. L : ToCome(p, j) /\ Is(broadcast[j], k, c)
      BY <1>2, <2>3, Zenon DEF InChannel
    <3>2. CASE p = n /\ j = 1
      BY <1>4, <1>13, <3>1, <3>2, Zenon
    <3>3. CASE ~(p = n /\ j = 1)
      <4>1. j - d \in DOMAIN broadcast' /\ ToCome(p, j - d)' /\ broadcast'[j - d] = broadcast[j]
        BY <1>2, <1>8, <3>1, <3>3, Zenon
      <4>2. QED BY <3>1, <4>1, Zenon DEF InChannel, Is
    <3>4. QED BY <3>2, <3>3, Zenon
  <2>4. CASE Stamped(k, c)
    BY <1>0, <2>4, Zenon DEF Stamped, InHand, Is
  <2>5. QED BY <2>1, <2>2, <2>3, <2>4, Zenon
<1>18. HandOrder'
  BY <1>0, Zenon DEF InOrder, HandOrder, InHand, Own
<1>19. HandLast'
  <2> SUFFICES ASSUME NEW p \in Nodes, NEW r \in Senders, InHand(r)', stamped'[r].sender # p
               PROVE  /\ VC'[p][stamped'[r].sender] < Own(stamped'[r])
                      /\ \A i \in DOMAIN inbox'[p] :
                            inbox'[p][i].sender = stamped'[r].sender =>
                                Own(inbox'[p][i]) < Own(stamped'[r])
                      /\ \A j \in DOMAIN broadcast' :
                            ToCome(p, j)' /\ broadcast'[j].sender = stamped'[r].sender =>
                                Own(broadcast'[j]) < Own(stamped'[r])
    BY Zenon DEF HandLast, Own
  <2>0. InHand(r) /\ stamped'[r] = stamped[r] /\ stamped[r].sender # p
    BY <1>0, Zenon DEF InHand
  <2>1. /\ VC[p][stamped[r].sender] < Own(stamped[r])
        /\ \A i \in DOMAIN inbox[p] :
              inbox[p][i].sender = stamped[r].sender => Own(inbox[p][i]) < Own(stamped[r])
        /\ \A j \in 1 .. L :
              ToCome(p, j) /\ broadcast[j].sender = stamped[r].sender =>
                  Own(broadcast[j]) < Own(stamped[r])
    BY <1>2, <2>0, Zenon DEF InOrder, HandLast
  <2>2. \A i \in DOMAIN inbox'[p] :
            inbox'[p][i].sender = stamped[r].sender => Own(inbox'[p][i]) < Own(stamped[r])
    BY <1>2, <1>3, <1>4, <1>10, <2>1, Zenon
  <2>3. \A j \in DOMAIN broadcast' :
            ToCome(p, j)' /\ broadcast'[j].sender = stamped[r].sender =>
                Own(broadcast'[j]) < Own(stamped[r])
    BY <1>2, <1>9, <2>1, Zenon
  <2>4. QED BY <1>0, <2>0, <2>1, <2>2, <2>3, Zenon
<1>20. ChannelOrder'
  <2> SUFFICES ASSUME NEW p \in Nodes, NEW j \in DOMAIN broadcast', ToCome(p, j)'
               PROVE  /\ VC'[p][broadcast'[j].sender] < Own(broadcast'[j])
                      /\ \A i \in DOMAIN inbox'[p] :
                            inbox'[p][i].sender = broadcast'[j].sender =>
                                Own(inbox'[p][i]) < Own(broadcast'[j])
                      /\ \A h \in DOMAIN broadcast' :
                            h < j /\ ToCome(p, h)' /\ broadcast'[h].sender = broadcast'[j].sender =>
                                Own(broadcast'[h]) < Own(broadcast'[j])
    BY Zenon DEF ChannelOrder, Own
  <2>0. PICK g \in 1 .. L : g = j + d /\ ToCome(p, g) /\ broadcast'[j] = broadcast[g] /\ (p = n => 1 < g)
    BY <1>2, <1>9, Zenon
  <2>1. /\ VC[p][broadcast[g].sender] < Own(broadcast[g])
        /\ \A i \in DOMAIN inbox[p] :
              inbox[p][i].sender = broadcast[g].sender => Own(inbox[p][i]) < Own(broadcast[g])
        /\ \A h \in 1 .. L :
              h < g /\ ToCome(p, h) /\ broadcast[h].sender = broadcast[g].sender =>
                  Own(broadcast[h]) < Own(broadcast[g])
    BY <1>2, <2>0, Zenon DEF InOrder, ChannelOrder
  <2>2. ASSUME NEW i \in DOMAIN inbox'[p], inbox'[p][i].sender = broadcast[g].sender
        PROVE  Own(inbox'[p][i]) < Own(broadcast[g])
    <3>1. CASE i \in DOMAIN inbox[p] /\ inbox'[p][i] = inbox[p][i]
      BY <2>1, <2>2, <3>1, Zenon
    <3>2. CASE p = n /\ inbox'[p][i] = H
      BY <1>2, <1>3, <1>4, <2>0, <2>1, <2>2, <3>2, Zenon
    <3>3. QED BY <1>10, <3>1, <3>2, Zenon
  <2>3. ASSUME NEW h \in DOMAIN broadcast', h < j, ToCome(p, h)',
               broadcast'[h].sender = broadcast[g].sender
        PROVE  Own(broadcast'[h]) < Own(broadcast[g])
    <3>1. h + d \in 1 .. L /\ ToCome(p, h + d) /\ broadcast'[h] = broadcast[h + d]
      BY <1>2, <1>9, <2>3, Zenon
    <3>2. h + d < g
      BY <1>2, <2>0, <2>3
    <3>3. QED BY <2>1, <2>3, <3>1, <3>2, Zenon
  <2>4. QED BY <1>0, <2>0, <2>1, <2>2, <2>3, Zenon
<1>21. InboxOrder'
  <2> SUFFICES ASSUME NEW p \in Nodes, NEW i \in DOMAIN inbox'[p]
               PROVE  /\ VC'[p][inbox'[p][i].sender] < Own(inbox'[p][i])
                      /\ \A h \in DOMAIN inbox'[p] :
                            h < i /\ inbox'[p][h].sender = inbox'[p][i].sender =>
                                Own(inbox'[p][h]) < Own(inbox'[p][i])
    BY Zenon DEF InboxOrder, Own
  <2>1. CASE i \in DOMAIN inbox[p] /\ inbox'[p][i] = inbox[p][i]
    <3>1. /\ VC[p][inbox[p][i].sender] < Own(inbox[p][i])
          /\ \A h \in DOMAIN inbox[p] :
                h < i /\ inbox[p][h].sender = inbox[p][i].sender =>
                    Own(inbox[p][h]) < Own(inbox[p][i])
      BY <2>1, Zenon DEF InOrder, InboxOrder
    <3>2. \A h \in DOMAIN inbox'[p] : h < i => h \in DOMAIN inbox[p] /\ inbox'[p][h] = inbox[p][h]
      BY <1>6, <1>10, <2>1
    <3>3. QED BY <1>0, <2>1, <3>1, <3>2, Zenon
  <2>2. CASE p = n /\ i = I + 1 /\ inbox'[p][i] = H
    <3>1. /\ VC[n][H.sender] < Own(H)
          /\ \A h \in DOMAIN inbox[n] :
                inbox[n][h].sender = H.sender => Own(inbox[n][h]) < Own(H)
      BY <1>3, <1>4, Zenon DEF InOrder, ChannelOrder
    <3>2. \A h \in DOMAIN inbox'[n] : h < I + 1 => h \in DOMAIN inbox[n] /\ inbox'[n][h] = inbox[n][h]
      BY <1>6
    <3>3. QED BY <1>0, <2>2, <3>1, <3>2, Zenon
  <2>3. QED BY <1>10, <2>1, <2>2, Zenon
<1>22. InboxCauses'
  <2> SUFFICES ASSUME NEW p \in Nodes, NEW k \in Nodes, NEW c \in Nat, NEW i \in DOMAIN inbox'[p],
                      Missing(p, inbox[p][i], k, c)'
               PROVE  \E h \in DOMAIN inbox'[p] : h < i /\ Is(inbox'[p][h], k, c)
    BY Zenon DEF InboxCauses, Is
  <2>0. Missing(p, inbox'[p][i], k, c)
    BY <1>0, Zenon DEF Missing, Is
  <2>1. CASE i \in DOMAIN inbox[p] /\ inbox'[p][i] = inbox[p][i]
    <3>1. PICK h \in DOMAIN inbox[p] : h < i /\ Is(inbox[p][h], k, c)
      BY <2>0, <2>1, Zenon DEF InOrder, InboxCauses
    <3>2. QED BY <1>11, <3>1, Zenon
  <2>2. CASE p = n /\ i = I + 1 /\ inbox'[p][i] = H
    <3>1. \/ InInbox(n, k, c)
          \/ \E h \in DOMAIN broadcast : h < 1 /\ ToCome(n, h) /\ Is(broadcast[h], k, c)
      BY <1>3, <1>4, <2>0, <2>2, Zenon DEF InOrder, ChannelCauses
    <3>2. PICK h \in DOMAIN inbox[n] : Is(inbox[n][h], k, c)
      BY <1>2, <3>1 DEF InInbox
    <3>3. h < I + 1
      BY <1>6
    <3>4. QED BY <1>11, <2>2, <3>2, <3>3, Zenon
  <2>3. QED BY <1>10, <2>1, <2>2, Zenon
<1>23. ChannelCauses'
  <2> SUFFICES ASSUME NEW p \in Nodes, NEW k \in Nodes, NEW c \in Nat, NEW j \in DOMAIN broadcast',
                      ToCome(p, j)', Missing(p, broadcast[j], k, c)'
               PROVE  \/ InInbox(p, k, c)'
                      \/ \E h \in DOMAIN broadcast' : h < j /\ ToCome(p, h)' /\ Is(broadcast'[h], k, c)
    BY DEF ChannelCauses, Is
  <2>m. Missing(p, broadcast'[j], k, c)
    BY <1>0, Zenon DEF Missing, Is
  <2>0. PICK g \in 1 .. L : g = j + d /\ ToCome(p, g) /\ broadcast'[j] = broadcast[g]
    BY <1>2, <1>9, Zenon
  <2>1. \/ InInbox(p, k, c)
        \/ \E h \in 1 .. L : h < g /\ ToCome(p, h) /\ Is(broadcast[h], k, c)
    BY <1>2, <2>0, <2>m, Zenon DEF InOrder, ChannelCauses
  <2>2. CASE InInbox(p, k, c)
    BY <1>12, <2>2, Zenon
  <2>3. ASSUME NEW h \in 1 .. L, h < g, ToCome(p, h), Is(broadcast[h], k, c)
        PROVE  \/ InInbox(p, k, c)'
               \/ \E f \in DOMAIN broadcast' : f < j /\ ToCome(p, f)' /\ Is(broadcast'[f], k, c)
    <3>1. CASE p = n /\ h = 1
      BY <1>4, <1>13, <2>3, <3>1, Zenon
    <3>2. CASE ~(p = n /\ h = 1)
      <4>1. h - d \in DOMAIN broadcast' /\ ToCome(p, h - d)' /\ broadcast'[h - d] = broadcast[h]
        BY <1>2, <1>8, <2>3, <3>2, Zenon
      <4>2. h - d < j
        BY <1>2, <2>0, <2>3
      <4>3. QED BY <2>3, <4>1, <4>2, Zenon
    <3>3. QED BY <3>1, <3>2, Zenon
  <2>4. QED BY <2>1, <2>2, <2>3, Zenon
<1>24. QED
  BY <1>3, <1>14, <1>15, <1>16, <1>17, <1>18, <1>19, <1>20, <1>21, <1>22, <1>23, Zenon DEF InOrder

\* Mail in order is ready: the head of an inbox is the next of its sender, and all it
\* depends on is counted.
LEMMA HeadIsReady ==
    ASSUME CausalTypes, InOrder, NEW n \in Nodes, inbox[n] # <<>>
    PROVE  isCausallyReady(inbox[n][1], VC[n])
<1>m. PICK m : m = inbox[n][1]
  BY Zenon
<1>1. 1 \in DOMAIN inbox[n] /\ \A h \in DOMAIN inbox[n] : ~(h < 1)
  BY Tailed DEF CausalTypes
<1>2. /\ \A k \in Nodes : VC[n][k] \in Nat /\ m.VC[k] \in Nat
      /\ m.sender \in Nodes /\ Own(m) \in Nat /\ m.sender # n
  BY <1>m, <1>1, CausalParts, Zenon DEF InOrder, OthersMail
<1>3. \A k \in Nodes : \A c \in Nat : ~Missing(n, m, k, c)
  BY <1>m, <1>1, Zenon DEF InOrder, InboxCauses
<1>4. m.VC[m.sender] = VC[n][m.sender] + 1
  <2>1. VC[n][m.sender] < m.VC[m.sender]
    BY <1>m, <1>1, Zenon DEF InOrder, InboxOrder, Own
  <2>2. ~Missing(n, m, m.sender, VC[n][m.sender] + 1)
    BY <1>2, <1>3
  <2>3. QED BY <1>2, <2>1, <2>2 DEF Missing, Is
<1>5. \A k \in Nodes \ {m.sender} : m.VC[k] <= VC[n][k]
  <2> SUFFICES ASSUME NEW k \in Nodes, k # m.sender PROVE m.VC[k] <= VC[n][k]
    BY Zenon
  <2>1. CASE k = n
    BY <1>m, <1>1, <2>1, Zenon DEF InOrder, ClocksBehind
  <2>2. CASE k # n
    <3>1. ~Missing(n, m, k, m.VC[k])
      BY <1>2, <1>3, Zenon
    <3>2. QED BY <1>2, <2>2, <3>1 DEF Missing, Is
  <2>3. QED BY <2>1, <2>2, Zenon
<1>6. QED BY <1>m, <1>4, <1>5, Zenon DEF isCausallyReady

LEMMA ReceiveInOrder ==
    ASSUME CausalTypes, InOrder, NEW n \in Nodes, CausalReceive(n)
    PROVE  InOrder'
<1>m. PICK m : m = inbox[n][1]
  BY Zenon
<1>l. PICK I : I = Len(inbox[n])
  BY Zenon
<1>0. /\ stamped' = stamped /\ broadcast' = broadcast /\ copying' = copying
      /\ inbox[n] # <<>> /\ inbox[n] \in Seq(CausalMessages)
      /\ inbox' = [inbox EXCEPT ![n] = Tail(inbox[n])] /\ DOMAIN inbox = Nodes
  BY Zenon DEF CausalReceive, CausalTypes
<1>1. /\ I \in Nat \ {0} /\ DOMAIN inbox[n] = 1 .. I
      /\ Head(inbox[n]) = m /\ m \in CausalMessages
      /\ DOMAIN Tail(inbox[n]) = 1 .. I - 1
      /\ \A i \in 1 .. I - 1 : Tail(inbox[n])[i] = inbox[n][i + 1]
  BY <1>m, <1>l, <1>0, Tailed, Zenon
<1>2. isCausallyReady(m, VC[n])
  BY <1>m, <1>0, HeadIsReady, Zenon
<1>3. /\ VC' = [VC EXCEPT ![n] = Merged(VC[n], m)]
      /\ recheck' = [recheck EXCEPT ![n] = held[n]]
      /\ held' = [held EXCEPT ![n] = <<>>]
  BY <1>1, <1>2, Zenon DEF CausalReceive, Deliver
<1>4. /\ m.sender \in Nodes /\ Own(m) = VC[n][m.sender] + 1
      /\ \A p, k \in Nodes : VC[p][k] \in Nat
      /\ \A p, k \in Nodes : VC'[p][k] = IF p = n /\ k = m.sender THEN Own(m) ELSE VC[p][k]
  <2>1. /\ m.sender \in Nodes /\ Own(m) = VC[n][m.sender] + 1
        /\ \A k \in Nodes : Merged(VC[n], m)[k] = IF k = m.sender THEN VC[n][k] + 1 ELSE VC[n][k]
    BY <1>1, <1>2, ReadyAddsOne, Zenon
  <2>2. \A p, k \in Nodes : VC[p][k] \in Nat
    BY CausalParts, Zenon
  <2>3. \A p \in Nodes : VC'[p] = IF p = n THEN Merged(VC[n], m) ELSE VC[p]
    BY <1>3, Zenon DEF CausalTypes
  <2>4. QED BY <2>1, <2>2, <2>3, Zenon
<1>5. \A p, k \in Nodes : VC'[p][k] \in Nat /\ VC[p][k] <= VC'[p][k]
  BY <1>4
<1>6. m.sender # n /\ 1 \in DOMAIN inbox[n]
  BY <1>m, <1>1 DEF InOrder, OthersMail
<1>7. \A k \in Nodes : VC'[k][k] = VC[k][k]
  BY <1>4, <1>6, Zenon
<1>8. /\ DOMAIN inbox'[n] = 1 .. I - 1
      /\ \A i \in 1 .. I - 1 : inbox'[n][i] = inbox[n][i + 1] /\ i + 1 \in DOMAIN inbox[n]
      /\ \A p \in Nodes : p # n => inbox'[p] = inbox[p]
  BY <1>0, <1>1
<1>p. \A p \in Nodes : \A i \in DOMAIN inbox'[p] : i \in Nat \ {0}
  <2>1. \A p \in Nodes : inbox[p] \in Seq(CausalMessages)
    BY Zenon DEF CausalTypes
  <2>2. \A p \in Nodes : DOMAIN inbox[p] = 1 .. Len(inbox[p]) /\ Len(inbox[p]) \in Nat
    BY <2>1, LenProperties, Zenon
  <2>3. \A p \in Nodes : \A i \in DOMAIN inbox[p] : i \in Nat \ {0}
    BY <2>2
  <2>4. \A i \in 1 .. I - 1 : i \in Nat \ {0}
    BY <1>1
  <2>5. QED BY <1>8, <2>3, <2>4, Zenon
\* What is in p's inbox was there, one further on in n's.
<1>9. \A p \in Nodes : \A i \in DOMAIN inbox'[p] : \E g \in DOMAIN inbox[p] :
          /\ inbox'[p][i] = inbox[p][g]
          /\ g = IF p = n THEN i + 1 ELSE i
  BY <1>8, Zenon
\* What was in p's inbox is there, but the message delivered.
<1>10. \A p \in Nodes : \A g \in DOMAIN inbox[p] :
          \/ p = n /\ g = 1 /\ inbox[p][g] = m
          \/ \E i \in DOMAIN inbox'[p] :
                inbox'[p][i] = inbox[p][g] /\ g = IF p = n THEN i + 1 ELSE i
  <2> SUFFICES ASSUME NEW p \in Nodes, NEW g \in DOMAIN inbox[p], ~(p = n /\ g = 1)
               PROVE  \E i \in DOMAIN inbox'[p] :
                         inbox'[p][i] = inbox[p][g] /\ g = IF p = n THEN i + 1 ELSE i
    BY <1>m, Zenon
  <2>1. CASE p # n
    BY <1>8, <2>1, Zenon
  <2>2. CASE p = n
    <3>1. g - 1 \in 1 .. I - 1 /\ (g - 1) + 1 = g
      BY <1>1, <2>2
    <3>2. QED BY <1>8, <2>2, <3>1, Zenon
  <2>3. QED BY <2>1, <2>2, Zenon
\* The message delivered is not missing any more.
<1>11. \A k \in Nodes : \A c \in Nat : VC'[n][k] < c => ~Is(m, k, c)
  <2> SUFFICES ASSUME NEW k \in Nodes, NEW c \in Nat, VC'[n][k] < c, Is(m, k, c) PROVE FALSE
    BY Zenon
  <2>1. k = m.sender /\ Own(m) = c
    BY Zenon DEF Is, Own
  <2>2. VC'[n][k] = Own(m)
    BY <1>4, <2>1, Zenon
  <2>3. QED BY <2>1, <2>2
<1>12. \A p, k \in Nodes : \A c \in Nat : VC'[p][k] < c => VC[p][k] < c
  BY <1>4, <1>5
<1>13. \A p \in Nodes : \A j : ToCome(p, j)' <=> ToCome(p, j)
  BY <1>0, Zenon DEF ToCome
<1>14. \A s \in Senders : InHand(s)' <=> InHand(s)
  BY <1>0, Zenon DEF InHand
<1>15. \A p, k \in Nodes : \A c \in Nat : VC'[p][k] < c /\ InInbox(p, k, c) => InInbox(p, k, c)'
  <2> SUFFICES ASSUME NEW p \in Nodes, NEW k \in Nodes, NEW c \in Nat, VC'[p][k] < c,
                      NEW g \in DOMAIN inbox[p], Is(inbox[p][g], k, c)
               PROVE  \E i \in DOMAIN inbox'[p] : Is(inbox'[p][i], k, c)
    BY DEF InInbox, Is
  <2>1. QED BY <1>10, <1>11, Zenon
<1>16. NothingHeld' /\ CopyingHead'
  <2>1. \A p \in Nodes : held'[p] = <<>> /\ recheck'[p] = <<>>
    BY <1>3, Zenon DEF InOrder, NothingHeld, CausalTypes
  <2>2. QED BY <1>0, <2>1, Zenon DEF InOrder, NothingHeld, CopyingHead
<1>17. OthersMail'
  BY <1>9 DEF InOrder, OthersMail
<1>18. ClocksBehind'
  <2>1. \A p, k \in Nodes : VC'[p][k] <= VC'[k][k]
    <3>1. \A p, k \in Nodes : VC[p][k] <= VC[k][k]
      BY Zenon DEF InOrder, ClocksBehind
    <3>2. Own(m) <= VC[m.sender][m.sender]
      BY <1>m, <1>4, <1>6, Zenon DEF InOrder, ClocksBehind, Own
    <3>3. QED BY <1>4, <1>7, <3>1, <3>2
  <2>2. \A j \in DOMAIN broadcast : \A k \in Nodes : broadcast[j].VC[k] <= VC'[k][k]
    BY <1>7, Zenon DEF InOrder, ClocksBehind
  <2>3. \A p \in Nodes : \A i \in DOMAIN inbox'[p] : \A k \in Nodes : inbox'[p][i].VC[k] <= VC'[k][k]
    BY <1>7, <1>9 DEF InOrder, ClocksBehind
  <2>4. \A s \in Senders : InHand(s) =>
            \A k \in Nodes : stamped[s].VC[k] <= VC'[stamped[s].sender][k]
    <3> SUFFICES ASSUME NEW s \in Senders, InHand(s), NEW k \in Nodes
                 PROVE  stamped[s].VC[k] <= VC'[stamped[s].sender][k]
      BY Zenon
    <3>1. stamped[s].sender \in Nodes /\ stamped[s].VC[k] \in Nat
      BY CausalParts, Zenon
    <3>2. stamped[s].VC[k] <= VC[stamped[s].sender][k]
      BY Zenon DEF InOrder, ClocksBehind
    <3>3. QED BY <1>4, <1>5, <3>1, <3>2
  <2>5. QED BY <1>0, <1>14, <2>1, <2>2, <2>3, <2>4, Zenon DEF ClocksBehind
<1>19. Located'
  <2> SUFFICES ASSUME NEW p \in Nodes, NEW k \in Nodes, NEW c \in Nat \ {0},
                      p # k, VC'[p][k] < c, c <= VC'[k][k]
               PROVE  (InInbox(p, k, c) \/ InChannel(p, k, c) \/ Stamped(k, c))'
    BY Zenon DEF Located
  <2>1. VC[p][k] < c /\ c <= VC[k][k]
    BY <1>7, <1>12, Zenon
  <2>2. InInbox(p, k, c) \/ InChannel(p, k, c) \/ Stamped(k, c)
    BY <2>1, Zenon DEF InOrder, Located
  <2>3. InInbox(p, k, c) => InInbox(p, k, c)'
    BY <1>15, Zenon
  <2>4. InChannel(p, k, c) => InChannel(p, k, c)'
    BY <1>0, <1>13, Zenon DEF InChannel, Is
  <2>5. Stamped(k, c) => Stamped(k, c)'
    BY <1>0, <1>14, Zenon DEF Stamped, Is
  <2>6. QED BY <2>2, <2>3, <2>4, <2>5, Zenon
<1>20. HandOrder'
  BY <1>0, <1>14, Zenon DEF InOrder, HandOrder, Own
<1>21. HandLast'
  <2> SUFFICES ASSUME NEW p \in Nodes, NEW r \in Senders, InHand(r)', stamped'[r].sender # p
               PROVE  /\ VC'[p][stamped'[r].sender] < Own(stamped'[r])
                      /\ \A i \in DOMAIN inbox'[p] :
                            inbox'[p][i].sender = stamped'[r].sender =>
                                Own(inbox'[p][i]) < Own(stamped'[r])
                      /\ \A j \in DOMAIN broadcast' :
                            ToCome(p, j)' /\ broadcast'[j].sender = stamped'[r].sender =>
                                Own(broadcast'[j]) < Own(stamped'[r])
    BY Zenon DEF HandLast, Own
  <2>0. InHand(r) /\ stamped'[r] = stamped[r] /\ stamped[r].sender # p /\ stamped[r].sender \in Nodes
    BY <1>0, <1>14, CausalParts, Zenon
  <2>1. /\ VC[p][stamped[r].sender] < Own(stamped[r])
        /\ \A i \in DOMAIN inbox[p] :
              inbox[p][i].sender = stamped[r].sender => Own(inbox[p][i]) < Own(stamped[r])
        /\ \A j \in DOMAIN broadcast :
              ToCome(p, j) /\ broadcast[j].sender = stamped[r].sender =>
                  Own(broadcast[j]) < Own(stamped[r])
    BY <2>0, Zenon DEF InOrder, HandLast
  <2>2. VC'[p][stamped[r].sender] < Own(stamped[r])
    <3>1. CASE p = n /\ stamped[r].sender = m.sender
      BY <1>m, <1>4, <1>6, <2>1, <3>1, Zenon
    <3>2. CASE ~(p = n /\ stamped[r].sender = m.sender)
      BY <1>4, <2>0, <2>1, <3>2, Zenon
    <3>3. QED BY <3>1, <3>2, Zenon
  <2>3. \A i \in DOMAIN inbox'[p] :
            inbox'[p][i].sender = stamped[r].sender => Own(inbox'[p][i]) < Own(stamped[r])
    BY <1>9, <2>1
  <2>4. QED BY <1>0, <1>13, <2>0, <2>1, <2>2, <2>3, Zenon
<1>22. ChannelOrder'
  <2> SUFFICES ASSUME NEW p \in Nodes, NEW j \in DOMAIN broadcast', ToCome(p, j)'
               PROVE  /\ VC'[p][broadcast'[j].sender] < Own(broadcast'[j])
                      /\ \A i \in DOMAIN inbox'[p] :
                            inbox'[p][i].sender = broadcast'[j].sender =>
                                Own(inbox'[p][i]) < Own(broadcast'[j])
                      /\ \A h \in DOMAIN broadcast' :
                            h < j /\ ToCome(p, h)' /\ broadcast'[h].sender = broadcast'[j].sender =>
                                Own(broadcast'[h]) < Own(broadcast'[j])
    BY Zenon DEF ChannelOrder, Own
  <2>0. j \in DOMAIN broadcast /\ ToCome(p, j) /\ broadcast[j].sender \in Nodes
    BY <1>0, <1>13, CausalParts, Zenon
  <2>1. /\ VC[p][broadcast[j].sender] < Own(broadcast[j])
        /\ \A i \in DOMAIN inbox[p] :
              inbox[p][i].sender = broadcast[j].sender => Own(inbox[p][i]) < Own(broadcast[j])
        /\ \A h \in DOMAIN broadcast :
              h < j /\ ToCome(p, h) /\ broadcast[h].sender = broadcast[j].sender =>
                  Own(broadcast[h]) < Own(broadcast[j])
    BY <2>0, Zenon DEF InOrder, ChannelOrder
  <2>2. VC'[p][broadcast[j].sender] < Own(broadcast[j])
    <3>1. CASE p = n /\ broadcast[j].sender = m.sender
      BY <1>m, <1>4, <1>6, <2>1, <3>1, Zenon
    <3>2. CASE ~(p = n /\ broadcast[j].sender = m.sender)
      BY <1>4, <2>0, <2>1, <3>2, Zenon
    <3>3. QED BY <3>1, <3>2, Zenon
  <2>3. \A i \in DOMAIN inbox'[p] :
            inbox'[p][i].sender = broadcast[j].sender => Own(inbox'[p][i]) < Own(broadcast[j])
    BY <1>9, <2>1
  <2>4. QED BY <1>0, <1>13, <2>1, <2>2, <2>3, Zenon
<1>23. InboxOrder'
  <2> SUFFICES ASSUME NEW p \in Nodes, NEW i \in DOMAIN inbox'[p]
               PROVE  /\ VC'[p][inbox'[p][i].sender] < Own(inbox'[p][i])
                      /\ \A h \in DOMAIN inbox'[p] :
                            h < i /\ inbox'[p][h].sender = inbox'[p][i].sender =>
                                Own(inbox'[p][h]) < Own(inbox'[p][i])
    BY Zenon DEF InboxOrder, Own
  <2>0. PICK g \in DOMAIN inbox[p] : inbox'[p][i] = inbox[p][g] /\ g = IF p = n THEN i + 1 ELSE i
    BY <1>9, Zenon
  <2>1. /\ VC[p][inbox[p][g].sender] < Own(inbox[p][g])
        /\ \A h \in DOMAIN inbox[p] :
              h < g /\ inbox[p][h].sender = inbox[p][g].sender =>
                  Own(inbox[p][h]) < Own(inbox[p][g])
    BY Zenon DEF InOrder, InboxOrder
  <2>2. VC'[p][inbox[p][g].sender] < Own(inbox[p][g])
    <3>0. inbox[p][g].sender \in Nodes
      BY CausalParts, Zenon
    <3>1. CASE p = n /\ inbox[p][g].sender = m.sender
      <4>1. 1 < g
        BY <1>p, <2>0, <3>1
      <4>2. Own(m) < Own(inbox[n][g])
        BY <1>m, <1>6, <2>1, <3>1, <4>1, Zenon
      <4>3. QED BY <1>4, <3>1, <4>2, Zenon
    <3>2. CASE ~(p = n /\ inbox[p][g].sender = m.sender)
      BY <1>4, <2>1, <3>0, <3>2, Zenon
    <3>3. QED BY <3>1, <3>2, Zenon
  <2>3. ASSUME NEW h \in DOMAIN inbox'[p], h < i, inbox'[p][h].sender = inbox[p][g].sender
        PROVE  Own(inbox'[p][h]) < Own(inbox[p][g])
    <3>1. PICK f \in DOMAIN inbox[p] : inbox'[p][h] = inbox[p][f] /\ f = IF p = n THEN h + 1 ELSE h
      BY <1>9, Zenon
    <3>2. f < g
      BY <1>p, <2>0, <2>3, <3>1
    <3>3. QED BY <2>1, <2>3, <3>1, <3>2, Zenon
  <2>4. QED BY <2>0, <2>2, <2>3, Zenon
<1>24. InboxCauses'
  <2> SUFFICES ASSUME NEW p \in Nodes, NEW k \in Nodes, NEW c \in Nat, NEW i \in DOMAIN inbox'[p],
                      Missing(p, inbox[p][i], k, c)'
               PROVE  \E h \in DOMAIN inbox'[p] : h < i /\ Is(inbox'[p][h], k, c)
    BY Zenon DEF InboxCauses, Is
  <2>0. PICK g \in DOMAIN inbox[p] : inbox'[p][i] = inbox[p][g] /\ g = IF p = n THEN i + 1 ELSE i
    BY <1>9, Zenon
  <2>1. Missing(p, inbox[p][g], k, c) /\ VC'[p][k] < c
    BY <1>12, <2>0, Zenon DEF Missing, Is
  <2>2. PICK f \in DOMAIN inbox[p] : f < g /\ Is(inbox[p][f], k, c)
    BY <2>1, Zenon DEF InOrder, InboxCauses
  <2>3. PICK h \in DOMAIN inbox'[p] : inbox'[p][h] = inbox[p][f] /\ f = IF p = n THEN h + 1 ELSE h
    BY <1>10, <1>11, <2>1, <2>2
  <2>4. h < i
    BY <1>p, <2>0, <2>2, <2>3
  <2>5. QED BY <2>2, <2>3, <2>4, Zenon
<1>25. ChannelCauses'
  <2> SUFFICES ASSUME NEW p \in Nodes, NEW k \in Nodes, NEW c \in Nat, NEW j \in DOMAIN broadcast',
                      ToCome(p, j)', Missing(p, broadcast[j], k, c)'
               PROVE  \/ InInbox(p, k, c)'
                      \/ \E h \in DOMAIN broadcast' : h < j /\ ToCome(p, h)' /\ Is(broadcast'[h], k, c)
    BY DEF ChannelCauses, Is
  <2>1. Missing(p, broadcast[j], k, c) /\ VC'[p][k] < c
    BY <1>0, <1>12, Zenon DEF Missing, Is
  <2>2. \/ InInbox(p, k, c)
        \/ \E h \in DOMAIN broadcast : h < j /\ ToCome(p, h) /\ Is(broadcast[h], k, c)
    BY <1>0, <1>13, <2>1, Zenon DEF InOrder, ChannelCauses
  <2>3. QED BY <1>0, <1>13, <1>15, <2>1, <2>2, Zenon
<1>26. QED
  BY <1>16, <1>17, <1>18, <1>19, <1>20, <1>21, <1>22, <1>23, <1>24, <1>25, Zenon DEF InOrder

LEMMA SameInOrder ==
    ASSUME InOrder, VC' = VC, stamped' = stamped, broadcast' = broadcast, copying' = copying,
           inbox' = inbox, held' = held, recheck' = recheck
    PROVE  InOrder'
<1>0. /\ VC' = VC /\ stamped' = stamped /\ broadcast' = broadcast
      /\ copying' = copying /\ inbox' = inbox /\ held' = held /\ recheck' = recheck
  BY Zenon
<1>1. \A n \in Nodes : \A j : ToCome(n, j)' <=> ToCome(n, j)
  BY <1>0, Zenon DEF ToCome
<1>2. \A s \in Senders : InHand(s)' <=> InHand(s)
  BY <1>0, Zenon DEF InHand
<1>3. \A m, k, c : Is(m, k, c)' <=> Is(m, k, c)
  BY Zenon DEF Is
<1>4. \A n, m, k, c : Missing(n, m, k, c)' <=> Missing(n, m, k, c)
  BY <1>0, Zenon DEF Missing, Is
<1>5. NothingHeld /\ CopyingHead /\ OthersMail => (NothingHeld /\ CopyingHead /\ OthersMail)'
  BY <1>0, Zenon DEF NothingHeld, CopyingHead, OthersMail
<1>6. ClocksBehind => ClocksBehind'
  BY <1>0, <1>2, Zenon DEF ClocksBehind
<1>7. Located => Located'
  BY <1>0 DEF Located, InInbox, InChannel, Stamped, ToCome, InHand, Is
<1>8. HandOrder => HandOrder'
  BY <1>0, <1>2, Zenon DEF HandOrder, Own
<1>9. HandLast => HandLast'
  BY <1>0 DEF HandLast, Own, ToCome, InHand
<1>10. ChannelOrder => ChannelOrder'
  BY <1>0 DEF ChannelOrder, Own, ToCome
<1>11. InboxOrder => InboxOrder'
  BY <1>0, Zenon DEF InboxOrder, Own
<1>12. InboxCauses => InboxCauses'
  BY <1>0 DEF InboxCauses, Missing, Is
<1>13. ChannelCauses => ChannelCauses'
  BY <1>0 DEF ChannelCauses, Missing, Is, InInbox, ToCome
<1>14. QED
  BY <1>5, <1>6, <1>7, <1>8, <1>9, <1>10, <1>11, <1>12, <1>13, Zenon DEF InOrder
=============================================================================
