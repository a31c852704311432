-------------------------- MODULE MessageBusProofs ---------------------------
(***************************************************************************)
(* Theorems about the consumer group, the fault-tolerant and the           *)
(* transactional bus of solution 18, and about the three buses together,   *)
(* for any number of consumers, messages, transactions, topics and         *)
(* partitions.                                                             *)
(***************************************************************************)
EXTENDS MessageBus, FiniteSetTheorems, TLAPS

\* What the provers know of sequences, stated once for the steps that need it.
LEMMA SeqDef == \A S : Seq(S) = UNION {[1 .. n -> S] : n \in Nat}
OBVIOUS

LEMMA LenProperties ==
    ASSUME NEW S, NEW seq \in Seq(S)
    PROVE  Len(seq) \in Nat /\ seq \in [1 .. Len(seq) -> S] /\ DOMAIN seq = 1 .. Len(seq)
OBVIOUS

LEMMA EmptySeq ==
    ASSUME NEW S
    PROVE  /\ <<>> \in Seq(S) /\ Len(<<>>) = 0
           /\ \A seq \in Seq(S) : seq # <<>> => Len(seq) \in Nat \ {0}
OBVIOUS
-----------------------------------------------------------------------------
(***************************************************************************)
(* Consumer groups. Assignments need not fit the members while a rebalance *)
(* is on its way, so the invariant says what they are from the clearing of *)
(* the old ones on (AssignmentsFit), and that a change of the members      *)
(* always has a rebalance behind it. That members differ by at most one    *)
(* partition is arithmetic: dealing in turn to n places, from any place on *)
(* (EvenShares).                                                           *)
(***************************************************************************)

\* What the quotient and the remainder of two numbers are.
LEMMA DivMod ==
    ASSUME NEW n \in Nat \ {0}, NEW x \in Nat
    PROVE  x % n \in 0 .. n - 1 /\ x \div n \in Int /\ x = n * (x \div n) + (x % n)
OBVIOUS

\* A positive multiple of n is at least n.
LEMMA Multiple ==
    ASSUME NEW n \in Nat \ {0}, NEW q \in Int, NEW d \in Int, d = n * q, d > 0
    PROVE  d >= n
<1>1. q >= 1
  OBVIOUS
<1> QED
  BY <1>1

\* Two numbers with the same remainder are at least the divisor apart.
LEMMA Far ==
    ASSUME NEW n \in Nat \ {0}, NEW x \in Nat, NEW y \in Nat, x % n = y % n, x < y
    PROVE  y - x >= n
<1>1. /\ x = n * (x \div n) + (x % n) /\ y = n * (y \div n) + (y % n)
      /\ x \div n \in Int /\ y \div n \in Int /\ x % n \in Int
  BY DivMod
<1> DEFINE d == y - x
           k == (y \div n) - (x \div n)
<1>2. d \in Int /\ k \in Int /\ d = n * k /\ d > 0
  BY <1>1
<1> HIDE DEF d, k
<1>3. d >= n
  BY <1>2, Multiple, Zenon
<1> QED
  BY <1>3, Zenon DEF d

\* The remainder is the only one between 0 and n - 1.
LEMMA ModIs ==
    ASSUME NEW n \in Nat \ {0}, NEW q \in Int, NEW r \in 0 .. n - 1, NEW x \in Nat, x = n * q + r
    PROVE  x % n = r
<1>1. x = n * (x \div n) + (x % n) /\ x \div n \in Int /\ x % n \in 0 .. n - 1
  BY DivMod, Zenon
<1>2. r - (x % n) = n * ((x \div n) - q) /\ (x % n) - r = n * (q - (x \div n))
  BY <1>1
<1>3. ~(r > x % n)
  <2> SUFFICES ASSUME r > x % n PROVE FALSE
    BY Zenon
  <2> DEFINE d == r - (x % n)
             k == (x \div n) - q
  <2>1. d \in Int /\ k \in Int /\ d = n * k /\ d > 0
    BY <1>1, <1>2
  <2> HIDE DEF d, k
  <2>2. d >= n
    BY <2>1, Multiple, Zenon
  <2> QED
    BY <1>1, <2>2 DEF d
<1>4. ~(x % n > r)
  <2> SUFFICES ASSUME x % n > r PROVE FALSE
    BY Zenon
  <2> DEFINE d == (x % n) - r
             k == q - (x \div n)
  <2>1. d \in Int /\ k \in Int /\ d = n * k /\ d > 0
    BY <1>1, <1>2
  <2> HIDE DEF d, k
  <2>2. d >= n
    BY <2>1, Multiple, Zenon
  <2> QED
    BY <1>1, <2>2 DEF d
<1> QED
  BY <1>1, <1>3, <1>4

\* The partitions of m that a deal to n consumers, which starts at b, gives to place r.
Share(n, b, m, r) == {p \in 0 .. m - 1 : (b + p) % n = r}

\* The place r has a partition where s had one, if that is not before the first.
LEMMA Shifted ==
    ASSUME NEW n \in Nat \ {0}, NEW b \in Nat, NEW m \in Nat,
           NEW r \in 0 .. n - 1, NEW s \in 0 .. n - 1, NEW k \in 0 .. n - 1,
           k = IF r >= s THEN r - s ELSE (r - s) + n,
           NEW p \in Share(n, b, m, r), p >= k
    PROVE  p - k \in Share(n, b, m, s)
<1>1. p \in 0 .. m - 1 /\ (b + p) % n = r
  BY Zenon DEF Share
<1> DEFINE x == b + p
           y == x - k
           q == x \div n
<1>2. x \in Nat /\ y \in Nat /\ x % n = r
  BY <1>1
<1>3. q \in Int /\ x = (n * q) + r
  BY <1>2, DivMod, Zenon
<1>4. y % n = s
  <2> HIDE DEF x, y, q
  <2>1. CASE r >= s
    <3>1. y = (n * q) + s
      BY <1>2, <1>3, <2>1 DEF y
    <3> QED
      BY <1>2, <1>3, <3>1, ModIs
  <2>2. CASE ~(r >= s)
    <3>1. y = (n * (q - 1)) + s /\ q - 1 \in Int
      BY <1>2, <1>3, <2>2 DEF y
    <3> DEFINE u == q - 1
    <3>2. u \in Int /\ y = (n * u) + s
      BY <3>1, Zenon
    <3> HIDE DEF u
    <3> QED
      BY <1>2, <3>2, ModIs
  <2> QED
    BY <2>1, <2>2, Zenon
<1>5. p - k \in 0 .. m - 1 /\ b + (p - k) = y
  BY <1>1
<1> QED
  BY <1>4, <1>5, Zenon DEF Share

\* A share is finite.
LEMMA ShareFinite ==
    ASSUME NEW n, NEW b, NEW m \in Nat, NEW r
    PROVE  IsFiniteSet(Share(n, b, m, r)) /\ Cardinality(Share(n, b, m, r)) \in Nat
<1>1. IsFiniteSet(0 .. m - 1)
  BY FS_Interval
<1> QED
  BY <1>1, FS_Subset, FS_CardinalityType, Zenon DEF Share

\* Dealing in turn is even: two places differ by at most one partition.
LEMMA EvenShares ==
    ASSUME NEW n \in Nat \ {0}, NEW b \in Nat, NEW m \in Nat,
           NEW r \in 0 .. n - 1, NEW s \in 0 .. n - 1
    PROVE  Cardinality(Share(n, b, m, r)) <= Cardinality(Share(n, b, m, s)) + 1
<1> DEFINE k == IF r >= s THEN r - s ELSE (r - s) + n
           C == Share(n, b, m, r)
           D == Share(n, b, m, s)
           High == {p \in C : p >= k}
           f == [p \in High |-> p - k]
<1>1. k \in 0 .. n - 1
  OBVIOUS
<1>2. IsFiniteSet(C) /\ IsFiniteSet(D) /\ Cardinality(C) \in Nat /\ Cardinality(D) \in Nat
  BY ShareFinite, Zenon
<1>3. \A p \in C : p \in Nat
  BY DEF Share
<1>4. f \in Injection(High, D)
  <2>1. ASSUME NEW p \in High PROVE p - k \in D
    <3>1. p \in Share(n, b, m, r) /\ p >= k
      BY Zenon
    <3> HIDE DEF C, D, High, f
    <3> QED
      BY <1>1, <3>1, Shifted, Zenon DEF D
  <2>2. \A p, q \in High : p - k = q - k => p = q
    BY <1>1, <1>3
  <2> HIDE DEF C, D, High, k
  <2>3. f \in [High -> D] /\ \A p, q \in High : f[p] = f[q] => p = q
    BY <2>1, <2>2, Zenon
  <2> QED
    BY <2>3, Zenon DEF Injection, IsInjective
<1>5. IsFiniteSet(High) /\ Cardinality(High) <= Cardinality(D) /\ Cardinality(High) \in Nat
  <2> HIDE DEF C, D, High, f
  <2> QED
    BY <1>2, <1>4, FS_Injection, FS_CardinalityType, Zenon
<1>6. \A p, q \in C : p < k /\ q < k => p = q
  <2> SUFFICES ASSUME NEW p \in C, NEW q \in C, p < k, q < k, p < q PROVE FALSE
    BY <1>1, <1>3
  <2>1. p \in Nat /\ q \in Nat /\ (b + p) % n = r /\ (b + q) % n = r
    BY DEF Share
  <2> DEFINE x == b + p
             y == b + q
  <2>2. x \in Nat /\ y \in Nat /\ x % n = y % n /\ x < y
    BY <2>1
  <2> HIDE DEF x, y
  <2>3. y - x >= n
    BY ONLY <2>2, Far, Zenon
  <2> QED
    BY <1>1, <2>1, <2>3 DEF x, y
<1>7. CASE \E p \in C : p < k
  <2>1. PICK p \in C : p < k
    BY <1>7, Zenon
  <2>2. C = High \cup {p} /\ p \notin High
    BY <1>1, <1>3, <1>6, <2>1
  <2> HIDE DEF C, D, High
  <2>3. Cardinality(C) = Cardinality(High) + 1
    BY <1>5, <2>2, FS_AddElement, Zenon
  <2> QED
    BY <1>2, <1>5, <2>3 DEF C, D
<1>8. CASE ~\E p \in C : p < k
  <2>1. C = High
    BY <1>1, <1>3, <1>8
  <2> HIDE DEF C, D, High
  <2> QED
    BY <1>2, <1>5, <2>1 DEF C, D
<1> QED
  BY <1>7, <1>8, Zenon
-----------------------------------------------------------------------------
GroupTypes ==
    /\ topics \subseteq TopicNames /\ overdue \subseteq Consumers
    /\ consumers \in [Consumers -> {"absent", "active", "inactive"}]
    /\ spawned \in Nat /\ waiting \in Nat /\ consumerIndex \in Nat
    /\ copies \in [TopicNames -> Nat]
    /\ activeConsumers \in Seq(Consumers)
    /\ checker \in {"idle", "checking"} /\ joins \in 0 .. MaxJoins

RebalancingType == rebalancing \in BOOLEAN

AssignmentTypes ==
    /\ DOMAIN assignments = TopicNames
    /\ \A t \in TopicNames : assignments[t] \in [Partitions(t) -> Consumers \cup {None}]

\* Every JoinGroup pays for the rebalance it starts and for the one that starts when the health
\* checker gives its consumer up.
Paid ==
    /\ mbmu \in Consumers \cup {None}
    /\ mbmu # None => joins >= 1
    /\ (spawned + waiting) + Cardinality(Active) <= 2 * (IF mbmu = None THEN joins ELSE joins - 1)

\* Active consumers that named the topic and whose round of the collecting loop is over.
Collected(t) == {c \in Active : t \in Topics[c] /\ <<c, t>> \notin todo}

\* Only the rebalance that holds group.mu has something collected, from active consumers.
Collecting ==
    /\ todo \subseteq Active \X TopicNames
    /\ \A pair \in todo : pair[2] \in Topics[pair[1]]
    /\ \A t \in TopicNames : copies[t] <= Cardinality(Collected(t))
    /\ ~rebalancing => todo = {} /\ activeConsumers = <<>> /\ copies = NoCopies
    /\ activeConsumers # <<>> => todo = {} /\ activeConsumers \in Orders(Active)

\* Partition p of a topic is with the active consumers in turn, in some order, from some place
\* on.
InTurn(a, t, S) ==
    \E cs \in Orders(S), b \in Nat :
        a = [p \in Partitions(t) |-> cs[((b + p) % Cardinality(S)) + 1]]

Fits(t) ==
    \/ assignments[t] = Unassigned[t]
    \/ (\E c \in Active : t \in Topics[c]) /\ InTurn(assignments[t], t, Active)

\* The assignments fit the active consumers while they are dealt out and after that, until
\* another rebalance is on its way.
AssignmentsFit ==
    /\ activeConsumers # <<>> => \A t \in TopicNames : Fits(t)
    /\ GroupSettled /\ Active # {} => \A t \in TopicNames : Fits(t)

\* The inductive invariant of a group.
GroupInv ==
    /\ GroupTypes /\ RebalancingType /\ AssignmentTypes
    /\ Paid /\ Collecting /\ AssignmentsFit

\* Sets of consumers are finite.
LEMMA ActiveFinite ==
    ASSUME NEW S \in SUBSET Consumers PROVE IsFiniteSet(S) /\ Cardinality(S) \in Nat
BY GroupAssumption, FS_Subset, FS_CardinalityType, Zenon

\* After CreateConsumerGroup nothing is started, collected or assigned.
LEMMA GroupInitially == GroupInit => GroupInv
<1> SUFFICES ASSUME GroupInit PROVE GroupInv
  BY Zenon
<1>0. NoCopies \in [TopicNames -> Nat] /\ \A t \in TopicNames : NoCopies[t] = 0
  BY Zenon DEF NoCopies
<1>1. GroupTypes
  BY <1>0, GroupAssumption, EmptySeq DEF GroupInit, GroupTypes
<1>2. RebalancingType
  BY Zenon DEF GroupInit, RebalancingType
<1>3. AssignmentTypes
  BY Zenon DEF GroupInit, AssignmentTypes, Unassigned
<1>4. Active = {}
  BY Zenon DEF GroupInit, Active
<1>5. Paid
  BY <1>4, FS_EmptySet DEF GroupInit, Paid
<1>6. Collecting
  <2>1. \A t \in TopicNames : Collected(t) = {}
    BY <1>4, Zenon DEF Collected
  <2>2. \A t \in TopicNames : copies[t] <= Cardinality(Collected(t))
    <3>1. Cardinality({}) = 0 /\ copies = NoCopies
      BY FS_EmptySet, Zenon DEF GroupInit
    <3> QED
      BY ONLY <1>0, <2>1, <3>1
  <2> QED
    BY <2>2, Zenon DEF GroupInit, Collecting
<1>7. AssignmentsFit
  BY <1>4, Zenon DEF GroupInit, AssignmentsFit
<1> QED
  BY <1>1, <1>2, <1>3, <1>5, <1>6, <1>7, Zenon DEF GroupInv

\* Steps that leave the members, their assignments and the rebalance that runs alone. A goroutine
\* that goes on from one place to the next is still to come.
LEMMA AsideStep ==
    ASSUME GroupInv, UNCHANGED <<consumers, assignments, rebalanceVars>>,
           topics' \subseteq TopicNames, overdue' \subseteq Consumers,
           checker' \in {"idle", "checking"}, joins' \in 0 .. MaxJoins,
           spawned' \in Nat, waiting' \in Nat, spawned' + waiting' = spawned + waiting,
           Paid'
    PROVE  GroupInv'
<1>1. UNCHANGED <<rebalancing, todo, copies, activeConsumers, consumerIndex>>
  BY Zenon DEF rebalanceVars, dealVars
<1>2. Active' = Active
  BY Zenon DEF Active
<1>3. GroupTypes' /\ AssignmentTypes'
  BY <1>1, Zenon DEF GroupInv, GroupTypes, AssignmentTypes
<1>4. RebalancingType'
  BY <1>1, Zenon DEF GroupInv, RebalancingType
<1>5. Collecting'
  <2>1. \A t \in TopicNames : Collected(t)' = Collected(t)
    BY <1>1, <1>2, Zenon DEF Collected
  <2> QED
    BY <1>1, <1>2, <2>1, Zenon DEF GroupInv, Collecting
<1>6. AssignmentsFit'
  <2>1. \A t \in TopicNames : Fits(t)' <=> Fits(t)
    BY <1>2, Zenon DEF Fits
  <2>2. GroupSettled' => GroupSettled
    BY <1>1 DEF GroupSettled, GroupInv, GroupTypes
  <2> QED
    BY <1>1, <1>2, <2>1, <2>2, Zenon DEF GroupInv, AssignmentsFit
<1> QED
  BY <1>3, <1>4, <1>5, <1>6, Zenon DEF GroupInv

\* CreateTopic, the two ends of a lock wait, and time: members and assignments stay.
LEMMA QuietGroupStep ==
    ASSUME GroupInv,
           \/ \E t \in TopicNames : CreateTopic(t)
           \/ \E c \in Consumers : HeartbeatExpires(c) \/ JoinGroup(c)
           \/ HealthTick \/ RebalanceLookup
    PROVE  GroupInv'
<1>1. /\ topics \subseteq TopicNames /\ overdue \subseteq Consumers
      /\ spawned \in Nat /\ waiting \in Nat
      /\ checker \in {"idle", "checking"} /\ joins \in 0 .. MaxJoins /\ MaxJoins \in Nat
      /\ Cardinality(Active) \in Nat
  BY GroupAssumption, ActiveFinite, Zenon DEF GroupInv, GroupTypes, Active
<1>2. UNCHANGED <<consumers, assignments, rebalanceVars>> /\ Active' = Active
  BY Zenon DEF CreateTopic, HeartbeatExpires, JoinGroup, HealthTick, RebalanceLookup, Active
<1>3. CASE \E c \in Consumers : JoinGroup(c)
  <2>1. /\ joins' = joins + 1 /\ joins < MaxJoins /\ mbmu = None /\ mbmu' \in Consumers
        /\ UNCHANGED <<topics, overdue, spawned, waiting, checker>>
    BY <1>3, Zenon DEF JoinGroup
  <2>2. mbmu' # None
    BY <2>1, GroupAssumption, Zenon
  <2>3. Paid'
    BY <1>1, <1>2, <2>1, <2>2 DEF GroupInv, Paid
  <2>4. joins' \in 0 .. MaxJoins
    BY <1>1, <2>1
  <2> QED
    BY <1>1, <1>2, <2>1, <2>3, <2>4, AsideStep, Zenon
<1>4. CASE RebalanceLookup
  <2>1. spawned' = spawned - 1 /\ waiting' = waiting + 1 /\ spawned > 0
        /\ UNCHANGED <<topics, overdue, checker, mbmu, joins>>
    BY <1>4, Zenon DEF RebalanceLookup, lockVars
  <2>2. spawned' \in Nat /\ waiting' \in Nat /\ spawned' + waiting' = spawned + waiting
    BY <1>1, <2>1
  <2>3. Paid'
    BY <1>1, <1>2, <2>1, <2>2, Zenon DEF GroupInv, Paid
  <2> QED
    BY <1>1, <1>2, <2>1, <2>2, <2>3, AsideStep, Zenon
<1>5. CASE (\E t \in TopicNames : CreateTopic(t)) \/ (\E c \in Consumers : HeartbeatExpires(c)) \/ HealthTick
  <2>1. UNCHANGED <<spawned, waiting, mbmu, joins>>
    BY <1>5, Zenon DEF CreateTopic, HeartbeatExpires, HealthTick, lockVars
  <2>2. topics' \subseteq TopicNames /\ overdue' \subseteq Consumers /\ checker' \in {"idle", "checking"}
    BY <1>1, <1>5, Zenon DEF CreateTopic, HeartbeatExpires, HealthTick
  <2>3. Paid'
    BY <1>1, <1>2, <2>1, Zenon DEF GroupInv, Paid
  <2> QED
    BY <1>1, <1>2, <2>1, <2>2, <2>3, AsideStep, Zenon
<1> QED
  BY <1>3, <1>4, <1>5, Zenon

\* The members change while nothing is rebalanced: a rebalance is on its way.
LEMMA MembersStep ==
    ASSUME GroupInv, ~rebalancing, UNCHANGED <<topics, assignments, waiting, rebalanceVars>>,
           GroupTypes', Paid', spawned' > 0
    PROVE  GroupInv'
<1>1. UNCHANGED <<rebalancing, todo, copies, activeConsumers, consumerIndex>>
  BY Zenon DEF rebalanceVars, dealVars
<1>2. AssignmentTypes'
  BY Zenon DEF GroupInv, AssignmentTypes
<1>3. RebalancingType'
  BY <1>1, Zenon DEF GroupInv, RebalancingType
<1>4. todo = {} /\ activeConsumers = <<>> /\ copies = NoCopies
  BY Zenon DEF GroupInv, Collecting
<1>5. Collecting'
  <2>1. ASSUME NEW t \in TopicNames PROVE copies[t] <= Cardinality(Collected(t)')
    <3>1. Collected(t)' \in SUBSET Consumers
      BY Zenon DEF Collected, Active
    <3>2. Cardinality(Collected(t)') \in Nat
      BY <3>1, ActiveFinite, Zenon
    <3>3. copies[t] = 0
      BY <1>4, Zenon DEF NoCopies
    <3> QED
      BY ONLY <3>2, <3>3
  <2> QED
    BY <1>1, <1>4, <2>1, Zenon DEF Collecting
<1>6. AssignmentsFit'
  BY <1>1, <1>4 DEF AssignmentsFit, GroupSettled
<1> QED
  BY <1>2, <1>3, <1>5, <1>6, Zenon DEF GroupInv

\* JoinGroup adds a member and starts a rebalance.
LEMMA JoinRegisterStep ==
    ASSUME GroupInv, NEW c \in Consumers, JoinRegister(c) PROVE GroupInv'
<1>1. /\ ~rebalancing /\ UNCHANGED <<topics, assignments, waiting, rebalanceVars>>
      /\ UNCHANGED <<checker, joins>> /\ mbmu = c /\ mbmu' = None
      /\ consumers' = [consumers EXCEPT ![c] = "active"]
      /\ overdue' = overdue \ {c} /\ spawned' = spawned + 1
  BY Zenon DEF JoinRegister
<1>2. UNCHANGED <<rebalancing, todo, copies, activeConsumers, consumerIndex>>
  BY <1>1, Zenon DEF rebalanceVars, dealVars
<1>3. GroupTypes' /\ spawned' > 0
  BY <1>1, <1>2 DEF GroupInv, GroupTypes
<1>4. Active' = Active \cup {c}
  BY <1>1, Zenon DEF Active, GroupInv, GroupTypes
<1>5. /\ Cardinality(Active) \in Nat /\ Cardinality(Active') \in Nat
      /\ Cardinality(Active') <= Cardinality(Active) + 1
  <2> DEFINE old == Active
             new == Active'
  <2>1. IsFiniteSet(old) /\ Cardinality(old) \in Nat
    BY ActiveFinite, Zenon DEF Active
  <2>2. new = old \cup {c}
    BY <1>4, Zenon
  <2> HIDE DEF old, new
  <2>3. Cardinality(old \cup {c}) = IF c \in old THEN Cardinality(old) ELSE Cardinality(old) + 1
    BY <2>1, FS_AddElement, Zenon
  <2>4. Cardinality(new) \in Nat /\ Cardinality(new) <= Cardinality(old) + 1
    BY <2>1, <2>2, <2>3
  <2> QED
    BY <2>1, <2>4, Zenon DEF old, new
<1>6. mbmu # None /\ spawned \in Nat /\ waiting \in Nat /\ joins \in Nat
  BY <1>1, GroupAssumption DEF GroupInv, GroupTypes
<1>7. Paid'
  <2>1. /\ joins >= 1 /\ (spawned + waiting) + Cardinality(Active) <= 2 * (joins - 1)
    BY <1>6, Zenon DEF GroupInv, Paid
  <2>2. (spawned' + waiting') + Cardinality(Active') <= 2 * joins
    BY ONLY <1>1, <1>5, <1>6, <2>1
  <2> QED
    BY <1>1, <2>2, Zenon DEF Paid
<1> QED
  BY <1>1, <1>3, <1>7, MembersStep, Zenon

\* The health checker gives up late members, a rebalance started for each, or does nothing.
LEMMA CheckGroupHealthStep ==
    ASSUME GroupInv, CheckGroupHealth PROVE GroupInv'
<1> DEFINE gone == Active \cap overdue
<1>1. /\ ~rebalancing /\ UNCHANGED <<topics, assignments, waiting, rebalanceVars>>
      /\ UNCHANGED <<overdue, mbmu, joins>> /\ checker' = "idle"
      /\ consumers' = [c \in Consumers |-> IF c \in gone THEN "inactive" ELSE consumers[c]]
      /\ spawned' = spawned + Cardinality(gone)
  BY Zenon DEF CheckGroupHealth, lockVars, Rebalances
<1>2. UNCHANGED <<rebalancing, todo, copies, activeConsumers, consumerIndex>>
  BY <1>1, Zenon DEF rebalanceVars, dealVars
<1>3. /\ IsFiniteSet(Active) /\ Cardinality(Active) \in Nat
      /\ IsFiniteSet(gone) /\ Cardinality(gone) \in Nat
  BY ActiveFinite, Zenon DEF Active
<1>4. Active' = Active \ gone
  BY <1>1, Zenon DEF Active, GroupInv, GroupTypes
<1>5. Cardinality(Active') = Cardinality(Active) - Cardinality(gone)
  <2> DEFINE old == Active
             new == Active'
  <2>1. new = old \ gone /\ old \cap gone = gone /\ IsFiniteSet(old)
    BY <1>3, <1>4, Zenon
  <2> HIDE DEF old, new, gone
  <2>2. Cardinality(new) = Cardinality(old) - Cardinality(gone)
    BY <2>1, FS_Difference
  <2> QED
    BY <2>2, Zenon DEF old, new
<1>6. spawned \in Nat /\ waiting \in Nat /\ joins \in Nat
  BY GroupAssumption DEF GroupInv, GroupTypes
<1>7. GroupTypes'
  <2>1. consumers' \in [Consumers -> {"absent", "active", "inactive"}]
    BY <1>1, Zenon DEF GroupInv, GroupTypes
  <2>2. spawned' \in Nat
    BY <1>1, <1>3, <1>6
  <2> QED
    BY <1>1, <1>2, <2>1, <2>2, Zenon DEF GroupInv, GroupTypes
<1>8. Paid'
  <2>1. (spawned' + waiting') + Cardinality(Active') = (spawned + waiting) + Cardinality(Active)
    BY <1>1, <1>3, <1>5, <1>6
  <2> QED
    BY <1>1, <2>1, Zenon DEF GroupInv, Paid
<1>9. CASE gone = {}
  <2>1. consumers' = consumers /\ spawned' = spawned /\ waiting' = waiting
    <3>1. consumers = [c \in Consumers |-> consumers[c]]
      BY Zenon DEF GroupInv, GroupTypes
    <3>2. consumers' = [c \in Consumers |-> consumers[c]]
      BY <1>1, <1>9, Zenon
    <3>3. Cardinality(gone) = 0
      BY <1>9, FS_EmptySet, Zenon
    <3> QED
      BY ONLY <1>1, <1>6, <3>1, <3>2, <3>3
  <2>2. /\ topics' \subseteq TopicNames /\ overdue' \subseteq Consumers
        /\ checker' \in {"idle", "checking"} /\ joins' \in 0 .. MaxJoins
    BY <1>1, Zenon DEF GroupInv, GroupTypes
  <2> QED
    BY <1>1, <1>6, <1>8, <2>1, <2>2, AsideStep, Zenon
<1>10. CASE gone # {}
  <2>1. Cardinality(gone) # 0
    BY <1>3, <1>10, FS_EmptySet, Zenon
  <2>2. spawned' > 0
    BY <1>1, <1>3, <1>6, <2>1
  <2> QED
    BY <1>1, <1>7, <1>8, <2>2, MembersStep, Zenon
<1> QED
  BY <1>9, <1>10, Zenon

\* A rebalance gets group.mu: nothing is collected yet.
LEMMA RebalanceStartStep ==
    ASSUME GroupInv, RebalanceStart PROVE GroupInv'
<1>1. /\ waiting > 0 /\ ~rebalancing /\ waiting' = waiting - 1 /\ rebalancing' = TRUE
      /\ todo' = {pair \in Active \X TopicNames : pair[2] \in Topics[pair[1]]}
      /\ copies' = NoCopies
      /\ UNCHANGED <<topics, consumers, overdue, assignments, spawned, checker>>
      /\ UNCHANGED <<mbmu, joins, activeConsumers, consumerIndex>>
  BY Zenon DEF RebalanceStart, lockVars, dealVars
<1>2. Active' = Active /\ activeConsumers = <<>>
  BY <1>1, Zenon DEF Active, GroupInv, Collecting
<1>3. NoCopies \in [TopicNames -> Nat] /\ \A t \in TopicNames : NoCopies[t] = 0
  BY Zenon DEF NoCopies
<1>4. GroupTypes'
  BY <1>1, <1>3 DEF GroupInv, GroupTypes
<1>5. RebalancingType' /\ AssignmentTypes'
  BY <1>1, Zenon DEF GroupInv, RebalancingType, AssignmentTypes
<1>6. Paid'
  <2>1. /\ spawned \in Nat /\ waiting \in Nat /\ joins \in Nat /\ Cardinality(Active) \in Nat
    BY GroupAssumption, ActiveFinite DEF GroupInv, GroupTypes, Active
  <2> QED
    BY <1>1, <1>2, <2>1 DEF GroupInv, Paid
<1>7. Collecting'
  <2>1. ASSUME NEW t \in TopicNames PROVE copies'[t] <= Cardinality(Collected(t)')
    <3>1. Collected(t)' \in SUBSET Consumers
      BY Zenon DEF Collected, Active
    <3>2. Cardinality(Collected(t)') \in Nat
      BY <3>1, ActiveFinite, Zenon
    <3> QED
      BY <1>1, <1>3, <3>2
  <2>2. todo' \subseteq Active \X TopicNames /\ \A pair \in todo' : pair[2] \in Topics[pair[1]]
    BY <1>1, Zenon
  <2> QED
    BY <1>1, <1>2, <2>1, <2>2, Zenon DEF Collecting
<1>8. AssignmentsFit'
  BY <1>1, <1>2, Zenon DEF AssignmentsFit, GroupSettled
<1> QED
  BY <1>4, <1>5, <1>6, <1>7, <1>8, Zenon DEF GroupInv

\* One round of the collecting loop adds at most one copy, for one more consumer.
LEMMA RebalanceCollectStep ==
    ASSUME GroupInv, RebalanceCollect PROVE GroupInv'
<1>1. /\ rebalancing /\ rebalancing' = rebalancing
      /\ UNCHANGED <<topics, consumers, overdue, assignments, spawned, waiting, checker>>
      /\ UNCHANGED <<mbmu, joins, activeConsumers, consumerIndex>>
  BY Zenon DEF RebalanceCollect, lockVars, dealVars
<1>2. PICK pair \in todo :
        /\ todo' = todo \ {pair}
        /\ copies' = IF pair[2] \in topics
                     THEN [copies EXCEPT ![pair[2]] = @ + 1] ELSE copies
  BY Zenon DEF RebalanceCollect
<1>3. Active' = Active /\ activeConsumers = <<>>
  BY <1>1, <1>2, Zenon DEF Active, GroupInv, Collecting
<1>4. PICK c \in Active, u \in TopicNames : pair = <<c, u>>
  BY <1>2 DEF GroupInv, Collecting
<1>5. u \in Topics[c] /\ copies \in [TopicNames -> Nat]
  BY <1>2, <1>4, Zenon DEF GroupInv, Collecting, GroupTypes
<1>6. /\ copies' \in [TopicNames -> Nat] /\ copies'[u] <= copies[u] + 1
      /\ \A t \in TopicNames \ {u} : copies'[t] = copies[t]
  <2>1. copies' = copies \/ copies' = [copies EXCEPT ![u] = @ + 1]
    BY <1>2, <1>4, Zenon
  <2> QED
    BY ONLY <1>4, <1>5, <2>1
<1>7. GroupTypes'
  BY <1>1, <1>6, Zenon DEF GroupInv, GroupTypes
<1>8. RebalancingType' /\ AssignmentTypes'
  BY <1>1, Zenon DEF GroupInv, RebalancingType, AssignmentTypes
<1>9. Paid'
  BY <1>1, <1>3, Zenon DEF GroupInv, Paid
<1>10. ASSUME NEW t \in TopicNames PROVE copies'[t] <= Cardinality(Collected(t)')
  <2> DEFINE old == Collected(t)
             new == Collected(t)'
  <2>1. old \in SUBSET Consumers /\ new \in SUBSET Consumers
    BY Zenon DEF Collected, Active
  <2>2. IsFiniteSet(old) /\ Cardinality(old) \in Nat /\ Cardinality(new) \in Nat
    BY <2>1, ActiveFinite, Zenon
  <2>3. copies[t] <= Cardinality(old) /\ copies[t] \in Nat /\ copies'[t] \in Nat
    BY <1>5, <1>6, Zenon DEF GroupInv, Collecting
  <2>4. CASE t = u
    <3>1. new = old \cup {c} /\ c \notin old
      BY <1>2, <1>3, <1>4, <1>5, <2>4, Zenon DEF Collected
    <3> HIDE DEF old, new
    <3>2. Cardinality(old \cup {c}) = Cardinality(old) + 1
      BY <2>2, <3>1, FS_AddElement, Zenon
    <3>3. copies'[t] <= copies[t] + 1
      BY <1>6, <2>4, Zenon
    <3>4. copies'[t] <= Cardinality(new)
      BY ONLY <2>2, <2>3, <3>1, <3>2, <3>3
    <3> QED
      BY <3>4, Zenon DEF new
  <2>5. CASE t # u
    <3>1. new = old
      BY <1>2, <1>3, <1>4, <2>5, Zenon DEF Collected
    <3> QED
      BY <1>6, <2>3, <2>5, <3>1, Zenon
  <2> QED
    BY <2>4, <2>5, Zenon
<1>11. Collecting'
  BY <1>1, <1>2, <1>3, <1>10, Zenon DEF GroupInv, Collecting
<1>12. AssignmentsFit'
  BY <1>1, <1>3, Zenon DEF AssignmentsFit, GroupSettled
<1> QED
  BY <1>7, <1>8, <1>9, <1>11, <1>12, Zenon DEF GroupInv

\* The old assignments go, and nothing assigned fits anyone.
LEMMA RebalanceClearStep ==
    ASSUME GroupInv, RebalanceClear PROVE GroupInv'
<1>1. /\ rebalancing /\ rebalancing' = rebalancing /\ todo = {}
      /\ activeConsumers' \in Orders(Active) /\ assignments' = Unassigned
      /\ UNCHANGED <<topics, consumers, overdue, spawned, waiting, checker, consumerIndex>>
      /\ UNCHANGED <<mbmu, joins, todo, copies>>
  BY Zenon DEF RebalanceClear, lockVars
<1>2. Active' = Active
  BY <1>1, Zenon DEF Active
<1>3. activeConsumers' \in Seq(Consumers)
  <2>1. Cardinality(Active) \in Nat /\ Active \subseteq Consumers
    BY ActiveFinite, Zenon DEF Active
  <2>2. activeConsumers' \in [1 .. Cardinality(Active) -> Active]
    BY <1>1, Zenon DEF Orders
  <2>3. \E n \in Nat : activeConsumers' \in [1 .. n -> Consumers]
    BY ONLY <2>1, <2>2, Zenon
  <2> QED
    BY <2>3, SeqDef, Zenon
<1>4. GroupTypes'
  BY <1>1, <1>3, Zenon DEF GroupInv, GroupTypes
<1>5. RebalancingType' /\ AssignmentTypes'
  BY <1>1, Zenon DEF GroupInv, RebalancingType, AssignmentTypes, Unassigned
<1>6. Paid'
  BY <1>1, <1>2, Zenon DEF GroupInv, Paid
<1>7. Collecting'
  <2>1. \A t \in TopicNames : Collected(t)' = Collected(t)
    BY <1>1, <1>2, Zenon DEF Collected
  <2> QED
    BY <1>1, <1>2, <2>1, Zenon DEF GroupInv, Collecting
<1>8. AssignmentsFit'
  BY <1>1, Zenon DEF AssignmentsFit, GroupSettled, Fits
<1> QED
  BY <1>4, <1>5, <1>6, <1>7, <1>8, Zenon DEF GroupInv

\* rebalance returns: what it has dealt out fits, or no member is there to fit.
LEMMA RebalanceFinishStep ==
    ASSUME GroupInv, RebalanceFinish PROVE GroupInv'
<1>1. /\ rebalancing /\ rebalancing' = FALSE /\ todo = {}
      /\ IF activeConsumers # <<>> THEN copies = NoCopies ELSE Active = {}
      /\ copies' = NoCopies /\ activeConsumers' = <<>> /\ consumerIndex' = 0
      /\ UNCHANGED <<topics, consumers, overdue, assignments, spawned, waiting, checker>>
      /\ UNCHANGED <<mbmu, joins, todo>>
  BY Zenon DEF RebalanceFinish, lockVars, HoldsAfter
<1>2. Active' = Active
  BY <1>1, Zenon DEF Active
<1>3. NoCopies \in [TopicNames -> Nat] /\ \A t \in TopicNames : NoCopies[t] = 0
  BY Zenon DEF NoCopies
<1>4. GroupTypes'
  BY <1>1, <1>3, EmptySeq, Zenon DEF GroupInv, GroupTypes
<1>5. RebalancingType' /\ AssignmentTypes'
  BY <1>1, Zenon DEF GroupInv, RebalancingType, AssignmentTypes
<1>6. Paid'
  BY <1>1, <1>2, Zenon DEF GroupInv, Paid
<1>7. Collecting'
  <2>1. ASSUME NEW t \in TopicNames PROVE copies'[t] <= Cardinality(Collected(t)')
    <3>1. Collected(t)' \in SUBSET Consumers
      BY Zenon DEF Collected, Active
    <3>2. Cardinality(Collected(t)') \in Nat
      BY <3>1, ActiveFinite, Zenon
    <3> QED
      BY <1>1, <1>3, <3>2
  <2> QED
    BY <1>1, <1>2, <2>1, Zenon DEF Collecting
<1>8. AssignmentsFit'
  <2>1. \A t \in TopicNames : Fits(t)' <=> Fits(t)
    BY <1>1, <1>2, Zenon DEF Fits
  <2> QED
    BY <1>1, <1>2, <2>1, Zenon DEF GroupInv, AssignmentsFit
<1> QED
  BY <1>4, <1>5, <1>6, <1>7, <1>8, Zenon DEF GroupInv

\* An order of a finite set lists each of its members, once.
LEMMA OrderIsSeq ==
    ASSUME NEW S \in SUBSET Consumers, NEW cs \in Orders(S)
    PROVE  Len(cs) = Cardinality(S) /\ Cardinality(S) \in Nat /\ DOMAIN cs = 1 .. Cardinality(S)
<1>1. Cardinality(S) \in Nat
  BY ActiveFinite, Zenon
<1>2. cs \in [1 .. Cardinality(S) -> S]
  BY Zenon DEF Orders
<1>3. cs \in Seq(S)
  <2>1. \E n \in Nat : cs \in [1 .. n -> S]
    BY <1>1, <1>2, Zenon
  <2> QED
    BY <2>1, SeqDef, Zenon
<1> QED
  BY <1>1, <1>2, <1>3, LenProperties

\* One topic is dealt out: its last copy starts at some place in the order, and goes in turn.
LEMMA RebalanceDealStep ==
    ASSUME GroupInv, NEW t \in TopicNames, RebalanceDeal(t) PROVE GroupInv'
<1>1. /\ activeConsumers # <<>> /\ copies[t] > 0
      /\ assignments' = [assignments EXCEPT ![t] = [p \in Partitions(t) |-> Dealt(t, p)]]
      /\ consumerIndex' = consumerIndex + copies[t] * NumPartitions[t]
      /\ copies' = [copies EXCEPT ![t] = 0]
      /\ UNCHANGED <<topics, consumers, overdue, spawned, waiting, checker>>
      /\ UNCHANGED <<mbmu, joins, rebalancing, todo, activeConsumers>>
  BY Zenon DEF RebalanceDeal, lockVars
<1>2. Active' = Active
  BY <1>1, Zenon DEF Active
<1>3. /\ rebalancing /\ todo = {} /\ activeConsumers \in Orders(Active)
      /\ \A u \in TopicNames : Fits(u)
  BY <1>1, Zenon DEF GroupInv, Collecting, AssignmentsFit
<1> DEFINE n == Cardinality(Active)
           c == copies[t]
           k == NumPartitions[t]
           b == consumerIndex + (c - 1) * k
           dealt == [p \in Partitions(t) |-> activeConsumers[((b + p) % n) + 1]]
<1>4. /\ Len(activeConsumers) = n /\ n \in Nat /\ n # 0
      /\ activeConsumers \in [1 .. n -> Active] /\ Active \in SUBSET Consumers
  <2>1. Active \in SUBSET Consumers /\ Len(activeConsumers) \in Nat \ {0}
    BY <1>1, EmptySeq, Zenon DEF Active, GroupInv, GroupTypes
  <2>2. Len(activeConsumers) = n
    BY <1>3, <2>1, OrderIsSeq, Zenon
  <2>3. activeConsumers \in [1 .. n -> Active]
    BY <1>3, Zenon DEF Orders
  <2> QED
    BY ONLY <2>1, <2>2, <2>3, Zenon
<1>5. c \in Nat /\ c > 0 /\ k \in Nat /\ consumerIndex \in Nat
  BY <1>1, GroupAssumption, Zenon DEF GroupInv, GroupTypes
<1>6. b \in Nat /\ consumerIndex + c * k \in Nat
  <2> DEFINE i == consumerIndex
             d == c - 1
  <2>1. i \in Nat /\ d \in Nat /\ k \in Nat
    BY <1>5
  <2> HIDE DEF i, d, k, c
  <2>2. d * k \in Nat /\ c * k \in Nat
    BY <1>5, <2>1
  <2>3. i + d * k \in Nat /\ i + c * k \in Nat
    BY <2>1, <2>2
  <2> QED
    BY <2>3, Zenon DEF i, d, k, c
<1>7. \A p \in Partitions(t) : p \in Nat /\ ((b + p) % n) + 1 \in 1 .. n
  <2> SUFFICES ASSUME NEW p \in Partitions(t) PROVE p \in Nat /\ ((b + p) % n) + 1 \in 1 .. n
    BY Zenon
  <2> DEFINE x == b + p
  <2>1. p \in Nat
    BY <1>5 DEF Partitions
  <2>2. x \in Nat
    BY <1>6, <2>1
  <2> HIDE DEF n, b, x
  <2>3. x % n \in 0 .. n - 1
    BY <1>4, <2>2, DivMod, Zenon
  <2>4. (x % n) + 1 \in 1 .. n
    BY <1>4, <2>3
  <2> QED
    BY <2>1, <2>4, Zenon DEF x
<1>8. assignments' = [assignments EXCEPT ![t] = dealt]
  BY <1>1, <1>4, Zenon DEF Dealt
<1>9. dealt \in [Partitions(t) -> Active]
  <2> HIDE DEF n, b
  <2> QED
    BY <1>4, <1>7, Zenon
<1>10. GroupTypes'
  <2>1. copies' \in [TopicNames -> Nat] /\ consumerIndex' \in Nat
    BY <1>1, <1>6, Zenon DEF GroupInv, GroupTypes
  <2> QED
    BY <1>1, <2>1, Zenon DEF GroupInv, GroupTypes
<1>11. RebalancingType'
  BY <1>1, Zenon DEF GroupInv, RebalancingType
<1>12. AssignmentTypes'
  <2> HIDE DEF dealt
  <2>1. dealt \in [Partitions(t) -> Consumers \cup {None}]
    BY <1>4, <1>9, Zenon
  <2> QED
    BY <1>8, <2>1, Zenon DEF GroupInv, AssignmentTypes
<1>13. Paid'
  BY <1>1, <1>2, Zenon DEF GroupInv, Paid
<1>14. Collecting'
  <2>1. ASSUME NEW u \in TopicNames PROVE copies'[u] <= Cardinality(Collected(u)')
    <3>1. Collected(u)' = Collected(u) /\ Collected(u) \in SUBSET Consumers
      BY <1>1, <1>2, Zenon DEF Collected, Active
    <3>2. Cardinality(Collected(u)) \in Nat
      BY <3>1, ActiveFinite, Zenon
    <3>3. copies[u] \in Nat /\ copies[u] <= Cardinality(Collected(u))
      BY Zenon DEF GroupInv, GroupTypes, Collecting
    <3>4. copies'[u] = 0 \/ copies'[u] = copies[u]
      BY <1>1, Zenon DEF GroupInv, GroupTypes
    <3> QED
      BY ONLY <3>1, <3>2, <3>3, <3>4
  <2> QED
    BY <1>1, <1>2, <1>3, <2>1, Zenon DEF GroupInv, Collecting
<1>15. \A u \in TopicNames : Fits(u)'
  <2>1. ASSUME NEW u \in TopicNames, u # t PROVE Fits(u)'
    <3>1. assignments'[u] = assignments[u]
      BY <1>8, <2>1, Zenon DEF GroupInv, AssignmentTypes
    <3> QED
      BY <1>2, <1>3, <3>1, Zenon DEF Fits
  <2>2. assignments'[t] = dealt
    BY <1>8, Zenon DEF GroupInv, AssignmentTypes
  <2>3. \E d \in Active : t \in Topics[d]
    <3>1. Collected(t) # {}
      <4>1. copies[t] <= Cardinality(Collected(t))
        BY Zenon DEF GroupInv, Collecting
      <4>2. Cardinality({}) = 0
        BY FS_EmptySet, Zenon
      <4> QED
        BY <1>5, <4>1, <4>2
    <3> QED
      BY <3>1, Zenon DEF Collected
  <2>4. InTurn(dealt, t, Active)
    <3> HIDE DEF b
    <3> QED
      BY <1>3, <1>6, Zenon DEF InTurn
  <2>5. Fits(t)'
    <3> HIDE DEF dealt
    <3> QED
      BY <1>2, <2>2, <2>3, <2>4, Zenon DEF Fits
  <2> QED
    BY <2>1, <2>5, Zenon
<1>16. AssignmentsFit'
  BY <1>1, <1>3, <1>15, Zenon DEF AssignmentsFit, GroupSettled
<1> QED
  BY <1>10, <1>11, <1>12, <1>13, <1>14, <1>16, Zenon DEF GroupInv

\* Every step of the group keeps the invariant.
LEMMA GroupStep == GroupInv /\ [GroupNext]_groupVars => GroupInv'
<1> SUFFICES ASSUME GroupInv, [GroupNext]_groupVars PROVE GroupInv'
  BY Zenon
<1>1. CASE UNCHANGED groupVars
  <2>1. /\ UNCHANGED <<topics, consumers, overdue, assignments, spawned, waiting, checker, joins>>
        /\ UNCHANGED <<mbmu, rebalanceVars>>
    BY <1>1, Zenon DEF groupVars, rebalanceVars, dealVars
  <2>2. /\ topics \subseteq TopicNames /\ overdue \subseteq Consumers
        /\ spawned \in Nat /\ waiting \in Nat
        /\ checker \in {"idle", "checking"} /\ joins \in 0 .. MaxJoins
    BY Zenon DEF GroupInv, GroupTypes
  <2>3. Paid'
    BY <2>1, Zenon DEF GroupInv, Paid, Active
  <2> QED
    BY <2>1, <2>2, <2>3, AsideStep, Zenon
<1>2. CASE Rebalance
  BY <1>2, QuietGroupStep, RebalanceStartStep, RebalanceCollectStep, RebalanceClearStep,
     RebalanceDealStep, RebalanceFinishStep, Zenon DEF Rebalance
<1>3. CASE HealthTick \/ CheckGroupHealth
  BY <1>3, QuietGroupStep, CheckGroupHealthStep, Zenon
<1>4. ASSUME NEW c \in Consumers, JoinGroup(c) \/ JoinRegister(c) \/ HeartbeatExpires(c)
      PROVE  GroupInv'
  BY <1>4, QuietGroupStep, JoinRegisterStep, Zenon
<1>5. ASSUME NEW t \in TopicNames, CreateTopic(t) PROVE GroupInv'
  BY <1>5, QuietGroupStep, Zenon
<1> QED
  BY <1>1, <1>2, <1>3, <1>4, <1>5, Zenon DEF GroupNext

\* An order has a place for every member.
LEMMA OrderCovers ==
    ASSUME NEW S \in SUBSET Consumers, NEW cs \in Orders(S), NEW c \in S
    PROVE  \E r \in 0 .. Cardinality(S) - 1 : cs[r + 1] = c
<1> DEFINE n == Cardinality(S)
           I == 1 .. n
<1>1. IsFiniteSet(S) /\ n \in Nat
  BY ActiveFinite, Zenon
<1>2. cs \in Injection(I, S)
  BY OrderIsSeq, Zenon DEF Orders, Injection, IsInjective
<1>3. Cardinality(I) = n
  BY <1>1, FS_Interval
<1> HIDE DEF n
<1>4. cs \in Surjection(I, S)
  <2>1. Cardinality(I) = Cardinality(S)
    BY <1>3, Zenon DEF n
  <2> HIDE DEF I
  <2> QED
    BY <1>1, <1>2, <2>1, FS_Injection, Zenon
<1>5. PICK i \in I : cs[i] = c
  BY <1>4, Zenon DEF Surjection
<1>6. i - 1 \in 0 .. n - 1 /\ cs[(i - 1) + 1] = c
  BY <1>1, <1>5
<1> QED
  BY <1>6, Zenon DEF n

LEMMA SumIsNat == \A b, k \in Nat : \A p \in 0 .. k - 1 : b + p \in Nat
OBVIOUS

\* What a member owns of a topic that was dealt out in turn.
LEMMA OwnedInTurn ==
    ASSUME NEW S \in SUBSET Consumers, NEW cs \in Orders(S), NEW b \in Nat,
           NEW t \in TopicNames, NEW r \in 0 .. Cardinality(S) - 1,
           assignments[t] = [p \in Partitions(t) |-> cs[((b + p) % Cardinality(S)) + 1]]
    PROVE  Owned(t, cs[r + 1]) = Share(Cardinality(S), b, NumPartitions[t], r)
<1> DEFINE n == Cardinality(S)
<1>1. n \in Nat \ {0} /\ NumPartitions[t] \in Nat
  BY GroupAssumption, ActiveFinite
<1>2. \A i, j \in 1 .. n : cs[i] = cs[j] => i = j
  BY OrderIsSeq, Zenon DEF Orders
<1>3. ASSUME NEW p \in Partitions(t)
      PROVE  assignments[t][p] = cs[r + 1] <=> (b + p) % n = r
  <2> DEFINE x == b + p
  <2>1. x \in Nat
    BY <1>1, SumIsNat, Zenon DEF Partitions
  <2>2. r \in 0 .. n - 1 /\ assignments[t][p] = cs[(x % n) + 1]
    BY Zenon
  <2> HIDE DEF n, x
  <2>3. x % n \in 0 .. n - 1
    BY <1>1, <2>1, DivMod, Zenon
  <2>4. (x % n) + 1 \in 1 .. n /\ r + 1 \in 1 .. n
    BY <1>1, <2>2, <2>3
  <2>5. cs[(x % n) + 1] = cs[r + 1] => x % n = r
    BY <1>2, <2>2, <2>3, <2>4
  <2> QED
    BY <2>2, <2>5, Zenon DEF x
<1> HIDE DEF n
<1>4. Owned(t, cs[r + 1]) = {p \in Partitions(t) : (b + p) % n = r}
  BY <1>3, Zenon DEF Owned
<1> QED
  BY <1>4, Zenon DEF Share, Partitions, n

\* Nobody owns a partition of a topic that is not assigned.
LEMMA EvenWhenUnassigned ==
    ASSUME NEW t \in TopicNames, assignments[t] = Unassigned[t],
           NEW c \in Consumers, NEW d \in Consumers
    PROVE  Cardinality(Owned(t, c)) <= Cardinality(Owned(t, d)) + 1
<1>1. Owned(t, c) = {} /\ Owned(t, d) = {}
  BY GroupAssumption, Zenon DEF Owned, Unassigned
<1> QED
  BY <1>1, FS_EmptySet

\* A topic dealt out in turn is with the members, evenly.
LEMMA EvenWhenInTurn ==
    ASSUME NEW S \in SUBSET Consumers, NEW t \in TopicNames, InTurn(assignments[t], t, S),
           NEW c \in S, NEW d \in S
    PROVE  /\ \A p \in Partitions(t) : assignments[t][p] \in S
           /\ Cardinality(Owned(t, c)) <= Cardinality(Owned(t, d)) + 1
<1> DEFINE n == Cardinality(S)
           m == NumPartitions[t]
<1>1. PICK cs \in Orders(S), b \in Nat :
          assignments[t] = [p \in Partitions(t) |-> cs[((b + p) % n) + 1]]
  BY Zenon DEF InTurn
<1>2. PICK r \in 0 .. n - 1 : cs[r + 1] = c
  BY OrderCovers, Zenon
<1>3. PICK s \in 0 .. n - 1 : cs[s + 1] = d
  BY OrderCovers, Zenon
<1>4. n \in Nat \ {0} /\ m \in Nat
  BY <1>2, GroupAssumption, ActiveFinite
<1>5. Owned(t, c) = Share(n, b, m, r) /\ Owned(t, d) = Share(n, b, m, s)
  BY <1>1, <1>2, <1>3, OwnedInTurn, Zenon
<1>6. Cardinality(Owned(t, c)) <= Cardinality(Owned(t, d)) + 1
  <2> HIDE DEF n, m
  <2> QED
    BY <1>2, <1>3, <1>4, <1>5, EvenShares, Zenon
<1>7. ASSUME NEW p \in Partitions(t) PROVE assignments[t][p] \in S
  <2> DEFINE x == b + p
  <2>1. x \in Nat
    BY <1>4 DEF Partitions
  <2>2. cs \in [1 .. n -> S] /\ assignments[t][p] = cs[(x % n) + 1]
    BY <1>1, Zenon DEF Orders
  <2> HIDE DEF n, x
  <2>3. x % n \in 0 .. n - 1
    BY <1>4, <2>1, DivMod, Zenon
  <2>4. (x % n) + 1 \in 1 .. n
    BY <1>4, <2>3
  <2> QED
    BY <2>2, <2>4, Zenon
<1> QED
  BY <1>6, <1>7, Zenon

\* The invariant implies the types, their bounds included, and what settles.
LEMMA GroupRight == GroupInv => GroupTypeOK /\ AssignmentSettles
<1> SUFFICES ASSUME GroupInv PROVE GroupTypeOK /\ AssignmentSettles
  BY Zenon
<1>1. Cardinality(Active) \in Nat /\ Active \in SUBSET Consumers
  BY ActiveFinite, Zenon DEF Active
<1>2. spawned \in 0 .. 2 * MaxJoins /\ waiting \in 0 .. 2 * MaxJoins
  <2>1. spawned \in Nat /\ waiting \in Nat /\ joins \in 0 .. MaxJoins /\ MaxJoins \in Nat
    BY GroupAssumption, Zenon DEF GroupInv, GroupTypes
  <2>2. (spawned + waiting) + Cardinality(Active) <= 2 * joins
    BY <1>1, <2>1 DEF GroupInv, Paid
  <2> QED
    BY <1>1, <2>1, <2>2
<1>3. copies \in [TopicNames -> 0 .. Cardinality(Consumers)]
  <2>1. copies \in [TopicNames -> Nat]
    BY Zenon DEF GroupInv, GroupTypes
  <2>2. ASSUME NEW t \in TopicNames PROVE copies[t] \in 0 .. Cardinality(Consumers)
    <3>1. copies[t] <= Cardinality(Collected(t)) /\ Collected(t) \subseteq Consumers
      BY Zenon DEF GroupInv, Collecting, Collected, Active
    <3>2. /\ Cardinality(Collected(t)) \in Nat /\ Cardinality(Consumers) \in Nat
          /\ Cardinality(Collected(t)) <= Cardinality(Consumers)
      BY <3>1, GroupAssumption, FS_Subset, FS_CardinalityType, Zenon
    <3> QED
      BY <2>1, <3>1, <3>2
  <2> QED
    BY <2>1, <2>2, Zenon
<1>4. todo \subseteq Consumers \X TopicNames
  BY Zenon DEF GroupInv, Collecting, Active
<1>5. GroupTypeOK
  <2>1. mbmu \in Consumers \cup {None} /\ rebalancing \in BOOLEAN
    BY Zenon DEF GroupInv, Paid, RebalancingType
  <2> QED
    BY <1>2, <1>3, <1>4, <2>1, Zenon DEF GroupInv, GroupTypes, AssignmentTypes, GroupTypeOK
<1>6. AssignmentSettles
  <2> SUFFICES ASSUME GroupSettled, Active # {}, NEW t \in TopicNames
      PROVE /\ \/ assignments[t] = Unassigned[t]
               \/ /\ \A p \in Partitions(t) : assignments[t][p] \in Active
                  /\ \E c \in Active : t \in Topics[c]
            /\ \A c, d \in Active : Cardinality(Owned(t, c)) <= Cardinality(Owned(t, d)) + 1
    BY Zenon DEF AssignmentSettles
  <2>1. Fits(t)
    BY Zenon DEF GroupInv, AssignmentsFit
  <2>2. CASE assignments[t] = Unassigned[t]
    BY <1>1, <2>2, EvenWhenUnassigned, Zenon
  <2>3. CASE (\E c \in Active : t \in Topics[c]) /\ InTurn(assignments[t], t, Active)
    <3>1. ASSUME NEW c \in Active, NEW d \in Active
          PROVE  /\ \A p \in Partitions(t) : assignments[t][p] \in Active
                 /\ Cardinality(Owned(t, c)) <= Cardinality(Owned(t, d)) + 1
      BY <1>1, <2>3, EvenWhenInTurn, Zenon
    <3> QED
      BY <2>3, <3>1, Zenon
  <2> QED
    BY <2>1, <2>2, <2>3, Zenon DEF Fits
<1> QED
  BY <1>5, <1>6, Zenon

\* When every rebalance that JoinGroup or the health checker started is done, the partitions of
\* every topic are with active members that differ by at most one partition, or with nobody.
THEOREM GroupsSettle == GroupSpec => [](GroupTypeOK /\ AssignmentSettles)
<1> QED
  BY GroupInitially, GroupStep, GroupRight, PTL DEF GroupSpec
-----------------------------------------------------------------------------
(***************************************************************************)
(* Consumption with retries. NoMessageLost is not inductive: a commit      *)
(* stores a consumer's own position, so the positions have to be settled   *)
(* too (PositionsSettled).                                                 *)
(***************************************************************************)

\* The variables start in their types.
LEMMA TypeInit == RetryInit => RetryTypeOK
BY RetriesAssumption, SentAssumption DEF RetryInit, RetryTypeOK

\* Every step keeps the variables in their types; a commit stays within the
\* partition because the batch does.
LEMMA TypeStep == RetryTypeOK /\ PositionsSettled /\ [RetryNext]_retryVars => RetryTypeOK'
<1> SUFFICES ASSUME RetryTypeOK, PositionsSettled, [RetryNext]_retryVars PROVE RetryTypeOK'
  BY Zenon
<1> USE RetriesAssumption, SentAssumption DEF RetryTypeOK, Offsets
<1>0. \A c \in Readers : pc[c] \in {"process", "commit"} => next[c] \in 0 .. MaxSent - 1
  BY DEF PositionsSettled
<1>1. CASE Send
  BY <1>1 DEF Send
<1>2. ASSUME NEW c \in Readers, Reassign(c) PROVE RetryTypeOK'
  BY <1>2, Zenon DEF Reassign
<1>3. ASSUME NEW c \in Readers, ConsumeWithRetry(c) PROVE RetryTypeOK'
  BY <1>3, Zenon DEF ConsumeWithRetry
<1>4. ASSUME NEW c \in Readers, ReadOffset(c) PROVE RetryTypeOK'
  BY <1>4, Zenon DEF ReadOffset, FirstOffset
<1>5. ASSUME NEW c \in Readers, ReadMessages(c) PROVE RetryTypeOK'
  BY <1>5 DEF ReadMessages
<1>6. ASSUME NEW c \in Readers, HandlerSucceeds(c) PROVE RetryTypeOK'
  BY <1>0, <1>6, Zenon DEF HandlerSucceeds
<1>7. ASSUME NEW c \in Readers, CommitOffset(c) PROVE RetryTypeOK'
  BY <1>0, <1>7 DEF CommitOffset, Advance
<1>8. ASSUME NEW c \in Readers, Retry(c) PROVE RetryTypeOK'
  BY <1>0, <1>8 DEF Retry, StillRunning, AfterFailure
<1>9. ASSUME NEW c \in Readers, DeadLetter(c) PROVE RetryTypeOK'
  <2>1. next[c] \in 0 .. MaxSent - 1
    BY <1>0, <1>9, Zenon DEF DeadLetter
  <2>2. dlq' \in SUBSET Offsets /\ late' \in SUBSET Offsets
    BY <1>9, <2>1, Zenon DEF DeadLetter, StillRunning, DeadLettered
  <2>3. /\ next' \in [Readers -> 0 .. MaxSent]
        /\ retryCount' \in [Readers -> 0 .. maxRetries - 1]
        /\ pc' \in [Readers -> {"idle", "assigned", "read", "process", "commit"}]
    BY <1>9, <2>1 DEF DeadLetter, Advance
  <2>4. QED
    BY <1>9, <2>2, <2>3, Zenon DEF DeadLetter
<1>10. ASSUME NEW o \in Offsets, LateHandlerReturns(o) PROVE RetryTypeOK'
  BY <1>10, Zenon DEF LateHandlerReturns
<1>11. CASE UNCHANGED retryVars
  BY <1>11, Zenon DEF retryVars
<1>12. QED
  BY <1>1, <1>2, <1>3, <1>4, <1>5, <1>6, <1>7, <1>8, <1>9, <1>10, <1>11, Zenon
  DEF RetryNext, Consume
-----------------------------------------------------------------------------
\* Settled messages stay settled, and the positions that stay where they are with
\* them.
LEMMA SettledStep ==
    ASSUME RetryTypeOK, NoMessageLost, PositionsSettled, RetryTypeOK', [RetryNext]_retryVars
    PROVE  NoMessageLost' /\ PositionsSettled'
<1> USE SentAssumption DEF RetryTypeOK, Offsets, NoMessageLost, PositionsSettled
<1>0. \A o \in Offsets : Settled(o) => Settled(o)'
  BY Zenon DEF RetryNext, Consume, retryVars, Settled, Send, Reassign, ConsumeWithRetry,
         ReadOffset, ReadMessages, HandlerSucceeds, CommitOffset, Retry,
         DeadLetter, DeadLettered, LateHandlerReturns
<1>1. CASE Send
  BY <1>0, <1>1 DEF Send
<1>2. ASSUME NEW c \in Readers, Reassign(c) \/ ConsumeWithRetry(c)
      PROVE  NoMessageLost' /\ PositionsSettled'
  BY <1>0, <1>2 DEF Reassign, ConsumeWithRetry
<1>3. ASSUME NEW c \in Readers, ReadOffset(c) \/ ReadMessages(c)
      PROVE  NoMessageLost' /\ PositionsSettled'
  BY <1>0, <1>3 DEF ReadOffset, ReadMessages, FirstOffset
<1>4. ASSUME NEW c \in Readers, HandlerSucceeds(c)
      PROVE  NoMessageLost' /\ PositionsSettled'
  BY <1>0, <1>4, Zenon DEF HandlerSucceeds, Settled
<1>5. ASSUME NEW c \in Readers, CommitOffset(c)
      PROVE  NoMessageLost' /\ PositionsSettled'
  <2>1. \A o \in Offsets : o < next[c] + 1 => Settled(o)'
    BY <1>0, <1>5 DEF CommitOffset
  <2>2. QED
    BY <1>0, <1>5, <2>1 DEF CommitOffset, Advance
<1>6. ASSUME NEW c \in Readers, Retry(c)
      PROVE  NoMessageLost' /\ PositionsSettled'
  BY <1>0, <1>6 DEF Retry
<1>7. ASSUME NEW c \in Readers, DeadLetter(c)
      PROVE  NoMessageLost' /\ PositionsSettled'
  <2>1. \A o \in Offsets : o < next[c] + 1 => Settled(o)'
    BY <1>0, <1>7 DEF DeadLetter, DeadLettered, Settled
  <2>2. QED
    BY <1>0, <1>7, <2>1 DEF DeadLetter, Advance
<1>8. ASSUME NEW o \in Offsets, LateHandlerReturns(o)
      PROVE  NoMessageLost' /\ PositionsSettled'
  BY <1>0, <1>8 DEF LateHandlerReturns
<1>9. CASE UNCHANGED retryVars
  BY <1>0, <1>9 DEF retryVars
<1>10. QED
  BY <1>1, <1>2, <1>3, <1>4, <1>5, <1>6, <1>7, <1>8, <1>9, Zenon DEF RetryNext, Consume

\* At first no message is sent, so none is lost.
LEMMA SettledInit == RetryInit => NoMessageLost /\ PositionsSettled
BY DEF RetryInit, NoMessageLost, PositionsSettled, Offsets

\* Everything below the committed offset has been handled or dead-lettered,
\* whatever consumers, timeouts and rebalances do.
THEOREM ConsumerLosesNothing == RetrySpec => []NoMessageLost
<1>1. RetryTypeOK /\ NoMessageLost /\ PositionsSettled /\ [RetryNext]_retryVars
        => (RetryTypeOK /\ NoMessageLost /\ PositionsSettled)'
  BY TypeStep, SettledStep, Zenon
<1>2. QED
  BY <1>1, TypeInit, SettledInit, PTL DEF RetrySpec

\* The consumers stay within the messages of the partition.
THEOREM ConsumerTypeCorrect == RetrySpec => []RetryTypeOK
<1>1. RetryTypeOK /\ NoMessageLost /\ PositionsSettled /\ [RetryNext]_retryVars
        => (RetryTypeOK /\ NoMessageLost /\ PositionsSettled)'
  BY TypeStep, SettledStep, Zenon
<1>2. QED
  BY <1>1, TypeInit, SettledInit, PTL DEF RetrySpec
-----------------------------------------------------------------------------
(***************************************************************************)
(* Transactions: what CommittedLog says of the partitions' logs, for any   *)
(* finite number of CommitTransaction calls.                               *)
(***************************************************************************)

\* A transaction's buffer holds its own accepted messages, each once.
Buffers ==
    \A x \in Txs : \A i \in DOMAIN buffer[x] :
        /\ TxOf[buffer[x][i]] = x
        /\ send[buffer[x][i]] = "accepted"
        /\ \A j \in DOMAIN buffer[x] : buffer[x][i] = buffer[x][j] => i = j

\* What a commit took is a prefix of the buffer of one transaction.
TakenPrefix ==
    \A k \in Commits : \A i \in DOMAIN taken[k] :
        /\ i \in DOMAIN buffer[TxOf[taken[k][i]]]
        /\ buffer[TxOf[taken[k][i]]][i] = taken[k][i]
        /\ \A j \in DOMAIN taken[k] : TxOf[taken[k][i]] = TxOf[taken[k][j]]

\* A call that has not begun took nothing, one that succeeded sent everything.
Progress ==
    \A k \in Commits :
        /\ call[k] = "todo" => taken[k] = <<>>
        /\ call[k] = "ok" => txSent[k] = Len(taken[k])

\* What a commit has sent is in its partition.
SentIsLogged ==
    \A m \in Msgs : \A k \in Commits : \A i \in 1 .. txSent[k] : taken[k][i] = m => Logs(m) # {}

\* The commits that have sent the message.
Senders(m) == {k \in Commits : \E i \in 1 .. txSent[k] : taken[k][i] = m}

OncePerSender == \A m \in Msgs : Cardinality(Logs(m)) <= Cardinality(Senders(m))

FirstBefore(a, b) == \E l \in Logs(a) : \A n \in Logs(b) : l < n

\* FirstSentInOrder, with its order of two messages by name.
Ordered ==
    \A a, b \in Msgs : \A x \in Txs : \A i, j \in DOMAIN buffer[x] :
        /\ buffer[x][i] = a /\ buffer[x][j] = b /\ i < j
        /\ Place[a] = Place[b] /\ Logs(b) # {}
        => FirstBefore(a, b)

Books == TxTypeOK /\ Buffers /\ TakenPrefix /\ Progress

TxInv == Books /\ SentIsLogged /\ OncePerSender /\ Ordered

\* Nothing is buffered, taken or sent at first.
LEMMA TxInitially ==
    TxInit => TxInv
<1> SUFFICES ASSUME TxInit PROVE TxInv
  BY Zenon
<1>1. Books
  BY TxAssumption DEF TxInit, Books, TxTypeOK, Buffers, TakenPrefix, Progress
<1>2. ASSUME NEW m \in Msgs
      PROVE  Logs(m) = {} /\ Senders(m) = {}
  BY TxAssumption DEF TxInit, Logs, Senders, Places
<1>3. SentIsLogged /\ Ordered
  BY DEF TxInit, SentIsLogged, Ordered
<1>4. OncePerSender
  BY <1>2, FS_EmptySet DEF OncePerSender
<1>5. QED BY <1>1, <1>3, <1>4, Zenon DEF TxInv

\* One step per action: what the transactions and the calls know.
LEMMA BooksStep ==
    Books /\ [TxNext]_txVars => Books'
<1> SUFFICES ASSUME Books, [TxNext]_txVars PROVE Books'
  BY Zenon
<1> USE TxAssumption DEF Books, TxTypeOK, Buffers, TakenPrefix, Progress
<1>1. ASSUME NEW t \in TxTopicNames, TxCreateTopic(t)
      PROVE  Books'
  BY <1>1 DEF TxCreateTopic
<1>2. ASSUME NEW x \in Txs, BeginTransaction(x)
      PROVE  Books'
  BY <1>2 DEF BeginTransaction
<1>3. ASSUME NEW m \in Msgs, SendCheck(m)
      PROVE  Books'
  BY <1>3 DEF SendCheck
<1>4. ASSUME NEW m \in Msgs, SendAppend(m)
      PROVE  Books'
  <2>1. PICK x \in Txs : x = TxOf[m]
    BY Zenon
  <2>2. /\ buffer' = [buffer EXCEPT ![x] = Append(buffer[x], m)]
        /\ send' = [send EXCEPT ![m] = "accepted"]
        /\ send[m] = "checked"
        /\ UNCHANGED <<txTopics, log, state, call, taken, txSent>>
    BY <1>4, <2>1, Zenon DEF SendAppend
  <2>3. \A i \in DOMAIN buffer[x] : buffer[x][i] # m
    BY <2>2, Zenon
  <2>4. /\ DOMAIN buffer'[x] = 1 .. Len(buffer[x]) + 1
        /\ buffer'[x][Len(buffer[x]) + 1] = m
        /\ \A i \in 1 .. Len(buffer[x]) : buffer'[x][i] = buffer[x][i]
    BY <2>2
  <2>5. \A y \in Txs \ {x} : buffer'[y] = buffer[y]
    BY <2>2
  <2>6. TxTypeOK'
    BY <2>2
  <2>7. Buffers'
    <3> SUFFICES ASSUME NEW y \in Txs, NEW i \in DOMAIN buffer'[y]
                 PROVE  /\ TxOf[buffer'[y][i]] = y
                        /\ send'[buffer'[y][i]] = "accepted"
                        /\ \A j \in DOMAIN buffer'[y] : buffer'[y][i] = buffer'[y][j] => i = j
      BY Zenon
    <3>1. CASE y # x
      BY <2>2, <2>5, <3>1
    <3>2. CASE y = x
      <4>1. CASE i = Len(buffer[x]) + 1
        BY <2>1, <2>2, <2>3, <2>4, <3>2, <4>1
      <4>2. CASE i \in DOMAIN buffer[x]
        <5> /\ DOMAIN buffer[x] = 1 .. Len(buffer[x]) /\ Len(buffer[x]) \in Nat
            /\ \A j \in 1 .. Len(buffer[x]) : buffer[x][j] \in Msgs
          BY buffer[x] \in Seq(Msgs)
        <5>1. buffer'[x][i] = buffer[x][i] /\ buffer[x][i] \in Msgs
          BY <2>4, <4>2, Zenon
        <5>2. TxOf[buffer[x][i]] = x /\ send'[buffer[x][i]] = "accepted"
          BY <2>2, <4>2, <5>1
        <5>3. ASSUME NEW j \in DOMAIN buffer'[x], buffer'[x][i] = buffer'[x][j]
              PROVE  i = j
          <6>1. CASE j = Len(buffer[x]) + 1
            BY <2>3, <2>4, <4>2, <5>1, <5>3, <6>1, Zenon
          <6>2. CASE j \in 1 .. Len(buffer[x])
            <7>1. buffer[x][i] = buffer[x][j]
              BY <2>4, <5>1, <5>3, <6>2, Zenon
            <7>2. QED BY ONLY Buffers, x \in Txs, <4>2, <6>2, <7>1,
                              DOMAIN buffer[x] = 1 .. Len(buffer[x]), Zenon DEF Buffers
          <6>3. QED BY <2>4, <6>1, <6>2
        <5>4. QED BY <3>2, <5>1, <5>2, <5>3, Zenon
      <4>3. QED BY <2>4, <3>2, <4>1, <4>2
    <3>3. QED BY <3>1, <3>2, Zenon
  <2>8. TakenPrefix' /\ Progress'
    <3>1. \A y \in Txs : \A i \in DOMAIN buffer[y] :
              i \in DOMAIN buffer'[y] /\ buffer'[y][i] = buffer[y][i]
      BY <2>2, <2>4, <2>5
    <3>2. QED BY <2>2, <3>1
  <2>9. QED BY <2>6, <2>7, <2>8, Zenon
<1>5. ASSUME NEW k \in Commits, NEW x \in Txs, CommitStart(k, x)
      PROVE  Books'
  <2>1. /\ taken' = [taken EXCEPT ![k] = buffer[x]]
        /\ call' = [call EXCEPT ![k] = x]
        /\ UNCHANGED <<txTopics, log, buffer, send, txSent>>
        /\ state' = [state EXCEPT ![x] = "committed"]
        /\ call[k] = "todo" /\ taken[k] = <<>>
    BY <1>5, Zenon DEF CommitStart
  <2>2. txSent[k] = 0
    BY <2>1
  <2>b. buffer' = buffer
    BY <2>1, Zenon
  <2>3. TxTypeOK'
    BY <2>1, <2>2
  <2>4. Buffers'
    BY <2>1
  <2>5. TakenPrefix'
    <3> SUFFICES ASSUME NEW l \in Commits, NEW i \in DOMAIN taken'[l]
                 PROVE  /\ i \in DOMAIN buffer[TxOf[taken'[l][i]]]
                        /\ buffer[TxOf[taken'[l][i]]][i] = taken'[l][i]
                        /\ \A j \in DOMAIN taken'[l] : TxOf[taken'[l][i]] = TxOf[taken'[l][j]]
      BY <2>b
    <3>1. CASE l = k
      BY <2>1, <3>1
    <3>2. CASE l # k
      BY <2>1, <3>2
    <3>3. QED BY <3>1, <3>2, Zenon
  <2>6. Progress'
    BY <2>1
  <2>7. QED BY <2>3, <2>4, <2>5, <2>6, Zenon
<1>6. ASSUME NEW k \in Commits, CommitSend(k)
      PROVE  Books'
  <2>1. PICK m \in Msgs : m = taken[k][txSent[k] + 1]
    BY <1>6 DEF CommitSend, More
  <2>2. /\ call[k] \in Txs /\ txSent[k] < Len(taken[k])
        /\ log' = [log EXCEPT ![Place[m]] = Append(log[Place[m]], m)]
        /\ txSent' = [txSent EXCEPT ![k] = txSent[k] + 1]
        /\ UNCHANGED <<txTopics, state, buffer, send, call, taken>>
    BY <1>6, <2>1, Zenon DEF CommitSend, Committing, More, NextMsg, Sent, Logged
  <2>3. Place[m] \in Places
    BY Zenon DEF Places
  <2>4. log' \in [Places -> Seq(Msgs)]
    BY <2>2, <2>3
  <2>5. TxTypeOK'
    BY <2>2, <2>4
  <2>6. Buffers' /\ TakenPrefix'
    BY <2>2
  <2>7. Progress'
    BY <2>2
  <2>8. QED BY <2>5, <2>6, <2>7, Zenon
<1>7. ASSUME NEW k \in Commits, CommitFail(k)
      PROVE  Books'
  <2>1. /\ state' = [state EXCEPT ![call[k]] = "aborted"]
        /\ call' = [call EXCEPT ![k] = "failed"]
        /\ UNCHANGED <<txTopics, log, buffer, send, taken, txSent>>
    BY <1>7, Zenon DEF CommitFail
  <2>2. TxTypeOK'
    BY <2>1, Zenon
  <2>3. Buffers' /\ TakenPrefix'
    BY <2>1
  <2>4. Progress'
    BY <2>1
  <2>5. QED BY <2>2, <2>3, <2>4, Zenon
<1>8. ASSUME NEW k \in Commits, CommitReturn(k)
      PROVE  Books'
  <2>1. /\ call' = [call EXCEPT ![k] = "ok"] /\ ~(txSent[k] < Len(taken[k]))
        /\ UNCHANGED <<txTopics, log, state, buffer, send, taken, txSent>>
    BY <1>8, Zenon DEF CommitReturn, More
  <2>2. TxTypeOK'
    BY <2>1, Zenon
  <2>3. Buffers' /\ TakenPrefix'
    BY <2>1
  <2>4. Progress'
    BY <2>1
  <2>5. QED BY <2>2, <2>3, <2>4, Zenon
<1>9. CASE UNCHANGED txVars
  BY <1>9 DEF txVars
<1>10. QED
  <2> HIDE DEF Books
  <2>1. QED
    BY <1>1, <1>2, <1>3, <1>4, <1>5, <1>6, <1>7, <1>8, <1>9, Zenon DEF TxNext
-----------------------------------------------------------------------------
\* The places of a message in its partition are finitely many.
LEMMA LogsFinite ==
    ASSUME TxTypeOK, NEW m \in Msgs
    PROVE  /\ Logs(m) \subseteq 1 .. Len(log[Place[m]]) /\ Len(log[Place[m]]) \in Nat
           /\ IsFiniteSet(Logs(m)) /\ Cardinality(Logs(m)) \in Nat
<1>1. log[Place[m]] \in Seq(Msgs)
  BY Zenon DEF TxTypeOK, Places
<1>2. Logs(m) \subseteq 1 .. Len(log[Place[m]]) /\ Len(log[Place[m]]) \in Nat
  BY <1>1 DEF Logs
<1>3. IsFiniteSet(1 .. Len(log[Place[m]]))
  BY <1>2, FS_Interval
<1>4. QED BY <1>2, <1>3, FS_Subset, FS_CardinalityType, Zenon

\* The commits are finitely many.
LEMMA SendersFinite ==
    ASSUME NEW S \in SUBSET Commits
    PROVE  IsFiniteSet(S) /\ Cardinality(S) \in Nat
  BY FS_Subset, FS_CardinalityType, TxAssumption, Zenon

\* A message in a partition has been sent by a commit that took it.
LEMMA LoggedWasSent ==
    ASSUME TxInv, NEW m \in Msgs, Logs(m) # {}
    PROVE  Senders(m) # {}
<1>1. TxTypeOK /\ Cardinality(Logs(m)) <= Cardinality(Senders(m))
  BY Zenon DEF TxInv, Books, OncePerSender
<1>2. Cardinality(Logs(m)) \in Nat /\ Cardinality(Logs(m)) # 0
  BY <1>1, LogsFinite, FS_EmptySet, Zenon
<1>3. Cardinality(Senders(m)) # 0
  BY <1>1, <1>2, SendersFinite DEF Senders
<1>4. QED BY <1>3, FS_EmptySet, Zenon

\* Send puts a message at the end of its partition and moves no other.
LEMMA LogsGrow ==
    ASSUME TxTypeOK, NEW m \in Msgs,
           log' = [log EXCEPT ![Place[m]] = Append(log[Place[m]], m)]
    PROVE  /\ Logs(m)' = Logs(m) \cup {Len(log[Place[m]]) + 1}
           /\ \A n \in Msgs \ {m} : Logs(n)' = Logs(n)
<1>1. PICK p \in Places : p = Place[m]
  BY Zenon DEF Places
<1>2. log[p] \in Seq(Msgs) /\ Len(log[p]) \in Nat /\ DOMAIN log[p] = 1 .. Len(log[p])
  BY DEF TxTypeOK
<1>3. /\ DOMAIN log'[p] = 1 .. Len(log[p]) + 1
      /\ log'[p][Len(log[p]) + 1] = m
      /\ \A i \in 1 .. Len(log[p]) : log'[p][i] = log[p][i]
  BY <1>1, <1>2 DEF TxTypeOK
<1>4. \A q \in Places \ {p} : log'[q] = log[q]
  BY <1>1, Zenon DEF TxTypeOK
<1>5. Logs(m)' = Logs(m) \cup {Len(log[p]) + 1}
  BY <1>1, <1>2, <1>3 DEF Logs
<1>6. ASSUME NEW n \in Msgs \ {m}
      PROVE  Logs(n)' = Logs(n)
  <2>1. CASE Place[n] = p
    BY <1>2, <1>3, <2>1 DEF Logs
  <2>2. CASE Place[n] # p
    BY <1>4, <2>2, Zenon DEF Logs, Places
  <2>3. QED BY <2>1, <2>2, Zenon
<1>7. QED BY <1>1, <1>5, <1>6, Zenon

\* A step that leaves the logs and the counts of the commits alone, and shortens no buffer.
LEMMA QuietStep ==
    ASSUME TxInv, Books', log' = log, txSent' = txSent,
           \A k \in Commits : txSent[k] > 0 => taken'[k] = taken[k],
           buffer' = buffer
    PROVE  SentIsLogged' /\ OncePerSender' /\ Ordered'
<1>1. \A m \in Msgs : Logs(m)' = Logs(m)
  BY Zenon DEF Logs
<1>2. \A k \in Commits : txSent[k] \in Nat
  BY Zenon DEF TxInv, Books, TxTypeOK
<1>3. \A m \in Msgs : Senders(m)' = Senders(m)
  BY <1>2 DEF Senders
<1>4. OncePerSender'
  BY <1>1, <1>3, Zenon DEF TxInv, OncePerSender
<1>5. SentIsLogged'
  BY <1>1, <1>2 DEF TxInv, SentIsLogged
<1>6. Ordered'
  <2>1. \A a, b \in Msgs : FirstBefore(a, b)' <=> FirstBefore(a, b)
    BY <1>1, Zenon DEF FirstBefore
  <2>2. QED BY <1>1, <2>1 DEF TxInv, Ordered
<1>7. QED BY <1>4, <1>5, <1>6, Zenon

\* One step per action: what is in the partitions.
LEMMA TxStep ==
    TxInv /\ [TxNext]_txVars => TxInv'
<1> SUFFICES ASSUME TxInv, [TxNext]_txVars PROVE TxInv'
  BY Zenon
<1> Books' /\ TxTypeOK
  BY BooksStep, Zenon DEF TxInv, Books
<1>1. ASSUME log' = log, txSent' = txSent, taken' = taken, buffer' = buffer
      PROVE  TxInv'
  BY <1>1, QuietStep, Zenon DEF TxInv
<1>2. ASSUME NEW t \in TxTopicNames, TxCreateTopic(t)
      PROVE  TxInv'
  BY <1>1, <1>2, Zenon DEF TxCreateTopic
<1>3. ASSUME NEW x \in Txs, BeginTransaction(x)
      PROVE  TxInv'
  BY <1>1, <1>3, Zenon DEF BeginTransaction
<1>4. ASSUME NEW m \in Msgs, SendCheck(m)
      PROVE  TxInv'
  BY <1>1, <1>4, Zenon DEF SendCheck
<1>5. ASSUME NEW m \in Msgs, SendAppend(m)
      PROVE  TxInv'
  <2>1. /\ buffer' = [buffer EXCEPT ![TxOf[m]] = Append(buffer[TxOf[m]], m)]
        /\ log' = log /\ txSent' = txSent /\ taken' = taken /\ send[m] = "checked"
    BY <1>5, Zenon DEF SendAppend
  <2>2. \A n \in Msgs : Logs(n)' = Logs(n) /\ Senders(n)' = Senders(n)
    BY <2>1, Zenon DEF Logs, Senders
  <2>3. OncePerSender'
    BY <2>2, Zenon DEF TxInv, OncePerSender
  <2>4. SentIsLogged'
    BY <2>1, <2>2, Zenon DEF TxInv, SentIsLogged
  <2>5. Logs(m) = {}
    <3> SUFFICES ASSUME Logs(m) # {} PROVE FALSE
      BY Zenon
    <3>0. PICK k \in Commits : \E i \in 1 .. txSent[k] : taken[k][i] = m
      BY LoggedWasSent, Zenon DEF Senders
    <3>1. PICK i \in 1 .. txSent[k] : taken[k][i] = m
      BY <3>0, Zenon
    <3>2. i \in DOMAIN taken[k]
      BY DEF TxTypeOK
    <3>3. i \in DOMAIN buffer[TxOf[m]] /\ buffer[TxOf[m]][i] = m
      BY <3>1, <3>2, Zenon DEF TxInv, Books, TakenPrefix
    <3>4. send[m] = "accepted"
      BY <3>3, TxAssumption DEF TxInv, Books, Buffers
    <3>5. QED BY <2>1, <3>4, Zenon
  <2>6. Ordered'
    <3> SUFFICES ASSUME NEW a \in Msgs, NEW b \in Msgs, NEW y \in Txs,
                        NEW i \in DOMAIN buffer'[y], NEW j \in DOMAIN buffer'[y],
                        buffer'[y][i] = a, buffer'[y][j] = b, i < j,
                        Place[a] = Place[b], Logs(b)' # {}
                 PROVE  FirstBefore(a, b)'
      BY Zenon DEF Ordered
    <3>1. buffer[y] \in Seq(Msgs) /\ buffer'[y] \in Seq(Msgs) /\ TxOf[m] \in Txs
      BY TxAssumption, Zenon DEF Books, TxTypeOK
    <3>2. b # m
      BY <2>2, <2>5, Zenon
    <3>3. /\ j \in DOMAIN buffer[y] /\ i \in DOMAIN buffer[y]
          /\ buffer[y][i] = a /\ buffer[y][j] = b
      <4>1. CASE y = TxOf[m]
        <5>1. buffer'[y] = Append(buffer[y], m)
          BY <2>1, <4>1, Zenon DEF TxTypeOK
        <5>2. QED BY <3>1, <3>2, <5>1
      <4>2. CASE y # TxOf[m]
        BY <2>1, <3>1, <4>2, Zenon DEF TxTypeOK
      <4>3. QED BY <4>1, <4>2, Zenon
    <3>4. FirstBefore(a, b)
      BY <2>2, <3>3, Zenon DEF TxInv, Ordered
    <3>5. QED BY <2>2, <3>4, Zenon DEF FirstBefore
  <2>7. QED BY <2>3, <2>4, <2>6, Zenon DEF TxInv
<1>6. ASSUME NEW k \in Commits, NEW x \in Txs, CommitStart(k, x)
      PROVE  TxInv'
  <2>1. /\ log' = log /\ txSent' = txSent /\ buffer' = buffer
        /\ taken' = [taken EXCEPT ![k] = buffer[x]]
        /\ call[k] = "todo"
    BY <1>6, Zenon DEF CommitStart
  <2>2. txSent[k] = 0
    BY <2>1 DEF TxInv, Books, Progress, TxTypeOK
  <2>3. \A l \in Commits : txSent[l] > 0 => taken'[l] = taken[l]
    BY <2>1, <2>2 DEF TxTypeOK
  <2>4. QED BY <2>1, <2>3, QuietStep, Zenon DEF TxInv
<1>7. ASSUME NEW k \in Commits, CommitSend(k)
      PROVE  TxInv'
  <2>0. taken[k] \in Seq(Msgs) /\ txSent[k] \in Nat /\ txSent[k] < Len(taken[k])
    BY <1>7, Zenon DEF CommitSend, More, TxInv, Books, TxTypeOK
  <2>1. PICK m \in Msgs : m = taken[k][txSent[k] + 1]
    <3>1. taken[k][txSent[k] + 1] \in Msgs
      BY ONLY <2>0
    <3> QED
      BY <3>1, Zenon
  <2>2. /\ txSent[k] + 1 \in DOMAIN taken[k] /\ txSent[k] \in Nat
        /\ log' = [log EXCEPT ![Place[m]] = Append(log[Place[m]], m)]
        /\ txSent' = [txSent EXCEPT ![k] = txSent[k] + 1]
        /\ buffer' = buffer /\ taken' = taken
    <3>1. txSent[k] + 1 \in DOMAIN taken[k] /\ txSent[k] \in Nat
      BY ONLY <2>0
    <3>2. log' = [log EXCEPT ![Place[m]] = Append(log[Place[m]], m)]
      BY <1>7, <2>1, Zenon DEF CommitSend, NextMsg, Logged
    <3>3. txSent' = [txSent EXCEPT ![k] = txSent[k] + 1] /\ buffer' = buffer /\ taken' = taken
      BY <1>7, Zenon DEF CommitSend, Sent
    <3>4. QED BY <3>1, <3>2, <3>3, Zenon
  <2>t. taken' = taken /\ txSent[k] \in Nat
    BY <2>2, Zenon
  <2>3. /\ Logs(m)' = Logs(m) \cup {Len(log[Place[m]]) + 1}
        /\ \A n \in Msgs \ {m} : Logs(n)' = Logs(n)
    BY <2>2, LogsGrow, Zenon
  <2>4. \A n \in Msgs : Logs(n) \subseteq Logs(n)'
    BY <2>3, Zenon
  <2>5. \A l \in Commits \ {k} : txSent'[l] = txSent[l]
    BY <2>2
  <2>6. txSent'[k] = txSent[k] + 1
    BY <2>2, Books', Zenon DEF Books, TxTypeOK
  <2>7. SentIsLogged'
    <3> SUFFICES ASSUME NEW n \in Msgs, NEW l \in Commits, NEW i \in 1 .. txSent'[l],
                        taken[l][i] = n
                 PROVE  Logs(n)' # {}
      BY <2>2, Zenon DEF SentIsLogged
    <3>1. CASE n = m
      BY <2>3, <3>1, Zenon
    <3>2. CASE n # m
      <4>1. i \in 1 .. txSent[l]
        <5>1. CASE l = k
          BY <2>1, <2>6, <2>t, <3>2, <5>1
        <5>2. CASE l # k
          BY <2>5, <5>2, Zenon
        <5>3. QED BY <5>1, <5>2, Zenon
      <4>2. QED BY <2>4, <4>1, Zenon DEF TxInv, SentIsLogged
    <3>3. QED BY <3>1, <3>2, Zenon
  <2>8. OncePerSender'
    <3>1. \A n \in Msgs : Senders(n) \subseteq Senders(n)'
      <4>1. \A l \in Commits : txSent[l] \in Nat /\ txSent'[l] \in Nat /\ txSent[l] <= txSent'[l]
        BY <2>2, <2>5, <2>6 DEF TxTypeOK
      <4>2. QED BY <2>2, <4>1 DEF Senders
    <3>2. ASSUME NEW n \in Msgs \ {m}
          PROVE  Cardinality(Logs(n)') <= Cardinality(Senders(n)')
      <4>1. Cardinality(Senders(n)) <= Cardinality(Senders(n)')
        BY <3>1, SendersFinite, FS_Subset, Zenon DEF Senders
      <4>2. /\ Cardinality(Senders(n)) \in Nat /\ Cardinality(Senders(n)') \in Nat
            /\ Cardinality(Logs(n)) \in Nat
        BY SendersFinite, LogsFinite, Zenon DEF Senders
      <4>3. QED BY <2>3, <4>1, <4>2 DEF TxInv, OncePerSender
    <3>3. k \notin Senders(m)
      <4> SUFFICES ASSUME NEW i \in 1 .. txSent[k], taken[k][i] = m PROVE FALSE
        BY Zenon DEF Senders
      <4>1. i \in DOMAIN taken[k] /\ i # txSent[k] + 1
        BY <2>2 DEF TxTypeOK
      <4>2. /\ i \in DOMAIN buffer[TxOf[m]] /\ buffer[TxOf[m]][i] = m
            /\ txSent[k] + 1 \in DOMAIN buffer[TxOf[m]] /\ buffer[TxOf[m]][txSent[k] + 1] = m
        <5>1. TakenPrefix
          BY Zenon DEF TxInv, Books
        <5>2. i \in DOMAIN buffer[TxOf[m]] /\ buffer[TxOf[m]][i] = m
          BY ONLY <4>1, <5>1, taken[k][i] = m, k \in Commits, Zenon DEF TakenPrefix
        <5>3. txSent[k] + 1 \in DOMAIN buffer[TxOf[m]] /\ buffer[TxOf[m]][txSent[k] + 1] = m
          BY ONLY <2>1, <2>2, <5>1, k \in Commits, Zenon DEF TakenPrefix
        <5>4. QED BY <5>2, <5>3, Zenon
      <4>3. QED BY <4>1, <4>2, TxAssumption DEF TxInv, Books, Buffers
    <3>4. k \in Senders(m)'
      BY <2>1, <2>6, <2>t DEF Senders
    <3>5. Cardinality(Logs(m)') <= Cardinality(Senders(m)')
      <4>1. IsFiniteSet(Logs(m)) /\ IsFiniteSet(Senders(m)) /\ IsFiniteSet(Senders(m)')
        BY LogsFinite, SendersFinite, Zenon DEF Senders
      <4>2. IsFiniteSet(Logs(m)') /\ Cardinality(Logs(m)') <= Cardinality(Logs(m)) + 1
        <5>1. PICK e : Logs(m)' = Logs(m) \cup {e}
          BY <2>3, Zenon
        <5>2. /\ IsFiniteSet(Logs(m) \cup {e})
              /\ Cardinality(Logs(m) \cup {e})
                    = IF e \in Logs(m) THEN Cardinality(Logs(m)) ELSE Cardinality(Logs(m)) + 1
          BY <4>1, FS_AddElement, Zenon
        <5>3. Cardinality(Logs(m)) \in Nat
          BY <4>1, FS_CardinalityType, Zenon
        <5>4. QED BY <5>1, <5>2, <5>3
      <4>3. Cardinality(Senders(m) \cup {k}) = Cardinality(Senders(m)) + 1
        BY <3>3, <4>1, FS_AddElement, Zenon
      <4>4. Cardinality(Senders(m) \cup {k}) <= Cardinality(Senders(m)')
        <5>1. Senders(m) \cup {k} \subseteq Senders(m)'
          BY <3>1, <3>4, Zenon
        <5>2. QED BY <4>1, <5>1, FS_Subset, Zenon
      <4>5. Cardinality(Logs(m)) <= Cardinality(Senders(m))
        BY Zenon DEF TxInv, OncePerSender
      <4>6. /\ Cardinality(Logs(m)) \in Nat /\ Cardinality(Senders(m)) \in Nat
            /\ Cardinality(Senders(m)') \in Nat /\ Cardinality(Logs(m)') \in Nat
        BY <4>1, <4>2, FS_CardinalityType, Zenon
      <4>7. QED BY <4>2, <4>3, <4>4, <4>5, <4>6
    <3>6. QED BY <3>2, <3>5, Zenon DEF OncePerSender
  <2>9. Ordered'
    <3> SUFFICES ASSUME NEW a \in Msgs, NEW b \in Msgs, NEW y \in Txs,
                        NEW i \in DOMAIN buffer[y], NEW j \in DOMAIN buffer[y],
                        buffer[y][i] = a, buffer[y][j] = b, i < j,
                        Place[a] = Place[b], Logs(b)' # {}
                 PROVE  FirstBefore(a, b)'
      BY <2>2, Zenon DEF Ordered
    <3>3. Logs(a) \subseteq 1 .. Len(log[Place[a]]) /\ Len(log[Place[a]]) \in Nat
      BY LogsFinite, Zenon
    <3>4. CASE Logs(b) # {}
      <4>1. FirstBefore(a, b)
        BY <3>4, Zenon DEF TxInv, Ordered
      <4>2. PICK l \in Logs(a) : \A n \in Logs(b) : l < n
        BY <4>1, Zenon DEF FirstBefore
      <4>3. l \in Logs(a)'
        BY <2>4, Zenon
      <4>4. \A n \in Logs(b)' : l < n
        <5>1. CASE b = m
          <6>1. l < Len(log[Place[m]]) + 1
            BY <3>3, <5>1
          <6>2. QED BY <2>3, <4>2, <5>1, <6>1, Zenon
        <5>2. CASE b # m
          BY <2>3, <4>2, <5>2, Zenon
        <5>3. QED BY <5>1, <5>2, Zenon
      <4>5. QED BY <4>3, <4>4, Zenon DEF FirstBefore
    <3>5. CASE Logs(b) = {}
      <4>1. b = m
        BY <2>3, <3>5, Zenon
      <4>2. y = TxOf[m]
        BY <4>1 DEF TxInv, Books, Buffers
      <4>3. j = txSent[k] + 1
        <5>1. txSent[k] + 1 \in DOMAIN buffer[y] /\ buffer[y][txSent[k] + 1] = m
          BY <2>1, <2>2, <4>2, Zenon DEF TxInv, Books, TakenPrefix
        <5>2. QED BY <4>1, <5>1 DEF TxInv, Books, Buffers
      <4>4. i \in 1 .. txSent[k] /\ i \in DOMAIN taken[k]
        BY <2>2, <4>3 DEF TxTypeOK
      <4>5. taken[k][i] = a
        <5>0. TakenPrefix
          BY Zenon DEF TxInv, Books
        <5>1. TxOf[taken[k][i]] = y
          BY ONLY <2>1, <2>2, <4>2, <4>4, <5>0, k \in Commits, Zenon DEF TakenPrefix
        <5>2. QED BY <4>4, <5>1, Zenon DEF TxInv, Books, TakenPrefix
      <4>6. PICK l \in Logs(a) : TRUE
        BY <4>4, <4>5, Zenon DEF TxInv, SentIsLogged
      <4>7. l \in Logs(a)' /\ l < Len(log[Place[m]]) + 1
        BY <2>4, <3>3, <4>1
      <4>8. Logs(b)' = {Len(log[Place[m]]) + 1}
        BY <2>3, <3>5, <4>1, Zenon
      <4>9. QED BY <4>7, <4>8, Zenon DEF FirstBefore
    <3>6. QED BY <3>4, <3>5, Zenon
  <2>10. QED BY <2>7, <2>8, <2>9, Zenon DEF TxInv
<1>8. ASSUME NEW k \in Commits, CommitFail(k) \/ CommitReturn(k)
      PROVE  TxInv'
  BY <1>1, <1>8, Zenon DEF CommitFail, CommitReturn
<1>9. CASE UNCHANGED txVars
  BY <1>1, <1>9, Zenon DEF txVars
<1>10. QED
  BY <1>2, <1>3, <1>4, <1>5, <1>6, <1>7, <1>8, <1>9, Zenon DEF TxNext

\* A commit that returns nil has sent everything it found in the buffer, no message is in its
\* partition more often than commits took it, and two messages of a transaction first appear
\* in the order they were sent: for any instance and any interleaving of the commits.
THEOREM CommitsKeepTheLog ==
    TxSpec => []CommittedLog
<1>1. TxInit => TxInv
  BY TxInitially, Zenon
<1>2. TxInv /\ [TxNext]_txVars => TxInv'
  BY TxStep, Zenon
<1>3. TxInv => CommittedLog
  <2> SUFFICES ASSUME TxInv PROVE CommittedLog
    BY Zenon
  <2>1. ASSUME NEW m \in Msgs
        PROVE  Cardinality(Logs(m)) <= Cardinality(Attempts(m))
    <3>1. Senders(m) \subseteq Attempts(m)
      BY DEF Senders, Attempts, TxInv, Books, TxTypeOK
    <3>2. Cardinality(Senders(m)) <= Cardinality(Attempts(m))
      BY <3>1, SendersFinite, FS_Subset, Zenon DEF Attempts
    <3>3. /\ Cardinality(Senders(m)) \in Nat /\ Cardinality(Attempts(m)) \in Nat
          /\ Cardinality(Logs(m)) \in Nat
      BY SendersFinite, LogsFinite, Zenon DEF Senders, Attempts, TxInv, Books
    <3>4. QED BY <3>2, <3>3 DEF TxInv, OncePerSender
  <2>2. CommitIsComplete
    <3> SUFFICES ASSUME NEW k \in Commits, call[k] = "ok", NEW i \in DOMAIN taken[k]
                 PROVE  Logs(taken[k][i]) # {}
      BY Zenon DEF CommitIsComplete
    <3>1. i \in 1 .. txSent[k] /\ taken[k][i] \in Msgs
      BY DEF TxInv, Books, Progress, TxTypeOK
    <3>2. QED BY <3>1, Zenon DEF TxInv, SentIsLogged
  <2>3. FirstSentInOrder
    <3> SUFFICES ASSUME NEW x \in Txs, NEW i \in DOMAIN buffer[x], NEW j \in DOMAIN buffer[x],
                        i < j, Place[buffer[x][i]] = Place[buffer[x][j]],
                        Logs(buffer[x][j]) # {}
                 PROVE  \E l \in Logs(buffer[x][i]) : \A n \in Logs(buffer[x][j]) : l < n
      BY Zenon DEF FirstSentInOrder
    <3>1. buffer[x][i] \in Msgs /\ buffer[x][j] \in Msgs
      BY DEF TxInv, Books, TxTypeOK
    <3>2. FirstBefore(buffer[x][i], buffer[x][j])
      BY <3>1, Zenon DEF TxInv, Ordered
    <3>3. QED BY <3>2, Zenon DEF FirstBefore
  <2>4. QED BY <2>1, <2>2, <2>3, Zenon DEF CommittedLog, OncePerCommit
<1>4. QED BY <1>1, <1>2, <1>3, PTL DEF TxSpec
-----------------------------------------------------------------------------
(***************************************************************************)
(* The three buses together: a step of one leaves the other two alone.     *)
(***************************************************************************)

\* A step of the composition is a step of each bus, or leaves it alone.
LEMMA BusSteps ==
    [BusNext]_busVars =>
        /\ [GroupNext]_groupVars /\ [TxNext]_txVars /\ [RetryNext]_retryVars
        /\ UNCHANGED part
BY Zenon DEF BusNext, busVars, NotGroup, NotTx, NotRetry

\* Assignments settle on active members, evenly, in every behaviour of the three buses, and
\* every variable keeps its type.
THEOREM AssignmentsSettle == BusSpec => []SettledAssignment
<1> DEFINE PartOK == part \in {"partitioned", "exactlyOnce", "faultTolerant"}
           RetryInv == RetryTypeOK /\ NoMessageLost /\ PositionsSettled
           Inv == PartOK /\ GroupInv /\ TxInv /\ RetryInv
<1>1. BusInit => Inv
  BY GroupInitially, TxInitially, TypeInit, SettledInit, Zenon DEF BusInit
<1>2. Inv /\ [BusNext]_busVars => Inv'
  <2> SUFFICES ASSUME Inv, [BusNext]_busVars PROVE Inv'
    BY Zenon
  <2>1. /\ [GroupNext]_groupVars /\ [TxNext]_txVars /\ [RetryNext]_retryVars
        /\ UNCHANGED part
    BY BusSteps, Zenon
  <2>2. PartOK'
    BY <2>1, Zenon
  <2>3. GroupInv'
    BY <2>1, GroupStep, Zenon
  <2>4. TxInv'
    BY <2>1, TxStep, Zenon
  <2>5. RetryInv'
    BY <2>1, TypeStep, SettledStep, Zenon
  <2> QED
    BY <2>2, <2>3, <2>4, <2>5, Zenon
<1>3. Inv => SettledAssignment
  BY GroupRight, Zenon DEF TxInv, Books, SettledAssignment, BusTypeOK
<1> HIDE DEF Inv
<1>4. BusSpec => BusInit /\ [][BusNext]_busVars
  BY PTL DEF BusSpec
<1> QED
  BY <1>1, <1>2, <1>3, <1>4, PTL

\* What CommitsKeepTheLog says of the transactional bus holds beside the other two.
THEOREM BusKeepsTheLog == BusSpec => []CommittedLog
<1>1. BusInit => TxInit
  BY Zenon DEF BusInit
<1>2. [BusNext]_busVars => [TxNext]_txVars
  BY BusSteps, Zenon
<1>3. BusSpec => BusInit /\ [][BusNext]_busVars
  BY PTL DEF BusSpec
<1> QED
  BY <1>1, <1>2, <1>3, CommitsKeepTheLog, PTL DEF TxSpec

\* What ConsumerLosesNothing says of the fault-tolerant bus holds beside the other two.
THEOREM BusLosesNothing == BusSpec => []NoMessageLost
<1>1. BusInit => RetryInit
  BY Zenon DEF BusInit
<1>2. [BusNext]_busVars => [RetryNext]_retryVars
  BY BusSteps, Zenon
<1>3. BusSpec => BusInit /\ [][BusNext]_busVars
  BY PTL DEF BusSpec
<1> QED
  BY <1>1, <1>2, <1>3, ConsumerLosesNothing, PTL DEF RetrySpec
=============================================================================
