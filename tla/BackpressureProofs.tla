------------------------- MODULE BackpressureProofs --------------------------
(***************************************************************************)
(* Theorems about the three ways of challenge 11 to hold back a producer,  *)
(* for any number of workers and requests and any sizes.                   *)
(***************************************************************************)
EXTENDS Backpressure, FiniteSetTheorems, TLAPS

\* What the provers know of sequences, stated once for the steps that need it.
LEMMA LenProperties ==
    ASSUME NEW S, NEW seq \in Seq(S)
    PROVE  Len(seq) \in Nat /\ seq \in [1 .. Len(seq) -> S] /\ DOMAIN seq = 1 .. Len(seq)
OBVIOUS

LEMMA ElementOfSeq ==
    ASSUME NEW S, NEW seq \in Seq(S), NEW i \in 1 .. Len(seq) PROVE seq[i] \in S
OBVIOUS

LEMMA EmptySeq ==
    ASSUME NEW S
    PROVE  /\ <<>> \in Seq(S) /\ Len(<<>>) = 0
           /\ \A seq \in Seq(S) : seq # <<>> => Len(seq) \in Nat \ {0}
OBVIOUS

LEMMA AppendProperties ==
    ASSUME NEW S, NEW seq \in Seq(S), NEW e \in S
    PROVE  /\ Append(seq, e) \in Seq(S) /\ Append(seq, e) # <<>>
           /\ Len(Append(seq, e)) = Len(seq) + 1 /\ Append(seq, e)[Len(seq) + 1] = e
           /\ \A i \in 1 .. Len(seq) : Append(seq, e)[i] = seq[i]
OBVIOUS

LEMMA HeadTailProperties ==
    ASSUME NEW S, NEW seq \in Seq(S), seq # <<>>
    PROVE  /\ Head(seq) \in S /\ Tail(seq) \in Seq(S) /\ Len(Tail(seq)) = Len(seq) - 1
           /\ \A i \in 1 .. Len(Tail(seq)) : Tail(seq)[i] = seq[i + 1]
OBVIOUS

LEMMA ConcatProperties ==
    ASSUME NEW S, NEW a \in Seq(S), NEW b \in Seq(S)
    PROVE  /\ a \o b \in Seq(S) /\ Len(a \o b) = Len(a) + Len(b)
           /\ \A i \in 1 .. Len(a) + Len(b) :
                 (a \o b)[i] = IF i <= Len(a) THEN a[i] ELSE b[i - Len(a)]
OBVIOUS

LEMMA SubSeqProperties ==
    ASSUME NEW S, NEW seq, NEW m \in Int, NEW n \in Int, \A i \in m .. n : seq[i] \in S
    PROVE  /\ SubSeq(seq, m, n) \in Seq(S)
           /\ Len(SubSeq(seq, m, n)) = IF m <= n THEN n - m + 1 ELSE 0
           /\ \A i \in 1 .. n - m + 1 : SubSeq(seq, m, n)[i] = seq[m + i - 1]
OBVIOUS

LEMMA SubSeqFull == ASSUME NEW S, NEW seq \in Seq(S) PROVE SubSeq(seq, 1, Len(seq)) = seq
OBVIOUS

\* The members of S whose place, by f, is in P.
At(f, S, P) == {x \in S : f[x] \in P}

\* How many are at the places P when one of them moves: one more, one less, or as before.
LEMMA OneMoves ==
    ASSUME NEW S, IsFiniteSet(S), NEW P, NEW f, NEW g,
           NEW w \in S, \A x \in S \ {w} : g[x] = f[x]
    PROVE  /\ Cardinality(At(f, S, P)) \in Nat /\ Cardinality(At(g, S, P)) \in Nat
           /\ Cardinality(At(g, S, P)) <= Cardinality(S)
           /\ f[w] \notin P /\ g[w] \in P => Cardinality(At(g, S, P)) = Cardinality(At(f, S, P)) + 1
           /\ f[w] \in P /\ g[w] \notin P => Cardinality(At(g, S, P)) = Cardinality(At(f, S, P)) - 1
           /\ (f[w] \in P <=> g[w] \in P) => Cardinality(At(g, S, P)) = Cardinality(At(f, S, P))
<1>1. /\ IsFiniteSet(At(f, S, P)) /\ IsFiniteSet(At(g, S, P))
      /\ Cardinality(At(g, S, P)) <= Cardinality(S)
  BY FS_Subset, Zenon DEF At
<1>2. Cardinality(At(f, S, P)) \in Nat /\ Cardinality(At(g, S, P)) \in Nat
  BY <1>1, FS_CardinalityType, Zenon
<1>3. ASSUME f[w] \notin P, g[w] \in P
      PROVE  Cardinality(At(g, S, P)) = Cardinality(At(f, S, P)) + 1
  <2>1. At(g, S, P) = At(f, S, P) \cup {w} /\ w \notin At(f, S, P)
    BY <1>3 DEF At
  <2> QED
    BY <1>1, <2>1, FS_AddElement, Zenon
<1>4. ASSUME f[w] \in P, g[w] \notin P
      PROVE  Cardinality(At(g, S, P)) = Cardinality(At(f, S, P)) - 1
  <2>1. At(g, S, P) = At(f, S, P) \ {w} /\ w \in At(f, S, P)
    BY <1>4 DEF At
  <2> QED
    BY <1>1, <2>1, FS_RemoveElement, Zenon
<1>5. ASSUME f[w] \in P <=> g[w] \in P PROVE At(g, S, P) = At(f, S, P)
  BY <1>5 DEF At
<1> QED
  BY <1>1, <1>2, <1>3, <1>4, <1>5, Zenon

\* A sequence is one of what its elements are.
LEMMA SeqNarrows ==
    ASSUME NEW S, NEW T, NEW seq \in Seq(T), \A i \in 1 .. Len(seq) : seq[i] \in S
    PROVE  seq \in Seq(S)
<1>1. 1 \in Int /\ Len(seq) \in Int
  BY LenProperties
<1>2. SubSeq(seq, 1, Len(seq)) \in Seq(S)
  BY <1>1, SubSeqProperties, Zenon
<1> QED
  BY <1>2, SubSeqFull, Zenon
-----------------------------------------------------------------------------
(***************************************************************************)
(* The pull-based pipeline.                                                *)
(***************************************************************************)

\* Workers that hold a slot, and workers that are on their way to a task.
Holding == At(workerPc, Workers, {"process", "send", "release"})

Ahead == At(workerPc, Workers, {"check", "pull", "process"})

PullTypes ==
    /\ inflight \in Int
    /\ taskID \in Nat
    /\ results \in Seq(Nat) /\ Len(results) <= capacity
    /\ open \in BOOLEAN /\ done \in BOOLEAN /\ consumer \in BOOLEAN
    /\ workerPc \in [Workers -> {"loop", "check", "pull", "process", "send", "release", "returned"}]
    /\ task \in [Workers -> Nat]

\* A task is in the hands of the worker that pulled it, until it gives its slot back.
TasksApart ==
    /\ \A w \in Workers : task[w] <= taskID
    /\ \A w \in Workers : task[w] # 0 => workerPc[w] \in {"send", "release"}
    /\ \A v, w \in Workers : v # w /\ task[v] # 0 => task[v] # task[w]
    /\ \A i \in 1 .. Len(results) : results[i] <= taskID

PullInv ==
    /\ PullTypes
    /\ inflight = Cardinality(Holding)
    /\ taskID + Cardinality(Ahead) <= MaxTasks + Cardinality(Workers)
    /\ TasksApart
    /\ ~open => \A w \in Workers : workerPc[w] = "returned"

LEMMA PullInitially == PullInit => PullInv
<1> SUFFICES ASSUME PullInit PROVE PullInv
  BY Zenon
<1> USE FlowAssumption DEF PullInit
<1>1. PullTypes
  <2>1. results \in Seq(Nat) /\ Len(results) = 0
    OBVIOUS
  <2>2. /\ workerPc \in [Workers -> {"loop", "check", "pull", "process", "send", "release", "returned"}]
        /\ task \in [Workers -> Nat]
    BY ONLY PullInit, Zenon DEF PullInit
  <2>3. inflight \in Int /\ taskID \in Nat
    OBVIOUS
  <2>4. open \in BOOLEAN /\ done \in BOOLEAN /\ consumer \in BOOLEAN
    BY ONLY PullInit, Zenon DEF PullInit
  <2>5. Len(results) <= capacity
    BY <2>1
  <2> QED
    BY ONLY <2>1, <2>2, <2>3, <2>4, <2>5, Zenon DEF PullTypes
<1>2. Holding = {} /\ Ahead = {}
  BY Zenon DEF Holding, Ahead, At
<1>3. Cardinality(Holding) = 0 /\ Cardinality(Ahead) = 0 /\ Cardinality(Workers) \in Nat
  BY <1>2, FS_EmptySet, FS_CardinalityType, Zenon
<1>4. TasksApart
  BY DEF TasksApart
<1> QED
  BY <1>1, <1>3, <1>4 DEF PullInv

\* What a move of one worker does to the two counts.
LEMMA WorkerMoves ==
    ASSUME PullTypes, NEW w \in Workers, NEW from, NEW to, PullGoto(w, from, to)
    PROVE  /\ Cardinality(Workers) \in Nat
           /\ Cardinality(Holding) \in Nat /\ Cardinality(Holding') \in Nat
           /\ from \notin {"process", "send", "release"} /\ to \in {"process", "send", "release"}
                 => Cardinality(Holding') = Cardinality(Holding) + 1
           /\ from \in {"process", "send", "release"} /\ to \notin {"process", "send", "release"}
                 => Cardinality(Holding') = Cardinality(Holding) - 1
           /\ (from \in {"process", "send", "release"} <=> to \in {"process", "send", "release"})
                 => Cardinality(Holding') = Cardinality(Holding)
           /\ Cardinality(Ahead) \in Nat /\ Cardinality(Ahead') \in Nat
           /\ Cardinality(Ahead') <= Cardinality(Workers)
           /\ from \in {"check", "pull", "process"} /\ to \notin {"check", "pull", "process"}
                 => Cardinality(Ahead') = Cardinality(Ahead) - 1
           /\ (from \in {"check", "pull", "process"} <=> to \in {"check", "pull", "process"})
                 => Cardinality(Ahead') = Cardinality(Ahead)
<1>1. IsFiniteSet(Workers)
  BY FlowAssumption, Zenon
<1>2. /\ workerPc[w] = from /\ workerPc'[w] = to
      /\ \A x \in Workers \ {w} : workerPc'[x] = workerPc[x]
  BY Zenon DEF PullGoto, PullTypes
<1>3. /\ Holding = At(workerPc, Workers, {"process", "send", "release"})
      /\ Ahead = At(workerPc, Workers, {"check", "pull", "process"})
      /\ Holding' = At(workerPc', Workers, {"process", "send", "release"})
      /\ Ahead' = At(workerPc', Workers, {"check", "pull", "process"})
  BY Zenon DEF Holding, Ahead, At
<1>4. /\ Cardinality(Holding) \in Nat /\ Cardinality(Holding') \in Nat
      /\ from \notin {"process", "send", "release"} /\ to \in {"process", "send", "release"}
            => Cardinality(Holding') = Cardinality(Holding) + 1
      /\ from \in {"process", "send", "release"} /\ to \notin {"process", "send", "release"}
            => Cardinality(Holding') = Cardinality(Holding) - 1
      /\ (from \in {"process", "send", "release"} <=> to \in {"process", "send", "release"})
            => Cardinality(Holding') = Cardinality(Holding)
  BY ONLY <1>1, <1>2, <1>3, OneMoves
<1>5. /\ Cardinality(Ahead) \in Nat /\ Cardinality(Ahead') \in Nat
      /\ Cardinality(Ahead') <= Cardinality(Workers)
      /\ from \in {"check", "pull", "process"} /\ to \notin {"check", "pull", "process"}
            => Cardinality(Ahead') = Cardinality(Ahead) - 1
      /\ (from \in {"check", "pull", "process"} <=> to \in {"check", "pull", "process"})
            => Cardinality(Ahead') = Cardinality(Ahead)
  BY ONLY <1>1, <1>2, <1>3, OneMoves
<1> QED
  BY <1>1, <1>4, <1>5, FS_CardinalityType, Zenon

LEMMA PullTypesStep == PullTypes /\ PullNext => PullTypes'
<1> SUFFICES ASSUME PullTypes, PullNext PROVE PullTypes'
  BY Zenon
<1> USE DEF PullTypes
<1>1. ASSUME NEW w \in Workers, Loop(w) \/ Check(w) \/ Pull(w) \/ SendTimeout(w) PROVE PullTypes'
  <2>1. workerPc' \in [Workers -> {"loop", "check", "pull", "process", "send", "release", "returned"}]
    BY <1>1, Zenon DEF Loop, Check, Pull, SendTimeout, PullGoto
  <2>2. inflight' \in Int
    BY <1>1 DEF Loop, Check, Pull, SendTimeout
  <2> QED
    BY <1>1, <2>1, <2>2, Zenon DEF Loop, Check, Pull, SendTimeout
<1>2. ASSUME NEW w \in Workers, Generate(w) \/ Release(w) PROVE PullTypes'
  <2>1. workerPc' \in [Workers -> {"loop", "check", "pull", "process", "send", "release", "returned"}]
    BY <1>2, Zenon DEF Generate, Release, PullGoto
  <2>2. inflight' \in Int /\ taskID' \in Nat
    BY <1>2 DEF Generate, Release
  <2>3. task' \in [Workers -> Nat]
    BY <1>2 DEF Generate, Release
  <2> QED
    BY <1>2, <2>1, <2>2, <2>3, Zenon DEF Generate, Release
<1>3. ASSUME NEW w \in Workers, SendResult(w) PROVE PullTypes'
  <2>1. results' \in Seq(Nat) /\ Len(results') = Len(results) + 1
    BY <1>3 DEF SendResult
  <2> QED
    BY <1>3, <2>1, FlowAssumption DEF SendResult, PullGoto
<1>4. CASE Consume
  <2>1. results' \in Seq(Nat) /\ Len(results') = Len(results) - 1
    BY <1>4 DEF Consume
  <2> QED
    BY <1>4, <2>1, FlowAssumption DEF Consume
<1>5. CASE ConsumerReturns \/ Timeout \/ CloseResults
  BY <1>5, Zenon DEF ConsumerReturns, Timeout, CloseResults
<1> QED
  BY <1>1, <1>2, <1>3, <1>4, <1>5, Zenon DEF PullNext, Work

\* The counter follows the workers that hold a slot, and the tasks pulled those ahead.
LEMMA CountsStep ==
    ASSUME PullInv, PullNext
    PROVE  /\ inflight' = Cardinality(Holding')
           /\ taskID' + Cardinality(Ahead') <= MaxTasks + Cardinality(Workers)
<1> DEFINE Kept == /\ inflight' = Cardinality(Holding')
                   /\ taskID' + Cardinality(Ahead') <= MaxTasks + Cardinality(Workers)
<1>0. MaxTasks \in Nat /\ taskID \in Nat /\ PullTypes
  BY FlowAssumption, Zenon DEF PullInv, PullTypes
<1>1. ASSUME NEW w \in Workers, Loop(w) PROVE Kept
  <2>1. PullGoto(w, "loop", IF done THEN "returned" ELSE "check")
    BY <1>1, Zenon DEF Loop
  <2>2. UNCHANGED <<inflight, taskID>> /\ (~done => taskID < MaxTasks)
    BY <1>1, Zenon DEF Loop
  <2>3. CASE done
    BY <1>0, <2>1, <2>2, <2>3, WorkerMoves DEF PullInv
  <2>4. CASE ~done
    BY <1>0, <2>1, <2>2, <2>4, WorkerMoves DEF PullInv
  <2> QED
    BY <2>3, <2>4, Zenon
<1>2. ASSUME NEW w \in Workers, Check(w) PROVE Kept
  <2>1. PICK to \in {"pull", "loop"} : PullGoto(w, "check", to)
    BY <1>2, Zenon DEF Check
  <2>2. UNCHANGED <<inflight, taskID>>
    BY <1>2, Zenon DEF Check
  <2> QED
    BY <1>0, <2>1, <2>2, WorkerMoves DEF PullInv
<1>3. ASSUME NEW w \in Workers, Pull(w) PROVE Kept
  BY <1>0, <1>3, WorkerMoves DEF Pull, PullInv
<1>4. ASSUME NEW w \in Workers, Generate(w) PROVE Kept
  BY <1>0, <1>4, WorkerMoves DEF Generate, PullInv
<1>5. ASSUME NEW w \in Workers, SendResult(w) \/ SendTimeout(w) PROVE Kept
  BY <1>0, <1>5, WorkerMoves DEF SendResult, SendTimeout, PullInv
<1>6. ASSUME NEW w \in Workers, Release(w) PROVE Kept
  BY <1>0, <1>6, WorkerMoves DEF Release, PullInv
<1>7. CASE Consume \/ ConsumerReturns \/ Timeout \/ CloseResults
  <2>1. UNCHANGED <<inflight, taskID, workerPc>>
    BY <1>7, Zenon DEF Consume, ConsumerReturns, Timeout, CloseResults
  <2> QED
    BY <2>1, Zenon DEF PullInv, Holding, Ahead, At
<1> QED
  BY <1>1, <1>2, <1>3, <1>4, <1>5, <1>6, <1>7, Zenon DEF PullNext, Work

\* A task is generated once, and forgotten when the slot is given back.
LEMMA TasksStep == ASSUME PullTypes, TasksApart, PullNext PROVE TasksApart'
<1> USE DEF PullTypes, TasksApart
<1>1. ASSUME NEW w \in Workers, Loop(w) \/ Check(w) \/ Pull(w) \/ SendTimeout(w) PROVE TasksApart'
  BY <1>1, Zenon DEF Loop, Check, Pull, SendTimeout, PullGoto
<1>2. ASSUME NEW w \in Workers, Generate(w) PROVE TasksApart'
  BY <1>2 DEF Generate, PullGoto
<1>3. ASSUME NEW w \in Workers, Release(w) PROVE TasksApart'
  BY <1>3 DEF Release, PullGoto
<1>4. ASSUME NEW w \in Workers, SendResult(w) PROVE TasksApart'
  <2>1. \A i \in 1 .. Len(results') : results'[i] <= taskID
    BY <1>4 DEF SendResult
  <2> QED
    BY <1>4, <2>1, Zenon DEF SendResult, PullGoto
<1>5. CASE Consume
  <2>1. \A i \in 1 .. Len(results') : results'[i] = results[i + 1] /\ i + 1 \in 1 .. Len(results)
    BY <1>5 DEF Consume
  <2> QED
    BY <1>5, <2>1, Zenon DEF Consume
<1>6. CASE ConsumerReturns \/ Timeout \/ CloseResults
  BY <1>6, Zenon DEF ConsumerReturns, Timeout, CloseResults
<1> QED
  BY <1>1, <1>2, <1>3, <1>4, <1>5, <1>6, Zenon DEF PullNext, Work

LEMMA PullStep == PullInv /\ [PullNext]_pullVars => PullInv'
<1> SUFFICES ASSUME PullInv, [PullNext]_pullVars PROVE PullInv'
  BY Zenon
<1>1. CASE UNCHANGED pullVars
  BY <1>1, Zenon DEF pullVars, PullInv, PullTypes, Holding, Ahead, At, TasksApart
<1>2. CASE PullNext
  <2>1. PullTypes' /\ TasksApart'
    BY <1>2, PullTypesStep, TasksStep, Zenon DEF PullInv
  <2>2. /\ inflight' = Cardinality(Holding')
        /\ taskID' + Cardinality(Ahead') <= MaxTasks + Cardinality(Workers)
    BY <1>2, CountsStep, Zenon
  <2>3. (~open => \A w \in Workers : workerPc[w] = "returned")'
    BY <1>2, Zenon DEF PullInv, PullTypes, PullNext, Work, Loop, Check, Pull, Generate, SendResult,
                SendTimeout, Release, PullGoto, Consume, ConsumerReturns, Timeout, CloseResults
  <2> QED
    BY <2>1, <2>2, <2>3, Zenon DEF PullInv
<1> QED
  BY <1>1, <1>2, Zenon

\* The invariant says what the run checks of the pipeline.
LEMMA PullRight == PullInv => PullTypeOK /\ InflightExact /\ ClosedWhenIdle
<1> SUFFICES ASSUME PullInv PROVE PullTypeOK /\ InflightExact /\ ClosedWhenIdle
  BY Zenon
<1>1. /\ Cardinality(Workers) \in Nat /\ Cardinality(Holding) \in Nat /\ Cardinality(Ahead) \in Nat
      /\ Cardinality(Holding) <= Cardinality(Workers)
  BY FlowAssumption, FS_Subset, FS_CardinalityType, Zenon DEF Holding, Ahead, At
<1>2. inflight \in 0 .. Cardinality(Workers) /\ taskID \in 0 .. MaxTasks + Cardinality(Workers)
  BY <1>1, FlowAssumption DEF PullInv, PullTypes
<1>3. task \in [Workers -> 0 .. MaxTasks + Cardinality(Workers)]
  <2>1. \A w \in Workers : task[w] \in 0 .. MaxTasks + Cardinality(Workers)
    BY <1>1, <1>2, FlowAssumption DEF PullInv, PullTypes, TasksApart
  <2>2. task \in [Workers -> Nat]
    BY Zenon DEF PullInv, PullTypes
  <2> QED
    BY ONLY <2>1, <2>2, Zenon
<1>4. results \in Seq(0 .. MaxTasks + Cardinality(Workers))
  <2>1. results \in Seq(Nat) /\ \A i \in 1 .. Len(results) : results[i] <= taskID
    BY Zenon DEF PullInv, PullTypes, TasksApart
  <2>2. \A i \in 1 .. Len(results) : results[i] \in Nat
    BY ONLY <2>1, ElementOfSeq, Zenon
  <2>3. \A i \in 1 .. Len(results) : results[i] \in 0 .. MaxTasks + Cardinality(Workers)
    <3>1. MaxTasks + Cardinality(Workers) \in Nat
      BY <1>1, FlowAssumption
    <3> QED
      BY ONLY <1>2, <2>1, <2>2, <3>1
  <2> QED
    BY <2>1, <2>3, SeqNarrows, Zenon
<1>5. PullTypeOK
  BY <1>2, <1>3, <1>4, Zenon DEF PullTypeOK, PullInv, PullTypes
<1>6. InflightExact
  BY Zenon DEF InflightExact, PullInv, Holding, At, TasksApart
<1>7. ClosedWhenIdle
  <2> SUFFICES ASSUME ~open PROVE inflight = 0 /\ \A w \in Workers : workerPc[w] = "returned"
    BY Zenon DEF ClosedWhenIdle
  <2>1. \A w \in Workers : workerPc[w] = "returned"
    BY Zenon DEF PullInv
  <2>2. Holding = {}
    BY <2>1, Zenon DEF Holding, At
  <2> QED
    BY <2>1, <2>2, FS_EmptySet, Zenon DEF PullInv
<1> QED
  BY <1>5, <1>6, <1>7, Zenon
-----------------------------------------------------------------------------
(***************************************************************************)
(* The token bucket and the circuit breaker.                               *)
(***************************************************************************)

LimitedTypes ==
    /\ tokens \in 0 .. maxTokens
    /\ refills \in 0 .. MaxRefills
    /\ failures \in Nat
    /\ successCount \in Nat
    /\ state \in {"closed", "open", "half-open"}
    /\ sinceFail \in 0 .. resetTimeout + 1
    /\ requestPc \in [Requests -> {"idle", "check", "tohalf", "token", "work", "stamp", "count", "open",
                            "ok", "add", "enough", "close", "clear", "clear2", "returned"}]
    /\ failed \subseteq Requests
    /\ passed \subseteq Requests

\* Where a request is that may have counted as a success, and these requests.
Counted == {"enough", "close", "clear", "clear2", "returned"}

Added == At(requestPc, Requests, Counted)

\* A token is taken once by a request and a failure is counted once.
Placed ==
    /\ \A r \in passed : requestPc[r] \notin {"idle", "check", "tohalf", "token"}
    /\ \A r \in failed : requestPc[r] \in {"stamp", "count", "open", "returned"}

\* Whoever has seen the circuit open, or is about to open it, comes after the failures.
Opened ==
    state # "closed" \/ (\E r \in Requests : requestPc[r] \in {"check", "tohalf", "open"})
        => Cardinality(failed) >= threshold

LimitedInv ==
    /\ LimitedTypes /\ Placed /\ Opened
    /\ TokensConserved
    /\ failures <= Cardinality(failed)
    /\ successCount <= Cardinality(Added)

\* The histories and the counted requests are finite.
LEMMA LimitedFinite ==
    ASSUME LimitedTypes
    PROVE  /\ IsFiniteSet(failed) /\ IsFiniteSet(passed)
           /\ Cardinality(failed) \in Nat /\ Cardinality(passed) \in Nat
           /\ Cardinality(Added) \in Nat /\ Cardinality(Requests) \in Nat
           /\ Cardinality(failed) <= Cardinality(Requests)
           /\ Cardinality(Added) <= Cardinality(Requests)
<1>1. failed \subseteq Requests /\ passed \subseteq Requests /\ Added \subseteq Requests
  BY Zenon DEF LimitedTypes, Added, At
<1>2. IsFiniteSet(Requests)
  BY FlowAssumption, Zenon
<1> QED
  BY ONLY <1>1, <1>2, FS_Subset, FS_CardinalityType, Zenon

LEMMA LimitedInitially == LimitedInit => LimitedInv
<1> SUFFICES ASSUME LimitedInit PROVE LimitedInv
  BY Zenon
<1> USE DEF LimitedInit
<1>1. LimitedTypes
  BY FlowAssumption DEF LimitedTypes
<1>2. Cardinality(failed) = 0 /\ Cardinality(passed) = 0
  BY FS_EmptySet, Zenon
<1>3. Placed /\ Opened
  BY Zenon DEF Placed, Opened
<1>4. TokensConserved /\ failures <= Cardinality(failed)
  BY <1>2, FlowAssumption DEF TokensConserved
<1>5. successCount <= Cardinality(Added)
  BY <1>1, LimitedFinite
<1> QED
  BY <1>1, <1>3, <1>4, <1>5, Zenon DEF LimitedInv

LEMMA LimitedTypesStep == LimitedTypes /\ LimitedNext => LimitedTypes'
<1> SUFFICES ASSUME LimitedTypes, LimitedNext PROVE LimitedTypes'
  BY Zenon
<1> USE DEF LimitedTypes, breaker, bucket, histories
<1>0. maxTokens \in Nat /\ MaxRefills \in Nat /\ resetTimeout \in Nat
  BY FlowAssumption, Zenon
<1>1. ASSUME NEW r \in Requests, CheckCircuit(r) \/ CheckTimeout(r) \/ StoreHalfOpen(r) PROVE LimitedTypes'
  BY <1>1, Zenon DEF CheckCircuit, CheckTimeout, StoreHalfOpen, LimitedGoto
<1>2. ASSUME NEW r \in Requests, AcquireToken(r) PROVE LimitedTypes'
  BY <1>0, <1>2 DEF AcquireToken, HasToken, LimitedGoto
<1>3. ASSUME NEW r \in Requests, Fail(r) \/ StampFailure(r) PROVE LimitedTypes'
  BY <1>0, <1>3 DEF Fail, StampFailure, LimitedGoto
<1>4. ASSUME NEW r \in Requests, CompareFailures(r) \/ StoreOpen(r) PROVE LimitedTypes'
  BY <1>4, Zenon DEF CompareFailures, StoreOpen, LimitedGoto
<1>5. ASSUME NEW r \in Requests, Succeed(r) \/ LoadState(r) \/ AddSuccess(r) PROVE LimitedTypes'
  BY <1>5 DEF Succeed, LoadState, AddSuccess, LimitedGoto
<1>6. ASSUME NEW r \in Requests, CompareSuccesses(r) \/ StoreClosed(r) PROVE LimitedTypes'
  BY <1>6, Zenon DEF CompareSuccesses, StoreClosed, LimitedGoto
<1>7. ASSUME NEW r \in Requests, ClearFailures(r) \/ ClearSuccesses(r) PROVE LimitedTypes'
  BY <1>7 DEF ClearFailures, ClearSuccesses, LimitedGoto
<1>8. CASE Refill \/ Tick
  BY <1>0, <1>8 DEF Refill, Tick
<1> QED
  BY <1>1, <1>2, <1>3, <1>4, <1>5, <1>6, <1>7, <1>8, Zenon DEF LimitedNext, Step

\* What a move of one request does to the requests counted.
LEMMA RequestMoves ==
    ASSUME LimitedTypes, NEW r \in Requests, NEW from, NEW to, LimitedGoto(r, from, to)
    PROVE  /\ Cardinality(Added) \in Nat /\ Cardinality(Added') \in Nat
           /\ from \notin Counted /\ to \in Counted => Cardinality(Added') = Cardinality(Added) + 1
           /\ (from \in Counted <=> to \in Counted) => Cardinality(Added') = Cardinality(Added)
<1>1. IsFiniteSet(Requests)
  BY FlowAssumption, Zenon
<1>2. /\ requestPc[r] = from /\ requestPc'[r] = to
      /\ \A x \in Requests \ {r} : requestPc'[x] = requestPc[x]
  BY Zenon DEF LimitedGoto, LimitedTypes
<1>3. /\ Added = At(requestPc, Requests, Counted)
      /\ Added' = At(requestPc', Requests, Counted)
  BY Zenon DEF Added, At, Counted
<1> QED
  BY ONLY <1>1, <1>2, <1>3, OneMoves

\* Requests pay once and fail once, and the breaker opens after the failures.
LEMMA PlacedStep == ASSUME LimitedTypes, Placed, LimitedNext PROVE Placed'
<1> USE DEF LimitedTypes, Placed, histories
<1>1. ASSUME NEW r \in Requests, AcquireToken(r) PROVE Placed'
  BY <1>1, Zenon DEF AcquireToken, HasToken, LimitedGoto
<1>2. ASSUME NEW r \in Requests, Fail(r) PROVE Placed'
  BY <1>2, Zenon DEF Fail, LimitedGoto
<1>3. ASSUME NEW r \in Requests, CheckCircuit(r) \/ CheckTimeout(r) \/ StoreHalfOpen(r) PROVE Placed'
  BY <1>3, Zenon DEF CheckCircuit, CheckTimeout, StoreHalfOpen, LimitedGoto
<1>4. ASSUME NEW r \in Requests, StampFailure(r) \/ CompareFailures(r) \/ StoreOpen(r) PROVE Placed'
  BY <1>4, Zenon DEF StampFailure, CompareFailures, StoreOpen, LimitedGoto
<1>5. ASSUME NEW r \in Requests, Succeed(r) \/ LoadState(r) \/ AddSuccess(r) PROVE Placed'
  BY <1>5, Zenon DEF Succeed, LoadState, AddSuccess, LimitedGoto
<1>6. ASSUME NEW r \in Requests, CompareSuccesses(r) \/ StoreClosed(r) PROVE Placed'
  BY <1>6, Zenon DEF CompareSuccesses, StoreClosed, LimitedGoto
<1>7. ASSUME NEW r \in Requests, ClearFailures(r) \/ ClearSuccesses(r) PROVE Placed'
  BY <1>7, Zenon DEF ClearFailures, ClearSuccesses, LimitedGoto
<1>8. CASE Refill \/ Tick
  BY <1>8, Zenon DEF Refill, Tick
<1> QED
  BY <1>1, <1>2, <1>3, <1>4, <1>5, <1>6, <1>7, <1>8, Zenon DEF LimitedNext, Step

\* The histories of tokens and failures grow with the counters.
LEMMA HistoriesStep ==
    ASSUME LimitedInv, LimitedNext
    PROVE  /\ TokensConserved'
           /\ failures' <= Cardinality(failed')
           /\ Cardinality(failed) \in Nat /\ Cardinality(failed') \in Nat
           /\ Cardinality(failed) <= Cardinality(failed')
<1> DEFINE Kept == /\ TokensConserved'
                   /\ failures' <= Cardinality(failed')
                   /\ Cardinality(failed) \in Nat /\ Cardinality(failed') \in Nat
                   /\ Cardinality(failed) <= Cardinality(failed')
<1>0. /\ maxTokens \in Nat /\ tokens \in Nat /\ refills \in Nat /\ failures \in Nat
      /\ IsFiniteSet(failed) /\ IsFiniteSet(passed)
      /\ Cardinality(failed) \in Nat /\ Cardinality(passed) \in Nat
      /\ failures <= Cardinality(failed)
      /\ tokens + Cardinality(passed) = maxTokens + refills
  BY FlowAssumption, LimitedFinite DEF LimitedInv, LimitedTypes, TokensConserved
<1>1. ASSUME NEW r \in Requests, AcquireToken(r) PROVE Kept
  <2>1. r \notin passed /\ UNCHANGED <<failures, failed, refills>>
    BY <1>1, Zenon DEF AcquireToken, LimitedGoto, LimitedInv, LimitedTypes, Placed, breaker
  <2>2. CASE HasToken
    <3>1. tokens' = tokens - 1 /\ passed' = passed \cup {r}
      BY <1>1, <2>2, Zenon DEF AcquireToken
    <3>2. Cardinality(passed') = Cardinality(passed) + 1
      BY <1>0, <2>1, <3>1, FS_AddElement, Zenon
    <3> QED
      BY ONLY <1>0, <2>1, <3>1, <3>2 DEF TokensConserved
  <2>3. CASE ~HasToken
    <3>1. UNCHANGED <<tokens, passed>>
      BY <1>1, <2>3, Zenon DEF AcquireToken
    <3> QED
      BY ONLY <1>0, <2>1, <3>1 DEF TokensConserved
  <2> QED
    BY <2>2, <2>3, Zenon
<1>2. ASSUME NEW r \in Requests, Fail(r) PROVE Kept
  <2>1. /\ r \notin failed /\ failed' = failed \cup {r} /\ failures' = failures + 1
        /\ UNCHANGED <<tokens, refills, passed>>
    BY <1>2, Zenon DEF Fail, LimitedGoto, LimitedInv, LimitedTypes, Placed, bucket
  <2>2. Cardinality(failed') = Cardinality(failed) + 1
    BY <1>0, <2>1, FS_AddElement, Zenon
  <2> QED
    BY ONLY <1>0, <2>1, <2>2 DEF TokensConserved
<1>3. CASE Refill
  <2>1. tokens' = tokens + 1 /\ refills' = refills + 1 /\ UNCHANGED <<failures, failed, passed>>
    BY <1>3, Zenon DEF Refill, breaker, histories
  <2> QED
    BY ONLY <1>0, <2>1 DEF TokensConserved
<1>4. ASSUME UNCHANGED <<tokens, refills, failed, passed>>, failures' \in {failures, 0} PROVE Kept
  BY ONLY <1>0, <1>4 DEF TokensConserved
<1>5. ASSUME NEW r \in Requests, Step(r), ~AcquireToken(r), ~Fail(r) PROVE Kept
  <2>1. UNCHANGED <<tokens, refills, failed, passed>>
    BY <1>5, Zenon DEF Step, CheckCircuit, CheckTimeout, StoreHalfOpen, StampFailure, CompareFailures,
        StoreOpen, Succeed, LoadState, AddSuccess, CompareSuccesses, StoreClosed,
        ClearFailures, ClearSuccesses, bucket, histories
  <2>2. failures' \in {failures, 0}
    BY <1>5, Zenon DEF Step, CheckCircuit, CheckTimeout, StoreHalfOpen, StampFailure, CompareFailures,
        StoreOpen, Succeed, LoadState, AddSuccess, CompareSuccesses, StoreClosed,
        ClearFailures, ClearSuccesses, breaker
  <2> QED
    BY <1>4, <2>1, <2>2, Zenon
<1>6. CASE Tick
  BY <1>4, <1>6, Zenon DEF Tick, bucket, histories
<1> QED
  BY <1>1, <1>2, <1>3, <1>5, <1>6, Zenon DEF LimitedNext

LEMMA OpenedStep == ASSUME LimitedInv, LimitedNext PROVE Opened'
<1>1. /\ Cardinality(failed) \in Nat /\ Cardinality(failed') \in Nat
      /\ Cardinality(failed) <= Cardinality(failed')
  BY HistoriesStep, Zenon
<1>2. threshold \in Nat /\ failures \in Nat /\ failures <= Cardinality(failed)
  BY FlowAssumption, Zenon DEF LimitedInv, LimitedTypes
<1>3. CASE Cardinality(failed) >= threshold
  BY <1>1, <1>2, <1>3 DEF Opened
<1>4. CASE ~(Cardinality(failed) >= threshold)
  <2>1. /\ state = "closed" /\ ~TooMany
        /\ \A r \in Requests : requestPc[r] \notin {"check", "tohalf", "open"}
    BY <1>1, <1>2, <1>4 DEF LimitedInv, Opened, TooMany
  <2>2. requestPc \in [Requests -> {"idle", "check", "tohalf", "token", "work", "stamp", "count", "open",
                            "ok", "add", "enough", "close", "clear", "clear2", "returned"}]
    BY Zenon DEF LimitedInv, LimitedTypes
  <2>3. ASSUME NEW r \in Requests, Step(r)
        PROVE  /\ state' = "closed"
               /\ \A q \in Requests : requestPc'[q] \notin {"check", "tohalf", "open"}
    <3>1. state' = "closed"
      BY <2>1, <2>3, Zenon DEF Step, CheckCircuit, CheckTimeout, StoreHalfOpen, AcquireToken, Fail, StampFailure,
        CompareFailures, StoreOpen, Succeed, LoadState, AddSuccess, CompareSuccesses, StoreClosed,
        ClearFailures, ClearSuccesses, breaker, LimitedGoto
    <3>2. /\ \A q \in Requests \ {r} : requestPc'[q] = requestPc[q]
          /\ requestPc'[r] \notin {"check", "tohalf", "open"}
      BY <2>1, <2>2, <2>3, Zenon DEF Step, CheckCircuit, CheckTimeout, StoreHalfOpen, AcquireToken, Fail,
        StampFailure, CompareFailures, StoreOpen, Succeed, LoadState, AddSuccess, CompareSuccesses,
        StoreClosed, ClearFailures, ClearSuccesses, LimitedGoto
    <3> QED
      BY <2>1, <3>1, <3>2, Zenon
  <2>4. CASE Refill \/ Tick
    BY <2>1, <2>4, Zenon DEF Refill, Tick, breaker, Opened
  <2> QED
    BY <2>3, <2>4, Zenon DEF LimitedNext, Opened
<1> QED
  BY <1>3, <1>4, Zenon

\* A success counted is one of a request of its own.
LEMMA SuccessesStep ==
    ASSUME LimitedTypes, successCount <= Cardinality(Added), LimitedNext
    PROVE  successCount' <= Cardinality(Added')
<1> USE DEF Counted
<1>0. successCount \in Nat
  BY Zenon DEF LimitedTypes
<1>1. ASSUME NEW r \in Requests, Step(r), ~AddSuccess(r) PROVE successCount' <= Cardinality(Added')
  <2>1. successCount' \in {successCount, 0}
    BY <1>1, Zenon DEF Step, CheckCircuit, CheckTimeout, StoreHalfOpen, AcquireToken, Fail, StampFailure,
        CompareFailures, StoreOpen, Succeed, LoadState, CompareSuccesses, StoreClosed,
        ClearFailures, ClearSuccesses, breaker
  <2>2. \E from, to : LimitedGoto(r, from, to) /\ (from \in Counted => to \in Counted)
    BY <1>1 DEF Step, CheckCircuit, CheckTimeout, StoreHalfOpen, AcquireToken, Fail, StampFailure,
        CompareFailures, StoreOpen, Succeed, LoadState, CompareSuccesses, StoreClosed,
        ClearFailures, ClearSuccesses
  <2> HIDE DEF Counted
  <2>3. PICK from, to : LimitedGoto(r, from, to) /\ (from \in Counted => to \in Counted)
    BY <2>2, Zenon
  <2>4. /\ Cardinality(Added) \in Nat /\ Cardinality(Added') \in Nat
        /\ Cardinality(Added) <= Cardinality(Added')
    BY <2>3, RequestMoves
  <2> QED
    BY <1>0, <2>1, <2>4
<1>2. ASSUME NEW r \in Requests, AddSuccess(r) PROVE successCount' <= Cardinality(Added')
  <2>1. "add" \notin Counted /\ "enough" \in Counted
    BY Zenon
  <2> HIDE DEF Counted
  <2>2. Cardinality(Added) \in Nat /\ Cardinality(Added') = Cardinality(Added) + 1
    BY <1>2, <2>1, RequestMoves, Zenon DEF AddSuccess
  <2> QED
    BY <1>0, <1>2, <2>2 DEF AddSuccess
<1>3. CASE Refill \/ Tick
  BY <1>3, Zenon DEF Refill, Tick, breaker, Added, At
<1> QED
  BY <1>1, <1>2, <1>3, Zenon DEF LimitedNext

LEMMA LimitedStep == LimitedInv /\ [LimitedNext]_limitedVars => LimitedInv'
<1> SUFFICES ASSUME LimitedInv, [LimitedNext]_limitedVars PROVE LimitedInv'
  BY Zenon
<1>1. CASE UNCHANGED limitedVars
  BY <1>1, Zenon DEF limitedVars, LimitedInv, LimitedTypes, Placed, Opened, TokensConserved, Added, At
<1>2. CASE LimitedNext
  <2>1. LimitedTypes' /\ Placed'
    BY <1>2, LimitedTypesStep, PlacedStep, Zenon DEF LimitedInv
  <2>2. TokensConserved' /\ failures' <= Cardinality(failed')
    BY <1>2, HistoriesStep, Zenon
  <2>3. Opened' /\ successCount' <= Cardinality(Added')
    BY <1>2, OpenedStep, SuccessesStep, Zenon DEF LimitedInv
  <2> QED
    BY <2>1, <2>2, <2>3, Zenon DEF LimitedInv
<1> QED
  BY <1>1, <1>2, Zenon

\* The invariant says what the run checks of the limiter.
LEMMA LimitedRight == LimitedInv => LimitedTypeOK /\ TokensConserved /\ OpenAfterThreshold
<1> SUFFICES ASSUME LimitedInv PROVE LimitedTypeOK /\ TokensConserved /\ OpenAfterThreshold
  BY Zenon
<1>1. failures \in 0 .. N /\ successCount \in 0 .. N
  BY LimitedFinite DEF LimitedInv, LimitedTypes, N
<1>2. LimitedTypeOK
  BY <1>1, Zenon DEF LimitedTypeOK, LimitedInv, LimitedTypes
<1>3. TokensConserved /\ OpenAfterThreshold
  BY Zenon DEF LimitedInv, OpenAfterThreshold, Opened
<1> QED
  BY <1>2, <1>3, Zenon
-----------------------------------------------------------------------------
(***************************************************************************)
(* The adaptive buffer.                                                    *)
(***************************************************************************)

AdaptiveTypes ==
    /\ data \in Seq(Nat) /\ consumed \in Seq(Nat)
    /\ maxSize \in Nat /\ dropCount \in Nat /\ throughput \in Nat
    /\ id \in 0 .. MaxItems
    /\ currentSize = Len(data)

SizesKept ==
    /\ maxSize * 10 > (shrinkAbove + 1) * 8 - 10
    /\ maxSize * 10 <= (growBelow - 1) * 12
    /\ Len(data) * 10 <= (growBelow - 1) * 12

\* An item is dropped, buffered or consumed, or was dropped before the last adjustment.
ItemsCounted ==
    /\ dropCount + Len(data) + Len(consumed) <= id
    /\ throughput <= Len(consumed)

\* Both sequences ascend, what is consumed is older than what is buffered, and the next item
\* is newer than all.
Ascending ==
    /\ \A i, j \in 1 .. Len(data) : i < j => data[i] < data[j]
    /\ \A i, j \in 1 .. Len(consumed) : i < j => consumed[i] < consumed[j]
    /\ \A i \in 1 .. Len(consumed), j \in 1 .. Len(data) : consumed[i] < data[j]
    /\ \A j \in 1 .. Len(data) : data[j] < id
    /\ \A i \in 1 .. Len(consumed) : consumed[i] < id

AdaptiveInv == AdaptiveTypes /\ SizesKept /\ ItemsCounted /\ Ascending

\* The sizes the code compares with.
LEMMA SizesAssumed ==
    /\ initialSize \in Nat /\ shrinkAbove \in Nat \ {0} /\ growBelow \in Nat
    /\ shrinkAbove < initialSize /\ initialSize < growBelow /\ MaxItems \in Nat
    /\ dropPolicy \in {"tail", "head"}
BY FlowAssumption, Zenon

LEMMA AdaptiveInitially == AdaptiveInit => AdaptiveInv
<1> SUFFICES ASSUME AdaptiveInit PROVE AdaptiveInv
  BY Zenon
<1>1. /\ data = <<>> /\ consumed = <<>> /\ Len(data) = 0 /\ Len(consumed) = 0
      /\ data \in Seq(Nat) /\ consumed \in Seq(Nat)
  BY EmptySeq, Zenon DEF AdaptiveInit
<1>2. AdaptiveTypes
  BY <1>1, SizesAssumed DEF AdaptiveInit, AdaptiveTypes
<1>3. SizesKept
  BY <1>1, SizesAssumed DEF AdaptiveInit, SizesKept
<1>4. ItemsCounted
  BY <1>1 DEF AdaptiveInit, ItemsCounted
<1>5. Ascending
  BY <1>1 DEF Ascending
<1> QED
  BY <1>2, <1>3, <1>4, <1>5, Zenon DEF AdaptiveInv

\* A size that is shrunk or grown stays within the factors of the limits.
LEMMA FactorsKept ==
    ASSUME NEW n \in Nat, NEW s \in Nat \ {0}, NEW g \in Nat
    PROVE  /\ Shrunk(n) \in Nat /\ Grown(n) \in Nat
           /\ n > s => Shrunk(n) * 10 > (s + 1) * 8 - 10
           /\ Shrunk(n) <= n
           /\ n < g => Grown(n) * 10 <= (g - 1) * 12
           /\ Grown(n) >= n
BY DEF Shrunk, Grown

\* The buffer after an item has been taken out of its front.
LEMMA FrontLeaves ==
    ASSUME AdaptiveTypes, data # <<>>
    PROVE  /\ Head(data) = data[1] /\ Len(data) \in Nat /\ Len(data) >= 1
           /\ Tail(data) \in Seq(Nat) /\ Len(Tail(data)) = Len(data) - 1
           /\ \A i \in 1 .. Len(data) - 1 : Tail(data)[i] = data[i + 1]
BY EmptySeq, HeadTailProperties, LenProperties DEF AdaptiveTypes

\* An item that is not dropped goes to the end of the buffer, of which the oldest d have been
\* dropped.
LEMMA Arrives ==
    ASSUME AdaptiveInv, NEW d \in 0 .. 1, NEW rest \in Seq(Nat), Len(rest) = Len(data) - d,
           \A i \in 1 .. Len(rest) : rest[i] = data[i + d],
           d = 0 => Len(data) < maxSize,
           id < MaxItems, id' = id + 1, data' = Append(rest, id), dropCount' = dropCount + d,
           currentSize' = Len(data'), UNCHANGED <<maxSize, throughput, consumed>>
    PROVE  AdaptiveInv'
<1>0. /\ data \in Seq(Nat) /\ consumed \in Seq(Nat) /\ Len(data) \in Nat /\ Len(consumed) \in Nat
      /\ id \in Nat /\ maxSize \in Nat /\ dropCount \in Nat /\ throughput \in Nat
  BY SizesAssumed, LenProperties DEF AdaptiveInv, AdaptiveTypes
<1>1. /\ data' \in Seq(Nat) /\ Len(data') = Len(data) - d + 1
      /\ \A i \in 1 .. Len(data) - d : data'[i] = data[i + d]
      /\ data'[Len(data) - d + 1] = id
  BY <1>0, AppendProperties
<1>2. AdaptiveTypes'
  BY <1>0, <1>1, SizesAssumed DEF AdaptiveTypes
<1>3. SizesKept'
  <2>1. Len(data') * 10 <= (growBelow - 1) * 12
    <3>1. CASE d = 0
      BY <1>0, <1>1, <3>1, SizesAssumed DEF AdaptiveInv, SizesKept
    <3>2. CASE d = 1
      BY <1>0, <1>1, <3>2, SizesAssumed DEF AdaptiveInv, SizesKept
    <3> QED
      BY <3>1, <3>2
  <2> QED
    BY <2>1, Zenon DEF AdaptiveInv, SizesKept
<1>4. ItemsCounted'
  BY <1>0, <1>1 DEF AdaptiveInv, ItemsCounted
<1>5. Ascending'
  <2>1. /\ \A i, j \in 1 .. Len(data) : i < j => data[i] < data[j]
        /\ \A i \in 1 .. Len(consumed), j \in 1 .. Len(data) : consumed[i] < data[j]
        /\ \A j \in 1 .. Len(data) : data[j] < id /\ data[j] \in Nat
        /\ \A i \in 1 .. Len(consumed) : consumed[i] < id /\ consumed[i] \in Nat
    BY <1>0, ElementOfSeq, Zenon DEF AdaptiveInv, Ascending
  <2>2. /\ \A i, j \in 1 .. Len(data') : i < j => data'[i] < data'[j]
        /\ \A j \in 1 .. Len(data') : data'[j] < id + 1
        /\ \A i \in 1 .. Len(consumed), j \in 1 .. Len(data') : consumed[i] < data'[j]
    <3> DEFINE n == Len(data)
               new == data'
    <3>1. /\ n \in Nat /\ id \in Nat /\ d \in 0 .. 1
          /\ \A i \in 1 .. n - d : new[i] = data[i + d]
          /\ new[n - d + 1] = id
          /\ \A i, j \in 1 .. n : i < j => data[i] < data[j]
          /\ \A j \in 1 .. n : data[j] \in Nat /\ data[j] < id
      BY <1>0, <1>1, <2>1, Zenon
    <3> HIDE DEF n, new
    <3>2. ASSUME NEW j \in 1 .. n - d + 1
          PROVE  \/ j = n - d + 1 /\ new[j] = id
                 \/ j \in 1 .. n - d /\ new[j] = data[j + d] /\ j + d \in 1 .. n
      <4>1. j = n - d + 1 \/ j \in 1 .. n - d
        BY ONLY <3>1
      <4>2. j \in 1 .. n - d => j + d \in 1 .. n
        BY ONLY <3>1
      <4> QED
        BY ONLY <3>1, <4>1, <4>2, Zenon
    <3>3. ASSUME NEW j \in 1 .. n - d + 1, NEW i \in 1 .. n - d + 1, i < j
          PROVE  new[i] < new[j]
      <4>1. i \in 1 .. n - d /\ new[i] = data[i + d] /\ i + d \in 1 .. n
        <5>1. i # n - d + 1
          BY ONLY <3>1, <3>3
        <5> QED
          BY ONLY <3>2, <5>1, Zenon
      <4>2. i + d < j + d
        BY ONLY <3>1, <3>3
      <4>3. new[j] = id \/ (new[j] = data[j + d] /\ j + d \in 1 .. n)
        BY ONLY <3>2, Zenon
      <4> QED
        BY ONLY <3>1, <4>1, <4>2, <4>3, Zenon
    <3>4. ASSUME NEW j \in 1 .. n - d + 1
          PROVE  /\ new[j] < id + 1
                 /\ \A i \in 1 .. Len(consumed) : consumed[i] < new[j]
      <4>1. new[j] = id \/ (new[j] = data[j + d] /\ j + d \in 1 .. n)
        BY ONLY <3>2, Zenon
      <4> QED
        BY ONLY <2>1, <3>1, <4>1 DEF n
    <3> QED
      BY ONLY <1>1, <3>3, <3>4, Zenon DEF n, new
  <2>3. \A i \in 1 .. Len(consumed) : consumed[i] < id + 1
    BY ONLY <1>0, <2>1
  <2> QED
    BY <2>2, <2>3, Zenon DEF AdaptiveInv, Ascending
<1> QED
  BY <1>2, <1>3, <1>4, <1>5, Zenon DEF AdaptiveInv

LEMMA EnqueueStep == ASSUME AdaptiveInv, Enqueue PROVE AdaptiveInv'
<1> DEFINE full == Len(data) >= maxSize
<1>0. /\ data \in Seq(Nat) /\ consumed \in Seq(Nat) /\ Len(data) \in Nat /\ Len(consumed) \in Nat
      /\ id \in Nat /\ id < MaxItems /\ maxSize \in Nat /\ maxSize >= 1
      /\ dropCount \in Nat /\ throughput \in Nat
  BY SizesAssumed, LenProperties DEF AdaptiveInv, AdaptiveTypes, SizesKept, Enqueue
<1>1. /\ id' = id + 1 /\ currentSize' = Len(data') /\ UNCHANGED <<maxSize, throughput, consumed>>
      /\ dropCount' = IF full THEN dropCount + 1 ELSE dropCount
      /\ full /\ dropPolicy = "tail" => data' = data
      /\ full /\ dropPolicy = "head" => data' = Append(Tail(data), id)
      /\ ~full => data' = Append(data, id)
  BY SizesAssumed, Zenon DEF Enqueue
<1>2. CASE full /\ dropPolicy = "tail"
  <2>1. data' = data /\ dropCount' = dropCount + 1
    BY <1>1, <1>2, Zenon
  <2>2. AdaptiveTypes'
    BY <1>0, <1>1, <2>1, SizesAssumed DEF AdaptiveInv, AdaptiveTypes
  <2>3. SizesKept' /\ ItemsCounted'
    BY <1>0, <1>1, <2>1 DEF AdaptiveInv, SizesKept, ItemsCounted
  <2>4. /\ \A j \in 1 .. Len(data) : data[j] < id /\ data[j] \in Nat
        /\ \A i \in 1 .. Len(consumed) : consumed[i] < id /\ consumed[i] \in Nat
    BY <1>0, ElementOfSeq, Zenon DEF AdaptiveInv, Ascending
  <2>5. /\ \A j \in 1 .. Len(data) : data[j] < id + 1
        /\ \A i \in 1 .. Len(consumed) : consumed[i] < id + 1
    BY ONLY <1>0, <2>4
  <2>6. Ascending'
    BY <1>1, <2>1, <2>5, Zenon DEF AdaptiveInv, Ascending
  <2> QED
    BY <2>2, <2>3, <2>6, Zenon DEF AdaptiveInv
<1>3. CASE full /\ dropPolicy = "head"
  <2>1. data # <<>>
    BY <1>0, <1>3, EmptySeq
  <2>2. /\ Tail(data) \in Seq(Nat) /\ Len(Tail(data)) = Len(data) - 1
        /\ \A i \in 1 .. Len(Tail(data)) : Tail(data)[i] = data[i + 1]
    BY <1>0, <2>1, FrontLeaves, Zenon DEF AdaptiveInv
  <2>3. data' = Append(Tail(data), id) /\ dropCount' = dropCount + 1
    BY <1>1, <1>3, Zenon
  <2> DEFINE rest == Tail(data)
             d == 1
  <2> HIDE DEF rest, d
  <2>4. /\ rest \in Seq(Nat) /\ Len(rest) = Len(data) - d /\ data' = Append(rest, id)
        /\ \A i \in 1 .. Len(rest) : rest[i] = data[i + d]
        /\ d \in 0 .. 1 /\ d # 0 /\ dropCount' = dropCount + d
    BY <2>2, <2>3 DEF rest, d
  <2> QED
    BY <1>0, <1>1, <2>4, Arrives, Zenon
<1>4. CASE ~full
  <2> DEFINE d == 0
  <2> HIDE DEF d
  <2>1. /\ data' = Append(data, id) /\ dropCount' = dropCount + d /\ Len(data) < maxSize
        /\ Len(data) = Len(data) - d /\ \A i \in 1 .. Len(data) : data[i] = data[i + d]
        /\ d \in 0 .. 1
    BY <1>0, <1>1, <1>4 DEF d
  <2> QED
    BY <1>0, <1>1, <2>1, Arrives, Zenon
<1> QED
  BY <1>2, <1>3, <1>4, SizesAssumed, Zenon

LEMMA DequeueStep == ASSUME AdaptiveInv, Dequeue PROVE AdaptiveInv'
<1>0. /\ data \in Seq(Nat) /\ consumed \in Seq(Nat) /\ Len(data) \in Nat /\ Len(consumed) \in Nat
      /\ id \in Nat /\ maxSize \in Nat /\ dropCount \in Nat /\ throughput \in Nat
  BY SizesAssumed, LenProperties DEF AdaptiveInv, AdaptiveTypes
<1>1. /\ Head(data) = data[1] /\ Len(data) >= 1
      /\ data' \in Seq(Nat) /\ Len(data') = Len(data) - 1
      /\ \A i \in 1 .. Len(data) - 1 : data'[i] = data[i + 1]
  BY FrontLeaves, Zenon DEF Dequeue, AdaptiveInv
<1>2. data[1] \in Nat
  BY <1>0, <1>1, ElementOfSeq
<1>3. /\ consumed' \in Seq(Nat) /\ Len(consumed') = Len(consumed) + 1
      /\ \A i \in 1 .. Len(consumed) : consumed'[i] = consumed[i]
      /\ consumed'[Len(consumed) + 1] = data[1]
  BY <1>0, <1>1, <1>2, AppendProperties DEF Dequeue
<1>4. /\ currentSize' = Len(data') /\ throughput' = throughput + 1
      /\ UNCHANGED <<maxSize, dropCount, id>>
  BY Zenon DEF Dequeue
<1>5. AdaptiveTypes'
  BY <1>0, <1>1, <1>3, <1>4 DEF AdaptiveInv, AdaptiveTypes
<1>6. SizesKept'
  BY <1>0, <1>1, <1>4, SizesAssumed DEF AdaptiveInv, SizesKept
<1>7. ItemsCounted'
  BY <1>0, <1>1, <1>3, <1>4 DEF AdaptiveInv, ItemsCounted
<1>8. Ascending'
  <2>1. /\ \A i, j \in 1 .. Len(data) : i < j => data[i] < data[j]
        /\ \A i, j \in 1 .. Len(consumed) : i < j => consumed[i] < consumed[j]
        /\ \A i \in 1 .. Len(consumed), j \in 1 .. Len(data) : consumed[i] < data[j]
        /\ \A j \in 1 .. Len(data) : data[j] < id
        /\ \A i \in 1 .. Len(consumed) : consumed[i] < id
    BY Zenon DEF AdaptiveInv, Ascending
  <2>2. \A j \in 1 .. Len(data') : j + 1 \in 1 .. Len(data) /\ data'[j] = data[j + 1] /\ 1 < j + 1
    BY ONLY <1>0, <1>1
  <2>3. \A i \in 1 .. Len(consumed') : \/ i \in 1 .. Len(consumed) /\ consumed'[i] = consumed[i]
                                       \/ i = Len(consumed) + 1 /\ consumed'[i] = data[1]
    BY ONLY <1>0, <1>3
  <2>4. 1 \in 1 .. Len(data)
    BY ONLY <1>0, <1>1
  <2>5. \A i, j \in 1 .. Len(data') : i < j => data'[i] < data'[j]
    BY ONLY <2>1, <2>2
  <2>6. ASSUME NEW i \in 1 .. Len(consumed'), NEW j \in 1 .. Len(consumed'), i < j
        PROVE  consumed'[i] < consumed'[j]
    <3>1. i \in 1 .. Len(consumed) /\ consumed'[i] = consumed[i]
      <4>1. i # Len(consumed) + 1
        BY ONLY <1>0, <1>3, <2>6
      <4> QED
        BY ONLY <2>3, <4>1, Zenon
    <3> QED
      BY ONLY <2>1, <2>3, <2>4, <2>6, <3>1, Zenon
  <2>7. \A i \in 1 .. Len(consumed'), j \in 1 .. Len(data') : consumed'[i] < data'[j]
    BY ONLY <2>1, <2>2, <2>3, <2>4, Zenon
  <2>8. /\ \A j \in 1 .. Len(data') : data'[j] < id
        /\ \A i \in 1 .. Len(consumed') : consumed'[i] < id
    BY ONLY <2>1, <2>2, <2>3, <2>4, Zenon
  <2> QED
    BY <1>4, <2>5, <2>6, <2>7, <2>8, Zenon DEF Ascending
<1> QED
  BY <1>5, <1>6, <1>7, <1>8, Zenon DEF AdaptiveInv

LEMMA AdjustStep == ASSUME AdaptiveInv, Adjust PROVE AdaptiveInv'
<1>0. Len(data) \in Nat /\ Len(consumed) \in Nat /\ id \in Nat /\ maxSize \in Nat /\ dropCount \in Nat
  BY SizesAssumed, LenProperties DEF AdaptiveInv, AdaptiveTypes
<1>1. dropCount' = 0 /\ throughput' = 0 /\ UNCHANGED <<data, currentSize, id, consumed>>
  BY Zenon DEF Adjust
<1>2. /\ maxSize' \in Nat
      /\ maxSize' * 10 > (shrinkAbove + 1) * 8 - 10
      /\ maxSize' * 10 <= (growBelow - 1) * 12
  <2> DEFINE low == (shrinkAbove + 1) * 8 - 10
             high == (growBelow - 1) * 12
  <2>1. low \in Int /\ high \in Int /\ maxSize * 10 > low /\ maxSize * 10 <= high
    BY SizesAssumed DEF AdaptiveInv, SizesKept
  <2>2. /\ Shrunk(maxSize) \in Nat /\ Grown(maxSize) \in Nat
        /\ maxSize > shrinkAbove => Shrunk(maxSize) * 10 > low
        /\ Shrunk(maxSize) <= maxSize
        /\ maxSize < growBelow => Grown(maxSize) * 10 <= high
        /\ Grown(maxSize) >= maxSize
    BY <1>0, SizesAssumed, FactorsKept, Zenon
  <2>3. \/ maxSize' = Shrunk(maxSize) /\ maxSize > shrinkAbove
        \/ maxSize' = Grown(maxSize) /\ maxSize < growBelow
        \/ maxSize' = maxSize
    BY Zenon DEF Adjust
  <2> HIDE DEF low, high
  <2>4. maxSize' \in Nat /\ maxSize' * 10 > low /\ maxSize' * 10 <= high
    BY ONLY <1>0, <2>1, <2>2, <2>3
  <2> QED
    BY <2>4, Zenon DEF low, high
<1>3. AdaptiveTypes' /\ SizesKept'
  BY <1>1, <1>2, Zenon DEF AdaptiveInv, AdaptiveTypes, SizesKept
<1>4. ItemsCounted'
  BY <1>0, <1>1 DEF AdaptiveInv, ItemsCounted
<1>5. Ascending'
  BY <1>1, Zenon DEF AdaptiveInv, Ascending
<1> QED
  BY <1>3, <1>4, <1>5, Zenon DEF AdaptiveInv

LEMMA AdaptiveStep == AdaptiveInv /\ [AdaptiveNext]_adaptiveVars => AdaptiveInv'
<1>1. AdaptiveInv /\ UNCHANGED adaptiveVars => AdaptiveInv'
  BY Zenon DEF adaptiveVars, AdaptiveInv, AdaptiveTypes, SizesKept, ItemsCounted, Ascending
<1> QED
  BY <1>1, EnqueueStep, DequeueStep, AdjustStep, Zenon DEF AdaptiveNext

\* The invariant says what the run checks of the buffer.
LEMMA AdaptiveRight == AdaptiveInv => AdaptiveTypeOK /\ BufferKept
<1> SUFFICES ASSUME AdaptiveInv PROVE AdaptiveTypeOK /\ BufferKept
  BY Zenon
<1>0. /\ data \in Seq(Nat) /\ consumed \in Seq(Nat) /\ Len(data) \in Nat /\ Len(consumed) \in Nat
      /\ id \in Nat /\ id <= MaxItems /\ MaxItems \in Nat
      /\ maxSize \in Nat /\ dropCount \in Nat /\ throughput \in Nat
  BY SizesAssumed, LenProperties DEF AdaptiveInv, AdaptiveTypes
<1>1. /\ \A i, j \in 1 .. Len(data) : i < j => data[i] < data[j]
      /\ \A i, j \in 1 .. Len(consumed) : i < j => consumed[i] < consumed[j]
      /\ \A i \in 1 .. Len(consumed), j \in 1 .. Len(data) : consumed[i] < data[j]
      /\ \A j \in 1 .. Len(data) : data[j] < id /\ data[j] \in Nat
      /\ \A i \in 1 .. Len(consumed) : consumed[i] < id /\ consumed[i] \in Nat
  BY <1>0, ElementOfSeq, Zenon DEF AdaptiveInv, Ascending
<1>2. data \in Seq(0 .. MaxItems - 1) /\ consumed \in Seq(0 .. MaxItems - 1)
  <2>1. /\ \A j \in 1 .. Len(data) : data[j] \in 0 .. MaxItems - 1
        /\ \A i \in 1 .. Len(consumed) : consumed[i] \in 0 .. MaxItems - 1
    BY ONLY <1>0, <1>1
  <2> QED
    BY ONLY <1>0, <2>1, SeqNarrows, Zenon
<1>3. AdaptiveTypeOK
  BY <1>0, <1>2 DEF AdaptiveTypeOK, AdaptiveInv, AdaptiveTypes, ItemsCounted
<1>4. ASSUME NEW i \in DOMAIN (consumed \o data), NEW j \in DOMAIN (consumed \o data), i < j
      PROVE  (consumed \o data)[i] < (consumed \o data)[j]
  <2> DEFINE all == consumed \o data
  <2>1. /\ DOMAIN all = 1 .. Len(consumed) + Len(data)
        /\ \A k \in 1 .. Len(consumed) + Len(data) :
              all[k] = IF k <= Len(consumed) THEN consumed[k] ELSE data[k - Len(consumed)]
    BY <1>0, ConcatProperties, LenProperties
  <2>2. i \in 1 .. Len(consumed) + Len(data) /\ j \in 1 .. Len(consumed) + Len(data)
    BY <2>1, Zenon
  <2> HIDE DEF all
  <2>3. CASE j <= Len(consumed)
    BY ONLY <1>0, <1>1, <1>4, <2>1, <2>2, <2>3
  <2>4. CASE i <= Len(consumed) /\ ~(j <= Len(consumed))
    <3>1. j - Len(consumed) \in 1 .. Len(data)
      BY ONLY <1>0, <2>2, <2>4
    <3>2. i \in 1 .. Len(consumed) /\ all[i] = consumed[i] /\ all[j] = data[j - Len(consumed)]
      BY ONLY <1>0, <2>1, <2>2, <2>4
    <3> QED
      BY ONLY <1>1, <3>1, <3>2
  <2>5. CASE ~(i <= Len(consumed))
    <3>1. /\ j - Len(consumed) \in 1 .. Len(data) /\ i - Len(consumed) \in 1 .. Len(data)
          /\ i - Len(consumed) < j - Len(consumed) /\ ~(j <= Len(consumed))
      BY ONLY <1>0, <1>4, <2>2, <2>5
    <3>2. all[i] = data[i - Len(consumed)] /\ all[j] = data[j - Len(consumed)]
      BY ONLY <2>1, <2>2, <2>5, <3>1, Zenon
    <3> QED
      BY ONLY <1>1, <3>1, <3>2
  <2> QED
    BY <1>0, <1>4, <2>2, <2>3, <2>4, <2>5, Zenon DEF all
<1>5. BufferKept
  BY <1>4, Zenon DEF BufferKept, AdaptiveInv, AdaptiveTypes, SizesKept
<1> QED
  BY <1>3, <1>5, Zenon
-----------------------------------------------------------------------------
FlowInv == PullInv /\ LimitedInv /\ AdaptiveInv

\* What challenge 11 lets through stays bounded for every number of workers and requests: the
\* in-flight counter is exact on every path, a processed request has paid a token, the circuit
\* opens only after the failures, and the buffer stays within the factors of its limits and
\* in order.
THEOREM FlowStaysBounded == FlowSpec => []FlowBounded
<1>1. FlowInit => FlowInv
  BY PullInitially, LimitedInitially, AdaptiveInitially, Zenon DEF FlowInit, FlowInv
<1>2. FlowInv => FlowBounded
  BY PullRight, LimitedRight, AdaptiveRight, Zenon DEF FlowInv, FlowBounded
<1>3. FlowInv /\ [FlowNext]_flowVars => FlowInv'
  <2>1. [FlowNext]_flowVars =>
            [PullNext]_pullVars /\ [LimitedNext]_limitedVars /\ [AdaptiveNext]_adaptiveVars
    BY Zenon DEF FlowNext, flowVars
  <2> QED
    BY <2>1, PullStep, LimitedStep, AdaptiveStep, Zenon DEF FlowInv
<1> QED
  BY <1>1, <1>2, <1>3, PTL DEF FlowSpec
=============================================================================
