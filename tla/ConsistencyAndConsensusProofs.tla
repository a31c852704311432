-------------------- MODULE ConsistencyAndConsensusProofs ---------------------
(***************************************************************************)
(* Theorems about the two-phase commit of challenge 12, for any number of  *)
(* participants and transactions, and about the three chains of solution   *)
(* 20, for any number of miners, proposals and peers.                      *)
(***************************************************************************)
EXTENDS BlockchainConsensus, ConsistencyModels, FiniteSetTheorems, TLAPS

(***************************************************************************)
(* Two-phase commit. A transaction's votes, prepared entries and writes    *)
(* follow the goroutines that have not run yet, phase by phase.            *)
(***************************************************************************)
CommitTypes ==
    /\ prepared \in [Participants -> SUBSET Txs]
    /\ storedData \in [Participants -> Txs \cup {NoData}]
    /\ versions \in [Participants -> Nat]
    /\ toPrepare \in [Txs -> SUBSET Participants]
    /\ votes \in [Txs -> Nat]
    /\ toCommit \in [Txs -> SUBSET Participants]
    /\ phase \in [Txs -> {"idle", "prepare", "commit", "done"}]
    /\ written \in [Txs -> SUBSET Participants]

\* Who has voted is who has prepared, until the commit ...
Voting(t) ==
    /\ phase[t] = "idle" =>
          /\ toPrepare[t] = {} /\ votes[t] = 0
          /\ \A p \in Participants : t \notin prepared[p]
    /\ phase[t] # "idle" => votes[t] = Cardinality(Participants \ toPrepare[t])
    /\ phase[t] = "prepare" => \A p \in Participants : t \in prepared[p] <=> p \notin toPrepare[t]
    /\ phase[t] \in {"idle", "prepare"} => toCommit[t] = {} /\ written[t] = {}

\* ... and then who has written has committed.
Committing(t) ==
    phase[t] \in {"commit", "done"} =>
        /\ toPrepare[t] = {}
        /\ \A p \in Participants : t \in prepared[p] <=> p \in toCommit[t]
        /\ written[t] = Participants \ toCommit[t]
        /\ phase[t] = "done" => toCommit[t] = {}

WrittenAt(p) == {t \in Txs : p \in written[t]}

VersionsCount == \A p \in Participants : versions[p] = Cardinality(WrittenAt(p))

CommitInv ==
    /\ CommitTypes
    /\ \A t \in Txs : Voting(t) /\ Committing(t)
    /\ VersionsCount

LEMMA TransactionsInitially == CommitInit => CommitInv
<1> SUFFICES ASSUME CommitInit PROVE CommitInv
  BY Zenon
<1>1. CommitTypes
  BY Zenon DEF CommitInit, CommitTypes
<1>2. \A t \in Txs : Voting(t) /\ Committing(t)
  BY Zenon DEF CommitInit, Voting, Committing
<1>3. VersionsCount
  <2>1. \A p \in Participants : WrittenAt(p) = {}
    BY Zenon DEF CommitInit, WrittenAt
  <2>2. QED BY <2>1, FS_EmptySet, Zenon DEF CommitInit, VersionsCount
<1>4. QED BY <1>1, <1>2, <1>3, Zenon DEF CommitInv

\* A step of one transaction leaves the others as they are.
LEMMA OthersStay ==
    ASSUME NEW t \in Txs, NEW u \in Txs, u # t, Voting(u), Committing(u),
           toPrepare'[u] = toPrepare[u], votes'[u] = votes[u], toCommit'[u] = toCommit[u],
           phase'[u] = phase[u], written'[u] = written[u],
           \A p \in Participants : u \in prepared'[p] <=> u \in prepared[p]
    PROVE  Voting(u)' /\ Committing(u)'
<1>1. Voting(u)'
  BY Zenon DEF Voting
<1>2. Committing(u)'
  BY Zenon DEF Committing
<1>3. QED BY <1>1, <1>2, Zenon

LEMMA TransactionsStep == CommitInv /\ [CommitNext]_commitVars => CommitInv'
<1> SUFFICES ASSUME CommitInv, [CommitNext]_commitVars PROVE CommitInv'
  BY Zenon
<1>0. CommitTypes /\ (\A t \in Txs : Voting(t) /\ Committing(t)) /\ VersionsCount
  BY Zenon DEF CommitInv
<1>s. ASSUME written' = written, versions' = versions PROVE VersionsCount'
  BY <1>0, <1>s, Zenon DEF VersionsCount, WrittenAt
<1>1. ASSUME NEW t \in Txs, Begin(t) PROVE CommitInv'
  <2>1. CommitTypes'
    BY <1>0, <1>1, Zenon DEF Begin, CommitTypes
  <2>2. VersionsCount'
    BY <1>1, <1>s, Zenon DEF Begin
  <2>3. ASSUME NEW u \in Txs, u # t PROVE Voting(u)' /\ Committing(u)'
    <3>1. /\ toPrepare'[u] = toPrepare[u] /\ votes'[u] = votes[u] /\ toCommit'[u] = toCommit[u]
          /\ phase'[u] = phase[u] /\ written'[u] = written[u] /\ prepared' = prepared
      BY <1>0, <1>1, <2>3, Zenon DEF Begin, CommitTypes
    <3>2. QED BY <1>0, <2>3, <3>1, OthersStay, Zenon
  <2>4. Voting(t)' /\ Committing(t)'
    <3>1. /\ phase[t] = "idle" /\ phase'[t] = "prepare" /\ toPrepare'[t] = Participants
          /\ prepared' = prepared /\ votes' = votes /\ toCommit' = toCommit /\ written' = written
      BY <1>0, <1>1, Zenon DEF Begin, CommitTypes
    <3>2. Participants \ toPrepare'[t] = {}
      BY <3>1, Zenon
    <3>3. votes'[t] = Cardinality(Participants \ toPrepare'[t])
      BY <1>0, <3>1, <3>2, FS_EmptySet, Zenon DEF Voting
    <3>4. Voting(t)'
      BY <1>0, <3>1, <3>3, Zenon DEF Voting
    <3>5. Committing(t)'
      BY <3>1, Zenon DEF Committing
    <3>6. QED BY <3>4, <3>5, Zenon
  <2>5. QED BY <2>1, <2>2, <2>3, <2>4, Zenon DEF CommitInv
<1>2. ASSUME NEW t \in Txs, NEW p \in Participants, Prepare(t, p) PROVE CommitInv'
  <2>0. /\ phase[t] = "prepare" /\ p \in toPrepare[t] /\ toPrepare'[t] = toPrepare[t] \ {p}
        /\ votes'[t] = votes[t] + 1
        /\ \A q \in Participants : prepared'[q] = IF q = p THEN prepared[q] \cup {t} ELSE prepared[q]
        /\ phase' = phase /\ toCommit' = toCommit /\ written' = written /\ versions' = versions
        /\ toPrepare[t] \subseteq Participants
    BY <1>0, <1>2, Zenon DEF Prepare, CommitTypes, Voting, Committing
  <2>1. CommitTypes'
    BY <1>0, <1>2 DEF Prepare, CommitTypes
  <2>2. VersionsCount'
    BY <1>2, <1>s, Zenon DEF Prepare
  <2>3. ASSUME NEW u \in Txs, u # t PROVE Voting(u)' /\ Committing(u)'
    <3>1. toPrepare'[u] = toPrepare[u] /\ votes'[u] = votes[u]
      BY <1>0, <1>2, <2>3, Zenon DEF Prepare, CommitTypes
    <3>2. QED BY <1>0, <2>0, <2>3, <3>1, OthersStay, Zenon
  <2>4. votes'[t] = Cardinality(Participants \ toPrepare'[t])
    <3>1. /\ Participants \ toPrepare'[t] = (Participants \ toPrepare[t]) \cup {p}
          /\ p \notin Participants \ toPrepare[t]
      BY <2>0, Zenon
    <3>2. IsFiniteSet(Participants \ toPrepare[t])
      BY CommitAssumption, FS_Difference, Zenon
    <3>3. votes[t] = Cardinality(Participants \ toPrepare[t])
      BY <1>0, <2>0, Zenon DEF Voting
    <3>4. Cardinality((Participants \ toPrepare[t]) \cup {p}) = Cardinality(Participants \ toPrepare[t]) + 1
      BY <3>1, <3>2, FS_AddElement, Zenon
    <3>5. QED BY <2>0, <3>1, <3>3, <3>4, Zenon
  <2>5. Voting(t)' /\ Committing(t)'
    <3>1. \A q \in Participants : t \in prepared'[q] <=> q \notin toPrepare'[t]
      BY <1>0, <2>0 DEF Voting
    <3>2. Voting(t)'
      BY <1>0, <2>0, <2>4, <3>1, Zenon DEF Voting
    <3>3. Committing(t)'
      BY <2>0, Zenon DEF Committing
    <3>4. QED BY <3>2, <3>3, Zenon
  <2>6. QED BY <2>1, <2>2, <2>3, <2>5, Zenon DEF CommitInv
<1>3. ASSUME NEW t \in Txs, Decide(t) PROVE CommitInv'
  <2>0. /\ phase[t] = "prepare" /\ phase'[t] = "commit" /\ toCommit'[t] = Participants
        /\ prepared' = prepared /\ versions' = versions /\ toPrepare' = toPrepare
        /\ votes' = votes /\ written' = written /\ toPrepare[t] \subseteq Participants
    BY <1>0, <1>3, Zenon DEF Decide, CommitTypes
  <2>1. CommitTypes'
    BY <1>0, <1>3, Zenon DEF Decide, CommitTypes
  <2>2. VersionsCount'
    BY <2>0, <1>s, Zenon
  <2>3. ASSUME NEW u \in Txs, u # t PROVE Voting(u)' /\ Committing(u)'
    <3>1. phase'[u] = phase[u] /\ toCommit'[u] = toCommit[u]
      BY <1>0, <1>3, <2>3, Zenon DEF Decide, CommitTypes
    <3>2. QED BY <1>0, <2>0, <2>3, <3>1, OthersStay, Zenon
  <2>4. toPrepare[t] = {}
    <3>1. Cardinality(Participants \ toPrepare[t]) = Cardinality(Participants)
      BY <1>0, <1>3, <2>0, Zenon DEF Decide, AllVoted, Voting
    <3>2. Participants \ toPrepare[t] = Participants
      BY <3>1, CommitAssumption, FS_Subset, Zenon
    <3>3. QED BY <2>0, <3>2, Zenon
  <2>5. Voting(t)' /\ Committing(t)'
    <3>1. \A q \in Participants : t \in prepared[q]
      BY <1>0, <2>0, <2>4, Zenon DEF Voting
    <3>2. written[t] = {} /\ votes[t] = Cardinality(Participants \ toPrepare[t])
      BY <1>0, <2>0, Zenon DEF Voting
    <3>3. Voting(t)'
      BY <2>0, <3>2, Zenon DEF Voting
    <3>4. Committing(t)'
      BY <2>0, <2>4, <3>1, <3>2, Zenon DEF Committing
    <3>5. QED BY <3>3, <3>4, Zenon
  <2>6. QED BY <2>1, <2>2, <2>3, <2>5, Zenon DEF CommitInv
<1>4. ASSUME NEW t \in Txs, NEW p \in Participants, Commit(t, p) PROVE CommitInv'
  <2>0. /\ phase[t] = "commit" /\ p \in toCommit[t] /\ t \in prepared[p]
        /\ written[t] = Participants \ toCommit[t] /\ toPrepare[t] = {}
        /\ \A q \in Participants : t \in prepared[q] <=> q \in toCommit[t]
    BY <1>0, <1>4, Zenon DEF Commit, CommitTypes, Voting, Committing
  <2>1. /\ toCommit'[t] = toCommit[t] \ {p} /\ written'[t] = written[t] \cup {p}
        /\ \A q \in Participants : prepared'[q] = IF q = p THEN prepared[q] \ {t} ELSE prepared[q]
        /\ \A q \in Participants : versions'[q] = IF q = p THEN versions[q] + 1 ELSE versions[q]
        /\ \A u \in Txs : u # t => written'[u] = written[u] /\ toCommit'[u] = toCommit[u]
        /\ toPrepare' = toPrepare /\ votes' = votes /\ phase' = phase
    BY <1>0, <1>4, <2>0 DEF Commit, CommitTypes
  <2>2. CommitTypes'
    BY <1>0, <1>4, <2>0 DEF Commit, CommitTypes
  <2>3. ASSUME NEW u \in Txs, u # t PROVE Voting(u)' /\ Committing(u)'
    BY <1>0, <2>1, <2>3, OthersStay, Zenon
  <2>4. Voting(t)' /\ Committing(t)'
    <3>1. Voting(t)'
      BY <1>0, <2>0, <2>1, Zenon DEF Voting
    <3>2. Committing(t)'
      <4>1. \A q \in Participants : t \in prepared'[q] <=> q \in toCommit'[t]
        BY <2>0, <2>1, Zenon
      <4>2. written'[t] = Participants \ toCommit'[t]
        BY <2>0, <2>1
      <4>3. QED BY <2>0, <2>1, <4>1, <4>2, Zenon DEF Committing
    <3>3. QED BY <3>1, <3>2, Zenon
  <2>5. VersionsCount'
    <3>1. \A q \in Participants : q # p => WrittenAt(q)' = WrittenAt(q)
      BY <2>1 DEF WrittenAt
    <3>2. WrittenAt(p)' = WrittenAt(p) \cup {t} /\ t \notin WrittenAt(p)
      <4>1. \A u \in Txs : p \in written'[u] <=> p \in written[u] \/ u = t
        BY ONLY <1>4, <2>1, Zenon
      <4>2. p \notin written[t]
        BY ONLY <2>0, Zenon
      <4>3. QED BY ONLY <1>4, <4>1, <4>2, Zenon DEF WrittenAt
    <3>3. IsFiniteSet(WrittenAt(p))
      BY CommitAssumption, FS_Subset, Zenon DEF WrittenAt
    <3>4. Cardinality(WrittenAt(p)') = Cardinality(WrittenAt(p)) + 1
      BY <3>2, <3>3, FS_AddElement, Zenon
    <3>5. QED BY <1>0, <2>1, <3>1, <3>4, Zenon DEF VersionsCount
  <2>6. QED BY <2>2, <2>3, <2>4, <2>5, Zenon DEF CommitInv
<1>5. ASSUME NEW t \in Txs, Return(t) PROVE CommitInv'
  <2>0. /\ phase[t] = "commit" /\ phase'[t] = "done" /\ toCommit[t] = {}
        /\ prepared' = prepared /\ versions' = versions /\ toPrepare' = toPrepare
        /\ votes' = votes /\ written' = written /\ toCommit' = toCommit
    BY <1>0, <1>5, Zenon DEF Return, CommitTypes
  <2>1. CommitTypes'
    BY <1>0, <1>5, Zenon DEF Return, CommitTypes
  <2>2. VersionsCount'
    BY <2>0, <1>s, Zenon
  <2>3. ASSUME NEW u \in Txs, u # t PROVE Voting(u)' /\ Committing(u)'
    <3>1. phase'[u] = phase[u]
      BY <1>0, <1>5, <2>3, Zenon DEF Return, CommitTypes
    <3>2. QED BY <1>0, <2>0, <2>3, <3>1, OthersStay, Zenon
  <2>4. Voting(t)' /\ Committing(t)'
    BY <1>0, <2>0, Zenon DEF Voting, Committing
  <2>5. QED BY <2>1, <2>2, <2>3, <2>4, Zenon DEF CommitInv
<1>6. ASSUME UNCHANGED commitVars PROVE CommitInv'
  <2>1. /\ prepared' = prepared /\ storedData' = storedData /\ versions' = versions
        /\ toPrepare' = toPrepare /\ votes' = votes /\ toCommit' = toCommit
        /\ phase' = phase /\ written' = written
    BY <1>6, Zenon DEF commitVars
  <2>2. CommitTypes' /\ VersionsCount'
    BY <1>0, <1>s, <2>1, Zenon DEF CommitTypes
  <2>3. \A t \in Txs : Voting(t)' /\ Committing(t)'
    BY <1>0, <2>1, Zenon DEF Voting, Committing
  <2>4. QED BY <2>2, <2>3, Zenon DEF CommitInv
<1>7. QED BY <1>1, <1>2, <1>3, <1>4, <1>5, <1>6, Zenon DEF CommitNext

LEMMA TransactionsRight == CommitInv => CommitTypeOK /\ AllOrNothing
<1> SUFFICES ASSUME CommitInv PROVE CommitTypeOK /\ AllOrNothing
  BY Zenon
<1>0. CommitTypes /\ (\A t \in Txs : Voting(t) /\ Committing(t)) /\ VersionsCount
  BY Zenon DEF CommitInv
<1>1. CommitTypeOK
  <2>1. \A p \in Participants : versions[p] \in 0 .. Cardinality(Txs)
    <3>1. \A p \in Participants : WrittenAt(p) \subseteq Txs
      BY Zenon DEF WrittenAt
    <3>2. \A p \in Participants : Cardinality(WrittenAt(p)) <= Cardinality(Txs)
      BY <3>1, CommitAssumption, FS_Subset, Zenon
    <3>3. Cardinality(Txs) \in Nat
      BY CommitAssumption, FS_CardinalityType, Zenon
    <3>4. QED BY <1>0, <3>2, <3>3 DEF VersionsCount, CommitTypes
  <2>2. \A t \in Txs : votes[t] \in 0 .. Cardinality(Participants)
    <3> SUFFICES ASSUME NEW t \in Txs PROVE votes[t] \in 0 .. Cardinality(Participants)
      BY Zenon
    <3>1. Cardinality(Participants) \in Nat /\ votes[t] \in Nat
      BY <1>0, CommitAssumption, FS_CardinalityType, Zenon DEF CommitTypes
    <3>2. Cardinality(Participants \ toPrepare[t]) <= Cardinality(Participants)
      BY CommitAssumption, FS_Subset, Zenon
    <3>3. QED BY <1>0, <3>1, <3>2 DEF Voting
  <2>3. QED BY <1>0, <2>1, <2>2, Zenon DEF CommitTypes, CommitTypeOK
<1>2. \A t \in Txs : written[t] # {} => phase[t] \in {"commit", "done"}
  BY <1>0, Zenon DEF CommitTypes, Voting
<1>3. \A t \in Txs : written[t] # {} =>
          \A p \in Participants : p \in written[t] \/ t \in prepared[p]
  BY <1>0, <1>2, Zenon DEF Committing
<1>4. \A t \in Txs : phase[t] = "done" =>
          written[t] = Participants /\ \A p \in Participants : t \notin prepared[p]
  BY <1>0, Zenon DEF Committing
<1>5. (\A t \in Txs : phase[t] \in {"idle", "done"}) =>
          \A p \in Participants : versions[p] = Cardinality({t \in Txs : phase[t] = "done"})
  <2> SUFFICES ASSUME \A t \in Txs : phase[t] \in {"idle", "done"}, NEW p \in Participants
               PROVE  versions[p] = Cardinality({t \in Txs : phase[t] = "done"})
    BY Zenon
  <2>1. \A t \in Txs : p \in written[t] <=> phase[t] = "done"
    BY <1>2, <1>4, Zenon
  <2>2. WrittenAt(p) = {t \in Txs : phase[t] = "done"}
    BY <2>1, Zenon DEF WrittenAt
  <2>3. QED BY <1>0, <2>2, Zenon DEF VersionsCount
<1>6. QED BY <1>1, <1>3, <1>4, <1>5, Zenon DEF AllOrNothing

\* executeTx is atomic for any finite number of participants and of transactions that run
\* side by side: nobody writes before all have prepared, what returned is written
\* everywhere and prepared nowhere, and in quiet states the versions agree.
THEOREM CommitIsAtomic == CommitSpec => [](CommitTypeOK /\ AllOrNothing)
<1> QED BY TransactionsInitially, TransactionsStep, TransactionsRight, PTL DEF CommitSpec
-----------------------------------------------------------------------------
\* What the provers know of sequences, stated once for the steps that need it.
LEMMA LenProperties ==
    ASSUME NEW S, NEW seq \in Seq(S)
    PROVE  Len(seq) \in Nat /\ seq \in [1 .. Len(seq) -> S] /\ DOMAIN seq = 1 .. Len(seq)
OBVIOUS

LEMMA ElementOfSeq ==
    ASSUME NEW S, NEW seq \in Seq(S), NEW i \in 1 .. Len(seq) PROVE seq[i] \in S
OBVIOUS

LEMMA EmptySeq ==
    ASSUME NEW S
    PROVE  /\ <<>> \in Seq(S) /\ Len(<<>>) = 0
           /\ \A seq \in Seq(S) : seq # <<>> => Len(seq) \in Nat \ {0}
OBVIOUS

LEMMA AppendProperties ==
    ASSUME NEW S, NEW seq \in Seq(S), NEW e \in S
    PROVE  /\ Append(seq, e) \in Seq(S) /\ Append(seq, e) # <<>>
           /\ Len(Append(seq, e)) = Len(seq) + 1 /\ Append(seq, e)[Len(seq) + 1] = e
           /\ \A i \in 1 .. Len(seq) : Append(seq, e)[i] = seq[i]
OBVIOUS

\* A sequence with one more element, element by element.
LEMMA Appended ==
    ASSUME NEW S, NEW seq \in Seq(S), NEW e \in S
    PROVE  /\ Append(seq, e) \in Seq(S) /\ Len(seq) \in Nat
           /\ Len(Append(seq, e)) = Len(seq) + 1
           /\ DOMAIN seq = 1 .. Len(seq)
           /\ DOMAIN Append(seq, e) = 1 .. Len(seq) + 1
           /\ \A i \in 1 .. Len(seq) : Append(seq, e)[i] = seq[i] /\ seq[i] \in S
           /\ Append(seq, e)[Len(seq) + 1] = e
           /\ Append(seq, e) # <<>>
BY AppendProperties, LenProperties, ElementOfSeq
-----------------------------------------------------------------------------
(***************************************************************************)
(* The proof-of-work chain.                                                *)
(***************************************************************************)
\* The place after the last of n, and those before it.
LEMMA OneBeyond ==
    ASSUME NEW n \in Nat
    PROVE  /\ n + 1 \in 1 .. n + 1 /\ 1 .. n \subseteq 1 .. n + 1
           /\ \A i \in 1 .. n + 1 :
                 /\ i \in 1 .. n \/ i = n + 1
                 /\ i # 1 => i - 1 \in 1 .. n
                 /\ i = n + 1 => i - 1 = n /\ (i = 1 <=> n = 0)
OBVIOUS

BlockSet == [hash : Int, prevHash : Int, txs : SUBSET Transfers]

WorkTypes ==
    /\ blocks \in Seq(BlockSet)
    /\ mempool \subseteq Transfers /\ lost \subseteq Transfers /\ submitted \subseteq Transfers
    /\ minerPc \in [Miners -> {"idle", "flagged", "search", "reset", "returned"}]
    /\ DOMAIN block = Miners
    /\ \A m \in Miners : minerPc[m] = "search" => block[m] \in BlockSet

MiningType == mining \in BOOLEAN

\* The flag keeps all miners but one out, from the CompareAndSwap to the store.
Mines(m) == minerPc[m] \in {"flagged", "search", "reset"}

OneMines ==
    /\ \A m \in Miners : Mines(m) => mining
    /\ \A m, n \in Miners : Mines(m) /\ Mines(n) => m = n

\* The block that is searched for still follows the last one.
OnTop == \A m \in Miners : minerPc[m] = "search" => block[m].prevHash = LastHash

Linked ==
    \A i \in 1 .. Len(blocks) :
        blocks[i].prevHash = IF i = 1 THEN 0 ELSE blocks[i - 1].hash

\* A transaction is in the mempool, in the block being worked on, lost, or in one block.
Apart ==
    /\ \A i \in 1 .. Len(blocks) : blocks[i].txs \cap (mempool \cup lost) = {}
    /\ \A i, j \in 1 .. Len(blocks) : i # j => blocks[i].txs \cap blocks[j].txs = {}
    /\ \A m \in Miners : minerPc[m] = "search" =>
          /\ block[m].txs \cap (mempool \cup lost) = {}
          /\ \A i \in 1 .. Len(blocks) : block[m].txs \cap blocks[i].txs = {}
    /\ mempool \cap lost = {}

\* Where a transaction can be that was submitted, and nothing else is there.
Kept ==
    /\ \A tx \in submitted :
          \/ tx \in mempool \cup lost
          \/ \E i \in 1 .. Len(blocks) : tx \in blocks[i].txs
          \/ \E m \in Miners : minerPc[m] = "search" /\ tx \in block[m].txs
    /\ mempool \cup lost \subseteq submitted
    /\ \A i \in 1 .. Len(blocks) : blocks[i].txs \subseteq submitted
    /\ \A m \in Miners : minerPc[m] = "search" => block[m].txs \subseteq submitted

WorkInv == WorkTypes /\ MiningType /\ OneMines /\ OnTop /\ Linked /\ Apart /\ Kept

LEMMA WorkInitially == WorkInit => WorkInv
<1> SUFFICES ASSUME WorkInit PROVE WorkInv
  BY Zenon
<1>1. blocks \in Seq(BlockSet) /\ Len(blocks) = 0
  BY EmptySeq, Zenon DEF WorkInit
<1>2. WorkTypes
  BY <1>1, Zenon DEF WorkInit, WorkTypes
<1>3. MiningType
  BY Zenon DEF WorkInit, MiningType
<1>4. OneMines /\ OnTop
  BY Zenon DEF WorkInit, OneMines, Mines, OnTop
<1>5. Linked /\ Apart /\ Kept
  BY <1>1 DEF WorkInit, Linked, Apart, Kept
<1> QED
  BY <1>2, <1>3, <1>4, <1>5, Zenon DEF WorkInv

\* The hash that the next block refers to.
LEMMA LastOf ==
    ASSUME blocks \in Seq(BlockSet)
    PROVE  /\ Len(blocks) \in Nat
           /\ LastHash = IF Len(blocks) = 0 THEN 0 ELSE blocks[Len(blocks)].hash
           /\ LastHash \in Int
<1>1. Len(blocks) \in Nat /\ (blocks # <<>> => Len(blocks) # 0) /\ (blocks = <<>> => Len(blocks) = 0)
  BY EmptySeq, LenProperties, Zenon
<1>2. Len(blocks) # 0 => blocks[Len(blocks)] \in BlockSet
  BY <1>1, ElementOfSeq
<1> QED
  BY <1>1, <1>2 DEF LastHash, BlockSet

LEMMA AddTransactionStep ==
    ASSUME WorkInv, NEW tx \in Transfers, AddTransaction(tx) PROVE WorkInv'
<1>1. /\ UNCHANGED <<blocks, mining, minerPc, block, lost>> /\ mempool' = mempool \cup {tx}
      /\ tx \notin submitted /\ submitted' = submitted \cup {tx}
  BY Zenon DEF AddTransaction
<1>2. tx \notin lost
  BY <1>1, Zenon DEF WorkInv, Kept
<1>4. \A i \in 1 .. Len(blocks) : tx \notin blocks[i].txs
  BY <1>1, Zenon DEF WorkInv, Kept
<1>5. \A m \in Miners : minerPc[m] = "search" => tx \notin block[m].txs
  BY <1>1, Zenon DEF WorkInv, Kept
<1>6. Apart'
  BY <1>1, <1>2, <1>4, <1>5 DEF WorkInv, Apart
<1>9. Kept'
  BY <1>1, Zenon DEF WorkInv, Kept
<1>7. WorkTypes' /\ MiningType'
  BY <1>1, Zenon DEF WorkInv, WorkTypes, MiningType
<1>8. OneMines' /\ OnTop' /\ Linked'
  BY <1>1, Zenon DEF WorkInv, OneMines, Mines, OnTop, LastHash, Linked
<1> QED
  BY <1>6, <1>7, <1>8, <1>9, Zenon DEF WorkInv

\* The steps that only move a miner, beside taking the flag and resetting it.
LEMMA FlagStep ==
    ASSUME WorkInv, NEW m \in Miners, TakeFlag(m) \/ NothingToMine(m) \/ ResetFlag(m) PROVE WorkInv'
<1>1. /\ UNCHANGED <<blocks, mempool, block, lost, submitted>> /\ minerPc[m] # "search"
      /\ minerPc' \in [Miners -> {"idle", "flagged", "search", "reset", "returned"}]
      /\ minerPc'[m] # "search"
      /\ \A n \in Miners \ {m} : minerPc'[n] = minerPc[n]
  BY Zenon DEF WorkInv, WorkTypes, TakeFlag, NothingToMine, ResetFlag, Goto
<1>2. WorkTypes' /\ OnTop' /\ Linked' /\ Apart'
  BY <1>1 DEF WorkInv, WorkTypes, OnTop, LastHash, Linked, Apart
<1>3. MiningType'
  BY Zenon DEF WorkInv, MiningType, TakeFlag, NothingToMine, ResetFlag
<1>5. Kept'
  BY <1>1, Zenon DEF WorkInv, Kept
<1>4. OneMines'
  BY <1>1 DEF WorkInv, WorkTypes, OneMines, Mines, TakeFlag, MayMine, NothingToMine, ResetFlag, Goto
<1> QED
  BY <1>2, <1>3, <1>4, <1>5, Zenon DEF WorkInv

LEMMA StartBlockStep == ASSUME WorkInv, NEW m \in Miners, StartBlock(m) PROVE WorkInv'
<1>0. PICK hash \in 1 .. Cardinality(Transfers) :
          block' = [block EXCEPT ![m] = Block(hash, LastHash, mempool)]
  BY Zenon DEF StartBlock
<1>h. hash \in Int
  BY ONLY ChainAssumption, FS_CardinalityType
<1>1. UNCHANGED <<blocks, mining, lost, submitted>> /\ mempool' = {} /\ minerPc[m] = "flagged"
  BY Zenon DEF StartBlock, Goto
<1>2. /\ minerPc' \in [Miners -> {"idle", "flagged", "search", "reset", "returned"}]
      /\ minerPc'[m] = "search"
      /\ \A n \in Miners \ {m} : minerPc'[n] = minerPc[n]
  BY Zenon DEF WorkInv, WorkTypes, StartBlock, Goto
<1>3. /\ DOMAIN block' = Miners
      /\ block'[m] = Block(hash, LastHash, mempool)
      /\ \A n \in Miners \ {m} : block'[n] = block[n]
  BY <1>0, Zenon DEF WorkInv, WorkTypes
<1>4. /\ block'[m] \in BlockSet /\ block'[m].prevHash = LastHash /\ block'[m].txs = mempool
  BY <1>3, <1>h, LastOf DEF WorkInv, WorkTypes, Block, BlockSet
<1>5. WorkTypes' /\ MiningType'
  BY <1>1, <1>2, <1>3, <1>4, Zenon DEF WorkInv, WorkTypes, MiningType
<1>6. OneMines'
  BY <1>1, <1>2, Zenon DEF WorkInv, OneMines, Mines
<1>7. OnTop' /\ Linked'
  <2>1. LastHash' = LastHash
    BY <1>1, Zenon DEF LastHash
  <2> QED
    BY <1>1, <1>2, <1>3, <1>4, <2>1, Zenon DEF WorkInv, OnTop, Linked
<1>8. Apart'
  BY <1>1, <1>2, <1>3, <1>4 DEF WorkInv, Apart
<1>9. Kept'
  BY <1>1, <1>2, <1>3, <1>4, Zenon DEF WorkInv, Kept
<1> QED
  BY <1>5, <1>6, <1>7, <1>8, <1>9, Zenon DEF WorkInv

\* The last block, or the one given up: nobody else searches meanwhile.
LEMMA AppendBlockStep ==
    ASSUME WorkInv, NEW m \in Miners, AppendBlock(m) \/ Cancel(m) PROVE WorkInv'
<1>1. UNCHANGED <<mempool, mining, block, submitted>> /\ minerPc[m] = "search" /\ block[m] \in BlockSet
  BY Zenon DEF AppendBlock, Cancel, Goto, WorkInv, WorkTypes
<1>2. /\ minerPc' \in [Miners -> {"idle", "flagged", "search", "reset", "returned"}]
      /\ minerPc'[m] = "reset"
      /\ \A n \in Miners \ {m} : minerPc'[n] = minerPc[n]
  BY Zenon DEF WorkInv, WorkTypes, AppendBlock, Cancel, Goto
<1>3. \A n \in Miners : minerPc'[n] # "search"
  BY <1>1, <1>2, Zenon DEF WorkInv, OneMines, Mines
<1>4. OneMines' /\ MiningType' /\ OnTop'
  BY <1>1, <1>2, <1>3, Zenon DEF WorkInv, OneMines, Mines, MiningType, OnTop
<1>5. /\ Len(blocks) \in Nat
      /\ LastHash = IF Len(blocks) = 0 THEN 0 ELSE blocks[Len(blocks)].hash
      /\ block[m].prevHash = LastHash /\ block[m].txs \subseteq Transfers
      /\ block[m].txs \cap (mempool \cup lost) = {}
      /\ \A i \in 1 .. Len(blocks) : block[m].txs \cap blocks[i].txs = {}
  BY <1>1, LastOf, Zenon DEF WorkInv, WorkTypes, OnTop, Apart, BlockSet
<1>k. /\ block[m].txs \subseteq submitted
      /\ \A n \in Miners : minerPc[n] = "search" => n = m
  BY <1>1, Zenon DEF WorkInv, Kept, OneMines, Mines
<1>6. CASE AppendBlock(m)
  <2>1. /\ blocks' \in Seq(BlockSet) /\ Len(blocks') = Len(blocks) + 1
        /\ \A i \in 1 .. Len(blocks) : blocks'[i] = blocks[i]
        /\ blocks'[Len(blocks) + 1] = block[m]
        /\ lost' = lost
    BY <1>1, <1>6, Appended DEF AppendBlock, WorkInv, WorkTypes
  <2>2. WorkTypes'
    BY <1>1, <1>2, <1>3, <2>1, Zenon DEF WorkInv, WorkTypes
  <2>3. Linked'
    <3>1. ASSUME NEW i \in 1 .. Len(blocks) + 1
          PROVE  blocks'[i].prevHash = IF i = 1 THEN 0 ELSE blocks'[i - 1].hash
      <4>1. i # 1 => i - 1 \in 1 .. Len(blocks)
        BY <1>5, <3>1, OneBeyond, Zenon
      <4>2. CASE i \in 1 .. Len(blocks)
        BY <2>1, <4>1, <4>2, Zenon DEF WorkInv, Linked
      <4>3. CASE i = Len(blocks) + 1
        <5>1. i - 1 = Len(blocks) /\ (i = 1 <=> Len(blocks) = 0)
          BY <1>5, <4>3, OneBeyond, Zenon
        <5> QED
          BY <1>5, <2>1, <4>1, <4>3, <5>1, Zenon
      <4> QED
        BY <1>5, <3>1, <4>2, <4>3, OneBeyond, Zenon
    <3> QED
      BY <2>1, <3>1, Zenon DEF Linked
  <2>4. Apart'
    <3>0. \A i \in 1 .. Len(blocks) + 1 : i \in 1 .. Len(blocks) \/ i = Len(blocks) + 1
      BY <1>5, OneBeyond, Zenon
    <3>1. \A i \in 1 .. Len(blocks) + 1 : blocks'[i].txs \cap (mempool \cup lost) = {}
      BY <1>5, <2>1, <3>0, Zenon DEF WorkInv, Apart
    <3>2. \A i, j \in 1 .. Len(blocks) + 1 : i # j => blocks'[i].txs \cap blocks'[j].txs = {}
      BY <1>5, <2>1, <3>0, Zenon DEF WorkInv, Apart
    <3> QED
      BY <1>1, <1>3, <2>1, <3>1, <3>2, Zenon DEF WorkInv, Apart
  <2>5. Kept'
    <3>1. Len(blocks) + 1 \in 1 .. Len(blocks) + 1 /\ 1 .. Len(blocks) \subseteq 1 .. Len(blocks) + 1
      BY <1>5, OneBeyond, Zenon
    <3>2. \A i \in 1 .. Len(blocks) + 1 : i \in 1 .. Len(blocks) \/ i = Len(blocks) + 1
      BY <1>5, OneBeyond, Zenon
    <3>3. \A i \in 1 .. Len(blocks') : blocks'[i].txs \subseteq submitted
      BY <1>k, <2>1, <3>2, Zenon DEF WorkInv, Kept
    <3>4. \A tx \in submitted :
             \/ tx \in mempool \cup lost
             \/ \E i \in 1 .. Len(blocks') : tx \in blocks'[i].txs
      BY <1>k, <2>1, <3>1, Zenon DEF WorkInv, Kept
    <3> QED
      BY <1>1, <1>3, <2>1, <3>3, <3>4, Zenon DEF WorkInv, Kept
  <2> QED
    BY <1>4, <2>2, <2>3, <2>4, <2>5, Zenon DEF WorkInv
<1>7. CASE Cancel(m)
  <2>1. blocks' = blocks /\ lost' = lost \cup block[m].txs
    BY <1>7, Zenon DEF Cancel
  <2>2. WorkTypes' /\ Linked'
    BY <1>1, <1>2, <1>3, <1>5, <2>1, Zenon DEF WorkInv, WorkTypes, Linked
  <2>3. Apart'
    BY <1>1, <1>3, <1>5, <2>1, Zenon DEF WorkInv, Apart
  <2>4. Kept'
    BY <1>1, <1>3, <1>k, <2>1, Zenon DEF WorkInv, Kept
  <2> QED
    BY <1>4, <2>2, <2>3, <2>4, Zenon DEF WorkInv
<1> QED
  BY <1>6, <1>7, Zenon

LEMMA WorkStep == WorkInv /\ [WorkNext]_workVars => WorkInv'
<1>1. WorkInv /\ UNCHANGED workVars => WorkInv'
  BY DEF workVars, WorkInv, WorkTypes, MiningType, OneMines, Mines, OnTop, LastHash, Linked, Apart, Kept
<1> QED
  BY <1>1, AddTransactionStep, FlagStep, StartBlockStep, AppendBlockStep, Zenon DEF WorkNext, Mine

\* The invariant says what the run checks of the mined chain.
LEMMA WorkRight == WorkInv => WorkTypeOK /\ ChainValid
<1> SUFFICES ASSUME WorkInv PROVE WorkTypeOK /\ ChainValid
  BY Zenon
<1>1. DOMAIN blocks = 1 .. Len(blocks) /\ \A i \in 1 .. Len(blocks) : blocks[i] \in BlockSet
  BY LenProperties, ElementOfSeq, Zenon DEF WorkInv, WorkTypes
<1>2. WorkTypeOK
  BY <1>1, Zenon DEF WorkInv, WorkTypes, MiningType, WorkTypeOK, BlockSet
<1>3. (mempool \cup InBlocks(Working) \cup lost) \cap Chained = {}
  BY <1>1 DEF WorkInv, Apart, InBlocks, Working, Chained
<1>4. InBlocks(Working) \cap (mempool \cup lost) = {}
  BY DEF WorkInv, Apart, InBlocks, Working
<1>5. submitted = mempool \cup InBlocks(Working) \cup lost \cup Chained
  <2>1. /\ \A tx : tx \in Chained <=> \E i \in 1 .. Len(blocks) : tx \in blocks[i].txs
        /\ \A tx : tx \in InBlocks(Working) <=> \E m \in Miners : minerPc[m] = "search" /\ tx \in block[m].txs
    BY <1>1, Zenon DEF InBlocks, Working, Chained
  <2> QED
    BY <2>1, Zenon DEF WorkInv, Kept
<1> QED
  BY <1>1, <1>2, <1>3, <1>4, <1>5, Zenon DEF WorkInv, Linked, Apart, ChainValid, ValidateChain
-----------------------------------------------------------------------------
(***************************************************************************)
(* The PBFT node.                                                          *)
(***************************************************************************)
PBFTTypes ==
    /\ view = 0 /\ sequence \in 0 .. MaxProposals
    /\ prepares \in [Keys -> Nat] /\ commits \in [Keys -> Nat]
    /\ decided \in Seq(BlockProposals)
    /\ proposal \in [BlockProposals -> {"no", "wait", "ok", "timeout"}]

\* A proposal waits with the sequence that it was given, or with a later one.
InOrder == \A p \in BlockProposals : proposal[p] # "no" <=> p <= sequence

Counted == \A s \in BlockProposals : Copies(s) = Beyond(commits[<<0, s>>])

Backed == \A k \in Keys : <<"COMMIT", k[1], k[2]>> \in broadcasts => prepares[k] >= CommitQuorum

OneView == \A k \in Keys : k[1] # 0 => prepares[k] = 0 /\ commits[k] = 0

Answered ==
    \A p \in BlockProposals :
        proposal[p] = "ok" => \E s \in p .. MaxProposals : commits[<<0, s>>] >= CommitQuorum

PBFTInv == PBFTTypes /\ InOrder /\ Counted /\ Backed /\ OneView /\ Answered

LEMMA QuorumType == faultNodes \in Nat /\ CommitQuorum = 2 * faultNodes + 1 /\ MaxProposals \in Nat
BY ChainAssumption DEF faultNodes, CommitQuorum

LEMMA KeyParts ==
    ASSUME NEW k \in Keys
    PROVE  k = <<k[1], k[2]>> /\ k[1] \in 0 .. 1 /\ k[2] \in BlockProposals
BY DEF Keys, BlockProposals

\* How many copies one more block makes.
LEMMA OneMoreCopy ==
    ASSUME decided \in Seq(BlockProposals), NEW s \in BlockProposals, NEW t \in BlockProposals
    PROVE  /\ Copies(t) \in Nat
           /\ decided' = decided => Copies(t)' = Copies(t)
           /\ decided' = Append(decided, s) => Copies(t)' = IF t = s THEN Copies(t) + 1 ELSE Copies(t)
<1> DEFINE at == {i \in 1 .. Len(decided) : decided[i] = t}
           new == Append(decided, s)
           later == {i \in 1 .. Len(decided) + 1 : new[i] = t}
<1>1. /\ Len(decided) \in Nat /\ DOMAIN decided = 1 .. Len(decided)
      /\ DOMAIN new = 1 .. Len(decided) + 1
      /\ \A i \in 1 .. Len(decided) : new[i] = decided[i]
      /\ new[Len(decided) + 1] = s
  BY Appended
<1>2. Copies(t) = Cardinality(at)
  BY <1>1, Zenon DEF Copies
<1>3. decided' = new => Copies(t)' = Cardinality(later)
  BY <1>1, Zenon DEF Copies
<1>4. IsFiniteSet(at) /\ Cardinality(at) \in Nat
  <2>1. IsFiniteSet(1 .. Len(decided))
    BY <1>1, FS_Interval
  <2> QED
    BY <2>1, FS_Subset, FS_CardinalityType, Zenon
<1>5. Len(decided) + 1 \notin at /\ later = IF t = s THEN at \cup {Len(decided) + 1} ELSE at
  <2> HIDE DEF new
  <2> QED
    BY <1>1
<1>6. Cardinality(later) = IF t = s THEN Cardinality(at) + 1 ELSE Cardinality(at)
  <2> HIDE DEF at, later
  <2> QED
    BY <1>4, <1>5, FS_AddElement, Zenon
<1> QED
  BY <1>2, <1>3, <1>4, <1>6, Zenon DEF Copies

LEMMA PBFTInitially == PBFTInit => PBFTInv
<1> SUFFICES ASSUME PBFTInit PROVE PBFTInv
  BY Zenon
<1>1. PBFTTypes
  BY QuorumType, EmptySeq DEF PBFTInit, PBFTTypes
<1>2. InOrder /\ Answered
  BY QuorumType DEF PBFTInit, InOrder, Answered, BlockProposals
<1>3. Backed /\ OneView
  BY Zenon DEF PBFTInit, Backed, OneView
<1>4. ASSUME NEW s \in BlockProposals PROVE Copies(s) = Beyond(commits[<<0, s>>])
  <2>1. {i \in DOMAIN decided : decided[i] = s} = {}
    BY EmptySeq, LenProperties DEF PBFTInit
  <2>2. <<0, s>> \in Keys /\ commits[<<0, s>>] = 0
    BY DEF PBFTInit, Keys, BlockProposals
  <2> QED
    BY <2>1, <2>2, FS_EmptySet, QuorumType DEF Copies, Beyond
<1> QED
  BY <1>1, <1>2, <1>3, <1>4, Zenon DEF PBFTInv, Counted

LEMMA ProposeStep ==
    ASSUME PBFTInv, NEW p \in BlockProposals, ProposeBlock(p) PROVE PBFTInv'
<1>1. /\ sequence' = sequence + 1 /\ UNCHANGED <<view, prepares, commits, decided>>
      /\ proposal[p] = "no" /\ \A q \in 1..(p - 1) : proposal[q] # "no"
      /\ broadcasts' = broadcasts \cup {<<"PREPREPARE", view, sequence + 1>>}
      /\ proposal' = [proposal EXCEPT ![p] = "wait"]
  BY Zenon DEF ProposeBlock, NotCounts
<1>2. p = sequence + 1 /\ p \in 1 .. MaxProposals /\ MaxProposals \in Nat /\ sequence \in Nat
  <2>1. p \in 1 .. MaxProposals /\ MaxProposals \in Nat /\ sequence \in Nat
    BY QuorumType DEF BlockProposals, PBFTInv, PBFTTypes
  <2>2. ~(p <= sequence)
    BY <1>1, Zenon DEF PBFTInv, InOrder
  <2>3. p - 1 \in 1 .. p - 1 => p - 1 <= sequence
    BY <1>1, <2>1 DEF PBFTInv, InOrder, BlockProposals
  <2> QED
    BY ONLY <2>1, <2>2, <2>3
<1>3. /\ proposal' \in [BlockProposals -> {"no", "wait", "ok", "timeout"}] /\ proposal'[p] = "wait"
      /\ \A q \in BlockProposals \ {p} : proposal'[q] = proposal[q]
  BY <1>1, Zenon DEF PBFTInv, PBFTTypes
<1>4. PBFTTypes'
  BY <1>1, <1>2, <1>3 DEF PBFTInv, PBFTTypes
<1>5. InOrder'
  <2>1. ASSUME NEW q \in BlockProposals PROVE proposal'[q] # "no" <=> q <= sequence + 1
    BY <1>2, <1>3 DEF PBFTInv, InOrder, BlockProposals
  <2> QED
    BY <1>1, <2>1, Zenon DEF InOrder
<1>6. Counted' /\ OneView'
  BY <1>1, Zenon DEF PBFTInv, Counted, Copies, Beyond, OneView
<1>7. Backed'
  BY <1>1, Zenon DEF PBFTInv, Backed
<1>8. Answered'
  BY <1>1, <1>3, Zenon DEF PBFTInv, Answered
<1> QED
  BY <1>4, <1>5, <1>6, <1>7, <1>8, Zenon DEF PBFTInv

LEMMA WaitStep ==
    ASSUME PBFTInv, NEW p \in BlockProposals, waitForConsensus(p) PROVE PBFTInv'
<1>1. /\ UNCHANGED <<view, sequence, prepares, commits, decided, broadcasts>>
      /\ proposal[p] = "wait"
      /\ \/ commits[<<view, sequence>>] >= CommitQuorum /\ proposal' = [proposal EXCEPT ![p] = "ok"]
         \/ proposal' = [proposal EXCEPT ![p] = "timeout"]
  BY Zenon DEF waitForConsensus, NotCounts
<1>2. /\ proposal' \in [BlockProposals -> {"no", "wait", "ok", "timeout"}]
      /\ proposal'[p] # "no"
      /\ proposal'[p] = "ok" => commits[<<view, sequence>>] >= CommitQuorum
      /\ \A q \in BlockProposals \ {p} : proposal'[q] = proposal[q]
  BY <1>1, Zenon DEF PBFTInv, PBFTTypes
<1>3. view = 0 /\ sequence \in p .. MaxProposals
  BY <1>1 DEF PBFTInv, PBFTTypes, InOrder, BlockProposals
<1>4. PBFTTypes' /\ InOrder'
  BY <1>1, <1>2, Zenon DEF PBFTInv, PBFTTypes, InOrder
<1>5. Counted' /\ OneView' /\ Backed'
  BY <1>1, Zenon DEF PBFTInv, Counted, Copies, Beyond, OneView, Backed
<1>6. Answered'
  BY <1>1, <1>2, <1>3, Zenon DEF PBFTInv, Answered
<1> QED
  BY <1>4, <1>5, <1>6, Zenon DEF PBFTInv

\* A counter of one key goes up.
LEMMA OneKey ==
    ASSUME NEW f \in [Keys -> Nat], NEW k \in Keys, NEW g, g = [f EXCEPT ![k] = @ + 1]
    PROVE  /\ g \in [Keys -> Nat] /\ g[k] = f[k] + 1
           /\ \A j \in Keys \ {k} : g[j] = f[j]
           /\ \A j \in Keys : g[j] >= f[j] /\ f[j] \in Nat
OBVIOUS

LEMMA PrepareStep ==
    ASSUME PBFTInv, NEW k \in Keys, k[1] = 0, handlePrepare(k[1], k[2]),
           UNCHANGED <<view, sequence, proposal>>
    PROVE  PBFTInv'
<1>0. /\ prepares \in [Keys -> Nat]
      /\ k = <<k[1], k[2]>>
  BY KeyParts, Zenon DEF PBFTInv, PBFTTypes
<1>1. /\ prepares' = [prepares EXCEPT ![k] = @ + 1]
      /\ broadcasts' = IF prepares[k] + 1 >= CommitQuorum
                       THEN broadcasts \cup {<<"COMMIT", k[1], k[2]>>} ELSE broadcasts
      /\ UNCHANGED <<commits, decided>>
  BY <1>0, Zenon DEF handlePrepare
<1>2. /\ prepares' \in [Keys -> Nat] /\ prepares'[k] = prepares[k] + 1
      /\ \A j \in Keys \ {k} : prepares'[j] = prepares[j]
      /\ \A j \in Keys : prepares'[j] >= prepares[j] /\ prepares[j] \in Nat
  BY ONLY <1>0, <1>1, OneKey, Zenon
<1>3. PBFTTypes' /\ InOrder' /\ Answered'
  BY <1>1, <1>2, Zenon DEF PBFTInv, PBFTTypes, InOrder, Answered
<1>4. Counted'
  BY <1>1, Zenon DEF PBFTInv, Counted, Copies, Beyond
<1>5. OneView'
  BY <1>1, <1>2, Zenon DEF PBFTInv, OneView
<1>6. ASSUME NEW j \in Keys, <<"COMMIT", j[1], j[2]>> \in broadcasts'
      PROVE  prepares'[j] >= CommitQuorum
  <2>1. CASE <<"COMMIT", j[1], j[2]>> \in broadcasts
    BY <1>2, <2>1, QuorumType DEF PBFTInv, Backed
  <2>2. CASE <<"COMMIT", j[1], j[2]>> \notin broadcasts
    <3>1. prepares[k] + 1 >= CommitQuorum /\ <<"COMMIT", j[1], j[2]>> = <<"COMMIT", k[1], k[2]>>
      BY ONLY <1>1, <1>6, <2>2, Zenon
    <3>2. j = k
      BY <3>1, KeyParts, Zenon
    <3> QED
      BY ONLY <1>2, <3>1, <3>2, Zenon
  <2> QED
    BY <2>1, <2>2, Zenon
<1>7. Backed'
  BY <1>6, Zenon DEF Backed
<1> QED
  BY <1>3, <1>4, <1>5, <1>7, Zenon DEF PBFTInv

LEMMA CommitStep ==
    ASSUME PBFTInv, NEW k \in Keys, k[1] = 0, handleCommit(k[1], k[2]),
           UNCHANGED <<view, sequence, proposal>>
    PROVE  PBFTInv'
<1>0. /\ commits \in [Keys -> Nat] /\ decided \in Seq(BlockProposals)
      /\ k = <<k[1], k[2]>> /\ k[2] \in BlockProposals
  BY KeyParts, Zenon DEF PBFTInv, PBFTTypes
<1>1. /\ commits' = [commits EXCEPT ![k] = @ + 1]
      /\ decided' = IF commits[k] + 1 >= CommitQuorum THEN Append(decided, k[2]) ELSE decided
      /\ UNCHANGED <<prepares, broadcasts>>
  BY <1>0, Zenon DEF handleCommit
<1>2. /\ commits' \in [Keys -> Nat] /\ commits'[k] = commits[k] + 1
      /\ \A j \in Keys \ {k} : commits'[j] = commits[j]
      /\ \A j \in Keys : commits'[j] >= commits[j] /\ commits[j] \in Nat
  BY ONLY <1>0, <1>1, OneKey, Zenon
<1>3. decided' \in Seq(BlockProposals)
  BY ONLY <1>0, <1>1, Appended, Zenon
<1>4. PBFTTypes' /\ InOrder'
  BY <1>1, <1>2, <1>3, Zenon DEF PBFTInv, PBFTTypes, InOrder
<1>5. Backed' /\ OneView'
  BY <1>1, <1>2, Zenon DEF PBFTInv, Backed, OneView
<1>6. Answered'
  <2>1. ASSUME NEW p \in BlockProposals, NEW s \in p .. MaxProposals,
               commits[<<0, s>>] >= CommitQuorum
        PROVE  commits'[<<0, s>>] >= CommitQuorum
    <3>1. <<0, s>> \in Keys
      BY QuorumType DEF Keys, BlockProposals
    <3> QED
      BY <1>2, <2>1, <3>1, QuorumType
  <2> QED
    BY <1>1, <2>1, Zenon DEF PBFTInv, Answered
<1>7. ASSUME NEW s \in BlockProposals PROVE Copies(s)' = Beyond(commits'[<<0, s>>])
  <2>1. <<0, s>> \in Keys
    BY QuorumType, Zenon DEF Keys, BlockProposals
  <2>2. Copies(s) = Beyond(commits[<<0, s>>])
    BY Zenon DEF PBFTInv, Counted
  <2>3. /\ Copies(s) \in Nat
        /\ decided' = decided => Copies(s)' = Copies(s)
        /\ decided' = Append(decided, k[2]) => Copies(s)' = IF s = k[2] THEN Copies(s) + 1 ELSE Copies(s)
    BY <1>0, OneMoreCopy, Zenon
  <2>4. CASE s = k[2]
    <3>1. <<0, s>> = k
      BY <1>0, <2>4, Zenon
    <3>2. commits[k] \in Nat /\ commits'[k] = commits[k] + 1 /\ Copies(s) = Beyond(commits[k])
      BY <1>2, <2>2, <3>1, Zenon
    <3>3. Copies(s)' = IF commits[k] + 1 >= CommitQuorum THEN Copies(s) + 1 ELSE Copies(s)
      BY <1>1, <2>3, <2>4, Zenon
    <3>4. Copies(s)' = Beyond(commits'[k])
      BY ONLY <3>2, <3>3, QuorumType DEF Beyond
    <3> QED
      BY <3>1, <3>4, Zenon
  <2>5. CASE s # k[2]
    <3>1. commits'[<<0, s>>] = commits[<<0, s>>]
      BY <1>2, <2>1, <2>5
    <3>2. Copies(s)' = Copies(s)
      BY <1>1, <2>3, <2>5, Zenon
    <3> QED
      BY <2>2, <3>1, <3>2, Zenon
  <2> QED
    BY <2>4, <2>5, Zenon
<1>8. Counted'
  BY <1>7, Zenon DEF Counted, Beyond
<1> QED
  BY <1>4, <1>5, <1>6, <1>8, Zenon DEF PBFTInv

LEMMA HandleStep ==
    ASSUME PBFTInv, NEW type \in {"PREPREPARE", "PREPARE", "COMMIT"}, NEW k \in Keys,
           HandleMessage(type, k[1], k[2])
    PROVE  PBFTInv'
<1>1. k[1] = 0 /\ UNCHANGED <<view, sequence, proposal>>
  BY Zenon DEF HandleMessage, verifyMessage, PBFTInv, PBFTTypes
<1>2. CASE handlePrePrepare(k[1], k[2])
  <2>1. UNCHANGED <<prepares, commits, decided>> /\ broadcasts' = broadcasts \cup {<<"PREPARE", k[1], k[2]>>}
    BY <1>2, Zenon DEF handlePrePrepare, NotCounts
  <2>2. PBFTTypes' /\ InOrder' /\ Answered' /\ Counted' /\ OneView'
    BY <1>1, <2>1, Zenon DEF PBFTInv, PBFTTypes, InOrder, Answered, Counted, Copies, Beyond, OneView
  <2>3. Backed'
    BY <2>1, Zenon DEF PBFTInv, Backed
  <2> QED
    BY <2>2, <2>3, Zenon DEF PBFTInv
<1>3. handlePrePrepare(k[1], k[2]) \/ handlePrepare(k[1], k[2]) \/ handleCommit(k[1], k[2])
  BY Zenon DEF HandleMessage
<1> QED
  BY <1>1, <1>2, <1>3, PrepareStep, CommitStep, Zenon

LEMMA PBFTStep == PBFTInv /\ [PBFTNext]_pbftVars => PBFTInv'
<1>1. PBFTInv /\ UNCHANGED pbftVars => PBFTInv'
  BY Zenon DEF pbftVars, PBFTInv, PBFTTypes, InOrder, Answered, Counted, Copies, Beyond, OneView, Backed
<1> QED
  BY <1>1, ProposeStep, WaitStep, HandleStep, Zenon DEF PBFTNext

\* The invariant says what the run checks of the PBFT node.
LEMMA PBFTIsRight == PBFTInv => PBFTRight
<1> SUFFICES ASSUME PBFTInv PROVE PBFTRight
  BY Zenon
<1>1. view = 0
  BY Zenon DEF PBFTInv, PBFTTypes
<1>2. ASSUME NEW p \in BlockProposals, proposal[p] = "ok"
      PROVE  \E s \in p .. MaxProposals : Copies(s) > 0
  <2>1. PICK s \in p .. MaxProposals : commits[<<0, s>>] >= CommitQuorum
    BY <1>2, Zenon DEF PBFTInv, Answered
  <2>2. s \in BlockProposals /\ <<0, s>> \in Keys
    BY QuorumType DEF BlockProposals, Keys
  <2>3. commits[<<0, s>>] \in Nat /\ Copies(s) = Beyond(commits[<<0, s>>])
    BY <2>2, Zenon DEF PBFTInv, PBFTTypes, Counted
  <2> QED
    BY <2>1, <2>3, QuorumType DEF Beyond
<1> QED
  BY <1>1, <1>2, Zenon DEF PBFTRight, PBFTInv, Counted, Backed, OneView
-----------------------------------------------------------------------------
(***************************************************************************)
(* The Raft node.                                                          *)
(***************************************************************************)
EntrySet == [term : Nat, index : Nat, data : Proposals]

NodeTypes ==
    /\ state \in {"follower", "candidate", "leader"}
    /\ currentTerm \in 0 .. MaxTerm
    /\ running \in {"loop", "follower", "candidate", "leader", "stopped"}

ForcedType == forced \in BOOLEAN

CallTypes ==
    /\ log \in Seq(EntrySet) /\ chain \in Seq(Proposals)
    /\ pc \in [Proposals -> {"idle", "append", "replicate", "ok", "failed"}]
    /\ DOMAIN entry = Proposals

\* The racy counter, and what a goroutine has read of it, is at most one more than the
\* goroutines that have written it.
PeersCounted ==
    /\ success \in [Proposals -> Nat]
    /\ peerPc \in [Proposals -> [Peers -> {"none", "sleep", "add", "done"}]]
    /\ \A c \in Proposals : success[c] \in 1 .. 1 + Cardinality(Replicated(c))
    /\ seen \in [Proposals -> [Peers -> Nat]]
    /\ \A c \in Proposals : \A p \in Peers : seen[c][p] <= 1 + Cardinality(Replicated(c))
    /\ \A c \in Proposals : pc[c] \in {"idle", "append"} => \A p \in Peers : peerPc[c][p] = "none"

\* More than half of the nodes have what is accepted.
ByMajority(c) == 2 * (1 + Cardinality(Replicated(c))) > Cardinality(Peers) + 1

Accepted == \A c \in Proposals : pc[c] = "ok" => ByMajority(c)

\* The log has the entries of different proposals in the order of their terms.
LogOrdered ==
    /\ \A i \in 1 .. Len(log) :
          log[i].index = i - 1 /\ log[i].term <= currentTerm
    /\ \A i, j \in 1 .. Len(log) : i < j => log[i].term <= log[j].term

LogOnce ==
    /\ \A i \in 1 .. Len(log) : pc[log[i].data] \in {"replicate", "ok", "failed"}
    /\ \A i, j \in 1 .. Len(log) : i # j => log[i].data # log[j].data

\* An entry's index is still its place in the log when it is committed.
Placed ==
    \A c \in Proposals : pc[c] \in {"replicate", "ok"} =>
        \E i \in 1 .. Len(log) : entry[c].index = i - 1 /\ log[i].data = c

ChainExact ==
    /\ \A i, j \in 1 .. Len(chain) : chain[i] = chain[j] => i = j
    /\ \A i \in 1 .. Len(chain) : pc[chain[i]] = "ok"
    /\ \A c \in Proposals : pc[c] = "ok" => \E i \in 1 .. Len(chain) : chain[i] = c
    /\ commitIndex = IF Len(chain) = 0 THEN 0 ELSE entry[chain[Len(chain)]].index

RaftInv ==
    /\ NodeTypes /\ ForcedType /\ CallTypes
    /\ PeersCounted /\ Accepted /\ LogOrdered /\ LogOnce /\ Placed /\ ChainExact

LEMMA RaftInitially == RaftInit => RaftInv
<1> SUFFICES ASSUME RaftInit PROVE RaftInv
  BY Zenon
<1>1. log \in Seq(EntrySet) /\ chain \in Seq(Proposals) /\ Len(log) = 0 /\ Len(chain) = 0
  BY EmptySeq, Zenon DEF RaftInit
<1>2. NodeTypes
  BY ChainAssumption DEF RaftInit, NodeTypes
<1>3. ForcedType
  BY Zenon DEF RaftInit, ForcedType
<1>4. CallTypes
  BY <1>1, Zenon DEF RaftInit, CallTypes
<1>5. PeersCounted
  <2>1. \A c \in Proposals : Cardinality(Replicated(c)) = 0
    <3>1. \A c \in Proposals : Replicated(c) = {}
      BY Zenon DEF RaftInit, Replicated
    <3> QED
      BY <3>1, FS_EmptySet, Zenon
  <2> QED
    BY <2>1 DEF RaftInit, PeersCounted
<1>6. LogOrdered /\ LogOnce /\ Placed /\ ChainExact
  BY <1>1 DEF RaftInit, LogOrdered, LogOnce, Placed, ChainExact
<1>7. Accepted
  BY Zenon DEF RaftInit, Accepted
<1> QED
  BY <1>2, <1>3, <1>4, <1>5, <1>6, <1>7, Zenon DEF RaftInv

LEMMA Elements ==
    ASSUME RaftInv
    PROVE  /\ Len(log) \in Nat /\ Len(chain) \in Nat
           /\ \A i \in 1 .. Len(log) :
                 log[i].data \in Proposals /\ log[i].term \in Nat /\ log[i].index \in Nat
           /\ \A i \in 1 .. Len(chain) : chain[i] \in Proposals
<1>1. Len(log) \in Nat /\ Len(chain) \in Nat
  BY LenProperties, Zenon DEF RaftInv, CallTypes
<1>2. \A i \in 1 .. Len(log) : log[i] \in EntrySet
  BY ElementOfSeq, Zenon DEF RaftInv, CallTypes
<1>3. \A i \in 1 .. Len(chain) : chain[i] \in Proposals
  BY ElementOfSeq, Zenon DEF RaftInv, CallTypes
<1> QED
  BY <1>1, <1>2, <1>3, Zenon DEF EntrySet

\* What a step keeps that leaves the log, the chain and the places alone.
LEMMA CallsSame ==
    ASSUME RaftInv, UNCHANGED <<log, commitIndex, chain, pc, entry>>
    PROVE  CallTypes' /\ LogOnce' /\ Placed' /\ ChainExact'
<1>1. CallTypes'
  BY Zenon DEF RaftInv, CallTypes
<1>2. LogOnce'
  BY Zenon DEF RaftInv, LogOnce
<1>3. Placed'
  BY Zenon DEF RaftInv, Placed
<1>4. ChainExact'
  BY Zenon DEF RaftInv, ChainExact
<1> QED
  BY <1>1, <1>2, <1>3, <1>4, Zenon

\* What run does beside the proposals: terms only grow.
LEMMA NodeStep ==
    ASSUME RaftInv, Run \/ FollowerTimeout \/ Campaign \/ Stop \/ ForceLeader PROVE RaftInv'
<1>1. UNCHANGED calls
  BY Zenon DEF Run, FollowerTimeout, Campaign, Stop, ForceLeader
<1>2. NodeTypes' /\ currentTerm' >= currentTerm /\ currentTerm \in Nat /\ currentTerm' \in Nat
  BY ChainAssumption DEF RaftInv, NodeTypes, Run, FollowerTimeout, Campaign, Stop, ForceLeader
<1>3. ForcedType'
  BY Zenon DEF RaftInv, ForcedType, Run, FollowerTimeout, Campaign, Stop, ForceLeader
<1>c. UNCHANGED <<log, commitIndex, chain, pc, entry>> /\ UNCHANGED <<success, peerPc, seen>>
  BY <1>1, Zenon DEF calls
<1>4. PeersCounted' /\ Accepted' /\ CallTypes' /\ LogOnce' /\ Placed' /\ ChainExact'
  <2>1. PeersCounted'
    BY <1>c, Zenon DEF RaftInv, PeersCounted, Replicated
  <2>2. Accepted'
    BY <1>c, Zenon DEF RaftInv, Accepted, ByMajority, Replicated
  <2> QED
    BY <1>c, <2>1, <2>2, CallsSame, Zenon
<1>5. LogOrdered'
  <2>1. \A i \in 1 .. Len(log) : log[i].term \in Nat
    BY Elements, Zenon
  <2>2. log' = log
    BY <1>1, Zenon DEF calls
  <2>3. /\ \A i \in 1 .. Len(log) : log[i].index = i - 1 /\ log[i].term <= currentTerm
        /\ \A i, j \in 1 .. Len(log) : i < j => log[i].term <= log[j].term
    BY Zenon DEF RaftInv, LogOrdered
  <2>4. \A i \in 1 .. Len(log) : log[i].term <= currentTerm'
    BY ONLY <1>2, <2>1, <2>3
  <2> QED
    BY <2>2, <2>3, <2>4, Zenon DEF LogOrdered
<1> QED
  BY <1>2, <1>3, <1>4, <1>5, Zenon DEF RaftInv

\* A proposal is refused or given up: only its place changes.
LEMMA CheckStep ==
    ASSUME RaftInv, NEW c \in Proposals, CheckLeader(c) \/ ReplicationTimeout(c) PROVE RaftInv'
<1>1. UNCHANGED <<node, log, commitIndex, chain, entry, success, peerPc, seen>>
  BY Zenon DEF CheckLeader, ReplicationTimeout
<1>2. /\ pc' \in [Proposals -> {"idle", "append", "replicate", "ok", "failed"}]
      /\ \A d \in Proposals \ {c} : pc'[d] = pc[d]
      /\ \/ pc[c] = "idle" /\ pc'[c] \in {"append", "failed"}
         \/ pc[c] = "replicate" /\ pc'[c] = "failed"
  <2>1. pc \in [Proposals -> {"idle", "append", "replicate", "ok", "failed"}]
    BY Zenon DEF RaftInv, CallTypes
  <2>2. CASE CheckLeader(c)
    <3>1. PICK to \in {"append", "failed"} : pc' = [pc EXCEPT ![c] = to]
      BY <2>2, Zenon DEF CheckLeader
    <3>2. pc[c] = "idle"
      BY <2>2, Zenon DEF CheckLeader
    <3>3. pc'[c] = to /\ pc' \in [Proposals -> {"idle", "append", "replicate", "ok", "failed"}]
      BY <2>1, <3>1, Zenon
    <3>4. \A d \in Proposals \ {c} : pc'[d] = pc[d]
      BY <2>1, <3>1, Zenon
    <3> QED
      BY <3>2, <3>3, <3>4, Zenon
  <2>3. CASE ReplicationTimeout(c)
    BY <2>1, <2>3, Zenon DEF ReplicationTimeout
  <2> QED
    BY <2>2, <2>3, Zenon
<1>n. UNCHANGED <<state, currentTerm, running, forced>>
  BY <1>1, Zenon DEF node
<1>3. NodeTypes' /\ CallTypes' /\ LogOrdered'
  BY <1>1, <1>2, <1>n, Zenon DEF RaftInv, NodeTypes, CallTypes, LogOrdered
<1>4. ForcedType'
  BY <1>n, Zenon DEF RaftInv, ForcedType
<1>5. PeersCounted'
  BY <1>1, <1>2 DEF RaftInv, PeersCounted, Replicated
<1>6. LogOnce'
  <2>1. \A i \in 1 .. Len(log) : log[i].data \in Proposals
    BY Elements, Zenon
  <2>2. \A i \in 1 .. Len(log) : pc'[log[i].data] \in {"replicate", "ok", "failed"}
    BY <1>2, <2>1, Zenon DEF RaftInv, LogOnce
  <2> QED
    BY <1>1, <2>2, Zenon DEF RaftInv, LogOnce
<1>7. Placed'
  BY <1>1, <1>2, Zenon DEF RaftInv, Placed
<1>8. ChainExact'
  <2>1. \A i \in 1 .. Len(chain) : chain[i] \in Proposals
    BY Elements, Zenon
  <2> QED
    BY <1>1, <1>2, <2>1 DEF RaftInv, ChainExact
<1>9. Accepted'
  BY <1>1, <1>2, Zenon DEF RaftInv, Accepted, ByMajority, Replicated
<1> QED
  BY <1>3, <1>4, <1>5, <1>6, <1>7, <1>8, <1>9, Zenon DEF RaftInv

LEMMA AppendEntryStep ==
    ASSUME RaftInv, NEW c \in Proposals, AppendEntry(c) PROVE RaftInv'
<1>1. /\ UNCHANGED <<commitIndex, chain, success, seen>> /\ UNCHANGED <<state, currentTerm, running, forced>>
      /\ pc[c] = "append" /\ pc' = [pc EXCEPT ![c] = "replicate"]
      /\ entry' = [entry EXCEPT ![c] = Entry(currentTerm, Len(log), c)]
      /\ log' = Append(log, entry'[c])
      /\ peerPc' = [peerPc EXCEPT ![c] = [p \in Peers |-> "sleep"]]
  BY Zenon DEF AppendEntry, NextIndex, node
<1>2. /\ pc' \in [Proposals -> {"idle", "append", "replicate", "ok", "failed"}]
      /\ pc'[c] = "replicate" /\ \A d \in Proposals \ {c} : pc'[d] = pc[d]
  BY <1>1, Zenon DEF RaftInv, CallTypes
<1>3. /\ DOMAIN entry' = Proposals /\ entry'[c] = Entry(currentTerm, Len(log), c)
      /\ \A d \in Proposals \ {c} : entry'[d] = entry[d]
  BY <1>1, Zenon DEF RaftInv, CallTypes
<1>4. /\ Len(log) \in Nat /\ Len(chain) \in Nat
      /\ \A i \in 1 .. Len(log) :
            log[i].data \in Proposals /\ log[i].term \in Nat /\ log[i].index \in Nat
      /\ \A i \in 1 .. Len(chain) : chain[i] \in Proposals
  BY Elements, Zenon
<1>t. currentTerm \in Nat
  BY ChainAssumption DEF RaftInv, NodeTypes
<1>5. /\ entry'[c] \in EntrySet /\ entry'[c].term = currentTerm
      /\ entry'[c].index = Len(log) /\ entry'[c].data = c /\ currentTerm \in Nat
  <2>1. Len(log) \in Nat
    BY <1>4, Zenon
  <2>2. entry'[c] = [term |-> currentTerm, index |-> Len(log), data |-> c]
    BY <1>3, Zenon DEF Entry
  <2> QED
    BY <1>t, <2>1, <2>2 DEF EntrySet
<1>6. /\ log' \in Seq(EntrySet) /\ Len(log') = Len(log) + 1
      /\ \A i \in 1 .. Len(log) : log'[i] = log[i]
      /\ log'[Len(log) + 1] = entry'[c]
  BY <1>1, <1>5, Appended DEF RaftInv, CallTypes
<1>e. \A i \in 1 .. Len(log) + 1 : (i \in 1 .. Len(log) /\ log'[i] = log[i]) \/ i = Len(log) + 1
  <2>1. Len(log) \in Nat
    BY ONLY <1>4, Zenon
  <2>2. \A i \in 1 .. Len(log) + 1 : i \in 1 .. Len(log) \/ i = Len(log) + 1
    BY ONLY <2>1
  <2> QED
    BY ONLY <1>6, <2>2, Zenon
<1>7. NodeTypes' /\ CallTypes'
  BY <1>1, <1>2, <1>3, <1>6, Zenon DEF RaftInv, NodeTypes, CallTypes
<1>8. ForcedType'
  BY <1>1, Zenon DEF RaftInv, ForcedType
<1>9. PeersCounted'
  <2>1. /\ peerPc' \in [Proposals -> [Peers -> {"none", "sleep", "add", "done"}]]
        /\ \A p \in Peers : peerPc'[c][p] = "sleep"
        /\ \A d \in Proposals \ {c} : peerPc'[d] = peerPc[d]
    BY <1>1, Zenon DEF RaftInv, PeersCounted
  <2>2. \A p \in Peers : peerPc[c][p] = "none"
    BY <1>1, Zenon DEF RaftInv, PeersCounted
  <2>3. \A d \in Proposals : Replicated(d)' = Replicated(d)
    BY <2>1, <2>2 DEF Replicated
  <2>4. \A d \in Proposals : pc'[d] \in {"idle", "append"} => \A p \in Peers : peerPc'[d][p] = "none"
    <3>1. \A d \in Proposals : pc[d] \in {"idle", "append"} => \A p \in Peers : peerPc[d][p] = "none"
      BY Zenon DEF RaftInv, PeersCounted
    <3> QED
      BY ONLY <1>2, <2>1, <3>1
  <2> QED
    BY <1>1, <2>1, <2>3, <2>4, Zenon DEF RaftInv, PeersCounted
<1>10. LogOrdered'
  <2>1. /\ \A i \in 1 .. Len(log) : log[i].index = i - 1 /\ log[i].term <= currentTerm
        /\ \A i, j \in 1 .. Len(log) : i < j => log[i].term <= log[j].term
    BY Zenon DEF RaftInv, LogOrdered
  <2>2. \A i \in 1 .. Len(log) + 1 : log'[i].index = i - 1 /\ log'[i].term <= currentTerm
    <3>1. /\ log'[Len(log) + 1].index = (Len(log) + 1) - 1
          /\ log'[Len(log) + 1].term <= currentTerm
      BY ONLY <1>4, <1>5, <1>6
    <3> QED
      BY ONLY <1>e, <2>1, <3>1, Zenon
  <2>3. ASSUME NEW i \in 1 .. Len(log) + 1, NEW j \in 1 .. Len(log) + 1, i < j
        PROVE  log'[i].term <= log'[j].term
    <3>1. i \in 1 .. Len(log) /\ log'[i] = log[i]
      BY ONLY <1>4, <1>6, <2>3
    <3>2. CASE j = Len(log) + 1
      BY ONLY <1>5, <1>6, <2>1, <3>1, <3>2, Zenon
    <3>3. CASE j # Len(log) + 1
      <4>1. j \in 1 .. Len(log)
        BY ONLY <1>4, <2>3, <3>3
      <4>2. log'[j] = log[j]
        BY ONLY <1>6, <4>1, Zenon
      <4> QED
        BY ONLY <2>1, <2>3, <3>1, <4>1, <4>2, Zenon
    <3> QED
      BY ONLY <3>2, <3>3, Zenon
  <2> QED
    BY <1>1, <1>6, <2>2, <2>3, Zenon DEF LogOrdered
<1>11. LogOnce'
  <2>1. /\ \A i \in 1 .. Len(log) : pc[log[i].data] \in {"replicate", "ok", "failed"}
        /\ \A i, j \in 1 .. Len(log) : i # j => log[i].data # log[j].data
    BY Zenon DEF RaftInv, LogOnce
  <2>2. \A i \in 1 .. Len(log) : log[i].data # c
    BY ONLY <1>1, <2>1, Zenon
  <2>3. \A i \in 1 .. Len(log) + 1 : \/ i \in 1 .. Len(log) /\ log'[i].data = log[i].data
                                     \/ i = Len(log) + 1 /\ log'[i].data = c
    BY ONLY <1>e, <1>5, <1>6, Zenon
  <2>4. \A i \in 1 .. Len(log) + 1 : pc'[log'[i].data] \in {"replicate", "ok", "failed"}
    BY ONLY <1>2, <1>4, <2>1, <2>2, <2>3
  <2>5. \A i, j \in 1 .. Len(log) + 1 : i # j => log'[i].data # log'[j].data
    BY ONLY <2>1, <2>2, <2>3, Zenon
  <2> QED
    BY <1>6, <2>4, <2>5, Zenon DEF LogOnce
<1>12. Placed'
  <2>1. ASSUME NEW d \in Proposals, pc'[d] \in {"replicate", "ok"}
        PROVE  \E i \in 1 .. Len(log) + 1 : entry'[d].index = i - 1 /\ log'[i].data = d
    <3>1. CASE d = c
      <4>1. Len(log) + 1 \in 1 .. Len(log) + 1 /\ entry'[c].index = (Len(log) + 1) - 1
        BY ONLY <1>4, <1>5
      <4>2. log'[Len(log) + 1].data = c
        BY ONLY <1>5, <1>6, Zenon
      <4> QED
        BY ONLY <3>1, <4>1, <4>2, Zenon
    <3>2. CASE d # c
      <4>1. PICK i \in 1 .. Len(log) : entry[d].index = i - 1 /\ log[i].data = d
        BY <1>2, <2>1, <3>2, Zenon DEF RaftInv, Placed
      <4>2. i \in 1 .. Len(log) + 1
        BY ONLY <1>4
      <4> QED
        BY ONLY <1>3, <1>6, <3>2, <4>1, <4>2, Zenon
    <3> QED
      BY ONLY <3>1, <3>2, Zenon
  <2> QED
    BY <1>6, <2>1, Zenon DEF Placed
<1>13. ChainExact'
  <2>1. \A i \in 1 .. Len(chain) : pc[chain[i]] = "ok" /\ chain[i] # c
    BY <1>1, Zenon DEF RaftInv, ChainExact
  <2>2. Len(chain) # 0 => entry'[chain[Len(chain)]] = entry[chain[Len(chain)]]
    <3>1. Len(chain) # 0 => Len(chain) \in 1 .. Len(chain)
      BY ONLY <1>4
    <3>2. Len(chain) # 0 => chain[Len(chain)] \in Proposals \ {c}
      BY ONLY <1>4, <2>1, <3>1, Zenon
    <3> QED
      BY ONLY <1>3, <3>2, Zenon
  <2>3. \A i \in 1 .. Len(chain) : pc'[chain[i]] = "ok"
    BY ONLY <1>2, <1>4, <2>1, Zenon
  <2>4. commitIndex = IF Len(chain) = 0 THEN 0 ELSE entry'[chain[Len(chain)]].index
    BY <2>2, Zenon DEF RaftInv, ChainExact
  <2>5. \A d \in Proposals : pc'[d] = "ok" => \E i \in 1 .. Len(chain) : chain[i] = d
    BY <1>2, Zenon DEF RaftInv, ChainExact
  <2>6. \A i, j \in 1 .. Len(chain) : chain[i] = chain[j] => i = j
    BY Zenon DEF RaftInv, ChainExact
  <2> QED
    BY <1>1, <2>3, <2>4, <2>5, <2>6 DEF ChainExact
<1>14. Accepted'
  <2>1. \A d \in Proposals \ {c} : Replicated(d)' = Replicated(d)
    <3>1. \A d \in Proposals \ {c} : peerPc'[d] = peerPc[d]
      BY <1>1, Zenon DEF RaftInv, PeersCounted
    <3> QED
      BY <3>1, Zenon DEF Replicated
  <2> QED
    BY <1>2, <2>1, Zenon DEF RaftInv, Accepted, ByMajority
<1> QED
  BY <1>7, <1>8, <1>9, <1>10, <1>11, <1>12, <1>13, <1>14, Zenon DEF RaftInv

\* A goroutine reads the counter: it goes on with a value that is not too large.
LEMMA ReadCountStep ==
    ASSUME RaftInv, NEW c \in Proposals, NEW p \in Peers, ReadCount(c, p) PROVE RaftInv'
<1>1. /\ UNCHANGED <<log, commitIndex, chain, pc, entry>> /\ UNCHANGED <<state, currentTerm, running, forced>>
      /\ success' = success
      /\ peerPc[c][p] = "sleep" /\ peerPc' = [peerPc EXCEPT ![c][p] = "add"]
      /\ seen' = [seen EXCEPT ![c][p] = success[c]]
  BY Zenon DEF ReadCount, node
<1>2. NodeTypes' /\ LogOrdered' /\ CallTypes' /\ LogOnce' /\ Placed' /\ ChainExact'
  <2>1. NodeTypes' /\ LogOrdered'
    BY <1>1, Zenon DEF RaftInv, NodeTypes, LogOrdered
  <2> QED
    BY <1>1, <2>1, CallsSame, Zenon
<1>3. ForcedType'
  BY <1>1, Zenon DEF RaftInv, ForcedType
<1>4. /\ success \in [Proposals -> Nat] /\ seen \in [Proposals -> [Peers -> Nat]]
      /\ peerPc \in [Proposals -> [Peers -> {"none", "sleep", "add", "done"}]]
      /\ \A d \in Proposals : success[d] \in 1 .. 1 + Cardinality(Replicated(d))
      /\ \A d \in Proposals : \A q \in Peers : seen[d][q] <= 1 + Cardinality(Replicated(d))
  BY Zenon DEF RaftInv, PeersCounted
<1>5. /\ peerPc' \in [Proposals -> [Peers -> {"none", "sleep", "add", "done"}]]
      /\ peerPc'[c][p] = "add" /\ \A q \in Peers \ {p} : peerPc'[c][q] = peerPc[c][q]
      /\ \A d \in Proposals \ {c} : peerPc'[d] = peerPc[d]
  BY <1>1, <1>4, Zenon
<1>6. \A d \in Proposals : Replicated(d)' = Replicated(d)
  BY <1>1, <1>5 DEF Replicated
<1>7. /\ seen' \in [Proposals -> [Peers -> Nat]] /\ seen'[c][p] = success[c]
      /\ \A q \in Peers \ {p} : seen'[c][q] = seen[c][q]
      /\ \A d \in Proposals \ {c} : seen'[d] = seen[d]
  BY <1>1, <1>4, Zenon
<1>8. success[c] <= 1 + Cardinality(Replicated(c))
  <2>1. Cardinality(Replicated(c)) \in Nat
    BY ChainAssumption, FS_Subset, FS_CardinalityType, Zenon DEF Replicated
  <2> QED
    BY ONLY <1>4, <2>1
<1>9. \A d \in Proposals : \A q \in Peers : seen'[d][q] <= 1 + Cardinality(Replicated(d))
  BY <1>4, <1>7, <1>8, Zenon
<1>10. \A d \in Proposals : pc[d] \in {"idle", "append"} => \A q \in Peers : peerPc'[d][q] = "none"
  BY <1>1, <1>5 DEF RaftInv, PeersCounted
<1>11. PeersCounted'
  BY <1>1, <1>4, <1>5, <1>6, <1>7, <1>9, <1>10, Zenon DEF PeersCounted
<1>12. Accepted'
  BY <1>1, <1>6, Zenon DEF RaftInv, Accepted, ByMajority
<1> QED
  BY <1>2, <1>3, <1>11, <1>12, Zenon DEF RaftInv

\* It writes one more than it has read, and has then written: whatever it writes over, the
\* counter has not gained on those who have.
LEMMA WriteCountStep ==
    ASSUME RaftInv, NEW c \in Proposals, NEW p \in Peers, WriteCount(c, p) PROVE RaftInv'
<1>1. /\ UNCHANGED <<log, commitIndex, chain, pc, entry>> /\ UNCHANGED <<state, currentTerm, running, forced>>
      /\ peerPc[c][p] = "add" /\ peerPc' = [peerPc EXCEPT ![c][p] = "done"]
      /\ success' = [success EXCEPT ![c] = seen[c][p] + 1]
      /\ seen' = [seen EXCEPT ![c][p] = 0]
  BY Zenon DEF WriteCount, node
<1>2. NodeTypes' /\ LogOrdered' /\ CallTypes' /\ LogOnce' /\ Placed' /\ ChainExact'
  <2>1. NodeTypes' /\ LogOrdered'
    BY <1>1, Zenon DEF RaftInv, NodeTypes, LogOrdered
  <2> QED
    BY <1>1, <2>1, CallsSame, Zenon
<1>3. ForcedType'
  BY <1>1, Zenon DEF RaftInv, ForcedType
<1>5. /\ success \in [Proposals -> Nat] /\ seen \in [Proposals -> [Peers -> Nat]]
      /\ peerPc \in [Proposals -> [Peers -> {"none", "sleep", "add", "done"}]]
      /\ \A d \in Proposals : success[d] \in 1 .. 1 + Cardinality(Replicated(d))
      /\ \A d \in Proposals : \A q \in Peers : seen[d][q] <= 1 + Cardinality(Replicated(d))
  BY Zenon DEF RaftInv, PeersCounted
<1>6. /\ peerPc' \in [Proposals -> [Peers -> {"none", "sleep", "add", "done"}]]
      /\ peerPc'[c][p] = "done" /\ \A q \in Peers \ {p} : peerPc'[c][q] = peerPc[c][q]
      /\ \A d \in Proposals \ {c} : peerPc'[d] = peerPc[d]
  BY <1>1, <1>5, Zenon
<1>s. seen[c][p] \in Nat /\ seen[c][p] + 1 \in Nat
  <2>1. seen[c][p] \in Nat
    BY <1>5, Zenon
  <2> QED
    BY ONLY <2>1
<1>7. /\ success' \in [Proposals -> Nat] /\ success'[c] = seen[c][p] + 1
      /\ \A d \in Proposals \ {c} : success'[d] = success[d]
  BY <1>1, <1>5, <1>s, Zenon
<1>z. /\ seen' \in [Proposals -> [Peers -> Nat]] /\ seen'[c][p] = 0
      /\ \A q \in Peers \ {p} : seen'[c][q] = seen[c][q]
      /\ \A d \in Proposals \ {c} : seen'[d] = seen[d]
  <2>1. 0 \in Nat
    OBVIOUS
  <2> QED
    BY <1>1, <1>5, <2>1, Zenon
<1>8. Replicated(c)' = Replicated(c) \cup {p} /\ p \notin Replicated(c)
  BY <1>1, <1>6, Zenon DEF Replicated
<1>9. IsFiniteSet(Replicated(c)) /\ Cardinality(Replicated(c)) \in Nat
  BY ChainAssumption, FS_Subset, FS_CardinalityType, Zenon DEF Replicated
<1>10. Cardinality(Replicated(c)') = Cardinality(Replicated(c)) + 1
  <2> DEFINE old == Replicated(c)
             new == Replicated(c)'
  <2>1. new = old \cup {p} /\ p \notin old /\ IsFiniteSet(old)
    BY <1>8, <1>9, Zenon
  <2> HIDE DEF old, new
  <2>2. Cardinality(new) = Cardinality(old) + 1
    BY ONLY <2>1, FS_AddElement, Zenon
  <2> QED
    BY <2>2, Zenon DEF old, new
<1>11. \A d \in Proposals \ {c} : Replicated(d)' = Replicated(d)
  BY <1>6, Zenon DEF Replicated
<1>12. ASSUME NEW d \in Proposals PROVE success'[d] \in 1 .. 1 + Cardinality(Replicated(d)')
  <2>1. CASE d = c
    BY ONLY <1>5, <1>7, <1>9, <1>10, <1>s, <2>1
  <2>2. CASE d # c
    BY <1>5, <1>7, <1>11, <2>2, Zenon
  <2> QED
    BY ONLY <2>1, <2>2, Zenon
<1>w. ASSUME NEW d \in Proposals, NEW q \in Peers PROVE seen'[d][q] <= 1 + Cardinality(Replicated(d)')
  <2>1. CASE d = c
    <3>1. seen'[c][q] \in Nat /\ (seen'[c][q] = 0 \/ seen'[c][q] <= 1 + Cardinality(Replicated(c)))
      BY <1>5, <1>z, Zenon
    <3> QED
      BY ONLY <1>9, <1>10, <2>1, <3>1
  <2>2. CASE d # c
    BY <1>5, <1>z, <1>11, <2>2, Zenon
  <2> QED
    BY ONLY <2>1, <2>2, Zenon
<1>13. \A d \in Proposals : pc[d] \in {"idle", "append"} => \A q \in Peers : peerPc'[d][q] = "none"
  BY <1>1, <1>6 DEF RaftInv, PeersCounted
<1>14. PeersCounted'
  BY <1>1, <1>6, <1>7, <1>z, <1>w, <1>12, <1>13, Zenon DEF PeersCounted
<1>15. Accepted'
  <2>1. Cardinality(Peers) \in Nat
    BY ChainAssumption, FS_CardinalityType, Zenon
  <2>2. ByMajority(c) => ByMajority(c)'
    BY <1>9, <1>10, <2>1 DEF ByMajority
  <2>3. \A d \in Proposals \ {c} : ByMajority(d)' <=> ByMajority(d)
    BY <1>11, Zenon DEF ByMajority
  <2> QED
    BY <1>1, <2>2, <2>3, Zenon DEF RaftInv, Accepted
<1> QED
  BY <1>2, <1>3, <1>14, <1>15, Zenon DEF RaftInv

LEMMA CommitEntryStep ==
    ASSUME RaftInv, NEW c \in Proposals, CommitEntry(c) PROVE RaftInv'
<1>1. /\ UNCHANGED <<log, entry, success, peerPc, seen>> /\ UNCHANGED <<state, currentTerm, running, forced>>
      /\ pc[c] = "replicate" /\ pc' = [pc EXCEPT ![c] = "ok"]
      /\ commitIndex' = entry[c].index /\ chain' = Append(chain, c)
  BY Zenon DEF CommitEntry, node
<1>2. /\ pc' \in [Proposals -> {"idle", "append", "replicate", "ok", "failed"}]
      /\ pc'[c] = "ok" /\ \A d \in Proposals \ {c} : pc'[d] = pc[d]
  BY <1>1, Zenon DEF RaftInv, CallTypes
<1>3. /\ Len(log) \in Nat /\ Len(chain) \in Nat
      /\ \A i \in 1 .. Len(log) : log[i].data \in Proposals
      /\ \A i \in 1 .. Len(chain) : chain[i] \in Proposals
  BY Elements, Zenon
<1>4. /\ chain' \in Seq(Proposals) /\ Len(chain') = Len(chain) + 1
      /\ \A i \in 1 .. Len(chain) : chain'[i] = chain[i]
      /\ chain'[Len(chain) + 1] = c
  BY <1>1, Appended DEF RaftInv, CallTypes
<1>5. NodeTypes' /\ CallTypes' /\ LogOrdered'
  BY <1>1, <1>2, <1>4, Zenon DEF RaftInv, NodeTypes, CallTypes, LogOrdered
<1>6. ForcedType'
  BY <1>1, Zenon DEF RaftInv, ForcedType
<1>7. PeersCounted'
  BY <1>1, <1>2 DEF RaftInv, PeersCounted, Replicated
<1>8. LogOnce'
  <2>1. \A i \in 1 .. Len(log) : pc'[log[i].data] \in {"replicate", "ok", "failed"}
    BY <1>2, <1>3, Zenon DEF RaftInv, LogOnce
  <2> QED
    BY <1>1, <2>1, Zenon DEF RaftInv, LogOnce
<1>9. Placed'
  BY <1>1, <1>2, Zenon DEF RaftInv, Placed
<1>10. ChainExact'
  <2>1. /\ \A i, j \in 1 .. Len(chain) : chain[i] = chain[j] => i = j
        /\ \A i \in 1 .. Len(chain) : pc[chain[i]] = "ok"
        /\ \A d \in Proposals : pc[d] = "ok" => \E i \in 1 .. Len(chain) : chain[i] = d
    BY Zenon DEF RaftInv, ChainExact
  <2>2. \A i \in 1 .. Len(chain) + 1 : \/ i \in 1 .. Len(chain) /\ chain'[i] = chain[i] /\ chain[i] # c
                                       \/ i = Len(chain) + 1 /\ chain'[i] = c
    <3>1. \A i \in 1 .. Len(chain) : chain'[i] = chain[i] /\ chain[i] # c
      BY <1>1, <1>4, <2>1, Zenon
    <3>2. \A i \in 1 .. Len(chain) + 1 : i \in 1 .. Len(chain) \/ i = Len(chain) + 1
      BY ONLY <1>3
    <3> QED
      BY ONLY <1>4, <3>1, <3>2, Zenon
  <2>3. \A i, j \in 1 .. Len(chain) + 1 : chain'[i] = chain'[j] => i = j
    BY ONLY <2>1, <2>2
  <2>4. \A i \in 1 .. Len(chain) + 1 : pc'[chain'[i]] = "ok"
    BY ONLY <1>2, <1>3, <2>1, <2>2, Zenon
  <2>5. ASSUME NEW d \in Proposals, pc'[d] = "ok" PROVE \E i \in 1 .. Len(chain) + 1 : chain'[i] = d
    <3>1. CASE d = c
      <4>1. Len(chain) + 1 \in 1 .. Len(chain) + 1
        BY ONLY <1>3
      <4> QED
        BY ONLY <1>4, <3>1, <4>1, Zenon
    <3>2. CASE d # c
      <4>1. PICK i \in 1 .. Len(chain) : chain[i] = d
        BY ONLY <1>2, <2>1, <2>5, <3>2, Zenon
      <4>2. i \in 1 .. Len(chain) + 1
        BY ONLY <1>3
      <4> QED
        BY ONLY <1>4, <4>1, <4>2, Zenon
    <3> QED
      BY ONLY <3>1, <3>2, Zenon
  <2>6. commitIndex' = IF Len(chain') = 0 THEN 0 ELSE entry'[chain'[Len(chain')]].index
    BY ONLY <1>1, <1>3, <1>4
  <2> QED
    BY <1>4, <2>3, <2>4, <2>5, <2>6, Zenon DEF ChainExact
<1>11. Accepted'
  <2>1. /\ success[c] \in 1 .. 1 + Cardinality(Replicated(c)) /\ Majority(success[c])
        /\ Cardinality(Replicated(c)) \in Nat /\ Cardinality(Peers) \in Nat
    <3>1. success[c] \in 1 .. 1 + Cardinality(Replicated(c)) /\ Majority(success[c])
      BY Zenon DEF RaftInv, PeersCounted, CommitEntry
    <3> QED
      BY <3>1, ChainAssumption, FS_Subset, FS_CardinalityType, Zenon DEF Replicated
  <2>2. ByMajority(c)
    BY ONLY <2>1 DEF Majority, ByMajority
  <2>3. \A d \in Proposals : ByMajority(d)' <=> ByMajority(d)
    BY <1>1, Zenon DEF ByMajority, Replicated
  <2> QED
    BY <1>2, <2>2, <2>3, Zenon DEF RaftInv, Accepted
<1> QED
  BY <1>5, <1>6, <1>7, <1>8, <1>9, <1>10, <1>11, Zenon DEF RaftInv

LEMMA RaftStep == RaftInv /\ [RaftNext]_raftVars => RaftInv'
<1>1. ASSUME RaftInv, UNCHANGED raftVars PROVE RaftInv'
  <2>1. UNCHANGED <<state, currentTerm, running, forced>>
    BY <1>1, Zenon DEF raftVars, node
  <2>2. UNCHANGED <<log, commitIndex, chain, pc, entry, success, peerPc, seen>>
    BY <1>1, Zenon DEF raftVars, calls
  <2>3. ForcedType'
    BY <1>1, <2>1, Zenon DEF RaftInv, ForcedType
  <2>4. NodeTypes' /\ PeersCounted' /\ Accepted' /\ LogOrdered'
    <3>1. NodeTypes' /\ LogOrdered'
      BY <1>1, <2>1, <2>2, Zenon DEF RaftInv, NodeTypes, LogOrdered
    <3>2. PeersCounted'
      BY <1>1, <2>2, Zenon DEF RaftInv, PeersCounted, Replicated
    <3>3. Accepted'
      BY <1>1, <2>2, Zenon DEF RaftInv, Accepted, ByMajority, Replicated
    <3> QED
      BY <3>1, <3>2, <3>3, Zenon
  <2>5. CallTypes' /\ LogOnce' /\ Placed' /\ ChainExact'
    BY <1>1, <2>2, CallsSame, Zenon
  <2> QED
    BY <2>3, <2>4, <2>5, Zenon DEF RaftInv
<1> QED
  BY <1>1, NodeStep, CheckStep, AppendEntryStep, ReadCountStep, WriteCountStep, CommitEntryStep, Zenon DEF RaftNext

\* A proposal is in the log at most once, so the log is no longer than there are proposals.
LEMMA LogBounded == ASSUME RaftInv PROVE Len(log) <= Cardinality(Proposals) /\ Cardinality(Proposals) \in Nat
<1> DEFINE S == 1 .. Len(log)
           f == [i \in S |-> log[i].data]
<1>1. Len(log) \in Nat /\ \A i \in S : log[i].data \in Proposals
  BY Elements, Zenon
<1>2. f \in Injection(S, Proposals)
  <2>1. f \in [S -> Proposals]
    BY <1>1, Zenon
  <2>2. \A i, j \in S : f[i] = f[j] => i = j
    BY Zenon DEF RaftInv, LogOnce
  <2> HIDE DEF f, S
  <2> QED
    BY <2>1, <2>2, Zenon DEF Injection, IsInjective
<1>3. Cardinality(S) <= Cardinality(Proposals)
  <2> HIDE DEF f, S
  <2> QED
    BY <1>2, ChainAssumption, FS_Injection, Zenon
<1>4. Cardinality(S) = Len(log)
  <2>1. Cardinality(1 .. Len(log)) = IF 1 > Len(log) THEN 0 ELSE Len(log) - 1 + 1
    BY ONLY <1>1, FS_Interval
  <2> QED
    BY <1>1, <2>1
<1> QED
  BY <1>3, <1>4, ChainAssumption, FS_CardinalityType, Zenon

\* The invariant says what the run checks of the Raft node.
LEMMA RaftRight == RaftInv => RaftTypeOK /\ LogAndChain
<1> SUFFICES ASSUME RaftInv PROVE RaftTypeOK /\ LogAndChain
  BY Zenon
<1>1. /\ Len(log) \in Nat /\ Len(chain) \in Nat
      /\ \A i \in 1 .. Len(log) : log[i].data \in Proposals
      /\ \A i \in 1 .. Len(chain) : chain[i] \in Proposals
  BY Elements, Zenon
<1>2. DOMAIN log = 1 .. Len(log) /\ DOMAIN chain = 1 .. Len(chain) /\ (chain # <<>> => Len(chain) # 0)
  BY LenProperties, EmptySeq, Zenon DEF RaftInv, CallTypes
<1>3. Len(chain) # 0 => \E i \in 1 .. Len(log) : commitIndex = i - 1 /\ log[i].data = chain[Len(chain)]
  <2>1. ASSUME Len(chain) # 0 PROVE chain[Len(chain)] \in Proposals /\ pc[chain[Len(chain)]] = "ok"
    <3>1. Len(chain) \in 1 .. Len(chain)
      BY <1>1, <2>1
    <3> QED
      BY <1>1, <3>1, Zenon DEF RaftInv, ChainExact
  <2> QED
    BY <2>1, Zenon DEF RaftInv, ChainExact, Placed
<1>4. commitIndex \in 0 .. Cardinality(Proposals)
  <2>1. Len(chain) = 0 => commitIndex = 0
    BY Zenon DEF RaftInv, ChainExact
  <2> QED
    BY <1>1, <1>3, <2>1, LogBounded
<1>5. success \in [Proposals -> 1 .. Cardinality(Peers) + 1]
  <2>1. ASSUME NEW c \in Proposals PROVE success[c] \in 1 .. Cardinality(Peers) + 1
    <3>1. Cardinality(Replicated(c)) \in Nat /\ Cardinality(Peers) \in Nat
          /\ Cardinality(Replicated(c)) <= Cardinality(Peers)
      BY ChainAssumption, FS_Subset, FS_CardinalityType, Zenon DEF Replicated
    <3>2. success[c] \in 1 .. 1 + Cardinality(Replicated(c))
      BY Zenon DEF RaftInv, PeersCounted
    <3> QED
      BY ONLY <3>1, <3>2
  <2> QED
    BY <2>1, Zenon DEF RaftInv, PeersCounted
<1>9. seen \in [Proposals -> [Peers -> 0 .. Cardinality(Peers) + 1]]
  <2>1. ASSUME NEW c \in Proposals, NEW p \in Peers PROVE seen[c][p] \in 0 .. Cardinality(Peers) + 1
    <3>1. Cardinality(Replicated(c)) \in Nat /\ Cardinality(Peers) \in Nat
          /\ Cardinality(Replicated(c)) <= Cardinality(Peers)
      BY ChainAssumption, FS_Subset, FS_CardinalityType, Zenon DEF Replicated
    <3>2. seen[c][p] \in Nat /\ seen[c][p] <= 1 + Cardinality(Replicated(c))
      BY Zenon DEF RaftInv, PeersCounted
    <3> QED
      BY ONLY <3>1, <3>2
  <2>2. seen \in [Proposals -> [Peers -> Nat]]
    BY Zenon DEF RaftInv, PeersCounted
  <2> QED
    BY <2>1, <2>2, Zenon
<1>6. RaftTypeOK
  <2>1. forced \in BOOLEAN
    BY Zenon DEF RaftInv, ForcedType
  <2> QED
    BY <1>1, <1>2, <1>4, <1>5, <1>9, <2>1, Zenon DEF RaftTypeOK, RaftInv, NodeTypes, CallTypes, PeersCounted
<1>7. {chain[i] : i \in DOMAIN chain} = {c \in Proposals : pc[c] = "ok"}
  BY <1>1, <1>2 DEF RaftInv, ChainExact
<1>8. chain # <<>> => log[commitIndex + 1].data = chain[Len(chain)]
  BY <1>1, <1>2, <1>3
<1> QED
  BY <1>2, <1>6, <1>7, <1>8, Zenon DEF LogAndChain, RaftInv, Accepted, ByMajority, LogOrdered, ChainExact
-----------------------------------------------------------------------------
ChainsInv == WorkInv /\ PBFTInv /\ RaftInv

\* For any number of miners, proposals and peers: the mined chain keeps validating, and every
\* transaction that was submitted is in one block, in the mempool or the block being worked
\* on, or gone with a cancelled one; a PBFT block is decided exactly as often as its commits
\* reach or pass the quorum; and the Raft chain has exactly the accepted blocks, the last one
\* at commitIndex and each with a majority, however the goroutines race on successCount.
THEOREM ChainsStayValid == ChainsSpec => []ChainsValid
<1>1. ChainsInit => ChainsInv
  BY WorkInitially, PBFTInitially, RaftInitially, Zenon DEF ChainsInit, ChainsInv
<1>2. ChainsInv => ChainsValid
  BY WorkRight, PBFTIsRight, RaftRight, Zenon DEF ChainsInv, ChainsValid
<1>3. ChainsInv /\ [ChainsNext]_chainVars => ChainsInv'
  <2>1. [ChainsNext]_chainVars => [WorkNext]_workVars /\ [PBFTNext]_pbftVars /\ [RaftNext]_raftVars
    BY Zenon DEF ChainsNext, chainVars
  <2> QED
    BY <2>1, WorkStep, PBFTStep, RaftStep, Zenon DEF ChainsInv
<1> QED
  BY <1>1, <1>2, <1>3, PTL DEF ChainsSpec
=============================================================================
