------------------------ MODULE BlockchainConsensus -------------------------
(***************************************************************************)
(* Solution 20, solutions/solution20_blockchain_consensus.go: the proof-   *)
(* of-work chain, the PBFT node and the Raft node, run one after the other *)
(* by RunSolution20. Their variables are apart.                            *)
(***************************************************************************)
EXTENDS Integers, FiniteSets, Sequences

CONSTANTS
    Miners,                      \* calls of MineBlock
    Transfers,
    None,
    ReplicaCount,                \* how many
    MaxProposals,                \* calls of ProposeBlock
    MaxInbox,                    \* messages handed to HandleMessage
    Proposals,                   \* calls of ProposeBlock, each with its own block
    Peers,                       \* the other nodes
    MaxTerm                      \* bounds the campaigns

ASSUME ChainAssumption ==
    /\ IsFiniteSet(Transfers)
    /\ ReplicaCount \in Nat \ {0} /\ MaxProposals \in Nat /\ MaxInbox \in Nat
    /\ IsFiniteSet(Proposals) /\ IsFiniteSet(Peers) /\ MaxTerm \in Nat

VARIABLES
    blocks,                      \* after the genesis block, whose hash is 0
    mempool,
    mining,                      \* the flag
    minerPc,                     \* miner -> where it is
    block,                       \* miner -> the block it works on, or None
    lost,                        \* transactions of cancelled blocks, a history
    submitted,                   \* transactions that AddTransaction was called with, a history
    view, sequence,
    prepares, commits,           \* <<view, sequence>> -> messages counted
    messageLog,                  \* how many
    decided,                     \* the blocks, named by the sequence that their message gives
    broadcasts,                  \* the messages that broadcast was given
    proposal,                    \* proposal -> what its ProposeBlock does
    state, currentTerm, log, commitIndex, chain, \* of the node
    running,                     \* what run() does, or "stopped"
    forced,                      \* RunSolution20 has made the node the leader
    pc,                          \* proposal -> where ProposeBlock is
    entry,                       \* proposal -> its log entry, or None
    success,                     \* proposal -> successCount
    peerPc,                      \* proposal -> peer -> what its replicating goroutine does
    seen                         \* proposal -> peer -> the successCount it has read, 0 otherwise

(***************************************************************************)
(* The proof-of-work chain of solutions/solution20_blockchain_consensus.go. *)
(* MineBlock takes the whole mempool for a block on top of the last one,   *)
(* searches a nonce without the lock and appends the block. A flag keeps   *)
(* other miners out. A block's hash is its serial number, the nonce search *)
(* either succeeds or is cancelled.                                        *)
(***************************************************************************)

workVars == <<blocks, mempool, mining, minerPc, block, lost, submitted>>

Block(hash, prev, txs) == [hash |-> hash, prevHash |-> prev, txs |-> txs]

LastHash == IF blocks = <<>> THEN 0 ELSE blocks[Len(blocks)].hash

WorkTypeOK ==
    /\ \A i \in DOMAIN blocks : blocks[i].txs \subseteq Transfers
    /\ mempool \subseteq Transfers
    /\ mining \in BOOLEAN
    /\ minerPc \in [Miners -> {"idle", "flagged", "search", "reset", "returned"}]
    /\ \A m \in Miners : minerPc[m] = "search" => block[m].txs \subseteq Transfers
    /\ lost \subseteq Transfers
    /\ submitted \subseteq Transfers

WorkInit ==
    /\ blocks = <<>>
    /\ mempool = {}
    /\ mining = FALSE
    /\ minerPc = [m \in Miners |-> "idle"]
    /\ block = [m \in Miners |-> None]
    /\ lost = {}
    /\ submitted = {}

Goto(m, from, to) == minerPc[m] = from /\ minerPc' = [minerPc EXCEPT ![m] = to]

InBlocks(bs) == UNION {b.txs : b \in bs}

Chained == InBlocks({blocks[i] : i \in DOMAIN blocks})

Working == {block[m] : m \in {n \in Miners : minerPc[n] = "search"}}
-----------------------------------------------------------------------------
\* Every transaction is submitted once.
AddTransaction(tx) ==
    /\ tx \notin submitted
    /\ submitted' = submitted \cup {tx}
    /\ mempool' = mempool \cup {tx}
    /\ UNCHANGED <<blocks, mining, minerPc, block, lost>>

\* Faulty MayMine: the flag is set but not looked at.
MayMineAlways == TRUE

MayMine == ~mining

\* MineBlock begins with the CompareAndSwap of the flag.
TakeFlag(m) ==
    /\ Goto(m, "idle", IF MayMine THEN "flagged" ELSE "returned")
    /\ mining' = TRUE
    /\ UNCHANGED <<blocks, mempool, block, lost, submitted>>

\* Under the lock: no transactions, or a block on top of the last one.
NothingToMine(m) ==
    /\ mempool = {}
    /\ Goto(m, "flagged", "reset")
    /\ UNCHANGED <<blocks, mempool, mining, block, lost, submitted>>

StartBlock(m) ==
    /\ mempool # {}
    /\ Goto(m, "flagged", "search")
    /\ \E hash \in 1 .. Cardinality(Transfers) :
          /\ \A b \in {blocks[i] : i \in DOMAIN blocks} \cup Working : b.hash # hash
          /\ block' = [block EXCEPT ![m] = Block(hash, LastHash, mempool)]
    /\ mempool' = {}
    /\ UNCHANGED <<blocks, mining, lost, submitted>>

\* Faulty: the mempool is emptied when the block is appended, with what came meanwhile.
AppendBlockClears(m) ==
    /\ Goto(m, "search", "reset")
    /\ blocks' = Append(blocks, block[m])
    /\ mempool' = {}
    /\ UNCHANGED <<mining, block, lost, submitted>>

\* A valid hash is found, and the block appended under the lock.
AppendBlock(m) ==
    /\ Goto(m, "search", "reset")
    /\ blocks' = Append(blocks, block[m])
    /\ UNCHANGED <<mempool, mining, block, lost, submitted>>

\* ctx.Done(): the block is given up, and its transactions with it.
Cancel(m) ==
    /\ Goto(m, "search", "reset")
    /\ lost' = lost \cup block[m].txs
    /\ UNCHANGED <<blocks, mempool, mining, block, submitted>>

\* The deferred store of the flag.
ResetFlag(m) ==
    /\ Goto(m, "reset", "returned")
    /\ mining' = FALSE
    /\ UNCHANGED <<blocks, mempool, block, lost, submitted>>

Mine(m) ==
    \/ TakeFlag(m) \/ NothingToMine(m) \/ StartBlock(m)
    \/ AppendBlock(m) \/ Cancel(m) \/ ResetFlag(m)

WorkNext == (\E tx \in Transfers : AddTransaction(tx)) \/ (\E m \in Miners : Mine(m))

-----------------------------------------------------------------------------
\* ValidateChain's links
ValidateChain ==
    \A i \in DOMAIN blocks : blocks[i].prevHash = IF i = 1 THEN 0 ELSE blocks[i - 1].hash

\* However miners interleave and are cancelled, ValidateChain stays true, and of what was
\* submitted each transaction is in one place: in one block of the chain, in the block being
\* worked on, in the mempool, or gone with a cancelled block. So none is mined twice, and
\* none is lost but with a block that MineBlock gave up.
ChainValid ==
    /\ ValidateChain
    /\ submitted = mempool \cup InBlocks(Working) \cup lost \cup Chained
    /\ \A i, j \in DOMAIN blocks : i # j => blocks[i].txs \cap blocks[j].txs = {}
    /\ (mempool \cup InBlocks(Working) \cup lost) \cap Chained = {}
    /\ InBlocks(Working) \cap (mempool \cup lost) = {}
    /\ mempool \cap lost = {}

(***************************************************************************)
(* Solution 2 of solutions/solution20_blockchain_consensus.go: one PBFT    *)
(* node, its proposals and the messages that HandleMessage is given.       *)
(* broadcast sends nothing ("In real implementation, send to node n"), so  *)
(* the messages come from outside: any, in any order, more than once.      *)
(***************************************************************************)

pbftVars == <<view, sequence, prepares, commits, messageLog, decided, broadcasts, proposal>>

faultNodes == (ReplicaCount - 1) \div 3

CommitQuorum == 2 * faultNodes + 1

Keys == (0..1) \X (1..MaxProposals)

BlockProposals == 1..MaxProposals

PBFTInit ==
    /\ view = 0 /\ sequence = 0
    /\ prepares = [k \in Keys |-> 0] /\ commits = [k \in Keys |-> 0]
    /\ messageLog = 0
    /\ decided = <<>>
    /\ broadcasts = {}
    /\ proposal = [p \in BlockProposals |-> "no"]

NotCounts == UNCHANGED <<prepares, commits, decided>>

ProposeBlock(p) ==
    /\ proposal[p] = "no" /\ \A q \in 1..(p - 1) : proposal[q] # "no"
    /\ sequence' = sequence + 1
    /\ messageLog' = messageLog + 1
    /\ broadcasts' = broadcasts \cup {<<"PREPREPARE", view, sequence + 1>>}
    /\ proposal' = [proposal EXCEPT ![p] = "wait"]
    /\ UNCHANGED view /\ NotCounts

\* It looks at the sequence of the node, which a later proposal has moved on.
waitForConsensus(p) ==
    /\ proposal[p] = "wait"
    /\ \/ commits[<<view, sequence>>] >= CommitQuorum /\ proposal' = [proposal EXCEPT ![p] = "ok"]
       \/ proposal' = [proposal EXCEPT ![p] = "timeout"]
    /\ UNCHANGED <<view, sequence, messageLog, broadcasts>> /\ NotCounts

\* Faulty: any view will do.
verifyAnyView(v, s) == s > 0

verifyMessage(v, s) == v = view /\ s > 0

handlePrePrepare(v, s) ==
    /\ broadcasts' = broadcasts \cup {<<"PREPARE", v, s>>}
    /\ NotCounts

\* Faulty: one prepare too few is enough.
handlePrepareEarly(v, s) ==
    /\ prepares' = [prepares EXCEPT ![<<v, s>>] = @ + 1]
    /\ broadcasts' = IF prepares[<<v, s>>] + 1 >= CommitQuorum - 1 THEN broadcasts \cup {<<"COMMIT", v, s>>} ELSE broadcasts
    /\ UNCHANGED <<commits, decided>>

\* Whoever sent it, and however often.
handlePrepare(v, s) ==
    /\ prepares' = [prepares EXCEPT ![<<v, s>>] = @ + 1]
    /\ broadcasts' = IF prepares[<<v, s>>] + 1 >= CommitQuorum THEN broadcasts \cup {<<"COMMIT", v, s>>} ELSE broadcasts
    /\ UNCHANGED <<commits, decided>>

\* The block is appended for every commit from the quorum on, prepared or not.
handleCommit(v, s) ==
    /\ commits' = [commits EXCEPT ![<<v, s>>] = @ + 1]
    /\ decided' = IF commits[<<v, s>>] + 1 >= CommitQuorum THEN Append(decided, s) ELSE decided
    /\ UNCHANGED <<prepares, broadcasts>>

HandleMessage(type, v, s) ==
    /\ messageLog < MaxInbox + sequence
    /\ verifyMessage(v, s)
    /\ messageLog' = messageLog + 1
    /\ CASE type = "PREPREPARE" -> handlePrePrepare(v, s)
         [] type = "PREPARE" -> handlePrepare(v, s)
         [] type = "COMMIT" -> handleCommit(v, s)
    /\ UNCHANGED <<view, sequence, proposal>>

PBFTNext ==
    \/ \E p \in BlockProposals : ProposeBlock(p) \/ waitForConsensus(p)
    \/ \E type \in {"PREPREPARE", "PREPARE", "COMMIT"}, k \in Keys : HandleMessage(type, k[1], k[2])
-----------------------------------------------------------------------------
Copies(s) == Cardinality({i \in DOMAIN decided : decided[i] = s})

Beyond(n) == IF n > 2 * faultNodes THEN n - 2 * faultNodes ELSE 0

\* A block is in the chain once its sequence has a quorum of commits of this view, and again
\* for each commit after that; a commit is sent only with a quorum of prepares behind it; and
\* a proposal returns without error only if some sequence, its own or a later one, has its
\* quorum.
PBFTRight ==
    /\ \A s \in BlockProposals : Copies(s) = Beyond(commits[<<view, s>>])
    /\ \A k \in Keys : <<"COMMIT", k[1], k[2]>> \in broadcasts => prepares[k] >= CommitQuorum
    /\ \A k \in Keys : k[1] # view => prepares[k] = 0 /\ commits[k] = 0
    /\ \A p \in BlockProposals : proposal[p] = "ok" => \E s \in p..MaxProposals : Copies(s) > 0

Waiting(p) == proposal[p] = "wait"

(***************************************************************************)
(* The Raft node of solutions/solution20_blockchain_consensus.go. The      *)
(* program has no network: votesChan and heartbeat never receive anything, *)
(* so a node campaigns for ever until RunSolution20 makes it the leader.   *)
(* ProposeBlock appends to the log and waits until a majority of           *)
(* replicating goroutines has counted itself in successCount, without      *)
(* synchronisation.                                                        *)
(***************************************************************************)

node == <<state, currentTerm, running, forced>>

calls == <<log, commitIndex, chain, pc, entry, success, peerPc, seen>>

raftVars == <<node, calls>>

Entry(term, index, data) == [term |-> term, index |-> index, data |-> data]

RaftTypeOK ==
    /\ state \in {"follower", "candidate", "leader"}
    /\ currentTerm \in 0 .. MaxTerm
    /\ \A i \in DOMAIN log : log[i].data \in Proposals
    /\ commitIndex \in 0 .. Cardinality(Proposals)
    /\ chain \in Seq(Proposals)
    /\ running \in {"loop", "follower", "candidate", "leader", "stopped"}
    /\ forced \in BOOLEAN
    /\ pc \in [Proposals -> {"idle", "append", "replicate", "ok", "failed"}]
    /\ success \in [Proposals -> 1 .. Cardinality(Peers) + 1]
    /\ peerPc \in [Proposals -> [Peers -> {"none", "sleep", "add", "done"}]]
    /\ seen \in [Proposals -> [Peers -> 0 .. Cardinality(Peers) + 1]]

RaftInit ==
    /\ state = "follower"
    /\ currentTerm = 0
    /\ log = <<>>
    /\ commitIndex = 0
    /\ chain = <<>>
    /\ running = "loop"
    /\ forced = FALSE
    /\ pc = [c \in Proposals |-> "idle"]
    /\ entry = [c \in Proposals |-> None]
    /\ success = [c \in Proposals |-> 1]
    /\ peerPc = [c \in Proposals |-> [p \in Peers |-> "none"]]
    /\ seen = [c \in Proposals |-> [p \in Peers |-> 0]]
-----------------------------------------------------------------------------
\* run reads the state under the lock. runLeader never returns while the context lives.
Run ==
    /\ running = "loop"
    /\ running' = state
    /\ UNCHANGED <<state, currentTerm, forced, calls>>

\* runFollower: no heartbeat comes, and the timeout makes the node a candidate, also when
\* it was made the leader meanwhile.
FollowerTimeout ==
    /\ running = "follower"
    /\ state' = "candidate"
    /\ running' = "loop"
    /\ UNCHANGED <<currentTerm, forced, calls>>

\* runCandidate: a new term, no votes, and the timeout.
Campaign ==
    /\ running = "candidate"
    /\ currentTerm < MaxTerm
    /\ currentTerm' = currentTerm + 1
    /\ running' = "loop"
    /\ UNCHANGED <<state, forced, calls>>

\* ctx.Done(), in run or in the function it is in
Stop ==
    /\ running # "stopped"
    /\ running' = "stopped"
    /\ UNCHANGED <<state, currentTerm, forced, calls>>

\* RunSolution20 sets the leader state under the lock, once.
ForceLeader ==
    /\ ~forced
    /\ forced' = TRUE
    /\ state' = "leader"
    /\ UNCHANGED <<currentTerm, running, calls>>

\* ProposeBlock looks whether the node is the leader ...
CheckLeader(c) ==
    /\ pc[c] = "idle"
    /\ pc' = [pc EXCEPT ![c] = IF state = "leader" THEN "append" ELSE "failed"]
    /\ UNCHANGED <<node, log, commitIndex, chain, entry, success, peerPc, seen>>

\* Faulty NextIndex: the index is one too large.
NextIndexPlusOne == Len(log) + 1

\* Index: len(r.log)
NextIndex == Len(log)

\* ... and under another lock appends; a goroutine per peer starts.
AppendEntry(c) ==
    /\ pc[c] = "append"
    /\ entry' = [entry EXCEPT ![c] = Entry(currentTerm, NextIndex, c)]
    /\ log' = Append(log, entry'[c])
    /\ pc' = [pc EXCEPT ![c] = "replicate"]
    /\ peerPc' = [peerPc EXCEPT ![c] = [p \in Peers |-> "sleep"]]
    /\ UNCHANGED <<node, commitIndex, chain, success, seen>>

\* successCount++ without a lock: a goroutine reads the counter, and later writes what it
\* has read plus one, over what others have written meanwhile.
ReadCount(c, p) ==
    /\ peerPc[c][p] = "sleep"
    /\ peerPc' = [peerPc EXCEPT ![c][p] = "add"]
    /\ seen' = [seen EXCEPT ![c][p] = success[c]]
    /\ UNCHANGED <<node, log, commitIndex, chain, pc, entry, success>>

WriteCount(c, p) ==
    /\ peerPc[c][p] = "add"
    /\ peerPc' = [peerPc EXCEPT ![c][p] = "done"]
    /\ success' = [success EXCEPT ![c] = seen[c][p] + 1]
    /\ seen' = [seen EXCEPT ![c][p] = 0]
    /\ UNCHANGED <<node, log, commitIndex, chain, pc, entry>>

\* Faulty Majority: half of the nodes will do.
MajorityOrHalf(n) == n >= (Cardinality(Peers) + 1) \div 2

\* successCount > len(r.peers)/2, where peers are all the nodes
Majority(n) == n > (Cardinality(Peers) + 1) \div 2

\* A tick sees a majority: the entry is committed under the lock.
CommitEntry(c) ==
    /\ pc[c] = "replicate"
    /\ Majority(success[c])
    /\ commitIndex' = entry[c].index
    /\ chain' = Append(chain, c)
    /\ pc' = [pc EXCEPT ![c] = "ok"]
    /\ UNCHANGED <<node, log, entry, success, peerPc, seen>>

\* After two seconds, or when the context ends. The entry stays in the log.
ReplicationTimeout(c) ==
    /\ pc[c] = "replicate"
    /\ pc' = [pc EXCEPT ![c] = "failed"]
    /\ UNCHANGED <<node, log, commitIndex, chain, entry, success, peerPc, seen>>

RaftNext ==
    \/ Run \/ FollowerTimeout \/ Campaign \/ Stop \/ ForceLeader
    \/ \E c \in Proposals :
          \/ CheckLeader(c) \/ AppendEntry(c) \/ CommitEntry(c) \/ ReplicationTimeout(c)
          \/ \E p \in Peers : ReadCount(c, p) \/ WriteCount(c, p)

-----------------------------------------------------------------------------
\* The peers whose goroutine is done with the proposal.
Replicated(c) == {p \in Peers : peerPc[c][p] = "done"}

\* The log's terms never decrease although campaigns go on beside proposals, an entry's
\* index is its place, the chain has exactly the blocks whose proposal returned without
\* an error, each once, and commitIndex points to one of them, the last one committed. The
\* racy counter loses increments and never gains any: a block is accepted only when more
\* than half of the nodes, this one included, have its entry.
LogAndChain ==
    /\ \A i, j \in DOMAIN log : i < j => log[i].term <= log[j].term
    /\ \A i \in DOMAIN log : log[i].index = i - 1
    /\ \A i, j \in DOMAIN chain : chain[i] = chain[j] => i = j
    /\ {chain[i] : i \in DOMAIN chain} = {c \in Proposals : pc[c] = "ok"}
    /\ chain # <<>> => log[commitIndex + 1].data = chain[Len(chain)]
    /\ \A c \in Proposals : pc[c] = "ok" =>
          2 * (1 + Cardinality(Replicated(c))) > Cardinality(Peers) + 1

(***************************************************************************)
(* The three parts of RunSolution20, each on its own variables.            *)
(***************************************************************************)
chainVars == <<workVars, pbftVars, raftVars>>

ChainsInit == WorkInit /\ PBFTInit /\ RaftInit

ChainsNext ==
    \/ WorkNext /\ UNCHANGED <<pbftVars, raftVars>>
    \/ PBFTNext /\ UNCHANGED <<workVars, raftVars>>
    \/ RaftNext /\ UNCHANGED <<workVars, pbftVars>>

ChainsSpec == ChainsInit /\ [][ChainsNext]_chainVars

\* The mined chain validates, and a transaction that was submitted is in one place, lost only
\* with a cancelled block; a PBFT block is in the chain as often as its quorum of commits was
\* reached or passed; and the Raft log is ordered, its chain has exactly the accepted blocks,
\* and a majority has each of them.
ChainsValid ==
    /\ WorkTypeOK /\ ChainValid
    /\ PBFTRight
    /\ RaftTypeOK /\ LogAndChain
=============================================================================
