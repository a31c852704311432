---------------------------- MODULE GraphDatabase ----------------------------
(***************************************************************************)
(* solution21: the lock-free graph, with its searches; the partitioned     *)
(* graph, with its parallel traversal; and the optimistic graph, with      *)
(* transactions that record the versions they read, validate them node by  *)
(* node at commit and then write node by node, no lock being held from the *)
(* one to the other, and its detection of cycles. A process is a goroutine *)
(* that calls the graph; a step of it is one access to a sync.Map, an      *)
(* atomic counter or the state under a mutex.                              *)
(***************************************************************************)
EXTENDS Integers, FiniteSets, Sequences

CONSTANTS
    MaxDepth,    \* of the BFS
    QueueSize    \* of its channel, 1000 in the code

VARIABLES
    adding,     \* process -> the edge it adds and how far it is
    nodes,      \* node IDs of the sync.Map
    edges,      \* edge ID -> its From and To, once stored
    out, in,    \* node -> the edge IDs in its OutEdges, its InEdges
    nodeCount, edgeCount,
    search,     \* the BFS or the DFS that runs
    quiet,      \* it started when no edge was being added
    \* the partitioned graph
    calling,    \* process -> its calls still to come, and the one it is in
    router,     \* node ID -> partition
    loadFactor, \* partition -> nodes given to it
    partition,  \* partition -> the nodes and the edges stored there
    raced,      \* nodes that two getPartition calls have placed
    traversal,  \* of the partitioned graph: what is visited, its goroutines
    \* the optimistic graph
    tx,           \* transaction -> what it reads and writes, and how far it is
    version,      \* node -> its Version
    globalClock,
    overwritten,  \* transaction -> nodes written by others after it read them and
                  \* before it called Commit
    links,        \* the edges of the graph that CycleDetection is called on
    walk          \* its calls of dfs, what they have visited, and the cycle

lockFreeVars == <<adding, nodes, edges, out, in, nodeCount, edgeCount, search, quiet>>
partitionVars == <<calling, router, loadFactor, partition, raced, traversal>>
txVars == <<tx, version, globalClock, overwritten>>
cycleVars == <<links, walk>>

GraphNodes == {"A", "B", "C"}

EdgeIDs == {"e1", "e2"}

Adders == 1 .. 2

Start == "A"
Target == "C"

\* The edges that the adders may be asked for; two may use the same ID.
EdgeRequests ==
    {[id |-> id, from |-> l[1], to |-> l[2]] :
        id \in EdgeIDs, l \in {<<"A", "B">>, <<"A", "C">>, <<"B", "C">>, <<"C", "A">>}}

Reached(steps, from) ==
    LET step[i \in Nat] ==
            IF i = 0 THEN {from}
            ELSE step[i - 1] \cup {l[2] : l \in {k \in steps : k[1] \in step[i - 1]}}
    IN  step

\* The length of the shortest path, or a number that no path has
Distance(steps, from, to) ==
    LET lengths == {i \in 0 .. Cardinality(GraphNodes) : to \in Reached(steps, from)[i]}
    IN  IF lengths = {} THEN Cardinality(GraphNodes) + 1
        ELSE CHOOSE i \in lengths : \A j \in lengths : i <= j

NoSearch == [kind |-> "none", phase |-> "idle"]

LockFreeInit ==
    /\ adding \in [Adders -> {[req |-> r, at |-> "from"] : r \in EdgeRequests}]
    /\ adding[1].req = [id |-> "e1", from |-> "A", to |-> "B"]
    /\ nodes = {}
    /\ edges = [e \in {} |-> <<>>]
    /\ out = [n \in GraphNodes |-> {}]
    /\ in = [n \in GraphNodes |-> {}]
    /\ nodeCount = 0
    /\ edgeCount = 0
    /\ search = NoSearch
    /\ quiet = FALSE
-----------------------------------------------------------------------------
At(p, step) == adding[p].at = step

Goes(p, step) == adding' = [adding EXCEPT ![p].at = step]

\* AddNode, for the one end of the edge and the other
AddNode(p, n, this, counting, next) ==
    \/ /\ At(p, this)
       /\ nodes' = nodes \cup {n}
       /\ Goes(p, IF n \in nodes THEN next ELSE counting)
       /\ UNCHANGED nodeCount
    \/ /\ At(p, counting)
       /\ nodeCount' = nodeCount + 1
       /\ Goes(p, next)
       /\ UNCHANGED nodes

\* Faulty: Load and Store instead of LoadOrStore.
StoreEdgeBlindly(p, r) ==
    /\ At(p, "edge")
    /\ edges' = [e \in DOMAIN edges \cup {r.id} |-> IF e = r.id THEN <<r.from, r.to>> ELSE edges[e]]
    /\ Goes(p, "out")

\* LoadOrStore: an edge ID that is taken leaves the graph as it is.
StoreEdge(p, r) ==
    /\ At(p, "edge")
    /\ IF r.id \in DOMAIN edges
         THEN Goes(p, "done") /\ UNCHANGED edges
         ELSE /\ edges' = [e \in DOMAIN edges \cup {r.id} |->
                              IF e = r.id THEN <<r.from, r.to>> ELSE edges[e]]
              /\ Goes(p, "out")

AddEdge(p) ==
    LET r == adding[p].req
    IN  \/ /\ AddNode(p, r.from, "from", "fromCount", "to") \/ AddNode(p, r.to, "to", "toCount", "edge")
           /\ UNCHANGED <<edges, out, in, edgeCount>>
        \/ /\ StoreEdge(p, r)
           /\ UNCHANGED <<nodes, out, in, nodeCount, edgeCount>>
        \/ /\ At(p, "out")
           /\ out' = [out EXCEPT ![r.from] = @ \cup {r.id}]
           /\ Goes(p, "in")
           /\ UNCHANGED <<nodes, edges, in, nodeCount, edgeCount>>
        \/ /\ At(p, "in")
           /\ in' = [in EXCEPT ![r.to] = @ \cup {r.id}]
           /\ Goes(p, "count")
           /\ UNCHANGED <<nodes, edges, out, nodeCount, edgeCount>>
        \/ /\ At(p, "count")
           /\ edgeCount' = edgeCount + 1
           /\ Goes(p, "done")
           /\ UNCHANGED <<nodes, edges, out, in, nodeCount>>
-----------------------------------------------------------------------------
Added == \A p \in Adders : At(p, "done")

\* The BFS. left is what is to be taken of this level, scan the edges of the present node
\* that Range has yet to show, waiting the goroutines that are at the queue.
StartBFS ==
    /\ search = NoSearch
    /\ quiet' = Added
    /\ \E maxDepth \in 1 .. MaxDepth :
       search' = IF Start \notin nodes
                   THEN [kind |-> "bfs", phase |-> "not found"]
                   ELSE [kind |-> "bfs", phase |-> "level", max |-> maxDepth, depth |-> 0, left |-> 0,
                         queue |-> <<[node |-> Start, dist |-> 0]>>, visited |-> {Start},
                         now |-> [node |-> Start, dist |-> 0], scan |-> {}, waiting |-> {},
                         results |-> <<>>]

Phase(kind, phase) == search.kind = kind /\ search.phase = phase

BFSLevel ==
    /\ Phase("bfs", "level")
    /\ search' = IF search.depth < search.max /\ search.queue # <<>>
                   THEN [search EXCEPT !.phase = "take", !.left = Len(search.queue)]
                   ELSE [search EXCEPT !.phase = "done"]

BFSTake ==
    /\ Phase("bfs", "take")
    /\ search.left > 0 /\ search.scan = {} /\ search.queue # <<>>
    /\ LET current == Head(search.queue)
       IN  search' = [search EXCEPT !.queue = Tail(@), !.now = current, !.scan = EdgeIDs,
                                    !.left = @ - 1, !.results = Append(@, current)]

\* Range shows the edge if it is there; visited.LoadOrStore
BFSNeighbour(e) ==
    /\ Phase("bfs", "take")
    /\ e \in search.scan
    /\ LET to == IF e \in out[search.now.node] THEN edges[e][2] ELSE search.now.node
       IN  search' =
             IF to \in search.visited
               THEN [search EXCEPT !.scan = @ \ {e}]
               ELSE [search EXCEPT !.scan = @ \ {e}, !.visited = @ \cup {to},
                        !.waiting = @ \cup {[node |-> to, dist |-> search.now.dist + 1]}]

Waiting == IF Phase("bfs", "take") \/ Phase("bfs", "level") THEN search.waiting ELSE {}

BFSEnqueue(item) ==
    /\ Len(search.queue) < QueueSize
    /\ search' = [search EXCEPT !.waiting = @ \ {item}, !.queue = Append(@, item)]

\* Faulty: the level ends without wg.Wait.
BFSNextLevelAtOnce ==
    /\ Phase("bfs", "take")
    /\ search.left = 0 /\ search.scan = {}
    /\ search' = [search EXCEPT !.phase = "level", !.depth = @ + 1]

BFSNextLevel ==
    /\ Phase("bfs", "take")
    /\ search.left = 0 /\ search.scan = {}
    /\ search.waiting = {}
    /\ search' = [search EXCEPT !.phase = "level", !.depth = @ + 1]

BFSCancelled ==
    /\ Phase("bfs", "take")
    /\ search.left > 0 /\ search.scan = {}
    /\ search' = [search EXCEPT !.phase = "cancelled"]

BFS ==
    \/ StartBFS
    \/ /\ \/ BFSLevel \/ BFSTake \/ BFSNextLevel \/ BFSCancelled
          \/ \E e \in EdgeIDs : BFSNeighbour(e)
          \/ \E item \in Waiting : BFSEnqueue(item)
       /\ UNCHANGED quiet

\* The DFS, one frame per call: the node, and the edges that its Range has yet to show.
StartDFS ==
    /\ search = NoSearch /\ Added
    /\ quiet' = TRUE
    /\ search' = [kind |-> "dfs", phase |-> "run", visited |-> {Start},
                  stack |-> <<[node |-> Start, todo |-> EdgeIDs]>>, path |-> <<>>]

Top == search.stack[Len(search.stack)]

PathOf(stack) == [i \in 1 .. Len(stack) |-> stack[i].node]

DFSEdge(e) ==
    /\ Phase("dfs", "run")
    /\ e \in Top.todo
    /\ LET to == IF e \in out[Top.node] THEN edges[e][2] ELSE Top.node
           rest == [search.stack EXCEPT ![Len(search.stack)].todo = @ \ {e}]
       IN  search' =
             IF to = Target
               THEN [search EXCEPT !.phase = "done", !.path = Append(PathOf(search.stack), to)]
             ELSE IF to \in search.visited
               THEN [search EXCEPT !.stack = rest]
             ELSE [search EXCEPT !.visited = @ \cup {to},
                                 !.stack = Append(rest, [node |-> to, todo |-> EdgeIDs])]

\* The last return closes the channel, and the caller is given nil.
DFSReturn ==
    /\ Phase("dfs", "run")
    /\ Top.todo = {}
    /\ LET rest == SubSeq(search.stack, 1, Len(search.stack) - 1)
       IN  search' = [search EXCEPT !.stack = rest, !.phase = IF rest = <<>> THEN "done" ELSE @]

\* The caller has waited for 5 s.
DFSTimeout ==
    /\ Phase("dfs", "run")
    /\ search' = [search EXCEPT !.phase = "timeout"]

\* The context is done: every call of dfs from then on returns false. The caller gets the
\* context's error, or nil without an error if the channel is closed before it looks.
DFSCancelled ==
    /\ Phase("dfs", "run")
    /\ \E outcome \in {"cancelled", "nothing"} : search' = [search EXCEPT !.phase = outcome]

DFS ==
    \/ StartDFS
    \/ (DFSReturn \/ DFSTimeout \/ DFSCancelled \/ \E e \in EdgeIDs : DFSEdge(e)) /\ UNCHANGED quiet

Searching == BFS \/ DFS

LockFreeNext ==
    \/ \E p \in Adders : AddEdge(p) /\ UNCHANGED <<search, quiet>>
    \/ Searching /\ UNCHANGED <<adding, nodes, edges, out, in, nodeCount, edgeCount>>

Links == {edges[e] : e \in UNION {out[n] : n \in GraphNodes}}

\* The counters are what the maps hold, less what the adders have yet to count, and an edge
\* is in the lists of both its ends once it has been added.
CountsRight ==
    /\ nodeCount = Cardinality(nodes)
                     - Cardinality({p \in Adders : At(p, "fromCount") \/ At(p, "toCount")})
    /\ edgeCount = Cardinality(DOMAIN edges)
                     - Cardinality({p \in Adders : adding[p].at \in {"out", "in", "count"}})
    /\ Added => \A e \in DOMAIN edges : e \in out[edges[e][1]] /\ e \in in[edges[e][2]]
    /\ \A n \in GraphNodes : \A e \in out[n] : edges[e][1] = n

\* A BFS lists a node once, by levels, and never nearer than it is; one that no AddEdge
\* disturbs lists all nodes nearer than its depth, at their distance. A DFS that nobody
\* disturbs or cancels returns a path to the target, if there is one, and else nil.
SearchesRight ==
    /\ Phase("bfs", "done") \/ Phase("bfs", "cancelled") =>
          /\ \A i, j \in DOMAIN search.results : i < j =>
                /\ search.results[i].node # search.results[j].node
                /\ search.results[i].dist <= search.results[j].dist
          /\ \A i \in DOMAIN search.results :
                search.results[i].dist >= Distance(Links, Start, search.results[i].node)
    /\ Phase("bfs", "done") /\ quiet =>
          {search.results[i] : i \in DOMAIN search.results}
            = {[node |-> n, dist |-> Distance(Links, Start, n)] :
                  n \in {m \in GraphNodes : Distance(Links, Start, m) < search.max}}
    /\ Phase("dfs", "done") =>
          /\ search.path # <<>> <=> Target \in Reached(Links, Start)[Cardinality(GraphNodes)]
          /\ \A i \in 1 .. Len(search.path) - 1 : <<search.path[i], search.path[i + 1]>> \in Links

\* A level that is wider than the queue: its goroutines wait for the queue, and the BFS
\* for them.
BFSStuck == Waiting # {} /\ Len(search.queue) = QueueSize /\ search.left = 0 /\ search.scan = {}

SearchUnderWay == search.kind # "none"

SearchOver == search.phase \in {"done", "cancelled", "nothing", "timeout", "not found"} \/ BFSStuck
-----------------------------------------------------------------------------
\* The partitioned graph. Two processes build it, and a third traverses it.
Parts == {0, 1}

Processes == {"p1", "p2", "t"}

NodeCall(n) == [kind |-> "node", needs |-> <<n>>]
EdgeCall(id, from, to) == [kind |-> "edge", id |-> id, needs |-> <<from, to>>]

\* What the second process may do while the first adds A and the edge from A to B
Scripts ==
    {<<NodeCall("B"), EdgeCall("e2", "B", "C")>>, <<EdgeCall("e2", "B", "C"), NodeCall("B")>>,
     <<NodeCall("A"), EdgeCall("e2", "A", "C")>>}

Idle(script) == [script |-> script, got |-> <<>>, at |-> "lookup", next |-> 0, min |-> 0, load |-> 0]

PartitionInit ==
    /\ \E s \in Scripts :
          calling = [p1 |-> Idle(<<NodeCall("A"), EdgeCall("e1", "A", "B")>>), p2 |-> Idle(s),
                     t |-> Idle(<<[kind |-> "traverse", needs |-> <<Start>>]>>)]
    /\ router = [n \in {} |-> 0]
    /\ loadFactor = [i \in Parts |-> 0]
    /\ partition = [i \in Parts |-> [nodes |-> [n \in {} |-> {}], edges |-> [e \in {} |-> <<>>]]]
    /\ raced = {}
    /\ traversal = [phase |-> "idle", quiet |-> FALSE, visited |-> <<>>, tasks |-> {}]

With(f, k, v) == [x \in DOMAIN f \cup {k} |-> IF x = k THEN v ELSE f[x]]

Call(p) == Head(calling[p].script)

InCall(p, step) == calling[p].script # <<>> /\ calling[p].at = step

Placed(p) == Len(calling[p].got) = Len(Call(p).needs)

\* The node that the getPartition of p is about
Wanted(p) == Call(p).needs[Len(calling[p].got) + 1]

Lookup(p) ==
    /\ InCall(p, "lookup") /\ ~Placed(p)
    /\ calling' = IF Wanted(p) \in DOMAIN router
                    THEN [calling EXCEPT ![p].got = Append(@, router[Wanted(p)])]
                    ELSE [calling EXCEPT ![p].at = "loads"]
    /\ UNCHANGED <<router, loadFactor, raced>>

\* The loads are read one by one, the lock having been given back; the first lowest is it.
ReadLoad(p) ==
    /\ InCall(p, "loads")
    /\ LET i == calling[p].next
           lower == i = 0 \/ loadFactor[i] < calling[p].load
       IN  calling' = [calling EXCEPT
             ![p].at = IF i + 1 \in Parts THEN "loads" ELSE "assign",
             ![p].next = IF i + 1 \in Parts THEN i + 1 ELSE 0,
             ![p].min = IF lower THEN i ELSE @,
             ![p].load = IF lower THEN loadFactor[i] ELSE @]
    /\ UNCHANGED <<router, loadFactor, raced>>

Assign(p) ==
    /\ InCall(p, "assign")
    /\ router' = With(router, Wanted(p), calling[p].min)
    /\ raced' = raced \cup (DOMAIN router \cap {Wanted(p)})
    /\ calling' = [calling EXCEPT ![p].at = "count", ![p].load = 0]
    /\ UNCHANGED loadFactor

\* Faulty: the load of a new node is not counted.
CountLoadNot(p) ==
    /\ InCall(p, "count")
    /\ calling' = [calling EXCEPT ![p].at = "lookup", ![p].got = Append(@, calling[p].min)]
    /\ UNCHANGED <<router, raced, loadFactor>>

CountLoad(p) ==
    /\ InCall(p, "count")
    /\ loadFactor' = [loadFactor EXCEPT ![calling[p].min] = @ + 1]
    /\ calling' = [calling EXCEPT ![p].at = "lookup", ![p].got = Append(@, calling[p].min)]
    /\ UNCHANGED <<router, raced>>

getPartition(p) ==
    /\ Lookup(p) \/ ReadLoad(p) \/ Assign(p) \/ CountLoad(p)
    /\ UNCHANGED <<partition, traversal>>

Returns(p) == calling' = [calling EXCEPT ![p] = Idle(Tail(@.script))]

\* A node that is there already is replaced, and its list of edges with it.
PutNode(p) ==
    /\ InCall(p, "lookup") /\ Call(p).kind = "node" /\ Placed(p)
    /\ partition' = [partition EXCEPT ![calling[p].got[1]].nodes = With(@, Call(p).needs[1], {})]
    /\ Returns(p)
    /\ UNCHANGED <<router, loadFactor, raced, traversal>>

\* An edge is listed by its node only if the node is there.
PutEdge(p) ==
    /\ InCall(p, "lookup") /\ Call(p).kind = "edge" /\ Placed(p)
    /\ LET c == Call(p)
           i == calling[p].got[1]
           from == c.needs[1]
           old == partition[i].nodes
       IN  partition' = [partition EXCEPT
             ![i].edges = With(@, c.id, [to |-> c.needs[2], part |-> calling[p].got[2]]),
             ![i].nodes = IF from \in DOMAIN old THEN With(old, from, old[from] \cup {c.id}) ELSE old]
    /\ Returns(p)
    /\ UNCHANGED <<router, loadFactor, raced, traversal>>

StartTraversal(p) ==
    /\ InCall(p, "lookup") /\ Call(p).kind = "traverse" /\ Placed(p)
    /\ traversal' = [phase |-> "run", visited |-> <<>>,
                     quiet |-> calling["p1"].script = <<>> /\ calling["p2"].script = <<>>,
                     tasks |-> {[node |-> Start, part |-> calling[p].got[1]]}]
    /\ Returns(p)
    /\ UNCHANGED <<router, loadFactor, raced, partition>>

Visited(n) == \E i \in DOMAIN traversal.visited : traversal.visited[i] = n

\* Faulty: the edges are followed in the partition of the node that they come from.
TraverseHere(task) ==
    /\ traversal.phase \in {"run", "timeout"}
    /\ LET here == partition[task.part]
           next == IF task.node \in DOMAIN here.nodes
                     THEN {[node |-> here.edges[e].to, part |-> task.part] : e \in here.nodes[task.node]}
                     ELSE {}
       IN  traversal' = [traversal EXCEPT
             !.tasks = (@ \ {task}) \cup (IF Visited(task.node) THEN {} ELSE next),
             !.visited = IF Visited(task.node) THEN @ ELSE Append(@, task.node)]
    /\ UNCHANGED <<calling, router, loadFactor, partition, raced>>

\* A goroutine of the traversal; what it lists starts a goroutine each.
Traverse(task) ==
    /\ traversal.phase \in {"run", "timeout"}
    /\ LET here == partition[task.part]
           next == IF task.node \in DOMAIN here.nodes
                     THEN {[node |-> here.edges[e].to, part |-> here.edges[e].part] :
                              e \in here.nodes[task.node]}
                     ELSE {}
       IN  traversal' = [traversal EXCEPT
             !.tasks = (@ \ {task}) \cup (IF Visited(task.node) THEN {} ELSE next),
             !.visited = IF Visited(task.node) THEN @ ELSE Append(@, task.node)]
    /\ UNCHANGED <<calling, router, loadFactor, partition, raced>>

TraversalReturns ==
    /\ traversal.phase = "run"
    /\ \E phase \in IF traversal.tasks = {} THEN {"done", "timeout"} ELSE {"timeout"} :
          traversal' = [traversal EXCEPT !.phase = phase]
    /\ UNCHANGED <<calling, router, loadFactor, partition, raced>>

PartitionNext ==
    \/ \E p \in Processes : getPartition(p) \/ PutNode(p) \/ PutEdge(p) \/ StartTraversal(p)
    \/ \E task \in traversal.tasks : Traverse(task)
    \/ TraversalReturns

\* The links that the nodes list, and where each leads
Listed ==
    UNION {UNION {{<<n, partition[i].edges[e].to>> : e \in partition[i].nodes[n]} :
                     n \in DOMAIN partition[i].nodes} : i \in Parts}

\* A node that no two calls placed at once is where the router says and nowhere else, and
\* the loads are the nodes that have been placed.
PartitionsRight ==
    /\ \A i \in Parts : DOMAIN partition[i].nodes \ raced \subseteq {n \in DOMAIN router : router[n] = i}
    /\ raced = {} => \A i \in Parts :
          loadFactor[i] + Cardinality({p \in Processes : InCall(p, "count") /\ calling[p].min = i})
            = Cardinality({n \in DOMAIN router : router[n] = i})

\* A traversal lists a node once, and none that no path leads to; one that nobody disturbs,
\* and no doubly placed node, lists all that a path leads to.
TraversalRight ==
    LET seen == traversal.visited
        all == {seen[i] : i \in DOMAIN seen}
    IN  /\ Cardinality(all) = Len(seen)
        /\ traversal.quiet => all \subseteq Reached(Listed, Start)[Cardinality(GraphNodes)]
        /\ traversal.phase = "done" /\ traversal.quiet /\ raced = {} =>
              all = Reached(Listed, Start)[Cardinality(GraphNodes)]
-----------------------------------------------------------------------------
TxNodes == {"X", "Y", "Z"}

\* Z does not exist for the transactions: they may write it, in vain.
Existing == {"X", "Y"}

Transactions == 1 .. 3

\* ReadSet and WriteSet of the transactions
Plans ==
    <<[reads |-> {"X"}, writes |-> {"X"}], [reads |-> {"X", "Y"}, writes |-> {"Y"}],
      [reads |-> {"Y"}, writes |-> {"X", "Z"}]>>

Active(plan) ==
    [plan |-> plan, at |-> "active", seen |-> [n \in {} |-> 0], left |-> plan.reads, stamp |-> 0]

TxInit ==
    /\ \E i, j, k \in DOMAIN Plans :
          i <= j /\ j <= k /\ tx = <<Active(Plans[i]), Active(Plans[j]), Active(Plans[k])>>
    /\ version = [n \in Existing |-> 0]
    /\ globalClock = 0
    /\ overwritten = [t \in Transactions |-> {}]

ReadNode(t, n) ==
    /\ tx[t].at = "active" /\ n \in tx[t].left
    /\ tx' = [tx EXCEPT ![t].left = @ \ {n},
                        ![t].seen = [m \in DOMAIN @ \cup {n} |-> IF m = n THEN version[n] ELSE @[m]]]
    /\ UNCHANGED <<version, globalClock, overwritten>>

\* UpdateNode only fills the WriteSet; Commit then starts with the validation.
Commit(t) ==
    /\ tx[t].at = "active" /\ tx[t].left = {}
    /\ tx' = [tx EXCEPT ![t].at = "validate", ![t].left = tx[t].plan.reads]
    /\ UNCHANGED <<version, globalClock, overwritten>>

\* Faulty: a version that has grown is taken for a conflict, one that is smaller is not.
ConflictIfNewer(read, now) == now > read

Conflict(read, now) == now # read

\* After a conflict the transaction stays "active" for the manager, but its caller gives up.
Validate(t, n) ==
    /\ tx[t].at = "validate" /\ n \in tx[t].left
    /\ tx' = IF Conflict(tx[t].seen[n], version[n])
               THEN [tx EXCEPT ![t].at = "failed"]
               ELSE [tx EXCEPT ![t].left = @ \ {n}]
    /\ UNCHANGED <<version, globalClock, overwritten>>

TakeVersion(t) ==
    /\ tx[t].at = "validate" /\ tx[t].left = {}
    /\ globalClock' = globalClock + 1
    /\ tx' = [tx EXCEPT ![t].at = "write", ![t].left = tx[t].plan.writes,
                        ![t].stamp = globalClock + 1]
    /\ UNCHANGED <<version, overwritten>>

\* Every other transaction that has read n and not called Commit now holds an old version.
Write(t, n) ==
    /\ tx[t].at = "write" /\ n \in tx[t].left
    /\ tx' = [tx EXCEPT ![t].left = @ \ {n}]
    /\ IF n \in Existing
         THEN /\ version' = [version EXCEPT ![n] = tx[t].stamp]
              /\ overwritten' = [u \in Transactions |-> overwritten[u] \cup
                    (IF u # t /\ tx[u].at = "active" THEN {n} \cap DOMAIN tx[u].seen ELSE {})]
         ELSE UNCHANGED <<version, overwritten>>
    /\ UNCHANGED globalClock

Committed(t) ==
    /\ tx[t].at = "write" /\ tx[t].left = {}
    /\ tx' = [tx EXCEPT ![t].at = "committed"]
    /\ UNCHANGED <<version, globalClock, overwritten>>

TxNext ==
    \E t \in Transactions :
        \/ Commit(t) \/ TakeVersion(t) \/ Committed(t)
        \/ \E n \in TxNodes : ReadNode(t, n) \/ Validate(t, n) \/ Write(t, n)

\* A transaction whose reads were overwritten before it called Commit does not commit, even
\* though a node's version may go down when commits overlap; one that fails has written
\* nothing; and no two commits share a version.
StaleReadsRejected ==
    \A t \in Transactions :
        /\ tx[t].at \in {"write", "committed"} => overwritten[t] = {}
        /\ tx[t].at = "failed" => tx[t].stamp = 0
        /\ \A u \in Transactions \ {t} : tx[t].stamp = tx[u].stamp => tx[t].stamp = 0
        /\ tx[t].at = "committed" => \A n \in tx[t].plan.writes \cap Existing : version[n] > 0
-----------------------------------------------------------------------------
\* CycleDetection from X: a frame per call of dfs, with the edges it has yet to follow.
Frame(n) == [node |-> n, todo |-> {l \in links : l[1] = n}]

CycleInit ==
    /\ links \in SUBSET {l \in TxNodes \X TxNodes : l # <<"Y", "Y">> /\ l # <<"Z", "Z">>}
    /\ walk = [stack |-> <<Frame("X")>>, visited |-> {"X"}, cycle |-> <<>>, done |-> FALSE]

Last(s) == s[Len(s)]

\* recStack holds the nodes of the calls that have not returned.
Place(n) == {i \in DOMAIN walk.stack : walk.stack[i].node = n}

\* Faulty: a node that has been visited counts as a cycle, wherever it was visited.
FollowVisited(l) ==
    /\ ~walk.done /\ l \in Last(walk.stack).todo
    /\ LET rest == [walk.stack EXCEPT ![Len(walk.stack)].todo = @ \ {l}]
       IN  walk' = IF l[2] \notin walk.visited
                     THEN [walk EXCEPT !.visited = @ \cup {l[2]}, !.stack = Append(rest, Frame(l[2]))]
                     ELSE [walk EXCEPT !.done = TRUE, !.cycle = PathOf(walk.stack)]
    /\ UNCHANGED links

Follow(l) ==
    /\ ~walk.done /\ l \in Last(walk.stack).todo
    /\ LET rest == [walk.stack EXCEPT ![Len(walk.stack)].todo = @ \ {l}]
       IN  walk' = IF l[2] \notin walk.visited
                     THEN [walk EXCEPT !.visited = @ \cup {l[2]}, !.stack = Append(rest, Frame(l[2]))]
                   ELSE IF Place(l[2]) # {}
                     THEN LET i == CHOOSE j \in Place(l[2]) : TRUE
                          IN  [walk EXCEPT !.done = TRUE,
                                           !.cycle = SubSeq(PathOf(walk.stack), i, Len(walk.stack))]
                   ELSE [walk EXCEPT !.stack = rest]
    /\ UNCHANGED links

DfsReturn ==
    /\ ~walk.done /\ Last(walk.stack).todo = {}
    /\ walk' = [walk EXCEPT !.stack = SubSeq(@, 1, Len(@) - 1), !.done = Len(walk.stack) = 1]
    /\ UNCHANGED links

CycleNext == DfsReturn \/ \E l \in links : Follow(l)

\* The nodes that n leads to, in one step or more
Leads ==
    LET step[i \in Nat] ==
            IF i = 0 THEN links
            ELSE step[i - 1] \cup {<<p[1][1], p[2][2]>> : p \in {q \in step[i - 1] \X step[i - 1] : q[1][2] = q[2][1]}}
    IN  step[2]

\* A cycle is found exactly if X leads to one, whatever the order of the edges, and what is
\* returned is one.
CycleFound ==
    walk.done =>
        /\ walk.cycle # <<>> <=>
              \E n \in TxNodes : <<n, n>> \in Leads /\ (n = "X" \/ <<"X", n>> \in Leads)
        /\ \A i \in DOMAIN walk.cycle :
              <<walk.cycle[i], walk.cycle[IF i = Len(walk.cycle) THEN 1 ELSE i + 1]>> \in links
==============================================================================
