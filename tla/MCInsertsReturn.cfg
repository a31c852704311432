SPECIFICATION Spec
CONSTANTS
    Stores = {"columns"}
    MaxDepth = 3
    QueueSize = 1
    MaxTime = 2
    MaxPoints = 4
    MaxBuffered = 2
    BlockSize = 2
    GroupSize = 2
    MaxPuts = 4
    MaxMemtable = 1
    MaxOps = 4
    MaxFailures = 1
    ShortData = 3
    DataChunks = 2
    ParityChunks = 1
    Requests = {q1, q2, q3}
    LoadsMayFail = FALSE
    HotReaders = {r1, r2, r3, r4}
    HotWriters = {w1, w2}
    threshold = 2
    Readers = {r1, r2}
    MaxWrites = 3
    Nodes = {n1}
    Capacity = 1
    None = None
INVARIANT InsertsReturn
CHECK_DEADLOCK FALSE
