CONSTANTS
    c1 = c1
    c2 = c2
    Consumers = {c1, c2}
    Readers = {c1, c2}
    maxRetries = 2
    MaxSent = 2
    Topics <- MCTopics
    NumPartitions <- MCNumPartitions
    MaxJoins = 3
    x1 = x1
    x2 = x2
    m1 = m1
    m2 = m2
    m3 = m3
    Txs = {x1, x2}
    Msgs = {m1, m2, m3}
    TxOf <- MCTxOf
    Place <- MCPlace
    Commits = {1, 2}
    None = None
SPECIFICATION BusSpec
\* Once every consumer has timed out, or every message is sent and every commit made,
\* nothing is left to do.
CHECK_DEADLOCK FALSE
INVARIANTS SettledAssignment CommittedLog NoMessageLost
PROPERTY BusProgress
