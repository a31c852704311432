CONSTANTS
  Participants = {p1, p2, p3}
  Txs = {t1, t2}
  Orders = {1, 2, 3}
  stock = 4
  credit = 3
  UserCommands = {k1, k2, k3}
  Fields = {name, email}
  Streams = {s1, s2}
  snapshotInterval = 3
  MaxEvents = 7
  MaxPublished = 4
  Miners = {m1, m2, m3}
  Transfers = {x1, x2, x3}
  ReplicaCount = 4
  MaxProposals = 2
  MaxInbox = 8
  Proposals = {c1, c2}
  Peers = {n2, n3}
  MaxTerm = 2
  Sagas = {s1, s2}
  MaxRuns = 2
  CompensationMayFail = TRUE
  SagaOrders = {s1, s2, s3}
  Capacity = 3
  MaxTask = 2
  FreeTasks = 1
  Workers = {0, 1}
  Retries = {0, 2}
  MailboxSize = 1
  MaxSends = 3
  maxRestarts = 1
  Requests = {"increment"}
  StreamBuffer = 2
  MaxItems = 4
  MaxDrains = 2
  IntMax = 7
  Nodes = {n1, n2}
  MaxLockCalls = 3
  None = None
  NoData = NoData
SPECIFICATION Spec
INVARIANTS StoresAgree ChainsValid SagasConsistent ServicesRight
PROPERTY WorkEnds
CHECK_DEADLOCK FALSE
