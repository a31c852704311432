CONSTANTS
  Nodes = {A, B, C}
  Senders = {s1, s2, s3}
  Processes = {1, 2}
  Goroutines = {g1, g2}
  MaxOps = 3
  MaxSeq = 5
  MaxAdds = 6
  maxBufferSize = 2
  Workers = {w1, w2, w3}
  maxInflight = 1
  capacity = 1
  MaxTasks = 4
  Requests = {r1, r2, r3, r4}
  maxTokens = 2
  threshold = 2
  resetTimeout = 1
  MaxRefills = 2
  initialSize = 6
  shrinkAbove = 4
  growBelow = 9
  manyDrops = 1
  highThroughput = 2
  dropPolicy = "tail"
  MaxItems = 12
  Events = {e1, e2, e3}
  MaxStamp = 2
  MaxTime = 7
  maxEvents = 2
  MarkEvents = {c1}
  Updates = {u1, u2}
  start = 1
  MaxMark = 3
  allowedLateness = 1
  MaxOffset = 3
  maxHistory = 2
  MaxSteps = 6
  MaxConsumers = 2
  Partitions = {0, 1}
  KeyPartitions = {1}
  MaxMessages = 2
  MaxRounds = 2
  MaxCallers = 5
  FewCallers = 3
  Limit = 2
  MaxTicks = 4
  MaxCalls = 6
  None = None
SPECIFICATION Spec
INVARIANTS OrderKept FlowBounded StreamExact ObjectsRight
PROPERTY WaitsEnd
CHECK_DEADLOCK FALSE
