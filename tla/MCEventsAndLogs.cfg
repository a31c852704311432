CONSTANTS
  Calls = {c1, c2, c3}
  ReliableEvents = {"e"}
  Events = {e1, e2, e3}
  Entries = {n1, n2, n3}
  Workers = {w1, w2}
  Subscribers = {1, 10}
  Sinks = {s1, s2}
  StructuredSinks = {"sink"}
  MultiSinks = {"sink", "file"}
  MaxVisits = 4
  TraceIDs = {t1}
  Processor = Processor
  None = None
  historyTTL = 1
  MaxHandlers = 2
  MaxTime = 2
  bufferSize = 1
  ringSize = 2
  batchSize = 2
  maxFailures = 2
  cooldown = 1
  MaxRetries = 1
  MaxEvents = 3
  BufferSize = 1
  openAfter = 3
  MaxEntries = 3
  RingSize = 2
  BatchSize = 2
SPECIFICATION Spec
INVARIANTS EventsKept EntriesKept PracticalRight
PROPERTIES StuckBreakerStays EntriesFlushed
CHECK_DEADLOCK FALSE
