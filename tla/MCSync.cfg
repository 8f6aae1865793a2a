\* Two slots, five bottles inserted: the indices wrap three times; two or
\* three threads for each of the other components.
CONSTANTS
  t1 = t1  t2 = t2  t3 = t3  o1 = o1  o2 = o2  f1 = f1
  stdout = stdout  NoFile = NoFile  NoThread = NoThread  nullptr = nullptr
  Size = 2
  Bottles = {1, 2, 3, 4}
  MaxFills = 5
  Waiters = {t1, t2}
  InitiallySignaled = FALSE
  Delays = {1, 2}
  DefaultWarn = 1
  MaxTime = 2
  LockThreads = {t1, t2, t3}
  LockDepth = 2
  RaceThreads = {t1, t2}
  RaceDepth = 2
  MaxScopes = 3
  RefThreads = {t1, t2}
  RefSlots = {1, 2}
  Objects = {o1, o2}
  Spawned = {1, 2}
  Results = {0, 1}
  PrioRange <- MCPrioRange
  TraceThreads = {t1}
  Files = {f1}
  Levels = {1, 2}
  MaxStreams = 2
  MaxRows = 3
  WrapLines = {0, 1, 3}
  MaxMessage = 100
  MsgLengths = {0, 100}
  MaxLines = 5
SPECIFICATION MCSpec
INVARIANTS
  SlotExclusive
  NoSleepOverSignal
  LocksExclude
  CheckersTell
  CountIsReferences
  SpawnIsSound
  StreamsShowNewest
PROPERTIES
  ImplementsFifo
  ImplementsSignal
  InsertedIsTaken
CHECK_DEADLOCK FALSE
