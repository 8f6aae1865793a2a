\* One thread, one queue: the payload of a timer re-enters Clear.
CONSTANTS
  ta = ta  tb = tb  tc = tc  qa = qa  qb = qb  qc = qc  h1 = h1  h2 = h2
  Threads = {ta}
  Queues = {qa}
  Listed <- LoopListed
  Handlers = {h1, h2}
  Messages = {"t1", "t2", "t3"}
  HandlerOf <- LoopOf
  Reenters <- LoopReenters
  Ready <- LoopReady
  Timers <- LoopTimers
  Calls = {"all1"}
  Kind <- LoopKind
  By <- LoopBy
  About <- LoopAbout
  For <- LoopFor
  Nil = Nil
SPECIFICATION Spec
INVARIANT
  DeletedOnce
CHECK_DEADLOCK FALSE
